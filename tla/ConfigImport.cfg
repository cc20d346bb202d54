\* Two operations on two resources, one of which cannot be deleted twice.
SPECIFICATION MCSpec
CONSTANTS
    None = None
    Old = Old
    New = New
    Runs = {w1, w2}
    Resources = {1, 2}
    Strict = {1}
    KeyChains = {2}
    Rotated = Rotated
    Docs <- SomeDocs
    Folders <- SomeFolders
    Bundle <- SomeBundle
    Modes = {"upsert", "replace"}
SYMMETRY Symmetry
INVARIANTS
    TypeOK
    ReportCoversEffects
    
    
PROPERTY
    DetachedKept
CHECK_DEADLOCK FALSE
