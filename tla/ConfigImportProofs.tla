------------------------- MODULE ConfigImportProofs -------------------------
(***************************************************************************)
(* The journal of configuration operations, for every number of operations *)
(* and resources, wherever replicas stop and tasks fail.                   *)
(*                                                                         *)
(* The argument: one row runs (Lock), and every live operation has it      *)
(* unless an operator took it away (Live), so nobody else changes what an  *)
(* import has planned for.  The tasks of an operation in memory account    *)
(* for what it has changed, and so do those in its row (Accounts), because *)
(* a task is stored as running before it runs (Started) and there is one   *)
(* current task (CurrentUnique).                                           *)
(*                                                                         *)
(* While nobody takes the lock away, nobody else changes what an import    *)
(* has planned for, but the keys of chains (ReplacedKeeps): none of its    *)
(* open tasks has run (Fresh), and what has no task that is still due is   *)
(* as its documents want it (Progress).  When it has no open task left,    *)
(* that is all of it.                                                      *)
(***************************************************************************)
EXTENDS ConfigImport, TLAPS

\* The types of the journal and of what replicas know of it.
JournalTypes ==
    /\ status \in [Runs -> Statuses]
    /\ at \in [Runs -> Places]
    /\ ops \in [Runs -> Reports]
    /\ report \in [Runs -> Reports]
    /\ touched \in [Runs -> SUBSET Tasks]
    /\ DOMAIN job = Runs /\ DOMAIN reviewed = Runs
    /\ DOMAIN resource = Resources /\ DOMAIN meta = Resources

\* What an operation is, while that decides what it may do.
Chosen ==
    \A w \in Runs :
        /\ at[w] = "check" => job[w].r \in Resources /\ job[w].kind \in Edits
        /\ at[w] = "detach" => job[w].kind = "detach"

Lock == \A v, w \in Runs : status[v] = "running" /\ status[w] = "running" => v = w

Idle == {"idle", "reviewed", "over"}
Live == \A w \in Runs : at[w] \notin Idle /\ ~mistaken => status[w] = "running"

Covers(w, tasks) ==
    /\ \A t \in touched[w] : t \in DOMAIN tasks /\ tasks[t] # "pending"
    /\ \A t \in DOMAIN tasks : tasks[t] = "completed" => t \in touched[w]

AccountsFor(w) ==
    /\ at[w] \in {"idle", "reviewed", "plan", "list", "check", "detach"} => touched[w] = {}
    /\ Covers(w, report[w])
    /\ at[w] # "over" => Covers(w, ops[w])

StartedBy(w) ==
    at[w] \in {"run", "done"} =>
        /\ report[w] = ops[w]
        /\ \A t \in Current(w) : /\ ops[w][t] = "running"
                                 /\ at[w] = "done" => t \in touched[w]

Accounts == \A w \in Runs : AccountsFor(w)
Started == \A w \in Runs : StartedBy(w)

Applying == {"list", "start", "run", "done", "complete"}

\* The configuration, and what replicas know of operations.
ConfigTypes ==
    /\ resource \in [Resources -> Contents]
    /\ meta \in [Resources -> Metas \cup {None}]

Jobs == [kind : Imports \cup Edits \cup {"detach"}, mode : Modes \cup {"upsert", None},
         r : Resources \cup {None}]

RunTypes ==
    /\ job \in [Runs -> Jobs \cup {None}]
    /\ docs \in [Runs -> Documents]
    /\ mistaken \in BOOLEAN

HasTask(w, stage, r) == Task(stage, r) \in DOMAIN ops[w]
HasRun(w, stage, r) == Task(stage, r) \in touched[w]
Due(w, stage, r) == HasTask(w, stage, r) /\ ~HasRun(w, stage, r)

\* An import writes what its documents describe, and deletes only what they do not.
PlannedFor(w) ==
    /\ \A t \in DOMAIN ops[w] :
          t.stage \in {"resource", "ownership"} <=> t.r \in Described(w)
    /\ \A r \in Resources : HasTask(w, "resource", r) => HasTask(w, "ownership", r)
    /\ \A r \in Resources : HasTask(w, "delete-ownership", r) => HasTask(w, "delete", r)

Planned == \A w \in Runs : at[w] \in Applying /\ Import(w) => PlannedFor(w)

\* How far an import is with a resource that its documents describe, or do not.
AppliedTo(w, r) ==
    /\ ~HasTask(w, "ownership", r) =>
          Skipped(w, r) \/ (AsDescribed(w, r) /\ ~MetadataChanged(w, r))
    /\ HasTask(w, "ownership", r) /\ ~Due(w, "resource", r) => AsDescribed(w, r)
    /\ HasRun(w, "ownership", r) => ~MetadataChanged(w, r)
    /\ Due(w, "resource", r) => ~Skipped(w, r)
DroppedFrom(w, r) ==
    /\ Due(w, "delete", r) => Managed(r, Source(w))
    /\ r \in Dropped(w) => Due(w, "delete-ownership", r)

ProgressOf(w) ==
    /\ \A r \in Described(w) : AppliedTo(w, r)
    /\ \A r \in Resources \ Described(w) : DroppedFrom(w, r)

Progress == \A w \in Runs : at[w] \in Applying /\ Import(w) /\ ~mistaken => ProgressOf(w)

\* Tasks of an import run once.
FreshFor(w) ==
    /\ at[w] \in {"list", "start", "run"} => Open(w) \cap touched[w] = {}
    /\ at[w] = "done" => Open(w) \cap touched[w] \subseteq Current(w)
    /\ at[w] = "complete" => Open(w) = {}
Fresh == \A w \in Runs : at[w] \in Applying /\ Import(w) => FreshFor(w)

TypesInv == JournalTypes /\ Chosen /\ ConfigTypes /\ RunTypes /\ Planned

JournalInv == JournalTypes /\ Chosen /\ Accounts /\ Started
LockInv == JournalTypes /\ Chosen /\ Lock /\ Live /\ AppliedAsReviewed
-----------------------------------------------------------------------------
(***************************************************************************)
(* Tasks.                                                                  *)
(***************************************************************************)
LEMMA CurrentUnique ==
    ASSUME NEW w \in Runs, ops[w] \in Reports, NEW t \in Current(w), NEW u \in Current(w)
    PROVE  t = u
<1> SUFFICES ASSUME t # u PROVE FALSE
  OBVIOUS
<1>1. t \in Tasks /\ u \in Tasks
  BY DEF Current, Open, Reports
<1>2. Before(t, u) /\ Before(u, t)
  BY DEF Current
<1>3. t.r \in Nat /\ u.r \in Nat
  BY <1>1, ResourcesNumbered DEF Tasks
<1> QED
  BY <1>2, <1>3 DEF Before

LEMMA CurrentInDomain ==
    ASSUME NEW w \in Runs, NEW t \in Current(w)
    PROVE  t \in DOMAIN ops[w] /\ ops[w][t] # "completed"
BY DEF Current, Open

LEMMA WithType ==
    ASSUME JournalTypes, NEW w \in Runs, NEW t \in Current(w), NEW outcome \in TaskStatuses
    PROVE  /\ With(w, t, outcome) \in Reports
           /\ DOMAIN With(w, t, outcome) = DOMAIN ops[w]
           /\ With(w, t, outcome)[t] = outcome
           /\ \A u \in DOMAIN ops[w] \ {t} : With(w, t, outcome)[u] = ops[w][u]
<1>1. PICK T \in SUBSET Tasks : ops[w] \in [T -> TaskStatuses]
  BY DEF JournalTypes, Reports
<1>2. t \in T
  BY <1>1, CurrentInDomain
<1>3. With(w, t, outcome) \in [T -> TaskStatuses]
  BY <1>1, <1>2 DEF With
<1> QED
  BY <1>1, <1>2, <1>3 DEF With, Reports

LEMMA ReportsAre == \A T \in SUBSET Tasks : [T -> TaskStatuses] \subseteq Reports
BY DEF Reports

LEMMA NoTasksType == NoTasks \in Reports /\ DOMAIN NoTasks = {}
<1>1. NoTasks \in [{} -> TaskStatuses]
  BY DEF NoTasks
<1> QED
  BY <1>1, ReportsAre DEF NoTasks

LEMMA PlannedType ==
    ASSUME NEW w \in Runs
    PROVE  [t \in PlannedTasks(w) |-> "pending"] \in Reports
<1>1. PlannedTasks(w) \subseteq Tasks
  BY DEF PlannedTasks, Task, Tasks, Stages, Written, Claimed, Dropped, Described
<1>2. [t \in PlannedTasks(w) |-> "pending"] \in [PlannedTasks(w) -> TaskStatuses]
  BY DEF TaskStatuses
<1> QED
  BY <1>1, <1>2, ReportsAre

\* Both statuses an edit stores at once.
LEMMA EditTasksType ==
    ASSUME JournalTypes, NEW w \in Runs, NEW t \in Current(w)
    PROVE  AfterEdit(w, t) \in Reports
<1>1. PICK T \in SUBSET Tasks : ops[w] \in [T -> TaskStatuses]
  BY DEF JournalTypes, Reports
<1>2. AfterEdit(w, t) \in [T -> TaskStatuses]
  BY <1>1 DEF TaskStatuses, AfterEdit
<1> QED
  BY <1>2, ReportsAre
-----------------------------------------------------------------------------
(***************************************************************************)
(* Types.                                                                  *)
(***************************************************************************)
LEMMA InitTypes == Init => JournalTypes
<1> SUFFICES ASSUME Init PROVE JournalTypes
  OBVIOUS
<1>1. ops \in [Runs -> Reports] /\ report \in [Runs -> Reports]
  BY NoTasksType DEF Init
<1> QED
  BY <1>1 DEF Init, JournalTypes, Statuses, Places

LEMMA CheckpointTypes ==
    ASSUME JournalTypes, NEW w \in Runs, NEW tasks \in Reports, NEW lost \in Reports,
           NEW place \in Places, Checkpoint(w, tasks, place, lost)
    PROVE  /\ report' \in [Runs -> Reports] /\ ops' \in [Runs -> Reports]
           /\ at' \in [Runs -> Places]
BY DEF JournalTypes, Checkpoint, Go, Places

LEMMA TypesStep == JournalTypes /\ Chosen /\ [Next]_vars => JournalTypes'
<1> SUFFICES ASSUME JournalTypes, Chosen, [Next]_vars PROVE JournalTypes'
  OBVIOUS
<1> USE DEF JournalTypes
<1>1. ASSUME NEW w \in Runs, Startup(w) PROVE JournalTypes'
  BY <1>1 DEF Startup, Acquire, Go, config, Statuses, Places
<1>2. ASSUME NEW w \in Runs, Review(w) PROVE JournalTypes'
  <2>1. DOMAIN job' = Runs
    BY <1>2 DEF Review
  <2> QED
    BY <1>2, <2>1 DEF Review, Go, config, journal, Places
<1>3. ASSUME NEW w \in Runs, ApplyReviewed(w) PROVE JournalTypes'
  BY <1>3 DEF ApplyReviewed, Acquire, Go, config, Statuses, Places
<1>4. ASSUME NEW w \in Runs, Request(w) PROVE JournalTypes'
  BY <1>4 DEF Request, Acquire, Go, config, Statuses, Places
<1>5. ASSUME NEW w \in Runs, Plan(w) PROVE JournalTypes'
  BY <1>5, PlannedType DEF Plan, Go, config, journal, Places
<1>6. ASSUME NEW w \in Runs, ListTasks(w) PROVE JournalTypes'
  <2>1. PICK place \in {"complete", "start"} : Checkpoint(w, ops[w], place, ops[w])
    BY <1>6 DEF ListTasks
  <2> QED
    BY <1>6, <2>1, CheckpointTypes DEF ListTasks, config, Places
<1>7. ASSUME NEW w \in Runs, CheckMutable(w) PROVE JournalTypes'
  <2>1. PICK S \in SUBSET Stages :
           \/ ops' = ops
           \/ ops' = [ops EXCEPT ![w] = [t \in {Task(s, job[w].r) : s \in S} |-> "pending"]]
    BY <1>7 DEF CheckMutable, Stages
  <2>2. {Task(s, job[w].r) : s \in S} \subseteq Tasks
    BY <1>7 DEF CheckMutable, Task, Tasks, Chosen
  <2>3. [t \in {Task(s, job[w].r) : s \in S} |-> "pending"] \in Reports
    <3>1. [t \in {Task(s, job[w].r) : s \in S} |-> "pending"] \in
             [{Task(s, job[w].r) : s \in S} -> TaskStatuses]
      BY DEF TaskStatuses
    <3> QED
      BY <2>2, <3>1, ReportsAre
  <2>4. ops' \in [Runs -> Reports]
    BY <2>1, <2>3
  <2> QED
    BY <1>7, <2>4 DEF CheckMutable, Go, config, journal, Places
<1>8. ASSUME NEW w \in Runs, Detach(w) PROVE JournalTypes'
  BY <1>8 DEF Detach, Go, journal, Places
<1>9. ASSUME NEW w \in Runs, StartTask(w) PROVE JournalTypes'
  <2>1. PICK t \in Current(w) :
           Checkpoint(w, With(w, t, "running"), "run", With(w, t, "failed"))
    BY <1>9 DEF StartTask
  <2>2. With(w, t, "running") \in Reports /\ With(w, t, "failed") \in Reports
    BY WithType DEF TaskStatuses
  <2> QED
    BY <1>9, <2>1, <2>2, CheckpointTypes DEF StartTask, config, Places
<1>10. ASSUME NEW w \in Runs, RunTask(w) PROVE JournalTypes'
  <2>1. PICK t \in Current(w) :
          \/ Effect(w, t) /\ Go(w, "done") /\ UNCHANGED ops
          \/ /\ Effect(w, t) \/ UNCHANGED <<config, touched>>
             /\ ops' = IF Import(w) THEN [ops EXCEPT ![w] = With(w, t, "failed")] ELSE ops
             /\ Go(w, "fail")
    BY <1>10 DEF RunTask
  <2>2. t \in Tasks /\ With(w, t, "failed") \in Reports
    BY CurrentInDomain, WithType DEF TaskStatuses, Reports
  <2>3. ops' \in [Runs -> Reports] /\ at' \in [Runs -> Places]
    BY <2>1, <2>2 DEF Go, Places
  <2>4. /\ touched' \in [Runs -> SUBSET Tasks]
        /\ DOMAIN resource' = Resources /\ DOMAIN meta' = Resources
    BY <2>1, <2>2 DEF Effect, config
  <2> QED
    BY <1>10, <2>3, <2>4 DEF RunTask, journal
<1>11. ASSUME NEW w \in Runs, EndTask(w) PROVE JournalTypes'
  <2>1. PICK t \in Current(w), place \in {"complete", "start"} :
           Checkpoint(w, With(w, t, "completed"), place, With(w, t, "failed"))
    BY <1>11 DEF EndTask
  <2>2. With(w, t, "completed") \in Reports /\ With(w, t, "failed") \in Reports
    BY WithType DEF TaskStatuses
  <2> QED
    BY <1>11, <2>1, <2>2, CheckpointTypes DEF EndTask, config, Places
<1>12. ASSUME NEW w \in Runs, EndEditTask(w) PROVE JournalTypes'
  <2>1. PICK t \in Current(w) :
           \/ Checkpoint(w, AfterEdit(w, t), "run", AfterEdit(w, t))
           \/ ops' = [ops EXCEPT ![w] = AfterEdit(w, t)] /\ Go(w, "complete") /\ UNCHANGED report
    BY <1>12 DEF EndEditTask
  <2>2. AfterEdit(w, t) \in Reports
    BY EditTasksType
  <2>3. CASE Checkpoint(w, AfterEdit(w, t), "run", AfterEdit(w, t))
    BY <1>12, <2>2, <2>3, CheckpointTypes DEF EndEditTask, config, Places
  <2> QED
    BY <1>12, <2>1, <2>2, <2>3 DEF EndEditTask, Go, config, Places
<1>13. ASSUME NEW w \in Runs, Finish(w) PROVE JournalTypes'
  BY <1>13, NoTasksType DEF Finish, Forget, Go, config, journal, Statuses, Places
<1>14. ASSUME NEW w \in Runs, Crash(w) PROVE JournalTypes'
  BY <1>14, NoTasksType DEF Crash, Forget, Go, config, journal, Places
<1>15. ASSUME NEW w \in Runs, Recover(w) PROVE JournalTypes'
  BY <1>15 DEF Recover, config, Statuses
<1>16. ASSUME NEW r \in KeyChains, ReplaceKey(r) PROVE JournalTypes'
  BY <1>16 DEF ReplaceKey, journal
<1>17. CASE UNCHANGED vars
  BY <1>17 DEF vars, config, journal
<1> QED
  BY <1>1, <1>2, <1>3, <1>4, <1>5, <1>6, <1>7, <1>8, <1>9, <1>10, <1>11, <1>12, <1>13,
     <1>14, <1>15, <1>16, <1>17 DEF Next

LEMMA ChosenStep == JournalTypes /\ Chosen /\ [Next]_vars => Chosen'
<1> SUFFICES ASSUME JournalTypes, Chosen, [Next]_vars, NEW w \in Runs,
                    at'[w] \in {"check", "detach"}
             PROVE  /\ at'[w] = "check" => job'[w].r \in Resources /\ job'[w].kind \in Edits
                    /\ at'[w] = "detach" => job'[w].kind = "detach"
  BY DEF Chosen
<1> USE DEF JournalTypes
<1>1. CASE at'[w] = at[w] /\ job'[w] = job[w]
  BY <1>1 DEF Chosen
<1>2. CASE Request(w)
  BY <1>2 DEF Request, Acquire, Go
<1>3. ASSUME NEW v \in Runs, ~Request(w),
             \/ Startup(v) \/ Review(v) \/ ApplyReviewed(v) \/ Request(v)
             \/ Plan(v) \/ CheckMutable(v) \/ Detach(v)
      PROVE  at'[w] = at[w] /\ job'[w] = job[w]
  BY <1>3 DEF Startup, Review, ApplyReviewed, Request, Plan, CheckMutable, Detach, Acquire, Go
<1>4. ASSUME NEW v \in Runs, ListTasks(v) \/ StartTask(v) \/ RunTask(v) \/ EndTask(v)
                             \/ EndEditTask(v)
      PROVE  at'[w] = at[w] /\ job'[w] = job[w]
  BY <1>4 DEF ListTasks, StartTask, RunTask, EndTask, EndEditTask, Checkpoint, Go
<1>5. ASSUME NEW v \in Runs, Finish(v) \/ Crash(v) \/ Recover(v)
      PROVE  at'[w] = at[w] /\ job'[w] = job[w]
  BY <1>5 DEF Finish, Crash, Recover, Forget, Go
<1>6. CASE (\E r \in KeyChains : ReplaceKey(r)) \/ UNCHANGED vars
  BY <1>1, <1>6 DEF ReplaceKey, vars
<1> QED
  BY <1>1, <1>2, <1>3, <1>4, <1>5, <1>6 DEF Next
-----------------------------------------------------------------------------
(***************************************************************************)
(* The tasks in memory and in the row account for every effect.            *)
(***************************************************************************)
Local(v) ==
    \A w \in Runs \ {v} :
        /\ at'[w] = at[w] /\ ops'[w] = ops[w]
        /\ report'[w] = report[w] /\ touched'[w] = touched[w]

LEMMA Others ==
    ASSUME Accounts, Started, NEW v \in Runs, Local(v), AccountsFor(v)', StartedBy(v)'
    PROVE  Accounts' /\ Started'
<1>1. ASSUME NEW w \in Runs \ {v} PROVE AccountsFor(w)' /\ StartedBy(w)'
  BY <1>1 DEF Local, Accounts, Started, AccountsFor, StartedBy, Covers, Current, Open
<1> QED
  BY <1>1 DEF Accounts, Started

LEMMA CheckpointAccounts ==
    ASSUME JournalTypes, NEW w \in Runs, NEW tasks, NEW place, NEW lost,
           Checkpoint(w, tasks, place, lost), UNCHANGED touched, touched[w] # {} => at[w] # "over",
           place \in {"start", "run", "complete"},
           Covers(w, report[w]), Covers(w, tasks), Covers(w, lost)
    PROVE  /\ AccountsFor(w)' /\ Local(w)
           /\ \/ at'[w] = place /\ ops'[w] = tasks /\ report'[w] = tasks
              \/ at'[w] = "fail"
<1>1. Local(w)
  BY DEF JournalTypes, Checkpoint, Go, Local
<1>2. \/ at'[w] = place /\ ops'[w] = tasks /\ report'[w] = tasks
      \/ at'[w] = "fail" /\ ops'[w] = lost /\ report'[w] = report[w]
  BY DEF JournalTypes, Checkpoint, Go
<1>3. AccountsFor(w)'
  BY <1>2 DEF AccountsFor, Covers
<1> QED
  BY <1>1, <1>2, <1>3

\* A task that runs, fails or ends is the current one, and covered as such.
LEMMA WithCovers ==
    ASSUME JournalTypes, NEW w \in Runs, NEW t \in Current(w), NEW outcome \in TaskStatuses,
           Covers(w, ops[w]), outcome # "pending", outcome = "completed" => t \in touched[w]
    PROVE  Covers(w, With(w, t, outcome))
<1>1. t \in DOMAIN ops[w] /\ DOMAIN With(w, t, outcome) = DOMAIN ops[w]
  BY CurrentInDomain, WithType
<1>2. \A u \in DOMAIN ops[w] \ {t} : With(w, t, outcome)[u] = ops[w][u]
  BY WithType
<1>3. With(w, t, outcome)[t] = outcome
  BY WithType
<1> QED
  BY <1>1, <1>2, <1>3 DEF Covers

LEMMA AccountsStep == JournalInv /\ [Next]_vars => Accounts' /\ Started'
<1> SUFFICES ASSUME JournalInv, [Next]_vars PROVE Accounts' /\ Started'
  OBVIOUS
<1> USE DEF JournalInv
<1>a. ASSUME NEW w \in Runs PROVE AccountsFor(w) /\ StartedBy(w)
  BY DEF Accounts, Started
<1>1. ASSUME NEW w \in Runs, Startup(w) \/ ApplyReviewed(w) \/ Request(w)
      PROVE  Accounts' /\ Started'
  <2>1. /\ at[w] \in {"idle", "reviewed"} /\ at'[w] \in {"plan", "check", "detach"}
        /\ UNCHANGED <<ops, report, touched>> /\ Local(w)
    BY <1>1 DEF Startup, ApplyReviewed, Request, Acquire, Go, JournalTypes, Local
  <2> QED
    BY <1>a, <2>1, Others DEF AccountsFor, StartedBy, Covers
<1>2. ASSUME NEW w \in Runs, Review(w) \/ Detach(w) PROVE Accounts' /\ Started'
  <2>1. /\ at[w] \in {"idle", "detach"} /\ at'[w] \in {"reviewed", "fail", "complete"}
        /\ UNCHANGED <<ops, report, touched>> /\ Local(w)
    BY <1>2 DEF Review, Detach, Go, journal, JournalTypes, Local
  <2> QED
    BY <1>a, <2>1, Others DEF AccountsFor, StartedBy, Covers
<1>3. ASSUME NEW w \in Runs, Plan(w) \/ CheckMutable(w) PROVE Accounts' /\ Started'
  <2>1. /\ touched[w] = {} /\ touched' = touched /\ report' = report /\ Local(w)
        /\ at'[w] \in {"list", "fail", "start"} /\ Covers(w, ops[w])
    BY <1>3, <1>a DEF Plan, CheckMutable, Go, journal, JournalTypes, Local, AccountsFor
  <2>2. ops' = ops \/ \A t \in DOMAIN ops'[w] : ops'[w][t] = "pending"
    BY <1>3 DEF Plan, CheckMutable, JournalTypes
  <2>3. AccountsFor(w)' /\ StartedBy(w)'
    BY <1>a, <2>1, <2>2 DEF AccountsFor, StartedBy, Covers
  <2> QED
    BY <2>1, <2>3, Others
<1>4. ASSUME NEW w \in Runs, ListTasks(w) PROVE Accounts' /\ Started'
  <2>1. PICK place \in {"complete", "start"} : Checkpoint(w, ops[w], place, ops[w])
    BY <1>4 DEF ListTasks
  <2>2. Covers(w, ops[w]) /\ Covers(w, report[w]) /\ touched' = touched /\ at[w] # "over"
    BY <1>4, <1>a DEF ListTasks, AccountsFor
  <2>3. AccountsFor(w)' /\ Local(w) /\ at'[w] \in {"complete", "start", "fail"}
    BY <2>1, <2>2, CheckpointAccounts
  <2> QED
    BY <2>3, Others DEF StartedBy
<1>5. ASSUME NEW w \in Runs, StartTask(w) PROVE Accounts' /\ Started'
  <2>1. PICK t \in Current(w) :
           Checkpoint(w, With(w, t, "running"), "run", With(w, t, "failed"))
    BY <1>5 DEF StartTask
  <2>2. Covers(w, ops[w]) /\ Covers(w, report[w]) /\ touched' = touched /\ at[w] # "over"
    BY <1>5, <1>a DEF StartTask, AccountsFor
  <2>3. Covers(w, With(w, t, "running")) /\ Covers(w, With(w, t, "failed"))
    BY <2>2, WithCovers DEF TaskStatuses
  <2>4. /\ AccountsFor(w)' /\ Local(w)
        /\ \/ at'[w] = "run" /\ ops'[w] = With(w, t, "running") /\ report'[w] = ops'[w]
           \/ at'[w] = "fail"
    BY <2>1, <2>2, <2>3, CheckpointAccounts
  <2>5. ASSUME at'[w] = "run" PROVE \A u \in Current(w)' : ops'[w][u] = "running"
    <3>1. ops'[w] = With(w, t, "running")
      BY <2>4, <2>5
    <3>2. Open(w)' = Open(w)
      BY <3>1, WithType, CurrentInDomain DEF Open, TaskStatuses
    <3>3. Current(w)' = Current(w)
      BY <3>2 DEF Current
    <3>4. Current(w) = {t}
      BY CurrentUnique DEF JournalTypes
    <3> QED
      BY <3>1, <3>3, <3>4, WithType DEF TaskStatuses
  <2> QED
    BY <2>4, <2>5, Others DEF StartedBy
<1>6. ASSUME NEW w \in Runs, RunTask(w) PROVE Accounts' /\ Started'
  <2>1. PICK t \in Current(w) :
          \/ Effect(w, t) /\ Go(w, "done") /\ UNCHANGED ops
          \/ /\ Effect(w, t) \/ UNCHANGED <<config, touched>>
             /\ ops' = IF Import(w) THEN [ops EXCEPT ![w] = With(w, t, "failed")] ELSE ops
             /\ Go(w, "fail")
    BY <1>6 DEF RunTask
  <2>2. /\ Covers(w, ops[w]) /\ report[w] = ops[w] /\ ops[w][t] = "running"
        /\ report' = report /\ at[w] = "run"
    BY <1>6, <1>a DEF RunTask, AccountsFor, StartedBy, journal
  <2>3. touched'[w] \in {touched[w], touched[w] \cup {t}} /\ Local(w)
    BY <2>1, <2>2 DEF Effect, Go, Local, JournalTypes
  <2>4. t \in DOMAIN ops[w]
    BY CurrentInDomain
  <2>5. Covers(w, report[w])'
    BY <2>2, <2>3, <2>4 DEF Covers
  <2>6. ops'[w] \in {ops[w], With(w, t, "failed")}
    BY <2>1 DEF JournalTypes
  <2>7. \A u \in DOMAIN ops[w] : u # t => With(w, t, "failed")[u] = ops[w][u]
    BY WithType DEF TaskStatuses
  <2>8. DOMAIN With(w, t, "failed") = DOMAIN ops[w] /\ With(w, t, "failed")[t] = "failed"
    BY WithType DEF TaskStatuses
  <2>9. Covers(w, ops[w])'
    BY <2>2, <2>3, <2>4, <2>6, <2>7, <2>8 DEF Covers
  <2>10. AccountsFor(w)'
    BY <2>1, <2>5, <2>9 DEF AccountsFor, Go, JournalTypes
  <2>11. StartedBy(w)'
    <3>1. CASE Effect(w, t) /\ Go(w, "done") /\ UNCHANGED ops
      <4>1. Current(w)' = {t}
        <5>1. Current(w)' = Current(w)
          BY <3>1 DEF Current, Open
        <5> QED
          BY <5>1, CurrentUnique DEF JournalTypes
      <4>2. t \in touched'[w]
        BY <3>1 DEF Effect, JournalTypes
      <4> QED
        BY <2>2, <3>1, <4>1, <4>2 DEF StartedBy
    <3>2. CASE Go(w, "fail")
      BY <3>2 DEF StartedBy, Go, JournalTypes
    <3> QED
      BY <2>1, <3>1, <3>2
  <2> QED
    BY <2>3, <2>10, <2>11, Others
<1>7. ASSUME NEW w \in Runs, EndTask(w) PROVE Accounts' /\ Started'
  <2>1. PICK t \in Current(w), place \in {"complete", "start"} :
           Checkpoint(w, With(w, t, "completed"), place, With(w, t, "failed"))
    BY <1>7 DEF EndTask
  <2>2. /\ Covers(w, ops[w]) /\ Covers(w, report[w]) /\ touched' = touched /\ at[w] # "over"
        /\ t \in touched[w]
    BY <1>7, <1>a DEF EndTask, AccountsFor, StartedBy
  <2>3. Covers(w, With(w, t, "completed")) /\ Covers(w, With(w, t, "failed"))
    BY <2>2, WithCovers DEF TaskStatuses
  <2>4. AccountsFor(w)' /\ Local(w) /\ at'[w] \in {"complete", "start", "fail"}
    BY <2>1, <2>2, <2>3, CheckpointAccounts
  <2> QED
    BY <2>4, Others DEF StartedBy
<1>8. ASSUME NEW w \in Runs, EndEditTask(w) PROVE Accounts' /\ Started'
  <2>1. PICK t \in Current(w) :
           \/ Checkpoint(w, AfterEdit(w, t), "run", AfterEdit(w, t))
           \/ ops' = [ops EXCEPT ![w] = AfterEdit(w, t)] /\ Go(w, "complete") /\ UNCHANGED report
    BY <1>8 DEF EndEditTask
  <2>2. /\ Covers(w, ops[w]) /\ Covers(w, report[w]) /\ touched' = touched /\ at[w] = "done"
        /\ t \in touched[w]
    BY <1>8, <1>a DEF EndEditTask, AccountsFor, StartedBy
  <2>3. Covers(w, AfterEdit(w, t))
    BY <2>2 DEF Covers, AfterEdit, Open
  <2>4. CASE Checkpoint(w, AfterEdit(w, t), "run", AfterEdit(w, t))
    <3>1. /\ AccountsFor(w)' /\ Local(w)
          /\ \/ at'[w] = "run" /\ ops'[w] = AfterEdit(w, t) /\ report'[w] = ops'[w]
             \/ at'[w] = "fail"
      BY <2>2, <2>3, <2>4, CheckpointAccounts
    <3>2. ops'[w] = AfterEdit(w, t) => \A u \in Current(w)' : ops'[w][u] = "running"
      BY DEF Current, Open, AfterEdit
    <3> QED
      BY <3>1, <3>2, Others DEF StartedBy
  <2>5. CASE ops' = [ops EXCEPT ![w] = AfterEdit(w, t)] /\ Go(w, "complete") /\ UNCHANGED report
    <3>1. at'[w] = "complete" /\ ops'[w] = AfterEdit(w, t) /\ Local(w)
      BY <2>2, <2>5 DEF Go, JournalTypes, Local
    <3>2. AccountsFor(w)' /\ StartedBy(w)'
      BY <2>2, <2>3, <2>5, <3>1 DEF AccountsFor, StartedBy, Covers
    <3> QED
      BY <3>1, <3>2, Others
  <2> QED
    BY <2>1, <2>4, <2>5
<1>9. ASSUME NEW w \in Runs, Finish(w) \/ Crash(w) PROVE Accounts' /\ Started'
  <2>1. /\ Local(w) /\ at'[w] = "over" /\ at[w] # "over" /\ touched' = touched
        /\ report'[w] \in {report[w], ops[w]}
    BY <1>9 DEF Finish, Crash, Forget, Go, journal, JournalTypes, Local
  <2>2. AccountsFor(w)' /\ StartedBy(w)'
    BY <1>a, <2>1 DEF AccountsFor, StartedBy, Covers
  <2> QED
    BY <2>1, <2>2, Others
<1>10. CASE \/ (\E w \in Runs : Recover(w)) \/ (\E r \in KeyChains : ReplaceKey(r))
            \/ UNCHANGED vars
  <2>1. UNCHANGED <<at, ops, report, touched>>
    BY <1>10 DEF Recover, ReplaceKey, vars, journal
  <2> QED
    BY <2>1, <1>a DEF Accounts, Started, AccountsFor, StartedBy, Covers, Current, Open
<1> QED
  BY <1>1, <1>2, <1>3, <1>4, <1>5, <1>6, <1>7, <1>8, <1>9, <1>10 DEF Next
-----------------------------------------------------------------------------
(***************************************************************************)
(* The writer lock, and what it keeps.                                     *)
(***************************************************************************)
LEMMA LockStep == LockInv /\ [Next]_vars => Lock' /\ Live'
<1> SUFFICES ASSUME LockInv, [Next]_vars PROVE Lock' /\ Live'
  OBVIOUS
<1> USE DEF LockInv, JournalTypes, Lock, Live, Idle
<1>1. ASSUME NEW w \in Runs, Startup(w) \/ ApplyReviewed(w) \/ Request(w) PROVE Lock' /\ Live'
  <2>1. /\ \A v \in Runs : status[v] # "running"
        /\ status' = [status EXCEPT ![w] = "running"] /\ mistaken' = mistaken
        /\ \A v \in Runs \ {w} : at'[v] = at[v]
    BY <1>1 DEF Startup, ApplyReviewed, Request, Acquire, Go
  <2> QED
    BY <2>1
<1>2. ASSUME NEW w \in Runs,
             Review(w) \/ Plan(w) \/ ListTasks(w) \/ CheckMutable(w) \/ Detach(w)
      PROVE  Lock' /\ Live'
  <2>1. /\ status' = status /\ mistaken' = mistaken /\ \A v \in Runs \ {w} : at'[v] = at[v]
        /\ at[w] \in Idle => at'[w] \in Idle
    BY <1>2 DEF Review, Plan, ListTasks, CheckMutable, Detach, Checkpoint, Go, journal
  <2> QED
    BY <2>1
<1>3. ASSUME NEW w \in Runs, StartTask(w) \/ RunTask(w) \/ EndTask(w) \/ EndEditTask(w)
      PROVE  Lock' /\ Live'
  <2>1. /\ status' = status /\ mistaken' = mistaken /\ \A v \in Runs \ {w} : at'[v] = at[v]
        /\ at[w] \notin Idle
    BY <1>3 DEF StartTask, RunTask, EndTask, EndEditTask, Checkpoint, Go, journal
  <2> QED
    BY <2>1
<1>4. ASSUME NEW w \in Runs, Finish(w) \/ Crash(w) PROVE Lock' /\ Live'
  <2>1. /\ mistaken' = mistaken /\ at' = [at EXCEPT ![w] = "over"]
        /\ \A v \in Runs \ {w} : status'[v] = status[v]
        /\ status'[w] \in {status[w], "failed", "completed"}
    BY <1>4 DEF Finish, Crash, Forget, Go, journal
  <2> QED
    BY <2>1
<1>5. ASSUME NEW w \in Runs, Recover(w) PROVE Lock' /\ Live'
  BY <1>5 DEF Recover
<1>6. CASE (\E r \in KeyChains : ReplaceKey(r)) \/ UNCHANGED vars
  BY <1>6 DEF ReplaceKey, vars, journal
<1> QED
  BY <1>1, <1>2, <1>3, <1>4, <1>5, <1>6 DEF Next

\* The configuration changes under the tasks of an operation, when a resource is
\* detached, or when the key of a chain is replaced.
LEMMA ConfigChange ==
    ASSUME JournalTypes, [Next]_vars, NEW r \in Resources,
           resource'[r] # resource[r] \/ meta'[r] # meta[r]
    PROVE  \/ r \in KeyChains /\ ReplaceKey(r)
           \/ \E v \in Runs : \/ at[v] = "detach"
                              \/ at[v] = "run" /\ \E t \in touched'[v] : t.r = r
<1> USE DEF JournalTypes
<1> SUFFICES ASSUME ~(r \in KeyChains /\ ReplaceKey(r))
             PROVE  \E v \in Runs : \/ at[v] = "detach"
                                    \/ at[v] = "run" /\ \E t \in touched'[v] : t.r = r
  OBVIOUS
<1>0. ASSUME NEW q \in KeyChains, ReplaceKey(q) PROVE FALSE
  BY <1>0 DEF ReplaceKey
<1>1. PICK v \in Runs : Detach(v) \/ RunTask(v)
  BY <1>0 DEF Next, Startup, Review, ApplyReviewed, Request, Plan, ListTasks, CheckMutable,
         StartTask, EndTask, EndEditTask, Finish, Crash, Recover, config, vars
<1>2. CASE Detach(v)
  BY <1>2 DEF Detach
<1>3. CASE RunTask(v)
  <2>1. PICK t \in Current(v) : Effect(v, t)
    BY <1>3 DEF RunTask, config
  <2>2. t.r = r /\ t \in touched'[v]
    BY <2>1 DEF Effect
  <2> QED
    BY <1>3, <2>2 DEF RunTask
<1> QED
  BY <1>1, <1>2, <1>3

\* An import begins to apply with what it has reviewed, and keeps its review.
LEMMA ApplyingStep ==
    ASSUME JournalTypes, Chosen, [Next]_vars, NEW w \in Runs,
           at'[w] \in Applying, job'[w] # None, Reviewed(w)'
    PROVE  \/ /\ at[w] \in Applying /\ touched[w] \subseteq touched'[w]
              /\ job'[w] = job[w] /\ reviewed'[w] = reviewed[w]
           \/ /\ at[w] = "plan" /\ UNCHANGED config
              /\ reviewed'[w].resource = resource /\ reviewed'[w].meta = meta
<1> USE DEF JournalTypes, Applying
<1>1. ASSUME NEW v \in Runs,
             \/ Startup(v) \/ Review(v) \/ ApplyReviewed(v) \/ Request(v)
             \/ CheckMutable(v) \/ Detach(v) \/ Finish(v) \/ Crash(v) \/ Recover(v)
      PROVE  /\ at[w] \in Applying /\ touched[w] \subseteq touched'[w]
             /\ job'[w] = job[w] /\ reviewed'[w] = reviewed[w]
  BY <1>1 DEF Startup, Review, ApplyReviewed, Request, CheckMutable, Detach, Finish, Crash,
              Recover, Acquire, Forget, Go, Chosen, Reviewed, Edits
<1>2. ASSUME NEW v \in Runs, ListTasks(v) \/ StartTask(v) \/ EndTask(v) \/ EndEditTask(v)
      PROVE  /\ at[w] \in Applying /\ touched[w] \subseteq touched'[w]
             /\ job'[w] = job[w] /\ reviewed'[w] = reviewed[w]
  BY <1>2 DEF ListTasks, StartTask, EndTask, EndEditTask, Checkpoint, Go
<1>3. ASSUME NEW v \in Runs, RunTask(v)
      PROVE  /\ at[w] \in Applying /\ touched[w] \subseteq touched'[w]
             /\ job'[w] = job[w] /\ reviewed'[w] = reviewed[w]
  BY <1>3 DEF RunTask, Effect, Go
<1>4. ASSUME NEW v \in Runs, Plan(v), v # w
      PROVE  /\ at[w] \in Applying /\ touched[w] \subseteq touched'[w]
             /\ job'[w] = job[w] /\ reviewed'[w] = reviewed[w]
  BY <1>4 DEF Plan, Go
<1>5. ASSUME Plan(w)
      PROVE  /\ at[w] = "plan" /\ UNCHANGED config
             /\ reviewed'[w].resource = resource /\ reviewed'[w].meta = meta
  BY <1>5 DEF Plan, Go, Matches, Reviewed
<1>6. CASE (\E r \in KeyChains : ReplaceKey(r)) \/ UNCHANGED vars
  BY <1>6 DEF ReplaceKey, vars
<1> QED
  BY <1>1, <1>2, <1>3, <1>4, <1>5, <1>6 DEF Next

LEMMA ReviewStep == LockInv /\ [Next]_vars => AppliedAsReviewed'
<1> SUFFICES ASSUME LockInv, [Next]_vars, NEW w \in Runs, NEW r \in Resources,
                    at'[w] \in Applying, job'[w] # None, Reviewed(w)', ~mistaken',
                    \A t \in touched'[w] : t.r # r
             PROVE  AsReviewed(w, r)'
  BY DEF AppliedAsReviewed, Applying
<1>1. ~mistaken
  BY DEF Next, Startup, Review, ApplyReviewed, Request, Plan, ListTasks, CheckMutable,
         Detach, StartTask, RunTask, EndTask, EndEditTask, Finish, Crash, Recover,
         ReplaceKey, vars
<1>2. CASE /\ at[w] = "plan" /\ UNCHANGED config
           /\ reviewed'[w].resource = resource /\ reviewed'[w].meta = meta
  BY <1>2 DEF config, AsReviewed
<1>3. CASE /\ at[w] \in Applying /\ touched[w] \subseteq touched'[w]
           /\ job'[w] = job[w] /\ reviewed'[w] = reviewed[w]
  <2>1. AsReviewed(w, r)
    BY <1>1, <1>3 DEF LockInv, AppliedAsReviewed, Applying, Reviewed
  <2>2. ASSUME NEW v \in Runs, at[v] = "detach" PROVE FALSE
    BY <1>1, <1>3, <2>2 DEF LockInv, Lock, Live, Idle, Applying
  <2>3. ASSUME NEW v \in Runs, at[v] = "run", NEW t \in touched'[v], t.r = r PROVE FALSE
    <3>1. v = w
      BY <1>1, <1>3, <2>3 DEF LockInv, Lock, Live, Idle, Applying
    <3> QED
      BY <2>3, <3>1
  <2>4. CASE r \in KeyChains /\ ReplaceKey(r)
    BY <1>3, <2>1, <2>4 DEF LockInv, JournalTypes, ReplaceKey, AsReviewed, Replaced
  <2>5. CASE resource'[r] = resource[r] /\ meta'[r] = meta[r]
    BY <1>3, <2>1, <2>5 DEF AsReviewed, Replaced
  <2> QED
    BY <2>2, <2>3, <2>4, <2>5, ConfigChange DEF LockInv
<1> QED
  BY <1>2, <1>3, ApplyingStep DEF LockInv
-----------------------------------------------------------------------------
(***************************************************************************)
(* The types of the configuration.                                         *)
(***************************************************************************)
LEMMA InitConfigTypes == Init => TypesInv
<1> SUFFICES ASSUME Init PROVE TypesInv
  OBVIOUS
<1> DEFINE Past == {Missing} \cup {Imported(d) : d \in Docs} \cup
                      {Created(d) : d \in Docs} \cup {Edited(d) : d \in Docs}
<1>1. PICK past \in [Resources -> Past] :
         /\ resource = [r \in Resources |-> past[r][1]]
         /\ meta = [r \in Resources |-> past[r][2]]
  BY DEF Init
<1>2. ASSUME NEW p \in Past PROVE p[1] \in Contents /\ p[2] \in Metas \cup {None}
  <2>1. CASE p = Missing
    BY <2>1 DEF Missing, Contents
  <2>2. ASSUME NEW d \in Docs, p \in {Imported(d), Created(d), Edited(d)}
        PROVE  p[1] \in Contents /\ p[2] \in Metas \cup {None}
    <3>1. d.gen \in Nat \ {0}
      BY DocsAreDocuments
    <3>2. p[1] = d.text
      BY <2>2 DEF Imported, Created, Edited
    <3>3. p[2] \in Metas
      BY <2>2, <3>1 DEF Imported, Created, Edited, Owned, Metas
    <3> QED
      BY <3>2, <3>3 DEF Contents
  <2> QED
    BY <2>1, <2>2
<1>3. ConfigTypes
  BY <1>1, <1>2 DEF ConfigTypes
<1>4. RunTypes
  BY DEF Init, RunTypes, NoDocs, Documents
<1>5. JournalTypes /\ Chosen /\ Planned
  BY InitTypes DEF Init, Chosen, Planned, Applying
<1> QED
  BY <1>3, <1>4, <1>5 DEF TypesInv

LEMMA GenerationType ==
    ASSUME ConfigTypes, NEW r \in Resources PROVE Generation(r) \in Nat \ {0}
BY DEF ConfigTypes, Metas, Generation

LEMMA DocumentType ==
    ASSUME RunTypes, NEW w \in Runs, NEW r \in Described(w)
    PROVE  docs[w][r] \in Docs /\ docs[w][r].gen \in Nat \ {0}
<1>1. docs[w][r] \in Docs
  BY DEF RunTypes, Documents, Described
<1> QED
  BY <1>1, DocsAreDocuments

\* What a task writes is a configuration.
LEMMA EffectTypes ==
    ASSUME TypesInv, NEW w \in Runs, at[w] = "run", NEW t \in Current(w)
    PROVE  Stored(w, t) \in Contents /\ StoredMeta(w, t) \in Metas \cup {None}
<1> USE DEF TypesInv
<1>1. t \in Tasks /\ t \in DOMAIN ops[w]
  BY CurrentInDomain DEF JournalTypes, Reports
<1>2. t.r \in Resources /\ t.stage \in Stages
  BY <1>1 DEF Tasks
<1>3. Import(w) /\ t.stage \in {"resource", "ownership"} => t.r \in Described(w)
  BY <1>1 DEF Planned, PlannedFor, Applying
<1>4. Stored(w, t) \in Contents
  <2>1. CASE t.stage = "resource" /\ Import(w)
    BY <1>3, <2>1, DocumentType DEF Stored, Contents
  <2>2. CASE ~(t.stage = "resource" /\ Import(w))
    BY <1>2, <2>2 DEF Stored, Contents, ConfigTypes
  <2> QED
    BY <2>1, <2>2
<1>5. StoredMeta(w, t) \in Metas \cup {None}
  <2>1. CASE t.stage = "ownership" /\ Import(w)
    <3>1. docs[w][t.r].gen \in Nat \ {0}
      BY <1>3, <2>1, DocumentType
    <3>2. Owned("file-managed", docs[w][t.r].gen, Source(w)) \in Metas
      BY <3>1 DEF Owned, Metas, Source
    <3> QED
      BY <2>1, <3>2 DEF StoredMeta
  <2>2. CASE t.stage = "ownership" /\ ~Import(w)
    <3>1. Mutated(w, t.r) \in Metas
      <4>1. Generation(t.r) \in Nat \ {0} /\ Generation(t.r) + 1 \in Nat \ {0}
        BY <1>2, GenerationType
      <4>2. meta[t.r] # None => meta[t.r].source \in {"folder", "bundle", None}
        BY <1>2 DEF ConfigTypes, Metas
      <4> QED
        BY <4>1, <4>2 DEF Mutated, Owned, Metas
    <3> QED
      BY <2>2, <3>1 DEF StoredMeta
  <2>3. CASE t.stage # "ownership"
    BY <1>2, <2>3 DEF StoredMeta, ConfigTypes
  <2> QED
    BY <2>1, <2>2, <2>3
<1> QED
  BY <1>4, <1>5

LEMMA ConfigTypesStep == TypesInv /\ [Next]_vars => ConfigTypes'
<1> SUFFICES ASSUME TypesInv, [Next]_vars PROVE ConfigTypes'
  OBVIOUS
<1>1. CASE UNCHANGED config
  BY <1>1 DEF config, TypesInv, ConfigTypes
<1>2. ASSUME NEW w \in Runs, RunTask(w), ~UNCHANGED config PROVE ConfigTypes'
  <2>1. PICK t \in Current(w) : Effect(w, t)
    BY <1>2 DEF RunTask
  <2>2. Stored(w, t) \in Contents /\ StoredMeta(w, t) \in Metas \cup {None}
    BY <1>2, EffectTypes DEF RunTask
  <2> QED
    BY <2>1, <2>2 DEF Effect, TypesInv, ConfigTypes
<1>3. ASSUME NEW w \in Runs, Detach(w) PROVE ConfigTypes'
  <2>1. CASE meta' = meta
    BY <1>3, <2>1 DEF Detach, TypesInv, ConfigTypes
  <2>2. CASE meta' # meta
    <3> DEFINE r == job[w].r
    <3>1. meta[r] # None /\ meta' = [meta EXCEPT ![r].own = "detached"]
      BY <1>3, <2>2 DEF Detach
    <3>2. r \in Resources => meta[r] \in Metas
      BY <3>1 DEF TypesInv, ConfigTypes
    <3>3. r \in Resources => [meta[r] EXCEPT !.own = "detached"] \in Metas
      BY <3>2 DEF Metas
    <3>4. meta' \in [Resources -> Metas \cup {None}]
      BY <3>1, <3>3 DEF TypesInv, ConfigTypes
    <3> QED
      BY <1>3, <3>4 DEF Detach, TypesInv, ConfigTypes
  <2> QED
    BY <2>1, <2>2
<1>4. ASSUME NEW r \in KeyChains, ReplaceKey(r) PROVE ConfigTypes'
  BY <1>4 DEF ReplaceKey, TypesInv, ConfigTypes, Contents
<1> QED
  BY <1>1, <1>2, <1>3, <1>4 DEF Next, Startup, Review, ApplyReviewed, Request, Plan, ListTasks,
     CheckMutable, StartTask, EndTask, EndEditTask, Finish, Crash, Recover, config, vars

LEMMA RunTypesStep == TypesInv /\ [Next]_vars => RunTypes'
<1> SUFFICES ASSUME TypesInv, [Next]_vars PROVE RunTypes'
  OBVIOUS
<1> USE DEF TypesInv, RunTypes
<1>1. ASSUME NEW folder \in Folders \cup {Bundle}, NEW r \in Resources
      PROVE  folder \in Documents /\ OnlyFrom(folder, r) \in Documents
  BY DocumentsGiven DEF Documents, OnlyFrom, NoDocs
<1>2. NoDocs \in Documents
  BY DEF NoDocs, Documents
<1>3. ASSUME NEW w \in Runs, Startup(w) PROVE RunTypes'
  <2>1. docs' \in [Runs -> Documents]
    BY <1>3, DocumentsGiven DEF Startup, Documents
  <2>2. job' \in [Runs -> Jobs \cup {None}]
    BY <1>3 DEF Startup, Jobs, Imports
  <2> QED
    BY <1>3, <2>1, <2>2 DEF Startup
<1>4. ASSUME NEW w \in Runs, Review(w) PROVE RunTypes'
  <2>1. docs' \in [Runs -> Documents]
    BY <1>1, <1>4, DocumentsGiven DEF Review, Documents
  <2>2. job' \in [Runs -> Jobs \cup {None}]
    BY <1>4 DEF Review, Jobs, Imports
  <2> QED
    BY <1>4, <2>1, <2>2 DEF Review
<1>5. ASSUME NEW w \in Runs, ApplyReviewed(w) PROVE RunTypes'
  <2>1. CASE docs' = docs
    BY <1>5, <2>1 DEF ApplyReviewed
  <2>2. CASE docs' # docs
    <3>1. PICK folder \in Folders :
             /\ folder[job[w].r] # None
             /\ docs' = [docs EXCEPT ![w] = OnlyFrom(folder, job[w].r)]
      BY <1>5, <2>2 DEF ApplyReviewed
    <3>2. OnlyFrom(folder, job[w].r) \in Documents
      BY DocumentsGiven DEF OnlyFrom, NoDocs, Documents
    <3> QED
      BY <1>5, <3>1, <3>2 DEF ApplyReviewed
  <2> QED
    BY <2>1, <2>2
<1>6. ASSUME NEW w \in Runs, Request(w) PROVE RunTypes'
  <2>1. job' \in [Runs -> Jobs \cup {None}]
    BY <1>6 DEF Request, Jobs
  <2> QED
    BY <1>6, <2>1 DEF Request
<1>7. ASSUME NEW w \in Runs, Finish(w) \/ Crash(w) PROVE RunTypes'
  BY <1>2, <1>7 DEF Finish, Crash, Forget
<1>8. ASSUME NEW w \in Runs, Recover(w) PROVE RunTypes'
  BY <1>8 DEF Recover
<1>9. CASE UNCHANGED <<job, docs, mistaken>>
  BY <1>9
<1> QED
  BY <1>3, <1>4, <1>5, <1>6, <1>7, <1>8, <1>9 DEF Next, Plan, ListTasks, CheckMutable,
     Detach, StartTask, RunTask, EndTask, EndEditTask, ReplaceKey, vars
-----------------------------------------------------------------------------
(***************************************************************************)
(* The tasks of an import bring its documents into the configuration.      *)
(***************************************************************************)
\* An import that applies either was planned in this step, or keeps its tasks.
LEMMA ImportStep ==
    ASSUME JournalTypes, Chosen, RunTypes, [Next]_vars, NEW w \in Runs,
           at'[w] \in Applying, Import(w)'
    PROVE  \/ Plan(w) /\ at'[w] = "list" /\ ops'[w] = [t \in PlannedTasks(w) |-> "pending"]
           \/ /\ at[w] \in Applying /\ job'[w] = job[w] /\ docs'[w] = docs[w]
              /\ DOMAIN ops'[w] = DOMAIN ops[w]
<1> DEFINE Stays == /\ at[w] \in Applying /\ job'[w] = job[w] /\ docs'[w] = docs[w]
                    /\ DOMAIN ops'[w] = DOMAIN ops[w]
<1> USE DEF JournalTypes, Applying
<1>1. ASSUME NEW v \in Runs,
             \/ Startup(v) \/ Review(v) \/ ApplyReviewed(v) \/ Request(v)
             \/ Finish(v) \/ Crash(v) \/ Recover(v)
      PROVE  Stays
  <2>1. \/ at'[v] \notin Applying
        \/ UNCHANGED <<at, job, docs, ops>>
    BY <1>1 DEF Startup, Review, ApplyReviewed, Request, Finish, Crash, Recover, Acquire,
                Forget, Go
  <2>2. CASE v # w
    BY <1>1, <2>2 DEF Startup, Review, ApplyReviewed, Request, Finish, Crash, Recover,
                      Acquire, Forget, Go, RunTypes
  <2> QED
    BY <2>1, <2>2
<1>2. ASSUME NEW v \in Runs, CheckMutable(v) \/ Detach(v) PROVE Stays
  BY <1>2 DEF CheckMutable, Detach, Go, Chosen, Import, Imports, Edits
<1>3. ASSUME NEW v \in Runs, Plan(v), v # w PROVE Stays
  BY <1>3 DEF Plan, Go
<1>4. ASSUME Plan(w)
      PROVE  at'[w] = "list" /\ ops'[w] = [t \in PlannedTasks(w) |-> "pending"]
  BY <1>4 DEF Plan, Go
<1>5. ASSUME NEW v \in Runs, ListTasks(v) PROVE Stays
  BY <1>5 DEF ListTasks, Checkpoint, Go
<1>6. ASSUME NEW v \in Runs, NEW t \in Current(v), NEW o1 \in TaskStatuses,
             NEW o2 \in TaskStatuses, NEW place,
             Checkpoint(v, With(v, t, o1), place, With(v, t, o2)),
             at[v] \in Applying, UNCHANGED <<job, docs>>
      PROVE  Stays
  <2>1. DOMAIN With(v, t, o1) = DOMAIN ops[v] /\ DOMAIN With(v, t, o2) = DOMAIN ops[v]
    BY WithType
  <2>2. ops'[w] = ops[w] \/ (v = w /\ ops'[w] \in {With(v, t, o1), With(v, t, o2)})
    BY <1>6 DEF Checkpoint
  <2>3. at[w] \in Applying
    BY <1>6 DEF Checkpoint, Go
  <2> QED
    BY <1>6, <2>1, <2>2, <2>3
<1>7. ASSUME NEW v \in Runs, StartTask(v) PROVE Stays
  BY <1>6, <1>7 DEF StartTask, TaskStatuses
<1>8. ASSUME NEW v \in Runs, RunTask(v) PROVE Stays
  BY <1>8 DEF RunTask, Go
<1>9. ASSUME NEW v \in Runs, EndTask(v) PROVE Stays
  <2>1. PICK t \in Current(v), place \in {"complete", "start"} :
           Checkpoint(v, With(v, t, "completed"), place, With(v, t, "failed"))
    BY <1>9 DEF EndTask
  <2> QED
    BY <1>6, <1>9, <2>1 DEF EndTask, TaskStatuses
<1>10. ASSUME NEW v \in Runs, EndEditTask(v) PROVE Stays
  <2>1. PICK t \in Current(v) :
           \/ Checkpoint(v, AfterEdit(v, t), "run", AfterEdit(v, t))
           \/ ops' = [ops EXCEPT ![v] = AfterEdit(v, t)] /\ Go(v, "complete")
    BY <1>10 DEF EndEditTask
  <2>2. ops'[w] = ops[w] \/ (v = w /\ ops'[w] = AfterEdit(v, t))
    BY <2>1 DEF Checkpoint
  <2>3. at[w] \in Applying
    BY <1>10, <2>1 DEF EndEditTask, Checkpoint, Go
  <2> QED
    BY <1>10, <2>2, <2>3 DEF EndEditTask, AfterEdit
<1>11. CASE (\E r \in KeyChains : ReplaceKey(r)) \/ UNCHANGED vars
  BY <1>11 DEF ReplaceKey, vars
<1> QED
  BY <1>1, <1>2, <1>3, <1>4, <1>5, <1>7, <1>8, <1>9, <1>10, <1>11 DEF Next

LEMMA TaskFields ==
    ASSUME NEW t \in Tasks, NEW stage, NEW r
    PROVE  /\ Task(stage, r).stage = stage /\ Task(stage, r).r = r
           /\ t = Task(stage, r) <=> t.stage = stage /\ t.r = r
BY DEF Tasks, Task

\* A new plan has a task for what is to be written, claimed or dropped, and no other.
LEMMA PlanIs ==
    ASSUME NEW w \in Runs, NEW r \in Resources
    PROVE  /\ Task("resource", r) \in PlannedTasks(w) <=> r \in Written(w)
           /\ Task("ownership", r) \in PlannedTasks(w) <=> r \in Written(w) \cup Claimed(w)
           /\ Task("delete", r) \in PlannedTasks(w) <=> r \in Dropped(w)
           /\ Task("delete-ownership", r) \in PlannedTasks(w) <=> r \in Dropped(w)
<1>1. ASSUME NEW s, NEW q, NEW stage
      PROVE  Task(s, q) = Task(stage, r) <=> s = stage /\ q = r
  BY DEF Task
<1>2. ASSUME NEW stage
      PROVE  Task(stage, r) \in PlannedTasks(w) <=>
                \/ stage = "resource" /\ r \in Written(w)
                \/ stage = "ownership" /\ r \in Written(w) \cup Claimed(w)
                \/ stage \in {"delete", "delete-ownership"} /\ r \in Dropped(w)
  BY <1>1 DEF PlannedTasks
<1> QED
  BY <1>2

LEMMA PlanFits ==
    ASSUME NEW w \in Runs, NEW t \in PlannedTasks(w)
    PROVE  t.stage \in {"resource", "ownership"} <=> t.r \in Described(w)
BY DEF PlannedTasks, Task, Written, Claimed, Dropped

LEMMA PlannedStep == TypesInv /\ [Next]_vars => Planned'
<1> SUFFICES ASSUME JournalTypes, Chosen, RunTypes, Planned, [Next]_vars, NEW w \in Runs,
                    at'[w] \in Applying, Import(w)'
             PROVE  PlannedFor(w)'
  BY DEF TypesInv, Planned
<1>1. CASE Plan(w) /\ ops'[w] = [t \in PlannedTasks(w) |-> "pending"]
  <2>1. Described(w)' = Described(w) /\ DOMAIN ops'[w] = PlannedTasks(w)
    BY <1>1 DEF Plan, Described
  <2> QED
    BY <2>1, PlanIs, PlanFits DEF PlannedFor, HasTask
<1>2. CASE /\ at[w] \in Applying /\ job'[w] = job[w] /\ docs'[w] = docs[w]
           /\ DOMAIN ops'[w] = DOMAIN ops[w]
  BY <1>2 DEF Planned, PlannedFor, Import, HasTask, Described
<1> QED
  BY <1>1, <1>2, ImportStep

\* What happens to a task that is the current one.
LEMMA WithOpen ==
    ASSUME JournalTypes, NEW w \in Runs, NEW t \in Current(w),
           NEW outcome \in TaskStatuses, ops'[w] = With(w, t, outcome)
    PROVE  /\ outcome = "completed" => Open(w)' = Open(w) \ {t}
           /\ outcome # "completed" => Open(w)' = Open(w)
<1>1. t \in DOMAIN ops[w] /\ ops[w][t] # "completed"
  BY CurrentInDomain
<1> QED
  BY <1>1, WithType DEF Open

\* Who else moves, and which steps an import makes while it applies.
LEMMA ImportMoves ==
    ASSUME JournalTypes, Chosen, [Next]_vars, NEW w \in Runs,
           at[w] \in Applying, at'[w] \in Applying, Import(w)
    PROVE  \/ /\ at'[w] = at[w] /\ ops'[w] = ops[w] /\ touched'[w] = touched[w]
              /\ ~RunTask(w)
           \/ ListTasks(w) \/ StartTask(w) \/ RunTask(w) \/ EndTask(w)
<1> DEFINE Same == at'[w] = at[w] /\ ops'[w] = ops[w] /\ touched'[w] = touched[w]
<1> USE DEF JournalTypes, Applying
<1>1. ASSUME NEW v \in Runs, v # w,
             \/ Startup(v) \/ Review(v) \/ ApplyReviewed(v) \/ Request(v)
             \/ Plan(v) \/ CheckMutable(v) \/ Detach(v)
      PROVE  Same
  BY <1>1 DEF Startup, Review, ApplyReviewed, Request, Plan, CheckMutable, Detach, Acquire, Go
<1>2. ASSUME NEW v \in Runs, v # w,
             ListTasks(v) \/ StartTask(v) \/ EndTask(v) \/ EndEditTask(v)
      PROVE  Same
  BY <1>2 DEF ListTasks, StartTask, EndTask, EndEditTask, Checkpoint, Go
<1>3. ASSUME NEW v \in Runs, v # w, RunTask(v) \/ Finish(v) \/ Crash(v) PROVE Same
  BY <1>3 DEF RunTask, Finish, Crash, Effect, Forget, Go
<1>4. ASSUME \/ Startup(w) \/ Review(w) \/ ApplyReviewed(w) \/ Request(w)
             \/ Plan(w) \/ CheckMutable(w) \/ Detach(w) \/ Finish(w) \/ Crash(w)
      PROVE  FALSE
  BY <1>4 DEF Startup, Review, ApplyReviewed, Request, Plan, CheckMutable, Detach, Finish,
              Crash, Forget, Go
<1>5. ASSUME EndEditTask(w) PROVE FALSE
  BY <1>5 DEF EndEditTask
<1>6. ASSUME NEW v \in Runs, Recover(v) PROVE Same
  BY <1>6 DEF Recover
<1>7. CASE (\E r \in KeyChains : ReplaceKey(r)) \/ UNCHANGED vars
  BY <1>7 DEF ReplaceKey, RunTask, Go, vars
<1> QED
  BY <1>1, <1>2, <1>3, <1>4, <1>5, <1>6, <1>7 DEF Next

LEMMA FreshStep == TypesInv /\ JournalInv /\ Fresh /\ [Next]_vars => Fresh'
<1> SUFFICES ASSUME TypesInv, JournalInv, Fresh, [Next]_vars, NEW w \in Runs,
                    at'[w] \in Applying, Import(w)'
             PROVE  FreshFor(w)'
  BY DEF Fresh
<1> USE DEF JournalInv, TypesInv
<1>1. CASE Plan(w) /\ at'[w] = "list"
  <2>1. touched[w] = {} /\ touched' = touched
    BY <1>1 DEF Plan, Accounts, AccountsFor
  <2> QED
    BY <1>1, <2>1 DEF FreshFor
<1>2. CASE at[w] \in Applying /\ job'[w] = job[w] /\ at'[w] \in Applying
  <2>1. Import(w) /\ FreshFor(w)
    BY <1>2 DEF Import, Fresh
  <2>2. CASE at'[w] = at[w] /\ ops'[w] = ops[w] /\ touched'[w] = touched[w]
    <3>1. Open(w)' = Open(w)
      BY <2>2 DEF Open
    <3>2. Current(w)' = Current(w)
      BY <3>1 DEF Current
    <3> QED
      BY <2>1, <2>2, <3>1, <3>2 DEF FreshFor
  <2>3. CASE ListTasks(w)
    <3>1. /\ at[w] = "list" /\ ops'[w] = ops[w] /\ touched'[w] = touched[w]
          /\ at'[w] = IF DOMAIN ops[w] = {} THEN "complete" ELSE "start"
      BY <1>2, <2>3 DEF ListTasks, Checkpoint, Go, JournalTypes, Applying
    <3>2. Open(w)' = Open(w) /\ (DOMAIN ops[w] = {} => Open(w) = {})
      BY <3>1 DEF Open
    <3> QED
      BY <2>1, <3>1, <3>2 DEF FreshFor
  <2>4. CASE StartTask(w)
    <3>1. PICK t \in Current(w) :
             Checkpoint(w, With(w, t, "running"), "run", With(w, t, "failed"))
      BY <2>4 DEF StartTask
    <3>2. /\ at[w] = "start" /\ ops'[w] = With(w, t, "running") /\ at'[w] = "run"
          /\ touched'[w] = touched[w]
      BY <1>2, <2>4, <3>1 DEF StartTask, Checkpoint, Go, JournalTypes, Applying
    <3>3. Open(w)' = Open(w)
      BY <3>2, WithOpen DEF TaskStatuses
    <3> QED
      BY <2>1, <3>2, <3>3 DEF FreshFor
  <2>5. CASE RunTask(w)
    <3>1. PICK t \in Current(w) : Effect(w, t) /\ Go(w, "done") /\ UNCHANGED ops
      BY <1>2, <2>5 DEF RunTask, Go, JournalTypes, Applying
    <3>2. at[w] = "run" /\ at'[w] = "done" /\ touched'[w] = touched[w] \cup {t}
      BY <2>5, <3>1 DEF RunTask, Effect, Go, JournalTypes
    <3>3. Open(w)' = Open(w)
      BY <3>1 DEF Open
    <3>4. Current(w)' = Current(w)
      BY <3>3 DEF Current
    <3> QED
      BY <2>1, <3>2, <3>3, <3>4 DEF FreshFor
  <2>6. CASE EndTask(w)
    <3>1. PICK t \in Current(w) :
             Checkpoint(w, With(w, t, "completed"),
                        IF Open(w) = {t} THEN "complete" ELSE "start", With(w, t, "failed"))
      BY <2>6 DEF EndTask
    <3>2. /\ at[w] = "done" /\ ops'[w] = With(w, t, "completed")
          /\ at'[w] = (IF Open(w) = {t} THEN "complete" ELSE "start")
          /\ touched'[w] = touched[w]
      BY <1>2, <2>6, <3>1 DEF EndTask, Checkpoint, Go, JournalTypes, Applying
    <3>3. Open(w)' = Open(w) \ {t}
      BY <3>2, WithOpen DEF TaskStatuses
    <3>4. Current(w) = {t}
      BY CurrentUnique DEF JournalTypes
    <3> QED
      BY <2>1, <3>2, <3>3, <3>4 DEF FreshFor
  <2> QED
    BY <1>2, <2>1, <2>2, <2>3, <2>4, <2>5, <2>6, ImportMoves
<1> QED
  BY <1>1, <1>2, ImportStep

\* Nobody but the import itself changes the configuration while it applies, except
\* for the keys of chains.
LEMMA ConfigSteady ==
    ASSUME LockInv, [Next]_vars, NEW w \in Runs, at[w] \in Applying, ~mistaken, ~RunTask(w)
    PROVE  UNCHANGED <<resource, meta>> \/ \E q \in KeyChains : ReplaceKey(q)
<1> USE DEF LockInv
<1>1. ASSUME NEW v \in Runs, Detach(v) PROVE FALSE
  <2>1. v = w
    BY <1>1 DEF Lock, Live, Idle, Applying, Detach
  <2> QED
    BY <1>1, <2>1 DEF Detach, Applying
<1>2. ASSUME NEW v \in Runs, RunTask(v) PROVE FALSE
  BY <1>2 DEF Lock, Live, Idle, Applying, RunTask
<1> QED
  BY <1>1, <1>2 DEF Next, Startup, Review, ApplyReviewed, Request, Plan, ListTasks,
     CheckMutable, StartTask, EndTask, EndEditTask, Finish, Crash, Recover, config, vars

\* What is true of a resource stays true while nothing happens to it.
LEMMA SameResource ==
    ASSUME NEW w \in Runs, NEW r \in Resources, job'[w] = job[w], docs'[w] = docs[w],
           DOMAIN ops'[w] = DOMAIN ops[w], resource'[r] = resource[r], meta'[r] = meta[r],
           \A stage \in Stages : HasRun(w, stage, r)' <=> HasRun(w, stage, r)
    PROVE  /\ AppliedTo(w, r) => AppliedTo(w, r)'
           /\ r \notin Described(w) /\ DroppedFrom(w, r) => DroppedFrom(w, r)'
<1>1. /\ Source(w)' = Source(w) /\ Detached(w, r)' = Detached(w, r)
      /\ Stale(w, r)' = Stale(w, r) /\ Generation(r)' = Generation(r)
  BY DEF Source, Detached, Stale, Generation
<1>2. /\ Skipped(w, r)' = Skipped(w, r) /\ Unchanged(w, r)' = Unchanged(w, r)
      /\ MetadataChanged(w, r)' = MetadataChanged(w, r)
      /\ Managed(r, Source(w))' = Managed(r, Source(w))
      /\ AsDescribed(w, r)' = AsDescribed(w, r)
  BY <1>1 DEF Skipped, Unchanged, MetadataChanged, Managed, AsDescribed, Replaced
<1>3. \A stage \in Stages : /\ HasTask(w, stage, r)' = HasTask(w, stage, r)
                            /\ Due(w, stage, r)' <=> Due(w, stage, r)
  BY DEF HasTask, Due
<1>4. r \in Dropped(w)' <=> r \in Dropped(w)
  BY <1>2 DEF Dropped, Described
<1> QED
  BY <1>2, <1>3, <1>4 DEF AppliedTo, DroppedFrom, Stages

\* And while its key is replaced.
LEMMA ReplacedKeeps ==
    ASSUME JournalTypes, NEW q \in KeyChains, ReplaceKey(q), NEW w \in Runs,
           NEW r \in Resources
    PROVE  /\ AppliedTo(w, r) => AppliedTo(w, r)'
           /\ r \notin Described(w) /\ DroppedFrom(w, r) => DroppedFrom(w, r)'
<1> USE DEF ReplaceKey
<1>1. \A stage \in Stages : HasRun(w, stage, r)' <=> HasRun(w, stage, r)
  BY DEF HasRun
<1>2. CASE r # q
  <2>1. resource'[r] = resource[r] /\ meta'[r] = meta[r]
    BY <1>2
  <2> QED
    BY <1>1, <2>1, SameResource
<1>3. CASE r = q
  <2>1. resource[r] # None /\ resource'[r] = Rotated /\ meta'[r] = meta[r] /\ Replaced(r)'
    BY <1>3, RotatedIsNew DEF JournalTypes, Replaced
  <2>2. /\ Source(w)' = Source(w) /\ Generation(r)' = Generation(r)
        /\ (resource[r] # None) /\ (resource'[r] # None)
    BY <2>1, RotatedIsNew DEF Source, Generation
  <2>3. Detached(w, r)' = Detached(w, r) /\ Stale(w, r)' = Stale(w, r)
    <3>1. Detached(w, r)' = Detached(w, r)
      BY <2>1, <2>2 DEF Detached
    <3> QED
      BY <2>1, <2>2, <3>1 DEF Stale
  <2>4. Skipped(w, r)' = Skipped(w, r)
    BY <2>2, <2>3 DEF Skipped
  <2>5. /\ MetadataChanged(w, r)' = MetadataChanged(w, r)
        /\ Managed(r, Source(w))' = Managed(r, Source(w))
    BY <2>1, <2>2 DEF MetadataChanged, Managed
  <2>6. AsDescribed(w, r)'
    BY <2>1 DEF AsDescribed
  <2>7. \A stage \in Stages : /\ HasTask(w, stage, r)' = HasTask(w, stage, r)
                              /\ Due(w, stage, r)' <=> Due(w, stage, r)
    BY <1>1 DEF HasTask, Due
  <2>8. r \in Dropped(w)' <=> r \in Dropped(w)
    BY <2>5 DEF Dropped, Described
  <2> QED
    BY <1>1, <2>4, <2>5, <2>6, <2>7, <2>8 DEF AppliedTo, DroppedFrom, Stages
<1> QED
  BY <1>2, <1>3

\* A task for a resource waits for the one before it.
LEMMA FirstTaskDone ==
    ASSUME JournalInv, NEW w \in Runs, at[w] # "over", NEW t \in Current(w), NEW stage,
           \/ t.stage = "ownership" /\ stage = "resource"
           \/ t.stage = "delete-ownership" /\ stage = "delete"
    PROVE  ~Due(w, stage, t.r)
<1> SUFFICES ASSUME Due(w, stage, t.r) PROVE FALSE
  OBVIOUS
<1> DEFINE u == Task(stage, t.r)
<1>1. u \in DOMAIN ops[w] /\ u \notin touched[w] /\ u.stage = stage /\ u.r = t.r
  BY DEF Due, HasTask, HasRun, Task
<1>2. u \in Open(w) /\ u # t
  BY <1>1 DEF JournalInv, Accounts, AccountsFor, Covers, Open
<1>3. Before(t, u)
  BY <1>2 DEF Current
<1>4. t.r \in Nat
  <2>1. t \in Tasks
    BY CurrentInDomain DEF JournalInv, JournalTypes, Reports
  <2> QED
    BY <2>1, ResourcesNumbered DEF Tasks
<1> QED
  BY <1>1, <1>3, <1>4 DEF Before

\* A task of an import has its effect.
LEMMA EffectProgress ==
    ASSUME JournalInv, TypesInv, NEW w \in Runs, at[w] = "run", Import(w), ProgressOf(w),
           NEW t \in Current(w), Effect(w, t), UNCHANGED <<job, docs, ops>>
    PROVE  ProgressOf(w)'
<1> USE DEF JournalInv, TypesInv
<1>1. t \in Tasks /\ t \in DOMAIN ops[w] /\ t.r \in Resources
  BY CurrentInDomain DEF JournalTypes, Reports, Tasks
<1>2. PlannedFor(w)
  BY DEF Planned, Applying
<1>3. /\ resource'[t.r] = Stored(w, t) /\ meta'[t.r] = StoredMeta(w, t)
      /\ touched'[w] = touched[w] \cup {t}
      /\ \A r \in Resources \ {t.r} : resource'[r] = resource[r] /\ meta'[r] = meta[r]
  BY <1>1 DEF Effect, JournalTypes
<1>4. \A stage \in Stages, r \in Resources :
         /\ HasTask(w, stage, r)' = HasTask(w, stage, r)
         /\ HasRun(w, stage, r)' <=> (HasRun(w, stage, r) \/ (stage = t.stage /\ r = t.r))
  BY <1>1, <1>3, TaskFields DEF HasTask, HasRun
<1>5. ASSUME NEW r \in Resources \ {t.r}
      PROVE  /\ AppliedTo(w, r) => AppliedTo(w, r)'
             /\ r \notin Described(w) /\ DroppedFrom(w, r) => DroppedFrom(w, r)'
  BY <1>3, <1>4, <1>5, SameResource
<1>6. ASSUME t.r \in Described(w) PROVE AppliedTo(w, t.r)'
  <2>1. AppliedTo(w, t.r) /\ t.stage \in {"resource", "ownership"}
    BY <1>1, <1>2, <1>6 DEF ProgressOf, PlannedFor
  <2>2. Task(t.stage, t.r) = t
    BY <1>1, TaskFields
  <2>3. HasTask(w, "ownership", t.r)
    BY <1>1, <1>2, <2>1, <2>2 DEF PlannedFor, HasTask
  <2>4. CASE t.stage = "resource"
    <3>1. resource'[t.r] = docs[w][t.r].text /\ meta'[t.r] = meta[t.r]
      BY <1>3, <2>4 DEF Stored, StoredMeta
    <3>2. Unchanged(w, t.r)' /\ MetadataChanged(w, t.r)' = MetadataChanged(w, t.r)
      BY <3>1 DEF Unchanged, MetadataChanged, Source
    <3>3. ~Due(w, "resource", t.r)'
      BY <1>1, <1>4, <2>4 DEF Due, Stages
    <3> QED
      BY <1>1, <1>4, <2>1, <2>3, <2>4, <3>2, <3>3 DEF AppliedTo, AsDescribed, Stages
  <2>5. CASE t.stage = "ownership"
    <3>1. /\ resource'[t.r] = resource[t.r]
          /\ meta'[t.r] = Owned("file-managed", docs[w][t.r].gen, Source(w))
      BY <1>3, <2>5 DEF Stored, StoredMeta
    <3>2. AsDescribed(w, t.r)' = AsDescribed(w, t.r) /\ ~MetadataChanged(w, t.r)'
      BY <3>1 DEF AsDescribed, Unchanged, Replaced, MetadataChanged, Source
    <3>3. ~Due(w, "resource", t.r) /\ ~Due(w, "resource", t.r)'
      BY <1>1, <1>4, <2>5, FirstTaskDone DEF Due, Stages
    <3> QED
      BY <1>1, <1>4, <2>1, <2>3, <3>2, <3>3 DEF AppliedTo, Stages
  <2> QED
    BY <2>1, <2>4, <2>5
<1>7. ASSUME t.r \notin Described(w) PROVE DroppedFrom(w, t.r)'
  <2>1. DroppedFrom(w, t.r) /\ t.stage \in {"delete", "delete-ownership"}
    BY <1>1, <1>2, <1>7 DEF ProgressOf, PlannedFor, Tasks, Stages
  <2>2. CASE t.stage = "delete"
    <3>1. meta'[t.r] = meta[t.r]
      BY <1>3, <2>2 DEF StoredMeta
    <3>2. t.r \in Dropped(w)' <=> t.r \in Dropped(w)
      BY <3>1 DEF Dropped, Described, Managed, Source
    <3>3. ~Due(w, "delete", t.r)' /\ Due(w, "delete-ownership", t.r)' = Due(w, "delete-ownership", t.r)
      BY <1>1, <1>4, <2>2 DEF Due, Stages
    <3> QED
      BY <2>1, <3>2, <3>3 DEF DroppedFrom
  <2>3. CASE t.stage = "delete-ownership"
    <3>1. t.r \notin Dropped(w)'
      BY <1>3, <2>3 DEF StoredMeta, Dropped, Managed
    <3>2. ~Due(w, "delete", t.r)'
      BY <1>1, <1>4, <2>3, FirstTaskDone DEF Due, Stages
    <3> QED
      BY <3>1, <3>2 DEF DroppedFrom
  <2> QED
    BY <2>1, <2>2, <2>3
<1>8. Described(w)' = Described(w)
  BY DEF Described
<1> QED
  BY <1>5, <1>6, <1>7, <1>8 DEF ProgressOf, Described

\* What a new plan leaves out needs no task.
LEMMA PlanProgress ==
    ASSUME NEW w \in Runs, touched[w] = {}, UNCHANGED <<resource, meta, job, docs, touched>>,
           ops'[w] = [t \in PlannedTasks(w) |-> "pending"]
    PROVE  ProgressOf(w)'
<1>1. DOMAIN ops'[w] = PlannedTasks(w)
  OBVIOUS
<1>2. \A stage \in Stages, r \in Resources : ~HasRun(w, stage, r)'
  BY DEF HasRun
<1>3. \A r \in Resources :
         /\ HasTask(w, "resource", r)' <=> r \in Written(w)
         /\ HasTask(w, "ownership", r)' <=> r \in Written(w) \cup Claimed(w)
         /\ HasTask(w, "delete", r)' <=> r \in Dropped(w)
         /\ HasTask(w, "delete-ownership", r)' <=> r \in Dropped(w)
  BY <1>1, PlanIs DEF HasTask
<1>4. /\ Described(w)' = Described(w) /\ Dropped(w)' = Dropped(w)
      /\ \A r \in Resources :
            /\ Skipped(w, r)' = Skipped(w, r) /\ Unchanged(w, r)' = Unchanged(w, r)
            /\ MetadataChanged(w, r)' = MetadataChanged(w, r)
            /\ Managed(r, Source(w))' = Managed(r, Source(w))
  BY DEF Described, Dropped, Skipped, Unchanged, MetadataChanged, Managed, Source, Detached,
         Stale, Generation
<1>5. ASSUME NEW r \in Described(w) PROVE AppliedTo(w, r)'
  BY <1>2, <1>3, <1>4 DEF AppliedTo, AsDescribed, Due, Written, Claimed, Described, Stages
<1>6. ASSUME NEW r \in Resources \ Described(w) PROVE DroppedFrom(w, r)'
  BY <1>2, <1>3, <1>4 DEF DroppedFrom, Due, Dropped, Stages
<1> QED
  BY <1>4, <1>5, <1>6 DEF ProgressOf

LEMMA ProgressStep == TypesInv /\ JournalInv /\ LockInv /\ Progress /\ [Next]_vars => Progress'
<1> SUFFICES ASSUME TypesInv, JournalInv, LockInv, Progress, [Next]_vars, NEW w \in Runs,
                    at'[w] \in Applying, Import(w)', ~mistaken'
             PROVE  ProgressOf(w)'
  BY DEF Progress
<1>1. ~mistaken
  BY DEF Next, Startup, Review, ApplyReviewed, Request, Plan, ListTasks, CheckMutable,
         Detach, StartTask, RunTask, EndTask, EndEditTask, Finish, Crash, Recover,
         ReplaceKey, vars
<1>2. CASE Plan(w) /\ ops'[w] = [t \in PlannedTasks(w) |-> "pending"]
  <2>1. touched[w] = {} /\ UNCHANGED <<resource, meta, job, docs, touched>>
    BY <1>2 DEF Plan, JournalInv, Accounts, AccountsFor, config
  <2> QED
    BY <1>2, <2>1, PlanProgress
<1>3. CASE /\ at[w] \in Applying /\ job'[w] = job[w] /\ docs'[w] = docs[w]
           /\ DOMAIN ops'[w] = DOMAIN ops[w]
  <2>1. Import(w) /\ ProgressOf(w)
    BY <1>1, <1>3 DEF Import, Progress
  <2>2. CASE RunTask(w)
    <3>1. PICK t \in Current(w) : Effect(w, t) /\ Go(w, "done") /\ UNCHANGED ops
      BY <2>2 DEF RunTask, Go, JournalInv, JournalTypes, Applying
    <3> QED
      BY <2>1, <2>2, <3>1, EffectProgress DEF RunTask
  <2>3. ASSUME NEW q \in KeyChains, ReplaceKey(q) PROVE ProgressOf(w)'
    <3>1. Described(w)' = Described(w)
      BY <1>3 DEF Described
    <3> QED
      BY <2>1, <2>3, <3>1, ReplacedKeeps DEF LockInv, ProgressOf, Described
  <2>4. CASE ~RunTask(w) /\ ~\E q \in KeyChains : ReplaceKey(q)
    <3>1. UNCHANGED <<resource, meta>>
      BY <1>1, <1>3, <2>4, ConfigSteady
    <3>2. touched'[w] = touched[w]
      BY <1>3, <2>1, <2>4, ImportMoves DEF ListTasks, StartTask, EndTask, TypesInv
    <3>3. Described(w)' = Described(w)
      BY <1>3 DEF Described
    <3> QED
      BY <1>3, <2>1, <3>1, <3>2, <3>3, SameResource DEF ProgressOf, HasRun, Described
  <2> QED
    BY <2>2, <2>3, <2>4
<1> QED
  BY <1>2, <1>3, ImportStep DEF TypesInv

\* An import that has come to its end has done all of its tasks.
LEMMA EndMeansApplied ==
    ASSUME JournalInv, Fresh, Progress, NEW w \in Runs, at[w] = "complete", Import(w), ~mistaken
    PROVE  /\ \A r \in Described(w) :
                 Skipped(w, r) \/ (AsDescribed(w, r) /\ ~MetadataChanged(w, r))
           /\ Dropped(w) = {}
<1>1. Open(w) = {}
  BY DEF Fresh, FreshFor, Applying
<1>2. \A stage \in Stages, r \in Resources : ~Due(w, stage, r)
  BY <1>1 DEF Due, HasTask, HasRun, Open, JournalInv, Accounts, AccountsFor, Covers
<1>3. ProgressOf(w)
  BY DEF Progress, Applying
<1>4. ASSUME NEW r \in Described(w)
      PROVE  Skipped(w, r) \/ (AsDescribed(w, r) /\ ~MetadataChanged(w, r))
  <2>1. AppliedTo(w, r) /\ r \in Resources
    BY <1>3 DEF ProgressOf, Described
  <2> QED
    BY <1>2, <2>1 DEF AppliedTo, Due, Stages
<1>5. Dropped(w) = {}
  BY <1>2, <1>3 DEF ProgressOf, DroppedFrom, Dropped, Stages
<1> QED
  BY <1>4, <1>5

\* A startup import has no task for what is detached from the folder.
LEMMA StartupKeeps ==
    ASSUME TypesInv, JournalInv, Fresh, Progress, [Next]_vars, NEW w \in Runs,
           NEW r \in Resources, at[w] = "run", at'[w] # "run", job[w].kind = "startup",
           ~mistaken, resource[r] # None, meta[r] # None,
           meta[r].own = "detached", meta[r].source = "folder"
    PROVE  resource'[r] = resource[r]
<1> SUFFICES ASSUME resource'[r] # resource[r] PROVE FALSE
  OBVIOUS
<1> USE DEF TypesInv, JournalInv, JournalTypes
<1>1. PICK v \in Runs : RunTask(v)
  <2>1. ~UNCHANGED resource /\ Next /\ ~\E q \in KeyChains : ReplaceKey(q)
    BY DEF ReplaceKey, vars, config
  <2>2. PICK v \in Runs :
          \/ Startup(v) \/ Review(v) \/ ApplyReviewed(v) \/ Request(v)
          \/ Plan(v) \/ ListTasks(v) \/ CheckMutable(v) \/ Detach(v)
          \/ StartTask(v) \/ RunTask(v) \/ EndTask(v) \/ EndEditTask(v)
          \/ Finish(v) \/ Crash(v) \/ Recover(v)
    BY <2>1 DEF Next
  <2>3. ~(Startup(v) \/ Review(v) \/ ApplyReviewed(v) \/ Request(v) \/ Plan(v))
    BY <2>1 DEF Startup, Review, ApplyReviewed, Request, Plan, config
  <2>4. ~(ListTasks(v) \/ CheckMutable(v) \/ Detach(v) \/ StartTask(v))
    BY <2>1 DEF ListTasks, CheckMutable, Detach, StartTask, config
  <2>5. ~(EndTask(v) \/ EndEditTask(v) \/ Finish(v) \/ Crash(v) \/ Recover(v))
    BY <2>1 DEF EndTask, EndEditTask, Finish, Crash, Recover, config
  <2> QED
    BY <2>2, <2>3, <2>4, <2>5
<1>2. v = w
  BY <1>1 DEF RunTask, Go
<1> PICK t \in Current(w) : Effect(w, t)
  BY <1>1, <1>2 DEF RunTask, config
<1>3. t.r = r /\ t.stage \in {"resource", "delete"} /\ t \in Tasks /\ t \in Open(w)
  <2>1. t \in Tasks /\ t \in Open(w)
    BY CurrentInDomain DEF Reports, Current
  <2>2. t.r = r
    BY <2>1 DEF Effect, Stored, Tasks
  <2> QED
    BY <2>1, <2>2 DEF Effect, Stored, Tasks, Stages
<1>4. Import(w) /\ Source(w) = "folder" /\ ProgressOf(w) /\ FreshFor(w) /\ PlannedFor(w)
  BY DEF Import, Imports, Source, Progress, Fresh, Planned, Applying
<1>5. Due(w, t.stage, r)
  BY <1>3, <1>4, TaskFields DEF FreshFor, Due, HasTask, HasRun, Open
<1>6. Detached(w, r)
  BY <1>4 DEF Detached
<1>7. CASE t.stage = "resource"
  <2>1. r \in Described(w)
    BY <1>3, <1>4, <1>7 DEF PlannedFor, Open
  <2> QED
    BY <1>4, <1>5, <1>6, <1>7, <2>1 DEF ProgressOf, AppliedTo, Skipped
<1>8. CASE t.stage = "delete"
  <2>1. r \notin Described(w)
    BY <1>3, <1>4, <1>8 DEF PlannedFor, Open
  <2> QED
    BY <1>4, <1>5, <1>8, <2>1 DEF ProgressOf, DroppedFrom, Managed
<1> QED
  BY <1>3, <1>7, <1>8
-----------------------------------------------------------------------------
(***************************************************************************)
(* The theorems.                                                           *)
(***************************************************************************)
LEMMA InitInvs == Init => JournalInv /\ LockInv
<1> SUFFICES ASSUME Init PROVE JournalInv /\ LockInv
  OBVIOUS
<1>1. JournalTypes
  BY InitTypes
<1>2. Chosen /\ Lock /\ Live
  BY DEF Init, Chosen, Lock, Live, Idle
<1>3. AppliedAsReviewed
  BY DEF Init, AppliedAsReviewed
<1>4. Accounts /\ Started
  BY NoTasksType DEF Init, Accounts, AccountsFor, Covers, Started, StartedBy
<1> QED
  BY <1>1, <1>2, <1>3, <1>4 DEF JournalInv, LockInv

\* JournalInv and LockInv are invariants of the configuration operations.
THEOREM Inductive == Spec => [](JournalInv /\ LockInv)
<1>1. JournalInv /\ LockInv /\ [Next]_vars => JournalInv' /\ LockInv'
  BY TypesStep, ChosenStep, AccountsStep, LockStep, ReviewStep DEF JournalInv, LockInv
<1> QED
  BY InitInvs, <1>1, PTL DEF Spec

\* And so are the types of the configuration and the progress of imports.
THEOREM ImportsProgress == Spec => [](TypesInv /\ Fresh /\ Progress)
<1> DEFINE I == TypesInv /\ Fresh /\ Progress
           J == JournalInv /\ LockInv
<1>1. Init => I
  <2> SUFFICES ASSUME Init PROVE Fresh /\ Progress
    BY InitConfigTypes
  <2> QED
    BY DEF Init, Fresh, Progress, Applying
<1>2. I /\ J /\ [Next]_vars => I'
  <2> SUFFICES ASSUME I, J, [Next]_vars PROVE I'
    OBVIOUS
  <2>1. TypesInv'
    BY TypesStep, ChosenStep, ConfigTypesStep, RunTypesStep, PlannedStep DEF TypesInv
  <2> QED
    BY <2>1, FreshStep, ProgressStep
<1> QED
  BY Inductive, <1>1, <1>2, PTL DEF Spec

\* Every variable holds values of its kind: also the configuration, whatever the
\* documents, edits and interrupted operations made of it.
THEOREM ConfigurationTypes == Spec => []TypeOK
<1>1. TypesInv => TypeOK
  BY DEF TypesInv, JournalTypes, ConfigTypes, RunTypes, Jobs, TypeOK
<1> QED
  BY ImportsProgress, <1>1, PTL

\* An import that reaches its end has applied its documents, except those it skips and
\* keys replaced since.
THEOREM EndOfImport == Spec => []CompletedMeansApplied
<1>1. JournalInv /\ Fresh /\ Progress => CompletedMeansApplied
  BY EndMeansApplied DEF CompletedMeansApplied
<1> QED
  BY Inductive, ImportsProgress, <1>1, PTL

\* No startup import overwrites or deletes what is detached from the folder.
THEOREM DetachedIsKept == Spec => DetachedKept
<1>1. TypesInv /\ JournalInv /\ Fresh /\ Progress /\ [Next]_vars
         => [\A w \in Runs, r \in Resources :
                /\ at[w] = "run" /\ at'[w] # "run" /\ job[w].kind = "startup" /\ ~mistaken
                /\ resource[r] # None /\ meta[r] # None
                /\ meta[r].own = "detached" /\ meta[r].source = "folder"
                => resource'[r] = resource[r]]_vars
  BY StartupKeeps
<1> QED
  BY Inductive, ImportsProgress, <1>1, PTL DEF Spec, DetachedKept

\* At most one configuration operation of the tenant holds the writer lock, and while
\* nobody takes it away, every operation under way is that one.
THEOREM OneWriter == Spec => [](Lock /\ Live)
<1>1. JournalInv /\ LockInv => Lock /\ Live
  BY DEF LockInv
<1> QED
  BY Inductive, <1>1, PTL

\* The stored report accounts for every effect, wherever the operation stopped.
THEOREM ReportAccounts == Spec => []ReportCoversEffects
<1>1. JournalInv /\ LockInv => ReportCoversEffects
  BY DEF JournalInv, Accounts, AccountsFor, Covers, ReportCoversEffects
<1> QED
  BY Inductive, <1>1, PTL

\* A reviewed plan is applied to the configuration it was made for, but for keys of
\* chains that were replaced since.
THEOREM ReviewedIsApplied == Spec => []AppliedAsReviewed
<1>1. JournalInv /\ LockInv => AppliedAsReviewed
  BY DEF LockInv
<1> QED
  BY Inductive, <1>1, PTL
=============================================================================
