---------------------------- MODULE ConfigImport ----------------------------
(***************************************************************************)
(* The configuration of one tenant and the operations that write it: the   *)
(* import of the config folder when a replica starts, the import of a      *)
(* reviewed bundle, edits and deletions through the management API,        *)
(* detaching a resource from the folder and reattaching it.  Every         *)
(* operation is a row of the journal, and the one row that runs holds the  *)
(* writer lock of the tenant across all replicas.  An operation is a list  *)
(* of tasks, each of them a transaction of its own, whose progress is      *)
(* stored in the row before and after the task; a replica may stop at any  *)
(* point, and an operator releases the lock of an operation that is gone.  *)
(* Rotations and enrolments of a key chain are no operations: they change  *)
(* the configuration without a row of the journal or the lock.             *)
(*                                                                         *)
(* What a resource is made of is its text: that of a document, the name of *)
(* the operation that edited it, or Rotated for a key chain whose key or   *)
(* certificate was replaced since.  Resources are numbered in the order of *)
(* their import phases.                                                    *)
(***************************************************************************)
EXTENDS Naturals

CONSTANTS Runs,        \* configuration operations, on any replica
          Resources,
          Strict,      \* resources whose deletion fails when they are gone
          KeyChains,   \* resources whose key and certificate are replaced as they serve
          Docs,        \* versions of documents: [gen, text]
          Folders,     \* what may be in the config folder of the tenant
          Bundle,      \* the documents of the bundle
          Modes,       \* import modes in use
          Rotated,     \* the text of a key chain after that
          None

ASSUME ResourcesNumbered == Resources \subseteq Nat /\ Strict \subseteq Resources
ASSUME DocsAreDocuments ==
    /\ \A d \in Docs : d.gen \in Nat \ {0} /\ d.text \notin Runs \cup {None}
    /\ None \notin Docs
ASSUME DocumentsGiven ==
    Folders \cup {Bundle} \subseteq [Resources -> Docs \cup {None}]
ASSUME KnownModes == Modes \subseteq {"create", "upsert", "replace"}
ASSUME NoRunIsNone == None \notin Runs
ASSUME RotatedIsNew ==
    /\ KeyChains \subseteq Resources
    /\ Rotated \notin Runs \cup {d.text : d \in Docs} \cup {None}

VARIABLES
    resource,  \* the stored resources
    meta,      \* their ownership and generation
    status,    \* journal: status of each operation; "running" holds the lock
    report,    \* journal: the tasks of each operation and their statuses
    at,        \* where each operation is
    job,       \* what each operation is
    docs,      \* the documents it imports
    ops,       \* its tasks and their statuses, in memory
    reviewed,  \* the configuration its reviewed plan was made for
    touched,   \* history: the tasks that changed the configuration
    mistaken   \* history: an operator released the lock of a live operation

config == <<resource, meta>>
journal == <<status, report>>
vars == <<config, journal, at, job, docs, ops, reviewed, touched, mistaken>>

Stages == {"resource", "ownership", "delete", "delete-ownership"}
Tasks == [stage : Stages, r : Resources]
Task(stage, r) == [stage |-> stage, r |-> r]
NoTasks == [t \in {} |-> "pending"]
NoDocs == [r \in Resources |-> None]
Owned(own, gen, source) == [own |-> own, gen |-> gen, source |-> source]

Imports == {"startup", "bundle", "reattach"}
Edits == {"post", "patch", "delete"}

Missing == <<None, None>>
Imported(d) == <<d.text, Owned("file-managed", d.gen, "folder")>>
Created(d) == <<d.text, Owned("unmanaged", d.gen, None)>>
Edited(d) == <<d.text, Owned("detached", d.gen, "folder")>>

\* Each resource is missing, or was imported from the folder, or created through
\* the API, or detached from the folder and edited.
Init ==
    /\ \E past \in [Resources -> {Missing} \cup {Imported(d) : d \in Docs} \cup
                                {Created(d) : d \in Docs} \cup {Edited(d) : d \in Docs}] :
          /\ resource = [r \in Resources |-> past[r][1]]
          /\ meta = [r \in Resources |-> past[r][2]]
    /\ status = [w \in Runs |-> "none"]
    /\ report = [w \in Runs |-> NoTasks]
    /\ at = [w \in Runs |-> "idle"]
    /\ job = [w \in Runs |-> None]
    /\ docs = [w \in Runs |-> NoDocs]
    /\ ops = [w \in Runs |-> NoTasks]
    /\ reviewed = [w \in Runs |-> None]
    /\ touched = [w \in Runs |-> {}]
    /\ mistaken = FALSE

Go(w, place) == at' = [at EXCEPT ![w] = place]
Import(w) == job[w].kind \in Imports
Reviewed(w) == job[w].kind \in {"bundle", "reattach"}
MutantSource(w) == job[w].kind  \* the kind of the import

Source(w) == IF job[w].kind = "bundle" THEN "bundle" ELSE "folder"
-----------------------------------------------------------------------------
(***************************************************************************)
(* The journal.                                                            *)
(***************************************************************************)
\* The unique activeTenant column, which only a running row has, admits one: an
\* operation that finds another is refused and leaves nothing.
Acquire(w, place) ==
    /\ \A v \in Runs : status[v] # "running"
    /\ status' = [status EXCEPT ![w] = "running"]
    /\ Go(w, place)

\* checkpoint: stores the tasks while the operation holds the lock, and throws
\* when it was interrupted.
Checkpoint(w, tasks, place, lost) ==
    IF status[w] = "running"
    THEN /\ report' = [report EXCEPT ![w] = tasks]
         /\ ops' = [ops EXCEPT ![w] = tasks]
         /\ Go(w, place)
    ELSE /\ ops' = [ops EXCEPT ![w] = lost]
         /\ Go(w, "fail")
         /\ UNCHANGED report

\* What the replica has of an operation in memory goes with it.
Forget(w) ==
    /\ Go(w, "over")
    /\ job' = [job EXCEPT ![w] = None]
    /\ docs' = [docs EXCEPT ![w] = NoDocs]
    /\ ops' = [ops EXCEPT ![w] = NoTasks]
    /\ reviewed' = [reviewed EXCEPT ![w] = None]

\* finish: under the same condition; the database may also be gone by then.
Finish(w) ==
    /\ at[w] \in {"complete", "fail"}
    /\ Forget(w)
    /\ \/ /\ status[w] = "running"
          /\ status' = [status EXCEPT ![w] = IF at[w] = "fail" THEN "failed"
                                             ELSE "completed"]
          /\ report' = [report EXCEPT ![w] = ops[w]]
       \/ UNCHANGED journal
    /\ UNCHANGED <<config, touched, mistaken>>

\* The replica of an operation stops.
Crash(w) ==
    /\ at[w] \notin {"idle", "reviewed", "over"}
    /\ Forget(w)
    /\ UNCHANGED <<config, journal, touched, mistaken>>

\* acknowledgeInterruption: the revision of the row makes the operator's reading
\* and the update one step.  Only the operator knows whether the worker stopped,
\* unless it is the replica that answers.
Recover(w) ==
    /\ status[w] = "running"
    /\ status' = [status EXCEPT ![w] = "interrupted"]
    /\ mistaken' = (mistaken \/ at[w] # "over")
    /\ UNCHANGED <<config, report, at, job, docs, ops, reviewed, touched>>
-----------------------------------------------------------------------------
(***************************************************************************)
(* Operations start.                                                       *)
(***************************************************************************)
OnlyFrom(documents, r) == [NoDocs EXCEPT ![r] = documents[r]]

\* A replica starts: it reads the folder, then takes the lock.
Startup(w) ==
    /\ at[w] = "idle"
    /\ \E mode \in Modes :
          job' = [job EXCEPT ![w] = [kind |-> "startup", mode |-> mode, r |-> None]]
    /\ \E folder \in Folders : docs' = [docs EXCEPT ![w] = folder]
    /\ Acquire(w, "plan")
    /\ UNCHANGED <<config, report, ops, reviewed, touched, mistaken>>

\* A plan, made without the lock, that an operator reviews.
Review(w) ==
    /\ at[w] = "idle"
    /\ \/ /\ \E mode \in Modes :
                job' = [job EXCEPT ![w] = [kind |-> "bundle", mode |-> mode, r |-> None]]
          /\ docs' = [docs EXCEPT ![w] = Bundle]
       \/ \E folder \in Folders, r \in Resources :
             /\ folder[r] # None
             /\ job' = [job EXCEPT ![w] = [kind |-> "reattach", mode |-> "upsert", r |-> r]]
             /\ docs' = [docs EXCEPT ![w] = OnlyFrom(folder, r)]
    /\ reviewed' = [reviewed EXCEPT ![w] = [resource |-> resource, meta |-> meta,
                                            docs |-> docs'[w]]]
    /\ Go(w, "reviewed")
    /\ UNCHANGED <<config, journal, ops, touched, mistaken>>

\* The operator applies the plan; reattaching reads the folder again.
ApplyReviewed(w) ==
    /\ at[w] = "reviewed"
    /\ \/ job[w].kind = "bundle" /\ UNCHANGED docs
       \/ \E folder \in Folders :
             /\ job[w].kind = "reattach" /\ folder[job[w].r] # None
             /\ docs' = [docs EXCEPT ![w] = OnlyFrom(folder, job[w].r)]
    /\ Acquire(w, "plan")
    /\ UNCHANGED <<config, report, job, ops, reviewed, touched, mistaken>>

\* POST, PUT or PATCH, DELETE of a resource, and its detachment.
Request(w) ==
    /\ at[w] = "idle"
    /\ \E kind \in Edits \cup {"detach"}, r \in Resources :
          /\ job' = [job EXCEPT ![w] = [kind |-> kind, mode |-> None, r |-> r]]
          /\ Acquire(w, IF kind = "detach" THEN "detach" ELSE "check")
    /\ UNCHANGED <<config, report, docs, ops, reviewed, touched, mistaken>>
-----------------------------------------------------------------------------
(***************************************************************************)
(* The plan of an import, made again under the lock.                       *)
(***************************************************************************)
Generation(r) == IF meta[r] = None THEN 1 ELSE meta[r].gen
Managed(r, source) ==
    meta[r] # None /\ meta[r].own = "file-managed" /\ meta[r].source = source

\* Detached from the source that is imported; or changed since the document.
Detached(w, r) ==
    /\ resource[r] # None /\ job[w].kind # "reattach" /\ meta[r] # None
    /\ meta[r].own = "detached" /\ meta[r].source = Source(w)
Stale(w, r) ==
    /\ resource[r] # None /\ job[w].kind # "reattach" /\ ~Detached(w, r)
    /\ docs[w][r].gen < Generation(r)

Blocked(w, r) == Stale(w, r) /\ job[w].kind # "startup"

MutantSkipped(w, r) ==  \* the detached resource is not looked for
    \/ Stale(w, r) /\ job[w].kind = "startup"
    \/ resource[r] # None /\ job[w].mode = "create"

Skipped(w, r) ==
    \/ Detached(w, r)
    \/ Stale(w, r) /\ job[w].kind = "startup"
    \/ resource[r] # None /\ job[w].mode = "create"

Described(w) == {r \in Resources : docs[w][r] # None}
Unchanged(w, r) == resource[r] = docs[w][r].text
MetadataChanged(w, r) ==
    meta[r] # Owned("file-managed", docs[w][r].gen, Source(w))

MutantClaimed(w) == {}  \* an unchanged resource keeps its owner

\* Resources to write, resources whose ownership follows, resources to delete.
Written(w) == {r \in Described(w) : ~Skipped(w, r) /\ ~Unchanged(w, r)}
Claimed(w) == {r \in Described(w) :
                 ~Skipped(w, r) /\ Unchanged(w, r) /\ MetadataChanged(w, r)}
Dropped(w) == {r \in Resources \ Described(w) :
                 job[w].mode = "replace" /\ Managed(r, Source(w))}

PlannedTasks(w) ==
    {Task("resource", r) : r \in Written(w)} \cup
    {Task("ownership", r) : r \in Written(w) \cup Claimed(w)} \cup
    {Task(stage, r) : stage \in {"delete", "delete-ownership"}, r \in Dropped(w)}

MutantMatches(w) == reviewed[w].docs = docs[w]  \* only the bundle is compared

\* The fingerprint covers the documents, the mode and the target configuration.
Matches(w) == reviewed[w] = [resource |-> resource, meta |-> meta, docs |-> docs[w]]

\* A stale plan, or one with blocking issues of whatever kind, writes nothing.
Plan(w) ==
    /\ at[w] = "plan"
    /\ \/ /\ \A r \in Described(w) : ~Blocked(w, r)
          /\ Reviewed(w) => Matches(w)
          /\ ops' = [ops EXCEPT ![w] = [t \in PlannedTasks(w) |-> "pending"]]
          /\ Go(w, "list")
       \/ Go(w, "fail") /\ UNCHANGED ops
    /\ UNCHANGED <<config, journal, job, docs, reviewed, touched, mistaken>>

\* The plan is stored before its first task; nothing to do ends the import.
ListTasks(w) ==
    /\ at[w] = "list"
    /\ Checkpoint(w, ops[w], IF DOMAIN ops[w] = {} THEN "complete" ELSE "start", ops[w])
    /\ UNCHANGED <<config, status, job, docs, reviewed, touched, mistaken>>
-----------------------------------------------------------------------------
(***************************************************************************)
(* An edit: the interceptor around the handler of the API.                 *)
(***************************************************************************)
\* assertMutable.  The row of an edit lists its second task only when it starts;
\* pending stands for that, and for a deletion the row says "resource" first.
CheckMutable(w) ==
    /\ at[w] = "check"
    /\ LET r == job[w].r
           tasks == IF job[w].kind = "delete" THEN {"delete", "delete-ownership"}
                    ELSE {"resource", "ownership"}
       IN  IF meta[r] # None /\ meta[r].own = "file-managed"
           THEN Go(w, "fail") /\ UNCHANGED ops
           ELSE /\ ops' = [ops EXCEPT ![w] = [t \in {Task(s, r) : s \in tasks} |-> "pending"]]
                /\ Go(w, "start")
    /\ UNCHANGED <<config, journal, job, docs, reviewed, touched, mistaken>>

\* detach: has no tasks; the former source stays in the row.
Detach(w) ==
    /\ at[w] = "detach"
    /\ LET r == job[w].r
           own == IF meta[r] = None THEN "unmanaged" ELSE meta[r].own
       IN  /\ Go(w, IF own = "unmanaged" THEN "fail" ELSE "complete")
           /\ meta' = IF own = "file-managed"
                      THEN [meta EXCEPT ![r].own = "detached"] ELSE meta
    /\ UNCHANGED <<resource, journal, job, docs, ops, reviewed, touched, mistaken>>
-----------------------------------------------------------------------------
(***************************************************************************)
(* The tasks of imports and edits, one after the other.                    *)
(***************************************************************************)
\* Resources in the order of their import phases, deletions in the reverse order
\* at the end; the ownership of a resource after the resource.
Before(t, u) ==
    LET deletion(x) == x.stage \in {"delete", "delete-ownership"}
    IN  \/ ~deletion(t) /\ deletion(u)
        \/ ~deletion(t) /\ ~deletion(u) /\ t.r < u.r
        \/ deletion(t) /\ deletion(u) /\ t.r > u.r
        \/ t.r = u.r /\ <<t.stage, u.stage>> \in {<<"resource", "ownership">>,
                                                  <<"delete", "delete-ownership">>}

Open(w) == {t \in DOMAIN ops[w] : ops[w][t] # "completed"}
Current(w) == {t \in Open(w) : \A u \in Open(w) \ {t} : Before(t, u)}

MutantWith(w, t, outcome) == ops[w]  \* the status is set after the checkpoint

\* The tasks with one of them in a new status.
With(w, t, outcome) == [ops[w] EXCEPT ![t] = outcome]

StartTask(w) ==
    /\ at[w] = "start"
    /\ \E t \in Current(w) :
          Checkpoint(w, With(w, t, "running"), "run", With(w, t, "failed"))
    /\ UNCHANGED <<config, status, job, docs, reviewed, touched, mistaken>>

\* When a task throws: handlers refuse to change what is gone; markApplied checks
\* the generation once more, also where the plan found no resource.
Throws(w, t) ==
    CASE t.stage = "delete" -> resource[t.r] = None /\ t.r \in Strict
      [] t.stage = "resource" -> resource[t.r] = None /\ job[w].kind = "patch"
      [] t.stage = "ownership" -> job[w].kind \in {"startup", "bundle"}
                                  /\ docs[w][t.r].gen < Generation(t.r)
      [] OTHER -> FALSE

\* recordApiMutation: a detached resource stays detached, others are unmanaged.
Mutated(w, r) ==
    LET detached == meta[r] # None /\ meta[r].own = "detached"
    IN  Owned(IF detached THEN "detached" ELSE "unmanaged",
              IF job[w].kind = "post" /\ meta[r] = None THEN 1 ELSE Generation(r) + 1,
              IF detached THEN meta[r].source ELSE None)

Stored(w, t) ==
    CASE t.stage = "delete" -> None
      [] t.stage = "resource" /\ Import(w) -> docs[w][t.r].text
      [] t.stage = "resource" /\ ~Import(w) -> w
      [] OTHER -> resource[t.r]

StoredMeta(w, t) ==
    CASE t.stage = "delete-ownership" -> None
      [] t.stage = "ownership" /\ Import(w) ->
            Owned("file-managed", docs[w][t.r].gen, Source(w))
      [] t.stage = "ownership" /\ ~Import(w) -> Mutated(w, t.r)
      [] OTHER -> meta[t.r]

Effect(w, t) ==
    /\ resource' = [resource EXCEPT ![t.r] = Stored(w, t)]
    /\ meta' = [meta EXCEPT ![t.r] = StoredMeta(w, t)]
    /\ touched' = [touched EXCEPT ![w] = @ \cup {t}]

\* A task may also fail for reasons of its own, with or without effects.
RunTask(w) ==
    /\ at[w] = "run"
    /\ \E t \in Current(w) :
          \/ ~Throws(w, t) /\ Effect(w, t) /\ Go(w, "done") /\ UNCHANGED ops
          \/ /\ (~Throws(w, t) /\ Effect(w, t)) \/ UNCHANGED <<config, touched>>
             /\ ops' = IF Import(w) THEN [ops EXCEPT ![w] = With(w, t, "failed")] ELSE ops
             /\ Go(w, "fail")
    /\ UNCHANGED <<journal, job, docs, reviewed, mistaken>>

\* The next task of an import follows.
EndTask(w) ==
    /\ at[w] = "done" /\ Import(w)
    /\ \E t \in Current(w) :
          Checkpoint(w, With(w, t, "completed"),
                     IF Open(w) = {t} THEN "complete" ELSE "start", With(w, t, "failed"))
    /\ UNCHANGED <<config, status, job, docs, reviewed, touched, mistaken>>

\* An edit stores the end of its first task together with the start of the second,
\* and the end of that when it finishes.
AfterEdit(w, t) ==
    [u \in DOMAIN ops[w] |-> IF u \in Open(w) \ {t} THEN "running" ELSE "completed"]

EndEditTask(w) ==
    /\ at[w] = "done" /\ ~Import(w)
    /\ \E t \in Current(w) :
          IF Open(w) = {t}
          THEN /\ ops' = [ops EXCEPT ![w] = AfterEdit(w, t)]
               /\ Go(w, "complete")
               /\ UNCHANGED report
          ELSE Checkpoint(w, AfterEdit(w, t), "run", AfterEdit(w, t))
    /\ UNCHANGED <<config, status, job, docs, reviewed, touched, mistaken>>

(***************************************************************************)
(* Key chains that serve.                                                  *)
(***************************************************************************)
\* The daily job and POST /key-chain/{id}/rotate update the active key and the
\* certificate of an existing chain, and the enrolment at the registrar the
\* certificate.  No route of the interceptor matches and no row of the journal is
\* written, but plans compare both, and the fingerprint covers them.
ReplaceKey(r) ==
    /\ resource[r] # None
    /\ resource' = [resource EXCEPT ![r] = Rotated]
    /\ UNCHANGED <<meta, journal, at, job, docs, ops, reviewed, touched, mistaken>>

Next ==
    \/ \E r \in KeyChains : ReplaceKey(r)
    \/ \E w \in Runs :
       \/ Startup(w) \/ Review(w) \/ ApplyReviewed(w) \/ Request(w)
       \/ Plan(w) \/ ListTasks(w) \/ CheckMutable(w) \/ Detach(w)
       \/ StartTask(w) \/ RunTask(w) \/ EndTask(w) \/ EndEditTask(w)
       \/ Finish(w) \/ Crash(w) \/ Recover(w)

Spec == Init /\ [][Next]_vars
-----------------------------------------------------------------------------
(***************************************************************************)
(* Properties.                                                             *)
(***************************************************************************)
Places == {"idle", "reviewed", "plan", "list", "check", "detach", "start", "run", "done",
           "complete", "fail", "over"}
Statuses == {"none", "running", "completed", "failed", "interrupted"}
TaskStatuses == {"pending", "running", "completed", "failed"}
Metas == [own : {"unmanaged", "file-managed", "detached"}, gen : Nat \ {0},
          source : {"folder", "bundle", None}]
Contents == Runs \cup {d.text : d \in Docs} \cup {Rotated, None}
Documents == [Resources -> Docs \cup {None}]
Reports == UNION {[T -> TaskStatuses] : T \in SUBSET Tasks}

TypeOK ==
    /\ resource \in [Resources -> Contents]
    /\ meta \in [Resources -> Metas \cup {None}]
    /\ status \in [Runs -> Statuses]
    /\ at \in [Runs -> Places]
    /\ job \in [Runs -> [kind : Imports \cup Edits \cup {"detach"},
                         mode : Modes \cup {"upsert", None},
                         r : Resources \cup {None}] \cup {None}]
    /\ docs \in [Runs -> Documents]
    /\ ops \in [Runs -> Reports]
    /\ report \in [Runs -> Reports]
    /\ touched \in [Runs -> SUBSET Tasks]
    /\ mistaken \in BOOLEAN

\* "Check the resource the report shows as running": wherever a replica stops, a
\* task fails or an operator takes the lock away, even from a live operation, each
\* task that changed the configuration is in the stored report and not as pending,
\* and each task the report calls completed did change it.
ReportCoversEffects ==
    \A w \in Runs :
        /\ \A t \in touched[w] : t \in DOMAIN report[w] /\ report[w][t] # "pending"
        /\ \A t \in DOMAIN report[w] : report[w][t] = "completed" => t \in touched[w]

Replaced(r) == r \in KeyChains /\ resource[r] = Rotated
AsReviewed(w, r) ==
    /\ meta[r] = reviewed[w].meta[r]
    /\ \/ resource[r] = reviewed[w].resource[r]
       \/ Replaced(r) /\ reviewed[w].resource[r] # None
AsDescribed(w, r) == Unchanged(w, r) \/ Replaced(r)

\* "One configuration writer per tenant runs at a time, across all replicas"
\* (configuration-as-code.md): while an import applies a reviewed plan, the
\* configuration is the one that was reviewed, but for what the import itself has
\* changed and for key chains, whose key may have been replaced (unless an operator
\* released the lock of a live operation).  Who owns a key chain, and whether there
\* is one, is as reviewed.
AppliedAsReviewed ==
    \A w \in Runs :
        /\ at[w] \in {"list", "start", "run", "done", "complete"}
        /\ job[w] # None /\ Reviewed(w) /\ ~mistaken
        => \A r \in Resources : (\E t \in touched[w] : t.r = r) \/ AsReviewed(w, r)

\* "If the bundle, the mode or the target configuration changed in between, it fails
\* with CONFIG_PLAN_STALE before writing anything" (configuration-as-code.md): the
\* first write of a reviewed import finds the configuration that was reviewed.  The
\* code does not keep this when a key is replaced after the plan was compared.
ChangedTargetFails ==
    [][\A w \in Runs :
          /\ touched[w] = {} /\ touched'[w] # {}
          /\ at[w] = "run" /\ Reviewed(w) /\ ~mistaken
          => resource = reviewed[w].resource /\ meta = reviewed[w].meta]_vars

\* "The startup import skips it": what an operator detached from the folder, and
\* then edits, is not overwritten by replicas that start meanwhile.
DetachedKept ==
    [][\A w \in Runs, r \in Resources :
          /\ at[w] = "run" /\ at'[w] # "run" /\ job[w].kind = "startup" /\ ~mistaken
          /\ resource[r] # None /\ meta[r] # None
          /\ meta[r].own = "detached" /\ meta[r].source = "folder"
          => resource'[r] = resource[r]]_vars

\* An import that reaches its end has brought every document that it did not skip
\* into the configuration, under its ownership and generation, unless the key of the
\* chain it describes was replaced since, and with replace nothing that its source
\* managed before is left over.
CompletedMeansApplied ==
    \A w \in Runs :
        at[w] = "complete" /\ Import(w) /\ ~mistaken =>
            /\ \A r \in Described(w) :
                  \/ Skipped(w, r)
                  \/ AsDescribed(w, r) /\ ~MetadataChanged(w, r)
            /\ Dropped(w) = {}

\* plan(): "A startup folder import must not fail the whole tenant because one
\* resource diverged; it skips that resource and says how to recover."
DivergedIsSkipped ==
    \A w \in Runs :
        at[w] = "run" /\ job[w].kind = "startup" /\ ~mistaken
        => \A t \in Current(w) : t.stage = "ownership" => ~Throws(w, t)
=============================================================================
