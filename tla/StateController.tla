--------------------------- MODULE StateController ---------------------------
(***************************************************************************)
(* The controller of one State object: the handler of                      *)
(* pkg/terraform/state (OnChange, OnRemove, gatherInput, deployCreate,     *)
(* deployDestroy), the events that wake it (pkg/terraform/controller.go,   *)
(* pkg/terraform/execution), and the CLI commands and the executor that    *)
(* write the same objects concurrently.                                    *)
(*                                                                         *)
(* The handler runs one sync of the State at a time, but every API call of *)
(* a sync is a step of its own: users, the executor, the informer and the  *)
(* execution controller may act between any two of them, a call may fail,  *)
(* and the process may crash.                                              *)
(*                                                                         *)
(* External code is modelled from how the handler uses it: the API server  *)
(* (optimistic concurrency on resourceVersion), the informer cache and the *)
(* wrangler/lasso loop that calls OnChange and OnRemove in that order,     *)
(* hands them the cached object itself (not a copy) and adds or removes    *)
(* the finalizer.                                                          *)
(***************************************************************************)
EXTENDS Integers, Sequences

CONSTANTS
    Contents,        \* module content hashes
    NoContent,       \* module missing, or its status.contentHash empty
    VariableSets,    \* contents of the referenced secrets and config maps
    NoVariables,     \* one of them is missing
    MaxExecutions,   \* Execution names are 1..MaxExecutions, 0 is ""
    MaxInt,          \* largest value of the 32-bit spec.version
    Images,          \* whether the State may be created with / without image
    MaxEdits,        \* user actions
    MaxFaults,       \* failed or unanswered API calls
    MaxCrashes,      \* controller restarts
    MaxRaces,        \* finalizer writes to an Execution that beat the handler
    MaxPrunes,       \* Executions deleted by a user
    MaxDisturbances  \* all of these together

ASSUME ConstantsOK ==
    /\ NoContent \notin Contents
    /\ NoVariables \notin VariableSets
    /\ MaxExecutions \in Nat
    /\ MaxInt \in Nat \ {0}
    /\ Images \subseteq BOOLEAN
    /\ MaxEdits \in Nat
    /\ MaxFaults \in Nat
    /\ MaxCrashes \in Nat
    /\ MaxRaces \in Nat
    /\ MaxPrunes \in Nat
    /\ MaxDisturbances \in Nat

VARIABLES
    st,          \* the State as the API server stores it
    content,     \* status.contentHash of its Module
    variables,   \* the secrets and config maps it names
    execs,       \* its Executions, with the resources deployed for each
    cache,       \* the informer's copy of the State
    queue,       \* the State's key is in the work queue
    events,      \* watch events on their way to the handlers that enqueue
    pc,          \* where the sync in progress stands
    orig,        \* the object the sync was called with
    shared,      \* orig is still the object the cache holds
    obj,         \* the handler's obj
    input,       \* the handler's input
    hash,        \* the handler's runHash
    run,         \* the Execution being deployed (0: not created yet)
    err,         \* the sync will return an error
    budget       \* what users, faults and crashes may still do

stored == <<st, content, variables, execs>>
local == <<pc, orig, shared, obj, input, hash, run, err>>
vars == <<st, content, variables, execs, cache, queue, events, pc, orig,
          shared, obj, input, hash, run, err, budget>>

-----------------------------------------------------------------------------
(* Objects *)

Names == 1..MaxExecutions

\* spec.version is an int32: Version++ wraps.
Versions == (-MaxInt - 1)..MaxInt

\* Mutant of Bump: the counter is wider than the field.
BumpUnbounded(v) == v + 1

Bump(v) == IF v = MaxInt THEN -MaxInt - 1 ELSE v + 1

\* OnChange's normalisation of spec.version
Normal(v) == IF v < 1 THEN 1 ELSE v

Actions == {"create", "destroy"}

\* The empty run hash
NoHash == [content |-> NoContent, variables |-> NoVariables,
           version |-> 0, action |-> "none"]

\* createRunHash: a digest of exactly these four, taken as collision free.
\* The image, the environment, autoConfirm and destroyOnDelete are not in it.
RunHash(o, in, action) ==
    [content |-> in.content, variables |-> in.variables,
     version |-> o.version, action |-> action]

Hashes == [content : Contents \cup {NoContent},
           variables : VariableSets \cup {NoVariables},
           version : Versions,
           action : Actions \cup {"none"}]

\* A State. present is FALSE once it is removed; image is FALSE while
\* spec.image is empty; jobDeployed is the condition of that name.
StateObjects ==
    [present : BOOLEAN, rv : Nat, deleting : BOOLEAN, finalizer : BOOLEAN,
     version : Versions, image : BOOLEAN, destroyOnDelete : BOOLEAN,
     jobDeployed : BOOLEAN, lastRunHash : Hashes,
     executionName : Names \cup {0}]

NoState ==
    [present |-> FALSE, rv |-> 0, deleting |-> FALSE, finalizer |-> FALSE,
     version |-> 0, image |-> FALSE, destroyOnDelete |-> FALSE,
     jobDeployed |-> FALSE, lastRunHash |-> NoHash, executionName |-> 0]

\* deployCreate and deployDestroy make these writes in this order; stage
\* counts the ones done for an Execution.
Stages == <<"execution", "secretName", "secret", "serviceAccount",
            "clusterRoleBinding", "job", "ownServiceAccount",
            "ownClusterRoleBinding", "ownSecret">>

\* An Execution: live until it is deleted, touched once someone else wrote
\* it, applied once its Applied condition is true.
Executions ==
    [hash : Hashes, stage : 0..Len(Stages), live : BOOLEAN,
     touched : BOOLEAN, applied : BOOLEAN]

NoExecution ==
    [hash |-> NoHash, stage |-> 0, live |-> FALSE, touched |-> FALSE,
     applied |-> FALSE]

Inputs == [content : Contents \cup {NoContent},
           variables : VariableSets \cup {NoVariables}, image : BOOLEAN]

NoInput == [content |-> NoContent, variables |-> NoVariables, image |-> FALSE]

Steps == {"idle", "module", "variables", "decide", "clear", "lock", "deploy",
          "record", "unfinalize", "finish"}

Budgets == {"edits", "faults", "crashes", "races", "prunes", "all"}

Limit(b) ==
    CASE b = "edits" -> MaxEdits
      [] b = "faults" -> MaxFaults
      [] b = "crashes" -> MaxCrashes
      [] b = "races" -> MaxRaces
      [] b = "prunes" -> MaxPrunes
      [] b = "all" -> MaxDisturbances

\* Uses up one of the b's that are left.
Spend(b) ==
    /\ budget[b] > 0
    /\ budget["all"] > 0
    /\ budget' = [budget EXCEPT ![b] = @ - 1, !["all"] = @ - 1]

-----------------------------------------------------------------------------
(* The API server *)

\* An update is accepted only for the version of the object it was read at.
CanWrite(o) == st.present /\ st.rv = o.rv

\* What an accepted update stores: an update that changes nothing leaves the
\* resourceVersion, and a State being deleted goes with its last finalizer.
Stored(o) ==
    LET new == [o EXCEPT !.present = ~(o.deleting /\ ~o.finalizer),
                         !.rv = st.rv]
    IN  IF new = st THEN st ELSE [new EXCEPT !.rv = st.rv + 1]

\* states.Update(o) returns no error.
Updated(o) ==
    /\ CanWrite(o)
    /\ st' = Stored(o)
    /\ UNCHANGED budget

\* states.Update(o) returns an error: a conflict, or a request or an answer
\* that is lost.
UpdateFails(o) ==
    \/ /\ ~CanWrite(o)
       /\ UNCHANGED <<st, budget>>
    \/ /\ Spend("faults")
       /\ st' \in {st} \cup (IF CanWrite(o) THEN {Stored(o)} ELSE {})

\* executions.Get(n) finds the Execution.
Found(n) == n # 0 /\ execs[n].live

-----------------------------------------------------------------------------
(* Initial states: the State has just been created, the controller has not  *)
(* seen it yet; its Module and variables may still be missing.              *)

ResetLocal ==
    /\ pc' = "idle"
    /\ orig' = NoState
    /\ shared' = FALSE
    /\ obj' = NoState
    /\ input' = NoInput
    /\ hash' = NoHash
    /\ run' = 0
    /\ err' = FALSE

Init ==
    /\ \E i \in Images, d \in BOOLEAN :
          st = [NoState EXCEPT !.present = TRUE, !.rv = 1, !.image = i,
                               !.destroyOnDelete = d]
    /\ content \in Contents \cup {NoContent}
    /\ variables \in VariableSets \cup {NoVariables}
    /\ execs = [n \in Names |-> NoExecution]
    /\ cache = NoState
    /\ queue = FALSE
    /\ events = {}
    /\ pc = "idle"
    /\ orig = NoState
    /\ shared = FALSE
    /\ obj = NoState
    /\ input = NoInput
    /\ hash = NoHash
    /\ run = 0
    /\ err = FALSE
    /\ budget = [b \in Budgets |-> Limit(b)]

-----------------------------------------------------------------------------
(* What wakes the handler *)

\* The informer stores the State's current version and enqueues its key.
\* Intermediate versions may be skipped: a sync of one differs from a sync of
\* any other stale version only in what it tries to write, which conflicts.
InformerSync ==
    /\ cache.rv # st.rv
    /\ cache' = st
    /\ queue' = TRUE
    /\ shared' = FALSE
    /\ UNCHANGED <<stored, events, pc, orig, obj, input, hash, run, err, budget>>

\* Mutant of ExecutionOnChange: the change of an Execution wakes nobody.
ExecutionOnChangeIgnored ==
    /\ "execution" \in events
    /\ events' = events \ {"execution"}
    /\ UNCHANGED <<stored, cache, queue, local, budget>>

\* Mutant of RelatedResource: the watch finds no State that names the object.
RelatedResourceIgnored ==
    /\ "input" \in events
    /\ events' = events \ {"input"}
    /\ UNCHANGED <<stored, cache, queue, local, budget>>

\* The Execution handler enqueues the State of an Execution that changed.
ExecutionOnChange ==
    /\ "execution" \in events
    /\ events' = events \ {"execution"}
    /\ queue' = TRUE
    /\ UNCHANGED <<stored, cache, local, budget>>

\* The watches on modules, config maps and secrets enqueue the States that
\* name the object that changed.
RelatedResource ==
    /\ "input" \in events
    /\ events' = events \ {"input"}
    /\ queue' = TRUE
    /\ UNCHANGED <<stored, cache, local, budget>>

\* A worker takes the key; a State that is gone from the cache is ignored.
StartSync ==
    /\ pc = "idle"
    /\ queue
    /\ queue' = FALSE
    /\ IF cache.present
       THEN /\ pc' = "module"
            /\ orig' = cache
            /\ obj' = cache
            /\ shared' = TRUE
       ELSE UNCHANGED <<pc, orig, obj, shared>>
    /\ UNCHANGED <<stored, cache, events, input, hash, run, err, budget>>

-----------------------------------------------------------------------------
(* gatherInput *)

\* The Module and the variables are read one after the other. spec.image is
\* captured here, before OnChange fills in the default.
GatherModule ==
    /\ pc = "module"
    /\ content # NoContent
    /\ input' = [NoInput EXCEPT !.content = content, !.image = obj.image]
    /\ pc' = "variables"
    /\ UNCHANGED <<stored, cache, queue, events, orig, shared, obj, hash, run,
                   err, budget>>

GatherVariables ==
    /\ pc = "variables"
    /\ variables # NoVariables
    /\ input' = [input EXCEPT !.variables = variables]
    /\ pc' = "decide"
    /\ UNCHANGED <<stored, cache, queue, events, orig, shared, obj, hash, run,
                   err, budget>>

\* The sync is over, with or without an error.
Return(e) ==
    /\ err' = e
    /\ pc' = "finish"

GatherFails ==
    /\ \/ pc = "module" /\ content = NoContent /\ UNCHANGED budget
       \/ pc = "variables" /\ variables = NoVariables /\ UNCHANGED budget
       \/ pc \in {"module", "variables"} /\ Spend("faults")
    /\ Return(TRUE)
    /\ UNCHANGED <<stored, cache, queue, events, orig, shared, obj, input,
                   hash, run>>

-----------------------------------------------------------------------------
(* OnChange *)

Running(o) == o.jobDeployed /\ o.lastRunHash # NoHash

\* An assignment to a field of obj before the first Update: obj is the
\* object the sync was called with, and the one the cache holds unless the
\* informer has replaced it since.
Assign(o) ==
    /\ obj' = o
    /\ orig' = o
    /\ cache' = IF shared THEN o ELSE cache

\* The Execution the status names cannot be read.
CheckRunFails ==
    /\ pc = "decide" /\ ~obj.deleting
    /\ Running(obj)
    /\ \/ ~Found(obj.executionName) /\ UNCHANGED budget
       \/ Spend("faults")
    /\ Return(TRUE)
    /\ UNCHANGED <<stored, cache, queue, events, orig, shared, obj, input,
                   hash, run>>

\* Mutant of RunApplied: any Execution that can be read counts.
RunReadable(o) == Running(o) /\ Found(o.executionName)

\* Mutant of RunApplied: only a destroy counts.
DestroyApplied(o) ==
    /\ Running(o)
    /\ Found(o.executionName)
    /\ execs[o.executionName].applied
    /\ execs[o.executionName].hash.action = "destroy"

\* The Execution the status names has been applied.
RunApplied(o) ==
    /\ Running(o)
    /\ Found(o.executionName)
    /\ execs[o.executionName].applied

ClearJobDeployed(o) == [o EXCEPT !.jobDeployed = FALSE, !.executionName = 0]

NoticeCompletion ==
    /\ pc = "decide" /\ ~obj.deleting
    /\ RunApplied(obj)
    /\ Assign(ClearJobDeployed(obj))
    /\ pc' = "clear"
    /\ UNCHANGED <<stored, queue, events, shared, input, hash, run, err, budget>>

SaveCompletion ==
    /\ pc = "clear"
    /\ \/ /\ Updated(obj)
          /\ obj' = st'
          /\ Return(FALSE)
       \/ /\ UpdateFails(obj)
          /\ UNCHANGED obj
          /\ Return(TRUE)
    /\ UNCHANGED <<content, variables, execs, cache, queue, events, orig,
                   shared, input, hash, run>>

\* No run is in progress, or the one in progress is not applied yet: compare
\* the hash of the inputs with the last run's.
CompareHash ==
    /\ pc = "decide" /\ ~obj.deleting
    /\ Running(obj) => /\ Found(obj.executionName)
                       /\ ~execs[obj.executionName].applied
    /\ LET o == [obj EXCEPT !.version = Normal(@)]
           h == RunHash(o, input, "create")
       IN  /\ Assign(o)
           /\ IF h = o.lastRunHash
              THEN Return(FALSE) /\ UNCHANGED hash
              ELSE hash' = h /\ pc' = "lock" /\ UNCHANGED err
    /\ UNCHANGED <<stored, queue, events, shared, input, run, budget>>

\* Mutant of Lock: the run is deployed although the lock was not taken.
LockIgnored ==
    /\ pc = "lock" /\ hash.action = "create"
    /\ \/ Updated(obj) /\ obj' = [st' EXCEPT !.image = TRUE]
       \/ UpdateFails(obj) /\ UNCHANGED obj
    /\ pc' = "deploy"
    /\ UNCHANGED <<content, variables, execs, cache, queue, events, orig,
                   shared, input, hash, run, err>>

\* The Update that serves as a lock; its error is logged and dropped. The
\* default image goes into obj only, input.Image is captured already.
Lock ==
    /\ pc = "lock" /\ hash.action = "create"
    /\ \/ /\ Updated(obj)
          /\ obj' = [st' EXCEPT !.image = TRUE]
          /\ pc' = "deploy"
          /\ UNCHANGED err
       \/ /\ UpdateFails(obj)
          /\ UNCHANGED obj
          /\ Return(FALSE)
    /\ UNCHANGED <<content, variables, execs, cache, queue, events, orig,
                   shared, input, hash, run>>

-----------------------------------------------------------------------------
(* deployCreate and deployDestroy *)

\* executions.Create: the API server generates a fresh name.
Created(n) ==
    /\ execs[n].stage = 0
    /\ \A m \in Names : m < n => execs[m].stage # 0
    /\ execs' = [execs EXCEPT ![n] = [NoExecution EXCEPT !.hash = hash,
                                                         !.stage = 1,
                                                         !.live = TRUE]]
    /\ events' = events \cup {"execution"}

CreateExecution ==
    /\ pc = "deploy" /\ run = 0
    /\ \E n \in Names : Created(n) /\ run' = n
    /\ UNCHANGED <<st, content, variables, cache, queue, pc, orig, shared, obj,
                   input, hash, err, budget>>

\* The Create fails, or only its answer is lost.
CreateExecutionFails ==
    /\ pc = "deploy" /\ run = 0
    /\ Spend("faults")
    /\ \/ \E n \in Names : Created(n)
       \/ UNCHANGED <<execs, events>>
    /\ Return(TRUE)
    /\ UNCHANGED <<st, content, variables, cache, queue, orig, shared, obj,
                   input, hash, run>>

Stage == execs[run].stage

\* The next write is refused: the Execution was written or deleted since it
\* was created, or the Job has no image. The Creates of the other resources
\* accept one that exists already, and the owner reference updates are
\* retried, and a conflict that persists is ignored.
Refused ==
    \/ Stages[Stage + 1] = "secretName" /\ (execs[run].touched \/ ~execs[run].live)
    \/ Stages[Stage + 1] = "job" /\ ~input.image

DeployStep ==
    /\ pc = "deploy" /\ run # 0
    /\ ~Refused
    /\ execs' = [execs EXCEPT ![run].stage = @ + 1]
    /\ pc' = IF Stage + 1 = Len(Stages) THEN "record" ELSE "deploy"
    /\ UNCHANGED <<st, content, variables, cache, queue, events, orig, shared,
                   obj, input, hash, run, err, budget>>

\* What is deployed already stays behind.
DeployFails ==
    /\ pc = "deploy" /\ run # 0
    /\ \/ Refused /\ UNCHANGED <<execs, budget>>
       \/ /\ Spend("faults")
          /\ \/ UNCHANGED execs
             \/ ~Refused /\ execs' = [execs EXCEPT ![run].stage = @ + 1]
    /\ Return(TRUE)
    /\ UNCHANGED <<st, content, variables, cache, queue, events, orig, shared,
                   obj, input, hash, run>>

\* Mutant of Recorded: to avoid the conflict, the object carries the current
\* resourceVersion.
RecordedForced(o) == [o EXCEPT !.jobDeployed = TRUE, !.executionName = run,
                               !.lastRunHash = hash, !.rv = st.rv]

\* The status that records a deployed run
Recorded(o) == [o EXCEPT !.jobDeployed = TRUE, !.executionName = run,
                         !.lastRunHash = hash]

\* When the Update fails its empty result is returned, and the sync goes on
\* with the object it was called with.
RecordRun ==
    /\ pc = "record" /\ hash.action = "create"
    /\ \/ Updated(Recorded(obj)) /\ obj' = st' /\ Return(FALSE)
       \/ UpdateFails(Recorded(obj)) /\ obj' = orig /\ Return(TRUE)
    /\ UNCHANGED <<content, variables, execs, cache, queue, events, orig,
                   shared, input, hash, run>>

-----------------------------------------------------------------------------
(* OnRemove *)

\* Mutant of RemoveDone: a State without a run in progress is done.
RemoveIdle ==
    /\ pc = "decide" /\ obj.deleting
    /\ ~obj.destroyOnDelete \/ ~Running(obj) \/ RunApplied(obj)
    /\ pc' = "unfinalize"
    /\ UNCHANGED <<stored, cache, queue, events, orig, shared, obj, input,
                   hash, run, err, budget>>

\* The infrastructure is to be kept, or the run the status names is applied.
RemoveDone ==
    /\ pc = "decide" /\ obj.deleting
    /\ ~obj.destroyOnDelete \/ RunApplied(obj)
    /\ pc' = "unfinalize"
    /\ UNCHANGED <<stored, cache, queue, events, orig, shared, obj, input,
                   hash, run, err, budget>>

\* A run is deployed and not applied, or its Execution cannot be read.
RemoveWaits ==
    /\ pc = "decide" /\ obj.deleting
    /\ obj.destroyOnDelete /\ Running(obj)
    /\ \/ ~RunApplied(obj) /\ UNCHANGED budget
       \/ Spend("faults")
    /\ Return(TRUE)
    /\ UNCHANGED <<stored, cache, queue, events, orig, shared, obj, input,
                   hash, run>>

StartDestroy ==
    /\ pc = "decide" /\ obj.deleting
    /\ obj.destroyOnDelete /\ ~Running(obj)
    /\ hash' = RunHash(obj, input, "destroy")
    /\ Assign([obj EXCEPT !.lastRunHash = hash'])
    /\ pc' = "lock"
    /\ UNCHANGED <<stored, queue, events, shared, input, run, err, budget>>

LockDestroy ==
    /\ pc = "lock" /\ hash.action = "destroy"
    /\ \/ /\ Updated(obj)
          /\ obj' = st'
          /\ pc' = "deploy"
          /\ UNCHANGED err
       \/ /\ UpdateFails(obj)
          /\ UNCHANGED obj
          /\ Return(TRUE)
    /\ UNCHANGED <<content, variables, execs, cache, queue, events, orig,
                   shared, input, hash, run>>

\* An error is returned in any case, or the finalizer would be removed.
RecordDestroy ==
    /\ pc = "record" /\ hash.action = "destroy"
    /\ Updated(Recorded(obj)) \/ UpdateFails(Recorded(obj))
    /\ Return(TRUE)
    /\ UNCHANGED <<content, variables, execs, cache, queue, events, orig,
                   shared, obj, input, hash, run>>

RemoveFinalizer ==
    /\ pc = "unfinalize"
    /\ \/ Updated([obj EXCEPT !.finalizer = FALSE]) /\ Return(FALSE)
       \/ UpdateFails([obj EXCEPT !.finalizer = FALSE]) /\ Return(TRUE)
    /\ UNCHANGED <<content, variables, execs, cache, queue, events, orig,
                   shared, obj, input, hash, run>>

-----------------------------------------------------------------------------
(* The end of a sync: a State that is not being deleted gets the finalizer, *)
(* and an error puts the key back into the queue.                           *)

AddFinalizer ==
    /\ pc = "finish" /\ ~obj.deleting /\ ~obj.finalizer
    /\ \/ Updated([obj EXCEPT !.finalizer = TRUE]) /\ queue' = (queue \/ err)
       \/ UpdateFails([obj EXCEPT !.finalizer = TRUE]) /\ queue' = TRUE
    /\ ResetLocal
    /\ UNCHANGED <<content, variables, execs, cache, events>>

EndSync ==
    /\ pc = "finish" /\ (obj.deleting \/ obj.finalizer)
    /\ queue' = (queue \/ err)
    /\ ResetLocal
    /\ UNCHANGED <<stored, cache, events, budget>>

\* The process dies and starts anew with an empty cache.
Crash ==
    /\ Spend("crashes")
    /\ cache' = NoState
    /\ queue' = FALSE
    /\ events' = {}
    /\ ResetLocal
    /\ UNCHANGED stored

-----------------------------------------------------------------------------
(* Users. A command reads the State and updates it, so a command that loses *)
(* a race changes nothing and is one step here.                             *)

Touch(o) == st' = [o EXCEPT !.rv = @ + 1]

\* An edit of the spec that is not part of the run hash
EditSpec ==
    /\ st.present
    /\ Spend("edits")
    /\ Touch([st EXCEPT !.destroyOnDelete = ~@])
    /\ UNCHANGED <<content, variables, execs, cache, queue, events, local>>

\* Mutant of Rerun: JobDeployed is not cleared.
RerunStillDeployed(o) ==
    [o EXCEPT !.version = Bump(@), !.lastRunHash = NoHash]

\* tffy state run
Rerun(o) == [o EXCEPT !.version = Bump(@), !.lastRunHash = NoHash,
                      !.jobDeployed = FALSE]

RunState ==
    /\ st.present
    /\ Spend("edits")
    /\ Touch(Rerun(st))
    /\ UNCHANGED <<content, variables, execs, cache, queue, events, local>>

\* tffy state delete: the first one deletes, and without a finalizer the
\* State is gone at once; a second one makes the controller run the destroy
\* again.
DeleteState ==
    /\ st.present
    /\ Spend("edits")
    /\ IF st.deleting
       THEN Touch([Rerun(st) EXCEPT !.executionName = 0])
       ELSE Touch([st EXCEPT !.deleting = TRUE, !.present = st.finalizer])
    /\ UNCHANGED <<content, variables, execs, cache, queue, events, local>>

\* A Module gets new content or loses it. A watch whose object is gone
\* enqueues nothing.
ChangeModule ==
    /\ Spend("edits")
    /\ content' \in (Contents \cup {NoContent}) \ {content}
    /\ events' = IF content' = NoContent THEN events ELSE events \cup {"input"}
    /\ UNCHANGED <<st, variables, execs, cache, queue, local>>

ChangeVariables ==
    /\ Spend("edits")
    /\ variables' \in (VariableSets \cup {NoVariables}) \ {variables}
    /\ events' = IF variables' = NoVariables THEN events
                                             ELSE events \cup {"input"}
    /\ UNCHANGED <<st, content, execs, cache, queue, local>>

-----------------------------------------------------------------------------
(* Executions *)

JobStage == 6

\* The executor of a Job sets the Applied condition. It may also never do so.
ExecutorReports ==
    \E n \in Names :
        /\ execs[n].live /\ execs[n].stage >= JobStage /\ ~execs[n].applied
        /\ execs' = [execs EXCEPT ![n].applied = TRUE]
        /\ events' = events \cup {"execution"}
        /\ UNCHANGED <<st, content, variables, cache, queue, local, budget>>

\* The execution controller adds its finalizer before createExecution has
\* set spec.secretName. Afterwards the write disturbs nothing.
TouchExecution ==
    \E n \in Names :
        /\ execs[n].live /\ execs[n].stage = 1 /\ ~execs[n].touched
        /\ Spend("races")
        /\ execs' = [execs EXCEPT ![n].touched = TRUE]
        /\ events' = events \cup {"execution"}
        /\ UNCHANGED <<st, content, variables, cache, queue, local>>

\* tffy execution prune and tffy execution delete
PruneExecution ==
    \E n \in Names :
        /\ execs[n].live
        /\ Spend("prunes")
        /\ execs' = [execs EXCEPT ![n].live = FALSE]
        /\ events' = events \cup {"execution"}
        /\ UNCHANGED <<st, content, variables, cache, queue, local>>

-----------------------------------------------------------------------------
(* Specification *)

Sync ==
    \/ StartSync
    \/ GatherModule \/ GatherVariables \/ GatherFails
    \/ CheckRunFails \/ NoticeCompletion \/ SaveCompletion
    \/ CompareHash \/ Lock
    \/ CreateExecution \/ CreateExecutionFails
    \/ DeployStep \/ DeployFails \/ RecordRun
    \/ RemoveDone \/ RemoveWaits \/ StartDestroy
    \/ LockDestroy \/ RecordDestroy \/ RemoveFinalizer
    \/ AddFinalizer \/ EndSync

User == EditSpec \/ RunState \/ DeleteState \/ ChangeModule \/ ChangeVariables

Next ==
    \/ InformerSync \/ ExecutionOnChange \/ RelatedResource
    \/ Sync
    \/ Crash
    \/ User
    \/ ExecutorReports \/ TouchExecution \/ PruneExecution

Spec == Init /\ [][Next]_vars

\* The workers and the informers keep running; users, executors, faults and
\* crashes are under no obligation.
Fairness ==
    /\ WF_vars(Sync)
    /\ WF_vars(InformerSync)
    /\ WF_vars(ExecutionOnChange)
    /\ WF_vars(RelatedResource)

FairSpec == Spec /\ Fairness

-----------------------------------------------------------------------------
(* Properties *)

\* Every variable stays within its type: in particular every object the
\* handler holds or writes is a State whose spec.version is an int32 and
\* whose status names an Execution that can exist, and an Execution never
\* gets more than the nine writes of a deployment.
TypeOK ==
    /\ st \in StateObjects
    /\ content \in Contents \cup {NoContent}
    /\ variables \in VariableSets \cup {NoVariables}
    /\ execs \in [Names -> Executions]
    /\ cache \in StateObjects
    /\ queue \in BOOLEAN
    /\ events \in SUBSET {"execution", "input"}
    /\ pc \in Steps
    /\ orig \in StateObjects
    /\ shared \in BOOLEAN
    /\ obj \in StateObjects
    /\ input \in Inputs
    /\ hash \in Hashes
    /\ run \in Names \cup {0}
    /\ err \in BOOLEAN
    /\ budget \in [Budgets -> Nat]

\* o's status names a run deployed in full, for the hash it records.
Tracked(o) ==
    o.jobDeployed =>
        /\ o.executionName # 0
        /\ execs[o.executionName].stage = Len(Stages)
        /\ execs[o.executionName].hash = o.lastRunHash

\* While JobDeployed is true, status.executionName is an Execution whose
\* deployment was completed and whose run hash is status.lastRunHash: no
\* conflict, crash, lost answer, stale cache or user command between
\* deployCreate/deployDestroy and the Update that records the run, and no
\* in-place change of the cached object, leaves a status that mixes two runs.
StatusNamesItsRun == Tracked(st)

\* A State whose finalizer held its deletion back goes only if its
\* infrastructure is to be kept or if the run its status names is applied:
\* OnRemove decides on an old copy of the State, yet an edit of
\* destroyOnDelete or a second delete in the meantime is never overlooked.
RemovalJustified ==
    [][st.present /\ st.finalizer /\ ~st'.present =>
         \/ ~st.destroyOnDelete
         \/ /\ st.jobDeployed
            /\ st.executionName # 0
            /\ execs[st.executionName].applied]_vars

\* An Execution that creates is never made for the hash the status records
\* already, nor once the status records a destroy: a sync of a stale copy,
\* also after a crash or an unanswered Update, stops at the lock.
NoRedeploy ==
    [][\A n \in Names :
         execs[n].stage = 0 /\ execs'[n].stage # 0 /\ hash.action = "create" =>
             /\ st.lastRunHash # hash
             /\ st.lastRunHash.action # "destroy"]_vars

\* No step but a user's changes destroyOnDelete, the deletion mark or (but
\* for the normalisation of versions below 1) the version: an Update of the
\* whole object built on an old copy never undoes an edit made meanwhile.
SpecEditsKept ==
    [][budget'["edits"] = budget["edits"] =>
         /\ st'.destroyOnDelete = st.destroyOnDelete
         /\ st'.deleting = st.deleting
         /\ st'.version \in {st.version, Normal(st.version)}]_vars

\* The State and its runs as StateLifecycle sees them
Phase(stage) ==
    CASE stage = 0 -> "absent"
      [] stage \in 1..(JobStage - 1) -> "made"
      [] stage \in JobStage..(Len(Stages) - 1) -> "started"
      [] stage = Len(Stages) -> "complete"

DestroyHashes == {h \in Hashes : h.action = "destroy"}

Deployments ==
    [n \in Names |-> [phase |-> Phase(execs[n].stage), hash |-> execs[n].hash,
                      applied |-> execs[n].applied]]

RunInProgress == IF st.jobDeployed THEN st.executionName ELSE 0

Lifecycle == INSTANCE StateLifecycle WITH
    Runs <- Names,
    Destroys <- DestroyHashes,
    NoRun <- 0,
    present <- st.present,
    deleting <- st.deleting,
    held <- st.finalizer,
    destroy <- st.destroyOnDelete,
    current <- RunInProgress,
    last <- st.lastRunHash,
    runs <- Deployments

\* Every step of the handler, of its callers, users and executors is one that
\* StateLifecycle allows, or changes nothing it knows of: a destroy is made
\* only for a State that is deleted, the status of such a State records no
\* other run, a run in progress leaves the status only when it is applied,
\* superseded by a complete one or given up by a user, and the finalizer is
\* never taken off a State that stays.
LifecycleKept == Lifecycle!Spec

InputsPresent == content # NoContent /\ variables # NoVariables

\* The hash the current inputs ask for
CurrentHash ==
    RunHash([st EXCEPT !.version = Normal(@)],
            [content |-> content, variables |-> variables], "create")

\* Whatever changes while syncs and deployments are under way, in the end
\* the status of a State whose inputs exist records a run for exactly the
\* current module content, variables and version. (So long as no call fails:
\* the error of the Update that is the lock is dropped.)
Converges ==
    <>[](st.present /\ ~st.deleting /\ InputsPresent =>
           st.lastRunHash = CurrentHash)

\* An applied run is noticed: JobDeployed does not stay true, whatever arrives
\* during a sync and wherever the process restarts. (So long as no call fails:
\* the copy that SaveCompletion could not save hides the run from the retry.)
CompletionNoticed ==
    <>[](st.present /\ ~st.deleting /\ InputsPresent /\ st.jobDeployed =>
           ~execs[st.executionName].applied)

\* A State being deleted whose inputs exist ends up removed, or waiting for
\* the executor of a run that is deployed.
RemovalProgresses ==
    <>[](st.present /\ st.deleting /\ InputsPresent =>
           /\ st.destroyOnDelete
           /\ st.jobDeployed
           /\ ~execs[st.executionName].applied)

=============================================================================
