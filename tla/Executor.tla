------------------------------ MODULE Executor ------------------------------
(***************************************************************************)
(* The executors of one State: the pods of the Jobs that the State          *)
(* controller creates, one Job per Execution (pkg/executor), the Job       *)
(* controller that replaces failed pods, users who approve, deny and prune *)
(* Executions or unlock the State, and the Terraform state all executors   *)
(* share.                                                                  *)
(*                                                                         *)
(* Each call of a pod is a step: it can fail, lose its answer, or be the   *)
(* pod's last. External code is modelled from how the executor uses it:    *)
(* the Job controller (a failed pod is replaced up to backoffLimit times)  *)
(* and Terraform (one lock per State, held for the length of a command and *)
(* left behind by a command that is killed; a saved plan is refused once   *)
(* the Terraform state has changed).                                       *)
(***************************************************************************)
EXTENDS Integers, FiniteSets

CONSTANTS
    MaxRuns,         \* Executions are 1..MaxRuns, in the order of their Jobs
    BackoffLimit,    \* failed pods of a Job that are replaced (3 in the code)
    Tries,           \* calls of a tryUpdate (4 in the code)
    MaxFaults,       \* calls that fail or are not answered
    MaxConflicts,    \* Updates that another writer of the Execution beats
    MaxKills,        \* pods that die
    MaxAnswers,      \* writes to the annotation 'approved'
    MaxPrunes,       \* Executions deleted by a user
    MaxUnlocks,      \* uses of tffy state unlock
    MaxDisturbances  \* faults, conflicts, kills, prunes and unlocks together

ASSUME BoundsOK ==
    /\ MaxRuns \in Nat \ {0}
    /\ BackoffLimit \in Nat
    /\ Tries \in Nat \ {0}
    /\ MaxFaults \in Nat
    /\ MaxConflicts \in Nat
    /\ MaxKills \in Nat
    /\ MaxAnswers \in Nat
    /\ MaxPrunes \in Nat
    /\ MaxUnlocks \in Nat
    /\ MaxDisturbances \in Nat

VARIABLES
    execs,    \* the Executions in the API server
    job,      \* their Jobs
    pods,     \* the current pod of each Job
    tf,       \* the Terraform state of the State, in its backend secret
    past,     \* what was planned, answered and done (for the properties)
    budget    \* what may still go wrong

vars == <<execs, job, pods, tf, past, budget>>

-----------------------------------------------------------------------------
(* Objects *)

Runs == 1..MaxRuns

Actions == {"create", "destroy"}

\* Values of the annotation 'approved'; "other" is any but yes and no.
Answers == {"", "yes", "no", "other"}

\* An Execution: spec.autoConfirm, the annotation, the conditions Planned and
\* Applied, status.jobLogs and status.outputs; action is the one its Job was
\* given.
Executions ==
    [action : Actions, autoConfirm : BOOLEAN, live : BOOLEAN,
     approved : Answers, planned : BOOLEAN, applied : BOOLEAN,
     logs : BOOLEAN, outputs : BOOLEAN]

\* Where run() stands: before Populate, before and in a Terraform command, in
\* a tryUpdate, between two of these, or ended without a result.
Steps == {"start", "plan", "planning", "setPlanned", "confirm", "wait",
          "answer", "apply", "applying", "setLogs", "setApplied",
          "saveOutputs", "deleteJob", "failed", "none"}

\* A pod: tries counts the calls of the tryUpdate in progress, approved is
\* the annotation in r.Execution, plan is the serial tfplan was made for.
Pods == [pc : Steps, tries : Nat, approved : Answers, plan : Nat, restarts : Nat]

NoPod == [pc |-> "none", tries |-> 0, approved |-> "", plan |-> 0, restarts |-> 0]

Budgets == {"faults", "conflicts", "kills", "prunes", "unlocks", "answers", "all"}

Limit(b) ==
    CASE b = "faults" -> MaxFaults
      [] b = "conflicts" -> MaxConflicts
      [] b = "kills" -> MaxKills
      [] b = "prunes" -> MaxPrunes
      [] b = "unlocks" -> MaxUnlocks
      [] b = "answers" -> MaxAnswers
      [] b = "all" -> MaxDisturbances

\* Uses up one of the b's that are left.
Spend(b) ==
    /\ budget[b] > 0
    /\ budget["all"] > 0
    /\ budget' = [budget EXCEPT ![b] = @ - 1, !["all"] = @ - 1]

Unlocked == 0

\* The Terraform state: its serial, the run that wrote it last (0: none) and
\* the run that holds its lock. The secret suffix is the State's name, so all
\* runs of the State share it.
TerraformStates == [serial : Nat, by : Runs \cup {0}, lock : Runs \cup {Unlocked}]

\* plans counts the plans made for a run, yesAt is that count when a user
\* said yes last (-1: never), denied that one said no, done that Terraform
\* did what the run asks for.
Pasts == [plans : Nat, yesAt : Nat \cup {-1}, denied : BOOLEAN, done : BOOLEAN]

\* The State controller gives every run its action; none creates after one
\* that destroys.
Init ==
    /\ execs \in [Runs -> {e \in Executions :
                     e = [e EXCEPT !.live = TRUE, !.approved = "",
                                   !.planned = FALSE, !.applied = FALSE,
                                   !.logs = FALSE, !.outputs = FALSE]}]
    /\ \A r \in Runs \ {1} :
          execs[r - 1].action = "destroy" => execs[r].action = "destroy"
    /\ job = [r \in Runs |-> "absent"]
    /\ pods = [r \in Runs |-> NoPod]
    /\ tf = [serial |-> 0, by |-> 0, lock |-> Unlocked]
    /\ past = [r \in Runs |-> [plans |-> 0, yesAt |-> -1, denied |-> FALSE,
                               done |-> FALSE]]
    /\ budget = [b \in Budgets |-> Limit(b)]

-----------------------------------------------------------------------------
(* Jobs *)

\* The State controller has deployed the run, whatever the others do.
CreateJob(r) ==
    /\ job[r] = "absent"
    /\ \A q \in Runs : q < r => job[q] # "absent"
    /\ job' = [job EXCEPT ![r] = "active"]
    /\ pods' = [pods EXCEPT ![r] = [NoPod EXCEPT !.pc = "start"]]
    /\ UNCHANGED <<execs, tf, past, budget>>

\* The Job controller replaces a failed pod by one that starts from scratch,
\* or gives up.
ReplacePod(r) ==
    /\ pods[r].pc = "failed"
    /\ IF pods[r].restarts < BackoffLimit
       THEN /\ pods' = [pods EXCEPT ![r] = [NoPod EXCEPT
                            !.pc = "start", !.restarts = pods[r].restarts + 1]]
            /\ UNCHANGED job
       ELSE /\ pods' = [pods EXCEPT ![r] = NoPod]
            /\ job' = [job EXCEPT ![r] = "failed"]
    /\ UNCHANGED <<execs, tf, past, budget>>

At(r, step) == pods[r].pc = step

\* The pod goes on to its next step.
Goto(r, step) == pods' = [pods EXCEPT ![r].pc = step, ![r].tries = 0]

Busy(r) == pods[r].pc \notin {"none", "failed"}

\* The pod dies; a Terraform command it was in leaves the lock behind.
KillPod(r) ==
    /\ Busy(r)
    /\ Spend("kills")
    /\ Goto(r, "failed")
    /\ UNCHANGED <<execs, job, tf, past>>

-----------------------------------------------------------------------------
(* tryUpdate *)

\* Mutant of TryUpdate: the loop makes one call too many.
TryUpdateOnceMore(r, e, next) ==
    LET tried == IF pods[r].tries = Tries
                 THEN [pods[r] EXCEPT !.tries = 0, !.pc = next]
                 ELSE [pods[r] EXCEPT !.tries = @ + 1]
    IN  /\ execs[r].live
        /\ execs' = [execs EXCEPT ![r] = e]
        /\ pods' = [pods EXCEPT ![r] = [tried EXCEPT !.approved = e.approved]]
        /\ UNCHANGED <<job, tf, past, budget>>

\* One call of tryUpdate's function, which reads the Execution, sets the
\* fields of e and updates it. After a conflict it is called again, and also
\* after a success: it is called Tries times in all, and the pod goes on even
\* if every call was a conflict.
TryUpdate(r, e, next) ==
    LET tried == IF pods[r].tries + 1 = Tries
                 THEN [pods[r] EXCEPT !.tries = 0, !.pc = next]
                 ELSE [pods[r] EXCEPT !.tries = @ + 1]
    IN  /\ execs[r].live
        /\ \/ /\ execs' = [execs EXCEPT ![r] = e]
              /\ pods' = [pods EXCEPT ![r] = [tried EXCEPT !.approved = e.approved]]
              /\ UNCHANGED budget
           \/ /\ Spend("conflicts")
              /\ pods' = [pods EXCEPT ![r] = tried]
              /\ UNCHANGED execs
        /\ UNCHANGED <<job, tf, past>>

\* Any other error of any of the calls ends the pod, although an earlier
\* call may have succeeded and the answer to this one may only be lost.
TryUpdateFails(r, e) ==
    /\ \/ ~execs[r].live /\ UNCHANGED <<execs, budget>>
       \/ /\ execs[r].live
          /\ Spend("faults")
          /\ execs' \in {execs, [execs EXCEPT ![r] = e]}
    /\ Goto(r, "failed")
    /\ UNCHANGED <<job, tf, past>>

Update(r, e, next) == TryUpdate(r, e, next) \/ TryUpdateFails(r, e)

-----------------------------------------------------------------------------
(* run() up to the plan *)

\* Populate, CloneRepo, WriteConfigFile, WriteVarFile and TerraformInit change
\* nothing outside the pod; any of them may fail.
Populate(r) ==
    /\ At(r, "start")
    /\ \/ /\ execs[r].live
          /\ pods' = [pods EXCEPT ![r].pc = "plan", ![r].approved = execs[r].approved]
          /\ UNCHANGED budget
       \/ ~execs[r].live /\ Goto(r, "failed") /\ UNCHANGED budget
       \/ Spend("faults") /\ Goto(r, "failed")
    /\ UNCHANGED <<execs, job, tf, past>>

\* terraform plan takes the lock of the State, or fails.
StartPlan(r) ==
    /\ At(r, "plan")
    /\ IF tf.lock = Unlocked
       THEN /\ tf' = [tf EXCEPT !.lock = r]
            /\ Goto(r, "planning")
       ELSE Goto(r, "failed") /\ UNCHANGED tf
    /\ UNCHANGED <<execs, job, past, budget>>

\* A command that no longer holds the lock when it ends fails.
Plan(r) ==
    /\ At(r, "planning")
    /\ IF tf.lock = r
       THEN /\ tf' = [tf EXCEPT !.lock = Unlocked]
            /\ \/ /\ pods' = [pods EXCEPT ![r].plan = tf.serial,
                         ![r].pc = IF execs[r].action = "create" THEN "setPlanned"
                                                                ELSE "confirm"]
                  /\ past' = [past EXCEPT ![r].plans = @ + 1]
                  /\ UNCHANGED budget
               \/ Spend("faults") /\ Goto(r, "failed") /\ UNCHANGED past
       ELSE Goto(r, "failed") /\ UNCHANGED <<tf, past, budget>>
    /\ UNCHANGED <<execs, job>>

SetExecutionPlanned(r) ==
    /\ At(r, "setPlanned")
    /\ Update(r, [execs[r] EXCEPT !.planned = TRUE], "confirm")

-----------------------------------------------------------------------------
(* Create and Destroy: the approval *)

\* autoConfirm needs no answer; an annotation the pod has read already is the
\* answer, also one that was given for the plan of an earlier pod.
Confirm(r) ==
    /\ At(r, "confirm")
    /\ Goto(r, IF execs[r].autoConfirm THEN "apply"
               ELSE IF pods[r].approved = "" THEN "wait" ELSE "answer")
    /\ UNCHANGED <<execs, job, tf, past, budget>>

\* Mutant of WaitForApproval: only a yes ends the wait.
WaitForYes(r) ==
    /\ At(r, "wait")
    /\ execs[r].live
    /\ execs[r].approved = "yes"
    /\ pods' = [pods EXCEPT ![r].pc = "answer", ![r].approved = execs[r].approved]
    /\ UNCHANGED <<execs, job, tf, past, budget>>

\* The watch shows the Execution as it is and each of its changes, and is
\* begun again when it is lost.
WaitForApproval(r) ==
    /\ At(r, "wait")
    /\ execs[r].live
    /\ execs[r].approved # ""
    /\ pods' = [pods EXCEPT ![r].pc = "answer", ![r].approved = execs[r].approved]
    /\ UNCHANGED <<execs, job, tf, past, budget>>

\* The event that tells of the Execution's deletion shows its last version;
\* a watch that is begun later never sees it.
ApprovalInDeletion(r) ==
    /\ At(r, "wait")
    /\ ~execs[r].live
    /\ execs[r].approved # ""
    /\ pods' = [pods EXCEPT ![r].pc = "answer", ![r].approved = execs[r].approved]
    /\ UNCHANGED <<execs, job, tf, past, budget>>

\* The watch cannot be opened.
WaitFails(r) ==
    /\ At(r, "wait")
    /\ Spend("faults")
    /\ Goto(r, "failed")
    /\ UNCHANGED <<execs, job, tf, past>>

\* Mutant of Decision: whatever is not a no is a yes.
DecisionUnlessNo(action, answer) ==
    CASE answer # "no" -> "apply"
      [] answer = "no" /\ action = "destroy" -> "setLogs"
      [] OTHER -> "failed"

\* Mutant of Decision: a no is never an error.
DecisionNoError(action, answer) ==
    CASE answer = "yes" -> "apply"
      [] answer = "no" -> "setLogs"
      [] OTHER -> "failed"

\* A refused create is an error, a refused destroy is not.
Decision(action, answer) ==
    CASE answer = "yes" -> "apply"
      [] answer = "no" /\ action = "destroy" -> "setLogs"
      [] OTHER -> "failed"

Decide(r) ==
    /\ At(r, "answer")
    /\ Goto(r, Decision(execs[r].action, pods[r].approved))
    /\ UNCHANGED <<execs, job, tf, past, budget>>

-----------------------------------------------------------------------------
(* Create and Destroy: the change *)

\* terraform apply refuses a plan made for another serial; terraform destroy
\* makes a plan of its own.
StartApply(r) ==
    /\ At(r, "apply")
    /\ IF /\ tf.lock = Unlocked
          /\ execs[r].action = "create" => pods[r].plan = tf.serial
       THEN /\ tf' = [tf EXCEPT !.lock = r]
            /\ Goto(r, "applying")
       ELSE Goto(r, "failed") /\ UNCHANGED tf
    /\ UNCHANGED <<execs, job, past, budget>>

\* Terraform writes its state, unless there is nothing to change, and releases
\* the lock.
Written(r) ==
    [tf EXCEPT !.serial = IF tf.by = r /\ past[r].done THEN @ ELSE @ + 1,
               !.by = r,
               !.lock = IF @ = r THEN Unlocked ELSE @]

\* Mutant of Apply: the error of terraform apply is dropped.
ApplyUnchecked(r) ==
    /\ At(r, "applying")
    /\ tf' = Written(r)
    /\ \/ past' = [past EXCEPT ![r].done = TRUE] /\ UNCHANGED budget
       \/ Spend("faults") /\ UNCHANGED past
    /\ Goto(r, "setLogs")
    /\ UNCHANGED <<execs, job>>

\* Apply or destroy, done in full with the lock, or with an error.
Apply(r) ==
    /\ At(r, "applying")
    /\ tf' = Written(r)
    /\ \/ /\ past' = [past EXCEPT ![r].done = TRUE]
          /\ Goto(r, IF tf.lock = r THEN "setLogs" ELSE "failed")
          /\ UNCHANGED budget
       \/ /\ Spend("faults")
          /\ Goto(r, "failed")
          /\ UNCHANGED past
    /\ UNCHANGED <<execs, job>>

-----------------------------------------------------------------------------
(* run() after Create or Destroy *)

SetExecutionLogs(r) ==
    /\ At(r, "setLogs")
    /\ Update(r, [execs[r] EXCEPT !.logs = TRUE], "setApplied")

SetExecutionApplied(r) ==
    /\ At(r, "setApplied")
    /\ Update(r, [execs[r] EXCEPT !.applied = TRUE],
              IF execs[r].action = "create" THEN "saveOutputs" ELSE "deleteJob")

\* Mutant of SaveOutputs: its error is dropped.
SaveOutputsUnchecked(r) ==
    /\ At(r, "saveOutputs")
    /\ \/ TryUpdate(r, [execs[r] EXCEPT !.outputs = TRUE], "deleteJob")
       \/ /\ ~execs[r].live \/ Spend("faults")
          /\ Goto(r, "deleteJob")
          /\ UNCHANGED <<execs, job, tf, past>>
          /\ ~execs[r].live => UNCHANGED budget

\* terraform output, which needs no lock, and the Update of status.outputs
SaveOutputs(r) ==
    /\ At(r, "saveOutputs")
    /\ Update(r, [execs[r] EXCEPT !.outputs = TRUE], "deleteJob")

\* The Job goes, and with it the pod, whether or not the answer arrives.
DeleteJob(r) ==
    /\ At(r, "deleteJob")
    /\ \/ /\ job' = [job EXCEPT ![r] = "deleted"]
          /\ pods' = [pods EXCEPT ![r] = NoPod]
          /\ UNCHANGED budget
       \/ Spend("faults") /\ Goto(r, "failed") /\ UNCHANGED job
    /\ UNCHANGED <<execs, tf, past>>

-----------------------------------------------------------------------------
(* Users *)

\* tffy execution approve and deny, and kubectl annotate
Annotate(r, answer) ==
    /\ job[r] # "absent" /\ execs[r].live
    /\ answer # execs[r].approved
    /\ budget["answers"] > 0
    /\ budget' = [budget EXCEPT !["answers"] = @ - 1]
    /\ execs' = [execs EXCEPT ![r].approved = answer]
    /\ past' = [past EXCEPT
          ![r].yesAt = IF answer = "yes" THEN past[r].plans ELSE @,
          ![r].denied = @ \/ answer = "no"]
    /\ UNCHANGED <<job, pods, tf>>

PruneExecution(r) ==
    /\ job[r] # "absent" /\ execs[r].live
    /\ Spend("prunes")
    /\ execs' = [execs EXCEPT ![r].live = FALSE]
    /\ UNCHANGED <<job, pods, tf, past>>

\* tffy state unlock removes the lock, whoever holds it.
StateUnlock ==
    /\ tf.lock # Unlocked
    /\ Spend("unlocks")
    /\ tf' = [tf EXCEPT !.lock = Unlocked]
    /\ UNCHANGED <<execs, job, pods, past>>

-----------------------------------------------------------------------------
(* Specification *)

Run(r) ==
    \/ Populate(r) \/ StartPlan(r) \/ Plan(r) \/ SetExecutionPlanned(r)
    \/ Confirm(r) \/ WaitForApproval(r) \/ WaitFails(r) \/ Decide(r)
    \/ StartApply(r) \/ Apply(r)
    \/ SetExecutionLogs(r) \/ SetExecutionApplied(r) \/ SaveOutputs(r)
    \/ DeleteJob(r)

User(r) ==
    \/ \E answer \in {"yes", "no", "other"} : Annotate(r, answer)
    \/ PruneExecution(r)

Next ==
    \/ \E r \in Runs :
          \/ CreateJob(r) \/ ReplacePod(r) \/ KillPod(r)
          \/ Run(r) \/ ApprovalInDeletion(r)
          \/ User(r)
    \/ StateUnlock

Spec == Init /\ [][Next]_vars

\* A pod that runs goes on, and the Job controller replaces one that failed.
\* Users need not answer, unlock or make the State controller deploy a run.
FairSpec == Spec /\ \A r \in Runs : WF_vars(Run(r)) /\ WF_vars(ReplacePod(r))

-----------------------------------------------------------------------------
(* The abstract specification *)

\* What each Job was told; one that does not exist yet was told nothing.
Told ==
    [r \in Runs |->
       [action |-> IF job[r] = "absent" THEN "none" ELSE execs[r].action,
        autoConfirm |-> job[r] # "absent" /\ execs[r].autoConfirm]]

Answered ==
    [r \in Runs |-> {a \in {"yes", "no"} : IF a = "yes" THEN past[r].yesAt >= 0
                                                     ELSE past[r].denied}]

CarriedOut == {r \in Runs : past[r].done}

Reported == {r \in Runs : execs[r].applied}

Abstract == INSTANCE RunLifecycle WITH
    orders <- Told,
    answers <- Answered,
    done <- CarriedOut,
    by <- tf.by,
    applied <- Reported

-----------------------------------------------------------------------------
(* Properties *)

\* Every variable stays within its type: in particular a tryUpdate makes at
\* most Tries calls and a Job at most backoffLimit + 1 pods.
TypeOK ==
    /\ execs \in [Runs -> Executions]
    /\ job \in [Runs -> {"absent", "active", "failed", "deleted"}]
    /\ pods \in [Runs -> Pods]
    /\ tf \in TerraformStates
    /\ past \in [Runs -> Pasts]
    /\ budget \in [Budgets -> Nat]
    /\ \A r \in Runs : pods[r].tries < Tries /\ pods[r].restarts <= BackoffLimit

\* Nothing is changed without consent: whatever the order of answers,
\* restarts and failed calls, Terraform changes the infrastructure for a run
\* only if autoConfirm is set or a user has said yes.
ChangesApproved ==
    \A r \in Runs :
        At(r, "applying") \/ tf.by = r => execs[r].autoConfirm \/ past[r].yesAt >= 0

\* The condition Applied, on which the State controller removes finalizers,
\* is set only for a run that Terraform has carried out, or for a destroy
\* that a user has refused.
AppliedMeansDone ==
    \A r \in Runs :
        execs[r].applied =>
            \/ past[r].done
            \/ execs[r].action = "destroy" /\ past[r].denied

\* A Job that its pod deletes has reported: its Execution has logs, the
\* condition Applied and, for a create, outputs. The exception is a
\* tryUpdate whose calls all were conflicts.
DeletedJobReported ==
    \A r \in Runs :
        job[r] = "deleted" =>
            \/ /\ execs[r].logs /\ execs[r].applied
               /\ execs[r].action = "create" => execs[r].outputs
            \/ MaxConflicts - budget["conflicts"] >= Tries

\* The executors of a State, with everything that can fail, die, be repeated
\* or come in another order, do nothing RunLifecycle does not allow: no pod
\* of a Job that has ended changes infrastructure or reports, a report says
\* what was done, and a Job deletes itself only after that.
RunsKeepPromise == Abstract!Spec

\* Every Job comes to an end, or its pod waits for an answer: one nobody has
\* given, or one the deletion of the Execution has made unreachable.
JobsEnd ==
    <>[](\A r \in Runs :
           job[r] = "active" =>
               At(r, "wait") /\ (execs[r].approved = "" \/ ~execs[r].live))

=============================================================================
