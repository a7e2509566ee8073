---------------------------- MODULE RunRefinement ----------------------------
(***************************************************************************)
(* Executor implements RunLifecycle, for any number of runs, pods,          *)
(* failures, answers, prunes and unlocks: each step of the executors is a  *)
(* step of RunLifecycle or changes nothing that it knows of.               *)
(***************************************************************************)
EXTENDS ExecutorProofs

-----------------------------------------------------------------------------
(* A pod exists only while its Job is active *)

JobOfPod == \A r \in Runs : pods[r].pc # "none" => job[r] = "active"

JobsOK == job \in [Runs -> {"absent", "active", "failed", "deleted"}]

LEMMA InitJobs == Init => JobOfPod
<1>1. Init => pods = [r \in Runs |-> NoPod]
  BY DEF Init
<1> QED
  BY <1>1, NoPodOK DEF JobOfPod

\* A pod that exists goes on, and no Job changes.
LEMMA PodGoesOn ==
    ASSUME IInv, JobOfPod, NEW r \in Runs, pods[r].pc # "none", UNCHANGED job,
           \A q \in Runs \ {r} : pods'[q] = pods[q]
    PROVE  JobOfPod'
BY DEF JobOfPod

LEMMA GotoOthers ==
    ASSUME IInv, NEW r \in Runs, NEW s \in Steps, Goto(r, s)
    PROVE  \A q \in Runs \ {r} : pods'[q] = pods[q]
BY GotoType DEF IInv, TypeOK, PodsOK

LEMMA UpdateOthers ==
    ASSUME IInv, NEW r \in Runs, NEW e, NEW s, Update(r, e, s)
    PROVE  UNCHANGED job /\ \A q \in Runs \ {r} : pods'[q] = pods[q]
<1>1. pods \in [Runs -> Pods]
  BY DEF IInv, TypeOK
<1>2. \E p : pods' = [pods EXCEPT ![r] = p]
  <2>1. CASE TryUpdate(r, e, s)
    BY <2>1 DEF TryUpdate
  <2>2. CASE TryUpdateFails(r, e)
    <3>1. pods' = [pods EXCEPT ![r] = [pods[r] EXCEPT !.pc = "failed", !.tries = 0]]
      BY <1>1, <2>2 DEF TryUpdateFails, Goto
    <3> QED
      BY <3>1
  <2> QED
    BY <2>1, <2>2 DEF Update
<1> QED
  BY <1>1, <1>2 DEF Update, TryUpdate, TryUpdateFails

LEMMA RunKeepsJobs ==
    ASSUME IInv, JobOfPod, NEW r \in Runs, Run(r) \/ ApprovalInDeletion(r)
    PROVE  JobOfPod'
<1>1. pods \in [Runs -> Pods] /\ JobsOK
  BY DEF IInv, TypeOK, JobsOK
<1>2. pods[r].pc # "none"
  BY DEF Run, At, Populate, StartPlan, Plan, SetExecutionPlanned, Confirm,
     WaitForApproval, ApprovalInDeletion, WaitFails, Decide, StartApply, Apply,
     SetExecutionLogs, SetExecutionApplied, SaveOutputs, DeleteJob
<1>3. CASE DeleteJob(r)
  <2>1. CASE UNCHANGED job
    <3>1. Goto(r, "failed") \/ pods' = [pods EXCEPT ![r] = NoPod]
      BY <1>3 DEF DeleteJob
    <3>2. \A q \in Runs \ {r} : pods'[q] = pods[q]
      BY <1>1, <3>1 DEF Goto
    <3> QED
      BY <1>2, <2>1, <3>2, PodGoesOn
  <2>2. CASE /\ job' = [job EXCEPT ![r] = "deleted"]
             /\ pods' = [pods EXCEPT ![r] = NoPod]
    BY <1>1, <2>2 DEF JobOfPod, JobsOK, NoPod
  <2> QED
    BY <1>3, <2>1, <2>2 DEF DeleteJob
<1>4. CASE \/ SetExecutionPlanned(r) \/ SetExecutionLogs(r)
           \/ SetExecutionApplied(r) \/ SaveOutputs(r)
  <2>1. UNCHANGED job /\ \A q \in Runs \ {r} : pods'[q] = pods[q]
    BY <1>4, UpdateOthers
       DEF SetExecutionPlanned, SetExecutionLogs, SetExecutionApplied, SaveOutputs
  <2> QED
    BY <1>2, <2>1, PodGoesOn
<1>5. CASE \/ Populate(r) \/ StartPlan(r) \/ Plan(r) \/ Confirm(r)
           \/ WaitForApproval(r) \/ ApprovalInDeletion(r) \/ WaitFails(r)
           \/ Decide(r) \/ StartApply(r) \/ Apply(r)
  <2>1. UNCHANGED job
    BY <1>5 DEF Populate, StartPlan, Plan, Confirm, WaitForApproval,
       ApprovalInDeletion, WaitFails, Decide, StartApply, Apply
  <2>2. \A q \in Runs \ {r} : pods'[q] = pods[q]
    BY <1>1, <1>5 DEF Populate, StartPlan, Plan, Confirm, WaitForApproval,
       ApprovalInDeletion, WaitFails, Decide, StartApply, Apply, Goto
  <2> QED
    BY <1>2, <2>1, <2>2, PodGoesOn
<1> QED
  BY <1>3, <1>4, <1>5 DEF Run

LEMMA NextKeepsJobs == ASSUME IInv, JobOfPod, [Next]_vars PROVE JobOfPod'
<1>1. pods \in [Runs -> Pods] /\ JobsOK
  BY DEF IInv, TypeOK, JobsOK
<1>2. CASE UNCHANGED vars \/ StateUnlock
  BY <1>2 DEF vars, StateUnlock, JobOfPod
<1>3. ASSUME NEW r \in Runs, CreateJob(r) PROVE JobOfPod'
  BY <1>1, <1>3 DEF CreateJob, JobOfPod, JobsOK
<1>4. ASSUME NEW r \in Runs, ReplacePod(r) PROVE JobOfPod'
  <2>1. pods[r].pc # "none"
    BY <1>4 DEF ReplacePod
  <2>2. CASE pods[r].restarts < BackoffLimit
    <3>1. UNCHANGED job /\ \A q \in Runs \ {r} : pods'[q] = pods[q]
      BY <1>1, <1>4, <2>2 DEF ReplacePod
    <3> QED
      BY <2>1, <3>1, PodGoesOn
  <2>3. CASE ~(pods[r].restarts < BackoffLimit)
    <3>1. /\ job' = [job EXCEPT ![r] = "failed"]
          /\ pods' = [pods EXCEPT ![r] = NoPod]
      BY <1>4, <2>3 DEF ReplacePod
    <3> QED
      BY <1>1, <3>1, NoPodOK DEF JobOfPod, JobsOK
  <2> QED
    BY <2>2, <2>3
<1>5. ASSUME NEW r \in Runs, KillPod(r) PROVE JobOfPod'
  <2>1. pods[r].pc # "none" /\ UNCHANGED job
    BY <1>5 DEF KillPod, Busy
  <2>2. \A q \in Runs \ {r} : pods'[q] = pods[q]
    BY <1>1, <1>5 DEF KillPod, Goto
  <2> QED
    BY <2>1, <2>2, PodGoesOn
<1>6. ASSUME NEW r \in Runs, Run(r) \/ ApprovalInDeletion(r) PROVE JobOfPod'
  BY <1>6, RunKeepsJobs
<1>7. ASSUME NEW r \in Runs, User(r) PROVE JobOfPod'
  BY <1>7 DEF User, Annotate, PruneExecution, JobOfPod
<1> QED
  BY <1>2, <1>3, <1>4, <1>5, <1>6, <1>7 DEF Next

-----------------------------------------------------------------------------
(* What RunLifecycle does not see *)

\* The order of a run is what it was.
SameOrder(q) == /\ execs'[q].action = execs[q].action
                /\ execs'[q].autoConfirm = execs[q].autoConfirm

\* Nor has anything happened to it.
SamePast(q) == /\ past'[q].yesAt = past[q].yesAt
               /\ past'[q].denied = past[q].denied
               /\ past'[q].done = past[q].done

LEMMA ToldKept ==
    ASSUME UNCHANGED job, \A q \in Runs : SameOrder(q)
    PROVE  UNCHANGED Told
BY DEF Told, SameOrder

LEMMA AnsweredKept ==
    ASSUME \A q \in Runs : SamePast(q)
    PROVE  UNCHANGED <<Answered, CarriedOut>>
<1>1. UNCHANGED Answered
  BY DEF Answered, SamePast
<1>2. UNCHANGED CarriedOut
  BY DEF CarriedOut, SamePast
<1> QED
  BY <1>1, <1>2

LEMMA ReportedKept ==
    ASSUME \A q \in Runs : execs'[q].applied = execs[q].applied
    PROVE  UNCHANGED Reported
BY DEF Reported

LEMMA Unseen ==
    ASSUME UNCHANGED job, tf'.by = tf.by,
           \A q \in Runs : /\ SameOrder(q) /\ SamePast(q)
                           /\ execs'[q].applied = execs[q].applied
    PROVE  UNCHANGED Abstract!vars
BY ToldKept, AnsweredKept, ReportedKept DEF Abstract!vars

\* What a tryUpdate may do to an Execution
LEMMA UpdateShows ==
    ASSUME IInv, NEW r \in Runs, NEW e \in Executions, NEW s, Update(r, e, s),
           e.action = execs[r].action, e.autoConfirm = execs[r].autoConfirm
    PROVE  /\ UNCHANGED <<job, tf, past>>
           /\ execs'[r] \in {execs[r], e}
           /\ \A q \in Runs : SameOrder(q) /\ SamePast(q)
           /\ \A q \in Runs \ {r} : execs'[q] = execs[q]
<1>1. execs \in [Runs -> Executions]
  BY DEF IInv, TypeOK
<1>2. UNCHANGED <<job, tf, past>>
  BY DEF Update, TryUpdate, TryUpdateFails
<1>3. execs' \in {execs, [execs EXCEPT ![r] = e]}
  BY DEF Update, TryUpdate, TryUpdateFails
<1>4. execs'[r] \in {execs[r], e} /\ \A q \in Runs \ {r} : execs'[q] = execs[q]
  BY <1>1, <1>3, ExecSet
<1> QED
  BY <1>2, <1>4 DEF SameOrder, SamePast

\* The steps of a pod that are its own affair
LEMMA PodStep ==
    ASSUME IInv, NEW r \in Runs,
           \/ Populate(r) \/ StartPlan(r) \/ Confirm(r) \/ WaitForApproval(r)
           \/ ApprovalInDeletion(r) \/ WaitFails(r) \/ Decide(r)
           \/ StartApply(r) \/ KillPod(r)
    PROVE  UNCHANGED Abstract!vars
<1>1. UNCHANGED <<execs, job, past>>
  BY DEF Populate, StartPlan, Confirm, WaitForApproval, ApprovalInDeletion,
     WaitFails, Decide, StartApply, KillPod
<1>2. tf \in TerraformStates
  BY DEF IInv, TypeOK
<1>3. tf'.by = tf.by
  BY <1>2 DEF Populate, StartPlan, Confirm, WaitForApproval,
     ApprovalInDeletion, WaitFails, Decide, StartApply, KillPod, TerraformStates
<1> QED
  BY <1>1, <1>3, Unseen DEF SameOrder, SamePast

LEMMA PlanStep ==
    ASSUME IInv, NEW r \in Runs, Plan(r) PROVE UNCHANGED Abstract!vars
<1>1. tf \in TerraformStates /\ past \in [Runs -> Pasts]
  BY DEF IInv, TypeOK
<1>2. UNCHANGED <<execs, job>>
  BY DEF Plan
<1>3. tf'.by = tf.by
  BY <1>1 DEF Plan, TerraformStates
<1>4. \A q \in Runs : SamePast(q)
  <2> DEFINE h == [past[r] EXCEPT !.plans = @ + 1]
  <2>1. past' = past \/ past' = [past EXCEPT ![r].plans = @ + 1]
    BY DEF Plan
  <2>2. /\ h.yesAt = past[r].yesAt /\ h.denied = past[r].denied
        /\ h.done = past[r].done
    BY <1>1 DEF Pasts
  <2>3. past' = past \/ past' = [past EXCEPT ![r] = h]
    BY <1>1, <2>1
  <2> HIDE DEF h
  <2> QED
    BY <1>1, <2>2, <2>3 DEF SamePast
<1> QED
  BY <1>2, <1>3, <1>4, Unseen DEF SameOrder

\* The reports RunLifecycle has no word for
LEMMA ReportStep ==
    ASSUME IInv, NEW r \in Runs,
           SetExecutionPlanned(r) \/ SetExecutionLogs(r) \/ SaveOutputs(r)
    PROVE  UNCHANGED Abstract!vars
<1>1. execs[r] \in Executions
  BY DEF IInv, TypeOK
<1>2. PICK e \in Executions, s \in Steps :
        /\ Update(r, e, s)
        /\ e.action = execs[r].action /\ e.autoConfirm = execs[r].autoConfirm
        /\ e.applied = execs[r].applied
  <2>1. CASE SetExecutionPlanned(r)
    <3> DEFINE e == [execs[r] EXCEPT !.planned = TRUE]
    <3>1. /\ e \in Executions /\ e.applied = execs[r].applied
          /\ e.action = execs[r].action /\ e.autoConfirm = execs[r].autoConfirm
      BY <1>1 DEF Executions
    <3>2. Update(r, e, "confirm") /\ "confirm" \in Steps
      BY <2>1 DEF SetExecutionPlanned, Steps
    <3> HIDE DEF e
    <3> QED
      BY <3>1, <3>2
  <2>2. CASE SetExecutionLogs(r)
    <3> DEFINE e == [execs[r] EXCEPT !.logs = TRUE]
    <3>1. /\ e \in Executions /\ e.applied = execs[r].applied
          /\ e.action = execs[r].action /\ e.autoConfirm = execs[r].autoConfirm
      BY <1>1 DEF Executions
    <3>2. Update(r, e, "setApplied") /\ "setApplied" \in Steps
      BY <2>2 DEF SetExecutionLogs, Steps
    <3> HIDE DEF e
    <3> QED
      BY <3>1, <3>2
  <2>3. CASE SaveOutputs(r)
    <3> DEFINE e == [execs[r] EXCEPT !.outputs = TRUE]
    <3>1. /\ e \in Executions /\ e.applied = execs[r].applied
          /\ e.action = execs[r].action /\ e.autoConfirm = execs[r].autoConfirm
      BY <1>1 DEF Executions
    <3>2. Update(r, e, "deleteJob") /\ "deleteJob" \in Steps
      BY <2>3 DEF SaveOutputs, Steps
    <3> HIDE DEF e
    <3> QED
      BY <3>1, <3>2
  <2> QED
    BY <2>1, <2>2, <2>3
<1>3. /\ UNCHANGED <<job, tf, past>>
      /\ \A q \in Runs : SameOrder(q) /\ SamePast(q)
      /\ execs'[r] \in {execs[r], e}
      /\ \A q \in Runs \ {r} : execs'[q] = execs[q]
  BY <1>2, UpdateShows
<1> QED
  BY <1>2, <1>3, Unseen

LEMMA PruneStep ==
    ASSUME IInv, NEW r \in Runs, PruneExecution(r)
    PROVE  UNCHANGED Abstract!vars
<1> DEFINE e == [execs[r] EXCEPT !.live = FALSE]
<1>1. execs \in [Runs -> Executions] /\ execs[r] \in Executions
  BY DEF IInv, TypeOK
<1>2. UNCHANGED <<job, tf, past>> /\ execs' = [execs EXCEPT ![r] = e]
  BY <1>1 DEF PruneExecution
<1>3. /\ e \in Executions /\ e.applied = execs[r].applied
      /\ e.action = execs[r].action /\ e.autoConfirm = execs[r].autoConfirm
  BY <1>1 DEF Executions
<1> HIDE DEF e
<1>4. execs'[r] = e /\ \A q \in Runs \ {r} : execs'[q] = execs[q]
  BY <1>1, <1>2, <1>3, ExecSet
<1> QED
  BY <1>2, <1>3, <1>4, Unseen DEF SameOrder, SamePast

LEMMA UnlockStep == ASSUME IInv, StateUnlock PROVE UNCHANGED Abstract!vars
<1>1. tf \in TerraformStates
  BY DEF IInv, TypeOK
<1>2. tf'.by = tf.by
  BY <1>1 DEF StateUnlock, TerraformStates
<1> QED
  BY <1>2, Unseen DEF StateUnlock, SameOrder, SamePast

-----------------------------------------------------------------------------
(* What it sees *)

LEMMA CreateJobStep ==
    ASSUME IInv, NEW r \in Runs, CreateJob(r) PROVE Abstract!Deploy(r)
<1> DEFINE o == [action |-> execs[r].action, autoConfirm |-> execs[r].autoConfirm]
<1>1. JobsOK /\ execs[r] \in Executions
  BY DEF IInv, TypeOK, JobsOK
<1>2. /\ job[r] = "absent" /\ job' = [job EXCEPT ![r] = "active"]
      /\ UNCHANGED <<execs, tf, past>>
  BY DEF CreateJob
<1>3. o \in Abstract!Orders
  BY <1>1 DEF Abstract!Orders, Executions, Actions
<1>4. /\ job'[r] = "active"
      /\ \A q \in Runs \ {r} : job'[q] = job[q]
  BY <1>1, <1>2 DEF JobsOK
<1>5. Told' = [Told EXCEPT ![r] = o]
  <2>1. Told'[r] = o
    BY <1>1, <1>2, <1>4 DEF Told, Executions
  <2>2. \A q \in Runs \ {r} : Told'[q] = Told[q]
    BY <1>2, <1>4 DEF Told
  <2>3. Told' = [q \in Runs |-> Told'[q]] /\ Told = [q \in Runs |-> Told[q]]
    BY DEF Told
  <2> HIDE DEF o
  <2> QED
    BY <2>1, <2>2, <2>3
<1>6. UNCHANGED <<Answered, CarriedOut, Reported>>
  BY <1>2, AnsweredKept, ReportedKept DEF SamePast
<1> HIDE DEF o
<1> QED
  BY <1>2, <1>3, <1>5, <1>6 DEF Abstract!Deploy

\* The Job has used up its pods.
LEMMA ReplacePodStep ==
    ASSUME IInv, JobOfPod, NEW r \in Runs, ReplacePod(r)
    PROVE  Abstract!End(r) \/ UNCHANGED Abstract!vars
<1>1. job[r] = "active" /\ UNCHANGED <<execs, tf, past>>
  BY DEF ReplacePod, JobOfPod
<1>2. CASE UNCHANGED job
  BY <1>1, <1>2, Unseen DEF SameOrder, SamePast
<1>3. CASE job' = [job EXCEPT ![r] = "failed"]
  <2>1. JobsOK
    BY DEF IInv, TypeOK, JobsOK
  <2>2. UNCHANGED Told
    BY <1>1, <1>3, <2>1 DEF Told, JobsOK
  <2>3. UNCHANGED <<Answered, CarriedOut, Reported>>
    BY <1>1, AnsweredKept, ReportedKept DEF SamePast
  <2> QED
    BY <1>1, <1>3, <2>2, <2>3 DEF Abstract!End
<1> QED
  BY <1>2, <1>3 DEF ReplacePod

\* A run that is justified by the past is justified for RunLifecycle.
LEMMA Justified ==
    ASSUME IInv, NEW r \in Runs, job[r] = "active"
    PROVE  /\ Consent(r) => Abstract!Allowed(r)
           /\ Finished(r) => Abstract!Carried(r)
<1>1. execs[r] \in Executions
  BY DEF IInv, TypeOK
<1>2. /\ Told[r].action = execs[r].action
      /\ Told[r].autoConfirm = execs[r].autoConfirm
  BY <1>1 DEF Told, Executions
<1>3. /\ past[r].yesAt >= 0 => "yes" \in Answered[r]
      /\ past[r].denied => "no" \in Answered[r]
      /\ past[r].done => r \in CarriedOut
  BY DEF Answered, CarriedOut
<1> QED
  BY <1>2, <1>3 DEF Consent, Finished, Abstract!Allowed, Abstract!Carried,
     Abstract!Refused

\* Terraform has changed something.
LEMMA ApplyStep ==
    ASSUME IInv, JobOfPod, NEW r \in Runs, Apply(r)
    PROVE  Abstract!Change(r)
<1>1. /\ job[r] = "active" /\ Consent(r)
      /\ tf \in TerraformStates /\ past \in [Runs -> Pasts]
  BY DEF IInv, TypeOK, RunOK, JobOfPod, Apply, At
<1>2. Abstract!Allowed(r)
  BY <1>1, Justified
<1>3. UNCHANGED <<execs, job>>
  BY DEF Apply
<1>4. tf'.by = r
  <2>1. tf' = Written(r)
    BY DEF Apply
  <2> QED
    BY <1>1, <2>1 DEF Written, TerraformStates
<1> DEFINE h == [past[r] EXCEPT !.done = TRUE]
<1>5. past' = past \/ past' = [past EXCEPT ![r] = h]
  BY <1>1 DEF Apply
<1>6. h.yesAt = past[r].yesAt /\ h.denied = past[r].denied /\ h.done
  BY <1>1 DEF Pasts
<1> HIDE DEF h
<1>7. /\ UNCHANGED Answered
      /\ CarriedOut' \in {CarriedOut, CarriedOut \cup {r}}
  <2>1. CASE past' = past
    BY <2>1, AnsweredKept DEF SamePast
  <2>2. CASE past' = [past EXCEPT ![r] = h]
    <3>1. past'[r] = h /\ \A q \in Runs \ {r} : past'[q] = past[q]
      BY <1>1, <2>2
    <3>2. UNCHANGED Answered
      BY <1>6, <3>1 DEF Answered
    <3>3. CarriedOut' = CarriedOut \cup {r}
      BY <1>6, <3>1 DEF CarriedOut
    <3> QED
      BY <3>2, <3>3
  <2> QED
    BY <1>5, <2>1, <2>2
<1>8. UNCHANGED <<Told, Reported>>
  BY <1>3, ToldKept, ReportedKept DEF SameOrder
<1> QED
  BY <1>1, <1>2, <1>3, <1>4, <1>7, <1>8 DEF Abstract!Change

\* The condition Applied is set, perhaps not for the first time.
LEMMA AppliedStep ==
    ASSUME IInv, JobOfPod, NEW r \in Runs, SetExecutionApplied(r)
    PROVE  Abstract!Report(r) \/ UNCHANGED Abstract!vars
<1> DEFINE e == [execs[r] EXCEPT !.applied = TRUE]
<1>1. /\ job[r] = "active" /\ Finished(r) /\ execs[r] \in Executions
  BY DEF IInv, TypeOK, RunOK, JobOfPod, SetExecutionApplied, At
<1>2. Abstract!Carried(r)
  BY <1>1, Justified
<1>3. PICK s \in Steps : Update(r, e, s)
  BY DEF SetExecutionApplied, Steps
<1>4. /\ e \in Executions /\ e.applied
      /\ e.action = execs[r].action /\ e.autoConfirm = execs[r].autoConfirm
  BY <1>1 DEF Executions
<1> HIDE DEF e
<1>5. /\ UNCHANGED <<job, tf, past>>
      /\ execs'[r] \in {execs[r], e}
      /\ \A q \in Runs : SameOrder(q) /\ SamePast(q)
      /\ \A q \in Runs \ {r} : execs'[q] = execs[q]
  BY <1>3, <1>4, UpdateShows
<1>6. UNCHANGED <<Told, Answered, CarriedOut>>
  BY <1>5, ToldKept, AnsweredKept
<1>7. Reported' \in {Reported, Reported \cup {r}}
  BY <1>4, <1>5 DEF Reported
<1>8. CASE Reported' = Reported
  BY <1>5, <1>6, <1>8 DEF Abstract!vars
<1>9. CASE Reported' = Reported \cup {r}
  BY <1>1, <1>2, <1>5, <1>6, <1>9 DEF Abstract!Report
<1> QED
  BY <1>7, <1>8, <1>9

LEMMA DeleteJobStep ==
    ASSUME IInv, JobOfPod, NEW r \in Runs, DeleteJob(r)
    PROVE  Abstract!End(r) \/ UNCHANGED Abstract!vars
<1>1. /\ job[r] = "active" /\ Finished(r) /\ UNCHANGED <<execs, tf, past>>
  BY DEF IInv, RunOK, JobOfPod, DeleteJob, At
<1>2. CASE UNCHANGED job
  BY <1>1, <1>2, Unseen DEF SameOrder, SamePast
<1>3. CASE job' = [job EXCEPT ![r] = "deleted"]
  <2>1. JobsOK
    BY DEF IInv, TypeOK, JobsOK
  <2>2. UNCHANGED Told
    BY <1>1, <1>3, <2>1 DEF Told, JobsOK
  <2>3. UNCHANGED <<Answered, CarriedOut, Reported>>
    BY <1>1, AnsweredKept, ReportedKept DEF SamePast
  <2>4. Abstract!Carried(r)
    BY <1>1, Justified
  <2> QED
    BY <1>1, <1>3, <2>2, <2>3, <2>4 DEF Abstract!End
<1> QED
  BY <1>2, <1>3 DEF DeleteJob

\* A user answers, perhaps what was answered before.
LEMMA AnnotateStep ==
    ASSUME IInv, NEW r \in Runs, NEW answer \in {"yes", "no", "other"},
           Annotate(r, answer)
    PROVE  \/ \E a \in {"yes", "no"} : Abstract!Answer(r, a)
           \/ UNCHANGED Abstract!vars
<1> DEFINE e == [execs[r] EXCEPT !.approved = answer]
           y == IF answer = "yes" THEN past[r].plans ELSE past[r].yesAt
           d == past[r].denied \/ answer = "no"
           h == [past[r] EXCEPT !.yesAt = y, !.denied = d]
<1>1. /\ execs \in [Runs -> Executions] /\ execs[r] \in Executions
      /\ past \in [Runs -> Pasts] /\ past[r] \in Pasts
  BY DEF IInv, TypeOK
<1>2. job[r] # "absent" /\ UNCHANGED <<job, tf>>
  BY DEF Annotate
<1>3. execs' = [execs EXCEPT ![r] = e] /\ past' = [past EXCEPT ![r] = h]
  BY <1>1 DEF Annotate
<1>4. /\ e \in Executions /\ e.action = execs[r].action
      /\ e.autoConfirm = execs[r].autoConfirm /\ e.applied = execs[r].applied
  BY <1>1 DEF Executions, Answers
<1>5. /\ h.yesAt = y /\ h.denied = d /\ h.done = past[r].done
      /\ y >= 0 <=> past[r].yesAt >= 0 \/ answer = "yes"
  BY <1>1 DEF Pasts
<1> HIDE DEF e, h, y
<1>6. /\ execs'[r] = e /\ \A q \in Runs \ {r} : execs'[q] = execs[q]
      /\ past'[r] = h /\ \A q \in Runs \ {r} : past'[q] = past[q]
  BY <1>1, <1>3, <1>4, ExecSet
<1>7. UNCHANGED <<Told, CarriedOut, Reported>>
  <2>1. UNCHANGED Told
    BY <1>2, <1>4, <1>6, ToldKept DEF SameOrder
  <2>2. UNCHANGED CarriedOut
    BY <1>5, <1>6 DEF CarriedOut
  <2>3. UNCHANGED Reported
    BY <1>4, <1>6, ReportedKept
  <2> QED
    BY <2>1, <2>2, <2>3
<1>8. /\ Answered'[r] = Answered[r] \cup ({answer} \cap {"yes", "no"})
      /\ \A q \in Runs \ {r} : Answered'[q] = Answered[q]
  BY <1>5, <1>6 DEF Answered
<1>9. /\ Answered' = [q \in Runs |-> Answered'[q]]
      /\ Answered = [q \in Runs |-> Answered[q]]
  BY DEF Answered
<1>10. CASE answer = "other"
  <2>1. Answered' = Answered
    BY <1>8, <1>9, <1>10
  <2> QED
    BY <1>2, <1>7, <2>1 DEF Abstract!vars
<1>11. CASE answer \in {"yes", "no"}
  <2>1. Answered' = [Answered EXCEPT ![r] = @ \cup {answer}]
    BY <1>8, <1>9, <1>11
  <2> QED
    BY <1>2, <1>7, <1>11, <2>1 DEF Abstract!Answer
<1> QED
  BY <1>10, <1>11

-----------------------------------------------------------------------------
(* The theorem *)

LEMMA InitRefines == Init => Abstract!Init
<1> SUFFICES ASSUME Init PROVE Abstract!Init
  OBVIOUS
<1>1. /\ \A r \in Runs : execs[r].applied = FALSE
      /\ job = [r \in Runs |-> "absent"]
      /\ tf.by = 0
      /\ past = [r \in Runs |-> [plans |-> 0, yesAt |-> -1, denied |-> FALSE,
                                 done |-> FALSE]]
  <2>1. IInv /\ \A r \in Runs : execs[r] = [execs[r] EXCEPT !.live = TRUE,
                              !.approved = "",
                              !.planned = FALSE, !.applied = FALSE,
                              !.logs = FALSE, !.outputs = FALSE]
    BY InitOK DEF Init
  <2>2. \A r \in Runs : execs[r].applied = FALSE
    BY <2>1 DEF IInv, TypeOK, Executions
  <2> QED
    BY <2>2 DEF Init
<1>2. \A r \in Runs : /\ past[r].yesAt = -1 /\ past[r].denied = FALSE
                      /\ past[r].done = FALSE
  BY <1>1
<1>3. Told = [r \in Runs |-> Abstract!NoOrder]
  BY <1>1 DEF Told, Abstract!NoOrder
<1>4. Answered = [r \in Runs |-> {}]
  BY <1>2 DEF Answered
<1>5. CarriedOut = {} /\ Reported = {}
  BY <1>1, <1>2 DEF CarriedOut, Reported
<1> QED
  BY <1>1, <1>3, <1>4, <1>5 DEF Abstract!Init, Abstract!NoRun

LEMMA StepRefines ==
    ASSUME IInv, JobOfPod, [Next]_vars
    PROVE  Abstract!Next \/ UNCHANGED Abstract!vars
<1>1. CASE UNCHANGED vars
  BY <1>1, Unseen DEF vars, SameOrder, SamePast
<1>2. CASE StateUnlock
  BY <1>2, UnlockStep
<1>3. ASSUME NEW r \in Runs, CreateJob(r) \/ ReplacePod(r) \/ KillPod(r)
      PROVE  Abstract!Next \/ UNCHANGED Abstract!vars
  BY <1>3, CreateJobStep, ReplacePodStep, PodStep DEF Abstract!Next
<1>4. ASSUME NEW r \in Runs, Run(r) \/ ApprovalInDeletion(r)
      PROVE  Abstract!Next \/ UNCHANGED Abstract!vars
  BY <1>4, PodStep, PlanStep, ReportStep, ApplyStep, AppliedStep,
     DeleteJobStep DEF Run, Abstract!Next
<1>5. ASSUME NEW r \in Runs, User(r)
      PROVE  Abstract!Next \/ UNCHANGED Abstract!vars
  BY <1>5, AnnotateStep, PruneStep DEF User, Abstract!Next
<1> QED
  BY <1>1, <1>2, <1>3, <1>4, <1>5 DEF Next

\* The executors of a State (run of pkg/executor, its pods' replacement, its
\* users) implement RunLifecycle: whatever fails, is repeated or comes in
\* another order, infrastructure is changed only with consent and for an
\* active Job, and a report or a deleted Job means that the run was carried
\* out or refused.
THEOREM Refinement == Spec => RunsKeepPromise
<1>1. Init => Abstract!Init /\ JobOfPod
  BY InitRefines, InitJobs
<1>2. IInv /\ JobOfPod /\ [Next]_vars => JobOfPod'
  BY NextKeepsJobs
<1>3. IInv /\ JobOfPod /\ [Next]_vars => [Abstract!Next]_(Abstract!vars)
  BY StepRefines
<1> QED
  BY <1>1, <1>2, <1>3, Invariance, PTL DEF Spec, RunsKeepPromise, Abstract!Spec

=============================================================================
