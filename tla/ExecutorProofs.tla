--------------------------- MODULE ExecutorProofs ---------------------------
(***************************************************************************)
(* Theorems about Executor, for any number of runs, pods, failures,         *)
(* answers and unlocks.                                                    *)
(***************************************************************************)
EXTENDS Executor, TLAPS

-----------------------------------------------------------------------------
(* Types: the pods *)

\* The pods are within their type and their bounds.
PodsOK ==
    /\ pods \in [Runs -> Pods]
    /\ \A r \in Runs : pods[r].tries < Tries /\ pods[r].restarts <= BackoffLimit

\* One pod changes.
LEMMA PodSet ==
    ASSUME PodsOK, NEW r \in Runs, NEW p \in Pods,
           p.tries < Tries, p.restarts <= BackoffLimit,
           pods' = [pods EXCEPT ![r] = p]
    PROVE  PodsOK' /\ pods'[r] = p /\ \A q \in Runs \ {r} : pods'[q] = pods[q]
BY DEF PodsOK

\* A pod goes on, whatever it has read and planned before.
LEMMA GotoType ==
    ASSUME PodsOK, NEW r \in Runs, NEW s \in Steps, Goto(r, s)
    PROVE  /\ PodsOK'
           /\ pods'[r].pc = s /\ pods'[r].approved = pods[r].approved
           /\ \A q \in Runs \ {r} : pods'[q] = pods[q]
<1> DEFINE p == [pods[r] EXCEPT !.pc = s, !.tries = 0]
<1>1. pods[r] \in Pods /\ pods[r].restarts <= BackoffLimit
  BY DEF PodsOK
<1>2. pods' = [pods EXCEPT ![r] = p]
  BY DEF Goto, PodsOK
<1>3. /\ p \in Pods /\ p.tries = 0 /\ p.restarts = pods[r].restarts
      /\ p.pc = s /\ p.approved = pods[r].approved
  BY <1>1 DEF Pods
<1>4. 0 < Tries
  BY BoundsOK
<1> HIDE DEF p
<1> QED
  BY <1>1, <1>2, <1>3, <1>4, PodSet

\* A pod goes on with the annotation it has read.
LEMMA ReadType ==
    ASSUME PodsOK, NEW r \in Runs, NEW s \in Steps, NEW a \in Answers,
           pods' = [pods EXCEPT ![r].pc = s, ![r].approved = a]
    PROVE  /\ PodsOK'
           /\ pods'[r].pc = s /\ pods'[r].approved = a
           /\ \A q \in Runs \ {r} : pods'[q] = pods[q]
<1> DEFINE p == [pods[r] EXCEPT !.pc = s, !.approved = a]
<1>1. /\ pods[r] \in Pods
      /\ pods[r].tries < Tries /\ pods[r].restarts <= BackoffLimit
  BY DEF PodsOK
<1>2. pods' = [pods EXCEPT ![r] = p]
  BY DEF PodsOK
<1>3. /\ p \in Pods /\ p.tries = pods[r].tries /\ p.restarts = pods[r].restarts
      /\ p.pc = s /\ p.approved = a
  BY <1>1 DEF Pods
<1> HIDE DEF p
<1> QED
  BY <1>1, <1>2, <1>3, PodSet

\* A pod goes on with a plan.
LEMMA PlanType ==
    ASSUME PodsOK, NEW r \in Runs, NEW s \in Steps, NEW n \in Nat,
           pods' = [pods EXCEPT ![r].plan = n, ![r].pc = s]
    PROVE  /\ PodsOK'
           /\ pods'[r].pc = s /\ pods'[r].approved = pods[r].approved
           /\ \A q \in Runs \ {r} : pods'[q] = pods[q]
<1> DEFINE p == [pods[r] EXCEPT !.plan = n, !.pc = s]
<1>1. /\ pods[r] \in Pods
      /\ pods[r].tries < Tries /\ pods[r].restarts <= BackoffLimit
  BY DEF PodsOK
<1>2. pods' = [pods EXCEPT ![r] = p]
  BY DEF PodsOK
<1>3. /\ p \in Pods /\ p.tries = pods[r].tries /\ p.restarts = pods[r].restarts
      /\ p.pc = s /\ p.approved = pods[r].approved
  BY <1>1 DEF Pods
<1> HIDE DEF p
<1> QED
  BY <1>1, <1>2, <1>3, PodSet

\* The pod after a call of a tryUpdate
Tried(r, next) ==
    IF pods[r].tries + 1 = Tries
    THEN [pods[r] EXCEPT !.tries = 0, !.pc = next]
    ELSE [pods[r] EXCEPT !.tries = @ + 1]

LEMMA TriedType ==
    ASSUME PodsOK, NEW r \in Runs, NEW s \in Steps
    PROVE  /\ Tried(r, s) \in Pods
           /\ Tried(r, s).tries < Tries
           /\ Tried(r, s).restarts = pods[r].restarts
           /\ Tried(r, s).approved = pods[r].approved
           /\ Tried(r, s).pc \in {pods[r].pc, s}
<1>1. /\ pods[r] \in Pods
      /\ pods[r].tries < Tries /\ pods[r].restarts <= BackoffLimit
  BY DEF PodsOK
<1>2. CASE pods[r].tries + 1 = Tries
  <2> DEFINE p == [pods[r] EXCEPT !.tries = 0, !.pc = s]
  <2>1. /\ p \in Pods /\ p.tries = 0 /\ p.restarts = pods[r].restarts
        /\ p.approved = pods[r].approved /\ p.pc = s
    BY <1>1 DEF Pods
  <2>2. Tried(r, s) = p
    BY <1>2 DEF Tried
  <2> HIDE DEF p
  <2> QED
    BY <2>1, <2>2, BoundsOK
<1>3. CASE pods[r].tries + 1 # Tries
  <2> DEFINE p == [pods[r] EXCEPT !.tries = @ + 1]
  <2>1. /\ p \in Pods /\ p.tries = pods[r].tries + 1 /\ p.restarts = pods[r].restarts
        /\ p.approved = pods[r].approved /\ p.pc = pods[r].pc
    BY <1>1 DEF Pods
  <2>2. Tried(r, s) = p
    BY <1>3 DEF Tried
  <2>3. pods[r].tries \in Nat
    BY <1>1 DEF Pods
  <2> HIDE DEF p
  <2> QED
    BY <1>1, <1>3, <2>1, <2>2, <2>3, BoundsOK
<1> QED
  BY <1>2, <1>3

-----------------------------------------------------------------------------
(* Types: the other variables *)

\* The Execution of one run changes.
LEMMA ExecSet ==
    ASSUME execs \in [Runs -> Executions], NEW r \in Runs, NEW e \in Executions
    PROVE  /\ [execs EXCEPT ![r] = e] \in [Runs -> Executions]
           /\ [execs EXCEPT ![r] = e][r] = e
           /\ \A q \in Runs \ {r} : [execs EXCEPT ![r] = e][q] = execs[q]
OBVIOUS

\* What has happened to one run changes.
LEMMA PastSet ==
    ASSUME past \in [Runs -> Pasts], NEW r \in Runs, NEW h \in Pasts
    PROVE  /\ [past EXCEPT ![r] = h] \in [Runs -> Pasts]
           /\ [past EXCEPT ![r] = h][r] = h
           /\ \A q \in Runs \ {r} : [past EXCEPT ![r] = h][q] = past[q]
OBVIOUS

LEMMA SpendType ==
    ASSUME budget \in [Budgets -> Nat], NEW b \in Budgets, Spend(b)
    PROVE  budget' \in [Budgets -> Nat]
BY DEF Spend, Budgets

\* A tryUpdate: only its Execution and its pod change, and the pod knows the
\* annotation of one of the two.
LEMMA UpdateMoves ==
    ASSUME TypeOK, NEW r \in Runs, NEW e \in Executions, NEW s \in Steps,
           Update(r, e, s)
    PROVE  /\ TypeOK'
           /\ UNCHANGED <<job, tf, past>>
           /\ execs'[r] \in {execs[r], e}
           /\ pods'[r].pc \in {pods[r].pc, s, "failed"}
           /\ pods'[r].approved \in {pods[r].approved, e.approved}
           /\ \A q \in Runs \ {r} : execs'[q] = execs[q] /\ pods'[q] = pods[q]
<1>1. /\ PodsOK /\ execs \in [Runs -> Executions]
      /\ budget \in [Budgets -> Nat]
  BY DEF TypeOK, PodsOK
<1>2. UNCHANGED <<job, tf, past>>
  BY DEF Update, TryUpdate, TryUpdateFails
<1>3. execs' \in {execs, [execs EXCEPT ![r] = e]}
  BY DEF Update, TryUpdate, TryUpdateFails
<1>4. /\ execs' \in [Runs -> Executions]
      /\ execs'[r] \in {execs[r], e}
      /\ \A q \in Runs \ {r} : execs'[q] = execs[q]
  BY <1>1, <1>3, ExecSet
<1>5. budget' \in [Budgets -> Nat]
  <2>1. UNCHANGED budget \/ Spend("conflicts") \/ Spend("faults")
    BY DEF Update, TryUpdate, TryUpdateFails
  <2> QED
    BY <1>1, <2>1, SpendType DEF Budgets
<1>6. /\ PodsOK'
      /\ pods'[r].pc \in {pods[r].pc, s, "failed"}
      /\ pods'[r].approved \in {pods[r].approved, e.approved}
      /\ \A q \in Runs \ {r} : pods'[q] = pods[q]
  <2>1. CASE TryUpdateFails(r, e)
    <3>1. Goto(r, "failed")
      BY <2>1 DEF TryUpdateFails
    <3> QED
      BY <1>1, <3>1, GotoType DEF Steps
  <2>2. CASE TryUpdate(r, e, s)
    <3> DEFINE tried == Tried(r, s)
               heard == [tried EXCEPT !.approved = e.approved]
    <3>1. \/ pods' = [pods EXCEPT ![r] = heard]
          \/ pods' = [pods EXCEPT ![r] = tried]
      BY <2>2 DEF TryUpdate, Tried
    <3>2. /\ tried \in Pods /\ tried.tries < Tries
          /\ tried.restarts <= BackoffLimit
          /\ tried.approved = pods[r].approved
          /\ tried.pc \in {pods[r].pc, s}
      BY <1>1, TriedType DEF PodsOK
    <3> HIDE DEF tried
    <3>3. /\ heard \in Pods /\ heard.tries = tried.tries
          /\ heard.restarts = tried.restarts
          /\ heard.approved = e.approved
          /\ heard.pc = tried.pc
      BY <3>2 DEF Pods, Executions
    <3> HIDE DEF heard
    <3> QED
      BY <1>1, <3>1, <3>2, <3>3, PodSet
  <2> QED
    BY <2>1, <2>2 DEF Update
<1>7. TypeOK'
  BY <1>2, <1>4, <1>5, <1>6 DEF TypeOK, PodsOK
<1> QED
  BY <1>2, <1>4, <1>6, <1>7

-----------------------------------------------------------------------------
(* The inductive invariant *)

Consent(r) == execs[r].autoConfirm \/ past[r].yesAt >= 0

Finished(r) ==
    past[r].done \/ (execs[r].action = "destroy" /\ past[r].denied)

\* Where a run stands is justified by what has happened: the annotation, in
\* the Execution or in the pod's memory, by an answer; a change by consent; a
\* report by the end of the change.
RunOK(r) ==
    /\ execs[r].approved = "yes" \/ pods[r].approved = "yes" => past[r].yesAt >= 0
    /\ execs[r].approved = "no" \/ pods[r].approved = "no" => past[r].denied
    /\ pods[r].pc \in {"apply", "applying"} \/ tf.by = r => Consent(r)
    /\ \/ pods[r].pc \in {"setLogs", "setApplied", "saveOutputs", "deleteJob"}
       \/ execs[r].applied
       => Finished(r)

IInv == TypeOK /\ \A r \in Runs : RunOK(r)

\* A step of one run keeps the others' part of the invariant.
LEMMA OthersKept ==
    ASSUME IInv, NEW r \in Runs,
           \A q \in Runs \ {r} :
              /\ execs'[q] = execs[q] /\ pods'[q] = pods[q] /\ past'[q] = past[q]
              /\ tf'.by = q => tf.by = q
    PROVE  \A q \in Runs \ {r} : RunOK(q)'
BY DEF IInv, RunOK, Consent, Finished

LEMMA NoPodOK ==
    /\ NoPod \in Pods /\ NoPod.tries < Tries /\ NoPod.restarts <= BackoffLimit
    /\ NoPod.pc = "none" /\ NoPod.approved = ""
<1>1. 0 < Tries /\ 0 <= BackoffLimit
  BY BoundsOK
<1> QED
  BY <1>1 DEF NoPod, Pods, Steps, Answers

\* Initially nothing has happened.
LEMMA InitOK == Init => IInv
<1> SUFFICES ASSUME Init PROVE IInv
  OBVIOUS
<1>2. /\ execs \in [Runs -> Executions]
      /\ \A r \in Runs : execs[r].approved = "" /\ execs[r].applied = FALSE
  <2>1. /\ execs \in [Runs -> Executions]
        /\ \A r \in Runs : execs[r] = [execs[r] EXCEPT !.live = TRUE, !.approved = "",
                              !.planned = FALSE, !.applied = FALSE,
                              !.logs = FALSE, !.outputs = FALSE]
    BY DEF Init
  <2> QED
    BY <2>1 DEF Executions
<1>3. tf \in TerraformStates /\ tf.by = 0
  BY DEF Init, TerraformStates, Unlocked
<1>4. past \in [Runs -> Pasts]
  BY DEF Init, Pasts
<1>5. budget \in [Budgets -> Nat]
  <2>1. \A b \in Budgets : Limit(b) \in Nat
    BY BoundsOK DEF Budgets, Limit
  <2> QED
    BY <2>1 DEF Init
<1>6. job \in [Runs -> {"absent", "active", "failed", "deleted"}] /\ pods = [r \in Runs |-> NoPod]
  BY DEF Init
<1>7. TypeOK
  BY NoPodOK, <1>2, <1>3, <1>4, <1>5, <1>6 DEF TypeOK
<1>8. ASSUME NEW r \in Runs PROVE RunOK(r)
  <2>1. pods[r].pc = "none" /\ pods[r].approved = ""
    BY <1>6 DEF NoPod
  <2>2. tf.by # r
    BY <1>3, BoundsOK DEF Runs
  <2> QED
    BY <1>2, <2>1, <2>2 DEF RunOK
<1> QED
  BY <1>7, <1>8 DEF IInv

-----------------------------------------------------------------------------
(* Steps that only move a pod *)

\* A pod that goes on, nothing else having changed but the lock and the budget,
\* to a step that asks for no more than is known
LEMMA PodMoves ==
    ASSUME IInv, NEW r \in Runs,
           PodsOK', \A q \in Runs \ {r} : pods'[q] = pods[q],
           pods'[r].approved \in {"", pods[r].approved, execs[r].approved},
           UNCHANGED <<execs, past>>,
           job' \in [Runs -> {"absent", "active", "failed", "deleted"}],
           tf' \in TerraformStates, tf'.by = tf.by,
           budget' \in [Budgets -> Nat],
           pods'[r].pc \in {"apply", "applying"} => Consent(r),
           pods'[r].pc \in {"setLogs", "setApplied", "saveOutputs", "deleteJob"}
              => Finished(r)
    PROVE  IInv'
<1>1. TypeOK'
  BY DEF IInv, TypeOK, PodsOK
<1>2. RunOK(r)'
  BY DEF IInv, RunOK, Consent, Finished
<1>3. \A q \in Runs \ {r} : RunOK(q)'
  BY OthersKept
<1> QED
  BY <1>1, <1>2, <1>3 DEF IInv

\* The steps of a tryUpdate
LEMMA UpdateKeeps ==
    ASSUME IInv, NEW r \in Runs, NEW e \in Executions, NEW s \in Steps,
           Update(r, e, s),
           e.action = execs[r].action, e.autoConfirm = execs[r].autoConfirm,
           e.approved = execs[r].approved,
           s \notin {"apply", "applying"},
           pods[r].pc \notin {"apply", "applying"},
           \/ s \in {"setLogs", "setApplied", "saveOutputs", "deleteJob"}
           \/ pods[r].pc \in {"setLogs", "setApplied", "saveOutputs", "deleteJob"}
           \/ e.applied
           => Finished(r)
    PROVE  IInv'
<1>1. /\ TypeOK'
      /\ UNCHANGED <<job, tf, past>>
      /\ execs'[r] \in {execs[r], e}
      /\ pods'[r].pc \in {pods[r].pc, s, "failed"}
      /\ pods'[r].approved \in {pods[r].approved, e.approved}
      /\ \A q \in Runs \ {r} : execs'[q] = execs[q] /\ pods'[q] = pods[q]
  BY UpdateMoves DEF IInv
<1>2. RunOK(r)'
  BY <1>1 DEF IInv, RunOK, Consent, Finished
<1>3. \A q \in Runs \ {r} : RunOK(q)'
  BY <1>1, OthersKept
<1> QED
  BY <1>1, <1>2, <1>3 DEF IInv

-----------------------------------------------------------------------------
(* Every step keeps the invariant. *)

LEMMA PopulateKeeps == ASSUME IInv, NEW r \in Runs, Populate(r) PROVE IInv'
<1>1. PodsOK /\ execs[r].approved \in Answers /\ budget \in [Budgets -> Nat]
  BY DEF IInv, TypeOK, PodsOK, Executions
<1>2. /\ PodsOK' /\ pods'[r].pc \in {"plan", "failed"}
      /\ pods'[r].approved \in {pods[r].approved, execs[r].approved}
      /\ \A q \in Runs \ {r} : pods'[q] = pods[q]
  <2>1. CASE Goto(r, "failed")
    BY <1>1, <2>1, GotoType DEF Steps
  <2>2. CASE pods' = [pods EXCEPT ![r].pc = "plan", ![r].approved = execs[r].approved]
    BY <1>1, <2>2, ReadType DEF Steps
  <2> QED
    BY <2>1, <2>2 DEF Populate
<1>3. budget' \in [Budgets -> Nat]
  <2>1. UNCHANGED budget \/ Spend("faults")
    BY DEF Populate
  <2> QED
    BY <1>1, <2>1, SpendType DEF Budgets
<1>4. UNCHANGED <<execs, job, tf, past>>
  BY DEF Populate
<1> QED
  BY <1>1, <1>2, <1>3, <1>4, PodMoves DEF IInv, TypeOK

LEMMA StartPlanKeeps == ASSUME IInv, NEW r \in Runs, StartPlan(r) PROVE IInv'
<1>1. PodsOK /\ tf \in TerraformStates
  BY DEF IInv, TypeOK, PodsOK
<1>2. UNCHANGED <<execs, job, past, budget>>
  BY DEF StartPlan
<1>3. /\ PodsOK' /\ pods'[r].pc \in {"planning", "failed"}
      /\ pods'[r].approved = pods[r].approved
      /\ \A q \in Runs \ {r} : pods'[q] = pods[q]
  <2>1. Goto(r, "planning") \/ Goto(r, "failed")
    BY DEF StartPlan
  <2> QED
    BY <1>1, <2>1, GotoType DEF Steps
<1>4. tf' \in TerraformStates /\ tf'.by = tf.by
  BY <1>1 DEF StartPlan, TerraformStates
<1> QED
  BY <1>1, <1>2, <1>3, <1>4, PodMoves DEF IInv, TypeOK

LEMMA PlanKeeps == ASSUME IInv, NEW r \in Runs, Plan(r) PROVE IInv'
<1>1. /\ PodsOK /\ tf \in TerraformStates /\ past \in [Runs -> Pasts]
      /\ budget \in [Budgets -> Nat]
  BY DEF IInv, TypeOK, PodsOK
<1>2. UNCHANGED <<execs, job>>
  BY DEF Plan
<1>3. /\ PodsOK' /\ pods'[r].pc \in {"setPlanned", "confirm", "failed"}
      /\ pods'[r].approved = pods[r].approved
      /\ \A q \in Runs \ {r} : pods'[q] = pods[q]
  <2>1. CASE Goto(r, "failed")
    BY <1>1, <2>1, GotoType DEF Steps
  <2>2. CASE ~Goto(r, "failed")
    <3> DEFINE s == IF execs[r].action = "create" THEN "setPlanned" ELSE "confirm"
    <3>1. pods' = [pods EXCEPT ![r].plan = tf.serial, ![r].pc = s]
      BY <2>2 DEF Plan
    <3>2. tf.serial \in Nat /\ s \in {"setPlanned", "confirm"}
      BY <1>1 DEF TerraformStates
    <3> HIDE DEF s
    <3>3. s \in Steps
      BY <3>2 DEF Steps
    <3> QED
      BY <1>1, <3>1, <3>2, <3>3, PlanType
  <2> QED
    BY <2>1, <2>2
<1>4. tf' \in TerraformStates /\ tf'.by = tf.by
  BY <1>1 DEF Plan, TerraformStates, Unlocked
<1>5. budget' \in [Budgets -> Nat]
  <2>1. UNCHANGED budget \/ Spend("faults")
    BY DEF Plan
  <2> QED
    BY <1>1, <2>1, SpendType DEF Budgets
<1>6. /\ past' \in [Runs -> Pasts]
      /\ past'[r].yesAt = past[r].yesAt /\ past'[r].denied = past[r].denied
      /\ past'[r].done = past[r].done
      /\ \A q \in Runs \ {r} : past'[q] = past[q]
  <2>1. past' = past \/ past' = [past EXCEPT ![r].plans = @ + 1]
    BY DEF Plan
  <2>2. past[r] \in Pasts
    BY <1>1
  <2> DEFINE h == [past[r] EXCEPT !.plans = @ + 1]
  <2>3. /\ h \in Pasts /\ h.yesAt = past[r].yesAt /\ h.denied = past[r].denied
        /\ h.done = past[r].done
    BY <2>2 DEF Pasts
  <2>4. past' = past \/ past' = [past EXCEPT ![r] = h]
    BY <1>1, <2>1
  <2> HIDE DEF h
  <2> QED
    BY <1>1, <2>3, <2>4, PastSet
<1>7. TypeOK'
  BY <1>2, <1>3, <1>4, <1>5, <1>6 DEF IInv, TypeOK, PodsOK
<1>8. RunOK(r)'
  BY <1>2, <1>3, <1>4, <1>6 DEF IInv, RunOK, Consent, Finished
<1>9. \A q \in Runs \ {r} : RunOK(q)'
  BY <1>2, <1>3, <1>4, <1>6, OthersKept
<1> QED
  BY <1>7, <1>8, <1>9 DEF IInv
LEMMA SetExecutionPlannedKeeps ==
    ASSUME IInv, NEW r \in Runs, SetExecutionPlanned(r) PROVE IInv'
<1> DEFINE e == [execs[r] EXCEPT !.planned = TRUE]
<1>1. pods[r].pc = "setPlanned" /\ Update(r, e, "confirm")
  BY DEF SetExecutionPlanned, At
<1>2. /\ e \in Executions /\ e.action = execs[r].action
      /\ e.autoConfirm = execs[r].autoConfirm /\ e.approved = execs[r].approved
      /\ e.applied = execs[r].applied
  BY DEF IInv, TypeOK, Executions
<1>3. "confirm" \in Steps /\ "confirm" \notin {"apply", "applying"}
  BY DEF Steps
<1>4. e.applied => Finished(r)
  BY <1>2 DEF IInv, RunOK
<1> HIDE DEF e
<1> QED
  BY <1>1, <1>2, <1>3, <1>4, UpdateKeeps

LEMMA SetExecutionLogsKeeps ==
    ASSUME IInv, NEW r \in Runs, SetExecutionLogs(r) PROVE IInv'
<1> DEFINE e == [execs[r] EXCEPT !.logs = TRUE]
<1>1. pods[r].pc = "setLogs" /\ Update(r, e, "setApplied")
  BY DEF SetExecutionLogs, At
<1>2. /\ e \in Executions /\ e.action = execs[r].action
      /\ e.autoConfirm = execs[r].autoConfirm /\ e.approved = execs[r].approved
  BY DEF IInv, TypeOK, Executions
<1>3. "setApplied" \in Steps /\ "setApplied" \notin {"apply", "applying"}
  BY DEF Steps
<1>4. Finished(r)
  BY <1>1 DEF IInv, RunOK
<1> HIDE DEF e
<1> QED
  BY <1>1, <1>2, <1>3, <1>4, UpdateKeeps

LEMMA SetExecutionAppliedKeeps ==
    ASSUME IInv, NEW r \in Runs, SetExecutionApplied(r) PROVE IInv'
<1> DEFINE e == [execs[r] EXCEPT !.applied = TRUE]
           s == IF execs[r].action = "create" THEN "saveOutputs" ELSE "deleteJob"
<1>1. pods[r].pc = "setApplied" /\ Update(r, e, s)
  BY DEF SetExecutionApplied, At
<1>2. /\ e \in Executions /\ e.action = execs[r].action
      /\ e.autoConfirm = execs[r].autoConfirm /\ e.approved = execs[r].approved
  BY DEF IInv, TypeOK, Executions
<1>3. s \in Steps /\ s \notin {"apply", "applying"}
  BY DEF Steps
<1>4. Finished(r)
  BY <1>1 DEF IInv, RunOK
<1> HIDE DEF e, s
<1> QED
  BY <1>1, <1>2, <1>3, <1>4, UpdateKeeps

LEMMA SaveOutputsKeeps ==
    ASSUME IInv, NEW r \in Runs, SaveOutputs(r) PROVE IInv'
<1> DEFINE e == [execs[r] EXCEPT !.outputs = TRUE]
<1>1. pods[r].pc = "saveOutputs" /\ Update(r, e, "deleteJob")
  BY DEF SaveOutputs, At
<1>2. /\ e \in Executions /\ e.action = execs[r].action
      /\ e.autoConfirm = execs[r].autoConfirm /\ e.approved = execs[r].approved
  BY DEF IInv, TypeOK, Executions
<1>3. "deleteJob" \in Steps /\ "deleteJob" \notin {"apply", "applying"}
  BY DEF Steps
<1>4. Finished(r)
  BY <1>1 DEF IInv, RunOK
<1> HIDE DEF e
<1> QED
  BY <1>1, <1>2, <1>3, <1>4, UpdateKeeps

LEMMA WaitForApprovalKeeps == ASSUME IInv, NEW r \in Runs, WaitForApproval(r) PROVE IInv'
<1>1. PodsOK /\ execs[r].approved \in Answers
  BY DEF IInv, TypeOK, PodsOK, Executions
<1>2. UNCHANGED <<execs, job, tf, past, budget>>
  BY DEF WaitForApproval
<1>3. /\ PodsOK' /\ pods'[r].pc = "answer" /\ pods'[r].approved = execs[r].approved
      /\ \A q \in Runs \ {r} : pods'[q] = pods[q]
  <2>1. pods' = [pods EXCEPT ![r].pc = "answer", ![r].approved = execs[r].approved]
    BY DEF WaitForApproval
  <2> QED
    BY <1>1, <2>1, ReadType DEF Steps
<1> QED
  BY <1>1, <1>2, <1>3, PodMoves DEF IInv, TypeOK

LEMMA ApprovalInDeletionKeeps == ASSUME IInv, NEW r \in Runs, ApprovalInDeletion(r) PROVE IInv'
<1>1. PodsOK /\ execs[r].approved \in Answers
  BY DEF IInv, TypeOK, PodsOK, Executions
<1>2. UNCHANGED <<execs, job, tf, past, budget>>
  BY DEF ApprovalInDeletion
<1>3. /\ PodsOK' /\ pods'[r].pc = "answer" /\ pods'[r].approved = execs[r].approved
      /\ \A q \in Runs \ {r} : pods'[q] = pods[q]
  <2>1. pods' = [pods EXCEPT ![r].pc = "answer", ![r].approved = execs[r].approved]
    BY DEF ApprovalInDeletion
  <2> QED
    BY <1>1, <2>1, ReadType DEF Steps
<1> QED
  BY <1>1, <1>2, <1>3, PodMoves DEF IInv, TypeOK

LEMMA WaitFailsKeeps == ASSUME IInv, NEW r \in Runs, WaitFails(r) PROVE IInv'
<1>1. PodsOK /\ budget \in [Budgets -> Nat]
  BY DEF IInv, TypeOK, PodsOK
<1>2. UNCHANGED <<execs, job, tf, past>> /\ Spend("faults") /\ Goto(r, "failed")
  BY DEF WaitFails
<1>3. /\ PodsOK' /\ pods'[r].pc = "failed" /\ pods'[r].approved = pods[r].approved
      /\ \A q \in Runs \ {r} : pods'[q] = pods[q]
  BY <1>1, <1>2, GotoType DEF Steps
<1>4. budget' \in [Budgets -> Nat]
  BY <1>1, <1>2, SpendType DEF Budgets
<1> QED
  BY <1>2, <1>3, <1>4, PodMoves DEF IInv, TypeOK

LEMMA KillPodKeeps == ASSUME IInv, NEW r \in Runs, KillPod(r) PROVE IInv'
<1>1. PodsOK /\ budget \in [Budgets -> Nat]
  BY DEF IInv, TypeOK, PodsOK
<1>2. UNCHANGED <<execs, job, tf, past>> /\ Spend("kills") /\ Goto(r, "failed")
  BY DEF KillPod
<1>3. /\ PodsOK' /\ pods'[r].pc = "failed" /\ pods'[r].approved = pods[r].approved
      /\ \A q \in Runs \ {r} : pods'[q] = pods[q]
  BY <1>1, <1>2, GotoType DEF Steps
<1>4. budget' \in [Budgets -> Nat]
  BY <1>1, <1>2, SpendType DEF Budgets
<1> QED
  BY <1>2, <1>3, <1>4, PodMoves DEF IInv, TypeOK

LEMMA ConfirmKeeps == ASSUME IInv, NEW r \in Runs, Confirm(r) PROVE IInv'
<1> DEFINE s == IF execs[r].autoConfirm THEN "apply"
                ELSE IF pods[r].approved = "" THEN "wait" ELSE "answer"
<1>1. PodsOK
  BY DEF IInv, TypeOK, PodsOK
<1>2. UNCHANGED <<execs, job, tf, past, budget>> /\ Goto(r, s)
  BY DEF Confirm
<1>3. s \in {"apply", "wait", "answer"} /\ (s = "apply" => Consent(r))
  BY DEF Consent
<1> HIDE DEF s
<1>4. /\ PodsOK' /\ pods'[r].pc = s /\ pods'[r].approved = pods[r].approved
      /\ \A q \in Runs \ {r} : pods'[q] = pods[q]
  BY <1>1, <1>2, <1>3, GotoType DEF Steps
<1> QED
  BY <1>2, <1>3, <1>4, PodMoves DEF IInv, TypeOK

\* The decision follows the answer the pod has read.
LEMMA DecideKeeps == ASSUME IInv, NEW r \in Runs, Decide(r) PROVE IInv'
<1> DEFINE s == Decision(execs[r].action, pods[r].approved)
<1>1. PodsOK
  BY DEF IInv, TypeOK, PodsOK
<1>2. UNCHANGED <<execs, job, tf, past, budget>> /\ Goto(r, s)
  BY DEF Decide
<1>3. /\ s \in {"apply", "setLogs", "failed"}
      /\ s = "apply" => Consent(r)
      /\ s = "setLogs" => Finished(r)
  BY DEF IInv, RunOK, Decision, Consent, Finished
<1> HIDE DEF s
<1>4. /\ PodsOK' /\ pods'[r].pc = s /\ pods'[r].approved = pods[r].approved
      /\ \A q \in Runs \ {r} : pods'[q] = pods[q]
  BY <1>1, <1>2, <1>3, GotoType DEF Steps
<1> QED
  BY <1>2, <1>3, <1>4, PodMoves DEF IInv, TypeOK

LEMMA StartApplyKeeps == ASSUME IInv, NEW r \in Runs, StartApply(r) PROVE IInv'
<1>1. PodsOK /\ tf \in TerraformStates /\ Consent(r)
  BY DEF IInv, TypeOK, PodsOK, RunOK, StartApply, At
<1>2. UNCHANGED <<execs, job, past, budget>>
  BY DEF StartApply
<1>3. /\ PodsOK' /\ pods'[r].pc \in {"applying", "failed"}
      /\ pods'[r].approved = pods[r].approved
      /\ \A q \in Runs \ {r} : pods'[q] = pods[q]
  <2>1. Goto(r, "applying") \/ Goto(r, "failed")
    BY DEF StartApply
  <2> QED
    BY <1>1, <2>1, GotoType DEF Steps
<1>4. tf' \in TerraformStates /\ tf'.by = tf.by
  BY <1>1 DEF StartApply, TerraformStates
<1> QED
  BY <1>1, <1>2, <1>3, <1>4, PodMoves DEF IInv, TypeOK

\* What Terraform has written was consented to, and a success is recorded as
\* done before the pod goes on.
LEMMA ApplyKeeps == ASSUME IInv, NEW r \in Runs, Apply(r) PROVE IInv'
<1>1. /\ PodsOK /\ tf \in TerraformStates /\ past \in [Runs -> Pasts]
      /\ budget \in [Budgets -> Nat] /\ Consent(r)
  BY DEF IInv, TypeOK, PodsOK, RunOK, Apply, At
<1>2. UNCHANGED <<execs, job>>
  BY DEF Apply
<1>3. tf' \in TerraformStates /\ tf'.by = r
  <2>1. tf' = Written(r)
    BY DEF Apply
  <2> DEFINE n == IF tf.by = r /\ past[r].done THEN tf.serial ELSE tf.serial + 1
             k == IF tf.lock = r THEN Unlocked ELSE tf.lock
  <2>2. n \in Nat /\ k \in Runs \cup {Unlocked}
    BY <1>1 DEF TerraformStates, Unlocked
  <2>3. tf' = [tf EXCEPT !.serial = n, !.by = r, !.lock = k]
    BY <1>1, <2>1 DEF Written, TerraformStates
  <2> HIDE DEF n, k
  <2> QED
    BY <1>1, <2>2, <2>3 DEF TerraformStates
<1>4. budget' \in [Budgets -> Nat]
  <2>1. UNCHANGED budget \/ Spend("faults")
    BY DEF Apply
  <2> QED
    BY <1>1, <2>1, SpendType DEF Budgets
<1> DEFINE h == [past[r] EXCEPT !.done = TRUE]
<1>5. /\ h \in Pasts /\ h.yesAt = past[r].yesAt /\ h.denied = past[r].denied
      /\ h.done
  BY <1>1 DEF Pasts
<1>6. /\ past' = past \/ past' = [past EXCEPT ![r] = h]
      /\ past' = past => Goto(r, "failed") \/ past[r].done
  <2>1. \/ past' = [past EXCEPT ![r].done = TRUE]
        \/ past' = past /\ Goto(r, "failed")
    BY DEF Apply
  <2>2. past' = [past EXCEPT ![r].done = TRUE] => past' = [past EXCEPT ![r] = h]
    BY <1>1
  <2> HIDE DEF h
  <2>3. past' = past /\ past' = [past EXCEPT ![r] = h] => past[r].done
    BY <1>1, <1>5
  <2> QED
    BY <2>1, <2>2, <2>3
<1> HIDE DEF h
<1>7. /\ past' \in [Runs -> Pasts]
      /\ past'[r].yesAt = past[r].yesAt /\ past'[r].denied = past[r].denied
      /\ past[r].done => past'[r].done
      /\ past'[r].done \/ Goto(r, "failed")
      /\ \A q \in Runs \ {r} : past'[q] = past[q]
  BY <1>1, <1>5, <1>6, PastSet
<1>8. /\ PodsOK' /\ pods'[r].pc \in {"setLogs", "failed"}
      /\ pods'[r].pc = "setLogs" => past'[r].done
      /\ pods'[r].approved = pods[r].approved
      /\ \A q \in Runs \ {r} : pods'[q] = pods[q]
  <2>1. Goto(r, "setLogs") \/ Goto(r, "failed")
    BY DEF Apply
  <2> QED
    BY <1>1, <1>7, <2>1, GotoType DEF Steps
<1>9. TypeOK'
  BY <1>2, <1>3, <1>4, <1>7, <1>8 DEF IInv, TypeOK, PodsOK
<1>10. RunOK(r)'
  BY <1>1, <1>2, <1>3, <1>7, <1>8 DEF IInv, RunOK, Consent, Finished
<1>11. \A q \in Runs \ {r} : RunOK(q)'
  BY <1>2, <1>3, <1>7, <1>8, OthersKept
<1> QED
  BY <1>9, <1>10, <1>11 DEF IInv

LEMMA DeleteJobKeeps == ASSUME IInv, NEW r \in Runs, DeleteJob(r) PROVE IInv'
<1>1. /\ PodsOK /\ budget \in [Budgets -> Nat]
      /\ job \in [Runs -> {"absent", "active", "failed", "deleted"}]
  BY DEF IInv, TypeOK, PodsOK
<1>2. UNCHANGED <<execs, tf, past>>
  BY DEF DeleteJob
<1>3. /\ PodsOK' /\ pods'[r].pc \in {"none", "failed"}
      /\ pods'[r].approved \in {"", pods[r].approved}
      /\ \A q \in Runs \ {r} : pods'[q] = pods[q]
  <2>1. CASE pods' = [pods EXCEPT ![r] = NoPod]
    BY <1>1, <2>1, NoPodOK, PodSet
  <2>2. CASE Goto(r, "failed")
    BY <1>1, <2>2, GotoType DEF Steps
  <2> QED
    BY <2>1, <2>2 DEF DeleteJob
<1>4. budget' \in [Budgets -> Nat]
  <2>1. UNCHANGED budget \/ Spend("faults")
    BY DEF DeleteJob
  <2> QED
    BY <1>1, <2>1, SpendType DEF Budgets
<1>5. job' \in [Runs -> {"absent", "active", "failed", "deleted"}]
  BY <1>1 DEF DeleteJob
<1> QED
  BY <1>2, <1>3, <1>4, <1>5, PodMoves DEF IInv, TypeOK

\* A new pod knows no answer, whatever the one before it had read.
LEMMA CreateJobKeeps == ASSUME IInv, NEW r \in Runs, CreateJob(r) PROVE IInv'
<1> DEFINE p == [NoPod EXCEPT !.pc = "start"]
<1>1. /\ PodsOK
      /\ job \in [Runs -> {"absent", "active", "failed", "deleted"}]
  BY DEF IInv, TypeOK, PodsOK
<1>2. UNCHANGED <<execs, tf, past, budget>> /\ pods' = [pods EXCEPT ![r] = p]
  BY DEF CreateJob
<1>3. /\ p \in Pods /\ p.tries < Tries /\ p.restarts <= BackoffLimit
      /\ p.pc = "start" /\ p.approved = ""
  BY NoPodOK DEF Pods, Steps
<1> HIDE DEF p
<1>4. /\ PodsOK' /\ pods'[r].pc = "start" /\ pods'[r].approved = ""
      /\ \A q \in Runs \ {r} : pods'[q] = pods[q]
  BY <1>1, <1>2, <1>3, PodSet
<1>5. job' \in [Runs -> {"absent", "active", "failed", "deleted"}]
  BY <1>1 DEF CreateJob
<1> QED
  BY <1>2, <1>4, <1>5, PodMoves DEF IInv, TypeOK

LEMMA ReplacePodKeeps == ASSUME IInv, NEW r \in Runs, ReplacePod(r) PROVE IInv'
<1> DEFINE n == pods[r].restarts + 1
           p == [NoPod EXCEPT !.pc = "start", !.restarts = n]
<1>1. /\ PodsOK /\ pods[r].restarts \in Nat
      /\ job \in [Runs -> {"absent", "active", "failed", "deleted"}]
  BY DEF IInv, TypeOK, PodsOK, Pods
<1>2. UNCHANGED <<execs, tf, past, budget>>
  BY DEF ReplacePod
<1>3. /\ PodsOK' /\ pods'[r].pc \in {"start", "none"} /\ pods'[r].approved = ""
      /\ \A q \in Runs \ {r} : pods'[q] = pods[q]
  <2>1. CASE pods[r].restarts < BackoffLimit
    <3>1. pods' = [pods EXCEPT ![r] = p]
      BY <2>1 DEF ReplacePod
    <3>2. n \in Nat /\ n <= BackoffLimit
      BY <1>1, <2>1, BoundsOK
    <3> HIDE DEF n
    <3>3. /\ p \in Pods /\ p.tries = NoPod.tries /\ p.restarts = n
          /\ p.pc = "start" /\ p.approved = ""
      BY <3>2, NoPodOK DEF Pods, Steps
    <3> HIDE DEF p
    <3>4. p.tries < Tries /\ p.restarts <= BackoffLimit
      BY <3>2, <3>3, NoPodOK
    <3> QED
      BY <1>1, <3>1, <3>3, <3>4, PodSet
  <2>2. CASE ~(pods[r].restarts < BackoffLimit)
    <3>1. pods' = [pods EXCEPT ![r] = NoPod]
      BY <2>2 DEF ReplacePod
    <3> QED
      BY <1>1, <3>1, NoPodOK, PodSet
  <2> QED
    BY <2>1, <2>2
<1>4. job' \in [Runs -> {"absent", "active", "failed", "deleted"}]
  BY <1>1 DEF ReplacePod
<1> QED
  BY <1>2, <1>3, <1>4, PodMoves DEF IInv, TypeOK

\* The annotation never says yes or no without an answer having been given.
LEMMA AnnotateKeeps ==
    ASSUME IInv, NEW r \in Runs, NEW answer \in {"yes", "no", "other"},
           Annotate(r, answer)
    PROVE  IInv'
<1> DEFINE e == [execs[r] EXCEPT !.approved = answer]
           y == IF answer = "yes" THEN past[r].plans ELSE past[r].yesAt
           d == past[r].denied \/ answer = "no"
           h == [past[r] EXCEPT !.yesAt = y, !.denied = d]
<1>1. /\ execs \in [Runs -> Executions] /\ past \in [Runs -> Pasts]
      /\ budget \in [Budgets -> Nat]
      /\ execs[r] \in Executions /\ past[r] \in Pasts
  BY DEF IInv, TypeOK
<1>2. UNCHANGED <<job, pods, tf>>
  BY DEF Annotate
<1>3. budget' \in [Budgets -> Nat]
  BY <1>1 DEF Annotate, Budgets
<1>4. execs' = [execs EXCEPT ![r] = e]
  BY <1>1 DEF Annotate
<1>5. past' = [past EXCEPT ![r] = h]
  BY <1>1 DEF Annotate
<1>6. /\ e \in Executions /\ e.approved = answer /\ e.applied = execs[r].applied
      /\ e.action = execs[r].action /\ e.autoConfirm = execs[r].autoConfirm
  BY <1>1 DEF Executions, Answers
<1>7. /\ y \in Nat \cup {-1}
      /\ past[r].yesAt >= 0 \/ answer = "yes" => y >= 0
  BY <1>1 DEF Pasts
<1>8. d \in BOOLEAN /\ (past[r].denied \/ answer = "no" => d)
  BY <1>1 DEF Pasts
<1> HIDE DEF e, y, d
<1>9. /\ h \in Pasts /\ h.yesAt = y /\ h.denied = d /\ h.done = past[r].done
  BY <1>1, <1>7, <1>8 DEF Pasts
<1> HIDE DEF h
<1>10. /\ execs' \in [Runs -> Executions] /\ execs'[r] = e
       /\ \A q \in Runs \ {r} : execs'[q] = execs[q]
  BY <1>1, <1>4, <1>6, ExecSet
<1>11. /\ past' \in [Runs -> Pasts] /\ past'[r] = h
       /\ \A q \in Runs \ {r} : past'[q] = past[q]
  BY <1>1, <1>5, <1>9, PastSet
<1>12. TypeOK'
  BY <1>2, <1>3, <1>10, <1>11 DEF IInv, TypeOK
<1>13. RunOK(r)'
  BY <1>2, <1>6, <1>7, <1>8, <1>9, <1>10, <1>11 DEF IInv, RunOK, Consent, Finished
<1>14. \A q \in Runs \ {r} : RunOK(q)'
  BY <1>2, <1>10, <1>11, OthersKept
<1> QED
  BY <1>12, <1>13, <1>14 DEF IInv

LEMMA PruneExecutionKeeps ==
    ASSUME IInv, NEW r \in Runs, PruneExecution(r) PROVE IInv'
<1> DEFINE e == [execs[r] EXCEPT !.live = FALSE]
<1>1. /\ execs \in [Runs -> Executions] /\ execs[r] \in Executions
      /\ budget \in [Budgets -> Nat]
  BY DEF IInv, TypeOK
<1>2. UNCHANGED <<job, pods, tf, past>> /\ Spend("prunes")
  BY DEF PruneExecution
<1>3. budget' \in [Budgets -> Nat]
  BY <1>1, <1>2, SpendType DEF Budgets
<1>4. execs' = [execs EXCEPT ![r] = e]
  BY <1>1 DEF PruneExecution
<1>5. /\ e \in Executions /\ e.approved = execs[r].approved
      /\ e.applied = execs[r].applied
      /\ e.action = execs[r].action /\ e.autoConfirm = execs[r].autoConfirm
  BY <1>1 DEF Executions
<1> HIDE DEF e
<1>6. /\ execs' \in [Runs -> Executions] /\ execs'[r] = e
      /\ \A q \in Runs \ {r} : execs'[q] = execs[q]
  BY <1>1, <1>4, <1>5, ExecSet
<1>7. TypeOK'
  BY <1>2, <1>3, <1>6 DEF IInv, TypeOK
<1>8. RunOK(r)'
  BY <1>2, <1>5, <1>6 DEF IInv, RunOK, Consent, Finished
<1>9. \A q \in Runs \ {r} : RunOK(q)'
  BY <1>2, <1>6, OthersKept
<1> QED
  BY <1>7, <1>8, <1>9 DEF IInv

LEMMA StateUnlockKeeps == ASSUME IInv, StateUnlock PROVE IInv'
<1>1. tf \in TerraformStates /\ budget \in [Budgets -> Nat]
  BY DEF IInv, TypeOK
<1>2. UNCHANGED <<execs, job, pods, past>> /\ Spend("unlocks")
  BY DEF StateUnlock
<1>3. tf' \in TerraformStates /\ tf'.by = tf.by
  BY <1>1 DEF StateUnlock, TerraformStates, Unlocked
<1>4. budget' \in [Budgets -> Nat]
  BY <1>1, <1>2, SpendType DEF Budgets
<1>5. TypeOK'
  BY <1>2, <1>3, <1>4 DEF IInv, TypeOK
<1> QED
  BY <1>2, <1>3, <1>5 DEF IInv, RunOK, Consent, Finished

-----------------------------------------------------------------------------
(* Theorems *)

LEMMA StutterKeeps == ASSUME IInv, UNCHANGED vars PROVE IInv'
BY DEF IInv, TypeOK, RunOK, Consent, Finished, vars

LEMMA NextKeeps == ASSUME IInv, [Next]_vars PROVE IInv'
<1>1. CASE UNCHANGED vars
  BY <1>1, StutterKeeps
<1>2. CASE StateUnlock
  BY <1>2, StateUnlockKeeps
<1>3. ASSUME NEW r \in Runs, CreateJob(r) \/ ReplacePod(r) \/ KillPod(r)
      PROVE  IInv'
  BY <1>3, CreateJobKeeps, ReplacePodKeeps, KillPodKeeps
<1>4. ASSUME NEW r \in Runs, Run(r) \/ ApprovalInDeletion(r) PROVE IInv'
  BY <1>4, PopulateKeeps, StartPlanKeeps, PlanKeeps, SetExecutionPlannedKeeps,
     ConfirmKeeps, WaitForApprovalKeeps, WaitFailsKeeps, DecideKeeps,
     StartApplyKeeps, ApplyKeeps, SetExecutionLogsKeeps,
     SetExecutionAppliedKeeps, SaveOutputsKeeps, DeleteJobKeeps,
     ApprovalInDeletionKeeps DEF Run
<1>5. ASSUME NEW r \in Runs, User(r) PROVE IInv'
  BY <1>5, AnnotateKeeps, PruneExecutionKeeps DEF User
<1> QED
  BY <1>1, <1>2, <1>3, <1>4, <1>5 DEF Next

\* The invariant holds for any number of runs, restarts, failed calls,
\* answers, pruned Executions and unlocks of the State.
THEOREM Invariance == Spec => []IInv
<1>1. Init => IInv
  BY InitOK
<1>2. IInv /\ [Next]_vars => IInv'
  BY NextKeeps
<1> QED
  BY <1>1, <1>2, PTL DEF Spec

\* Every variable of the executors stays within its type (pkg/executor): a
\* tryUpdate makes at most Tries calls and a Job backoffLimit + 1 pods.
THEOREM TypeCorrect == Spec => []TypeOK
<1>1. IInv => TypeOK
  BY DEF IInv
<1> QED
  BY <1>1, Invariance, PTL

\* Terraform changes the infrastructure for a run only with consent (Create
\* and Destroy of pkg/executor/runner).
THEOREM ConsentGiven == Spec => []ChangesApproved
<1>1. IInv => ChangesApproved
  BY DEF IInv, RunOK, Consent, ChangesApproved, At
<1> QED
  BY <1>1, Invariance, PTL

\* The condition Applied is set only once Terraform has carried the run out,
\* or a destroy was refused (run of pkg/executor).
THEOREM ReportsTrue == Spec => []AppliedMeansDone
<1>1. IInv => AppliedMeansDone
  BY DEF IInv, RunOK, Finished, AppliedMeansDone
<1> QED
  BY <1>1, Invariance, PTL

-----------------------------------------------------------------------------
(* A Job that its pod deletes has reported (DeletedJobReported), unless      *)
(* every call of a tryUpdate was a conflict. The argument counts: a call of  *)
(* the tryUpdate in progress that did not set its field has used up a        *)
(* conflict.                                                                 *)

\* The conflicts so far, of all runs
Conflicts == MaxConflicts - budget["conflicts"]

\* A flag that n calls were to set is set, or there were n conflicts.
Reached(flag, n) == flag \/ Conflicts >= n

Pc(r) == pods[r].pc

\* What the steps of run() behind the change have achieved
ReportOK(r) ==
    /\ Pc(r) = "setLogs" => Reached(execs[r].logs, pods[r].tries)
    /\ Pc(r) \in {"setApplied", "saveOutputs", "deleteJob"} \/ job[r] = "deleted"
       => Reached(execs[r].logs, Tries)
    /\ Pc(r) = "setApplied" => Reached(execs[r].applied, pods[r].tries)
    /\ Pc(r) \in {"saveOutputs", "deleteJob"} \/ job[r] = "deleted"
       => Reached(execs[r].applied, Tries)
    /\ Pc(r) = "saveOutputs" => Reached(execs[r].outputs, pods[r].tries)
    /\ Pc(r) = "deleteJob" \/ job[r] = "deleted"
       => (execs[r].action = "create" => Reached(execs[r].outputs, Tries))

\* Its inputs stay integers, and conflicts are only added.
CountOK == budget["conflicts"] \in Nat /\ Conflicts \in Nat

RInv == IInv /\ CountOK /\ \A r \in Runs : ReportOK(r)

\* No flag of an Execution is taken back.
Grows(r) ==
    /\ execs'[r].action = execs[r].action
    /\ execs[r].logs => execs'[r].logs
    /\ execs[r].applied => execs'[r].applied
    /\ execs[r].outputs => execs'[r].outputs

LEMMA SpendCounts ==
    ASSUME RInv, NEW b \in Budgets \ {"all"}, Spend(b)
    PROVE  /\ CountOK' /\ Conflicts' >= Conflicts
           /\ b = "conflicts" => Conflicts' = Conflicts + 1
<1>1. budget \in [Budgets -> Nat] /\ budget["conflicts"] \in Nat /\ Conflicts \in Nat
  BY DEF RInv, IInv, TypeOK, CountOK
<1>2. CASE b = "conflicts"
  <2>1. budget["conflicts"] > 0 /\ budget'["conflicts"] = budget["conflicts"] - 1
    BY <1>1, <1>2 DEF Spend, Budgets
  <2> QED
    BY <1>1, <1>2, <2>1, BoundsOK DEF CountOK, Conflicts
<1>3. CASE b # "conflicts"
  <2>1. budget'["conflicts"] = budget["conflicts"]
    BY <1>1, <1>3 DEF Spend, Budgets
  <2> QED
    BY <1>1, <1>3, <2>1 DEF CountOK, Conflicts
<1> QED
  BY <1>2, <1>3

LEMMA SameCounts ==
    ASSUME RInv, UNCHANGED budget
    PROVE  CountOK' /\ Conflicts' = Conflicts
BY DEF RInv, CountOK, Conflicts

\* A run whose pod and Job stay as they are
LEMMA OtherReports ==
    ASSUME RInv, NEW q \in Runs, CountOK', Conflicts' >= Conflicts,
           pods'[q] = pods[q], job'[q] = job[q], Grows(q)
    PROVE  ReportOK(q)'
<1>1. /\ Conflicts \in Nat /\ Conflicts' \in Nat
      /\ pods[q].tries \in Nat /\ Tries \in Nat
  BY BoundsOK DEF RInv, IInv, TypeOK, Pods, CountOK
<1> QED
  BY <1>1 DEF RInv, ReportOK, Reached, Grows, Pc

\* A pod that moves, but not within run()'s reports
LEMMA MoveReports ==
    ASSUME RInv, NEW r \in Runs, CountOK', Conflicts' >= Conflicts,
           job'[r] = "deleted" => job[r] = "deleted", Grows(r),
           \/ pods'[r].pc \notin {"setLogs", "setApplied", "saveOutputs", "deleteJob"}
           \/ pods'[r].pc = "setLogs" /\ pods'[r].tries = 0
    PROVE  ReportOK(r)'
<1>1. Conflicts \in Nat /\ Conflicts' \in Nat /\ Tries \in Nat
  BY BoundsOK DEF RInv, CountOK
<1> QED
  BY <1>1 DEF RInv, ReportOK, Reached, Grows, Pc

-----------------------------------------------------------------------------
(* The reports *)

\* A call of a tryUpdate sets its field, or uses up a conflict, or ends the pod.
LEMMA CallCounts ==
    ASSUME RInv, NEW r \in Runs, NEW e \in Executions, NEW s \in Steps,
           Update(r, e, s)
    PROVE  /\ UNCHANGED job /\ CountOK'
           /\ \A q \in Runs \ {r} : execs'[q] = execs[q] /\ pods'[q] = pods[q]
           /\ \/ /\ pods'[r].pc = "failed" /\ execs'[r] \in {execs[r], e}
                 /\ Conflicts' >= Conflicts
              \/ /\ \/ execs'[r] = e /\ Conflicts' = Conflicts
                    \/ execs'[r] = execs[r] /\ Conflicts' = Conflicts + 1
                 /\ \/ /\ pods[r].tries + 1 = Tries
                       /\ pods'[r].pc = s /\ pods'[r].tries = 0
                    \/ /\ pods'[r].pc = pods[r].pc
                       /\ pods'[r].tries = pods[r].tries + 1
<1>1. /\ PodsOK /\ execs \in [Runs -> Executions]
      /\ pods[r] \in Pods /\ TypeOK
  BY DEF RInv, IInv, TypeOK, PodsOK
<1>2. /\ UNCHANGED job
      /\ execs'[r] \in {execs[r], e}
      /\ \A q \in Runs \ {r} : execs'[q] = execs[q] /\ pods'[q] = pods[q]
  BY <1>1, UpdateMoves
<1>3. CASE TryUpdateFails(r, e)
  <2>1. UNCHANGED budget \/ Spend("faults")
    BY <1>3 DEF TryUpdateFails
  <2>2. CountOK' /\ Conflicts' >= Conflicts
    <3>1. CASE UNCHANGED budget
      BY <3>1, SameCounts DEF RInv, CountOK
    <3>2. CASE Spend("faults")
      BY <3>2, SpendCounts DEF Budgets
    <3> QED
      BY <2>1, <3>1, <3>2
  <2>3. pods'[r].pc = "failed"
    BY <1>1, <1>3, GotoType DEF TryUpdateFails, Steps
  <2> QED
    BY <1>2, <2>2, <2>3
<1>4. CASE TryUpdate(r, e, s)
  <2> DEFINE tried == Tried(r, s)
             heard == [tried EXCEPT !.approved = e.approved]
  <2>1. /\ tried \in Pods
        /\ \/ pods[r].tries + 1 = Tries /\ tried.pc = s /\ tried.tries = 0
           \/ tried.pc = pods[r].pc /\ tried.tries = pods[r].tries + 1
    <3>1. tried \in Pods
      BY <1>1, TriedType
    <3>2. CASE pods[r].tries + 1 = Tries
      BY <1>1, <3>2 DEF Tried, Pods
    <3>3. CASE pods[r].tries + 1 # Tries
      BY <1>1, <3>3 DEF Tried, Pods
    <3> QED
      BY <3>1, <3>2, <3>3
  <2>2. \/ /\ execs' = [execs EXCEPT ![r] = e] /\ UNCHANGED budget
           /\ pods' = [pods EXCEPT ![r] = heard]
        \/ /\ UNCHANGED execs /\ Spend("conflicts")
           /\ pods' = [pods EXCEPT ![r] = tried]
    BY <1>4 DEF TryUpdate, Tried
  <2> HIDE DEF tried
  <2>3. heard.pc = tried.pc /\ heard.tries = tried.tries
    BY <2>1 DEF Pods
  <2> HIDE DEF heard
  <2>4. pods'[r].pc = tried.pc /\ pods'[r].tries = tried.tries
    BY <1>1, <2>2, <2>3 DEF PodsOK
  <2>5. /\ CountOK'
        /\ \/ execs'[r] = e /\ Conflicts' = Conflicts
           \/ execs'[r] = execs[r] /\ Conflicts' = Conflicts + 1
    <3>1. CASE execs' = [execs EXCEPT ![r] = e] /\ UNCHANGED budget
      BY <1>1, <3>1, SameCounts, ExecSet
    <3>2. CASE UNCHANGED execs /\ Spend("conflicts")
      BY <3>2, SpendCounts DEF Budgets
    <3> QED
      BY <2>2, <3>1, <3>2
  <2> QED
    BY <1>2, <2>1, <2>4, <2>5
<1> QED
  BY <1>3, <1>4 DEF Update

LEMMA PlannedReports ==
    ASSUME RInv, NEW r \in Runs, SetExecutionPlanned(r)
    PROVE  CountOK' /\ \A q \in Runs : ReportOK(q)'
<1> DEFINE e == [execs[r] EXCEPT !.planned = TRUE]
<1>1. Pc(r) = "setPlanned" /\ Update(r, e, "confirm") /\ "confirm" \in Steps
  BY DEF SetExecutionPlanned, At, Pc, Steps
<1>2. /\ e \in Executions /\ e.action = execs[r].action /\ e.logs = execs[r].logs
      /\ e.applied = execs[r].applied /\ e.outputs = execs[r].outputs
  BY DEF RInv, IInv, TypeOK, Executions
<1> HIDE DEF e
<1>3. /\ UNCHANGED job /\ CountOK' /\ Conflicts' >= Conflicts
      /\ \A q \in Runs \ {r} : execs'[q] = execs[q] /\ pods'[q] = pods[q]
      /\ pods'[r].pc \in {"setPlanned", "confirm", "failed"}
      /\ execs'[r] \in {execs[r], e}
  BY <1>1, <1>2, CallCounts DEF Pc, RInv, CountOK
<1>4. ReportOK(r)'
  BY <1>2, <1>3, MoveReports DEF Grows
<1>5. \A q \in Runs \ {r} : ReportOK(q)'
  BY <1>3, OtherReports DEF Grows
<1> QED
  BY <1>3, <1>4, <1>5

LEMMA LogsReports ==
    ASSUME RInv, NEW r \in Runs, SetExecutionLogs(r)
    PROVE  CountOK' /\ \A q \in Runs : ReportOK(q)'
<1> DEFINE e == [execs[r] EXCEPT !.logs = TRUE]
<1>1. Pc(r) = "setLogs" /\ Update(r, e, "setApplied") /\ "setApplied" \in Steps
  BY DEF SetExecutionLogs, At, Pc, Steps
<1>2. /\ e \in Executions /\ e.action = execs[r].action /\ e.logs
      /\ e.applied = execs[r].applied /\ e.outputs = execs[r].outputs
  BY DEF RInv, IInv, TypeOK, Executions
<1> HIDE DEF e
<1>3. /\ UNCHANGED job /\ CountOK'
      /\ \A q \in Runs \ {r} : execs'[q] = execs[q] /\ pods'[q] = pods[q]
      /\ \/ /\ pods'[r].pc = "failed" /\ execs'[r] \in {execs[r], e}
            /\ Conflicts' >= Conflicts
         \/ /\ \/ execs'[r] = e /\ Conflicts' = Conflicts
               \/ execs'[r] = execs[r] /\ Conflicts' = Conflicts + 1
            /\ \/ /\ pods[r].tries + 1 = Tries
                  /\ pods'[r].pc = "setApplied" /\ pods'[r].tries = 0
               \/ /\ pods'[r].pc = "setLogs"
                  /\ pods'[r].tries = pods[r].tries + 1
  BY <1>1, <1>2, CallCounts DEF Pc
<1>4. /\ Conflicts \in Nat /\ Conflicts' \in Nat /\ Conflicts' >= Conflicts
      /\ pods[r].tries \in Nat /\ Tries \in Nat
  BY <1>3, BoundsOK DEF RInv, IInv, TypeOK, Pods, CountOK
<1>5. ReportOK(r)'
  <2>1. CASE pods'[r].pc = "failed"
    BY <1>2, <1>3, <1>4, <2>1, MoveReports DEF Grows
  <2>2. CASE pods'[r].pc # "failed"
    BY <1>1, <1>2, <1>3, <1>4, <2>2 DEF RInv, ReportOK, Reached, Pc
  <2> QED
    BY <2>1, <2>2
<1>6. \A q \in Runs \ {r} : ReportOK(q)'
  BY <1>3, <1>4, OtherReports DEF Grows
<1> QED
  BY <1>3, <1>5, <1>6

LEMMA AppliedReports ==
    ASSUME RInv, NEW r \in Runs, SetExecutionApplied(r)
    PROVE  CountOK' /\ \A q \in Runs : ReportOK(q)'
<1> DEFINE e == [execs[r] EXCEPT !.applied = TRUE]
           s == IF execs[r].action = "create" THEN "saveOutputs" ELSE "deleteJob"
<1>1. Pc(r) = "setApplied" /\ Update(r, e, s) /\ s \in Steps
  BY DEF SetExecutionApplied, At, Pc, Steps
<1>2. /\ e \in Executions /\ e.action = execs[r].action /\ e.applied
      /\ e.logs = execs[r].logs /\ e.outputs = execs[r].outputs
  BY DEF RInv, IInv, TypeOK, Executions
<1>3. \/ s = "saveOutputs" /\ execs[r].action = "create"
      \/ s = "deleteJob" /\ execs[r].action # "create"
  OBVIOUS
<1> HIDE DEF e, s
<1>4. /\ UNCHANGED job /\ CountOK'
      /\ \A q \in Runs \ {r} : execs'[q] = execs[q] /\ pods'[q] = pods[q]
      /\ \/ /\ pods'[r].pc = "failed" /\ execs'[r] \in {execs[r], e}
            /\ Conflicts' >= Conflicts
         \/ /\ \/ execs'[r] = e /\ Conflicts' = Conflicts
               \/ execs'[r] = execs[r] /\ Conflicts' = Conflicts + 1
            /\ \/ /\ pods[r].tries + 1 = Tries
                  /\ pods'[r].pc = s /\ pods'[r].tries = 0
               \/ /\ pods'[r].pc = "setApplied"
                  /\ pods'[r].tries = pods[r].tries + 1
  BY <1>1, <1>2, CallCounts DEF Pc
<1>5. /\ Conflicts \in Nat /\ Conflicts' \in Nat /\ Conflicts' >= Conflicts
      /\ pods[r].tries \in Nat /\ Tries \in Nat
  BY <1>4, BoundsOK DEF RInv, IInv, TypeOK, Pods, CountOK
<1>6. ReportOK(r)'
  <2>1. CASE pods'[r].pc = "failed"
    BY <1>2, <1>4, <1>5, <2>1, MoveReports DEF Grows
  <2>2. CASE pods'[r].pc # "failed"
    BY <1>1, <1>2, <1>3, <1>4, <1>5, <2>2 DEF RInv, ReportOK, Reached, Pc
  <2> QED
    BY <2>1, <2>2
<1>7. \A q \in Runs \ {r} : ReportOK(q)'
  BY <1>4, <1>5, OtherReports DEF Grows
<1> QED
  BY <1>4, <1>6, <1>7

LEMMA OutputsReports ==
    ASSUME RInv, NEW r \in Runs, SaveOutputs(r)
    PROVE  CountOK' /\ \A q \in Runs : ReportOK(q)'
<1> DEFINE e == [execs[r] EXCEPT !.outputs = TRUE]
<1>1. Pc(r) = "saveOutputs" /\ Update(r, e, "deleteJob") /\ "deleteJob" \in Steps
  BY DEF SaveOutputs, At, Pc, Steps
<1>2. /\ e \in Executions /\ e.action = execs[r].action /\ e.outputs
      /\ e.logs = execs[r].logs /\ e.applied = execs[r].applied
  BY DEF RInv, IInv, TypeOK, Executions
<1> HIDE DEF e
<1>3. /\ UNCHANGED job /\ CountOK'
      /\ \A q \in Runs \ {r} : execs'[q] = execs[q] /\ pods'[q] = pods[q]
      /\ \/ /\ pods'[r].pc = "failed" /\ execs'[r] \in {execs[r], e}
            /\ Conflicts' >= Conflicts
         \/ /\ \/ execs'[r] = e /\ Conflicts' = Conflicts
               \/ execs'[r] = execs[r] /\ Conflicts' = Conflicts + 1
            /\ \/ /\ pods[r].tries + 1 = Tries
                  /\ pods'[r].pc = "deleteJob" /\ pods'[r].tries = 0
               \/ /\ pods'[r].pc = "saveOutputs"
                  /\ pods'[r].tries = pods[r].tries + 1
  BY <1>1, <1>2, CallCounts DEF Pc
<1>4. /\ Conflicts \in Nat /\ Conflicts' \in Nat /\ Conflicts' >= Conflicts
      /\ pods[r].tries \in Nat /\ Tries \in Nat
  BY <1>3, BoundsOK DEF RInv, IInv, TypeOK, Pods, CountOK
<1>5. ReportOK(r)'
  <2>1. CASE pods'[r].pc = "failed"
    BY <1>2, <1>3, <1>4, <2>1, MoveReports DEF Grows
  <2>2. CASE pods'[r].pc # "failed"
    BY <1>1, <1>2, <1>3, <1>4, <2>2 DEF RInv, ReportOK, Reached, Pc
  <2> QED
    BY <2>1, <2>2
<1>6. \A q \in Runs \ {r} : ReportOK(q)'
  BY <1>3, <1>4, OtherReports DEF Grows
<1> QED
  BY <1>3, <1>5, <1>6

-----------------------------------------------------------------------------
(* The other steps *)

Reports == {"setLogs", "setApplied", "saveOutputs", "deleteJob"}

\* A pod moves outside the reports, or into the first of them.
LEMMA PodReports ==
    ASSUME RInv, NEW r \in Runs, NEW s \in Steps,
           UNCHANGED <<execs, job>>, CountOK', Conflicts' >= Conflicts,
           \A q \in Runs \ {r} : pods'[q] = pods[q],
           pods'[r].pc = s, s \notin Reports \/ (s = "setLogs" /\ pods'[r].tries = 0)
    PROVE  \A q \in Runs : ReportOK(q)'
<1>1. ReportOK(r)'
  BY MoveReports DEF Grows, Reports
<1>2. \A q \in Runs \ {r} : ReportOK(q)'
  BY OtherReports DEF Grows
<1> QED
  BY <1>1, <1>2

\* The pods of a step with Goto
LEMMA GotoPod ==
    ASSUME RInv, NEW r \in Runs, NEW s \in Steps, Goto(r, s)
    PROVE  /\ \A q \in Runs \ {r} : pods'[q] = pods[q]
           /\ pods'[r].pc = s /\ pods'[r].tries = 0
<1> DEFINE p == [pods[r] EXCEPT !.pc = s, !.tries = 0]
<1>1. pods \in [Runs -> Pods] /\ pods[r] \in Pods
  BY DEF RInv, IInv, TypeOK
<1>2. pods' = [pods EXCEPT ![r] = p]
  BY <1>1 DEF Goto
<1>3. p.pc = s /\ p.tries = 0
  BY <1>1 DEF Pods
<1> HIDE DEF p
<1> QED
  BY <1>1, <1>2, <1>3

\* No step but a tryUpdate uses up conflicts.
LEMMA StepCounts ==
    ASSUME RInv,
           \/ UNCHANGED budget
           \/ \E b \in Budgets \ {"all"} : Spend(b)
    PROVE  CountOK' /\ Conflicts' >= Conflicts
<1>1. CASE UNCHANGED budget
  BY <1>1, SameCounts DEF RInv, CountOK
<1>2. CASE \E b \in Budgets \ {"all"} : Spend(b)
  BY <1>2, SpendCounts
<1> QED
  BY <1>1, <1>2

LEMMA GotoReports ==
    ASSUME RInv, NEW r \in Runs,
           \/ Confirm(r) \/ Decide(r) \/ StartPlan(r) \/ StartApply(r)
           \/ Apply(r) \/ WaitFails(r) \/ KillPod(r)
    PROVE  CountOK' /\ \A q \in Runs : ReportOK(q)'
<1>1. UNCHANGED <<execs, job>>
  BY DEF Confirm, Decide, StartPlan, StartApply, Apply, WaitFails, KillPod
<1>2. CountOK' /\ Conflicts' >= Conflicts
  <2>1. UNCHANGED budget \/ Spend("faults") \/ Spend("kills")
    BY DEF Confirm, Decide, StartPlan, StartApply, Apply, WaitFails, KillPod
  <2> QED
    BY <2>1, StepCounts DEF Budgets
<1>3. PICK s \in (Steps \ Reports) \cup {"setLogs"} : Goto(r, s)
  <2>1. CASE Confirm(r)
    BY <2>1 DEF Confirm, Steps, Reports
  <2>2. CASE Decide(r)
    BY <2>2 DEF Decide, Decision, Steps, Reports
  <2>3. CASE StartPlan(r)
    BY <2>3 DEF StartPlan, Steps, Reports
  <2>4. CASE StartApply(r)
    BY <2>4 DEF StartApply, Steps, Reports
  <2>5. CASE Apply(r)
    BY <2>5 DEF Apply, Steps, Reports
  <2>6. CASE WaitFails(r) \/ KillPod(r)
    BY <2>6 DEF WaitFails, KillPod, Steps, Reports
  <2> QED
    BY <2>1, <2>2, <2>3, <2>4, <2>5, <2>6
<1>4. s \in Steps
  BY DEF Steps
<1> QED
  BY <1>1, <1>2, <1>3, <1>4, GotoPod, PodReports

LEMMA ReadReports ==
    ASSUME RInv, NEW r \in Runs,
           Populate(r) \/ WaitForApproval(r) \/ ApprovalInDeletion(r)
    PROVE  CountOK' /\ \A q \in Runs : ReportOK(q)'
<1>1. UNCHANGED <<execs, job>>
  BY DEF Populate, WaitForApproval, ApprovalInDeletion
<1>2. CountOK' /\ Conflicts' >= Conflicts
  <2>1. UNCHANGED budget \/ Spend("faults")
    BY DEF Populate, WaitForApproval, ApprovalInDeletion
  <2> QED
    BY <2>1, StepCounts DEF Budgets
<1>3. /\ pods'[r].pc \in {"plan", "answer", "failed"}
      /\ \A q \in Runs \ {r} : pods'[q] = pods[q]
  <2>1. CASE Goto(r, "failed")
    BY <2>1, GotoPod DEF Steps
  <2>2. CASE \E s \in {"plan", "answer"} :
                pods' = [pods EXCEPT ![r].pc = s, ![r].approved = execs[r].approved]
    <3>1. PodsOK /\ execs[r].approved \in Answers
      BY DEF RInv, IInv, TypeOK, PodsOK, Executions
    <3> QED
      BY <2>2, <3>1, ReadType DEF Steps
  <2> QED
    BY <2>1, <2>2 DEF Populate, WaitForApproval, ApprovalInDeletion
<1>4. ReportOK(r)'
  BY <1>1, <1>2, <1>3, MoveReports DEF Grows
<1>5. \A q \in Runs \ {r} : ReportOK(q)'
  BY <1>1, <1>2, <1>3, OtherReports DEF Grows
<1> QED
  BY <1>2, <1>4, <1>5

LEMMA PlanReports ==
    ASSUME RInv, NEW r \in Runs, Plan(r)
    PROVE  CountOK' /\ \A q \in Runs : ReportOK(q)'
<1>1. UNCHANGED <<execs, job>>
  BY DEF Plan
<1>2. CountOK' /\ Conflicts' >= Conflicts
  <2>1. UNCHANGED budget \/ Spend("faults")
    BY DEF Plan
  <2> QED
    BY <2>1, StepCounts DEF Budgets
<1>3. /\ pods'[r].pc \in {"setPlanned", "confirm", "failed"}
      /\ \A q \in Runs \ {r} : pods'[q] = pods[q]
  <2>1. CASE Goto(r, "failed")
    BY <2>1, GotoPod DEF Steps
  <2>2. CASE ~Goto(r, "failed")
    <3> DEFINE s == IF execs[r].action = "create" THEN "setPlanned" ELSE "confirm"
    <3>1. pods' = [pods EXCEPT ![r].plan = tf.serial, ![r].pc = s]
      BY <2>2 DEF Plan
    <3>2. /\ PodsOK /\ tf.serial \in Nat
          /\ s \in {"setPlanned", "confirm"} /\ s \in Steps
      BY DEF RInv, IInv, TypeOK, PodsOK, TerraformStates, Steps
    <3> HIDE DEF s
    <3> QED
      BY <3>1, <3>2, PlanType
  <2> QED
    BY <2>1, <2>2
<1>4. ReportOK(r)'
  BY <1>1, <1>2, <1>3, MoveReports DEF Grows
<1>5. \A q \in Runs \ {r} : ReportOK(q)'
  BY <1>1, <1>2, <1>3, OtherReports DEF Grows
<1> QED
  BY <1>2, <1>4, <1>5

\* The Job is gone: the pod was at its last step.
LEMMA DeleteReports ==
    ASSUME RInv, NEW r \in Runs, DeleteJob(r)
    PROVE  CountOK' /\ \A q \in Runs : ReportOK(q)'
<1>1. Pc(r) = "deleteJob" /\ UNCHANGED execs
  BY DEF DeleteJob, At, Pc
<1>2. CountOK' /\ Conflicts' >= Conflicts
  <2>1. UNCHANGED budget \/ Spend("faults")
    BY DEF DeleteJob
  <2> QED
    BY <2>1, StepCounts DEF Budgets
<1>3. CASE Goto(r, "failed") /\ UNCHANGED job
  BY <1>1, <1>2, <1>3, GotoPod, PodReports DEF Reports, Steps
<1>4. CASE /\ job' = [job EXCEPT ![r] = "deleted"]
           /\ pods' = [pods EXCEPT ![r] = NoPod]
  <2>1. /\ pods \in [Runs -> Pods]
        /\ job \in [Runs -> {"absent", "active", "failed", "deleted"}]
    BY DEF RInv, IInv, TypeOK
  <2>2. /\ pods'[r].pc = "none"
        /\ \A q \in Runs \ {r} : pods'[q] = pods[q] /\ job'[q] = job[q]
    BY <1>4, <2>1, NoPodOK
  <2>3. /\ Conflicts \in Nat /\ Conflicts' \in Nat /\ Tries \in Nat
    BY <1>2, BoundsOK DEF RInv, CountOK
  <2>4. ReportOK(r)'
    BY <1>1, <1>2, <2>2, <2>3 DEF RInv, ReportOK, Reached, Pc
  <2>5. \A q \in Runs \ {r} : ReportOK(q)'
    BY <1>1, <1>2, <2>2, OtherReports DEF Grows
  <2> QED
    BY <1>2, <2>4, <2>5
<1> QED
  BY <1>3, <1>4 DEF DeleteJob

LEMMA JobReports ==
    ASSUME RInv, NEW r \in Runs, CreateJob(r) \/ ReplacePod(r)
    PROVE  CountOK' /\ \A q \in Runs : ReportOK(q)'
<1>1. UNCHANGED <<execs, budget>>
  BY DEF CreateJob, ReplacePod
<1>2. /\ pods \in [Runs -> Pods]
      /\ job \in [Runs -> {"absent", "active", "failed", "deleted"}]
  BY DEF RInv, IInv, TypeOK
<1>3. CountOK' /\ Conflicts' >= Conflicts
  BY <1>1, StepCounts
<1>4. /\ pods'[r].pc \in {"start", "none"}
      /\ job'[r] = "deleted" => job[r] = "deleted"
      /\ \A q \in Runs \ {r} : pods'[q] = pods[q] /\ job'[q] = job[q]
  <2>1. \E p : pods' = [pods EXCEPT ![r] = p] /\ p.pc \in {"start", "none"}
    <3>1. CASE CreateJob(r)
      <4> DEFINE p == [NoPod EXCEPT !.pc = "start"]
      <4>1. p.pc = "start"
        BY DEF NoPod
      <4>2. pods' = [pods EXCEPT ![r] = p]
        BY <3>1 DEF CreateJob
      <4> HIDE DEF p
      <4> QED
        BY <4>1, <4>2
    <3>2. CASE ReplacePod(r)
      <4> DEFINE p == [NoPod EXCEPT !.pc = "start", !.restarts = pods[r].restarts + 1]
      <4>1. p.pc = "start" /\ NoPod.pc = "none"
        BY DEF NoPod
      <4>2. pods' = [pods EXCEPT ![r] = p] \/ pods' = [pods EXCEPT ![r] = NoPod]
        BY <3>2 DEF ReplacePod
      <4> HIDE DEF p
      <4> QED
        BY <4>1, <4>2
    <3> QED
      BY <3>1, <3>2
  <2>2. PICK p : pods' = [pods EXCEPT ![r] = p] /\ p.pc \in {"start", "none"}
    BY <2>1
  <2>4. \/ job' = job \/ job' = [job EXCEPT ![r] = "active"]
        \/ job' = [job EXCEPT ![r] = "failed"]
    BY DEF CreateJob, ReplacePod
  <2> QED
    BY <1>2, <2>2, <2>4
<1>5. ReportOK(r)'
  BY <1>1, <1>3, <1>4, MoveReports DEF Grows
<1>6. \A q \in Runs \ {r} : ReportOK(q)'
  BY <1>1, <1>3, <1>4, OtherReports DEF Grows
<1> QED
  BY <1>3, <1>5, <1>6

LEMMA UserReports ==
    ASSUME RInv, NEW r \in Runs, User(r)
    PROVE  CountOK' /\ \A q \in Runs : ReportOK(q)'
<1>1. execs \in [Runs -> Executions] /\ budget \in [Budgets -> Nat]
  BY DEF RInv, IInv, TypeOK
<1>2. UNCHANGED <<job, pods>>
  BY DEF User, Annotate, PruneExecution
<1>3. CountOK' /\ Conflicts' >= Conflicts
  <2>1. CASE \E answer \in {"yes", "no", "other"} : Annotate(r, answer)
    <3>1. budget'["conflicts"] = budget["conflicts"]
      BY <1>1, <2>1 DEF Annotate, Budgets
    <3> QED
      BY <3>1 DEF RInv, CountOK, Conflicts
  <2>2. CASE PruneExecution(r)
    BY <2>2, StepCounts DEF PruneExecution, Budgets
  <2> QED
    BY <2>1, <2>2 DEF User
<1>4. \A q \in Runs : Grows(q)
  <2>1. CASE \E answer \in {"yes", "no", "other"} : Annotate(r, answer)
    BY <1>1, <2>1 DEF Annotate, Grows, Executions
  <2>2. CASE PruneExecution(r)
    BY <1>1, <2>2 DEF PruneExecution, Grows, Executions
  <2> QED
    BY <2>1, <2>2 DEF User
<1> QED
  BY <1>2, <1>3, <1>4, OtherReports

-----------------------------------------------------------------------------
(* The theorem *)

LEMMA NextReports == ASSUME RInv, [Next]_vars PROVE RInv'
<1>1. IInv'
  BY NextKeeps DEF RInv
<1>2. CountOK' /\ \A q \in Runs : ReportOK(q)'
  <2>1. CASE UNCHANGED vars
    BY <2>1, StepCounts, OtherReports DEF vars, Grows
  <2>2. CASE StateUnlock
    <3>1. CountOK' /\ Conflicts' >= Conflicts
      BY <2>2, StepCounts DEF StateUnlock, Budgets
    <3> QED
      BY <2>2, <3>1, OtherReports DEF StateUnlock, Grows
  <2>3. ASSUME NEW r \in Runs, CreateJob(r) \/ ReplacePod(r) \/ KillPod(r)
        PROVE  CountOK' /\ \A q \in Runs : ReportOK(q)'
    BY <2>3, JobReports, GotoReports
  <2>4. ASSUME NEW r \in Runs, Run(r) \/ ApprovalInDeletion(r)
        PROVE  CountOK' /\ \A q \in Runs : ReportOK(q)'
    BY <2>4, ReadReports, PlanReports, GotoReports, PlannedReports,
       LogsReports, AppliedReports, OutputsReports, DeleteReports DEF Run
  <2>5. ASSUME NEW r \in Runs, User(r)
        PROVE  CountOK' /\ \A q \in Runs : ReportOK(q)'
    BY <2>5, UserReports
  <2> QED
    BY <2>1, <2>2, <2>3, <2>4, <2>5 DEF Next
<1> QED
  BY <1>1, <1>2 DEF RInv

\* A Job deletes itself only after its Execution shows logs, the condition
\* Applied and a create's outputs, unless Tries conflicts made a tryUpdate
\* (pkg/executor/runner) give up: for any number of runs, pods and failures.
THEOREM ReportsComplete == Spec => []DeletedJobReported
<1>1. Init => RInv
  <2> SUFFICES ASSUME Init PROVE RInv
    OBVIOUS
  <2>1. IInv /\ budget["conflicts"] = MaxConflicts
    BY InitOK DEF Init, Budgets, Limit
  <2>2. CountOK
    BY <2>1, BoundsOK DEF CountOK, Conflicts
  <2>3. \A r \in Runs : pods[r].pc = "none" /\ job[r] = "absent"
    BY NoPodOK DEF Init
  <2> QED
    BY <2>1, <2>2, <2>3 DEF RInv, ReportOK, Pc
<1>2. RInv /\ [Next]_vars => RInv'
  BY NextReports
<1>3. RInv => DeletedJobReported
  BY DEF RInv, ReportOK, Reached, Conflicts, DeletedJobReported
<1> QED
  BY <1>1, <1>2, <1>3, PTL DEF Spec

=============================================================================
