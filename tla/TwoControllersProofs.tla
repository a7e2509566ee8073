------------------------ MODULE TwoControllersProofs ------------------------
(***************************************************************************)
(* The safety properties of TwoControllers, for every value of the         *)
(* constants. StateControllerProofs shows what a step of one handler       *)
(* promises to others (StepPromise) and that a step which keeps such a     *)
(* promise keeps the handler's own invariant (OthersStep). Here both are   *)
(* used for each of the two processes.                                     *)
(***************************************************************************)
EXTENDS TwoControllers, TLAPS

\* The two processes as handlers StateControllerProofs is about
P1 == INSTANCE StateControllerProofs WITH
    cache <- cache1, queue <- queue1, events <- events1, pc <- pc1,
    orig <- orig1, shared <- shared1, obj <- obj1, input <- input1,
    hash <- hash1, run <- run1, err <- err1

P2 == INSTANCE StateControllerProofs WITH
    cache <- cache2, queue <- queue2, events <- events2, pc <- pc2,
    orig <- orig2, shared <- shared2, obj <- obj2, input <- input2,
    hash <- hash2, run <- run2, err <- err2

-----------------------------------------------------------------------------
(* First and P1, Second and P2 have the same steps: their definitions are    *)
(* the same, reached by two instances.                                      *)

LEMMA FirstSync == First!Sync => P1!Next
<1>1. First!Sync => P1!Sync
  BY DEF First!Sync, P1!Sync, First!StartSync, P1!StartSync,
         First!GatherModule, P1!GatherModule, First!GatherVariables,
         P1!GatherVariables, First!GatherFails, P1!GatherFails,
         First!CheckRunFails, P1!CheckRunFails, First!NoticeCompletion,
         P1!NoticeCompletion, First!SaveCompletion, P1!SaveCompletion,
         First!CompareHash, P1!CompareHash, First!Lock, P1!Lock,
         First!CreateExecution, P1!CreateExecution, First!CreateExecutionFails,
         P1!CreateExecutionFails, First!DeployStep, P1!DeployStep,
         First!DeployFails, P1!DeployFails, First!RecordRun, P1!RecordRun,
         First!RemoveDone, P1!RemoveDone, First!RemoveWaits, P1!RemoveWaits,
         First!StartDestroy, P1!StartDestroy, First!LockDestroy,
         P1!LockDestroy, First!RecordDestroy, P1!RecordDestroy,
         First!RemoveFinalizer, P1!RemoveFinalizer, First!AddFinalizer,
         P1!AddFinalizer, First!EndSync, P1!EndSync, First!stored, P1!stored,
         First!Names, P1!Names, First!Bump, P1!Bump, First!Normal, P1!Normal,
         First!NoHash, P1!NoHash, First!RunHash, P1!RunHash, First!NoState,
         P1!NoState, First!Stages, P1!Stages, First!NoExecution,
         P1!NoExecution, First!NoInput, P1!NoInput, First!Spend, P1!Spend,
         First!CanWrite, P1!CanWrite, First!Stored, P1!Stored, First!Updated,
         P1!Updated, First!UpdateFails, P1!UpdateFails, First!Found, P1!Found,
         First!ResetLocal, P1!ResetLocal, First!Return, P1!Return,
         First!Running, P1!Running, First!Assign, P1!Assign, First!RunApplied,
         P1!RunApplied, First!ClearJobDeployed, P1!ClearJobDeployed,
         First!Created, P1!Created, First!Stage, P1!Stage, First!Refused,
         P1!Refused, First!Recorded, P1!Recorded
<1> QED
  BY <1>1 DEF P1!Next

LEMMA FirstOthers ==
    First!InformerSync \/ First!ExecutionOnChange \/ First!RelatedResource
    \/ First!Crash \/ First!User \/ First!ExecutorReports \/ First!TouchExecution
    => P1!Next
<1>1. /\ First!InformerSync => P1!InformerSync
      /\ First!ExecutionOnChange => P1!ExecutionOnChange
      /\ First!RelatedResource => P1!RelatedResource
      /\ First!Crash => P1!Crash
      /\ First!User => P1!User
      /\ First!ExecutorReports => P1!ExecutorReports
      /\ First!TouchExecution => P1!TouchExecution
  BY DEF First!InformerSync, P1!InformerSync, First!ExecutionOnChange,
         P1!ExecutionOnChange, First!RelatedResource, P1!RelatedResource,
         First!Crash, P1!Crash, First!User, P1!User, First!EditSpec,
         P1!EditSpec, First!RunState, P1!RunState, First!DeleteState,
         P1!DeleteState, First!ChangeModule, P1!ChangeModule,
         First!ChangeVariables, P1!ChangeVariables, First!ExecutorReports,
         P1!ExecutorReports, First!TouchExecution, P1!TouchExecution,
         First!stored, P1!stored, First!local, P1!local, First!Names, P1!Names,
         First!Bump, P1!Bump, First!NoHash, P1!NoHash, First!NoState,
         P1!NoState, First!NoInput, P1!NoInput, First!Spend, P1!Spend,
         First!ResetLocal, P1!ResetLocal, First!Touch, P1!Touch, First!Rerun,
         P1!Rerun, First!JobStage, P1!JobStage
<1> QED
  BY <1>1 DEF P1!Next

LEMMA SecondSync == Second!Sync => P2!Next
<1>1. Second!Sync => P2!Sync
  BY DEF Second!Sync, P2!Sync, Second!StartSync, P2!StartSync,
         Second!GatherModule, P2!GatherModule, Second!GatherVariables,
         P2!GatherVariables, Second!GatherFails, P2!GatherFails,
         Second!CheckRunFails, P2!CheckRunFails, Second!NoticeCompletion,
         P2!NoticeCompletion, Second!SaveCompletion, P2!SaveCompletion,
         Second!CompareHash, P2!CompareHash, Second!Lock, P2!Lock,
         Second!CreateExecution, P2!CreateExecution,
         Second!CreateExecutionFails, P2!CreateExecutionFails,
         Second!DeployStep, P2!DeployStep, Second!DeployFails, P2!DeployFails,
         Second!RecordRun, P2!RecordRun, Second!RemoveDone, P2!RemoveDone,
         Second!RemoveWaits, P2!RemoveWaits, Second!StartDestroy,
         P2!StartDestroy, Second!LockDestroy, P2!LockDestroy,
         Second!RecordDestroy, P2!RecordDestroy, Second!RemoveFinalizer,
         P2!RemoveFinalizer, Second!AddFinalizer, P2!AddFinalizer,
         Second!EndSync, P2!EndSync, Second!stored, P2!stored, Second!Names,
         P2!Names, Second!Bump, P2!Bump, Second!Normal, P2!Normal,
         Second!NoHash, P2!NoHash, Second!RunHash, P2!RunHash, Second!NoState,
         P2!NoState, Second!Stages, P2!Stages, Second!NoExecution,
         P2!NoExecution, Second!NoInput, P2!NoInput, Second!Spend, P2!Spend,
         Second!CanWrite, P2!CanWrite, Second!Stored, P2!Stored,
         Second!Updated, P2!Updated, Second!UpdateFails, P2!UpdateFails,
         Second!Found, P2!Found, Second!ResetLocal, P2!ResetLocal,
         Second!Return, P2!Return, Second!Running, P2!Running, Second!Assign,
         P2!Assign, Second!RunApplied, P2!RunApplied, Second!ClearJobDeployed,
         P2!ClearJobDeployed, Second!Created, P2!Created, Second!Stage,
         P2!Stage, Second!Refused, P2!Refused, Second!Recorded, P2!Recorded
<1> QED
  BY <1>1 DEF P2!Next

LEMMA SecondOthers ==
    Second!InformerSync \/ Second!ExecutionOnChange \/ Second!RelatedResource
    \/ Second!Crash \/ Second!User \/ Second!ExecutorReports \/ Second!TouchExecution
    => P2!Next
<1>1. /\ Second!InformerSync => P2!InformerSync
      /\ Second!ExecutionOnChange => P2!ExecutionOnChange
      /\ Second!RelatedResource => P2!RelatedResource
      /\ Second!Crash => P2!Crash
      /\ Second!User => P2!User
      /\ Second!ExecutorReports => P2!ExecutorReports
      /\ Second!TouchExecution => P2!TouchExecution
  BY DEF Second!InformerSync, P2!InformerSync, Second!ExecutionOnChange,
         P2!ExecutionOnChange, Second!RelatedResource, P2!RelatedResource,
         Second!Crash, P2!Crash, Second!User, P2!User, Second!EditSpec,
         P2!EditSpec, Second!RunState, P2!RunState, Second!DeleteState,
         P2!DeleteState, Second!ChangeModule, P2!ChangeModule,
         Second!ChangeVariables, P2!ChangeVariables, Second!ExecutorReports,
         P2!ExecutorReports, Second!TouchExecution, P2!TouchExecution,
         Second!stored, P2!stored, Second!local, P2!local, Second!Names,
         P2!Names, Second!Bump, P2!Bump, Second!NoHash, P2!NoHash,
         Second!NoState, P2!NoState, Second!NoInput, P2!NoInput, Second!Spend,
         P2!Spend, Second!ResetLocal, P2!ResetLocal, Second!Touch, P2!Touch,
         Second!Rerun, P2!Rerun, Second!JobStage, P2!JobStage
<1> QED
  BY <1>1 DEF P2!Next

-----------------------------------------------------------------------------
(* What is known of each process *)

LEMMA FirstStep == P1!HInv /\ [P1!Next]_P1!vars => P1!HInv'
BY ConstantsOK, P1!StepHInv

LEMMA FirstPromise == P1!HInv /\ [P1!Next]_P1!vars => P1!Promise
BY ConstantsOK, P1!StepPromise

LEMMA SecondStep == P2!HInv /\ [P2!Next]_P2!vars => P2!HInv'
BY ConstantsOK, P2!StepHInv

LEMMA SecondPromise == P2!HInv /\ [P2!Next]_P2!vars => P2!Promise
BY ConstantsOK, P2!StepPromise

-----------------------------------------------------------------------------
(* The inductive invariant *)

\* The processes never deploy the same Execution.
Apart == pc1 = "deploy" /\ pc2 = "deploy" /\ run1 # 0 => run1 # run2

BothInv == P1!HInv /\ P2!HInv /\ Apart

-----------------------------------------------------------------------------
(* Steps *)

\* A step of the first process leaves the deployment of the other alone.
LEMMA FirstLeaves ==
    ASSUME BothInv, [P1!Next]_P1!vars, pc2 = "deploy", run2 # 0
    PROVE  /\ execs'[run2].stage = execs[run2].stage
           /\ execs'[run2].hash = execs[run2].hash
<1>1. P1!TypeOK /\ P1!DeployOK
  BY DEF BothInv, P1!HInv, P1!IInv
<1>2. run2 \in P1!Names /\ execs[run2].stage # 0
  BY DEF BothInv, P2!HInv, P2!IInv, P2!TypeOK, P2!DeployOK, P2!Stages,
         P1!Names, P2!Names
<1>3. ~(pc1 = "deploy" /\ run2 = run1)
  BY DEF BothInv, Apart
<1> QED
  BY <1>1, <1>2, <1>3, ConstantsOK, P1!DeploymentChange

\* A run the first process begins to deploy is not the other's.
LEMMA FirstTakes ==
    ASSUME BothInv, [P1!Next]_P1!vars, UNCHANGED <<pc2, run2>>
    PROVE  Apart'
<1> SUFFICES ASSUME pc1' = "deploy", pc2 = "deploy", run1' # 0, run1' = run2
             PROVE  FALSE
  BY DEF Apart
<1>1. P1!TypeOK /\ P1!DeployOK
  BY DEF BothInv, P1!HInv, P1!IInv
<1>2. execs[run2].stage # 0
  BY DEF BothInv, P2!HInv, P2!IInv, P2!DeployOK, P2!Stages
<1>3. pc1 = "deploy" /\ run1' = run1
  BY <1>1, <1>2, ConstantsOK, P1!RunTaken
<1> QED
  BY <1>3 DEF BothInv, Apart

\* A step of the second process leaves the deployment of the other alone.
LEMMA SecondLeaves ==
    ASSUME BothInv, [P2!Next]_P2!vars, pc1 = "deploy", run1 # 0
    PROVE  /\ execs'[run1].stage = execs[run1].stage
           /\ execs'[run1].hash = execs[run1].hash
<1>1. P2!TypeOK /\ P2!DeployOK
  BY DEF BothInv, P2!HInv, P2!IInv
<1>2. run1 \in P2!Names /\ execs[run1].stage # 0
  BY DEF BothInv, P1!HInv, P1!IInv, P1!TypeOK, P1!DeployOK, P1!Stages,
         P2!Names, P1!Names
<1>3. ~(pc2 = "deploy" /\ run1 = run2)
  BY DEF BothInv, Apart
<1> QED
  BY <1>1, <1>2, <1>3, ConstantsOK, P2!DeploymentChange

\* A run the second process begins to deploy is not the other's.
LEMMA SecondTakes ==
    ASSUME BothInv, [P2!Next]_P2!vars, UNCHANGED <<pc1, run1>>
    PROVE  Apart'
<1> SUFFICES ASSUME pc2' = "deploy", pc1 = "deploy", run2' # 0, run2' = run1
             PROVE  FALSE
  BY DEF Apart
<1>1. P2!TypeOK /\ P2!DeployOK
  BY DEF BothInv, P2!HInv, P2!IInv
<1>2. execs[run1].stage # 0
  BY DEF BothInv, P1!HInv, P1!IInv, P1!DeployOK, P1!Stages
<1>3. pc2 = "deploy" /\ run2' = run2
  BY <1>1, <1>2, ConstantsOK, P2!RunTaken
<1> QED
  BY <1>3 DEF BothInv, Apart

\* The promise is about the objects both share.
LEMMA SamePromise == P1!Promise <=> P2!Promise
BY DEF P1!Promise, P2!Promise, P1!StateObjects, P2!StateObjects,
       P1!Executions, P2!Executions, P1!Hashes, P2!Hashes, P1!Versions,
       P2!Versions, P1!Actions, P2!Actions, P1!Budgets, P2!Budgets, P1!Names,
       P2!Names, P1!Stages, P2!Stages, P1!NoHash, P2!NoHash, P1!LaterTracked,
       P2!LaterTracked, P1!ExecutionsOK, P2!ExecutionsOK, P1!RunsKept,
       P2!RunsKept

\* A step of the first process alone keeps the invariant.
LEMMA FirstAlone ==
    ASSUME BothInv, P1!Next,
           events2' = IF Announced THEN events2 \cup {"execution"} ELSE events2,
           UNCHANGED <<cache2, queue2, pc2, orig2, shared2, obj2, input2,
                       hash2, run2, err2>>
    PROVE  BothInv'
<1>1. P1!HInv' /\ P1!Promise
  BY FirstStep, FirstPromise DEF BothInv
<1>2. P2!Promise
  BY <1>1, SamePromise
<1>3. events2' \in SUBSET {"execution", "input"}
  BY DEF BothInv, P2!HInv, P2!IInv, P2!TypeOK
<1>4. P2!HInv'
  BY <1>2, <1>3, FirstLeaves, ConstantsOK, P2!OthersStep DEF BothInv
<1> QED
  BY <1>1, <1>4, FirstTakes DEF BothInv

\* A step of the second process alone keeps the invariant.
LEMMA SecondAlone ==
    ASSUME BothInv, P2!Next,
           events1' = IF Announced THEN events1 \cup {"execution"} ELSE events1,
           UNCHANGED <<cache1, queue1, pc1, orig1, shared1, obj1, input1,
                       hash1, run1, err1>>
    PROVE  BothInv'
<1>1. P2!HInv' /\ P2!Promise
  BY SecondStep, SecondPromise DEF BothInv
<1>2. P1!Promise
  BY <1>1, SamePromise
<1>3. events1' \in SUBSET {"execution", "input"}
  BY DEF BothInv, P1!HInv, P1!IInv, P1!TypeOK
<1>4. P1!HInv'
  BY <1>2, <1>3, SecondLeaves, ConstantsOK, P1!OthersStep DEF BothInv
<1> QED
  BY <1>1, <1>4, SecondTakes DEF BothInv

\* Every step is one of the first process alone, of the second alone, or one
\* that both are told of.
Alone1 ==
    /\ P1!Next
    /\ events2' = IF Announced THEN events2 \cup {"execution"} ELSE events2
    /\ UNCHANGED <<cache2, queue2, pc2, orig2, shared2, obj2, input2, hash2,
                   run2, err2>>

Alone2 ==
    /\ P2!Next
    /\ events1' = IF Announced THEN events1 \cup {"execution"} ELSE events1
    /\ UNCHANGED <<cache1, queue1, pc1, orig1, shared1, obj1, input1, hash1,
                   run1, err1>>

Both == P1!Next /\ P2!Next /\ UNCHANGED <<pc1, run1, pc2, run2>>

LEMMA Steps == Next => Alone1 \/ Alone2 \/ Both
<1>1. FirstSteps => Alone1
  BY FirstSync, FirstOthers DEF FirstSteps, Alone1, First!Sync
<1>2. SecondSteps => Alone2
  BY SecondSync, SecondOthers DEF SecondSteps, Alone2
<1>3. UserActs => Both
  <2>1. First!User => UNCHANGED <<pc1, run1>>
    BY DEF First!User, First!EditSpec, First!RunState, First!DeleteState,
           First!ChangeModule, First!ChangeVariables, First!local
  <2>2. Second!User => UNCHANGED <<pc2, run2>>
    BY DEF Second!User, Second!EditSpec, Second!RunState, Second!DeleteState,
           Second!ChangeModule, Second!ChangeVariables, Second!local
  <2> QED
    BY <2>1, <2>2, FirstOthers, SecondOthers DEF UserActs, Both
<1>4. ExecutionChanges => Both
  <2>1. First!ExecutorReports \/ First!TouchExecution => UNCHANGED <<pc1, run1>>
    BY DEF First!ExecutorReports, First!TouchExecution, First!local
  <2>2. Second!ExecutorReports \/ Second!TouchExecution => UNCHANGED <<pc2, run2>>
    BY DEF Second!ExecutorReports, Second!TouchExecution, Second!local
  <2> QED
    BY <2>1, <2>2, FirstOthers, SecondOthers DEF ExecutionChanges, Both
<1> QED
  BY <1>1, <1>2, <1>3, <1>4 DEF Next

LEMMA StepBothInv == BothInv /\ [Next]_vars => BothInv'
<1> SUFFICES ASSUME BothInv, [Next]_vars PROVE BothInv'
  OBVIOUS
<1>1. CASE Alone1
  BY <1>1, FirstAlone DEF Alone1
<1>2. CASE Alone2
  BY <1>2, SecondAlone DEF Alone2
<1>3. CASE Both
  BY <1>3, FirstStep, SecondStep DEF Both, BothInv, Apart
<1>4. CASE UNCHANGED vars
  <2>1. P1!HInv'
    BY <1>4, FirstStep DEF BothInv, vars, stored, process1, P1!vars
  <2>2. P2!HInv'
    BY <1>4, SecondStep DEF BothInv, vars, stored, process2, P2!vars
  <2>3. Apart'
    BY <1>4 DEF BothInv, Apart, vars, process1, process2
  <2> QED
    BY <2>1, <2>2, <2>3 DEF BothInv
<1> QED
  BY <1>1, <1>2, <1>3, <1>4, Steps

LEMMA InitBothInv == Init => BothInv
<1> SUFFICES ASSUME Init PROVE BothInv
  OBVIOUS
<1>1. P1!Init
  BY DEF Init, First!Init, P1!Init, First!NoState, P1!NoState, First!NoExecution,
         P1!NoExecution, First!NoInput, P1!NoInput, First!NoHash, P1!NoHash,
         First!Names, P1!Names, First!Budgets, P1!Budgets, First!Limit,
         P1!Limit
<1>2. P2!Init
  BY DEF Init, Second!Init, P2!Init, Second!NoState, P2!NoState, Second!NoExecution,
         P2!NoExecution, Second!NoInput, P2!NoInput, Second!NoHash, P2!NoHash,
         Second!Names, P2!Names, Second!Budgets, P2!Budgets, Second!Limit,
         P2!Limit
<1>3. P1!HInv /\ P2!HInv
  BY <1>1, <1>2, ConstantsOK, P1!InitHInv, P2!InitHInv
<1>4. Apart
  BY <1>1 DEF Apart, P1!Init
<1> QED
  BY <1>3, <1>4 DEF BothInv

-----------------------------------------------------------------------------
(* Theorems *)

THEOREM BothInvariance == Spec => []BothInv
BY InitBothInv, StepBothInv, PTL DEF Spec

\* Two controllers that deploy the same run, conflict and overtake each other
\* never leave a status that mixes two runs.
THEOREM StatusAgreed == Spec => []OneRunRecorded
<1>1. BothInv => OneRunRecorded
  BY DEF BothInv, P1!HInv, P1!IInv, P1!CopiesTracked, P1!Tracked, P1!Stages,
         OneRunRecorded, First!StatusNamesItsRun, First!Tracked, First!Stages
<1> QED
  BY <1>1, BothInvariance, PTL

\* Neither controller lets a State go that is still to be destroyed, although
\* the other may deploy while this one removes the finalizer.
THEOREM RemovalSound == Spec => RemovalAgreed
<1>1. BothInv /\ [Next]_vars =>
        [st.present /\ st.finalizer /\ ~st'.present =>
           \/ ~st.destroyOnDelete
           \/ /\ st.jobDeployed
              /\ st.executionName # 0
              /\ execs[st.executionName].applied]_First!vars
  <2> SUFFICES ASSUME BothInv, [Next]_vars, st.present, st.finalizer,
                      ~st'.present, st.destroyOnDelete
               PROVE  /\ st.jobDeployed
                      /\ st.executionName # 0
                      /\ execs[st.executionName].applied
    OBVIOUS
  <2>1. st' # st
    OBVIOUS
  <2>2. CASE P1!Next
    BY <2>2, ConstantsOK, P1!StepRemoval DEF BothInv, P1!HInv, P1!IInv
  <2>3. CASE P2!Next
    BY <2>3, ConstantsOK, P2!StepRemoval DEF BothInv, P2!HInv, P2!IInv
  <2> QED
    BY <2>1, <2>2, <2>3, Steps DEF Alone1, Alone2, Both, vars, stored
<1> QED
  BY <1>1, BothInvariance, PTL DEF Spec, RemovalAgreed, First!RemovalJustified

\* No Update of either controller undoes what a user has edited.
THEOREM EditsKept == Spec => EditsSurvive
<1>1. BothInv /\ [Next]_vars =>
        [budget'["edits"] = budget["edits"] =>
           /\ st'.destroyOnDelete = st.destroyOnDelete
           /\ st'.deleting = st.deleting
           /\ st'.version \in {st.version, First!Normal(st.version)}]_First!vars
  <2> SUFFICES ASSUME BothInv, [Next]_vars, budget'["edits"] = budget["edits"]
               PROVE  /\ st'.destroyOnDelete = st.destroyOnDelete
                      /\ st'.deleting = st.deleting
                      /\ st'.version \in {st.version, First!Normal(st.version)}
    OBVIOUS
  <2>1. CASE st' = st
    BY <2>1
  <2>2. CASE P1!Next
    BY <2>2, ConstantsOK, P1!StepEdits
       DEF BothInv, P1!HInv, P1!IInv, P1!Normal, First!Normal
  <2>3. CASE P2!Next
    BY <2>3, ConstantsOK, P2!StepEdits
       DEF BothInv, P2!HInv, P2!IInv, P2!Normal, First!Normal
  <2> QED
    BY <2>1, <2>2, <2>3, Steps DEF Alone1, Alone2, Both, vars, stored
<1> QED
  BY <1>1, BothInvariance, PTL DEF Spec, EditsSurvive, First!SpecEditsKept

=============================================================================
