------------------------ MODULE StateControllerProofs ------------------------
(***************************************************************************)
(* Theorems about StateController, for every value of its constants.       *)
(***************************************************************************)
EXTENDS StateController, TLAPS

-----------------------------------------------------------------------------
(* Types of the values the actions write *)

LEMMA VersionTypes ==
    /\ 0 \in Versions
    /\ \A v \in Versions : Bump(v) \in Versions /\ Normal(v) \in Versions
BY ConstantsOK DEF Versions, Bump, Normal

LEMMA NoHashType == NoHash \in Hashes
BY VersionTypes DEF NoHash, Hashes

LEMMA NoStateType == NoState \in StateObjects
BY VersionTypes, NoHashType DEF NoState, StateObjects

LEMMA NoExecutionType == NoExecution \in Executions
BY NoHashType DEF NoExecution, Executions, Stages

LEMMA NoInputType == NoInput \in Inputs
BY DEF NoInput, Inputs

LEMMA RunHashType ==
    ASSUME NEW o \in StateObjects, NEW in \in Inputs, NEW a \in Actions
    PROVE  RunHash(o, in, a) \in Hashes
BY DEF RunHash, Hashes, Inputs, StateObjects

LEMMA EmptyNotRun ==
    ASSUME NEW o, NEW in, NEW a \in Actions
    PROVE  RunHash(o, in, a) # NoHash
BY DEF RunHash, NoHash, Actions

LEMMA StoredType ==
    ASSUME st \in StateObjects, NEW o \in StateObjects
    PROVE  Stored(o) \in StateObjects
<1> DEFINE kept == ~(o.deleting /\ ~o.finalizer)
           new == [o EXCEPT !.present = kept, !.rv = st.rv]
           next == [new EXCEPT !.rv = st.rv + 1]
<1>1. kept \in BOOLEAN
  OBVIOUS
<1>2. st.rv \in Nat
  BY DEF StateObjects
<1> HIDE DEF kept
<1>3. new \in StateObjects
  BY <1>1, <1>2 DEF StateObjects
<1>4. st.rv + 1 \in Nat
  BY <1>2
<1> HIDE DEF new
<1>5. next \in StateObjects
  BY <1>3, <1>4 DEF StateObjects
<1>6. Stored(o) = IF new = st THEN st ELSE next
  BY DEF Stored, new, kept
<1> QED
  BY <1>5, <1>6

LEMMA SpendType ==
    ASSUME budget \in [Budgets -> Nat], NEW b \in Budgets, Spend(b)
    PROVE  budget' \in [Budgets -> Nat]
BY DEF Spend, Budgets

\* What users write is a State.
LEMMA TouchType ==
    ASSUME NEW o \in StateObjects, Touch(o)
    PROVE  st' \in StateObjects
<1>1. o.rv + 1 \in Nat
  BY DEF StateObjects
<1> QED
  BY <1>1 DEF Touch, StateObjects

LEMMA RerunType ==
    ASSUME NEW o \in StateObjects
    PROVE  Rerun(o) \in StateObjects
<1>1. Bump(o.version) \in Versions
  BY VersionTypes DEF StateObjects
<1> QED
  BY <1>1, NoHashType DEF Rerun, StateObjects

\* Whatever becomes of an Update, the State and the budget keep their types.
LEMMA WriteType ==
    ASSUME st \in StateObjects, budget \in [Budgets -> Nat],
           NEW o \in StateObjects, Updated(o) \/ UpdateFails(o)
    PROVE  st' \in StateObjects /\ budget' \in [Budgets -> Nat]
BY StoredType, SpendType DEF Updated, UpdateFails, Budgets

-----------------------------------------------------------------------------
(* The inductive invariant *)

\* A deployment in progress has made its Execution for the handler's runHash,
\* lacks a write while the handler deploys, and lacks none when it records.
DeployOK ==
    /\ run # 0 => pc \in {"deploy", "record", "finish"}
    /\ pc \in {"lock", "deploy", "record"} => hash # NoHash
    /\ pc = "deploy" /\ run # 0 => /\ execs[run].stage \in 1..(Len(Stages) - 1)
                                  /\ execs[run].hash = hash
    /\ pc = "record" => /\ run # 0
                       /\ execs[run].stage = Len(Stages)
                       /\ execs[run].hash = hash

\* No Execution is made for the empty hash.
ExecutionsOK ==
    \A n \in Names : execs[n].stage # 0 => execs[n].hash # NoHash

\* StatusNamesItsRun is true of every copy of the State, however old: what
\* one copy's status names was deployed in full and stays so.
CopiesTracked == Tracked(st) /\ Tracked(cache) /\ Tracked(orig) /\ Tracked(obj)

IInv == TypeOK /\ DeployOK /\ ExecutionsOK /\ CopiesTracked

-----------------------------------------------------------------------------
(* Type correctness *)

LEMMA ResetTypes ==
    ASSUME ResetLocal
    PROVE  /\ pc' \in Steps /\ orig' \in StateObjects /\ shared' \in BOOLEAN
           /\ obj' \in StateObjects /\ input' \in Inputs /\ hash' \in Hashes
           /\ run' \in Names \cup {0} /\ err' \in BOOLEAN
BY NoStateType, NoInputType, NoHashType DEF ResetLocal, Steps

LEMMA AssignTypes ==
    ASSUME TypeOK, NEW o \in StateObjects, Assign(o)
    PROVE  obj' \in StateObjects /\ orig' \in StateObjects /\ cache' \in StateObjects
BY DEF Assign, TypeOK

\* A new Execution and a further write for one are Executions.
LEMMA ExecutionTypes ==
    ASSUME TypeOK, NEW n \in Names
    PROVE  /\ execs[n] \in Executions
           /\ [execs EXCEPT ![n] = [NoExecution EXCEPT
                  !.hash = hash, !.stage = 1, !.live = TRUE]] \in [Names -> Executions]
           /\ execs[n].stage # Len(Stages) =>
                  [execs EXCEPT ![n].stage = @ + 1] \in [Names -> Executions]
           /\ [execs EXCEPT ![n].live = FALSE] \in [Names -> Executions]
           /\ [execs EXCEPT ![n].touched = TRUE] \in [Names -> Executions]
           /\ [execs EXCEPT ![n].applied = TRUE] \in [Names -> Executions]
<1>1. execs[n] \in Executions
  BY DEF TypeOK
<1>2. Len(Stages) = 9
  BY DEF Stages
<1>3. /\ [NoExecution EXCEPT !.hash = hash, !.stage = 1, !.live = TRUE] \in Executions
      /\ [execs[n] EXCEPT !.live = FALSE] \in Executions
      /\ [execs[n] EXCEPT !.touched = TRUE] \in Executions
      /\ [execs[n] EXCEPT !.applied = TRUE] \in Executions
  <2>1. hash \in Hashes /\ 1 \in 0..Len(Stages)
    BY <1>2 DEF TypeOK
  <2> QED
    BY <1>1, <2>1, NoExecutionType DEF Executions
<1>4. ASSUME execs[n].stage # Len(Stages)
      PROVE  [execs[n] EXCEPT !.stage = @ + 1] \in Executions
  BY <1>1, <1>2, <1>4 DEF Executions
<1> QED
  BY <1>1, <1>3, <1>4 DEF TypeOK

THEOREM InitTypes == Init => TypeOK
<1> SUFFICES ASSUME Init PROVE TypeOK
  OBVIOUS
<1>1. st \in StateObjects
  <2>1. PICK i \in Images, d \in BOOLEAN :
          st = [NoState EXCEPT !.present = TRUE, !.rv = 1, !.image = i,
                               !.destroyOnDelete = d]
    BY DEF Init
  <2>2. i \in BOOLEAN
    BY ConstantsOK
  <2> QED
    BY <2>1, <2>2, NoStateType DEF StateObjects
<1>2. budget \in [Budgets -> Nat]
  BY ConstantsOK DEF Init, Budgets, Limit
<1>3. execs \in [Names -> Executions]
  BY NoExecutionType DEF Init
<1>4. /\ content \in Contents \cup {NoContent}
      /\ variables \in VariableSets \cup {NoVariables}
  BY DEF Init
<1>5. /\ cache \in StateObjects /\ orig \in StateObjects /\ obj \in StateObjects
      /\ input \in Inputs /\ hash \in Hashes
  BY NoStateType, NoInputType, NoHashType DEF Init
<1>6. /\ queue \in BOOLEAN /\ events \in SUBSET {"execution", "input"}
      /\ pc \in Steps /\ shared \in BOOLEAN /\ run \in Names \cup {0}
      /\ err \in BOOLEAN
  BY DEF Init, Steps
<1> QED
  BY <1>1, <1>2, <1>3, <1>4, <1>5, <1>6 DEF TypeOK

LEMMA StepTypes == TypeOK /\ DeployOK /\ [Next]_vars => TypeOK'
<1> SUFFICES ASSUME TypeOK, DeployOK, [Next]_vars PROVE TypeOK'
  OBVIOUS
<1> USE DEF TypeOK
<1>1. CASE UNCHANGED vars
  BY <1>1 DEF vars
<1>2. CASE InformerSync
  BY <1>2 DEF InformerSync, stored
<1>3. CASE ExecutionOnChange
  BY <1>3 DEF ExecutionOnChange, stored, local
<1>4. CASE RelatedResource
  BY <1>4 DEF RelatedResource, stored, local
<1>5. CASE StartSync
  BY <1>5 DEF StartSync, stored, Steps
<1>6. CASE GatherModule
  <2>1. input' \in Inputs
    <3>1. obj.image \in BOOLEAN
      BY DEF StateObjects
    <3> QED
      BY <1>6, <3>1, NoInputType DEF GatherModule, Inputs
  <2> QED
    BY <1>6, <2>1 DEF GatherModule, stored, Steps
<1>7. CASE GatherVariables
  BY <1>7 DEF GatherVariables, stored, Steps, Inputs
<1>8. CASE GatherFails
  BY <1>8, SpendType DEF GatherFails, Return, stored, Steps, Budgets
<1>9. CASE CheckRunFails
  BY <1>9, SpendType DEF CheckRunFails, Return, stored, Steps, Budgets
<1>10. CASE NoticeCompletion
  <2>1. ClearJobDeployed(obj) \in StateObjects
    BY DEF ClearJobDeployed, StateObjects
  <2> QED
    BY <1>10, <2>1, AssignTypes DEF NoticeCompletion, stored, Steps
<1>11. CASE SaveCompletion
  BY <1>11, WriteType DEF SaveCompletion, Return, Steps
<1>12. CASE CompareHash
  <2> DEFINE o == [obj EXCEPT !.version = Normal(@)]
             h == RunHash(o, input, "create")
  <2>1. o \in StateObjects
    BY VersionTypes DEF StateObjects
  <2>2. h \in Hashes
    BY <2>1, RunHashType DEF Actions
  <2>3. Assign(o)
    BY <1>12 DEF CompareHash
  <2>4. obj' \in StateObjects /\ orig' \in StateObjects /\ cache' \in StateObjects
    BY <2>1, <2>3, AssignTypes
  <2>5. \/ Return(FALSE) /\ UNCHANGED hash
        \/ hash' = h /\ pc' = "lock" /\ UNCHANGED err
    BY <1>12 DEF CompareHash
  <2> HIDE DEF o, h
  <2> QED
    BY <1>12, <2>2, <2>4, <2>5 DEF CompareHash, Return, stored, Steps
<1>13. CASE Lock
  <2>1. st' \in StateObjects /\ budget' \in [Budgets -> Nat]
    BY <1>13, WriteType DEF Lock
  <2>2. obj' \in StateObjects
    BY <1>13, <2>1 DEF Lock, StateObjects
  <2> QED
    BY <1>13, <2>1, <2>2 DEF Lock, Return, Steps
<1>14. CASE CreateExecution
  BY <1>14, ExecutionTypes DEF CreateExecution, Created
<1>15. CASE CreateExecutionFails
  BY <1>15, ExecutionTypes, SpendType
     DEF CreateExecutionFails, Created, Return, Steps, Budgets
<1>16. CASE DeployStep
  <2>1. run \in Names /\ execs[run].stage # Len(Stages)
    BY <1>16 DEF DeployStep, DeployOK, Stages
  <2> QED
    BY <1>16, <2>1, ExecutionTypes DEF DeployStep, Stage, Steps
<1>17. CASE DeployFails
  <2>1. run \in Names /\ execs[run].stage # Len(Stages)
    BY <1>17 DEF DeployFails, DeployOK, Stages
  <2> QED
    BY <1>17, <2>1, ExecutionTypes, SpendType
       DEF DeployFails, Return, Steps, Budgets
<1>18. CASE RecordRun
  <2>1. Recorded(obj) \in StateObjects
    BY DEF Recorded, StateObjects
  <2> QED
    BY <1>18, <2>1, WriteType DEF RecordRun, Return, Steps
<1>19. CASE RemoveDone
  BY <1>19 DEF RemoveDone, stored, Steps
<1>20. CASE RemoveWaits
  BY <1>20, SpendType DEF RemoveWaits, Return, stored, Steps, Budgets
<1>21. CASE StartDestroy
  <2>1. hash' \in Hashes
    BY <1>21, RunHashType DEF StartDestroy, Actions
  <2>2. [obj EXCEPT !.lastRunHash = hash'] \in StateObjects
    BY <2>1 DEF StateObjects
  <2> QED
    BY <1>21, <2>1, <2>2, AssignTypes DEF StartDestroy, stored, Steps
<1>22. CASE LockDestroy
  BY <1>22, WriteType DEF LockDestroy, Return, Steps
<1>23. CASE RecordDestroy
  <2>1. Recorded(obj) \in StateObjects
    BY DEF Recorded, StateObjects
  <2> QED
    BY <1>23, <2>1, WriteType DEF RecordDestroy, Return, Steps
<1>24. CASE RemoveFinalizer
  <2>1. [obj EXCEPT !.finalizer = FALSE] \in StateObjects
    BY DEF StateObjects
  <2> QED
    BY <1>24, <2>1, WriteType DEF RemoveFinalizer, Return, Steps
<1>25. CASE AddFinalizer
  <2>1. [obj EXCEPT !.finalizer = TRUE] \in StateObjects
    BY DEF StateObjects
  <2> QED
    BY <1>25, <2>1, WriteType, ResetTypes DEF AddFinalizer
<1>26. CASE EndSync
  BY <1>26, ResetTypes DEF EndSync, stored
<1>27. CASE Crash
  BY <1>27, ResetTypes, NoStateType, SpendType DEF Crash, stored, Budgets
<1>28. CASE EditSpec
  <2> DEFINE toggled == ~st.destroyOnDelete
  <2>0. toggled \in BOOLEAN
    OBVIOUS
  <2> HIDE DEF toggled
  <2>1. [st EXCEPT !.destroyOnDelete = toggled] \in StateObjects
    BY <2>0 DEF StateObjects
  <2>2. Touch([st EXCEPT !.destroyOnDelete = toggled])
    BY <1>28 DEF EditSpec, toggled
  <2> QED
    BY <1>28, <2>1, <2>2, TouchType, SpendType DEF EditSpec, local, Budgets
<1>29. CASE RunState
  <2>1. st' \in StateObjects
    BY <1>29, RerunType, TouchType DEF RunState
  <2> QED
    BY <1>29, <2>1, SpendType DEF RunState, local, Budgets
<1>30. CASE DeleteState
  <2>1. [Rerun(st) EXCEPT !.executionName = 0] \in StateObjects
    BY RerunType DEF StateObjects
  <2>2. [st EXCEPT !.deleting = TRUE, !.present = st.finalizer] \in StateObjects
    <3>1. st.finalizer \in BOOLEAN
      BY DEF StateObjects
    <3> QED
      BY <3>1 DEF StateObjects
  <2>3. st' \in StateObjects
    BY <1>30, <2>1, <2>2, TouchType DEF DeleteState
  <2> QED
    BY <1>30, <2>3, SpendType DEF DeleteState, local, Budgets
<1>31. CASE ChangeModule
  BY <1>31, SpendType DEF ChangeModule, local, Budgets
<1>32. CASE ChangeVariables
  BY <1>32, SpendType DEF ChangeVariables, local, Budgets
<1>33. CASE ExecutorReports
  BY <1>33, ExecutionTypes DEF ExecutorReports, local
<1>34. CASE TouchExecution
  BY <1>34, ExecutionTypes, SpendType DEF TouchExecution, local, Budgets
<1>35. CASE PruneExecution
  BY <1>35, ExecutionTypes, SpendType DEF PruneExecution, local, Budgets
<1> QED
  BY <1>1, <1>2, <1>3, <1>4, <1>5, <1>6, <1>7, <1>8, <1>9, <1>10, <1>11, <1>12,
     <1>13, <1>14, <1>15, <1>16, <1>17, <1>18, <1>19, <1>20, <1>21, <1>22,
     <1>23, <1>24, <1>25, <1>26, <1>27, <1>28, <1>29, <1>30, <1>31, <1>32,
     <1>33, <1>34, <1>35 DEF Next, Sync, User

-----------------------------------------------------------------------------
(* Deployments *)

\* What a step leaves of a deployment that is complete
RunsKept ==
    \A n \in Names :
        execs[n].stage = Len(Stages) => /\ execs'[n].stage = Len(Stages)
                                        /\ execs'[n].hash = execs[n].hash

\* A step that writes no Execution, or one field that is neither hash nor
\* stage of one Execution, keeps the deployments as they are.
SameDeployments ==
    \A n \in Names : /\ execs'[n].stage = execs[n].stage
                     /\ execs'[n].hash = execs[n].hash

LEMMA SameDeploymentsKept == SameDeployments => RunsKept
BY DEF SameDeployments, RunsKept

LEMMA FlagWrites ==
    ASSUME TypeOK, NEW n \in Names,
           \/ execs' = [execs EXCEPT ![n].live = FALSE]
           \/ execs' = [execs EXCEPT ![n].touched = TRUE]
           \/ execs' = [execs EXCEPT ![n].applied = TRUE]
    PROVE  SameDeployments
<1>1. execs[n] \in Executions
  BY DEF TypeOK
<1>2. execs'[n].stage = execs[n].stage /\ execs'[n].hash = execs[n].hash
  <2>1. \/ execs'[n] = [execs[n] EXCEPT !.live = FALSE]
        \/ execs'[n] = [execs[n] EXCEPT !.touched = TRUE]
        \/ execs'[n] = [execs[n] EXCEPT !.applied = TRUE]
    BY DEF TypeOK
  <2> QED
    BY <1>1, <2>1 DEF Executions
<1>3. \A m \in Names \ {n} : execs'[m] = execs[m]
  BY DEF TypeOK
<1> QED
  BY <1>2, <1>3 DEF SameDeployments

\* A new Execution takes a name no deployment has, and holds runHash.
LEMMA CreatedEffect ==
    ASSUME TypeOK, NEW n \in Names, Created(n)
    PROVE  /\ execs'[n].stage = 1 /\ execs'[n].hash = hash
           /\ \A m \in Names \ {n} : execs'[m] = execs[m]
           /\ RunsKept
<1>1. Len(Stages) = 9
  BY DEF Stages
<1>2. execs'[n] = [NoExecution EXCEPT !.hash = hash, !.stage = 1, !.live = TRUE]
  BY DEF Created, TypeOK
<1>3. execs'[n].stage = 1 /\ execs'[n].hash = hash
  BY <1>2 DEF NoExecution
<1>4. \A m \in Names \ {n} : execs'[m] = execs[m]
  BY DEF Created, TypeOK
<1>5. execs[n].stage = 0
  BY DEF Created
<1> QED
  BY <1>1, <1>3, <1>4, <1>5 DEF RunsKept

\* A further write touches only the deployment in progress.
LEMMA StageEffect ==
    ASSUME TypeOK, run \in Names, execs[run].stage # Len(Stages),
           execs' = [execs EXCEPT ![run].stage = @ + 1]
    PROVE  /\ execs'[run].stage = execs[run].stage + 1
           /\ execs'[run].hash = execs[run].hash
           /\ \A m \in Names \ {run} : execs'[m] = execs[m]
           /\ RunsKept
<1>1. execs[run] \in Executions
  BY DEF TypeOK
<1>2. execs'[run] = [execs[run] EXCEPT !.stage = @ + 1]
  BY DEF TypeOK
<1>3. /\ execs'[run].stage = execs[run].stage + 1
      /\ execs'[run].hash = execs[run].hash
  BY <1>1, <1>2 DEF Executions
<1>4. \A m \in Names \ {run} : execs'[m] = execs[m]
  BY DEF TypeOK
<1> QED
  BY <1>3, <1>4 DEF RunsKept

\* Only the steps that deploy write a hash or a stage.
LEMMA DeploymentSteps ==
    ASSUME TypeOK, [Next]_vars, ~CreateExecution, ~CreateExecutionFails,
           ~DeployStep, ~DeployFails
    PROVE  SameDeployments
<1>1. CASE UNCHANGED execs
  BY <1>1 DEF SameDeployments
<1>2. CASE ExecutorReports \/ TouchExecution \/ PruneExecution
  BY <1>2, FlagWrites DEF ExecutorReports, TouchExecution, PruneExecution
<1>3. CASE UNCHANGED vars
  BY <1>3, <1>1 DEF vars
<1>4. CASE InformerSync \/ ExecutionOnChange \/ RelatedResource \/ Crash
  BY <1>4, <1>1 DEF InformerSync, ExecutionOnChange, RelatedResource, Crash, stored
<1>5. CASE User
  BY <1>5, <1>1
     DEF User, EditSpec, RunState, DeleteState, ChangeModule, ChangeVariables
<1>6. CASE Sync
  BY <1>6, <1>1
     DEF Sync, StartSync, GatherModule, GatherVariables, GatherFails,
         CheckRunFails, NoticeCompletion, SaveCompletion, CompareHash, Lock,
         RecordRun, RemoveDone, RemoveWaits, StartDestroy, LockDestroy,
         RecordDestroy, RemoveFinalizer, AddFinalizer, EndSync, stored
<1> QED
  BY <1>2, <1>3, <1>4, <1>5, <1>6 DEF Next

LEMMA StepKeepsRuns == TypeOK /\ DeployOK /\ [Next]_vars => RunsKept
<1> SUFFICES ASSUME TypeOK, DeployOK, [Next]_vars PROVE RunsKept
  OBVIOUS
<1>1. CASE CreateExecution
  BY <1>1, CreatedEffect DEF CreateExecution
<1>2. CASE CreateExecutionFails
  <2>1. CASE UNCHANGED execs
    BY <2>1 DEF RunsKept
  <2> QED
    BY <1>2, <2>1, CreatedEffect DEF CreateExecutionFails
<1>3. CASE DeployStep
  <2>1. run \in Names /\ execs[run].stage # Len(Stages)
    BY <1>3 DEF DeployStep, DeployOK, Stages, TypeOK
  <2> QED
    BY <1>3, <2>1, StageEffect DEF DeployStep
<1>4. CASE DeployFails
  <2>1. run \in Names /\ execs[run].stage # Len(Stages)
    BY <1>4 DEF DeployFails, DeployOK, Stages, TypeOK
  <2>2. CASE UNCHANGED execs
    BY <2>2 DEF RunsKept
  <2> QED
    BY <1>4, <2>1, <2>2, StageEffect DEF DeployFails
<1> QED
  BY <1>1, <1>2, <1>3, <1>4, DeploymentSteps, SameDeploymentsKept

LEMMA StepExecutions == TypeOK /\ DeployOK /\ ExecutionsOK /\ [Next]_vars => ExecutionsOK'
<1> SUFFICES ASSUME TypeOK, DeployOK, ExecutionsOK, [Next]_vars PROVE ExecutionsOK'
  OBVIOUS
<1>1. ASSUME NEW n \in Names, Created(n), pc = "deploy"
      PROVE  ExecutionsOK'
  BY <1>1, CreatedEffect DEF ExecutionsOK, DeployOK
<1>2. ASSUME run \in Names, execs[run].stage \in 1..(Len(Stages) - 1),
             execs' = [execs EXCEPT ![run].stage = @ + 1]
      PROVE  ExecutionsOK'
  <2>1. execs[run].stage # Len(Stages) /\ execs[run].stage # 0
    BY <1>2 DEF Stages
  <2> QED
    BY <1>2, <2>1, StageEffect DEF ExecutionsOK
<1>3. CASE UNCHANGED execs
  BY <1>3 DEF ExecutionsOK
<1>4. CASE CreateExecution \/ CreateExecutionFails
  BY <1>1, <1>3, <1>4 DEF CreateExecution, CreateExecutionFails
<1>5. CASE DeployStep \/ DeployFails
  <2>1. run \in Names /\ execs[run].stage \in 1..(Len(Stages) - 1)
    BY <1>5 DEF DeployStep, DeployFails, DeployOK, TypeOK
  <2> QED
    BY <1>2, <1>3, <1>5, <2>1 DEF DeployStep, DeployFails
<1> QED
  <2>1. CASE SameDeployments
    BY <2>1 DEF SameDeployments, ExecutionsOK
  <2> QED
    BY <1>4, <1>5, <2>1, DeploymentSteps

\* The steps that leave the handler where it is in its deployment
LEMMA StepDeploy == TypeOK /\ DeployOK /\ [Next]_vars => DeployOK'
<1> SUFFICES ASSUME TypeOK, DeployOK, [Next]_vars PROVE DeployOK'
  OBVIOUS
<1>1. CASE CreateExecution
  <2>1. PICK n \in Names : Created(n) /\ run' = n
    BY <1>1 DEF CreateExecution
  <2>2. execs'[n].stage = 1 /\ execs'[n].hash = hash
    BY <2>1, CreatedEffect
  <2>3. pc' = "deploy" /\ hash' = hash
    BY <1>1 DEF CreateExecution
  <2> QED
    BY <1>1, <2>1, <2>2, <2>3 DEF CreateExecution, DeployOK, Stages
<1>2. CASE DeployStep
  <2>1. /\ run \in Names /\ execs[run].stage \in 1..(Len(Stages) - 1)
        /\ execs[run].hash = hash /\ hash # NoHash
    BY <1>2 DEF DeployStep, DeployOK, TypeOK
  <2>2. execs[run].stage # Len(Stages)
    BY <2>1 DEF Stages
  <2>3. execs'[run].stage = execs[run].stage + 1 /\ execs'[run].hash = hash
    BY <1>2, <2>1, <2>2, StageEffect DEF DeployStep
  <2>4. run' = run /\ hash' = hash
    BY <1>2 DEF DeployStep
  <2>5. CASE execs[run].stage + 1 = Len(Stages)
    BY <1>2, <2>1, <2>3, <2>4, <2>5 DEF DeployStep, DeployOK, Stage
  <2>6. CASE execs[run].stage + 1 # Len(Stages)
    <3>1. pc' = "deploy"
      BY <1>2, <2>6 DEF DeployStep, Stage
    <3>2. execs[run].stage + 1 \in 1..(Len(Stages) - 1)
      BY <2>1, <2>6 DEF Stages
    <3> QED
      BY <2>1, <2>3, <2>4, <3>1, <3>2 DEF DeployOK
  <2> QED
    BY <2>5, <2>6
<1>3. ASSUME pc' \notin {"lock", "deploy", "record"},
             run' # 0 => pc' = "finish"
      PROVE  DeployOK'
  BY <1>3 DEF DeployOK
<1>4. CASE CreateExecutionFails \/ DeployFails \/ RecordRun \/ RecordDestroy
  BY <1>3, <1>4
     DEF CreateExecutionFails, DeployFails, RecordRun, RecordDestroy, Return
<1>5. CASE CompareHash
  <2>1. run = 0 /\ run' = run
    BY <1>5 DEF CompareHash, DeployOK
  <2>2. CASE Return(FALSE)
    BY <1>3, <2>1, <2>2 DEF Return
  <2>3. CASE pc' = "lock" /\ hash' # NoHash
    BY <2>1, <2>3 DEF DeployOK
  <2> QED
    BY <1>5, <2>2, <2>3, EmptyNotRun DEF CompareHash, Actions
<1>6. CASE StartDestroy
  <2>1. run = 0 /\ run' = run /\ pc' = "lock"
    BY <1>6 DEF StartDestroy, DeployOK
  <2>2. hash' # NoHash
    BY <1>6, EmptyNotRun DEF StartDestroy, Actions
  <2> QED
    BY <2>1, <2>2 DEF DeployOK
<1>7. CASE Lock \/ LockDestroy
  BY <1>7 DEF Lock, LockDestroy, Return, DeployOK
<1>8. CASE StartSync \/ GatherModule \/ GatherVariables \/ GatherFails
  BY <1>3, <1>8
     DEF StartSync, GatherModule, GatherVariables, GatherFails, Return, DeployOK
<1>9. CASE CheckRunFails \/ NoticeCompletion \/ SaveCompletion
  BY <1>3, <1>9
     DEF CheckRunFails, NoticeCompletion, SaveCompletion, Return, DeployOK
<1>10. CASE RemoveDone \/ RemoveWaits \/ RemoveFinalizer
  BY <1>3, <1>10 DEF RemoveDone, RemoveWaits, RemoveFinalizer, Return, DeployOK
<1>11. CASE AddFinalizer \/ EndSync \/ Crash
  BY <1>3, <1>11 DEF AddFinalizer, EndSync, Crash, ResetLocal
<1>12. CASE UNCHANGED <<pc, run, hash>> /\ SameDeployments
  BY <1>12 DEF SameDeployments, DeployOK, TypeOK
<1>13. CASE InformerSync \/ ExecutionOnChange \/ RelatedResource
  <2>1. UNCHANGED <<pc, run, hash, execs>>
    BY <1>13 DEF InformerSync, ExecutionOnChange, RelatedResource, stored, local
  <2> QED
    BY <1>12, <2>1 DEF SameDeployments
<1>14. CASE User
  <2>1. UNCHANGED <<pc, run, hash, execs>>
    BY <1>14 DEF User, EditSpec, RunState, DeleteState, ChangeModule,
                 ChangeVariables, local
  <2> QED
    BY <1>12, <2>1 DEF SameDeployments
<1>15. CASE ExecutorReports \/ TouchExecution \/ PruneExecution
  <2>1. UNCHANGED <<pc, run, hash>>
    BY <1>15 DEF ExecutorReports, TouchExecution, PruneExecution, local
  <2>2. SameDeployments
    BY <1>15, FlagWrites DEF ExecutorReports, TouchExecution, PruneExecution
  <2> QED
    BY <1>12, <2>1, <2>2
<1>16. CASE UNCHANGED vars
  BY <1>12, <1>16 DEF vars, SameDeployments
<1> QED
  BY <1>1, <1>2, <1>4, <1>5, <1>6, <1>7, <1>8, <1>9, <1>10, <1>11, <1>13,
     <1>14, <1>15, <1>16 DEF Next, Sync

-----------------------------------------------------------------------------
(* The copies of the State *)

\* Tracked(o) after the step, for a value o that the step does not change
LaterTracked(o) ==
    o.jobDeployed =>
        /\ o.executionName # 0
        /\ execs'[o.executionName].stage = Len(Stages)
        /\ execs'[o.executionName].hash = o.lastRunHash

LEMMA TrackedKept ==
    ASSUME RunsKept, NEW o \in StateObjects, Tracked(o)
    PROVE  LaterTracked(o)
BY DEF RunsKept, Tracked, LaterTracked, StateObjects

\* Two values of the State whose status names the same run
SameRun(o, p) ==
    /\ p.jobDeployed = o.jobDeployed
    /\ p.executionName = o.executionName
    /\ p.lastRunHash = o.lastRunHash

LEMMA SameRunTracked ==
    ASSUME NEW o, NEW p, SameRun(o, p), LaterTracked(o)
    PROVE  LaterTracked(p)
BY DEF SameRun, LaterTracked

\* The assignments that leave the status of the State alone
LEMMA SpecWrites ==
    ASSUME NEW o \in StateObjects, NEW v
    PROVE  /\ SameRun(o, [o EXCEPT !.finalizer = v])
           /\ SameRun(o, [o EXCEPT !.image = v])
           /\ SameRun(o, [o EXCEPT !.version = v])
BY DEF SameRun, StateObjects

LEMMA StoredRun ==
    ASSUME NEW o \in StateObjects
    PROVE  Stored(o) = st \/ SameRun(o, Stored(o))
<1> DEFINE new == [o EXCEPT !.present = ~(o.deleting /\ ~o.finalizer),
                            !.rv = st.rv]
           next == [new EXCEPT !.rv = st.rv + 1]
<1>1. SameRun(o, next)
  BY DEF SameRun, StateObjects
<1>2. Stored(o) = IF new = st THEN st ELSE next
  BY DEF Stored
<1> QED
  BY <1>1, <1>2

\* Whatever becomes of an Update, what is stored names a complete run if what
\* was stored and what was sent do.
LEMMA WriteTracked ==
    ASSUME LaterTracked(st), NEW o \in StateObjects, LaterTracked(o),
           Updated(o) \/ UpdateFails(o)
    PROVE  LaterTracked(st')
<1>1. LaterTracked(Stored(o))
  BY StoredRun, SameRunTracked
<1>2. st' = st \/ st' = Stored(o)
  BY DEF Updated, UpdateFails
<1> QED
  BY <1>1, <1>2

LEMMA NoStateTracked == LaterTracked(NoState)
BY DEF LaterTracked, NoState

LEMMA ClearedTracked ==
    ASSUME NEW o \in StateObjects
    PROVE  /\ LaterTracked(ClearJobDeployed(o))
           /\ LaterTracked(Rerun(o))
           /\ LaterTracked([Rerun(o) EXCEPT !.executionName = 0])
BY DEF LaterTracked, ClearJobDeployed, Rerun, StateObjects

LEMMA StepCopies == IInv /\ [Next]_vars => CopiesTracked'
<1> SUFFICES ASSUME IInv, [Next]_vars PROVE CopiesTracked'
  OBVIOUS
<1> DEFINE Goal == /\ LaterTracked(st') /\ LaterTracked(cache')
                   /\ LaterTracked(orig') /\ LaterTracked(obj')
<1>a. TypeOK /\ DeployOK /\ ExecutionsOK /\ CopiesTracked
  BY DEF IInv
<1>b. /\ st \in StateObjects /\ cache \in StateObjects
      /\ orig \in StateObjects /\ obj \in StateObjects
  BY <1>a DEF TypeOK
<1>c. RunsKept
  BY <1>a, StepKeepsRuns
<1>d. /\ LaterTracked(st) /\ LaterTracked(cache)
      /\ LaterTracked(orig) /\ LaterTracked(obj)
  BY <1>a, <1>b, <1>c, TrackedKept DEF CopiesTracked
<1>e. SUFFICES Goal
  BY DEF CopiesTracked, Tracked, LaterTracked
<1>f. \A o \in StateObjects :
        LaterTracked(o) /\ (Updated(o) \/ UpdateFails(o)) => LaterTracked(st')
  BY <1>d, WriteTracked
<1>g. ASSUME NEW o, LaterTracked(o), Assign(o)
      PROVE  LaterTracked(cache') /\ LaterTracked(orig') /\ LaterTracked(obj')
  BY <1>d, <1>g DEF Assign
<1>h. ResetLocal => LaterTracked(orig') /\ LaterTracked(obj')
  BY NoStateTracked DEF ResetLocal
<1> HIDE DEF Goal
<1>1. CASE UNCHANGED <<st, cache, orig, obj>>
  BY <1>1, <1>d DEF Goal
<1>2. CASE UNCHANGED vars
  BY <1>1, <1>2 DEF vars
<1>3. CASE InformerSync
  BY <1>3, <1>d DEF InformerSync, stored, Goal
<1>4. CASE ExecutionOnChange \/ RelatedResource
  BY <1>1, <1>4 DEF ExecutionOnChange, RelatedResource, stored, local
<1>5. CASE StartSync
  BY <1>5, <1>d DEF StartSync, stored, Goal
<1>6. CASE GatherModule \/ GatherVariables \/ GatherFails \/ CheckRunFails
  BY <1>1, <1>6
     DEF GatherModule, GatherVariables, GatherFails, CheckRunFails, stored
<1>7. CASE NoticeCompletion
  <2>1. LaterTracked(ClearJobDeployed(obj))
    BY <1>b, ClearedTracked
  <2> QED
    BY <1>7, <1>d, <1>g, <2>1 DEF NoticeCompletion, stored, Goal
<1>8. CASE SaveCompletion
  BY <1>8, <1>b, <1>d, <1>f DEF SaveCompletion, Goal
<1>9. CASE CompareHash
  <2>1. LaterTracked([obj EXCEPT !.version = Normal(@)])
    BY <1>b, <1>d, SpecWrites, SameRunTracked
  <2> QED
    BY <1>9, <1>d, <1>g, <2>1 DEF CompareHash, stored, Goal
<1>10. CASE Lock
  <2>1. LaterTracked(st') /\ st' \in StateObjects
    BY <1>10, <1>a, <1>b, <1>d, <1>f, WriteType DEF Lock, TypeOK
  <2>2. LaterTracked([st' EXCEPT !.image = TRUE])
    BY <2>1, SpecWrites, SameRunTracked
  <2> QED
    BY <1>10, <1>d, <2>1, <2>2 DEF Lock, Goal
<1>11. CASE CreateExecution \/ CreateExecutionFails \/ DeployStep \/ DeployFails
  BY <1>1, <1>11 DEF CreateExecution, CreateExecutionFails, DeployStep, DeployFails
<1>12. ASSUME pc = "record"
       PROVE  LaterTracked(Recorded(obj)) /\ Recorded(obj) \in StateObjects
  <2>1. /\ run # 0 /\ run \in Names /\ execs[run].stage = Len(Stages)
        /\ execs[run].hash = hash /\ hash \in Hashes
    BY <1>12, <1>a DEF DeployOK, TypeOK
  <2>2. Recorded(obj) \in StateObjects
    BY <1>b, <2>1 DEF Recorded, StateObjects
  <2>3. Recorded(obj).executionName = run /\ Recorded(obj).lastRunHash = hash
    BY <1>b DEF Recorded, StateObjects
  <2> QED
    BY <1>c, <2>1, <2>2, <2>3 DEF LaterTracked, RunsKept
<1>13. CASE RecordRun
  BY <1>13, <1>12, <1>d, <1>f DEF RecordRun, Goal
<1>14. CASE RecordDestroy
  BY <1>14, <1>12, <1>d, <1>f DEF RecordDestroy, Goal
<1>15. CASE RemoveDone \/ RemoveWaits
  BY <1>1, <1>15 DEF RemoveDone, RemoveWaits, stored
<1>16. CASE StartDestroy
  <2>1. ~obj.jobDeployed
    <3>1. ASSUME obj.jobDeployed PROVE obj.lastRunHash # NoHash
      <4>1. /\ obj.executionName \in Names
            /\ execs[obj.executionName].stage = Len(Stages)
            /\ execs[obj.executionName].hash = obj.lastRunHash
        BY <3>1, <1>a, <1>b DEF CopiesTracked, Tracked, StateObjects
      <4>2. execs[obj.executionName].stage # 0
        BY <4>1 DEF Stages
      <4> QED
        BY <1>a, <4>1, <4>2 DEF ExecutionsOK
    <3> QED
      BY <1>16, <3>1 DEF StartDestroy, Running
  <2>2. LaterTracked([obj EXCEPT !.lastRunHash = hash'])
    BY <1>b, <2>1 DEF LaterTracked, StateObjects
  <2> QED
    BY <1>16, <1>d, <1>g, <2>2 DEF StartDestroy, stored, Goal
<1>17. CASE LockDestroy
  BY <1>17, <1>b, <1>d, <1>f DEF LockDestroy, Goal
<1>18. ASSUME NEW v \in BOOLEAN
       PROVE  /\ LaterTracked([obj EXCEPT !.finalizer = v])
              /\ [obj EXCEPT !.finalizer = v] \in StateObjects
  <2>1. LaterTracked([obj EXCEPT !.finalizer = v])
    BY <1>b, <1>d, SpecWrites, SameRunTracked
  <2>2. [obj EXCEPT !.finalizer = v] \in StateObjects
    BY <1>b DEF StateObjects
  <2> QED
    BY <2>1, <2>2
<1>19. CASE RemoveFinalizer
  BY <1>19, <1>18, <1>d, <1>f DEF RemoveFinalizer, Goal
<1>20. CASE AddFinalizer
  BY <1>20, <1>18, <1>d, <1>f, <1>h DEF AddFinalizer, Goal
<1>21. CASE EndSync
  BY <1>21, <1>d, <1>h DEF EndSync, stored, Goal
<1>22. CASE Crash
  BY <1>22, <1>d, <1>h, NoStateTracked DEF Crash, stored, Goal
<1>23. ASSUME NEW o \in StateObjects, LaterTracked(o), Touch(o)
       PROVE  LaterTracked(st')
  BY <1>23, SameRunTracked DEF Touch, SameRun, StateObjects
<1>24. CASE EditSpec
  <2>1. LaterTracked(st')
    <3> DEFINE toggled == ~st.destroyOnDelete
               o == [st EXCEPT !.destroyOnDelete = toggled]
    <3>1. Touch(o)
      BY <1>24 DEF EditSpec
    <3>2. toggled \in BOOLEAN
      OBVIOUS
    <3> HIDE DEF toggled
    <3>3. o \in StateObjects /\ SameRun(st, o)
      BY <1>b, <3>2 DEF StateObjects, SameRun
    <3> HIDE DEF o
    <3> QED
      BY <1>b, <1>d, <1>23, <3>1, <3>3, SameRunTracked
  <2> QED
    BY <1>24, <1>d, <2>1 DEF EditSpec, local, Goal
<1>25. CASE RunState
  BY <1>25, <1>b, <1>d, <1>23, ClearedTracked, RerunType DEF RunState, local, Goal
<1>26. CASE DeleteState
  <2>1. CASE st.deleting
    <3>1. [Rerun(st) EXCEPT !.executionName = 0] \in StateObjects
      BY <1>b, RerunType DEF StateObjects
    <3> QED
      BY <1>26, <2>1, <3>1, <1>b, <1>d, <1>23, ClearedTracked
         DEF DeleteState, local, Goal
  <2>2. CASE ~st.deleting
    <3> DEFINE o == [st EXCEPT !.deleting = TRUE, !.present = st.finalizer]
    <3>1. o \in StateObjects
      <4>1. st.finalizer \in BOOLEAN
        BY <1>b DEF StateObjects
      <4> QED
        BY <1>b, <4>1 DEF StateObjects
    <3>2. LaterTracked(o)
      BY <1>b, <1>d, SameRunTracked DEF SameRun, StateObjects
    <3>3. Touch(o)
      BY <1>26, <2>2 DEF DeleteState
    <3> QED
      BY <1>26, <3>1, <3>2, <3>3, <1>d, <1>23 DEF DeleteState, local, Goal
  <2> QED
    BY <2>1, <2>2
<1>27. CASE ChangeModule \/ ChangeVariables
  BY <1>1, <1>27 DEF ChangeModule, ChangeVariables, local
<1>28. CASE ExecutorReports \/ TouchExecution \/ PruneExecution
  BY <1>1, <1>28 DEF ExecutorReports, TouchExecution, PruneExecution, local
<1> QED
  BY <1>2, <1>3, <1>4, <1>5, <1>6, <1>7, <1>8, <1>9, <1>10, <1>11, <1>13, <1>14,
     <1>15, <1>16, <1>17, <1>19, <1>20, <1>21, <1>22, <1>24, <1>25, <1>26,
     <1>27, <1>28 DEF Next, Sync, User

-----------------------------------------------------------------------------
(* Theorems *)

LEMMA InitIInv == Init => IInv
<1> SUFFICES ASSUME Init PROVE IInv
  OBVIOUS
<1>1. DeployOK
  BY DEF Init, DeployOK
<1>2. ExecutionsOK
  BY DEF Init, ExecutionsOK, NoExecution
<1>3. CopiesTracked
  BY DEF Init, CopiesTracked, Tracked, NoState
<1> QED
  BY <1>1, <1>2, <1>3, InitTypes DEF IInv

LEMMA StepIInv == IInv /\ [Next]_vars => IInv'
BY StepTypes, StepDeploy, StepExecutions, StepCopies DEF IInv

\* The inductive invariant holds in every reachable state.
THEOREM Invariance == Spec => []IInv
BY InitIInv, StepIInv, PTL DEF Spec

\* Type correctness of the controller, for any number of Executions, users'
\* actions, faults and crashes.
THEOREM TypeCorrect == Spec => []TypeOK
BY Invariance, PTL DEF IInv

\* The status of a State never mixes two runs, nor names one that was not
\* deployed in full, whatever fails, crashes or is edited when.
THEOREM StatusCorrect == Spec => []StatusNamesItsRun
<1>1. IInv => StatusNamesItsRun
  BY DEF IInv, CopiesTracked, StatusNamesItsRun
<1> QED
  BY <1>1, Invariance, PTL

-----------------------------------------------------------------------------
(* Steps: what a step may never do to the State or to an Execution.         *)
(* First, the writes.                                                       *)

\* An accepted Update stores the object it was given, but for its
\* resourceVersion and for the removal with the last finalizer.
LEMMA StoredFields ==
    ASSUME NEW o \in StateObjects, st \in StateObjects
    PROVE  /\ Stored(o).destroyOnDelete = o.destroyOnDelete
           /\ Stored(o).deleting = o.deleting
           /\ Stored(o).version = o.version
           /\ Stored(o).lastRunHash = o.lastRunHash
           /\ Stored(o).jobDeployed = o.jobDeployed
           /\ Stored(o).executionName = o.executionName
           /\ Stored(o).finalizer = o.finalizer
           /\ Stored(o).present = ~(o.deleting /\ ~o.finalizer)
           /\ Stored(o) = st \/ Stored(o).rv = st.rv + 1
<1> DEFINE kept == ~(o.deleting /\ ~o.finalizer)
           new == [o EXCEPT !.present = kept, !.rv = st.rv]
           next == [new EXCEPT !.rv = st.rv + 1]
<1>1. Stored(o) = IF new = st THEN st ELSE next
  BY DEF Stored
<1> HIDE DEF kept
<1>2. /\ new.destroyOnDelete = o.destroyOnDelete /\ new.deleting = o.deleting
      /\ new.version = o.version /\ new.lastRunHash = o.lastRunHash
      /\ new.jobDeployed = o.jobDeployed /\ new.executionName = o.executionName
      /\ new.finalizer = o.finalizer
      /\ new.present = kept
  BY DEF StateObjects
<1>3. /\ next.destroyOnDelete = o.destroyOnDelete /\ next.deleting = o.deleting
      /\ next.version = o.version /\ next.lastRunHash = o.lastRunHash
      /\ next.jobDeployed = o.jobDeployed /\ next.executionName = o.executionName
      /\ next.finalizer = o.finalizer
      /\ next.present = kept /\ next.rv = st.rv + 1
  BY DEF StateObjects
<1> HIDE DEF new, next
<1>4. CASE new = st
  <2>1. Stored(o) = new
    BY <1>1, <1>4
  <2> QED
    BY <1>2, <1>4, <2>1 DEF kept
<1>5. CASE new # st
  <2>1. Stored(o) = next
    BY <1>1, <1>5
  <2> QED
    BY <1>3, <2>1 DEF kept
<1> QED
  BY <1>4, <1>5

\* The handler's Update of o, whatever its answer: o differs from obj only in
\* its finalizer, which is added to a State that is not deleted or dropped in
\* RemoveFinalizer, or by the status that records a run; nothing is written
\* while a deployment is under way.
HandlerWrote(o) ==
    /\ pc # "deploy" /\ UNCHANGED execs
    /\ CanWrite(o)
    /\ st' = Stored(o)
    /\ o.rv = obj.rv
    /\ o.destroyOnDelete = obj.destroyOnDelete
    /\ o.deleting = obj.deleting
    /\ o.version = obj.version
    /\ \/ o.finalizer = obj.finalizer
       \/ o.finalizer /\ ~obj.deleting
       \/ ~o.finalizer /\ pc = "unfinalize"
    /\ \/ SameRun(obj, o)
       \/ /\ pc = "record"
          /\ o.jobDeployed /\ o.executionName = run /\ o.lastRunHash = hash

\* A user's write makes a new version of the State: with destroyOnDelete
\* changed, without the run of its status, or with the deletion mark.
Edited ==
    /\ st'.destroyOnDelete = ~st.destroyOnDelete
    /\ st'.present = st.present /\ st'.deleting = st.deleting
    /\ SameRun(st, st')

Reran ==
    /\ ~st'.jobDeployed /\ st'.lastRunHash = NoHash
    /\ st'.present = st.present /\ st'.deleting = st.deleting
    /\ st'.destroyOnDelete = st.destroyOnDelete

Deleted ==
    /\ ~st.deleting /\ st'.deleting
    /\ st'.present = st.finalizer
    /\ st'.destroyOnDelete = st.destroyOnDelete
    /\ SameRun(st, st')

UserWrote ==
    /\ Spend("edits")
    /\ st.present
    /\ st'.rv = st.rv + 1
    /\ st'.finalizer = st.finalizer
    /\ Edited \/ Reran \/ Deleted
    /\ UNCHANGED <<execs, pc, obj, hash, run>>

LEMMA Writes ==
    ASSUME NEW o, Updated(o) \/ UpdateFails(o)
    PROVE  st' = st \/ (CanWrite(o) /\ st' = Stored(o))
BY DEF Updated, UpdateFails

\* Who may write the State, and what
LEMMA StepWrites ==
    ASSUME TypeOK, [Next]_vars
    PROVE  \/ st' = st
           \/ \E o \in StateObjects : HandlerWrote(o)
           \/ UserWrote
<1>a. st \in StateObjects /\ obj \in StateObjects /\ run \in Names \cup {0}
      /\ hash \in Hashes
  BY DEF TypeOK
<1>1. CASE UNCHANGED vars
  BY <1>1 DEF vars
<1>2. CASE InformerSync \/ ExecutionOnChange \/ RelatedResource \/ Crash
  BY <1>2 DEF InformerSync, ExecutionOnChange, RelatedResource, Crash, stored
<1>3. CASE ExecutorReports \/ TouchExecution \/ PruneExecution
  BY <1>3 DEF ExecutorReports, TouchExecution, PruneExecution
<1>4. CASE SaveCompletion \/ Lock \/ LockDestroy
  <2>1. /\ (Updated(obj) \/ UpdateFails(obj))
        /\ UNCHANGED execs /\ pc # "deploy"
    BY <1>4 DEF SaveCompletion, Lock, LockDestroy
  <2> QED
    BY <1>a, <2>1, Writes DEF HandlerWrote, SameRun
<1>5. CASE RecordRun \/ RecordDestroy
  <2>1. /\ Updated(Recorded(obj)) \/ UpdateFails(Recorded(obj))
        /\ UNCHANGED execs
    BY <1>5 DEF RecordRun, RecordDestroy
  <2>2. /\ Recorded(obj) \in StateObjects
        /\ Recorded(obj).rv = obj.rv
        /\ Recorded(obj).destroyOnDelete = obj.destroyOnDelete
        /\ Recorded(obj).deleting = obj.deleting
        /\ Recorded(obj).version = obj.version
        /\ Recorded(obj).finalizer = obj.finalizer
        /\ Recorded(obj).lastRunHash = hash
        /\ Recorded(obj).executionName = run
        /\ Recorded(obj).jobDeployed
        /\ pc = "record"
    BY <1>a, <1>5 DEF Recorded, StateObjects, RecordRun, RecordDestroy
  <2> QED
    BY <2>1, <2>2, Writes DEF HandlerWrote
<1>6. ASSUME NEW v \in BOOLEAN
      PROVE  LET o == [obj EXCEPT !.finalizer = v]
             IN  /\ o \in StateObjects
                 /\ o.rv = obj.rv
                 /\ o.destroyOnDelete = obj.destroyOnDelete
                 /\ o.deleting = obj.deleting
                 /\ o.version = obj.version
                 /\ o.finalizer = v
                 /\ SameRun(obj, o)
  BY <1>a DEF StateObjects, SameRun
<1>7. CASE RemoveFinalizer
  <2> DEFINE o == [obj EXCEPT !.finalizer = FALSE]
  <2>1. /\ (Updated(o) \/ UpdateFails(o))
        /\ UNCHANGED execs /\ pc = "unfinalize"
    BY <1>7 DEF RemoveFinalizer
  <2> QED
    BY <1>6, <2>1, Writes DEF HandlerWrote
<1>8. CASE AddFinalizer
  <2> DEFINE o == [obj EXCEPT !.finalizer = TRUE]
  <2>1. /\ (Updated(o) \/ UpdateFails(o))
        /\ UNCHANGED execs /\ pc # "deploy" /\ ~obj.deleting
    BY <1>8 DEF AddFinalizer
  <2> QED
    BY <1>6, <2>1, Writes DEF HandlerWrote
<1>9. CASE Sync /\ ~(SaveCompletion \/ Lock \/ LockDestroy \/ RecordRun
                    \/ RecordDestroy \/ RemoveFinalizer \/ AddFinalizer)
  BY <1>9
     DEF Sync, StartSync, GatherModule, GatherVariables, GatherFails,
         CheckRunFails, NoticeCompletion, CompareHash, CreateExecution,
         CreateExecutionFails, DeployStep, DeployFails, RemoveDone,
         RemoveWaits, StartDestroy, EndSync, stored
<1>10. CASE EditSpec
  <2>1. st' = [[st EXCEPT !.destroyOnDelete = ~@] EXCEPT !.rv = @ + 1]
    BY <1>10 DEF EditSpec, Touch
  <2>2. st'.rv = st.rv + 1 /\ st'.finalizer = st.finalizer /\ Edited
    BY <2>1, <1>a DEF Edited, SameRun, StateObjects
  <2> QED
    BY <1>10, <2>2 DEF EditSpec, UserWrote, local
<1>11. CASE RunState
  <2>1. st'.rv = st.rv + 1 /\ st'.finalizer = st.finalizer /\ Reran
    BY <1>11, <1>a DEF RunState, Touch, Rerun, Reran, StateObjects
  <2> QED
    BY <1>11, <2>1 DEF RunState, UserWrote, local
<1>12. CASE DeleteState
  <2>1. CASE st.deleting
    <3>1. st' = [[Rerun(st) EXCEPT !.executionName = 0] EXCEPT !.rv = @ + 1]
      BY <1>12, <2>1 DEF DeleteState, Touch
    <3>2. st'.rv = st.rv + 1 /\ st'.finalizer = st.finalizer /\ Reran
      BY <3>1, <1>a DEF Rerun, Reran, StateObjects
    <3> QED
      BY <1>12, <3>2 DEF DeleteState, UserWrote, local
  <2>2. CASE ~st.deleting
    <3>1. st' = [[st EXCEPT !.deleting = TRUE, !.present = st.finalizer]
                     EXCEPT !.rv = @ + 1]
      BY <1>12, <2>2 DEF DeleteState, Touch
    <3>2. st'.rv = st.rv + 1 /\ st'.finalizer = st.finalizer /\ Deleted
      BY <2>2, <3>1, <1>a DEF Deleted, SameRun, StateObjects
    <3> QED
      BY <1>12, <3>2 DEF DeleteState, UserWrote, local
  <2> QED
    BY <2>1, <2>2
<1>13. CASE ChangeModule \/ ChangeVariables
  BY <1>13 DEF ChangeModule, ChangeVariables
<1> QED
  BY <1>1, <1>2, <1>3, <1>4, <1>5, <1>7, <1>8, <1>9, <1>10, <1>11, <1>12, <1>13
     DEF Next, Sync, User

\* Every change of the State gives it the next resourceVersion.
LEMMA StepVersion ==
    ASSUME TypeOK, [Next]_vars
    PROVE  st' = st \/ st'.rv = st.rv + 1
<1>1. st \in StateObjects
  BY DEF TypeOK
<1> QED
  BY <1>1, StepWrites, StoredFields DEF HandlerWrote, UserWrote

-----------------------------------------------------------------------------
(* Copies of the State *)

\* What the cache and the handler may hold after a step
CopyOf(o) ==
    \/ o \in {cache, orig, obj, st, st', NoState}
    \/ o = [st' EXCEPT !.image = TRUE]
    \/ ~obj.deleting /\ RunApplied(obj) /\ o = ClearJobDeployed(obj)
    \/ o = [obj EXCEPT !.version = Normal(@)]
    \/ /\ obj.deleting /\ obj.destroyOnDelete /\ ~Running(obj)
       /\ hash'.action = "destroy"
       /\ o = [obj EXCEPT !.lastRunHash = hash']

LEMMA StepCopiesOf == [Next]_vars => CopyOf(cache') /\ CopyOf(orig') /\ CopyOf(obj')
<1> SUFFICES ASSUME [Next]_vars PROVE CopyOf(cache') /\ CopyOf(orig') /\ CopyOf(obj')
  OBVIOUS
<1>1. ASSUME NEW o, CopyOf(o), Assign(o), UNCHANGED st
      PROVE  CopyOf(cache') /\ CopyOf(orig') /\ CopyOf(obj')
  BY <1>1 DEF Assign, CopyOf
<1>2. CASE UNCHANGED <<cache, orig, obj>>
  BY <1>2 DEF CopyOf
<1>3. CASE UNCHANGED vars
  BY <1>2, <1>3 DEF vars
<1>4. CASE InformerSync
  BY <1>4 DEF InformerSync, CopyOf
<1>5. CASE ExecutionOnChange \/ RelatedResource
  BY <1>2, <1>5 DEF ExecutionOnChange, RelatedResource, local
<1>6. CASE ExecutorReports \/ TouchExecution \/ PruneExecution
  BY <1>2, <1>6 DEF ExecutorReports, TouchExecution, PruneExecution, local
<1>7. CASE User
  BY <1>2, <1>7
     DEF User, EditSpec, RunState, DeleteState, ChangeModule, ChangeVariables, local
<1>8. CASE Crash \/ AddFinalizer \/ EndSync
  BY <1>8 DEF Crash, AddFinalizer, EndSync, ResetLocal, CopyOf
<1>9. CASE StartSync
  BY <1>9 DEF StartSync, CopyOf
<1>10. CASE SaveCompletion \/ Lock \/ LockDestroy \/ RecordRun
  BY <1>10 DEF SaveCompletion, Lock, LockDestroy, RecordRun, CopyOf
<1>11. CASE NoticeCompletion \/ CompareHash
  BY <1>1, <1>11 DEF NoticeCompletion, CompareHash, stored, CopyOf
<1>12. CASE StartDestroy
  BY <1>1, <1>12 DEF StartDestroy, RunHash, stored, CopyOf
<1>13. CASE GatherModule \/ GatherVariables \/ GatherFails \/ CheckRunFails
  BY <1>2, <1>13 DEF GatherModule, GatherVariables, GatherFails, CheckRunFails
<1>14. CASE \/ CreateExecution \/ CreateExecutionFails \/ DeployStep \/ DeployFails
            \/ RemoveDone \/ RemoveWaits \/ RecordDestroy \/ RemoveFinalizer
  BY <1>2, <1>14
     DEF CreateExecution, CreateExecutionFails, DeployStep, DeployFails,
         RemoveDone, RemoveWaits, RecordDestroy, RemoveFinalizer
<1> QED
  BY <1>3, <1>4, <1>5, <1>6, <1>7, <1>8, <1>9, <1>10, <1>11, <1>12, <1>13,
     <1>14 DEF Next, Sync

-----------------------------------------------------------------------------
(* Freshness: optimistic concurrency seen from the handler *)

\* A copy of the State that carries the stored resourceVersion agrees with
\* the stored State in all that users decide; the in-place changes of the
\* cached object only normalise the version or take a completed run out.
Fresh(o) ==
    /\ o.rv <= st.rv
    /\ o.rv = st.rv =>
         /\ o.destroyOnDelete = st.destroyOnDelete
         /\ o.deleting = st.deleting
         /\ o.finalizer = st.finalizer
         /\ o.version \in {st.version, Normal(st.version)}
         /\ o.jobDeployed => /\ st.jobDeployed
                             /\ st.executionName = o.executionName

FreshOK == 1 <= st.rv /\ Fresh(cache) /\ Fresh(orig) /\ Fresh(obj)

\* Fresh(o) after the step, for a value o that the step does not change
LaterFresh(o) ==
    /\ o.rv <= st'.rv
    /\ o.rv = st'.rv =>
         /\ o.destroyOnDelete = st'.destroyOnDelete
         /\ o.deleting = st'.deleting
         /\ o.finalizer = st'.finalizer
         /\ o.version \in {st'.version, Normal(st'.version)}
         /\ o.jobDeployed => /\ st'.jobDeployed
                             /\ st'.executionName = o.executionName

\* What a step leaves alone stays fresh or becomes old.
LEMMA FreshKept ==
    ASSUME NEW o \in StateObjects, st \in StateObjects, Fresh(o),
           st' = st \/ st'.rv = st.rv + 1
    PROVE  LaterFresh(o)
<1>1. o.rv \in Nat /\ st.rv \in Nat
  BY DEF StateObjects
<1> QED
  BY <1>1 DEF Fresh, LaterFresh

LEMMA NormalTwice == \A v \in Versions : Normal(Normal(v)) = Normal(v)
BY ConstantsOK DEF Versions, Normal

\* The assignments of the handler to a copy of the State keep it fresh.
LEMMA AssignedFresh ==
    ASSUME TypeOK, Fresh(obj), NEW h,
           NEW o \in {ClearJobDeployed(obj), [obj EXCEPT !.version = Normal(@)],
                      [obj EXCEPT !.lastRunHash = h]}
    PROVE  Fresh(o)
<1>1. obj \in StateObjects /\ st \in StateObjects
  BY DEF TypeOK
<1>2. CASE o = ClearJobDeployed(obj)
  <2>1. /\ o.rv = obj.rv /\ o.destroyOnDelete = obj.destroyOnDelete
        /\ o.deleting = obj.deleting /\ o.finalizer = obj.finalizer
        /\ o.version = obj.version /\ o.jobDeployed = FALSE
    BY <1>1, <1>2 DEF ClearJobDeployed, StateObjects
  <2> QED
    BY <2>1 DEF Fresh
<1>3. CASE o = [obj EXCEPT !.version = Normal(@)]
  <2>1. /\ o.rv = obj.rv /\ o.destroyOnDelete = obj.destroyOnDelete
        /\ o.deleting = obj.deleting /\ o.finalizer = obj.finalizer
        /\ o.version = Normal(obj.version) /\ o.jobDeployed = obj.jobDeployed
        /\ o.executionName = obj.executionName
    BY <1>1, <1>3 DEF StateObjects
  <2>2. st.version \in Versions
    BY <1>1 DEF StateObjects
  <2> QED
    BY <2>1, <2>2, NormalTwice DEF Fresh
<1>4. CASE o = [obj EXCEPT !.lastRunHash = h]
  <2>1. /\ o.rv = obj.rv /\ o.destroyOnDelete = obj.destroyOnDelete
        /\ o.deleting = obj.deleting /\ o.finalizer = obj.finalizer
        /\ o.version = obj.version /\ o.jobDeployed = obj.jobDeployed
        /\ o.executionName = obj.executionName
    BY <1>1, <1>4 DEF StateObjects
  <2> QED
    BY <2>1 DEF Fresh
<1> QED
  BY <1>2, <1>3, <1>4

LEMMA StepFresh == TypeOK /\ TypeOK' /\ FreshOK /\ [Next]_vars => FreshOK'
<1> SUFFICES ASSUME TypeOK, TypeOK', FreshOK, [Next]_vars PROVE FreshOK'
  OBVIOUS
<1>1. /\ st \in StateObjects /\ st' \in StateObjects /\ cache \in StateObjects
      /\ orig \in StateObjects /\ obj \in StateObjects
  BY DEF TypeOK
<1>2. st' = st \/ st'.rv = st.rv + 1
  BY StepVersion
<1>3. st.rv \in Nat /\ st'.rv \in Nat /\ 1 <= st'.rv
  BY <1>1, <1>2 DEF FreshOK, StateObjects
<1>4. ASSUME NEW o, CopyOf(o)
      PROVE  LaterFresh(o)
  <2>1. CASE o \in {cache, orig, obj}
    BY <1>1, <1>2, <2>1, FreshKept DEF FreshOK
  <2>2. Fresh(st) /\ LaterFresh(st')
    BY <1>3 DEF Fresh, LaterFresh
  <2>3. CASE o \in {st, st'}
    BY <1>1, <1>2, <2>2, <2>3, FreshKept
  <2>4. CASE o = NoState
    <3>1. o.rv = 0
      BY <2>4 DEF NoState
    <3> QED
      BY <1>3, <3>1 DEF LaterFresh
  <2>5. CASE o = [st' EXCEPT !.image = TRUE]
    <3>1. /\ o.rv = st'.rv /\ o.destroyOnDelete = st'.destroyOnDelete
          /\ o.deleting = st'.deleting /\ o.finalizer = st'.finalizer
          /\ o.version = st'.version /\ o.jobDeployed = st'.jobDeployed
          /\ o.executionName = st'.executionName
      BY <1>1, <2>5 DEF StateObjects
    <3> QED
      BY <2>2, <3>1 DEF LaterFresh
  <2>6. CASE o \in {ClearJobDeployed(obj), [obj EXCEPT !.version = Normal(@)]}
    <3>1. Fresh(o)
      BY <2>6, AssignedFresh DEF FreshOK
    <3>2. o \in StateObjects
      <4>1. Normal(obj.version) \in Versions
        BY <1>1, VersionTypes DEF StateObjects
      <4> QED
        BY <1>1, <2>6, <4>1 DEF ClearJobDeployed, StateObjects
    <3> QED
      BY <1>1, <1>2, <3>1, <3>2, FreshKept
  <2>7. CASE o = [obj EXCEPT !.lastRunHash = hash']
    <3>1. Fresh(o)
      BY <2>7, AssignedFresh DEF FreshOK
    <3>2. o \in StateObjects
      <4>1. hash' \in Hashes
        BY DEF TypeOK
      <4> QED
        BY <1>1, <2>7, <4>1 DEF StateObjects
    <3> QED
      BY <1>1, <1>2, <3>1, <3>2, FreshKept
  <2> QED
    BY <1>4, <2>1, <2>3, <2>4, <2>5, <2>6, <2>7 DEF CopyOf
<1>5. LaterFresh(cache') /\ LaterFresh(orig') /\ LaterFresh(obj')
  BY <1>4, StepCopiesOf
<1> QED
  BY <1>3, <1>5 DEF FreshOK, Fresh, LaterFresh

-----------------------------------------------------------------------------
(* Completed runs *)

\* The finalizer is about to go only if nothing is to be destroyed, or if the
\* run the handler's copy names is applied.
DoneOK ==
    pc = "unfinalize" =>
        \/ ~obj.destroyOnDelete
        \/ /\ obj.jobDeployed
           /\ obj.executionName # 0
           /\ execs[obj.executionName].applied

\* An applied Execution stays so: no step but its creation resets it.
LEMMA StepApplied ==
    ASSUME TypeOK, [Next]_vars
    PROVE  \A n \in Names :
               execs[n].stage # 0 /\ execs[n].applied => execs'[n].applied
<1>1. ASSUME NEW m \in Names, Created(m), NEW n \in Names, execs[n].stage # 0
      PROVE  execs'[n].applied = execs[n].applied
  BY <1>1, CreatedEffect DEF Created
<1>2. ASSUME NEW n \in Names
      PROVE  /\ [execs[n] EXCEPT !.stage = @ + 1].applied = execs[n].applied
             /\ [execs[n] EXCEPT !.live = FALSE].applied = execs[n].applied
             /\ [execs[n] EXCEPT !.touched = TRUE].applied = execs[n].applied
             /\ [execs[n] EXCEPT !.applied = TRUE].applied = TRUE
  BY DEF TypeOK, Executions
<1>3. ASSUME NEW n \in Names, NEW e,
             execs' = [execs EXCEPT ![n] = e], execs[n].applied => e.applied
      PROVE  \A m \in Names : execs[m].applied => execs'[m].applied
  BY <1>3 DEF TypeOK
<1>4. CASE CreateExecution \/ CreateExecutionFails
  BY <1>1, <1>4 DEF CreateExecution, CreateExecutionFails
<1>5. CASE DeployStep \/ DeployFails
  <2>1. CASE UNCHANGED execs
    BY <2>1
  <2>2. CASE run # 0 /\ execs' = [execs EXCEPT ![run].stage = @ + 1]
    <3>1. run \in Names
      BY <2>2 DEF TypeOK
    <3> QED
      BY <1>2, <1>3, <2>2, <3>1
  <2> QED
    BY <1>5, <2>1, <2>2 DEF DeployStep, DeployFails
<1>6. CASE ExecutorReports
  <2>1. PICK n \in Names : execs' = [execs EXCEPT ![n].applied = TRUE]
    BY <1>6 DEF ExecutorReports
  <2> QED
    BY <1>2, <1>3, <2>1
<1>7. CASE TouchExecution
  <2>1. PICK n \in Names : execs' = [execs EXCEPT ![n].touched = TRUE]
    BY <1>7 DEF TouchExecution
  <2> QED
    BY <1>2, <1>3, <2>1
<1>8. CASE PruneExecution
  <2>1. PICK n \in Names : execs' = [execs EXCEPT ![n].live = FALSE]
    BY <1>8 DEF PruneExecution
  <2> QED
    BY <1>2, <1>3, <2>1
<1>9. CASE UNCHANGED vars
  BY <1>9 DEF vars
<1>10. CASE InformerSync \/ ExecutionOnChange \/ RelatedResource \/ Crash
  BY <1>10 DEF InformerSync, ExecutionOnChange, RelatedResource, Crash, stored
<1>11. CASE User
  BY <1>11
     DEF User, EditSpec, RunState, DeleteState, ChangeModule, ChangeVariables
<1>12. CASE Sync /\ ~(CreateExecution \/ CreateExecutionFails
                     \/ DeployStep \/ DeployFails)
  BY <1>12
     DEF Sync, StartSync, GatherModule, GatherVariables, GatherFails,
         CheckRunFails, NoticeCompletion, SaveCompletion, CompareHash, Lock,
         RecordRun, RemoveDone, RemoveWaits, StartDestroy, LockDestroy,
         RecordDestroy, RemoveFinalizer, AddFinalizer, EndSync, stored
<1> QED
  BY <1>4, <1>5, <1>6, <1>7, <1>8, <1>9, <1>10, <1>11, <1>12 DEF Next

\* Which steps may leave the handler about to remove the finalizer
LEMMA UnfinalizeSteps ==
    ASSUME TypeOK, [Next]_vars, pc' = "unfinalize"
    PROVE  /\ obj' = obj
           /\ pc = "unfinalize" \/ RemoveDone
<1>1. CASE UNCHANGED vars
  BY <1>1 DEF vars
<1>2. CASE InformerSync \/ ExecutionOnChange \/ RelatedResource
  BY <1>2 DEF InformerSync, ExecutionOnChange, RelatedResource, local
<1>3. CASE ExecutorReports \/ TouchExecution \/ PruneExecution
  BY <1>3 DEF ExecutorReports, TouchExecution, PruneExecution, local
<1>4. CASE User
  BY <1>4
     DEF User, EditSpec, RunState, DeleteState, ChangeModule, ChangeVariables, local
<1>5. CASE Crash \/ AddFinalizer \/ EndSync
  BY <1>5 DEF Crash, AddFinalizer, EndSync, ResetLocal
<1>6. CASE Sync /\ ~(AddFinalizer \/ EndSync)
  BY <1>6
     DEF Sync, StartSync, GatherModule, GatherVariables, GatherFails,
         CheckRunFails, NoticeCompletion, SaveCompletion, CompareHash, Lock,
         CreateExecution, CreateExecutionFails, DeployStep, DeployFails,
         RecordRun, RemoveDone, RemoveWaits, StartDestroy, LockDestroy,
         RecordDestroy, RemoveFinalizer, Return
<1> QED
  BY <1>1, <1>2, <1>3, <1>4, <1>5, <1>6 DEF Next

LEMMA StepDone == IInv /\ DoneOK /\ [Next]_vars => DoneOK'
<1> SUFFICES ASSUME IInv, DoneOK, [Next]_vars, pc' = "unfinalize",
                    obj'.destroyOnDelete
             PROVE  /\ obj'.jobDeployed
                    /\ obj'.executionName # 0
                    /\ execs'[obj'.executionName].applied
  BY DEF DoneOK
<1>1. TypeOK /\ Tracked(obj) /\ obj \in StateObjects
  BY DEF IInv, CopiesTracked, TypeOK
<1>2. obj' = obj /\ (pc = "unfinalize" \/ RemoveDone)
  BY <1>1, UnfinalizeSteps
<1>3. /\ obj.jobDeployed /\ obj.executionName # 0
      /\ execs[obj.executionName].applied
  BY <1>2 DEF DoneOK, RemoveDone, RunApplied, Running, Found
<1>4. obj.executionName \in Names /\ execs[obj.executionName].stage # 0
  BY <1>1, <1>3 DEF Tracked, StateObjects, Stages
<1> QED
  BY <1>1, <1>2, <1>3, <1>4, StepApplied

-----------------------------------------------------------------------------
(* Run hashes *)

\* Only a State that is being deleted records a destroy.
HashFits(o) == ~o.deleting => o.lastRunHash.action # "destroy"

\* Between the comparison of the hashes and the Create, the handler's runHash
\* is of the kind its copy of the State asks for and differs from the one
\* recorded, first by that copy and, once the lock is taken, by the State.
HashOK ==
    /\ HashFits(st) /\ HashFits(cache) /\ HashFits(orig) /\ HashFits(obj)
    /\ pc \in {"lock", "deploy", "record"} =>
         (hash.action = "destroy" => obj.deleting)
    /\ pc = "lock" /\ hash.action = "create" =>
         ~obj.deleting /\ obj.lastRunHash # hash
    /\ pc = "deploy" /\ run = 0 /\ hash.action = "create" =>
         st.lastRunHash # hash /\ st.lastRunHash.action # "destroy"

LEMMA NoHashAction == NoHash.action = "none"
BY DEF NoHash

LEMMA StepHashFits ==
    ASSUME TypeOK, TypeOK', HashOK, [Next]_vars
    PROVE  HashFits(st') /\ HashFits(cache') /\ HashFits(orig') /\ HashFits(obj')
<1>1. /\ st \in StateObjects /\ st' \in StateObjects /\ obj \in StateObjects
      /\ HashFits(st) /\ HashFits(obj)
  BY DEF TypeOK, HashOK
<1>2. HashFits(st')
  <2>1. CASE st' = st
    BY <1>1, <2>1
  <2>2. ASSUME NEW o \in StateObjects, HandlerWrote(o)
        PROVE  HashFits(st')
    <3>1. st'.deleting = obj.deleting /\ st'.lastRunHash = o.lastRunHash
      BY <1>1, <2>2, StoredFields DEF HandlerWrote
    <3>2. CASE o.lastRunHash = obj.lastRunHash
      BY <1>1, <3>1, <3>2 DEF HashFits
    <3>3. CASE pc = "record" /\ o.lastRunHash = hash
      BY <3>1, <3>3 DEF HashOK, HashFits
    <3> QED
      BY <2>2, <3>2, <3>3 DEF HandlerWrote, SameRun
  <2>3. CASE UserWrote
    BY <1>1, <2>3, NoHashAction
       DEF UserWrote, Edited, Reran, Deleted, SameRun, HashFits
  <2> QED
    BY <2>1, <2>2, <2>3, StepWrites
<1>3. ASSUME NEW o, CopyOf(o)
      PROVE  HashFits(o)
  <2>1. CASE o \in {cache, orig, obj, st, st'}
    BY <1>2, <2>1 DEF HashOK
  <2>2. CASE o = NoState
    BY <2>2, NoHashAction DEF NoState, HashFits
  <2>3. CASE o = [st' EXCEPT !.image = TRUE]
    BY <1>1, <1>2, <2>3 DEF HashFits, StateObjects
  <2>4. CASE o = ClearJobDeployed(obj)
    BY <1>1, <2>4 DEF HashFits, ClearJobDeployed, StateObjects
  <2>5. CASE o = [obj EXCEPT !.version = Normal(@)]
    BY <1>1, <2>5 DEF HashFits, StateObjects
  <2>6. CASE obj.deleting /\ o = [obj EXCEPT !.lastRunHash = hash']
    BY <1>1, <2>6 DEF HashFits, StateObjects
  <2> QED
    BY <1>3, <2>1, <2>2, <2>3, <2>4, <2>5, <2>6 DEF CopyOf
<1> QED
  BY <1>2, <1>3, StepCopiesOf

\* What changes the handler's place between the lock and the Create
LEMMA HashSteps ==
    ASSUME TypeOK, DeployOK, [Next]_vars,
           pc' \in {"lock", "deploy", "record"}
    PROVE  \/ UNCHANGED <<pc, hash, obj, run>>
           \/ CompareHash \/ StartDestroy \/ Lock \/ LockDestroy
           \/ /\ pc = "deploy" /\ pc' \in {"deploy", "record"}
              /\ UNCHANGED <<hash, obj>> /\ run' # 0
<1>1. CASE UNCHANGED vars
  BY <1>1 DEF vars
<1>2. CASE InformerSync \/ ExecutionOnChange \/ RelatedResource
  BY <1>2 DEF InformerSync, ExecutionOnChange, RelatedResource, local
<1>3. CASE ExecutorReports \/ TouchExecution \/ PruneExecution
  BY <1>3 DEF ExecutorReports, TouchExecution, PruneExecution, local
<1>4. CASE User
  BY <1>4
     DEF User, EditSpec, RunState, DeleteState, ChangeModule, ChangeVariables, local
<1>5. CASE Crash \/ AddFinalizer \/ EndSync
  BY <1>5 DEF Crash, AddFinalizer, EndSync, ResetLocal
<1>6. CASE CreateExecution \/ DeployStep
  BY <1>6 DEF CreateExecution, DeployStep, Created, Names, TypeOK
<1>7. CASE \/ GatherFails \/ CheckRunFails \/ CreateExecutionFails \/ DeployFails
           \/ RecordRun \/ RecordDestroy \/ RemoveWaits \/ RemoveFinalizer
  BY <1>7
     DEF GatherFails, CheckRunFails, CreateExecutionFails, DeployFails,
         RecordRun, RecordDestroy, RemoveWaits, RemoveFinalizer, Return
<1>8. CASE \/ StartSync \/ GatherModule \/ GatherVariables
           \/ NoticeCompletion \/ SaveCompletion \/ RemoveDone
  BY <1>8
     DEF StartSync, GatherModule, GatherVariables, NoticeCompletion,
         SaveCompletion, RemoveDone, Return
<1> QED
  BY <1>1, <1>2, <1>3, <1>4, <1>5, <1>6, <1>7, <1>8 DEF Next, Sync

LEMMA StepHash == TypeOK /\ TypeOK' /\ DeployOK /\ HashOK /\ [Next]_vars => HashOK'
<1> SUFFICES ASSUME TypeOK, TypeOK', DeployOK, HashOK, [Next]_vars PROVE HashOK'
  OBVIOUS
<1>1. HashFits(st') /\ HashFits(cache') /\ HashFits(orig') /\ HashFits(obj')
  BY StepHashFits
<1>2. /\ st \in StateObjects /\ st' \in StateObjects /\ obj \in StateObjects
      /\ HashFits(obj)
  BY DEF TypeOK, HashOK
<1> DEFINE Kind == hash'.action = "destroy" => obj'.deleting
           Compared == pc' = "lock" /\ hash'.action = "create" =>
                         ~obj'.deleting /\ obj'.lastRunHash # hash'
           Locked == pc' = "deploy" /\ run' = 0 /\ hash'.action = "create" =>
                       /\ st'.lastRunHash # hash'
                       /\ st'.lastRunHash.action # "destroy"
<1>3. SUFFICES ASSUME pc' \in {"lock", "deploy", "record"}
               PROVE  Kind /\ Compared /\ Locked
  BY <1>1 DEF HashOK, HashFits
<1>4. CASE UNCHANGED <<pc, hash, obj, run>>
  <2>1. Kind /\ Compared
    BY <1>3, <1>4 DEF HashOK
  <2>2. CASE pc = "deploy"
    <3>1. st' = st \/ UserWrote
      BY <2>2, StepWrites DEF HandlerWrote
    <3>2. st'.lastRunHash \in {st.lastRunHash, NoHash}
      BY <3>1 DEF UserWrote, Edited, Reran, Deleted, SameRun
    <3>3. hash # NoHash
      BY <2>2 DEF DeployOK
    <3> QED
      BY <1>4, <2>1, <2>2, <3>2, <3>3, NoHashAction DEF HashOK
  <2>3. CASE pc # "deploy"
    BY <1>4, <2>1, <2>3
  <2> QED
    BY <2>2, <2>3
<1>5. CASE CompareHash
  <2>1. /\ obj' = [obj EXCEPT !.version = Normal(@)] /\ pc' = "lock"
        /\ hash' = RunHash(obj', input, "create") /\ hash' # obj'.lastRunHash
        /\ ~obj.deleting
    BY <1>3, <1>5 DEF CompareHash, Assign, Return
  <2>2. obj'.deleting = obj.deleting
    BY <1>2, <2>1 DEF StateObjects
  <2>3. hash'.action = "create"
    BY <2>1 DEF RunHash
  <2> QED
    BY <2>1, <2>2, <2>3
<1>6. CASE StartDestroy
  <2>1. /\ hash' = RunHash(obj, input, "destroy") /\ pc' = "lock"
        /\ obj' = [obj EXCEPT !.lastRunHash = hash'] /\ obj.deleting
    BY <1>6 DEF StartDestroy, Assign
  <2>2. obj'.deleting = obj.deleting
    BY <1>2, <2>1 DEF StateObjects
  <2>3. hash'.action = "destroy"
    BY <2>1 DEF RunHash
  <2> QED
    BY <2>1, <2>2, <2>3
<1>7. CASE Lock
  <2>1. /\ pc = "lock" /\ hash.action = "create" /\ hash' = hash /\ pc' = "deploy"
        /\ st' = Stored(obj)
    BY <1>3, <1>7 DEF Lock, Updated, Return
  <2>2. st'.lastRunHash = obj.lastRunHash
    BY <1>2, <2>1, StoredFields
  <2> QED
    BY <1>2, <2>1, <2>2 DEF HashOK, HashFits
<1>8. CASE LockDestroy
  <2>1. /\ pc = "lock" /\ hash.action = "destroy" /\ hash' = hash
        /\ pc' = "deploy" /\ st' = Stored(obj) /\ obj' = st'
    BY <1>3, <1>8 DEF LockDestroy, Updated, Return
  <2>2. st'.deleting = obj.deleting
    BY <1>2, <2>1, StoredFields
  <2> QED
    BY <2>1, <2>2 DEF HashOK
<1>9. CASE /\ pc = "deploy" /\ pc' \in {"deploy", "record"}
           /\ UNCHANGED <<hash, obj>> /\ run' # 0
  BY <1>9 DEF HashOK
<1> QED
  BY <1>3, <1>4, <1>5, <1>6, <1>7, <1>8, <1>9, HashSteps

-----------------------------------------------------------------------------
(* Theorems *)

\* The inductive invariant IInv with what the handler knows of the stored
\* State through its copies
SInv == IInv /\ FreshOK /\ DoneOK /\ HashOK

LEMMA InitSInv == Init => SInv
<1> SUFFICES ASSUME Init PROVE SInv
  OBVIOUS
<1>1. IInv
  BY InitIInv
<1>2. PICK i \in Images, d \in BOOLEAN :
        st = [NoState EXCEPT !.present = TRUE, !.rv = 1, !.image = i,
                             !.destroyOnDelete = d]
  BY DEF Init
<1>3. st.rv = 1 /\ st.lastRunHash = NoHash
  BY <1>2 DEF NoState
<1>4. cache = NoState /\ orig = NoState /\ obj = NoState /\ pc = "idle"
  BY DEF Init
<1>5. NoState.rv = 0 /\ NoState.lastRunHash = NoHash
  BY DEF NoState
<1>6. FreshOK
  BY <1>3, <1>4, <1>5 DEF FreshOK, Fresh
<1>7. DoneOK
  BY <1>4 DEF DoneOK
<1>8. HashOK
  BY <1>3, <1>4, <1>5, NoHashAction DEF HashOK, HashFits
<1> QED
  BY <1>1, <1>6, <1>7, <1>8 DEF SInv

LEMMA StepSInv == SInv /\ [Next]_vars => SInv'
BY StepIInv, StepFresh, StepDone, StepHash DEF SInv, IInv

THEOREM StepInvariance == Spec => []SInv
<1> QED
  BY StepSInv, InitSInv, PTL DEF Spec

\* What an Update that is accepted was built on is the stored State.
LEMMA WroteFresh ==
    ASSUME FreshOK, NEW o \in StateObjects, HandlerWrote(o)
    PROVE  /\ obj.destroyOnDelete = st.destroyOnDelete
           /\ obj.deleting = st.deleting
           /\ obj.finalizer = st.finalizer
           /\ obj.version \in {st.version, Normal(st.version)}
           /\ obj.jobDeployed => /\ st.jobDeployed
                                 /\ st.executionName = obj.executionName
BY DEF FreshOK, Fresh, HandlerWrote, CanWrite

\* A step without a user keeps what users decide.
LEMMA StepEdits ==
    ASSUME TypeOK, FreshOK, [Next]_vars, budget'["edits"] = budget["edits"]
    PROVE  /\ st'.destroyOnDelete = st.destroyOnDelete
           /\ st'.deleting = st.deleting
           /\ st'.version \in {st.version, Normal(st.version)}
<1>1. st \in StateObjects
  BY DEF TypeOK
<1>2. ~UserWrote
  BY DEF UserWrote, Spend, TypeOK, Budgets
<1>3. CASE st' = st
  BY <1>3
<1>4. ASSUME NEW o \in StateObjects, HandlerWrote(o)
      PROVE  /\ st'.destroyOnDelete = st.destroyOnDelete
             /\ st'.deleting = st.deleting
             /\ st'.version \in {st.version, Normal(st.version)}
  BY <1>1, <1>4, WroteFresh, StoredFields DEF HandlerWrote
<1> QED
  BY <1>2, <1>3, <1>4, StepWrites

\* The handler's Updates of the whole object, built on copies that a cache,
\* a conflict or a crash may leave arbitrarily old, never undo a user's edit.
THEOREM EditsKept == Spec => SpecEditsKept
<1>1. SInv /\ [Next]_vars =>
        [budget'["edits"] = budget["edits"] =>
           /\ st'.destroyOnDelete = st.destroyOnDelete
           /\ st'.deleting = st.deleting
           /\ st'.version \in {st.version, Normal(st.version)}]_vars
  BY StepEdits DEF SInv, IInv
<1> QED
  BY <1>1, StepInvariance, PTL DEF Spec, SpecEditsKept

\* A State that was held back goes only with the handler's last Update, which
\* is built on a current copy.
LEMMA StepRemoval ==
    ASSUME TypeOK, FreshOK, DoneOK, [Next]_vars,
           st.present, st.finalizer, ~st'.present, st.destroyOnDelete
    PROVE  /\ st.jobDeployed
           /\ st.executionName # 0
           /\ execs[st.executionName].applied
<1>1. st \in StateObjects
  BY DEF TypeOK
<1>2. PICK o \in StateObjects : HandlerWrote(o)
  BY StepWrites DEF UserWrote, Edited, Reran, Deleted
<1>3. obj.finalizer /\ obj.destroyOnDelete
  BY <1>2, WroteFresh
<1>4. ~o.finalizer
  BY <1>1, <1>2, StoredFields DEF HandlerWrote
<1>5. pc = "unfinalize"
  BY <1>2, <1>3, <1>4 DEF HandlerWrote
<1>6. /\ obj.jobDeployed /\ obj.executionName # 0
      /\ execs[obj.executionName].applied
  BY <1>3, <1>5 DEF DoneOK
<1> QED
  BY <1>2, <1>6, WroteFresh

\* OnRemove never lets a State go whose infrastructure is still to be
\* destroyed, although it decides on an old copy.
THEOREM RemovalSound == Spec => RemovalJustified
<1>1. SInv /\ [Next]_vars =>
        [st.present /\ st.finalizer /\ ~st'.present =>
           \/ ~st.destroyOnDelete
           \/ /\ st.jobDeployed
              /\ st.executionName # 0
              /\ execs[st.executionName].applied]_vars
  BY StepRemoval DEF SInv, IInv
<1> QED
  BY <1>1, StepInvariance, PTL DEF Spec, RemovalJustified

\* Only the Create of a sync that holds the lock makes an Execution.
LEMMA NewExecution ==
    ASSUME TypeOK, DeployOK, [Next]_vars, NEW n \in Names,
           execs[n].stage = 0, execs'[n].stage # 0
    PROVE  pc = "deploy" /\ run = 0
<1>1. CreateExecution \/ CreateExecutionFails \/ DeployStep \/ DeployFails
  BY DeploymentSteps DEF SameDeployments
<1>2. CASE DeployStep \/ DeployFails
  <2>1. /\ run \in Names /\ execs[run].stage # Len(Stages)
        /\ execs[run].stage # 0
    <3>1. run \in Names /\ execs[run].stage \in 1..(Len(Stages) - 1)
      BY <1>2 DEF DeployStep, DeployFails, DeployOK, TypeOK
    <3>2. Len(Stages) = 9
      BY DEF Stages
    <3> QED
      BY <3>1, <3>2
  <2>2. CASE execs' = [execs EXCEPT ![run].stage = @ + 1]
    BY <2>1, <2>2, StageEffect
  <2> QED
    BY <1>2, <2>2 DEF DeployStep, DeployFails
<1> QED
  BY <1>1, <1>2 DEF CreateExecution, CreateExecutionFails

\* No Execution is made twice for one run hash: between the comparison with
\* the last run's hash and the Create stands an accepted Update.
THEOREM RunsOnce == Spec => NoRedeploy
<1>1. ASSUME SInv, [Next]_vars, NEW n \in Names,
             execs[n].stage = 0, execs'[n].stage # 0, hash.action = "create"
      PROVE  /\ st.lastRunHash # hash
             /\ st.lastRunHash.action # "destroy"
  BY <1>1, NewExecution DEF SInv, IInv, HashOK
<1>2. SInv /\ [Next]_vars =>
        [\A n \in Names :
           execs[n].stage = 0 /\ execs'[n].stage # 0 /\ hash.action = "create" =>
               /\ st.lastRunHash # hash
               /\ st.lastRunHash.action # "destroy"]_vars
  BY <1>1
<1> QED
  BY <1>2, StepInvariance, PTL DEF Spec, NoRedeploy

-----------------------------------------------------------------------------
(* Several handlers: what a step promises to another process that works on  *)
(* the same objects, and what the handler relies on of such steps.          *)

\* What a step does to the deployment of a run: nothing, its first write, or
\* a further write by the handler that deploys it
LEMMA DeploymentChange ==
    ASSUME TypeOK, DeployOK, [Next]_vars, NEW n \in Names
    PROVE  \/ /\ execs'[n].stage = execs[n].stage
              /\ execs'[n].hash = execs[n].hash
           \/ /\ pc = "deploy" /\ execs[n].stage = 0
              /\ execs'[n].stage = 1 /\ execs'[n].hash = hash
           \/ /\ pc = "deploy" /\ n = run /\ execs[n].hash = hash
              /\ execs[n].stage \in 1..(Len(Stages) - 1)
              /\ execs'[n].stage = execs[n].stage + 1 /\ execs'[n].hash = hash
<1>1. CASE UNCHANGED execs
  BY <1>1
<1>2. ASSUME NEW m \in Names, Created(m), pc = "deploy"
      PROVE  \/ execs'[n] = execs[n]
             \/ /\ execs[n].stage = 0
                /\ execs'[n].stage = 1 /\ execs'[n].hash = hash
  BY <1>2, CreatedEffect DEF Created
<1>3. CASE CreateExecution \/ CreateExecutionFails
  BY <1>1, <1>2, <1>3 DEF CreateExecution, CreateExecutionFails
<1>4. CASE DeployStep \/ DeployFails
  <2>1. /\ run \in Names /\ execs[run].stage \in 1..(Len(Stages) - 1)
        /\ execs[run].hash = hash /\ pc = "deploy"
    BY <1>4 DEF DeployStep, DeployFails, DeployOK, TypeOK
  <2>2. execs[run].stage # Len(Stages)
    BY <2>1 DEF Stages
  <2>3. CASE execs' = [execs EXCEPT ![run].stage = @ + 1]
    BY <2>1, <2>2, <2>3, StageEffect
  <2> QED
    BY <1>1, <1>4, <2>3 DEF DeployStep, DeployFails
<1> QED
  BY <1>3, <1>4, DeploymentSteps DEF SameDeployments

\* A handler that has a run to deploy after a step had it before, or has just
\* made its Execution.
LEMMA RunTaken ==
    ASSUME TypeOK, DeployOK, [Next]_vars, pc' = "deploy", run' # 0
    PROVE  (pc = "deploy" /\ run' = run) \/ execs[run'].stage = 0
<1>1. CASE UNCHANGED <<pc, run>>
  BY <1>1
<1>2. CASE CreateExecution
  BY <1>2 DEF CreateExecution, Created
<1>3. CASE CompareHash \/ StartDestroy \/ Lock \/ LockDestroy
  BY <1>3 DEF CompareHash, StartDestroy, Lock, LockDestroy, DeployOK
<1>4. CASE UNCHANGED vars
  BY <1>1, <1>4 DEF vars
<1>5. CASE InformerSync \/ ExecutionOnChange \/ RelatedResource
  BY <1>1, <1>5 DEF InformerSync, ExecutionOnChange, RelatedResource, local
<1>6. CASE ExecutorReports \/ TouchExecution \/ PruneExecution
  BY <1>1, <1>6 DEF ExecutorReports, TouchExecution, PruneExecution, local
<1>7. CASE User
  BY <1>1, <1>7
     DEF User, EditSpec, RunState, DeleteState, ChangeModule, ChangeVariables, local
<1>8. CASE Crash \/ AddFinalizer \/ EndSync
  BY <1>8 DEF Crash, AddFinalizer, EndSync, ResetLocal
<1>9. CASE DeployStep
  BY <1>9 DEF DeployStep
<1>10. CASE \/ GatherFails \/ CheckRunFails \/ CreateExecutionFails \/ DeployFails
            \/ RecordRun \/ RecordDestroy \/ RemoveWaits \/ RemoveFinalizer
  BY <1>10
     DEF GatherFails, CheckRunFails, CreateExecutionFails, DeployFails,
         RecordRun, RecordDestroy, RemoveWaits, RemoveFinalizer, Return
<1>11. CASE \/ StartSync \/ GatherModule \/ GatherVariables
            \/ NoticeCompletion \/ SaveCompletion \/ RemoveDone
  BY <1>11
     DEF StartSync, GatherModule, GatherVariables, NoticeCompletion,
         SaveCompletion, RemoveDone, Return, DeployOK
<1> QED
  BY <1>2, <1>3, <1>4, <1>5, <1>6, <1>7, <1>8, <1>9, <1>10, <1>11 DEF Next, Sync

\* The part of SInv that holds of each of several handlers. (HashOK does not:
\* another handler may record the hash between this one's lock and its Create.)
HInv == IInv /\ FreshOK /\ DoneOK

LEMMA InitHInv == Init => HInv
BY InitSInv DEF SInv, HInv

LEMMA StepHInv == HInv /\ [Next]_vars => HInv'
BY StepIInv, StepFresh, StepDone DEF HInv, IInv

\* What a step does to the objects that handlers share: the State gets a new
\* version, names a complete run, and Executions stay what they are.
Promise ==
    /\ st' \in StateObjects
    /\ content' \in Contents \cup {NoContent}
    /\ variables' \in VariableSets \cup {NoVariables}
    /\ execs' \in [Names -> Executions]
    /\ budget' \in [Budgets -> Nat]
    /\ st' = st \/ st'.rv = st.rv + 1
    /\ LaterTracked(st')
    /\ ExecutionsOK'
    /\ RunsKept
    /\ \A n \in Names :
         execs[n].stage # 0 /\ execs[n].applied => execs'[n].applied

LEMMA StepPromise == HInv /\ [Next]_vars => Promise
<1> SUFFICES ASSUME HInv, [Next]_vars PROVE Promise
  OBVIOUS
<1>1. TypeOK /\ DeployOK /\ IInv'
  BY StepIInv DEF HInv, IInv
<1>2. TypeOK' /\ ExecutionsOK' /\ Tracked(st)'
  BY <1>1 DEF IInv, CopiesTracked
<1>3. LaterTracked(st')
  BY <1>2 DEF Tracked, LaterTracked
<1> QED
  BY <1>1, <1>2, <1>3, StepVersion, StepKeepsRuns, StepApplied DEF Promise, TypeOK

\* A step of another process that keeps this promise and leaves the run this
\* handler is deploying alone keeps the invariant of this handler.
LEMMA OthersStep ==
    ASSUME HInv, Promise, events' \in SUBSET {"execution", "input"},
           UNCHANGED <<cache, queue, pc, orig, shared, obj, input, hash, run, err>>,
           pc = "deploy" /\ run # 0 => /\ execs'[run].stage = execs[run].stage
                                      /\ execs'[run].hash = execs[run].hash
    PROVE  HInv'
<1>1. TypeOK /\ DeployOK /\ CopiesTracked /\ FreshOK /\ DoneOK
  BY DEF HInv, IInv
<1>2. TypeOK'
  BY <1>1 DEF Promise, TypeOK
<1>3. DeployOK'
  <2>1. CASE pc = "record"
    BY <1>1, <2>1 DEF DeployOK, Promise, RunsKept, TypeOK
  <2> QED
    BY <1>1, <2>1 DEF DeployOK
<1>4. \A o \in {cache, orig, obj} : o \in StateObjects /\ LaterTracked(o)
  BY <1>1, TrackedKept DEF TypeOK, CopiesTracked, Promise
<1>5. CopiesTracked'
  BY <1>4 DEF CopiesTracked, Tracked, LaterTracked, Promise
<1>6. FreshOK'
  <2>1. st \in StateObjects /\ st'.rv \in Nat /\ st.rv \in Nat
    BY <1>1 DEF TypeOK, Promise, StateObjects
  <2>2. \A o \in {cache, orig, obj} : LaterFresh(o)
    BY <1>1, <1>4, <2>1, FreshKept DEF FreshOK, Promise
  <2>3. 1 <= st'.rv
    BY <1>1, <2>1 DEF FreshOK, Promise
  <2> QED
    BY <2>2, <2>3 DEF FreshOK, Fresh, LaterFresh
<1>7. DoneOK'
  <2>1. ASSUME obj.jobDeployed, obj.executionName # 0,
               execs[obj.executionName].applied
        PROVE  execs'[obj.executionName].applied
    <3>1. obj.executionName \in Names /\ execs[obj.executionName].stage # 0
      BY <1>1, <2>1 DEF CopiesTracked, Tracked, TypeOK, StateObjects, Stages
    <3> QED
      BY <2>1, <3>1 DEF Promise
  <2> QED
    BY <1>1, <2>1 DEF DoneOK
<1> QED
  BY <1>2, <1>3, <1>5, <1>6, <1>7 DEF HInv, IInv, Promise

-----------------------------------------------------------------------------
(* What the handler knows of a deletion and of the status                   *)

\* A deletion is never undone.
LEMMA DeletionKept ==
    ASSUME TypeOK, FreshOK, [Next]_vars, st.deleting
    PROVE  st'.deleting
<1>1. st \in StateObjects
  BY DEF TypeOK
<1>2. ASSUME NEW o \in StateObjects, HandlerWrote(o)
      PROVE  st'.deleting
  BY <1>1, <1>2, WroteFresh, StoredFields DEF HandlerWrote
<1> QED
  BY <1>2, StepWrites DEF UserWrote, Edited, Reran, Deleted

\* So a copy that shows the deletion, however old, is right about it.
MarkOK == \A o \in {cache, orig, obj} : o.deleting => st.deleting

LEMMA StepMark ==
    ASSUME TypeOK, TypeOK', FreshOK, MarkOK, [Next]_vars
    PROVE  MarkOK'
<1>1. obj \in StateObjects /\ st' \in StateObjects
  BY DEF TypeOK
<1>2. st.deleting => st'.deleting
  BY DeletionKept
<1>3. ASSUME NEW o, CopyOf(o), o.deleting
      PROVE  st'.deleting
  <2>1. CASE o \in {cache, orig, obj, st, st'}
    BY <1>2, <1>3, <2>1 DEF MarkOK
  <2>2. CASE o = NoState
    BY <1>3, <2>2 DEF NoState
  <2>3. CASE o = [st' EXCEPT !.image = TRUE]
    BY <1>1, <1>3, <2>3 DEF StateObjects
  <2>4. CASE \/ o = ClearJobDeployed(obj)
             \/ o = [obj EXCEPT !.version = Normal(@)]
             \/ o = [obj EXCEPT !.lastRunHash = hash']
    <3>1. o.deleting = obj.deleting
      BY <1>1, <2>4 DEF ClearJobDeployed, StateObjects
    <3> QED
      BY <1>2, <1>3, <3>1 DEF MarkOK
  <2> QED
    BY <1>3, <2>1, <2>2, <2>3, <2>4 DEF CopyOf
<1> QED
  BY <1>3, StepCopiesOf DEF MarkOK

\* While its deletion is held back, a State has the finalizer.
HeldOK == st.present /\ st.deleting => st.finalizer

LEMMA StepHeld ==
    ASSUME TypeOK, HeldOK, [Next]_vars
    PROVE  HeldOK'
<1>1. st \in StateObjects
  BY DEF TypeOK
<1>2. ASSUME NEW o \in StateObjects, HandlerWrote(o)
      PROVE  HeldOK'
  BY <1>1, <1>2, StoredFields DEF HandlerWrote, HeldOK
<1>3. CASE UserWrote
  BY <1>3 DEF UserWrote, Edited, Reran, Deleted, HeldOK
<1> QED
  BY <1>2, <1>3, StepWrites DEF HeldOK

\* What the handler deploys is a destroy if its copy of the State is being
\* deleted and a create if it is not, and only such a State is let go.
KindOK ==
    /\ pc \in {"lock", "deploy", "record"} =>
         hash.action = IF obj.deleting THEN "destroy" ELSE "create"
    /\ pc = "unfinalize" => obj.deleting

LEMMA StepKindOK ==
    ASSUME TypeOK, DeployOK, KindOK, [Next]_vars
    PROVE  KindOK'
<1>1. obj \in StateObjects /\ st \in StateObjects
  BY DEF TypeOK
<1> DEFINE Kind == hash'.action = IF obj'.deleting THEN "destroy" ELSE "create"
<1>2. ASSUME pc' \in {"lock", "deploy", "record"}
      PROVE  Kind
  <2>1. CASE UNCHANGED <<pc, hash, obj, run>>
    BY <1>2, <2>1 DEF KindOK
  <2>2. CASE CompareHash
    <3>1. /\ obj' = [obj EXCEPT !.version = Normal(@)] /\ ~obj.deleting
          /\ hash' = RunHash(obj', input, "create")
      BY <1>2, <2>2 DEF CompareHash, Assign, Return
    <3> QED
      BY <1>1, <3>1 DEF RunHash, StateObjects
  <2>3. CASE StartDestroy
    <3>1. /\ obj' = [obj EXCEPT !.lastRunHash = hash'] /\ obj.deleting
          /\ hash' = RunHash(obj, input, "destroy")
      BY <2>3 DEF StartDestroy, Assign
    <3> QED
      BY <1>1, <3>1 DEF RunHash, StateObjects
  <2>4. CASE Lock \/ LockDestroy
    <3>1. /\ pc = "lock" /\ hash' = hash /\ st' = Stored(obj)
          /\ obj' = st' \/ obj' = [st' EXCEPT !.image = TRUE]
      BY <1>2, <2>4 DEF Lock, LockDestroy, Updated, Return
    <3>2. Stored(obj) \in StateObjects
      BY <1>1, StoredType
    <3>3. obj'.deleting = obj.deleting
      BY <1>1, <3>1, <3>2, StoredFields DEF StateObjects
    <3> QED
      BY <3>1, <3>3 DEF KindOK
  <2>5. CASE pc = "deploy" /\ UNCHANGED <<hash, obj>>
    BY <2>5 DEF KindOK
  <2> QED
    BY <1>2, <2>1, <2>2, <2>3, <2>4, <2>5, HashSteps
<1>3. pc' = "unfinalize" => obj'.deleting
  BY UnfinalizeSteps DEF KindOK, RemoveDone
<1> QED
  BY <1>2, <1>3 DEF KindOK

\* o's status is that of the State s, but for a completed run that was taken
\* out of a copy in place and for a destroy announced in one; es are the
\* Executions.
StatusMatches(o, s, es) ==
    o.rv = s.rv =>
        /\ o.lastRunHash # s.lastRunHash =>
             /\ o.deleting /\ o.destroyOnDelete /\ ~o.jobDeployed
             /\ o.lastRunHash.action = "destroy"
        /\ s.jobDeployed /\ ~o.jobDeployed =>
             /\ ~o.deleting
             /\ es[s.executionName].applied

\* An Update that is accepted was built on the status that is stored.
StatusOK ==
    /\ StatusMatches(cache, st, execs)
    /\ StatusMatches(orig, st, execs)
    /\ StatusMatches(obj, st, execs)

\* The in-place changes of a copy take out what is applied, and announce a
\* destroy where it is due.
LEMMA AssignedMatches ==
    ASSUME IInv, FreshOK, StatusOK, NEW h, h.action = "destroy",
           NEW o,
           \/ ~obj.deleting /\ RunApplied(obj) /\ o = ClearJobDeployed(obj)
           \/ o = [obj EXCEPT !.version = Normal(@)]
           \/ /\ obj.deleting /\ obj.destroyOnDelete /\ ~Running(obj)
              /\ o = [obj EXCEPT !.lastRunHash = h]
    PROVE  StatusMatches(o, st, execs)
<1>1. /\ obj \in StateObjects /\ st \in StateObjects /\ Fresh(obj)
      /\ StatusMatches(obj, st, execs) /\ Tracked(obj)
  BY DEF IInv, TypeOK, FreshOK, StatusOK, CopiesTracked
<1>2. CASE ~obj.deleting /\ RunApplied(obj) /\ o = ClearJobDeployed(obj)
  <2>1. /\ o.rv = obj.rv /\ o.deleting = obj.deleting
        /\ o.lastRunHash = obj.lastRunHash
    BY <1>1, <1>2 DEF ClearJobDeployed, StateObjects
  <2>2. obj.jobDeployed /\ execs[obj.executionName].applied
    BY <1>2 DEF RunApplied, Running
  <2> QED
    BY <1>1, <1>2, <2>1, <2>2 DEF StatusMatches, Fresh
<1>3. CASE o = [obj EXCEPT !.version = Normal(@)]
  <2>1. /\ o.rv = obj.rv /\ o.deleting = obj.deleting
        /\ o.lastRunHash = obj.lastRunHash /\ o.jobDeployed = obj.jobDeployed
        /\ o.destroyOnDelete = obj.destroyOnDelete
    BY <1>1, <1>3 DEF StateObjects
  <2> QED
    BY <1>1, <2>1 DEF StatusMatches
<1>4. CASE /\ obj.deleting /\ obj.destroyOnDelete /\ ~Running(obj)
           /\ o = [obj EXCEPT !.lastRunHash = h]
  <2>1. /\ o.rv = obj.rv /\ o.deleting = obj.deleting
        /\ o.lastRunHash = h /\ o.jobDeployed = obj.jobDeployed
        /\ o.destroyOnDelete = obj.destroyOnDelete
    BY <1>1, <1>4 DEF StateObjects
  <2>2. ~obj.jobDeployed
    <3>1. ASSUME obj.jobDeployed
          PROVE  obj.lastRunHash # NoHash
      <4>1. obj.executionName \in Names /\ execs[obj.executionName].stage # 0
        BY <1>1, <3>1 DEF Tracked, StateObjects, Stages
      <4> QED
        BY <1>1, <3>1, <4>1 DEF IInv, ExecutionsOK, Tracked
    <3> QED
      BY <1>4, <3>1 DEF Running
  <2> QED
    BY <1>1, <1>4, <2>1, <2>2 DEF StatusMatches
<1> QED
  BY <1>2, <1>3, <1>4

LEMMA StepStatus ==
    ASSUME IInv, TypeOK', FreshOK, StatusOK, [Next]_vars
    PROVE  StatusOK'
<1>1. /\ TypeOK /\ st \in StateObjects /\ st' \in StateObjects
      /\ cache \in StateObjects /\ orig \in StateObjects /\ obj \in StateObjects
      /\ Tracked(st)
  BY DEF IInv, TypeOK, CopiesTracked
<1>2. st' = st \/ st'.rv = st.rv + 1
  BY <1>1, StepVersion
<1>3. st.rv \in Nat /\ 1 <= st.rv /\ st'.rv \in Nat
  BY <1>1 DEF FreshOK, StateObjects
<1>4. ASSUME st.jobDeployed, execs[st.executionName].applied
      PROVE  execs'[st.executionName].applied
  <2>1. st.executionName \in Names /\ execs[st.executionName].stage # 0
    BY <1>1, <1>4 DEF Tracked, StateObjects, Stages
  <2> QED
    BY <1>1, <1>4, <2>1, StepApplied
<1>5. ASSUME NEW o, o.rv \in Nat, o.rv <= st.rv, StatusMatches(o, st, execs)
      PROVE  StatusMatches(o, st', execs')
  BY <1>2, <1>3, <1>4, <1>5 DEF StatusMatches
<1>6. ASSUME NEW o, CopyOf(o)
      PROVE  StatusMatches(o, st', execs')
  <2>1. CASE o \in {cache, orig, obj}
    <3>1. o.rv \in Nat /\ o.rv <= st.rv
      BY <1>1, <2>1 DEF FreshOK, Fresh, StateObjects
    <3> QED
      BY <1>5, <2>1, <3>1 DEF StatusOK
  <2>2. CASE o = st
    BY <1>3, <1>5, <2>2 DEF StatusMatches
  <2>3. CASE o = st'
    BY <2>3 DEF StatusMatches
  <2>4. CASE o = NoState
    BY <1>2, <1>3, <2>4 DEF StatusMatches, NoState
  <2>5. CASE o = [st' EXCEPT !.image = TRUE]
    <3>1. o.lastRunHash = st'.lastRunHash /\ o.jobDeployed = st'.jobDeployed
      BY <1>1, <2>5 DEF StateObjects
    <3> QED
      BY <3>1 DEF StatusMatches
  <2> DEFINE cleared == ~obj.deleting /\ RunApplied(obj) /\ o = ClearJobDeployed(obj)
             normal == o = [obj EXCEPT !.version = Normal(@)]
             announced == /\ obj.deleting /\ obj.destroyOnDelete /\ ~Running(obj)
                          /\ hash'.action = "destroy"
                          /\ o = [obj EXCEPT !.lastRunHash = hash']
  <2>6. CASE cleared \/ normal \/ announced
    <3>1. o.rv \in Nat /\ o.rv <= st.rv
      <4>1. o.rv = obj.rv
        BY <1>1, <2>6 DEF ClearJobDeployed, StateObjects
      <4> QED
        BY <1>1, <4>1 DEF FreshOK, Fresh, StateObjects
    <3>2. \E h : h.action = "destroy"
      <4>1. [action |-> "destroy"].action = "destroy"
        OBVIOUS
      <4> QED
        BY <4>1
    <3>3. StatusMatches(o, st, execs)
      BY <2>6, <3>2, AssignedMatches
    <3> QED
      BY <1>5, <3>1, <3>3
  <2> QED
    BY <1>6, <2>1, <2>2, <2>3, <2>4, <2>5, <2>6 DEF CopyOf
<1> QED
  BY <1>6, StepCopiesOf DEF StatusOK

\* The invariant under which the controller keeps to StateLifecycle
LInv == SInv /\ MarkOK /\ HeldOK /\ KindOK /\ StatusOK

LEMMA InitLInv == Init => LInv
<1> SUFFICES ASSUME Init PROVE LInv
  OBVIOUS
<1>1. SInv
  BY InitSInv
<1>2. PICK i \in Images, d \in BOOLEAN :
        st = [NoState EXCEPT !.present = TRUE, !.rv = 1, !.image = i,
                             !.destroyOnDelete = d]
  BY DEF Init
<1>3. st.rv = 1 /\ ~st.deleting
  BY <1>2 DEF NoState
<1>4. /\ cache = NoState /\ orig = NoState /\ obj = NoState /\ pc = "idle"
      /\ NoState.rv = 0 /\ ~NoState.deleting
  BY DEF Init, NoState
<1>5. MarkOK /\ HeldOK /\ KindOK /\ StatusOK
  BY <1>3, <1>4 DEF MarkOK, HeldOK, KindOK, StatusOK, StatusMatches
<1> QED
  BY <1>1, <1>5 DEF LInv

LEMMA StepLInv == LInv /\ [Next]_vars => LInv'
BY StepSInv, StepMark, StepHeld, StepKindOK, StepStatus DEF LInv, SInv, IInv

THEOREM LifecycleInvariance == Spec => []LInv
BY InitLInv, StepLInv, PTL DEF Spec

-----------------------------------------------------------------------------
(* StateController implements StateLifecycle: first the runs *)

LEMMA PhaseValues ==
    /\ Phase(0) = "absent" /\ Phase(1) = "made"
    /\ \A s \in 1..4 : Phase(s) = "made" /\ Phase(s + 1) = "made"
    /\ Phase(5) = "made" /\ Phase(6) = "started"
    /\ \A s \in 6..7 : Phase(s) = "started" /\ Phase(s + 1) = "started"
    /\ Phase(8) = "started" /\ Phase(9) = "complete"
BY DEF Phase, JobStage, Stages

\* What StateLifecycle knows of a run
LEMMA SeenRun ==
    ASSUME NEW n \in Names
    PROVE  /\ Deployments[n].phase = Phase(execs[n].stage)
           /\ Deployments[n].hash = execs[n].hash
           /\ Deployments[n].applied = execs[n].applied
BY DEF Deployments

\* A step that changes neither a stage nor a hash nor an Applied condition is
\* none to StateLifecycle.
LEMMA UnseenStep ==
    ASSUME \A n \in Names : /\ Phase(execs'[n].stage) = Phase(execs[n].stage)
                            /\ execs'[n].hash = execs[n].hash
                            /\ execs'[n].applied = execs[n].applied
    PROVE  Deployments' = Deployments
BY DEF Deployments

\* The steps that a run takes
LEMMA RunSteps ==
    ASSUME TypeOK, DeployOK, [Next]_vars
    PROVE  \/ Deployments' = Deployments
           \/ /\ pc = "deploy"
              /\ \E n \in Names : Created(n)
           \/ /\ run \in Names /\ execs[run].stage \in 1..8
              /\ execs' = [execs EXCEPT ![run].stage = @ + 1]
           \/ ExecutorReports
<1>1. CASE UNCHANGED execs
  BY <1>1 DEF Deployments
<1>2. CASE CreateExecution \/ CreateExecutionFails
  BY <1>1, <1>2 DEF CreateExecution, CreateExecutionFails
<1>3. CASE DeployStep \/ DeployFails
  <2>1. run \in Names /\ execs[run].stage \in 1..8
    <3>1. run \in Names /\ execs[run].stage \in 1..(Len(Stages) - 1)
      BY <1>3 DEF DeployStep, DeployFails, DeployOK, TypeOK
    <3>2. Len(Stages) = 9
      BY DEF Stages
    <3> QED
      BY <3>1, <3>2
  <2> QED
    BY <1>1, <1>3, <2>1 DEF DeployStep, DeployFails
<1>4. CASE TouchExecution \/ PruneExecution
  <2>1. PICK n \in Names : \/ execs' = [execs EXCEPT ![n].touched = TRUE]
                           \/ execs' = [execs EXCEPT ![n].live = FALSE]
    BY <1>4 DEF TouchExecution, PruneExecution
  <2>2. execs[n] \in Executions /\ \A m \in Names \ {n} : execs'[m] = execs[m]
    BY <2>1 DEF TypeOK
  <2>3. \/ execs'[n] = [execs[n] EXCEPT !.touched = TRUE]
        \/ execs'[n] = [execs[n] EXCEPT !.live = FALSE]
    BY <2>1 DEF TypeOK
  <2>4. /\ execs'[n].stage = execs[n].stage
        /\ execs'[n].hash = execs[n].hash
        /\ execs'[n].applied = execs[n].applied
    BY <2>2, <2>3 DEF Executions
  <2> QED
    BY <2>2, <2>4, UnseenStep
<1>5. CASE UNCHANGED vars
  BY <1>1, <1>5 DEF vars
<1>6. CASE InformerSync \/ ExecutionOnChange \/ RelatedResource \/ Crash
  BY <1>1, <1>6 DEF InformerSync, ExecutionOnChange, RelatedResource, Crash, stored
<1>7. CASE User
  BY <1>1, <1>7
     DEF User, EditSpec, RunState, DeleteState, ChangeModule, ChangeVariables
<1>8. CASE Sync /\ ~(CreateExecution \/ CreateExecutionFails
                    \/ DeployStep \/ DeployFails)
  BY <1>1, <1>8
     DEF Sync, StartSync, GatherModule, GatherVariables, GatherFails,
         CheckRunFails, NoticeCompletion, SaveCompletion, CompareHash, Lock,
         RecordRun, RemoveDone, RemoveWaits, StartDestroy, LockDestroy,
         RecordDestroy, RemoveFinalizer, AddFinalizer, EndSync, stored
<1> QED
  BY <1>2, <1>3, <1>4, <1>5, <1>6, <1>7, <1>8 DEF Next

\* A run is made when it is called for.
LEMMA MakesRun ==
    ASSUME LInv, [Next]_vars, UNCHANGED st, pc = "deploy",
           NEW n \in Names, Created(n), run = 0
    PROVE  Lifecycle!Make(n)
<1>1. TypeOK /\ HashOK /\ KindOK /\ MarkOK /\ hash \in Hashes
  BY DEF LInv, SInv, IInv, TypeOK
<1>2. Deployments[n].phase = "absent"
  BY PhaseValues, SeenRun DEF Created
<1>3. Lifecycle!CalledFor(hash)
  <2>1. CASE obj.deleting
    <3>1. hash \in DestroyHashes /\ st.deleting
      BY <1>1, <2>1 DEF KindOK, MarkOK, DestroyHashes
    <3> QED
      BY <3>1 DEF Lifecycle!CalledFor
  <2>2. CASE ~obj.deleting
    <3>1. hash.action = "create"
      BY <1>1, <2>2 DEF KindOK
    <3>2. hash \notin DestroyHashes
      BY <3>1 DEF DestroyHashes
    <3>3. st.lastRunHash # hash /\ st.lastRunHash \notin DestroyHashes
      BY <1>1, <3>1 DEF HashOK, DestroyHashes
    <3> QED
      BY <3>2, <3>3 DEF Lifecycle!CalledFor
  <2> QED
    BY <2>1, <2>2
<1>4. Deployments' = [Deployments EXCEPT ![n] =
                         [phase |-> "made", hash |-> hash, applied |-> FALSE]]
  <2>1. execs' = [execs EXCEPT ![n] = [NoExecution EXCEPT !.hash = hash,
                                          !.stage = 1, !.live = TRUE]]
    BY DEF Created
  <2>2. /\ execs'[n].stage = 1 /\ execs'[n].hash = hash
        /\ execs'[n].applied = FALSE
        /\ \A m \in Names \ {n} : execs'[m] = execs[m]
    BY <1>1, <2>1 DEF TypeOK, NoExecution
  <2> QED
    BY <2>2, PhaseValues DEF Deployments
<1> QED
  BY <1>1, <1>2, <1>3, <1>4 DEF Lifecycle!Make, Lifecycle!state, RunInProgress

\* The writes of a deployment that StateLifecycle knows of are the Job and the
\* last one.
LEMMA DeploysRun ==
    ASSUME TypeOK, UNCHANGED st, run \in Names, execs[run].stage \in 1..8,
           execs' = [execs EXCEPT ![run].stage = @ + 1]
    PROVE  Deployments' = Deployments \/ Lifecycle!Deploy(run)
<1> DEFINE s == execs[run].stage
<1>1. /\ execs'[run].stage = s + 1
      /\ execs'[run].hash = execs[run].hash
      /\ execs'[run].applied = execs[run].applied
      /\ \A m \in Names \ {run} : execs'[m] = execs[m]
  BY DEF TypeOK, Executions
<1>2. CASE s \in 1..4 \cup 6..7
  BY <1>1, <1>2, PhaseValues, UnseenStep
<1>3. ASSUME NEW p, Phase(s + 1) = p
      PROVE  Deployments' = [Deployments EXCEPT ![run].phase = p]
  BY <1>1, <1>3 DEF Deployments
<1>4. Deployments[run].phase = Phase(s)
  BY SeenRun
<1>5. CASE s = 5
  <2>1. Deployments[run].phase = "made"
    BY <1>4, <1>5, PhaseValues
  <2>2. Deployments' = [Deployments EXCEPT ![run].phase = "started"]
    BY <1>3, <1>5, PhaseValues
  <2> QED
    BY <2>1, <2>2 DEF Lifecycle!Deploy, Lifecycle!state, RunInProgress
<1>6. CASE s = 8
  <2>1. Deployments[run].phase = "started"
    BY <1>4, <1>6, PhaseValues
  <2>2. Deployments' = [Deployments EXCEPT ![run].phase = "complete"]
    BY <1>3, <1>6, PhaseValues
  <2> QED
    BY <2>1, <2>2 DEF Lifecycle!Deploy, Lifecycle!state, RunInProgress
<1> QED
  BY <1>2, <1>5, <1>6

LEMMA ReportsRun ==
    ASSUME TypeOK, ExecutorReports
    PROVE  \E n \in Names : Lifecycle!Report(n)
<1>1. PICK n \in Names : /\ execs[n].stage >= JobStage
                         /\ execs' = [execs EXCEPT ![n].applied = TRUE]
                         /\ UNCHANGED st
  BY DEF ExecutorReports
<1>2. execs[n].stage \in 6..9
  BY <1>1 DEF TypeOK, Executions, JobStage, Stages
<1>3. Deployments[n].phase \in {"started", "complete"}
  BY <1>2, PhaseValues, SeenRun
<1>4. Deployments' = [Deployments EXCEPT ![n].applied = TRUE]
  <2>1. /\ execs'[n].stage = execs[n].stage /\ execs'[n].hash = execs[n].hash
        /\ execs'[n].applied = TRUE
        /\ \A m \in Names \ {n} : execs'[m] = execs[m]
    BY <1>1 DEF TypeOK, Executions
  <2> QED
    BY <2>1 DEF Deployments
<1> QED
  BY <1>1, <1>3, <1>4 DEF Lifecycle!Report, Lifecycle!state, RunInProgress

-----------------------------------------------------------------------------
(* ... then the State *)

\* What the handler's copy says when its Update is accepted
LEMMA WroteStatus ==
    ASSUME LInv, NEW o \in StateObjects, HandlerWrote(o), SameRun(obj, o)
    PROVE  Lifecycle!KeepStatus \/ Lifecycle!Complete \/ Lifecycle!Announce
<1>1. /\ st \in StateObjects /\ st' \in StateObjects /\ Fresh(obj)
      /\ StatusMatches(obj, st, execs) /\ Tracked(st)
  BY StoredType
     DEF LInv, SInv, IInv, TypeOK, FreshOK, StatusOK, CopiesTracked, HandlerWrote
<1>2. st.rv = obj.rv
  BY DEF HandlerWrote, CanWrite
<1>3. /\ st'.lastRunHash = obj.lastRunHash /\ st'.jobDeployed = obj.jobDeployed
      /\ st'.executionName = obj.executionName
  BY <1>1, StoredFields DEF HandlerWrote, SameRun
<1>4. st.jobDeployed \in BOOLEAN /\ obj.jobDeployed \in BOOLEAN
  BY DEF LInv, SInv, IInv, TypeOK, StateObjects
<1>5. /\ obj.deleting = st.deleting /\ obj.destroyOnDelete = st.destroyOnDelete
      /\ obj.jobDeployed => st.jobDeployed /\ st.executionName = obj.executionName
  BY <1>1, <1>2 DEF Fresh
<1>6. CASE st'.lastRunHash = st.lastRunHash /\ st'.jobDeployed = st.jobDeployed
  <2>1. RunInProgress' = RunInProgress
    BY <1>3, <1>5, <1>6 DEF RunInProgress
  <2> QED
    BY <1>6, <2>1 DEF Lifecycle!KeepStatus
<1>7. CASE st'.lastRunHash = st.lastRunHash /\ st.jobDeployed /\ ~obj.jobDeployed
  <2>1. ~st.deleting /\ execs[st.executionName].applied
    BY <1>1, <1>2, <1>5, <1>7 DEF StatusMatches
  <2>2. st.executionName \in Names
    BY <1>1, <1>7 DEF Tracked, StateObjects
  <2>3. /\ RunInProgress = st.executionName /\ RunInProgress' = 0
        /\ st.executionName # 0
    BY <1>1, <1>3, <1>7 DEF RunInProgress, Tracked
  <2>4. Lifecycle!Applied
    BY <2>1, <2>2, <2>3, SeenRun DEF Lifecycle!Applied
  <2> QED
    BY <1>7, <2>1, <2>3, <2>4 DEF Lifecycle!Complete
<1>8. CASE st'.lastRunHash # st.lastRunHash
  <2>1. /\ st.deleting /\ st.destroyOnDelete /\ ~obj.jobDeployed
        /\ st'.lastRunHash.action = "destroy"
    BY <1>1, <1>2, <1>3, <1>5, <1>8 DEF StatusMatches
  <2>2. ~st.jobDeployed
    BY <1>1, <1>2, <1>5, <2>1 DEF StatusMatches
  <2>3. RunInProgress = 0 /\ RunInProgress' = 0
    BY <1>3, <2>1, <2>2 DEF RunInProgress
  <2>4. st'.lastRunHash \in DestroyHashes
    BY <1>1, <2>1 DEF DestroyHashes, StateObjects
  <2> QED
    BY <2>1, <2>3, <2>4 DEF Lifecycle!Announce
<1> QED
  BY <1>3, <1>4, <1>5, <1>6, <1>7, <1>8

LEMMA WroteRecord ==
    ASSUME LInv, NEW o \in StateObjects, HandlerWrote(o), pc = "record",
           o.jobDeployed, o.executionName = run, o.lastRunHash = hash
    PROVE  \E n \in Names : Lifecycle!Record(n)
<1>1. /\ st \in StateObjects /\ Fresh(obj) /\ run \in Names
      /\ execs[run].stage = 9 /\ execs[run].hash = hash /\ hash \in Hashes
      /\ hash.action = IF obj.deleting THEN "destroy" ELSE "create"
  BY DEF LInv, SInv, IInv, TypeOK, FreshOK, DeployOK, KindOK, Stages
<1>2. /\ st'.jobDeployed /\ st'.executionName = run /\ st'.lastRunHash = hash
  BY <1>1, StoredFields DEF HandlerWrote
<1>3. hash \in DestroyHashes <=> st.deleting
  <2>1. obj.deleting = st.deleting
    BY <1>1 DEF Fresh, HandlerWrote, CanWrite
  <2> QED
    BY <1>1, <2>1 DEF DestroyHashes
<1>4. Deployments[run].phase = "complete" /\ Deployments[run].hash = hash
  BY <1>1, PhaseValues, SeenRun
<1>5. RunInProgress' = run
  BY <1>2 DEF RunInProgress
<1>6. Lifecycle!Record(run)
  BY <1>2, <1>3, <1>4, <1>5 DEF Lifecycle!Record
<1> QED
  BY <1>1, <1>6

LEMMA WroteFinalizer ==
    ASSUME LInv, NEW o \in StateObjects, HandlerWrote(o)
    PROVE  Lifecycle!KeepFinalizer \/ Lifecycle!Hold \/ Lifecycle!Release
<1>1. /\ st \in StateObjects /\ Fresh(obj) /\ obj \in StateObjects
      /\ HeldOK /\ KindOK /\ DoneOK /\ st.present
  BY DEF LInv, SInv, IInv, TypeOK, FreshOK, HandlerWrote, CanWrite
<1>2. /\ obj.deleting = st.deleting /\ obj.finalizer = st.finalizer
      /\ obj.destroyOnDelete = st.destroyOnDelete
      /\ obj.jobDeployed => st.jobDeployed /\ st.executionName = obj.executionName
  BY <1>1 DEF Fresh, HandlerWrote, CanWrite
<1>3. /\ st'.finalizer = o.finalizer
      /\ st'.present = ~(obj.deleting /\ ~o.finalizer)
  BY <1>1, StoredFields DEF HandlerWrote
<1>4. o.finalizer \in BOOLEAN /\ st.present \in BOOLEAN
  BY <1>1 DEF StateObjects
<1>5. CASE o.finalizer = obj.finalizer
  BY <1>1, <1>2, <1>3, <1>4, <1>5 DEF HeldOK, Lifecycle!KeepFinalizer
<1>6. CASE o.finalizer /\ ~obj.deleting
  BY <1>1, <1>2, <1>3, <1>4, <1>6 DEF Lifecycle!Hold
<1>7. CASE ~o.finalizer /\ pc = "unfinalize"
  <2>1. obj.deleting
    BY <1>1, <1>7 DEF KindOK
  <2>2. ASSUME st.destroyOnDelete
        PROVE  Lifecycle!Applied
    <3>1. /\ st.jobDeployed /\ st.executionName # 0
          /\ execs[st.executionName].applied
      BY <1>1, <1>2, <1>7, <2>2 DEF DoneOK
    <3>2. st.executionName \in Names /\ RunInProgress = st.executionName
      BY <1>1, <3>1 DEF StateObjects, RunInProgress
    <3> QED
      BY <3>1, <3>2, SeenRun DEF Lifecycle!Applied
  <2> QED
    BY <1>2, <1>3, <1>4, <1>7, <2>1, <2>2 DEF Lifecycle!Release
<1> QED
  BY <1>5, <1>6, <1>7 DEF HandlerWrote

LEMMA WroteSaves ==
    ASSUME LInv, NEW o \in StateObjects, HandlerWrote(o)
    PROVE  Lifecycle!Save
<1>1. /\ Lifecycle!KeepStatus \/ Lifecycle!Complete \/ Lifecycle!Announce
            \/ \E n \in Names : Lifecycle!Record(n)
      /\ Lifecycle!KeepFinalizer \/ Lifecycle!Hold \/ Lifecycle!Release
  BY WroteStatus, WroteRecord, WroteFinalizer DEF HandlerWrote
<1>2. st \in StateObjects
  BY DEF LInv, SInv, IInv, TypeOK
<1>3. st'.deleting = st.deleting /\ st'.destroyOnDelete = st.destroyOnDelete
  BY <1>2, WroteFresh, StoredFields DEF LInv, SInv, HandlerWrote
<1>4. Deployments' = Deployments
  BY DEF HandlerWrote, Deployments
<1>5. st.present
  BY DEF HandlerWrote, CanWrite
<1> QED
  BY <1>1, <1>3, <1>4, <1>5 DEF Lifecycle!Save

LEMMA UserChanges ==
    ASSUME TypeOK, TypeOK', UserWrote
    PROVE  Lifecycle!Edit \/ Lifecycle!Rerun \/ Lifecycle!Delete
<1>1. /\ st \in StateObjects /\ st' \in StateObjects /\ st.present
      /\ st'.finalizer = st.finalizer
      /\ Deployments' = Deployments
  BY DEF TypeOK, UserWrote, Deployments
<1>2. CASE Edited
  <2>1. RunInProgress' = RunInProgress /\ st'.lastRunHash = st.lastRunHash
    BY <1>2 DEF Edited, SameRun, RunInProgress
  <2> QED
    BY <1>1, <1>2, <2>1 DEF Edited, Lifecycle!Edit
<1>3. CASE Reran
  <2>1. RunInProgress' = 0
    BY <1>3 DEF Reran, RunInProgress
  <2> QED
    BY <1>1, <1>3, <2>1 DEF Reran, Lifecycle!Rerun
<1>4. CASE Deleted
  <2>1. RunInProgress' = RunInProgress /\ st'.lastRunHash = st.lastRunHash
    BY <1>4 DEF Deleted, SameRun, RunInProgress
  <2>2. st'.deleting \in BOOLEAN
    BY <1>1 DEF StateObjects
  <2> QED
    BY <1>1, <1>4, <2>1, <2>2 DEF Deleted, Lifecycle!Delete
<1> QED
  BY <1>2, <1>3, <1>4 DEF UserWrote

LEMMA LifecycleInit == Init => Lifecycle!Init
<1> SUFFICES ASSUME Init PROVE Lifecycle!Init
  OBVIOUS
<1>1. PICK i \in Images, d \in BOOLEAN :
        st = [NoState EXCEPT !.present = TRUE, !.rv = 1, !.image = i,
                             !.destroyOnDelete = d]
  BY DEF Init
<1>2. /\ st.present = TRUE /\ st.deleting = FALSE /\ st.finalizer = FALSE
      /\ st.destroyOnDelete \in BOOLEAN /\ ~st.jobDeployed
      /\ st.lastRunHash = NoHash
  BY <1>1 DEF NoState
<1>3. RunInProgress = 0
  BY <1>2 DEF RunInProgress
<1>4. Deployments = [n \in Names |-> Lifecycle!Absent]
  BY PhaseValues DEF Init, Deployments, NoExecution, Lifecycle!Absent
<1> QED
  BY <1>2, <1>3, <1>4 DEF Lifecycle!Init

\* A step that writes no State is a step of a run, or none.
LEMMA LifecycleRuns ==
    ASSUME LInv, [Next]_vars, st' = st
    PROVE  [Lifecycle!Next]_(Lifecycle!vars)
<1>1. TypeOK /\ DeployOK
  BY DEF LInv, SInv, IInv
<1>2. CASE Deployments' = Deployments
  BY <1>2 DEF Lifecycle!vars, RunInProgress
<1>3. ASSUME pc = "deploy", NEW n \in Names, Created(n)
      PROVE  Lifecycle!Make(n)
  <2>1. execs'[n].stage = 1
    BY <1>1, <1>3, CreatedEffect
  <2>2. run = 0
    BY <1>1, <1>3, <2>1, NewExecution DEF Created
  <2> QED
    BY <1>3, <2>2, MakesRun
<1>4. CASE /\ run \in Names /\ execs[run].stage \in 1..8
           /\ execs' = [execs EXCEPT ![run].stage = @ + 1]
  <2>1. Deployments' = Deployments \/ Lifecycle!Deploy(run)
    BY <1>1, <1>4, DeploysRun
  <2> QED
    BY <1>2, <1>4, <2>1 DEF Lifecycle!Next
<1>5. CASE ExecutorReports
  BY <1>1, <1>5, ReportsRun DEF Lifecycle!Next
<1> QED
  BY <1>1, <1>2, <1>3, <1>4, <1>5, RunSteps DEF Lifecycle!Next

LEMMA LifecycleStep == LInv /\ LInv' /\ [Next]_vars => [Lifecycle!Next]_(Lifecycle!vars)
<1> SUFFICES ASSUME LInv, LInv', [Next]_vars
             PROVE  [Lifecycle!Next]_(Lifecycle!vars)
  OBVIOUS
<1>1. TypeOK /\ TypeOK'
  BY DEF LInv, SInv, IInv
<1>2. CASE \E o \in StateObjects : HandlerWrote(o)
  BY <1>2, WroteSaves DEF Lifecycle!Next
<1>3. CASE UserWrote
  BY <1>1, <1>3, UserChanges DEF Lifecycle!Next
<1> QED
  BY <1>1, <1>2, <1>3, LifecycleRuns, StepWrites

\* The controller of a State, with everything that conflicts, fails, crashes
\* or is edited meanwhile, does nothing StateLifecycle does not allow.
THEOREM LifecycleImplemented == Spec => LifecycleKept
<1>1. LInv /\ LInv' /\ [Next]_vars => [Lifecycle!Next]_(Lifecycle!vars)
  BY LifecycleStep
<1> QED
  BY <1>1, LifecycleInit, LifecycleInvariance, PTL
     DEF Spec, LifecycleKept, Lifecycle!Spec

=============================================================================
