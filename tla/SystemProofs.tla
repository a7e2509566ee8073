---------------------------- MODULE SystemProofs ----------------------------
(***************************************************************************)
(* A State that is deleted at rest leaves no infrastructure behind         *)
(* (RemovalDestroys of System), for every value of the constants.          *)
(*                                                                         *)
(* Every step of System is one of StateController or leaves its variables  *)
(* alone, so what StateControllerProofs shows of the controller is         *)
(* available. What is added relates the controller to the runs.            *)
(***************************************************************************)
EXTENDS System, StateControllerProofs

-----------------------------------------------------------------------------
(* The inductive invariant *)

JobStates == {"absent", "active", "deleted", "failed"}

RunTypes ==
    /\ job \in [Names -> JobStates]
    /\ answers \in [Names -> SUBSET {"yes", "no"}]
    /\ infra \in BOOLEAN
    /\ calm \in BOOLEAN

\* A run that creates or destroys
Create(n) == execs[n].hash.action = "create"
Destroy(n) == execs[n].hash.action = "destroy"

\* The Execution of a run whose Job was created has one, a run was carried out
\* by its Job, and an Execution is applied only if its run was carried out or
\* is a destroy that was refused.
JobsOK ==
    \A n \in Names :
        /\ job[n] # "absent" <=> Deployed(n)
        /\ n \in done => Deployed(n)
        /\ execs[n].applied => /\ Deployed(n)
                               /\ n \in done \/ (Destroy(n) /\ "no" \in answers[n])

\* A deletion is never undone, so a copy that shows it is right about it, and
\* a destroy is made only for a State that is being deleted.
DeletionOK ==
    /\ MarkOK
    /\ pc \in {"lock", "deploy", "record"} => hash.action \in Actions
    /\ \A n \in Names :
          execs[n].stage # 0 => \/ Create(n)
                                \/ Destroy(n) /\ st.deleting

\* Once the State was deleted at rest, only destroys are deployed, recorded
\* and active; and one that was carried out has left nothing.
CalmOK ==
    calm =>
        /\ st.deleting
        /\ pc \in {"deploy", "record"} => hash.action = "destroy"
        /\ st.jobDeployed => Destroy(st.executionName)
        /\ \A n \in Names : job[n] = "active" => Destroy(n)
        /\ \A n \in Names : n \in done /\ Destroy(n) => ~infra

SystemInv == SInv /\ RunTypes /\ JobsOK /\ DeletionOK /\ CalmOK

-----------------------------------------------------------------------------
(* Steps *)

\* Every step of System is one of StateController, or none.
LEMMA SystemSteps == [SystemNext]_allvars => [Next]_vars
BY DEF SystemNext, ControllerStep, ExecutorChanges, ExecutorReport, JobEnds,
       Approval, Next, allvars

\* A deployment only grows, and for one run.
LEMMA DeploymentGrows ==
    ASSUME TypeOK, DeployOK, [Next]_vars, NEW n \in Names
    PROVE  /\ execs[n].stage # 0 => execs'[n].hash = execs[n].hash
           /\ execs[n].stage # 0 => execs'[n].stage # 0
           /\ Deployed(n) => Deployed(n)'
           /\ Deployed(n)' /\ ~Deployed(n) =>
                pc = "deploy" /\ n = run /\ execs'[n].hash = hash
<1>1. execs[n].stage \in 0..Len(Stages) /\ Len(Stages) = 9
  BY DEF TypeOK, Executions, Stages
<1> QED
  BY <1>1, DeploymentChange DEF Deployed, JobStage

\* No step of the controller, its users or its environment applies an
\* Execution.
LEMMA ControllerApplies ==
    ASSUME TypeOK, ControllerStep, NEW n \in Names
    PROVE  execs'[n].applied => execs[n].applied
<1>1. CASE UNCHANGED execs
  BY <1>1
<1>2. ASSUME NEW m \in Names, Created(m)
      PROVE  execs'[n].applied => execs[n].applied
  BY <1>2 DEF Created, TypeOK, NoExecution
<1>3. ASSUME NEW m \in Names,
             \/ execs' = [execs EXCEPT ![m].stage = @ + 1]
             \/ execs' = [execs EXCEPT ![m].live = FALSE]
             \/ execs' = [execs EXCEPT ![m].touched = TRUE]
      PROVE  execs'[n].applied => execs[n].applied
  <2>1. execs[m] \in Executions
    BY DEF TypeOK
  <2>2. CASE n # m
    BY <1>3, <2>2 DEF TypeOK
  <2>3. CASE n = m
    <3>1. \/ execs'[m] = [execs[m] EXCEPT !.stage = @ + 1]
          \/ execs'[m] = [execs[m] EXCEPT !.live = FALSE]
          \/ execs'[m] = [execs[m] EXCEPT !.touched = TRUE]
      BY <1>3 DEF TypeOK
    <3> QED
      BY <2>1, <2>3, <3>1 DEF Executions
  <2> QED
    BY <2>2, <2>3
<1>4. CASE CreateExecution \/ CreateExecutionFails
  BY <1>1, <1>2, <1>4 DEF CreateExecution, CreateExecutionFails
<1>5. CASE DeployStep \/ DeployFails
  <2>1. run \in Names
    BY <1>5 DEF DeployStep, DeployFails, TypeOK
  <2> QED
    BY <1>1, <1>3, <1>5, <2>1 DEF DeployStep, DeployFails
<1>6. CASE TouchExecution \/ PruneExecution
  BY <1>3, <1>6 DEF TouchExecution, PruneExecution
<1>7. CASE InformerSync \/ ExecutionOnChange \/ RelatedResource \/ Crash \/ User
  BY <1>1, <1>7
     DEF InformerSync, ExecutionOnChange, RelatedResource, Crash, stored,
         User, EditSpec, RunState, DeleteState, ChangeModule, ChangeVariables
<1>8. CASE Sync
  BY <1>1, <1>4, <1>5, <1>8
     DEF Sync, StartSync, GatherModule, GatherVariables, GatherFails,
         CheckRunFails, NoticeCompletion, SaveCompletion, CompareHash, Lock,
         RecordRun, RemoveDone, RemoveWaits, StartDestroy, LockDestroy,
         RecordDestroy, RemoveFinalizer, AddFinalizer, EndSync, stored
<1> QED
  BY <1>6, <1>7, <1>8 DEF ControllerStep

-----------------------------------------------------------------------------
(* The deletion and the kind of a run *)

\* Only a user deletes, and the handler stays where it is.
LEMMA Deletes ==
    ASSUME TypeOK, FreshOK, [Next]_vars, ~st.deleting, st'.deleting
    PROVE  UserWrote
<1>1. st \in StateObjects
  BY DEF TypeOK
<1>2. ASSUME NEW o \in StateObjects, HandlerWrote(o)
      PROVE  FALSE
  BY <1>1, <1>2, WroteFresh, StoredFields DEF HandlerWrote
<1> QED
  BY <1>2, StepWrites

\* What the handler deploys is a create or a destroy.
LEMMA StepKind ==
    ASSUME TypeOK, DeployOK, DeletionOK, [Next]_vars,
           pc' \in {"lock", "deploy", "record"}
    PROVE  hash'.action \in Actions
<1>1. CASE UNCHANGED <<pc, hash, obj, run>>
  BY <1>1 DEF DeletionOK
<1>2. CASE CompareHash
  BY <1>2 DEF CompareHash, RunHash, Actions, Return
<1>3. CASE StartDestroy
  BY <1>3 DEF StartDestroy, RunHash, Actions
<1>4. CASE Lock \/ LockDestroy
  BY <1>4 DEF Lock, LockDestroy, DeletionOK
<1>5. CASE pc = "deploy" /\ UNCHANGED hash
  BY <1>5 DEF DeletionOK
<1> QED
  BY <1>1, <1>2, <1>3, <1>4, <1>5, HashSteps

LEMMA StepDeletion ==
    ASSUME SInv, TypeOK', DeletionOK, [Next]_vars
    PROVE  DeletionOK'
<1>1. TypeOK /\ DeployOK /\ FreshOK /\ HashOK
  BY DEF SInv, IInv
<1>2. MarkOK'
  BY <1>1, StepMark DEF DeletionOK
<1>3. pc' \in {"lock", "deploy", "record"} => hash'.action \in Actions
  BY <1>1, StepKind
<1>4. ASSUME NEW n \in Names, execs'[n].stage # 0
      PROVE  \/ execs'[n].hash.action = "create"
             \/ execs'[n].hash.action = "destroy" /\ st'.deleting
  <2>1. CASE execs[n].stage # 0
    <3>1. execs'[n].hash = execs[n].hash
      BY <1>1, <2>1, DeploymentGrows
    <3>2. Create(n) \/ (Destroy(n) /\ st.deleting)
      BY <2>1 DEF DeletionOK
    <3> QED
      BY <1>1, <3>1, <3>2, DeletionKept DEF Create, Destroy
  <2>2. CASE execs[n].stage = 0
    <3>1. pc = "deploy" /\ execs'[n].hash = hash
      BY <1>1, <1>4, <2>2, DeploymentChange
    <3>2. hash.action \in Actions
      BY <3>1 DEF DeletionOK
    <3>3. hash.action = "destroy" => st.deleting
      BY <1>1, <3>1 DEF HashOK, DeletionOK, MarkOK
    <3> QED
      BY <1>1, <3>1, <3>2, <3>3, DeletionKept DEF Actions
  <2> QED
    BY <2>1, <2>2
<1> QED
  BY <1>2, <1>3, <1>4 DEF DeletionOK, Create, Destroy

-----------------------------------------------------------------------------
(* The runs *)

\* A step of the controller creates at most the Job it deploys.
LEMMA ControllerJobs ==
    ASSUME TypeOK, TypeOK', DeployOK, DeletionOK, RunTypes, JobsOK, ControllerStep
    PROVE  /\ UNCHANGED <<answers, done>>
           /\ job' \in [Names -> JobStates]
           /\ \A n \in Names :
                 IF ~Deployed(n) /\ Deployed(n)'
                 THEN job'[n] = "active"
                 ELSE job'[n] = job[n]
<1>1. [Next]_vars
  BY DEF ControllerStep, Next
<1>2. CASE \A n \in Names : ~(~Deployed(n) /\ Deployed(n)')
  BY <1>2 DEF ControllerStep, runs, RunTypes
<1>3. ASSUME NEW n \in Names, ~Deployed(n), Deployed(n)'
      PROVE  /\ UNCHANGED <<answers, done>>
             /\ job' = [job EXCEPT ![n] = "active"]
             /\ \A m \in Names \ {n} : Deployed(m)' => Deployed(m)
  <2>1. PICK m \in Names : Run!Deploy(m)
    BY <1>3 DEF ControllerStep
  <2>2. PICK o \in Run!Orders : Orders' = [Orders EXCEPT ![m] = o]
    BY <2>1 DEF Run!Deploy
  <2>3. /\ pc = "deploy" /\ n = run /\ execs'[n].hash = hash
        /\ \A k \in Names \ {n} : Deployed(k)' => Deployed(k)
    BY <1>1, <1>3, DeploymentGrows
  <2>4. Orders[n].action = "none" /\ Orders'[n].action # "none"
    BY <1>3, <2>3 DEF Orders, DeletionOK, Actions
  <2>5. m = n
    BY <2>2, <2>4 DEF Orders
  <2> QED
    BY <2>1, <2>3, <2>5 DEF Run!Deploy
<1>4. ASSUME NEW n \in Names, ~Deployed(n), Deployed(n)'
      PROVE  /\ UNCHANGED <<answers, done>>
             /\ job' \in [Names -> JobStates]
             /\ \A m \in Names :
                   IF ~Deployed(m) /\ Deployed(m)'
                   THEN job'[m] = "active"
                   ELSE job'[m] = job[m]
  BY <1>3, <1>4 DEF RunTypes, JobStates
<1> QED
  BY <1>2, <1>4

\* What the other steps do: a Job ends or stays, answers are added, and a run
\* is carried out by its Job.
RunMoves ==
    /\ UNCHANGED vars
    /\ job' \in [Names -> JobStates]
    /\ answers' \in [Names -> SUBSET {"yes", "no"}]
    /\ \A n \in Names :
         /\ job'[n] = job[n] \/ (job[n] = "active" /\ job'[n] \in {"deleted", "failed"})
         /\ answers[n] \subseteq answers'[n]
         /\ n \in done => n \in done'
         /\ n \in done' => n \in done \/ job[n] = "active"

LEMMA ChangeMoves ==
    ASSUME RunTypes, UNCHANGED vars, NEW n \in Names, Run!Change(n)
    PROVE  RunMoves
BY DEF RunTypes, RunMoves, Run!Change

LEMMA EndMoves ==
    ASSUME RunTypes, UNCHANGED vars, NEW n \in Names, Run!End(n)
    PROVE  RunMoves
BY DEF RunTypes, RunMoves, Run!End, JobStates

LEMMA AnswerMoves ==
    ASSUME RunTypes, UNCHANGED vars, NEW n \in Names, NEW a \in {"yes", "no"},
           Run!Answer(n, a)
    PROVE  RunMoves
<1>1. answers' = [answers EXCEPT ![n] = @ \cup {a}] /\ UNCHANGED <<job, done>>
  BY DEF Run!Answer
<1>2. answers[n] \cup {a} \in SUBSET {"yes", "no"}
  BY DEF RunTypes
<1> QED
  BY <1>1, <1>2 DEF RunTypes, RunMoves

LEMMA OtherMoves ==
    ASSUME RunTypes, ExecutorChanges \/ JobEnds \/ Approval
    PROVE  RunMoves
BY ChangeMoves, EndMoves, AnswerMoves DEF ExecutorChanges, JobEnds, Approval

\* An Execution that is applied by a report is that of a run carried out.
LEMMA ReportApplies ==
    ASSUME TypeOK, RunTypes, JobsOK, ExecutorReport
    PROVE  /\ UNCHANGED <<job, answers, done, infra, calm, st, pc, hash, run>>
           /\ SameDeployments
           /\ \A n \in Names :
                execs'[n].applied =>
                  \/ execs[n].applied
                  \/ /\ job[n] = "active"
                     /\ n \in done \/ (Destroy(n) /\ "no" \in answers[n])
<1>1. PICK r \in Names : Run!Report(r)
  BY DEF ExecutorReport
<1>2. /\ UNCHANGED <<job, answers, done>> /\ job[r] = "active"
      /\ {n \in Names : execs'[n].applied} = {n \in Names : execs[n].applied} \cup {r}
      /\ r \in done \/ Run!Refused(r)
  BY <1>1 DEF Run!Report, Run!Carried
<1>3. Run!Refused(r) => Destroy(r) /\ "no" \in answers[r]
  BY DEF Run!Refused, Orders, Destroy
<1>4. SameDeployments
  BY FlagWrites DEF ExecutorReport, ExecutorReports
<1>5. UNCHANGED <<infra, calm, st, pc, hash, run>>
  BY DEF ExecutorReport, ExecutorReports, local
<1> QED
  BY <1>2, <1>3, <1>4, <1>5

-----------------------------------------------------------------------------
(* The invariant is inductive *)

LEMMA StepJobs ==
    ASSUME SInv, TypeOK', RunTypes, JobsOK, DeletionOK, SystemNext
    PROVE  RunTypes' /\ JobsOK'
<1>1. TypeOK /\ DeployOK
  BY DEF SInv, IInv
<1>2. CASE ControllerStep
  <2>1. [Next]_vars
    BY <1>2 DEF ControllerStep, Next
  <2>2. /\ UNCHANGED <<answers, done>>
        /\ job' \in [Names -> JobStates]
        /\ \A n \in Names :
              IF ~Deployed(n) /\ Deployed(n)'
              THEN job'[n] = "active"
              ELSE job'[n] = job[n]
    BY <1>1, <1>2, ControllerJobs
  <2>3. infra' \in BOOLEAN /\ calm' \in BOOLEAN
    BY <1>2 DEF ControllerStep, RunTypes
  <2>4. ASSUME NEW n \in Names
        PROVE  /\ job'[n] # "absent" <=> Deployed(n)'
               /\ n \in done' => Deployed(n)'
    BY <1>1, <2>1, <2>2, DeploymentGrows DEF JobsOK
  <2>5. ASSUME NEW n \in Names, execs'[n].applied
        PROVE  /\ Deployed(n)'
               /\ n \in done' \/ (Destroy(n)' /\ "no" \in answers'[n])
    <3>1. execs[n].applied
      BY <1>1, <1>2, <2>5, ControllerApplies
    <3>2. /\ Deployed(n)
          /\ n \in done \/ (Destroy(n) /\ "no" \in answers[n])
      BY <3>1 DEF JobsOK
    <3>3. execs[n].stage # 0
      BY <3>2 DEF Deployed, JobStage
    <3>4. execs'[n].hash = execs[n].hash /\ Deployed(n)'
      BY <1>1, <2>1, <3>2, <3>3, DeploymentGrows
    <3> QED
      BY <2>2, <3>2, <3>4 DEF Destroy
  <2> QED
    BY <2>2, <2>3, <2>4, <2>5 DEF RunTypes, JobsOK
<1>3. CASE ExecutorReport
  <2>1. /\ UNCHANGED <<job, answers, done, infra, calm>>
        /\ \A n \in Names : /\ Deployed(n)' = Deployed(n)
                            /\ Destroy(n)' = Destroy(n)
    BY <1>1, <1>3, ReportApplies DEF SameDeployments, Deployed, Destroy
  <2> QED
    BY <1>1, <1>3, <2>1, ReportApplies DEF RunTypes, JobsOK
<1>4. CASE ExecutorChanges \/ JobEnds \/ Approval
  <2>1. RunMoves
    BY <1>4, OtherMoves
  <2>2. infra' \in BOOLEAN /\ calm' \in BOOLEAN
    BY <1>4 DEF ExecutorChanges, JobEnds, Approval, Changed, RunTypes
  <2>3. \A n \in Names : /\ execs'[n] = execs[n]
                         /\ Deployed(n)' = Deployed(n)
                         /\ Destroy(n)' = Destroy(n)
    BY <2>1 DEF RunMoves, vars, Deployed, Destroy
  <2> QED
    BY <2>1, <2>2, <2>3 DEF RunTypes, RunMoves, JobsOK
<1> QED
  BY <1>2, <1>3, <1>4 DEF SystemNext

\* A lock taken of a State that was deleted is that of a destroy: a sync that
\* wanted to create holds a copy from before the deletion.
LEMMA LockedKind ==
    ASSUME TypeOK, DeployOK, FreshOK, HashOK, [Next]_vars, st.deleting,
           pc \in {"deploy", "record"} => hash.action = "destroy",
           pc' \in {"deploy", "record"}
    PROVE  hash'.action = "destroy"
<1>1. CASE Lock
  <2>1. Updated(obj) /\ pc = "lock" /\ hash.action = "create"
    BY <1>1 DEF Lock, Return
  <2>2. obj.deleting
    BY <2>1 DEF Updated, CanWrite, FreshOK, Fresh
  <2> QED
    BY <2>1, <2>2 DEF HashOK
<1>2. CASE CompareHash \/ StartDestroy
  BY <1>2 DEF CompareHash, StartDestroy, Return
<1>3. CASE LockDestroy
  BY <1>3 DEF LockDestroy
<1> QED
  BY <1>1, <1>2, <1>3, HashSteps

\* The run that the status names after a step was named before, or is the one
\* the handler records.
LEMMA NamedRun ==
    ASSUME TypeOK, FreshOK, [Next]_vars, st'.jobDeployed
    PROVE  \/ st.jobDeployed /\ st'.executionName = st.executionName
           \/ pc = "record" /\ st'.executionName = run
<1>1. ASSUME NEW o \in StateObjects, HandlerWrote(o)
      PROVE  \/ st.jobDeployed /\ st'.executionName = st.executionName
             \/ pc = "record" /\ st'.executionName = run
  <2>1. st' = st \/ SameRun(o, st')
    BY <1>1, StoredRun DEF HandlerWrote
  <2>2. CASE SameRun(o, st')
    BY <1>1, <2>2, WroteFresh DEF SameRun, HandlerWrote
  <2> QED
    BY <2>1, <2>2
<1> QED
  BY <1>1, StepWrites DEF UserWrote, Edited, Reran, Deleted, SameRun

LEMMA NamedKind ==
    ASSUME IInv, FreshOK, [Next]_vars, st'.jobDeployed,
           st.jobDeployed => Destroy(st.executionName),
           pc = "record" => hash.action = "destroy"
    PROVE  Destroy(st.executionName)'
<1>1. TypeOK /\ DeployOK /\ Tracked(st) /\ st \in StateObjects
  BY DEF IInv, TypeOK, CopiesTracked
<1>2. ASSUME NEW n \in Names, execs[n].stage = Len(Stages), Destroy(n),
             st'.executionName = n
      PROVE  Destroy(st.executionName)'
  <2>1. execs[n].stage # 0
    BY <1>2 DEF Stages
  <2> QED
    BY <1>1, <1>2, <2>1, DeploymentGrows DEF Destroy
<1>3. CASE st.jobDeployed /\ st'.executionName = st.executionName
  BY <1>1, <1>2, <1>3 DEF Tracked, StateObjects
<1>4. CASE pc = "record" /\ st'.executionName = run
  BY <1>1, <1>2, <1>4 DEF DeployOK, TypeOK, Destroy
<1> QED
  BY <1>1, <1>3, <1>4, NamedRun

LEMMA ControllerCalm ==
    ASSUME SInv, TypeOK', RunTypes, JobsOK, DeletionOK, CalmOK, ControllerStep
    PROVE  CalmOK'
<1>1. IInv /\ TypeOK /\ DeployOK /\ FreshOK /\ HashOK
  BY DEF SInv, IInv
<1>2. [Next]_vars
  BY DEF ControllerStep, Next
<1>3. /\ UNCHANGED <<done, infra>>
      /\ \A n \in Names :
            IF ~Deployed(n) /\ Deployed(n)'
            THEN job'[n] = "active"
            ELSE job'[n] = job[n]
  BY <1>1, ControllerJobs DEF ControllerStep
<1>4. \A n \in Names : Deployed(n) => execs[n].stage # 0
  BY DEF Deployed, JobStage
<1>5. CASE calm
  <2>1. st'.deleting
    BY <1>1, <1>2, <1>5, DeletionKept DEF CalmOK
  <2>2. pc' \in {"deploy", "record"} => hash'.action = "destroy"
    BY <1>1, <1>2, <1>5, LockedKind DEF CalmOK
  <2>3. st'.jobDeployed => Destroy(st.executionName)'
    BY <1>1, <1>2, <1>5, NamedKind DEF CalmOK
  <2>4. ASSUME NEW n \in Names, job'[n] = "active"
        PROVE  Destroy(n)'
    <3>1. CASE ~Deployed(n) /\ Deployed(n)'
      BY <1>1, <1>2, <1>5, <3>1, DeploymentGrows DEF CalmOK, Destroy
    <3>2. CASE job[n] = "active"
      BY <1>1, <1>2, <1>4, <1>5, <3>2, DeploymentGrows DEF CalmOK, JobsOK, Destroy
    <3> QED
      BY <1>3, <2>4, <3>1, <3>2
  <2>5. ASSUME NEW n \in Names, n \in done', Destroy(n)'
        PROVE  ~infra'
    BY <1>1, <1>2, <1>3, <1>4, <1>5, <2>5, DeploymentGrows DEF CalmOK, JobsOK, Destroy
  <2> QED
    BY <2>1, <2>2, <2>3, <2>4, <2>5 DEF CalmOK
<1>6. CASE st'.deleting /\ ~st.deleting /\ AtRest
  <2>1. /\ UNCHANGED <<execs, pc, hash>>
        /\ st'.jobDeployed => st.jobDeployed
    BY <1>1, <1>2, <1>6, Deletes DEF UserWrote, Edited, Reran, Deleted, SameRun
  <2>2. \A n \in Names : job'[n] = job[n]
    BY <1>3, <2>1 DEF Deployed
  <2>3. \A n \in Names : n \in done => ~Destroy(n)
    BY <1>4, <1>6 DEF JobsOK, DeletionOK, Create, Destroy
  <2> QED
    BY <1>3, <1>6, <2>1, <2>2, <2>3 DEF CalmOK, AtRest, Destroy
<1>7. CASE ~calm'
  BY <1>7 DEF CalmOK
<1> QED
  BY <1>5, <1>6, <1>7 DEF ControllerStep

LEMMA OthersCalm ==
    ASSUME TypeOK, CopiesTracked, RunTypes, JobsOK, CalmOK,
           ExecutorChanges \/ ExecutorReport \/ JobEnds \/ Approval
    PROVE  CalmOK'
<1>1. CASE ExecutorReport
  <2>1. /\ UNCHANGED <<job, done, infra, calm, st, pc, hash>>
        /\ \A n \in Names : Destroy(n)' = Destroy(n)
    BY <1>1, ReportApplies DEF SameDeployments, Destroy
  <2>2. st.jobDeployed => st.executionName \in Names
    BY DEF TypeOK, CopiesTracked, Tracked, StateObjects
  <2> QED
    BY <2>1, <2>2 DEF CalmOK
<1>2. CASE JobEnds \/ Approval
  <2>1. RunMoves
    BY <1>2, OtherMoves
  <2>2. UNCHANGED <<done, infra, calm>>
    BY <1>2 DEF JobEnds, Approval, Run!End, Run!Answer
  <2> QED
    BY <2>1, <2>2 DEF CalmOK, RunMoves, vars, Destroy
<1>3. CASE ExecutorChanges
  <2>1. PICK r \in Names : Run!Change(r) /\ infra' = Changed(r)
    BY <1>3 DEF ExecutorChanges
  <2>2. /\ UNCHANGED <<vars, calm>> /\ UNCHANGED job /\ job[r] = "active"
        /\ done' = done \/ (done' = done \cup {r} /\ r \in done')
    BY <1>3, <2>1 DEF ExecutorChanges, Run!Change
  <2>3. ASSUME calm, NEW n \in Names, n \in done', Destroy(n)
        PROVE  ~infra'
    <3>1. infra' = (infra /\ r \notin done')
      BY <2>1, <2>2, <2>3 DEF Changed, CalmOK, Destroy
    <3>2. CASE r \notin done'
      BY <2>2, <2>3, <3>1, <3>2 DEF CalmOK
    <3> QED
      BY <3>1, <3>2
  <2> QED
    BY <2>2, <2>3 DEF CalmOK, vars, Destroy
<1> QED
  BY <1>1, <1>2, <1>3

LEMMA StepSystemInv == SystemInv /\ [SystemNext]_allvars => SystemInv'
<1> SUFFICES ASSUME SystemInv, [SystemNext]_allvars PROVE SystemInv'
  OBVIOUS
<1>1. SInv /\ SInv' /\ TypeOK /\ TypeOK' /\ [Next]_vars
  BY SystemSteps, StepSInv DEF SystemInv, SInv, IInv
<1>2. DeletionOK'
  BY <1>1, StepDeletion DEF SystemInv
<1>3. CASE SystemNext
  <2>1. RunTypes' /\ JobsOK'
    BY <1>1, <1>3, StepJobs DEF SystemInv
  <2>2. CalmOK'
    BY <1>1, <1>3, ControllerCalm, OthersCalm DEF SystemInv, SInv, IInv, SystemNext
  <2> QED
    BY <1>1, <1>2, <2>1, <2>2 DEF SystemInv
<1>4. CASE UNCHANGED allvars
  BY <1>1, <1>2, <1>4
     DEF SystemInv, allvars, vars, runs, RunTypes, JobsOK, CalmOK, Deployed, Destroy
<1> QED
  BY <1>3, <1>4

LEMMA InitSystemInv == SystemInit => SystemInv
<1> SUFFICES ASSUME SystemInit PROVE SystemInv
  OBVIOUS
<1>1. SInv /\ Init
  BY InitSInv DEF SystemInit
<1>2. \A n \in Names : execs[n].stage = 0 /\ ~execs[n].applied
  BY <1>1 DEF Init, NoExecution
<1>3. /\ job = [n \in Names |-> "absent"]
      /\ answers = [n \in Names |-> {}]
      /\ done = {} /\ infra = FALSE /\ calm = FALSE
  BY DEF SystemInit, Run!Init
<1>4. RunTypes
  BY <1>3 DEF RunTypes, JobStates
<1>5. JobsOK
  BY <1>2, <1>3 DEF JobsOK, Deployed, JobStage
<1>6. DeletionOK
  BY <1>1, <1>2 DEF Init, NoState, DeletionOK, MarkOK
<1>7. CalmOK
  BY <1>3 DEF CalmOK
<1> QED
  BY <1>1, <1>4, <1>5, <1>6, <1>7 DEF SystemInv

-----------------------------------------------------------------------------
(* Theorems *)

THEOREM SystemInvariance == SystemSpec => []SystemInv
BY InitSystemInv, StepSystemInv, PTL DEF SystemSpec

\* Executors that keep their promise are among those that StateController
\* allows: what is proved of it holds of System.
THEOREM ControllerRefined == SystemSpec => Spec
<1>1. SystemInit => Init
  BY DEF SystemInit
<1> QED
  BY <1>1, SystemSteps, PTL DEF SystemSpec, Spec

\* A State with destroyOnDelete that is deleted at rest is let go only after a
\* destroy was carried out that no create followed, or a destroy was refused:
\* whatever is repeated, edited, answered or lost meanwhile (OnRemove of
\* pkg/terraform/state, and what run of pkg/executor reports).
THEOREM RemovalClean == SystemSpec => RemovalDestroys
<1>1. ASSUME SystemInv, [Next]_vars, st.present, st.finalizer, ~st'.present,
             st.destroyOnDelete, calm
      PROVE  ~infra \/ \E n \in Names : st.executionName = n /\ "no" \in answers[n]
  <2>1. TypeOK /\ FreshOK /\ DoneOK /\ Tracked(st)
    BY <1>1 DEF SystemInv, SInv, IInv, CopiesTracked
  <2>2. /\ st.jobDeployed /\ st.executionName # 0
        /\ execs[st.executionName].applied
    BY <1>1, <2>1, StepRemoval
  <2>3. st.executionName \in Names /\ Destroy(st.executionName)
    BY <1>1, <2>1, <2>2 DEF SystemInv, CalmOK, TypeOK, StateObjects
  <2> QED
    BY <1>1, <2>2, <2>3 DEF SystemInv, JobsOK, CalmOK
<1>2. SystemInv /\ [SystemNext]_allvars =>
        [st.present /\ st.finalizer /\ ~st'.present =>
           \/ ~st.destroyOnDelete \/ ~calm
           \/ ~infra
           \/ \E n \in Names : st.executionName = n /\ "no" \in answers[n]]_allvars
  BY <1>1, SystemSteps
<1> QED
  BY <1>2, SystemInvariance, PTL DEF SystemSpec, RemovalDestroys

=============================================================================
