-------------------------------- MODULE System --------------------------------
(***************************************************************************)
(* The State controller and the runs it starts, together: StateController, *)
(* with RunLifecycle (which Executor implements) in the place of executors *)
(* that report whenever they like, and the infrastructure they change.     *)
(*                                                                         *)
(* Each step is a step of StateController, of RunLifecycle, or of both: a  *)
(* Job that is created is a run that is deployed, and the condition        *)
(* Applied that the controller acts on is the report of a run.             *)
(***************************************************************************)
EXTENDS StateController

CONSTANTS AutoConfirms   \* what spec.autoConfirm may be

ASSUME AutoConfirmsOK == AutoConfirms \subseteq BOOLEAN

VARIABLES
    autoConfirm,  \* spec.autoConfirm of the State, copied to its Executions
    job,          \* the Job of each Execution
    answers,      \* what users have answered
    done,         \* the runs Terraform has carried out
    by,           \* the run that changed the infrastructure last
    infra,        \* there is infrastructure of this State
    calm          \* no run was under way when the State was deleted

runs == <<job, answers, done, by>>
allvars == <<vars, autoConfirm, runs, infra, calm>>

-----------------------------------------------------------------------------
(* The runs *)

Deployed(n) == execs[n].stage >= JobStage

\* What createJob tells the executor, and createExecution the Execution
Orders ==
    [n \in Names |->
       [action |-> IF Deployed(n) THEN execs[n].hash.action ELSE "none",
        autoConfirm |-> Deployed(n) /\ autoConfirm]]

Run == INSTANCE RunLifecycle WITH
    Runs <- Names,
    orders <- Orders,
    applied <- {n \in Names : execs[n].applied}

SystemInit ==
    /\ Init
    /\ autoConfirm \in AutoConfirms
    /\ infra = FALSE
    /\ calm = FALSE
    /\ Run!Init

-----------------------------------------------------------------------------
(* The controller, its users and its environment *)

\* Nothing is deployed or about to be, and no run is waiting to be noticed.
AtRest ==
    /\ \A n \in Names : job[n] # "active"
    /\ ~st.jobDeployed
    /\ pc \notin {"deploy", "record"}

ControllerStep ==
    /\ \/ InformerSync \/ ExecutionOnChange \/ RelatedResource
       \/ Sync \/ Crash \/ User
       \/ TouchExecution \/ PruneExecution
    /\ UNCHANGED <<autoConfirm, infra>>
    /\ IF \E n \in Names : ~Deployed(n) /\ Deployed(n)'
       THEN \E n \in Names : Run!Deploy(n)
       ELSE UNCHANGED runs
    /\ calm' = (calm \/ (st'.deleting /\ ~st.deleting /\ AtRest))

-----------------------------------------------------------------------------
(* The executors and their users *)

\* A create that fails half way leaves something, a destroy that does leaves
\* what there was.
Changed(n) ==
    IF execs[n].hash.action = "create" THEN TRUE
    ELSE infra /\ n \notin done'

ExecutorChanges ==
    /\ UNCHANGED <<vars, autoConfirm, calm>>
    /\ \E n \in Names : Run!Change(n) /\ infra' = Changed(n)

ExecutorReport ==
    /\ UNCHANGED <<autoConfirm, infra, calm>>
    /\ ExecutorReports
    /\ \E n \in Names : Run!Report(n)

JobEnds ==
    /\ UNCHANGED <<vars, autoConfirm, infra, calm>>
    /\ \E n \in Names : Run!End(n)

\* tffy execution approve and deny: one answer for each run, while it matters
\* (a create that is refused ends like any that fails).
Approval ==
    /\ UNCHANGED <<vars, autoConfirm, infra, calm>>
    /\ ~autoConfirm
    /\ \E n \in Names, a \in {"yes", "no"} :
          /\ execs[n].live /\ job[n] = "active" /\ answers[n] = {}
          /\ a = "no" => execs[n].hash.action = "destroy"
          /\ Run!Answer(n, a)

-----------------------------------------------------------------------------
(* Specification *)

SystemNext ==
    \/ ControllerStep
    \/ ExecutorChanges \/ ExecutorReport \/ JobEnds \/ Approval

SystemSpec == SystemInit /\ [][SystemNext]_allvars

-----------------------------------------------------------------------------
(* Properties *)

\* A State with destroyOnDelete that is deleted while nothing of it is under
\* way leaves no infrastructure: whatever is repeated, edited, answered or
\* lost afterwards, the finalizer goes only after a destroy was carried out,
\* and no create follows it. The exception is a destroy a user refuses.
RemovalDestroys ==
    [][st.present /\ st.finalizer /\ ~st'.present =>
         \/ ~st.destroyOnDelete \/ ~calm
         \/ ~infra
         \/ \E n \in Names : st.executionName = n /\ "no" \in answers[n]]_allvars

=============================================================================
