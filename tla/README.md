# Verification of the Terraform controller

TLA+ models of the Terraform controller, TLC runs that check them on small
instances, and TLAPS proofs of their central invariants for every value of the
constants. Paths are relative to the repository.

## The system

A `State` names a `Module` (Terraform code) and its variables (secrets and
config maps). The controller runs Terraform for it: it makes an `Execution` and
a Job, and the Job's pod, the executor, applies or destroys the infrastructure
and reports back in the Execution.

| Part | Code | State it keeps | Operations |
|---|---|---|---|
| State controller | `pkg/terraform/state` | the State's finalizer, `spec.version`, `spec.image`, `status.lastRunHash`, `status.executionName`, condition JobDeployed | OnChange, OnRemove, gatherInput, deployCreate, deployDestroy, updateOwnerReference, run hash |
| Watches | `pkg/terraform/controller.go`, `pkg/terraform/execution` | the work queue | enqueue the State of a changed Execution, Module, secret, config map |
| Module controller | `pkg/terraform/module`, `pkg/interval` | `status.contentHash`, `gitChecked`, `time` | OnChange: poll git, hash the content |
| Executor | `pkg/executor` | Execution conditions Planned and Applied, logs, outputs; Terraform's backend secret and its lock | Populate, Create, Destroy, waitForApproval, SaveOutputs, DeleteJob |
| Command line | `pkg/cli/cmds` | none | create, run, delete, unlock a State; approve, deny, delete, prune Executions; create, delete Modules |
| Digest | `pkg/digest` | none | SHA256Map |
| Git | `pkg/git` | a temporary file for an SSH key, git's environment | FromSecret, Populate, GetCommit, CloneRepo |
| Writer, gz | `pkg/executor/writer`, `pkg/gz` | files in the pod's directory | create a file, compress logs |
| Entry points | `main.go`, `cmd` | none | start the workers of one process; no leader election |
| Generated code | `pkg/generated`, `pkg/apis` | none | clients, informers, listers, deep copies |

The parts never call each other. They share the objects in the API server: each
write is checked against the `resourceVersion` it was read at, each change comes
back as a watch event, and informers cache the objects. What is hard:

- **Concurrency.** One worker syncs a State at a time, but each sync is a dozen
  API calls between which users, the executor, the informer and the execution
  controller act. The handler gets the informer's object itself and changes it.
- **Several of each.** Jobs of one State can run side by side and share its
  Terraform state; during a rolling update two controllers act on one State.
- **Failure.** Any call can fail or lose its answer, and the process can die
  between two calls. A deployment is nine writes without a transaction, and the
  status that records it is a tenth.
- **Ordering.** OnChange runs before the finalizer is added; an Execution is
  written twice while another controller writes it too; a run can finish before
  it is recorded.
- **Progress.** A sync happens because an event or an error asks for it. A
  swallowed error or an event that nobody sends leaves the State behind.

What makes each part correct:

- *State controller*: the status never mixes two runs; a removed State was
  destroyed or was to be kept; nothing is deployed again for a recorded hash;
  users' edits survive; in the end the recorded run is the one the inputs ask for.
- *Executor*: Applied is set only after Terraform did what was asked and only
  once approved, also by a pod that replaces another; the Job is not deleted
  unreported; a pod starts with this run's files and removes its key.
- *The two together*: a State deleted at rest leaves no infrastructure behind.
- *Objects of a run*: there as long as its Job; its Secret and ServiceAccount are
  collected after it.
- *Module controller*: the hash follows the content, at the latest one polling
  interval behind; handling an unchanged module writes nothing for ever.
- *Inputs and digest*: secrets prevail over config maps, the order in which Go
  visits a map is no difference, an edit is.
- *Deep copies*: a handler changes a copy without changing the original.

## Modules

`StateController.tla` is the State controller, its watches, and what users and
executors do to the same objects, for one State.

| Variable | In the code |
|---|---|
| `st` | the State in the API server (`rv` is its resourceVersion, `present` is false once it is removed) |
| `content`, `variables` | the Module's `status.contentHash`; the secrets and config maps the State names, as one value |
| `execs` | Executions; `stage` counts the writes deployCreate/deployDestroy made for one, in the order of `Stages` |
| `cache`, `queue`, `events` | informer cache, work queue, watch events on their way |
| `pc`, `obj`, `input`, `hash`, `run`, `err` | where the sync stands and the handler's local variables |
| `orig`, `shared` | the pointer the sync was called with, and whether the cache still holds that object |
| `budget` | what users and faults may still do (bounds of the model) |

One sync, from `StartSync` to `AddFinalizer` or `EndSync`:

    StartSync - GatherModule - GatherVariables -+- (OnChange) CheckRunFails | NoticeCompletion, SaveCompletion
                  (or GatherFails)              |             | CompareHash, Lock, CreateExecution, DeployStep*, RecordRun
                                                +- (OnRemove) RemoveDone, RemoveFinalizer | RemoveWaits
                                                              | StartDestroy, LockDestroy, CreateExecution, DeployStep*, RecordDestroy

Every step is one API call with the computation around it; `Updated` and
`UpdateFails` are the two results an Update can have, and the second covers a
conflict, a lost request and a lost answer. `CreateExecutionFails` and
`DeployFails` do the same for the calls that deploy. `Assign` is an assignment
to a field of the cached object, which therefore changes the cache. Around the
sync act `InformerSync`, `ExecutionOnChange`, `RelatedResource` (what wakes the
handler), `Crash`, the users (`EditSpec`, `RunState`, `DeleteState`,
`ChangeModule`, `ChangeVariables`, `PruneExecution`), the executor
(`ExecutorReports`) and the execution controller (`TouchExecution`).

The dead branches of the code are left out: gatherInput never returns
`false, nil`, the second version check repeats the first, the Destroyed
condition is never set, and the comparison at handler.go:184 cannot be reached
with JobDeployed true. Definitions marked as mutants are not part of the model;
each is a plausible slip in the definition after it.

External code is modelled from how the handlers use it: the API server
(optimistic concurrency, updates that change nothing keep the version, a State
being deleted goes with its finalizer), the informer, and the lasso/wrangler loop
(cached object handed out without a copy, OnChange before the finalizer is
added, a failed Update's empty result ignored, errors requeued). The informer
may skip versions: a sync of any stale version ends at the first Update.

`StateLifecycle.tla` is what the controller promises about a State and its runs,
without syncs, copies, conflicts and crashes. A run is `Make`d only when it is called
for (`CalledFor`: a destroy by a deletion, another one by a hash the status does not
record), is started and completed once (`Deploy`) and reported (`Report`). An
Update (`Save`) does something to the status and something to the finalizer: it
takes out a run that is applied (`Complete`), announces a destroy (`Announce`) or
records a complete run of the right kind (`Record`); it adds the finalizer to a
State that is not deleted (`Hold`) or lets a deleted one go (`Release`). The rest is
users'. `StateController` implements it (`LifecycleKept`) with the stored State's
fields as the abstract variables, the run in progress being the one the status
names while JobDeployed is true (`RunInProgress`), and of each Execution its
hash, its Applied condition and how far it is deployed (`Deployments`; the Job is
write `JobStage`). What is
cached, queued or in the handler's hands is not in it. One Update may be both a
`Complete` and a `Hold`, since a completion that could not be saved stays in the cached
object and is stored with the finalizer.

`Executor.tla` is the pods of the Jobs of one State, each running `run()` of
`pkg/executor/main.go`, with the users who answer and the Job controller.

| Variable | In the code |
|---|---|
| `execs` | Executions: action and autoConfirm, the annotation `approved`, conditions Planned and Applied, `jobLogs`, `outputs`; `live` is false once pruned |
| `job` | the Job of each run; only its own pod deletes it |
| `pods` | the current pod of each Job: where `run()` stands, the call of the tryUpdate in progress, the annotation in `r.Execution`, the Terraform serial `tfplan` was made for, pods replaced so far |
| `tf` | the Terraform state, in a secret named by `spec.executionName`, the State's name, so that all runs share it: its serial, the run that wrote it last, the lock |
| `past` | plans made, when yes was said last, whether no was said, whether Terraform did the run's action (for the properties) |
| `budget` | what users and faults may still do |

A pod goes through

    Populate - StartPlan, Plan - SetExecutionPlanned (create) - Confirm - [WaitForApproval] - Decide
      - StartApply, Apply - SetExecutionLogs - SetExecutionApplied - SaveOutputs (create) - DeleteJob

and any error or death (`KillPod`) leads to "failed", from where `ReplacePod`
starts another or gives the Job up. Clone, configuration, variables and `terraform
init` are part of `Populate`: they touch nothing outside the pod. A Terraform
command is two steps, since its lock is visible between them. `TryUpdate` is one
call of tryUpdate's function: the loop has no exit after a success, so there are
always four, of which a late one may fail. The annotation a pod acts on is
the one in `r.Execution`, which Populate, each Update and the watch refresh.
Terraform is external: a command takes the lock or fails, loses it if it is
unlocked and then fails, an apply refuses a plan for another serial, a destroy
plans anew, an apply that failed may have written a part.

`ModuleController.tla` is the handler of one Module, the timer and the clock it
polls by, and the git server. `StateController` sees it as `ChangeModule`.

| Variable | In the code |
|---|---|
| `md` | the Module in the API server: spec, `status.gitChecked` (`checked`), the age of `status.time` (`age`), GitUpdated set to False by a user (`forced`), `status.content`, `status.contentHash` (`hash`) |
| `remote` | the git server: how many commits each branch and tag of a repository has seen |
| `cache`, `event`, `queue` | informer cache, watch event on its way, work queue |
| `timer` | the key waits in the queue's EnqueueAfter, "early" if a check was made after it was set |
| `pc`, `obj` | where the sync stands, the handler's `module` |
| `current`, `shared` | whether `obj` has the version of `md`, and whether it still is the object in the cache |
| `budget` | the events that may still happen |

One sync is `StartSync` and one of three endings: `FetchCommit` and
`UpdateCommit` (the two parts of updateCommit, between which the answer of the
git server gets old), `UpdateHash`, or `Wait` (EnqueueAfter and the final
Update). `Update` is the Update that ends each of them: accepted, a conflict, or
a fault with or without the write. updateCommit changes the cached object,
updateHash a copy. Around the sync act `InformerSync`, `TimerFires`,
`CheckExpires`, `Crash`, the users (`Edit`) and the git server (`Push`). Time is
only the age of the last check: never made, younger than the polling interval,
or older. The default branch is `None`. The hash of a tag without a commit
(handler.go:150) is left out: OnChange hashes a polled Module only after a check.

`RunLifecycle.tla` is what an executor promises about a run, without pods, calls,
retries and locks: the Job of a run changes infrastructure only with consent and
only until it ends, reports only what was carried out or a refused destroy, and
deletes itself only after that. `Executor` implements it (`RunsKeepPromise`)
under a refinement mapping that reads the abstract state off the concrete one:
`Told` (orders of a run with a Job), `Answered` (what was said of it),
`CarriedOut`, `Reported`, the Job, and the run that wrote the Terraform state last.

`System.tla` composes `StateController` with `RunLifecycle` in the place of its
executors that report whenever they like: a Job created is a run deployed
(`ControllerStep`), Applied is the report of a run (`ExecutorReport`). It adds
`infra`, whether there is infrastructure of the State, which a run changes, and
`calm`, whether nothing was under way when the State was deleted.

`TwoControllers.tla` is two instances of `StateController` with a cache, queue,
handler and events each (`cache1` ..., `cache2` ...), sharing the objects in the
API server. The first process is the one being replaced: it begins `MaxSyncs`
more syncs, and may stop in any of them. What users and executors do is seen by
both (`UserActs`, `ExecutionChanges`); an Execution one creates is announced to
the other (`Announced`).

`Objects.tla` is one deployment seen from the objects it makes: which exist
(`exists`), whom they belong to (`owner`), how far createExecution ... createJob
have come (`made`) and updateOwnerReference with its three tryUpdates (`handed`,
`tries`, `fresh`). Other writers (`WriteObject`), a short run (`DeleteJob`), the
removal of the State and the garbage collector (`Collect`) act in between. A
failed or unanswered call, or a crash, ends the deployment (`CreateFails`,
`CallFails`): the next sync makes another Execution with objects of its own.

Three modules are about algorithms that touch nothing anyone else does meanwhile:

| Module | Code | Variables and actions |
|---|---|---|
| `Inputs.tla` | combineVars, SHA256Map, getEnvVars, createEnvForJob | the maps in `configs`, `secrets`, `envs`; a step per key visited, in any order, since Go's is random (`CopyVariable`, `CollectKey`, `AddEnv`); results in `combined`, `digest`, `envVars`; `Sorted` is sort.Strings, `Written` what is written to the hash. SHA-256 is collision free, a digest being the text that was written |
| `Workspace.tla` | getAuth, `pkg/git`, the executor's run() up to `terraform init`, the writer | `secret` (each key absent, empty or set), `auth`, `keyFile`, `closer`, `env` (GIT_SSH_COMMAND), `dir` (whose files are in the directory); a step per call of the operating system or of git, each of which may fail |
| `Copies.tla` | `zz_generated_deepcopy.go`, updateHash | an object is the memory cell each of its maps, slices and pointers refers to; `Fields` is what a type has, `Made` what its DeepCopyInto makes anew, the rest stays shared; then either object is written through, any way a handler may |

`MCParts.tla` extends these three and puts them into one run, of which a
behaviour takes one: `part` says which, the variables of the others rest.
Variables and environment of a State do not meet in the code, so `OneOfBoth`
lets only one of them have data.
`MCStateController.tla` (with the properties the code does not have),
`MCModuleController.tla`, `MCSystem.tla` and `MCTwoControllers.tla` are
instances for TLC; `Executor.tla` and `Objects.tla` need none. The modules
whose names end in `Proofs`, and `RunRefinement.tla`, hold the proofs.

## Runs

Passing:

| Run | Question | Bounds |
|---|---|---|
| `lifecycle` | Does the status always name one complete run; is every removal justified; is a recorded hash never deployed again; do edits survive; does the controller of a State implement `StateLifecycle`? | 3 Executions, any 2 of: 2 user actions, a fault, a crash, a finalizer race, a pruned Execution; with and without an image; version wraps at 1 |
| `progress` | Does the recorded run converge to the inputs; are finished runs noticed; do deleted States go, as long as no call fails? | 3 Executions, any 2 of: 2 user actions, a crash (no failed calls, races or pruned Executions); two module contents, the first to be met fixed since they are interchangeable (`MCFairSpec`) |
| `executor` | Is nothing changed without consent; is Applied true; does a Job report before it deletes itself; does it end? | one Job, 3 pods, 4 calls per tryUpdate, 2 answers, any 5 of: 2 faults, 5 conflicts, 2 kills, a prune, an unlock |
| `executors` | Do Jobs that share the lock keep the promise of `RunLifecycle`, and end? | two Jobs, 2 pods each, an answer, any one of: a kill, a prune, an unlock |
| `system` | Does a State deleted while nothing is under way leave no infrastructure behind? | 2 Executions, with and without approval, any 2 of: 2 edits, a fault, a crash; until no deletion at rest is left (`MayMatter`) |
| `two_controllers` | Do two processes keep the status whole, a removal justified and edits? | 2 Executions, a user's edit, one more sync of the process that goes away |
| `objects` | Are a run's objects there as long as its Job, and do its Secret and ServiceAccount go after it? | 4 calls per tryUpdate, 5 writes of others, a fault |
| `modules` | Is the hash that of the content, and the commit of its repository; does the hash reach the latest commit; does the controller come to rest? | inline code, two repositories, a tag, a fixed commit; any 3 edits, pushes, faults, restarts or early timers |
| `parts` | Do the right variables and environment reach a run, and is a change of them noticed; does git get its credentials, never half a key, and is the key's file removed unless that fails; does Terraform see this run's backend and variables; are copies apart? | one config map, two secrets, keys of which one is the start of another and can be completed by a value; any secret and URL, 2 failed calls; each type, each field nil or not, 2 writes |

In the runs of the State controller two disturbances are what the scenarios need: each property relates two events
(an edit and a stale write, a delete and another edit, a lost answer and a
retry), and each can fall between any two calls. Three Executions cover the
first run, one more for each disturbance. A budget is spent by the guard of the
action it bounds, so the liveness run explores complete behaviours. `MaxInt = 1`
makes the version wrap within two reruns. The safety properties of `lifecycle`
are also proved without bounds.

Fairness (`progress`): weak fairness of the sync as a whole (a worker that has
a key goes on with it; lasso's workers run as long as the process does), of the
informer and of the two handlers that enqueue. Nothing is assumed of users,
executors, faults or crashes, so an executor may never report. Deadlock is not
checked: a controller with nothing to do stops.

Five conflicts in `executor` are one more than a tryUpdate can swallow, and three
pods are a first, one that finds what the first left, and a last. `executors`
needs no retries of tryUpdate, only pods that meet at the lock.

Fairness (`executor`, `executors`): weak fairness of each pod's program (a
container that runs goes on) and of the Job controller's replacement. The
deletion event (`ApprovalInDeletion`) is not fair, since a watch begun later never
shows it; users need not answer, so `JobsEnd` lets a pod wait for an answer.

Three events in `modules` are an edit or push between read and write, a fault or
restart that loses the work, and one more to meet the recovery.

`system` has one run to create and one to destroy, the second spent on a rerun
if users edit; its answers are those that matter, one per run. In
`two_controllers` each process can deploy a run, the old one in the sync it is
in or begins. Five writes in `objects` are one more than a tryUpdate can swallow.
In `parts` two secrets show which of two prevails, a config map which kind does;
keys `<<1>>`, `<<2>>`, `<<1, 2>>` and values `<<>>`, `<<2>>` make two different maps write
the same text; two failed calls are one that leaves a key half written and one
while its file is removed (`Close`, which drops that error).

Fairness (`objects`): weak fairness of the handler's calls (a worker that has
begun goes on, or fails) and of the collection of each object but one: the
cluster-wide ClusterRoleBinding is given an owner in a namespace, which the
garbage collector need not honour, so nothing is promised of it. `NothingLeft`
leaves out that binding, the Execution (see Behaviour seen) and, like `HandedOver`,
objects that others wrote as often as a tryUpdate calls: those leak. `system` and
`two_controllers` check safety only.

Fairness (`modules`): weak fairness of the sync, the informer, timers and the
ageing of a check. Timers fire and checks age for free only when the controller
is idle (`Later`): its syncs take seconds, the default interval is 30 minutes. An
interval that passes while a sync is under way costs an event of the budget.
`Settles` is not stated of a git server that fails for ever, only of one that
fails a few times.

Violations: each run checks a statement of the repository that the code does
not keep, and its counterexample is a behaviour of the code.

| Run | What happens |
|---|---|
| `delete_during_create` | The State is deleted while its create run is recorded; OnRemove takes that run's completion for the destroy's and lets the State go (handler.go:176). |
| `finalizer_race` | The execution controller adds its finalizer between createExecution's two writes; the second conflicts, the Execution stays behind and another is made (deploy.go:188). |
| `lost_lock` | The lock's Update fails, the error is dropped and the new content is not run (handler.go:124) unless something else wakes the State: the next poll of a Module with a git branch or tag does, inline code or a fixed commit has none. |

## Proofs

`StateControllerProofs.tla` proves, for all constants that satisfy
`ConstantsOK` (sentinels outside their sets, bounds natural, `MaxInt` positive):

- `TypeCorrect`: `Spec => []TypeOK`;
- `StatusCorrect`: `Spec => []StatusNamesItsRun`.

Neither is inductive. The type of `execs` needs that a deployment in progress
lacks a write, and the status written by RecordRun is right only if the
Execution in the handler's hands is complete and made for its run hash
(`DeployOK`). The status stored later is a copy the handler, the cache or a
failed sync holds, so what is invariant is that *every* copy names a complete
run (`CopiesTracked`), however old it is: a complete deployment never changes
(`RunsKept`), and copies are only copied, cleared or recorded. StartDestroy
overwrites the hash of a copy without a deployed job; that a deployed job
always has a hash follows from `ExecutionsOK`. `IInv` is the conjunction; each
conjunct has a lemma with one case per action, and the lemmas on Updates say
once what an Update, successful or not, may store.

The same module proves the action properties, with a strengthening `SInv` of
`IInv`:

- `EditsKept`: `Spec => SpecEditsKept`. A copy of the State with the current
  resourceVersion agrees with the stored one in everything users decide
  (`FreshOK`): every Update that changes it takes a new version, and what the
  handler assigns to its copy in place is nothing users decide. An Update is
  accepted only with the current version, so it cannot undo an edit.
- `RunsOnce`: `Spec => NoRedeploy`. From the lock to the recording the handler's
  hash differs from the one its copy was read with (`HashOK`), and the lock
  succeeded only if that copy was current.
- `RemovalSound`: `Spec => RemovalJustified`. When the handler lets the State go,
  the run its copy names is applied or nothing is to be destroyed (`DoneOK`),
  and Applied is never taken back; the copy is current when the finalizer goes.

and the refinement, `LifecycleImplemented`: `Spec => LifecycleKept`. Most steps
write neither the State nor a stage of a run and stutter. An Execution is created
with the lock held, for a hash that `HashOK` says is called for if it is a
create's; `KindOK` (the hash is a destroy's exactly if the handler's copy is being
deleted) and `MarkOK` (such a copy is right, a deletion being never undone) say so for a
destroy's. For an accepted Update `FreshOK` is not enough, as the handler changes
copies in place, the cached one too, and stores them later: `StatusOK` says that the
status of a current copy is the stored one, but for a run that is applied and was
taken out, in a State not deleted, or for a destroy announced in a deleted State that
has no run. So whatever sync stores such a copy in the end does a `Complete` or an
`Announce`. `HeldOK` (a State whose deletion is held back has the
finalizer) makes sure that no other Update removes it. `LInv` is `SInv` with these.

`SystemProofs.tla` proves, under the same assumptions:

- `ControllerRefined`: `SystemSpec => Spec`. A step of `System` is one of
  `StateController` or leaves its variables alone, so the theorems above hold
  in `System` too.
- `RemovalClean`: `SystemSpec => RemovalDestroys`. The status is what the
  controller believes; what the runs did is in `done`, `answers`, `job` and
  `infra`, and `SystemInv` relates the two. `JobsOK`: an Execution is applied
  only if its run was carried out or is a destroy that was refused. `DeletionOK`:
  a copy that shows the State deleted is right about it (`MarkOK`), and destroys are made
  only for a deleted State. `CalmOK`: after a delete at rest nothing but destroys
  is deployed, recorded or active, and one carried out has left nothing, which
  no create can undo. It needs that no create is under way at the delete
  (`AtRest`); the run `delete_during_create` is what happens otherwise. When the
  finalizer goes, the recorded run is applied (`DoneOK` of `SInv`), hence
  a destroy, hence done or refused.

`TwoControllersProofs.tla` proves `StatusAgreed`, `RemovalSound` and `EditsKept`,
the three properties of the run `two_controllers`, for any bounds. The invariant
`BothInv` is that of `StateController` for each process, and the argument is one
of rely and guarantee. `StateControllerProofs` states once what a step of a handler
promises everybody else (`Promise`: a changed State has a new version and names a
complete run, Executions only grow, Applied stays), shows that each step of a
controller keeps the promise (`StepPromise`), and that a step of others which keeps
it and leaves this handler's deployment alone preserves this handler's invariant
(`OthersStep`). What has to be added is that the two never deploy the same Execution (`Apart`):
a name is taken when its Execution is created. The part of `SInv` behind
`RunsOnce` (`HashOK`) is left out: it is false of two processes, which may
deploy for one hash twice.

`ExecutorProofs.tla` proves `TypeCorrect`, `ConsentGiven` (`Spec =>
[]ChangesApproved`) and `ReportsTrue` (`Spec => []AppliedMeansDone`) for all
constants that satisfy `BoundsOK`. ChangesApproved is not inductive: that a pod
applies with consent follows from the annotation it has read, and that from the
annotation of the Execution, so `RunOK` says for each run that an annotation in
either place was said by a user, that the steps before and in an apply have
consent, and that the steps after it, and the condition Applied, have a change
done or a destroy refused. A step of one run keeps the others' (`OthersKept`);
most steps only move a pod (`PodMoves`) or are calls of tryUpdate (`UpdateMoves`).

`ModuleControllerProofs.tla` proves `TypeCorrect`, `HashCorrect` (`Spec =>
[]HashOfContent`) and `CommitCorrect` (`Spec => []CommitOfUrl`) for all
constants that satisfy `ConstantsOK`. What is invariant is `Good` of each of
the three copies of the Module (stored, cached, in the handler's hands), since
any of them may be stored later: its hash fits its content, and the commit of its
check and of its content are from the repository named beside it. updateHash keeps
that only because of its guard: a Module that needs no update was checked at the
URL its spec names.

`ExecutorProofs.tla` also proves `ReportsComplete` (`Spec =>
[]DeletedJobReported`). A tryUpdate whose calls were all conflicts reports
nothing and goes on, so the invariant counts: a report is stored, or at least
as many conflicts have happened as the tryUpdate in progress has made calls
(`Reached`, in `ReportOK` once for each of the three reports, at each step they
have been passed). A call that does not conflict stores the report, or ends the
pod; what is stored stays stored (`Grows`).

`RunRefinement.tla` proves `Refinement`: `Executor!Spec => RunsKeepPromise`, that
is, `Executor` implements `RunLifecycle` for any number of runs, pods, calls and
disturbances. It needs the invariant of `ExecutorProofs` (a step of Terraform is
one of the abstract Change only because the pod that takes it has consent; the
Job is deleted only at "deleteJob", where the change is done or refused). The
steps that keep the abstract state (`ToldKept`, `AnsweredKept`, `ReportedKept`)
stutter, and of the others each maps to the one of the same name.

`ObjectsProofs.tla` proves `TypeCorrect`, `ResourcesOutliveJob` (`Spec =>
[]RunHasResources`) and `HandOverDone` (`Spec => []HandedOver`). The invariant
has, beside the types, `Place` (which objects were made when the deployment
stands where it stands), `Backed` (an object is there until its owner, if it has
one, is gone, and only the Job owns the three), `Passed` (objects whose turn is
over are handed over, gone, or were written `Tries` times) and `Paid` (each call
over without success was paid for with a write).

`PartsProofs.tla` proves what the run `parts` checks. Of `Workspace`, for any
number of failing calls: `KeyRemovalTried`, `CommandsComplete`, `CredentialsReach` and
`DirectoryRight`. `KeyOK` follows the key's file and what closer does: a file that
is left after close() is one that os.Remove could not remove,
`EnvOK` GIT_SSH_COMMAND, `AuthOK` the credentials from the secret to the command,
`DirOK` the files of the directory.

Of `Inputs`, for all constants that satisfy `InputsConstants` (finitely many
keys, none of them empty, as the API server demands; text is a sequence of
numbers; any number of maps):

- `VariablesMerged`: `InputsSpec => []SecretsPrevail`. What is copied so far has of
  each key the value of the last source visited (`Merged`, where `Copied` says
  which keys of which source were). In the end all were, and the secrets come last.
- `DigestSame`: `InputsSpec => []DigestStable`. The keys met are a list of the
  map's keys, each once (`Listed`). Go's order of strings is total, so such a list can
  be sorted (`SortExists`: each key goes to the place that the number of keys up to it
  says), and in one way only (`SortUnique`): the order of the visits is lost.
- `EditsNoticed`: `InputsSpec => []EditSeen`. The text is joined key by key
  (`TextExists`). If one value differs, what is before it and behind it is the
  same, so the texts differ (`ValueSeen`); with one key less, the text is shorter,
  as no key is empty (`KeySeen`). Neither argument stands two edits at once.
- `OwnEnvLast`: `InputsSpec => []OwnEnvPrevails`. The handler's variables stand
  behind those of the user (`EnvForJobEnds`), and a container takes the last.

The induction that the text, the ranks and the joins need is over naturals: the
set of those for which the claim fails has no least element (`Least`, from the
library's well-foundedness of <). FlattenSeq's recursive function is shown to
exist in the same way (`JoiningExists`).

Of `Copies`, `CopiesStayApart`: `CopiesSpec => CopiesApart`, for any number of
writes. DeepCopyInto makes each reference field of each type anew (`AllMade`, which
compares the fields of types.go with those of the generated code, and is where a
field forgotten would show); hence a field of the original points to a cell named
after it, one of the copy to a cell made for the copy (`CopiesInv`), also
after updateHash made two fields of the copy share one.

Only model-checked is liveness, which is out of the prover's reach: `Converges`,
`CompletionNoticed`, `RemovalProgresses`, `JobsEnd`, `NothingLeft`, `Settles`, `Quiet`.

## Plan

Done: each component, its composition with those it acts with, the abstract
specifications of a run and of a State, and the proofs of the safety properties and
refinements that the runs check. Left, in this order:

1. `System` with `StateLifecycle` in the place of `StateController`: the removal
   property from the two promises alone.
2. Two States linked by `spec.data`, once the code uses what it gathers.

## Not modelled

Contents of the created objects, node selectors, conditions nobody reads
(MissingInfo), the text of logs and tables, the compression of logs, flags and
kubeconfig, the git and Terraform binaries (external), the deletion of Modules
(for which the handler does nothing), the generated clients, listers, informers
and fakes (uniform code without state of its own). `spec.data` is gathered by
the handler and used nowhere; a State with it waits for the others' names and is
otherwise one without. The git secret of a Module is not in its hash, so that
replacing it changes nothing that `ModuleController` has. Run hashes are taken
as collision free. `StateController` lets an executor report success at any time
after its Job was created; `System` restricts that to what runs promise. The
composition uses `RunLifecycle` and not `Executor`, whose steps multiplied with
the controller's are out of TLC's reach.

## Behaviour seen

What the models show the code to do where no run states a property:

- A State deleted during its first deployment has no finalizer yet and is gone
  at once, without a destroy (controller.go:123).
- The inputs change while a run is in progress: a second Job starts beside the
  first, although the comment at handler.go:133 speaks of a new execution "if none
  running". A restarted pod of the older one can then change the infrastructure
  after the newer.
- The default image is assigned after the input of the deployment was captured
  (handler.go:129), so the first deployment of a State without one fails at its Job.
- When the Execution that the status names is deleted, every sync fails at reading it
  (handler.go:88).
- The comment at deploy.go:51 says that Executions have no owner reference, "so logs
  stay around after deletion"; createExecution is given the State's and they go with
  it (`FirstOwner`, `Collect`). `NothingLeft` asks for neither.
- The completion of a run is cleared in the cached object before it is saved
  (handler.go:95). When that Update fails, the retry finds no run in progress and
  an unchanged hash, and ends: JobDeployed stays true until another write of the
  State or a restart. `CompletionNoticed` is therefore checked without failed calls. A State
  deleted meanwhile goes without a destroy, as in `delete_during_create`.
- close() drops the error of os.Remove (auth.go:104), so a private key whose removal
  fails stays on the disk.
- tryUpdate returns nil after four conflicts (deploy.go:502, runner.go:397): the
  objects of a run are not handed over and leak, or the condition Applied is never
  set although the Job deletes itself. `HandedOver`, `NothingLeft` and
  `DeletedJobReported` say so by exempting that case.
- With two controller processes the Update that is the lock may change nothing,
  in which case both deploy the same run (so `NoRedeploy` is not a property of
  `TwoControllers`).
- A denied destroy is reported as Applied and lets the State go. A yes given for one
  pod's plan is used by the pod that replaces it. A pod that dies after it
  reported is replaced and applies again.
- The executor clones a repository whatever its content is (executor main.go:59),
  so an inline Module fails there. The line scanner of terraform/cmd.go and
  git/cmd.go stops at a line of 64 KiB. Git commands have no timeout.
- A user and a password in a git secret make its SSH key irrelevant. A process
  that dies between writing the key's file and close() leaves it behind.
- Of a variable in a config map and a secret for the environment the config map's
  comes last, the opposite of Terraform variables.
- `stateShow` prints autoConfirm as "Destroy on Deleted" (states.go:121).
