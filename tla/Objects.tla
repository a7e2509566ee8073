------------------------------- MODULE Objects -------------------------------
(***************************************************************************)
(* The objects the State controller makes for one run and who they belong  *)
(* to (createExecution ... updateOwnerReference in                         *)
(* pkg/terraform/state/deploy.go): the Execution and the Job are owned by  *)
(* the State from the start; the Secret, the ServiceAccount and the        *)
(* ClusterRoleBinding are made before the Job and handed to it afterwards, *)
(* while its pod runs already, other controllers write them and the        *)
(* garbage collector may remove them.                                      *)
(*                                                                         *)
(* External, modelled from how the code relies on it: the garbage          *)
(* collector (an object goes once its owner is gone), the controllers and  *)
(* users that write the three objects (a ServiceAccount gets its token).   *)
(***************************************************************************)
EXTENDS Integers, Sequences

CONSTANTS
    Tries,      \* calls of a tryUpdate (4 in the code)
    MaxWrites,  \* writes of others to the objects
    MaxFaults   \* calls that fail or are not answered, or a crash

ASSUME BoundsOK ==
    /\ Tries \in Nat \ {0}
    /\ MaxWrites \in Nat
    /\ MaxFaults \in Nat

VARIABLES
    state,   \* the State exists
    exists,  \* which of the run's objects exist
    owner,   \* their owner references
    pc,      \* where the deployment stands
    made,    \* how many of the objects in Created are made
    handed,  \* how many of the objects in HandOver are done
    tries,   \* calls of the tryUpdate in progress that are over
    fresh,   \* the copy it has read is still the current one
    writes,  \* writes of others so far
    faults   \* faults so far

vars == <<state, exists, owner, pc, made, handed, tries, fresh, writes, faults>>

-----------------------------------------------------------------------------
(* Objects *)

\* What deployCreate and deployDestroy create, in this order
Created == <<"execution", "secret", "serviceAccount", "clusterRoleBinding",
             "job">>

\* What updateOwnerReference gives to the Job, in this order
HandOver == <<"serviceAccount", "clusterRoleBinding", "secret">>

Resources == {"secret", "serviceAccount", "clusterRoleBinding"}

Kinds == Resources \cup {"execution", "job"}

Nobody == "nobody"

\* Mutant of FirstOwner: everything is made with the same references.
FirstOwnerState(k) == "state"

\* Mutant of FirstOwner: everything is made without references.
FirstOwnerNobody(k) == Nobody

\* The owner reference an object is created with
FirstOwner(k) == IF k \in {"execution", "job"} THEN "state" ELSE Nobody

Init ==
    /\ state = TRUE
    /\ exists = [k \in Kinds |-> FALSE]
    /\ owner = [k \in Kinds |-> Nobody]
    /\ pc = "create"
    /\ made = 0
    /\ handed = 0
    /\ tries = 0
    /\ fresh = FALSE
    /\ writes = 0
    /\ faults = 0

Phases == {"create", "get", "update", "deployed", "failed"}

-----------------------------------------------------------------------------
(* deployCreate and deployDestroy *)

Make(k) ==
    /\ exists' = [exists EXCEPT ![k] = TRUE]
    /\ owner' = [owner EXCEPT ![k] = FirstOwner(k)]

\* The names derive from the Execution's generated one, so none is taken and
\* the Get that follows an AlreadyExists is never reached.
Create ==
    /\ pc = "create"
    /\ Make(Created[made + 1])
    /\ made' = made + 1
    /\ pc' = IF made' = Len(Created) THEN "get" ELSE "create"
    /\ UNCHANGED <<state, handed, tries, fresh, writes, faults>>

\* The Create fails or loses its answer, or the process dies: nothing that
\* was created is removed.
CreateFails ==
    /\ pc = "create"
    /\ faults < MaxFaults
    /\ faults' = faults + 1
    /\ Make(Created[made + 1]) \/ UNCHANGED <<exists, owner>>
    /\ pc' = "failed"
    /\ UNCHANGED <<state, made, handed, tries, fresh, writes>>

-----------------------------------------------------------------------------
(* updateOwnerReference *)

Current == HandOver[handed + 1]

\* Mutant of NextCall: the first call that returns no error or a conflict is
\* the last.
NextCallOnce ==
    /\ tries' = 0
    /\ handed' = handed + 1
    /\ pc' = IF handed' = Len(HandOver) THEN "deployed" ELSE "get"

\* Mutant of NextCall: one call more.
NextCallTooMany ==
    IF tries + 1 <= Tries
    THEN tries' = tries + 1 /\ pc' = "get" /\ UNCHANGED handed
    ELSE /\ tries' = 0
         /\ handed' = handed + 1
         /\ pc' = IF handed' = Len(HandOver) THEN "deployed" ELSE "get"

\* tryUpdate's loop goes on after a conflict, after NotFound and also after a
\* success; after Tries calls it returns nil whatever they returned.
NextCall ==
    IF tries + 1 < Tries
    THEN tries' = tries + 1 /\ pc' = "get" /\ UNCHANGED handed
    ELSE /\ tries' = 0
         /\ handed' = handed + 1
         /\ pc' = IF handed' = Len(HandOver) THEN "deployed" ELSE "get"

GetObject ==
    /\ pc = "get"
    /\ IF exists[Current]
       THEN pc' = "update" /\ fresh' = TRUE /\ UNCHANGED <<tries, handed>>
       ELSE NextCall /\ UNCHANGED fresh
    /\ UNCHANGED <<state, exists, owner, made, writes, faults>>

\* A conflict, or NotFound for an object that was collected since the Get,
\* leaves everything as it is.
UpdateObject ==
    /\ pc = "update"
    /\ owner' = IF exists[Current] /\ fresh THEN [owner EXCEPT ![Current] = "job"]
                                            ELSE owner
    /\ NextCall
    /\ fresh' = FALSE
    /\ UNCHANGED <<state, exists, made, writes, faults>>

\* Any other error ends the deployment; an Update may have been done.
CallFails ==
    /\ pc \in {"get", "update"}
    /\ faults < MaxFaults
    /\ faults' = faults + 1
    /\ \/ UNCHANGED owner
       \/ /\ pc = "update" /\ exists[Current] /\ fresh
          /\ owner' = [owner EXCEPT ![Current] = "job"]
    /\ pc' = "failed"
    /\ UNCHANGED <<state, exists, made, handed, tries, fresh, writes>>

-----------------------------------------------------------------------------
(* Everybody else *)

\* Another controller or a user writes an object; the copy the handler has
\* read is no longer the current one.
WriteObject(k) ==
    /\ exists[k]
    /\ handed < Len(HandOver)
    /\ writes < MaxWrites
    /\ writes' = writes + 1
    /\ fresh' = (fresh /\ k # Current)
    /\ UNCHANGED <<state, exists, owner, pc, made, handed, tries, faults>>

\* The pod of the Job deletes it (background propagation), which it may do
\* before the deployment is over: a run can be short.
DeleteJob ==
    /\ exists["job"]
    /\ exists' = [exists EXCEPT !["job"] = FALSE]
    /\ UNCHANGED <<state, owner, pc, made, handed, tries, fresh, writes, faults>>

\* The State goes: its finalizer is removed, or it had none yet.
RemoveState ==
    /\ state
    /\ state' = FALSE
    /\ UNCHANGED <<exists, owner, pc, made, handed, tries, fresh, writes, faults>>

Orphan(k) ==
    /\ exists[k]
    /\ \/ owner[k] = "state" /\ ~state
       \/ owner[k] = "job" /\ ~exists["job"]

\* The garbage collector removes an object whose owner is gone.
Collect(k) ==
    /\ Orphan(k)
    /\ exists' = [exists EXCEPT ![k] = FALSE]
    /\ UNCHANGED <<state, owner, pc, made, handed, tries, fresh, writes, faults>>

-----------------------------------------------------------------------------
(* Specification *)

Deploy == Create \/ CreateFails \/ GetObject \/ UpdateObject \/ CallFails

Next ==
    \/ Deploy
    \/ \E k \in Resources : WriteObject(k)
    \/ DeleteJob \/ RemoveState
    \/ \E k \in Kinds : Collect(k)

Spec == Init /\ [][Next]_vars

\* The handler and the garbage collector go on. The ClusterRoleBinding, a
\* cluster-wide object, cannot depend on one in a namespace: the collector
\* may leave it.
FairSpec ==
    /\ Spec
    /\ WF_vars(Deploy)
    /\ \A k \in Kinds \ {"clusterRoleBinding"} : WF_vars(Collect(k))

-----------------------------------------------------------------------------
(* Properties *)

\* Every variable stays within its type; a tryUpdate makes at most Tries calls.
TypeOK ==
    /\ state \in BOOLEAN
    /\ exists \in [Kinds -> BOOLEAN]
    /\ owner \in [Kinds -> {"state", "job", Nobody}]
    /\ pc \in Phases
    /\ made \in 0..Len(Created)
    /\ handed \in 0..Len(HandOver)
    /\ tries \in 0..(Tries - 1)
    /\ fresh \in BOOLEAN
    /\ writes \in 0..MaxWrites
    /\ faults \in 0..MaxFaults

\* A pod can be started or replaced as long as its Job exists: the Secret
\* with its variables, its ServiceAccount and the binding that gives it its
\* rights were there before the Job and outlive it, whatever fails, is
\* written, removed or collected in between.
RunHasResources == exists["job"] => \A k \in Resources : exists[k]

\* A deployment that is reported as a success has handed over each of the
\* three objects, or it was collected already; the exception is a tryUpdate
\* all of whose calls were conflicts.
HandedOver ==
    pc = "deployed" =>
        \A k \in Resources : exists[k] => owner[k] = "job" \/ writes >= Tries

\* In the end the Secret with a deployed run's variables and the
\* ServiceAccount with its rights go after its Job, unless others wrote as
\* often as a tryUpdate calls; and no Job stays without its State, however
\* far its deployment came. The ClusterRoleBinding is left out, as nobody
\* need collect it, and so is the Execution, of which a comment
\* (deploy.go:51) wants the opposite of what createExecution does.
NothingLeft ==
    <>[](/\ pc = "deployed" /\ ~exists["job"] /\ writes < Tries =>
              ~exists["secret"] /\ ~exists["serviceAccount"]
         /\ ~state => ~exists["job"])

=============================================================================
