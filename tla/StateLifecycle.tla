---------------------------- MODULE StateLifecycle ----------------------------
(***************************************************************************)
(* What the State controller promises about a State and its runs, without  *)
(* the syncs, copies, conflicts, retries and crashes by which it keeps the *)
(* promise: a run is made only when it is called for and is deployed once, *)
(* the status names complete runs only and drops one only when it is       *)
(* applied or a user says so, and the finalizer goes only with the State,  *)
(* once nothing is left to be destroyed.                                   *)
(*                                                                         *)
(* StateController implements this module.                                 *)
(***************************************************************************)
CONSTANTS
    Runs,      \* the names of Executions
    Hashes,    \* run hashes
    Destroys,  \* those of them that ask for a destroy
    NoHash,    \* the run hash of a State that has no run
    NoRun      \* no name of an Execution

VARIABLES
    present,   \* the State exists
    deleting,  \* a user has deleted it
    held,      \* the finalizer holds its deletion back
    destroy,   \* its infrastructure is to be destroyed
    current,   \* the run in progress according to the status
    last,      \* the run hash of the status
    runs       \* the runs: how far each is deployed, for which hash, applied?

state == <<present, deleting, held, destroy, current, last>>
vars == <<present, deleting, held, destroy, current, last, runs>>

Absent == [phase |-> "absent", hash |-> NoHash, applied |-> FALSE]

Init ==
    /\ present = TRUE /\ deleting = FALSE /\ held = FALSE
    /\ destroy \in BOOLEAN
    /\ current = NoRun /\ last = NoHash
    /\ runs = [r \in Runs |-> Absent]

-----------------------------------------------------------------------------
(* Runs *)

\* What calls for a run with hash h: a deletion for a destroy, and for any
\* other run that the status records neither h nor a destroy.
CalledFor(h) ==
    IF h \in Destroys THEN deleting ELSE h # last /\ last \notin Destroys

Make(r) ==
    /\ runs[r].phase = "absent"
    /\ \E h \in Hashes :
          /\ CalledFor(h)
          /\ runs' = [runs EXCEPT ![r] = [phase |-> "made", hash |-> h,
                                          applied |-> FALSE]]
    /\ UNCHANGED state

\* The Job of a run that is made is started, and handed over in the end.
Deploy(r) ==
    /\ \/ runs[r].phase = "made" /\ runs' = [runs EXCEPT ![r].phase = "started"]
       \/ runs[r].phase = "started" /\ runs' = [runs EXCEPT ![r].phase = "complete"]
    /\ UNCHANGED state

\* The executor may finish before the deployment is complete.
Report(r) ==
    /\ runs[r].phase \in {"started", "complete"}
    /\ runs' = [runs EXCEPT ![r].applied = TRUE]
    /\ UNCHANGED state

-----------------------------------------------------------------------------
(* The controller's Updates of the State: the status, the finalizer, or both *)

Applied == current # NoRun /\ runs[current].applied

KeepStatus == UNCHANGED <<current, last>>

\* The run in progress is found to be applied.
Complete ==
    /\ ~deleting /\ Applied
    /\ current' = NoRun
    /\ UNCHANGED last

\* A destroy is announced before its run is made.
Announce ==
    /\ deleting /\ destroy /\ current = NoRun
    /\ last' \in Destroys
    /\ UNCHANGED current

\* A run in progress that is not applied may be superseded.
Record(r) ==
    /\ runs[r].phase = "complete"
    /\ runs[r].hash \in Destroys <=> deleting
    /\ current' = r
    /\ last' = runs[r].hash

KeepFinalizer == UNCHANGED <<present, held>>

Hold ==
    /\ ~deleting
    /\ held' = TRUE
    /\ UNCHANGED present

Release ==
    /\ deleting
    /\ destroy => Applied
    /\ held' = FALSE
    /\ present' = FALSE

Save ==
    /\ present
    /\ KeepStatus \/ Complete \/ Announce \/ \E r \in Runs : Record(r)
    /\ KeepFinalizer \/ Hold \/ Release
    /\ UNCHANGED <<deleting, destroy, runs>>

-----------------------------------------------------------------------------
(* Users *)

Edit ==
    /\ present
    /\ destroy' = ~destroy
    /\ UNCHANGED <<present, deleting, held, current, last, runs>>

\* A user gives up the run in progress and asks for another one.
Rerun ==
    /\ present
    /\ current' = NoRun
    /\ last' = NoHash
    /\ UNCHANGED <<present, deleting, held, destroy, runs>>

Delete ==
    /\ present /\ ~deleting
    /\ deleting' = TRUE
    /\ present' = held
    /\ UNCHANGED <<held, destroy, current, last, runs>>

-----------------------------------------------------------------------------
(* Specification *)

Next ==
    \/ Save
    \/ \E r \in Runs : Make(r) \/ Deploy(r) \/ Report(r)
    \/ Edit \/ Rerun \/ Delete

Spec == Init /\ [][Next]_vars

=============================================================================
