----------------------------- MODULE RunLifecycle -----------------------------
(***************************************************************************)
(* What an executor promises about a run, without the pods, calls, retries *)
(* and locks by which it keeps the promise: a Job changes infrastructure   *)
(* only with consent and only until it ends, reports only what was carried *)
(* out or a destroy that was refused, and deletes itself only after that.  *)
(*                                                                         *)
(* Executor implements this module; System puts it in the place of the     *)
(* executors of a State.                                                   *)
(***************************************************************************)
CONSTANTS Runs

VARIABLES
    orders,   \* what the Job of each run was told
    job,      \* the Job of each run
    answers,  \* what users have answered so far
    done,     \* the runs Terraform has carried out
    by,       \* the run that changed the infrastructure last
    applied   \* the runs whose Execution has the condition Applied

vars == <<orders, job, answers, done, by, applied>>

Orders == [action : {"create", "destroy"}, autoConfirm : BOOLEAN]

NoOrder == [action |-> "none", autoConfirm |-> FALSE]

NoRun == 0

Init ==
    /\ orders = [r \in Runs |-> NoOrder]
    /\ job = [r \in Runs |-> "absent"]
    /\ answers = [r \in Runs |-> {}]
    /\ done = {}
    /\ by = NoRun
    /\ applied = {}

\* The State controller deploys the run.
Deploy(r) ==
    /\ job[r] = "absent"
    /\ job' = [job EXCEPT ![r] = "active"]
    /\ \E o \in Orders : orders' = [orders EXCEPT ![r] = o]
    /\ UNCHANGED <<answers, done, by, applied>>

Answer(r, a) ==
    /\ job[r] # "absent"
    /\ answers' = [answers EXCEPT ![r] = @ \cup {a}]
    /\ UNCHANGED <<orders, job, done, by, applied>>

Allowed(r) == orders[r].autoConfirm \/ "yes" \in answers[r]

Refused(r) == orders[r].action = "destroy" /\ "no" \in answers[r]

\* Terraform applies or destroys, in full or with an error half way. A pod
\* that replaces another does so again.
Change(r) ==
    /\ job[r] = "active"
    /\ Allowed(r)
    /\ by' = r
    /\ done' \in {done, done \cup {r}}
    /\ UNCHANGED <<orders, job, answers, applied>>

Carried(r) == r \in done \/ Refused(r)

Report(r) ==
    /\ job[r] = "active"
    /\ Carried(r)
    /\ applied' = applied \cup {r}
    /\ UNCHANGED <<orders, job, answers, done, by>>

\* The Job deletes itself, or has used up its pods.
End(r) ==
    /\ job[r] = "active"
    /\ \/ Carried(r) /\ job' = [job EXCEPT ![r] = "deleted"]
       \/ job' = [job EXCEPT ![r] = "failed"]
    /\ UNCHANGED <<orders, answers, done, by, applied>>

Next ==
    \E r \in Runs :
        \/ Deploy(r)
        \/ \E a \in {"yes", "no"} : Answer(r, a)
        \/ Change(r) \/ Report(r) \/ End(r)

Spec == Init /\ [][Next]_vars

=============================================================================
