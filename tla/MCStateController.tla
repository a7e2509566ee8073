-------------------------- MODULE MCStateController --------------------------
(***************************************************************************)
(* Instances of StateController for TLC, and what the repository says of   *)
(* the program but the code does not do (checked by the runs that expect a *)
(* violation).                                                             *)
(***************************************************************************)
EXTENDS StateController

\* The contents are interchangeable, so a Module that has content at first
\* may be taken to have any one of them. (TLC's symmetry is unsound for
\* liveness; this is not.)
MCInit == Init /\ content \in {CHOOSE c \in Contents : TRUE, NoContent}

MCFairSpec == MCInit /\ [][Next]_vars /\ Fairness

\* "If this state is deleted a TF destroy is also run" (usage of the flag
\* that sets destroyOnDelete): OnRemove lets a State whose infrastructure is
\* to be destroyed go only after a destroy was applied.
DestroyedBeforeRemoval ==
    [][st.present /\ st.finalizer /\ st.destroyOnDelete /\ ~st'.present =>
         \E n \in Names : /\ execs[n].applied
                         /\ execs[n].hash.action = "destroy"]_vars

\* One Execution is made for one run hash, as the end-to-end test expects of
\* a State nobody edits.
OneExecutionPerHash ==
    \A m, n \in Names :
        /\ execs[m].stage # 0 /\ execs[n].stage # 0
        /\ execs[m].hash = execs[n].hash
        => m = n

=============================================================================
