--------------------------- MODULE MCTwoControllers ---------------------------
(***************************************************************************)
(* Instances of TwoControllers for TLC                                     *)
(***************************************************************************)
EXTENDS TwoControllers

\* A State that can be deployed at once and is to be destroyed
MCInit == Init /\ First!InputsPresent /\ st.destroyOnDelete

MCSpec == MCInit /\ [][Next]_vars

=============================================================================
