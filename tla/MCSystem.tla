------------------------------- MODULE MCSystem -------------------------------
(***************************************************************************)
(* Instances of System for TLC                                             *)
(***************************************************************************)
EXTENDS System

\* A State that can be deployed at once and is to be destroyed
MCSystemInit == SystemInit /\ InputsPresent /\ st.destroyOnDelete

\* RemovalDestroys is about States that are deleted at rest. Once that can no
\* longer happen to this one, nothing that follows matters.
MayMatter ==
    /\ st.present
    /\ IF st.deleting THEN calm ELSE budget["edits"] > 0 /\ budget["all"] > 0

MCSystemNext == MayMatter /\ SystemNext

MCSystemSpec == MCSystemInit /\ [][MCSystemNext]_allvars

=============================================================================
