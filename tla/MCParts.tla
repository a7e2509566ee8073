------------------------------- MODULE MCParts -------------------------------
(* The algorithms that share no state, checked in one run: git and files     *)
(* (Workspace), what a run is made from (Inputs), deep copies (Copies). The  *)
(* initial state chooses one of them; the others stay where they are.        *)
EXTENDS Workspace, Inputs, Copies

VARIABLE part

MCKeys == {<<1>>, <<2>>, <<1, 2>>}

MCValues == {<<>>, <<2>>}

NoFiles ==
    /\ caller = "none" /\ url = "none" /\ secret = "none" /\ brought = {}
    /\ pc = "none" /\ auth = "none" /\ userInUrl = FALSE /\ keyFile = "none"
    /\ closer = "noop" /\ env = "unset" /\ dir = "none" /\ err = FALSE /\ faults = 0

NoInputs ==
    /\ configs = <<>> /\ secrets = <<>> /\ envs = <<>> /\ step = "none"
    /\ source = 0 /\ todo = {} /\ combined = <<>> /\ keys = <<>> /\ digest = <<>>
    /\ envVars = <<>>

NoCopies == kind = "none" /\ original = <<>> /\ copy = <<>> /\ memory = <<>>

\* The variables and the environment do not meet: one of them is enough.
OneOfBoth ==
    \/ \A e \in EnvSources : envs[e] = {}
    \/ \A i \in DOMAIN Sources : Sources[i] = NoMap

MCInit ==
    \/ part = "files" /\ Init /\ NoInputs /\ NoCopies
    \/ part = "inputs" /\ NoFiles /\ InputsInit /\ OneOfBoth /\ NoCopies
    \/ part = "copies" /\ NoFiles /\ NoInputs /\ CopiesInit

FilesStep == part = "files" /\ Next /\ UNCHANGED <<part, inputVars, copyVars>>

InputsStep == part = "inputs" /\ InputsNext /\ UNCHANGED <<part, vars, copyVars>>

CopiesStep == part = "copies" /\ CopiesNext /\ UNCHANGED <<part, vars, inputVars>>

MCSpec ==
    MCInit /\ [][FilesStep \/ InputsStep \/ CopiesStep]_<<part, vars, inputVars, copyVars>>

=============================================================================
