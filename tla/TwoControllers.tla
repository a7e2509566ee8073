---------------------------- MODULE TwoControllers ----------------------------
(***************************************************************************)
(* Two controller processes side by side, as during a rolling update:      *)
(* run() of main.go starts the workers at once, without electing a leader. *)
(* Each process is a StateController with a cache, a queue and a handler   *)
(* of its own; they share what the API server stores. The first process is *)
(* the one that is replaced: it begins MaxSyncs more syncs, and may die    *)
(* (take no further step) anywhere in them.                                *)
(***************************************************************************)
EXTENDS Integers

CONSTANTS Contents, NoContent, VariableSets, NoVariables, MaxExecutions,
          MaxInt, Images, MaxEdits, MaxFaults, MaxCrashes, MaxRaces,
          MaxPrunes, MaxDisturbances,
          MaxSyncs   \* syncs the first process still begins

\* What StateController assumes
ASSUME ConstantsOK ==
    /\ NoContent \notin Contents
    /\ NoVariables \notin VariableSets
    /\ MaxExecutions \in Nat
    /\ MaxInt \in Nat \ {0}
    /\ Images \subseteq BOOLEAN
    /\ MaxEdits \in Nat
    /\ MaxFaults \in Nat
    /\ MaxCrashes \in Nat
    /\ MaxRaces \in Nat
    /\ MaxPrunes \in Nat
    /\ MaxDisturbances \in Nat

VARIABLES
    st, content, variables, execs, budget,
    cache1, queue1, events1, pc1, orig1, shared1, obj1, input1, hash1, run1, err1,
    syncs,     \* syncs the first process has begun
    cache2, queue2, events2, pc2, orig2, shared2, obj2, input2, hash2, run2, err2

process1 == <<cache1, queue1, events1, pc1, orig1, shared1, obj1, input1,
              hash1, run1, err1, syncs>>
process2 == <<cache2, queue2, events2, pc2, orig2, shared2, obj2, input2,
              hash2, run2, err2>>
stored == <<st, content, variables, execs>>
vars == <<stored, budget, process1, process2>>

First == INSTANCE StateController WITH
    cache <- cache1, queue <- queue1, events <- events1, pc <- pc1,
    orig <- orig1, shared <- shared1, obj <- obj1, input <- input1,
    hash <- hash1, run <- run1, err <- err1

Second == INSTANCE StateController WITH
    cache <- cache2, queue <- queue2, events <- events2, pc <- pc2,
    orig <- orig2, shared <- shared2, obj <- obj2, input <- input2,
    hash <- hash2, run <- run2, err <- err2

Init == First!Init /\ Second!Init /\ syncs = 0

-----------------------------------------------------------------------------
(* Steps of one process *)

\* An Execution was created; the watches of both processes show it.
Announced == \E n \in First!Names : execs[n].stage = 0 /\ execs'[n].stage # 0

FirstSteps ==
    /\ \/ /\ syncs < MaxSyncs
          /\ First!InformerSync \/ First!ExecutionOnChange \/ First!RelatedResource
          /\ UNCHANGED syncs
       \/ /\ First!StartSync
          /\ syncs < MaxSyncs /\ syncs' = syncs + 1
       \/ /\ pc1 # "idle" /\ First!Sync
          /\ UNCHANGED syncs
    /\ events2' = IF Announced THEN events2 \cup {"execution"} ELSE events2
    /\ UNCHANGED <<cache2, queue2, pc2, orig2, shared2, obj2, input2, hash2,
                   run2, err2>>

SecondSteps ==
    /\ \/ Second!InformerSync \/ Second!ExecutionOnChange
       \/ Second!RelatedResource \/ Second!Sync \/ Second!Crash
    /\ events1' = IF Announced THEN events1 \cup {"execution"} ELSE events1
    /\ UNCHANGED <<cache1, queue1, pc1, orig1, shared1, obj1, input1, hash1,
                   run1, err1, syncs>>

-----------------------------------------------------------------------------
(* Steps both processes may be told of *)

UserActs == First!User /\ Second!User /\ UNCHANGED syncs

ExecutionChanges ==
    /\ \/ First!ExecutorReports /\ Second!ExecutorReports
       \/ First!TouchExecution /\ Second!TouchExecution
    /\ UNCHANGED syncs

Next == FirstSteps \/ SecondSteps \/ UserActs \/ ExecutionChanges

Spec == Init /\ [][Next]_vars

-----------------------------------------------------------------------------
(* Properties *)

\* Both processes may deploy the same run, but whichever records its
\* Execution last, the status never mixes two runs: the status names an
\* Execution deployed in full for the hash it records.
OneRunRecorded == First!StatusNamesItsRun

\* A State whose finalizer held it back goes only if its infrastructure is to
\* be kept or the run its status names is applied, although one process may
\* remove the finalizer while the other deploys.
RemovalAgreed == First!RemovalJustified

\* Neither process undoes what a user has edited.
EditsSurvive == First!SpecEditsKept

=============================================================================
