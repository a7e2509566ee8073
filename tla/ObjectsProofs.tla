---------------------------- MODULE ObjectsProofs ----------------------------
(***************************************************************************)
(* What holds of the objects of a run for any number of calls, writes and  *)
(* faults: the types, RunHasResources and HandedOver of Objects.           *)
(***************************************************************************)
EXTENDS Objects, TLAPS

-----------------------------------------------------------------------------
(* The order of the objects *)

\* The five objects of a run and their places in Created.
LEMMA CreatedOrder ==
    /\ Len(Created) = 5
    /\ Created[1] = "execution"
    /\ Created[2] = "secret"
    /\ Created[3] = "serviceAccount"
    /\ Created[4] = "clusterRoleBinding"
    /\ Created[5] = "job"
BY DEF Created

\* The three objects that are handed over and their places in HandOver.
LEMMA HandOverOrder ==
    /\ Len(HandOver) = 3
    /\ HandOver[1] = "serviceAccount"
    /\ HandOver[2] = "clusterRoleBinding"
    /\ HandOver[3] = "secret"
BY DEF HandOver

\* What Create makes next.
LEMMA MakesNext ==
    ASSUME made \in 0..4
    PROVE  /\ Created[made + 1] \in Kinds
           /\ made = 0 => Created[made + 1] = "execution"
           /\ made = 1 => Created[made + 1] = "secret"
           /\ made = 2 => Created[made + 1] = "serviceAccount"
           /\ made = 3 => Created[made + 1] = "clusterRoleBinding"
           /\ made = 4 => Created[made + 1] = "job"
<1>1. CASE made = 0 BY <1>1, CreatedOrder DEF Kinds, Resources
<1>2. CASE made = 1 BY <1>2, CreatedOrder DEF Kinds, Resources
<1>3. CASE made = 2 BY <1>3, CreatedOrder DEF Kinds, Resources
<1>4. CASE made = 3 BY <1>4, CreatedOrder DEF Kinds, Resources
<1>5. CASE made = 4 BY <1>5, CreatedOrder DEF Kinds, Resources
<1> QED BY <1>1, <1>2, <1>3, <1>4, <1>5

\* What updateOwnerReference works on.
LEMMA HandsNext ==
    ASSUME handed \in 0..2
    PROVE  /\ Current \in Resources
           /\ handed = 0 => Current = "serviceAccount"
           /\ handed = 1 => Current = "clusterRoleBinding"
           /\ handed = 2 => Current = "secret"
<1>1. CASE handed = 0 BY <1>1, HandOverOrder DEF Current, Resources
<1>2. CASE handed = 1 BY <1>2, HandOverOrder DEF Current, Resources
<1>3. CASE handed = 2 BY <1>3, HandOverOrder DEF Current, Resources
<1> QED BY <1>1, <1>2, <1>3

-----------------------------------------------------------------------------
(* The inductive invariant *)

\* Where the deployment stands.
Place ==
    /\ pc = "create" => made < 5 /\ handed = 0 /\ tries = 0 /\ ~fresh
    /\ pc \in {"get", "update"} => made = 5 /\ handed < 3
    /\ pc = "deployed" => handed = 3

\* Before the Job, the three resources are nobody's, and those that were made
\* are there; the Job is there only with all of them, and they are never the
\* State's.
Backed ==
    /\ pc = "create" => /\ ~exists["job"]
                        /\ \A k \in Resources : owner[k] = Nobody
                        /\ made >= 2 => exists["secret"]
                        /\ made >= 3 => exists["serviceAccount"]
                        /\ made >= 4 => exists["clusterRoleBinding"]
    /\ exists["job"] => \A k \in Resources : exists[k]
    /\ \A k \in Resources : owner[k] \in {"job", Nobody}

\* An object is there, but not the Job's.
Kept(k) == exists[k] /\ owner[k] # "job"

\* Each object the deployment is done with is handed over, or conflicts used
\* up its calls.
Passed ==
    pc # "failed" =>
        /\ handed >= 1 => (Kept("serviceAccount") => writes >= Tries)
        /\ handed >= 2 => (Kept("clusterRoleBinding") => writes >= Tries)
        /\ handed >= 3 => (Kept("secret") => writes >= Tries)

\* Every call that is over, and the one that must fail because its copy is
\* old, is matched by a write of someone else.
Paid ==
    pc \in {"get", "update"} /\ Kept(Current) =>
        /\ tries <= writes
        /\ pc = "update" /\ ~fresh => tries < writes

IInv == TypeOK /\ Place /\ Backed /\ Passed /\ Paid

\* The invariant implies the two safety properties.
LEMMA Implied == IInv => RunHasResources /\ HandedOver
<1> SUFFICES ASSUME IInv PROVE RunHasResources /\ HandedOver
  OBVIOUS
<1>1. RunHasResources
  BY DEF IInv, Backed, RunHasResources
<1>2. HandedOver
  BY DEF IInv, Place, Passed, Kept, HandedOver, Resources
<1> QED BY <1>1, <1>2

-----------------------------------------------------------------------------
(* Every step keeps the invariant *)

LEMMA Initially == Init => IInv
<1> SUFFICES ASSUME Init PROVE IInv
  OBVIOUS
<1> USE BoundsOK DEF Init
<1>1. TypeOK
  <2>1. made \in 0..Len(Created) /\ handed \in 0..Len(HandOver)
    BY CreatedOrder, HandOverOrder
  <2>2. tries \in 0..(Tries - 1) /\ writes \in 0..MaxWrites /\ faults \in 0..MaxFaults
    OBVIOUS
  <2>3. exists \in [Kinds -> BOOLEAN] /\ owner \in [Kinds -> {"state", "job", Nobody}]
    OBVIOUS
  <2>4. state \in BOOLEAN /\ fresh \in BOOLEAN /\ pc \in Phases
    BY DEF Phases
  <2> QED BY <2>1, <2>2, <2>3, <2>4 DEF TypeOK
<1>2. Place
  BY DEF Place
<1>3. Backed
  BY DEF Backed, Kinds, Resources
<1>4. Passed /\ Paid
  BY DEF Passed, Paid
<1> QED BY <1>1, <1>2, <1>3, <1>4 DEF IInv

\* What Make does to the objects.
LEMMA Making ==
    ASSUME TypeOK, NEW k \in Kinds, Make(k)
    PROVE  /\ exists' \in [Kinds -> BOOLEAN]
           /\ owner' \in [Kinds -> {"state", "job", Nobody}]
           /\ exists'[k]
           /\ \A j \in Kinds : j # k => exists'[j] = exists[j] /\ owner'[j] = owner[j]
           /\ k \in Resources => owner'[k] = Nobody
<1> USE DEF TypeOK, Make, FirstOwner, Kinds, Resources, Nobody
<1>1. exists' \in [Kinds -> BOOLEAN] /\ owner' \in [Kinds -> {"state", "job", Nobody}]
  OBVIOUS
<1>2. exists'[k] /\ (k \in Resources => owner'[k] = Nobody)
  OBVIOUS
<1>3. \A j \in Kinds : j # k => exists'[j] = exists[j] /\ owner'[j] = owner[j]
  OBVIOUS
<1> QED BY <1>1, <1>2, <1>3

LEMMA CreateKeeps == IInv /\ Create => IInv'
<1> SUFFICES ASSUME IInv, Create PROVE IInv'
  OBVIOUS
<1> DEFINE k == Created[made + 1]
<1>1. /\ TypeOK /\ Place /\ Backed /\ pc = "create" /\ made \in 0..4
      /\ handed = 0 /\ tries = 0 /\ fresh = FALSE
  BY CreatedOrder DEF IInv, Create, Place, TypeOK
<1>2. /\ k \in Kinds /\ made' = made + 1 /\ Make(k)
      /\ pc' = IF made' = 5 THEN "get" ELSE "create"
      /\ UNCHANGED <<state, handed, tries, fresh, writes, faults>>
  BY <1>1, MakesNext, CreatedOrder DEF Create
<1>3. /\ exists' \in [Kinds -> BOOLEAN]
      /\ owner' \in [Kinds -> {"state", "job", Nobody}]
      /\ exists'[k]
      /\ \A j \in Kinds : j # k => exists'[j] = exists[j] /\ owner'[j] = owner[j]
      /\ k \in Resources => owner'[k] = Nobody
  BY <1>1, <1>2, Making
<1> HIDE DEF k
<1>4. /\ made = 0 => k = "execution"
      /\ made = 1 => k = "secret"
      /\ made = 2 => k = "serviceAccount"
      /\ made = 3 => k = "clusterRoleBinding"
      /\ made = 4 => k = "job"
  BY <1>1, MakesNext DEF k
<1>5. TypeOK'
  BY <1>1, <1>2, <1>3, CreatedOrder, HandOverOrder DEF TypeOK, Phases
<1>6. Place'
  BY <1>1, <1>2 DEF Place
<1>7. \A j \in Resources : owner'[j] = Nobody
  BY <1>1, <1>3 DEF Backed, Kinds
<1>8. /\ made' >= 2 => exists'["secret"]
      /\ made' >= 3 => exists'["serviceAccount"]
      /\ made' >= 4 => exists'["clusterRoleBinding"]
  BY <1>1, <1>2, <1>3, <1>4 DEF Backed, Kinds, Resources
<1>9. made' # 5 => ~exists'["job"]
  BY <1>1, <1>2, <1>3, <1>4 DEF Backed, Kinds, Resources
<1>10. Backed'
  BY <1>1, <1>2, <1>7, <1>8, <1>9 DEF Backed, Resources
<1>11. Passed'
  BY <1>1, <1>2 DEF Passed
<1>12. Paid'
  BY <1>1, <1>2 DEF Paid, TypeOK
<1> QED BY <1>5, <1>6, <1>10, <1>11, <1>12 DEF IInv

LEMMA CreateFailsKeeps == IInv /\ CreateFails => IInv'
<1> SUFFICES ASSUME IInv, CreateFails PROVE IInv'
  OBVIOUS
<1> DEFINE k == Created[made + 1]
<1>1. TypeOK /\ Place /\ Backed /\ pc = "create" /\ made \in 0..4
  BY CreatedOrder DEF IInv, CreateFails, Place, TypeOK
<1>2. /\ k \in Kinds /\ pc' = "failed" /\ faults < MaxFaults /\ faults' = faults + 1
      /\ Make(k) \/ UNCHANGED <<exists, owner>>
      /\ UNCHANGED <<state, made, handed, tries, fresh, writes>>
  BY <1>1, MakesNext DEF CreateFails
<1>3. CASE UNCHANGED <<exists, owner>>
  <2>1. TypeOK'
    BY <1>1, <1>2, <1>3, BoundsOK DEF TypeOK, Phases
  <2>2. Backed'
    BY <1>1, <1>2, <1>3 DEF Backed
  <2> QED BY <1>2, <2>1, <2>2 DEF IInv, Place, Passed, Paid
<1>4. CASE Make(k)
  <2>1. /\ exists' \in [Kinds -> BOOLEAN]
        /\ owner' \in [Kinds -> {"state", "job", Nobody}]
        /\ exists'[k]
        /\ \A j \in Kinds : j # k => exists'[j] = exists[j] /\ owner'[j] = owner[j]
        /\ k \in Resources => owner'[k] = Nobody
    BY <1>1, <1>2, <1>4, Making
  <2> HIDE DEF k
  <2>2. /\ made = 0 => k = "execution"
        /\ made = 1 => k = "secret"
        /\ made = 2 => k = "serviceAccount"
        /\ made = 3 => k = "clusterRoleBinding"
        /\ made = 4 => k = "job"
    BY <1>1, MakesNext DEF k
  <2>3. TypeOK'
    BY <1>1, <1>2, <2>1, BoundsOK DEF TypeOK, Phases
  <2>4. \A j \in Resources : owner'[j] = Nobody
    BY <1>1, <2>1 DEF Backed, Kinds
  <2>5. exists'["job"] => made = 4
    BY <1>1, <1>2, <2>1, <2>2 DEF Backed, Kinds, Resources
  <2>6. made = 4 => \A j \in Resources : exists'[j]
    BY <1>1, <2>1, <2>2 DEF Backed, Kinds, Resources
  <2>7. Backed'
    BY <1>2, <2>4, <2>5, <2>6 DEF Backed
  <2> QED BY <1>2, <2>3, <2>7 DEF IInv, Place, Passed, Paid
<1> QED BY <1>2, <1>3, <1>4

\* What NextCall leaves behind: the call that is over must be paid for if the
\* object it was for is still to be handed over.
LEMMA NextCallKeeps ==
    ASSUME IInv, pc \in {"get", "update"}, NextCall,
           exists'[Current] /\ owner'[Current] # "job" => tries < writes,
           \A k \in Resources : exists'[k] /\ owner'[k] # "job" => Kept(k),
           made' = made, writes' = writes
    PROVE  /\ Place' /\ Passed' /\ Paid'
           /\ pc' \in Phases /\ handed' \in 0..Len(HandOver) /\ tries' \in 0..(Tries - 1)
<1>1. /\ TypeOK /\ Place /\ Passed /\ made = 5 /\ handed \in 0..2
      /\ tries \in 0..(Tries - 1) /\ writes \in Nat /\ Tries \in Nat \ {0}
  BY BoundsOK, HandOverOrder DEF IInv, Place, TypeOK
<1>2. CASE tries + 1 < Tries
  <2>1. tries' = tries + 1 /\ pc' = "get" /\ handed' = handed
    BY <1>2 DEF NextCall
  <2>2. Current' = Current
    BY <2>1 DEF Current
  <2>3. Paid'
    BY <1>1, <2>1, <2>2 DEF Paid, Kept
  <2>4. Passed'
    BY <1>1, <2>1 DEF Passed, Kept, Resources
  <2> QED BY <1>1, <1>2, <2>1, <2>3, <2>4, HandOverOrder DEF Place, Phases
<1>3. CASE ~(tries + 1 < Tries)
  <2>1. /\ tries' = 0 /\ handed' = handed + 1 /\ tries + 1 = Tries
        /\ pc' = IF handed' = 3 THEN "deployed" ELSE "get"
    BY <1>1, <1>3, HandOverOrder DEF NextCall
  <2>2. exists'[Current] /\ owner'[Current] # "job" => writes' >= Tries
    BY <1>1, <2>1
  <2>3. Passed'
    BY <1>1, <2>1, <2>2, HandsNext DEF Passed, Kept, Resources
  <2>4. Paid'
    BY <1>1, <2>1 DEF Paid
  <2> QED BY <1>1, <2>1, <2>3, <2>4, HandOverOrder DEF Place, Phases
<1> QED BY <1>2, <1>3

LEMMA GetKeeps == IInv /\ GetObject => IInv'
<1> SUFFICES ASSUME IInv, GetObject PROVE IInv'
  OBVIOUS
<1>1. /\ pc = "get" /\ TypeOK /\ Place /\ Backed /\ Passed /\ Paid
      /\ handed \in 0..2
      /\ UNCHANGED <<state, exists, owner, made, writes, faults>>
  BY HandOverOrder DEF GetObject, IInv, Place, TypeOK
<1>2. CASE exists[Current]
  <2>1. pc' = "update" /\ fresh' = TRUE /\ UNCHANGED <<tries, handed>>
    BY <1>2 DEF GetObject
  <2>2. Current' = Current
    BY <2>1 DEF Current
  <2>3. TypeOK' /\ Place' /\ Backed'
    BY <1>1, <2>1 DEF TypeOK, Place, Backed, Phases
  <2>4. Passed' /\ Paid'
    BY <1>1, <2>1, <2>2 DEF Passed, Paid, Kept
  <2> QED BY <2>3, <2>4 DEF IInv
<1>3. CASE ~exists[Current]
  <2>1. NextCall /\ fresh' = fresh
    BY <1>3 DEF GetObject
  <2>2. /\ Place' /\ Passed' /\ Paid'
        /\ pc' \in Phases /\ handed' \in 0..Len(HandOver) /\ tries' \in 0..(Tries - 1)
    BY <1>1, <1>3, <2>1, NextCallKeeps DEF Kept
  <2>3. TypeOK'
    BY <1>1, <2>1, <2>2 DEF TypeOK
  <2>4. Backed'
    BY <1>1, <2>1 DEF Backed, NextCall
  <2> QED BY <2>2, <2>3, <2>4 DEF IInv
<1> QED BY <1>2, <1>3

LEMMA UpdateKeeps == IInv /\ UpdateObject => IInv'
<1> SUFFICES ASSUME IInv, UpdateObject PROVE IInv'
  OBVIOUS
<1>1. /\ pc = "update" /\ TypeOK /\ Place /\ Backed /\ Passed /\ Paid
      /\ handed \in 0..2 /\ Current \in Resources
      /\ NextCall /\ fresh' = FALSE
      /\ owner' = IF exists[Current] /\ fresh
                  THEN [owner EXCEPT ![Current] = "job"] ELSE owner
      /\ UNCHANGED <<state, exists, made, writes, faults>>
  BY HandOverOrder, HandsNext DEF UpdateObject, IInv, Place, TypeOK
<1>2. /\ owner' \in [Kinds -> {"state", "job", Nobody}]
      /\ \A k \in Kinds : owner'[k] = owner[k] \/ owner'[k] = "job"
      /\ exists[Current] /\ fresh => owner'[Current] = "job"
      /\ \A k \in Kinds : k # Current => owner'[k] = owner[k]
  BY <1>1 DEF TypeOK, Kinds
<1>3. exists'[Current] /\ owner'[Current] # "job" => tries < writes
  <2>1. CASE exists[Current] /\ fresh
    BY <1>2, <2>1
  <2>2. CASE exists[Current] /\ ~fresh
    BY <1>1, <2>2 DEF Paid, Kept
  <2>3. CASE ~exists[Current]
    BY <1>1, <2>3
  <2> QED BY <2>1, <2>2, <2>3
<1>4. \A k \in Resources : exists'[k] /\ owner'[k] # "job" => Kept(k)
  BY <1>1, <1>2 DEF Kept, Kinds
<1>5. /\ Place' /\ Passed' /\ Paid'
      /\ pc' \in Phases /\ handed' \in 0..Len(HandOver) /\ tries' \in 0..(Tries - 1)
  BY <1>1, <1>3, <1>4, NextCallKeeps
<1>6. TypeOK'
  BY <1>1, <1>2, <1>5 DEF TypeOK
<1>7. pc' # "create"
  BY <1>1 DEF NextCall
<1>8. Backed'
  BY <1>1, <1>2, <1>7 DEF Backed, Kinds
<1> QED BY <1>5, <1>6, <1>8 DEF IInv

LEMMA CallFailsKeeps == IInv /\ CallFails => IInv'
<1> SUFFICES ASSUME IInv, CallFails PROVE IInv'
  OBVIOUS
<1>1. /\ pc \in {"get", "update"} /\ TypeOK /\ Backed /\ Current \in Resources
      /\ faults < MaxFaults /\ faults' = faults + 1 /\ pc' = "failed"
      /\ UNCHANGED <<state, exists, made, handed, tries, fresh, writes>>
      /\ owner' = owner \/ owner' = [owner EXCEPT ![Current] = "job"]
  BY HandOverOrder, HandsNext DEF CallFails, IInv, Place, TypeOK
<1>2. /\ owner' \in [Kinds -> {"state", "job", Nobody}]
      /\ \A k \in Kinds : owner'[k] = owner[k] \/ owner'[k] = "job"
  BY <1>1 DEF TypeOK, Kinds
<1>3. TypeOK'
  BY <1>1, <1>2, BoundsOK DEF TypeOK, Phases
<1>4. Backed'
  BY <1>1, <1>2 DEF Backed, Kinds
<1> QED BY <1>1, <1>3, <1>4 DEF IInv, Place, Passed, Paid

LEMMA WriteKeeps == ASSUME NEW k \in Resources PROVE IInv /\ WriteObject(k) => IInv'
<1> SUFFICES ASSUME IInv, WriteObject(k) PROVE IInv'
  OBVIOUS
<1>1. /\ TypeOK /\ Place /\ Backed /\ Passed /\ Paid
      /\ writes < MaxWrites /\ writes' = writes + 1
      /\ fresh' = (fresh /\ k # Current)
      /\ UNCHANGED <<state, exists, owner, pc, made, handed, tries, faults>>
  BY DEF WriteObject, IInv
<1>2. /\ writes \in Nat /\ tries \in Nat /\ writes' \in 0..MaxWrites /\ fresh \in BOOLEAN
      /\ Tries \in Nat
  BY <1>1, BoundsOK DEF TypeOK
<1>3. fresh' \in BOOLEAN
  BY <1>1, <1>2
<1>4. TypeOK'
  BY <1>1, <1>2, <1>3 DEF TypeOK
<1>5. Place' /\ Backed'
  BY <1>1 DEF Place, Backed
<1>6. Passed'
  BY <1>1, <1>2 DEF Passed, Kept
<1>7. Current' = Current
  BY <1>1 DEF Current
<1>8. Paid'
  BY <1>1, <1>2, <1>7 DEF Paid, Kept
<1> QED BY <1>4, <1>5, <1>6, <1>8 DEF IInv

\* Objects that go away break nothing, if the Job goes before its resources.
LEMMA GoneKeeps ==
    ASSUME IInv, NEW k \in Kinds, exists[k],
           k \in Resources => pc # "create" /\ ~exists["job"],
           exists' = [exists EXCEPT ![k] = FALSE],
           UNCHANGED <<owner, pc, made, handed, tries, fresh, writes, faults>>,
           state' = state
    PROVE  IInv'
<1>1. /\ TypeOK /\ Place /\ Backed /\ Passed /\ Paid
  BY DEF IInv
<1>2. /\ exists' \in [Kinds -> BOOLEAN]
      /\ ~exists'[k]
      /\ \A j \in Kinds : j # k => exists'[j] = exists[j]
  BY <1>1 DEF TypeOK
<1>3. TypeOK'
  BY <1>1, <1>2 DEF TypeOK
<1>4. Place'
  BY <1>1 DEF Place
<1>5. Backed'
  BY <1>1, <1>2 DEF Backed, Kinds, Resources
<1>6. Passed'
  BY <1>1, <1>2 DEF Passed, Kept, Kinds, Resources
<1>7. Paid'
  <2>1. Current' = Current
    BY DEF Current
  <2>2. CASE pc \in {"get", "update"}
    <3>1. Current \in Kinds
      BY <1>1, <2>2, HandsNext, HandOverOrder DEF Place, TypeOK, Kinds
    <3> QED BY <1>1, <1>2, <2>1, <3>1 DEF Paid, Kept
  <2>3. CASE ~(pc \in {"get", "update"})
    BY <2>3 DEF Paid
  <2> QED BY <2>2, <2>3
<1> QED BY <1>3, <1>4, <1>5, <1>6, <1>7 DEF IInv

LEMMA CollectKeeps == ASSUME NEW k \in Kinds PROVE IInv /\ Collect(k) => IInv'
<1> SUFFICES ASSUME IInv, Collect(k) PROVE IInv'
  OBVIOUS
<1>1. k \in Resources => pc # "create" /\ ~exists["job"]
  BY DEF IInv, Backed, Collect, Orphan, Nobody
<1> QED BY <1>1, GoneKeeps DEF Collect, Orphan

\* IInv is inductive.
LEMMA Inductive == IInv /\ [Next]_vars => IInv'
<1> SUFFICES ASSUME IInv, [Next]_vars PROVE IInv'
  OBVIOUS
<1>1. CASE Create BY <1>1, CreateKeeps
<1>2. CASE CreateFails BY <1>2, CreateFailsKeeps
<1>3. CASE GetObject BY <1>3, GetKeeps
<1>4. CASE UpdateObject BY <1>4, UpdateKeeps
<1>5. CASE CallFails BY <1>5, CallFailsKeeps
<1>6. CASE \E k \in Resources : WriteObject(k) BY <1>6, WriteKeeps
<1>7. CASE DeleteJob
  <2>1. "job" \in Kinds /\ "job" \notin Resources
    BY DEF Kinds, Resources
  <2> QED BY <1>7, <2>1, GoneKeeps DEF DeleteJob
<1>8. CASE RemoveState
  <2>1. TypeOK' /\ Place' /\ Backed'
    BY <1>8 DEF RemoveState, IInv, TypeOK, Place, Backed
  <2>2. Passed' /\ Paid'
    BY <1>8 DEF RemoveState, IInv, Passed, Paid, Kept, Current
  <2> QED BY <2>1, <2>2 DEF IInv
<1>9. CASE \E k \in Kinds : Collect(k) BY <1>9, CollectKeeps
<1>10. CASE UNCHANGED vars
  <2>1. TypeOK' /\ Place' /\ Backed'
    BY <1>10 DEF vars, IInv, TypeOK, Place, Backed
  <2>2. Passed' /\ Paid'
    BY <1>10 DEF vars, IInv, Passed, Paid, Kept, Current
  <2> QED BY <2>1, <2>2 DEF IInv
<1> QED BY <1>1, <1>2, <1>3, <1>4, <1>5, <1>6, <1>7, <1>8, <1>9, <1>10 DEF Next, Deploy

-----------------------------------------------------------------------------
(* Theorems *)

\* Every variable of the deployment of a run stays within its type, for any
\* number of calls, writes and faults.
THEOREM TypeCorrect == Spec => []TypeOK
<1>1. IInv => TypeOK
  BY DEF IInv
<1> QED BY <1>1, Initially, Inductive, PTL DEF Spec

\* As long as a run's Job exists so do the Secret, the ServiceAccount and the
\* ClusterRoleBinding its pods need, whatever the deployment, other writers
\* and the garbage collector do.
THEOREM ResourcesOutliveJob == Spec => []RunHasResources
BY Initially, Inductive, Implied, PTL DEF Spec

\* A deployment that reports success has handed over every object that is
\* left, unless others wrote the object as often as tryUpdate calls.
THEOREM HandOverDone == Spec => []HandedOver
BY Initially, Inductive, Implied, PTL DEF Spec

=============================================================================
