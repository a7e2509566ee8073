----------------------- MODULE ModuleControllerProofs -----------------------
(***************************************************************************)
(* Theorems about ModuleController, for any repositories, specifications   *)
(* and number of events.                                                   *)
(***************************************************************************)
EXTENDS ModuleController, TLAPS

-----------------------------------------------------------------------------
(* The inductive invariant *)

\* A check got its commit from the repository it asked.
CheckOK(m) == m.checked # None => m.checked.commit.url = m.checked.url

HashOK(m) == m.hash = ComputeHash([m EXCEPT !.spec = m.content, !.checked = None])

CommitOK(m) == m.content.commit # None => m.content.commit.url = m.content.url

\* What holds of every copy of the Module, however old or changed in place
Good(m) == m \in Modules /\ CheckOK(m) /\ HashOK(m) /\ CommitOK(m)

IInv == TypeOK /\ Good(md) /\ Good(cache) /\ Good(obj)

-----------------------------------------------------------------------------
(* What the handler computes *)

\* The hash depends on the content, inline or in git.
LEMMA HashOfField ==
    ASSUME NEW m \in Modules, NEW c \in Contents
    PROVE  ComputeHash([m EXCEPT !.spec = c, !.checked = None]) =
               IF c.inline # None THEN [NoHash EXCEPT !.inline = c.inline]
               ELSE IF c.url = None THEN NoHash
               ELSE [NoHash EXCEPT !.url = c.url, !.commit = c.commit]
<1> DEFINE n == [m EXCEPT !.spec = c, !.checked = None]
<1>1. n.spec = c /\ n.checked = None
  BY DEF Modules
<1> HIDE DEF n
<1> QED
  BY <1>1 DEF ComputeHash

\* What is neither content nor hash may change, if a check stays one.
LEMMA GoodStays ==
    ASSUME NEW m, Good(m), NEW n \in Modules,
           n.content = m.content, n.hash = m.hash, CheckOK(n)
    PROVE  Good(n)
<1>1. m \in Modules /\ m.content \in Contents
  BY DEF Good, Modules
<1>2. HashOK(n)
  BY <1>1, HashOfField DEF Good, HashOK
<1>3. CommitOK(n)
  BY DEF Good, CommitOK
<1> QED
  BY <1>2, <1>3 DEF Good

LEMMA AgedGood == ASSUME NEW m, Good(m) PROVE Good(Aged(m))
<1> DEFINE a == IF m.age = "young" THEN "old" ELSE m.age
           n == [m EXCEPT !.age = a]
<1>1. m \in Modules /\ CheckOK(m) /\ Aged(m) = n
  BY DEF Good, Aged
<1>2. a \in {"never", "young", "old"}
  BY <1>1 DEF Modules
<1> HIDE DEF a
<1>3. n \in Modules /\ n.content = m.content /\ n.hash = m.hash /\ n.checked = m.checked
  BY <1>1, <1>2 DEF Modules
<1> HIDE DEF n
<1> QED
  BY <1>1, <1>3, GoodStays DEF CheckOK

\* A check of a Module that is polled
LEMMA CheckedGood ==
    ASSUME TypeOK, NEW m, Good(m), IsPolling(m.spec)
    PROVE  Good(Checked(m))
<1> DEFINE c == [url |-> m.spec.url, ref |-> m.spec.ref,
                 n |-> remote[<<m.spec.url, m.spec.ref>>]]
           k == [url |-> m.spec.url, ref |-> m.spec.ref, commit |-> c]
           n == [m EXCEPT !.checked = k, !.age = "young", !.forced = FALSE]
<1>1. m \in Modules /\ m.spec \in Contents /\ Checked(m) = n
  BY ConstantsOK DEF Good, Modules, Checked
<1>2. m.spec.url \in Urls /\ m.spec.ref \in Refs
  BY <1>1 DEF Contents, IsPolling
<1>3. remote[<<m.spec.url, m.spec.ref>>] \in Nat
  BY <1>2 DEF TypeOK
<1>4. c \in Commits /\ c.url = m.spec.url
  BY <1>2, <1>3 DEF Commits
<1> HIDE DEF c
<1>5. k \in [url : Urls, ref : Refs, commit : Commits] /\ k.commit.url = k.url
  BY <1>2, <1>4
<1> HIDE DEF k
<1>6. n \in Modules /\ n.content = m.content /\ n.hash = m.hash /\ n.checked = k
  BY <1>1, <1>5 DEF Modules
<1> HIDE DEF n
<1> QED
  BY <1>1, <1>5, <1>6, GoodStays DEF CheckOK

\* The content that is stored: the hash fits it, and a polled commit belongs
\* to its repository, since that was not changed after the check.
LEMMA HashedGood ==
    ASSUME NEW m, Good(m), ~(IsPolling(m.spec) /\ NeedsUpdate(m))
    PROVE  Good(Hashed(m))
<1> DEFINE polled == IsPolling(m.spec) /\ m.checked # None
           c == IF polled THEN [m.spec EXCEPT !.commit = m.checked.commit] ELSE m.spec
           h == ComputeHash(m)
           n == [m EXCEPT !.content = c, !.hash = h]
<1>1. m \in Modules /\ m.spec \in Specs /\ m.spec \in Contents /\ Hashed(m) = n
  BY ConstantsOK DEF Good, Modules, Hashed
<1>2. m.checked # None => /\ m.checked \in [url : Urls, ref : Refs, commit : Commits]
                          /\ m.checked.commit.url = m.checked.url
  BY <1>1 DEF Good, CheckOK, Modules
<1>3. polled => m.checked.url = m.spec.url
  BY DEF NeedsUpdate
<1>4. /\ c \in Contents /\ c.inline = m.spec.inline /\ c.url = m.spec.url
      /\ c.commit = IF polled THEN m.checked.commit ELSE m.spec.commit
  BY <1>1, <1>2 DEF Contents
<1>5. c.commit # None => c.commit.url = c.url
  BY <1>1, <1>2, <1>3, <1>4, ConstantsOK
<1> HIDE DEF c
<1>6. h = IF c.inline # None THEN [NoHash EXCEPT !.inline = c.inline]
          ELSE IF c.url = None THEN NoHash
          ELSE [NoHash EXCEPT !.url = c.url, !.commit = c.commit]
  BY <1>4 DEF ComputeHash
<1> HIDE DEF h
<1>7. h \in [inline : Inlines \cup {None}, url : Urls \cup {None},
             commit : Commits \cup {None}]
  BY <1>4, <1>6 DEF NoHash, Contents
<1>8. /\ n \in Modules /\ n.content = c /\ n.hash = h /\ n.checked = m.checked
  BY <1>1, <1>4, <1>7 DEF Modules
<1> HIDE DEF n
<1>9. HashOK(n)
  BY <1>4, <1>6, <1>8, HashOfField DEF HashOK
<1> QED
  BY <1>1, <1>2, <1>5, <1>8, <1>9 DEF Good, CheckOK, CommitOK

-----------------------------------------------------------------------------
(* Steps *)

LEMMA InitOK == Init => IInv
<1> SUFFICES ASSUME Init PROVE IInv
  OBVIOUS
<1> DEFINE e == [inline |-> None, url |-> None, ref |-> None, commit |-> None]
<1>1. PICK s \in Specs, i \in BOOLEAN :
         md = [spec |-> s, interval |-> i, age |-> "never", forced |-> FALSE,
               checked |-> None, hash |-> NoHash, content |-> e]
  BY DEF Init
<1>2. e \in Contents /\ e.inline = None /\ e.url = None /\ e.commit = None
  BY DEF Contents, Refs
<1> HIDE DEF e
<1>3. NoHash \in [inline : Inlines \cup {None}, url : Urls \cup {None},
                  commit : Commits \cup {None}]
  BY DEF NoHash
<1>4. md \in Modules
  BY <1>1, <1>2, <1>3 DEF Modules
<1>5. md.checked = None /\ md.hash = NoHash /\ md.content = e
  BY <1>1
<1>6. Good(md)
  BY <1>2, <1>4, <1>5, HashOfField DEF Good, CheckOK, HashOK, CommitOK
<1>7. TypeOK
  BY <1>4, ConstantsOK DEF Init, TypeOK
<1> QED
  BY <1>6, <1>7 DEF IInv, Init

LEMMA BudgetType ==
    ASSUME TypeOK, UNCHANGED budget \/ Spend PROVE budget' \in Nat
BY DEF TypeOK, Spend

\* An Update stores what it is given, or nothing.
LEMMA UpdateWrites ==
    ASSUME IInv, NEW m, NEW writes \in BOOLEAN, Update(m, writes), Good(m)
    PROVE  /\ Good(md)' /\ Good(cache)' /\ Good(obj)'
           /\ pc' = "idle" /\ UNCHANGED <<remote, current, shared>>
           /\ {event', queue'} \subseteq BOOLEAN /\ budget' \in Nat
<1>1. md' \in {md, m} /\ UNCHANGED <<remote, cache, obj, current, shared>>
  BY DEF Update, Write
<1>2. {event', queue'} \subseteq BOOLEAN /\ budget' \in Nat
  <2>1. UNCHANGED budget \/ Spend
    BY DEF Update
  <2>2. event' \in {event, TRUE} /\ queue' \in {queue, TRUE}
    BY DEF Update, Write
  <2>3. {event, queue} \subseteq BOOLEAN
    BY DEF IInv, TypeOK
  <2> QED
    BY <2>1, <2>2, <2>3, BudgetType DEF IInv
<1>3. Good(md')
  BY <1>1 DEF IInv
<1>4. Good(md)' /\ Good(cache)' /\ Good(obj)'
  BY <1>1, <1>3 DEF IInv, Good, CheckOK, HashOK, CommitOK
<1> QED
  BY <1>1, <1>2, <1>4 DEF Update

LEMMA SyncKeeps == ASSUME IInv, Sync PROVE IInv'
<1> USE DEF IInv
<1>1. CASE StartSync
  <2>1. obj' = [cache EXCEPT !.interval = TRUE] /\ cache' = obj' /\ md' = md
    BY <1>1 DEF StartSync
  <2> DEFINE n == [cache EXCEPT !.interval = TRUE]
  <2>2. n \in Modules /\ n.content = cache.content /\ n.hash = cache.hash
        /\ n.checked = cache.checked
    BY DEF Good, Modules
  <2> HIDE DEF n
  <2>3. Good(n)
    BY <2>2, GoodStays DEF Good, CheckOK
  <2>4. obj' = n /\ cache' = n
    BY <2>1 DEF n
  <2>5. Good(md)' /\ Good(cache)' /\ Good(obj)'
    BY <2>1, <2>3, <2>4 DEF Good, CheckOK, HashOK, CommitOK
  <2>6. TypeOK'
    BY <1>1, <2>5 DEF StartSync, TypeOK, Good
  <2> QED
    BY <2>5, <2>6
<1>2. CASE FetchCommit
  <2>1. Good(Checked(obj))
    BY <1>2, CheckedGood DEF FetchCommit
  <2>2. md' = md /\ obj' \in {obj, Checked(obj)} /\ cache' \in {cache, obj'}
    BY <1>2 DEF FetchCommit
  <2> HIDE DEF IInv
  <2>3. Good(md') /\ Good(obj') /\ Good(cache')
    BY <2>1, <2>2 DEF IInv
  <2>4. Good(md)' /\ Good(cache)' /\ Good(obj)'
    BY <2>3 DEF Good, CheckOK, HashOK, CommitOK
  <2>5. /\ {event', queue', current', shared'} \subseteq BOOLEAN
        /\ timer' \in {"off", "on", "early"} /\ pc' \in {"idle", "sync", "update"}
        /\ remote' = remote
    BY <1>2 DEF IInv, FetchCommit, TypeOK
  <2>6. UNCHANGED budget \/ Spend
    BY <1>2 DEF FetchCommit
  <2>7. budget' \in Nat
    BY <2>6, BudgetType DEF IInv
  <2> QED
    BY <2>4, <2>5, <2>7 DEF IInv, TypeOK, Good
<1>3. CASE UpdateCommit
  <2>1. Update(obj, TRUE) /\ UNCHANGED timer
    BY <1>3 DEF UpdateCommit
  <2>2. /\ Good(md)' /\ Good(cache)' /\ Good(obj)'
        /\ pc' = "idle" /\ UNCHANGED <<remote, current, shared>>
        /\ {event', queue'} \subseteq BOOLEAN /\ budget' \in Nat
    BY <2>1, UpdateWrites
  <2> QED
    BY <2>1, <2>2 DEF TypeOK, Good
<1>4. CASE UpdateHash
  <2>1. Update(Hashed(obj), TRUE) /\ UNCHANGED timer /\ Good(Hashed(obj))
    BY <1>4, HashedGood DEF UpdateHash
  <2>2. /\ Good(md)' /\ Good(cache)' /\ Good(obj)'
        /\ pc' = "idle" /\ UNCHANGED <<remote, current, shared>>
        /\ {event', queue'} \subseteq BOOLEAN /\ budget' \in Nat
    BY <2>1, UpdateWrites
  <2> QED
    BY <2>1, <2>2 DEF TypeOK, Good
<1>5. CASE Wait
  <2>1. Update(obj, obj # md) /\ timer' \in {"off", "on", "early"}
    BY <1>5 DEF Wait, TypeOK
  <2>2. /\ Good(md)' /\ Good(cache)' /\ Good(obj)'
        /\ pc' = "idle" /\ UNCHANGED <<remote, current, shared>>
        /\ {event', queue'} \subseteq BOOLEAN /\ budget' \in Nat
    BY <2>1, UpdateWrites
  <2> QED
    BY <2>1, <2>2 DEF TypeOK, Good
<1> QED
  BY <1>1, <1>2, <1>3, <1>4, <1>5 DEF Sync

\* The steps of the others change a Module only in ways GoodStays allows.
LEMMA OthersKeep ==
    ASSUME IInv, InformerSync \/ TimerFires \/ Crash \/ (\E u \in Urls, f \in Refs : Push(u, f))
    PROVE  IInv'
<1>1. md' = md /\ cache' \in {cache, md} /\ obj' = obj
  BY DEF InformerSync, TimerFires, Crash, Push
<1>2. Good(md') /\ Good(obj') /\ Good(cache')
  BY <1>1 DEF IInv
<1>3. Good(md)' /\ Good(cache)' /\ Good(obj)'
  BY <1>2 DEF Good, CheckOK, HashOK, CommitOK
<1>4. remote' \in [Urls \X Refs -> Nat]
  <2>1. ASSUME NEW u \in Urls, NEW f \in Refs, Push(u, f)
        PROVE  remote' \in [Urls \X Refs -> Nat]
    <3>1. remote \in [Urls \X Refs -> Nat]
      BY DEF IInv, TypeOK
    <3>2. remote' = [remote EXCEPT ![<<u, f>>] = @ + 1]
      BY <2>1 DEF Push
    <3>3. remote[<<u, f>>] + 1 \in Nat
      BY <3>1
    <3> QED
      BY <3>1, <3>2, <3>3
  <2> QED
    BY <2>1 DEF IInv, TypeOK, InformerSync, TimerFires, Crash
<1>5. /\ {event', queue', current', shared'} \subseteq BOOLEAN
      /\ timer' \in {"off", "on", "early"} /\ pc' \in {"idle", "sync", "update"}
  BY DEF IInv, TypeOK, InformerSync, TimerFires, Crash, Push
<1>6. UNCHANGED budget \/ Spend
  BY DEF InformerSync, TimerFires, Crash, Push, Later
<1>7. budget' \in Nat
  BY <1>6, BudgetType DEF IInv
<1> QED
  BY <1>3, <1>4, <1>5, <1>7 DEF IInv, TypeOK, Good

LEMMA CheckExpiresKeeps == ASSUME IInv, CheckExpires PROVE IInv'
<1>1. md' = Aged(md) /\ cache' = Aged(cache) /\ obj' = Aged(obj)
  BY DEF CheckExpires
<1>2. Good(md') /\ Good(obj') /\ Good(cache')
  BY <1>1, AgedGood DEF IInv
<1>3. Good(md)' /\ Good(cache)' /\ Good(obj)'
  BY <1>2 DEF Good, CheckOK, HashOK, CommitOK
<1>4. /\ UNCHANGED <<remote, event, queue, timer, pc, current, shared>>
      /\ budget' \in Nat
  BY DEF IInv, TypeOK, CheckExpires, Later, Spend
<1> QED
  BY <1>3, <1>4 DEF IInv, TypeOK, Good

LEMMA EditKeeps == ASSUME IInv, Edit PROVE IInv'
<1>1. Good(md')
  <2>1. ASSUME NEW s \in Specs, md' = [md EXCEPT !.spec = s] PROVE Good(md')
    <3>1. /\ md' \in Modules /\ md'.content = md.content /\ md'.hash = md.hash
          /\ md'.checked = md.checked
      BY <2>1 DEF IInv, Good, Modules
    <3> QED
      BY <3>1, GoodStays DEF IInv, Good, CheckOK
  <2>2. CASE md' = [md EXCEPT !.forced = TRUE]
    <3>1. /\ md' \in Modules /\ md'.content = md.content /\ md'.hash = md.hash
          /\ md'.checked = md.checked
      BY <2>2 DEF IInv, Good, Modules
    <3> QED
      BY <3>1, GoodStays DEF IInv, Good, CheckOK
  <2> QED
    BY <2>1, <2>2 DEF Edit, Write, IInv
<1>2. /\ UNCHANGED <<remote, cache, queue, timer, pc, obj, shared>>
      /\ event' = TRUE /\ current' = FALSE /\ budget' \in Nat
  BY DEF IInv, TypeOK, Edit, Write, Spend
<1>3. Good(md)' /\ Good(cache)' /\ Good(obj)'
  BY <1>1, <1>2 DEF IInv, Good, CheckOK, HashOK, CommitOK
<1> QED
  BY <1>2, <1>3 DEF IInv, TypeOK, Good

-----------------------------------------------------------------------------
(* Theorems *)

\* Every copy of the Module, stored, cached or in the handler's hands, has a
\* hash that fits its content and commits of the repositories it names.
THEOREM Invariance == Spec => []IInv
<1>1. Init => IInv
  BY InitOK
<1>2. IInv /\ [Next]_vars => IInv'
  <2>1. IInv /\ UNCHANGED vars => IInv'
    BY DEF IInv, TypeOK, Good, CheckOK, HashOK, CommitOK, vars
  <2> QED
    BY <2>1, SyncKeeps, OthersKeep, CheckExpiresKeeps, EditKeeps DEF Next
<1> QED
  BY <1>1, <1>2, PTL DEF Spec

\* Every variable of the Module controller stays within its type.
THEOREM TypeCorrect == Spec => []TypeOK
<1>1. IInv => TypeOK
  BY DEF IInv
<1> QED
  BY <1>1, Invariance, PTL

\* The stored hash is that of the stored content (updateHash).
THEOREM HashCorrect == Spec => []HashOfContent
<1>1. IInv => HashOfContent
  BY DEF IInv, Good, HashOK, HashOfContent
<1> QED
  BY <1>1, Invariance, PTL

\* The stored commit is one of the stored repository (needsUpdate, updateHash).
THEOREM CommitCorrect == Spec => []CommitOfUrl
<1>1. IInv => CommitOfUrl
  BY DEF IInv, Good, CommitOK, CommitOfUrl
<1> QED
  BY <1>1, Invariance, PTL

=============================================================================
