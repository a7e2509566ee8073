----------------------------- MODULE PartsProofs -----------------------------
(***************************************************************************)
(* What holds of the parts that share no state, for all values of their    *)
(* constants: of git's credentials and of an executor's directory for any  *)
(* number of failing calls (Workspace), of the variables, the digest and   *)
(* the environment of a run for any keys, values and numbers of maps       *)
(* (Inputs), of deep copies for any number of writes (Copies).             *)
(***************************************************************************)
EXTENDS Workspace, Inputs, Copies, FiniteSetTheorems, SequenceTheorems,
        WellFoundedInduction, TLAPS

-----------------------------------------------------------------------------
(* Workspace: the inductive invariant *)

BeforeKey == {"secret", "basic", "key"}

WithKey == {"writeKey", "closeKey"}

FilesTypes ==
    /\ pc \in Steps
    /\ faults \in Nat
    /\ dir \in [Files \cup {"module"} -> {"none", "repository", "run"}]

\* The file of the key exists only where closer removes it, and after Close
\* only if that failed.
KeyOK ==
    /\ pc \in BeforeKey => keyFile = "none"
    /\ pc \in WithKey => closer = "remove"
    /\ pc \in {"environment", "close"} \cup Commands =>
          keyFile = "none" \/ closer = "remove"
    /\ pc \in Files \cup {"init", "returned", "failed"} =>
          keyFile = "none" \/ closer = "failed"

\* GIT_SSH_COMMAND names the key file only once that is closed without error.
EnvOK ==
    /\ pc \in BeforeKey \cup WithKey => env = "unset"
    /\ pc = "closeKey" => keyFile = "whole"
    /\ pc \in {"environment"} \cup Commands => (env = "key" => keyFile = "whole")
    /\ pc \in Commands => env # "unset"

\* What FromSecret takes from the secret
Taken ==
    [username |-> secret["username"] = "set",
     password |-> secret["password"] = "set",
     key |-> ~HasBasic /\ secret["ssh-privatekey"] = "set"]

\* After FromSecret the credentials are the secret's, and on their way to the
\* command none is lost unless a call fails.
AuthOK ==
    /\ secret \in Secrets
    /\ pc = "secret" => auth = NoAuth
    /\ pc \notin {"secret", "failed"} => auth = Taken
    /\ pc \notin {"secret", "basic", "failed"} =>
          (userInUrl <=> url = "http" /\ (auth.username \/ auth.password))
    /\ pc \in {"environment"} \cup Commands =>
          (auth.key /\ faults = 0 => env = "key")

\* An executor that goes on after Close has checked the module out, and each
\* file it has written is its own.
DirOK ==
    /\ pc = "ls-remote" => caller = "handler"
    /\ pc = "close" /\ ~err /\ caller # "handler" => dir["module"] = "repository"
    /\ pc \in Files \cup {"init"} => dir["module"] = "repository"
    /\ pc \in {"auto.tfvars.json", "init"} => dir["config.tf.json"] = "run"
    /\ pc = "init" => dir["auto.tfvars.json"] = "run"

IInv == FilesTypes /\ KeyOK /\ EnvOK /\ AuthOK /\ DirOK

\* A secret that is not named has no credentials.
LEMMA NothingTaken == secret = NoSecret => Taken = NoAuth
BY DEF Taken, NoSecret, NoAuth, SecretKeys

LEMMA Initially == Init => IInv
BY DEF Init, IInv, FilesTypes, KeyOK, EnvOK, AuthOK, DirOK, Steps, Files, Commands,
       BeforeKey, WithKey

-----------------------------------------------------------------------------
(* Workspace: one lemma per action *)

LEMMA FromSecretKeeps == IInv /\ FromSecret => IInv'
<1> SUFFICES ASSUME IInv, FromSecret PROVE IInv'
  OBVIOUS
<1>1. pc = "secret" /\ pc' \in {"basic", "failed"}
  BY DEF FromSecret
<1>2. UNCHANGED <<asked, userInUrl, keyFile, closer, env, dir, err>>
  BY DEF FromSecret
<1>3. faults' \in Nat
  BY DEF IInv, FilesTypes, FromSecret, Fault
<1>4. auth = NoAuth
  BY <1>1 DEF IInv, AuthOK
<1>5. Taken' = Taken
  BY <1>2 DEF Taken, HasBasic, Present, asked
<1>6. pc' = "basic" => auth' = Taken'
  <2>1. CASE secret = NoSecret /\ pc' = "basic" /\ UNCHANGED <<auth, faults>>
    BY <1>4, <1>5, <2>1, NothingTaken
  <2>2. CASE auth' = Taken
    BY <1>5, <2>2
  <2>3. CASE pc' = "failed"
    BY <2>3
  <2> QED BY <2>1, <2>2, <2>3 DEF FromSecret, Taken
<1>7. FilesTypes' /\ KeyOK' /\ EnvOK' /\ DirOK'
  BY <1>1, <1>2, <1>3 DEF IInv, FilesTypes, KeyOK, EnvOK, DirOK, Steps, Files, Commands,
                          BeforeKey, WithKey
<1>8. AuthOK'
  BY <1>1, <1>2, <1>6 DEF IInv, AuthOK, asked, Commands
<1> QED BY <1>7, <1>8 DEF IInv

\* Steps that leave the secret, its credentials and the directory alone.
LEMMA TakenKept ==
    ASSUME UNCHANGED <<asked, auth>>
    PROVE  Taken' = Taken
BY DEF Taken, HasBasic, Present, asked

LEMMA PopulateKeeps ==
    ASSUME IInv,
           PopulateBasic \/ TempFile \/ WriteKey \/ CloseKey \/ Environment
    PROVE  IInv'
<1>1. UNCHANGED <<asked, auth, dir, err>> /\ Taken' = Taken
  BY TakenKept DEF PopulateBasic, TempFile, WriteKey, CloseKey, Environment
<1>2. FilesTypes'
  BY <1>1 DEF IInv, FilesTypes, PopulateBasic, TempFile, WriteKey, CloseKey, Environment,
              Fault, Steps
<1>3. KeyOK' /\ EnvOK'
  BY DEF IInv, KeyOK, EnvOK, PopulateBasic, TempFile, WriteKey, CloseKey, Environment,
         Files, Commands, BeforeKey, WithKey
<1>4. AuthOK'
  <2>1. CASE PopulateBasic
    BY <1>1, <2>1 DEF IInv, AuthOK, PopulateBasic, asked, Commands
  <2>2. CASE TempFile
    BY <1>1, <2>2 DEF IInv, FilesTypes, AuthOK, TempFile, Fault, asked, Commands
  <2>3. CASE WriteKey
    BY <1>1, <2>3 DEF IInv, FilesTypes, AuthOK, WriteKey, Fault, asked, Commands
  <2>4. CASE CloseKey
    BY <1>1, <2>4 DEF IInv, FilesTypes, AuthOK, CloseKey, Fault, asked, Commands
  <2>5. CASE Environment
    BY <1>1, <2>5 DEF IInv, AuthOK, Environment, asked, Commands
  <2> QED BY <2>1, <2>2, <2>3, <2>4, <2>5
<1>5. DirOK'
  BY <1>1 DEF IInv, DirOK, PopulateBasic, TempFile, WriteKey, CloseKey, Environment,
              asked, Files
<1> QED BY <1>2, <1>3, <1>4, <1>5 DEF IInv

LEMMA CommandKeeps == IInv /\ Command => IInv'
<1> SUFFICES ASSUME IInv, Command PROVE IInv'
  OBVIOUS
<1>1. /\ UNCHANGED <<asked, auth, userInUrl, keyFile, closer, env>>
      /\ Taken' = Taken
  BY TakenKept DEF Command
<1>2. pc \in Commands /\ pc' \in {"checkout", "close"}
  BY DEF Command
<1>3. faults' \in Nat /\ (faults' = 0 => faults = 0)
  BY DEF IInv, FilesTypes, Command, Fault
<1>4. dir' \in {dir, CheckedOut}
  BY DEF Command
<1>5. CheckedOut \in [Files \cup {"module"} -> {"none", "repository", "run"}]
  BY DEF IInv, FilesTypes, CheckedOut
<1>6. FilesTypes'
  BY <1>2, <1>3, <1>4, <1>5 DEF IInv, FilesTypes, Steps
<1>7. KeyOK' /\ EnvOK'
  BY <1>1, <1>2 DEF IInv, KeyOK, EnvOK, Files, Commands, BeforeKey, WithKey
<1>8. AuthOK'
  BY <1>1, <1>2, <1>3 DEF IInv, AuthOK, asked, Commands
<1>9. DirOK'
  <2>1. CheckedOut["module"] = "repository"
    BY DEF CheckedOut
  <2>2. pc' = "close" /\ ~err' /\ caller' # "handler" => dir'["module"] = "repository"
    BY <1>1, <1>2, <2>1 DEF IInv, DirOK, Command, asked, Commands
  <2> QED BY <1>2, <2>2 DEF DirOK, Files
<1> QED BY <1>6, <1>7, <1>8, <1>9 DEF IInv

LEMMA CloseKeeps == IInv /\ Close => IInv'
<1> SUFFICES ASSUME IInv, Close PROVE IInv'
  OBVIOUS
<1>1. /\ UNCHANGED <<asked, auth, userInUrl, env, dir, err>>
      /\ Taken' = Taken
  BY TakenKept DEF Close
<1>2. pc = "close" /\ pc' \in {"failed", "returned", "config.tf.json"}
  BY DEF Close
<1>3. keyFile' = "none" \/ closer' = "failed"
  <2>1. CASE closer = "noop" /\ UNCHANGED <<keyFile, closer, faults>>
    BY <2>1, <1>2 DEF IInv, KeyOK
  <2>2. CASE closer = "remove" /\ (keyFile' = "none" \/ closer' = "failed")
    BY <2>2
  <2> QED BY <2>1, <2>2 DEF Close
<1>4. FilesTypes' /\ KeyOK' /\ EnvOK'
  BY <1>1, <1>2, <1>3 DEF IInv, FilesTypes, KeyOK, EnvOK, Steps, Files, Commands,
                          BeforeKey, WithKey, Close, Fault
<1>5. AuthOK'
  BY <1>1, <1>2 DEF IInv, AuthOK, asked, Commands
<1>6. DirOK'
  BY <1>1, <1>2 DEF IInv, DirOK, Close, Files
<1> QED BY <1>4, <1>5, <1>6 DEF IInv

LEMMA WriteKeeps == IInv /\ (WriteConfigFile \/ WriteVarFile) => IInv'
<1> SUFFICES ASSUME IInv, WriteConfigFile \/ WriteVarFile PROVE IInv'
  OBVIOUS
<1>1. /\ UNCHANGED <<asked, auth, userInUrl, keyFile, closer, env, err>>
      /\ Taken' = Taken
  BY TakenKept DEF WriteConfigFile, WriteVarFile, Write
<1>2. pc \in Files /\ pc' \in {"auto.tfvars.json", "init", "failed"}
  BY DEF WriteConfigFile, WriteVarFile, Write, Files
<1>3. FilesTypes'
  BY <1>2 DEF IInv, FilesTypes, WriteConfigFile, WriteVarFile, Write, Fault, Steps, Files
<1>4. KeyOK' /\ EnvOK'
  BY <1>1, <1>2 DEF IInv, KeyOK, EnvOK, Files, Commands, BeforeKey, WithKey
<1>5. AuthOK'
  BY <1>1, <1>2 DEF IInv, AuthOK, asked, Commands, Files
<1>6. DirOK'
  BY <1>2 DEF IInv, FilesTypes, DirOK, WriteConfigFile, WriteVarFile, Write, Files
<1> QED BY <1>3, <1>4, <1>5, <1>6 DEF IInv

\* Every step keeps the invariant.
LEMMA Inductive == IInv /\ [Next]_vars => IInv'
<1> SUFFICES ASSUME IInv, [Next]_vars PROVE IInv'
  OBVIOUS
<1>1. CASE UNCHANGED vars
  <2>1. Taken' = Taken
    BY <1>1, TakenKept DEF vars, asked
  <2> QED BY <1>1, <2>1 DEF vars, asked, IInv, FilesTypes, KeyOK, EnvOK, AuthOK, DirOK
<1>2. CASE FromSecret BY <1>2, FromSecretKeeps
<1>3. CASE PopulateBasic \/ TempFile \/ WriteKey \/ CloseKey \/ Environment
  BY <1>3, PopulateKeeps
<1>4. CASE Command BY <1>4, CommandKeeps
<1>5. CASE Close BY <1>5, CloseKeeps
<1>6. CASE WriteConfigFile \/ WriteVarFile BY <1>6, WriteKeeps
<1> QED BY <1>1, <1>2, <1>3, <1>4, <1>5, <1>6 DEF Next

-----------------------------------------------------------------------------
(* Workspace: theorems *)

\* Whatever fails while the key is written and used, its file is gone once the
\* call that wrote it has returned, unless the removal itself failed, whose
\* error close() (pkg/git/auth.go) drops.
THEOREM KeyRemovalTried == Spec => []KeyFileRemoved
<1>1. IInv => KeyFileRemoved
  BY DEF IInv, KeyOK, KeyFileRemoved
<1> QED BY <1>1, Initially, Inductive, PTL DEF Spec

\* No git command runs with half a key, or with GIT_SSH_COMMAND unset.
THEOREM CommandsComplete == Spec => []CommandsReady
<1>1. IInv => CommandsReady
  BY DEF IInv, EnvOK, CommandsReady
<1> QED BY <1>1, Initially, Inductive, PTL DEF Spec

\* A git command gets the credentials of its secret that its URL needs.
THEOREM CredentialsReach == Spec => []CredentialsOffered
<1>1. IInv => CredentialsOffered
  <2> SUFFICES ASSUME IInv, pc \in Commands
               PROVE  /\ userInUrl <=>
                           /\ url = "http"
                           /\ "set" \in {secret["username"], secret["password"]}
                      /\ /\ secret["ssh-privatekey"] = "set"
                         /\ "absent" \in {secret["username"], secret["password"]}
                         /\ faults = 0
                         => env = "key"
    BY DEF CredentialsOffered
  <2>1. auth = Taken
    BY DEF IInv, AuthOK, Commands
  <2>2. userInUrl <=> url = "http" /\ (auth.username \/ auth.password)
    BY DEF IInv, AuthOK, Commands
  <2>3. auth.key /\ faults = 0 => env = "key"
    BY DEF IInv, AuthOK, Commands
  <2>4. "absent" \in {secret["username"], secret["password"]} => ~HasBasic
    BY DEF HasBasic, Present
  <2> QED BY <2>1, <2>2, <2>3, <2>4 DEF Taken
<1> QED BY <1>1, Initially, Inductive, PTL DEF Spec

\* Terraform starts in a directory with the module checked out and this run's
\* own backend and variables.
THEOREM DirectoryRight == Spec => []TerraformSeesRun
<1>1. IInv => TerraformSeesRun
  BY DEF IInv, DirOK, TerraformSeesRun, Files
<1> QED BY <1>1, Initially, Inductive, PTL DEF Spec

-----------------------------------------------------------------------------
(* Inputs: the order of strings *)

\* < on the naturals, as a set of pairs
Less == {ss \in Nat \X Nat : ss[1] < ss[2]}

\* A set of naturals that is not empty has a least element: what holds of every
\* natural is shown by ruling out a least one of which it does not hold.
LEMMA Least ==
    ASSUME NEW S \in SUBSET Nat, S # {}
    PROVE  \E m \in S : \A k \in S : m <= k
<1>1. IsWellFoundedOn(Less, Nat)
  BY NatLessThanWellFounded DEF OpToRel, Less
<1>2. PICK m \in S : \A k \in S : ~ (<<k, m>> \in Less)
  BY <1>1, WFMin
<1>3. ASSUME NEW k \in S PROVE m <= k
  <2>1. k < m => <<k, m>> \in Less
    BY DEF Less
  <2> QED BY <1>2, <2>1
<1> QED BY <1>3

\* s and t agree up to i, and there s ends or has the smaller letter.
Parts(s, t, i) ==
    /\ i <= Len(s) /\ i < Len(t)
    /\ \A j \in 1..i : s[j] = t[j]
    /\ i < Len(s) => s[i + 1] < t[i + 1]

\* Before, with the place where the two strings part.
LEMMA BeforeParts ==
    ASSUME NEW s \in Seq(Nat), NEW t \in Seq(Nat)
    PROVE  Before(s, t) <=> \E i \in Nat : Parts(s, t, i)
<1>1. Len(s) \in Nat /\ Len(t) \in Nat
  OBVIOUS
<1>2. ASSUME NEW i \in Nat, i <= Len(s), i <= Len(t)
      PROVE  SubSeq(s, 1, i) = SubSeq(t, 1, i) <=> \A j \in 1..i : s[j] = t[j]
  <2>1. /\ SubSeq(s, 1, i) \in Seq(Nat) /\ Len(SubSeq(s, 1, i)) = i
        /\ \A j \in 1..i : SubSeq(s, 1, i)[j] = s[j]
    BY <1>1, <1>2, SubSeqProperties
  <2>2. /\ SubSeq(t, 1, i) \in Seq(Nat) /\ Len(SubSeq(t, 1, i)) = i
        /\ \A j \in 1..i : SubSeq(t, 1, i)[j] = t[j]
    BY <1>1, <1>2, SubSeqProperties
  <2> QED BY <2>1, <2>2, SeqEqual
<1>3. ASSUME IsStrictPrefix(s, t) PROVE Parts(s, t, Len(s))
  <2>1. Len(s) <= Len(t) /\ \A j \in 1..Len(s) : s[j] = t[j]
    BY <1>1, <1>2, <1>3 DEF IsStrictPrefix, IsPrefix
  <2>2. Len(s) # Len(t)
    BY <1>3, <2>1 DEF IsStrictPrefix
  <2> QED BY <1>1, <2>1, <2>2 DEF Parts
<1>4. ASSUME NEW i \in 1..Len(s), i <= Len(t), s[i] < t[i],
             SubSeq(s, 1, i - 1) = SubSeq(t, 1, i - 1)
      PROVE  Parts(s, t, i - 1)
  <2>1. i - 1 \in Nat /\ (i - 1) + 1 = i
    BY <1>1
  <2>2. \A j \in 1..(i - 1) : s[j] = t[j]
    BY <1>1, <1>2, <1>4, <2>1
  <2> QED BY <1>1, <1>4, <2>1, <2>2 DEF Parts
<1>5. ASSUME NEW i \in Nat, Parts(s, t, i) PROVE Before(s, t)
  <2>1. CASE i = Len(s)
    <3>1. IsPrefix(s, t)
      BY <1>1, <1>2, <1>5, <2>1 DEF Parts, IsPrefix
    <3> QED BY <1>5, <2>1, <3>1 DEF Parts, Before, IsStrictPrefix
  <2>2. CASE i < Len(s)
    <3>1. SubSeq(s, 1, i) = SubSeq(t, 1, i)
      BY <1>1, <1>2, <1>5, <2>2 DEF Parts
    <3>2. /\ i + 1 \in 1..Len(s) /\ i + 1 <= Len(t) /\ (i + 1) - 1 = i
          /\ s[i + 1] < t[i + 1]
      BY <1>1, <1>5, <2>2 DEF Parts
    <3> QED BY <3>1, <3>2 DEF Before
  <2> QED BY <1>1, <1>5, <2>1, <2>2 DEF Parts
<1>6. ASSUME Before(s, t) PROVE \E i \in Nat : Parts(s, t, i)
  <2>1. CASE IsStrictPrefix(s, t)
    BY <1>1, <1>3, <2>1
  <2>2. ASSUME NEW i \in 1..Len(s), i <= Len(t), s[i] < t[i],
               SubSeq(s, 1, i - 1) = SubSeq(t, 1, i - 1)
        PROVE  \E k \in Nat : Parts(s, t, k)
    <3>1. i - 1 \in Nat
      BY <1>1
    <3> QED BY <1>4, <2>2, <3>1
  <2> QED BY <1>6, <2>1, <2>2 DEF Before
<1> QED BY <1>5, <1>6

\* Before is a strict total order.
LEMMA BeforeIrreflexive ==
    ASSUME NEW s \in Seq(Nat)
    PROVE  ~ Before(s, s)
BY BeforeParts DEF Parts

LEMMA BeforeTransitive ==
    ASSUME NEW s \in Seq(Nat), NEW t \in Seq(Nat), NEW u \in Seq(Nat),
           Before(s, t), Before(t, u)
    PROVE  Before(s, u)
<1>1. PICK i \in Nat : Parts(s, t, i)
  BY BeforeParts
<1>2. PICK k \in Nat : Parts(t, u, k)
  BY BeforeParts
<1>3. Len(s) \in Nat /\ Len(t) \in Nat /\ Len(u) \in Nat
  OBVIOUS
<1>4. \A j \in 1..Len(s) : s[j] \in Nat
  OBVIOUS
<1>5. \A j \in 1..Len(t) : t[j] \in Nat
  OBVIOUS
<1>6. \A j \in 1..Len(u) : u[j] \in Nat
  OBVIOUS
<1>7. CASE i < k
  <2>1. Parts(s, u, i)
    BY <1>1, <1>2, <1>3, <1>7 DEF Parts
  <2> QED BY <2>1, BeforeParts
<1>8. CASE i = k
  <2>1. Parts(s, u, i)
    BY <1>1, <1>2, <1>3, <1>4, <1>5, <1>6, <1>8 DEF Parts
  <2> QED BY <2>1, BeforeParts
<1>9. CASE k < i
  <2>1. k + 1 \in 1..i /\ s[k + 1] = t[k + 1] /\ k < Len(t) /\ k < Len(u) /\ k < Len(s)
    BY <1>1, <1>2, <1>3, <1>9 DEF Parts
  <2>2. \A j \in 1..k : s[j] = u[j]
    BY <1>1, <1>2, <1>3, <1>9 DEF Parts
  <2>3. Parts(s, u, k)
    BY <1>2, <2>1, <2>2 DEF Parts
  <2> QED BY <2>3, BeforeParts
<1> QED BY <1>7, <1>8, <1>9

LEMMA BeforeTotal ==
    ASSUME NEW s \in Seq(Nat), NEW t \in Seq(Nat), s # t
    PROVE  Before(s, t) \/ Before(t, s)
<1> DEFINE Differ == {i \in Nat : i < Len(s) /\ i < Len(t) /\ s[i + 1] # t[i + 1]}
<1>1. Len(s) \in Nat /\ Len(t) \in Nat
  OBVIOUS
<1>2. ASSUME NEW j \in Nat \ {0}, j <= Len(s), j <= Len(t), j - 1 \notin Differ
      PROVE  s[j] = t[j]
  <2>1. j - 1 \in Nat /\ (j - 1) + 1 = j
    OBVIOUS
  <2>2. s[(j - 1) + 1] = t[(j - 1) + 1]
    BY <1>1, <1>2, <2>1
  <2> QED BY <2>1, <2>2
<1> HIDE DEF Differ
<1>3. CASE Differ = {}
  <2>1. ASSUME NEW j \in 1..Len(s), j <= Len(t) PROVE s[j] = t[j]
    BY <1>1, <1>2, <1>3, <2>1
  <2>2. Len(s) # Len(t)
    BY <1>1, <2>1, SeqEqual
  <2>3. Parts(s, t, Len(s)) \/ Parts(t, s, Len(t))
    BY <1>1, <2>1, <2>2 DEF Parts
  <2> QED BY <1>1, <2>3, BeforeParts
<1>4. CASE Differ # {}
  <2>1. PICK i \in Differ : \A k \in Differ : i <= k
    BY <1>4, Least DEF Differ
  <2>2. i \in Nat /\ i < Len(s) /\ i < Len(t) /\ s[i + 1] # t[i + 1]
    BY DEF Differ
  <2>3. ASSUME NEW j \in 1..i PROVE s[j] = t[j]
    <3>1. j \in Nat \ {0} /\ j - 1 < i /\ j <= Len(s) /\ j <= Len(t)
      BY <1>1, <2>2
    <3>2. j - 1 \notin Differ
      BY <2>1, <2>2, <3>1
    <3> QED BY <1>2, <3>1, <3>2
  <2>4. s[i + 1] \in Nat /\ t[i + 1] \in Nat
    BY <1>1, <2>2
  <2>5. Parts(s, t, i) \/ Parts(t, s, i)
    BY <1>1, <2>2, <2>3, <2>4 DEF Parts
  <2> QED BY <2>2, <2>5, BeforeParts
<1> QED BY <1>3, <1>4

-----------------------------------------------------------------------------
(* Inputs: lists of keys, and sorting them *)

\* ks names each element of S once.
Lists(ks, S) == ks \in Seq(S) /\ IsInjective(ks) /\ Range(ks) = S

\* A list is as long as its set is large.
LEMMA ListsLength ==
    ASSUME NEW S, NEW ks, Lists(ks, S)
    PROVE  IsFiniteSet(S) /\ Len(ks) = Cardinality(S) /\ Len(ks) \in Nat
<1>1. Len(ks) \in Nat /\ ks \in [1..Len(ks) -> S] /\ DOMAIN ks = 1..Len(ks)
  BY LenProperties DEF Lists
<1>2. ks \in Bijection(1..Len(ks), S)
  BY <1>1 DEF Lists, Bijection, Injection, Surjection, IsInjective, Range
<1>3. IsFiniteSet(1..Len(ks)) /\ Cardinality(1..Len(ks)) = Len(ks)
  BY <1>1, FS_Interval
<1> QED BY <1>1, <1>2, <1>3, FS_Bijection DEF ExistsBijection

\* The library's list of a finite set is one.
LEMMA SetToSeqLists ==
    ASSUME NEW S, IsFiniteSet(S)
    PROVE  Lists(SetToSeq(S), S)
<1> DEFINE n == Cardinality(S)
<1>1. n \in Nat /\ ExistsBijection(1..n, S)
  BY FS_CardinalityType
<1>2. \E f \in [1..n -> S] : IsInjective(f)
  BY <1>1 DEF ExistsBijection, Bijection, Injection
<1>3. SetToSeq(S) \in [1..n -> S] /\ IsInjective(SetToSeq(S))
  BY <1>2 DEF SetToSeq
<1> DEFINE f == SetToSeq(S)
<1> HIDE DEF f, n
<1>4. f \in Injection(1..n, S)
  BY <1>3 DEF Injection, f
<1>5. Cardinality(1..n) = n
  BY <1>1, FS_Interval
<1>6. f \in Surjection(1..n, S)
  BY <1>4, <1>5, FS_Injection DEF n
<1>7. Range(f) = S
  BY <1>6 DEF Range, Surjection
<1>8. f \in Seq(S)
  BY <1>1, <1>3 DEF f
<1> QED BY <1>3, <1>7, <1>8 DEF Lists, f

\* In the order of sort.Strings
Ordered(ks) == \A i, j \in DOMAIN ks : i < j => Before(ks[i], ks[j])

\* A finite set of keys can be sorted: each goes to the place that the number
\* of keys up to it says.
LEMMA SortExists ==
    ASSUME NEW S \in SUBSET Seq(Nat), NEW ks, Lists(ks, S)
    PROVE  \E sorted \in [DOMAIN ks -> S] : Ordered(sorted)
<1> DEFINE n == Len(ks)
           Upto(i) == {j \in 1..n : ks[j] = ks[i] \/ Before(ks[j], ks[i])}
           rank == [i \in 1..n |-> Cardinality(Upto(i))]
<1>1. n \in Nat /\ ks \in [1..n -> S] /\ DOMAIN ks = 1..n
  BY LenProperties DEF Lists
<1>2. IsFiniteSet(1..n) /\ Cardinality(1..n) = n
  BY <1>1, FS_Interval
<1> HIDE DEF n
<1>3. ASSUME NEW i \in 1..n
      PROVE  /\ IsFiniteSet(Upto(i)) /\ Cardinality(Upto(i)) \in 1..n
  <2>1. IsFiniteSet(Upto(i)) /\ Cardinality(Upto(i)) <= n
    BY <1>2, FS_Subset
  <2>2. i \in Upto(i)
    OBVIOUS
  <2>3. Cardinality(Upto(i)) \in Nat /\ Cardinality(Upto(i)) # 0
    BY <2>1, <2>2, FS_CardinalityType, FS_EmptySet
  <2> QED BY <1>1, <2>1, <2>3
<1>4. ASSUME NEW i \in 1..n, NEW j \in 1..n, Before(ks[i], ks[j])
      PROVE  Cardinality(Upto(i)) < Cardinality(Upto(j))
  <2>1. \A k \in 1..n : ks[k] \in Seq(Nat)
    BY <1>1
  <2>2. Upto(i) \subseteq Upto(j)
    BY <1>4, <2>1, BeforeTransitive
  <2>3. j \notin Upto(i)
    BY <1>4, <2>1, BeforeTransitive, BeforeIrreflexive
  <2>4. Upto(i) # Upto(j)
    BY <2>3
  <2> HIDE DEF Upto
  <2>5. Cardinality(Upto(i)) <= Cardinality(Upto(j))
    BY <1>3, <2>2, FS_Subset
  <2>6. Cardinality(Upto(i)) # Cardinality(Upto(j))
    BY <1>3, <2>2, <2>4, FS_Subset
  <2> QED BY <1>1, <1>3, <2>5, <2>6
<1>5. ASSUME NEW i \in 1..n, NEW j \in 1..n, i # j
      PROVE  Before(ks[i], ks[j]) \/ Before(ks[j], ks[i])
  <2>1. ks[i] # ks[j]
    BY <1>1, <1>5 DEF Lists, IsInjective
  <2> QED BY <1>1, <2>1, BeforeTotal
<1> HIDE DEF Upto
<1>6. rank \in Injection(1..n, 1..n)
  <2>1. rank \in [1..n -> 1..n]
    BY <1>3
  <2>2. ASSUME NEW i \in 1..n, NEW j \in 1..n, i # j PROVE rank[i] # rank[j]
    <3>1. /\ Cardinality(Upto(i)) \in 1..n /\ Cardinality(Upto(j)) \in 1..n
          /\ \/ Cardinality(Upto(i)) < Cardinality(Upto(j))
             \/ Cardinality(Upto(j)) < Cardinality(Upto(i))
      BY <1>3, <1>4, <1>5, <2>2
    <3> QED BY <1>1, <3>1
  <2> QED BY <2>1, <2>2 DEF Injection, IsInjective
<1>7. rank \in Surjection(1..n, 1..n)
  BY <1>2, <1>6, FS_Injection
<1>8. \A x \in 1..n : \E i \in 1..n : rank[i] = x
  BY <1>7 DEF Surjection
<1> DEFINE place == [x \in 1..n |-> CHOOSE i \in 1..n : rank[i] = x]
           sorted == [x \in 1..n |-> ks[place[x]]]
<1>9. \A x \in 1..n : place[x] \in 1..n /\ rank[place[x]] = x
  BY <1>8
<1>10. sorted \in [1..n -> S]
  BY <1>1, <1>9
<1>11. ASSUME NEW x \in 1..n, NEW y \in 1..n, x < y PROVE Before(sorted[x], sorted[y])
  <2> DEFINE i == place[x]
             j == place[y]
  <2>1. /\ i \in 1..n /\ Cardinality(Upto(i)) = x
        /\ j \in 1..n /\ Cardinality(Upto(j)) = y
    BY <1>9
  <2> HIDE DEF i, j
  <2>2. i # j
    BY <1>11, <2>1
  <2>3. ~ Before(ks[j], ks[i])
    BY <1>1, <1>4, <1>11, <2>1
  <2>4. Before(ks[i], ks[j])
    BY <1>5, <2>1, <2>2, <2>3
  <2> QED BY <2>4 DEF i, j
<1>12. Ordered(sorted) 
  BY <1>11 DEF Ordered
<1> QED BY <1>1, <1>10, <1>12

\* Sorted has the keys of the list, in order.
LEMMA SortedLists ==
    ASSUME NEW S \in SUBSET Seq(Nat), NEW ks, Lists(ks, S)
    PROVE  Lists(Sorted(ks), S) /\ Len(Sorted(ks)) = Len(ks) /\ Ordered(Sorted(ks))
<1> DEFINE s == Sorted(ks)
           n == Len(ks)
<1>1. n \in Nat /\ DOMAIN ks = 1..n /\ Range(ks) = S
  BY LenProperties DEF Lists
<1>2. \E sorted \in [DOMAIN ks -> Range(ks)] :
          \A i, j \in DOMAIN ks : i < j => Before(sorted[i], sorted[j])
  BY <1>1, SortExists DEF Ordered
<1>3. /\ s \in [DOMAIN ks -> Range(ks)]
      /\ \A i, j \in DOMAIN ks : i < j => Before(s[i], s[j])
  BY <1>2 DEF Sorted
<1> HIDE DEF s, n
<1>4. s \in [1..n -> S] /\ s \in Seq(S) /\ Len(s) = n /\ Ordered(s)
  BY <1>1, <1>3 DEF Ordered
<1>5. ASSUME NEW i \in 1..n, NEW j \in 1..n, s[i] = s[j] PROVE i = j
  <2>1. ~ Before(s[i], s[j]) /\ ~ Before(s[j], s[i])
    BY <1>4, <1>5, BeforeIrreflexive
  <2> QED BY <1>1, <1>4, <2>1 DEF Ordered
<1>6. s \in Injection(1..n, S)
  BY <1>4, <1>5 DEF Injection, IsInjective
<1>7. /\ IsFiniteSet(S) /\ Cardinality(S) = n
      /\ Cardinality(1..n) = n
  <2>1. IsFiniteSet(S) /\ Cardinality(S) = n
    BY ListsLength DEF n
  <2>2. Cardinality(1..n) = n
    BY <1>1, FS_Interval
  <2> QED BY <2>1, <2>2
<1>8. s \in Surjection(1..n, S)
  BY <1>6, <1>7, FS_Injection
<1>9. Lists(s, S)
  BY <1>4, <1>6, <1>8 DEF Lists, Injection, Surjection, Range
<1> QED BY <1>4, <1>9 DEF s, n

\* There is one way to sort: what Written writes does not depend on a choice.
LEMMA SortUnique ==
    ASSUME NEW S \in SUBSET Seq(Nat), NEW s, NEW t, Lists(s, S), Lists(t, S),
           Ordered(s), Ordered(t)
    PROVE  s = t
<1> DEFINE n == Len(s)
           Differ == {i \in 1..n : s[i] # t[i]}
<1>1. n \in Nat /\ Len(t) = n
  BY ListsLength
<1>2. s \in [1..n -> S] /\ t \in [1..n -> S] /\ DOMAIN s = 1..n /\ DOMAIN t = 1..n
  BY <1>1, LenProperties DEF Lists
<1> HIDE DEF n
<1>3. ASSUME NEW i \in Differ, \A k \in Differ : i <= k PROVE FALSE
  <2>1. i \in 1..n /\ s[i] # t[i] /\ \A k \in 1..n : k < i => s[k] = t[k]
    BY <1>1, <1>3
  <2>2. PICK j \in 1..n : t[j] = s[i]
    BY <1>2, <2>1 DEF Lists, Range
  <2>3. PICK k \in 1..n : s[k] = t[i]
    BY <1>2, <2>1 DEF Lists, Range
  <2>4. i < j
    BY <1>1, <1>2, <2>1, <2>2 DEF Lists, IsInjective
  <2>5. i < k
    BY <1>1, <1>2, <2>1, <2>3 DEF Lists, IsInjective
  <2>6. Before(t[i], s[i]) /\ Before(s[i], t[i])
    BY <1>2, <2>1, <2>2, <2>3, <2>4, <2>5 DEF Ordered
  <2>7. s[i] \in Seq(Nat) /\ t[i] \in Seq(Nat)
    BY <1>2, <2>1
  <2> QED BY <2>6, <2>7, BeforeTransitive, BeforeIrreflexive
<1>4. Differ = {}
  <2>1. Differ \in SUBSET Nat
    BY <1>1
  <2> HIDE DEF Differ
  <2> QED BY <1>3, <2>1, Least
<1>5. \A i \in 1..n : s[i] = t[i]
  BY <1>4
<1> HIDE DEF Differ
<1> QED BY <1>1, <1>5, SeqEqual DEF Lists, n

-----------------------------------------------------------------------------
(* Inputs: merging the variables *)

\* The data of a config map or a secret
Data == Maps(Keys, Values)

InputSteps == {"combine", "digest", "envSecret", "envConfig", "done"}

InputTypes ==
    /\ configs \in [1..MaxConfigs -> Data]
    /\ secrets \in [1..MaxSecrets -> Data]
    /\ envs \in [EnvSources -> SUBSET EnvNames]
    /\ step \in InputSteps
    /\ source \in Nat
    /\ combined \in Data

\* Key k of the i-th source has been visited.
Copied(i, k) ==
    /\ k \in DOMAIN Sources[i]
    /\ step = "combine" => i < source \/ (i = source /\ k \notin todo)

\* What is copied so far: of each key, the value of the last source visited.
Merged ==
    /\ step = "combine" =>
          /\ source <= Len(Sources)
          /\ todo \subseteq IF source = 0 THEN {} ELSE DOMAIN Sources[source]
    /\ DOMAIN combined = {k \in Keys : \E i \in DOMAIN Sources : Copied(i, k)}
    /\ \A k \in DOMAIN combined : \E i \in DOMAIN Sources :
          /\ Copied(i, k)
          /\ combined[k] = Sources[i][k]
          /\ \A j \in DOMAIN Sources : Copied(j, k) => j <= i

\* A map's keys and values.
LEMMA MapTypes ==
    /\ NoMap \in Data
    /\ \A m \in Data : DOMAIN m \subseteq Keys /\ m \in [DOMAIN m -> Values]
<1>1. NoMap \in [{} -> Values]
  BY DEF NoMap
<1>2. \A m \in Data : \E D \in SUBSET Keys : m \in [D -> Values]
  BY DEF Data, Maps
<1> QED BY <1>1, <1>2 DEF Data, Maps

\* The sources are the config maps, then the secrets.
LEMMA SourceTypes ==
    ASSUME InputTypes
    PROVE  /\ Sources \in Seq(Data)
           /\ Len(Sources) = MaxConfigs + MaxSecrets
           /\ DOMAIN Sources = 1..(MaxConfigs + MaxSecrets)
           /\ \A i \in 1..MaxConfigs : Sources[i] = configs[i]
           /\ \A i \in 1..MaxSecrets : Sources[MaxConfigs + i] = secrets[i]
<1>1. MaxConfigs \in Nat /\ MaxSecrets \in Nat
  BY InputsConstants DEF InputsConstants
<1>2. configs \in Seq(Data) /\ Len(configs) = MaxConfigs
  BY <1>1 DEF InputTypes
<1>3. secrets \in Seq(Data) /\ Len(secrets) = MaxSecrets
  BY <1>1 DEF InputTypes
<1>4. Sources \in Seq(Data) /\ Len(Sources) = MaxConfigs + MaxSecrets
  BY <1>2, <1>3 DEF Sources
<1>5. DOMAIN Sources = 1..(MaxConfigs + MaxSecrets)
  BY <1>4
<1>6. \A i \in 1..MaxConfigs : Sources[i] = configs[i]
  BY <1>1, <1>2, <1>3 DEF Sources
<1>7. \A i \in 1..MaxSecrets : Sources[MaxConfigs + i] = secrets[i]
  BY <1>1, <1>2, <1>3 DEF Sources
<1> QED BY <1>4, <1>5, <1>6, <1>7

\* The next source is taken once all of the last one's keys are copied.
LEMMA NextSourceMerges ==
    ASSUME InputTypes, Merged, NextSource
    PROVE  Merged'
<1>1. Sources' = Sources /\ combined' = combined
  BY DEF NextSource, Sources
<1>2. ASSUME NEW i \in DOMAIN Sources, NEW k
      PROVE  Copied(i, k)' <=> Copied(i, k)
  <2>1. i \in Nat /\ i <= Len(Sources) /\ Len(Sources) \in Nat
    BY SourceTypes, InputsConstants DEF InputsConstants
  <2>2. CASE source < Len(Sources)
    BY <1>1, <2>1, <2>2 DEF Copied, NextSource, InputTypes
  <2>3. CASE ~ (source < Len(Sources))
    BY <1>1, <2>1, <2>3 DEF Copied, NextSource, InputTypes, Merged
  <2> QED BY <2>2, <2>3
<1>3. step' = "combine" =>
          /\ source' <= Len(Sources)
          /\ todo' \subseteq IF source' = 0 THEN {} ELSE DOMAIN Sources[source']
  BY SourceTypes, InputsConstants DEF InputsConstants, NextSource, InputTypes
<1> QED BY <1>1, <1>2, <1>3 DEF Merged

\* A key that is copied is then that of the last source visited.
LEMMA CopyVariableMerges ==
    ASSUME InputTypes, Merged, NEW k \in todo, CopyVariable(k)
    PROVE  Merged' /\ combined' \in Data
<1>1. Sources' = Sources /\ source' = source /\ step = "combine" /\ step' = "combine"
      /\ todo' = todo \ {k}
  BY DEF CopyVariable, Sources
<1>2. source \in DOMAIN Sources /\ k \in DOMAIN Sources[source]
  BY <1>1, SourceTypes DEF Merged, InputTypes
<1>3. k \in Keys /\ Sources[source][k] \in Values
  BY <1>2, SourceTypes, MapTypes
<1>4. /\ DOMAIN combined' = DOMAIN combined \cup {k}
      /\ combined'[k] = Sources[source][k]
      /\ \A x \in DOMAIN combined \ {k} : combined'[x] = combined[x]
  BY DEF CopyVariable
<1>5. combined' \in Data
  <2>1. combined \in [DOMAIN combined -> Values] /\ DOMAIN combined \subseteq Keys
    BY MapTypes DEF InputTypes
  <2>2. combined' \in [DOMAIN combined \cup {k} -> Values]
    BY <1>3, <2>1 DEF CopyVariable
  <2> QED BY <1>3, <2>1, <2>2 DEF Data, Maps
<1>6. ASSUME NEW i \in DOMAIN Sources, NEW x
      PROVE  Copied(i, x)' <=> Copied(i, x) \/ (i = source /\ x = k)
  BY <1>1, <1>2 DEF Copied
<1>7. \A i \in DOMAIN Sources : \A x : Copied(i, x) => i <= source
  BY <1>1, SourceTypes DEF Copied, InputTypes
<1>8. DOMAIN combined' = {x \in Keys : \E i \in DOMAIN Sources : Copied(i, x)'}
  BY <1>2, <1>3, <1>4, <1>6 DEF Merged
<1>9. ASSUME NEW x \in DOMAIN combined'
      PROVE  \E i \in DOMAIN Sources :
                /\ Copied(i, x)'
                /\ combined'[x] = Sources[i][x]
                /\ \A j \in DOMAIN Sources : Copied(j, x)' => j <= i
  <2>1. CASE x = k
    BY <1>2, <1>4, <1>6, <1>7, <2>1, SourceTypes DEF InputTypes
  <2>2. CASE x # k
    BY <1>4, <1>6, <2>2 DEF Merged
  <2> QED BY <2>1, <2>2
<1> QED BY <1>1, <1>2, <1>5, <1>8, <1>9 DEF Merged

\* LastValue is the value of the last map that has the key.
LEMMA LastValueIs ==
    ASSUME NEW maps, NEW k, NEW i \in Has(maps, k), DOMAIN maps \subseteq Nat,
           \A j \in Has(maps, k) : j <= i
    PROVE  LastValue(maps, k) = maps[i][k]
<1>1. \A j \in Has(maps, k) : j \in Nat
  BY DEF Has
<1>2. ASSUME NEW j \in Has(maps, k), \A l \in Has(maps, k) : l <= j PROVE j = i
  BY <1>1, <1>2
<1>3. i = CHOOSE j \in Has(maps, k) : \A l \in Has(maps, k) : l <= j
  BY <1>2
<1> QED BY <1>3 DEF LastValue

\* When all sources are copied, the last of the secrets with a key prevails,
\* then the last of the config maps.
LEMMA MergedPrevails ==
    ASSUME InputTypes, Merged
    PROVE  SecretsPrevail
<1> SUFFICES ASSUME step = "done"
             PROVE  /\ DOMAIN combined =
                         {k \in Keys : Has(configs, k) # {} \/ Has(secrets, k) # {}}
                    /\ \A k \in DOMAIN combined : combined[k] =
                         IF Has(secrets, k) # {} THEN LastValue(secrets, k)
                                                 ELSE LastValue(configs, k)
  BY DEF SecretsPrevail
<1>1. MaxConfigs \in Nat /\ MaxSecrets \in Nat
  BY InputsConstants DEF InputsConstants
<1>2. /\ DOMAIN configs = 1..MaxConfigs /\ DOMAIN configs \subseteq Nat
      /\ DOMAIN secrets = 1..MaxSecrets /\ DOMAIN secrets \subseteq Nat
  BY DEF InputTypes
<1>3. \A i \in DOMAIN Sources : \A k : Copied(i, k) <=> k \in DOMAIN Sources[i]
  BY DEF Copied
<1>4. \A i \in 1..MaxConfigs : i \in DOMAIN Sources /\ Sources[i] = configs[i]
  BY <1>1, SourceTypes
<1>5. \A i \in 1..MaxSecrets : /\ MaxConfigs + i \in DOMAIN Sources
                               /\ Sources[MaxConfigs + i] = secrets[i]
  BY <1>1, SourceTypes
<1>6. ASSUME NEW i \in DOMAIN Sources
      PROVE  i \in 1..MaxConfigs \/ \E j \in 1..MaxSecrets : i = MaxConfigs + j
  <2>1. i \in 1..(MaxConfigs + MaxSecrets)
    BY SourceTypes
  <2>2. CASE i > MaxConfigs
    <3>1. i - MaxConfigs \in 1..MaxSecrets /\ i = MaxConfigs + (i - MaxConfigs)
      BY <1>1, <2>1, <2>2
    <3> QED BY <3>1
  <2> QED BY <1>1, <2>1, <2>2
<1>7. ASSUME NEW k
      PROVE  (\E i \in DOMAIN Sources : Copied(i, k))
             <=> Has(configs, k) # {} \/ Has(secrets, k) # {}
  BY <1>2, <1>3, <1>4, <1>5, <1>6 DEF Has
<1>8. ASSUME NEW k \in DOMAIN combined
      PROVE  combined[k] = IF Has(secrets, k) # {} THEN LastValue(secrets, k)
                                                   ELSE LastValue(configs, k)
  <2>1. PICK i \in DOMAIN Sources :
               /\ Copied(i, k)
               /\ combined[k] = Sources[i][k]
               /\ \A j \in DOMAIN Sources : Copied(j, k) => j <= i
    BY DEF Merged
  <2>2. CASE i \in 1..MaxConfigs
    <3>1. Has(secrets, k) = {}
      BY <1>1, <1>2, <1>3, <1>5, <2>1, <2>2 DEF Has
    <3>2. i \in Has(configs, k) /\ \A j \in Has(configs, k) : j <= i
      BY <1>2, <1>3, <1>4, <2>1, <2>2 DEF Has
    <3>3. LastValue(configs, k) = configs[i][k]
      BY <1>2, <3>2, LastValueIs
    <3> QED BY <1>4, <2>1, <2>2, <3>1, <3>3
  <2>3. ASSUME NEW s \in 1..MaxSecrets, i = MaxConfigs + s
        PROVE  Has(secrets, k) # {} /\ LastValue(secrets, k) = combined[k]
    <3>1. s \in Has(secrets, k)
      BY <1>2, <1>3, <1>5, <2>1, <2>3 DEF Has
    <3>2. ASSUME NEW j \in Has(secrets, k) PROVE j <= s
      <4>1. j \in 1..MaxSecrets /\ k \in DOMAIN secrets[j]
        BY <1>2 DEF Has
      <4>2. MaxConfigs + j <= MaxConfigs + s
        BY <1>3, <1>5, <2>1, <2>3, <4>1
      <4> QED BY <1>1, <4>1, <4>2
    <3>3. LastValue(secrets, k) = secrets[s][k]
      BY <1>2, <3>1, <3>2, LastValueIs
    <3> QED BY <1>5, <2>1, <2>3, <3>1, <3>3
  <2> QED BY <1>6, <2>2, <2>3
<1> QED BY <1>7, <1>8 DEF Merged

-----------------------------------------------------------------------------
(* Inputs: the inductive invariant *)

\* Entries of the environment
Entries == [name : EnvNames \cup OwnEnv, from : EnvSources \cup {"handler"}]

\* The keys visited so far, each once; at the end those of the variables, of
\* which the digest is made.
Listed ==
    /\ step = "combine" => keys = <<>>
    /\ step \notin {"combine", "digest"} => digest = Written(keys, combined)
    /\ Lists(keys, IF step = "combine" THEN {}
                   ELSE IF step = "digest" THEN DOMAIN combined \ todo
                   ELSE DOMAIN combined)
    /\ step = "digest" => todo \subseteq DOMAIN combined

\* The environment: the user's variables, then the handler's.
EnvOrdered ==
    /\ step \in {"envSecret", "envConfig"} => todo \subseteq EnvNames
    /\ step # "done" => envVars \in Seq(Entries)
    /\ step = "done" => \E es \in Seq(Entries) : envVars = EnvForJob(es)

\* The inductive invariant
InputsInv == InputTypes /\ Merged /\ Listed /\ EnvOrdered

LEMMA InputsInitially == InputsInit => InputsInv
<1> SUFFICES ASSUME InputsInit PROVE InputsInv
  OBVIOUS
<1>1. InputTypes
  BY MapTypes DEF InputsInit, InputTypes, Data, InputSteps
<1>2. Merged
  <2>1. Len(Sources) \in Nat /\ DOMAIN Sources = 1..Len(Sources)
    BY <1>1, SourceTypes, InputsConstants DEF InputsConstants
  <2>2. \A i \in DOMAIN Sources : \A k : ~ Copied(i, k)
    BY <2>1 DEF InputsInit, Copied
  <2>3. DOMAIN combined = {} /\ source = 0 /\ todo = {}
    BY DEF InputsInit, NoMap
  <2> QED BY <2>1, <2>2, <2>3 DEF Merged
<1>3. Listed
  <2>1. <<>> \in Seq({}) /\ IsInjective(<<>>) /\ Range(<<>>) = {}
    BY DEF IsInjective, Range
  <2> QED BY <2>1 DEF InputsInit, Listed, Lists
<1>4. EnvOrdered
  BY DEF InputsInit, EnvOrdered
<1> QED BY <1>1, <1>2, <1>3, <1>4 DEF InputsInv

\* A key that was not visited is added to the list.
LEMMA ListsAppend ==
    ASSUME NEW S, NEW ks, Lists(ks, S), NEW k, k \notin S
    PROVE  Lists(Append(ks, k), S \cup {k})
<1> DEFINE n == Len(ks)
           l == Append(ks, k)
<1>1. n \in Nat /\ ks \in [1..n -> S] /\ DOMAIN ks = 1..n
  BY LenProperties DEF Lists
<1>2. ks \in Seq(S \cup {k})
  BY SeqMonotonic DEF Lists
<1>3. /\ l \in Seq(S \cup {k}) /\ Len(l) = n + 1
      /\ DOMAIN l = 1..(n + 1)
      /\ l[n + 1] = k
      /\ \A i \in 1..n : l[i] = ks[i]
  BY <1>1, <1>2
<1> HIDE DEF n, l
<1>4. IsInjective(l)
  BY <1>1, <1>3 DEF IsInjective, Lists
<1>5. Range(l) = S \cup {k}
  <2>1. \A x \in S : \E i \in 1..n : l[i] = x
    BY <1>1, <1>3 DEF Lists, Range
  <2>2. \A i \in 1..(n + 1) : l[i] \in S \cup {k}
    BY <1>1, <1>3
  <2> QED BY <1>1, <1>3, <2>1, <2>2 DEF Range
<1> QED BY <1>3, <1>4, <1>5 DEF Lists, l

\* Each step keeps the invariant.
LEMMA NextSourceKeeps == InputsInv /\ NextSource => InputsInv'
<1> SUFFICES ASSUME InputsInv, NextSource PROVE InputsInv'
  OBVIOUS
<1>1. step = "combine" /\ step' \in {"combine", "digest"} /\ todo = {}
      /\ UNCHANGED <<configs, secrets, envs, combined, keys, digest, envVars>>
  BY DEF NextSource
<1>2. InputTypes'
  BY <1>1 DEF InputsInv, InputTypes, NextSource, InputSteps
<1>3. Merged'
  BY NextSourceMerges DEF InputsInv
<1>4. keys = <<>> /\ Lists(keys, {})
  BY <1>1 DEF InputsInv, Listed
<1>5. step' = "digest" => todo' = DOMAIN combined
  BY <1>1 DEF NextSource
<1>6. Listed'
  BY <1>1, <1>4, <1>5 DEF Listed
<1>7. EnvOrdered'
  BY <1>1 DEF InputsInv, EnvOrdered
<1> QED BY <1>2, <1>3, <1>6, <1>7 DEF InputsInv

LEMMA CopyVariableKeeps ==
    ASSUME InputsInv, NEW k \in todo, CopyVariable(k)
    PROVE  InputsInv'
<1>1. /\ step = "combine"
      /\ UNCHANGED <<configs, secrets, envs, step, source, keys, digest, envVars>>
  BY DEF CopyVariable
<1>2. Merged' /\ combined' \in Data
  BY CopyVariableMerges DEF InputsInv
<1>3. InputTypes'
  BY <1>1, <1>2 DEF InputsInv, InputTypes
<1>4. Listed' /\ EnvOrdered'
  BY <1>1 DEF InputsInv, Listed, EnvOrdered
<1> QED BY <1>2, <1>3, <1>4 DEF InputsInv

\* Once the variables are combined they stay.
LEMMA MergedStays ==
    ASSUME InputsInv, UNCHANGED <<configs, secrets, combined>>,
           \/ step # "combine" /\ step' # "combine"
           \/ UNCHANGED <<step, source, todo>>
    PROVE  Merged'
<1>1. Sources' = Sources
  BY DEF Sources
<1>2. \A i \in DOMAIN Sources : \A k : Copied(i, k)' <=> Copied(i, k)
  BY <1>1 DEF Copied
<1> QED BY <1>1, <1>2 DEF InputsInv, Merged

LEMMA CollectKeyKeeps ==
    ASSUME InputsInv, NEW k \in todo, CollectKey(k)
    PROVE  InputsInv'
<1>1. /\ step = "digest"
      /\ UNCHANGED <<configs, secrets, envs, step, source, combined, digest, envVars>>
      /\ keys' = Append(keys, k) /\ todo' = todo \ {k}
  BY DEF CollectKey
<1>2. Merged' /\ InputTypes' /\ EnvOrdered'
  BY <1>1, MergedStays DEF InputsInv, InputTypes, EnvOrdered
<1>3. Lists(keys, DOMAIN combined \ todo) /\ todo \subseteq DOMAIN combined
  BY <1>1 DEF InputsInv, Listed
<1>4. Lists(keys', (DOMAIN combined \ todo) \cup {k})
  BY <1>1, <1>3, ListsAppend
<1>5. (DOMAIN combined \ todo) \cup {k} = DOMAIN combined' \ todo'
  BY <1>1, <1>3
<1>6. Lists(keys, DOMAIN combined \ todo)'
  BY <1>4, <1>5 DEF Lists
<1>7. Listed'
  BY <1>1, <1>3, <1>6 DEF Listed
<1> QED BY <1>2, <1>7 DEF InputsInv

LEMMA DigestKeeps == InputsInv /\ Digest => InputsInv'
<1> SUFFICES ASSUME InputsInv, Digest PROVE InputsInv'
  OBVIOUS
<1>1. /\ step = "digest" /\ step' = "envSecret" /\ todo = {}
      /\ digest' = Written(keys, combined) /\ todo' = envs["secret"]
      /\ UNCHANGED <<configs, secrets, envs, source, combined, keys, envVars>>
  BY DEF Digest
<1>2. Merged' /\ InputTypes'
  BY <1>1, MergedStays DEF InputsInv, InputTypes, InputSteps
<1>3. Lists(keys, DOMAIN combined)
  BY <1>1 DEF InputsInv, Listed
<1>4. Listed'
  BY <1>1, <1>3 DEF Listed
<1>5. EnvOrdered'
  BY <1>1 DEF InputsInv, EnvOrdered, InputTypes, EnvSources
<1> QED BY <1>2, <1>4, <1>5 DEF InputsInv

LEMMA EnvKeeps ==
    ASSUME InputsInv, (\E n \in todo : AddEnv(n)) \/ NextEnvSource \/ CreateEnvForJob
    PROVE  InputsInv'
<1>1. /\ step \in {"envSecret", "envConfig"}
      /\ step' \in {"envSecret", "envConfig", "done"}
      /\ UNCHANGED <<configs, secrets, envs, source, combined, keys, digest>>
  BY DEF AddEnv, NextEnvSource, CreateEnvForJob
<1>2. Merged' /\ InputTypes'
  BY <1>1, MergedStays DEF InputsInv, InputTypes, InputSteps
<1>3. Listed'
  BY <1>1 DEF InputsInv, Listed
<1>4. EnvOrdered'
  <2>1. CASE CreateEnvForJob
    BY <2>1 DEF InputsInv, EnvOrdered, CreateEnvForJob
  <2>2. CASE NextEnvSource
    BY <2>2 DEF InputsInv, EnvOrdered, NextEnvSource, InputTypes, EnvSources
  <2>3. ASSUME NEW n \in todo, AddEnv(n) PROVE EnvOrdered'
    <3>1. n \in EnvNames /\ EnvSource \in EnvSources
      BY <1>1 DEF InputsInv, EnvOrdered, EnvSource, EnvSources
    <3>2. [name |-> n, from |-> EnvSource] \in Entries
      BY <3>1 DEF Entries
    <3>3. envVars' \in Seq(Entries)
      BY <1>1, <2>3, <3>2 DEF InputsInv, EnvOrdered, AddEnv
    <3> QED BY <1>1, <2>3, <3>3 DEF InputsInv, EnvOrdered, AddEnv
  <2> QED BY <2>1, <2>2, <2>3
<1> QED BY <1>2, <1>3, <1>4 DEF InputsInv

LEMMA InputsInductive == InputsInv /\ [InputsNext]_inputVars => InputsInv'
<1> SUFFICES ASSUME InputsInv, [InputsNext]_inputVars PROVE InputsInv'
  OBVIOUS
<1>1. CASE UNCHANGED inputVars
  <2>1. InputTypes' /\ EnvOrdered'
    BY <1>1 DEF inputVars, InputsInv, InputTypes, EnvOrdered
  <2>2. Merged'
    BY <1>1, MergedStays DEF inputVars
  <2>3. Listed'
    BY <1>1 DEF inputVars, InputsInv, Listed
  <2> QED BY <2>1, <2>2, <2>3 DEF InputsInv
<1>2. CASE NextSource BY <1>2, NextSourceKeeps
<1>3. ASSUME NEW k \in todo, CopyVariable(k) PROVE InputsInv'
  BY <1>3, CopyVariableKeeps
<1>4. ASSUME NEW k \in todo, CollectKey(k) PROVE InputsInv'
  BY <1>4, CollectKeyKeeps
<1>5. CASE Digest BY <1>5, DigestKeeps
<1>6. CASE (\E n \in todo : AddEnv(n)) \/ NextEnvSource \/ CreateEnvForJob
  BY <1>6, EnvKeeps
<1> QED BY <1>1, <1>2, <1>3, <1>4, <1>5, <1>6 DEF InputsNext

-----------------------------------------------------------------------------
(* Inputs: theorems *)

\* For any keys, values and numbers of maps, in whatever order Go visits them,
\* the Terraform variables are those of the secrets, and of the config maps
\* where no secret has the key; of two of a kind the one named later wins.
THEOREM VariablesMerged == InputsSpec => []SecretsPrevail
<1>1. InputsInv => SecretsPrevail
  BY MergedPrevails DEF InputsInv
<1> QED BY <1>1, InputsInitially, InputsInductive, PTL DEF InputsSpec

\* Sorting the keys in whatever order they were met gives the same list.
LEMMA SortedSame ==
    ASSUME NEW S \in SUBSET Seq(Nat), NEW ks, NEW ls, Lists(ks, S), Lists(ls, S)
    PROVE  Sorted(ks) = Sorted(ls)
<1>1. Lists(Sorted(ks), S) /\ Ordered(Sorted(ks))
  BY SortedLists
<1>2. Lists(Sorted(ls), S) /\ Ordered(Sorted(ls))
  BY SortedLists
<1> QED BY <1>1, <1>2, SortUnique

\* The text of a map does not depend on the list its keys are taken from.
LEMMA TextOf ==
    ASSUME NEW m \in Data, NEW ks, Lists(ks, DOMAIN m)
    PROVE  Written(ks, m) = Text(m)
<1>1. DOMAIN m \in SUBSET Seq(Nat) /\ IsFiniteSet(DOMAIN m)
  BY MapTypes, InputsConstants, FS_Subset DEF InputsConstants
<1>2. Lists(SetToSeq(DOMAIN m), DOMAIN m)
  BY <1>1, SetToSeqLists
<1>3. Sorted(ks) = Sorted(SetToSeq(DOMAIN m))
  BY <1>1, <1>2, SortedSame
<1> QED BY <1>3 DEF Written, Text

\* Two syncs of the same variables get the same digest, in whatever order the
\* keys were met: sorting leaves one order only.
THEOREM DigestSame == InputsSpec => []DigestStable
<1>1. InputsInv => DigestStable
  <2> SUFFICES ASSUME InputsInv, step = "done" PROVE digest = Text(combined)
    BY DEF DigestStable
  <2>1. Lists(keys, DOMAIN combined) /\ digest = Written(keys, combined)
    BY DEF InputsInv, Listed
  <2> QED BY <2>1, TextOf DEF InputsInv, InputTypes
<1> QED BY <1>1, InputsInitially, InputsInductive, PTL DEF InputsSpec

\* Each of the handler's variables stands once behind those of the user.
LEMMA EnvForJobEnds ==
    ASSUME NEW es \in Seq(Entries), NEW n \in OwnEnv
    PROVE  LET all == EnvForJob(es)
           IN  \E i \in DOMAIN all :
                  /\ i \in Nat /\ all[i] = Own[n]
                  /\ \A j \in DOMAIN all : j \in Nat /\ (all[j].name = n => j <= i)
<1> DEFINE S == {Own[x] : x \in OwnEnv}
           own == SetToSeq(S)
           all == EnvForJob(es)
<1>1. \A x \in OwnEnv : Own[x] \in Entries /\ Own[x].name = x
  BY DEF Own, Entries
<1>2. IsFiniteSet(S)
  <2>1. Own \in [OwnEnv -> S] /\ Own \in Surjection(OwnEnv, S)
    BY DEF Own, Surjection
  <2> QED BY <2>1, FS_Surjection, InputsConstants DEF InputsConstants
<1>3. Lists(own, S)
  BY <1>2, SetToSeqLists
<1>4. S \subseteq Entries
  BY <1>1
<1>5. own \in Seq(Entries)
  BY <1>3, <1>4, SeqMonotonic DEF Lists
<1>6. all = es \o own
  BY DEF EnvForJob
<1> DEFINE m == Len(es)
           l == Len(own)
<1>7. m \in Nat /\ l \in Nat
  BY <1>5
<1> HIDE DEF own, all
<1>8. DOMAIN all = 1..(m + l) /\ \A i \in 1..l : all[m + i] = own[i]
  BY <1>5, <1>6, <1>7
<1>9. DOMAIN own = 1..l
  BY <1>5
<1>10. PICK i \in 1..l : own[i] = Own[n]
  BY <1>3, <1>9 DEF Lists, Range
<1>11. ASSUME NEW j \in DOMAIN all, all[j].name = n PROVE j <= m + i
  <2>1. CASE j <= m
    BY <1>7, <1>8, <2>1
  <2>2. CASE j > m
    <3>1. j - m \in 1..l /\ j = m + (j - m)
      BY <1>7, <1>8, <2>2
    <3>2. own[j - m].name = n /\ own[j - m] \in S
      BY <1>3, <1>8, <1>9, <1>11, <3>1 DEF Lists, Range
    <3>3. own[j - m] = Own[n]
      BY <1>1, <3>2
    <3>4. j - m = i
      BY <1>3, <1>9, <1>10, <3>1, <3>3 DEF Lists, IsInjective
    <3> QED BY <3>1, <3>4
  <2> QED BY <1>7, <1>8, <2>1, <2>2
<1>12. m + i \in DOMAIN all /\ m + i \in Nat /\ all[m + i] = Own[n]
  BY <1>7, <1>8, <1>10
<1>13. DOMAIN all \subseteq Nat
  BY <1>7, <1>8
<1> QED BY <1>11, <1>12, <1>13 DEF all

\* Whatever the user's secrets and config maps say, the container gets the
\* handler's values of the variables that tell the executor what to do.
THEOREM OwnEnvLast == InputsSpec => []OwnEnvPrevails
<1>1. InputsInv => OwnEnvPrevails
  <2> SUFFICES ASSUME InputsInv, step = "done", NEW n \in OwnEnv
               PROVE  LET at == {i \in DOMAIN envVars : envVars[i].name = n}
                      IN  /\ at # {}
                          /\ envVars[CHOOSE i \in at : \A j \in at : j <= i].from = "handler"
    BY DEF OwnEnvPrevails
  <2> DEFINE at == {i \in DOMAIN envVars : envVars[i].name = n}
  <2>1. PICK es \in Seq(Entries) : envVars = EnvForJob(es)
    BY DEF InputsInv, EnvOrdered
  <2>2. PICK i \in DOMAIN envVars :
               /\ i \in Nat /\ envVars[i] = Own[n]
               /\ \A j \in DOMAIN envVars : j \in Nat /\ (envVars[j].name = n => j <= i)
    BY <2>1, EnvForJobEnds
  <2>3. envVars[i].name = n /\ envVars[i].from = "handler"
    BY <2>2 DEF Own
  <2>4. i \in at /\ \A j \in at : j <= i
    BY <2>2, <2>3
  <2>5. at \subseteq Nat
    BY <2>2
  <2>6. \A j \in at : (\A k \in at : k <= j) => j = i
    BY <2>4, <2>5
  <2>7. i = CHOOSE j \in at : \A k \in at : k <= j
    BY <2>4, <2>6
  <2> QED BY <2>3, <2>4, <2>7
<1> QED BY <1>1, InputsInitially, InputsInductive, PTL DEF InputsSpec

-----------------------------------------------------------------------------
(* Inputs: one edit of the variables changes the text *)

\* f holds what FlattenSeq(seqs) has joined after each of the sequences.
Running(f, seqs) ==
    /\ f \in [0..Len(seqs) -> Seq(Nat)]
    /\ f[0] = <<>>
    /\ \A i \in 1..Len(seqs) : f[i] = f[i - 1] \o seqs[i]

\* g is the function FlattenSeq is defined by, as far as k.
Joining(g, seqs, k) ==
    g = [i \in 1..k |-> IF i = 1 THEN seqs[i] ELSE g[i - 1] \o seqs[i]]

\* The recursive function of FlattenSeq exists.
LEMMA JoiningExists ==
    ASSUME NEW seqs, NEW n \in Nat
    PROVE  \E g : Joining(g, seqs, n)
<1> DEFINE Bad == {k \in Nat : ~ \E g : Joining(g, seqs, k)}
<1>1. 0 \notin Bad
  <2>1. Joining([i \in 1..0 |-> <<>>], seqs, 0)
    BY DEF Joining
  <2> QED BY <2>1
<1>2. ASSUME NEW k \in Nat, k \notin Bad PROVE k + 1 \notin Bad
  <2>1. PICK g : Joining(g, seqs, k)
    BY <1>2
  <2>2. \A i \in 1..k : g[i] = IF i = 1 THEN seqs[i] ELSE g[i - 1] \o seqs[i]
    BY <2>1 DEF Joining
  <2> DEFINE h == [i \in 1..(k + 1) |-> IF i = 1 THEN seqs[i] ELSE g[i - 1] \o seqs[i]]
  <2>3. \A i \in 1..k : i \in 1..(k + 1) /\ g[i] = h[i]
    BY <2>2
  <2>4. \A i \in 1..(k + 1) : i # 1 => i - 1 \in 1..k
    OBVIOUS
  <2>5. h = [i \in 1..(k + 1) |-> IF i = 1 THEN seqs[i] ELSE h[i - 1] \o seqs[i]]
    BY <2>3, <2>4
  <2>6. Joining(h, seqs, k + 1)
    BY <2>5 DEF Joining
  <2> QED BY <2>6
<1>3. ASSUME NEW k \in Bad, \A i \in Bad : k <= i PROVE FALSE
  <2>1. k # 0 /\ k \in Nat
    BY <1>1
  <2>2. k - 1 \in Nat /\ k - 1 \notin Bad /\ (k - 1) + 1 = k
    BY <1>3, <2>1
  <2> HIDE DEF Bad
  <2> QED BY <1>2, <2>2
<1>4. Bad = {}
  <2> Bad \in SUBSET Nat
    OBVIOUS
  <2> HIDE DEF Bad
  <2> QED BY <1>3, Least
<1> QED BY <1>4

\* FlattenSeq joins one sequence after the other.
LEMMA FlattenRunning ==
    ASSUME NEW seqs \in Seq(Seq(Nat))
    PROVE  \E f : Running(f, seqs) /\ FlattenSeq(seqs) = f[Len(seqs)]
<1> DEFINE n == Len(seqs)
           g == CHOOSE h : Joining(h, seqs, n)
           f == [i \in 0..n |-> IF i = 0 THEN <<>> ELSE g[i]]
           Bad == {i \in 1..n : g[i] \notin Seq(Nat)}
<1>1. n \in Nat /\ \A i \in 1..n : seqs[i] \in Seq(Nat)
  OBVIOUS
<1>2. Joining(g, seqs, n)
  BY <1>1, JoiningExists
<1>3. FlattenSeq(seqs) = IF n = 0 THEN seqs ELSE g[n]
  BY DEF FlattenSeq, Joining
<1>4. n = 0 => seqs = <<>>
  BY EmptySeq
<1> HIDE DEF n, g
<1>5. \A i \in 1..n : g[i] = IF i = 1 THEN seqs[i] ELSE g[i - 1] \o seqs[i]
  BY <1>2 DEF Joining
<1>6. ASSUME NEW i \in Bad, \A j \in Bad : i <= j PROVE FALSE
  <2>1. i # 1
    BY <1>1, <1>5
  <2>2. i - 1 \in 1..n /\ i - 1 \notin Bad
    BY <1>1, <1>6, <2>1
  <2>3. g[i - 1] \in Seq(Nat) /\ seqs[i] \in Seq(Nat)
    BY <1>1, <2>2
  <2>4. g[i] \in Seq(Nat)
    BY <1>5, <2>1, <2>3, ConcatProperties
  <2> QED BY <2>4
<1>7. Bad = {}
  <2> Bad \in SUBSET Nat
    BY <1>1
  <2> HIDE DEF Bad
  <2> QED BY <1>6, Least
<1>8. f \in [0..n -> Seq(Nat)]
  BY <1>7
<1>9. ASSUME NEW i \in 1..n PROVE f[i] = f[i - 1] \o seqs[i]
  <2>1. CASE i = 1
    <3>1. f[i - 1] = <<>> /\ f[i] = seqs[i]
      BY <1>1, <1>5, <2>1
    <3> QED BY <1>1, <3>1, ConcatEmptySeq
  <2>2. CASE i # 1
    <3>1. i - 1 \in 0..n /\ i - 1 # 0 /\ i \in 0..n /\ i # 0
      BY <1>1, <2>2
    <3> QED BY <1>5, <2>2, <3>1
  <2> QED BY <2>1, <2>2
<1>10. f[0] = <<>>
  BY <1>1
<1>11. Running(f, seqs)
  BY <1>8, <1>10, <1>9, Zenon DEF Running, n
<1> HIDE DEF f
<1>12. FlattenSeq(seqs) = f[n]
  BY <1>1, <1>3, <1>4 DEF f
<1> QED BY <1>11, <1>12 DEF n

\* f holds the text of m as far as each of its keys.
Texts(f, ks, m) ==
    /\ f \in [0..Len(ks) -> Seq(Nat)]
    /\ f[0] = <<>>
    /\ \A i \in 1..Len(ks) : f[i] = f[i - 1] \o (ks[i] \o m[ks[i]])

\* What is written for a key is not empty, as no key is.
LEMMA PieceTypes ==
    ASSUME NEW m \in Data, NEW k \in DOMAIN m
    PROVE  /\ k \in Seq(Nat) /\ m[k] \in Seq(Nat)
           /\ k \o m[k] \in Seq(Nat)
           /\ Len(k \o m[k]) \in Nat /\ Len(k \o m[k]) > 0
<1>1. k \in Seq(Nat) /\ k # <<>> /\ m[k] \in Seq(Nat)
  BY MapTypes, InputsConstants DEF InputsConstants
<1>2. Len(k) \in Nat \ {0} /\ Len(m[k]) \in Nat
  BY <1>1, EmptySeq
<1>3. k \o m[k] \in Seq(Nat) /\ Len(k \o m[k]) = Len(k) + Len(m[k])
  BY <1>1, ConcatProperties
<1> QED BY <1>1, <1>2, <1>3

\* What is written for a list of keys is joined key by key.
LEMMA JoinedTexts ==
    ASSUME NEW m \in Data, NEW ks, Lists(ks, DOMAIN m)
    PROVE  \E f : Texts(f, ks, m) /\ Joined(ks, m) = f[Len(ks)]
<1> DEFINE n == Len(ks)
           pieces == [i \in DOMAIN ks |-> ks[i] \o m[ks[i]]]
<1>1. n \in Nat /\ DOMAIN ks = 1..n /\ \A i \in 1..n : ks[i] \in DOMAIN m
  BY LenProperties DEF Lists
<1>2. pieces \in [1..n -> Seq(Nat)]
  BY <1>1, PieceTypes
<1>3. pieces \in Seq(Seq(Nat)) /\ Len(pieces) = n
  BY <1>1, <1>2
<1>4. PICK f : Running(f, pieces) /\ FlattenSeq(pieces) = f[Len(pieces)]
  BY <1>3, FlattenRunning
<1>5. \A i \in 1..n : pieces[i] = ks[i] \o m[ks[i]]
  BY <1>1
<1>6. Joined(ks, m) = FlattenSeq(pieces)
  BY DEF Joined
<1> HIDE DEF pieces
<1>7. Texts(f, ks, m)
  BY <1>3, <1>4, <1>5 DEF Running, Texts
<1> QED BY <1>3, <1>4, <1>6, <1>7

\* The text of a map, joined from its keys in order.
TextFrom(f, ks, m) ==
    /\ Lists(ks, DOMAIN m) /\ Ordered(ks)
    /\ Texts(f, ks, m)
    /\ Text(m) = f[Len(ks)]

\* The text of a map is such a text.
LEMMA TextExists ==
    ASSUME NEW m \in Data
    PROVE  \E f, ks : TextFrom(f, ks, m)
<1>1. DOMAIN m \in SUBSET Seq(Nat) /\ IsFiniteSet(DOMAIN m)
  BY MapTypes, InputsConstants, FS_Subset DEF InputsConstants
<1> DEFINE list == SetToSeq(DOMAIN m)
           ks == Sorted(list)
<1>2. Lists(list, DOMAIN m)
  BY <1>1, SetToSeqLists
<1>3. Lists(ks, DOMAIN m) /\ Ordered(ks)
  BY <1>1, <1>2, SortedLists
<1>4. Text(m) = Joined(ks, m)
  BY DEF Text, Written
<1> HIDE DEF ks
<1>5. \E f : Texts(f, ks, m) /\ Joined(ks, m) = f[Len(ks)]
  BY <1>3, JoinedTexts
<1> QED BY <1>3, <1>4, <1>5 DEF TextFrom

\* What is joined to the same sequence is the same.
LEMMA Cancel ==
    ASSUME NEW s \in Seq(Nat), NEW t \in Seq(Nat), NEW u \in Seq(Nat)
    PROVE  /\ u \o s = u \o t => s = t
           /\ s \o u = t \o u => s = t
BY ConcatSimplifications

\* A changed value changes the text: what is joined before it and what is
\* joined behind it are the same.
LEMMA ValueSeen ==
    ASSUME NEW m \in Data, NEW w \in Data, NEW k \in DOMAIN m, DOMAIN w = DOMAIN m,
           w[k] # m[k], \A x \in DOMAIN m \ {k} : w[x] = m[x]
    PROVE  Text(w) # Text(m)
<1>1. PICK f, ks : TextFrom(f, ks, m)
  BY TextExists
<1>2. PICK g, ls : TextFrom(g, ls, w)
  BY TextExists
<1>3. DOMAIN m \in SUBSET Seq(Nat)
  BY PieceTypes
<1>4. ls = ks
  BY <1>1, <1>2, <1>3, SortUnique DEF TextFrom
<1> DEFINE n == Len(ks)
<1>5. n \in Nat /\ DOMAIN ks = 1..n /\ \A i \in 1..n : ks[i] \in DOMAIN m
  BY <1>1, LenProperties DEF TextFrom, Lists
<1>6. /\ f \in [0..n -> Seq(Nat)] /\ f[0] = <<>>
      /\ \A i \in 1..n : f[i] = f[i - 1] \o (ks[i] \o m[ks[i]])
      /\ Text(m) = f[n]
  BY <1>1 DEF TextFrom, Texts
<1>7. /\ g \in [0..n -> Seq(Nat)] /\ g[0] = <<>>
      /\ \A i \in 1..n : g[i] = g[i - 1] \o (ks[i] \o w[ks[i]])
      /\ Text(w) = g[n]
  BY <1>2, <1>4 DEF TextFrom, Texts
<1>8. PICK p \in 1..n : ks[p] = k
  BY <1>1, <1>5 DEF TextFrom, Lists, Range
<1>9. \A i \in 1..n : i # p => ks[i] # k
  BY <1>1, <1>5, <1>8 DEF TextFrom, Lists, IsInjective
<1> DEFINE Good(i) == IF i < p THEN g[i] = f[i] ELSE g[i] # f[i]
           Bad == {i \in 0..n : ~ Good(i)}
<1> HIDE DEF n
<1>10. Good(0)
  BY <1>5, <1>6, <1>7, <1>8
<1>11. ASSUME NEW i \in 1..n, Good(i - 1) PROVE Good(i)
  <2>1. i - 1 \in 0..n /\ i \in 0..n
    BY <1>5
  <2>2. f[i - 1] \in Seq(Nat) /\ g[i - 1] \in Seq(Nat)
    BY <1>6, <1>7, <2>1
  <2>3. /\ ks[i] \in Seq(Nat) /\ m[ks[i]] \in Seq(Nat) /\ w[ks[i]] \in Seq(Nat)
        /\ ks[i] \o m[ks[i]] \in Seq(Nat) /\ ks[i] \o w[ks[i]] \in Seq(Nat)
    BY <1>5, PieceTypes
  <2>4. /\ f[i] = f[i - 1] \o (ks[i] \o m[ks[i]])
        /\ g[i] = g[i - 1] \o (ks[i] \o w[ks[i]])
    BY <1>6, <1>7
  <2>5. CASE i = p
    <3>1. g[i - 1] = f[i - 1]
      BY <1>5, <1>11, <2>5
    <3>2. ks[i] \o w[ks[i]] # ks[i] \o m[ks[i]]
      BY <1>8, <2>3, <2>5, Cancel
    <3>3. g[i] # f[i]
      BY <2>2, <2>3, <2>4, <3>1, <3>2, Cancel
    <3> QED BY <1>5, <2>5, <3>3
  <2>6. CASE i # p
    <3>1. w[ks[i]] = m[ks[i]]
      BY <1>5, <1>9, <2>6
    <3>2. g[i] = g[i - 1] \o (ks[i] \o m[ks[i]])
      BY <2>4, <3>1
    <3>3. ASSUME g[i] = f[i] PROVE g[i - 1] = f[i - 1]
      <4> DEFINE piece == ks[i] \o m[ks[i]]
      <4>1. piece \in Seq(Nat) /\ g[i - 1] \o piece = f[i - 1] \o piece
        BY <2>3, <2>4, <3>2, <3>3
      <4> HIDE DEF piece
      <4> QED BY <2>2, <4>1, Cancel
    <3>4. g[i - 1] = f[i - 1] => g[i] = f[i]
      BY <2>4, <3>2
    <3> QED BY <1>5, <1>11, <2>6, <3>3, <3>4
  <2> QED BY <2>5, <2>6
<1>12. Bad = {}
  <2>1. Bad \in SUBSET Nat
    BY <1>5
  <2>2. ASSUME NEW i \in Bad, \A j \in Bad : i <= j PROVE FALSE
    <3>1. i \in 0..n /\ ~ Good(i)
      OBVIOUS
    <3>2. i # 0
      BY <1>10, <3>1
    <3>3. i \in 1..n /\ i - 1 \in 0..n /\ i - 1 < i
      BY <1>5, <3>1, <3>2
    <3>4. i - 1 \notin Bad
      BY <2>1, <2>2, <3>3
    <3>5. Good(i - 1)
      BY <3>3, <3>4
    <3> HIDE DEF Good
    <3> QED BY <1>11, <3>1, <3>3, <3>5
  <2> HIDE DEF Bad
  <2> QED BY <2>1, <2>2, Least
<1>13. Good(n)
  BY <1>5, <1>12
<1> QED BY <1>5, <1>6, <1>7, <1>8, <1>13

\* ks without its element at p
OneOut(ks, p) == [i \in 1..(Len(ks) - 1) |-> IF i < p THEN ks[i] ELSE ks[i + 1]]

\* A list stays one when the element at p is taken out.
LEMMA TakenOut ==
    ASSUME NEW S \in SUBSET Seq(Nat), NEW ks, Lists(ks, S), Ordered(ks),
           NEW p \in 1..Len(ks)
    PROVE  /\ Lists(OneOut(ks, p), S \ {ks[p]}) /\ Ordered(OneOut(ks, p))
           /\ Len(OneOut(ks, p)) = Len(ks) - 1
<1> DEFINE n == Len(ks)
           ls == OneOut(ks, p)
           T == S \ {ks[p]}
<1>1. n \in Nat /\ ks \in [1..n -> S] /\ DOMAIN ks = 1..n
  BY LenProperties DEF Lists
<1>2. \A i, j \in 1..n : ks[i] = ks[j] => i = j
  BY <1>1 DEF Lists, IsInjective
<1>3. \A i \in 1..(n - 1) : ls[i] = IF i < p THEN ks[i] ELSE ks[i + 1]
  BY DEF OneOut
<1>4. DOMAIN ls = 1..(n - 1) /\ ls = [i \in 1..(n - 1) |-> ls[i]]
  BY DEF OneOut
<1> HIDE DEF ls
<1>5. n - 1 \in Nat
  BY <1>1
<1>6. ASSUME NEW i \in 1..(n - 1) PROVE ls[i] \in T
  <2>1. i \in 1..n /\ i + 1 \in 1..n
    BY <1>1
  <2>2. CASE i < p
    BY <1>1, <1>2, <1>3, <2>1, <2>2
  <2>3. CASE ~ (i < p)
    BY <1>1, <1>2, <1>3, <2>1, <2>3
  <2> QED BY <2>2, <2>3
<1>7. ls \in [1..(n - 1) -> T]
  BY <1>4, <1>6
<1> HIDE DEF n, T
<1>8. ls \in Seq(T) /\ Len(ls) = n - 1
  BY <1>5, <1>7
<1>9. ASSUME NEW i \in 1..(n - 1), NEW j \in 1..(n - 1), i < j
      PROVE  Before(ls[i], ls[j])
  <2>1. i \in 1..n /\ i + 1 \in 1..n /\ j \in 1..n /\ j + 1 \in 1..n
    BY <1>1
  <2>2. \A a, b \in 1..n : a < b => Before(ks[a], ks[b])
    BY <1>1 DEF Ordered
  <2>3. CASE j < p
    BY <1>1, <1>3, <1>9, <2>1, <2>2, <2>3
  <2>4. CASE i < p /\ ~ (j < p)
    BY <1>1, <1>3, <1>9, <2>1, <2>2, <2>4
  <2>5. CASE ~ (i < p)
    <3>1. i + 1 < j + 1 /\ ~ (j < p)
      BY <1>1, <1>9, <2>5
    <3> QED BY <1>3, <2>1, <2>2, <2>5, <3>1
  <2> QED BY <2>3, <2>4, <2>5
<1>10. Ordered(ls)
  BY <1>4, <1>9 DEF Ordered
<1>11. ASSUME NEW x \in T PROVE \E i \in 1..(n - 1) : ls[i] = x
  <2>1. PICK j \in 1..n : ks[j] = x
    BY <1>1 DEF Lists, Range, T
  <2>2. j # p
    BY <2>1 DEF T
  <2>3. CASE j < p
    <3>1. j \in 1..(n - 1)
      BY <1>1, <2>3 DEF n
    <3> QED BY <1>3, <2>1, <2>3, <3>1
  <2>4. CASE j > p
    <3>1. j - 1 \in 1..(n - 1) /\ ~ (j - 1 < p) /\ (j - 1) + 1 = j
      BY <1>1, <2>4 DEF n
    <3> QED BY <1>3, <2>1, <3>1
  <2> QED BY <1>1, <2>2, <2>3, <2>4 DEF n
<1>12. Range(ls) = T
  BY <1>4, <1>6, <1>11 DEF Range
<1>13. IsInjective(ls)
  <2>1. ASSUME NEW i \in 1..(n - 1), NEW j \in 1..(n - 1), i < j PROVE ls[i] # ls[j]
    BY <1>6, <1>9, <2>1, BeforeIrreflexive DEF T
  <2>2. \A i, j \in 1..(n - 1) : ls[i] = ls[j] => i = j
    BY <1>5, <2>1
  <2> QED BY <1>4, <2>2 DEF IsInjective
<1> QED BY <1>8, <1>10, <1>12, <1>13 DEF Lists, ls, n, T

\* m without key k
Without(m, k) == [x \in DOMAIN m \ {k} |-> m[x]]

\* It is a map.
LEMMA WithoutType ==
    ASSUME NEW m \in Data, NEW k
    PROVE  Without(m, k) \in Data /\ DOMAIN Without(m, k) = DOMAIN m \ {k}
<1>1. DOMAIN m \subseteq Keys /\ m \in [DOMAIN m -> Values]
  BY MapTypes
<1>2. Without(m, k) \in [DOMAIN m \ {k} -> Values]
  BY <1>1 DEF Without
<1> QED BY <1>1, <1>2 DEF Data, Maps

\* A key more or less changes the text: it gets longer or shorter, as no key
\* is empty.
LEMMA KeySeen ==
    ASSUME NEW m \in Data, NEW k \in DOMAIN m
    PROVE  Text(Without(m, k)) # Text(m)
<1> DEFINE w == Without(m, k)
<1>1. w \in Data /\ DOMAIN w = DOMAIN m \ {k}
  BY WithoutType
<1>2. PICK f, ks : TextFrom(f, ks, m)
  BY TextExists
<1>3. PICK g, ls : TextFrom(g, ls, w)
  BY <1>1, TextExists
<1>4. DOMAIN m \in SUBSET Seq(Nat) /\ DOMAIN w \in SUBSET Seq(Nat)
  BY <1>1, PieceTypes
<1> DEFINE n == Len(ks)
<1>5. n \in Nat /\ DOMAIN ks = 1..n /\ \A i \in 1..n : ks[i] \in DOMAIN m
  BY <1>2, LenProperties DEF TextFrom, Lists
<1>6. PICK p \in 1..n : ks[p] = k
  BY <1>2, <1>5 DEF TextFrom, Lists, Range
<1> DEFINE ts == OneOut(ks, p)
<1>7. Lists(ts, DOMAIN w) /\ Ordered(ts) /\ Len(ts) = n - 1
  <2>1. Lists(ks, DOMAIN m) /\ Ordered(ks)
    BY <1>2 DEF TextFrom
  <2>2. Lists(ts, DOMAIN m \ {ks[p]}) /\ Ordered(ts) /\ Len(ts) = Len(ks) - 1
    BY <1>4, <2>1, TakenOut
  <2> QED BY <1>1, <1>6, <2>2
<1>8. ls = ts
  BY <1>3, <1>4, <1>7, SortUnique DEF TextFrom
<1>9. /\ Len(ls) = n - 1
      /\ \A i \in 1..(n - 1) : ls[i] = IF i < p THEN ks[i] ELSE ks[i + 1]
  BY <1>7, <1>8 DEF OneOut
<1> HIDE DEF ts
<1>10. /\ f \in [0..n -> Seq(Nat)] /\ f[0] = <<>>
       /\ \A i \in 1..n : f[i] = f[i - 1] \o (ks[i] \o m[ks[i]])
       /\ Text(m) = f[n]
  BY <1>2 DEF TextFrom, Texts
<1>11. /\ g \in [0..(n - 1) -> Seq(Nat)] /\ g[0] = <<>>
       /\ \A i \in 1..(n - 1) : g[i] = g[i - 1] \o (ls[i] \o w[ls[i]])
       /\ Text(w) = g[n - 1]
  BY <1>3, <1>9 DEF TextFrom, Texts
<1>12. \A i \in 1..n : i # p => ks[i] # k
  BY <1>2, <1>5, <1>6 DEF TextFrom, Lists, IsInjective
<1>13. \A x \in DOMAIN m \ {k} : w[x] = m[x]
  BY DEF Without
<1> DEFINE Good(i) == IF i < p THEN g[i] = f[i] ELSE Len(g[i - 1]) < Len(f[i])
           Bad == {i \in 0..n : ~ Good(i)}
<1> HIDE DEF n, w
<1>14. Good(0)
  BY <1>5, <1>6, <1>10, <1>11
<1>15. ASSUME NEW i \in 1..n, Good(i - 1) PROVE Good(i)
  <2>1. i - 1 \in 0..n /\ i \in 0..n
    BY <1>5
  <2>2. f[i - 1] \in Seq(Nat)
    BY <1>10, <2>1
  <2> DEFINE piece == ks[i] \o m[ks[i]]
  <2>3. piece \in Seq(Nat) /\ Len(piece) \in Nat /\ Len(piece) > 0
    BY <1>5, PieceTypes
  <2>4. f[i] = f[i - 1] \o piece
    BY <1>10
  <2> HIDE DEF piece
  <2>5. Len(f[i]) = Len(f[i - 1]) + Len(piece) /\ Len(f[i - 1]) \in Nat
    BY <2>2, <2>3, <2>4, ConcatProperties, LenProperties
  <2>6. CASE i < p
    <3>1. i \in 1..(n - 1) /\ ls[i] = ks[i]
      BY <1>5, <1>9, <2>6
    <3>2. w[ls[i]] = m[ks[i]]
      BY <1>5, <1>12, <1>13, <2>6, <3>1
    <3>3. g[i - 1] = f[i - 1]
      BY <1>5, <1>15, <2>6
    <3>4. g[i] = f[i]
      BY <1>11, <2>4, <3>1, <3>2, <3>3 DEF piece
    <3> QED BY <2>6, <3>4
  <2>7. CASE i = p
    <3>1. g[i - 1] = f[i - 1]
      BY <1>5, <1>15, <2>7
    <3>2. Len(g[i - 1]) < Len(f[i])
      BY <2>3, <2>5, <3>1
    <3> QED BY <1>5, <2>7, <3>2
  <2>8. CASE i > p
    <3>1. i - 1 \in 1..(n - 1) /\ ~ (i - 1 < p) /\ (i - 1) + 1 = i
      BY <1>5, <2>8
    <3>2. ls[i - 1] = ks[i]
      BY <1>9, <3>1
    <3>3. w[ls[i - 1]] = m[ks[i]]
      BY <1>5, <1>12, <1>13, <2>8, <3>2
    <3>4. g[i - 1] = g[(i - 1) - 1] \o piece
      BY <1>11, <3>1, <3>2, <3>3 DEF piece
    <3>5. (i - 1) - 1 \in 0..(n - 1) /\ g[(i - 1) - 1] \in Seq(Nat)
      BY <1>5, <1>11, <3>1
    <3>6. Len(g[i - 1]) = Len(g[(i - 1) - 1]) + Len(piece)
      BY <2>3, <3>4, <3>5, ConcatProperties
    <3>7. Len(g[(i - 1) - 1]) < Len(f[i - 1])
      BY <1>15, <3>1
    <3>8. Len(g[(i - 1) - 1]) \in Nat
      BY <3>5, LenProperties
    <3>9. Len(g[i - 1]) < Len(f[i])
      BY <2>3, <2>5, <3>6, <3>7, <3>8
    <3> QED BY <1>5, <2>8, <3>9
  <2> QED BY <1>5, <2>6, <2>7, <2>8
<1>16. Bad = {}
  <2>1. Bad \in SUBSET Nat
    BY <1>5
  <2>2. ASSUME NEW i \in Bad, \A j \in Bad : i <= j PROVE FALSE
    <3>1. i \in 0..n /\ ~ Good(i)
      OBVIOUS
    <3>2. i # 0
      BY <1>14, <3>1
    <3>3. i \in 1..n /\ i - 1 \in 0..n /\ i - 1 < i
      BY <1>5, <3>1, <3>2
    <3>4. i - 1 \notin Bad
      BY <2>1, <2>2, <3>3
    <3>5. Good(i - 1)
      BY <3>3, <3>4
    <3> HIDE DEF Good
    <3> QED BY <1>15, <3>1, <3>3, <3>5
  <2> HIDE DEF Bad
  <2> QED BY <2>1, <2>2, Least
<1>17. Good(n)
  BY <1>5, <1>16
<1>18. Len(g[n - 1]) < Len(f[n])
  BY <1>5, <1>6, <1>17 DEF n
<1>19. n \in 0..n /\ f[n] \in Seq(Nat) /\ Len(f[n]) \in Nat
  BY <1>5, <1>10
<1> QED BY <1>10, <1>11, <1>18, <1>19 DEF w

\* One edit changes the text.
LEMMA EditSeenIn ==
    ASSUME NEW m \in Data, NEW e \in Edits(m) \ {m}
    PROVE  Text(e) # Text(m)
<1>1. DOMAIN m \subseteq Keys /\ m \in [DOMAIN m -> Values]
  BY MapTypes
<1>2. ASSUME NEW k \in DOMAIN m, NEW v \in Values, e = [m EXCEPT ![k] = v]
      PROVE  Text(e) # Text(m)
  <2>1. v # m[k]
    BY <1>1, <1>2
  <2>2. e \in [DOMAIN m -> Values]
    BY <1>1, <1>2
  <2>3. e \in Data
    BY <1>1, <2>2 DEF Data, Maps
  <2>4. DOMAIN e = DOMAIN m /\ e[k] = v /\ \A x \in DOMAIN m \ {k} : e[x] = m[x]
    BY <1>1, <1>2
  <2> QED BY <2>1, <2>3, <2>4, ValueSeen
<1>3. ASSUME NEW k \in Keys \ DOMAIN m, NEW v \in Values,
             e = [x \in DOMAIN m \cup {k} |-> IF x = k THEN v ELSE m[x]]
      PROVE  Text(e) # Text(m)
  <2>1. e \in [DOMAIN m \cup {k} -> Values] /\ DOMAIN m \cup {k} \subseteq Keys
    BY <1>1, <1>3
  <2>2. e \in Data /\ k \in DOMAIN e
    BY <1>3, <2>1 DEF Data, Maps
  <2>3. DOMAIN e \ {k} = DOMAIN m /\ \A x \in DOMAIN m : e[x] = m[x]
    BY <1>3
  <2>4. Without(e, k) = m
    BY <1>1, <2>3 DEF Without
  <2> QED BY <2>2, <2>4, KeySeen
<1>4. ASSUME NEW k \in DOMAIN m, e = [x \in DOMAIN m \ {k} |-> m[x]]
      PROVE  Text(e) # Text(m)
  BY <1>4, KeySeen DEF Without
<1> DEFINE Changed == {[m EXCEPT ![k] = v] : k \in DOMAIN m, v \in Values}
           Longer == {[x \in DOMAIN m \cup {k} |-> IF x = k THEN v ELSE m[x]] :
                        k \in Keys \ DOMAIN m, v \in Values}
           Shorter == {[x \in DOMAIN m \ {k} |-> m[x]] : k \in DOMAIN m}
<1>5. e \in Changed => Text(e) # Text(m)
  BY <1>2
<1>6. ASSUME e \in Longer PROVE Text(e) # Text(m)
  <2>1. PICK k \in Keys \ DOMAIN m, v \in Values :
               e = [x \in DOMAIN m \cup {k} |-> IF x = k THEN v ELSE m[x]]
    BY <1>6
  <2> QED BY <1>3, <2>1
<1>7. e \in Shorter => Text(e) # Text(m)
  BY <1>4
<1>8. Edits(m) = Changed \cup Longer \cup Shorter
  BY DEF Edits
<1> HIDE DEF Changed, Longer, Shorter
<1> QED BY <1>5, <1>6, <1>7, <1>8

\* One edit of the variables, for any keys and values, changes the digest: the
\* next sync starts a run.
THEOREM EditsNoticed == InputsSpec => []EditSeen
<1>1. InputsInv => EditSeen
  <2> SUFFICES ASSUME InputsInv, step = "done", NEW m \in Edits(combined) \ {combined}
               PROVE  Text(m) # digest
    BY DEF EditSeen
  <2>1. digest = Text(combined)
    BY TextOf DEF InputsInv, InputTypes, Listed
  <2> QED BY <2>1, EditSeenIn DEF InputsInv, InputTypes
<1> QED BY <1>1, InputsInitially, InputsInductive, PTL DEF InputsSpec

-----------------------------------------------------------------------------
(* Copies: fields and cells *)

\* The types
Kinds == {"Module", "ModuleList", "State", "StateList", "Execution", "ExecutionList"}

\* DeepCopyInto makes each reference field of its type anew.
LEMMA AllMade ==
    /\ DOMAIN Fields = Kinds
    /\ \A k \in Kinds : Fields[k] = Made[k]
<1>1. ModuleMade = ModuleFields
  BY DEF ModuleMade, ModuleFields, ObjectMetaMade, ObjectMetaFields, ModuleSpecMade,
         ModuleContentMade, ModuleContentFields, ModuleStatusMade
<1>2. ExecutionMade = ExecutionFields
  <2>1. ExecutionSpecMade = Direct({"Data"}) \cup In("Content", ModuleContentFields)
    BY DEF ExecutionSpecMade, ModuleContentMade, ModuleContentFields
  <2> QED BY <2>1 DEF ExecutionMade, ExecutionFields, ObjectMetaMade, ObjectMetaFields,
                      ExecutionStatusMade
<1>3. StateMade = StateFields
  <2>1. StateSpecMade = Direct({"Data", "NodeSelector"}) \cup
                        In("Variables", Direct({"EnvConfigName", "EnvSecretNames",
                                                "ConfigNames", "SecretNames"}))
    BY DEF StateSpecMade, VariablesMade
  <2> QED BY <2>1 DEF StateMade, StateFields, ObjectMetaMade, ObjectMetaFields,
                      StateStatusMade
<1>4. /\ ModuleListMade = ListFields(ModuleFields)
      /\ StateListMade = ListFields(StateFields)
      /\ ExecutionListMade = ListFields(ExecutionFields)
  BY <1>1, <1>2, <1>3 DEF ListFields, ModuleListMade, StateListMade, ExecutionListMade
<1>5. DOMAIN Fields = Kinds
  BY DEF Fields, Kinds
<1>6. \A k \in Kinds : Fields[k] = Made[k]
  BY <1>1, <1>2, <1>3, <1>4 DEF Fields, Made, Kinds
<1> QED BY <1>5, <1>6

\* The names of fields, and of the two objects, of which paths are made
Names == {"ObjectMeta", "Annotations", "Spec", "ModuleContent", "Content", "Status",
          "GitChecked", "Conditions", "Data", "NodeSelector", "Variables",
          "EnvConfigName", "EnvSecretNames", "ConfigNames", "SecretNames", "Items",
          "original", "copy"}

Paths == Seq(Names)

\* Joining short paths.
LEMMA ShortPaths ==
    ASSUME NEW a \in Names, NEW b \in Names, NEW c \in Names
    PROVE  /\ <<a>> \in Paths /\ <<b, c>> \in Paths
           /\ <<a>> \o <<b>> = <<a, b>>
           /\ <<a>> \o <<b, c>> = <<a, b, c>>
<1>1. <<a>> \in Paths /\ <<b>> \in Paths /\ <<a, b>> \in Paths /\ <<b, c>> \in Paths
      /\ <<a, b, c>> \in Paths
  BY DEF Paths
<1>2. /\ Len(<<a>>) = 1 /\ Len(<<b>>) = 1 /\ Len(<<a, b>>) = 2
      /\ Len(<<b, c>>) = 2 /\ Len(<<a, b, c>>) = 3
  OBVIOUS
<1>3. <<a>> \o <<b>> = <<a, b>>
  <2> DEFINE s == <<a>> \o <<b>>
  <2> DEFINE t == <<a, b>>
  <2>1. s \in Paths /\ t \in Paths /\ Len(s) = 2 /\ Len(t) = 2 /\ s[1] = a /\ s[2] = b
    BY <1>1, <1>2, ConcatProperties DEF Paths
  <2>2. t[1] = a /\ t[2] = b
    OBVIOUS
  <2> HIDE DEF s, t
  <2>3. \A i \in 1..Len(s) : s[i] = t[i]
    <3>1. \A i \in 1..2 : i = 1 \/ i = 2
      OBVIOUS
    <3> QED BY <2>1, <2>2, <3>1
  <2>4. s = t
    BY <2>1, <2>3, SeqEqual DEF Paths
  <2> QED BY <2>4 DEF s, t
<1>4. <<a>> \o <<b, c>> = <<a, b, c>>
  <2> DEFINE s == <<a>> \o <<b, c>>
  <2> DEFINE t == <<a, b, c>>
  <2>1. s \in Paths /\ t \in Paths /\ Len(s) = 3 /\ Len(t) = 3
        /\ s[1] = a /\ s[2] = b /\ s[3] = c
    BY <1>1, <1>2, ConcatProperties DEF Paths
  <2>2. t[1] = a /\ t[2] = b /\ t[3] = c
    OBVIOUS
  <2> HIDE DEF s, t
  <2>3. \A i \in 1..Len(s) : s[i] = t[i]
    <3>1. \A i \in 1..3 : i = 1 \/ i = 2 \/ i = 3
      OBVIOUS
    <3> QED BY <2>1, <2>2, <3>1
  <2>4. s = t
    BY <2>1, <2>3, SeqEqual DEF Paths
  <2> QED BY <2>4 DEF s, t
<1> QED BY <1>1, <1>3, <1>4

\* The fields of each type are paths.
LEMMA InPaths ==
    ASSUME NEW f \in Names, NEW P \in SUBSET Paths
    PROVE  In(f, P) \in SUBSET Paths
<1>1. ASSUME NEW p \in P PROVE <<f>> \o p \in Paths
  BY ShortPaths, ConcatProperties DEF Paths
<1> QED BY <1>1 DEF In

LEMMA DirectPaths ==
    ASSUME NEW F \in SUBSET Names
    PROVE  Direct(F) \in SUBSET Paths
BY ShortPaths DEF Direct

LEMMA ListPaths ==
    ASSUME NEW P \in SUBSET Paths
    PROVE  ListFields(P) \in SUBSET Paths
BY InPaths, DirectPaths DEF ListFields, Names

LEMMA FieldPaths ==
    ASSUME NEW k \in Kinds
    PROVE  Fields[k] \in SUBSET Paths
<1>1. ObjectMetaFields \in SUBSET Paths /\ ModuleContentFields \in SUBSET Paths
  BY DirectPaths DEF ObjectMetaFields, ModuleContentFields, Names
<1>2. ModuleFields \in SUBSET Paths
  <2>1. In("ObjectMeta", ObjectMetaFields) \in SUBSET Paths
    BY <1>1, InPaths DEF Names
  <2>2. In("Spec", In("ModuleContent", ModuleContentFields)) \in SUBSET Paths
    BY <1>1, InPaths DEF Names
  <2>3. Direct({"GitChecked", "Conditions"}) \cup In("Content", ModuleContentFields)
        \in SUBSET Paths
    BY <1>1, InPaths, DirectPaths DEF Names
  <2>4. In("Status", Direct({"GitChecked", "Conditions"}) \cup
                     In("Content", ModuleContentFields)) \in SUBSET Paths
    BY <2>3, InPaths DEF Names
  <2> QED BY <2>1, <2>2, <2>4 DEF ModuleFields
<1>3. StateFields \in SUBSET Paths
  <2>1. In("ObjectMeta", ObjectMetaFields) \in SUBSET Paths
    BY <1>1, InPaths DEF Names
  <2> DEFINE V == Direct({"EnvConfigName", "EnvSecretNames",
                          "ConfigNames", "SecretNames"})
  <2>2. V \in SUBSET Paths
    BY DirectPaths DEF Names
  <2>3. Direct({"Data", "NodeSelector"}) \cup In("Variables", V) \in SUBSET Paths
    BY <2>2, InPaths, DirectPaths DEF Names
  <2>4. In("Spec", Direct({"Data", "NodeSelector"}) \cup In("Variables", V))
        \in SUBSET Paths
    BY <2>3, InPaths DEF Names
  <2>5. In("Status", Direct({"Conditions"})) \in SUBSET Paths
    BY InPaths, DirectPaths DEF Names
  <2> QED BY <2>1, <2>4, <2>5 DEF StateFields
<1>4. ExecutionFields \in SUBSET Paths
  <2>1. In("ObjectMeta", ObjectMetaFields) \in SUBSET Paths
    BY <1>1, InPaths DEF Names
  <2>2. Direct({"Data"}) \cup In("Content", ModuleContentFields) \in SUBSET Paths
    BY <1>1, InPaths, DirectPaths DEF Names
  <2>3. In("Spec", Direct({"Data"}) \cup In("Content", ModuleContentFields))
        \in SUBSET Paths
    BY <2>2, InPaths DEF Names
  <2>4. In("Status", Direct({"Conditions"})) \in SUBSET Paths
    BY InPaths, DirectPaths DEF Names
  <2> QED BY <2>1, <2>3, <2>4 DEF ExecutionFields
<1> QED BY <1>2, <1>3, <1>4, ListPaths DEF Fields, Kinds

\* Each type has fields, a Module those that updateHash copies between.
LEMMA FieldsExist ==
    /\ \A k \in Kinds : Fields[k] # {}
    /\ <<"Spec", "ModuleContent", "Content">> \in Fields["Module"]
    /\ <<"Status", "Content", "Content">> \in Fields["Module"]
<1>1. ObjectMetaFields # {} /\ <<"Content">> \in ModuleContentFields
  BY DEF ObjectMetaFields, ModuleContentFields, Direct
<1>2. In("ObjectMeta", ObjectMetaFields) # {}
  BY <1>1 DEF In
<1>3. ModuleFields # {} /\ StateFields # {} /\ ExecutionFields # {}
  BY <1>2 DEF ModuleFields, StateFields, ExecutionFields
<1>4. \A P : ListFields(P) # {}
  BY DEF ListFields, Direct
<1>5. \A k \in Kinds : Fields[k] # {}
  BY <1>3, <1>4 DEF Fields, Kinds
<1> DEFINE N == {"Spec", "ModuleContent", "Content", "Status"}
<1>6. \A a, b, c \in N : /\ <<a>> \o <<b>> = <<a, b>>
                         /\ <<a>> \o <<b, c>> = <<a, b, c>>
  <2>1. N \subseteq Names
    BY DEF Names
  <2> QED BY <2>1, ShortPaths
<1>7. <<"Spec", "ModuleContent", "Content">> \in ModuleFields
  <2>1. <<"ModuleContent">> \o <<"Content">> \in In("ModuleContent", ModuleContentFields)
    BY <1>1 DEF In
  <2>2. <<"ModuleContent", "Content">> \in In("ModuleContent", ModuleContentFields)
    BY <1>6, <2>1
  <2>3. <<"Spec">> \o <<"ModuleContent", "Content">> \in
        In("Spec", In("ModuleContent", ModuleContentFields))
    BY <2>2 DEF In
  <2>4. <<"Spec", "ModuleContent", "Content">> \in
        In("Spec", In("ModuleContent", ModuleContentFields))
    BY <1>6, <2>3
  <2> QED BY <2>4 DEF ModuleFields
<1>8. <<"Status", "Content", "Content">> \in ModuleFields
  <2>1. <<"Content">> \o <<"Content">> \in In("Content", ModuleContentFields)
    BY <1>1 DEF In
  <2>2. <<"Content", "Content">> \in In("Content", ModuleContentFields)
    BY <1>6, <2>1
  <2> DEFINE P == Direct({"GitChecked", "Conditions"}) \cup
                  In("Content", ModuleContentFields)
  <2>3. <<"Status">> \o <<"Content", "Content">> \in In("Status", P)
    BY <2>2 DEF In
  <2>4. <<"Status", "Content", "Content">> \in In("Status", P)
    BY <1>6, <2>3
  <2> QED BY <2>4 DEF ModuleFields
<1> QED BY <1>5, <1>7, <1>8 DEF Fields

\* Cells of the two objects have different names, and the name says the field.
LEMMA CellNames ==
    ASSUME NEW p \in Paths, NEW q \in Paths
    PROVE  /\ CellOf("original", p) # CellOf("copy", q)
           /\ CellOf("original", p) # Nil /\ CellOf("copy", p) # Nil
           /\ Tail(CellOf("copy", p)) = p
<1>1. <<"original">> \in Paths /\ <<"copy">> \in Paths
  BY DEF Paths, Names
<1>2. /\ Len(CellOf("original", p)) = 1 + Len(p)
      /\ CellOf("original", p)[1] = "original"
      /\ CellOf("original", p) \in Paths
  BY <1>1 DEF CellOf, Paths
<1>3. \A r \in Paths : /\ CellOf("copy", r) \in Paths
                       /\ Len(CellOf("copy", r)) = 1 + Len(r)
                       /\ CellOf("copy", r)[1] = "copy"
                       /\ \A i \in 1..Len(r) : CellOf("copy", r)[i + 1] = r[i]
  BY <1>1 DEF CellOf, Paths
<1>4. Tail(CellOf("copy", p)) = p
  <2> DEFINE c == CellOf("copy", p)
  <2>1. c \in Paths /\ c # <<>> /\ Len(c) = 1 + Len(p)
    BY <1>3 DEF Paths
  <2>2. /\ Tail(c) \in Paths /\ Len(Tail(c)) = Len(p)
        /\ \A i \in 1..Len(Tail(c)) : Tail(c)[i] = c[i + 1]
    BY <2>1, HeadTailProperties DEF Paths
  <2> QED BY <1>3, <2>2, SeqEqual DEF Paths
<1> QED BY <1>2, <1>3, <1>4 DEF Nil

\* The inductive invariant: a field of the original is nil or points to the
\* cell of its own that was read, one of the copy is nil or points to a cell
\* made for the copy, and until there is a copy no such cell exists.
CopiesInv ==
    /\ kind \in Kinds
    /\ \A p \in Fields[kind] : original[p] \in {Nil, CellOf("original", p)}
    /\ copy = None => DOMAIN memory = {CellOf("original", p) : p \in Fields[kind]}
    /\ copy # None => copy \in [Fields[kind] ->
                                  {Nil} \cup {CellOf("copy", q) : q \in Fields[kind]}]
    /\ \A p \in Fields[kind] : original[p] # Nil => original[p] \in DOMAIN memory
    /\ copy # None => \A p \in Fields[kind] : copy[p] # Nil => copy[p] \in DOMAIN memory

\* It holds at the start, and each step keeps it.
LEMMA CopiesInitially == CopiesInit => CopiesInv
BY AllMade DEF CopiesInit, CopiesInv

LEMMA CopiesStepInv == CopiesInv /\ [CopiesNext]_copyVars => CopiesInv'
<1> SUFFICES ASSUME CopiesInv, [CopiesNext]_copyVars PROVE CopiesInv'
  OBVIOUS
<1> USE DEF CopiesInv
<1>1. CASE UNCHANGED copyVars
  BY <1>1 DEF copyVars
<1>2. CASE DeepCopy
  <2>1. Fields[kind] = Made[kind]
    BY AllMade
  <2>2. copy' = [p \in Fields[kind] |->
                   IF original[p] # Nil THEN CellOf("copy", p) ELSE Nil]
    BY <1>2, <2>1 DEF DeepCopy
  <2>3. copy' # None
    BY <2>2, FieldsExist DEF None
  <2> QED BY <1>2, <2>2, <2>3 DEF DeepCopy
<1>3. ASSUME NEW object, NEW p \in Fields[kind], WriteThrough(object, p)
      PROVE  CopiesInv'
  BY <1>3 DEF WriteThrough
<1>4. CASE UpdateHash
  <2>1. copy' \in [Fields[kind] -> {Nil} \cup {CellOf("copy", q) : q \in Fields[kind]}]
    BY <1>4, FieldsExist DEF UpdateHash
  <2>2. copy' # None
    BY <2>1, FieldsExist DEF None
  <2>3. \A p \in Fields[kind] : copy'[p] # Nil => copy'[p] \in DOMAIN memory'
    <3> DEFINE from == <<"Spec", "ModuleContent", "Content">>
    <3> DEFINE to == <<"Status", "Content", "Content">>
    <3>1. from \in Fields[kind] /\ to \in Fields[kind]
      BY <1>4, FieldsExist DEF UpdateHash
    <3>2. copy' = [copy EXCEPT ![to] = copy[from]] /\ copy # None /\ memory' = memory
          /\ kind' = kind
      BY <1>4 DEF UpdateHash
    <3> HIDE DEF from, to
    <3>3. \A p \in Fields[kind] : copy'[p] \in {copy[p], copy[from]}
      BY <3>1, <3>2
    <3> QED BY <3>1, <3>2, <3>3
  <2> QED BY <1>4, <2>1, <2>2, <2>3 DEF UpdateHash
<1> QED BY <1>1, <1>2, <1>3, <1>4 DEF CopiesNext

\* No step shows through both objects.
LEMMA CopiesStepApart ==
    ASSUME CopiesInv, CopiesNext
    PROVE  IF copy = None
           THEN copy' # None => Seen(copy)' = Seen(original)
           ELSE UNCHANGED Seen(original) \/ UNCHANGED Seen(copy)
<1> USE DEF CopiesInv
<1>1. /\ Fields[kind] \in SUBSET Paths /\ Fields[kind] = Made[kind]
      /\ kind' = kind /\ original' = original
  BY AllMade, FieldPaths DEF CopiesNext, DeepCopy, WriteThrough, UpdateHash
<1>2. CASE DeepCopy
  <2>1. copy = None
    BY <1>2 DEF DeepCopy
  <2>2. copy' = [p \in Fields[kind] |->
                   IF original[p] # Nil THEN CellOf("copy", p) ELSE Nil]
    BY <1>1, <1>2 DEF DeepCopy
  <2> SUFFICES ASSUME NEW p \in Fields[kind]
               PROVE  (IF copy'[p] = Nil THEN "nil" ELSE memory'[copy'[p]]) =
                      (IF original[p] = Nil THEN "nil" ELSE memory[original[p]])
    BY <1>1, <2>1 DEF Seen
  <2>3. CASE original[p] = Nil
    BY <2>2, <2>3
  <2>4. CASE original[p] # Nil
    <3>1. /\ CellOf("copy", p) # Nil /\ Tail(CellOf("copy", p)) = p
          /\ CellOf("copy", p) \notin DOMAIN memory
      BY <1>1, <2>1, CellNames
    <3>2. memory'[CellOf("copy", p)] = memory[original[p]]
      <4> DEFINE new == {q \in Made[kind] : original[q] # Nil}
      <4> DEFINE c == CellOf("copy", p)
      <4>1. c \in DOMAIN memory \cup {CellOf("copy", q) : q \in new}
        BY <1>1, <2>4
      <4>2. memory' = [x \in DOMAIN memory \cup {CellOf("copy", q) : q \in new} |->
                        IF x \in DOMAIN memory THEN memory[x]
                        ELSE memory[original[Tail(x)]]]
        BY <1>2 DEF DeepCopy
      <4> HIDE DEF c, new
      <4>3. memory'[c] = IF c \in DOMAIN memory THEN memory[c]
                         ELSE memory[original[Tail(c)]]
        BY <4>1, <4>2
      <4> QED BY <3>1, <4>3 DEF c
    <3> QED BY <2>2, <2>4, <3>1, <3>2
  <2> QED BY <2>3, <2>4
<1>3. ASSUME NEW p \in Fields[kind], WriteThrough(original, p)
      PROVE  copy # None => UNCHANGED Seen(copy)
  <2> SUFFICES ASSUME copy # None, NEW q \in Fields[kind], copy[q] # Nil
               PROVE  memory'[copy[q]] = memory[copy[q]]
    BY <1>1, <1>3 DEF Seen, WriteThrough
  <2>1. original[p] = CellOf("original", p)
    BY <1>3 DEF WriteThrough
  <2>2. copy[q] # original[p]
    BY <1>1, <2>1, CellNames
  <2> QED BY <1>3, <2>2 DEF WriteThrough
<1>4. ASSUME NEW p \in Fields[kind], WriteThrough(copy, p)
      PROVE  UNCHANGED Seen(original)
  <2> SUFFICES ASSUME NEW q \in Fields[kind], original[q] # Nil
               PROVE  memory'[original[q]] = memory[original[q]]
    BY <1>1 DEF Seen
  <2>1. copy # None /\ copy[p] # Nil
    BY <1>4 DEF WriteThrough
  <2>2. copy[p] # original[q]
    BY <1>1, <2>1, CellNames
  <2> QED BY <1>4, <2>2 DEF WriteThrough
<1>5. CASE UpdateHash
  BY <1>1, <1>5 DEF UpdateHash, Seen
<1>6. ASSUME NEW p \in Fields[kind], WriteThrough(original, p) \/ WriteThrough(copy, p)
      PROVE  copy' = copy
  BY <1>6 DEF WriteThrough
<1> QED BY <1>2, <1>3, <1>4, <1>5, <1>6 DEF CopiesNext, DeepCopy, UpdateHash

\* The copy starts as what was seen in the original, and then, for any number
\* of writes, no write through one of the two shows in the other.
THEOREM CopiesStayApart == CopiesSpec => CopiesApart
<1>1. CopiesInv /\ [CopiesNext]_copyVars =>
      [IF copy = None
       THEN copy' # None => Seen(copy)' = Seen(original)
       ELSE \/ UNCHANGED Seen(original)
            \/ UNCHANGED Seen(copy)]_copyVars
  BY CopiesStepApart
<1> QED BY <1>1, CopiesInitially, CopiesStepInv, PTL DEF CopiesSpec, CopiesApart

=============================================================================
