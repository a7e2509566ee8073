-------------------------------- MODULE Inputs --------------------------------
(***************************************************************************)
(* What a run is made from (pkg/terraform/state: combineVars, getEnvVars,  *)
(* createEnvForJob; pkg/digest: SHA256Map): the config maps and secrets a  *)
(* State names are merged into its Terraform variables, these are digested *)
(* for the run hash, and others become the environment of the executor.    *)
(*                                                                         *)
(* Go visits a map's keys in any order, so each key is a step; SHA-256 is  *)
(* taken as collision free: a digest is the text that was written to it.   *)
(* Text is a sequence of numbers, compared as strings are.                 *)
(***************************************************************************)
EXTENDS Integers, SequencesExt

CONSTANTS
    Keys,       \* keys of the variables, not empty
    Values,     \* their values
    EnvNames,   \* names of environment variables
    OwnEnv,     \* those of createEnvForJob among them
    MaxConfigs, \* config maps in spec.variables.configNames
    MaxSecrets  \* secrets in spec.variables.secretNames

ASSUME InputsConstants ==
    /\ Keys \subseteq Seq(Nat) \ {<<>>} /\ IsFiniteSet(Keys)
    /\ Values \subseteq Seq(Nat)
    /\ IsFiniteSet(OwnEnv)
    /\ MaxConfigs \in Nat /\ MaxSecrets \in Nat

VARIABLES
    configs,    \* input.Configs: the data of each config map
    secrets,    \* input.Secrets: the data of each secret
    envs,       \* the data of the secret and of the config map for the environment
    step,       \* where the handler stands
    source,     \* the source that is being copied, 0 before the first
    todo,       \* keys of the map in hand that are not visited yet
    combined,   \* combineVars' result
    keys,       \* SHA256Map's keys
    digest,     \* its result
    envVars     \* input.EnvVars: names and where the values are from

inputVars == <<configs, secrets, envs, step, source, todo, combined, keys,
               digest, envVars>>

-----------------------------------------------------------------------------
(* Maps and text *)

Maps(K, V) == UNION {[D -> V] : D \in SUBSET K}

NoMap == [k \in {} |-> <<>>]

\* A value is marked with where it is from, so that a reader can tell.
EnvSources == {"secret", "config"}

InputsInit ==
    /\ configs \in [1..MaxConfigs -> Maps(Keys, Values)]
    /\ secrets \in [1..MaxSecrets -> Maps(Keys, Values)]
    /\ envs \in [EnvSources -> SUBSET EnvNames]
    /\ step = "combine"
    /\ source = 0
    /\ todo = {}
    /\ combined = NoMap
    /\ keys = <<>>
    /\ digest = <<>>
    /\ envVars = <<>>

\* s comes before t in Go's order of strings.
Before(s, t) ==
    \/ IsStrictPrefix(s, t)
    \/ \E i \in 1..Len(s) : /\ i <= Len(t)
                            /\ SubSeq(s, 1, i - 1) = SubSeq(t, 1, i - 1)
                            /\ s[i] < t[i]

-----------------------------------------------------------------------------
(* combineVars *)

\* Mutant of Sources: the secrets come first.
SourcesSecretsFirst == secrets \o configs

\* The maps in the order they are copied
Sources == configs \o secrets

NextSource ==
    /\ step = "combine" /\ todo = {}
    /\ source' = source + 1
    /\ IF source < Len(Sources)
       THEN todo' = DOMAIN Sources[source + 1] /\ UNCHANGED step
       ELSE todo' = DOMAIN combined /\ step' = "digest"
    /\ UNCHANGED <<configs, secrets, envs, combined, keys, digest, envVars>>

CopyVariable(k) ==
    /\ step = "combine" /\ k \in todo
    /\ combined' = [x \in DOMAIN combined \cup {k} |->
                  IF x = k THEN Sources[source][k] ELSE combined[x]]
    /\ todo' = todo \ {k}
    /\ UNCHANGED <<configs, secrets, envs, step, source, keys, digest, envVars>>

-----------------------------------------------------------------------------
(* SHA256Map *)

CollectKey(k) ==
    /\ step = "digest" /\ k \in todo
    /\ keys' = Append(keys, k)
    /\ todo' = todo \ {k}
    /\ UNCHANGED <<configs, secrets, envs, step, source, combined, digest, envVars>>

\* sort.Strings, for keys that are all different
Sorted(ks) ==
    CHOOSE sorted \in [DOMAIN ks -> Range(ks)] :
        \A i, j \in DOMAIN ks : i < j => Before(sorted[i], sorted[j])

\* Each key and its value, without separators
Joined(ks, m) == FlattenSeq([i \in DOMAIN ks |-> ks[i] \o m[ks[i]]])

\* Mutant of Written: the keys are left in the order they were met.
WrittenUnsorted(ks, m) == Joined(ks, m)

\* Mutant of Written: only the values are written.
WrittenValues(ks, m) == FlattenSeq([i \in DOMAIN ks |-> m[Sorted(ks)[i]]])

\* What is written to the hash
Written(ks, m) == Joined(Sorted(ks), m)

\* The digest of an empty map is "", which no other map's is.
Digest ==
    /\ step = "digest" /\ todo = {}
    /\ digest' = Written(keys, combined)
    /\ step' = "envSecret"
    /\ todo' = envs["secret"]
    /\ UNCHANGED <<configs, secrets, envs, source, combined, keys, envVars>>

-----------------------------------------------------------------------------
(* getEnvVars and createEnvForJob *)

EnvSource == IF step = "envSecret" THEN "secret" ELSE "config"

AddEnv(n) ==
    /\ step \in {"envSecret", "envConfig"} /\ n \in todo
    /\ envVars' = Append(envVars, [name |-> n, from |-> EnvSource])
    /\ todo' = todo \ {n}
    /\ UNCHANGED <<configs, secrets, envs, step, source, combined, keys, digest>>

NextEnvSource ==
    /\ step = "envSecret" /\ todo = {}
    /\ step' = "envConfig"
    /\ todo' = envs["config"]
    /\ UNCHANGED <<configs, secrets, envs, source, combined, keys, digest, envVars>>

Own == [n \in OwnEnv |-> [name |-> n, from |-> "handler"]]

\* Mutant of EnvForJob: the handler's variables come first.
EnvForJobFirst(es) == SetToSeq({Own[n] : n \in OwnEnv}) \o es

\* The handler's own variables are appended to those of the user.
EnvForJob(es) == es \o SetToSeq({Own[n] : n \in OwnEnv})

CreateEnvForJob ==
    /\ step = "envConfig" /\ todo = {}
    /\ envVars' = EnvForJob(envVars)
    /\ step' = "done"
    /\ UNCHANGED <<configs, secrets, envs, source, todo, combined, keys, digest>>

-----------------------------------------------------------------------------
(* Specification *)

InputsNext ==
    \/ NextSource \/ \E k \in todo : CopyVariable(k)
    \/ \E k \in todo : CollectKey(k)
    \/ Digest
    \/ \E n \in todo : AddEnv(n)
    \/ NextEnvSource \/ CreateEnvForJob

InputsSpec == InputsInit /\ [][InputsNext]_inputVars

-----------------------------------------------------------------------------
(* Properties *)

Has(maps, k) == {i \in DOMAIN maps : k \in DOMAIN maps[i]}

\* The value that the last of the maps with key k has for it
LastValue(maps, k) == maps[CHOOSE i \in Has(maps, k) :
                             \A j \in Has(maps, k) : j <= i][k]

\* The Terraform variables are those of the secrets, and of the config maps
\* where no secret has the key; of two of a kind the one named later wins. The
\* order in which Go visits the maps makes no difference.
SecretsPrevail ==
    step = "done" =>
        /\ DOMAIN combined = {k \in Keys : Has(configs, k) # {} \/ Has(secrets, k) # {}}
        /\ \A k \in DOMAIN combined :
              combined[k] = IF Has(secrets, k) # {} THEN LastValue(secrets, k)
                                                ELSE LastValue(configs, k)

\* The text for a map whose keys are listed in some fixed order
Text(m) == Written(SetToSeq(DOMAIN m), m)

\* The maps one edit away from m: a value changed, a key added or removed
Edits(m) ==
    {[m EXCEPT ![k] = v] : k \in DOMAIN m, v \in Values} \cup
    {[x \in DOMAIN m \cup {k} |-> IF x = k THEN v ELSE m[x]] :
        k \in Keys \ DOMAIN m, v \in Values} \cup
    {[x \in DOMAIN m \ {k} |-> m[x]] : k \in DOMAIN m}

\* Two syncs of the same variables get the same digest, although Go visits
\* the map in another order each time: no run is started for nothing.
DigestStable == step = "done" => digest = Text(combined)

\* One edit of the variables is always noticed. (Two can go unnoticed: a key
\* that loses its last letter to the front of its value.)
EditSeen == step = "done" => \A m \in Edits(combined) \ {combined} : Text(m) # digest

\* Whatever the user's secrets and config maps say, the executor's own
\* variables (what to do, for which Execution) are the handler's: of two
\* entries with one name a container gets the later one.
OwnEnvPrevails ==
    step = "done" =>
        \A n \in OwnEnv :
            LET at == {i \in DOMAIN envVars : envVars[i].name = n}
            IN  /\ at # {}
                /\ envVars[CHOOSE i \in at : \A j \in at : j <= i].from = "handler"

=============================================================================
