------------------------------ MODULE Workspace ------------------------------
(***************************************************************************)
(* Git and files: how the Module handler asks a repository for its commit  *)
(* (getAuth, git.GetCommit) and how an executor pod fills the directory    *)
(* Terraform runs in (run() of pkg/executor up to TerraformInit), both     *)
(* with the credentials of a secret (pkg/git/auth.go), which need a        *)
(* temporary file if they are an SSH key.                                  *)
(*                                                                         *)
(* External: the git binary and the file system, each call of which may    *)
(* fail.                                                                   *)
(***************************************************************************)
EXTENDS Integers

CONSTANTS MaxFaults   \* calls that fail

VARIABLES
    caller,    \* who runs: the Module handler or an executor
    url,       \* the kind of spec.git.url
    secret,    \* the data of the git secret
    brought,   \* files of the repository with names run() uses itself
    pc,        \* where the caller stands
    auth,      \* git.Auth: which credentials were taken from the secret
    userInUrl, \* Populate has put user and password into the URL
    keyFile,   \* the temporary file of the SSH key
    closer,    \* what Populate's close() does, or that it failed
    env,       \* GIT_SSH_COMMAND: unset, without or with the key file
    dir,       \* whose files are in the directory
    err,       \* the call in progress will return an error
    faults     \* calls that failed

vars == <<caller, url, secret, brought, pc, auth, userInUrl, keyFile, closer,
          env, dir, err, faults>>

asked == <<caller, url, secret, brought>>

-----------------------------------------------------------------------------
(* Data *)

SecretKeys == {"username", "password", "ssh-privatekey"}

\* No secret is named, or each of the keys is absent, empty or set.
NoSecret == [k \in SecretKeys |-> "unnamed"]

Secrets == [SecretKeys -> {"absent", "empty", "set"}] \cup {NoSecret}

NoAuth == [username |-> FALSE, password |-> FALSE, key |-> FALSE]

\* An inline Module has no URL; run() clones all the same.
Urls == {"none", "http", "ssh"}

Files == {"config.tf.json", "auto.tfvars.json"}

Steps == {"secret", "basic", "key", "writeKey", "closeKey", "environment",
          "ls-remote", "clone", "checkout", "close", "config.tf.json",
          "auto.tfvars.json", "init", "returned", "failed"}

Init ==
    /\ caller \in {"handler", "executor"}
    /\ url \in Urls
    /\ secret \in Secrets
    /\ brought \in SUBSET Files
    /\ caller = "handler" => url # "none" /\ brought = {}
    /\ pc = "secret"
    /\ auth = NoAuth
    /\ userInUrl = FALSE
    /\ keyFile = "none"
    /\ closer = "noop"
    /\ env = "unset"
    /\ dir = [f \in Files \cup {"module"} |-> "none"]
    /\ err = FALSE
    /\ faults = 0

Fault ==
    /\ faults < MaxFaults
    /\ faults' = faults + 1

-----------------------------------------------------------------------------
(* The secret *)

Present(k) == secret[k] \in {"empty", "set"}

\* Mutant of HasBasic: either of the two is enough.
HasEither == Present("username") \/ Present("password")

\* A user and a password make the SSH key irrelevant: it is not read then.
HasBasic == Present("username") /\ Present("password")

\* getAuth and Populate read the secret, Populate also the Execution and the
\* Secret with its variables. FromSecret wants a user and a password or a
\* key, and keeps a user or a password that came alone.
FromSecret ==
    /\ pc = "secret"
    /\ \/ /\ secret = NoSecret
          /\ pc' = "basic"
          /\ UNCHANGED <<auth, faults>>
       \/ /\ secret # NoSecret
          /\ auth' = [username |-> secret["username"] = "set",
                      password |-> secret["password"] = "set",
                      key |-> ~HasBasic /\ secret["ssh-privatekey"] = "set"]
          /\ pc' = IF HasBasic \/ Present("ssh-privatekey") THEN "basic" ELSE "failed"
          /\ UNCHANGED faults
       \/ /\ secret # NoSecret \/ caller = "executor"
          /\ Fault
          /\ pc' = "failed"
          /\ UNCHANGED auth
    /\ UNCHANGED <<asked, userInUrl, keyFile, closer, env, dir, err>>

-----------------------------------------------------------------------------
(* Auth.Populate *)

PopulateBasic ==
    /\ pc = "basic"
    /\ userInUrl' = (url = "http" /\ (auth.username \/ auth.password))
    /\ pc' = IF auth.key THEN "key" ELSE "environment"
    /\ UNCHANGED <<asked, auth, keyFile, closer, env, dir, err, faults>>

TempFile ==
    /\ pc = "key"
    /\ \/ keyFile' = "empty" /\ closer' = "remove" /\ pc' = "writeKey" /\ UNCHANGED faults
       \/ Fault /\ pc' = "environment" /\ UNCHANGED <<keyFile, closer>>
    /\ UNCHANGED <<asked, auth, userInUrl, env, dir, err>>

\* Mutant of WriteKey: the error is dropped.
WriteKeyUnchecked ==
    /\ pc = "writeKey"
    /\ \/ keyFile' = "whole" /\ UNCHANGED faults
       \/ Fault /\ keyFile' = "part"
    /\ pc' = "closeKey"
    /\ UNCHANGED <<asked, auth, userInUrl, closer, env, dir, err>>

\* Mutant of WriteKey: after an error there is nothing to close.
WriteKeyLeft ==
    /\ pc = "writeKey"
    /\ \/ keyFile' = "whole" /\ pc' = "closeKey" /\ UNCHANGED <<closer, faults>>
       \/ Fault /\ keyFile' = "part" /\ closer' = "noop" /\ pc' = "environment"
    /\ UNCHANGED <<asked, auth, userInUrl, env, dir, err>>

WriteKey ==
    /\ pc = "writeKey"
    /\ \/ keyFile' = "whole" /\ pc' = "closeKey" /\ UNCHANGED faults
       \/ Fault /\ keyFile' = "part" /\ pc' = "environment"
    /\ UNCHANGED <<asked, auth, userInUrl, closer, env, dir, err>>

CloseKey ==
    /\ pc = "closeKey"
    /\ \/ env' = "key" /\ UNCHANGED faults
       \/ Fault /\ UNCHANGED env
    /\ pc' = "environment"
    /\ UNCHANGED <<asked, auth, userInUrl, keyFile, closer, dir, err>>

Environment ==
    /\ pc = "environment"
    /\ env' = IF env = "unset" THEN "plain" ELSE env
    /\ pc' = IF caller = "handler" THEN "ls-remote" ELSE "clone"
    /\ UNCHANGED <<asked, auth, userInUrl, keyFile, closer, dir, err, faults>>

-----------------------------------------------------------------------------
(* GetCommit and CloneRepo *)

Commands == {"ls-remote", "clone", "checkout"}

\* Of the files of the repository the ones run() wants to write matter.
CheckedOut == [f \in Files \cup {"module"} |->
                 IF f \in brought \cup {"module"} THEN "repository" ELSE dir[f]]

Command ==
    /\ pc \in Commands
    /\ \/ /\ url # "none"
          /\ pc' = IF pc = "clone" THEN "checkout" ELSE "close"
          /\ dir' = IF pc = "checkout" THEN CheckedOut ELSE dir
          /\ UNCHANGED <<err, faults>>
       \/ /\ \/ url = "none" /\ UNCHANGED faults
             \/ Fault
          /\ pc' = "close" /\ err' = TRUE
          /\ UNCHANGED dir
    /\ UNCHANGED <<asked, auth, userInUrl, keyFile, closer, env>>

\* The deferred close() drops the error of os.Remove.
Close ==
    /\ pc = "close"
    /\ \/ closer = "noop" /\ UNCHANGED <<keyFile, closer, faults>>
       \/ closer = "remove" /\ keyFile' = "none" /\ UNCHANGED <<closer, faults>>
       \/ closer = "remove" /\ Fault /\ closer' = "failed" /\ UNCHANGED keyFile
    /\ pc' = IF err THEN "failed"
             ELSE IF caller = "handler" THEN "returned" ELSE "config.tf.json"
    /\ UNCHANGED <<asked, auth, userInUrl, env, dir, err>>

-----------------------------------------------------------------------------
(* WriteConfigFile and WriteVarFile *)

\* Mutant of Write: a file that exists already will do.
WriteKeeping(f, next) ==
    /\ pc = f
    /\ dir' = IF dir[f] = "none" THEN [dir EXCEPT ![f] = "run"] ELSE dir
    /\ pc' = next
    /\ UNCHANGED <<asked, auth, userInUrl, keyFile, closer, env, err, faults>>

\* writer.Write creates the file, and fails if it exists (O_EXCL).
Write(f, next) ==
    /\ pc = f
    /\ \/ /\ dir[f] = "none"
          /\ dir' = [dir EXCEPT ![f] = "run"]
          /\ pc' = next
          /\ UNCHANGED faults
       \/ /\ \/ dir[f] # "none" /\ UNCHANGED faults
             \/ Fault
          /\ pc' = "failed"
          /\ UNCHANGED dir
    /\ UNCHANGED <<asked, auth, userInUrl, keyFile, closer, env, err>>

WriteConfigFile == Write("config.tf.json", "auto.tfvars.json")

WriteVarFile == Write("auto.tfvars.json", "init")

-----------------------------------------------------------------------------
(* Specification *)

Next ==
    \/ FromSecret
    \/ PopulateBasic \/ TempFile \/ WriteKey \/ CloseKey \/ Environment
    \/ Command \/ Close
    \/ WriteConfigFile \/ WriteVarFile

Spec == Init /\ [][Next]_vars

-----------------------------------------------------------------------------
(* Properties *)

\* Whatever fails before, also while the key is written, close() tries to
\* remove its file: once the call that wrote it has returned, the private key
\* is on the disk only if that very removal failed.
KeyFileRemoved ==
    pc \in Files \cup {"init", "returned", "failed"} =>
        keyFile = "none" \/ closer = "failed"

\* A git command never runs with half a key, and never asks: GIT_SSH_COMMAND
\* is always set, and if it names the key file, the file is whole.
CommandsReady ==
    pc \in Commands => /\ env # "unset"
                       /\ env = "key" => keyFile = "whole"

\* A git command gets the credentials its URL needs, if the secret has them:
\* user and password only over HTTP, the key unless the file system fails or
\* the secret has a user and a password as well.
CredentialsOffered ==
    pc \in Commands =>
        /\ userInUrl <=> /\ url = "http"
                         /\ "set" \in {secret["username"], secret["password"]}
        /\ /\ secret["ssh-privatekey"] = "set"
           /\ "absent" \in {secret["username"], secret["password"]}
           /\ faults = 0
           => env = "key"

\* Terraform starts with the module checked out and with this run's
\* config.tf.json and auto.tfvars.json, never with files of these two names
\* that a repository brings along. (Nothing keeps it from bringing others,
\* such as another *.auto.tfvars file.)
TerraformSeesRun ==
    pc = "init" => /\ dir["module"] = "repository"
                   /\ \A f \in Files : dir[f] = "run"

=============================================================================
