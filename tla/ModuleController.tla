-------------------------- MODULE ModuleController --------------------------
(***************************************************************************)
(* The controller of one Module (pkg/terraform/module): it polls the git   *)
(* server for the commit of the branch or tag the Module names, copies     *)
(* what the Module says into its status and hashes it. The State           *)
(* controller deploys status.content whenever status.contentHash changes.  *)
(*                                                                         *)
(* The handler changes the informer's own object before it updates, and    *)
(* every sync ends in an Update, also one that found nothing to do. Time   *)
(* is abstracted to whether the last check is older than the polling       *)
(* interval. Deletion, for which the handler does nothing, is left out.     *)
(***************************************************************************)
EXTENDS Integers

CONSTANTS
    Inlines,   \* values of spec.content
    Urls,      \* git repositories
    Branches,  \* branches a Module may name
    Tags,      \* tags a Module may name
    None,      \* no content, repository or commit; also the default branch
    Specs,     \* what users write into a Module
    MaxEvents  \* edits, pushes, faults, restarts and early timers

Refs == Branches \cup Tags \cup {None}

\* The n-th commit of a branch or tag
Commits == [url : Urls, ref : Refs, n : Nat]

\* spec and status.content: the inline code, or a place in git
Contents ==
    [inline : Inlines \cup {None}, url : Urls \cup {None}, ref : Refs,
     commit : Commits \cup {None}]

\* A user who names a commit names one of the repository.
ASSUME ConstantsOK ==
    /\ None \notin Inlines \cup Urls \cup Branches \cup Tags \cup Commits
    /\ Specs \subseteq Contents
    /\ \A s \in Specs : s.commit # None => s.commit.url = s.url
    /\ MaxEvents \in Nat

VARIABLES
    md,       \* the Module in the API server
    remote,   \* the git server: how many commits each branch and tag has seen
    cache,    \* the Module in the informer's cache
    event,    \* a change of md is on its way to the cache, which is behind
    queue,    \* the key is in the work queue
    timer,    \* EnqueueAfter will add it: "on", or "early" if a check came after
    pc,       \* where the sync stands
    obj,      \* the handler's module
    current,  \* obj has the resourceVersion of md
    shared,   \* obj still is the object in the cache
    budget    \* the events that may still happen

vars == <<md, remote, cache, event, queue, timer, pc, obj, current, shared, budget>>

-----------------------------------------------------------------------------
(* Objects *)

\* checked is status.gitChecked; age is that of status.time; forced is the
\* condition GitUpdated being False; interval, that one is set in the spec;
\* hash stands for the digest of the fields it has.
Modules ==
    [spec : Specs, interval : BOOLEAN, age : {"never", "young", "old"}, forced : BOOLEAN,
     checked : [url : Urls, ref : Refs, commit : Commits] \cup {None},
     content : Contents,
     hash : [inline : Inlines \cup {None}, url : Urls \cup {None},
             commit : Commits \cup {None}]]

NoHash == [inline |-> None, url |-> None, commit |-> None]

Spend == budget > 0 /\ budget' = budget - 1

IsPolling(s) == s.inline = None /\ s.url # None /\ s.commit = None

\* gitChecked.branch: a tag is not part of it.
Branch(ref) == IF ref \in Branches THEN ref ELSE None

\* Mutant of NeedsUpdate: only time and the user's request count.
NeedsUpdateByAge(m) == m.age # "young" \/ m.forced \/ m.checked = None

\* The tag is not compared: a new one is noticed when the check is old.
NeedsUpdate(m) ==
    \/ m.age # "young"
    \/ m.forced
    \/ m.checked = None
    \/ /\ m.checked # None
       /\ \/ m.checked.url # m.spec.url
          \/ Branch(m.checked.ref) # Branch(m.spec.ref)

\* OnChange computes the hash of a Module only once a commit has been given
\* or polled; the code for a tag without a commit is never reached.
ComputeHash(m) ==
    IF m.spec.inline # None THEN [NoHash EXCEPT !.inline = m.spec.inline]
    ELSE IF m.spec.url = None THEN NoHash
    ELSE [NoHash EXCEPT
            !.url = m.spec.url,
            !.commit = IF IsPolling(m.spec) /\ m.checked # None THEN m.checked.commit
                                                               ELSE m.spec.commit]

\* A Module has been created and has reached the cache.
Init ==
    /\ \E s \in Specs, i \in BOOLEAN :
          md = [spec |-> s, interval |-> i, age |-> "never", forced |-> FALSE,
                checked |-> None, hash |-> NoHash,
                content |-> [inline |-> None, url |-> None, ref |-> None,
                             commit |-> None]]
    /\ remote = [p \in Urls \X Refs |-> 0]
    /\ cache = md
    /\ obj = md
    /\ queue = TRUE
    /\ current = TRUE
    /\ event = FALSE /\ shared = FALSE
    /\ timer = "off"
    /\ pc = "idle"
    /\ budget = MaxEvents

-----------------------------------------------------------------------------
(* The informer, the clock and the work queue *)

InformerSync ==
    /\ event
    /\ cache' = md
    /\ event' = FALSE
    /\ queue' = TRUE
    /\ shared' = FALSE
    /\ UNCHANGED <<md, remote, timer, pc, obj, current, budget>>

Idle == pc = "idle" /\ ~queue /\ ~event

\* The polling interval is longer than the controller is busy with a change,
\* but for a few times.
Later == IF Idle THEN UNCHANGED budget ELSE Spend

\* A timer that was set after the last check fires once that is old.
TimerFires ==
    /\ timer # "off"
    /\ timer = "on" => md.age # "young"
    /\ Later
    /\ timer' = "off"
    /\ queue' = TRUE
    /\ UNCHANGED <<md, remote, cache, event, pc, obj, current, shared>>

Aged(m) == [m EXCEPT !.age = IF @ = "young" THEN "old" ELSE @]

\* The interval has passed since the last check.
CheckExpires ==
    /\ "young" \in {md.age, cache.age, obj.age}
    /\ Later
    /\ md' = Aged(md)
    /\ cache' = Aged(cache)
    /\ obj' = Aged(obj)
    /\ UNCHANGED <<remote, event, queue, timer, pc, current, shared>>

-----------------------------------------------------------------------------
(* OnChange *)

\* The handler is given the cached object and sets its interval in place.
StartSync ==
    /\ pc = "idle" /\ queue
    /\ queue' = FALSE
    /\ pc' = "sync"
    /\ obj' = [cache EXCEPT !.interval = TRUE]
    /\ cache' = obj'
    /\ current' = ~event
    /\ shared' = TRUE
    /\ UNCHANGED <<md, remote, event, timer, budget>>

Write(m) == md' = m /\ event' = TRUE

\* The sync ends with an Update that writes or, when nothing has changed, does
\* not; or with an error that makes the queue retry it: a conflict, or a call
\* that failed or was not answered.
Update(m, writes) ==
    /\ pc' = "idle"
    /\ \/ /\ current
          /\ IF writes THEN Write(m) ELSE UNCHANGED <<md, event>>
          /\ UNCHANGED <<queue, budget>>
       \/ /\ ~current
          /\ queue' = TRUE
          /\ UNCHANGED <<md, event, budget>>
       \/ /\ Spend
          /\ queue' = TRUE
          /\ \/ UNCHANGED <<md, event>>
             \/ current /\ writes /\ Write(m)
    /\ UNCHANGED <<remote, cache, obj, current, shared>>

\* What updateCommit assigns
Checked(m) ==
    [m EXCEPT !.checked = [url |-> m.spec.url, ref |-> m.spec.ref,
                           commit |-> [url |-> m.spec.url, ref |-> m.spec.ref,
                                       n |-> remote[<<m.spec.url, m.spec.ref>>]]],
              !.age = "young",
              !.forced = FALSE]

\* Mutant of FetchCommit: the condition GitUpdated is not set.
FetchCommitUnmarked ==
    /\ pc = "sync" /\ IsPolling(obj.spec) /\ NeedsUpdate(obj)
    /\ pc' = "update"
    /\ obj' = [Checked(obj) EXCEPT !.forced = obj.forced]
    /\ cache' = IF shared THEN obj' ELSE cache
    /\ timer' = IF timer = "on" THEN "early" ELSE timer
    /\ UNCHANGED <<md, remote, event, queue, current, shared, budget>>

\* Mutant of FetchCommit: the error of GetCommit is dropped.
FetchCommitUnchecked ==
    /\ pc = "sync" /\ IsPolling(obj.spec) /\ NeedsUpdate(obj)
    /\ pc' = "update"
    /\ \/ obj' = Checked(obj) /\ UNCHANGED budget
       \/ obj' = [Checked(obj) EXCEPT !.checked.commit = None] /\ Spend
    /\ cache' = IF shared THEN obj' ELSE cache
    /\ timer' = IF timer = "on" THEN "early" ELSE timer
    /\ UNCHANGED <<md, remote, event, queue, current, shared>>

\* updateCommit reads the secret and asks the git server, and changes the
\* cached object, or fails.
FetchCommit ==
    /\ pc = "sync" /\ IsPolling(obj.spec) /\ NeedsUpdate(obj)
    /\ \/ /\ pc' = "update"
          /\ obj' = Checked(obj)
          /\ cache' = IF shared THEN obj' ELSE cache
          /\ timer' = IF timer = "on" THEN "early" ELSE timer
          /\ UNCHANGED <<queue, budget>>
       \/ /\ Spend
          /\ pc' = "idle"
          /\ queue' = TRUE
          /\ UNCHANGED <<obj, cache, timer>>
    /\ UNCHANGED <<md, remote, event, current, shared>>

\* The time of the check has changed, so the Module has.
UpdateCommit ==
    /\ pc = "update"
    /\ Update(obj, TRUE)
    /\ UNCHANGED timer

\* Mutant of Hashed: the commit that was polled is not copied.
HashedUnpolled(m) == [m EXCEPT !.content = m.spec, !.hash = ComputeHash(m)]

\* What updateHash assigns, to a copy
Hashed(m) ==
    [m EXCEPT !.content = IF IsPolling(m.spec) /\ m.checked # None
                          THEN [m.spec EXCEPT !.commit = m.checked.commit]
                          ELSE m.spec,
              !.hash = ComputeHash(m)]

UpdateHash ==
    /\ pc = "sync" /\ ~(IsPolling(obj.spec) /\ NeedsUpdate(obj))
    /\ obj.hash # ComputeHash(obj)
    /\ Update(Hashed(obj), TRUE)
    /\ UNCHANGED timer

\* Mutant of Wait: no EnqueueAfter
WaitForEvents ==
    /\ pc = "sync" /\ ~(IsPolling(obj.spec) /\ NeedsUpdate(obj))
    /\ obj.hash = ComputeHash(obj)
    /\ Update(obj, obj # md)
    /\ UNCHANGED timer

\* Nothing to do until the next check; the Update stores the interval. A
\* timer that is set already stays: the queue keeps the earlier time.
Wait ==
    /\ pc = "sync" /\ ~(IsPolling(obj.spec) /\ NeedsUpdate(obj))
    /\ obj.hash = ComputeHash(obj)
    /\ timer' = IF timer = "off" THEN "on" ELSE timer
    /\ Update(obj, obj # md)

-----------------------------------------------------------------------------
(* Users, the git server and restarts *)

\* Users edit the spec or, with tffy module update, ask for a check; other
\* controllers write metadata. All make the handler's copy old.
Edit ==
    /\ Spend
    /\ \/ \E s \in Specs \ {md.spec} : Write([md EXCEPT !.spec = s])
       \/ Write([md EXCEPT !.forced = TRUE])
       \/ Write(md)
    /\ current' = FALSE
    /\ UNCHANGED <<remote, cache, queue, timer, pc, obj, shared>>

Push(url, ref) ==
    /\ Spend
    /\ remote' = [remote EXCEPT ![<<url, ref>>] = @ + 1]
    /\ UNCHANGED <<md, cache, event, queue, timer, pc, obj, current, shared>>

\* The process restarts: the informer lists the Modules, and all are handled.
Crash ==
    /\ Spend
    /\ cache' = md
    /\ event' = FALSE
    /\ queue' = TRUE
    /\ timer' = "off"
    /\ pc' = "idle"
    /\ shared' = FALSE
    /\ UNCHANGED <<md, remote, obj, current>>

-----------------------------------------------------------------------------
(* Specification *)

Sync == StartSync \/ FetchCommit \/ UpdateCommit \/ UpdateHash \/ Wait

Next ==
    \/ Sync
    \/ InformerSync \/ TimerFires \/ CheckExpires
    \/ Edit \/ Crash
    \/ \E url \in Urls, ref \in Refs : Push(url, ref)

Spec == Init /\ [][Next]_vars

\* The worker goes on with a key it has, the informer delivers, timers fire and
\* time passes.
FairSpec ==
    Spec /\ WF_vars(Sync) /\ WF_vars(InformerSync) /\ WF_vars(TimerFires)
         /\ WF_vars(CheckExpires)

-----------------------------------------------------------------------------
(* Properties *)

\* Every variable stays within its type: a check that is stored has a commit.
TypeOK ==
    /\ md \in Modules /\ cache \in Modules /\ obj \in Modules
    /\ remote \in [Urls \X Refs -> Nat]
    /\ {event, queue, current, shared} \subseteq BOOLEAN
    /\ timer \in {"off", "on", "early"}
    /\ pc \in {"idle", "sync", "update"}
    /\ budget \in Nat

\* The hash that makes States deploy is the hash of the content they deploy:
\* whatever was edited or polled in between, the two never come from
\* different versions of the Module.
HashOfContent ==
    md.hash = ComputeHash([md EXCEPT !.spec = md.content, !.checked = None])

\* The commit to deploy is one of the repository to deploy, although the two
\* are read at different times and the user may have changed either.
CommitOfUrl ==
    md.content.commit # None => md.content.commit.url = md.content.url

\* Once nobody edits and pushes any more the hash is that of the latest
\* commit, or of what the Module says, also if a tag was moved or replaced.
Settles ==
    <>[](md.hash = IF IsPolling(md.spec) THEN ComputeHash(Checked(md))
                                         ELSE ComputeHash(md))

\* The Update at the end of every sync does not keep the controller busy: the
\* event it may cause ends in a sync that changes nothing.
Quiet == []<>Idle

=============================================================================
