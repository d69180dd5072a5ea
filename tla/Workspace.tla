------------------------------ MODULE Workspace ------------------------------
(***************************************************************************)
(* The shared code workspaces (service/workspace/workspace.go).  A run     *)
(* that loads the code of a service takes part in the workspace of that    *)
(* service at one commit: a worktree and a repo MCP server, shared by all  *)
(* runs that load the same commit, with one copy of the server's tools per *)
(* app.  Runs are counted per app; the last one out takes it down.         *)
(*                                                                         *)
(* The runs are concurrent; the tools of one run are called one after the  *)
(* other, and its release comes after its last tool.  A step is one        *)
(* critical section, of the manager's mutex or of the lock of a key, or    *)
(* one call to the tool registry, which holds neither.                     *)
(***************************************************************************)
EXTENDS Integers, FiniteSets

CONSTANTS
    Runs, Apps,
    AppOf,          \* the app of a run
    Keys,           \* pairs of a service and a commit
    ServiceOf,      \* the service of a key
    NoKey,          \* the key of an entry not yet allocated
    MaxEntry,       \* bound: wsEntry objects ever allocated
    MaxFaults       \* bound: cold starts that fail

ASSUME Assumptions ==
    /\ IsFiniteSet(Runs)
    /\ AppOf \in [Runs -> Apps]
    /\ NoKey \notin Keys
    /\ MaxEntry \in Nat \ {0}
    /\ MaxFaults \in Nat

EntryId == 1..MaxEntry
None    == 0

VARIABLES
    index,      \* m.entries: the entry of each key, None if there is none
    key,        \* the key of each entry object
    started,    \* the entries whose started flag is set
    holders,    \* e.holders: per entry and app, the number of runs
    refs,       \* m.runRefs: the entries a run refers to
    pc,         \* progress of each run
    loading,    \* the entry a Load of the run works on
    cleanups,   \* tool copies a ReleaseRun still has to remove
    teardowns,  \* entries a ReleaseRun still has to take down
    worktree,   \* keys whose worktree exists
    server,     \* keys whose MCP server runs
    tools,      \* registered tool copies, per key and app
    faults      \* cold starts that failed so far

diskVars == <<worktree, server>>
vars == <<index, key, started, holders, refs, pc, loading, cleanups, teardowns,
          worktree, server, tools, faults>>

(* working: between two tool calls; start, sync, undo: inside a Load;      *)
(* leaving: inside ReleaseRun; over: after it.                             *)
Pc == {"working", "start", "sync", "undo", "leaving", "over"}

Init ==
    /\ index = [k \in Keys |-> None]
    /\ key = [e \in EntryId |-> NoKey]
    /\ started = {}
    /\ holders = [e \in EntryId |-> [a \in Apps |-> 0]]
    /\ refs = [r \in Runs |-> {}]
    /\ pc = [r \in Runs |-> "working"]
    /\ loading = [r \in Runs |-> None]
    /\ cleanups = [r \in Runs |-> {}]
    /\ teardowns = [r \in Runs |-> {}]
    /\ worktree = {} /\ server = {} /\ tools = {}
    /\ faults = 0

Goto(r, next) == pc' = [pc EXCEPT ![r] = next]

-----------------------------------------------------------------------------
(* holders *)

Join(h, e, a)  == [h EXCEPT ![e][a] = @ + 1]
(* Mutant: the count goes below what the map holds. *)
LeaveBelow(h, e, a) == [h EXCEPT ![e][a] = @ - 2]
(* Mutant: an app leaves with its first run. *)
LeaveWhole(h, e, a) == [h EXCEPT ![e][a] = 0]
Leave(h, e, a) == [h EXCEPT ![e][a] = @ - 1]

(* len(e.holders) == 0: an app whose count is 0 is not in the map.         *)
Unheld(h, e)   == \A a \in Apps : h[e][a] = 0

(* Mutant: the entry leaves the index whoever else holds it. *)
WithoutAlways(S) == [k \in Keys |-> IF \E e \in S : key[e] = k THEN None ELSE index[k]]
(* The index without the keys of the entries of S that nobody holds.       *)
Without(S) == [k \in Keys |->
    IF \E e \in S : key[e] = k /\ Unheld(holders', e) THEN None ELSE index[k]]

-----------------------------------------------------------------------------
(* Load *)

IsFresh(e) == key[e] = NoKey /\ \A d \in EntryId : d < e => key[d] # NoKey

(* The registration.  The run does not refer to the service yet (otherwise *)
(* Load returns what it has); k is what the service resolves to now.       *)
Load(r, k) ==
    /\ pc[r] = "working"
    /\ \A e \in refs[r] : ServiceOf[key[e]] # ServiceOf[k]
    /\ \E e \in EntryId :
          /\ IF index[k] # None THEN e = index[k] /\ UNCHANGED <<index, key>>
             ELSE /\ IsFresh(e)
                  /\ key' = [key EXCEPT ![e] = k]
                  /\ index' = [index EXCEPT ![k] = e]
          /\ holders' = Join(holders, e, AppOf[r])
          /\ refs' = [refs EXCEPT ![r] = @ \cup {e}]
          /\ loading' = [loading EXCEPT ![r] = e]
    /\ Goto(r, "start")
    /\ UNCHANGED <<started, cleanups, teardowns, diskVars, tools, faults>>

(* Mutant: an instance in the index is taken to be started. *)
AlreadyThere(r) ==
    /\ pc[r] = "start" /\ \E q \in Runs \ {r} : loading[r] \in refs[q]
    /\ Goto(r, "sync")
    /\ UNCHANGED <<index, key, started, holders, refs, loading, cleanups, teardowns,
                   diskVars, tools, faults>>

(* ensureStarted, under the lock of the key: nothing to do, ...            *)
AlreadyStarted(r) ==
    /\ pc[r] = "start" /\ loading[r] \in started
    /\ Goto(r, "sync")
    /\ UNCHANGED <<index, key, started, holders, refs, loading, cleanups, teardowns,
                   diskVars, tools, faults>>

(* ... or the worktree is made (again) and the server started (again), ... *)
ColdStart(r) ==
    LET e == loading[r] IN
    /\ pc[r] = "start" /\ e \notin started
    /\ worktree' = worktree \cup {key[e]}
    /\ server' = server \cup {key[e]}
    /\ started' = started \cup {e}
    /\ Goto(r, "sync")
    /\ UNCHANGED <<index, key, holders, refs, loading, cleanups, teardowns, tools, faults>>

(* ... or one of the two fails: either way there is no worktree, and the   *)
(* registered server of that name, if any, is left alone.                  *)
StartFails(r) ==
    LET e == loading[r] IN
    /\ pc[r] = "start" /\ e \notin started
    /\ faults < MaxFaults
    /\ faults' = faults + 1
    /\ worktree' = worktree \ {key[e]}
    /\ Goto(r, "undo")
    /\ UNCHANGED <<index, key, started, holders, refs, loading, cleanups, teardowns,
                   server, tools>>

(* rollbackRegistration *)
Undo(r) ==
    LET e == loading[r] IN
    /\ pc[r] = "undo"
    /\ refs' = [refs EXCEPT ![r] = @ \ {e}]
    /\ holders' = Leave(holders, e, AppOf[r])
    /\ index' = Without({e})
    /\ loading' = [loading EXCEPT ![r] = None]
    /\ Goto(r, "working")
    /\ UNCHANGED <<key, started, cleanups, teardowns, diskVars, tools, faults>>

(* syncAppTools: an error (no server of that name) is only logged.         *)
Sync(r) ==
    LET k == key[loading[r]] IN
    /\ pc[r] = "sync"
    /\ tools' = IF k \in server THEN tools \cup {<<k, AppOf[r]>>} ELSE tools
    /\ loading' = [loading EXCEPT ![r] = None]
    /\ Goto(r, "working")
    /\ UNCHANGED <<index, key, started, holders, refs, cleanups, teardowns, diskVars, faults>>

-----------------------------------------------------------------------------
(* ReleaseRun *)

LeaveAll(r) == [e \in EntryId |-> IF e \in refs[r] THEN Leave(holders, e, AppOf[r])[e] ELSE holders[e]]

(* Mutant: the copies go only with the workspace. *)
CleanupsOfRetired(r, h) == {<<key[e], AppOf[r]>> : e \in {d \in refs[r] : Unheld(h, d)}}
(* The tool copies of an app without runs; the entries without holders.    *)
Cleanups(r, h)  == {<<key[e], AppOf[r]>> : e \in {d \in refs[r] : h[d][AppOf[r]] = 0}}
Teardowns(r, h) == {e \in refs[r] : Unheld(h, e) /\ index[key[e]] # None}

(* The references are dropped under the mutex. *)
Release(r) ==
    /\ pc[r] = "working"
    /\ holders' = LeaveAll(r)
    /\ refs' = [refs EXCEPT ![r] = {}]
    /\ cleanups' = [cleanups EXCEPT ![r] = Cleanups(r, holders')]
    /\ teardowns' = [teardowns EXCEPT ![r] = Teardowns(r, holders')]
    /\ index' = Without(refs[r])
    /\ Goto(r, "leaving")
    /\ UNCHANGED <<key, started, loading, diskVars, tools, faults>>

(* removeAppTools, after the mutex. *)
Clean(r, c) ==
    /\ pc[r] = "leaving" /\ c \in cleanups[r]
    /\ tools' = tools \ {c}
    /\ cleanups' = [cleanups EXCEPT ![r] = @ \ {c}]
    /\ UNCHANGED <<index, key, started, holders, refs, pc, loading, teardowns, diskVars, faults>>

(* teardown, under the lock of the key: by name of the server and path of  *)
(* the worktree.                                                           *)
TearDown(r, e) ==
    /\ pc[r] = "leaving" /\ cleanups[r] = {} /\ e \in teardowns[r]
    /\ server' = server \ {key[e]}
    /\ worktree' = worktree \ {key[e]}
    /\ teardowns' = [teardowns EXCEPT ![r] = @ \ {e}]
    /\ UNCHANGED <<index, key, started, holders, refs, pc, loading, cleanups, tools, faults>>

Released(r) ==
    /\ pc[r] = "leaving" /\ cleanups[r] = {} /\ teardowns[r] = {}
    /\ Goto(r, "over")
    /\ UNCHANGED <<index, key, started, holders, refs, loading, cleanups, teardowns,
                   diskVars, tools, faults>>

-----------------------------------------------------------------------------
Start(r) == AlreadyStarted(r) \/ ColdStart(r) \/ StartFails(r)

Next == \E r \in Runs :
    \/ \E k \in Keys : Load(r, k)
    \/ Start(r) \/ Undo(r) \/ Sync(r)
    \/ Release(r)
    \/ \E c \in cleanups[r] : Clean(r, c)
    \/ \E e \in teardowns[r] : TearDown(r, e)
    \/ Released(r)

Spec == Init /\ [][Next]_vars

-----------------------------------------------------------------------------
(* Every variable keeps its type; no count is negative.                    *)
TypeOK ==
    /\ index \in [Keys -> EntryId \cup {None}]
    /\ key \in [EntryId -> Keys \cup {NoKey}]
    /\ started \subseteq EntryId
    /\ holders \in [EntryId -> [Apps -> Nat]]
    /\ refs \in [Runs -> SUBSET EntryId]
    /\ pc \in [Runs -> Pc]
    /\ loading \in [Runs -> EntryId \cup {None}]
    /\ cleanups \in [Runs -> SUBSET (Keys \X Apps)]
    /\ teardowns \in [Runs -> SUBSET EntryId]
    /\ worktree \subseteq Keys /\ server \subseteq Keys
    /\ tools \subseteq Keys \X Apps
    /\ faults \in 0..MaxFaults

(* The counts are right: what an entry counts for an app is the number of  *)
(* that app's runs that refer to it, through releases, failed starts and   *)
(* their rollbacks.                                                        *)
CountsRight ==
    \A e \in EntryId, a \in Apps :
        holders[e][a] = Cardinality({r \in Runs : e \in refs[r] /\ AppOf[r] = a})

(* What a run refers to is what the next Load of the key will share: two   *)
(* runs never hold different instances of one workspace, and an instance   *)
(* that was retired (and will be torn down) is held by nobody.             *)
HeldIsIndexed ==
    \A r \in Runs : \A e \in refs[r] : key[e] # NoKey /\ index[key[e]] = e

(* A Load that returned is a Load of an instance that was started.         *)
Loaded(r) == refs[r] \ {loading[r]}
LoadedIsStarted == \A r \in Runs : Loaded(r) \subseteq started

(* When every run is over nothing is left behind: no worktree, no server,  *)
(* no copy of a tool (as long as no start failed: after a failed start a   *)
(* rollback may retire an instance that another run started meanwhile).    *)
NothingLeft ==
    (faults = 0 /\ \A r \in Runs : pc[r] = "over") =>
        worktree = {} /\ server = {} /\ tools = {}

-----------------------------------------------------------------------------
(* A statement of the comments that the code does not keep.                *)

(* The recovery of an old instance and the start of a new one on the same  *)
(* path cannot cross: what a run has loaded stays mounted while it works.  *)
StaysMounted ==
    \A r \in Runs : pc[r] = "working" =>
        \A e \in refs[r] : key[e] \in worktree /\ key[e] \in server
=============================================================================
