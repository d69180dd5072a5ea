------------------------------- MODULE Bundles -------------------------------
(***************************************************************************)
(* Agent bundles: an installation writes the agents, skills and MCP        *)
(* servers of a bundle over the rows of the registries, and lists for each *)
(* one what was there before; an uninstallation rolls the list back, last  *)
(* entry first.  An installation that fails uninstalls itself, one of a    *)
(* bundle that is there already uninstalls it first.  None of it is a      *)
(* transaction: statements fail and the process stops between any two.     *)
(*                                                                         *)
(* Administrators are taken one after the other; the code has no lock.     *)
(***************************************************************************)
EXTENDS Integers

CONSTANTS
    BundleNames,
    Agents, Skills, Servers,  \* what a bundle may contain
    NoBundle,
    MaxTexts,                 \* bound: contents of rows, each number used once
    MaxServed,                  \* bound: installations and uninstallations
    MaxSetbacks                \* bound: failing statements and stops

ASSUME BundleAssumption ==
    /\ NoBundle \notin BundleNames
    /\ MaxTexts \in Nat \ {0} /\ MaxServed \in Nat /\ MaxSetbacks \in Nat

Resources == Agents \cup Skills \cup Servers
RowState == [live : BOOLEAN, text : 0..MaxTexts, readOnly : BOOLEAN]
Absent == [live |-> FALSE, text |-> 0, readOnly |-> FALSE]

VARIABLES
    registry,       \* the rows of the registries; Absent: none
    bundles,    \* the row of each bundle: "none", "installed", "deleted"
    lists,      \* the rows of tblLlmBundleResource, with PreviousStateJSON
    job,        \* the request that is served
    own,        \* ghost: what the rows would be without bundles
    spoilt,     \* ghost: setbacks the code does not make good
    texts, served, setbacks   \* counters of the bounds
bundleVars == <<registry, bundles, lists, job, own, spoilt, texts, served, setbacks>>

\* An entry of lists whose resource was Absent (PreviousStateJSON = "") is new.
\* The ids ascend; the number of the text that was applied is used for one.
Entry == [id : 1..MaxTexts, bundle : BundleNames, resource : Resources, was : RowState]

NoJob == [at |-> "none", name |-> NoBundle, todo |-> {}, back |-> {}, then |-> "end", entry |-> {}]

BundleTypeOK ==
    /\ registry \in [Resources -> RowState] /\ own \in [Resources -> RowState]
    /\ bundles \in [BundleNames -> {"none", "installed", "deleted"}]
    /\ lists \subseteq Entry
    /\ job.at \in {"none", "rolling", "row", "clearing", "applying", "recording"}
    /\ job.name \in BundleNames \cup {NoBundle} /\ job.todo \subseteq Resources
    /\ job.back \subseteq Entry /\ job.then \in {"row", "end"} /\ job.entry \subseteq Entry
    /\ spoilt \subseteq {"unrecorded", "uncleared", "order"}
    /\ texts \in 0..MaxTexts /\ served \in 0..MaxServed /\ setbacks \in 0..MaxSetbacks

BundleInit ==
    /\ registry \in [Resources -> {Absent, [live |-> TRUE, text |-> 1, readOnly |-> FALSE]}]
    /\ own = registry
    /\ bundles = [b \in BundleNames |-> "none"] /\ lists = {}
    /\ job = NoJob /\ spoilt = {}
    /\ texts = 1 /\ served = 0 /\ setbacks = 0

ListOf(b) == {e \in lists : e.bundle = b}
\* Mutant: the list of an earlier installation stays.
ListsWithStale(b) == lists
ListsWithout(b) == {e \in lists : e.bundle # b}

Installed(b) == bundles[b] = "installed"
Listed(r) == \E e \in lists : e.resource = r /\ Installed(e.bundle)

\* Another bundle has written over what b wrote, and is still there.
Overwritten(b) ==
    \E d, e \in lists :
        /\ d.id < e.id /\ d.resource = e.resource
        /\ d.bundle = b /\ e.bundle # b /\ Installed(e.bundle)

-----------------------------------------------------------------------------
(* External: between two requests the user creates, changes and deletes    *)
(* resources, those of installed bundles excepted.                         *)

Edit(r) ==
    /\ job = NoJob /\ ~Listed(r) /\ texts < MaxTexts
    /\ \E live, readOnly \in BOOLEAN :
         /\ live \/ registry[r].live
         /\ registry' = [registry EXCEPT ![r] = [ live |-> live, text |-> texts + 1,
                                           readOnly |-> readOnly /\ r \in Agents ]]
    /\ own' = [own EXCEPT ![r] = registry'[r]]
    /\ texts' = texts + 1
    /\ UNCHANGED <<bundles, lists, job, spoilt, served, setbacks>>

-----------------------------------------------------------------------------
(* Requests *)

Begin(b) ==
    /\ job = NoJob /\ served < MaxServed
    /\ served' = served + 1
    /\ spoilt' = IF Installed(b) /\ Overwritten(b) THEN spoilt \cup {"order"} ELSE spoilt
    /\ UNCHANGED <<registry, bundles, lists, own, texts, setbacks>>

\* A bundle that is installed is uninstalled first.
Install(b) ==
    /\ Begin(b)
    /\ \E todo \in SUBSET Resources \ {{}} :
         job' = [ NoJob EXCEPT !.name = b, !.todo = todo, !.then = "row",
                    !.at = IF Installed(b) THEN "rolling" ELSE "row",
                    !.back = IF Installed(b) THEN ListOf(b) ELSE {} ]

Uninstall(b) ==
    /\ Installed(b) /\ Begin(b)
    /\ job' = [NoJob EXCEPT !.name = b, !.at = "rolling", !.back = ListOf(b)]

\* The request ends, with an error or without.
Over == job' = NoJob

-----------------------------------------------------------------------------
(* uninstallByBundleID *)

\* What is new is deleted; what was there is written back, but for read_only,
\* which is not among the columns of rollbackAgentResource.
Restored(e) ==
    IF e.was = Absent THEN [registry[e.resource] EXCEPT !.live = FALSE]
    ELSE [e.was EXCEPT !.readOnly = registry[e.resource].readOnly]

\* A server that is back must be reached again; if it cannot, the rest stays.
RollBack ==
    /\ job.at = "rolling"
    /\ \E e \in job.back :
         /\ \A d \in job.back : d.id <= e.id
         /\ registry' = [registry EXCEPT ![e.resource] = Restored(e)]
         /\ \/ job' = [job EXCEPT !.back = @ \ {e}]
            \/ e.resource \in Servers /\ e.was.live /\ Over
    /\ UNCHANGED <<bundles, lists, own, spoilt, texts, served, setbacks>>

RolledBack ==
    /\ job.at = "rolling" /\ job.back = {}
    /\ bundles' = [bundles EXCEPT ![job.name] = "deleted"]
    /\ IF job.then = "row" THEN job' = [job EXCEPT !.at = "row"] ELSE Over
    /\ UNCHANGED <<registry, lists, own, spoilt, texts, served, setbacks>>

-----------------------------------------------------------------------------
(* Install and applyBundleResources *)

\* The row of the bundle is created, or the deleted one of its name revived.
WriteRow ==
    /\ job.at = "row"
    /\ bundles' = [bundles EXCEPT ![job.name] = "installed"]
    /\ job' = [job EXCEPT !.at = IF bundles[job.name] = "deleted" THEN "clearing" ELSE "applying"]
    /\ UNCHANGED <<registry, lists, own, spoilt, texts, served, setbacks>>

ClearList ==
    /\ job.at = "clearing"
    /\ lists' = ListsWithout(job.name)
    /\ job' = [job EXCEPT !.at = "applying"]
    /\ UNCHANGED <<registry, bundles, own, spoilt, texts, served, setbacks>>

\* Agents come before skills, skills before servers.
FirstKind(todo) ==
    IF todo \cap Agents # {} THEN todo \cap Agents
    ELSE IF todo \cap Skills # {} THEN todo \cap Skills
    ELSE todo

\* The row is written over, revived or created.  A deleted skill is not
\* revived but created anew.
Apply ==
    /\ job.at = "applying" /\ texts < MaxTexts
    /\ \E r \in FirstKind(job.todo) :
         /\ registry' = [registry EXCEPT ![r] = [live |-> TRUE, text |-> texts + 1, readOnly |-> FALSE]]
         /\ job' = [ job EXCEPT !.at = "recording", !.todo = @ \ {r},
                       !.entry = {[ id |-> texts + 1, bundle |-> job.name, resource |-> r,
                                    was |-> IF r \in Skills /\ ~registry[r].live THEN Absent ELSE registry[r] ]} ]
    /\ texts' = texts + 1
    /\ UNCHANGED <<bundles, lists, own, spoilt, served, setbacks>>

Record ==
    /\ job.at = "recording"
    /\ lists' = lists \cup job.entry
    /\ job' = [job EXCEPT !.at = "applying", !.entry = {}]
    /\ UNCHANGED <<registry, bundles, own, spoilt, texts, served, setbacks>>

Complete ==
    /\ job.at = "applying" /\ job.todo = {}
    /\ Over
    /\ UNCHANGED <<registry, bundles, lists, own, spoilt, texts, served, setbacks>>

-----------------------------------------------------------------------------
(* Setbacks.  What was applied and not recorded nobody rolls back, and the  *)
(* list that a revived bundle still has is not its own.                    *)

Setback ==
    /\ job # NoJob /\ setbacks < MaxSetbacks
    /\ setbacks' = setbacks + 1
    /\ spoilt' = spoilt \cup (IF job.at = "recording" THEN {"unrecorded"} ELSE {})
                        \cup (IF job.at = "clearing" THEN {"uncleared"} ELSE {})
    /\ UNCHANGED <<registry, bundles, lists, own, texts, served>>

\* The process stops, or a statement fails after which the request ends.
Stop == Setback /\ Over

\* Mutant: what was applied stays, and the bundle with it.
CleanUpNot == [NoJob EXCEPT !.name = job.name, !.at = "rolling"]
\* The installation uninstalls itself.
CleanUp == [NoJob EXCEPT !.name = job.name, !.at = "rolling", !.back = ListOf(job.name)]

\* A resource cannot be applied, or not be recorded.
ApplyFails ==
    /\ job.at = "recording" \/ (job.at = "applying" /\ job.todo # {})
    /\ Setback
    /\ job' = CleanUp

-----------------------------------------------------------------------------
BundleNext ==
    \/ \E r \in Resources : Edit(r)
    \/ \E b \in BundleNames : Install(b) \/ Uninstall(b)
    \/ RollBack \/ RolledBack \/ WriteRow \/ ClearList \/ Apply \/ Record \/ Complete
    \/ Stop \/ ApplyFails

BundleSpec == BundleInit /\ [][BundleNext]_bundleVars

-----------------------------------------------------------------------------
Shown(row) == IF row.live THEN row.text ELSE 0

(* Whatever was installed, reinstalled, cut off and rolled back, and       *)
(* however often: a resource no bundle has is what its user last made it,  *)
(* unless a setback fell into one of the two gaps or bundles that overlap   *)
(* left out of order (bundle.go: uninstallation restores the state before).*)
UsersStateReturns ==
    job = NoJob /\ spoilt = {} =>
        \A r \in Resources : ~Listed(r) => Shown(registry[r]) = Shown(own[r])

(* Nothing of an installation that failed stays (Install).  The code does  *)
(* not ensure it: a resource that was applied and not recorded stays.      *)
NoHalfInstallation ==
    job = NoJob /\ "order" \notin spoilt =>
        \A r \in Resources : ~Listed(r) => Shown(registry[r]) = Shown(own[r])

(* A row that was written over is restored whole.  The code does not       *)
(* ensure it: read_only of an agent stays as the bundle set it.            *)
WholeRowReturns ==
    job = NoJob /\ spoilt = {} =>
        \A r \in Agents : ~Listed(r) /\ registry[r].live => registry[r].readOnly = own[r].readOnly
=============================================================================
