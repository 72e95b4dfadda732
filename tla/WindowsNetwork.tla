----------------------------- MODULE WindowsNetwork -----------------------------
(***************************************************************************)
(* The host network of the Windows agent: TunNetwork of network/windows.rs *)
(* over WindowsNetworkPreparation (windows_network.rs), the transaction    *)
(* and recovery of the windows-route-manager crate, and the ephemeral      *)
(* Wintun adapter.                                                         *)
(*                                                                         *)
(* Every action is one call that changes the host or the manifest on disk, *)
(* with the checks before it; a call may fail and the process may die      *)
(* between any two while `windowsFaults' lasts.  An adapter whose handle   *)
(* was closed takes its address and routes with it, at some later time.    *)
(*                                                                         *)
(* A prefix is its place in the order of route_order; no two overlap.  A   *)
(* route of the project is a prefix and the LUID of its interface, a route *)
(* of anybody else is the set of prefixes it overlaps.  The virtual IP of  *)
(* a node state never changes, so a manifest always names the planned one. *)
(***************************************************************************)
EXTENDS Integers

CONSTANTS
    Luids,            \* LUIDs an adapter may get
    WindowsPrefixes,  \* prefixes that may be asked for
    RoutePlans,       \* the desired_prefixes of prepare (TunNetwork asks for none yet)
    ForeignRoutes,    \* routes others may add
    MaxDadPolls,      \* polls of the address state: 100
    WindowsFaults     \* bound on failing calls and crashes

ASSUME WindowsAssumption ==
    /\ Luids \subseteq Nat \ {0}
    /\ WindowsPrefixes \subseteq Nat
    /\ RoutePlans \subseteq SUBSET WindowsPrefixes
    /\ ForeignRoutes \subseteq SUBSET WindowsPrefixes
    /\ MaxDadPolls \in Nat \ {0}
    /\ WindowsFaults \in Nat

VARIABLES
    adapter,        \* the Wintun adapter of the live process, 0 without one
    orphans,        \* adapters that were closed and are not gone yet
    dad,            \* DadState of the project's address on each adapter
    projectTable,   \* the project's routes in the system's table
    foreign,        \* everybody else's
    record,         \* the NetworkManifest on disk
    task,           \* where the process is
    windowsFaults

windowsVars == <<adapter, orphans, dad, projectTable, foreign, record, task, windowsFaults>>

RouteKeys == WindowsPrefixes \X Luids

\* DadState; Invalid, Duplicate, Deprecated and Unknown are all refused.
DadStates == {"none", "tentative", "preferred", "refused"}

\* The manifests validate accepts.
Manifests == [state : {"Preparing", "Active"}, luid : Luids, prefixes : SUBSET WindowsPrefixes]

NoRecord == [state |-> "none", luid |-> 0, prefixes |-> {}]

\* The routes a manifest records (RouteKey::project).
ManifestRoutes(r) == r.prefixes \X {r.luid}

Places == {"off", "open", "prepare", "address", "dad", "add", "undo", "unaddress", "running",
           "delete"}

Tasks == [at : Places, todo : SUBSET RouteKeys, made : SUBSET RouteKeys, polls : Nat,
          recovering : BOOLEAN, unaddress : BOOLEAN, failed : BOOLEAN]

\* todo: the routes still to be created or deleted; made: those created so far.
TaskAt(place, todo) ==
    [at |-> place, todo |-> todo, made |-> {}, polls |-> 0, recovering |-> FALSE,
     unaddress |-> FALSE, failed |-> FALSE]

WindowsInit ==
    /\ adapter = 0
    /\ orphans = {}
    /\ dad = [l \in Luids |-> "none"]
    /\ projectTable = {}
    /\ foreign \in SUBSET ForeignRoutes
    /\ record = NoRecord
    /\ task = TaskAt("off", {})
    /\ windowsFaults = 0

WindowsFault ==
    /\ windowsFaults < WindowsFaults
    /\ windowsFaults' = windowsFaults + 1

\* The calls of IpHelperBackend, when they succeed.
AddressSet(state) == dad' = [dad EXCEPT ![adapter] = state]
RouteCreated(r) == projectTable' = projectTable \cup {r}
RouteDeleted(r) == projectTable' = projectTable \ {r}
ExactAddressPresent == dad[adapter] # "none"

\* The process ends; dropping WintunSession, or the end of the process, closes
\* the adapter.
Exit ==
    /\ task' = TaskAt("off", {})
    /\ orphans' = IF adapter = 0 THEN orphans ELSE orphans \cup {adapter}
    /\ adapter' = 0

\* The first and the last of a set of routes of one interface.
FirstRoute(S, r) == r \in S /\ \A q \in S : r[1] <= q[1]
LastRoute(S, r) == r \in S /\ \A q \in S : q[1] <= r[1]

(***************************************************************************)
(* TunNetwork::create.                                                     *)
(***************************************************************************)

\* plan_recovery: whatever overlaps a recorded prefix is the recorded route itself.
RecoveryPlanned ==
    /\ \A f \in foreign : f \cap record.prefixes = {}
    /\ \A r \in projectTable : r[1] \in record.prefixes => r \in ManifestRoutes(record)

\* recover_after_adapter_removal: without a manifest there is nothing to do; one
\* that cannot be planned for ends the start and changes nothing.
StartWindows ==
    /\ task.at = "off"
    /\ \/ /\ record = NoRecord
          /\ task' = TaskAt("open", {})
       \/ /\ record # NoRecord /\ RecoveryPlanned
          /\ task' = [TaskAt("delete", ManifestRoutes(record) \cap projectTable)
                         EXCEPT !.recovering = TRUE]
    /\ UNCHANGED <<adapter, orphans, dad, projectTable, foreign, record, windowsFaults>>

\* WintunSession::create
OpenAdapter ==
    /\ task.at = "open"
    /\ \/ /\ adapter' \in Luids \ orphans
          /\ task' = TaskAt("prepare", {})
          /\ UNCHANGED <<orphans, windowsFaults>>
       \/ WindowsFault /\ Exit
    /\ UNCHANGED <<dad, projectTable, foreign, record>>

\* plan_reconcile, with no routes owned.
ReconcilePlanned(desired) == \A f \in foreign : f \cap desired = {}

\* Nothing is touched before the Preparing manifest is on disk.
PrepareNetwork(desired) ==
    /\ task.at = "prepare"
    /\ \/ /\ ReconcilePlanned(desired)
          /\ record' = [state |-> "Preparing", luid |-> adapter, prefixes |-> desired]
          /\ task' = TaskAt("address", {})
          /\ UNCHANGED <<adapter, orphans, windowsFaults>>
       \/ /\ ~ReconcilePlanned(desired)
          /\ Exit
          /\ UNCHANGED <<record, windowsFaults>>
       \/ /\ WindowsFault /\ Exit
          /\ UNCHANGED record
    /\ UNCHANGED <<dad, projectTable, foreign>>

(***************************************************************************)
(* provision_network and execute_plan.                                     *)
(***************************************************************************)

CreateAddress ==
    /\ task.at = "address"
    /\ \/ /\ AddressSet("tentative")
          /\ task' = TaskAt("dad", {})
          /\ UNCHANGED <<adapter, orphans, windowsFaults>>
       \/ /\ WindowsFault /\ Exit
          /\ UNCHANGED dad
    /\ UNCHANGED <<projectTable, foreign, record>>

\* Mutant: the last poll takes a tentative address for a good one.
PollUntilTired ==
    /\ task.at = "dad"
    /\ task' = IF dad[adapter] = "preferred" THEN TaskAt("add", ManifestRoutes(record))
               ELSE IF dad[adapter] = "refused" THEN TaskAt("unaddress", {})
               ELSE IF task.polls + 1 < MaxDadPolls THEN [task EXCEPT !.polls = @ + 1]
               ELSE TaskAt("add", ManifestRoutes(record))
    /\ UNCHANGED <<adapter, orphans, dad, projectTable, foreign, record, windowsFaults>>

\* One poll of the address: preferred goes on to the routes; a tentative one is
\* polled again; anything else, and a query that fails, takes the address away.
PollDad ==
    /\ task.at = "dad"
    /\ \/ /\ dad[adapter] = "preferred"
          /\ task' = TaskAt("add", ManifestRoutes(record))
          /\ UNCHANGED windowsFaults
       \/ /\ dad[adapter] = "tentative" /\ task.polls + 1 < MaxDadPolls
          /\ task' = [task EXCEPT !.polls = @ + 1]
          /\ UNCHANGED windowsFaults
       \/ /\ \/ dad[adapter] = "tentative" /\ task.polls + 1 >= MaxDadPolls
             \/ dad[adapter] = "refused"
          /\ task' = TaskAt("unaddress", {})
          /\ UNCHANGED windowsFaults
       \/ /\ WindowsFault
          /\ task' = TaskAt("unaddress", {})
    /\ UNCHANGED <<adapter, orphans, dad, projectTable, foreign, record>>

\* execute_plan: the additions in order; one that fails starts the compensation.
AddRoute(r) ==
    /\ task.at = "add" /\ FirstRoute(task.todo, r)
    /\ \/ /\ RouteCreated(r)
          /\ task' = [task EXCEPT !.todo = @ \ {r}, !.made = @ \cup {r}]
          /\ UNCHANGED windowsFaults
       \/ /\ WindowsFault
          /\ task' = TaskAt("undo", task.made)
          /\ UNCHANGED projectTable
    /\ UNCHANGED <<adapter, orphans, dad, foreign, record>>

\* The compensation, in reverse order; a deletion that fails is only reported.
UndoRoute(r) ==
    /\ task.at = "undo" /\ LastRoute(task.todo, r)
    /\ \/ /\ RouteDeleted(r)
          /\ UNCHANGED windowsFaults
       \/ /\ WindowsFault
          /\ UNCHANGED projectTable
    /\ task' = [task EXCEPT !.todo = @ \ {r}]
    /\ UNCHANGED <<adapter, orphans, dad, foreign, record>>

UndoEnds ==
    /\ task.at = "undo" /\ task.todo = {}
    /\ task' = TaskAt("unaddress", {})
    /\ UNCHANGED <<adapter, orphans, dad, projectTable, foreign, record, windowsFaults>>

\* address_cleanup, after which the error is returned.
RemoveAddress ==
    /\ task.at = "unaddress"
    /\ \/ /\ AddressSet("none")
          /\ UNCHANGED windowsFaults
       \/ /\ WindowsFault
          /\ UNCHANGED dad
    /\ Exit
    /\ UNCHANGED <<projectTable, foreign, record>>

\* Everything is there: the manifest becomes Active.
Activate ==
    /\ task.at = "add" /\ task.todo = {}
    /\ \/ /\ record' = [record EXCEPT !.state = "Active"]
          /\ task' = TaskAt("running", {})
          /\ UNCHANGED <<adapter, orphans, windowsFaults>>
       \/ /\ WindowsFault /\ Exit
          /\ UNCHANGED record
    /\ UNCHANGED <<dad, projectTable, foreign>>

(***************************************************************************)
(* shutdown, and execute_recovery for it and for the start.                *)
(***************************************************************************)

ShutdownWindows ==
    /\ task.at = "running"
    /\ \/ /\ RecoveryPlanned
          /\ task' = [TaskAt("delete", ManifestRoutes(record) \cap projectTable)
                         EXCEPT !.unaddress = ExactAddressPresent]
          /\ UNCHANGED <<adapter, orphans, windowsFaults>>
       \/ /\ ~RecoveryPlanned
          /\ Exit
          /\ UNCHANGED windowsFaults
       \/ WindowsFault /\ Exit
    /\ UNCHANGED <<dad, projectTable, foreign, record>>

\* Every planned deletion is tried, in reverse order.  A route that went with its
\* adapter meanwhile is an error like any other.
DeleteRoute(r) ==
    /\ task.at = "delete" /\ LastRoute(task.todo, r)
    /\ \/ /\ r \in projectTable
          /\ RouteDeleted(r)
          /\ task' = [task EXCEPT !.todo = @ \ {r}]
          /\ UNCHANGED windowsFaults
       \/ /\ \/ r \notin projectTable /\ UNCHANGED windowsFaults
             \/ WindowsFault
          /\ task' = [task EXCEPT !.todo = @ \ {r}, !.failed = TRUE]
          /\ UNCHANGED projectTable
    /\ UNCHANGED <<adapter, orphans, dad, foreign, record>>

DeleteAddress ==
    /\ task.at = "delete" /\ task.todo = {} /\ task.unaddress
    /\ \/ /\ AddressSet("none")
          /\ task' = [task EXCEPT !.unaddress = FALSE]
          /\ UNCHANGED windowsFaults
       \/ /\ WindowsFault
          /\ task' = [task EXCEPT !.unaddress = FALSE, !.failed = TRUE]
          /\ UNCHANGED dad
    /\ UNCHANGED <<adapter, orphans, projectTable, foreign, record>>

\* Mutant: the manifest goes although a deletion failed.
ForgetRegardless ==
    /\ task.at = "delete" /\ task.todo = {} /\ ~task.unaddress
    /\ record' = NoRecord
    /\ IF task.recovering THEN task' = TaskAt("open", {}) /\ UNCHANGED <<adapter, orphans>>
       ELSE Exit
    /\ UNCHANGED <<dad, projectTable, foreign, windowsFaults>>

\* remove_network_manifest after complete success only; recovery goes on to the
\* adapter, shutdown and every error to the end of the process.
ForgetRecord ==
    /\ task.at = "delete" /\ task.todo = {} /\ ~task.unaddress
    /\ \/ /\ ~task.failed
          /\ record' = NoRecord
          /\ IF task.recovering THEN task' = TaskAt("open", {}) /\ UNCHANGED <<adapter, orphans>>
             ELSE Exit
          /\ UNCHANGED windowsFaults
       \/ /\ \/ task.failed /\ UNCHANGED windowsFaults
             \/ WindowsFault
          /\ Exit
          /\ UNCHANGED record
    /\ UNCHANGED <<dad, projectTable, foreign>>

CrashWindows ==
    /\ task.at # "off"
    /\ WindowsFault
    /\ Exit
    /\ UNCHANGED <<dad, projectTable, foreign, record>>

(***************************************************************************)
(* Windows.                                                                *)
(***************************************************************************)

\* Duplicate address detection comes to a result.
DadSettles(l) ==
    /\ dad[l] = "tentative"
    /\ \E result \in {"preferred", "refused"} : dad' = [dad EXCEPT ![l] = result]
    /\ UNCHANGED <<adapter, orphans, projectTable, foreign, record, task, windowsFaults>>

\* A closed adapter is gone, and what was on it.
AdapterGone(l) ==
    /\ l \in orphans
    /\ orphans' = orphans \ {l}
    /\ dad' = [dad EXCEPT ![l] = "none"]
    /\ projectTable' = {r \in projectTable : r[2] # l}
    /\ UNCHANGED <<adapter, foreign, record, task, windowsFaults>>

\* Somebody else adds or removes a route.
ForeignChanges(f) ==
    /\ foreign' = IF f \in foreign THEN foreign \ {f} ELSE foreign \cup {f}
    /\ UNCHANGED <<adapter, orphans, dad, projectTable, record, task, windowsFaults>>

WindowsNext ==
    \/ StartWindows \/ OpenAdapter \/ CreateAddress \/ PollDad
    \/ \E desired \in RoutePlans : PrepareNetwork(desired)
    \/ \E r \in RouteKeys : AddRoute(r) \/ UndoRoute(r) \/ DeleteRoute(r)
    \/ UndoEnds \/ RemoveAddress \/ Activate
    \/ ShutdownWindows \/ DeleteAddress \/ ForgetRecord \/ CrashWindows
    \/ \E l \in Luids : DadSettles(l) \/ AdapterGone(l)
    \/ \E f \in ForeignRoutes : ForeignChanges(f)

WindowsSpec == WindowsInit /\ [][WindowsNext]_windowsVars

-------------------------------------------------------------------------------

\* Every variable has its type.
WindowsTypeOK ==
    /\ adapter \in Luids \cup {0}
    /\ orphans \subseteq Luids
    /\ dad \in [Luids -> DadStates]
    /\ projectTable \subseteq RouteKeys
    /\ foreign \subseteq ForeignRoutes
    /\ record \in Manifests \cup {NoRecord}
    /\ task \in Tasks
    /\ windowsFaults \in Nat

\* Whatever failed or crashed, every route of the project in the system's table
\* and the address of the live adapter are in the manifest on disk, under their
\* LUID: the next start knows exactly what to take away, and no leftover of an
\* earlier process makes it refuse (plan_recovery, execute_recovery, shutdown).
ResourcesRecorded ==
    /\ projectTable \subseteq ManifestRoutes(record)
    /\ adapter # 0 /\ dad[adapter] # "none" => record.luid = adapter

\* A running agent has what its Active manifest says: an address that passed
\* duplicate address detection and every route, none of them of another adapter
\* (prepare, provision_network, execute_plan).
RunningProvisioned ==
    task.at = "running" =>
        /\ record.state = "Active" /\ record.luid = adapter
        /\ dad[adapter] = "preferred"
        /\ projectTable = ManifestRoutes(record)
===============================================================================
