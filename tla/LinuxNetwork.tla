----------------------------- MODULE LinuxNetwork -----------------------------
(***************************************************************************)
(* The host network of the Linux agent: TunNetwork of network.rs with the  *)
(* forwarding switches and the nftables table of gateway.rs, and the       *)
(* recovery manifest that lets the next process undo what a dead one left. *)
(*                                                                         *)
(* Every action is one call that changes the host (one sysctl write, one   *)
(* netlink request, one atomic file write), so a crash falls between any   *)
(* two of them.  A call may fail while `networkFaults' lasts; every error  *)
(* of a reconciliation ends the runtime loop, which then shuts the network *)
(* down (runtime.rs:185-228).                                              *)
(***************************************************************************)
EXTENDS Integers, FiniteSets

CONSTANTS
    Tun,             \* the project's own interface
    Lan,             \* the other interfaces of the host
    GatewayRoutes,   \* records [interface, nat]: what this node can be a gateway for
    Prefixes,        \* subnets other gateways offer
    SystemRoutes,    \* the prefixes that overlap a route of the host itself
    NetworkFaults    \* bound on failing calls and crashes

ASSUME NetworkAssumption ==
    /\ Tun \notin Lan
    /\ \A r \in GatewayRoutes : r.interface \in Lan /\ r.nat \in BOOLEAN
    /\ SystemRoutes \subseteq Prefixes
    /\ NetworkFaults \in Nat

VARIABLES
    original,        \* forwarding of the LAN interfaces before any agent ran
    forwarding,      \* /proc/sys/net/ipv4/conf/<interface>/forwarding
    natTable,        \* the project's nftables table: present, and its rules
    tun,             \* the TUN device exists (it dies with its process)
    projectRoutes,   \* client routes through the TUN device
    manifest,        \* the recovery manifest on disk
    held,            \* what the TunNetwork of the live process holds
    step,            \* where that process is
    inForce,         \* gateway routes whose packets the TUN device forwards
    lost,            \* a shutdown failed, said so and removed the manifest, or the
                     \* process died, or its shutdown failed, after it could not
                     \* write the manifest
    networkFaults

networkVars == <<original, forwarding, natTable, tun, projectRoutes, manifest,
                 held, step, inForce, lost, networkFaults>>

Devices == Lan \cup {Tun}
NoRecords == [d \in {} |-> 0]
NoTable == [present |-> FALSE, rules |-> {}]
NoManifest == [written |-> FALSE, records |-> NoRecords, table |-> FALSE]
Nothing == [records |-> NoRecords, table |-> FALSE, gateway |-> {}, subnet |-> {}]

At(place, left) ==
    [at |-> place, left |-> left, owned |-> FALSE, failed |-> FALSE, unsaved |-> FALSE]
Goto(place, left) == step' = [step EXCEPT !.at = place, !.left = left]
Natted(routes) == {r \in routes : r.nat}
Forwarders(routes) ==
    IF routes = {} THEN {} ELSE {Tun} \cup {r.interface : r \in routes}

NetworkInit ==
    /\ original \in [Lan -> 0..1]
    /\ \E inherited \in 0..1 :
          forwarding = [d \in Devices |-> IF d = Tun THEN inherited ELSE original[d]]
    /\ natTable = NoTable
    /\ tun = FALSE
    /\ projectRoutes = {}
    /\ manifest = NoManifest
    /\ held = Nothing
    /\ step = At("off", {})
    /\ inForce = {}
    /\ lost = FALSE
    /\ networkFaults = 0

Fault ==
    /\ networkFaults < NetworkFaults
    /\ networkFaults' = networkFaults + 1

(***************************************************************************)
(* Starting: recover_stale, then create.                                   *)
(***************************************************************************)

\* recover_stale: nothing to undo, or the records of a manifest whose
\* interfaces still exist (the TUN device of the dead process does not).
RecoverStale ==
    /\ step.at = "off"
    /\ step' = IF manifest.written
               THEN At("recover_lower", DOMAIN manifest.records \cap Lan)
               ELSE At("create", {})
    /\ UNCHANGED <<original, forwarding, natTable, tun, projectRoutes, manifest,
                   held, inForce, lost, networkFaults>>

\* create: the device appears with the forwarding value of conf/default,
\* configure_link gives it its address and route.
Create ==
    /\ step.at = "create"
    /\ \E inherited \in 0..1 : forwarding' = [forwarding EXCEPT ![Tun] = inherited]
    /\ tun' = TRUE
    /\ Goto("write_manifest", {})
    /\ UNCHANGED <<original, natTable, projectRoutes, manifest, held, inForce, lost,
                   networkFaults>>

\* A manifest without gateway resources; if it cannot be written the device is dropped.
WriteManifest ==
    /\ step.at = "write_manifest"
    /\ \/ /\ manifest' = [NoManifest EXCEPT !.written = TRUE]
          /\ Goto("idle", {})
          /\ UNCHANGED <<tun, networkFaults>>
       \/ /\ Fault
          /\ tun' = FALSE
          /\ step' = At("off", {})
          /\ UNCHANGED manifest
    /\ UNCHANGED <<original, forwarding, natTable, projectRoutes, held, inForce, lost>>

(***************************************************************************)
(* reconcile_gateway_routes.                                               *)
(***************************************************************************)

Manifest(m) == [written |-> TRUE, records |-> m.records, table |-> m.table]

\* The records with those of more interfaces: the value each has now.
Remembered(interfaces) ==
    LET known == DOMAIN held.records IN
    [d \in known \cup interfaces |->
        IF d \in known THEN held.records[d] ELSE forwarding[d]]

\* Every interface that will forward, and the table, are remembered and both
\* persisted before the host is touched.
Recorded(desired) ==
    [held EXCEPT !.records = Remembered(Forwarders(desired)),
                 !.table = held.table \/ Natted(desired) # {},
                 !.gateway = desired]

\* Mutant: the manifest is left for the end of the reconciliation.
ReconcileUnpersisted(desired) ==
    /\ step.at = "idle"
    /\ desired # held.gateway
    /\ held' = Recorded(desired)
    /\ step' = [At("lower", DOMAIN Recorded(desired).records) EXCEPT !.owned = held.table]
    /\ UNCHANGED <<original, forwarding, natTable, tun, projectRoutes, manifest, inForce,
                   lost, networkFaults>>

\* Mutant: the table is replaced under live forwarding.
ReconcileLive(desired) ==
    /\ step.at = "idle"
    /\ desired # held.gateway
    /\ held' = Recorded(desired)
    /\ manifest' = Manifest(Recorded(desired))
    /\ step' = [At("lower", {}) EXCEPT !.owned = held.table]
    /\ UNCHANGED <<original, forwarding, natTable, tun, projectRoutes, inForce, lost,
                   networkFaults>>

\* Reading a forwarding value may fail with some interfaces remembered, and so
\* may the write of the manifest: both end the runtime.
ReconcileGateway(desired) ==
    /\ step.at = "idle"
    /\ desired # held.gateway
    /\ \/ /\ held' = Recorded(desired)
          /\ manifest' = Manifest(Recorded(desired))
          /\ step' = [At("lower", DOMAIN Recorded(desired).records)
                         EXCEPT !.owned = held.table]
          /\ UNCHANGED networkFaults
       \/ /\ Fault
          /\ \/ held' = Recorded(desired)
             \/ \E interfaces \in SUBSET Forwarders(desired) \ {Forwarders(desired)} :
                   held' = [held EXCEPT !.records = Remembered(interfaces)]
          /\ step' = [At("stop", {}) EXCEPT !.unsaved = TRUE]
          /\ UNCHANGED manifest
    /\ UNCHANGED <<original, forwarding, natTable, tun, projectRoutes, inForce, lost>>

\* The connected routes of a gateway may be gone, or its forwarding switched off
\* behind the agent's back.
ValidationFails ==
    /\ step.at = "idle"
    /\ Fault
    /\ Goto("stop", {})
    /\ UNCHANGED <<original, forwarding, natTable, tun, projectRoutes, manifest, held,
                   inForce, lost>>

\* One write of 0.  A reconciliation gives up at the first failure; the
\* clean-up of shutdown and of recovery goes on and reports at the end.
SetForwardingOff(d) ==
    /\ step.at \in {"lower", "stop_lower", "recover_lower"}
    /\ d \in step.left
    /\ \/ /\ forwarding' = [forwarding EXCEPT ![d] = 0]
          /\ inForce' = IF d = Tun THEN {} ELSE inForce
          /\ step' = [step EXCEPT !.left = @ \ {d}]
          /\ UNCHANGED networkFaults
       \/ /\ Fault
          /\ step' = IF step.at = "lower" THEN At("stop", {})
                     ELSE [step EXCEPT !.left = @ \ {d}, !.failed = TRUE]
          /\ UNCHANGED <<forwarding, inForce>>
    /\ UNCHANGED <<original, natTable, tun, projectRoutes, manifest, held, lost>>

\* replace_nat_table: the old table goes when it was ours.
DropOldTable ==
    /\ step.at = "lower" /\ step.left = {}
    /\ \/ /\ natTable' = IF step.owned THEN NoTable ELSE natTable
          /\ Goto(IF Natted(held.gateway) = {} THEN "raise" ELSE "table",
                  Forwarders(held.gateway))
          /\ held' = [held EXCEPT !.table = Natted(held.gateway) # {}]
          /\ UNCHANGED networkFaults
       \/ /\ step.owned
          /\ Fault
          /\ Goto("stop", {})
          /\ UNCHANGED <<natTable, held>>
    /\ UNCHANGED <<original, forwarding, tun, projectRoutes, manifest, inForce, lost>>

\* NLM_F_EXCL: a table of that name that is already there is an error.
CreateTable ==
    /\ step.at = "table"
    /\ \/ /\ ~natTable.present
          /\ natTable' = [present |-> TRUE, rules |-> {}]
          /\ Goto("rules", step.left)
          /\ UNCHANGED networkFaults
       \/ /\ Fault
          /\ Goto("stop", {})
          /\ UNCHANGED natTable
       \/ /\ natTable.present
          /\ Goto("stop", {})
          /\ UNCHANGED <<natTable, networkFaults>>
    /\ UNCHANGED <<original, forwarding, tun, projectRoutes, manifest, held, inForce, lost>>

\* The chain and one masquerade rule per NAT route; a failure takes the table
\* away again, as far as that succeeds.
CreateRule ==
    /\ step.at = "rules"
    /\ \/ \E r \in Natted(held.gateway) \ natTable.rules :
             /\ natTable' = [natTable EXCEPT !.rules = @ \cup {r}]
             /\ Goto(IF natTable'.rules = Natted(held.gateway) THEN "raise" ELSE "rules",
                     step.left)
             /\ UNCHANGED networkFaults
       \/ /\ Fault
          /\ natTable' \in {NoTable, natTable}
          /\ Goto("stop", {})
    /\ UNCHANGED <<original, forwarding, tun, projectRoutes, manifest, held, inForce, lost>>

Removed == DOMAIN held.records \ Forwarders(held.gateway)

SetForwardingOn(d) ==
    /\ step.at = "raise"
    /\ d \in step.left
    /\ \/ /\ forwarding' = [forwarding EXCEPT ![d] = 1]
          /\ inForce' = IF d = Tun THEN held.gateway ELSE inForce
          /\ step' = [step EXCEPT !.left = @ \ {d}]
          /\ UNCHANGED networkFaults
       \/ /\ Fault
          /\ Goto("stop", {})
          /\ UNCHANGED <<forwarding, inForce>>
    /\ UNCHANGED <<original, natTable, tun, projectRoutes, manifest, held, lost>>

Raised ==
    /\ step.at = "raise" /\ step.left = {}
    /\ Goto("restore", Removed)
    /\ UNCHANGED <<original, forwarding, natTable, tun, projectRoutes, manifest, held,
                   inForce, lost, networkFaults>>

Previous(d) ==
    IF step.at = "recover_restore" THEN manifest.records[d] ELSE held.records[d]

\* restore_forwarding: one write of the recorded value; goes on after a failure.
RestoreForwarding(d) ==
    /\ step.at \in {"restore", "stop_restore", "recover_restore"}
    /\ d \in step.left
    /\ \/ /\ forwarding' = [forwarding EXCEPT ![d] = Previous(d)]
          /\ step' = [step EXCEPT !.left = @ \ {d}]
          /\ UNCHANGED networkFaults
       \/ /\ Fault
          /\ step' = [step EXCEPT !.left = @ \ {d}, !.failed = TRUE]
          /\ UNCHANGED forwarding
    /\ UNCHANGED <<original, natTable, tun, projectRoutes, manifest, held, inForce, lost>>

\* Forget the interfaces that were given back and persist what is left.
Retained == [held EXCEPT !.records = [d \in DOMAIN @ \ Removed |-> @[d]]]

ReconcileEnds ==
    /\ step.at = "restore" /\ step.left = {}
    /\ \/ /\ ~step.failed
          /\ held' = Retained
          /\ manifest' = Manifest(Retained)
          /\ Goto("idle", {})
          /\ UNCHANGED networkFaults
       \/ /\ ~step.failed
          /\ Fault
          /\ held' = Retained
          /\ Goto("stop", {})
          /\ UNCHANGED manifest
       \/ /\ step.failed
          /\ step' = At("stop", {})
          /\ UNCHANGED <<held, manifest, networkFaults>>
    /\ UNCHANGED <<original, forwarding, natTable, tun, projectRoutes, inForce, lost>>

(***************************************************************************)
(* reconcile_subnet_routes: the client routes through the TUN device.      *)
(***************************************************************************)

\* ensure_subnet_routes_available: the additions that overlap a route of the host.
Conflicts(desired) == (desired \ held.subnet) \cap SystemRoutes

\* Additions are refused as a whole when one overlaps a route of the host;
\* a failing addition takes back the ones before it; a failing removal keeps
\* the route on the books.  Every error ends the runtime.
ReconcileSubnets(desired) ==
    /\ step.at = "idle"
    /\ desired # held.subnet
    /\ \/ /\ Conflicts(desired) = {}
          /\ projectRoutes' = desired
          /\ held' = [held EXCEPT !.subnet = desired]
          /\ Goto("persist", {})
          /\ UNCHANGED networkFaults
       \/ /\ Conflicts(desired) # {}
          /\ Goto("stop", {})
          /\ UNCHANGED <<projectRoutes, held, networkFaults>>
       \/ /\ Fault
          /\ \/ UNCHANGED <<projectRoutes, held>>
             \/ \E kept \in SUBSET (held.subnet \ desired) \ {{}} :
                   /\ projectRoutes' = desired \cup kept
                   /\ held' = [held EXCEPT !.subnet = desired \cup kept]
          /\ Goto("stop", {})
    /\ UNCHANGED <<original, forwarding, natTable, tun, manifest, inForce, lost>>

PersistManifest ==
    /\ step.at = "persist"
    /\ \/ /\ manifest' = Manifest(held)
          /\ Goto("idle", {})
          /\ UNCHANGED networkFaults
       \/ /\ Fault
          /\ Goto("stop", {})
          /\ UNCHANGED manifest
    /\ UNCHANGED <<original, forwarding, natTable, tun, projectRoutes, held, inForce, lost>>

(***************************************************************************)
(* shutdown, and the common clean-up of shutdown and recovery.             *)
(***************************************************************************)

\* The runtime loop ends, on a signal or on an error.
Shutdown ==
    /\ step.at \in {"idle", "stop"}
    /\ step' = [At("stop_lower", DOMAIN held.records) EXCEPT !.unsaved = step.unsaved]
    /\ UNCHANGED <<original, forwarding, natTable, tun, projectRoutes, manifest, held,
                   inForce, lost, networkFaults>>

\* delete_nat_table: a table that is not there is deleted successfully.
DeleteTable(from, owned, to, records) ==
    /\ step.at = from /\ step.left = {}
    /\ \/ /\ natTable' = IF owned THEN NoTable ELSE natTable
          /\ Goto(to, records)
          /\ UNCHANGED networkFaults
       \/ /\ owned
          /\ Fault
          /\ step' = [step EXCEPT !.at = to, !.left = records, !.failed = TRUE]
          /\ UNCHANGED natTable
    /\ UNCHANGED <<original, forwarding, tun, projectRoutes, manifest, held, inForce, lost>>

StopDeletesTable ==
    DeleteTable("stop_lower", held.table, "stop_restore", DOMAIN held.records)

RecoveryDeletesTable ==
    DeleteTable("recover_lower", manifest.table, "recover_restore",
                DOMAIN manifest.records \cap Lan)

\* The device goes, its routes with it, then the manifest, whatever failed before.
\* A manifest that cannot be removed is as complete as the last write left it.
ShutdownEnds ==
    /\ step.at = "stop_restore" /\ step.left = {}
    /\ tun' = FALSE
    /\ projectRoutes' = {}
    /\ held' = Nothing
    /\ inForce' = {}
    /\ step' = At("off", {})
    /\ \/ /\ manifest' = NoManifest
          /\ lost' = (lost \/ step.failed)
          /\ UNCHANGED networkFaults
       \/ /\ Fault
          /\ lost' = (lost \/ (step.failed /\ step.unsaved))
          /\ UNCHANGED manifest
    /\ UNCHANGED <<original, forwarding, natTable>>

\* A recovery that failed keeps the manifest and the agent does not start.
RecoveryEnds ==
    /\ step.at = "recover_restore" /\ step.left = {}
    /\ \/ /\ ~step.failed
          /\ manifest' = NoManifest
          /\ step' = At("create", {})
          /\ UNCHANGED networkFaults
       \/ /\ step.failed
          /\ step' = At("off", {})
          /\ UNCHANGED <<manifest, networkFaults>>
       \/ /\ ~step.failed
          /\ Fault
          /\ step' = At("off", {})
          /\ UNCHANGED manifest
    /\ UNCHANGED <<original, forwarding, natTable, tun, projectRoutes, held, inForce, lost>>

\* The process dies: the kernel takes the TUN device and its routes, nothing else.
CrashNetwork ==
    /\ step.at # "off"
    /\ Fault
    /\ tun' = FALSE
    /\ projectRoutes' = {}
    /\ held' = Nothing
    /\ inForce' = {}
    /\ step' = At("off", {})
    /\ lost' = (lost \/ step.unsaved)
    /\ UNCHANGED <<original, forwarding, natTable, manifest>>

NetworkNext ==
    \/ RecoverStale \/ Create \/ WriteManifest
    \/ \E desired \in SUBSET GatewayRoutes : ReconcileGateway(desired)
    \/ \E desired \in SUBSET Prefixes : ReconcileSubnets(desired)
    \/ \E d \in Devices : SetForwardingOff(d) \/ SetForwardingOn(d) \/ RestoreForwarding(d)
    \/ DropOldTable \/ CreateTable \/ CreateRule \/ Raised \/ ReconcileEnds
    \/ PersistManifest \/ ValidationFails
    \/ Shutdown \/ StopDeletesTable \/ ShutdownEnds
    \/ RecoveryDeletesTable \/ RecoveryEnds
    \/ CrashNetwork

NetworkSpec == NetworkInit /\ [][NetworkNext]_networkVars

-------------------------------------------------------------------------------

\* Whatever crashed or failed, a LAN interface that does not have the forwarding
\* value it had before the agent came, and a table of the agent, can be put right
\* by the next process: the manifest on disk records that value and that table.
\* Two exceptions: a shutdown that failed removes the manifest all the same and
\* only reports the error (network.rs:284-300), and when the records cannot all be
\* made or written the shutdown that follows rests on those in memory alone.
HostRecoverable ==
    \/ lost
    \/ step.unsaved
    \/ /\ \A i \in Lan : forwarding[i] # original[i] =>
             i \in DOMAIN manifest.records /\ manifest.records[i] = original[i]
       /\ natTable.present => manifest.table

\* The TUN device forwards for a NAT route only while its masquerade rule exists:
\* reconcile_gateway_routes switches forwarding off before it replaces the table
\* and on after it, whatever changes, fails or crashes in between.  Exempt is the
\* time from a failed call to the end of the process: a compensation that fails
\* as well may leave forwarding on, and the agent stops.
MasqueradeBeforeForwarding ==
    step.failed \/ \A r \in Natted(inForce) : r \in natTable.rules

===============================================================================
