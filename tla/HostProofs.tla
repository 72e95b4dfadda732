---------------------------------- MODULE HostProofs ----------------------------------
(***************************************************************************)
(* What the agent and its updates do to the host they run on, for every    *)
(* value of the constants.  On Linux: what the agent changed in the network*)
(* can be put right by the next process, and the TUN device forwards for a *)
(* NAT route only behind its masquerade rule; what the root helper can see *)
(* is completely staged, the links name what is installed, and the helper  *)
(* never lowers the installed version.  On Windows: no packet outlives the *)
(* session it was queued under, and none is longer or later than its       *)
(* client will accept; the agent never loses track of its adapters,        *)
(* addresses and routes.  On both: the words of the replay window are the  *)
(* set of bits that ReplayReceiver reasons about.                          *)
(***************************************************************************)
EXTENDS MCHost, TLAPS

-------------------------------------------------------------------------------
(***************************************************************************)
(* The host network.                                                       *)
(***************************************************************************)

\* Recorded forwarding values of some interfaces.
RecordSet == UNION {[D -> {0, 1}] : D \in SUBSET Devices}

NetworkPlaces == {"off", "create", "write_manifest", "idle", "lower", "table", "rules", "raise",
                  "restore", "stop", "persist", "stop_lower", "stop_restore", "recover_lower",
                  "recover_restore"}

Steps == [at : NetworkPlaces, left : SUBSET Devices, owned : BOOLEAN, failed : BOOLEAN,
          unsaved : BOOLEAN]

NetworkTypeOK ==
    /\ original \in [Lan -> {0, 1}]
    /\ forwarding \in [Devices -> {0, 1}]
    /\ natTable \in [present : BOOLEAN, rules : SUBSET GatewayRoutes]
    /\ manifest \in [written : BOOLEAN, records : RecordSet, table : BOOLEAN]
    /\ held \in [records : RecordSet, table : BOOLEAN, gateway : SUBSET GatewayRoutes,
                 subnet : SUBSET Prefixes]
    /\ step \in Steps
    /\ inForce \subseteq GatewayRoutes
    /\ lost \in BOOLEAN

\* No TunNetwork exists yet, or any more.
Absent == step.at \in {"off", "create", "write_manifest", "recover_lower", "recover_restore"}

\* Where a manifest that was not written would matter.
Stopping == {"stop", "stop_lower", "stop_restore"}

\* What a process without a TunNetwork, and each phase of one, has to go through.
StageInv ==
    /\ Absent => held = Nothing /\ inForce = {} /\ ~step.unsaved
    /\ step.at \in {"create", "write_manifest"} => manifest = NoManifest
    /\ ~manifest.written => manifest = NoManifest
    /\ step.unsaved => step.at \in Stopping
    /\ step.at \in {"lower", "table", "rules", "raise", "restore"} =>
          Forwarders(held.gateway) \subseteq DOMAIN held.records
    /\ step.at \in {"lower", "stop_lower", "stop_restore"} => step.left \subseteq DOMAIN held.records
    /\ step.at \in {"table", "rules", "raise"} => step.left \subseteq Forwarders(held.gateway)
    /\ step.at = "restore" => step.left \subseteq Removed
    /\ step.at = "lower" /\ Natted(held.gateway) # {} => held.table
    /\ step.at \in {"table", "rules"} => held.table
    /\ step.at \in {"recover_lower", "recover_restore"} =>
          step.left \subseteq DOMAIN manifest.records \cap Lan

\* Forwarding for NAT routes and the rules they need.
MasqueradeInv ==
    /\ \/ step.at \in {"stop_lower", "stop_restore"} /\ step.failed
       \/ Natted(inForce) \subseteq natTable.rules
    /\ step.at = "lower" => inForce = {} \/ Tun \in step.left
    /\ step.at \in {"table", "rules"} => inForce = {}
    /\ step.at = "raise" => Natted(held.gateway) \subseteq natTable.rules
    /\ step.at \in {"raise", "restore"} => inForce \in {{}, held.gateway}
    /\ step.at = "stop_lower" => inForce = {} \/ Tun \in step.left \/ step.failed
    /\ step.at = "stop_restore" => inForce = {} \/ step.failed
    /\ step.at \in {"idle", "persist", "stop"} => inForce = {} \/ Tun \in DOMAIN held.records

\* Interfaces a process without a TunNetwork may leave changed are in the
\* manifest, and what is recorded is the value of old.
ManifestInv ==
    /\ \A i \in Lan \cap DOMAIN manifest.records : manifest.records[i] = original[i]
    /\ Absent => /\ \A i \in Lan \ DOMAIN manifest.records : forwarding[i] = original[i]
                 /\ natTable.present => manifest.table

\* The same for the records of a live TunNetwork, all of them in the manifest
\* unless it could not be written.
HeldInv ==
    /\ \A i \in Lan \cap DOMAIN held.records : held.records[i] = original[i]
    /\ ~Absent => /\ \A i \in Lan \ DOMAIN held.records : forwarding[i] = original[i]
                  /\ natTable.present => held.table
    /\ ~Absent /\ ~step.unsaved => /\ Lan \cap DOMAIN held.records \subseteq DOMAIN manifest.records
                                   /\ held.table => manifest.table
    /\ step.at = "lower" => (natTable.present => step.owned)

\* What a pass over the interfaces has put right so far.
RestoredInv ==
    ~step.failed =>
       /\ step.at = "restore" => \A i \in (Lan \cap Removed) \ step.left : forwarding[i] = original[i]
       /\ step.at = "stop_restore" =>
             /\ \A i \in (Lan \cap DOMAIN held.records) \ step.left : forwarding[i] = original[i]
             /\ ~natTable.present
       /\ step.at = "recover_restore" =>
             /\ \A i \in (Lan \cap DOMAIN manifest.records) \ step.left : forwarding[i] = original[i]
             /\ ~natTable.present

\* Nothing of this is promised once a shutdown has failed and said so.
RecoverableInv == lost \/ (ManifestInv /\ HeldInv /\ RestoredInv)

NetworkInv == NetworkTypeOK /\ StageInv /\ MasqueradeInv /\ RecoverableInv

-------------------------------------------------------------------------------

\* What is known of a set of records, and how to make one.
LEMMA RecordsOf ==
    ASSUME NEW r \in RecordSet
    PROVE  DOMAIN r \subseteq Devices /\ \A d \in DOMAIN r : r[d] \in {0, 1}
BY DEF RecordSet

LEMMA RecordsMade ==
    ASSUME NEW D \in SUBSET Devices, NEW r \in [D -> {0, 1}]
    PROVE  r \in RecordSet
BY DEF RecordSet

LEMMA NoRecordsType == NoRecords \in RecordSet /\ DOMAIN NoRecords = {}
<1>1. NoRecords \in [{} -> {0, 1}]
  BY DEF NoRecords
<1> QED
  BY <1>1, RecordsMade DEF NoRecords

LEMMA NoTunInLan == Tun \notin Lan /\ Lan \subseteq Devices /\ Tun \in Devices
BY NetworkAssumption DEF Devices

LEMMA ForwardersType ==
    ASSUME NEW routes \in SUBSET GatewayRoutes
    PROVE  /\ Forwarders(routes) \subseteq Devices
           /\ routes # {} => Tun \in Forwarders(routes)
BY NetworkAssumption DEF Forwarders, Devices

LEMMA AtType ==
    ASSUME NEW place \in NetworkPlaces, NEW left \in SUBSET Devices
    PROVE  /\ At(place, left) \in Steps
           /\ At(place, left).at = place
           /\ At(place, left).left = left
           /\ ~At(place, left).owned
           /\ ~At(place, left).failed
           /\ ~At(place, left).unsaved
BY DEF At, Steps

LEMMA GotoType ==
    ASSUME step \in Steps, NEW place \in NetworkPlaces, NEW left \in SUBSET Devices,
           Goto(place, left)
    PROVE  /\ step' \in Steps
           /\ step'.at = place /\ step'.left = left
           /\ step'.owned = step.owned /\ step'.failed = step.failed
           /\ step'.unsaved = step.unsaved
BY DEF Goto, Steps

\* One interface of a pass is done.
LEMMA DoneType ==
    ASSUME step \in Steps, NEW d, step' = [step EXCEPT !.left = @ \ {d}]
    PROVE  /\ step' \in Steps
           /\ step'.at = step.at /\ step'.left = step.left \ {d}
           /\ step'.owned = step.owned /\ step'.failed = step.failed
           /\ step'.unsaved = step.unsaved
BY DEF Steps

\* The same, and its write failed.
LEMMA MissedType ==
    ASSUME step \in Steps, NEW d, step' = [step EXCEPT !.left = @ \ {d}, !.failed = TRUE]
    PROVE  /\ step' \in Steps
           /\ step'.at = step.at /\ step'.left = step.left \ {d}
           /\ step'.owned = step.owned /\ step'.failed
           /\ step'.unsaved = step.unsaved
BY DEF Steps

LEMMA NothingType ==
    /\ Nothing \in [records : RecordSet, table : BOOLEAN, gateway : SUBSET GatewayRoutes,
                    subnet : SUBSET Prefixes]
    /\ DOMAIN Nothing.records = {} /\ ~Nothing.table
    /\ Nothing.gateway = {} /\ Nothing.subnet = {}
BY NoRecordsType DEF Nothing

LEMMA NoManifestType ==
    /\ NoManifest \in [written : BOOLEAN, records : RecordSet, table : BOOLEAN]
    /\ ~NoManifest.written /\ DOMAIN NoManifest.records = {} /\ ~NoManifest.table
BY NoRecordsType DEF NoManifest

LEMMA ManifestType ==
    ASSUME NEW m, m.records \in RecordSet, m.table \in BOOLEAN
    PROVE  /\ Manifest(m) \in [written : BOOLEAN, records : RecordSet, table : BOOLEAN]
           /\ Manifest(m).written
           /\ Manifest(m).records = m.records /\ Manifest(m).table = m.table
BY DEF Manifest

\* Remembering more interfaces keeps what was known and adds the present values.
LEMMA RememberedType ==
    ASSUME NetworkTypeOK, NEW interfaces \in SUBSET Devices
    PROVE  /\ Remembered(interfaces) \in RecordSet
           /\ DOMAIN Remembered(interfaces) = DOMAIN held.records \cup interfaces
           /\ \A d \in DOMAIN held.records : Remembered(interfaces)[d] = held.records[d]
           /\ \A d \in interfaces \ DOMAIN held.records :
                 Remembered(interfaces)[d] = forwarding[d]
<1> DEFINE D == DOMAIN held.records \cup interfaces
<1>1. held.records \in RecordSet
  BY DEF NetworkTypeOK
<1>2. D \in SUBSET Devices
  BY <1>1, RecordsOf
<1>3. Remembered(interfaces) \in [D -> {0, 1}]
  BY <1>1, <1>2, RecordsOf DEF Remembered, NetworkTypeOK
<1>4. Remembered(interfaces) \in RecordSet
  BY <1>2, <1>3, RecordsMade
<1> QED
  BY <1>4 DEF Remembered

\* Forgetting the interfaces that were given back keeps the records of the others.
LEMMA RetainedType ==
    ASSUME NetworkTypeOK
    PROVE  /\ Retained \in [records : RecordSet, table : BOOLEAN,
                            gateway : SUBSET GatewayRoutes, subnet : SUBSET Prefixes]
           /\ DOMAIN Retained.records = DOMAIN held.records \ Removed
           /\ \A d \in DOMAIN Retained.records : Retained.records[d] = held.records[d]
           /\ Retained.table = held.table /\ Retained.gateway = held.gateway
<1> DEFINE D == DOMAIN held.records \ Removed
           R == [d \in D |-> held.records[d]]
<1>1. held.records \in RecordSet
  BY DEF NetworkTypeOK
<1>2. D \in SUBSET Devices
  BY <1>1, RecordsOf
<1>3. R \in [D -> {0, 1}]
  BY <1>1, RecordsOf
<1>4. R \in RecordSet
  BY <1>2, <1>3, RecordsMade
<1>5. Retained = [held EXCEPT !.records = R]
  BY DEF Retained
<1> QED
  BY <1>4, <1>5 DEF NetworkTypeOK

-------------------------------------------------------------------------------

LEMMA NetworkInitially == NetworkInit => NetworkInv
<1> SUFFICES ASSUME NetworkInit PROVE NetworkInv
  OBVIOUS
<1> USE DEF NetworkInit
<1>1. step \in Steps /\ step.at = "off" /\ step.left = {} /\ ~step.failed /\ ~step.unsaved
  BY AtType DEF NetworkPlaces
<1>2. /\ forwarding \in [Devices -> {0, 1}] /\ \A i \in Lan : forwarding[i] = original[i]
      /\ original \in [Lan -> {0, 1}]
  BY NoTunInLan DEF Devices
<1>3. ~natTable.present /\ natTable \in [present : BOOLEAN, rules : SUBSET GatewayRoutes]
  BY DEF NoTable
<1>4. NetworkTypeOK
  BY <1>1, <1>2, <1>3, NothingType, NoManifestType DEF NetworkTypeOK
<1>5. StageInv /\ MasqueradeInv
  BY <1>1 DEF StageInv, MasqueradeInv, Absent, Natted
<1>6. ManifestInv /\ HeldInv /\ RestoredInv
  BY <1>1, <1>2, <1>3, NoManifestType, NothingType DEF ManifestInv, HeldInv, RestoredInv, Absent
<1> QED
  BY <1>4, <1>5, <1>6 DEF NetworkInv, RecoverableInv

LEMMA RecoverStaleKeeps == ASSUME NetworkInv, RecoverStale PROVE NetworkInv'
<1> USE DEF NetworkInv
<1>1. CASE manifest.written
  <2>0. DOMAIN manifest.records \cap Lan \in SUBSET Devices
    BY NoTunInLan
  <2>1. /\ step' \in Steps /\ step'.at = "recover_lower" /\ ~step'.failed /\ ~step'.unsaved
        /\ step'.left = DOMAIN manifest.records \cap Lan
    BY <1>1, <2>0, AtType DEF RecoverStale, NetworkPlaces
  <2>2. NetworkTypeOK' /\ StageInv' /\ MasqueradeInv'
    BY <2>1 DEF RecoverStale, NetworkTypeOK, StageInv, MasqueradeInv, Absent, Natted
  <2>3. RecoverableInv'
    BY <2>1 DEF RecoverStale, RecoverableInv, ManifestInv, HeldInv, RestoredInv, Absent
  <2> QED
    BY <2>2, <2>3
<1>2. CASE ~manifest.written
  <2>1. /\ step' \in Steps /\ step'.at = "create" /\ ~step'.failed /\ ~step'.unsaved
    BY <1>2, AtType DEF RecoverStale, NetworkPlaces
  <2>2. NetworkTypeOK' /\ StageInv' /\ MasqueradeInv'
    BY <1>2, <2>1 DEF RecoverStale, NetworkTypeOK, StageInv, MasqueradeInv, Absent, Natted
  <2>3. RecoverableInv'
    BY <2>1 DEF RecoverStale, RecoverableInv, ManifestInv, HeldInv, RestoredInv, Absent
  <2> QED
    BY <2>2, <2>3
<1> QED
  BY <1>1, <1>2

LEMMA CreateKeeps == ASSUME NetworkInv, Create PROVE NetworkInv'
<1> USE DEF NetworkInv
<1>1. /\ step' \in Steps /\ step'.at = "write_manifest" /\ step'.failed = step.failed
      /\ step'.unsaved = step.unsaved
  BY GotoType DEF Create, NetworkPlaces, NetworkTypeOK
<1>2. /\ forwarding' \in [Devices -> {0, 1}]
      /\ \A i \in Lan : forwarding'[i] = forwarding[i]
  BY NoTunInLan DEF Create, NetworkTypeOK
<1>3. NetworkTypeOK' /\ StageInv' /\ MasqueradeInv'
  BY <1>1, <1>2 DEF Create, NetworkTypeOK, StageInv, MasqueradeInv, Absent, Natted
<1>4. RecoverableInv'
  BY <1>1, <1>2 DEF Create, RecoverableInv, ManifestInv, HeldInv, RestoredInv, Absent
<1> QED
  BY <1>3, <1>4

\* The process is gone and nothing it left is missing from the manifest.
LEMMA ProcessGone ==
    ASSUME NetworkInv, step' = At("off", {}), held' = Nothing, inForce' = {},
           UNCHANGED <<original, forwarding, natTable, manifest>>,
           lost' \in BOOLEAN, lost => lost',
           \/ lost' \/ Absent \/ ~step.unsaved
    PROVE  NetworkInv'
<1> USE DEF NetworkInv
<1>1. step' \in Steps /\ step'.at = "off" /\ ~step'.failed /\ ~step'.unsaved
  BY AtType DEF NetworkPlaces
<1>2. NetworkTypeOK' /\ StageInv' /\ MasqueradeInv'
  BY <1>1, NothingType DEF NetworkTypeOK, StageInv, MasqueradeInv, Absent, Natted
<1>3. CASE lost'
  BY <1>2, <1>3 DEF RecoverableInv
<1>4. CASE ~lost'
  <2>1. ManifestInv /\ HeldInv /\ RestoredInv
    BY <1>4 DEF RecoverableInv
  <2>2. ManifestInv'
    BY <1>4, <2>1 DEF ManifestInv, HeldInv, StageInv, Absent
  <2>3. HeldInv' /\ RestoredInv'
    BY <1>1, NothingType DEF HeldInv, RestoredInv, Absent
  <2> QED
    BY <1>2, <2>2, <2>3 DEF RecoverableInv
<1> QED
  BY <1>3, <1>4

LEMMA WriteManifestKeeps == ASSUME NetworkInv, WriteManifest PROVE NetworkInv'
<1> USE DEF NetworkInv
<1>1. CASE manifest' = [NoManifest EXCEPT !.written = TRUE] /\ Goto("idle", {})
  <2>1. /\ step' \in Steps /\ step'.at = "idle" /\ step'.failed = step.failed
        /\ step'.unsaved = step.unsaved
    BY <1>1, GotoType DEF NetworkPlaces, NetworkTypeOK
  <2>2. /\ manifest' \in [written : BOOLEAN, records : RecordSet, table : BOOLEAN]
        /\ manifest'.written /\ DOMAIN manifest'.records = {} /\ ~manifest'.table
    BY <1>1, NoManifestType
  <2>3. held = Nothing /\ DOMAIN held.records = {} /\ ~held.table /\ inForce = {} /\ ~step.unsaved
        /\ DOMAIN manifest.records = {} /\ ~manifest.table
    BY NothingType, NoManifestType DEF WriteManifest, StageInv, Absent
  <2>4. NetworkTypeOK' /\ StageInv' /\ MasqueradeInv'
    BY <2>1, <2>2, <2>3 DEF WriteManifest, NetworkTypeOK, StageInv, MasqueradeInv, Absent, Natted
  <2>5. RecoverableInv'
    BY <2>1, <2>2, <2>3 DEF WriteManifest, RecoverableInv, ManifestInv, HeldInv, RestoredInv, Absent
  <2> QED
    BY <2>4, <2>5
<1>2. CASE step' = At("off", {}) /\ UNCHANGED manifest
  <2>1. held = Nothing /\ inForce = {} /\ Absent
    BY DEF WriteManifest, StageInv, Absent
  <2> QED
    BY <1>2, <2>1, ProcessGone DEF WriteManifest, NetworkTypeOK
<1> QED
  BY <1>1, <1>2 DEF WriteManifest

\* What the records of a plan hold, and that they are old values.
LEMMA RecordedType ==
    ASSUME NetworkTypeOK, NEW desired \in SUBSET GatewayRoutes
    PROVE  /\ Recorded(desired) \in [records : RecordSet, table : BOOLEAN,
                                     gateway : SUBSET GatewayRoutes, subnet : SUBSET Prefixes]
           /\ Recorded(desired).records = Remembered(Forwarders(desired))
           /\ Recorded(desired).gateway = desired
           /\ held.table \/ Natted(desired) # {} => Recorded(desired).table
BY RememberedType, ForwardersType DEF Recorded, NetworkTypeOK

LEMMA RememberedOriginals ==
    ASSUME NetworkTypeOK, HeldInv, ~Absent, NEW interfaces \in SUBSET Devices
    PROVE  \A i \in Lan \cap DOMAIN Remembered(interfaces) :
              Remembered(interfaces)[i] = original[i]
BY RememberedType DEF HeldInv

LEMMA ReconcileGatewayKeeps ==
    ASSUME NetworkInv, NEW desired \in SUBSET GatewayRoutes, ReconcileGateway(desired)
    PROVE  NetworkInv'
<1> USE DEF NetworkInv
<1> DEFINE plan == Recorded(desired)
<1>0. /\ plan \in [records : RecordSet, table : BOOLEAN,
                   gateway : SUBSET GatewayRoutes, subnet : SUBSET Prefixes]
      /\ plan.records = Remembered(Forwarders(desired)) /\ plan.gateway = desired
      /\ held.table \/ Natted(desired) # {} => plan.table
      /\ DOMAIN plan.records = DOMAIN held.records \cup Forwarders(desired)
      /\ DOMAIN plan.records \subseteq Devices
  BY RecordedType, RememberedType, ForwardersType, RecordsOf
<1>1. ~Absent /\ ~step.unsaved /\ step.at = "idle"
  BY DEF ReconcileGateway, StageInv, Absent, Stopping
<1>2. ASSUME HeldInv PROVE \A i \in Lan \cap DOMAIN plan.records : plan.records[i] = original[i]
  BY <1>0, <1>1, <1>2, RememberedOriginals, ForwardersType
<1>3. CASE /\ held' = plan /\ manifest' = Manifest(plan)
           /\ step' = [At("lower", DOMAIN plan.records) EXCEPT !.owned = held.table]
  <2>1. /\ step' \in Steps /\ step'.at = "lower" /\ step'.left = DOMAIN plan.records
        /\ step'.owned = held.table /\ ~step'.failed /\ ~step'.unsaved
    BY <1>0, <1>3 DEF At, Steps, NetworkPlaces, NetworkTypeOK
  <2>2. /\ manifest' \in [written : BOOLEAN, records : RecordSet, table : BOOLEAN]
        /\ manifest'.written /\ manifest'.records = plan.records /\ manifest'.table = plan.table
    BY <1>0, <1>3, ManifestType
  <2> HIDE DEF plan
  <2>3. NetworkTypeOK'
    BY <1>0, <1>3, <2>1, <2>2 DEF ReconcileGateway, NetworkTypeOK
  <2>4. StageInv'
    BY <1>0, <1>3, <2>1, <2>2 DEF ReconcileGateway, StageInv, Absent
  <2>5. MasqueradeInv'
    BY <1>0, <1>1, <1>3, <2>1 DEF ReconcileGateway, MasqueradeInv, Natted
  <2>6. RecoverableInv'
    BY <1>0, <1>1, <1>2, <1>3, <2>1, <2>2
    DEF ReconcileGateway, RecoverableInv, ManifestInv, HeldInv, RestoredInv, Absent
  <2> QED
    BY <2>3, <2>4, <2>5, <2>6
<1>4. ASSUME step' = [At("stop", {}) EXCEPT !.unsaved = TRUE], UNCHANGED manifest,
             held' \in [records : RecordSet, table : BOOLEAN,
                        gateway : SUBSET GatewayRoutes, subnet : SUBSET Prefixes],
             DOMAIN held.records \subseteq DOMAIN held'.records, held.table => held'.table,
             HeldInv => \A i \in Lan \cap DOMAIN held'.records : held'.records[i] = original[i]
      PROVE  NetworkInv'
  <2>1. step' \in Steps /\ step'.at = "stop" /\ ~step'.failed /\ step'.unsaved
    BY <1>4 DEF At, Steps, NetworkPlaces
  <2>2. NetworkTypeOK' /\ StageInv' /\ MasqueradeInv'
    BY <1>1, <1>4, <2>1 DEF ReconcileGateway, NetworkTypeOK, StageInv, MasqueradeInv, Absent, Natted, Stopping
  <2>3. RecoverableInv'
    BY <1>1, <1>4, <2>1
    DEF ReconcileGateway, RecoverableInv, ManifestInv, HeldInv, RestoredInv, Absent
  <2> QED
    BY <2>2, <2>3
<1>5. CASE /\ step' = [At("stop", {}) EXCEPT !.unsaved = TRUE] /\ UNCHANGED manifest
           /\ held' = plan
  <2> HIDE DEF plan
  <2> QED
    BY <1>0, <1>2, <1>4, <1>5
<1>6. ASSUME step' = [At("stop", {}) EXCEPT !.unsaved = TRUE], UNCHANGED manifest,
             NEW interfaces \in SUBSET Forwarders(desired),
             held' = [held EXCEPT !.records = Remembered(interfaces)]
      PROVE  NetworkInv'
  <2>1. interfaces \in SUBSET Devices
    BY ForwardersType
  <2>2. /\ held' \in [records : RecordSet, table : BOOLEAN,
                      gateway : SUBSET GatewayRoutes, subnet : SUBSET Prefixes]
        /\ held'.records = Remembered(interfaces) /\ held'.table = held.table
    BY <1>6, <2>1, RememberedType DEF NetworkTypeOK
  <2>3. DOMAIN held.records \subseteq DOMAIN held'.records
    BY <2>1, <2>2, RememberedType
  <2>4. HeldInv => \A i \in Lan \cap DOMAIN held'.records : held'.records[i] = original[i]
    BY <1>1, <2>1, <2>2, RememberedOriginals
  <2> QED
    BY <1>4, <1>6, <2>2, <2>3, <2>4
<1> QED
  BY <1>3, <1>5, <1>6 DEF ReconcileGateway

\* An error ends the runtime loop: nothing of the host or of the records changes.
LEMMA StopKeeps ==
    ASSUME NetworkInv, Goto("stop", {}) \/ (step' = At("stop", {}) /\ ~step.unsaved),
           ~Absent, step.at \notin {"stop_lower", "stop_restore"},
           UNCHANGED <<original, forwarding, natTable, manifest, held, inForce, lost>>
    PROVE  NetworkInv'
<1> USE DEF NetworkInv
<1>1. step' \in Steps /\ step'.at = "stop" /\ step'.unsaved = step.unsaved
  <2>1. CASE Goto("stop", {})
    BY <2>1 DEF Goto, Steps, NetworkTypeOK, NetworkPlaces
  <2>2. CASE step' = At("stop", {}) /\ ~step.unsaved
    BY <2>2 DEF At, Steps, NetworkTypeOK, NetworkPlaces
  <2> QED
    BY <2>1, <2>2
<1>2. NetworkTypeOK' /\ StageInv'
  BY <1>1 DEF NetworkTypeOK, StageInv, Absent, Stopping
<1>3. inForce = {} \/ Tun \in DOMAIN held.records
  BY ForwardersType DEF MasqueradeInv, StageInv, Absent, NetworkTypeOK, Steps, NetworkPlaces
<1>4. MasqueradeInv'
  BY <1>1, <1>3 DEF MasqueradeInv, Natted
<1>5. RecoverableInv'
  BY <1>1 DEF RecoverableInv, ManifestInv, HeldInv, RestoredInv, Absent
<1> QED
  BY <1>2, <1>4, <1>5

LEMMA ValidationFailsKeeps == ASSUME NetworkInv, ValidationFails PROVE NetworkInv'
BY StopKeeps DEF ValidationFails, Absent

LEMMA SetForwardingOffKeeps ==
    ASSUME NetworkInv, NEW d \in Devices, SetForwardingOff(d) PROVE NetworkInv'
<1> USE DEF NetworkInv
<1>1. CASE /\ forwarding' = [forwarding EXCEPT ![d] = 0]
           /\ inForce' = IF d = Tun THEN {} ELSE inForce
           /\ step' = [step EXCEPT !.left = @ \ {d}]
  <2>1. /\ step' \in Steps
        /\ step'.at = step.at /\ step'.left = step.left \ {d}
        /\ step'.owned = step.owned /\ step'.failed = step.failed /\ step'.unsaved = step.unsaved
    BY <1>1, DoneType DEF NetworkTypeOK
  <2>2. /\ forwarding' \in [Devices -> {0, 1}]
        /\ \A i \in Lan : i # d => forwarding'[i] = forwarding[i]
    BY <1>1, NoTunInLan DEF NetworkTypeOK
  <2>3. NetworkTypeOK'
    BY <1>1, <2>1, <2>2 DEF SetForwardingOff, NetworkTypeOK
  <2>4. StageInv'
    BY <1>1, <2>1 DEF SetForwardingOff, StageInv, Absent, Removed
  <2>5. MasqueradeInv'
    BY <1>1, <2>1 DEF SetForwardingOff, MasqueradeInv, Natted
  <2>6. CASE step.at = "recover_lower"
    BY <2>1, <2>2, <2>3, <2>4, <2>5, <2>6
    DEF SetForwardingOff, RecoverableInv, ManifestInv, HeldInv, RestoredInv, Absent, StageInv
  <2>7. CASE step.at \in {"lower", "stop_lower"}
    BY <2>1, <2>2, <2>3, <2>4, <2>5, <2>7
    DEF SetForwardingOff, RecoverableInv, ManifestInv, HeldInv, RestoredInv, Absent, StageInv
  <2> QED
    BY <2>6, <2>7 DEF SetForwardingOff
<1>2. CASE /\ step.at = "lower" /\ step' = At("stop", {})
           /\ UNCHANGED <<forwarding, inForce>>
  BY <1>2, StopKeeps DEF SetForwardingOff, StageInv, Absent, Stopping
<1>3. CASE /\ step.at # "lower" /\ step' = [step EXCEPT !.left = @ \ {d}, !.failed = TRUE]
           /\ UNCHANGED <<forwarding, inForce>>
  <2>1. /\ step' \in Steps
        /\ step'.at = step.at /\ step'.left = step.left \ {d}
        /\ step'.failed /\ step'.unsaved = step.unsaved
    BY <1>3, MissedType DEF NetworkTypeOK
  <2>2. NetworkTypeOK' /\ StageInv' /\ MasqueradeInv'
    BY <1>3, <2>1 DEF SetForwardingOff, NetworkTypeOK, StageInv, MasqueradeInv, Absent, Natted, Removed
  <2>3. RecoverableInv'
    BY <1>3, <2>1
    DEF SetForwardingOff, RecoverableInv, ManifestInv, HeldInv, RestoredInv, Absent
  <2> QED
    BY <2>2, <2>3
<1> QED
  BY <1>1, <1>2, <1>3 DEF SetForwardingOff

LEMMA DropOldTableKeeps == ASSUME NetworkInv, DropOldTable PROVE NetworkInv'
<1> USE DEF NetworkInv
<1>1. CASE /\ natTable' = IF step.owned THEN NoTable ELSE natTable
           /\ Goto(IF Natted(held.gateway) = {} THEN "raise" ELSE "table", Forwarders(held.gateway))
           /\ held' = [held EXCEPT !.table = Natted(held.gateway) # {}]
  <2> DEFINE place == IF Natted(held.gateway) = {} THEN "raise" ELSE "table"
  <2>0. Forwarders(held.gateway) \in SUBSET Devices /\ place \in NetworkPlaces
    BY ForwardersType DEF NetworkTypeOK, NetworkPlaces
  <2>1. /\ step' \in Steps /\ step'.at = place /\ step'.left = Forwarders(held.gateway)
        /\ step'.failed = step.failed /\ step'.unsaved = step.unsaved
    BY <1>1, <2>0, GotoType DEF NetworkTypeOK
  <2>2. /\ held' \in [records : RecordSet, table : BOOLEAN,
                      gateway : SUBSET GatewayRoutes, subnet : SUBSET Prefixes]
        /\ held'.records = held.records /\ held'.gateway = held.gateway
        /\ held'.table = (Natted(held.gateway) # {})
    BY <1>1 DEF NetworkTypeOK
  <2>3. natTable' \in [present : BOOLEAN, rules : SUBSET GatewayRoutes]
    BY <1>1 DEF NetworkTypeOK, NoTable
  <2>4. inForce = {} /\ ~step.unsaved
    BY DEF DropOldTable, MasqueradeInv, StageInv, Stopping
  <2>5. NetworkTypeOK'
    BY <2>1, <2>2, <2>3 DEF DropOldTable, NetworkTypeOK
  <2>6. StageInv'
    BY <2>1, <2>2, <2>4 DEF DropOldTable, StageInv, Absent
  <2>7. MasqueradeInv'
    BY <2>1, <2>2, <2>4 DEF DropOldTable, MasqueradeInv, Natted
  <2>8. RecoverableInv'
    <3>1. CASE lost
      BY <3>1 DEF DropOldTable, RecoverableInv
    <3>2. CASE ~lost
      <4>1. ~natTable'.present
        BY <1>1, <3>2 DEF DropOldTable, RecoverableInv, HeldInv, NoTable
      <4> QED
        BY <2>1, <2>2, <2>4, <3>2, <4>1
        DEF DropOldTable, RecoverableInv, ManifestInv, HeldInv, RestoredInv, Absent, StageInv
    <3> QED
      BY <3>1, <3>2
  <2> QED
    BY <2>5, <2>6, <2>7, <2>8
<1>2. CASE Goto("stop", {}) /\ UNCHANGED <<natTable, held>>
  BY <1>2, StopKeeps DEF DropOldTable, Absent
<1> QED
  BY <1>1, <1>2 DEF DropOldTable

LEMMA CreateTableKeeps == ASSUME NetworkInv, CreateTable PROVE NetworkInv'
<1> USE DEF NetworkInv
<1>1. CASE natTable' = [present |-> TRUE, rules |-> {}] /\ Goto("rules", step.left)
  <2>1. /\ step' \in Steps /\ step'.at = "rules" /\ step'.left = step.left
        /\ step'.failed = step.failed /\ step'.unsaved = step.unsaved
    BY <1>1, GotoType DEF NetworkTypeOK, NetworkPlaces, Steps
  <2>2. natTable' \in [present : BOOLEAN, rules : SUBSET GatewayRoutes] /\ inForce = {}
    BY <1>1 DEF CreateTable, MasqueradeInv
  <2>3. NetworkTypeOK' /\ StageInv' /\ MasqueradeInv'
    BY <2>2, <2>1 DEF CreateTable, NetworkTypeOK, StageInv, MasqueradeInv, Absent, Natted, Stopping
  <2>4. RecoverableInv'
    BY <1>1, <2>1
    DEF CreateTable, RecoverableInv, ManifestInv, HeldInv, RestoredInv, Absent, StageInv
  <2> QED
    BY <2>3, <2>4
<1>2. CASE Goto("stop", {}) /\ UNCHANGED natTable
  BY <1>2, StopKeeps DEF CreateTable, Absent
<1> QED
  BY <1>1, <1>2 DEF CreateTable

LEMMA CreateRuleKeeps == ASSUME NetworkInv, CreateRule PROVE NetworkInv'
<1> USE DEF NetworkInv
<1>0. inForce = {} /\ ~step.unsaved
  BY DEF CreateRule, MasqueradeInv, StageInv, Stopping
<1>1. ASSUME NEW r \in Natted(held.gateway) \ natTable.rules,
             natTable' = [natTable EXCEPT !.rules = @ \cup {r}],
             Goto(IF natTable'.rules = Natted(held.gateway) THEN "raise" ELSE "rules", step.left)
      PROVE  NetworkInv'
  <2> DEFINE place == IF natTable'.rules = Natted(held.gateway) THEN "raise" ELSE "rules"
  <2>1. /\ step' \in Steps /\ step'.at = place /\ step'.left = step.left
        /\ step'.failed = step.failed /\ step'.unsaved = step.unsaved
    BY <1>1, GotoType DEF NetworkTypeOK, NetworkPlaces, Steps
  <2>2. /\ natTable' \in [present : BOOLEAN, rules : SUBSET GatewayRoutes]
        /\ natTable'.present = natTable.present
    BY <1>1 DEF NetworkTypeOK, Natted
  <2>3. NetworkTypeOK' /\ StageInv' /\ MasqueradeInv'
    BY <1>0, <2>1, <2>2 DEF CreateRule, NetworkTypeOK, StageInv, MasqueradeInv, Absent, Natted
  <2>4. RecoverableInv'
    BY <1>0, <2>1, <2>2
    DEF CreateRule, RecoverableInv, ManifestInv, HeldInv, RestoredInv, Absent, StageInv
  <2> QED
    BY <2>3, <2>4
<1>2. CASE natTable' \in {NoTable, natTable} /\ Goto("stop", {})
  <2>1. /\ step' \in Steps /\ step'.at = "stop"
        /\ step'.failed = step.failed /\ step'.unsaved = step.unsaved
    BY <1>2, GotoType DEF NetworkTypeOK, NetworkPlaces
  <2>2. /\ natTable' \in [present : BOOLEAN, rules : SUBSET GatewayRoutes]
        /\ natTable'.present => natTable.present
    <3>1. CASE natTable' = NoTable
      BY <3>1 DEF NoTable
    <3>2. CASE natTable' = natTable
      BY <3>2 DEF NetworkTypeOK
    <3> QED
      BY <1>2, <3>1, <3>2
  <2>3. NetworkTypeOK' /\ StageInv' /\ MasqueradeInv'
    BY <1>0, <2>1, <2>2 DEF CreateRule, NetworkTypeOK, StageInv, MasqueradeInv, Absent, Natted
  <2>4. RecoverableInv'
    BY <1>0, <2>1, <2>2
    DEF CreateRule, RecoverableInv, ManifestInv, HeldInv, RestoredInv, Absent
  <2> QED
    BY <2>3, <2>4
<1> QED
  BY <1>1, <1>2 DEF CreateRule

LEMMA SetForwardingOnKeeps ==
    ASSUME NetworkInv, NEW d \in Devices, SetForwardingOn(d) PROVE NetworkInv'
<1> USE DEF NetworkInv
<1>1. CASE /\ forwarding' = [forwarding EXCEPT ![d] = 1]
           /\ inForce' = IF d = Tun THEN held.gateway ELSE inForce
           /\ step' = [step EXCEPT !.left = @ \ {d}]
  <2>1. /\ step' \in Steps
        /\ step'.at = "raise" /\ step'.left = step.left \ {d}
        /\ step'.failed = step.failed /\ step'.unsaved = step.unsaved
    BY <1>1, DoneType DEF NetworkTypeOK, SetForwardingOn
  <2>2. /\ forwarding' \in [Devices -> {0, 1}]
        /\ \A i \in Lan : i # d => forwarding'[i] = forwarding[i]
    BY <1>1, NoTunInLan DEF NetworkTypeOK
  <2>3. d \in DOMAIN held.records /\ ~step.unsaved
    BY DEF SetForwardingOn, StageInv, Stopping
  <2>4. NetworkTypeOK' /\ StageInv'
    BY <1>1, <2>1, <2>2 DEF SetForwardingOn, NetworkTypeOK, StageInv, Absent
  <2>5. MasqueradeInv'
    BY <1>1, <2>1 DEF SetForwardingOn, MasqueradeInv, Natted
  <2>6. RecoverableInv'
    BY <2>1, <2>2, <2>3
    DEF SetForwardingOn, RecoverableInv, ManifestInv, HeldInv, RestoredInv, Absent
  <2> QED
    BY <2>4, <2>5, <2>6
<1>2. CASE Goto("stop", {}) /\ UNCHANGED <<forwarding, inForce>>
  BY <1>2, StopKeeps DEF SetForwardingOn, Absent
<1> QED
  BY <1>1, <1>2 DEF SetForwardingOn

LEMMA RaisedKeeps == ASSUME NetworkInv, Raised PROVE NetworkInv'
<1> USE DEF NetworkInv
<1>0. Removed \in SUBSET Devices
  BY RecordsOf DEF Removed, NetworkTypeOK
<1>1. /\ step' \in Steps /\ step'.at = "restore" /\ step'.left = Removed
      /\ step'.failed = step.failed /\ step'.unsaved = step.unsaved
  BY <1>0, GotoType DEF Raised, NetworkTypeOK, NetworkPlaces
<1>2. NetworkTypeOK' /\ StageInv' /\ MasqueradeInv'
  BY <1>1 DEF Raised, NetworkTypeOK, StageInv, MasqueradeInv, Absent, Removed, Stopping
<1>3. RecoverableInv'
  BY <1>1 DEF Raised, RecoverableInv, ManifestInv, HeldInv, RestoredInv, Absent, Removed
<1> QED
  BY <1>2, <1>3

LEMMA RestoreForwardingKeeps ==
    ASSUME NetworkInv, NEW d \in Devices, RestoreForwarding(d) PROVE NetworkInv'
<1> USE DEF NetworkInv
<1>0. /\ step.at \in {"restore", "stop_restore"} => d \in DOMAIN held.records
      /\ step.at = "recover_restore" => d \in DOMAIN manifest.records
  BY DEF RestoreForwarding, StageInv, Removed
<1>1. CASE /\ forwarding' = [forwarding EXCEPT ![d] = Previous(d)]
           /\ step' = [step EXCEPT !.left = @ \ {d}]
  <2>1. /\ step' \in Steps
        /\ step'.at = step.at /\ step'.left = step.left \ {d}
        /\ step'.failed = step.failed /\ step'.unsaved = step.unsaved
    BY <1>1, DoneType DEF NetworkTypeOK
  <2>2. Previous(d) \in {0, 1}
    BY <1>0, RecordsOf DEF Previous, RestoreForwarding, NetworkTypeOK
  <2>3. /\ forwarding' \in [Devices -> {0, 1}]
        /\ \A i \in Lan : i # d => forwarding'[i] = forwarding[i]
        /\ d \in Lan => forwarding'[d] = Previous(d)
    BY <1>1, <2>2, NoTunInLan DEF NetworkTypeOK
  <2>4. NetworkTypeOK' /\ StageInv' /\ MasqueradeInv'
    BY <2>1, <2>3 DEF RestoreForwarding, NetworkTypeOK, StageInv, MasqueradeInv, Absent, Natted, Removed
  <2>5. RecoverableInv'
    <3>1. CASE step.at = "recover_restore"
      BY <1>0, <2>1, <2>3, <3>1
      DEF RestoreForwarding, RecoverableInv, ManifestInv, HeldInv, RestoredInv, Absent, Previous
    <3>2. CASE step.at = "stop_restore"
      BY <1>0, <2>1, <2>3, <3>2
      DEF RestoreForwarding, RecoverableInv, ManifestInv, HeldInv, RestoredInv, Absent, Previous
    <3>3. CASE step.at = "restore"
      BY <1>0, <2>1, <2>3, <3>3
      DEF RestoreForwarding, RecoverableInv, ManifestInv, HeldInv, RestoredInv, Absent, Previous, Removed
    <3> QED
      BY <3>1, <3>2, <3>3 DEF RestoreForwarding
  <2> QED
    BY <2>4, <2>5
<1>2. CASE /\ step' = [step EXCEPT !.left = @ \ {d}, !.failed = TRUE] /\ UNCHANGED forwarding
  <2>1. /\ step' \in Steps
        /\ step'.at = step.at /\ step'.left = step.left \ {d}
        /\ step'.failed /\ step'.unsaved = step.unsaved
    BY <1>2, MissedType DEF NetworkTypeOK
  <2>2. NetworkTypeOK' /\ StageInv' /\ MasqueradeInv'
    BY <1>2, <2>1 DEF RestoreForwarding, NetworkTypeOK, StageInv, MasqueradeInv, Absent, Natted, Removed
  <2>3. RecoverableInv'
    BY <1>2, <2>1
    DEF RestoreForwarding, RecoverableInv, ManifestInv, HeldInv, RestoredInv, Absent
  <2> QED
    BY <2>2, <2>3
<1> QED
  BY <1>1, <1>2 DEF RestoreForwarding

LEMMA ReconcileEndsKeeps == ASSUME NetworkInv, ReconcileEnds PROVE NetworkInv'
<1> USE DEF NetworkInv
<1>0. ~step.unsaved /\ step.at = "restore" /\ step.left = {} /\ ~Absent
  BY DEF ReconcileEnds, StageInv, Stopping, Absent
<1>1. CASE step.failed /\ step' = At("stop", {}) /\ UNCHANGED <<held, manifest>>
  BY <1>0, <1>1, StopKeeps DEF ReconcileEnds
<1>2. CASE ~step.failed /\ held' = Retained
  <2>1. /\ held' \in [records : RecordSet, table : BOOLEAN,
                      gateway : SUBSET GatewayRoutes, subnet : SUBSET Prefixes]
        /\ DOMAIN held'.records = DOMAIN held.records \ Removed
        /\ \A d \in DOMAIN held'.records : held'.records[d] = held.records[d]
        /\ held'.table = held.table /\ held'.gateway = held.gateway
    BY <1>2, RetainedType
  <2>2. inForce = {} \/ Tun \in DOMAIN held'.records
    BY <1>0, <2>1, ForwardersType DEF MasqueradeInv, StageInv, Removed, NetworkTypeOK
  <2>3. HeldInv /\ RestoredInv => \A i \in Lan \ DOMAIN held'.records : forwarding[i] = original[i]
    BY <1>0, <1>2, <2>1 DEF HeldInv, RestoredInv
  <2>4. CASE manifest' = Manifest(Retained) /\ Goto("idle", {})
    <3>1. /\ step' \in Steps /\ step'.at = "idle"
          /\ step'.failed = step.failed /\ step'.unsaved = step.unsaved
      BY <2>4, GotoType DEF NetworkTypeOK, NetworkPlaces
    <3>2. /\ manifest' \in [written : BOOLEAN, records : RecordSet, table : BOOLEAN]
          /\ manifest'.written /\ manifest'.records = held'.records /\ manifest'.table = held'.table
      BY <1>2, <2>1, <2>4, ManifestType
    <3>3. NetworkTypeOK' /\ StageInv' /\ MasqueradeInv'
      BY <1>0, <2>1, <2>2, <3>1, <3>2
      DEF ReconcileEnds, NetworkTypeOK, StageInv, MasqueradeInv, Absent, Natted
    <3>4. RecoverableInv'
      BY <1>0, <2>1, <2>3, <3>1, <3>2
      DEF ReconcileEnds, RecoverableInv, ManifestInv, HeldInv, RestoredInv, Absent
    <3> QED
      BY <3>3, <3>4
  <2>5. CASE UNCHANGED manifest /\ Goto("stop", {})
    <3>1. /\ step' \in Steps /\ step'.at = "stop"
          /\ step'.failed = step.failed /\ step'.unsaved = step.unsaved
      BY <2>5, GotoType DEF NetworkTypeOK, NetworkPlaces
    <3>2. NetworkTypeOK' /\ StageInv' /\ MasqueradeInv'
      BY <1>0, <2>1, <2>2, <2>5, <3>1
      DEF ReconcileEnds, NetworkTypeOK, StageInv, MasqueradeInv, Absent, Natted
    <3>3. RecoverableInv'
      BY <1>0, <2>1, <2>3, <2>5, <3>1
      DEF ReconcileEnds, RecoverableInv, ManifestInv, HeldInv, RestoredInv, Absent
    <3> QED
      BY <3>2, <3>3
  <2> QED
    BY <1>2, <2>4, <2>5 DEF ReconcileEnds
<1> QED
  BY <1>1, <1>2 DEF ReconcileEnds

LEMMA ReconcileSubnetsKeeps ==
    ASSUME NetworkInv, NEW desired \in SUBSET Prefixes, ReconcileSubnets(desired)
    PROVE  NetworkInv'
<1> USE DEF NetworkInv
<1>0. step.at = "idle" /\ ~step.unsaved /\ ~Absent
  BY DEF ReconcileSubnets, StageInv, Stopping, Absent
<1>1. ASSUME NEW subnet \in SUBSET Prefixes, held' = [held EXCEPT !.subnet = subnet],
             NEW place \in {"persist", "stop"}, Goto(place, {})
      PROVE  NetworkInv'
  <2>1. /\ step' \in Steps /\ step'.at = place
        /\ step'.failed = step.failed /\ step'.unsaved = step.unsaved
    BY <1>1, GotoType DEF NetworkTypeOK, NetworkPlaces
  <2>2. /\ held' \in [records : RecordSet, table : BOOLEAN,
                      gateway : SUBSET GatewayRoutes, subnet : SUBSET Prefixes]
        /\ held'.records = held.records /\ held'.table = held.table /\ held'.gateway = held.gateway
    BY <1>1 DEF NetworkTypeOK
  <2>3. NetworkTypeOK' /\ StageInv' /\ MasqueradeInv'
    BY <1>0, <2>1, <2>2
    DEF ReconcileSubnets, NetworkTypeOK, StageInv, MasqueradeInv, Absent, Natted
  <2>4. RecoverableInv'
    BY <1>0, <2>1, <2>2
    DEF ReconcileSubnets, RecoverableInv, ManifestInv, HeldInv, RestoredInv, Absent
  <2> QED
    BY <2>3, <2>4
<1>2. CASE Goto("stop", {}) /\ UNCHANGED held
  BY <1>0, <1>2, StopKeeps DEF ReconcileSubnets
<1>3. CASE held' = [held EXCEPT !.subnet = desired] /\ Goto("persist", {})
  BY <1>1, <1>3
<1>4. ASSUME NEW kept \in SUBSET (held.subnet \ desired),
             held' = [held EXCEPT !.subnet = desired \cup kept], Goto("stop", {})
      PROVE  NetworkInv'
  <2>1. desired \cup kept \in SUBSET Prefixes
    BY DEF NetworkTypeOK
  <2> QED
    BY <1>1, <1>4, <2>1
<1> QED
  BY <1>2, <1>3, <1>4 DEF ReconcileSubnets

LEMMA PersistManifestKeeps == ASSUME NetworkInv, PersistManifest PROVE NetworkInv'
<1> USE DEF NetworkInv
<1>0. step.at = "persist" /\ ~step.unsaved /\ ~Absent
  BY DEF PersistManifest, StageInv, Stopping, Absent
<1>1. CASE manifest' = Manifest(held) /\ Goto("idle", {})
  <2>1. /\ step' \in Steps /\ step'.at = "idle"
        /\ step'.failed = step.failed /\ step'.unsaved = step.unsaved
    BY <1>1, GotoType DEF NetworkTypeOK, NetworkPlaces
  <2>2. /\ manifest' \in [written : BOOLEAN, records : RecordSet, table : BOOLEAN]
        /\ manifest'.written /\ manifest'.records = held.records /\ manifest'.table = held.table
    BY <1>1, ManifestType DEF NetworkTypeOK
  <2>3. NetworkTypeOK' /\ StageInv' /\ MasqueradeInv'
    BY <1>0, <2>1, <2>2
    DEF PersistManifest, NetworkTypeOK, StageInv, MasqueradeInv, Absent, Natted
  <2>4. RecoverableInv'
    BY <1>0, <2>1, <2>2
    DEF PersistManifest, RecoverableInv, ManifestInv, HeldInv, RestoredInv, Absent
  <2> QED
    BY <2>3, <2>4
<1>2. CASE Goto("stop", {}) /\ UNCHANGED manifest
  BY <1>0, <1>2, StopKeeps DEF PersistManifest
<1> QED
  BY <1>1, <1>2 DEF PersistManifest

LEMMA ShutdownKeeps == ASSUME NetworkInv, Shutdown PROVE NetworkInv'
<1> USE DEF NetworkInv
<1>0. DOMAIN held.records \in SUBSET Devices
  BY RecordsOf DEF NetworkTypeOK
<1>1. /\ step' \in Steps /\ step'.at = "stop_lower" /\ step'.left = DOMAIN held.records
      /\ ~step'.failed /\ step'.unsaved = step.unsaved
  BY <1>0 DEF Shutdown, At, Steps, NetworkTypeOK, NetworkPlaces
<1>2. NetworkTypeOK' /\ StageInv' /\ MasqueradeInv'
  BY <1>1 DEF Shutdown, NetworkTypeOK, StageInv, MasqueradeInv, Absent, Natted, Stopping
<1>3. RecoverableInv'
  BY <1>1 DEF Shutdown, RecoverableInv, ManifestInv, HeldInv, RestoredInv, Absent
<1> QED
  BY <1>2, <1>3

\* delete_nat_table, in a shutdown and in a recovery.
LEMMA DeleteTableType ==
    ASSUME NetworkTypeOK, NEW from, NEW owned \in BOOLEAN, NEW to \in NetworkPlaces,
           NEW records \in SUBSET Devices, DeleteTable(from, owned, to, records)
    PROVE  /\ step' \in Steps /\ step'.at = to /\ step'.left = records
           /\ step.failed => step'.failed
           /\ step'.unsaved = step.unsaved
           /\ natTable' \in [present : BOOLEAN, rules : SUBSET GatewayRoutes]
           /\ natTable'.present => natTable.present
           /\ \/ step'.failed
              \/ ~owned /\ natTable' = natTable
              \/ ~natTable'.present
<1>1. CASE natTable' = (IF owned THEN NoTable ELSE natTable) /\ Goto(to, records)
  BY <1>1, GotoType DEF NetworkTypeOK, NoTable
<1>2. CASE /\ step' = [step EXCEPT !.at = to, !.left = records, !.failed = TRUE]
           /\ UNCHANGED natTable
  BY <1>2 DEF NetworkTypeOK, Steps
<1> QED
  BY <1>1, <1>2 DEF DeleteTable

LEMMA StopDeletesTableKeeps == ASSUME NetworkInv, StopDeletesTable PROVE NetworkInv'
<1> USE DEF NetworkInv
<1>0. DOMAIN held.records \in SUBSET Devices /\ held.table \in BOOLEAN
  BY RecordsOf DEF NetworkTypeOK
<1>1. step.at = "stop_lower" /\ step.left = {}
      /\ UNCHANGED <<original, forwarding, manifest, held, inForce, lost>>
  BY DEF StopDeletesTable, DeleteTable
<1>2. /\ step' \in Steps /\ step'.at = "stop_restore" /\ step'.left = DOMAIN held.records
      /\ step.failed => step'.failed
      /\ step'.unsaved = step.unsaved
      /\ natTable' \in [present : BOOLEAN, rules : SUBSET GatewayRoutes]
      /\ natTable'.present => natTable.present
      /\ \/ step'.failed
         \/ ~held.table /\ natTable' = natTable
         \/ ~natTable'.present
  BY <1>0, DeleteTableType DEF StopDeletesTable, NetworkPlaces
<1>3. NetworkTypeOK' /\ StageInv' /\ MasqueradeInv'
  BY <1>1, <1>2 DEF NetworkTypeOK, StageInv, MasqueradeInv, Absent, Natted, Stopping
<1>4. RecoverableInv'
  BY <1>1, <1>2 DEF RecoverableInv, ManifestInv, HeldInv, RestoredInv, Absent
<1> QED
  BY <1>3, <1>4

LEMMA RecoveryDeletesTableKeeps == ASSUME NetworkInv, RecoveryDeletesTable PROVE NetworkInv'
<1> USE DEF NetworkInv
<1> DEFINE left == DOMAIN manifest.records \cap Lan
<1>0. left \in SUBSET Devices /\ manifest.table \in BOOLEAN
  BY NoTunInLan DEF NetworkTypeOK
<1>1. step.at = "recover_lower" /\ step.left = {}
      /\ UNCHANGED <<original, forwarding, manifest, held, inForce, lost>>
  BY DEF RecoveryDeletesTable, DeleteTable
<1>2. /\ step' \in Steps /\ step'.at = "recover_restore"
      /\ step'.left = left
      /\ step.failed => step'.failed
      /\ step'.unsaved = step.unsaved
      /\ natTable' \in [present : BOOLEAN, rules : SUBSET GatewayRoutes]
      /\ natTable'.present => natTable.present
      /\ \/ step'.failed
         \/ ~manifest.table /\ natTable' = natTable
         \/ ~natTable'.present
  <2> HIDE DEF left
  <2>1. CASE /\ natTable' = IF manifest.table THEN NoTable ELSE natTable
             /\ Goto("recover_restore", left)
    BY <1>0, <2>1, GotoType DEF NetworkTypeOK, NetworkPlaces, NoTable
  <2>2. CASE /\ step' = [step EXCEPT !.at = "recover_restore", !.left = left, !.failed = TRUE]
             /\ UNCHANGED natTable
    BY <1>0, <2>2 DEF NetworkTypeOK, NetworkPlaces, Steps
  <2> QED
    BY <2>1, <2>2 DEF RecoveryDeletesTable, DeleteTable, left
<1>3. NetworkTypeOK' /\ StageInv' /\ MasqueradeInv'
  BY <1>1, <1>2 DEF NetworkTypeOK, StageInv, MasqueradeInv, Absent, Natted, Stopping
<1>4. RecoverableInv'
  BY <1>1, <1>2 DEF RecoverableInv, ManifestInv, HeldInv, RestoredInv, Absent
<1> QED
  BY <1>3, <1>4

LEMMA ShutdownEndsKeeps == ASSUME NetworkInv, ShutdownEnds PROVE NetworkInv'
<1> USE DEF NetworkInv
<1>0. step.at = "stop_restore" /\ step.left = {} /\ ~Absent
  BY DEF ShutdownEnds, Absent
<1>1. step' \in Steps /\ step'.at = "off" /\ ~step'.failed /\ ~step'.unsaved
  BY AtType DEF ShutdownEnds, NetworkPlaces
\* A clean-up without a failure leaves nothing behind.
<1>2. ASSUME ~lost, ~step.failed
      PROVE  /\ \A i \in Lan : forwarding[i] = original[i]
             /\ ~natTable.present
  BY <1>0, <1>2 DEF RecoverableInv, HeldInv, RestoredInv
<1>3. CASE manifest' = NoManifest /\ lost' = (lost \/ step.failed)
  <2>1. NetworkTypeOK' /\ StageInv' /\ MasqueradeInv'
    BY <1>1, <1>3, NothingType, NoManifestType
    DEF ShutdownEnds, NetworkTypeOK, StageInv, MasqueradeInv, Absent, Natted, Steps
  <2>2. RecoverableInv'
    BY <1>1, <1>2, <1>3, NothingType, NoManifestType
    DEF ShutdownEnds, RecoverableInv, ManifestInv, HeldInv, RestoredInv, Absent
  <2> QED
    BY <2>1, <2>2
<1>4. CASE UNCHANGED manifest /\ lost' = (lost \/ (step.failed /\ step.unsaved))
  <2>0. lost' \in BOOLEAN
    BY <1>4 DEF NetworkTypeOK, Steps
  <2>1. CASE lost' \/ ~step.unsaved
    BY <1>4, <2>0, <2>1, ProcessGone DEF ShutdownEnds
  <2>2. CASE ~lost' /\ step.unsaved
    <3>1. NetworkTypeOK' /\ StageInv' /\ MasqueradeInv'
      BY <1>1, <1>4, <2>0, NothingType
      DEF ShutdownEnds, NetworkTypeOK, StageInv, MasqueradeInv, Absent, Natted
    <3>2. ~lost /\ ~step.failed
      BY <1>4, <2>2
    <3>3. RecoverableInv'
      BY <1>1, <1>2, <1>4, <3>2, NothingType
      DEF ShutdownEnds, RecoverableInv, ManifestInv, HeldInv, RestoredInv, Absent
    <3> QED
      BY <3>1, <3>3
  <2> QED
    BY <2>1, <2>2
<1> QED
  BY <1>3, <1>4 DEF ShutdownEnds

LEMMA RecoveryEndsKeeps == ASSUME NetworkInv, RecoveryEnds PROVE NetworkInv'
<1> USE DEF NetworkInv
<1>0. step.at = "recover_restore" /\ step.left = {} /\ Absent /\ held = Nothing /\ inForce = {}
      /\ ~step.unsaved
  BY DEF RecoveryEnds, Absent, StageInv
<1>1. CASE ~step.failed /\ manifest' = NoManifest /\ step' = At("create", {})
  <2>1. step' \in Steps /\ step'.at = "create" /\ ~step'.failed /\ ~step'.unsaved
    BY <1>1, AtType DEF NetworkPlaces
  <2>2. NetworkTypeOK' /\ StageInv' /\ MasqueradeInv'
    BY <1>0, <1>1, <2>1, NoManifestType
    DEF RecoveryEnds, NetworkTypeOK, StageInv, MasqueradeInv, Absent, Natted
  <2>3. RecoverableInv'
    BY <1>0, <1>1, <2>1, NoManifestType, NothingType
    DEF RecoveryEnds, RecoverableInv, ManifestInv, HeldInv, RestoredInv, Absent
  <2> QED
    BY <2>2, <2>3
<1>2. CASE step' = At("off", {}) /\ UNCHANGED manifest
  BY <1>0, <1>2, ProcessGone DEF RecoveryEnds, NetworkTypeOK
<1> QED
  BY <1>1, <1>2 DEF RecoveryEnds

LEMMA CrashNetworkKeeps == ASSUME NetworkInv, CrashNetwork PROVE NetworkInv'
<1>1. lost' \in BOOLEAN
  BY DEF CrashNetwork, NetworkInv, NetworkTypeOK, Steps
<1> QED
  BY <1>1, ProcessGone DEF CrashNetwork, NetworkInv, NetworkTypeOK

LEMMA NetworkStep == NetworkInv /\ [NetworkNext]_networkVars => NetworkInv'
<1> SUFFICES ASSUME NetworkInv, [NetworkNext]_networkVars PROVE NetworkInv'
  OBVIOUS
<1>1. CASE UNCHANGED networkVars
  BY <1>1
  DEF networkVars, NetworkInv, NetworkTypeOK, StageInv, MasqueradeInv, RecoverableInv,
      ManifestInv, HeldInv, RestoredInv, Absent, Removed
<1>2. CASE NetworkNext
  BY <1>2, RecoverStaleKeeps, CreateKeeps, WriteManifestKeeps, ReconcileGatewayKeeps,
     ReconcileSubnetsKeeps, SetForwardingOffKeeps, SetForwardingOnKeeps, RestoreForwardingKeeps,
     DropOldTableKeeps, CreateTableKeeps, CreateRuleKeeps, RaisedKeeps, ReconcileEndsKeeps,
     PersistManifestKeeps, ValidationFailsKeeps, ShutdownKeeps, StopDeletesTableKeeps,
     ShutdownEndsKeeps, RecoveryDeletesTableKeeps, RecoveryEndsKeeps, CrashNetworkKeeps
  DEF NetworkNext
<1> QED
  BY <1>1, <1>2

LEMMA NetworkInvariant == NetworkSpec => []NetworkInv
BY NetworkInitially, NetworkStep, PTL DEF NetworkSpec

\* HostRecoverable, for any interfaces, gateway routes and number of faults: the
\* manifest of network.rs is always enough to undo what the agent did to the host.
THEOREM ManifestRecovers == NetworkSpec => []HostRecoverable
<1>1. NetworkInv => HostRecoverable
  BY DEF NetworkInv, RecoverableInv, ManifestInv, HeldInv, HostRecoverable
<1> QED
  BY <1>1, NetworkInvariant, PTL

\* MasqueradeBeforeForwarding, likewise: reconcile_gateway_routes never lets the
\* TUN device forward for a NAT route without its masquerade rule.
THEOREM NeverUnmasked == NetworkSpec => []MasqueradeBeforeForwarding
<1>1. NetworkInv => MasqueradeBeforeForwarding
  BY DEF NetworkInv, MasqueradeInv, MasqueradeBeforeForwarding
<1> QED
  BY <1>1, NetworkInvariant, PTL

-------------------------------------------------------------------------------
(***************************************************************************)
(* Staged updates.                                                         *)
(***************************************************************************)

Decisions == {"eligible", "required"}
Directives == [release : Releases, generation : Nat, decision : Decisions,
               minimum : Releases \cup {0}]
Requests == [release : Releases, generation : Nat, decision : Decisions]
Stages == [generation : Nat, decision : Decisions] \cup {NoStage}
Updaters == [version : Versions \cup {0}, connected : BOOLEAN,
             at : {"loop", "verify", "download", "publish"},
             state : {"idle", "downloading", "staged", "failed"},
             observed : Releases \cup {0}, attempted : Nat \X Nat,
             directive : Directives \cup {NoUpdate}]
Helpers == [at : {"none", "copied", "unpacked", "registered", "switched", "applied", "remove"},
            request : Requests \cup {NoUpdate}, old : Versions \cup {0}, created : BOOLEAN]

\* What is written on disk and in the policy's row is of its type.
StoredType ==
    /\ policy.generation \in Nat
    /\ policy.generation > 0 => policy.release \in Releases
    /\ policy.minimum \in Releases \cup {0}
    /\ released \subseteq Releases
    /\ reported \in Nat
    /\ directives \in Seq(Directives)
    /\ stage \in [Releases -> Stages]
    /\ request \in Requests \cup {NoUpdate}

\* A helper at work has a request, and once it has begun a release to return to.
HelperType(h) ==
    /\ h.at # "none" => h.request \in Requests
    /\ h.at \in {"unpacked", "registered", "switched"} => h.old \in Versions

\* And so is what the agent, the helper and the installer work with.
ProcessType ==
    /\ updater \in Updaters
    /\ updater.at # "loop" => updater.directive \in Directives
    /\ helper \in Helpers
    /\ HelperType(helper)
    /\ versions \in [Versions -> {"absent", "unpacked", "complete"}]
    /\ links \in [current : Versions, previous : Versions \cup {0}]

UpdatesType == StoredType /\ ProcessType

\* Zero is no version, and versions are ordered as numbers.
LEMMA VersionsPositive ==
    /\ \A v \in Versions : v \in Nat /\ v # 0
    /\ \A r \in Releases : r \in Versions
    /\ FirstVersion \in Versions
BY UpdatesAssumption DEF Versions

\* What the sequence operators give.
LEMMA QueuedType ==
    ASSUME StoredType, NEW queue \in Seq(Directives), NEW version \in Nat
    PROVE  Queued(queue, version) \in Seq(Directives)
<1>1. DirectiveFor(version) \in Seq(Directives)
  <2>1. CASE policy.generation > 0 /\ Decide(version) \in Decisions
    <3>1. [release |-> policy.release, generation |-> policy.generation,
           decision |-> Decide(version), minimum |-> policy.minimum] \in Directives
      BY <2>1 DEF StoredType, Directives
    <3> QED
      BY <2>1, <3>1 DEF DirectiveFor, Decisions
  <2>2. CASE ~(policy.generation > 0 /\ Decide(version) \in Decisions)
    BY <2>2 DEF DirectiveFor, Decisions
  <2> QED
    BY <2>1, <2>2
<1> QED
  BY <1>1 DEF Queued

\* A new process is of its type.
LEMMA ProcessTyped ==
    ASSUME NEW v \in Versions \cup {0}
    PROVE  /\ Process(v) \in Updaters
           /\ Process(v).at = "loop"
           /\ Process(v).version = v
BY DEF Process, Updaters

\* No helper is of its type.
LEMMA NoHelperTyped ==
    NoHelper \in Helpers /\ NoHelper.at = "none" /\ HelperType(NoHelper)
BY DEF NoHelper, Helpers, HelperType

\* A report and its answer keep the directives of their type.
LEMMA ReportingType ==
    ASSUME StoredType, updater \in Updaters, NEW queue \in Seq(Directives), Reporting(queue)
    PROVE  reported' \in Nat /\ directives' \in Seq(Directives)
<1>0. updater.version \in Versions \cup {0}
  BY DEF Updaters
<1>1. updater.version \in Nat
  BY <1>0, VersionsPositive
<1>2. Queued(queue, updater.version) \in Seq(Directives)
  BY <1>1, QueuedType
<1> QED
  BY <1>1, <1>2 DEF Reporting

\* Steps of the controller keep the types.
LEMMA ControllerTypes ==
    ASSUME UpdatesType,
           \/ \E r \in Releases : CreateRelease(r)
           \/ \E r \in Releases, minimum \in Releases \cup {0}, included, paused \in BOOLEAN :
                 ReplacePolicy(r, minimum, included, paused)
           \/ PushDirective
    PROVE  UpdatesType'
<1>1. ASSUME NEW r \in Releases, CreateRelease(r) PROVE UpdatesType'
  BY <1>1 DEF CreateRelease, UpdatesType, StoredType, ProcessType
<1>2. ASSUME NEW r \in Releases, NEW minimum \in Releases \cup {0},
             NEW included \in BOOLEAN, NEW paused \in BOOLEAN,
             ReplacePolicy(r, minimum, included, paused)
      PROVE  UpdatesType'
  BY <1>2 DEF ReplacePolicy, Persisted, UpdatesType, StoredType, ProcessType
<1>3. CASE PushDirective
  <2>1. directives' \in Seq(Directives)
    BY <1>3, QueuedType DEF PushDirective, UpdatesType, StoredType
  <2> QED
    BY <1>3, <2>1 DEF PushDirective, UpdatesType, StoredType, ProcessType
<1> QED
  BY <1>1, <1>2, <1>3

\* Steps of the agent keep the types.
LEMMA AgentTypes ==
    ASSUME UpdatesType,
           \/ UpdaterConnects \/ UpdaterDisconnects \/ SynchronizationReport
           \/ ProcessDirective \/ VerifyDirective \/ StageRelease \/ PublishRequest
           \/ AgentDies \/ AgentStarts \/ HostCrash
    PROVE  UpdatesType'
<1> USE DEF UpdatesType
<1>e. <<>> \in Seq(Directives) /\ directives \in Seq(Directives)
  BY DEF StoredType
<1>1. CASE UpdaterConnects
  <2>1. reported' \in Nat /\ directives' \in Seq(Directives)
    <3>1. Reporting(<<>>)
      BY <1>1 DEF UpdaterConnects
    <3> QED
      BY <1>e, <3>1, ReportingType DEF ProcessType
  <2>2. updater' \in Updaters /\ updater'.at = "loop"
    <3>1. updater.version \in Versions \cup {0}
      BY DEF ProcessType, Updaters
    <3>2. Process(updater.version) \in Updaters /\ Process(updater.version).at = "loop"
      BY <3>1, ProcessTyped
    <3> QED
      BY <1>1, <3>2 DEF UpdaterConnects, Updaters
  <2> QED
    BY <1>1, <2>1, <2>2 DEF UpdaterConnects, StoredType, ProcessType
<1>2. CASE UpdaterDisconnects \/ AgentDies \/ AgentStarts \/ HostCrash
  <2>1. updater' \in Updaters /\ updater'.at = "loop"
    BY <1>2, ProcessTyped
       DEF UpdaterDisconnects, AgentDies, AgentStarts, HostCrash, ProcessType, Updaters
  <2> QED
    BY <1>2, <1>e, <2>1, NoHelperTyped
       DEF UpdaterDisconnects, AgentDies, AgentStarts, HostCrash, StoredType, ProcessType
<1>3. CASE SynchronizationReport
  <2>1. reported' \in Nat /\ directives' \in Seq(Directives)
    BY <1>3, <1>e, ReportingType DEF SynchronizationReport, ProcessType
  <2> QED
    BY <1>3, <2>1 DEF SynchronizationReport, StoredType, ProcessType
<1>4. CASE ProcessDirective
  <2> DEFINE d == Head(directives)
  <2>1. directives # <<>> /\ d \in Directives /\ Tail(directives) \in Seq(Directives)
    BY <1>4, <1>e DEF ProcessDirective
  <2>2. CASE IgnoresDirective(d)
    BY <1>4, <2>1, <2>2 DEF ProcessDirective, StoredType, ProcessType
  <2>3. CASE ~IgnoresDirective(d)
    <3>1. reported' \in Nat /\ directives' \in Seq(Directives)
      BY <1>4, <2>1, <2>3, ReportingType DEF ProcessDirective, ProcessType
    <3>2. <<d.generation, d.release>> \in Nat \X Nat /\ d.release \in Releases
      BY <2>1, VersionsPositive DEF Directives
    <3>3. updater' \in Updaters /\ updater'.directive = d
      <4>1. updater' = [updater EXCEPT !.at = "verify", !.state = "downloading",
                              !.observed = d.release, !.directive = d,
                              !.attempted = <<d.generation, d.release>>]
        BY <1>4, <2>3 DEF ProcessDirective
      <4> HIDE DEF d
      <4> QED
        BY <4>1, <2>1, <3>2 DEF ProcessType, Updaters
    <3> QED
      BY <1>4, <2>1, <3>1, <3>3 DEF ProcessDirective, StoredType, ProcessType
  <2> QED
    BY <2>2, <2>3
<1>5. ASSUME NEW state \in {"staged", "failed"}, Staging(state)
      PROVE  /\ reported' \in Nat /\ directives' \in Seq(Directives)
             /\ updater' \in Updaters /\ updater'.at = "loop"
  <2>1. Reporting(directives)
    BY <1>5 DEF Staging
  <2>2. reported' \in Nat /\ directives' \in Seq(Directives)
    BY <1>e, <2>1, ReportingType DEF ProcessType
  <2> QED
    BY <1>5, <2>2 DEF Staging, ProcessType, Updaters
<1>6. CASE VerifyDirective
  <2>1. \/ Staging("failed")
        \/ /\ \/ updater' = [updater EXCEPT !.at = "publish"]
              \/ updater' = [updater EXCEPT !.at = "download"]
           /\ UNCHANGED <<reported, directives>>
    BY <1>6 DEF VerifyDirective, VerifyExistingStage
  <2>2. updater' \in Updaters /\ (updater'.at # "loop" => updater'.directive \in Directives)
    BY <1>5, <1>6, <2>1 DEF VerifyDirective, ProcessType, Updaters
  <2>3. reported' \in Nat /\ directives' \in Seq(Directives)
    BY <1>5, <2>1 DEF StoredType
  <2> QED
    BY <1>6, <2>2, <2>3 DEF VerifyDirective, StoredType, ProcessType
<1>7. CASE StageRelease
  <2> DEFINE d == updater.directive
  <2>1. d \in Directives
    BY <1>7 DEF StageRelease, ProcessType
  <2>2. stage' \in [Releases -> Stages]
    BY <1>7, <2>1 DEF StageRelease, StoredType, Stages, Directives
  <2>3. /\ reported' \in Nat /\ directives' \in Seq(Directives)
        /\ updater' \in Updaters /\ (updater'.at # "loop" => updater'.directive \in Directives)
    BY <1>5, <1>7, <2>1 DEF StageRelease, StoredType, ProcessType, Updaters
  <2> QED
    BY <1>7, <2>2, <2>3 DEF StageRelease, StoredType, ProcessType
<1>8. CASE PublishRequest
  <2> DEFINE d == updater.directive
  <2>1. d \in Directives
    BY <1>8 DEF PublishRequest, ProcessType
  <2>2. request' \in Requests \cup {NoUpdate}
    <3>1. [release |-> d.release, generation |-> d.generation, decision |-> d.decision]
             \in Requests
      BY <2>1 DEF Requests, Directives
    <3> QED
      BY <1>8, <3>1 DEF PublishRequest, StoredType
  <2>3. /\ reported' \in Nat /\ directives' \in Seq(Directives)
        /\ updater' \in Updaters /\ updater'.at = "loop"
    BY <1>5, <1>8 DEF PublishRequest
  <2> QED
    BY <1>8, <2>2, <2>3 DEF PublishRequest, StoredType, ProcessType
<1> QED
  BY <1>1, <1>2, <1>3, <1>4, <1>6, <1>7, <1>8

\* Steps of the helper and of the operator keep the types.
LEMMA InstallerTypes ==
    ASSUME UpdatesType,
           \/ ApplyStagedUpdate \/ UnpackRelease \/ RegisterRelease \/ SwitchRelease
           \/ ActivateRelease \/ CompareRequest \/ RemoveRequest
           \/ \E r \in Versions : OperatorInstalls(r) \/ OperatorRollsBack(r)
    PROVE  UpdatesType'
<1> USE DEF UpdatesType
<1>h. /\ helper \in Helpers
      /\ helper.at # "none" => /\ helper.request \in Requests
                               /\ helper.request.release \in Versions
  BY VersionsPositive DEF ProcessType, HelperType, Requests
<1>e. <<>> \in Seq(Directives)
  OBVIOUS
<1>1. CASE ApplyStagedUpdate
  <2>1. AcceptsRequest => request \in Requests
    BY DEF AcceptsRequest, StoredType
  <2>2. helper' \in Helpers /\ HelperType(helper')
    BY <1>1, <2>1, NoHelperTyped
       DEF ApplyStagedUpdate, PrivateUpdateCopy, Helpers, NoHelper, HelperType
  <2> QED
    BY <1>1, <2>2 DEF ApplyStagedUpdate, StoredType, ProcessType
<1>2. CASE UnpackRelease
  <2> DEFINE r == helper.request.release
  <2>1. CASE ~Installable(r)
    BY <1>2, <2>1, NoHelperTyped DEF UnpackRelease, StoredType, ProcessType
  <2>2. CASE Installable(r)
    <3>1. helper' \in Helpers /\ HelperType(helper')
      <4>1. /\ helper.at = "copied" /\ links.current \in Versions
            /\ helper' = [helper EXCEPT !.old = links.current,
                             !.created = versions[r] = "absent",
                             !.at = IF versions[r] = "absent" THEN "unpacked"
                                    ELSE "registered"]
        BY <1>2, <2>2 DEF UnpackRelease, ProcessType
      <4>2. helper' \in Helpers
        BY <1>h, <4>1 DEF Helpers
      <4>3. helper'.request = helper.request /\ helper'.old = links.current
        BY <1>h, <4>1 DEF Helpers
      <4> QED
        BY <1>h, <4>1, <4>2, <4>3 DEF HelperType
    <3>2. versions' \in [Versions -> {"absent", "unpacked", "complete"}]
      BY <1>2, <1>h, <2>2 DEF UnpackRelease, ProcessType
    <3> QED
      BY <1>2, <3>1, <3>2 DEF UnpackRelease, StoredType, ProcessType
  <2> QED
    BY <2>1, <2>2
<1>3. CASE RegisterRelease
  <2>1. helper' \in Helpers /\ HelperType(helper')
    BY <1>3, <1>h DEF RegisterRelease, Helpers, ProcessType, HelperType
  <2> QED
    BY <1>3, <1>h, <2>1 DEF RegisterRelease, StoredType, ProcessType
<1>4. CASE SwitchRelease
  <2>1. helper' \in Helpers /\ HelperType(helper')
    BY <1>4, <1>h, NoHelperTyped DEF SwitchRelease, Helpers, ProcessType, HelperType
  <2>2. links' \in [current : Versions, previous : Versions \cup {0}]
    BY <1>4, <1>h DEF SwitchRelease, ProcessType
  <2>3. updater' \in Updaters /\ (updater'.at # "loop" => updater'.directive \in Directives)
    BY <1>4, ProcessTyped DEF SwitchRelease, ProcessType
  <2> QED
    BY <1>4, <1>e, <2>1, <2>2, <2>3 DEF SwitchRelease, StoredType, ProcessType
<1>5. CASE CompareRequest \/ RemoveRequest
  <2>1. helper' \in Helpers /\ HelperType(helper')
    BY <1>5, <1>h, NoHelperTyped
       DEF CompareRequest, RemoveRequest, Helpers, HelperType
  <2> QED
    BY <1>5, <2>1 DEF CompareRequest, RemoveRequest, StoredType, ProcessType
<1>6. ASSUME NEW r \in Versions, OperatorInstalls(r) \/ OperatorRollsBack(r)
      PROVE  UpdatesType'
  <2>1. updater' \in Updaters /\ updater'.at = "loop"
    BY <1>6, ProcessTyped DEF OperatorInstalls, OperatorRollsBack, OperatorSwitches
  <2>2. links' \in [current : Versions, previous : Versions \cup {0}]
    BY <1>6 DEF OperatorInstalls, OperatorRollsBack, OperatorSwitches, ProcessType
  <2> QED
    BY <1>6, <1>e, <2>1, <2>2
       DEF OperatorInstalls, OperatorRollsBack, OperatorSwitches, StoredType, ProcessType
<1>7. CASE ActivateRelease
  <2>0. helper.at = "switched" /\ helper.old \in Versions
    BY <1>7 DEF ActivateRelease, ProcessType, HelperType
  <2>1. CASE RestoreActivation
    <3>1. updater' \in Updaters /\ updater'.at = "loop"
      BY <2>0, <2>1, ProcessTyped DEF RestoreActivation
    <3>2. versions' \in [Versions -> {"absent", "unpacked", "complete"}]
      BY <1>h, <2>0, <2>1 DEF RestoreActivation, ProcessType
    <3>3. links' \in [current : Versions, previous : Versions \cup {0}]
      BY <2>0, <2>1 DEF RestoreActivation, ProcessType
    <3>4. helper' = NoHelper
      BY <2>1 DEF RestoreActivation
    <3> QED
      BY <1>7, <3>1, <3>2, <3>3, <3>4, NoHelperTyped
         DEF ActivateRelease, StoredType, ProcessType
  <2>2. CASE ~RestoreActivation
    <3>1. updater' \in Updaters /\ updater'.at = "loop"
      BY <1>7, <2>2, ProcessTyped DEF ActivateRelease, ProcessType
    <3>2. links' \in [current : Versions, previous : Versions \cup {0}]
      BY <1>7, <2>0, <2>2 DEF ActivateRelease, ProcessType
    <3>3. helper' \in Helpers /\ HelperType(helper')
      BY <1>7, <1>h, <2>0, <2>2 DEF ActivateRelease, Helpers, HelperType
    <3> QED
      BY <1>7, <2>2, <3>1, <3>2, <3>3 DEF ActivateRelease, StoredType, ProcessType
  <2> QED
    BY <2>1, <2>2
<1> QED
  BY <1>1, <1>2, <1>3, <1>4, <1>5, <1>6, <1>7

\* Every step keeps the types.
LEMMA TypesKept == UpdatesType /\ [UpdatesNext]_updateVars => UpdatesType'
<1>1. CASE UNCHANGED updateVars
  BY <1>1 DEF updateVars, UpdatesType, StoredType, ProcessType
<1>2. CASE UpdatesNext
  BY <1>2, ControllerTypes, AgentTypes, InstallerTypes DEF UpdatesNext
<1> QED
  BY <1>1, <1>2

\* The types hold at the start.
LEMMA TypesAtStart == UpdatesInit => UpdatesType
<1> SUFFICES ASSUME UpdatesInit PROVE UpdatesType
  OBVIOUS
<1>1. StoredType
  BY DEF UpdatesInit, StoredType, NoPolicy, Stages
<1>2. ProcessType
  BY ProcessTyped, NoHelperTyped, VersionsPositive DEF UpdatesInit, ProcessType
<1> QED
  BY <1>1, <1>2 DEF UpdatesType

-------------------------------------------------------------------------------
\* Where a directive leaves its mark: nothing is staged while it is downloaded,
\* its own stage is there before it is published.
Marked(d) == [generation |-> d.generation, decision |-> d.decision]

StagedInv ==
    /\ updater.at = "download" => stage[updater.directive.release] = NoStage
    /\ updater.at = "publish"
          => stage[updater.directive.release] = Marked(updater.directive)
    /\ request # NoUpdate => stage[request.release] = Marked(request)

\* A stage that a request or a directive made is not the absence of one.
LEMMA MarkedStage ==
    ASSUME NEW d, d \in Directives \/ d \in Requests
    PROVE  Marked(d) # NoStage /\ d.release \in Releases
BY DEF Marked, NoStage, Directives, Requests, Decisions

\* Steps that touch neither stage nor request, and leave the agent where it is
\* or in its loop.
LEMMA StagedUntouched ==
    ASSUME UpdatesType, StagedInv, stage' = stage,
           request' = request \/ request' = NoUpdate,
           updater' = updater \/ updater'.at \in {"loop", "verify"}
    PROVE  StagedInv'
BY DEF StagedInv, Marked

\* Every step keeps the stage and the request in step.
LEMMA StagedKept ==
    UpdatesType /\ StagedInv /\ [UpdatesNext]_updateVars => StagedInv'
<1> SUFFICES ASSUME UpdatesType, StagedInv, [UpdatesNext]_updateVars PROVE StagedInv'
  OBVIOUS
<1>p. \A v : Process(v).at = "loop"
  BY DEF Process
<1>u. updater \in Updaters
  BY DEF UpdatesType, ProcessType
<1>1. CASE UNCHANGED updateVars
  BY <1>1, StagedUntouched DEF updateVars
<1>2. CASE \/ \E r \in Releases : CreateRelease(r)
           \/ \E r \in Releases, minimum \in Releases \cup {0}, included, paused \in BOOLEAN :
                 ReplacePolicy(r, minimum, included, paused)
           \/ PushDirective \/ SynchronizationReport
  BY <1>2, StagedUntouched
     DEF CreateRelease, ReplacePolicy, PushDirective, SynchronizationReport
<1>3. CASE UpdaterConnects
  <2>1. updater'.at = "loop"
    BY <1>3 DEF UpdaterConnects, Process
  <2> QED
    BY <1>3, <2>1, StagedUntouched DEF UpdaterConnects
<1>4. CASE UpdaterDisconnects \/ AgentDies \/ AgentStarts \/ HostCrash
  BY <1>4, <1>p, StagedUntouched DEF UpdaterDisconnects, AgentDies, AgentStarts, HostCrash
<1>5. CASE ProcessDirective
  <2>1. updater' = updater \/ updater'.at = "verify"
    BY <1>5, <1>u DEF ProcessDirective, Updaters
  <2> QED
    BY <1>5, <2>1, StagedUntouched DEF ProcessDirective
<1>s. ASSUME NEW state, Staging(state) PROVE updater'.at = "loop"
  BY <1>s, <1>u DEF Staging, Updaters
<1>6. CASE VerifyDirective
  <2> DEFINE d == updater.directive
  <2>1. stage' = stage /\ request' = request
    BY <1>6 DEF VerifyDirective
  <2>2. CASE Staging("failed")
    BY <1>s, <2>1, <2>2, StagedUntouched
  <2>3. CASE ~Staging("failed")
    <3>1. \/ /\ stage[d.release] = Marked(d)
             /\ updater' = [updater EXCEPT !.at = "publish"]
          \/ /\ stage[d.release] = NoStage
             /\ updater' = [updater EXCEPT !.at = "download"]
      BY <1>6, <2>3 DEF VerifyDirective, VerifyExistingStage, Marked
    <3>2. /\ updater'.directive = d
          /\ \/ updater'.at = "publish" /\ stage[d.release] = Marked(d)
             \/ updater'.at = "download" /\ stage[d.release] = NoStage
      BY <1>u, <3>1 DEF Updaters
    <3> QED
      BY <2>1, <3>2 DEF StagedInv
  <2> QED
    BY <2>2, <2>3
<1>7. CASE StageRelease
  <2> DEFINE d == updater.directive
  <2>1. d \in Directives /\ d.release \in Releases /\ stage[d.release] = NoStage
    BY <1>7, MarkedStage DEF StageRelease, UpdatesType, ProcessType, StagedInv
  <2>2. request' = request
    BY <1>7 DEF StageRelease
  <2>3. CASE Staging("failed") /\ UNCHANGED stage
    BY <1>s, <2>2, <2>3, StagedUntouched
  <2>4. CASE ~(Staging("failed") /\ UNCHANGED stage)
    <3>1. /\ stage' = [stage EXCEPT ![d.release] = Marked(d)]
          /\ updater' = [updater EXCEPT !.at = "publish"]
      BY <1>7, <2>4 DEF StageRelease, Marked
    <3>2. updater'.directive = d /\ updater'.at = "publish"
      BY <1>u, <3>1 DEF Updaters
    <3>3. stage'[d.release] = Marked(d)
      BY <2>1, <3>1 DEF UpdatesType, StoredType
    <3>4. request # NoUpdate => request.release # d.release
      BY <2>1, MarkedStage DEF StagedInv, UpdatesType, StoredType
    <3>5. request # NoUpdate => stage'[request.release] = Marked(request)
      <4> SUFFICES ASSUME request # NoUpdate PROVE stage'[request.release] = Marked(request)
        OBVIOUS
      <4>1. request.release \in Releases
        BY MarkedStage DEF UpdatesType, StoredType
      <4> QED
        BY <3>1, <3>4, <4>1 DEF StagedInv, UpdatesType, StoredType
    <3> QED
      BY <2>2, <3>2, <3>3, <3>5 DEF StagedInv
  <2> QED
    BY <2>3, <2>4
<1>8. CASE PublishRequest
  <2> DEFINE d == updater.directive
  <2>1. stage' = stage
    BY <1>8 DEF PublishRequest
  <2>2. CASE Staging("failed") /\ UNCHANGED request
    BY <1>s, <2>1, <2>2, StagedUntouched
  <2>3. CASE ~(Staging("failed") /\ UNCHANGED request)
    <3>1. /\ request' = [release |-> d.release, generation |-> d.generation,
                         decision |-> d.decision]
          /\ updater'.at = "loop"
      BY <1>8, <1>s, <2>3 DEF PublishRequest
    <3>2. stage[d.release] = Marked(d)
      BY <1>8 DEF PublishRequest, StagedInv
    <3>3. stage'[request'.release] = Marked(request')
      BY <2>1, <3>1, <3>2 DEF Marked
    <3> QED
      BY <3>1, <3>3 DEF StagedInv, Marked
  <2> QED
    BY <2>2, <2>3
<1>9. CASE \/ ApplyStagedUpdate \/ UnpackRelease \/ RegisterRelease
           \/ CompareRequest \/ RemoveRequest
  BY <1>9, StagedUntouched
     DEF ApplyStagedUpdate, UnpackRelease, RegisterRelease, CompareRequest, RemoveRequest
<1>10. CASE SwitchRelease \/ ActivateRelease
  BY <1>10, <1>p, StagedUntouched DEF SwitchRelease, ActivateRelease, RestoreActivation
<1>11. CASE \E r \in Versions : OperatorInstalls(r) \/ OperatorRollsBack(r)
  BY <1>11, <1>p, StagedUntouched DEF OperatorInstalls, OperatorRollsBack, OperatorSwitches
<1> QED
  BY <1>1, <1>2, <1>3, <1>4, <1>5, <1>6, <1>7, <1>8, <1>9, <1>10, <1>11 DEF UpdatesNext

\* A request the root helper can see names a release that is staged in full by
\* the same directive, however many crashes, retries and changes of policy came
\* before: stage_update renames before it publishes.
THEOREM RequestsComplete == UpdatesSpec => []PublishedComplete
<1>1. UpdatesInit => StagedInv
  BY DEF UpdatesInit, StagedInv, Process
<1>2. StagedInv => PublishedComplete
  BY DEF StagedInv, PublishedComplete, Marked
<1> QED
  BY <1>1, <1>2, TypesAtStart, TypesKept, StagedKept, PTL DEF UpdatesSpec

-------------------------------------------------------------------------------
\* What the installer relies on while it holds the lock: nobody moves the links
\* behind its back, the release to return to is complete, a release that this
\* run created is nobody's target, and after the switch no agent runs.
InstallerAt(h) ==
    /\ h.at \in {"unpacked", "registered"}
          => h.old = links.current /\ h.request.release >= links.current
    /\ h.at \in {"unpacked", "registered", "switched"}
          => /\ versions[h.old] = "complete"
             /\ h.created => h.request.release \notin {h.old, links.previous}
    /\ h.at = "registered" => versions[h.request.release] = "complete"
    /\ h.at = "unpacked" => h.created
    /\ h.at = "switched" => updater.version = 0

InstallInv == LinksInstalled /\ InstallerAt(helper)

\* Steps that leave the installer and what it installs alone, and run no agent
\* but the one `current' names.
LEMMA InstallUntouched ==
    ASSUME UpdatesType, InstallInv, UNCHANGED <<versions, links>>,
           helper' = helper \/ helper'.at \in {"none", "copied", "applied", "remove"},
           \/ updater'.version \in {updater.version, 0}
           \/ updater'.version = links.current /\ helper.at # "switched" /\ helper' = helper
    PROVE  InstallInv'
<1>1. LinksInstalled'
  BY DEF InstallInv, LinksInstalled
<1>2. InstallerAt(helper)'
  <2>1. CASE helper' = helper
    BY <2>1 DEF InstallInv, InstallerAt
  <2>2. CASE helper'.at \in {"none", "copied", "applied", "remove"}
    BY <2>2 DEF InstallerAt
  <2> QED
    BY <2>1, <2>2
<1> QED
  BY <1>1, <1>2 DEF InstallInv

\* The steps of the controller and of the agent.
LEMMA InstallKeptOutside ==
    ASSUME UpdatesType, InstallInv,
           \/ \E r \in Releases : CreateRelease(r)
           \/ \E r \in Releases, minimum \in Releases \cup {0}, included, paused \in BOOLEAN :
                 ReplacePolicy(r, minimum, included, paused)
           \/ PushDirective
           \/ UpdaterConnects \/ UpdaterDisconnects \/ SynchronizationReport
           \/ ProcessDirective \/ VerifyDirective \/ StageRelease \/ PublishRequest
           \/ AgentDies \/ AgentStarts \/ HostCrash
           \/ ApplyStagedUpdate \/ CompareRequest \/ RemoveRequest
    PROVE  InstallInv'
<1>p. \A v : Process(v).version = v
  BY DEF Process
<1>u. updater \in Updaters /\ helper \in Helpers
  BY DEF UpdatesType, ProcessType
<1>s. ASSUME NEW state, Staging(state) PROVE updater'.version = updater.version
  BY <1>s, <1>u DEF Staging, Updaters
<1>1. CASE \/ \E r \in Releases : CreateRelease(r)
           \/ \E r \in Releases, minimum \in Releases \cup {0}, included, paused \in BOOLEAN :
                 ReplacePolicy(r, minimum, included, paused)
           \/ PushDirective \/ SynchronizationReport
  BY <1>1, InstallUntouched
     DEF CreateRelease, ReplacePolicy, PushDirective, SynchronizationReport
<1>2. CASE UpdaterConnects
  <2>1. updater'.version = updater.version
    BY <1>2 DEF UpdaterConnects, Process
  <2> QED
    BY <1>2, <2>1, InstallUntouched DEF UpdaterConnects
<1>3. CASE UpdaterDisconnects \/ AgentDies
  BY <1>3, <1>p, InstallUntouched DEF UpdaterDisconnects, AgentDies
<1>4. CASE AgentStarts
  BY <1>4, <1>p, InstallUntouched DEF AgentStarts
<1>5. CASE HostCrash
  BY <1>5, <1>p, NoHelperTyped, InstallUntouched DEF HostCrash
<1>6. CASE ProcessDirective \/ VerifyDirective \/ StageRelease \/ PublishRequest
  <2>1. updater'.version = updater.version
    <3>1. CASE ProcessDirective
      BY <1>u, <3>1 DEF ProcessDirective, Updaters
    <3>2. CASE VerifyDirective
      BY <1>u, <1>s, <3>2 DEF VerifyDirective, VerifyExistingStage, Updaters
    <3>3. CASE StageRelease
      BY <1>u, <1>s, <3>3 DEF StageRelease, Updaters
    <3>4. CASE PublishRequest
      BY <1>s, <3>4 DEF PublishRequest
    <3> QED
      BY <1>6, <3>1, <3>2, <3>3, <3>4
  <2> QED
    BY <1>6, <2>1, InstallUntouched
       DEF ProcessDirective, VerifyDirective, StageRelease, PublishRequest
<1>7. CASE ApplyStagedUpdate \/ CompareRequest \/ RemoveRequest
  <2>1. helper'.at \in {"none", "copied", "applied", "remove"}
    BY <1>u, <1>7, NoHelperTyped
       DEF ApplyStagedUpdate, CompareRequest, RemoveRequest, PrivateUpdateCopy, NoHelper, Helpers
  <2> QED
    BY <1>7, <2>1, InstallUntouched DEF ApplyStagedUpdate, CompareRequest, RemoveRequest
<1> QED
  BY <1>1, <1>2, <1>3, <1>4, <1>5, <1>6, <1>7

\* The installer of the helper: unpack, register, switch, activate or restore.
LEMMA InstallKeptByHelper ==
    ASSUME UpdatesType, InstallInv,
           UnpackRelease \/ RegisterRelease \/ SwitchRelease \/ ActivateRelease
    PROVE  InstallInv'
<1> DEFINE r == helper.request.release
<1>p. \A v : Process(v).version = v
  BY DEF Process
<1>t. /\ helper \in Helpers /\ helper.at # "none"
      /\ r \in Versions /\ r \in Nat /\ r # 0
      /\ links \in [current : Versions, previous : Versions \cup {0}]
      /\ versions \in [Versions -> {"absent", "unpacked", "complete"}]
      /\ updater.version \in Versions \cup {0}
  <2>1. helper.at # "none"
    BY DEF UnpackRelease, RegisterRelease, SwitchRelease, ActivateRelease
  <2>2. r \in Releases
    BY <2>1 DEF UpdatesType, ProcessType, HelperType, Requests
  <2> QED
    BY <2>1, <2>2, VersionsPositive DEF UpdatesType, ProcessType, Updaters
<1> HIDE DEF r
<1>1. CASE UnpackRelease
  <2>1. CASE ~Installable(r)
    <3>1. helper'.at = "none" /\ UNCHANGED <<versions, links, updater>>
      BY <1>1, <2>1, NoHelperTyped DEF UnpackRelease, r
    <3> QED
      BY <3>1, InstallUntouched
  <2>2. CASE Installable(r)
    <3>1. /\ helper'.old = links.current /\ helper'.request = helper.request
          /\ helper'.created = (versions[r] = "absent")
          /\ helper'.at = IF versions[r] = "absent" THEN "unpacked" ELSE "registered"
      BY <1>1, <1>t, <2>2 DEF UnpackRelease, Helpers, r
    <3>2. /\ versions' = [versions EXCEPT ![r] = IF @ = "absent" THEN "unpacked" ELSE @]
          /\ UNCHANGED <<links, updater>>
      BY <1>1, <2>2 DEF UnpackRelease, r
    <3>3. versions[r] \in {"absent", "complete"} /\ r >= links.current
      BY <1>t, <2>2 DEF Installable
    <3>4. \A v \in Versions : versions[v] = "complete" => versions'[v] = "complete"
      BY <1>t, <3>2
    <3>5. LinksInstalled'
      BY <1>t, <3>2, <3>4 DEF InstallInv, LinksInstalled
    <3>6. versions[r] = "absent" => r \notin {links.current, links.previous}
      BY <1>t DEF InstallInv, LinksInstalled
    <3>7. versions'[links.current] = "complete"
      BY <1>t, <3>4 DEF InstallInv, LinksInstalled
    <3>8. helper'.at = "registered" => versions'[r] = "complete"
      BY <1>t, <3>1, <3>3, <3>4
    <3>9. InstallerAt(helper)'
      BY <1>t, <3>1, <3>2, <3>3, <3>6, <3>7, <3>8 DEF InstallerAt, r
    <3> QED
      BY <3>5, <3>9 DEF InstallInv
  <2> QED
    BY <2>1, <2>2
<1>2. CASE RegisterRelease
  <2>1. /\ helper.at = "unpacked"
        /\ helper' = [helper EXCEPT !.at = "registered"]
        /\ versions' = [versions EXCEPT ![r] = "complete"]
        /\ UNCHANGED <<links, updater>>
    BY <1>2 DEF RegisterRelease, r
  <2>2. /\ helper'.at = "registered" /\ helper'.old = helper.old
        /\ helper'.request = helper.request /\ helper'.created = helper.created
    BY <1>t, <2>1 DEF Helpers
  <2>3. /\ versions'[r] = "complete"
        /\ \A v \in Versions : versions[v] = "complete" => versions'[v] = "complete"
    BY <1>t, <2>1
  <2>4. LinksInstalled'
    BY <1>t, <2>1, <2>3 DEF InstallInv, LinksInstalled
  <2>5. helper.old = links.current /\ versions[helper.old] = "complete"
    BY <2>1 DEF InstallInv, InstallerAt
  <2>6. versions'[helper.old] = "complete"
    BY <1>t, <2>3, <2>5
  <2>7. InstallerAt(helper)'
    BY <2>1, <2>2, <2>3, <2>5, <2>6 DEF InstallInv, InstallerAt, r
  <2> QED
    BY <2>4, <2>7 DEF InstallInv
<1>3. CASE SwitchRelease
  <2>1. CASE helper' = NoHelper /\ UNCHANGED links
    <3>1. helper'.at = "none" /\ UNCHANGED versions
      BY <1>3, <2>1, NoHelperTyped DEF SwitchRelease
    <3>2. updater'.version \in {updater.version, 0}
      BY <1>3, <1>p DEF SwitchRelease
    <3> QED
      BY <2>1, <3>1, <3>2, InstallUntouched
  <2>2. CASE ~(helper' = NoHelper /\ UNCHANGED links)
    <3>1. /\ helper.at = "registered"
          /\ helper' = [helper EXCEPT !.at = "switched"]
          /\ links' = [links EXCEPT !.current = r]
          /\ updater' = Process(0) /\ UNCHANGED versions
      BY <1>3, <2>2 DEF SwitchRelease, r
    <3>2. /\ helper'.at = "switched" /\ helper'.old = helper.old
          /\ helper'.request = helper.request /\ helper'.created = helper.created
          /\ links'.current = r /\ links'.previous = links.previous
          /\ updater'.version = 0
      BY <1>t, <1>p, <3>1 DEF Helpers
    <3>3. versions[r] = "complete"
      BY <3>1 DEF InstallInv, InstallerAt, r
    <3>4. LinksInstalled'
      BY <3>1, <3>2, <3>3 DEF InstallInv, LinksInstalled
    <3>5. InstallerAt(helper)'
      BY <3>1, <3>2 DEF InstallInv, InstallerAt, r
    <3> QED
      BY <3>4, <3>5 DEF InstallInv
  <2> QED
    BY <2>1, <2>2
<1>4. CASE ActivateRelease
  <2>1. /\ helper.at = "switched" /\ helper.old \in Versions
        /\ versions[helper.old] = "complete"
        /\ helper.created => r \notin {helper.old, links.previous}
    BY <1>4 DEF ActivateRelease, InstallInv, InstallerAt, UpdatesType, ProcessType, HelperType, r
  <2>2. CASE RestoreActivation
    <3>1. /\ links'.current = helper.old /\ links'.previous = links.previous
          /\ updater'.version = helper.old
          /\ helper'.at = "none"
      BY <1>p, <1>t, <2>2, NoHelperTyped DEF RestoreActivation
    <3>2. \A v \in Versions : versions[v] = "complete" /\ (helper.created => v # r)
                                 => versions'[v] = "complete"
      BY <1>t, <2>2 DEF RestoreActivation, r
    <3>3. LinksInstalled'
      BY <1>t, <2>1, <3>1, <3>2 DEF InstallInv, LinksInstalled
    <3>4. InstallerAt(helper)'
      BY <3>1 DEF InstallerAt
    <3> QED
      BY <3>3, <3>4 DEF InstallInv
  <2>3. CASE ~RestoreActivation
    <3>1. /\ updater' = Process(links.current) /\ UNCHANGED versions
          /\ links' = [links EXCEPT !.previous = IF helper.old # links.current
                                                 THEN helper.old ELSE @]
          /\ helper' = [helper EXCEPT !.at = "applied"]
      BY <1>4, <2>3 DEF ActivateRelease
    <3>2. /\ updater'.version = links.current /\ links'.current = links.current
          /\ links'.previous \in {helper.old, links.previous}
          /\ helper'.at = "applied"
      BY <1>p, <1>t, <3>1 DEF Helpers
    <3>3. LinksInstalled'
      BY <2>1, <3>1, <3>2 DEF InstallInv, LinksInstalled
    <3>4. InstallerAt(helper)'
      BY <3>2 DEF InstallerAt
    <3> QED
      BY <3>3, <3>4 DEF InstallInv
  <2> QED
    BY <2>2, <2>3
<1> QED
  BY <1>1, <1>2, <1>3, <1>4

\* The operator installs or rolls back while nobody holds the lock.
LEMMA InstallKeptByOperator ==
    ASSUME UpdatesType, InstallInv,
           NEW r \in Versions, OperatorInstalls(r) \/ OperatorRollsBack(r)
    PROVE  InstallInv'
<1>p. \A v : Process(v).version = v
  BY DEF Process
<1>t. /\ links \in [current : Versions, previous : Versions \cup {0}]
      /\ versions \in [Versions -> {"absent", "unpacked", "complete"}]
  BY DEF UpdatesType, ProcessType
<1>1. /\ LockFree /\ helper' = helper
      /\ links' = [current |-> r,
                   previous |-> IF r # links.current THEN links.current ELSE links.previous]
      /\ updater'.version = r
  BY <1>p DEF OperatorInstalls, OperatorRollsBack, OperatorSwitches
<1>2. /\ versions'[r] = "complete"
      /\ \A v \in Versions : versions[v] = "complete" => versions'[v] = "complete"
  BY <1>t DEF OperatorInstalls, OperatorRollsBack
<1>3. LinksInstalled'
  BY <1>t, <1>1, <1>2 DEF InstallInv, LinksInstalled
<1>4. InstallerAt(helper)'
  BY <1>1 DEF InstallerAt, LockFree
<1> QED
  BY <1>3, <1>4 DEF InstallInv

\* The invariant of the installer, with the types.
LEMMA InstallInvariance == UpdatesSpec => [](UpdatesType /\ InstallInv)
<1>1. UpdatesInit => InstallInv
  BY VersionsPositive, NoHelperTyped
     DEF UpdatesInit, InstallInv, LinksInstalled, InstallerAt, Process
<1>2. UpdatesType /\ InstallInv /\ [UpdatesNext]_updateVars => InstallInv'
  <2> SUFFICES ASSUME UpdatesType, InstallInv, [UpdatesNext]_updateVars PROVE InstallInv'
    OBVIOUS
  <2>1. CASE UNCHANGED updateVars
    BY <2>1, InstallUntouched DEF updateVars
  <2>2. CASE UpdatesNext
    BY <2>2, InstallKeptOutside, InstallKeptByHelper, InstallKeptByOperator DEF UpdatesNext
  <2> QED
    BY <2>1, <2>2
<1> QED
  BY <1>1, <1>2, TypesAtStart, TypesKept, PTL DEF UpdatesSpec

\* The links and the running agent always name installed releases, whatever
\* failed, crashed or was rolled back between any two steps of install_release
\* and restore_activation.
THEOREM LinksAlwaysInstalled == UpdatesSpec => []LinksInstalled
<1>1. InstallInv => LinksInstalled
  BY DEF InstallInv
<1> QED
  BY <1>1, InstallInvariance, PTL

\* The helper never switches to a lower version: the comparison is made under
\* the lock that keeps the operator out until the switch.
THEOREM HelperNeverDowngrades == UpdatesSpec => NeverDowngraded
<1>1. UpdatesType /\ InstallInv /\ [UpdatesNext]_updateVars
        => [helper.at # "switched" /\ helper'.at = "switched"
              => links'.current >= links.current]_updateVars
  <2> SUFFICES ASSUME UpdatesType, InstallInv, UpdatesNext,
                      helper.at # "switched", helper'.at = "switched"
               PROVE  links'.current >= links.current
    OBVIOUS
  <2>t. /\ helper \in Helpers
        /\ links \in [current : Versions, previous : Versions \cup {0}]
    BY DEF UpdatesType, ProcessType
  <2>1. CASE SwitchRelease
    <3>1. helper.at = "registered" /\ links' = [links EXCEPT !.current = helper.request.release]
      BY <2>1, NoHelperTyped DEF SwitchRelease
    <3> QED
      BY <2>t, <3>1 DEF InstallInv, InstallerAt
  <2>2. CASE UnpackRelease \/ RegisterRelease \/ ActivateRelease
    BY <2>t, <2>2, NoHelperTyped
       DEF UnpackRelease, RegisterRelease, ActivateRelease, RestoreActivation, Helpers
  <2>3. CASE ApplyStagedUpdate \/ CompareRequest \/ RemoveRequest \/ HostCrash
    BY <2>t, <2>3, NoHelperTyped
       DEF ApplyStagedUpdate, CompareRequest, RemoveRequest, HostCrash, PrivateUpdateCopy,
           NoHelper, Helpers
  <2>4. CASE \/ \E r \in Releases : CreateRelease(r)
             \/ \E r \in Releases, minimum \in Releases \cup {0}, included, paused \in BOOLEAN :
                   ReplacePolicy(r, minimum, included, paused)
             \/ PushDirective
             \/ UpdaterConnects \/ UpdaterDisconnects \/ SynchronizationReport
             \/ ProcessDirective \/ VerifyDirective \/ StageRelease \/ PublishRequest
             \/ AgentDies \/ AgentStarts
    BY <2>4 DEF CreateRelease, ReplacePolicy, PushDirective, UpdaterConnects,
                UpdaterDisconnects, SynchronizationReport, ProcessDirective, VerifyDirective,
                StageRelease, PublishRequest, AgentDies, AgentStarts
  <2>5. CASE \E r \in Versions : OperatorInstalls(r) \/ OperatorRollsBack(r)
    BY <2>5 DEF OperatorInstalls, OperatorRollsBack
  <2> QED
    BY <2>1, <2>2, <2>3, <2>4, <2>5 DEF UpdatesNext
<1> QED
  BY <1>1, InstallInvariance, PTL DEF UpdatesSpec, NeverDowngraded

-------------------------------------------------------------------------------
(***************************************************************************)
(* The packet queues of the driver.                                        *)
(***************************************************************************)

States == {"Closed", "Opened", "Negotiated", "Attached", "LinkUp"}
Kinds == {"Hello", "Attach", "Up", "Down", "Transmit", "Receive", "Detach"}
AnyLimit == Limits \cup {NoLimit}
DriverRequests == [kind : Kinds, sequence : Nat, limit : AnyLimit, count : Nat, size : Nat]
Packets == [owner : Nat, size : Nat]
Sessions == [state : States, owner : Nat, last : Nat, limit : AnyLimit]
Clients == [state : States \cup {"ReconnectRequired", "Gone"}, next : Nat,
            pending : DriverRequests \cup {NoRequest}, limit : AnyLimit]

DriverType ==
    /\ session \in Sessions
    /\ packets \in [Directions -> Seq(Packets)]
    /\ queueMtu \in Nat
    /\ nextCookie \in Nat
    /\ client \in [Files -> Clients]
    /\ \A f \in Files : client[f].pending.kind = "Attach" => client[f].pending.limit \in Limits

\* The limits the queues work with are those of the session, and only an
\* attached session has packets.
QueueInv ==
    /\ session.state \in {"Attached", "LinkUp"}
          => session.limit \in Limits /\ queueMtu = session.limit.mtu
    /\ session.state \notin {"Attached", "LinkUp"} => packets = NoPackets
    /\ PacketsOfOwner

DriverInv == DriverType /\ QueueInv

\* Every limit has an MTU and a depth.
LEMMA LimitsNat ==
    /\ MaxPacketSize \in Nat
    /\ \A l \in AnyLimit : l.mtu \in Nat /\ l.depth \in Nat
BY DriverAssumption DEF AnyLimit, NoLimit

\* Empty queues belong to anybody.
LEMMA EmptyQueues ==
    ASSUME session' \in Sessions, packets' = NoPackets
    PROVE  /\ packets' \in [Directions -> Seq(Packets)]
           /\ PacketsOfOwner'
<1>1. \A d \in Directions : packets'[d] = <<>>
  BY DEF NoPackets
<1>2. session'.limit.depth \in Nat
  BY LimitsNat DEF Sessions
<1>3. packets' \in [Directions -> Seq(Packets)]
  BY DEF NoPackets
<1> QED
  BY <1>1, <1>2, <1>3 DEF PacketsOfOwner

\* The closed session, and the one FileCreate opens.
LEMMA ClosedTyped ==
    /\ ClosedSession \in Sessions /\ ClosedSession.state = "Closed"
    /\ \A c \in Nat : /\ [ClosedSession EXCEPT !.state = "Opened", !.owner = c] \in Sessions
                      /\ [ClosedSession EXCEPT !.state = "Opened", !.owner = c].state = "Opened"
BY DEF ClosedSession, Sessions, States, AnyLimit

\* Steps that leave session, queues and limits alone.
LEMMA QueuesUntouched ==
    ASSUME DriverInv, UNCHANGED <<session, packets, queueMtu>>
    PROVE  QueueInv'
BY DEF DriverInv, QueueInv, PacketsOfOwner

\* The client's own steps: a request is prepared, its outcome is taken.
LEMMA ClientTypes ==
    ASSUME DriverInv, (\E f \in Files : PrepareRequest(f)) \/ Complete
    PROVE  /\ client' \in [Files -> Clients]
           /\ \A f \in Files : client'[f].pending.kind = "Attach"
                                  => client'[f].pending.limit \in Limits
<1>t. client \in [Files -> Clients] /\ NoRequest.kind = "none"
  BY DEF DriverInv, DriverType, NoRequest
<1>1. ASSUME NEW f \in Files, NEW kind \in Kinds, NEW limit \in AnyLimit,
             NEW count \in Nat, NEW size \in Nat, kind = "Attach" => limit \in Limits,
             Prepare(f, kind, limit, count, size)
      PROVE  /\ client' \in [Files -> Clients]
             /\ \A g \in Files : client'[g].pending.kind = "Attach"
                                    => client'[g].pending.limit \in Limits
  <2> DEFINE req == [kind |-> kind, sequence |-> client[f].next, limit |-> limit,
                         count |-> count, size |-> size]
  <2>1. client[f] \in Clients
    BY <1>t
  <2>2. req \in DriverRequests
    BY <2>1 DEF DriverRequests, Clients
  <2>3. client' = [client EXCEPT ![f] = [client[f] EXCEPT !.pending = req]]
    BY <1>1 DEF Prepare
  <2>4. req.kind = "Attach" => req.limit \in Limits
    BY <1>1
  <2> HIDE DEF req
  <2>5. [client[f] EXCEPT !.pending = req] \in Clients
    BY <2>1, <2>2 DEF Clients
  <2>6. client' \in [Files -> Clients]
    BY <1>t, <2>3, <2>5
  <2>7. [client[f] EXCEPT !.pending = req].pending = req
    BY <2>1 DEF Clients
  <2>8. client'[f].pending = req
    BY <1>t, <2>3, <2>7
  <2>9. \A g \in Files : g # f => client'[g] = client[g]
    BY <1>t, <2>3
  <2> QED
    BY <2>4, <2>6, <2>8, <2>9 DEF DriverInv, DriverType
<1>2. CASE \E f \in Files : PrepareRequest(f)
  <2>1. PICK f \in Files : PrepareRequest(f)
    BY <1>2
  <2>2. CASE \E kind \in {"Hello", "Up", "Down", "Transmit", "Detach"} :
                Prepare(f, kind, NoLimit, 0, 0)
    BY <1>1, <2>2 DEF Kinds, AnyLimit
  <2>3. CASE \E limit \in Limits : Prepare(f, "Attach", limit, 0, 0)
    BY <1>1, <2>3 DEF Kinds, AnyLimit
  <2>4. CASE \E size \in 1..MaxPacketSize, count \in 1..2 :
                Prepare(f, "Receive", NoLimit, count, size)
    <3>1. PICK size \in 1..MaxPacketSize, count \in 1..2 :
                 Prepare(f, "Receive", NoLimit, count, size)
      BY <2>4
    <3>2. size \in Nat /\ count \in Nat
      BY LimitsNat
    <3> QED
      BY <1>1, <3>1, <3>2 DEF Kinds, AnyLimit
  <2> QED
    BY <2>1, <2>2, <2>3, <2>4 DEF PrepareRequest
<1>3. CASE Complete
  <2> DEFINE h == handling.file
             c == client[h]
  <2>1. client' = [client EXCEPT ![h] = Answered(c, handling.ok)]
    BY <1>3 DEF Complete
  <2>2. ASSUME h \in Files
        PROVE  /\ Answered(c, handling.ok) \in Clients
               /\ Answered(c, handling.ok).pending = NoRequest
    <3>1. c \in Clients
      BY <1>t, <2>2
    <3> HIDE DEF c
    <3>2. CASE c.pending = NoRequest
      BY <3>1, <3>2 DEF Answered
    <3>3. CASE c.pending # NoRequest /\ handling.ok
      <4>1. c.pending \in DriverRequests /\ After(c.pending.kind) \in States
        BY <3>1, <3>3 DEF Clients, DriverRequests, After, States
      <4>2. Answered(c, handling.ok) = Committed(c, c.pending)
        BY <3>3 DEF Answered
      <4>3. Committed(c, c.pending).limit \in AnyLimit
        BY <3>1, <4>1 DEF Committed, Clients, DriverRequests, AnyLimit
      <4> QED
        BY <3>1, <4>1, <4>2, <4>3 DEF Committed, Clients, DriverRequests
    <3>4. CASE c.pending # NoRequest /\ ~handling.ok
      <4>1. Answered(c, handling.ok)
              = [c EXCEPT !.pending = NoRequest, !.state = "ReconnectRequired"]
        BY <3>4 DEF Answered
      <4> QED
        BY <3>1, <4>1 DEF Clients
    <3> QED
      BY <3>2, <3>3, <3>4
  <2> HIDE DEF c
  <2>3. CASE h \in Files
    BY <1>t, <2>1, <2>2, <2>3 DEF DriverInv, DriverType
  <2>4. CASE h \notin Files
    <3>1. client' = client
      BY <1>t, <2>1, <2>4
    <3> QED
      BY <3>1 DEF DriverInv, DriverType
  <2> QED
    BY <2>3, <2>4
<1> QED
  BY <1>2, <1>3

\* A request the driver accepts keeps session, queues and limits in step.
LEMMA RequestsInStep ==
    ASSUME DriverInv, NEW f \in Files, NEW req \in DriverRequests,
           req.kind = "Attach" => req.limit \in Limits,
           Accepts(f, req)
    PROVE  /\ session' \in Sessions /\ queueMtu' \in Nat
           /\ packets' \in [Directions -> Seq(Packets)]
           /\ QueueInv'
<1>t. /\ session \in Sessions /\ session.limit \in AnyLimit /\ queueMtu \in Nat
      /\ packets \in [Directions -> Seq(Packets)]
  BY DEF DriverInv, DriverType, Sessions
<1>a. /\ Advanced(req) \in Sessions
      /\ Advanced(req).state = After(req.kind)
      /\ Advanced(req).limit = session.limit
      /\ Advanced(req).owner = session.owner
  <2>1. After(req.kind) \in States /\ req.sequence \in Nat
    BY DEF DriverRequests, After, States
  <2> QED
    BY <1>t, <2>1 DEF Advanced, Sessions
<1>k. session.state \in Allowed(req.kind)
  BY DEF Accepts, Processed
<1>1. CASE req.kind = "Hello"
  <2>1. session' = Advanced(req) /\ UNCHANGED <<packets, queueMtu>>
    BY <1>1 DEF Accepts, Hello
  <2>2. session.state = "Opened" /\ session'.state = "Negotiated"
    BY <1>1, <1>a, <1>k, <2>1 DEF Allowed, After
  <2>3. packets' = NoPackets
    BY <2>1, <2>2 DEF DriverInv, QueueInv
  <2> QED
    BY <1>a, <1>t, <2>1, <2>2, <2>3, EmptyQueues DEF QueueInv
<1>2. CASE req.kind = "Attach"
  <2>1. /\ session' = [Advanced(req) EXCEPT !.limit = req.limit]
        /\ packets' = NoPackets /\ queueMtu' = req.limit.mtu
    BY <1>2 DEF Accepts, Attach
  <2>2. req.limit \in Limits /\ req.limit \in AnyLimit
    BY <1>2 DEF AnyLimit
  <2>3. session' \in Sessions /\ session'.limit = req.limit /\ session'.state = "Attached"
    BY <1>2, <1>a, <2>1, <2>2 DEF Sessions, After
  <2> QED
    BY <2>1, <2>2, <2>3, EmptyQueues, LimitsNat DEF QueueInv
<1>3. CASE req.kind \in {"Up", "Down"}
  <2>1. session' = Advanced(req) /\ UNCHANGED <<packets, queueMtu>>
    BY <1>3 DEF Accepts, SetLink
  <2>2. session.state \in {"Attached", "LinkUp"} /\ session'.state \in {"Attached", "LinkUp"}
    BY <1>3, <1>a, <1>k, <2>1 DEF Allowed, After
  <2> QED
    BY <1>a, <1>t, <2>1, <2>2 DEF DriverInv, QueueInv, PacketsOfOwner
<1>4. CASE req.kind = "Detach"
  <2>1. /\ session' = [Advanced(req) EXCEPT !.limit = NoLimit]
        /\ packets' = NoPackets /\ queueMtu' = MaxPacketSize
    BY <1>4 DEF Accepts, Detach
  <2>2. session' \in Sessions /\ session'.state = "Negotiated"
    BY <1>4, <1>a, <2>1 DEF Sessions, After, AnyLimit
  <2> QED
    BY <2>1, <2>2, EmptyQueues, LimitsNat DEF QueueInv
<1>5. CASE req.kind = "Transmit"
  <2>1. /\ session' = Advanced(req) /\ queueMtu' = queueMtu
        /\ packets' = [packets EXCEPT !["tx"] = <<>>]
    BY <1>5 DEF Accepts, DequeueTransmit, PoppedBatch
  <2>2. session.state = "LinkUp" /\ session'.state = "LinkUp"
    BY <1>5, <1>a, <1>k, <2>1 DEF Allowed, After
  <2>3. packets' \in [Directions -> Seq(Packets)]
    <3>1. <<>> \in Seq(Packets)
      OBVIOUS
    <3> QED
      BY <1>t, <2>1, <3>1
  <2>4. PacketsOfOwner'
    <3> SUFFICES ASSUME NEW d \in Directions
                 PROVE  /\ Len(packets'[d]) <= session'.limit.depth
                        /\ \A i \in 1..Len(packets'[d]) :
                              /\ packets'[d][i].owner = session'.owner
                              /\ packets'[d][i].size <= session'.limit.mtu
      BY DEF PacketsOfOwner
    <3>1. CASE d = "tx"
      BY <1>a, <1>t, <2>1, <3>1, LimitsNat
    <3>2. CASE d # "tx"
      BY <1>a, <1>t, <2>1, <3>2 DEF DriverInv, QueueInv, PacketsOfOwner
    <3> QED
      BY <3>1, <3>2
  <2> QED
    BY <1>a, <1>t, <2>1, <2>2, <2>3, <2>4 DEF DriverInv, QueueInv
<1>6. CASE req.kind = "Receive"
  <2> DEFINE batch == [i \in 1..req.count |-> [owner |-> session.owner,
                                               size |-> req.size]]
  <2>1. /\ session' = Advanced(req) /\ queueMtu' = queueMtu
        /\ packets' = [packets EXCEPT !["rx"] = packets["rx"] \o batch]
        /\ BatchFits(req)
    BY <1>6 DEF Accepts, EnqueueReceive, PushedBatch
  <2>2. session.state = "LinkUp" /\ session'.state = "LinkUp"
    BY <1>6, <1>a, <1>k, <2>1 DEF Allowed, After
  <2>3. req.count \in Nat /\ req.size \in Nat /\ session.owner \in Nat
    BY <1>t DEF DriverRequests, Sessions
  <2>4. batch \in Seq(Packets) /\ Len(batch) = req.count
    <3>1. [owner |-> session.owner, size |-> req.size] \in Packets
      BY <2>3 DEF Packets
    <3>2. batch \in [1..req.count -> Packets]
      BY <3>1
    <3>3. batch \in Seq(Packets)
      BY <2>3, <3>2
    <3>4. Len(batch) = req.count
      BY <2>3
    <3> QED
      BY <3>3, <3>4
  <2>5. \A i \in 1..Len(batch) : batch[i].owner = session.owner /\ batch[i].size = req.size
    BY <2>3
  <2>6. packets["rx"] \in Seq(Packets)
    BY <1>t DEF Directions
  <2> HIDE DEF batch
  <2>7. packets' \in [Directions -> Seq(Packets)]
    <3>1. packets["rx"] \o batch \in Seq(Packets)
      BY <2>4, <2>6
    <3> QED
      BY <1>t, <2>1, <3>1
  <2>8. req.size <= session.limit.mtu
    BY <2>1, <2>2 DEF BatchFits, DriverInv, QueueInv
  <2>9. PacketsOfOwner'
    <3> SUFFICES ASSUME NEW d \in Directions
                 PROVE  /\ Len(packets'[d]) <= session'.limit.depth
                        /\ \A i \in 1..Len(packets'[d]) :
                              /\ packets'[d][i].owner = session'.owner
                              /\ packets'[d][i].size <= session'.limit.mtu
      BY DEF PacketsOfOwner
    <3>1. CASE d = "rx"
      <4>1. packets'[d] = packets["rx"] \o batch
        BY <1>t, <2>1, <3>1
      <4>2. Len(packets["rx"] \o batch) = Len(packets["rx"]) + req.count
        BY <2>4, <2>6
      <4>3. Len(packets'[d]) <= session'.limit.depth
        BY <1>a, <2>1, <4>1, <4>2 DEF BatchFits
      <4>4. ASSUME NEW i \in 1..Len(packets["rx"] \o batch)
            PROVE  /\ (packets["rx"] \o batch)[i].owner = session.owner
                   /\ (packets["rx"] \o batch)[i].size <= session.limit.mtu
        <5>1. CASE i <= Len(packets["rx"])
          <6>1. (packets["rx"] \o batch)[i] = packets["rx"][i] /\ i \in 1..Len(packets["rx"])
            BY <2>4, <2>6, <5>1
          <6> QED
            BY <6>1 DEF DriverInv, QueueInv, PacketsOfOwner, Directions
        <5>2. CASE i > Len(packets["rx"])
          <6>1. /\ (packets["rx"] \o batch)[i] = batch[i - Len(packets["rx"])]
                /\ i - Len(packets["rx"]) \in 1..Len(batch)
            BY <2>4, <2>6, <4>2, <5>2
          <6> QED
            BY <2>5, <2>8, <6>1
        <5> QED
          BY <2>6, <5>1, <5>2
      <4> QED
        BY <1>a, <2>1, <4>1, <4>3, <4>4
    <3>2. CASE d # "rx"
      BY <1>a, <1>t, <2>1, <3>2 DEF DriverInv, QueueInv, PacketsOfOwner
    <3> QED
      BY <3>1, <3>2
  <2> QED
    BY <1>a, <1>t, <2>1, <2>2, <2>7, <2>9 DEF DriverInv, QueueInv
<1> QED
  BY <1>1, <1>2, <1>3, <1>4, <1>5, <1>6 DEF DriverRequests, Kinds

\* A step that empties the queues and closes, opens or keeps the session.
LEMMA EmptiedInStep ==
    ASSUME DriverInv, packets' = NoPackets,
           \/ session' = ClosedSession /\ queueMtu' \in {MaxPacketSize, queueMtu}
           \/ session' = session /\ queueMtu' = queueMtu
           \/ /\ session' = [ClosedSession EXCEPT !.state = "Opened", !.owner = nextCookie + 1]
              /\ queueMtu' = queueMtu
    PROVE  /\ session' \in Sessions /\ queueMtu' \in Nat
           /\ packets' \in [Directions -> Seq(Packets)]
           /\ QueueInv'
<1>1. session \in Sessions /\ queueMtu \in Nat /\ nextCookie + 1 \in Nat
  BY DEF DriverInv, DriverType
<1>2. /\ session' \in Sessions /\ queueMtu' \in Nat
      /\ session'.state \in {"Closed", "Opened"} \/ UNCHANGED <<session, queueMtu>>
  BY <1>1, ClosedTyped, LimitsNat
<1> QED
  BY <1>2, EmptyQueues DEF DriverInv, QueueInv

\* One packet of the host's ring is queued.
LEMMA TransmitInStep ==
    ASSUME DriverInv, NEW size \in 1..MaxPacketSize, AdvanceTransmit(size)
    PROVE  packets' \in [Directions -> Seq(Packets)] /\ QueueInv'
<1> DEFINE q == packets["tx"]
           p == [owner |-> session.owner, size |-> size]
<1>t. /\ session \in Sessions /\ session.limit \in AnyLimit /\ queueMtu \in Nat
      /\ packets \in [Directions -> Seq(Packets)] /\ q \in Seq(Packets)
  BY DEF DriverInv, DriverType, Sessions, Directions
<1>1. /\ session.state = "LinkUp" /\ Len(q) < session.limit.depth /\ size <= queueMtu
      /\ packets' = [packets EXCEPT !["tx"] = Append(q, p)]
      /\ UNCHANGED <<session, queueMtu>>
  BY DEF AdvanceTransmit, Carries, Pushed
<1>2. p \in Packets /\ size <= session.limit.mtu
  <2>1. size \in Nat /\ session.owner \in Nat
    BY <1>t, LimitsNat DEF Sessions
  <2> QED
    BY <1>1, <2>1 DEF Packets, DriverInv, QueueInv
<1>3. p.owner = session.owner /\ p.size = size
  OBVIOUS
<1> HIDE DEF p
<1>4. Append(q, p) \in Seq(Packets) /\ Len(Append(q, p)) = Len(q) + 1
  BY <1>t, <1>2
<1>5. packets' \in [Directions -> Seq(Packets)]
  BY <1>t, <1>1, <1>4
<1>6. PacketsOfOwner'
  <2> SUFFICES ASSUME NEW d \in Directions
               PROVE  /\ Len(packets'[d]) <= session'.limit.depth
                      /\ \A i \in 1..Len(packets'[d]) :
                            /\ packets'[d][i].owner = session'.owner
                            /\ packets'[d][i].size <= session'.limit.mtu
    BY DEF PacketsOfOwner
  <2>1. CASE d = "tx"
    <3>1. packets'[d] = Append(q, p)
      BY <1>t, <1>1, <2>1
    <3>2. Len(q) \in Nat /\ session.limit.depth \in Nat
      BY <1>t, LimitsNat
    <3>3. ASSUME NEW i \in 1..Len(Append(q, p))
          PROVE  /\ Append(q, p)[i].owner = session.owner
                 /\ Append(q, p)[i].size <= session.limit.mtu
      <4>1. CASE i = Len(q) + 1
        <5>1. Append(q, p)[i] = p
          BY <1>t, <1>2, <4>1
        <5> QED
          BY <1>2, <1>3, <5>1
      <4>2. CASE i # Len(q) + 1
        <5>1. i \in 1..Len(q)
          BY <1>4, <3>2, <4>2
        <5>2. Append(q, p)[i] = q[i]
          BY <1>t, <1>2, <5>1
        <5> QED
          BY <5>1, <5>2 DEF DriverInv, QueueInv, PacketsOfOwner, Directions
      <4> QED
        BY <4>1, <4>2
    <3>4. Len(Append(q, p)) <= session.limit.depth
      BY <1>1, <1>4, <3>2
    <3> QED
      BY <1>1, <3>1, <3>3, <3>4
  <2>2. CASE d # "tx"
    BY <1>t, <1>1, <2>2 DEF DriverInv, QueueInv, PacketsOfOwner
  <2> QED
    BY <2>1, <2>2
<1> QED
  BY <1>1, <1>5, <1>6 DEF DriverInv, QueueInv

\* The host takes a packet off the other queue.
LEMMA ReceiveInStep ==
    ASSUME DriverInv, AdvanceReceive
    PROVE  packets' \in [Directions -> Seq(Packets)] /\ QueueInv'
<1> DEFINE q == packets["rx"]
<1>t. /\ packets \in [Directions -> Seq(Packets)] /\ q \in Seq(Packets)
      /\ session.limit.depth \in Nat
  BY LimitsNat DEF DriverInv, DriverType, Sessions, Directions
<1>1. /\ session.state = "LinkUp" /\ q # <<>>
      /\ packets' = [packets EXCEPT !["rx"] = Tail(q)]
      /\ UNCHANGED <<session, queueMtu>>
  BY DEF AdvanceReceive, Carries, Popped
<1>2. /\ Tail(q) \in Seq(Packets) /\ Len(q) \in Nat /\ Len(Tail(q)) = Len(q) - 1
      /\ \A i \in 1..Len(Tail(q)) : Tail(q)[i] = q[i + 1] /\ i + 1 \in 1..Len(q)
  BY <1>t, <1>1
<1>3. packets' \in [Directions -> Seq(Packets)]
  BY <1>t, <1>1, <1>2
<1>4. /\ Len(q) <= session.limit.depth
      /\ \A i \in 1..Len(q) : q[i].owner = session.owner /\ q[i].size <= session.limit.mtu
  BY DEF DriverInv, QueueInv, PacketsOfOwner, Directions
<1>5. PacketsOfOwner'
  <2> SUFFICES ASSUME NEW d \in Directions
               PROVE  /\ Len(packets'[d]) <= session'.limit.depth
                      /\ \A i \in 1..Len(packets'[d]) :
                            /\ packets'[d][i].owner = session'.owner
                            /\ packets'[d][i].size <= session'.limit.mtu
    BY DEF PacketsOfOwner
  <2>1. CASE d = "rx"
    <3>1. packets'[d] = Tail(q)
      BY <1>t, <1>1, <2>1
    <3>2. Len(Tail(q)) <= session.limit.depth
      BY <1>t, <1>2, <1>4
    <3>3. \A i \in 1..Len(Tail(q)) : /\ Tail(q)[i].owner = session.owner
                                    /\ Tail(q)[i].size <= session.limit.mtu
      BY <1>2, <1>4
    <3> QED
      BY <1>1, <3>1, <3>2, <3>3
  <2>2. CASE d # "rx"
    BY <1>t, <1>1, <2>2 DEF DriverInv, QueueInv, PacketsOfOwner
  <2> QED
    BY <2>1, <2>2
<1> QED
  BY <1>1, <1>3, <1>5 DEF DriverInv, QueueInv

\* A packet queue is stopped or cancelled.
LEMMA ResetInStep ==
    ASSUME DriverInv, NEW d \in Directions, NEW at, ResetQueue(d, at)
    PROVE  /\ session' \in Sessions
           /\ packets' \in [Directions -> Seq(Packets)]
           /\ QueueInv'
<1>t. /\ session \in Sessions /\ packets \in [Directions -> Seq(Packets)]
      /\ session.limit.depth \in Nat
  BY LimitsNat DEF DriverInv, DriverType, Sessions
<1>1. /\ packets' = [packets EXCEPT ![d] = <<>>] /\ queueMtu' = queueMtu
      /\ session' = [session EXCEPT !.state = IF session.state = "LinkUp"
                                              THEN "Attached" ELSE session.state]
  BY DEF ResetQueue
<1>2. /\ session' \in Sessions /\ session'.limit = session.limit
      /\ session'.owner = session.owner
      /\ session'.state = IF session.state = "LinkUp" THEN "Attached" ELSE session.state
  BY <1>t, <1>1 DEF Sessions, States
<1>3. packets' \in [Directions -> Seq(Packets)]
  <2>1. <<>> \in Seq(Packets)
    OBVIOUS
  <2> QED
    BY <1>t, <1>1, <2>1
<1>4. packets = NoPackets => packets' = NoPackets
  BY <1>1 DEF NoPackets
<1>5. PacketsOfOwner'
  <2> SUFFICES ASSUME NEW e \in Directions
               PROVE  /\ Len(packets'[e]) <= session'.limit.depth
                      /\ \A i \in 1..Len(packets'[e]) :
                            /\ packets'[e][i].owner = session'.owner
                            /\ packets'[e][i].size <= session'.limit.mtu
    BY DEF PacketsOfOwner
  <2>1. CASE e = d
    <3>1. packets'[e] = <<>>
      BY <1>t, <1>1, <2>1
    <3>2. Len(packets'[e]) = 0
      BY <3>1
    <3> QED
      BY <1>t, <1>2, <3>2
  <2>2. CASE e # d
    BY <1>t, <1>1, <1>2, <2>2 DEF DriverInv, QueueInv, PacketsOfOwner
  <2> QED
    BY <2>1, <2>2
<1> QED
  BY <1>1, <1>2, <1>3, <1>4, <1>5 DEF DriverInv, QueueInv

\* Every step of the driver and of its clients keeps the invariant.
LEMMA DriverInvKept == DriverInv /\ [DriverNext]_driverVars => DriverInv'
<1> SUFFICES ASSUME DriverInv, [DriverNext]_driverVars PROVE DriverInv'
  OBVIOUS
<1>c. /\ client \in [Files -> Clients] /\ nextCookie \in Nat
      /\ \A f \in Files : client[f].pending.kind = "Attach"
                             => client[f].pending.limit \in Limits
  BY DEF DriverInv, DriverType
<1>1. CASE UNCHANGED driverVars
  BY <1>1 DEF driverVars, DriverInv, DriverType, QueueInv, PacketsOfOwner
<1>2. CASE \/ PrepareHardware \/ D0Entry
           \/ \E d \in Directions : CreateQueue(d) \/ StartQueue(d)
           \/ \E f \in Files : CleanupDisconnects(f)
  <2>1. UNCHANGED <<session, packets, queueMtu, nextCookie, client>>
    BY <1>2 DEF PrepareHardware, D0Entry, CreateQueue, StartQueue, CleanupDisconnects
  <2> QED
    BY <2>1, QueuesUntouched DEF DriverInv, DriverType
<1>3. CASE D0Exit \/ ReleaseHardware
  <2>1. /\ packets' = NoPackets /\ session' = ClosedSession /\ queueMtu' = MaxPacketSize
        /\ UNCHANGED <<nextCookie, client>>
    BY <1>3 DEF D0Exit, ReleaseHardware, XsnetResetSession
  <2> QED
    BY <1>c, <2>1, EmptiedInStep DEF DriverInv, DriverType
<1>4. CASE \E d \in Directions : StopQueue(d) \/ CancelQueue(d)
  <2>1. PICK d \in Directions : ResetQueue(d, "created") \/ ResetQueue(d, "none")
    BY <1>4 DEF StopQueue, CancelQueue
  <2>2. UNCHANGED <<queueMtu, nextCookie, client>>
    BY <2>1 DEF ResetQueue
  <2> QED
    BY <2>1, <2>2, ResetInStep DEF DriverInv, DriverType
<1>5. CASE \/ \E size \in 1..MaxPacketSize : AdvanceTransmit(size)
           \/ AdvanceReceive
  <2>1. packets' \in [Directions -> Seq(Packets)] /\ QueueInv'
    BY <1>5, TransmitInStep, ReceiveInStep
  <2>2. UNCHANGED <<session, queueMtu, nextCookie, client>>
    BY <1>5 DEF AdvanceTransmit, AdvanceReceive
  <2> QED
    BY <2>1, <2>2 DEF DriverInv, DriverType
<1>6. CASE \E f \in Files : FileCreate(f)
  <2>1. /\ nextCookie' = nextCookie + 1 /\ UNCHANGED <<queueMtu, client>>
        /\ \/ UNCHANGED <<session, packets>>
           \/ /\ session' = [ClosedSession EXCEPT !.state = "Opened", !.owner = nextCookie + 1]
              /\ packets' = NoPackets
    BY <1>6 DEF FileCreate
  <2>2. CASE UNCHANGED <<session, packets>>
    BY <1>c, <2>1, <2>2, QueuesUntouched DEF DriverInv, DriverType
  <2>3. CASE ~UNCHANGED <<session, packets>>
    BY <1>c, <2>1, <2>3, EmptiedInStep DEF DriverInv, DriverType
  <2> QED
    BY <2>2, <2>3
<1>7. CASE \E f \in Files : FileCleanup(f)
  <2>1. PICK f \in Files : FileCleanup(f)
    BY <1>7
  <2>2. /\ packets' = NoPackets /\ session' \in {ClosedSession, session}
        /\ UNCHANGED <<queueMtu, nextCookie>>
        /\ client' = [client EXCEPT ![f] = [[client[f] EXCEPT !.state = "Gone"]
                                               EXCEPT !.pending = NoRequest]]
    BY <2>1, <1>c DEF FileCleanup
  <2>3. client[f] \in Clients
    BY <1>c
  <2>4. /\ [[client[f] EXCEPT !.state = "Gone"] EXCEPT !.pending = NoRequest] \in Clients
        /\ [[client[f] EXCEPT !.state = "Gone"] EXCEPT !.pending = NoRequest].pending.kind
              = "none"
    BY <2>3 DEF Clients, NoRequest
  <2>5. /\ client' \in [Files -> Clients]
        /\ \A g \in Files : client'[g].pending.kind = "Attach"
                               => client'[g].pending.limit \in Limits
    BY <1>c, <2>2, <2>4
  <2> QED
    BY <1>c, <2>2, <2>5, EmptiedInStep DEF DriverInv, DriverType
<1>8. CASE \E f \in Files : DeviceControl(f)
  <2>1. PICK f \in Files : DeviceControl(f)
    BY <1>8
  <2>2. UNCHANGED <<nextCookie, client>> /\ client[f].pending # NoRequest
    BY <2>1 DEF DeviceControl
  <2>3. client[f].pending \in DriverRequests
    BY <1>c, <2>2 DEF Clients
  <2>4. CASE Accepts(f, client[f].pending)
    BY <1>c, <2>2, <2>3, <2>4, RequestsInStep DEF DriverInv, DriverType
  <2>5. CASE ~Accepts(f, client[f].pending)
    <3>1. UNCHANGED <<session, packets, queueMtu>>
      BY <2>1, <2>5 DEF DeviceControl
    <3> QED
      BY <2>2, <3>1, QueuesUntouched DEF DriverInv, DriverType
  <2> QED
    BY <2>4, <2>5
<1>9. CASE (\E f \in Files : PrepareRequest(f)) \/ Complete
  <2>1. UNCHANGED <<session, packets, queueMtu, nextCookie>>
    BY <1>9 DEF PrepareRequest, Prepare, Complete
  <2>2. /\ client' \in [Files -> Clients]
        /\ \A f \in Files : client'[f].pending.kind = "Attach"
                               => client'[f].pending.limit \in Limits
    BY <1>9, ClientTypes
  <2> QED
    BY <2>1, <2>2, QueuesUntouched DEF DriverInv, DriverType
<1> QED
  BY <1>1, <1>2, <1>3, <1>4, <1>5, <1>6, <1>7, <1>8, <1>9 DEF DriverNext

\* The driver before its hardware is prepared.
LEMMA DriverInitially == DriverInit => DriverInv
<1> SUFFICES ASSUME DriverInit PROVE DriverInv
  OBVIOUS
<1>1. session \in Sessions /\ session.state = "Closed" /\ session.limit = NoLimit
  BY ClosedTyped DEF DriverInit, ClosedSession
<1>2. /\ OpenedClient \in Clients
      /\ OpenedClient.pending.kind = "none"
  BY DEF OpenedClient, Clients, States, NoRequest, AnyLimit
<1>3. packets = NoPackets /\ queueMtu \in Nat /\ nextCookie \in Nat
  BY LimitsNat DEF DriverInit
<1>4. /\ client \in [Files -> Clients]
      /\ \A f \in Files : client[f].pending.kind = "Attach"
                             => client[f].pending.limit \in Limits
  BY <1>2 DEF DriverInit
<1>5. \A d \in Directions : packets[d] = <<>>
  BY <1>3 DEF NoPackets
<1>6. packets \in [Directions -> Seq(Packets)] /\ PacketsOfOwner
  BY <1>1, <1>3, <1>5 DEF NoPackets, NoLimit, PacketsOfOwner
<1> QED
  BY <1>1, <1>3, <1>4, <1>6 DEF DriverInv, DriverType, QueueInv

\* The private queues hold packets of the open session only, within the limits
\* it negotiated, through every order of requests, cleanups, power changes and
\* queue stops (XsnetResetSession, XsnetEvtFileCleanup, XsnetPacketQueuePushBatch).
THEOREM QueuesOfOwner == DriverSpec => []PacketsOfOwner
<1>1. DriverInv => PacketsOfOwner
  BY DEF DriverInv, QueueInv
<1> QED
  BY <1>1, DriverInitially, DriverInvKept, PTL DEF DriverSpec

-------------------------------------------------------------------------------
(***************************************************************************)
(* The clients of the driver.                                              *)
(***************************************************************************)

FileSet == [accepted : BOOLEAN, cookie : Nat, stage : {"new", "open", "cleanup", "closed"}]
HandlingSet == [file : Files \cup {0}, ok : BOOLEAN, link : {"keep", "up", "down"}]

\* A cookie belongs to one open file, and a file not opened yet has a new client.
FileInv ==
    /\ file \in [Files -> FileSet]
    /\ handling \in HandlingSet
    /\ handling.file = 0 => handling = Idle
    /\ session.owner <= nextCookie
    /\ \A f \in Files :
          /\ file[f].accepted <=> file[f].stage = "open"
          /\ file[f].accepted => 0 < file[f].cookie /\ file[f].cookie <= nextCookie
          /\ file[f].stage = "new" => client[f] = OpenedClient /\ handling.file # f
    /\ \A f, g \in Files :
          file[f].accepted /\ file[g].accepted /\ file[f].cookie = file[g].cookie => f = g

\* The file owns the session; the client knows what the session is.
Owns(f) == file[f].accepted /\ session.owner = file[f].cookie
Knows(c) ==
    /\ c.next = session.last + 1
    /\ c.limit = session.limit
    /\ c.state = session.state \/ (c.state = "LinkUp" /\ session.state = "Attached")

\* Between the driver's answer and its arrival the client is a request behind.
StepInv ==
    \A f \in Files :
       /\ client[f].pending # NoRequest =>
             client[f].pending.sequence = client[f].next /\ client[f].state # "ReconnectRequired"
       /\ file[f].accepted /\ handling.file = f => client[f].pending # NoRequest
       /\ Owns(f) /\ handling.file # f /\ client[f].state # "ReconnectRequired" => Knows(client[f])
       /\ Owns(f) /\ handling.file = f /\ handling.ok =>
             Knows(Committed(client[f], client[f].pending))

ClientInv == DriverInv /\ FileInv /\ StepInv

\* Steps that end the session, take its link down or leave it alone.
LEMMA SessionKept ==
    ASSUME ClientInv, UNCHANGED <<file, handling, client, nextCookie>>,
           \/ session'.owner = 0
           \/ /\ session'.owner = session.owner /\ session'.last = session.last
              /\ session'.limit = session.limit
              /\ \/ session'.state = session.state
                 \/ session.state = "LinkUp" /\ session'.state = "Attached"
    PROVE  FileInv' /\ StepInv'
<1> USE DEF ClientInv
<1>1. FileInv'
  BY DEF FileInv, DriverInv, DriverType
<1>2. \A f \in Files :
         Owns(f)' => /\ Owns(f)
                     /\ session'.last = session.last /\ session'.limit = session.limit
                     /\ \/ session'.state = session.state
                        \/ session.state = "LinkUp" /\ session'.state = "Attached"
  BY DEF Owns, FileInv
<1> QED
  BY <1>1, <1>2 DEF StepInv, Knows

\* A client prepares a request.
LEMMA PrepareKnows ==
    ASSUME ClientInv, NEW f \in Files, NEW kind \in Kinds, NEW limit, NEW count, NEW size,
           Prepare(f, kind, limit, count, size)
    PROVE  FileInv' /\ StepInv'
<1> USE DEF ClientInv
<1> DEFINE req == [kind |-> kind, sequence |-> client[f].next, limit |-> limit,
                       count |-> count, size |-> size]
<1>1. /\ client \in [Files -> Clients] /\ client[f].pending = NoRequest
      /\ client[f].state \in Allowed(kind) /\ file[f].stage = "open"
      /\ client' = [client EXCEPT ![f].pending = req]
      /\ UNCHANGED <<session, file, nextCookie, handling>>
  BY DEF Prepare, DriverInv, DriverType
<1>2. client[f].state # "ReconnectRequired"
  BY <1>1 DEF Allowed, Kinds
<1>3. /\ file[f].accepted /\ handling.file # f
  BY <1>1 DEF FileInv, StepInv
<1>4. req.sequence = client[f].next
  OBVIOUS
<1> HIDE DEF req
<1>5. /\ client'[f].pending = req /\ client'[f].state = client[f].state
      /\ client'[f].next = client[f].next /\ client'[f].limit = client[f].limit
      /\ \A g \in Files \ {f} : client'[g] = client[g]
  BY <1>1 DEF Clients
<1>6. FileInv'
  BY <1>1, <1>5 DEF FileInv
<1>7. ASSUME NEW g \in Files
      PROVE  /\ client'[g].pending # NoRequest =>
                   /\ client'[g].pending.sequence = client'[g].next
                   /\ client'[g].state # "ReconnectRequired"
             /\ file'[g].accepted /\ handling'.file = g => client'[g].pending # NoRequest
             /\ Owns(g)' /\ handling'.file # g /\ client'[g].state # "ReconnectRequired"
                   => Knows(client[g])'
             /\ Owns(g)' /\ handling'.file = g /\ handling'.ok =>
                   Knows(Committed(client[g], client[g].pending))'
  <2>1. CASE g = f
    BY <1>1, <1>2, <1>3, <1>4, <1>5, <2>1 DEF StepInv, Owns, Knows
  <2>2. CASE g # f
    BY <1>1, <1>5, <2>2 DEF StepInv, Owns, Knows
  <2> QED
    BY <2>1, <2>2
<1> QED
  BY <1>6, <1>7 DEF StepInv

\* The outcome of a request reaches the client.
LEMMA CompleteKnows == ASSUME ClientInv, Complete PROVE FileInv' /\ StepInv'
<1> USE DEF ClientInv
<1> DEFINE h == handling.file
           c == client[h]
           d == Answered(c, handling.ok)
<1>1. /\ client \in [Files -> Clients] /\ handling' = Idle
      /\ client' = [client EXCEPT ![h] = d]
      /\ UNCHANGED <<session, file, nextCookie>>
  BY DEF Complete, DriverInv, DriverType
<1>2. h \in Files /\ c \in Clients
  BY <1>1 DEF Complete, FileInv, HandlingSet
<1>3. Idle \in HandlingSet /\ Idle.file = 0 /\ 0 \notin Files
  BY DriverAssumption DEF Idle, HandlingSet
<1>4. /\ d.pending = NoRequest
      /\ c.pending = NoRequest => d = c
      /\ c.pending # NoRequest /\ handling.ok => d = Committed(c, c.pending)
      /\ c.pending # NoRequest /\ ~handling.ok => d.state = "ReconnectRequired"
  BY <1>2 DEF Answered, Committed, Clients
<1>5. OpenedClient.pending = NoRequest
  BY DEF OpenedClient
<1> HIDE DEF d
<1>6. client'[h] = d /\ \A g \in Files \ {h} : client'[g] = client[g]
  BY <1>1, <1>2
<1>7. FileInv'
  BY <1>1, <1>3, <1>4, <1>5, <1>6 DEF FileInv
<1>8. ASSUME NEW g \in Files
      PROVE  /\ client'[g].pending # NoRequest =>
                   /\ client'[g].pending.sequence = client'[g].next
                   /\ client'[g].state # "ReconnectRequired"
             /\ Owns(g)' /\ client'[g].state # "ReconnectRequired" => Knows(client[g])'
  <2>1. CASE g = h
    <3>1. Owns(g)' => c.pending # NoRequest /\ Owns(g)
      BY <1>1, <2>1 DEF StepInv, Owns
    <3>2. Owns(g)' /\ d.state # "ReconnectRequired" => Knows(d)
      BY <1>4, <2>1, <3>1 DEF StepInv
    <3> QED
      BY <1>1, <1>4, <1>6, <2>1, <3>2 DEF Knows
  <2>2. CASE g # h
    BY <1>1, <1>6, <2>2 DEF StepInv, Owns, Knows
  <2> QED
    BY <2>1, <2>2
<1>9. \A g \in Files : handling'.file # g
  BY <1>1, <1>3
<1> QED
  BY <1>7, <1>8, <1>9 DEF StepInv

\* What an accepted request does to the session and to its client, later.
LEMMA AcceptedSession ==
    ASSUME ClientInv, NEW f \in Files, NEW req \in DriverRequests, Accepts(f, req)
    PROVE  /\ session'.owner = session.owner /\ session'.last = req.sequence
           /\ session'.state = After(req.kind)
           /\ session'.limit = CASE req.kind = "Attach" -> req.limit
                                 [] req.kind = "Detach" -> NoLimit
                                 [] OTHER -> session.limit
<1>1. session \in Sessions
  BY DEF ClientInv, DriverInv, DriverType
<1>2. /\ Advanced(req).owner = session.owner /\ Advanced(req).last = req.sequence
      /\ Advanced(req).state = After(req.kind)
      /\ Advanced(req).limit = session.limit
      /\ [Advanced(req) EXCEPT !.limit = NoLimit].owner = session.owner
      /\ [Advanced(req) EXCEPT !.limit = NoLimit].last = req.sequence
      /\ [Advanced(req) EXCEPT !.limit = NoLimit].state = After(req.kind)
      /\ [Advanced(req) EXCEPT !.limit = NoLimit].limit = NoLimit
      /\ [Advanced(req) EXCEPT !.limit = req.limit].owner = session.owner
      /\ [Advanced(req) EXCEPT !.limit = req.limit].last = req.sequence
      /\ [Advanced(req) EXCEPT !.limit = req.limit].state = After(req.kind)
      /\ [Advanced(req) EXCEPT !.limit = req.limit].limit = req.limit
  BY <1>1 DEF Advanced, Sessions
<1>3. CASE req.kind = "Attach"
  BY <1>2, <1>3 DEF Accepts, Attach
<1>4. CASE req.kind = "Detach"
  BY <1>2, <1>4 DEF Accepts, Detach
<1>5. CASE req.kind \notin {"Attach", "Detach"}
  <2>1. session' = Advanced(req)
    BY <1>5 DEF Accepts, Hello, SetLink, DequeueTransmit, EnqueueReceive
  <2> QED
    BY <1>2, <1>5, <2>1
<1> QED
  BY <1>3, <1>4, <1>5

\* The driver handles a request.
LEMMA ControlKnows ==
    ASSUME ClientInv, NEW f \in Files, DeviceControl(f) PROVE FileInv' /\ StepInv'
<1> USE DEF ClientInv
<1> DEFINE req == client[f].pending
<1>1. /\ handling = Idle /\ req # NoRequest /\ UNCHANGED <<file, nextCookie, client>>
      /\ client[f] \in Clients /\ req \in DriverRequests /\ file[f].stage # "new"
  BY DEF DeviceControl, DriverInv, DriverType, Clients, FileInv, OpenedClient
<1>2. Idle.file = 0 /\ 0 \notin Files
  BY DriverAssumption DEF Idle
<1>3. LinkAfter(req.kind) \in {"keep", "up", "down"}
  BY DEF LinkAfter
<1>4. CASE Accepts(f, req)
  <2>1. CASE handling' = [file |-> f, ok |-> TRUE, link |-> LinkAfter(req.kind)]
    <3>1. handling' \in HandlingSet /\ handling'.file = f /\ handling'.ok
      BY <1>3, <2>1 DEF HandlingSet
    <3>2. Owns(f) /\ session'.owner = session.owner
      BY <1>1, <1>4, AcceptedSession DEF Accepts, Processed, Owns
    <3>3. \A g \in Files \ {f} : ~Owns(g)'
      BY <1>1, <3>2 DEF Owns, FileInv
    <3>4. Knows(Committed(client[f], req))'
      <4>1. Knows(client[f])
        BY <1>1, <1>2, <3>2 DEF StepInv
      <4>2. req.sequence \in Nat
        BY <1>1 DEF DriverRequests
      <4> QED
        BY <1>1, <1>4, <4>1, <4>2, AcceptedSession DEF Knows, Committed
    <3>5. FileInv'
      BY <1>1, <1>2, <3>1, <3>2 DEF FileInv
    <3> QED
      BY <1>1, <3>1, <3>3, <3>4, <3>5 DEF StepInv
  <2>2. CASE UNCHANGED session /\ handling' = [file |-> f, ok |-> FALSE, link |-> "keep"]
    <3>1. handling' \in HandlingSet /\ handling'.file = f /\ ~handling'.ok
      BY <2>2 DEF HandlingSet
    <3>2. FileInv'
      BY <1>1, <1>2, <2>2, <3>1 DEF FileInv
    <3> QED
      BY <1>1, <1>2, <2>2, <3>1, <3>2 DEF StepInv, Owns, Knows
  <2> QED
    BY <2>1, <2>2 DEF DeviceControl
<1>5. CASE ~Accepts(f, req)
  <2>1. UNCHANGED session /\ handling' = [file |-> f, ok |-> FALSE, link |-> "keep"]
    BY <1>5 DEF DeviceControl
  <2>2. handling' \in HandlingSet /\ handling'.file = f /\ ~handling'.ok
    BY <2>1 DEF HandlingSet
  <2>3. FileInv'
    BY <1>1, <1>2, <2>1, <2>2 DEF FileInv
  <2> QED
    BY <1>1, <1>2, <2>1, <2>2, <2>3 DEF StepInv, Owns, Knows
<1> QED
  BY <1>4, <1>5

\* A file is opened, with a session or refused.
LEMMA CreateKnows ==
    ASSUME ClientInv, NEW f \in Files, FileCreate(f) PROVE FileInv' /\ StepInv'
<1> USE DEF ClientInv
<1>1. /\ file \in [Files -> FileSet] /\ file[f] \in FileSet /\ file[f].stage = "new"
      /\ ~file[f].accepted /\ client[f] = OpenedClient
      /\ nextCookie \in Nat /\ nextCookie' = nextCookie + 1 /\ UNCHANGED <<handling, client>>
      /\ session \in Sessions /\ session.owner \in Nat
  BY DEF FileCreate, FileInv, DriverInv, DriverType, Sessions
<1>2. CASE session.state = "Closed"
  <2> DEFINE new == [accepted |-> TRUE, cookie |-> nextCookie + 1, stage |-> "open"]
  <2>1. /\ session' = [ClosedSession EXCEPT !.state = "Opened", !.owner = nextCookie + 1]
        /\ file' = [file EXCEPT ![f] = new]
    BY <1>1, <1>2 DEF FileCreate
  <2>2. /\ session'.owner = nextCookie + 1 /\ session'.state = "Opened"
        /\ session'.last = 0 /\ session'.limit = NoLimit
    BY <2>1 DEF ClosedSession
  <2>3. new \in FileSet /\ new.accepted /\ new.cookie = nextCookie + 1 /\ new.stage = "open"
    BY <1>1 DEF FileSet
  <2> HIDE DEF new
  <2>4. /\ file' \in [Files -> FileSet] /\ file'[f] = new
        /\ \A g \in Files \ {f} : file'[g] = file[g]
    BY <1>1, <2>1, <2>3
  <2>5. FileInv'
    <3>1. \A g \in Files : file[g].accepted => file[g].cookie \in Nat /\ file[g].cookie <= nextCookie
      BY <1>1 DEF FileInv, FileSet
    <3>2. session'.owner <= nextCookie'
      BY <1>1, <2>2, <2>3, <2>4 DEF FileInv
    <3>3. \A g \in Files : /\ file'[g].accepted <=> file'[g].stage = "open"
                           /\ file'[g].accepted => 0 < file'[g].cookie /\ file'[g].cookie <= nextCookie'
                           /\ file'[g].stage = "new" => client'[g] = OpenedClient /\ handling'.file # g
      BY <1>1, <2>2, <2>3, <2>4, <3>1 DEF FileInv
    <3>4. \A g, k \in Files :
             file'[g].accepted /\ file'[k].accepted /\ file'[g].cookie = file'[k].cookie => g = k
      BY <1>1, <2>2, <2>3, <2>4, <3>1 DEF FileInv
    <3> QED
      BY <1>1, <2>2, <2>3, <2>4, <3>2, <3>3, <3>4 DEF FileInv
  <2>6. \A g \in Files \ {f} : ~Owns(g)'
    BY <1>1, <2>2, <2>4 DEF Owns, FileInv
  <2>7. /\ client'[f].pending = NoRequest /\ client'[f].next = 1
        /\ client'[f].limit = NoLimit /\ client'[f].state = "Opened"
    BY <1>1 DEF OpenedClient
  <2>8. Knows(client[f])'
    BY <2>2, <2>7 DEF Knows
  <2>9. handling'.file # f
    BY <1>1 DEF FileInv
  <2> QED
    BY <1>1, <2>4, <2>5, <2>6, <2>7, <2>8, <2>9 DEF StepInv
<1>3. CASE session.state # "Closed"
  <2>1. UNCHANGED session /\ file' = [file EXCEPT ![f].stage = "closed"]
    BY <1>3 DEF FileCreate
  <2>2. /\ file' \in [Files -> FileSet] /\ ~file'[f].accepted /\ file'[f].stage = "closed"
        /\ \A g \in Files \ {f} : file'[g] = file[g]
    BY <1>1, <2>1 DEF FileSet
  <2>3. FileInv'
    <3>1. \A g \in Files : file[g].accepted => file[g].cookie \in Nat /\ file[g].cookie <= nextCookie
      BY <1>1 DEF FileInv, FileSet
    <3>2. session'.owner <= nextCookie'
      BY <1>1, <2>1, <2>2 DEF FileInv
    <3>3. \A g \in Files : /\ file'[g].accepted <=> file'[g].stage = "open"
                           /\ file'[g].accepted => 0 < file'[g].cookie /\ file'[g].cookie <= nextCookie'
                           /\ file'[g].stage = "new" => client'[g] = OpenedClient /\ handling'.file # g
      BY <1>1, <2>1, <2>2, <3>1 DEF FileInv
    <3>4. \A g, k \in Files :
             file'[g].accepted /\ file'[k].accepted /\ file'[g].cookie = file'[k].cookie => g = k
      BY <1>1, <2>1, <2>2, <3>1 DEF FileInv
    <3> QED
      BY <1>1, <2>1, <2>2, <3>2, <3>3, <3>4 DEF FileInv
  <2>4. \A g \in Files : Owns(g)' => g # f /\ Owns(g)
    BY <2>1, <2>2 DEF Owns
  <2> QED
    BY <1>1, <2>1, <2>2, <2>3, <2>4 DEF StepInv, Knows
<1> QED
  BY <1>2, <1>3

\* A file is closed, and its link is taken down after.
LEMMA CleanupKnows ==
    ASSUME ClientInv, NEW f \in Files, FileCleanup(f) PROVE FileInv' /\ StepInv'
<1> USE DEF ClientInv
<1>1. /\ file \in [Files -> FileSet] /\ client \in [Files -> Clients]
      /\ file[f].stage = "open" /\ UNCHANGED <<nextCookie, handling>> /\ nextCookie \in Nat
      /\ session' = IF session.owner = file[f].cookie THEN ClosedSession ELSE session
      /\ file' = [file EXCEPT ![f] = [[file[f] EXCEPT !.accepted = FALSE]
                                         EXCEPT !.stage = "cleanup"]]
      /\ client' = [client EXCEPT ![f] = [[client[f] EXCEPT !.state = "Gone"]
                                             EXCEPT !.pending = NoRequest]]
  BY DEF FileCleanup, FileInv, DriverInv, DriverType
<1>2. /\ file' \in [Files -> FileSet] /\ ~file'[f].accepted /\ file'[f].stage = "cleanup"
      /\ \A g \in Files \ {f} : file'[g] = file[g]
  BY <1>1 DEF FileSet
<1>3. client'[f].pending = NoRequest /\ \A g \in Files \ {f} : client'[g] = client[g]
  BY <1>1 DEF Clients
<1>4. ClosedSession.owner = 0
  BY DEF ClosedSession
<1>5. \A g \in Files : Owns(g)' => g # f /\ Owns(g) /\ session' = session
  BY <1>1, <1>2, <1>4 DEF Owns, FileInv
<1>6. FileInv'
  BY <1>1, <1>2, <1>3, <1>4 DEF FileInv
<1> QED
  BY <1>1, <1>2, <1>3, <1>5, <1>6 DEF StepInv, Knows

LEMMA DisconnectKnows ==
    ASSUME ClientInv, NEW f \in Files, CleanupDisconnects(f) PROVE FileInv' /\ StepInv'
<1> USE DEF ClientInv
<1>1. /\ file \in [Files -> FileSet] /\ file[f].stage = "cleanup"
      /\ file' = [file EXCEPT ![f].stage = "closed"]
      /\ UNCHANGED <<session, nextCookie, handling, client>>
  BY DEF CleanupDisconnects, FileInv
<1>2. /\ file' \in [Files -> FileSet] /\ file'[f].accepted = file[f].accepted
      /\ file'[f].stage = "closed" /\ \A g \in Files \ {f} : file'[g] = file[g]
  BY <1>1 DEF FileSet
<1>3. ~file[f].accepted
  BY <1>1 DEF FileInv
<1>4. FileInv'
  BY <1>1, <1>2, <1>3 DEF FileInv
<1>5. \A g \in Files : Owns(g)' => Owns(g)
  BY <1>1, <1>2, <1>3 DEF Owns
<1> QED
  BY <1>1, <1>2, <1>3, <1>4, <1>5 DEF StepInv, Knows

\* Every step keeps the clients in step.
LEMMA ClientInvKept == ClientInv /\ [DriverNext]_driverVars => ClientInv'
<1> SUFFICES ASSUME ClientInv, [DriverNext]_driverVars PROVE FileInv' /\ StepInv'
  BY DriverInvKept DEF ClientInv
<1>1. session \in Sessions /\ ClosedSession.owner = 0
  BY DEF ClientInv, DriverInv, DriverType, ClosedSession
<1>2. CASE \/ UNCHANGED driverVars \/ PrepareHardware \/ D0Entry
           \/ \E d \in Directions : CreateQueue(d) \/ StartQueue(d)
           \/ \E size \in 1..MaxPacketSize : AdvanceTransmit(size)
           \/ AdvanceReceive
  <2>1. UNCHANGED <<session, file, handling, client, nextCookie>>
    BY <1>2 DEF driverVars, PrepareHardware, D0Entry, CreateQueue, StartQueue, AdvanceTransmit,
                AdvanceReceive
  <2> QED
    BY <2>1, SessionKept
<1>3. CASE D0Exit \/ ReleaseHardware
  <2>1. session' = ClosedSession /\ UNCHANGED <<file, handling, client, nextCookie>>
    BY <1>3 DEF D0Exit, ReleaseHardware, XsnetResetSession
  <2> QED
    BY <1>1, <2>1, SessionKept
<1>4. CASE \E d \in Directions : StopQueue(d) \/ CancelQueue(d)
  <2>1. PICK d \in Directions : ResetQueue(d, "created") \/ ResetQueue(d, "none")
    BY <1>4 DEF StopQueue, CancelQueue
  <2>2. /\ UNCHANGED <<file, handling, client, nextCookie>>
        /\ session' = [session EXCEPT !.state = IF session.state = "LinkUp"
                                                THEN "Attached" ELSE session.state]
    BY <2>1 DEF ResetQueue
  <2>3. /\ session'.owner = session.owner /\ session'.last = session.last
        /\ session'.limit = session.limit
        /\ session'.state = IF session.state = "LinkUp" THEN "Attached" ELSE session.state
    BY <1>1, <2>2 DEF Sessions
  <2> QED
    BY <2>2, <2>3, SessionKept
<1>5. CASE \E f \in Files : FileCreate(f) \/ FileCleanup(f) \/ CleanupDisconnects(f)
  BY <1>5, CreateKnows, CleanupKnows, DisconnectKnows
<1>6. CASE \E f \in Files : DeviceControl(f)
  BY <1>6, ControlKnows
<1>7. CASE \E f \in Files : PrepareRequest(f)
  <2>1. PICK f \in Files : PrepareRequest(f)
    BY <1>7
  <2>2. PICK kind \in Kinds : \E limit, count, size : Prepare(f, kind, limit, count, size)
    BY <2>1 DEF PrepareRequest, Kinds
  <2> QED
    BY <2>2, PrepareKnows
<1>8. CASE Complete
  BY <1>8, CompleteKnows
<1> QED
  BY <1>2, <1>3, <1>4, <1>5, <1>6, <1>7, <1>8 DEF DriverNext

\* A client that waits for nothing and still owns the session knows its sequence
\* number, its limits and, but for a stopped packet queue, its state: through
\* handles closed while a request is being handled, power lost before its answer
\* arrives and sessions of other files (XsnetClient::complete_success,
\* complete_indeterminate, XsnetSessionProcess).
THEOREM ClientsInStep == DriverSpec => []ClientInStep
<1>1. DriverInit => ClientInv
  <2> SUFFICES ASSUME DriverInit PROVE FileInv /\ StepInv
    BY DriverInitially DEF ClientInv
  <2> DEFINE new == [accepted |-> FALSE, cookie |-> 0, stage |-> "new"]
  <2>1. new \in FileSet /\ ~new.accepted /\ new.stage = "new"
    BY DEF FileSet
  <2>2. file = [f \in Files |-> new] /\ client = [f \in Files |-> OpenedClient]
    BY DEF DriverInit
  <2> HIDE DEF new
  <2>3. file \in [Files -> FileSet] /\ \A f \in Files : file[f] = new /\ client[f] = OpenedClient
    BY <2>1, <2>2
  <2>4. /\ handling = Idle /\ Idle \in HandlingSet /\ Idle.file = 0 /\ 0 \notin Files
        /\ session.owner = 0 /\ nextCookie = 0 /\ OpenedClient.pending = NoRequest
    BY DriverAssumption DEF DriverInit, Idle, HandlingSet, ClosedSession, OpenedClient
  <2>5. FileInv
    BY <2>1, <2>3, <2>4 DEF FileInv
  <2> QED
    BY <2>1, <2>3, <2>4, <2>5 DEF StepInv, Owns
<1>2. ClientInv => ClientInStep
  <2> SUFFICES ASSUME ClientInv, NEW f \in Files, Owns(f), client[f].pending = NoRequest,
                      client[f].state # "ReconnectRequired"
               PROVE  Knows(client[f])
    BY DEF ClientInStep, Owns, Knows
  <2>1. handling.file # f
    BY DEF ClientInv, StepInv, Owns
  <2> QED
    BY <2>1 DEF ClientInv, StepInv
<1> QED
  BY <1>1, <1>2, ClientInvKept, PTL DEF DriverSpec

-------------------------------------------------------------------------------
(***************************************************************************)
(* The adapter, its address and its routes.                                *)
(***************************************************************************)

\* The places of a process that has written the manifest of its adapter.
Provisioning == {"address", "dad", "add", "undo", "unaddress", "running"}

\* The process has its adapter and the manifest on disk is its own.
OwnsRecord == adapter \in Luids /\ record \in Manifests /\ record.luid = adapter

\* What each place of the process says of its adapter and of the manifest.
PlaceInv ==
    /\ task.at \in {"off", "open"} => adapter = 0
    /\ task.at \in {"open", "prepare"} => record = NoRecord
    /\ task.at = "prepare" => adapter \in Luids /\ dad[adapter] = "none"
    /\ task.at \in Provisioning => OwnsRecord
    /\ task.at = "delete" => IF task.recovering THEN adapter = 0 ELSE OwnsRecord

\* An adapter is open or closed, not both, and only those have an address.
AdapterInv ==
    /\ adapter \notin orphans
    /\ \A l \in Luids : dad[l] # "none" => l \in orphans \cup {adapter}

\* The routes of the project are in the manifest; while they are added, those
\* done and those to do make up the manifest; while they are taken away and no
\* deletion failed, those that are left are still to do.
RouteInv ==
    /\ projectTable \subseteq ManifestRoutes(record)
    /\ task.at = "add" =>
          /\ dad[adapter] = "preferred"
          /\ task.made \cup task.todo = ManifestRoutes(record)
          /\ task.made \subseteq projectTable
    /\ task.at = "delete" /\ ~task.failed => projectTable \subseteq task.todo

WindowsInv == WindowsTypeOK /\ PlaceInv /\ AdapterInv /\ RouteInv /\ RunningProvisioned

-------------------------------------------------------------------------------

LEMMA ZeroIsNoLuid == 0 \notin Luids
BY WindowsAssumption

\* What a manifest records is made of routes of its own adapter.
LEMMA RoutesOfRecord ==
    ASSUME NEW m \in Manifests \cup {NoRecord}
    PROVE  /\ ManifestRoutes(m) \subseteq {<<p, m.luid>> : p \in WindowsPrefixes}
           /\ m = NoRecord => ManifestRoutes(m) = {}
           /\ m \in Manifests => ManifestRoutes(m) \subseteq RouteKeys
           /\ \A r \in ManifestRoutes(m) : r[2] = m.luid
BY DEF Manifests, NoRecord, ManifestRoutes, RouteKeys

\* The tasks the process starts with are well typed.
LEMMA TaskAtType ==
    ASSUME NEW place \in Places, NEW todo \in SUBSET RouteKeys
    PROVE  /\ TaskAt(place, todo) \in Tasks
           /\ TaskAt(place, todo).at = place
           /\ TaskAt(place, todo).todo = todo
           /\ TaskAt(place, todo).made = {}
           /\ ~TaskAt(place, todo).failed
           /\ ~TaskAt(place, todo).recovering
BY DEF TaskAt, Tasks

LEMMA WindowsInitially == WindowsInit => WindowsInv
<1> SUFFICES ASSUME WindowsInit PROVE WindowsInv
  OBVIOUS
<1> USE DEF WindowsInit
<1>1. TaskAt("off", {}) \in Tasks /\ task.at = "off"
  BY TaskAtType DEF Places
<1>2. WindowsTypeOK
  BY <1>1, WindowsAssumption DEF WindowsTypeOK, DadStates
<1>3. ManifestRoutes(record) = {}
  BY RoutesOfRecord
<1> QED
  BY <1>1, <1>2, <1>3 DEF WindowsInv, PlaceInv, AdapterInv, RouteInv, RunningProvisioned, Provisioning

\* The end of the process keeps the invariant, whatever it had done, as long as
\* the record still names every route.
LEMMA ExitKeeps ==
    ASSUME WindowsInv, Exit,
           record' \in Manifests \cup {NoRecord}, projectTable' \subseteq projectTable,
           projectTable' \subseteq ManifestRoutes(record'),
           foreign' = foreign, dad' \in [Luids -> DadStates],
           \A l \in Luids : dad'[l] # "none" => dad[l] # "none",
           windowsFaults' \in Nat
    PROVE  WindowsInv'
<1>1. task' = TaskAt("off", {}) /\ task' \in Tasks /\ task'.at = "off"
  BY TaskAtType DEF Exit, Places
<1>2. WindowsTypeOK'
  BY <1>1 DEF WindowsInv, WindowsTypeOK, Exit
<1>3. adapter' = 0 /\ orphans' \subseteq Luids /\ orphans \subseteq orphans'
      /\ (adapter # 0 => adapter \in orphans')
  BY DEF WindowsInv, WindowsTypeOK, Exit
<1>4. AdapterInv'
  BY <1>3, ZeroIsNoLuid DEF WindowsInv, AdapterInv
<1> QED
  BY <1>1, <1>2, <1>3, <1>4 DEF WindowsInv, PlaceInv, RouteInv, RunningProvisioned, Provisioning

LEMMA StartWindowsKeeps == ASSUME WindowsInv, StartWindows PROVE WindowsInv'
<1> USE DEF WindowsInv
<1>1. CASE record = NoRecord /\ task' = TaskAt("open", {})
  <2>1. task' \in Tasks /\ task'.at = "open"
    BY <1>1, TaskAtType DEF Places
  <2> QED
    BY <1>1, <2>1 DEF StartWindows, WindowsTypeOK, PlaceInv, AdapterInv, RouteInv,
       RunningProvisioned, Provisioning, OwnsRecord
<1>2. CASE /\ record # NoRecord
           /\ task' = [TaskAt("delete", ManifestRoutes(record) \cap projectTable)
                         EXCEPT !.recovering = TRUE]
  <2>1. ManifestRoutes(record) \cap projectTable \in SUBSET RouteKeys
    BY DEF WindowsTypeOK
  <2>2. /\ task' \in Tasks /\ task'.at = "delete" /\ task'.recovering
        /\ task'.todo = ManifestRoutes(record) \cap projectTable
    BY <1>2, <2>1 DEF TaskAt, Tasks, Places
  <2> QED
    BY <2>2 DEF StartWindows, WindowsTypeOK, PlaceInv, AdapterInv, RouteInv,
       RunningProvisioned, Provisioning, OwnsRecord
<1> QED
  BY <1>1, <1>2 DEF StartWindows

\* A step that fails and ends the process, with record and host as they were.
LEMMA FailureExits ==
    ASSUME WindowsInv, Exit, windowsFaults' \in Nat,
           UNCHANGED <<dad, projectTable, foreign, record>>
    PROVE  WindowsInv'
BY ExitKeeps DEF WindowsInv, WindowsTypeOK, RouteInv

LEMMA FaultCounts == ASSUME WindowsInv, WindowsFault PROVE windowsFaults' \in Nat
BY WindowsAssumption DEF WindowsInv, WindowsTypeOK, WindowsFault

LEMMA OpenAdapterKeeps == ASSUME WindowsInv, OpenAdapter PROVE WindowsInv'
<1>1. CASE adapter' \in Luids \ orphans /\ task' = TaskAt("prepare", {})
           /\ UNCHANGED <<orphans, windowsFaults>>
  <2>1. task' \in Tasks /\ task'.at = "prepare"
    BY <1>1, TaskAtType DEF Places
  <2>2. dad[adapter'] = "none"
    BY <1>1, ZeroIsNoLuid DEF OpenAdapter, WindowsInv, PlaceInv, AdapterInv
  <2> QED
    BY <1>1, <2>1, <2>2, ZeroIsNoLuid DEF OpenAdapter, WindowsInv, WindowsTypeOK, PlaceInv, AdapterInv, RouteInv,
       RunningProvisioned, Provisioning, OwnsRecord
<1>2. CASE WindowsFault /\ Exit
  BY <1>2, FailureExits, FaultCounts DEF OpenAdapter
<1> QED
  BY <1>1, <1>2 DEF OpenAdapter

LEMMA PrepareNetworkKeeps ==
    ASSUME WindowsInv, NEW desired \in RoutePlans, PrepareNetwork(desired) PROVE WindowsInv'
<1>1. CASE /\ record' = [state |-> "Preparing", luid |-> adapter, prefixes |-> desired]
           /\ task' = TaskAt("address", {})
           /\ UNCHANGED <<adapter, orphans, windowsFaults>>
  <2>1. task' \in Tasks /\ task'.at = "address"
    BY <1>1, TaskAtType DEF Places
  <2>2. OwnsRecord'
    BY <1>1, WindowsAssumption DEF PrepareNetwork, WindowsInv, PlaceInv, OwnsRecord, Manifests
  <2>3. projectTable = {}
    BY RoutesOfRecord DEF PrepareNetwork, WindowsInv, WindowsTypeOK, PlaceInv, RouteInv
  <2> QED
    BY <1>1, <2>1, <2>2, <2>3 DEF PrepareNetwork, WindowsInv, WindowsTypeOK, PlaceInv, AdapterInv, RouteInv,
       RunningProvisioned, Provisioning, OwnsRecord
<1>2. CASE Exit /\ UNCHANGED <<record, windowsFaults>>
  BY <1>2, FailureExits DEF PrepareNetwork, WindowsInv, WindowsTypeOK
<1>3. CASE WindowsFault /\ Exit /\ UNCHANGED record
  BY <1>3, FailureExits, FaultCounts DEF PrepareNetwork
<1> QED
  BY <1>1, <1>2, <1>3 DEF PrepareNetwork

LEMMA CreateAddressKeeps == ASSUME WindowsInv, CreateAddress PROVE WindowsInv'
<1>1. CASE AddressSet("tentative") /\ task' = TaskAt("dad", {})
           /\ UNCHANGED <<adapter, orphans, windowsFaults>>
  <2>1. task' \in Tasks /\ task'.at = "dad"
    BY <1>1, TaskAtType DEF Places
  <2>2. dad' \in [Luids -> DadStates] /\ \A l \in Luids : l # adapter => dad'[l] = dad[l]
    BY <1>1 DEF AddressSet, WindowsInv, WindowsTypeOK, DadStates
  <2> QED
    BY <1>1, <2>1, <2>2 DEF CreateAddress, WindowsInv, WindowsTypeOK, PlaceInv, AdapterInv, RouteInv,
       RunningProvisioned, Provisioning, OwnsRecord
<1>2. CASE WindowsFault /\ Exit /\ UNCHANGED dad
  BY <1>2, FailureExits, FaultCounts DEF CreateAddress
<1> QED
  BY <1>1, <1>2 DEF CreateAddress

LEMMA PollDadKeeps == ASSUME WindowsInv, PollDad PROVE WindowsInv'
<1>0. windowsFaults' \in Nat
  BY FaultCounts DEF PollDad, WindowsInv, WindowsTypeOK
<1>1. CASE dad[adapter] = "preferred" /\ task' = TaskAt("add", ManifestRoutes(record))
  <2>1. /\ task' \in Tasks /\ task'.at = "add"
        /\ task'.todo = ManifestRoutes(record) /\ task'.made = {}
    BY <1>1, TaskAtType, RoutesOfRecord
    DEF Places, PollDad, WindowsInv, WindowsTypeOK, PlaceInv, Provisioning, OwnsRecord
  <2> QED
    BY <1>0, <1>1, <2>1 DEF PollDad, WindowsInv, WindowsTypeOK, PlaceInv, AdapterInv, RouteInv,
       RunningProvisioned, Provisioning, OwnsRecord
<1>2. CASE task' = [task EXCEPT !.polls = @ + 1]
  <2>1. task' \in Tasks /\ task'.at = "dad"
    BY <1>2 DEF PollDad, WindowsInv, WindowsTypeOK, Tasks
  <2> QED
    BY <1>0, <2>1 DEF PollDad, WindowsInv, WindowsTypeOK, PlaceInv, AdapterInv, RouteInv,
       RunningProvisioned, Provisioning, OwnsRecord
<1>3. CASE task' = TaskAt("unaddress", {})
  <2>1. task' \in Tasks /\ task'.at = "unaddress"
    BY <1>3, TaskAtType DEF Places
  <2> QED
    BY <1>0, <2>1 DEF PollDad, WindowsInv, WindowsTypeOK, PlaceInv, AdapterInv, RouteInv,
       RunningProvisioned, Provisioning, OwnsRecord
<1> QED
  BY <1>1, <1>2, <1>3 DEF PollDad

LEMMA AddRouteKeeps ==
    ASSUME WindowsInv, NEW r \in RouteKeys, AddRoute(r) PROVE WindowsInv'
<1>1. r \in task.todo /\ r \in ManifestRoutes(record)
  BY DEF AddRoute, FirstRoute, WindowsInv, RouteInv
<1>2. CASE /\ RouteCreated(r)
           /\ task' = [task EXCEPT !.todo = @ \ {r}, !.made = @ \cup {r}]
           /\ UNCHANGED windowsFaults
  <2>1. /\ task' \in Tasks /\ task'.at = "add"
        /\ task'.todo = task.todo \ {r} /\ task'.made = task.made \cup {r}
    BY <1>2 DEF AddRoute, WindowsInv, WindowsTypeOK, Tasks
  <2> QED
    BY <1>1, <1>2, <2>1 DEF AddRoute, RouteCreated, WindowsInv, WindowsTypeOK, PlaceInv, AdapterInv, RouteInv,
       RunningProvisioned, Provisioning, OwnsRecord
<1>3. CASE WindowsFault /\ task' = TaskAt("undo", task.made) /\ UNCHANGED projectTable
  <2>1. task' \in Tasks /\ task'.at = "undo"
    BY <1>3 DEF TaskAt, Tasks, Places, WindowsInv, WindowsTypeOK
  <2> QED
    BY <1>3, <2>1, FaultCounts DEF AddRoute, WindowsInv, WindowsTypeOK, PlaceInv, AdapterInv, RouteInv,
       RunningProvisioned, Provisioning, OwnsRecord
<1> QED
  BY <1>2, <1>3 DEF AddRoute

LEMMA UndoRouteKeeps ==
    ASSUME WindowsInv, NEW r \in RouteKeys, UndoRoute(r) PROVE WindowsInv'
<1>1. task' \in Tasks /\ task'.at = "undo"
  BY DEF UndoRoute, WindowsInv, WindowsTypeOK, Tasks
<1>2. projectTable' \subseteq projectTable /\ windowsFaults' \in Nat
  BY FaultCounts DEF UndoRoute, RouteDeleted, WindowsInv, WindowsTypeOK
<1> QED
  BY <1>1, <1>2 DEF UndoRoute, WindowsInv, WindowsTypeOK, PlaceInv, AdapterInv, RouteInv,
       RunningProvisioned, Provisioning, OwnsRecord

LEMMA UndoEndsKeeps == ASSUME WindowsInv, UndoEnds PROVE WindowsInv'
<1>1. task' \in Tasks /\ task'.at = "unaddress"
  BY TaskAtType DEF UndoEnds, Places
<1> QED
  BY <1>1 DEF UndoEnds, WindowsInv, WindowsTypeOK, PlaceInv, AdapterInv, RouteInv,
       RunningProvisioned, Provisioning, OwnsRecord

LEMMA RemoveAddressKeeps == ASSUME WindowsInv, RemoveAddress PROVE WindowsInv'
<1>1. windowsFaults' \in Nat
  BY FaultCounts DEF RemoveAddress, WindowsInv, WindowsTypeOK
<1>2. /\ dad' \in [Luids -> DadStates]
      /\ \A l \in Luids : dad'[l] # "none" => dad[l] # "none"
  BY DEF RemoveAddress, AddressSet, WindowsInv, WindowsTypeOK, DadStates
<1> QED
  BY <1>1, <1>2, ExitKeeps DEF RemoveAddress, WindowsInv, WindowsTypeOK, RouteInv

LEMMA ActivateKeeps == ASSUME WindowsInv, Activate PROVE WindowsInv'
<1>1. CASE /\ record' = [record EXCEPT !.state = "Active"] /\ task' = TaskAt("running", {})
           /\ UNCHANGED <<adapter, orphans, windowsFaults>>
  <2>1. task' \in Tasks /\ task'.at = "running"
    BY <1>1, TaskAtType DEF Places
  <2>2. /\ record' \in Manifests /\ record'.state = "Active" /\ record'.luid = record.luid
        /\ ManifestRoutes(record') = ManifestRoutes(record)
    BY <1>1 DEF Activate, WindowsInv, PlaceInv, Provisioning, OwnsRecord, Manifests, ManifestRoutes
  <2>3. projectTable = ManifestRoutes(record)
    BY DEF Activate, WindowsInv, RouteInv
  <2> QED
    BY <1>1, <2>1, <2>2, <2>3 DEF Activate, WindowsInv, WindowsTypeOK, PlaceInv, AdapterInv, RouteInv,
       RunningProvisioned, Provisioning, OwnsRecord
<1>2. CASE WindowsFault /\ Exit /\ UNCHANGED record
  BY <1>2, FailureExits, FaultCounts DEF Activate
<1> QED
  BY <1>1, <1>2 DEF Activate

LEMMA ShutdownWindowsKeeps == ASSUME WindowsInv, ShutdownWindows PROVE WindowsInv'
<1>1. CASE /\ task' = [TaskAt("delete", ManifestRoutes(record) \cap projectTable)
                          EXCEPT !.unaddress = ExactAddressPresent]
           /\ UNCHANGED <<adapter, orphans, windowsFaults>>
  <2>1. ManifestRoutes(record) \cap projectTable \in SUBSET RouteKeys
    BY DEF WindowsInv, WindowsTypeOK
  <2>2. /\ task' \in Tasks /\ task'.at = "delete" /\ ~task'.recovering
        /\ task'.todo = ManifestRoutes(record) \cap projectTable
    BY <1>1, <2>1 DEF TaskAt, Tasks, Places, ExactAddressPresent
  <2> QED
    BY <1>1, <2>2 DEF ShutdownWindows, WindowsInv, WindowsTypeOK, PlaceInv, AdapterInv, RouteInv,
       RunningProvisioned, Provisioning, OwnsRecord
<1>2. CASE Exit /\ UNCHANGED windowsFaults
  BY <1>2, FailureExits DEF ShutdownWindows, WindowsInv, WindowsTypeOK
<1>3. CASE WindowsFault /\ Exit
  BY <1>3, FailureExits, FaultCounts DEF ShutdownWindows
<1> QED
  BY <1>1, <1>2, <1>3 DEF ShutdownWindows

LEMMA DeleteRouteKeeps ==
    ASSUME WindowsInv, NEW r \in RouteKeys, DeleteRoute(r) PROVE WindowsInv'
<1>0. windowsFaults' \in Nat
  BY FaultCounts DEF DeleteRoute, WindowsInv, WindowsTypeOK
<1>1. CASE RouteDeleted(r) /\ task' = [task EXCEPT !.todo = @ \ {r}]
  <2>1. /\ task' \in Tasks /\ task'.at = "delete" /\ task'.recovering = task.recovering
        /\ task'.todo = task.todo \ {r} /\ task'.failed = task.failed
    BY <1>1 DEF DeleteRoute, WindowsInv, WindowsTypeOK, Tasks
  <2> QED
    BY <1>0, <1>1, <2>1 DEF DeleteRoute, RouteDeleted, WindowsInv, WindowsTypeOK, PlaceInv, AdapterInv, RouteInv,
       RunningProvisioned, Provisioning, OwnsRecord
<1>2. CASE task' = [task EXCEPT !.todo = @ \ {r}, !.failed = TRUE] /\ UNCHANGED projectTable
  <2>1. /\ task' \in Tasks /\ task'.at = "delete" /\ task'.recovering = task.recovering
        /\ task'.failed
    BY <1>2 DEF DeleteRoute, WindowsInv, WindowsTypeOK, Tasks
  <2> QED
    BY <1>0, <1>2, <2>1 DEF DeleteRoute, WindowsInv, WindowsTypeOK, PlaceInv, AdapterInv, RouteInv,
       RunningProvisioned, Provisioning, OwnsRecord
<1> QED
  BY <1>1, <1>2 DEF DeleteRoute

LEMMA DeleteAddressKeeps == ASSUME WindowsInv, DeleteAddress PROVE WindowsInv'
<1>0. windowsFaults' \in Nat
  BY FaultCounts DEF DeleteAddress, WindowsInv, WindowsTypeOK
<1>1. /\ task' \in Tasks /\ task'.at = "delete" /\ task'.recovering = task.recovering
      /\ task'.todo = task.todo /\ (task.failed => task'.failed)
  BY DEF DeleteAddress, WindowsInv, WindowsTypeOK, Tasks
<1>2. /\ dad' \in [Luids -> DadStates]
      /\ \A l \in Luids : dad'[l] # "none" => dad[l] # "none"
  BY DEF DeleteAddress, AddressSet, WindowsInv, WindowsTypeOK, DadStates
<1> QED
  BY <1>0, <1>1, <1>2 DEF DeleteAddress, WindowsInv, WindowsTypeOK, PlaceInv, AdapterInv, RouteInv,
       RunningProvisioned, Provisioning, OwnsRecord

LEMMA ForgetRecordKeeps == ASSUME WindowsInv, ForgetRecord PROVE WindowsInv'
<1>1. CASE ~task.failed /\ record' = NoRecord /\ UNCHANGED windowsFaults
  <2>1. projectTable = {}
    BY <1>1 DEF ForgetRecord, WindowsInv, RouteInv
  <2>2. ManifestRoutes(record') = {}
    BY <1>1, RoutesOfRecord
  <2>3. CASE task.recovering /\ task' = TaskAt("open", {}) /\ UNCHANGED <<adapter, orphans>>
    <3>1. task' \in Tasks /\ task'.at = "open"
      BY <2>3, TaskAtType DEF Places
    <3> QED
      BY <1>1, <2>1, <2>2, <2>3, <3>1 DEF ForgetRecord, WindowsInv, WindowsTypeOK, PlaceInv, AdapterInv, RouteInv,
       RunningProvisioned, Provisioning, OwnsRecord
  <2>4. CASE Exit
    BY <1>1, <2>1, <2>4, ExitKeeps DEF ForgetRecord, WindowsInv, WindowsTypeOK
  <2> QED
    BY <1>1, <2>3, <2>4 DEF ForgetRecord
<1>2. CASE Exit /\ UNCHANGED <<record, windowsFaults>>
  BY <1>2, FailureExits DEF ForgetRecord, WindowsInv, WindowsTypeOK
<1>3. CASE WindowsFault /\ Exit /\ UNCHANGED record
  BY <1>3, FailureExits, FaultCounts DEF ForgetRecord
<1> QED
  BY <1>1, <1>2, <1>3 DEF ForgetRecord

LEMMA CrashWindowsKeeps == ASSUME WindowsInv, CrashWindows PROVE WindowsInv'
BY FailureExits, FaultCounts DEF CrashWindows

LEMMA DadSettlesKeeps ==
    ASSUME WindowsInv, NEW l \in Luids, DadSettles(l) PROVE WindowsInv'
<1>1. /\ dad' \in [Luids -> DadStates] /\ dad[l] = "tentative"
      /\ \A k \in Luids : k # l => dad'[k] = dad[k]
  BY DEF DadSettles, WindowsInv, WindowsTypeOK, DadStates
<1> QED
  BY <1>1 DEF DadSettles, WindowsInv, WindowsTypeOK, PlaceInv, AdapterInv, RouteInv,
       RunningProvisioned, Provisioning, OwnsRecord

\* A closed adapter is not the one of the process, so nothing goes that a
\* running agent needs.
LEMMA AdapterGoneKeeps ==
    ASSUME WindowsInv, NEW l \in Luids, AdapterGone(l) PROVE WindowsInv'
<1>1. /\ dad' \in [Luids -> DadStates] /\ dad'[l] = "none"
      /\ \A k \in Luids : k # l => dad'[k] = dad[k]
  BY DEF AdapterGone, WindowsInv, WindowsTypeOK, DadStates
<1>2. l # adapter /\ orphans' = orphans \ {l} /\ projectTable' \subseteq projectTable
  BY DEF AdapterGone, WindowsInv, AdapterInv
<1>3. ASSUME OwnsRecord PROVE projectTable' = projectTable
  <2>1. \A r \in projectTable : r[2] = adapter
    BY <1>3, RoutesOfRecord DEF WindowsInv, RouteInv, OwnsRecord
  <2> QED
    BY <1>2, <2>1 DEF AdapterGone
<1> QED
  BY <1>1, <1>2, <1>3 DEF AdapterGone, WindowsInv, WindowsTypeOK, PlaceInv, AdapterInv, RouteInv,
       RunningProvisioned, Provisioning, OwnsRecord

LEMMA ForeignChangesKeeps ==
    ASSUME WindowsInv, NEW f \in ForeignRoutes, ForeignChanges(f) PROVE WindowsInv'
<1>1. foreign' \subseteq ForeignRoutes
  BY DEF ForeignChanges, WindowsInv, WindowsTypeOK
<1> QED
  BY <1>1 DEF ForeignChanges, WindowsInv, WindowsTypeOK, PlaceInv, AdapterInv, RouteInv,
       RunningProvisioned, Provisioning, OwnsRecord

LEMMA WindowsStep == WindowsInv /\ [WindowsNext]_windowsVars => WindowsInv'
<1> SUFFICES ASSUME WindowsInv, [WindowsNext]_windowsVars PROVE WindowsInv'
  OBVIOUS
<1>1. CASE WindowsNext
  BY <1>1, StartWindowsKeeps, OpenAdapterKeeps, PrepareNetworkKeeps, CreateAddressKeeps,
     PollDadKeeps, AddRouteKeeps, UndoRouteKeeps, UndoEndsKeeps, RemoveAddressKeeps,
     ActivateKeeps, ShutdownWindowsKeeps, DeleteRouteKeeps, DeleteAddressKeeps,
     ForgetRecordKeeps, CrashWindowsKeeps, DadSettlesKeeps, AdapterGoneKeeps,
     ForeignChangesKeeps
  DEF WindowsNext
<1>2. CASE UNCHANGED windowsVars
  BY <1>2 DEF windowsVars, WindowsInv, WindowsTypeOK, PlaceInv, AdapterInv, RouteInv,
       RunningProvisioned, Provisioning, OwnsRecord
<1> QED
  BY <1>1, <1>2

LEMMA WindowsInvariant == WindowsSpec => []WindowsInv
BY WindowsInitially, WindowsStep, PTL DEF WindowsSpec

-------------------------------------------------------------------------------

\* Whatever fails and whenever the process dies, the manifest on disk names every
\* route the project has in the system's table and the adapter whose address is
\* set: prepare writes it before provision_network touches the host, and only a
\* recovery without a failure removes it.
THEOREM LeftoversRecorded == WindowsSpec => []ResourcesRecorded
<1>1. WindowsInv => ResourcesRecorded
  <2> SUFFICES ASSUME WindowsInv PROVE ResourcesRecorded
    OBVIOUS
  <2>1. adapter # 0 /\ dad[adapter] # "none" => record.luid = adapter
    BY DEF WindowsInv, WindowsTypeOK, PlaceInv, AdapterInv, RouteInv,
       RunningProvisioned, Provisioning, OwnsRecord, Tasks, Places
  <2> QED
    BY <2>1 DEF WindowsInv, RouteInv, ResourcesRecorded
<1> QED
  BY <1>1, WindowsInvariant, PTL

\* An agent that runs has exactly what its Active manifest says: an address that
\* passed duplicate address detection (provision_network) and every planned
\* route, although Windows may still be removing the adapters of earlier
\* processes.
THEOREM RunningAsRecorded == WindowsSpec => []RunningProvisioned
BY WindowsInvariant, PTL DEF WindowsInv

\* Every variable of the Windows network keeps its type.
THEOREM WindowsTypes == WindowsSpec => []WindowsTypeOK
BY WindowsInvariant, PTL DEF WindowsInv

-------------------------------------------------------------------------------
(***************************************************************************)
(* The words of the replay window.                                         *)
(***************************************************************************)

\* Quotient and remainder: a number is where they say it is.
LEMMA DivMod ==
    ASSUME NEW W \in Nat \ {0}, NEW o \in Nat
    PROVE  /\ o \div W \in Nat /\ o % W \in 0 .. W - 1
           /\ o = (o \div W) * W + (o % W)
<1>1. o \div W \in Int /\ o % W \in Int
  OBVIOUS
<1>2. o % W \in 0 .. W - 1
  OBVIOUS
<1>3. o = W * (o \div W) + (o % W)
  OBVIOUS
<1>4. W * (o \div W) = (o \div W) * W
  BY <1>1
<1>5. o \div W >= 0
  OBVIOUS
<1> QED
  BY <1>1, <1>2, <1>3, <1>4, <1>5

\* A multiple is zero or at least the number.
LEMMA Product ==
    ASSUME NEW W \in Nat \ {0}, NEW k \in Nat
    PROVE  k * W \in Nat /\ (k # 0 => k * W >= W)
<1>1. k * W \in Nat
  OBVIOUS
<1>2. ASSUME k # 0 PROVE k * W >= W
  <2>1. k - 1 \in Nat /\ (k - 1) * W \in Nat
    BY <1>2
  <2>2. k * W = (k - 1) * W + W
    BY <2>1
  <2> QED
    BY <2>1, <2>2
<1> QED
  BY <1>1, <1>2

\* A number is split in one way.
LEMMA SplitOnce ==
    ASSUME NEW W \in Nat \ {0}, NEW i \in Nat, NEW j \in Nat, NEW a \in 0 .. W - 1, NEW b \in 0 .. W - 1,
           i * W + a = j * W + b
    PROVE  i = j /\ a = b
<1>1. ASSUME i > j PROVE FALSE
  <2>1. i - j \in Nat /\ i - j # 0
    BY <1>1
  <2>2. (i - j) * W >= W
    BY <2>1, Product
  <2>3. (i - j) * W = i * W - j * W
    OBVIOUS
  <2>4. i * W \in Nat /\ j * W \in Nat
    BY Product
  <2> QED
    BY <2>2, <2>3, <2>4
<1>2. ASSUME j > i PROVE FALSE
  <2>1. j - i \in Nat /\ j - i # 0
    BY <1>2
  <2>2. (j - i) * W >= W
    BY <2>1, Product
  <2>3. (j - i) * W = j * W - i * W
    OBVIOUS
  <2>4. i * W \in Nat /\ j * W \in Nat
    BY Product
  <2> QED
    BY <2>2, <2>3, <2>4
<1>3. i = j
  BY <1>1, <1>2
<1>4. i * W \in Nat
  BY Product
<1> QED
  BY <1>3, <1>4

\* The quotient and the remainder of a sum.
LEMMA DivModOf ==
    ASSUME NEW W \in Nat \ {0}, NEW i \in Nat, NEW b \in 0 .. W - 1
    PROVE  (i * W + b) \div W = i /\ (i * W + b) % W = b
<1> DEFINE o == i * W + b
<1>1. i * W \in Nat /\ o \in Nat
  BY Product
<1> HIDE DEF o
<1>2. o \div W \in Nat /\ o % W \in 0 .. W - 1 /\ o = (o \div W) * W + (o % W)
  BY <1>1, DivMod
<1>3. (o \div W) * W + (o % W) = i * W + b
  BY <1>2 DEF o
<1>4. o \div W = i /\ o % W = b
  <2> DEFINE q == o \div W
             r == o % W
  <2>1. q \in Nat /\ r \in 0 .. W - 1 /\ q * W + r = i * W + b
    BY <1>2, <1>3
  <2> HIDE DEF q, r
  <2>2. q = i /\ r = b
    BY <2>1, SplitOnce
  <2> QED
    BY <2>2 DEF q, r
<1> QED
  BY <1>4 DEF o

\* Where a bit of the array is: its word, and its place in the word.
LEMMA BitPlace ==
    ASSUME NEW o \in 0 .. ReplayWindowBits - 1
    PROVE  /\ o \div WordBits \in WordIndex /\ o % WordBits \in BitIndex
           /\ o = (o \div WordBits) * WordBits + (o % WordBits)
<1>1. WordBits \in Nat \ {0} /\ Words \in Nat \ {0} /\ Words * WordBits \in Nat
  BY Product, WordsAssumption
<1>2. o \in Nat /\ o < Words * WordBits
  BY <1>1 DEF ReplayWindowBits
<1> DEFINE q == o \div WordBits
           r == o % WordBits
<1>3. q \in Nat /\ r \in 0 .. WordBits - 1 /\ o = q * WordBits + r
  BY <1>1, <1>2, DivMod
<1> HIDE DEF q, r
<1>4. ASSUME q >= Words PROVE FALSE
  <2>1. q - Words \in Nat
    BY <1>1, <1>3, <1>4
  <2>2. (q - Words) * WordBits \in Nat /\ q * WordBits \in Nat
    BY <1>1, <1>3, <2>1, Product
  <2>3. (q - Words) * WordBits = q * WordBits - Words * WordBits
    BY <1>1, <1>3
  <2> QED
    BY <1>1, <1>2, <1>3, <2>2, <2>3
<1>5. q \in WordIndex /\ r \in BitIndex
  BY <1>1, <1>3, <1>4 DEF WordIndex, BitIndex
<1> QED
  BY <1>3, <1>5 DEF q, r

\* The number of the bit at a place.
LEMMA PlaceBit ==
    ASSUME NEW i \in WordIndex, NEW b \in BitIndex
    PROVE  /\ i * WordBits + b \in 0 .. ReplayWindowBits - 1
           /\ (i * WordBits + b) \div WordBits = i
           /\ (i * WordBits + b) % WordBits = b
<1>1. WordBits \in Nat \ {0} /\ Words \in Nat \ {0} /\ i \in Nat /\ b \in 0 .. WordBits - 1 /\ i < Words
  BY WordsAssumption DEF WordIndex, BitIndex
<1>2. (i * WordBits + b) \div WordBits = i /\ (i * WordBits + b) % WordBits = b
  BY <1>1, DivModOf
<1>3. Words - i \in Nat /\ Words - i # 0
  BY <1>1
<1>4. (Words - i) * WordBits >= WordBits /\ i * WordBits \in Nat /\ Words * WordBits \in Nat
  BY <1>1, <1>3, Product
<1>5. (Words - i) * WordBits = Words * WordBits - i * WordBits
  BY <1>1
<1>6. i * WordBits + b \in 0 .. ReplayWindowBits - 1
  BY <1>1, <1>4, <1>5 DEF ReplayWindowBits
<1> QED
  BY <1>2, <1>6

\* A bit has one place.
LEMMA SameBit ==
    ASSUME NEW o \in 0 .. ReplayWindowBits - 1, NEW p \in 0 .. ReplayWindowBits - 1,
           o \div WordBits = p \div WordBits, o % WordBits = p % WordBits
    PROVE  o = p
BY BitPlace

\* The first bit is the first of the first word.
LEMMA FirstBit == 0 \in 0 .. ReplayWindowBits - 1 /\ 0 \div WordBits = 0 /\ 0 % WordBits = 0
                  /\ ReplayWindowBits \in Nat /\ 0 \in WordIndex /\ 0 \in BitIndex
<1>1. WordBits \in Nat \ {0} /\ Words \in Nat \ {0}
  BY WordsAssumption
<1>2. 0 \in WordIndex /\ 0 \in BitIndex /\ 0 * WordBits + 0 = 0
  BY <1>1 DEF WordIndex, BitIndex
<1>3. ReplayWindowBits \in Nat
  BY <1>1, Product DEF ReplayWindowBits
<1> QED
  BY <1>2, <1>3, PlaceBit

\* The array is one of Words words, and empty before the first sequence.
WordsInv ==
    /\ highest \in Nat \cup {NoSequence}
    /\ words \in [WordIndex -> SUBSET BitIndex]
    /\ highest = NoSequence => words = Cleared

\* The bit shift of one word and the carry into the next, taken together, move
\* every bit of the array up by the distance (ReplayWindow::shift).
LEMMA ShiftMovesBits ==
    ASSUME words \in [WordIndex -> SUBSET BitIndex], NEW distance \in Nat, distance < ReplayWindowBits,
           NEW t \in WordIndex, NEW b \in BitIndex
    PROVE  b \in ShiftWithin(distance)[t] <=>
               /\ t * WordBits + b >= distance
               /\ (t * WordBits + b) - distance \in SetBits
<1> DEFINE W == WordBits
           ws == distance \div W
           bs == distance % W
           o == t * W + b
<1>1. W \in Nat \ {0} /\ t \in Nat /\ b \in Nat /\ b < W /\ t < Words /\ Words \in Nat
  BY WordsAssumption DEF WordIndex, BitIndex
<1>2. ws \in Nat /\ bs \in 0 .. W - 1 /\ distance = ws * W + bs
  BY <1>1, DivMod
<1>3. b \in ShiftWithin(distance)[t] <=>
        \/ \E i \in WordIndex : i + ws = t /\ b - bs \in words[i]
        \/ \E i \in WordIndex : bs # 0 /\ i + ws + 1 = t /\ b + (W - bs) \in words[i]
  <2> DEFINE low == {i \in WordIndex : i + ws = t}
             high == {i \in WordIndex : bs # 0 /\ i + ws + 1 = t}
  <2> DEFINE L == UNION {ShiftLeft(words[i], bs) : i \in low}
             R == UNION {ShiftRight(words[i], W - bs) : i \in high}
  <2>1. ShiftWithin(distance)[t] = L \cup R
    BY DEF ShiftWithin
  <2>2. b \in L <=> \E i \in low : b \in ShiftLeft(words[i], bs)
    BY Zenon
  <2>3. b \in R <=> \E i \in high : b \in ShiftRight(words[i], W - bs)
    BY Zenon
  <2>4. \A i \in WordIndex : /\ b \in ShiftLeft(words[i], bs) <=> b - bs \in words[i]
                             /\ b \in ShiftRight(words[i], W - bs) <=> b + (W - bs) \in words[i]
    BY DEF ShiftLeft, ShiftRight
  <2> HIDE DEF L, R
  <2>5. b \in ShiftWithin(distance)[t] <=> b \in L \/ b \in R
    BY <2>1
  <2>6. (\E i \in low : b \in ShiftLeft(words[i], bs))
          <=> \E i \in WordIndex : i + ws = t /\ b - bs \in words[i]
    BY <2>4
  <2>7. (\E i \in high : b \in ShiftRight(words[i], W - bs))
          <=> \E i \in WordIndex : bs # 0 /\ i + ws + 1 = t /\ b + (W - bs) \in words[i]
    BY <2>4
  <2> QED
    BY <2>2, <2>3, <2>5, <2>6, <2>7
<1>4. \A k : k \in SetBits <=> k \in 0 .. ReplayWindowBits - 1 /\ k % W \in words[k \div W]
  BY DEF SetBits, BitIsSet
<1>5. t * W \in Nat /\ ws * W \in Nat /\ o \in 0 .. ReplayWindowBits - 1 /\ ReplayWindowBits \in Nat
  BY <1>1, <1>2, Product, PlaceBit, FirstBit
<1> HIDE DEF ws, bs
<1>6. CASE b >= bs /\ t >= ws
  <2>1. t - ws \in WordIndex /\ b - bs \in BitIndex
    BY <1>1, <1>2, <1>6 DEF WordIndex, BitIndex
  <2>2. (t - ws) * W + (b - bs) = o - distance
    BY <1>1, <1>2, <1>5
  <2>3. /\ o - distance \in 0 .. ReplayWindowBits - 1
        /\ (o - distance) \div W = t - ws /\ (o - distance) % W = b - bs
    BY <2>1, <2>2, PlaceBit
  <2>4. o >= distance
    BY <1>1, <1>2, <1>5, <2>3
  <2>5. \A i \in WordIndex : i + ws = t <=> i = t - ws
    BY <1>1, <1>2 DEF WordIndex
  <2>6. \A i \in WordIndex : b + (W - bs) \notin words[i]
    <3>1. b + (W - bs) \notin BitIndex
      BY <1>1, <1>2, <1>6 DEF BitIndex
    <3> QED
      BY <3>1
  <2> QED
    BY <1>3, <1>4, <2>1, <2>3, <2>4, <2>5, <2>6
<1>7. CASE b < bs /\ t >= ws + 1
  <2>1. t - (ws + 1) \in WordIndex /\ b + (W - bs) \in BitIndex /\ bs # 0
    BY <1>1, <1>2, <1>7 DEF WordIndex, BitIndex
  <2>2. (t - (ws + 1)) * W + (b + (W - bs)) = o - distance
    BY <1>1, <1>2, <1>5
  <2>3. /\ o - distance \in 0 .. ReplayWindowBits - 1
        /\ (o - distance) \div W = t - (ws + 1) /\ (o - distance) % W = b + (W - bs)
    BY <2>1, <2>2, PlaceBit
  <2>4. o >= distance
    BY <1>1, <1>2, <1>5, <2>3
  <2>5. \A i \in WordIndex : i + ws + 1 = t <=> i = t - (ws + 1)
    BY <1>1, <1>2 DEF WordIndex
  <2>6. \A i \in WordIndex : b - bs \notin words[i]
    <3>1. b - bs \notin BitIndex
      BY <1>1, <1>2, <1>7 DEF BitIndex
    <3> QED
      BY <3>1
  <2> QED
    BY <1>3, <1>4, <2>1, <2>3, <2>4, <2>5, <2>6
<1>8. CASE (b >= bs /\ t < ws) \/ (b < bs /\ t < ws + 1)
  <2>1. o < distance
    <3>1. CASE t < ws
      <4>1. ws - t \in Nat /\ ws - t # 0
        BY <1>1, <1>2, <3>1
      <4>2. (ws - t) * W >= W
        BY <1>1, <4>1, Product
      <4>3. (ws - t) * W = ws * W - t * W
        BY <1>1, <1>2
      <4> QED
        BY <1>1, <1>2, <1>5, <4>2, <4>3
    <3>2. CASE t = ws /\ b < bs
      BY <1>1, <1>2, <1>5, <3>2
    <3> QED
      BY <1>1, <1>2, <1>8, <3>1, <3>2
  <2>2. \A i \in WordIndex : ~(i + ws = t /\ b - bs \in words[i])
    <3>1. ASSUME NEW i \in WordIndex, i + ws = t PROVE b - bs \notin words[i]
      <4>1. b < bs
        BY <1>1, <1>2, <1>8, <3>1 DEF WordIndex
      <4>2. b - bs \notin BitIndex
        BY <1>1, <1>2, <4>1 DEF BitIndex
      <4> QED
        BY <4>2
    <3> QED
      BY <3>1
  <2>3. \A i \in WordIndex : i + ws + 1 # t
    BY <1>1, <1>2, <1>8 DEF WordIndex
  <2> QED
    BY <1>3, <1>5, <1>2, <2>1, <2>2, <2>3
<1> QED
  BY <1>1, <1>2, <1>6, <1>7, <1>8

\* bit_is_set and the set of bits say the same.
LEMMA BitsOfWords ==
    ASSUME NEW o
    PROVE  o \in SetBits <=> o \in 0 .. ReplayWindowBits - 1 /\ BitIsSet(o)
BY DEF SetBits

\* precheck of the array is precheck of its set of bits.
LEMMA PrecheckOfWords ==
    ASSUME WordsInv, NEW s \in Sequence
    PROVE  Precheck(s) <=> Receiver!Precheck([highest |-> highest, bits |-> SetBits], s)
<1> DEFINE w == [highest |-> highest, bits |-> SetBits]
<1>1. w.highest = highest /\ w.bits = SetBits /\ Receiver!NoSequence = NoSequence
  BY DEF NoSequence, Receiver!NoSequence
<1> HIDE DEF w
<1>2. s \in Nat /\ ReplayWindowBits \in Nat
  BY FirstBit, WordsAssumption DEF Sequence
<1>3. CASE highest # NoSequence /\ s <= highest /\ highest - s < ReplayWindowBits
  <2>1. highest \in Nat /\ highest - s \in 0 .. ReplayWindowBits - 1
    BY <1>2, <1>3 DEF WordsInv
  <2>2. highest - s \in SetBits <=> BitIsSet(highest - s)
    BY <2>1, BitsOfWords
  <2>3. ~(s > highest)
    BY <1>2, <1>3, <2>1
  <2> QED
    BY <1>1, <1>3, <2>2, <2>3 DEF Precheck, Receiver!Precheck, w
<1>4. CASE ~(highest # NoSequence /\ s <= highest /\ highest - s < ReplayWindowBits)
  <2>1. CASE highest = NoSequence
    BY <1>1, <2>1 DEF Precheck, Receiver!Precheck, w
  <2>2. CASE highest # NoSequence /\ s > highest
    BY <1>1, <2>2 DEF Precheck, Receiver!Precheck, w
  <2>3. CASE highest # NoSequence /\ ~(s > highest) /\ ~(highest - s < ReplayWindowBits)
    BY <1>1, <2>3 DEF Precheck, Receiver!Precheck, w
  <2>4. highest \in Nat \/ highest = NoSequence
    BY DEF WordsInv
  <2> QED
    BY <1>2, <1>4, <2>1, <2>2, <2>3, <2>4
<1> QED
  BY <1>3, <1>4

\* The set of bits of an array whose words are known.
LEMMA BitsAfter ==
    ASSUME NEW o
    PROVE  o \in SetBits' <=> o \in 0 .. ReplayWindowBits - 1 /\ o % WordBits \in words'[o \div WordBits]
BY DEF SetBits, BitIsSet

\* One word gains one bit.
LEMMA BitAdded ==
    ASSUME NEW before \in [WordIndex -> SUBSET BitIndex], NEW p \in 0 .. ReplayWindowBits - 1,
           words' = [before EXCEPT ![p \div WordBits] = @ \cup {p % WordBits}]
    PROVE  /\ words' \in [WordIndex -> SUBSET BitIndex]
           /\ SetBits' = {o \in 0 .. ReplayWindowBits - 1 : o % WordBits \in before[o \div WordBits]} \cup {p}
<1>1. p \div WordBits \in WordIndex /\ p % WordBits \in BitIndex
  BY BitPlace
<1>2. words' \in [WordIndex -> SUBSET BitIndex]
  BY <1>1
<1>3. ASSUME NEW o \in 0 .. ReplayWindowBits - 1
      PROVE  o % WordBits \in words'[o \div WordBits] <=> o % WordBits \in before[o \div WordBits] \/ o = p
  <2>1. o \div WordBits \in WordIndex
    BY BitPlace
  <2>2. o % WordBits \in words'[o \div WordBits] <=>
          \/ o % WordBits \in before[o \div WordBits]
          \/ o \div WordBits = p \div WordBits /\ o % WordBits = p % WordBits
    BY <1>1, <2>1
  <2> QED
    BY <2>2, SameBit
<1>4. \A o : o \in SetBits' <=> o \in 0 .. ReplayWindowBits - 1
                               /\ (o % WordBits \in before[o \div WordBits] \/ o = p)
  BY <1>3, BitsAfter
<1> QED
  BY <1>2, <1>4

\* The shifted array holds the shifted set of bits.
LEMMA BitsShifted ==
    ASSUME words \in [WordIndex -> SUBSET BitIndex], NEW distance \in Nat
    PROVE  /\ ShiftWords(distance) \in [WordIndex -> SUBSET BitIndex]
           /\ {o \in 0 .. ReplayWindowBits - 1 : o % WordBits \in ShiftWords(distance)[o \div WordBits]}
                = Receiver!Shift(SetBits, distance)
<1>1. ReplayWindowBits \in Nat
  BY FirstBit
<1>2. CASE distance >= ReplayWindowBits
  <2>1. ShiftWords(distance) = Cleared
    BY <1>2 DEF ShiftWords
  <2>2. \A o \in 0 .. ReplayWindowBits - 1 : o % WordBits \notin Cleared[o \div WordBits]
    BY BitPlace DEF Cleared
  <2>3. \A o \in 0 .. ReplayWindowBits - 1 : ~(o >= distance)
    BY <1>1, <1>2
  <2> QED
    BY <2>1, <2>2, <2>3 DEF Receiver!Shift, Cleared
<1>3. CASE ~(distance >= ReplayWindowBits)
  <2>1. ShiftWords(distance) = ShiftWithin(distance) /\ distance < ReplayWindowBits
    BY <1>1, <1>3 DEF ShiftWords
  <2>2. ShiftWithin(distance) \in [WordIndex -> SUBSET BitIndex]
    <3>1. ASSUME NEW t \in WordIndex PROVE ShiftWithin(distance)[t] \subseteq BitIndex
      <4> DEFINE low == {i \in WordIndex : i + (distance \div WordBits) = t}
                 high == {i \in WordIndex : distance % WordBits # 0
                                            /\ i + (distance \div WordBits) + 1 = t}
      <4> DEFINE L == UNION {ShiftLeft(words[i], distance % WordBits) : i \in low}
                 R == UNION {ShiftRight(words[i], WordBits - (distance % WordBits)) : i \in high}
      <4>1. ShiftWithin(distance)[t] = L \cup R
        BY DEF ShiftWithin
      <4>2. L \subseteq BitIndex
        BY Zenon DEF ShiftLeft
      <4>3. R \subseteq BitIndex
        BY Zenon DEF ShiftRight
      <4> HIDE DEF L, R
      <4> QED
        BY <4>1, <4>2, <4>3
    <3>2. ShiftWithin(distance) = [t \in WordIndex |-> ShiftWithin(distance)[t]]
      BY DEF ShiftWithin
    <3> QED
      BY <3>1, <3>2
  <2>3. ASSUME NEW o \in 0 .. ReplayWindowBits - 1
        PROVE  o % WordBits \in ShiftWithin(distance)[o \div WordBits]
                  <=> o >= distance /\ o - distance \in SetBits
    BY <2>1, BitPlace, ShiftMovesBits
  <2> QED
    BY <2>1, <2>2, <2>3 DEF Receiver!Shift
<1> QED
  BY <1>2, <1>3

\* A committed sequence does to the array what ReplayReceiver's Open does to
\* the set of bits, and the array keeps its shape (ReplayWindow::commit).
LEMMA CommitOpens ==
    ASSUME WordsInv, NEW s \in Sequence, Commit(s)
    PROVE  Receiver!Open(s) /\ WordsInv'
<1> DEFINE w == [highest |-> highest, bits |-> SetBits]
           v == [highest |-> highest', bits |-> SetBits']
<1>1. Precheck(s) /\ opened' = opened \cup {s} /\ s \in Nat
  BY WordsAssumption DEF Commit, Sequence
<1>2. Receiver!Precheck(w, s)
  BY <1>1, PrecheckOfWords
<1>3. /\ w.highest = highest /\ w.bits = SetBits /\ Receiver!NoSequence = NoSequence
      /\ highest \in Nat \cup {NoSequence} /\ words \in [WordIndex -> SUBSET BitIndex]
      /\ \A k \in Nat : k # NoSequence
  BY DEF NoSequence, Receiver!NoSequence, WordsInv
<1>4. v = Receiver!Commit(w, s) /\ WordsInv'
  <2>1. CASE highest = NoSequence
    <3>1. words = Cleared /\ highest' = s /\ words' = [words EXCEPT ![0] = {0}]
      BY <2>1 DEF WordsInv, Commit
    <3>2. Cleared \in [WordIndex -> SUBSET BitIndex] /\ Cleared[0] = {}
      BY FirstBit DEF Cleared
    <3>3. words' = [Cleared EXCEPT ![0 \div WordBits] = @ \cup {0 % WordBits}]
      BY <3>1, <3>2, FirstBit DEF Cleared
    <3>4. /\ words' \in [WordIndex -> SUBSET BitIndex]
          /\ SetBits' = {o \in 0 .. ReplayWindowBits - 1 : o % WordBits \in Cleared[o \div WordBits]} \cup {0}
      BY <3>2, <3>3, FirstBit, BitAdded
    <3>5. \A o \in 0 .. ReplayWindowBits - 1 : o % WordBits \notin Cleared[o \div WordBits]
      BY BitPlace DEF Cleared
    <3>6. SetBits' = {0}
      BY <3>4, <3>5
    <3>7. v = Receiver!Commit(w, s)
      BY <1>3, <2>1, <3>1, <3>6 DEF Receiver!Commit
    <3> QED
      BY <1>1, <1>3, <3>1, <3>4, <3>7 DEF WordsInv
  <2>2. CASE highest # NoSequence /\ s > highest
    <3> DEFINE d == s - highest
               shifted == ShiftWords(d)
    <3>1. highest \in Nat /\ d \in Nat
      BY <1>1, <1>3, <2>2
    <3>2. highest' = s /\ words' = [shifted EXCEPT ![0] = @ \cup {0}]
      BY <2>2 DEF Commit
    <3> HIDE DEF d
    <3>3. /\ shifted \in [WordIndex -> SUBSET BitIndex]
          /\ {o \in 0 .. ReplayWindowBits - 1 : o % WordBits \in shifted[o \div WordBits]}
                = Receiver!Shift(SetBits, d)
      BY <1>3, <3>1, BitsShifted
    <3> HIDE DEF shifted
    <3>4. words' = [shifted EXCEPT ![0 \div WordBits] = @ \cup {0 % WordBits}]
      BY <3>2, FirstBit
    <3>5. /\ words' \in [WordIndex -> SUBSET BitIndex]
          /\ SetBits' = Receiver!Shift(SetBits, d) \cup {0}
      BY <3>3, <3>4, FirstBit, BitAdded
    <3>6. v = Receiver!Commit(w, s)
      BY <1>3, <2>2, <3>2, <3>5 DEF Receiver!Commit, d
    <3> QED
      BY <1>1, <1>3, <3>2, <3>5, <3>6 DEF WordsInv
  <2>3. CASE highest # NoSequence /\ ~(s > highest)
    <3> DEFINE p == highest - s
    <3>1. highest' = highest /\ words' = [words EXCEPT ![p \div WordBits] = @ \cup {p % WordBits}]
      BY <2>3 DEF Commit
    <3>2. p \in 0 .. ReplayWindowBits - 1
      BY <1>1, <1>3, <2>3, FirstBit DEF Precheck
    <3>3. w.highest - s = p
      BY <1>3
    <3> HIDE DEF p
    <3>4. /\ words' \in [WordIndex -> SUBSET BitIndex]
          /\ SetBits' = {o \in 0 .. ReplayWindowBits - 1 : o % WordBits \in words[o \div WordBits]} \cup {p}
      BY <1>3, <3>1, <3>2, BitAdded
    <3>5. SetBits' = SetBits \cup {p}
      BY <3>4 DEF SetBits, BitIsSet
    <3>6. Receiver!Commit(w, s) = [w EXCEPT !.bits = @ \cup {p}]
      BY <1>3, <2>3, <3>3 DEF Receiver!Commit
    <3>7. v = Receiver!Commit(w, s)
      BY <3>1, <3>5, <3>6
    <3> QED
      BY <1>3, <2>3, <3>1, <3>4, <3>7 DEF WordsInv
  <2> QED
    BY <2>1, <2>2, <2>3
<1> QED
  BY <1>1, <1>2, <1>4 DEF Receiver!Open

\* A sequence the array turns away is one the set of bits turns away.
LEMMA RejectRejects ==
    ASSUME WordsInv, NEW s \in Sequence, Reject(s)
    PROVE  Receiver!Reject(s) /\ WordsInv'
<1>1. ~Receiver!Precheck([highest |-> highest, bits |-> SetBits], s) /\ UNCHANGED vars
  BY PrecheckOfWords DEF Reject
<1>2. SetBits' = SetBits
  BY <1>1 DEF vars, SetBits, BitIsSet
<1> QED
  BY <1>1, <1>2 DEF vars, Receiver!Reject, Receiver!vars, WordsInv

\* The array of words implements the set of bits, for every number of words,
\* every word width and every look-ahead.
THEOREM WordsImplementReceiver == HostSpec => ImplementsReceiver
<1>1. HostInit => WordsInv /\ Receiver!Init
  <2> SUFFICES ASSUME HostInit PROVE WordsInv /\ Receiver!Init
    OBVIOUS
  <2>1. highest = NoSequence /\ words = Cleared /\ opened = {}
    BY DEF HostInit, Init
  <2>2. \A o \in 0 .. ReplayWindowBits - 1 : o % WordBits \notin Cleared[o \div WordBits]
    BY BitPlace DEF Cleared
  <2>3. SetBits = {}
    BY <2>1, <2>2 DEF SetBits, BitIsSet
  <2>4. WordsInv
    BY <2>1 DEF WordsInv, Cleared
  <2> QED
    BY <2>1, <2>3, <2>4 DEF Receiver!Init, Receiver!NewWindow, NoSequence, Receiver!NoSequence
<1>2. WordsInv /\ [HostNext]_hostVars => WordsInv' /\ [part = "replay" => Receiver!Next]_vars
  <2> SUFFICES ASSUME WordsInv, [HostNext]_hostVars
               PROVE  WordsInv' /\ [part = "replay" => Receiver!Next]_vars
    OBVIOUS
  <2>1. CASE Next
    <3>1. PICK s \in Sequence : Commit(s) \/ Reject(s)
      BY <2>1 DEF Next
    <3>2. (Receiver!Open(s) \/ Receiver!Reject(s)) /\ WordsInv'
      BY <3>1, CommitOpens, RejectRejects
    <3> QED
      BY <3>2 DEF Receiver!Next, Receiver!Sequence, Sequence
  <2>2. CASE UNCHANGED vars
    BY <2>2 DEF vars, WordsInv
  <2> QED
    BY <2>1, <2>2 DEF HostNext, hostVars
<1> QED
  BY <1>1, <1>2, PTL DEF HostSpec, ImplementsReceiver
===============================================================================
