# XS Nexus in TLA+

A TLA+ development for XS Nexus (拾枢), a layer-3 mesh VPN: a controller that
enrolls nodes and publishes signed configurations, agents that tunnel packets
to each other in XSP/1 sessions, and relays that pass the ciphertext between
agents that cannot reach each other. Paths such as `apps/agent/src/...` are
relative to the repository's `src/`. `PROJECT.json` lists the components, the
runs, the hazards, and for every definition the lines it models.

## The system

| Component | State it keeps | Operations | Talks to |
| --- | --- | --- | --- |
| Anti-replay window (`crates/protocol/src/data.rs`, a copy in `apps/relay/src/server.rs`) | highest sequence, 1024 bits in 16 words | `precheck`, `commit`, `shift` | the receiver that owns it |
| XSP/1 data session (`crates/protocol/src/data.rs`, `maintain_established` and the key-update handlers of `apps/agent/src/data_plane.rs`) | sender's epoch and sequence, current and previous receive epoch with a window each, outstanding KeyUpdate | seal, open, rotate, install, retire, retry | the peer's session, by UDP |
| XSP/1 handshake and peer state machine (`crates/protocol/src/handshake.rs`, `data_plane.rs`) | `PeerState`, attempts of the cycle, back-off, queued packets, recent ClientHellos | `forward_tun`, the four message handlers, `maintain`, `apply_configuration`, `fail_relay_path` | the peer's data plane; the runtime loop, which ends on its errors |
| Agent runtime (`apps/agent/src/runtime.rs`) | task handles, watch channels | one `select!` over TUN, UDP, a 100 ms ticker and shutdown | everything in the agent |
| Path selection, endpoint index, discovery, candidates (`data_plane.rs`, `candidates.rs`) | per peer: ordered candidates, active endpoint, one probe, cooldown; the endpoint-to-peer index | probe, promote, roam, fail over, prune, rebuild | peers, relays, discovery |
| Relay server (`apps/relay/src/server.rs`) | leases, node index, queues and their round-robin list, registration cache, budgets | register, data, keepalive, flush, cleanup | agents, by UDP |
| Relay client (`apps/agent/src/relay.rs`) | per relay: lease, next sequence, pending registration, back-off | `maintain`, `wrap`, `handle_datagram`, `authenticate_activity` | the relay; the data plane |
| Controller: enrollment, addresses, revocation (`apps/controller/src/service.rs`) | PostgreSQL rows: networks, nodes, tokens, address leases | enroll, revoke, create tokens, replace channels, routes and policy | agents and administrators, by HTTPS |
| Controller: configuration publication, control sessions (`service.rs`, `control.rs`, `state.rs`) | `config_version`, signed configurations, a bounded broadcast channel, a task per socket, counts of online nodes | publish, announce, authenticate, serve, sync, accept reports | agents, by WebSocket |
| Agent: control session and state (`apps/agent/src/control.rs`, `state.rs`) | `NodeState` in memory and on disk, the generation of its advertisements | authenticate, apply, advertise, report, sync, reconnect | controller; data plane through the shared state |
| ACL and routes (`crates/core/src/acl.rs`, `routes.rs`) | none: pure functions | compile, evaluate, overlap | data plane, controller |
| Update system (`crates/core/src/updates.rs`, `updates.rs` of both sides, `installers/linux`) | releases, policy and its generation, staged releases, request file, installed versions, `current` and `previous` links | decide, stage, request, apply, install, restore, roll back | control session; agent, root helper and operator share the disk |
| Host network (`apps/agent/src/network.rs`, `gateway.rs`, `crates/windows-route-manager`) | interface, routes, forwarding switches, NAT table, recovery manifest | create, reconcile, recover, shut down | kernel |
| Windows adapter and driver (`apps/agent/src/windows_xsnet.rs`, `crates/windows-*`, `drivers/windows-xsnet`) | session owner, state and sequence, packet queues, link state; the client's copy of them | attach, exchange packets, set the link, close; cleanup, power and queue callbacks | kernel |
| Console authentication, telemetry, console, CLI, installers | sessions, counters | log in, report, read | administrators |

What is hard in it: every protocol runs over UDP, which loses, repeats, delays
and reorders; both ends of every exchange act at will and at once
(simultaneous handshakes, crossing rekeys, a renewal crossing a keepalive);
agents, relays and the controller restart and lose what was in memory while
the others and the network still hold it; retries, back-offs, retention and
lease times race late answers; sequences, epochs, queues and caches have
limits; a publication races the set-up of a session that should see it; what
a process did to the host's kernel, disk or driver outlives its crash; and the
driver's callbacks run beside the requests of its client.

What makes the parts correct:

- window: no sequence twice, and nothing refused without a reason;
- session: no nonce twice, no packet twice, the two ends never further apart
  than one epoch, a rekey completes and nothing underway is lost to it;
- handshake: a client's session is one its server has, a session is installed
  once, two agents that can reach each other come to hold the same session, a
  failed attempt is followed by another one and never by the end of the agent;
- relay: nodes and leases are inverse, a queue with packets is always due to
  be flushed, a frame is forwarded at most once, a retried registration does
  not undo its own lease, an agent always comes to hold a working lease again;
- control plane: an address belongs to one node, a token is used as often as
  it allows, versions an agent sees never go down, every connected agent comes
  to hold the last configuration, a restart resumes from what was written;
- paths: a path driven to a relay or into a dead end returns to the preferred
  endpoint, and an answer that comes late moves nothing;
- updates and host network: a crash between two steps leaves a state the next
  start recognises and repairs; no party takes away what another still needs,
  and nothing but an operator takes a node to a lower version;
- driver: packets belong to the open session and fit it, and a client that was
  told nothing knows what the driver knows.

## The modules

`ReplayWindow` has the window's operators, on a window that is a record of the
highest sequence and the set of set bits. `ReplayReceiver` is one window fed
with sequences: the abstract specification of what a receiver promises.
`ReplayWindowWords` is the window as the code stores it, words and carries
included, and implements `ReplayReceiver` (`ImplementsReceiver`, by the
refinement mapping that numbers the bits as `bit_is_set` does).

`DataSession` is one established session, both directions. `sendEpoch`,
`nextSequence`, `sentInEpoch` and `aged` are `DataSender` and the two rekey
conditions; `pending` is `outbound_key_update`; `current`, `previous` and
`retained` are `DataReceiver` and its retention timer. `net` is every datagram
ever sent, so that any of them may arrive at any later time any number of
times or never. The actions are `forward_tun`'s seal (`ForwardTun`), the
packet handlers (`ReceiveTraffic`, `ReceivePathChallenge`, `ReceiveKeyUpdate`,
`ReceiveKeyUpdateAck`; `ReceiveRejected` changes nothing and is a step only in
`RekeyTimed`, where it uses the datagram up) and a pass of `maintain_established`
(`Maintain`: the retirement first, then one of retry, expiry, new update,
keepalive, as the code orders them). A packet is what its authentication
binds: sender, type, epoch, sequence and the epoch its payload names; to hold
an epoch's key is to be able to open it.

`RekeyTimed` EXTENDS it with time: a round is one retry interval, each end
makes one pass in it, datagrams of the round arrive or are lost within it, and
losses draw on a budget. Retention is counted in the same rounds.

`Handshake` is the data plane's state machine for one peer, on both ends.
`peer` is `PeerState`, with its retry count; `tries`, `backoff`, `queue` and
`recent` are `handshake_candidate_attempts`, `next_proactive_handshake_at`,
`queued` and `recent_client_hellos`. A message is what its transcript binds:
the ClientHello and the ServerHello. A `Maintain` step is one whole pass for
the peer, so a server's expiry and the handshake that follows in the same pass
are one step; `ApplyConfiguration` and `RelayFails` include the rest of the
pass they are followed by. `exited` records that an error ended the runtime
loop; a `Restart` may come after that or at any time. `HandshakeTimed` adds
rounds and a budget of faults as above.

`RelayServer` has the relay's tables and handlers; `Relay` EXTENDS it with the
agents' `RelayManager`, time, addresses and faults. `nodes`, `leases`,
`activeQueues` and `registrations` are the server's fields of those names; the
`idle` and `remaining` counts stand for `last_activity` and `expires_at`. Each
handler is a step, because the relay is one task; `flush_queues` is split at
each packet, because the socket may stop it after any. `client` is
`RelayClient`, and `Maintain` is a whole call of `maintain`: failure, retry of
the pending registration, a new one, keepalive, in the code's order.
`Divert` and `Release` delay, lose or repeat a datagram, `Move`,
`ResetClient` and `RelayStartsAgain` are a new source address and the two
restarts.

`ConfigurationStore` is what the controller promises about one network: `db`
is its committed rows (nodes, address leases, tokens, routes, policy) and
`configuration` the newest row of `configuration_versions`. Every management
operation and every advertisement is one step, and one that concerns the agents
publishes exactly what the rows it leaves behind say (`View`, the queries of
`publish_configuration`). `Controller` is how `service.rs` does it: `tx` is the
transaction on each connection, which takes its locks in the order of the
code's statements (`EnrollScript`, `RevokeScript`, ...), reads and checks after
each one (`EnrollPasses`, ...), publishes, and commits or rolls back. Locks have
PostgreSQL's four row modes and its table of conflicts; the advisory lock of
`lock_network` is one more resource. A statement sees what is committed when it
runs, `now()` is the start of the transaction (`CooledLeases`), and a
transaction may be rolled back at any time, as the victim of a deadlock is.
`Controller` implements `ConfigurationStore` (`ImplementsStore`; the mapping is
the identity, so the store's specification is used without an INSTANCE).
`MCController` gives the sets of requests.

`ControlSession` is how versions travel from there to an agent and its
advertisements back. On the controller's side, `published`, `stored`,
`committed` and `announced` are what the database holds and what has been
broadcast; each socket has a task that authenticates, subscribes, sends the
newest version and then serves events and requests, and a receiver of the
broadcast that overruns. On the agent's side, `agent` is the
process, the version and generation it holds in memory and the socket it is
on, `disk` what `write_json` left. Sockets break and overlap, an announcement
is lost with the controller's process, a write fails, the agent crashes
between a change in memory and its write and starts again from the disk. A
version is its number with what it says about this agent (whether it is a
member, its peers and its channel), the endpoint it lists of each active node,
and whether the agents would refuse it for something else. `validate_configuration`
(`Valid`) refuses more than the Controller does when it publishes: an endpoint of
two nodes, which is in the model as it is (`EndpointsApart`), and a payload of
more than 256 KiB or an endpoint that is a relay's, for both of which
`refusable` stands. An agent that refuses a version ends the session and comes
back, so it converges once a version puts things right: a peer is revoked,
advertises something else or lets its advertisement expire. What a task has still to read on a socket its
agent has left is kept while an advertisement is among it (`Remaining`): only an
advertisement has an effect that outlives the task.

`Paths` is the choice of path of an established session on both ends. `path`
is `Peer`'s `candidates`, `active_endpoint`, `pending_path_probe` and probe
cooldown; `lease` is what `RelayManager` knows of each relay (none, held,
silent beyond the failure timeout, expired). A round is one
`PATH_PROBE_RETRY_INTERVAL`, in which each agent makes one pass
(`MaintainPaths`: prune, relays that failed, probe, keepalive, in the code's
order). The world changes a bounded number of times: a relay stops or starts,
the direct way is cut or returns, an address changes, a configuration lists
other candidates, candidates lapse.

`LinuxNetwork` is `TunNetwork` and the gateway. One action is one call that
changes the host (a sysctl write, a netlink request, an atomic file write), so
a crash falls between any two; `step` says where the sequence of calls is,
`manifest` is the file, and a new process starts with `recover_stale`. A call
may fail, which ends the runtime loop and leads to `shutdown`. `lost` marks the
cases the code itself gives up on: a shutdown that failed and still removed the
manifest, and a process that ended while its records could not be written.

`WindowsNetwork` is the same of `network/windows.rs` over the route manager
crate: the Wintun adapter, the manifest in its two states, the address with its
duplicate address detection, the transaction of `execute_plan` with its
compensation, `shutdown` and the recovery of a stale manifest, one action a
call. `adapter` is the adapter of the live process and `orphans` those that were
closed and that Windows has not removed yet, with their addresses; `projectTable` and
`foreign` are the system's routes, ours and everybody else's; `task` is where
the process is.

`XsnetDriver` is the driver with the agent's client. The part of a request
under the session lock is one action and setting the link state is another,
because the code does it after the lock is released; file cleanup, power
callbacks and NetAdapterCx's queue callbacks are actions beside them.
`session`, `packets`, `netQueue` and `nic` are the driver's, `client` is what
`windows_xsnet.rs` believes.

`Updates` is one Linux node's updates: the policy of the controller
(`decide_update`), the agent that stages a release and publishes the request,
the root helper that re-reads it, copies, installs and restores, and the
installer, which the operator may run too. `stage`, `request`, `versions` and
`links` are directories and links on disk; each party has a program counter
and a crash may come between any two steps.

Parts that share no state are checked together, each behaviour being of one
part: `MCPeer` (a session, or the handshake that makes one), `MCTimed` (the
rekey, or the handshake, in time) and `MCHost` (the networks of both systems,
driver, updates, the window's words). This is a matter of how they are run: no step of one is a step
of another, and a part's behaviours are those of its own specification.
`MCPaths` gives the sets of `Paths`.

`ReplayWindowProofs`, `ReplayReceiverProofs`, `PeerProofs` (the session, the
handshake, the rekey in time), `RelayProofs`, `ControllerProofs`,
`ControlSessionProofs`, `HostProofs` (both networks, updates, driver, the window's
words) and `PathsProofs` hold the theorems.

Definitions whose comment begins "Mutant:" are wrong on purpose. Each is the
form a plausible bug would give the definition after it, and replacing that
definition by it violates the property `PROJECT.json` names.

## The runs

| Run | Module and bounds | What it shows |
| --- | --- | --- |
| `peer` | `MCPeer`, session: both ends talk and rekey, 2 epochs, 2 sequences each, 2 attempts, retention 1. Handshake: 2 ClientHellos and ServerHellos per end, a cache of one hello, one restart per end or one configuration | `FreshNonce`, `NeverReopened`, `EpochsAdjacent`, `FreshPacketsOpen` while acknowledgements of one direction travel in the epochs of the other; the proofs below remove the bounds. `KeyConfirmation`, `InstalledOnce`, and `HelloAcceptedOnce`, which with a cache of one also sees a hello pushed out of it and answered again. Every message ever sent can arrive at any time. |
| `timed` | `MCTimed`, rekey: one rekey a direction, 2 attempts, 2 losses, retention 8 rounds (more than 3 rounds a loss, see the proofs). Handshake: 2 faults among losses, a restart and a configuration | The receiver holds the sender's epoch and every rekey that falls due completes, although a retry is the same bytes, which the replay window rejects. `EventuallyAgreed`, `QueueDrains`; the bounds on hellos and replies are high enough that no behaviour runs into them. |
| `rekey_outage` | `RekeyTimed` with 3 losses | Violation: see the findings. |
| `handshake_exit` | `Handshake`: two candidates a cycle | Violation: see the findings. |
| `relay` | `Relay`: two agents, payloads from one to the other, a fault, leases and idle time of one tick | `LeaseIndex`, `QueuesScheduled`, `ForwardedOnce` with leases replaced and cleaned up while their queues are listed, a frame repeated or delayed past its lease, a relay that restarts. The queue fills, ids that left the tables stay in `active_queues`. |
| `relay_live` | `Relay`: one agent, two addresses, two faults, leases of 4 ticks, renewal margin 1, failure after 2 | `SequenceAhead`, `GrantedOnce`, `Reconnects`, for ever: ids are used again once nobody remembers them. |
| `controller` | `MCController`: 2 connections, 2 nodes, 2 addresses, a token, 4 versions, a generation | Any two transactions at once. `AddressesLeased`, `EnrollmentsCounted`, `CooldownKept`, `WaitCycles`, and `ImplementsStore`: whatever the interleaving, the effect is that of whole operations one after the other, and no version contains less or more than the rows it was committed with. |
| `controller_revoke` | the same | Violation: see the findings. |
| `control_session` | `ControlSession`: 2 sockets, a peer that advertises and one that may enroll, an endpoint, 3 versions, a generation, a broadcast of one event, one fault | `NeverRolledBack`, `AdvertisementsFresh`, `AnnouncementPending`, `OnlineWhileServed`, `AgentConverges`, `RevokedLeaves`: with a new socket accepted before the old one's task ends, an event missed by a lagging task or lost with the controller, a crash on either side of a write, a report that a change overtook, and a version in between or at the end that the agent refuses. |
| `endpoint_conflict` | the same | Violation: see the findings. |
| `host` | `MCHost`, Linux: 2 LAN interfaces, 3 gateway routes, 2 prefixes, 3 faults. Windows: 2 adapters, 2 prefixes, a foreign route, 2 polls, 3 faults. Driver: 2 files, 2 limits, sequences to 6, a power cycle. Updates: 2 releases over the first version, 2 policy generations, an operator's act, a fault. Window: 3 words of 3 bits, advance 10, sequences to 13 | `HostRecoverable` and `MasqueradeBeforeForwarding`; `ResourcesRecorded` and `RunningProvisioned`, with an adapter that lingers after its process and a compensation that fails; `PacketsOfOwner` and `ClientInStep`; `PublishedComplete`, `LinksInstalled` and `NeverDowngraded`; `ImplementsReceiver`, for distances below a word, of whole words, across words, of the whole window and beyond it. |
| `paths` | `MCPaths`: 2 relays, 3 direct endpoints, 2 directories, 2 attempts a probe, one change of the world, from every path a session can be made on | `ProbeMeaning` with probes lost, repeated and answered after the path moved; `BestPathReturns`: once the preferred candidates work for good, both agents send on paths that work. |

Every bound is a CONSTANT named where it is declared, or named in a comment.
Deadlock is checked where a behaviour never has to stop. It is not where it
may: in `peer` and the runs of `Handshake` when the bounds on sequences and on
hellos are used up, in `relay` when payloads, ids and faults are, in
`controller` when the versions are, in `control_session` when a revoked agent
has left, in `host` when the sequences, acts and faults are used up.

Types are left to the proofs where there are some (`TypeCorrect`,
`WindowsTypes`; `ControlType`, `NetworkTypeOK`, `UpdatesType`, `DriverType` and
`Typed` are parts of inductive invariants). The other type invariants (of
`Relay`, `Handshake`, `Controller`, `ControlSession`, `ReplayWindowWords` and
`Paths`) hold on the same instances and document the state.

### Bounds

The numbers are small and the order between them is the code's: a
retention longer than the attempts of one update, a failure timeout of several
keepalives, a renewal margin below the lease, a look-ahead larger than the
window. Where a run has a smaller relation (the idle time and the lease of one
tick in `relay`) it makes rare cases frequent: a safety property does not
depend on the times. Two attempts are the fewest with a retry and an expiry;
two candidates the fewest with a fallback; three words the fewest with a word
that is neither first nor last; two sockets the fewest that overlap; a broadcast
of one event the one that overruns soonest; two releases the fewest with one
that overtakes another; three faults let a write fail, the shutdown that follows
fail and its own repair fail, and two adapters let one linger while the next
process opens another. Two relays and a direct endpoint make three priorities,
so that a path may be neither the best nor the last; one change of the world
from every initial path is enough to drive both ends apart, and a second is out
of the run's time. In `controller` three versions after the first
are two enrollments and one more publication, or an enrollment and two; the
generation of advertisements stops at one, so a repeated advertisement occurs
and an overtaken one does not; with `MaxGeneration = 2` the run passes as well
(1.3 million states) and takes more than twice as long. Nodes and connections are interchangeable
(`Symmetries`): no definition orders them and the sets of requests are closed
under their permutations. Addresses are not, as the lowest free one is taken.
In `control_session` a peer advertises the one endpoint from the start, so the
agent's own advertisement makes the conflict and the third version can end it; a
size or a relay's endpoint is refused in the same way.

### Fairness

The timed specifications assume weak fairness of what the program's loops do:
the maintenance pass (`runtime.rs` has a 100 ms ticker in its `select!`, the
relay a cleanup interval in its own), the reading of a datagram that has
arrived, the passing of time and the end of a back-off. Nothing obliges a
packet, a fault, a configuration or a rekey to come. Losses are bounded by a
budget because no property of this kind survives a network that loses
everything; a datagram that is neither lost nor diverted arrives within a
retry interval.

`ControlSession` assumes weak fairness of the tasks of both ends (serving,
reading, handling an event), of connecting again (`run_control_loop` never
gives up), of the start of a stopped agent (its service manager restarts it),
and of the announcement by a handler that has committed. The synchronisation
tick has strong fairness: other branches of the `select!` may run in between,
but a due tick of a tokio interval stays due. Telemetry, changes of candidates
and disconnections are never obliged.

`Paths` assumes strong fairness of a pass that finds a keepalive due (every
agent's interval runs out again and again, and a pass between may find it not
due), and weak fairness of the end of a cooldown, of the answer of a relay or
its failure, and of delivery. Nothing obliges the network to recover: the
properties say what follows when it has.

## Findings

- `rekey_outage`. `maintain_established` retires the previous receive epoch 30
  seconds after the installation of the new one, whether or not the sender has
  moved; the sender moves only on the acknowledgement. When the
  acknowledgements of an update and of its successors are lost for that long
  (three losses in the run), the sender goes on sealing in an epoch
  its receiver has dropped, and no path leads from Established to a new
  handshake. `docs/XSP1_PROTOCOL.md` promises a full handshake after persistent
  failure of confirmation.
- `handshake_exit`. A ServerHello that answers an earlier ClientHello ends the
  last attempt of a cycle and leaves the peer idle with its attempts used up.
  Until the next pass repairs that, a tunnel packet makes
  `begin_client_handshake` return an error, and `forward_tun`'s error ends the
  runtime loop. ADR-028 in `DECISIONS.md` says a failed cycle backs off.
- `endpoint_conflict`. The Controller compares the endpoints of one
  advertisement with each other and with nobody else's, and lists what every
  active node advertises. A version with one endpoint of two nodes (two hosts
  of different LANs with the same private address and port) is published, and
  `validate_configuration` refuses it in every agent: each session ends in
  `ControllerTrust`, and no agent takes a newer version until the conflict is
  gone. Section 12 of `docs/XSP1_PROTOCOL.md` (line 397) says that conflicting
  endpoints of different nodes must be rejected, `docs/THREAT_MODEL.md` line 133
  that the Controller does it. `AgentConverges` says what is left: an agent
  converges whenever the newest version is one it accepts.
- `controller_revoke`. A revocation publishes, in its own transaction, the
  configuration without the node. When the node is the only gateway of a subnet
  that a rule selects, `load_subnet_routes` drops its route,
  `AclPolicy::compile` refuses the rule, and the revocation is rolled back with
  an internal error until the policy is changed. `ACCEPTANCE.md` has the
  revocation of a node as a MUST, and the deployment guide says that a route
  lapses when its gateway is revoked.

Seen while modelling and not the subject of a run:

- A dead direct path is left only for a candidate of higher priority
  (`best_probe_target`), or for the source of authenticated traffic. When the
  direct way is cut after both ends came to use it, both stay on it although a
  relay serves them. `PathRecovers` in `Paths` states the opposite, and put in
  the place of `BestPathReturns` in `Paths.cfg` it is refuted within a dozen
  states. `docs/ARCHITECTURE.md` line 147 has an authenticated probe select the
  path again when the direct one changes; ADR-027 and section 13 of the protocol
  speak of candidates of higher priority only, which is what `BestPathReturns`
  says.
- `best_probe_target` always takes the first better candidate, so one that is
  dead hides a second that works. `fail_relay_path` may move a peer to a relay
  without a lease, which never fails again, and `wrap` drops an expired lease
  silently, so that `maintain` does not report it.
- `apply_configuration` of the data plane calls `clear_queue` when the policy
  version changes, and `clear_queue` sets the peer to Idle even when it is
  established; its own comment and ADR-027 say established sessions are kept.
  `ApplyConfiguration` of `Handshake` does what the code does.
- The driver's link can be left connected after a packet queue was stopped, and
  a request that sets it connected may come after the cleanup that set it
  disconnected, as the link is set outside the lock. `WINDOWS_XSNET_DESIGN.md`
  lines 73 and 110 and `lifecycle_test.c` describe it as following the session.
- A staged release that `verify_existing_stage` finds to be of another directive
  is refused on every further attempt. A crash of the installer between the
  move of a version and the writing of its metadata
  (`installers/linux/xs-nexus-installer.sh` lines 455 to 457) leaves a version
  that can no longer be installed. The removal of a request
  (`apps/agent/src/updates.rs` lines 204 to 206) may remove one that was
  published after it was read again, which then waits for the next directive.
- A shutdown of the network that failed removes the manifest all the same
  (`network.rs` lines 284 to 300), so no later process repairs what was left;
  `HostRecoverable` excepts this case.

## The proofs

All are for every value of the constants allowed by `WindowAssumption` (a
window and a look-ahead of at least one), `SessionAssumption` (two distinct
ends, bounds in Nat, at least one attempt, packet and pass), `StoreAssumption`
(addresses are positive numbers, tokens have at least a use),
`RequestsAssumption` (requests are of the types of the rows, at least one
version),
`UpdatesAssumption` (releases are numbers above the first version),
`DriverAssumption` (limits with an MTU up to the largest packet and a depth of
at least one, files that are positive numbers), `WindowsAssumption` (LUIDs are
positive numbers, plans and foreign routes are sets of the prefixes),
`PeerAssumption` (of the handshake: bounds in Nat, at least one attempt, candidate,
cache entry and place in the queue), `PathsAssumption` (two hosts, at least three
tokens, so that one is free while each end has one under way),
`NetworkAssumption` (the TUN device is no LAN interface, a gateway route has an
interface of the LAN), `RelayAssumption` and `RelayClientAssumption` (at least
one address, limits and lifetimes of at least one) and `ControlAssumption`
(finitely many sockets, an agent that is not its own peer, at least one
version, a broadcast of at least one event). The bounds of the runs (on
faults, generations, versions, unread messages) are any numbers at all.

`ReplayWindowProofs` has the lemmas on the window's operators. `Tracks(w, S)`
says that window `w` stands for the set `S` of sequences: the highest is the
maximum of `S`, and bit `o` is set exactly when `highest - o` is in `S`. A new
window tracks the empty set, `Commit` of a sequence tracks `S` with it
(`TracksCommit`, where the shift is reasoned about), a tracked sequence fails
`Precheck`, and an untracked one within reach passes.

`ReplayReceiverProofs`: `NoSequenceTwice` and `LateAccepted`, from the invariant
that the window tracks the history of what was opened: nothing is accepted
twice, and nothing within the window is refused unless it was accepted before.

`HostProofs`, the words: `WordsImplementReceiver`, for every number of words,
every word width and every look-ahead. The invariant `WordsInv` adds to the types
only that the array is clear until a packet was opened; what the proof takes is that `ShiftWords`, words and carries, moves
each bit up by the distance and drops those that leave the array, whether the
distance is less than a word, a whole number of words, or more than the window.
With it the two theorems carry over to the array the code keeps.

`PeerProofs`, an established session:

- `TypeCorrect`.
- `NonceNeverReused` and `EpochsStayAdjacent`. Neither is inductive alone. The
  invariant `EpochInv` adds that a KeyUpdate on the wire names the epoch after
  its own, that an outstanding update names the epoch after the sender's, and
  that an acknowledgement names an epoch its sender has installed. A late
  acknowledgement then cannot rotate a sender past its receiver, nor back into
  an epoch it has used.
- `NoPacketTwice` and `FreshPacketsAccepted`. The invariant `ReceiverInv` says
  that each of the two windows tracks what was opened in its epoch, that the
  previous epoch is the one before the current, that it is held exactly while
  its retention runs, and that nothing was opened in an epoch not yet
  installed. The last part is what makes the empty window of a new epoch right.

`PeerProofs`, the handshake, for every number of hellos, replies, attempts,
restarts and configurations and any size of the cache: `ClientConfirmed`
(`KeyConfirmation`), `NoSessionTwice` (`InstalledOnce`) and `NoHelloTwice`
(`HelloAcceptedOnce`). `HandshakeInv` is the types with:

- `Roles`: a client's state is about its own hello, a pending server's about its
  peer's;
- `IssuedOnly`: every hello and reply on the wire or installed has been made, so
  a new one is like none before it, across restarts too;
- `NotYetInstalled`: what an end may still install it has not installed. A
  pending server could be given a pair it had before only by accepting again with
  an old reply, a client only by an old hello of its own;
- `FinishConfirms`: a ServerFinish is sent by the end that has installed its
  session, however late it arrives;
- `CacheTracks`: the cache of a server that never restarted is the hellos of its
  latest replies in their order. Nothing weaker is inductive: that an answered
  hello is in the cache says nothing of when it will be pushed out.

`PeerProofs`, the rekey in time: `SenderEpochHeld`, that no receiver gives up the
epoch its sender seals in, for every number of epochs and rekeys of both
directions at once, while no end runs out of sequences (2^64 in the code) and

    Retention > (KeyUpdateMaxAttempts + 1) * LossBudget
    WindowBits > KeyUpdateMaxAttempts + 1,  MaxAdvance > LossBudget

(`Paced`). With 6 attempts every 300 ms and a retention of 30 s the code has 100 >
7 * 14: the guarantee is for 14 lost datagrams, and the finding `rekey_outage` is
what comes after. The first bound is tight: with 2 attempts and 2 losses the model
checker passes at 7 and finds a violation at 6. The argument is a count. A receiver
that is ahead (`Behind`) keeps its old epoch for `Retention` of its own passes. The
sender catches up with the first acknowledgement that arrives; a retry of an
update that was opened is a replay and is not acknowledged; so each update costs
its sender a cycle of `KeyUpdateMaxAttempts + 1` passes and the network at least
one loss. `PaceAt` bounds the age of the old epoch by the cycles that were paid for
and the place within the current one. That an update which arrives is opened at all
needs the windows: what a receiver has not opened was lost or is on its way (`GapAt`,
against the look-ahead), and while an update is under way its sender seals only
acknowledgements, one a pass of its peer at most (`LagAt`, against the
window). `UnusedAt` gives the sender an empty window when it
rotates, `FlightInv` says what the one datagram under way is. The two directions
cannot be separated: the acknowledgements of one are sealed in the epochs of the
other. This is of the network of `RekeyTimed`, with maintenance traffic only, on
which a datagram arrives within its round or is lost.

`PathsProofs`: `ProbesMeanWhatTheySay` (`ProbeMeaning`), for every set of relays,
every list of candidates, number of tokens and changes of the world. `ProbeInv` adds
that a probe under way has a token and that challenges on the wire do: the token of
an answer identifies the probe, so the absence of a probe must not look like one.
Each way a path can move (an answer, authenticated traffic, a failed relay, a
configuration) either takes the probe away or leaves the endpoint where it was.
`Failovers` is the set of endpoints where failing relays in any order can lead, by
closure instead of a fold over the orders, so that it can be reasoned about; each of
its elements went through `fail_relay_path`, which drops the probe.

`ControllerProofs`, for any number of connections, nodes, tokens and addresses
and any requests:

- `AddressesNeverShared` and `CooldownHonoured`. `StoreInv`, an invariant of the
  store, is the types of the rows with `AddressesLeased`, both directions of
  which are needed: that an active node holds the lease of its address gives
  that an enrollment, which takes a lease that is free or cooled, takes it from
  nobody, and that an active lease has a node gives that revocation leaves none
  behind.
- `TransactionsAtomic`: the transactions implement the store, through the two
  variables they share. `ControllerInv` says of every transaction which locks it
  holds at its place (`Locked`), that what it has checked is still so in the
  committed rows (`Checked`), that a cooldown it saw ended has not begun again
  for the same node (`StillCooled`, which is why now() may be the start of the
  transaction), and that what it has published is what its commit would publish
  now (`ViewCurrent`); and of every two, that no lock of one conflicts with one
  of the other. `CheckedKept` is the heart: `Effects` says which rows each
  operation writes, and the locks of the reader exclude the operations that
  write those it relies on. `ViewKept` does the same for the configuration: while
  one transaction holds the row of the network, only token creations and route
  suggestions commit, and neither shows in a configuration.
- `TokensCounted`. `Counted` adds to `EnrollmentsCounted` that the enrolled nodes
  are finitely many; an enrollment extends the function that gives each node its
  token by one node.
- `WaitCyclesKnown`. `Holding` says exactly which locks a transaction that still
  waits has. Nobody who holds a lock waits for a token; so an enrollment that
  waits for the advisory lock is waited for by nobody who is; so nobody in a
  cycle waits for the advisory lock, and whoever holds it is an operation that
  holds the network or a node as well. Two of those exclude each other.
- `ControllerTypes`.

`RelayProofs`, for any number of nodes, addresses, leases, requests and faults,
every limit and every window. `RelayInv` has a part for each theorem, over the
types of the tables, the messages and the agents' entries:

- `LeasesIndexed`: `LeaseIndex` is inductive with the types. It is also what
  makes the lookup in `handle_data` safe, so the types rest on it in turn.
- `NoQueueForgotten`. `QueueInv` says that `active_queues` names no lease twice,
  not even one that is gone: without that, taking the first entry off the list
  could leave a second whose flag is cleared. A new lease is not listed because
  its id is new.
- `PayloadsForwardedOnce`. `PayloadInv` says that a payload under way is one frame
  and its copies, and that once it was queued the frame's lease is gone or its
  window will never take the frame again (`Seen`, which `commit` never undoes,
  `SeenCommitted`). A lease granted since has another id, so a late copy finds no
  window that has not seen it.
- `SequencesNeverReused`. `SequenceAhead` says nothing of an agent that is about to
  accept a lease and count from zero. `OffersUnused` does: an answer to a
  request somebody waits for offers a lease that nobody holds, on which nothing
  was ever sent. It holds because a request has one asker (`Askers`), a lease was
  granted to one request (`OneRequest`), and the first answer taken ends the wait.
- `RegistrationsGrantedOnce`, as long as `CacheSuffices`: what a full cache pushes
  out is an answer nobody can ask for any more. Without the condition
  `GrantedOnce` is false, as two nodes and a cache of one answer show: the other
  node's registration pushes the answer out, a copy of the request comes late and
  is granted another lease. `AnswersKept` is the
  invariant: while the request of a lease may still come, under way or from an
  agent that waits, its answer is in the cache. A new request is that of no lease,
  cleanup drops only answers that ran out, and a restart drops the leases with
  the answers. The code keeps room for `max(4 * max_leases, 16)` answers.
- `RelayTypes`, with `max_leases`, `queue_packets_per_node` and the size of the
  cache as bounds that are never exceeded.

`HostProofs`, the updates, for any number of releases, generations, acts and
crashes:

- `RequestsComplete`. The invariant `StagedInv` adds to `PublishedComplete` what
  the agent's position in `stage_update` says of the directory: while it
  downloads there is nothing under the final name, and once it may publish there
  is what its own directive describes. Without it a request could be published
  over another directive's stage.
- `LinksAlwaysInstalled` and `HelperNeverDowngrades`. `LinksInstalled` is not
  inductive because the installer works in steps; `InstallInv` adds
  `InstallerAt(helper)`, what each position of the installer implies about the
  versions on disk and both links: nobody moves the links behind its back, the
  release to return to is complete, a release it created itself is nobody's
  target, and no agent runs after the switch. That the requested release is not
  below the current one, compared under the lock, gives the action property.

`ControlSessionProofs`, for any number of sockets, versions, generations, events
and faults. `ControlInv` has a part for each theorem, over `SocketInv`: a socket
that nobody uses holds no messages, what is written to one the agent has left is
lost, and a process that is down has no socket.

- `OnlineCounted`. `OnlineWhileServed` counts with a cardinality, so each step
  shows which socket enters or leaves the set of those served.
- `NoAnnouncementMissed`. `AnnouncementPending` with: nothing is announced
  before it is published. So the version a task sends, which it reads when it
  sends it, is never below one announced while it was subscribed.
- `VersionsInOrder`. `NeverRolledBack` compares neighbours on one socket.
  `OrderInv` adds what makes it inductive: all versions under way lie between the
  one held and the newest published, they come in order, an UpToDate repeats the
  version before it, and a Sync was written at a version the agent still holds
  or has left behind.
- `AdvertisementsNeverStale`. `KnownInv` says that a generation stands for one
  payload wherever it is found (in the database, in the agent, in any queue) and
  that the file knows of every one; `Rising` and `Newest`, that on the agent's
  own socket they come in order and that no other socket has a newer one. An older
  socket that is still being read then only has duplicates and what is older than
  all the agent has still to send.

`HostProofs`, the Linux network: `ManifestRecovers` and `NeverUnmasked`, for any
interfaces and gateway routes and any number of failing calls and crashes. `NetworkInv` is
the types with `StageInv` (what each place of the process says of what it holds
and has still to go through), `MasqueradeInv` (forwarding is down wherever the
table is being replaced) and `RecoverableInv`: the file records what was changed,
what the process holds agrees with the file but for the places where it writes
it, and during a recovery what is done is restored and what is not is still to
do. The attempt to prove the last part for a shutdown that fails found a case
the run did not reach with two faults, of a process that could not write its
records, whose shutdown failed, and that then could not remove the device
either; `lost` covers it now, and the run has three faults.

`HostProofs`, the driver and the Windows network:

- `QueuesOfOwner`, for any limits and any number of files and power cycles.
  `QueueInv` adds that the queue's MTU is that of an attached session and that a
  session that is not attached has no packets; the two together make a new attach
  start from empty queues whichever callback ended the session before it.
- `ClientsInStep`. `FileInv` says that a cookie belongs to one open file and that
  a file that was never opened has a fresh client. `StepInv` says what a client
  knows while it waits: until the driver handles its request, what the session
  is; from then until the answer arrives, what the session will be for it once it
  commits. A handle closed or power lost in between leaves nobody who owns the
  session.
- `LeftoversRecorded`, `RunningAsRecorded` and `WindowsTypes`, for any adapters,
  prefixes and foreign routes. `WindowsInv` adds `PlaceInv` (which places have an
  adapter and a manifest of its own), `AdapterInv` (an adapter is open or
  closed, and only such a one has an address) and `RouteInv` (what was created and
  what is still to do make up the manifest; while routes are deleted and none
  failed, what is in the table is still to do).

Only model-checked, because the prover does not reach them: all liveness
(`RekeyCompletes`, `EventuallyAgreed`, `QueueDrains`, `Reconnects`,
`AgentConverges`, `RevokedLeaves`, `BestPathReturns`). The invariants and
action properties of the runs are each stated by a theorem.

## What the models leave out

- Cryptography: a message can be made by whoever the protocol lets make it and
  is altered by nobody. Random ids and keys collide with none in use.
- In the handshake, clock skew and the age of hellos, the time limit of the
  ClientHello cache (it has its size limit), and which endpoint is active:
  whether another candidate follows is a free choice. A second peer.
- In the session, the path a packet takes and what a path challenge decides,
  which is in `Paths`. In `Paths`, a second peer and with it the endpoint index,
  the endpoints tried during a handshake, statically configured endpoints, and a
  change of the set of relays; replay windows are one bit per probe, whether its
  challenge was opened.
- In the control sessions, signatures, a second node and the console's event
  stream; what a report stores. Enrollment is in `Controller`. Of a version's
  endpoints, one of each node; what `refusable` stands for changes with
  policies, routes and relays, not with this agent's own advertisement. Two
  kinds of candidate with one endpoint in one advertisement pass the
  Controller's check and not the agent's; `prioritize_candidates` never makes
  such an advertisement.
- In the host network, which routes a policy yields and the discovery of
  interfaces: both are inputs. On Windows, prefixes that overlap, a virtual
  address that changes, and the removals of `execute_plan`, which have no caller:
  a plan is only made for a process that owns no routes (and `TunNetwork` asks
  for none yet, so `RoutePlans` is what the crate allows). In the driver, the
  encoding of messages, and `XsnetEvtIoStop`, which completes a request as
  cancelled while its handler is still at it: D0 exit waits for the handler
  instead. In the updates, the steps of an install or rollback by hand (each is
  one step), signatures, hashes and downloads, which succeed or fail as a whole,
  uninstallation, and the bucket a node falls into, which is in or out.
- In the relay, byte limits beside the packet limit, the traffic and source
  budgets (what they refuse is lost), metrics. All leases have the longest
  lifetime, equal to the age limit of a request, so the cached answer, the
  request and the lease run out together; an answer leaves the cache when no
  copy of its request can come any more. Several relays of one agent are
  independent entries of which one is modelled.
- In the controller, further networks and the overlap of their pools,
  the expiry of advertisements, the audit trail, the detail of rules (a rule
  selects the one subnet or not), tags and several groups. Locks a statement
  takes row by row are taken together.
- Cancellation of a branch of the runtime's `select!` in the middle of a
  handler; see the hazards.
- The components `PROJECT.json` marks `not_modelled`, with the reason.

## Plan

Done: the window, the session and its proofs, the rekey in time, the
handshake, the relay with its clients, the controller's transactions and the
proof that they implement the store; control sessions, the networks of both systems, the
driver and its client, updates, path selection, and the proofs about all of
these.

1. The endpoint index with a second peer, and the endpoints tried during a
   handshake; the hello cache against clock skew. Both belong beside `Paths`
   and `Handshake`.
2. Operators: ACL evaluation against its definition over small rule sets, and
   subnet route overlap.
3. Administrators' sessions and lockout.

## Not modelled

`PROJECT.json` gives the reason for each. ACL compilation and evaluation is a
pure function, left for the plan above.
Endpoint discovery, the console's authentication, the local IPC and CLI, the
Windows service and storage wrappers, configuration files, scripts and the web
console keep no state that two parties change at once, or are thin layers over
calls of the operating system.
