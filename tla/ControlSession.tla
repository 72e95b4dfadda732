---------------------------- MODULE ControlSession ----------------------------
(***************************************************************************)
(* The control plane between the Controller and one agent: how versions of *)
(* the configuration reach the agent and its advertisements reach the      *)
(* Controller, over WebSocket sessions that break, overlap and restart.    *)
(*                                                                         *)
(* The Controller side is apps/controller/src/control.rs and state.rs: one *)
(* task per socket that authenticates, subscribes to the broadcast of      *)
(* configuration events, sends the newest version and then serves events   *)
(* and requests.  The agent side is apps/agent/src/control.rs, state.rs    *)
(* and the part of runtime.rs that refreshes the advertisement.            *)
(*                                                                         *)
(* A version is its place in published.  What it says of this agent is     *)
(* whether it is still a member, who its peers are and which update        *)
(* channel it is on: the two reports an agent sends are refused when what  *)
(* they say of peers and channel is not what the database says now.  The   *)
(* answers to accepted reports change nothing here and are left out.  A    *)
(* version also lists what the nodes advertise, and there are versions the *)
(* Controller publishes and the agents refuse.                             *)
(***************************************************************************)
EXTENDS Integers, Sequences, FiniteSets

CONSTANTS
    Sockets,         \* sockets that may be open at the same time (named bound)
    Self,            \* the agent's node
    Peers,           \* the other nodes that may be in the network
    Enrolled,        \* those that are when the agent enrolls
    Endpoints,       \* the endpoints a node may advertise
    NoEndpoint,      \* what a node lists that advertises none
    MaxVersion,      \* the newest version there will be (named bound)
    MaxGeneration,   \* the largest generation of an advertisement (named bound)
    MaxUnread,       \* unread messages of a socket at a tick (named bound)
    EventCapacity,   \* of the broadcast channel: 256
    FaultBudget      \* how many disconnections, crashes and failed writes there are

ASSUME ControlAssumption ==
    /\ Sockets \subseteq Nat \ {0} /\ IsFiniteSet(Sockets)
    /\ IsFiniteSet(Peers) /\ Enrolled \subseteq Peers /\ Self \notin Peers
    /\ NoEndpoint \notin Endpoints
    /\ MaxVersion \in Nat \ {0}
    /\ MaxGeneration \in Nat
    /\ MaxUnread \in Nat
    /\ EventCapacity \in Nat \ {0}
    /\ FaultBudget \in Nat

VARIABLES
    published,    \* the rows of configuration_versions, and with them the node rows
    stored,       \* the row of node_candidate_advertisements: generation and payload
    committed,    \* versions whose transaction committed but is not yet announced
    announced,    \* history: the newest version notify_configuration_changed was called for
    socket,       \* the Controller's task of each socket
    online,       \* online_nodes: how many served sessions the agent has
    agent,        \* the agent's process
    disk,         \* its node state file
    faults        \* how much of the budget is spent

vars == <<published, stored, committed, announced, socket, online, agent, disk, faults>>
controllerVars == <<published, stored, committed, announced>>

Channels == {"stable", "testing"}
NoSocket == 0
Nodes == Peers \cup {Self}

\* Of each active node a version lists one endpoint it advertises: an agent
\* refuses a version for any one of them.  refusable stands for what else the
\* agents refuse and the Controller publishes: a payload of more than 256 KiB,
\* or an endpoint that is a relay's.
Active(c) == c.peers \cup (IF c.member THEN {Self} ELSE {})
Configuration ==
    {c \in [member : BOOLEAN, peers : SUBSET Peers, channel : Channels,
            candidate : [Nodes -> Endpoints \cup {NoEndpoint}], refusable : BOOLEAN] :
        \A n \in Nodes \ Active(c) : c.candidate[n] = NoEndpoint}

\* No endpoint is listed of two nodes.
EndpointsApart(c) ==
    \A n, k \in Nodes : c.candidate[n] = c.candidate[k] => n = k \/ c.candidate[n] = NoEndpoint

Latest == Len(published)
Now == published[Latest]

\* An advertisement is its generation and its payload: two runs of the agent
\* never collect the same candidates with the same timestamps, so the run stands
\* for the payload, beside the endpoint.
Advertisement == [generation : 0 .. MaxGeneration, payload : 0 .. FaultBudget,
                  endpoint : Endpoints \cup {NoEndpoint}]
NoAdvertisement == [generation |-> 0, payload |-> 0, endpoint |-> NoEndpoint]

\* What the two ends write to each other: a version, or an advertisement.
ToAgent == [type : {"Authenticated", "Configuration", "UpToDate"}, argument : 1 .. MaxVersion]
ToServer == [type : {"Sync", "Runtime", "Telemetry"}, argument : 1 .. MaxVersion]
            \cup [type : {"Candidates"}, argument : Advertisement]

Message(type, argument) == [type |-> type, argument |-> argument]

\* The Controller's task of a socket: phase "closed" is a task that has ended
\* while the agent has not noticed.  sent is a history of what it sent last.
Closed == [phase |-> "none", events |-> 0, lagged |-> FALSE, sent |-> 0,
           toAgent |-> <<>>, toServer |-> <<>>]

TypeOK ==
    /\ published \in Seq(Configuration) /\ Latest \in 1 .. MaxVersion
    /\ stored \in Advertisement
    /\ committed \subseteq 1 .. Latest
    /\ announced \in 0 .. Latest
    /\ \A s \in Sockets :
          /\ socket[s].phase \in {"none", "accepted", "authenticated", "subscribed", "served", "closed"}
          /\ socket[s].events \in 0 .. EventCapacity
          /\ socket[s].lagged \in BOOLEAN
          /\ socket[s].sent \in 0 .. Latest
          /\ socket[s].toAgent \in Seq(ToAgent)
          /\ socket[s].toServer \in Seq(ToServer)
    /\ online \in 0 .. Cardinality(Sockets)
    /\ agent \in [up : BOOLEAN, socket : Sockets \cup {NoSocket}, connected : BOOLEAN,
                  run : 0 .. FaultBudget, version : 1 .. Latest,
                  generation : 0 .. MaxGeneration, advertised : Advertisement, seen : BOOLEAN]
    /\ disk \in [version : 1 .. Latest, generation : 0 .. MaxGeneration]
    /\ faults \in 0 .. FaultBudget

\* The agent has enrolled: version 1 names it, and it starts from that file.
Started(run, state) ==
    [up |-> TRUE, socket |-> NoSocket, connected |-> FALSE, run |-> run,
     version |-> state.version, generation |-> state.generation,
     advertised |-> NoAdvertisement, seen |-> TRUE]

\* The version it enrolled with: the peers are there, and advertise.
Accepted(c) ==
    /\ c.member /\ c.peers = Enrolled /\ c.channel = "stable"
    /\ \A n \in Nodes : c.candidate[n] # NoEndpoint <=> n \in Enrolled
    /\ EndpointsApart(c) /\ ~c.refusable

Init ==
    /\ \E c \in Configuration : Accepted(c) /\ published = <<c>>
    /\ stored = NoAdvertisement
    /\ committed = {}
    /\ announced = 1
    /\ socket = [s \in Sockets |-> Closed]
    /\ online = 0
    /\ disk = [version |-> 1, generation |-> 0]
    /\ agent = Started(0, [version |-> 1, generation |-> 0])
    /\ faults = 0

Fault == faults < FaultBudget /\ faults' = faults + 1

-------------------------------------------------------------------------------
(* The Controller: publication and its announcement. *)

\* A management operation publishes in its transaction: a peer enrolls or is
\* revoked, this node's channel is replaced, or this node is revoked.
Roles(c) == <<c.member, c.peers, c.channel>>
RolesChanged(c) ==
    /\ \/ \E p \in Peers : Roles(c) \in {<<Now.member, Now.peers \cup {p}, Now.channel>>,
                                      <<Now.member, Now.peers \ {p}, Now.channel>>}
       \/ \E channel \in Channels : Roles(c) = <<Now.member, Now.peers, channel>>
       \/ Roles(c) = <<FALSE, Now.peers, Now.channel>>
    /\ \A n \in Active(c) : c.candidate[n] = Now.candidate[n]
    /\ c.refusable = Now.refusable

\* A peer advertises, or an advertisement has expired and is not listed any
\* more.  Of the endpoints only those of one advertisement are compared.
EndpointChanged(c) ==
    /\ Roles(c) = Roles(Now) /\ c.refusable = Now.refusable
    /\ \E n \in Active(c) :
          /\ n \in Peers \/ c.candidate[n] = NoEndpoint
          /\ \A k \in Nodes \ {n} : c.candidate[k] = Now.candidate[k]

\* Policies, routes or relays change.  What happens at once is a sequence of
\* versions with one change each.
RefusableChanged(c) == Roles(c) = Roles(Now) /\ c.candidate = Now.candidate

Changed(c) == RolesChanged(c) \/ EndpointChanged(c) \/ RefusableChanged(c)

\* Versions are left for the advertisements that may still come.
Publish ==
    /\ Latest + MaxGeneration - stored.generation < MaxVersion
    /\ \E c \in Configuration :
          /\ c # Now /\ Changed(c)
          /\ published' = Append(published, c)
    /\ committed' = committed \cup {Latest + 1}
    /\ UNCHANGED <<stored, announced, socket, online, agent, disk, faults>>

\* tokio::sync::broadcast: a receiver that is EventCapacity behind loses its
\* oldest event and is told so at its next recv.
Notified(task) ==
    IF task.phase \in {"subscribed", "served"}
    THEN [task EXCEPT !.events = IF @ < EventCapacity THEN @ + 1 ELSE @,
                      !.lagged = @ \/ task.events = EventCapacity]
    ELSE task

\* notify_configuration_changed, after the commit.
Announce(v) ==
    /\ v \in committed
    /\ committed' = committed \ {v}
    /\ announced' = IF v > announced THEN v ELSE announced
    /\ socket' = [s \in Sockets |-> Notified(socket[s])]
    /\ UNCHANGED <<published, stored, online, agent, disk, faults>>

\* The request's connection goes away during commit().await: the future is
\* dropped, the commit takes place and nobody is notified.
LoseAnnouncement(v) ==
    /\ v \in committed
    /\ Fault
    /\ committed' = committed \ {v}
    /\ UNCHANGED <<published, stored, announced, socket, online, agent, disk>>

-------------------------------------------------------------------------------
(* The Controller: the task of one socket. *)

Task(s, phase) == socket[s].phase = phase
AgentOn(s) == agent.socket = s

\* The task returns.  mark_node_offline follows when it had been counted.
Ended(s) == IF AgentOn(s) THEN [socket[s] EXCEPT !.phase = "closed", !.events = 0, !.lagged = FALSE,
                                                 !.toServer = <<>>]
            ELSE Closed

\* Mutant: the end of any session takes the node off line.
OfflineAtOnce(s) == online' = IF Task(s, "served") THEN 0 ELSE online

\* mark_node_offline: the entry goes with the last connection.
MarkNodeOffline(s) ==
    online' = IF Task(s, "served") /\ online > 0 THEN online - 1 ELSE online

End(s) ==
    /\ socket' = [socket EXCEPT ![s] = Ended(s)]
    /\ MarkNodeOffline(s)

\* send_json: what is written to a socket the agent has left is lost.
Pushed(s, task, message) ==
    [task EXCEPT !.toAgent = IF AgentOn(s) THEN Append(@, message) ELSE @,
                 !.sent = message.argument]

\* Mutant: a revoked node is let in.
AuthenticateRevoked(s) ==
    /\ Task(s, "accepted")
    /\ socket' = [socket EXCEPT ![s].phase = "authenticated"]
    /\ UNCHANGED <<controllerVars, online, agent, disk, faults>>

\* authenticate_control: the signed challenge of a node that is not revoked.
Admitted == Now.member

\* authenticate_socket: the only time the node is looked up.
Authenticate(s) ==
    /\ Task(s, "accepted")
    /\ IF Admitted
       THEN /\ socket' = [socket EXCEPT ![s].phase = "authenticated"]
            /\ UNCHANGED online
       ELSE End(s)
    /\ UNCHANGED <<controllerVars, agent, disk, faults>>

\* subscribe_configuration_events: from here on events are kept for the task.
Subscribe(s) ==
    /\ Task(s, "authenticated")
    /\ socket' = [socket EXCEPT ![s].phase = "subscribed"]
    /\ UNCHANGED <<controllerVars, online, agent, disk, faults>>

\* send_initial_configuration, mark_node_online, record_control_connected.
SendInitial(s) ==
    /\ Task(s, "subscribed")
    /\ socket' = [socket EXCEPT ![s] =
                    [Pushed(s, @, Message("Authenticated", Latest)) EXCEPT !.phase = "served"]]
    /\ online' = online + 1
    /\ UNCHANGED <<controllerVars, agent, disk, faults>>

\* Mutant: a lagged receiver throws away what it still holds.
LagDropsAll(s) ==
    /\ Task(s, "served") /\ socket[s].events > 0
    /\ socket' = [socket EXCEPT ![s] =
                    IF @.lagged THEN [@ EXCEPT !.lagged = FALSE, !.events = 0]
                    ELSE [Pushed(s, @, Message("Configuration", Latest)) EXCEPT !.events = @ - 1]]
    /\ UNCHANGED <<controllerVars, online, agent, disk, faults>>

\* configuration_events.recv(): Err(Lagged) is skipped; an event is answered
\* with the newest version, whatever version it was for.
HandleEvent(s) ==
    /\ Task(s, "served") /\ socket[s].events > 0
    /\ socket' = [socket EXCEPT ![s] =
                    IF @.lagged THEN [@ EXCEPT !.lagged = FALSE]
                    ELSE [Pushed(s, @, Message("Configuration", Latest))
                             EXCEPT !.events = socket[s].events - 1]]
    /\ UNCHANGED <<controllerVars, online, agent, disk, faults>>

Request(s, type) ==
    /\ Task(s, "served")
    /\ socket[s].toServer # <<>>
    /\ Head(socket[s].toServer).type = type

Argument(s) == Head(socket[s].toServer).argument

Handled(s) == [socket[s] EXCEPT !.toServer = Tail(@)]

\* Mutant: an agent is never told of a newer version when it asks.
SyncUpToDate(s) ==
    /\ Request(s, "Sync")
    /\ socket' = [socket EXCEPT ![s] = Pushed(s, Handled(s), Message("UpToDate", Argument(s)))]
    /\ UNCHANGED <<controllerVars, online, agent, disk, faults>>

\* Mutant: a Sync is read and not answered.
SyncUnanswered(s) ==
    /\ Request(s, "Sync")
    /\ socket' = [socket EXCEPT ![s] = Handled(s)]
    /\ UNCHANGED <<controllerVars, online, agent, disk, faults>>

\* Sync { last_version }
HandleSync(s) ==
    /\ Request(s, "Sync")
    /\ socket' = [socket EXCEPT ![s] = Pushed(s, Handled(s),
                    IF Latest > Argument(s) THEN Message("Configuration", Latest)
                    ELSE Message("UpToDate", Latest))]
    /\ UNCHANGED <<controllerVars, online, agent, disk, faults>>

\* advertise_candidates of an advertisement that is new: it is stored, a
\* version is published and announced, and the answer is that version.
HandleAdvertisement(s) ==
    /\ Request(s, "Candidates")
    /\ Now.member /\ Argument(s).generation > stored.generation
    /\ stored' = Argument(s)
    /\ published' = Append(published, [Now EXCEPT !.candidate[Self] = Argument(s).endpoint])
    /\ announced' = Latest + 1
    /\ socket' = [r \in Sockets |-> Notified(
                    IF r = s THEN Pushed(s, Handled(s), Message("Configuration", Latest + 1)) ELSE socket[r])]
    /\ UNCHANGED <<committed, online, agent, disk, faults>>

\* candidate_advertisement_is_duplicate: the bytes of the stored advertisement
\* again are answered with the newest version.
HandleDuplicate(s) ==
    /\ Request(s, "Candidates")
    /\ Now.member /\ Argument(s) = stored
    /\ socket' = [socket EXCEPT ![s] = Pushed(s, Handled(s), Message("Configuration", Latest))]
    /\ UNCHANGED <<controllerVars, online, agent, disk, faults>>

\* A runtime report names the channel the node is assigned to; telemetry names
\* exactly its active peers, and is not refused because its sender is revoked.
ChannelCurrent(held) == Now.member /\ held.channel = Now.channel
PeersCurrent(held) == held.peers = Now.peers

\* record_runtime_report and record_agent_report
RuntimeAccepted(s) == Request(s, "Runtime") /\ ChannelCurrent(published[Argument(s)])
TelemetryAccepted(s) == Request(s, "Telemetry") /\ PeersCurrent(published[Argument(s)])
Current(s) == RuntimeAccepted(s) \/ TelemetryAccepted(s)

HandleReport(s) ==
    /\ Request(s, "Runtime") \/ Request(s, "Telemetry")
    /\ Current(s)
    /\ socket' = [socket EXCEPT ![s] = Handled(s)]
    /\ UNCHANGED <<controllerVars, online, agent, disk, faults>>

\* A generation that is not new, unless it is the stored advertisement itself.
Outdated(advertisement) ==
    advertisement.generation <= stored.generation /\ advertisement # stored

\* A request that is refused ends the session.
Refused(s) ==
    \/ Request(s, "Candidates") /\ (~Now.member \/ Outdated(Argument(s)))
    \/ (Request(s, "Runtime") \/ Request(s, "Telemetry")) /\ ~Current(s)

Refuse(s) ==
    /\ Refused(s)
    /\ End(s)
    /\ UNCHANGED <<controllerVars, agent, disk, faults>>

\* The agent's end of the socket is gone; the task may still read what came in
\* before, or fail to send first.
NoticeGone(s) ==
    /\ socket[s].phase \notin {"none", "closed"}
    /\ ~AgentOn(s)
    /\ End(s)
    /\ UNCHANGED <<controllerVars, agent, disk, faults>>

\* The Controller restarts: its tasks, their subscriptions and the table of
\* online nodes are gone, and what it had committed is never announced.
ControllerRestarts ==
    /\ Fault
    /\ socket' = [s \in Sockets |-> IF Task(s, "none") THEN socket[s] ELSE Ended(s)]
    /\ online' = 0
    /\ committed' = {}
    /\ UNCHANGED <<published, stored, announced, agent, disk>>

-------------------------------------------------------------------------------
(* The agent: the control loop. *)

Sent(s, messages) == [socket EXCEPT ![s].toServer = @ \o messages]

\* control_session returns: the backoff of run_control_loop, then a new socket.
\* What the task has still to read matters only when an advertisement is in it:
\* a report or a Sync could end the task, which may end anyway.
IsAdvertisement(message) == message.type = "Candidates"
Remaining(messages) ==
    IF \E i \in DOMAIN messages : IsAdvertisement(messages[i]) THEN messages ELSE <<>>
Left(s) == IF socket[s].phase = "closed" THEN [socket EXCEPT ![s] = Closed]
           ELSE [socket EXCEPT ![s].toAgent = <<>>, ![s].toServer = Remaining(@)]
Waiting == [agent EXCEPT !.socket = NoSocket, !.connected = FALSE]

Leave(s) == socket' = Left(s) /\ agent' = Waiting

\* Any free socket would do: the least stands for all.
Connect(s) ==
    /\ agent.up /\ AgentOn(NoSocket)
    /\ Task(s, "none")
    /\ \A r \in Sockets : r < s => ~Task(r, "none")
    /\ socket' = [socket EXCEPT ![s].phase = "accepted"]
    /\ agent' = [agent EXCEPT !.socket = s]
    /\ UNCHANGED <<controllerVars, online, disk, faults>>

Incoming(s, types) ==
    /\ AgentOn(s)
    /\ socket[s].toAgent # <<>>
    /\ Head(socket[s].toAgent).type \in types

Version(s) == Head(socket[s].toAgent).argument

\* validate_configuration refuses a version that does not name this node, one
\* with an endpoint of two nodes and one that is refusable,
\* NodeState::apply_configuration a rollback.
Valid(v) == published[v].member /\ EndpointsApart(published[v]) /\ ~published[v].refusable
Acceptable(s) == Valid(Version(s)) /\ Version(s) >= agent.version

\* What the agent sends once it has applied version v: its runtime report and
\* its telemetry, and on a new session the advertisement it holds.
RuntimeReport(v) == Message("Runtime", v)
TelemetryReport(v) == Message("Telemetry", v)
Reports(v) == <<RuntimeReport(v), TelemetryReport(v)>>
Greeting(s) ==
    IF Head(socket[s].toAgent).type = "Authenticated" /\ agent.advertised # NoAdvertisement
    THEN <<Message("Candidates", agent.advertised)>> ELSE <<>>

\* apply_configuration: memory first, then the file, unless nothing changed.
ApplyConfiguration(s) ==
    /\ Incoming(s, {"Authenticated", "Configuration"})
    /\ Acceptable(s)
    /\ agent' = [agent EXCEPT !.version = Version(s), !.connected = TRUE]
    /\ disk' = IF Version(s) = agent.version THEN disk
               ELSE [version |-> Version(s), generation |-> agent.generation]
    /\ socket' = [socket EXCEPT ![s].toAgent = Tail(@),
                                ![s].toServer = @ \o Reports(Version(s)) \o Greeting(s)]
    /\ UNCHANGED <<controllerVars, online, faults>>

\* write_json fails: the version stays in memory and the session is given up.
ApplyUnwritten(s) ==
    /\ Incoming(s, {"Authenticated", "Configuration"})
    /\ Acceptable(s) /\ Version(s) > agent.version
    /\ Fault
    /\ agent' = [Waiting EXCEPT !.version = Version(s)]
    /\ socket' = Left(s)
    /\ UNCHANGED <<controllerVars, online, disk>>

RefuseConfiguration(s) ==
    /\ Incoming(s, {"Authenticated", "Configuration"})
    /\ ~Acceptable(s)
    /\ Leave(s)
    /\ UNCHANGED <<controllerVars, online, disk, faults>>

\* UpToDate { version } must be the version held.
TakeUpToDate(s) ==
    /\ Incoming(s, {"UpToDate"})
    /\ IF Version(s) = agent.version
       THEN socket' = [socket EXCEPT ![s].toAgent = Tail(@)] /\ UNCHANGED agent
       ELSE Leave(s)
    /\ UNCHANGED <<controllerVars, online, disk, faults>>

\* The timers tick every 30 and 60 seconds: what was sent before has been
\* handled, and at most MaxUnread messages are not yet read.
Tick(s) ==
    /\ AgentOn(s) /\ agent.connected
    /\ ~Task(s, "closed")
    /\ socket[s].toServer = <<>>
    /\ Len(socket[s].toAgent) <= MaxUnread

\* synchronization.tick()
SynchronizationTick(s) ==
    /\ Tick(s)
    /\ socket' = Sent(s, <<Message("Sync", agent.version), RuntimeReport(agent.version)>>)
    /\ UNCHANGED <<controllerVars, online, agent, disk, faults>>

\* telemetry.tick()
TelemetryTick(s) ==
    /\ Tick(s)
    /\ socket' = Sent(s, <<TelemetryReport(agent.version)>>)
    /\ UNCHANGED <<controllerVars, online, agent, disk, faults>>

\* candidates.changed(): the initial advertisement was not marked as seen.
CandidatesChanged(s) ==
    /\ AgentOn(s) /\ agent.connected /\ ~agent.seen
    /\ agent' = [agent EXCEPT !.seen = TRUE]
    /\ socket' = IF Task(s, "closed") THEN socket
                 ELSE Sent(s, <<Message("Candidates", agent.advertised)>>)
    /\ UNCHANGED <<controllerVars, online, disk, faults>>

\* The socket ends after what was still in it, or breaks, or is given up at a
\* timeout or a reconnect command.
SessionEnds(s) ==
    /\ AgentOn(s)
    /\ Task(s, "closed") /\ socket[s].toAgent = <<>>
    /\ Leave(s)
    /\ UNCHANGED <<controllerVars, online, disk, faults>>

Disconnect(s) ==
    /\ AgentOn(s)
    /\ Fault
    /\ Leave(s)
    /\ UNCHANGED <<controllerVars, online, disk>>

-------------------------------------------------------------------------------
(* The agent: the runtime. *)

\* A new advertisement, with an endpoint collect_local_endpoints found.
Collected(endpoint) ==
    [agent EXCEPT !.generation = @ + 1, !.seen = FALSE,
                  !.advertised = [generation |-> agent.generation + 1, payload |-> agent.run,
                                  endpoint |-> endpoint]]

\* Mutant: the advertisement is handed over before its generation is on disk.
AdvertiseUnwritten ==
    /\ agent.up /\ agent.generation < MaxGeneration
    /\ \E endpoint \in Endpoints : agent' = Collected(endpoint)
    /\ UNCHANGED <<controllerVars, socket, online, disk, faults>>

\* maintain_data_plane with a new advertisement: its generation is written
\* with the whole state, then it is handed to the control loop.
RefreshCandidates ==
    /\ agent.up /\ agent.generation < MaxGeneration
    /\ disk' = [version |-> agent.version, generation |-> agent.generation + 1]
    /\ \E endpoint \in Endpoints : agent' = Collected(endpoint)
    /\ UNCHANGED <<controllerVars, socket, online, faults>>

\* The process ends: a crash, a failed write of maintain_data_plane before or
\* after the file was replaced, or a service stop.
Stopped(state) == [Started(agent.run, state) EXCEPT !.up = FALSE]

Crash ==
    /\ agent.up
    /\ Fault
    /\ agent' = Stopped(disk)
    /\ socket' = IF AgentOn(NoSocket) THEN socket ELSE Left(agent.socket)
    /\ UNCHANGED <<controllerVars, online, disk>>

CrashDuringRefresh ==
    /\ agent.up /\ agent.generation < MaxGeneration
    /\ Fault
    /\ disk' = [version |-> agent.version, generation |-> agent.generation + 1]
    /\ agent' = Stopped(disk')
    /\ socket' = IF AgentOn(NoSocket) THEN socket ELSE Left(agent.socket)
    /\ UNCHANGED <<controllerVars, online>>

\* run_agent reads the state file.
Start ==
    /\ ~agent.up
    /\ agent' = Started(agent.run + 1, disk)
    /\ UNCHANGED <<controllerVars, socket, online, disk, faults>>

-------------------------------------------------------------------------------
Serve(s) ==
    \/ Authenticate(s) \/ Subscribe(s) \/ SendInitial(s)
    \/ HandleSync(s) \/ HandleAdvertisement(s) \/ HandleDuplicate(s) \/ HandleReport(s)
    \/ Refuse(s) \/ NoticeGone(s)

Read(s) ==
    \/ ApplyConfiguration(s) \/ RefuseConfiguration(s) \/ TakeUpToDate(s) \/ SessionEnds(s)

Next ==
    \/ Publish \/ ControllerRestarts
    \/ \E v \in committed : Announce(v) \/ LoseAnnouncement(v)
    \/ RefreshCandidates \/ Crash \/ CrashDuringRefresh \/ Start
    \/ \E s \in Sockets :
          \/ Serve(s) \/ HandleEvent(s) \/ Connect(s) \/ Read(s) \/ ApplyUnwritten(s)
          \/ SynchronizationTick(s) \/ TelemetryTick(s) \/ CandidatesChanged(s)
          \/ Disconnect(s)

\* The tasks of both ends run and select! starves no branch; a tick that is due
\* stays due; the service manager restarts the agent, and a handler that
\* committed goes on to announce.
Fairness ==
    /\ \A s \in Sockets :
          /\ WF_vars(Serve(s)) /\ WF_vars(HandleEvent(s)) /\ WF_vars(Read(s))
          /\ SF_vars(SynchronizationTick(s))
    /\ WF_vars(\E s \in Sockets : Connect(s))
    /\ WF_vars(Start)
    /\ WF_vars(\E v \in committed : Announce(v))

Spec == Init /\ [][Next]_vars

LiveSpec == Spec /\ Fairness

-------------------------------------------------------------------------------
\* The order of the versions never makes the agent refuse what its Controller
\* sends it: on its socket the versions still under way are no older than the
\* one it holds and come in order, and an UpToDate names the version it will
\* hold by then.  Otherwise the session, and each one after it, would end in
\* ControllerTrust (apply_configuration, serve_authenticated_loop).
InOrder(messages, held) ==
    \A i \in DOMAIN messages :
        LET before == IF i = 1 THEN held ELSE messages[i - 1].argument
        IN  IF messages[i].type = "UpToDate" THEN messages[i].argument = before
            ELSE messages[i].argument >= before

NeverRolledBack ==
    agent.up /\ ~AgentOn(NoSocket) => InOrder(socket[agent.socket].toAgent, agent.version)

\* What an agent advertises is never turned away as out of date while its node
\* is active, though it crashes before or after writing the generation, and
\* though an older socket's request is handled after a newer one's
\* (maintain_data_plane, candidate_advertisement_is_duplicate).
AdvertisementsFresh ==
    \A s \in Sockets : AgentOn(s) /\ Request(s, "Candidates") => ~Outdated(Argument(s))

\* No announced version is missed: a subscribed session that has not sent it
\* yet has an event waiting, whenever it subscribed and however far it lagged
\* (serve, serve_authenticated_loop).
AnnouncementPending ==
    \A s \in Sockets :
        Task(s, "served") /\ socket[s].sent < announced => socket[s].events > 0

\* A node is online while any session of it is served, however its older
\* sessions end (mark_node_online, mark_node_offline).
OnlineWhileServed ==
    online = Cardinality({s \in Sockets : Task(s, "served")})

\* An active agent comes to hold the newest version unless that is one it
\* refuses, although announcements get lost, sessions break, reports that were
\* overtaken by a change end them, and versions in between were refused: it
\* comes back for each that puts things right (Sync of control_session,
\* run_control_loop, validate_configuration).
AgentConverges == <>[](agent.version = Latest \/ ~Valid(Latest))

\* A revoked agent's session comes to an end: nothing closes it directly, but
\* the version without the node does (revoke_node, validate_configuration).
RevokedLeaves == <>[](Now.member \/ \A s \in Sockets : ~Task(s, "served"))

\* docs/XSP1_PROTOCOL.md:397: endpoints of different nodes that conflict must be
\* rejected; docs/THREAT_MODEL.md:133 has the Controller do it.  What it
\* publishes would list no endpoint of two nodes (advertise_candidates,
\* validate_candidate_advertisement, load_configuration_nodes).
ConflictsRejected == \A v \in DOMAIN published : EndpointsApart(published[v])
===============================================================================
