------------------------------ MODULE RelayServer ------------------------------
(***************************************************************************)
(* The XSR/1 relay: leases bound to a node and a source address, the index *)
(* from node to lease, one bounded queue per lease, the round-robin list   *)
(* of the queues to flush, and the cache that answers a repeated           *)
(* registration.  The relay is one task: each datagram or cleanup is       *)
(* handled to its end before the next.  What its budgets refuse to take or *)
(* its socket to send is like a datagram the network lost.  Every lease    *)
(* has the longest lifetime allowed (300 s), so that the cached answer to  *)
(* a request, the request itself and the lease run out together.           *)
(***************************************************************************)
EXTENDS Integers, Sequences, FiniteSets, SequencesExt, FiniteSetsExt, ReplayWindow

CONSTANTS
    Node,
    Places,        \* addresses a node may move between
    LeaseId,       \* 128-bit random lease ids
    RequestId,     \* 128-bit random request ids
    NoId,          \* Option::None for an id
    MaxLeases,     \* max_leases
    MaxCached,     \* max(4 * max_leases, 16)
    QueuePackets,  \* queue_packets_per_node
    LeaseTicks,    \* lease_ttl_seconds, in ticks of 15 s
    IdleTicks,     \* idle_timeout_seconds, in ticks of 15 s
    MaxFrames      \* bound on the payloads wrapped

ASSUME RelayAssumption ==
    /\ NoId \notin LeaseId \cup RequestId
    /\ Places # {}
    /\ {MaxLeases, MaxCached, QueuePackets} \subseteq Nat \ {0}
    /\ {LeaseTicks, IdleTicks} \subseteq Nat \ {0}
    /\ MaxFrames \in Nat

VARIABLES
    nodes,          \* NodeKey -> lease id
    leases,         \* lease id -> Lease
    activeQueues,   \* active_queues
    registrations,  \* registrations in registration_order, oldest first
    remaining,      \* time until expires_at of a lease, on everyone's clock
    net,            \* datagrams under way
    held,           \* datagrams the network delays, or keeps a copy of
    forwarded       \* history: how often a payload was queued

stateVars == <<nodes, leases, activeQueues, registrations>>
serverVars == <<stateVars, remaining, forwarded>>

Endpoint == Node \X Places
Payload == 1 .. MaxFrames

\* request is a history field: the registration the lease was granted to.
Lease ==
    [node : Node, endpoint : Endpoint, idle : 0 .. IdleTicks, replay : Windows,
     queue : Seq(Payload), scheduled : BOOLEAN, request : RequestId]
NoLease == [node |-> NoId]

\* The frames: every one names the node and the node's address, which is the
\* datagram's source on the way up and its destination on the way down.
Message ==
    [type : {"RegisterRequest"}, node : Node, endpoint : Endpoint, request : RequestId]
    \cup [type : {"RegisterResponse"}, node : Node, endpoint : Endpoint,
          request : RequestId, lease : LeaseId]
    \cup [type : {"Data"}, node : Node, endpoint : Endpoint, to : Node, lease : LeaseId,
          sequence : Nat, payload : Payload]
    \cup [type : {"Keepalive"}, node : Node, endpoint : Endpoint, lease : LeaseId,
          sequence : Nat]
    \cup [type : {"KeepaliveResponse"}, node : Node, endpoint : Endpoint, lease : LeaseId]
    \cup [type : {"Forwarded"}, endpoint : Endpoint, payload : Payload]

Live == {l \in LeaseId : leases[l] # NoLease}

ServerTypeOK ==
    /\ nodes \in [Node -> LeaseId \cup {NoId}]
    /\ leases \in [LeaseId -> Lease \cup {NoLease}]
    /\ Cardinality(Live) <= MaxLeases
    /\ \A l \in Live : Len(leases[l].queue) <= QueuePackets
    /\ activeQueues \in Seq(LeaseId)
    /\ registrations \in Seq([node : Node, request : RequestId, endpoint : Endpoint, lease : LeaseId])
    /\ Len(registrations) <= MaxCached
    /\ remaining \in [LeaseId -> 0 .. LeaseTicks]
    /\ net \cup held \subseteq Message
    /\ forwarded \in [Payload -> Nat]

ServerInit ==
    /\ nodes = [n \in Node |-> NoId]
    /\ leases = [l \in LeaseId |-> NoLease]
    /\ activeQueues = <<>>
    /\ registrations = <<>>
    /\ remaining = [l \in LeaseId |-> 0]
    /\ net = {}
    /\ held = {}
    /\ forwarded = [p \in Payload |-> 0]

-------------------------------------------------------------------------------
\* handle_registration

Response(entry) ==
    [type |-> "RegisterResponse", node |-> entry.node, endpoint |-> entry.endpoint,
     request |-> entry.request, lease |-> entry.lease]

Cached(m) == {r \in ToSet(registrations) : r.node = m.node /\ r.request = m.request}

\* The request comes from another address than before or has run out, or
\* there is no room for another node.
RegistrationRefused(m) ==
    \/ \E r \in Cached(m) : r.endpoint # m.endpoint \/ remaining[r.lease] = 0
    \/ Cached(m) = {} /\ Cardinality(Live) >= MaxLeases /\ nodes[m.node] = NoId

RejectRegistration(m) ==
    /\ m.type = "RegisterRequest"
    /\ RegistrationRefused(m)
    /\ net' = net \ {m}
    /\ UNCHANGED serverVars

RepeatRegistration(m) ==
    /\ m.type = "RegisterRequest"
    /\ ~RegistrationRefused(m)
    /\ Cached(m) # {}
    /\ net' = (net \ {m}) \cup {Response(r) : r \in Cached(m)}
    /\ UNCHANGED serverVars

\* Mutant: a registration is not remembered.
CacheNothing(entry) == registrations

\* cache_registration
CacheRegistration(entry) ==
    Append(IF Len(registrations) >= MaxCached THEN Tail(registrations) ELSE registrations, entry)

NewLease(m) ==
    [node |-> m.node, endpoint |-> m.endpoint, idle |-> 0, replay |-> NewWindow,
     queue |-> <<>>, scheduled |-> FALSE, request |-> m.request]

\* Mutant: the lease a node had before is left behind.
InsertKeepingPrevious(m, l) == [leases EXCEPT ![l] = NewLease(m)]

\* The node's previous lease goes, with whatever it had queued.
InsertLease(m, l) ==
    [k \in LeaseId |-> IF k = l THEN NewLease(m)
                       ELSE IF k = nodes[m.node] THEN NoLease ELSE leases[k]]

\* new_lease_id chose l.
GrantRegistration(m, l) ==
    /\ m.type = "RegisterRequest"
    /\ ~RegistrationRefused(m)
    /\ Cached(m) = {}
    /\ leases[l] = NoLease
    /\ nodes' = [nodes EXCEPT ![m.node] = l]
    /\ leases' = InsertLease(m, l)
    /\ remaining' = [remaining EXCEPT ![l] = LeaseTicks]
    /\ LET entry == [node |-> m.node, request |-> m.request, endpoint |-> m.endpoint, lease |-> l]
       IN  /\ registrations' = CacheRegistration(entry)
           /\ net' = (net \ {m}) \cup {Response(entry)}
    /\ UNCHANGED <<activeQueues, forwarded>>

-------------------------------------------------------------------------------
\* handle_data, handle_keepalive

\* The lease exists, lease_matches and precheck hold.
Admitted(m) ==
    LET lease == leases[m.lease]
    IN  /\ lease # NoLease
        /\ lease.node = m.node
        /\ lease.endpoint = m.endpoint
        /\ remaining[m.lease] > 0
        /\ Precheck(lease.replay, m.sequence)

\* Mutant: the sequence of a frame is checked and not recorded.
AcceptedUncommitted(m) == [leases[m.lease] EXCEPT !.idle = 0]

\* commit of the replay window; last_activity
Accepted(m) ==
    [leases[m.lease] EXCEPT !.replay = Commit(@, m.sequence), !.idle = 0]

DestinationReady(m) ==
    /\ nodes[m.to] # NoId
    /\ remaining[nodes[m.to]] > 0
    /\ Len(leases[nodes[m.to]].queue) < QueuePackets

HandleData(m) ==
    /\ m.type = "Data"
    /\ Admitted(m)
    /\ DestinationReady(m)
    /\ LET target == nodes[m.to]
       IN  /\ leases' = [leases EXCEPT
                  ![m.lease] = Accepted(m),
                  ![target].queue = Append(@, m.payload),
                  ![target].scheduled = TRUE]
           /\ activeQueues' = IF leases[target].scheduled THEN activeQueues
                              ELSE Append(activeQueues, target)
    /\ forwarded' = [forwarded EXCEPT ![m.payload] = @ + 1]
    /\ net' = net \ {m}
    /\ UNCHANGED <<nodes, registrations, remaining>>

KeepaliveResponse(m) ==
    [type |-> "KeepaliveResponse", node |-> m.node, endpoint |-> m.endpoint, lease |-> m.lease]

HandleKeepalive(m) ==
    /\ m.type = "Keepalive"
    /\ Admitted(m)
    /\ leases' = [leases EXCEPT ![m.lease] = Accepted(m)]
    /\ net' = (net \ {m}) \cup {KeepaliveResponse(m)}
    /\ UNCHANGED <<nodes, activeQueues, registrations, remaining, forwarded>>

DropFrame(m) ==
    /\ \/ m.type = "Keepalive" /\ ~Admitted(m)
       \/ m.type = "Data" /\ ~(Admitted(m) /\ DestinationReady(m))
    /\ net' = net \ {m}
    /\ UNCHANGED serverVars

-------------------------------------------------------------------------------
\* flush_queues is a run of the two steps below that ends when the list is
\* empty or at the first send the socket would block, which may be any.

SkipEmptyQueue ==
    /\ activeQueues # <<>>
    /\ LET l == Head(activeQueues)
       IN  /\ leases[l] # NoLease => leases[l].queue = <<>>
           /\ leases' = IF leases[l] = NoLease THEN leases
                        ELSE [leases EXCEPT ![l].scheduled = FALSE]
    /\ activeQueues' = Tail(activeQueues)
    /\ UNCHANGED <<nodes, registrations, remaining, net, forwarded>>

\* Mutant: a queue with more to send is not put back.
RescheduledNever(l) == Tail(activeQueues)

\* A queue with more to send goes to the back of the list.
Rescheduled(l) ==
    IF Len(leases[l].queue) > 1 THEN Append(Tail(activeQueues), l) ELSE Tail(activeQueues)

FlushOne ==
    /\ activeQueues # <<>>
    /\ LET l == Head(activeQueues)
       IN  /\ leases[l] # NoLease
           /\ leases[l].queue # <<>>
           /\ net' = net \cup {[type |-> "Forwarded", endpoint |-> leases[l].endpoint,
                                payload |-> Head(leases[l].queue)]}
           /\ leases' = [leases EXCEPT ![l].queue = Tail(@),
                                       ![l].scheduled = Len(leases[l].queue) > 1]
           /\ activeQueues' = Rescheduled(l)
    /\ UNCHANGED <<nodes, registrations, remaining, forwarded>>

-------------------------------------------------------------------------------
\* The index without the leases that expired.
NodesWithout(expired) ==
    [n \in Node |-> IF nodes[n] \in expired THEN NoId ELSE nodes[n]]

\* The leases cleanup removes.
Expired == {l \in Live : remaining[l] = 0 \/ leases[l].idle >= IdleTicks}

\* A cached answer runs out 300 s after its request came.  By then the request
\* is refused for its age and no agent waits for it; the model lets the answer
\* go as soon as no copy of the request can come.
RunOut(r, pending) ==
    /\ r.request \notin pending
    /\ \A m \in net \cup held : m.type = "RegisterRequest" => m.request # r.request

CleanupDue(pending) ==
    Expired # {} \/ (registrations # <<>> /\ RunOut(Head(registrations), pending))

\* cleanup: answers are dropped from the oldest on, up to the first to keep.
Cleanup(pending) ==
    /\ CleanupDue(pending)
    /\ leases' = [l \in LeaseId |-> IF l \in Expired THEN NoLease ELSE leases[l]]
    /\ nodes' = NodesWithout(Expired)
    /\ \E first \in 1 .. Len(registrations) + 1 :
           /\ \A i \in 1 .. first - 1 : RunOut(registrations[i], pending)
           /\ first <= Len(registrations) => ~RunOut(registrations[first], pending)
           /\ registrations' = SubSeq(registrations, first, Len(registrations))
    /\ UNCHANGED <<activeQueues, remaining, net, forwarded>>

\* The relay keeps its state in memory only.
RestartRelay ==
    /\ nodes' = [n \in Node |-> NoId]
    /\ leases' = [l \in LeaseId |-> NoLease]
    /\ activeQueues' = <<>>
    /\ registrations' = <<>>
    /\ UNCHANGED <<remaining, net, forwarded>>

-------------------------------------------------------------------------------
\* nodes and leases are inverse to each other: a node never has two leases,
\* and no lease is left behind that its node cannot reach (handle_registration
\* replaces, cleanup removes both).
LeaseIndex ==
    /\ \A n \in Node : nodes[n] # NoId => nodes[n] \in Live /\ leases[nodes[n]].node = n
    /\ \A l \in Live : nodes[leases[l].node] = l

\* No queue is forgotten and none is listed twice: a lease with packets is in
\* active_queues exactly once, and its flag says so, whatever leases were
\* replaced or cleaned up while they were listed.
QueuesScheduled ==
    \A l \in Live :
        /\ leases[l].queue # <<>> => leases[l].scheduled
        /\ leases[l].scheduled <=> l \in ToSet(activeQueues)
        /\ Cardinality({i \in DOMAIN activeQueues : activeQueues[i] = l}) <= 1

\* A payload is queued for its destination at most once, however often the
\* network repeats its frame and whatever happened to the lease since.
ForwardedOnce == \A p \in Payload : forwarded[p] <= 1

\* A registration never replaces the lease it was granted itself: a repeated
\* request is answered from the cache, and the agent that took the first
\* answer keeps a lease the relay knows.
GrantedOnce ==
    [][\A n \in Node :
          nodes[n] # NoId /\ nodes'[n] \notin {NoId, nodes[n]} =>
              leases[nodes[n]].request # leases'[nodes'[n]].request]_<<serverVars, net>>
===============================================================================
