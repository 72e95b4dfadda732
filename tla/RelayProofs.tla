------------------------------ MODULE RelayProofs ------------------------------
(***************************************************************************)
(* The relay and its agents, for any number of nodes, addresses, leases    *)
(* and requests, every queue and cache limit and replay window, and any    *)
(* number of faults: the index and the leases agree, no queue is           *)
(* forgotten, a payload is queued once, a lease's sequences are never used *)
(* again, and while the cache of answers suffices no registration          *)
(* replaces the lease it was granted itself.                               *)
(***************************************************************************)
EXTENDS Relay, ReplayWindowProofs, FiniteSetTheorems

\* An entry of the cache of answers.
Registration == [node : Node, request : RequestId, endpoint : Endpoint, lease : LeaseId]

\* A granted lease is not the absence of one.
LEMMA LeaseIsLease == \A x \in Lease : x # NoLease
<1> SUFFICES ASSUME NEW x \in Lease, x = NoLease PROVE FALSE
  OBVIOUS
<1>1. "queue" \in DOMAIN x
  BY DEF Lease
<1>2. DOMAIN NoLease = {"node"}
  BY DEF NoLease
<1> QED
  BY <1>1, <1>2

-------------------------------------------------------------------------------
\* What the frames carry, by their type.
LEMMA FrameFields ==
    ASSUME NEW m \in Message
    PROVE  /\ m.type = "RegisterRequest" => m.node \in Node /\ m.endpoint \in Endpoint /\ m.request \in RequestId
           /\ m.type = "RegisterResponse" =>
                m.node \in Node /\ m.endpoint \in Endpoint /\ m.request \in RequestId /\ m.lease \in LeaseId
           /\ m.type = "Data" =>
                /\ m.node \in Node /\ m.endpoint \in Endpoint /\ m.to \in Node
                /\ m.lease \in LeaseId /\ m.sequence \in Nat /\ m.payload \in Payload
           /\ m.type = "Keepalive" =>
                m.node \in Node /\ m.endpoint \in Endpoint /\ m.lease \in LeaseId /\ m.sequence \in Nat
BY DEF Message

\* The types, set by set.
Types ==
    /\ nodes \in [Node -> LeaseId \cup {NoId}]
    /\ leases \in [LeaseId -> Lease \cup {NoLease}]
    /\ \A l \in Live : Len(leases[l].queue) <= QueuePackets
    /\ activeQueues \in Seq(LeaseId)
    /\ registrations \in Seq(Registration)
    /\ Len(registrations) <= MaxCached
    /\ remaining \in [LeaseId -> 0 .. LeaseTicks]
    /\ net \subseteq Message
    /\ held \subseteq Message
    /\ forwarded \in [Payload -> Nat]
    /\ client \in [Node -> Client]
    /\ place \in [Node -> Places]
    /\ frames \in 0 .. MaxFrames
    /\ faults \in 0 .. FaultBudget

\* The entries of a sequence, and what Append, Tail and a suffix make of them.
LEMMA EntriesAppend ==
    ASSUME NEW S, NEW q \in Seq(S), NEW e \in S
    PROVE  /\ Append(q, e) \in Seq(S) /\ Len(Append(q, e)) = Len(q) + 1
           /\ ToSet(Append(q, e)) = ToSet(q) \cup {e}
<1> DEFINE a == Append(q, e)
<1>1. /\ a \in Seq(S) /\ Len(q) \in Nat /\ Len(a) = Len(q) + 1
      /\ \A i \in 1 .. Len(q) : a[i] = q[i]
      /\ a[Len(q) + 1] = e
      /\ DOMAIN q = 1 .. Len(q) /\ DOMAIN a = 1 .. Len(q) + 1
  OBVIOUS
<1> HIDE DEF a
<1>2. ASSUME NEW x \in ToSet(a) PROVE x \in ToSet(q) \cup {e}
  <2>1. PICK i \in 1 .. Len(q) + 1 : x = a[i]
    BY <1>1 DEF ToSet
  <2>2. CASE i = Len(q) + 1
    BY <1>1, <2>1, <2>2
  <2>3. CASE i # Len(q) + 1
    <3>1. i \in 1 .. Len(q)
      BY <1>1, <2>3
    <3> QED
      BY <1>1, <2>1, <3>1 DEF ToSet
  <2> QED
    BY <2>2, <2>3
<1>3. ASSUME NEW x \in ToSet(q) PROVE x \in ToSet(a)
  <2>1. PICK i \in 1 .. Len(q) : x = q[i]
    BY <1>1 DEF ToSet
  <2>2. i \in DOMAIN a /\ a[i] = x
    BY <1>1, <2>1
  <2> QED
    BY <2>2 DEF ToSet
<1>4. e \in ToSet(a)
  <2>1. Len(q) + 1 \in DOMAIN a
    BY <1>1
  <2> QED
    BY <1>1, <2>1 DEF ToSet
<1> QED
  BY <1>1, <1>2, <1>3, <1>4 DEF a

LEMMA EntriesTail ==
    ASSUME NEW S, NEW q \in Seq(S), q # <<>>
    PROVE  /\ Tail(q) \in Seq(S) /\ Len(Tail(q)) = Len(q) - 1
           /\ Head(q) \in S /\ ToSet(q) = {Head(q)} \cup ToSet(Tail(q))
<1> DEFINE t == Tail(q)
<1>1. /\ t \in Seq(S) /\ Len(t) = Len(q) - 1
      /\ \A i \in 1 .. Len(q) - 1 : t[i] = q[i + 1]
      /\ Len(q) \in Nat /\ Len(q) > 0 /\ Head(q) = q[1] /\ Head(q) \in S
      /\ DOMAIN q = 1 .. Len(q) /\ DOMAIN t = 1 .. Len(q) - 1
  OBVIOUS
<1> HIDE DEF t
<1>2. ASSUME NEW x \in ToSet(t) PROVE x \in ToSet(q)
  <2>1. PICK i \in 1 .. Len(q) - 1 : x = t[i]
    BY <1>1 DEF ToSet
  <2>2. i + 1 \in DOMAIN q /\ q[i + 1] = x
    BY <1>1, <2>1
  <2> QED
    BY <2>2 DEF ToSet
<1>3. ASSUME NEW x \in ToSet(q), x # Head(q) PROVE x \in ToSet(t)
  <2>1. PICK i \in 1 .. Len(q) : x = q[i]
    BY <1>1 DEF ToSet
  <2>2. i # 1
    BY <1>1, <1>3, <2>1
  <2>3. i - 1 \in DOMAIN t /\ t[i - 1] = x
    BY <1>1, <2>1, <2>2
  <2> QED
    BY <2>3 DEF ToSet
<1>4. Head(q) \in ToSet(q)
  BY <1>1 DEF ToSet
<1> QED
  BY <1>1, <1>2, <1>3, <1>4 DEF t

LEMMA EntriesSuffix ==
    ASSUME NEW S, NEW q \in Seq(S), NEW i \in 1 .. Len(q) + 1
    PROVE  /\ SubSeq(q, i, Len(q)) \in Seq(S) /\ ToSet(SubSeq(q, i, Len(q))) \subseteq ToSet(q)
           /\ Len(SubSeq(q, i, Len(q))) <= Len(q)
<1>1. /\ Len(q) \in Nat
      /\ SubSeq(q, i, Len(q)) = [j \in 1 .. (Len(q) - i + 1) |-> q[i + j - 1]]
  OBVIOUS
<1>2. \A j \in 1 .. (Len(q) - i + 1) : i + j - 1 \in 1 .. Len(q)
  BY <1>1
<1>3. Len(SubSeq(q, i, Len(q))) = Len(q) - i + 1
  BY <1>1
<1> QED
  BY <1>1, <1>2, <1>3 DEF ToSet

-------------------------------------------------------------------------------
\* What the steps do to the leases there are: every one stays, with its node
\* and its request (handle_data, handle_keepalive, flush_queues and the passing
\* of time).
LeasesStay ==
    /\ Live' = Live
    /\ \A k \in Live : /\ leases'[k] \in Lease /\ leases'[k].node = leases[k].node
                       /\ leases'[k].request = leases[k].request

\* The leases there are, and the ones there are not.
LEMMA LiveFacts ==
    ASSUME Types
    PROVE  /\ Live \subseteq LeaseId /\ NoId \notin LeaseId
           /\ \A l \in Live : leases[l] \in Lease
           /\ \A l \in LeaseId \ Live : leases[l] = NoLease
BY RelayAssumption DEF Types, Live

\* One lease is replaced by another record for the same node.
LEMMA UpdateStays ==
    ASSUME Types, NEW l \in Live, NEW x \in Lease, x.node = leases[l].node,
           x.request = leases[l].request, leases' = [leases EXCEPT ![l] = x]
    PROVE  /\ LeasesStay /\ leases' \in [LeaseId -> Lease \cup {NoLease}]
           /\ leases'[l] = x /\ \A k \in LeaseId \ {l} : leases'[k] = leases[k]
<1>1. l \in LeaseId /\ x # NoLease /\ leases[l] # NoLease
  BY LiveFacts, LeaseIsLease
<1>2. /\ leases' \in [LeaseId -> Lease \cup {NoLease}]
      /\ leases'[l] = x /\ \A k \in LeaseId \ {l} : leases'[k] = leases[k]
  BY <1>1 DEF Types
<1>3. Live' = Live
  BY <1>1, <1>2 DEF Live
<1> QED
  BY <1>1, <1>2, <1>3, LiveFacts DEF LeasesStay

\* A frame that Admitted holds of leaves its lease a lease, with the same queue.
LEMMA AcceptedLease ==
    ASSUME Types, NEW m \in net, m.type \in {"Data", "Keepalive"}, Admitted(m)
    PROVE  /\ m.lease \in Live /\ m.sequence \in Nat /\ Accepted(m) \in Lease
           /\ Accepted(m).node = leases[m.lease].node
           /\ Accepted(m).request = leases[m.lease].request
           /\ Accepted(m).replay = Commit(leases[m.lease].replay, m.sequence)
           /\ Accepted(m).queue = leases[m.lease].queue
           /\ Accepted(m).scheduled = leases[m.lease].scheduled
<1>1. m \in Message /\ m.lease \in LeaseId /\ m.sequence \in Nat
  BY FrameFields DEF Types
<1>2. m.lease \in Live /\ leases[m.lease] \in Lease
  BY <1>1, LiveFacts DEF Admitted, Live
<1>3. leases[m.lease].replay \in Windows
  BY <1>2 DEF Lease
<1>4. Commit(leases[m.lease].replay, m.sequence) \in Windows
  BY <1>1, <1>3, CommitType DEF Admitted
<1> DEFINE w == Commit(leases[m.lease].replay, m.sequence)
<1>0. 0 \in 0 .. IdleTicks
  BY RelayAssumption
<1>5. Accepted(m) = [leases[m.lease] EXCEPT !.replay = w, !.idle = 0]
  BY <1>2 DEF Accepted, Lease
<1>6. w \in Windows
  BY <1>4
<1> HIDE DEF w
<1>7. /\ Accepted(m) \in Lease /\ Accepted(m).node = leases[m.lease].node
      /\ Accepted(m).replay = w /\ Accepted(m).queue = leases[m.lease].queue
      /\ Accepted(m).scheduled = leases[m.lease].scheduled
      /\ Accepted(m).request = leases[m.lease].request
  BY <1>2, <1>5, <1>6, <1>0 DEF Lease
<1> QED
  BY <1>1, <1>2, <1>7 DEF w

\* handle_keepalive touches the lease of the frame only.
LEMMA HandleKeepaliveLeases ==
    ASSUME Types, NEW m \in net, HandleKeepalive(m)
    PROVE  /\ m.lease \in Live /\ m.sequence \in Nat
           /\ LeasesStay /\ leases' \in [LeaseId -> Lease \cup {NoLease}]
           /\ leases'[m.lease] = Accepted(m)
           /\ \A k \in LeaseId \ {m.lease} : leases'[k] = leases[k]
BY AcceptedLease, UpdateStays DEF HandleKeepalive

\* handle_data changes the window of the frame's lease and the queue of its
\* destination, which may be the same lease.
LEMMA HandleDataLeases ==
    ASSUME Types, LeaseIndex, NEW m \in net, HandleData(m)
    PROVE  /\ m.lease \in Live /\ nodes[m.to] \in Live /\ m.sequence \in Nat
           /\ LeasesStay /\ leases' \in [LeaseId -> Lease \cup {NoLease}]
           /\ \A k \in Live :
                /\ k = m.lease => leases'[k].replay = Commit(leases[k].replay, m.sequence)
                /\ k # m.lease => leases'[k].replay = leases[k].replay
                /\ k = nodes[m.to] => /\ leases'[k].queue = Append(leases[k].queue, m.payload)
                                      /\ leases'[k].scheduled = TRUE
                /\ k # nodes[m.to] => /\ leases'[k].queue = leases[k].queue
                                      /\ leases'[k].scheduled = leases[k].scheduled
<1> DEFINE t == nodes[m.to]
           mid == [leases EXCEPT ![m.lease] = Accepted(m)]
           x == [mid[t] EXCEPT !.queue = Append(mid[t].queue, m.payload), !.scheduled = TRUE]
<1>1. /\ m.type = "Data" /\ Admitted(m) /\ DestinationReady(m)
      /\ m \in Message /\ m.to \in Node /\ m.lease \in LeaseId /\ m.payload \in Payload
  BY FrameFields DEF HandleData, Types
<1>2. t \in Live
  BY <1>1 DEF DestinationReady, LeaseIndex
<1>3. /\ m.lease \in Live /\ m.sequence \in Nat /\ Accepted(m) \in Lease
      /\ Accepted(m).node = leases[m.lease].node
      /\ Accepted(m).replay = Commit(leases[m.lease].replay, m.sequence)
      /\ Accepted(m).queue = leases[m.lease].queue
      /\ Accepted(m).scheduled = leases[m.lease].scheduled
      /\ Accepted(m).request = leases[m.lease].request
  BY <1>1, AcceptedLease
<1>4. /\ mid \in [LeaseId -> Lease \cup {NoLease}]
      /\ mid[m.lease] = Accepted(m) /\ \A k \in LeaseId \ {m.lease} : mid[k] = leases[k]
      /\ \A k \in Live : mid[k] \in Lease
      /\ leases' = [mid EXCEPT ![t].queue = Append(@, m.payload), ![t].scheduled = TRUE]
  BY <1>3, LiveFacts DEF HandleData, Types
<1> HIDE DEF mid
<1>5. t \in LeaseId /\ mid[t] \in Lease /\ leases' = [mid EXCEPT ![t] = x]
  BY <1>2, <1>4, LiveFacts DEF Lease
<1>6. /\ x \in Lease /\ x.node = mid[t].node /\ x.replay = mid[t].replay
      /\ x.request = mid[t].request
      /\ x.queue = Append(mid[t].queue, m.payload) /\ x.scheduled = TRUE
  <2>1. mid[t].queue \in Seq(Payload)
    BY <1>5 DEF Lease
  <2>2. Append(mid[t].queue, m.payload) \in Seq(Payload)
    BY <1>1, <2>1
  <2> DEFINE q == Append(mid[t].queue, m.payload)
  <2>3. q \in Seq(Payload) /\ x = [mid[t] EXCEPT !.queue = q, !.scheduled = TRUE]
    BY <2>2
  <2> HIDE DEF q, x
  <2>4. /\ x \in Lease /\ x.node = mid[t].node /\ x.replay = mid[t].replay
        /\ x.request = mid[t].request
        /\ x.queue = q /\ x.scheduled = TRUE
    BY <1>5, <2>3 DEF Lease
  <2> QED
    BY <2>4 DEF q
<1> HIDE DEF x
<1>7. /\ leases' \in [LeaseId -> Lease \cup {NoLease}] /\ t \in LeaseId
      /\ leases'[t] = x /\ \A k \in LeaseId \ {t} : leases'[k] = mid[k]
  BY <1>4, <1>5, <1>6
<1>8. \A k \in Live :
        /\ mid[k].node = leases[k].node /\ mid[k].queue = leases[k].queue
        /\ mid[k].scheduled = leases[k].scheduled /\ mid[k].request = leases[k].request
        /\ k = m.lease => mid[k].replay = Commit(leases[k].replay, m.sequence)
        /\ k # m.lease => mid[k].replay = leases[k].replay
  BY <1>3, <1>4, LiveFacts
<1>9. \A k \in Live : leases'[k] \in Lease
  BY <1>4, <1>6, <1>7, LiveFacts
<1>10. \A k \in LeaseId \ Live : leases'[k] = NoLease
  BY <1>2, <1>3, <1>4, <1>7, LiveFacts
<1>11. Live' = Live
  BY <1>9, <1>10, LiveFacts, LeaseIsLease DEF Live
<1>12. \A k \in Live : leases'[k].node = leases[k].node /\ leases'[k].request = leases[k].request
  BY <1>6, <1>7, <1>8, LiveFacts
<1>13. \A k \in Live :
         /\ leases'[k].replay = mid[k].replay
         /\ k = t => leases'[k].queue = Append(mid[k].queue, m.payload) /\ leases'[k].scheduled = TRUE
         /\ k # t => leases'[k].queue = mid[k].queue /\ leases'[k].scheduled = mid[k].scheduled
  BY <1>6, <1>7, LiveFacts
<1>14. LeasesStay
  BY <1>9, <1>11, <1>12 DEF LeasesStay
<1>15. \A k \in Live :
         /\ k = m.lease => leases'[k].replay = Commit(leases[k].replay, m.sequence)
         /\ k # m.lease => leases'[k].replay = leases[k].replay
  BY <1>8, <1>13
<1>16. \A k \in Live :
         /\ k = t => leases'[k].queue = Append(leases[k].queue, m.payload) /\ leases'[k].scheduled = TRUE
         /\ k # t => leases'[k].queue = leases[k].queue /\ leases'[k].scheduled = leases[k].scheduled
  BY <1>8, <1>13
<1> HIDE DEF t
<1> QED
  BY <1>2, <1>3, <1>7, <1>14, <1>15, <1>16 DEF t

\* The fields of a lease that a step may leave alone.
SameReplay(k) == leases'[k].replay = leases[k].replay
SameQueue(k) == leases'[k].queue = leases[k].queue /\ leases'[k].scheduled = leases[k].scheduled

\* A listed lease with nothing queued loses its flag.
LEMMA SkipLeases ==
    ASSUME Types, SkipEmptyQueue
    PROVE  /\ LeasesStay /\ leases' \in [LeaseId -> Lease \cup {NoLease}]
           /\ \A k \in Live :
                /\ SameReplay(k)
                /\ k # Head(activeQueues) => SameQueue(k)
                /\ k = Head(activeQueues) => leases'[k].queue = <<>> /\ leases'[k].scheduled = FALSE
<1> DEFINE l == Head(activeQueues)
<1>1. l \in LeaseId
  BY EntriesTail DEF SkipEmptyQueue, Types
<1> HIDE DEF l
<1>2. CASE leases[l] = NoLease
  <2>1. leases' = leases /\ l \notin Live
    BY <1>2 DEF SkipEmptyQueue, l, Live
  <2> QED
    BY <2>1, LiveFacts DEF LeasesStay, SameReplay, SameQueue, Live, Types, l
<1>3. CASE leases[l] # NoLease
  <2> DEFINE x == [leases[l] EXCEPT !.scheduled = FALSE]
  <2>1. l \in Live /\ leases[l] \in Lease /\ leases[l].queue = <<>>
    BY <1>1, <1>3, LiveFacts DEF Live, SkipEmptyQueue, l
  <2>2. leases' = [leases EXCEPT ![l] = x]
    BY <1>3 DEF SkipEmptyQueue, l
  <2>3. /\ x \in Lease /\ x.node = leases[l].node /\ x.replay = leases[l].replay
        /\ x.queue = leases[l].queue /\ x.scheduled = FALSE /\ x.request = leases[l].request
    BY <2>1 DEF Lease
  <2> HIDE DEF x
  <2>4. /\ LeasesStay /\ leases' \in [LeaseId -> Lease \cup {NoLease}]
        /\ leases'[l] = x /\ \A k \in LeaseId \ {l} : leases'[k] = leases[k]
    BY <2>1, <2>2, <2>3, UpdateStays
  <2> QED
    BY <2>1, <2>3, <2>4, LiveFacts DEF SameReplay, SameQueue, l
<1> QED
  BY <1>2, <1>3

\* A listed lease with packets sends its first.
LEMMA FlushLeases ==
    ASSUME Types, FlushOne
    PROVE  /\ Head(activeQueues) \in Live
           /\ LeasesStay /\ leases' \in [LeaseId -> Lease \cup {NoLease}]
           /\ \A k \in Live :
                /\ SameReplay(k)
                /\ k # Head(activeQueues) => SameQueue(k)
                /\ k = Head(activeQueues) =>
                     /\ leases[k].queue # <<>> /\ leases'[k].queue = Tail(leases[k].queue)
                     /\ leases'[k].scheduled = (Len(leases[k].queue) > 1)
<1> DEFINE l == Head(activeQueues)
           q == leases[l].queue
           b == Len(q) > 1
           t == Tail(q)
           x == [leases[l] EXCEPT !.queue = t, !.scheduled = b]
<1>1. l \in LeaseId /\ activeQueues # <<>>
  BY EntriesTail DEF FlushOne, Types
<1>2. l \in Live /\ leases[l] \in Lease /\ q # <<>>
  BY <1>1, LiveFacts DEF Live, FlushOne
<1>3. leases' = [leases EXCEPT ![l] = x]
  BY <1>2 DEF FlushOne, Lease
<1>4. q \in Seq(Payload) /\ t \in Seq(Payload) /\ b \in BOOLEAN
  <2>1. q \in Seq(Payload)
    BY <1>2 DEF Lease
  <2> QED
    BY <1>2, <2>1
<1> HIDE DEF b, t
<1>5. /\ x \in Lease /\ x.node = leases[l].node /\ x.replay = leases[l].replay
      /\ x.queue = t /\ x.scheduled = b /\ x.request = leases[l].request
  BY <1>2, <1>4 DEF Lease
<1> HIDE DEF x, l
<1>6. /\ LeasesStay /\ leases' \in [LeaseId -> Lease \cup {NoLease}]
      /\ leases'[l] = x /\ \A k \in LeaseId \ {l} : leases'[k] = leases[k]
  BY <1>2, <1>3, <1>5, UpdateStays
<1>7. \A k \in Live : SameReplay(k) /\ (k # l => SameQueue(k))
  BY <1>2, <1>5, <1>6, LiveFacts DEF SameReplay, SameQueue
<1>8. leases'[l].queue = Tail(leases[l].queue) /\ leases'[l].scheduled = (Len(leases[l].queue) > 1)
  BY <1>5, <1>6 DEF t, b
<1> QED
  BY <1>2, <1>6, <1>7, <1>8 DEF l

\* Time makes leases idle and nothing else.
LEMMA TickLeases ==
    ASSUME Types, Tick
    PROVE  /\ LeasesStay /\ leases' \in [LeaseId -> Lease \cup {NoLease}]
           /\ \A k \in Live : SameReplay(k) /\ SameQueue(k)
<1>1. ASSUME NEW k \in Live
      PROVE  /\ leases'[k] \in Lease /\ leases'[k].node = leases[k].node
             /\ leases'[k].request = leases[k].request /\ SameReplay(k) /\ SameQueue(k)
  <2>1. k \in LeaseId /\ leases[k] \in Lease
    BY LiveFacts
  <2>2. CASE leases[k].idle < IdleTicks
    <3>1. leases'[k] = [leases[k] EXCEPT !.idle = @ + 1]
      BY <2>1, <2>2 DEF Tick
    <3>2. leases[k].idle + 1 \in 0 .. IdleTicks
      BY <2>1, <2>2, RelayAssumption DEF Lease
    <3> QED
      BY <2>1, <3>1, <3>2 DEF Lease, SameReplay, SameQueue
  <2>3. CASE ~(leases[k].idle < IdleTicks)
    BY <2>1, <2>3 DEF Tick, SameReplay, SameQueue
  <2> QED
    BY <2>2, <2>3
<1>2. \A k \in LeaseId \ Live : leases'[k] = NoLease
  BY LiveFacts DEF Tick
<1>3. DOMAIN leases' = LeaseId /\ leases' = [k \in LeaseId |-> leases'[k]]
  BY DEF Tick
<1>4. leases' \in [LeaseId -> Lease \cup {NoLease}]
  BY <1>1, <1>2, <1>3
<1>5. Live' = Live
  BY <1>1, <1>2, LiveFacts, LeaseIsLease DEF Live
<1> QED
  BY <1>1, <1>4, <1>5 DEF LeasesStay

\* The new lease takes the place of the node's previous one.
LEMMA GrantLeases ==
    ASSUME Types, NEW m \in net, NEW l \in LeaseId, GrantRegistration(m, l)
    PROVE  /\ l \notin Live /\ m \in Message /\ m.node \in Node /\ m.request \in RequestId
           /\ m.endpoint \in Endpoint
           /\ NewLease(m) \in Lease /\ leases'[l] = NewLease(m)
           /\ leases' \in [LeaseId -> Lease \cup {NoLease}]
           /\ Live' = (Live \ {nodes[m.node]}) \cup {l}
           /\ \A k \in Live' \ {l} : leases'[k] = leases[k]
<1>1. m \in Message /\ m.node \in Node /\ m.endpoint \in Endpoint /\ m.request \in RequestId
  BY FrameFields DEF GrantRegistration, Types
<1>2. NewLease(m) \in Lease
  <2>1. 0 \in 0 .. IdleTicks /\ <<>> \in Seq(Payload) /\ NewWindow \in Windows
    BY RelayAssumption, TracksNew
  <2> QED
    BY <1>1, <2>1 DEF NewLease, Lease
<1>3. l \notin Live /\ NewLease(m) # NoLease
  BY <1>2, LeaseIsLease DEF GrantRegistration, Live
<1>4. /\ leases' = [k \in LeaseId |-> IF k = l THEN NewLease(m)
                                      ELSE IF k = nodes[m.node] THEN NoLease ELSE leases[k]]
      /\ leases' \in [LeaseId -> Lease \cup {NoLease}]
  BY <1>2 DEF GrantRegistration, InsertLease, Types
<1>5. Live' = (Live \ {nodes[m.node]}) \cup {l}
  BY <1>3, <1>4 DEF Live
<1>6. \A k \in Live' \ {l} : leases'[k] = leases[k]
  BY <1>4, <1>5, LiveFacts
<1> QED
  BY <1>1, <1>2, <1>3, <1>4, <1>5, <1>6

\* cleanup drops the leases that ran out and the oldest answers.
LEMMA CleanupLeases ==
    ASSUME Types, NEW pending, Cleanup(pending)
    PROVE  /\ leases' \in [LeaseId -> Lease \cup {NoLease}]
           /\ Live' = Live \ Expired
           /\ \A k \in Live' : leases'[k] = leases[k]
           /\ registrations' \in Seq(Registration) /\ Len(registrations') <= Len(registrations)
           /\ ToSet(registrations') \subseteq ToSet(registrations)
<1>1. leases' = [l \in LeaseId |-> IF l \in Expired THEN NoLease ELSE leases[l]]
  BY DEF Cleanup
<1>2. leases' \in [LeaseId -> Lease \cup {NoLease}] /\ Live' = Live \ Expired
  BY <1>1 DEF Types, Live
<1>3. \A k \in Live' : leases'[k] = leases[k]
  BY <1>1, <1>2, LiveFacts
<1>4. PICK first \in 1 .. Len(registrations) + 1 :
          registrations' = SubSeq(registrations, first, Len(registrations))
  BY DEF Cleanup
<1>5. registrations \in Seq(Registration)
  BY DEF Types
<1> QED
  BY <1>2, <1>3, <1>4, <1>5, EntriesSuffix

\* RestartRelay
LEMMA RestartLeases ==
    ASSUME RestartRelay
    PROVE  Live' = {} /\ leases' \in [LeaseId -> Lease \cup {NoLease}]
BY DEF RestartRelay, Live

-------------------------------------------------------------------------------
\* Steps that keep every lease and the index keep them inverse.
LEMMA StayIndex ==
    ASSUME Types, LeaseIndex, LeasesStay, nodes' = nodes
    PROVE  LeaseIndex'
BY LiveFacts DEF LeaseIndex, LeasesStay

\* Steps that touch neither keep them inverse.
LEMMA SameIndex ==
    ASSUME LeaseIndex, UNCHANGED <<nodes, leases>>
    PROVE  LeaseIndex'
BY DEF LeaseIndex, Live

\* handle_registration replaces a node's lease in both at once.
LEMMA GrantIndex ==
    ASSUME Types, LeaseIndex, NEW m \in net, NEW l \in LeaseId, GrantRegistration(m, l)
    PROVE  LeaseIndex'
<1> DEFINE prev == nodes[m.node]
<1>1. /\ l \notin Live /\ m.node \in Node
      /\ leases'[l] = NewLease(m)
      /\ Live' = (Live \ {prev}) \cup {l}
      /\ \A k \in Live' \ {l} : leases'[k] = leases[k]
  BY GrantLeases
<1>2. leases'[l].node = m.node
  BY <1>1 DEF NewLease
<1>3. nodes'[m.node] = l /\ \A n \in Node \ {m.node} : nodes'[n] = nodes[n]
  BY <1>1 DEF GrantRegistration, Types
<1>4. NoId \notin LeaseId
  BY RelayAssumption
<1>5. ASSUME NEW n \in Node, nodes'[n] # NoId
      PROVE  nodes'[n] \in Live' /\ leases'[nodes'[n]].node = n
  <2>1. CASE n = m.node
    BY <1>1, <1>2, <1>3, <2>1
  <2>2. CASE n # m.node
    <3>1. nodes[n] \in Live /\ leases[nodes[n]].node = n /\ nodes'[n] = nodes[n]
      BY <1>3, <1>5, <2>2 DEF LeaseIndex
    <3>2. nodes[n] # prev
      BY <1>1, <2>2, <3>1, <1>5, <1>3 DEF LeaseIndex
    <3> QED
      BY <1>1, <3>1, <3>2
  <2> QED
    BY <2>1, <2>2
<1>6. ASSUME NEW k \in Live'
      PROVE  nodes'[leases'[k].node] = k
  <2>1. CASE k = l
    BY <1>2, <1>3, <2>1
  <2>2. CASE k # l
    <3>1. k \in Live /\ k # prev /\ leases'[k] = leases[k]
      BY <1>1, <2>2
    <3>2. nodes[leases[k].node] = k /\ leases[k].node \in Node
      BY <3>1, LiveFacts DEF LeaseIndex, Lease
    <3>3. leases[k].node # m.node
      BY <3>1, <3>2
    <3> QED
      BY <1>3, <3>1, <3>2, <3>3
  <2> QED
    BY <2>1, <2>2
<1> QED
  BY <1>5, <1>6 DEF LeaseIndex

\* cleanup removes a lease from both.
LEMMA CleanupIndex ==
    ASSUME Types, LeaseIndex, NEW pending, Cleanup(pending)
    PROVE  LeaseIndex'
<1>1. Live' = Live \ Expired /\ \A k \in Live' : leases'[k] = leases[k]
  BY CleanupLeases
<1>2. nodes' = [n \in Node |-> IF nodes[n] \in Expired THEN NoId ELSE nodes[n]]
  BY DEF Cleanup, NodesWithout
<1>3. \A k \in Live : leases[k].node \in Node
  BY LiveFacts DEF Lease
<1>4. \A n \in Node : nodes'[n] # NoId => nodes'[n] = nodes[n] /\ nodes[n] \notin Expired
  BY <1>2
<1>5. \A n \in Node : nodes'[n] # NoId => nodes'[n] \in Live' /\ leases'[nodes'[n]].node = n
  BY <1>1, <1>4 DEF LeaseIndex
<1>6. \A k \in Live' : nodes'[leases'[k].node] = k
  BY <1>1, <1>2, <1>3 DEF LeaseIndex
<1> QED
  BY <1>5, <1>6 DEF LeaseIndex

\* A relay that starts again has neither.
LEMMA RestartIndex ==
    ASSUME RestartRelay
    PROVE  LeaseIndex'
BY RestartLeases DEF RestartRelay, LeaseIndex

-------------------------------------------------------------------------------
\* The relay holds no more leases than max_leases.
Bounded == IsFiniteSet(Live) /\ Cardinality(Live) <= MaxLeases

\* A lease is added only below the limit, or in place of another.
LEMMA GrantBounded ==
    ASSUME Types, LeaseIndex, Bounded, NEW m \in net, NEW l \in LeaseId, GrantRegistration(m, l)
    PROVE  Bounded'
<1> DEFINE prev == nodes[m.node]
<1>1. /\ l \notin Live /\ m.node \in Node /\ Live' = (Live \ {prev}) \cup {l}
  BY GrantLeases
<1>2. Cardinality(Live) \in Nat /\ MaxLeases \in Nat /\ NoId \notin Live
  BY FS_CardinalityType, RelayAssumption, LiveFacts DEF Bounded
<1>3. prev = NoId => Cardinality(Live) < MaxLeases
  BY <1>2 DEF GrantRegistration, RegistrationRefused
<1>4. prev # NoId => prev \in Live
  BY <1>1 DEF LeaseIndex
<1> DEFINE rest == Live \ {prev}
<1>5. /\ IsFiniteSet(rest)
      /\ Cardinality(rest) = IF prev \in Live THEN Cardinality(Live) - 1 ELSE Cardinality(Live)
  BY FS_RemoveElement DEF Bounded
<1>6. IsFiniteSet(rest \cup {l}) /\ Cardinality(rest \cup {l}) = Cardinality(rest) + 1
  BY <1>1, <1>5, FS_AddElement
<1> QED
  BY <1>1, <1>2, <1>3, <1>4, <1>5, <1>6 DEF Bounded

\* A step without new leases keeps the limit.
LEMMA ShrinkBounded ==
    ASSUME Bounded, Live' \subseteq Live
    PROVE  Bounded'
<1>1. IsFiniteSet(Live') /\ Cardinality(Live') <= Cardinality(Live)
  BY FS_Subset DEF Bounded
<1>2. Cardinality(Live) \in Nat /\ Cardinality(Live') \in Nat /\ MaxLeases \in Nat
  BY <1>1, FS_CardinalityType, RelayAssumption DEF Bounded
<1> QED
  BY <1>1, <1>2 DEF Bounded

-------------------------------------------------------------------------------
\* No entry of a sequence comes twice.
Once(q) == \A i, j \in 1 .. Len(q) : q[i] = q[j] => i = j

\* An entry that is not there yet may be added.
LEMMA OnceAppend ==
    ASSUME NEW S, NEW q \in Seq(S), NEW e \in S, Once(q), e \notin ToSet(q)
    PROVE  Once(Append(q, e))
<1> DEFINE a == Append(q, e)
<1>1. /\ Len(q) \in Nat /\ Len(a) = Len(q) + 1
      /\ \A i \in 1 .. Len(q) : a[i] = q[i]
      /\ a[Len(q) + 1] = e
      /\ DOMAIN q = 1 .. Len(q)
  OBVIOUS
<1> HIDE DEF a
<1>2. \A i \in 1 .. Len(q) : q[i] # e
  BY <1>1 DEF ToSet
<1>3. ASSUME NEW i \in 1 .. Len(a), NEW j \in 1 .. Len(a), a[i] = a[j] PROVE i = j
  <2>1. (i \in 1 .. Len(q) \/ i = Len(q) + 1) /\ (j \in 1 .. Len(q) \/ j = Len(q) + 1)
    BY <1>1
  <2> QED
    BY <1>1, <1>2, <1>3, <2>1 DEF Once
<1> QED
  BY <1>3 DEF Once, a

\* The first entry is not among the rest.
LEMMA OnceTail ==
    ASSUME NEW S, NEW q \in Seq(S), q # <<>>, Once(q)
    PROVE  Once(Tail(q)) /\ Head(q) \notin ToSet(Tail(q))
<1> DEFINE t == Tail(q)
<1>1. /\ t \in Seq(S) /\ Len(t) = Len(q) - 1
      /\ \A i \in 1 .. Len(q) - 1 : t[i] = q[i + 1]
      /\ Len(q) \in Nat /\ Len(q) > 0 /\ Head(q) = q[1]
      /\ DOMAIN t = 1 .. Len(q) - 1
  OBVIOUS
<1> HIDE DEF t
<1>2. Once(t)
  <2> SUFFICES ASSUME NEW i \in 1 .. Len(t), NEW j \in 1 .. Len(t), t[i] = t[j] PROVE i = j
    BY DEF Once
  <2>1. i + 1 \in 1 .. Len(q) /\ j + 1 \in 1 .. Len(q) /\ q[i + 1] = q[j + 1]
    BY <1>1
  <2>2. i + 1 = j + 1
    BY <2>1 DEF Once
  <2> QED
    BY <1>1, <2>2
<1>3. ASSUME NEW i \in 1 .. Len(t), t[i] = Head(q) PROVE FALSE
  <2>1. i + 1 \in 1 .. Len(q) /\ 1 \in 1 .. Len(q) /\ q[i + 1] = q[1]
    BY <1>1, <1>3
  <2>2. i + 1 = 1
    BY <2>1 DEF Once
  <2> QED
    BY <1>1, <2>2
<1>4. Head(q) \notin ToSet(t)
  BY <1>1, <1>3 DEF ToSet
<1> QED
  BY <1>2, <1>4 DEF t

\* What the schedule of the queues rests on: the list names no lease twice,
\* not even one that is gone.
QueueInv ==
    /\ Once(activeQueues)
    /\ \A l \in Live :
         /\ leases[l].queue # <<>> => leases[l].scheduled
         /\ leases[l].scheduled <=> l \in ToSet(activeQueues)

\* A list without repetition holds a lease at one place at most.
LEMMA QueueInvImplies ==
    ASSUME Types, QueueInv
    PROVE  QueuesScheduled
<1> SUFFICES ASSUME NEW l \in Live
             PROVE  Cardinality({i \in DOMAIN activeQueues : activeQueues[i] = l}) <= 1
  BY DEF QueueInv, QueuesScheduled
<1> DEFINE at == {i \in DOMAIN activeQueues : activeQueues[i] = l}
<1>1. DOMAIN activeQueues = 1 .. Len(activeQueues)
  BY DEF Types
<1>2. at = {} \/ \E i \in at : at = {i}
  BY <1>1 DEF QueueInv, Once
<1> HIDE DEF at
<1>3. at = {} => Cardinality(at) <= 1
  BY FS_EmptySet
<1>4. (\E i \in at : at = {i}) => Cardinality(at) <= 1
  <2>1. ASSUME NEW i \in at, at = {i} PROVE Cardinality(at) = 1
    BY <2>1, FS_Singleton
  <2> QED
    BY <2>1
<1> QED
  BY <1>2, <1>3, <1>4 DEF at

\* Leases may go while they are listed, if no queue changes.
LEMMA KeepsQueues ==
    ASSUME QueueInv, activeQueues' = activeQueues, Live' \subseteq Live,
           \A k \in Live' : SameQueue(k)
    PROVE  QueueInv'
BY DEF QueueInv, SameQueue

\* A relay that starts again has nothing listed.
LEMMA RestartQueues ==
    ASSUME RestartRelay
    PROVE  QueueInv'
<1>1. Live' = {} /\ activeQueues' = <<>>
  BY RestartLeases DEF RestartRelay
<1> QED
  BY <1>1 DEF QueueInv, Once

\* A new lease is not listed: its id is new.
LEMMA GrantQueues ==
    ASSUME Types, QueueInv, NEW m \in net, NEW l \in LeaseId, UnusedLease(l), GrantRegistration(m, l)
    PROVE  QueueInv'
<1>1. /\ leases'[l] = NewLease(m)
      /\ Live' = (Live \ {nodes[m.node]}) \cup {l}
      /\ \A k \in Live' \ {l} : leases'[k] = leases[k]
      /\ activeQueues' = activeQueues /\ l \notin ToSet(activeQueues)
  BY GrantLeases DEF GrantRegistration, UnusedLease
<1>2. leases'[l].queue = <<>> /\ leases'[l].scheduled = FALSE
  BY <1>1 DEF NewLease
<1> QED
  BY <1>1, <1>2 DEF QueueInv

\* handle_data lists the destination unless its flag is set.
LEMMA DataQueues ==
    ASSUME Types, LeaseIndex, QueueInv, NEW m \in net, HandleData(m)
    PROVE  QueueInv'
<1> DEFINE t == nodes[m.to]
<1>1. /\ t \in Live /\ LeasesStay
      /\ \A k \in Live :
           /\ k = t => leases'[k].scheduled = TRUE
           /\ k # t => leases'[k].queue = leases[k].queue /\ leases'[k].scheduled = leases[k].scheduled
  BY HandleDataLeases
<1>2. activeQueues' = IF leases[t].scheduled THEN activeQueues ELSE Append(activeQueues, t)
  BY DEF HandleData
<1>3. activeQueues \in Seq(LeaseId) /\ t \in LeaseId /\ Live' = Live
  BY <1>1, LiveFacts DEF Types, LeasesStay
<1>4. CASE leases[t].scheduled
  BY <1>1, <1>2, <1>3, <1>4 DEF QueueInv
<1>5. CASE ~leases[t].scheduled
  <2>1. t \notin ToSet(activeQueues) /\ activeQueues' = Append(activeQueues, t)
    BY <1>1, <1>2, <1>5 DEF QueueInv
  <2>2. Once(activeQueues') /\ ToSet(activeQueues') = ToSet(activeQueues) \cup {t}
    BY <1>3, <2>1, OnceAppend, EntriesAppend DEF QueueInv
  <2> QED
    BY <1>1, <1>3, <2>2 DEF QueueInv
<1> QED
  BY <1>4, <1>5

\* flush_queues takes an empty queue off the list and clears its flag.
LEMMA SkipQueues ==
    ASSUME Types, QueueInv, SkipEmptyQueue
    PROVE  QueueInv'
<1> DEFINE l == Head(activeQueues)
<1>1. /\ LeasesStay
      /\ \A k \in Live :
           /\ k # l => SameQueue(k)
           /\ k = l => leases'[k].queue = <<>> /\ leases'[k].scheduled = FALSE
  BY SkipLeases
<1>2. activeQueues \in Seq(LeaseId) /\ activeQueues # <<>> /\ activeQueues' = Tail(activeQueues)
  BY DEF Types, SkipEmptyQueue
<1>3. /\ Once(activeQueues') /\ l \notin ToSet(activeQueues')
      /\ ToSet(activeQueues) = {l} \cup ToSet(activeQueues')
  BY <1>2, OnceTail, EntriesTail DEF QueueInv
<1> HIDE DEF l
<1> QED
  BY <1>1, <1>3 DEF QueueInv, SameQueue, LeasesStay

\* flush_queues puts a queue back exactly if it has more to send.
LEMMA FlushQueues ==
    ASSUME Types, QueueInv, FlushOne
    PROVE  QueueInv'
<1> DEFINE l == Head(activeQueues)
           more == Len(leases[l].queue) > 1
<1>1. /\ l \in Live /\ LeasesStay
      /\ \A k \in Live :
           /\ k # l => SameQueue(k)
           /\ k = l => /\ leases[k].queue # <<>> /\ leases'[k].queue = Tail(leases[k].queue)
                       /\ leases'[k].scheduled = (Len(leases[k].queue) > 1)
  BY FlushLeases
<1>2. /\ activeQueues \in Seq(LeaseId) /\ activeQueues # <<>>
      /\ activeQueues' = IF more THEN Append(Tail(activeQueues), l) ELSE Tail(activeQueues)
  BY DEF Types, FlushOne, Rescheduled
<1>3. /\ Once(Tail(activeQueues)) /\ l \notin ToSet(Tail(activeQueues))
      /\ Tail(activeQueues) \in Seq(LeaseId) /\ l \in LeaseId
      /\ ToSet(activeQueues) = {l} \cup ToSet(Tail(activeQueues))
  BY <1>2, OnceTail, EntriesTail DEF QueueInv
<1>4. leases[l].queue \in Seq(Payload) /\ Live' = Live
  BY <1>1, LiveFacts DEF Lease, LeasesStay
<1>5. leases'[l].queue # <<>> => more
  <2> DEFINE q == leases[l].queue
  <2>1. q \in Seq(Payload) /\ q # <<>> /\ leases'[l].queue = Tail(q)
    BY <1>1, <1>4
  <2> HIDE DEF q
  <2>2. Tail(q) # <<>> => Len(q) > 1
    BY <2>1
  <2> QED
    BY <2>1, <2>2 DEF q
<1>6. leases'[l].scheduled = more
  BY <1>1
<1> HIDE DEF l, more
<1>7. CASE more
  <2>1. Once(activeQueues') /\ ToSet(activeQueues') = ToSet(activeQueues)
    <3> DEFINE t == Tail(activeQueues)
    <3>1. activeQueues' = Append(t, l) /\ t \in Seq(LeaseId) /\ Once(t) /\ l \notin ToSet(t)
      BY <1>2, <1>3, <1>7
    <3>2. ToSet(activeQueues) = {l} \cup ToSet(t)
      BY <1>3
    <3> HIDE DEF t
    <3>3. Once(Append(t, l)) /\ ToSet(Append(t, l)) = ToSet(t) \cup {l}
      BY <1>3, <3>1, OnceAppend, EntriesAppend
    <3> QED
      BY <3>1, <3>2, <3>3
  <2> QED
    BY <1>1, <1>3, <1>4, <1>6, <1>7, <2>1 DEF QueueInv, SameQueue
<1>8. CASE ~more
  BY <1>1, <1>2, <1>3, <1>4, <1>5, <1>6, <1>8 DEF QueueInv, SameQueue
<1> QED
  BY <1>7, <1>8

-------------------------------------------------------------------------------
\* A window will never take sequence s again.
Seen(w, s) ==
    /\ w.highest # NoSequence
    /\ s <= w.highest
    /\ w.highest - s >= WindowBits \/ w.highest - s \in w.bits

\* precheck turns away what a window has seen.
LEMMA SeenRejected ==
    ASSUME NEW w \in Windows, NEW s \in Nat, Seen(w, s)
    PROVE  ~Precheck(w, s)
BY WindowAssumption DEF Seen, Precheck, Windows

\* commit makes its sequence seen and forgets nothing.
LEMMA SeenCommitted ==
    ASSUME NEW w \in Windows, NEW s \in Nat, Precheck(w, s)
    PROVE  /\ Seen(Commit(w, s), s)
           /\ \A t \in Nat : Seen(w, t) => Seen(Commit(w, s), t)
           /\ Commit(w, s).highest \in {w.highest, s}
<1>1. CASE w.highest = NoSequence
  <2>1. Commit(w, s) = [highest |-> s, bits |-> {0}]
    BY <1>1 DEF Commit
  <2> QED
    BY <1>1, <2>1 DEF Seen, NoSequence
<1>2. CASE w.highest # NoSequence /\ s > w.highest
  <2> DEFINE c == Commit(w, s)
             d == s - w.highest
  <2>1. w.highest \in Nat /\ d \in Nat /\ d > 0
    BY <1>2 DEF Windows
  <2>2. c.highest = s /\ c.bits = Shift(w.bits, d) \cup {0}
    BY <1>2 DEF Commit
  <2> HIDE DEF c
  <2>3. Seen(c, s)
    BY <2>2 DEF Seen, NoSequence
  <2>4. ASSUME NEW t \in Nat, Seen(w, t) PROVE Seen(c, t)
    <3>1. t <= w.highest /\ t <= s /\ s - t = (w.highest - t) + d
      BY <2>1, <2>4, <1>2 DEF Seen
    <3>2. CASE s - t >= WindowBits
      BY <2>2, <3>1, <3>2 DEF Seen, NoSequence
    <3>3. CASE s - t < WindowBits
      <4>1. w.highest - t \in w.bits
        BY <2>1, <2>4, <3>1, <3>3, WindowAssumption DEF Seen
      <4>2. s - t \in 0 .. WindowBits - 1 /\ s - t >= d /\ (s - t) - d = w.highest - t
        BY <2>1, <3>1, <3>3, WindowAssumption
      <4>3. s - t \in Shift(w.bits, d)
        BY <4>1, <4>2 DEF Shift
      <4> QED
        BY <2>2, <3>1, <4>3 DEF Seen, NoSequence
    <3> QED
      BY <3>1, <3>2, <3>3, <2>1, WindowAssumption
  <2> QED
    BY <2>2, <2>3, <2>4 DEF c
<1>3. CASE w.highest # NoSequence /\ s <= w.highest
  <2> DEFINE c == Commit(w, s)
  <2>1. c.highest = w.highest /\ c.bits = w.bits \cup {w.highest - s}
    BY <1>3 DEF Commit, Windows
  <2> HIDE DEF c
  <2> QED
    BY <1>3, <2>1 DEF Seen, c
<1> QED
  BY <1>1, <1>2, <1>3 DEF Windows

\* A payload is wrapped once, so whatever carries it is one frame and its
\* copies; once it was queued, its lease is gone or has seen the frame.
Carries(m, p) == m.type = "Data" /\ m.payload = p

PayloadInv ==
    /\ \A m \in net \cup held : m.type = "Data" => m.payload <= frames
    /\ \A m, k \in net \cup held : Carries(m, k.payload) /\ k.type = "Data" => m = k
    /\ \A p \in Payload : forwarded[p] <= 1 /\ (forwarded[p] # 0 => p <= frames)
    /\ \A m \in net \cup held :
         m.type = "Data" /\ forwarded[m.payload] # 0 /\ m.lease \in Live =>
             Seen(leases[m.lease].replay, m.sequence)

\* No frame with a payload is new.
NoNewData == \A m \in net' \cup held' : m.type = "Data" => m \in net \cup held

\* Steps that send no payload and let the windows only grow.
LEMMA KeepsPayload ==
    ASSUME Types, PayloadInv, NoNewData, forwarded' = forwarded, frames' = frames, Live' \subseteq Live,
           \A k \in Live' : \A s \in Nat : Seen(leases[k].replay, s) => Seen(leases'[k].replay, s)
    PROVE  PayloadInv'
<1>1. \A m \in net \cup held : m.type = "Data" => m.sequence \in Nat
  BY FrameFields DEF Types
<1>2. (\A m \in net \cup held : m.type = "Data" => m.payload <= frames)'
  BY DEF PayloadInv, NoNewData
<1>3. (\A m, k \in net \cup held : Carries(m, k.payload) /\ k.type = "Data" => m = k)'
  BY DEF PayloadInv, NoNewData, Carries
<1>4. (\A p \in Payload : forwarded[p] <= 1 /\ (forwarded[p] # 0 => p <= frames))'
  BY DEF PayloadInv
<1>5. ASSUME NEW m \in net' \cup held', m.type = "Data", forwarded'[m.payload] # 0, m.lease \in Live'
      PROVE  Seen(leases'[m.lease].replay, m.sequence)
  <2>1. m \in net \cup held /\ m.lease \in Live /\ m.sequence \in Nat
    BY <1>1, <1>5 DEF NoNewData
  <2>2. Seen(leases[m.lease].replay, m.sequence)
    BY <1>5, <2>1 DEF PayloadInv
  <2> QED
    BY <1>5, <2>1, <2>2
<1> QED
  BY <1>2, <1>3, <1>4, <1>5 DEF PayloadInv

\* No frame under way is on a new lease.
LEMMA GrantPayload ==
    ASSUME Types, PayloadInv, NEW m \in net, NEW l \in LeaseId, UnusedLease(l), GrantRegistration(m, l),
           held' = held, frames' = frames
    PROVE  PayloadInv'
<1>1. /\ Live' = (Live \ {nodes[m.node]}) \cup {l}
      /\ \A k \in Live' \ {l} : leases'[k] = leases[k]
      /\ forwarded' = forwarded
  BY GrantLeases DEF GrantRegistration
<1>2. NoNewData
  BY DEF NoNewData, GrantRegistration, Response
<1>3. (\A k \in net \cup held : k.type = "Data" => k.payload <= frames)'
  BY <1>2 DEF PayloadInv, NoNewData
<1>4. (\A j, k \in net \cup held : Carries(j, k.payload) /\ k.type = "Data" => j = k)'
  BY <1>2 DEF PayloadInv, NoNewData, Carries
<1>5. (\A p \in Payload : forwarded[p] <= 1 /\ (forwarded[p] # 0 => p <= frames))'
  BY <1>1 DEF PayloadInv
<1>6. ASSUME NEW k \in net' \cup held', k.type = "Data", forwarded'[k.payload] # 0, k.lease \in Live'
      PROVE  Seen(leases'[k.lease].replay, k.sequence)
  <2>1. k \in net \cup held /\ k.lease # l
    BY <1>2, <1>6 DEF NoNewData, UnusedLease
  <2>2. k.lease \in Live /\ leases'[k.lease] = leases[k.lease]
    BY <1>1, <1>6, <2>1
  <2> QED
    BY <1>1, <1>6, <2>1, <2>2 DEF PayloadInv
<1> QED
  BY <1>3, <1>4, <1>5, <1>6 DEF PayloadInv

\* A payload that is queued had not been: its lease would have seen the frame.
LEMMA DataPayload ==
    ASSUME Types, LeaseIndex, PayloadInv, NEW m \in net, HandleData(m), held' = held, frames' = frames
    PROVE  PayloadInv'
<1>1. /\ m.lease \in Live /\ m.sequence \in Nat /\ LeasesStay
      /\ \A k \in Live :
           /\ k = m.lease => leases'[k].replay = Commit(leases[k].replay, m.sequence)
           /\ k # m.lease => leases'[k].replay = leases[k].replay
  BY HandleDataLeases
<1>2. /\ m.type = "Data" /\ m.payload \in Payload /\ net' = net \ {m} /\ forwarded \in [Payload -> Nat]
      /\ forwarded' = [forwarded EXCEPT ![m.payload] = forwarded[m.payload] + 1]
      /\ Precheck(leases[m.lease].replay, m.sequence)
  BY FrameFields DEF HandleData, Admitted, Types
<1>3. leases[m.lease].replay \in Windows
  BY <1>1, LiveFacts DEF Lease
<1>4. forwarded[m.payload] = 0
  BY <1>1, <1>2, <1>3, SeenRejected DEF PayloadInv
<1>5. forwarded'[m.payload] = 1 /\ \A p \in Payload \ {m.payload} : forwarded'[p] = forwarded[p]
  BY <1>2, <1>4
<1>6. m.payload <= frames
  BY <1>2 DEF PayloadInv
<1>7. \A p \in Payload : forwarded'[p] <= 1 /\ (forwarded'[p] # 0 => p <= frames')
  BY <1>5, <1>6 DEF PayloadInv
<1>8. ASSUME NEW k \in net' \cup held', k.type = "Data", forwarded'[k.payload] # 0, k.lease \in Live'
      PROVE  Seen(leases'[k.lease].replay, k.sequence)
  <2>1. k \in net \cup held /\ k.lease \in Live /\ k.sequence \in Nat /\ k.payload \in Payload
    BY <1>1, <1>2, <1>8, FrameFields DEF Types, LeasesStay
  <2>2. CASE k.payload = m.payload
    <3>1. k = m
      BY <1>2, <1>8, <2>1, <2>2 DEF PayloadInv, Carries
    <3> QED
      BY <1>1, <1>2, <1>3, <3>1, SeenCommitted
  <2>3. CASE k.payload # m.payload
    <3>1. Seen(leases[k.lease].replay, k.sequence)
      BY <1>5, <1>8, <2>1, <2>3 DEF PayloadInv
    <3>2. CASE k.lease = m.lease
      BY <1>1, <1>2, <1>3, <2>1, <3>1, <3>2, SeenCommitted
    <3>3. CASE k.lease # m.lease
      BY <1>1, <2>1, <3>1, <3>3
    <3> QED
      BY <3>2, <3>3
  <2> QED
    BY <2>2, <2>3
<1>9. (\A k \in net \cup held : k.type = "Data" => k.payload <= frames)'
  BY <1>2 DEF PayloadInv
<1>10. (\A j, k \in net \cup held : Carries(j, k.payload) /\ k.type = "Data" => j = k)'
  BY <1>2 DEF PayloadInv, Carries
<1> QED
  BY <1>7, <1>8, <1>9, <1>10 DEF PayloadInv

\* wrap takes a payload nobody has sent.
LEMMA WrapPayload ==
    ASSUME Types, PayloadInv, NEW n \in Node, NEW to \in Node, Wrap(n, to)
    PROVE  PayloadInv'
<1> DEFINE f == Frame(n, to, frames + 1)
<1>1. /\ frames' = frames + 1 /\ frames \in Nat /\ frames + 1 \in Payload /\ net' = net \cup {f}
      /\ held' = held /\ forwarded' = forwarded /\ leases' = leases /\ Live' = Live
      /\ f.type = "Data" /\ f.payload = frames + 1
  BY RelayAssumption DEF Wrap, Types, Payload, Frame, serverVars, stateVars, Live
<1> HIDE DEF f
<1>2. \A m \in net \cup held : m.type = "Data" => m.payload \in Nat /\ m.payload <= frames
  BY FrameFields DEF PayloadInv, Types, Payload
<1>3. forwarded[frames + 1] = 0 /\ \A p \in Payload : p \in Nat
  BY <1>1 DEF PayloadInv, Payload
<1>4. (\A m \in net \cup held : m.type = "Data" => m.payload <= frames)'
  BY <1>1, <1>2
<1>5. (\A m, k \in net \cup held : Carries(m, k.payload) /\ k.type = "Data" => m = k)'
  BY <1>1, <1>2 DEF PayloadInv, Carries
<1>6. (\A p \in Payload : forwarded[p] <= 1 /\ (forwarded[p] # 0 => p <= frames))'
  BY <1>1, <1>3 DEF PayloadInv
<1>7. (\A m \in net \cup held :
         m.type = "Data" /\ forwarded[m.payload] # 0 /\ m.lease \in Live =>
             Seen(leases[m.lease].replay, m.sequence))'
  BY <1>1, <1>3 DEF PayloadInv
<1> QED
  BY <1>4, <1>5, <1>6, <1>7 DEF PayloadInv

-------------------------------------------------------------------------------
\* Frames that carry a sequence.
Framed(m) == m.type \in {"Data", "Keepalive"}

\* The relay granted lease l to request q, and an answer may still say so.
Paired(q, l) ==
    \/ \E r \in ToSet(registrations) : r.request = q /\ r.lease = l
    \/ \E m \in net \cup held : m.type = "RegisterResponse" /\ m.request = q /\ m.lease = l

\* Nothing was ever sent on lease l.
Untouched(l) ==
    /\ \A m \in net \cup held : Framed(m) => m.lease # l
    /\ l \in Live => leases[l].replay.highest = NoSequence

\* No two agents hold one lease, or wait with one request; a lease was granted
\* to one request.
Holders == \A n, k \in Node : client[n].lease # NoId /\ client[n].lease = client[k].lease => n = k
Askers == \A n, k \in Node : client[n].request # NoId /\ client[n].request = client[k].request => n = k
OneRequest == \A q, r \in RequestId : \A l \in LeaseId : Paired(q, l) /\ Paired(r, l) => q = r

\* An answer an agent waits for offers a lease nobody has used.
OffersUnused ==
    \A n \in Node : \A l \in LeaseId :
        client[n].request # NoId /\ Paired(client[n].request, l) =>
            Untouched(l) /\ \A k \in Node : client[k].lease # l

SequenceInv == SequenceAhead /\ Holders /\ Askers /\ OneRequest /\ OffersUnused

\* The types the argument about sequences uses.
LEMMA SequenceTypes ==
    ASSUME Types
    PROVE  /\ \A m \in net \cup held : Framed(m) => m.lease \in LeaseId /\ m.sequence \in Nat
           /\ \A l \in Live : leases[l].replay.highest \in Int
           /\ \A n \in Node : client[n] \in Client /\ client[n].next \in Nat
           /\ \A n \in Node : client[n].lease \in LeaseId \cup {NoId}
           /\ \A n \in Node : client[n].request \in RequestId \cup {NoId}
           /\ NoId \notin LeaseId /\ NoId \notin RequestId
<1>1. \A m \in net \cup held : Framed(m) => m.lease \in LeaseId /\ m.sequence \in Nat
  BY FrameFields DEF Types, Framed
<1>2. \A l \in Live : leases[l].replay.highest \in Int
  BY LiveFacts DEF Lease, Windows, NoSequence
<1>3. MaxSequence \in Nat
  BY RelayClientAssumption
<1>4. \A n \in Node : client[n] \in Client
  BY DEF Types
<1> QED
  BY <1>1, <1>2, <1>3, <1>4, RelayAssumption DEF Client

\* The frames under way were there, or are sent by who holds the lease.
FramesFollow ==
    \A m \in net' \cup held' : Framed(m) =>
        \/ m \in net \cup held
        \/ /\ m.lease \in LeaseId
           /\ \E n \in Node : /\ client[n].lease = m.lease /\ client'[n].lease = m.lease
                              /\ m.sequence < client'[n].next

\* The windows change by frames under way only.
WindowsFollow ==
    \A l \in Live' :
        /\ l \in Live
        /\ \/ leases'[l].replay.highest = leases[l].replay.highest
           \/ \E m \in net : Framed(m) /\ m.lease = l /\ leases'[l].replay.highest = m.sequence

\* The relay grants no lease.
NoNewPair == \A q \in RequestId : \A l \in LeaseId : Paired(q, l)' => Paired(q, l)

\* An agent keeps or loses its lease; a request it begins is new.
ClientsFollow ==
    \A n \in Node :
        /\ client'[n].lease \in {NoId, client[n].lease}
        /\ client'[n].lease # NoId => client[n].next <= client'[n].next
        /\ \/ client'[n].request \in {NoId, client[n].request}
           \/ /\ client'[n].request \in RequestId /\ UnusedRequest(client'[n].request)
              /\ \A k \in Node \ {n} : client'[k] = client[k]

\* No lease was granted to a request that is new.
LEMMA UnusedUnpaired ==
    ASSUME NEW q, UnusedRequest(q), NEW l
    PROVE  ~Paired(q, l)
BY DEF UnusedRequest, Paired

\* Steps in which an agent gets no new lease and the relay grants none.
LEMMA KeepsSequence ==
    ASSUME Types, Types', SequenceInv, FramesFollow, WindowsFollow, NoNewPair, ClientsFollow
    PROVE  SequenceInv'
<1>1. Holders'
  BY DEF SequenceInv, Holders, ClientsFollow
<1>2. Askers'
  <2> SUFFICES ASSUME NEW n \in Node, NEW k \in Node, client'[n].request # NoId,
                      client'[n].request = client'[k].request, n # k
               PROVE  FALSE
    BY DEF Askers
  <2>1. CASE client'[n].request = client[n].request /\ client'[k].request = client[k].request
    BY <2>1 DEF SequenceInv, Askers
  <2>2. CASE client'[n].request # client[n].request
    BY <2>2 DEF ClientsFollow, UnusedRequest
  <2>3. CASE client'[k].request # client[k].request
    BY <2>3 DEF ClientsFollow, UnusedRequest
  <2> QED
    BY <2>1, <2>2, <2>3
<1>3. OneRequest'
  BY DEF SequenceInv, OneRequest, NoNewPair
<1>4. OffersUnused'
  <2> SUFFICES ASSUME NEW n \in Node, NEW l \in LeaseId, client'[n].request # NoId,
                      Paired(client[n].request, l)'
               PROVE  Untouched(l)' /\ \A k \in Node : client'[k].lease # l
    BY DEF OffersUnused
  <2>1. client'[n].request \in RequestId
    <3>1. client'[n] \in Client
      BY DEF Types
    <3> QED
      BY <3>1 DEF Client
  <2>2. Paired(client'[n].request, l)
    BY <2>1 DEF NoNewPair, Paired
  <2>3. client'[n].request = client[n].request
    BY <2>2, UnusedUnpaired DEF ClientsFollow
  <2>4. Untouched(l) /\ \A k \in Node : client[k].lease # l
    BY <2>2, <2>3 DEF SequenceInv, OffersUnused
  <2>5. \A k \in Node : client'[k].lease # l
    BY <2>4, SequenceTypes DEF ClientsFollow
  <2>6. \A m \in net' \cup held' : Framed(m) => m.lease # l
    BY <2>4 DEF FramesFollow, Untouched
  <2>7. l \in Live' => leases'[l].replay.highest = NoSequence
    BY <2>4 DEF WindowsFollow, Untouched
  <2> QED
    BY <2>5, <2>6, <2>7 DEF Untouched
<1>5. SequenceAhead'
  <2> SUFFICES ASSUME NEW n \in Node, client'[n].lease # NoId
               PROVE  /\ \A m \in net' \cup held' :
                           m.type \in {"Data", "Keepalive"} /\ m.lease = client'[n].lease =>
                               m.sequence < client'[n].next
                      /\ client'[n].lease \in Live' =>
                           leases'[client'[n].lease].replay.highest < client'[n].next
    BY DEF SequenceAhead
  <2> DEFINE l == client[n].lease
  <2>1. client'[n].lease = l /\ l # NoId /\ client[n].next <= client'[n].next
    BY DEF ClientsFollow
  <2>2. client[n].next \in Nat /\ client'[n].next \in Nat
    BY SequenceTypes DEF Types, Client
  <2>3. /\ \A m \in net \cup held : Framed(m) /\ m.lease = l => m.sequence < client[n].next
        /\ l \in Live => leases[l].replay.highest < client[n].next
    BY <2>1 DEF SequenceInv, SequenceAhead, Framed
  <2>4. ASSUME NEW m \in net' \cup held', Framed(m), m.lease = l
        PROVE  m.sequence < client'[n].next
    <3>1. CASE m \in net \cup held
      BY <2>1, <2>2, <2>3, <2>4, <3>1, SequenceTypes
    <3>2. CASE m \notin net \cup held
      <4>1. PICK k \in Node : client[k].lease = m.lease /\ m.sequence < client'[k].next
        BY <2>4, <3>2 DEF FramesFollow
      <4>2. k = n
        BY <2>1, <2>4, <4>1 DEF SequenceInv, Holders
      <4> QED
        BY <4>1, <4>2
    <3> QED
      BY <3>1, <3>2
  <2>5. ASSUME l \in Live'
        PROVE  leases'[l].replay.highest < client'[n].next
    <3>1. l \in Live /\ leases[l].replay.highest \in Int
      BY <2>5, SequenceTypes DEF WindowsFollow
    <3>2. CASE leases'[l].replay.highest = leases[l].replay.highest
      BY <2>1, <2>2, <2>3, <3>1, <3>2
    <3>3. CASE leases'[l].replay.highest # leases[l].replay.highest
      <4>1. PICK m \in net : Framed(m) /\ m.lease = l /\ leases'[l].replay.highest = m.sequence
        BY <2>5, <3>3 DEF WindowsFollow
      <4> QED
        BY <2>1, <2>2, <2>3, <4>1, SequenceTypes
    <3> QED
      BY <3>2, <3>3
  <2> QED
    BY <2>1, <2>4, <2>5 DEF Framed
<1> QED
  BY <1>1, <1>2, <1>3, <1>4, <1>5 DEF SequenceInv

\* cache_registration keeps what it had, but for the oldest, and the new entry.
LEMMA CacheEntries ==
    ASSUME Types, NEW e \in Registration
    PROVE  /\ CacheRegistration(e) \in Seq(Registration)
           /\ ToSet(CacheRegistration(e)) \subseteq ToSet(registrations) \cup {e}
           /\ e \in ToSet(CacheRegistration(e))
           /\ \A r \in ToSet(registrations) :
                \/ r \in ToSet(CacheRegistration(e))
                \/ Len(registrations) >= MaxCached /\ r = Head(registrations)
           /\ Len(CacheRegistration(e)) <= MaxCached
<1> DEFINE q == IF Len(registrations) >= MaxCached THEN Tail(registrations) ELSE registrations
<1>1. /\ registrations \in Seq(Registration) /\ Len(registrations) \in Nat
      /\ MaxCached \in Nat \ {0} /\ Len(registrations) <= MaxCached
  BY RelayAssumption DEF Types
<1>2. /\ q \in Seq(Registration) /\ ToSet(q) \subseteq ToSet(registrations) /\ Len(q) + 1 <= MaxCached
      /\ \A r \in ToSet(registrations) :
           r \in ToSet(q) \/ (Len(registrations) >= MaxCached /\ r = Head(registrations))
  <2>1. CASE Len(registrations) >= MaxCached
    <3>1. registrations # <<>>
      BY <1>1, <2>1
    <3> QED
      BY <1>1, <2>1, <3>1, EntriesTail
  <2>2. CASE ~(Len(registrations) >= MaxCached)
    BY <1>1, <2>2
  <2> QED
    BY <2>1, <2>2
<1> HIDE DEF q
<1>3. /\ Append(q, e) \in Seq(Registration) /\ Len(Append(q, e)) = Len(q) + 1
      /\ ToSet(Append(q, e)) = ToSet(q) \cup {e}
  BY <1>2, EntriesAppend
<1>4. CacheRegistration(e) = Append(q, e)
  BY DEF CacheRegistration, q
<1> QED
  BY <1>2, <1>3, <1>4

\* The entry a grant leaves.
Entry(m, l) == [node |-> m.node, request |-> m.request, endpoint |-> m.endpoint, lease |-> l]

\* What the relay remembers and sends for a new lease.
LEMMA GrantAnswers ==
    ASSUME Types, NEW m \in net, NEW l \in LeaseId, GrantRegistration(m, l)
    PROVE  /\ Entry(m, l) \in Registration
           /\ registrations' = CacheRegistration(Entry(m, l))
           /\ net' = (net \ {m}) \cup {Response(Entry(m, l))}
           /\ Response(Entry(m, l)) \in Message
<1>1. m.node \in Node /\ m.request \in RequestId /\ m.endpoint \in Endpoint
  BY GrantLeases
<1>2. Entry(m, l) \in Registration
  BY <1>1 DEF Entry, Registration
<1>3. Response(Entry(m, l)) \in Message
  BY <1>1 DEF Response, Entry, Message
<1> QED
  BY <1>2, <1>3 DEF GrantRegistration, Entry

\* Nothing was sent on a lease that is new.
LEMMA GrantSequence ==
    ASSUME Types, SequenceInv, NEW m \in net, NEW l \in LeaseId, UnusedLease(l),
           GrantRegistration(m, l), held' = held, client' = client
    PROVE  SequenceInv'
<1> DEFINE e == Entry(m, l)
<1>1. /\ m.request \in RequestId /\ leases'[l] = NewLease(m)
      /\ Live' = (Live \ {nodes[m.node]}) \cup {l}
      /\ \A k \in Live' \ {l} : leases'[k] = leases[k]
  BY GrantLeases
<1>2. /\ e.request = m.request /\ e.lease = l
      /\ ToSet(registrations') \subseteq ToSet(registrations) \cup {e}
      /\ net' = (net \ {m}) \cup {Response(e)}
  BY GrantAnswers, CacheEntries DEF Entry
<1>3. Response(e).type = "RegisterResponse" /\ Response(e).request = m.request /\ Response(e).lease = l
  BY <1>2 DEF Response
<1> HIDE DEF e
<1>4. \A q, k : Paired(q, k)' => Paired(q, k) \/ (q = m.request /\ k = l)
  BY <1>2, <1>3 DEF Paired
<1>5. \A q : ~Paired(q, l)
  BY DEF Paired, UnusedLease
<1>6. \A k \in net' \cup held' : Framed(k) => k \in net \cup held /\ k.lease # l
  BY <1>2, <1>3 DEF Framed, UnusedLease
<1>7. \A n \in Node : client[n].lease # l
  BY DEF UnusedLease
<1>8. leases'[l].replay.highest = NoSequence
  BY <1>1 DEF NewLease, NewWindow
<1>9. Holders' /\ Askers'
  BY DEF SequenceInv, Holders, Askers
<1>10. OneRequest'
  BY <1>4, <1>5 DEF SequenceInv, OneRequest
<1>11. OffersUnused'
  <2> SUFFICES ASSUME NEW n \in Node, NEW k \in LeaseId, client[n].request # NoId,
                      Paired(client[n].request, k)'
               PROVE  Untouched(k)' /\ \A j \in Node : client[j].lease # k
    BY DEF OffersUnused
  <2>1. CASE k = l
    BY <1>6, <1>7, <1>8, <2>1 DEF Untouched
  <2>2. CASE k # l
    <3>1. Paired(client[n].request, k)
      BY <1>2, <1>3, <2>2 DEF Paired
    <3>2. Untouched(k) /\ \A j \in Node : client[j].lease # k
      BY <3>1 DEF SequenceInv, OffersUnused
    <3> QED
      BY <1>1, <1>6, <2>2, <3>2 DEF Untouched
  <2> QED
    BY <2>1, <2>2
<1>12. SequenceAhead'
  <2> SUFFICES ASSUME NEW n \in Node, client[n].lease # NoId
               PROVE  /\ \A k \in net' \cup held' :
                           Framed(k) /\ k.lease = client[n].lease => k.sequence < client[n].next
                      /\ client[n].lease \in Live' =>
                           leases'[client[n].lease].replay.highest < client[n].next
    BY DEF SequenceAhead, Framed
  <2>1. /\ \A k \in net \cup held : Framed(k) /\ k.lease = client[n].lease => k.sequence < client[n].next
        /\ client[n].lease \in Live => leases[client[n].lease].replay.highest < client[n].next
    BY DEF SequenceInv, SequenceAhead, Framed
  <2> QED
    BY <1>1, <1>6, <1>7, <2>1
<1> QED
  BY <1>9, <1>10, <1>11, <1>12 DEF SequenceInv

\* handle_datagram takes the answer to what it asked.
LEMMA AcceptSequence ==
    ASSUME Types, SequenceInv, NEW n \in Node, NEW m \in net, ReceiveResponse(n, m), AcceptsResponse(n, m)
    PROVE  SequenceInv'
<1> DEFINE l == m.lease
           c == [NewClient EXCEPT !.lease = l]
<1>1. /\ m.type = "RegisterResponse" /\ m.request \in RequestId /\ l \in LeaseId
      /\ client[n].request = m.request /\ client' = [client EXCEPT ![n] = c]
      /\ net' = net \ {m} /\ held' = held /\ leases' = leases /\ registrations' = registrations
      /\ Live' = Live
  BY FrameFields DEF ReceiveResponse, AcceptsResponse, Types, serverVars, stateVars, Live
<1>2. c.lease = l /\ c.next = 0 /\ c.request = NoId
  BY DEF NewClient
<1>3. client'[n] = c /\ \A k \in Node \ {n} : client'[k] = client[k]
  BY <1>1 DEF Types
<1> HIDE DEF c
<1>4. Paired(client[n].request, l) /\ client[n].request # NoId
  BY <1>1, SequenceTypes DEF Paired
<1>5. Untouched(l) /\ \A k \in Node : client[k].lease # l
  BY <1>1, <1>4 DEF SequenceInv, OffersUnused
<1>6. NoNewPair
  BY <1>1 DEF NoNewPair, Paired
<1>7. Holders'
  BY <1>2, <1>3, <1>5 DEF SequenceInv, Holders
<1>8. Askers'
  BY <1>2, <1>3 DEF SequenceInv, Askers
<1>9. OneRequest'
  BY <1>6 DEF SequenceInv, OneRequest, NoNewPair
<1>10. OffersUnused'
  <2> SUFFICES ASSUME NEW j \in Node, NEW k \in LeaseId, client'[j].request # NoId,
                      Paired(client[j].request, k)'
               PROVE  Untouched(k)' /\ \A i \in Node : client'[i].lease # k
    BY DEF OffersUnused
  <2>1. j # n /\ client'[j] = client[j] /\ client[j].request \in RequestId
    BY <1>2, <1>3, SequenceTypes
  <2>2. Paired(client[j].request, k)
    BY <1>1, <2>1 DEF Paired
  <2>3. Untouched(k) /\ \A i \in Node : client[i].lease # k
    BY <2>1, <2>2 DEF SequenceInv, OffersUnused
  <2>4. k # l
    <3>1. k = l => client[j].request = client[n].request
      BY <1>1, <1>4, <2>1, <2>2 DEF SequenceInv, OneRequest
    <3> QED
      BY <1>4, <2>1, <3>1 DEF SequenceInv, Askers
  <2> QED
    BY <1>1, <1>2, <1>3, <2>3, <2>4 DEF Untouched
<1>11. SequenceAhead'
  <2> SUFFICES ASSUME NEW j \in Node, client'[j].lease # NoId
               PROVE  /\ \A k \in net' \cup held' :
                           Framed(k) /\ k.lease = client'[j].lease => k.sequence < client'[j].next
                      /\ client'[j].lease \in Live' =>
                           leases'[client'[j].lease].replay.highest < client'[j].next
    BY DEF SequenceAhead, Framed
  <2>1. CASE j = n
    BY <1>1, <1>2, <1>3, <1>5, <2>1 DEF Untouched, NoSequence
  <2>2. CASE j # n
    BY <1>1, <1>3, <2>2 DEF SequenceInv, SequenceAhead, Framed
  <2> QED
    BY <2>1, <2>2
<1> QED
  BY <1>7, <1>8, <1>9, <1>10, <1>11 DEF SequenceInv

-------------------------------------------------------------------------------
\* The agent's entry for the relay, step by step through maintain.
\* An agent begins without a lease.
LEMMA NewClientType == NewClient \in Client
BY RelayClientAssumption DEF NewClient, Client

\* maintain gives up a lease that failed.
LEMMA FailureClient ==
    ASSUME NEW c \in Client
    PROVE  /\ AfterFailure(c) \in Client
           /\ AfterFailure(c).lease \in {NoId, c.lease} /\ AfterFailure(c).request \in {NoId, c.request}
           /\ AfterFailure(c).lease # NoId => AfterFailure(c).next = c.next
<1>1. NewClient.lease = NoId /\ NewClient.request = NoId
  BY DEF NewClient
<1> QED
  BY <1>1, NewClientType DEF AfterFailure

\* maintain_pending counts an attempt or gives up.
LEMMA PendingClient ==
    ASSUME NEW c \in Client
    PROVE  /\ MaintainPending(c) \in Client
           /\ MaintainPending(c).lease = c.lease /\ MaintainPending(c).next = c.next
           /\ MaintainPending(c).request \in {NoId, c.request}
<1>1. MaxAttempts \in Nat /\ c.attempts \in 0 .. MaxAttempts
  BY RelayClientAssumption DEF Client
<1>2. CASE c.request = NoId
  BY <1>2 DEF MaintainPending
<1>3. CASE c.request # NoId /\ c.attempts >= MaxAttempts
  <2>1. MaintainPending(c) = [c EXCEPT !.request = NoId, !.attempts = 0, !.waiting = TRUE]
    BY <1>3 DEF MaintainPending
  <2>2. 0 \in 0 .. MaxAttempts
    BY <1>1
  <2> QED
    BY <2>1, <2>2 DEF Client
<1>4. CASE c.request # NoId /\ ~(c.attempts >= MaxAttempts)
  <2>1. MaintainPending(c) = [c EXCEPT !.attempts = c.attempts + 1]
    BY <1>4 DEF MaintainPending, Client
  <2>2. c.attempts + 1 \in 0 .. MaxAttempts
    BY <1>1, <1>4
  <2> QED
    BY <2>1, <2>2 DEF Client
<1> QED
  BY <1>2, <1>3, <1>4

\* begin_registration asks with a new id.
LEMMA BeginClient ==
    ASSUME NEW c \in Client, NEW d \in BeginRegistration(c)
    PROVE  /\ d \in Client /\ d.lease = c.lease /\ d.next = c.next
           /\ d.request = c.request \/ (d.request \in RequestId /\ UnusedRequest(d.request))
<1>1. CASE c.request = NoId /\ RegistrationDue(c)
  <2>1. PICK r \in Least({q \in RequestId : UnusedRequest(q)}) : d = [c EXCEPT !.request = r, !.attempts = 1]
    BY <1>1 DEF BeginRegistration
  <2>2. r \in RequestId /\ UnusedRequest(r)
    BY DEF Least
  <2>3. 1 \in 0 .. MaxAttempts
    BY RelayClientAssumption
  <2>4. d \in Client /\ d.lease = c.lease /\ d.next = c.next /\ d.request = r
    BY <2>1, <2>2, <2>3 DEF Client
  <2> QED
    BY <2>2, <2>4
<1>2. CASE ~(c.request = NoId /\ RegistrationDue(c))
  BY <1>2 DEF BeginRegistration
<1> QED
  BY <1>1, <1>2

\* A keepalive takes the next sequence.
LEMMA KeepaliveClient ==
    ASSUME NEW c \in Client
    PROVE  /\ SendKeepalive(c) \in Client
           /\ SendKeepalive(c).lease = c.lease /\ SendKeepalive(c).request = c.request
           /\ KeepaliveDue(c) => SendKeepalive(c).next = c.next + 1
           /\ ~KeepaliveDue(c) => SendKeepalive(c).next = c.next
<1>1. MaxSequence \in Nat /\ c.next \in 0 .. MaxSequence + 1
  BY RelayClientAssumption DEF Client
<1>2. CASE KeepaliveDue(c)
  <2>1. SendKeepalive(c) = [c EXCEPT !.next = c.next + 1, !.keepaliveDue = FALSE]
    BY <1>2 DEF SendKeepalive, Client
  <2>2. c.next + 1 \in 0 .. MaxSequence + 1
    BY <1>1, <1>2 DEF KeepaliveDue
  <2> QED
    BY <1>2, <2>1, <2>2 DEF Client
<1>3. CASE ~KeepaliveDue(c)
  BY <1>3 DEF SendKeepalive
<1> QED
  BY <1>2, <1>3

\* maintain as a whole: the entry it leaves, and what it sends.
LEMMA MaintainClient ==
    ASSUME Types, NEW n \in Node, Maintain(n)
    PROVE  \E c \in Client :
             /\ c.lease \in {NoId, client[n].lease}
             /\ c.lease # NoId => c.next = client[n].next
             /\ c.request \in {NoId, client[n].request} \/ (c.request \in RequestId /\ UnusedRequest(c.request))
             /\ client' = [client EXCEPT ![n] = SendKeepalive(c)]
             /\ net' = {Request(n, d) : d \in {e \in {c} : e.request # NoId}}
                       \cup {Keepalive(n, d) : d \in {e \in {c} : KeepaliveDue(e)}}
<1> DEFINE a == AfterFailure(client[n])
           b == MaintainPending(a)
<1>1. client[n] \in Client
  BY DEF Types
<1>2. /\ a \in Client /\ a.lease \in {NoId, client[n].lease} /\ a.request \in {NoId, client[n].request}
      /\ a.lease # NoId => a.next = client[n].next
  BY <1>1, FailureClient
<1> HIDE DEF a
<1>3. b \in Client /\ b.lease = a.lease /\ b.next = a.next /\ b.request \in {NoId, a.request}
  BY <1>2, PendingClient
<1>4. PICK c \in BeginRegistration(b) :
        /\ client' = [client EXCEPT ![n] = SendKeepalive(c)]
        /\ net' = {Request(n, d) : d \in {e \in {c} : e.request # NoId}}
                  \cup {Keepalive(n, d) : d \in {e \in {c} : KeepaliveDue(e)}}
  BY DEF Maintain, a
<1> HIDE DEF b
<1>5. /\ c \in Client /\ c.lease = b.lease /\ c.next = b.next
      /\ c.request = b.request \/ (c.request \in RequestId /\ UnusedRequest(c.request))
  BY <1>3, BeginClient
<1> QED
  BY <1>2, <1>3, <1>4, <1>5

\* maintain sends a request, a keepalive, or both.
LEMMA MaintainSends ==
    ASSUME Types, NEW n \in Node, NEW c \in Client, c.lease \in {NoId, client[n].lease},
           NEW m \in {Request(n, d) : d \in {e \in {c} : e.request # NoId}}
                     \cup {Keepalive(n, d) : d \in {e \in {c} : KeepaliveDue(e)}}
    PROVE  /\ m \in Message /\ m.type \in {"RegisterRequest", "Keepalive"}
           /\ m.type = "Keepalive" => KeepaliveDue(c) /\ m.lease = c.lease /\ m.sequence = c.next
<1>1. At(n) \in Endpoint
  BY DEF At, Endpoint, Types
<1>2. CASE c.request # NoId /\ m = Request(n, c)
  <2>1. c.request \in RequestId
    BY <1>2 DEF Client
  <2> QED
    BY <1>1, <1>2, <2>1 DEF Request, Message
<1>3. CASE KeepaliveDue(c) /\ m = Keepalive(n, c)
  <2>1. c.lease \in LeaseId /\ c.next \in Nat
    BY <1>3, RelayClientAssumption DEF KeepaliveDue, Client
  <2> QED
    BY <1>1, <1>3, <2>1 DEF Keepalive, Message
<1> QED
  BY <1>2, <1>3

-------------------------------------------------------------------------------
\* The inductive invariant of the relay and its agents.
RelayInv == Types /\ LeaseIndex /\ Bounded /\ QueueInv /\ PayloadInv /\ SequenceInv

\* A step that leaves the relay's state alone.
LEMMA QuietServer ==
    ASSUME RelayInv, UNCHANGED serverVars
    PROVE  LeaseIndex' /\ Bounded' /\ QueueInv' /\ WindowsFollow
<1>1. leases' = leases /\ nodes' = nodes /\ activeQueues' = activeQueues /\ Live' = Live
  BY DEF serverVars, stateVars, Live
<1>2. \A k \in Live' : SameQueue(k)
  BY <1>1 DEF SameQueue
<1>3. LeaseIndex'
  BY <1>1, SameIndex DEF RelayInv
<1>4. Bounded'
  BY <1>1, ShrinkBounded DEF RelayInv
<1>5. QueueInv'
  BY <1>1, <1>2, KeepsQueues DEF RelayInv
<1>6. WindowsFollow
  BY <1>1 DEF WindowsFollow
<1> QED
  BY <1>3, <1>4, <1>5, <1>6

\* A step of the network or of an agent that sends nothing.
LEMMA SendsNothing ==
    ASSUME RelayInv, UNCHANGED serverVars, net' \cup held' \subseteq net \cup held,
           client' \in [Node -> Client], ClientsFollow, place' \in [Node -> Places],
           frames' = frames, faults' \in 0 .. FaultBudget
    PROVE  RelayInv'
<1>1. LeaseIndex' /\ Bounded' /\ QueueInv' /\ WindowsFollow
  BY QuietServer
<1>2. /\ leases' = leases /\ nodes' = nodes /\ activeQueues' = activeQueues /\ Live' = Live
      /\ registrations' = registrations /\ remaining' = remaining /\ forwarded' = forwarded
  BY DEF serverVars, stateVars, Live
<1>3. Types'
  BY <1>2 DEF RelayInv, Types
<1>4. PayloadInv'
  <2>1. NoNewData
    BY DEF NoNewData
  <2> QED
    BY <1>2, <2>1, KeepsPayload DEF RelayInv
<1>5. SequenceInv'
  <2>1. FramesFollow /\ NoNewPair
    BY <1>2 DEF FramesFollow, NoNewPair, Paired
  <2> QED
    BY <1>1, <1>3, <2>1, KeepsSequence DEF RelayInv
<1> QED
  BY <1>1, <1>3, <1>4, <1>5 DEF RelayInv

\* Steps that leave the agents alone.
LEMMA SameClients ==
    ASSUME Types, client' = client
    PROVE  client' \in [Node -> Client] /\ ClientsFollow
BY SequenceTypes DEF Types, ClientsFollow

\* One agent's entry changes: its lease and its request stay or go.
LEMMA OneClient ==
    ASSUME Types, NEW n \in Node, NEW c \in Client, client' = [client EXCEPT ![n] = c],
           c.lease \in {NoId, client[n].lease}, c.lease # NoId => c.next = client[n].next,
           c.request \in {NoId, client[n].request}
    PROVE  client' \in [Node -> Client] /\ ClientsFollow
<1>1. client' \in [Node -> Client] /\ client'[n] = c /\ \A k \in Node \ {n} : client'[k] = client[k]
  BY DEF Types
<1>2. \A k \in Node : client[k].next \in Nat
  BY SequenceTypes
<1> QED
  BY <1>1, <1>2 DEF ClientsFollow

\* The relay reads a datagram and does nothing.
LEMMA ReplyStep ==
    ASSUME RelayInv, NEW m \in net,
           RejectRegistration(m) \/ DropFrame(m), UNCHANGED <<held, clientVars>>
    PROVE  RelayInv'
<1>1. /\ UNCHANGED serverVars /\ net' \cup held' \subseteq net \cup held
      /\ client' = client /\ place' = place /\ frames' = frames /\ faults' = faults
  BY DEF RejectRegistration, DropFrame, clientVars
<1>2. Types /\ place' \in [Node -> Places] /\ faults' \in 0 .. FaultBudget
  BY <1>1 DEF RelayInv, Types
<1> QED
  BY <1>1, <1>2, SameClients, SendsNothing

\* handle_registration repeats an answer.
LEMMA RepeatStep ==
    ASSUME RelayInv, NEW m \in net, RepeatRegistration(m), UNCHANGED <<held, clientVars>>
    PROVE  RelayInv'
<1>1. /\ UNCHANGED serverVars /\ held' = held
      /\ net' = (net \ {m}) \cup {Response(r) : r \in Cached(m)}
      /\ client' = client /\ place' = place /\ frames' = frames /\ faults' = faults
  BY DEF RepeatRegistration, clientVars
<1>2. LeaseIndex' /\ Bounded' /\ QueueInv' /\ WindowsFollow
  BY <1>1, QuietServer
<1>3. /\ leases' = leases /\ nodes' = nodes /\ activeQueues' = activeQueues /\ Live' = Live
      /\ registrations' = registrations /\ remaining' = remaining /\ forwarded' = forwarded
  BY <1>1 DEF serverVars, stateVars, Live
<1>4. Types
  BY DEF RelayInv
<1>5. ASSUME NEW r \in Cached(m)
      PROVE  /\ r \in ToSet(registrations) /\ Response(r) \in Message
             /\ Response(r).type = "RegisterResponse"
             /\ Response(r).request = r.request /\ Response(r).lease = r.lease
  <2>1. r \in ToSet(registrations) /\ r \in Registration
    BY <1>4 DEF Cached, ToSet, Types
  <2> QED
    BY <2>1 DEF Response, Registration, Message
<1>6. Types'
  BY <1>1, <1>3, <1>4, <1>5 DEF Types
<1>7. NoNewData
  BY <1>1, <1>5 DEF NoNewData
<1>8. PayloadInv'
  BY <1>1, <1>3, <1>4, <1>7, KeepsPayload DEF RelayInv
<1>9. FramesFollow
  BY <1>1, <1>5 DEF FramesFollow, Framed
<1>10. NoNewPair
  BY <1>1, <1>3, <1>5 DEF NoNewPair, Paired
<1>11. SequenceInv'
  BY <1>1, <1>2, <1>4, <1>6, <1>9, <1>10, SameClients, KeepsSequence DEF RelayInv
<1> QED
  BY <1>2, <1>6, <1>8, <1>11 DEF RelayInv

\* maintain
LEMMA MaintainStep ==
    ASSUME RelayInv, NEW n \in Node, Maintain(n)
    PROVE  RelayInv'
<1>1. /\ UNCHANGED serverVars /\ held' = held /\ place' = place /\ frames' = frames /\ faults' = faults
  BY DEF Maintain
<1>2. LeaseIndex' /\ Bounded' /\ QueueInv' /\ WindowsFollow
  BY <1>1, QuietServer
<1>3. /\ leases' = leases /\ nodes' = nodes /\ activeQueues' = activeQueues /\ Live' = Live
      /\ registrations' = registrations /\ remaining' = remaining /\ forwarded' = forwarded
  BY <1>1 DEF serverVars, stateVars, Live
<1>4. Types
  BY DEF RelayInv
<1>5. PICK c \in Client :
        /\ c.lease \in {NoId, client[n].lease}
        /\ c.lease # NoId => c.next = client[n].next
        /\ c.request \in {NoId, client[n].request} \/ (c.request \in RequestId /\ UnusedRequest(c.request))
        /\ client' = [client EXCEPT ![n] = SendKeepalive(c)]
        /\ net' = {Request(n, d) : d \in {e \in {c} : e.request # NoId}}
                  \cup {Keepalive(n, d) : d \in {e \in {c} : KeepaliveDue(e)}}
  BY <1>4, MaintainClient
<1>6. /\ SendKeepalive(c) \in Client
      /\ SendKeepalive(c).lease = c.lease /\ SendKeepalive(c).request = c.request
      /\ KeepaliveDue(c) => SendKeepalive(c).next = c.next + 1
      /\ ~KeepaliveDue(c) => SendKeepalive(c).next = c.next
  BY KeepaliveClient
<1>7. /\ client' \in [Node -> Client] /\ client'[n] = SendKeepalive(c)
      /\ \A k \in Node \ {n} : client'[k] = client[k]
  BY <1>4, <1>5, <1>6 DEF Types
<1>8. ASSUME NEW m \in net'
      PROVE  /\ m \in Message /\ m.type \in {"RegisterRequest", "Keepalive"}
             /\ m.type = "Keepalive" => KeepaliveDue(c) /\ m.lease = c.lease /\ m.sequence = c.next
  BY <1>4, <1>5, MaintainSends
<1>9. Types'
  BY <1>1, <1>3, <1>4, <1>7, <1>8 DEF Types
<1>10. NoNewData
  BY <1>1, <1>8 DEF NoNewData
<1>11. PayloadInv'
  BY <1>1, <1>3, <1>4, <1>10, KeepsPayload DEF RelayInv
<1>12. NoNewPair
  BY <1>1, <1>3, <1>8 DEF NoNewPair, Paired
<1>13. c.next \in Nat /\ c.lease \in LeaseId \cup {NoId}
  BY RelayClientAssumption DEF Client
<1>14. ClientsFollow
  <2>1. \A k \in Node : client[k].next \in Nat
    BY <1>4, SequenceTypes
  <2> QED
    BY <1>5, <1>6, <1>7, <1>13, <2>1 DEF ClientsFollow
<1>15. FramesFollow
  <2> SUFFICES ASSUME NEW m \in net', m.type = "Keepalive"
               PROVE  /\ m.lease \in LeaseId
                      /\ client[n].lease = m.lease /\ client'[n].lease = m.lease
                      /\ m.sequence < client'[n].next
    BY <1>1, <1>8 DEF FramesFollow, Framed
  <2>1. KeepaliveDue(c) /\ m.lease = c.lease /\ m.sequence = c.next
    BY <1>8
  <2> QED
    BY <1>5, <1>6, <1>7, <1>13, <2>1 DEF KeepaliveDue
<1>16. SequenceInv'
  BY <1>2, <1>4, <1>9, <1>12, <1>14, <1>15, KeepsSequence DEF RelayInv
<1> QED
  BY <1>2, <1>9, <1>11, <1>16 DEF RelayInv

\* wrap
LEMMA WrapStep ==
    ASSUME RelayInv, NEW n \in Node, NEW to \in Node, Wrap(n, to)
    PROVE  RelayInv'
<1> DEFINE f == Frame(n, to, frames + 1)
           c == [client[n] EXCEPT !.next = client[n].next + 1]
<1>1. /\ UNCHANGED serverVars /\ held' = held /\ place' = place /\ frames' = frames + 1 /\ faults' = faults
      /\ net' = net \cup {f} /\ client[n].lease # NoId /\ client[n].next <= MaxSequence
      /\ frames < MaxFrames
  BY DEF Wrap
<1>2. LeaseIndex' /\ Bounded' /\ QueueInv' /\ WindowsFollow
  BY <1>1, QuietServer
<1>3. /\ leases' = leases /\ nodes' = nodes /\ activeQueues' = activeQueues /\ Live' = Live
      /\ registrations' = registrations /\ remaining' = remaining /\ forwarded' = forwarded
  BY <1>1 DEF serverVars, stateVars, Live
<1>4. Types
  BY DEF RelayInv
<1>5. client[n] \in Client /\ client[n].lease \in LeaseId /\ client[n].next \in Nat
  BY <1>1, <1>4, SequenceTypes
<1>6. client' = [client EXCEPT ![n] = c]
  BY <1>5 DEF Wrap, Client
<1>7. c \in Client /\ c.lease = client[n].lease /\ c.request = client[n].request
      /\ c.next = client[n].next + 1
  <2>1. client[n].next + 1 \in 0 .. MaxSequence + 1
    BY <1>1, <1>5, RelayClientAssumption
  <2> QED
    BY <1>5, <2>1 DEF Client
<1> HIDE DEF c
<1>8. client' \in [Node -> Client] /\ client'[n] = c /\ \A k \in Node \ {n} : client'[k] = client[k]
  BY <1>4, <1>6, <1>7 DEF Types
<1>9. frames + 1 \in 0 .. MaxFrames /\ frames + 1 \in Payload
  BY <1>1, <1>4, RelayAssumption DEF Types, Payload
<1>10. /\ f \in Message /\ f.type = "Data" /\ f.lease = client[n].lease /\ f.sequence = client[n].next
  <2>1. At(n) \in Endpoint
    BY <1>4 DEF At, Endpoint, Types
  <2> QED
    BY <1>5, <1>9, <2>1 DEF Frame, Message
<1> HIDE DEF f
<1>11. Types'
  BY <1>1, <1>3, <1>4, <1>8, <1>9, <1>10 DEF Types
<1>12. PayloadInv'
  BY <1>4, WrapPayload DEF RelayInv
<1>13. NoNewPair
  BY <1>1, <1>3, <1>10 DEF NoNewPair, Paired
<1>14. FramesFollow
  BY <1>1, <1>5, <1>7, <1>8, <1>10 DEF FramesFollow, Framed
<1>15. ClientsFollow
  <2>1. \A k \in Node : client[k].next \in Nat
    BY <1>4, SequenceTypes
  <2> QED
    BY <1>7, <1>8, <2>1 DEF ClientsFollow
<1>16. SequenceInv'
  BY <1>2, <1>4, <1>11, <1>13, <1>14, <1>15, KeepsSequence DEF RelayInv
<1> QED
  BY <1>2, <1>11, <1>12, <1>16 DEF RelayInv

\* handle_datagram
LEMMA ReceiveStep ==
    ASSUME RelayInv, NEW n \in Node, NEW m \in net, Receive(n, m)
    PROVE  RelayInv'
<1>1. /\ UNCHANGED serverVars /\ held' = held /\ place' = place /\ frames' = frames /\ faults' = faults
      /\ net' = net \ {m}
  BY DEF Receive, ReceiveResponse, ReceiveKeepaliveResponse, ReceiveForwarded
<1>2. Types /\ place' \in [Node -> Places] /\ faults' \in 0 .. FaultBudget /\ client[n] \in Client
  BY <1>1 DEF RelayInv, Types
<1>3. CASE client' = client
  BY <1>1, <1>2, <1>3, SameClients, SendsNothing
<1>4. CASE client' = [client EXCEPT ![n].silent = 0]
  <2> DEFINE c == [client[n] EXCEPT !.silent = 0]
  <2>1. 0 \in 0 .. FailureTicks
    BY RelayClientAssumption
  <2>2. /\ c \in Client /\ c.lease = client[n].lease /\ c.next = client[n].next
        /\ c.request = client[n].request
    BY <1>2, <2>1 DEF Client
  <2>3. client' = [client EXCEPT ![n] = c]
    BY <1>4
  <2> HIDE DEF c
  <2>4. client' \in [Node -> Client] /\ ClientsFollow
    BY <1>2, <2>2, <2>3, OneClient
  <2> QED
    BY <1>1, <1>2, <2>4, SendsNothing
<1>5. CASE ReceiveResponse(n, m) /\ AcceptsResponse(n, m)
  <2>1. LeaseIndex' /\ Bounded' /\ QueueInv'
    BY <1>1, QuietServer
  <2>2. /\ leases' = leases /\ nodes' = nodes /\ activeQueues' = activeQueues /\ Live' = Live
        /\ registrations' = registrations /\ remaining' = remaining /\ forwarded' = forwarded
    BY <1>1 DEF serverVars, stateVars, Live
  <2> DEFINE c == [NewClient EXCEPT !.lease = m.lease]
  <2>3. client' = [client EXCEPT ![n] = c] /\ m.lease \in LeaseId
    BY <1>2, <1>5, FrameFields DEF ReceiveResponse, Types
  <2>4. c \in Client
    BY <2>3, NewClientType DEF Client
  <2> HIDE DEF c
  <2>5. Types'
    BY <1>1, <1>2, <2>2, <2>3, <2>4 DEF Types
  <2>6. NoNewData
    BY <1>1 DEF NoNewData
  <2>7. PayloadInv'
    BY <1>1, <1>2, <2>2, <2>6, KeepsPayload DEF RelayInv
  <2>8. SequenceInv'
    BY <1>2, <1>5, AcceptSequence DEF RelayInv
  <2> QED
    BY <2>1, <2>5, <2>7, <2>8 DEF RelayInv
<1> QED
  BY <1>3, <1>4, <1>5 DEF Receive, ReceiveResponse, ReceiveKeepaliveResponse, ReceiveForwarded

\* What the network and the world around the agents do.
LEMMA WorldStep ==
    ASSUME RelayInv,
           \/ \E m \in net : Undeliverable(m)
           \/ \E m \in net : \E copy \in BOOLEAN : Divert(m, copy)
           \/ \E m \in held : Release(m)
           \/ \E n \in Node : Move(n)
    PROVE  RelayInv'
<1>1. /\ UNCHANGED serverVars /\ net' \cup held' \subseteq net \cup held
      /\ client' = client /\ frames' = frames
  BY DEF Undeliverable, Divert, Release, Move, clientVars
<1>2. Types
  BY DEF RelayInv
<1>3. faults' \in 0 .. FaultBudget
  BY <1>2, RelayClientAssumption DEF Types, Undeliverable, Divert, Release, Move, Fault, clientVars
<1>4. place' \in [Node -> Places]
  BY <1>2 DEF Types, Undeliverable, Divert, Release, Move, clientVars
<1> QED
  BY <1>1, <1>2, <1>3, <1>4, SameClients, SendsNothing

\* What an agent does by itself without sending.
LEMMA AgentStep ==
    ASSUME RelayInv, NEW n \in Node, BackoffEnds(n) \/ WrapExpired(n) \/ ResetClient(n)
    PROVE  RelayInv'
<1>1. /\ UNCHANGED serverVars /\ net' \cup held' \subseteq net \cup held
      /\ frames' = frames /\ place' = place
  BY DEF BackoffEnds, WrapExpired, ResetClient
<1>2. Types /\ place' \in [Node -> Places] /\ client[n] \in Client
  BY <1>1 DEF RelayInv, Types
<1>3. faults' \in 0 .. FaultBudget
  BY <1>2, RelayClientAssumption DEF Types, BackoffEnds, WrapExpired, ResetClient, Fault
<1>4. \E c \in Client :
        /\ client' = [client EXCEPT ![n] = c] /\ c.lease \in {NoId, client[n].lease}
        /\ c.lease # NoId => c.next = client[n].next
        /\ c.request \in {NoId, client[n].request}
  <2>1. CASE BackoffEnds(n)
    <3> DEFINE c == [client[n] EXCEPT !.waiting = FALSE]
    <3>1. client' = [client EXCEPT ![n] = c]
      BY <2>1 DEF BackoffEnds
    <3>2. /\ c \in Client /\ c.lease = client[n].lease /\ c.next = client[n].next
          /\ c.request = client[n].request
      BY <1>2 DEF Client
    <3> QED
      BY <3>1, <3>2
  <2>2. CASE WrapExpired(n)
    <3> DEFINE c == [client[n] EXCEPT !.lease = NoId, !.next = 0, !.keepaliveDue = FALSE, !.silent = 0]
    <3>1. client' = [client EXCEPT ![n] = c]
      BY <2>2 DEF WrapExpired
    <3>2. 0 \in 0 .. FailureTicks /\ 0 \in 0 .. MaxSequence + 1
      BY RelayClientAssumption
    <3>3. c \in Client /\ c.lease = NoId /\ c.request = client[n].request
      BY <1>2, <3>2 DEF Client
    <3> QED
      BY <3>1, <3>3
  <2>3. CASE ResetClient(n)
    <3>1. client' = [client EXCEPT ![n] = NewClient] /\ NewClient.lease = NoId /\ NewClient.request = NoId
      BY <2>3 DEF ResetClient, NewClient
    <3> QED
      BY <3>1, NewClientType
  <2> QED
    BY <2>1, <2>2, <2>3
<1>5. client' \in [Node -> Client] /\ ClientsFollow
  BY <1>2, <1>4, OneClient
<1> QED
  BY <1>1, <1>2, <1>3, <1>5, SendsNothing

-------------------------------------------------------------------------------
\* handle_registration grants a lease.
LEMMA GrantStep ==
    ASSUME RelayInv, NEW m \in net, NEW l \in LeaseId, UnusedLease(l), GrantRegistration(m, l),
           UNCHANGED <<held, clientVars>>
    PROVE  RelayInv'
<1>1. /\ Types /\ LeaseIndex /\ Bounded /\ QueueInv /\ PayloadInv /\ SequenceInv
      /\ held' = held /\ client' = client /\ place' = place /\ frames' = frames /\ faults' = faults
  BY DEF RelayInv, clientVars
<1>2. LeaseIndex' /\ Bounded' /\ QueueInv' /\ PayloadInv' /\ SequenceInv'
  BY <1>1, GrantIndex, GrantBounded, GrantQueues, GrantPayload, GrantSequence
<1>3. /\ leases' \in [LeaseId -> Lease \cup {NoLease}] /\ leases'[l] = NewLease(m) /\ m.node \in Node
      /\ Live' = (Live \ {nodes[m.node]}) \cup {l} /\ \A k \in Live' \ {l} : leases'[k] = leases[k]
  BY <1>1, GrantLeases
<1>4. /\ registrations' \in Seq(Registration) /\ Len(registrations') <= MaxCached /\ net' \subseteq Message
  BY <1>1, GrantAnswers, CacheEntries DEF Types
<1>5. /\ nodes' \in [Node -> LeaseId \cup {NoId}] /\ remaining' \in [LeaseId -> 0 .. LeaseTicks]
      /\ activeQueues' = activeQueues /\ forwarded' = forwarded
  <2>1. LeaseTicks \in 0 .. LeaseTicks
    BY RelayAssumption
  <2> QED
    BY <1>1, <2>1 DEF GrantRegistration, Types
<1>6. \A k \in Live' : Len(leases'[k].queue) <= QueuePackets
  <2>1. Len(leases'[l].queue) = 0 /\ QueuePackets \in Nat
    BY <1>3, RelayAssumption DEF NewLease
  <2> QED
    BY <1>1, <1>3, <2>1 DEF Types
<1>7. Types'
  BY <1>1, <1>3, <1>4, <1>5, <1>6 DEF Types
<1> QED
  BY <1>2, <1>7 DEF RelayInv

\* The relay takes a frame: handle_data and handle_keepalive.
LEMMA TakeStep ==
    ASSUME RelayInv, NEW m \in net, HandleData(m) \/ HandleKeepalive(m), UNCHANGED <<held, clientVars>>
    PROVE  RelayInv'
<1>1. /\ Types /\ LeaseIndex /\ Bounded /\ QueueInv /\ PayloadInv /\ SequenceInv
      /\ held' = held /\ client' = client /\ place' = place /\ frames' = frames /\ faults' = faults
  BY DEF RelayInv, clientVars
<1>2. /\ m.type \in {"Data", "Keepalive"} /\ Admitted(m) /\ m \in Message
      /\ nodes' = nodes /\ registrations' = registrations /\ remaining' = remaining
  BY <1>1 DEF HandleData, HandleKeepalive, Types
<1>3. /\ m.lease \in Live /\ m.sequence \in Nat /\ LeasesStay
      /\ leases' \in [LeaseId -> Lease \cup {NoLease}]
      /\ leases'[m.lease].replay = Commit(leases[m.lease].replay, m.sequence)
      /\ \A k \in Live \ {m.lease} : leases'[k].replay = leases[k].replay
  <2>1. CASE HandleData(m)
    BY <1>1, <2>1, HandleDataLeases
  <2>2. CASE HandleKeepalive(m)
    BY <1>1, <1>2, <2>2, HandleKeepaliveLeases, AcceptedLease, LiveFacts
  <2> QED
    BY <2>1, <2>2
<1>4. Live' = Live
  BY <1>3 DEF LeasesStay
<1>5. LeaseIndex' /\ Bounded'
  BY <1>1, <1>2, <1>3, <1>4, StayIndex, ShrinkBounded
<1>6. net' \subseteq Message /\ NoNewData /\ FramesFollow /\ NoNewPair
  <2>1. CASE HandleData(m)
    BY <1>1, <1>2, <2>1 DEF HandleData, Types, NoNewData, FramesFollow, NoNewPair, Paired
  <2>2. CASE HandleKeepalive(m)
    <3>1. KeepaliveResponse(m) \in Message /\ KeepaliveResponse(m).type = "KeepaliveResponse"
      BY <1>2, <2>2, FrameFields DEF HandleKeepalive, KeepaliveResponse, Message
    <3>2. net' = (net \ {m}) \cup {KeepaliveResponse(m)}
      BY <2>2 DEF HandleKeepalive
    <3> QED
      BY <1>1, <1>2, <3>1, <3>2 DEF Types, NoNewData, FramesFollow, Framed, NoNewPair, Paired
  <2> QED
    BY <2>1, <2>2
<1>7. leases[m.lease].replay \in Windows /\ Precheck(leases[m.lease].replay, m.sequence)
  BY <1>1, <1>2, <1>3, LiveFacts DEF Lease, Admitted
<1>8. WindowsFollow
  <2>1. leases'[m.lease].replay.highest \in {leases[m.lease].replay.highest, m.sequence}
    BY <1>3, <1>7, SeenCommitted
  <2> QED
    BY <1>2, <1>3, <1>4, <2>1 DEF WindowsFollow, Framed
<1>9. QueueInv' /\ PayloadInv' /\ activeQueues' \in Seq(LeaseId) /\ forwarded' \in [Payload -> Nat]
      /\ \A k \in Live' : Len(leases'[k].queue) <= QueuePackets
  <2>1. CASE HandleData(m)
    <3>1. QueueInv' /\ PayloadInv'
      BY <1>1, <2>1, DataQueues, DataPayload
    <3> DEFINE t == nodes[m.to]
    <3>2. /\ t \in Live /\ m.payload \in Payload /\ Len(leases[t].queue) < QueuePackets
          /\ leases'[t].queue = Append(leases[t].queue, m.payload)
          /\ \A k \in Live \ {t} : leases'[k].queue = leases[k].queue
      BY <1>1, <1>2, <2>1, HandleDataLeases, FrameFields DEF HandleData, DestinationReady
    <3>3. activeQueues' \in Seq(LeaseId) /\ forwarded' \in [Payload -> Nat]
      <4>1. /\ activeQueues' = IF leases[t].scheduled THEN activeQueues ELSE Append(activeQueues, t)
            /\ forwarded' = [forwarded EXCEPT ![m.payload] = forwarded[m.payload] + 1]
        BY <2>1 DEF HandleData
      <4>2. activeQueues \in Seq(LeaseId) /\ t \in LeaseId /\ forwarded \in [Payload -> Nat]
        BY <1>1, <3>2, LiveFacts DEF Types
      <4> HIDE DEF t
      <4>3. Append(activeQueues, t) \in Seq(LeaseId)
        BY <4>2
      <4> QED
        BY <3>2, <4>1, <4>2, <4>3
    <3>4. leases[t].queue \in Seq(Payload) /\ QueuePackets \in Nat
      BY <1>1, <3>2, LiveFacts, RelayAssumption DEF Lease
    <3>5. Len(leases'[t].queue) <= QueuePackets
      BY <3>2, <3>4
    <3> QED
      BY <1>1, <1>4, <3>1, <3>2, <3>3, <3>5 DEF Types
  <2>2. CASE HandleKeepalive(m)
    <3>1. \A k \in Live' : SameQueue(k)
      BY <1>1, <1>2, <1>4, <2>2, HandleKeepaliveLeases, AcceptedLease, LiveFacts DEF SameQueue
    <3>2. activeQueues' = activeQueues /\ forwarded' = forwarded
      BY <2>2 DEF HandleKeepalive
    <3>3. \A k \in Live' : \A s \in Nat : Seen(leases[k].replay, s) => Seen(leases'[k].replay, s)
      BY <1>3, <1>4, <1>7, SeenCommitted
    <3>4. QueueInv'
      BY <1>1, <1>4, <3>1, <3>2, KeepsQueues
    <3>5. PayloadInv'
      BY <1>1, <1>4, <1>6, <3>2, <3>3, KeepsPayload
    <3> QED
      BY <1>1, <1>4, <3>1, <3>2, <3>4, <3>5 DEF Types, SameQueue
  <2> QED
    BY <2>1, <2>2
<1>10. Types'
  BY <1>1, <1>2, <1>3, <1>6, <1>9 DEF Types
<1>11. SequenceInv'
  BY <1>1, <1>6, <1>8, <1>10, SameClients, KeepsSequence
<1> QED
  BY <1>5, <1>9, <1>10, <1>11 DEF RelayInv

\* flush_queues
LEMMA FlushStep ==
    ASSUME RelayInv, Flush
    PROVE  RelayInv'
<1>1. /\ Types /\ LeaseIndex /\ Bounded /\ QueueInv /\ PayloadInv /\ SequenceInv
      /\ held' = held /\ client' = client /\ place' = place /\ frames' = frames /\ faults' = faults
  BY DEF RelayInv, Flush, clientVars
<1>2. /\ SkipEmptyQueue \/ FlushOne
      /\ nodes' = nodes /\ registrations' = registrations /\ remaining' = remaining
      /\ forwarded' = forwarded
  BY DEF Flush, SkipEmptyQueue, FlushOne
<1>3. /\ LeasesStay /\ leases' \in [LeaseId -> Lease \cup {NoLease}] /\ \A k \in Live : SameReplay(k)
  BY <1>1, <1>2, SkipLeases, FlushLeases
<1>4. Live' = Live
  BY <1>3 DEF LeasesStay
<1>5. LeaseIndex' /\ Bounded' /\ QueueInv'
  BY <1>1, <1>2, <1>3, <1>4, StayIndex, ShrinkBounded, SkipQueues, FlushQueues
<1>6. net' \subseteq Message /\ NoNewData /\ FramesFollow /\ NoNewPair
  <2>1. CASE SkipEmptyQueue
    BY <1>1, <1>2, <2>1 DEF SkipEmptyQueue, Types, NoNewData, FramesFollow, NoNewPair, Paired
  <2>2. CASE FlushOne
    <3> DEFINE l == Head(activeQueues)
               f == [type |-> "Forwarded", endpoint |-> leases[l].endpoint, payload |-> Head(leases[l].queue)]
    <3>1. l \in Live /\ leases[l] \in Lease /\ leases[l].queue # <<>> /\ net' = net \cup {f}
      BY <1>1, <2>2, FlushLeases, LiveFacts DEF FlushOne
    <3>2. leases[l].endpoint \in Endpoint /\ leases[l].queue \in Seq(Payload)
      BY <3>1 DEF Lease
    <3>3. Head(leases[l].queue) \in Payload
      BY <3>1, <3>2
    <3>4. f \in Message /\ f.type = "Forwarded"
      BY <3>2, <3>3 DEF Message
    <3> HIDE DEF f
    <3> QED
      BY <1>1, <1>2, <3>1, <3>4 DEF Types, NoNewData, FramesFollow, Framed, NoNewPair, Paired
  <2> QED
    BY <1>2, <2>1, <2>2
<1>7. activeQueues' \in Seq(LeaseId)
  <2>1. /\ activeQueues # <<>>
        /\ activeQueues' \in {Tail(activeQueues), Append(Tail(activeQueues), Head(activeQueues))}
    BY <1>2 DEF SkipEmptyQueue, FlushOne, Rescheduled
  <2>2. Tail(activeQueues) \in Seq(LeaseId) /\ Head(activeQueues) \in LeaseId
    BY <1>1, <2>1, EntriesTail DEF Types
  <2> QED
    BY <2>1, <2>2, EntriesAppend
<1>8. ASSUME NEW k \in Live' PROVE Len(leases'[k].queue) <= QueuePackets
  <2>1. k \in Live /\ leases[k].queue \in Seq(Payload) /\ Len(leases[k].queue) <= QueuePackets
    BY <1>1, <1>4, LiveFacts DEF Types, Lease
  <2>2. \/ leases'[k].queue = leases[k].queue
        \/ leases'[k].queue = <<>>
        \/ leases[k].queue # <<>> /\ leases'[k].queue = Tail(leases[k].queue)
    BY <1>1, <1>2, <2>1, SkipLeases, FlushLeases DEF SameQueue
  <2>3. QueuePackets \in Nat /\ Len(leases[k].queue) \in Nat
    BY <2>1, RelayAssumption
  <2>4. leases[k].queue # <<>> => Len(Tail(leases[k].queue)) = Len(leases[k].queue) - 1
    BY <2>1
  <2>5. CASE leases'[k].queue = <<>>
    BY <2>3, <2>5
  <2>6. CASE leases'[k].queue # <<>>
    <3>1. CASE leases'[k].queue = leases[k].queue
      BY <2>1, <3>1
    <3>2. CASE leases[k].queue # <<>> /\ leases'[k].queue = Tail(leases[k].queue)
      <4>1. Len(leases'[k].queue) = Len(leases[k].queue) - 1
        BY <2>4, <3>2
      <4> QED
        BY <2>1, <2>3, <4>1
    <3> QED
      BY <2>2, <2>6, <3>1, <3>2
  <2> QED
    BY <2>5, <2>6
<1>9. Types'
  BY <1>1, <1>2, <1>3, <1>6, <1>7, <1>8 DEF Types
<1>10. PayloadInv'
  BY <1>1, <1>2, <1>3, <1>4, <1>6, KeepsPayload DEF SameReplay
<1>11. WindowsFollow
  BY <1>3, <1>4 DEF WindowsFollow, SameReplay
<1>12. SequenceInv'
  BY <1>1, <1>6, <1>9, <1>11, SameClients, KeepsSequence
<1> QED
  BY <1>5, <1>9, <1>10, <1>12 DEF RelayInv

\* The relay forgets leases and answers: cleanup, and a restart.
LEMMA ForgetStep ==
    ASSUME RelayInv, CleanupTick \/ RelayStartsAgain
    PROVE  RelayInv'
<1>1. /\ Types /\ LeaseIndex /\ Bounded /\ QueueInv /\ PayloadInv /\ SequenceInv
  BY DEF RelayInv
<1>2. /\ held' = held /\ net' = net /\ client' = client /\ place' = place /\ frames' = frames
      /\ forwarded' = forwarded /\ remaining' = remaining
  BY DEF CleanupTick, Cleanup, RelayStartsAgain, RestartRelay, clientVars
<1>3. faults' \in 0 .. FaultBudget
  BY <1>1, RelayClientAssumption DEF Types, CleanupTick, RelayStartsAgain, Fault, clientVars
<1>4. /\ leases' \in [LeaseId -> Lease \cup {NoLease}] /\ Live' \subseteq Live
      /\ \A k \in Live' : leases'[k] = leases[k]
      /\ registrations' \in Seq(Registration) /\ Len(registrations') <= MaxCached
      /\ ToSet(registrations') \subseteq ToSet(registrations)
      /\ nodes' \in [Node -> LeaseId \cup {NoId}] /\ activeQueues' \in Seq(LeaseId)
  <2>1. CASE CleanupTick
    <3>1. PICK pending : Cleanup(pending)
      BY <2>1 DEF CleanupTick
    <3>2. Len(registrations) <= MaxCached /\ Len(registrations) \in Nat /\ MaxCached \in Nat
      BY <1>1, RelayAssumption DEF Types
    <3>3. /\ leases' \in [LeaseId -> Lease \cup {NoLease}]
          /\ Live' = Live \ Expired /\ \A k \in Live' : leases'[k] = leases[k]
          /\ registrations' \in Seq(Registration) /\ Len(registrations') <= Len(registrations)
          /\ ToSet(registrations') \subseteq ToSet(registrations)
      BY <1>1, <3>1, CleanupLeases
    <3>4. nodes' \in [Node -> LeaseId \cup {NoId}] /\ activeQueues' \in Seq(LeaseId)
      BY <1>1, <3>1 DEF Cleanup, NodesWithout, Types
    <3>5. Len(registrations') \in Nat
      BY <3>3
    <3> QED
      BY <3>2, <3>3, <3>4, <3>5
  <2>2. CASE RelayStartsAgain
    <3>1. /\ RestartRelay /\ registrations' = <<>> /\ activeQueues' = <<>>
          /\ nodes' = [n \in Node |-> NoId]
      BY <2>2 DEF RelayStartsAgain, RestartRelay
    <3>2. Live' = {} /\ leases' \in [LeaseId -> Lease \cup {NoLease}]
      BY <3>1, RestartLeases
    <3> QED
      BY <3>1, <3>2, RelayAssumption DEF ToSet
  <2> QED
    BY <2>1, <2>2
<1>5. LeaseIndex'
  BY <1>1, CleanupIndex, RestartIndex DEF CleanupTick, RelayStartsAgain
<1>6. Bounded'
  BY <1>1, <1>4, ShrinkBounded
<1>7. QueueInv'
  <2>1. CASE CleanupTick
    <3>1. activeQueues' = activeQueues /\ \A k \in Live' : SameQueue(k)
      BY <1>4, <2>1 DEF CleanupTick, Cleanup, SameQueue
    <3> QED
      BY <1>1, <1>4, <3>1, KeepsQueues
  <2>2. CASE RelayStartsAgain
    BY <2>2, RestartQueues DEF RelayStartsAgain
  <2> QED
    BY <2>1, <2>2
<1>8. Types'
  BY <1>1, <1>2, <1>3, <1>4 DEF Types
<1>9. NoNewData /\ FramesFollow /\ NoNewPair /\ WindowsFollow
  BY <1>2, <1>4 DEF NoNewData, FramesFollow, NoNewPair, Paired, WindowsFollow
<1>10. PayloadInv'
  BY <1>1, <1>2, <1>4, <1>9, KeepsPayload
<1>11. SequenceInv'
  BY <1>1, <1>2, <1>8, <1>9, SameClients, KeepsSequence
<1> QED
  BY <1>5, <1>6, <1>7, <1>8, <1>10, <1>11 DEF RelayInv

\* A keepalive interval passes.
LEMMA TickStep ==
    ASSUME RelayInv, Tick
    PROVE  RelayInv'
<1>1. /\ Types /\ LeaseIndex /\ Bounded /\ QueueInv /\ PayloadInv /\ SequenceInv
      /\ nodes' = nodes /\ activeQueues' = activeQueues /\ registrations' = registrations
      /\ net' = net /\ held' = held /\ forwarded' = forwarded /\ place' = place
      /\ frames' = frames /\ faults' = faults
  BY DEF RelayInv, Tick
<1>2. /\ LeasesStay /\ leases' \in [LeaseId -> Lease \cup {NoLease}]
      /\ \A k \in Live : SameReplay(k) /\ SameQueue(k)
  BY <1>1, TickLeases
<1>3. Live' = Live
  BY <1>2 DEF LeasesStay
<1>4. remaining' \in [LeaseId -> 0 .. LeaseTicks]
  <2>1. ASSUME NEW l \in LeaseId PROVE remaining'[l] \in 0 .. LeaseTicks
    <3>1. remaining[l] \in 0 .. LeaseTicks /\ LeaseTicks \in Nat
      BY <1>1, RelayAssumption DEF Types
    <3>2. remaining'[l] = 0 \/ (remaining[l] # 0 /\ remaining'[l] = remaining[l] - 1)
      BY DEF Tick
    <3> QED
      BY <3>1, <3>2
  <2>2. remaining' = [l \in LeaseId |-> remaining'[l]]
    BY DEF Tick
  <2> QED
    BY <2>1, <2>2
<1>5. ASSUME NEW n \in Node
      PROVE  /\ client'[n] \in Client /\ client'[n].lease = client[n].lease
             /\ client'[n].next = client[n].next /\ client'[n].request = client[n].request
  <2>1. client[n] \in Client
    BY <1>1 DEF Types
  <2>2. CASE client[n].lease = NoId
    BY <2>1, <2>2 DEF Tick
  <2>3. CASE client[n].lease # NoId
    <3> DEFINE s == IF client[n].silent < FailureTicks THEN client[n].silent + 1 ELSE client[n].silent
    <3>1. client'[n] = [client[n] EXCEPT !.keepaliveDue = TRUE, !.silent = s]
      BY <2>1, <2>3 DEF Tick, Client
    <3>2. s \in 0 .. FailureTicks
      BY <2>1, RelayClientAssumption DEF Client
    <3> HIDE DEF s
    <3> QED
      BY <2>1, <3>1, <3>2 DEF Client
  <2> QED
    BY <2>2, <2>3
<1>6. client' \in [Node -> Client]
  <2>1. client' = [n \in Node |-> client'[n]]
    BY DEF Tick
  <2> QED
    BY <1>5, <2>1
<1>7. LeaseIndex' /\ Bounded' /\ QueueInv'
  BY <1>1, <1>2, <1>3, StayIndex, ShrinkBounded, KeepsQueues
<1>8. Types'
  BY <1>1, <1>2, <1>3, <1>4, <1>6 DEF Types, SameQueue
<1>9. NoNewData /\ FramesFollow /\ NoNewPair /\ WindowsFollow
  BY <1>1, <1>2, <1>3 DEF NoNewData, FramesFollow, NoNewPair, Paired, WindowsFollow, SameReplay
<1>10. ClientsFollow
  <2>1. \A n \in Node : client[n].next \in Nat
    BY <1>1, SequenceTypes
  <2> QED
    BY <1>5, <2>1 DEF ClientsFollow
<1>11. PayloadInv'
  BY <1>1, <1>2, <1>3, <1>9, KeepsPayload DEF SameReplay
<1>12. SequenceInv'
  BY <1>1, <1>8, <1>9, <1>10, KeepsSequence
<1> QED
  BY <1>7, <1>8, <1>11, <1>12 DEF RelayInv

-------------------------------------------------------------------------------
\* The invariant holds at the start.
LEMMA RelayInit == Init => RelayInv
<1> SUFFICES ASSUME Init PROVE RelayInv
  OBVIOUS
<1>1. /\ nodes = [n \in Node |-> NoId] /\ leases = [l \in LeaseId |-> NoLease] /\ activeQueues = <<>>
      /\ registrations = <<>> /\ remaining = [l \in LeaseId |-> 0] /\ net = {} /\ held = {}
      /\ forwarded = [p \in Payload |-> 0] /\ client = [n \in Node |-> NewClient]
      /\ place = [n \in Node |-> CHOOSE p \in Places : TRUE] /\ frames = 0 /\ faults = 0
  BY DEF Init, ServerInit
<1>2. Live = {}
  BY <1>1 DEF Live
<1>3. Types
  <2>1. /\ 0 \in 0 .. LeaseTicks /\ 0 \in 0 .. MaxFrames /\ 0 \in 0 .. FaultBudget
        /\ (CHOOSE p \in Places : TRUE) \in Places /\ 0 <= MaxCached
    BY RelayAssumption, RelayClientAssumption
  <2> QED
    BY <1>1, <1>2, <2>1, NewClientType DEF Types
<1>4. LeaseIndex
  BY <1>1, <1>2 DEF LeaseIndex
<1>5. Bounded
  BY <1>2, FS_EmptySet, RelayAssumption DEF Bounded
<1>6. QueueInv
  BY <1>1, <1>2 DEF QueueInv, Once
<1>7. PayloadInv
  BY <1>1 DEF PayloadInv
<1>8. SequenceInv
  <2>1. \A n \in Node : client[n].lease = NoId /\ client[n].request = NoId
    BY <1>1 DEF NewClient
  <2>2. \A q, l : ~Paired(q, l)
    BY <1>1 DEF Paired, ToSet
  <2> QED
    BY <2>1, <2>2 DEF SequenceInv, SequenceAhead, Holders, Askers, OneRequest, OffersUnused
<1> QED
  BY <1>3, <1>4, <1>5, <1>6, <1>7, <1>8 DEF RelayInv

\* Every step of the relay, the agents and the network keeps the invariant.
LEMMA RelayStep == RelayInv /\ [Next]_vars => RelayInv'
<1> SUFFICES ASSUME RelayInv, [Next]_vars PROVE RelayInv'
  OBVIOUS
<1>1. ASSUME NEW m \in net, Serve(m) PROVE RelayInv'
  <2>1. UNCHANGED <<held, clientVars>>
    BY <1>1 DEF Serve
  <2>2. CASE RejectRegistration(m) \/ DropFrame(m)
    BY <2>1, <2>2, ReplyStep
  <2>3. CASE RepeatRegistration(m)
    BY <2>1, <2>3, RepeatStep
  <2>4. CASE \E l \in Least({k \in LeaseId : UnusedLease(k)}) : GrantRegistration(m, l)
    <3>1. PICK l \in LeaseId : UnusedLease(l) /\ GrantRegistration(m, l)
      BY <2>4 DEF Least
    <3> QED
      BY <2>1, <3>1, GrantStep
  <2>5. CASE HandleData(m) \/ HandleKeepalive(m)
    BY <2>1, <2>5, TakeStep
  <2> QED
    BY <1>1, <2>2, <2>3, <2>4, <2>5 DEF Serve
<1>2. CASE Deliver
  BY <1>1, <1>2, ReceiveStep, WorldStep DEF Deliver
<1>3. CASE Flush
  BY <1>3, FlushStep
<1>4. CASE CleanupTick \/ RelayStartsAgain
  BY <1>4, ForgetStep
<1>5. CASE Tick
  BY <1>5, TickStep
<1>6. CASE \E n \in Node : Maintain(n) \/ BackoffEnds(n) \/ WrapExpired(n)
  BY <1>6, MaintainStep, AgentStep
<1>7. CASE \E n \in Talkers : \E to \in Node \ {n} : Wrap(n, to)
  BY <1>7, WrapStep, RelayClientAssumption
<1>8. CASE \E m \in net : \E copy \in BOOLEAN : Divert(m, copy)
  BY <1>8, WorldStep
<1>9. CASE \E m \in held : Release(m)
  BY <1>9, WorldStep
<1>10. CASE \E n \in Node : Move(n) \/ ResetClient(n)
  BY <1>10, WorldStep, AgentStep
<1>11. CASE UNCHANGED vars
  <2>1. /\ UNCHANGED serverVars /\ net' \cup held' \subseteq net \cup held
        /\ client' = client /\ place' = place /\ frames' = frames /\ faults' = faults
    BY <1>11 DEF vars, clientVars
  <2>2. Types /\ place' \in [Node -> Places] /\ faults' \in 0 .. FaultBudget
    BY <2>1 DEF RelayInv, Types
  <2> QED
    BY <2>1, <2>2, SameClients, SendsNothing
<1> QED
  BY <1>2, <1>3, <1>4, <1>5, <1>6, <1>7, <1>8, <1>9, <1>10, <1>11 DEF Next

\* The inductive invariant holds throughout.
LEMMA RelayInvariance == Spec => []RelayInv
BY RelayInit, RelayStep, PTL DEF Spec

\* The state of relay and agents keeps its types, no more leases exist than
\* max_leases allows, no queue exceeds queue_packets_per_node and no more
\* answers are cached than the cache has room for.
THEOREM RelayTypes == Spec => []TypeOK
<1>1. RelayInv => TypeOK
  BY DEF RelayInv, Types, Bounded, TypeOK, ServerTypeOK, Registration
<1> QED
  BY <1>1, RelayInvariance, PTL

\* nodes and leases stay inverse to each other through registration,
\* replacement, cleanup and restarts.
THEOREM LeasesIndexed == Spec => []LeaseIndex
<1>1. RelayInv => LeaseIndex
  BY DEF RelayInv
<1> QED
  BY <1>1, RelayInvariance, PTL

\* A lease with packets is in active_queues exactly once and its flag says so,
\* whatever leases were replaced or cleaned up while they were listed.
THEOREM NoQueueForgotten == Spec => []QueuesScheduled
<1>1. RelayInv => QueuesScheduled
  BY QueueInvImplies DEF RelayInv
<1> QED
  BY <1>1, RelayInvariance, PTL

\* The relay queues a payload for its destination at most once, however often
\* its frame is repeated and whatever becomes of the lease.
THEOREM PayloadsForwardedOnce == Spec => []ForwardedOnce
<1>1. RelayInv => ForwardedOnce
  BY DEF RelayInv, PayloadInv, ForwardedOnce
<1> QED
  BY <1>1, RelayInvariance, PTL

\* An agent's counter for its lease is ahead of every frame of that lease
\* under way and of the relay's window, across renewals, late answers and
\* restarts.
THEOREM SequencesNeverReused == Spec => []SequenceAhead
<1>1. RelayInv => SequenceAhead
  BY DEF RelayInv, SequenceInv
<1> QED
  BY <1>1, RelayInvariance, PTL

-------------------------------------------------------------------------------
\* Request q may still reach the relay: a copy of it is under way, or the agent
\* that made it waits for the answer and would send it again.
Asked(q) ==
    \/ \E m \in net \cup held : m.type = "RegisterRequest" /\ m.request = q
    \/ \E n \in Node : client[n].request = q

\* While the request of a lease may still come, its answer is in the cache.
AnswersKept ==
    \A l \in Live :
        Asked(leases[l].request) =>
            \E r \in ToSet(registrations) :
                r.node = leases[l].node /\ r.request = leases[l].request

\* cache_registration has room for every answer that may be asked for: what a
\* full cache pushes out is the answer to a request that cannot come any more.
CacheSuffices ==
    Len(registrations) >= MaxCached =>
        RunOut(Head(registrations), {client[n].request : n \in Node})

\* An answer runs out when its request cannot come any more.
LEMMA RunOutUnasked ==
    \A r : RunOut(r, {client[n].request : n \in Node}) => ~Asked(r.request)
BY DEF RunOut, Asked

\* What a step may do to the requests that may come: none is new but one that
\* no lease was granted to.
AsksFollow == \A q : Asked(q)' => Asked(q) \/ \A l \in Live : leases[l].request # q

\* The leases after a step are those from before, for the same node and request.
RequestsStay ==
    /\ Live' \subseteq Live
    /\ \A l \in Live' : leases'[l].node = leases[l].node /\ leases'[l].request = leases[l].request

\* The answers that may be asked for stay in the cache.
AnswersStay == \A r \in ToSet(registrations) : Asked(r.request) => r \in ToSet(registrations')

\* A step with these three keeps the answers.
LEMMA KeepsAnswers ==
    ASSUME AnswersKept, AsksFollow, RequestsStay, AnswersStay
    PROVE  AnswersKept'
<1> SUFFICES ASSUME NEW l \in Live', Asked(leases[l].request)'
             PROVE  \E r \in ToSet(registrations') :
                       r.node = leases'[l].node /\ r.request = leases'[l].request
  BY DEF AnswersKept
<1>1. l \in Live /\ leases'[l].node = leases[l].node /\ leases'[l].request = leases[l].request
  BY DEF RequestsStay
<1>2. Asked(leases[l].request)
  <2>1. ASSUME NEW q, q = leases[l].request, q = leases'[l].request PROVE Asked(q)
    <3>1. Asked(q)'
      BY <2>1 DEF Asked
    <3> QED
      BY <1>1, <2>1, <3>1 DEF AsksFollow
  <2> QED
    BY <1>1, <2>1
<1>3. PICK r \in ToSet(registrations) : r.node = leases[l].node /\ r.request = leases[l].request
  BY <1>1, <1>2 DEF AnswersKept
<1> QED
  BY <1>1, <1>2, <1>3 DEF AnswersStay

\* Fewer requests may come when none is sent and no agent asks anew.
LEMMA AsksFewer ==
    ASSUME \A m \in net' \cup held' : m.type = "RegisterRequest" => m \in net \cup held,
           \A n \in Node : client'[n].request \in {NoId, client[n].request},
           Types
    PROVE  AsksFollow
<1> SUFFICES ASSUME NEW q, Asked(q)', NEW l \in Live, leases[l].request = q PROVE Asked(q)
  BY DEF AsksFollow
<1>1. q # NoId
  BY LiveFacts, RelayAssumption DEF Lease
<1> QED
  BY <1>1 DEF Asked

\* A step that leaves the relay alone, sends no request and starts none.
LEMMA QuietAnswers ==
    ASSUME AnswersKept, AsksFollow, UNCHANGED serverVars
    PROVE  AnswersKept'
<1>1. leases' = leases /\ registrations' = registrations /\ Live' = Live
  BY DEF serverVars, stateVars, Live
<1> QED
  BY <1>1, KeepsAnswers DEF RequestsStay, AnswersStay

\* maintain asks again for what it asked before, or with an id of its own.
LEMMA MaintainAsks ==
    ASSUME Types, NEW n \in Node, Maintain(n)
    PROVE  AsksFollow
<1>1. PICK c \in Client :
        /\ c.request \in {NoId, client[n].request} \/ (c.request \in RequestId /\ UnusedRequest(c.request))
        /\ client' = [client EXCEPT ![n] = SendKeepalive(c)]
        /\ net' = {Request(n, d) : d \in {e \in {c} : e.request # NoId}}
                  \cup {Keepalive(n, d) : d \in {e \in {c} : KeepaliveDue(e)}}
  BY MaintainClient
<1>2. client'[n].request = c.request /\ \A k \in Node \ {n} : client'[k] = client[k]
  BY <1>1, KeepaliveClient DEF Types
<1>3. held' = held
  BY DEF Maintain
<1>4. \A m \in net' : m.type = "RegisterRequest" => m.request = c.request
  BY <1>1 DEF Request, Keepalive
<1> SUFFICES ASSUME NEW q, Asked(q)', NEW l \in Live, leases[l].request = q PROVE Asked(q)
  BY DEF AsksFollow
<1>5. q # NoId
  BY LiveFacts, RelayAssumption DEF Lease
<1>6. CASE q = c.request
  BY <1>1, <1>5, <1>6 DEF Asked, UnusedRequest
<1>7. CASE q # c.request
  BY <1>2, <1>3, <1>4, <1>7 DEF Asked
<1> QED
  BY <1>6, <1>7

\* handle_registration remembers what it grants, and a full cache pushes out
\* an answer nobody can ask for.
LEMMA GrantKeepsAnswers ==
    ASSUME Types, AnswersKept, CacheSuffices, NEW m \in net, NEW l \in LeaseId,
           GrantRegistration(m, l), UNCHANGED <<held, clientVars>>
    PROVE  AnswersKept'
<1>1. /\ leases'[l] = NewLease(m) /\ Live' = (Live \ {nodes[m.node]}) \cup {l}
      /\ \A k \in Live' \ {l} : leases'[k] = leases[k]
  BY GrantLeases
<1>2. /\ Entry(m, l) \in Registration /\ registrations' = CacheRegistration(Entry(m, l))
      /\ net' = (net \ {m}) \cup {Response(Entry(m, l))}
  BY GrantAnswers
<1>3. /\ Entry(m, l) \in ToSet(registrations')
      /\ \A r \in ToSet(registrations) :
           r \in ToSet(registrations') \/ (Len(registrations) >= MaxCached /\ r = Head(registrations))
  BY <1>2, CacheEntries
<1>4. AnswersStay
  BY <1>3, RunOutUnasked DEF AnswersStay, CacheSuffices
<1>5. AsksFollow
  <2>1. Response(Entry(m, l)).type = "RegisterResponse"
    BY DEF Response
  <2>2. held' = held /\ client' = client
    BY DEF clientVars
  <2> QED
    BY <1>2, <2>1, <2>2 DEF AsksFollow, Asked
<1> SUFFICES ASSUME NEW k \in Live', Asked(leases[k].request)'
             PROVE  \E r \in ToSet(registrations') :
                       r.node = leases'[k].node /\ r.request = leases'[k].request
  BY DEF AnswersKept
<1>6. CASE k = l
  <2>1. /\ Entry(m, l).node = m.node /\ Entry(m, l).request = m.request
        /\ leases'[l].node = m.node /\ leases'[l].request = m.request
    BY <1>1 DEF Entry, NewLease
  <2> QED
    BY <1>3, <1>6, <2>1
<1>7. CASE k # l
  <2>1. k \in Live /\ leases'[k] = leases[k]
    BY <1>1, <1>7
  <2>2. ASSUME NEW q, q = leases[k].request PROVE Asked(q)
    <3>1. Asked(q)'
      BY <2>1, <2>2 DEF Asked
    <3> QED
      BY <1>5, <2>1, <2>2, <3>1 DEF AsksFollow
  <2>3. PICK r \in ToSet(registrations) : r.node = leases[k].node /\ r.request = leases[k].request
    BY <2>1, <2>2 DEF AnswersKept
  <2>4. Asked(r.request)
    BY <2>2, <2>3
  <2> QED
    BY <1>4, <2>1, <2>3, <2>4 DEF AnswersStay
<1> QED
  BY <1>6, <1>7

\* cleanup drops only answers that ran out; a restart drops the leases too.
LEMMA ForgetAnswers ==
    ASSUME Types, AnswersKept, CleanupTick \/ RelayStartsAgain
    PROVE  AnswersKept'
<1>1. CASE RelayStartsAgain
  BY <1>1, RestartLeases DEF RelayStartsAgain, AnswersKept
<1>2. CASE CleanupTick
  <2> DEFINE pending == {client[n].request : n \in Node}
  <2>1. Cleanup(pending) /\ net' = net /\ held' = held /\ client' = client
    BY <1>2 DEF CleanupTick, Cleanup, clientVars
  <2>2. RequestsStay
    BY <2>1, CleanupLeases DEF RequestsStay
  <2>3. AsksFollow
    BY <2>1 DEF AsksFollow, Asked
  <2>4. PICK first \in 1 .. Len(registrations) + 1 :
          /\ \A i \in 1 .. first - 1 : RunOut(registrations[i], pending)
          /\ registrations' = SubSeq(registrations, first, Len(registrations))
    BY <2>1 DEF Cleanup
  <2>5. AnswersStay
    <3> SUFFICES ASSUME NEW r \in ToSet(registrations), Asked(r.request)
                 PROVE  r \in ToSet(registrations')
      BY DEF AnswersStay
    <3> DEFINE n == Len(registrations)
    <3>1. registrations \in Seq(Registration) /\ n \in Nat /\ DOMAIN registrations = 1 .. n
      BY DEF Types
    <3>2. PICK i \in 1 .. n : r = registrations[i]
      BY <3>1 DEF ToSet
    <3>3. ~RunOut(registrations[i], pending)
      BY <3>2, RunOutUnasked
    <3> HIDE DEF pending
    <3>4. i >= first
      <4>1. i \notin 1 .. first - 1
        BY <2>4, <3>3
      <4> QED
        BY <3>1, <4>1
    <3>5. /\ registrations' = [j \in 1 .. (n - first + 1) |-> registrations[first + j - 1]]
          /\ DOMAIN registrations' = 1 .. (n - first + 1)
      BY <2>4, <3>1
    <3>6. (i - first + 1) \in 1 .. (n - first + 1) /\ first + (i - first + 1) - 1 = i
      BY <2>4, <3>1, <3>2, <3>4
    <3>7. registrations'[i - first + 1] = r
      BY <3>2, <3>5, <3>6
    <3> QED
      BY <3>5, <3>6, <3>7 DEF ToSet
  <2> QED
    BY <2>2, <2>3, <2>5, KeepsAnswers
<1> QED
  BY <1>1, <1>2

\* Steps that keep every lease with its node and request, and the cache.
LEMMA StayAnswers ==
    ASSUME Types, AnswersKept, LeasesStay, registrations' = registrations, AsksFollow
    PROVE  AnswersKept'
BY KeepsAnswers DEF LeasesStay, RequestsStay, AnswersStay

\* A step that does not grant keeps the answers whatever the cache holds.
LEMMA OtherAnswers ==
    ASSUME RelayInv, AnswersKept, [Next]_vars,
           ~\E m \in net : \E l \in LeaseId :
               GrantRegistration(m, l) /\ UNCHANGED <<held, clientVars>>
    PROVE  AnswersKept'
<1>0. Types /\ LeaseIndex
  BY DEF RelayInv
<1>1. ASSUME NEW m \in net, Serve(m) PROVE AnswersKept'
  <2>1. held' = held /\ client' = client /\ UNCHANGED <<held, clientVars>>
    BY <1>1 DEF Serve, clientVars
  <2>2. \A n \in Node : client'[n].request \in {NoId, client[n].request}
    BY <2>1
  <2>3. CASE RejectRegistration(m) \/ DropFrame(m)
    <3>1. UNCHANGED serverVars /\ net' \subseteq net
      BY <2>3 DEF RejectRegistration, DropFrame
    <3> QED
      BY <1>0, <2>1, <2>2, <3>1, AsksFewer, QuietAnswers
  <2>4. CASE RepeatRegistration(m)
    <3>1. UNCHANGED serverVars /\ net' = (net \ {m}) \cup {Response(r) : r \in Cached(m)}
      BY <2>4 DEF RepeatRegistration
    <3>2. \A r : Response(r).type = "RegisterResponse"
      BY DEF Response
    <3> QED
      BY <1>0, <2>1, <2>2, <3>1, <3>2, AsksFewer, QuietAnswers
  <2>5. CASE HandleData(m)
    <3>1. LeasesStay /\ net' \subseteq net /\ registrations' = registrations
      BY <1>0, <2>5, HandleDataLeases DEF HandleData
    <3> QED
      BY <1>0, <2>1, <2>2, <3>1, AsksFewer, StayAnswers
  <2>6. CASE HandleKeepalive(m)
    <3>1. /\ LeasesStay /\ registrations' = registrations
          /\ net' = (net \ {m}) \cup {KeepaliveResponse(m)}
      BY <1>0, <2>6, HandleKeepaliveLeases DEF HandleKeepalive
    <3>2. KeepaliveResponse(m).type = "KeepaliveResponse"
      BY DEF KeepaliveResponse
    <3> QED
      BY <1>0, <2>1, <2>2, <3>1, <3>2, AsksFewer, StayAnswers
  <2> QED
    BY <1>1, <2>1, <2>3, <2>4, <2>5, <2>6 DEF Serve, Least
<1>2. CASE Flush
  <2>1. /\ SkipEmptyQueue \/ FlushOne
        /\ held' = held /\ client' = client /\ registrations' = registrations
    BY <1>2 DEF Flush, SkipEmptyQueue, FlushOne, clientVars
  <2>2. LeasesStay
    BY <1>0, <2>1, SkipLeases, FlushLeases
  <2>3. \A m \in net' : m.type = "RegisterRequest" => m \in net
    BY <2>1 DEF SkipEmptyQueue, FlushOne
  <2> QED
    BY <1>0, <2>1, <2>2, <2>3, AsksFewer, StayAnswers
<1>3. CASE CleanupTick \/ RelayStartsAgain
  BY <1>0, <1>3, ForgetAnswers
<1>4. CASE Tick
  <2>1. LeasesStay /\ registrations' = registrations /\ net' = net /\ held' = held
    BY <1>0, <1>4, TickLeases DEF Tick
  <2>2. ASSUME NEW n \in Node PROVE client'[n].request = client[n].request
    BY <1>0, <1>4 DEF Tick, Types, Client
  <2> QED
    BY <1>0, <2>1, <2>2, AsksFewer, StayAnswers
<1>5. ASSUME NEW n \in Node, Maintain(n) PROVE AnswersKept'
  <2>1. UNCHANGED serverVars
    BY <1>5 DEF Maintain
  <2> QED
    BY <1>0, <1>5, <2>1, MaintainAsks, QuietAnswers
<1>6. ASSUME NEW n \in Node,
             \/ BackoffEnds(n) \/ WrapExpired(n) \/ ResetClient(n) \/ Move(n)
             \/ \E m \in net : Receive(n, m)
             \/ \E to \in Node : Wrap(n, to)
      PROVE  AnswersKept'
  <2>1. UNCHANGED serverVars /\ held' = held
    BY <1>6 DEF BackoffEnds, WrapExpired, ResetClient, Move, Receive, ReceiveResponse,
               ReceiveKeepaliveResponse, ReceiveForwarded, Wrap
  <2>2. \A m \in net' : m.type = "RegisterRequest" => m \in net
    BY <1>6 DEF BackoffEnds, WrapExpired, ResetClient, Move, Receive, ReceiveResponse,
               ReceiveKeepaliveResponse, ReceiveForwarded, Wrap, Frame
  <2>3. \A k \in Node : client'[k].request \in {NoId, client[k].request}
    <3>1. client \in [Node -> Client] /\ client[n] \in Client
      BY <1>0 DEF Types
    <3>2. \/ client' = client
          \/ client' = [client EXCEPT ![n].waiting = FALSE]
          \/ client' = [client EXCEPT ![n] = [client[n] EXCEPT !.lease = NoId, !.next = 0,
                                                     !.keepaliveDue = FALSE, !.silent = 0]]
          \/ client' = [client EXCEPT ![n] = NewClient]
          \/ \E l : client' = [client EXCEPT ![n] = [NewClient EXCEPT !.lease = l]]
          \/ client' = [client EXCEPT ![n].silent = 0]
          \/ client' = [client EXCEPT ![n].next = client[n].next + 1]
      BY <1>6 DEF BackoffEnds, WrapExpired, ResetClient, Move, Receive, ReceiveResponse,
                 ReceiveKeepaliveResponse, ReceiveForwarded, Wrap
    <3>3. \A k \in Node \ {n} : client'[k] = client[k]
      BY <3>1, <3>2
    <3>4. client'[n].request \in {NoId, client[n].request}
      <4>1. CASE client' = [client EXCEPT ![n] = NewClient]
        BY <3>1, <4>1 DEF NewClient
      <4>2. CASE \E l : client' = [client EXCEPT ![n] = [NewClient EXCEPT !.lease = l]]
        BY <3>1, <4>2 DEF NewClient
      <4>3. CASE client' = [client EXCEPT ![n] = [client[n] EXCEPT !.lease = NoId, !.next = 0,
                                                         !.keepaliveDue = FALSE, !.silent = 0]]
        BY <3>1, <4>3 DEF Client
      <4>4. CASE \/ client' = [client EXCEPT ![n].waiting = FALSE]
                 \/ client' = [client EXCEPT ![n].silent = 0]
                 \/ client' = [client EXCEPT ![n].next = client[n].next + 1]
        BY <3>1, <4>4 DEF Client
      <4> QED
        BY <3>2, <4>1, <4>2, <4>3, <4>4
    <3> QED
      BY <3>3, <3>4
  <2> QED
    BY <1>0, <2>1, <2>2, <2>3, AsksFewer, QuietAnswers
<1>7. CASE \/ \E m \in net : Undeliverable(m)
           \/ \E m \in net : \E copy \in BOOLEAN : Divert(m, copy)
           \/ \E m \in held : Release(m)
           \/ UNCHANGED vars
  <2>1. /\ UNCHANGED serverVars /\ net' \cup held' \subseteq net \cup held /\ client' = client
    BY <1>7 DEF Undeliverable, Divert, Release, clientVars, vars
  <2> QED
    BY <1>0, <2>1, AsksFewer, QuietAnswers
<1>8. CASE Deliver
  BY <1>1, <1>6, <1>7, <1>8 DEF Deliver
<1>9. CASE \E n \in Talkers : \E to \in Node \ {n} : Wrap(n, to)
  BY <1>6, <1>9, RelayClientAssumption
<1> QED
  BY <1>2, <1>3, <1>4, <1>5, <1>6, <1>7, <1>8, <1>9 DEF Next

\* A node's lease is replaced by a grant and by nothing else, and a grant to
\* the request the lease has already would have found its answer.
LEMMA GrantsAnew ==
    ASSUME RelayInv, AnswersKept, [Next]_vars, NEW n \in Node,
           nodes[n] # NoId, nodes'[n] \notin {NoId, nodes[n]}
    PROVE  leases[nodes[n]].request # leases'[nodes'[n]].request
<1>1. Types /\ LeaseIndex
  BY DEF RelayInv
<1>2. nodes[n] \in Live /\ leases[nodes[n]].node = n
  BY <1>1 DEF LeaseIndex
<1>3. \E m \in net : \E l \in LeaseId : GrantRegistration(m, l)
  BY <1>1 DEF Next, vars, serverVars, stateVars, Deliver, Serve, Undeliverable, Receive,
             RejectRegistration, RepeatRegistration, HandleData, HandleKeepalive, DropFrame,
             ReceiveResponse, ReceiveKeepaliveResponse, ReceiveForwarded, Least,
             Flush, SkipEmptyQueue, FlushOne, CleanupTick, Cleanup, NodesWithout, Tick,
             RelayStartsAgain, RestartRelay, Maintain, BackoffEnds, WrapExpired, Wrap,
             Divert, Release, Move, ResetClient, Types
<1>4. PICK m \in net, l \in LeaseId : GrantRegistration(m, l)
  BY <1>3
<1>5. /\ m.node \in Node /\ m.type = "RegisterRequest" /\ Cached(m) = {}
      /\ nodes' = [nodes EXCEPT ![m.node] = l] /\ leases'[l] = NewLease(m)
  BY <1>1, <1>4, GrantLeases DEF GrantRegistration
<1>6. n = m.node /\ nodes'[n] = l
  BY <1>1, <1>5 DEF Types
<1>7. leases'[nodes'[n]].request = m.request
  BY <1>5, <1>6 DEF NewLease
<1>8. Asked(m.request)
  BY <1>5 DEF Asked
<1> SUFFICES ASSUME leases[nodes[n]].request = m.request PROVE FALSE
  BY <1>7
<1>9. PICK r \in ToSet(registrations) : r.node = n /\ r.request = m.request
  BY <1>2, <1>8 DEF AnswersKept
<1> QED
  BY <1>5, <1>6, <1>9 DEF Cached

\* As long as the cache suffices for the answers that may be asked for again
\* (max(4 * max_leases, 16) of them fit), a registration never replaces the
\* lease it was granted itself, however its request is repeated, delayed or
\* sent again, through renewals, moves, cleanup and restarts of either side.
THEOREM RegistrationsGrantedOnce == Spec /\ []CacheSuffices => GrantedOnce
<1>1. Init => AnswersKept
  BY DEF Init, ServerInit, Live, AnswersKept
<1>2. RelayInv /\ AnswersKept /\ CacheSuffices /\ [Next]_vars => AnswersKept'
  <2> SUFFICES ASSUME RelayInv, AnswersKept, CacheSuffices, [Next]_vars PROVE AnswersKept'
    OBVIOUS
  <2>1. Types
    BY DEF RelayInv
  <2> QED
    BY <2>1, GrantKeepsAnswers, OtherAnswers
<1>3. RelayInv /\ AnswersKept /\ [Next]_vars =>
        [\A n \in Node :
           nodes[n] # NoId /\ nodes'[n] \notin {NoId, nodes[n]} =>
               leases[nodes[n]].request # leases'[nodes'[n]].request]_<<serverVars, net>>
  BY GrantsAnew
<1> QED
  BY <1>1, <1>2, <1>3, RelayInvariance, PTL DEF Spec, GrantedOnce
===============================================================================
