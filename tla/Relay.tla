--------------------------------- MODULE Relay ---------------------------------
(***************************************************************************)
(* The agents' side of XSR/1 (RelayManager) and its composition with the   *)
(* relay: registration with retries and back-off, renewal before expiry,   *)
(* keepalives, the failure timeout, payloads wrapped in frames, agents     *)
(* that move to another address or start again, a relay that starts again. *)
(* Time advances in ticks of 15 s (RELAY_KEEPALIVE_INTERVAL); retries,     *)
(* which are faster, and back-off have steps of their own.  A datagram and *)
(* its answer take less than a retry interval (500 ms) unless a fault      *)
(* delays, repeats or loses them; a delayed one comes at any time.         *)
(***************************************************************************)
EXTENDS RelayServer

CONSTANTS
    MaxAttempts,    \* REGISTRATION_MAX_ATTEMPTS: 6
    RenewalMargin,  \* LEASE_RENEWAL_MARGIN_SECONDS in ticks: 2
    FailureTicks,   \* RELAY_FAILURE_TIMEOUT in ticks: 3
    MaxSequence,    \* bound on the frames of a lease
    Talkers,        \* the agents that have payloads to send
    FaultBudget     \* bound on faults: datagrams diverted, moves, restarts

ASSUME RelayClientAssumption ==
    /\ {MaxAttempts, FailureTicks} \subseteq Nat \ {0}
    /\ {RenewalMargin, MaxSequence, FaultBudget} \subseteq Nat
    /\ Talkers \subseteq Node

VARIABLES
    client,    \* RelayClient of each agent
    place,     \* where each agent is
    frames,    \* how many payloads have been wrapped
    faults     \* how many faults there have been

clientVars == <<client, place, frames, faults>>
vars == <<serverVars, net, held, clientVars>>

Client ==
    [lease        : LeaseId \cup {NoId},    \* lease.lease_id
     next         : 0 .. MaxSequence + 1,   \* lease.next_sequence
     keepaliveDue : BOOLEAN,                \* RELAY_KEEPALIVE_INTERVAL since the last
     silent       : 0 .. FailureTicks,      \* time since last_authenticated_activity
     request      : RequestId \cup {NoId},  \* pending.request_id
     attempts     : 0 .. MaxAttempts,       \* pending.attempts
     waiting      : BOOLEAN]                \* now < next_registration_at

TypeOK ==
    /\ ServerTypeOK
    /\ client \in [Node -> Client]
    /\ place \in [Node -> Places]
    /\ frames \in 0 .. MaxFrames
    /\ faults \in 0 .. FaultBudget

NewClient ==
    [lease |-> NoId, next |-> 0, keepaliveDue |-> FALSE, silent |-> 0,
     request |-> NoId, attempts |-> 0, waiting |-> FALSE]

Init ==
    /\ ServerInit
    /\ client = [n \in Node |-> NewClient]
    /\ place = [n \in Node |-> CHOOSE p \in Places : TRUE]
    /\ frames = 0
    /\ faults = 0

At(n) == <<n, place[n]>>

\* Random ids collide with none that anyone remembers.
UnusedLease(l) ==
    /\ leases[l] = NoLease
    /\ l \notin ToSet(activeQueues)
    /\ \A r \in ToSet(registrations) : r.lease # l
    /\ \A n \in Node : client[n].lease # l
    /\ \A m \in net \cup held : m.type \notin {"RegisterRequest", "Forwarded"} => m.lease # l

UnusedRequest(r) ==
    /\ \A l \in Live : leases[l].request # r
    /\ \A e \in ToSet(registrations) : e.request # r
    /\ \A n \in Node : client[n].request # r
    /\ \A m \in net \cup held : m.type \in {"RegisterRequest", "RegisterResponse"} => m.request # r

\* The least of them stands for all.
Least(ids) == {i \in ids : \A j \in ids : i <= j}

-------------------------------------------------------------------------------
\* maintain

LeaseFailed(c) == c.lease # NoId /\ (remaining[c.lease] = 0 \/ c.silent >= FailureTicks)

\* No lease, nothing pending, next_registration_at is now.
AfterFailure(c) ==
    IF LeaseFailed(c) THEN NewClient ELSE c

\* maintain_pending, REGISTRATION_RETRY_INTERVAL after the last attempt
MaintainPending(c) ==
    IF c.request = NoId THEN c
    ELSE IF c.attempts >= MaxAttempts
         THEN [c EXCEPT !.request = NoId, !.attempts = 0, !.waiting = TRUE]
         ELSE [c EXCEPT !.attempts = @ + 1]

RegistrationDue(c) ==
    /\ ~c.waiting
    /\ c.lease = NoId \/ remaining[c.lease] <= RenewalMargin

\* begin_registration
BeginRegistration(c) ==
    IF c.request = NoId /\ RegistrationDue(c)
    THEN {[c EXCEPT !.request = r, !.attempts = 1] :
             r \in Least({q \in RequestId : UnusedRequest(q)})}
    ELSE {c}

KeepaliveDue(c) == c.lease # NoId /\ c.keepaliveDue /\ c.next <= MaxSequence

SendKeepalive(c) ==
    IF KeepaliveDue(c) THEN [c EXCEPT !.next = @ + 1, !.keepaliveDue = FALSE] ELSE c

Request(n, c) ==
    [type |-> "RegisterRequest", node |-> n, endpoint |-> At(n), request |-> c.request]

Keepalive(n, c) ==
    [type |-> "Keepalive", node |-> n, endpoint |-> At(n), lease |-> c.lease, sequence |-> c.next]

Maintain(n) ==
    /\ net = {}
    /\ \E c \in BeginRegistration(MaintainPending(AfterFailure(client[n]))) :
           /\ client' = [client EXCEPT ![n] = SendKeepalive(c)]
           /\ net' = {Request(n, d) : d \in {e \in {c} : e.request # NoId}}
                     \cup {Keepalive(n, d) : d \in {e \in {c} : KeepaliveDue(e)}}
    /\ client' # client
    /\ UNCHANGED <<serverVars, held, place, frames, faults>>

\* Mutant: only a renewal is tried again.
BackoffOfRenewal(n) ==
    /\ client[n].waiting
    /\ client[n].lease # NoId
    /\ client' = [client EXCEPT ![n].waiting = FALSE]
    /\ UNCHANGED <<serverVars, net, held, place, frames, faults>>

\* next_registration_at is reached.
BackoffEnds(n) ==
    /\ client[n].waiting
    /\ client' = [client EXCEPT ![n].waiting = FALSE]
    /\ UNCHANGED <<serverVars, net, place, held, frames, faults>>

-------------------------------------------------------------------------------
\* encode_relay_frame: what the lease of the agent carries next.
Frame(n, to, payload) ==
    [type |-> "Data", node |-> n, endpoint |-> At(n), to |-> to, lease |-> client[n].lease,
     sequence |-> client[n].next, payload |-> payload]

\* wrap
Wrap(n, to) ==
    /\ frames < MaxFrames
    /\ client[n].lease # NoId
    /\ remaining[client[n].lease] > 0
    /\ client[n].next <= MaxSequence
    /\ frames' = frames + 1
    /\ client' = [client EXCEPT ![n].next = @ + 1]
    /\ net' = net \cup {Frame(n, to, frames')}
    /\ UNCHANGED <<serverVars, held, place, faults>>

WrapExpired(n) ==
    /\ client[n].lease # NoId
    /\ remaining[client[n].lease] = 0
    /\ client' = [client EXCEPT ![n] = [@ EXCEPT !.lease = NoId, !.next = 0,
                                                 !.keepaliveDue = FALSE, !.silent = 0]]
    /\ UNCHANGED <<serverVars, net, place, held, frames, faults>>

-------------------------------------------------------------------------------
\* handle_datagram

\* Mutant: any response of the relay is taken.
AcceptsAny(n, m) == remaining[m.lease] > 0

AcceptsResponse(n, m) == client[n].request = m.request /\ remaining[m.lease] > 0

ReceiveResponse(n, m) ==
    /\ m.type = "RegisterResponse"
    /\ m.endpoint = At(n)
    /\ client' = IF AcceptsResponse(n, m)
                 THEN [client EXCEPT ![n] = [NewClient EXCEPT !.lease = m.lease]]
                 ELSE client
    /\ net' = net \ {m}
    /\ UNCHANGED <<serverVars, place, held, frames, faults>>

ReceiveKeepaliveResponse(n, m) ==
    /\ m.type = "KeepaliveResponse"
    /\ m.endpoint = At(n)
    /\ client' = IF client[n].lease = m.lease THEN [client EXCEPT ![n].silent = 0] ELSE client
    /\ net' = net \ {m}
    /\ UNCHANGED <<serverVars, place, held, frames, faults>>

\* The data plane gets the payload; if it authenticates it, it calls
\* authenticate_activity.
ReceiveForwarded(n, m, authenticated) ==
    /\ m.type = "Forwarded"
    /\ m.endpoint = At(n)
    /\ client' = IF /\ authenticated
                    /\ client[n].lease # NoId
                    /\ remaining[client[n].lease] > 0
                 THEN [client EXCEPT ![n].silent = 0] ELSE client
    /\ net' = net \ {m}
    /\ UNCHANGED <<serverVars, place, held, frames, faults>>

-------------------------------------------------------------------------------
\* Nothing of what happens within a keepalive interval is left to do.
Settled ==
    /\ net = {}
    /\ activeQueues = <<>>
    /\ ~CleanupDue({client[n].request : n \in Node})
    /\ \A n \in Node :
           LET c == client[n]
           IN  ~LeaseFailed(c) /\ c.request = NoId /\ ~RegistrationDue(c) /\ ~KeepaliveDue(c)

\* A keepalive interval passes for everyone.
Tick ==
    /\ Settled
    /\ remaining' = [l \in LeaseId |->
           IF remaining[l] = 0 \/ UnusedLease(l) THEN 0 ELSE remaining[l] - 1]
    /\ leases' = [l \in LeaseId |->
           IF l \in Live /\ leases[l].idle < IdleTicks
           THEN [leases[l] EXCEPT !.idle = @ + 1] ELSE leases[l]]
    /\ client' = [n \in Node |->
           IF client[n].lease = NoId THEN client[n]
           ELSE [client[n] EXCEPT !.keepaliveDue = TRUE,
                                  !.silent = IF @ < FailureTicks THEN @ + 1 ELSE @]]
    /\ UNCHANGED <<nodes, activeQueues, registrations, net, held, forwarded, place, frames, faults>>

-------------------------------------------------------------------------------
\* Faults

Fault == faults < FaultBudget /\ faults' = faults + 1

\* The network delays m, perhaps for ever, or keeps a copy of it.
Divert(m, copy) ==
    /\ Fault
    /\ held' = held \cup {m}
    /\ net' = IF copy THEN net ELSE net \ {m}
    /\ UNCHANGED <<serverVars, client, place, frames>>

Release(m) ==
    /\ held' = held \ {m}
    /\ net' = net \cup {m}
    /\ UNCHANGED <<serverVars, clientVars>>

\* Nobody is at the address m was sent to any more.
Undeliverable(m) ==
    /\ m.type \in {"RegisterResponse", "KeepaliveResponse", "Forwarded"}
    /\ \A n \in Node : m.endpoint # At(n)
    /\ net' = net \ {m}
    /\ UNCHANGED <<serverVars, held, clientVars>>

\* The address the relay sees of an agent changes.
Move(n) ==
    /\ Fault
    /\ \E p \in Places \ {place[n]} : place' = [place EXCEPT ![n] = p]
    /\ UNCHANGED <<serverVars, net, held, client, frames>>

\* An agent starts again, or a configuration replaces its entry for the relay
\* (apply_configuration, and maintain for an entry that ran out).
ResetClient(n) ==
    /\ Fault
    /\ client[n] # NewClient
    /\ client' = [client EXCEPT ![n] = NewClient]
    /\ UNCHANGED <<serverVars, net, held, place, frames>>

RelayStartsAgain ==
    /\ Fault
    /\ RestartRelay
    /\ UNCHANGED <<held, client, place, frames>>

-------------------------------------------------------------------------------
\* The relay reads m.
Serve(m) ==
    /\ \/ RejectRegistration(m)
       \/ RepeatRegistration(m)
       \/ \E l \in Least({k \in LeaseId : UnusedLease(k)}) : GrantRegistration(m, l)
       \/ HandleData(m)
       \/ HandleKeepalive(m)
       \/ DropFrame(m)
    /\ UNCHANGED <<held, clientVars>>

\* Agent n reads m.
Receive(n, m) ==
    \/ ReceiveResponse(n, m)
    \/ ReceiveKeepaliveResponse(n, m)
    \/ \E authenticated \in BOOLEAN : ReceiveForwarded(n, m, authenticated)

Deliver == \E m \in net : Serve(m) \/ Undeliverable(m) \/ \E n \in Node : Receive(n, m)

Flush == (SkipEmptyQueue \/ FlushOne) /\ UNCHANGED <<held, clientVars>>

CleanupTick == Cleanup({client[n].request : n \in Node}) /\ UNCHANGED <<held, clientVars>>

Next ==
    \/ Deliver \/ Flush \/ CleanupTick \/ Tick \/ RelayStartsAgain
    \/ \E n \in Node : Maintain(n) \/ BackoffEnds(n) \/ WrapExpired(n)
    \/ \E n \in Talkers : \E to \in Node \ {n} : Wrap(n, to)
    \/ \E m \in net : \E copy \in BOOLEAN : Divert(m, copy)
    \/ \E m \in held : Release(m)
    \/ \E n \in Node : Move(n) \/ ResetClient(n)

\* The agents' and the relay's loops run, the network delivers what it has
\* not diverted, time passes; payloads and faults need not come.
Fairness ==
    /\ WF_vars(Deliver) /\ WF_vars(Flush) /\ WF_vars(CleanupTick) /\ WF_vars(Tick)
    /\ \A n \in Node : WF_vars(Maintain(n)) /\ WF_vars(BackoffEnds(n))

Spec == Init /\ [][Next]_vars

LiveSpec == Spec /\ Fairness

-------------------------------------------------------------------------------
\* A lease's sequences are never used again: whatever carries one, under way
\* or seen by the relay, is behind the agent's counter (wrap, the keepalives
\* of maintain and handle_datagram, across renewals and late answers).
SequenceAhead ==
    \A n \in Node :
        LET l == client[n].lease
        IN  l # NoId =>
            /\ \A m \in net \cup held :
                   m.type \in {"Data", "Keepalive"} /\ m.lease = l => m.sequence < client[n].next
            /\ l \in Live => leases[l].replay.highest < client[n].next

\* The relay would take what agent n sends now.
Connected(n) ==
    /\ client[n].lease # NoId
    /\ nodes[n] = client[n].lease
    /\ leases[nodes[n]].endpoint = At(n)
    /\ remaining[nodes[n]] > 0

\* An agent whose lease was lost, replaced by a late request, left behind by a
\* move, or forgotten by the relay comes to hold a working one again
\* (maintain: retry, back-off, failure timeout, renewal).
Reconnects == \A n \in Node : []<>Connected(n)
===============================================================================
