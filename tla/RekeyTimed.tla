------------------------------- MODULE RekeyTimed -------------------------------
(***************************************************************************)
(* The session of DataSession on a network with a clock.  A round is one   *)
(* KEY_UPDATE_RETRY_INTERVAL: each end makes one maintenance pass in it,   *)
(* and every datagram of the round is delivered or lost before the next    *)
(* pass.  Losses are counted against a budget, so an outage of k rounds is *)
(* a budget of what is sent in k rounds.                                   *)
(***************************************************************************)
EXTENDS DataSession

CONSTANT LossBudget    \* how many datagrams the network may lose

VARIABLES
    inflight,    \* datagrams of this round not yet delivered or lost
    passed,      \* the ends that have made their maintenance pass of the round
    losses       \* datagrams lost so far

timedVars == <<vars, inflight, passed, losses>>

TimedInit ==
    /\ Init
    /\ inflight = {}
    /\ passed = {}
    /\ losses = 0

\* What a step puts on the wire: new packets, and a retry's same bytes again.
Emitted ==
    (net' \ net) \cup
    {PendingPacket(n) : n \in {k \in Node :
        /\ pending[k] # NoKeyUpdate
        /\ pending'[k] # NoKeyUpdate
        /\ pending'[k].attempts > pending[k].attempts}}

TimedMaintain(n) ==
    /\ n \notin passed
    /\ inflight = {}
    /\ Maintain(n)
    /\ inflight' = inflight \cup Emitted
    /\ passed' = IF passed \cup {n} = Node THEN {} ELSE passed \cup {n}
    /\ UNCHANGED losses

TimedDeliver(n, m) ==
    /\ m \in inflight
    /\ m.from = Peer(n)
    /\ Receive(n, m) \/ ReceiveRejected(n, m)
    /\ inflight' = (inflight \ {m}) \cup Emitted
    /\ UNCHANGED <<passed, losses>>

Lose(m) ==
    /\ losses < LossBudget
    /\ inflight' = inflight \ {m}
    /\ losses' = losses + 1
    /\ UNCHANGED <<vars, passed>>

TimedAges(n) ==
    /\ sendEpoch[n] < MaxEpoch
    /\ EpochAges(n)
    /\ UNCHANGED <<inflight, passed, losses>>

TimedNext ==
    \/ \E n \in Node : TimedMaintain(n) \/ TimedAges(n)
    \/ \E n \in Node : \E m \in inflight : TimedDeliver(n, m)
    \/ \E m \in inflight : Lose(m)

\* The runtime's 100 ms maintenance ticker and its socket reader keep running;
\* nothing obliges the network to lose a packet or an epoch to age.
TimedFairness ==
    /\ \A n \in Node : WF_timedVars(TimedMaintain(n))
    /\ WF_timedVars(\E n \in Node : \E m \in inflight : TimedDeliver(n, m))

TimedSpec == TimedInit /\ [][TimedNext]_timedVars /\ TimedFairness

-------------------------------------------------------------------------------
\* Whatever a sender seals now, its peer can still open: the receiver holds
\* the key of the sender's epoch.  ADR-024 keeps the old sending epoch and
\* retries so that a lost acknowledgement does not leave the two ends with
\* different sending states (DECISIONS.md, ADR-024).
ReceiverHoldsSenderEpoch ==
    \A n \in Node : sendEpoch[n] \in {current[Peer(n)].epoch, previous[Peer(n)].epoch}

\* A rekey that falls due is eventually carried through (maintain_established,
\* handle_key_update, handle_key_update_ack), whatever the losses were.
RekeyCompletes ==
    \A n \in Node : RekeyDue(n) ~> ~RekeyDue(n)
===============================================================================
