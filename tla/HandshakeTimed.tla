---------------------------- MODULE HandshakeTimed ----------------------------
(***************************************************************************)
(* The handshake on a network with a clock: a round is one                 *)
(* HANDSHAKE_RETRY_INTERVAL, each running agent makes one maintenance pass *)
(* in it, and every message of the round is delivered or lost before the   *)
(* next pass.  Losses, restarts and configuration updates draw on one      *)
(* budget.                                                                 *)
(***************************************************************************)
EXTENDS Handshake

CONSTANT FaultBudget    \* how many losses, restarts and updates there may be

VARIABLES
    inflight,    \* messages of this round not yet delivered or lost
    passed,      \* the agents that have made their pass of the round
    faults       \* losses, restarts and updates so far

timedVars == <<vars, inflight, passed, faults>>

TimedInit ==
    /\ Init
    /\ inflight = {}
    /\ passed = {}
    /\ faults = 0

\* RetryState.encoded: the message a pending end keeps for retransmission.
PendingMessage(n) ==
    [type |-> peer[n].phase, hello |-> peer[n].hello, reply |-> peer[n].reply]

\* A pass finds nothing to do for an established peer, or would start a
\* handshake beyond the bound on ClientHellos (in the runs here none does).
NothingDue(n) ==
    /\ ~exited[n]
    /\ \/ peer[n].phase = "Established"
       \/ /\ hellos[n] = MaxHellos
          /\ \/ peer[n] = Idle
             \/ peer[n].phase = "ServerHello" /\ peer[n].attempts >= MaxAttempts

TimedMaintain(n) ==
    /\ n \notin passed
    /\ inflight = {}
    /\ \/ Maintain(n)
       \/ NothingDue(n) /\ UNCHANGED vars
    /\ inflight' = (net' \ net) \cup
                   (IF peer[n].phase \in Pending /\ peer'[n].attempts > peer[n].attempts
                    THEN {PendingMessage(n)} ELSE {})
    /\ passed' = IF passed \cup {n} = Node THEN {} ELSE passed \cup {n}
    /\ UNCHANGED faults

\* A pending end answers the peer's retry with its own bytes again.
AnswersAgain(n, m) ==
    \/ m.type = "ClientHello" /\ peer[n].phase = "ServerHello" /\ m.hello = peer[n].hello
    \/ m.type = "ServerHello" /\ peer[n].phase = "ClientFinish"

TimedDeliver(n, m) ==
    /\ m \in inflight
    /\ Receive(n, m)
    /\ inflight' = (inflight \ {m}) \cup (net' \ net) \cup
                   (IF AnswersAgain(n, m) THEN {PendingMessage(n)} ELSE {})
    /\ UNCHANGED <<passed, faults>>

Lose(m) ==
    /\ faults < FaultBudget
    /\ inflight' = inflight \ {m}
    /\ faults' = faults + 1
    /\ UNCHANGED <<vars, passed>>

\* Tunnel packets come while a handshake is under way; the packet that finds
\* the peer idle, and may end the agent, belongs to the run HandshakeExit.
TimedQueueTun(n) == QueueTun(n) /\ UNCHANGED <<inflight, passed, faults>>

TimedDisruption(n) ==
    /\ faults < FaultBudget
    /\ faults' = faults + 1
    /\ \/ Restart(n)
       \/ \E policyChanged, candidatesChanged \in BOOLEAN :
              ApplyConfiguration(n, policyChanged, candidatesChanged)
    /\ inflight' = inflight \cup (net' \ net)
    /\ UNCHANGED passed

TimedBackoffEnds(n) == BackoffEnds(n) /\ UNCHANGED <<inflight, passed, faults>>

TimedNext ==
    \/ \E n \in Node : TimedMaintain(n) \/ TimedBackoffEnds(n)
    \/ \E n \in Node : TimedQueueTun(n) \/ TimedDisruption(n)
    \/ \E n \in Node : \E m \in inflight : TimedDeliver(n, m)
    \/ \E m \in inflight : Lose(m)

\* The maintenance ticker and the socket reader keep running, and time passes;
\* packets and faults need not come.
TimedFairness ==
    /\ \A n \in Node : WF_timedVars(TimedMaintain(n)) /\ WF_timedVars(TimedBackoffEnds(n))
    /\ WF_timedVars(\E n \in Node : \E m \in inflight : TimedDeliver(n, m))

TimedSpec == TimedInit /\ [][TimedNext]_timedVars /\ TimedFairness

-------------------------------------------------------------------------------
\* A packet that waits for a session is sent or given up, never stuck.
QueueDrains == \A n \in Node : queue[n] > 0 ~> queue[n] = 0
===============================================================================
