-------------------------------- MODULE MCTimed --------------------------------
(***************************************************************************)
(* The two protocols between agents that must make progress on a network   *)
(* with a clock and losses, the handshake that makes a session and the     *)
(* rekeying of one, in one run: a behaviour is of one or of the other.     *)
(***************************************************************************)
EXTENDS RekeyTimed

CONSTANTS MaxHellos, MaxReplies, MaxAttempts, MaxCandidateAttempts, MaxRecentHellos,
          MaxQueued, MaxConfigurations, MaxRestarts, FaultBudget

ASSUME TimedAssumption ==
    /\ {MaxHellos, MaxReplies, MaxConfigurations, MaxRestarts, FaultBudget} \subseteq Nat
    /\ {MaxAttempts, MaxCandidateAttempts, MaxRecentHellos, MaxQueued} \subseteq Nat \ {0}

VARIABLES part, peer, tries, backoff, queue, recent, hellos, replies, exited,
          configuration, restarts, installed, faults

sessionVars == <<senderVars, receiverVars, losses>>
handshakeVars == <<peer, tries, backoff, queue, recent, hellos, replies, exited,
                   configuration, restarts, installed, faults>>
partVars == <<part, sessionVars, handshakeVars, net, inflight, passed>>

H == INSTANCE HandshakeTimed

PartsInit == part \in {"rekey", "handshake"} /\ TimedInit /\ H!TimedInit

Rekeying(step) == part = "rekey" /\ step /\ UNCHANGED <<part, handshakeVars>>
Handshaking(step) == part = "handshake" /\ step /\ UNCHANGED <<part, sessionVars>>

PartsNext == Rekeying(TimedNext) \/ Handshaking(H!TimedNext)

\* The fairness of RekeyTimed and of HandshakeTimed: the part never changes, so
\* a disjunction is the action of the part.
PartsFairness ==
    /\ \A n \in Node : /\ WF_partVars(\/ Rekeying(TimedMaintain(n))
                                     \/ Handshaking(H!TimedMaintain(n)))
                       /\ WF_partVars(Handshaking(H!TimedBackoffEnds(n)))
    /\ WF_partVars(\E n \in Node : \E m \in inflight :
                      \/ Rekeying(TimedDeliver(n, m))
                      \/ Handshaking(H!TimedDeliver(n, m)))

PartsSpec == PartsInit /\ [][PartsNext]_partVars /\ PartsFairness

-------------------------------------------------------------------------------
\* Two agents that can reach each other end up holding the same session and
\* keep it, from any mix of simultaneous starts, faults, a half-open session,
\* a restart or a policy change (handle_client_hello's tie-break, maintain).
EventuallyAgreed == <>[](part = "handshake" => H!Agreed)

\* A packet that waits for a session is sent or given up, never stuck.
QueueDrains == H!QueueDrains
===============================================================================
