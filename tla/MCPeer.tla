--------------------------------- MODULE MCPeer ---------------------------------
(***************************************************************************)
(* What two agents owe each other on a network that keeps every message    *)
(* and delivers any of them at any time: the data session once it is       *)
(* established, and the handshake that makes one, in one run.  A behaviour *)
(* is of one or of the other.  The ends of a session are interchangeable;  *)
(* those of a handshake, 1 and 2, are not: the smaller node id wins.       *)
(***************************************************************************)
EXTENDS DataSession, TLC

CONSTANTS MaxHellos, MaxReplies, MaxAttempts, MaxCandidateAttempts, MaxRecentHellos,
          MaxQueued, MaxConfigurations, MaxRestarts

ASSUME PeerAssumption ==
    /\ {MaxHellos, MaxReplies, MaxConfigurations, MaxRestarts} \subseteq Nat
    /\ {MaxAttempts, MaxCandidateAttempts, MaxRecentHellos, MaxQueued} \subseteq Nat \ {0}

VARIABLES part, peer, tries, backoff, queue, recent, hellos, replies, exited,
          configuration, restarts, messages, installed

handshakeVars == <<peer, tries, backoff, queue, recent, hellos, replies, exited,
                   configuration, restarts, messages, installed>>
peerVars == <<part, vars, handshakeVars>>

H == INSTANCE Handshake WITH A <- 1, B <- 2, net <- messages

Ends == Permutations(Node)

PeerInit == part \in {"session", "handshake"} /\ Init /\ H!Init

\* Bound: restarts or configuration updates, not both in one behaviour.
OneDisruption == configuration' = 0 \/ \A n \in H!Node : restarts'[n] = 0

PeerNext ==
    /\ UNCHANGED part
    /\ \/ part = "session" /\ Next /\ UNCHANGED handshakeVars
       \/ part = "handshake" /\ H!Next /\ OneDisruption /\ UNCHANGED vars

PeerSpec == PeerInit /\ [][PeerNext]_peerVars

-------------------------------------------------------------------------------
\* Key confirmation: a client holds a session only after its server installed
\* the very same one (handle_server_finish, accept_server_finish).
KeyConfirmation == H!KeyConfirmation

\* A ClientHello gives rise to one session at most for as long as the server's
\* cache holds it: unless the server was started again, it answers a hello a
\* second time only after MaxRecentHellos others (recent_client_hellos).
HelloAcceptedOnce == H!HelloAcceptedOnce

\* No end installs a session a second time, which would repeat nonces: not by
\* a retransmitted finish, a replayed hello or a restart (install_session).
InstalledOnce == H!InstalledOnce
===============================================================================
