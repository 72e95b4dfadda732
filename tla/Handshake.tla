------------------------------- MODULE Handshake -------------------------------
(***************************************************************************)
(* The XSP/1 handshake between two agents as the data plane runs it: one   *)
(* PeerState per end, either of which may start as client at any time,     *)
(* bounded retries and candidates, back-off, the simultaneous-open rule,   *)
(* the cache of accepted ClientHellos, packets queued until a session is   *)
(* installed, configuration updates, restarts, and the error that ends the *)
(* agent.  The network keeps every message sent and delivers any of them   *)
(* at any time, any number of times.  A message is what its transcript     *)
(* binds: which ClientHello, and which ServerHello answering it.           *)
(***************************************************************************)
EXTENDS Integers, Sequences, SequencesExt

CONSTANTS
    A, B,                  \* the two agents; A has the smaller node id
    MaxHellos,             \* bound on the ClientHellos each agent makes
    MaxReplies,            \* bound on the ServerHellos each agent makes
    MaxAttempts,           \* HANDSHAKE_MAX_ATTEMPTS: 6
    MaxCandidateAttempts,  \* MAX_HANDSHAKE_CANDIDATES_PER_CYCLE: 8
    MaxRecentHellos,       \* MAX_RECENT_CLIENT_HELLOS: 64
    MaxQueued,             \* MAX_QUEUED_PACKETS_PER_PEER: 32
    MaxConfigurations,     \* bound on configuration updates
    MaxRestarts            \* bound on restarts

VARIABLES
    peer,           \* PeerState each agent keeps for the other
    tries,          \* handshake_candidate_attempts of the cycle
    backoff,        \* now < next_proactive_handshake_at
    queue,          \* how many packets wait for a session
    recent,         \* recent_client_hellos, oldest first
    hellos,         \* how many ClientHellos an agent has made
    replies,        \* how many ServerHellos an agent has made
    exited,         \* the runtime loop ended with an error
    configuration,  \* how many configuration updates have been applied, by either end
    restarts,       \* how often an agent has been started again
    net,            \* every message sent so far
    installed       \* history: the sessions each agent has installed, and those more than once

vars == <<peer, tries, backoff, queue, recent, hellos, replies, exited,
          configuration, restarts, net, installed>>

Node == {A, B}
Peer(n) == IF n = A THEN B ELSE A

Hello == [client : Node, id : 1 .. MaxHellos]
NoHello == [client |-> A, id |-> 0]

\* A session is the pair of hellos its traffic secrets are derived from.
Session == [hello : Hello, reply : 1 .. MaxReplies]

Message ==
    [type : {"ClientHello"}, hello : Hello, reply : {0}]
    \cup [type : {"ServerHello", "ClientFinish", "ServerFinish"},
          hello : Hello, reply : 1 .. MaxReplies]

Pending == {"ClientHello", "ClientFinish", "ServerHello"}
ClientPhase == {"ClientHello", "ClientFinish"}

Idle == [phase |-> "Idle", hello |-> NoHello, reply |-> 0, attempts |-> 0]

PeerState ==
    {Idle}
    \cup [phase : {"ClientHello"}, hello : Hello, reply : {0}, attempts : 1 .. MaxAttempts]
    \cup [phase : {"ClientFinish", "ServerHello"}, hello : Hello,
          reply : 1 .. MaxReplies, attempts : 1 .. MaxAttempts]
    \cup [phase : {"Established"}, hello : Hello, reply : 1 .. MaxReplies, attempts : {0}]

TypeOK ==
    /\ peer \in [Node -> PeerState]
    /\ tries \in [Node -> 0 .. MaxCandidateAttempts]
    /\ backoff \in [Node -> BOOLEAN]
    /\ queue \in [Node -> 0 .. MaxQueued]
    /\ recent \in [Node -> Seq(Hello)]
    /\ \A n \in Node : Len(recent[n]) <= MaxRecentHellos
    /\ hellos \in [Node -> 0 .. MaxHellos]
    /\ replies \in [Node -> 0 .. MaxReplies]
    /\ exited \in [Node -> BOOLEAN]
    /\ configuration \in 0 .. MaxConfigurations
    /\ restarts \in [Node -> 0 .. MaxRestarts]
    /\ net \subseteq Message
    /\ installed \in [Node -> [once : SUBSET Session, again : SUBSET Session]]

Init ==
    /\ peer = [n \in Node |-> Idle]
    /\ tries = [n \in Node |-> 0]
    /\ backoff = [n \in Node |-> FALSE]
    /\ queue = [n \in Node |-> 0]
    /\ recent = [n \in Node |-> <<>>]
    /\ hellos = [n \in Node |-> 0]
    /\ replies = [n \in Node |-> 0]
    /\ exited = [n \in Node |-> FALSE]
    /\ configuration = 0
    /\ restarts = [n \in Node |-> 0]
    /\ net = {}
    /\ installed = [n \in Node |-> [once |-> {}, again |-> {}]]

-------------------------------------------------------------------------------
ServerPart == <<recent, replies, installed>>
Lifetime == <<exited, configuration, restarts>>

Becomes(n, phase, hello, reply) ==
    peer' = [peer EXCEPT ![n] = [phase |-> phase, hello |-> hello, reply |-> reply,
                                 attempts |-> IF phase \in Pending THEN 1 ELSE 0]]
Sends(type, hello, reply) ==
    net' = net \cup {[type |-> type, hello |-> hello, reply |-> reply]}

\* begin_client_handshake of an idle peer after t attempts of this cycle.
BeginClientHandshake(n, t) ==
    LET hello == [client |-> n, id |-> hellos[n] + 1]
    IN  /\ t < MaxCandidateAttempts
        /\ hellos[n] < MaxHellos
        /\ hellos' = [hellos EXCEPT ![n] = @ + 1]
        /\ tries' = [tries EXCEPT ![n] = t + 1]
        /\ Becomes(n, "ClientHello", hello, 0)
        /\ Sends("ClientHello", hello, 0)

\* clear_queue: it drops the queued packets and the state with them.
ClearQueue(n) ==
    /\ queue' = [queue EXCEPT ![n] = 0]
    /\ peer' = [peer EXCEPT ![n] = Idle]

\* schedule_handshake_retry
ScheduleHandshakeRetry(n) ==
    /\ ClearQueue(n)
    /\ tries' = [tries EXCEPT ![n] = 0]
    /\ backoff' = [backoff EXCEPT ![n] = TRUE]
    /\ UNCHANGED <<hellos, net>>

\* forward_tun while a handshake is under way: the packet waits, unless the
\* queue is full and it is dropped.
QueueTun(n) ==
    /\ ~exited[n]
    /\ peer[n].phase \in Pending
    /\ queue[n] < MaxQueued
    /\ queue' = [queue EXCEPT ![n] = @ + 1]
    /\ UNCHANGED <<peer, tries, backoff, hellos, net, ServerPart, Lifetime>>

\* forward_tun of an idle peer: the packet is queued and starts a handshake,
\* back-off or not.  begin_client_handshake refuses once the cycle's attempts
\* are used up; the error ends the runtime loop.
StartByTun(n) ==
    /\ ~exited[n]
    /\ peer[n] = Idle
    /\ queue[n] < MaxQueued
    /\ queue' = [queue EXCEPT ![n] = @ + 1]
    /\ IF tries[n] < MaxCandidateAttempts
       THEN BeginClientHandshake(n, tries[n]) /\ UNCHANGED exited
       ELSE /\ exited' = [exited EXCEPT ![n] = TRUE]
            /\ UNCHANGED <<peer, tries, hellos, net>>
    /\ UNCHANGED <<backoff, configuration, restarts, ServerPart>>

-------------------------------------------------------------------------------
\* Mutant: an accepted hello is not remembered.
RememberNothing(list, hello) == list

\* remember_client_hello
Remember(list, hello) ==
    Append(IF Len(list) >= MaxRecentHellos THEN Tail(list) ELSE list, hello)

\* Mutant: an established end ignores hellos as well.
KeepsSession(n) ==
    (peer[n].phase \in ClientPhase /\ n = A) \/ peer[n].phase = "Established"

\* The simultaneous-open rule: of two clients the one with the smaller id wins.
KeepsOwnHello(n) == peer[n].phase \in ClientPhase /\ n = A

\* ServerHelloSent::accept: a fresh key pair answers the hello.
Accept(n, hello) ==
    /\ replies' = [replies EXCEPT ![n] = @ + 1]
    /\ Becomes(n, "ServerHello", hello, replies[n] + 1)
    /\ Sends("ServerHello", hello, replies[n] + 1)

\* handle_client_hello, from whatever state but the ones that ignore it.
AcceptClientHello(n, m) ==
    /\ ~exited[n]
    /\ m.type = "ClientHello"
    /\ m.hello.client = Peer(n)
    /\ ~(peer[n].phase = "ServerHello" /\ peer[n].hello = m.hello)
    /\ m.hello \notin ToSet(recent[n])
    /\ ~KeepsOwnHello(n)
    /\ replies[n] < MaxReplies
    /\ recent' = [recent EXCEPT ![n] = Remember(@, m.hello)]
    /\ Accept(n, m.hello)
    /\ UNCHANGED <<tries, backoff, queue, hellos, installed, Lifetime>>

\* handle_client_hello ignores a hello it has accepted before and, as the
\* winning client, its peer's; the one it is answering gets the same
\* ServerHello again.
IgnoreClientHello(n, m) ==
    /\ ~exited[n]
    /\ m.type = "ClientHello"
    /\ m.hello.client = Peer(n)
    /\ \/ peer[n].phase = "ServerHello" /\ peer[n].hello = m.hello
       \/ m.hello \in ToSet(recent[n])
       \/ KeepsOwnHello(n)
    /\ UNCHANGED vars

\* Mutant: the client installs the session without waiting for ServerFinish.
EstablishOnServerHello(n, m) ==
    /\ ~exited[n]
    /\ m.type = "ServerHello"
    /\ m.hello.client = n
    /\ peer[n].phase = "ClientHello"
    /\ IF m.hello = peer[n].hello
       THEN /\ Becomes(n, "Established", m.hello, m.reply)
            /\ Sends("ClientFinish", m.hello, m.reply)
            /\ UNCHANGED queue
       ELSE ClearQueue(n) /\ UNCHANGED net
    /\ UNCHANGED <<tries, backoff, hellos, ServerPart, Lifetime>>

\* ClientHelloSent::accept_server_hello, for the answer to its own hello.
AcceptServerHello(n, m) ==
    /\ Becomes(n, "ClientFinish", m.hello, m.reply)
    /\ Sends("ClientFinish", m.hello, m.reply)

\* handle_server_hello of a client that waits for one.  A ServerHello that
\* answers another hello fails verification and ends the attempt.
ReceiveServerHello(n, m) ==
    /\ ~exited[n]
    /\ m.type = "ServerHello"
    /\ m.hello.client = n
    /\ peer[n].phase = "ClientHello"
    /\ IF m.hello = peer[n].hello
       THEN AcceptServerHello(n, m) /\ UNCHANGED queue
       ELSE ClearQueue(n) /\ UNCHANGED net
    /\ UNCHANGED <<tries, backoff, hellos, ServerPart, Lifetime>>

\* The history of installed sessions.
Records(n, session) ==
    installed' = [installed EXCEPT ![n] = [once  |-> @.once \cup {session},
                                           again |-> @.again \cup (@.once \cap {session})]]

\* Mutant: the queue is not flushed into the new session.
InstallKeepsQueue(n, m) ==
    /\ Becomes(n, "Established", m.hello, m.reply)
    /\ Records(n, [hello |-> m.hello, reply |-> m.reply])
    /\ tries' = [tries EXCEPT ![n] = 0]
    /\ backoff' = [backoff EXCEPT ![n] = FALSE]
    /\ UNCHANGED queue

\* install_session: the queue is sealed and sent, the failure counts reset.
InstallSession(n, m) ==
    /\ Becomes(n, "Established", m.hello, m.reply)
    /\ Records(n, [hello |-> m.hello, reply |-> m.reply])
    /\ queue' = [queue EXCEPT ![n] = 0]
    /\ tries' = [tries EXCEPT ![n] = 0]
    /\ backoff' = [backoff EXCEPT ![n] = FALSE]

AbandonHandshake(n) ==
    /\ ClearQueue(n)
    /\ UNCHANGED <<tries, backoff, installed, net>>

\* The finish an end waits for belongs to its own pair of hellos.
Matches(n, m) == m.hello = peer[n].hello /\ m.reply = peer[n].reply

\* Mutant: an established server answers a repeated ClientFinish by deriving
\* the session again.
ReceiveClientFinishAgain(n, m) ==
    /\ ~exited[n]
    /\ m.type = "ClientFinish"
    /\ m.hello.client = Peer(n)
    /\ peer[n].phase \in {"ServerHello", "Established"}
    /\ IF Matches(n, m)
       THEN InstallSession(n, m) /\ Sends("ServerFinish", m.hello, m.reply)
       ELSE AbandonHandshake(n)
    /\ UNCHANGED <<recent, replies, hellos, Lifetime>>

\* ServerHelloSent::accept_client_finish and ClientFinishSent::accept_server_finish,
\* for the finish of the end's own pair of hellos.
AcceptClientFinish(n, m) == InstallSession(n, m) /\ Sends("ServerFinish", m.hello, m.reply)
AcceptServerFinish(n, m) == InstallSession(n, m) /\ UNCHANGED net

\* handle_client_finish
ReceiveClientFinish(n, m) ==
    /\ ~exited[n]
    /\ m.type = "ClientFinish"
    /\ m.hello.client = Peer(n)
    /\ peer[n].phase = "ServerHello"
    /\ IF Matches(n, m)
       THEN AcceptClientFinish(n, m)
       ELSE AbandonHandshake(n)
    /\ UNCHANGED <<recent, replies, hellos, Lifetime>>

\* handle_server_finish
ReceiveServerFinish(n, m) ==
    /\ ~exited[n]
    /\ m.type = "ServerFinish"
    /\ m.hello.client = n
    /\ peer[n].phase = "ClientFinish"
    /\ IF Matches(n, m)
       THEN AcceptServerFinish(n, m)
       ELSE AbandonHandshake(n)
    /\ UNCHANGED <<recent, replies, hellos, Lifetime>>

\* Every other message meets a state that has no use for it; a ServerHello in
\* ClientFinish at most repeats the ClientFinish that is already sent.
IgnoreMessage(n, m) ==
    /\ ~exited[n]
    /\ \/ m.type = "ServerHello" /\ m.hello.client = n /\ peer[n].phase # "ClientHello"
       \/ m.type = "ClientFinish" /\ m.hello.client = Peer(n) /\ peer[n].phase # "ServerHello"
       \/ m.type = "ServerFinish" /\ m.hello.client = n /\ peer[n].phase # "ClientFinish"
    /\ UNCHANGED vars

-------------------------------------------------------------------------------
\* The end of a maintenance pass for a peer found or left idle, with t
\* attempts, back-off b and q queued packets: a used-up cycle backs off,
\* otherwise the next handshake starts as soon as the back-off is over.
IdlePass(n, t, b, q) ==
    \/ /\ t >= MaxCandidateAttempts
       /\ ScheduleHandshakeRetry(n)
    \/ /\ t < MaxCandidateAttempts
       /\ ~b
       /\ BeginClientHandshake(n, t)
       /\ backoff' = [backoff EXCEPT ![n] = b]
       /\ queue' = [queue EXCEPT ![n] = q]
    \/ /\ t < MaxCandidateAttempts
       /\ b
       /\ peer' = [peer EXCEPT ![n] = Idle]
       /\ tries' = [tries EXCEPT ![n] = t]
       /\ backoff' = [backoff EXCEPT ![n] = b]
       /\ queue' = [queue EXCEPT ![n] = q]
       /\ UNCHANGED <<hellos, net>>

\* RetryAction::Send: the same bytes again.
Retransmit(n) ==
    /\ peer[n].phase \in Pending
    /\ peer[n].attempts < MaxAttempts
    /\ peer' = [peer EXCEPT ![n].attempts = @ + 1]
    /\ UNCHANGED <<tries, backoff, queue, hellos, net>>

\* RetryAction::Expired of a client: the next candidate endpoint, if there is
\* one and the cycle has attempts left, else back-off.  Which endpoint is
\* active is left out: whether another one follows is a free choice.
ClientExpires(n) ==
    /\ peer[n].phase \in ClientPhase
    /\ peer[n].attempts >= MaxAttempts
    /\ \/ BeginClientHandshake(n, tries[n]) /\ UNCHANGED <<backoff, queue>>
       \/ ScheduleHandshakeRetry(n)

\* RetryAction::Expired of a server leaves the peer idle, its queue kept.
ServerExpires(n) ==
    /\ peer[n].phase = "ServerHello"
    /\ peer[n].attempts >= MaxAttempts
    /\ IdlePass(n, tries[n], backoff[n], queue[n])

\* maintain, at a pass where the retry of the peer is due.
Maintain(n) ==
    /\ ~exited[n]
    /\ \/ Retransmit(n)
       \/ ClientExpires(n)
       \/ ServerExpires(n)
       \/ peer[n] = Idle /\ IdlePass(n, tries[n], backoff[n], queue[n])
    /\ UNCHANGED <<ServerPart, Lifetime>>

\* apply_configuration, and the pass that follows in the same tick.  A new
\* policy version clears the queue, new candidates restart the cycle.
ApplyConfiguration(n, policyChanged, candidatesChanged) ==
    LET p == IF policyChanged THEN Idle ELSE peer[n]
        q == IF policyChanged THEN 0 ELSE queue[n]
    IN  /\ ~exited[n]
        /\ configuration < MaxConfigurations
        /\ configuration' = configuration + 1
        /\ IF candidatesChanged /\ p.phase # "Established"
           THEN IdlePass(n, 0, FALSE, q)
           ELSE IF p = Idle
           THEN IdlePass(n, tries[n], backoff[n], q)
           ELSE UNCHANGED <<peer, tries, backoff, queue, hellos, net>>
        /\ UNCHANGED <<exited, restarts, ServerPart>>

\* fail_relay_path at the start of a pass, and the rest of the pass: the peer
\* loses its relay and begins a new cycle on another endpoint; an established
\* session moves to it as it is.
RelayFails(n) ==
    /\ ~exited[n]
    /\ peer[n].phase # "Established"
    /\ IdlePass(n, 0, FALSE, queue[n])
    /\ UNCHANGED <<ServerPart, Lifetime>>

\* next_proactive_handshake_at passes.
BackoffEnds(n) ==
    /\ ~exited[n]
    /\ backoff[n]
    /\ backoff' = [backoff EXCEPT ![n] = FALSE]
    /\ UNCHANGED <<peer, tries, queue, hellos, net, ServerPart, Lifetime>>

\* The service manager starts the agent again, after a crash or an error: all
\* the data plane holds is in memory.
Restart(n) ==
    /\ restarts[A] + restarts[B] < MaxRestarts
    /\ restarts' = [restarts EXCEPT ![n] = @ + 1]
    /\ peer' = [peer EXCEPT ![n] = Idle]
    /\ tries' = [tries EXCEPT ![n] = 0]
    /\ backoff' = [backoff EXCEPT ![n] = FALSE]
    /\ queue' = [queue EXCEPT ![n] = 0]
    /\ recent' = [recent EXCEPT ![n] = <<>>]
    /\ exited' = [exited EXCEPT ![n] = FALSE]
    /\ UNCHANGED <<hellos, replies, configuration, net, installed>>

\* A message that changes the state of the end it reaches.
Handle(n, m) ==
    \/ AcceptClientHello(n, m)
    \/ ReceiveServerHello(n, m)
    \/ ReceiveClientFinish(n, m)
    \/ ReceiveServerFinish(n, m)

\* Any message, one that is ignored too.
Receive(n, m) ==
    \/ Handle(n, m)
    \/ IgnoreClientHello(n, m)
    \/ IgnoreMessage(n, m)

\* To ignore a message is to stutter: it is no step of its own here.
Next ==
    \E n \in Node :
        \/ QueueTun(n)
        \/ StartByTun(n)
        \/ Maintain(n)
        \/ RelayFails(n)
        \/ BackoffEnds(n)
        \/ \E policyChanged, candidatesChanged \in BOOLEAN :
               ApplyConfiguration(n, policyChanged, candidatesChanged)
        \/ Restart(n)
        \/ \E m \in net : Handle(n, m)

Spec == Init /\ [][Next]_vars

-------------------------------------------------------------------------------
SessionOf(n) == [hello |-> peer[n].hello, reply |-> peer[n].reply]

\* Both ends hold the same session.
Agreed ==
    /\ \A n \in Node : peer[n].phase = "Established"
    /\ SessionOf(A) = SessionOf(B)

\* Key confirmation: a client holds a session only after its server installed
\* the very same one, whatever stale, duplicated or foreign handshake messages
\* it met on the way (handle_server_finish, accept_server_finish).
KeyConfirmation ==
    \A n \in Node :
        peer[n].phase = "Established" /\ peer[n].hello.client = n
            => SessionOf(n) \in installed[Peer(n)].once

\* No end installs a session a second time: install_session starts its sender
\* at sequence 0, so doing it twice with the same secrets would repeat nonces.
\* Retransmitted finishes, replayed hellos and restarts do not bring it about.
InstalledOnce == \A n \in Node : installed[n].again = {}

\* A ClientHello gives rise to one session at most for as long as the server's
\* cache holds it: unless the server was started again, it answers a hello a
\* second time only after MaxRecentHellos others (recent_client_hellos).
HelloAcceptedOnce ==
    \A m1, m2 \in net :
        /\ m1.type = "ServerHello" /\ m2.type = "ServerHello"
        /\ m1.hello = m2.hello
        /\ restarts[Peer(m1.hello.client)] = 0
        /\ m1.reply < m2.reply
        => m2.reply - m1.reply > MaxRecentHellos

\* DECISIONS.md, ADR-028: a cycle of failed attempts is followed by a bounded
\* back-off.  It never ends the agent (begin_client_handshake, forward_tun).
NeverExits == \A n \in Node : ~exited[n]
===============================================================================
