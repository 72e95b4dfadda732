-------------------------- MODULE ControlSessionProofs --------------------------
(***************************************************************************)
(* The control plane, for any number of sockets, versions, generations,    *)
(* events and faults: no announcement is missed, an agent is online while  *)
(* a session of it is served, it is never sent a version older than its    *)
(* own, and none of its advertisements is turned away as out of date.      *)
(***************************************************************************)
EXTENDS ControlSession, FiniteSetTheorems, TLAPS

Phases == {"none", "accepted", "authenticated", "subscribed", "served", "closed"}
Adverts == [generation : Nat, payload : Nat, endpoint : Endpoints \cup {NoEndpoint}]
Downs == [type : {"Authenticated", "Configuration", "UpToDate"}, argument : Nat]
Ups == [type : {"Sync", "Runtime", "Telemetry"}, argument : Nat]
       \cup [type : {"Candidates"}, argument : Adverts]
TaskSet == [phase : Phases, events : Nat, lagged : BOOLEAN, sent : Nat,
            toAgent : Seq(Downs), toServer : Seq(Ups)]
AgentSet == [up : BOOLEAN, socket : Sockets \cup {NoSocket}, connected : BOOLEAN, run : Nat,
             version : Nat, generation : Nat, advertised : Adverts, seen : BOOLEAN]

ControlType ==
    /\ published \in Seq(Configuration) /\ published # <<>>
    /\ stored \in Adverts
    /\ announced \in Nat
    /\ socket \in [Sockets -> TaskSet]
    /\ online \in Nat
    /\ agent \in AgentSet
    /\ disk \in [version : Nat, generation : Nat]

\* A socket nobody uses holds no messages, and what is written to one the agent
\* has left is lost.
SocketInv ==
    /\ \A s \in Sockets : Task(s, "none") => socket[s].toServer = <<>> /\ ~AgentOn(s)
    /\ \A s \in Sockets : ~AgentOn(s) => socket[s].toAgent = <<>>
    /\ ~agent.up => AgentOn(NoSocket)

\* Nothing is announced before it is published.
PendingInv ==
    /\ announced <= Latest
    /\ committed \subseteq 1 .. Latest
    /\ AnnouncementPending

\* The versions under way come in order between the one held and the newest.
Ordered(messages, held, newest) ==
    /\ \A i \in DOMAIN messages : held <= messages[i].argument /\ messages[i].argument <= newest
    /\ \A i, j \in DOMAIN messages : i < j => messages[i].argument <= messages[j].argument
    /\ \A i \in DOMAIN messages :
          messages[i].type = "UpToDate" =>
             messages[i].argument = IF i = 1 THEN held ELSE messages[i - 1].argument

\* A Sync was written at a version the agent still holds or has left behind.
Syncs(messages, held) ==
    \A i \in DOMAIN messages : messages[i].type = "Sync" => messages[i].argument <= held

OrderInv ==
    /\ agent.version <= Latest
    /\ disk.version <= Latest
    /\ \A s \in Sockets : AgentOn(s) => /\ Ordered(socket[s].toAgent, agent.version, Latest)
                                        /\ Syncs(socket[s].toServer, agent.version)

\* The advertisements among the messages, and all of those that still exist.
Cands(messages) ==
    {messages[i].argument : i \in {j \in DOMAIN messages : messages[j].type = "Candidates"}}
Known == {stored, agent.advertised} \cup UNION {Cands(socket[s].toServer) : s \in Sockets}

\* A generation is used once, and the agent's file knows of all of them.
KnownInv ==
    /\ disk.generation = agent.generation
    /\ \A a \in Known : /\ a.generation <= agent.generation
                        /\ a.generation = 0 => a = NoAdvertisement
    /\ \A a, b \in Known : a.generation = b.generation => a = b
    /\ agent.advertised # NoAdvertisement => agent.advertised.generation = agent.generation
    /\ ~agent.seen => agent.advertised # NoAdvertisement

\* On a socket advertisements come in the order of their generations.
Rising(messages) ==
    \A i, j \in DOMAIN messages :
        i < j /\ messages[i].type = "Candidates" /\ messages[j].type = "Candidates"
        => messages[i].argument.generation <= messages[j].argument.generation

\* Those on the agent's own socket are the newest there are.
Newest(s) ==
    \A a \in Cands(socket[s].toServer) :
        /\ stored.generation <= a.generation
        /\ \A r \in Sockets \ {s} :
              \A c \in Cands(socket[r].toServer) : c.generation <= a.generation

FreshInv == KnownInv /\ \A s \in Sockets : AgentOn(s) => Rising(socket[s].toServer) /\ Newest(s)

ControlInv ==
    /\ ControlType /\ SocketInv /\ OnlineWhileServed /\ PendingInv /\ OrderInv /\ FreshInv

-------------------------------------------------------------------------------
(* The operators the model is built from. *)

LEMMA SocketNumbers == NoSocket \notin Sockets /\ Sockets \subseteq Nat /\ IsFiniteSet(Sockets)
BY ControlAssumption DEF NoSocket

LEMMA ClosedType ==
    /\ Closed \in TaskSet
    /\ Closed.phase = "none" /\ Closed.toAgent = <<>> /\ Closed.toServer = <<>>
BY DEF Closed, TaskSet, Phases

LEMMA MessageType ==
    ASSUME NEW type \in {"Authenticated", "Configuration", "UpToDate"}, NEW v \in Nat
    PROVE  Message(type, v) \in Downs /\ Message(type, v).argument = v
BY DEF Message, Downs

LEMMA PushedType ==
    ASSUME NEW s, NEW task \in TaskSet, NEW m \in Downs
    PROVE  /\ Pushed(s, task, m) \in TaskSet
           /\ Pushed(s, task, m).phase = task.phase /\ Pushed(s, task, m).events = task.events
           /\ Pushed(s, task, m).lagged = task.lagged
           /\ Pushed(s, task, m).toServer = task.toServer
           /\ Pushed(s, task, m).sent = m.argument
           /\ AgentOn(s) => Pushed(s, task, m).toAgent = Append(task.toAgent, m)
           /\ ~AgentOn(s) => Pushed(s, task, m).toAgent = task.toAgent
<1>1. Append(task.toAgent, m) \in Seq(Downs) /\ m.argument \in Nat
  BY DEF TaskSet, Downs
<1> QED
  BY <1>1 DEF Pushed, TaskSet

LEMMA NotifiedType ==
    ASSUME NEW task \in TaskSet
    PROVE  LET notified == Notified(task) IN
           /\ notified \in TaskSet
           /\ notified.phase = task.phase /\ notified.sent = task.sent
           /\ notified.toAgent = task.toAgent /\ notified.toServer = task.toServer
           /\ task.phase \in {"subscribed", "served"} => notified.events > 0
<1> DEFINE events == IF task.events < EventCapacity THEN task.events + 1 ELSE task.events
           lagged == task.lagged \/ task.events = EventCapacity
<1>1. task.events \in Nat /\ task.lagged \in BOOLEAN
  BY DEF TaskSet
<1>2. events \in Nat /\ events > 0
  BY <1>1, ControlAssumption
<1>3. lagged \in BOOLEAN
  BY <1>1
<1>4. CASE task.phase \in {"subscribed", "served"}
  <2>1. Notified(task) = [task EXCEPT !.events = events, !.lagged = lagged]
    BY <1>4 DEF Notified
  <2> HIDE DEF events, lagged
  <2> QED
    BY <1>2, <1>3, <2>1 DEF TaskSet
<1>5. CASE task.phase \notin {"subscribed", "served"}
  BY <1>5 DEF Notified
<1> QED
  BY <1>4, <1>5

LEMMA EndedType ==
    ASSUME ControlType, NEW s \in Sockets
    PROVE  /\ Ended(s) \in TaskSet
           /\ Ended(s).phase \in {"none", "closed"} /\ Ended(s).toServer = <<>>
           /\ AgentOn(s) => Ended(s).phase = "closed" /\ Ended(s).toAgent = socket[s].toAgent
           /\ ~AgentOn(s) => Ended(s).toAgent = <<>>
BY ClosedType DEF Ended, ControlType, TaskSet, Phases

\* What is left of a socket when the agent has gone.
LEMMA LeftType ==
    ASSUME ControlType, NEW s \in Sockets
    PROVE  /\ Left(s) \in [Sockets -> TaskSet]
           /\ \A r \in Sockets : r # s => Left(s)[r] = socket[r]
           /\ Left(s)[s].toAgent = <<>>
           /\ Left(s)[s].toServer \in {<<>>, socket[s].toServer}
           /\ Task(s, "closed") => Left(s)[s] = Closed
           /\ ~Task(s, "closed") =>
                 /\ Left(s)[s].phase = socket[s].phase /\ Left(s)[s].sent = socket[s].sent
                 /\ Left(s)[s].events = socket[s].events
<1>1. CASE Task(s, "closed")
  BY <1>1, ClosedType DEF Left, Task, ControlType
<1>2. CASE ~Task(s, "closed")
  <2>1. Left(s) = [socket EXCEPT ![s].toAgent = <<>>, ![s].toServer = Remaining(socket[s].toServer)]
    BY <1>2 DEF Left, Task
  <2>2. Remaining(socket[s].toServer) \in {<<>>, socket[s].toServer}
    BY DEF Remaining
  <2>3. socket[s] \in TaskSet /\ <<>> \in Seq(Downs) /\ <<>> \in Seq(Ups)
    BY DEF ControlType
  <2>4. Remaining(socket[s].toServer) \in Seq(Ups)
    <3>1. socket[s].toServer \in Seq(Ups)
      BY <2>3 DEF TaskSet
    <3> QED
      BY <2>2, <2>3, <3>1
  <2> DEFINE q == Remaining(socket[s].toServer)
             task == [socket[s] EXCEPT !.toAgent = <<>>, !.toServer = q]
  <2>5. Left(s) = [socket EXCEPT ![s] = task]
    BY <2>1 DEF ControlType
  <2> HIDE DEF q
  <2>6. /\ task \in TaskSet /\ task.toAgent = <<>> /\ task.toServer = q
        /\ task.phase = socket[s].phase /\ task.sent = socket[s].sent
        /\ task.events = socket[s].events
    BY <2>3, <2>4 DEF TaskSet, q
  <2> HIDE DEF task
  <2>7. /\ Left(s) \in [Sockets -> TaskSet] /\ Left(s)[s] = task
        /\ \A r \in Sockets : r # s => Left(s)[r] = socket[r]
    BY <2>5, <2>6 DEF ControlType
  <2> QED
    BY <1>2, <2>2, <2>6, <2>7 DEF q
<1> QED
  BY <1>1, <1>2

\* The advertisements of a queue.
LEMMA CandsEmpty == Cands(<<>>) = {} /\ Rising(<<>>)
BY DEF Cands, Rising

LEMMA CandsTail ==
    ASSUME NEW q \in Seq(Ups), q # <<>>
    PROVE  /\ Tail(q) \in Seq(Ups)
           /\ Cands(Tail(q)) \subseteq Cands(q)
           /\ Rising(q) => Rising(Tail(q))
           /\ \A v : Syncs(q, v) => Syncs(Tail(q), v)
<1>1. /\ Tail(q) \in Seq(Ups) /\ Len(Tail(q)) = Len(q) - 1 /\ Len(q) > 0
      /\ \A i \in 1 .. Len(Tail(q)) : Tail(q)[i] = q[i + 1]
  OBVIOUS
<1>2. Cands(Tail(q)) \subseteq Cands(q)
  BY <1>1 DEF Cands
<1>3. Rising(q) => Rising(Tail(q))
  BY <1>1 DEF Rising
<1>4. \A v : Syncs(q, v) => Syncs(Tail(q), v)
  BY <1>1 DEF Syncs
<1> QED
  BY <1>1, <1>2, <1>3, <1>4

\* The messages the agent writes at once.
LEMMA CandsJoined ==
    ASSUME NEW q \in Seq(Ups), NEW more \in Seq(Ups)
    PROVE  /\ q \o more \in Seq(Ups)
           /\ Cands(q \o more) = Cands(q) \cup Cands(more)
           /\ \A v : Syncs(q, v) /\ Syncs(more, v) => Syncs(q \o more, v)
           /\ (/\ Rising(q) /\ Rising(more)
               /\ \A a \in Cands(q), b \in Cands(more) : a.generation <= b.generation)
              => Rising(q \o more)
<1>1. /\ q \o more \in Seq(Ups) /\ Len(q \o more) = Len(q) + Len(more)
      /\ \A i \in 1 .. Len(q) : (q \o more)[i] = q[i]
      /\ \A i \in 1 .. Len(more) : (q \o more)[Len(q) + i] = more[i]
      /\ \A i \in 1 .. Len(q \o more) : i \in 1 .. Len(q) \/ (i - Len(q)) \in 1 .. Len(more)
  OBVIOUS
<1>2. Cands(q \o more) \subseteq Cands(q) \cup Cands(more)
  <2> SUFFICES ASSUME NEW i \in 1 .. Len(q \o more), (q \o more)[i].type = "Candidates"
               PROVE  (q \o more)[i].argument \in Cands(q) \cup Cands(more)
    BY <1>1 DEF Cands
  <2>1. CASE i \in 1 .. Len(q)
    BY <1>1, <2>1 DEF Cands
  <2>2. CASE (i - Len(q)) \in 1 .. Len(more)
    <3> DEFINE j == i - Len(q)
    <3>1. j \in 1 .. Len(more) /\ Len(q) + j = i
      BY <2>2, <1>1
    <3>2. (q \o more)[i] = more[j]
      BY <1>1, <3>1
    <3> HIDE DEF j
    <3> QED
      BY <3>1, <3>2 DEF Cands
  <2> QED
    BY <1>1, <2>1, <2>2
<1>3. Cands(q) \subseteq Cands(q \o more) /\ Cands(more) \subseteq Cands(q \o more)
  <2>1. \A i \in 1 .. Len(q) : i \in 1 .. Len(q \o more)
    BY <1>1
  <2>2. \A i \in 1 .. Len(more) : Len(q) + i \in 1 .. Len(q \o more)
    BY <1>1
  <2>3. Cands(q) \subseteq Cands(q \o more)
    BY <1>1, <2>1 DEF Cands
  <2>4. ASSUME NEW i \in 1 .. Len(more), more[i].type = "Candidates"
        PROVE  more[i].argument \in Cands(q \o more)
    <3>1. (q \o more)[Len(q) + i] = more[i]
      BY <1>1
    <3>2. Len(q) + i \in DOMAIN (q \o more)
      BY <1>1, <2>2
    <3> QED
      BY <2>4, <3>1, <3>2 DEF Cands
  <2>5. Cands(more) \subseteq Cands(q \o more)
    BY <2>4 DEF Cands
  <2> QED
    BY <2>3, <2>5
<1>4. \A v : Syncs(q, v) /\ Syncs(more, v) => Syncs(q \o more, v)
  BY <1>1 DEF Syncs
<1>5. ASSUME Rising(q), Rising(more),
             \A a \in Cands(q), b \in Cands(more) : a.generation <= b.generation
      PROVE  Rising(q \o more)
  <2> DEFINE Q == q \o more
  <2> SUFFICES ASSUME NEW i \in 1 .. Len(Q), NEW j \in 1 .. Len(Q), i < j,
                      Q[i].type = "Candidates", Q[j].type = "Candidates"
               PROVE  Q[i].argument.generation <= Q[j].argument.generation
    BY <1>1 DEF Rising
  <2>1. CASE j \in 1 .. Len(q)
    BY <1>1, <1>5, <2>1 DEF Rising
  <2>2. CASE i \in 1 .. Len(q) /\ (j - Len(q)) \in 1 .. Len(more)
    <3>1. Q[i] = q[i] /\ Q[j] = more[j - Len(q)]
      BY <1>1, <2>2
    <3>2. Q[i].argument \in Cands(q) /\ Q[j].argument \in Cands(more)
      BY <2>2, <3>1 DEF Cands
    <3> QED
      BY <1>5, <3>2
  <2>3. CASE (i - Len(q)) \in 1 .. Len(more) /\ (j - Len(q)) \in 1 .. Len(more)
    <3>1. Q[i] = more[i - Len(q)] /\ Q[j] = more[j - Len(q)]
      BY <1>1, <2>3
    <3> QED
      BY <1>5, <2>3, <3>1 DEF Rising
  <2> QED
    BY <1>1, <2>1, <2>2, <2>3
<1> QED
  BY <1>1, <1>2, <1>3, <1>4, <1>5

\* Versions on their way to the agent.
LEMMA OrderedEmpty == \A held, newest : Ordered(<<>>, held, newest)
BY DEF Ordered

LEMMA VersionAt ==
    ASSUME NEW q \in Seq(Downs), NEW i \in DOMAIN q
    PROVE  q[i] \in Downs /\ q[i].argument \in Nat
<1>1. q[i] \in Downs
  OBVIOUS
<1> QED
  BY <1>1 DEF Downs

LEMMA OrderedGrows ==
    ASSUME NEW q \in Seq(Downs), NEW held \in Nat, NEW old \in Nat, NEW newest \in Nat,
           Ordered(q, held, old), old <= newest
    PROVE  Ordered(q, held, newest)
<1>1. \A i \in DOMAIN q : q[i].argument \in Nat
  BY VersionAt
<1>2. \A i \in DOMAIN q : held <= q[i].argument /\ q[i].argument <= newest
  BY <1>1 DEF Ordered
<1> QED
  BY <1>2 DEF Ordered

LEMMA OrderedAppend ==
    ASSUME NEW q \in Seq(Downs), NEW held \in Nat, NEW newest \in Nat,
           Ordered(q, held, newest), held <= newest,
           NEW type \in {"Authenticated", "Configuration", "UpToDate"},
           type = "UpToDate" => newest <= held
    PROVE  Ordered(Append(q, Message(type, newest)), held, newest)
<1> DEFINE m == Message(type, newest)
           Q == Append(q, m)
<1>1. m \in Downs /\ m.argument = newest /\ m.type = type
  BY DEF Message, Downs
<1> HIDE DEF m
<1>2. /\ Len(Q) = Len(q) + 1 /\ DOMAIN Q = 1 .. Len(Q) /\ DOMAIN q = 1 .. Len(q) /\ Len(q) \in Nat
      /\ \A i \in 1 .. Len(q) : Q[i] = q[i]
      /\ Q[Len(q) + 1] = m
  BY <1>1
<1>3. \A i \in DOMAIN q : q[i].argument \in Nat
  BY VersionAt
<1> HIDE DEF Q
<1>4. \A i \in DOMAIN Q : held <= Q[i].argument /\ Q[i].argument <= newest
  BY <1>1, <1>2 DEF Ordered
<1>5. \A i, j \in DOMAIN Q : i < j => Q[i].argument <= Q[j].argument
  BY <1>1, <1>2, <1>3, <1>4 DEF Ordered
<1>6. ASSUME NEW i \in DOMAIN Q, Q[i].type = "UpToDate"
      PROVE  Q[i].argument = IF i = 1 THEN held ELSE Q[i - 1].argument
  <2>1. CASE i \in 1 .. Len(q)
    BY <1>2, <1>6, <2>1 DEF Ordered
  <2>2. CASE i = Len(q) + 1
    <3>1. newest = held
      BY <1>1, <1>2, <1>6, <2>2
    <3>2. i # 1 => /\ i - 1 \in 1 .. Len(q) /\ Q[i - 1] = q[i - 1]
                   /\ held <= q[i - 1].argument /\ q[i - 1].argument <= newest
                   /\ q[i - 1].argument \in Nat
      BY <1>2, <1>3, <2>2 DEF Ordered
    <3> QED
      BY <1>1, <1>2, <2>2, <3>1, <3>2
  <2> QED
    BY <1>2, <2>1, <2>2
<1> QED
  BY <1>4, <1>5, <1>6 DEF Ordered, Q, m

LEMMA OrderedTail ==
    ASSUME NEW q \in Seq(Downs), NEW held \in Nat, NEW newest \in Nat,
           Ordered(q, held, newest), q # <<>>
    PROVE  /\ Tail(q) \in Seq(Downs)
           /\ Head(q) \in Downs
           /\ held <= Head(q).argument /\ Head(q).argument <= newest
           /\ Ordered(Tail(q), Head(q).argument, newest)
<1>1. /\ Tail(q) \in Seq(Downs) /\ Len(Tail(q)) = Len(q) - 1 /\ Len(q) > 0 /\ Len(q) \in Nat
      /\ DOMAIN q = 1 .. Len(q) /\ DOMAIN Tail(q) = 1 .. Len(Tail(q))
      /\ \A i \in 1 .. Len(Tail(q)) : Tail(q)[i] = q[i + 1] /\ i + 1 \in 1 .. Len(q)
      /\ Head(q) = q[1] /\ 1 \in DOMAIN q
  OBVIOUS
<1>2. \A i \in DOMAIN q : q[i] \in Downs
  OBVIOUS
<1> DEFINE T == Tail(q)
<1>3. Head(q) \in Downs /\ held <= Head(q).argument /\ Head(q).argument <= newest
  BY <1>1, <1>2 DEF Ordered
<1> HIDE DEF T
<1>4. \A i \in DOMAIN T : q[1].argument <= T[i].argument /\ T[i].argument <= newest
  BY <1>1, <1>2 DEF Ordered, T
<1>5. \A i, j \in DOMAIN T : i < j => T[i].argument <= T[j].argument
  BY <1>1, <1>2 DEF Ordered, T
<1>6. ASSUME NEW i \in DOMAIN T, T[i].type = "UpToDate"
      PROVE  T[i].argument = IF i = 1 THEN q[1].argument ELSE T[i - 1].argument
  <2>1. T[i] = q[i + 1] /\ i + 1 \in DOMAIN q /\ i + 1 # 1 /\ (i + 1) - 1 = i
    BY <1>1 DEF T
  <2>2. T[i].argument = q[i].argument
    BY <1>6, <2>1 DEF Ordered
  <2>3. i # 1 => T[i - 1] = q[i]
    BY <1>1 DEF T
  <2> QED
    BY <2>2, <2>3
<1>7. Ordered(T, q[1].argument, newest)
  BY <1>4, <1>5, <1>6 DEF Ordered
<1> QED
  BY <1>1, <1>3, <1>7 DEF T

-------------------------------------------------------------------------------
(* What a step that touches little leaves as it was. *)

\* The task has read a message, or dropped them all, or none.
Shrunk(r) ==
    \/ socket'[r].toServer \in {socket[r].toServer, <<>>}
    \/ socket[r].toServer # <<>> /\ socket'[r].toServer = Tail(socket[r].toServer)

LEMMA ShrunkQueue ==
    ASSUME ControlType, NEW r \in Sockets, Shrunk(r)
    PROVE  /\ Cands(socket'[r].toServer) \subseteq Cands(socket[r].toServer)
           /\ Rising(socket[r].toServer) => Rising(socket'[r].toServer)
           /\ \A v : Syncs(socket[r].toServer, v) => Syncs(socket'[r].toServer, v)
<1>1. socket[r].toServer \in Seq(Ups)
  BY DEF ControlType, TaskSet
<1>2. \A v : Syncs(<<>>, v)
  BY DEF Syncs
<1> QED
  BY <1>1, <1>2, CandsEmpty, CandsTail DEF Shrunk

\* No advertisement is made and the agent starts no session.
LEMMA FreshUntouched ==
    ASSUME ControlType, FreshInv, \A r \in Sockets : Shrunk(r),
           stored' = stored, disk'.generation = disk.generation,
           agent'.generation = agent.generation, agent'.advertised = agent.advertised,
           agent'.seen = agent.seen, agent'.socket \in {agent.socket, NoSocket}
    PROVE  FreshInv'
<1>1. Known' \subseteq Known
  BY ShrunkQueue DEF Known
<1>2. KnownInv'
  BY <1>1 DEF FreshInv, KnownInv
<1>3. ASSUME NEW s \in Sockets, AgentOn(s)' PROVE Rising(socket'[s].toServer) /\ Newest(s)'
  <2>1. AgentOn(s)
    BY <1>3, SocketNumbers DEF AgentOn
  <2>2. Rising(socket[s].toServer) /\ Newest(s)
    BY <2>1 DEF FreshInv
  <2>3. Rising(socket'[s].toServer)
    BY <2>2, ShrunkQueue
  <2>4. Newest(s)'
    BY <2>2, ShrunkQueue DEF Newest
  <2> QED
    BY <2>3, <2>4
<1> QED
  BY <1>2, <1>3 DEF FreshInv

\* The versions held stay what they are.
LEMMA OrderUntouched ==
    ASSUME ControlType, OrderInv, \A r \in Sockets : Shrunk(r),
           Latest' \in Nat, Latest <= Latest',
           disk'.version = disk.version, agent'.version = agent.version,
           agent'.socket \in {agent.socket, NoSocket},
           agent'.socket \in Sockets =>
              Ordered(socket'[agent.socket].toAgent, agent.version, Latest')
    PROVE  OrderInv'
<1>1. Latest \in Nat /\ agent.version \in Nat /\ disk.version \in Nat
  BY DEF ControlType, AgentSet, Latest
<1>2. ASSUME NEW s \in Sockets, AgentOn(s)'
      PROVE  /\ Ordered(socket'[s].toAgent, agent'.version, Latest')
             /\ Syncs(socket'[s].toServer, agent'.version)
  <2>1. AgentOn(s) /\ agent'.socket \in Sockets
    BY <1>2, SocketNumbers DEF AgentOn
  <2>2. Syncs(socket[s].toServer, agent.version)
    BY <2>1 DEF OrderInv
  <2> QED
    BY <2>1, <2>2, ShrunkQueue DEF AgentOn
<1> QED
  BY <1>1, <1>2 DEF OrderInv

LEMMA OnlineUntouched ==
    ASSUME OnlineWhileServed, online' = online,
           \A r \in Sockets : Task(r, "served")' <=> Task(r, "served")
    PROVE  OnlineWhileServed'
<1>1. {s \in Sockets : Task(s, "served")}' = {s \in Sockets : Task(s, "served")}
  OBVIOUS
<1> QED
  BY <1>1 DEF OnlineWhileServed

-------------------------------------------------------------------------------
(* How many sessions are served. *)

LEMMA ServedFinite ==
    LET served == {s \in Sockets : Task(s, "served")} IN
    IsFiniteSet(served) /\ Cardinality(served) \in Nat
BY SocketNumbers, FS_Subset, FS_CardinalityType

LEMMA ServedJoins ==
    ASSUME OnlineWhileServed, NEW s \in Sockets, ~Task(s, "served"), Task(s, "served")',
           \A r \in Sockets \ {s} : Task(r, "served")' <=> Task(r, "served"),
           online' = online + 1
    PROVE  OnlineWhileServed'
<1> DEFINE served == {r \in Sockets : Task(r, "served")}
           now == {r \in Sockets : Task(r, "served")'}
<1>1. now = served \cup {s} /\ s \notin served
  OBVIOUS
<1>2. Cardinality(now) = Cardinality(served) + 1
  BY <1>1, ServedFinite, FS_AddElement
<1> QED
  BY <1>2 DEF OnlineWhileServed

LEMMA ServedLeaves ==
    ASSUME OnlineWhileServed, NEW s \in Sockets, ~Task(s, "served")',
           \A r \in Sockets \ {s} : Task(r, "served")' <=> Task(r, "served"),
           MarkNodeOffline(s)
    PROVE  OnlineWhileServed' /\ online' \in Nat
<1> DEFINE served == {r \in Sockets : Task(r, "served")}
           now == {r \in Sockets : Task(r, "served")'}
<1>0. online = Cardinality(served) /\ online \in Nat /\ IsFiniteSet(served)
  BY ServedFinite DEF OnlineWhileServed
<1>1. CASE Task(s, "served")
  <2>1. now = served \ {s} /\ s \in served
    BY <1>1
  <2>2. Cardinality(now) = Cardinality(served) - 1 /\ Cardinality(now) \in Nat
    BY <1>0, <2>1, FS_RemoveElement, FS_CardinalityType, FS_Subset
  <2>3. online' = online - 1
    BY <1>0, <1>1, <2>2 DEF MarkNodeOffline
  <2> QED
    BY <1>0, <2>2, <2>3 DEF OnlineWhileServed
<1>2. CASE ~Task(s, "served")
  <2>1. now = served
    BY <1>2
  <2>2. online' = online
    BY <1>2 DEF MarkNodeOffline
  <2> QED
    BY <1>0, <2>1, <2>2 DEF OnlineWhileServed
<1> QED
  BY <1>1, <1>2

-------------------------------------------------------------------------------
(* The Controller's task of one socket. *)

\* A step of one task that neither publishes nor stores.
LEMMA TaskSteps ==
    ASSUME ControlInv, NEW s \in Sockets, NEW task \in TaskSet,
           socket' = [socket EXCEPT ![s] = task],
           UNCHANGED <<controllerVars, agent, disk>>,
           \/ task.toServer \in {socket[s].toServer, <<>>}
           \/ socket[s].toServer # <<>> /\ task.toServer = Tail(socket[s].toServer),
           task.phase = "none" => task.toServer = <<>> /\ ~AgentOn(s),
           AgentOn(s) => Ordered(task.toAgent, agent.version, Latest),
           ~AgentOn(s) => task.toAgent = <<>>,
           task.phase = "served" /\ task.sent < announced => task.events > 0,
           online' \in Nat, OnlineWhileServed'
    PROVE  ControlInv'
<1> USE DEF ControlInv
<1>1. /\ socket' \in [Sockets -> TaskSet] /\ socket'[s] = task
      /\ \A r \in Sockets : r # s => socket'[r] = socket[r]
  BY DEF ControlType
<1>2. ControlType'
  BY <1>1 DEF ControlType, controllerVars
<1>3. \A r \in Sockets : Shrunk(r)
  BY <1>1 DEF Shrunk
<1>4. SocketInv'
  BY <1>1 DEF SocketInv, Task, AgentOn
<1>5. PendingInv'
  BY <1>1 DEF PendingInv, AnnouncementPending, Task, controllerVars, Latest
<1>6. Latest' = Latest /\ Latest \in Nat
  BY DEF ControlType, controllerVars, Latest
<1>7. agent.socket \in Sockets => Ordered(socket'[agent.socket].toAgent, agent.version, Latest)
  BY <1>1 DEF OrderInv, AgentOn
<1>8. OrderInv'
  BY <1>3, <1>6, <1>7, OrderUntouched
<1>9. FreshInv'
  BY <1>3, FreshUntouched DEF controllerVars
<1> QED
  BY <1>2, <1>4, <1>5, <1>8, <1>9

\* A task that goes on without being counted or ending.
LEMMA TaskGoesOn ==
    ASSUME ControlInv, NEW s \in Sockets, NEW task \in TaskSet,
           socket' = [socket EXCEPT ![s] = task],
           task.phase = "served" <=> Task(s, "served"), online' = online
    PROVE  online' \in Nat /\ OnlineWhileServed'
<1>1. \A r \in Sockets : Task(r, "served")' <=> Task(r, "served")
  BY DEF ControlInv, ControlType, Task
<1> QED
  BY <1>1, OnlineUntouched DEF ControlInv, ControlType

LEMMA EndKeeps ==
    ASSUME ControlInv, NEW s \in Sockets, End(s), UNCHANGED <<controllerVars, agent, disk>>
    PROVE  ControlInv'
<1> USE DEF ControlInv
<1>1. /\ Ended(s) \in TaskSet
      /\ Ended(s).phase \in {"none", "closed"} /\ Ended(s).toServer = <<>>
      /\ AgentOn(s) => Ended(s).phase = "closed" /\ Ended(s).toAgent = socket[s].toAgent
      /\ ~AgentOn(s) => Ended(s).toAgent = <<>>
  BY EndedType
<1>2. ~Task(s, "served")' /\ \A r \in Sockets \ {s} : Task(r, "served")' <=> Task(r, "served")
  BY <1>1 DEF End, Task, ControlType
<1>3. online' \in Nat /\ OnlineWhileServed'
  BY <1>2, ServedLeaves DEF End
<1>4. AgentOn(s) => Ordered(Ended(s).toAgent, agent.version, Latest)
  BY <1>1 DEF OrderInv
<1> QED
  BY <1>1, <1>3, <1>4, TaskSteps DEF End

\* A task whose queue of requests is as it was, with nothing written to the agent.
LEMMA PhaseKeeps ==
    ASSUME ControlInv, NEW s \in Sockets, NEW phase \in {"authenticated", "subscribed"},
           ~Task(s, "served"), socket' = [socket EXCEPT ![s].phase = phase],
           UNCHANGED <<controllerVars, online, agent, disk>>
    PROVE  ControlInv'
<1> DEFINE task == [socket[s] EXCEPT !.phase = phase]
<1>0. socket[s] \in TaskSet
  BY DEF ControlInv, ControlType
<1>1. /\ task \in TaskSet /\ task.phase = phase /\ task.toServer = socket[s].toServer
      /\ task.toAgent = socket[s].toAgent
  BY <1>0 DEF TaskSet, Phases
<1>2. socket' = [socket EXCEPT ![s] = task]
  BY DEF ControlInv, ControlType
<1> HIDE DEF task
<1>3. online' \in Nat /\ OnlineWhileServed'
  BY <1>1, <1>2, TaskGoesOn
<1> QED
  BY <1>1, <1>2, <1>3, TaskSteps DEF ControlInv, OrderInv, SocketInv

LEMMA AuthenticateKeeps ==
    ASSUME ControlInv, NEW s \in Sockets, Authenticate(s) PROVE ControlInv'
BY EndKeeps, PhaseKeeps DEF Authenticate, Task

LEMMA SubscribeKeeps ==
    ASSUME ControlInv, NEW s \in Sockets, Subscribe(s) PROVE ControlInv'
BY PhaseKeeps DEF Subscribe, Task

LEMMA RefuseKeeps ==
    ASSUME ControlInv, NEW s \in Sockets, Refuse(s) \/ NoticeGone(s) PROVE ControlInv'
BY EndKeeps DEF Refuse, NoticeGone

\* The newest version fits behind what is under way, and UpToDate only when the
\* agent holds it.
LEMMA NewestFits ==
    ASSUME ControlInv, NEW s \in Sockets, AgentOn(s),
           NEW type \in {"Authenticated", "Configuration", "UpToDate"},
           type = "UpToDate" => Latest <= agent.version
    PROVE  Ordered(Append(socket[s].toAgent, Message(type, Latest)), agent.version, Latest)
<1>1. /\ socket[s].toAgent \in Seq(Downs) /\ agent.version \in Nat /\ Latest \in Nat
      /\ agent.version <= Latest /\ Ordered(socket[s].toAgent, agent.version, Latest)
  BY DEF ControlInv, ControlType, TaskSet, AgentSet, OrderInv, Latest
<1> QED
  BY <1>1, OrderedAppend

LEMMA SendInitialKeeps ==
    ASSUME ControlInv, NEW s \in Sockets, SendInitial(s) PROVE ControlInv'
<1> DEFINE pushed == Pushed(s, socket[s], Message("Authenticated", Latest))
           task == [pushed EXCEPT !.phase = "served"]
<1>0. socket[s] \in TaskSet /\ Latest \in Nat /\ announced <= Latest /\ announced \in Nat
  BY DEF ControlInv, ControlType, Latest, PendingInv
<1>10. Message("Authenticated", Latest) \in Downs /\ Message("Authenticated", Latest).argument = Latest
  BY <1>0, MessageType
<1>1. /\ pushed \in TaskSet /\ pushed.toServer = socket[s].toServer /\ pushed.sent = Latest
      /\ AgentOn(s) => pushed.toAgent = Append(socket[s].toAgent, Message("Authenticated", Latest))
      /\ ~AgentOn(s) => pushed.toAgent = socket[s].toAgent
  BY <1>0, <1>10, PushedType
<1>2. socket' = [socket EXCEPT ![s] = task]
  BY DEF SendInitial
<1> HIDE DEF pushed
<1>3. /\ task \in TaskSet /\ task.phase = "served" /\ task.toServer = pushed.toServer
      /\ task.toAgent = pushed.toAgent /\ task.sent = pushed.sent
  BY <1>1 DEF TaskSet, Phases
<1> HIDE DEF task
<1>4. /\ ~Task(s, "served") /\ Task(s, "served")'
      /\ \A r \in Sockets \ {s} : Task(r, "served")' <=> Task(r, "served")
  BY <1>2, <1>3 DEF SendInitial, Task, ControlInv, ControlType
<1>5. online' \in Nat /\ OnlineWhileServed'
  BY <1>4, ServedJoins DEF SendInitial, ControlInv, ControlType
<1>6. AgentOn(s) => Ordered(task.toAgent, agent.version, Latest)
  BY <1>1, <1>3, NewestFits
<1>7. ~AgentOn(s) => task.toAgent = <<>>
  BY <1>1, <1>3 DEF ControlInv, SocketInv
<1>8. UNCHANGED <<controllerVars, agent, disk>>
  BY DEF SendInitial
<1>9. task.sent = Latest /\ ~(Latest < announced) /\ task.toServer = socket[s].toServer
  BY <1>0, <1>1, <1>3
<1> QED
  BY <1>2, <1>3, <1>5, <1>6, <1>7, <1>8, <1>9, TaskSteps

\* A served task writes the newest version.
LEMMA AnswerKeeps ==
    ASSUME ControlInv, NEW s \in Sockets, Task(s, "served"),
           NEW type \in {"Configuration", "UpToDate"},
           AgentOn(s) /\ type = "UpToDate" => Latest <= agent.version,
           NEW before \in TaskSet, before.phase = "served", before.toAgent = socket[s].toAgent,
           \/ before.toServer = socket[s].toServer
           \/ socket[s].toServer # <<>> /\ before.toServer = Tail(socket[s].toServer),
           NEW task \in TaskSet, socket' = [socket EXCEPT ![s] = task],
           task.phase = "served", task.sent = Latest, task.toServer = before.toServer,
           task.toAgent = Pushed(s, before, Message(type, Latest)).toAgent,
           UNCHANGED <<controllerVars, online, agent, disk>>
    PROVE  ControlInv'
<1>0. Latest \in Nat /\ announced <= Latest /\ announced \in Nat
  BY DEF ControlInv, ControlType, Latest, PendingInv
<1>1. /\ AgentOn(s) => task.toAgent = Append(socket[s].toAgent, Message(type, Latest))
      /\ ~AgentOn(s) => task.toAgent = socket[s].toAgent
  <2>1. Message(type, Latest) \in Downs
    BY <1>0, MessageType
  <2> QED
    BY <2>1, PushedType
<1>2. online' \in Nat /\ OnlineWhileServed'
  BY TaskGoesOn
<1>3. AgentOn(s) => Ordered(task.toAgent, agent.version, Latest)
  BY <1>1, NewestFits
<1>4. ~AgentOn(s) => task.toAgent = <<>>
  BY <1>1 DEF ControlInv, SocketInv
<1>5. ~(task.sent < announced)
  BY <1>0
<1> QED
  BY <1>2, <1>3, <1>4, <1>5, TaskSteps

LEMMA HandleEventKeeps ==
    ASSUME ControlInv, NEW s \in Sockets, HandleEvent(s) PROVE ControlInv'
<1>0. socket[s] \in TaskSet /\ Latest \in Nat /\ socket[s].phase = "served"
  BY DEF ControlInv, ControlType, Latest, HandleEvent, Task
<1>1. CASE socket[s].lagged
  <2> DEFINE task == [socket[s] EXCEPT !.lagged = FALSE]
  <2>1. socket' = [socket EXCEPT ![s] = task]
    BY <1>1 DEF HandleEvent
  <2>2. /\ task \in TaskSet /\ task.phase = "served" /\ task.toServer = socket[s].toServer
        /\ task.toAgent = socket[s].toAgent /\ task.events = socket[s].events
    BY <1>0 DEF TaskSet
  <2> HIDE DEF task
  <2>3. task.events > 0 /\ UNCHANGED <<controllerVars, online, agent, disk>> /\ Task(s, "served")
    BY <2>2 DEF HandleEvent
  <2>4. online' \in Nat /\ OnlineWhileServed'
    BY <2>1, <2>2, <2>3, TaskGoesOn
  <2> QED
    BY <2>1, <2>2, <2>3, <2>4, TaskSteps DEF ControlInv, OrderInv, SocketInv
<1>2. CASE ~socket[s].lagged
  <2> DEFINE pushed == Pushed(s, socket[s], Message("Configuration", Latest))
             task == [pushed EXCEPT !.events = socket[s].events - 1]
  <2>1. socket' = [socket EXCEPT ![s] = task]
    BY <1>2 DEF HandleEvent
  <2>2. /\ pushed \in TaskSet /\ pushed.phase = socket[s].phase /\ pushed.events = socket[s].events
        /\ pushed.toServer = socket[s].toServer /\ pushed.sent = Latest
    <3>1. /\ Message("Configuration", Latest) \in Downs
          /\ Message("Configuration", Latest).argument = Latest
      BY <1>0, MessageType
    <3> QED
      BY <1>0, <3>1, PushedType
  <2> HIDE DEF pushed
  <2>3. socket[s].events - 1 \in Nat
    BY <1>0 DEF HandleEvent, TaskSet
  <2>4. /\ task \in TaskSet /\ task.phase = pushed.phase /\ task.toServer = pushed.toServer
        /\ task.toAgent = pushed.toAgent /\ task.sent = pushed.sent
    BY <2>2, <2>3 DEF TaskSet
  <2> HIDE DEF task
  <2> QED
    <3>1. task.toAgent = Pushed(s, socket[s], Message("Configuration", Latest)).toAgent
      BY <2>4 DEF pushed
    <3>2. UNCHANGED <<controllerVars, online, agent, disk>> /\ Task(s, "served")
      BY DEF HandleEvent
    <3> QED
      BY <1>0, <2>1, <2>2, <2>4, <3>1, <3>2, AnswerKeeps
<1> QED
  BY <1>1, <1>2

LEMMA HandledType ==
    ASSUME ControlType, NEW s \in Sockets, socket[s].toServer # <<>>
    PROVE  /\ Handled(s) \in TaskSet
           /\ Handled(s).phase = socket[s].phase /\ Handled(s).events = socket[s].events
           /\ Handled(s).lagged = socket[s].lagged /\ Handled(s).sent = socket[s].sent
           /\ Handled(s).toAgent = socket[s].toAgent
           /\ Handled(s).toServer = Tail(socket[s].toServer)
<1>1. socket[s] \in TaskSet
  BY DEF ControlType
<1>2. Tail(socket[s].toServer) \in Seq(Ups)
  BY <1>1 DEF TaskSet
<1> QED
  BY <1>1, <1>2 DEF Handled, TaskSet

\* A request is answered with the newest version.
LEMMA RequestAnswered ==
    ASSUME ControlInv, NEW s \in Sockets, NEW kind, Request(s, kind),
           NEW type \in {"Configuration", "UpToDate"},
           AgentOn(s) /\ type = "UpToDate" => Latest <= agent.version,
           socket' = [socket EXCEPT ![s] = Pushed(s, Handled(s), Message(type, Latest))],
           UNCHANGED <<controllerVars, online, agent, disk>>
    PROVE  ControlInv'
<1>0. /\ ControlType /\ Latest \in Nat /\ Task(s, "served") /\ socket[s].toServer # <<>>
      /\ socket[s].phase = "served"
  BY DEF ControlInv, ControlType, Latest, Request, Task
<1>1. /\ Handled(s) \in TaskSet /\ Handled(s).phase = "served"
      /\ Handled(s).toAgent = socket[s].toAgent /\ Handled(s).toServer = Tail(socket[s].toServer)
  BY <1>0, HandledType
<1>2. Message(type, Latest) \in Downs /\ Message(type, Latest).argument = Latest
  BY <1>0, MessageType
<1> DEFINE task == Pushed(s, Handled(s), Message(type, Latest))
<1>3. /\ task \in TaskSet /\ task.phase = "served" /\ task.sent = Latest
      /\ task.toServer = Handled(s).toServer
  BY <1>1, <1>2, PushedType
<1> QED
  BY <1>0, <1>1, <1>3, AnswerKeeps

LEMMA HandleSyncKeeps ==
    ASSUME ControlInv, NEW s \in Sockets, HandleSync(s) PROVE ControlInv'
<1>0. /\ socket[s].toServer \in Seq(Ups) /\ socket[s].toServer # <<>>
      /\ Head(socket[s].toServer).type = "Sync" /\ Latest \in Nat /\ agent.version \in Nat
  BY DEF ControlInv, ControlType, TaskSet, AgentSet, Latest, HandleSync, Request
<1>1. /\ Head(socket[s].toServer) = socket[s].toServer[1] /\ 1 \in DOMAIN socket[s].toServer
      /\ socket[s].toServer[1] \in Ups
  BY <1>0
<1>2. Argument(s) \in Nat /\ Argument(s) = socket[s].toServer[1].argument
  BY <1>0, <1>1 DEF Ups, Argument
<1>3. AgentOn(s) => Argument(s) <= agent.version
  BY <1>0, <1>1, <1>2 DEF ControlInv, OrderInv, Syncs
<1>4. CASE Latest > Argument(s)
  <2>1. socket' = [socket EXCEPT ![s] = Pushed(s, Handled(s), Message("Configuration", Latest))]
    BY <1>4 DEF HandleSync
  <2> QED
    BY <2>1, RequestAnswered DEF HandleSync
<1>5. CASE ~(Latest > Argument(s))
  <2>1. socket' = [socket EXCEPT ![s] = Pushed(s, Handled(s), Message("UpToDate", Latest))]
    BY <1>5 DEF HandleSync
  <2>2. AgentOn(s) => Latest <= agent.version
    BY <1>0, <1>2, <1>3, <1>5
  <2> QED
    BY <2>1, <2>2, RequestAnswered DEF HandleSync
<1> QED
  BY <1>4, <1>5

LEMMA HandleDuplicateKeeps ==
    ASSUME ControlInv, NEW s \in Sockets, HandleDuplicate(s) PROVE ControlInv'
BY RequestAnswered DEF HandleDuplicate

LEMMA HandleReportKeeps ==
    ASSUME ControlInv, NEW s \in Sockets, HandleReport(s) PROVE ControlInv'
<1>0. /\ ControlType /\ Task(s, "served") /\ socket[s].toServer # <<>>
      /\ socket[s].phase = "served"
  BY DEF ControlInv, HandleReport, Request, Task
<1>1. /\ Handled(s) \in TaskSet /\ Handled(s).phase = "served"
      /\ Handled(s).sent = socket[s].sent /\ Handled(s).events = socket[s].events
      /\ Handled(s).toAgent = socket[s].toAgent /\ Handled(s).toServer = Tail(socket[s].toServer)
  BY <1>0, HandledType
<1>2. UNCHANGED <<controllerVars, online, agent, disk>>
      /\ socket' = [socket EXCEPT ![s] = Handled(s)]
  BY DEF HandleReport
<1>3. online' \in Nat /\ OnlineWhileServed'
  BY <1>0, <1>1, <1>2, TaskGoesOn
<1>4. Handled(s).sent < announced => Handled(s).events > 0
  BY <1>0, <1>1 DEF ControlInv, PendingInv, AnnouncementPending
<1>5. /\ AgentOn(s) => Ordered(Handled(s).toAgent, agent.version, Latest)
      /\ ~AgentOn(s) => Handled(s).toAgent = <<>>
  BY <1>1 DEF ControlInv, OrderInv, SocketInv
<1> QED
  BY <1>0, <1>1, <1>2, <1>3, <1>4, <1>5, TaskSteps

LEMMA HeadCandidate ==
    ASSUME NEW q \in Seq(Ups), q # <<>>, Head(q).type = "Candidates"
    PROVE  /\ Head(q).argument \in Adverts /\ Head(q).argument \in Cands(q)
           /\ Rising(q) => \A a \in Cands(Tail(q)) : Head(q).argument.generation <= a.generation
<1>1. /\ Len(Tail(q)) = Len(q) - 1 /\ Len(q) > 0 /\ Len(q) \in Nat
      /\ DOMAIN q = 1 .. Len(q) /\ DOMAIN Tail(q) = 1 .. Len(Tail(q))
      /\ \A i \in 1 .. Len(Tail(q)) : /\ Tail(q)[i] = q[i + 1] /\ i + 1 \in 1 .. Len(q)
                                      /\ 1 < i + 1
      /\ Head(q) = q[1] /\ 1 \in DOMAIN q /\ q[1] \in Ups
  OBVIOUS
<1>2. Head(q).argument \in Adverts
  BY <1>1 DEF Ups
<1>3. Head(q).argument \in Cands(q)
  BY <1>1 DEF Cands
<1>4. ASSUME Rising(q), NEW i \in DOMAIN Tail(q), Tail(q)[i].type = "Candidates"
      PROVE  Head(q).argument.generation <= Tail(q)[i].argument.generation
  BY <1>1, <1>4 DEF Rising
<1> QED
  BY <1>2, <1>3, <1>4 DEF Cands

\* A version that lists another endpoint of an active agent is a version.
LEMMA ListedInConfiguration ==
    ASSUME NEW c \in Configuration, c.member, NEW endpoint \in Endpoints \cup {NoEndpoint}
    PROVE  [c EXCEPT !.candidate[Self] = endpoint] \in Configuration
<1> DEFINE d == [c EXCEPT !.candidate[Self] = endpoint]
<1>1. /\ d.member = c.member /\ d.peers = c.peers /\ d.channel = c.channel
      /\ d.refusable = c.refusable /\ d.candidate = [c.candidate EXCEPT ![Self] = endpoint]
      /\ d \in [member : BOOLEAN, peers : SUBSET Peers, channel : Channels,
                 candidate : [Nodes -> Endpoints \cup {NoEndpoint}], refusable : BOOLEAN]
  BY DEF Configuration
<1> HIDE DEF d
<1>2. Self \in Active(c) /\ Active(d) = Active(c)
  BY <1>1 DEF Active
<1>3. \A n \in Nodes \ Active(d) : d.candidate[n] = NoEndpoint
  BY <1>1, <1>2 DEF Configuration
<1> QED
  BY <1>1, <1>3 DEF Configuration, d

LEMMA HandleAdvertisementKeeps ==
    ASSUME ControlInv, NEW s \in Sockets, HandleAdvertisement(s) PROVE ControlInv'
<1> USE DEF ControlInv
<1> DEFINE q == socket[s].toServer
           m == Message("Configuration", Latest + 1)
           task == Pushed(s, Handled(s), m)
<1>0. /\ ControlType /\ Task(s, "served") /\ q # <<>> /\ q \in Seq(Ups) /\ socket[s] \in TaskSet
      /\ socket[s].phase = "served" /\ Head(q).type = "Candidates" /\ Argument(s) = Head(q).argument
  BY DEF HandleAdvertisement, Request, Task, ControlType, TaskSet, Argument
<1>a. PICK c \in Configuration : published' = Append(published, c)
  <2>1. Argument(s) \in Adverts
    BY <1>0 DEF Ups
  <2>2. Now \in Configuration /\ Now.member
    BY DEF HandleAdvertisement, ControlType, Latest, Now
  <2> QED
    BY <2>1, <2>2, ListedInConfiguration DEF HandleAdvertisement, Adverts
<1>1. /\ Latest \in Nat /\ Latest >= 1
      /\ published' \in Seq(Configuration) /\ published' # <<>> /\ Latest' = Latest + 1
  BY <1>a DEF ControlType, Latest
<1>2. /\ Handled(s) \in TaskSet /\ Handled(s).phase = "served"
      /\ Handled(s).toAgent = socket[s].toAgent /\ Handled(s).toServer = Tail(q)
  BY <1>0, HandledType
<1>3. m \in Downs /\ m.argument = Latest + 1
  BY <1>1, MessageType
<1>4. /\ task \in TaskSet /\ task.phase = "served" /\ task.sent = Latest + 1
      /\ task.toServer = Tail(q)
      /\ AgentOn(s) => task.toAgent = Append(socket[s].toAgent, m)
      /\ ~AgentOn(s) => task.toAgent = socket[s].toAgent
  <2> HIDE DEF m
  <2> QED
    BY <1>2, <1>3, PushedType
<1>5. socket' = [r \in Sockets |-> Notified(IF r = s THEN task ELSE socket[r])]
  BY DEF HandleAdvertisement
<1> HIDE DEF task
<1>6. /\ socket' \in [Sockets -> TaskSet]
      /\ socket'[s].phase = "served" /\ socket'[s].sent = Latest + 1
      /\ socket'[s].toServer = Tail(q) /\ socket'[s].toAgent = task.toAgent
  BY <1>0, <1>4, <1>5, NotifiedType DEF ControlType
<1>7. \A r \in Sockets \ {s} :
         /\ socket'[r].phase = socket[r].phase /\ socket'[r].sent = socket[r].sent
         /\ socket'[r].toServer = socket[r].toServer /\ socket'[r].toAgent = socket[r].toAgent
         /\ socket[r].phase = "served" => socket'[r].events > 0
  BY <1>5, NotifiedType DEF ControlType
<1>8. /\ Argument(s) \in Adverts /\ Argument(s) \in Cands(q)
      /\ Rising(q) => \A a \in Cands(Tail(q)) : Argument(s).generation <= a.generation
      /\ Cands(Tail(q)) \subseteq Cands(q) /\ (Rising(q) => Rising(Tail(q)))
  BY <1>0, HeadCandidate, CandsTail
<1>9. ControlType'
  BY <1>1, <1>6, <1>8 DEF HandleAdvertisement, ControlType
<1>10. SocketInv'
  <2>1. UNCHANGED agent
    BY DEF HandleAdvertisement
  <2>2. (AgentOn(NoSocket)' <=> AgentOn(NoSocket)) /\ \A r \in Sockets : AgentOn(r)' <=> AgentOn(r)
    BY <2>1 DEF AgentOn
  <2>3. \A r \in Sockets : Task(r, "none")' => r # s /\ Task(r, "none")
    BY <1>6, <1>7 DEF Task
  <2>4. \A r \in Sockets : ~AgentOn(r) => socket'[r].toAgent = socket[r].toAgent
    BY <1>4, <1>6, <1>7
  <2> QED
    BY <1>7, <2>1, <2>2, <2>3, <2>4 DEF SocketInv
<1>11. OnlineWhileServed'
  <2>1. \A r \in Sockets : Task(r, "served")' <=> Task(r, "served")
    BY <1>0, <1>6, <1>7 DEF Task
  <2> QED
    BY <2>1, OnlineUntouched DEF HandleAdvertisement
<1>12. PendingInv'
  BY <1>1, <1>6, <1>7 DEF HandleAdvertisement, PendingInv, AnnouncementPending, Task
<1>13. OrderInv'
  <2>1. \A r \in Sockets : Shrunk(r)
    BY <1>0, <1>6, <1>7 DEF Shrunk
  <2>2. agent.version \in Nat /\ agent.version <= Latest + 1
    BY <1>1 DEF ControlType, AgentSet, OrderInv
  <2>3. ASSUME agent.socket \in Sockets
        PROVE  Ordered(socket'[agent.socket].toAgent, agent.version, Latest + 1)
    <3> DEFINE t == agent.socket
    <3>0. /\ socket[t].toAgent \in Seq(Downs) /\ Ordered(socket[t].toAgent, agent.version, Latest)
      BY <2>3 DEF ControlType, TaskSet, OrderInv, AgentOn
    <3>1. Ordered(socket[t].toAgent, agent.version, Latest + 1)
      BY <1>1, <2>2, <3>0, OrderedGrows
    <3>2. CASE t = s
      <4>1. socket'[t].toAgent = Append(socket[t].toAgent, m)
        BY <1>4, <1>6, <3>2 DEF AgentOn
      <4> QED
        BY <1>1, <2>2, <3>0, <3>1, <4>1, OrderedAppend
    <3>3. CASE t # s
      BY <1>7, <2>3, <3>1, <3>3
    <3> QED
      BY <3>2, <3>3
  <2> QED
    BY <1>1, <2>1, <2>3, OrderUntouched DEF HandleAdvertisement
<1>14. FreshInv'
  <2>1. stored' = Argument(s) /\ UNCHANGED <<agent, disk>>
    BY DEF HandleAdvertisement
  <2>2. \A r \in Sockets : Cands(socket'[r].toServer) \subseteq Cands(socket[r].toServer)
    BY <1>6, <1>7, <1>8
  <2>3. Known' \subseteq Known
    BY <1>8, <2>1, <2>2 DEF Known
  <2>4. KnownInv'
    BY <2>1, <2>3 DEF FreshInv, KnownInv
  <2>5. ASSUME NEW t \in Sockets, AgentOn(t)' PROVE Rising(socket'[t].toServer) /\ Newest(t)'
    <3>1. Rising(socket[t].toServer) /\ Newest(t)
      BY <2>1, <2>5 DEF FreshInv, AgentOn
    <3>2. Rising(socket'[t].toServer)
      BY <1>6, <1>7, <1>8, <3>1
    <3>3. \A a \in Cands(socket'[t].toServer) : Argument(s).generation <= a.generation
      BY <1>6, <1>7, <1>8, <3>1 DEF Newest
    <3>4. Newest(t)'
      BY <2>1, <2>2, <3>1, <3>3 DEF Newest
    <3> QED
      BY <3>2, <3>4
  <2> QED
    BY <2>4, <2>5 DEF FreshInv
<1> QED
  BY <1>9, <1>10, <1>11, <1>12, <1>13, <1>14

-------------------------------------------------------------------------------
(* Publication, its announcement, and the restart of the Controller. *)

\* The version the agent waits for may be newer than before.
LEMMA OrderWhilePublished ==
    ASSUME ControlType, OrderInv, Latest' \in Nat, Latest <= Latest',
           \A r \in Sockets : Shrunk(r),
           \A r \in Sockets : AgentOn(r) => socket'[r].toAgent = socket[r].toAgent,
           UNCHANGED <<agent, disk>>
    PROVE  OrderInv'
<1>1. ASSUME agent.socket \in Sockets
      PROVE  Ordered(socket'[agent.socket].toAgent, agent.version, Latest')
  <2>1. /\ socket[agent.socket].toAgent \in Seq(Downs) /\ agent.version \in Nat /\ Latest \in Nat
        /\ Ordered(socket[agent.socket].toAgent, agent.version, Latest)
        /\ socket'[agent.socket].toAgent = socket[agent.socket].toAgent
    BY <1>1 DEF ControlType, TaskSet, AgentSet, OrderInv, AgentOn, Latest
  <2> QED
    BY <2>1, OrderedGrows
<1> QED
  BY <1>1, OrderUntouched

LEMMA PublishKeeps == ASSUME ControlInv, Publish PROVE ControlInv'
<1> USE DEF ControlInv
<1>1. PICK c \in Configuration : published' = Append(published, c)
  BY DEF Publish
<1>2. /\ Latest \in Nat /\ Latest' = Latest + 1
      /\ published' \in Seq(Configuration) /\ published' # <<>>
  BY <1>1 DEF ControlType, Latest
<1>3. ControlType' /\ SocketInv' /\ OnlineWhileServed'
  BY <1>2 DEF Publish, ControlType, SocketInv, OnlineWhileServed, Task, AgentOn
<1>4. PendingInv'
  BY <1>2 DEF Publish, PendingInv, AnnouncementPending, Task, ControlType
<1>5. \A r \in Sockets : Shrunk(r)
  BY DEF Publish, Shrunk
<1>6. OrderInv'
  BY <1>2, <1>5, OrderWhilePublished DEF Publish
<1>7. FreshInv'
  BY <1>5, FreshUntouched DEF Publish
<1> QED
  BY <1>3, <1>4, <1>6, <1>7

LEMMA AnnounceKeeps ==
    ASSUME ControlInv, NEW v \in committed, Announce(v) PROVE ControlInv'
<1> USE DEF ControlInv
<1>0. /\ Latest \in Nat /\ Latest' = Latest /\ v \in Nat /\ v <= Latest /\ announced \in Nat
      /\ announced' \in Nat /\ announced' <= Latest
  BY DEF Announce, ControlType, PendingInv, Latest
<1>1. socket' \in [Sockets -> TaskSet]
  BY NotifiedType DEF Announce, ControlType
<1>2. \A r \in Sockets :
         /\ socket'[r].phase = socket[r].phase /\ socket'[r].sent = socket[r].sent
         /\ socket'[r].toServer = socket[r].toServer /\ socket'[r].toAgent = socket[r].toAgent
         /\ socket[r].phase = "served" => socket'[r].events > 0
  BY NotifiedType DEF Announce, ControlType
<1>3. ControlType' /\ SocketInv'
  BY <1>0, <1>1, <1>2 DEF Announce, ControlType, SocketInv, Task, AgentOn
<1>4. OnlineWhileServed'
  BY <1>2, OnlineUntouched DEF Announce, Task
<1>5. PendingInv'
  BY <1>0, <1>2 DEF Announce, PendingInv, AnnouncementPending, Task
<1>6. \A r \in Sockets : Shrunk(r)
  BY <1>2 DEF Shrunk
<1>7. OrderInv'
  BY <1>0, <1>2, <1>6, OrderWhilePublished DEF Announce
<1>8. FreshInv'
  BY <1>6, FreshUntouched DEF Announce
<1> QED
  BY <1>3, <1>4, <1>5, <1>7, <1>8

LEMMA LoseAnnouncementKeeps ==
    ASSUME ControlInv, NEW v \in committed, LoseAnnouncement(v) PROVE ControlInv'
<1> USE DEF ControlInv
<1>1. /\ Latest \in Nat /\ Latest' = Latest
  BY DEF LoseAnnouncement, ControlType, Latest
<1>2. ControlType' /\ SocketInv' /\ OnlineWhileServed' /\ PendingInv'
  BY <1>1 DEF LoseAnnouncement, ControlType, SocketInv, OnlineWhileServed, PendingInv,
     AnnouncementPending, Task, AgentOn
<1>3. \A r \in Sockets : Shrunk(r)
  BY DEF LoseAnnouncement, Shrunk
<1>4. OrderInv'
  BY <1>1, <1>3, OrderWhilePublished DEF LoseAnnouncement
<1>5. FreshInv'
  BY <1>3, FreshUntouched DEF LoseAnnouncement
<1> QED
  BY <1>2, <1>4, <1>5

LEMMA ControllerRestartsKeeps == ASSUME ControlInv, ControllerRestarts PROVE ControlInv'
<1> USE DEF ControlInv
<1>1. /\ Latest \in Nat /\ Latest' = Latest
  BY DEF ControllerRestarts, ControlType, Latest
<1>2. \A r \in Sockets :
         /\ socket'[r] \in TaskSet
         /\ socket'[r].phase \in {"none", "closed"} /\ socket'[r].toServer = <<>>
         /\ AgentOn(r) => socket'[r].phase = "closed" /\ socket'[r].toAgent = socket[r].toAgent
         /\ ~AgentOn(r) => socket'[r].toAgent = <<>>
  BY EndedType DEF ControllerRestarts, ControlType, SocketInv, Task
<1>3. socket' \in [Sockets -> TaskSet]
  <2>1. socket' = [r \in Sockets |-> socket'[r]]
    BY DEF ControllerRestarts
  <2> QED
    BY <1>2, <2>1
<1>4. ControlType' /\ SocketInv'
  BY <1>2, <1>3 DEF ControllerRestarts, ControlType, SocketInv, Task, AgentOn
<1>5. OnlineWhileServed'
  <2>1. {r \in Sockets : Task(r, "served")'} = {}
    BY <1>2 DEF Task
  <2>2. Cardinality({}) = 0
    BY FS_EmptySet
  <2> QED
    BY <2>1, <2>2 DEF OnlineWhileServed, ControllerRestarts
<1>6. PendingInv'
  BY <1>1, <1>2 DEF ControllerRestarts, PendingInv, AnnouncementPending, Task
<1>7. \A r \in Sockets : Shrunk(r)
  BY <1>2 DEF Shrunk
<1>8. OrderInv'
  BY <1>1, <1>2, <1>7, OrderWhilePublished DEF ControllerRestarts
<1>9. FreshInv'
  BY <1>7, FreshUntouched DEF ControllerRestarts
<1> QED
  BY <1>4, <1>5, <1>6, <1>8, <1>9

-------------------------------------------------------------------------------
(* The agent. *)

\* The Controller's tasks do not notice what the agent does.
LEMMA TasksUntouched ==
    ASSUME ControlInv, UNCHANGED <<controllerVars, online>>,
           \A r \in Sockets : /\ Task(r, "served")' <=> Task(r, "served")
                              /\ Task(r, "served") => /\ socket'[r].sent = socket[r].sent
                                                      /\ socket'[r].events = socket[r].events
    PROVE  OnlineWhileServed' /\ PendingInv'
<1>1. OnlineWhileServed'
  BY OnlineUntouched DEF ControlInv
<1>2. PendingInv'
  BY DEF ControlInv, PendingInv, AnnouncementPending, Latest, controllerVars
<1> QED
  BY <1>1, <1>2

\* The agent has left its socket.
LEMMA SocketLeft ==
    ASSUME ControlInv, NEW s \in Sockets, AgentOn(s), socket' = Left(s),
           agent'.socket = NoSocket, UNCHANGED <<controllerVars, online>>
    PROVE  /\ socket' \in [Sockets -> TaskSet] /\ SocketInv' /\ OnlineWhileServed' /\ PendingInv'
           /\ \A r \in Sockets : Shrunk(r)
<1>1. /\ socket' \in [Sockets -> TaskSet]
      /\ \A r \in Sockets : r # s => socket'[r] = socket[r]
      /\ socket'[s].toAgent = <<>>
      /\ socket'[s].toServer \in {<<>>, socket[s].toServer}
      /\ Task(s, "closed") => socket'[s] = Closed
      /\ ~Task(s, "closed") =>
            /\ socket'[s].phase = socket[s].phase /\ socket'[s].sent = socket[s].sent
            /\ socket'[s].events = socket[s].events
  BY LeftType DEF ControlInv
<1>2. \A r \in Sockets : Shrunk(r)
  BY <1>1 DEF Shrunk
<1>3. SocketInv'
  BY <1>1, ClosedType, SocketNumbers DEF ControlInv, SocketInv, Task, AgentOn
<1>4. \A r \in Sockets : /\ Task(r, "served")' <=> Task(r, "served")
                         /\ Task(r, "served") => /\ socket'[r].sent = socket[r].sent
                                                 /\ socket'[r].events = socket[r].events
  BY <1>1, ClosedType DEF Task
<1> QED
  BY <1>1, <1>2, <1>3, <1>4, TasksUntouched

\* Of an agent without a socket only what it holds matters.
LEMMA OffSocket ==
    ASSUME ControlType', SocketInv', OnlineWhileServed', PendingInv', KnownInv',
           agent'.socket = NoSocket, agent'.version <= Latest', disk'.version <= Latest'
    PROVE  ControlInv'
<1>1. \A s \in Sockets : ~AgentOn(s)'
  BY SocketNumbers DEF AgentOn
<1> QED
  BY <1>1 DEF ControlInv, OrderInv, FreshInv

\* control_session has returned, with the version it may have applied before.
LEMMA LeaveKeeps ==
    ASSUME ControlInv, NEW s \in Sockets, AgentOn(s), socket' = Left(s),
           NEW version \in Nat, version <= Latest, agent' = [Waiting EXCEPT !.version = version],
           UNCHANGED <<controllerVars, online, disk>>
    PROVE  ControlInv'
<1>1. /\ agent' \in AgentSet /\ agent'.socket = NoSocket /\ agent'.version = version
      /\ agent'.generation = agent.generation /\ agent'.advertised = agent.advertised
      /\ agent'.seen = agent.seen
  BY DEF Waiting, ControlInv, ControlType, AgentSet
<1>2. /\ socket' \in [Sockets -> TaskSet] /\ SocketInv' /\ OnlineWhileServed' /\ PendingInv'
      /\ \A r \in Sockets : Shrunk(r)
  BY <1>1, SocketLeft
<1>3. ControlType'
  BY <1>1, <1>2 DEF ControlInv, ControlType, controllerVars
<1>4. FreshInv'
  BY <1>1, <1>2, FreshUntouched DEF ControlInv, controllerVars
<1>5. agent'.version <= Latest' /\ disk'.version <= Latest'
  BY <1>1 DEF ControlInv, OrderInv, Latest, controllerVars
<1> QED
  BY <1>1, <1>2, <1>3, <1>4, <1>5, OffSocket DEF FreshInv

LEMMA PlainLeaveKeeps ==
    ASSUME ControlInv, NEW s \in Sockets, AgentOn(s), Leave(s),
           UNCHANGED <<controllerVars, online, disk>>
    PROVE  ControlInv'
<1>1. agent.version \in Nat /\ agent.version <= Latest
  BY DEF ControlInv, ControlType, AgentSet, OrderInv
<1>2. agent' = [Waiting EXCEPT !.version = agent.version]
  BY DEF Leave, Waiting, ControlInv, ControlType, AgentSet
<1> QED
  BY <1>1, <1>2, LeaveKeeps DEF Leave

LEMMA SessionEndsKeeps ==
    ASSUME ControlInv, NEW s \in Sockets, SessionEnds(s) \/ Disconnect(s) \/ RefuseConfiguration(s)
    PROVE  ControlInv'
BY PlainLeaveKeeps DEF SessionEnds, Disconnect, RefuseConfiguration, Incoming

\* The head of what the Controller wrote.
LEMMA IncomingVersion ==
    ASSUME ControlInv, NEW s \in Sockets, NEW types, Incoming(s, types)
    PROVE  /\ AgentOn(s) /\ agent.version \in Nat /\ Latest \in Nat
           /\ Version(s) \in Nat /\ agent.version <= Version(s) /\ Version(s) <= Latest
           /\ socket[s].toAgent \in Seq(Downs) /\ Tail(socket[s].toAgent) \in Seq(Downs)
           /\ Ordered(Tail(socket[s].toAgent), Version(s), Latest)
<1>1. /\ AgentOn(s) /\ socket[s].toAgent \in Seq(Downs) /\ socket[s].toAgent # <<>>
      /\ Latest \in Nat /\ agent.version \in Nat
      /\ Ordered(socket[s].toAgent, agent.version, Latest)
  BY DEF Incoming, ControlInv, ControlType, TaskSet, AgentSet, Latest, OrderInv
<1>2. Version(s) = Head(socket[s].toAgent).argument
  BY DEF Version
<1>3. /\ Tail(socket[s].toAgent) \in Seq(Downs) /\ Head(socket[s].toAgent) \in Downs
      /\ agent.version <= Version(s) /\ Version(s) <= Latest
      /\ Ordered(Tail(socket[s].toAgent), Version(s), Latest)
  BY <1>1, <1>2, OrderedTail
<1> QED
  BY <1>1, <1>2, <1>3 DEF Downs

LEMMA ApplyUnwrittenKeeps ==
    ASSUME ControlInv, NEW s \in Sockets, ApplyUnwritten(s) PROVE ControlInv'
BY LeaveKeeps, IncomingVersion DEF ApplyUnwritten

\* The agent writes to its socket, if an advertisement then the one it holds.
LEMMA FreshWhileWriting ==
    ASSUME ControlInv, NEW s \in Sockets, AgentOn(s), NEW more \in Seq(Ups),
           socket'[s].toServer = socket[s].toServer \o more, Rising(more),
           \A a \in Cands(more) : a = agent.advertised /\ a # NoAdvertisement,
           \A r \in Sockets \ {s} : socket'[r].toServer = socket[r].toServer,
           stored' = stored, disk'.generation = disk.generation, agent'.socket = agent.socket,
           agent'.generation = agent.generation, agent'.advertised = agent.advertised,
           agent.seen => agent'.seen
    PROVE  FreshInv'
<1> DEFINE q == socket[s].toServer
<1>0. q \in Seq(Ups) /\ agent.generation \in Nat /\ KnownInv
  BY DEF ControlInv, ControlType, TaskSet, AgentSet, FreshInv
<1>1. \A a \in Cands(more) : a \in Known /\ a.generation = agent.generation
  BY <1>0 DEF KnownInv, Known
<1>2. Cands(q) \subseteq Known /\ \A a \in Known : a.generation <= agent.generation
  BY <1>0 DEF KnownInv, Known
<1>3. /\ Cands(q \o more) = Cands(q) \cup Cands(more)
      /\ Rising(q) => Rising(q \o more)
  <2>1. \A a \in Cands(q), b \in Cands(more) : a.generation <= b.generation
    BY <1>1, <1>2
  <2> QED
    BY <1>0, <2>1, CandsJoined
<1>4. Known' \subseteq Known
  <2>1. \A r \in Sockets : Cands(socket'[r].toServer) \subseteq Known
    <3>1. Cands(socket'[s].toServer) \subseteq Known
      BY <1>1, <1>2, <1>3
    <3>2. \A r \in Sockets \ {s} : Cands(socket'[r].toServer) \subseteq Known
      BY DEF Known
    <3> QED
      BY <3>1, <3>2
  <2>2. stored' \in Known /\ agent'.advertised \in Known
    BY DEF Known
  <2> QED
    BY <2>1, <2>2 DEF Known
<1>5. KnownInv'
  BY <1>0, <1>4 DEF KnownInv
<1>6. Rising(q) /\ Newest(s)
  BY DEF ControlInv, FreshInv
<1>7. \A r \in Sockets : Cands(socket[r].toServer) \subseteq Known
  BY DEF Known
<1>8. stored \in Known
  BY DEF Known
<1>9. Newest(s)'
  BY <1>1, <1>2, <1>3, <1>6, <1>7, <1>8 DEF Newest
<1>10. \A t \in Sockets : AgentOn(t)' => t = s
  BY DEF AgentOn
<1> QED
  BY <1>3, <1>5, <1>6, <1>9, <1>10 DEF FreshInv

\* What the agent writes when it applies version v, and at its ticks.
LEMMA ReportsType ==
    ASSUME NEW v \in Nat
    PROVE  /\ Reports(v) \in Seq(Ups) /\ Cands(Reports(v)) = {} /\ Rising(Reports(v))
           /\ \A held : Syncs(Reports(v), held)
           /\ <<TelemetryReport(v)>> \in Seq(Ups) /\ Cands(<<TelemetryReport(v)>>) = {}
           /\ Rising(<<TelemetryReport(v)>>) /\ \A held : Syncs(<<TelemetryReport(v)>>, held)
<1>1. /\ RuntimeReport(v) \in Ups /\ RuntimeReport(v).type = "Runtime"
      /\ TelemetryReport(v) \in Ups /\ TelemetryReport(v).type = "Telemetry"
  BY DEF RuntimeReport, TelemetryReport, Message, Ups
<1>2. Reports(v) \in Seq(Ups) /\ Cands(Reports(v)) = {} /\ Rising(Reports(v))
  BY <1>1 DEF Reports, Cands, Rising
<1>3. \A held : Syncs(Reports(v), held)
  BY <1>1 DEF Reports, Syncs
<1>4. /\ <<TelemetryReport(v)>> \in Seq(Ups) /\ Cands(<<TelemetryReport(v)>>) = {}
      /\ Rising(<<TelemetryReport(v)>>) /\ \A held : Syncs(<<TelemetryReport(v)>>, held)
  BY <1>1 DEF Cands, Rising, Syncs
<1> QED
  BY <1>2, <1>3, <1>4

LEMMA AdvertisedType ==
    ASSUME NEW a \in Adverts
    PROVE  LET q == <<Message("Candidates", a)>> IN
           q \in Seq(Ups) /\ Cands(q) = {a} /\ Rising(q) /\ \A held : Syncs(q, held)
<1>1. /\ Message("Candidates", a) \in Ups
      /\ Message("Candidates", a).type = "Candidates" /\ Message("Candidates", a).argument = a
  BY DEF Message, Ups
<1> QED
  BY <1>1 DEF Cands, Rising, Syncs

LEMMA GreetingType ==
    ASSUME ControlType, NEW s \in Sockets
    PROVE  /\ Greeting(s) \in Seq(Ups) /\ Rising(Greeting(s)) /\ \A held : Syncs(Greeting(s), held)
           /\ \A a \in Cands(Greeting(s)) : a = agent.advertised /\ a # NoAdvertisement
<1>1. agent.advertised \in Adverts
  BY DEF ControlType, AgentSet
<1>2. CASE Greeting(s) = <<>>
  BY <1>2, CandsEmpty DEF Syncs
<1>3. CASE agent.advertised # NoAdvertisement /\ Greeting(s) = <<Message("Candidates", agent.advertised)>>
  BY <1>1, <1>3, AdvertisedType
<1> QED
  BY <1>2, <1>3 DEF Greeting

LEMMA Regrouped ==
    ASSUME NEW a \in Seq(Ups), NEW b \in Seq(Ups), NEW c \in Seq(Ups)
    PROVE  (a \o b) \o c = a \o (b \o c)
<1>1. /\ (a \o b) \o c \in Seq(Ups) /\ a \o (b \o c) \in Seq(Ups)
      /\ Len((a \o b) \o c) = Len(a) + Len(b) + Len(c)
      /\ Len(a \o (b \o c)) = Len(a) + Len(b) + Len(c)
  OBVIOUS
<1>2. \A i \in 1 .. Len(a) + Len(b) + Len(c) : ((a \o b) \o c)[i] = (a \o (b \o c))[i]
  OBVIOUS
<1> QED
  BY <1>1, <1>2

LEMMA ApplyConfigurationKeeps ==
    ASSUME ControlInv, NEW s \in Sockets, ApplyConfiguration(s) PROVE ControlInv'
<1> USE DEF ControlInv
<1> DEFINE q == socket[s].toServer
           v == Version(s)
           more == Reports(v) \o Greeting(s)
<1>1. /\ AgentOn(s) /\ agent.version \in Nat /\ Latest \in Nat
      /\ v \in Nat /\ agent.version <= v /\ v <= Latest
      /\ Tail(socket[s].toAgent) \in Seq(Downs) /\ Ordered(Tail(socket[s].toAgent), v, Latest)
  BY IncomingVersion DEF ApplyConfiguration
<1>2. socket[s] \in TaskSet /\ q \in Seq(Ups)
  BY DEF ControlType, TaskSet
<1>3. /\ Reports(v) \in Seq(Ups) /\ Cands(Reports(v)) = {} /\ Rising(Reports(v))
      /\ Syncs(Reports(v), v)
      /\ Greeting(s) \in Seq(Ups) /\ Rising(Greeting(s)) /\ Syncs(Greeting(s), v)
      /\ \A a \in Cands(Greeting(s)) : a = agent.advertised /\ a # NoAdvertisement
  BY <1>1, ReportsType, GreetingType
<1>4. /\ more \in Seq(Ups) /\ Rising(more) /\ Syncs(more, v)
      /\ \A a \in Cands(more) : a = agent.advertised /\ a # NoAdvertisement
  BY <1>3, CandsJoined
<1>5. q \o Reports(v) \o Greeting(s) = q \o more
  BY <1>2, <1>3, Regrouped
<1>6. Syncs(q, agent.version)
  BY <1>1 DEF OrderInv
<1>7. Syncs(q, v)
  <2>1. ASSUME NEW i \in DOMAIN q, q[i].type = "Sync" PROVE q[i].argument <= v
    <3>1. q[i].argument <= agent.version
      BY <1>6, <2>1 DEF Syncs
    <3>2. q[i] \in Ups
      BY <1>2
    <3>3. q[i].argument \in Nat
      BY <2>1, <3>2 DEF Ups
    <3> QED
      BY <1>1, <3>1, <3>3
  <2> QED
    BY <2>1 DEF Syncs
<1>8. q \o more \in Seq(Ups) /\ Syncs(q \o more, v)
  BY <1>2, <1>4, <1>7, CandsJoined
<1> DEFINE task == [socket[s] EXCEPT !.toAgent = Tail(socket[s].toAgent), !.toServer = q \o more]
<1>9. socket' = [socket EXCEPT ![s] = task]
  BY <1>5 DEF ApplyConfiguration, ControlType
<1> HIDE DEF more, v
<1>10. /\ task \in TaskSet /\ task.phase = socket[s].phase /\ task.events = socket[s].events
       /\ task.sent = socket[s].sent /\ task.toAgent = Tail(socket[s].toAgent)
       /\ task.toServer = q \o more
  BY <1>1, <1>2, <1>8 DEF TaskSet
<1> HIDE DEF task
<1>11. /\ socket' \in [Sockets -> TaskSet] /\ socket'[s] = task
       /\ \A r \in Sockets \ {s} : socket'[r] = socket[r]
  BY <1>9, <1>10 DEF ControlType
<1>12. /\ agent' \in AgentSet /\ agent'.version = v /\ agent'.socket = agent.socket
       /\ agent'.up = agent.up
       /\ agent'.generation = agent.generation /\ agent'.advertised = agent.advertised
       /\ agent'.seen = agent.seen
  BY <1>1 DEF ApplyConfiguration, ControlType, AgentSet, v
<1>13. /\ disk' \in [version : Nat, generation : Nat] /\ disk'.version \in {disk.version, v}
       /\ disk'.generation = disk.generation
  BY <1>1 DEF ApplyConfiguration, ControlType, AgentSet, FreshInv, KnownInv, v
<1>14. UNCHANGED <<controllerVars, online>> /\ Latest' = Latest /\ stored' = stored
  BY DEF ApplyConfiguration, controllerVars, Latest
<1>15. ControlType'
  BY <1>11, <1>12, <1>13, <1>14 DEF ControlType, controllerVars
<1>16. ~Task(s, "none")
  BY <1>1 DEF ApplyConfiguration, Incoming, SocketInv, Task
<1>17. SocketInv'
  BY <1>1, <1>10, <1>11, <1>12, <1>16 DEF SocketInv, Task, AgentOn
<1>18. OnlineWhileServed' /\ PendingInv'
  <2>1. \A r \in Sockets : /\ Task(r, "served")' <=> Task(r, "served")
                           /\ Task(r, "served") => /\ socket'[r].sent = socket[r].sent
                                                   /\ socket'[r].events = socket[r].events
    BY <1>10, <1>11 DEF Task
  <2> QED
    BY <1>14, <2>1, TasksUntouched
<1>19. OrderInv'
  <2>1. \A t \in Sockets : AgentOn(t)' => t = s
    BY <1>1, <1>12 DEF AgentOn
  <2> QED
    BY <1>1, <1>8, <1>10, <1>11, <1>12, <1>13, <1>14, <2>1 DEF OrderInv
<1>20. FreshInv'
  BY <1>1, <1>4, <1>10, <1>11, <1>12, <1>13, <1>14, FreshWhileWriting
<1> QED
  BY <1>15, <1>17, <1>18, <1>19, <1>20

\* The agent writes without having read.
LEMMA AgentWrites ==
    ASSUME ControlInv, NEW s \in Sockets, AgentOn(s), NEW more \in Seq(Ups),
           socket' = Sent(s, more), Rising(more), Syncs(more, agent.version),
           \A a \in Cands(more) : a = agent.advertised /\ a # NoAdvertisement,
           agent' = agent \/ agent' = [agent EXCEPT !.seen = TRUE],
           UNCHANGED <<controllerVars, online, disk>>
    PROVE  ControlInv'
<1> USE DEF ControlInv
<1> DEFINE q == socket[s].toServer
           task == [socket[s] EXCEPT !.toServer = q \o more]
<1>1. socket[s] \in TaskSet /\ q \in Seq(Ups) /\ ~Task(s, "none")
  BY DEF ControlType, TaskSet, SocketInv
<1>2. q \o more \in Seq(Ups) /\ Syncs(q \o more, agent.version)
  BY <1>1, CandsJoined DEF OrderInv
<1>3. socket' = [socket EXCEPT ![s] = task]
  BY DEF Sent, ControlType
<1>4. /\ task \in TaskSet /\ task.phase = socket[s].phase /\ task.events = socket[s].events
      /\ task.sent = socket[s].sent /\ task.toAgent = socket[s].toAgent
      /\ task.toServer = q \o more
  BY <1>1, <1>2 DEF TaskSet
<1> HIDE DEF task
<1>5. /\ socket' \in [Sockets -> TaskSet] /\ socket'[s] = task
      /\ \A r \in Sockets \ {s} : socket'[r] = socket[r]
  BY <1>3, <1>4 DEF ControlType
<1>6. /\ agent' \in AgentSet /\ agent'.version = agent.version /\ agent'.socket = agent.socket
      /\ agent'.up = agent.up
      /\ agent'.generation = agent.generation /\ agent'.advertised = agent.advertised
      /\ agent.seen => agent'.seen
  BY DEF ControlType, AgentSet
<1>7. Latest' = Latest /\ stored' = stored
  BY DEF controllerVars, Latest
<1>8. ControlType'
  BY <1>5, <1>6 DEF ControlType, controllerVars
<1>9. SocketInv'
  <2>1. \A r \in Sockets : /\ AgentOn(r)' <=> AgentOn(r)
                           /\ Task(r, "none")' <=> Task(r, "none")
                           /\ socket'[r].toAgent = socket[r].toAgent
    BY <1>4, <1>5, <1>6 DEF AgentOn, Task
  <2>2. \A r \in Sockets : Task(r, "none") => socket'[r].toServer = socket[r].toServer
    BY <1>1, <1>5
  <2>3. AgentOn(NoSocket)' <=> AgentOn(NoSocket)
    BY <1>6 DEF AgentOn
  <2> QED
    BY <1>6, <2>1, <2>2, <2>3 DEF SocketInv
<1>10. OnlineWhileServed' /\ PendingInv'
  <2>1. \A r \in Sockets : /\ Task(r, "served")' <=> Task(r, "served")
                           /\ Task(r, "served") => /\ socket'[r].sent = socket[r].sent
                                                   /\ socket'[r].events = socket[r].events
    BY <1>4, <1>5 DEF Task
  <2> QED
    BY <2>1, TasksUntouched
<1>11. OrderInv'
  <2>1. \A t \in Sockets : AgentOn(t)' => t = s
    BY <1>6 DEF AgentOn
  <2>2. Ordered(socket[s].toAgent, agent.version, Latest) /\ disk' = disk
    BY DEF OrderInv
  <2> QED
    BY <1>2, <1>4, <1>5, <1>6, <1>7, <2>1, <2>2 DEF OrderInv
<1>12. FreshInv'
  BY <1>4, <1>5, <1>6, <1>7, FreshWhileWriting
<1> QED
  BY <1>8, <1>9, <1>10, <1>11, <1>12

LEMMA SynchronizationTickKeeps ==
    ASSUME ControlInv, NEW s \in Sockets, SynchronizationTick(s) PROVE ControlInv'
<1> DEFINE v == agent.version
           more == <<Message("Sync", v), RuntimeReport(v)>>
<1>0. v \in Nat /\ AgentOn(s)
  BY DEF ControlInv, ControlType, AgentSet, SynchronizationTick, Tick
<1>1. /\ Message("Sync", v) \in Ups /\ Message("Sync", v).type = "Sync"
      /\ Message("Sync", v).argument = v
      /\ RuntimeReport(v) \in Ups /\ RuntimeReport(v).type = "Runtime"
  BY <1>0 DEF RuntimeReport, Message, Ups
<1>2. more \in Seq(Ups) /\ Cands(more) = {} /\ Rising(more)
  BY <1>1 DEF Cands, Rising
<1>3. Syncs(more, v)
  BY <1>0, <1>1 DEF Syncs
<1>4. socket' = Sent(s, more) /\ UNCHANGED <<controllerVars, online, agent, disk>>
  BY DEF SynchronizationTick
<1> HIDE DEF more
<1> QED
  BY <1>0, <1>2, <1>3, <1>4, AgentWrites

LEMMA TelemetryTickKeeps ==
    ASSUME ControlInv, NEW s \in Sockets, TelemetryTick(s) PROVE ControlInv'
<1>1. agent.version \in Nat /\ AgentOn(s)
  BY DEF ControlInv, ControlType, AgentSet, TelemetryTick, Tick
<1> QED
  BY <1>1, ReportsType, AgentWrites DEF TelemetryTick

LEMMA CandidatesChangedKeeps ==
    ASSUME ControlInv, NEW s \in Sockets, CandidatesChanged(s) PROVE ControlInv'
<1> DEFINE more == IF Task(s, "closed") THEN <<>> ELSE <<Message("Candidates", agent.advertised)>>
<1>0. /\ AgentOn(s) /\ agent.advertised \in Adverts /\ agent.advertised # NoAdvertisement
      /\ agent' = [agent EXCEPT !.seen = TRUE] /\ UNCHANGED <<controllerVars, online, disk>>
  BY DEF ControlInv, ControlType, AgentSet, FreshInv, KnownInv, CandidatesChanged
<1>1. CASE ~Task(s, "closed")
  BY <1>0, <1>1, AdvertisedType, AgentWrites DEF CandidatesChanged
<1>2. CASE Task(s, "closed")
  <2>1. /\ <<>> \in Seq(Ups) /\ Cands(<<>>) = {} /\ Rising(<<>>) /\ Syncs(<<>>, agent.version)
    BY CandsEmpty DEF Syncs
  <2>2. socket[s].toServer \o <<>> = socket[s].toServer
    BY DEF ControlInv, ControlType, TaskSet
  <2>3. Sent(s, <<>>) = socket
    BY <2>2 DEF Sent, ControlInv, ControlType, TaskSet
  <2>4. socket' = socket
    BY <1>2 DEF CandidatesChanged
  <2> QED
    BY <1>0, <2>1, <2>3, <2>4, AgentWrites
<1> QED
  BY <1>1, <1>2

LEMMA TakeUpToDateKeeps ==
    ASSUME ControlInv, NEW s \in Sockets, TakeUpToDate(s) PROVE ControlInv'
<1> USE DEF ControlInv
<1>1. /\ AgentOn(s) /\ Tail(socket[s].toAgent) \in Seq(Downs)
      /\ Ordered(Tail(socket[s].toAgent), Version(s), Latest)
  BY IncomingVersion DEF TakeUpToDate
<1>2. CASE Version(s) # agent.version
  BY <1>1, <1>2, PlainLeaveKeeps DEF TakeUpToDate
<1>3. CASE Version(s) = agent.version
  <2> DEFINE task == [socket[s] EXCEPT !.toAgent = Tail(socket[s].toAgent)]
  <2>1. socket' = [socket EXCEPT ![s] = task]
    BY <1>3 DEF TakeUpToDate, ControlType
  <2>2. /\ task \in TaskSet /\ task.phase = socket[s].phase /\ task.events = socket[s].events
        /\ task.sent = socket[s].sent /\ task.toAgent = Tail(socket[s].toAgent)
        /\ task.toServer = socket[s].toServer
    BY <1>1 DEF TaskSet, ControlType
  <2> HIDE DEF task
  <2>3. UNCHANGED <<controllerVars, online, agent, disk>>
    BY <1>3 DEF TakeUpToDate
  <2>4. online' \in Nat /\ OnlineWhileServed'
    BY <2>1, <2>2, <2>3, TaskGoesOn DEF Task
  <2>5. task.phase = "served" /\ task.sent < announced => task.events > 0
    BY <2>2 DEF PendingInv, AnnouncementPending, Task
  <2>6. task.phase # "none"
    BY <1>1, <2>2 DEF SocketInv, Task
  <2> QED
    BY <1>1, <1>3, <2>1, <2>2, <2>3, <2>4, <2>5, <2>6, TaskSteps
<1> QED
  BY <1>2, <1>3

LEMMA ConnectKeeps == ASSUME ControlInv, NEW s \in Sockets, Connect(s) PROVE ControlInv'
<1> USE DEF ControlInv
<1> DEFINE task == [socket[s] EXCEPT !.phase = "accepted"]
<1>0. /\ socket[s] \in TaskSet /\ Task(s, "none") /\ \A r \in Sockets : ~AgentOn(r)
      /\ socket[s].toServer = <<>> /\ socket[s].toAgent = <<>>
  BY SocketNumbers DEF Connect, ControlType, SocketInv, AgentOn
<1>1. socket' = [socket EXCEPT ![s] = task]
  BY DEF Connect, ControlType
<1>2. /\ task \in TaskSet /\ task.phase = "accepted" /\ task.toAgent = <<>> /\ task.toServer = <<>>
  BY <1>0 DEF TaskSet, Phases
<1> HIDE DEF task
<1>3. /\ socket' \in [Sockets -> TaskSet] /\ socket'[s] = task
      /\ \A r \in Sockets \ {s} : socket'[r] = socket[r]
  BY <1>1, <1>2 DEF ControlType
<1>4. /\ agent' \in AgentSet /\ agent'.version = agent.version /\ agent'.socket = s
      /\ agent'.up
      /\ agent'.generation = agent.generation /\ agent'.advertised = agent.advertised
      /\ agent'.seen = agent.seen
  BY DEF Connect, ControlType, AgentSet
<1>5. UNCHANGED <<controllerVars, online, disk>> /\ Latest' = Latest
  BY DEF Connect, controllerVars, Latest
<1>6. ControlType'
  BY <1>3, <1>4, <1>5 DEF ControlType, controllerVars
<1>7. \A r \in Sockets : AgentOn(r)' <=> r = s
  BY <1>4 DEF AgentOn
<1>8. SocketInv'
  BY <1>0, <1>2, <1>3, <1>4, <1>7 DEF SocketInv, Task
<1>9. OnlineWhileServed' /\ PendingInv'
  <2>1. \A r \in Sockets : /\ Task(r, "served")' <=> Task(r, "served")
                           /\ Task(r, "served") => /\ socket'[r].sent = socket[r].sent
                                                   /\ socket'[r].events = socket[r].events
    BY <1>0, <1>2, <1>3 DEF Task
  <2> QED
    BY <1>5, <2>1, TasksUntouched
<1>10. OrderInv'
  <2>1. Syncs(<<>>, agent.version)
    BY DEF Syncs
  <2> QED
    BY <1>2, <1>3, <1>4, <1>5, <1>7, <2>1, OrderedEmpty DEF OrderInv
<1>11. FreshInv'
  <2>1. \A r \in Sockets : Cands(socket'[r].toServer) = Cands(socket[r].toServer)
    BY <1>0, <1>2, <1>3
  <2>2. Known' \subseteq Known
    BY <1>4, <1>5, <2>1 DEF Known, controllerVars
  <2>3. KnownInv'
    BY <1>4, <1>5, <2>2 DEF FreshInv, KnownInv
  <2>4. Rising(socket'[s].toServer) /\ Newest(s)'
    BY <1>2, <1>3, CandsEmpty DEF Newest
  <2> QED
    BY <1>7, <2>3, <2>4 DEF FreshInv
<1> QED
  BY <1>6, <1>8, <1>9, <1>10, <1>11

LEMMA KnownTyped == ASSUME ControlType PROVE \A a \in Known : a.generation \in Nat
<1>1. ASSUME NEW s \in Sockets, NEW a \in Cands(socket[s].toServer) PROVE a \in Adverts
  <2>1. socket[s].toServer \in Seq(Ups)
    BY DEF ControlType, TaskSet
  <2>2. PICK i \in DOMAIN socket[s].toServer :
           socket[s].toServer[i].type = "Candidates" /\ a = socket[s].toServer[i].argument
    BY DEF Cands
  <2>3. socket[s].toServer[i] \in Ups
    BY <2>1
  <2> QED
    BY <2>2, <2>3 DEF Ups
<1>2. stored \in Adverts /\ agent.advertised \in Adverts
  BY DEF ControlType, AgentSet
<1>3. \A a \in Known : a \in Adverts
  BY <1>1, <1>2 DEF Known
<1> QED
  BY <1>3 DEF Adverts

\* A new advertisement has a generation no other has.
LEMMA RefreshCandidatesKeeps == ASSUME ControlInv, RefreshCandidates PROVE ControlInv'
<1> USE DEF ControlInv
<1>a. PICK endpoint \in Endpoints : agent' = Collected(endpoint)
  BY DEF RefreshCandidates
<1> DEFINE new == [generation |-> agent.generation + 1, payload |-> agent.run, endpoint |-> endpoint]
<1>0. /\ agent.generation \in Nat /\ agent.version \in Nat /\ new \in Adverts
      /\ new.generation = agent.generation + 1 /\ new # NoAdvertisement
  BY DEF ControlType, AgentSet, Adverts, NoAdvertisement
<1>1. /\ agent' \in AgentSet /\ agent'.version = agent.version /\ agent'.socket = agent.socket
      /\ agent'.up = agent.up /\ agent'.generation = agent.generation + 1 /\ agent'.advertised = new
      /\ disk' \in [version : Nat, generation : Nat]
      /\ disk'.version = agent.version /\ disk'.generation = agent.generation + 1
  <2>1. /\ agent' = [agent EXCEPT !.generation = agent.generation + 1, !.seen = FALSE,
                                !.advertised = new]
        /\ disk' = [version |-> agent.version, generation |-> agent.generation + 1]
    BY <1>a DEF RefreshCandidates, Collected
  <2>2. agent.generation + 1 \in Nat
    BY <1>0
  <2> HIDE DEF new
  <2>3. /\ agent' \in AgentSet /\ agent'.version = agent.version /\ agent'.socket = agent.socket
        /\ agent'.up = agent.up /\ agent'.generation = agent.generation + 1 /\ agent'.advertised = new
    BY <1>0, <2>1, <2>2 DEF ControlType, AgentSet
  <2> QED
    BY <1>0, <2>1, <2>2, <2>3
<1> HIDE DEF new
<1>2. UNCHANGED <<controllerVars, online, socket>> /\ Latest' = Latest
  BY DEF RefreshCandidates, controllerVars, Latest
<1>3. ControlType' /\ SocketInv' /\ OnlineWhileServed' /\ PendingInv'
  BY <1>1, <1>2 DEF ControlType, SocketInv, OnlineWhileServed, PendingInv, AnnouncementPending,
     Task, AgentOn, controllerVars
<1>4. OrderInv'
  BY <1>1, <1>2 DEF OrderInv, AgentOn
<1>5. Known' \subseteq Known \cup {new} /\ \A a \in Known : a.generation \in Nat
  BY <1>1, <1>2, KnownTyped DEF Known, controllerVars
<1>6. KnownInv'
  <2>1. \A a \in Known' : /\ a.generation <= agent.generation + 1
                          /\ a.generation = 0 => a = NoAdvertisement
    BY <1>0, <1>5 DEF FreshInv, KnownInv
  <2>2. \A a, b \in Known' : a.generation = b.generation => a = b
    BY <1>0, <1>5 DEF FreshInv, KnownInv
  <2> QED
    BY <1>0, <1>1, <2>1, <2>2 DEF KnownInv
<1>7. \A s \in Sockets : AgentOn(s)' => Rising(socket'[s].toServer) /\ Newest(s)'
  BY <1>1, <1>2 DEF FreshInv, AgentOn, Newest, controllerVars
<1> QED
  BY <1>3, <1>4, <1>6, <1>7 DEF FreshInv

\* The process has ended, with the file as it was or with a generation more.
LEMMA StoppedKeeps ==
    ASSUME ControlInv, NEW state \in [version : Nat, generation : Nat],
           disk' = state, agent' = Stopped(state), state.version <= Latest,
           agent.generation <= state.generation,
           socket' = IF AgentOn(NoSocket) THEN socket ELSE Left(agent.socket),
           UNCHANGED <<controllerVars, online>>
    PROVE  ControlInv'
<1> USE DEF ControlInv
<1>0. agent \in AgentSet /\ agent.generation \in Nat /\ agent.run \in Nat
  BY DEF ControlType, AgentSet
<1>1. NoAdvertisement \in Adverts /\ NoAdvertisement.generation = 0
  BY DEF NoAdvertisement, Adverts
<1>2. /\ agent' \in AgentSet /\ agent'.socket = NoSocket /\ agent'.version = state.version
      /\ agent'.generation = state.generation /\ agent'.advertised = NoAdvertisement /\ agent'.seen
  BY <1>0, <1>1 DEF Stopped, Started, AgentSet
<1>3. /\ socket' \in [Sockets -> TaskSet] /\ SocketInv' /\ OnlineWhileServed' /\ PendingInv'
      /\ \A r \in Sockets : Shrunk(r)
  <2>1. CASE AgentOn(NoSocket)
    <3>1. socket' = socket /\ \A r \in Sockets : ~AgentOn(r) /\ ~AgentOn(r)'
      BY <1>2, <2>1, SocketNumbers DEF AgentOn
    <3>2. AgentOn(NoSocket)'
      BY <1>2 DEF AgentOn
    <3>3. SocketInv' /\ \A r \in Sockets : Shrunk(r)
      BY <3>1, <3>2 DEF SocketInv, Task, Shrunk
    <3>4. OnlineWhileServed' /\ PendingInv'
      BY <3>1, TasksUntouched DEF Task
    <3> QED
      BY <3>1, <3>3, <3>4 DEF ControlType
  <2>2. CASE ~AgentOn(NoSocket)
    <3>1. agent.socket \in Sockets /\ AgentOn(agent.socket)
      BY <1>0, <2>2 DEF AgentOn, AgentSet
    <3> QED
      BY <1>2, <2>2, <3>1, SocketLeft
  <2> QED
    BY <2>1, <2>2
<1>4. ControlType'
  BY <1>2, <1>3 DEF ControlType, controllerVars
<1>5. Known' \subseteq Known \cup {NoAdvertisement}
  BY <1>2, <1>3, ShrunkQueue DEF Known, controllerVars
<1>6. \A a \in Known : a.generation \in Nat
  BY KnownTyped
<1>7. KnownInv'
  <2>1. \A a \in Known' : /\ a.generation <= state.generation
                          /\ a.generation = 0 => a = NoAdvertisement
    BY <1>0, <1>1, <1>5, <1>6 DEF FreshInv, KnownInv
  <2>2. \A a, b \in Known' : a.generation = b.generation => a = b
    BY <1>1, <1>5, <1>6 DEF FreshInv, KnownInv
  <2> QED
    BY <1>2, <2>1, <2>2 DEF KnownInv
<1>8. agent'.version <= Latest' /\ disk'.version <= Latest'
  BY <1>2 DEF Latest, controllerVars
<1> QED
  BY <1>2, <1>3, <1>4, <1>7, <1>8, OffSocket

LEMMA CrashKeeps == ASSUME ControlInv, Crash PROVE ControlInv'
<1>1. /\ disk \in [version : Nat, generation : Nat] /\ disk.version <= Latest
      /\ agent.generation <= disk.generation
  BY DEF ControlInv, ControlType, AgentSet, OrderInv, FreshInv, KnownInv
<1> QED
  BY <1>1, StoppedKeeps DEF Crash

LEMMA CrashDuringRefreshKeeps == ASSUME ControlInv, CrashDuringRefresh PROVE ControlInv'
<1> DEFINE state == [version |-> agent.version, generation |-> agent.generation + 1]
<1>1. /\ state \in [version : Nat, generation : Nat] /\ state.version <= Latest
      /\ agent.generation <= state.generation
  BY DEF ControlInv, ControlType, AgentSet, OrderInv
<1>2. disk' = state /\ agent' = Stopped(state)
  BY DEF CrashDuringRefresh
<1> HIDE DEF state
<1> QED
  BY <1>1, <1>2, StoppedKeeps DEF CrashDuringRefresh

LEMMA StartKeeps == ASSUME ControlInv, Start PROVE ControlInv'
<1> USE DEF ControlInv
<1>0. /\ agent.run + 1 \in Nat /\ disk.version \in Nat /\ disk.generation \in Nat
      /\ disk.generation = agent.generation /\ disk.version <= Latest
  BY DEF ControlType, AgentSet, OrderInv, FreshInv, KnownInv
<1>1. NoAdvertisement \in Adverts /\ NoAdvertisement.generation = 0
  BY DEF NoAdvertisement, Adverts
<1>2. /\ agent' \in AgentSet /\ agent'.socket = NoSocket /\ agent'.version = disk.version
      /\ agent'.generation = agent.generation /\ agent'.advertised = NoAdvertisement /\ agent'.seen
  BY <1>0, <1>1 DEF Start, Started, AgentSet
<1>3. UNCHANGED <<controllerVars, online, socket, disk>> /\ Latest' = Latest
  BY DEF Start, controllerVars, Latest
<1>4. ControlType'
  BY <1>2, <1>3 DEF ControlType, controllerVars
<1>5. \A r \in Sockets : ~AgentOn(r) /\ ~AgentOn(r)'
  BY <1>2, SocketNumbers DEF Start, SocketInv, AgentOn
<1>6. SocketInv'
  BY <1>2, <1>3, <1>5 DEF SocketInv, Task, AgentOn
<1>7. OnlineWhileServed' /\ PendingInv'
  BY <1>3, TasksUntouched DEF Task
<1>8. Known' \subseteq Known \cup {NoAdvertisement} /\ \A a \in Known : a.generation \in Nat
  BY <1>2, <1>3, KnownTyped DEF Known, controllerVars
<1>9. KnownInv'
  <2>1. \A a \in Known' : /\ a.generation <= agent.generation
                          /\ a.generation = 0 => a = NoAdvertisement
    BY <1>0, <1>1, <1>8 DEF FreshInv, KnownInv
  <2>2. \A a, b \in Known' : a.generation = b.generation => a = b
    BY <1>1, <1>8 DEF FreshInv, KnownInv
  <2> QED
    BY <1>0, <1>2, <1>3, <2>1, <2>2 DEF KnownInv
<1> QED
  BY <1>0, <1>2, <1>3, <1>4, <1>6, <1>7, <1>9, OffSocket

-------------------------------------------------------------------------------

LEMMA ControlInitially == Init => ControlInv
<1> SUFFICES ASSUME Init PROVE ControlInv
  OBVIOUS
<1> USE DEF Init
<1>1. /\ NoAdvertisement \in Adverts /\ NoAdvertisement.generation = 0
  BY DEF NoAdvertisement, Adverts
<1>2. /\ agent \in AgentSet /\ agent.up /\ agent.socket = NoSocket /\ agent.version = 1
      /\ agent.generation = 0 /\ agent.advertised = NoAdvertisement /\ agent.seen
  BY <1>1 DEF Started, AgentSet
<1>3. /\ published \in Seq(Configuration) /\ Latest = 1 /\ published # <<>>
  BY DEF Latest
<1>4. /\ socket \in [Sockets -> TaskSet]
      /\ \A r \in Sockets : /\ socket[r].phase = "none" /\ socket[r].toAgent = <<>>
                            /\ socket[r].toServer = <<>>
  BY ClosedType
<1>5. ControlType
  BY <1>1, <1>2, <1>3, <1>4 DEF ControlType
<1>6. \A r \in Sockets : ~AgentOn(r)
  BY <1>2, SocketNumbers DEF AgentOn
<1>7. SocketInv /\ PendingInv
  BY <1>2, <1>3, <1>4, <1>6 DEF SocketInv, PendingInv, AnnouncementPending, Task
<1>8. OnlineWhileServed
  <2>1. {s \in Sockets : Task(s, "served")} = {}
    BY <1>4 DEF Task
  <2> QED
    BY <2>1, FS_EmptySet DEF OnlineWhileServed
<1>9. OrderInv
  BY <1>2, <1>3, <1>6 DEF OrderInv
<1>10. FreshInv
  <2>1. Known = {NoAdvertisement}
    BY <1>2, <1>4, CandsEmpty DEF Known
  <2> QED
    BY <1>1, <1>2, <1>6, <2>1 DEF FreshInv, KnownInv
<1> QED
  BY <1>5, <1>7, <1>8, <1>9, <1>10 DEF ControlInv

LEMMA ControlStep == ControlInv /\ [Next]_vars => ControlInv'
<1> SUFFICES ASSUME ControlInv, [Next]_vars PROVE ControlInv'
  OBVIOUS
<1>1. CASE UNCHANGED vars
  BY <1>1 DEF vars, ControlInv, ControlType, SocketInv, OnlineWhileServed, PendingInv,
     AnnouncementPending, OrderInv, FreshInv, KnownInv, Known, Newest, Task, AgentOn, Latest
<1>2. ASSUME NEW s \in Sockets, Serve(s) PROVE ControlInv'
  BY <1>2, AuthenticateKeeps, SubscribeKeeps, SendInitialKeeps, HandleSyncKeeps,
     HandleAdvertisementKeeps, HandleDuplicateKeeps, HandleReportKeeps, RefuseKeeps DEF Serve
<1>3. ASSUME NEW s \in Sockets, Read(s) PROVE ControlInv'
  BY <1>3, ApplyConfigurationKeeps, SessionEndsKeeps, TakeUpToDateKeeps DEF Read
<1>4. CASE Next
  BY <1>2, <1>3, <1>4, PublishKeeps, ControllerRestartsKeeps, AnnounceKeeps,
     LoseAnnouncementKeeps, RefreshCandidatesKeeps, CrashKeeps, CrashDuringRefreshKeeps,
     StartKeeps, HandleEventKeeps, ConnectKeeps, ApplyUnwrittenKeeps,
     SynchronizationTickKeeps, TelemetryTickKeeps, CandidatesChangedKeeps, SessionEndsKeeps
  DEF Next
<1> QED
  BY <1>1, <1>4

LEMMA ControlInvariant == Spec => []ControlInv
BY ControlInitially, ControlStep, PTL DEF Spec

\* OnlineWhileServed: mark_node_online and mark_node_offline count the served
\* sessions of a node, whichever end first and however the Controller restarts.
THEOREM OnlineCounted == Spec => []OnlineWhileServed
<1>1. ControlInv => OnlineWhileServed
  BY DEF ControlInv
<1> QED
  BY <1>1, ControlInvariant, PTL

\* AnnouncementPending: subscribing before the initial configuration is sent, and
\* answering every event with the newest version, misses no announcement.
THEOREM NoAnnouncementMissed == Spec => []AnnouncementPending
<1>1. ControlInv => AnnouncementPending
  BY DEF ControlInv, PendingInv
<1> QED
  BY <1>1, ControlInvariant, PTL

\* NeverRolledBack: the Controller never sends the agent a version older than it
\* holds, or an UpToDate for another, on any session and after any crash.
THEOREM VersionsInOrder == Spec => []NeverRolledBack
<1>1. ControlInv => NeverRolledBack
  <2> SUFFICES ASSUME ControlInv, agent.up, ~AgentOn(NoSocket)
               PROVE  InOrder(socket[agent.socket].toAgent, agent.version)
    BY DEF NeverRolledBack
  <2>1. agent.socket \in Sockets /\ AgentOn(agent.socket)
    BY DEF ControlInv, ControlType, AgentSet, AgentOn
  <2>2. /\ Ordered(socket[agent.socket].toAgent, agent.version, Latest)
        /\ socket[agent.socket].toAgent \in Seq(Downs)
    BY <2>1 DEF ControlInv, ControlType, TaskSet, OrderInv
  <2> QED
    BY <2>2 DEF Ordered, InOrder
<1> QED
  BY <1>1, ControlInvariant, PTL

\* AdvertisementsFresh: because a generation is on disk before it is used, the
\* Controller never refuses an active agent's advertisement as out of date.
THEOREM AdvertisementsNeverStale == Spec => []AdvertisementsFresh
<1>1. ControlInv => AdvertisementsFresh
  <2> SUFFICES ASSUME ControlInv, NEW s \in Sockets, AgentOn(s), Request(s, "Candidates"),
                      Outdated(Argument(s))
               PROVE  FALSE
    BY DEF AdvertisementsFresh
  <2>1. Argument(s) \in Adverts /\ Argument(s) \in Cands(socket[s].toServer)
    BY HeadCandidate DEF ControlInv, ControlType, TaskSet, Request, Argument
  <2>2. stored.generation <= Argument(s).generation
    BY <2>1 DEF ControlInv, FreshInv, Newest
  <2>3. stored \in Adverts /\ stored \in Known /\ Argument(s) \in Known
    BY <2>1 DEF ControlInv, ControlType, Known
  <2>4. stored.generation = Argument(s).generation
    BY <2>1, <2>2, <2>3 DEF Outdated, Adverts
  <2> QED
    BY <2>3, <2>4 DEF ControlInv, FreshInv, KnownInv, Outdated
<1> QED
  BY <1>1, ControlInvariant, PTL

===============================================================================
