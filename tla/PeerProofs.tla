---------------------------------- MODULE PeerProofs ----------------------------------
(***************************************************************************)
(* Proofs about what two agents owe each other.  An established session,   *)
(* for every number of epochs and sequences, every window and retention,   *)
(* and every loss, duplication and reordering of its packets.  The         *)
(* handshake that makes one, for every number of hellos, replies, retries, *)
(* restarts and configurations, and every delivery of old messages.  The   *)
(* rekeying of a session against the clock that retires old epochs, for    *)
(* every number of losses its retention is a match for.                    *)
(***************************************************************************)
EXTENDS MCPeer, RekeyTimed, ReplayWindowProofs, Sequences

-------------------------------------------------------------------------------
(***************************************************************************)
(* An established session.                                                 *)
(***************************************************************************)

\* The two ends are each other's peer.
LEMMA PeerFacts ==
    ASSUME NEW n \in Node
    PROVE  Peer(n) \in Node /\ Peer(n) # n /\ Peer(Peer(n)) = n
BY SessionAssumption DEF Peer, Node

\* A freshly installed session is well formed.
LEMMA TypeInit == Init => TypeOK
BY SessionAssumption, TracksNew DEF Init, TypeOK, DeriveEpoch, Cipher, NoCipher, Epoch,
   NoKeyUpdate, NotRetained, Node

\* Committing a packet an end can open keeps its receive epochs well formed.
LEMMA CommittedType ==
    ASSUME TypeOK, NEW n \in Node, NEW m \in net, CanOpen(n, m)
    PROVE  /\ CommittedCurrent(n, m) \in Cipher
           /\ CommittedCurrent(n, m).epoch = current[n].epoch
           /\ CommittedPrevious(n, m) \in Cipher \cup {NoCipher}
           /\ CommittedPrevious(n, m).epoch = previous[n].epoch
<1>1. m \in Packet /\ m.epoch \in Epoch /\ m.sequence \in Nat /\ m.epoch # NoEpoch
  BY SessionAssumption DEF TypeOK, Packet, Epoch, NoEpoch
<1>2. current[n] \in Cipher /\ previous[n] \in Cipher \cup {NoCipher}
  BY DEF TypeOK
<1>3. /\ CommittedCurrent(n, m) \in Cipher
      /\ CommittedCurrent(n, m).epoch = current[n].epoch
  <2>1. CASE InCurrent(n, m)
    <3>1. Precheck(current[n].window, m.sequence) /\ current[n].window \in Windows
      BY <1>2, <2>1 DEF CanOpen, InPrevious, Cipher
    <3>2. Commit(current[n].window, m.sequence) \in Windows
      BY <1>1, <3>1, CommitType
    <3> QED
      BY <1>2, <2>1, <3>2 DEF CommittedCurrent, Cipher
  <2>2. CASE ~InCurrent(n, m)
    BY <1>2, <2>2 DEF CommittedCurrent
  <2> QED
    BY <2>1, <2>2
<1>4. /\ CommittedPrevious(n, m) \in Cipher \cup {NoCipher}
      /\ CommittedPrevious(n, m).epoch = previous[n].epoch
  <2>1. CASE InPrevious(n, m)
    <3>1. previous[n] \in Cipher
      BY <1>1, <1>2, <2>1 DEF InPrevious, NoCipher
    <3>2. Precheck(previous[n].window, m.sequence) /\ previous[n].window \in Windows
      BY <2>1, <3>1 DEF CanOpen, InPrevious, Cipher
    <3>3. Commit(previous[n].window, m.sequence) \in Windows
      BY <1>1, <3>2, CommitType
    <3> QED
      BY <2>1, <3>1, <3>3 DEF CommittedPrevious, Cipher
  <2>2. CASE ~InPrevious(n, m)
    BY <1>2, <2>2 DEF CommittedPrevious
  <2> QED
    BY <2>1, <2>2
<1> QED
  BY <1>3, <1>4

\* Sealing keeps the network and the sender's counter well formed.
LEMMA SealType ==
    ASSUME TypeOK, NEW n \in Node, NEW type \in PacketType,
           NEW next \in Epoch \cup {NoEpoch}, Seal(n, type, next)
    PROVE  net' \subseteq Packet /\ nextSequence' \in [Node -> 0 .. MaxSequence + 1]
<1>1. nextSequence[n] \in 0 .. MaxSequence
  BY SessionAssumption DEF TypeOK, Seal, CanSeal
<1>2. Sealed(n, type, next) \in Packet
  BY <1>1 DEF TypeOK, Sealed, Packet
<1> QED
  BY <1>1, <1>2, SessionAssumption DEF TypeOK, Seal

\* What every accepted packet does to the receiver's variables.
LEMMA ArrivesType ==
    ASSUME TypeOK, NEW n \in Node, NEW m \in net, NEW type, Arrives(n, m, type)
    PROVE  opened' \in [Node -> SUBSET (Epoch \X (0 .. MaxSequence))]
BY DEF TypeOK, Arrives, Packet

\* An accepted packet that installs nothing keeps the receiver well formed.
LEMMA KeepReceiverType ==
    ASSUME TypeOK, NEW n \in Node, NEW m \in net, CanOpen(n, m), KeepReceiverEpochs(n, m)
    PROVE  /\ current' \in [Node -> Cipher]
           /\ previous' \in [Node -> Cipher \cup {NoCipher}]
           /\ retained' \in [Node -> -1 .. Retention]
<1>1. /\ CommittedCurrent(n, m) \in Cipher
      /\ CommittedPrevious(n, m) \in Cipher \cup {NoCipher}
  BY CommittedType
<1> QED
  BY <1>1 DEF TypeOK, KeepReceiverEpochs

\* So does retiring the previous epoch, or one more pass towards it.
LEMMA RetireType ==
    ASSUME TypeOK, NEW n \in Node, RetireIfDue(n)
    PROVE  /\ current' \in [Node -> Cipher]
           /\ previous' \in [Node -> Cipher \cup {NoCipher}]
           /\ retained' \in [Node -> -1 .. Retention]
           /\ opened' \in [Node -> SUBSET (Epoch \X (0 .. MaxSequence))]
<1>1. /\ current' \in [Node -> Cipher]
      /\ opened' \in [Node -> SUBSET (Epoch \X (0 .. MaxSequence))]
  BY DEF TypeOK, RetireIfDue
<1>2. previous' \in [Node -> Cipher \cup {NoCipher}]
  BY DEF TypeOK, RetireIfDue
<1>3. retained' \in [Node -> -1 .. Retention]
  BY SessionAssumption DEF TypeOK, RetireIfDue, NotRetained
<1> QED
  BY <1>1, <1>2, <1>3

\* Every step of the session keeps it well formed.
LEMMA TypeStep == TypeOK /\ [Next]_vars => TypeOK'
<1> SUFFICES ASSUME TypeOK, [Next]_vars PROVE TypeOK'
  OBVIOUS
<1> USE SessionAssumption
<1>1. ASSUME NEW n \in Node, ForwardTun(n) PROVE TypeOK'
  <2>1. net' \subseteq Packet /\ nextSequence' \in [Node -> 0 .. MaxSequence + 1]
    BY <1>1, SealType DEF ForwardTun, PacketType
  <2>2. sentInEpoch' \in [Node -> 0 .. KeyUpdatePacketLimit]
    BY <1>1 DEF ForwardTun, TypeOK
  <2> QED
    BY <1>1, <2>1, <2>2 DEF ForwardTun, TypeOK, receiverVars
<1>2. ASSUME NEW n \in Node, SendPathChallenge(n) PROVE TypeOK'
  <2>1. net' \subseteq Packet /\ nextSequence' \in [Node -> 0 .. MaxSequence + 1]
    BY <1>2, SealType DEF SendPathChallenge, PacketType
  <2> QED
    BY <1>2, <2>1 DEF SendPathChallenge, TypeOK, receiverVars
<1>3. ASSUME NEW n \in Node, EpochAges(n) PROVE TypeOK'
  BY <1>3 DEF EpochAges, TypeOK, receiverVars
<1>4. ASSUME NEW n \in Node, Maintain(n) PROVE TypeOK'
  <2>1. /\ current' \in [Node -> Cipher]
        /\ previous' \in [Node -> Cipher \cup {NoCipher}]
        /\ retained' \in [Node -> -1 .. Retention]
        /\ opened' \in [Node -> SUBSET (Epoch \X (0 .. MaxSequence))]
    BY <1>4, RetireType DEF Maintain
  <2>2. CASE ResendKeyUpdate(n)
    <3>1. pending[n] \in PendingKeyUpdate
      BY <2>2 DEF ResendKeyUpdate, TypeOK
    <3>2. [pending[n] EXCEPT !.attempts = pending[n].attempts + 1] \in PendingKeyUpdate
      BY <2>2, <3>1 DEF ResendKeyUpdate, PendingKeyUpdate
    <3>3. pending' \in [Node -> PendingKeyUpdate \cup {NoKeyUpdate}]
      BY <2>2, <3>2 DEF ResendKeyUpdate, TypeOK
    <3>4. PendingPacket(n) \in Packet
      BY <3>1 DEF PendingPacket, PendingKeyUpdate, Packet, PacketType, TypeOK
    <3> QED
      BY <2>1, <2>2, <3>3, <3>4 DEF ResendKeyUpdate, TypeOK
  <2>3. CASE ExpireKeyUpdate(n)
    BY <2>1, <2>3 DEF ExpireKeyUpdate, TypeOK
  <2>4. CASE StartKeyUpdate(n)
    <3>1. sendEpoch[n] + 1 \in Epoch /\ nextSequence[n] \in 0 .. MaxSequence
      BY <2>4 DEF StartKeyUpdate, TypeOK, Epoch, Seal, CanSeal
    <3>2. net' \subseteq Packet /\ nextSequence' \in [Node -> 0 .. MaxSequence + 1]
      BY <2>4, <3>1, SealType DEF StartKeyUpdate, PacketType
    <3>3. pending' \in [Node -> PendingKeyUpdate \cup {NoKeyUpdate}]
      BY <2>4, <3>1 DEF StartKeyUpdate, TypeOK, PendingKeyUpdate
    <3> QED
      BY <2>1, <2>4, <3>2, <3>3 DEF StartKeyUpdate, TypeOK
  <2>5. CASE SendKeepalive(n)
    <3>1. net' \subseteq Packet /\ nextSequence' \in [Node -> 0 .. MaxSequence + 1]
      BY <2>5, SealType DEF SendKeepalive, PacketType
    <3> QED
      BY <2>1, <2>5, <3>1 DEF SendKeepalive, TypeOK
  <2>6. CASE NothingDue(n)
    BY <2>1, <2>6 DEF NothingDue, TypeOK, senderVars
  <2> QED
    BY <1>4, <2>2, <2>3, <2>4, <2>5, <2>6 DEF Maintain
<1>5. ASSUME NEW n \in Node, NEW m \in net, ReceiveTraffic(n, m) PROVE TypeOK'
  <2>1. CanOpen(n, m)
    BY <1>5 DEF ReceiveTraffic, Arrives
  <2> QED
    BY <1>5, <2>1, ArrivesType, KeepReceiverType DEF ReceiveTraffic, TypeOK, senderVars
<1>6. ASSUME NEW n \in Node, NEW m \in net, ReceivePathChallenge(n, m) PROVE TypeOK'
  <2>1. CanOpen(n, m)
    BY <1>6 DEF ReceivePathChallenge, Arrives
  <2>2. net' \subseteq Packet /\ nextSequence' \in [Node -> 0 .. MaxSequence + 1]
    BY <1>6, SealType DEF ReceivePathChallenge, SealIfPossible, PacketType, TypeOK
  <2> QED
    BY <1>6, <2>1, <2>2, ArrivesType, KeepReceiverType DEF ReceivePathChallenge, TypeOK
<1>7. ASSUME NEW n \in Node, NEW m \in net, ReceiveKeyUpdate(n, m) PROVE TypeOK'
  <2>1. CanOpen(n, m)
    BY <1>7 DEF ReceiveKeyUpdate, Arrives
  <2>2. m.next \in Epoch \cup {NoEpoch} /\ current[n].epoch \in Epoch
    BY DEF TypeOK, Packet, Cipher
  <2>3. net' \subseteq Packet /\ nextSequence' \in [Node -> 0 .. MaxSequence + 1]
    BY <1>7, <2>2, SealType DEF ReceiveKeyUpdate, SealIfPossible, PacketType, TypeOK
  <2>4. /\ current' \in [Node -> Cipher]
        /\ previous' \in [Node -> Cipher \cup {NoCipher}]
        /\ retained' \in [Node -> -1 .. Retention]
    <3>1. CASE VerifyKeyUpdatePayload(m, m.epoch) /\ current[n].epoch + 1 = m.next
      <4>1. m.next \in Epoch
        BY <2>2, <3>1 DEF Epoch, NoEpoch
      <4>2. DeriveEpoch(m.next) \in Cipher
        BY <4>1, TracksNew DEF DeriveEpoch, Cipher
      <4>3. CommittedCurrent(n, m) \in Cipher
        BY <2>1, CommittedType
      <4>4. InstallNextEpoch(n, m)
        BY <1>7, <3>1 DEF ReceiveKeyUpdate
      <4> QED
        BY <4>2, <4>3, <4>4 DEF InstallNextEpoch, TypeOK
    <3>2. CASE ~(VerifyKeyUpdatePayload(m, m.epoch) /\ current[n].epoch + 1 = m.next)
      <4>1. KeepReceiverEpochs(n, m)
        BY <1>7, <3>2 DEF ReceiveKeyUpdate
      <4> QED
        BY <2>1, <4>1, KeepReceiverType
    <3> QED
      BY <3>1, <3>2
  <2>5. opened' \in [Node -> SUBSET (Epoch \X (0 .. MaxSequence))]
    BY <1>7, ArrivesType DEF ReceiveKeyUpdate
  <2> QED
    BY <1>7, <2>3, <2>4, <2>5 DEF ReceiveKeyUpdate, TypeOK
<1>8. ASSUME NEW n \in Node, NEW m \in net, ReceiveKeyUpdateAck(n, m) PROVE TypeOK'
  <2>1. CanOpen(n, m)
    BY <1>8 DEF ReceiveKeyUpdateAck, Arrives
  <2>2. m.next \in Epoch \cup {NoEpoch} /\ sendEpoch[n] \in Epoch
    BY DEF TypeOK, Packet
  <2>3. /\ sendEpoch' \in [Node -> Epoch]
        /\ nextSequence' \in [Node -> 0 .. MaxSequence + 1]
        /\ sentInEpoch' \in [Node -> 0 .. KeyUpdatePacketLimit]
        /\ aged' \in [Node -> BOOLEAN]
        /\ pending' \in [Node -> PendingKeyUpdate \cup {NoKeyUpdate}]
    <3>1. CASE UNCHANGED senderVars
      BY <3>1 DEF senderVars, TypeOK
    <3>2. CASE ~UNCHANGED senderVars
      <4>1. /\ m.next = sendEpoch[n] + 1
            /\ sendEpoch' = [sendEpoch EXCEPT ![n] = m.next]
            /\ nextSequence' = [nextSequence EXCEPT ![n] = 0]
            /\ sentInEpoch' = [sentInEpoch EXCEPT ![n] = 0]
            /\ aged' = [aged EXCEPT ![n] = FALSE]
            /\ pending' = [pending EXCEPT ![n] = NoKeyUpdate]
        BY <1>8, <3>2 DEF ReceiveKeyUpdateAck, VerifyKeyUpdatePayload
      <4>2. m.next \in Epoch
        BY <2>2, <4>1 DEF Epoch, NoEpoch
      <4> QED
        BY <4>1, <4>2 DEF TypeOK
    <3> QED
      BY <3>1, <3>2
  <2>4. opened' \in [Node -> SUBSET (Epoch \X (0 .. MaxSequence))]
    BY <1>8, ArrivesType DEF ReceiveKeyUpdateAck
  <2>5. KeepReceiverEpochs(n, m) /\ net' = net
    BY <1>8 DEF ReceiveKeyUpdateAck
  <2> QED
    BY <2>1, <2>3, <2>4, <2>5, KeepReceiverType DEF TypeOK
<1>9. CASE UNCHANGED vars
  BY <1>9 DEF vars, TypeOK
<1> QED
  BY <1>1, <1>2, <1>3, <1>4, <1>5, <1>6, <1>7, <1>8, <1>9 DEF Next, Receive

\* The session's state is well formed in every reachable state.
THEOREM TypeCorrect == Spec => []TypeOK
BY TypeInit, TypeStep, PTL DEF Spec

-------------------------------------------------------------------------------
(***************************************************************************)
(* Nonces and epochs.  FreshNonce and EpochsAdjacent need each other's     *)
(* bookkeeping: a KeyUpdate names the epoch after its own, an outstanding  *)
(* update was sealed in the current epoch, and an acknowledgement in the   *)
(* network was sealed after its sender installed the epoch it names.       *)
(***************************************************************************)
KeyUpdatesNext == \A m \in net : m.type = "KeyUpdate" => m.next = m.epoch + 1

PendingNext ==
    \A n \in Node : pending[n] # NoKeyUpdate =>
        /\ pending[n].nextEpoch = sendEpoch[n] + 1
        /\ pending[n].sequence < nextSequence[n]

AcksInstalled ==
    \A m \in net : m.type = "KeyUpdateAck" => m.next <= current[m.from].epoch

EpochInv == FreshNonce /\ KeyUpdatesNext /\ PendingNext /\ AcksInstalled /\ EpochsAdjacent

\* Integer facts the arithmetic below needs.
LEMMA EpochTypes ==
    ASSUME TypeOK
    PROVE  /\ \A n \in Node : /\ sendEpoch[n] \in Nat
                              /\ nextSequence[n] \in Nat
                              /\ current[n].epoch \in Nat
                              /\ previous[n].epoch \in Int
           /\ \A m \in net : /\ m.from \in Node
                             /\ m.epoch \in Nat
                             /\ m.sequence \in Nat
                             /\ m.next \in Int
BY SessionAssumption DEF TypeOK, Packet, Cipher, NoCipher, Epoch, NoEpoch

\* A step that only seals keeps the invariant, if what it seals is in order.
LEMMA SealKeepsEpochInv ==
    ASSUME TypeOK, EpochInv, NEW n \in Node, NEW type \in PacketType,
           NEW next \in Epoch \cup {NoEpoch},
           Seal(n, type, next),
           type = "KeyUpdate" => next = sendEpoch[n] + 1,
           type = "KeyUpdateAck" => next <= current'[n].epoch,
           UNCHANGED sendEpoch,
           \A k \in Node : /\ current'[k].epoch \in Nat
                           /\ current[k].epoch <= current'[k].epoch
                           /\ current'[Peer(k)].epoch <= sendEpoch[k] + 1,
           \A k \in Node : pending'[k] # NoKeyUpdate =>
               /\ pending'[k].nextEpoch = sendEpoch[k] + 1
               /\ pending'[k].sequence < nextSequence'[k]
    PROVE  EpochInv'
<1>1. /\ net' = net \cup {Sealed(n, type, next)}
      /\ nextSequence' = [nextSequence EXCEPT ![n] = @ + 1]
      /\ \A k \in Node : nextSequence[k] <= nextSequence'[k]
      /\ nextSequence'[n] = nextSequence[n] + 1
  BY EpochTypes DEF Seal, TypeOK
<1>2. FreshNonce'
  <2>1. \A m \in net : \/ m.epoch < sendEpoch'[m.from]
                       \/ m.epoch = sendEpoch'[m.from] /\ m.sequence < nextSequence'[m.from]
    <3> SUFFICES ASSUME NEW m \in net
                 PROVE  \/ m.epoch < sendEpoch'[m.from]
                        \/ m.epoch = sendEpoch'[m.from] /\ m.sequence < nextSequence'[m.from]
      OBVIOUS
    <3>1. nextSequence[m.from] <= nextSequence'[m.from] /\ nextSequence'[m.from] \in Nat
      BY <1>1, EpochTypes DEF TypeOK
    <3> QED
      BY <3>1, EpochTypes DEF EpochInv, FreshNonce
  <2>2. Sealed(n, type, next).epoch = sendEpoch'[n] /\ Sealed(n, type, next).from = n
        /\ Sealed(n, type, next).sequence < nextSequence'[n]
    BY <1>1, EpochTypes DEF Sealed
  <2> QED
    BY <1>1, <2>1, <2>2 DEF FreshNonce
<1>3. KeyUpdatesNext'
  BY <1>1 DEF EpochInv, KeyUpdatesNext, Sealed
<1>4. PendingNext'
  BY DEF PendingNext
<1>5. AcksInstalled'
  <2>1. \A m \in net : m.type = "KeyUpdateAck" => m.next <= current'[m.from].epoch
    <3> SUFFICES ASSUME NEW m \in net, m.type = "KeyUpdateAck"
                 PROVE  m.next <= current'[m.from].epoch
      OBVIOUS
    <3>1. m.next <= current[m.from].epoch /\ current[m.from].epoch <= current'[m.from].epoch
      BY EpochTypes DEF EpochInv, AcksInstalled
    <3> QED
      BY <3>1, EpochTypes
  <2> QED
    BY <1>1, <2>1 DEF AcksInstalled, Sealed
<1>6. EpochsAdjacent'
  <2> SUFFICES ASSUME NEW k \in Node
               PROVE  /\ sendEpoch'[k] <= current'[Peer(k)].epoch
                      /\ current'[Peer(k)].epoch <= sendEpoch'[k] + 1
    BY DEF EpochsAdjacent
  <2>1. Peer(k) \in Node
    BY PeerFacts
  <2>2. sendEpoch[k] <= current[Peer(k)].epoch /\ current[Peer(k)].epoch <= current'[Peer(k)].epoch
    BY <2>1 DEF EpochInv, EpochsAdjacent
  <2> QED
    BY <2>1, <2>2, EpochTypes
<1> QED
  BY <1>2, <1>3, <1>4, <1>5, <1>6 DEF EpochInv

\* A step that seals nothing new, and at most sends an outstanding update
\* again or drops it, keeps it.
LEMMA QuietKeepsEpochInv ==
    ASSUME TypeOK, EpochInv, UNCHANGED <<sendEpoch, nextSequence>>,
           \A m \in net' : m \in net \/
               \E k \in Node : pending[k] # NoKeyUpdate /\ m = PendingPacket(k),
           \A k \in Node : current'[k].epoch = current[k].epoch,
           \A k \in Node : pending'[k] # NoKeyUpdate =>
               /\ pending[k] # NoKeyUpdate
               /\ pending'[k].nextEpoch = pending[k].nextEpoch
               /\ pending'[k].sequence = pending[k].sequence
    PROVE  EpochInv'
<1>1. FreshNonce' /\ KeyUpdatesNext'
  <2>1. ASSUME NEW k \in Node, pending[k] # NoKeyUpdate
        PROVE  /\ PendingPacket(k).from = k
               /\ PendingPacket(k).epoch = sendEpoch[k]
               /\ PendingPacket(k).sequence < nextSequence[k]
               /\ PendingPacket(k).next = PendingPacket(k).epoch + 1
    BY <2>1 DEF PendingPacket, EpochInv, PendingNext
  <2> QED
    BY <2>1 DEF EpochInv, FreshNonce, KeyUpdatesNext
<1>2. PendingNext'
  BY DEF EpochInv, PendingNext
<1>3. AcksInstalled'
  <2>1. \A k \in Node : PendingPacket(k).type = "KeyUpdate"
    BY DEF PendingPacket
  <2> QED
    BY <2>1, EpochTypes DEF EpochInv, AcksInstalled
<1>4. EpochsAdjacent'
  BY PeerFacts DEF EpochInv, EpochsAdjacent
<1> QED
  BY <1>1, <1>2, <1>3, <1>4 DEF EpochInv

\* An accepted packet that does not install an epoch leaves every epoch number.
LEMMA KeepsEpochs ==
    ASSUME TypeOK, NEW n \in Node, NEW m \in net, CanOpen(n, m), KeepReceiverEpochs(n, m)
    PROVE  /\ \A k \in Node : current'[k].epoch = current[k].epoch
           /\ \A k \in Node : previous'[k].epoch = previous[k].epoch
BY CommittedType DEF KeepReceiverEpochs, TypeOK

\* Every step keeps the epochs and nonces in order.
LEMMA EpochStep == TypeOK /\ EpochInv /\ [Next]_vars => EpochInv'
<1> SUFFICES ASSUME TypeOK, EpochInv, [Next]_vars PROVE EpochInv'
  OBVIOUS
<1> DEFINE SameEpochs == \A k \in Node : current'[k].epoch = current[k].epoch
<1>0. ASSUME SameEpochs
      PROVE  \A k \in Node : /\ current'[k].epoch \in Nat
                             /\ current[k].epoch <= current'[k].epoch
                             /\ current'[Peer(k)].epoch <= sendEpoch[k] + 1
  BY <1>0, PeerFacts, EpochTypes DEF EpochInv, EpochsAdjacent
<1>a. ASSUME UNCHANGED pending, \A k \in Node : nextSequence[k] <= nextSequence'[k],
             nextSequence' \in [Node -> Nat]
      PROVE  \A k \in Node : pending'[k] # NoKeyUpdate =>
                 /\ pending'[k].nextEpoch = sendEpoch[k] + 1
                 /\ pending'[k].sequence < nextSequence'[k]
  <2> SUFFICES ASSUME NEW k \in Node, pending[k] # NoKeyUpdate
               PROVE  /\ pending[k].nextEpoch = sendEpoch[k] + 1
                      /\ pending[k].sequence < nextSequence'[k]
    BY <1>a
  <2>1. pending[k].sequence \in Nat
    BY SessionAssumption DEF TypeOK, PendingKeyUpdate
  <2> QED
    BY <1>a, <2>1, EpochTypes DEF EpochInv, PendingNext
<1>b. ASSUME NEW n \in Node, NEW type, NEW next, Seal(n, type, next)
      PROVE  /\ \A k \in Node : nextSequence[k] <= nextSequence'[k]
             /\ nextSequence' \in [Node -> Nat]
             /\ nextSequence'[n] = nextSequence[n] + 1
  BY <1>b, EpochTypes DEF Seal, TypeOK
<1>1. ASSUME NEW n \in Node, ForwardTun(n) PROVE EpochInv'
  <2>1. Seal(n, "Data", NoEpoch) /\ UNCHANGED <<sendEpoch, pending>> /\ SameEpochs
    BY <1>1 DEF ForwardTun, receiverVars
  <2> QED
    BY <2>1, <1>0, <1>a, <1>b, SealKeepsEpochInv DEF PacketType
<1>2. ASSUME NEW n \in Node, SendPathChallenge(n) PROVE EpochInv'
  <2>1. Seal(n, "PathChallenge", NoEpoch) /\ UNCHANGED <<sendEpoch, pending>> /\ SameEpochs
    BY <1>2 DEF SendPathChallenge, receiverVars
  <2> QED
    BY <2>1, <1>0, <1>a, <1>b, SealKeepsEpochInv DEF PacketType
<1>3. ASSUME NEW n \in Node, EpochAges(n) PROVE EpochInv'
  <2>1. UNCHANGED <<sendEpoch, nextSequence, net, pending>> /\ SameEpochs
    BY <1>3 DEF EpochAges, receiverVars
  <2> QED
    BY <2>1, QuietKeepsEpochInv
<1>4. ASSUME NEW n \in Node, Maintain(n) PROVE EpochInv'
  <2>1. SameEpochs
    BY <1>4 DEF Maintain, RetireIfDue
  <2>2. CASE ResendKeyUpdate(n)
    <3>1. /\ UNCHANGED <<sendEpoch, nextSequence>>
          /\ net' = net \cup {PendingPacket(n)}
          /\ pending[n] # NoKeyUpdate
      BY <2>2 DEF ResendKeyUpdate
    <3>2. \A k \in Node : /\ pending'[k] # NoKeyUpdate => pending[k] # NoKeyUpdate
                          /\ pending'[k].nextEpoch = pending[k].nextEpoch
                          /\ pending'[k].sequence = pending[k].sequence
      <4>1. pending[n] \in PendingKeyUpdate
        BY <3>1 DEF TypeOK
      <4> QED
        BY <2>2, <3>1, <4>1 DEF ResendKeyUpdate, TypeOK, PendingKeyUpdate
    <3> QED
      BY <2>1, <3>1, <3>2, QuietKeepsEpochInv
  <2>3. CASE ExpireKeyUpdate(n)
    <3>1. UNCHANGED <<sendEpoch, nextSequence, net>>
      BY <2>3 DEF ExpireKeyUpdate
    <3>2. \A k \in Node : pending'[k] = NoKeyUpdate \/ pending'[k] = pending[k]
      BY <2>3 DEF ExpireKeyUpdate, TypeOK
    <3> QED
      BY <2>1, <3>1, <3>2, QuietKeepsEpochInv
  <2>4. CASE StartKeyUpdate(n)
    <3>1. /\ Seal(n, "KeyUpdate", sendEpoch[n] + 1)
          /\ UNCHANGED sendEpoch
          /\ sendEpoch[n] + 1 \in Epoch
      BY <2>4, SessionAssumption DEF StartKeyUpdate, TypeOK, Epoch
    <3>2. \A k \in Node : pending'[k] # NoKeyUpdate =>
              /\ pending'[k].nextEpoch = sendEpoch[k] + 1
              /\ pending'[k].sequence < nextSequence'[k]
      <4>1. /\ pending'[n].nextEpoch = sendEpoch[n] + 1
            /\ pending'[n].sequence = nextSequence[n]
        BY <2>4 DEF StartKeyUpdate, TypeOK
      <4>2. pending'[n].sequence < nextSequence'[n]
        BY <3>1, <4>1, <1>b, EpochTypes
      <4>3. \A k \in Node \ {n} : pending'[k] = pending[k] /\ nextSequence'[k] = nextSequence[k]
        BY <2>4, <3>1 DEF StartKeyUpdate, TypeOK, Seal
      <4> QED
        BY <4>1, <4>2, <4>3 DEF EpochInv, PendingNext
    <3> QED
      BY <2>1, <3>1, <3>2, <1>0, SealKeepsEpochInv DEF PacketType
  <2>5. CASE SendKeepalive(n)
    <3>1. Seal(n, "Keepalive", NoEpoch) /\ UNCHANGED <<sendEpoch, pending>>
      BY <2>5 DEF SendKeepalive
    <3> QED
      BY <2>1, <3>1, <1>0, <1>a, <1>b, SealKeepsEpochInv DEF PacketType
  <2>6. CASE NothingDue(n)
    BY <2>1, <2>6, QuietKeepsEpochInv DEF NothingDue, senderVars
  <2> QED
    BY <1>4, <2>2, <2>3, <2>4, <2>5, <2>6 DEF Maintain
<1>5. ASSUME NEW n \in Node, NEW m \in net, ReceiveTraffic(n, m) PROVE EpochInv'
  <2>1. CanOpen(n, m) /\ KeepReceiverEpochs(n, m)
    BY <1>5 DEF ReceiveTraffic, Arrives
  <2>2. SameEpochs
    BY <2>1, KeepsEpochs
  <2> QED
    BY <1>5, <2>2, QuietKeepsEpochInv DEF ReceiveTraffic, senderVars
<1>6. ASSUME NEW n \in Node, NEW m \in net, ReceivePathChallenge(n, m) PROVE EpochInv'
  <2>1. CanOpen(n, m) /\ KeepReceiverEpochs(n, m) /\ UNCHANGED <<sendEpoch, pending>>
    BY <1>6 DEF ReceivePathChallenge, Arrives
  <2>2. SameEpochs
    BY <2>1, KeepsEpochs
  <2>3. CASE Seal(n, "PathResponse", NoEpoch)
    BY <2>1, <2>2, <2>3, <1>0, <1>a, <1>b, SealKeepsEpochInv DEF PacketType
  <2>4. CASE UNCHANGED <<net, nextSequence>>
    BY <2>1, <2>2, <2>4, QuietKeepsEpochInv
  <2> QED
    BY <1>6, <2>3, <2>4 DEF ReceivePathChallenge, SealIfPossible
<1>7. ASSUME NEW n \in Node, NEW m \in net, ReceiveKeyUpdate(n, m) PROVE EpochInv'
  <2>1. /\ CanOpen(n, m) /\ m.type = "KeyUpdate" /\ m.from = Peer(n)
        /\ UNCHANGED <<sendEpoch, pending>>
    BY <1>7 DEF ReceiveKeyUpdate, Arrives
  <2>2. m.next \in Epoch \cup {NoEpoch}
    BY DEF TypeOK, Packet
  <2>3. CASE VerifyKeyUpdatePayload(m, m.epoch) /\ current[n].epoch + 1 = m.next
    <3>1. InstallNextEpoch(n, m) /\ SealIfPossible(n, "KeyUpdateAck", m.next)
      BY <1>7, <2>3 DEF ReceiveKeyUpdate
    <3>2. /\ current'[n].epoch = m.next
          /\ \A k \in Node \ {n} : current'[k] = current[k]
      BY <3>1 DEF InstallNextEpoch, DeriveEpoch, TypeOK
    <3>3. m.next <= sendEpoch[Peer(n)] + 1
      BY <2>1, <2>3, EpochTypes DEF EpochInv, FreshNonce, KeyUpdatesNext
    <3>4. \A k \in Node : /\ current'[k].epoch \in Nat
                          /\ current[k].epoch <= current'[k].epoch
                          /\ current'[Peer(k)].epoch <= sendEpoch[k] + 1
      <4>1. /\ current'[n].epoch \in Nat
            /\ current[n].epoch <= current'[n].epoch
            /\ current'[n].epoch <= sendEpoch[Peer(n)] + 1
        BY <2>3, <3>2, <3>3, EpochTypes
      <4>2. \A k \in Node : current'[k].epoch \in Nat /\ current[k].epoch <= current'[k].epoch
        BY <3>2, <4>1, EpochTypes
      <4>3. ASSUME NEW k \in Node PROVE current'[Peer(k)].epoch <= sendEpoch[k] + 1
        <5>1. CASE Peer(k) = n
          BY <5>1, <4>1, PeerFacts
        <5>2. CASE Peer(k) # n
          BY <5>2, <3>2, PeerFacts DEF EpochInv, EpochsAdjacent
        <5> QED
          BY <5>1, <5>2
      <4> QED
        BY <4>2, <4>3
    <3>5. CASE Seal(n, "KeyUpdateAck", m.next)
      <4>1. m.next <= current'[n].epoch
        BY <3>2, <3>4
      <4> QED
        BY <2>1, <2>2, <3>4, <3>5, <4>1, <1>a, <1>b, SealKeepsEpochInv DEF PacketType
    <3>6. CASE UNCHANGED <<net, nextSequence>>
      <4>1. FreshNonce' /\ KeyUpdatesNext' /\ PendingNext'
        BY <2>1, <3>6 DEF EpochInv, FreshNonce, KeyUpdatesNext, PendingNext
      <4>2. AcksInstalled'
        <5> SUFFICES ASSUME NEW a \in net, a.type = "KeyUpdateAck"
                     PROVE  a.next <= current'[a.from].epoch
          BY <3>6 DEF AcksInstalled
        <5>1. a.next <= current[a.from].epoch /\ current[a.from].epoch <= current'[a.from].epoch
              /\ current'[a.from].epoch \in Nat
          BY <3>4, EpochTypes DEF EpochInv, AcksInstalled
        <5> QED
          BY <5>1, EpochTypes
      <4>3. EpochsAdjacent'
        <5> SUFFICES ASSUME NEW k \in Node
                     PROVE  /\ sendEpoch[k] <= current'[Peer(k)].epoch
                            /\ current'[Peer(k)].epoch <= sendEpoch[k] + 1
          BY <2>1 DEF EpochsAdjacent
        <5>1. Peer(k) \in Node /\ sendEpoch[k] <= current[Peer(k)].epoch
          BY PeerFacts DEF EpochInv, EpochsAdjacent
        <5> QED
          BY <5>1, <3>4, EpochTypes
      <4> QED
        BY <4>1, <4>2, <4>3 DEF EpochInv
    <3> QED
      BY <3>1, <3>5, <3>6 DEF SealIfPossible
  <2>4. CASE ~(VerifyKeyUpdatePayload(m, m.epoch) /\ current[n].epoch + 1 = m.next)
    <3>1. KeepReceiverEpochs(n, m)
      BY <1>7, <2>4 DEF ReceiveKeyUpdate
    <3>2. SameEpochs
      BY <2>1, <3>1, KeepsEpochs
    <3>3. CASE current[n].epoch = m.next /\ Seal(n, "KeyUpdateAck", m.next)
      <4>1. m.next <= current'[n].epoch
        BY <3>2, <3>3, EpochTypes
      <4> QED
        BY <2>1, <2>2, <3>2, <3>3, <4>1, <1>0, <1>a, <1>b, SealKeepsEpochInv DEF PacketType
    <3>4. CASE UNCHANGED <<net, nextSequence>>
      BY <2>1, <3>2, <3>4, QuietKeepsEpochInv
    <3> QED
      BY <1>7, <2>4, <3>3, <3>4 DEF ReceiveKeyUpdate, SealIfPossible
  <2> QED
    BY <2>3, <2>4
<1>8. ASSUME NEW n \in Node, NEW m \in net, ReceiveKeyUpdateAck(n, m) PROVE EpochInv'
  <2>1. /\ CanOpen(n, m) /\ m.type = "KeyUpdateAck" /\ m.from = Peer(n)
        /\ KeepReceiverEpochs(n, m) /\ net' = net
    BY <1>8 DEF ReceiveKeyUpdateAck, Arrives
  <2>2. SameEpochs
    BY <2>1, KeepsEpochs
  <2>3. CASE UNCHANGED senderVars
    BY <2>1, <2>2, <2>3, QuietKeepsEpochInv DEF senderVars
  <2>4. CASE ~UNCHANGED senderVars
    <3>1. /\ m.next = sendEpoch[n] + 1
          /\ sendEpoch' = [sendEpoch EXCEPT ![n] = m.next]
          /\ nextSequence' = [nextSequence EXCEPT ![n] = 0]
          /\ pending' = [pending EXCEPT ![n] = NoKeyUpdate]
      BY <1>8, <2>4 DEF ReceiveKeyUpdateAck, VerifyKeyUpdatePayload
    <3>2. /\ sendEpoch'[n] = sendEpoch[n] + 1
          /\ \A k \in Node \ {n} : /\ sendEpoch'[k] = sendEpoch[k]
                                   /\ nextSequence'[k] = nextSequence[k]
                                   /\ pending'[k] = pending[k]
          /\ pending'[n] = NoKeyUpdate
      BY <3>1 DEF TypeOK
    <3>3. FreshNonce'
      <4> SUFFICES ASSUME NEW p \in net
                   PROVE  \/ p.epoch < sendEpoch'[p.from]
                          \/ p.epoch = sendEpoch'[p.from] /\ p.sequence < nextSequence'[p.from]
        BY <2>1 DEF FreshNonce
      <4>1. CASE p.from = n
        BY <4>1, <3>2, EpochTypes DEF EpochInv, FreshNonce
      <4>2. CASE p.from # n
        BY <4>2, <3>2, EpochTypes DEF EpochInv, FreshNonce
      <4> QED
        BY <4>1, <4>2
    <3>4. KeyUpdatesNext' /\ AcksInstalled'
      BY <2>1, <2>2, EpochTypes DEF EpochInv, KeyUpdatesNext, AcksInstalled
    <3>5. PendingNext'
      BY <3>2 DEF EpochInv, PendingNext
    <3>6. EpochsAdjacent'
      <4> SUFFICES ASSUME NEW k \in Node
                   PROVE  /\ sendEpoch'[k] <= current[Peer(k)].epoch
                          /\ current[Peer(k)].epoch <= sendEpoch'[k] + 1
        BY <2>2, PeerFacts DEF EpochsAdjacent
      <4>1. sendEpoch[k] <= current[Peer(k)].epoch /\ current[Peer(k)].epoch <= sendEpoch[k] + 1
        BY DEF EpochInv, EpochsAdjacent
      <4>2. CASE k = n
        <5>1. sendEpoch[n] + 1 <= current[Peer(n)].epoch
          BY <2>1, <3>1 DEF EpochInv, AcksInstalled
        <5> QED
          BY <4>1, <4>2, <5>1, <3>2, PeerFacts, EpochTypes
      <4>3. CASE k # n
        BY <4>1, <4>3, <3>2
      <4> QED
        BY <4>2, <4>3
    <3> QED
      BY <3>3, <3>4, <3>5, <3>6 DEF EpochInv
  <2> QED
    BY <2>3, <2>4
<1>9. CASE UNCHANGED vars
  BY <1>9, QuietKeepsEpochInv DEF vars
<1> QED
  BY <1>1, <1>2, <1>3, <1>4, <1>5, <1>6, <1>7, <1>8, <1>9 DEF Next, Receive

\* They are in order when the session is installed.
LEMMA EpochInit == Init => EpochInv
BY PeerFacts DEF Init, EpochInv, FreshNonce, KeyUpdatesNext, PendingNext, AcksInstalled,
   EpochsAdjacent, DeriveEpoch, Node

\* They are in order in every reachable state.
LEMMA EpochInvariance == Spec => []EpochInv
BY EpochInit, EpochStep, TypeCorrect, PTL DEF Spec

\* No sender ever seals two packets under one nonce, for any number of
\* rotations, retries and stale acknowledgements (DataSender::seal).
THEOREM NonceNeverReused == Spec => []FreshNonce
<1>1. EpochInv => FreshNonce
  BY DEF EpochInv
<1> QED
  BY <1>1, EpochInvariance, PTL

\* Sender and receiver of a direction never drift more than one epoch apart,
\* whatever is lost, duplicated or reordered (handle_key_update and its ack).
THEOREM EpochsStayAdjacent == Spec => []EpochsAdjacent
<1>1. EpochInv => EpochsAdjacent
  BY DEF EpochInv
<1> QED
  BY <1>1, EpochInvariance, PTL

-------------------------------------------------------------------------------
(***************************************************************************)
(* Replay across epochs.  Each receive epoch's window tracks exactly the   *)
(* sequences opened in that epoch, the previous epoch is kept precisely    *)
(* while it is retained and is the one before the current, and nothing of  *)
(* a future epoch has been opened: so a newly installed window starts      *)
(* empty for an epoch in which nothing was opened yet.                     *)
(***************************************************************************)
\* The sequences of one epoch among the opened pairs.
Opened(pairs, epoch) == {s \in 0 .. MaxSequence : <<epoch, s>> \in pairs}

ReceiverInvAt(n) ==
    /\ Tracks(current[n].window, Opened(opened[n], current[n].epoch))
    /\ \/ previous[n] = NoCipher /\ retained[n] = NotRetained
       \/ /\ retained[n] # NotRetained
          /\ previous[n] \in Cipher
          /\ previous[n].epoch + 1 = current[n].epoch
          /\ Tracks(previous[n].window, Opened(opened[n], previous[n].epoch))
    /\ \A e \in Epoch : \A s \in 0 .. MaxSequence :
            <<e, s>> \in opened[n] => e <= current[n].epoch

ReceiverInv == \A n \in Node : ReceiverInvAt(n)

\* An accepted packet adds its sequence to what was opened in its epoch.
LEMMA OpenedStep ==
    ASSUME TypeOK, NEW n \in Node, NEW m \in net, NEW type, Arrives(n, m, type)
    PROVE  /\ \A e : e # m.epoch => Opened(opened'[n], e) = Opened(opened[n], e)
           /\ Opened(opened'[n], m.epoch) = Opened(opened[n], m.epoch) \cup {m.sequence}
           /\ m.epoch \in Epoch /\ m.sequence \in 0 .. MaxSequence
           /\ opened'[n] = opened[n] \cup {<<m.epoch, m.sequence>>}
<1>1. m.epoch \in Epoch /\ m.sequence \in 0 .. MaxSequence
  BY DEF TypeOK, Packet
<1>2. opened'[n] = opened[n] \cup {<<m.epoch, m.sequence>>}
  BY DEF TypeOK, Arrives
<1> QED
  BY <1>1, <1>2 DEF Opened

\* The commit that ends DataReceiver::open keeps both windows in step with
\* what was opened.
LEMMA CommittedTracks ==
    ASSUME TypeOK, NEW n \in Node, NEW m \in net, NEW type, Arrives(n, m, type),
           ReceiverInvAt(n)
    PROVE  /\ Tracks(CommittedCurrent(n, m).window, Opened(opened'[n], current[n].epoch))
           /\ previous[n] \in Cipher =>
                /\ CommittedPrevious(n, m) \in Cipher
                /\ Tracks(CommittedPrevious(n, m).window, Opened(opened'[n], previous[n].epoch))
           /\ previous[n] = NoCipher => CommittedPrevious(n, m) = NoCipher
<1>1. /\ m.epoch \in Epoch /\ m.sequence \in Nat /\ m.epoch # NoEpoch
      /\ CanOpen(n, m) /\ current[n] \in Cipher
  BY SessionAssumption DEF TypeOK, Packet, Epoch, NoEpoch, Arrives
<1>2. \A e : Opened(opened[n], e) \in SUBSET Nat
  BY SessionAssumption DEF Opened
<1>3. Tracks(CommittedCurrent(n, m).window, Opened(opened'[n], current[n].epoch))
  <2>1. CASE InCurrent(n, m)
    <3>1. Precheck(current[n].window, m.sequence) /\ current[n].window \in Windows
      BY <1>1, <2>1 DEF CanOpen, InPrevious, Cipher
    <3>2. Tracks(Commit(current[n].window, m.sequence),
                 Opened(opened[n], current[n].epoch) \cup {m.sequence})
      BY <1>1, <1>2, <3>1, TracksCommit DEF ReceiverInvAt
    <3>3. CommittedCurrent(n, m).window = Commit(current[n].window, m.sequence)
      BY <1>1, <2>1 DEF CommittedCurrent, Cipher
    <3> QED
      BY <2>1, <3>2, <3>3, OpenedStep DEF InCurrent
  <2>2. CASE ~InCurrent(n, m)
    BY <2>2, OpenedStep DEF CommittedCurrent, InCurrent, ReceiverInvAt
  <2> QED
    BY <2>1, <2>2
<1>4. ASSUME previous[n] \in Cipher
      PROVE  /\ CommittedPrevious(n, m) \in Cipher
             /\ Tracks(CommittedPrevious(n, m).window, Opened(opened'[n], previous[n].epoch))
  <2>1. /\ previous[n].epoch # current[n].epoch
        /\ Tracks(previous[n].window, Opened(opened[n], previous[n].epoch))
    <3>1. previous[n] # NoCipher
      BY <1>4, SessionAssumption DEF Cipher, NoCipher, Epoch, NoEpoch
    <3> QED
      BY <1>1, <1>4, <3>1, SessionAssumption DEF ReceiverInvAt, Cipher, Epoch
  <2>2. CASE InPrevious(n, m)
    <3>1. Precheck(previous[n].window, m.sequence) /\ previous[n].window \in Windows
      BY <1>1, <1>4, <2>2 DEF CanOpen, InPrevious, Cipher
    <3>2. Commit(previous[n].window, m.sequence) \in Windows
          /\ Tracks(Commit(previous[n].window, m.sequence),
                    Opened(opened[n], previous[n].epoch) \cup {m.sequence})
      BY <1>1, <1>2, <2>1, <3>1, TracksCommit
    <3>3. /\ CommittedPrevious(n, m).window = Commit(previous[n].window, m.sequence)
          /\ CommittedPrevious(n, m) \in Cipher
      BY <1>4, <2>2, <3>2 DEF CommittedPrevious, Cipher
    <3> QED
      BY <2>2, <3>2, <3>3, OpenedStep DEF InPrevious
  <2>3. CASE ~InPrevious(n, m)
    <3>1. m.epoch # previous[n].epoch
      BY <2>1, <2>3 DEF InPrevious, InCurrent
    <3> QED
      BY <1>4, <2>1, <2>3, <3>1, OpenedStep DEF CommittedPrevious
  <2> QED
    BY <2>2, <2>3
<1>5. previous[n] = NoCipher => CommittedPrevious(n, m) = NoCipher
  BY <1>1 DEF CommittedPrevious, InPrevious, NoCipher
<1> QED
  BY <1>3, <1>4, <1>5

\* Whatever an end opens lies in an epoch it has installed.
LEMMA OpenedInstalled ==
    ASSUME TypeOK, NEW n \in Node, NEW m \in net, NEW type, Arrives(n, m, type),
           ReceiverInvAt(n)
    PROVE  \A e \in Epoch : \A s \in 0 .. MaxSequence :
               <<e, s>> \in opened'[n] => e <= current[n].epoch
<1>1. m.epoch <= current[n].epoch
  <2>1. /\ current[n].epoch \in Nat /\ previous[n].epoch \in Int /\ m.epoch \in Nat
        /\ CanOpen(n, m)
    BY EpochTypes DEF Arrives
  <2> QED
    BY <2>1 DEF CanOpen, InCurrent, InPrevious, ReceiverInvAt, NoCipher, NoEpoch
<1> QED
  BY <1>1, OpenedStep DEF ReceiverInvAt

\* An accepted packet that installs nothing keeps the receiver's invariant.
LEMMA KeepReceiverInv ==
    ASSUME TypeOK, NEW n \in Node, NEW m \in net, NEW type, Arrives(n, m, type),
           ReceiverInvAt(n), KeepReceiverEpochs(n, m)
    PROVE  ReceiverInvAt(n)'
<1>1. CanOpen(n, m)
  BY DEF Arrives
<1>2. /\ current'[n] = CommittedCurrent(n, m) /\ previous'[n] = CommittedPrevious(n, m)
      /\ retained'[n] = retained[n]
      /\ current'[n].epoch = current[n].epoch /\ previous'[n].epoch = previous[n].epoch
  BY <1>1, CommittedType DEF TypeOK, KeepReceiverEpochs
<1> QED
  BY <1>2, CommittedTracks, OpenedInstalled DEF ReceiverInvAt

\* Installing the next epoch keeps it: nothing was opened there before.
LEMMA InstallReceiverInv ==
    ASSUME TypeOK, NEW n \in Node, NEW m \in net, NEW type, Arrives(n, m, type),
           ReceiverInvAt(n), InstallNextEpoch(n, m),
           current[n].epoch + 1 = m.next
    PROVE  ReceiverInvAt(n)'
<1>1. CanOpen(n, m) /\ current[n].epoch \in Nat /\ m.next \in Int
  BY EpochTypes DEF Arrives
<1>2. /\ current'[n] = DeriveEpoch(m.next) /\ previous'[n] = CommittedCurrent(n, m)
      /\ retained'[n] = 0
  BY DEF TypeOK, InstallNextEpoch
<1>3. current'[n].epoch = current[n].epoch + 1 /\ current'[n].window = NewWindow
  BY <1>2 DEF DeriveEpoch
<1>4. /\ previous'[n] \in Cipher
      /\ previous'[n].epoch = current[n].epoch
      /\ Tracks(previous'[n].window, Opened(opened'[n], previous'[n].epoch))
  BY <1>1, <1>2, CommittedType, CommittedTracks
<1>5. m.next \in Epoch
  BY <1>1 DEF TypeOK, Packet, Epoch, NoEpoch
<1>6. Opened(opened'[n], m.next) = {}
  BY <1>1, <1>5, OpenedInstalled DEF Opened
<1>7. Tracks(current'[n].window, Opened(opened'[n], current'[n].epoch))
  BY <1>3, <1>6, TracksNew
<1>8. \A e \in Epoch : \A s \in 0 .. MaxSequence :
          <<e, s>> \in opened'[n] => e <= current'[n].epoch
  BY <1>1, <1>3, OpenedInstalled, SessionAssumption DEF Epoch
<1> QED
  BY <1>2, <1>3, <1>4, <1>7, <1>8 DEF ReceiverInvAt, NotRetained

\* So does a maintenance pass.
LEMMA RetireReceiverInv ==
    ASSUME TypeOK, NEW n \in Node, ReceiverInvAt(n), RetireIfDue(n)
    PROVE  ReceiverInvAt(n)'
<1>1. current' = current /\ opened' = opened /\ retained[n] \in -1 .. Retention
  BY DEF TypeOK, RetireIfDue
<1>2. CASE RetireDue(n)
  <2>1. previous'[n] = NoCipher /\ retained'[n] = NotRetained
    BY <1>2 DEF TypeOK, RetireIfDue, RetireDue
  <2> QED
    BY <1>1, <2>1 DEF ReceiverInvAt
<1>3. CASE ~RetireDue(n)
  <2>1. previous'[n] = previous[n] /\ (retained'[n] = NotRetained <=> retained[n] = NotRetained)
    BY <1>1, <1>3, SessionAssumption DEF TypeOK, RetireIfDue, RetireDue, NotRetained
  <2> QED
    BY <1>1, <2>1 DEF ReceiverInvAt
<1> QED
  BY <1>2, <1>3

\* Every step keeps the invariant at both ends.
LEMMA ReceiverStep == TypeOK /\ ReceiverInv /\ [Next]_vars => ReceiverInv'
<1> SUFFICES ASSUME TypeOK, ReceiverInv, [Next]_vars PROVE ReceiverInv'
  OBVIOUS
<1>1. ASSUME NEW n \in Node,
             ReceiverInvAt(n)',
             \A k \in Node \ {n} : /\ current'[k] = current[k] /\ previous'[k] = previous[k]
                                   /\ retained'[k] = retained[k] /\ opened'[k] = opened[k]
      PROVE  ReceiverInv'
  BY <1>1 DEF ReceiverInv, ReceiverInvAt
<1>2. ASSUME UNCHANGED receiverVars PROVE ReceiverInv'
  BY <1>2 DEF ReceiverInv, ReceiverInvAt, receiverVars
<1>3. ASSUME NEW n \in Node, NEW m \in net, NEW type, Arrives(n, m, type),
             KeepReceiverEpochs(n, m)
      PROVE  ReceiverInv'
  <2>1. ReceiverInvAt(n)'
    BY <1>3, KeepReceiverInv DEF ReceiverInv
  <2> QED
    BY <1>1, <1>3, <2>1 DEF TypeOK, Arrives, KeepReceiverEpochs
<1>4. ASSUME NEW n \in Node, Maintain(n) PROVE ReceiverInv'
  <2>1. ReceiverInvAt(n)'
    BY <1>4, RetireReceiverInv DEF ReceiverInv, Maintain
  <2> QED
    BY <1>1, <1>4, <2>1 DEF TypeOK, Maintain, RetireIfDue
<1>5. ASSUME NEW n \in Node, NEW m \in net, ReceiveKeyUpdate(n, m) PROVE ReceiverInv'
  <2>1. Arrives(n, m, {"KeyUpdate"})
    BY <1>5 DEF ReceiveKeyUpdate
  <2>2. CASE InstallNextEpoch(n, m) /\ current[n].epoch + 1 = m.next
    <3>1. ReceiverInvAt(n)'
      BY <2>1, <2>2, InstallReceiverInv DEF ReceiverInv
    <3> QED
      BY <1>1, <2>1, <2>2, <3>1 DEF TypeOK, Arrives, InstallNextEpoch
  <2>3. CASE KeepReceiverEpochs(n, m)
    BY <2>1, <2>3, <1>3
  <2> QED
    BY <1>5, <2>2, <2>3 DEF ReceiveKeyUpdate
<1>6. ASSUME NEW n \in Node, NEW m \in net,
             ReceiveTraffic(n, m) \/ ReceivePathChallenge(n, m) \/ ReceiveKeyUpdateAck(n, m)
      PROVE  ReceiverInv'
  BY <1>3, <1>6 DEF ReceiveTraffic, ReceivePathChallenge, ReceiveKeyUpdateAck
<1>7. ASSUME NEW n \in Node, ForwardTun(n) \/ SendPathChallenge(n) \/ EpochAges(n)
      PROVE  ReceiverInv'
  BY <1>2, <1>7 DEF ForwardTun, SendPathChallenge, EpochAges
<1>8. CASE UNCHANGED vars
  BY <1>2, <1>8 DEF vars, receiverVars
<1> QED
  BY <1>4, <1>5, <1>6, <1>7, <1>8 DEF Next, Receive

\* It holds when the session is installed.
LEMMA ReceiverInit == Init => ReceiverInv
<1> SUFFICES ASSUME Init, NEW n \in Node PROVE ReceiverInvAt(n)
  BY DEF ReceiverInv
<1>1. /\ current[n] = DeriveEpoch(0) /\ previous[n] = NoCipher
      /\ retained[n] = NotRetained /\ opened[n] = {}
  BY DEF Init
<1> QED
  BY <1>1, TracksNew DEF ReceiverInvAt, Opened, DeriveEpoch

\* And so in every reachable state.
LEMMA ReceiverInvariance == Spec => [](TypeOK /\ ReceiverInv)
BY ReceiverInit, ReceiverStep, TypeInit, TypeStep, PTL DEF Spec

\* No end ever opens a packet twice, for any number of epochs, however often
\* and however late it is delivered again (DataReceiver::open).
THEOREM NoPacketTwice == Spec => []NeverReopened
<1>1. TypeOK /\ ReceiverInv => NeverReopened
  <2> SUFFICES ASSUME TypeOK, ReceiverInv, NEW n \in Node, NEW m \in net,
                      <<m.epoch, m.sequence>> \in opened[n], CanOpen(n, m)
               PROVE  FALSE
    BY DEF NeverReopened
  <2>1. /\ m.sequence \in 0 .. MaxSequence /\ m.epoch \in Epoch /\ m.epoch # NoEpoch
        /\ current[n].window \in Windows /\ ReceiverInvAt(n)
    BY SessionAssumption DEF TypeOK, Packet, Cipher, ReceiverInv, Epoch, NoEpoch
  <2>a. /\ m.sequence \in Opened(opened[n], m.epoch)
        /\ Opened(opened[n], m.epoch) \in SUBSET Nat
    BY <2>1, SessionAssumption DEF Opened
  <2>2. CASE InCurrent(n, m) /\ Precheck(current[n].window, m.sequence)
    BY <2>1, <2>a, <2>2, TracksRejects DEF InCurrent, ReceiverInvAt
  <2>3. CASE InPrevious(n, m) /\ Precheck(previous[n].window, m.sequence)
    <3>1. /\ previous[n].window \in Windows
          /\ Tracks(previous[n].window, Opened(opened[n], m.epoch))
      BY <2>1, <2>3 DEF InPrevious, ReceiverInvAt, NoCipher, Cipher
    <3> QED
      BY <2>1, <2>a, <2>3, <3>1, TracksRejects
  <2> QED
    BY <2>2, <2>3 DEF CanOpen
<1> QED
  BY <1>1, ReceiverInvariance, PTL

\* No fresh packet within reach of its window is turned away, also while its
\* epoch is the retained previous one (DataReceiver::open, install_next_epoch).
THEOREM FreshPacketsAccepted == Spec => []FreshPacketsOpen
<1>1. TypeOK /\ ReceiverInv => FreshPacketsOpen
  <2> SUFFICES ASSUME TypeOK, ReceiverInv, NEW n \in Node, NEW m \in net,
                      <<m.epoch, m.sequence>> \notin opened[n],
                      \/ m.epoch = current[n].epoch
                      \/ m.epoch + 1 = current[n].epoch /\ retained[n] # NotRetained,
                      m.sequence <= MaxAdvance,
                      \A s \in 0 .. MaxSequence :
                          <<m.epoch, s>> \in opened[n] => s - m.sequence < WindowBits
               PROVE  CanOpen(n, m)
    BY DEF FreshPacketsOpen
  <2>1. /\ m.sequence \in 0 .. MaxSequence /\ m.sequence \in Nat /\ m.epoch \in Nat
        /\ current[n].window \in Windows /\ ReceiverInvAt(n)
        /\ current[n].epoch \in Nat /\ previous[n].epoch \in Int
    BY SessionAssumption, EpochTypes DEF TypeOK, Packet, Cipher, ReceiverInv
  <2>a. /\ m.sequence \notin Opened(opened[n], m.epoch)
        /\ Opened(opened[n], m.epoch) \in SUBSET Nat
        /\ \A t \in Opened(opened[n], m.epoch) : t - m.sequence < WindowBits
    BY SessionAssumption DEF Opened
  <2>2. CASE m.epoch = current[n].epoch
    BY <2>1, <2>a, <2>2, TracksAccepts DEF CanOpen, InCurrent, ReceiverInvAt
  <2>3. CASE m.epoch + 1 = current[n].epoch /\ retained[n] # NotRetained
    <3>1. /\ previous[n].window \in Windows /\ m.epoch = previous[n].epoch
          /\ Tracks(previous[n].window, Opened(opened[n], m.epoch))
      BY <2>1, <2>3 DEF ReceiverInvAt, Cipher
    <3>2. Precheck(previous[n].window, m.sequence)
      BY <2>1, <2>a, <3>1, TracksAccepts
    <3> QED
      BY <2>1, <2>3, <3>1, <3>2 DEF CanOpen, InPrevious, InCurrent
  <2> QED
    BY <2>2, <2>3
<1> QED
  BY <1>1, ReceiverInvariance, PTL

-------------------------------------------------------------------------------
(***************************************************************************)
(* The handshake.                                                          *)
(***************************************************************************)

\* The ends of a handshake are 1 and 2, and each is the other's peer.
LEMMA EndsOfHandshake ==
    \A n \in H!Node : H!Peer(n) \in H!Node /\ H!Peer(n) # n /\ H!Peer(H!Peer(n)) = n
BY DEF H!Node, H!Peer

\* What Becomes puts in place is a state of a peer (PeerState).
LEMMA MadePeer ==
    ASSUME NEW hello \in H!Hello
    PROVE  /\ [phase |-> "ClientHello", hello |-> hello, reply |-> 0,
               attempts |-> IF "ClientHello" \in H!Pending THEN 1 ELSE 0] \in H!PeerState
           /\ \A phase \in {"ClientFinish", "ServerHello", "Established"}, reply \in 1 .. MaxReplies :
                 [phase |-> phase, hello |-> hello, reply |-> reply,
                  attempts |-> IF phase \in H!Pending THEN 1 ELSE 0] \in H!PeerState
<1>1. 1 \in 1 .. MaxAttempts
  BY PeerAssumption
<1> QED
  BY <1>1 DEF H!PeerState, H!Pending

\* A peer without a handshake is in a state of a peer.
LEMMA IdlePeer == H!Idle \in H!PeerState
BY DEF H!PeerState

\* A state of a peer, field by field.
LEMMA PeerFields ==
    ASSUME NEW p \in H!PeerState
    PROVE  /\ p.phase \in {"Idle", "ClientHello", "ClientFinish", "ServerHello", "Established"}
           /\ p.phase = "Idle" <=> p = H!Idle
           /\ p.phase # "Idle" => p.hello \in H!Hello
           /\ p.phase \in {"ClientFinish", "ServerHello", "Established"} => p.reply \in 1 .. MaxReplies
           /\ p.phase \in H!Pending => p.attempts \in 1 .. MaxAttempts
           /\ p.phase = "ClientHello" => p.reply = 0
BY DEF H!PeerState, H!Idle, H!Pending

\* A message, field by field.
LEMMA MessageFields ==
    ASSUME NEW m \in H!Message
    PROVE  /\ m.hello \in H!Hello
           /\ m.hello.client \in H!Node /\ m.hello.id \in 1 .. MaxHellos
           /\ m.type = "ClientHello" => m.reply = 0
           /\ m.type # "ClientHello" => m.reply \in 1 .. MaxReplies
           /\ m = [type |-> m.type, hello |-> m.hello, reply |-> m.reply]
BY DEF H!Message, H!Hello

\* The first states have the types.
LEMMA HandshakeTypesInit == H!Init => H!TypeOK
<1> SUFFICES ASSUME H!Init PROVE H!TypeOK
  OBVIOUS
<1>1. 0 \in 0 .. MaxCandidateAttempts /\ 0 \in 0 .. MaxQueued /\ 0 \in 0 .. MaxHellos
  BY PeerAssumption
<1>2. 0 \in 0 .. MaxReplies /\ 0 \in 0 .. MaxConfigurations /\ 0 \in 0 .. MaxRestarts
  BY PeerAssumption
<1>3. \A n \in H!Node : recent[n] = <<>> /\ Len(recent[n]) <= MaxRecentHellos
  BY PeerAssumption DEF H!Init
<1>4. recent \in [H!Node -> Seq(H!Hello)]
  BY DEF H!Init
<1> QED
  BY <1>1, <1>2, <1>3, <1>4, IdlePeer DEF H!Init, H!TypeOK

\* What the handshake's own steps at end n do to the types of its part.
OwnTypes ==
    /\ peer \in [H!Node -> H!PeerState]
    /\ tries \in [H!Node -> 0 .. MaxCandidateAttempts]
    /\ backoff \in [H!Node -> BOOLEAN]
    /\ queue \in [H!Node -> 0 .. MaxQueued]
    /\ hellos \in [H!Node -> 0 .. MaxHellos]
    /\ messages \subseteq H!Message

\* begin_client_handshake.
LEMMA BeginTypes ==
    ASSUME OwnTypes, NEW n \in H!Node, NEW t \in 0 .. MaxCandidateAttempts,
           H!BeginClientHandshake(n, t)
    PROVE  /\ peer' \in [H!Node -> H!PeerState]
           /\ tries' \in [H!Node -> 0 .. MaxCandidateAttempts]
           /\ hellos' \in [H!Node -> 0 .. MaxHellos]
           /\ messages' \subseteq H!Message
<1> DEFINE hello == [client |-> n, id |-> hellos[n] + 1]
<1>1. hellos[n] + 1 \in 1 .. MaxHellos /\ t + 1 \in 0 .. MaxCandidateAttempts
  BY PeerAssumption DEF OwnTypes, H!BeginClientHandshake
<1>2. hello \in H!Hello
  BY <1>1 DEF H!Hello
<1>3. hellos' \in [H!Node -> 0 .. MaxHellos] /\ tries' \in [H!Node -> 0 .. MaxCandidateAttempts]
  BY <1>1 DEF OwnTypes, H!BeginClientHandshake
<1>4. H!Becomes(n, "ClientHello", hello, 0) /\ H!Sends("ClientHello", hello, 0)
  BY DEF H!BeginClientHandshake
<1> HIDE DEF hello
<1>5. peer' \in [H!Node -> H!PeerState]
  BY <1>2, <1>4, MadePeer DEF OwnTypes, H!Becomes
<1>6. [type |-> "ClientHello", hello |-> hello, reply |-> 0] \in H!Message
  BY <1>2 DEF H!Message
<1> QED
  BY <1>3, <1>4, <1>5, <1>6 DEF OwnTypes, H!Sends

\* schedule_handshake_retry.
LEMMA RetryTypes ==
    ASSUME OwnTypes, NEW n \in H!Node, H!ScheduleHandshakeRetry(n)
    PROVE  OwnTypes'
<1>1. 0 \in 0 .. MaxQueued /\ 0 \in 0 .. MaxCandidateAttempts
  BY PeerAssumption
<1> QED
  BY <1>1, IdlePeer DEF OwnTypes, H!ScheduleHandshakeRetry, H!ClearQueue

\* A pass over an idle peer.
LEMMA IdlePassTypes ==
    ASSUME OwnTypes, NEW n \in H!Node, NEW t \in 0 .. MaxCandidateAttempts, NEW b \in BOOLEAN,
           NEW q \in 0 .. MaxQueued, H!IdlePass(n, t, b, q)
    PROVE  OwnTypes'
<1>1. CASE H!ScheduleHandshakeRetry(n)
  BY <1>1, RetryTypes
<1>2. CASE /\ H!BeginClientHandshake(n, t)
           /\ backoff' = [backoff EXCEPT ![n] = b]
           /\ queue' = [queue EXCEPT ![n] = q]
  BY <1>2, BeginTypes DEF OwnTypes
<1>3. CASE /\ peer' = [peer EXCEPT ![n] = H!Idle]
           /\ tries' = [tries EXCEPT ![n] = t]
           /\ backoff' = [backoff EXCEPT ![n] = b]
           /\ queue' = [queue EXCEPT ![n] = q]
           /\ UNCHANGED <<hellos, messages>>
  BY <1>3, IdlePeer DEF OwnTypes
<1> QED
  BY <1>1, <1>2, <1>3 DEF H!IdlePass

\* The other types: what a server remembers and what outlives a handshake.
LEMMA TypesSplit ==
    H!TypeOK <=>
        /\ OwnTypes
        /\ recent \in [H!Node -> Seq(H!Hello)]
        /\ \A n \in H!Node : Len(recent[n]) <= MaxRecentHellos
        /\ replies \in [H!Node -> 0 .. MaxReplies]
        /\ exited \in [H!Node -> BOOLEAN]
        /\ configuration \in 0 .. MaxConfigurations
        /\ restarts \in [H!Node -> 0 .. MaxRestarts]
        /\ installed \in [H!Node -> [once : SUBSET H!Session, again : SUBSET H!Session]]
BY DEF OwnTypes, H!TypeOK

\* Steps of an end that leave its server part and its lifetime alone.
LEMMA OwnStepTypes ==
    ASSUME H!TypeOK, OwnTypes',
           UNCHANGED <<recent, replies, exited, configuration, restarts, installed>>
    PROVE  H!TypeOK'
BY DEF OwnTypes, H!TypeOK

\* One more hello in the cache keeps it a list of hellos within its limit
\* (remember_client_hello).
LEMMA RememberTypes ==
    ASSUME NEW list \in Seq(H!Hello), Len(list) <= MaxRecentHellos, NEW hello \in H!Hello
    PROVE  /\ H!Remember(list, hello) \in Seq(H!Hello)
           /\ Len(H!Remember(list, hello)) <= MaxRecentHellos
           /\ Len(list) < MaxRecentHellos => Len(H!Remember(list, hello)) = Len(list) + 1
           /\ Len(list) = MaxRecentHellos => Len(H!Remember(list, hello)) = Len(list)
<1>1. MaxRecentHellos \in Nat \ {0} /\ Len(list) \in Nat
  BY PeerAssumption
<1>2. CASE Len(list) >= MaxRecentHellos
  <2>1. H!Remember(list, hello) = Append(Tail(list), hello)
    BY <1>2 DEF H!Remember
  <2>2. list # <<>> /\ Tail(list) \in Seq(H!Hello) /\ Len(Tail(list)) = Len(list) - 1
    BY <1>1, <1>2
  <2>3. /\ Append(Tail(list), hello) \in Seq(H!Hello)
        /\ Len(Append(Tail(list), hello)) = Len(list)
    BY <2>2
  <2>4. /\ H!Remember(list, hello) \in Seq(H!Hello)
        /\ Len(H!Remember(list, hello)) = Len(list)
    BY <2>1, <2>3
  <2> QED
    BY <1>1, <1>2, <2>4
<1>3. CASE ~(Len(list) >= MaxRecentHellos)
  <2>1. H!Remember(list, hello) = Append(list, hello)
    BY <1>3 DEF H!Remember
  <2> QED
    BY <1>1, <1>3, <2>1
<1> QED
  BY <1>2, <1>3

\* A hello that is accepted: the new reply is within its bound.
LEMMA AcceptTypes ==
    ASSUME H!TypeOK, NEW n \in H!Node, NEW m \in messages, H!AcceptClientHello(n, m)
    PROVE  H!TypeOK'
<1>1. m \in H!Message /\ m.hello \in H!Hello
  BY MessageFields DEF H!TypeOK
<1>2. replies[n] + 1 \in 1 .. MaxReplies /\ replies[n] + 1 \in 0 .. MaxReplies
  BY PeerAssumption DEF H!TypeOK, H!AcceptClientHello
<1>3. replies' \in [H!Node -> 0 .. MaxReplies]
  BY <1>2 DEF H!TypeOK, H!AcceptClientHello, H!Accept
<1>4. peer' \in [H!Node -> H!PeerState]
  BY <1>1, <1>2, MadePeer DEF H!TypeOK, H!AcceptClientHello, H!Accept, H!Becomes
<1>5. [type |-> "ServerHello", hello |-> m.hello, reply |-> replies[n] + 1] \in H!Message
  BY <1>1, <1>2 DEF H!Message
<1>6. messages' \subseteq H!Message
  BY <1>5 DEF H!TypeOK, H!AcceptClientHello, H!Accept, H!Sends
<1>7. recent[n] \in Seq(H!Hello) /\ Len(recent[n]) <= MaxRecentHellos
  BY DEF H!TypeOK
<1>8. /\ H!Remember(recent[n], m.hello) \in Seq(H!Hello)
      /\ Len(H!Remember(recent[n], m.hello)) <= MaxRecentHellos
  BY <1>1, <1>7, RememberTypes
<1>9. /\ recent' \in [H!Node -> Seq(H!Hello)]
      /\ \A k \in H!Node : Len(recent'[k]) <= MaxRecentHellos
  BY <1>8 DEF H!TypeOK, H!AcceptClientHello
<1> QED
  BY <1>3, <1>4, <1>6, <1>9 DEF H!TypeOK, H!AcceptClientHello, H!Lifetime

\* handle_server_hello.
LEMMA ServerHelloTypes ==
    ASSUME H!TypeOK, NEW n \in H!Node, NEW m \in messages, H!ReceiveServerHello(n, m)
    PROVE  H!TypeOK'
<1>1. m \in H!Message
  BY DEF H!TypeOK
<1>2. m.hello \in H!Hello /\ m.reply \in 1 .. MaxReplies
  BY <1>1, MessageFields DEF H!ReceiveServerHello
<1>3. CASE H!AcceptServerHello(n, m) /\ UNCHANGED queue
  <2>1. peer' \in [H!Node -> H!PeerState]
    BY <1>2, <1>3, MadePeer DEF H!TypeOK, H!AcceptServerHello, H!Becomes
  <2>2. [type |-> "ClientFinish", hello |-> m.hello, reply |-> m.reply] \in H!Message
    BY <1>2 DEF H!Message
  <2>3. messages' \subseteq H!Message
    BY <1>3, <2>2 DEF H!TypeOK, H!AcceptServerHello, H!Sends
  <2> QED
    BY <1>3, <2>1, <2>3 DEF H!TypeOK, H!ReceiveServerHello, H!ServerPart, H!Lifetime
<1>4. CASE H!ClearQueue(n) /\ UNCHANGED messages
  <2>1. 0 \in 0 .. MaxQueued
    BY PeerAssumption
  <2> QED
    BY <1>4, <2>1, IdlePeer
    DEF H!TypeOK, H!ReceiveServerHello, H!ClearQueue, H!ServerPart, H!Lifetime
<1> QED
  BY <1>3, <1>4 DEF H!ReceiveServerHello

\* A finish either installs the session or ends the handshake.
LEMMA FinishTypes ==
    ASSUME H!TypeOK, NEW n \in H!Node, NEW m \in messages,
           H!ReceiveClientFinish(n, m) \/ H!ReceiveServerFinish(n, m)
    PROVE  H!TypeOK'
<1>1. m \in H!Message
  BY DEF H!TypeOK
<1>2. m.hello \in H!Hello /\ m.reply \in 1 .. MaxReplies
  BY <1>1, MessageFields DEF H!ReceiveClientFinish, H!ReceiveServerFinish
<1>3. 0 \in 0 .. MaxQueued /\ 0 \in 0 .. MaxCandidateAttempts
  BY PeerAssumption
<1>4. UNCHANGED <<recent, replies, hellos, exited, configuration, restarts>>
  BY DEF H!ReceiveClientFinish, H!ReceiveServerFinish, H!Lifetime
<1>5. CASE H!InstallSession(n, m) /\ (H!Sends("ServerFinish", m.hello, m.reply) \/ UNCHANGED messages)
  <2>1. peer' \in [H!Node -> H!PeerState]
    BY <1>2, <1>5, MadePeer DEF H!TypeOK, H!InstallSession, H!Becomes
  <2>2. [type |-> "ServerFinish", hello |-> m.hello, reply |-> m.reply] \in H!Message
    BY <1>2 DEF H!Message
  <2>3. messages' \subseteq H!Message
    BY <1>5, <2>2 DEF H!TypeOK, H!Sends
  <2>4. [hello |-> m.hello, reply |-> m.reply] \in H!Session
    BY <1>2 DEF H!Session
  <2> DEFINE session == [hello |-> m.hello, reply |-> m.reply]
             r == [once  |-> installed[n].once \cup {session},
                   again |-> installed[n].again \cup (installed[n].once \cap {session})]
  <2>5. installed' = [installed EXCEPT ![n] = r]
    BY <1>5 DEF H!InstallSession, H!Records
  <2>6. r \in [once : SUBSET H!Session, again : SUBSET H!Session]
    BY <2>4 DEF H!TypeOK
  <2> HIDE DEF session, r
  <2>7. installed' \in [H!Node -> [once : SUBSET H!Session, again : SUBSET H!Session]]
    BY <2>5, <2>6 DEF H!TypeOK
  <2> QED
    BY <1>3, <1>4, <1>5, <2>1, <2>3, <2>7 DEF H!TypeOK, H!InstallSession
<1>6. CASE H!AbandonHandshake(n)
  BY <1>3, <1>4, <1>6, IdlePeer DEF H!TypeOK, H!AbandonHandshake, H!ClearQueue
<1> QED
  BY <1>5, <1>6 DEF H!ReceiveClientFinish, H!ReceiveServerFinish, H!AcceptClientFinish, H!AcceptServerFinish

\* maintain.
LEMMA MaintainTypes ==
    ASSUME H!TypeOK, NEW n \in H!Node, H!Maintain(n)
    PROVE  H!TypeOK'
<1>1. OwnTypes
  BY TypesSplit
<1>2. tries[n] \in 0 .. MaxCandidateAttempts /\ backoff[n] \in BOOLEAN /\ queue[n] \in 0 .. MaxQueued
  BY <1>1 DEF OwnTypes
<1>3. CASE H!Retransmit(n)
  <2> DEFINE p == [peer[n] EXCEPT !.attempts = @ + 1]
  <2>1. peer[n] \in H!PeerState
    BY <1>1 DEF OwnTypes
  <2>2. peer[n].attempts + 1 \in 1 .. MaxAttempts
    BY <1>3, <2>1, PeerFields, PeerAssumption DEF H!Retransmit
  <2>3. p \in H!PeerState
    BY <1>3, <2>1, <2>2 DEF H!PeerState, H!Retransmit, H!Pending, H!Idle
  <2>4. peer' = [peer EXCEPT ![n] = p]
    BY <1>3 DEF H!Retransmit
  <2> HIDE DEF p
  <2>5. OwnTypes'
    BY <1>1, <1>3, <2>3, <2>4 DEF OwnTypes, H!Retransmit
  <2> QED
    BY <2>5, OwnStepTypes DEF H!Maintain, H!ServerPart, H!Lifetime
<1>4. CASE H!ClientExpires(n)
  <2>1. ASSUME H!BeginClientHandshake(n, tries[n]), UNCHANGED <<backoff, queue>> PROVE OwnTypes'
    BY <1>1, <1>2, <2>1, BeginTypes DEF OwnTypes
  <2>2. ASSUME H!ScheduleHandshakeRetry(n) PROVE OwnTypes'
    BY <1>1, <2>2, RetryTypes
  <2>3. OwnTypes'
    BY <1>4, <2>1, <2>2 DEF H!ClientExpires
  <2> QED
    BY <2>3, OwnStepTypes DEF H!Maintain, H!ServerPart, H!Lifetime
<1>5. CASE H!IdlePass(n, tries[n], backoff[n], queue[n])
  <2>1. OwnTypes'
    BY <1>1, <1>2, <1>5, IdlePassTypes
  <2> QED
    BY <2>1, OwnStepTypes DEF H!Maintain, H!ServerPart, H!Lifetime
<1> QED
  BY <1>3, <1>4, <1>5 DEF H!Maintain, H!ServerExpires

\* apply_configuration.
LEMMA ConfigurationTypes ==
    ASSUME H!TypeOK, NEW n \in H!Node, NEW policyChanged \in BOOLEAN,
           NEW candidatesChanged \in BOOLEAN,
           H!ApplyConfiguration(n, policyChanged, candidatesChanged)
    PROVE  H!TypeOK'
<1>1. OwnTypes
  BY TypesSplit
<1>2. tries[n] \in 0 .. MaxCandidateAttempts /\ backoff[n] \in BOOLEAN /\ queue[n] \in 0 .. MaxQueued
  BY <1>1 DEF OwnTypes
<1>3. 0 \in 0 .. MaxQueued /\ 0 \in 0 .. MaxCandidateAttempts
  BY PeerAssumption
<1> DEFINE q == IF policyChanged THEN 0 ELSE queue[n]
<1>4. q \in 0 .. MaxQueued
  BY <1>2, <1>3
<1>5. \/ H!IdlePass(n, 0, FALSE, q)
      \/ H!IdlePass(n, tries[n], backoff[n], q)
      \/ UNCHANGED <<peer, tries, backoff, queue, hellos, messages>>
  BY DEF H!ApplyConfiguration
<1> HIDE DEF q
<1>6. OwnTypes'
  <2>1. CASE H!IdlePass(n, 0, FALSE, q)
    BY <1>1, <1>3, <1>4, <2>1, IdlePassTypes
  <2>2. CASE H!IdlePass(n, tries[n], backoff[n], q)
    BY <1>1, <1>2, <1>4, <2>2, IdlePassTypes
  <2>3. CASE UNCHANGED <<peer, tries, backoff, queue, hellos, messages>>
    BY <1>1, <2>3 DEF OwnTypes
  <2> QED
    BY <1>5, <2>1, <2>2, <2>3
<1>7. configuration' \in 0 .. MaxConfigurations
  BY PeerAssumption DEF H!TypeOK, H!ApplyConfiguration
<1> QED
  BY <1>6, <1>7 DEF H!TypeOK, OwnTypes, H!ApplyConfiguration, H!ServerPart

\* The agent is started again.
LEMMA RestartTypes ==
    ASSUME H!TypeOK, NEW n \in H!Node, H!Restart(n)
    PROVE  H!TypeOK'
<1>1. 0 \in 0 .. MaxQueued /\ 0 \in 0 .. MaxCandidateAttempts
  BY PeerAssumption
<1>2. restarts[1] \in Nat /\ restarts[2] \in Nat /\ restarts[1] + restarts[2] < MaxRestarts
  BY PeerAssumption DEF H!TypeOK, H!Restart, H!Node
<1>3. restarts[n] + 1 \in 0 .. MaxRestarts
  BY <1>2, PeerAssumption DEF H!Node
<1>4. restarts' \in [H!Node -> 0 .. MaxRestarts]
  BY <1>3 DEF H!TypeOK, H!Restart
<1>5. /\ recent' \in [H!Node -> Seq(H!Hello)]
      /\ \A k \in H!Node : Len(recent'[k]) <= MaxRecentHellos
  <2>1. <<>> \in Seq(H!Hello) /\ Len(<<>>) <= MaxRecentHellos
    BY PeerAssumption
  <2> QED
    BY <2>1 DEF H!TypeOK, H!Restart
<1> QED
  BY <1>1, <1>4, <1>5, IdlePeer DEF H!TypeOK, H!Restart

\* Every step keeps the types.
LEMMA HandshakeTypesStep ==
    ASSUME H!TypeOK, H!Next
    PROVE  H!TypeOK'
<1>1. PICK n \in H!Node :
        \/ H!QueueTun(n)
        \/ H!StartByTun(n)
        \/ H!Maintain(n)
        \/ H!RelayFails(n)
        \/ H!BackoffEnds(n)
        \/ \E policyChanged, candidatesChanged \in BOOLEAN :
               H!ApplyConfiguration(n, policyChanged, candidatesChanged)
        \/ H!Restart(n)
        \/ \E m \in messages : H!Handle(n, m)
  BY DEF H!Next
<1>2. OwnTypes
  BY TypesSplit
<1>3. tries[n] \in 0 .. MaxCandidateAttempts /\ backoff[n] \in BOOLEAN /\ queue[n] \in 0 .. MaxQueued
  BY <1>2 DEF OwnTypes
<1>4. queue[n] < MaxQueued => queue[n] + 1 \in 0 .. MaxQueued
  BY <1>3, PeerAssumption
<1>5. CASE H!QueueTun(n)
  <2>1. OwnTypes'
    BY <1>2, <1>4, <1>5 DEF OwnTypes, H!QueueTun
  <2> QED
    BY <1>5, <2>1, OwnStepTypes DEF H!QueueTun, H!ServerPart, H!Lifetime
<1>6. CASE H!StartByTun(n)
  <2>1. queue' \in [H!Node -> 0 .. MaxQueued] /\ UNCHANGED backoff
    BY <1>2, <1>4, <1>6 DEF OwnTypes, H!StartByTun
  <2>2. CASE H!BeginClientHandshake(n, tries[n]) /\ UNCHANGED exited
    <3>1. OwnTypes'
      BY <1>2, <1>3, <2>1, <2>2, BeginTypes DEF OwnTypes
    <3> QED
      BY <1>6, <2>2, <3>1, OwnStepTypes DEF H!StartByTun, H!ServerPart
  <2>3. CASE /\ exited' = [exited EXCEPT ![n] = TRUE]
             /\ UNCHANGED <<peer, tries, hellos, messages>>
    BY <1>6, <2>1, <2>3 DEF H!TypeOK, H!StartByTun, H!ServerPart
  <2> QED
    BY <1>6, <2>2, <2>3 DEF H!StartByTun
<1>7. CASE H!RelayFails(n)
  <2>1. H!IdlePass(n, 0, FALSE, queue[n])
    BY <1>7 DEF H!RelayFails
  <2>2. 0 \in 0 .. MaxCandidateAttempts
    BY PeerAssumption
  <2>3. OwnTypes'
    BY <1>2, <1>3, <2>1, <2>2, IdlePassTypes
  <2> QED
    BY <1>7, <2>3, OwnStepTypes DEF H!RelayFails, H!ServerPart, H!Lifetime
<1>8. CASE H!BackoffEnds(n)
  <2>1. OwnTypes'
    BY <1>2, <1>8 DEF OwnTypes, H!BackoffEnds
  <2> QED
    BY <1>8, <2>1, OwnStepTypes DEF H!BackoffEnds, H!ServerPart, H!Lifetime
<1>9. CASE \E m \in messages : H!Handle(n, m)
  BY <1>9, AcceptTypes, ServerHelloTypes, FinishTypes DEF H!Handle
<1> QED
  BY <1>1, <1>5, <1>6, <1>7, <1>8, <1>9, MaintainTypes, ConfigurationTypes, RestartTypes

-------------------------------------------------------------------------------
\* A client's state is about its own hello, a pending server's about its peer's.
Roles ==
    \A n \in H!Node :
        /\ peer[n].phase \in H!ClientPhase => peer[n].hello.client = n
        /\ peer[n].phase = "ServerHello" => peer[n].hello.client = H!Peer(n)

\* Hellos and replies that messages and installed sessions carry have been made.
Issued(hello, reply) ==
    hello.id <= hellos[hello.client] /\ reply <= replies[H!Peer(hello.client)]
IssuedOnly ==
    /\ \A m \in messages : Issued(m.hello, m.reply)
    /\ \A n \in H!Node : \A s \in installed[n].once : Issued(s.hello, s.reply)

\* What an end may still install it has not installed: a server's own pair of
\* hellos, and of a client's hello no pair at all.
NotYetInstalled ==
    \A n \in H!Node :
        /\ installed[n].again = {}
        /\ peer[n].phase = "ServerHello" => H!SessionOf(n) \notin installed[n].once
        /\ peer[n].phase \in H!ClientPhase => \A s \in installed[n].once : s.hello # peer[n].hello

\* A ServerFinish is sent by the end that has installed its session.
FinishConfirms ==
    \A m \in messages :
        m.type = "ServerFinish"
            => [hello |-> m.hello, reply |-> m.reply] \in installed[H!Peer(m.hello.client)].once

\* The cache of a server that never restarted holds the hellos of its latest
\* replies, in their order.
CacheLength(n) ==
    /\ replies[n] <= MaxRecentHellos => Len(recent[n]) = replies[n]
    /\ replies[n] > MaxRecentHellos => Len(recent[n]) = MaxRecentHellos
CacheHolds(n, m) ==
    replies[n] - m.reply < MaxRecentHellos
        => recent[n][Len(recent[n]) - (replies[n] - m.reply)] = m.hello
CacheTracks ==
    \A n \in H!Node : restarts[n] = 0 =>
        /\ CacheLength(n)
        /\ \A m \in messages : m.type = "ServerHello" /\ m.hello.client = H!Peer(n) => CacheHolds(n, m)

\* The inductive invariant of the handshake.
HandshakeInv ==
    /\ H!TypeOK
    /\ Roles
    /\ IssuedOnly
    /\ NotYetInstalled
    /\ FinishConfirms
    /\ H!KeyConfirmation
    /\ CacheTracks
    /\ H!HelloAcceptedOnce

-------------------------------------------------------------------------------
\* The steps as the invariant sees them.  A step of end n that ends a handshake
\* or goes on with it:
OthersKeepState(n) == \A k \in H!Node : k # n => peer'[k] = peer[k]
Calm(n) ==
    /\ OthersKeepState(n)
    /\ \/ peer'[n] = H!Idle
       \/ /\ peer'[n].phase = peer[n].phase
          /\ peer'[n].hello = peer[n].hello
          /\ peer'[n].reply = peer[n].reply
    /\ UNCHANGED <<hellos, replies, recent, restarts, messages, installed>>

\* A step that makes a new hello:
NewHello(n) == [client |-> n, id |-> hellos[n] + 1]
Starts(n) ==
    /\ OthersKeepState(n)
    /\ peer'[n].phase = "ClientHello" /\ peer'[n].hello = NewHello(n)
    /\ hellos' = [hellos EXCEPT ![n] = hellos[n] + 1]
    /\ messages' = messages \cup {[type |-> "ClientHello", hello |-> NewHello(n), reply |-> 0]}
    /\ UNCHANGED <<replies, recent, restarts, installed>>

\* A step that makes the client answer a ServerHello:
Answers(n, m) ==
    /\ OthersKeepState(n)
    /\ peer[n].phase = "ClientHello" /\ m.hello = peer[n].hello
    /\ peer'[n].phase = "ClientFinish" /\ peer'[n].hello = m.hello
    /\ messages' = messages \cup {[type |-> "ClientFinish", hello |-> m.hello, reply |-> m.reply]}
    /\ UNCHANGED <<hellos, replies, recent, restarts, installed>>

\* A step that installs the session of message m:
Installs(n, m) ==
    /\ OthersKeepState(n)
    /\ peer'[n].phase = "Established"
    /\ peer'[n].hello = m.hello /\ peer'[n].reply = m.reply
    /\ H!Matches(n, m)
    /\ \A k \in H!Node : k # n => installed'[k] = installed[k]
    /\ installed'[n].once = installed[n].once \cup {[hello |-> m.hello, reply |-> m.reply]}
    /\ installed'[n].again = installed[n].again
                             \cup (installed[n].once \cap {[hello |-> m.hello, reply |-> m.reply]})
    /\ UNCHANGED <<hellos, replies, recent, restarts>>
InstallsAsServer(n, m) ==
    /\ peer[n].phase = "ServerHello"
    /\ m.hello.client = H!Peer(n)
    /\ messages' = messages \cup {[type |-> "ServerFinish", hello |-> m.hello, reply |-> m.reply]}
    /\ Installs(n, m)
InstallsAsClient(n, m) ==
    /\ peer[n].phase = "ClientFinish"
    /\ m.hello.client = n
    /\ m.type = "ServerFinish"
    /\ UNCHANGED messages
    /\ Installs(n, m)

\* To begin a handshake is to make a new hello.
LEMMA BeginStarts ==
    ASSUME H!TypeOK, NEW n \in H!Node, NEW t, H!BeginClientHandshake(n, t),
           UNCHANGED <<replies, recent, restarts, installed>>
    PROVE  Starts(n)
BY DEF H!TypeOK, H!BeginClientHandshake, H!Becomes, H!Sends, Starts, OthersKeepState, NewHello

\* To give a handshake up is no step of it.
LEMMA RetryCalm ==
    ASSUME H!TypeOK, NEW n \in H!Node, H!ScheduleHandshakeRetry(n),
           UNCHANGED <<replies, recent, restarts, installed>>
    PROVE  Calm(n)
BY DEF H!TypeOK, H!ScheduleHandshakeRetry, H!ClearQueue, Calm, OthersKeepState

\* A pass over an idle peer begins a handshake or leaves it alone.
LEMMA IdlePassSteps ==
    ASSUME H!TypeOK, NEW n \in H!Node, NEW t, NEW b, NEW q, H!IdlePass(n, t, b, q),
           UNCHANGED <<replies, recent, restarts, installed>>
    PROVE  Calm(n) \/ Starts(n)
<1>1. CASE H!ScheduleHandshakeRetry(n)
  BY <1>1, RetryCalm
<1>2. CASE H!BeginClientHandshake(n, t)
  BY <1>2, BeginStarts
<1>3. CASE peer' = [peer EXCEPT ![n] = H!Idle] /\ UNCHANGED <<hellos, messages>>
  BY <1>3 DEF H!TypeOK, Calm, OthersKeepState
<1> QED
  BY <1>1, <1>2, <1>3 DEF H!IdlePass

\* install_session of the session of the handshake under way.
LEMMA InstallSteps ==
    ASSUME H!TypeOK, NEW n \in H!Node, NEW m, H!InstallSession(n, m), H!Matches(n, m),
           UNCHANGED <<hellos, replies, recent, restarts>>
    PROVE  Installs(n, m)
<1>1. /\ OthersKeepState(n)
      /\ peer'[n].phase = "Established" /\ peer'[n].hello = m.hello /\ peer'[n].reply = m.reply
  BY DEF H!TypeOK, H!InstallSession, H!Becomes, OthersKeepState
<1> DEFINE session == [hello |-> m.hello, reply |-> m.reply]
           r == [once  |-> installed[n].once \cup {session},
                 again |-> installed[n].again \cup (installed[n].once \cap {session})]
<1>2. installed' = [installed EXCEPT ![n] = r]
  BY DEF H!InstallSession, H!Records
<1>3. installed'[n] = r /\ \A k \in H!Node : k # n => installed'[k] = installed[k]
  BY <1>2 DEF H!TypeOK
<1> QED
  BY <1>1, <1>3 DEF Installs

\* Every step of the handshake is one of these.
LEMMA HandshakeSteps ==
    ASSUME H!TypeOK, H!Next
    PROVE  \E n \in H!Node :
              \/ Calm(n) \/ Starts(n) \/ H!Restart(n)
              \/ \E m \in messages : \/ H!AcceptClientHello(n, m)
                                     \/ Answers(n, m)
                                     \/ InstallsAsServer(n, m)
                                     \/ InstallsAsClient(n, m)
<1>1. PICK n \in H!Node :
        \/ H!QueueTun(n)
        \/ H!StartByTun(n)
        \/ H!Maintain(n)
        \/ H!RelayFails(n)
        \/ H!BackoffEnds(n)
        \/ \E policyChanged, candidatesChanged \in BOOLEAN :
               H!ApplyConfiguration(n, policyChanged, candidatesChanged)
        \/ H!Restart(n)
        \/ \E m \in messages : H!Handle(n, m)
  BY DEF H!Next
<1>2. CASE H!QueueTun(n) \/ H!BackoffEnds(n)
  BY <1>2 DEF Calm, OthersKeepState, H!QueueTun, H!BackoffEnds, H!ServerPart, H!Lifetime
<1>3. CASE H!StartByTun(n)
  <2>1. UNCHANGED <<replies, recent, restarts, installed>>
    BY <1>3 DEF H!StartByTun, H!ServerPart
  <2>2. CASE H!BeginClientHandshake(n, tries[n])
    BY <2>1, <2>2, BeginStarts
  <2>3. CASE UNCHANGED <<peer, hellos, messages>>
    BY <2>1, <2>3 DEF Calm, OthersKeepState
  <2> QED
    BY <1>3, <2>2, <2>3 DEF H!StartByTun
<1>4. CASE H!Maintain(n)
  <2>1. UNCHANGED <<replies, recent, restarts, installed>>
    BY <1>4 DEF H!Maintain, H!ServerPart, H!Lifetime
  <2>2. CASE H!Retransmit(n)
    <3> DEFINE p == [peer[n] EXCEPT !.attempts = @ + 1]
    <3>1. peer[n] \in H!PeerState /\ peer' = [peer EXCEPT ![n] = p]
      BY <2>2 DEF H!TypeOK, H!Retransmit
    <3>2. p.phase = peer[n].phase /\ p.hello = peer[n].hello /\ p.reply = peer[n].reply
      BY <3>1 DEF H!PeerState, H!Idle
    <3> HIDE DEF p
    <3> QED
      BY <2>1, <2>2, <3>1, <3>2 DEF H!TypeOK, H!Retransmit, Calm, OthersKeepState
  <2>3. CASE H!BeginClientHandshake(n, tries[n])
    BY <2>1, <2>3, BeginStarts
  <2>4. CASE H!ScheduleHandshakeRetry(n)
    BY <2>1, <2>4, RetryCalm
  <2>5. CASE H!IdlePass(n, tries[n], backoff[n], queue[n])
    BY <2>1, <2>5, IdlePassSteps
  <2> QED
    BY <1>4, <2>2, <2>3, <2>4, <2>5 DEF H!Maintain, H!ClientExpires, H!ServerExpires
<1>5. CASE H!RelayFails(n)
  <2>1. H!IdlePass(n, 0, FALSE, queue[n]) /\ UNCHANGED <<replies, recent, restarts, installed>>
    BY <1>5 DEF H!RelayFails, H!ServerPart, H!Lifetime
  <2> QED
    BY <2>1, IdlePassSteps
<1>6. ASSUME NEW policyChanged \in BOOLEAN, NEW candidatesChanged \in BOOLEAN,
             H!ApplyConfiguration(n, policyChanged, candidatesChanged)
      PROVE  Calm(n) \/ Starts(n)
  <2> DEFINE q == IF policyChanged THEN 0 ELSE queue[n]
  <2>1. \/ H!IdlePass(n, 0, FALSE, q)
        \/ H!IdlePass(n, tries[n], backoff[n], q)
        \/ UNCHANGED <<peer, hellos, messages>>
    BY <1>6 DEF H!ApplyConfiguration
  <2>2. UNCHANGED <<replies, recent, restarts, installed>>
    BY <1>6 DEF H!ApplyConfiguration, H!ServerPart
  <2> HIDE DEF q
  <2>3. CASE UNCHANGED <<peer, hellos, messages>>
    BY <2>2, <2>3 DEF Calm, OthersKeepState
  <2> QED
    BY <2>1, <2>2, <2>3, IdlePassSteps
<1>7. ASSUME NEW m \in messages, H!ReceiveServerHello(n, m) PROVE Calm(n) \/ Answers(n, m)
  <2>1. UNCHANGED <<hellos, replies, recent, restarts, installed>>
    BY <1>7 DEF H!ReceiveServerHello, H!ServerPart, H!Lifetime
  <2>2. CASE m.hello = peer[n].hello /\ H!AcceptServerHello(n, m)
    BY <1>7, <2>1, <2>2
    DEF H!TypeOK, H!ReceiveServerHello, H!AcceptServerHello, H!Becomes, H!Sends, Answers, OthersKeepState
  <2>3. CASE H!ClearQueue(n) /\ UNCHANGED messages
    BY <2>1, <2>3 DEF H!TypeOK, H!ClearQueue, Calm, OthersKeepState
  <2> QED
    BY <1>7, <2>2, <2>3 DEF H!ReceiveServerHello
<1>8. ASSUME H!AbandonHandshake(n), UNCHANGED <<hellos, replies, recent, restarts>> PROVE Calm(n)
  BY <1>8 DEF H!TypeOK, H!AbandonHandshake, H!ClearQueue, Calm, OthersKeepState
<1>9. ASSUME NEW m \in messages, H!ReceiveClientFinish(n, m) PROVE Calm(n) \/ InstallsAsServer(n, m)
  <2>1. UNCHANGED <<hellos, replies, recent, restarts>>
    BY <1>9 DEF H!ReceiveClientFinish, H!Lifetime
  <2>2. CASE H!Matches(n, m) /\ H!AcceptClientFinish(n, m)
    <3>1. Installs(n, m)
      BY <2>1, <2>2, InstallSteps DEF H!AcceptClientFinish
    <3> QED
      BY <1>9, <2>2, <3>1 DEF H!ReceiveClientFinish, H!AcceptClientFinish, H!Sends, InstallsAsServer
  <2> QED
    BY <1>8, <1>9, <2>1, <2>2 DEF H!ReceiveClientFinish
<1>10. ASSUME NEW m \in messages, H!ReceiveServerFinish(n, m) PROVE Calm(n) \/ InstallsAsClient(n, m)
  <2>1. UNCHANGED <<hellos, replies, recent, restarts>>
    BY <1>10 DEF H!ReceiveServerFinish, H!Lifetime
  <2>2. CASE H!Matches(n, m) /\ H!AcceptServerFinish(n, m)
    <3>1. Installs(n, m)
      BY <2>1, <2>2, InstallSteps DEF H!AcceptServerFinish
    <3> QED
      BY <1>10, <2>2, <3>1 DEF H!ReceiveServerFinish, H!AcceptServerFinish, InstallsAsClient
  <2> QED
    BY <1>8, <1>10, <2>1, <2>2 DEF H!ReceiveServerFinish
<1>11. CASE \E m \in messages : H!Handle(n, m)
  BY <1>7, <1>9, <1>10, <1>11 DEF H!Handle
<1> QED
  BY <1>1, <1>2, <1>3, <1>4, <1>5, <1>6, <1>11

-------------------------------------------------------------------------------
\* What the types say of the two counters.
LEMMA Counters ==
    ASSUME H!TypeOK
    PROVE  /\ \A n \in H!Node : hellos[n] \in Nat /\ replies[n] \in Nat
           /\ \A m \in messages : m.hello.client \in H!Node /\ m.hello.id \in Nat /\ m.reply \in Nat
           /\ \A n \in H!Node : \A s \in installed[n].once :
                 s.hello.client \in H!Node /\ s.hello.id \in Nat /\ s.reply \in Nat
<1>1. \A n \in H!Node : hellos[n] \in Nat /\ replies[n] \in Nat
  BY PeerAssumption DEF H!TypeOK
<1>2. ASSUME NEW m \in messages PROVE m.hello.client \in H!Node /\ m.hello.id \in Nat /\ m.reply \in Nat
  <2>1. m \in H!Message
    BY DEF H!TypeOK
  <2> QED
    BY <2>1, MessageFields, PeerAssumption
<1>3. ASSUME NEW n \in H!Node, NEW s \in installed[n].once
      PROVE  s.hello.client \in H!Node /\ s.hello.id \in Nat /\ s.reply \in Nat
  <2>1. s \in H!Session
    BY DEF H!TypeOK
  <2> QED
    BY <2>1, PeerAssumption DEF H!Session, H!Hello
<1> QED
  BY <1>1, <1>2, <1>3

\* The parts that speak of messages, hellos and the cache survive steps that
\* leave those alone.
LEMMA CalmKeeps ==
    ASSUME HandshakeInv, NEW n \in H!Node, Calm(n), H!TypeOK'
    PROVE  HandshakeInv'
<1>1. /\ hellos' = hellos /\ replies' = replies /\ recent' = recent /\ restarts' = restarts
      /\ messages' = messages /\ installed' = installed
  BY DEF Calm
<1>2. IssuedOnly' /\ FinishConfirms'
  BY <1>1 DEF HandshakeInv, IssuedOnly, Issued, FinishConfirms
<1>3. CacheTracks' /\ H!HelloAcceptedOnce'
  BY <1>1 DEF HandshakeInv, CacheTracks, CacheLength, CacheHolds, H!HelloAcceptedOnce
<1>4. ASSUME NEW k \in H!Node
      PROVE  \/ peer'[k].phase = "Idle"
             \/ peer'[k].phase = peer[k].phase /\ peer'[k].hello = peer[k].hello
                /\ peer'[k].reply = peer[k].reply
  BY DEF Calm, OthersKeepState, H!Idle
<1>5. Roles'
  BY <1>4 DEF HandshakeInv, Roles, H!ClientPhase
<1>6. NotYetInstalled'
  BY <1>1, <1>4 DEF HandshakeInv, NotYetInstalled, H!ClientPhase, H!SessionOf
<1>7. H!KeyConfirmation'
  BY <1>1, <1>4 DEF HandshakeInv, H!KeyConfirmation, H!SessionOf
<1> QED
  BY <1>2, <1>3, <1>5, <1>6, <1>7 DEF HandshakeInv

\* A new hello was never sent before, so no session of it is installed.
LEMMA StartKeeps ==
    ASSUME HandshakeInv, NEW n \in H!Node, Starts(n), H!TypeOK'
    PROVE  HandshakeInv'
<1> DEFINE msg == [type |-> "ClientHello", hello |-> NewHello(n), reply |-> 0]
<1>1. /\ replies' = replies /\ recent' = recent /\ restarts' = restarts /\ installed' = installed
      /\ messages' = messages \cup {msg}
      /\ hellos' = [hellos EXCEPT ![n] = hellos[n] + 1]
      /\ peer'[n].phase = "ClientHello" /\ peer'[n].hello = NewHello(n)
  BY DEF Starts
<1>2. msg.type = "ClientHello" /\ msg.hello = NewHello(n) /\ msg.reply = 0
  OBVIOUS
<1>3. NewHello(n).client = n /\ NewHello(n).id = hellos[n] + 1
  BY DEF NewHello
<1> HIDE DEF msg
<1>4. H!TypeOK
  BY DEF HandshakeInv
<1>5. hellos'[n] = hellos[n] + 1 /\ \A k \in H!Node : k # n => hellos'[k] = hellos[k]
  BY <1>1, <1>4 DEF H!TypeOK
<1>6. \A k \in H!Node : hellos[k] \in Nat /\ hellos'[k] \in Nat /\ hellos'[k] >= hellos[k]
                        /\ replies[k] \in Nat
  <2>1. \A k \in H!Node : hellos[k] \in Nat /\ replies[k] \in Nat
    BY <1>4, Counters
  <2> QED
    BY <1>5, <2>1
<1>7. IssuedOnly'
  <2>1. msg.hello.id <= hellos'[msg.hello.client] /\ msg.reply <= replies'[H!Peer(msg.hello.client)]
    BY <1>1, <1>2, <1>3, <1>5, <1>6, EndsOfHandshake
  <2>2. ASSUME NEW m \in messages PROVE Issued(m.hello, m.reply)'
    BY <1>1, <1>4, <1>6, Counters DEF HandshakeInv, IssuedOnly, Issued
  <2>3. ASSUME NEW k \in H!Node, NEW s \in installed[k].once PROVE Issued(s.hello, s.reply)'
    BY <1>1, <1>4, <1>6, Counters DEF HandshakeInv, IssuedOnly, Issued
  <2>4. \A m \in messages' : Issued(m.hello, m.reply)'
    BY <1>1, <2>1, <2>2 DEF Issued
  <2> QED
    BY <1>1, <2>3, <2>4 DEF IssuedOnly
<1>8. Roles'
  BY <1>1, <1>3 DEF HandshakeInv, Roles, Starts, OthersKeepState
<1>9. \A s \in installed[n].once : s.hello # NewHello(n)
  BY <1>3, <1>4, <1>6, Counters DEF HandshakeInv, IssuedOnly, Issued
<1>10. NotYetInstalled'
  BY <1>1, <1>9 DEF HandshakeInv, NotYetInstalled, H!SessionOf, Starts, OthersKeepState
<1>11. FinishConfirms'
  BY <1>1, <1>2 DEF HandshakeInv, FinishConfirms
<1>12. H!KeyConfirmation'
  BY <1>1 DEF HandshakeInv, H!KeyConfirmation, H!SessionOf, Starts, OthersKeepState
<1>13. CacheTracks' /\ H!HelloAcceptedOnce'
  BY <1>1, <1>2 DEF HandshakeInv, CacheTracks, CacheLength, CacheHolds, H!HelloAcceptedOnce
<1> QED
  BY <1>7, <1>8, <1>10, <1>11, <1>12, <1>13 DEF HandshakeInv

\* A restart forgets the cache, and says so.
LEMMA RestartKeeps ==
    ASSUME HandshakeInv, NEW n \in H!Node, H!Restart(n), H!TypeOK'
    PROVE  HandshakeInv'
<1>1. hellos' = hellos /\ replies' = replies /\ messages' = messages /\ installed' = installed
  BY DEF H!Restart
<1>2. /\ peer'[n] = H!Idle
      /\ \A k \in H!Node : k # n => peer'[k] = peer[k] /\ recent'[k] = recent[k] /\ restarts'[k] = restarts[k]
  BY DEF HandshakeInv, H!TypeOK, H!Restart
<1>3. restarts'[n] # 0
  <2>1. restarts[n] \in Nat /\ restarts'[n] = restarts[n] + 1
    BY PeerAssumption DEF HandshakeInv, H!TypeOK, H!Restart
  <2> QED
    BY <2>1
<1>4. peer'[n].phase = "Idle"
  BY <1>2 DEF H!Idle
<1>5. Roles' /\ NotYetInstalled' /\ H!KeyConfirmation'
  <2>1. Roles'
    BY <1>2, <1>4 DEF HandshakeInv, Roles, H!ClientPhase
  <2>2. NotYetInstalled'
    BY <1>1, <1>2, <1>4 DEF HandshakeInv, NotYetInstalled, H!SessionOf, H!ClientPhase
  <2>3. H!KeyConfirmation'
    BY <1>1, <1>2, <1>4 DEF HandshakeInv, H!KeyConfirmation, H!SessionOf
  <2> QED
    BY <2>1, <2>2, <2>3
<1>6. IssuedOnly' /\ FinishConfirms'
  BY <1>1 DEF HandshakeInv, IssuedOnly, Issued, FinishConfirms
<1>7. CacheTracks'
  BY <1>1, <1>2, <1>3 DEF HandshakeInv, CacheTracks, CacheLength, CacheHolds
<1>8. H!HelloAcceptedOnce'
  <2>1. \A m \in messages : H!Peer(m.hello.client) \in H!Node
    BY Counters, EndsOfHandshake DEF HandshakeInv
  <2> QED
    BY <1>1, <1>2, <1>3, <2>1 DEF HandshakeInv, H!HelloAcceptedOnce
<1> QED
  BY <1>5, <1>6, <1>7, <1>8 DEF HandshakeInv

\* The client goes on with the hello it has sent.
LEMMA AnswerKeeps ==
    ASSUME HandshakeInv, NEW n \in H!Node, NEW m \in messages, Answers(n, m), H!TypeOK'
    PROVE  HandshakeInv'
<1> DEFINE msg == [type |-> "ClientFinish", hello |-> m.hello, reply |-> m.reply]
<1>1. /\ hellos' = hellos /\ replies' = replies /\ recent' = recent /\ restarts' = restarts
      /\ installed' = installed /\ messages' = messages \cup {msg}
      /\ peer'[n].phase = "ClientFinish" /\ peer'[n].hello = peer[n].hello
      /\ peer[n].phase = "ClientHello"
  BY DEF Answers
<1>2. msg.type = "ClientFinish" /\ msg.hello = m.hello /\ msg.reply = m.reply
  OBVIOUS
<1> HIDE DEF msg
<1>3. IssuedOnly' /\ FinishConfirms'
  BY <1>1, <1>2 DEF HandshakeInv, IssuedOnly, Issued, FinishConfirms
<1>4. Roles' /\ NotYetInstalled' /\ H!KeyConfirmation'
  <2>1. Roles'
    BY <1>1 DEF HandshakeInv, Roles, H!ClientPhase, Answers, OthersKeepState
  <2>2. NotYetInstalled'
    BY <1>1 DEF HandshakeInv, NotYetInstalled, H!SessionOf, H!ClientPhase, Answers, OthersKeepState
  <2>3. H!KeyConfirmation'
    BY <1>1 DEF HandshakeInv, H!KeyConfirmation, H!SessionOf, Answers, OthersKeepState
  <2> QED
    BY <2>1, <2>2, <2>3
<1>5. CacheTracks' /\ H!HelloAcceptedOnce'
  BY <1>1, <1>2 DEF HandshakeInv, CacheTracks, CacheLength, CacheHolds, H!HelloAcceptedOnce
<1> QED
  BY <1>3, <1>4, <1>5 DEF HandshakeInv

\* Installing: the session is new, whichever end installs it; and a client does
\* so on a ServerFinish only, which its server sent after installing.
LEMMA InstallKeeps ==
    ASSUME HandshakeInv, NEW n \in H!Node, NEW m \in messages,
           InstallsAsServer(n, m) \/ InstallsAsClient(n, m), H!TypeOK'
    PROVE  HandshakeInv'
<1> DEFINE session == [hello |-> m.hello, reply |-> m.reply]
           msg == [type |-> "ServerFinish", hello |-> m.hello, reply |-> m.reply]
<1>1. /\ hellos' = hellos /\ replies' = replies /\ recent' = recent /\ restarts' = restarts
      /\ messages' = messages \/ messages' = messages \cup {msg}
      /\ peer'[n].phase = "Established" /\ peer'[n].hello = m.hello /\ peer'[n].reply = m.reply
      /\ peer[n].hello = m.hello /\ peer[n].reply = m.reply
      /\ \A k \in H!Node : k # n => peer'[k] = peer[k] /\ installed'[k] = installed[k]
      /\ installed'[n].once = installed[n].once \cup {session}
      /\ installed'[n].again = installed[n].again \cup (installed[n].once \cap {session})
  BY DEF InstallsAsServer, InstallsAsClient, Installs, H!Matches, OthersKeepState
<1>2. /\ msg.type = "ServerFinish" /\ msg.hello = m.hello /\ msg.reply = m.reply
      /\ session.hello = m.hello /\ session.reply = m.reply
      /\ session = [hello |-> msg.hello, reply |-> msg.reply]
  OBVIOUS
<1>3. H!SessionOf(n) = session /\ H!SessionOf(n)' = session
  BY <1>1 DEF H!SessionOf
<1>4. session \notin installed[n].once
  BY <1>1, <1>2, <1>3
  DEF HandshakeInv, NotYetInstalled, InstallsAsServer, InstallsAsClient, H!ClientPhase
<1>5. H!Peer(m.hello.client) \in H!Node
  BY Counters, EndsOfHandshake DEF HandshakeInv
<1>6. messages' # messages => H!Peer(m.hello.client) = n
  BY EndsOfHandshake DEF InstallsAsServer, InstallsAsClient
<1>7. m.hello.client = n => session \in installed[H!Peer(n)].once
  BY EndsOfHandshake DEF HandshakeInv, FinishConfirms, InstallsAsServer, InstallsAsClient
<1> HIDE DEF session, msg
<1>8. IssuedOnly'
  BY <1>1, <1>2 DEF HandshakeInv, IssuedOnly, Issued
<1>9. Roles' /\ NotYetInstalled'
  BY <1>1, <1>4 DEF HandshakeInv, Roles, NotYetInstalled, H!SessionOf, H!ClientPhase
<1>10. \A k \in H!Node : installed[k].once \subseteq installed'[k].once
  BY <1>1
<1>11. FinishConfirms'
  <2>1. \A mm \in messages : H!Peer(mm.hello.client) \in H!Node
    BY Counters, EndsOfHandshake DEF HandshakeInv
  <2>2. ASSUME NEW mm \in messages', mm.type = "ServerFinish"
        PROVE  [hello |-> mm.hello, reply |-> mm.reply] \in installed'[H!Peer(mm.hello.client)].once
    <3>1. CASE mm \in messages
      BY <1>10, <2>1, <2>2, <3>1 DEF HandshakeInv, FinishConfirms
    <3>2. CASE mm \notin messages
      <4>1. mm = msg /\ messages' # messages
        BY <1>1, <3>2
      <4> QED
        BY <1>1, <1>2, <1>6, <4>1
    <3> QED
      BY <3>1, <3>2
  <2> QED
    BY <2>2 DEF FinishConfirms
<1>12. H!KeyConfirmation'
  <2>1. ASSUME NEW k \in H!Node, peer'[k].phase = "Established", peer'[k].hello.client = k
        PROVE  H!SessionOf(k)' \in installed'[H!Peer(k)].once
    <3>1. CASE k = n
      BY <1>1, <1>3, <1>7, <1>10, <2>1, <3>1, EndsOfHandshake
    <3>2. CASE k # n
      BY <1>1, <1>10, <2>1, <3>2, EndsOfHandshake DEF HandshakeInv, H!KeyConfirmation, H!SessionOf
    <3> QED
      BY <3>1, <3>2
  <2> QED
    BY <2>1 DEF H!KeyConfirmation
<1>13. CacheTracks' /\ H!HelloAcceptedOnce'
  BY <1>1, <1>2 DEF HandshakeInv, CacheTracks, CacheLength, CacheHolds, H!HelloAcceptedOnce
<1> QED
  BY <1>8, <1>9, <1>11, <1>12, <1>13 DEF HandshakeInv

\* Remembering a hello puts it last and keeps the ones before it in their
\* order, but for the oldest of a full cache (remember_client_hello).
LEMMA RememberHolds ==
    ASSUME NEW list \in Seq(H!Hello), Len(list) <= MaxRecentHellos, NEW hello \in H!Hello,
           NEW new, new = H!Remember(list, hello)
    PROVE  /\ new[Len(new)] = hello
           /\ \A d \in Nat : d + 1 < MaxRecentHellos /\ d < Len(list)
                 => new[Len(new) - (d + 1)] = list[Len(list) - d]
<1>1. MaxRecentHellos \in Nat \ {0} /\ Len(list) \in Nat
  BY PeerAssumption
<1>2. CASE Len(list) >= MaxRecentHellos
  <2> DEFINE rest == Tail(list)
  <2>1. new = Append(rest, hello) /\ Len(list) = MaxRecentHellos
    BY <1>1, <1>2 DEF H!Remember
  <2>2. rest \in Seq(H!Hello) /\ Len(rest) = Len(list) - 1
    BY <1>1, <1>2
  <2>3. \A i \in 1 .. Len(rest) : rest[i] = list[i + 1]
    BY <1>1, <1>2
  <2> HIDE DEF rest
  <2>4. Len(new) = Len(rest) + 1 /\ new[Len(rest) + 1] = hello
    BY <2>1, <2>2
  <2>5. \A i \in 1 .. Len(rest) : new[i] = rest[i]
    BY <2>1, <2>2
  <2>6. ASSUME NEW d \in Nat, d + 1 < MaxRecentHellos
        PROVE  new[Len(new) - (d + 1)] = list[Len(list) - d]
    <3>1. Len(new) - (d + 1) = Len(rest) - d /\ Len(rest) - d \in 1 .. Len(rest)
      BY <1>1, <2>1, <2>2, <2>4, <2>6
    <3>2. (Len(rest) - d) + 1 = Len(list) - d
      BY <1>1, <2>2
    <3> QED
      BY <2>3, <2>5, <3>1, <3>2
  <2> QED
    BY <2>4, <2>6
<1>3. CASE ~(Len(list) >= MaxRecentHellos)
  <2>1. new = Append(list, hello)
    BY <1>3 DEF H!Remember
  <2>2. Len(new) = Len(list) + 1 /\ new[Len(list) + 1] = hello
    BY <2>1
  <2>3. \A i \in 1 .. Len(list) : new[i] = list[i]
    BY <2>1
  <2>4. ASSUME NEW d \in Nat, d < Len(list)
        PROVE  new[Len(new) - (d + 1)] = list[Len(list) - d]
    <3>1. Len(new) - (d + 1) = Len(list) - d /\ Len(list) - d \in 1 .. Len(list)
      BY <1>1, <2>2, <2>4
    <3> QED
      BY <2>3, <3>1
  <2> QED
    BY <2>2, <2>4
<1> QED
  BY <1>2, <1>3

\* Accepting a hello: the reply is new, and the hello is not one of the latest
\* MaxRecentHellos this server answered.
LEMMA AcceptKeeps ==
    ASSUME HandshakeInv, NEW n \in H!Node, NEW m \in messages, H!AcceptClientHello(n, m), H!TypeOK'
    PROVE  HandshakeInv'
<1> DEFINE reply == replies[n] + 1
           msg == [type |-> "ServerHello", hello |-> m.hello, reply |-> reply]
<1>1. /\ hellos' = hellos /\ restarts' = restarts /\ installed' = installed
      /\ messages' = messages \cup {msg}
      /\ replies' = [replies EXCEPT ![n] = reply]
      /\ recent' = [recent EXCEPT ![n] = H!Remember(recent[n], m.hello)]
  BY DEF H!AcceptClientHello, H!Accept, H!Sends, H!Lifetime
<1>2. /\ peer'[n].phase = "ServerHello" /\ peer'[n].hello = m.hello /\ peer'[n].reply = reply
      /\ \A k \in H!Node : k # n => peer'[k] = peer[k]
  BY DEF HandshakeInv, H!TypeOK, H!AcceptClientHello, H!Accept, H!Becomes
<1>3. msg.type = "ServerHello" /\ msg.hello = m.hello /\ msg.reply = reply
  OBVIOUS
<1>4. H!TypeOK /\ m.hello.client = H!Peer(n) /\ H!Peer(m.hello.client) = n
  BY EndsOfHandshake DEF HandshakeInv, H!AcceptClientHello
<1>5. /\ replies'[n] = reply /\ recent'[n] = H!Remember(recent[n], m.hello)
      /\ \A k \in H!Node : k # n => replies'[k] = replies[k] /\ recent'[k] = recent[k]
  BY <1>1, <1>4 DEF H!TypeOK
<1>6. \A k \in H!Node : replies[k] \in Nat
  BY <1>4, Counters
<1>7. reply \in Nat /\ reply = replies[n] + 1
  BY <1>6
<1> HIDE DEF msg, reply
<1>8. \A k \in H!Node : replies'[k] \in Nat /\ replies[k] <= replies'[k]
  BY <1>5, <1>6, <1>7
<1>9. \A mm \in messages : Issued(mm.hello, mm.reply)
  BY DEF HandshakeInv, IssuedOnly
<1>10. IssuedOnly'
  <2>1. msg.hello.id <= hellos'[msg.hello.client] /\ msg.reply <= replies'[H!Peer(msg.hello.client)]
    BY <1>1, <1>3, <1>4, <1>5, <1>7, <1>9 DEF Issued
  <2>2. ASSUME NEW mm \in messages PROVE Issued(mm.hello, mm.reply)'
    <3>1. H!Peer(mm.hello.client) \in H!Node /\ mm.reply \in Nat
      BY <1>4, Counters, EndsOfHandshake
    <3> QED
      BY <1>1, <1>6, <1>8, <1>9, <3>1 DEF Issued
  <2>3. ASSUME NEW k \in H!Node, NEW s \in installed[k].once PROVE Issued(s.hello, s.reply)'
    <3>1. H!Peer(s.hello.client) \in H!Node /\ s.reply \in Nat
      BY <1>4, Counters, EndsOfHandshake
    <3>2. Issued(s.hello, s.reply)
      BY DEF HandshakeInv, IssuedOnly
    <3> QED
      BY <1>1, <1>6, <1>8, <3>1, <3>2 DEF Issued
  <2>4. \A mm \in messages' : Issued(mm.hello, mm.reply)'
    BY <1>1, <2>1, <2>2 DEF Issued
  <2> QED
    BY <1>1, <2>3, <2>4 DEF IssuedOnly
<1>11. Roles'
  BY <1>2, <1>4 DEF HandshakeInv, Roles, H!ClientPhase
<1>12. NotYetInstalled'
  <2>1. H!SessionOf(n)' = [hello |-> m.hello, reply |-> reply]
    BY <1>2 DEF H!SessionOf
  <2>2. [hello |-> m.hello, reply |-> reply] \notin installed[n].once
    <3> SUFFICES ASSUME NEW s \in installed[n].once, s = [hello |-> m.hello, reply |-> reply] PROVE FALSE
      OBVIOUS
    <3>1. Issued(s.hello, s.reply)
      BY DEF HandshakeInv, IssuedOnly
    <3>2. s.hello = m.hello /\ s.reply = reply
      OBVIOUS
    <3> QED
      BY <1>4, <1>6, <1>7, <3>1, <3>2 DEF Issued
  <2>3. ASSUME NEW k \in H!Node
        PROVE  /\ installed'[k].again = {}
               /\ peer'[k].phase = "ServerHello" => H!SessionOf(k)' \notin installed'[k].once
               /\ peer'[k].phase \in H!ClientPhase =>
                     \A s \in installed'[k].once : s.hello # peer'[k].hello
    <3>1. CASE k = n
      BY <1>1, <1>2, <2>1, <2>2, <3>1 DEF HandshakeInv, NotYetInstalled, H!ClientPhase
    <3>2. CASE k # n
      BY <1>1, <1>2, <3>2 DEF HandshakeInv, NotYetInstalled, H!SessionOf
    <3> QED
      BY <3>1, <3>2
  <2> QED
    BY <2>3 DEF NotYetInstalled
<1>13. FinishConfirms'
  BY <1>1, <1>3 DEF HandshakeInv, FinishConfirms
<1>14. H!KeyConfirmation'
  BY <1>1, <1>2 DEF HandshakeInv, H!KeyConfirmation, H!SessionOf
<1> DEFINE list == recent[n]
           new == recent'[n]
<1>15. /\ list \in Seq(H!Hello) /\ Len(list) <= MaxRecentHellos /\ Len(list) \in Nat
       /\ m.hello \in H!Hello /\ MaxRecentHellos \in Nat \ {0}
  <2>1. m \in H!Message
    BY <1>4 DEF H!TypeOK
  <2>2. m.hello \in H!Hello
    BY <2>1, MessageFields
  <2>3. MaxRecentHellos \in Nat \ {0}
    BY PeerAssumption
  <2> QED
    BY <1>4, <2>2, <2>3 DEF H!TypeOK
<1>16. /\ new[Len(new)] = m.hello
       /\ \A d \in Nat : d + 1 < MaxRecentHellos /\ d < Len(list)
             => new[Len(new) - (d + 1)] = list[Len(list) - d]
       /\ Len(list) < MaxRecentHellos => Len(new) = Len(list) + 1
       /\ Len(list) = MaxRecentHellos => Len(new) = Len(list)
  <2>1. new = H!Remember(list, m.hello)
    BY <1>5
  <2> HIDE DEF new, list
  <2>2. /\ Len(list) < MaxRecentHellos => Len(new) = Len(list) + 1
        /\ Len(list) = MaxRecentHellos => Len(new) = Len(list)
    BY <1>15, <2>1, RememberTypes
  <2>3. /\ new[Len(new)] = m.hello
        /\ \A d \in Nat : d + 1 < MaxRecentHellos /\ d < Len(list)
              => new[Len(new) - (d + 1)] = list[Len(list) - d]
    BY <1>15, <2>1, RememberHolds
  <2> QED
    BY <2>2, <2>3
<1>17. m.hello \notin H!ToSet(list)
  BY DEF H!AcceptClientHello
<1>18. restarts[n] = 0 =>
        /\ replies[n] <= MaxRecentHellos => Len(list) = replies[n]
        /\ replies[n] > MaxRecentHellos => Len(list) = MaxRecentHellos
        /\ \A mm \in messages : mm.type = "ServerHello" /\ mm.hello.client = H!Peer(n) => CacheHolds(n, mm)
  BY DEF HandshakeInv, CacheTracks, CacheLength
\* How far back an earlier answer lies, and that the cache reaches it.
<1>19. ASSUME NEW mm \in messages, mm.type = "ServerHello", mm.hello.client = H!Peer(n), restarts[n] = 0,
              replies[n] - mm.reply < MaxRecentHellos
       PROVE  /\ replies[n] - mm.reply \in Nat /\ replies[n] - mm.reply < Len(list)
              /\ list[Len(list) - (replies[n] - mm.reply)] = mm.hello
  <2>1. mm.reply \in Nat \ {0}
    <3>1. mm \in H!Message
      BY <1>4 DEF H!TypeOK
    <3> QED
      BY <1>19, <3>1, MessageFields, PeerAssumption
  <2>2. mm.reply <= replies[n]
    BY <1>9, <1>19, EndsOfHandshake DEF Issued
  <2>3. replies[n] - mm.reply \in Nat /\ replies[n] - mm.reply < Len(list)
    BY <1>6, <1>15, <1>18, <1>19, <2>1, <2>2
  <2>4. CacheHolds(n, mm)
    BY <1>18, <1>19
  <2> QED
    BY <1>19, <2>3, <2>4 DEF CacheHolds
<1> HIDE DEF list, new
<1>20. CacheTracks'
  <2>1. ASSUME restarts[n] = 0 PROVE CacheLength(n)'
    <3>1. /\ reply <= MaxRecentHellos => Len(new) = reply
          /\ reply > MaxRecentHellos => Len(new) = MaxRecentHellos
      BY <1>6, <1>7, <1>15, <1>16, <1>18, <2>1
    <3> QED
      BY <1>5, <3>1 DEF CacheLength, new
  <2>2. ASSUME NEW mm \in messages, mm.type = "ServerHello", mm.hello.client = H!Peer(n), restarts[n] = 0
        PROVE  CacheHolds(n, mm)'
    <3> SUFFICES ASSUME reply - mm.reply < MaxRecentHellos
                 PROVE  new[Len(new) - (reply - mm.reply)] = mm.hello
      BY <1>5 DEF CacheHolds, new
    <3>1. mm.reply \in Nat
      BY <1>4, Counters
    <3>2. reply - mm.reply = (replies[n] - mm.reply) + 1 /\ replies[n] - mm.reply < MaxRecentHellos
      BY <1>6, <1>7, <1>15, <3>1
    <3>3. /\ replies[n] - mm.reply \in Nat /\ replies[n] - mm.reply < Len(list)
          /\ list[Len(list) - (replies[n] - mm.reply)] = mm.hello
      BY <1>19, <2>2, <3>2
    <3> QED
      BY <1>16, <3>2, <3>3
  <2>3. recent'[n][Len(recent'[n]) - (replies'[n] - msg.reply)] = msg.hello
    <3>1. reply - reply = 0 /\ Len(new) \in Nat
      BY <1>7, <1>15, <1>16
    <3>2. Len(new) - 0 = Len(new)
      BY <3>1
    <3>3. new[Len(new) - (reply - reply)] = m.hello
      BY <1>16, <3>1, <3>2
    <3> QED
      BY <1>3, <1>5, <3>3 DEF new
  <2>4. ASSUME restarts[n] = 0, NEW mm \in messages', mm.type = "ServerHello", mm.hello.client = H!Peer(n)
        PROVE  CacheHolds(n, mm)'
    <3>1. CASE mm \in messages
      BY <2>2, <2>4, <3>1
    <3>2. CASE mm = msg
      BY <2>3, <3>2 DEF CacheHolds
    <3> QED
      BY <1>1, <3>1, <3>2
  <2>5. ASSUME NEW k \in H!Node, k # n, restarts[k] = 0
        PROVE  /\ CacheLength(k)'
               /\ \A mm \in messages' : mm.type = "ServerHello" /\ mm.hello.client = H!Peer(k)
                     => CacheHolds(k, mm)'
    <3>1. replies'[k] = replies[k] /\ recent'[k] = recent[k]
      BY <1>5, <2>5
    <3>2. CacheLength(k) /\ \A mm \in messages : mm.type = "ServerHello" /\ mm.hello.client = H!Peer(k)
                                => CacheHolds(k, mm)
      BY <2>5 DEF HandshakeInv, CacheTracks
    <3>3. msg.hello.client # H!Peer(k)
      BY <1>3, <1>4, <2>5, EndsOfHandshake
    <3> QED
      BY <1>1, <3>1, <3>2, <3>3 DEF CacheLength, CacheHolds
  <2>6. ASSUME NEW k \in H!Node, restarts'[k] = 0
        PROVE  /\ CacheLength(k)'
               /\ \A mm \in messages' : mm.type = "ServerHello" /\ mm.hello.client = H!Peer(k)
                     => CacheHolds(k, mm)'
    <3>1. CASE k = n
      BY <1>1, <2>1, <2>4, <2>6, <3>1
    <3>2. CASE k # n
      BY <1>1, <2>5, <2>6, <3>2
    <3> QED
      BY <3>1, <3>2
  <2> QED
    BY <2>6 DEF CacheTracks
<1>21. H!HelloAcceptedOnce'
  <2>1. ASSUME NEW mm \in messages, mm.type = "ServerHello", mm.hello = m.hello, restarts[n] = 0
        PROVE  reply - mm.reply > MaxRecentHellos /\ ~(reply < mm.reply)
    <3>1. mm.reply \in Nat /\ mm.reply <= replies[n]
      BY <1>4, <1>9, <2>1, Counters DEF Issued
    <3>2. ASSUME replies[n] - mm.reply < MaxRecentHellos PROVE FALSE
      <4>1. /\ replies[n] - mm.reply \in Nat /\ replies[n] - mm.reply < Len(list)
            /\ list[Len(list) - (replies[n] - mm.reply)] = m.hello
        BY <1>4, <1>19, <2>1, <3>2
      <4>2. Len(list) - (replies[n] - mm.reply) \in DOMAIN list
        BY <1>15, <4>1
      <4> QED
        BY <1>17, <4>1, <4>2 DEF H!ToSet
    <3> QED
      BY <1>6, <1>7, <1>15, <3>1, <3>2
  <2>2. ASSUME NEW m1 \in messages', NEW m2 \in messages',
               m1.type = "ServerHello", m2.type = "ServerHello", m1.hello = m2.hello,
               restarts'[H!Peer(m1.hello.client)] = 0, m1.reply < m2.reply
        PROVE  m2.reply - m1.reply > MaxRecentHellos
    <3>1. CASE m1 \in messages /\ m2 \in messages
      BY <1>1, <2>2, <3>1 DEF HandshakeInv, H!HelloAcceptedOnce
    <3>2. CASE m2 = msg /\ m1 \in messages
      BY <1>1, <1>3, <1>4, <2>1, <2>2, <3>2
    <3>3. CASE m1 = msg /\ m2 \in messages
      BY <1>1, <1>3, <1>4, <2>1, <2>2, <3>3
    <3>4. CASE m1 = msg /\ m2 = msg
      BY <1>3, <1>7, <2>2, <3>4
    <3> QED
      BY <1>1, <3>1, <3>2, <3>3, <3>4
  <2> QED
    BY <2>2 DEF H!HelloAcceptedOnce
<1> QED
  BY <1>10, <1>11, <1>12, <1>13, <1>14, <1>20, <1>21 DEF HandshakeInv

-------------------------------------------------------------------------------
\* Nothing has been sent or installed.
LEMMA HandshakeInvInit == H!Init => HandshakeInv
<1> SUFFICES ASSUME H!Init PROVE HandshakeInv
  OBVIOUS
<1>1. H!TypeOK
  BY HandshakeTypesInit
<1>2. /\ messages = {} /\ \A n \in H!Node : peer[n] = H!Idle /\ replies[n] = 0 /\ recent[n] = <<>>
      /\ \A n \in H!Node : installed[n].once = {} /\ installed[n].again = {}
  BY DEF H!Init
<1>3. \A n \in H!Node : peer[n].phase = "Idle"
  BY <1>2 DEF H!Idle
<1>4. Roles /\ NotYetInstalled /\ H!KeyConfirmation
  BY <1>2, <1>3 DEF Roles, NotYetInstalled, H!KeyConfirmation, H!ClientPhase
<1>5. IssuedOnly /\ FinishConfirms /\ H!HelloAcceptedOnce
  BY <1>2 DEF IssuedOnly, FinishConfirms, H!HelloAcceptedOnce
<1>6. MaxRecentHellos \in Nat \ {0}
  BY PeerAssumption
<1>7. CacheTracks
  BY <1>2, <1>6 DEF CacheTracks, CacheLength
<1> QED
  BY <1>1, <1>4, <1>5, <1>7 DEF HandshakeInv

\* Every step of the handshake keeps its invariant, and so does every step of
\* a session, which leaves it alone.
LEMMA HandshakeInvStep == HandshakeInv /\ [PeerNext]_peerVars => HandshakeInv'
<1> SUFFICES ASSUME HandshakeInv, [PeerNext]_peerVars PROVE HandshakeInv'
  OBVIOUS
<1>1. CASE H!Next
  <2>1. H!TypeOK
    BY DEF HandshakeInv
  <2>2. H!TypeOK'
    BY <1>1, <2>1, HandshakeTypesStep
  <2> QED
    BY <1>1, <2>1, <2>2, HandshakeSteps, CalmKeeps, StartKeeps, RestartKeeps, AcceptKeeps,
       AnswerKeeps, InstallKeeps
<1>2. CASE UNCHANGED handshakeVars
  <2>1. H!TypeOK'
    BY <1>2 DEF HandshakeInv, H!TypeOK, handshakeVars
  <2>2. Roles' /\ IssuedOnly' /\ NotYetInstalled' /\ FinishConfirms' /\ CacheTracks'
    BY <1>2 DEF HandshakeInv, Roles, IssuedOnly, Issued, NotYetInstalled, FinishConfirms, CacheTracks,
                CacheLength, CacheHolds, H!SessionOf, handshakeVars
  <2>3. H!KeyConfirmation' /\ H!HelloAcceptedOnce'
    BY <1>2 DEF HandshakeInv, H!KeyConfirmation, H!HelloAcceptedOnce, H!SessionOf, handshakeVars
  <2> QED
    BY <2>1, <2>2, <2>3 DEF HandshakeInv
<1> QED
  BY <1>1, <1>2 DEF PeerNext, peerVars

\* The invariant of the handshake holds always.
LEMMA HandshakeInvariance == PeerSpec => []HandshakeInv
<1>1. PeerInit => HandshakeInv
  BY HandshakeInvInit DEF PeerInit
<1> QED
  BY <1>1, HandshakeInvStep, PTL DEF PeerSpec

\* Key confirmation, for every bound on hellos, replies, retries, candidates,
\* cache, queue, configurations and restarts: a client that holds a session
\* holds one its server installed (accept_server_finish).
THEOREM ClientConfirmed == PeerSpec => []KeyConfirmation
<1>1. HandshakeInv => KeyConfirmation
  BY DEF HandshakeInv, KeyConfirmation
<1> QED
  BY <1>1, HandshakeInvariance, PTL

\* No end installs a session twice, whatever is replayed, retransmitted or
\* restarted (install_session, handle_client_finish, handle_server_finish).
THEOREM NoSessionTwice == PeerSpec => []InstalledOnce
<1>1. HandshakeInv => InstalledOnce
  BY DEF HandshakeInv, NotYetInstalled, InstalledOnce, H!InstalledOnce
<1> QED
  BY <1>1, HandshakeInvariance, PTL

\* A server that was not started again answers a hello a second time only after
\* MaxRecentHellos others, for every size of the cache (handle_client_hello,
\* remember_client_hello).
THEOREM NoHelloTwice == PeerSpec => []HelloAcceptedOnce
<1>1. HandshakeInv => HelloAcceptedOnce
  BY DEF HandshakeInv, HelloAcceptedOnce
<1> QED
  BY <1>1, HandshakeInvariance, PTL

-------------------------------------------------------------------------------
(***************************************************************************)
(* The rekeying of a session on a network with a clock.  A receiver keeps  *)
(* its previous epoch for Retention passes, and its sender seals in it     *)
(* until an acknowledgement arrives.  The invariant counts the passes      *)
(* since the receiver installed the next epoch: every update whose         *)
(* acknowledgement has not arrived, but the last, has cost the network one *)
(* of its losses, and an update is retried Cycle - 1 times.                *)
(***************************************************************************)

\* The passes from one KeyUpdate to the next one with a sequence of its own.
Cycle == KeyUpdateMaxAttempts + 1

\* Nobody runs out of sequences (u64 in the code).
SequencesLeft == \A n \in Node : CanSeal(n)

\* The receiver's window for the epoch its sender seals in.
WindowFor(n) ==
    IF current[Peer(n)].epoch = sendEpoch[n] THEN current[Peer(n)].window
    ELSE previous[Peer(n)].window

\* The receiver has installed an epoch its sender does not seal in yet.
Behind(n) == current[Peer(n)].epoch = sendEpoch[n] + 1

\* The update under way has been opened: every retry of it is a replay.
Read(n) == <<sendEpoch[n], pending[n].sequence>> \in opened[Peer(n)]

\* A datagram of n of that type is on its way.
Flying(n, type) == \E m \in inflight : m.from = n /\ m.type = type

\* The latest packet of n is on its way, for the first time or again.
FreshAloft(n) ==
    \E m \in inflight : /\ m.from = n /\ m.sequence = nextSequence[n] - 1
                        /\ m.sequence > WindowFor(n).highest

\* How many passes the peer of n has made more than n in this round.
Lead(n) == IF passed = {Peer(n)} THEN 1 ELSE IF passed = {n} THEN -1 ELSE 0

\* One datagram is under way at a time: what a pass sends, or the answer to it.
InFlight(m) ==
    /\ m \in net
    /\ m.epoch = sendEpoch[m.from]
    /\ m.type \in {"KeyUpdate", "KeyUpdateAck", "Keepalive"}
    /\ m.type = "KeyUpdate" => pending[m.from] # NoKeyUpdate /\ m = PendingPacket(m.from)
    /\ m.type # "KeyUpdate" => /\ m.sequence = nextSequence[m.from] - 1
                               /\ m.sequence > WindowFor(m.from).highest
                               /\ pending[m.from] # NoKeyUpdate =>
                                     pending[m.from].sequence < m.sequence
    /\ m.type = "KeyUpdateAck" =>
          /\ pending[Peer(m.from)] # NoKeyUpdate
          /\ m.next = pending[Peer(m.from)].nextEpoch
          /\ Behind(Peer(m.from)) /\ Read(Peer(m.from))

FlightInv ==
    /\ \A m \in inflight : InFlight(m)
    /\ \A m1 \in inflight : \A m2 \in inflight : m1 = m2

\* The receiver holds the epoch its sender seals in.
HoldsAt(n) == sendEpoch[n] \in {current[Peer(n)].epoch, previous[Peer(n)].epoch}

\* What the receiver has not opened of the sender's epoch was lost or is on
\* its way.
GapAt(n) ==
    /\ WindowFor(n).highest < nextSequence[n]
    /\ nextSequence[n] <= WindowFor(n).highest + 1 + losses + (IF FreshAloft(n) THEN 1 ELSE 0)

\* While an update is under way its sender seals nothing but acknowledgements,
\* one for a pass of the peer at most.
LagAt(n) ==
    pending[n] # NoKeyUpdate =>
        nextSequence[n] - 1 - pending[n].sequence + (IF Flying(Peer(n), "KeyUpdate") THEN 1 ELSE 0)
            <= pending[n].attempts + Lead(n)

\* A rekey that was announced or installed is still due.
DueAt(n) == pending[n] # NoKeyUpdate \/ Behind(n) => RekeyDue(n)

\* How many passes a sender can have made since its receiver has been ahead:
\* every cycle but the one under way has cost a datagram.
Passes(n) ==
    IF pending[n] = NoKeyUpdate THEN Cycle * losses - 1
    ELSE IF Read(n)
    THEN IF Flying(Peer(n), "KeyUpdateAck") THEN Cycle * losses
         ELSE Cycle * losses - Cycle + pending[n].attempts - 1
    ELSE IF Flying(n, "KeyUpdate") THEN Cycle * losses ELSE Cycle * losses - Cycle

PaceAt(n) == Behind(n) => retained[Peer(n)] <= Passes(n) + 1 + Lead(n)

\* Nothing has been opened in an epoch that its sender does not seal in yet.
UnusedAt(n) == Behind(n) => current[Peer(n)].window.highest = NoSequence

\* What is kept for the direction from n to its peer, for the session, and
\* for the round.
DirectionInv(n) ==
    HoldsAt(n) /\ GapAt(n) /\ LagAt(n) /\ DueAt(n) /\ PaceAt(n) /\ UnusedAt(n)

SessionInv == TypeOK /\ EpochInv /\ ReceiverInv
RoundInv == losses \in 0 .. LossBudget /\ passed \in {{}, {A}, {B}}
RekeyInv == SessionInv /\ RoundInv /\ FlightInv /\ \A n \in Node : DirectionInv(n)

\* The pace of the retries: the retention outlasts a cycle of retries for
\* every datagram the network may lose, and the window outlasts a cycle.
Paced ==
    /\ LossBudget \in Nat
    /\ Retention > Cycle * LossBudget
    /\ WindowBits > Cycle
    /\ MaxAdvance > LossBudget

\* A step of the timed session is one of the session.
LEMMA TimedStep ==
    ASSUME FlightInv, [TimedNext]_timedVars PROVE [Next]_vars
<1>1. inflight \subseteq net
  BY DEF FlightInv, InFlight
<1>2. ASSUME NEW n \in Node, TimedMaintain(n) PROVE Next
  BY <1>2 DEF TimedMaintain, Next
<1>3. ASSUME NEW n \in Node, TimedAges(n) PROVE Next
  BY <1>3 DEF TimedAges, Next
<1>4. ASSUME NEW n \in Node, NEW m \in inflight, TimedDeliver(n, m) PROVE [Next]_vars
  BY <1>1, <1>4 DEF TimedDeliver, Next, ReceiveRejected
<1>5. ASSUME NEW m \in inflight, Lose(m) PROVE UNCHANGED vars
  BY <1>5 DEF Lose
<1> QED
  BY <1>2, <1>3, <1>4, <1>5 DEF TimedNext, timedVars

\* The session's own invariants hold at every step of the clock.
LEMMA SessionKept ==
    ASSUME SessionInv, FlightInv, [TimedNext]_timedVars PROVE SessionInv'
BY TimedStep, TypeStep, EpochStep, ReceiverStep DEF SessionInv

\* The numbers the arithmetic is about.
LEMMA Numbers ==
    ASSUME SessionInv, NEW n \in Node
    PROVE  /\ sendEpoch[n] \in Nat /\ nextSequence[n] \in Nat
           /\ current[n].epoch \in Nat /\ previous[n].epoch \in Int
           /\ current[n].window.highest \in Int /\ previous[n].window.highest \in Int
           /\ current[n].window.highest >= -1 /\ previous[n].window.highest >= -1
           /\ retained[n] \in Int
           /\ pending[n].sequence \in Nat /\ pending[n].attempts \in Nat
           /\ pending[n].attempts <= KeyUpdateMaxAttempts
           /\ pending[n] # NoKeyUpdate => pending[n].attempts >= 1
           /\ WindowFor(n).highest \in Int /\ WindowFor(n).highest >= -1
<1>1. /\ sendEpoch[n] \in Nat /\ nextSequence[n] \in Nat
      /\ current[n].epoch \in Nat /\ previous[n].epoch \in Int
  BY EpochTypes DEF SessionInv
<1>2. ASSUME NEW k \in Node
      PROVE /\ current[k].window.highest \in Int /\ previous[k].window.highest \in Int
            /\ current[k].window.highest >= -1 /\ previous[k].window.highest >= -1
  <2>1. current[k] \in Cipher /\ previous[k] \in Cipher \cup {NoCipher}
    BY DEF SessionInv, TypeOK
  <2> QED
    BY <2>1, SessionAssumption DEF Cipher, NoCipher, Windows, NewWindow, NoSequence
<1>3. retained[n] \in Int
  BY SessionAssumption DEF SessionInv, TypeOK
<1>4. pending[n] \in PendingKeyUpdate \cup {NoKeyUpdate}
  BY DEF SessionInv, TypeOK
<1>5. /\ pending[n].sequence \in Nat /\ pending[n].attempts \in Nat
      /\ pending[n].attempts <= KeyUpdateMaxAttempts
      /\ pending[n] # NoKeyUpdate => pending[n].attempts >= 1
  BY <1>4, SessionAssumption DEF PendingKeyUpdate, NoKeyUpdate
<1>6. WindowFor(n).highest \in Int /\ WindowFor(n).highest >= -1
  BY <1>2, PeerFacts DEF WindowFor
<1> QED
  BY <1>1, <1>2, <1>3, <1>5, <1>6

\* What Paced says of the losses so far.
LEMMA Budget ==
    ASSUME Paced, RoundInv
    PROVE  /\ losses \in Nat /\ Cycle \in Nat /\ Cycle >= 2 /\ Cycle * losses \in Nat
           /\ Cycle * losses < Retention
           /\ Cycle = KeyUpdateMaxAttempts + 1
           /\ losses < MaxAdvance /\ Cycle < WindowBits
           /\ Cycle * (losses + 1) = Cycle * losses + Cycle
<1>1. losses \in Nat /\ Cycle \in Nat /\ Cycle >= 2 /\ LossBudget \in Nat /\ losses <= LossBudget
  BY SessionAssumption DEF Paced, RoundInv, Cycle
<1>2. /\ Retention \in Nat /\ MaxAdvance \in Nat /\ WindowBits \in Nat
  BY SessionAssumption, WindowAssumption
<1> HIDE DEF Cycle
<1>3. Cycle * losses \in Nat /\ Cycle * LossBudget \in Nat
  BY <1>1
<1>4. Cycle * losses <= Cycle * LossBudget
  <2>1. LossBudget - losses \in Nat /\ Cycle * (LossBudget - losses) \in Nat
    BY <1>1
  <2>2. Cycle * LossBudget = Cycle * losses + Cycle * (LossBudget - losses)
    BY <1>1, <2>1
  <2> QED
    BY <1>3, <2>1, <2>2
<1>5. Cycle * (losses + 1) = Cycle * losses + Cycle
  BY <1>1
<1> QED
  BY <1>1, <1>2, <1>3, <1>4, <1>5 DEF Paced, Cycle

\* Passes of a round.
LEMMA PassLead ==
    ASSUME RoundInv, NEW n \in Node, n \notin passed,
           passed' = IF passed \cup {n} = Node THEN {} ELSE passed \cup {n}
    PROVE  /\ passed' \in {{}, {A}, {B}}
           /\ Lead(n) \in {0, 1} /\ Lead(n)' = Lead(n) - 1
           /\ Lead(Peer(n)) \in {-1, 0} /\ Lead(Peer(n))' = Lead(Peer(n)) + 1
<1>1. A # B
  BY SessionAssumption
<1>2. CASE n = A
  BY <1>1, <1>2 DEF RoundInv, Lead, Peer, Node
<1>3. CASE n = B
  BY <1>1, <1>3 DEF RoundInv, Lead, Peer, Node
<1> QED
  BY <1>2, <1>3 DEF Node

\* What a step puts on the wire.
LEMMA EmitsNothing ==
    ASSUME net' = net, \A k \in Node : pending'[k] = pending[k] \/ pending'[k] = NoKeyUpdate,
           SessionInv
    PROVE  Emitted = {}
<1>1. \A k \in Node : pending[k].attempts \in Nat
  BY Numbers
<1> QED
  BY <1>1 DEF Emitted

\* A packet that is sealed is the only one of its step.
LEMMA EmitsOne ==
    ASSUME NEW x, x \notin net, net' = net \cup {x}, SessionInv,
           \A k \in Node : pending'[k] = pending[k] \/ pending[k] = NoKeyUpdate
    PROVE  Emitted = {x}
<1>1. \A k \in Node : pending[k].attempts \in Nat
  BY Numbers
<1> QED
  BY <1>1 DEF Emitted

\* A retry sends the update under way once more.
LEMMA EmitsAgain ==
    ASSUME SessionInv, NEW n \in Node, ResendKeyUpdate(n)
    PROVE  Emitted = {PendingPacket(n)}
<1>1. \A k \in Node : pending[k].attempts \in Nat
  BY Numbers
<1>2. \A k \in Node : k # n => pending'[k] = pending[k]
  BY DEF ResendKeyUpdate, SessionInv, TypeOK
<1>3. pending'[n] # NoKeyUpdate /\ pending'[n].attempts = pending[n].attempts + 1
  <2>1. pending[n] \in PendingKeyUpdate
    BY DEF ResendKeyUpdate, SessionInv, TypeOK
  <2>2. pending'[n] = [pending[n] EXCEPT !.attempts = @ + 1]
    BY DEF ResendKeyUpdate, SessionInv, TypeOK
  <2>3. pending'[n].attempts = pending[n].attempts + 1
    BY <2>1, <2>2 DEF PendingKeyUpdate
  <2>4. NoKeyUpdate.attempts = 0
    BY DEF NoKeyUpdate
  <2> QED
    BY <1>1, <2>3, <2>4
<1>4. net' = net \cup {PendingPacket(n)} /\ pending[n] # NoKeyUpdate
  BY DEF ResendKeyUpdate
<1> QED
  BY <1>1, <1>2, <1>3, <1>4 DEF Emitted

\* A packet that is sealed is a new one.
LEMMA SealedNew ==
    ASSUME SessionInv, NEW n \in Node, NEW type, NEW next
    PROVE  Sealed(n, type, next) \notin net
<1>1. sendEpoch[n] \in Nat /\ nextSequence[n] \in Nat
  BY Numbers
<1> QED
  BY <1>1 DEF SessionInv, EpochInv, FreshNonce, Sealed

\* A pass changes the sender it is made by, and of receivers only when their
\* previous epoch is retired.
LEMMA PassFrame ==
    ASSUME SessionInv, NEW n \in Node, Maintain(n)
    PROVE  /\ current' = current /\ opened' = opened /\ sendEpoch' = sendEpoch
           /\ sentInEpoch' = sentInEpoch /\ aged' = aged
           /\ \A k \in Node : k # n => /\ nextSequence'[k] = nextSequence[k]
                                       /\ pending'[k] = pending[k]
                                       /\ previous'[k] = previous[k]
                                       /\ retained'[k] = retained[k]
<1>1. /\ previous \in [Node -> Cipher \cup {NoCipher}] /\ retained \in [Node -> -1 .. Retention]
      /\ pending \in [Node -> PendingKeyUpdate \cup {NoKeyUpdate}]
      /\ nextSequence \in [Node -> 0 .. MaxSequence + 1]
  BY DEF SessionInv, TypeOK
<1>2. RetireIfDue(n)
  BY DEF Maintain
<1>3. CASE ResendKeyUpdate(n)
  BY <1>1, <1>2, <1>3 DEF RetireIfDue, ResendKeyUpdate
<1>4. CASE ExpireKeyUpdate(n)
  BY <1>1, <1>2, <1>4 DEF RetireIfDue, ExpireKeyUpdate
<1>5. CASE StartKeyUpdate(n)
  BY <1>1, <1>2, <1>5 DEF RetireIfDue, StartKeyUpdate, Seal
<1>6. CASE SendKeepalive(n)
  BY <1>1, <1>2, <1>6 DEF RetireIfDue, SendKeepalive, Seal
<1>7. CASE NothingDue(n)
  BY <1>1, <1>2, <1>7 DEF RetireIfDue, NothingDue, senderVars
<1> QED
  BY <1>3, <1>4, <1>5, <1>6, <1>7 DEF Maintain

\* What a pass sends: the update under way, a new one, a keepalive or nothing.
LEMMA PassSends ==
    ASSUME SessionInv, NEW n \in Node, TimedMaintain(n)
    PROVE  /\ inflight = {}
           /\ ResendKeyUpdate(n) => inflight' = {PendingPacket(n)}
           /\ ExpireKeyUpdate(n) \/ NothingDue(n) => inflight' = {}
           /\ StartKeyUpdate(n) => inflight' = {Sealed(n, "KeyUpdate", sendEpoch[n] + 1)}
           /\ SendKeepalive(n) => inflight' = {Sealed(n, "Keepalive", NoEpoch)}
<1>1. inflight = {} /\ inflight' = Emitted
  BY DEF TimedMaintain
<1>2. pending \in [Node -> PendingKeyUpdate \cup {NoKeyUpdate}]
  BY DEF SessionInv, TypeOK
<1>3. ASSUME ResendKeyUpdate(n) PROVE Emitted = {PendingPacket(n)}
  BY <1>3, EmitsAgain
<1>4. ASSUME ExpireKeyUpdate(n) \/ NothingDue(n) PROVE Emitted = {}
  <2>1. net' = net /\ \A k \in Node : pending'[k] = pending[k] \/ pending'[k] = NoKeyUpdate
    BY <1>2, <1>4 DEF ExpireKeyUpdate, NothingDue, senderVars
  <2> QED
    BY <2>1, EmitsNothing
<1>5. ASSUME StartKeyUpdate(n)
      PROVE  Emitted = {Sealed(n, "KeyUpdate", sendEpoch[n] + 1)}
  <2>1. /\ net' = net \cup {Sealed(n, "KeyUpdate", sendEpoch[n] + 1)}
        /\ \A k \in Node : pending'[k] = pending[k] \/ pending[k] = NoKeyUpdate
    BY <1>2, <1>5 DEF StartKeyUpdate, Seal
  <2> QED
    BY <2>1, EmitsOne, SealedNew
<1>6. ASSUME SendKeepalive(n) PROVE Emitted = {Sealed(n, "Keepalive", NoEpoch)}
  <2>1. /\ net' = net \cup {Sealed(n, "Keepalive", NoEpoch)}
        /\ \A k \in Node : pending'[k] = pending[k]
    BY <1>6 DEF SendKeepalive, Seal
  <2> QED
    BY <2>1, EmitsOne, SealedNew
<1> QED
  BY <1>1, <1>3, <1>4, <1>5, <1>6

\* A pass sends no acknowledgement, and nothing of the other end.
LEMMA PassSendsOwn ==
    ASSUME SessionInv, NEW n \in Node, TimedMaintain(n)
    PROVE  \A m \in inflight' : m.from = n /\ m.type \in {"KeyUpdate", "Keepalive"}
BY PassSends DEF TimedMaintain, Maintain, PendingPacket, Sealed

\* The sender's epoch is the current one, or the receiver is ahead by one and
\* keeps it as the previous one.
LEMMA HeldEpoch ==
    ASSUME SessionInv, NEW n \in Node, HoldsAt(n)
    PROVE  \/ current[Peer(n)].epoch = sendEpoch[n] /\ ~Behind(n)
           \/ /\ Behind(n) /\ current[Peer(n)].epoch # sendEpoch[n]
              /\ previous[Peer(n)].epoch = sendEpoch[n]
              /\ retained[Peer(n)] # NotRetained
              /\ previous[Peer(n)] \in Cipher
<1>1. /\ Peer(n) \in Node /\ sendEpoch[n] \in Nat /\ current[Peer(n)].epoch \in Nat
      /\ previous[Peer(n)].epoch \in Int
  BY Numbers, PeerFacts
<1>2. /\ sendEpoch[n] <= current[Peer(n)].epoch
      /\ current[Peer(n)].epoch <= sendEpoch[n] + 1
  BY DEF SessionInv, EpochInv, EpochsAdjacent
<1>3. ReceiverInvAt(Peer(n))
  BY <1>1 DEF SessionInv, ReceiverInv
<1>4. NoCipher.epoch = -1
  BY DEF NoCipher, NoEpoch
<1>5. CASE current[Peer(n)].epoch = sendEpoch[n]
  BY <1>1, <1>5 DEF Behind
<1>6. CASE current[Peer(n)].epoch # sendEpoch[n]
  <2>1. previous[Peer(n)].epoch = sendEpoch[n]
    BY <1>6 DEF HoldsAt
  <2>2. previous[Peer(n)] # NoCipher
    BY <1>1, <1>4, <2>1
  <2> QED
    BY <1>1, <1>2, <1>3, <1>6, <2>1, <2>2 DEF Behind, ReceiverInvAt
<1> QED
  BY <1>5, <1>6

\* A pass of the receiver.
LEMMA PassReceives ==
    ASSUME Paced, RekeyInv, NEW n \in Node, TimedMaintain(n)
    PROVE  DirectionInv(Peer(n))'
<1> DEFINE k == Peer(n)
<1>1. k \in Node /\ k # n /\ Peer(k) = n
  BY PeerFacts
<1>2. SessionInv /\ RoundInv /\ DirectionInv(k)
  BY <1>1 DEF RekeyInv
<1>3. /\ current' = current /\ opened' = opened /\ sendEpoch' = sendEpoch
      /\ sentInEpoch' = sentInEpoch /\ aged' = aged
      /\ nextSequence'[k] = nextSequence[k] /\ pending'[k] = pending[k]
  BY <1>1, <1>2, PassFrame DEF TimedMaintain
<1>4. inflight = {} /\ losses' = losses
  BY DEF TimedMaintain
<1>5. /\ ~Flying(k, "KeyUpdate") /\ ~Flying(n, "KeyUpdateAck") /\ ~FreshAloft(k)
      /\ ~Flying(n, "KeyUpdate")
  BY <1>4 DEF Flying, FreshAloft
<1>6. ~Flying(k, "KeyUpdate")' /\ ~Flying(n, "KeyUpdateAck")' /\ ~FreshAloft(k)'
  BY <1>1, <1>2, PassSendsOwn DEF Flying, FreshAloft
<1>7. Lead(k) \in {-1, 0} /\ Lead(k)' = Lead(k) + 1
  BY <1>2, PassLead DEF TimedMaintain
<1>8. /\ losses \in Nat /\ Cycle \in Nat /\ Cycle >= 2 /\ Cycle * losses \in Nat
      /\ Cycle * losses < Retention /\ Cycle = KeyUpdateMaxAttempts + 1
  BY <1>2, Budget
<1>9. /\ retained[n] \in Int /\ pending[k].attempts \in Nat
      /\ pending[k].attempts <= KeyUpdateMaxAttempts /\ pending[k].sequence \in Nat
      /\ nextSequence[k] \in Nat
  BY <1>1, <1>2, Numbers
<1>10. Behind(k)' <=> Behind(k)
  BY <1>1, <1>3 DEF Behind
<1>11. Retention \in Nat /\ KeyUpdateMaxAttempts \in Nat
  BY SessionAssumption
<1>12. ASSUME Behind(k) PROVE Passes(k) <= Cycle * losses - 1
  BY <1>1, <1>5, <1>8, <1>9, <1>11 DEF Passes
<1>13. ASSUME Behind(k) PROVE retained[n] < Retention
  <2>1. Passes(k) \in Int
    BY <1>8, <1>9 DEF Passes
  <2>2. retained[n] <= Passes(k) + 1 + Lead(k)
    BY <1>1, <1>2, <1>13 DEF DirectionInv, PaceAt
  <2> QED
    BY <1>7, <1>8, <1>9, <1>11, <1>12, <1>13, <2>1, <2>2
<1>14. ASSUME Behind(k) PROVE previous'[n] = previous[n] /\ retained'[n] <= retained[n] + 1
  <2>1. RetireIfDue(n) /\ retained[n] # Retention
    BY <1>9, <1>11, <1>13, <1>14 DEF TimedMaintain, Maintain
  <2>2. retained \in [Node -> -1 .. Retention]
    BY <1>2 DEF SessionInv, TypeOK
  <2> QED
    BY <1>9, <2>1, <2>2 DEF RetireIfDue, RetireDue, NotRetained
<1>15. HoldsAt(k)'
  BY <1>1, <1>2, <1>3, <1>14, HeldEpoch DEF DirectionInv, HoldsAt
<1>16. GapAt(k)'
  <2>1. WindowFor(k)' = WindowFor(k)
    BY <1>1, <1>2, <1>3, <1>14, HeldEpoch DEF DirectionInv, WindowFor
  <2> QED
    BY <1>2, <1>3, <1>4, <1>5, <1>6, <2>1 DEF DirectionInv, GapAt
<1>17. LagAt(k)'
  <2>1. pending[k] # NoKeyUpdate =>
           nextSequence[k] - 1 - pending[k].sequence <= pending[k].attempts + Lead(k)
    BY <1>1, <1>2, <1>5, <1>9 DEF DirectionInv, LagAt
  <2> QED
    BY <1>1, <1>3, <1>7, <1>9, <2>1 DEF LagAt
<1>18. DueAt(k)'
  BY <1>1, <1>2, <1>3, <1>10 DEF DirectionInv, DueAt, RekeyDue
<1>19. PaceAt(k)'
  <2> SUFFICES ASSUME Behind(k) PROVE retained'[n] <= Passes(k)' + 1 + Lead(k)'
    BY <1>1, <1>10 DEF PaceAt
  <2>1. Passes(k) \in Int
    BY <1>8, <1>9 DEF Passes
  <2>2. retained[n] <= Passes(k) + 1 + Lead(k)
    BY <1>1, <1>2 DEF DirectionInv, PaceAt
  <2>3. Read(k)' <=> Read(k)
    BY <1>1, <1>3 DEF Read
  <2>4. Passes(k)' = Passes(k)
    BY <1>1, <1>3, <1>4, <1>5, <1>6, <2>3 DEF Passes
  <2>5. retained'[n] \in Int
    <3>1. RetireIfDue(n) /\ retained \in [Node -> -1 .. Retention]
      BY <1>2 DEF TimedMaintain, Maintain, SessionInv, TypeOK
    <3> QED
      BY <1>9, <3>1 DEF RetireIfDue, NotRetained
  <2> QED
    BY <1>7, <1>9, <1>14, <2>1, <2>2, <2>4, <2>5
<1>20. UnusedAt(k)'
  BY <1>1, <1>2, <1>3, <1>10 DEF DirectionInv, UnusedAt
<1> QED
  BY <1>15, <1>16, <1>17, <1>18, <1>19, <1>20 DEF DirectionInv

\* Whatever was opened of the sender's epoch lies below its window's highest.
LEMMA OpenedBelow ==
    ASSUME SessionInv, NEW n \in Node, HoldsAt(n)
    PROVE  /\ Tracks(WindowFor(n), Opened(opened[Peer(n)], sendEpoch[n]))
           /\ WindowFor(n) \in Windows
           /\ \A s \in 0 .. MaxSequence : <<sendEpoch[n], s>> \in opened[Peer(n)] =>
                  s <= WindowFor(n).highest
<1>1. Peer(n) \in Node /\ ReceiverInvAt(Peer(n))
  BY PeerFacts DEF SessionInv, ReceiverInv
<1>2. current[Peer(n)] \in Cipher
  BY <1>1 DEF SessionInv, TypeOK
<1>3. Tracks(WindowFor(n), Opened(opened[Peer(n)], sendEpoch[n])) /\ WindowFor(n) \in Windows
  <2>1. CASE current[Peer(n)].epoch = sendEpoch[n]
    BY <1>1, <1>2, <2>1 DEF ReceiverInvAt, WindowFor, Cipher
  <2>2. CASE current[Peer(n)].epoch # sendEpoch[n]
    <3>1. /\ previous[Peer(n)].epoch = sendEpoch[n] /\ retained[Peer(n)] # NotRetained
          /\ previous[Peer(n)] \in Cipher
      BY <2>2, HeldEpoch
    <3> QED
      BY <1>1, <2>2, <3>1 DEF ReceiverInvAt, WindowFor, Cipher
  <2> QED
    BY <2>1, <2>2
<1>4. \A s \in 0 .. MaxSequence : <<sendEpoch[n], s>> \in opened[Peer(n)] =>
         s \in Opened(opened[Peer(n)], sendEpoch[n])
  BY DEF Opened
<1> QED
  BY <1>3, <1>4 DEF Tracks

\* A pass of the sender.
LEMMA PassTransmits ==
    ASSUME Paced, RekeyInv, NEW n \in Node, TimedMaintain(n)
    PROVE  DirectionInv(n)'
<1> DEFINE p == Peer(n)
<1>1. p \in Node /\ p # n /\ Peer(p) = n
  BY PeerFacts
<1>2. SessionInv /\ RoundInv /\ DirectionInv(n)
  BY DEF RekeyInv
<1>3. /\ current' = current /\ opened' = opened /\ sendEpoch' = sendEpoch
      /\ sentInEpoch' = sentInEpoch /\ aged' = aged
      /\ previous'[p] = previous[p] /\ retained'[p] = retained[p]
  BY <1>1, <1>2, PassFrame DEF TimedMaintain
<1>4. inflight = {} /\ losses' = losses
  BY DEF TimedMaintain
<1>5. /\ ~Flying(n, "KeyUpdate") /\ ~Flying(p, "KeyUpdateAck") /\ ~FreshAloft(n)
      /\ ~Flying(p, "KeyUpdate")
  BY <1>4 DEF Flying, FreshAloft
<1>6. ~Flying(p, "KeyUpdate")' /\ ~Flying(p, "KeyUpdateAck")'
  BY <1>1, <1>2, PassSendsOwn DEF Flying
<1>7. Lead(n) \in {0, 1} /\ Lead(n)' = Lead(n) - 1
  BY <1>2, PassLead DEF TimedMaintain
<1>8. /\ losses \in Nat /\ Cycle \in Nat /\ Cycle >= 2 /\ Cycle * losses \in Nat
      /\ Cycle = KeyUpdateMaxAttempts + 1
  BY <1>2, Budget
<1>9. /\ retained[p] \in Int /\ pending[n].attempts \in Nat
      /\ pending[n].attempts <= KeyUpdateMaxAttempts /\ pending[n].sequence \in Nat
      /\ nextSequence[n] \in Nat /\ sendEpoch[n] \in Nat
      /\ WindowFor(n).highest \in Int
  BY <1>1, <1>2, Numbers
<1>10. Behind(n)' <=> Behind(n)
  BY <1>1, <1>3 DEF Behind
<1>11. Retention \in Nat /\ KeyUpdateMaxAttempts \in Nat
  BY SessionAssumption
<1>12. HoldsAt(n)'
  BY <1>1, <1>2, <1>3 DEF DirectionInv, HoldsAt
<1>13. WindowFor(n)' = WindowFor(n)
  BY <1>1, <1>3 DEF WindowFor
<1>14. /\ WindowFor(n).highest < nextSequence[n]
       /\ nextSequence[n] <= WindowFor(n).highest + 1 + losses
  BY <1>2, <1>5, <1>9, <1>8 DEF DirectionInv, GapAt
<1>15. pending[n] # NoKeyUpdate =>
          nextSequence[n] - 1 - pending[n].sequence <= pending[n].attempts + Lead(n)
  BY <1>2, <1>5, <1>9 DEF DirectionInv, LagAt
<1>16. RekeyDue(n)' <=> RekeyDue(n)
  BY <1>3 DEF RekeyDue
<1>17. pending \in [Node -> PendingKeyUpdate \cup {NoKeyUpdate}]
       /\ nextSequence \in [Node -> 0 .. MaxSequence + 1]
  BY <1>2 DEF SessionInv, TypeOK
<1>18. Behind(n) => retained[p] <= Passes(n) + 1 + Lead(n)
  BY <1>2 DEF DirectionInv, PaceAt
<1>19. pending[n] # NoKeyUpdate \/ Behind(n) => RekeyDue(n)
  BY <1>2 DEF DirectionInv, DueAt
<1>20. Passes(n) = IF pending[n] = NoKeyUpdate THEN Cycle * losses - 1
                   ELSE IF Read(n) THEN Cycle * losses - Cycle + pending[n].attempts - 1
                   ELSE Cycle * losses - Cycle
  BY <1>1, <1>5 DEF Passes
<1>21. Passes(n)' = IF pending'[n] = NoKeyUpdate THEN Cycle * losses - 1
                    ELSE IF Read(n)' THEN Cycle * losses - Cycle + pending'[n].attempts - 1
                    ELSE IF Flying(n, "KeyUpdate")' THEN Cycle * losses ELSE Cycle * losses - Cycle
  BY <1>1, <1>4, <1>6 DEF Passes
<1>22. UnusedAt(n)'
  BY <1>1, <1>2, <1>3, <1>10 DEF DirectionInv, UnusedAt
<1>23. CASE ResendKeyUpdate(n)
  <2>1. pending[n] # NoKeyUpdate /\ nextSequence' = nextSequence
    BY <1>23 DEF ResendKeyUpdate
  <2>2. /\ pending'[n].attempts = pending[n].attempts + 1
        /\ pending'[n].sequence = pending[n].sequence
    <3>1. pending[n] \in PendingKeyUpdate /\ pending'[n] = [pending[n] EXCEPT !.attempts = @ + 1]
      BY <1>17, <1>23, <2>1 DEF ResendKeyUpdate
    <3> QED
      BY <3>1 DEF PendingKeyUpdate
  <2>3. pending'[n] # NoKeyUpdate
    BY <1>9, <2>2 DEF NoKeyUpdate
  <2>4. Flying(n, "KeyUpdate")'
    <3>1. inflight' = {PendingPacket(n)}
      BY <1>2, <1>23, PassSends
    <3> QED
      BY <3>1 DEF Flying, PendingPacket
  <2>5. GapAt(n)'
    BY <1>4, <1>8, <1>9, <1>13, <1>14, <2>1 DEF GapAt
  <2>6. LagAt(n)'
    BY <1>1, <1>6, <1>7, <1>9, <1>15, <2>1, <2>2, <2>3 DEF LagAt
  <2>7. DueAt(n)'
    BY <1>16, <1>19, <2>1 DEF DueAt
  <2>8. Read(n)' <=> Read(n)
    BY <1>3, <2>2 DEF Read
  <2>9. PaceAt(n)'
    BY <1>1, <1>3, <1>7, <1>8, <1>9, <1>10, <1>18, <1>20, <1>21, <2>1, <2>2, <2>3, <2>4, <2>8
       DEF PaceAt
  <2> QED
    BY <1>12, <1>22, <2>5, <2>6, <2>7, <2>9 DEF DirectionInv
<1>24. CASE ExpireKeyUpdate(n)
  <2>1. /\ pending[n] # NoKeyUpdate /\ nextSequence' = nextSequence
        /\ pending[n].attempts >= KeyUpdateMaxAttempts /\ pending'[n] = NoKeyUpdate
    BY <1>17, <1>24 DEF ExpireKeyUpdate
  <2>2. GapAt(n)'
    BY <1>4, <1>8, <1>9, <1>13, <1>14, <2>1 DEF GapAt
  <2>3. LagAt(n)'
    BY <2>1 DEF LagAt
  <2>4. DueAt(n)'
    BY <1>16, <1>19, <2>1 DEF DueAt
  <2>5. PaceAt(n)'
    BY <1>1, <1>3, <1>7, <1>8, <1>9, <1>10, <1>11, <1>18, <1>20, <1>21, <2>1 DEF PaceAt
  <2> QED
    BY <1>12, <1>22, <2>2, <2>3, <2>4, <2>5 DEF DirectionInv
<1>25. CASE StartKeyUpdate(n)
  <2>1. /\ pending[n] = NoKeyUpdate /\ RekeyDue(n) /\ nextSequence[n] <= MaxSequence
        /\ nextSequence'[n] = nextSequence[n] + 1
        /\ pending'[n] = [nextEpoch |-> sendEpoch[n] + 1, sequence |-> nextSequence[n],
                          attempts |-> 1]
    BY <1>17, <1>25 DEF StartKeyUpdate, Seal, CanSeal
  <2>2. /\ pending'[n].sequence = nextSequence[n] /\ pending'[n].attempts = 1
        /\ pending'[n] # NoKeyUpdate
    BY <2>1 DEF NoKeyUpdate
  <2>3. inflight' = {Sealed(n, "KeyUpdate", sendEpoch[n] + 1)}
    BY <1>2, <1>25, PassSends
  <2>4. Flying(n, "KeyUpdate")'
    BY <2>3 DEF Flying, Sealed
  <2>5. FreshAloft(n)'
    <3> DEFINE m == Sealed(n, "KeyUpdate", sendEpoch[n] + 1)
    <3>1. m.from = n /\ m.sequence = nextSequence[n]
      BY DEF Sealed
    <3>2. m.sequence = nextSequence'[n] - 1 /\ m.sequence > WindowFor(n)'.highest
      BY <1>9, <1>13, <1>14, <2>1, <3>1
    <3>3. m \in inflight'
      BY <2>3
    <3> HIDE DEF m
    <3> QED
      BY <3>1, <3>2, <3>3 DEF FreshAloft
  <2>6. GapAt(n)'
    BY <1>4, <1>8, <1>9, <1>13, <1>14, <2>1, <2>5 DEF GapAt
  <2>7. LagAt(n)'
    BY <1>1, <1>6, <1>7, <1>9, <2>1, <2>2 DEF LagAt
  <2>8. DueAt(n)'
    BY <1>16, <2>1 DEF DueAt
  <2>9. ~Read(n)'
    <3>1. <<sendEpoch[n], nextSequence[n]>> \notin opened[p]
      BY <1>2, <1>9, <1>14, <2>1, OpenedBelow DEF DirectionInv
    <3> QED
      BY <1>3, <2>2, <3>1 DEF Read
  <2>10. PaceAt(n)'
    BY <1>1, <1>3, <1>7, <1>8, <1>9, <1>10, <1>18, <1>20, <1>21, <2>1, <2>2, <2>4, <2>9 DEF PaceAt
  <2> QED
    BY <1>12, <1>22, <2>6, <2>7, <2>8, <2>10 DEF DirectionInv
<1>26. CASE SendKeepalive(n)
  <2>1. /\ pending[n] = NoKeyUpdate /\ ~RekeyDue(n) /\ pending' = pending
        /\ nextSequence'[n] = nextSequence[n] + 1
    BY <1>17, <1>26 DEF SendKeepalive, Seal
  <2>2. inflight' = {Sealed(n, "Keepalive", NoEpoch)}
    BY <1>2, <1>26, PassSends
  <2>3. FreshAloft(n)'
    <3> DEFINE m == Sealed(n, "Keepalive", NoEpoch)
    <3>1. m.from = n /\ m.sequence = nextSequence[n]
      BY DEF Sealed
    <3>2. m.sequence = nextSequence'[n] - 1 /\ m.sequence > WindowFor(n)'.highest
      BY <1>9, <1>13, <1>14, <2>1, <3>1
    <3>3. m \in inflight'
      BY <2>2
    <3> HIDE DEF m
    <3> QED
      BY <3>1, <3>2, <3>3 DEF FreshAloft
  <2>4. GapAt(n)'
    BY <1>4, <1>8, <1>9, <1>13, <1>14, <2>1, <2>3 DEF GapAt
  <2>5. LagAt(n)' /\ DueAt(n)' /\ PaceAt(n)'
    BY <1>10, <1>19, <2>1 DEF LagAt, DueAt, PaceAt
  <2> QED
    BY <1>12, <1>22, <2>4, <2>5 DEF DirectionInv
<1>27. CASE NothingDue(n)
  <2>1. /\ pending[n] = NoKeyUpdate /\ ~RekeyDue(n) /\ pending' = pending
        /\ nextSequence' = nextSequence
    BY <1>27 DEF NothingDue, senderVars
  <2>2. GapAt(n)'
    BY <1>4, <1>8, <1>9, <1>13, <1>14, <2>1 DEF GapAt
  <2>3. LagAt(n)' /\ DueAt(n)' /\ PaceAt(n)'
    BY <1>10, <1>19, <2>1 DEF LagAt, DueAt, PaceAt
  <2> QED
    BY <1>12, <1>22, <2>2, <2>3 DEF DirectionInv
<1> QED
  BY <1>23, <1>24, <1>25, <1>26, <1>27 DEF TimedMaintain, Maintain

\* A pass puts one datagram in flight at most, and one that is in order.
LEMMA PassFlight ==
    ASSUME Paced, RekeyInv, NEW n \in Node, TimedMaintain(n)
    PROVE  FlightInv'
<1>1. SessionInv /\ DirectionInv(n)
  BY DEF RekeyInv
<1>2. /\ current' = current /\ opened' = opened /\ sendEpoch' = sendEpoch
      /\ previous'[Peer(n)] = previous[Peer(n)]
  BY <1>1, PeerFacts, PassFrame DEF TimedMaintain
<1>3. WindowFor(n)' = WindowFor(n)
  BY <1>2, PeerFacts DEF WindowFor
<1>4. /\ nextSequence[n] \in Nat /\ WindowFor(n).highest \in Int
      /\ WindowFor(n).highest < nextSequence[n]
  BY <1>1, Numbers DEF DirectionInv, GapAt
<1>5. pending \in [Node -> PendingKeyUpdate \cup {NoKeyUpdate}]
      /\ nextSequence \in [Node -> 0 .. MaxSequence + 1]
  BY <1>1 DEF SessionInv, TypeOK
<1>6. ASSUME NEW x, inflight' = {x}, x.from = n, x \in net', x.epoch = sendEpoch[n],
             \/ x.type = "KeyUpdate" /\ pending'[n] # NoKeyUpdate /\ x = PendingPacket(n)'
             \/ /\ x.type = "Keepalive" /\ pending'[n] = NoKeyUpdate
                /\ x.sequence = nextSequence'[n] - 1
                /\ x.sequence > WindowFor(n).highest
      PROVE  FlightInv'
  <2>1. InFlight(x)'
    BY <1>2, <1>3, <1>6 DEF InFlight
  <2> QED
    BY <1>6, <2>1 DEF FlightInv
<1>7. CASE ResendKeyUpdate(n)
  <2>1. inflight' = {PendingPacket(n)} /\ PendingPacket(n) \in net'
    BY <1>1, <1>7, PassSends DEF ResendKeyUpdate
  <2>2. /\ pending[n] \in PendingKeyUpdate
        /\ pending'[n] = [pending[n] EXCEPT !.attempts = @ + 1]
    BY <1>5, <1>7 DEF ResendKeyUpdate
  <2>3. /\ pending'[n].sequence = pending[n].sequence
        /\ pending'[n].nextEpoch = pending[n].nextEpoch
        /\ pending'[n].attempts = pending[n].attempts + 1 /\ pending[n].attempts \in Nat
    BY <1>1, <2>2, Numbers DEF PendingKeyUpdate
  <2>4. pending'[n] # NoKeyUpdate
    BY <2>3 DEF NoKeyUpdate
  <2>5. PendingPacket(n)' = PendingPacket(n)
    BY <1>2, <2>3 DEF PendingPacket
  <2>6. /\ PendingPacket(n).from = n /\ PendingPacket(n).type = "KeyUpdate"
        /\ PendingPacket(n).epoch = sendEpoch[n]
    BY DEF PendingPacket
  <2> QED
    BY <1>6, <2>1, <2>4, <2>5, <2>6
<1>8. CASE ExpireKeyUpdate(n) \/ NothingDue(n)
  BY <1>1, <1>8, PassSends DEF FlightInv
<1>9. CASE StartKeyUpdate(n)
  <2> DEFINE x == Sealed(n, "KeyUpdate", sendEpoch[n] + 1)
  <2>1. inflight' = {x} /\ x \in net'
    BY <1>1, <1>9, PassSends DEF StartKeyUpdate, Seal
  <2>2. pending'[n] = [nextEpoch |-> sendEpoch[n] + 1, sequence |-> nextSequence[n],
                       attempts |-> 1]
    BY <1>5, <1>9 DEF StartKeyUpdate
  <2>3. x = PendingPacket(n)' /\ pending'[n] # NoKeyUpdate
    BY <1>2, <2>2 DEF PendingPacket, Sealed, NoKeyUpdate
  <2>4. x.from = n /\ x.type = "KeyUpdate" /\ x.epoch = sendEpoch[n]
    BY DEF Sealed
  <2> HIDE DEF x
  <2> QED
    BY <1>6, <2>1, <2>3, <2>4
<1>10. CASE SendKeepalive(n)
  <2> DEFINE x == Sealed(n, "Keepalive", NoEpoch)
  <2>1. inflight' = {x} /\ x \in net'
    BY <1>1, <1>10, PassSends DEF SendKeepalive, Seal
  <2>2. pending'[n] = NoKeyUpdate /\ nextSequence'[n] = nextSequence[n] + 1
    BY <1>5, <1>10 DEF SendKeepalive, Seal
  <2>3. /\ x.from = n /\ x.type = "Keepalive" /\ x.epoch = sendEpoch[n]
        /\ x.sequence = nextSequence[n]
    BY DEF Sealed
  <2> HIDE DEF x
  <2>4. x.sequence = nextSequence'[n] - 1 /\ x.sequence > WindowFor(n).highest
    BY <1>4, <2>2, <2>3
  <2> QED
    BY <1>6, <2>1, <2>2, <2>3, <2>4
<1> QED
  BY <1>7, <1>8, <1>9, <1>10 DEF TimedMaintain, Maintain

\* An unopened packet of the sender's epoch is opened, unless it lies too far
\* from what was opened before it.
LEMMA Opens ==
    ASSUME SessionInv, NEW k \in Node, HoldsAt(k), NEW m \in net, m.epoch = sendEpoch[k],
           <<m.epoch, m.sequence>> \notin opened[Peer(k)],
           m.sequence - WindowFor(k).highest <= MaxAdvance,
           WindowFor(k).highest - m.sequence < WindowBits
    PROVE  CanOpen(Peer(k), m)
<1> DEFINE w == WindowFor(k)
           S == Opened(opened[Peer(k)], sendEpoch[k])
<1>1. m.sequence \in 0 .. MaxSequence /\ m.sequence \in Nat
  BY SessionAssumption DEF SessionInv, TypeOK, Packet
<1>2. w \in Windows /\ Tracks(w, S)
  BY OpenedBelow
<1>3. m.sequence \notin S
  BY DEF Opened
<1>4. WindowBits \in Nat /\ MaxAdvance \in Nat
  BY WindowAssumption
<1>5. w.highest \in Nat \cup {-1}
  BY <1>2 DEF Windows, NoSequence
<1>6. /\ m.sequence - w.highest <= MaxAdvance /\ w.highest - m.sequence < WindowBits
  OBVIOUS
<1> HIDE DEF w, S
<1>7. Precheck(w, m.sequence)
  <2>1. CASE w.highest = -1
    BY <1>1, <1>4, <1>6, <2>1 DEF Precheck, NoSequence
  <2>2. CASE w.highest # -1 /\ m.sequence > w.highest
    BY <1>6, <2>2 DEF Precheck, NoSequence
  <2>3. CASE w.highest # -1 /\ m.sequence <= w.highest
    <3>1. w.highest - m.sequence \in 0 .. WindowBits - 1
      BY <1>1, <1>4, <1>5, <1>6, <2>3
    <3>2. w.highest - (w.highest - m.sequence) = m.sequence
      BY <1>1, <1>5, <2>3
    <3>3. w.highest - m.sequence \notin w.bits
      BY <1>2, <1>3, <3>1, <3>2 DEF Tracks
    <3> QED
      BY <1>1, <1>5, <1>6, <2>3, <3>3 DEF Precheck, NoSequence
  <2> QED
    BY <1>1, <1>5, <2>1, <2>2, <2>3
<1>8. \/ InCurrent(Peer(k), m) /\ w = current[Peer(k)].window
      \/ InPrevious(Peer(k), m) /\ w = previous[Peer(k)].window
  BY HeldEpoch DEF InCurrent, InPrevious, WindowFor, w
<1> QED
  BY <1>7, <1>8 DEF CanOpen

\* To open a packet raises the window it is opened in to its sequence, and
\* leaves the epochs as they are.
LEMMA OpenRaises ==
    ASSUME SessionInv, NEW k \in Node, HoldsAt(k), NEW m \in net, m.epoch = sendEpoch[k],
           CanOpen(Peer(k), m), KeepReceiverEpochs(Peer(k), m), sendEpoch'[k] = sendEpoch[k]
    PROVE  /\ HoldsAt(k)' /\ (Behind(k)' <=> Behind(k))
           /\ current'[Peer(k)].epoch = current[Peer(k)].epoch
           /\ retained' = retained
           /\ Behind(k) => current'[Peer(k)] = current[Peer(k)]
           /\ WindowFor(k)'.highest = IF m.sequence > WindowFor(k).highest THEN m.sequence
                                      ELSE WindowFor(k).highest
           /\ current'[k] = current[k] /\ previous'[k] = previous[k]
<1> DEFINE r == Peer(k)
<1>1. r \in Node /\ r # k
  BY PeerFacts
<1>2. /\ current \in [Node -> Cipher] /\ previous \in [Node -> Cipher \cup {NoCipher}]
  BY DEF SessionInv, TypeOK
<1>3. /\ current'[r] = CommittedCurrent(r, m) /\ previous'[r] = CommittedPrevious(r, m)
      /\ current'[k] = current[k] /\ previous'[k] = previous[k] /\ retained' = retained
  BY <1>1, <1>2 DEF KeepReceiverEpochs
<1>4. /\ current'[r].epoch = current[r].epoch /\ previous'[r].epoch = previous[r].epoch
  BY <1>1, KeepsEpochs DEF SessionInv
<1>5. HoldsAt(k)' /\ (Behind(k)' <=> Behind(k))
  BY <1>4 DEF HoldsAt, Behind
<1>6. m.sequence \in Nat
  BY SessionAssumption DEF SessionInv, TypeOK, Packet
<1>7. ASSUME NEW w \in Windows
      PROVE  Commit(w, m.sequence).highest = IF m.sequence > w.highest THEN m.sequence
                                             ELSE w.highest
  BY <1>6, <1>7 DEF Commit, Windows, NoSequence
<1>8. WindowFor(k) \in Windows
  BY OpenedBelow
<1>9. CASE current[r].epoch = sendEpoch[k]
  <2>1. current'[r] = [current[r] EXCEPT !.window = Commit(@, m.sequence)]
    BY <1>3, <1>9 DEF CommittedCurrent, InCurrent
  <2>2. current'[r].window = Commit(current[r].window, m.sequence)
    BY <1>1, <1>2, <2>1 DEF Cipher
  <2>3. WindowFor(k) = current[r].window /\ WindowFor(k)' = current'[r].window
    BY <1>4, <1>9 DEF WindowFor
  <2>4. ~Behind(k)
    BY <1>9, HeldEpoch
  <2> QED
    BY <1>3, <1>4, <1>5, <1>7, <1>8, <2>2, <2>3, <2>4
<1>10. CASE current[r].epoch # sendEpoch[k]
  <2>1. previous[r].epoch = sendEpoch[k] /\ previous[r] \in Cipher
    BY <1>10, HeldEpoch
  <2>2. previous'[r] = [previous[r] EXCEPT !.window = Commit(@, m.sequence)]
    BY <1>3, <1>10, <2>1 DEF CommittedPrevious, InPrevious, InCurrent
  <2>3. previous'[r].window = Commit(previous[r].window, m.sequence)
    BY <2>1, <2>2 DEF Cipher
  <2>4. WindowFor(k) = previous[r].window /\ WindowFor(k)' = previous'[r].window
    BY <1>4, <1>10 DEF WindowFor
  <2>5. current'[r] = current[r]
    BY <1>3, <1>10 DEF CommittedCurrent, InCurrent
  <2> QED
    BY <1>3, <1>4, <1>5, <1>7, <1>8, <2>3, <2>4, <2>5
<1> QED
  BY <1>9, <1>10

\* What is known of the datagram that is delivered.
LEMMA Delivered ==
    ASSUME RekeyInv, NEW r \in Node, NEW m \in inflight, TimedDeliver(r, m)
    PROVE  /\ m.from = Peer(r) /\ Peer(r) \in Node /\ Peer(r) # r /\ Peer(Peer(r)) = r
           /\ inflight = {m} /\ inflight' = Emitted /\ losses' = losses /\ passed' = passed
           /\ m \in net /\ InFlight(m) /\ m.epoch = sendEpoch[Peer(r)]
           /\ m.sequence \in Nat /\ m.sequence \in 0 .. MaxSequence
           /\ m.sequence < nextSequence[Peer(r)]
           /\ m.type = "KeyUpdate" => m.next = m.epoch + 1
<1>1. m.from = Peer(r) /\ Peer(r) \in Node /\ Peer(r) # r /\ Peer(Peer(r)) = r
  BY PeerFacts DEF TimedDeliver
<1>2. inflight = {m} /\ InFlight(m)
  BY DEF RekeyInv, FlightInv
<1>3. inflight' = Emitted /\ losses' = losses /\ passed' = passed
  BY <1>2 DEF TimedDeliver
<1>4. m \in net /\ m.epoch = sendEpoch[Peer(r)]
  BY <1>1, <1>2 DEF InFlight
<1>5. m.sequence \in Nat /\ m.sequence \in 0 .. MaxSequence
  BY <1>4, SessionAssumption DEF RekeyInv, SessionInv, TypeOK, Packet
<1>6. sendEpoch[Peer(r)] \in Nat
  BY <1>1, Numbers DEF RekeyInv
<1>7. /\ m.sequence < nextSequence[Peer(r)]
      /\ m.type = "KeyUpdate" => m.next = m.epoch + 1
  BY <1>1, <1>4, <1>6 DEF RekeyInv, SessionInv, EpochInv, FreshNonce, KeyUpdatesNext
<1> QED
  BY <1>1, <1>2, <1>3, <1>4, <1>5, <1>7

\* A datagram that is delivered is opened, but for a retry of an update that
\* was opened before.
LEMMA DeliveryOpens ==
    ASSUME Paced, RekeyInv, NEW r \in Node, NEW m \in inflight, TimedDeliver(r, m),
           m.type = "KeyUpdate" => ~Read(Peer(r))
    PROVE  CanOpen(r, m)
<1> DEFINE k == Peer(r)
<1>1. /\ m.from = k /\ k \in Node /\ k # r /\ Peer(k) = r
      /\ inflight = {m} /\ m \in net /\ InFlight(m) /\ m.epoch = sendEpoch[k]
      /\ m.sequence \in Nat /\ m.sequence \in 0 .. MaxSequence /\ m.sequence < nextSequence[k]
  BY Delivered
<1>2. SessionInv /\ RoundInv /\ DirectionInv(k)
  BY <1>1 DEF RekeyInv
<1>3. HoldsAt(k) /\ GapAt(k) /\ LagAt(k)
  BY <1>2 DEF DirectionInv
<1>4. /\ losses \in Nat /\ losses < MaxAdvance /\ Cycle < WindowBits /\ Cycle \in Nat
      /\ Cycle = KeyUpdateMaxAttempts + 1
  BY <1>2, Budget
<1>5. /\ WindowFor(k).highest \in Int /\ WindowFor(k).highest >= -1 /\ nextSequence[k] \in Nat
      /\ pending[k].attempts \in Nat /\ pending[k].attempts <= KeyUpdateMaxAttempts
      /\ pending[k].sequence \in Nat
  BY <1>1, <1>2, Numbers
<1>6. MaxAdvance \in Nat /\ WindowBits \in Nat /\ WindowBits > 0 /\ KeyUpdateMaxAttempts \in Nat
  BY WindowAssumption, SessionAssumption
<1>7. m.sequence - WindowFor(k).highest <= MaxAdvance
  <2>1. nextSequence[k] <= WindowFor(k).highest + 2 + losses
    BY <1>3, <1>4, <1>5 DEF GapAt
  <2> QED
    BY <1>1, <1>4, <1>5, <1>6, <2>1
<1>8. CASE m.type # "KeyUpdate"
  <2>1. m.sequence > WindowFor(k).highest
    BY <1>1, <1>8 DEF InFlight
  <2>2. <<m.epoch, m.sequence>> \notin opened[r]
    BY <1>1, <1>2, <1>3, <1>5, <2>1, OpenedBelow
  <2>3. WindowFor(k).highest - m.sequence < WindowBits
    BY <1>1, <1>5, <1>6, <2>1
  <2> QED
    BY <1>1, <1>2, <1>3, <1>7, <2>2, <2>3, Opens
<1>9. CASE m.type = "KeyUpdate"
  <2>1. pending[k] # NoKeyUpdate /\ m.sequence = pending[k].sequence
    BY <1>1, <1>9 DEF InFlight, PendingPacket
  <2>2. <<m.epoch, m.sequence>> \notin opened[r]
    BY <1>1, <1>9, <2>1 DEF Read
  <2>3. Lead(k) \in {-1, 0, 1}
    BY DEF Lead
  <2>4. nextSequence[k] - 1 - pending[k].sequence <= pending[k].attempts + Lead(k)
    BY <1>3, <1>5, <2>1, <2>3 DEF LagAt
  <2>5. WindowFor(k).highest <= nextSequence[k] - 1
    BY <1>3, <1>5 DEF GapAt
  <2>6. WindowFor(k).highest - m.sequence < WindowBits
    BY <1>1, <1>4, <1>5, <1>6, <2>1, <2>3, <2>4, <2>5
  <2> QED
    BY <1>1, <1>2, <1>3, <1>7, <2>2, <2>6, Opens
<1> QED
  BY <1>8, <1>9

\* The direction a datagram was opened in, when no epoch is installed.
LEMMA OpenedDirection ==
    ASSUME Paced, RekeyInv, NEW r \in Node, NEW m \in inflight, TimedDeliver(r, m),
           CanOpen(r, m), KeepReceiverEpochs(r, m),
           sendEpoch'[Peer(r)] = sendEpoch[Peer(r)],
           nextSequence'[Peer(r)] = nextSequence[Peer(r)],
           pending'[Peer(r)] = pending[Peer(r)],
           sentInEpoch'[Peer(r)] = sentInEpoch[Peer(r)], aged'[Peer(r)] = aged[Peer(r)],
           ~Flying(r, "KeyUpdate")', ~Flying(r, "KeyUpdate"),
           Behind(Peer(r)) => Passes(Peer(r))' = Passes(Peer(r))
    PROVE  DirectionInv(Peer(r))'
<1> DEFINE k == Peer(r)
<1>1. /\ m.from = k /\ k \in Node /\ k # r /\ Peer(k) = r
      /\ inflight = {m} /\ m \in net /\ m.epoch = sendEpoch[k]
      /\ m.sequence \in Nat /\ m.sequence < nextSequence[k]
      /\ losses' = losses /\ passed' = passed
  BY Delivered
<1>2. SessionInv /\ RoundInv /\ DirectionInv(k)
  BY <1>1 DEF RekeyInv
<1>3. /\ HoldsAt(k) /\ GapAt(k) /\ LagAt(k) /\ DueAt(k) /\ PaceAt(k) /\ UnusedAt(k)
  BY <1>2 DEF DirectionInv
<1>4. losses \in Nat
  BY <1>2, Budget
<1>5. WindowFor(k).highest \in Int /\ nextSequence[k] \in Nat
  BY <1>1, <1>2, Numbers
<1>6. /\ HoldsAt(k)' /\ (Behind(k)' <=> Behind(k)) /\ retained' = retained
      /\ Behind(k) => current'[r] = current[r]
      /\ WindowFor(k)'.highest = IF m.sequence > WindowFor(k).highest THEN m.sequence
                                 ELSE WindowFor(k).highest
  BY <1>1, <1>2, <1>3, OpenRaises
<1>7. GapAt(k)'
  <2>1. WindowFor(k)'.highest \in Int /\ WindowFor(k)'.highest < nextSequence[k]
    BY <1>1, <1>3, <1>5, <1>6 DEF GapAt
  <2>2. nextSequence[k] <= WindowFor(k)'.highest + 1 + losses
    <3>1. CASE FreshAloft(k)
      <4>1. m.sequence = nextSequence[k] - 1 /\ m.sequence > WindowFor(k).highest
        BY <1>1, <3>1 DEF FreshAloft
      <4> QED
        BY <1>1, <1>4, <1>5, <1>6, <4>1
    <3>2. CASE ~FreshAloft(k)
      BY <1>1, <1>3, <1>4, <1>5, <1>6, <3>2 DEF GapAt
    <3> QED
      BY <3>1, <3>2
  <2> QED
    BY <1>1, <1>4, <1>5, <2>1, <2>2 DEF GapAt
<1>8. LagAt(k)'
  BY <1>1, <1>3 DEF LagAt, Lead
<1>9. DueAt(k)'
  BY <1>3, <1>6 DEF DueAt, RekeyDue
<1>10. PaceAt(k)'
  BY <1>1, <1>3, <1>6 DEF PaceAt, Lead
<1>11. UnusedAt(k)'
  BY <1>1, <1>3, <1>6 DEF UnusedAt
<1> QED
  BY <1>6, <1>7, <1>8, <1>9, <1>10, <1>11 DEF DirectionInv

\* The other direction, when its sender answers with an acknowledgement or not
\* at all.
LEMMA AnsweringDirection ==
    ASSUME Paced, RekeyInv, NEW r \in Node, NEW m \in inflight, TimedDeliver(r, m),
           m.type # "KeyUpdateAck",
           current'[Peer(r)] = current[Peer(r)], previous'[Peer(r)] = previous[Peer(r)],
           retained'[Peer(r)] = retained[Peer(r)], opened'[Peer(r)] = opened[Peer(r)],
           sendEpoch'[r] = sendEpoch[r], pending'[r] = pending[r],
           sentInEpoch'[r] = sentInEpoch[r], aged'[r] = aged[r],
           \/ inflight' = {} /\ nextSequence'[r] = nextSequence[r]
           \/ /\ m.type = "KeyUpdate" /\ nextSequence'[r] = nextSequence[r] + 1
              /\ inflight' = {Sealed(r, "KeyUpdateAck", m.next)}
    PROVE  DirectionInv(r)'
<1> DEFINE k == Peer(r)
<1>1. /\ m.from = k /\ k \in Node /\ k # r /\ Peer(k) = r /\ inflight = {m}
      /\ losses' = losses /\ passed' = passed
  BY Delivered
<1>2. SessionInv /\ RoundInv /\ DirectionInv(r)
  BY <1>1 DEF RekeyInv
<1>3. /\ HoldsAt(r) /\ GapAt(r) /\ LagAt(r) /\ DueAt(r) /\ PaceAt(r) /\ UnusedAt(r)
  BY <1>2 DEF DirectionInv
<1>4. losses \in Nat
  BY <1>2, Budget
<1>5. /\ WindowFor(r).highest \in Int /\ nextSequence[r] \in Nat /\ pending[r].sequence \in Nat
      /\ pending[r].attempts \in Nat
  BY <1>1, <1>2, Numbers
<1>6. WindowFor(r)' = WindowFor(r) /\ HoldsAt(r)' /\ (Behind(r)' <=> Behind(r)) /\ UnusedAt(r)'
  BY <1>3 DEF WindowFor, HoldsAt, Behind, UnusedAt
<1>7. DueAt(r)'
  BY <1>3, <1>6 DEF DueAt, RekeyDue
<1>8. ~FreshAloft(r) /\ ~Flying(r, "KeyUpdate") /\ ~Flying(k, "KeyUpdateAck")
  BY <1>1 DEF FreshAloft, Flying
<1>9. ~Flying(r, "KeyUpdate")' /\ ~Flying(k, "KeyUpdateAck")' /\ ~Flying(k, "KeyUpdate")'
  BY <1>1 DEF Flying, Sealed
<1>10. PaceAt(r)'
  <2>1. Passes(r)' = Passes(r)
    BY <1>1, <1>8, <1>9 DEF Passes, Read
  <2> QED
    BY <1>1, <1>3, <1>6, <2>1 DEF PaceAt, Lead
<1>11. Lead(r)' = Lead(r) /\ Lead(r) \in Int
  BY <1>1 DEF Lead
<1>12. /\ WindowFor(r).highest < nextSequence[r]
       /\ nextSequence[r] <= WindowFor(r).highest + 1 + losses
  BY <1>3, <1>4, <1>5, <1>8 DEF GapAt
<1>13. CASE inflight' = {} /\ nextSequence'[r] = nextSequence[r]
  <2>1. GapAt(r)'
    BY <1>1, <1>4, <1>5, <1>6, <1>12, <1>13 DEF GapAt
  <2>2. LagAt(r)'
    BY <1>3, <1>5, <1>9, <1>11, <1>13 DEF LagAt
  <2> QED
    BY <1>6, <1>7, <1>10, <2>1, <2>2 DEF DirectionInv
<1>14. CASE /\ m.type = "KeyUpdate" /\ nextSequence'[r] = nextSequence[r] + 1
            /\ inflight' = {Sealed(r, "KeyUpdateAck", m.next)}
  <2>1. FreshAloft(r)'
    <3> DEFINE x == Sealed(r, "KeyUpdateAck", m.next)
    <3>1. x.from = r /\ x.sequence = nextSequence[r]
      BY DEF Sealed
    <3>2. x.sequence = nextSequence'[r] - 1 /\ x.sequence > WindowFor(r)'.highest
      BY <1>5, <1>6, <1>12, <1>14, <3>1
    <3>3. x \in inflight'
      BY <1>14
    <3> HIDE DEF x
    <3> QED
      BY <3>1, <3>2, <3>3 DEF FreshAloft
  <2>2. GapAt(r)'
    BY <1>1, <1>4, <1>5, <1>6, <1>12, <1>14, <2>1 DEF GapAt
  <2>3. Flying(k, "KeyUpdate")
    BY <1>1, <1>14 DEF Flying
  <2>4. LagAt(r)'
    BY <1>3, <1>5, <1>9, <1>11, <1>14, <2>3 DEF LagAt
  <2> QED
    BY <1>6, <1>7, <1>10, <2>2, <2>4 DEF DirectionInv
<1> QED
  BY <1>13, <1>14

\* A keepalive is delivered.
LEMMA DeliverKeepalive ==
    ASSUME Paced, RekeyInv, NEW r \in Node, NEW m \in inflight, TimedDeliver(r, m),
           m.type = "Keepalive"
    PROVE  FlightInv' /\ DirectionInv(r)' /\ DirectionInv(Peer(r))'
<1> DEFINE k == Peer(r)
<1>1. /\ m.from = k /\ k \in Node /\ k # r /\ Peer(k) = r /\ inflight = {m} /\ InFlight(m)
      /\ m.epoch = sendEpoch[k] /\ inflight' = Emitted /\ losses' = losses
      /\ m.sequence \in Nat
  BY Delivered
<1>2. SessionInv
  BY DEF RekeyInv
<1>3. CanOpen(r, m)
  BY DeliveryOpens
<1>4. ReceiveTraffic(r, m)
  BY <1>3 DEF TimedDeliver, Receive, ReceiveRejected, ReceivePathChallenge, ReceiveKeyUpdate,
     ReceiveKeyUpdateAck, Arrives
<1>5. KeepReceiverEpochs(r, m) /\ UNCHANGED <<senderVars, net>> /\ UNCHANGED retained
  BY <1>4 DEF ReceiveTraffic, KeepReceiverEpochs
<1>6. opened' = [opened EXCEPT ![r] = @ \cup {<<m.epoch, m.sequence>>}]
  BY <1>4 DEF ReceiveTraffic, Arrives
<1>7. inflight' = {}
  BY <1>1, <1>2, <1>5, EmitsNothing DEF senderVars
<1>8. FlightInv'
  BY <1>7 DEF FlightInv
<1>9. /\ current \in [Node -> Cipher] /\ previous \in [Node -> Cipher \cup {NoCipher}]
      /\ opened \in [Node -> SUBSET (Epoch \X (0 .. MaxSequence))]
  BY <1>2 DEF SessionInv, TypeOK
<1>10. DirectionInv(r)'
  <2>1. current'[k] = current[k] /\ previous'[k] = previous[k] /\ opened'[k] = opened[k]
    BY <1>1, <1>5, <1>6, <1>9 DEF KeepReceiverEpochs
  <2> QED
    BY <1>5, <1>7, <2>1, AnsweringDirection DEF senderVars
<1>11. Passes(k)' = Passes(k)
  <2>1. ~Flying(k, "KeyUpdate") /\ ~Flying(r, "KeyUpdateAck")
        /\ ~Flying(k, "KeyUpdate")' /\ ~Flying(r, "KeyUpdateAck")'
    BY <1>1, <1>7 DEF Flying
  <2>2. pending[k] # NoKeyUpdate => (Read(k)' <=> Read(k))
    <3> SUFFICES ASSUME pending[k] # NoKeyUpdate PROVE Read(k)' <=> Read(k)
      OBVIOUS
    <3>1. pending[k].sequence < m.sequence /\ pending[k].sequence \in Nat
      BY <1>1, <1>2, Numbers DEF InFlight
    <3>2. opened'[r] = opened[r] \cup {<<m.epoch, m.sequence>>}
      BY <1>6, <1>9
    <3>3. <<sendEpoch[k], pending[k].sequence>> # <<m.epoch, m.sequence>>
      BY <1>1, <3>1
    <3> QED
      BY <1>1, <1>5, <3>2, <3>3 DEF Read, senderVars
  <2> QED
    BY <1>1, <1>5, <2>1, <2>2 DEF Passes, senderVars
<1>12. ~Flying(r, "KeyUpdate")' /\ ~Flying(r, "KeyUpdate")
  BY <1>1, <1>7 DEF Flying
<1>13. DirectionInv(k)'
  BY <1>3, <1>5, <1>11, <1>12, OpenedDirection DEF senderVars
<1> QED
  BY <1>8, <1>10, <1>13

\* A retry of an update that was opened before is turned away.
LEMMA DeliverAgain ==
    ASSUME Paced, RekeyInv, NEW r \in Node, NEW m \in inflight, TimedDeliver(r, m),
           m.type = "KeyUpdate", Read(Peer(r))
    PROVE  FlightInv' /\ DirectionInv(r)' /\ DirectionInv(Peer(r))'
<1> DEFINE k == Peer(r)
<1>1. /\ m.from = k /\ k \in Node /\ k # r /\ Peer(k) = r /\ inflight = {m} /\ InFlight(m)
      /\ m.epoch = sendEpoch[k] /\ inflight' = Emitted /\ losses' = losses /\ passed' = passed
      /\ m.sequence \in Nat /\ m.sequence \in 0 .. MaxSequence
  BY Delivered
<1>2. SessionInv /\ DirectionInv(k)
  BY <1>1 DEF RekeyInv
<1>3. HoldsAt(k) /\ GapAt(k) /\ LagAt(k) /\ DueAt(k) /\ PaceAt(k) /\ UnusedAt(k)
  BY <1>2 DEF DirectionInv
<1>4. <<sendEpoch[k], m.sequence>> \in opened[r]
  BY <1>1 DEF Read, InFlight, PendingPacket
<1>5. ~CanOpen(r, m)
  <2>1. m.sequence \in Opened(opened[r], sendEpoch[k])
    BY <1>1, <1>4 DEF Opened
  <2>2. /\ Tracks(WindowFor(k), Opened(opened[r], sendEpoch[k])) /\ WindowFor(k) \in Windows
    BY <1>1, <1>2, <1>3, OpenedBelow
  <2>3. Opened(opened[r], sendEpoch[k]) \subseteq Nat
    BY SessionAssumption DEF Opened
  <2>4. ~Precheck(WindowFor(k), m.sequence)
    BY <2>1, <2>2, <2>3, TracksRejects
  <2> QED
    BY <1>1, <2>4 DEF CanOpen, InCurrent, InPrevious, WindowFor
<1>6. UNCHANGED vars
  BY <1>5 DEF TimedDeliver, Receive, ReceiveRejected, ReceivePathChallenge, ReceiveKeyUpdate,
     ReceiveKeyUpdateAck, ReceiveTraffic, Arrives
<1>7. inflight' = {}
  BY <1>1, <1>2, <1>6, EmitsNothing DEF vars
<1>8. FlightInv'
  BY <1>7 DEF FlightInv
<1>9. DirectionInv(r)'
  BY <1>6, <1>7, AnsweringDirection DEF vars
<1>10. WindowFor(k)' = WindowFor(k) /\ HoldsAt(k)' /\ UnusedAt(k)' /\ DueAt(k)' /\ (Behind(k)' <=> Behind(k))
  BY <1>3, <1>6 DEF vars, WindowFor, HoldsAt, UnusedAt, DueAt, RekeyDue, Behind
<1>11. ~FreshAloft(k) /\ ~FreshAloft(k)'
  <2>1. m.sequence <= WindowFor(k).highest
    BY <1>1, <1>2, <1>3, <1>4, OpenedBelow
  <2>2. WindowFor(k).highest \in Int
    BY <1>1, <1>2, Numbers
  <2> QED
    BY <1>1, <1>7, <2>1, <2>2 DEF FreshAloft
<1>12. GapAt(k)'
  BY <1>1, <1>3, <1>6, <1>10, <1>11 DEF GapAt, vars
<1>13. /\ ~Flying(r, "KeyUpdate") /\ ~Flying(r, "KeyUpdate")'
       /\ ~Flying(r, "KeyUpdateAck") /\ ~Flying(r, "KeyUpdateAck")'
  BY <1>1, <1>7 DEF Flying
<1>14. LagAt(k)'
  BY <1>1, <1>3, <1>6, <1>13 DEF LagAt, Lead, vars
<1>15. PaceAt(k)'
  <2>1. Passes(k)' = Passes(k)
    BY <1>1, <1>6, <1>13 DEF Passes, Read, vars
  <2> QED
    BY <1>1, <1>3, <1>6, <1>10, <2>1 DEF PaceAt, Lead, vars
<1> QED
  BY <1>8, <1>9, <1>10, <1>12, <1>14, <1>15 DEF DirectionInv

\* An update that is opened is acknowledged, whether it installs an epoch or
\* names the one installed before.
LEMMA UpdateAcknowledged ==
    ASSUME Paced, RekeyInv, SequencesLeft, NEW r \in Node, NEW m \in inflight,
           TimedDeliver(r, m), m.type = "KeyUpdate", ~Read(Peer(r))
    PROVE  /\ ReceiveKeyUpdate(r, m) /\ CanOpen(r, m)
           /\ sendEpoch' = sendEpoch /\ sentInEpoch' = sentInEpoch /\ aged' = aged
           /\ pending' = pending
           /\ opened' = [opened EXCEPT ![r] = @ \cup {<<m.epoch, m.sequence>>}]
           /\ nextSequence' = [nextSequence EXCEPT ![r] = @ + 1]
           /\ net' = net \cup {Sealed(r, "KeyUpdateAck", m.next)}
           /\ inflight' = {Sealed(r, "KeyUpdateAck", m.next)}
           /\ Behind(Peer(r)) => KeepReceiverEpochs(r, m)
           /\ ~Behind(Peer(r)) => InstallNextEpoch(r, m) /\ current[r].epoch = m.epoch
<1> DEFINE k == Peer(r)
<1>1. /\ m.from = k /\ k \in Node /\ k # r /\ Peer(k) = r /\ inflight = {m} /\ InFlight(m)
      /\ m.epoch = sendEpoch[k] /\ inflight' = Emitted
      /\ m.next = m.epoch + 1
  BY Delivered
<1>2. SessionInv /\ HoldsAt(k)
  BY <1>1 DEF RekeyInv, DirectionInv
<1>3. CanOpen(r, m)
  BY DeliveryOpens
<1>4. ReceiveKeyUpdate(r, m)
  BY <1>3 DEF TimedDeliver, Receive, ReceiveRejected, ReceivePathChallenge, ReceiveTraffic,
     ReceiveKeyUpdateAck, Arrives
<1>5. sendEpoch[k] \in Nat /\ current[r].epoch \in Nat
  BY <1>1, <1>2, Numbers
<1>6. VerifyKeyUpdatePayload(m, m.epoch)
  BY <1>1 DEF VerifyKeyUpdatePayload
<1>7. /\ Behind(k) => current[r].epoch = m.next /\ m.epoch + 1 = current[r].epoch
                      /\ current[r].epoch + 1 # m.next
      /\ ~Behind(k) => current[r].epoch + 1 = m.next /\ current[r].epoch = m.epoch
  BY <1>1, <1>2, <1>5, HeldEpoch DEF Behind
<1>8. /\ sendEpoch' = sendEpoch /\ sentInEpoch' = sentInEpoch /\ aged' = aged
      /\ pending' = pending
      /\ opened' = [opened EXCEPT ![r] = @ \cup {<<m.epoch, m.sequence>>}]
  BY <1>4 DEF ReceiveKeyUpdate, Arrives
<1>9. /\ SealIfPossible(r, "KeyUpdateAck", m.next)
      /\ Behind(k) => KeepReceiverEpochs(r, m)
      /\ ~Behind(k) => InstallNextEpoch(r, m)
  BY <1>4, <1>6, <1>7 DEF ReceiveKeyUpdate
<1>10. /\ nextSequence' = [nextSequence EXCEPT ![r] = @ + 1]
       /\ net' = net \cup {Sealed(r, "KeyUpdateAck", m.next)}
  BY <1>9 DEF SealIfPossible, Seal, SequencesLeft
<1>11. Emitted = {Sealed(r, "KeyUpdateAck", m.next)}
  BY <1>2, <1>8, <1>10, EmitsOne, SealedNew
<1> QED
  BY <1>1, <1>3, <1>4, <1>7, <1>8, <1>9, <1>10, <1>11

\* An update is delivered for the first time.
LEMMA DeliverKeyUpdate ==
    ASSUME Paced, RekeyInv, SequencesLeft, NEW r \in Node, NEW m \in inflight,
           TimedDeliver(r, m), m.type = "KeyUpdate", ~Read(Peer(r))
    PROVE  FlightInv' /\ DirectionInv(r)' /\ DirectionInv(Peer(r))'
<1> DEFINE k == Peer(r)
           x == Sealed(r, "KeyUpdateAck", m.next)
<1>1. /\ m.from = k /\ k \in Node /\ k # r /\ Peer(k) = r /\ inflight = {m} /\ InFlight(m)
      /\ m \in net /\ m.epoch = sendEpoch[k] /\ m.next = m.epoch + 1
      /\ m.sequence \in Nat /\ m.sequence < nextSequence[k]
      /\ losses' = losses /\ passed' = passed
  BY Delivered
<1>2. SessionInv /\ RoundInv /\ DirectionInv(k) /\ DirectionInv(r)
  BY <1>1 DEF RekeyInv
<1>3. HoldsAt(k) /\ GapAt(k) /\ LagAt(k) /\ DueAt(k) /\ PaceAt(k) /\ UnusedAt(k)
  BY <1>2 DEF DirectionInv
<1>4. /\ CanOpen(r, m)
      /\ sendEpoch' = sendEpoch /\ sentInEpoch' = sentInEpoch /\ aged' = aged
      /\ pending' = pending
      /\ opened' = [opened EXCEPT ![r] = @ \cup {<<m.epoch, m.sequence>>}]
      /\ nextSequence' = [nextSequence EXCEPT ![r] = @ + 1]
      /\ net' = net \cup {x} /\ inflight' = {x}
      /\ Behind(k) => KeepReceiverEpochs(r, m)
      /\ ~Behind(k) => InstallNextEpoch(r, m) /\ current[r].epoch = m.epoch
  BY <1>1, UpdateAcknowledged
<1>5. /\ current \in [Node -> Cipher] /\ previous \in [Node -> Cipher \cup {NoCipher}]
      /\ retained \in [Node -> -1 .. Retention] /\ nextSequence \in [Node -> 0 .. MaxSequence + 1]
      /\ opened \in [Node -> SUBSET (Epoch \X (0 .. MaxSequence))]
  BY <1>2 DEF SessionInv, TypeOK
<1>6. /\ current'[k] = current[k] /\ previous'[k] = previous[k] /\ retained'[k] = retained[k]
      /\ opened'[k] = opened[k] /\ opened'[r] = opened[r] \cup {<<m.epoch, m.sequence>>}
      /\ nextSequence'[r] = nextSequence[r] + 1 /\ nextSequence'[k] = nextSequence[k]
  BY <1>1, <1>4, <1>5 DEF KeepReceiverEpochs, InstallNextEpoch
<1>7. /\ x.from = r /\ x.type = "KeyUpdateAck" /\ x.epoch = sendEpoch[r]
      /\ x.sequence = nextSequence[r] /\ x.next = m.next
  BY DEF Sealed
<1>8. DirectionInv(r)'
  BY <1>1, <1>4, <1>6, AnsweringDirection
<1> HIDE DEF x
<1>9. /\ pending[k] # NoKeyUpdate /\ m.sequence = pending[k].sequence
      /\ m.next = pending[k].nextEpoch
  BY <1>1 DEF InFlight, PendingPacket
<1>10. Read(k)'
  BY <1>1, <1>4, <1>6, <1>9 DEF Read
<1>11. /\ Flying(k, "KeyUpdate") /\ ~Flying(r, "KeyUpdate") /\ ~Flying(r, "KeyUpdateAck")
       /\ ~Flying(k, "KeyUpdate")' /\ ~Flying(r, "KeyUpdate")' /\ Flying(r, "KeyUpdateAck")'
  BY <1>1, <1>4, <1>7 DEF Flying
<1>12. Passes(k) = Cycle * losses /\ Passes(k)' = Cycle * losses
  BY <1>1, <1>4, <1>9, <1>10, <1>11 DEF Passes
<1>13. DirectionInv(k)' /\ Behind(k)'
  <2>1. CASE Behind(k)
    <3>1. DirectionInv(k)'
      BY <1>4, <1>6, <1>11, <1>12, <2>1, OpenedDirection
    <3>2. Behind(k)'
      BY <1>1, <1>2, <1>3, <1>4, <2>1, OpenRaises
    <3> QED
      BY <3>1, <3>2
  <2>2. CASE ~Behind(k)
    <3>1. /\ current'[r] = DeriveEpoch(m.next) /\ previous'[r] = CommittedCurrent(r, m)
          /\ retained'[r] = 0
      BY <1>4, <1>5, <2>2 DEF InstallNextEpoch
    <3>2. /\ current'[r].epoch = sendEpoch[k] + 1 /\ current'[r].window.highest = -1
      BY <1>1, <3>1 DEF DeriveEpoch, NewWindow, NoSequence
    <3>3. previous'[r].epoch = sendEpoch[k]
      BY <1>1, <1>2, <1>4, <2>2, <3>1, CommittedType DEF SessionInv
    <3>4. HoldsAt(k)' /\ Behind(k)'
      BY <1>1, <1>4, <3>2, <3>3 DEF HoldsAt, Behind
    <3>5. UnusedAt(k)'
      BY <1>1, <3>2 DEF UnusedAt, NoSequence
    <3>6. RekeyDue(k)
      BY <1>3, <1>9 DEF DueAt
    <3>7. DueAt(k)'
      BY <1>4, <3>6 DEF DueAt, RekeyDue
    <3>8. LagAt(k)'
      BY <1>1, <1>3, <1>4, <1>6, <1>11 DEF LagAt, Lead
    <3>9. PaceAt(k)'
      <4>1. Cycle * losses \in Nat
        BY <1>2, Budget
      <4>2. Lead(k)' \in {-1, 0, 1}
        BY DEF Lead
      <4> QED
        BY <1>1, <1>12, <3>1, <4>1, <4>2 DEF PaceAt
    <3>10. GapAt(k)'
      <4>1. sendEpoch[k] \in Nat /\ nextSequence[k] \in Nat /\ WindowFor(k).highest \in Int
        BY <1>1, <1>2, Numbers
      <4>2. losses \in Nat
        BY <1>2, Budget
      <4>3. WindowFor(k) = current[r].window /\ current[r].window \in Windows
        BY <1>1, <1>4, <1>5, <2>2 DEF WindowFor, Cipher
      <4>4. WindowFor(k)' = CommittedCurrent(r, m).window
        BY <1>1, <1>4, <3>1, <3>2, <4>1 DEF WindowFor
      <4>5. CommittedCurrent(r, m).window = Commit(current[r].window, m.sequence)
        <5>1. CommittedCurrent(r, m) = [current[r] EXCEPT !.window = Commit(@, m.sequence)]
          BY <1>4, <2>2 DEF CommittedCurrent, InCurrent
        <5> QED
          BY <1>5, <5>1 DEF Cipher
      <4>6. WindowFor(k)'.highest = IF m.sequence > WindowFor(k).highest THEN m.sequence
                                    ELSE WindowFor(k).highest
        BY <1>1, <4>3, <4>4, <4>5 DEF Commit, Windows, NoSequence
      <4>7. nextSequence[k] <= WindowFor(k)'.highest + 1 + losses
        <5>1. CASE FreshAloft(k)
          <6>1. m.sequence = nextSequence[k] - 1 /\ m.sequence > WindowFor(k).highest
            BY <1>1, <5>1 DEF FreshAloft
          <6> QED
            BY <1>1, <4>1, <4>2, <4>6, <6>1
        <5>2. CASE ~FreshAloft(k)
          BY <1>1, <1>3, <4>1, <4>2, <4>6, <5>2 DEF GapAt
        <5> QED
          BY <5>1, <5>2
      <4>8. WindowFor(k)'.highest \in Int /\ WindowFor(k)'.highest < nextSequence[k]
        BY <1>1, <1>3, <4>1, <4>6 DEF GapAt
      <4> QED
        BY <1>1, <1>6, <4>1, <4>2, <4>7, <4>8 DEF GapAt
    <3> QED
      BY <3>4, <3>5, <3>7, <3>8, <3>9, <3>10 DEF DirectionInv
  <2> QED
    BY <2>1, <2>2
<1>14. ASSUME NEW y, y = x PROVE InFlight(y)'
  <2>1. WindowFor(r)' = WindowFor(r)
    BY <1>4, <1>6 DEF WindowFor
  <2>2. /\ nextSequence[r] \in Nat /\ WindowFor(r).highest \in Int
        /\ WindowFor(r).highest < nextSequence[r]
    BY <1>2, Numbers DEF DirectionInv, GapAt
  <2>3. y.sequence = nextSequence'[r] - 1 /\ y.sequence > WindowFor(r)'.highest
    BY <1>6, <1>7, <1>14, <2>1, <2>2
  <2>4. pending[r] # NoKeyUpdate => pending[r].sequence < y.sequence
    BY <1>2, <1>7, <1>14 DEF SessionInv, EpochInv, PendingNext
  <2>5. /\ y \in net' /\ y.from = r /\ y.type = "KeyUpdateAck" /\ y.epoch = sendEpoch'[r]
        /\ y.next = pending'[k].nextEpoch /\ pending'[k] # NoKeyUpdate
    BY <1>4, <1>7, <1>9, <1>14
  <2> QED
    BY <1>4, <1>10, <1>13, <2>3, <2>4, <2>5 DEF InFlight
<1>15. FlightInv'
  <2>1. \A y \in inflight' : y = x
    BY <1>4
  <2> QED
    BY <1>14, <2>1 DEF FlightInv
<1> QED
  BY <1>8, <1>13, <1>15

\* An acknowledgement is delivered: the sender rotates to the epoch its
\* receiver has installed, in which nothing was opened yet.
LEMMA DeliverKeyUpdateAck ==
    ASSUME Paced, RekeyInv, NEW r \in Node, NEW m \in inflight, TimedDeliver(r, m),
           m.type = "KeyUpdateAck"
    PROVE  FlightInv' /\ DirectionInv(r)' /\ DirectionInv(Peer(r))'
<1> DEFINE k == Peer(r)
<1>1. /\ m.from = k /\ k \in Node /\ k # r /\ Peer(k) = r /\ inflight = {m} /\ InFlight(m)
      /\ m.epoch = sendEpoch[k] /\ inflight' = Emitted /\ losses' = losses
      /\ m.sequence \in Nat
  BY Delivered
<1>2. SessionInv /\ RoundInv /\ DirectionInv(r)
  BY DEF RekeyInv
<1>3. CanOpen(r, m)
  BY DeliveryOpens
<1>4. ReceiveKeyUpdateAck(r, m)
  BY <1>3 DEF TimedDeliver, Receive, ReceiveRejected, ReceivePathChallenge, ReceiveKeyUpdate,
     ReceiveTraffic, Arrives
<1>5. /\ pending[r] # NoKeyUpdate /\ m.next = pending[r].nextEpoch /\ Behind(r)
  BY <1>1 DEF InFlight
<1>6. m.next = sendEpoch[r] + 1 /\ VerifyKeyUpdatePayload(m, sendEpoch[r])
  BY <1>2, <1>5 DEF SessionInv, EpochInv, PendingNext, VerifyKeyUpdatePayload
<1>7. /\ KeepReceiverEpochs(r, m) /\ net' = net /\ retained' = retained
      /\ opened' = [opened EXCEPT ![r] = @ \cup {<<m.epoch, m.sequence>>}]
      /\ sendEpoch' = [sendEpoch EXCEPT ![r] = m.next]
      /\ nextSequence' = [nextSequence EXCEPT ![r] = 0]
      /\ sentInEpoch' = [sentInEpoch EXCEPT ![r] = 0]
      /\ aged' = [aged EXCEPT ![r] = FALSE]
      /\ pending' = [pending EXCEPT ![r] = NoKeyUpdate]
  BY <1>4, <1>5, <1>6 DEF ReceiveKeyUpdateAck, Arrives, KeepReceiverEpochs
<1>8. /\ current \in [Node -> Cipher] /\ previous \in [Node -> Cipher \cup {NoCipher}]
      /\ opened \in [Node -> SUBSET (Epoch \X (0 .. MaxSequence))]
      /\ sendEpoch \in [Node -> Epoch] /\ nextSequence \in [Node -> 0 .. MaxSequence + 1]
      /\ sentInEpoch \in [Node -> 0 .. KeyUpdatePacketLimit] /\ aged \in [Node -> BOOLEAN]
      /\ pending \in [Node -> PendingKeyUpdate \cup {NoKeyUpdate}]
  BY <1>2 DEF SessionInv, TypeOK
<1>9. /\ current'[k] = current[k] /\ sendEpoch'[r] = m.next /\ nextSequence'[r] = 0
      /\ pending'[r] = NoKeyUpdate
      /\ sendEpoch'[k] = sendEpoch[k] /\ nextSequence'[k] = nextSequence[k]
      /\ sentInEpoch'[k] = sentInEpoch[k] /\ aged'[k] = aged[k] /\ pending'[k] = pending[k]
      /\ opened'[r] = opened[r] \cup {<<m.epoch, m.sequence>>}
  BY <1>1, <1>7, <1>8 DEF KeepReceiverEpochs
<1>10. inflight' = {}
  <2>1. \A i \in Node : pending'[i] = pending[i] \/ pending'[i] = NoKeyUpdate
    BY <1>7, <1>8
  <2> QED
    BY <1>1, <1>2, <1>7, <2>1, EmitsNothing
<1>11. FlightInv'
  BY <1>10 DEF FlightInv
<1>12. DirectionInv(r)'
  <2>1. current'[k].epoch = sendEpoch'[r] /\ sendEpoch[r] \in Nat
    BY <1>2, <1>5, <1>6, <1>9, Numbers DEF Behind
  <2>2. HoldsAt(r)'
    BY <2>1 DEF HoldsAt
  <2>3. ~Behind(r)'
    BY <1>6, <1>9, <2>1 DEF Behind
  <2>4. WindowFor(r)'.highest = -1
    BY <1>2, <1>5, <1>9, <2>1 DEF DirectionInv, UnusedAt, WindowFor, NoSequence
  <2>5. losses \in Nat
    BY <1>2, Budget
  <2>6. GapAt(r)'
    BY <1>1, <1>9, <2>4, <2>5 DEF GapAt
  <2>7. LagAt(r)' /\ DueAt(r)' /\ PaceAt(r)' /\ UnusedAt(r)'
    BY <1>9, <2>3 DEF LagAt, DueAt, PaceAt, UnusedAt
  <2> QED
    BY <2>2, <2>6, <2>7 DEF DirectionInv
<1>13. Passes(k)' = Passes(k)
  <2>1. /\ ~Flying(k, "KeyUpdate") /\ ~Flying(r, "KeyUpdateAck")
        /\ ~Flying(k, "KeyUpdate")' /\ ~Flying(r, "KeyUpdateAck")'
    BY <1>1, <1>10 DEF Flying
  <2>2. pending[k] # NoKeyUpdate => (Read(k)' <=> Read(k))
    <3> SUFFICES ASSUME pending[k] # NoKeyUpdate PROVE Read(k)' <=> Read(k)
      OBVIOUS
    <3>1. pending[k].sequence < m.sequence /\ pending[k].sequence \in Nat
      BY <1>1, <1>2, Numbers DEF InFlight
    <3>2. <<sendEpoch[k], pending[k].sequence>> # <<m.epoch, m.sequence>>
      BY <1>1, <3>1
    <3> QED
      BY <1>1, <1>9, <3>2 DEF Read
  <2> QED
    BY <1>1, <1>9, <2>1, <2>2 DEF Passes
<1>14. ~Flying(r, "KeyUpdate")' /\ ~Flying(r, "KeyUpdate")
  BY <1>1, <1>10 DEF Flying
<1>15. DirectionInv(k)'
  BY <1>3, <1>7, <1>9, <1>13, <1>14, OpenedDirection
<1> QED
  BY <1>11, <1>12, <1>15

\* A datagram is lost.
LEMMA LoseOne ==
    ASSUME Paced, RekeyInv, NEW m \in inflight, Lose(m), NEW n \in Node
    PROVE  RoundInv' /\ FlightInv' /\ DirectionInv(n)'
<1>1. SessionInv /\ RoundInv /\ FlightInv /\ DirectionInv(n)
  BY DEF RekeyInv
<1>2. HoldsAt(n) /\ GapAt(n) /\ LagAt(n) /\ DueAt(n) /\ PaceAt(n) /\ UnusedAt(n)
  BY <1>1 DEF DirectionInv
<1>3. inflight' = {} /\ losses' = losses + 1 /\ UNCHANGED vars /\ passed' = passed
  BY <1>1 DEF Lose, FlightInv
<1>4. /\ losses \in Nat /\ Cycle \in Nat /\ Cycle * losses \in Nat
      /\ Cycle * (losses + 1) = Cycle * losses + Cycle /\ Cycle >= 2
      /\ Cycle = KeyUpdateMaxAttempts + 1
  BY <1>1, Budget
<1>5. RoundInv' /\ FlightInv'
  BY <1>1, <1>3, <1>4 DEF RoundInv, FlightInv, Lose, Paced
<1>6. /\ WindowFor(n).highest \in Int /\ nextSequence[n] \in Nat /\ pending[n].sequence \in Nat
      /\ pending[n].attempts \in Nat /\ Peer(n) \in Node
      /\ pending[n] # NoKeyUpdate => pending[n].attempts >= 1
  BY <1>1, Numbers, PeerFacts
<1>7. /\ WindowFor(n)' = WindowFor(n) /\ HoldsAt(n)' /\ UnusedAt(n)' /\ DueAt(n)'
      /\ (Behind(n)' <=> Behind(n)) /\ (Read(n)' <=> Read(n)) /\ Lead(n)' = Lead(n)
  BY <1>2, <1>3 DEF vars, WindowFor, HoldsAt, UnusedAt, DueAt, RekeyDue, Behind, Read, Lead
<1>8. /\ nextSequence' = nextSequence /\ pending' = pending /\ retained' = retained
  BY <1>3 DEF vars
<1>9. GapAt(n)'
  BY <1>2, <1>3, <1>4, <1>6, <1>7, <1>8 DEF GapAt
<1>10. /\ ~Flying(n, "KeyUpdate")' /\ ~Flying(Peer(n), "KeyUpdate")'
       /\ ~Flying(Peer(n), "KeyUpdateAck")'
  BY <1>3 DEF Flying
<1>11. Lead(n) \in Int
  BY DEF Lead
<1>12. LagAt(n)'
  BY <1>2, <1>6, <1>7, <1>8, <1>10, <1>11 DEF LagAt
<1>13. PaceAt(n)'
  <2>1. Passes(n) \in Int /\ Passes(n)' \in Int /\ Passes(n) <= Passes(n)'
    <3>1. Passes(n)' = IF pending[n] = NoKeyUpdate THEN Cycle * losses + Cycle - 1
                       ELSE IF Read(n) THEN Cycle * losses + pending[n].attempts - 1
                       ELSE Cycle * losses
      BY <1>3, <1>4, <1>6, <1>7, <1>8, <1>10 DEF Passes
    <3> QED
      BY <1>4, <1>6, <3>1, Numbers, <1>1 DEF Passes
  <2>2. retained[Peer(n)] \in Int
    BY <1>1, <1>6, Numbers
  <2> QED
    BY <1>2, <1>7, <1>8, <1>11, <2>1, <2>2 DEF PaceAt
<1> QED
  BY <1>5, <1>7, <1>9, <1>12, <1>13 DEF DirectionInv

\* An epoch ages: its rekey falls due.
LEMMA AgeOne ==
    ASSUME RekeyInv, NEW k \in Node, TimedAges(k), NEW n \in Node
    PROVE  RoundInv' /\ FlightInv' /\ DirectionInv(n)'
<1>1. RoundInv /\ FlightInv /\ DirectionInv(n)
  BY DEF RekeyInv
<1>2. /\ UNCHANGED <<sendEpoch, nextSequence, sentInEpoch, pending, current, previous, retained,
                     net, opened, inflight, passed, losses>>
      /\ aged' = [aged EXCEPT ![k] = TRUE]
  BY DEF TimedAges, EpochAges, receiverVars
<1>3. RoundInv'
  BY <1>1, <1>2 DEF RoundInv
<1>4. FlightInv'
  BY <1>1, <1>2 DEF FlightInv, InFlight, PendingPacket, WindowFor, Behind, Read
<1>5. RekeyDue(n) => RekeyDue(n)'
  <2>1. aged \in [Node -> BOOLEAN]
    BY DEF RekeyInv, SessionInv, TypeOK
  <2> QED
    BY <1>2, <2>1 DEF RekeyDue
<1>6. DueAt(n)'
  BY <1>1, <1>2, <1>5 DEF DirectionInv, DueAt, Behind
<1>7. HoldsAt(n)' /\ GapAt(n)' /\ LagAt(n)' /\ PaceAt(n)' /\ UnusedAt(n)'
  BY <1>1, <1>2 DEF DirectionInv, HoldsAt, GapAt, LagAt, PaceAt, UnusedAt, WindowFor, FreshAloft,
     Flying, Lead, Behind, Passes, Read
<1> QED
  BY <1>3, <1>4, <1>6, <1>7 DEF DirectionInv

\* The rekey stays in order, step by step.
LEMMA RekeyStep ==
    ASSUME Paced, SequencesLeft, RekeyInv, [TimedNext]_timedVars
    PROVE  RekeyInv'
<1>1. SessionInv'
  BY SessionKept DEF RekeyInv
<1>2. SUFFICES RoundInv' /\ FlightInv' /\ \A n \in Node : DirectionInv(n)'
  BY <1>1 DEF RekeyInv
<1>3. \A n \in Node : \A i \in Node : i = n \/ i = Peer(n)
  BY DEF Node, Peer
<1>4. ASSUME NEW n \in Node, TimedMaintain(n)
      PROVE  RoundInv' /\ FlightInv' /\ \A i \in Node : DirectionInv(i)'
  <2>1. RoundInv'
    BY <1>4, PassLead DEF RoundInv, RekeyInv, TimedMaintain
  <2>2. DirectionInv(n)' /\ DirectionInv(Peer(n))' /\ FlightInv'
    BY <1>4, PassTransmits, PassReceives, PassFlight
  <2> QED
    BY <1>3, <2>1, <2>2
<1>5. ASSUME NEW n \in Node, TimedAges(n)
      PROVE  RoundInv' /\ FlightInv' /\ \A i \in Node : DirectionInv(i)'
  BY <1>5, AgeOne
<1>6. ASSUME NEW n \in Node, NEW m \in inflight, TimedDeliver(n, m)
      PROVE  RoundInv' /\ FlightInv' /\ \A i \in Node : DirectionInv(i)'
  <2>1. RoundInv'
    BY <1>6 DEF RoundInv, RekeyInv, TimedDeliver
  <2>2. m.type \in {"KeyUpdate", "KeyUpdateAck", "Keepalive"}
    BY DEF RekeyInv, FlightInv, InFlight
  <2>3. DirectionInv(n)' /\ DirectionInv(Peer(n))' /\ FlightInv'
    BY <1>6, <2>2, DeliverKeepalive, DeliverAgain, DeliverKeyUpdate, DeliverKeyUpdateAck
  <2> QED
    BY <1>3, <2>1, <2>3
<1>7. ASSUME NEW m \in inflight, Lose(m)
      PROVE  RoundInv' /\ FlightInv' /\ \A i \in Node : DirectionInv(i)'
  BY <1>7, LoseOne DEF Node
<1>8. ASSUME UNCHANGED timedVars
      PROVE  RoundInv' /\ FlightInv' /\ \A i \in Node : DirectionInv(i)'
  <2>1. RoundInv' /\ FlightInv'
    BY <1>8 DEF RekeyInv, RoundInv, FlightInv, InFlight, PendingPacket, WindowFor, Behind, Read,
       timedVars, vars
  <2>2. ASSUME NEW i \in Node PROVE DirectionInv(i)'
    BY <1>8 DEF RekeyInv, DirectionInv, HoldsAt, GapAt, LagAt, DueAt, RekeyDue, PaceAt, UnusedAt,
       WindowFor, FreshAloft, Flying, Lead, Behind, Passes, Read, timedVars, vars
  <2> QED
    BY <2>1, <2>2
<1> QED
  BY <1>4, <1>5, <1>6, <1>7, <1>8 DEF TimedNext

\* It starts in order.
LEMMA RekeyInit ==
    ASSUME Paced, TimedInit PROVE RekeyInv
<1>1. SessionInv
  BY TypeInit, EpochInit, ReceiverInit DEF TimedInit, SessionInv
<1>2. RoundInv /\ FlightInv
  BY DEF TimedInit, RoundInv, FlightInv, Paced
<1>3. ASSUME NEW n \in Node PROVE DirectionInv(n)
  <2>1. /\ Peer(n) \in Node /\ sendEpoch[n] = 0 /\ nextSequence[n] = 0
        /\ pending[n] = NoKeyUpdate /\ current[Peer(n)] = DeriveEpoch(0)
        /\ inflight = {} /\ losses = 0
    BY PeerFacts DEF TimedInit, Init
  <2>2. current[Peer(n)].epoch = 0 /\ current[Peer(n)].window.highest = -1
    BY <2>1 DEF DeriveEpoch, NewWindow, NoSequence
  <2>3. ~Behind(n) /\ WindowFor(n).highest = -1 /\ HoldsAt(n)
    BY <2>1, <2>2 DEF Behind, WindowFor, HoldsAt
  <2> QED
    BY <2>1, <2>3 DEF DirectionInv, GapAt, LagAt, DueAt, PaceAt, UnusedAt
<1> QED
  BY <1>1, <1>2, <1>3 DEF RekeyInv

\* Whatever an end seals, its peer still holds the key for, through every rekey:
\* a receiver never gives up the epoch its sender seals in
\* (maintain_established, retire_previous_epoch), when the retention is longer
\* than a cycle of retries for each datagram the network loses.
THEOREM SenderEpochHeld ==
    ASSUME Paced
    PROVE  TimedSpec /\ []SequencesLeft => []ReceiverHoldsSenderEpoch
<1>1. TimedInit => RekeyInv
  BY RekeyInit
<1>2. SequencesLeft /\ RekeyInv /\ [TimedNext]_timedVars => RekeyInv'
  BY RekeyStep
<1>3. RekeyInv => ReceiverHoldsSenderEpoch
  BY DEF RekeyInv, DirectionInv, HoldsAt, ReceiverHoldsSenderEpoch
<1> QED
  BY <1>1, <1>2, <1>3, PTL DEF TimedSpec
===============================================================================
