------------------------------ MODULE DataSession ------------------------------
(***************************************************************************)
(* One established XSP/1 session between two agents: the DataSender and    *)
(* DataReceiver of each end, the per-direction key epochs and their        *)
(* KeyUpdate / KeyUpdateAck rotation, and the maintenance pass that        *)
(* retries, expires and retires.  The network keeps every datagram ever    *)
(* sent and may deliver any of them at any time, any number of times, or   *)
(* never: it loses, duplicates, delays and reorders without limit.         *)
(***************************************************************************)
EXTENDS ReplayWindow

CONSTANTS
    A, B,                    \* the two agents
    Talkers,                 \* the ends that originate packets and rekey
    Traffic,                 \* the packet types the ends send of their own accord
    MaxEpoch,                \* bound on key epochs (u32::MAX in the code)
    MaxSequence,             \* bound on sequences (u64::MAX in the code)
    KeyUpdatePacketLimit,    \* KEY_UPDATE_PACKET_LIMIT: 2^20 data packets
    KeyUpdateMaxAttempts,    \* KEY_UPDATE_MAX_ATTEMPTS: 6
    Retention                \* PREVIOUS_EPOCH_RETENTION, in maintenance passes

ASSUME SessionAssumption ==
    /\ A # B
    /\ Talkers \subseteq {A, B}
    /\ Traffic \subseteq {"Data", "Keepalive", "PathChallenge"}
    /\ MaxEpoch \in Nat
    /\ MaxSequence \in Nat
    /\ KeyUpdatePacketLimit \in Nat \ {0}
    /\ KeyUpdateMaxAttempts \in Nat \ {0}
    /\ Retention \in Nat \ {0}

VARIABLES
    sendEpoch,       \* DataSender.epoch of each end
    nextSequence,    \* DataSender.next_sequence
    sentInEpoch,     \* sent_packets_in_epoch, saturating at the limit
    aged,            \* epoch_started_at is KEY_UPDATE_INTERVAL ago
    pending,         \* outbound_key_update
    current,         \* DataReceiver.current: epoch and replay window
    previous,        \* DataReceiver.previous
    retained,        \* passes since previous_epoch_installed_at; NotRetained for None
    net,             \* every datagram sent so far
    opened           \* history: the (epoch, sequence) pairs each end has opened

senderVars == <<sendEpoch, nextSequence, sentInEpoch, aged, pending>>
receiverVars == <<current, previous, retained, opened>>
vars == <<sendEpoch, nextSequence, sentInEpoch, aged, pending,
          current, previous, retained, net, opened>>

Node == {A, B}
Peer(n) == IF n = A THEN B ELSE A

Epoch == 0 .. MaxEpoch
NoEpoch == -1
NotRetained == -1
PacketType == {"Data", "Keepalive", "PathChallenge", "PathResponse",
               "KeyUpdate", "KeyUpdateAck"}

\* A sealed packet.  Its nonce is the epoch's salt and the sequence; next is
\* the epoch a KeyUpdate or its acknowledgement names in its payload.
Packet == [from : Node, type : PacketType, epoch : Epoch,
           sequence : 0 .. MaxSequence, next : Epoch \cup {NoEpoch}]

\* EpochCipher: what a receive epoch keeps.
Cipher == [epoch : Epoch, window : Windows]
NoCipher == [epoch |-> NoEpoch, window |-> NewWindow]

PendingKeyUpdate == [nextEpoch : Epoch, sequence : 0 .. MaxSequence,
                     attempts : 1 .. KeyUpdateMaxAttempts]
NoKeyUpdate == [nextEpoch |-> NoEpoch, sequence |-> 0, attempts |-> 0]

TypeOK ==
    /\ sendEpoch \in [Node -> Epoch]
    /\ nextSequence \in [Node -> 0 .. MaxSequence + 1]
    /\ sentInEpoch \in [Node -> 0 .. KeyUpdatePacketLimit]
    /\ aged \in [Node -> BOOLEAN]
    /\ pending \in [Node -> PendingKeyUpdate \cup {NoKeyUpdate}]
    /\ current \in [Node -> Cipher]
    /\ previous \in [Node -> Cipher \cup {NoCipher}]
    /\ retained \in [Node -> -1 .. Retention]
    /\ net \subseteq Packet
    /\ opened \in [Node -> SUBSET (Epoch \X (0 .. MaxSequence))]

\* derive_epoch: a new receive epoch starts with an empty replay window.
DeriveEpoch(epoch) == [epoch |-> epoch, window |-> NewWindow]

\* install_session of both ends after the handshake.
Init ==
    /\ sendEpoch = [n \in Node |-> 0]
    /\ nextSequence = [n \in Node |-> 0]
    /\ sentInEpoch = [n \in Node |-> 0]
    /\ aged = [n \in Node |-> FALSE]
    /\ pending = [n \in Node |-> NoKeyUpdate]
    /\ current = [n \in Node |-> DeriveEpoch(0)]
    /\ previous = [n \in Node |-> NoCipher]
    /\ retained = [n \in Node |-> NotRetained]
    /\ net = {}
    /\ opened = [n \in Node |-> {}]

-------------------------------------------------------------------------------
\* DataSender::seal succeeds while sequences are left.
CanSeal(n) == nextSequence[n] <= MaxSequence

Sealed(n, type, next) ==
    [from |-> n, type |-> type, epoch |-> sendEpoch[n],
     sequence |-> nextSequence[n], next |-> next]

\* DataSender::seal
Seal(n, type, next) ==
    /\ CanSeal(n)
    /\ net' = net \cup {Sealed(n, type, next)}
    /\ nextSequence' = [nextSequence EXCEPT ![n] = @ + 1]

\* A seal whose failure the handler swallows (.ok(), .into_iter()).
SealIfPossible(n, type, next) ==
    IF CanSeal(n) THEN Seal(n, type, next) ELSE UNCHANGED <<net, nextSequence>>

\* forward_tun on an established peer, for a packet of the tunnel.
ForwardTun(n) ==
    /\ n \in Talkers
    /\ "Data" \in Traffic
    /\ Seal(n, "Data", NoEpoch)
    /\ sentInEpoch' = [sentInEpoch EXCEPT
                        ![n] = IF @ < KeyUpdatePacketLimit THEN @ + 1 ELSE @]
    /\ UNCHANGED <<sendEpoch, aged, pending, receiverVars>>

\* create_path_probe: an encrypted challenge to a candidate endpoint.
SendPathChallenge(n) ==
    /\ n \in Talkers
    /\ "PathChallenge" \in Traffic
    /\ Seal(n, "PathChallenge", NoEpoch)
    /\ UNCHANGED <<sendEpoch, sentInEpoch, aged, pending, receiverVars>>

\* KEY_UPDATE_INTERVAL passes since the sending epoch started.
EpochAges(n) ==
    /\ n \in Talkers
    /\ ~aged[n]
    /\ aged' = [aged EXCEPT ![n] = TRUE]
    /\ UNCHANGED <<sendEpoch, nextSequence, sentInEpoch, pending, receiverVars, net>>

-------------------------------------------------------------------------------
\* The receive epoch a packet belongs to, and whether it is still fresh there.
InCurrent(n, m) == m.epoch = current[n].epoch
InPrevious(n, m) == ~InCurrent(n, m) /\ m.epoch = previous[n].epoch

\* DataReceiver::open accepts: a known epoch whose replay window passes the
\* sequence.  Authentication itself always succeeds: packets are the peer's.
CanOpen(n, m) ==
    \/ InCurrent(n, m) /\ Precheck(current[n].window, m.sequence)
    \/ InPrevious(n, m) /\ Precheck(previous[n].window, m.sequence)

\* The receive epochs after the commit that ends DataReceiver::open.
CommittedCurrent(n, m) ==
    IF InCurrent(n, m)
    THEN [current[n] EXCEPT !.window = Commit(@, m.sequence)]
    ELSE current[n]
CommittedPrevious(n, m) ==
    IF InPrevious(n, m)
    THEN [previous[n] EXCEPT !.window = Commit(@, m.sequence)]
    ELSE previous[n]

Arrives(n, m, type) ==
    /\ m.from = Peer(n)
    /\ m.type \in type
    /\ CanOpen(n, m)
    /\ opened' = [opened EXCEPT ![n] = @ \cup {<<m.epoch, m.sequence>>}]

KeepReceiverEpochs(n, m) ==
    /\ current' = [current EXCEPT ![n] = CommittedCurrent(n, m)]
    /\ previous' = [previous EXCEPT ![n] = CommittedPrevious(n, m)]
    /\ UNCHANGED retained

\* handle_data for Data, Keepalive and PathResponse: nothing but the commit
\* touches the session.
ReceiveTraffic(n, m) ==
    /\ Arrives(n, m, {"Data", "Keepalive", "PathResponse"})
    /\ KeepReceiverEpochs(n, m)
    /\ UNCHANGED <<senderVars, net>>

\* handle_data for PathChallenge: the response is sealed on the spot.
ReceivePathChallenge(n, m) ==
    /\ Arrives(n, m, {"PathChallenge"})
    /\ KeepReceiverEpochs(n, m)
    /\ SealIfPossible(n, "PathResponse", NoEpoch)
    /\ UNCHANGED <<sendEpoch, sentInEpoch, aged, pending>>

\* verify_key_update_payload: the payload binds exactly epoch and epoch + 1.
VerifyKeyUpdatePayload(m, epoch) == m.next = epoch + 1

\* Mutant: the epoch is installed before the packet is committed.
InstallBeforeCommit(n, m) ==
    /\ current' = [current EXCEPT ![n] = DeriveEpoch(m.next)]
    /\ previous' = [previous EXCEPT ![n] = current[n]]
    /\ retained' = [retained EXCEPT ![n] = 0]

\* Mutant: installing an epoch forgets the one before it.
InstallForgetting(n, m) ==
    /\ current' = [current EXCEPT ![n] = DeriveEpoch(m.next)]
    /\ previous' = [previous EXCEPT ![n] = NoCipher]
    /\ retained' = [retained EXCEPT ![n] = 0]

\* install_next_epoch: the packet's epoch is the current one, so it becomes
\* the previous one, with the sequence just committed.
InstallNextEpoch(n, m) ==
    /\ current' = [current EXCEPT ![n] = DeriveEpoch(m.next)]
    /\ previous' = [previous EXCEPT ![n] = CommittedCurrent(n, m)]
    /\ retained' = [retained EXCEPT ![n] = 0]

\* handle_key_update: install the next epoch, or acknowledge again an update
\* that is already installed.
ReceiveKeyUpdate(n, m) ==
    /\ Arrives(n, m, {"KeyUpdate"})
    /\ IF VerifyKeyUpdatePayload(m, m.epoch) /\ current[n].epoch + 1 = m.next
       THEN /\ InstallNextEpoch(n, m)
            /\ SealIfPossible(n, "KeyUpdateAck", m.next)
       ELSE /\ KeepReceiverEpochs(n, m)
            /\ IF /\ VerifyKeyUpdatePayload(m, m.epoch)
                  /\ current[n].epoch = m.next
                  /\ m.epoch + 1 = current[n].epoch
               THEN SealIfPossible(n, "KeyUpdateAck", m.next)
               ELSE UNCHANGED <<net, nextSequence>>
    /\ UNCHANGED <<sendEpoch, sentInEpoch, aged, pending>>

\* Mutant: any acknowledgement up to the next epoch rotates the sender, one
\* that repeats an earlier acknowledgement too.
AckRepeated(n, m) ==
    /\ Arrives(n, m, {"KeyUpdateAck"})
    /\ KeepReceiverEpochs(n, m)
    /\ IF m.next <= sendEpoch[n] + 1
       THEN /\ sendEpoch' = [sendEpoch EXCEPT ![n] = m.next]
            /\ nextSequence' = [nextSequence EXCEPT ![n] = 0]
            /\ sentInEpoch' = [sentInEpoch EXCEPT ![n] = 0]
            /\ aged' = [aged EXCEPT ![n] = FALSE]
            /\ pending' = [pending EXCEPT ![n] = NoKeyUpdate]
       ELSE UNCHANGED senderVars
    /\ UNCHANGED net

\* handle_key_update_ack: a matching acknowledgement of the outstanding update
\* rotates the sender; any other is ignored.
ReceiveKeyUpdateAck(n, m) ==
    /\ Arrives(n, m, {"KeyUpdateAck"})
    /\ KeepReceiverEpochs(n, m)
    /\ IF /\ pending[n] # NoKeyUpdate
          /\ VerifyKeyUpdatePayload(m, sendEpoch[n])
          /\ m.next = pending[n].nextEpoch
       THEN /\ sendEpoch' = [sendEpoch EXCEPT ![n] = m.next]
            /\ nextSequence' = [nextSequence EXCEPT ![n] = 0]
            /\ sentInEpoch' = [sentInEpoch EXCEPT ![n] = 0]
            /\ aged' = [aged EXCEPT ![n] = FALSE]
            /\ pending' = [pending EXCEPT ![n] = NoKeyUpdate]
       ELSE UNCHANGED senderVars
    /\ UNCHANGED net

\* A packet of an unknown epoch, or one the replay window has seen or lost
\* sight of, is dropped without a trace.
ReceiveRejected(n, m) ==
    /\ m.from = Peer(n)
    /\ ~CanOpen(n, m)
    /\ UNCHANGED vars

-------------------------------------------------------------------------------
\* maintain_established, at a pass where the retry interval has elapsed.  It
\* first retires the previous receive epoch when its retention is over.
RetireDue(n) == retained[n] = Retention

\* Mutant: the retention is mistaken for one retry interval.
RetireSoon(n) ==
    /\ previous' = IF retained[n] >= 1 THEN [previous EXCEPT ![n] = NoCipher] ELSE previous
    /\ retained' = [retained EXCEPT
                     ![n] = IF @ >= 1 THEN NotRetained
                            ELSE IF @ = NotRetained THEN @ ELSE @ + 1]
    /\ UNCHANGED <<current, opened>>

RetireIfDue(n) ==
    /\ previous' = IF RetireDue(n) THEN [previous EXCEPT ![n] = NoCipher] ELSE previous
    /\ retained' = [retained EXCEPT
                     ![n] = IF @ = Retention THEN NotRetained
                            ELSE IF @ = NotRetained THEN @ ELSE @ + 1]
    /\ UNCHANGED <<current, opened>>

RekeyDue(n) == sentInEpoch[n] >= KeyUpdatePacketLimit \/ aged[n]

PendingPacket(n) ==
    [from |-> n, type |-> "KeyUpdate", epoch |-> sendEpoch[n],
     sequence |-> pending[n].sequence, next |-> pending[n].nextEpoch]

\* RetryAction::Send: the same bytes, hence the same sequence, once more.
ResendKeyUpdate(n) ==
    /\ pending[n] # NoKeyUpdate
    /\ pending[n].attempts < KeyUpdateMaxAttempts
    /\ pending' = [pending EXCEPT ![n].attempts = @ + 1]
    /\ net' = net \cup {PendingPacket(n)}
    /\ UNCHANGED <<sendEpoch, nextSequence, sentInEpoch, aged>>

\* Mutant: an update whose retries are exhausted stays outstanding.
ExpireForgotten(n) ==
    /\ pending[n] # NoKeyUpdate
    /\ pending[n].attempts >= KeyUpdateMaxAttempts
    /\ UNCHANGED <<senderVars, net>>

\* RetryAction::Expired: the update is given up; the next pass starts afresh.
ExpireKeyUpdate(n) ==
    /\ pending[n] # NoKeyUpdate
    /\ pending[n].attempts >= KeyUpdateMaxAttempts
    /\ pending' = [pending EXCEPT ![n] = NoKeyUpdate]
    /\ UNCHANGED <<sendEpoch, nextSequence, sentInEpoch, aged, net>>

\* Mutant: the sender rotates when it announces the epoch, unacknowledged.
StartAndRotate(n) ==
    /\ pending[n] = NoKeyUpdate
    /\ RekeyDue(n)
    /\ sendEpoch[n] < MaxEpoch
    /\ CanSeal(n)
    /\ net' = net \cup {Sealed(n, "KeyUpdate", sendEpoch[n] + 1)}
    /\ sendEpoch' = [sendEpoch EXCEPT ![n] = @ + 1]
    /\ nextSequence' = [nextSequence EXCEPT ![n] = 0]
    /\ UNCHANGED <<sentInEpoch, aged, pending>>

\* A new update, in a packet of the epoch it ends.
StartKeyUpdate(n) ==
    /\ pending[n] = NoKeyUpdate
    /\ RekeyDue(n)
    /\ sendEpoch[n] < MaxEpoch
    /\ Seal(n, "KeyUpdate", sendEpoch[n] + 1)
    /\ pending' = [pending EXCEPT ![n] = [nextEpoch |-> sendEpoch[n] + 1,
                                          sequence |-> nextSequence[n],
                                          attempts |-> 1]]
    /\ UNCHANGED <<sendEpoch, sentInEpoch, aged>>

SendKeepalive(n) ==
    /\ pending[n] = NoKeyUpdate
    /\ ~RekeyDue(n)
    /\ "Keepalive" \in Traffic
    /\ Seal(n, "Keepalive", NoEpoch)
    /\ UNCHANGED <<sendEpoch, sentInEpoch, aged, pending>>

NothingDue(n) ==
    /\ pending[n] = NoKeyUpdate
    /\ ~RekeyDue(n)
    /\ UNCHANGED <<senderVars, net>>

Maintain(n) ==
    /\ RetireIfDue(n)
    /\ \/ ResendKeyUpdate(n)
       \/ ExpireKeyUpdate(n)
       \/ StartKeyUpdate(n)
       \/ SendKeepalive(n)
       \/ NothingDue(n)

Receive(n, m) ==
    \/ ReceiveTraffic(n, m)
    \/ ReceivePathChallenge(n, m)
    \/ ReceiveKeyUpdate(n, m)
    \/ ReceiveKeyUpdateAck(n, m)

\* To reject a packet is to stutter: it is no step of its own here.
Next ==
    \E n \in Node :
        \/ ForwardTun(n)
        \/ SendPathChallenge(n)
        \/ EpochAges(n)
        \/ Maintain(n)
        \/ \E m \in net : Receive(n, m)

Spec == Init /\ [][Next]_vars

-------------------------------------------------------------------------------
\* The sender never seals two packets under one nonce: whatever it sealed
\* before lies in an older epoch or below next_sequence, through every
\* rotation, stale acknowledgement and retry (DataSender::seal, rotate_epoch).
FreshNonce ==
    \A m \in net :
        \/ m.epoch < sendEpoch[m.from]
        \/ m.epoch = sendEpoch[m.from] /\ m.sequence < nextSequence[m.from]

\* No packet is opened twice, even when it arrives again after its epoch
\* became the previous one or was retired (DataReceiver::open).
NeverReopened ==
    \A n \in Node : \A m \in net :
        m.from = Peer(n) /\ <<m.epoch, m.sequence>> \in opened[n] => ~CanOpen(n, m)

\* The two ends of a direction are at most one epoch apart, the receiver
\* ahead: a sender rotates only after the receiver has installed the epoch,
\* and a receiver never runs two epochs ahead of what the sender confirmed
\* (handle_key_update, handle_key_update_ack).
EpochsAdjacent ==
    \A n \in Node :
        /\ sendEpoch[n] <= current[Peer(n)].epoch
        /\ current[Peer(n)].epoch <= sendEpoch[n] + 1

\* No fresh packet is turned away: one never opened whose epoch is current, or
\* was current until at most Retention passes ago, opens, as long as it is
\* neither WindowBits behind nor MaxAdvance ahead of what was opened.  Installing
\* the next epoch loses nothing that is still underway (install_next_epoch,
\* retire_previous_epoch).
FreshPacketsOpen ==
    \A n \in Node : \A m \in net :
        /\ m.from = Peer(n)
        /\ <<m.epoch, m.sequence>> \notin opened[n]
        /\ \/ m.epoch = current[n].epoch
           \/ m.epoch + 1 = current[n].epoch /\ retained[n] # NotRetained
        /\ m.sequence <= MaxAdvance
        /\ \A s \in 0 .. MaxSequence :
                <<m.epoch, s>> \in opened[n] => s - m.sequence < WindowBits
        => CanOpen(n, m)
===============================================================================
