------------------------------ MODULE XsnetDriver ------------------------------
(***************************************************************************)
(* The xsnet virtual NIC of drivers/windows-xsnet and the agent's client   *)
(* of it (windows_xsnet.rs over the windows-transport crate).              *)
(*                                                                         *)
(* Control requests come through one sequential queue; file cleanup, power *)
(* callbacks and the packet-queue callbacks of NetAdapterCx run beside it. *)
(* Each takes the session lock once, so its locked part is one action; the *)
(* link state is set after the lock is released, as an action of its own.  *)
(* Packets carry the owner they were queued under and a size; MTU and      *)
(* queue depth are the two limits an Attach negotiates.                    *)
(***************************************************************************)
EXTENDS Integers, Sequences

CONSTANTS
    Files,           \* numbers of file objects, in the order they are opened
    Limits,          \* records [mtu, depth] a client may attach with
    MaxPacketSize,   \* XSNET_ABI_MAX_PACKET_SIZE
    LastSequence,    \* stands for u64::MAX, where a client refuses to go on
    PowerCycles      \* bound on D0 exits

ASSUME DriverAssumption ==
    /\ \A l \in Limits : l.mtu \in 1..MaxPacketSize /\ l.depth \in Nat \ {0}
    /\ MaxPacketSize \in Nat
    /\ Files \subseteq Nat \ {0} /\ LastSequence \in Nat /\ PowerCycles \in Nat

VARIABLES
    session,         \* XsnetSession
    packets,         \* transmit_packets and receive_packets
    queueMtu,        \* their mtu
    netQueue,        \* NetAdapterCx queues: "none", "created", "started"
    nic,             \* adapter_started, the reported link, in D0, cycles so far
    file,            \* XsnetFileContext, and how far its cleanup is
    nextCookie,
    handling,        \* the control request past its locked part
    client           \* XsnetClient of each file

driverVars == <<session, packets, queueMtu, netQueue, nic, file, nextCookie, handling,
                client>>

Directions == {"tx", "rx"}
NoLimit == [mtu |-> 0, depth |-> 0]
ClosedSession == [state |-> "Closed", owner |-> 0, last |-> 0, limit |-> NoLimit]
NoPackets == [d \in Directions |-> <<>>]
NoRequest == [kind |-> "none"]
Idle == [file |-> 0, ok |-> FALSE, link |-> "keep"]
OpenedClient == [state |-> "Opened", next |-> 1, pending |-> NoRequest, limit |-> NoLimit]

DriverInit ==
    /\ session = ClosedSession
    /\ packets = NoPackets
    /\ queueMtu = MaxPacketSize
    /\ netQueue = [d \in Directions |-> "none"]
    /\ nic = [started |-> FALSE, connected |-> FALSE, powered |-> FALSE, cycles |-> 0]
    /\ file = [f \in Files |-> [accepted |-> FALSE, cookie |-> 0, stage |-> "new"]]
    /\ nextCookie = 0
    /\ handling = Idle
    /\ client = [f \in Files |-> OpenedClient]

(***************************************************************************)
(* Power and PnP.                                                          *)
(***************************************************************************)

\* XsnetAdapterSetConnected: nothing happens on a stopped adapter.
SetConnected(up) ==
    nic' = IF nic.started THEN [nic EXCEPT !.connected = up] ELSE nic

\* Mutant: the queued packets survive the reset.
ResetSessionKeepsPackets ==
    /\ session' = ClosedSession
    /\ queueMtu' = MaxPacketSize
    /\ UNCHANGED packets

XsnetResetSession ==
    /\ session' = ClosedSession
    /\ packets' = NoPackets
    /\ queueMtu' = MaxPacketSize

PrepareHardware ==
    /\ ~nic.started
    /\ nic' = [nic EXCEPT !.started = TRUE, !.connected = FALSE, !.powered = TRUE]
    /\ UNCHANGED <<session, packets, queueMtu, netQueue, file, nextCookie, handling, client>>

\* D0 exit resets the session under the lock and disconnects; the file contexts
\* keep the cookie of the session that is gone.  A handler under way returns
\* first: XsnetEvtIoStop, which would complete its request as cancelled beside
\* it, is left out.
D0Exit ==
    /\ nic.powered /\ nic.cycles < PowerCycles
    /\ handling = Idle
    /\ XsnetResetSession
    /\ nic' = [nic EXCEPT !.powered = FALSE, !.connected = FALSE, !.cycles = @ + 1]
    /\ UNCHANGED <<netQueue, file, nextCookie, handling, client>>

\* Back to D0, or on to hardware release, which stops the adapter.
D0Entry ==
    /\ nic.started /\ ~nic.powered
    /\ nic' = [nic EXCEPT !.powered = TRUE, !.connected = FALSE]
    /\ UNCHANGED <<session, packets, queueMtu, netQueue, file, nextCookie, handling, client>>

ReleaseHardware ==
    /\ nic.started /\ ~nic.powered
    /\ XsnetResetSession
    /\ nic' = [nic EXCEPT !.started = FALSE, !.connected = FALSE]
    /\ netQueue' = [d \in Directions |-> "none"]
    /\ UNCHANGED <<file, nextCookie, handling, client>>

(***************************************************************************)
(* NetAdapterCx packet queues.                                             *)
(***************************************************************************)

CreateQueue(d) ==
    /\ nic.started /\ nic.powered /\ netQueue[d] = "none"
    /\ netQueue' = [netQueue EXCEPT ![d] = "created"]
    /\ UNCHANGED <<session, packets, queueMtu, nic, file, nextCookie, handling, client>>

StartQueue(d) ==
    /\ nic.powered /\ netQueue[d] = "created"
    /\ netQueue' = [netQueue EXCEPT ![d] = "started"]
    /\ UNCHANGED <<session, packets, queueMtu, nic, file, nextCookie, handling, client>>

\* Stop and cancel: what the direction held is dropped and a session that was
\* up is only attached again; the adapter's link state is left as it is.
ResetQueue(d, stage) ==
    /\ netQueue[d] # "none" /\ netQueue[d] # stage
    /\ netQueue' = [netQueue EXCEPT ![d] = stage]
    /\ packets' = [packets EXCEPT ![d] = <<>>]
    /\ session' = [session EXCEPT !.state = IF @ = "LinkUp" THEN "Attached" ELSE @]
    /\ UNCHANGED <<queueMtu, nic, file, nextCookie, handling, client>>

StopQueue(d) == netQueue[d] = "started" /\ ResetQueue(d, "created")
CancelQueue(d) == ResetQueue(d, "none")

Carries(d) == netQueue[d] = "started" /\ session.state = "LinkUp"

\* XsnetPacketQueuePush and Pop.
Pushed(queue, size) == Append(queue, [owner |-> session.owner, size |-> size])
Popped(queue) == Tail(queue)

\* copy_transmit_packets: one packet of the ring; one that is too long for the
\* MTU is consumed and dropped, a full queue leaves it on the ring.
AdvanceTransmit(size) ==
    /\ Carries("tx")
    /\ Len(packets["tx"]) < session.limit.depth
    /\ size <= queueMtu
    /\ packets' = [packets EXCEPT !["tx"] = Pushed(@, size)]
    /\ UNCHANGED <<session, queueMtu, netQueue, nic, file, nextCookie, handling, client>>

AdvanceReceive ==
    /\ Carries("rx")
    /\ packets["rx"] # <<>>
    /\ packets' = [packets EXCEPT !["rx"] = Popped(@)]
    /\ UNCHANGED <<session, queueMtu, netQueue, nic, file, nextCookie, handling, client>>

(***************************************************************************)
(* Files: XsnetEvtDeviceFileCreate and XsnetEvtFileCleanup.                *)
(***************************************************************************)

\* The open is refused while another session is open; the queues start empty.
FileCreate(f) ==
    /\ nic.started /\ file[f].stage = "new"
    /\ \A g \in Files : file[g].stage = "new" => f <= g
    /\ nextCookie' = nextCookie + 1
    /\ IF session.state = "Closed"
       THEN /\ session' = [ClosedSession EXCEPT !.state = "Opened", !.owner = nextCookie']
            /\ file' = [file EXCEPT ![f] = [accepted |-> TRUE, cookie |-> nextCookie',
                                            stage |-> "open"]]
            /\ packets' = NoPackets
       ELSE /\ file' = [file EXCEPT ![f].stage = "closed"]
            /\ UNCHANGED <<session, packets>>
    /\ UNCHANGED <<queueMtu, netQueue, nic, handling, client>>

\* The handle is closed, by the agent or because its process died, possibly
\* while its request is being handled.
FileCleanup(f) ==
    /\ file[f].stage = "open"
    /\ session' = IF session.owner = file[f].cookie THEN ClosedSession ELSE session
    /\ packets' = NoPackets
    /\ file' = [file EXCEPT ![f].accepted = FALSE, ![f].stage = "cleanup"]
    /\ client' = [client EXCEPT ![f].state = "Gone", ![f].pending = NoRequest]
    /\ UNCHANGED <<queueMtu, netQueue, nic, nextCookie, handling>>

CleanupDisconnects(f) ==
    /\ file[f].stage = "cleanup"
    /\ file' = [file EXCEPT ![f].stage = "closed"]
    /\ SetConnected(FALSE)
    /\ UNCHANGED <<session, packets, queueMtu, netQueue, nextCookie, handling, client>>

(***************************************************************************)
(* The client: XsnetClient::prepare_* and the outcome of a request.        *)
(***************************************************************************)

Allowed(kind) ==
    CASE kind = "Hello" -> {"Opened"}
      [] kind = "Attach" -> {"Negotiated"}
      [] kind \in {"Up", "Down"} -> {"Attached", "LinkUp"}
      [] kind \in {"Transmit", "Receive"} -> {"LinkUp"}
      [] kind = "Detach" -> {"Negotiated", "Attached", "LinkUp"}

After(kind) ==
    CASE kind \in {"Hello", "Detach"} -> "Negotiated"
      [] kind \in {"Attach", "Down"} -> "Attached"
      [] OTHER -> "LinkUp"

\* One request at a time, none at the end of the sequence space; a receive
\* batch holds packets the negotiated limits allow.
Prepare(f, kind, limit, count, size) ==
    /\ file[f].stage = "open"
    /\ client[f].pending = NoRequest
    /\ client[f].state \in Allowed(kind)
    /\ client[f].next < LastSequence
    /\ kind = "Receive" => count <= client[f].limit.depth /\ size <= client[f].limit.mtu
    /\ client' = [client EXCEPT ![f].pending =
                     [kind |-> kind, sequence |-> client[f].next, limit |-> limit,
                      count |-> count, size |-> size]]
    /\ UNCHANGED <<session, packets, queueMtu, netQueue, nic, file, nextCookie, handling>>

PrepareRequest(f) ==
    \/ \E kind \in {"Hello", "Up", "Down", "Transmit", "Detach"} :
          Prepare(f, kind, NoLimit, 0, 0)
    \/ \E limit \in Limits : Prepare(f, "Attach", limit, 0, 0)
    \/ \E size \in 1..MaxPacketSize, count \in 1..2 :
          Prepare(f, "Receive", NoLimit, count, size)

\* complete_success commits state, limits and sequence; every failed
\* DeviceIoControl is indeterminate and the handle must be replaced.
Committed(c, request) ==
    [state |-> After(request.kind), next |-> request.sequence + 1, pending |-> NoRequest,
     limit |-> CASE request.kind = "Attach" -> request.limit
                 [] request.kind = "Detach" -> NoLimit
                 [] OTHER -> c.limit]

\* execute_prepared, unless the file was closed meanwhile.
Answered(c, ok) ==
    CASE c.pending = NoRequest -> c
      [] c.pending # NoRequest /\ ok -> Committed(c, c.pending)
      [] OTHER -> [c EXCEPT !.pending = NoRequest, !.state = "ReconnectRequired"]

\* The link state is set, if the message asks for it, and DeviceIoControl returns.
Complete ==
    /\ handling # Idle
    /\ handling' = Idle
    /\ IF handling.link = "keep" THEN UNCHANGED nic ELSE SetConnected(handling.link = "up")
    /\ client' = [client EXCEPT ![handling.file] = Answered(@, handling.ok)]
    /\ UNCHANGED <<session, packets, queueMtu, netQueue, file, nextCookie>>

(***************************************************************************)
(* The control queue: XsnetEvtIoDeviceControl up to the release of the     *)
(* lock.                                                                   *)
(***************************************************************************)

\* XsnetSessionProcess: owner, then sequence, then the state the message needs.
Processed(f, request) ==
    /\ file[f].accepted
    /\ session.state # "Closed" /\ session.owner = file[f].cookie
    /\ request.sequence > session.last
    /\ session.state \in Allowed(request.kind)

Advanced(request) == [session EXCEPT !.state = After(request.kind), !.last = request.sequence]

\* What each message does besides: an Attach and a Detach empty the queues and
\* set their MTU.
Hello(f, request) ==
    /\ session' = Advanced(request)
    /\ UNCHANGED <<packets, queueMtu>>

Attach(f, request) ==
    /\ session' = [Advanced(request) EXCEPT !.limit = request.limit]
    /\ packets' = NoPackets
    /\ queueMtu' = request.limit.mtu

SetLink(f, request) ==
    /\ session' = Advanced(request)
    /\ UNCHANGED <<packets, queueMtu>>

\* Mutant: a detached session keeps the limits of the attachment.
DetachKeepsLimit(f, request) ==
    /\ session' = Advanced(request)
    /\ packets' = NoPackets
    /\ queueMtu' = MaxPacketSize

Detach(f, request) ==
    /\ session' = [Advanced(request) EXCEPT !.limit = NoLimit]
    /\ packets' = NoPackets
    /\ queueMtu' = MaxPacketSize

\* XsnetPacketQueuePopBatch takes the whole queue: it fits the output buffer the
\* client derives from its limits.
PoppedBatch(queue) == <<>>

DequeueTransmit(f, request) ==
    /\ netQueue["tx"] = "started" /\ packets["tx"] # <<>>
    /\ session' = Advanced(request)
    /\ packets' = [packets EXCEPT !["tx"] = PoppedBatch(@)]
    /\ UNCHANGED queueMtu

\* XsnetPacketQueueValidateBatch and PushBatch: a batch is taken whole, every
\* packet within the MTU and all within the depth.
BatchFits(request) ==
    /\ request.size <= queueMtu
    /\ Len(packets["rx"]) + request.count <= session.limit.depth

PushedBatch(queue, request) ==
    queue \o [i \in 1..request.count |-> [owner |-> session.owner, size |-> request.size]]

EnqueueReceive(f, request) ==
    /\ netQueue["rx"] = "started"
    /\ BatchFits(request)
    /\ session' = Advanced(request)
    /\ packets' = [packets EXCEPT !["rx"] = PushedBatch(@, request)]
    /\ UNCHANGED queueMtu

Accepts(f, request) ==
    /\ Processed(f, request)
    /\ \/ request.kind = "Hello" /\ Hello(f, request)
       \/ request.kind = "Attach" /\ Attach(f, request)
       \/ request.kind \in {"Up", "Down"} /\ SetLink(f, request)
       \/ request.kind = "Detach" /\ Detach(f, request)
       \/ request.kind = "Transmit" /\ DequeueTransmit(f, request)
       \/ request.kind = "Receive" /\ EnqueueReceive(f, request)

\* The conditions under which Accepts takes place, for the refusals.
Refuses(f, request) ==
    \/ ~Processed(f, request)
    \/ request.kind = "Transmit" /\ (netQueue["tx"] # "started" \/ packets["tx"] = <<>>)
    \/ request.kind = "Receive" /\ (netQueue["rx"] # "started" \/ ~BatchFits(request))

\* The link state to report once the lock is released.
LinkAfter(kind) ==
    CASE kind = "Up" -> "up" [] kind \in {"Down", "Detach"} -> "down" [] OTHER -> "keep"

DeviceControl(f) ==
    LET request == client[f].pending IN
    /\ nic.powered
    /\ handling = Idle
    /\ request # NoRequest
    /\ \/ /\ Accepts(f, request)
          /\ handling' = [file |-> f, ok |-> TRUE, link |-> LinkAfter(request.kind)]
       \/ /\ Refuses(f, request)
          /\ handling' = [file |-> f, ok |-> FALSE, link |-> "keep"]
          /\ UNCHANGED <<session, packets, queueMtu>>
    /\ UNCHANGED <<netQueue, nic, file, nextCookie, client>>

DriverNext ==
    \/ PrepareHardware \/ D0Exit \/ D0Entry \/ ReleaseHardware
    \/ \E d \in Directions : CreateQueue(d) \/ StartQueue(d) \/ StopQueue(d) \/ CancelQueue(d)
    \/ \E size \in 1..MaxPacketSize : AdvanceTransmit(size)
    \/ AdvanceReceive
    \/ \E f \in Files :
          \/ FileCreate(f) \/ FileCleanup(f) \/ CleanupDisconnects(f) \/ DeviceControl(f)
          \/ PrepareRequest(f)
    \/ Complete

DriverSpec == DriverInit /\ [][DriverNext]_driverVars

-------------------------------------------------------------------------------

\* A private queue holds only packets of the session that is open, within the
\* limits that session negotiated: no packet outlives its owner through cleanup,
\* power loss, queue stop or a new attach, and a batch the client reads always
\* passes its own checks (windows_xsnet.rs:718-745).
PacketsOfOwner ==
    \A d \in Directions :
       /\ Len(packets[d]) <= session.limit.depth
       /\ \A i \in 1..Len(packets[d]) :
             /\ packets[d][i].owner = session.owner
             /\ packets[d][i].size <= session.limit.mtu

\* A client that has no request outstanding, was never told to reconnect and
\* still owns the session knows what the driver knows: the sequence number, the
\* limits and the state, except that a stopped packet queue takes the session
\* from LinkUp to Attached behind its back.
ClientInStep ==
    \A f \in Files :
       LET c == client[f] IN
       (/\ file[f].accepted /\ session.owner = file[f].cookie
        /\ c.pending = NoRequest /\ c.state # "ReconnectRequired")
       => /\ c.next = session.last + 1
          /\ c.limit = session.limit
          /\ \/ c.state = session.state
             \/ c.state = "LinkUp" /\ session.state = "Attached"

===============================================================================
