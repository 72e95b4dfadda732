---------------------------- MODULE ReplayReceiver ----------------------------
(***************************************************************************)
(* One replay window fed with authenticated packets in any order and any   *)
(* number of times: what DataReceiver::open and the relay's handle_data    *)
(* promise about sequences.  opened is a history variable.                 *)
(***************************************************************************)
EXTENDS ReplayWindow

CONSTANT MaxSequence    \* the largest sequence on the wire (u64::MAX - 1)

VARIABLES
    window,    \* the ReplayWindow
    opened     \* the sequences accepted so far

vars == <<window, opened>>

Sequence == 0 .. MaxSequence

TypeOK ==
    /\ window \in Windows
    /\ opened \subseteq Sequence

Init ==
    /\ window = NewWindow
    /\ opened = {}

\* An authentic packet is accepted: precheck, decryption, commit.
Open(sequence) ==
    /\ Precheck(window, sequence)
    /\ window' = Commit(window, sequence)
    /\ opened' = opened \cup {sequence}

\* A packet precheck turns away leaves the window as it was.
Reject(sequence) ==
    /\ ~Precheck(window, sequence)
    /\ UNCHANGED vars

Next == \E sequence \in Sequence : Open(sequence) \/ Reject(sequence)

Spec == Init /\ [][Next]_vars

-------------------------------------------------------------------------------
\* No sequence is accepted twice: once opened, precheck turns it away for
\* good, however far the window has moved and whatever came in between
\* (precheck and commit with the shift between them).
OpenedOnce == \A s \in opened : ~Precheck(window, s)

\* The window never turns away a packet it has no reason to: a late sequence
\* that is inside the window and was never opened still passes precheck, so
\* shift neither invents bits nor smears them.
LatePacketsPass ==
    \A s \in Sequence \ opened :
        /\ s < window.highest
        /\ window.highest - s < WindowBits
        => Precheck(window, s)

===============================================================================
