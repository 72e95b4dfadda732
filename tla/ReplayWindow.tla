----------------------------- MODULE ReplayWindow -----------------------------
(***************************************************************************)
(* The sliding anti-replay window every XSP/1 receive epoch and every      *)
(* XSR/1 relay lease keeps, as the set of bits the code stores in its      *)
(* array of 64-bit words: bit o stands for sequence highest - o.  The      *)
(* operators here say what precheck and commit do to that set; the word    *)
(* and bit arithmetic that carries it out is ReplayWindowWords.            *)
(***************************************************************************)
EXTENDS Integers

CONSTANTS
    WindowBits,    \* REPLAY_WINDOW_BITS: 1024 in the code
    MaxAdvance     \* MAX_SEQUENCE_ADVANCE: 2^20 in the code

ASSUME WindowAssumption ==
    /\ WindowBits \in Nat \ {0}
    /\ MaxAdvance \in Nat \ {0}

\* highest: Option<u64>; None before the first sequence is committed.
NoSequence == -1

Windows == [highest : Nat \cup {NoSequence}, bits : SUBSET (0 .. WindowBits - 1)]

\* ReplayWindow::new
NewWindow == [highest |-> NoSequence, bits |-> {}]

\* ReplayWindow::precheck, TRUE for Ok.
Precheck(w, sequence) ==
    IF w.highest = NoSequence
    THEN sequence <= MaxAdvance
    ELSE IF sequence > w.highest
         THEN sequence - w.highest <= MaxAdvance
         ELSE /\ w.highest - sequence < WindowBits
              /\ w.highest - sequence \notin w.bits

\* ReplayWindow::shift: every bit moves up by distance, and bits that leave
\* the window are dropped.
Shift(bits, distance) ==
    {o \in 0 .. WindowBits - 1 : o >= distance /\ o - distance \in bits}

\* ReplayWindow::commit of a sequence that passes precheck.
Commit(w, sequence) ==
    IF w.highest = NoSequence
    THEN [highest |-> sequence, bits |-> {0}]
    ELSE IF sequence > w.highest
         THEN [highest |-> sequence,
               bits    |-> Shift(w.bits, sequence - w.highest) \cup {0}]
         ELSE [w EXCEPT !.bits = @ \cup {w.highest - sequence}]

\* What the window stands for: it has seen exactly the sequences in opened,
\* as far back as it reaches, and nothing above highest.
Tracks(w, opened) ==
    /\ w.highest = NoSequence <=> opened = {}
    /\ w.highest # NoSequence => w.highest \in opened
    /\ \A s \in opened : s <= w.highest
    /\ \A o \in 0 .. WindowBits - 1 : o \in w.bits <=> w.highest - o \in opened
===============================================================================
