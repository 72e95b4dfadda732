-------------------------- MODULE ReplayReceiverProofs --------------------------
(***************************************************************************)
(* One replay window accepts no sequence twice and refuses no late one     *)
(* without a reason, for every window size, look-ahead and sequence bound. *)
(***************************************************************************)
EXTENDS ReplayReceiver, ReplayWindowProofs

\* The inductive invariant: the window tracks the history.
WindowInv == TypeOK /\ Tracks(window, opened)

\* The window tracks what has been opened, always.
LEMMA WindowInvariance == Spec => []WindowInv
<1>1. Init => WindowInv
  BY TracksNew DEF Init, WindowInv, TypeOK
<1>2. WindowInv /\ [Next]_vars => WindowInv'
  <2> SUFFICES ASSUME WindowInv, [Next]_vars PROVE WindowInv'
    OBVIOUS
  <2>1. ASSUME NEW s \in Sequence, Open(s) PROVE WindowInv'
    <3>1. s \in Nat /\ opened \in SUBSET Nat
      BY DEF WindowInv, TypeOK, Sequence
    <3>2. Commit(window, s) \in Windows /\ Tracks(Commit(window, s), opened \cup {s})
      BY <2>1, <3>1, TracksCommit DEF WindowInv, TypeOK, Open
    <3> QED
      BY <2>1, <3>2 DEF WindowInv, TypeOK, Open
  <2>2. CASE UNCHANGED vars
    BY <2>2 DEF WindowInv, TypeOK, vars
  <2> QED
    BY <2>1, <2>2 DEF Next, Reject
<1> QED
  BY <1>1, <1>2, PTL DEF Spec

\* No sequence is ever accepted twice, whatever the window size, the look-ahead
\* limit, and the order in which packets arrive (ReplayWindow::precheck/commit).
THEOREM NoSequenceTwice == Spec => []OpenedOnce
<1>1. WindowInv => OpenedOnce
  <2> SUFFICES ASSUME WindowInv, NEW s \in opened PROVE ~Precheck(window, s)
    BY DEF OpenedOnce
  <2>1. opened \in SUBSET Nat
    BY DEF WindowInv, TypeOK, Sequence
  <2> QED
    BY <2>1, TracksRejects DEF WindowInv, TypeOK
<1> QED
  BY <1>1, WindowInvariance, PTL

\* A late packet that is inside the window and was never accepted is never
\* turned away, however often the window was shifted over it in between
\* (ReplayWindow::shift neither invents nor smears bits).
THEOREM LateAccepted == Spec => []LatePacketsPass
<1>1. WindowInv => LatePacketsPass
  <2> SUFFICES ASSUME WindowInv, NEW s \in Sequence \ opened,
                      s < window.highest, window.highest - s < WindowBits
               PROVE  Precheck(window, s)
    BY DEF LatePacketsPass
  <2>1. s \in Nat /\ window.highest \in Nat \cup {NoSequence}
    BY DEF WindowInv, TypeOK, Sequence, Windows
  <2>2. window.highest # NoSequence /\ window.highest \in Nat
    BY <2>1 DEF NoSequence
  <2>3. window.highest - s \in 0 .. WindowBits - 1
    BY <2>1, <2>2, WindowAssumption
  <2>4. window.highest - (window.highest - s) = s
    BY <2>1, <2>2
  <2>5. window.highest - s \notin window.bits
    BY <2>3, <2>4 DEF WindowInv, Tracks
  <2>6. ~(s > window.highest)
    BY <2>1, <2>2
  <2> QED
    BY <2>2, <2>5, <2>6 DEF Precheck
<1> QED
  BY <1>1, WindowInvariance, PTL
===============================================================================
