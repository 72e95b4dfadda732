--------------------------- MODULE ReplayWindowProofs ---------------------------
(***************************************************************************)
(* What precheck and commit do to the set of sequences a replay window     *)
(* stands for, for every window size and look-ahead.  The proofs about a   *)
(* single window and about a session's epochs both rest on these lemmas.   *)
(***************************************************************************)
EXTENDS ReplayWindow, TLAPS

\* A new window tracks the empty set (ReplayWindow::new).
LEMMA TracksNew ==
    /\ NewWindow \in Windows
    /\ Tracks(NewWindow, {})
BY DEF NewWindow, Windows, Tracks, NoSequence

\* A window turns away every sequence it tracks (ReplayWindow::precheck).
LEMMA TracksRejects ==
    ASSUME NEW w \in Windows, NEW S \in SUBSET Nat, NEW s \in S, Tracks(w, S)
    PROVE  ~Precheck(w, s)
<1>1. w.highest \in Nat /\ s \in Nat /\ s <= w.highest
  BY DEF Windows, Tracks, NoSequence
<1>2. CASE w.highest - s >= WindowBits
  BY <1>1, <1>2, WindowAssumption DEF Precheck, NoSequence
<1>3. CASE w.highest - s < WindowBits
  <2>1. w.highest - s \in 0 .. WindowBits - 1
    BY <1>1, <1>3, WindowAssumption
  <2>2. w.highest - (w.highest - s) = s
    BY <1>1
  <2>3. w.highest - s \in w.bits
    BY <2>1, <2>2 DEF Tracks
  <2> QED
    BY <1>1, <2>3 DEF Precheck, NoSequence
<1> QED
  BY <1>1, <1>2, <1>3, WindowAssumption

\* A window passes every sequence it does not track that is neither too far
\* ahead nor behind the window (ReplayWindow::precheck).
LEMMA TracksAccepts ==
    ASSUME NEW w \in Windows, NEW S \in SUBSET Nat, Tracks(w, S),
           NEW s \in Nat \ S, s <= MaxAdvance,
           \A t \in S : t - s < WindowBits
    PROVE  Precheck(w, s)
<1>1. CASE w.highest = NoSequence
  BY <1>1 DEF Precheck
<1>2. CASE w.highest # NoSequence
  <2>1. w.highest \in Nat /\ w.highest \in S /\ w.highest - s < WindowBits
    BY <1>2 DEF Windows, Tracks
  <2>2. CASE s > w.highest
    BY <1>2, <2>1, <2>2, WindowAssumption DEF Precheck
  <2>3. CASE s <= w.highest
    <3>1. w.highest - s \in 0 .. WindowBits - 1
      BY <2>1, <2>3, WindowAssumption
    <3>2. w.highest - (w.highest - s) = s
      BY <2>1
    <3>3. w.highest - s \notin w.bits
      BY <3>1, <3>2 DEF Tracks
    <3> QED
      BY <1>2, <2>1, <2>3, <3>3 DEF Precheck
  <2> QED
    BY <2>1, <2>2, <2>3
<1> QED
  BY <1>1, <1>2

\* commit keeps the window a window.
LEMMA CommitType ==
    ASSUME NEW w \in Windows, NEW s \in Nat, Precheck(w, s)
    PROVE  Commit(w, s) \in Windows
<1>1. CASE w.highest = NoSequence
  BY <1>1, WindowAssumption DEF Commit, Windows
<1>2. CASE w.highest # NoSequence /\ s > w.highest
  BY <1>2, WindowAssumption DEF Commit, Windows, Shift
<1>3. CASE w.highest # NoSequence /\ s <= w.highest
  <2>1. w.highest \in Nat /\ w.highest - s \in 0 .. WindowBits - 1
    BY <1>3, WindowAssumption DEF Windows, Precheck
  <2> QED
    BY <1>3, <2>1 DEF Commit, Windows
<1> QED
  BY <1>1, <1>2, <1>3 DEF Windows

\* Committing a sequence that passes precheck adds exactly that sequence to
\* what the window tracks (ReplayWindow::commit and shift).
LEMMA TracksCommit ==
    ASSUME NEW w \in Windows, NEW S \in SUBSET Nat, Tracks(w, S),
           NEW s \in Nat, Precheck(w, s)
    PROVE  /\ Commit(w, s) \in Windows
           /\ Tracks(Commit(w, s), S \cup {s})
<1> DEFINE c == Commit(w, s)
           T == S \cup {s}
<1>1. CASE w.highest = NoSequence
  <2>1. S = {} /\ c = [highest |-> s, bits |-> {0}]
    BY <1>1 DEF Tracks, Commit
  <2>2. c \in Windows
    BY <2>1, WindowAssumption DEF Windows
  <2>3. \A o \in 0 .. WindowBits - 1 : o \in {0} <=> s - o \in {s}
    BY WindowAssumption
  <2> QED
    BY <2>1, <2>2, <2>3 DEF Tracks, NoSequence
<1>2. CASE w.highest # NoSequence /\ s > w.highest
  <2> DEFINE d == s - w.highest
  <2>1. c = [highest |-> s, bits |-> Shift(w.bits, d) \cup {0}]
    BY <1>2 DEF Commit
  <2>2. w.highest \in Nat /\ d \in Nat /\ d > 0
    BY <1>2 DEF Windows
  <2>3. c \in Windows
    BY <2>1, WindowAssumption DEF Windows, Shift
  <2>4. \A t \in T : t <= s
    <3>1. \A t \in S : t \in Nat /\ t <= w.highest
      BY DEF Tracks
    <3>2. \A t \in S : t <= s
      BY <1>2, <2>2, <3>1
    <3> QED
      BY <3>2
  <2>5. ASSUME NEW o \in 0 .. WindowBits - 1
        PROVE  o \in Shift(w.bits, d) \cup {0} <=> s - o \in T
    <3>1. CASE o = 0
      BY <3>1
    <3>2. CASE o # 0 /\ o < d
      <4>1. o \notin Shift(w.bits, d) \cup {0}
        BY <3>2, <2>2 DEF Shift
      <4>2. s - o > w.highest /\ s - o # s
        BY <3>2, <2>2
      <4>3. s - o \notin S
        BY <4>2, <2>2 DEF Tracks
      <4> QED
        BY <4>1, <4>2, <4>3
    <3>3. CASE o # 0 /\ o >= d
      <4>1. o - d \in 0 .. WindowBits - 1 /\ w.highest - (o - d) = s - o /\ s - o # s
        BY <3>3, <2>2, WindowAssumption
      <4>2. o \in Shift(w.bits, d) <=> o - d \in w.bits
        BY <3>3 DEF Shift
      <4>3. o - d \in w.bits <=> s - o \in S
        BY <4>1 DEF Tracks
      <4> QED
        BY <3>3, <4>1, <4>2, <4>3
    <3> QED
      BY <3>1, <3>2, <3>3, <2>2, WindowAssumption
  <2> QED
    BY <2>1, <2>3, <2>4, <2>5 DEF Tracks, NoSequence
<1>3. CASE w.highest # NoSequence /\ s <= w.highest
  <2> DEFINE d == w.highest - s
  <2>1. w.highest \in Nat /\ d \in 0 .. WindowBits - 1
    BY <1>3, WindowAssumption DEF Windows, Precheck
  <2>2. c = [w EXCEPT !.bits = w.bits \cup {d}]
    BY <1>3, <2>1 DEF Commit, Windows
  <2>3. c.highest = w.highest /\ c.bits = w.bits \cup {d} /\ c \in Windows
    BY <2>1, <2>2 DEF Windows
  <2>4. \A o \in 0 .. WindowBits - 1 : o = d <=> w.highest - o = s
    BY <2>1
  <2>5. \A o \in 0 .. WindowBits - 1 : o \in c.bits <=> w.highest - o \in T
    BY <2>3, <2>4 DEF Tracks
  <2>6. \A t \in T : t <= w.highest
    BY <1>3 DEF Tracks
  <2> QED
    BY <1>3, <2>3, <2>5, <2>6 DEF Tracks
<1> QED
  BY <1>1, <1>2, <1>3 DEF Windows
===============================================================================
