--------------------------- MODULE ReplayWindowWords ---------------------------
(***************************************************************************)
(* The replay window as the code stores it: an array of Words words of     *)
(* WordBits bits, a word being the set of its bit positions that are 1.    *)
(* It implements ReplayReceiver.                                           *)
(***************************************************************************)
EXTENDS Integers

CONSTANTS
    Words,         \* REPLAY_WINDOW_WORDS: 16 in the code
    WordBits,      \* 64 in the code
    MaxAdvance,    \* MAX_SEQUENCE_ADVANCE
    MaxSequence

ASSUME WordsAssumption ==
    /\ Words \in Nat \ {0}
    /\ WordBits \in Nat \ {0}
    /\ MaxAdvance \in Nat \ {0}
    /\ MaxSequence \in Nat

VARIABLES
    highest,    \* Option<u64>, NoSequence for None
    words,      \* [u64; REPLAY_WINDOW_WORDS]
    opened      \* history: the sequences accepted so far

vars == <<highest, words, opened>>

NoSequence == -1
ReplayWindowBits == Words * WordBits
WordIndex == 0 .. Words - 1
BitIndex == 0 .. WordBits - 1
Sequence == 0 .. MaxSequence

\* word << count and word >> count on WordBits bits.
ShiftLeft(word, count) == {b \in BitIndex : b - count \in word}
ShiftRight(word, count) == {b \in BitIndex : b + count \in word}

Cleared == [i \in WordIndex |-> {}]

\* ReplayWindow::bit_is_set
BitIsSet(offset) == offset % WordBits \in words[offset \div WordBits]

\* ReplayWindow::precheck, TRUE for Ok.
Precheck(sequence) ==
    IF highest = NoSequence
    THEN sequence <= MaxAdvance
    ELSE IF sequence > highest
         THEN sequence - highest <= MaxAdvance
         ELSE highest - sequence < ReplayWindowBits /\ ~BitIsSet(highest - sequence)

\* The loop of ReplayWindow::shift: each old word lands in one word and, when
\* the distance is not a whole number of words, carries its high bits into the
\* next one.
ShiftWithin(distance) ==
    LET wordShift == distance \div WordBits
        bitShift  == distance % WordBits
    IN  [target \in WordIndex |->
            (UNION {ShiftLeft(words[source], bitShift) :
                        source \in {i \in WordIndex : i + wordShift = target}})
            \cup
            (UNION {ShiftRight(words[source], WordBits - bitShift) :
                        source \in {i \in WordIndex :
                                        bitShift # 0 /\ i + wordShift + 1 = target}})]

\* Mutant: a jump beyond the window leaves the words as they are.
ShiftKeepsOld(distance) ==
    IF distance >= ReplayWindowBits THEN words ELSE ShiftWithin(distance)

\* ReplayWindow::shift
ShiftWords(distance) ==
    IF distance >= ReplayWindowBits THEN Cleared ELSE ShiftWithin(distance)

Init ==
    /\ highest = NoSequence
    /\ words = Cleared
    /\ opened = {}

\* ReplayWindow::commit after a precheck that passes.
Commit(sequence) ==
    /\ Precheck(sequence)
    /\ opened' = opened \cup {sequence}
    /\ IF highest = NoSequence
       THEN /\ highest' = sequence
            /\ words' = [words EXCEPT ![0] = {0}]
       ELSE IF sequence > highest
            THEN /\ highest' = sequence
                 /\ words' = [ShiftWords(sequence - highest) EXCEPT ![0] = @ \cup {0}]
            ELSE LET offset == highest - sequence
                 IN  /\ words' = [words EXCEPT
                                    ![offset \div WordBits] = @ \cup {offset % WordBits}]
                     /\ UNCHANGED highest

\* A sequence precheck rejects changes nothing.
Reject(sequence) ==
    /\ ~Precheck(sequence)
    /\ UNCHANGED vars

Next == \E sequence \in Sequence : Commit(sequence) \/ Reject(sequence)

Spec == Init /\ [][Next]_vars

-------------------------------------------------------------------------------
\* The bits of the array, numbered as bit_is_set numbers them.
SetBits == {o \in 0 .. ReplayWindowBits - 1 : BitIsSet(o)}

\* What the array stands for: the receiver whose window is that set of bits.
Receiver == INSTANCE ReplayReceiver
                WITH WindowBits <- ReplayWindowBits,
                     window <- [highest |-> highest, bits |-> SetBits]

===============================================================================
