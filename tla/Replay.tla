------------------------------- MODULE Replay -------------------------------
(***************************************************************************)
(* The sliding-window anti-replay filter of a session (replay.c), down to  *)
(* the words of its bitmap.  A word is the set of its bits that are 1; bit *)
(* b of word w stands for the counter last_counter - (w * WORD_BITS + b).  *)
(*                                                                         *)
(* A definition named X_Defect, just before X, is X with a slip that its   *)
(* code could plausibly have had; the runs show which property notices it. *)
(***************************************************************************)
EXTENDS Integers

CONSTANTS
    WORDS,          \* VPN_REPLAY_BITMAP_WORDS (32)
    WORD_BITS,      \* bits of a bitmap word (64)
    MAX_COUNTER     \* the largest packet counter (UINT64_MAX)

ASSUME SizesAssumption ==
    /\ WORDS \in Nat \ {0}
    /\ WORD_BITS \in Nat \ {0}
    /\ MAX_COUNTER \in Nat

WINDOW_SIZE == WORDS * WORD_BITS

Counters == 0..MAX_COUNTER
WordIndices == 0..(WORDS - 1)
BitIndices == 0..(WORD_BITS - 1)
Filters == [last_counter : Counters, bitmap : [WordIndices -> SUBSET BitIndices]]

\* C's << and >> on an unsigned word: bits moved out of the word are lost.
ShiftLeft(word, n) == {b \in BitIndices : b - n \in word}
ShiftRight(word, n) == {b \in BitIndices : b + n \in word}

ZeroBitmap == [w \in WordIndices |-> {}]

replay_init == [last_counter |-> 0, bitmap |-> ZeroBitmap]

\* The test both functions use for "no packet received on this session yet".
FirstPacket(f) == f.last_counter = 0 /\ f.bitmap[0] = {}

BitSet(bitmap, diff) == (diff % WORD_BITS) \in bitmap[diff \div WORD_BITS]

replay_check_NoBitTest(f, counter) ==
    \/ FirstPacket(f)
    \/ counter > f.last_counter
    \/ f.last_counter - counter < WINDOW_SIZE

replay_check(f, counter) ==
    \/ FirstPacket(f)
    \/ counter > f.last_counter
    \/ LET diff == f.last_counter - counter
       IN  diff \in 0..(WINDOW_SIZE - 1) /\ ~BitSet(f.bitmap, diff)

Slide_NoCarry(bitmap, diff) ==
    [i \in WordIndices |->
        IF i < diff \div WORD_BITS
        THEN {}
        ELSE ShiftLeft(bitmap[i - diff \div WORD_BITS], diff % WORD_BITS)]

\* The bitmap moved diff places up, word by word, with carries between words.
Slide(bitmap, diff) ==
    LET word_shift == diff \div WORD_BITS
        bit_shift == diff % WORD_BITS
    IN  [i \in WordIndices |->
            IF i < word_shift
            THEN {}
            ELSE ShiftLeft(bitmap[i - word_shift], bit_shift) \cup
                 (IF bit_shift > 0 /\ i > word_shift
                  THEN ShiftRight(bitmap[i - word_shift - 1], WORD_BITS - bit_shift)
                  ELSE {})]

SetBit(bitmap, diff) ==
    [bitmap EXCEPT ![diff \div WORD_BITS] = @ \cup {diff % WORD_BITS}]

Advance_JumpKeepsBits(f, counter) ==
    LET diff == counter - f.last_counter
        moved == IF diff < WINDOW_SIZE THEN Slide(f.bitmap, diff) ELSE f.bitmap
    IN  [last_counter |-> counter, bitmap |-> [moved EXCEPT ![0] = @ \cup {0}]]

Advance(f, counter) ==
    LET diff == counter - f.last_counter
        moved == IF diff < WINDOW_SIZE THEN Slide(f.bitmap, diff) ELSE ZeroBitmap
    IN  [last_counter |-> counter, bitmap |-> [moved EXCEPT ![0] = @ \cup {0}]]

MarkLate_MovesBack(f, counter) ==
    [last_counter |-> counter, bitmap |-> [f.bitmap EXCEPT ![0] = @ \cup {0}]]

MarkLate(f, counter) ==
    LET diff == f.last_counter - counter
    IN  IF diff < WINDOW_SIZE
        THEN [f EXCEPT !.bitmap = SetBit(f.bitmap, diff)]
        ELSE f

replay_update(f, counter) ==
    IF FirstPacket(f)
    THEN [last_counter |-> counter, bitmap |-> [f.bitmap EXCEPT ![0] = {0}]]
    ELSE IF counter > f.last_counter THEN Advance(f, counter)
                                     ELSE MarkLate(f, counter)
-----------------------------------------------------------------------------
(* What a filter should know, given the set of the counters it has seen. *)

\* Bit d of the bitmap is 1 exactly when the counter d below last was seen.
Records(bitmap, last, seen) ==
    \A d \in 0..(WINDOW_SIZE - 1) : BitSet(bitmap, d) <=> last - d \in seen

\* Before the first packet a filter is all zeros; afterwards last_counter is the
\* largest counter seen and the bitmap records the recent past.
RecentPast(f, seen) ==
    IF seen = {}
    THEN f = replay_init
    ELSE /\ \A a \in seen : a <= f.last_counter
         /\ f.last_counter \in seen
         /\ Records(f.bitmap, f.last_counter, seen)
=============================================================================
