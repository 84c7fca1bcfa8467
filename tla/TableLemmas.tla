----------------------------- MODULE TableLemmas -----------------------------
(***************************************************************************)
(* Facts about the operators that a session and a peer are made of, for    *)
(* every size of bitmap, range of counters and width of address: the       *)
(* anti-replay filter of Replay and the prefixes of Routing.               *)
(*                                                                         *)
(* A slide of the bitmap is decided bit by bit (SlideMovesBits): bit d     *)
(* afterwards is bit d - diff before, through the division of d and diff   *)
(* into words and bits.  CheckIsExact and UpdateRecords are what the other *)
(* proofs use of the filter, MatchIsCover what they use of a prefix.       *)
(***************************************************************************)
EXTENDS Replay, Routing, TLAPS

\* Quotient and remainder: how replay.c splits a distance into word and bit.
LEMMA DivMod ==
    ASSUME NEW a \in Nat, NEW b \in Nat \ {0}
    PROVE  /\ a \div b \in Nat
           /\ a % b \in 0..(b - 1)
           /\ a = b * (a \div b) + (a % b)
  OBVIOUS

\* A word and a bit belong to one distance only.
LEMMA DivModUnique ==
    ASSUME NEW b \in Nat \ {0}, NEW q \in Nat, NEW r \in 0..(b - 1)
    PROVE  /\ (b * q + r) \div b = q
           /\ (b * q + r) % b = r
  OBVIOUS

\* The values of the array bitmap.
Bitmaps == [WordIndices -> SUBSET BitIndices]

\* A bit number of the window has its word and its bit inside the bitmap.
LEMMA WindowSize ==
    /\ WINDOW_SIZE \in Nat \ {0}
    /\ \A d \in 0..(WINDOW_SIZE - 1) :
          d \div WORD_BITS \in WordIndices /\ d % WORD_BITS \in BitIndices
<1>1. WINDOW_SIZE \in Nat \ {0}
  BY SizesAssumption DEF WINDOW_SIZE
<1>2. ASSUME NEW d \in 0..(WINDOW_SIZE - 1)
      PROVE  d \div WORD_BITS \in WordIndices /\ d % WORD_BITS \in BitIndices
  <2> DEFINE q == d \div WORD_BITS
             r == d % WORD_BITS
  <2>0. d \in Nat
    BY <1>1
  <2>1. q \in Nat /\ r \in 0..(WORD_BITS - 1) /\ d = WORD_BITS * q + r
    BY <2>0, DivMod, SizesAssumption
  <2>2. WORD_BITS * q < WORD_BITS * WORDS
    BY <2>1, <1>1, SizesAssumption DEF WINDOW_SIZE
  <2>3. q < WORDS
    BY <2>1, <2>2, SizesAssumption
  <2>. QED
    BY <2>1, <2>3, SizesAssumption DEF WordIndices, BitIndices
<1>. QED
  BY <1>1, <1>2

\* What the word-by-word slide of replay_update does to a single bit.
LEMMA SlideMovesBits ==
    ASSUME NEW bitmap \in Bitmaps,
           NEW n \in 1..(WINDOW_SIZE - 1),
           NEW d \in 0..(WINDOW_SIZE - 1)
    PROVE  BitSet(Slide(bitmap, n), d) <=> d >= n /\ BitSet(bitmap, d - n)
<1> DEFINE ws == n \div WORD_BITS
           bs == n % WORD_BITS
           q == d \div WORD_BITS
           r == d % WORD_BITS
<1>1. /\ WORD_BITS \in Nat \ {0}
      /\ WINDOW_SIZE \in Nat
      /\ n \in Nat
      /\ d \in Nat
  BY SizesAssumption, WindowSize
<1>2. /\ ws \in Nat /\ bs \in 0..(WORD_BITS - 1) /\ n = WORD_BITS * ws + bs
      /\ q \in Nat /\ r \in 0..(WORD_BITS - 1) /\ d = WORD_BITS * q + r
  BY <1>1, DivMod
<1>3. q \in WordIndices /\ r \in BitIndices
  BY WindowSize
<1>4. BitSet(Slide(bitmap, n), d) <=>
         /\ q >= ws
         /\ \/ r - bs \in bitmap[q - ws]
            \/ bs > 0 /\ q > ws /\ r + (WORD_BITS - bs) \in bitmap[q - ws - 1]
  <2> HIDE DEF ws, bs, q, r
  <2>. QED
    BY <1>2, <1>3 DEF BitSet, Slide, ShiftLeft, ShiftRight, ws, bs, q, r
<1> HIDE DEF ws, bs, q, r
<1>5. CASE q < ws
  <2>1. d < n
    BY <1>1, <1>2, <1>5
  <2>. QED
    BY <1>2, <1>4, <1>5, <2>1
<1>6. CASE q >= ws /\ r >= bs
  <2>1. d - n = WORD_BITS * (q - ws) + (r - bs)
    BY <1>1, <1>2
  <2>2. q - ws \in Nat /\ r - bs \in 0..(WORD_BITS - 1) /\ d >= n
    BY <1>1, <1>2, <1>6, <2>1
  <2>3. (d - n) \div WORD_BITS = q - ws /\ (d - n) % WORD_BITS = r - bs
    BY <1>1, <2>1, <2>2, DivModUnique, SMTT(30)
  <2>4. ASSUME q > ws PROVE r + (WORD_BITS - bs) \notin bitmap[q - ws - 1]
    <3>1. bitmap[q - ws - 1] \subseteq BitIndices
      BY <1>2, <1>3, <2>4, SizesAssumption DEF Bitmaps, WordIndices
    <3>. QED
      BY <1>1, <1>2, <1>6, <3>1 DEF BitIndices
  <2>. QED
    BY <1>4, <1>6, <2>2, <2>3, <2>4 DEF BitSet
<1>7. CASE q >= ws /\ r < bs
  <2>1. r - bs \notin bitmap[q - ws]
    <3>1. bitmap[q - ws] \subseteq BitIndices
      BY <1>2, <1>3, <1>7, SizesAssumption DEF Bitmaps, WordIndices
    <3>. QED
      BY <1>1, <1>2, <1>7, <3>1 DEF BitIndices
  <2>2. CASE q = ws
    BY <1>1, <1>2, <1>4, <1>7, <2>1, <2>2
  <2>3. CASE q > ws
    <3> DEFINE q2 == q - ws - 1
               r2 == r + (WORD_BITS - bs)
    <3>1. d - n = WORD_BITS * q2 + r2
      BY <1>1, <1>2
    <3>2. q2 \in Nat /\ r2 \in 0..(WORD_BITS - 1) /\ d >= n
      BY <1>1, <1>2, <1>7, <2>3, <3>1
    <3> HIDE DEF q2, r2
    <3>3. (d - n) \div WORD_BITS = q2 /\ (d - n) % WORD_BITS = r2
      BY <1>1, <3>1, <3>2, DivModUnique
    <3>. QED
      BY <1>2, <1>4, <1>7, <2>1, <2>3, <3>2, <3>3 DEF BitSet, q2, r2
  <2>. QED
    BY <1>2, <1>7, <2>2, <2>3
<1>. QED
  BY <1>2, <1>5, <1>6, <1>7

\* Bit 0 of word 0 is bit number 0 of the window.
LEMMA ZeroBitNumber == 0 \div WORD_BITS = 0 /\ 0 % WORD_BITS = 0 /\ 0 \in WordIndices
  BY SizesAssumption DEF WordIndices

\* What setting a bit of the bitmap does to a single bit.
LEMMA SetBitSetsOne ==
    ASSUME NEW bitmap \in Bitmaps,
           NEW e \in 0..(WINDOW_SIZE - 1)
    PROVE  /\ SetBit(bitmap, e) \in Bitmaps
           /\ \A d \in 0..(WINDOW_SIZE - 1) :
                 BitSet(SetBit(bitmap, e), d) <=> d = e \/ BitSet(bitmap, d)
<1>1. e \div WORD_BITS \in WordIndices /\ e % WORD_BITS \in BitIndices
  BY WindowSize
<1>2. SetBit(bitmap, e) \in Bitmaps
  BY <1>1 DEF SetBit, Bitmaps
<1>3. ASSUME NEW d \in 0..(WINDOW_SIZE - 1)
      PROVE  BitSet(SetBit(bitmap, e), d) <=> d = e \/ BitSet(bitmap, d)
  <2>1. d \div WORD_BITS \in WordIndices /\ d % WORD_BITS \in BitIndices
    BY WindowSize
  <2>2. d \in Nat /\ e \in Nat
    BY WindowSize
  <2>3. /\ d = WORD_BITS * (d \div WORD_BITS) + (d % WORD_BITS)
        /\ e = WORD_BITS * (e \div WORD_BITS) + (e % WORD_BITS)
    BY <2>2, DivMod, SizesAssumption
  <2>4. d = e <=> d \div WORD_BITS = e \div WORD_BITS /\ d % WORD_BITS = e % WORD_BITS
    BY <2>3
  <2>. QED
    BY <1>1, <2>1, <2>4 DEF SetBit, BitSet, Bitmaps
<1>. QED
  BY <1>2, <1>3

\* Sliding a bitmap gives a bitmap: no shift leaves bits outside a word.
LEMMA SlideType ==
    ASSUME NEW bitmap \in Bitmaps, NEW n \in Nat
    PROVE  Slide(bitmap, n) \in Bitmaps
  BY DEF Slide, Bitmaps, ShiftLeft, ShiftRight

\* The zeroed bitmap has no bit set.
LEMMA ZeroBitmapEmpty ==
    /\ ZeroBitmap \in Bitmaps
    /\ \A d \in 0..(WINDOW_SIZE - 1) : ~BitSet(ZeroBitmap, d)
  BY WindowSize DEF ZeroBitmap, Bitmaps, BitSet

\* The zeroed filter is a filter that has seen nothing.
LEMMA InitRecords == replay_init \in Filters /\ RecentPast(replay_init, {})
  BY SizesAssumption DEF replay_init, Filters, ZeroBitmap, Counters, RecentPast

\* The test for the first packet of a session (last_counter and word 0 are 0)
\* holds exactly while nothing has been seen.
LEMMA FirstPacketIsEmpty ==
    ASSUME NEW f \in Filters, NEW seen \in SUBSET Counters, RecentPast(f, seen)
    PROVE  FirstPacket(f) <=> seen = {}
<1>1. CASE seen = {}
  BY <1>1, ZeroBitNumber DEF RecentPast, FirstPacket, replay_init, ZeroBitmap
<1>2. CASE seen # {}
  <2>1. BitSet(f.bitmap, 0)
    <3>1. 0 \in 0..(WINDOW_SIZE - 1)
      BY WindowSize
    <3>2. f.last_counter - 0 = f.last_counter
      BY SizesAssumption DEF Filters, Counters
    <3>. QED
      BY <1>2, <3>1, <3>2 DEF RecentPast, Records
  <2>. QED
    BY <1>2, <2>1, ZeroBitNumber DEF FirstPacket, BitSet
<1>. QED
  BY <1>1, <1>2

\* replay_check passes exactly what is new and less than a window behind
\* everything seen.
LEMMA CheckIsExact ==
    ASSUME NEW f \in Filters, NEW seen \in SUBSET Counters, RecentPast(f, seen),
           NEW c \in Counters
    PROVE  replay_check(f, c) <=> c \notin seen /\ \A a \in seen : a < c + WINDOW_SIZE
<1>1. CASE seen = {}
  BY <1>1, FirstPacketIsEmpty DEF replay_check
<1>2. CASE seen # {}
  <2> DEFINE last == f.last_counter
  <2>1. /\ last \in Counters /\ last \in seen
        /\ \A a \in seen : a <= last
        /\ Records(f.bitmap, last, seen)
    BY <1>2 DEF Filters, RecentPast
  <2>2. ~FirstPacket(f)
    BY <1>2, FirstPacketIsEmpty
  <2>3. c \in Int /\ last \in Int /\ WINDOW_SIZE \in Nat \ {0}
    BY <2>1, WindowSize, SizesAssumption DEF Counters
  <2>4. (\A a \in seen : a < c + WINDOW_SIZE) <=> last - c < WINDOW_SIZE
    BY <2>1, <2>3, SizesAssumption DEF Counters
  <2> HIDE DEF last
  <2>5. CASE c > last
    <3>1. c \notin seen
      BY <2>1, <2>3, <2>5, SizesAssumption DEF Counters
    <3>. QED
      BY <2>3, <2>4, <2>5, <3>1 DEF replay_check, last
  <2>6. CASE c <= last
    <3>1. last - c < WINDOW_SIZE => (BitSet(f.bitmap, last - c) <=> c \in seen)
      <4>1. last - (last - c) = c
        BY <2>3
      <4>2. last - c < WINDOW_SIZE => last - c \in 0..(WINDOW_SIZE - 1)
        BY <2>3, <2>6
      <4>. QED
        BY <2>1, <4>1, <4>2 DEF Records
    <3>2. last - c < WINDOW_SIZE <=> last - c \in 0..(WINDOW_SIZE - 1)
      BY <2>3, <2>6
    <3>3. ~(c > last)
      BY <2>3, <2>6
    <3>. QED
      BY <2>2, <2>4, <3>1, <3>2, <3>3 DEF replay_check, last
  <2>. QED
    BY <2>3, <2>5, <2>6
<1>. QED
  BY <1>1, <1>2

\* The window moves up: the slide, or the reset after a jump over the window,
\* and the new bit 0 leave the bitmap a record of the recent past.
LEMMA AdvanceRecords ==
    ASSUME NEW f \in Filters, NEW seen \in SUBSET Counters,
           NEW c \in Counters, c > f.last_counter,
           \A a \in seen : a <= f.last_counter,
           Records(f.bitmap, f.last_counter, seen)
    PROVE  /\ Advance(f, c) \in Filters
           /\ Advance(f, c).last_counter = c
           /\ Records(Advance(f, c).bitmap, c, seen \cup {c})
<1> DEFINE n == c - f.last_counter
           moved == IF n < WINDOW_SIZE THEN Slide(f.bitmap, n) ELSE ZeroBitmap
<1>1. /\ f.bitmap \in Bitmaps
      /\ f.last_counter \in Nat /\ c \in Nat /\ n \in Nat \ {0}
      /\ WINDOW_SIZE \in Nat \ {0}
      /\ \A a \in seen : a \in Nat
  <2>1. f.bitmap \in Bitmaps /\ f.last_counter \in Counters
    BY DEF Filters, Bitmaps
  <2>2. Counters \subseteq Nat
    BY SizesAssumption DEF Counters
  <2>3. f.last_counter \in Nat /\ c \in Nat
    BY <2>1, <2>2
  <2>4. n \in Nat \ {0}
    BY <2>3
  <2>. QED
    BY <2>1, <2>2, <2>3, <2>4, WindowSize
<1>2. moved \in Bitmaps
  BY <1>1, SlideType, ZeroBitmapEmpty
<1>3. ASSUME NEW d \in 0..(WINDOW_SIZE - 1)
      PROVE  BitSet(moved, d) <=> c - d \in seen
  <2>1. CASE n < WINDOW_SIZE
    <3>1. n \in 1..(WINDOW_SIZE - 1)
      BY <1>1, <2>1
    <3>2. BitSet(moved, d) <=> d >= n /\ BitSet(f.bitmap, d - n)
      BY <1>1, <2>1, <3>1, SlideMovesBits
    <3>3. CASE d >= n
      <4>1. d - n \in 0..(WINDOW_SIZE - 1) /\ f.last_counter - (d - n) = c - d
        BY <1>1, <3>1, <3>3
      <4>. QED
        BY <3>2, <3>3, <4>1 DEF Records
    <3>4. CASE d < n
      <4>1. c - d > f.last_counter
        BY <1>1, <3>4
      <4>2. c - d \notin seen
        BY <1>1, <4>1
      <4>. QED
        BY <1>1, <3>2, <3>4, <4>2
    <3>. QED
      BY <1>1, <3>3, <3>4
  <2>2. CASE n >= WINDOW_SIZE
    <3>1. c - d > f.last_counter
      BY <1>1, <2>2
    <3>2. c - d \notin seen
      BY <1>1, <3>1
    <3>3. ~BitSet(moved, d)
      BY <1>1, <2>2, ZeroBitmapEmpty
    <3>. QED
      BY <3>2, <3>3
  <2>. QED
    BY <1>1, <2>1, <2>2
<1> HIDE DEF moved
<1>4. [moved EXCEPT ![0] = @ \cup {0}] = SetBit(moved, 0)
  BY ZeroBitNumber DEF SetBit
<1>5. Advance(f, c) = [last_counter |-> c, bitmap |-> SetBit(moved, 0)]
  BY <1>4 DEF Advance, moved
<1>6. 0 \in 0..(WINDOW_SIZE - 1)
  BY <1>1
<1>7. SetBit(moved, 0) \in Bitmaps
  BY <1>2, <1>6, SetBitSetsOne
<1>8. ASSUME NEW d \in 0..(WINDOW_SIZE - 1)
      PROVE  BitSet(SetBit(moved, 0), d) <=> c - d \in seen \cup {c}
  <2>1. BitSet(SetBit(moved, 0), d) <=> d = 0 \/ BitSet(moved, d)
    BY <1>2, <1>6, SetBitSetsOne
  <2>2. c - d = c <=> d = 0
    BY <1>1
  <2>. QED
    BY <1>3, <2>1, <2>2
<1>. QED
  BY <1>5, <1>7, <1>8 DEF Records, Filters, Bitmaps

\* A late packet inside the window adds its own bit.
LEMMA MarkLateRecords ==
    ASSUME NEW f \in Filters, NEW seen \in SUBSET Counters,
           NEW c \in Counters, c <= f.last_counter,
           f.last_counter - c < WINDOW_SIZE,
           Records(f.bitmap, f.last_counter, seen)
    PROVE  /\ MarkLate(f, c) \in Filters
           /\ MarkLate(f, c).last_counter = f.last_counter
           /\ Records(MarkLate(f, c).bitmap, f.last_counter, seen \cup {c})
<1> DEFINE e == f.last_counter - c
<1>1. /\ f.bitmap \in Bitmaps
      /\ f.last_counter \in Nat /\ c \in Nat
      /\ WINDOW_SIZE \in Nat \ {0}
  BY WindowSize, SizesAssumption DEF Filters, Counters, Bitmaps
<1>2. e \in 0..(WINDOW_SIZE - 1)
  BY <1>1
<1>3. MarkLate(f, c) = [f EXCEPT !.bitmap = SetBit(f.bitmap, e)]
  BY DEF MarkLate
<1> HIDE DEF e
<1>4. SetBit(f.bitmap, e) \in Bitmaps
  BY <1>1, <1>2, SetBitSetsOne
<1>5. ASSUME NEW d \in 0..(WINDOW_SIZE - 1)
      PROVE  BitSet(SetBit(f.bitmap, e), d) <=> f.last_counter - d \in seen \cup {c}
  <2>1. BitSet(SetBit(f.bitmap, e), d) <=> d = e \/ BitSet(f.bitmap, d)
    BY <1>1, <1>2, SetBitSetsOne
  <2>2. f.last_counter - d = c <=> d = e
    BY <1>1 DEF e
  <2>. QED
    BY <2>1, <2>2 DEF Records
<1>. QED
  BY <1>3, <1>4, <1>5 DEF Records, Filters, Bitmaps

\* A counter that passed replay_check is what replay_update adds to the record.
LEMMA UpdateRecords ==
    ASSUME NEW f \in Filters, NEW seen \in SUBSET Counters, RecentPast(f, seen),
           NEW c \in Counters, replay_check(f, c)
    PROVE  /\ replay_update(f, c) \in Filters
           /\ RecentPast(replay_update(f, c), seen \cup {c})
<1> DEFINE g == replay_update(f, c)
<1>1. \A a \in seen : a < c + WINDOW_SIZE
  BY CheckIsExact
<1>2. SUFFICES /\ g \in Filters
               /\ \A a \in seen \cup {c} : a <= g.last_counter
               /\ g.last_counter \in seen \cup {c}
               /\ Records(g.bitmap, g.last_counter, seen \cup {c})
  BY DEF RecentPast
<1>3. Counters \subseteq Nat /\ WINDOW_SIZE \in Nat \ {0} /\ 0 \in 0..(WINDOW_SIZE - 1)
  BY SizesAssumption, WindowSize DEF Counters
<1> HIDE DEF g
<1>4. CASE seen = {}
  <2>1. FirstPacket(f) /\ f.bitmap = ZeroBitmap
    BY <1>4, FirstPacketIsEmpty DEF RecentPast, replay_init
  <2>2. [ZeroBitmap EXCEPT ![0] = {0}] = SetBit(ZeroBitmap, 0)
    BY ZeroBitNumber DEF SetBit, ZeroBitmap
  <2>3. g = [last_counter |-> c, bitmap |-> SetBit(ZeroBitmap, 0)]
    BY <2>1, <2>2 DEF replay_update, g
  <2>4. SetBit(ZeroBitmap, 0) \in Bitmaps
    BY <1>3, SetBitSetsOne, ZeroBitmapEmpty
  <2>5. ASSUME NEW d \in 0..(WINDOW_SIZE - 1)
        PROVE  BitSet(SetBit(ZeroBitmap, 0), d) <=> c - d \in {c}
    <3>1. BitSet(SetBit(ZeroBitmap, 0), d) <=> d = 0
      BY <1>3, SetBitSetsOne, ZeroBitmapEmpty
    <3>. QED
      BY <1>3, <3>1
  <2>. QED
    BY <1>3, <1>4, <2>3, <2>4, <2>5 DEF Records, Filters, Bitmaps
<1>5. CASE seen # {}
  <2> DEFINE last == f.last_counter
  <2>1. /\ last \in Counters /\ last \in seen
        /\ \A a \in seen : a <= last
        /\ Records(f.bitmap, last, seen)
        /\ ~FirstPacket(f)
    BY <1>5, FirstPacketIsEmpty DEF Filters, RecentPast
  <2> HIDE DEF last
  <2>0. last \in Nat /\ c \in Nat /\ \A a \in seen : a \in Nat
    BY <1>3, <2>1
  <2>2. CASE c > last
    <3>1. g = Advance(f, c)
      BY <2>1, <2>2 DEF replay_update, last, g
    <3>2. /\ g \in Filters
          /\ g.last_counter = c
          /\ Records(g.bitmap, c, seen \cup {c})
      BY <2>1, <2>2, <3>1, AdvanceRecords DEF last
    <3>3. \A a \in seen \cup {c} : a <= c
      BY <2>0, <2>1, <2>2
    <3>. QED
      BY <3>2, <3>3
  <2>3. CASE c <= last
    <3>1. last - c < WINDOW_SIZE
      <4>1. last < c + WINDOW_SIZE
        BY <1>1, <2>1
      <4>. QED
        BY <1>3, <2>0, <4>1
    <3>2. g = MarkLate(f, c)
      <4>1. ~(c > last)
        BY <2>0, <2>3
      <4>. QED
        BY <2>1, <4>1 DEF replay_update, last, g
    <3>3. /\ g \in Filters
          /\ g.last_counter = last
          /\ Records(g.bitmap, last, seen \cup {c})
      BY <2>1, <2>3, <3>1, <3>2, MarkLateRecords DEF last
    <3>. QED
      BY <2>1, <2>3, <3>3
  <2>. QED
    BY <2>0, <2>2, <2>3
<1>. QED
  BY <1>4, <1>5
-----------------------------------------------------------------------------
(* Routing. *)

\* The mask of prefix p has exactly the first p bits, the case p = 0 included.
LEMMA MaskBits ==
    ASSUME NEW p \in 0..ADDRESS_BITS
    PROVE  Mask(p) = {b \in AddressBits : b >= ADDRESS_BITS - p}
  BY AddressAssumption DEF Mask, AddressBits

\* Masking and comparing decides what the text of a prefix means.
LEMMA MatchIsCover ==
    ASSUME NEW text \in CidrTexts, ~CidrError(text), NEW ip \in Addresses
    PROVE  vpn_cidr_match(vpn_cidr_parse(text), ip) <=> Covers(text, ip)
<1> DEFINE net == vpn_ip_parse(text)
           mask == {b \in AddressBits : b >= ADDRESS_BITS - text.prefix}
<1>1. net \in Addresses
  BY DEF vpn_ip_parse, IsAddress, CidrTexts, Addresses
<1>2. Mask(text.prefix) = mask
  BY MaskBits DEF CidrError
<1>3. vpn_cidr_match(vpn_cidr_parse(text), ip) <=> ip \cap mask = net \cap mask
  BY <1>2 DEF vpn_cidr_match, vpn_cidr_parse
<1>4. ip \cap mask = net \cap mask <=> \A b \in mask : b \in ip <=> b \in net
  OBVIOUS
<1>. QED
  BY <1>3, <1>4 DEF Covers

\* The parser returns a prefix of the right type.
LEMMA CidrType ==
    ASSUME NEW text \in CidrTexts, ~CidrError(text)
    PROVE  vpn_cidr_parse(text) \in Cidrs
<1>1. Mask(text.prefix) \in Addresses /\ text.prefix \in 0..ADDRESS_BITS
  BY DEF Mask, Addresses, CidrError
<1>. QED
  BY <1>1 DEF vpn_cidr_parse, vpn_ip_parse, IsAddress, Cidrs, CidrTexts, Addresses
=============================================================================
