----------------------- MODULE FragReassemblerProofs ------------------------
(***************************************************************************)
(* For any datagrams and any buffer: nothing is written past the end of    *)
(* the reassembly buffer; and, as long as the overlay duplicates nothing,  *)
(* what is delivered has no hole and what arrived is delivered, in         *)
(* whatever order the fragments of however many datagrams come.            *)
(***************************************************************************)
EXTENDS FragReassembler, FiniteSetTheorems, TLAPS

\* How a sender cuts a datagram: its fragments do not overlap, and none of them
\* lies beyond the last one.
WellCut ==
  \A f, g \in Fragments : f.key = g.key =>
    /\ f # g => Span(f) \cap Span(g) = {}
    /\ ~f.more => End(g) <= End(f)

\* The fragments of a datagram are all there, up to the end of the last one;
\* unless one of them is beyond the reassembly buffer.
Covered ==
  \A k \in Keys :
    \/ \E f \in FragsOf(k) : Exceeds(f)
    \/ \E f \in FragsOf(k) :
         ~f.more /\ \A x \in 0 .. (End(f) - 1) : \E g \in FragsOf(k) : x \in Span(g)

\* A slot holds what fragments that were fed have written, counted once.
Sound(k, s) ==
  /\ s.received = Cardinality(s.buf)
  /\ \A x \in s.buf : \E g \in FragsOf(k) : copies[g] = 0 /\ x \in Span(g)
  /\ s.total = -1 \/ \E g \in FragsOf(k) : ~g.more /\ s.total = End(g)

\* A slot holds all that was fed.
Whole(k, s) ==
  \A g \in FragsOf(k) : copies[g] = 0 =>
    /\ Span(g) \subseteq s.buf
    /\ ~g.more => s.total = End(g)
    /\ ~Exceeds(g)

\* A datagram that nothing happened to and that is not delivered yet.
Underway(k) == k \notin harmed /\ \A p \in delivered : p.key # k

SlotOK(k) ==
  /\ slots[k] # NoSlot => Sound(k, slots[k]) /\ ~Complete(slots[k])
  /\ Underway(k) => Whole(k, slots[k])

IInv == TypeOK /\ DeliveredWhole /\ \A k \in Keys : SlotOK(k)

\* The positions of m bytes.
LEMMA Positions ==
  ASSUME NEW m \in Nat
  PROVE  IsFiniteSet(0 .. (m - 1)) /\ Cardinality(0 .. (m - 1)) = m
<1>1. 0 \in Int /\ m - 1 \in Int
  OBVIOUS
<1>2. /\ IsFiniteSet(0 .. (m - 1))
      /\ Cardinality(0 .. (m - 1)) = IF 0 > m - 1 THEN 0 ELSE (m - 1) - 0 + 1
  BY <1>1, FS_Interval
<1> QED
  BY <1>2

\* What is known of a fragment, and of the operators on it.
LEMMA FragmentFacts ==
  ASSUME NEW f \in Fragments
  PROVE  /\ f.key \in Keys /\ f.off \in Nat /\ f.len \in Nat \ {0} /\ f.more \in BOOLEAN
         /\ End(f) \in Nat /\ End(f) > 0 /\ Span(f) \subseteq 0 .. (End(f) - 1)
         /\ Span(f) # {} /\ IsFiniteSet(Span(f)) /\ Cardinality(Span(f)) = f.len
<1>1. f.key \in Keys /\ f.off \in Nat /\ f.len \in Nat \ {0} /\ f.more \in BOOLEAN
  BY FragmentsAssumption
<1>2. /\ End(f) \in Nat /\ End(f) > 0 /\ Span(f) \subseteq 0 .. (End(f) - 1)
      /\ f.off \in Span(f)
  BY <1>1 DEF End, Span
<1>3. IsFiniteSet(Span(f)) /\ Cardinality(Span(f)) = f.len
  <2>1. f.off \in Int /\ f.off + f.len - 1 \in Int
    BY <1>1
  <2>2. /\ IsFiniteSet(f.off .. (f.off + f.len - 1))
        /\ Cardinality(f.off .. (f.off + f.len - 1))
             = IF f.off > f.off + f.len - 1 THEN 0 ELSE (f.off + f.len - 1) - f.off + 1
    BY <2>1, FS_Interval
  <2> QED
    BY <1>1, <2>2 DEF Span
<1> QED
  BY <1>1, <1>2, <1>3

\* A fragment that fits is written inside the buffer.
LEMMA WrittenType ==
  ASSUME NEW f \in Fragments, ~Exceeds(f), NEW s \in SlotType, s.received >= 0
  PROVE  Written(f, s) \in SlotType /\ Written(f, s).received >= 0
<1>1. /\ s.total \in Nat \cup {-1} /\ s.received \in Nat /\ s.buf \subseteq 0 .. (BufLen - 1)
      /\ End(f) <= BufLen /\ BufLen \in Nat
  BY BufLenAssumption, FragmentFacts DEF SlotType, Exceeds
<1>2. Span(f) \subseteq 0 .. (BufLen - 1)
  BY <1>1, FragmentFacts
<1>3. s.received + f.len \in Nat
  BY <1>1, FragmentFacts
<1>4. (IF f.more THEN s.total ELSE End(f)) \in Nat \cup {-1}
  BY <1>1, FragmentFacts
<1> QED
  BY <1>1, <1>2, <1>3, <1>4 DEF Written, SlotType

\* Slots that are in use count from zero.
Counting == \A k \in Keys : slots[k] # NoSlot => slots[k].received >= 0

\* The slot a fragment is written into: its own, or a new one.
Base(f) == IF EvictExpired[f.key] = NoSlot THEN NewSlot ELSE EvictExpired[f.key]

\* That slot has its type.
LEMMA BaseType ==
  ASSUME TypeOK, Counting, NEW f \in Fragments
  PROVE  Base(f) \in SlotType /\ Base(f).received >= 0
<1>1. NewSlot \in SlotType /\ NewSlot.received >= 0
  BY DEF NewSlot, SlotType
<1>2. EvictExpired[f.key] \in {NoSlot, slots[f.key]} /\ slots[f.key] \in SlotType
  BY FragmentFacts DEF EvictExpired, TypeOK
<1> QED
  BY <1>1, <1>2, FragmentFacts DEF Base, Counting

\* Every step keeps the types; only the slot of the fragment grows, inside the
\* buffer.
LEMMA NextType ==
  ASSUME TypeOK, Counting, [Next]_vars
  PROVE  TypeOK' /\ Counting'
<1>1. NoSlot \in SlotType
  BY DEF NoSlot, SlotType
<1>2. /\ EvictExpired \in [Keys -> SlotType]
      /\ \A k \in Keys : EvictExpired[k] \in {NoSlot, slots[k]}
  BY <1>1 DEF EvictExpired, TypeOK
<1>3. CASE \E f \in Fragments : Feed(f)
  <2>1. PICK f \in Fragments : Feed(f)
    BY <1>3
  <2> DEFINE slot == Written(f, Base(f))
  <2>2. /\ copies[f] > 0 /\ copies' = [copies EXCEPT ![f] = @ - 1] /\ stale' = {}
        /\ \/ /\ slots' = [EvictExpired EXCEPT ![f.key] = NoSlot]
              /\ harmed' = harmed \cup stale \cup {f.key} /\ UNCHANGED delivered
           \/ /\ ~Exceeds(f) /\ Complete(slot)
              /\ slots' = [EvictExpired EXCEPT ![f.key] = NoSlot]
              /\ delivered' = delivered \cup {Packet(f.key, slot)}
              /\ harmed' = harmed \cup stale
           \/ /\ ~Exceeds(f) /\ slots' = [EvictExpired EXCEPT ![f.key] = slot]
              /\ harmed' = harmed \cup stale /\ UNCHANGED delivered
    BY <2>1 DEF Feed, Base
  <2>3. ~Exceeds(f) => slot \in SlotType /\ slot.received >= 0
    BY BaseType, WrittenType
  <2>4. f.key \in Keys
    BY FragmentFacts
  <2> HIDE DEF slot
  <2>5. copies' \in [Fragments -> 0 .. MaxCopies] /\ harmed' \subseteq Keys /\ stale' = {}
    BY <2>2, <2>4, MaxCopiesAssumption DEF TypeOK
  <2>6. delivered' \subseteq [key : Keys, total : Nat, bytes : SUBSET (0 .. (BufLen - 1))]
    <3>1. ~Exceeds(f) /\ Complete(slot) =>
            Packet(f.key, slot) \in [key : Keys, total : Nat, bytes : SUBSET (0 .. (BufLen - 1))]
      <4> SUFFICES ASSUME ~Exceeds(f), Complete(slot)
                   PROVE  Packet(f.key, slot) \in [key : Keys, total : Nat, bytes : SUBSET (0 .. (BufLen - 1))]
        OBVIOUS
      <4>1. slot.total \in Nat /\ slot.buf \in SUBSET (0 .. (BufLen - 1))
        BY <2>3 DEF Complete, SlotType
      <4> QED
        BY <2>4, <4>1 DEF Packet
    <3> QED
      BY <2>2, <3>1 DEF TypeOK
  <2>7. slots' \in [Keys -> SlotType]
    BY <1>1, <1>2, <2>2, <2>3, <2>4
  <2>8. Counting'
    BY <1>2, <2>2, <2>3, <2>4 DEF Counting
  <2> QED
    BY <2>5, <2>6, <2>7, <2>8 DEF TypeOK
<1>4. CASE \E f \in Fragments : Lose(f)
  BY <1>4, MaxCopiesAssumption, FragmentFacts DEF Lose, TypeOK, Counting
<1>5. CASE FeedOther
  BY <1>2, <1>5 DEF FeedOther, TypeOK, Counting
<1>6. CASE \E k \in Keys : Age(k)
  BY <1>6 DEF Age, TypeOK, Counting
<1>7. CASE UNCHANGED vars
  BY <1>7 DEF vars, TypeOK, Counting
<1> QED
  BY <1>3, <1>4, <1>5, <1>6, <1>7 DEF Next

\* No slot is in use at first.
LEMMA InitType == Init => TypeOK /\ Counting
  BY MaxCopiesAssumption, BufLenAssumption DEF Init, TypeOK, Counting, SlotType, NoSlot

\* Whatever the fragments say of themselves, duplicated or not, cut by whatever
\* sender: feed() writes inside the buffer, and hands on at most its length.
THEOREM TypeCorrect == Spec => []TypeOK
<1>1. TypeOK /\ Counting /\ [Next]_vars => (TypeOK /\ Counting)'
  BY NextType
<1> QED
  BY <1>1, InitType, PTL DEF Spec

-----------------------------------------------------------------------------
\* What eviction leaves is sound; and whole, unless it is the datagram's harm.
LEMMA EvictedOK ==
  ASSUME IInv, NEW k \in Keys
  PROVE  /\ EvictExpired[k] # NoSlot => Sound(k, EvictExpired[k]) /\ ~Complete(EvictExpired[k])
         /\ Underway(k) /\ k \notin stale => Whole(k, EvictExpired[k])
  BY DEF IInv, SlotOK, EvictExpired

\* The slot of a fragment before it is written, when no copy of it came before.
LEMMA BaseOK ==
  ASSUME IInv, Counting, NEW f \in Fragments
  PROVE  /\ Sound(f.key, Base(f)) /\ IsFiniteSet(Base(f).buf)
         /\ Underway(f.key) /\ f.key \notin stale => Whole(f.key, Base(f))
<1>1. Sound(f.key, NewSlot)
  BY FS_EmptySet DEF Sound, NewSlot
<1>2. f.key \in Keys /\ TypeOK
  BY FragmentFacts DEF IInv
<1>3. Whole(f.key, NoSlot) => Whole(f.key, NewSlot)
  BY DEF Whole, NoSlot, NewSlot
<1>4. Base(f).buf \in SUBSET (0 .. (BufLen - 1))
  BY <1>2, BaseType DEF SlotType
<1>5. IsFiniteSet(0 .. (BufLen - 1))
  BY Positions, BufLenAssumption
<1>6. IsFiniteSet(Base(f).buf)
  BY <1>4, <1>5, FS_Subset
<1> QED
  BY <1>1, <1>2, <1>3, <1>6, EvictedOK DEF Base

\* A fragment that comes for the first time is counted for what it adds.
LEMMA WrittenOK ==
  ASSUME IInv, Counting, WellCut, MaxCopies = 1, NEW f \in Fragments, copies[f] > 0
  PROVE  LET s == Written(f, Base(f)) IN
         /\ s.received = Cardinality(s.buf) /\ IsFiniteSet(s.buf)
         /\ \A x \in s.buf : \E g \in FragsOf(f.key) : x \in Span(g) /\ (g = f \/ copies[g] = 0)
         /\ s.total = -1 \/ \E g \in FragsOf(f.key) : ~g.more /\ s.total = End(g)
<1> DEFINE b == Base(f)
           s == Written(f, b)
<1>1. Sound(f.key, b) /\ IsFiniteSet(b.buf)
  BY BaseOK
<1>2. f \in FragsOf(f.key)
  BY DEF FragsOf
<1>3. copies[f] # 0
  BY MaxCopiesAssumption DEF IInv, TypeOK
<1> HIDE DEF b
<1>4. s.buf = b.buf \cup Span(f) /\ s.received = b.received + f.len
      /\ s.total = IF f.more THEN b.total ELSE End(f)
  BY DEF Written
<1>5. b.buf \cap Span(f) = {}
  BY <1>1, <1>3 DEF Sound, WellCut, FragsOf
<1>6. IsFiniteSet(s.buf) /\ s.received = Cardinality(s.buf)
  <2>1. /\ IsFiniteSet(Span(f)) /\ Cardinality(Span(f)) = f.len /\ f.len \in Nat
        /\ b.received = Cardinality(b.buf) /\ Cardinality(b.buf) \in Nat
    BY <1>1, FragmentFacts, FS_CardinalityType DEF Sound
  <2>2. /\ IsFiniteSet(b.buf \cup Span(f))
        /\ Cardinality(b.buf \cup Span(f))
             = Cardinality(b.buf) + Cardinality(Span(f)) - Cardinality(b.buf \cap Span(f))
    BY <1>1, <2>1, FS_Union
  <2>3. Cardinality(b.buf \cap Span(f)) = 0
    BY <1>5, FS_EmptySet
  <2> QED
    BY <1>4, <2>1, <2>2, <2>3
<1>7. \A x \in s.buf : \E g \in FragsOf(f.key) : x \in Span(g) /\ (g = f \/ copies[g] = 0)
  BY <1>1, <1>2, <1>4 DEF Sound
<1>8. s.total = -1 \/ \E g \in FragsOf(f.key) : ~g.more /\ s.total = End(g)
  BY <1>1, <1>2, <1>4 DEF Sound
<1> QED
  BY <1>6, <1>7, <1>8 DEF b

\* A slot whose count reaches the length has every position: they all lie
\* before the end, and there are as many of them.
LEMMA CountedIsWhole ==
  ASSUME WellCut, NEW k \in Keys, NEW s, s.received = Cardinality(s.buf), IsFiniteSet(s.buf),
         \A x \in s.buf : \E g \in FragsOf(k) : x \in Span(g),
         s.total = -1 \/ \E g \in FragsOf(k) : ~g.more /\ s.total = End(g),
         Complete(s)
  PROVE  /\ s.buf = 0 .. (s.total - 1)
         /\ \E g \in FragsOf(k) : ~g.more /\ s.total = End(g)
<1>1. PICK g \in FragsOf(k) : ~g.more /\ s.total = End(g)
  BY DEF Complete
<1>2. g \in Fragments /\ g.key = k
  BY DEF FragsOf
<1>3. End(g) \in Nat
  BY <1>2, FragmentFacts
<1>4. \A x \in s.buf : x \in 0 .. (s.total - 1)
  <2> SUFFICES ASSUME NEW x \in s.buf PROVE x \in 0 .. (s.total - 1)
    OBVIOUS
  <2>1. PICK h \in FragsOf(k) : x \in Span(h)
    OBVIOUS
  <2>2. h \in Fragments /\ h.key = k
    BY DEF FragsOf
  <2>3. End(h) <= End(g) /\ End(h) \in Nat /\ x \in 0 .. (End(h) - 1)
    BY <1>1, <1>2, <2>1, <2>2, FragmentFacts DEF WellCut
  <2> QED
    BY <1>1, <1>3, <2>3
<1>5. IsFiniteSet(0 .. (s.total - 1)) /\ Cardinality(0 .. (s.total - 1)) = s.total
  BY <1>1, <1>3, Positions
<1>6. /\ Cardinality(s.buf) <= s.total
      /\ s.total = Cardinality(s.buf) => 0 .. (s.total - 1) = s.buf
  <2>1. s.buf \in SUBSET (0 .. (s.total - 1))
    BY <1>4
  <2>2. /\ Cardinality(s.buf) <= Cardinality(0 .. (s.total - 1))
        /\ Cardinality(0 .. (s.total - 1)) = Cardinality(s.buf) => 0 .. (s.total - 1) = s.buf
    BY <1>5, <2>1, FS_Subset
  <2> QED
    BY <1>5, <2>2
<1>7. Cardinality(s.buf) >= s.total /\ Cardinality(s.buf) \in Nat
  BY FS_CardinalityType DEF Complete
<1>8. s.total = Cardinality(s.buf)
  BY <1>1, <1>3, <1>6, <1>7
<1> QED
  BY <1>1, <1>6, <1>8

\* feed() of a fragment keeps every slot sound and whole.
LEMMA FeedIInv ==
  ASSUME IInv, Counting, TypeOK', WellCut, MaxCopies = 1, NEW f \in Fragments, Feed(f)
  PROVE  IInv'
<1> DEFINE s == Written(f, Base(f))
           k == f.key
<1>1. /\ copies[f] > 0 /\ copies' = [copies EXCEPT ![f] = @ - 1]
      /\ \/ /\ Exceeds(f) /\ slots' = [EvictExpired EXCEPT ![k] = NoSlot]
            /\ harmed' = harmed \cup stale \cup {k} /\ UNCHANGED delivered
         \/ /\ ~Exceeds(f) /\ Complete(s)
            /\ slots' = [EvictExpired EXCEPT ![k] = NoSlot]
            /\ delivered' = delivered \cup {Packet(k, s)}
            /\ harmed' = harmed \cup stale
         \/ /\ ~Exceeds(f) /\ ~Complete(s)
            /\ slots' = [EvictExpired EXCEPT ![k] = s]
            /\ harmed' = harmed \cup stale /\ UNCHANGED delivered
  BY DEF Feed, Base
<1>2. k \in Keys /\ f \in FragsOf(k) /\ EvictExpired \in [Keys -> {EvictExpired[j] : j \in Keys}]
  BY FragmentFacts DEF FragsOf, EvictExpired
<1>3. copies'[f] = 0 /\ \A g \in Fragments \ {f} : copies'[g] = copies[g]
  BY <1>1 DEF IInv, TypeOK
<1>4. /\ s.received = Cardinality(s.buf) /\ IsFiniteSet(s.buf)
      /\ \A x \in s.buf : \E g \in FragsOf(k) : x \in Span(g) /\ (g = f \/ copies[g] = 0)
      /\ s.total = -1 \/ \E g \in FragsOf(k) : ~g.more /\ s.total = End(g)
  BY <1>1, WrittenOK
<1>5. /\ Span(f) \subseteq s.buf /\ Base(f).buf \subseteq s.buf
      /\ s.total = IF f.more THEN Base(f).total ELSE End(f)
  BY DEF Written
<1>6. Underway(k) /\ k \notin stale => Whole(k, Base(f))
  BY BaseOK
<1>7. f.more \in BOOLEAN /\ \A g \in FragsOf(k) : g \in Fragments /\ g.key = k
  BY FragmentFacts DEF FragsOf
<1> HIDE DEF s, k
<1>8. DeliveredWhole'
  <2>1. CASE UNCHANGED delivered
    BY <2>1 DEF IInv, DeliveredWhole
  <2>2. CASE Complete(s) /\ delivered' = delivered \cup {Packet(k, s)}
    <3>1. s.buf = 0 .. (s.total - 1) /\ \E g \in FragsOf(k) : ~g.more /\ s.total = End(g)
      BY <1>2, <1>4, <2>2, CountedIsWhole
    <3>2. /\ Packet(k, s).bytes = 0 .. (Packet(k, s).total - 1)
          /\ \E g \in FragsOf(Packet(k, s).key) : ~g.more /\ Packet(k, s).total = End(g)
      BY <3>1 DEF Packet
    <3> QED
      BY <2>2, <3>2 DEF IInv, DeliveredWhole
  <2> QED
    BY <1>1, <2>1, <2>2
<1>9. ASSUME NEW j \in Keys, j # k PROVE SlotOK(j)'
  <2>1. slots'[j] = EvictExpired[j]
    BY <1>1, <1>2, <1>9
  <2>2. \A g \in FragsOf(j) : copies'[g] = copies[g]
    BY <1>3, <1>9 DEF FragsOf, k
  <2>3. Underway(j)' => Underway(j) /\ j \notin stale
    BY <1>1 DEF Underway
  <2> QED
    BY <2>1, <2>2, <2>3, EvictedOK DEF SlotOK, Sound, Whole, Complete
<1>10. SlotOK(k)'
  <2>1. CASE Exceeds(f) /\ slots' = [EvictExpired EXCEPT ![k] = NoSlot] /\ k \in harmed'
    BY <1>2, <2>1 DEF SlotOK, Underway
  <2>2. CASE slots' = [EvictExpired EXCEPT ![k] = NoSlot] /\ Packet(k, s) \in delivered'
    <3>1. Packet(k, s).key = k
      BY DEF Packet
    <3> QED
      BY <1>2, <2>2, <3>1 DEF SlotOK, Underway
  <2>3. CASE /\ ~Exceeds(f) /\ ~Complete(s) /\ slots' = [EvictExpired EXCEPT ![k] = s]
             /\ harmed' = harmed \cup stale /\ UNCHANGED delivered
    <3>1. slots'[k] = s
      BY <1>2, <2>3
    <3>2. Sound(k, slots[k])'
      BY <1>3, <1>4, <1>7, <3>1 DEF Sound
    <3>3. Underway(k)' => Whole(k, slots[k])'
      <4> SUFFICES ASSUME Underway(k)', NEW g \in FragsOf(k), copies'[g] = 0
                   PROVE  Span(g) \subseteq s.buf /\ (~g.more => s.total = End(g)) /\ ~Exceeds(g)
        BY <3>1 DEF Whole
      <4>1. Whole(k, Base(f))
        BY <1>6, <2>3 DEF Underway
      <4>2. CASE g = f
        BY <1>5, <2>3, <4>2
      <4>3. CASE g # f
        <5>1. copies[g] = 0 /\ g \in Fragments /\ g.key = f.key
          BY <1>3, <1>7, <4>3 DEF k
        <5>2. Span(g) \subseteq Base(f).buf /\ (~g.more => Base(f).total = End(g)) /\ ~Exceeds(g)
          BY <4>1, <5>1 DEF Whole
        <5>3. ~g.more /\ ~f.more => End(g) = End(f)
          BY <5>1, FragmentFacts DEF WellCut
        <5> QED
          BY <1>5, <1>7, <5>2, <5>3
      <4> QED
        BY <4>2, <4>3
    <3> QED
      BY <2>3, <3>1, <3>2, <3>3 DEF SlotOK, Complete
  <2> QED
    BY <1>1, <2>1, <2>2, <2>3
<1> QED
  BY <1>8, <1>9, <1>10 DEF IInv

\* The other steps take slots away, or copies, which harms their datagram.
LEMMA OthersIInv ==
  ASSUME IInv, TypeOK',
         \/ \E f \in Fragments : Lose(f)
         \/ FeedOther \/ (\E k \in Keys : Age(k)) \/ UNCHANGED vars
  PROVE  IInv'
<1>1. DeliveredWhole'
  BY DEF Lose, FeedOther, Age, vars, IInv, DeliveredWhole
<1>2. ASSUME NEW j \in Keys PROVE SlotOK(j)'
  <2>1. CASE \E f \in Fragments : Lose(f)
    <3>1. PICK f \in Fragments : Lose(f)
      BY <2>1
    <3>2. /\ UNCHANGED <<slots, delivered>> /\ harmed' = harmed \cup {f.key}
          /\ \A g \in Fragments \ {f} : copies'[g] = copies[g]
          /\ copies[f] # 0
      BY <3>1 DEF Lose, IInv, TypeOK
    <3>3. CASE j # f.key
      <4>1. \A g \in FragsOf(j) : copies'[g] = copies[g]
        BY <3>2, <3>3 DEF FragsOf
      <4>2. Underway(j)' => Underway(j)
        BY <3>2 DEF Underway
      <4> QED
        BY <3>2, <4>1, <4>2 DEF IInv, SlotOK, Sound, Whole, Complete
    <3>4. CASE j = f.key
      <4>1. \A g \in FragsOf(j) : copies[g] = 0 => copies'[g] = 0
        BY <3>2 DEF FragsOf
      <4>2. ~Underway(j)'
        BY <3>2, <3>4 DEF Underway
      <4> QED
        BY <3>2, <4>1, <4>2 DEF IInv, SlotOK, Sound, Complete
    <3> QED
      BY <3>3, <3>4
  <2>2. CASE FeedOther
    <3>1. slots'[j] = EvictExpired[j] /\ UNCHANGED copies
      BY <2>2 DEF FeedOther
    <3>2. Underway(j)' => Underway(j) /\ j \notin stale
      BY <2>2 DEF FeedOther, Underway
    <3> QED
      BY <3>1, <3>2, EvictedOK DEF SlotOK, Sound, Whole, Complete
  <2>3. CASE (\E k \in Keys : Age(k)) \/ UNCHANGED vars
    BY <2>3 DEF Age, vars, IInv, SlotOK, Sound, Whole, Complete, Underway
  <2> QED
    BY <2>1, <2>2, <2>3
<1> QED
  BY <1>1, <1>2 DEF IInv

\* Before the first packet everything is underway, and nothing fed.
LEMMA InitIInv ==
  ASSUME MaxCopies = 1, Init
  PROVE  IInv
<1>1. TypeOK
  BY InitType
<1>2. DeliveredWhole /\ \A k \in Keys : SlotOK(k)
  BY DEF Init, DeliveredWhole, SlotOK, Whole, FragsOf
<1> QED
  BY <1>1, <1>2 DEF IInv

\* So the invariant holds in every state, if senders cut their datagrams well
\* and the overlay duplicates nothing.
LEMMA Inductive ==
  ASSUME WellCut, MaxCopies = 1
  PROVE  Spec => []IInv
<1>1. IInv /\ Counting /\ [Next]_vars => (IInv /\ Counting)'
  <2> SUFFICES ASSUME IInv, Counting, [Next]_vars PROVE IInv' /\ Counting'
    OBVIOUS
  <2>1. TypeOK' /\ Counting'
    BY NextType DEF IInv
  <2> QED
    BY <2>1, FeedIInv, OthersIInv DEF Next
<1>2. Init => IInv /\ Counting
  BY InitIInv, InitType
<1> QED
  BY <1>1, <1>2, PTL DEF Spec

\* Reordered, lost, evicted or interleaved with the fragments of any number of
\* other datagrams: what feed() answers is a packet without a hole, of the
\* length its sender gave it.  The hypothesis on copies is needed: the count of
\* bytes takes a duplicate for progress (see the run frag_dup_hole).
THEOREM ReassemblyWhole ==
  ASSUME WellCut, MaxCopies = 1
  PROVE  Spec => []DeliveredWhole
<1>1. IInv => DeliveredWhole
  BY DEF IInv
<1> QED
  BY <1>1, Inductive, PTL

\* A datagram all of whose fragments arrived has been delivered: whatever their
\* order, the last one to come makes the slot complete.
THEOREM ReassemblyTotal ==
  ASSUME WellCut, Covered, MaxCopies = 1
  PROVE  Spec => []ArrivedIsDelivered
<1>1. ASSUME IInv PROVE ArrivedIsDelivered
  <2> SUFFICES ASSUME NEW k \in Keys, Underway(k), \A f \in FragsOf(k) : copies[f] = 0
               PROVE  FALSE
    BY DEF ArrivedIsDelivered, Underway
  <2>1. SlotOK(k) /\ Whole(k, slots[k]) /\ slots[k] \in SlotType
    BY <1>1 DEF IInv, SlotOK, TypeOK
  <2>2. \A f \in FragsOf(k) : ~Exceeds(f)
    BY <2>1 DEF Whole
  <2>3. PICK f \in FragsOf(k) :
          ~f.more /\ \A x \in 0 .. (End(f) - 1) : \E g \in FragsOf(k) : x \in Span(g)
    BY <2>2 DEF Covered
  <2>4. f \in Fragments /\ slots[k].total = End(f) /\ End(f) \in Nat
    BY <2>1, <2>3, FragmentFacts DEF Whole, FragsOf
  <2>5. 0 .. (End(f) - 1) \subseteq slots[k].buf
    BY <2>1, <2>3 DEF Whole
  <2>6. slots[k] # NoSlot
    BY <2>4 DEF NoSlot
  <2>7. IsFiniteSet(slots[k].buf)
    <3>1. IsFiniteSet(0 .. (BufLen - 1)) /\ slots[k].buf \in SUBSET (0 .. (BufLen - 1))
      BY <2>1, Positions, BufLenAssumption DEF SlotType
    <3> QED
      BY <3>1, FS_Subset
  <2>8. Cardinality(0 .. (End(f) - 1)) = End(f)
    BY <2>4, Positions
  <2>9. Cardinality(slots[k].buf) >= End(f)
    <3>1. Cardinality(0 .. (End(f) - 1)) <= Cardinality(slots[k].buf)
      BY <2>5, <2>7, FS_Subset
    <3> QED
      BY <2>4, <2>7, <2>8, <3>1, FS_CardinalityType
  <2>10. ~Complete(slots[k]) /\ slots[k].received = Cardinality(slots[k].buf)
    BY <2>1, <2>6 DEF SlotOK, Sound
  <2> QED
    BY <2>4, <2>9, <2>10 DEF Complete
<1> QED
  BY <1>1, Inductive, PTL

=============================================================================
