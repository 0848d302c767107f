--------------------------- MODULE FragReassembler ---------------------------
(***************************************************************************)
(* IPv6 fragment reassembly in front of smoltcp (netstack/frag.rs).  The   *)
(* overlay may lose, reorder and duplicate packets; feed() is called for   *)
(* each packet that arrives, in the order of arrival.  A payload is        *)
(* reduced to the positions it writes: the buffer of a slot is the set of  *)
(* positions some fragment of that datagram has written (the rest of it    *)
(* is the zeroes it was created with).                                     *)
(***************************************************************************)
EXTENDS Integers, FiniteSets

CONSTANTS
  Keys,       \* (source, destination, identification) of a datagram
  Fragments,  \* what the senders emit: [key, off, len, more]
  BufLen,     \* length of the reassembly buffer
  MaxCopies   \* copies of one fragment the overlay may deliver

ASSUME FragmentsAssumption ==
  Fragments \subseteq [key : Keys, off : Nat, len : Nat \ {0}, more : BOOLEAN]
ASSUME BufLenAssumption == BufLen \in Nat
ASSUME MaxCopiesAssumption == MaxCopies \in Nat

VARIABLES
  copies,     \* copies of each fragment still on their way
  slots,      \* FragReassembler.slots
  stale,      \* keys of slots older than FRAG_TIMEOUT
  delivered,  \* packets build_reassembled returned
  harmed      \* keys of datagrams that lost a fragment, or a slot
vars == <<copies, slots, stale, delivered, harmed>>

NoSlot   == [total |-> -1, received |-> -1, buf |-> {}]
NewSlot  == [total |-> -1, received |-> 0, buf |-> {}]
FragsOf(k) == {f \in Fragments : f.key = k}
Span(f)  == f.off .. (f.off + f.len - 1)
End(f)   == f.off + f.len

Init ==
  /\ copies = [f \in Fragments |-> MaxCopies]
  /\ slots = [k \in Keys |-> NoSlot]
  /\ stale = {} /\ delivered = {} /\ harmed = {}

-----------------------------------------------------------------------------
\* evict_expired, at the start of every feed.
EvictExpired == [k \in Keys |-> IF k \in stale THEN NoSlot ELSE slots[k]]

\* A fragment that does not fit the reassembly buffer.
ExceedsByOffset(f) == f.off > BufLen \* mutant
Exceeds(f) == End(f) > BufLen

\* The slot of f after its payload is copied and counted.
Written(f, slot) ==
  [total |-> IF f.more THEN slot.total ELSE End(f),
   received |-> slot.received + f.len,
   buf |-> slot.buf \cup Span(f)]

\* The check for completeness: bytes counted, not positions covered.
CompleteLate(slot) == slot.total >= 0 /\ slot.received > slot.total \* mutant
CompleteEarly(slot) == slot.total >= 0 \* mutant: the last fragment is enough
Complete(slot) == slot.total >= 0 /\ slot.received >= slot.total

\* What feed() returns for a completed slot: the first total bytes.
Packet(k, slot) == [key |-> k, total |-> slot.total,
                    bytes |-> slot.buf \cap (0 .. (slot.total - 1))]

\* feed() of a fragment.
Feed(f) ==
  /\ copies[f] > 0
  /\ copies' = [copies EXCEPT ![f] = @ - 1]
  /\ LET k    == f.key
         kept == EvictExpired
         slot == Written(f, IF kept[k] = NoSlot THEN NewSlot ELSE kept[k])
     IN \/ /\ Exceeds(f)
           /\ slots' = [kept EXCEPT ![k] = NoSlot]
           /\ harmed' = harmed \cup stale \cup {k}
           /\ UNCHANGED delivered
        \/ /\ ~Exceeds(f) /\ Complete(slot)
           /\ slots' = [kept EXCEPT ![k] = NoSlot]
           /\ delivered' = delivered \cup {Packet(k, slot)}
           /\ harmed' = harmed \cup stale
        \/ /\ ~Exceeds(f) /\ ~Complete(slot)
           /\ slots' = [kept EXCEPT ![k] = slot]
           /\ harmed' = harmed \cup stale
           /\ UNCHANGED delivered
  /\ stale' = {}

\* feed() of a packet that is no fragment, or too short to be one: it is
\* passed through or dropped, after the eviction.
FeedOther ==
  /\ stale # {}
  /\ slots' = EvictExpired
  /\ harmed' = harmed \cup stale
  /\ stale' = {}
  /\ UNCHANGED <<copies, delivered>>

\* The overlay loses a copy.
Lose(f) ==
  /\ copies[f] > 0
  /\ copies' = [copies EXCEPT ![f] = @ - 1]
  /\ harmed' = harmed \cup {f.key}
  /\ UNCHANGED <<slots, stale, delivered>>

\* FRAG_TIMEOUT passes for the slot of k.
Age(k) ==
  /\ slots[k] # NoSlot /\ k \notin stale
  /\ stale' = stale \cup {k}
  /\ UNCHANGED <<copies, slots, delivered, harmed>>

Next ==
  \/ \E f \in Fragments : Feed(f) \/ Lose(f)
  \/ FeedOther
  \/ \E k \in Keys : Age(k)

Spec == Init /\ [][Next]_vars

-----------------------------------------------------------------------------
SlotType ==
  [total : Nat \cup {-1}, received : Nat \cup {-1}, buf : SUBSET (0 .. (BufLen - 1))]

\* The types, and the buffer's bound: no fragment is written past the end of the
\* reassembly buffer (a panic in copy_from_slice).
TypeOK ==
  /\ copies \in [Fragments -> 0..MaxCopies]
  /\ slots \in [Keys -> SlotType]
  /\ stale \subseteq {k \in Keys : slots[k] # NoSlot}
  /\ delivered \subseteq [key : Keys, total : Nat, bytes : SUBSET (0 .. (BufLen - 1))]
  /\ harmed \subseteq Keys

\* What smoltcp is handed has no holes and the length the sender gave it: in
\* whatever order the fragments arrive, whatever is lost or evicted, feed()
\* answers Some only for a complete packet.
DeliveredWhole ==
  \A p \in delivered :
    /\ p.bytes = 0 .. (p.total - 1)
    /\ \E f \in FragsOf(p.key) : ~f.more /\ p.total = End(f)

\* A datagram whose fragments all arrived is delivered: reordering never makes
\* the reassembler forget one.
ArrivedIsDelivered ==
  \A k \in Keys \ harmed :
    (\A f \in FragsOf(k) : copies[f] = 0) => \E p \in delivered : p.key = k

\* No slot keeps a datagram it could deliver, duplicates or not.
NoCompleteSlotKept ==
  \A k \in Keys :
    slots[k].total >= 0 => ~((0 .. (slots[k].total - 1)) \subseteq slots[k].buf)
=============================================================================
