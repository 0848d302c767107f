-------------------------- MODULE MCFragReassembler --------------------------
(* Three senders: a datagram of three fragments, one of two, and one whose   *)
(* last fragment lies beyond the reassembly buffer.                          *)
EXTENDS FragReassembler

Frag(k, off, len, more) == [key |-> k, off |-> off, len |-> len, more |-> more]

MCKeys == {"a", "b", "c"}
MCFragments ==
  {Frag("a", 0, 2, TRUE), Frag("a", 2, 2, TRUE), Frag("a", 4, 1, FALSE),
   Frag("b", 0, 2, TRUE), Frag("b", 2, 2, FALSE),
   Frag("c", 0, 2, TRUE), Frag("c", 6, 2, FALSE)}
=============================================================================
