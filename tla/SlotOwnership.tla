--------------------------- MODULE SlotOwnership ----------------------------
(***************************************************************************)
(* What the netstack promises about the slots of its SocketSet, whatever   *)
(* its tasks, tables and critical sections are: who holds a slot, and to   *)
(* whom it may pass.  Netstack implements it.                              *)
(*                                                                         *)
(* A socket is created by dial_tcp or for a listener's pool.  It reaches a *)
(* TcpStream through a dial or through an accept queue, never otherwise,   *)
(* and leaves a TcpStream only for the closing list.  Only the poll loop   *)
(* removes sockets: stuck ones from a pool, and those of the closing list. *)
(* A leaked slot is held by nobody and never comes back: a dial or a       *)
(* listen_tcp that fails leaves one behind, and so does shutdown().        *)
(***************************************************************************)
CONSTANT Handles

VARIABLES
  own,   \* who holds each slot
  down   \* shutdown() was called

Owners == {"free", "dial", "stream", "pool", "queue", "closing", "leaked"}

\* The moves of a slot while the netstack serves.
Moves == {<<"free", "dial">>, <<"free", "pool">>, <<"free", "leaked">>,
          <<"dial", "stream">>, <<"dial", "closing">>, <<"dial", "leaked">>,
          <<"pool", "queue">>, <<"pool", "free">>, <<"queue", "stream">>,
          <<"stream", "closing">>, <<"closing", "free">>}

\* What shutdown() forgets.
Forgotten == {"pool", "queue", "closing"}

Init == own = [h \in Handles |-> "free"] /\ down = FALSE

\* One critical section may move several slots.
Move ==
  /\ own' \in [Handles -> Owners]
  /\ \A h \in Handles : own'[h] # own[h] => <<own[h], own'[h]>> \in Moves
  /\ UNCHANGED down

\* shutdown(): the tables are cleared; streams and dials keep their slots, but
\* for a dial nobody waits for any more.
Down ==
  /\ own' \in [Handles -> Owners]
  /\ \A h \in Handles :
       IF own[h] \in Forgotten THEN own'[h] = "leaked"
       ELSE own'[h] = own[h] \/ (own[h] = "dial" /\ own'[h] = "leaked")
  /\ down' = TRUE

Next == Move \/ Down

Spec == Init /\ [][Next]_<<own, down>>
=============================================================================
