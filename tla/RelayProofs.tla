----------------------------- MODULE RelayProofs -----------------------------
(***************************************************************************)
(* For any number of connections and any amount of data on each of them:   *)
(* the gauges and counters of a listener agree with what its tasks do, and *)
(* a relay passes on what it read, in order, and to the end of a response. *)
(***************************************************************************)
EXTENDS Relay, FiniteSetTheorems, TLAPS

\* A connection before its request is known.
Early == {"idle", "hello", "request", "head", "begin"}

\* What a connection has not done yet: nothing is read before the request is,
\* nothing passed on before there is a leg to the other side.
Untouched(c) ==
  /\ pc[c] \in Early => req[c] = "none" /\ seen[<<c, "up">>] = 0 /\ buf[<<c, "up">>] = <<>>
  /\ pc[c] \in Early \cup {"dial", "reply"} =>
       /\ seen[<<c, "down">>] = 0 /\ buf[<<c, "down">>] = <<>>
       /\ \A d \in Dirs : out[<<c, d>>] = <<>> /\ ~wr[<<c, d>>]
  /\ pc[c] \in Early \cup {"dial"} \/ req[c] = "associate" => made[<<c, "down">>] = 0
  /\ pc[c] \notin {"control", "ended"} => rt[c] = "none"

\* Which listener's connections come through a control state.
Handled(c) ==
  /\ pc[c] = "begin" => kind \in Forwards
  /\ pc[c] \in {"hello", "request", "control"} \/ req[c] = "associate" => kind = "socks"
  /\ pc[c] \in {"head", "reply", "flush"} => kind \notin Forwards
  /\ req[c] = "associate" => pc[c] \in {"reply", "control"}
  /\ pc[c] = "control" => req[c] = "associate"

\* The datagrams of an association: a reply follows each one sent, or none.
Associated(c) ==
  /\ req[c] = "associate" => \A d \in Dirs : buf[<<c, d>>] = <<>> /\ ~wr[<<c, d>>]
  /\ req[c] = "associate" /\ pc[c] = "reply" => seen[<<c, "up">>] = 0
  /\ pc[c] = "control" =>
       /\ seen[<<c, "down">>] <= seen[<<c, "up">>] /\ seen[<<c, "up">>] <= MaxUp
       /\ rt[c] = "wait" => seen[<<c, "down">>] < seen[<<c, "up">>]
       /\ rt[c] = "send" => seen[<<c, "up">>] < MaxUp

\* One more place at the front of a forwarded request: its head.
HeadLen(c, d) == IF req[c] = "forward" /\ d = "up" THEN 1 ELSE 0

\* Chunks of o wholly passed on, when w says whether its last one is being
\* written.
Passed(o, w) == IF w THEN Len(o) - 1 ELSE Len(o)

\* What arrived, o, and what waits, b, are the head and the s chunks read, in
\* order.
Ordered(o, b, w, s, h) ==
  /\ w => Len(o) >= 1 /\ Len(b) >= 1
  /\ Passed(o, w) + Len(b) = h + s
  /\ \A i \in 1 .. Len(o) : o[i] = i - h
  /\ \A j \in 1 .. Len(b) : b[j] = Passed(o, w) + j - h

\* StreamInOrder, position by position.
Stream(c, d) ==
  c \in Open =>
    Ordered(out[<<c, d>>], buf[<<c, d>>], wr[<<c, d>>], seen[<<c, d>>], HeadLen(c, d))

\* Who is gone has shut down its half.
GoneIsFin(c) == \A d \in Dirs : dead[<<c, d>>] => fin[<<c, d>>]

\* ResponseWhole, of one connection.
ResponseOK(c) ==
  pc[c] = "ended" /\ sent = "no" /\ ~fin[<<c, "up">>] /\ ~dead[<<c, "down">>] =>
    Len(out[<<c, "down">>]) >= made[<<c, "down">>]

ConnOK(c) ==
  /\ Untouched(c) /\ Handled(c) /\ Associated(c) /\ GoneIsFin(c) /\ ResponseOK(c)
  /\ \A d \in Dirs : Stream(c, d)

\* A channel is closed, or a message in it, only after the stop was sent.
SentFirst == sig # {} \/ Engine \notin senders => sent # "no"

IInv ==
  /\ TypeOK /\ SentFirst /\ GaugeExact /\ TrafficCounted
  /\ \A c \in Conns : ConnOK(c)

-----------------------------------------------------------------------------
(* Types *)

Labels == {"idle", "hello", "request", "head", "begin", "dial",
           "reply", "flush", "relay", "control", "ended"}

\* The steps of the listener and of the engine leave the connections alone.
LEMMA ListenerType ==
  ASSUME TypeOK,
         \/ Bind \/ BindFails \/ ListenerStops \/ ListenerAborted
         \/ SendStop \/ DropSender \/ UNCHANGED vars
  PROVE  TypeOK'
<1>1. CASE Bind \/ BindFails
  BY <1>1 DEF Bind, BindFails, TypeOK, Open, statVars, stopVars, copyVars, endVars
<1>2. CASE ListenerStops \/ ListenerAborted
  BY <1>2 DEF ListenerStops, ListenerAborted, TypeOK, Open, statVars, stopVars, copyVars, endVars
<1>3. CASE SendStop \/ DropSender
  BY <1>3 DEF SendStop, DropSender, TypeOK, Open, statVars, listenVars, copyVars, endVars
<1>4. CASE UNCHANGED vars
  BY <1>4 DEF vars, TypeOK, Open, statVars, stopVars, listenVars, copyVars, endVars
<1> QED
  BY <1>1, <1>2, <1>3, <1>4

\* The gauges are counters.
LEMMA GaugeType ==
  ASSUME TypeOK, ConnOpened \/ ConnClosed \/ UNCHANGED <<active, total>>
  PROVE  active' \in Nat /\ total' \in Nat
  BY DEF TypeOK, ConnOpened, ConnClosed

\* A task moves on: it stays open, and holds what it held of a stop.
LEMMA GotoType ==
  ASSUME TypeOK, NEW c \in Conns, NEW label \in Labels \ {"idle", "ended"}, Goto(c, label)
  PROVE  /\ pc' \in [Conns -> Labels] /\ pc'[c] = label
         /\ \A b \in Conns \ {c} : pc'[b] = pc[b]
         /\ Open' = Open \cup {c}
<1>1. /\ pc' \in [Conns -> Labels] /\ pc'[c] = label
      /\ \A b \in Conns \ {c} : pc'[b] = pc[b]
  BY DEF TypeOK, Goto, Labels
<1>2. Open' = Open \cup {c}
  BY <1>1 DEF Open
<1> QED
  BY <1>1, <1>2

\* What the end of a task changes.
LEMMA EndFacts ==
  ASSUME TypeOK, NEW c \in Conns, End(c)
  PROVE  /\ pc' \in [Conns -> Labels] /\ pc'[c] = "ended"
         /\ \A b \in Conns \ {c} : pc'[b] = pc[b]
         /\ req' \in [Conns -> {"none", "connect", "forward", "associate"}]
         /\ req'[c] = "none" /\ \A b \in Conns \ {c} : req'[b] = req[b]
         /\ buf' \in [Conns \X Dirs -> Seq(Chunks)]
         /\ \A d \in Dirs : buf'[<<c, d>>] = <<>>
         /\ \A b \in Conns \ {c}, d \in Dirs : buf'[<<b, d>>] = buf[<<b, d>>]
         /\ active' \in Nat /\ total' \in Nat
         /\ sig' \subseteq sig /\ sig' \subseteq Open' \cup {Listener}
<1>1. /\ pc' \in [Conns -> Labels] /\ pc'[c] = "ended"
      /\ \A b \in Conns \ {c} : pc'[b] = pc[b]
      /\ req' \in [Conns -> {"none", "connect", "forward", "associate"}]
      /\ req'[c] = "none" /\ \A b \in Conns \ {c} : req'[b] = req[b]
  BY DEF TypeOK, End, Labels
<1>2. <<>> \in Seq(Chunks)
  OBVIOUS
<1>3. /\ buf' \in [Conns \X Dirs -> Seq(Chunks)]
      /\ \A d \in Dirs : buf'[<<c, d>>] = <<>>
      /\ \A b \in Conns \ {c}, d \in Dirs : buf'[<<b, d>>] = buf[<<b, d>>]
  <2>1. buf' = [x \in Conns \X Dirs |-> IF x[1] = c THEN <<>> ELSE buf[x]]
    BY DEF End
  <2>2. buf \in [Conns \X Dirs -> Seq(Chunks)]
    BY DEF TypeOK
  <2> QED
    BY <1>2, <2>1, <2>2
<1>4. active' \in Nat /\ total' \in Nat
  BY GaugeType DEF End
<1>5. sig' \subseteq sig /\ sig' \subseteq Open' \cup {Listener}
  BY <1>1 DEF End, TypeOK, Open
<1> QED
  BY <1>1, <1>3, <1>4, <1>5

\* The end of a task keeps the types.
LEMMA EndType ==
  ASSUME TypeOK, NEW c \in Conns, End(c),
         UNCHANGED <<kind, listenVars, bytes, sent, senders, seen, wr, out, endVars, rt>>
  PROVE  TypeOK'
  BY EndFacts DEF TypeOK, Labels, listenVars, endVars

-----------------------------------------------------------------------------
(* Frames *)

\* A step that is not one of connection b.
Same(b) ==
  /\ pc'[b] = pc[b] /\ req'[b] = req[b] /\ rt'[b] = rt[b]
  /\ \A d \in Dirs :
       /\ made'[<<b, d>>] = made[<<b, d>>] /\ seen'[<<b, d>>] = seen[<<b, d>>]
       /\ buf'[<<b, d>>] = buf[<<b, d>>] /\ wr'[<<b, d>>] = wr[<<b, d>>]
       /\ out'[<<b, d>>] = out[<<b, d>>]
       /\ fin'[<<b, d>>] = fin[<<b, d>>] /\ dead'[<<b, d>>] = dead[<<b, d>>]

Only(c) == kind' = kind /\ (sent # "no" => sent' # "no") /\ \A b \in Conns \ {c} : Same(b)

\* The other connections do not notice.
LEMMA SameOK ==
  ASSUME NEW b \in Conns, ConnOK(b), Same(b), kind' = kind, sent # "no" => sent' # "no"
  PROVE  ConnOK(b)'
<1>1. "up" \in Dirs /\ "down" \in Dirs
  BY DEF Dirs
<1>2. Untouched(b)'
  BY <1>1 DEF ConnOK, Untouched, Same
<1>3. Handled(b)' /\ Associated(b)'
  BY <1>1 DEF ConnOK, Handled, Associated, Same
<1>4. GoneIsFin(b)' /\ ResponseOK(b)'
  BY <1>1 DEF ConnOK, GoneIsFin, ResponseOK, Same
<1>5. ASSUME NEW d \in Dirs PROVE Stream(b, d)'
  <2>1. Stream(b, d) /\ (b \in Open <=> b \in Open')
    BY DEF ConnOK, Open, Same
  <2>2. HeadLen(b, d)' = HeadLen(b, d)
    BY DEF HeadLen, Same
  <2> QED
    BY <2>1, <2>2 DEF Stream, Same
<1> QED
  BY <1>2, <1>3, <1>4, <1>5 DEF ConnOK

\* So a step of c has to look after c alone.
LEMMA OnlyOK ==
  ASSUME IInv, NEW c \in Conns, Only(c), ConnOK(c)'
  PROVE  \A b \in Conns : ConnOK(b)'
  BY SameOK DEF IInv, Only

\* The gauge counts two sets of tasks.
LEMMA GaugeSets ==
  /\ IsFiniteSet(Conns)
  /\ IsFiniteSet({c \in Conns : Guarded(c)}) /\ IsFiniteSet(Relaying)
  /\ Cardinality({c \in Conns : Guarded(c)}) \in Nat /\ Cardinality(Relaying) \in Nat
<1>1. IsFiniteSet(Conns)
  BY FS_Interval, MaxConnAssumption DEF Conns
<1>2. {c \in Conns : Guarded(c)} \in SUBSET Conns /\ Relaying \in SUBSET Conns
  BY DEF Relaying
<1>3. IsFiniteSet({c \in Conns : Guarded(c)}) /\ IsFiniteSet(Relaying)
  BY <1>1, <1>2, FS_Subset
<1> QED
  BY <1>1, <1>3, FS_CardinalityType

\* Nobody takes or drops a guard.
LEMMA GaugeSame ==
  ASSUME GaugeExact, UNCHANGED <<active, total>>,
         \A c \in Conns : (Guarded(c)' <=> Guarded(c)) /\ (c \in Relaying' <=> c \in Relaying)
  PROVE  GaugeExact'
<1>1. Relaying' = Relaying /\ {c \in Conns : Guarded(c)'} = {c \in Conns : Guarded(c)}
  BY DEF Relaying
<1> QED
  BY <1>1 DEF GaugeExact

\* The task of c takes a guard.
LEMMA GaugeUp ==
  ASSUME TypeOK, GaugeExact, NEW c \in Conns, ConnOpened,
         \A b \in Conns \ {c} : (Guarded(b)' <=> Guarded(b)) /\ (b \in Relaying' <=> b \in Relaying),
         \/ ~Guarded(c) /\ Guarded(c)' /\ (c \in Relaying' <=> c \in Relaying)
         \/ c \notin Relaying /\ c \in Relaying' /\ (Guarded(c)' <=> Guarded(c))
  PROVE  GaugeExact'
<1> DEFINE G == {b \in Conns : Guarded(b)}
           H == {b \in Conns : Guarded(b)'}
<1>1. \/ H = G \cup {c} /\ c \notin G /\ Relaying' = Relaying
      \/ Relaying' = Relaying \cup {c} /\ c \notin Relaying /\ H = G
  BY DEF Relaying
<1>2. /\ IsFiniteSet(G) /\ IsFiniteSet(Relaying)
      /\ Cardinality(G) \in Nat /\ Cardinality(Relaying) \in Nat
  BY GaugeSets
<1>3. active = Cardinality(G) + Cardinality(Relaying) /\ active <= total
      /\ active \in Nat /\ total \in Nat
  BY DEF GaugeExact, TypeOK
<1> HIDE DEF G, H
<1>4. Cardinality(H) + Cardinality(Relaying') = Cardinality(G) + Cardinality(Relaying) + 1
  <2>1. c \notin G => Cardinality(G \cup {c}) = Cardinality(G) + 1
    BY <1>2, FS_AddElement
  <2>2. c \notin Relaying => Cardinality(Relaying \cup {c}) = Cardinality(Relaying) + 1
    BY <1>2, FS_AddElement
  <2>3. \/ Cardinality(H) = Cardinality(G) + 1 /\ Cardinality(Relaying') = Cardinality(Relaying)
        \/ Cardinality(Relaying') = Cardinality(Relaying) + 1 /\ Cardinality(H) = Cardinality(G)
    BY <1>1, <2>1, <2>2, Zenon
  <2> QED
    BY <1>2, <2>3
<1>5. active' = Cardinality(H) + Cardinality(Relaying') /\ active' <= total'
  BY <1>3, <1>4 DEF ConnOpened
<1> QED
  BY <1>5 DEF GaugeExact, H

\* The task of c drops its guard, and conn_closed does not clamp.
LEMMA GaugeDown ==
  ASSUME TypeOK, GaugeExact, NEW c \in Conns, ConnClosed,
         \A b \in Conns \ {c} : (Guarded(b)' <=> Guarded(b)) /\ (b \in Relaying' <=> b \in Relaying),
         \/ Guarded(c) /\ ~Guarded(c)' /\ (c \in Relaying' <=> c \in Relaying)
         \/ c \in Relaying /\ c \notin Relaying' /\ (Guarded(c)' <=> Guarded(c))
  PROVE  GaugeExact'
<1> DEFINE G == {b \in Conns : Guarded(b)}
           H == {b \in Conns : Guarded(b)'}
<1>1. \/ H = G \ {c} /\ c \in G /\ Relaying' = Relaying
      \/ Relaying' = Relaying \ {c} /\ c \in Relaying /\ H = G
  BY DEF Relaying
<1>2. /\ IsFiniteSet(G) /\ IsFiniteSet(Relaying)
      /\ Cardinality(G) \in Nat /\ Cardinality(Relaying) \in Nat
  BY GaugeSets
<1>3. active = Cardinality(G) + Cardinality(Relaying) /\ active <= total
      /\ active \in Nat /\ total \in Nat
  BY DEF GaugeExact, TypeOK
<1> HIDE DEF G, H
<1>4. Cardinality(H) + Cardinality(Relaying') = Cardinality(G) + Cardinality(Relaying) - 1
  <2>1. c \in G => Cardinality(G \ {c}) = Cardinality(G) - 1
    BY <1>2, FS_RemoveElement
  <2>2. c \in Relaying => Cardinality(Relaying \ {c}) = Cardinality(Relaying) - 1
    BY <1>2, FS_RemoveElement
  <2>3. \/ Cardinality(H) = Cardinality(G) - 1 /\ Cardinality(Relaying') = Cardinality(Relaying)
        \/ Cardinality(Relaying') = Cardinality(Relaying) - 1 /\ Cardinality(H) = Cardinality(G)
    BY <1>1, <2>1, <2>2, Zenon
  <2> QED
    BY <1>2, <2>3
<1>5. Cardinality(G) > 0 \/ Cardinality(Relaying) > 0
  BY <1>1, <1>2, FS_EmptySet
<1>6. active' = Cardinality(H) + Cardinality(Relaying') /\ active' <= total'
  BY <1>2, <1>3, <1>4, <1>5 DEF ConnClosed
<1> QED
  BY <1>6 DEF GaugeExact, H

\* Nothing arrives anywhere, and no write begins or ends.
LEMMA TrafficSame ==
  ASSUME TrafficCounted, UNCHANGED <<kind, bytes, wr, out>>
  PROVE  TrafficCounted'
  BY DEF TrafficCounted, NetworkLeg

-----------------------------------------------------------------------------
(* The steps *)

\* Nothing has happened yet.
LEMMA InitIInv == Init => IInv
<1> SUFFICES ASSUME Init PROVE IInv
  OBVIOUS
<1>1. 0 \in Chunks /\ <<>> \in Seq(Chunks)
  BY MaxUpAssumption, MaxDownAssumption DEF Chunks
<1>2. TypeOK
  <2>1. listed \in BOOLEAN
    <3>1. listed = (kind \in Forwards) /\ (kind \in Forwards) \in BOOLEAN
      BY DEF Init
    <3> QED
      BY <3>1
  <2>2. /\ kind \in Kinds /\ lpc = "bind" /\ active = 0 /\ total = 0
        /\ bytes = [rx |-> 0, tx |-> 0] /\ sent = "no" /\ senders = {Engine, Listener} /\ sig = {}
        /\ pc = [c \in Conns |-> "idle"] /\ req = [c \in Conns |-> "none"]
        /\ rt = [c \in Conns |-> "none"]
        /\ made = [x \in Conns \X Dirs |-> 0] /\ seen = [x \in Conns \X Dirs |-> 0]
        /\ buf = [x \in Conns \X Dirs |-> <<>>] /\ out = [x \in Conns \X Dirs |-> <<>>]
        /\ wr = [x \in Conns \X Dirs |-> FALSE]
        /\ fin = [x \in Conns \X Dirs |-> FALSE] /\ dead = [x \in Conns \X Dirs |-> FALSE]
    BY DEF Init
  <2> QED
    BY <1>1, <2>1, <2>2 DEF TypeOK, Open
<1>3. SentFirst
  BY DEF Init, SentFirst
<1>4. GaugeExact
  <2>1. {c \in Conns : Guarded(c)} = {} /\ Relaying = {}
    BY DEF Init, Guarded, Relaying
  <2>2. Cardinality({c \in Conns : Guarded(c)}) = 0 /\ Cardinality(Relaying) = 0
    BY <2>1, FS_EmptySet, Zenon
  <2> QED
    BY <2>2 DEF Init, GaugeExact
<1>5. TrafficCounted
  <2> SUFFICES ASSUME NEW d \in Dirs
               PROVE  (IF NetworkLeg(d) = "up" THEN bytes.tx ELSE bytes.rx)
                        = Cardinality({x \in Conns \X (1..MaxUp + MaxDown + 1) : x[2] \in DOMAIN out[<<x[1], d>>]})
                          - Cardinality({c \in Conns : wr[<<c, d>>]})
    BY DEF TrafficCounted
  <2>1. \A c \in Conns : out[<<c, d>>] = <<>> /\ ~wr[<<c, d>>]
    BY DEF Init
  <2>2. /\ {x \in Conns \X (1..MaxUp + MaxDown + 1) : x[2] \in DOMAIN out[<<x[1], d>>]} = {}
        /\ {c \in Conns : wr[<<c, d>>]} = {}
    BY <2>1
  <2>3. /\ Cardinality({x \in Conns \X (1..MaxUp + MaxDown + 1) : x[2] \in DOMAIN out[<<x[1], d>>]}) = 0
        /\ Cardinality({c \in Conns : wr[<<c, d>>]}) = 0
    BY <2>2, FS_EmptySet, Zenon
  <2>4. bytes.tx = 0 /\ bytes.rx = 0
    BY DEF Init
  <2> QED
    BY <2>3, <2>4
<1>6. ASSUME NEW c \in Conns PROVE ConnOK(c)
  <2>1. /\ pc[c] = "idle" /\ req[c] = "none" /\ rt[c] = "none"
        /\ \A d \in Dirs : /\ made[<<c, d>>] = 0 /\ seen[<<c, d>>] = 0 /\ buf[<<c, d>>] = <<>>
                           /\ out[<<c, d>>] = <<>> /\ ~wr[<<c, d>>] /\ ~dead[<<c, d>>]
        /\ "up" \in Dirs /\ "down" \in Dirs
    BY DEF Init, Dirs
  <2> QED
    BY <2>1 DEF ConnOK, Untouched, Handled, Associated, GoneIsFin, ResponseOK, Stream, Open
<1> QED
  BY <1>2, <1>3, <1>4, <1>5, <1>6 DEF IInv

\* The listener and the engine: nothing of a connection changes.
LEMMA ListenerIInv ==
  ASSUME IInv,
         \/ Bind \/ BindFails \/ ListenerStops \/ ListenerAborted
         \/ SendStop \/ DropSender \/ UNCHANGED vars
  PROVE  IInv'
<1>1. /\ UNCHANGED <<kind, active, total, bytes, pc, req, seen, buf, wr, out, made, fin, dead, rt>>
      /\ sent # "no" => sent' # "no"
  BY DEF Bind, BindFails, ListenerStops, ListenerAborted, SendStop, DropSender, vars,
         listenVars, statVars, stopVars, copyVars, endVars
<1>2. TypeOK'
  BY ListenerType DEF IInv
<1>3. SentFirst'
  <2>1. SentFirst /\ Engine # Listener
    BY DEF IInv, Engine, Listener
  <2>2. CASE Bind \/ BindFails \/ ListenerStops \/ ListenerAborted
    BY <2>1, <2>2 DEF Bind, BindFails, ListenerStops, ListenerAborted, stopVars, SentFirst
  <2>3. CASE SendStop \/ DropSender \/ UNCHANGED vars
    BY <2>1, <2>3 DEF SendStop, DropSender, vars, stopVars, SentFirst
  <2> QED
    BY <2>2, <2>3
<1>4. GaugeExact'
  <2>1. \A c \in Conns : (Guarded(c)' <=> Guarded(c)) /\ (c \in Relaying' <=> c \in Relaying)
    BY <1>1 DEF Guarded, Relaying
  <2> QED
    BY <1>1, <2>1, GaugeSame DEF IInv
<1>5. TrafficCounted'
  BY <1>1, TrafficSame DEF IInv
<1>6. ASSUME NEW c \in Conns PROVE ConnOK(c)'
  <2>1. Same(c)
    BY <1>1 DEF Same
  <2> QED
    BY <1>1, <2>1, SameOK DEF IInv
<1> QED
  BY <1>2, <1>3, <1>4, <1>5, <1>6 DEF IInv

\* The end of the task of c, however it comes about.
LEMMA EndIInv ==
  ASSUME IInv, NEW c \in Conns, End(c),
         UNCHANGED <<kind, listenVars, bytes, sent, senders, seen, wr, out, endVars, rt>>,
         sent = "no" /\ ~fin[<<c, "up">>] /\ ~dead[<<c, "down">>] =>
           Len(out[<<c, "down">>]) >= made[<<c, "down">>]
  PROVE  IInv'
<1>1. TypeOK /\ GaugeExact /\ ConnOK(c) /\ TrafficCounted /\ SentFirst
  BY DEF IInv
<1>2. TypeOK'
  BY <1>1, EndType
<1>3. /\ pc'[c] = "ended" /\ req'[c] = "none" /\ \A d \in Dirs : buf'[<<c, d>>] = <<>>
      /\ \A b \in Conns \ {c} : pc'[b] = pc[b] /\ req'[b] = req[b]
      /\ \A b \in Conns \ {c}, d \in Dirs : buf'[<<b, d>>] = buf[<<b, d>>]
      /\ sig' \subseteq sig
      /\ UNCHANGED <<kind, sent, senders, bytes, seen, wr, out, made, fin, dead, rt>>
  BY <1>1, EndFacts DEF endVars
<1>4. SentFirst'
  BY <1>1, <1>3 DEF SentFirst
<1>5. GaugeExact'
  <2>1. \A b \in Conns : b \in Relaying' <=> b \in Relaying
    BY <1>3 DEF Relaying
  <2>2. ~Guarded(c)' /\ \A b \in Conns \ {c} : Guarded(b)' <=> Guarded(b)
    BY <1>3 DEF Guarded
  <2>3. CASE Guarded(c)
    BY <1>1, <2>1, <2>2, <2>3, GaugeDown DEF End
  <2>4. CASE ~Guarded(c)
    BY <1>1, <2>1, <2>2, <2>4, GaugeSame DEF End
  <2> QED
    BY <2>3, <2>4
<1>6. TrafficCounted'
  BY <1>1, <1>3, TrafficSame
<1>7. Only(c)
  BY <1>3 DEF Only, Same
<1>8. ConnOK(c)'
  <2>1. Untouched(c)' /\ Handled(c)' /\ Associated(c)'
    BY <1>3 DEF Untouched, Handled, Associated, Early
  <2>2. GoneIsFin(c)' /\ ResponseOK(c)'
    BY <1>1, <1>3 DEF GoneIsFin, ResponseOK, ConnOK
  <2>3. \A d \in Dirs : Stream(c, d)'
    BY <1>3 DEF Stream, Open
  <2> QED
    BY <2>1, <2>2, <2>3 DEF ConnOK
<1> QED
  BY <1>2, <1>4, <1>5, <1>6, <1>7, <1>8, OnlyOK DEF IInv

\* A connection whose sockets and buffers stay as they are.
LEMMA MovedConn ==
  ASSUME IInv, NEW c \in Conns, pc[c] # "ended", pc'[c] \notin {"idle", "ended"},
         UNCHANGED <<kind, sent, copyVars, endVars>>,
         \A d \in Dirs : HeadLen(c, d)' = HeadLen(c, d),
         Untouched(c)', Handled(c)', Associated(c)'
  PROVE  ConnOK(c)'
<1>1. ConnOK(c) /\ UNCHANGED <<seen, buf, wr, out, made, fin, dead>>
  BY DEF IInv, copyVars, endVars
<1>2. GoneIsFin(c)' /\ ResponseOK(c)'
  BY <1>1 DEF GoneIsFin, ResponseOK, ConnOK
<1>3. ASSUME NEW d \in Dirs PROVE Stream(c, d)'
  <2>1. HeadLen(c, d)' = HeadLen(c, d)
    OBVIOUS
  <2>2. CASE c \in Open
    <3>1. Stream(c, d)
      BY <1>1 DEF ConnOK
    <3> QED
      BY <1>1, <2>1, <2>2, <3>1 DEF Stream
  <2>3. CASE c \notin Open
    <3>1. pc[c] = "idle"
      BY <2>3 DEF Open
    <3>2. /\ out[<<c, d>>] = <<>> /\ ~wr[<<c, d>>] /\ seen[<<c, d>>] = 0 /\ buf[<<c, d>>] = <<>>
          /\ req[c] = "none"
      BY <1>1, <3>1 DEF ConnOK, Untouched, Early, Dirs
    <3>3. HeadLen(c, d) = 0
      BY <3>2 DEF HeadLen
    <3>4. Ordered(out[<<c, d>>], buf[<<c, d>>], wr[<<c, d>>], seen[<<c, d>>], HeadLen(c, d))
      BY <3>2, <3>3 DEF Ordered, Passed
    <3> QED
      BY <1>1, <2>1, <3>4 DEF Stream
  <2> QED
    BY <2>2, <2>3
<1> QED
  BY <1>2, <1>3 DEF ConnOK

\* A task moves on without touching a guard: accepted, greeted, asked, dialed.
LEMMA MoveIInv ==
  ASSUME IInv, NEW c \in Conns, NEW label \in Labels \ {"idle", "ended"}, Goto(c, label),
         pc[c] # "ended", UNCHANGED <<kind, listenVars, statVars, stopVars, copyVars, endVars>>,
         req' \in [Conns -> {"none", "connect", "forward", "associate"}],
         rt' \in [Conns -> {"none", "spawned", "recv", "send", "wait", "over"}],
         \A b \in Conns \ {c} : req'[b] = req[b] /\ rt'[b] = rt[b],
         Guarded(c)' <=> Guarded(c), c \in Relaying' <=> c \in Relaying,
         \A d \in Dirs : HeadLen(c, d)' = HeadLen(c, d),
         Untouched(c)', Handled(c)', Associated(c)'
  PROVE  IInv'
<1>1. TypeOK /\ GaugeExact /\ TrafficCounted /\ SentFirst
  BY DEF IInv
<1>2. /\ pc' \in [Conns -> Labels] /\ pc'[c] = label /\ Open' = Open \cup {c}
      /\ \A b \in Conns \ {c} : pc'[b] = pc[b]
  BY <1>1, GotoType
<1>3. TypeOK'
  BY <1>1, <1>2 DEF TypeOK, Labels, listenVars, statVars, stopVars, copyVars, endVars
<1>4. SentFirst'
  BY <1>1 DEF SentFirst, stopVars
<1>5. GaugeExact'
  <2>1. \A b \in Conns : (Guarded(b)' <=> Guarded(b)) /\ (b \in Relaying' <=> b \in Relaying)
    BY <1>2 DEF Guarded, Relaying
  <2> QED
    BY <1>1, <2>1, GaugeSame DEF statVars
<1>6. TrafficCounted'
  BY <1>1, TrafficSame DEF statVars, copyVars
<1>7. Only(c)
  BY <1>2 DEF Only, Same, copyVars, endVars, stopVars
<1>8. ConnOK(c)'
  BY <1>2, MovedConn DEF stopVars
<1> QED
  BY <1>3, <1>4, <1>5, <1>6, <1>7, <1>8, OnlyOK DEF IInv

\* accept().
LEMMA AcceptIInv ==
  ASSUME IInv, NEW c \in Conns, Accept(c)
  PROVE  IInv'
<1>1. /\ pc[c] = "idle" /\ Goto(c, First) /\ First \in {"hello", "head", "begin"}
      /\ UNCHANGED <<kind, listenVars, statVars, stopVars, req, copyVars, endVars, rt>>
  BY DEF Accept, NextConn, First
<1>2. First \in Labels \ {"idle", "ended"} /\ TypeOK /\ ConnOK(c)
  BY <1>1 DEF Labels, IInv
<1>3. pc'[c] = First
  BY <1>1, <1>2, GotoType
<1>4. Untouched(c)'
  BY <1>1, <1>2, <1>3 DEF ConnOK, Untouched, Early, copyVars, endVars
<1>5. Handled(c)' /\ Associated(c)'
  <2>1. req[c] = "none"
    BY <1>1, <1>2 DEF ConnOK, Untouched, Early
  <2>2. /\ First = "hello" => kind = "socks"
        /\ First = "head" => kind = "http"
        /\ First = "begin" => kind \in Forwards
    BY <1>2, KindsAssumption DEF First, TypeOK, Forwards
  <2> QED
    BY <1>1, <1>3, <2>1, <2>2 DEF Handled, Associated, Forwards
<1>6. Guarded(c)' <=> Guarded(c)
  BY <1>1, <1>3 DEF Guarded
<1>7. /\ req' \in [Conns -> {"none", "connect", "forward", "associate"}]
      /\ rt' \in [Conns -> {"none", "spawned", "recv", "send", "wait", "over"}]
      /\ \A b \in Conns \ {c} : req'[b] = req[b] /\ rt'[b] = rt[b]
      /\ c \in Relaying' <=> c \in Relaying
      /\ \A d \in Dirs : HeadLen(c, d)' = HeadLen(c, d)
  BY <1>1, <1>2 DEF TypeOK, Relaying, HeadLen
<1> QED
  BY <1>1, <1>2, <1>4, <1>5, <1>6, <1>7, MoveIInv

\* An error reply ends a handshake: nothing was read of the dialed side, or the
\* accepted one is gone.
LEMMA RefuseIInv ==
  ASSUME IInv, NEW c \in Conns, Refuse(c),
         \/ pc[c] \in Early \cup {"dial"} \/ req[c] = "associate" \/ dead[<<c, "up">>]
  PROVE  IInv'
<1>1. ConnOK(c) /\ TypeOK
  BY DEF IInv
<1>2. ~fin[<<c, "up">>] => made[<<c, "down">>] = 0
  BY <1>1 DEF ConnOK, Untouched, GoneIsFin, Dirs
<1>3. Len(out[<<c, "down">>]) \in Nat
  BY <1>1 DEF TypeOK, Dirs
<1>4. /\ End(c)
      /\ UNCHANGED <<kind, listenVars, bytes, sent, senders, seen, wr, out, endVars, rt>>
  BY DEF Refuse
<1>5. ~fin[<<c, "up">>] => Len(out[<<c, "down">>]) >= made[<<c, "down">>]
  BY <1>2, <1>3
<1> QED
  BY <1>4, <1>5, EndIInv

\* The handshakes: a step refuses the client or goes on with it.
LEMMA HelloIInv ==
  ASSUME IInv, NEW c \in Conns, Hello(c)
  PROVE  IInv'
<1>1. pc[c] = "hello" /\ TypeOK /\ ConnOK(c)
  BY DEF Hello, IInv
<1>2. CASE Refuse(c)
  BY <1>1, <1>2, RefuseIInv DEF Early
<1>3. CASE /\ Goto(c, "request")
           /\ UNCHANGED <<kind, listenVars, statVars, stopVars, req, copyVars, endVars, rt>>
  <2>1. "request" \in Labels \ {"idle", "ended"}
    BY DEF Labels
  <2>2. pc'[c] = "request"
    BY <1>1, <1>3, <2>1, GotoType
  <2>3. Untouched(c)' /\ Handled(c)' /\ Associated(c)'
    BY <1>1, <1>3, <2>2
    DEF ConnOK, Untouched, Handled, Associated, Early, copyVars, endVars
  <2>4. /\ Guarded(c)' <=> Guarded(c)
        /\ req' \in [Conns -> {"none", "connect", "forward", "associate"}]
        /\ rt' \in [Conns -> {"none", "spawned", "recv", "send", "wait", "over"}]
        /\ \A b \in Conns \ {c} : req'[b] = req[b] /\ rt'[b] = rt[b]
        /\ c \in Relaying' <=> c \in Relaying
        /\ \A d \in Dirs : HeadLen(c, d)' = HeadLen(c, d)
    BY <1>1, <1>3, <2>2 DEF Guarded, TypeOK, Relaying, HeadLen
  <2> QED
    BY <1>1, <1>3, <2>1, <2>3, <2>4, MoveIInv
<1> QED
  BY <1>2, <1>3 DEF Hello

\* The command, taken up or refused.
LEMMA RequestIInv ==
  ASSUME IInv, NEW c \in Conns, Request(c)
  PROVE  IInv'
<1>1. pc[c] = "request" /\ TypeOK /\ ConnOK(c)
  BY DEF Request, IInv
<1>2. CASE Refuse(c)
  BY <1>1, <1>2, RefuseIInv DEF Early
<1>3. CASE /\ \/ req' = [req EXCEPT ![c] = "connect"] /\ Goto(c, "dial")
              \/ req' = [req EXCEPT ![c] = "associate"] /\ Goto(c, "reply")
           /\ UNCHANGED <<kind, listenVars, statVars, stopVars, copyVars, endVars, rt>>
  <2>1. PICK label \in {"dial", "reply"} :
          /\ Goto(c, label)
          /\ req' = [req EXCEPT ![c] = IF label = "dial" THEN "connect" ELSE "associate"]
    BY <1>3
  <2>2. label \in Labels \ {"idle", "ended"}
    BY <2>1 DEF Labels
  <2>3. pc'[c] = label /\ req'[c] = IF label = "dial" THEN "connect" ELSE "associate"
    BY <1>1, <2>1, <2>2, GotoType DEF TypeOK
  <2>4. kind = "socks" /\ kind \notin Forwards
    BY <1>1 DEF ConnOK, Handled, Forwards
  <2>5. Untouched(c)'
    BY <1>1, <1>3, <2>3 DEF ConnOK, Untouched, Early, copyVars, endVars
  <2>6. Handled(c)'
    BY <1>3, <2>3, <2>4 DEF Handled
  <2>7. Associated(c)'
    <3>1. \A d \in Dirs : buf[<<c, d>>] = <<>> /\ ~wr[<<c, d>>]
      BY <1>1 DEF ConnOK, Untouched, Early, Dirs
    <3>2. seen[<<c, "up">>] = 0
      BY <1>1 DEF ConnOK, Untouched, Early
    <3> QED
      BY <1>3, <2>3, <3>1, <3>2 DEF Associated, copyVars
  <2>8. /\ Guarded(c)' <=> Guarded(c)
        /\ req' \in [Conns -> {"none", "connect", "forward", "associate"}]
        /\ rt' \in [Conns -> {"none", "spawned", "recv", "send", "wait", "over"}]
        /\ \A b \in Conns \ {c} : req'[b] = req[b] /\ rt'[b] = rt[b]
        /\ c \in Relaying' <=> c \in Relaying
    BY <1>1, <1>3, <2>1, <2>3, <2>4 DEF Guarded, TypeOK, Relaying
  <2>9. \A d \in Dirs : HeadLen(c, d)' = HeadLen(c, d)
    <3>1. req[c] = "none"
      BY <1>1 DEF ConnOK, Untouched, Early
    <3> QED
      BY <2>3, <3>1 DEF HeadLen
  <2> QED
    BY <1>1, <1>3, <2>1, <2>2, <2>5, <2>6, <2>7, <2>8, <2>9, MoveIInv
<1> QED
  BY <1>2, <1>3 DEF Request

\* The leg to the other side, or none.
LEMMA DialIInv ==
  ASSUME IInv, NEW c \in Conns, Dial(c)
  PROVE  IInv'
<1>1. pc[c] = "dial" /\ TypeOK /\ ConnOK(c)
  BY DEF Dial, IInv
<1>2. CASE Refuse(c)
  BY <1>1, <1>2, RefuseIInv
<1>3. CASE /\ Goto(c, IF kind \in Forwards THEN "relay"
                      ELSE IF req[c] = "connect" THEN "reply" ELSE "flush")
           /\ UNCHANGED <<kind, listenVars, statVars, stopVars, req, copyVars, endVars, rt>>
  <2>1. PICK label \in {"relay", "reply", "flush"} :
          Goto(c, label) /\ (label = "relay" <=> kind \in Forwards)
    BY <1>3
  <2>2. label \in Labels \ {"idle", "ended"}
    BY <2>1 DEF Labels
  <2>3. pc'[c] = label
    BY <1>1, <2>1, <2>2, GotoType
  <2>4. Untouched(c)'
    BY <1>1, <1>3, <2>3 DEF ConnOK, Untouched, Early, copyVars, endVars
  <2>5. Handled(c)' /\ Associated(c)'
    <3>1. req[c] # "associate"
      BY <1>1 DEF ConnOK, Handled
    <3> QED
      BY <1>1, <1>3, <2>1, <2>3, <3>1 DEF Handled, Associated
  <2>6. /\ Guarded(c)' <=> Guarded(c)
        /\ req' \in [Conns -> {"none", "connect", "forward", "associate"}]
        /\ rt' \in [Conns -> {"none", "spawned", "recv", "send", "wait", "over"}]
        /\ \A b \in Conns \ {c} : req'[b] = req[b] /\ rt'[b] = rt[b]
        /\ c \in Relaying' <=> c \in Relaying
        /\ \A d \in Dirs : HeadLen(c, d)' = HeadLen(c, d)
    BY <1>1, <1>3, <2>1, <2>3 DEF Guarded, TypeOK, Relaying, HeadLen
  <2> QED
    BY <1>1, <1>3, <2>1, <2>2, <2>4, <2>5, <2>6, MoveIInv
<1> QED
  BY <1>2, <1>3 DEF Dial

\* The reply, and the relay task of an association.
LEMMA ReplyIInv ==
  ASSUME IInv, NEW c \in Conns, ReplySuccess(c)
  PROVE  IInv'
<1>1. pc[c] = "reply" /\ TypeOK /\ ConnOK(c)
  BY DEF ReplySuccess, IInv
<1>2. CASE (dead[<<c, "up">>] \/ req[c] = "associate") /\ Refuse(c)
  BY <1>1, <1>2, RefuseIInv
<1>3. CASE /\ Goto(c, IF req[c] = "associate" THEN "control" ELSE "flush")
           /\ rt' = [rt EXCEPT ![c] = IF req[c] = "associate" THEN "spawned" ELSE @]
           /\ UNCHANGED <<kind, listenVars, statVars, stopVars, req, copyVars, endVars>>
  <2>1. PICK label \in {"control", "flush"} :
          Goto(c, label) /\ (label = "control" <=> req[c] = "associate")
    BY <1>3
  <2>2. label \in Labels \ {"idle", "ended"}
    BY <2>1 DEF Labels
  <2>3. pc'[c] = label /\ rt'[c] \in {rt[c], "spawned"} /\ (label = "flush" => rt'[c] = rt[c])
    BY <1>1, <1>3, <2>1, <2>2, GotoType DEF TypeOK
  <2>4. Untouched(c)' /\ Handled(c)'
    BY <1>1, <1>3, <2>1, <2>3 DEF ConnOK, Untouched, Handled, Early, copyVars, endVars
  <2>5. Associated(c)'
    <3>1. seen[<<c, "down">>] = 0 /\ (req[c] = "associate" => seen[<<c, "up">>] = 0)
      BY <1>1 DEF ConnOK, Untouched, Associated
    <3>2. rt[c] = "none"
      BY <1>1 DEF ConnOK, Untouched
    <3>3. req[c] = "associate" => \A d \in Dirs : buf[<<c, d>>] = <<>> /\ ~wr[<<c, d>>]
      BY <1>1 DEF ConnOK, Associated
    <3> QED
      BY <1>3, <2>1, <2>3, <3>1, <3>2, <3>3, MaxUpAssumption DEF Associated, copyVars
  <2>6. /\ Guarded(c)' <=> Guarded(c)
        /\ req' \in [Conns -> {"none", "connect", "forward", "associate"}]
        /\ rt' \in [Conns -> {"none", "spawned", "recv", "send", "wait", "over"}]
        /\ \A b \in Conns \ {c} : req'[b] = req[b] /\ rt'[b] = rt[b]
        /\ \A d \in Dirs : HeadLen(c, d)' = HeadLen(c, d)
    BY <1>1, <1>3, <2>1, <2>3 DEF Guarded, TypeOK, HeadLen
  <2>7. c \in Relaying' <=> c \in Relaying
    BY <1>1, <2>3 DEF Relaying, ConnOK, Untouched
  <2> QED
    BY <1>1, <1>3, <2>1, <2>2, <2>4, <2>5, <2>6, <2>7, MoveIInv
<1> QED
  BY <1>2, <1>3 DEF ReplySuccess

\* The guard is taken: by a forwarder at once, by a proxy before the relay.
LEMMA GuardIInv ==
  ASSUME IInv, NEW c \in Conns, ForwardBegins(c) \/ StartRelay(c)
  PROVE  IInv'
<1>1. TypeOK /\ GaugeExact /\ TrafficCounted /\ SentFirst /\ ConnOK(c)
  BY DEF IInv
<1>2. PICK label \in {"dial", "relay"} :
        /\ Goto(c, label) /\ ConnOpened
        /\ pc[c] = IF label = "dial" THEN "begin" ELSE "flush"
        /\ UNCHANGED <<kind, listenVars, bytes, stopVars, req, copyVars, endVars, rt>>
  BY DEF ForwardBegins, StartRelay
<1>3. label \in Labels \ {"idle", "ended"}
  BY <1>2 DEF Labels
<1>4. /\ pc' \in [Conns -> Labels] /\ pc'[c] = label /\ Open' = Open \cup {c}
      /\ \A b \in Conns \ {c} : pc'[b] = pc[b]
  BY <1>1, <1>2, <1>3, GotoType
<1>5. active' \in Nat /\ total' \in Nat
  BY <1>1, <1>2, GaugeType
<1>6. TypeOK'
  BY <1>1, <1>2, <1>4, <1>5 DEF TypeOK, Labels, listenVars, stopVars, copyVars, endVars
<1>7. SentFirst'
  BY <1>1, <1>2 DEF SentFirst, stopVars
<1>8. GaugeExact'
  <2>1. /\ \A b \in Conns \ {c} : (Guarded(b)' <=> Guarded(b)) /\ (b \in Relaying' <=> b \in Relaying)
        /\ c \in Relaying' <=> c \in Relaying
    BY <1>2, <1>4 DEF Guarded, Relaying
  <2>2. ~Guarded(c) /\ Guarded(c)'
    BY <1>1, <1>2, <1>4 DEF Guarded, ConnOK, Handled
  <2> QED
    BY <1>1, <1>2, <2>1, <2>2, GaugeUp
<1>9. TrafficCounted'
  BY <1>1, <1>2, TrafficSame DEF copyVars
<1>10. Only(c)
  BY <1>2, <1>4 DEF Only, Same, copyVars, endVars, stopVars
<1>11. ConnOK(c)'
  <2>1. Untouched(c)'
    BY <1>1, <1>2, <1>4 DEF ConnOK, Untouched, Early, copyVars, endVars
  <2>2. Handled(c)' /\ Associated(c)'
    <3>1. req[c] # "associate"
      BY <1>1, <1>2 DEF ConnOK, Handled
    <3> QED
      BY <1>2, <1>4, <3>1 DEF Handled, Associated
  <2>3. \A d \in Dirs : HeadLen(c, d)' = HeadLen(c, d)
    BY <1>2 DEF HeadLen
  <2> QED
    BY <1>2, <1>4, <2>1, <2>2, <2>3, MovedConn DEF stopVars
<1> QED
  BY <1>6, <1>7, <1>8, <1>9, <1>10, <1>11, OnlyOK DEF IInv

\* A relay ends by itself: the response is through, or one side is gone.
LEMMA RelayEndsIInv ==
  ASSUME IInv, NEW c \in Conns, RelayEnds(c)
  PROVE  IInv'
<1>1. TypeOK /\ ConnOK(c) /\ pc[c] = "relay" /\ "up" \in Dirs /\ "down" \in Dirs
  BY DEF IInv, RelayEnds, Dirs
<1>2. PICK d \in Dirs : CopyOver(c, d)
  BY DEF RelayEnds
<1>3. ASSUME ~fin[<<c, "up">>], ~dead[<<c, "down">>]
      PROVE  Len(out[<<c, "down">>]) >= made[<<c, "down">>]
  <2>1. ~dead[<<c, "up">>]
    BY <1>1, <1>3 DEF ConnOK, GoneIsFin
  <2>2. d = "down" /\ buf[<<c, d>>] = <<>> /\ seen[<<c, d>>] = made[<<c, d>>]
    BY <1>2, <1>3, <2>1 DEF CopyOver, Opposite, Dirs
  <2>3. Stream(c, "down") /\ c \in Open
    BY <1>1 DEF ConnOK, Open
  <2>4. ~wr[<<c, "down">>] /\ Len(buf[<<c, "down">>]) = 0
    BY <2>2, <2>3 DEF Stream, Ordered
  <2>5. Passed(out[<<c, "down">>], wr[<<c, "down">>]) = Len(out[<<c, "down">>]) /\ HeadLen(c, "down") = 0
    BY <2>4 DEF Passed, HeadLen
  <2>6. Len(out[<<c, "down">>]) \in Nat /\ seen[<<c, "down">>] \in Int
    BY <1>1 DEF TypeOK, Chunks
  <2>7. Len(out[<<c, "down">>]) = seen[<<c, "down">>]
    BY <2>3, <2>4, <2>5, <2>6 DEF Stream, Ordered
  <2> QED
    BY <2>2, <2>6, <2>7
<1>4. /\ End(c)
      /\ UNCHANGED <<kind, listenVars, bytes, sent, senders, seen, wr, out, endVars, rt>>
  BY DEF RelayEnds
<1> QED
  BY <1>3, <1>4, EndIInv

\* The other ends of a task: a broken leg, the stop, the end of an association.
LEMMA EndsIInv ==
  ASSUME IInv, NEW c \in Conns, FlushFails(c) \/ RelayStopped(c) \/ ControlEnds(c)
  PROVE  IInv'
<1>1. TypeOK /\ ConnOK(c) /\ SentFirst
  BY DEF IInv
<1>2. /\ End(c)
      /\ UNCHANGED <<kind, listenVars, bytes, sent, senders, seen, wr, out, endVars, rt>>
  BY DEF FlushFails, RelayStopped, ControlEnds
<1>3. sent = "no" /\ ~fin[<<c, "up">>] /\ ~dead[<<c, "down">>] =>
        Len(out[<<c, "down">>]) >= made[<<c, "down">>]
  <2>1. CASE FlushFails(c)
    BY <2>1 DEF FlushFails
  <2>2. CASE RelayStopped(c)
    BY <1>1, <2>2 DEF RelayStopped, SentFirst
  <2>3. CASE ControlEnds(c)
    <3>1. made[<<c, "down">>] = 0
      BY <1>1, <2>3 DEF ControlEnds, ConnOK, Untouched, Handled
    <3>2. Len(out[<<c, "down">>]) \in Nat
      BY <1>1 DEF TypeOK, Dirs
    <3> QED
      BY <3>1, <3>2
  <2> QED
    BY <2>1, <2>2, <2>3
<1> QED
  BY <1>2, <1>3, EndIInv

\* A step of c that is no end of it, changes its sockets, buffers or association
\* and nobody's guard.
LEMMA DataIInv ==
  ASSUME IInv, NEW c \in Conns, TypeOK', ConnOK(c)', TrafficCounted', Only(c),
         UNCHANGED <<active, total, stopVars>>, pc'[c] = pc[c],
         c \in Relaying' <=> c \in Relaying
  PROVE  IInv'
<1>1. SentFirst'
  BY DEF IInv, SentFirst, stopVars
<1>2. \A b \in Conns : (Guarded(b)' <=> Guarded(b)) /\ (b \in Relaying' <=> b \in Relaying)
  BY DEF Only, Same, Guarded, Relaying
<1>3. GaugeExact'
  BY <1>2, GaugeSame DEF IInv
<1> QED
  BY <1>1, <1>3, OnlyOK DEF IInv

\* The sides send and leave.
LEMMA SideIInv ==
  ASSUME IInv, NEW c \in Conns, NEW e \in Dirs, Produce(c, e) \/ Leave(c, e)
  PROVE  IInv'
<1>1. TypeOK /\ ConnOK(c) /\ TrafficCounted
  BY DEF IInv
<1>2. /\ UNCHANGED <<kind, lpc, listed, active, total, bytes, sent, senders, sig, pc, req,
                     seen, buf, wr, out, rt>>
      /\ pc[c] \notin {"idle", "ended"}
  BY DEF Produce, Leave, Present, Open, listenVars, statVars, stopVars, copyVars
<1>3. /\ made' \in [Conns \X Dirs -> Chunks]
      /\ fin' \in [Conns \X Dirs -> BOOLEAN] /\ dead' \in [Conns \X Dirs -> BOOLEAN]
  <2>1. CASE Produce(c, e)
    <3>1. made[<<c, e>>] + 1 \in Chunks
      BY <1>1, <2>1, MaxUpAssumption, MaxDownAssumption DEF Produce, TypeOK, Chunks, MaxChunk
    <3> QED
      BY <1>1, <2>1, <3>1 DEF Produce, TypeOK
  <2>2. CASE Leave(c, e)
    BY <1>1, <2>2 DEF Leave, TypeOK
  <2> QED
    BY <2>1, <2>2
<1>4. TypeOK'
  BY <1>1, <1>2, <1>3 DEF TypeOK, Open
<1>5. \A b \in Conns \ {c}, d \in Dirs : /\ made'[<<b, d>>] = made[<<b, d>>]
                                         /\ fin'[<<b, d>>] = fin[<<b, d>>]
                                         /\ dead'[<<b, d>>] = dead[<<b, d>>]
  BY <1>1 DEF Produce, Leave, TypeOK
<1>6. Only(c)
  BY <1>2, <1>5 DEF Only, Same
<1>7. Untouched(c)'
  <2>1. pc[c] \in Early \cup {"dial"} \/ req[c] = "associate" => made'[<<c, "down">>] = 0
    <3> SUFFICES ASSUME pc[c] \in Early \cup {"dial"} \/ req[c] = "associate"
                 PROVE  made'[<<c, "down">>] = made[<<c, "down">>]
      BY <1>1 DEF ConnOK, Untouched
    <3>1. CASE Produce(c, e)
      <4>1. e # "down"
        BY <1>2, <3>1 DEF Produce, Present, Early
      <4> QED
        BY <1>1, <3>1, <4>1 DEF Produce, TypeOK, Dirs
    <3>2. CASE Leave(c, e)
      BY <3>2 DEF Leave
    <3> QED
      BY <3>1, <3>2
  <2> QED
    BY <1>1, <1>2, <2>1 DEF ConnOK, Untouched
<1>8. Handled(c)' /\ Associated(c)'
  BY <1>1, <1>2 DEF ConnOK, Handled, Associated
<1>9. GoneIsFin(c)'
  <2>1. CASE Produce(c, e)
    BY <1>1, <2>1 DEF Produce, ConnOK, GoneIsFin
  <2>2. CASE Leave(c, e)
    <3>1. /\ fin'[<<c, e>>] = TRUE
          /\ \A d \in Dirs \ {e} : fin'[<<c, d>>] = fin[<<c, d>>] /\ dead'[<<c, d>>] = dead[<<c, d>>]
      BY <1>1, <2>2 DEF Leave, TypeOK
    <3> QED
      BY <1>1, <3>1 DEF ConnOK, GoneIsFin
  <2> QED
    BY <2>1, <2>2
<1>10. ResponseOK(c)'
  BY <1>2 DEF ResponseOK
<1>11. ASSUME NEW d \in Dirs PROVE Stream(c, d)'
  <2>1. Stream(c, d) /\ HeadLen(c, d)' = HeadLen(c, d)
    BY <1>1, <1>2 DEF ConnOK, HeadLen
  <2> QED
    BY <1>2, <2>1 DEF Stream, Open
<1>12. ConnOK(c)'
  BY <1>7, <1>8, <1>9, <1>10, <1>11 DEF ConnOK
<1>13. TrafficCounted' /\ UNCHANGED <<active, total, stopVars>> /\ pc'[c] = pc[c]
  BY <1>1, <1>2, TrafficSame DEF stopVars
<1>14. c \in Relaying' <=> c \in Relaying
  BY <1>2 DEF Relaying
<1> QED
  BY <1>4, <1>6, <1>12, <1>13, <1>14, DataIInv

-----------------------------------------------------------------------------
(* Traffic *)

Places == Conns \X (1..MaxUp + MaxDown + 1)

\* The chunks that have begun to arrive, and the writes in progress or cut off.
Arrived(d) == {x \in Places : x[2] \in DOMAIN out[<<x[1], d>>]}
Writers(d) == {c \in Conns : wr[<<c, d>>]}
Counted(d) == IF NetworkLeg(d) = "up" THEN bytes.tx ELSE bytes.rx

\* TrafficCounted in these words.
LEMMA TrafficIs ==
  TrafficCounted <=> \A d \in Dirs : Counted(d) = Cardinality(Arrived(d)) - Cardinality(Writers(d))
  BY DEF TrafficCounted, Counted, Arrived, Writers, Places

\* They are finite sets.
LEMMA TrafficSets ==
  ASSUME NEW d \in Dirs
  PROVE  /\ IsFiniteSet(Arrived(d)) /\ Cardinality(Arrived(d)) \in Nat
         /\ IsFiniteSet(Writers(d)) /\ Cardinality(Writers(d)) \in Nat
<1>1. IsFiniteSet(Conns) /\ IsFiniteSet(1..MaxUp + MaxDown + 1)
  BY FS_Interval, MaxConnAssumption, MaxUpAssumption, MaxDownAssumption DEF Conns
<1>2. IsFiniteSet(Places)
  BY <1>1, FS_Product DEF Places
<1>3. Arrived(d) \in SUBSET Places /\ Writers(d) \in SUBSET Conns
  BY DEF Arrived, Writers
<1>4. IsFiniteSet(Arrived(d)) /\ IsFiniteSet(Writers(d))
  BY <1>1, <1>2, <1>3, FS_Subset
<1> QED
  BY <1>4, FS_CardinalityType

\* A chunk begins to arrive.
LEMMA OneArrives ==
  ASSUME TypeOK, NEW c \in Conns, NEW d \in Dirs, NEW v,
         out' = [out EXCEPT ![<<c, d>>] = Append(@, v)],
         Len(out[<<c, d>>]) < MaxUp + MaxDown + 1, v \in Chunks
  PROVE  /\ Cardinality(Arrived(d)') = Cardinality(Arrived(d)) + 1
         /\ \A e \in Dirs \ {d} : Arrived(e)' = Arrived(e)
<1> DEFINE k == Len(out[<<c, d>>]) + 1
<1>1. /\ out[<<c, d>>] \in Seq(Chunks) /\ k \in 1..MaxUp + MaxDown + 1
      /\ out'[<<c, d>>] = Append(out[<<c, d>>], v)
      /\ \A x \in Conns \X Dirs : x # <<c, d>> => out'[x] = out[x]
  BY MaxUpAssumption, MaxDownAssumption DEF TypeOK
<1>2. /\ DOMAIN out'[<<c, d>>] = DOMAIN out[<<c, d>>] \cup {k}
      /\ k \notin DOMAIN out[<<c, d>>]
  BY <1>1
<1>3. \A x \in Places : x[1] \in Conns /\ x = <<x[1], x[2]>>
  BY DEF Places
<1>4. <<c, k>> \in Places /\ <<c, k>> \notin Arrived(d)
  BY <1>1, <1>2 DEF Places, Arrived
<1> HIDE DEF k
<1>5. \A x \in Places : x \in Arrived(d)' <=> x \in Arrived(d) \/ x = <<c, k>>
  <2> SUFFICES ASSUME NEW x \in Places
               PROVE  x \in Arrived(d)' <=> x \in Arrived(d) \/ x = <<c, k>>
    OBVIOUS
  <2>1. CASE x[1] = c
    <3>1. x = <<c, k>> <=> x[2] = k
      BY <1>3, <2>1
    <3> QED
      BY <1>2, <2>1, <3>1 DEF Arrived
  <2>2. CASE x[1] # c
    <3>1. out'[<<x[1], d>>] = out[<<x[1], d>>] /\ x # <<c, k>>
      BY <1>1, <1>3, <2>2
    <3> QED
      BY <3>1 DEF Arrived
  <2> QED
    BY <2>1, <2>2
<1>6. Arrived(d)' = Arrived(d) \cup {<<c, k>>}
  BY <1>4, <1>5 DEF Arrived
<1>7. Cardinality(Arrived(d) \cup {<<c, k>>}) = Cardinality(Arrived(d)) + 1
  BY <1>4, TrafficSets, FS_AddElement
<1>8. ASSUME NEW e \in Dirs \ {d} PROVE Arrived(e)' = Arrived(e)
  BY <1>1, <1>3 DEF Arrived
<1> QED
  BY <1>6, <1>7, <1>8, Zenon

\* A write begins.
LEMMA WriterComes ==
  ASSUME TypeOK, NEW c \in Conns, NEW d \in Dirs, ~wr[<<c, d>>],
         wr' = [wr EXCEPT ![<<c, d>>] = TRUE]
  PROVE  /\ Cardinality(Writers(d)') = Cardinality(Writers(d)) + 1
         /\ \A e \in Dirs \ {d} : Writers(e)' = Writers(e)
<1>1. wr'[<<c, d>>] /\ \A x \in Conns \X Dirs : x # <<c, d>> => wr'[x] = wr[x]
  BY DEF TypeOK
<1>2. Writers(d)' = Writers(d) \cup {c} /\ c \notin Writers(d)
  BY <1>1 DEF Writers
<1>3. Cardinality(Writers(d) \cup {c}) = Cardinality(Writers(d)) + 1
  BY <1>2, TrafficSets, FS_AddElement
<1>4. \A e \in Dirs \ {d} : Writers(e)' = Writers(e)
  BY <1>1 DEF Writers
<1> QED
  BY <1>2, <1>3, <1>4, Zenon

\* The write is over.
LEMMA WriterGoes ==
  ASSUME TypeOK, NEW c \in Conns, NEW d \in Dirs, wr[<<c, d>>],
         wr' = [wr EXCEPT ![<<c, d>>] = FALSE]
  PROVE  /\ Cardinality(Writers(d)') = Cardinality(Writers(d)) - 1
         /\ \A e \in Dirs \ {d} : Writers(e)' = Writers(e)
<1>1. ~wr'[<<c, d>>] /\ \A x \in Conns \X Dirs : x # <<c, d>> => wr'[x] = wr[x]
  BY DEF TypeOK
<1>2. Writers(d)' = Writers(d) \ {c} /\ c \in Writers(d)
  BY <1>1 DEF Writers
<1>3. Cardinality(Writers(d) \ {c}) = Cardinality(Writers(d)) - 1
  BY <1>2, TrafficSets, FS_RemoveElement
<1>4. \A e \in Dirs \ {d} : Writers(e)' = Writers(e)
  BY <1>1 DEF Writers
<1> QED
  BY <1>2, <1>3, <1>4, Zenon

\* A chunk is counted, for its own direction.
LEMMA OneCounted ==
  ASSUME TypeOK, NEW d \in Dirs, kind' = kind,
         bytes' = [bytes EXCEPT ![Counter(d)] = @ + 1]
  PROVE  /\ Counted(d)' = Counted(d) + 1
         /\ \A e \in Dirs \ {d} : Counted(e)' = Counted(e)
<1>1. bytes.rx \in Nat /\ bytes.tx \in Nat
  BY DEF TypeOK
<1>2. Counter(d) = "tx" <=> NetworkLeg(d) = "up"
  BY DEF Counter, NetworkLeg, Opposite, Dirs
<1>3. \A e \in Dirs \ {d} : NetworkLeg(e) = "up" <=> NetworkLeg(d) # "up"
  BY DEF NetworkLeg, Opposite, Dirs
<1>4. Counter(d) \in {"rx", "tx"} /\ \A e \in Dirs : NetworkLeg(e)' = NetworkLeg(e)
  BY DEF Counter, NetworkLeg
<1>5. /\ Counter(d) = "tx" => bytes'.tx = bytes.tx + 1 /\ bytes'.rx = bytes.rx
      /\ Counter(d) = "rx" => bytes'.rx = bytes.rx + 1 /\ bytes'.tx = bytes.tx
  BY <1>1 DEF TypeOK
<1> QED
  BY <1>2, <1>3, <1>4, <1>5 DEF Counted

-----------------------------------------------------------------------------
(* The streams *)

\* A read into an empty buffer.
LEMMA OrderedRead ==
  ASSUME NEW o \in Seq(Chunks), NEW w \in BOOLEAN, NEW s \in Nat, NEW h \in {0, 1},
         Ordered(o, <<>>, w, s, h)
  PROVE  Ordered(o, <<s + 1>>, w, s + 1, h)
<1>1. ~w /\ Len(o) \in Nat /\ Len(o) = h + s
  BY DEF Ordered, Passed
<1>2. Len(<<s + 1>>) = 1 /\ <<s + 1>>[1] = s + 1 /\ <<s + 1>> # <<>>
  OBVIOUS
<1>3. \A j \in 1 .. 1 : <<s + 1>>[j] = Len(o) + j - h
  BY <1>1, <1>2
<1> QED
  BY <1>1, <1>2, <1>3 DEF Ordered, Passed

\* A write begins: the first chunk of the buffer is the next one due.
LEMMA OrderedBegins ==
  ASSUME NEW o \in Seq(Chunks), NEW b \in Seq(Chunks), b # <<>>, NEW s \in Nat, NEW h \in {0, 1},
         Ordered(o, b, FALSE, s, h)
  PROVE  Ordered(Append(o, b[1]), b, TRUE, s, h)
<1> DEFINE p == Append(o, b[1])
<1>1. /\ Len(o) \in Nat /\ Len(b) \in Nat /\ Len(b) >= 1 /\ Len(p) = Len(o) + 1
      /\ p[Len(o) + 1] = b[1] /\ \A i \in 1 .. Len(o) : p[i] = o[i]
  OBVIOUS
<1>2. /\ Len(o) + Len(b) = h + s
      /\ \A i \in 1 .. Len(o) : o[i] = i - h
      /\ \A j \in 1 .. Len(b) : b[j] = Len(o) + j - h
  BY DEF Ordered, Passed
<1>3. b[1] = Len(o) + 1 - h
  BY <1>1, <1>2
<1> HIDE DEF p
<1>4. Len(p) >= 1 /\ Len(b) >= 1
  BY <1>1
<1>5. \A i \in 1 .. Len(p) : p[i] = i - h
  <2> SUFFICES ASSUME NEW i \in 1 .. (Len(o) + 1) PROVE p[i] = i - h
    BY <1>1
  <2>1. CASE i = Len(o) + 1
    BY <1>1, <1>3, <2>1
  <2>2. CASE i # Len(o) + 1
    <3>1. i \in 1 .. Len(o)
      BY <1>1, <2>2
    <3> QED
      BY <1>1, <1>2, <3>1
  <2> QED
    BY <2>1, <2>2
<1>6. Passed(p, TRUE) = Len(o)
  BY <1>1 DEF Passed
<1> QED
  BY <1>2, <1>4, <1>5, <1>6 DEF Ordered, p

\* A write ends: the chunk leaves the buffer.
LEMMA OrderedEnds ==
  ASSUME NEW o \in Seq(Chunks), NEW b \in Seq(Chunks), NEW s \in Nat, NEW h \in {0, 1},
         Ordered(o, b, TRUE, s, h)
  PROVE  Ordered(o, Tail(b), FALSE, s, h)
<1>1. /\ Len(b) >= 1 /\ Len(o) \in Nat /\ Len(b) \in Nat
      /\ Len(o) - 1 + Len(b) = h + s
      /\ \A i \in 1 .. Len(o) : o[i] = i - h
      /\ \A j \in 1 .. Len(b) : b[j] = Len(o) - 1 + j - h
  BY DEF Ordered, Passed
<1>2. /\ Len(Tail(b)) = Len(b) - 1
      /\ \A j \in 1 .. (Len(b) - 1) : Tail(b)[j] = b[j + 1]
  BY <1>1
<1>3. \A j \in 1 .. Len(Tail(b)) : Tail(b)[j] = Len(o) + j - h
  <2> SUFFICES ASSUME NEW j \in 1 .. (Len(b) - 1) PROVE Tail(b)[j] = Len(o) + j - h
    BY <1>2
  <2>1. j + 1 \in 1 .. Len(b)
    BY <1>1
  <2>2. b[j + 1] = Len(o) - 1 + (j + 1) - h
    BY <1>1, <2>1
  <2> QED
    BY <1>1, <1>2, <2>2
<1>4. Passed(o, FALSE) = Len(o) /\ Len(o) + Len(Tail(b)) = h + s
  BY <1>1, <1>2 DEF Passed
<1> QED
  BY <1>1, <1>3, <1>4 DEF Ordered

\* What was read of a head and behind it goes first.
LEMMA OrderedHead ==
  ASSUME NEW method \in {"connect", "forward"}, NEW m \in Nat
  PROVE  LET h == IF method = "forward" THEN 1 ELSE 0
             b == RewrittenHead(method) \o Numbers(1, m)
         IN Ordered(<<>>, b, FALSE, m, h) /\ b \in Seq(0 .. m)
<1> DEFINE h == IF method = "forward" THEN 1 ELSE 0
           r == RewrittenHead(method)
           q == Numbers(1, m)
           b == r \o q
<1>1. r \in Seq(0 .. m) /\ Len(r) = h /\ h \in {0, 1} /\ \A i \in 1 .. h : r[i] = 0
  <2>1. CASE method = "forward"
    <3>1. r = <<0>> /\ h = 1
      BY <2>1 DEF RewrittenHead
    <3>2. <<0>> \in Seq(0 .. m) /\ Len(<<0>>) = 1 /\ <<0>>[1] = 0
      OBVIOUS
    <3> QED
      BY <3>1, <3>2
  <2>2. CASE method # "forward"
    <3>1. r = <<>> /\ h = 0
      BY <2>2 DEF RewrittenHead
    <3>2. <<>> \in Seq(0 .. m) /\ Len(<<>>) = 0
      OBVIOUS
    <3> QED
      BY <3>1, <3>2
  <2> QED
    BY <2>1, <2>2
<1>2. q \in Seq(0 .. m) /\ Len(q) = m /\ \A i \in 1 .. m : q[i] = i
  <2>1. q = [i \in 1 .. m |-> i]
    BY DEF Numbers
  <2> QED
    BY <2>1
<1> HIDE DEF h, r, q
<1>3. b \in Seq(0 .. m) /\ Len(b) = h + m
  BY <1>1, <1>2
<1>4. \A j \in 1 .. Len(b) : b[j] = j - h
  BY <1>1, <1>2, <1>3
<1>5. Ordered(<<>>, b, FALSE, m, h)
  <2> HIDE DEF b
  <2>1. Passed(<<>>, FALSE) = 0
    BY DEF Passed
  <2>2. 0 + Len(b) = h + m
    BY <1>1, <1>3
  <2>3. \A j \in 1 .. Len(b) : b[j] = 0 + j - h
    BY <1>1, <1>3, <1>4
  <2>4. \A i \in 1 .. Len(<<>>) : <<>>[i] = i - h
    OBVIOUS
  <2> QED
    BY <2>1, <2>2, <2>3, <2>4, Zenon DEF Ordered
<1> QED
  BY <1>3, <1>5 DEF h, r, q

\* The type of what a direction of c holds.
LEMMA StreamType ==
  ASSUME TypeOK, NEW c \in Conns, NEW d \in Dirs
  PROVE  /\ out[<<c, d>>] \in Seq(Chunks) /\ buf[<<c, d>>] \in Seq(Chunks)
         /\ wr[<<c, d>>] \in BOOLEAN /\ seen[<<c, d>>] \in Chunks /\ made[<<c, d>>] \in Chunks
         /\ seen[<<c, d>>] \in Nat /\ made[<<c, d>>] \in Nat
         /\ HeadLen(c, d) \in {0, 1}
<1>1. Chunks \subseteq Nat
  BY MaxUpAssumption, MaxDownAssumption DEF Chunks
<1> QED
  BY <1>1 DEF TypeOK, HeadLen

\* counting_copy: a read.
LEMMA CopyReadIInv ==
  ASSUME IInv, NEW c \in Conns, NEW d \in Dirs, CopyRead(c, d)
  PROVE  IInv'
<1>1. TypeOK /\ ConnOK(c) /\ TrafficCounted
  BY DEF IInv
<1>2. /\ pc[c] = "relay" /\ c \in Open /\ buf[<<c, d>>] = <<>> /\ seen[<<c, d>>] < made[<<c, d>>]
      /\ seen' = [seen EXCEPT ![<<c, d>>] = @ + 1]
      /\ buf' = [buf EXCEPT ![<<c, d>>] = <<seen[<<c, d>>] + 1>>]
      /\ UNCHANGED <<kind, lpc, listed, active, total, bytes, sent, senders, sig, pc, req,
                     wr, out, made, fin, dead, rt>>
  BY DEF CopyRead, Open, listenVars, statVars, stopVars, endVars
<1>3. seen[<<c, d>>] + 1 \in Chunks
  BY <1>1, <1>2, StreamType, MaxUpAssumption, MaxDownAssumption DEF Chunks
<1>4. /\ seen' \in [Conns \X Dirs -> Chunks] /\ buf' \in [Conns \X Dirs -> Seq(Chunks)]
      /\ seen'[<<c, d>>] = seen[<<c, d>>] + 1 /\ buf'[<<c, d>>] = <<seen[<<c, d>>] + 1>>
      /\ \A b \in Conns, e \in Dirs : b # c \/ e # d =>
           seen'[<<b, e>>] = seen[<<b, e>>] /\ buf'[<<b, e>>] = buf[<<b, e>>]
  <2>1. <<seen[<<c, d>>] + 1>> \in Seq(Chunks)
    BY <1>3
  <2> QED
    BY <1>1, <1>2, <1>3, <2>1 DEF TypeOK
<1>5. TypeOK'
  BY <1>1, <1>2, <1>4 DEF TypeOK, Open
<1>6. Only(c)
  BY <1>2, <1>4 DEF Only, Same
<1>7. Untouched(c)' /\ Handled(c)' /\ Associated(c)' /\ GoneIsFin(c)' /\ ResponseOK(c)'
  <2>1. req[c] # "associate"
    BY <1>1, <1>2 DEF ConnOK, Handled
  <2> QED
    BY <1>1, <1>2, <2>1
    DEF ConnOK, Untouched, Handled, Associated, GoneIsFin, ResponseOK, Early
<1>8. ASSUME NEW e \in Dirs PROVE Stream(c, e)'
  <2>1. /\ HeadLen(c, e)' = HeadLen(c, e)
        /\ Ordered(out[<<c, e>>], buf[<<c, e>>], wr[<<c, e>>], seen[<<c, e>>], HeadLen(c, e))
    BY <1>1, <1>2 DEF HeadLen, ConnOK, Stream
  <2>2. CASE e = d
    <3>1. Ordered(out[<<c, d>>], <<seen[<<c, d>>] + 1>>, wr[<<c, d>>], seen[<<c, d>>] + 1, HeadLen(c, d))
      BY <1>1, <1>2, <2>1, <2>2, StreamType, OrderedRead
    <3> QED
      BY <1>2, <1>4, <2>1, <2>2, <3>1 DEF Stream
  <2>3. CASE e # d
    BY <1>2, <1>4, <2>1, <2>3 DEF Stream
  <2> QED
    BY <2>2, <2>3
<1>9. ConnOK(c)'
  BY <1>7, <1>8 DEF ConnOK
<1>10. TrafficCounted' /\ UNCHANGED <<active, total, stopVars>> /\ pc'[c] = pc[c]
  BY <1>1, <1>2, TrafficSame DEF stopVars
<1>11. c \in Relaying' <=> c \in Relaying
  BY <1>2 DEF Relaying
<1> QED
  BY <1>5, <1>6, <1>9, <1>10, <1>11, DataIInv

\* How the counters follow one direction.
LEMMA TrafficStep ==
  ASSUME TrafficCounted, NEW d \in Dirs,
         /\ Counted(d)' - Counted(d)
              = (Cardinality(Arrived(d)') - Cardinality(Arrived(d)))
                - (Cardinality(Writers(d)') - Cardinality(Writers(d)))
         /\ Counted(d) \in Int /\ Counted(d)' \in Int
         /\ Cardinality(Arrived(d)') \in Int /\ Cardinality(Writers(d)') \in Int,
         \A e \in Dirs \ {d} : /\ Counted(e)' = Counted(e)
                               /\ Arrived(e)' = Arrived(e) /\ Writers(e)' = Writers(e)
  PROVE  TrafficCounted'
<1>1. ASSUME NEW e \in Dirs
      PROVE  Counted(e)' = Cardinality(Arrived(e)') - Cardinality(Writers(e)')
  <2>1. Counted(e) = Cardinality(Arrived(e)) - Cardinality(Writers(e))
    BY TrafficIs
  <2>2. CASE e = d
    BY <2>1, <2>2, TrafficSets
  <2>3. CASE e # d
    <3>1. /\ Cardinality(Arrived(e)') = Cardinality(Arrived(e))
          /\ Cardinality(Writers(e)') = Cardinality(Writers(e))
      BY <2>3, Zenon
    <3> QED
      BY <2>1, <2>3, <3>1
  <2> QED
    BY <2>2, <2>3
<1> QED
  BY <1>1 DEF TrafficCounted, Counted, Arrived, Writers, Places

\* While a chunk waits, not all that a stream can hold has arrived.
LEMMA RoomLeft ==
  ASSUME NEW a \in Nat, NEW b \in Nat, NEW h \in {0, 1}, NEW s \in Nat,
         a + b = h + s, b >= 1, s <= MaxUp + MaxDown
  PROVE  a < MaxUp + MaxDown + 1
  BY MaxUpAssumption, MaxDownAssumption

\* The first bytes of a chunk leave.
LEMMA WriteBeginsIInv ==
  ASSUME IInv, NEW c \in Conns, NEW d \in Dirs, WriteBegins(c, d)
  PROVE  IInv'
<1>1. TypeOK /\ ConnOK(c) /\ TrafficCounted
  BY DEF IInv
<1>2. /\ pc[c] \in {"relay", "flush"} /\ c \in Open /\ buf[<<c, d>>] # <<>> /\ ~wr[<<c, d>>]
      /\ wr' = [wr EXCEPT ![<<c, d>>] = TRUE]
      /\ out' = [out EXCEPT ![<<c, d>>] = Append(@, buf[<<c, d>>][1])]
      /\ UNCHANGED <<kind, lpc, listed, active, total, bytes, sent, senders, sig, pc, req,
                     seen, buf, made, fin, dead, rt>>
  BY DEF WriteBegins, Writing, Open, listenVars, statVars, stopVars, endVars
<1>3. /\ Ordered(out[<<c, d>>], buf[<<c, d>>], wr[<<c, d>>], seen[<<c, d>>], HeadLen(c, d))
      /\ HeadLen(c, d) \in {0, 1} /\ wr[<<c, d>>] = FALSE
  BY <1>1, <1>2, StreamType DEF ConnOK, Stream
<1>4. /\ buf[<<c, d>>] \in Seq(Chunks) /\ Len(buf[<<c, d>>]) \in Nat /\ Len(buf[<<c, d>>]) >= 1
      /\ buf[<<c, d>>][1] \in Chunks /\ out[<<c, d>>] \in Seq(Chunks) /\ Len(out[<<c, d>>]) \in Nat
      /\ seen[<<c, d>>] \in Nat /\ seen[<<c, d>>] \in Chunks
  BY <1>1, <1>2, StreamType
<1>5. Ordered(Append(out[<<c, d>>], buf[<<c, d>>][1]), buf[<<c, d>>], TRUE, seen[<<c, d>>], HeadLen(c, d))
  BY <1>2, <1>3, <1>4, OrderedBegins
<1>6. /\ out' \in [Conns \X Dirs -> Seq(Chunks)] /\ wr' \in [Conns \X Dirs -> BOOLEAN]
      /\ out'[<<c, d>>] = Append(out[<<c, d>>], buf[<<c, d>>][1]) /\ wr'[<<c, d>>] = TRUE
      /\ \A b \in Conns, e \in Dirs : b # c \/ e # d =>
           out'[<<b, e>>] = out[<<b, e>>] /\ wr'[<<b, e>>] = wr[<<b, e>>]
  <2>1. Append(out[<<c, d>>], buf[<<c, d>>][1]) \in Seq(Chunks)
    BY <1>4
  <2> QED
    BY <1>1, <1>2, <2>1 DEF TypeOK
<1>7. TypeOK'
  BY <1>1, <1>2, <1>6 DEF TypeOK, Open
<1>8. Only(c)
  BY <1>2, <1>6 DEF Only, Same
<1>9. Untouched(c)' /\ Handled(c)' /\ Associated(c)' /\ GoneIsFin(c)' /\ ResponseOK(c)'
  <2>1. req[c] # "associate"
    BY <1>1, <1>2 DEF ConnOK, Handled
  <2> QED
    BY <1>1, <1>2, <2>1
    DEF ConnOK, Untouched, Handled, Associated, GoneIsFin, ResponseOK, Early
<1>10. ASSUME NEW e \in Dirs PROVE Stream(c, e)'
  <2>1. /\ HeadLen(c, e)' = HeadLen(c, e)
        /\ Ordered(out[<<c, e>>], buf[<<c, e>>], wr[<<c, e>>], seen[<<c, e>>], HeadLen(c, e))
    BY <1>1, <1>2 DEF HeadLen, ConnOK, Stream
  <2>2. CASE e = d
    BY <1>2, <1>5, <1>6, <2>1, <2>2 DEF Stream
  <2>3. CASE e # d
    BY <1>2, <1>6, <2>1, <2>3 DEF Stream
  <2> QED
    BY <2>2, <2>3
<1>11. ConnOK(c)'
  BY <1>9, <1>10 DEF ConnOK
<1>12. TrafficCounted'
  <2>1. Len(out[<<c, d>>]) < MaxUp + MaxDown + 1
    <3>1. Len(out[<<c, d>>]) + Len(buf[<<c, d>>]) = HeadLen(c, d) + seen[<<c, d>>]
      <4>1. Passed(out[<<c, d>>], wr[<<c, d>>]) = Len(out[<<c, d>>])
        BY <1>3 DEF Passed
      <4> QED
        BY <1>3, <4>1 DEF Ordered
    <3>2. seen[<<c, d>>] <= MaxUp + MaxDown /\ MaxUp + MaxDown \in Nat
      <4>1. seen[<<c, d>>] \in Chunks
        BY <1>4
      <4> QED
        BY <4>1, MaxUpAssumption, MaxDownAssumption DEF Chunks
    <3>3. /\ Len(buf[<<c, d>>]) \in Nat /\ Len(buf[<<c, d>>]) >= 1 /\ Len(out[<<c, d>>]) \in Nat
          /\ seen[<<c, d>>] \in Nat /\ HeadLen(c, d) \in {0, 1}
      BY <1>3, <1>4
    <3> QED
      BY <3>1, <3>2, <3>3, RoomLeft
  <2>2. /\ Cardinality(Arrived(d)') = Cardinality(Arrived(d)) + 1
        /\ \A e \in Dirs \ {d} : Arrived(e)' = Arrived(e)
    BY <1>1, <1>2, <1>4, <2>1, OneArrives
  <2>3. /\ Cardinality(Writers(d)') = Cardinality(Writers(d)) + 1
        /\ \A e \in Dirs \ {d} : Writers(e)' = Writers(e)
    BY <1>1, <1>2, WriterComes
  <2>4. Counted(d) \in Int /\ \A e \in Dirs : Counted(e)' = Counted(e)
    BY <1>1, <1>2 DEF Counted, NetworkLeg, TypeOK
  <2>5. Cardinality(Arrived(d)) \in Nat /\ Cardinality(Writers(d)) \in Nat
    BY TrafficSets
  <2> QED
    BY <1>1, <2>2, <2>3, <2>4, <2>5, TrafficStep
<1>13. UNCHANGED <<active, total, stopVars>> /\ pc'[c] = pc[c]
  BY <1>2 DEF stopVars
<1>14. c \in Relaying' <=> c \in Relaying
  BY <1>2 DEF Relaying
<1> QED
  BY <1>7, <1>8, <1>11, <1>12, <1>13, <1>14, DataIInv

\* The last bytes of a chunk have left.
LEMMA WriteEndsIInv ==
  ASSUME IInv, NEW c \in Conns, NEW d \in Dirs, WriteEnds(c, d)
  PROVE  IInv'
<1>1. TypeOK /\ ConnOK(c) /\ TrafficCounted
  BY DEF IInv
<1>2. /\ pc[c] \in {"relay", "flush"} /\ c \in Open /\ wr[<<c, d>>]
      /\ wr' = [wr EXCEPT ![<<c, d>>] = FALSE]
      /\ buf' = [buf EXCEPT ![<<c, d>>] = Tail(@)]
      /\ bytes' = [bytes EXCEPT ![Counter(d)] = @ + 1]
      /\ UNCHANGED <<kind, lpc, listed, active, total, sent, senders, sig, pc, req,
                     seen, out, made, fin, dead, rt>>
  BY DEF WriteEnds, Writing, Open, listenVars, statVars, stopVars, endVars
<1>3. /\ Ordered(out[<<c, d>>], buf[<<c, d>>], TRUE, seen[<<c, d>>], HeadLen(c, d))
      /\ HeadLen(c, d) \in {0, 1}
  <2>1. wr[<<c, d>>] = TRUE
    BY <1>1, <1>2, StreamType
  <2> QED
    BY <1>1, <1>2, <2>1, StreamType DEF ConnOK, Stream
<1>4. /\ buf[<<c, d>>] \in Seq(Chunks) /\ buf[<<c, d>>] # <<>>
      /\ out[<<c, d>>] \in Seq(Chunks) /\ seen[<<c, d>>] \in Nat
  BY <1>1, StreamType DEF WriteEnds, Writing
<1>5. Ordered(out[<<c, d>>], Tail(buf[<<c, d>>]), FALSE, seen[<<c, d>>], HeadLen(c, d))
  BY <1>3, <1>4, OrderedEnds
<1>6. /\ buf' \in [Conns \X Dirs -> Seq(Chunks)] /\ wr' \in [Conns \X Dirs -> BOOLEAN]
      /\ buf'[<<c, d>>] = Tail(buf[<<c, d>>]) /\ wr'[<<c, d>>] = FALSE
      /\ \A b \in Conns, e \in Dirs : b # c \/ e # d =>
           buf'[<<b, e>>] = buf[<<b, e>>] /\ wr'[<<b, e>>] = wr[<<b, e>>]
  <2>1. Tail(buf[<<c, d>>]) \in Seq(Chunks)
    BY <1>4
  <2> QED
    BY <1>1, <1>2, <2>1 DEF TypeOK
<1>7. bytes' \in [rx : Nat, tx : Nat]
  <2>1. bytes \in [rx : Nat, tx : Nat] /\ Counter(d) \in {"rx", "tx"}
    BY <1>1 DEF TypeOK, Counter
  <2>2. CASE Counter(d) = "rx"
    BY <1>2, <2>1, <2>2
  <2>3. CASE Counter(d) = "tx"
    BY <1>2, <2>1, <2>3
  <2> QED
    BY <2>1, <2>2, <2>3
<1>8. TypeOK'
  BY <1>1, <1>2, <1>6, <1>7 DEF TypeOK, Open
<1>9. Only(c)
  BY <1>2, <1>6 DEF Only, Same
<1>10. Untouched(c)' /\ Handled(c)' /\ Associated(c)' /\ GoneIsFin(c)' /\ ResponseOK(c)'
  <2>1. req[c] # "associate"
    BY <1>1, <1>2 DEF ConnOK, Handled
  <2> QED
    BY <1>1, <1>2, <2>1
    DEF ConnOK, Untouched, Handled, Associated, GoneIsFin, ResponseOK, Early
<1>11. ASSUME NEW e \in Dirs PROVE Stream(c, e)'
  <2>1. /\ HeadLen(c, e)' = HeadLen(c, e)
        /\ Ordered(out[<<c, e>>], buf[<<c, e>>], wr[<<c, e>>], seen[<<c, e>>], HeadLen(c, e))
    BY <1>1, <1>2 DEF HeadLen, ConnOK, Stream
  <2>2. CASE e = d
    BY <1>2, <1>5, <1>6, <2>1, <2>2 DEF Stream
  <2>3. CASE e # d
    BY <1>2, <1>6, <2>1, <2>3 DEF Stream
  <2> QED
    BY <2>2, <2>3
<1>12. ConnOK(c)'
  BY <1>10, <1>11 DEF ConnOK
<1>13. TrafficCounted'
  <2>1. \A e \in Dirs : Arrived(e)' = Arrived(e) /\ Cardinality(Arrived(e)') = Cardinality(Arrived(e))
    <3>1. ASSUME NEW e \in Dirs PROVE Arrived(e)' = Arrived(e)
      BY <1>2 DEF Arrived
    <3> QED
      BY <3>1, Zenon
  <2>2. /\ Cardinality(Writers(d)') = Cardinality(Writers(d)) - 1
        /\ \A e \in Dirs \ {d} : Writers(e)' = Writers(e)
    BY <1>1, <1>2, WriterGoes
  <2>3. /\ Counted(d)' = Counted(d) + 1
        /\ \A e \in Dirs \ {d} : Counted(e)' = Counted(e)
    BY <1>1, <1>2, OneCounted
  <2>4. Counted(d) \in Int
    BY <1>1 DEF Counted, TypeOK
  <2>5. Cardinality(Arrived(d)) \in Nat /\ Cardinality(Writers(d)) \in Nat
    BY TrafficSets
  <2> QED
    BY <1>1, <2>1, <2>2, <2>3, <2>4, <2>5, TrafficStep
<1>14. UNCHANGED <<active, total, stopVars>> /\ pc'[c] = pc[c]
  BY <1>2 DEF stopVars
<1>15. c \in Relaying' <=> c \in Relaying
  BY <1>2 DEF Relaying
<1> QED
  BY <1>8, <1>9, <1>12, <1>13, <1>14, <1>15, DataIInv

\* read_head and parse_request: the request is known, what came behind its
\* head is kept for the dialed side.
LEMMA ReadHeadIInv ==
  ASSUME IInv, NEW c \in Conns, ReadHead(c)
  PROVE  IInv'
<1>1. TypeOK /\ ConnOK(c) /\ TrafficCounted /\ GaugeExact /\ SentFirst /\ pc[c] = "head"
  BY DEF ReadHead, IInv
<1>2. CASE Refuse(c)
  BY <1>1, <1>2, RefuseIInv DEF Early
<1>3. CASE \E method \in {"connect", "forward"}, n \in 0..(made[<<c, "up">>] - seen[<<c, "up">>]) :
             /\ req' = [req EXCEPT ![c] = method]
             /\ buf' = [buf EXCEPT ![<<c, "up">>] = Extra(c, method, n)]
             /\ seen' = [seen EXCEPT ![<<c, "up">>] = @ + n]
             /\ Goto(c, "dial")
             /\ UNCHANGED <<kind, listenVars, statVars, stopVars, wr, out, endVars, rt>>
  <2>1. PICK method \in {"connect", "forward"}, n \in 0..(made[<<c, "up">>] - seen[<<c, "up">>]) :
             /\ req' = [req EXCEPT ![c] = method]
             /\ buf' = [buf EXCEPT ![<<c, "up">>] = Extra(c, method, n)]
             /\ seen' = [seen EXCEPT ![<<c, "up">>] = @ + n]
             /\ Goto(c, "dial")
             /\ UNCHANGED <<kind, listenVars, statVars, stopVars, wr, out, endVars, rt>>
    BY <1>3
  <2>2. UNCHANGED <<kind, lpc, listed, active, total, bytes, sent, senders, sig, wr, out,
                    made, fin, dead, rt>>
    BY <2>1 DEF listenVars, statVars, stopVars, endVars
  <2>3. /\ seen[<<c, "up">>] = 0 /\ req[c] = "none" /\ seen[<<c, "down">>] = 0
        /\ buf[<<c, "down">>] = <<>> /\ rt[c] = "none" /\ made[<<c, "down">>] = 0
        /\ \A d \in Dirs : out[<<c, d>>] = <<>> /\ ~wr[<<c, d>>]
        /\ kind \notin Forwards /\ "up" \in Dirs /\ "down" \in Dirs
    BY <1>1 DEF ConnOK, Untouched, Handled, Early, Dirs
  <2>4. "dial" \in Labels \ {"idle", "ended"}
    BY DEF Labels
  <2>5. /\ pc' \in [Conns -> Labels] /\ pc'[c] = "dial" /\ Open' = Open \cup {c}
        /\ \A b \in Conns \ {c} : pc'[b] = pc[b]
    BY <1>1, <2>1, <2>4, GotoType
  <2>6. n \in Nat /\ n \in Chunks /\ 0 .. n \subseteq Chunks
    <3>1. made[<<c, "up">>] \in Chunks
      BY <1>1, <2>3, StreamType
    <3> QED
      BY <2>1, <2>3, <3>1, MaxUpAssumption, MaxDownAssumption DEF Chunks
  <2> DEFINE h == IF method = "forward" THEN 1 ELSE 0
             q == RewrittenHead(method) \o Numbers(1, n)
  <2>7. Ordered(<<>>, q, FALSE, n, h) /\ q \in Seq(0 .. n)
    BY <2>6, OrderedHead
  <2>8. Extra(c, method, n) = q
    BY <2>3, <2>6 DEF Extra
  <2> HIDE DEF q
  <2>9. q \in Seq(Chunks)
    BY <2>6, <2>7
  <2>10. /\ req' \in [Conns -> {"none", "connect", "forward", "associate"}] /\ req'[c] = method
         /\ buf' \in [Conns \X Dirs -> Seq(Chunks)] /\ seen' \in [Conns \X Dirs -> Chunks]
         /\ buf'[<<c, "up">>] = q /\ seen'[<<c, "up">>] = n
         /\ buf'[<<c, "down">>] = <<>> /\ seen'[<<c, "down">>] = 0
         /\ \A b \in Conns \ {c}, e \in Dirs :
              buf'[<<b, e>>] = buf[<<b, e>>] /\ seen'[<<b, e>>] = seen[<<b, e>>]
         /\ \A b \in Conns \ {c} : req'[b] = req[b]
    <3>1. buf' = [buf EXCEPT ![<<c, "up">>] = q] /\ seen' = [seen EXCEPT ![<<c, "up">>] = n]
      BY <1>1, <2>1, <2>3, <2>6, <2>8 DEF TypeOK
    <3> QED
      BY <1>1, <2>1, <2>3, <2>6, <2>9, <3>1 DEF TypeOK
  <2>11. TypeOK'
    BY <1>1, <2>2, <2>5, <2>10 DEF TypeOK, Labels
  <2>12. Only(c)
    BY <2>2, <2>5, <2>10 DEF Only, Same
  <2>13. Untouched(c)' /\ Handled(c)' /\ Associated(c)'
    BY <2>2, <2>3, <2>5, <2>10 DEF Untouched, Handled, Associated, Early
  <2>14. GoneIsFin(c)' /\ ResponseOK(c)'
    BY <1>1, <2>2, <2>5 DEF ConnOK, GoneIsFin, ResponseOK
  <2>15. ASSUME NEW e \in Dirs PROVE Stream(c, e)'
    <3>1. CASE e = "up"
      <4>1. HeadLen(c, e)' = h
        BY <2>10, <3>1 DEF HeadLen
      <4>2. out'[<<c, e>>] = <<>> /\ wr'[<<c, e>>] = FALSE
        BY <1>1, <2>2, <2>3, StreamType
      <4> QED
        BY <2>7, <2>10, <3>1, <4>1, <4>2 DEF Stream
    <3>2. CASE e = "down"
      <4>1. HeadLen(c, e)' = 0
        BY <3>2 DEF HeadLen
      <4>2. out'[<<c, e>>] = <<>> /\ wr'[<<c, e>>] = FALSE
        BY <1>1, <2>2, <2>3, StreamType
      <4>3. Ordered(<<>>, <<>>, FALSE, 0, 0)
        BY DEF Ordered, Passed
      <4> QED
        BY <2>10, <3>2, <4>1, <4>2, <4>3 DEF Stream
    <3> QED
      BY <3>1, <3>2 DEF Dirs
  <2>16. ConnOK(c)'
    BY <2>13, <2>14, <2>15 DEF ConnOK
  <2>17. \A b \in Conns : (Guarded(b)' <=> Guarded(b)) /\ (b \in Relaying' <=> b \in Relaying)
    BY <1>1, <2>2, <2>3, <2>5 DEF Guarded, Relaying
  <2>18. GaugeExact' /\ TrafficCounted' /\ SentFirst'
    BY <1>1, <2>2, <2>17, GaugeSame, TrafficSame DEF SentFirst
  <2> QED
    BY <2>11, <2>12, <2>16, <2>18, OnlyOK DEF IInv
<1> QED
  BY <1>2, <1>3 DEF ReadHead

-----------------------------------------------------------------------------
(* Associations *)

\* A datagram that is passed on at once.
LEMMA OrderedDatagram ==
  ASSUME NEW o \in Seq(Chunks), NEW s \in Nat, s + 1 \in Chunks, Ordered(o, <<>>, FALSE, s, 0)
  PROVE  Ordered(Append(o, s + 1), <<>>, FALSE, s + 1, 0) /\ Len(o) = s
<1> DEFINE p == Append(o, s + 1)
<1>1. /\ Len(o) \in Nat /\ Len(o) = s /\ Len(p) = s + 1 /\ p[s + 1] = s + 1
      /\ \A i \in 1 .. Len(o) : p[i] = o[i] /\ o[i] = i - 0
  BY DEF Ordered, Passed
<1> HIDE DEF p
<1>2. \A i \in 1 .. Len(p) : p[i] = i - 0
  <2> SUFFICES ASSUME NEW i \in 1 .. (s + 1) PROVE p[i] = i - 0
    BY <1>1
  <2>1. CASE i = s + 1
    BY <1>1, <2>1
  <2>2. CASE i # s + 1
    BY <1>1, <2>2
  <2> QED
    BY <2>1, <2>2
<1>3. Passed(p, FALSE) = s + 1 /\ Len(<<>>) = 0
  BY <1>1 DEF Passed
<1>4. Ordered(p, <<>>, FALSE, s + 1, 0)
  <2>1. (s + 1) + Len(<<>>) = 0 + (s + 1)
    BY <1>3
  <2>2. \A j \in 1 .. Len(<<>>) : <<>>[j] = (s + 1) + j - 0
    BY <1>3
  <2> QED
    BY <1>2, <1>3, <2>1, <2>2, Zenon DEF Ordered
<1> QED
  BY <1>1, <1>4 DEF p

\* A datagram goes through an association, and is counted.
LEMMA DatagramIInv ==
  ASSUME IInv, NEW c \in Conns, NEW d \in Dirs, pc[c] = "control",
         rt[c] \in {"send", "wait"}, NEW label \in {"recv", "wait"}, rt' = [rt EXCEPT ![c] = label],
         seen[<<c, d>>] < MaxUp,
         seen' = [seen EXCEPT ![<<c, d>>] = @ + 1],
         out' = [out EXCEPT ![<<c, d>>] = Append(@, seen[<<c, d>>] + 1)],
         bytes' = [bytes EXCEPT ![Counter(d)] = @ + 1],
         UNCHANGED <<kind, listenVars, active, total, stopVars, pc, req, buf, wr, endVars>>,
         Associated(c)'
  PROVE  IInv'
<1>1. TypeOK /\ ConnOK(c) /\ TrafficCounted
  BY DEF IInv
<1>2. UNCHANGED <<kind, lpc, listed, active, total, sent, senders, sig, pc, req, buf, wr,
                  made, fin, dead>>
  BY DEF listenVars, stopVars, endVars
<1>3. /\ req[c] = "associate" /\ kind = "socks" /\ c \in Open
      /\ \A e \in Dirs : buf[<<c, e>>] = <<>> /\ wr[<<c, e>>] = FALSE
  <2>1. req[c] = "associate" /\ kind = "socks" /\ c \in Open
    BY <1>1 DEF ConnOK, Handled, Open
  <2>2. ASSUME NEW e \in Dirs PROVE buf[<<c, e>>] = <<>> /\ wr[<<c, e>>] = FALSE
    BY <1>1, <2>1, StreamType DEF ConnOK, Associated
  <2> QED
    BY <2>1, <2>2
<1>4. /\ seen[<<c, d>>] \in Nat /\ seen[<<c, d>>] + 1 \in Chunks /\ out[<<c, d>>] \in Seq(Chunks)
      /\ \A e \in Dirs : HeadLen(c, e) = 0 /\ HeadLen(c, e)' = 0
  <2>1. seen[<<c, d>>] \in Nat /\ out[<<c, d>>] \in Seq(Chunks)
    BY <1>1, StreamType
  <2>2. seen[<<c, d>>] + 1 \in Chunks
    BY <2>1, MaxUpAssumption, MaxDownAssumption DEF Chunks
  <2> QED
    BY <1>2, <1>3, <2>1, <2>2 DEF HeadLen
<1>5. \A e \in Dirs : Ordered(out[<<c, e>>], <<>>, FALSE, seen[<<c, e>>], 0)
  <2> TAKE e \in Dirs
  <2>1. Stream(c, e)
    BY <1>1 DEF ConnOK
  <2>2. buf[<<c, e>>] = <<>> /\ wr[<<c, e>>] = FALSE /\ HeadLen(c, e) = 0
    BY <1>3, <1>4
  <2> QED
    BY <1>3, <2>1, <2>2 DEF Stream
<1>6. /\ Ordered(Append(out[<<c, d>>], seen[<<c, d>>] + 1), <<>>, FALSE, seen[<<c, d>>] + 1, 0)
      /\ Len(out[<<c, d>>]) = seen[<<c, d>>]
  BY <1>4, <1>5, OrderedDatagram
<1>7. /\ seen' \in [Conns \X Dirs -> Chunks] /\ out' \in [Conns \X Dirs -> Seq(Chunks)]
      /\ seen'[<<c, d>>] = seen[<<c, d>>] + 1
      /\ out'[<<c, d>>] = Append(out[<<c, d>>], seen[<<c, d>>] + 1)
      /\ \A b \in Conns, e \in Dirs : b # c \/ e # d =>
           seen'[<<b, e>>] = seen[<<b, e>>] /\ out'[<<b, e>>] = out[<<b, e>>]
  <2>1. Append(out[<<c, d>>], seen[<<c, d>>] + 1) \in Seq(Chunks)
    BY <1>4
  <2> QED
    BY <1>1, <1>4, <2>1 DEF TypeOK
<1>8. bytes' \in [rx : Nat, tx : Nat]
  <2>1. bytes \in [rx : Nat, tx : Nat] /\ Counter(d) \in {"rx", "tx"}
    BY <1>1 DEF TypeOK, Counter
  <2>2. CASE Counter(d) = "rx"
    BY <2>1, <2>2
  <2>3. CASE Counter(d) = "tx"
    BY <2>1, <2>3
  <2> QED
    BY <2>1, <2>2, <2>3
<1>9. /\ rt' \in [Conns -> {"none", "spawned", "recv", "send", "wait", "over"}]
      /\ rt'[c] = label /\ \A b \in Conns \ {c} : rt'[b] = rt[b]
  BY <1>1 DEF TypeOK
<1>10. TypeOK'
  BY <1>1, <1>2, <1>7, <1>8, <1>9 DEF TypeOK, Open
<1>11. Only(c)
  BY <1>2, <1>7, <1>9 DEF Only, Same
<1>12. Untouched(c)' /\ Handled(c)' /\ GoneIsFin(c)' /\ ResponseOK(c)'
  BY <1>1, <1>2 DEF ConnOK, Untouched, Handled, GoneIsFin, ResponseOK, Early
<1>13. ASSUME NEW e \in Dirs PROVE Stream(c, e)'
  <2>1. buf'[<<c, e>>] = <<>> /\ wr'[<<c, e>>] = FALSE /\ HeadLen(c, e)' = 0
    BY <1>2, <1>3, <1>4
  <2>2. CASE e = d
    BY <1>6, <1>7, <2>1, <2>2 DEF Stream
  <2>3. CASE e # d
    <3>1. out'[<<c, e>>] = out[<<c, e>>] /\ seen'[<<c, e>>] = seen[<<c, e>>]
      BY <1>7, <2>3
    <3>2. Ordered(out[<<c, e>>], <<>>, FALSE, seen[<<c, e>>], 0)
      BY <1>5
    <3> QED
      BY <2>1, <3>1, <3>2 DEF Stream
  <2> QED
    BY <2>2, <2>3
<1>14. ConnOK(c)'
  BY <1>12, <1>13 DEF ConnOK
<1>15. TrafficCounted'
  <2>1. Len(out[<<c, d>>]) < MaxUp + MaxDown + 1
    BY <1>4, <1>6, MaxUpAssumption, MaxDownAssumption
  <2>2. /\ Cardinality(Arrived(d)') = Cardinality(Arrived(d)) + 1
        /\ \A e \in Dirs \ {d} : Arrived(e)' = Arrived(e)
    BY <1>1, <1>4, <2>1, OneArrives
  <2>3. \A e \in Dirs : Writers(e)' = Writers(e) /\ Cardinality(Writers(e)') = Cardinality(Writers(e))
    <3>1. ASSUME NEW e \in Dirs PROVE Writers(e)' = Writers(e)
      BY <1>2 DEF Writers
    <3> QED
      BY <3>1, Zenon
  <2>4. /\ Counted(d)' = Counted(d) + 1
        /\ \A e \in Dirs \ {d} : Counted(e)' = Counted(e)
    BY <1>1, <1>2, OneCounted
  <2>5. Counted(d) \in Int
    BY <1>1 DEF Counted, TypeOK
  <2>6. Cardinality(Arrived(d)) \in Nat /\ Cardinality(Writers(d)) \in Nat
    BY TrafficSets
  <2> QED
    BY <1>1, <2>2, <2>3, <2>4, <2>5, <2>6, TrafficStep
<1>16. UNCHANGED <<active, total, stopVars>> /\ pc'[c] = pc[c]
  BY <1>2 DEF stopVars
<1>17. c \in Relaying' <=> c \in Relaying
  BY <1>9 DEF Relaying
<1> QED
  BY <1>10, <1>11, <1>14, <1>15, <1>16, <1>17, DataIInv

\* The relay task of an association changes its control state alone.
LEMMA TurnFacts ==
  ASSUME IInv, NEW c \in Conns, pc[c] \in {"control", "ended"},
         NEW label \in {"recv", "send", "wait", "over"}, rt' = [rt EXCEPT ![c] = label],
         active' \in Nat, total' \in Nat,
         UNCHANGED <<kind, listenVars, bytes, stopVars, pc, req, copyVars, endVars>>,
         Associated(c)'
  PROVE  /\ TypeOK' /\ ConnOK(c)' /\ TrafficCounted' /\ SentFirst' /\ Only(c)
         /\ rt'[c] = label /\ \A b \in Conns \ {c} : rt'[b] = rt[b]
<1>1. TypeOK /\ ConnOK(c) /\ TrafficCounted /\ SentFirst
  BY DEF IInv
<1>2. UNCHANGED <<kind, lpc, listed, bytes, sent, senders, sig, pc, req, seen, buf, wr, out,
                  made, fin, dead>>
  BY DEF listenVars, stopVars, copyVars, endVars
<1>3. /\ rt' \in [Conns -> {"none", "spawned", "recv", "send", "wait", "over"}]
      /\ rt'[c] = label /\ \A b \in Conns \ {c} : rt'[b] = rt[b]
  BY <1>1 DEF TypeOK
<1>4. TypeOK'
  BY <1>1, <1>2, <1>3 DEF TypeOK, Open
<1>5. Only(c)
  BY <1>2, <1>3 DEF Only, Same
<1>6. Untouched(c)' /\ Handled(c)' /\ GoneIsFin(c)' /\ ResponseOK(c)'
  BY <1>1, <1>2 DEF ConnOK, Untouched, Handled, GoneIsFin, ResponseOK, Early
<1>7. ASSUME NEW e \in Dirs PROVE Stream(c, e)'
  <2>1. Stream(c, e) /\ HeadLen(c, e)' = HeadLen(c, e)
    BY <1>1, <1>2 DEF ConnOK, HeadLen
  <2> QED
    BY <1>2, <2>1 DEF Stream, Open
<1>8. ConnOK(c)'
  BY <1>6, <1>7 DEF ConnOK
<1>9. TrafficCounted' /\ SentFirst'
  BY <1>1, <1>2, TrafficSame DEF SentFirst
<1> QED
  BY <1>3, <1>4, <1>5, <1>8, <1>9

\* A turn of the relay task that passes nothing on.
LEMMA TurnIInv ==
  ASSUME IInv, NEW c \in Conns, pc[c] = "control", rt[c] \in {"recv", "send", "wait"},
         NEW label \in {"recv", "send"}, rt' = [rt EXCEPT ![c] = label],
         label = "send" => seen[<<c, "up">>] < MaxUp,
         UNCHANGED <<kind, listenVars, statVars, stopVars, pc, req, copyVars, endVars>>
  PROVE  IInv'
<1>1. TypeOK /\ ConnOK(c) /\ UNCHANGED <<active, total, bytes>>
  BY DEF IInv, statVars
<1>2. Associated(c)'
  <2>1. rt'[c] = label
    BY <1>1 DEF TypeOK
  <2> QED
    BY <1>1, <2>1 DEF ConnOK, Associated, copyVars
<1>3. active' \in Nat /\ total' \in Nat
  BY <1>1 DEF TypeOK
<1>4. /\ TypeOK' /\ ConnOK(c)' /\ TrafficCounted' /\ Only(c)
      /\ rt'[c] = label
  BY <1>1, <1>2, <1>3, TurnFacts
<1>5. c \in Relaying' <=> c \in Relaying
  BY <1>4 DEF Relaying
<1>6. pc'[c] = pc[c] /\ UNCHANGED <<active, total, stopVars>>
  BY <1>1
<1> QED
  BY <1>4, <1>5, <1>6, DataIInv

\* The relay task takes its guard, or drops it: at its end or aborted.
LEMMA AssocGuardIInv ==
  ASSUME IInv, NEW c \in Conns, AssocBegins(c) \/ AssocBreaks(c) \/ AssocAborted(c)
  PROVE  IInv'
<1>1. TypeOK /\ ConnOK(c) /\ GaugeExact
  BY DEF IInv
<1>2. PICK label \in {"recv", "over"} :
        /\ rt' = [rt EXCEPT ![c] = label] /\ pc[c] \in {"control", "ended"}
        /\ UNCHANGED <<kind, listenVars, bytes, stopVars, pc, req, copyVars, endVars>>
        /\ \/ label = "recv" /\ rt[c] = "spawned" /\ ConnOpened
           \/ label = "over" /\ c \in Relaying /\ ConnClosed
           \/ label = "over" /\ c \notin Relaying /\ UNCHANGED <<active, total>>
  BY DEF AssocBegins, AssocBreaks, AssocAborted, Relaying
<1>3. active' \in Nat /\ total' \in Nat
  BY <1>1, <1>2, GaugeType
<1>4. Associated(c)'
  <2>1. rt'[c] = label
    BY <1>1, <1>2 DEF TypeOK
  <2> QED
    BY <1>1, <1>2, <2>1 DEF ConnOK, Associated, copyVars
<1>5. /\ TypeOK' /\ ConnOK(c)' /\ TrafficCounted' /\ SentFirst' /\ Only(c)
      /\ rt'[c] = label /\ \A b \in Conns \ {c} : rt'[b] = rt[b]
  BY <1>2, <1>3, <1>4, TurnFacts
<1>6. /\ \A b \in Conns : Guarded(b)' <=> Guarded(b)
      /\ \A b \in Conns \ {c} : b \in Relaying' <=> b \in Relaying
      /\ c \in Relaying' <=> label = "recv"
      /\ rt[c] = "spawned" => c \notin Relaying
  BY <1>2, <1>5 DEF Guarded, Relaying
<1>7. GaugeExact'
  <2>1. CASE label = "recv" /\ rt[c] = "spawned" /\ ConnOpened
    BY <1>1, <1>6, <2>1, GaugeUp
  <2>2. CASE label = "over" /\ c \in Relaying /\ ConnClosed
    BY <1>1, <1>6, <2>2, GaugeDown
  <2>3. CASE label = "over" /\ c \notin Relaying /\ UNCHANGED <<active, total>>
    BY <1>1, <1>6, <2>3, GaugeSame
  <2> QED
    BY <1>2, <2>1, <2>2, <2>3
<1> QED
  BY <1>5, <1>7, OnlyOK DEF IInv

\* A datagram is received, sent, answered.
LEMMA AssocIInv ==
  ASSUME IInv, NEW c \in Conns, AssocReceives(c) \/ AssocSends(c) \/ AssocReplies(c)
  PROVE  IInv'
<1>1. TypeOK /\ ConnOK(c) /\ pc[c] = "control" /\ "up" \in Dirs /\ "down" \in Dirs
  BY DEF IInv, AssocReceives, AssocSends, AssocReplies, Dirs
<1>2. kind = "socks" /\ Counter("up") = "tx" /\ Counter("down") = "rx"
  <2>1. kind = "socks"
    BY <1>1 DEF ConnOK, Handled
  <2> QED
    BY <2>1 DEF Counter
<1>3. /\ seen[<<c, "down">>] <= seen[<<c, "up">>] /\ seen[<<c, "up">>] <= MaxUp
      /\ rt[c] = "wait" => seen[<<c, "down">>] < seen[<<c, "up">>]
      /\ rt[c] = "send" => seen[<<c, "up">>] < MaxUp
      /\ seen[<<c, "down">>] \in Nat /\ seen[<<c, "up">>] \in Nat
  BY <1>1, StreamType DEF ConnOK, Associated
<1>4. CASE AssocReceives(c)
  BY <1>1, <1>4, TurnIInv DEF AssocReceives
<1>5. CASE AssocSends(c)
  <2>1. CASE rt' = [rt EXCEPT ![c] = "recv"] /\ UNCHANGED <<seen, out, bytes>>
    BY <1>1, <1>5, <2>1, TurnIInv DEF AssocSends, statVars, copyVars
  <2>2. CASE /\ rt' = [rt EXCEPT ![c] = "wait"]
             /\ seen' = [seen EXCEPT ![<<c, "up">>] = @ + 1]
             /\ out' = [out EXCEPT ![<<c, "up">>] = Append(@, seen[<<c, "up">>] + 1)]
             /\ bytes' = [bytes EXCEPT !.tx = @ + 1]
    <3>1. rt[c] = "send" /\ UNCHANGED <<kind, listenVars, active, total, stopVars, pc, req,
                                        buf, wr, endVars>>
      BY <1>5 DEF AssocSends
    <3>2. /\ rt'[c] = "wait" /\ seen'[<<c, "up">>] = seen[<<c, "up">>] + 1
          /\ seen'[<<c, "down">>] = seen[<<c, "down">>]
      BY <1>1, <2>2 DEF TypeOK
    <3>3. Associated(c)'
      BY <1>1, <1>3, <3>1, <3>2, MaxUpAssumption DEF ConnOK, Associated
    <3>4. bytes' = [bytes EXCEPT ![Counter("up")] = @ + 1]
      BY <1>2, <2>2
    <3> QED
      BY <1>1, <1>3, <2>2, <3>1, <3>3, <3>4, DatagramIInv
  <2> QED
    BY <1>5, <2>1, <2>2 DEF AssocSends
<1>6. CASE AssocReplies(c)
  <2>1. rt[c] = "wait" /\ rt' = [rt EXCEPT ![c] = "recv"]
        /\ UNCHANGED <<kind, listenVars, active, total, stopVars, pc, req, buf, wr, endVars>>
    BY <1>6 DEF AssocReplies
  <2>2. CASE UNCHANGED <<seen, out, bytes>>
    BY <1>1, <2>1, <2>2, TurnIInv DEF statVars, copyVars
  <2>3. CASE /\ seen' = [seen EXCEPT ![<<c, "down">>] = @ + 1]
             /\ out' = [out EXCEPT ![<<c, "down">>] = Append(@, seen[<<c, "down">>] + 1)]
             /\ bytes' = [bytes EXCEPT !.rx = @ + 1]
    <3>2. /\ rt'[c] = "recv" /\ seen'[<<c, "down">>] = seen[<<c, "down">>] + 1
          /\ seen'[<<c, "up">>] = seen[<<c, "up">>]
      BY <1>1, <2>1, <2>3 DEF TypeOK
    <3>3. Associated(c)' /\ seen[<<c, "down">>] < MaxUp
      BY <1>1, <1>3, <2>1, <3>2, MaxUpAssumption DEF ConnOK, Associated
    <3>4. bytes' = [bytes EXCEPT ![Counter("down")] = @ + 1]
      BY <1>2, <2>3
    <3> QED
      BY <1>1, <1>3, <2>1, <2>3, <3>3, <3>4, DatagramIInv
  <2> QED
    BY <1>6, <2>2, <2>3 DEF AssocReplies
<1> QED
  BY <1>4, <1>5, <1>6

-----------------------------------------------------------------------------
(* The theorems *)

\* Every step.
LEMMA NextIInv ==
  ASSUME IInv, [Next]_vars
  PROVE  IInv'
<1>1. CASE \/ Bind \/ BindFails \/ ListenerStops \/ ListenerAborted
           \/ SendStop \/ DropSender \/ UNCHANGED vars
  BY <1>1, ListenerIInv
<1>2. ASSUME NEW c \in Conns, Accept(c) \/ Handshake(c) \/ StartRelay(c) PROVE IInv'
  BY <1>2, AcceptIInv, GuardIInv, HelloIInv, RequestIInv, ReadHeadIInv, DialIInv, ReplyIInv
  DEF Handshake
<1>3. ASSUME NEW c \in Conns, Copy(c) PROVE IInv'
  BY <1>3, CopyReadIInv, WriteBeginsIInv, WriteEndsIInv DEF Copy
<1>4. ASSUME NEW c \in Conns, RelayEnds(c) \/ FlushFails(c) \/ RelayStopped(c) \/ ControlEnds(c)
      PROVE  IInv'
  BY <1>4, RelayEndsIInv, EndsIInv
<1>5. ASSUME NEW c \in Conns, Assoc(c) \/ AssocAborted(c) PROVE IInv'
  BY <1>5, AssocGuardIInv, AssocIInv DEF Assoc
<1>6. ASSUME NEW c \in Conns, NEW d \in Dirs, Produce(c, d) \/ Leave(c, d) PROVE IInv'
  BY <1>6, SideIInv
<1> QED
  BY <1>1, <1>2, <1>3, <1>4, <1>5, <1>6 DEF Next

\* The invariant is inductive.
LEMMA Inductive == Spec => []IInv
<1>1. IInv /\ [Next]_vars => IInv'
  BY NextIInv
<1> QED
  BY <1>1, InitIInv, PTL DEF Spec

\* The head and s chunks; and what waits of b.
Stretch(h, s) == [i \in 1 .. (h + s) |-> i - h]
Rest(b, w) == IF w THEN Tail(b) ELSE b

\* Read off position by position: the stream is the head and what was read.
LEMMA OrderedStream ==
  ASSUME NEW o \in Seq(Chunks), NEW b \in Seq(Chunks), NEW w \in BOOLEAN,
         NEW s \in Nat, NEW h \in {0, 1}, Ordered(o, b, w, s, h)
  PROVE  o \o Rest(b, w) = Stretch(h, s)
<1> DEFINE r == IF w THEN Tail(b) ELSE b
<1>1. r \in Seq(Chunks) /\ Ordered(o, r, FALSE, s, h)
  <2>1. CASE w
    <3>1. w = TRUE /\ b # <<>>
      BY <2>1 DEF Ordered
    <3>2. Ordered(o, b, TRUE, s, h)
      BY <3>1
    <3>3. Tail(b) \in Seq(Chunks)
      BY <3>1
    <3> QED
      BY <2>1, <3>2, <3>3, OrderedEnds
  <2>2. CASE ~w
    <3>1. w = FALSE
      BY <2>2
    <3> QED
      BY <3>1
  <2> QED
    BY <2>1, <2>2
<1> HIDE DEF r
<1>2. /\ Len(o) \in Nat /\ Len(r) \in Nat /\ Len(o) + Len(r) = h + s
      /\ \A i \in 1 .. Len(o) : o[i] = i - h
      /\ \A j \in 1 .. Len(r) : r[j] = Len(o) + j - h
  BY <1>1 DEF Ordered, Passed
<1> DEFINE t == o \o r
<1>3. /\ t \in Seq(Chunks) /\ Len(t) = h + s
      /\ \A i \in 1 .. Len(o) : t[i] = o[i]
      /\ \A i \in 1 .. (h + s) : i > Len(o) => t[i] = r[i - Len(o)]
  BY <1>1, <1>2
<1> HIDE DEF t
<1>4. ASSUME NEW i \in 1 .. (h + s) PROVE t[i] = i - h
  <2>1. CASE i <= Len(o)
    BY <1>2, <1>3, <2>1
  <2>2. CASE i > Len(o)
    <3>1. i - Len(o) \in 1 .. Len(r)
      BY <1>2, <2>2
    <3>2. r[i - Len(o)] = Len(o) + (i - Len(o)) - h
      BY <1>2, <3>1
    <3> QED
      BY <1>2, <1>3, <2>2, <3>2
  <2> QED
    BY <1>2, <2>1, <2>2
<1>5. t = [i \in 1 .. (h + s) |-> i - h]
  <2>1. t = [i \in 1 .. (h + s) |-> t[i]]
    BY <1>2, <1>3
  <2> QED
    BY <1>4, <2>1
<1> QED
  BY <1>5 DEF t, r, Rest, Stretch

\* The state of a listener and of all its connections keeps its types, and a
\* stop is only ever held by tasks that are alive, however the accept loop,
\* the relays and the engine interleave.
THEOREM TypeCorrect == Spec => []TypeOK
<1>1. IInv => TypeOK
  BY DEF IInv
<1> QED
  BY <1>1, Inductive, PTL

\* The active gauge of stats.rs counts the connections being served, whatever
\* ends them: every ConnGuard taken is dropped once and conn_closed never
\* clamps at zero.
THEOREM GaugeIsExact == Spec => []GaugeExact
<1>1. IInv => GaugeExact
  BY DEF IInv
<1> QED
  BY <1>1, Inductive, PTL

\* The rx and tx counters agree with what has crossed the Yggdrasil leg of all
\* connections and associations, but for the chunk each direction is writing
\* or was cut off in.
THEOREM TrafficIsCounted == Spec => []TrafficCounted
<1>1. IInv => TrafficCounted
  BY DEF IInv
<1> QED
  BY <1>1, Inductive, PTL

\* counting_copy, read_head's extra bytes and the datagrams of an association:
\* nothing is lost, repeated or reordered on the way through.
THEOREM StreamsInOrder == Spec => []StreamInOrder
<1>1. IInv => StreamInOrder
  <2> SUFFICES ASSUME IInv, NEW c \in Open, NEW d \in Dirs
               PROVE  out[<<c, d>>] \o Waiting(c, d)
                        = [i \in 1 .. (HeadLen(c, d) + seen[<<c, d>>]) |-> i - HeadLen(c, d)]
    BY DEF StreamInOrder, HeadLen
  <2>1. c \in Conns
    BY DEF Open
  <2>2. TypeOK /\ Ordered(out[<<c, d>>], buf[<<c, d>>], wr[<<c, d>>], seen[<<c, d>>], HeadLen(c, d))
    BY <2>1 DEF IInv, ConnOK, Stream
  <2> QED
    <3> DEFINE o == out[<<c, d>>]
               b == buf[<<c, d>>]
               w == wr[<<c, d>>]
               s == seen[<<c, d>>]
               h == HeadLen(c, d)
    <3>1. /\ o \in Seq(Chunks) /\ b \in Seq(Chunks) /\ w \in BOOLEAN
          /\ s \in Nat /\ h \in {0, 1} /\ Ordered(o, b, w, s, h)
      BY <2>1, <2>2, StreamType
    <3> HIDE DEF o, b, w, s, h
    <3>2. o \o Rest(b, w) = Stretch(h, s)
      BY <3>1, OrderedStream
    <3> QED
      BY <3>2 DEF Waiting, Rest, Stretch, o, b, w, s, h
<1> QED
  BY <1>1, Inductive, PTL

\* A relay that nobody stopped, whose client still listens and whose dialed
\* side was not reset, has passed on all that side sent before it ends.
THEOREM ResponsesWhole == Spec => []ResponseWhole
<1>1. IInv => ResponseWhole
  BY DEF IInv, ConnOK, ResponseOK, ResponseWhole
<1> QED
  BY <1>1, Inductive, PTL

=============================================================================
