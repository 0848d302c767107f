------------------------------- MODULE Relay --------------------------------
(***************************************************************************)
(* One listener and the connections it accepts: the SOCKS5 server          *)
(* (socks.rs), the HTTP proxy (http_proxy.rs), and the local-tcp and       *)
(* remote-tcp forwarders (forward/tcp.rs), which share the relay           *)
(* (counting_copy, both ways, in a select with the stop channel) and the   *)
(* statistics of stats.rs.                                                 *)
(*                                                                         *)
(* A connection has an accepted side, which sends "up", and a dialed side, *)
(* which sends "down".  What they send is numbered chunks; chunk 0 is the  *)
(* request head the HTTP proxy rewrites.  The text of a request is reduced *)
(* to what the handler does with it.  dial_tcp and resolve are used by     *)
(* what they promise: an open leg, or one of two errors.                   *)
(***************************************************************************)
EXTENDS Integers, FiniteSets, Sequences

CONSTANTS
  Kinds,     \* the listeners to look at: "socks", "http", "ltcp", "rtcp"
  MaxConn,   \* bound on the connections ever accepted
  Talkers,   \* the connections whose ends send data or leave by themselves
  MaxUp,     \* bound on the chunks, or datagrams, sent up
  MaxDown    \* bound on the chunks sent down

ASSUME KindsAssumption == Kinds \subseteq {"socks", "http", "ltcp", "rtcp"}
ASSUME MaxConnAssumption == MaxConn \in Nat
ASSUME MaxUpAssumption == MaxUp \in Nat
ASSUME MaxDownAssumption == MaxDown \in Nat

Conns == 1..MaxConn
Dirs == {"up", "down"}
MaxChunk(d) == IF d = "up" THEN MaxUp ELSE MaxDown
Chunks == 0..(MaxUp + MaxDown)
Opposite(d) == IF d = "up" THEN "down" ELSE "up"
Forwards == {"ltcp", "rtcp"}

VARIABLES
  kind,           \* which listener it is
  lpc,            \* control state of its task
  listed,         \* its stats entry is in the registry
  active, total,  \* the gauges of that entry
  bytes,          \* its rx and tx counters, in chunks
  sent,           \* the stop that was sent: "join", by a call that then waits for
                  \* the listener, "clear", by one that does not, "no" for none
  senders,        \* who keeps the sending half of the stop channel
  sig,            \* receivers that hold the stop
  pc,             \* control state of each connection task
  req,            \* the request it serves
  made, seen,     \* chunks sent, and taken from the socket, each way
  buf,            \* chunks taken and not yet written
  wr,             \* a write_all of the first of them has begun
  out,            \* chunks that have begun to arrive at the other side
  fin,            \* the side sending this way has shut down its half
  dead,           \* the side sending this way is gone
  rt              \* the relay task of a UDP association
listenVars == <<lpc, listed>>
statVars == <<active, total, bytes>>
stopVars == <<sent, senders, sig>>
copyVars == <<seen, buf, wr, out>>
endVars  == <<made, fin, dead>>
vars == <<kind, listenVars, statVars, stopVars, pc, req,
          copyVars, endVars, rt>>

Listener == 0
Engine == -1
Open == {c \in Conns : pc[c] \notin {"idle", "ended"}}

Init ==
  /\ kind \in Kinds
  /\ lpc = "bind" /\ listed = (kind \in Forwards)
  /\ active = 0 /\ total = 0 /\ bytes = [rx |-> 0, tx |-> 0]
  /\ sent = "no" /\ senders = {Engine, Listener} /\ sig = {}
  /\ pc = [c \in Conns |-> "idle"] /\ req = [c \in Conns |-> "none"]
  /\ rt = [c \in Conns |-> "none"]
  /\ made = [x \in Conns \X Dirs |-> 0] /\ seen = [x \in Conns \X Dirs |-> 0]
  /\ buf = [x \in Conns \X Dirs |-> <<>>] /\ out = [x \in Conns \X Dirs |-> <<>>]
  /\ wr = [x \in Conns \X Dirs |-> FALSE]
  /\ fin = [x \in Conns \X Dirs |-> FALSE] /\ dead = [x \in Conns \X Dirs |-> FALSE]

-----------------------------------------------------------------------------
(* Statistics *)

ConnOpened == active' = active + 1 /\ total' = total + 1

\* Clamped at zero.
ConnClosed ==
  /\ active' = IF active > 0 THEN active - 1 ELSE active
  /\ UNCHANGED total

CounterByDirection(d) == IF d = "up" THEN "tx" ELSE "rx" \* mutant

\* TX is what is written to the Yggdrasil leg, which is the dialed side, but
\* for remote-tcp the accepted one.
Counter(d) == IF (d = "up") = (kind # "rtcp") THEN "tx" ELSE "rx"

\* Connection tasks that hold a ConnGuard: a forwarder from its first poll on, a
\* proxy from the relay on.  A UDP association counts in its relay task.
Guarded(c) == pc[c] = "relay" \/ (kind \in Forwards /\ pc[c] = "dial")
Relaying == {c \in Conns : rt[c] \in {"recv", "send", "wait"}}

-----------------------------------------------------------------------------
(* The end of a connection task *)

\* Mutant: the guard is only dropped by a relay that ran.
EndUncounted(c) ==
  /\ pc' = [pc EXCEPT ![c] = "ended"] /\ sig' = sig \ {c}
  /\ req' = [req EXCEPT ![c] = "none"]
  /\ buf' = [x \in Conns \X Dirs |-> IF x[1] = c THEN <<>> ELSE buf[x]]
  /\ IF pc[c] = "relay" THEN ConnClosed ELSE UNCHANGED <<active, total>>

\* The task's locals are dropped: both sockets, the receiver and the guard.
End(c) ==
  /\ pc' = [pc EXCEPT ![c] = "ended"] /\ sig' = sig \ {c}
  /\ req' = [req EXCEPT ![c] = "none"]
  /\ buf' = [x \in Conns \X Dirs |-> IF x[1] = c THEN <<>> ELSE buf[x]]
  /\ IF Guarded(c) THEN ConnClosed ELSE UNCHANGED <<active, total>>

\* An error reply, if there is one for the case, and the handler returns.
Refuse(c) ==
  /\ End(c)
  /\ UNCHANGED <<kind, listenVars, bytes, sent, senders,
                 seen, wr, out, endVars, rt>>

Goto(c, label) == pc' = [pc EXCEPT ![c] = label]

-----------------------------------------------------------------------------
(* The listener task *)

\* Mutant: no entry.
BindUnlisted ==
  /\ lpc = "bind"
  /\ lpc' = "serve"
  /\ UNCHANGED <<kind, listed, statVars, stopVars, pc, req, copyVars, endVars, rt>>

\* Bind (or listen_tcp), the entry, subscribe.
Bind ==
  /\ lpc = "bind"
  /\ lpc' = "serve" /\ listed' = TRUE
  /\ UNCHANGED <<kind, statVars, stopVars, pc, req, copyVars, endVars, rt>>

BindFails ==
  /\ lpc = "bind"
  /\ lpc' = "done" /\ listed' = FALSE /\ senders' = senders \ {Listener}
  /\ UNCHANGED <<kind, statVars, sent, sig, pc, req, copyVars, endVars, rt>>

\* What a connection task does first.
First == CASE kind = "socks" -> "hello" [] kind = "http" -> "head" [] OTHER -> "begin"

\* Connections are numbered as they are accepted.
NextConn(c) == pc[c] = "idle" /\ \A b \in Conns : b < c => pc[b] # "idle"

\* Mutant: the task gets a sender, to subscribe with later.
AcceptWithSender(c) ==
  /\ lpc = "serve" /\ NextConn(c)
  /\ Goto(c, First)
  /\ senders' = senders \cup {c}
  /\ UNCHANGED <<kind, listenVars, statVars, sent, sig, req, copyVars, endVars, rt>>

\* accept(): a receiver subscribed now, and a task.  One accepted after the
\* stop was sent will never receive it.
Accept(c) ==
  /\ lpc = "serve" /\ NextConn(c)
  /\ Goto(c, First)
  /\ UNCHANGED <<kind, listenVars, statVars, stopVars, req, copyVars, endVars, rt>>

\* stop.recv() won the select.
ListenerStops ==
  /\ lpc = "serve" /\ Listener \in sig
  /\ lpc' = "done" /\ listed' = FALSE
  /\ senders' = senders \ {Listener} /\ sig' = sig \ {Listener}
  /\ UNCHANGED <<kind, statVars, sent, pc, req, copyVars, endVars, rt>>

\* join_listener gave up: the stop came before the task had subscribed.  What
\* clear_mappings told in vain to stop nobody joins, and it serves on.
ListenerAborted ==
  /\ sent = "join" /\ lpc # "done" /\ Listener \notin sig
  /\ lpc' = "done" /\ senders' = senders \ {Listener}
  /\ UNCHANGED <<kind, listed, statVars, sent, sig, pc, req, copyVars,
                 endVars, rt>>

-----------------------------------------------------------------------------
(* SOCKS5: handle_client *)

\* Version and methods.  EOF, an error or another version end it without a word.
Hello(c) ==
  /\ pc[c] = "hello"
  /\ \/ Refuse(c)
     \/ /\ ~dead[<<c, "up">>]
        /\ Goto(c, "request")
        /\ UNCHANGED <<kind, listenVars, statVars, stopVars, req,
                       copyVars, endVars, rt>>

\* The request: refused for its version, length, address type or command, or
\* taken up.
Request(c) ==
  /\ pc[c] = "request"
  /\ \/ Refuse(c)
     \/ /\ \/ req' = [req EXCEPT ![c] = "connect"]
              /\ Goto(c, "dial")
           \/ req' = [req EXCEPT ![c] = "associate"] /\ Goto(c, "reply")
        /\ UNCHANGED <<kind, listenVars, statVars, stopVars,
                       copyVars, endVars, rt>>

-----------------------------------------------------------------------------
(* HTTP: handle_client *)

\* Chunks a..b.
Numbers(a, b) == [i \in 1..(b - a + 1) |-> a + i - 1]

\* rewrite_head: chunk 0 stands for the head of a forwarded request.
RewrittenHead(method) == IF method = "forward" THEN <<0>> ELSE <<>>

\* Mutant: what was read behind the head is forgotten.
ExtraLost(c, method, n) == RewrittenHead(method)

\* What goes to the dialed side before the relay: the rewritten head of a
\* forwarded request, and the n chunks read_head found behind the head.
Extra(c, method, n) ==
  RewrittenHead(method) \o Numbers(seen[<<c, "up">>] + 1, seen[<<c, "up">>] + n)

\* read_head and parse_request.  EOF, a head of more than MAX_HEAD_BYTES and a
\* bad CONNECT authority end it without a word.
ReadHead(c) ==
  /\ pc[c] = "head"
  /\ \/ Refuse(c)
     \/ \E method \in {"connect", "forward"}, n \in 0..(made[<<c, "up">>] - seen[<<c, "up">>]) :
          /\ req' = [req EXCEPT ![c] = method]
          /\ buf' = [buf EXCEPT ![<<c, "up">>] = Extra(c, method, n)]
          /\ seen' = [seen EXCEPT ![<<c, "up">>] = @ + n]
          /\ Goto(c, "dial")
          /\ UNCHANGED <<kind, listenVars, statVars, stopVars,
                         wr, out, endVars, rt>>

-----------------------------------------------------------------------------
(* Dial and reply *)

\* A forwarder's connection task begins with its guard.
ForwardBegins(c) ==
  /\ pc[c] = "begin"
  /\ Goto(c, "dial") /\ ConnOpened
  /\ UNCHANGED <<kind, listenVars, bytes, stopVars, req, copyVars, endVars, rt>>

\* resolve, if there is a name, and dial_tcp: two awaits that end alike.  For
\* remote-tcp an OS connect with a timeout.
Dial(c) ==
  /\ pc[c] = "dial"
  /\ \/ Refuse(c)
     \/ /\ Goto(c, IF kind \in Forwards THEN "relay"
                   ELSE IF req[c] = "connect" THEN "reply" ELSE "flush")
        /\ UNCHANGED <<kind, listenVars, statVars, stopVars, req,
                       copyVars, endVars, rt>>

\* "Connected", or the address of the association's relay socket.  If it cannot
\* be written, or that socket not be bound, the handler returns.  The relay task
\* of an association is spawned.
ReplySuccess(c) ==
  /\ pc[c] = "reply"
  /\ \/ (dead[<<c, "up">>] \/ req[c] = "associate") /\ Refuse(c)
     \/ /\ ~dead[<<c, "up">>]
        /\ Goto(c, IF req[c] = "associate" THEN "control" ELSE "flush")
        /\ rt' = [rt EXCEPT ![c] = IF req[c] = "associate" THEN "spawned" ELSE @]
        /\ UNCHANGED <<kind, listenVars, statVars, stopVars, req, copyVars, endVars>>

-----------------------------------------------------------------------------
(* The relay *)

\* The head and the extra bytes are through: the guard, then the select.
StartRelay(c) ==
  /\ pc[c] = "flush" /\ buf[<<c, "up">>] = <<>>
  /\ Goto(c, "relay") /\ ConnOpened
  /\ UNCHANGED <<kind, listenVars, bytes, stopVars, req, copyVars, endVars, rt>>

\* counting_copy: a read.
CopyRead(c, d) ==
  /\ pc[c] = "relay" /\ buf[<<c, d>>] = <<>> /\ seen[<<c, d>>] < made[<<c, d>>]
  /\ seen' = [seen EXCEPT ![<<c, d>>] = @ + 1]
  /\ buf' = [buf EXCEPT ![<<c, d>>] = <<seen[<<c, d>>] + 1>>]
  /\ UNCHANGED <<kind, listenVars, statVars, stopVars, pc, req, wr, out,
                 endVars, rt>>

Writing(c, d) ==
  /\ pc[c] = "relay" \/ (pc[c] = "flush" /\ d = "up")
  /\ buf[<<c, d>>] # <<>>

\* write_all: the first bytes of the chunk leave.
WriteBegins(c, d) ==
  /\ Writing(c, d) /\ ~wr[<<c, d>>] /\ ~dead[<<c, Opposite(d)>>]
  /\ wr' = [wr EXCEPT ![<<c, d>>] = TRUE]
  /\ out' = [out EXCEPT ![<<c, d>>] = Append(@, buf[<<c, d>>][1])]
  /\ UNCHANGED <<kind, listenVars, statVars, stopVars, pc, req, seen, buf,
                 endVars, rt>>

\* The last ones have left: the chunk is counted.
WriteEnds(c, d) ==
  /\ Writing(c, d) /\ wr[<<c, d>>]
  /\ wr' = [wr EXCEPT ![<<c, d>>] = FALSE]
  /\ buf' = [buf EXCEPT ![<<c, d>>] = Tail(@)]
  /\ bytes' = [bytes EXCEPT ![Counter(d)] = @ + 1]
  /\ UNCHANGED <<kind, listenVars, active, total, stopVars, pc, req,
                 seen, out, endVars, rt>>

\* The operating system may report the reset of a connection before what is
\* left to read; the netstack gives out its receive buffer first.
MayLose(d) == (d = "up") = (kind # "rtcp")

CopyOverEarly(c, d) == \* mutant: EOF is seen before the last chunk is taken
  \/ buf[<<c, d>>] = <<>> /\ fin[<<c, d>>]
  \/ Writing(c, d) /\ dead[<<c, Opposite(d)>>]

\* A direction is over: EOF, a read error or a write error.
CopyOver(c, d) ==
  \/ buf[<<c, d>>] = <<>> /\ fin[<<c, d>>] /\ seen[<<c, d>>] = made[<<c, d>>]
  \/ buf[<<c, d>>] = <<>> /\ dead[<<c, d>>] /\ MayLose(d)
  \/ Writing(c, d) /\ dead[<<c, Opposite(d)>>]

\* The select ends with the first direction that is over.
RelayEnds(c) ==
  /\ pc[c] = "relay" /\ \E d \in Dirs : CopyOver(c, d)
  /\ End(c)
  /\ UNCHANGED <<kind, listenVars, bytes, sent, senders,
                 seen, wr, out, endVars, rt>>

\* The head or the extra bytes cannot be written: the handler returns.
FlushFails(c) ==
  /\ Writing(c, "up") /\ pc[c] = "flush" /\ dead[<<c, "down">>]
  /\ End(c)
  /\ UNCHANGED <<kind, listenVars, bytes, sent, senders,
                 seen, wr, out, endVars, rt>>

\* The stop, or the end of the last sender, which recv() reports as an error.
RelayStopped(c) ==
  /\ pc[c] = "relay" /\ (c \in sig \/ senders = {})
  /\ End(c)
  /\ UNCHANGED <<kind, listenVars, bytes, sent, senders,
                 seen, wr, out, endVars, rt>>

-----------------------------------------------------------------------------
(* UDP associations *)

\* The relay task's first poll takes the guard.
AssocBegins(c) ==
  /\ rt[c] = "spawned" /\ pc[c] = "control"
  /\ rt' = [rt EXCEPT ![c] = "recv"] /\ ConnOpened
  /\ UNCHANGED <<kind, listenVars, bytes, stopVars, pc, req, copyVars, endVars>>

\* A datagram with a header it can use, and a netstack socket for it.  Any
\* other datagram, or a failing open_udp, leaves everything as it is.
AssocReceives(c) ==
  /\ c \in Talkers /\ rt[c] = "recv" /\ pc[c] = "control" /\ seen[<<c, "up">>] < MaxUp
  /\ rt' = [rt EXCEPT ![c] = "send"]
  /\ UNCHANGED <<kind, listenVars, statVars, stopVars, pc, req,
                 copyVars, endVars>>

\* send_to through the netstack, counted, or failed.
AssocSends(c) ==
  /\ rt[c] = "send" /\ pc[c] = "control"
  /\ \/ /\ rt' = [rt EXCEPT ![c] = "wait"]
        /\ seen' = [seen EXCEPT ![<<c, "up">>] = @ + 1]
        /\ out' = [out EXCEPT ![<<c, "up">>] = Append(@, seen[<<c, "up">>] + 1)]
        /\ bytes' = [bytes EXCEPT !.tx = @ + 1]
     \/ rt' = [rt EXCEPT ![c] = "recv"] /\ UNCHANGED <<seen, out, bytes>>
  /\ UNCHANGED <<kind, listenVars, active, total, stopVars, pc, req,
                 buf, wr, endVars>>

\* A reply, counted and passed on; or an error, or 5 seconds.  Either way the
\* netstack socket is dropped.
AssocReplies(c) ==
  /\ rt[c] = "wait" /\ pc[c] = "control"
  /\ \/ /\ seen' = [seen EXCEPT ![<<c, "down">>] = @ + 1]
        /\ out' = [out EXCEPT ![<<c, "down">>] = Append(@, seen[<<c, "down">>] + 1)]
        /\ bytes' = [bytes EXCEPT !.rx = @ + 1]
     \/ UNCHANGED <<seen, out, bytes>>
  /\ rt' = [rt EXCEPT ![c] = "recv"]
  /\ UNCHANGED <<kind, listenVars, active, total, stopVars, pc, req,
                 buf, wr, endVars>>

\* recv_from of the relay socket failed: the relay task ends.
AssocBreaks(c) ==
  /\ rt[c] = "recv" /\ pc[c] = "control"
  /\ rt' = [rt EXCEPT ![c] = "over"] /\ ConnClosed
  /\ UNCHANGED <<kind, listenVars, bytes, stopVars, pc, req, copyVars, endVars>>

\* read() on the control connection returned, with EOF, an error or a byte:
\* the relay task is aborted.
ControlEnds(c) ==
  /\ pc[c] = "control"
  /\ End(c)
  /\ UNCHANGED <<kind, listenVars, bytes, sent, senders,
                 seen, wr, out, endVars, rt>>

\* Mutant: the handler returns without abort().
AssocDetached(c) == FALSE /\ UNCHANGED vars

\* The abort takes effect: netstack socket and guard are dropped.
AssocAborted(c) ==
  /\ pc[c] = "ended" /\ rt[c] \notin {"none", "over"}
  /\ rt' = [rt EXCEPT ![c] = "over"]
  /\ IF c \in Relaying THEN ConnClosed ELSE UNCHANGED <<active, total>>
  /\ UNCHANGED <<kind, listenVars, bytes, stopVars, pc, req, copyVars, endVars>>

-----------------------------------------------------------------------------
(* The ends of a connection, and the engine *)

\* Where a side of connection c can act: the dialed one once there is a leg.
Present(c, d) ==
  IF d = "up" THEN c \in Open
  ELSE pc[c] \in {"flush", "relay"} \/ (pc[c] = "reply" /\ req[c] = "connect")

Produce(c, d) ==
  /\ c \in Talkers /\ Present(c, d) /\ ~fin[<<c, d>>] /\ made[<<c, d>>] < MaxChunk(d)
  /\ req[c] # "associate"
  /\ made' = [made EXCEPT ![<<c, d>>] = @ + 1]
  /\ UNCHANGED <<kind, listenVars, statVars, stopVars, pc, req, copyVars,
                 fin, dead, rt>>

\* A half-close, or the end of the side.
Leave(c, d) ==
  /\ c \in Talkers /\ Present(c, d) /\ ~dead[<<c, d>>]
  /\ \E gone \in BOOLEAN :
       /\ gone \/ ~fin[<<c, d>>]
       /\ dead' = [dead EXCEPT ![<<c, d>>] = gone]
  /\ fin' = [fin EXCEPT ![<<c, d>>] = TRUE]
  /\ UNCHANGED <<kind, listenVars, statVars, stopVars, pc, req, copyVars,
                 made, rt>>

\* stop_tx.send: it reaches who has subscribed.  stop() and remove_* join the
\* listener; clear_mappings, which knows only the forwarders, does not.
SendStop ==
  /\ sent = "no"
  /\ sent' \in {"join"} \cup (IF kind \in Forwards THEN {"clear"} ELSE {})
  /\ sig' = Open \cup (IF lpc = "serve" THEN {Listener} ELSE {})
  /\ UNCHANGED <<kind, listenVars, statVars, senders, pc, req, copyVars,
                 endVars, rt>>

\* The RunningListener, or the NodeState, is dropped.
DropSender ==
  /\ sent # "no" /\ Engine \in senders
  /\ senders' = senders \ {Engine}
  /\ UNCHANGED <<kind, listenVars, statVars, sent, sig, pc, req, copyVars,
                 endVars, rt>>

-----------------------------------------------------------------------------
Handshake(c) == ForwardBegins(c) \/ Hello(c) \/ Request(c) \/ ReadHead(c) \/ Dial(c)
                  \/ ReplySuccess(c)
Copy(c) == \E d \in Dirs : CopyRead(c, d) \/ WriteBegins(c, d) \/ WriteEnds(c, d)
Assoc(c) == AssocBegins(c) \/ AssocReceives(c) \/ AssocSends(c) \/ AssocReplies(c)
              \/ AssocBreaks(c)

Next ==
  \/ Bind \/ BindFails \/ ListenerStops \/ ListenerAborted \/ SendStop \/ DropSender
  \/ \E c \in Conns :
       \/ Accept(c) \/ Handshake(c) \/ StartRelay(c) \/ Copy(c)
       \/ RelayEnds(c) \/ FlushFails(c) \/ RelayStopped(c)
       \/ Assoc(c) \/ ControlEnds(c) \/ AssocAborted(c)
       \/ \E d \in Dirs : Produce(c, d) \/ Leave(c, d)

Spec == Init /\ [][Next]_vars

\* The steps a task that is told to end takes when it is polled, and those of
\* the engine that told it: each can be taken once, and waits until it is.
Closing == ListenerStops \/ ListenerAborted \/ DropSender
Ending(c) == RelayStopped(c) \/ AssocAborted(c) \/ (fin[<<c, "up">>] /\ ControlEnds(c))

\* Ready tasks are polled and the joins of the engine, where it joins, end.
\* Nothing is assumed of a handshake: a client may say nothing, a dial may pend.
Fairness == WF_vars(Closing) /\ \A c \in Conns : WF_vars(Ending(c))

FairSpec == Spec /\ Fairness

-----------------------------------------------------------------------------
(* Properties *)

\* The types of a listener's shared state and of its connections; a listener
\* that serves is listed, and a stop is held by tasks that are alive.
TypeOK ==
  /\ kind \in Kinds /\ lpc \in {"bind", "serve", "done"}
  /\ listed \in BOOLEAN /\ (lpc = "serve" => listed)
  /\ active \in Nat /\ total \in Nat /\ bytes \in [rx : Nat, tx : Nat]
  /\ sent \in {"no", "join", "clear"} /\ senders \subseteq Conns \cup {Engine, Listener}
  /\ sig \subseteq Open \cup {Listener}
  /\ pc \in [Conns -> {"idle", "hello", "request", "head", "begin", "dial",
                       "reply", "flush", "relay", "control", "ended"}]
  /\ req \in [Conns -> {"none", "connect", "forward", "associate"}]
  /\ made \in [Conns \X Dirs -> Chunks] /\ seen \in [Conns \X Dirs -> Chunks]
  /\ buf \in [Conns \X Dirs -> Seq(Chunks)]
  /\ out \in [Conns \X Dirs -> Seq(Chunks)]
  /\ wr \in [Conns \X Dirs -> BOOLEAN]
  /\ fin \in [Conns \X Dirs -> BOOLEAN] /\ dead \in [Conns \X Dirs -> BOOLEAN]
  /\ rt \in [Conns -> {"none", "spawned", "recv", "send", "wait", "over"}]

\* The active gauge is the number of connections being served, however they
\* end: a relay that stops, a dial that fails, an association that is aborted,
\* even before its first poll.  ConnGuard never makes conn_closed clamp.
GaugeExact ==
  /\ active = Cardinality({c \in Conns : Guarded(c)}) + Cardinality(Relaying)
  /\ active <= total

\* The way that leads to the Yggdrasil leg is up, but down for remote-tcp.
NetworkLeg(d) == IF kind = "rtcp" THEN Opposite(d) ELSE d

\* "RX = bytes read from the network, TX = bytes written to it" (stats.rs): the
\* counters agree with what has crossed the Yggdrasil leg of all connections,
\* but for the chunk each direction is writing or was cut off in.
TrafficCounted ==
  \A d \in Dirs :
    LET arrived == {x \in Conns \X (1..MaxUp + MaxDown + 1) : x[2] \in DOMAIN out[<<x[1], d>>]}
        open    == {c \in Conns : wr[<<c, d>>]}
    IN (IF NetworkLeg(d) = "up" THEN bytes.tx ELSE bytes.rx)
         = Cardinality(arrived) - Cardinality(open)

\* Chunks taken and not yet begun to be written.
Waiting(c, d) == IF wr[<<c, d>>] THEN Tail(buf[<<c, d>>]) ELSE buf[<<c, d>>]

\* Nothing is lost, repeated or reordered on the way through: what arrived and
\* what waits is the head, if it is rewritten, and all that was taken from the
\* other side, from its first byte on, the bytes read_head found behind the
\* head included ("belong to the tunnel").
StreamInOrder ==
  \A c \in Open, d \in Dirs :
    LET through == out[<<c, d>>] \o Waiting(c, d)
        head    == IF req[c] = "forward" /\ d = "up" THEN 1 ELSE 0
    IN through = [i \in 1..(head + seen[<<c, d>>]) |-> i - head]

\* "The client connection closes when the response completes" (http_proxy.rs),
\* and so for every relay: unless it is stopped, or its client shuts down its
\* own half, or the dialed side is reset, all that side sent has arrived.
ResponseWhole ==
  \A c \in Conns :
    pc[c] = "ended" /\ sent = "no" /\ ~fin[<<c, "up">>] /\ ~dead[<<c, "down">>] =>
      Len(out[<<c, "down">>]) >= made[<<c, "down">>]

\* The stop takes the listener down: a call waits for it, or it had subscribed
\* before clear_mappings, which waits for nobody, sent the message.
StopTakes ==
  \/ sent = "join"
  \/ sent = "clear" /\ (Listener \in sig \/ lpc = "done")

\* A stop that takes the listener down ends its every relay, also of a
\* connection accepted so late that the message had already been sent: the
\* channel closes with its last sender.  (A connection relays once, so that no
\* relay lasts if again and again there is none.)
StopEndsRelays == []<>(StopTakes => \A c \in Conns : pc[c] # "relay")

\* A UDP association ends with its control connection, and gives back its
\* netstack socket and its place in the gauge.  (No stop ends it; and only a
\* client of Talkers ever leaves.)
AssocEnds ==
  []<>(\A c \in Talkers : fin[<<c, "up">>] => rt[c] \in {"none", "over"})
=============================================================================
