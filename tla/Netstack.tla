------------------------------ MODULE Netstack ------------------------------
(***************************************************************************)
(* The user-space TCP side of YggNetstack (netstack/mod.rs): the smoltcp   *)
(* SocketSet shared by every task behind one mutex, the poll loop that     *)
(* owns the network, dial_tcp with its queue of pending connects,          *)
(* listen_tcp with its pool of listening sockets and its accept queue,     *)
(* TcpStream and its Drop, and shutdown.                                   *)
(*                                                                         *)
(* One action is one critical section of the mutex, or one step between    *)
(* two awaits.  SocketSet hands out slot numbers, reuses the slot of a     *)
(* removed socket, and panics when a removed slot is used, so the          *)
(* properties are about who holds which slot.  Time is reduced to "the     *)
(* deadline of this socket has passed" (old), data to "unread bytes are    *)
(* there" (rx), and the TCP states nobody tells apart are merged:          *)
(* FinWait is FIN-WAIT-1/2, Closing is CLOSING/LAST-ACK.                   *)
(***************************************************************************)
EXTENDS Integers, FiniteSets, Sequences

CONSTANTS
  Handles,      \* slots of the SocketSet (bound: a real set grows)
  Dialers,      \* tasks calling dial_tcp
  Acceptors,    \* tasks holding a TcpListener
  Ports,        \* ports given to listen_tcp, 0 for the one smoltcp rejects
  MaxListen,    \* bound on the length of the listeners vector
  LISTEN_POOL,  \* sockets kept in LISTEN per listener
  MaxBatch      \* bound on the sockets one batch of packets changes

ASSUME HandlesAssumption == Handles \subseteq Nat /\ IsFiniteSet(Handles)
ASSUME PortsAssumption == Ports \subseteq Nat
ASSUME MaxListenAssumption == MaxListen \in Nat
ASSUME ListenPoolAssumption == LISTEN_POOL \in Nat \ {0}
ASSUME MaxBatchAssumption == MaxBatch \in Nat

VARIABLES
  sock,       \* SocketSet: the TCP state of each slot, or Free
  rx,         \* slots with unread received bytes and a TcpStream to read them
  pending,    \* slots of the queued PendingConnect commands
  port,       \* listeners[e].listen_ep.port, NoPort past the vector's end
  pool,       \* listeners[e].listen_pool
  since,      \* pool sockets whose syn_since is Some
  queue,      \* listeners[e].accept_queue
  closing,    \* sockets of dropped streams
  old,        \* sockets of since or closing whose deadline has passed
  closed,     \* shutdown() was called
  wakers,     \* slots whose task sleeps in NetstackState.wakers
  streams,    \* slots held by TcpStreams that dial_tcp or accept returned
  dpc, dh,    \* each dialer's control state and slot
  apc, aport, \* each acceptor's control state and TcpListener port
  areg,       \* the entry whose accept_wakers holds it, 0 for none
  poller      \* control state of the poll loop

sockVars == <<sock, rx, old>>
lisVars  == <<port, pool, since, queue>>
dialVars == <<dpc, dh>>
accVars  == <<apc, aport, areg>>
vars == <<sockVars, lisVars, dialVars, accVars, poller,
          pending, closing, closed, wakers, streams>>

-----------------------------------------------------------------------------
Free     == "Free"
NoPort   == -1
NoHandle == -1
Entries  == 1..MaxListen

SockStates == {Free, "Closed", "Listen", "SynSent", "SynReceived",
               "Established", "CloseWait", "FinWait", "Closing", "TimeWait"}

\* No call of dial_tcp in progress; refused if the last one said so.
DialEnded  == {"idle", "refused"}
DialActive == {"created", "queued", "connected", "failed", "broken",
               "connecting"}

Pooled == UNION {pool[e] : e \in Entries}
Queued == UNION {{queue[e][i] : i \in DOMAIN queue[e]} : e \in Entries}
Live(e) == port[e] # NoPort

\* smoltcp's Socket::may_send and may_recv.
MaySend(s) == s \in {"Established", "CloseWait"}
MayRecvIfClosed(s, unread) == s \in {"Established", "FinWait", "Closed"} \/ unread \* mutant
MayRecv(s, unread) == s \in {"Established", "FinWait"} \/ unread

\* smoltcp's Socket::close.
Close(s) ==
  CASE s \in {"Listen", "SynSent"}          -> "Closed"
    [] s \in {"SynReceived", "Established"} -> "FinWait"
    [] s = "CloseWait"                      -> "Closing"
    [] OTHER                                -> s

\* SocketSet::add: n new sockets take the first empty slots.
Slots(n, empty) ==
  {S \in SUBSET empty : /\ Cardinality(S) = n
                        /\ \A x \in S, y \in empty \ S : x < y}

EmptyOrClosed == {h \in Handles : sock[h] \in {Free, "Closed"}} \* mutant
Empty == {h \in Handles : sock[h] = Free}

\* Where the segments of one batch can take a socket.  A peer answers only
\* what has left the stack, so one batch never completes a handshake whose
\* SYN or SYN-ACK is sent by the same batch.
Reach(s) ==
  CASE s = "Listen"      -> {"Listen", "SynReceived"}
    [] s = "SynSent"     -> {"SynSent", "SynReceived", "Established", "Closed"}
    [] s = "SynReceived" -> {"SynReceived", "Listen", "Established",
                             "CloseWait", "Closed"}
    [] s = "Established" -> {"Established", "CloseWait", "Closed"}
    [] s = "CloseWait"   -> {"CloseWait", "Closed"}
    [] s = "FinWait"     -> {"FinWait", "Closing", "TimeWait", "Closed"}
    [] s = "Closing"     -> {"Closing", "TimeWait", "Closed"}
    [] s = "TimeWait"    -> {"TimeWait", "Closed"}
    [] OTHER             -> {s}

\* States in which a batch can bring new data.
CanReceive(s) == s \in {"SynReceived", "Established", "FinWait"}

\* Slots some reader holds or will be handed.
Readers == Pooled \cup Queued \cup streams
             \cup {dh[d] : d \in {x \in Dialers : dpc[x] \in DialActive}}

-----------------------------------------------------------------------------
Init ==
  /\ sock = [h \in Handles |-> Free] /\ rx = {} /\ old = {}
  /\ port = [e \in Entries |-> NoPort]
  /\ pool = [e \in Entries |-> {}] /\ since = {}
  /\ queue = [e \in Entries |-> <<>>]
  /\ dpc = [d \in Dialers |-> "idle"] /\ dh = [d \in Dialers |-> NoHandle]
  /\ apc = [a \in Acceptors |-> "idle"]
  /\ aport = [a \in Acceptors |-> NoPort] /\ areg = [a \in Acceptors |-> 0]
  /\ poller = "check"
  /\ pending = {} /\ closing = {} /\ closed = FALSE
  /\ wakers = {} /\ streams = {}

-----------------------------------------------------------------------------
(* dial_tcp *)

\* Mutants of DropStream: remove at once what is also queued for closing, and
\* forget to queue it.
DropStreamRemoves(h) ==
  /\ sock' = [sock EXCEPT ![h] = Free]
  /\ closing' = closing \cup {h}
  /\ rx' = rx \ {h} /\ wakers' = wakers \ {h}
DropStreamForgets(h) ==
  /\ sock' = [sock EXCEPT ![h] = Close(@)]
  /\ rx' = rx \ {h} /\ wakers' = wakers \ {h}
  /\ UNCHANGED closing

\* The TcpStream of slot h is dropped: FIN, and the poll loop reaps it later.
DropStream(h) ==
  /\ sock' = [sock EXCEPT ![h] = Close(@)]
  /\ closing' = closing \cup {h}
  /\ rx' = rx \ {h} /\ wakers' = wakers \ {h}

\* Mutant: the slot is given up, the call goes on.
DialEndGoesOn(d, outcome) ==
  /\ dh' = [dh EXCEPT ![d] = NoHandle]
  /\ UNCHANGED dpc

DialEnd(d, outcome) ==
  /\ dpc' = [dpc EXCEPT ![d] = outcome]
  /\ dh' = [dh EXCEPT ![d] = NoHandle]

\* First critical section: a new socket.
DialCreate(d) ==
  /\ dpc[d] \in DialEnded
  /\ \E S \in Slots(1, Empty), h \in Handles :
       /\ S = {h}
       /\ sock' = [sock EXCEPT ![h] = "Closed"]
       /\ dh' = [dh EXCEPT ![d] = h]
  /\ dpc' = [dpc EXCEPT ![d] = "created"]
  /\ UNCHANGED <<rx, old, lisVars, accVars, poller,
                 pending, closing, closed, wakers, streams>>

\* Second critical section: the PendingConnect is queued, closed or not.
DialQueue(d) ==
  /\ dpc[d] = "created"
  /\ pending' = pending \cup {dh[d]}
  /\ dpc' = [dpc EXCEPT ![d] = "queued"]
  /\ UNCHANGED <<sockVars, lisVars, dh, accVars, poller,
                 closing, closed, wakers, streams>>

\* The oneshot delivered Ok: from here the TcpStream owns the slot.
DialConnected(d) ==
  /\ dpc[d] = "connected"
  /\ dpc' = [dpc EXCEPT ![d] = "connecting"]
  /\ UNCHANGED <<sockVars, lisVars, dh, accVars, poller,
                 pending, closing, closed, wakers, streams>>

\* The oneshot delivered Err, or its sender was dropped: return without a
\* TcpStream, so nothing ever removes the socket.
DialFailed(d) ==
  /\ \/ dpc[d] = "failed" /\ DialEnd(d, "refused")
     \/ dpc[d] = "broken" /\ DialEnd(d, "idle")
  /\ UNCHANGED <<sockVars, lisVars, accVars, poller,
                 pending, closing, closed, wakers, streams>>

\* The states wait_connected reports as ConnectionRefused.
RefusedStates == {"Closed", "TimeWait", "CloseWait"}

\* One poll of wait_connected: the stream is returned, or dropped with an
\* error, or the task sleeps until the next poll of the netstack.
WaitConnected(d) ==
  /\ dpc[d] = "connecting" /\ dh[d] \notin wakers
  /\ LET h == dh[d] IN
     \/ /\ sock[h] = "Established"
        /\ streams' = streams \cup {h}
        /\ DialEnd(d, "idle")
        /\ UNCHANGED <<sock, rx, closing, wakers>>
     \/ /\ sock[h] \in RefusedStates
        /\ DropStream(h)
        /\ DialEnd(d, "refused")
        /\ UNCHANGED streams
     \/ /\ sock[h] \notin RefusedStates \cup {"Established"}
        /\ wakers' = wakers \cup {h}
        /\ UNCHANGED <<sock, rx, closing, streams, dialVars>>
  /\ UNCHANGED <<old, lisVars, accVars, poller, pending, closed>>

\* CONNECT_TIMEOUT passed first: the stream is dropped.
ConnectTimeout(d) ==
  /\ dpc[d] = "connecting"
  /\ DropStream(dh[d])
  /\ DialEnd(d, "idle")
  /\ UNCHANGED <<old, lisVars, accVars, poller, pending, closed, streams>>

\* The caller drops the dial_tcp future at one of its awaits.  Only the last
\* one has a TcpStream to drop; a queued command stays queued.
CancelDial(d) ==
  /\ \/ /\ dpc[d] \in {"queued", "connected", "failed", "broken"}
        /\ UNCHANGED <<sock, rx, closing, wakers>>
     \/ /\ dpc[d] = "connecting"
        /\ DropStream(dh[d])
  /\ DialEnd(d, "idle")
  /\ UNCHANGED <<old, lisVars, accVars, poller, pending, closed, streams>>

-----------------------------------------------------------------------------
(* TcpStream *)

\* poll_read: take the bytes, or report EOF (nothing changes), or sleep.
Read(h) ==
  /\ h \in streams \ wakers
  /\ \/ h \in rx /\ rx' = rx \ {h} /\ UNCHANGED wakers
     \/ /\ ~MayRecv(sock[h], h \in rx)
        /\ UNCHANGED <<rx, wakers>>
     \/ /\ h \notin rx /\ MayRecv(sock[h], FALSE)
        /\ wakers' = wakers \cup {h} /\ UNCHANGED rx
  /\ UNCHANGED <<sock, old, lisVars, dialVars, accVars, poller,
                 pending, closing, closed, streams>>

\* poll_write with no room in the send buffer: sleep.  (With room, or once the
\* socket may not send, it returns at once and no owner or sleeper changes.)
Write(h) ==
  /\ h \in streams /\ MaySend(sock[h])
  /\ wakers' = wakers \cup {h}
  /\ UNCHANGED <<sockVars, lisVars, dialVars, accVars, poller,
                 pending, closing, closed, streams>>

\* poll_shutdown: half-close.
ShutdownStream(h) ==
  /\ h \in streams
  /\ sock' = [sock EXCEPT ![h] = Close(@)]
  /\ UNCHANGED <<rx, old, lisVars, dialVars, accVars, poller,
                 pending, closing, closed, wakers, streams>>

\* Drop of a stream a caller held.
DropOpen(h) ==
  /\ h \in streams
  /\ DropStream(h)
  /\ streams' = streams \ {h}
  /\ UNCHANGED <<old, lisVars, dialVars, accVars, poller, pending, closed>>

-----------------------------------------------------------------------------
(* listen_tcp and TcpListener *)

\* The first entry of the vector past its end.
NextEntry(e) == ~Live(e) /\ \A f \in Entries : f < e => Live(f)

\* A pool of LISTEN_POOL sockets and an entry for it.  Nothing checks for an
\* earlier entry with the same port.
ListenTcp(a, p) ==
  /\ apc[a] = "idle" /\ p # 0
  /\ \E e \in Entries, S \in Slots(LISTEN_POOL, Empty) :
       /\ NextEntry(e)
       /\ sock' = [h \in Handles |-> IF h \in S THEN "Listen" ELSE sock[h]]
       /\ pool' = [pool EXCEPT ![e] = S]
       /\ port' = [port EXCEPT ![e] = p]
  /\ apc' = [apc EXCEPT ![a] = "accepting"]
  /\ aport' = [aport EXCEPT ![a] = p]
  /\ UNCHANGED <<rx, old, since, queue, dialVars, areg, poller,
                 pending, closing, closed, wakers, streams>>

\* listen() rejects port 0 and the early return leaves its socket behind.
ListenTcpFails(a, p) ==
  /\ apc[a] = "idle" /\ p = 0
  /\ \E S \in Slots(1, Empty) :
       sock' = [h \in Handles |-> IF h \in S THEN "Closed" ELSE sock[h]]
  /\ UNCHANGED <<rx, old, lisVars, dialVars, accVars, poller,
                 pending, closing, closed, wakers, streams>>

\* The entry accept() serves: the first one with the listener's port.
Position(a, e) ==
  /\ port[e] = aport[a]
  /\ \A f \in Entries : f < e => port[f] # aport[a]

\* One poll of accept(): the front of the queue becomes a TcpStream, or the
\* task sleeps in the entry's accept_wakers, or, with no entry, nowhere.
Accept(a) ==
  /\ apc[a] = "accepting"
  /\ \/ \E e \in Entries :
          /\ Position(a, e) /\ queue[e] # <<>>
          /\ streams' = streams \cup {Head(queue[e])}
          /\ queue' = [queue EXCEPT ![e] = Tail(@)]
          /\ UNCHANGED <<apc, areg>>
     \/ \E e \in Entries :
          /\ Position(a, e) /\ queue[e] = <<>>
          /\ apc' = [apc EXCEPT ![a] = "blocked"]
          /\ areg' = [areg EXCEPT ![a] = e]
          /\ UNCHANGED <<queue, streams>>
     \/ /\ \A e \in Entries : port[e] # aport[a]
        /\ apc' = [apc EXCEPT ![a] = "blocked"]
        /\ areg' = [areg EXCEPT ![a] = 0]
        /\ UNCHANGED <<queue, streams>>
  /\ UNCHANGED <<sockVars, port, pool, since, dialVars, aport, poller,
                 pending, closing, closed, wakers>>

\* A TcpListener is dropped.  It has no Drop: its entry stays.
DropListener(a) ==
  /\ apc[a] \in {"accepting", "blocked"}
  /\ apc' = [apc EXCEPT ![a] = "idle"]
  /\ aport' = [aport EXCEPT ![a] = NoPort]
  /\ areg' = [areg EXCEPT ![a] = 0]
  /\ UNCHANGED <<sockVars, lisVars, dialVars, poller,
                 pending, closing, closed, wakers, streams>>

-----------------------------------------------------------------------------
(* The poll loop.  s is the state of the sockets after the batch of packets, *)
(* d the slots with unread data.                                             *)

\* process_connects: connect() succeeds for the commands of ok.
ProcessConnects(ok) ==
  [h \in Handles |-> IF h \in ok THEN "SynSent" ELSE sock[h]]

\* Mutant: only a success is reported.
ConnectResultsOkOnly(ok) ==
  [d \in Dialers |-> IF dpc[d] = "queued" /\ dh[d] \in ok THEN "connected" ELSE dpc[d]]

\* The oneshot results of process_connects.
ConnectResults(ok) ==
  [d \in Dialers |->
     IF dpc[d] = "queued" /\ dh[d] \in pending
     THEN IF dh[d] \in ok THEN "connected" ELSE "failed"
     ELSE dpc[d]]

\* Sockets a batch can change: not those whose SYN leaves with this poll, and
\* in LISTEN only those bound to a port.
Touchable(s1) ==
  {h \in Handles \ pending : s1[h] # Free /\ (s1[h] = "Listen" => h \in Pooled)}

\* Sockets to which a batch can bring data.
NewData(touched, s1, s) ==
  {h \in touched \cap Readers :
     CanReceive(s1[h]) /\ s[h] \notin {"SynReceived", "Listen"}}

\* service_listeners, first pass: handshakes that completed.
Moved(e, s, d) == {h \in pool[e] : MayRecv(s[h], h \in d) /\ MaySend(s[h])}

\* Second pass: what is left and no longer in LISTEN is tracked in syn_since,
\* and aborted once it has been tracked longer than SYN_HANDSHAKE_TIMEOUT.
HalfOpen(e, s, d) == {h \in pool[e] \ Moved(e, s, d) : s[h] # "Listen"}
StuckInSynReceived(e, s, d) == \* mutant
  {h \in HalfOpen(e, s, d) \cap since \cap old : s[h] = "SynReceived"}
Stuck(e, s, d) == HalfOpen(e, s, d) \cap since \cap old

\* Mutant: half-open sockets count as listening.
MissingFromPool(e, s, d) ==
  {i \in 1..LISTEN_POOL : Live(e) /\ i > Cardinality(pool[e] \ Moved(e, s, d))}

\* Third pass: the sockets missing to have LISTEN_POOL of them in LISTEN.
Missing(e, s, d) ==
  {i \in 1..LISTEN_POOL :
     Live(e) /\ i > Cardinality(pool[e] \ (Moved(e, s, d) \cup HalfOpen(e, s, d)))}

ReapedIfClosed(s) == {h \in closing : s[h] = "Closed"} \* mutant: no CLOSE_GRACE

\* reap_closing_sockets.
Reaped(s) == {h \in closing : s[h] = "Closed" \/ h \in old}

\* The orders in which a set of sockets can enter a queue.
Orders(S) ==
  {q \in [1..Cardinality(S) -> S] :
     \A i, j \in 1..Cardinality(S) : q[i] = q[j] => i = j}

\* The accept wakers of an entry are woken when a socket enters its queue.
WokenByFilled(moved) == \* mutant: the queue had to hold something before
  {a \in Acceptors : areg[a] # 0 /\ moved[areg[a]] # {} /\ queue[areg[a]] # <<>>}
WokenBy(moved) == {a \in Acceptors : areg[a] # 0 /\ moved[areg[a]] # {}}

WakeAcceptors(woken) ==
  /\ apc' = [a \in Acceptors |-> IF a \in woken THEN "accepting" ELSE apc[a]]
  /\ areg' = [a \in Acceptors |-> IF a \in woken THEN 0 ELSE areg[a]]

\* service_listeners, then reap_closing_sockets, on the sockets s.
ServiceAndReap(s, d) ==
  LET moved == [e \in Entries |-> Moved(e, s, d)]
      stuck == UNION {Stuck(e, s, d) : e \in Entries}
      empty == stuck \cup {h \in Handles : s[h] = Free}
      short == Cardinality(UNION {{e} \X Missing(e, s, d) : e \in Entries})
  IN \E F \in Slots(short, empty) : \E own \in [F -> Entries] :
       /\ \A e \in Entries :
            Cardinality({h \in F : own[h] = e}) = Cardinality(Missing(e, s, d))
       /\ pool' = [e \in Entries |->
                     (pool[e] \ (moved[e] \cup stuck)) \cup {h \in F : own[h] = e}]
       /\ since' = UNION {HalfOpen(e, s, d) : e \in Entries} \ stuck
       /\ \E q \in [Entries -> UNION {Orders(moved[e]) : e \in Entries}] :
            /\ \A e \in Entries : q[e] \in Orders(moved[e])
            /\ queue' = [e \in Entries |-> queue[e] \o q[e]]
       /\ WakeAcceptors(WokenBy(moved))
       /\ closing' = closing \ Reaped(s)
       /\ sock' = [h \in Handles |->
                     IF h \in F THEN "Listen"
                     ELSE IF h \in stuck \cup Reaped(s) THEN Free ELSE s[h]]
       /\ rx' = d \ (stuck \cup Reaped(s))
       /\ old' = old \cap (since' \cup closing')

\* Mutant: closed is not looked at.
PollerNeverExits ==
  /\ poller = "check"
  /\ poller' = "select"
  /\ UNCHANGED <<sockVars, lisVars, dialVars, accVars,
                 pending, closing, closed, wakers, streams>>

\* The top of the loop: exit once shut down.
PollerCheck ==
  /\ poller = "check"
  /\ poller' = IF closed THEN "done" ELSE "select"
  /\ UNCHANGED <<sockVars, lisVars, dialVars, accVars,
                 pending, closing, closed, wakers, streams>>

\* process_connects and run_poll under one lock, then every waker fires.
RunPoll ==
  /\ poller = "select"
  /\ \E ok \in SUBSET pending :
       LET s1 == ProcessConnects(ok)
       IN /\ dpc' = ConnectResults(ok)
          /\ \E touched \in SUBSET Touchable(s1) :
               /\ Cardinality(touched) <= MaxBatch
               /\ \E f \in [touched -> UNION {Reach(s1[h]) : h \in touched}] :
                    LET s == [h \in Handles |-> IF h \in touched THEN f[h] ELSE s1[h]]
                    IN /\ \A h \in touched : f[h] \in Reach(s1[h])
                       /\ \E new \in SUBSET NewData(touched, s1, s) :
                            ServiceAndReap(s, rx \cup new)
  /\ pending' = {}
  /\ wakers' = {}
  /\ poller' = "check"
  /\ UNCHANGED <<dh, aport, port, closed, streams>>

\* rwc.read failed because the core was closed, the reader task ended and with
\* it the packet channel: exit, whether or not shutdown() was called.
PollerLosesReader ==
  /\ poller = "select"
  /\ poller' = "done"
  /\ UNCHANGED <<sockVars, lisVars, dialVars, accVars,
                 pending, closing, closed, wakers, streams>>

\* Time passes until the deadline of socket h.
Expire(h) ==
  /\ h \in (since \cup closing) \ old
  /\ old' = old \cup {h}
  /\ UNCHANGED <<sock, rx, lisVars, dialVars, accVars, poller,
                 pending, closing, closed, wakers, streams>>

-----------------------------------------------------------------------------
(* shutdown *)

\* The critical section of shutdown().
Shutdown ==
  /\ closed' = TRUE
  /\ pending' = {}
  /\ dpc' = [d \in Dialers |-> IF dpc[d] = "queued" /\ dh[d] \in pending
                               THEN "broken" ELSE dpc[d]]
  /\ wakers' = {}
  /\ WakeAcceptors({a \in Acceptors : areg[a] # 0})
  /\ sock' = [h \in Handles |-> IF sock[h] = Free THEN Free ELSE "Closed"]
  /\ port' = [e \in Entries |-> NoPort]
  /\ pool' = [e \in Entries |-> {}] /\ since' = {}
  /\ queue' = [e \in Entries |-> <<>>]
  /\ closing' = {} /\ old' = {}
  /\ rx' = rx \ (Pooled \cup Queued)
  /\ UNCHANGED <<dh, aport, poller, streams>>

\* The loop did not end within join_with_grace: it is aborted.
AbortTasks ==
  /\ closed /\ poller # "done"
  /\ poller' = "done"
  /\ UNCHANGED <<sockVars, lisVars, dialVars, accVars,
                 pending, closing, closed, wakers, streams>>

-----------------------------------------------------------------------------
Dial(d) == DialCreate(d) \/ DialQueue(d) \/ DialConnected(d) \/ DialFailed(d)
             \/ WaitConnected(d) \/ ConnectTimeout(d)

Stream(h) == Read(h) \/ Write(h) \/ ShutdownStream(h) \/ DropOpen(h)

Listen(a) == (\E p \in Ports : ListenTcp(a, p) \/ ListenTcpFails(a, p)) \/ Accept(a)

\* The steps of a netstack in service.
Serve ==
  \/ \E d \in Dialers : Dial(d) \/ CancelDial(d)
  \/ \E h \in Handles : Stream(h) \/ Expire(h)
  \/ \E a \in Acceptors : Listen(a)
  \/ PollerCheck \/ RunPoll

Next ==
  \/ Serve
  \/ \E a \in Acceptors : DropListener(a)
  \/ PollerLosesReader \/ Shutdown \/ AbortTasks

Spec == Init /\ [][Next]_vars

\* The runtime keeps polling ready tasks, and timers fire.
Fairness ==
  /\ WF_vars(PollerCheck) /\ WF_vars(RunPoll)
  /\ \A d \in Dialers :
       /\ WF_vars(DialQueue(d)) /\ WF_vars(DialConnected(d))
       /\ WF_vars(DialFailed(d)) /\ WF_vars(WaitConnected(d))
       /\ WF_vars(ConnectTimeout(d))
  /\ \A a \in Acceptors : WF_vars(Accept(a))
  /\ \A h \in Handles : WF_vars(Expire(h))

FairSpec == Spec /\ Fairness

\* The netstack between new() and shutdown().
ServeSpec == Init /\ [][Serve]_vars /\ Fairness

-----------------------------------------------------------------------------
(* Properties *)

\* The types of the shared state; a dial in progress holds a slot of the set
\* (dial_tcp keeps its handle in a local variable until it returns).
TypeOK ==
  /\ sock \in [Handles -> SockStates]
  /\ rx \subseteq Handles /\ old \subseteq Handles
  /\ port \in [Entries -> Ports \cup {NoPort}]
  /\ pool \in [Entries -> SUBSET Handles]
  /\ since \subseteq Handles
  /\ queue \in [Entries -> Seq(Handles)]
  /\ dpc \in [Dialers -> DialEnded \cup DialActive]
  /\ dh \in [Dialers -> Handles \cup {NoHandle}]
  /\ \A d \in Dialers : dpc[d] \in DialActive => dh[d] \in Handles
  /\ apc \in [Acceptors -> {"idle", "accepting", "blocked"}]
  /\ aport \in [Acceptors -> Ports \cup {NoPort}]
  /\ areg \in [Acceptors -> Entries \cup {0}]
  /\ poller \in {"check", "select", "done"}
  /\ pending \subseteq Handles /\ closing \subseteq Handles
  /\ closed \in BOOLEAN
  /\ wakers \subseteq Handles /\ streams \subseteq Handles

\* Slots the code between the critical sections of dial_tcp still uses.
Dialing == {dh[d] : d \in {x \in Dialers : dpc[x] \in DialActive}}

\* Every slot a task or a table of NetstackState will look up again.
Owned == Dialing \cup pending \cup streams \cup Pooled \cup Queued \cup closing

\* No task and no table holds the slot of a removed socket: SocketSet::get
\* panics on one, and a panic in the poll loop takes the whole stack down.
HandlesLive == \A h \in Owned : sock[h] # Free

\* A slot has one owner, so that no path removes, or hands out again, a socket
\* another path still uses: a dial, a stream, one listener's pool, one place
\* in one accept queue, or the closing list.
OneOwner ==
  /\ \A c, d \in Dialers :
       dpc[c] \in DialActive /\ dpc[d] \in DialActive /\ dh[c] = dh[d] => c = d
  /\ \A e, f \in Entries : e # f => pool[e] \cap pool[f] = {}
  /\ \A e, f \in Entries : \A i \in DOMAIN queue[e], j \in DOMAIN queue[f] :
       queue[e][i] = queue[f][j] => e = f /\ i = j
  /\ (Dialing \cup pending) \cap (streams \cup Pooled \cup Queued \cup closing) = {}
  /\ streams \cap (Pooled \cup Queued \cup closing) = {}
  /\ Pooled \cap (Queued \cup closing) = {}
  /\ Queued \cap closing = {}

\* Whenever the lock is free, each listener has LISTEN_POOL sockets in LISTEN
\* (service_listeners tops the pool up), whatever half-open handshakes,
\* resets and reaped sockets came before.
PoolToppedUp ==
  \A e \in Entries :
    Live(e) => Cardinality({h \in pool[e] : sock[h] = "Listen"}) >= LISTEN_POOL

\* After shutdown() no connection is ever open again, although the poll loop
\* may run once more and dial_tcp and listen_tcp never look at closed.
ClosedNoTraffic ==
  closed => \A h \in Handles : sock[h] \notin {"Established", "CloseWait"}

\* After shutdown() no read or write of a TcpStream sleeps: one sees EOF, the
\* other fails ("every in-flight socket operation fails instead of pending", on
\* closed).
StreamsReleased == closed => streams \cap wakers = {}

\* Who holds slot h, in the words of SlotOwnership.
OwnerOf(h) ==
  CASE sock[h] = Free                  -> "free"
    [] h \in Dialing \cup pending      -> "dial"
    [] h \in streams                   -> "stream"
    [] h \in Pooled                    -> "pool"
    [] h \in Queued                    -> "queue"
    [] h \in closing                   -> "closing"
    [] sock[h] # Free /\ h \notin Owned -> "leaked"

Ownership == INSTANCE SlotOwnership
               WITH own <- [h \in Handles |-> OwnerOf(h)], down <- closed

\* Every step passes slots on as SlotOwnership allows: a socket held by a
\* stream, a pool, an accept queue or the closing list is never lost before
\* shutdown(), never removed under its holder, never handed out twice.
SlotLifecycle == Ownership!Spec

\* Every dial ends while the netstack is in service: the oneshot is answered
\* by the next poll and CONNECT_TIMEOUT bounds the handshake.
DialEnds ==
  \A d \in Dialers : dpc[d] \in DialActive ~> dpc[d] \in DialEnded

\* A dropped stream's socket does not linger: CLOSE_GRACE at the latest.
ClosingReaped == \A h \in Handles : h \in closing ~> h \notin closing

\* A handshake that never completes does not hold its pool slot forever.
HalfOpenReaped == \A h \in Handles : h \in since ~> h \notin since

\* A socket in an accept queue reaches its listener: no wake-up of accept()
\* is lost between its poll and service_listeners.
QueuedAccepted == \A h \in Handles : h \in Queued ~> h \notin Queued

-----------------------------------------------------------------------------
(* What the comments say and the code does not do *)

\* "every in-flight socket operation fails instead of pending"
\* (the comment on closed): a dial_tcp that queues its command too late for
\* shutdown() to break it, and an accept() whose entry shutdown() removed,
\* which sleeps with no waker registered anywhere, come back all the same.
InFlightReleased ==
  /\ \A d \in Dialers :
       closed /\ dpc[d] = "queued" ~> dpc[d] # "queued"
  /\ \A a \in Acceptors :
       closed /\ apc[a] = "blocked" /\ areg[a] = 0 ~> apc[a] # "blocked"
=============================================================================
