--------------------------- MODULE NetstackProofs ---------------------------
(***************************************************************************)
(* For every set of slots, dialers, acceptors and ports and every size of  *)
(* the listen pool: the netstack never uses the slot of a removed socket,  *)
(* and every slot has one owner.                                           *)
(***************************************************************************)
EXTENDS Netstack, FiniteSetTheorems, TLAPS

\* The inductive invariant IInv: liveness of the slots needs unique owners (what
\* one path removes no other path holds), and unique owners need liveness (a
\* new socket takes a slot nobody holds).
\* A command in pending_connects whose dial is still in progress is one the dial
\* waits for (that of a cancelled dial stays queued without one), so a
\* TcpStream's slot is never connected a second time.
PendingQueued ==
  \A d \in Dialers :
    dpc[d] \in DialActive /\ dh[d] \in pending => dpc[d] = "queued"

IInv == TypeOK /\ HandlesLive /\ OneOwner /\ PendingQueued

\* A new socket's slot is empty before SocketSet::add.
LEMMA SlotsEmpty ==
  ASSUME NEW n, NEW empty, NEW S \in Slots(n, empty)
  PROVE  S \subseteq empty
BY DEF Slots

\* Socket::close leaves a socket in the set.
LEMMA CloseType ==
  ASSUME NEW s \in SockStates, s # Free
  PROVE  Close(s) \in SockStates \ {Free}
BY DEF Close, SockStates, Free

\* Segments change a socket's state and never remove it.
LEMMA ReachType ==
  ASSUME NEW s \in SockStates, s # Free
  PROVE  Reach(s) \subseteq SockStates \ {Free}
BY DEF Reach, SockStates, Free

\* Whatever is owned is a slot of the set.
LEMMA OwnedType ==
  ASSUME TypeOK
  PROVE  Owned \subseteq Handles
<1>1. Dialing \subseteq Handles
  BY DEF TypeOK, Dialing
<1>2. Pooled \subseteq Handles
  BY DEF TypeOK, Pooled
<1>3. Queued \subseteq Handles
  BY DEF TypeOK, Queued
<1> QED
  BY <1>1, <1>2, <1>3 DEF TypeOK, Owned

\* new() starts with an empty set and nobody who owns anything.
LEMMA InitIInv == Init => IInv
<1> SUFFICES ASSUME Init PROVE IInv
    OBVIOUS
<1>1. TypeOK
  <2>1. queue \in [Entries -> Seq(Handles)]
    BY DEF Init
  <2> QED
    BY <2>1 DEF Init, TypeOK, SockStates, NoHandle, DialEnded, DialActive
<1>2. Dialing = {} /\ Pooled = {} /\ Queued = {}
  BY DEF Init, Dialing, Pooled, Queued, DialActive
<1>3. HandlesLive
  BY <1>2 DEF Init, HandlesLive, Owned
<1>4. OneOwner
  BY <1>2 DEF Init, OneOwner, DialActive
<1>5. PendingQueued
  BY DEF Init, PendingQueued
<1> QED
  BY <1>1, <1>3, <1>4, <1>5 DEF IInv

\* dial_tcp takes a slot that was free, so nobody held it.
LEMMA DialCreateIInv ==
  ASSUME IInv, NEW d \in Dialers, DialCreate(d)
  PROVE  IInv'
<1>1. PICK h \in Handles :
         /\ sock[h] = Free
         /\ sock' = [sock EXCEPT ![h] = "Closed"]
         /\ dh' = [dh EXCEPT ![d] = h]
  BY SlotsEmpty DEF DialCreate, Empty
<1>2. TypeOK'
  BY <1>1 DEF DialCreate, IInv, TypeOK, SockStates, DialEnded, DialActive, lisVars, accVars
<1>3. h \notin Owned
  BY <1>1 DEF IInv, HandlesLive
<1>4. Dialing' = Dialing \cup {h}
  BY <1>1 DEF DialCreate, IInv, TypeOK, Dialing, DialActive, DialEnded
<1>5. Pooled' = Pooled /\ Queued' = Queued
  BY DEF DialCreate, lisVars, Pooled, Queued
<1>6. HandlesLive'
  BY <1>1, <1>4, <1>5 DEF DialCreate, IInv, TypeOK, HandlesLive, Owned, Free
<1>7. OneOwner'
  <2>1. \A c \in Dialers : dpc[c] \in DialActive => dh[c] \in Owned
    BY DEF Owned, Dialing
  <2>2. \A c, e \in Dialers :
          dpc'[c] \in DialActive /\ dpc'[e] \in DialActive /\ dh'[c] = dh'[e] => c = e
    BY <1>1, <1>3, <2>1 DEF DialCreate, IInv, TypeOK, OneOwner
  <2> QED
    BY <2>2, <1>3, <1>4, <1>5 DEF DialCreate, IInv, OneOwner, Owned, lisVars
<1>8. PendingQueued'
  BY <1>1, <1>3 DEF DialCreate, IInv, TypeOK, PendingQueued, Owned
<1> QED
  BY <1>2, <1>6, <1>7, <1>8 DEF IInv

\* Queueing the command names a slot the dial holds anyway.
LEMMA DialQueueIInv ==
  ASSUME IInv, NEW d \in Dialers, DialQueue(d)
  PROVE  IInv'
<1>1. dpc[d] \in DialActive /\ dh[d] \in Handles /\ dh[d] \in Dialing
  BY DEF DialQueue, IInv, TypeOK, DialActive, Dialing
<1>2. TypeOK'
  BY <1>1 DEF DialQueue, IInv, TypeOK, DialActive, sockVars, lisVars, accVars
<1>3. \A c \in Dialers : dpc'[c] \in DialActive <=> dpc[c] \in DialActive
  BY DEF DialQueue, IInv, TypeOK, DialActive
<1>4. Dialing' = Dialing
  BY <1>3 DEF DialQueue, Dialing
<1>5. Pooled' = Pooled /\ Queued' = Queued
  BY DEF DialQueue, lisVars, Pooled, Queued
<1>6. HandlesLive'
  BY <1>1, <1>4, <1>5 DEF DialQueue, IInv, HandlesLive, Owned, sockVars
<1>7. OneOwner'
  BY <1>1, <1>3, <1>4, <1>5 DEF DialQueue, IInv, OneOwner, lisVars
<1>8. PendingQueued'
  BY <1>1, <1>3 DEF DialQueue, IInv, TypeOK, OneOwner, PendingQueued
<1> QED
  BY <1>2, <1>6, <1>7, <1>8 DEF IInv

\* The answered dial keeps its slot.
LEMMA DialConnectedIInv ==
  ASSUME IInv, NEW d \in Dialers, DialConnected(d)
  PROVE  IInv'
<1>2. TypeOK'
  BY DEF DialConnected, IInv, TypeOK, DialActive, sockVars, lisVars, accVars
<1>3. \A c \in Dialers : dpc'[c] \in DialActive <=> dpc[c] \in DialActive
  BY DEF DialConnected, IInv, TypeOK, DialActive
<1>4. Dialing' = Dialing
  BY <1>3 DEF DialConnected, Dialing
<1>5. Pooled' = Pooled /\ Queued' = Queued
  BY DEF DialConnected, lisVars, Pooled, Queued
<1>6. HandlesLive'
  BY <1>4, <1>5 DEF DialConnected, IInv, HandlesLive, Owned, sockVars
<1>7. OneOwner'
  BY <1>3, <1>4, <1>5 DEF DialConnected, IInv, OneOwner, lisVars
<1>8. PendingQueued'
  BY <1>3 DEF DialConnected, IInv, TypeOK, PendingQueued, DialActive
<1> QED
  BY <1>2, <1>6, <1>7, <1>8 DEF IInv

\* A dial that ends gives up its slot and nobody else's.
LEMMA DialEndFacts ==
  ASSUME IInv, NEW d \in Dialers, dpc[d] \in DialActive,
         NEW outcome \in DialEnded, DialEnd(d, outcome)
  PROVE  /\ dpc' \in [Dialers -> DialEnded \cup DialActive]
         /\ dh' \in [Dialers -> Handles \cup {NoHandle}]
         /\ Dialing' = Dialing \ {dh[d]}
         /\ dh[d] \in Handles /\ dh[d] \in Dialing
         /\ \A c \in Dialers : dpc'[c] \in DialActive =>
              c # d /\ dpc[c] \in DialActive /\ dpc'[c] = dpc[c] /\ dh'[c] = dh[c]
<1>1. /\ dpc' \in [Dialers -> DialEnded \cup DialActive]
      /\ dh' \in [Dialers -> Handles \cup {NoHandle}]
      /\ dh[d] \in Handles
  BY DEF DialEnd, IInv, TypeOK
<1>2. dh[d] \in Dialing
  BY DEF Dialing
<1>3. \A c \in Dialers : dpc'[c] \in DialActive <=> c # d /\ dpc[c] \in DialActive
  BY DEF DialEnd, DialEnded, DialActive, IInv, TypeOK
<1>4. \A c \in Dialers : c # d => dh'[c] = dh[c] /\ dpc'[c] = dpc[c]
  BY DEF DialEnd, IInv, TypeOK
<1>5. \A c \in Dialers : c # d /\ dpc[c] \in DialActive => dh[c] # dh[d]
  BY DEF IInv, OneOwner
<1>6. Dialing' = Dialing \ {dh[d]}
  BY <1>3, <1>4, <1>5 DEF Dialing
<1> QED
  BY <1>1, <1>2, <1>3, <1>4, <1>6

\* What dropping a stream does to the sockets.
LEMMA DropStreamFacts ==
  ASSUME IInv, NEW h \in Handles, sock[h] # Free, DropStream(h)
  PROVE  /\ sock' \in [Handles -> SockStates]
         /\ \A g \in Handles : sock[g] # Free => sock'[g] # Free
         /\ closing' = closing \cup {h}
         /\ closing' \subseteq Handles /\ rx' \subseteq Handles /\ wakers' \subseteq Handles
<1>1. sock[h] \in SockStates
  BY DEF IInv, TypeOK
<1>2. Close(sock[h]) \in SockStates \ {Free}
  BY <1>1, CloseType
<1> QED
  BY <1>2 DEF DropStream, IInv, TypeOK

\* A dial ends and its slot is abandoned, becomes an open stream, or is queued
\* for closing.
LEMMA DialEndsIInv ==
  ASSUME IInv, NEW d \in Dialers, dpc[d] \in DialActive,
         NEW outcome \in DialEnded, DialEnd(d, outcome),
         UNCHANGED <<old, lisVars, accVars, poller, pending, closed>>,
         \/ UNCHANGED <<sock, rx, closing, wakers, streams>>
         \/ /\ dpc[d] = "connecting" /\ streams' = streams \cup {dh[d]}
            /\ UNCHANGED <<sock, rx, closing, wakers>>
         \/ /\ dpc[d] = "connecting" /\ DropStream(dh[d]) /\ UNCHANGED streams
  PROVE  IInv'
<1>1. /\ dpc' \in [Dialers -> DialEnded \cup DialActive]
      /\ dh' \in [Dialers -> Handles \cup {NoHandle}]
      /\ Dialing' = Dialing \ {dh[d]}
      /\ dh[d] \in Handles /\ dh[d] \in Dialing
      /\ \A c \in Dialers : dpc'[c] \in DialActive =>
           c # d /\ dpc[c] \in DialActive /\ dpc'[c] = dpc[c] /\ dh'[c] = dh[c]
  BY DialEndFacts
<1>2. sock[dh[d]] # Free
  BY <1>1 DEF IInv, HandlesLive, Owned
<1>3. Pooled' = Pooled /\ Queued' = Queued
  BY DEF lisVars, Pooled, Queued
<1>4. dpc[d] = "connecting" => dh[d] \notin pending
  BY DEF IInv, PendingQueued
<1>5. /\ sock' \in [Handles -> SockStates]
      /\ \A g \in Handles : sock[g] # Free => sock'[g] # Free
      /\ closing' \subseteq Handles /\ rx' \subseteq Handles
      /\ wakers' \subseteq Handles /\ streams' \subseteq Handles
  <2>1. CASE DropStream(dh[d]) /\ UNCHANGED streams
    BY <1>1, <1>2, <2>1, DropStreamFacts DEF IInv, TypeOK
  <2>2. CASE UNCHANGED <<sock, rx, closing, wakers>> /\ streams' \in {streams, streams \cup {dh[d]}}
    BY <1>1, <2>2 DEF IInv, TypeOK
  <2> QED
    BY <2>1, <2>2
<1>6. \/ closing' = closing /\ streams' = streams
      \/ closing' = closing /\ streams' = streams \cup {dh[d]} /\ dh[d] \notin pending
      \/ closing' = closing \cup {dh[d]} /\ streams' = streams /\ dh[d] \notin pending
  BY <1>4 DEF DropStream
<1>7. TypeOK'
  <2>1. old' \subseteq Handles /\ pending' \subseteq Handles /\ closed' \in BOOLEAN
    BY DEF IInv, TypeOK
  <2>2. \A c \in Dialers : dpc'[c] \in DialActive => dh'[c] \in Handles
    BY <1>1 DEF IInv, TypeOK
  <2> QED
    BY <1>1, <1>5, <2>1, <2>2 DEF IInv, TypeOK, lisVars, accVars
<1>8. HandlesLive'
  <2>1. Owned' \subseteq Owned
    BY <1>1, <1>3, <1>6 DEF Owned
  <2>2. Owned \subseteq Handles
    BY OwnedType DEF IInv
  <2> QED
    BY <1>5, <2>1, <2>2 DEF IInv, HandlesLive
<1>9. OneOwner'
  <2>1. \A c, e \in Dialers :
          dpc'[c] \in DialActive /\ dpc'[e] \in DialActive /\ dh'[c] = dh'[e] => c = e
    BY <1>1 DEF IInv, OneOwner
  <2>2. dh[d] \notin streams \cup Pooled \cup Queued \cup closing
    BY <1>1 DEF IInv, OneOwner
  <2> QED
    BY <1>1, <1>3, <1>6, <2>1, <2>2 DEF IInv, OneOwner, lisVars
<1>10. PendingQueued'
  BY <1>1 DEF IInv, PendingQueued
<1> QED
  BY <1>7, <1>8, <1>9, <1>10 DEF IInv

\* The failed dial lets go of its slot; the socket stays in the set.
LEMMA DialFailedIInv ==
  ASSUME IInv, NEW d \in Dialers, DialFailed(d)
  PROVE  IInv'
<1>1. /\ dpc[d] \in DialActive
      /\ \E outcome \in DialEnded : DialEnd(d, outcome)
  BY DEF DialFailed, DialActive, DialEnded
<1> QED
  BY <1>1, DialEndsIInv DEF DialFailed, sockVars

\* The connect timeout moves the dial's slot to the closing list.
LEMMA ConnectTimeoutIInv ==
  ASSUME IInv, NEW d \in Dialers, ConnectTimeout(d)
  PROVE  IInv'
<1>1. dpc[d] \in DialActive /\ "idle" \in DialEnded
  BY DEF ConnectTimeout, DialActive, DialEnded
<1> QED
  BY <1>1, DialEndsIInv DEF ConnectTimeout

\* Dropping dial_tcp at one of its awaits.
LEMMA CancelDialIInv ==
  ASSUME IInv, NEW d \in Dialers, CancelDial(d)
  PROVE  IInv'
<1>1. dpc[d] \in DialActive /\ "idle" \in DialEnded
  BY DEF CancelDial, DialActive, DialEnded
<1> QED
  BY <1>1, DialEndsIInv DEF CancelDial

\* A step that changes neither the sockets nor their owners.
LEMMA SameOwnersIInv ==
  ASSUME IInv, TypeOK',
         UNCHANGED <<sock, pending, pool, queue, closing, streams, dialVars>>
  PROVE  IInv'
<1>1. Dialing' = Dialing /\ Pooled' = Pooled /\ Queued' = Queued
  BY DEF dialVars, Dialing, Pooled, Queued
<1>2. HandlesLive'
  BY <1>1 DEF IInv, HandlesLive, Owned
<1>3. OneOwner'
  BY <1>1 DEF IInv, OneOwner, dialVars
<1>4. PendingQueued'
  BY DEF IInv, PendingQueued, dialVars
<1> QED
  BY <1>2, <1>3, <1>4 DEF IInv

\* One poll of wait_connected: a stream, a closing socket, or no change of owner.
LEMMA WaitConnectedIInv ==
  ASSUME IInv, NEW d \in Dialers, WaitConnected(d)
  PROVE  IInv'
<1>1. /\ dpc[d] = "connecting" /\ dpc[d] \in DialActive
      /\ DialEnded = {"idle", "refused"} /\ dh[d] \in Handles
  BY DEF WaitConnected, DialActive, DialEnded, IInv, TypeOK
<1>2. CASE /\ streams' = streams \cup {dh[d]} /\ DialEnd(d, "idle")
           /\ UNCHANGED <<sock, rx, closing, wakers>>
  BY <1>1, <1>2, DialEndsIInv DEF WaitConnected
<1>3. CASE DropStream(dh[d]) /\ DialEnd(d, "refused") /\ UNCHANGED streams
  BY <1>1, <1>3, DialEndsIInv DEF WaitConnected
<1>4. CASE /\ wakers' = wakers \cup {dh[d]}
           /\ UNCHANGED <<sock, rx, closing, streams, dialVars>>
  <2>1. UNCHANGED <<sock, pending, pool, queue, closing, streams, dialVars>>
    BY <1>4 DEF WaitConnected, lisVars
  <2>2. TypeOK'
    BY <1>1, <1>4 DEF WaitConnected, IInv, TypeOK, dialVars, lisVars, accVars
  <2> QED
    BY <2>1, <2>2, SameOwnersIInv
<1> QED
  BY <1>2, <1>3, <1>4 DEF WaitConnected

\* poll_read changes no owner.
LEMMA ReadIInv ==
  ASSUME IInv, NEW h \in Handles, Read(h)
  PROVE  IInv'
<1>1. UNCHANGED <<sock, pending, pool, queue, closing, streams, dialVars>>
  BY DEF Read, lisVars
<1>2. TypeOK'
  <2>1. rx' \subseteq Handles /\ wakers' \subseteq Handles
    BY DEF Read, IInv, TypeOK
  <2> QED
    BY <2>1 DEF Read, IInv, TypeOK, dialVars, lisVars, accVars
<1> QED
  BY <1>1, <1>2, SameOwnersIInv

\* Nor does poll_write.
LEMMA WriteIInv ==
  ASSUME IInv, NEW h \in Handles, Write(h)
  PROVE  IInv'
<1>1. UNCHANGED <<sock, pending, pool, queue, closing, streams, dialVars>>
  BY DEF Write, lisVars, sockVars
<1>2. TypeOK'
  <2>1. wakers' \subseteq Handles
    BY DEF Write, IInv, TypeOK
  <2> QED
    BY <2>1 DEF Write, IInv, TypeOK, sockVars, dialVars, lisVars, accVars
<1> QED
  BY <1>1, <1>2, SameOwnersIInv

\* poll_shutdown closes a socket its stream keeps.
LEMMA ShutdownStreamIInv ==
  ASSUME IInv, NEW h \in Handles, ShutdownStream(h)
  PROVE  IInv'
<1>1. sock[h] \in SockStates \ {Free}
  BY DEF ShutdownStream, IInv, TypeOK, HandlesLive, Owned
<1>2. Close(sock[h]) \in SockStates \ {Free}
  BY <1>1, CloseType
<1>3. TypeOK'
  BY <1>2 DEF ShutdownStream, IInv, TypeOK, dialVars, lisVars, accVars
<1>4. Dialing' = Dialing /\ Pooled' = Pooled /\ Queued' = Queued
  BY DEF ShutdownStream, dialVars, lisVars, Dialing, Pooled, Queued
<1>5. Owned' = Owned /\ Owned \subseteq Handles
  BY <1>4, OwnedType DEF ShutdownStream, Owned, IInv
<1>6. \A g \in Handles : sock[g] # Free => sock'[g] # Free
  BY <1>2 DEF ShutdownStream, IInv, TypeOK
<1>7. HandlesLive'
  BY <1>5, <1>6 DEF IInv, HandlesLive
<1>8. OneOwner'
  BY <1>4 DEF ShutdownStream, IInv, OneOwner, dialVars, lisVars
<1>9. PendingQueued'
  BY DEF ShutdownStream, IInv, PendingQueued, dialVars
<1> QED
  BY <1>3, <1>7, <1>8, <1>9 DEF IInv

\* Drop moves a stream's slot to the closing list.
LEMMA DropOpenIInv ==
  ASSUME IInv, NEW h \in Handles, DropOpen(h)
  PROVE  IInv'
<1>1. h \in streams /\ h \in Owned /\ sock[h] # Free
  BY DEF DropOpen, IInv, HandlesLive, Owned
<1>2. /\ sock' \in [Handles -> SockStates]
      /\ \A g \in Handles : sock[g] # Free => sock'[g] # Free
      /\ closing' = closing \cup {h}
      /\ closing' \subseteq Handles /\ rx' \subseteq Handles /\ wakers' \subseteq Handles
  BY <1>1, DropStreamFacts DEF DropOpen
<1>3. streams' = streams \ {h}
  BY DEF DropOpen
<1>4. TypeOK'
  BY <1>2, <1>3 DEF DropOpen, IInv, TypeOK, dialVars, lisVars, accVars
<1>5. Dialing' = Dialing /\ Pooled' = Pooled /\ Queued' = Queued
  BY DEF DropOpen, dialVars, lisVars, Dialing, Pooled, Queued
<1>6. HandlesLive'
  <2>1. Owned' \subseteq Owned /\ Owned \subseteq Handles
    BY <1>1, <1>2, <1>3, <1>5, OwnedType DEF DropOpen, Owned, IInv
  <2> QED
    BY <1>2, <2>1 DEF IInv, HandlesLive
<1>7. OneOwner'
  BY <1>1, <1>2, <1>3, <1>5 DEF DropOpen, IInv, OneOwner, dialVars, lisVars
<1>8. PendingQueued'
  BY DEF DropOpen, IInv, PendingQueued, dialVars
<1> QED
  BY <1>4, <1>6, <1>7, <1>8 DEF IInv

\* listen_tcp fills its pool with slots that were free.
LEMMA ListenTcpIInv ==
  ASSUME IInv, NEW a \in Acceptors, NEW p \in Ports, ListenTcp(a, p)
  PROVE  IInv'
<1>1. PICK e \in Entries, S \in Slots(LISTEN_POOL, Empty) :
         /\ NextEntry(e)
         /\ sock' = [h \in Handles |-> IF h \in S THEN "Listen" ELSE sock[h]]
         /\ pool' = [pool EXCEPT ![e] = S]
         /\ port' = [port EXCEPT ![e] = p]
  BY DEF ListenTcp
<1>2. S \subseteq Handles /\ S \cap Owned = {}
  BY SlotsEmpty DEF Empty, IInv, HandlesLive
<1>3. TypeOK'
  <2>1. sock' \in [Handles -> SockStates]
    BY <1>1 DEF IInv, TypeOK, SockStates
  <2>2. pool' \in [Entries -> SUBSET Handles] /\ port' \in [Entries -> Ports \cup {NoPort}]
    BY <1>1, <1>2 DEF IInv, TypeOK
  <2> QED
    BY <2>1, <2>2 DEF ListenTcp, IInv, TypeOK, dialVars
<1>4. Dialing' = Dialing /\ Queued' = Queued
  BY DEF ListenTcp, dialVars, Dialing, Queued
<1>5. /\ Pooled' \subseteq Pooled \cup S
      /\ \A f \in Entries : pool'[f] = IF f = e THEN S ELSE pool[f]
  BY <1>1 DEF IInv, TypeOK, Pooled
<1>6. \A f \in Entries : pool[f] \cap S = {}
  BY <1>2 DEF Owned, Pooled
<1>7. HandlesLive'
  <2>1. Owned' \subseteq Owned \cup S /\ Owned \subseteq Handles
    BY <1>4, <1>5, OwnedType DEF ListenTcp, Owned, IInv
  <2> QED
    BY <1>1, <1>2, <2>1 DEF IInv, HandlesLive, Free
<1>8. OneOwner'
  <2>1. \A f, g \in Entries : f # g => pool'[f] \cap pool'[g] = {}
    BY <1>5, <1>6 DEF IInv, OneOwner
  <2> QED
    BY <1>2, <1>4, <1>5, <2>1 DEF ListenTcp, IInv, OneOwner, Owned, dialVars
<1>9. PendingQueued'
  BY DEF ListenTcp, IInv, PendingQueued, dialVars
<1> QED
  BY <1>3, <1>7, <1>8, <1>9 DEF IInv

\* The socket a failed listen_tcp leaves behind has no owner.
LEMMA ListenTcpFailsIInv ==
  ASSUME IInv, NEW a \in Acceptors, NEW p \in Ports, ListenTcpFails(a, p)
  PROVE  IInv'
<1>1. PICK S \in Slots(1, Empty) :
         sock' = [h \in Handles |-> IF h \in S THEN "Closed" ELSE sock[h]]
  BY DEF ListenTcpFails
<1>2. TypeOK'
  BY <1>1 DEF ListenTcpFails, IInv, TypeOK, SockStates, dialVars, lisVars, accVars
<1>3. Dialing' = Dialing /\ Pooled' = Pooled /\ Queued' = Queued
  BY DEF ListenTcpFails, dialVars, lisVars, Dialing, Pooled, Queued
<1>4. HandlesLive'
  <2>1. Owned' = Owned /\ Owned \subseteq Handles
    BY <1>3, OwnedType DEF ListenTcpFails, Owned, IInv
  <2> QED
    BY <1>1, <2>1 DEF IInv, HandlesLive, Free
<1>5. OneOwner'
  BY <1>3 DEF ListenTcpFails, IInv, OneOwner, dialVars, lisVars
<1>6. PendingQueued'
  BY DEF ListenTcpFails, IInv, PendingQueued, dialVars
<1> QED
  BY <1>2, <1>4, <1>5, <1>6 DEF IInv

\* accept() moves the front of one queue to the streams.
LEMMA AcceptIInv ==
  ASSUME IInv, NEW a \in Acceptors, Accept(a)
  PROVE  IInv'
<1>1. CASE UNCHANGED <<queue, streams>>
  <2>1. UNCHANGED <<sock, pending, pool, queue, closing, streams, dialVars>>
    BY <1>1 DEF Accept, sockVars
  <2>2. apc' \in [Acceptors -> {"idle", "accepting", "blocked"}]
    BY DEF Accept, IInv, TypeOK
  <2>3. areg' \in [Acceptors -> Entries \cup {0}]
    BY DEF Accept, IInv, TypeOK
  <2>4. TypeOK'
    BY <1>1, <2>2, <2>3 DEF Accept, IInv, TypeOK, sockVars, dialVars
  <2> QED
    BY <2>1, <2>4, SameOwnersIInv
<1>2. ASSUME NEW e \in Entries, queue[e] # <<>>,
             streams' = streams \cup {Head(queue[e])},
             queue' = [queue EXCEPT ![e] = Tail(@)],
             UNCHANGED <<apc, areg>>
      PROVE  IInv'
  <2> DEFINE h == Head(queue[e])
  <2>1. /\ queue[e] \in Seq(Handles) /\ Len(queue[e]) \in Nat \ {0}
        /\ h = queue[e][1] /\ 1 \in DOMAIN queue[e] /\ h \in Handles
    BY <1>2 DEF IInv, TypeOK
  <2>2. /\ Tail(queue[e]) \in Seq(Handles)
        /\ \A i \in DOMAIN Tail(queue[e]) :
             i + 1 \in DOMAIN queue[e] /\ Tail(queue[e])[i] = queue[e][i + 1] /\ i \in Nat \ {0}
    BY <2>1
  <2>3. /\ queue' \in [Entries -> Seq(Handles)]
        /\ \A f \in Entries : queue'[f] = IF f = e THEN Tail(queue[e]) ELSE queue[f]
    BY <1>2, <2>2 DEF IInv, TypeOK
  <2>4. h \in Queued /\ Queued' \subseteq Queued
    BY <2>1, <2>2, <2>3 DEF Queued
  <2>5. \A f, g \in Entries : \A i \in DOMAIN queue'[f], j \in DOMAIN queue'[g] :
          queue'[f][i] = queue'[g][j] => f = g /\ i = j
    <3> SUFFICES ASSUME NEW f \in Entries, NEW g \in Entries,
                        NEW i \in DOMAIN queue'[f], NEW j \in DOMAIN queue'[g],
                        queue'[f][i] = queue'[g][j]
                 PROVE  f = g /\ i = j
      OBVIOUS
    <3> DEFINE I == IF f = e THEN i + 1 ELSE i
               J == IF g = e THEN j + 1 ELSE j
    <3>1. I \in DOMAIN queue[f] /\ queue'[f][i] = queue[f][I]
      BY <2>2, <2>3
    <3>2. J \in DOMAIN queue[g] /\ queue'[g][j] = queue[g][J]
      BY <2>2, <2>3
    <3>3. f = g /\ I = J
      <4>1. queue[f][I] = queue[g][J]
        BY <3>1, <3>2
      <4> HIDE DEF I, J
      <4> QED
        BY <3>1, <3>2, <4>1 DEF IInv, OneOwner
    <3>4. i \in Int /\ j \in Int
      <4>1. queue'[f] \in Seq(Handles) /\ queue'[g] \in Seq(Handles)
        BY <2>3
      <4>2. DOMAIN queue'[f] \subseteq Int /\ DOMAIN queue'[g] \subseteq Int
        BY <4>1
      <4> QED
        BY <4>2
    <3> QED
      BY <3>3, <3>4
  <2>6. h \notin Queued'
    <3> SUFFICES ASSUME NEW f \in Entries, NEW i \in DOMAIN queue'[f], queue'[f][i] = h
                 PROVE  FALSE
      BY DEF Queued
    <3>1. CASE f = e
      <4>1. i + 1 \in DOMAIN queue[e] /\ queue[e][i + 1] = queue[e][1] /\ i \in Nat \ {0}
        BY <3>1, <2>1, <2>2, <2>3
      <4>2. i + 1 = 1
        BY <4>1, <2>1 DEF IInv, OneOwner
      <4> QED
        BY <4>1, <4>2
    <3>2. CASE f # e
      BY <3>2, <2>1, <2>3 DEF IInv, OneOwner
    <3> QED
      BY <3>1, <3>2
  <2>7. Dialing' = Dialing /\ Pooled' = Pooled
    BY DEF Accept, dialVars, Dialing, Pooled
  <2>8. TypeOK'
    BY <1>2, <2>1, <2>3 DEF Accept, IInv, TypeOK, sockVars, dialVars
  <2>9. HandlesLive'
    <3>1. Owned' \subseteq Owned
      BY <1>2, <2>4, <2>7 DEF Accept, Owned
    <3> QED
      BY <3>1 DEF Accept, IInv, HandlesLive, sockVars
  <2>10. OneOwner'
    BY <1>2, <2>4, <2>5, <2>6, <2>7 DEF Accept, IInv, OneOwner, dialVars
  <2>11. PendingQueued'
    BY DEF Accept, IInv, PendingQueued, dialVars
  <2> QED
    BY <2>8, <2>9, <2>10, <2>11 DEF IInv
<1> QED
  BY <1>1, <1>2 DEF Accept

\* Steps of the listeners, of the clock and of the poll loop that touch no
\* owner.
LEMMA QuietIInv ==
  ASSUME IInv,
         \/ \E a \in Acceptors : DropListener(a)
         \/ \E h \in Handles : Expire(h)
         \/ PollerCheck \/ PollerLosesReader \/ AbortTasks
  PROVE  IInv'
<1>1. UNCHANGED <<sock, pending, pool, queue, closing, streams, dialVars>>
  BY DEF DropListener, Expire, PollerCheck, PollerLosesReader, AbortTasks, sockVars, lisVars
<1>2. TypeOK'
  <2>1. CASE \E a \in Acceptors : DropListener(a)
    BY <2>1 DEF DropListener, IInv, TypeOK, sockVars, lisVars, dialVars
  <2>2. CASE \E h \in Handles : Expire(h)
    BY <2>2 DEF Expire, IInv, TypeOK, lisVars, dialVars, accVars
  <2>3. CASE PollerCheck \/ PollerLosesReader \/ AbortTasks
    <3>1. poller' \in {"check", "select", "done"}
      BY <2>3 DEF PollerCheck, PollerLosesReader, AbortTasks
    <3> QED
      BY <2>3, <3>1 DEF PollerCheck, PollerLosesReader, AbortTasks, IInv, TypeOK,
                        sockVars, lisVars, dialVars, accVars
  <2> QED
    BY <2>1, <2>2, <2>3
<1> QED
  BY <1>1, <1>2, SameOwnersIInv

\* Waking acceptors keeps their types.
LEMMA WakeAcceptorsType ==
  ASSUME TypeOK, NEW woken, WakeAcceptors(woken)
  PROVE  /\ apc' \in [Acceptors -> {"idle", "accepting", "blocked"}]
         /\ areg' \in [Acceptors -> Entries \cup {0}]
BY DEF TypeOK, WakeAcceptors

\* shutdown() empties every table; the streams and the dials keep theirs.
LEMMA ShutdownIInv ==
  ASSUME IInv, Shutdown
  PROVE  IInv'
<1>1. /\ dpc' \in [Dialers -> DialEnded \cup DialActive]
      /\ \A d \in Dialers : dpc'[d] \in DialActive <=> dpc[d] \in DialActive
  BY DEF Shutdown, IInv, TypeOK, DialActive
<1>2. Dialing' = Dialing
  BY <1>1 DEF Shutdown, Dialing
<1>3. Pooled' = {} /\ Queued' = {}
  BY DEF Shutdown, Pooled, Queued
<1>4. TypeOK'
  <2>1. queue' \in [Entries -> Seq(Handles)] /\ pool' \in [Entries -> SUBSET Handles]
    BY DEF Shutdown
  <2>2. sock' \in [Handles -> SockStates]
    BY DEF Shutdown, SockStates
  <2>3. port' \in [Entries -> Ports \cup {NoPort}]
    BY DEF Shutdown
  <2> QED
    BY <1>1, <2>1, <2>2, <2>3, WakeAcceptorsType DEF Shutdown, IInv, TypeOK
<1>5. HandlesLive'
  <2>1. Owned' \subseteq Owned /\ Owned \subseteq Handles
    BY <1>2, <1>3, OwnedType DEF Shutdown, Owned, IInv
  <2> QED
    BY <2>1 DEF Shutdown, IInv, HandlesLive, Free
<1>6. OneOwner'
  BY <1>1, <1>2, <1>3 DEF Shutdown, IInv, OneOwner
<1>7. PendingQueued'
  BY DEF Shutdown, PendingQueued
<1> QED
  BY <1>4, <1>5, <1>6, <1>7 DEF IInv

\* What one poll makes of the owners, with s the sockets after the batch: the
\* moved, stuck and reaped sockets leave their tables, the new ones (F) were
\* stuck or empty.
LEMMA ServiceAndReapIInv ==
  ASSUME IInv,
         NEW s \in [Handles -> SockStates],
         \A h \in Handles : s[h] = Free <=> sock[h] = Free,
         NEW d \in SUBSET Handles,
         ServiceAndReap(s, d),
         dpc' \in [Dialers -> DialEnded \cup DialActive],
         \A c \in Dialers : dpc'[c] \in DialActive <=> dpc[c] \in DialActive,
         pending' = {}, wakers' = {}, poller' = "check",
         UNCHANGED <<dh, aport, port, closed, streams>>
  PROVE  IInv'
<1> DEFINE moved == [e \in Entries |-> Moved(e, s, d)]
           stuck == UNION {Stuck(e, s, d) : e \in Entries}
           reaped == Reaped(s)
           empty == stuck \cup {h \in Handles : s[h] = Free}
           short == Cardinality(UNION {{e} \X Missing(e, s, d) : e \in Entries})
<1>1. PICK F \in Slots(short, empty) : \E own \in [F -> Entries] :
         /\ pool' = [e \in Entries |->
                       (pool[e] \ (moved[e] \cup stuck)) \cup {h \in F : own[h] = e}]
         /\ since' = UNION {HalfOpen(e, s, d) : e \in Entries} \ stuck
         /\ \E q \in [Entries -> UNION {Orders(moved[e]) : e \in Entries}] :
              /\ \A e \in Entries : q[e] \in Orders(moved[e])
              /\ queue' = [e \in Entries |-> queue[e] \o q[e]]
         /\ WakeAcceptors(WokenBy(moved))
         /\ closing' = closing \ reaped
         /\ sock' = [h \in Handles |->
                       IF h \in F THEN "Listen"
                       ELSE IF h \in stuck \cup reaped THEN Free ELSE s[h]]
         /\ rx' = d \ (stuck \cup reaped)
         /\ old' = old \cap (since' \cup closing')
  BY DEF ServiceAndReap
<1>2. PICK own \in [F -> Entries] :
         /\ pool' = [e \in Entries |->
                       (pool[e] \ (moved[e] \cup stuck)) \cup {h \in F : own[h] = e}]
         /\ since' = UNION {HalfOpen(e, s, d) : e \in Entries} \ stuck
         /\ \E q \in [Entries -> UNION {Orders(moved[e]) : e \in Entries}] :
              /\ \A e \in Entries : q[e] \in Orders(moved[e])
              /\ queue' = [e \in Entries |-> queue[e] \o q[e]]
         /\ WakeAcceptors(WokenBy(moved))
         /\ closing' = closing \ reaped
         /\ sock' = [h \in Handles |->
                       IF h \in F THEN "Listen"
                       ELSE IF h \in stuck \cup reaped THEN Free ELSE s[h]]
         /\ rx' = d \ (stuck \cup reaped)
         /\ old' = old \cap (since' \cup closing')
  BY <1>1
<1>3. PICK q \in [Entries -> UNION {Orders(moved[e]) : e \in Entries}] :
         /\ \A e \in Entries : q[e] \in Orders(moved[e])
         /\ queue' = [e \in Entries |-> queue[e] \o q[e]]
  BY <1>2
<1>4. /\ \A e \in Entries : pool[e] \in SUBSET Handles /\ moved[e] \subseteq pool[e]
                              /\ moved[e] \subseteq Handles
      /\ stuck \subseteq Pooled /\ stuck \subseteq Handles
      /\ \A e \in Entries : stuck \cap moved[e] = {}
      /\ reaped \subseteq closing
      /\ F \subseteq stuck \cup {h \in Handles : s[h] = Free}
  <2>1. \A e \in Entries : pool[e] \in SUBSET Handles /\ moved[e] \subseteq pool[e]
                              /\ moved[e] \subseteq Handles
    BY DEF Moved, IInv, TypeOK
  <2>2. \A e \in Entries : Stuck(e, s, d) \subseteq pool[e] /\ Stuck(e, s, d) \cap moved[e] = {}
    BY DEF Stuck, HalfOpen
  <2>3. stuck \subseteq Pooled /\ stuck \subseteq Handles
    BY <2>1, <2>2 DEF Pooled
  <2>4. \A e \in Entries : stuck \cap moved[e] = {}
    <3> SUFFICES ASSUME NEW e \in Entries, NEW f \in Entries,
                        NEW h \in Stuck(f, s, d), h \in moved[e]
                 PROVE  FALSE
      OBVIOUS
    <3>1. h \in pool[e] /\ h \in pool[f]
      BY <2>1, <2>2
    <3>2. e = f
      BY <3>1 DEF IInv, OneOwner
    <3> QED
      BY <2>2, <3>2
  <2>5. reaped \subseteq closing
    BY DEF Reaped
  <2>6. F \subseteq stuck \cup {h \in Handles : s[h] = Free}
    BY SlotsEmpty
  <2> QED
    BY <2>1, <2>3, <2>4, <2>5, <2>6
<1> DEFINE InMoved(h) == \E e \in Entries : h \in moved[e]
<1>5. \A e \in Entries :
        /\ q[e] \in Seq(Handles) /\ q[e] \in Seq(moved[e])
        /\ \A i \in DOMAIN q[e] : q[e][i] \in moved[e]
        /\ \A i, j \in DOMAIN q[e] : q[e][i] = q[e][j] => i = j
  <2> SUFFICES ASSUME NEW e \in Entries
               PROVE  /\ q[e] \in Seq(Handles) /\ q[e] \in Seq(moved[e])
                      /\ \A i \in DOMAIN q[e] : q[e][i] \in moved[e]
                      /\ \A i, j \in DOMAIN q[e] : q[e][i] = q[e][j] => i = j
    OBVIOUS
  <2>1. q[e] \in Orders(moved[e])
    BY <1>3
  <2>2. PICK n : n = Cardinality(moved[e])
    OBVIOUS
  <2>3. /\ q[e] \in [1..n -> moved[e]]
        /\ \A i, j \in 1..n : q[e][i] = q[e][j] => i = j
    BY <2>1, <2>2 DEF Orders
  <2>4. n \in Nat
    BY <1>4, <2>2, HandlesAssumption, FS_Subset, FS_CardinalityType
  <2>5. q[e] \in Seq(moved[e])
    BY <2>3, <2>4
  <2>6. q[e] \in Seq(Handles)
    BY <1>4, <2>3, <2>4
  <2>7. DOMAIN q[e] = 1..n
    BY <2>3
  <2> QED
    BY <2>3, <2>5, <2>6, <2>7
\* The members of a lengthened queue.
<1>6. \A e \in Entries :
        /\ queue'[e] \in Seq(Handles)
        /\ \A i \in DOMAIN queue'[e] :
             \/ i \in DOMAIN queue[e] /\ queue'[e][i] = queue[e][i]
             \/ /\ i - Len(queue[e]) \in DOMAIN q[e]
                /\ queue'[e][i] = q[e][i - Len(queue[e])]
        /\ Len(queue[e]) \in Nat /\ DOMAIN queue'[e] \subseteq Int
  <2> SUFFICES ASSUME NEW e \in Entries
               PROVE  /\ queue'[e] \in Seq(Handles)
                      /\ \A i \in DOMAIN queue'[e] :
                           \/ i \in DOMAIN queue[e] /\ queue'[e][i] = queue[e][i]
                           \/ /\ i - Len(queue[e]) \in DOMAIN q[e]
                              /\ queue'[e][i] = q[e][i - Len(queue[e])]
                      /\ Len(queue[e]) \in Nat /\ DOMAIN queue'[e] \subseteq Int
    OBVIOUS
  <2>1. queue[e] \in Seq(Handles) /\ q[e] \in Seq(Handles)
    BY <1>5 DEF IInv, TypeOK
  <2>2. queue'[e] = queue[e] \o q[e]
    BY <1>3
  <2> QED
    BY <2>1, <2>2
<1>7. Queued' \subseteq Queued \cup {h \in Handles : InMoved(h)}
  <2> SUFFICES ASSUME NEW e \in Entries, NEW i \in DOMAIN queue'[e]
               PROVE  queue'[e][i] \in Queued \cup {h \in Handles : InMoved(h)}
    BY DEF Queued
  <2>1. CASE i \in DOMAIN queue[e] /\ queue'[e][i] = queue[e][i]
    BY <2>1 DEF Queued
  <2>2. CASE /\ i - Len(queue[e]) \in DOMAIN q[e]
             /\ queue'[e][i] = q[e][i - Len(queue[e])]
    BY <2>2, <1>4, <1>5
  <2> QED
    BY <2>1, <2>2, <1>6
<1>8. \A h \in Handles : InMoved(h) => h \in Pooled /\ h \notin stuck /\ h \notin Queued
  BY <1>4 DEF Pooled, IInv, OneOwner
<1>9. \A e, f \in Entries : \A i \in DOMAIN queue'[e], j \in DOMAIN queue'[f] :
        queue'[e][i] = queue'[f][j] => e = f /\ i = j
  <2> SUFFICES ASSUME NEW e \in Entries, NEW f \in Entries,
                      NEW i \in DOMAIN queue'[e], NEW j \in DOMAIN queue'[f],
                      queue'[e][i] = queue'[f][j]
               PROVE  e = f /\ i = j
    OBVIOUS
  <2> DEFINE I == i - Len(queue[e])
             J == j - Len(queue[f])
  <2>1. i \in Int /\ j \in Int /\ Len(queue[e]) \in Nat /\ Len(queue[f]) \in Nat
    BY <1>6
  <2>2. \/ i \in DOMAIN queue[e] /\ queue'[e][i] = queue[e][i]
        \/ I \in DOMAIN q[e] /\ queue'[e][i] = q[e][I]
    BY <1>6
  <2>3. \/ j \in DOMAIN queue[f] /\ queue'[f][j] = queue[f][j]
        \/ J \in DOMAIN q[f] /\ queue'[f][j] = q[f][J]
    BY <1>6
  <2>4. \A g \in Entries : \A k \in DOMAIN queue[g] : queue[g][k] \in Queued
    BY DEF Queued
  <2>5. \A g \in Entries : \A k \in DOMAIN q[g] :
          q[g][k] \in moved[g] /\ q[g][k] \in pool[g] /\ q[g][k] \notin Queued
    BY <1>4, <1>5, <1>8
  <2>6. CASE i \in DOMAIN queue[e] /\ queue'[e][i] = queue[e][i]
    <3>1. j \in DOMAIN queue[f] /\ queue'[f][j] = queue[f][j]
      <4>1. queue'[f][j] \in Queued
        BY <2>4, <2>6
      <4> HIDE DEF J
      <4> QED
        BY <2>3, <2>5, <4>1
    <3>2. queue[e][i] = queue[f][j]
      BY <2>6, <3>1
    <3> HIDE DEF I, J
    <3> QED
      BY <2>6, <3>1, <3>2 DEF IInv, OneOwner
  <2>7. CASE I \in DOMAIN q[e] /\ queue'[e][i] = q[e][I]
    <3>1. J \in DOMAIN q[f] /\ queue'[f][j] = q[f][J]
      <4> HIDE DEF I, J
      <4>1. queue'[f][j] \notin Queued
        BY <2>5, <2>7
      <4> QED
        BY <2>3, <2>4, <4>1
    <3>2. q[e][I] = q[f][J]
      BY <2>7, <3>1
    <3>3. e = f
      <4> HIDE DEF I, J
      <4>1. q[e][I] \in pool[e] /\ q[e][I] \in pool[f]
        BY <2>5, <2>7, <3>1, <3>2
      <4> QED
        BY <4>1 DEF IInv, OneOwner
    <3>4. I = J
      <4> HIDE DEF I, J
      <4> QED
        BY <1>5, <2>7, <3>1, <3>2, <3>3
    <3> QED
      BY <2>1, <3>3, <3>4
  <2> QED
    BY <2>2, <2>6, <2>7
<1>10. \A h \in F : h \in Handles /\ (h \in stuck \/ sock[h] = Free)
  BY <1>4
\* A new socket's slot was stuck in a pool or had no owner.
<1>11. /\ F \cap (Dialing \cup streams \cup Queued \cup closing) = {}
       /\ \A h \in F : ~InMoved(h)
       /\ F \cap reaped = {}
  <2>1. \A h \in F : h \in stuck \/ h \notin Owned
    BY <1>10 DEF IInv, HandlesLive
  <2>2. stuck \cap (Dialing \cup streams \cup Queued \cup closing) = {}
    BY <1>4 DEF IInv, OneOwner
  <2>3. F \cap (Dialing \cup streams \cup Queued \cup closing) = {}
    BY <2>1, <2>2 DEF Owned
  <2>4. \A h \in F : ~InMoved(h)
    BY <1>8, <1>10, <2>1 DEF Owned
  <2> QED
    BY <1>4, <2>3, <2>4
<1>12. \A e \in Entries :
         pool'[e] = (pool[e] \ (moved[e] \cup stuck)) \cup {h \in F : own[h] = e}
  BY <1>2
<1>13. /\ Pooled' \subseteq (Pooled \ stuck) \cup F
       /\ \A h \in Pooled' : ~InMoved(h)
  <2> SUFFICES ASSUME NEW e \in Entries, NEW h \in pool'[e]
               PROVE  h \in (Pooled \ stuck) \cup F /\ ~InMoved(h)
    BY DEF Pooled
  <2>1. CASE h \in F
    BY <1>11, <2>1
  <2>2. CASE h \in pool[e] \ (moved[e] \cup stuck)
    <3>1. \A f \in Entries : h \in pool[f] => f = e
      BY <2>2 DEF IInv, OneOwner
    <3> QED
      BY <1>4, <2>2, <3>1 DEF Pooled
  <2> QED
    BY <1>12, <2>1, <2>2
<1>14. \A e, f \in Entries : e # f => pool'[e] \cap pool'[f] = {}
  <2> SUFFICES ASSUME NEW e \in Entries, NEW f \in Entries, e # f,
                      NEW h, h \in pool'[e], h \in pool'[f]
               PROVE  FALSE
    OBVIOUS
  <2>1. CASE h \in F
    <3>1. \A g \in Entries : h \in pool[g] => h \in stuck
      BY <1>10, <2>1 DEF IInv, HandlesLive, Owned, Pooled
    <3> QED
      BY <1>12, <2>1, <3>1
  <2>2. CASE h \notin F
    <3>1. h \in pool[e] /\ h \in pool[f]
      BY <1>12, <2>2
    <3> QED
      BY <3>1 DEF IInv, OneOwner
  <2> QED
    BY <2>1, <2>2
<1>15. Dialing' = Dialing
  BY DEF Dialing
<1>16. closing' = closing \ reaped /\ streams' = streams /\ pending' = {}
  BY <1>2
<1>17. OneOwner'
  <2>1. \A c, e \in Dialers :
          dpc'[c] \in DialActive /\ dpc'[e] \in DialActive /\ dh'[c] = dh'[e] => c = e
    BY DEF IInv, OneOwner
  <2>2. Dialing \cap (streams \cup Pooled \cup Queued \cup closing) = {}
    BY DEF IInv, OneOwner
  <2>3. Queued' \subseteq Queued \cup Pooled
    BY <1>7, <1>8
  <2>4. Dialing' \cap (streams' \cup Pooled' \cup Queued' \cup closing') = {}
    BY <1>11, <1>13, <1>15, <1>16, <2>2, <2>3
  <2>5. /\ streams \cap (Pooled \cup Queued \cup closing) = {}
        /\ Pooled \cap (Queued \cup closing) = {} /\ Queued \cap closing = {}
    BY DEF IInv, OneOwner
  <2>6. streams' \cap (Pooled' \cup Queued' \cup closing') = {}
    BY <1>11, <1>13, <1>16, <2>3, <2>5
  <2>7. Pooled' \cap Queued' = {}
    BY <1>7, <1>11, <1>13, <2>5
  <2>8. Pooled' \cap closing' = {} /\ Queued' \cap closing' = {}
    BY <1>11, <1>13, <1>16, <2>3, <2>5
  <2> QED
    BY <1>9, <1>14, <1>16, <2>1, <2>4, <2>6, <2>7, <2>8 DEF OneOwner
<1>18. TypeOK'
  <2>1. sock' \in [Handles -> SockStates]
    BY <1>2 DEF SockStates
  <2>2. pool' \in [Entries -> SUBSET Handles]
    BY <1>2, <1>4, <1>10
  <2>3. queue' \in [Entries -> Seq(Handles)]
    BY <1>3, <1>6
  <2>4. since' \subseteq Handles
    <3>1. \A e \in Entries : HalfOpen(e, s, d) \subseteq Handles
      BY <1>4 DEF HalfOpen
    <3>2. since' = UNION {HalfOpen(e, s, d) : e \in Entries} \ stuck
      BY <1>2
    <3> HIDE DEF stuck
    <3> QED
      BY <3>1, <3>2
  <2>5. /\ apc' \in [Acceptors -> {"idle", "accepting", "blocked"}]
        /\ areg' \in [Acceptors -> Entries \cup {0}]
    BY <1>2, WakeAcceptorsType DEF IInv
  <2>6. rx' \subseteq Handles /\ old' \subseteq Handles /\ closing' \subseteq Handles
    BY <1>2 DEF IInv, TypeOK
  <2> QED
    BY <2>1, <2>2, <2>3, <2>4, <2>5, <2>6 DEF IInv, TypeOK
<1>19. HandlesLive'
  <2> SUFFICES ASSUME NEW h \in Owned'
               PROVE  sock'[h] # Free
    BY DEF HandlesLive
  <2>1. CASE h \in F
    BY <1>2, <1>10, <2>1 DEF Free
  <2>2. CASE h \notin F
    <3>1. h \in Owned /\ h \in Handles
      <4>1. Owned' \subseteq Owned \cup F
        BY <1>7, <1>8, <1>13, <1>15, <1>16 DEF Owned
      <4> QED
        BY <2>2, <4>1, OwnedType DEF IInv
    <3>2. h \notin stuck
      <4>1. h \in stuck => h \in Pooled /\ h \notin Pooled'
        BY <1>4, <1>13, <2>2
      <4>2. h \in stuck => h \notin Queued'
        BY <1>4, <1>7, <1>8 DEF IInv, OneOwner
      <4> QED
        BY <4>1, <4>2, <1>15, <1>16 DEF Owned, IInv, OneOwner
    <3>3. h \notin reaped
      <4>1. h \in reaped => h \in closing /\ h \notin closing'
        BY <1>4, <1>16
      <4>2. h \in closing => h \notin Pooled' /\ h \notin Queued'
        BY <1>7, <1>8, <1>13, <2>2 DEF IInv, OneOwner
      <4> QED
        BY <4>1, <4>2, <1>15, <1>16 DEF Owned, IInv, OneOwner
    <3>4. sock'[h] = s[h]
      BY <1>2, <2>2, <3>1, <3>2, <3>3
    <3> QED
      BY <3>1, <3>4 DEF IInv, HandlesLive
  <2> QED
    BY <2>1, <2>2
<1>20. PendingQueued'
  BY DEF PendingQueued
<1> QED
  BY <1>17, <1>18, <1>19, <1>20 DEF IInv

\* One turn of the poll loop: connects, a batch of packets, listeners, reaping.
LEMMA RunPollIInv ==
  ASSUME IInv, RunPoll
  PROVE  IInv'
<1>1. PICK ok \in SUBSET pending :
         /\ dpc' = ConnectResults(ok)
         /\ \E touched \in SUBSET Touchable(ProcessConnects(ok)) :
            \E f \in [touched -> UNION {Reach(ProcessConnects(ok)[h]) : h \in touched}] :
            LET s1 == ProcessConnects(ok)
                s == [h \in Handles |-> IF h \in touched THEN f[h] ELSE s1[h]]
            IN /\ \A h \in touched : f[h] \in Reach(s1[h])
               /\ \E new \in SUBSET NewData(touched, s1, s) : ServiceAndReap(s, rx \cup new)
  BY DEF RunPoll
<1> DEFINE s1 == ProcessConnects(ok)
<1>2. /\ s1 \in [Handles -> SockStates]
      /\ \A h \in Handles : s1[h] = Free <=> sock[h] = Free
  <2>1. \A h \in ok : h \in Handles /\ sock[h] # Free
    BY DEF IInv, HandlesLive, Owned, TypeOK
  <2>2. s1 = [h \in Handles |-> IF h \in ok THEN "SynSent" ELSE sock[h]]
    BY DEF ProcessConnects
  <2>3. "SynSent" \in SockStates /\ "SynSent" # Free
    BY DEF SockStates, Free
  <2> QED
    BY <2>1, <2>2, <2>3 DEF IInv, TypeOK
<1>3. PICK touched \in SUBSET Touchable(s1) :
         \E f \in [touched -> UNION {Reach(s1[h]) : h \in touched}] :
           LET s == [h \in Handles |-> IF h \in touched THEN f[h] ELSE s1[h]]
           IN /\ \A h \in touched : f[h] \in Reach(s1[h])
              /\ \E new \in SUBSET NewData(touched, s1, s) : ServiceAndReap(s, rx \cup new)
  BY <1>1
<1>4. PICK f \in [touched -> UNION {Reach(s1[h]) : h \in touched}] :
         LET s == [h \in Handles |-> IF h \in touched THEN f[h] ELSE s1[h]]
         IN /\ \A h \in touched : f[h] \in Reach(s1[h])
            /\ \E new \in SUBSET NewData(touched, s1, s) : ServiceAndReap(s, rx \cup new)
  BY <1>3
<1> DEFINE s == [h \in Handles |-> IF h \in touched THEN f[h] ELSE s1[h]]
<1>5. PICK new \in SUBSET NewData(touched, s1, s) : ServiceAndReap(s, rx \cup new)
  BY <1>4
<1>6. touched \subseteq Handles /\ \A h \in touched : s1[h] # Free
  BY DEF Touchable
<1>7. /\ s \in [Handles -> SockStates]
      /\ \A h \in Handles : s[h] = Free <=> sock[h] = Free
  <2>1. \A h \in touched : s1[h] \in SockStates /\ s1[h] # Free
    BY <1>2, <1>6
  <2>2. \A h \in touched : Reach(s1[h]) \subseteq SockStates \ {Free}
    BY <2>1, ReachType
  <2>3. \A h \in touched : f[h] \in SockStates \ {Free}
    BY <1>4, <2>2
  <2> HIDE DEF s1
  <2> QED
    BY <1>2, <1>6, <2>1, <2>3
<1>8. rx \cup new \in SUBSET Handles
  BY <1>6 DEF NewData, IInv, TypeOK
<1>9. /\ dpc' \in [Dialers -> DialEnded \cup DialActive]
      /\ \A c \in Dialers : dpc'[c] \in DialActive <=> dpc[c] \in DialActive
  BY <1>1 DEF ConnectResults, IInv, TypeOK, DialActive
<1>10. /\ pending' = {} /\ wakers' = {} /\ poller' = "check"
       /\ UNCHANGED <<dh, aport, port, closed, streams>>
  BY DEF RunPoll
<1> HIDE DEF s1, s
<1> QED
  BY <1>5, <1>7, <1>8, <1>9, <1>10, ServiceAndReapIInv

\* IInv is inductive.
LEMMA NextIInv == IInv /\ [Next]_vars => IInv'
<1> SUFFICES ASSUME IInv, [Next]_vars
             PROVE  IInv'
    OBVIOUS
<1>1. CASE UNCHANGED vars
  <2>1. TypeOK'
    BY <1>1 DEF vars, sockVars, lisVars, dialVars, accVars, IInv, TypeOK
  <2>2. UNCHANGED <<sock, pending, pool, queue, closing, streams, dialVars>>
    BY <1>1 DEF vars, sockVars, lisVars
  <2> QED
    BY <2>1, <2>2, SameOwnersIInv
<1>2. ASSUME NEW d \in Dialers, Dial(d) \/ CancelDial(d)
      PROVE  IInv'
  BY <1>2, DialCreateIInv, DialQueueIInv, DialConnectedIInv, DialFailedIInv,
     WaitConnectedIInv, ConnectTimeoutIInv, CancelDialIInv DEF Dial
<1>3. ASSUME NEW h \in Handles, Stream(h)
      PROVE  IInv'
  BY <1>3, ReadIInv, WriteIInv, ShutdownStreamIInv, DropOpenIInv DEF Stream
<1>4. ASSUME NEW a \in Acceptors, Listen(a)
      PROVE  IInv'
  BY <1>4, ListenTcpIInv, ListenTcpFailsIInv, AcceptIInv DEF Listen
<1>5. CASE RunPoll
  BY <1>5, RunPollIInv
<1>6. CASE Shutdown
  BY <1>6, ShutdownIInv
<1> QED
  BY <1>1, <1>2, <1>3, <1>4, <1>5, <1>6, QuietIInv DEF Next, Serve

\* The state of the netstack is always of its type.
THEOREM TypeCorrect == Spec => []TypeOK
<1>1. Init => IInv
  BY InitIInv
<1>2. IInv /\ [Next]_vars => IInv'
  BY NextIInv
<1>3. IInv => TypeOK
  BY DEF IInv
<1> QED
  BY <1>1, <1>2, <1>3, PTL DEF Spec

\* No task and no table of the netstack ever holds the slot of a removed
\* socket, whatever the interleaving of dials, cancellations, accepts, drops,
\* polls and shutdown: SocketSet::get cannot panic.
THEOREM NoStaleHandle == Spec => []HandlesLive
<1>1. Init => IInv
  BY InitIInv
<1>2. IInv /\ [Next]_vars => IInv'
  BY NextIInv
<1>3. IInv => HandlesLive
  BY DEF IInv
<1> QED
  BY <1>1, <1>2, <1>3, PTL DEF Spec

\* Every slot has at most one owner: no socket is removed, closed or handed
\* out by one path while another still uses it.
THEOREM UniqueOwner == Spec => []OneOwner
<1>1. Init => IInv
  BY InitIInv
<1>2. IInv /\ [Next]_vars => IInv'
  BY NextIInv
<1>3. IInv => OneOwner
  BY DEF IInv
<1> QED
  BY <1>1, <1>2, <1>3, PTL DEF Spec
=============================================================================
