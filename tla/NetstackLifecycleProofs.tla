----------------------- MODULE NetstackLifecycleProofs ----------------------
(***************************************************************************)
(* What follows from the owners of the slots (NetstackProofs): a listener  *)
(* always listens with a full pool, a netstack that is shut down carries   *)
(* no traffic and lets no stream sleep, and every step passes slots on as  *)
(* SlotOwnership allows.                                                   *)
(***************************************************************************)
EXTENDS NetstackProofs

\* The sockets once pending connects and a batch of packets are processed.
AfterBatch(s) ==
  /\ s \in [Handles -> SockStates]
  /\ \A h \in Handles :
       /\ s[h] = Free <=> sock[h] = Free
       /\ \/ s[h] = sock[h]
          \/ h \in pending /\ s[h] = "SynSent"
          \/ h \notin pending /\ sock[h] # Free /\ s[h] \in Reach(sock[h])

AllStuck(s, d) == UNION {Stuck(e, s, d) : e \in Entries}
AllMoved(s, d) == UNION {Moved(e, s, d) : e \in Entries}

\* What the poll loop makes of them: new sockets take the slots of F, for the
\* listeners own says.
Serviced(s, d, F, own) ==
  /\ F \subseteq AllStuck(s, d) \cup {h \in Handles : s[h] = Free}
  /\ \A e \in Entries :
       /\ Cardinality({h \in F : own[h] = e}) = Cardinality(Missing(e, s, d))
       /\ pool'[e] = (pool[e] \ (Moved(e, s, d) \cup AllStuck(s, d)))
                       \cup {h \in F : own[h] = e}
       /\ queue'[e] \in Seq(Handles)
       /\ Range(queue'[e]) = Range(queue[e]) \cup Moved(e, s, d)
  /\ closing' = closing \ Reaped(s)
  /\ sock' = [h \in Handles |->
                IF h \in F THEN "Listen"
                ELSE IF h \in AllStuck(s, d) \cup Reaped(s) THEN Free ELSE s[h]]

\* An order of a finite set of sockets names every one of them.
LEMMA OrdersRange ==
  ASSUME NEW S, IsFiniteSet(S), NEW q \in Orders(S)
  PROVE  q \in Seq(S) /\ Range(q) = S
<1> DEFINE n == Cardinality(S)
<1>1. n \in Nat
  BY FS_CardinalityType
<1>2. q \in [1..n -> S] /\ \A i, j \in 1..n : q[i] = q[j] => i = j
  BY DEF Orders
<1>3. q \in Injection(1..n, S)
  BY <1>2 DEF Injection, IsInjective
<1>4. Cardinality(1..n) = n
  BY <1>1, FS_Interval
<1>5. q \in Surjection(1..n, S)
  BY <1>3, <1>4, FS_Injection
<1>6. \A x \in S : \E i \in 1..n : q[i] = x
  BY <1>5 DEF Surjection
<1> HIDE DEF n
<1>7. Range(q) = S
  BY <1>2, <1>6 DEF Range
<1> QED
  BY <1>1, <1>2, <1>7

\* Appending one sequence to another adds its members.
LEMMA AppendRange ==
  ASSUME NEW T, NEW p \in Seq(T), NEW q \in Seq(T)
  PROVE  /\ p \o q \in Seq(T)
         /\ Range(p \o q) = Range(p) \cup Range(q)
<1> DEFINE r == p \o q
<1>1. /\ r \in Seq(T) /\ Len(p) \in Nat /\ Len(q) \in Nat
      /\ Len(r) = Len(p) + Len(q)
      /\ \A i \in 1..Len(r) :
           r[i] = IF i <= Len(p) THEN p[i] ELSE q[i - Len(p)]
  OBVIOUS
<1>2. DOMAIN r = 1..Len(r) /\ DOMAIN p = 1..Len(p) /\ DOMAIN q = 1..Len(q)
  BY <1>1
<1> HIDE DEF r
<1>3. \A i \in DOMAIN r : r[i] \in Range(p) \cup Range(q)
  <2> SUFFICES ASSUME NEW i \in DOMAIN r
               PROVE  r[i] \in Range(p) \cup Range(q)
    OBVIOUS
  <2>1. CASE i <= Len(p)
    BY <1>1, <1>2, <2>1 DEF Range
  <2>2. CASE ~(i <= Len(p))
    <3>1. i - Len(p) \in DOMAIN q /\ r[i] = q[i - Len(p)]
      BY <1>1, <1>2, <2>2
    <3> QED
      BY <3>1 DEF Range
  <2> QED
    BY <2>1, <2>2
<1>4. \A j \in DOMAIN p : j \in DOMAIN r /\ r[j] = p[j]
  BY <1>1, <1>2
<1>5. \A j \in DOMAIN q : Len(p) + j \in DOMAIN r /\ r[Len(p) + j] = q[j]
  BY <1>1, <1>2
<1>6. Range(r) = Range(p) \cup Range(q)
  BY <1>3, <1>4, <1>5 DEF Range
<1> QED
  BY <1>1, <1>6 DEF r

\* One turn of the poll loop in terms of the sockets after its batch.
LEMMA RunPollServes ==
  ASSUME IInv, RunPoll
  PROVE  \E s \in [Handles -> SockStates], d \in SUBSET Handles, F \in SUBSET Handles :
         \E own \in [F -> Entries] : AfterBatch(s) /\ Serviced(s, d, F, own)
<1>1. PICK ok \in SUBSET pending :
         \E touched \in SUBSET Touchable(ProcessConnects(ok)) :
            \E f \in [touched -> UNION {Reach(ProcessConnects(ok)[h]) : h \in touched}] :
            LET s1 == ProcessConnects(ok)
                s == [h \in Handles |-> IF h \in touched THEN f[h] ELSE s1[h]]
            IN /\ \A h \in touched : f[h] \in Reach(s1[h])
               /\ \E new \in SUBSET NewData(touched, s1, s) : ServiceAndReap(s, rx \cup new)
  BY DEF RunPoll
<1> DEFINE s1 == ProcessConnects(ok)
<1>2. PICK touched \in SUBSET Touchable(s1) :
         \E f \in [touched -> UNION {Reach(s1[h]) : h \in touched}] :
           LET s == [h \in Handles |-> IF h \in touched THEN f[h] ELSE s1[h]]
           IN /\ \A h \in touched : f[h] \in Reach(s1[h])
              /\ \E new \in SUBSET NewData(touched, s1, s) : ServiceAndReap(s, rx \cup new)
  BY <1>1
<1>3. PICK f \in [touched -> UNION {Reach(s1[h]) : h \in touched}] :
         LET s == [h \in Handles |-> IF h \in touched THEN f[h] ELSE s1[h]]
         IN /\ \A h \in touched : f[h] \in Reach(s1[h])
            /\ \E new \in SUBSET NewData(touched, s1, s) : ServiceAndReap(s, rx \cup new)
  BY <1>2
<1> DEFINE s == [h \in Handles |-> IF h \in touched THEN f[h] ELSE s1[h]]
<1>4. PICK new \in SUBSET NewData(touched, s1, s) : ServiceAndReap(s, rx \cup new)
  BY <1>3
<1> DEFINE d == rx \cup new
<1>5. \A h \in Handles :
        /\ h \in ok => s1[h] = "SynSent" /\ h \in pending /\ sock[h] # Free
        /\ h \notin ok => s1[h] = sock[h]
  BY DEF ProcessConnects, IInv, HandlesLive, Owned
<1>6. \A h \in touched : h \in Handles /\ h \notin pending /\ s1[h] = sock[h] /\ sock[h] # Free
  <2>1. \A h \in touched : h \in Handles /\ h \notin pending /\ s1[h] # Free
    BY DEF Touchable
  <2> QED
    BY <2>1, <1>5
<1>7. AfterBatch(s)
  <2>1. \A h \in touched : s[h] = f[h] /\ f[h] \in Reach(sock[h])
                             /\ f[h] \in SockStates \ {Free}
    <3>1. \A h \in touched : sock[h] \in SockStates /\ sock[h] # Free
      BY <1>6 DEF IInv, TypeOK
    <3>2. \A h \in touched : Reach(sock[h]) \subseteq SockStates \ {Free}
      BY <3>1, ReachType
    <3>3. \A h \in touched : f[h] \in Reach(s1[h]) /\ s[h] = f[h]
      BY <1>3, <1>6
    <3> HIDE DEF s, s1
    <3> QED
      BY <3>2, <3>3, <1>6
  <2>2. \A h \in Handles \ touched : s[h] = s1[h]
    OBVIOUS
  <2>3. s = [h \in Handles |-> s[h]]
    OBVIOUS
  <2>4. \A h \in Handles : sock[h] \in SockStates /\ "SynSent" \in SockStates /\ "SynSent" # Free
    BY DEF IInv, TypeOK, SockStates, Free
  <2>5. s \in [Handles -> SockStates]
    <3>1. \A h \in Handles : s[h] \in SockStates
      <4> HIDE DEF s, s1
      <4> QED
        BY <1>5, <2>1, <2>2, <2>4
    <3> HIDE DEF s
    <3> QED
      BY <2>3, <3>1
  <2>6. \A h \in Handles :
          /\ s[h] = Free <=> sock[h] = Free
          /\ \/ s[h] = sock[h]
             \/ h \in pending /\ s[h] = "SynSent"
             \/ h \notin pending /\ sock[h] # Free /\ s[h] \in Reach(sock[h])
    <3> HIDE DEF s, s1
    <3> QED
      BY <1>5, <1>6, <2>1, <2>2, <2>4
  <2> HIDE DEF s
  <2> QED
    BY <2>5, <2>6 DEF AfterBatch
<1>8. d \in SUBSET Handles
  BY <1>6 DEF NewData, IInv, TypeOK
<1> HIDE DEF s, d
<1>9. \E F \in SUBSET Handles : \E own \in [F -> Entries] : Serviced(s, d, F, own)
  <2> DEFINE moved == [e \in Entries |-> Moved(e, s, d)]
             stuck == UNION {Stuck(e, s, d) : e \in Entries}
             empty == stuck \cup {h \in Handles : s[h] = Free}
             short == Cardinality(UNION {{e} \X Missing(e, s, d) : e \in Entries})
  <2>0. ServiceAndReap(s, d)
    BY <1>4 DEF d
  <2>1. PICK F \in Slots(short, empty) : \E own \in [F -> Entries] :
       /\ \A e \in Entries :
            Cardinality({h \in F : own[h] = e}) = Cardinality(Missing(e, s, d))
       /\ pool' = [e \in Entries |->
                     (pool[e] \ (moved[e] \cup stuck)) \cup {h \in F : own[h] = e}]
       /\ \E q \in [Entries -> UNION {Orders(moved[e]) : e \in Entries}] :
            /\ \A e \in Entries : q[e] \in Orders(moved[e])
            /\ queue' = [e \in Entries |-> queue[e] \o q[e]]
       /\ closing' = closing \ Reaped(s)
       /\ sock' = [h \in Handles |->
                     IF h \in F THEN "Listen"
                     ELSE IF h \in stuck \cup Reaped(s) THEN Free ELSE s[h]]
    BY <2>0 DEF ServiceAndReap
  <2>2. PICK own \in [F -> Entries] :
       /\ \A e \in Entries :
            Cardinality({h \in F : own[h] = e}) = Cardinality(Missing(e, s, d))
       /\ pool' = [e \in Entries |->
                     (pool[e] \ (moved[e] \cup stuck)) \cup {h \in F : own[h] = e}]
       /\ \E q \in [Entries -> UNION {Orders(moved[e]) : e \in Entries}] :
            /\ \A e \in Entries : q[e] \in Orders(moved[e])
            /\ queue' = [e \in Entries |-> queue[e] \o q[e]]
       /\ closing' = closing \ Reaped(s)
       /\ sock' = [h \in Handles |->
                     IF h \in F THEN "Listen"
                     ELSE IF h \in stuck \cup Reaped(s) THEN Free ELSE s[h]]
    BY <2>1
  <2>3. PICK q \in [Entries -> UNION {Orders(moved[e]) : e \in Entries}] :
            /\ \A e \in Entries : q[e] \in Orders(moved[e])
            /\ queue' = [e \in Entries |-> queue[e] \o q[e]]
    BY <2>2
  <2>4. /\ \A e \in Entries : pool[e] \subseteq Handles /\ moved[e] = Moved(e, s, d)
                                /\ moved[e] \subseteq pool[e] /\ IsFiniteSet(moved[e])
    <3>1. \A e \in Entries : pool[e] \subseteq Handles /\ moved[e] = Moved(e, s, d)
                                /\ moved[e] \subseteq pool[e]
      BY DEF Moved, IInv, TypeOK
    <3> QED
      BY <3>1, HandlesAssumption, FS_Subset
  <2>5. F \subseteq empty /\ F \in SUBSET Handles
    <3>1. \A e \in Entries : Stuck(e, s, d) \subseteq pool[e]
      BY DEF Stuck, HalfOpen
    <3> QED
      BY <2>4, <3>1, SlotsEmpty
  <2>6. ASSUME NEW e \in Entries
        PROVE  /\ queue'[e] \in Seq(Handles)
               /\ Range(queue'[e]) = Range(queue[e]) \cup Moved(e, s, d)
    <3>1. q[e] \in Seq(moved[e]) /\ Range(q[e]) = moved[e]
      BY <2>3, <2>4, OrdersRange
    <3>2. q[e] \in Seq(Handles) /\ queue[e] \in Seq(Handles)
      <4>1. moved[e] \subseteq Handles
        BY <2>4
      <4>2. q[e] \in Seq(Handles)
        <5> HIDE DEF moved
        <5> QED
          BY <3>1, <4>1
      <4>3. queue[e] \in Seq(Handles)
        BY DEF IInv, TypeOK
      <4> QED
        BY <4>2, <4>3
    <3>3. queue'[e] = queue[e] \o q[e]
      BY <2>3
    <3>4. /\ queue[e] \o q[e] \in Seq(Handles)
          /\ Range(queue[e] \o q[e]) = Range(queue[e]) \cup Range(q[e])
      BY <3>2, AppendRange
    <3>5. moved[e] = Moved(e, s, d)
      BY <2>4
    <3> HIDE DEF moved
    <3> QED
      BY <3>1, <3>3, <3>4, <3>5
  <2>7. Serviced(s, d, F, own)
    <3>1. AllStuck(s, d) = stuck
      BY DEF AllStuck
    <3>2. F \subseteq AllStuck(s, d) \cup {h \in Handles : s[h] = Free}
      BY <2>5, <3>1
    <3>3. \A e \in Entries :
            /\ Cardinality({h \in F : own[h] = e}) = Cardinality(Missing(e, s, d))
            /\ pool'[e] = (pool[e] \ (Moved(e, s, d) \cup AllStuck(s, d)))
                            \cup {h \in F : own[h] = e}
      <4> HIDE DEF stuck
      <4> QED
        BY <2>2, <3>1
    <3>4. /\ closing' = closing \ Reaped(s)
          /\ sock' = [h \in Handles |->
                        IF h \in F THEN "Listen"
                        ELSE IF h \in AllStuck(s, d) \cup Reaped(s) THEN Free ELSE s[h]]
      <4> HIDE DEF stuck
      <4> QED
        BY <2>2, <3>1
    <3> QED
      BY <2>6, <3>2, <3>3, <3>4 DEF Serviced
  <2> QED
    BY <2>5, <2>7
<1> QED
  BY <1>7, <1>8, <1>9 DEF AfterBatch

-----------------------------------------------------------------------------
(* After shutdown *)

\* The inductive invariant: shutdown() closes every socket, and what dial_tcp
\* and listen_tcp add afterwards gets no further than the SYN.  The poll loop
\* runs at most once more, and does so before anything was sent; the queues
\* stay empty, so no accept() and no wait_connected makes a new stream.
QuietStates == {Free, "Closed", "Listen", "SynSent", "SynReceived", "FinWait"}

ClosedQuiet ==
  closed =>
    /\ \A h \in Handles : sock[h] \in QuietStates
    /\ poller = "select" => \A h \in Handles : sock[h] \in {Free, "Closed", "Listen"}
    /\ \A e \in Entries : queue[e] = <<>>
    /\ \A h \in streams : sock[h] = "Closed"
    /\ streams \cap wakers = {}

\* Socket::close leads to no open connection.
LEMMA CloseQuiet ==
  ASSUME NEW s
  PROVE  /\ s \in QuietStates => Close(s) \in QuietStates
         /\ s \in {Free, "Closed", "Listen"} => Close(s) \in {Free, "Closed", "Listen"}
         /\ s = "Closed" => Close(s) = "Closed"
BY DEF Close, QuietStates, Free

\* A step that adds closed sockets, closes some, and makes no stream, queue
\* entry or sleeping reader.
LEMMA ClosedKept ==
  ASSUME IInv, ClosedQuiet, closed, UNCHANGED queue,
         poller' = poller \/ poller' # "select",
         \A h \in Handles : \/ sock'[h] \in {sock[h], Close(sock[h])}
                            \/ sock[h] = Free /\ sock'[h] \in {"Closed", "Listen"},
         streams' \subseteq streams, streams' \cap wakers' = {}
  PROVE  ClosedQuiet'
<1>1. \A h \in Handles : sock'[h] \in QuietStates
  <2>1. \A h \in Handles : sock[h] \in QuietStates /\ Close(sock[h]) \in QuietStates
    BY CloseQuiet DEF ClosedQuiet
  <2> QED
    BY <2>1 DEF QuietStates
<1>2. poller' = "select" => \A h \in Handles : sock'[h] \in {Free, "Closed", "Listen"}
  <2> SUFFICES ASSUME poller' = "select", NEW h \in Handles
               PROVE  sock'[h] \in {Free, "Closed", "Listen"}
    OBVIOUS
  <2>1. sock[h] \in {Free, "Closed", "Listen"}
    BY DEF ClosedQuiet
  <2>2. Close(sock[h]) \in {Free, "Closed", "Listen"}
    BY <2>1, CloseQuiet
  <2> QED
    BY <2>1, <2>2
<1>3. \A h \in streams' : sock'[h] = "Closed"
  <2> SUFFICES ASSUME NEW h \in streams'
               PROVE  sock'[h] = "Closed"
    OBVIOUS
  <2>1. h \in Handles /\ sock[h] = "Closed" /\ sock[h] # Free
    BY DEF IInv, TypeOK, ClosedQuiet, Free
  <2>2. Close(sock[h]) = "Closed"
    BY <2>1, CloseQuiet
  <2> QED
    BY <2>1, <2>2
<1> QED
  BY <1>1, <1>2, <1>3 DEF ClosedQuiet

\* The last turn of the loop finds nothing but listening and closed sockets: it
\* sends SYNs and answers SYNs, and completes no handshake.
LEMMA RunPollQuiet ==
  ASSUME IInv, ClosedQuiet, closed, RunPoll
  PROVE  ClosedQuiet'
<1>1. PICK s \in [Handles -> SockStates], d \in SUBSET Handles, F \in SUBSET Handles :
         \E own \in [F -> Entries] : AfterBatch(s) /\ Serviced(s, d, F, own)
  BY RunPollServes
<1>2. PICK own \in [F -> Entries] : AfterBatch(s) /\ Serviced(s, d, F, own)
  BY <1>1
<1>3. \A h \in Handles : sock[h] \in {Free, "Closed", "Listen"}
  BY DEF ClosedQuiet, RunPoll
<1>4. \A h \in Handles : s[h] \in {Free, "Closed", "Listen", "SynSent", "SynReceived"}
  <2>1. \A h \in Handles : Reach(sock[h]) \subseteq {Free, "Closed", "Listen", "SynReceived"}
    BY <1>3 DEF Reach, Free
  <2> QED
    BY <1>2, <1>3, <2>1 DEF AfterBatch
<1>5. \A h \in Handles : sock'[h] \in QuietStates
  BY <1>2, <1>4 DEF Serviced, QuietStates
<1>6. \A e \in Entries : Moved(e, s, d) = {}
  BY <1>4 DEF Moved, MaySend, IInv, TypeOK, Free
<1>7. ASSUME NEW e \in Entries
      PROVE  queue'[e] = <<>>
  <2>1. queue'[e] \in Seq(Handles) /\ Range(queue'[e]) = Range(queue[e])
    BY <1>2, <1>6 DEF Serviced
  <2>2. queue[e] = <<>>
    BY DEF ClosedQuiet
  <2>3. Range(queue'[e]) = {}
    <3>1. Range(<<>>) = {}
      BY DEF Range
    <3> QED
      BY <2>1, <2>2, <3>1
  <2>4. Len(queue'[e]) \in Nat /\ DOMAIN queue'[e] = 1..Len(queue'[e])
    BY <2>1
  <2>5. Len(queue'[e]) = 0
    <3>1. Len(queue'[e]) # 0 => 1 \in DOMAIN queue'[e]
      BY <2>4
    <3> QED
      BY <2>3, <3>1 DEF Range
  <2> QED
    BY <2>1, <2>5
<1>8. ASSUME NEW h \in streams
      PROVE  sock'[h] = "Closed"
  <2>1. h \in Handles /\ sock[h] = "Closed" /\ h \notin pending
    BY DEF IInv, TypeOK, ClosedQuiet, OneOwner
  <2>2. s[h] = "Closed"
    BY <1>2, <2>1 DEF AfterBatch, Reach
  <2>3. h \notin Pooled /\ h \notin closing
    BY DEF IInv, OneOwner
  <2>4. h \notin AllStuck(s, d) /\ h \notin Reaped(s)
    BY <2>3 DEF AllStuck, Stuck, HalfOpen, Pooled, Reaped
  <2>5. h \notin F
    BY <1>2, <2>2, <2>4 DEF Serviced, Free
  <2> QED
    BY <1>2, <2>1, <2>2, <2>4, <2>5 DEF Serviced
<1> QED
  BY <1>5, <1>7, <1>8 DEF RunPoll, ClosedQuiet

\* ClosedQuiet is inductive relative to IInv.
LEMMA NextClosedQuiet == IInv /\ ClosedQuiet /\ [Next]_vars => ClosedQuiet'
<1> SUFFICES ASSUME IInv, ClosedQuiet, [Next]_vars
             PROVE  ClosedQuiet'
    OBVIOUS
<1>1. CASE Shutdown
  <2>1. \A h \in streams : h \in Handles /\ sock[h] # Free
    BY DEF IInv, TypeOK, HandlesLive, Owned
  <2> QED
    BY <1>1, <2>1 DEF Shutdown, ClosedQuiet, QuietStates
<1>2. CASE ~closed'
  BY <1>2 DEF ClosedQuiet
<1> SUFFICES ASSUME ~Shutdown, closed, closed'
             PROVE  ClosedQuiet'
  <2>1. Next /\ ~Shutdown => closed' = closed
    BY DEF Next, Serve, Dial, DialCreate, DialQueue, DialConnected, DialFailed,
           WaitConnected, ConnectTimeout, CancelDial, Stream, Read, Write,
           ShutdownStream, DropOpen, Expire, Listen, ListenTcp, ListenTcpFails,
           Accept, PollerCheck, RunPoll, DropListener, PollerLosesReader, AbortTasks
  <2> QED
    BY <1>1, <1>2, <2>1 DEF vars
<1> DEFINE Kept == \A h \in Handles :
                     \/ sock'[h] \in {sock[h], Close(sock[h])}
                     \/ sock[h] = Free /\ sock'[h] \in {"Closed", "Listen"}
\* No stream of a closed netstack sleeps, and none can read or write.
<1>3. \A h \in streams : sock[h] = "Closed" /\ h \notin wakers
  BY DEF ClosedQuiet
<1>4. CASE UNCHANGED vars
  BY <1>4, ClosedKept DEF vars, sockVars, lisVars, ClosedQuiet
<1>5. ASSUME NEW d \in Dialers, Dial(d) \/ CancelDial(d)
      PROVE  ClosedQuiet'
  <2>1. dpc[d] = "connecting" => dh[d] \in Handles /\ dh[d] \notin streams
    BY DEF IInv, TypeOK, OneOwner, Dialing, DialActive
  <2>2. dpc[d] = "connecting" => sock[dh[d]] # "Established"
    BY <2>1 DEF ClosedQuiet, QuietStates, Free
  <2>3. CASE DialCreate(d)
    <3>1. \E h \in Handles : sock[h] = Free /\ sock' = [sock EXCEPT ![h] = "Closed"]
      BY <2>3, SlotsEmpty DEF DialCreate, Empty
    <3>2. Kept
      BY <3>1 DEF IInv, TypeOK
    <3> QED
      BY <1>3, <2>3, <3>2, ClosedKept DEF DialCreate, lisVars
  <2>4. CASE DialQueue(d) \/ DialConnected(d) \/ DialFailed(d)
    BY <1>3, <2>4, ClosedKept
       DEF DialQueue, DialConnected, DialFailed, sockVars, lisVars
  <2>5. CASE WaitConnected(d)
    <3>1. Kept
      BY <2>1, <2>5 DEF WaitConnected, DropStream, IInv, TypeOK
    <3>2. streams' = streams /\ wakers' \subseteq wakers \cup {dh[d]} /\ dh[d] \notin streams
      BY <2>1, <2>2, <2>5 DEF WaitConnected, DropStream
    <3> QED
      BY <1>3, <2>5, <3>1, <3>2, ClosedKept DEF WaitConnected, lisVars
  <2>6. CASE ConnectTimeout(d) \/ CancelDial(d)
    <3>1. Kept
      BY <2>1, <2>6 DEF ConnectTimeout, CancelDial, DropStream, IInv, TypeOK
    <3>2. streams' = streams /\ wakers' \subseteq wakers
      BY <2>6 DEF ConnectTimeout, CancelDial, DropStream
    <3> QED
      BY <1>3, <2>6, <3>1, <3>2, ClosedKept DEF ConnectTimeout, CancelDial, lisVars
  <2> QED
    BY <1>5, <2>3, <2>4, <2>5, <2>6 DEF Dial
<1>6. ASSUME NEW h \in Handles, Stream(h) \/ Expire(h)
      PROVE  ClosedQuiet'
  <2>1. Kept
    BY <1>6 DEF Stream, Read, Write, ShutdownStream, DropOpen, DropStream, Expire,
                sockVars, IInv, TypeOK
  <2>2. streams' \subseteq streams /\ UNCHANGED <<poller, queue>>
    BY <1>6 DEF Stream, Read, Write, ShutdownStream, DropOpen, DropStream, Expire, lisVars
  <2>3. wakers' \subseteq wakers
    BY <1>3, <1>6 DEF Stream, Read, Write, ShutdownStream, DropOpen, DropStream, Expire,
                      MayRecv, MaySend
  <2> QED
    BY <1>3, <2>1, <2>2, <2>3, ClosedKept
<1>7. ASSUME NEW a \in Acceptors, Listen(a)
      PROVE  ClosedQuiet'
  <2>1. ASSUME NEW p \in Ports, ListenTcp(a, p) \/ ListenTcpFails(a, p)
        PROVE  ClosedQuiet'
    <3>1. \E S \in SUBSET Empty, new \in {"Closed", "Listen"} :
            sock' = [h \in Handles |-> IF h \in S THEN new ELSE sock[h]]
      BY <2>1, SlotsEmpty DEF ListenTcp, ListenTcpFails
    <3>2. Kept
      BY <3>1 DEF Empty
    <3> QED
      BY <1>3, <2>1, <3>2, ClosedKept DEF ListenTcp, ListenTcpFails, lisVars
  <2>2. CASE Accept(a)
    <3>1. \A e \in Entries : queue[e] = <<>>
      BY DEF ClosedQuiet
    <3> QED
      BY <1>3, <2>2, <3>1, ClosedKept DEF Accept, sockVars
  <2> QED
    BY <1>7, <2>1, <2>2 DEF Listen
<1>8. CASE RunPoll
  BY <1>8, RunPollQuiet
<1>9. CASE PollerCheck \/ PollerLosesReader \/ AbortTasks \/ \E a \in Acceptors : DropListener(a)
  <2>1. UNCHANGED <<sock, queue, streams, wakers>> /\ (poller' = poller \/ poller' # "select")
    BY <1>9 DEF PollerCheck, PollerLosesReader, AbortTasks, DropListener, sockVars, lisVars
  <2> QED
    BY <1>3, <2>1, ClosedKept
<1> QED
  BY <1>4, <1>5, <1>6, <1>7, <1>8, <1>9 DEF Next, Serve

\* Whatever dial_tcp, listen_tcp and the last turn of the poll loop do after
\* shutdown(), no connection is open again: neither looks at closed, but the
\* loop is gone before a handshake can complete.
THEOREM NoTrafficOnceClosed == Spec => []ClosedNoTraffic
<1>1. Init => IInv /\ ClosedQuiet
  BY InitIInv DEF Init, ClosedQuiet
<1>2. IInv /\ ClosedQuiet /\ [Next]_vars => IInv' /\ ClosedQuiet'
  BY NextIInv, NextClosedQuiet
<1>3. ClosedQuiet => ClosedNoTraffic
  BY DEF ClosedQuiet, ClosedNoTraffic, QuietStates, Free
<1> QED
  BY <1>1, <1>2, <1>3, PTL DEF Spec

\* After shutdown() no reader or writer of a TcpStream sleeps, or can go back to
\* sleep: "every in-flight socket operation fails instead of pending".
THEOREM NoStreamSleepsOnceClosed == Spec => []StreamsReleased
<1>1. Init => IInv /\ ClosedQuiet
  BY InitIInv DEF Init, ClosedQuiet
<1>2. IInv /\ ClosedQuiet /\ [Next]_vars => IInv' /\ ClosedQuiet'
  BY NextIInv, NextClosedQuiet
<1>3. ClosedQuiet => StreamsReleased
  BY DEF ClosedQuiet, StreamsReleased
<1> QED
  BY <1>1, <1>2, <1>3, PTL DEF Spec

-----------------------------------------------------------------------------
(* The listen pool *)

\* A step that leaves the listeners and the sockets of their pools alone.
LEMMA PoolKept ==
  ASSUME IInv, PoolToppedUp, UNCHANGED <<port, pool>>,
         \A h \in Pooled : sock'[h] = sock[h]
  PROVE  PoolToppedUp'
<1> SUFFICES ASSUME NEW e \in Entries, Live(e)'
             PROVE  Cardinality({h \in pool'[e] : sock'[h] = "Listen"}) >= LISTEN_POOL
    BY DEF PoolToppedUp
<1>1. {h \in pool'[e] : sock'[h] = "Listen"} = {h \in pool[e] : sock[h] = "Listen"}
  BY DEF Pooled
<1>2. Live(e)
  BY DEF Live
<1> QED
  BY <1>1, <1>2 DEF PoolToppedUp

\* The new sockets of listen_tcp take free slots, and there are LISTEN_POOL.
LEMMA ListenTcpPool ==
  ASSUME IInv, PoolToppedUp, NEW a \in Acceptors, NEW p \in Ports, ListenTcp(a, p)
  PROVE  PoolToppedUp'
<1>1. PICK e \in Entries, S \in Slots(LISTEN_POOL, Empty) :
         /\ sock' = [h \in Handles |-> IF h \in S THEN "Listen" ELSE sock[h]]
         /\ pool' = [pool EXCEPT ![e] = S]
         /\ port' = [port EXCEPT ![e] = p]
  BY DEF ListenTcp
<1>2. S \subseteq Empty /\ Cardinality(S) = LISTEN_POOL
  BY DEF Slots
<1>3. \A h \in Pooled : h \in Handles /\ sock'[h] = sock[h]
  <2>1. \A h \in Pooled : h \in Handles /\ sock[h] # Free
    BY OwnedType DEF IInv, HandlesLive, Owned
  <2> QED
    BY <1>1, <1>2, <2>1 DEF Empty
<1> SUFFICES ASSUME NEW f \in Entries, Live(f)'
             PROVE  Cardinality({h \in pool'[f] : sock'[h] = "Listen"}) >= LISTEN_POOL
    BY DEF PoolToppedUp
<1>4. CASE f = e
  <2>1. pool'[f] = S
    BY <1>1, <1>4 DEF IInv, TypeOK
  <2>2. {h \in pool'[f] : sock'[h] = "Listen"} = S
    BY <1>1, <1>2, <2>1 DEF Empty
  <2> QED
    BY <1>2, <2>2, ListenPoolAssumption
<1>5. CASE f # e
  <2>1. pool'[f] = pool[f] /\ Live(f)
    BY <1>1, <1>5 DEF IInv, TypeOK, Live
  <2>2. {h \in pool'[f] : sock'[h] = "Listen"} = {h \in pool[f] : sock[h] = "Listen"}
    BY <1>3, <2>1 DEF Pooled
  <2> QED
    BY <2>1, <2>2 DEF PoolToppedUp
<1> QED
  BY <1>4, <1>5

\* service_listeners replaces what left LISTEN, socket for socket.
LEMMA RunPollPool ==
  ASSUME IInv, RunPoll
  PROVE  PoolToppedUp'
<1>1. PICK s \in [Handles -> SockStates], d \in SUBSET Handles, F \in SUBSET Handles :
         \E own \in [F -> Entries] : AfterBatch(s) /\ Serviced(s, d, F, own)
  BY RunPollServes
<1>2. PICK own \in [F -> Entries] : AfterBatch(s) /\ Serviced(s, d, F, own)
  BY <1>1
<1> SUFFICES ASSUME NEW e \in Entries, Live(e)'
             PROVE  Cardinality({h \in pool'[e] : sock'[h] = "Listen"}) >= LISTEN_POOL
    BY DEF PoolToppedUp
<1> DEFINE kept == pool[e] \ (Moved(e, s, d) \cup HalfOpen(e, s, d))
           new == {h \in F : own[h] = e}
           listening == {h \in pool'[e] : sock'[h] = "Listen"}
<1>3. Live(e)
  BY DEF RunPoll, Live
<1>4. \A h \in kept : h \in Handles /\ h \in pool[e] /\ s[h] = "Listen"
  BY DEF HalfOpen, IInv, TypeOK
<1>5. \A h \in kept : h \notin AllStuck(s, d) /\ h \notin Reaped(s)
  <2> SUFFICES ASSUME NEW h \in kept
               PROVE  h \notin AllStuck(s, d) /\ h \notin Reaped(s)
    OBVIOUS
  <2>1. \A f \in Entries : h \in pool[f] => f = e
    BY DEF IInv, OneOwner
  <2>2. h \notin AllStuck(s, d)
    BY <2>1 DEF AllStuck, Stuck, HalfOpen
  <2>3. h \notin closing
    BY DEF IInv, OneOwner, Pooled
  <2> QED
    BY <2>2, <2>3 DEF Reaped
<1>6. kept \subseteq listening /\ new \subseteq listening
  <2>1. pool'[e] = (pool[e] \ (Moved(e, s, d) \cup AllStuck(s, d))) \cup new
    BY <1>2 DEF Serviced
  <2>2. \A h \in kept \cup new : sock'[h] = "Listen"
    BY <1>2, <1>4, <1>5 DEF Serviced
  <2>3. kept \subseteq pool'[e]
    BY <1>5, <2>1
  <2> HIDE DEF kept, new
  <2> QED
    BY <2>1, <2>2, <2>3
<1>7. kept \cap new = {}
  BY <1>2, <1>4, <1>5 DEF Serviced, Free
<1>8. IsFiniteSet(kept) /\ IsFiniteSet(new) /\ IsFiniteSet(listening)
  <2>1. kept \subseteq Handles /\ new \subseteq Handles
    BY <1>4
  <2>2. listening \subseteq Handles
    BY RunPollIInv DEF IInv, TypeOK
  <2> HIDE DEF kept, new, listening
  <2> QED
    BY <2>1, <2>2, HandlesAssumption, FS_Subset
<1> DEFINE k == Cardinality(kept)
<1>9. k \in Nat /\ Cardinality(new) \in Nat /\ Cardinality(listening) \in Nat
  BY <1>8, FS_CardinalityType
<1>10. Cardinality(new) = IF k + 1 > LISTEN_POOL THEN 0 ELSE LISTEN_POOL - k
  <2>1. Cardinality(new) = Cardinality(Missing(e, s, d))
    BY <1>2 DEF Serviced
  <2>2. Missing(e, s, d) = {i \in 1..LISTEN_POOL : i > k}
    BY <1>3 DEF Missing
  <2>3. {i \in 1..LISTEN_POOL : i > k} = (k + 1)..LISTEN_POOL
    <3> HIDE DEF k
    <3> QED
      BY <1>9, ListenPoolAssumption
  <2>4. Cardinality((k + 1)..LISTEN_POOL) =
          IF k + 1 > LISTEN_POOL THEN 0 ELSE LISTEN_POOL - (k + 1) + 1
    <3> HIDE DEF k
    <3> QED
      BY <1>9, ListenPoolAssumption, FS_Interval
  <2> HIDE DEF k, new
  <2>5. Cardinality(new) = Cardinality((k + 1)..LISTEN_POOL)
    BY <2>1, <2>2, <2>3, Zenon
  <2>6. LISTEN_POOL - (k + 1) + 1 = LISTEN_POOL - k
    BY <1>9, ListenPoolAssumption
  <2> QED
    BY <2>4, <2>5, <2>6
<1>11. Cardinality(kept \cup new) = k + Cardinality(new)
  <2>1. Cardinality(kept \cup new) = k + Cardinality(new) - Cardinality(kept \cap new)
    <3> HIDE DEF kept, new
    <3> QED
      BY <1>8, FS_Union
  <2>2. Cardinality(kept \cap new) = 0
    BY <1>7, FS_EmptySet
  <2> HIDE DEF kept, new, k
  <2> QED
    BY <1>9, <2>1, <2>2
<1>12. Cardinality(kept \cup new) <= Cardinality(listening)
  <2> HIDE DEF kept, new, listening
  <2> QED
    BY <1>6, <1>8, FS_Subset
<1> HIDE DEF kept, new, listening, k
<1>13. Cardinality(listening) >= LISTEN_POOL
  BY <1>9, <1>10, <1>11, <1>12, ListenPoolAssumption
<1> QED
  BY <1>13 DEF listening

\* PoolToppedUp is inductive relative to IInv.
LEMMA NextPool == IInv /\ PoolToppedUp /\ [Next]_vars => PoolToppedUp'
<1> SUFFICES ASSUME IInv, PoolToppedUp, [Next]_vars
             PROVE  PoolToppedUp'
    OBVIOUS
<1>1. CASE UNCHANGED vars
  BY <1>1, PoolKept DEF vars, sockVars, lisVars
<1>2. Pooled \subseteq Handles /\ \A h \in Pooled : sock[h] # Free
  BY OwnedType DEF IInv, HandlesLive, Owned
<1>3. ASSUME NEW d \in Dialers, Dial(d) \/ CancelDial(d)
      PROVE  PoolToppedUp'
  <2>1. UNCHANGED <<port, pool>>
    BY <1>3 DEF Dial, DialCreate, DialQueue, DialConnected, DialFailed, WaitConnected,
                ConnectTimeout, CancelDial, lisVars
  <2>2. dpc[d] = "connecting" => dh[d] \notin Pooled
    BY DEF IInv, OneOwner, Dialing, DialActive
  <2>3. \A h \in Pooled : sock'[h] = sock[h]
    <3>1. CASE DialCreate(d)
      <4>1. \E h \in Handles : sock[h] = Free /\ sock' = [sock EXCEPT ![h] = "Closed"]
        BY <3>1, SlotsEmpty DEF DialCreate, Empty
      <4> QED
        BY <1>2, <4>1 DEF IInv, TypeOK
    <3>2. CASE ~DialCreate(d)
      BY <1>2, <1>3, <2>2, <3>2
         DEF Dial, DialQueue, DialConnected, DialFailed, WaitConnected,
             ConnectTimeout, CancelDial, DropStream, sockVars, IInv, TypeOK
    <3> QED
      BY <3>1, <3>2
  <2> QED
    BY <2>1, <2>3, PoolKept
<1>4. ASSUME NEW h \in Handles, Stream(h) \/ Expire(h)
      PROVE  PoolToppedUp'
  <2>1. h \in streams => h \notin Pooled
    BY DEF IInv, OneOwner
  <2>2. UNCHANGED <<port, pool>>
    BY <1>4 DEF Stream, Read, Write, ShutdownStream, DropOpen, Expire, lisVars
  <2>3. \/ UNCHANGED sock
        \/ h \in streams /\ sock' = [sock EXCEPT ![h] = Close(@)]
    BY <1>4 DEF Stream, Read, Write, ShutdownStream, DropOpen, DropStream, Expire, sockVars
  <2>4. \A g \in Pooled : sock'[g] = sock[g]
    BY <1>2, <2>1, <2>3 DEF IInv, TypeOK
  <2> QED
    BY <2>2, <2>4, PoolKept
<1>5. ASSUME NEW a \in Acceptors, Listen(a)
      PROVE  PoolToppedUp'
  <2>1. ASSUME NEW p \in Ports, ListenTcpFails(a, p)
        PROVE  PoolToppedUp'
    <3>1. \E S \in SUBSET Empty :
            sock' = [h \in Handles |-> IF h \in S THEN "Closed" ELSE sock[h]]
      BY <2>1, SlotsEmpty DEF ListenTcpFails
    <3>2. \A h \in Pooled : sock'[h] = sock[h]
      BY <1>2, <3>1 DEF Empty
    <3> QED
      BY <2>1, <3>2, PoolKept DEF ListenTcpFails, lisVars
  <2>2. CASE Accept(a)
    BY <2>2, PoolKept DEF Accept, sockVars
  <2> QED
    BY <1>5, <2>1, <2>2, ListenTcpPool DEF Listen
<1>6. CASE RunPoll
  BY <1>6, RunPollPool
<1>7. CASE Shutdown
  BY <1>7 DEF Shutdown, PoolToppedUp, Live
<1>8. CASE PollerCheck \/ PollerLosesReader \/ AbortTasks \/ \E a \in Acceptors : DropListener(a)
  <2>1. UNCHANGED <<sock, port, pool>>
    BY <1>8 DEF PollerCheck, PollerLosesReader, AbortTasks, DropListener, sockVars, lisVars
  <2> QED
    BY <2>1, PoolKept
<1> QED
  BY <1>1, <1>3, <1>4, <1>5, <1>6, <1>7, <1>8 DEF Next, Serve

\* Whenever the lock is free every listener has LISTEN_POOL sockets in LISTEN,
\* whatever handshakes, resets, timeouts and reaped sockets came before.
THEOREM PoolAlwaysToppedUp == Spec => []PoolToppedUp
<1>1. Init => IInv /\ PoolToppedUp
  BY InitIInv DEF Init, PoolToppedUp, Live
<1>2. IInv /\ PoolToppedUp /\ [Next]_vars => IInv' /\ PoolToppedUp'
  BY NextIInv, NextPool
<1> QED
  BY <1>1, <1>2, PTL DEF Spec

-----------------------------------------------------------------------------
(* Netstack implements SlotOwnership *)

\* With one owner per slot and no removed slot owned, OwnerOf names the owner
\* whatever the order of its cases.
OwnerTable ==
  \A h \in Handles :
    /\ OwnerOf(h) \in Ownership!Owners
    /\ OwnerOf(h) = "free"    <=> sock[h] = Free
    /\ OwnerOf(h) = "dial"    <=> h \in Dialing \cup pending
    /\ OwnerOf(h) = "stream"  <=> h \in streams
    /\ OwnerOf(h) = "pool"    <=> h \in Pooled
    /\ OwnerOf(h) = "queue"   <=> h \in Queued
    /\ OwnerOf(h) = "closing" <=> h \in closing
    /\ OwnerOf(h) = "leaked"  <=> sock[h] # Free /\ h \notin Owned

\* OwnerTable follows from the netstack's inductive invariant.
LEMMA OwnerTableHolds == IInv => OwnerTable
<1> SUFFICES ASSUME IInv, NEW h \in Handles
             PROVE  /\ OwnerOf(h) \in Ownership!Owners
                    /\ OwnerOf(h) = "free"    <=> sock[h] = Free
                    /\ OwnerOf(h) = "dial"    <=> h \in Dialing \cup pending
                    /\ OwnerOf(h) = "stream"  <=> h \in streams
                    /\ OwnerOf(h) = "pool"    <=> h \in Pooled
                    /\ OwnerOf(h) = "queue"   <=> h \in Queued
                    /\ OwnerOf(h) = "closing" <=> h \in closing
                    /\ OwnerOf(h) = "leaked"  <=> sock[h] # Free /\ h \notin Owned
    BY DEF OwnerTable
<1>1. sock[h] = Free => h \notin Owned
  BY DEF IInv, HandlesLive
<1>2. /\ h \in Dialing \cup pending => h \notin streams \cup Pooled \cup Queued \cup closing
      /\ h \in streams => h \notin Pooled \cup Queued \cup closing
      /\ h \in Pooled => h \notin Queued \cup closing
      /\ h \in Queued => h \notin closing
  BY DEF IInv, OneOwner
<1>3. \/ sock[h] = Free /\ h \notin Owned
      \/ sock[h] # Free /\ h \in Dialing \cup pending
      \/ sock[h] # Free /\ h \in streams
      \/ sock[h] # Free /\ h \in Pooled
      \/ sock[h] # Free /\ h \in Queued
      \/ sock[h] # Free /\ h \in closing
      \/ sock[h] # Free /\ h \notin Owned
  BY <1>1 DEF Owned
<1>4. CASE sock[h] = Free /\ h \notin Owned
  BY <1>4 DEF OwnerOf, Owned, Ownership!Owners
<1>5. CASE sock[h] # Free /\ h \in Dialing \cup pending
  BY <1>2, <1>5 DEF OwnerOf, Owned, Ownership!Owners
<1>6. CASE sock[h] # Free /\ h \in streams
  BY <1>2, <1>6 DEF OwnerOf, Owned, Ownership!Owners
<1>7. CASE sock[h] # Free /\ h \in Pooled
  BY <1>2, <1>7 DEF OwnerOf, Owned, Ownership!Owners
<1>8. CASE sock[h] # Free /\ h \in Queued
  BY <1>2, <1>8 DEF OwnerOf, Owned, Ownership!Owners
<1>9. CASE sock[h] # Free /\ h \in closing
  BY <1>2, <1>9 DEF OwnerOf, Owned, Ownership!Owners
<1>10. CASE sock[h] # Free /\ h \notin Owned
  BY <1>10 DEF OwnerOf, Owned, Ownership!Owners
<1> QED
  BY <1>3, <1>4, <1>5, <1>6, <1>7, <1>8, <1>9, <1>10

\* The owner of slot h stays or changes as SlotOwnership allows.
Passed(h) ==
  OwnerOf(h)' # OwnerOf(h) => <<OwnerOf(h), OwnerOf(h)'>> \in Ownership!Moves

\* The legal changes of owner, one by one.
LEMMA PassedIf ==
  ASSUME OwnerTable, OwnerTable', NEW h \in Handles,
         \/ sock[h] = Free /\ (sock'[h] = Free \/ h \in Dialing' \cup Pooled' \/ h \notin Owned')
         \/ h \in Dialing \cup pending /\ sock'[h] # Free
              /\ (h \in Dialing' \cup pending' \cup streams' \cup closing' \/ h \notin Owned')
         \/ h \in streams /\ h \in streams' \cup closing'
         \/ h \in Pooled /\ (sock'[h] = Free \/ h \in Pooled' \cup Queued')
         \/ h \in Queued /\ h \in Queued' \cup streams'
         \/ h \in closing /\ (sock'[h] = Free \/ h \in closing')
         \/ sock[h] # Free /\ h \notin Owned /\ sock'[h] # Free /\ h \notin Owned'
  PROVE  Passed(h)
BY DEF OwnerTable, Passed, Ownership!Moves

\* Past the end of the listeners vector there is no pool that listen_tcp's new
\* entry could overwrite.
NoStrayPool == \A e \in Entries : ~Live(e) => pool[e] = {}

\* NoStrayPool is inductive relative to IInv: only live entries are topped up.
LEMMA NextNoStrayPool == IInv /\ NoStrayPool /\ [Next]_vars => NoStrayPool'
<1> SUFFICES ASSUME IInv, NoStrayPool, [Next]_vars
             PROVE  NoStrayPool'
    OBVIOUS
<1>1. CASE UNCHANGED <<port, pool>>
  BY <1>1 DEF NoStrayPool, Live
<1>2. ASSUME NEW a \in Acceptors, NEW p \in Ports, ListenTcp(a, p)
      PROVE  NoStrayPool'
  <2>1. PICK e \in Entries, S \in Slots(LISTEN_POOL, Empty) :
           pool' = [pool EXCEPT ![e] = S] /\ port' = [port EXCEPT ![e] = p]
    BY <1>2 DEF ListenTcp
  <2>2. p # NoPort
    BY PortsAssumption DEF NoPort
  <2>3. \A f \in Entries : /\ port'[f] = IF f = e THEN p ELSE port[f]
                           /\ f # e => pool'[f] = pool[f]
    BY <2>1 DEF IInv, TypeOK
  <2> QED
    BY <2>2, <2>3 DEF NoStrayPool, Live
<1>3. CASE Shutdown
  BY <1>3 DEF Shutdown, NoStrayPool
<1>4. CASE RunPoll
  <2>1. PICK s \in [Handles -> SockStates], d \in SUBSET Handles, F \in SUBSET Handles :
           \E own \in [F -> Entries] : AfterBatch(s) /\ Serviced(s, d, F, own)
    BY <1>4, RunPollServes
  <2>2. PICK own \in [F -> Entries] : AfterBatch(s) /\ Serviced(s, d, F, own)
    BY <2>1
  <2> SUFFICES ASSUME NEW e \in Entries, ~Live(e)'
               PROVE  pool'[e] = {}
    BY DEF NoStrayPool
  <2>3. ~Live(e) /\ pool[e] = {}
    BY <1>4 DEF RunPoll, Live, NoStrayPool
  <2>4. Missing(e, s, d) = {}
    BY <2>3 DEF Missing
  <2> DEFINE new == {h \in F : own[h] = e}
  <2>5. IsFiniteSet(new)
    BY HandlesAssumption, FS_Subset
  <2>6. Cardinality(new) = 0
    <3>1. Cardinality(new) = Cardinality(Missing(e, s, d))
      BY <2>2 DEF Serviced
    <3> QED
      BY <2>4, <3>1, FS_EmptySet
  <2>7. new = {}
    <3> HIDE DEF new
    <3> QED
      BY <2>5, <2>6, FS_EmptySet
  <2> QED
    BY <2>2, <2>3, <2>7 DEF Serviced
<1>5. \/ UNCHANGED <<port, pool>> \/ Shutdown \/ RunPoll
      \/ \E a \in Acceptors, p \in Ports : ListenTcp(a, p)
  BY DEF Next, Serve, Dial, DialCreate, DialQueue, DialConnected, DialFailed,
         WaitConnected, ConnectTimeout, CancelDial, Stream, Read, Write,
         ShutdownStream, DropOpen, Expire, Listen, ListenTcpFails,
         Accept, PollerCheck, DropListener, PollerLosesReader, AbortTasks, vars, lisVars
<1> QED
  BY <1>1, <1>2, <1>3, <1>4, <1>5

\* A step that changes no owner.
LEMMA SameOwnersPass ==
  ASSUME OwnerTable, OwnerTable', NEW h \in Handles,
         sock'[h] = Free <=> sock[h] = Free,
         Dialing' \cup pending' = Dialing \cup pending,
         UNCHANGED <<streams, Pooled, Queued, closing>>
  PROVE  Passed(h)
<1>1. Owned' = Owned
  BY DEF Owned
<1> QED
  BY <1>1, PassedIf DEF Owned

\* The steps of dial_tcp: a free slot to the dial, and the dial's slot to a
\* stream, to the closing list, or to nobody.
LEMMA DialPasses ==
  ASSUME IInv, OwnerTable, OwnerTable', NEW d \in Dialers, Dial(d) \/ CancelDial(d),
         NEW h \in Handles
  PROVE  Passed(h)
<1>1. Pooled' = Pooled /\ Queued' = Queued
  BY DEF Dial, DialCreate, DialQueue, DialConnected, DialFailed, WaitConnected,
         ConnectTimeout, CancelDial, lisVars, Pooled, Queued
<1>2. CASE DialCreate(d)
  <2>1. PICK g \in Handles : /\ sock[g] = Free
                             /\ sock' = [sock EXCEPT ![g] = "Closed"]
                             /\ dh' = [dh EXCEPT ![d] = g]
    BY <1>2, SlotsEmpty DEF DialCreate, Empty
  <2>2. Dialing' = Dialing \cup {g}
    BY <1>2, <2>1 DEF DialCreate, IInv, TypeOK, Dialing, DialActive, DialEnded
  <2>3. UNCHANGED <<pending, streams, closing>>
    BY <1>2 DEF DialCreate
  <2>4. Owned' = Owned \cup {g}
    BY <1>1, <2>2, <2>3 DEF Owned
  <2>5. g # h => sock'[h] = sock[h]
    BY <2>1 DEF IInv, TypeOK
  <2> QED
    BY <1>1, <2>1, <2>2, <2>3, <2>4, <2>5, PassedIf DEF Owned
<1>3. CASE DialQueue(d) \/ DialConnected(d)
  <2>1. \A c \in Dialers : dpc'[c] \in DialActive <=> dpc[c] \in DialActive
    BY <1>3 DEF DialQueue, DialConnected, IInv, TypeOK, DialActive
  <2>2. Dialing' = Dialing
    BY <1>3, <2>1 DEF DialQueue, DialConnected, Dialing
  <2>3. DialQueue(d) => dh[d] \in Dialing
    BY DEF DialQueue, Dialing, DialActive
  <2>4. Dialing' \cup pending' = Dialing \cup pending
    BY <1>3, <2>2, <2>3 DEF DialQueue, DialConnected
  <2> QED
    BY <1>1, <1>3, <2>4, SameOwnersPass DEF DialQueue, DialConnected, sockVars
<1>4. CASE WaitConnected(d) /\ UNCHANGED <<sock, streams, closing, dialVars>>
  <2>1. Dialing' = Dialing
    BY <1>4 DEF Dialing, dialVars
  <2> QED
    BY <1>1, <1>4, <2>1, SameOwnersPass DEF WaitConnected
<1>5. CASE /\ dpc[d] \in DialActive /\ \E outcome \in DialEnded : DialEnd(d, outcome)
           /\ UNCHANGED pending
           /\ \/ UNCHANGED <<sock, closing, streams>>
              \/ streams' = streams \cup {dh[d]} /\ UNCHANGED <<sock, closing>>
              \/ DropStream(dh[d]) /\ UNCHANGED streams
  <2>1. Dialing' = Dialing \ {dh[d]} /\ dh[d] \in Handles /\ dh[d] \in Dialing
    BY <1>5, DialEndFacts
  <2>2. sock[dh[d]] # Free
    BY <2>1 DEF IInv, HandlesLive, Owned
  <2>3. sock'[h] = Free <=> sock[h] = Free
    <3>1. CASE UNCHANGED sock
      BY <3>1
    <3>2. CASE DropStream(dh[d])
      <4>1. Close(sock[dh[d]]) # Free
        BY <2>1, <2>2, CloseType DEF IInv, TypeOK
      <4> QED
        BY <2>1, <2>2, <3>2, <4>1 DEF DropStream, IInv, TypeOK
    <3> QED
      BY <1>5, <3>1, <3>2
  <2>4. \/ closing' = closing /\ streams' = streams
        \/ closing' = closing /\ streams' = streams \cup {dh[d]}
        \/ closing' = closing \cup {dh[d]} /\ streams' = streams
    BY <1>5 DEF DropStream
  <2>5. Owned' \subseteq Owned
    BY <1>1, <1>5, <2>1, <2>4 DEF Owned
  <2>6. CASE h \notin Owned
    BY <2>3, <2>5, <2>6, PassedIf
  <2>7. CASE h \in Dialing \cup pending
    <3>1. sock'[h] # Free
      BY <2>3, <2>7 DEF IInv, HandlesLive, Owned
    <3>2. h \notin streams \cup Pooled \cup Queued \cup closing
      BY <2>7 DEF IInv, OneOwner
    <3>3. h \in Dialing' \cup pending' \cup streams' \cup closing' \/ h \notin Owned'
      BY <1>1, <2>4, <3>2 DEF Owned
    <3> QED
      BY <2>7, <3>1, <3>3, PassedIf
  <2>8. CASE h \in streams \cup Pooled \cup Queued \cup closing
    BY <1>1, <2>4, <2>8, PassedIf
  <2> QED
    BY <2>6, <2>7, <2>8 DEF Owned
<1>6. CASE DialFailed(d) \/ WaitConnected(d) \/ ConnectTimeout(d) \/ CancelDial(d)
  <2>1. DialEnded = {"idle", "refused"} /\ dpc[d] \in DialActive
    BY <1>6 DEF DialEnded, DialActive, DialFailed, WaitConnected, ConnectTimeout, CancelDial
  <2> QED
    BY <1>4, <1>5, <1>6, <2>1
       DEF DialFailed, WaitConnected, ConnectTimeout, CancelDial, sockVars
<1> QED
  BY <1>2, <1>3, <1>6 DEF Dial

\* The steps of a TcpStream: its slot goes to nobody but the closing list.
LEMMA StreamPasses ==
  ASSUME IInv, OwnerTable, OwnerTable', NEW g \in Handles, Stream(g) \/ Expire(g),
         NEW h \in Handles
  PROVE  Passed(h)
<1>1. Pooled' = Pooled /\ Queued' = Queued /\ Dialing' = Dialing /\ pending' = pending
  <2>1. UNCHANGED <<pool, queue, dpc, dh, pending>>
    BY DEF Stream, Read, Write, ShutdownStream, DropOpen, Expire, lisVars, dialVars
  <2> QED
    BY <2>1 DEF Pooled, Queued, Dialing
<1>2. sock'[h] = Free <=> sock[h] = Free
  <2>1. g \in streams => sock[g] # Free /\ Close(sock[g]) # Free
    BY CloseType DEF IInv, HandlesLive, Owned, TypeOK
  <2>2. \/ UNCHANGED sock
        \/ g \in streams /\ sock' = [sock EXCEPT ![g] = Close(@)]
    BY DEF Stream, Read, Write, ShutdownStream, DropOpen, DropStream, Expire, sockVars
  <2> QED
    BY <2>1, <2>2 DEF IInv, TypeOK
<1>3. CASE UNCHANGED <<streams, closing>>
  BY <1>1, <1>2, <1>3, SameOwnersPass
<1>4. CASE DropOpen(g)
  <2>1. streams' = streams \ {g} /\ closing' = closing \cup {g} /\ g \in streams
    BY <1>4 DEF DropOpen, DropStream
  <2>2. Owned' = Owned
    BY <1>1, <2>1 DEF Owned
  <2>3. h \in streams => h \in streams' \cup closing'
    BY <2>1
  <2> QED
    BY <1>1, <1>2, <2>1, <2>2, <2>3, PassedIf DEF Owned
<1> QED
  BY <1>3, <1>4 DEF Stream, Read, Write, ShutdownStream, Expire

\* listen_tcp takes free slots only; the one it fails on stays in the set.
LEMMA ListenPasses ==
  ASSUME IInv, NoStrayPool, OwnerTable, OwnerTable', NEW a \in Acceptors, NEW p \in Ports,
         ListenTcp(a, p) \/ ListenTcpFails(a, p), NEW h \in Handles
  PROVE  Passed(h)
<1>1. /\ Queued' = Queued /\ Dialing' = Dialing
      /\ UNCHANGED <<pending, streams, closing>>
  BY DEF ListenTcp, ListenTcpFails, lisVars, dialVars, Queued, Dialing
<1>2. CASE ListenTcp(a, p)
  <2>1. PICK e \in Entries, S \in Slots(LISTEN_POOL, Empty) :
           /\ NextEntry(e)
           /\ sock' = [x \in Handles |-> IF x \in S THEN "Listen" ELSE sock[x]]
           /\ pool' = [pool EXCEPT ![e] = S]
    BY <1>2 DEF ListenTcp
  <2>2. \A x \in S : x \in Handles /\ sock[x] = Free
    BY SlotsEmpty DEF Empty
  <2>3. pool[e] = {}
    BY <2>1 DEF NoStrayPool, NextEntry
  <2>4. \A f \in Entries : pool'[f] = IF f = e THEN S ELSE pool[f]
    BY <2>1 DEF IInv, TypeOK
  <2>5. Pooled' = Pooled \cup S
    BY <2>3, <2>4 DEF Pooled
  <2>6. Owned' = Owned \cup S
    BY <1>1, <2>5 DEF Owned
  <2>7. CASE h \in S
    BY <2>2, <2>5, <2>7, PassedIf
  <2>8. CASE h \notin S
    <3>1. sock'[h] = sock[h]
      BY <2>1, <2>8
    <3> QED
      BY <1>1, <2>5, <2>6, <2>8, <3>1, PassedIf DEF Owned
  <2> QED
    BY <2>7, <2>8
<1>3. CASE ListenTcpFails(a, p)
  <2>1. PICK S \in Slots(1, Empty) :
           sock' = [x \in Handles |-> IF x \in S THEN "Closed" ELSE sock[x]]
    BY <1>3 DEF ListenTcpFails
  <2>2. \A x \in S : x \in Handles /\ sock[x] = Free
    BY SlotsEmpty DEF Empty
  <2>3. Pooled' = Pooled
    BY <1>3 DEF ListenTcpFails, lisVars, Pooled
  <2>4. Owned' = Owned
    BY <1>1, <2>3 DEF Owned
  <2>5. CASE h \in S
    <3>1. h \notin Owned'
      BY <2>2, <2>4, <2>5 DEF IInv, HandlesLive
    <3> QED
      BY <2>2, <2>5, <3>1, PassedIf
  <2>6. CASE h \notin S
    <3>1. sock'[h] = sock[h]
      BY <2>1, <2>6
    <3> QED
      BY <1>1, <2>3, <3>1, SameOwnersPass
  <2> QED
    BY <2>5, <2>6
<1> QED
  BY <1>2, <1>3

\* accept() turns the head of the queue into a stream and loses nothing.
LEMMA AcceptPasses ==
  ASSUME IInv, OwnerTable, OwnerTable', NEW a \in Acceptors, Accept(a), NEW h \in Handles
  PROVE  Passed(h)
<1>1. /\ Pooled' = Pooled /\ Dialing' = Dialing
      /\ UNCHANGED <<sock, pending, closing>>
  BY DEF Accept, dialVars, sockVars, Pooled, Dialing
<1>2. CASE UNCHANGED <<queue, streams>>
  <2>1. Queued' = Queued
    BY <1>2 DEF Queued
  <2> QED
    BY <1>1, <1>2, <2>1, SameOwnersPass
<1>3. ASSUME NEW e \in Entries, queue[e] # <<>>,
             streams' = streams \cup {Head(queue[e])},
             queue' = [queue EXCEPT ![e] = Tail(@)]
      PROVE  Passed(h)
  <2> DEFINE first == Head(queue[e])
  <2>1. /\ queue[e] \in Seq(Handles) /\ Len(queue[e]) \in Nat \ {0}
        /\ first = queue[e][1] /\ DOMAIN queue[e] = 1..Len(queue[e])
    BY <1>3 DEF IInv, TypeOK
  <2>2. PICK rest : rest = Tail(queue[e])
    OBVIOUS
  <2>3. /\ \A i \in DOMAIN rest : i + 1 \in DOMAIN queue[e] /\ rest[i] = queue[e][i + 1]
        /\ \A i \in DOMAIN queue[e] :
             i # 1 => i - 1 \in DOMAIN rest /\ rest[i - 1] = queue[e][i]
    BY <2>1, <2>2
  <2>4. \A f \in Entries : queue'[f] = IF f = e THEN rest ELSE queue[f]
    BY <1>3, <2>2 DEF IInv, TypeOK
  <2>5. Queued' \subseteq Queued /\ first \in Queued /\ Queued \subseteq Queued' \cup {first}
    <3>1. first \in Queued
      <4>1. 1 \in DOMAIN queue[e]
        BY <2>1
      <4> QED
        BY <2>1, <4>1 DEF Queued
    <3>2. ASSUME NEW f \in Entries, NEW i \in DOMAIN queue'[f]
          PROVE  queue'[f][i] \in Queued
      BY <2>3, <2>4 DEF Queued
    <3>3. ASSUME NEW f \in Entries, NEW i \in DOMAIN queue[f], queue[f][i] # first
          PROVE  queue[f][i] \in Queued'
      <4>1. CASE f # e
        BY <2>4, <4>1 DEF Queued
      <4>2. CASE f = e
        <5>1. PICK j \in DOMAIN rest : rest[j] = queue[f][i]
          BY <2>1, <2>3, <3>3, <4>2
        <5>2. j \in DOMAIN queue'[f] /\ queue'[f][j] = queue[f][i]
          BY <2>4, <4>2, <5>1
        <5> QED
          BY <5>2 DEF Queued
      <4> QED
        BY <4>1, <4>2
    <3>4. Queued' \subseteq Queued
      BY <3>2 DEF Queued
    <3>5. Queued \subseteq Queued' \cup {first}
      BY <3>3 DEF Queued
    <3> QED
      BY <3>1, <3>4, <3>5
  <2>6. Owned' = Owned
    BY <1>1, <1>3, <2>5 DEF Owned
  <2>7. h \in Queued => h \in Queued' \cup streams'
    BY <1>3, <2>5
  <2>8. h \in streams => h \in streams'
    BY <1>3
  <2> QED
    BY <1>1, <2>6, <2>7, <2>8, PassedIf DEF Owned
<1> QED
  BY <1>2, <1>3 DEF Accept

\* The poll loop: stuck and reaped sockets leave the set, completed handshakes
\* enter a queue, new sockets enter a pool.
LEMMA RunPollPasses ==
  ASSUME IInv, OwnerTable, OwnerTable', RunPoll, NEW h \in Handles
  PROVE  Passed(h)
<1>1. PICK s \in [Handles -> SockStates], d \in SUBSET Handles, F \in SUBSET Handles :
         \E own \in [F -> Entries] : AfterBatch(s) /\ Serviced(s, d, F, own)
  BY RunPollServes
<1>2. PICK own \in [F -> Entries] : AfterBatch(s) /\ Serviced(s, d, F, own)
  BY <1>1
<1>3. Dialing' = Dialing /\ pending' = {} /\ streams' = streams /\ closing' = closing \ Reaped(s)
  <2>1. \A c \in Dialers : dpc'[c] \in DialActive <=> dpc[c] \in DialActive
    BY DEF RunPoll, ConnectResults, IInv, TypeOK, DialActive
  <2> QED
    BY <1>2, <2>1 DEF RunPoll, Dialing, Serviced
<1>4. /\ AllStuck(s, d) \subseteq Pooled /\ AllMoved(s, d) \subseteq Pooled
      /\ Reaped(s) \subseteq closing
  BY DEF AllStuck, AllMoved, Stuck, HalfOpen, Moved, Pooled, Reaped
<1>5. Queued' = Queued \cup AllMoved(s, d)
  <2>1. \A e \in Entries : Range(queue'[e]) = Range(queue[e]) \cup Moved(e, s, d)
    BY <1>2 DEF Serviced
  <2>2. /\ Queued = UNION {Range(queue[e]) : e \in Entries}
        /\ Queued' = UNION {Range(queue'[e]) : e \in Entries}
    BY DEF Queued, Range
  <2> QED
    BY <2>1, <2>2 DEF AllMoved
<1>6. Pooled' = (Pooled \ (AllMoved(s, d) \cup AllStuck(s, d))) \cup F
  <2>1. \A e \in Entries :
          pool'[e] = (pool[e] \ (Moved(e, s, d) \cup AllStuck(s, d))) \cup {x \in F : own[x] = e}
    BY <1>2 DEF Serviced
  <2>2. \A e, f \in Entries : Moved(e, s, d) \subseteq pool[e] /\ (e # f => pool[e] \cap pool[f] = {})
    BY DEF Moved, IInv, OneOwner
  <2>3. \A e \in Entries : pool[e] \ Moved(e, s, d) = pool[e] \ AllMoved(s, d)
    BY <2>2 DEF AllMoved
  <2>4. \A e \in Entries :
          pool'[e] = (pool[e] \ (AllMoved(s, d) \cup AllStuck(s, d))) \cup {x \in F : own[x] = e}
    BY <2>1, <2>3
  <2>5. \A x \in F : own[x] \in Entries
    OBVIOUS
  <2> QED
    BY <2>4, <2>5 DEF Pooled
<1>7. /\ F \subseteq AllStuck(s, d) \cup {x \in Handles : sock[x] = Free}
      /\ sock'[h] = IF h \in F THEN "Listen"
                    ELSE IF h \in AllStuck(s, d) \cup Reaped(s) THEN Free ELSE s[h]
      /\ s[h] = Free <=> sock[h] = Free
  BY <1>2 DEF Serviced, AfterBatch
<1>8. CASE h \in F
  BY <1>4, <1>6, <1>7, <1>8, PassedIf
<1>9. CASE h \notin F
  <2>1. CASE h \notin Owned
    <3>1. h \notin Owned'
      BY <1>3, <1>4, <1>5, <1>6, <1>9, <2>1 DEF Owned
    <3>2. sock'[h] = Free <=> sock[h] = Free
      BY <1>4, <1>7, <1>9, <2>1 DEF Owned
    <3> QED
      BY <2>1, <3>1, <3>2, PassedIf
  <2>2. CASE h \in Dialing \cup pending
    <3>1. h \notin streams \cup Pooled \cup Queued \cup closing /\ sock[h] # Free
      BY <2>2 DEF IInv, OneOwner, HandlesLive, Owned
    <3>2. sock'[h] # Free
      BY <1>4, <1>7, <1>9, <3>1
    <3>3. h \in Dialing' \/ h \notin Owned'
      BY <1>3, <1>4, <1>5, <1>6, <1>9, <3>1 DEF Owned
    <3> QED
      BY <2>2, <3>2, <3>3, PassedIf
  <2>3. CASE h \in streams
    BY <1>3, <2>3, PassedIf
  <2>4. CASE h \in Pooled
    <3>1. h \in AllStuck(s, d) => sock'[h] = Free
      BY <1>7, <1>9
    <3>2. h \notin AllStuck(s, d) => h \in Pooled' \cup Queued'
      BY <1>5, <1>6, <2>4
    <3> QED
      BY <2>4, <3>1, <3>2, PassedIf
  <2>5. CASE h \in Queued
    BY <1>5, <2>5, PassedIf
  <2>6. CASE h \in closing
    <3>1. h \in Reaped(s) => sock'[h] = Free
      BY <1>7, <1>9
    <3> QED
      BY <1>3, <2>6, <3>1, PassedIf
  <2> QED
    BY <2>1, <2>2, <2>3, <2>4, <2>5, <2>6 DEF Owned
<1> QED
  BY <1>8, <1>9

\* shutdown() forgets pools, queues and the closing list, and nothing else but
\* dials nobody waits for.
LEMMA ShutdownIsDown ==
  ASSUME IInv, OwnerTable, OwnerTable', Shutdown
  PROVE  Ownership!Down
<1>1. /\ Pooled' = {} /\ Queued' = {} /\ closing' = {} /\ pending' = {} /\ streams' = streams
      /\ \A h \in Handles : sock'[h] = Free <=> sock[h] = Free
  BY DEF Shutdown, Pooled, Queued, Free
<1>2. Dialing' = Dialing
  <2>1. \A c \in Dialers : dpc'[c] \in DialActive <=> dpc[c] \in DialActive
    BY DEF Shutdown, IInv, TypeOK, DialActive
  <2> QED
    BY <2>1 DEF Shutdown, Dialing
<1>3. ASSUME NEW h \in Handles
      PROVE  IF OwnerOf(h) \in Ownership!Forgotten THEN OwnerOf(h)' = "leaked"
             ELSE OwnerOf(h)' = OwnerOf(h) \/ (OwnerOf(h) = "dial" /\ OwnerOf(h)' = "leaked")
  <2>1. CASE sock[h] = Free
    BY <1>1, <2>1 DEF OwnerTable, Ownership!Forgotten
  <2>2. CASE h \in Dialing \cup pending
    <3>1. h \notin streams /\ sock[h] # Free
      BY <2>2 DEF IInv, OneOwner, HandlesLive, Owned
    <3>2. h \in Dialing' \/ h \notin Owned'
      BY <1>1, <1>2, <3>1 DEF Owned
    <3>3. OwnerOf(h) = "dial" /\ OwnerOf(h)' \in {"dial", "leaked"}
      BY <1>1, <2>2, <3>1, <3>2 DEF OwnerTable
    <3> QED
      BY <3>3 DEF Ownership!Forgotten
  <2>3. CASE h \in streams
    BY <1>1, <2>3 DEF OwnerTable, Ownership!Forgotten
  <2>4. CASE h \in Pooled \cup Queued \cup closing
    <3>1. h \notin Dialing \cup streams /\ sock[h] # Free
      BY <2>4 DEF IInv, OneOwner, HandlesLive, Owned
    <3>2. h \notin Owned' /\ sock'[h] # Free
      BY <1>1, <1>2, <3>1 DEF Owned
    <3>3. OwnerOf(h) \in {"pool", "queue", "closing"} /\ OwnerOf(h)' = "leaked"
      BY <2>4, <3>2 DEF OwnerTable
    <3> QED
      BY <3>3 DEF Ownership!Forgotten
  <2>5. CASE sock[h] # Free /\ h \notin Owned
    <3>1. h \notin Owned' /\ sock'[h] # Free
      BY <1>1, <1>2, <2>5 DEF Owned
    <3> QED
      BY <2>5, <3>1 DEF OwnerTable, Ownership!Forgotten
  <2> QED
    BY <2>1, <2>2, <2>3, <2>4, <2>5 DEF Owned
<1>4. \A h \in Handles : OwnerOf(h)' \in Ownership!Owners
  BY DEF OwnerTable
<1>5. closed' = TRUE
  BY DEF Shutdown
<1> QED
  BY <1>3, <1>4, <1>5 DEF Ownership!Down

\* Every step of the netstack is a step of SlotOwnership or changes no owner.
LEMMA NextOwnership ==
  ASSUME IInv, NoStrayPool, OwnerTable, OwnerTable', [Next]_vars
  PROVE  Ownership!Next
<1>1. CASE Shutdown
  BY <1>1, ShutdownIsDown DEF Ownership!Next
<1>2. CASE ~Shutdown
  <2>1. closed' = closed
    BY <1>2 DEF Next, Serve, Dial, DialCreate, DialQueue, DialConnected, DialFailed,
           WaitConnected, ConnectTimeout, CancelDial, Stream, Read, Write,
           ShutdownStream, DropOpen, Expire, Listen, ListenTcp, ListenTcpFails,
           Accept, PollerCheck, RunPoll, DropListener, PollerLosesReader, AbortTasks, vars
  <2>2. ASSUME NEW h \in Handles
        PROVE  Passed(h)
    <3>1. CASE \/ UNCHANGED vars \/ PollerCheck \/ PollerLosesReader \/ AbortTasks
               \/ \E a \in Acceptors : DropListener(a)
      <4>1. UNCHANGED <<sock, pool, queue, dpc, dh, pending, streams, closing>>
        BY <3>1 DEF vars, PollerCheck, PollerLosesReader, AbortTasks, DropListener,
                    sockVars, lisVars, dialVars
      <4>2. Dialing' = Dialing /\ Pooled' = Pooled /\ Queued' = Queued
        BY <4>1 DEF Dialing, Pooled, Queued
      <4> QED
        BY <4>1, <4>2, SameOwnersPass
    <3>2. CASE \E d \in Dialers : Dial(d) \/ CancelDial(d)
      BY <3>2, DialPasses
    <3>3. CASE \E g \in Handles : Stream(g) \/ Expire(g)
      BY <3>3, StreamPasses
    <3>4. CASE \E a \in Acceptors : Listen(a)
      BY <3>4, ListenPasses, AcceptPasses DEF Listen
    <3>5. CASE RunPoll
      BY <3>5, RunPollPasses
    <3> QED
      BY <1>2, <3>1, <3>2, <3>3, <3>4, <3>5 DEF Next, Serve
  <2>3. \A h \in Handles : OwnerOf(h)' \in Ownership!Owners
    BY DEF OwnerTable
  <2>4. \A h \in Handles :
          OwnerOf(h)' # OwnerOf(h) => <<OwnerOf(h), OwnerOf(h)'>> \in Ownership!Moves
    BY <2>2 DEF Passed
  <2> QED
    BY <2>1, <2>3, <2>4 DEF Ownership!Next, Ownership!Move
<1> QED
  BY <1>1, <1>2

\* The netstack implements SlotOwnership: no socket of a stream, a pool, a queue
\* or the closing list is lost before shutdown(), removed under its holder, or
\* handed out twice.
THEOREM ImplementsSlotOwnership == Spec => SlotLifecycle
<1> DEFINE Inv == IInv /\ NoStrayPool /\ OwnerTable
<1>1. Init => Inv
  BY InitIInv, OwnerTableHolds DEF Init, NoStrayPool
<1>2. Inv /\ [Next]_vars => Inv'
  <2>1. IInv /\ NoStrayPool /\ [Next]_vars => IInv' /\ NoStrayPool'
    BY NextIInv, NextNoStrayPool
  <2>2. IInv' => OwnerTable'
    BY OwnerTableHolds, PTL
  <2> QED
    BY <2>1, <2>2
<1>3. Init => Ownership!Init
  <2>1. ASSUME Init, NEW h \in Handles
        PROVE  OwnerOf(h) = "free"
    BY <1>1, <2>1 DEF Init, OwnerTable
  <2> QED
    BY <2>1 DEF Init, Ownership!Init
<1>4. Inv /\ Inv' /\ [Next]_vars =>
        [Ownership!Next]_<<[h \in Handles |-> OwnerOf(h)], closed>>
  BY NextOwnership
<1> HIDE DEF Inv
<1> QED
  BY <1>1, <1>2, <1>3, <1>4, PTL DEF Spec, SlotLifecycle, Ownership!Spec
=============================================================================
