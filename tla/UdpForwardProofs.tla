-------------------------- MODULE UdpForwardProofs --------------------------
(***************************************************************************)
(* For every set of clients and any number of listener tasks: no reply     *)
(* listener of a forwarder is out of reach, and one that took its stop has *)
(* let go of all of them.                                                  *)
(***************************************************************************)
EXTENDS UdpForward, TLAPS

\* The datagram being forwarded keeps its session in the map and fresh, so the
\* eviction timer never comes between the lookup and the handle.
CurrentFresh ==
  /\ pc \in {"send", "attach"} => cur \in sess /\ cur \notin old
  /\ pc \notin {"send", "attach"} => cur = NoClient
  /\ pc = "send" /\ need => handle[cur] = 0
  /\ pc = "attach" => handle[cur] = 0

\* Handles and listeners belong to each other: a session's handle is that of a
\* running listener of its own, and the new listener is nobody else's.
HandlesRun ==
  /\ \A c \in Clients : handle[c] # 0 =>
       c \in sess /\ lst[handle[c]] = "run" /\ lfor[handle[c]] = c
  /\ new # 0 => /\ pc = "attach" /\ lst[new] = "run" /\ lfor[new] = cur
                /\ \A c \in Clients : handle[c] # new

\* A forwarder that has not bound yet has no session.
UnboundEmpty == pc = "spawned" => sess = {}

IInv ==
  /\ TypeOK /\ CurrentFresh /\ HandlesRun /\ UnboundEmpty
  /\ NoStrayListener /\ CleanupReleasesAll

\* A forwarder starts with no session and no listener.
LEMMA InitIInv == Init => IInv
<1> SUFFICES ASSUME Init PROVE IInv
    OBVIOUS
<1>1. TypeOK
  BY DEF Init, TypeOK
<1>2. CurrentFresh /\ HandlesRun /\ UnboundEmpty /\ NoStrayListener /\ CleanupReleasesAll
  BY DEF Init, CurrentFresh, HandlesRun, UnboundEmpty, NoStrayListener, CleanupReleasesAll
<1> QED
  BY <1>1, <1>2 DEF IInv

\* The steps that touch neither the map nor a listener, and keep the main task
\* where it is or take it out of a turn.
LEMMA QuietIInv ==
  ASSUME IInv, TypeOK', UNCHANGED <<handle, sess, lst, lfor>>, old' = old,
         \/ UNCHANGED <<pc, cur, need, new>>
         \/ /\ pc' \in {"select", "cleanup"} /\ pc \in {"spawned", "send", "select"}
            /\ cur' = NoClient /\ new' = new
         \/ pc = "spawned" /\ pc' = "done" /\ UNCHANGED <<cur, need, new>>
  PROVE  IInv'
<1>1. CurrentFresh'
  BY DEF IInv, CurrentFresh
<1>2. HandlesRun'
  BY DEF IInv, HandlesRun
<1>3. UnboundEmpty'
  BY DEF IInv, UnboundEmpty
<1>4. NoStrayListener'
  BY DEF IInv, NoStrayListener
<1>5. CleanupReleasesAll'
  BY DEF IInv, CleanupReleasesAll, NoStrayListener, UnboundEmpty
<1> QED
  BY <1>1, <1>2, <1>3, <1>4, <1>5 DEF IInv

\* A datagram opens or refreshes a session.
LEMMA ReceiveIInv ==
  ASSUME IInv, NEW c \in Clients, Receive(c)
  PROVE  IInv'
<1>1. TypeOK'
  BY DEF Receive, NeedsListener, IInv, TypeOK, netVars, Ended
<1>2. CurrentFresh'
  BY DEF Receive, NeedsListener, CurrentFresh
<1>3. HandlesRun'
  BY DEF Receive, IInv, HandlesRun
<1>4. UnboundEmpty' /\ CleanupReleasesAll'
  BY DEF Receive, UnboundEmpty, CleanupReleasesAll
<1>5. NoStrayListener'
  BY DEF Receive, IInv, NoStrayListener
<1> QED
  BY <1>1, <1>2, <1>3, <1>4, <1>5 DEF IInv

\* A listener is spawned for the session of the datagram.
LEMMA SentIInv ==
  ASSUME IInv, Sent
  PROVE  IInv'
<1>1. /\ pc = "send" /\ cur \in sess /\ cur \in Clients /\ cur \notin old
      /\ need' = FALSE /\ UNCHANGED <<kind, ns, sess, handle, old, evictor, stopped, sig>>
  BY DEF Sent, IInv, CurrentFresh, TypeOK, netVars
<1>2. full' \subseteq sess
  BY <1>1 DEF Sent, IInv, TypeOK
<1>3. CASE need
  <2>1. PICK l \in FreeListeners : /\ lst' = [lst EXCEPT ![l] = "run"]
                                   /\ lfor' = [lfor EXCEPT ![l] = cur]
                                   /\ pc' = "attach" /\ new' = l /\ UNCHANGED cur
    BY <1>3 DEF Sent
  <2>2. l \in Listeners /\ lst[l] = "none"
    BY DEF FreeListeners
  <2>3. TypeOK'
    BY <1>1, <1>2, <2>1, <2>2 DEF IInv, TypeOK
  <2>4. /\ \A m \in Listeners : lst'[m] = IF m = l THEN "run" ELSE lst[m]
        /\ \A m \in Listeners : lfor'[m] = IF m = l THEN cur ELSE lfor[m]
        /\ \A c \in Clients : handle[c] # l
        /\ l # 0
    BY <2>1, <2>2 DEF IInv, TypeOK, HandlesRun, Listeners
  <2>5. handle[cur] = 0
    BY <1>1, <1>3 DEF IInv, CurrentFresh
  <2>6. CurrentFresh'
    BY <1>1, <2>1, <2>5 DEF CurrentFresh
  <2>7. HandlesRun'
    BY <1>1, <2>1, <2>2, <2>4 DEF IInv, TypeOK, HandlesRun
  <2>8. UnboundEmpty' /\ CleanupReleasesAll'
    BY <2>1 DEF UnboundEmpty, CleanupReleasesAll
  <2>9. NoStrayListener'
    BY <1>1, <2>1, <2>2, <2>4 DEF IInv, NoStrayListener
  <2> QED
    BY <2>3, <2>6, <2>7, <2>8, <2>9 DEF IInv
<1>4. CASE ~need
  <2>1. pc' = "select" /\ cur' = NoClient /\ UNCHANGED <<new, lst, lfor>>
    BY <1>4 DEF Sent
  <2>2. TypeOK'
    BY <1>1, <1>2, <2>1 DEF IInv, TypeOK
  <2> QED
    BY <1>1, <2>1, <2>2, QuietIInv
<1> QED
  BY <1>3, <1>4

\* The handle of the new listener reaches its session.
LEMMA AttachIInv ==
  ASSUME IInv, Attach
  PROVE  IInv'
<1>1. /\ pc = "attach" /\ cur \in sess /\ cur \in Clients /\ handle[cur] = 0
      /\ pc' = "select" /\ cur' = NoClient /\ new' = 0
      /\ UNCHANGED <<kind, ns, need, sess, old, full, lst, lfor, evictor, stopped, sig>>
  BY DEF Attach, IInv, CurrentFresh, TypeOK, netVars
<1>2. /\ handle' \in [Clients -> Listeners \cup {0}]
      /\ \A c \in Clients : handle'[c] = IF c = cur THEN new ELSE handle[c]
  BY <1>1 DEF Attach, IInv, TypeOK
<1>3. TypeOK'
  BY <1>1, <1>2 DEF IInv, TypeOK
<1>4. CurrentFresh' /\ UnboundEmpty' /\ CleanupReleasesAll'
  BY <1>1 DEF CurrentFresh, UnboundEmpty, CleanupReleasesAll
<1>5. HandlesRun'
  BY <1>1, <1>2 DEF IInv, TypeOK, HandlesRun
<1>6. NoStrayListener'
  <2> SUFFICES ASSUME NEW l \in Listeners, lst[l] = "run"
               PROVE  lfor[l] \in sess /\ handle'[lfor[l]] = l
    BY <1>1 DEF NoStrayListener
  <2>1. CASE new = l
    <3>1. l # 0 /\ lfor[l] = cur
      BY <2>1 DEF Listeners, IInv, HandlesRun
    <3> QED
      BY <1>1, <1>2, <2>1, <3>1
  <2>2. CASE new # l
    <3>1. lfor[l] \in sess /\ handle[lfor[l]] = l /\ l # 0
      BY <1>1, <2>2 DEF IInv, NoStrayListener, Listeners
    <3> QED
      BY <1>1, <1>2, <3>1 DEF IInv, TypeOK
  <2> QED
    BY <2>1, <2>2
<1> QED
  BY <1>3, <1>4, <1>5, <1>6 DEF IInv

\* Sessions are removed with their listeners, but not the one in use.
LEMMA RemovedIInv ==
  ASSUME IInv, NEW S \in SUBSET sess, Removed(S), pc' \in {pc, "done"},
         pc \in {"send", "attach"} => cur \notin S /\ pc' = pc,
         pc' = "done" => (S = sess /\ pc # "aborted") \/ pc = "done",
         UNCHANGED <<netVars, cur, need, new, lfor, evictor, stopped, sig>>
  PROVE  IInv'
<1>1. /\ sess' = sess \ S /\ old' = old \ S /\ full' = full \ S
      /\ \A c \in Clients : handle'[c] = IF c \in S THEN 0 ELSE handle[c]
      /\ \A l \in Listeners :
           lst'[l] = IF lst[l] = "run" /\ \E c \in S : handle[c] = l THEN "aborting" ELSE lst[l]
  BY DEF Removed
<1>2. TypeOK'
  <2>1. handle' \in [Clients -> Listeners \cup {0}]
    BY DEF Removed, IInv, TypeOK
  <2>2. lst' \in [Listeners -> {"none", "run", "aborting"}]
    BY DEF Removed, IInv, TypeOK
  <2>3. pc' \in {"spawned", "select", "send", "attach", "cleanup"} \cup Ended
    BY DEF IInv, TypeOK, Ended
  <2> QED
    BY <1>1, <2>1, <2>2, <2>3 DEF IInv, TypeOK, netVars
<1>3. CurrentFresh'
  BY <1>1 DEF IInv, TypeOK, CurrentFresh
<1>4. UnboundEmpty'
  BY <1>1 DEF IInv, UnboundEmpty
<1>5. HandlesRun'
  <2>1. ASSUME NEW c \in Clients, handle'[c] # 0
        PROVE  c \in sess' /\ lst'[handle'[c]] = "run" /\ lfor[handle'[c]] = c
    <3>1. c \notin S /\ handle'[c] = handle[c] /\ handle[c] \in Listeners
      BY <1>1, <2>1 DEF IInv, TypeOK
    <3>2. c \in sess /\ lst[handle[c]] = "run" /\ lfor[handle[c]] = c
      BY <2>1, <3>1 DEF IInv, HandlesRun
    <3>3. \A x \in S : handle[x] # handle[c]
      BY <3>1, <3>2, <2>1, <1>1 DEF IInv, HandlesRun, TypeOK
    <3> QED
      BY <1>1, <3>1, <3>2, <3>3
  <2> QED
    BY <1>1, <2>1 DEF IInv, TypeOK, HandlesRun
<1>6. NoStrayListener'
  <2> SUFFICES ASSUME NEW l \in Listeners, lst'[l] = "run", pc' # "aborted"
               PROVE  \/ pc' = "attach" /\ new' = l
                      \/ lfor'[l] \in sess' /\ handle'[lfor'[l]] = l
    BY DEF NoStrayListener
  <2>1. lst[l] = "run" /\ \A c \in S : handle[c] # l
    BY <1>1
  <2>2. pc # "aborted"
    BY DEF IInv
  <2>3. \/ pc = "attach" /\ new = l
        \/ lfor[l] \in sess /\ handle[lfor[l]] = l
    BY <2>1, <2>2 DEF IInv, NoStrayListener
  <2> QED
    BY <1>1, <2>1, <2>3 DEF IInv, TypeOK
<1>7. CleanupReleasesAll'
  <2> SUFFICES ASSUME NEW l \in Listeners, pc' = "done", lst'[l] = "run" PROVE FALSE
    BY DEF CleanupReleasesAll
  <2>1. lst[l] = "run" /\ \A c \in S : handle[c] # l
    BY <1>1
  <2>2. pc # "done"
    BY <2>1 DEF IInv, CleanupReleasesAll
  <2>3. S = sess /\ pc \notin {"aborted", "attach"}
    BY <2>2
  <2> QED
    BY <2>1, <2>3 DEF IInv, NoStrayListener
<1> QED
  BY <1>2, <1>3, <1>4, <1>5, <1>6, <1>7 DEF IInv

\* abort_all_sessions and a tick of the eviction timer.
LEMMA RemovingIInv ==
  ASSUME IInv, AbortAllSessions \/ Evict
  PROVE  IInv'
<1>1. CASE AbortAllSessions
  <2> DEFINE S == sess
  <2>1. /\ Removed(S) /\ pc = "cleanup" /\ pc' = "done" /\ S \in SUBSET sess
        /\ UNCHANGED <<netVars, cur, need, new, lfor, evictor, stopped, sig>>
    BY <1>1 DEF AbortAllSessions
  <2>2. S = sess
    OBVIOUS
  <2> HIDE DEF S
  <2> QED
    BY <2>1, <2>2, RemovedIInv
<1>2. CASE Evict
  <2>1. /\ Removed(old) /\ UNCHANGED <<netVars, pc, cur, need, new, lfor, evictor, stopped, sig>>
        /\ old \in SUBSET sess
        /\ pc \in {"send", "attach"} => cur \notin old
    BY <1>2 DEF Evict, Stale, mainVars, IInv, TypeOK, CurrentFresh
  <2>2. pc' = "done" => pc = "done"
    BY <2>1
  <2> QED
    BY <2>1, <2>2, RemovedIInv
<1> QED
  BY <1>1, <1>2

\* A listener task ends: whoever held its handle holds a finished one.
LEMMA ListenerEndsIInv ==
  ASSUME IInv, NEW l \in Listeners, ListenerEnds(l)
  PROVE  IInv'
<1>1. /\ \A m \in Listeners : lst'[m] = IF m = l THEN "none" ELSE lst[m]
      /\ \A m \in Listeners : lfor'[m] = IF m = l THEN NoClient ELSE lfor[m]
      /\ \A c \in Clients : handle'[c] = IF handle[c] = l THEN 0 ELSE handle[c]
      /\ new' = IF new = l THEN 0 ELSE new
      /\ UNCHANGED <<kind, ns, pc, cur, need, sess, old, full, evictor, stopped, sig>>
  BY DEF ListenerEnds, IInv, TypeOK, netVars
<1>2. TypeOK'
  <2>1. handle' \in [Clients -> Listeners \cup {0}]
    BY DEF ListenerEnds, IInv, TypeOK
  <2>2. /\ lst' \in [Listeners -> {"none", "run", "aborting"}]
        /\ lfor' \in [Listeners -> Clients \cup {NoClient}]
    BY DEF ListenerEnds, IInv, TypeOK
  <2> QED
    BY <1>1, <2>1, <2>2 DEF IInv, TypeOK
<1>3. CurrentFresh' /\ UnboundEmpty' /\ CleanupReleasesAll'
  BY <1>1 DEF IInv, TypeOK, CurrentFresh, UnboundEmpty, CleanupReleasesAll
<1>4. HandlesRun'
  BY <1>1 DEF IInv, TypeOK, HandlesRun
<1>5. NoStrayListener'
  BY <1>1 DEF IInv, TypeOK, NoStrayListener
<1> QED
  BY <1>2, <1>3, <1>4, <1>5 DEF IInv

\* The last holder of the map goes when no listener of it runs that anyone
\* answers for: the main task was aborted, or has released them all.
LEMMA DroppedIInv ==
  ASSUME IInv, pc' \in Ended, cur' = NoClient, new' = 0, need' \in BOOLEAN,
         Dropped \/ UNCHANGED <<sess, handle, old, full>>,
         pc' = "done" => pc = "done",
         UNCHANGED <<netVars, lst, lfor, stopped>>,
         evictor' \in {evictor, "done"}, sig' \subseteq sig
  PROVE  IInv'
<1>1. TypeOK'
  BY DEF IInv, TypeOK, Dropped, netVars
<1>2. CurrentFresh' /\ UnboundEmpty'
  BY DEF CurrentFresh, UnboundEmpty, Ended
<1>3. HandlesRun'
  BY DEF IInv, TypeOK, HandlesRun, Dropped
<1>4. NoStrayListener' /\ CleanupReleasesAll'
  BY DEF IInv, NoStrayListener, CleanupReleasesAll, Ended
<1> QED
  BY <1>1, <1>2, <1>3, <1>4 DEF IInv

\* The engine aborts the main task; the eviction timer takes its stop.
LEMMA EndingIInv ==
  ASSUME IInv, MainAborted \/ EvictorStops
  PROVE  IInv'
<1>1. CASE MainAborted
  BY <1>1, DroppedIInv DEF MainAborted, mapVars, Ended
<1>2. CASE EvictorStops
  <2>1. CASE pc \in Ended
    <3>1. cur = NoClient /\ new = 0 /\ need \in BOOLEAN
      BY <2>1 DEF IInv, TypeOK, CurrentFresh, HandlesRun, Ended
    <3> QED
      BY <1>2, <2>1, <3>1, DroppedIInv DEF EvictorStops, mainVars
  <2>2. CASE pc \notin Ended
    <3>1. /\ UNCHANGED <<handle, sess, lst, lfor, old, pc, cur, need, new, full, kind, ns, stopped>>
          /\ evictor' = "done" /\ sig' \subseteq sig
      BY <1>2, <2>2 DEF EvictorStops, mainVars, mapVars, netVars
    <3>2. TypeOK'
      BY <3>1 DEF IInv, TypeOK
    <3> QED
      BY <3>1, <3>2, QuietIInv
  <2> QED
    BY <2>1, <2>2
<1> QED
  BY <1>1, <1>2

\* A session that is not in use grows old.
LEMMA AgeIInv ==
  ASSUME IInv, NEW c \in Clients, Age(c)
  PROVE  IInv'
<1>1. TypeOK'
  BY DEF Age, IInv, TypeOK, netVars, mainVars
<1>2. CurrentFresh' /\ HandlesRun' /\ UnboundEmpty'
  BY DEF Age, IInv, mainVars, CurrentFresh, HandlesRun, UnboundEmpty
<1>3. NoStrayListener' /\ CleanupReleasesAll'
  BY DEF Age, IInv, mainVars, NoStrayListener, CleanupReleasesAll
<1> QED
  BY <1>1, <1>2, <1>3 DEF IInv

\* The other steps leave the map and the listeners alone.
LEMMA OthersIInv ==
  ASSUME IInv,
         \/ Bind \/ BindFails \/ SendFails \/ MainStops \/ EvictorStart
         \/ Stop \/ Poll \/ NetstackDown \/ UNCHANGED vars
  PROVE  IInv'
<1>1. TypeOK'
  <2>1. CASE Bind \/ BindFails \/ SendFails \/ MainStops
    BY <2>1 DEF IInv, TypeOK, Ended, Bind, BindFails, SendFails, MainStops, netVars, mapVars
  <2>2. CASE EvictorStart \/ Stop
    BY <2>2 DEF IInv, TypeOK, EvictorStart, Stop, netVars, mapVars, mainVars
  <2>3. CASE Poll \/ NetstackDown \/ UNCHANGED vars
    BY <2>3 DEF IInv, TypeOK, Poll, NetstackDown, vars, netVars, mapVars, mainVars
  <2> QED
    BY <2>1, <2>2, <2>3
<1>2. CASE Bind \/ BindFails \/ SendFails \/ MainStops
  <2>1. /\ UNCHANGED <<handle, sess, lst, lfor>> /\ old' = old
        /\ \/ /\ pc' \in {"select", "cleanup"} /\ pc \in {"spawned", "send", "select"}
              /\ cur' = NoClient /\ new' = new
           \/ pc = "spawned" /\ pc' = "done" /\ UNCHANGED <<cur, need, new>>
    BY <1>2 DEF IInv, CurrentFresh, Bind, BindFails, SendFails, MainStops, mapVars
  <2> QED
    BY <1>1, <2>1, QuietIInv
<1>3. CASE EvictorStart \/ Stop \/ Poll \/ NetstackDown \/ UNCHANGED vars
  <2>1. UNCHANGED <<handle, sess, lst, lfor, old, pc, cur, need, new>>
    BY <1>3 DEF EvictorStart, Stop, Poll, NetstackDown, vars, mapVars, mainVars
  <2> QED
    BY <1>1, <2>1, QuietIInv
<1> QED
  BY <1>2, <1>3

\* Every step keeps the invariant.
LEMMA NextIInv ==
  ASSUME IInv, [Next]_vars
  PROVE  IInv'
<1>1. CASE \E c \in Clients : Receive(c) \/ Age(c)
  BY <1>1, ReceiveIInv, AgeIInv
<1>2. CASE \E l \in Listeners : ListenerEnds(l)
  BY <1>2, ListenerEndsIInv
<1> QED
  BY <1>1, <1>2, SentIInv, AttachIInv, RemovingIInv, EndingIInv, OthersIInv DEF Next, Main

\* So it holds in every state of a forwarder.
LEMMA Inductive == Spec => []IInv
  BY InitIInv, NextIInv, PTL DEF Spec

\* The variables of the forwarder, its listeners and its timer keep their
\* types, and only a session of the map has an age or a socket without room.
THEOREM TypeCorrect == Spec => []TypeOK
<1>1. IInv => TypeOK
  BY DEF IInv
<1> QED
  BY <1>1, Inductive, PTL

\* Whatever the order of datagrams, evictions, ends of listeners and stops: a
\* running reply listener is the one its session knows, or the one the main
\* task is about to store, so an eviction or a stop can abort it.
THEOREM ListenersReachable == Spec => []NoStrayListener
<1>1. IInv => NoStrayListener
  BY DEF IInv
<1> QED
  BY <1>1, Inductive, PTL

\* After abort_all_sessions no reply listener of the forwarder runs: none was
\* replaced, orphaned by an eviction or left without its handle before.
THEOREM StoppedReleasesAll == Spec => []CleanupReleasesAll
<1>1. IInv => CleanupReleasesAll
  BY DEF IInv
<1> QED
  BY <1>1, Inductive, PTL

=============================================================================
