----------------------------- MODULE UdpForward -----------------------------
(***************************************************************************)
(* One UDP forwarder (forward/udp.rs): the main task with its sessions     *)
(* map, one reply listener task per session, and the eviction timer task,  *)
(* all sharing the map behind a tokio mutex.  A local-udp forwarder        *)
(* listens on an OS socket and has a netstack UdpSocket for each session;  *)
(* a remote-udp forwarder the other way round.                             *)
(*                                                                         *)
(* A netstack UdpSocket sends once its buffer has room and pends until the *)
(* next poll otherwise.  Neither send_to nor recv_from looks at closed:    *)
(* when the poll loop is gone what pends there pends for good.             *)
(*                                                                         *)
(* A session's socket lives as long as the session, the main task's turn   *)
(* for it or its listener; a listener also keeps the forwarder's own       *)
(* socket, and with it the listening port.                                 *)
(***************************************************************************)
EXTENDS Integers, FiniteSets

CONSTANTS
  Clients,       \* addresses that send datagrams
  MaxListener    \* bound on the listener tasks alive at a time

ASSUME MaxListenerAssumption == MaxListener \in Nat

Listeners == 1..MaxListener

VARIABLES
  kind,     \* "local" or "remote"
  ns,       \* whether the netstack's poll loop runs: "up" or "down"
  full,     \* sessions whose netstack socket has no room for a datagram
  pc,       \* control state of the main task
  cur,      \* the client of the datagram it forwards
  need,     \* need_listener
  new,      \* the listener it has spawned and not yet put into the map
  sess,     \* keys of the sessions map
  handle,   \* listener_handle of each session, 0 for None or a finished task:
            \* the code asks is_none_or(is_finished), and aborting a finished
            \* task does nothing
  old,      \* sessions with last_active at least SESSION_TTL_SECS ago
  lst,      \* state of each listener task
  lfor,     \* the client it serves
  evictor,  \* control state of the eviction timer
  stopped,  \* a stop was sent
  sig       \* tasks, "main" and "evictor", whose receiver holds it
mainVars == <<pc, cur, need, new>>
mapVars  == <<sess, handle, old, full>>
netVars  == <<kind, ns>>
vars == <<netVars, mainVars, mapVars, lst, lfor, evictor, stopped, sig>>

NoClient == "nobody"
Ended == {"done", "aborted"}
FreeListeners == {l \in Listeners : lst[l] = "none"}

Init ==
  /\ kind \in {"local", "remote"} /\ ns = "up" /\ full = {}
  /\ pc = "spawned" /\ cur = NoClient /\ need = FALSE /\ new = 0
  /\ sess = {} /\ handle = [c \in Clients |-> 0] /\ old = {}
  /\ lst = [l \in Listeners |-> "none"] /\ lfor = [l \in Listeners |-> NoClient]
  /\ evictor = "none" /\ stopped = FALSE /\ sig = {}

-----------------------------------------------------------------------------
(* The sessions map *)

\* Mutants: the time stamp stays; only the map entry goes.
RemovedKeepsAge(S) ==
  /\ sess' = sess \ S /\ full' = full \ S /\ UNCHANGED old
  /\ handle' = [c \in Clients |-> IF c \in S THEN 0 ELSE handle[c]]
  /\ lst' = [l \in Listeners |->
               IF lst[l] = "run" /\ \E c \in S : handle[c] = l THEN "aborting" ELSE lst[l]]
RemovedSilently(S) ==
  /\ sess' = sess \ S /\ old' = old \ S /\ full' = full \ S
  /\ handle' = [c \in Clients |-> IF c \in S THEN 0 ELSE handle[c]]
  /\ UNCHANGED lst

\* The sessions of S are removed and their listeners aborted.
Removed(S) ==
  /\ sess' = sess \ S /\ old' = old \ S /\ full' = full \ S
  /\ handle' = [c \in Clients |-> IF c \in S THEN 0 ELSE handle[c]]
  /\ lst' = [l \in Listeners |->
               IF lst[l] = "run" /\ \E c \in S : handle[c] = l THEN "aborting" ELSE lst[l]]

\* The last holder of the map is gone: the handles are dropped, not aborted.
Dropped ==
  /\ sess' = {} /\ old' = {} /\ full' = {} /\ handle' = [c \in Clients |-> 0]

-----------------------------------------------------------------------------
(* The main task *)

\* First poll: bind, spawn the eviction timer, subscribe.
Bind ==
  /\ pc = "spawned"
  /\ pc' = "select" /\ evictor' = "spawned"
  /\ UNCHANGED <<netVars, cur, need, new, mapVars, lst, lfor, stopped, sig>>

BindFails ==
  /\ pc = "spawned"
  /\ pc' = "done"
  /\ UNCHANGED <<netVars, cur, need, new, mapVars, lst, lfor, evictor, stopped, sig>>

\* No listener, or a finished one.
NeedsListener(c) == handle[c] = 0

\* A datagram from c: its session is found or opened, and refreshed.
Receive(c) ==
  /\ pc = "select"
  /\ pc' = "send" /\ cur' = c /\ need' = NeedsListener(c)
  /\ sess' = sess \cup {c} /\ old' = old \ {c}
  /\ UNCHANGED <<netVars, new, handle, full, lst, lfor, evictor, stopped, sig>>

\* The send of the main task pends in the netstack.
Blocked == kind = "local" /\ cur \in full

\* Sent (or not, in remote-udp): a listener is spawned if one is needed.  The
\* datagram may have taken the last room of the session's netstack socket.
Sent ==
  /\ pc = "send" /\ ~Blocked
  /\ IF need
     THEN \E l \in FreeListeners :
            /\ \A m \in FreeListeners : l <= m
            /\ lst' = [lst EXCEPT ![l] = "run"]
            /\ lfor' = [lfor EXCEPT ![l] = cur]
            /\ pc' = "attach" /\ new' = l /\ UNCHANGED cur
     ELSE pc' = "select" /\ cur' = NoClient /\ UNCHANGED <<new, lst, lfor>>
  /\ need' = FALSE
  /\ full' \in {full, full \cup IF kind = "local" /\ cur \in sess THEN {cur} ELSE {}}
  /\ UNCHANGED <<netVars, sess, handle, old, evictor, stopped, sig>>

\* The send failed, in local-udp: continue.
SendFails ==
  /\ pc = "send" /\ kind = "local" /\ ~Blocked
  /\ pc' = "select" /\ cur' = NoClient /\ need' = FALSE
  /\ UNCHANGED <<netVars, new, mapVars, lst, lfor, evictor, stopped, sig>>

\* The handle goes into the session, if it is still there.
Attach ==
  /\ pc = "attach"
  /\ handle' = [handle EXCEPT ![cur] = IF cur \in sess THEN new ELSE @]
  /\ pc' = "select" /\ cur' = NoClient /\ new' = 0
  /\ UNCHANGED <<netVars, need, sess, old, full, lst, lfor, evictor, stopped, sig>>

\* Mutant: a stop waits for the sessions to end.
MainStopsIdle ==
  /\ pc = "select" /\ "main" \in sig /\ sess = {}
  /\ pc' = "cleanup" /\ sig' = sig \ {"main"}
  /\ UNCHANGED <<netVars, cur, need, new, mapVars, lst, lfor, evictor, stopped>>

\* stop.recv() won the select.
MainStops ==
  /\ pc = "select" /\ "main" \in sig
  /\ pc' = "cleanup" /\ sig' = sig \ {"main"}
  /\ UNCHANGED <<netVars, cur, need, new, mapVars, lst, lfor, evictor, stopped>>

\* Mutant: the loop just ends.
AbortNoSessions ==
  /\ pc = "cleanup"
  /\ pc' = "done" /\ Dropped
  /\ UNCHANGED <<netVars, cur, need, new, lst, lfor, evictor, stopped, sig>>

\* abort_all_sessions.
AbortAllSessions ==
  /\ pc = "cleanup"
  /\ Removed(sess)
  /\ pc' = "done"
  /\ UNCHANGED <<netVars, cur, need, new, lfor, evictor, stopped, sig>>

\* The engine's join ran out of patience, with a task that pends in a send of
\* a netstack that is down, or that the stop came too early for: it is dropped
\* where it waits.
MainAborted ==
  /\ stopped /\ pc \notin Ended
  /\ IF "main" \in sig THEN pc = "send" /\ Blocked /\ ns = "down" ELSE pc # "cleanup"
  /\ pc' = "aborted" /\ cur' = NoClient /\ need' = FALSE /\ new' = 0
  /\ sig' = sig \ {"main"}
  /\ IF evictor \in {"none", "done"} THEN Dropped ELSE UNCHANGED mapVars
  /\ UNCHANGED <<netVars, lst, lfor, evictor, stopped>>

-----------------------------------------------------------------------------
(* Reply listeners *)

\* An abort takes effect, or recv_from failed, which only an OS socket's does.
\* Until then the task passes replies on, which leaves last_active and
\* everything else as it is.
ListenerEnds(l) ==
  /\ lst[l] = "aborting" \/ (lst[l] = "run" /\ kind = "remote")
  /\ lst' = [lst EXCEPT ![l] = "none"]
  /\ lfor' = [lfor EXCEPT ![l] = NoClient]
  /\ handle' = [c \in Clients |-> IF handle[c] = l THEN 0 ELSE handle[c]]
  /\ new' = IF new = l THEN 0 ELSE new
  /\ UNCHANGED <<netVars, pc, cur, need, sess, old, full, evictor, stopped, sig>>

-----------------------------------------------------------------------------
(* The eviction timer *)

EvictorStart ==
  /\ evictor = "spawned"
  /\ evictor' = "wait"
  /\ UNCHANGED <<netVars, mainVars, mapVars, lst, lfor, stopped, sig>>

Fresh == sess \ old \* mutant: the comparison reversed

\* The sessions a tick evicts.
Stale == old

\* interval.tick().
Evict ==
  /\ evictor = "wait" /\ Stale # {}
  /\ Removed(Stale)
  /\ UNCHANGED <<netVars, mainVars, lfor, evictor, stopped, sig>>

EvictorStops ==
  /\ evictor = "wait" /\ "evictor" \in sig
  /\ evictor' = "done" /\ sig' = sig \ {"evictor"}
  /\ IF pc \in Ended THEN Dropped ELSE UNCHANGED mapVars
  /\ UNCHANGED <<netVars, mainVars, lst, lfor, stopped>>

-----------------------------------------------------------------------------
(* Environment *)

\* The engine sends a stop: it reaches the tasks that have subscribed.
Stop ==
  /\ ~stopped
  /\ stopped' = TRUE
  /\ sig' = (IF pc \in {"spawned", "done"} THEN {} ELSE {"main"})
              \cup (IF evictor = "wait" THEN {"evictor"} ELSE {})
  /\ UNCHANGED <<netVars, mainVars, mapVars, lst, lfor, evictor>>

\* SESSION_TTL_SECS pass since the last datagram of c: longer than a send pends
\* while polls go on, or than the engine waits for one when they do not.
Age(c) ==
  /\ c \in sess \ old /\ cur # c
  /\ old' = old \cup {c}
  /\ UNCHANGED <<netVars, mainVars, sess, handle, full, lst, lfor, evictor, stopped, sig>>

\* A poll of the netstack sends what is queued and wakes who waits for room.
Poll ==
  /\ ns = "up" /\ full # {}
  /\ full' = {}
  /\ UNCHANGED <<netVars, mainVars, sess, handle, old, lst, lfor, evictor, stopped, sig>>

\* The poll loop ends: the core is closed or the netstack shut down, which
\* stop() does before it stops the forwarders.
NetstackDown ==
  /\ ns = "up"
  /\ ns' = "down"
  /\ UNCHANGED <<kind, mainVars, mapVars, lst, lfor, evictor, stopped, sig>>

Main == Bind \/ Sent \/ Attach \/ MainStops \/ AbortAllSessions

Next ==
  \/ Main \/ BindFails \/ SendFails \/ MainAborted
  \/ \E c \in Clients : Receive(c) \/ Age(c)
  \/ \E l \in Listeners : ListenerEnds(l)
  \/ EvictorStart \/ Evict \/ EvictorStops
  \/ Stop \/ Poll \/ NetstackDown

Spec == Init /\ [][Next]_vars

\* The runtime polls ready tasks; an aborted task is dropped; a stop wins a
\* select it is offered in time after time (the branches are picked at random);
\* the netstack polls; the grace period of a join ends.
Fairness ==
  /\ WF_vars(Poll) /\ WF_vars(MainAborted)
  /\ WF_vars(Main) /\ SF_vars(MainStops) /\ WF_vars(AbortAllSessions)
  /\ WF_vars(EvictorStart) /\ SF_vars(EvictorStops) /\ SF_vars(Evict)
  /\ \A l \in Listeners : WF_vars(lst[l] = "aborting" /\ ListenerEnds(l))

FairSpec == Spec /\ Fairness

-----------------------------------------------------------------------------
(* Properties *)

\* The types; and only a session of the map has an age.
TypeOK ==
  /\ pc \in {"spawned", "select", "send", "attach", "cleanup"} \cup Ended
  /\ cur \in Clients \cup {NoClient} /\ need \in BOOLEAN
  /\ new \in Listeners \cup {0}
  /\ sess \subseteq Clients /\ old \subseteq sess
  /\ handle \in [Clients -> Listeners \cup {0}]
  /\ lst \in [Listeners -> {"none", "run", "aborting"}]
  /\ lfor \in [Listeners -> Clients \cup {NoClient}]
  /\ evictor \in {"none", "spawned", "wait", "done"}
  /\ kind \in {"local", "remote"} /\ ns \in {"up", "down"} /\ full \subseteq sess
  /\ stopped \in BOOLEAN /\ sig \subseteq {"main", "evictor"}

\* Every reply listener can be stopped: its session knows it, or the main task
\* is about to tell it.  One nobody knows keeps its socket for good.  (A main
\* task the engine aborts leaves them behind.)
NoStrayListener ==
  \A l \in Listeners :
    lst[l] = "run" /\ pc # "aborted" =>
      \/ pc = "attach" /\ new = l
      \/ lfor[l] \in sess /\ handle[lfor[l]] = l

\* A forwarder that took its stop has let go of every session: no listener that
\* was spawned, attached or replaced before runs on after abort_all_sessions.
CleanupReleasesAll ==
  pc = "done" => \A l \in Listeners : lst[l] # "run"

\* While the forwarder runs, an idle session is evicted or comes back to life.
IdleEvicted ==
  \A c \in Clients : c \in old ~> c \notin old \/ stopped

\* A stop the main task can receive ends it, whatever arrives meanwhile, and
\* though neither recv_from nor send_to of a netstack socket ever returns when
\* the netstack went down first: the select takes it, or the join ends.
StopEndsMain == "main" \in sig ~> pc \in Ended

=============================================================================
