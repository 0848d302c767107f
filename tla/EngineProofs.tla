---------------------------- MODULE EngineProofs -----------------------------
(***************************************************************************)
(* What the mobile engine keeps, for any number of app threads, mappings,  *)
(* tasks and nodes; what it keeps for an app that makes its calls one      *)
(* after the other; and for one that also adds no mapping twice and does   *)
(* not clear them.                                                         *)
(***************************************************************************)
EXTENDS Engine, FiniteSetTheorems, TLAPS

-----------------------------------------------------------------------------
(* Any number of app threads *)

\* Calls that build a run, that have its core up, that take it down, and that
\* will drain the listeners yet.
Building == {"startClone", "startBuild", "startSpawn", "startStore"}
Holding  == {"startSpawn", "startStore", "stopPeers", "joinPeers", "stopCore"}
Closing  == {"stopPeers", "joinPeers", "stopCore", "stopProxy", "stopNetstack"}
Draining == Closing \cup {"stopDrain"}

\* What a call works on.
CallerOK(c) ==
  /\ crun[c] # 0 <=> cpc[c] \in Building \cup Closing \cup {"addSpawn"}
  /\ cpc[c] \in {"addState", "addSpawn", "removeStop"} => carg[c] \in Keys
  /\ cpc[c] \in Holding => up[crun[c]] = "up"
  /\ cpc[c] \in {"startClone", "startBuild"} => up[crun[c]] = "none"
  /\ cpc[c] \in {"stopProxy", "stopNetstack"} => up[crun[c]] = "closed"
  /\ cpc[c] = "stopCore" => fwd[crun[c]].at = "none"

\* The state mutex is held by an add_* that spawns a listener for the node.
StateLocked ==
  /\ \A c \in Callers : stateLock = c <=> cpc[c] = "addSpawn"
  /\ \A c \in Callers : cpc[c] = "addSpawn" => crun[c] = node

\* A run is built or taken down by one call, and is not the node's meanwhile.
OwnRun ==
  /\ \A c, b \in Callers : crun[c] # 0 /\ crun[c] = crun[b] => c = b
  /\ \A c \in Callers : crun[c] # 0 /\ crun[c] = node => cpc[c] = "addSpawn"

NodeUp == node # 0 => up[node] = "up"

\* PeersReported, with the snapshot on its way to the app.
ForwarderOK(r) ==
  fwd[r].at # "none" =>
    /\ up[r] = "up"
    /\ fwd[r].at = "call" /\ fwd[r].events = 0 => fwd[r].shot = peers[r]
    /\ fwd[r].at = "wait" /\ fwd[r].events = 0 => fwd[r].shown = peers[r]

\* Entries in listeners belong to a node, or to a call that will store one or
\* drain them.
Owned ==
  (\E k \in Keys : listeners[k] # 0) =>
    node # 0 \/ \E c \in Callers : cpc[c] \in {"startStore"} \cup Draining

IInv ==
  /\ TypeOK /\ StateLocked /\ OwnRun /\ NodeUp /\ Owned
  /\ \A c \in Callers : CallerOK(c)
  /\ \A r \in Runs : ForwarderOK(r)

-----------------------------------------------------------------------------
(* One app thread *)

OneThread == Callers # {} /\ \A c, b \in Callers : c = b

\* The keys of K that are configured are the ones with an entry.
Served(K) == \A k \in K : mappings[k] > 0 <=> listeners[k] # 0

\* How far a call has brought the listeners to what is configured.
ServedOK(c) ==
  /\ cpc[c] \in {"idle", "join"} /\ node # 0 => Served(Keys)
  /\ cpc[c] \in {"addState", "addSpawn"} /\ node # 0 =>
       Served(Keys \ {carg[c]}) /\ mappings[carg[c]] > 0
  /\ cpc[c] = "removeStop" /\ node # 0 =>
       Served(Keys \ {carg[c]}) /\ mappings[carg[c]] = 0
  /\ cpc[c] = "clearDrain" => \A k \in Keys : mappings[k] = 0
  /\ cpc[c] \in Building \cup Draining => node = 0
  /\ cpc[c] \in Building \ {"startStore"} => \A k \in Keys : listeners[k] = 0
  /\ cpc[c] \in {"startBuild", "startSpawn"} => csnap[c] = mappings
  /\ cpc[c] = "startStore" => Served(Keys)

Serving == \A c \in Callers : ServedOK(c)

-----------------------------------------------------------------------------
(* One app thread, which adds no mapping twice and does not clear them *)

Sequential == OneThread /\ MaxDup <= 1 /\ "clear" \notin Calls

\* A call joins no task behind its end, and add_* finds no older entry.
PlainOK(c) ==
  /\ cpc[c] # "clearDrain"
  /\ cpc[c] \in {"addState", "addSpawn"} /\ node # 0 => listeners[carg[c]] = 0
  /\ cjoin[c] # {} => cpc[c] = "join"

\* A task that lives has an entry, or a call waits for it.
TaskOK(t) ==
  t \in Live =>
    /\ key[t] \in Keys /\ run[t] \in Runs
    /\ listeners[key[t]] = t \/ \E c \in Callers : t \in cjoin[c]
    /\ \A u \in Live : key[u] = key[t] => u = t
    /\ \A k \in Keys : listeners[k] = t => key[t] = k
    /\ run[t] = node \/ (\E c \in Callers : cpc[c] = "startStore" /\ run[t] = crun[c]) =>
         key[t] \in stats[run[t]]

\* A proxy server belongs to the node, or to a call that builds or closes one.
ProxyOK(r) ==
  proxy[r] # "none" =>
    r = node \/ \E c \in Callers : crun[c] = r /\ cpc[c] \in Holding \cup {"stopProxy"}

SInv ==
  /\ \A c \in Callers : PlainOK(c)
  /\ \A t \in Tasks : TaskOK(t)
  /\ \A r \in Runs : ProxyOK(r)

\* A task with the entry of its mapping was not told to stop, and serves the
\* node, or the one start() is about to store.
EntryOK(t) ==
  t \in Live /\ listeners[key[t]] = t =>
    /\ t \notin sig
    /\ node # 0 => run[t] = node
    /\ \A c \in Callers : cpc[c] = "startStore" => run[t] = crun[c]

Entries == \A t \in Tasks : EntryOK(t)

-----------------------------------------------------------------------------
(* Types *)

Labels == {"idle", "startClone", "startBuild", "startSpawn",
           "startStore", "stopPeers", "joinPeers", "stopCore", "stopProxy",
           "stopNetstack", "stopDrain", "join", "addState",
           "addSpawn", "removeStop", "clearDrain"}

FwdType == [at : {"none", "spawned", "query", "call", "wait", "debounce"},
            shot : {0, 1}, shown : {0, 1}, events : 0..(EventCap + 1)]

\* A caller moves on.
LEMMA GotoType ==
  ASSUME TypeOK, NEW c \in Callers, NEW label \in Labels, Goto(c, label)
  PROVE  /\ cpc' \in [Callers -> Labels] /\ cpc'[c] = label
         /\ \A b \in Callers \ {c} : cpc'[b] = cpc[b]
  BY DEF TypeOK, Goto, Labels

\* A call with an argument returns.
LEMMA ReturnType ==
  ASSUME TypeOK, NEW c \in Callers, Return(c)
  PROVE  /\ cpc' \in [Callers -> Labels] /\ cpc'[c] = "idle"
         /\ \A b \in Callers \ {c} : cpc'[b] = cpc[b]
         /\ carg' \in [Callers -> Keys \cup {NoKey}]
         /\ \A b \in Callers \ {c} : carg'[b] = carg[b]
  BY DEF TypeOK, Goto, Return, Labels

\* spawn_listener.
LEMMA SpawnType ==
  ASSUME TypeOK, NEW n, NEW r \in Runs, SpawnListeners(n, r)
  PROVE  /\ st' \in [Tasks -> {"none", "spawned", "serving"}]
         /\ key' \in [Tasks -> Keys \cup {NoKey}] /\ run' \in [Tasks -> Runs \cup {0}]
         /\ stats' \in [Runs -> SUBSET Keys] /\ listeners' \in [Keys -> Tasks \cup {0}]
         /\ sig' \subseteq Live' /\ UNCHANGED held
<1>1. PICK T \in SUBSET Unused : \E own \in [T -> Keys] :
         /\ st'  = [t \in Tasks |-> IF t \in T THEN "spawned" ELSE st[t]]
         /\ key' = [t \in Tasks |-> IF t \in T THEN own[t] ELSE key[t]]
         /\ run' = [t \in Tasks |-> IF t \in T THEN r ELSE run[t]]
         /\ stats' = [stats EXCEPT ![r] = @ \cup {k \in Keys : n[k] > 0}]
         /\ \E last \in [Keys -> T \cup {0}] :
              listeners' = [k \in Keys |-> IF n[k] = 0 THEN listeners[k] ELSE last[k]]
         /\ UNCHANGED <<sig, held>>
  BY DEF SpawnListeners
<1>2. T \subseteq Tasks
  BY DEF Unused
<1>3. st' \in [Tasks -> {"none", "spawned", "serving"}] /\ sig' \subseteq Live'
  BY <1>1, <1>2 DEF TypeOK, Live
<1>4. key' \in [Tasks -> Keys \cup {NoKey}] /\ run' \in [Tasks -> Runs \cup {0}]
  BY <1>1, <1>2 DEF TypeOK
<1>5. stats' \in [Runs -> SUBSET Keys] /\ listeners' \in [Keys -> Tasks \cup {0}]
  BY <1>1, <1>2 DEF TypeOK
<1> QED
  BY <1>1, <1>3, <1>4, <1>5

\* The end of a listener task.
LEMMA EndType ==
  ASSUME TypeOK, NEW t \in Tasks, End(t)
  PROVE  /\ st' \in [Tasks -> {"none", "spawned", "serving"}]
         /\ key' \in [Tasks -> Keys \cup {NoKey}] /\ run' \in [Tasks -> Runs \cup {0}]
         /\ sig' \subseteq Live' /\ Live' = Live \ {t} /\ held' \subseteq LocalUdp
         /\ \A u \in Tasks \ {t} : st'[u] = st[u] /\ key'[u] = key[u] /\ run'[u] = run[u]
<1>1. held' \subseteq LocalUdp
  BY DEF TypeOK, End, SocketOutlives
<1> QED
  BY <1>1 DEF TypeOK, End, Live

\* Its entry in the registry goes.
LEMMA UnlistType ==
  ASSUME TypeOK, NEW t \in Tasks, Unlist(t)
  PROVE  stats' \in [Runs -> SUBSET Keys]
  BY DEF TypeOK, Unlist

\* The listener tasks and proxy servers.
LEMMA TaskType ==
  ASSUME TypeOK, \/ \E t \in Tasks : Run(t)
                 \/ \E c \in Callers, t \in Tasks : JoinAborts(c, t)
                 \/ \E r \in Runs : ProxyBind(r) \/ ProxyStopped(r)
  PROVE  TypeOK'
<1>1. ASSUME NEW t \in Tasks, Bind(t) PROVE TypeOK'
  BY <1>1 DEF Bind, TypeOK, Live, lockVars, runVars, callVars
<1>2. ASSUME NEW t \in Tasks, BindFails(t) \/ Stopped(t) PROVE TypeOK'
  BY <1>2, EndType, UnlistType DEF BindFails, Stopped, TypeOK, lockVars, runVars, callVars
<1>3. ASSUME NEW c \in Callers, NEW t \in Tasks, JoinAborts(c, t) PROVE TypeOK'
  BY <1>3, EndType DEF JoinAborts, TypeOK, lockVars, runVars, callVars
<1>4. ASSUME NEW r \in Runs, ProxyBind(r) \/ ProxyStopped(r) PROVE TypeOK'
  <2>1. proxy' \in [Runs -> {"none", "spawned", "serving", "told"}]
    <3>1. PICK s \in {"serving", "none"} : proxy' = [proxy EXCEPT ![r] = s]
      BY <1>4 DEF ProxyBind, ProxyStopped
    <3> QED
      BY <3>1 DEF TypeOK
  <2>2. UNCHANGED <<mappings, listeners, node, stateLock, listLock, up, peers, fwd, halted, stats,
                    st, key, run, sig, held, cpc, carg, crun, csnap, cjoin>>
    BY <1>4 DEF ProxyBind, ProxyStopped, lockVars, taskVars, callVars
  <2> QED
    BY <2>1, <2>2 DEF TypeOK, Live
<1> QED
  BY <1>1, <1>2, <1>3, <1>4 DEF Run

\* The forwarder of a run, and the peers it tells of.
LEMMA ForwardFacts ==
  ASSUME TypeOK, NEW r \in Runs, PeerChanges(r) \/ Forward(r)
  PROVE  /\ fwd' \in [Runs -> FwdType] /\ peers' \in [Runs -> {0, 1}]
         /\ \A q \in Runs \ {r} : fwd'[q] = fwd[q] /\ peers'[q] = peers[q]
         /\ UNCHANGED forwarding
<1>1. fwd \in [Runs -> FwdType] /\ peers \in [Runs -> {0, 1}] /\ EventCap \in Nat
  BY EventCapAssumption DEF TypeOK, FwdType
<1>2. fwd[r] \in FwdType /\ fwd[r].shot \in {0, 1} /\ peers[r] \in {0, 1}
      /\ fwd[r].events \in 0..(EventCap + 1)
  BY <1>1 DEF FwdType
<1>3. CASE PeerChanges(r)
  <2> DEFINE e == IF fwd[r].at = "spawned" THEN 0
                  ELSE IF fwd[r].events > EventCap THEN fwd[r].events ELSE fwd[r].events + 1
  <2>1. fwd' = [fwd EXCEPT ![r].events = e] /\ e \in 0..(EventCap + 1)
    BY <1>1, <1>2, <1>3 DEF PeerChanges
  <2> HIDE DEF e
  <2>2. fwd' \in [Runs -> FwdType] /\ \A q \in Runs \ {r} : fwd'[q] = fwd[q]
    BY <1>1, <2>1 DEF FwdType
  <2>3. peers' \in [Runs -> {0, 1}] /\ \A q \in Runs \ {r} : peers'[q] = peers[q]
    BY <1>1, <1>2, <1>3 DEF PeerChanges
  <2> QED
    BY <1>3, <2>2, <2>3 DEF PeerChanges
<1>4. CASE FwdSubscribes(r) \/ FwdQueries(r) \/ FwdCalls(r)
  BY <1>1, <1>2, <1>4 DEF FwdSubscribes, FwdQueries, FwdCalls, FwdType
<1>5. CASE FwdReceives(r) \/ FwdDebounced(r)
  BY <1>1, <1>2, <1>5 DEF FwdReceives, FwdDebounced, FwdType
<1>6. CASE FwdStops(r)
  BY <1>1, <1>2, <1>6 DEF FwdStops, FwdType, NoForwarder
<1> QED
  BY <1>3, <1>4, <1>5, <1>6 DEF Forward

-----------------------------------------------------------------------------
(* The invariant of any number of app threads *)

\* Nothing runs.
LEMMA InitIInv == Init => IInv
<1> SUFFICES ASSUME Init PROVE IInv
  OBVIOUS
<1>1. TypeOK
  <2>1. NoForwarder \in FwdType
    BY EventCapAssumption DEF NoForwarder, FwdType
  <2>2. fwd \in [Runs -> FwdType]
    BY <2>1 DEF Init
  <2> QED
    BY <2>2, MaxDupAssumption DEF Init, TypeOK, FwdType
<1>2. StateLocked /\ OwnRun /\ NodeUp /\ Owned
  BY CallersAssumption DEF Init, StateLocked, OwnRun, NodeUp, Owned
<1>3. \A c \in Callers : CallerOK(c)
  BY DEF Init, CallerOK, Building, Closing, Holding
<1>4. \A r \in Runs : ForwarderOK(r)
  BY DEF Init, ForwarderOK, NoForwarder
<1> QED
  BY <1>1, <1>2, <1>3, <1>4 DEF IInv

\* Tasks and proxy servers come and go, and joins abort them.
LEMMA StillIInv ==
  ASSUME IInv, TypeOK',
         UNCHANGED <<listeners, node, stateLock, up, peers, fwd, cpc, carg, crun>>
  PROVE  IInv'
<1>1. StateLocked' /\ OwnRun' /\ NodeUp' /\ Owned'
  BY DEF IInv, StateLocked, OwnRun, NodeUp, Owned
<1>2. \A c \in Callers : CallerOK(c)'
  BY DEF IInv, CallerOK
<1>3. \A r \in Runs : ForwarderOK(r)'
  BY DEF IInv, ForwarderOK
<1> QED
  BY <1>1, <1>2, <1>3 DEF IInv

\* So it is for every step of them.
LEMMA TaskIInv ==
  ASSUME IInv, \/ \E t \in Tasks : Run(t)
               \/ \E c \in Callers, t \in Tasks : JoinAborts(c, t)
               \/ \E r \in Runs : ProxyBind(r) \/ ProxyStopped(r)
  PROVE  IInv'
<1>1. TypeOK'
  BY TaskType DEF IInv
<1>2. UNCHANGED <<listeners, node, stateLock, up, peers, fwd, cpc, carg, crun>>
  BY DEF Run, Bind, BindFails, Stopped, JoinAborts, ProxyBind, ProxyStopped,
         lockVars, runVars, callVars
<1> QED
  BY <1>1, <1>2, StillIInv

\* The forwarder: an event that comes while it takes a snapshot stays queued
\* behind it.
LEMMA ForwardIInv ==
  ASSUME IInv, NEW r \in Runs, PeerChanges(r) \/ Forward(r)
  PROVE  IInv'
<1>1. TypeOK /\ ForwarderOK(r) /\ EventCap \in Nat \ {0}
  BY EventCapAssumption DEF IInv
<1>2. /\ fwd' \in [Runs -> FwdType] /\ peers' \in [Runs -> {0, 1}]
      /\ \A q \in Runs \ {r} : fwd'[q] = fwd[q] /\ peers'[q] = peers[q]
      /\ UNCHANGED forwarding
  BY <1>1, ForwardFacts
<1>3. UNCHANGED <<mappings, listeners, node, stateLock, listLock, up, proxy, halted, stats,
                  st, key, run, sig, held, cpc, carg, crun, csnap, cjoin>>
  BY <1>2 DEF forwarding, lockVars, taskVars, callVars
<1>4. TypeOK'
  BY <1>1, <1>2, <1>3 DEF TypeOK, FwdType, Live
<1>5. fwd \in [Runs -> FwdType] /\ peers \in [Runs -> {0, 1}] /\ fwd[r] \in FwdType
      /\ fwd[r].events \in Nat
  BY <1>1 DEF TypeOK, FwdType
<1>6. fwd[r].at # "none"
  BY DEF PeerChanges, Forward, FwdSubscribes, FwdQueries, FwdCalls, FwdReceives, FwdDebounced, FwdStops
<1>7. ForwarderOK(r)'
  <2>1. CASE PeerChanges(r)
    <3>1. fwd'[r].at = fwd[r].at /\ (fwd[r].at # "spawned" => fwd'[r].events # 0)
      BY <1>1, <1>5, <2>1 DEF PeerChanges, FwdType
    <3> QED
      BY <1>1, <1>3, <1>6, <3>1 DEF ForwarderOK
  <2>2. CASE FwdSubscribes(r)
    <3>1. fwd'[r].at = "query"
      BY <1>5, <2>2 DEF FwdSubscribes, FwdType
    <3> QED
      BY <1>1, <1>3, <1>6, <3>1 DEF ForwarderOK
  <2>3. CASE FwdQueries(r)
    <3>1. fwd'[r].at = "call" /\ fwd'[r].shot = peers[r] /\ peers' = peers
      BY <1>5, <2>3 DEF FwdQueries, FwdType
    <3> QED
      BY <1>1, <1>3, <1>6, <3>1 DEF ForwarderOK
  <2>4. CASE FwdCalls(r)
    <3>1. /\ fwd'[r].at = "wait" /\ fwd'[r].shown = fwd[r].shot /\ fwd'[r].events = fwd[r].events
          /\ peers' = peers /\ fwd[r].at = "call"
      BY <1>5, <2>4 DEF FwdCalls, FwdType
    <3> QED
      BY <1>1, <1>3, <1>6, <3>1 DEF ForwarderOK
  <2>5. CASE FwdReceives(r) \/ FwdDebounced(r)
    <3>1. fwd'[r].at \in {"debounce", "query"}
      BY <1>5, <2>5 DEF FwdReceives, FwdDebounced, FwdType
    <3> QED
      BY <1>1, <1>3, <1>6, <3>1 DEF ForwarderOK
  <2>6. CASE FwdStops(r)
    <3>1. fwd'[r].at = "none"
      BY <1>5, <2>6 DEF FwdStops, FwdType, NoForwarder
    <3> QED
      BY <3>1 DEF ForwarderOK
  <2> QED
    BY <2>1, <2>2, <2>3, <2>4, <2>5, <2>6 DEF Forward
<1>8. \A q \in Runs : ForwarderOK(q)'
  <2>1. ASSUME NEW q \in Runs \ {r} PROVE ForwarderOK(q)'
    BY <1>2, <1>3 DEF IInv, ForwarderOK
  <2> QED
    BY <1>7, <2>1
<1>9. ASSUME NEW c \in Callers PROVE CallerOK(c)'
  <2>1. CallerOK(c) /\ crun[c] \in Runs \cup {0}
    BY DEF IInv, TypeOK
  <2>2. ASSUME cpc[c] = "stopCore" PROVE fwd'[crun[c]].at = "none"
    <3>1. crun[c] \in Runs /\ fwd[crun[c]].at = "none"
      BY <2>1, <2>2 DEF CallerOK, Closing
    <3> QED
      BY <1>2, <1>6, <3>1
  <2> QED
    BY <1>3, <2>1, <2>2 DEF CallerOK
<1>10. StateLocked' /\ OwnRun' /\ NodeUp' /\ Owned'
  BY <1>3 DEF IInv, StateLocked, OwnRun, NodeUp, Owned
<1> QED
  BY <1>4, <1>8, <1>9, <1>10 DEF IInv

\* A call that moves on, and changes nothing of nodes and of the state mutex.
LEMMA MoveIInv ==
  ASSUME IInv, NEW c \in Callers, NEW label \in Labels \ {"addSpawn"}, Goto(c, label),
         cpc[c] # "addSpawn", UNCHANGED <<node, stateLock, up, peers, fwd, crun>>, TypeOK',
         \A b \in Callers \ {c} : carg'[b] = carg[b], CallerOK(c)', Owned'
  PROVE  IInv'
<1>1. cpc'[c] = label /\ \A b \in Callers \ {c} : cpc'[b] = cpc[b]
  BY GotoType DEF IInv
<1>2. StateLocked' /\ OwnRun'
  BY <1>1 DEF IInv, StateLocked, OwnRun
<1>3. NodeUp' /\ \A r \in Runs : ForwarderOK(r)'
  BY DEF IInv, NodeUp, ForwarderOK
<1>4. \A b \in Callers \ {c} : CallerOK(b)'
  BY <1>1 DEF IInv, CallerOK
<1> QED
  BY <1>2, <1>3, <1>4 DEF IInv

\* The calls that only wait for something, or touch what is configured.
LEMMA SimpleMoves ==
  ASSUME IInv, NEW c \in Callers,
         \/ StartClone(c) \/ StopPeers(c) \/ PeersJoined(c) \/ StopProxy(c) \/ ClearVectors(c)
         \/ \E k \in Keys : AddPush(c, k) \/ RemoveRetain(c, k)
  PROVE  IInv'
<1>1. TypeOK /\ CallerOK(c) /\ Owned
  BY DEF IInv
<1>2. CASE StartClone(c)
  <2>1. /\ Goto(c, "startBuild") /\ cpc[c] = "startClone" /\ csnap' = [csnap EXCEPT ![c] = mappings]
        /\ UNCHANGED <<mappings, listeners, node, stateLock, listLock, up, peers, fwd, proxy, halted,
                       stats, st, key, run, sig, held, carg, crun, cjoin>>
    BY <1>2 DEF StartClone, lockVars, runVars, taskVars
  <2>2. "startBuild" \in Labels \ {"addSpawn"}
    BY DEF Labels
  <2>3. cpc' \in [Callers -> Labels] /\ cpc'[c] = "startBuild" /\ \A b \in Callers \ {c} : cpc'[b] = cpc[b]
    BY <1>1, <2>1, <2>2, GotoType
  <2>4. TypeOK'
    BY <1>1, <2>1, <2>3 DEF TypeOK, Labels, Live
  <2>5. CallerOK(c)' /\ Owned'
    BY <1>1, <2>1, <2>3 DEF CallerOK, Owned, Building, Closing, Holding, Draining
  <2> QED
    BY <2>1, <2>2, <2>4, <2>5, MoveIInv
<1>3. CASE StopPeers(c) \/ StopProxy(c)
  <2>1. PICK label \in {"joinPeers", "stopNetstack"} :
          /\ Goto(c, label)
          /\ \/ label = "joinPeers" /\ cpc[c] = "stopPeers"
             \/ label = "stopNetstack" /\ cpc[c] = "stopProxy"
          /\ UNCHANGED <<mappings, listeners, node, stateLock, listLock, up, peers, fwd,
                         stats, st, key, run, sig, held, carg, crun, csnap, cjoin>>
    <3>1. CASE StopPeers(c)
      BY <3>1 DEF StopPeers, lockVars, taskVars
    <3>2. CASE StopProxy(c)
      BY <3>2 DEF StopProxy, lockVars, taskVars
    <3> QED
      BY <1>3, <3>1, <3>2
  <2>2. label \in Labels \ {"addSpawn"}
    BY <2>1 DEF Labels
  <2>3. cpc' \in [Callers -> Labels] /\ cpc'[c] = label /\ \A b \in Callers \ {c} : cpc'[b] = cpc[b]
    BY <1>1, <2>1, <2>2, GotoType
  <2>4. proxy' \in [Runs -> {"none", "spawned", "serving", "told"}] /\ halted' \subseteq Runs
    <3>1. crun[c] \in Runs
      BY <1>1, <2>1 DEF CallerOK, Closing, TypeOK
    <3> QED
      BY <1>1, <1>3, <3>1 DEF StopPeers, StopProxy, TypeOK
  <2>5. TypeOK'
    BY <1>1, <2>1, <2>3, <2>4 DEF TypeOK, Labels, Live
  <2>6. CallerOK(c)' /\ Owned'
    BY <1>1, <2>1, <2>3 DEF CallerOK, Owned, Building, Closing, Holding, Draining
  <2> QED
    BY <2>1, <2>2, <2>5, <2>6, MoveIInv
<1>4. CASE PeersJoined(c)
  <2>1. /\ Goto(c, "stopCore") /\ cpc[c] = "joinPeers" /\ fwd[crun[c]].at = "none"
        /\ UNCHANGED <<mappings, listeners, node, stateLock, listLock, up, peers, fwd, proxy, halted,
                       stats, st, key, run, sig, held, carg, crun, csnap, cjoin>>
    BY <1>4 DEF PeersJoined, lockVars, runVars, taskVars
  <2>2. "stopCore" \in Labels \ {"addSpawn"}
    BY DEF Labels
  <2>3. cpc' \in [Callers -> Labels] /\ cpc'[c] = "stopCore" /\ \A b \in Callers \ {c} : cpc'[b] = cpc[b]
    BY <1>1, <2>1, <2>2, GotoType
  <2>4. TypeOK'
    BY <1>1, <2>1, <2>3 DEF TypeOK, Labels, Live
  <2>5. CallerOK(c)' /\ Owned'
    BY <1>1, <2>1, <2>3 DEF CallerOK, Owned, Building, Closing, Holding, Draining
  <2> QED
    BY <2>1, <2>2, <2>4, <2>5, MoveIInv
<1>5. CASE ClearVectors(c) \/ \E k \in Keys : AddPush(c, k) \/ RemoveRetain(c, k)
  <2>1. PICK label \in {"clearDrain", "addState", "removeStop"} :
          /\ Goto(c, label) /\ cpc[c] = "idle"
          /\ UNCHANGED <<listeners, node, stateLock, listLock, up, peers, fwd, proxy, halted,
                         stats, st, key, run, sig, held, crun, csnap, cjoin>>
          /\ \/ label = "clearDrain" /\ carg' = carg
             \/ \E k \in Keys : carg' = [carg EXCEPT ![c] = k]
    BY <1>5 DEF ClearVectors, AddPush, RemoveRetain, lockVars, runVars, taskVars
  <2>2. label \in Labels \ {"addSpawn"}
    BY <2>1 DEF Labels
  <2>3. cpc' \in [Callers -> Labels] /\ cpc'[c] = label /\ \A b \in Callers \ {c} : cpc'[b] = cpc[b]
    BY <1>1, <2>1, <2>2, GotoType
  <2>4. /\ carg' \in [Callers -> Keys \cup {NoKey}] /\ \A b \in Callers \ {c} : carg'[b] = carg[b]
        /\ label # "clearDrain" => carg'[c] \in Keys
    BY <1>1, <2>1 DEF TypeOK
  <2>5. mappings' \in [Keys -> 0..MaxDup]
    <3>1. CASE ClearVectors(c)
      BY <3>1, MaxDupAssumption DEF ClearVectors
    <3>2. ASSUME NEW k \in Keys, AddPush(c, k) PROVE mappings' \in [Keys -> 0..MaxDup]
      BY <1>1, <3>2, MaxDupAssumption DEF AddPush, TypeOK
    <3>3. ASSUME NEW k \in Keys, RemoveRetain(c, k) PROVE mappings' \in [Keys -> 0..MaxDup]
      BY <1>1, <3>3, MaxDupAssumption DEF RemoveRetain, TypeOK
    <3> QED
      BY <1>5, <3>1, <3>2, <3>3
  <2>6. TypeOK'
    BY <1>1, <2>1, <2>3, <2>4, <2>5 DEF TypeOK, Labels, Live
  <2>7. CallerOK(c)' /\ Owned'
    BY <1>1, <2>1, <2>3, <2>4 DEF CallerOK, Owned, Building, Closing, Holding, Draining
  <2> QED
    BY <2>1, <2>2, <2>4, <2>6, <2>7, MoveIInv
<1> QED
  BY <1>2, <1>3, <1>4, <1>5

\* The calls that take entries out of listeners.
LEMMA DrainMoves ==
  ASSUME IInv, NEW c \in Callers, StopDrain(c) \/ ClearDrain(c) \/ RemoveStop(c) \/ Joined(c)
  PROVE  IInv'
<1>1. TypeOK /\ CallerOK(c) /\ Owned
  BY DEF IInv
<1>2. PICK label \in {"join", "idle"} :
        /\ Goto(c, label) /\ cpc[c] \in {"stopDrain", "clearDrain", "removeStop", "join"}
        /\ UNCHANGED <<mappings, node, stateLock, up, peers, fwd, proxy, halted,
                       stats, st, key, run, held, crun, csnap>>
        /\ carg' = carg \/ carg' = [carg EXCEPT ![c] = NoKey]
  BY DEF StopDrain, ClearDrain, RemoveStop, Joined, Return, lockVars, runVars, taskVars
<1>3. label \in Labels \ {"addSpawn"}
  BY <1>2 DEF Labels
<1>4. cpc' \in [Callers -> Labels] /\ cpc'[c] = label /\ \A b \in Callers \ {c} : cpc'[b] = cpc[b]
  BY <1>1, <1>2, <1>3, GotoType
<1>5. carg' \in [Callers -> Keys \cup {NoKey}] /\ \A b \in Callers \ {c} : carg'[b] = carg[b]
  BY <1>1, <1>2 DEF TypeOK
<1>6. Registered \subseteq Tasks
  BY <1>1 DEF Registered, TypeOK
<1>7. /\ listeners' \in [Keys -> Tasks \cup {0}] /\ cjoin' \in [Callers -> SUBSET Tasks]
      /\ listLock' \in Callers \cup {NoCaller} /\ sig' \subseteq Live
      /\ \/ \A k \in Keys : listeners'[k] = 0
         \/ cpc[c] # "stopDrain" /\ \A k \in Keys : listeners'[k] # 0 => listeners[k] # 0
  <2>1. CASE StopDrain(c) \/ ClearDrain(c)
    <3>1. /\ listeners' = [k \in Keys |-> 0] /\ listLock' = listLock
          /\ sig' = sig \cup {t \in Registered : st[t] = "serving"}
          /\ cjoin' = cjoin \/ cjoin' = [cjoin EXCEPT ![c] = Registered]
      BY <2>1 DEF StopDrain, ClearDrain, Drain, SendStop, lockVars
    <3>2. listeners' \in [Keys -> Tasks \cup {0}] /\ \A k \in Keys : listeners'[k] = 0
      BY <3>1
    <3>3. cjoin' \in [Callers -> SUBSET Tasks] /\ listLock' \in Callers \cup {NoCaller}
      BY <1>1, <1>6, <3>1 DEF TypeOK
    <3>4. sig' \subseteq Live
      BY <1>1, <1>6, <3>1 DEF TypeOK, Live
    <3> QED
      BY <3>2, <3>3, <3>4
  <2>2. CASE RemoveStop(c)
    <3>1. carg[c] \in Keys
      BY <1>1, <2>2 DEF CallerOK, RemoveStop
    <3>2. CASE listeners[carg[c]] = 0
      BY <1>1, <2>2, <3>2 DEF RemoveStop, TypeOK
    <3>3. CASE listeners[carg[c]] # 0
      <4>1. /\ listeners[carg[c]] \in Tasks /\ listLock' = c
            /\ listeners' = [listeners EXCEPT ![carg[c]] = 0]
            /\ sig' = sig \cup {t \in {listeners[carg[c]]} : st[t] = "serving"}
            /\ cjoin' = [cjoin EXCEPT ![c] = {listeners[carg[c]]}]
            /\ cpc[c] = "removeStop"
        BY <1>1, <2>2, <3>1, <3>3 DEF RemoveStop, SendStop, TypeOK
      <4> QED
        BY <1>1, <3>1, <4>1 DEF TypeOK, Live
    <3> QED
      BY <3>2, <3>3
  <2>3. CASE Joined(c)
    BY <1>1, <2>3 DEF Joined, TypeOK, taskVars
  <2> QED
    BY <2>1, <2>2, <2>3
<1>8. TypeOK'
  <2>1. Live' = Live
    BY <1>2 DEF Live
  <2> QED
    BY <1>1, <1>2, <1>4, <1>5, <1>7, <2>1 DEF TypeOK, Labels
<1>9. CallerOK(c)'
  BY <1>1, <1>2, <1>4 DEF CallerOK, Building, Closing, Holding
<1>10. Owned'
  <2> SUFFICES ASSUME \E k \in Keys : listeners'[k] # 0
               PROVE  node # 0 \/ \E b \in Callers : cpc'[b] \in {"startStore"} \cup Draining
    BY <1>2 DEF Owned
  <2>1. (\E k \in Keys : listeners[k] # 0) /\ cpc[c] # "stopDrain"
    BY <1>7
  <2>2. node # 0 \/ \E b \in Callers : cpc[b] \in {"startStore"} \cup Draining
    BY <1>1, <2>1 DEF Owned
  <2>3. cpc[c] \notin {"startStore"} \cup Draining
    BY <1>2, <2>1 DEF Draining, Closing
  <2> QED
    BY <1>4, <2>2, <2>3
<1> QED
  BY <1>2, <1>3, <1>5, <1>8, <1>9, <1>10, MoveIInv

\* start() spawns what it cloned.
LEMMA StartSpawnIInv ==
  ASSUME IInv, NEW c \in Callers, StartSpawn(c)
  PROVE  IInv'
<1>1. TypeOK /\ CallerOK(c) /\ cpc[c] = "startSpawn"
  BY DEF IInv, StartSpawn
<1>2. /\ Goto(c, "startStore") /\ SpawnListeners(csnap[c], crun[c])
      /\ csnap' = [csnap EXCEPT ![c] = [k \in Keys |-> 0]]
      /\ UNCHANGED <<mappings, node, stateLock, listLock, up, peers, fwd, proxy, halted, carg, crun, cjoin>>
  BY DEF StartSpawn, lockVars, runVars
<1>3. "startStore" \in Labels \ {"addSpawn"} /\ crun[c] \in Runs
  BY <1>1 DEF Labels, CallerOK, Building, TypeOK
<1>4. cpc' \in [Callers -> Labels] /\ cpc'[c] = "startStore" /\ \A b \in Callers \ {c} : cpc'[b] = cpc[b]
  BY <1>1, <1>2, <1>3, GotoType
<1>5. /\ st' \in [Tasks -> {"none", "spawned", "serving"}]
      /\ key' \in [Tasks -> Keys \cup {NoKey}] /\ run' \in [Tasks -> Runs \cup {0}]
      /\ stats' \in [Runs -> SUBSET Keys] /\ listeners' \in [Keys -> Tasks \cup {0}]
      /\ sig' \subseteq Live' /\ UNCHANGED held
  BY <1>1, <1>2, <1>3, SpawnType
<1>6. csnap' \in [Callers -> [Keys -> 0..MaxDup]]
  BY <1>1, <1>2, MaxDupAssumption DEF TypeOK
<1>7. TypeOK'
  BY <1>1, <1>2, <1>4, <1>5, <1>6 DEF TypeOK, Labels
<1>8. CallerOK(c)' /\ Owned'
  BY <1>1, <1>2, <1>4 DEF CallerOK, Owned, Building, Closing, Holding, Draining
<1> QED
  BY <1>1, <1>2, <1>3, <1>7, <1>8, MoveIInv

\* start() finds no node, and reserves a run nobody knows of.
LEMMA StartCheckIInv ==
  ASSUME IInv, NEW c \in Callers, StartCheck(c)
  PROVE  IInv'
<1>1. TypeOK /\ CallerOK(c) /\ cpc[c] = "idle" /\ "startClone" \in Labels
  BY DEF IInv, StartCheck, Labels
<1>2. PICK r \in NewRuns : crun' = [crun EXCEPT ![c] = r]
  BY DEF StartCheck
<1>3. /\ Goto(c, "startClone")
      /\ UNCHANGED <<mappings, listeners, node, stateLock, listLock, up, peers, fwd, proxy, halted,
                     stats, st, key, run, sig, held, carg, csnap, cjoin>>
  BY DEF StartCheck, lockVars, runVars, taskVars
<1>4. cpc' \in [Callers -> Labels] /\ cpc'[c] = "startClone" /\ \A b \in Callers \ {c} : cpc'[b] = cpc[b]
  BY <1>1, <1>3, GotoType
<1>5. r \in Runs /\ r # 0 /\ up[r] = "none" /\ \A b \in Callers : crun[b] # r
  BY <1>2 DEF NewRuns, Runs
<1>6. /\ crun' \in [Callers -> Runs \cup {0}] /\ crun'[c] = r
      /\ \A b \in Callers \ {c} : crun'[b] = crun[b]
  BY <1>1, <1>2, <1>5 DEF TypeOK
<1>7. TypeOK'
  BY <1>1, <1>3, <1>4, <1>6 DEF TypeOK, Labels, Live
<1>8. r # node /\ NodeUp'
  BY <1>3, <1>5 DEF IInv, NodeUp
<1>9. StateLocked' /\ OwnRun'
  BY <1>1, <1>3, <1>4, <1>5, <1>6, <1>8 DEF IInv, StateLocked, OwnRun
<1>10. Owned'
  BY <1>1, <1>3, <1>4 DEF IInv, Owned, Draining, Closing
<1>11. \A b \in Callers : CallerOK(b)'
  BY <1>3, <1>4, <1>5, <1>6 DEF IInv, CallerOK, Building, Closing, Holding
<1>12. \A q \in Runs : ForwarderOK(q)'
  BY <1>3 DEF IInv, ForwarderOK
<1> QED
  BY <1>7, <1>8, <1>9, <1>10, <1>11, <1>12 DEF IInv

\* Core, netstack, forwarder and proxy servers of the run it reserved.
LEMMA StartBuildIInv ==
  ASSUME IInv, NEW c \in Callers, StartBuild(c)
  PROVE  IInv'
<1> DEFINE r == crun[c]
<1>1. TypeOK /\ CallerOK(c) /\ cpc[c] = "startBuild" /\ "startSpawn" \in Labels
  BY DEF IInv, StartBuild, Labels
<1>2. /\ Goto(c, "startSpawn")
      /\ up' = [up EXCEPT ![r] = "up"] /\ proxy' = [proxy EXCEPT ![r] = "spawned"]
      /\ fwd' = [fwd EXCEPT ![r].at = IF Callback THEN "spawned" ELSE "none"]
      /\ UNCHANGED <<mappings, listeners, node, stateLock, listLock, peers, halted,
                     stats, st, key, run, sig, held, carg, crun, csnap, cjoin>>
  BY DEF StartBuild, lockVars, taskVars
<1>3. cpc' \in [Callers -> Labels] /\ cpc'[c] = "startSpawn" /\ \A b \in Callers \ {c} : cpc'[b] = cpc[b]
  BY <1>1, <1>2, GotoType
<1>4. r \in Runs /\ r # 0 /\ r # node /\ \A b \in Callers \ {c} : crun[b] # r
  BY <1>1 DEF IInv, CallerOK, OwnRun, Building, TypeOK, Runs
<1> HIDE DEF r
<1>5. /\ up' \in [Runs -> {"none", "up", "closed"}] /\ up'[r] = "up"
      /\ proxy' \in [Runs -> {"none", "spawned", "serving", "told"}]
      /\ \A q \in Runs \ {r} : up'[q] = up[q]
  BY <1>1, <1>2, <1>4 DEF TypeOK
<1>6. /\ fwd' \in [Runs -> FwdType] /\ fwd'[r].at \in {"spawned", "none"}
      /\ \A q \in Runs \ {r} : fwd'[q] = fwd[q]
  <2>1. fwd \in [Runs -> FwdType]
    BY <1>1 DEF TypeOK, FwdType
  <2> QED
    BY <1>2, <1>4, <2>1 DEF FwdType
<1>7. TypeOK'
  BY <1>1, <1>2, <1>3, <1>5, <1>6 DEF TypeOK, Labels, Live, FwdType
<1>8. StateLocked' /\ OwnRun'
  BY <1>1, <1>2, <1>3 DEF IInv, StateLocked, OwnRun
<1>9. NodeUp'
  BY <1>1, <1>2, <1>4, <1>5 DEF IInv, NodeUp, TypeOK
<1>10. Owned'
  BY <1>1, <1>2, <1>3 DEF IInv, Owned, Draining, Closing
<1>11. ASSUME NEW b \in Callers PROVE CallerOK(b)'
  <2>1. CASE b = c
    BY <1>1, <1>2, <1>3, <1>5, <2>1 DEF CallerOK, Building, Closing, Holding, r
  <2>2. CASE b # c
    <3>1. CallerOK(b) /\ crun[b] \in Runs \cup {0} /\ crun[b] # r
      BY <1>1, <1>4, <2>2 DEF IInv, TypeOK
    <3>2. /\ cpc[b] \in Holding \cup Closing \cup {"startClone", "startBuild"} => crun[b] \in Runs \ {r}
      BY <3>1 DEF CallerOK, Building, Closing, Holding
    <3> QED
      BY <1>2, <1>3, <1>5, <1>6, <2>2, <3>1, <3>2 DEF CallerOK, Closing
  <2> QED
    BY <2>1, <2>2
<1>12. \A q \in Runs : ForwarderOK(q)'
  BY <1>2, <1>5, <1>6 DEF IInv, ForwarderOK
<1> QED
  BY <1>7, <1>8, <1>9, <1>10, <1>11, <1>12 DEF IInv

\* start() stores its node, over another one if two calls were at it.
LEMMA StartStoreIInv ==
  ASSUME IInv, NEW c \in Callers, StartStore(c)
  PROVE  IInv'
<1>1. TypeOK /\ CallerOK(c) /\ cpc[c] = "startStore" /\ stateLock = NoCaller /\ "idle" \in Labels
  BY DEF IInv, StartStore, Labels
<1>2. /\ Goto(c, "idle") /\ node' = crun[c] /\ crun' = [crun EXCEPT ![c] = 0]
      /\ UNCHANGED <<mappings, listeners, stateLock, listLock, up, peers, fwd, proxy, halted,
                     stats, st, key, run, sig, held, carg, csnap, cjoin>>
  BY DEF StartStore, lockVars, runVars, taskVars
<1>3. cpc' \in [Callers -> Labels] /\ cpc'[c] = "idle" /\ \A b \in Callers \ {c} : cpc'[b] = cpc[b]
  BY <1>1, <1>2, GotoType
<1>4. /\ crun[c] \in Runs /\ crun[c] # 0 /\ up[crun[c]] = "up"
      /\ \A b \in Callers \ {c} : crun[b] # crun[c]
  BY <1>1 DEF IInv, CallerOK, OwnRun, Building, Holding, TypeOK, Runs
<1>5. /\ crun' \in [Callers -> Runs \cup {0}] /\ crun'[c] = 0
      /\ \A b \in Callers \ {c} : crun'[b] = crun[b]
  BY <1>1, <1>2 DEF TypeOK
<1>6. TypeOK'
  BY <1>1, <1>2, <1>3, <1>4, <1>5 DEF TypeOK, Labels, Live
<1>7. \A b \in Callers : cpc[b] # "addSpawn"
  BY <1>1, CallersAssumption DEF IInv, StateLocked
<1>8. StateLocked' /\ OwnRun' /\ NodeUp' /\ Owned'
  BY <1>2, <1>3, <1>4, <1>5, <1>7 DEF IInv, StateLocked, OwnRun, NodeUp, Owned
<1>9. \A b \in Callers : CallerOK(b)'
  BY <1>2, <1>3, <1>5 DEF IInv, CallerOK, Building, Closing, Holding
<1>10. \A q \in Runs : ForwarderOK(q)'
  BY <1>2 DEF IInv, ForwarderOK
<1> QED
  BY <1>6, <1>8, <1>9, <1>10 DEF IInv

\* stop() takes the node, or finds none.
LEMMA StopTakeIInv ==
  ASSUME IInv, NEW c \in Callers, StopTake(c)
  PROVE  IInv'
<1> DEFINE label == IF node = 0 THEN "stopDrain" ELSE "stopPeers"
<1>1. /\ TypeOK /\ CallerOK(c) /\ NodeUp /\ cpc[c] = "idle" /\ stateLock = NoCaller
      /\ label \in Labels /\ label \in {"stopDrain", "stopPeers"} /\ (label = "stopDrain" <=> node = 0)
  BY DEF IInv, StopTake, Labels
<1>2. /\ Goto(c, label) /\ node' = 0 /\ crun' = [crun EXCEPT ![c] = node]
      /\ UNCHANGED <<mappings, listeners, stateLock, listLock, up, peers, fwd, proxy, halted,
                     stats, st, key, run, sig, held, carg, csnap, cjoin>>
  BY DEF StopTake, lockVars, runVars, taskVars
<1> HIDE DEF label
<1>3. cpc' \in [Callers -> Labels] /\ cpc'[c] = label /\ \A b \in Callers \ {c} : cpc'[b] = cpc[b]
  BY <1>1, <1>2, GotoType
<1>4. /\ crun' \in [Callers -> Runs \cup {0}] /\ crun'[c] = node /\ node \in Runs \cup {0}
      /\ \A b \in Callers \ {c} : crun'[b] = crun[b]
  BY <1>1, <1>2 DEF TypeOK
<1>5. TypeOK'
  BY <1>1, <1>2, <1>3, <1>4 DEF TypeOK, Labels, Live
<1>6. \A b \in Callers : cpc[b] # "addSpawn"
  BY <1>1, CallersAssumption DEF IInv, StateLocked
<1>7. \A b \in Callers : crun[b] # 0 => crun[b] # node
  BY <1>6 DEF IInv, OwnRun
<1>8. StateLocked' /\ OwnRun' /\ NodeUp'
  BY <1>1, <1>2, <1>3, <1>4, <1>6, <1>7 DEF IInv, StateLocked, OwnRun, NodeUp
<1>9. Owned'
  BY <1>1, <1>3 DEF Owned, Draining, Closing
<1>10. CallerOK(c)'
  BY <1>1, <1>2, <1>3, <1>4 DEF CallerOK, NodeUp, Building, Closing, Holding
<1>11. \A b \in Callers \ {c} : CallerOK(b)'
  BY <1>2, <1>3, <1>4 DEF IInv, CallerOK
<1>12. \A q \in Runs : ForwarderOK(q)'
  BY <1>2 DEF IInv, ForwarderOK
<1> QED
  BY <1>5, <1>8, <1>9, <1>10, <1>11, <1>12 DEF IInv

\* The join of the forwarder gives up.
LEMMA PeersAbortedIInv ==
  ASSUME IInv, NEW c \in Callers, PeersAborted(c)
  PROVE  IInv'
<1> DEFINE r == crun[c]
<1>1. TypeOK /\ CallerOK(c) /\ cpc[c] = "joinPeers"
  BY DEF IInv, PeersAborted
<1>2. /\ fwd' = [fwd EXCEPT ![r] = NoForwarder]
      /\ UNCHANGED <<mappings, listeners, node, stateLock, listLock, up, peers, proxy, halted, stats,
                     st, key, run, sig, held, cpc, carg, crun, csnap, cjoin>>
  BY DEF PeersAborted, forwarding, lockVars, taskVars, callVars
<1>3. r \in Runs
  BY <1>1 DEF CallerOK, Closing, TypeOK
<1> HIDE DEF r
<1>4. /\ fwd' \in [Runs -> FwdType] /\ fwd'[r].at = "none"
      /\ \A q \in Runs \ {r} : fwd'[q] = fwd[q]
  <2>1. fwd \in [Runs -> FwdType] /\ NoForwarder \in FwdType /\ NoForwarder.at = "none"
    BY <1>1, EventCapAssumption DEF TypeOK, FwdType, NoForwarder
  <2> QED
    BY <1>2, <1>3, <2>1
<1>5. TypeOK'
  BY <1>1, <1>2, <1>4 DEF TypeOK, Live, FwdType
<1>6. ASSUME NEW b \in Callers PROVE CallerOK(b)'
  <2>1. CallerOK(b) /\ (cpc[b] = "stopCore" => crun[b] \in Runs)
    BY <1>1 DEF IInv, CallerOK, TypeOK, Closing
  <2> QED
    BY <1>2, <1>4, <2>1 DEF CallerOK
<1>7. \A q \in Runs : ForwarderOK(q)'
  BY <1>2, <1>4 DEF IInv, ForwarderOK
<1>8. StateLocked' /\ OwnRun' /\ NodeUp' /\ Owned'
  BY <1>2 DEF IInv, StateLocked, OwnRun, NodeUp, Owned
<1> QED
  BY <1>5, <1>6, <1>7, <1>8 DEF IInv

\* The core is closed, and then the netstack: of a run that is nobody else's.
LEMMA CloseIInv ==
  ASSUME IInv, NEW c \in Callers, StopCore(c) \/ StopNetstack(c)
  PROVE  IInv'
<1> DEFINE r == crun[c]
<1>1. TypeOK /\ CallerOK(c) /\ cpc[c] \in {"stopCore", "stopNetstack"}
  BY DEF IInv, StopCore, StopNetstack
<1>2. PICK label \in {"stopProxy", "stopDrain"}, u \in {"closed", "none"} :
        /\ Goto(c, label) /\ up' = [up EXCEPT ![r] = u]
        /\ \/ label = "stopProxy" /\ u = "closed" /\ crun' = crun /\ stats' = stats
              /\ peers' = [peers EXCEPT ![r] = 0] /\ cpc[c] = "stopCore"
           \/ label = "stopDrain" /\ crun' = [crun EXCEPT ![c] = 0] /\ peers' = peers
              /\ stats' = [stats EXCEPT ![r] = {}] /\ cpc[c] = "stopNetstack"
        /\ UNCHANGED <<mappings, listeners, node, stateLock, listLock, fwd, proxy, halted,
                       st, key, run, sig, held, carg, csnap, cjoin>>
  <2>1. CASE StopCore(c)
    BY <2>1 DEF StopCore, lockVars, taskVars
  <2>2. CASE StopNetstack(c)
    BY <2>2 DEF StopNetstack, lockVars, taskVars
  <2> QED
    BY <2>1, <2>2
<1>3. label \in Labels
  BY <1>2 DEF Labels
<1>4. cpc' \in [Callers -> Labels] /\ cpc'[c] = label /\ \A b \in Callers \ {c} : cpc'[b] = cpc[b]
  BY <1>1, <1>2, <1>3, GotoType
<1>5. r \in Runs /\ r # 0 /\ r # node /\ \A b \in Callers \ {c} : crun[b] # r
  BY <1>1 DEF IInv, CallerOK, OwnRun, Closing, TypeOK, Runs
<1>6. fwd[r].at = "none"
  <2>1. CASE cpc[c] = "stopCore"
    BY <1>1, <2>1 DEF CallerOK
  <2>2. CASE cpc[c] = "stopNetstack"
    <3>1. ForwarderOK(r) /\ up[r] # "up"
      BY <1>1, <1>5, <2>2 DEF IInv, CallerOK
    <3> QED
      BY <3>1 DEF ForwarderOK
  <2> QED
    BY <1>1, <2>1, <2>2
<1> HIDE DEF r
<1>7. /\ up' \in [Runs -> {"none", "up", "closed"}] /\ peers' \in [Runs -> {0, 1}]
      /\ stats' \in [Runs -> SUBSET Keys] /\ crun' \in [Callers -> Runs \cup {0}]
      /\ up'[r] = u /\ \A q \in Runs \ {r} : up'[q] = up[q] /\ peers'[q] = peers[q]
      /\ crun'[c] \in {r, 0} /\ \A b \in Callers \ {c} : crun'[b] = crun[b]
      /\ crun'[c] = 0 <=> label = "stopDrain"
  BY <1>1, <1>2, <1>5 DEF TypeOK, r
<1>8. TypeOK'
  BY <1>1, <1>2, <1>4, <1>7 DEF TypeOK, Labels, Live
<1>9. StateLocked' /\ OwnRun'
  BY <1>1, <1>2, <1>4, <1>5, <1>7 DEF IInv, StateLocked, OwnRun
<1>10. NodeUp'
  BY <1>1, <1>2, <1>5, <1>7 DEF IInv, NodeUp, TypeOK
<1>11. Owned'
  BY <1>1, <1>2, <1>4 DEF IInv, Owned, Draining, Closing
<1>12. CallerOK(c)'
  BY <1>1, <1>2, <1>4, <1>5, <1>7 DEF CallerOK, Building, Closing, Holding, r
<1>13. ASSUME NEW b \in Callers \ {c} PROVE CallerOK(b)'
  <2>1. CallerOK(b) /\ crun[b] \in Runs \cup {0} /\ crun[b] # r
    BY <1>1, <1>5 DEF IInv, TypeOK
  <2>2. cpc[b] \in Holding \cup Closing \cup {"startClone", "startBuild"} => crun[b] \in Runs \ {r}
    BY <2>1 DEF CallerOK, Building, Closing, Holding
  <2> QED
    BY <1>2, <1>4, <1>7, <2>1, <2>2 DEF CallerOK, Closing
<1>14. \A q \in Runs : ForwarderOK(q)'
  BY <1>2, <1>6, <1>7 DEF IInv, ForwarderOK
<1> QED
  BY <1>8, <1>9, <1>10, <1>11, <1>12, <1>13, <1>14 DEF IInv

\* add_*: no node to serve the mapping, or the mutex is kept.
LEMMA AddStateIInv ==
  ASSUME IInv, NEW c \in Callers, AddState(c)
  PROVE  IInv'
<1>1. TypeOK /\ CallerOK(c) /\ NodeUp /\ Owned /\ cpc[c] = "addState" /\ stateLock = NoCaller
  BY DEF IInv, AddState
<1>2. UNCHANGED <<mappings, listeners, node, listLock, up, peers, fwd, proxy, halted, stats,
                  st, key, run, sig, held, csnap, cjoin>>
  BY DEF AddState, runVars, taskVars
<1>3. CASE node = 0
  <2>1. Return(c) /\ UNCHANGED <<stateLock, crun>> /\ Goto(c, "idle")
    BY <1>3 DEF AddState, Return
  <2>2. /\ cpc' \in [Callers -> Labels] /\ cpc'[c] = "idle"
        /\ \A b \in Callers \ {c} : cpc'[b] = cpc[b]
        /\ carg' \in [Callers -> Keys \cup {NoKey}]
        /\ \A b \in Callers \ {c} : carg'[b] = carg[b]
    BY <1>1, <2>1, ReturnType
  <2>3. TypeOK'
    BY <1>1, <1>2, <2>1, <2>2 DEF TypeOK, Labels, Live
  <2>4. CallerOK(c)' /\ Owned'
    BY <1>1, <1>2, <2>1, <2>2 DEF CallerOK, Owned, Building, Closing, Holding, Draining
  <2>5. "idle" \in Labels \ {"addSpawn"}
    BY DEF Labels
  <2> QED
    BY <1>1, <1>2, <2>1, <2>2, <2>3, <2>4, <2>5, MoveIInv
<1>4. CASE node # 0
  <2>1. /\ stateLock' = c /\ crun' = [crun EXCEPT ![c] = node]
        /\ Goto(c, "addSpawn") /\ carg' = carg /\ "addSpawn" \in Labels
    BY <1>4 DEF AddState, Labels
  <2>2. cpc' \in [Callers -> Labels] /\ cpc'[c] = "addSpawn" /\ \A b \in Callers \ {c} : cpc'[b] = cpc[b]
    BY <1>1, <2>1, GotoType
  <2>3. /\ crun' \in [Callers -> Runs \cup {0}] /\ crun'[c] = node
        /\ \A b \in Callers \ {c} : crun'[b] = crun[b]
    BY <1>1, <2>1 DEF TypeOK
  <2>4. TypeOK'
    BY <1>1, <1>2, <2>1, <2>2, <2>3 DEF TypeOK, Labels, Live
  <2>5. \A b \in Callers : cpc[b] # "addSpawn"
    BY <1>1, CallersAssumption DEF IInv, StateLocked
  <2>6. StateLocked' /\ OwnRun'
    BY <1>2, <2>1, <2>2, <2>3, <2>5 DEF IInv, StateLocked, OwnRun
  <2>7. NodeUp' /\ Owned'
    BY <1>1, <1>2, <1>4 DEF NodeUp, Owned
  <2>8. CallerOK(c)'
    BY <1>1, <1>2, <1>4, <2>1, <2>2, <2>3 DEF CallerOK, Building, Closing, Holding
  <2>9. \A b \in Callers \ {c} : CallerOK(b)'
    BY <1>2, <2>1, <2>2, <2>3 DEF IInv, CallerOK
  <2>10. \A q \in Runs : ForwarderOK(q)'
    BY <1>2 DEF IInv, ForwarderOK
  <2> QED
    BY <2>4, <2>6, <2>7, <2>8, <2>9, <2>10 DEF IInv
<1> QED
  BY <1>3, <1>4

\* add_* spawns its listener, for the node that is still there.
LEMMA AddSpawnIInv ==
  ASSUME IInv, NEW c \in Callers, AddSpawn(c)
  PROVE  IInv'
<1>1. TypeOK /\ CallerOK(c) /\ NodeUp /\ cpc[c] = "addSpawn"
  BY DEF IInv, AddSpawn
<1>2. /\ SpawnListeners([k \in Keys |-> IF k = carg[c] THEN 1 ELSE 0], crun[c])
      /\ stateLock' = NoCaller /\ crun' = [crun EXCEPT ![c] = 0] /\ Return(c)
      /\ UNCHANGED <<mappings, node, listLock, up, peers, fwd, proxy, halted, csnap, cjoin>>
  BY DEF AddSpawn, runVars
<1>3. /\ cpc' \in [Callers -> Labels] /\ cpc'[c] = "idle"
      /\ \A b \in Callers \ {c} : cpc'[b] = cpc[b]
      /\ carg' \in [Callers -> Keys \cup {NoKey}]
      /\ \A b \in Callers \ {c} : carg'[b] = carg[b]
  BY <1>1, <1>2, ReturnType
<1>4. crun[c] = node /\ crun[c] \in Runs /\ node # 0
  BY <1>1 DEF IInv, StateLocked, CallerOK, TypeOK
<1>5. /\ crun' \in [Callers -> Runs \cup {0}] /\ crun'[c] = 0
      /\ \A b \in Callers \ {c} : crun'[b] = crun[b]
  BY <1>1, <1>2 DEF TypeOK
<1>6. /\ st' \in [Tasks -> {"none", "spawned", "serving"}]
      /\ key' \in [Tasks -> Keys \cup {NoKey}] /\ run' \in [Tasks -> Runs \cup {0}]
      /\ stats' \in [Runs -> SUBSET Keys] /\ listeners' \in [Keys -> Tasks \cup {0}]
      /\ sig' \subseteq Live' /\ UNCHANGED held
  BY <1>1, <1>2, <1>4, SpawnType
<1>7. TypeOK'
  BY <1>1, <1>2, <1>3, <1>5, <1>6 DEF TypeOK, Labels
<1>8. \A b \in Callers : cpc[b] = "addSpawn" => b = c
  BY <1>1 DEF IInv, StateLocked
<1>9. StateLocked' /\ OwnRun'
  BY <1>2, <1>3, <1>5, <1>8, CallersAssumption DEF IInv, StateLocked, OwnRun
<1>10. NodeUp' /\ Owned'
  BY <1>1, <1>2, <1>4 DEF NodeUp, Owned
<1>11. CallerOK(c)'
  BY <1>3, <1>5 DEF CallerOK, Building, Closing, Holding
<1>12. \A b \in Callers \ {c} : CallerOK(b)'
  BY <1>2, <1>3, <1>5 DEF IInv, CallerOK
<1>13. \A q \in Runs : ForwarderOK(q)'
  BY <1>2 DEF IInv, ForwarderOK
<1> QED
  BY <1>7, <1>9, <1>10, <1>11, <1>12, <1>13 DEF IInv

\* Every step.
LEMMA NextIInv ==
  ASSUME IInv, [Next]_vars
  PROVE  IInv'
<1>1. ASSUME NEW c \in Callers, Call(c) PROVE IInv'
  BY <1>1, StartCheckIInv, StopTakeIInv, SimpleMoves DEF Call
<1>2. ASSUME NEW c \in Callers, Proceed(c) PROVE IInv'
  BY <1>2, SimpleMoves, DrainMoves, StartBuildIInv, StartSpawnIInv, StartStoreIInv,
     PeersAbortedIInv, CloseIInv, TaskIInv, AddStateIInv, AddSpawnIInv DEF Proceed
<1>3. ASSUME \/ \E t \in Tasks : Run(t)
             \/ \E r \in Runs : ProxyBind(r) \/ ProxyStopped(r)
      PROVE  IInv'
  BY <1>3, TaskIInv
<1>4. ASSUME NEW r \in Runs, PeerChanges(r) \/ Forward(r) PROVE IInv'
  BY <1>4, ForwardIInv
<1>5. CASE UNCHANGED vars
  <2>1. UNCHANGED <<mappings, listeners, node, stateLock, listLock, up, peers, fwd, proxy, halted,
                    stats, st, key, run, sig, held, cpc, carg, crun, csnap, cjoin>>
    BY <1>5 DEF vars, lockVars, runVars, taskVars, callVars
  <2>2. TypeOK'
    BY <2>1 DEF IInv, TypeOK, Live
  <2> QED
    BY <2>1, <2>2, StillIInv
<1>6. ASSUME NEW k \in Keys, LetGo(k) PROVE IInv'
  <2>1. /\ UNCHANGED <<mappings, listeners, node, stateLock, listLock, up, peers, fwd, proxy,
                       halted, stats, st, key, run, sig, cpc, carg, crun, csnap, cjoin>>
        /\ held' \subseteq held
    BY <1>6 DEF LetGo, lockVars, runVars, callVars
  <2>2. TypeOK'
    BY <2>1 DEF IInv, TypeOK, Live
  <2> QED
    BY <2>1, <2>2, StillIInv
<1> QED
  BY <1>1, <1>2, <1>3, <1>4, <1>5, <1>6 DEF Next

\* The invariant is inductive.
LEMMA Inductive == Spec => []IInv
<1>1. IInv /\ [Next]_vars => IInv'
  BY NextIInv
<1> QED
  BY <1>1, InitIInv, PTL DEF Spec

\* Whatever calls the threads of the app make: the engine's state keeps its
\* types, and a stop is only ever held by a listener task that is alive.
THEOREM TypeCorrect == Spec => []TypeOK
<1>1. IInv => TypeOK
  BY DEF IInv
<1> QED
  BY <1>1, Inductive, PTL

\* No interleaving of start, stop, add_*, remove_* and clear_mappings leaves an
\* entry in listeners behind the last stop(): who makes one is about to store
\* its node, or holds the state mutex while there is one.
THEOREM NoEntryBehindStop == Spec => []EmptyWhenStopped
<1>1. ASSUME IInv PROVE EmptyWhenStopped
  <2> SUFFICES ASSUME Idle, node = 0 PROVE Registered = {}
    BY DEF EmptyWhenStopped
  <2>1. \A k \in Keys : listeners[k] = 0
    BY <1>1 DEF IInv, Owned, Idle, Draining, Closing
  <2> QED
    BY <2>1 DEF Registered
<1> QED
  BY <1>1, Inductive, PTL

\* "a missed or lagged event can never produce a stale count": a forwarder
\* asleep on an empty channel has told the app the number of peers there are,
\* for any capacity of the channel; and none outlives its core.
THEOREM PeersAreReported == Spec => []PeersReported
<1>1. IInv => PeersReported
  BY DEF IInv, ForwarderOK, PeersReported
<1> QED
  BY <1>1, Inductive, PTL

-----------------------------------------------------------------------------
(* The invariant of one app thread *)

\* Nothing is configured, nothing runs.
LEMMA InitServing == Init => Serving
  BY DEF Init, Serving, ServedOK, Served, Building, Draining, Closing

\* A step of the one caller there is.
LEMMA OnlyCaller ==
  ASSUME OneThread, NEW c \in Callers, ServedOK(c)'
  PROVE  Serving'
  BY DEF OneThread, Serving

\* spawn_listener leaves an entry for each mapping, if there are several tasks
\* of one mapping too, and takes none away.
LEMMA SpawnEntries ==
  ASSUME TypeOK, NEW n \in [Keys -> Nat], NEW r \in Runs, SpawnListeners(n, r)
  PROVE  \A k \in Keys : listeners'[k] # 0 <=> n[k] > 0 \/ listeners[k] # 0
<1>1. PICK T \in SUBSET Unused : \E own \in [T -> Keys] :
        /\ \A x \in T, y \in Unused \ T : x < y
        /\ \A k \in Keys : Cardinality({t \in T : own[t] = k}) = n[k]
        /\ st'  = [t \in Tasks |-> IF t \in T THEN "spawned" ELSE st[t]]
        /\ key' = [t \in Tasks |-> IF t \in T THEN own[t] ELSE key[t]]
        /\ run' = [t \in Tasks |-> IF t \in T THEN r ELSE run[t]]
        /\ stats' = [stats EXCEPT ![r] = @ \cup {k \in Keys : n[k] > 0}]
        /\ \E last \in [Keys -> T \cup {0}] :
             /\ \A k \in Keys : IF n[k] = 0 THEN last[k] = 0
                                ELSE last[k] # 0 /\ own[last[k]] = k
             /\ listeners' = [k \in Keys |-> IF n[k] = 0 THEN listeners[k] ELSE last[k]]
        /\ UNCHANGED <<sig, held>>
  BY Zenon DEF SpawnListeners
<1>2. PICK own \in [T -> Keys] :
        \E last \in [Keys -> T \cup {0}] :
          /\ \A k \in Keys : IF n[k] = 0 THEN last[k] = 0
                             ELSE last[k] # 0 /\ own[last[k]] = k
          /\ listeners' = [k \in Keys |-> IF n[k] = 0 THEN listeners[k] ELSE last[k]]
  BY <1>1
<1>3. PICK last \in [Keys -> T \cup {0}] :
        /\ \A k \in Keys : n[k] # 0 => last[k] # 0
        /\ listeners' = [k \in Keys |-> IF n[k] = 0 THEN listeners[k] ELSE last[k]]
  BY <1>2
<1> QED
  BY <1>3

\* What no call does leaves the entries and what is configured as they are.
LEMMA ServingStays ==
  ASSUME Serving, UNCHANGED <<mappings, listeners, node, cpc, carg, csnap>>
  PROVE  Serving'
  BY DEF Serving, ServedOK, Served

\* start().
LEMMA StartServing ==
  ASSUME OneThread, IInv, Serving, NEW c \in Callers,
         StartCheck(c) \/ StartClone(c) \/ StartBuild(c) \/ StartSpawn(c) \/ StartStore(c)
  PROVE  Serving'
<1>1. TypeOK /\ CallerOK(c) /\ ServedOK(c) /\ \A b \in Callers : b = c
  BY DEF IInv, Serving, OneThread
<1>2. CASE StartCheck(c)
  <2>1. Goto(c, "startClone") /\ "startClone" \in Labels /\ cpc[c] = "idle" /\ node = 0
        /\ UNCHANGED <<listeners, node>>
    BY <1>2 DEF StartCheck, Labels
  <2>2. cpc'[c] = "startClone"
    BY <1>1, <2>1, GotoType
  <2>3. \A k \in Keys : listeners[k] = 0
    BY <1>1, <2>1 DEF IInv, Owned, Draining, Closing
  <2> QED
    BY <2>1, <2>2, <2>3, OnlyCaller DEF ServedOK, Building, Draining, Closing
<1>3. CASE StartClone(c)
  <2>1. Goto(c, "startBuild") /\ "startBuild" \in Labels /\ cpc[c] = "startClone"
        /\ csnap'[c] = mappings /\ UNCHANGED <<mappings, listeners, node>>
    BY <1>1, <1>3 DEF StartClone, Labels, TypeOK
  <2>2. cpc'[c] = "startBuild"
    BY <1>1, <2>1, GotoType
  <2> QED
    BY <1>1, <2>1, <2>2, OnlyCaller DEF ServedOK, Building, Draining, Closing
<1>4. CASE StartBuild(c)
  <2>1. Goto(c, "startSpawn") /\ "startSpawn" \in Labels /\ cpc[c] = "startBuild"
        /\ UNCHANGED <<mappings, listeners, node, csnap>>
    BY <1>4 DEF StartBuild, Labels
  <2>2. cpc'[c] = "startSpawn"
    BY <1>1, <2>1, GotoType
  <2> QED
    BY <1>1, <2>1, <2>2, OnlyCaller DEF ServedOK, Building, Draining, Closing
<1>5. CASE StartSpawn(c)
  <2>1. /\ Goto(c, "startStore") /\ "startStore" \in Labels /\ cpc[c] = "startSpawn"
        /\ SpawnListeners(csnap[c], crun[c]) /\ UNCHANGED <<mappings, node>>
    BY <1>5 DEF StartSpawn, Labels
  <2>2. cpc'[c] = "startStore"
    BY <1>1, <2>1, GotoType
  <2>3. /\ crun[c] \in Runs /\ csnap[c] \in [Keys -> Nat] /\ csnap[c] = mappings
        /\ node = 0 /\ \A k \in Keys : listeners[k] = 0
    BY <1>1, <2>1 DEF TypeOK, CallerOK, ServedOK, Building
  <2>4. \A k \in Keys : listeners'[k] # 0 <=> csnap[c][k] > 0 \/ listeners[k] # 0
    BY <1>1, <2>1, <2>3, SpawnEntries
  <2>5. Served(Keys)'
    BY <2>1, <2>3, <2>4 DEF Served
  <2> QED
    BY <2>1, <2>2, <2>3, <2>5, OnlyCaller DEF ServedOK, Building, Draining, Closing
<1>6. CASE StartStore(c)
  <2>1. Goto(c, "idle") /\ "idle" \in Labels /\ cpc[c] = "startStore"
        /\ UNCHANGED <<mappings, listeners>>
    BY <1>6 DEF StartStore, Labels
  <2>2. cpc'[c] = "idle"
    BY <1>1, <2>1, GotoType
  <2>3. Served(Keys)'
    BY <1>1, <2>1 DEF ServedOK, Served
  <2> QED
    BY <2>2, <2>3, OnlyCaller DEF ServedOK, Building, Draining, Closing
<1> QED
  BY <1>2, <1>3, <1>4, <1>5, <1>6

\* stop(): there is no node any more.
LEMMA StopServing ==
  ASSUME OneThread, IInv, Serving, NEW c \in Callers,
         \/ StopTake(c) \/ StopPeers(c) \/ PeersJoined(c) \/ StopCore(c)
         \/ StopProxy(c) \/ StopNetstack(c) \/ StopDrain(c)
  PROVE  Serving'
<1>1. TypeOK /\ ServedOK(c)
  BY DEF IInv, Serving
<1>2. PICK label \in Draining \cup {"join"} : Goto(c, label) /\ node' = 0
  <2>1. CASE StopTake(c)
    BY <2>1 DEF StopTake, Draining, Closing
  <2>2. CASE StopPeers(c) \/ PeersJoined(c) \/ StopCore(c)
    <3>1. node = 0
      BY <1>1, <2>2 DEF StopPeers, PeersJoined, StopCore, ServedOK, Draining, Closing
    <3> QED
      BY <2>2, <3>1 DEF StopPeers, PeersJoined, StopCore, Draining, Closing
  <2>3. CASE StopProxy(c) \/ StopNetstack(c) \/ StopDrain(c)
    <3>1. node = 0
      BY <1>1, <2>3 DEF StopProxy, StopNetstack, StopDrain, ServedOK, Draining, Closing
    <3> QED
      BY <2>3, <3>1 DEF StopProxy, StopNetstack, StopDrain, Draining, Closing
  <2> QED
    BY <2>1, <2>2, <2>3
<1>3. label \in Labels
  BY <1>2 DEF Labels, Draining, Closing
<1>4. cpc'[c] = label
  BY <1>1, <1>2, <1>3, GotoType
<1> QED
  BY <1>2, <1>4, OnlyCaller DEF ServedOK, Building, Draining, Closing

\* add_*, which may find an older entry of its mapping.
LEMMA AddServing ==
  ASSUME OneThread, IInv, Serving, NEW c \in Callers,
         (\E k \in Keys : AddPush(c, k)) \/ AddState(c) \/ AddSpawn(c)
  PROVE  Serving'
<1>1. TypeOK /\ CallerOK(c) /\ ServedOK(c)
  BY DEF IInv, Serving
<1>2. ASSUME NEW k \in Keys, AddPush(c, k) PROVE Serving'
  <2>1. /\ Goto(c, "addState") /\ "addState" \in Labels /\ cpc[c] = "idle"
        /\ mappings' = [mappings EXCEPT ![k] = @ + 1] /\ carg'[c] = k
        /\ UNCHANGED <<listeners, node>>
    BY <1>1, <1>2 DEF AddPush, Labels, TypeOK
  <2>2. cpc'[c] = "addState"
    BY <1>1, <2>1, GotoType
  <2>3. mappings'[k] > 0 /\ \A j \in Keys \ {k} : mappings'[j] = mappings[j]
    BY <1>1, <2>1, MaxDupAssumption DEF TypeOK
  <2>4. node # 0 => Served(Keys \ {k})'
    BY <1>1, <2>1, <2>3 DEF ServedOK, Served
  <2> QED
    BY <2>1, <2>2, <2>3, <2>4, OnlyCaller DEF ServedOK, Building, Draining, Closing
<1>3. CASE AddState(c) /\ node = 0
  <2>1. Return(c) /\ node' = node
    BY <1>3 DEF AddState
  <2>2. cpc'[c] = "idle"
    BY <1>1, <2>1, ReturnType
  <2> QED
    BY <1>3, <2>1, <2>2, OnlyCaller DEF ServedOK, Building, Draining, Closing
<1>4. CASE AddState(c) /\ node # 0
  <2>1. Goto(c, "addSpawn") /\ "addSpawn" \in Labels /\ cpc[c] = "addState"
        /\ UNCHANGED <<mappings, listeners, node, carg>>
    BY <1>4 DEF AddState, Labels
  <2>2. cpc'[c] = "addSpawn"
    BY <1>1, <2>1, GotoType
  <2> QED
    BY <1>1, <2>1, <2>2, OnlyCaller DEF ServedOK, Served, Building, Draining, Closing
<1>5. CASE AddSpawn(c)
  <2> DEFINE n == [k \in Keys |-> IF k = carg[c] THEN 1 ELSE 0]
  <2>1. Return(c) /\ cpc[c] = "addSpawn" /\ SpawnListeners(n, crun[c]) /\ UNCHANGED <<mappings, node>>
    BY <1>5 DEF AddSpawn
  <2>2. cpc'[c] = "idle"
    BY <1>1, <2>1, ReturnType
  <2>3. crun[c] \in Runs /\ n \in [Keys -> Nat] /\ carg[c] \in Keys
    BY <1>1, <2>1 DEF TypeOK, CallerOK
  <2>4. \A k \in Keys : n[k] > 0 <=> k = carg[c]
    OBVIOUS
  <2> HIDE DEF n
  <2>5. \A k \in Keys : listeners'[k] # 0 <=> k = carg[c] \/ listeners[k] # 0
    BY <1>1, <2>1, <2>3, <2>4, SpawnEntries
  <2>6. node # 0 => Served(Keys)'
    BY <1>1, <2>1, <2>5 DEF ServedOK, Served
  <2> QED
    BY <2>1, <2>2, <2>6, OnlyCaller DEF ServedOK, Building, Draining, Closing
<1> QED
  BY <1>2, <1>3, <1>4, <1>5

\* remove_* and clear_mappings.
LEMMA RemoveServing ==
  ASSUME OneThread, IInv, Serving, NEW c \in Callers,
         \/ \E k \in Keys : RemoveRetain(c, k)
         \/ RemoveStop(c) \/ ClearVectors(c) \/ ClearDrain(c) \/ Joined(c)
  PROVE  Serving'
<1>1. TypeOK /\ CallerOK(c) /\ ServedOK(c)
  BY DEF IInv, Serving
<1>2. ASSUME NEW k \in Keys, RemoveRetain(c, k) PROVE Serving'
  <2>1. /\ Goto(c, "removeStop") /\ "removeStop" \in Labels /\ cpc[c] = "idle"
        /\ mappings' = [mappings EXCEPT ![k] = 0] /\ carg'[c] = k
        /\ UNCHANGED <<listeners, node>>
    BY <1>1, <1>2 DEF RemoveRetain, Labels, TypeOK
  <2>2. cpc'[c] = "removeStop"
    BY <1>1, <2>1, GotoType
  <2>3. mappings'[k] = 0 /\ \A j \in Keys \ {k} : mappings'[j] = mappings[j]
    BY <1>1, <2>1 DEF TypeOK
  <2>4. node # 0 => Served(Keys \ {k})'
    BY <1>1, <2>1, <2>3 DEF ServedOK, Served
  <2> QED
    BY <2>1, <2>2, <2>3, <2>4, OnlyCaller DEF ServedOK, Building, Draining, Closing
<1>3. CASE RemoveStop(c)
  <2>1. /\ cpc[c] = "removeStop" /\ carg[c] \in Keys /\ UNCHANGED <<mappings, node>>
        /\ node # 0 => Served(Keys \ {carg[c]}) /\ mappings[carg[c]] = 0
    BY <1>1, <1>3 DEF RemoveStop, CallerOK, ServedOK
  <2>2. cpc'[c] \in {"idle", "join"}
    <3>1. Return(c) \/ Goto(c, "join")
      BY <1>3 DEF RemoveStop
    <3> QED
      BY <1>1, <3>1, ReturnType, GotoType DEF Labels
  <2>3. /\ listeners'[carg[c]] = 0
        /\ \A k \in Keys \ {carg[c]} : listeners'[k] = listeners[k]
    BY <1>1, <1>3, <2>1 DEF RemoveStop, TypeOK
  <2>4. node # 0 => Served(Keys)'
    BY <2>1, <2>3 DEF Served
  <2> QED
    BY <2>1, <2>2, <2>4, OnlyCaller DEF ServedOK, Building, Draining, Closing
<1>4. CASE ClearVectors(c)
  <2>1. Goto(c, "clearDrain") /\ "clearDrain" \in Labels /\ mappings' = [k \in Keys |-> 0]
    BY <1>4 DEF ClearVectors, Labels
  <2>2. cpc'[c] = "clearDrain"
    BY <1>1, <2>1, GotoType
  <2> QED
    BY <2>1, <2>2, OnlyCaller DEF ServedOK, Building, Draining, Closing
<1>5. CASE ClearDrain(c)
  <2>1. /\ Goto(c, "idle") /\ "idle" \in Labels /\ cpc[c] = "clearDrain"
        /\ mappings' = mappings /\ listeners' = [k \in Keys |-> 0]
    BY <1>5 DEF ClearDrain, Drain, Labels
  <2>2. cpc'[c] = "idle"
    BY <1>1, <2>1, GotoType
  <2>3. Served(Keys)'
    BY <1>1, <2>1 DEF ServedOK, Served
  <2> QED
    BY <2>2, <2>3, OnlyCaller DEF ServedOK, Building, Draining, Closing
<1>6. CASE Joined(c)
  <2>1. Return(c) /\ cpc[c] = "join" /\ UNCHANGED <<mappings, listeners, node>>
    BY <1>6 DEF Joined
  <2>2. cpc'[c] = "idle"
    BY <1>1, <2>1, ReturnType
  <2> QED
    BY <1>1, <2>1, <2>2, OnlyCaller DEF ServedOK, Served, Building, Draining, Closing
<1> QED
  BY <1>2, <1>3, <1>4, <1>5, <1>6

\* Every step.
LEMMA NextServing ==
  ASSUME OneThread, IInv, Serving, [Next]_vars
  PROVE  Serving'
<1>1. ASSUME NEW c \in Callers, Call(c) PROVE Serving'
  BY <1>1, StartServing, StopServing, AddServing, RemoveServing DEF Call
<1>2. ASSUME NEW c \in Callers, Proceed(c) PROVE Serving'
  <2>1. CASE StartClone(c) \/ StartBuild(c) \/ StartSpawn(c) \/ StartStore(c)
    BY <2>1, StartServing
  <2>2. CASE \/ StopPeers(c) \/ PeersJoined(c) \/ StopCore(c) \/ StopProxy(c)
             \/ StopNetstack(c) \/ StopDrain(c)
    BY <2>2, StopServing
  <2>3. CASE AddState(c) \/ AddSpawn(c)
    BY <2>3, AddServing
  <2>4. CASE RemoveStop(c) \/ ClearDrain(c) \/ Joined(c)
    BY <2>4, RemoveServing
  <2>5. CASE PeersAborted(c) \/ \E t \in Tasks : JoinAborts(c, t)
    BY <2>5, ServingStays DEF PeersAborted, JoinAborts, forwarding, callVars
  <2> QED
    BY <1>2, <2>1, <2>2, <2>3, <2>4, <2>5 DEF Proceed
<1>3. ASSUME NEW t \in Tasks, Run(t) PROVE Serving'
  BY <1>3, ServingStays DEF Run, Bind, BindFails, Stopped, callVars
<1>4. ASSUME NEW r \in Runs,
             ProxyBind(r) \/ ProxyStopped(r) \/ PeerChanges(r) \/ Forward(r)
      PROVE  Serving'
  BY <1>4, ServingStays
  DEF ProxyBind, ProxyStopped, PeerChanges, Forward, FwdSubscribes, FwdQueries, FwdCalls,
      FwdReceives, FwdDebounced, FwdStops, forwarding, callVars
<1>5. CASE UNCHANGED vars
  BY <1>5, ServingStays DEF vars, callVars
<1>6. ASSUME NEW k \in Keys, LetGo(k) PROVE Serving'
  BY <1>6, ServingStays DEF LetGo, callVars
<1> QED
  BY <1>1, <1>2, <1>3, <1>4, <1>5, <1>6 DEF Next

\* How far the calls are, along every behaviour.
LEMMA ServingInductive ==
  ASSUME OneThread
  PROVE  Spec => []Serving
<1>1. IInv /\ Serving /\ [Next]_vars => Serving'
  BY NextServing
<1> QED
  BY <1>1, InitServing, Inductive, PTL DEF Spec

-----------------------------------------------------------------------------
(* The invariant of one app thread that adds no mapping twice *)

\* Nothing is configured, nothing runs.
LEMMA InitSInv == Init => SInv
  BY DEF Init, SInv, PlainOK, TaskOK, ProxyOK, Live

\* SpawnListeners, with T the new tasks, own their keys and last the entries.
SpawnedFor(n, r, T, own, last) ==
  /\ \A k \in Keys : Cardinality({t \in T : own[t] = k}) = n[k]
  /\ st'  = [t \in Tasks |-> IF t \in T THEN "spawned" ELSE st[t]]
  /\ key' = [t \in Tasks |-> IF t \in T THEN own[t] ELSE key[t]]
  /\ run' = [t \in Tasks |-> IF t \in T THEN r ELSE run[t]]
  /\ stats' = [stats EXCEPT ![r] = @ \cup {k \in Keys : n[k] > 0}]
  /\ \A k \in Keys : IF n[k] = 0 THEN last[k] = 0 ELSE last[k] # 0 /\ own[last[k]] = k
  /\ listeners' = [k \in Keys |-> IF n[k] = 0 THEN listeners[k] ELSE last[k]]

\* There are finitely many task numbers.
LEMMA TasksFinite == IsFiniteSet(Tasks)
<1>1. 1 \in Int /\ MaxTask \in Int
  BY MaxTaskAssumption
<1> QED
  BY <1>1, FS_Interval DEF Tasks

\* With at most one task for each mapping, each new task gets its entry, and no
\* older one loses its own.
LEMMA SpawnFacts ==
  ASSUME TypeOK, NEW n \in [Keys -> {0, 1}], NEW r \in Runs, SpawnListeners(n, r),
         \A k \in Keys : n[k] = 1 => listeners[k] = 0,
         \A t \in Live : key[t] \in Keys /\ listeners[key[t]] = t,
         \A t \in Live, k \in Keys : listeners[k] = t => key[t] = k
  PROVE  /\ \A t \in Live' : /\ key'[t] \in Keys /\ listeners'[key'[t]] = t
                             /\ \A k \in Keys : listeners'[k] = t => key'[t] = k
                             /\ \/ t \in Live /\ run'[t] = run[t] /\ key'[t] = key[t]
                                \/ run'[t] = r /\ key'[t] \in stats'[r]
         /\ \A q \in Runs : stats[q] \subseteq stats'[q]
<1>1. PICK T \in SUBSET Unused : \E own \in [T -> Keys] :
        /\ \A x \in T, y \in Unused \ T : x < y
        /\ \A k \in Keys : Cardinality({t \in T : own[t] = k}) = n[k]
        /\ st'  = [t \in Tasks |-> IF t \in T THEN "spawned" ELSE st[t]]
        /\ key' = [t \in Tasks |-> IF t \in T THEN own[t] ELSE key[t]]
        /\ run' = [t \in Tasks |-> IF t \in T THEN r ELSE run[t]]
        /\ stats' = [stats EXCEPT ![r] = @ \cup {k \in Keys : n[k] > 0}]
        /\ \E last \in [Keys -> T \cup {0}] :
             /\ \A k \in Keys : IF n[k] = 0 THEN last[k] = 0
                                ELSE last[k] # 0 /\ own[last[k]] = k
             /\ listeners' = [k \in Keys |-> IF n[k] = 0 THEN listeners[k] ELSE last[k]]
        /\ UNCHANGED <<sig, held>>
  BY Zenon DEF SpawnListeners
<1>a. PICK own \in [T -> Keys] :
        /\ \A k \in Keys : Cardinality({t \in T : own[t] = k}) = n[k]
        /\ st'  = [t \in Tasks |-> IF t \in T THEN "spawned" ELSE st[t]]
        /\ key' = [t \in Tasks |-> IF t \in T THEN own[t] ELSE key[t]]
        /\ run' = [t \in Tasks |-> IF t \in T THEN r ELSE run[t]]
        /\ stats' = [stats EXCEPT ![r] = @ \cup {k \in Keys : n[k] > 0}]
        /\ \E last \in [Keys -> T \cup {0}] :
             /\ \A k \in Keys : IF n[k] = 0 THEN last[k] = 0
                                ELSE last[k] # 0 /\ own[last[k]] = k
             /\ listeners' = [k \in Keys |-> IF n[k] = 0 THEN listeners[k] ELSE last[k]]
  BY <1>1
<1>b. PICK last \in [Keys -> T \cup {0}] : SpawnedFor(n, r, T, own, last)
  BY <1>a DEF SpawnedFor
<1>2. T \subseteq Tasks /\ 0 \notin Tasks /\ Live \subseteq Tasks /\ IsFiniteSet(Tasks)
  <2>1. IsFiniteSet(Tasks)
    BY TasksFinite
  <2>2. 0 \notin Tasks
    BY DEF Tasks
  <2>3. T \subseteq Tasks /\ Live \subseteq Tasks
    BY DEF Unused, Live
  <2> QED
    BY <2>1, <2>2, <2>3
<1>3. \A t \in T : t \notin Live /\ \A k \in Keys : listeners[k] # t
  BY <1>1, <1>2 DEF Unused, Registered
<1>4. IsFiniteSet(T)
  BY <1>2, FS_Subset
<1>5. ASSUME NEW t \in T PROVE n[own[t]] = 1 /\ last[own[t]] = t
  <2> DEFINE k == own[t]
             S == {u \in T : own[u] = k}
  <2>1. k \in Keys /\ n[k] \in {0, 1} /\ Cardinality(S) = n[k] /\ t \in S
    BY <1>b DEF SpawnedFor
  <2>2. IsFiniteSet(S)
    BY <1>4, FS_Subset
  <2>3. Cardinality(S) # 0
    BY <2>1, <2>2, FS_EmptySet
  <2>4. n[k] = 1
    BY <2>1, <2>3
  <2>5. PICK x : S = {x}
    BY <2>1, <2>2, <2>4, FS_Singleton
  <2>6. last[k] \in S
    <3>1. last[k] # 0 /\ own[last[k]] = k /\ last[k] \in T \cup {0}
      BY <1>b, <2>1, <2>4 DEF SpawnedFor
    <3> QED
      BY <3>1
  <2> QED
    BY <2>1, <2>4, <2>5, <2>6
<1>6. ASSUME NEW k \in Keys
      PROVE  /\ n[k] = 0 => listeners'[k] = listeners[k]
             /\ n[k] = 1 => listeners'[k] = last[k] /\ last[k] \in T /\ own[last[k]] = k
  <2>1. n[k] \in {0, 1} /\ last[k] \in T \cup {0}
    OBVIOUS
  <2> QED
    BY <1>b, <2>1 DEF SpawnedFor
<1>7. ASSUME NEW q \in Runs PROVE stats[q] \subseteq stats'[q]
  BY <1>b DEF TypeOK, SpawnedFor
<1>8. Live' = Live \cup T
  BY <1>b, <1>2 DEF Live, SpawnedFor
<1>9. ASSUME NEW t \in Live
      PROVE  /\ key'[t] \in Keys /\ listeners'[key'[t]] = t
             /\ \A k \in Keys : listeners'[k] = t => key'[t] = k
             /\ run'[t] = run[t] /\ key'[t] = key[t]
  <2>1. t \in Tasks /\ t \notin T /\ t # 0
    BY <1>2, <1>3
  <2>2. run'[t] = run[t] /\ key'[t] = key[t] /\ key[t] \in Keys /\ listeners[key[t]] = t
    BY <1>b, <2>1 DEF SpawnedFor
  <2>3. n[key[t]] = 0
    BY <2>1, <2>2
  <2>4. listeners'[key[t]] = t
    BY <1>6, <2>2, <2>3
  <2>5. ASSUME NEW k \in Keys, listeners'[k] = t PROVE key[t] = k
    <3>1. n[k] \in {0, 1}
      OBVIOUS
    <3>2. n[k] # 1
      BY <1>6, <2>1, <2>5
    <3>3. listeners[k] = t
      BY <1>6, <2>5, <3>1, <3>2
    <3> QED
      BY <3>3
  <2> QED
    BY <2>2, <2>4, <2>5
<1>10. ASSUME NEW t \in T
       PROVE  /\ key'[t] \in Keys /\ listeners'[key'[t]] = t
              /\ \A k \in Keys : listeners'[k] = t => key'[t] = k
              /\ run'[t] = r /\ key'[t] \in stats'[r]
  <2>1. t \in Tasks /\ key'[t] = own[t] /\ run'[t] = r /\ own[t] \in Keys
    BY <1>b, <1>2 DEF SpawnedFor
  <2>2. n[own[t]] = 1 /\ listeners'[own[t]] = t
    BY <1>5, <1>6, <2>1
  <2>3. own[t] \in stats'[r]
    BY <1>b, <2>1, <2>2 DEF TypeOK, SpawnedFor
  <2>4. ASSUME NEW k \in Keys, listeners'[k] = t PROVE own[t] = k
    <3>1. n[k] \in {0, 1}
      OBVIOUS
    <3>2. n[k] # 0
      BY <1>3, <1>6, <2>4
    <3> QED
      BY <1>6, <2>4, <3>1, <3>2
  <2> QED
    BY <2>1, <2>2, <2>3, <2>4
<1> QED
  BY <1>6, <1>7, <1>8, <1>9, <1>10

\* A new task holds no stop.
LEMMA SpawnSig ==
  ASSUME NEW n, NEW r, SpawnListeners(n, r)
  PROVE  sig' = sig
  BY DEF SpawnListeners

\* A step that leaves the tasks and the entries as they are.
LEMMA TasksStay ==
  ASSUME Sequential, IInv, Serving, SInv, NEW c \in Callers, cpc'[c] # "startStore",
         UNCHANGED <<listeners, st, key, run, cjoin>>, node' = 0 \/ UNCHANGED <<node, stats>>
  PROVE  \A t \in Tasks : TaskOK(t)'
<1> SUFFICES ASSUME NEW t \in Tasks, t \in Live PROVE TaskOK(t)'
  BY DEF TaskOK, Live
<1>1. TaskOK(t) /\ Live' = Live
  BY DEF SInv, Live
<1>2. \A b \in Callers : cpc'[b] # "startStore"
  BY DEF Sequential, OneThread
<1>3. run[t] \in Runs /\ 0 \notin Runs
  BY <1>1 DEF TaskOK, Runs
<1> QED
  BY <1>1, <1>2, <1>3 DEF TaskOK

\* A step of the forwarder, or none.
LEMMA SameSInv ==
  ASSUME SInv, UNCHANGED <<mappings, listeners, node, proxy, stats, st, key, run,
                           cpc, carg, crun, csnap, cjoin>>
  PROVE  SInv'
<1>1. \A c \in Callers : PlainOK(c)'
  BY DEF SInv, PlainOK
<1>2. \A t \in Tasks : TaskOK(t)'
  BY DEF SInv, TaskOK, Live
<1>3. \A r \in Runs : ProxyOK(r)'
  BY DEF SInv, ProxyOK
<1> QED
  BY <1>1, <1>2, <1>3 DEF SInv

\* Tasks and proxy servers: who ends takes away the entry of its own key, and
\* no other task has that key.
LEMMA TaskSInv ==
  ASSUME IInv, SInv, \/ \E t \in Tasks : Run(t)
                     \/ \E c \in Callers, t \in Tasks : JoinAborts(c, t)
                     \/ \E r \in Runs : ProxyBind(r) \/ ProxyStopped(r)
  PROVE  SInv'
<1>1. TypeOK
  BY DEF IInv
<1>2. UNCHANGED <<mappings, listeners, node, cpc, carg, crun, csnap, cjoin>>
  BY DEF Run, Bind, BindFails, Stopped, JoinAborts, ProxyBind, ProxyStopped, callVars
<1>3. \A c \in Callers : PlainOK(c)'
  BY <1>2 DEF SInv, PlainOK
<1>4. ASSUME NEW r \in Runs, ProxyBind(r) \/ ProxyStopped(r) PROVE SInv'
  <2>1. UNCHANGED <<stats, st, key, run>>
    BY <1>4 DEF ProxyBind, ProxyStopped, taskVars
  <2>2. \A q \in Runs : proxy'[q] # "none" => proxy[q] # "none"
    BY <1>1, <1>4 DEF ProxyBind, ProxyStopped, TypeOK
  <2>3. \A q \in Runs : ProxyOK(q)'
    BY <1>2, <2>2 DEF SInv, ProxyOK
  <2>4. \A t \in Tasks : TaskOK(t)'
    BY <1>2, <2>1 DEF SInv, TaskOK, Live
  <2> QED
    BY <1>3, <2>3, <2>4 DEF SInv
<1>5. ASSUME NEW t \in Tasks, Bind(t) PROVE SInv'
  <2>1. UNCHANGED <<stats, key, run, proxy>> /\ Live' = Live
    BY <1>1, <1>5 DEF Bind, runVars, Live, TypeOK
  <2>2. \A q \in Runs : ProxyOK(q)'
    BY <1>2, <2>1 DEF SInv, ProxyOK
  <2>3. \A u \in Tasks : TaskOK(u)'
    BY <1>2, <2>1 DEF SInv, TaskOK
  <2> QED
    BY <1>3, <2>2, <2>3 DEF SInv
<1>6. ASSUME NEW t \in Tasks, End(t), Unlist(t) \/ stats' = stats, t \in Live, proxy' = proxy PROVE SInv'
  <2>1. /\ Live' = Live \ {t}
        /\ \A u \in Tasks \ {t} : key'[u] = key[u] /\ run'[u] = run[u]
    BY <1>1, <1>6, EndType
  <2>2. \A q \in Runs : ProxyOK(q)'
    BY <1>2, <1>6 DEF SInv, ProxyOK
  <2>3. ASSUME NEW u \in Tasks, u \in Live' PROVE TaskOK(u)'
    <3>1. /\ u \in Live \ {t} /\ key'[u] = key[u] /\ run'[u] = run[u]
          /\ TaskOK(u) /\ TaskOK(t) /\ run[u] \in Runs
      BY <2>1, <2>3 DEF SInv, TaskOK
    <3>2. key[u] # key[t]
      BY <1>6, <3>1 DEF TaskOK
    <3>3. key[u] \in stats[run[u]] => key[u] \in stats'[run[u]]
      BY <1>1, <1>6, <3>1, <3>2 DEF Unlist, TypeOK
    <3>4. \A v \in Live' : v \in Live /\ key'[v] = key[v]
      BY <1>1, <2>1 DEF Live
    <3> QED
      BY <1>2, <3>1, <3>3, <3>4 DEF TaskOK
  <2> QED
    BY <1>3, <2>2, <2>3 DEF SInv, TaskOK
<1>7. ASSUME NEW t \in Tasks, BindFails(t) \/ Stopped(t) PROVE SInv'
  <2>1. End(t) /\ Unlist(t) /\ t \in Live /\ proxy' = proxy
    BY <1>7 DEF BindFails, Stopped, Live, runVars
  <2> QED
    BY <1>6, <2>1
<1>8. ASSUME NEW c \in Callers, NEW t \in Tasks, JoinAborts(c, t) PROVE SInv'
  <2>1. End(t) /\ stats' = stats /\ t \in Live /\ proxy' = proxy
    BY <1>8 DEF JoinAborts, runVars
  <2> QED
    BY <1>6, <2>1
<1> QED
  BY <1>4, <1>5, <1>7, <1>8 DEF Run

\* A step of the one caller there is.
LEMMA OneCaller ==
  ASSUME Sequential, NEW c \in Callers, PlainOK(c)',
         \A t \in Tasks : TaskOK(t)', \A r \in Runs : ProxyOK(r)'
  PROVE  SInv'
  BY DEF Sequential, OneThread, SInv

\* start(), up to the listeners.
LEMMA StartSInv ==
  ASSUME Sequential, IInv, Serving, SInv, NEW c \in Callers, StartCheck(c) \/ StartClone(c) \/ StartBuild(c)
  PROVE  SInv'
<1>1. TypeOK /\ CallerOK(c) /\ ServedOK(c) /\ PlainOK(c)
  BY DEF IInv, Serving, SInv
<1>2. PICK label \in {"startClone", "startBuild", "startSpawn"} :
        /\ Goto(c, label)
        /\ UNCHANGED <<mappings, listeners, node, stats, st, key, run, cjoin>>
        /\ \/ label = "startClone" /\ cpc[c] = "idle" /\ node = 0 /\ proxy' = proxy
           \/ label = "startBuild" /\ cpc[c] = "startClone" /\ proxy' = proxy
              /\ csnap' = [csnap EXCEPT ![c] = mappings]
           \/ label = "startSpawn" /\ cpc[c] = "startBuild" /\ UNCHANGED <<csnap, crun>>
              /\ proxy' = [proxy EXCEPT ![crun[c]] = "spawned"]
  <2>1. CASE StartCheck(c)
    BY <2>1 DEF StartCheck, runVars, taskVars
  <2>2. CASE StartClone(c)
    BY <2>2 DEF StartClone, runVars, taskVars
  <2>3. CASE StartBuild(c)
    BY <2>3 DEF StartBuild, taskVars
  <2> QED
    BY <2>1, <2>2, <2>3
<1>3. label \in Labels
  BY <1>2 DEF Labels
<1>4. cpc'[c] = label
  BY <1>1, <1>2, <1>3, GotoType
<1>5. \A t \in Tasks : TaskOK(t)'
  BY <1>2, <1>4, TasksStay
<1>6. node = 0 /\ \A k \in Keys : listeners[k] = 0
  <2>1. CASE cpc[c] = "idle"
    <3>1. \A b \in Callers : cpc[b] = "idle"
      BY <2>1 DEF Sequential, OneThread
    <3> QED
      BY <1>2, <2>1, <3>1 DEF IInv, Owned, Draining, Closing
  <2>2. CASE cpc[c] # "idle"
    BY <1>1, <1>2, <2>2 DEF ServedOK, Building
  <2> QED
    BY <2>1, <2>2
<1>7. cjoin[c] = {}
  BY <1>1, <1>2 DEF PlainOK
<1>8. PlainOK(c)'
  BY <1>2, <1>4, <1>7 DEF PlainOK
<1>9. ASSUME NEW r \in Runs PROVE ProxyOK(r)'
  <2>1. ProxyOK(r) /\ \A b \in Callers : b = c
    BY DEF SInv, Sequential, OneThread
  <2>2. cpc[c] \notin Holding \cup {"stopProxy"}
    BY <1>2 DEF Holding
  <2>3. proxy[r] = "none"
    BY <1>6, <2>1, <2>2 DEF ProxyOK, Runs
  <2>4. proxy'[r] # "none" => label = "startSpawn" /\ crun'[c] = r
    BY <1>1, <1>2, <2>3 DEF TypeOK
  <2> QED
    BY <1>4, <2>4 DEF ProxyOK, Holding
<1> QED
  BY <1>5, <1>8, <1>9, OneCaller

\* start() stores its node.
LEMMA StartStoreSInv ==
  ASSUME Sequential, IInv, Serving, SInv, NEW c \in Callers, StartStore(c)
  PROVE  SInv'
<1>1. TypeOK /\ CallerOK(c) /\ ServedOK(c) /\ PlainOK(c) /\ cpc[c] = "startStore" /\ "idle" \in Labels
  BY DEF IInv, Serving, SInv, StartStore, Labels
<1>2. /\ Goto(c, "idle") /\ node' = crun[c]
      /\ UNCHANGED <<mappings, listeners, proxy, stats, st, key, run, cjoin>>
  BY DEF StartStore, runVars, taskVars
<1>3. cpc'[c] = "idle" /\ \A b \in Callers : b = c
  BY <1>1, <1>2, GotoType DEF Sequential, OneThread
<1>4. PlainOK(c)'
  BY <1>1, <1>2, <1>3 DEF PlainOK
<1>5. \A t \in Tasks : TaskOK(t)'
  BY <1>1, <1>2, <1>3 DEF SInv, TaskOK, Live
<1>6. ASSUME NEW r \in Runs PROVE ProxyOK(r)'
  <2>1. ProxyOK(r) /\ node = 0
    BY <1>1 DEF SInv, ServedOK, Building
  <2> QED
    BY <1>2, <1>3, <2>1 DEF ProxyOK, Runs
<1> QED
  BY <1>4, <1>5, <1>6, OneCaller

\* stop(), up to the listeners.
LEMMA StopSInv ==
  ASSUME Sequential, IInv, Serving, SInv, NEW c \in Callers,
         \/ StopTake(c) \/ StopPeers(c) \/ PeersJoined(c)
         \/ StopCore(c) \/ StopProxy(c) \/ StopNetstack(c)
  PROVE  SInv'
<1>1. TypeOK /\ CallerOK(c) /\ ServedOK(c) /\ PlainOK(c) /\ \A b \in Callers : b = c
  BY DEF IInv, Serving, SInv, Sequential, OneThread
<1>2. PICK label \in Draining :
        /\ Goto(c, label) /\ node' = 0
        /\ UNCHANGED <<mappings, listeners, st, key, run, cjoin>>
        /\ cpc[c] = "idle" \/ (node = 0 /\ cpc[c] \in Closing)
  <2>1. CASE StopTake(c)
    BY <2>1 DEF StopTake, taskVars, Draining, Closing
  <2>2. CASE StopPeers(c) \/ PeersJoined(c) \/ StopCore(c) \/ StopProxy(c) \/ StopNetstack(c)
    <3>1. cpc[c] \in Closing
      BY <2>2 DEF StopPeers, PeersJoined, StopCore, StopProxy, StopNetstack, Closing
    <3>2. node = 0
      BY <1>1, <3>1 DEF ServedOK, Draining
    <3> QED
      BY <2>2, <3>1, <3>2
      DEF StopPeers, PeersJoined, StopCore, StopProxy, StopNetstack, taskVars, Draining, Closing
  <2> QED
    BY <2>1, <2>2
<1>3. label \in Labels /\ label # "startStore"
  BY <1>2 DEF Labels, Draining, Closing
<1>4. cpc'[c] = label
  BY <1>1, <1>2, <1>3, GotoType
<1>5. \A t \in Tasks : TaskOK(t)'
  BY <1>2, <1>3, <1>4, TasksStay
<1>6. PlainOK(c)'
  <2>1. cjoin[c] = {}
    BY <1>1, <1>2 DEF PlainOK, Closing
  <2> QED
    BY <1>2, <1>4, <2>1 DEF PlainOK, Draining, Closing
<1>7. ASSUME NEW r \in Runs PROVE ProxyOK(r)'
  <2>1. ProxyOK(r) /\ crun[c] \in Runs \cup {0} /\ 0 \notin Runs
    BY <1>1 DEF SInv, TypeOK, Runs
  <2>2. CASE StopTake(c)
    <3>1. /\ crun'[c] = node /\ proxy' = proxy /\ cpc[c] = "idle"
          /\ label = IF node = 0 THEN "stopDrain" ELSE "stopPeers"
      BY <1>1, <1>4, <2>2 DEF StopTake, runVars, TypeOK, Goto
    <3>2. proxy[r] # "none" => r = node
      BY <1>1, <2>1, <3>1 DEF ProxyOK, Holding
    <3> QED
      BY <1>4, <2>1, <3>1, <3>2 DEF ProxyOK, Holding
  <2>3. CASE StopPeers(c) \/ PeersJoined(c) \/ StopCore(c)
    <3>1. /\ crun' = crun /\ label \in {"joinPeers", "stopCore", "stopProxy"} /\ node = 0
          /\ proxy'[r] # "none" => proxy[r] # "none"
      BY <1>1, <1>2, <1>4, <2>3
      DEF StopPeers, PeersJoined, StopCore, runVars, TypeOK, Goto
    <3> QED
      BY <1>1, <1>4, <2>1, <3>1 DEF ProxyOK, Holding
  <2>4. CASE StopProxy(c)
    <3>1. cpc[c] = "stopProxy" /\ node = 0 /\ proxy' = [proxy EXCEPT ![crun[c]] = "none"]
      BY <1>2, <2>4 DEF StopProxy
    <3>2. r # crun[c] => proxy[r] = "none"
      BY <1>1, <2>1, <3>1 DEF ProxyOK
    <3>3. proxy'[r] = "none"
      BY <1>1, <3>1, <3>2 DEF TypeOK
    <3> QED
      BY <3>3 DEF ProxyOK
  <2>5. CASE StopNetstack(c)
    <3>1. cpc[c] = "stopNetstack" /\ node = 0 /\ proxy' = proxy
      BY <1>2, <2>5 DEF StopNetstack
    <3> QED
      BY <1>1, <2>1, <3>1 DEF ProxyOK, Holding
  <2> QED
    BY <2>2, <2>3, <2>4, <2>5
<1> QED
  BY <1>5, <1>6, <1>7, OneCaller

\* stop() takes every entry and joins its task: with no other call under way,
\* every task that lives has one.
LEMMA StopDrainSInv ==
  ASSUME Sequential, IInv, Serving, SInv, NEW c \in Callers, StopDrain(c)
  PROVE  SInv'
<1>1. TypeOK /\ ServedOK(c) /\ PlainOK(c) /\ (\A b \in Callers : b = c) /\ cpc[c] = "stopDrain"
  BY DEF IInv, Serving, SInv, Sequential, OneThread, StopDrain
<1>2. /\ Goto(c, "join") /\ "join" \in Labels
      /\ listeners' = [k \in Keys |-> 0] /\ cjoin' = [cjoin EXCEPT ![c] = Registered]
      /\ UNCHANGED <<mappings, node, proxy, stats, st, key, run, crun>>
  BY DEF StopDrain, Drain, runVars, Labels
<1>3. /\ cpc'[c] = "join" /\ node = 0 /\ cjoin[c] = {} /\ cjoin'[c] = Registered
  BY <1>1, <1>2, GotoType DEF ServedOK, PlainOK, Draining, TypeOK
<1>4. PlainOK(c)'
  BY <1>3 DEF PlainOK
<1>5. ASSUME NEW t \in Tasks, t \in Live PROVE TaskOK(t)'
  <2>1. TaskOK(t) /\ Live' = Live /\ 0 \notin Runs /\ 0 \notin Tasks
    BY <1>2 DEF SInv, Live, Runs, Tasks
  <2>2. key[t] \in Keys /\ run[t] \in Runs /\ listeners[key[t]] = t
    BY <1>1, <1>3, <1>5, <2>1 DEF TaskOK
  <2>3. t \in cjoin'[c]
    BY <1>3, <2>1, <2>2 DEF Registered
  <2>4. \A u \in Live : key[u] = key[t] => u = t
    BY <1>5, <2>1 DEF TaskOK
  <2>5. ~(run[t] = node) /\ \A b \in Callers : cpc'[b] # "startStore"
    BY <1>1, <1>3, <2>1, <2>2
  <2>6. \A k \in Keys : listeners'[k] # t
    BY <1>2, <2>1
  <2> QED
    BY <1>2, <2>1, <2>2, <2>3, <2>4, <2>5, <2>6 DEF TaskOK
<1>6. \A t \in Tasks : TaskOK(t)'
  BY <1>2, <1>5 DEF TaskOK, Live
<1>7. ASSUME NEW r \in Runs PROVE ProxyOK(r)'
  BY <1>1, <1>2, <1>3 DEF SInv, ProxyOK, Holding
<1> QED
  BY <1>4, <1>6, <1>7, OneCaller

\* A call has joined its tasks: none of them lives.
LEMMA JoinedSInv ==
  ASSUME Sequential, IInv, Serving, SInv, NEW c \in Callers, Joined(c)
  PROVE  SInv'
<1>1. TypeOK /\ ServedOK(c) /\ PlainOK(c) /\ (\A b \in Callers : b = c) /\ cpc[c] = "join"
  BY DEF IInv, Serving, SInv, Sequential, OneThread, Joined
<1>2. /\ Return(c) /\ cjoin[c] \cap Live = {} /\ cjoin' = [cjoin EXCEPT ![c] = {}]
      /\ UNCHANGED <<mappings, listeners, node, proxy, stats, st, key, run, crun>>
  BY DEF Joined, runVars, taskVars
<1>3. cpc'[c] = "idle" /\ cjoin'[c] = {}
  BY <1>1, <1>2, ReturnType DEF TypeOK
<1>4. PlainOK(c)'
  BY <1>3 DEF PlainOK
<1>5. ASSUME NEW t \in Tasks, t \in Live PROVE TaskOK(t)'
  <2>1. TaskOK(t) /\ Live' = Live /\ t \notin cjoin[c]
    BY <1>2, <1>5 DEF SInv, Live
  <2> QED
    BY <1>1, <1>2, <1>3, <1>5, <2>1 DEF TaskOK
<1>6. \A t \in Tasks : TaskOK(t)'
  BY <1>2, <1>5 DEF TaskOK, Live
<1>7. ASSUME NEW r \in Runs PROVE ProxyOK(r)'
  BY <1>1, <1>2, <1>3 DEF SInv, ProxyOK, Holding
<1> QED
  BY <1>4, <1>6, <1>7, OneCaller

\* stop_listener: the entry goes and the call waits for its task.
LEMMA RemoveStopSInv ==
  ASSUME Sequential, IInv, Serving, SInv, NEW c \in Callers, RemoveStop(c)
  PROVE  SInv'
<1> DEFINE t == listeners[carg[c]]
<1>1. /\ TypeOK /\ ServedOK(c) /\ PlainOK(c) /\ (\A b \in Callers : b = c) /\ cpc[c] = "removeStop"
      /\ carg[c] \in Keys
  BY DEF IInv, Serving, SInv, Sequential, OneThread, RemoveStop, CallerOK
<1>2. UNCHANGED <<mappings, node, proxy, stats, st, key, run, crun>>
  BY DEF RemoveStop, runVars
<1>3. cjoin[c] = {}
  BY <1>1 DEF PlainOK
<1>4. CASE t = 0
  <2>1. Return(c) /\ UNCHANGED <<listeners, cjoin>>
    BY <1>4 DEF RemoveStop
  <2>2. cpc'[c] = "idle"
    BY <1>1, <2>1, ReturnType
  <2>4. PlainOK(c)'
    BY <1>3, <2>1, <2>2 DEF PlainOK
  <2>5. \A u \in Tasks : TaskOK(u)'
    BY <1>2, <2>1, <2>2, TasksStay
  <2>6. ASSUME NEW r \in Runs PROVE ProxyOK(r)'
    BY <1>1, <1>2, <2>2 DEF SInv, ProxyOK, Holding
  <2> QED
    BY <2>4, <2>5, <2>6, OneCaller
<1>5. CASE t # 0
  <2>1. /\ Goto(c, "join") /\ "join" \in Labels
        /\ listeners' = [listeners EXCEPT ![carg[c]] = 0]
        /\ cjoin' = [cjoin EXCEPT ![c] = {t}]
    BY <1>5 DEF RemoveStop, Labels
  <2>2. cpc'[c] = "join" /\ cjoin'[c] = {t}
    BY <1>1, <2>1, GotoType DEF TypeOK
  <2>3. /\ listeners'[carg[c]] = 0
        /\ \A k \in Keys \ {carg[c]} : listeners'[k] = listeners[k]
    BY <1>1, <2>1 DEF TypeOK
  <2>4. PlainOK(c)'
    BY <2>2 DEF PlainOK
  <2>5. ASSUME NEW u \in Tasks, u \in Live PROVE TaskOK(u)'
    <3>1. TaskOK(u) /\ Live' = Live /\ 0 \notin Tasks
      BY <1>2 DEF SInv, Live, Tasks
    <3>2. key[u] \in Keys /\ run[u] \in Runs /\ listeners[key[u]] = u
      BY <1>1, <1>3, <2>5, <3>1 DEF TaskOK
    <3>3. listeners'[key[u]] = u \/ u \in cjoin'[c]
      BY <2>2, <2>3, <3>2
    <3>4. \A k \in Keys : listeners'[k] = u => key[u] = k
      BY <2>3, <2>5, <3>1 DEF TaskOK
    <3>5. \A v \in Live : key[v] = key[u] => v = u
      BY <2>5, <3>1 DEF TaskOK
    <3>6. run[u] = node => key[u] \in stats[run[u]]
      BY <2>5, <3>1 DEF TaskOK
    <3>7. \A b \in Callers : cpc'[b] # "startStore"
      BY <1>1, <2>2
    <3> QED
      BY <1>2, <3>1, <3>2, <3>3, <3>4, <3>5, <3>6, <3>7 DEF TaskOK
  <2>6. \A u \in Tasks : TaskOK(u)'
    BY <1>2, <2>5 DEF TaskOK, Live
  <2>7. ASSUME NEW r \in Runs PROVE ProxyOK(r)'
    BY <1>1, <1>2, <2>2 DEF SInv, ProxyOK, Holding
  <2> QED
    BY <2>4, <2>6, <2>7, OneCaller
<1> QED
  BY <1>4, <1>5

\* add_* and remove_*, up to the listeners.
LEMMA MappingSInv ==
  ASSUME Sequential, IInv, Serving, SInv, NEW c \in Callers,
         (\E k \in Keys : AddPush(c, k) \/ RemoveRetain(c, k)) \/ AddState(c)
  PROVE  SInv'
<1>1. TypeOK /\ ServedOK(c) /\ PlainOK(c) /\ \A b \in Callers : b = c
  BY DEF IInv, Serving, SInv, Sequential, OneThread
<1>2. UNCHANGED <<listeners, node, proxy, stats, st, key, run, cjoin>>
  BY DEF AddPush, RemoveRetain, AddState, runVars, taskVars
<1>3. cpc[c] \in {"idle", "addState"} /\ cjoin[c] = {}
  BY <1>1 DEF AddPush, RemoveRetain, AddState, PlainOK
<1>4. /\ cpc'[c] \in {"idle", "addState", "addSpawn", "removeStop"} /\ PlainOK(c)'
  <2>1. ASSUME NEW k \in Keys, AddPush(c, k) PROVE cpc'[c] = "addState" /\ PlainOK(c)'
    <3>1. /\ cpc[c] = "idle" /\ mappings[k] < MaxDup /\ mappings[k] \in 0..MaxDup
          /\ carg' = [carg EXCEPT ![c] = k]
          /\ Goto(c, "addState") /\ "addState" \in Labels
      BY <1>1, <2>1 DEF AddPush, TypeOK, Labels
    <3>2. mappings[k] = 0
      BY <3>1, MaxDupAssumption DEF Sequential
    <3>3. cpc'[c] = "addState" /\ carg'[c] = k
      BY <1>1, <3>1, GotoType DEF TypeOK
    <3>4. node # 0 => listeners[k] = 0
      BY <1>1, <3>1, <3>2 DEF ServedOK, Served
    <3> QED
      BY <1>2, <1>3, <3>3, <3>4 DEF PlainOK
  <2>2. ASSUME NEW k \in Keys, RemoveRetain(c, k) PROVE cpc'[c] = "removeStop" /\ PlainOK(c)'
    <3>1. Goto(c, "removeStop") /\ "removeStop" \in Labels
      BY <2>2 DEF RemoveRetain, Labels
    <3>2. cpc'[c] = "removeStop"
      BY <1>1, <3>1, GotoType
    <3> QED
      BY <1>2, <1>3, <3>2 DEF PlainOK
  <2>3. CASE AddState(c) /\ node = 0
    <3>1. Return(c)
      BY <2>3 DEF AddState
    <3>2. cpc'[c] = "idle"
      BY <1>1, <3>1, ReturnType
    <3> QED
      BY <1>2, <1>3, <3>2 DEF PlainOK
  <2>4. CASE AddState(c) /\ node # 0
    <3>1. /\ Goto(c, "addSpawn") /\ "addSpawn" \in Labels /\ cpc[c] = "addState"
          /\ carg' = carg
      BY <2>4 DEF AddState, Labels
    <3>2. cpc'[c] = "addSpawn"
      BY <1>1, <3>1, GotoType
    <3> QED
      BY <1>1, <1>2, <1>3, <3>1, <3>2 DEF PlainOK
  <2> QED
    BY <2>1, <2>2, <2>3, <2>4
<1>5. \A t \in Tasks : TaskOK(t)'
  BY <1>2, <1>4, TasksStay
<1>6. ASSUME NEW r \in Runs PROVE ProxyOK(r)'
  BY <1>1, <1>2, <1>3 DEF SInv, ProxyOK, Holding
<1> QED
  BY <1>4, <1>5, <1>6, OneCaller

\* Before a call spawns listeners every task has the entry of its key.
LEMMA BeforeSpawn ==
  ASSUME Sequential, SInv, NEW c \in Callers, cpc[c] # "join"
  PROVE  /\ \A t \in Live : key[t] \in Keys /\ run[t] \in Runs /\ listeners[key[t]] = t
         /\ \A t \in Live, k \in Keys : listeners[k] = t => key[t] = k
<1>1. cjoin[c] = {} /\ \A b \in Callers : b = c
  BY DEF Sequential, OneThread, SInv, PlainOK
<1>2. ASSUME NEW t \in Live PROVE TaskOK(t)
  BY DEF SInv, Live
<1> QED
  BY <1>1, <1>2 DEF TaskOK

\* The tasks behind a spawn: each has the entry of its key, so no two have one.
LEMMA AfterSpawn ==
  ASSUME NEW t \in Live', run'[t] \in Runs, key'[t] \in Keys,
         \A u \in Live' : listeners'[key'[u]] = u,
         \A k \in Keys : listeners'[k] = t => key'[t] = k,
         \/ key'[t] \in stats'[run'[t]]
         \/ run'[t] # node' /\ \A b \in Callers : ~(cpc'[b] = "startStore" /\ run'[t] = crun'[b])
  PROVE  TaskOK(t)'
<1>1. ASSUME NEW u \in Live', key'[u] = key'[t] PROVE u = t
  BY <1>1
<1> QED
  BY <1>1 DEF TaskOK

\* start() spawns the listeners of the mappings it cloned.
LEMMA StartSpawnSInv ==
  ASSUME Sequential, IInv, Serving, SInv, NEW c \in Callers, StartSpawn(c)
  PROVE  SInv'
<1>1. /\ TypeOK /\ CallerOK(c) /\ ServedOK(c) /\ PlainOK(c) /\ (\A b \in Callers : b = c)
      /\ cpc[c] = "startSpawn"
  BY DEF IInv, Serving, SInv, Sequential, OneThread, StartSpawn
<1>2. /\ SpawnListeners(csnap[c], crun[c]) /\ Goto(c, "startStore") /\ "startStore" \in Labels
      /\ UNCHANGED <<mappings, node, proxy, crun, cjoin>>
  BY DEF StartSpawn, runVars, Labels
<1>3. crun[c] \in Runs /\ csnap[c] \in [Keys -> {0, 1}]
  <2>1. 0..MaxDup \subseteq {0, 1}
    BY MaxDupAssumption DEF Sequential
  <2> QED
    BY <1>1, <2>1 DEF TypeOK, CallerOK, Building
<1>4. /\ node = 0 /\ cjoin[c] = {} /\ csnap[c] = mappings
      /\ \A k \in Keys : listeners[k] = 0
  BY <1>1 DEF ServedOK, PlainOK, Building
<1>5. Live = {}
  BY <1>1, <1>4, BeforeSpawn DEF Live, Tasks
<1>6. /\ \A t \in Live' : /\ key'[t] \in Keys /\ listeners'[key'[t]] = t
                          /\ \A k \in Keys : listeners'[k] = t => key'[t] = k
                          /\ run'[t] = crun[c] /\ key'[t] \in stats'[crun[c]]
  BY <1>1, <1>2, <1>3, <1>4, <1>5, SpawnFacts
<1>7. cpc'[c] = "startStore"
  BY <1>1, <1>2, GotoType
<1>8. PlainOK(c)'
  BY <1>2, <1>4, <1>7 DEF PlainOK
<1>9. ASSUME NEW t \in Tasks PROVE TaskOK(t)'
  <2>1. CASE t \in Live'
    BY <1>3, <1>6, <2>1, AfterSpawn
  <2>2. CASE t \notin Live'
    BY <2>2 DEF TaskOK
  <2> QED
    BY <2>1, <2>2
<1>10. ASSUME NEW r \in Runs PROVE ProxyOK(r)'
  BY <1>1, <1>2, <1>7 DEF SInv, ProxyOK, Holding
<1> QED
  BY <1>8, <1>9, <1>10, OneCaller

\* add_* spawns its listener for the node.
LEMMA AddSpawnSInv ==
  ASSUME Sequential, IInv, Serving, SInv, NEW c \in Callers, AddSpawn(c)
  PROVE  SInv'
<1> DEFINE n == [k \in Keys |-> IF k = carg[c] THEN 1 ELSE 0]
<1>1. /\ TypeOK /\ CallerOK(c) /\ ServedOK(c) /\ PlainOK(c) /\ (\A b \in Callers : b = c)
      /\ cpc[c] = "addSpawn" /\ crun[c] = node
  BY DEF IInv, Serving, SInv, StateLocked, Sequential, OneThread, AddSpawn
<1>2. /\ SpawnListeners(n, crun[c]) /\ Return(c)
      /\ UNCHANGED <<mappings, node, proxy, cjoin>>
  BY DEF AddSpawn, runVars
<1>3. crun[c] \in Runs /\ n \in [Keys -> {0, 1}] /\ carg[c] \in Keys
  BY <1>1 DEF TypeOK, CallerOK
<1>4. node # 0 /\ cjoin[c] = {} /\ listeners[carg[c]] = 0
  BY <1>1, <1>3 DEF PlainOK, Runs
<1>5. \A k \in Keys : n[k] = 1 <=> k = carg[c]
  OBVIOUS
<1>6. /\ \A t \in Live' : /\ key'[t] \in Keys /\ listeners'[key'[t]] = t
                          /\ \A k \in Keys : listeners'[k] = t => key'[t] = k
                          /\ \/ t \in Live /\ run'[t] = run[t] /\ key'[t] = key[t]
                             \/ run'[t] = crun[c] /\ key'[t] \in stats'[crun[c]]
      /\ \A q \in Runs : stats[q] \subseteq stats'[q]
  <2> HIDE DEF n
  <2> QED
    BY <1>1, <1>2, <1>3, <1>4, <1>5, BeforeSpawn, SpawnFacts
<1>7. cpc'[c] = "idle"
  BY <1>1, <1>2, ReturnType
<1>8. PlainOK(c)'
  BY <1>2, <1>4, <1>7 DEF PlainOK
<1>9. ASSUME NEW t \in Tasks PROVE TaskOK(t)'
  <2>1. CASE t \in Live'
    <3>1. CASE t \in Live /\ run'[t] = run[t] /\ key'[t] = key[t]
      <4>1. TaskOK(t) /\ run[t] \in Runs /\ key[t] \in Keys
        BY <3>1 DEF SInv, TaskOK
      <4>2. run[t] = node => key[t] \in stats'[run[t]]
        BY <1>6, <3>1, <4>1 DEF TaskOK
      <4>3. \A b \in Callers : cpc'[b] # "startStore"
        BY <1>1, <1>7
      <4> QED
        BY <1>2, <1>6, <2>1, <3>1, <4>1, <4>2, <4>3, AfterSpawn
    <3>2. CASE run'[t] = crun[c] /\ key'[t] \in stats'[crun[c]]
      BY <1>3, <1>6, <2>1, <3>2, AfterSpawn
    <3> QED
      BY <1>6, <2>1, <3>1, <3>2
  <2>2. CASE t \notin Live'
    BY <2>2 DEF TaskOK
  <2> QED
    BY <2>1, <2>2
<1>10. ASSUME NEW r \in Runs PROVE ProxyOK(r)'
  BY <1>1, <1>2, <1>7 DEF SInv, ProxyOK, Holding
<1> QED
  BY <1>8, <1>9, <1>10, OneCaller

\* Every step, clear_mappings being none of them.
LEMMA NextSInv ==
  ASSUME Sequential, IInv, Serving, SInv, [Next]_vars
  PROVE  SInv'
<1>1. ASSUME NEW c \in Callers, Call(c) PROVE SInv'
  <2>1. CASE StartCheck(c)
    BY <2>1, StartSInv
  <2>2. CASE StopTake(c)
    BY <2>2, StopSInv
  <2>3. ASSUME NEW k \in Keys, AddPush(c, k) \/ RemoveRetain(c, k) PROVE SInv'
    BY <2>3, MappingSInv
  <2>4. ~ClearVectors(c)
    BY DEF ClearVectors, Sequential
  <2> QED
    BY <1>1, <2>1, <2>2, <2>3, <2>4 DEF Call
<1>2. ASSUME NEW c \in Callers, Proceed(c) PROVE SInv'
  <2>1. CASE StartClone(c) \/ StartBuild(c)
    BY <2>1, StartSInv
  <2>2. CASE StartSpawn(c)
    BY <2>2, StartSpawnSInv
  <2>3. CASE StartStore(c)
    BY <2>3, StartStoreSInv
  <2>4. CASE \/ StopPeers(c) \/ PeersJoined(c) \/ StopCore(c)
             \/ StopProxy(c) \/ StopNetstack(c)
    BY <2>4, StopSInv
  <2>5. CASE PeersAborted(c)
    BY <2>5, SameSInv DEF PeersAborted, forwarding, taskVars, callVars
  <2>6. CASE StopDrain(c)
    BY <2>6, StopDrainSInv
  <2>7. ASSUME NEW t \in Tasks, JoinAborts(c, t) PROVE SInv'
    BY <2>7, TaskSInv
  <2>8. CASE Joined(c)
    BY <2>8, JoinedSInv
  <2>9. CASE AddState(c)
    BY <2>9, MappingSInv
  <2>10. CASE AddSpawn(c)
    BY <2>10, AddSpawnSInv
  <2>11. CASE RemoveStop(c)
    BY <2>11, RemoveStopSInv
  <2>12. ~ClearDrain(c)
    BY DEF ClearDrain, SInv, PlainOK
  <2> QED
    BY <1>2, <2>1, <2>2, <2>3, <2>4, <2>5, <2>6, <2>7, <2>8, <2>9, <2>10, <2>11, <2>12
    DEF Proceed
<1>3. ASSUME NEW t \in Tasks, Run(t) PROVE SInv'
  BY <1>3, TaskSInv
<1>4. ASSUME NEW r \in Runs, ProxyBind(r) \/ ProxyStopped(r) PROVE SInv'
  BY <1>4, TaskSInv
<1>5. ASSUME NEW r \in Runs, PeerChanges(r) \/ Forward(r) PROVE SInv'
  BY <1>5, SameSInv
  DEF PeerChanges, Forward, FwdSubscribes, FwdQueries, FwdCalls, FwdReceives, FwdDebounced,
      FwdStops, forwarding, taskVars, callVars
<1>6. CASE UNCHANGED vars
  BY <1>6, SameSInv DEF vars, runVars, taskVars, callVars
<1>7. ASSUME NEW k \in Keys, LetGo(k) PROVE SInv'
  BY <1>7, SameSInv DEF LetGo, runVars, callVars
<1> QED
  BY <1>1, <1>2, <1>3, <1>4, <1>5, <1>6, <1>7 DEF Next

\* Both invariants, along every behaviour.
LEMMA SequentialInductive ==
  ASSUME Sequential
  PROVE  Spec => [](IInv /\ SInv)
<1>1. IInv /\ Serving /\ SInv /\ [Next]_vars => SInv'
  BY NextSInv
<1>2. Spec => []Serving
  BY ServingInductive DEF Sequential
<1> QED
  BY <1>1, <1>2, Inductive, InitSInv, PTL DEF Spec

\* Once stop() has returned, nothing it stops and joins is left.  Every task that
\* lives has the entry of its mapping or is joined by the call, and stop() takes
\* all the entries and joins their tasks; a proxy server never outlives its
\* node.  Only of a local-udp mapping the address may still be in use.
THEOREM NothingLeftOnceStopped ==
  ASSUME Sequential
  PROVE  Spec => []QuietWhenStopped
<1>1. ASSUME IInv, SInv PROVE QuietWhenStopped
  <2> SUFFICES ASSUME Idle, node = 0
               PROVE  /\ Live = {} /\ \A r \in Runs : proxy[r] = "none"
                      /\ \A k \in Keys \ LocalUdp : ~InUse(k)
    BY DEF QuietWhenStopped
  <2>1. \A k \in Keys : listeners[k] = 0
    BY <1>1 DEF IInv, Owned, Idle, Draining, Closing
  <2>2. \A c \in Callers : cjoin[c] = {}
    BY <1>1 DEF SInv, PlainOK, Idle
  <2>3. ASSUME NEW t \in Live PROVE FALSE
    <3>1. TaskOK(t) /\ t # 0
      BY <1>1 DEF SInv, Live, Tasks
    <3> QED
      BY <2>1, <2>2, <3>1 DEF TaskOK
  <2>4. ASSUME NEW r \in Runs PROVE proxy[r] = "none"
    BY <1>1 DEF SInv, ProxyOK, Idle, Holding, Runs
  <2>5. held \subseteq LocalUdp /\ \A u \in Tasks : st[u] # "serving"
    BY <1>1, <2>3 DEF IInv, TypeOK, Live
  <2> QED
    BY <2>3, <2>4, <2>5 DEF InUse
<1> QED
  BY <1>1, SequentialInductive, PTL

\* A listener that serves is in the registry of its node, though the tasks of
\* earlier listeners take entries away when they end: none of them has its key.
THEOREM ServedStaysListed ==
  ASSUME Sequential
  PROVE  Spec => []ServedIsListed
<1>1. ASSUME IInv, SInv PROVE ServedIsListed
  <2> SUFFICES ASSUME NEW k \in Keys, listeners[k] # 0, st[listeners[k]] = "serving",
                      run[listeners[k]] = node
               PROVE  k \in stats[node]
    BY DEF ServedIsListed
  <2>1. listeners[k] \in Tasks
    BY <1>1 DEF IInv, TypeOK
  <2>2. listeners[k] \in Live /\ TaskOK(listeners[k])
    BY <1>1, <2>1 DEF Live, SInv
  <2> QED
    BY <2>2 DEF TaskOK
<1> QED
  BY <1>1, SequentialInductive, PTL

-----------------------------------------------------------------------------
(* What has an entry serves, and what serves has an entry *)

\* Nothing runs.
LEMMA InitEntries == Init => Entries
  BY DEF Init, Entries, EntryOK, Live

\* A step that leaves the tasks and the entries as they are, and is not the one
\* that brings start() to its store.
LEMMA EntriesStay ==
  ASSUME Sequential, Entries, NEW c \in Callers, cpc'[c] # "startStore",
         UNCHANGED <<listeners, st, key, run, sig>>, node' \in {0, node}
  PROVE  Entries'
<1>1. \A b \in Callers : cpc'[b] # "startStore"
  BY DEF Sequential, OneThread
<1> QED
  BY <1>1 DEF Entries, EntryOK, Live

\* A step that leaves the callers as they are too, and their runs.
LEMMA SameEntries ==
  ASSUME Entries, UNCHANGED <<listeners, node, st, key, run, sig, cpc, crun>>
  PROVE  Entries'
  BY DEF Entries, EntryOK, Live

\* Tasks: a bind changes no entry, an end none of another task.
LEMMA TaskEntries ==
  ASSUME IInv, Entries, NEW t \in Tasks, Run(t) \/ \E c \in Callers : JoinAborts(c, t)
  PROVE  Entries'
<1>1. TypeOK
  BY DEF IInv
<1>2. UNCHANGED <<listeners, node, cpc, crun>>
  BY DEF Run, Bind, BindFails, Stopped, JoinAborts, callVars
<1>3. CASE Bind(t)
  <2>1. UNCHANGED <<key, run, sig>> /\ Live' = Live
    BY <1>1, <1>3 DEF Bind, Live, TypeOK
  <2> QED
    BY <1>2, <2>1 DEF Entries, EntryOK
<1>4. CASE End(t)
  <2>1. /\ Live' = Live \ {t} /\ sig' = sig \ {t}
        /\ \A u \in Tasks \ {t} : key'[u] = key[u] /\ run'[u] = run[u]
    BY <1>1, <1>4, EndType DEF End
  <2> QED
    BY <1>2, <2>1 DEF Entries, EntryOK
<1> QED
  BY <1>3, <1>4 DEF Run, BindFails, Stopped, JoinAborts

\* start() stores its node: the new tasks serve it.
LEMMA StoreEntries ==
  ASSUME Sequential, IInv, Entries, NEW c \in Callers, StartStore(c)
  PROVE  Entries'
<1>1. TypeOK /\ cpc[c] = "startStore" /\ "idle" \in Labels
  BY DEF IInv, StartStore, Labels
<1>2. Goto(c, "idle") /\ node' = crun[c] /\ UNCHANGED <<listeners, st, key, run, sig>>
  BY DEF StartStore, taskVars
<1>3. \A b \in Callers : cpc'[b] = "idle"
  BY <1>1, <1>2, GotoType DEF Sequential, OneThread
<1> QED
  BY <1>1, <1>2, <1>3 DEF Entries, EntryOK, Live

\* stop() takes all the entries.
LEMMA DrainEntries ==
  ASSUME IInv, SInv, Entries, NEW c \in Callers, StopDrain(c)
  PROVE  Entries'
<1>1. /\ \A k \in Keys : listeners'[k] = 0
      /\ UNCHANGED <<st, key>>
  BY DEF StopDrain, Drain
<1>2. \A t \in Live : key[t] \in Keys /\ t # 0
  BY DEF SInv, TaskOK, Live, Tasks
<1> QED
  BY <1>1, <1>2 DEF Entries, EntryOK, Live

\* remove_* takes the entry of the only task it tells to stop.
LEMMA RemoveEntries ==
  ASSUME Sequential, IInv, SInv, Entries, NEW c \in Callers, RemoveStop(c)
  PROVE  Entries'
<1>1. TypeOK /\ cpc[c] = "removeStop" /\ carg[c] \in Keys /\ {"join", "idle"} \subseteq Labels
  BY DEF IInv, CallerOK, RemoveStop, Labels
<1>2. UNCHANGED <<node, st, key, run>>
  BY DEF RemoveStop
<1>3. CASE listeners[carg[c]] = 0
  <2>1. Return(c) /\ UNCHANGED <<listeners, sig>>
    BY <1>3 DEF RemoveStop
  <2>2. cpc'[c] = "idle"
    BY <1>1, <2>1, ReturnType
  <2> QED
    BY <1>2, <2>1, <2>2, EntriesStay
<1>4. CASE listeners[carg[c]] # 0
  <2> DEFINE t == listeners[carg[c]]
  <2>1. /\ listeners' = [listeners EXCEPT ![carg[c]] = 0] /\ Goto(c, "join")
        /\ sig' \subseteq sig \cup {t}
    BY <1>4 DEF RemoveStop, SendStop
  <2>2. \A b \in Callers : cpc'[b] = "join"
    BY <1>1, <2>1, GotoType DEF Sequential, OneThread
  <2>3. ASSUME NEW u \in Live, listeners'[key[u]] = u
        PROVE  u # t /\ listeners[key[u]] = u /\ u \in Tasks
    <3>1. TaskOK(u) /\ u \in Tasks /\ u # 0
      BY DEF SInv, Live, Tasks
    <3>2. key[u] \in Keys /\ \A k \in Keys : listeners[k] = u => key[u] = k
      BY <3>1 DEF TaskOK
    <3>3. key[u] # carg[c]
      BY <1>1, <2>1, <2>3, <3>1 DEF TypeOK
    <3> QED
      BY <1>1, <2>1, <2>3, <3>1, <3>2, <3>3 DEF TypeOK
  <2> QED
    BY <1>2, <2>1, <2>2, <2>3 DEF Entries, EntryOK, Live
<1> QED
  BY <1>3, <1>4

\* The tasks start() spawns are for the node it is going to store.
LEMMA StartEntries ==
  ASSUME Sequential, IInv, Serving, SInv, Entries, NEW c \in Callers, StartSpawn(c)
  PROVE  Entries'
<1>1. /\ TypeOK /\ CallerOK(c) /\ ServedOK(c) /\ PlainOK(c) /\ (\A b \in Callers : b = c)
      /\ cpc[c] = "startSpawn"
  BY DEF IInv, Serving, SInv, Sequential, OneThread, StartSpawn
<1>2. SpawnListeners(csnap[c], crun[c]) /\ UNCHANGED <<node, crun>>
  BY DEF StartSpawn
<1>3. crun[c] \in Runs /\ csnap[c] \in [Keys -> {0, 1}]
  <2>1. 0..MaxDup \subseteq {0, 1}
    BY MaxDupAssumption DEF Sequential
  <2> QED
    BY <1>1, <2>1 DEF TypeOK, CallerOK, Building
<1>4. node = 0 /\ \A k \in Keys : listeners[k] = 0
  BY <1>1 DEF ServedOK, Building
<1>5. Live = {}
  BY <1>1, <1>4, BeforeSpawn DEF Live, Tasks
<1>6. \A t \in Live' : run'[t] = crun[c]
  BY <1>1, <1>2, <1>3, <1>4, <1>5, SpawnFacts
<1>7. sig' = {}
  BY <1>1, <1>2, <1>5, SpawnSig DEF TypeOK
<1> QED
  BY <1>1, <1>2, <1>4, <1>6, <1>7 DEF Entries, EntryOK

\* The task of add_* serves the node.
LEMMA AddEntries ==
  ASSUME Sequential, IInv, SInv, Entries, NEW c \in Callers, AddSpawn(c)
  PROVE  Entries'
<1> DEFINE n == [k \in Keys |-> IF k = carg[c] THEN 1 ELSE 0]
<1>1. /\ TypeOK /\ CallerOK(c) /\ PlainOK(c) /\ (\A b \in Callers : b = c)
      /\ cpc[c] = "addSpawn" /\ crun[c] = node
  BY DEF IInv, SInv, StateLocked, Sequential, OneThread, AddSpawn
<1>2. SpawnListeners(n, crun[c]) /\ Return(c) /\ node' = node
  BY DEF AddSpawn
<1>3. crun[c] \in Runs /\ n \in [Keys -> {0, 1}] /\ carg[c] \in Keys
  BY <1>1 DEF TypeOK, CallerOK
<1>4. listeners[carg[c]] = 0 /\ node # 0
  BY <1>1, <1>3 DEF PlainOK, Runs
<1>5. \A k \in Keys : n[k] = 1 <=> k = carg[c]
  OBVIOUS
<1>6. \A t \in Live : key[t] \in Keys /\ listeners[key[t]] = t
                      /\ \A k \in Keys : listeners[k] = t => key[t] = k
  BY <1>1, BeforeSpawn
<1>7. /\ \A t \in Live' : (t \in Live /\ run'[t] = run[t]) \/ run'[t] = crun[c]
      /\ sig' = sig
  <2> HIDE DEF n
  <2> QED
    BY <1>1, <1>2, <1>3, <1>4, <1>5, <1>6, SpawnFacts, SpawnSig
<1>8. \A t \in Live : t \notin sig /\ run[t] = node
  BY <1>4, <1>6 DEF Entries, EntryOK, Live
<1>9. sig = {}
  BY <1>1, <1>8 DEF TypeOK
<1>10. \A b \in Callers : cpc'[b] = "idle"
  BY <1>1, <1>2, ReturnType
<1> QED
  BY <1>1, <1>2, <1>7, <1>8, <1>9, <1>10 DEF Entries, EntryOK

\* The other steps of a call.
LEMMA CallEntries ==
  ASSUME Sequential, IInv, Entries, NEW c \in Callers,
         \/ StartCheck(c) \/ StartClone(c) \/ StartBuild(c)
         \/ StopTake(c) \/ StopPeers(c) \/ PeersJoined(c)
         \/ StopCore(c) \/ StopProxy(c) \/ StopNetstack(c) \/ Joined(c)
         \/ AddState(c) \/ \E k \in Keys : AddPush(c, k) \/ RemoveRetain(c, k)
  PROVE  Entries'
<1>1. TypeOK
  BY DEF IInv
<1>2. PICK label \in Labels \ {"startStore"} :
        /\ Goto(c, label) /\ node' \in {0, node}
        /\ UNCHANGED <<listeners, st, key, run, sig>>
  <2>1. CASE StartCheck(c) \/ StartClone(c) \/ StartBuild(c) \/ StopTake(c)
    BY <2>1 DEF StartCheck, StartClone, StartBuild, StopTake, taskVars, Labels
  <2>2. CASE StopPeers(c) \/ PeersJoined(c) \/ StopCore(c) \/ StopProxy(c) \/ StopNetstack(c)
    BY <2>2 DEF StopPeers, PeersJoined, StopCore, StopProxy, StopNetstack, taskVars, Labels
  <2>3. CASE Joined(c)
    BY <2>3 DEF Joined, Return, taskVars, Labels
  <2>4. CASE AddState(c)
    BY <2>4 DEF AddState, Return, taskVars, Labels
  <2>5. CASE \E k \in Keys : AddPush(c, k) \/ RemoveRetain(c, k)
    BY <2>5 DEF AddPush, RemoveRetain, taskVars, Labels
  <2> QED
    BY <2>1, <2>2, <2>3, <2>4, <2>5
<1>3. cpc'[c] = label
  BY <1>1, <1>2, GotoType
<1> QED
  BY <1>2, <1>3, EntriesStay

\* Every step, clear_mappings being none of them.
LEMMA NextEntries ==
  ASSUME Sequential, IInv, Serving, SInv, Entries, [Next]_vars
  PROVE  Entries'
<1>1. ASSUME NEW c \in Callers, Call(c) PROVE Entries'
  <2>1. ~ClearVectors(c)
    BY DEF ClearVectors, Sequential
  <2> QED
    BY <1>1, <2>1, CallEntries DEF Call
<1>2. ASSUME NEW c \in Callers, Proceed(c) PROVE Entries'
  <2>1. ~ClearDrain(c)
    BY DEF ClearDrain, SInv, PlainOK
  <2>2. CASE PeersAborted(c)
    BY <2>2, SameEntries DEF PeersAborted, forwarding, taskVars, callVars
  <2>3. CASE \E t \in Tasks : JoinAborts(c, t)
    BY <2>3, TaskEntries
  <2> QED
    BY <1>2, <2>1, <2>2, <2>3, CallEntries, StartEntries, StoreEntries, DrainEntries,
       AddEntries, RemoveEntries DEF Proceed
<1>3. ASSUME NEW t \in Tasks, Run(t) PROVE Entries'
  BY <1>3, TaskEntries
<1>4. ASSUME NEW r \in Runs, ProxyBind(r) \/ ProxyStopped(r) PROVE Entries'
  BY <1>4, SameEntries DEF ProxyBind, ProxyStopped, taskVars, callVars
<1>5. ASSUME NEW r \in Runs, PeerChanges(r) \/ Forward(r) PROVE Entries'
  BY <1>5, SameEntries
  DEF PeerChanges, Forward, FwdSubscribes, FwdQueries, FwdCalls, FwdReceives, FwdDebounced,
      FwdStops, forwarding, taskVars, callVars
<1>6. CASE UNCHANGED vars
  BY <1>6, SameEntries DEF vars, taskVars, callVars
<1>7. ASSUME NEW k \in Keys, LetGo(k) PROVE Entries'
  BY <1>7, SameEntries DEF LetGo, callVars
<1> QED
  BY <1>1, <1>2, <1>3, <1>4, <1>5, <1>6, <1>7 DEF Next

\* Between two calls of one app thread that adds no mapping twice and does not
\* clear them: what is configured, before start() or after, has a listener that
\* nobody told to stop, and every task that serves is the listener of a
\* configured mapping and serves the node.  Serving relates the entries to the
\* mappings, SInv the tasks to the entries, and Entries the entries to the node.
THEOREM ConfiguredIsServed ==
  ASSUME Sequential
  PROVE  Spec => []MappingsServed
<1>1. Spec => []Entries
  <2>1. IInv /\ Serving /\ SInv /\ Entries /\ [Next]_vars => Entries'
    BY NextEntries
  <2>2. Spec => []Serving
    BY ServingInductive DEF Sequential
  <2> QED
    BY <2>1, <2>2, SequentialInductive, InitEntries, PTL DEF Spec
<1>2. Spec => []Serving
  BY ServingInductive DEF Sequential
<1>3. ASSUME IInv, Serving, SInv, Entries PROVE MappingsServed
  <2> SUFFICES ASSUME Idle, node # 0
               PROVE  /\ \A k \in Keys : /\ mappings[k] > 0 <=> listeners[k] # 0
                                         /\ listeners[k] \notin sig
                      /\ \A t \in Tasks : st[t] = "serving" =>
                           mappings[key[t]] > 0 /\ listeners[key[t]] = t /\ run[t] = node
    BY DEF MappingsServed
  <2>1. PICK c \in Callers : TRUE
    BY DEF Sequential, OneThread
  <2>2. \A k \in Keys : mappings[k] > 0 <=> listeners[k] # 0
    BY <1>3, <2>1 DEF Serving, ServedOK, Served, Idle
  <2>3. \A b \in Callers : cjoin[b] = {}
    BY <1>3 DEF SInv, PlainOK, Idle
  <2>4. ASSUME NEW t \in Live
        PROVE  /\ t \in Tasks /\ t # 0 /\ key[t] \in Keys /\ listeners[key[t]] = t
               /\ t \notin sig /\ run[t] = node
    <3>1. t \in Tasks /\ t # 0
      BY DEF Live, Tasks
    <3>2. TaskOK(t) /\ EntryOK(t)
      BY <1>3, <3>1 DEF SInv, Entries
    <3>3. key[t] \in Keys /\ listeners[key[t]] = t
      BY <2>3, <3>2 DEF TaskOK
    <3> QED
      BY <3>1, <3>2, <3>3 DEF EntryOK
  <2>5. sig = {}
    BY <1>3, <2>4 DEF IInv, TypeOK
  <2>6. ASSUME NEW t \in Tasks, st[t] = "serving"
        PROVE  mappings[key[t]] > 0 /\ listeners[key[t]] = t /\ run[t] = node
    <3>1. t \in Live
      BY <2>6 DEF Live
    <3> QED
      BY <2>2, <2>4, <3>1
  <2> QED
    BY <2>2, <2>5, <2>6
<1> QED
  BY <1>1, <1>2, <1>3, SequentialInductive, PTL

=============================================================================
