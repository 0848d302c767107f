------------------------------- MODULE Engine -------------------------------
(***************************************************************************)
(* The mobile engine (yggstack-mobile/src/mobile.rs): start, stop, the     *)
(* add_*, remove_* and clear_mappings calls, which any number of app       *)
(* threads may make, and the per-mapping listener tasks they spawn, stop   *)
(* and join (forward/tcp.rs, forward/udp.rs); and the peer-events          *)
(* forwarder of a running node, which tells the app of peers that come and *)
(* go.                                                                     *)
(*                                                                         *)
(* A caller's step is one critical section of a mutex, or one block_on.    *)
(* The four mapping vectors are handled alike and are one here; a mapping  *)
(* is its stats key.  A listener's broadcast channel is reduced to what    *)
(* its task can still receive: a message sent before the task subscribed   *)
(* is lost, whoever else keeps a receiver.                                 *)
(***************************************************************************)
EXTENDS Integers, FiniteSets

CONSTANTS
  Callers,   \* app threads
  Calls,     \* the calls they make: "start", "stop", "add", "remove", "clear"
  Keys,      \* stats keys of the mappings
  Remote,    \* those listening in the netstack, which checks no conflict
  LocalUdp,  \* the local-udp ones, whose reply listeners share the socket
  MaxDup,    \* how often the app adds the same mapping
  MaxTask,   \* bound on the listener tasks alive at a time
  MaxRun,    \* bound on the nodes alive or under construction at a time
  Callback,  \* whether the app has set a PeerStatusCallback
  EventCap   \* events the core's peer-event channel holds before it lags

ASSUME RemoteAssumption == Remote \subseteq Keys
ASSUME LocalUdpAssumption == LocalUdp \subseteq Keys \ Remote
ASSUME MaxDupAssumption == MaxDup \in Nat
ASSUME MaxTaskAssumption == MaxTask \in Nat
ASSUME MaxRunAssumption == MaxRun \in Nat
ASSUME CallbackAssumption == Callback \in BOOLEAN
ASSUME EventCapAssumption == EventCap \in Nat \ {0}

Tasks == 1..MaxTask
Runs  == 1..MaxRun

VARIABLES
  mappings,   \* how often each mapping is in local_tcp, ... remote_udp
  listeners,  \* YggstackMobile.listeners, 0 for no entry
  node,       \* YggstackMobile.state: the run it holds, 0 for None
  stateLock,  \* the add_* that holds the state mutex across two steps
  listLock,   \* the remove_* that holds the listeners mutex while it joins
  up,         \* core and netstack of each run
  peers,      \* peers the core of each run has
  fwd,        \* its peer-events forwarder: control state, snapshot it took,
              \* count it told the app, and events it has not received
  proxy,      \* the SOCKS5 and HTTP servers of each run
  halted,     \* runs whose forwarder holds a stop
  stats,      \* ListenerStatsRegistry of each run: its listener keys
  st,         \* state of each listener task
  key, run,   \* its mapping and the run it serves
  sig,        \* tasks whose receiver holds a stop
  held,       \* local-udp addresses that reply listeners of past tasks hold
  cpc,        \* control state of each caller
  carg,       \* its mapping
  crun,       \* the run it builds or tears down
  csnap,      \* start(): the mappings it cloned
  cjoin       \* tasks it joins
lockVars == <<stateLock, listLock>>
runVars  == <<up, peers, fwd, proxy, halted>>
taskVars == <<st, key, run, sig, held>>
callVars == <<cpc, carg, crun, csnap, cjoin>>
vars == <<mappings, listeners, node, lockVars, runVars, stats, taskVars, callVars>>

NoCaller == "nobody"
NoKey    == "nokey"
ASSUME CallersAssumption == NoCaller \notin Callers
NoForwarder == [at |-> "none", shot |-> 0, shown |-> 0, events |-> 0]
Live == {t \in Tasks : st[t] # "none"}
Registered == {listeners[k] : k \in Keys} \ {0}

\* Run and task numbers nobody refers to.
NewRuns == {r \in Runs : /\ up[r] = "none" /\ \A t \in Live : run[t] # r
                         /\ \A c \in Callers : crun[c] # r}
Unused == {t \in Tasks \ (Live \cup Registered) : \A c \in Callers : t \notin cjoin[c]}

Init ==
  /\ mappings = [k \in Keys |-> 0] /\ listeners = [k \in Keys |-> 0]
  /\ node = 0 /\ stateLock = NoCaller /\ listLock = NoCaller
  /\ up = [r \in Runs |-> "none"] /\ peers = [r \in Runs |-> 0]
  /\ fwd = [r \in Runs |-> NoForwarder] /\ halted = {}
  /\ proxy = [r \in Runs |-> "none"] /\ stats = [r \in Runs |-> {}]
  /\ st = [t \in Tasks |-> "none"] /\ sig = {} /\ held = {}
  /\ key = [t \in Tasks |-> NoKey] /\ carg = [c \in Callers |-> NoKey]
  /\ run = [t \in Tasks |-> 0]
  /\ cpc = [c \in Callers |-> "idle"] /\ crun = [c \in Callers |-> 0]
  /\ csnap = [c \in Callers |-> [k \in Keys |-> 0]]
  /\ cjoin = [c \in Callers |-> {}]

Goto(c, label) == cpc' = [cpc EXCEPT ![c] = label]

\* A call with an argument returns.
Return(c) == Goto(c, "idle") /\ carg' = [carg EXCEPT ![c] = NoKey]

-----------------------------------------------------------------------------
(* Listener tasks *)

\* spawn_listener for n[k] mappings of each key k: the stats entry, the task,
\* and the entry in listeners, which replaces an older one.
SpawnListeners(n, r) ==
  \E T \in SUBSET Unused : \E own \in [T -> Keys] :
    /\ \A x \in T, y \in Unused \ T : x < y
    /\ \A k \in Keys : Cardinality({t \in T : own[t] = k}) = n[k]
    /\ st'  = [t \in Tasks |-> IF t \in T THEN "spawned" ELSE st[t]]
    /\ key' = [t \in Tasks |-> IF t \in T THEN own[t] ELSE key[t]]
    /\ run' = [t \in Tasks |-> IF t \in T THEN r ELSE run[t]]
    /\ stats' = [stats EXCEPT ![r] = @ \cup {k \in Keys : n[k] > 0}]
    /\ \E last \in [Keys -> T \cup {0}] :
         /\ \A k \in Keys : IF n[k] = 0 THEN last[k] = 0
                            ELSE last[k] # 0 /\ own[last[k]] = k
         /\ listeners' = [k \in Keys |-> IF n[k] = 0 THEN listeners[k] ELSE last[k]]
    /\ UNCHANGED <<sig, held>>

\* stop_tx.send for the listeners of S: only a task that has subscribed gets it.
SendStop(S) ==
  sig' = sig \cup {t \in S : st[t] = "serving"}

\* The reply listeners of a local-udp task, which share its socket, are aborted
\* but not joined, and run on if the task itself is aborted: they outlive it,
\* if there are any.
SocketOutlives(t) ==
  held' \in {held} \cup {held \cup {k} : k \in {key[t]} \cap LocalUdp}

\* Mutant: a stop for the task lingers.
EndKeepsSignal(t) ==
  /\ st' = [st EXCEPT ![t] = "none"]
  /\ key' = [key EXCEPT ![t] = NoKey] /\ run' = [run EXCEPT ![t] = 0]
  /\ UNCHANGED <<sig, held>>

\* Task t is over.  Its address is free again, but for what SocketOutlives.
End(t) ==
  /\ st' = [st EXCEPT ![t] = "none"]
  /\ key' = [key EXCEPT ![t] = NoKey] /\ run' = [run EXCEPT ![t] = 0]
  /\ sig' = sig \ {t}
  /\ IF st[t] = "serving" THEN SocketOutlives(t) ELSE UNCHANGED held

\* The last reply listener that held address k is gone.
LetGo(k) ==
  /\ k \in held
  /\ held' = held \ {k}
  /\ UNCHANGED <<mappings, listeners, node, lockVars, runVars, stats, st, key,
                 run, sig, callVars>>

Unlist(t) == stats' = [stats EXCEPT ![run[t]] = @ \ {key[t]}]

\* A socket is open on the address of mapping k.
InUse(k) == k \in held \/ \E u \in Tasks : st[u] = "serving" /\ key[u] = k

\* The first poll of a listener task: bind, then subscribe, no await between.
\* The operating system refuses an address whose socket is still open.
Bind(t) ==
  /\ st[t] = "spawned"
  /\ key[t] \in Remote \/ ~InUse(key[t])
  /\ st' = [st EXCEPT ![t] = "serving"]
  /\ UNCHANGED <<mappings, listeners, node, lockVars, runVars, stats,
                 key, run, sig, held, callVars>>

\* It fails, for this or for any other reason.
BindFails(t) ==
  /\ st[t] = "spawned"
  /\ End(t) /\ Unlist(t)
  /\ UNCHANGED <<mappings, listeners, node, lockVars, runVars, callVars>>

\* stop.recv() won the select.
Stopped(t) ==
  /\ st[t] = "serving" /\ t \in sig
  /\ End(t) /\ Unlist(t)
  /\ UNCHANGED <<mappings, listeners, node, lockVars, runVars, callVars>>

\* A proxy server binds and subscribes, or fails to.
ProxyBind(r) ==
  /\ proxy[r] = "spawned"
  /\ \E s \in {"serving", "none"} : proxy' = [proxy EXCEPT ![r] = s]
  /\ UNCHANGED <<mappings, listeners, node, lockVars, up, peers, fwd, halted,
                 stats, taskVars, callVars>>

\* One that had subscribed takes the stop meant for the forwarder.
ProxyStopped(r) ==
  /\ proxy[r] = "told"
  /\ proxy' = [proxy EXCEPT ![r] = "none"]
  /\ UNCHANGED <<mappings, listeners, node, lockVars, up, peers, fwd, halted,
                 stats, taskVars, callVars>>

-----------------------------------------------------------------------------
(* The peer-events forwarder *)

forwarding == <<mappings, listeners, node, lockVars, up, proxy, halted, stats,
                taskVars, callVars>>

\* A peer connects or disconnects, and the core says so.  At its capacity the
\* channel drops the oldest event, which the receiver is told of: EventCap + 1
\* stands for a full channel that lags.
PeerChanges(r) ==
  /\ up[r] = "up" /\ fwd[r].at # "none"
  /\ peers' = [peers EXCEPT ![r] = 1 - @]
  /\ fwd' = [fwd EXCEPT ![r].events =
               IF fwd[r].at = "spawned" THEN 0 ELSE IF @ > EventCap THEN @ ELSE @ + 1]
  /\ UNCHANGED forwarding

\* Its first poll subscribes to the events; the first snapshot follows.
FwdSubscribes(r) ==
  /\ fwd[r].at = "spawned"
  /\ fwd' = [fwd EXCEPT ![r].at = "query"]
  /\ UNCHANGED <<forwarding, peers>>

\* peers_snapshot_json: the core is asked for its peers.
FwdQueries(r) ==
  /\ fwd[r].at = "query"
  /\ fwd' = [fwd EXCEPT ![r].at = "call", ![r].shot = peers[r]]
  /\ UNCHANGED <<forwarding, peers>>

\* Mutant: the queue is drained behind the snapshot.
FwdCallsAndDrains(r) ==
  /\ fwd[r].at = "call"
  /\ fwd' = [fwd EXCEPT ![r].at = "wait", ![r].shown = fwd[r].shot, ![r].shot = 0,
                        ![r].events = 0]
  /\ UNCHANGED <<forwarding, peers>>

\* on_peers_changed, which no abort can interrupt.
FwdCalls(r) ==
  /\ fwd[r].at = "call"
  /\ fwd' = [fwd EXCEPT ![r].at = "wait", ![r].shown = fwd[r].shot, ![r].shot = 0]
  /\ UNCHANGED <<forwarding, peers>>

\* An event, or the report of lost ones, which leaves the queue as it is.
FwdReceives(r) ==
  /\ fwd[r].at = "wait" /\ fwd[r].events > 0
  /\ fwd' = [fwd EXCEPT ![r].at = "debounce", ![r].events = @ - 1]
  /\ UNCHANGED <<forwarding, peers>>

\* PEER_DEBOUNCE is over: the queue is drained, up to a report of lost events.
FwdDebounced(r) ==
  /\ fwd[r].at = "debounce"
  /\ fwd' = [fwd EXCEPT ![r].at = "query",
                        ![r].events = IF @ > EventCap THEN EventCap ELSE 0]
  /\ UNCHANGED <<forwarding, peers>>

\* stop_rx.recv() won a select.
FwdStops(r) ==
  /\ fwd[r].at \in {"wait", "debounce"} /\ r \in halted
  /\ fwd' = [fwd EXCEPT ![r] = NoForwarder]
  /\ UNCHANGED <<forwarding, peers>>

-----------------------------------------------------------------------------
(* start *)

\* Not running?  (If running, start returns AlreadyRunning and nothing changes.)
StartCheck(c) ==
  /\ cpc[c] = "idle" /\ "start" \in Calls
  /\ stateLock = NoCaller /\ node = 0
  /\ \E r \in NewRuns : /\ \A q \in NewRuns : r <= q
                        /\ crun' = [crun EXCEPT ![c] = r]
  /\ Goto(c, "startClone")
  /\ UNCHANGED <<mappings, listeners, node, lockVars, runVars, stats, taskVars,
                 carg, csnap, cjoin>>

\* Mutant: the mappings configured before start are not picked up.
StartCloneNothing(c) ==
  /\ cpc[c] = "startClone"
  /\ Goto(c, "startBuild")
  /\ UNCHANGED <<mappings, listeners, node, lockVars, runVars, stats, taskVars,
                 carg, crun, csnap, cjoin>>

StartClone(c) ==
  /\ cpc[c] = "startClone"
  /\ csnap' = [csnap EXCEPT ![c] = mappings]
  /\ Goto(c, "startBuild")
  /\ UNCHANGED <<mappings, listeners, node, lockVars, runVars, stats, taskVars,
                 carg, crun, cjoin>>

\* Core, netstack, peer-events forwarder, SOCKS5 and HTTP servers.
StartBuild(c) ==
  /\ cpc[c] = "startBuild"
  /\ up' = [up EXCEPT ![crun[c]] = "up"]
  /\ fwd' = [fwd EXCEPT ![crun[c]].at = IF Callback THEN "spawned" ELSE "none"]
  /\ proxy' = [proxy EXCEPT ![crun[c]] = "spawned"]
  /\ Goto(c, "startSpawn")
  /\ UNCHANGED <<mappings, listeners, node, lockVars, peers, halted, stats, taskVars,
                 carg, crun, csnap, cjoin>>

StartSpawn(c) ==
  /\ cpc[c] = "startSpawn" /\ listLock = NoCaller
  /\ SpawnListeners(csnap[c], crun[c])
  /\ csnap' = [csnap EXCEPT ![c] = [k \in Keys |-> 0]]
  /\ Goto(c, "startStore")
  /\ UNCHANGED <<mappings, node, lockVars, runVars, carg, crun, cjoin>>

StartStore(c) ==
  /\ cpc[c] = "startStore" /\ stateLock = NoCaller
  /\ node' = crun[c]
  /\ crun' = [crun EXCEPT ![c] = 0]
  /\ Goto(c, "idle")
  /\ UNCHANGED <<mappings, listeners, lockVars, runVars, stats, taskVars,
                 carg, csnap, cjoin>>

-----------------------------------------------------------------------------
(* stop *)

StopTake(c) ==
  /\ cpc[c] = "idle" /\ "stop" \in Calls /\ stateLock = NoCaller
  /\ crun' = [crun EXCEPT ![c] = node]
  /\ node' = 0
  /\ Goto(c, IF node = 0 THEN "stopDrain" ELSE "stopPeers")
  /\ UNCHANGED <<mappings, listeners, lockVars, runVars, stats, taskVars,
                 carg, csnap, cjoin>>

\* A stop for the forwarder, on the channel the proxy servers listen to as well.
StopPeers(c) ==
  /\ cpc[c] = "stopPeers"
  /\ IF fwd[crun[c]].at = "none" THEN UNCHANGED <<halted, proxy>>
     ELSE /\ halted' = halted \cup {crun[c]}
          /\ proxy' = [proxy EXCEPT ![crun[c]] = IF @ = "serving" THEN "told" ELSE @]
  /\ Goto(c, "joinPeers")
  /\ UNCHANGED <<mappings, listeners, node, lockVars, up, peers, fwd, stats,
                 taskVars, carg, crun, csnap, cjoin>>

\* join_listener: the forwarder did not end in time and is aborted at an await.
PeersAborted(c) ==
  /\ cpc[c] = "joinPeers" /\ fwd[crun[c]].at \notin {"none", "call"}
  /\ fwd' = [fwd EXCEPT ![crun[c]] = NoForwarder]
  /\ UNCHANGED <<forwarding, peers>>

\* It has ended: the core can be closed.
PeersJoined(c) ==
  /\ cpc[c] = "joinPeers" /\ fwd[crun[c]].at = "none"
  /\ Goto(c, "stopCore")
  /\ UNCHANGED <<mappings, listeners, node, lockVars, runVars, stats, taskVars,
                 carg, crun, csnap, cjoin>>

StopCore(c) ==
  /\ cpc[c] = "stopCore"
  /\ up' = [up EXCEPT ![crun[c]] = "closed"] /\ peers' = [peers EXCEPT ![crun[c]] = 0]
  /\ Goto(c, "stopProxy")
  /\ UNCHANGED <<mappings, listeners, node, lockVars, fwd, proxy, halted, stats,
                 taskVars, carg, crun, csnap, cjoin>>

\* stop_tx.send, and the proxy servers joined or aborted.
StopProxy(c) ==
  /\ cpc[c] = "stopProxy"
  /\ proxy' = [proxy EXCEPT ![crun[c]] = "none"] /\ halted' = halted \ {crun[c]}
  /\ Goto(c, "stopNetstack")
  /\ UNCHANGED <<mappings, listeners, node, lockVars, up, peers, fwd, stats,
                 taskVars, carg, crun, csnap, cjoin>>

\* The netstack is shut down and the NodeState dropped, its registry with it.
StopNetstack(c) ==
  /\ cpc[c] = "stopNetstack"
  /\ up' = [up EXCEPT ![crun[c]] = "none"]
  /\ stats' = [stats EXCEPT ![crun[c]] = {}]
  /\ crun' = [crun EXCEPT ![c] = 0]
  /\ Goto(c, "stopDrain")
  /\ UNCHANGED <<mappings, listeners, node, lockVars, peers, fwd, proxy, halted,
                 taskVars, carg, csnap, cjoin>>

\* listeners.drain() and a stop for each.
Drain ==
  /\ listLock = NoCaller
  /\ listeners' = [k \in Keys |-> 0]
  /\ SendStop(Registered)

StopDrain(c) ==
  /\ cpc[c] = "stopDrain"
  /\ Drain
  /\ cjoin' = [cjoin EXCEPT ![c] = Registered]
  /\ Goto(c, "join")
  /\ UNCHANGED <<mappings, node, lockVars, runVars, stats, st, key, run, held,
                 carg, crun, csnap>>

\* join_listener: one of the tasks did not end in time and is aborted.
JoinAborts(c, t) ==
  /\ cpc[c] = "join" /\ t \in cjoin[c] \cap Live
  /\ End(t)
  /\ UNCHANGED <<mappings, listeners, node, lockVars, runVars, stats, callVars>>

\* Mutants: the call does not wait; the mutex is not released.
JoinedAtOnce(c) ==
  /\ cpc[c] = "join"
  /\ cjoin' = [cjoin EXCEPT ![c] = {}]
  /\ listLock' = IF listLock = c THEN NoCaller ELSE listLock
  /\ Return(c)
  /\ UNCHANGED <<mappings, listeners, node, stateLock, runVars, stats, taskVars,
                 crun, csnap>>
JoinedKeepsLock(c) ==
  /\ cpc[c] = "join" /\ cjoin[c] \cap Live = {}
  /\ cjoin' = [cjoin EXCEPT ![c] = {}]
  /\ Return(c)
  /\ UNCHANGED <<mappings, listeners, node, lockVars, runVars, stats, taskVars,
                 crun, csnap>>

\* All have ended: the call returns, and a remove_* releases the mutex.
Joined(c) ==
  /\ cpc[c] = "join" /\ cjoin[c] \cap Live = {}
  /\ cjoin' = [cjoin EXCEPT ![c] = {}]
  /\ listLock' = IF listLock = c THEN NoCaller ELSE listLock
  /\ Return(c)
  /\ UNCHANGED <<mappings, listeners, node, stateLock, runVars, stats, taskVars,
                 crun, csnap>>

-----------------------------------------------------------------------------
(* add_*, remove_*, clear_mappings *)

AddPush(c, k) ==
  /\ cpc[c] = "idle" /\ "add" \in Calls /\ mappings[k] < MaxDup
  /\ mappings' = [mappings EXCEPT ![k] = @ + 1]
  /\ carg' = [carg EXCEPT ![c] = k]
  /\ Goto(c, "addState")
  /\ UNCHANGED <<listeners, node, lockVars, runVars, stats, taskVars,
                 crun, csnap, cjoin>>

\* Mutant: the guard is dropped before the listener is spawned.
AddStateUnlocked(c) ==
  /\ cpc[c] = "addState" /\ stateLock = NoCaller
  /\ IF node = 0 THEN Return(c) /\ UNCHANGED crun
     ELSE /\ crun' = [crun EXCEPT ![c] = node]
          /\ Goto(c, "addSpawn") /\ UNCHANGED carg
  /\ UNCHANGED <<mappings, listeners, node, lockVars, runVars, stats, taskVars,
                 csnap, cjoin>>

\* The state mutex stays locked until the listener is spawned.
AddState(c) ==
  /\ cpc[c] = "addState" /\ stateLock = NoCaller
  /\ IF node = 0 THEN Return(c) /\ UNCHANGED <<stateLock, crun>>
     ELSE /\ stateLock' = c
          /\ crun' = [crun EXCEPT ![c] = node]
          /\ Goto(c, "addSpawn") /\ UNCHANGED carg
  /\ UNCHANGED <<mappings, listeners, node, listLock, runVars, stats, taskVars,
                 csnap, cjoin>>

AddSpawn(c) ==
  /\ cpc[c] = "addSpawn" /\ listLock = NoCaller
  /\ SpawnListeners([k \in Keys |-> IF k = carg[c] THEN 1 ELSE 0], crun[c])
  /\ stateLock' = NoCaller
  /\ crun' = [crun EXCEPT ![c] = 0]
  /\ Return(c)
  /\ UNCHANGED <<mappings, node, listLock, runVars, csnap, cjoin>>

RemoveRetain(c, k) ==
  /\ cpc[c] = "idle" /\ "remove" \in Calls
  /\ mappings' = [mappings EXCEPT ![k] = 0]
  /\ carg' = [carg EXCEPT ![c] = k]
  /\ Goto(c, "removeStop")
  /\ UNCHANGED <<listeners, node, lockVars, runVars, stats, taskVars,
                 crun, csnap, cjoin>>

\* stop_listener: the guard of the if-let lives until the join is over.
RemoveStop(c) ==
  /\ cpc[c] = "removeStop" /\ listLock = NoCaller
  /\ LET t == listeners[carg[c]]
     IN IF t = 0 THEN Return(c) /\ UNCHANGED <<listeners, listLock, sig, cjoin>>
        ELSE /\ listLock' = c
             /\ listeners' = [listeners EXCEPT ![carg[c]] = 0]
             /\ SendStop({t})
             /\ cjoin' = [cjoin EXCEPT ![c] = {t}]
             /\ Goto(c, "join") /\ UNCHANGED carg
  /\ UNCHANGED <<mappings, node, stateLock, runVars, stats, st, key, run, held,
                 crun, csnap>>

ClearVectors(c) ==
  /\ cpc[c] = "idle" /\ "clear" \in Calls
  /\ mappings' = [k \in Keys |-> 0]
  /\ Goto(c, "clearDrain")
  /\ UNCHANGED <<listeners, node, lockVars, runVars, stats, taskVars,
                 carg, crun, csnap, cjoin>>

\* The listeners are told to stop, and nobody joins them.
ClearDrain(c) ==
  /\ cpc[c] = "clearDrain"
  /\ Drain
  /\ Goto(c, "idle")
  /\ UNCHANGED <<mappings, node, lockVars, runVars, stats, st, key, run, held,
                 carg, crun, csnap, cjoin>>

-----------------------------------------------------------------------------
\* The steps of a call once it has begun.
Proceed(c) ==
  \/ StartClone(c) \/ StartBuild(c) \/ StartSpawn(c) \/ StartStore(c)
  \/ StopPeers(c) \/ PeersAborted(c) \/ PeersJoined(c)
  \/ StopCore(c) \/ StopProxy(c) \/ StopNetstack(c) \/ StopDrain(c)
  \/ (\E t \in Tasks : JoinAborts(c, t)) \/ Joined(c)
  \/ AddState(c) \/ AddSpawn(c) \/ RemoveStop(c) \/ ClearDrain(c)

Call(c) ==
  \/ StartCheck(c) \/ StopTake(c) \/ ClearVectors(c)
  \/ \E k \in Keys : AddPush(c, k) \/ RemoveRetain(c, k)

Run(t) == Bind(t) \/ BindFails(t) \/ Stopped(t)

Forward(r) ==
  \/ FwdSubscribes(r) \/ FwdQueries(r) \/ FwdCalls(r)
  \/ FwdReceives(r) \/ FwdDebounced(r) \/ FwdStops(r)

Next ==
  \/ \E c \in Callers : Call(c) \/ Proceed(c)
  \/ \E t \in Tasks : Run(t)
  \/ \E k \in Keys : LetGo(k)
  \/ \E r \in Runs : ProxyBind(r) \/ ProxyStopped(r) \/ PeerChanges(r) \/ Forward(r)

Spec == Init /\ [][Next]_vars

\* Threads are scheduled and get the mutex they wait for in the end, ready
\* tasks are polled, LISTENER_STOP_GRACE ends, and the app's callback returns.
Fairness ==
  /\ \A c \in Callers : SF_vars(Proceed(c))
  /\ \A t \in Tasks : WF_vars(Run(t))
  /\ \A r \in Runs : WF_vars(ProxyBind(r)) /\ WF_vars(FwdCalls(r))

FairSpec == Spec /\ Fairness

-----------------------------------------------------------------------------
(* Properties *)

\* The types; and a stop is only ever held by a task that is alive.
TypeOK ==
  /\ mappings \in [Keys -> 0..MaxDup]
  /\ listeners \in [Keys -> Tasks \cup {0}]
  /\ node \in Runs \cup {0}
  /\ stateLock \in Callers \cup {NoCaller} /\ listLock \in Callers \cup {NoCaller}
  /\ up \in [Runs -> {"none", "up", "closed"}]
  /\ peers \in [Runs -> {0, 1}] /\ halted \subseteq Runs
  /\ fwd \in [Runs -> [at : {"none", "spawned", "query", "call", "wait", "debounce"},
                       shot : {0, 1}, shown : {0, 1}, events : 0..(EventCap + 1)]]
  /\ proxy \in [Runs -> {"none", "spawned", "serving", "told"}]
  /\ stats \in [Runs -> SUBSET Keys]
  /\ st \in [Tasks -> {"none", "spawned", "serving"}]
  /\ key \in [Tasks -> Keys \cup {NoKey}] /\ run \in [Tasks -> Runs \cup {0}]
  /\ sig \subseteq Live /\ held \subseteq LocalUdp
  /\ cpc \in [Callers -> {"idle", "startClone", "startBuild", "startSpawn",
                          "startStore", "stopPeers", "joinPeers", "stopCore", "stopProxy",
                          "stopNetstack", "stopDrain", "join", "addState",
                          "addSpawn", "removeStop", "clearDrain"}]
  /\ carg \in [Callers -> Keys \cup {NoKey}] /\ crun \in [Callers -> Runs \cup {0}]
  /\ csnap \in [Callers -> [Keys -> 0..MaxDup]]
  /\ cjoin \in [Callers -> SUBSET Tasks]

\* No call is in progress.
Idle == \A c \in Callers : cpc[c] = "idle"

\* "Empty when the node is not running" (on listeners): however start, stop,
\* add, remove and clear interleave, none leaves an entry behind a stop().
EmptyWhenStopped == Idle /\ node = 0 => Registered = {}

\* "a missed or lagged event can never produce a stale count" (start): a
\* forwarder that sleeps with no event to come has told the app how many peers
\* there are, whatever events it drained, lost or got while it took a snapshot.
\* And none is left when the core it asks is closed: "its callback must not
\* fire against a half-stopped node" (stop).
PeersReported ==
  \A r \in Runs : fwd[r].at # "none" =>
    /\ up[r] = "up"
    /\ fwd[r].at = "wait" /\ fwd[r].events = 0 => fwd[r].shown = peers[r]

\* Once stop() has returned, nothing it stops and joins is left: no listener
\* task, no proxy server, and no socket on the address of a mapping that would
\* make the next start() fail to bind it.  ("an immediate restart can then
\* rebind the same ports": but of a local-udp mapping the reply listeners, which
\* nobody joins, may still hold the port.)
QuietWhenStopped ==
  Idle /\ node = 0 =>
    /\ Live = {} /\ \A r \in Runs : proxy[r] = "none"
    /\ \A k \in Keys \ LocalUdp : ~InUse(k)

\* Between two calls of one thread, the mappings the app has configured are the
\* ones that have a listener, and no stop is on its way to it: it serves unless
\* its bind is still to come or failed.  And every task that serves is that
\* listener of a configured mapping, and serves the node that runs.
MappingsServed ==
  Idle /\ node # 0 =>
    /\ \A k \in Keys : /\ mappings[k] > 0 <=> listeners[k] # 0
                       /\ listeners[k] \notin sig
    /\ \A t \in Tasks : st[t] = "serving" =>
         mappings[key[t]] > 0 /\ listeners[key[t]] = t /\ run[t] = node

\* A listener that serves is in the registry get_listeners_json renders: a
\* late stats.remove of its predecessor never takes its entry away.
ServedIsListed ==
  \A k \in Keys :
    listeners[k] # 0 /\ st[listeners[k]] = "serving" /\ run[listeners[k]] = node
      => k \in stats[node]

\* Every call returns: the two mutexes and the joins never wait in a circle.
CallReturns == \A c \in Callers : []<>(cpc[c] = "idle")
=============================================================================
