-------------------------------- MODULE Ping --------------------------------
(***************************************************************************)
(* Ping sessions: run_ping (yggstack/src/ping.rs) with its probe loop, and *)
(* start_ping and stop_ping (yggstack-mobile/src/mobile.rs), which app     *)
(* threads call and which replace, stop and join the running session.      *)
(* stop() calls stop_ping and later shuts the netstack down.  The replies  *)
(* of a session's probes may come late, out of order, or never.            *)
(***************************************************************************)
EXTENDS Integers, FiniteSets

CONSTANTS
  Callers,     \* app threads
  Count,       \* probes per session, 0 for no end
  SeqMod,      \* the number of sequence numbers (2^16 in the code)
  MaxSession   \* bound on the calls of start_ping

\* No reply is so late that its number has come round again.
ASSUME CountAssumption == Count \in Nat /\ SeqMod \in Nat /\ Count < SeqMod
ASSUME MaxSessionAssumption == MaxSession \in Nat

Sessions == 1..MaxSession
Seqs == 0..(SeqMod - 1)

VARIABLES
  slot,      \* YggstackMobile.ping, 0 for None
  running,   \* the engine has a node
  closed,    \* its netstack was shut down
  pc,        \* control state of each session's task
  seq,       \* its seq
  sent,      \* its sent, which the loop reads only if Count # 0
  stop,      \* its stop: "no", "fired", or "dropped" with the sender
  asked,     \* its probes whose reply may still come
  oks,       \* probes it reported as answered
  reports,   \* number of probe events it reported (if Count # 0)
  done,      \* its done event: "no", or the reason
  cpc,       \* control state of each caller
  csess      \* the session it stops or stores
sessVars == <<pc, seq, sent, asked, oks, reports, done>>
vars == <<slot, running, closed, sessVars, stop, cpc, csess>>

LiveSessions == {s \in Sessions : pc[s] \notin {"none", "ended"}}

Init ==
  /\ slot = 0 /\ running = TRUE /\ closed = FALSE
  /\ pc = [s \in Sessions |-> "none"] /\ seq = [s \in Sessions |-> 0]
  /\ sent = [s \in Sessions |-> 0]
  /\ asked = [s \in Sessions |-> {}] /\ oks = [s \in Sessions |-> {}]
  /\ reports = [s \in Sessions |-> 0] /\ done = [s \in Sessions |-> "no"]
  /\ stop = [s \in Sessions |-> "no"]
  /\ cpc = [c \in Callers |-> "idle"] /\ csess = [c \in Callers |-> 0]

-----------------------------------------------------------------------------
(* run_ping *)

Step(s, from, to) == pc[s] = from /\ pc' = [pc EXCEPT ![s] = to]

\* on_event(Done), and return.
Finish(s, from, reason) ==
  /\ Step(s, from, "ended")
  /\ done' = [done EXCEPT ![s] = reason]
  /\ asked' = [asked EXCEPT ![s] = {}]
  /\ UNCHANGED <<seq, sent, oks, reports>>

callerVars == <<slot, running, closed, stop, cpc, csess>>

\* A counter that matters only if the session is to end.
Count1(n) == IF Count = 0 THEN n ELSE n + 1

\* open_icmp, the first thing the task does, and its error path (a bind that
\* fails).
OpenIcmp(s) ==
  /\ \/ Step(s, "open", "loop") /\ UNCHANGED <<seq, sent, asked, oks, reports, done>>
     \/ Finish(s, "open", "failed")
  /\ UNCHANGED callerVars

\* Mutant: one probe too many.
ExhaustedLate(n) == Count # 0 /\ n > Count

\* Mutant: one probe too few.
ExhaustedEarly(n) == Count # 0 /\ n + 1 >= Count

\* All probes are out.
Exhausted(n) == Count # 0 /\ n >= Count

\* The top of the loop.
LoopTop(s) ==
  /\ \/ Exhausted(sent[s]) /\ Finish(s, "loop", "completed")
     \/ /\ ~Exhausted(sent[s])
        /\ Step(s, "loop", "send")
        /\ seq' = [seq EXCEPT ![s] = (@ + 1) % SeqMod]
        /\ UNCHANGED <<sent, asked, oks, reports, done>>
  /\ UNCHANGED callerVars

\* send_echo: it fails once the netstack is closed, or for another reason.
SendEcho(s) ==
  /\ \/ /\ ~closed /\ Step(s, "send", "recv")
        /\ sent' = [sent EXCEPT ![s] = Count1(@)]
        /\ asked' = [asked EXCEPT ![s] = @ \cup {seq[s]}]
        /\ oks' = [oks EXCEPT ![s] = @ \ {seq[s]}]
        /\ UNCHANGED <<seq, reports, done>>
     \/ Finish(s, "send", "failed")
  /\ UNCHANGED callerVars

\* Mutant: any reply will do.
AnswersAny(s, n) == TRUE

\* Whether reply n answers the probe in flight.
Answers(s, n) == n = seq[s]

\* recv_reply returned reply n: the answer, or a late one, which is drained.
RecvReply(s, n) ==
  /\ pc[s] = "recv" /\ n \in asked[s] /\ ~closed
  /\ asked' = [asked EXCEPT ![s] = @ \ {n}]
  /\ \/ /\ Answers(s, n)
        /\ Step(s, "recv", "next")
        /\ oks' = [oks EXCEPT ![s] = @ \cup {seq[s]}]
        /\ reports' = [reports EXCEPT ![s] = Count1(@)]
     \/ ~Answers(s, n) /\ UNCHANGED <<pc, oks, reports>>
  /\ UNCHANGED <<seq, sent, done, callerVars>>

\* The probe's timeout.
ProbeTimeout(s) ==
  /\ Step(s, "recv", "next")
  /\ reports' = [reports EXCEPT ![s] = Count1(@)]
  /\ UNCHANGED <<seq, sent, asked, oks, done, callerVars>>

\* recv_reply found the netstack closed.
RecvFails(s) ==
  /\ closed /\ Finish(s, "recv", "failed")
  /\ UNCHANGED callerVars

\* Sleep for the interval, unless that was the last probe.
Sleep(s) ==
  /\ Step(s, "next", IF Exhausted(sent[s]) THEN "loop" ELSE "sleep")
  /\ UNCHANGED <<seq, sent, asked, oks, reports, done, callerVars>>

Wake(s) ==
  /\ Step(s, "sleep", "loop")
  /\ UNCHANGED <<seq, sent, asked, oks, reports, done, callerVars>>

\* The stop future won one of the two selects.
StopSeen(s) ==
  /\ stop[s] # "no"
  /\ Finish(s, "recv", "stopped") \/ Finish(s, "sleep", "stopped")
  /\ UNCHANGED callerVars

-----------------------------------------------------------------------------
(* start_ping, stop_ping *)

Goto(c, label) == cpc' = [cpc EXCEPT ![c] = label]

\* start_ping clones the netstack of the running node.
StartPing(c) ==
  /\ cpc[c] = "idle" /\ running
  /\ Goto(c, "replace")
  /\ UNCHANGED <<slot, running, closed, sessVars, stop, csess>>

StopPing(c) ==
  /\ cpc[c] = "idle"
  /\ Goto(c, "take")
  /\ UNCHANGED <<slot, running, closed, sessVars, stop, csess>>

\* stop(): stop_ping first, the node after it.
StopNode(c) ==
  /\ cpc[c] = "idle" /\ running
  /\ Goto(c, "takeAll")
  /\ UNCHANGED <<slot, running, closed, sessVars, stop, csess>>

\* Where each call goes on after the stop_ping in it.
After == [replace |-> "spawn", take |-> "idle", takeAll |-> "close"]
Joining == [replace |-> "joinReplace", take |-> "join", takeAll |-> "joinAll"]
JoinStates == {Joining[x] : x \in DOMAIN Joining}

\* stop_ping takes the session and fires its stop.
Take(c) ==
  /\ cpc[c] \in DOMAIN After
  /\ slot' = 0
  /\ \/ slot = 0 /\ Goto(c, After[cpc[c]]) /\ UNCHANGED <<stop, csess>>
     \/ /\ slot # 0 /\ Goto(c, Joining[cpc[c]])
        /\ stop' = [stop EXCEPT ![slot] = "fired"]
        /\ csess' = [csess EXCEPT ![c] = slot]
  /\ UNCHANGED <<running, closed, sessVars>>

\* PING_STOP_GRACE passed: the task is aborted at its next await (or before
\* its first poll).
JoinAborts(c) ==
  /\ cpc[c] \in JoinStates /\ csess[c] # 0
  /\ pc[csess[c]] \in {"open", "send", "recv", "sleep"}
  /\ pc' = [pc EXCEPT ![csess[c]] = "ended"]
  /\ asked' = [asked EXCEPT ![csess[c]] = {}]
  /\ UNCHANGED <<slot, running, closed, seq, sent, oks, reports, done, stop, cpc, csess>>

\* Mutant: the stop is fired and the task left alone.
JoinedAtOnce(c) ==
  /\ cpc[c] \in JoinStates
  /\ \E x \in DOMAIN Joining : Joining[x] = cpc[c] /\ Goto(c, After[x])
  /\ csess' = [csess EXCEPT ![c] = 0]
  /\ UNCHANGED <<slot, running, closed, sessVars, stop>>

\* The task has ended.
Joined(c) ==
  /\ cpc[c] \in JoinStates /\ csess[c] \notin LiveSessions
  /\ \E x \in DOMAIN Joining : Joining[x] = cpc[c] /\ Goto(c, After[x])
  /\ csess' = [csess EXCEPT ![c] = 0]
  /\ UNCHANGED <<slot, running, closed, sessVars, stop>>

\* The new session's task.
SpawnSession(c) ==
  /\ cpc[c] = "spawn"
  /\ \E s \in Sessions :
       /\ pc[s] = "none" /\ \A x \in Sessions : x < s => pc[x] # "none"
       /\ pc' = [pc EXCEPT ![s] = "open"]
       /\ csess' = [csess EXCEPT ![c] = s]
  /\ Goto(c, "store")
  /\ UNCHANGED <<slot, running, closed, seq, sent, asked, oks, reports, done, stop>>

\* Mutant: the session the store drops is not told.
StoreSessionSilent(c) ==
  /\ cpc[c] = "store"
  /\ slot' = csess[c]
  /\ csess' = [csess EXCEPT ![c] = 0]
  /\ Goto(c, "idle")
  /\ UNCHANGED <<running, closed, sessVars, stop>>

\* The store drops a session another start_ping stored meanwhile, and with it
\* the sender of its stop.
StoreSession(c) ==
  /\ cpc[c] = "store"
  /\ slot' = csess[c]
  /\ stop' = [s \in Sessions |-> IF s = slot THEN "dropped" ELSE stop[s]]
  /\ csess' = [csess EXCEPT ![c] = 0]
  /\ Goto(c, "idle")
  /\ UNCHANGED <<running, closed, sessVars>>

\* The rest of stop(): the node is taken and its netstack shut down.
CloseNode(c) ==
  /\ cpc[c] = "close"
  /\ running' = FALSE /\ closed' = TRUE
  /\ Goto(c, "idle")
  /\ UNCHANGED <<slot, sessVars, stop, csess>>

-----------------------------------------------------------------------------
Session(s) ==
  \/ OpenIcmp(s) \/ LoopTop(s) \/ SendEcho(s) \/ (\E n \in Seqs : RecvReply(s, n))
  \/ ProbeTimeout(s) \/ RecvFails(s) \/ Sleep(s) \/ Wake(s) \/ StopSeen(s)

Proceed(c) ==
  Take(c) \/ JoinAborts(c) \/ Joined(c) \/ SpawnSession(c) \/ StoreSession(c)
    \/ CloseNode(c)

Next ==
  \/ \E s \in Sessions : Session(s)
  \/ \E c \in Callers : StartPing(c) \/ StopPing(c) \/ StopNode(c) \/ Proceed(c)

Spec == Init /\ [][Next]_vars

-----------------------------------------------------------------------------
(* Properties *)

\* The types; and no session sends, or reports, more than Count probes.
TypeOK ==
  /\ slot \in Sessions \cup {0} /\ running \in BOOLEAN /\ closed \in BOOLEAN
  /\ pc \in [Sessions -> {"none", "open", "loop", "send", "recv", "next", "sleep", "ended"}]
  /\ seq \in [Sessions -> Seqs]
  /\ sent \in [Sessions -> 0..Count] /\ reports \in [Sessions -> 0..Count]
  /\ asked \in [Sessions -> SUBSET Seqs] /\ oks \in [Sessions -> SUBSET Seqs]
  /\ done \in [Sessions -> {"no", "completed", "stopped", "failed"}]
  /\ stop \in [Sessions -> {"no", "fired", "dropped"}]
  /\ cpc \in [Callers -> {"idle", "spawn", "store", "close"} \cup JoinStates
                           \cup DOMAIN After]
  /\ csess \in [Callers -> Sessions \cup {0}]

\* A probe is reported as answered only on its own reply: a late reply to an
\* earlier probe never gives the next one its round trip time.
OkMeansAnswered ==
  \A s \in Sessions : oks[s] \cap asked[s] = {}

\* Every probe but the one in flight is reported exactly once: a stop, a failure
\* or an abort leaves at most one probe unreported, and a session that completed
\* reported all that start_ping was asked for.
EachProbeReported ==
  \A s \in Sessions :
    /\ sent[s] - reports[s] \in {0, 1}
    /\ done[s] = "completed" => reports[s] = Count

\* Every session can be stopped: the slot or a call in progress has its handle,
\* or it was told to stop, the one a racing start_ping pushed out of the slot
\* too, which no later stop_ping reaches.
NoStraySession ==
  \A s \in LiveSessions :
    slot = s \/ stop[s] # "no" \/ \E c \in Callers : csess[c] = s

\* "so no callback event can race a newly started session" (on PingSession):
\* a session some stop_ping took is over once that call, or the start_ping or
\* stop() it is part of, goes on.
TakenIsJoined ==
  \A s \in LiveSessions :
    stop[s] = "fired" => \E c \in Callers : csess[c] = s /\ cpc[c] \in JoinStates
=============================================================================
