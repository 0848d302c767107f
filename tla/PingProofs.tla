----------------------------- MODULE PingProofs -----------------------------
(***************************************************************************)
(* For every number of callers, sessions, probes and sequence numbers: the *)
(* accounts of a ping session are exact, and no session escapes the calls  *)
(* that start, stop and replace it.                                        *)
(***************************************************************************)
EXTENDS Ping, TLAPS

\* The probes of a session: one is unreported exactly while it is in flight,
\* or was when the session was stopped; a probe is sent only if one is left.
Counted ==
  \A s \in Sessions :
    /\ pc[s] = "send" => ~Exhausted(sent[s])
    /\ pc[s] \notin {"recv", "ended"} => sent[s] = reports[s]
    /\ pc[s] = "recv" => sent[s] = Count1(reports[s])
    /\ sent[s] - reports[s] \in {0, 1}
    /\ done[s] = "completed" => pc[s] = "ended" /\ reports[s] = Count

\* The handles of sessions: a call has one between spawn and store, and while it
\* joins; no session has two handles.
Handled ==
  /\ \A c \in Callers : csess[c] # 0 <=> cpc[c] \in JoinStates \cup {"store"}
  /\ \A c, d \in Callers : csess[c] # 0 /\ csess[c] = csess[d] => c = d
  /\ \A c \in Callers : csess[c] # 0 => csess[c] # slot

\* A session whose handle was neither taken nor dropped was not told to stop.
Untold ==
  /\ \A s \in Sessions : pc[s] = "none" =>
       stop[s] = "no" /\ slot # s /\ \A c \in Callers : csess[c] # s
  /\ slot # 0 => stop[slot] = "no"
  /\ \A c \in Callers : cpc[c] = "store" => stop[csess[c]] = "no"

IInv == TypeOK /\ Counted /\ OkMeansAnswered /\ Handled /\ Untold /\ NoStraySession /\ TakenIsJoined

\* The calls that contain a stop_ping, and where they wait and go on.
LEMMA Calls ==
  /\ DOMAIN After = {"replace", "take", "takeAll"} /\ DOMAIN Joining = DOMAIN After
  /\ JoinStates = {"joinReplace", "join", "joinAll"}
  /\ \A x \in DOMAIN After : Joining[x] \in JoinStates /\ After[x] \in {"spawn", "idle", "close"}
  /\ 0 \notin Sessions
<1>1. DOMAIN After = {"replace", "take", "takeAll"} /\ DOMAIN Joining = DOMAIN After
  BY DEF After, Joining
<1>2. JoinStates = {"joinReplace", "join", "joinAll"}
  BY DEF JoinStates, Joining
<1>3. \A x \in DOMAIN After : Joining[x] \in JoinStates /\ After[x] \in {"spawn", "idle", "close"}
  BY DEF After, Joining, JoinStates
<1>4. 0 \notin Sessions
  BY DEF Sessions
<1> QED
  BY <1>1, <1>2, <1>3, <1>4

\* A session starts with nothing sent and nobody who holds it.
LEMMA InitIInv == Init => IInv
<1> SUFFICES ASSUME Init PROVE IInv
    OBVIOUS
<1>1. TypeOK
  <2>1. 0 \in Seqs /\ 0 \in 0..Count
    <3>1. SeqMod \in Nat /\ SeqMod > 0 /\ Count \in Nat
      BY CountAssumption
    <3> QED
      BY <3>1 DEF Seqs
  <2> QED
    BY <2>1 DEF Init, TypeOK
<1>2. Counted /\ OkMeansAnswered
  BY DEF Init, Counted, OkMeansAnswered
<1>3. Handled /\ Untold
  BY Calls DEF Init, Handled, Untold
<1>4. NoStraySession /\ TakenIsJoined
  BY DEF Init, NoStraySession, TakenIsJoined, LiveSessions
<1> QED
  BY <1>1, <1>2, <1>3, <1>4 DEF IInv

\* The counter of a session that is to end stays within its bound, and no
\* counter moves in a session without end.
LEMMA Count1Type ==
  ASSUME NEW n \in 0..Count
  PROVE  /\ Count1(n) \in Nat /\ Count1(n) - n \in {0, 1}
         /\ ~Exhausted(n) => Count1(n) \in 0..Count
         /\ Exhausted(n) => n = Count
BY CountAssumption DEF Count1, Exhausted

\* A step of run_ping concerns its own session, which was running.
LEMMA SessionFacts ==
  ASSUME IInv, NEW s \in Sessions, Session(s)
  PROVE  /\ UNCHANGED callerVars
         /\ pc[s] \notin {"none", "ended"} /\ pc'[s] # "none"
         /\ \A x \in Sessions \ {s} : pc'[x] = pc[x]
<1>1. pc \in [Sessions -> {"none", "open", "loop", "send", "recv", "next", "sleep", "ended"}]
  BY DEF IInv, TypeOK
<1>2. UNCHANGED callerVars
  BY DEF Session, OpenIcmp, LoopTop, SendEcho, RecvReply, ProbeTimeout, RecvFails,
         Sleep, Wake, StopSeen
<1>3. pc[s] \notin {"none", "ended"}
  BY DEF Session, OpenIcmp, LoopTop, SendEcho, RecvReply, ProbeTimeout, RecvFails,
         Sleep, Wake, StopSeen, Finish, Step
<1>4. \/ pc' = pc
      \/ \E to \in {"loop", "send", "recv", "next", "sleep", "ended"} :
           pc' = [pc EXCEPT ![s] = to]
  BY DEF Session, OpenIcmp, LoopTop, SendEcho, RecvReply, ProbeTimeout, RecvFails,
         Sleep, Wake, StopSeen, Finish, Step
<1> QED
  BY <1>1, <1>2, <1>3, <1>4

\* Ending a session leaves its counters as they are.
LEMMA FinishFacts ==
  ASSUME IInv, NEW s \in Sessions, NEW from \in {"open", "loop", "send", "recv", "sleep"},
         NEW reason \in {"completed", "stopped", "failed"}, Finish(s, from, reason),
         reason = "completed" => from = "loop" /\ Exhausted(sent[s])
  PROVE  /\ pc' \in [Sessions -> {"none", "open", "loop", "send", "recv", "next", "sleep", "ended"}]
         /\ done' \in [Sessions -> {"no", "completed", "stopped", "failed"}]
         /\ asked' \in [Sessions -> SUBSET Seqs]
         /\ UNCHANGED <<seq, sent, oks, reports>>
         /\ Counted' /\ OkMeansAnswered'
<1>1. /\ pc' \in [Sessions -> {"none", "open", "loop", "send", "recv", "next", "sleep", "ended"}]
      /\ done' \in [Sessions -> {"no", "completed", "stopped", "failed"}]
      /\ asked' \in [Sessions -> SUBSET Seqs]
      /\ UNCHANGED <<seq, sent, oks, reports>>
  BY DEF Finish, Step, IInv, TypeOK
<1>2. \A x \in Sessions : /\ x # s => pc'[x] = pc[x] /\ done'[x] = done[x] /\ asked'[x] = asked[x]
                          /\ x = s => pc'[x] = "ended" /\ done'[x] = reason /\ asked'[x] = {}
  BY DEF Finish, Step, IInv, TypeOK
<1>3. reason = "completed" => reports[s] = Count
  <2>1. pc[s] = from
    BY DEF Finish, Step
  <2>2. sent[s] \in 0..Count
    BY DEF IInv, TypeOK
  <2> QED
    BY <2>1, <2>2, Count1Type DEF IInv, Counted
<1>4. Counted'
  BY <1>1, <1>2, <1>3 DEF IInv, Counted
<1>5. OkMeansAnswered'
  BY <1>1, <1>2 DEF IInv, OkMeansAnswered
<1> QED
  BY <1>1, <1>4, <1>5

\* Moving on without sending, receiving or reporting.
LEMMA StepFacts ==
  ASSUME IInv, NEW s \in Sessions,
         NEW from \in {"open", "loop", "next", "sleep"},
         NEW to \in {"loop", "send", "sleep"}, Step(s, from, to),
         to = "send" => ~Exhausted(sent[s]),
         seq' \in [Sessions -> Seqs],
         UNCHANGED <<sent, asked, oks, reports, done, callerVars>>
  PROVE  TypeOK' /\ Counted' /\ OkMeansAnswered'
<1>2. /\ pc' \in [Sessions -> {"none", "open", "loop", "send", "recv", "next", "sleep", "ended"}]
      /\ \A x \in Sessions : pc'[x] = IF x = s THEN to ELSE pc[x]
      /\ pc[s] = from
  BY DEF Step, IInv, TypeOK
<1>3. TypeOK'
  BY <1>2 DEF IInv, TypeOK, callerVars
<1>4. Counted'
  BY <1>2 DEF IInv, Counted
<1>5. OkMeansAnswered'
  BY DEF IInv, OkMeansAnswered
<1> QED
  BY <1>3, <1>4, <1>5

\* Sequence numbers wrap around.
LEMMA SeqType ==
  ASSUME NEW n \in Seqs
  PROVE  (n + 1) % SeqMod \in Seqs
<1>1. SeqMod \in Nat /\ SeqMod > 0 /\ n + 1 \in Nat
  BY CountAssumption DEF Seqs
<1>2. (n + 1) % SeqMod \in 0..(SeqMod - 1)
  BY <1>1
<1> QED
  BY <1>2 DEF Seqs

\* The accounts of a session through every step of run_ping.
LEMMA SessionAccounts ==
  ASSUME IInv, NEW s \in Sessions, Session(s)
  PROVE  TypeOK' /\ Counted' /\ OkMeansAnswered'
<1>1. UNCHANGED callerVars
  BY SessionFacts
\* Whatever ends the session.
<1>2. ASSUME NEW from \in {"open", "loop", "send", "recv", "sleep"},
             NEW reason \in {"completed", "stopped", "failed"}, Finish(s, from, reason),
             reason = "completed" => from = "loop" /\ Exhausted(sent[s])
      PROVE  TypeOK' /\ Counted' /\ OkMeansAnswered'
  BY <1>1, <1>2, FinishFacts DEF IInv, TypeOK, callerVars
<1>3. CASE OpenIcmp(s)
  <2>1. CASE Finish(s, "open", "failed")
    BY <1>2, <2>1
  <2>2. CASE Step(s, "open", "loop") /\ UNCHANGED <<seq, sent, asked, oks, reports, done>>
    BY <1>1, <2>2, StepFacts DEF IInv, TypeOK
  <2> QED
    BY <1>3, <2>1, <2>2 DEF OpenIcmp
<1>4. CASE LoopTop(s)
  <2>1. CASE Exhausted(sent[s]) /\ Finish(s, "loop", "completed")
    BY <1>2, <2>1
  <2>2. CASE /\ ~Exhausted(sent[s]) /\ Step(s, "loop", "send")
             /\ seq' = [seq EXCEPT ![s] = (@ + 1) % SeqMod]
             /\ UNCHANGED <<sent, asked, oks, reports, done>>
    <3>1. seq' \in [Sessions -> Seqs]
      BY <2>2, SeqType DEF IInv, TypeOK
    <3> QED
      BY <1>1, <2>2, <3>1, StepFacts
  <2> QED
    BY <1>4, <2>1, <2>2 DEF LoopTop
<1>5. CASE SendEcho(s)
  <2>1. CASE Finish(s, "send", "failed")
    BY <1>2, <2>1
  <2>2. CASE /\ Step(s, "send", "recv")
             /\ sent' = [sent EXCEPT ![s] = Count1(@)]
             /\ asked' = [asked EXCEPT ![s] = @ \cup {seq[s]}]
             /\ oks' = [oks EXCEPT ![s] = @ \ {seq[s]}]
             /\ UNCHANGED <<seq, reports, done>>
    <3>1. /\ pc' \in [Sessions -> {"none", "open", "loop", "send", "recv", "next", "sleep", "ended"}]
          /\ pc[s] = "send" /\ \A x \in Sessions : pc'[x] = IF x = s THEN "recv" ELSE pc[x]
      BY <2>2 DEF Step, IInv, TypeOK
    <3>2. sent[s] \in 0..Count /\ ~Exhausted(sent[s]) /\ sent[s] = reports[s]
      BY <3>1 DEF IInv, TypeOK, Counted
    <3>3. Count1(sent[s]) \in 0..Count /\ Count1(sent[s]) - sent[s] \in {0, 1}
      BY <3>2, Count1Type
    <3>4. /\ sent' \in [Sessions -> 0..Count]
          /\ \A x \in Sessions : sent'[x] = IF x = s THEN Count1(sent[s]) ELSE sent[x]
      BY <2>2, <3>3 DEF IInv, TypeOK
    <3>5. /\ asked' \in [Sessions -> SUBSET Seqs] /\ oks' \in [Sessions -> SUBSET Seqs]
      BY <2>2 DEF IInv, TypeOK
    <3>6. TypeOK'
      BY <1>1, <2>2, <3>1, <3>4, <3>5 DEF IInv, TypeOK, callerVars
    <3>7. Counted'
      BY <2>2, <3>1, <3>2, <3>3, <3>4 DEF IInv, TypeOK, Counted
    <3>8. OkMeansAnswered'
      BY <2>2 DEF IInv, TypeOK, OkMeansAnswered
    <3> QED
      BY <3>6, <3>7, <3>8
  <2> QED
    BY <1>5, <2>1, <2>2 DEF SendEcho
\* A probe is reported: answered or timed out.
<1>6. ASSUME Step(s, "recv", "next"),
             reports' = [reports EXCEPT ![s] = Count1(@)],
             asked' \in [Sessions -> SUBSET Seqs], oks' \in [Sessions -> SUBSET Seqs],
             UNCHANGED <<seq, sent, done>>
      PROVE  TypeOK' /\ Counted'
  <2>1. /\ pc' \in [Sessions -> {"none", "open", "loop", "send", "recv", "next", "sleep", "ended"}]
        /\ pc[s] = "recv" /\ \A x \in Sessions : pc'[x] = IF x = s THEN "next" ELSE pc[x]
    BY <1>6 DEF Step, IInv, TypeOK
  <2>2. sent[s] \in 0..Count /\ sent[s] = Count1(reports[s])
    BY <2>1 DEF IInv, TypeOK, Counted
  <2>3. /\ reports' \in [Sessions -> 0..Count]
        /\ \A x \in Sessions : reports'[x] = IF x = s THEN sent[s] ELSE reports[x]
    BY <1>6, <2>2 DEF IInv, TypeOK
  <2>4. TypeOK'
    BY <1>1, <1>6, <2>1, <2>3 DEF IInv, TypeOK, callerVars
  <2>5. Counted'
    <3>1. sent[s] - sent[s] = 0
      BY <2>2
    <3> QED
      BY <1>6, <2>1, <2>3, <3>1 DEF IInv, TypeOK, Counted
  <2> QED
    BY <2>4, <2>5
<1>7. ASSUME NEW n \in Seqs, RecvReply(s, n)
      PROVE  TypeOK' /\ Counted' /\ OkMeansAnswered'
  <2>1. asked' \in [Sessions -> SUBSET Seqs] /\ asked' = [asked EXCEPT ![s] = @ \ {n}]
    BY <1>7 DEF RecvReply, IInv, TypeOK
  <2>2. CASE ~Answers(s, n) /\ UNCHANGED <<pc, oks, reports>>
    <3>1. TypeOK'
      BY <1>1, <1>7, <2>1, <2>2 DEF RecvReply, IInv, TypeOK, callerVars
    <3>2. Counted'
      BY <1>7, <2>2 DEF RecvReply, IInv, Counted
    <3>3. OkMeansAnswered'
      BY <2>1, <2>2 DEF IInv, TypeOK, OkMeansAnswered
    <3> QED
      BY <3>1, <3>2, <3>3
  <2>3. CASE /\ Answers(s, n)
             /\ Step(s, "recv", "next")
             /\ oks' = [oks EXCEPT ![s] = @ \cup {seq[s]}]
             /\ reports' = [reports EXCEPT ![s] = Count1(@)]
    <3>1. oks' \in [Sessions -> SUBSET Seqs]
      BY <2>3 DEF IInv, TypeOK
    <3>2. TypeOK' /\ Counted'
      BY <1>6, <1>7, <2>1, <2>3, <3>1 DEF RecvReply
    <3>3. OkMeansAnswered'
      BY <2>1, <2>3 DEF IInv, TypeOK, OkMeansAnswered, Answers
    <3> QED
      BY <3>2, <3>3
  <2> QED
    BY <1>7, <2>2, <2>3 DEF RecvReply
<1>8. CASE ProbeTimeout(s)
  <2>1. TypeOK' /\ Counted'
    BY <1>6, <1>8 DEF ProbeTimeout, IInv, TypeOK
  <2>2. OkMeansAnswered'
    BY <1>8 DEF ProbeTimeout, IInv, OkMeansAnswered
  <2> QED
    BY <2>1, <2>2
<1>9. CASE RecvFails(s) \/ StopSeen(s)
  BY <1>2, <1>9 DEF RecvFails, StopSeen
<1>10. CASE Sleep(s) \/ Wake(s)
  <2>1. PICK from \in {"next", "sleep"}, to \in {"loop", "sleep"} : Step(s, from, to)
    BY <1>10 DEF Sleep, Wake
  <2> QED
    BY <1>1, <1>10, <2>1, StepFacts DEF Sleep, Wake, IInv, TypeOK
<1> QED
  BY <1>3, <1>4, <1>5, <1>7, <1>8, <1>9, <1>10 DEF Session

\* A step of run_ping disturbs no handle, and starts no session.
LEMMA SessionIInv ==
  ASSUME IInv, NEW s \in Sessions, Session(s)
  PROVE  IInv'
<1>1. /\ UNCHANGED <<slot, stop, cpc, csess>>
      /\ pc[s] \notin {"none", "ended"} /\ pc'[s] # "none"
      /\ \A x \in Sessions \ {s} : pc'[x] = pc[x]
  BY SessionFacts DEF callerVars
<1>2. LiveSessions' \subseteq LiveSessions
  BY <1>1 DEF LiveSessions
<1>3. Handled' /\ Untold'
  BY <1>1 DEF IInv, Handled, Untold
<1>4. NoStraySession' /\ TakenIsJoined'
  BY <1>1, <1>2 DEF IInv, NoStraySession, TakenIsJoined
<1> QED
  BY <1>3, <1>4, SessionAccounts DEF IInv

\* The first step of a call.
LEMMA CallIInv ==
  ASSUME IInv, NEW c \in Callers, StartPing(c) \/ StopPing(c) \/ StopNode(c)
  PROVE  IInv'
<1>1. /\ cpc[c] = "idle"
      /\ \E x \in DOMAIN After : cpc' = [cpc EXCEPT ![c] = x]
      /\ UNCHANGED <<slot, running, closed, sessVars, stop, csess>>
  BY Calls DEF StartPing, StopPing, StopNode, Goto
<1>2. /\ cpc' \in [Callers -> {"idle", "spawn", "store", "close"} \cup JoinStates
                                \cup DOMAIN After]
      /\ \A d \in Callers : /\ cpc'[d] \in JoinStates <=> cpc[d] \in JoinStates
                            /\ cpc'[d] = "store" <=> cpc[d] = "store"
  BY <1>1, Calls DEF IInv, TypeOK
<1>3. TypeOK'
  BY <1>1, <1>2 DEF IInv, TypeOK, sessVars
<1>4. Counted' /\ OkMeansAnswered'
  BY <1>1 DEF IInv, Counted, OkMeansAnswered, sessVars
<1>5. Handled' /\ Untold'
  BY <1>1, <1>2 DEF IInv, Handled, Untold, sessVars
<1>6. NoStraySession' /\ TakenIsJoined'
  BY <1>1, <1>2 DEF IInv, NoStraySession, TakenIsJoined, LiveSessions, sessVars
<1> QED
  BY <1>3, <1>4, <1>5, <1>6 DEF IInv

\* stop_ping takes the session of the slot: the caller holds it from here on.
LEMMA TakeIInv ==
  ASSUME IInv, NEW c \in Callers, Take(c)
  PROVE  IInv'
<1>1. csess[c] = 0
  BY Calls DEF Take, IInv, Handled
<1>2. Counted' /\ OkMeansAnswered'
  BY DEF Take, IInv, Counted, OkMeansAnswered, sessVars
<1>3. UNCHANGED <<running, closed, pc, seq, sent, asked, oks, reports, done>> /\ slot' = 0
  BY DEF Take, sessVars
<1>4. CASE slot = 0 /\ Goto(c, After[cpc[c]]) /\ UNCHANGED <<stop, csess>>
  <2>1. \E x \in {"spawn", "idle", "close"} : cpc' = [cpc EXCEPT ![c] = x]
    BY <1>4, Calls DEF Goto, Take
  <2>2. /\ cpc' \in [Callers -> {"idle", "spawn", "store", "close"} \cup JoinStates
                                  \cup DOMAIN After]
        /\ \A d \in Callers : /\ cpc'[d] \in JoinStates <=> cpc[d] \in JoinStates
                              /\ cpc'[d] = "store" <=> cpc[d] = "store"
    BY <2>1, Calls DEF IInv, TypeOK, Take
  <2>3. TypeOK'
    BY <1>3, <1>4, <2>2 DEF IInv, TypeOK
  <2>4. Handled' /\ Untold'
    BY <1>3, <1>4, <2>2 DEF IInv, Handled, Untold
  <2>5. NoStraySession' /\ TakenIsJoined'
    BY <1>3, <1>4, <2>2 DEF IInv, NoStraySession, TakenIsJoined, LiveSessions
  <2> QED
    BY <1>2, <2>3, <2>4, <2>5 DEF IInv
<1>5. CASE /\ slot # 0 /\ Goto(c, Joining[cpc[c]])
           /\ stop' = [stop EXCEPT ![slot] = "fired"]
           /\ csess' = [csess EXCEPT ![c] = slot]
  <2>1. slot \in Sessions /\ cpc[c] \in DOMAIN After /\ Joining[cpc[c]] \in JoinStates
    BY <1>5, Calls DEF IInv, TypeOK, Take
  <2>2. /\ cpc' \in [Callers -> {"idle", "spawn", "store", "close"} \cup JoinStates
                                  \cup DOMAIN After]
        /\ cpc'[c] \in JoinStates /\ \A d \in Callers \ {c} : cpc'[d] = cpc[d]
    BY <1>5, <2>1 DEF Goto, IInv, TypeOK
  <2>3. /\ csess' \in [Callers -> Sessions \cup {0}]
        /\ \A d \in Callers : csess'[d] = IF d = c THEN slot ELSE csess[d]
        /\ stop' \in [Sessions -> {"no", "fired", "dropped"}]
        /\ \A s \in Sessions : stop'[s] = IF s = slot THEN "fired" ELSE stop[s]
    BY <1>5, <2>1 DEF IInv, TypeOK
  <2>4. TypeOK'
    BY <1>3, <2>2, <2>3 DEF IInv, TypeOK
  <2>5. Handled'
    BY <1>1, <1>3, <1>5, <2>1, <2>2, <2>3 DEF IInv, Handled
  <2>6. Untold'
    <3>1. \A d \in Callers : cpc'[d] = "store" => d # c /\ csess[d] # slot /\ csess[d] \in Sessions
      BY <2>2, Calls DEF IInv, TypeOK, Handled
    <3> QED
      BY <1>3, <1>5, <2>1, <2>2, <2>3, <3>1, Calls DEF IInv, Untold
  <2>7. NoStraySession' /\ TakenIsJoined'
    <3>1. LiveSessions' = LiveSessions
      BY <1>3 DEF LiveSessions
    <3>2. \A d \in Callers : csess[d] # 0 => d # c /\ csess'[d] = csess[d] /\ cpc'[d] = cpc[d]
      BY <1>1, <2>2, <2>3
    <3>3. LiveSessions \subseteq Sessions
      BY DEF LiveSessions
    <3>4. NoStraySession'
      BY <2>3, <3>1, <3>2, <3>3, Calls DEF IInv, NoStraySession
    <3>5. TakenIsJoined'
      BY <2>2, <2>3, <3>1, <3>2, <3>3, Calls DEF IInv, TakenIsJoined
    <3> QED
      BY <3>4, <3>5
  <2> QED
    BY <1>2, <2>4, <2>5, <2>6, <2>7 DEF IInv
<1> QED
  BY <1>4, <1>5 DEF Take

\* The task that outlives the grace is aborted.
LEMMA JoinAbortsIInv ==
  ASSUME IInv, NEW c \in Callers, JoinAborts(c)
  PROVE  IInv'
<1> DEFINE s == csess[c]
<1>1. s \in Sessions /\ pc[s] \in {"open", "send", "recv", "sleep"}
  BY DEF JoinAborts, IInv, TypeOK
<1>2. /\ \A x \in Sessions : pc'[x] = IF x = s THEN "ended" ELSE pc[x]
      /\ \A x \in Sessions : asked'[x] = IF x = s THEN {} ELSE asked[x]
      /\ UNCHANGED <<slot, running, closed, seq, sent, oks, reports, done, stop, cpc, csess>>
  BY DEF JoinAborts, IInv, TypeOK
<1>3. TypeOK'
  BY <1>1, <1>2 DEF JoinAborts, IInv, TypeOK
<1>4. Counted' /\ OkMeansAnswered'
  BY <1>1, <1>2 DEF IInv, Counted, OkMeansAnswered
<1>5. Handled' /\ Untold'
  BY <1>1, <1>2 DEF IInv, Handled, Untold
<1>6. LiveSessions' \subseteq LiveSessions
  BY <1>2 DEF LiveSessions
<1>7. NoStraySession' /\ TakenIsJoined'
  BY <1>2, <1>6 DEF IInv, NoStraySession, TakenIsJoined
<1> QED
  BY <1>3, <1>4, <1>5, <1>7 DEF IInv

\* The caller lets go of a session that has ended.
LEMMA JoinedIInv ==
  ASSUME IInv, NEW c \in Callers, Joined(c)
  PROVE  IInv'
<1>1. /\ csess[c] \notin LiveSessions
      /\ UNCHANGED <<slot, running, closed, stop, pc, seq, sent, asked, oks, reports, done>>
      /\ csess' = [csess EXCEPT ![c] = 0]
  BY DEF Joined, sessVars
<1>2. \E x \in {"spawn", "idle", "close"} : cpc' = [cpc EXCEPT ![c] = x]
  BY Calls DEF Joined, Goto
<1>3. /\ cpc' \in [Callers -> {"idle", "spawn", "store", "close"} \cup JoinStates
                                \cup DOMAIN After]
      /\ cpc'[c] \notin JoinStates \cup {"store"}
      /\ \A d \in Callers \ {c} : cpc'[d] = cpc[d]
  BY <1>2, Calls DEF IInv, TypeOK
<1>4. /\ csess' \in [Callers -> Sessions \cup {0}]
      /\ \A d \in Callers : csess'[d] = IF d = c THEN 0 ELSE csess[d]
  BY <1>1 DEF IInv, TypeOK
<1>5. TypeOK'
  BY <1>1, <1>3, <1>4 DEF IInv, TypeOK
<1>6. Counted' /\ OkMeansAnswered'
  BY <1>1 DEF IInv, Counted, OkMeansAnswered
<1>7. Handled' /\ Untold'
  BY <1>1, <1>3, <1>4, Calls DEF IInv, Handled, Untold
<1>8. NoStraySession' /\ TakenIsJoined'
  <2>1. LiveSessions' = LiveSessions /\ LiveSessions \subseteq Sessions
    BY <1>1 DEF LiveSessions
  <2> QED
    BY <1>1, <1>3, <1>4, <2>1 DEF IInv, NoStraySession, TakenIsJoined
<1> QED
  BY <1>5, <1>6, <1>7, <1>8 DEF IInv

\* A new session is the caller's until it is stored.
LEMMA SpawnSessionIInv ==
  ASSUME IInv, NEW c \in Callers, SpawnSession(c)
  PROVE  IInv'
<1>1. PICK s \in Sessions : /\ pc[s] = "none"
                            /\ pc' = [pc EXCEPT ![s] = "open"]
                            /\ csess' = [csess EXCEPT ![c] = s]
  BY DEF SpawnSession
<1>2. /\ csess[c] = 0 /\ cpc[c] = "spawn"
      /\ stop[s] = "no" /\ slot # s /\ \A d \in Callers : csess[d] # s
  BY <1>1, Calls DEF SpawnSession, IInv, Handled, Untold
<1>3. UNCHANGED <<slot, running, closed, seq, sent, asked, oks, reports, done, stop>>
  BY DEF SpawnSession
<1>4. /\ cpc' \in [Callers -> {"idle", "spawn", "store", "close"} \cup JoinStates
                                \cup DOMAIN After]
      /\ cpc'[c] = "store" /\ \A d \in Callers \ {c} : cpc'[d] = cpc[d]
  BY DEF SpawnSession, Goto, IInv, TypeOK
<1>5. /\ csess' \in [Callers -> Sessions \cup {0}]
      /\ \A d \in Callers : csess'[d] = IF d = c THEN s ELSE csess[d]
      /\ pc' \in [Sessions -> {"none", "open", "loop", "send", "recv", "next", "sleep", "ended"}]
      /\ \A x \in Sessions : pc'[x] = IF x = s THEN "open" ELSE pc[x]
  BY <1>1 DEF IInv, TypeOK
<1>6. TypeOK'
  BY <1>3, <1>4, <1>5 DEF IInv, TypeOK
<1>7. Counted' /\ OkMeansAnswered'
  BY <1>1, <1>3, <1>5 DEF IInv, Counted, OkMeansAnswered
<1>8. Handled' /\ Untold'
  BY <1>1, <1>2, <1>3, <1>4, <1>5, Calls DEF IInv, Handled, Untold
<1>9. NoStraySession' /\ TakenIsJoined'
  <2>1. LiveSessions' = LiveSessions \cup {s}
    BY <1>5 DEF LiveSessions
  <2>2. \A d \in Callers : csess[d] # 0 => d # c /\ csess'[d] = csess[d] /\ cpc'[d] = cpc[d]
    BY <1>2, <1>4, <1>5
  <2>3. LiveSessions \subseteq Sessions
    BY DEF LiveSessions
  <2>4. NoStraySession'
    BY <1>3, <1>5, <2>1, <2>2, <2>3, Calls DEF IInv, NoStraySession
  <2>5. TakenIsJoined'
    BY <1>2, <1>3, <1>5, <2>1, <2>2, <2>3, Calls DEF IInv, TakenIsJoined
  <2> QED
    BY <2>4, <2>5
<1> QED
  BY <1>6, <1>7, <1>8, <1>9 DEF IInv

\* The store: the session it pushes out is told by the sender it drops.
LEMMA StoreSessionIInv ==
  ASSUME IInv, NEW c \in Callers, StoreSession(c)
  PROVE  IInv'
<1>1. /\ cpc[c] = "store" /\ csess[c] # 0 /\ csess[c] \in Sessions /\ csess[c] # slot
      /\ stop[csess[c]] = "no" /\ slot' = csess[c]
      /\ UNCHANGED <<running, closed, pc, seq, sent, asked, oks, reports, done>>
  BY DEF StoreSession, IInv, TypeOK, Handled, Untold, sessVars
<1>2. /\ cpc' \in [Callers -> {"idle", "spawn", "store", "close"} \cup JoinStates
                                \cup DOMAIN After]
      /\ cpc'[c] = "idle" /\ \A d \in Callers \ {c} : cpc'[d] = cpc[d]
  BY DEF StoreSession, Goto, IInv, TypeOK
<1>3. /\ csess' \in [Callers -> Sessions \cup {0}]
      /\ \A d \in Callers : csess'[d] = IF d = c THEN 0 ELSE csess[d]
      /\ stop' \in [Sessions -> {"no", "fired", "dropped"}]
      /\ \A s \in Sessions : stop'[s] = IF s = slot THEN "dropped" ELSE stop[s]
  BY DEF StoreSession, IInv, TypeOK
<1>4. TypeOK'
  BY <1>1, <1>2, <1>3 DEF IInv, TypeOK
<1>5. Counted' /\ OkMeansAnswered'
  BY <1>1 DEF IInv, Counted, OkMeansAnswered
<1>6. Handled'
  BY <1>1, <1>2, <1>3, Calls DEF IInv, Handled
<1>7. Untold'
  <2>1. \A d \in Callers : cpc'[d] = "store" => d # c /\ csess[d] # slot /\ csess[d] \in Sessions
    BY <1>2, Calls DEF IInv, TypeOK, Handled
  <2> QED
    BY <1>1, <1>2, <1>3, <2>1, Calls DEF IInv, Untold
<1>8. NoStraySession' /\ TakenIsJoined'
  <2>1. LiveSessions' = LiveSessions /\ LiveSessions \subseteq Sessions
    BY <1>1 DEF LiveSessions
  <2>2. NoStraySession'
    BY <1>1, <1>3, <2>1 DEF IInv, NoStraySession
  <2>3. TakenIsJoined'
    BY <1>1, <1>2, <1>3, <2>1, Calls DEF IInv, TakenIsJoined
  <2> QED
    BY <2>2, <2>3
<1> QED
  BY <1>4, <1>5, <1>6, <1>7, <1>8 DEF IInv

\* The end of stop() concerns no session's handle.
LEMMA CloseNodeIInv ==
  ASSUME IInv, NEW c \in Callers, CloseNode(c)
  PROVE  IInv'
<1>1. UNCHANGED <<slot, pc, seq, sent, asked, oks, reports, done, stop, csess>>
  BY DEF CloseNode, sessVars
<1>2. /\ cpc' \in [Callers -> {"idle", "spawn", "store", "close"} \cup JoinStates
                                \cup DOMAIN After]
      /\ \A d \in Callers : /\ cpc'[d] \in JoinStates <=> cpc[d] \in JoinStates
                            /\ cpc'[d] = "store" <=> cpc[d] = "store"
  BY Calls DEF CloseNode, Goto, IInv, TypeOK
<1>3. TypeOK'
  BY <1>1, <1>2 DEF CloseNode, IInv, TypeOK
<1>4. Counted' /\ OkMeansAnswered'
  BY <1>1 DEF IInv, Counted, OkMeansAnswered
<1>5. Handled' /\ Untold'
  BY <1>1, <1>2 DEF IInv, Handled, Untold
<1>6. NoStraySession' /\ TakenIsJoined'
  BY <1>1, <1>2 DEF IInv, NoStraySession, TakenIsJoined, LiveSessions
<1> QED
  BY <1>3, <1>4, <1>5, <1>6 DEF IInv

\* IInv is inductive.
LEMMA NextIInv == IInv /\ [Next]_vars => IInv'
<1> SUFFICES ASSUME IInv, [Next]_vars
             PROVE  IInv'
    OBVIOUS
<1>1. CASE UNCHANGED vars
  BY <1>1 DEF IInv, TypeOK, Counted, OkMeansAnswered, Handled, Untold, NoStraySession,
              TakenIsJoined, LiveSessions, vars, sessVars
<1>2. ASSUME NEW s \in Sessions, Session(s)
      PROVE  IInv'
  BY <1>2, SessionIInv
<1>3. ASSUME NEW c \in Callers, StartPing(c) \/ StopPing(c) \/ StopNode(c) \/ Proceed(c)
      PROVE  IInv'
  BY <1>3, CallIInv, TakeIInv, JoinAbortsIInv, JoinedIInv, SpawnSessionIInv,
     StoreSessionIInv, CloseNodeIInv DEF Proceed
<1> QED
  BY <1>1, <1>2, <1>3 DEF Next

\* The state of the sessions is always of its type: no session sends or reports
\* more probes than it was asked for.
THEOREM TypeCorrect == Spec => []TypeOK
<1>1. IInv => TypeOK
  BY DEF IInv
<1> QED
  BY <1>1, InitIInv, NextIInv, PTL DEF Spec

\* A probe reported as answered has no reply outstanding: late replies to
\* earlier probes are drained and never taken for the answer.
THEOREM OnlyOwnReplies == Spec => []OkMeansAnswered
<1>1. IInv => OkMeansAnswered
  BY DEF IInv
<1> QED
  BY <1>1, InitIInv, NextIInv, PTL DEF Spec

\* Every probe but the one in flight is reported exactly once, and a session
\* that completed reported as many as start_ping was asked for.
THEOREM ProbesAccounted == Spec => []EachProbeReported
<1>1. IInv => EachProbeReported
  BY DEF IInv, Counted, EachProbeReported
<1> QED
  BY <1>1, InitIInv, NextIInv, PTL DEF Spec

\* However start_ping, stop_ping and stop() interleave, every running session
\* can still be stopped or was told to stop.
THEOREM EverySessionReachable == Spec => []NoStraySession
<1>1. IInv => NoStraySession
  BY DEF IInv
<1> QED
  BY <1>1, InitIInv, NextIInv, PTL DEF Spec

\* A call goes on only when the session it took has ended.
THEOREM TakenSessionsJoined == Spec => []TakenIsJoined
<1>1. IInv => TakenIsJoined
  BY DEF IInv
<1> QED
  BY <1>1, InitIInv, NextIInv, PTL DEF Spec
=============================================================================
