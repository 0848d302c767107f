------------------------------ MODULE Resolver ------------------------------
(***************************************************************************)
(* Name lookups (resolver.rs): NameResolver::resolve, the exchange with    *)
(* one nameserver (dns_lookup_ipv6: datagram, retry, TCP) and, with two or *)
(* more of them, resolve_with_failover walking the list from the sticky    *)
(* cursor of FailoverState, which concurrent lookups share.  The cursor is *)
(* an atomic and the outage mark of the preferred server is behind its own *)
(* mutex, so each access to either is a step of its own.                   *)
(*                                                                         *)
(* A server answers a transport at once or not at all; a lost datagram is  *)
(* a server that is down for a moment.  An address and an authoritative    *)
(* "no record" are both answers, and handled alike.                        *)
(***************************************************************************)
EXTENDS Integers, FiniteSets

CONSTANTS
  N,           \* longest list of nameservers, server 0 is the preferred one
  TcpServers,  \* the ones that may take TCP
  Lookups      \* concurrent calls of resolve

ASSUME NAssumption == N \in Nat /\ N >= 2
ASSUME TcpAssumption == TcpServers \subseteq 0 .. (N - 1)

\* What a call is asked for: an address literal or a good .pk.ygg name, a
\* .pk.ygg name that is no key, and names whose answer fits a datagram, comes
\* back with the TC bit, or is longer than the receive buffer.
Direct == "direct"
BadKey == "badKey"
DnsNames == {"small", "truncated", "oversized"}
Names == DnsNames \cup {Direct, BadKey}

VARIABLES
  n,        \* length of NameResolver.nameservers
  up,       \* <<transport, server>> pairs that answer at the moment
  current,  \* FailoverState.current
  down,     \* FailoverState.preferred_down: "none", or "recent" or "due"
            \* for an instant less or more than retry_preferred_after ago
  pc,       \* control state of each lookup
  name,     \* what it looks up
  start,    \* the index its walk starts at
  i,        \* servers it has left behind
  steady    \* ways it could have been answered ever since it began (history)
walk == <<start, i>>
vars == <<n, up, current, down, pc, name, walk, steady>>

Servers == 0 .. (n - 1)

\* NameResolver::new keeps a FailoverState only for two or more servers.
Failover == n > 1

Services == ({"udp"} \X Servers) \cup ({"tcp"} \X (Servers \cap TcpServers))

Idx(l) == (start[l] + i[l]) % n

Init ==
  /\ n \in 0 .. N
  /\ up \in SUBSET Services
  /\ current = 0 /\ down = "none"
  /\ pc = [l \in Lookups |-> "idle"] /\ name = [l \in Lookups |-> Direct]
  /\ start = [l \in Lookups |-> 0] /\ i = [l \in Lookups |-> 0]
  /\ steady = [l \in Lookups |-> {}]

Goto(l, label) == pc' = [pc EXCEPT ![l] = label]

\* The ways to an answer for name k when the pairs in u answer: a server that
\* takes datagrams, and TCP too where the answer needs it; a server that takes
\* only TCP counts when it is the only one, see UdpSilent.
Ways(u, k) ==
  IF k \notin DnsNames THEN {}
  ELSE {w \in u : w[1] = "udp" /\ (k = "small" \/ <<"tcp", w[2]>> \in u)}
       \cup {w \in u : ~Failover /\ w[1] = "tcp"}

-----------------------------------------------------------------------------
(* resolve and start_index *)

\* The call, up to its first await or its first look at shared state: answers
\* that need no server, the empty list, the only server, or the load of the
\* cursor.
Resolve(l, k) ==
  /\ pc[l] \in {"idle", "answered", "failed"}
  /\ name' = [name EXCEPT ![l] = k]
  /\ steady' = [steady EXCEPT ![l] = Ways(up, k)]
  /\ start' = [start EXCEPT ![l] = IF k \in DnsNames THEN current ELSE 0]
  /\ i' = [i EXCEPT ![l] = 0]
  /\ Goto(l, CASE k = Direct -> "answered"
               [] k = BadKey \/ n = 0 -> "failed"
               [] OTHER -> IF current = 0 THEN "udp" ELSE "checkDown")
  /\ UNCHANGED <<n, up, current, down>>

\* Whether the preferred server is due for a new probe.
Due == down = "due"

\* The read of preferred_down.
CheckDown(l) ==
  /\ pc[l] = "checkDown"
  /\ Goto(l, IF Due THEN "reprobe" ELSE "udp")
  /\ UNCHANGED <<n, up, current, down, name, walk, steady>>

\* The store that sends everybody back to the preferred server.
Reprobe(l) ==
  /\ pc[l] = "reprobe"
  /\ current' = 0
  /\ start' = [start EXCEPT ![l] = 0]
  /\ Goto(l, "udp")
  /\ UNCHANGED <<n, up, down, name, i, steady>>

-----------------------------------------------------------------------------
(* dns_lookup_ipv6: the exchange with one server *)

\* What becomes of the exchange: with one server its outcome is the call's.
Succeeded == IF Failover THEN "success" ELSE "answered"
Failed(l) == IF ~Failover THEN "failed"
             ELSE IF Idx(l) = 0 THEN "markDown" ELSE "advance"

\* The second datagram follows an error of the first one, and TCP an error of
\* the second one.
AfterError(label) == IF label = "udp" THEN "udpRetry" ELSE "tcp"

\* A response arrives: it is whole, or has the TC bit, or overflows the buffer,
\* which recv_slice reports as an error.
UdpResponse(l) ==
  /\ pc[l] \in {"udp", "udpRetry"} /\ <<"udp", Idx(l)>> \in up
  /\ Goto(l, CASE name[l] = "small" -> Succeeded
               [] name[l] = "truncated" -> "tcp"
               [] OTHER -> AfterError(pc[l]))
  /\ UNCHANGED <<n, up, current, down, name, walk, steady>>

\* No response for 10 seconds.  That is ATTEMPT_TIMEOUT too, and its clock
\* started earlier: in a walk the attempt is over.
AfterSilence(l) == IF Failover THEN Failed(l) ELSE AfterError(pc[l])

UdpSilent(l) ==
  /\ pc[l] \in {"udp", "udpRetry"} /\ <<"udp", Idx(l)>> \notin up
  /\ Goto(l, AfterSilence(l))
  /\ UNCHANGED <<n, up, current, down, name, walk, steady>>

\* dns_lookup_tcp: connected, written and read; or refused, cut or too late.
TcpResponse(l) ==
  /\ pc[l] = "tcp"
  /\ Goto(l, IF <<"tcp", Idx(l)>> \in up THEN Succeeded ELSE Failed(l))
  /\ UNCHANGED <<n, up, current, down, name, walk, steady>>

-----------------------------------------------------------------------------
(* note_success and note_failure *)

\* note_success: the store, then for the preferred server the mark.
StoreCursor(l) ==
  /\ pc[l] = "success"
  /\ current' = Idx(l)
  /\ Goto(l, IF Idx(l) = 0 THEN "clearDown" ELSE "answered")
  /\ UNCHANGED <<n, up, down, name, walk, steady>>

ClearDown(l) ==
  /\ pc[l] = "clearDown"
  /\ down' = "none"
  /\ Goto(l, "answered")
  /\ UNCHANGED <<n, up, current, name, walk, steady>>

\* note_failure: the mark, which keeps the first instant of an outage.
MarkedDown(d) == IF d = "none" THEN "recent" ELSE d

MarkDown(l) ==
  /\ pc[l] = "markDown"
  /\ down' = MarkedDown(down)
  /\ Goto(l, "advance")
  /\ UNCHANGED <<n, up, current, name, walk, steady>>

StopsEarly(l) == i[l] + 2 >= n \* mutant: the walk leaves out the last server
Exhausted(l) == i[l] + 1 = n

SkipsAhead(idx) == (idx + 1) % (n + 1) \* mutant: wraps one past the end
NextServer(idx) == (idx + 1) % n

\* The compare-exchange, then the next server or the error for the caller.
Advance(l) ==
  /\ pc[l] = "advance"
  /\ current' = IF current = Idx(l) THEN NextServer(Idx(l)) ELSE current
  /\ \/ Exhausted(l) /\ Goto(l, "failed") /\ UNCHANGED i
     \/ ~Exhausted(l) /\ Goto(l, "udp") /\ i' = [i EXCEPT ![l] = @ + 1]
  /\ UNCHANGED <<n, up, down, name, start, steady>>

-----------------------------------------------------------------------------
(* Environment *)

GoesUp(w) ==
  /\ w \notin up
  /\ up' = up \cup {w}
  /\ UNCHANGED <<n, current, down, pc, name, walk, steady>>

GoesDown(w) ==
  /\ w \in up
  /\ up' = up \ {w}
  /\ steady' = [l \in Lookups |-> steady[l] \cap Ways(up \ {w}, name[l])]
  /\ UNCHANGED <<n, current, down, pc, name, walk>>

\* retry_preferred_after passes.
TimePasses ==
  /\ down = "recent"
  /\ down' = "due"
  /\ UNCHANGED <<n, up, current, pc, name, walk, steady>>

Step(l) ==
  \/ CheckDown(l) \/ Reprobe(l)
  \/ UdpResponse(l) \/ UdpSilent(l) \/ TcpResponse(l)
  \/ StoreCursor(l) \/ ClearDown(l) \/ MarkDown(l) \/ Advance(l)

Next ==
  \/ \E l \in Lookups : Step(l) \/ \E k \in Names : Resolve(l, k)
  \/ \E w \in Services : GoesUp(w) \/ GoesDown(w)
  \/ TimePasses

Spec == Init /\ [][Next]_vars

\* Lookups keep coming, none of them is suspended forever (every await of an
\* exchange has a timeout), and time passes.
FairSpec ==
  /\ Spec /\ WF_vars(TimePasses)
  /\ \A l \in Lookups : WF_vars(Step(l)) /\ WF_vars(Resolve(l, "small"))

-----------------------------------------------------------------------------
\* The types: the cursor and every index of a walk stay inside the server list.
TypeOK ==
  /\ n \in 0 .. N /\ up \subseteq Services
  /\ current \in Servers \cup {0} /\ down \in {"none", "recent", "due"}
  /\ pc \in [Lookups -> {"idle", "checkDown", "reprobe", "udp", "udpRetry", "tcp",
                         "success", "clearDown", "markDown", "advance",
                         "answered", "failed"}]
  /\ name \in [Lookups -> Names]
  /\ start \in [Lookups -> Servers \cup {0}] /\ i \in [Lookups -> Servers \cup {0}]
  /\ steady \in [Lookups -> SUBSET Services]

\* A lookup fails only if no server could have answered it all the while:
\* wherever the others move the shared cursor, its own walk visits every
\* server, and whatever goes wrong with datagrams, a lone server is still
\* asked over TCP.
SteadyServerAnswers ==
  \A l \in Lookups : pc[l] = "failed" => steady[l] = {}

\* "the preferred (first) server is re-probed after `retry_preferred_after` so
\* a recovered primary is picked back up" (on FailoverState).
PrimaryPickedUp ==
  (Failover /\ <>[](\A w \in Services : w[2] = 0 => w \in up)) => []<>(current = 0)
=============================================================================
