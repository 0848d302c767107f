--------------------------- MODULE ResolverProofs ---------------------------
(***************************************************************************)
(* For every list of nameservers and any number of concurrent lookups: the *)
(* cursor stays inside the list, and a lookup fails only if no server      *)
(* could have answered it all the while.                                   *)
(***************************************************************************)
EXTENDS Resolver, TLAPS

\* The control states of a lookup that asks servers.
Asking == {"checkDown", "reprobe", "udp", "udpRetry", "tcp", "success", "markDown", "advance"}

\* Server s gives lookup l no way to an answer that lasted.
Lost(l, s) == \A w \in steady[l] : w[2] # s

\* What is counted as steady is still there.
SteadyIsUp(l) == steady[l] \subseteq Ways(up, name[l])

\* Only DNS names go to a server, and there is one.
AsksDns(l) == pc[l] \in Asking => name[l] \in DnsNames /\ n > 0

\* A lookup has no lasting way left among the servers its walk left behind, nor
\* at the one it gives up on.
WalkedAreLost(l) ==
  pc[l] \in Asking =>
    /\ \A j \in 0 .. (i[l] - 1) : Lost(l, (start[l] + j) % n)
    /\ pc[l] \in {"markDown", "advance"} => Failover /\ Lost(l, Idx(l))
    /\ pc[l] \in {"checkDown", "reprobe"} => i[l] = 0

\* A short answer that did not come as a datagram is asked for over TCP only
\* when there is one server.
SmallIsLost(l) ==
  pc[l] \in {"udpRetry", "tcp"} /\ name[l] = "small" =>
    ~Failover /\ \A w \in steady[l] : w[1] # "udp"

\* SteadyServerAnswers, of one lookup.
FailedIsLost(l) == pc[l] = "failed" => steady[l] = {}

LookupOK(l) ==
  SteadyIsUp(l) /\ AsksDns(l) /\ WalkedAreLost(l) /\ SmallIsLost(l) /\ FailedIsLost(l)

IInv == TypeOK /\ \A l \in Lookups : LookupOK(l)

\* The indices of the list: % wraps a sum of two of them once.
LEMMA Wraps ==
  ASSUME NEW m \in Nat \ {0}, NEW a \in 0 .. (m - 1), NEW b \in 0 .. m
  PROVE  (a + b) % m = IF a + b < m THEN a + b ELSE a + b - m
  OBVIOUS

\* A walk asks servers of the list.
LEMMA IdxInList ==
  ASSUME TypeOK, n > 0, NEW l \in Lookups
  PROVE  Idx(l) \in Servers /\ NextServer(Idx(l)) \in Servers
<1>1. n \in Nat \ {0} /\ start[l] \in 0 .. (n - 1) /\ i[l] \in 0 .. n
  BY NAssumption DEF TypeOK, Servers
<1>2. ASSUME NEW a \in 0 .. (n - 1), NEW b \in 0 .. n
      PROVE  (a + b) % n \in 0 .. (n - 1)
  <2>1. (a + b) % n = IF a + b < n THEN a + b ELSE a + b - n
    BY <1>1, Wraps
  <2> QED
    BY <1>1, <2>1
<1>3. Idx(l) \in 0 .. (n - 1)
  BY <1>1, <1>2 DEF Idx
<1>4. 1 \in 0 .. n
  BY <1>1
<1>5. NextServer(Idx(l)) \in 0 .. (n - 1)
  BY <1>2, <1>3, <1>4 DEF NextServer
<1> QED
  BY <1>3, <1>5 DEF Servers

\* From any start, n servers of a walk are all of them.
LEMMA WalkCovers ==
  ASSUME NEW m \in Nat \ {0}, NEW a \in 0 .. (m - 1), NEW s \in 0 .. (m - 1)
  PROVE  \E j \in 0 .. (m - 1) : (a + j) % m = s
<1> DEFINE j == IF s >= a THEN s - a ELSE s - a + m
<1>1. j \in 0 .. (m - 1) /\ j \in 0 .. m
  OBVIOUS
<1>2. (a + j) % m = IF a + j < m THEN a + j ELSE a + j - m
  <2> HIDE DEF j
  <2> QED
    BY <1>1, Wraps
<1>3. (a + j) % m = s
  BY <1>2
<1> QED
  BY <1>1, <1>3

\* Before the first call nobody asks, and nothing is steady.
LEMMA InitIInv == Init => IInv
<1> SUFFICES ASSUME Init PROVE IInv
  OBVIOUS
<1>1. TypeOK
  BY NAssumption DEF Init, TypeOK, Names
<1>2. ASSUME NEW l \in Lookups PROVE LookupOK(l)
  BY DEF Init, LookupOK, SteadyIsUp, AsksDns, Asking, WalkedAreLost, SmallIsLost, FailedIsLost
<1> QED
  BY <1>1, <1>2 DEF IInv

\* A step of lookup l is none of any other lookup.
LEMMA OthersKept ==
  ASSUME IInv, NEW l \in Lookups, UNCHANGED <<n, up>>,
         \A m \in Lookups \ {l} : /\ pc'[m] = pc[m] /\ name'[m] = name[m] /\ start'[m] = start[m]
                                  /\ i'[m] = i[m] /\ steady'[m] = steady[m],
         TypeOK', LookupOK(l)'
  PROVE  IInv'
<1>1. ASSUME NEW m \in Lookups \ {l} PROVE LookupOK(m)'
  <2>1. LookupOK(m)
    BY DEF IInv
  <2>2. /\ pc'[m] = pc[m] /\ name'[m] = name[m] /\ start'[m] = start[m]
        /\ i'[m] = i[m] /\ steady'[m] = steady[m]
    OBVIOUS
  <2>3. SteadyIsUp(m)' /\ AsksDns(m)' /\ FailedIsLost(m)' /\ SmallIsLost(m)'
    BY <2>1, <2>2 DEF LookupOK, SteadyIsUp, AsksDns, FailedIsLost, SmallIsLost, Ways, Failover
  <2>4. WalkedAreLost(m)'
    BY <2>1, <2>2 DEF LookupOK, WalkedAreLost, Lost, Idx, Failover
  <2> QED
    BY <2>3, <2>4 DEF LookupOK
<1> QED
  BY <1>1 DEF IInv

Labels == {"idle", "checkDown", "reprobe", "udp", "udpRetry", "tcp", "success",
           "clearDown", "markDown", "advance", "answered", "failed"}

\* A step of l that moves its control state and no more of what is its own.
LEMMA MoveIInv ==
  ASSUME IInv, NEW l \in Lookups, NEW label \in Labels \ {"checkDown"}, Goto(l, label),
         UNCHANGED <<n, up, name, walk, steady>>,
         current' \in Servers \cup {0}, down' \in {"none", "recent", "due"},
         pc[l] \in Asking \/ label = "answered",
         label = "reprobe" => pc[l] = "checkDown",
         label \in {"markDown", "advance"} => Failover /\ Lost(l, Idx(l)),
         label \in {"udpRetry", "tcp"} /\ name[l] = "small" =>
           ~Failover /\ \A w \in steady[l] : w[1] # "udp",
         label = "failed" => steady[l] = {}
  PROVE  IInv'
<1>1. /\ pc' \in [Lookups -> Labels]
      /\ pc'[l] = label /\ \A m \in Lookups \ {l} : pc'[m] = pc[m]
      /\ UNCHANGED <<start, i>>
  BY DEF Goto, IInv, TypeOK, Labels, walk
<1>2. TypeOK'
  BY <1>1 DEF IInv, TypeOK, Labels, Servers, Services
<1>3. LookupOK(l)'
  <2>1. LookupOK(l)
    BY DEF IInv
  <2>2. SteadyIsUp(l)' /\ AsksDns(l)' /\ FailedIsLost(l)'
    BY <1>1, <2>1 DEF LookupOK, SteadyIsUp, AsksDns, FailedIsLost, Ways, Failover, Asking
  <2>3. SmallIsLost(l)'
    BY <1>1 DEF SmallIsLost, Failover
  <2>4. WalkedAreLost(l)'
    BY <1>1, <2>1 DEF LookupOK, WalkedAreLost, Lost, Idx, Failover, Asking
  <2> QED
    BY <2>2, <2>3, <2>4 DEF LookupOK
<1> QED
  BY <1>1, <1>2, <1>3, OthersKept

\* A server that does not answer a transport is no steady way of it.
LEMMA SilentIsLost ==
  ASSUME IInv, NEW l \in Lookups, NEW w \in steady[l]
  PROVE  /\ w \in up /\ w = <<w[1], w[2]>> /\ w[2] \in Servers
         /\ w[1] = "udp" \/ (~Failover /\ w[1] = "tcp")
         /\ w[1] = "udp" /\ name[l] # "small" => <<"tcp", w[2]>> \in up
<1>1. steady[l] \subseteq Ways(up, name[l]) /\ up \subseteq Services
  BY DEF IInv, TypeOK, LookupOK, SteadyIsUp
<1>2. w \in up /\ w \in Services
  BY <1>1 DEF Ways
<1>3. w = <<w[1], w[2]>> /\ w[2] \in Servers
  BY <1>2 DEF Services
<1>4. \/ w[1] = "udp" /\ (name[l] = "small" \/ <<"tcp", w[2]>> \in up)
      \/ ~Failover /\ w[1] = "tcp"
  BY <1>1 DEF Ways
<1> QED
  BY <1>2, <1>3, <1>4

\* With one server every exchange is with it.
LEMMA OnlyServer ==
  ASSUME TypeOK, n > 0, ~Failover
  PROVE  Servers = {0}
<1>1. n \in Nat
  BY NAssumption DEF TypeOK
<1>2. n = 1
  BY <1>1 DEF Failover
<1> QED
  BY <1>2 DEF Servers

\* Datagrams: a response or silence.
LEMMA UdpIInv ==
  ASSUME IInv, NEW l \in Lookups, UdpResponse(l) \/ UdpSilent(l)
  PROVE  IInv'
<1>1. /\ pc[l] \in {"udp", "udpRetry"} /\ pc[l] \in Asking
      /\ UNCHANGED <<n, up, current, down, name, walk, steady>>
      /\ current \in Servers \cup {0} /\ down \in {"none", "recent", "due"}
  BY DEF UdpResponse, UdpSilent, Asking, IInv, TypeOK
<1>2. name[l] \in DnsNames /\ n > 0 /\ LookupOK(l) /\ TypeOK
  BY <1>1 DEF IInv, LookupOK, AsksDns
<1>3. CASE UdpResponse(l)
  <2> DEFINE label == CASE name[l] = "small" -> Succeeded
                        [] name[l] = "truncated" -> "tcp"
                        [] OTHER -> AfterError(pc[l])
  <2>1. Goto(l, label)
    BY <1>3 DEF UdpResponse
  <2>2. /\ name[l] = "small" => label \in {"success", "answered"}
        /\ name[l] # "small" => label \in {"udpRetry", "tcp"}
    BY <1>2 DEF Succeeded, AfterError, DnsNames
  <2>3. label \in Labels \ {"checkDown"}
    BY <2>2 DEF Labels
  <2> HIDE DEF label
  <2> QED
    BY <1>1, <2>1, <2>2, <2>3, MoveIInv
<1>4. CASE UdpSilent(l)
  <2>1. <<"udp", Idx(l)>> \notin up /\ Goto(l, AfterSilence(l))
    BY <1>4 DEF UdpSilent
  <2>2. CASE Failover
    <3>1. Lost(l, Idx(l))
      BY <2>1, <2>2, SilentIsLost DEF Lost
    <3>2. AfterSilence(l) \in {"markDown", "advance"}
      BY <2>2 DEF AfterSilence, Failed
    <3>3. AfterSilence(l) \in Labels \ {"checkDown"}
      BY <3>2 DEF Labels
    <3> QED
      BY <1>1, <2>1, <2>2, <3>1, <3>2, <3>3, MoveIInv
  <2>3. CASE ~Failover
    <3>1. Servers = {0} /\ Idx(l) \in Servers
      BY <1>2, <2>3, OnlyServer, IdxInList
    <3>2. \A w \in steady[l] : w[1] # "udp"
      BY <2>1, <3>1, SilentIsLost
    <3>3. AfterSilence(l) \in {"udpRetry", "tcp"}
      BY <2>3 DEF AfterSilence, AfterError
    <3>4. AfterSilence(l) \in Labels \ {"checkDown"}
      BY <3>3 DEF Labels
    <3> QED
      BY <1>1, <2>1, <2>3, <3>2, <3>3, <3>4, MoveIInv
  <2> QED
    BY <2>2, <2>3
<1> QED
  BY <1>3, <1>4

\* TCP: the last try of an exchange.
LEMMA TcpIInv ==
  ASSUME IInv, NEW l \in Lookups, TcpResponse(l)
  PROVE  IInv'
<1>1. /\ pc[l] = "tcp" /\ pc[l] \in Asking
      /\ UNCHANGED <<n, up, current, down, name, walk, steady>>
      /\ current \in Servers \cup {0} /\ down \in {"none", "recent", "due"}
  BY DEF TcpResponse, Asking, IInv, TypeOK
<1>2. name[l] \in DnsNames /\ n > 0 /\ LookupOK(l) /\ TypeOK
  BY <1>1 DEF IInv, LookupOK, AsksDns
<1>3. CASE <<"tcp", Idx(l)>> \in up
  <2>1. Goto(l, Succeeded) /\ Succeeded \in {"success", "answered"}
    BY <1>3 DEF TcpResponse, Succeeded
  <2>2. Succeeded \in Labels \ {"checkDown"}
    BY <2>1 DEF Labels
  <2> QED
    BY <1>1, <2>1, <2>2, MoveIInv
<1>4. CASE <<"tcp", Idx(l)>> \notin up
  <2>1. Goto(l, Failed(l))
    BY <1>4 DEF TcpResponse
  <2>2. name[l] = "small" => ~Failover /\ \A w \in steady[l] : w[1] # "udp"
    BY <1>1, <1>2 DEF LookupOK, SmallIsLost
  <2>3. Lost(l, Idx(l))
    BY <1>4, <2>2, SilentIsLost DEF Lost
  <2>4. CASE Failover
    <3>1. Failed(l) \in {"markDown", "advance"}
      BY <2>4 DEF Failed
    <3>2. Failed(l) \in Labels \ {"checkDown"}
      BY <3>1 DEF Labels
    <3> QED
      BY <1>1, <2>1, <2>3, <2>4, <3>1, <3>2, MoveIInv
  <2>5. CASE ~Failover
    <3>1. Servers = {0} /\ Idx(l) \in Servers
      BY <1>2, <2>5, OnlyServer, IdxInList
    <3>2. steady[l] = {}
      BY <2>3, <3>1, SilentIsLost DEF Lost
    <3>3. Failed(l) = "failed" /\ "failed" \in Labels \ {"checkDown"}
      BY <2>5 DEF Failed, Labels
    <3> QED
      BY <1>1, <2>1, <3>2, <3>3, MoveIInv
  <2> QED
    BY <2>4, <2>5
<1> QED
  BY <1>3, <1>4

\* The cursor and the outage mark: none of these steps ends an attempt.
LEMMA SharedIInv ==
  ASSUME IInv, NEW l \in Lookups,
         CheckDown(l) \/ StoreCursor(l) \/ ClearDown(l) \/ MarkDown(l)
  PROVE  IInv'
<1>1. /\ UNCHANGED <<n, up, name, walk, steady>>
      /\ current \in Servers \cup {0} /\ down \in {"none", "recent", "due"} /\ TypeOK
  BY DEF CheckDown, StoreCursor, ClearDown, MarkDown, IInv, TypeOK
<1>2. CASE CheckDown(l)
  <2>1. PICK label \in {"reprobe", "udp"} : Goto(l, label)
    BY <1>2 DEF CheckDown
  <2>2. /\ pc[l] = "checkDown" /\ pc[l] \in Asking /\ label \in Labels \ {"checkDown"}
        /\ UNCHANGED <<current, down>>
    BY <1>2 DEF CheckDown, Asking, Labels
  <2> QED
    BY <1>1, <2>1, <2>2, MoveIInv
<1>3. CASE StoreCursor(l)
  <2>1. PICK label \in {"clearDown", "answered"} : Goto(l, label)
    BY <1>3 DEF StoreCursor
  <2>2. /\ pc[l] \in Asking /\ label \in Labels \ {"checkDown"}
        /\ down' = down /\ current' = Idx(l)
    BY <1>3 DEF StoreCursor, Asking, Labels
  <2>3. n > 0
    BY <2>2 DEF IInv, LookupOK, AsksDns
  <2>4. current' \in Servers \cup {0}
    BY <1>1, <2>2, <2>3, IdxInList
  <2> QED
    BY <1>1, <2>1, <2>2, <2>4, MoveIInv
<1>4. CASE ClearDown(l)
  <2>1. /\ Goto(l, "answered") /\ "answered" \in Labels \ {"checkDown"}
        /\ down' = "none" /\ current' = current
    BY <1>4 DEF ClearDown, Labels
  <2> QED
    BY <1>1, <2>1, MoveIInv
<1>5. CASE MarkDown(l)
  <2>1. /\ Goto(l, "advance") /\ "advance" \in Labels \ {"checkDown"}
        /\ pc[l] = "markDown" /\ pc[l] \in Asking
        /\ down' \in {"none", "recent", "due"} /\ current' = current
    BY <1>1, <1>5 DEF MarkDown, MarkedDown, Labels, Asking
  <2>2. Failover /\ Lost(l, Idx(l))
    BY <2>1 DEF IInv, LookupOK, WalkedAreLost
  <2> QED
    BY <1>1, <2>1, <2>2, MoveIInv
<1> QED
  BY <1>2, <1>3, <1>4, <1>5

\* The walk begins anew at the preferred server: it has left none behind.
LEMMA ReprobeIInv ==
  ASSUME IInv, NEW l \in Lookups, Reprobe(l)
  PROVE  IInv'
<1>1. /\ pc[l] = "reprobe" /\ pc' = [pc EXCEPT ![l] = "udp"] /\ current' = 0
      /\ start' = [start EXCEPT ![l] = 0]
      /\ UNCHANGED <<n, up, down, name, i, steady>>
  BY DEF Reprobe, Goto
<1>2. /\ pc'[l] = "udp" /\ \A m \in Lookups \ {l} : pc'[m] = pc[m] /\ start'[m] = start[m]
  BY <1>1 DEF IInv, TypeOK
<1>3. TypeOK'
  BY <1>1 DEF IInv, TypeOK, Servers, Services
<1>4. LookupOK(l) /\ i[l] = 0
  BY <1>1 DEF IInv, LookupOK, WalkedAreLost, Asking
<1>5. SteadyIsUp(l)' /\ AsksDns(l)' /\ SmallIsLost(l)' /\ FailedIsLost(l)'
  BY <1>1, <1>2, <1>4
  DEF LookupOK, SteadyIsUp, AsksDns, SmallIsLost, FailedIsLost, Ways, Failover, Asking
<1>6. WalkedAreLost(l)'
  BY <1>1, <1>2, <1>4 DEF WalkedAreLost
<1>7. LookupOK(l)'
  BY <1>5, <1>6 DEF LookupOK
<1> QED
  BY <1>1, <1>2, <1>3, <1>7, OthersKept

\* The walk goes on, or has lost every server.
LEMMA AdvanceIInv ==
  ASSUME IInv, NEW l \in Lookups, Advance(l)
  PROVE  IInv'
<1>1. pc[l] = "advance" /\ UNCHANGED <<n, up, down, name, start, steady>>
  BY DEF Advance
<1>2. LookupOK(l) /\ TypeOK /\ pc[l] \in Asking
  BY <1>1 DEF IInv, Asking
<1>3. /\ n > 0 /\ name[l] \in DnsNames /\ Failover /\ Lost(l, Idx(l))
      /\ \A j \in 0 .. (i[l] - 1) : Lost(l, (start[l] + j) % n)
  BY <1>1, <1>2 DEF LookupOK, AsksDns, WalkedAreLost
<1>4. /\ n \in Nat \ {0} /\ start[l] \in 0 .. (n - 1) /\ i[l] \in 0 .. (n - 1)
      /\ current' \in Servers \cup {0}
  <2>1. n \in Nat \ {0} /\ start[l] \in 0 .. (n - 1) /\ i[l] \in 0 .. (n - 1)
    BY <1>2, <1>3, NAssumption DEF TypeOK, Servers
  <2>2. current' \in Servers \cup {0}
    BY <1>2, <1>3, IdxInList DEF Advance, TypeOK
  <2> QED
    BY <2>1, <2>2
<1>5. \A j \in 0 .. i[l] : Lost(l, (start[l] + j) % n)
  BY <1>3, <1>4 DEF Idx
<1>6. CASE Exhausted(l) /\ Goto(l, "failed") /\ UNCHANGED i
  <2>1. i[l] = n - 1
    BY <1>4, <1>6 DEF Exhausted
  <2>2. ASSUME NEW w \in steady[l] PROVE FALSE
    <3>1. w[2] \in 0 .. (n - 1)
      BY <2>2, SilentIsLost DEF Servers
    <3>2. PICK j \in 0 .. (n - 1) : (start[l] + j) % n = w[2]
      BY <1>4, <3>1, WalkCovers
    <3> QED
      BY <1>5, <2>1, <2>2, <3>2 DEF Lost
  <2>3. steady[l] = {} /\ "failed" \in Labels \ {"checkDown"}
    BY <2>2 DEF Labels
  <2>4. down' \in {"none", "recent", "due"} /\ UNCHANGED walk
    BY <1>1, <1>2, <1>6 DEF TypeOK, walk
  <2> QED
    BY <1>1, <1>2, <1>4, <1>6, <2>3, <2>4, MoveIInv
<1>7. CASE ~Exhausted(l) /\ Goto(l, "udp") /\ i' = [i EXCEPT ![l] = @ + 1]
  <2>1. /\ pc'[l] = "udp" /\ \A m \in Lookups \ {l} : pc'[m] = pc[m] /\ i'[m] = i[m]
        /\ i'[l] = i[l] + 1 /\ i[l] + 1 \in 0 .. (n - 1)
        /\ pc' \in [Lookups -> Labels]
    BY <1>2, <1>4, <1>7 DEF Goto, TypeOK, Exhausted, Labels
  <2>2. TypeOK'
    BY <1>1, <1>2, <1>4, <1>7, <2>1 DEF TypeOK, Servers, Services, Labels
  <2>3. SteadyIsUp(l)' /\ AsksDns(l)' /\ SmallIsLost(l)' /\ FailedIsLost(l)'
    BY <1>1, <1>2, <1>3, <2>1
    DEF LookupOK, SteadyIsUp, AsksDns, SmallIsLost, FailedIsLost, Ways, Failover
  <2>4. WalkedAreLost(l)'
    <3>1. \A j \in 0 .. (i'[l] - 1) : Lost(l, (start[l] + j) % n)
      BY <1>4, <1>5, <2>1
    <3> QED
      BY <1>1, <2>1, <3>1 DEF WalkedAreLost, Lost
  <2>5. LookupOK(l)'
    BY <2>3, <2>4 DEF LookupOK
  <2> QED
    BY <1>1, <2>1, <2>2, <2>5, OthersKept
<1> QED
  BY <1>6, <1>7 DEF Advance

\* A call: what is steady is what answers now.
LEMMA ResolveIInv ==
  ASSUME IInv, NEW l \in Lookups, NEW k \in Names, Resolve(l, k)
  PROVE  IInv'
<1>1. PICK label \in Labels :
        /\ pc' = [pc EXCEPT ![l] = label]
        /\ \/ label \in {"udp", "checkDown"} /\ k \in DnsNames /\ n # 0
           \/ label = "answered"
           \/ label = "failed" /\ (k = BadKey \/ n = 0)
  <2> DEFINE to == CASE k = Direct -> "answered"
                     [] k = BadKey \/ n = 0 -> "failed"
                     [] OTHER -> IF current = 0 THEN "udp" ELSE "checkDown"
  <2>1. pc' = [pc EXCEPT ![l] = to]
    BY DEF Resolve, Goto
  <2>2. \/ to \in {"udp", "checkDown"} /\ k \in DnsNames /\ n # 0
        \/ to = "answered"
        \/ to = "failed" /\ (k = BadKey \/ n = 0)
    BY DEF Names
  <2>3. to \in Labels
    BY <2>2 DEF Labels
  <2> HIDE DEF to
  <2> QED
    BY <2>1, <2>2, <2>3
<1>2. /\ name' = [name EXCEPT ![l] = k]
      /\ steady' = [steady EXCEPT ![l] = Ways(up, k)]
      /\ start' = [start EXCEPT ![l] = IF k \in DnsNames THEN current ELSE 0]
      /\ i' = [i EXCEPT ![l] = 0]
      /\ UNCHANGED <<n, up, current, down>>
  BY DEF Resolve
<1>3. /\ pc'[l] = label /\ name'[l] = k /\ steady'[l] = Ways(up, k) /\ i'[l] = 0
      /\ \A m \in Lookups \ {l} : /\ pc'[m] = pc[m] /\ name'[m] = name[m] /\ start'[m] = start[m]
                                  /\ i'[m] = i[m] /\ steady'[m] = steady[m]
  BY <1>1, <1>2 DEF IInv, TypeOK
<1>4. Ways(up, k) \subseteq up /\ n \in Nat
  BY NAssumption DEF Ways, IInv, TypeOK
<1>5. TypeOK'
  <2>1. Ways(up, k) \in SUBSET Services
    BY <1>4 DEF IInv, TypeOK
  <2>2. /\ pc' \in [Lookups -> Labels] /\ name' \in [Lookups -> Names]
        /\ start' \in [Lookups -> Servers \cup {0}] /\ i' \in [Lookups -> Servers \cup {0}]
        /\ steady' \in [Lookups -> SUBSET Services]
    BY <1>1, <1>2, <2>1 DEF IInv, TypeOK, Labels
  <2> QED
    BY <1>2, <2>2 DEF IInv, TypeOK, Labels, Servers, Services
<1>6. SteadyIsUp(l)' /\ AsksDns(l)' /\ SmallIsLost(l)'
  BY <1>1, <1>2, <1>3, <1>4 DEF SteadyIsUp, AsksDns, SmallIsLost, Ways, Failover, Asking
<1>7. FailedIsLost(l)'
  <2>1. k = BadKey => Ways(up, k) = {}
    BY DEF Ways, DnsNames, BadKey
  <2>2. n = 0 => Services = {}
    BY DEF Services, Servers
  <2>3. n = 0 => Ways(up, k) = {}
    BY <1>4, <2>2 DEF IInv, TypeOK
  <2> QED
    BY <1>1, <1>3, <2>1, <2>3 DEF FailedIsLost
<1>8. WalkedAreLost(l)'
  BY <1>1, <1>3 DEF WalkedAreLost, Asking
<1>9. LookupOK(l)'
  BY <1>6, <1>7, <1>8 DEF LookupOK
<1> QED
  BY <1>2, <1>3, <1>5, <1>9, OthersKept

\* Servers come, go and time passes: what goes is no longer steady.
LEMMA EnvironmentIInv ==
  ASSUME IInv,
         \/ \E w \in Services : GoesUp(w) \/ GoesDown(w)
         \/ TimePasses \/ UNCHANGED vars
  PROVE  IInv'
<1>1. /\ UNCHANGED <<n, current, pc, name, start, i>>
      /\ up' \subseteq Services /\ down' \in {"none", "recent", "due"}
      /\ \A l \in Lookups : steady'[l] \subseteq steady[l]
      /\ steady' \in [Lookups -> SUBSET Services]
  <2>1. TypeOK
    BY DEF IInv
  <2>2. CASE \E w \in Services : GoesUp(w)
    BY <2>1, <2>2 DEF GoesUp, TypeOK, walk
  <2>3. CASE \E w \in Services : GoesDown(w)
    BY <2>1, <2>3 DEF GoesDown, TypeOK, walk
  <2>4. CASE TimePasses \/ UNCHANGED vars
    BY <2>1, <2>4 DEF TimePasses, vars, TypeOK, walk
  <2> QED
    BY <2>2, <2>3, <2>4
<1>2. TypeOK'
  BY <1>1 DEF IInv, TypeOK, Servers, Services
<1>3. ASSUME NEW l \in Lookups PROVE LookupOK(l)'
  <2>1. LookupOK(l)
    BY DEF IInv
  <2>2. SteadyIsUp(l)'
    <3>1. CASE \E w \in Services : GoesUp(w)
      <4>1. UNCHANGED <<n, name, steady>> /\ up \subseteq up'
        BY <3>1 DEF GoesUp
      <4> QED
        BY <2>1, <4>1 DEF LookupOK, SteadyIsUp, Ways, Failover
    <3>2. CASE \E w \in Services : GoesDown(w)
      <4>1. UNCHANGED <<n, name>> /\ steady'[l] \subseteq Ways(up', name[l])
        BY <3>2 DEF GoesDown
      <4> QED
        BY <4>1 DEF SteadyIsUp, Ways, Failover
    <3>3. CASE TimePasses \/ UNCHANGED vars
      BY <2>1, <3>3 DEF TimePasses, vars, LookupOK, SteadyIsUp, Ways, Failover
    <3> QED
      BY <3>1, <3>2, <3>3
  <2>3. AsksDns(l)' /\ SmallIsLost(l)' /\ FailedIsLost(l)'
    BY <1>1, <2>1 DEF LookupOK, AsksDns, SmallIsLost, FailedIsLost, Failover
  <2>4. WalkedAreLost(l)'
    BY <1>1, <2>1 DEF LookupOK, WalkedAreLost, Lost, Idx, Failover
  <2> QED
    BY <2>2, <2>3, <2>4 DEF LookupOK
<1> QED
  BY <1>2, <1>3 DEF IInv

\* Every step keeps the invariant.
LEMMA NextIInv ==
  ASSUME IInv, [Next]_vars
  PROVE  IInv'
<1>1. ASSUME NEW l \in Lookups, Step(l) PROVE IInv'
  BY <1>1, SharedIInv, ReprobeIInv, UdpIInv, TcpIInv, AdvanceIInv DEF Step
<1> QED
  BY <1>1, ResolveIInv, EnvironmentIInv DEF Next

\* So it holds in every state of the resolver.
LEMMA Inductive == Spec => []IInv
  BY InitIInv, NextIInv, PTL DEF Spec

\* The shared cursor and every index of a walk stay inside the list, whatever
\* its length and however many lookups store and compare-exchange the cursor.
THEOREM TypeCorrect == Spec => []TypeOK
<1>1. IInv => TypeOK
  BY DEF IInv
<1> QED
  BY <1>1, Inductive, PTL

\* A lookup reports a failure only if no server could have answered it from
\* its call to its end: the walk from any start visits all n servers, and the
\* cursor the other lookups move is not what it goes by.
THEOREM SteadyServersAreFound == Spec => []SteadyServerAnswers
<1>1. IInv => SteadyServerAnswers
  BY DEF IInv, LookupOK, FailedIsLost, SteadyServerAnswers
<1> QED
  BY <1>1, Inductive, PTL

=============================================================================
