----------------------------- MODULE CliProofs -----------------------------
(***************************************************************************)
(* Proofs about the `endbot` command line: Supervisor, for any restart     *)
(* options and bounds, and Instance, for any versions, script files and    *)
(* bounds.  No path of run() leaves a child behind, restarts keep to their *)
(* budget, and the stores, the script files and the pre-bound identities   *)
(* survive every sequence of commands, each interrupted at any step.       *)
(***************************************************************************)
EXTENDS Supervisor, Instance, SequenceTheorems, WellFoundedInduction, TLAPS

-----------------------------------------------------------------------------
(***************************************************************************)
(* Supervisor: where its thread is, and which children are alive.          *)
(***************************************************************************)
Starting == {"start", "await", "gate"}

ThreadTypes ==
  /\ pc \in Starting \cup {"down", "loop", "backoff", "stop"}
  /\ child \in Watched /\ todo \in Seq(Children) /\ bdsStopped \in BOOLEAN
  /\ proc \in [Children -> BOOLEAN]

\* Outside run(), and in its first starts, the server is not there yet.
FirstStarts ==
  /\ pc = "down" => goal = "first" /\ child = "runtime" /\ ~bdsStopped /\ \A c \in Children : ~Up(c)
  /\ pc \in Starting /\ goal = "first" => ~Up("server") /\ ~bdsStopped
  /\ pc \in Starting => goal \in {"first", "back", "again"}
  /\ pc = "gate" => goal # "back"

\* BDS is stopped: only endbotd is watched, and _restart_bds starts with the runtime.
WhileStopped ==
  /\ bdsStopped /\ pc \in {"loop", "backoff"} => ~Up("server") /\ ~Up("runtime")
  /\ bdsStopped /\ (pc = "backoff" \/ (pc \in Starting /\ goal = "back")) =>
       child = "endbotd" /\ ~Up("server") /\ ~Up("runtime")
  /\ pc \in Starting /\ goal = "again" => child = "runtime" /\ bdsStopped /\ ~Up("server")
  /\ pc = "start" /\ goal = "again" => ~Up("runtime")

\* What is alive while the children are stopped is still to be stopped.
WhileStopping ==
  /\ pc = "stop" /\ goal # "stopped" => \A c \in Children : Up(c) => c \in Range(todo)
  /\ pc = "stop" /\ goal = "stopped" => ~Up("server") /\ (Up("runtime") => "runtime" \in Range(todo))

ChildInv == ThreadTypes /\ FirstStarts /\ WhileStopped /\ WhileStopping

-----------------------------------------------------------------------------
\* Taking the head off todo leaves every other child in it.
LEMMA TailKeeps ==
  ASSUME NEW S, NEW s \in Seq(S), s # <<>>
  PROVE  /\ Tail(s) \in Seq(S) /\ Head(s) \in S
         /\ \A x \in Range(s) : x = Head(s) \/ x \in Range(Tail(s))
  <1>1. Tail(s) \in Seq(S) /\ Head(s) \in S  OBVIOUS
  <1>2. ASSUME NEW x \in Range(s), x # Head(s) PROVE x \in Range(Tail(s))
    <2>1. PICK i \in 1..Len(s) : s[i] = x  BY <1>2 DEF Range
    <2>2. i # 1  BY <1>2, <2>1
    <2>3. i - 1 \in 1..Len(Tail(s)) /\ Tail(s)[i - 1] = x  BY <2>1, <2>2
    <2>4. i - 1 \in DOMAIN Tail(s)  BY <2>3, <1>1
    <2> QED  BY <2>3, <2>4 DEF Range
  <1> QED  BY <1>1, <1>2

\* The orders in which the children are stopped.
LEMMA Orders ==
  /\ <<"server">> \o StopChildrenOrder \in Seq(Children)
  /\ Range(<<"server">> \o StopChildrenOrder) = Children
  /\ StopChildrenOrder \in Seq(Children) /\ Range(StopChildrenOrder) = Watched
  /\ <<"runtime">> \in Seq(Children) /\ Range(<<"runtime">>) = {"runtime"}
  /\ <<>> \in Seq(Children) /\ Range(<<>>) = {}
  <1> USE DEF StopChildrenOrder, Children, Watched
  <1> DEFINE full == <<"server">> \o StopChildrenOrder
  <1>1. /\ full \in Seq(Children) /\ Len(full) = 3
        /\ full[1] = "server" /\ full[2] = "endbotd" /\ full[3] = "runtime"
    OBVIOUS
  <1>2. /\ StopChildrenOrder \in Seq(Children) /\ Len(StopChildrenOrder) = 2
        /\ StopChildrenOrder[1] = "endbotd" /\ StopChildrenOrder[2] = "runtime"
    OBVIOUS
  <1>3. /\ <<"runtime">> \in Seq(Children) /\ Len(<<"runtime">>) = 1 /\ <<"runtime">>[1] = "runtime"
    OBVIOUS
  <1> HIDE DEF full
  <1>4. Range(full) = Children
    BY <1>1, 1 \in DOMAIN full, 2 \in DOMAIN full, 3 \in DOMAIN full DEF Range
  <1>5. Range(StopChildrenOrder) = Watched
    BY <1>2, 1 \in DOMAIN StopChildrenOrder, 2 \in DOMAIN StopChildrenOrder DEF Range
  <1>6. Range(<<"runtime">>) = {"runtime"}
    BY <1>3 DEF Range
  <1>7. Range(<<>>) = {}
    BY DEF Range
  <1> QED  BY <1>1, <1>2, <1>3, <1>4, <1>5, <1>6, <1>7 DEF full

LEMMA InitChildren == SupervisorInit => ChildInv
  BY Orders
  DEF SupervisorInit, ChildInv, ThreadTypes, FirstStarts, WhileStopped, WhileStopping, Starting, Up, Children, Watched

LEMMA NextChildren ==
  ASSUME ChildInv, [SupervisorNext]_supervisorVars
  PROVE  ChildInv'
  <1> USE Orders
      DEF ChildInv, ThreadTypes, FirstStarts, WhileStopped, WhileStopping, Starting, Up, Children,
          Watched, thread, procs, counts, runFiles, rest, GoTo, StartChild, Stop, Pass
  <1> USE DEF StopSequence, StopChildren
  <1>1. CASE UNCHANGED supervisorVars  BY <1>1 DEF supervisorVars
  <1>2. CASE Spawn  BY <1>2 DEF Spawn
  <1>3. CASE SpawnFails  BY <1>3 DEF SpawnFails
  <1>4. CASE IsReady  BY <1>4 DEF IsReady
  <1>5. CASE NotReady  BY <1>5 DEF NotReady, KillUnready
  <1>6. CASE StartServer  BY <1>6 DEF StartServer
  <1>7. CASE ServerRefused  BY <1>7 DEF ServerRefused
  <1>8. CASE SeesStop  BY <1>8 DEF SeesStop
  <1>9. CASE OperatorExit  BY <1>9 DEF OperatorExit
  <1>10. CASE OperatorStart  BY <1>10 DEF OperatorStart
  <1>11. CASE BdsExited  BY <1>11 DEF BdsExited
  <1>12. CASE IdlePass  BY <1>12 DEF IdlePass
  <1>13. CASE ChildDown  BY <1>13 DEF ChildDown, Down, WatchedNow
  <1>14. CASE BackoffEnds  BY <1>14 DEF BackoffEnds
  <1>15. CASE StopAlreadyDown  BY <1>15, TailKeeps DEF StopAlreadyDown
  <1>16. CASE StopAsk  BY <1>16 DEF StopAsk
  <1>17. CASE StopEscalate  BY <1>17, TailKeeps DEF StopEscalate
  <1>18. CASE BdsIsStopped  BY <1>18 DEF BdsIsStopped
  <1>19. CASE Return  BY <1>19 DEF Return, Gone
  <1>20. CASE PidCleaned  BY <1>20 DEF PidCleaned
  <1>21. CASE RunStart  BY <1>21 DEF RunStart, Running
  <1>22. CASE Crash  BY <1>22 DEF Crash, Gone
  <1>23. CASE Interrupt  BY <1>23 DEF Interrupt
  <1>24. ASSUME NEW c \in Watched, PrintReady(c) \/ ReadLine(c) PROVE ChildInv'
    BY <1>24 DEF PrintReady, ReadLine
  <1>25. ASSUME NEW c \in Children, ChildExits(c) PROVE ChildInv'
    <2>1. proc' \in [Children -> BOOLEAN] /\ \A d \in Children : proc'[d] => proc[d]
      BY <1>25 DEF ChildExits
    <2> QED  BY <1>25, <2>1 DEF ChildExits
  <1>26. CASE CliStop  BY <1>26 DEF CliStop
  <1>27. ASSUME NEW line \in Lines, CliConsole(line) PROVE ChildInv'  BY <1>27 DEF CliConsole
  <1>28. CASE Tick  BY <1>28 DEF Tick
  <1>29. ASSUME NEW c \in Children, OrphanExits(c) PROVE ChildInv'  BY <1>29 DEF OrphanExits
  <1> QED
    BY <1>1, <1>2, <1>3, <1>4, <1>5, <1>6, <1>7, <1>8, <1>9, <1>10, <1>11, <1>12, <1>13, <1>14,
       <1>15, <1>16, <1>17, <1>18, <1>19, <1>20, <1>21, <1>22, <1>23, <1>24, <1>25, <1>26, <1>27, <1>28, <1>29
    DEF SupervisorNext, SupervisorStep, Outside

(* run() never returns with a child of its own alive, whichever of its     *)
(* paths it returns by: what each list of _stop_all leaves out is not up.  *)
THEOREM NothingLeftBehind == SupervisorSpec => []NothingLeft
  <1>1. ChildInv => NothingLeft
    BY DEF ChildInv, FirstStarts, NothingLeft
  <1> QED
    BY <1>1, InitChildren, NextChildren, PTL DEF SupervisorSpec

(* While BDS is reported as stopped neither BDS nor the runtime is alive:  *)
(* each way a `start` line fails in _restart_bds undoes its part.          *)
THEOREM StoppedIsStopped == SupervisorSpec => []StoppedMeansStopped
  <1>1. ChildInv => StoppedMeansStopped
    BY DEF ChildInv, WhileStopped, StoppedMeansStopped
  <1> QED
    BY <1>1, InitChildren, NextChildren, PTL DEF SupervisorSpec

-----------------------------------------------------------------------------
(***************************************************************************)
(* Supervisor: the failures _restart counts, and those inside the window.  *)
(* The two lists are aligned at their ends: what only the count has is too *)
(* old, and what only the window has was counted before the count started  *)
(* anew, when it was too short to give up.                                 *)
(***************************************************************************)
\* Ages are kept oldest first.
Aging(s) == \A i, j \in DOMAIN s : i <= j => s[j] <= s[i]

Aligned(f, r) ==
  /\ \A j \in 0 .. Len(r) : j < Len(f) /\ j < Len(r) => f[Len(f) - j] = r[Len(r) - j]
  /\ Len(r) < Len(f) => f[Len(f) - Len(r)] > Window
  /\ Len(r) <= Len(f) + MaxFailures - 1

\* What the window holds has not left it.
Within(r) == Aging(r) /\ \A i \in DOMAIN r : r[i] <= Window

\* One child: what is counted, what is inside the window, and how many may be counted.
Counts(f, r, n) ==
  /\ f \in Seq(Nat) /\ r \in Seq(Nat)
  /\ Aging(f) /\ Within(r) /\ Aligned(f, r) /\ Len(f) <= n

\* A count that is full ends the supervisor.
GivingUp == pc = "stop" /\ goal = "giveup"
Limit == IF GivingUp THEN MaxFailures ELSE MaxFailures - 1

FailInv ==
  /\ failures \in [Watched -> Seq(Nat)] /\ recent \in [Watched -> Seq(Nat)]
  /\ \A c \in Watched : Counts(failures[c], recent[c], Limit)

\* What a step that leaves every count alone does: it does not give up.
Quiet ==
  /\ failures' = failures /\ recent' = recent
  /\ GivingUp => GivingUp'
  /\ goal' = "giveup" => goal = "giveup"

\* A step that gives up sees a child with MaxFailures failures inside one window.
GivesUpRightly ==
  goal' = "giveup" /\ goal # "giveup" => \E c \in Watched : Len(recent'[c]) >= MaxFailures

(* A set of numbers has a least one.                                       *)
LEMMA LeastNumber ==
  ASSUME NEW S, S \subseteq Nat, S # {}
  PROVE  \E m \in S : \A j \in S : m <= j
  <1>1. PICK m \in S : \A j \in S : ~(<<j, m>> \in OpToRel(<, Nat))
    BY NatLessThanWellFounded, WFMin
  <1>2. \A j \in S : ~(j < m)  BY <1>1 DEF OpToRel
  <1> QED  BY <1>2

(* The ages past the window are the first ones.                            *)
LEMMA ExpiredFirst ==
  ASSUME NEW s \in Seq(Nat), Aging(s)
  PROVE  Expired(s) \in 0 .. Len(s) /\ \A i \in DOMAIN s : s[i] > Window <=> i <= Expired(s)
  <1>0. Window \in Nat /\ DOMAIN s = 1 .. Len(s) /\ Len(s) \in Nat /\ \A i \in DOMAIN s : s[i] \in Nat
    BY SupervisorBounds
  <1> DEFINE Young == {i \in DOMAIN s : s[i] <= Window}
  <1>1. \E k \in 0 .. Len(s) : \A i \in DOMAIN s : s[i] > Window <=> i <= k
    <2>1. CASE Young = {}
      <3>1. \A i \in DOMAIN s : s[i] > Window <=> i <= Len(s)  BY <1>0, <2>1
      <3> QED  BY <1>0, <3>1
    <2>2. CASE Young # {}
      <3>1. Young \subseteq Nat  BY <1>0
      <3> HIDE DEF Young
      <3>2. PICK m \in Young : \A j \in Young : m <= j  BY <2>2, <3>1, LeastNumber
      <3>3. m \in DOMAIN s /\ s[m] <= Window  BY DEF Young
      <3>4. \A i \in DOMAIN s : s[i] > Window <=> i <= m - 1
        <4> SUFFICES ASSUME NEW i \in DOMAIN s PROVE s[i] > Window <=> i <= m - 1
          OBVIOUS
        <4>1. CASE i < m
          <5>1. i \notin Young  BY <1>0, <3>2, <3>3, <4>1
          <5> QED  BY <1>0, <3>3, <4>1, <5>1 DEF Young
        <4>2. CASE ~(i < m)
          <5>1. s[i] <= s[m]  BY <1>0, <3>3, <4>2 DEF Aging
          <5> QED  BY <1>0, <3>3, <4>2, <5>1
        <4> QED  BY <4>1, <4>2
      <3>5. m - 1 \in 0 .. Len(s)  BY <1>0, <3>3
      <3> QED  BY <3>4, <3>5
    <2> QED  BY <2>1, <2>2
  <1> QED  BY <1>1 DEF Expired

(* Time passes alike for all: the order stays.                             *)
LEMMA OlderAges ==
  ASSUME NEW s \in Seq(Nat)
  PROVE  /\ Older(s) \in Seq(Nat) /\ Len(Older(s)) = Len(s) /\ DOMAIN Older(s) = DOMAIN s
         /\ \A i \in DOMAIN s : Older(s)[i] = IF s[i] > Window THEN s[i] ELSE s[i] + 1
         /\ Aging(s) => Aging(Older(s))
  <1>0. Window \in Nat /\ DOMAIN s = 1 .. Len(s) /\ Len(s) \in Nat /\ \A i \in DOMAIN s : s[i] \in Nat
    BY SupervisorBounds
  <1>1. Older(s) = [i \in 1 .. Len(s) |-> IF s[i] > Window THEN s[i] ELSE s[i] + 1]
    BY <1>0 DEF Older
  <1>2. \A i \in 1 .. Len(s) : (IF s[i] > Window THEN s[i] ELSE s[i] + 1) \in Nat  BY <1>0
  <1>3. Older(s) \in Seq(Nat)
    BY <1>0, <1>1, <1>2, IsASeq
  <1>4. Len(Older(s)) = Len(s) /\ DOMAIN Older(s) = DOMAIN s  BY <1>0, <1>1, <1>3
  <1>5. \A i \in DOMAIN s : Older(s)[i] = IF s[i] > Window THEN s[i] ELSE s[i] + 1
    BY <1>0, <1>1
  <1> HIDE DEF Older
  <1>6. Aging(s) => Aging(Older(s))
    BY <1>0, <1>4, <1>5 DEF Aging
  <1> QED  BY <1>3, <1>4, <1>5, <1>6

(* A tick makes both older and drops from the window what leaves it.       *)
LEMMA TickAligned ==
  ASSUME NEW f \in Seq(Nat), NEW r \in Seq(Nat), Aging(f), Within(r), Aligned(f, r)
  PROVE  LET o == Older(r)
             s == SubSeq(o, Expired(o) + 1, Len(o))
         IN /\ Older(f) \in Seq(Nat) /\ s \in Seq(Nat) /\ Len(Older(f)) = Len(f) /\ Len(s) <= Len(r)
            /\ Aging(Older(f)) /\ Within(s) /\ Aligned(Older(f), s)
  <1> DEFINE o == Older(r)
             k == Expired(o)
             s == SubSeq(o, k + 1, Len(o))
             g == Older(f)
             n == Len(f)
             m == Len(r)
  <1>0. Window \in Nat /\ MaxFailures \in Nat /\ n \in Nat /\ m \in Nat /\ DOMAIN f = 1 .. n /\ DOMAIN r = 1 .. m
    BY SupervisorBounds
  <1>00. (\A i \in 1 .. n : f[i] \in Nat) /\ (\A i \in 1 .. m : r[i] \in Nat)
    BY <1>0
  <1>a. /\ \A j \in 0 .. m : j < n /\ j < m => f[n - j] = r[m - j]
        /\ m < n => f[n - m] > Window
        /\ m <= n + MaxFailures - 1
    BY DEF Aligned
  <1>1. g \in Seq(Nat) /\ Len(g) = n /\ Aging(g) /\ DOMAIN g = 1 .. n
    BY <1>0, OlderAges
  <1>11. \A i \in 1 .. n : g[i] = IF f[i] > Window THEN f[i] ELSE f[i] + 1
    BY <1>0, OlderAges
  <1>2. o \in Seq(Nat) /\ Len(o) = m /\ Aging(o) /\ DOMAIN o = 1 .. m
    BY <1>0, OlderAges DEF Within
  <1>21. \A i \in 1 .. m : o[i] = IF r[i] > Window THEN r[i] ELSE r[i] + 1
    BY <1>0, OlderAges
  <1>22. \A i \in 1 .. m : o[i] \in Nat  BY <1>2
  <1> HIDE DEF o, g
  <1>3. k \in 0 .. m /\ \A i \in 1 .. m : o[i] > Window <=> i <= k
    BY <1>2, ExpiredFirst
  <1> HIDE DEF k
  <1>4. s \in Seq(Nat) /\ Len(s) = m - k /\ \A i \in 1 .. m - k : s[i] = o[k + i]
    <2>1. k + 1 \in 1 .. m + 1 /\ k \in Nat /\ k <= m  BY <1>0, <1>3
    <2>2. \A i \in k + 1 .. m : o[i] \in Nat  BY <1>0, <1>22, <2>1
    <2>3. s = [i \in 1 .. m - (k + 1) + 1 |-> o[i + (k + 1) - 1]]  BY <1>0, <1>2, <2>1
    <2>4. m - (k + 1) + 1 = m - k /\ m - k \in Nat  BY <1>0, <2>1
    <2> HIDE DEF s
    <2>5. s = [i \in 1 .. m - k |-> o[k + i]]
      <3>1. \A i \in 1 .. m - k : i + (k + 1) - 1 = k + i  BY <2>1, <2>4
      <3> QED  BY <2>3, <2>4, <3>1
    <2>6. \A i \in 1 .. m - k : o[k + i] \in Nat
      <3>1. \A i \in 1 .. m - k : k + i \in k + 1 .. m  BY <1>0, <2>1
      <3> QED  BY <2>2, <3>1
    <2>7. s \in Seq(Nat)
      <3>1. s \in [1 .. m - k -> Nat]  BY <2>5, <2>6
      <3> QED  BY <2>4, <3>1, SeqDef
    <2>8. DOMAIN s = 1 .. m - k  BY <2>5
    <2> QED  BY <2>4, <2>5, <2>7, <2>8, LenProperties
  <1> HIDE DEF s, n, m
  <1>5. DOMAIN s = 1 .. m - k  BY <1>4, LenProperties
  <1>51. \A i \in 1 .. m - k : k + i \in 1 .. m /\ i \in Nat  BY <1>0, <1>3
  <1>52. \A i \in 1 .. m - k : s[i] <= Window
    <2> SUFFICES ASSUME NEW i \in 1 .. m - k PROVE s[i] <= Window
      OBVIOUS
    <2>1. k + i \in 1 .. m /\ s[i] = o[k + i]  BY <1>4, <1>51
    <2>2. ~(k + i <= k)  BY <1>3, <1>51
    <2>3. ~(o[k + i] > Window) /\ o[k + i] \in Nat  BY <1>3, <1>22, <2>1, <2>2
    <2> QED  BY <1>0, <2>1, <2>3
  <1>6. Within(s)
    <2>2. Aging(s)
      <3> SUFFICES ASSUME NEW i \in 1 .. m - k, NEW j \in 1 .. m - k, i <= j PROVE s[j] <= s[i]
        BY <1>5 DEF Aging
      <3>1. k + i <= k + j  BY <1>0, <1>3
      <3>2. o[k + j] <= o[k + i]  BY <1>2, <1>51, <3>1 DEF Aging
      <3> QED  BY <1>4, <3>2
    <2> QED  BY <1>5, <1>52, <2>2 DEF Within
  <1>7. ASSUME NEW j \in 0 .. m - k, j < n, j < m - k
        PROVE  g[n - j] = s[m - k - j]
    <2>1. /\ m - k - j \in 1 .. m - k /\ k + (m - k - j) = m - j
          /\ m - j \in 1 .. m /\ n - j \in 1 .. n /\ j \in 0 .. m /\ j < m
      BY <1>0, <1>3, <1>7
    <2>2. f[n - j] = r[m - j]  BY <1>a, <1>7, <2>1
    <2>3. s[m - k - j] = o[m - j]
      <3>1. s[m - k - j] = o[k + (m - k - j)]  BY <1>4, <2>1
      <3> QED  BY <2>1, <3>1
    <2>4. g[n - j] = o[m - j]  BY <1>11, <1>21, <2>1, <2>2
    <2> QED  BY <2>3, <2>4
  <1>8. ASSUME m - k < n
        PROVE  g[n - (m - k)] > Window
    <2>0. n - (m - k) \in 1 .. n  BY <1>0, <1>3, <1>8
    <2>1. CASE k = 0
      <3>1. m - k = m  BY <1>0, <2>1
      <3>2. f[n - (m - k)] > Window  BY <1>a, <1>8, <3>1
      <3> QED  BY <1>11, <2>0, <3>2
    <2>2. CASE k # 0
      <3>1. k \in 1 .. m  BY <1>0, <1>3, <2>2
      <3>2. o[k] > Window  BY <1>3, <3>1
      <3>3. m - k \in 0 .. m /\ m - k < m /\ m - (m - k) = k  BY <1>0, <3>1
      <3>4. f[n - (m - k)] = r[k]
        <4>1. f[n - (m - k)] = r[m - (m - k)]  BY <1>a, <1>8, <3>3
        <4> QED  BY <3>3, <4>1
      <3>5. g[n - (m - k)] = o[k]  BY <1>11, <1>21, <2>0, <3>1, <3>4
      <3> QED  BY <3>2, <3>5
    <2> QED  BY <2>1, <2>2
  <1>9. m - k <= n + MaxFailures - 1 /\ m - k <= m  BY <1>0, <1>3, <1>a
  <1>10. Aligned(g, s)
    <2>1. Len(g) = n /\ Len(s) = m - k  BY <1>1, <1>4
    <2> QED  BY <1>7, <1>8, <1>9, <2>1 DEF Aligned
  <1> QED  BY <1>1, <1>4, <1>6, <1>9, <1>10 DEF g, s, k, o, n, m

(* One more failure, of age 0, is the youngest.                            *)
LEMMA OneMore ==
  ASSUME NEW s \in Seq(Nat), Aging(s)
  PROVE  LET t == Append(s, 0)
         IN /\ t \in Seq(Nat) /\ Len(t) = Len(s) + 1 /\ Aging(t)
            /\ t[Len(s) + 1] = 0 /\ \A i \in 1 .. Len(s) : t[i] = s[i]
            /\ DOMAIN t = 1 .. Len(s) + 1
  <1> DEFINE t == Append(s, 0)
  <1>1. /\ t \in Seq(Nat) /\ Len(t) = Len(s) + 1 /\ t[Len(s) + 1] = 0
        /\ \A i \in 1 .. Len(s) : t[i] = s[i]
    BY AppendProperties
  <1>2. DOMAIN t = 1 .. Len(s) + 1 /\ Len(s) \in Nat /\ \A i \in 1 .. Len(s) : s[i] \in Nat
    BY <1>1
  <1> HIDE DEF t
  <1>3. Aging(t)
    <2> SUFFICES ASSUME NEW i \in 1 .. Len(s) + 1, NEW j \in 1 .. Len(s) + 1, i <= j
                 PROVE  t[j] <= t[i]
      BY <1>2 DEF Aging
    <2>1. CASE j = Len(s) + 1
      <3>1. t[j] = 0 /\ t[i] \in Nat  BY <1>1, <1>2, <2>1
      <3> QED  BY <3>1
    <2>2. CASE j # Len(s) + 1
      <3>1. i \in 1 .. Len(s) /\ j \in 1 .. Len(s)  BY <1>2, <2>2
      <3>2. s[j] <= s[i]  BY <3>1 DEF Aging
      <3> QED  BY <1>1, <3>1, <3>2
    <2> QED  BY <2>1, <2>2
  <1> QED  BY <1>1, <1>2, <1>3 DEF t

(* One more failure: the count goes on, or starts anew with it.            *)
LEMMA CountedAligned ==
  ASSUME NEW f \in Seq(Nat), NEW r \in Seq(Nat), Aging(f), Within(r), Aligned(f, r),
         Len(f) <= MaxFailures - 1
  PROVE  LET g == IF f # <<>> /\ Head(f) > Window THEN <<0>> ELSE Append(f, 0)
             s == Append(r, 0)
         IN /\ g \in Seq(Nat) /\ s \in Seq(Nat) /\ Aging(g) /\ Within(s) /\ Aligned(g, s)
            /\ Len(g) <= MaxFailures /\ Len(g) <= Len(s)
  <1> DEFINE g == IF f # <<>> /\ Head(f) > Window THEN <<0>> ELSE Append(f, 0)
             s == Append(r, 0)
             n == Len(f)
             m == Len(r)
  <1>0. /\ Window \in Nat /\ MaxFailures \in Nat /\ MaxFailures >= 1
        /\ n \in Nat /\ m \in Nat /\ n <= MaxFailures - 1
        /\ DOMAIN f = 1 .. n /\ DOMAIN r = 1 .. m
    BY SupervisorBounds
  <1>00. \A i \in 1 .. n : f[i] \in Nat
    BY <1>0
  <1>a. /\ \A j \in 0 .. m : j < n /\ j < m => f[n - j] = r[m - j]
        /\ m < n => f[n - m] > Window
        /\ m <= n + MaxFailures - 1
    BY DEF Aligned
  <1>b. \A i \in 1 .. m : r[i] \in Nat /\ r[i] <= Window
    BY <1>0 DEF Within
  <1>c. (f # <<>> <=> n > 0) /\ (f # <<>> => Head(f) = f[1])
    BY <1>0
  <1>1. /\ s \in Seq(Nat) /\ Len(s) = m + 1 /\ Aging(s)
        /\ s[m + 1] = 0 /\ \A i \in 1 .. m : s[i] = r[i]
        /\ DOMAIN s = 1 .. m + 1
    BY OneMore DEF Within
  <1> HIDE DEF s, n, m
  <1>2. Within(s)
    <2> SUFFICES ASSUME NEW i \in 1 .. m + 1 PROVE s[i] <= Window
      BY <1>1 DEF Within
    <2>1. CASE i = m + 1  BY <1>0, <1>1, <2>1
    <2>2. CASE i # m + 1
      <3>1. i \in 1 .. m  BY <1>0, <2>2
      <3> QED  BY <1>1, <1>b, <3>1
    <2> QED  BY <2>1, <2>2
  <1>3. CASE f # <<>> /\ Head(f) > Window
    <2>1. n > 0 /\ f[1] > Window  BY <1>3, <1>c
    <2>2. m < n
      <3> SUFFICES ASSUME n <= m PROVE FALSE
        BY <1>0
      <3>1. n - 1 \in 0 .. m /\ n - 1 < n /\ n - 1 < m /\ n - (n - 1) = 1 /\ m - (n - 1) \in 1 .. m
        BY <1>0, <2>1
      <3>2. f[1] = r[m - (n - 1)]
        <4>1. f[n - (n - 1)] = r[m - (n - 1)]  BY <1>a, <3>1
        <4> QED  BY <3>1, <4>1
      <3> QED  BY <1>0, <1>b, <2>1, <3>1, <3>2
    <2> DEFINE h == <<0>>
    <2>3. h \in Seq(Nat) /\ Len(h) = 1 /\ h[1] = 0 /\ DOMAIN h = 1 .. 1  OBVIOUS
    <2>6. g = h  BY <1>3
    <2> HIDE DEF h, g
    <2>4. Aging(h)  BY <2>3 DEF Aging
    <2>5. Aligned(h, s)
      <3>1. \A j \in 0 .. m + 1 : j < 1 /\ j < m + 1 => h[1 - j] = s[m + 1 - j]
        <4> SUFFICES ASSUME NEW j \in 0 .. m + 1, j < 1 PROVE h[1 - j] = s[m + 1 - j]
          OBVIOUS
        <4>1. j = 0 /\ 1 - j = 1 /\ m + 1 - j = m + 1  BY <1>0
        <4> QED  BY <1>1, <2>3, <4>1
      <3>2. ~(m + 1 < 1) /\ m + 1 <= 1 + MaxFailures - 1  BY <1>0, <2>2
      <3> QED  BY <1>1, <2>3, <3>1, <3>2 DEF Aligned
    <2>7. Len(g) <= MaxFailures /\ Len(g) <= Len(s)
      <3>1. Len(g) = 1 /\ Len(s) = m + 1  BY <1>1, <2>3, <2>6
      <3> QED  BY <1>0, <3>1
    <2> QED  BY <1>1, <1>2, <2>3, <2>4, <2>5, <2>6, <2>7 DEF s, g
  <1>4. CASE ~(f # <<>> /\ Head(f) > Window)
    <2> DEFINE h == Append(f, 0)
    <2>1. /\ h \in Seq(Nat) /\ Len(h) = n + 1 /\ Aging(h)
          /\ h[n + 1] = 0 /\ \A i \in 1 .. n : h[i] = f[i]
      BY OneMore DEF n
    <2>6. g = h  BY <1>4
    <2> HIDE DEF h, g
    <2>2. n <= m
      <3> SUFFICES ASSUME m < n PROVE FALSE
        BY <1>0
      <3>1. n - m \in 1 .. n /\ 1 \in 1 .. n /\ 1 <= n - m /\ n > 0
        BY <1>0
      <3>2. f[n - m] <= f[1]  BY <1>0, <3>1 DEF Aging
      <3>3. f[n - m] > Window /\ ~(f[1] > Window)  BY <1>a, <1>4, <1>c, <3>1
      <3> QED  BY <1>0, <1>00, <3>1, <3>2, <3>3
    <2>3. Aligned(h, s)
      <3>1. \A j \in 0 .. m + 1 : j < n + 1 /\ j < m + 1 => h[n + 1 - j] = s[m + 1 - j]
        <4> SUFFICES ASSUME NEW j \in 0 .. m + 1, j < n + 1, j < m + 1
                     PROVE  h[n + 1 - j] = s[m + 1 - j]
          OBVIOUS
        <4>1. CASE j = 0
          <5>1. n + 1 - j = n + 1 /\ m + 1 - j = m + 1  BY <1>0, <4>1
          <5> QED  BY <1>1, <2>1, <5>1
        <4>2. CASE j # 0
          <5> DEFINE i == j - 1
          <5>1. /\ i \in 0 .. m /\ i < n /\ i < m
                /\ n + 1 - j = n - i /\ m + 1 - j = m - i
                /\ n - i \in 1 .. n /\ m - i \in 1 .. m
            BY <1>0, <4>2
          <5> HIDE DEF i
          <5>2. f[n - i] = r[m - i]  BY <1>a, <5>1
          <5>3. h[n - i] = f[n - i]  BY <2>1, <5>1
          <5>4. s[m - i] = r[m - i]  BY <1>1, <5>1
          <5> QED  BY <5>1, <5>2, <5>3, <5>4
        <4> QED  BY <4>1, <4>2
      <3>2. ~(m + 1 < n + 1) /\ m + 1 <= n + 1 + MaxFailures - 1  BY <1>0, <1>a, <2>2
      <3>3. Len(s) = m + 1 /\ Len(h) = n + 1  BY <1>1, <2>1
      <3>4. \A j \in 0 .. Len(s) : j < Len(h) /\ j < Len(s) => h[Len(h) - j] = s[Len(s) - j]
        BY <1>0, <3>1, <3>3
      <3>5. ~(Len(s) < Len(h)) /\ Len(s) <= Len(h) + MaxFailures - 1  BY <3>2, <3>3
      <3> QED  BY <3>4, <3>5 DEF Aligned
    <2>7. Len(g) <= MaxFailures /\ Len(g) <= Len(s)  BY <1>0, <1>1, <2>1, <2>2, <2>6
    <2> QED  BY <1>1, <1>2, <2>1, <2>3, <2>6, <2>7 DEF s, g
  <1> QED  BY <1>3, <1>4

LEMMA EmptyCounts ==
  /\ <<>> \in Seq(Nat) /\ Len(<<>>) = 0
  /\ Aging(<<>>) /\ Within(<<>>) /\ Aligned(<<>>, <<>>)
  <1> DEFINE e == <<>>
  <1>1. e \in Seq(Nat) /\ Len(e) = 0 /\ DOMAIN e = {}  OBVIOUS
  <1> HIDE DEF e
  <1>2. MaxFailures \in Nat /\ MaxFailures >= 1  BY SupervisorBounds
  <1>3. Aging(e) /\ Within(e)  BY <1>1 DEF Aging, Within
  <1>4. Aligned(e, e)  BY <1>1, <1>2 DEF Aligned
  <1> QED  BY <1>1, <1>3, <1>4 DEF e

LEMMA InitFailures == SupervisorInit => FailInv
  <1>1. MaxFailures \in Nat /\ MaxFailures >= 1  BY SupervisorBounds
  <1>2. 0 <= MaxFailures - 1 /\ 0 <= MaxFailures  BY <1>1
  <1> QED  BY <1>2, EmptyCounts DEF SupervisorInit, FailInv, Counts, Limit, GivingUp

LEMMA QuietFailures ==
  ASSUME FailInv, Quiet
  PROVE  FailInv' /\ GivesUpRightly
  <1>1. MaxFailures \in Nat  BY SupervisorBounds
  <1>2. Limit \in Int /\ Limit' \in Int /\ Limit <= Limit'  BY <1>1 DEF Quiet, Limit
  <1>3. \A c \in Watched : Counts(failures'[c], recent'[c], Limit')
    <2> SUFFICES ASSUME NEW c \in Watched PROVE Counts(failures[c], recent[c], Limit')
      BY DEF Quiet
    <2>1. Counts(failures[c], recent[c], Limit)  BY DEF FailInv
    <2>2. Len(failures[c]) \in Nat  BY <2>1 DEF Counts
    <2> QED  BY <1>2, <2>1, <2>2 DEF Counts
  <1> QED  BY <1>3 DEF FailInv, Quiet, GivesUpRightly

LEMMA NextFailures ==
  ASSUME FailInv, [SupervisorNext]_supervisorVars
  PROVE  FailInv' /\ GivesUpRightly
  <1> USE DEF Quiet, GivingUp, thread, procs, counts, runFiles, rest, GoTo, StartChild, Stop, Pass,
              StopSequence, StopChildren
  <1>0. MaxFailures \in Nat /\ MaxFailures >= 1  BY SupervisorBounds
  <1>1. CASE UNCHANGED supervisorVars  BY <1>1, QuietFailures DEF supervisorVars
  <1>2. CASE Spawn  BY <1>2, QuietFailures DEF Spawn
  <1>3. CASE SpawnFails  BY <1>3, QuietFailures DEF SpawnFails
  <1>4. CASE IsReady  BY <1>4, QuietFailures DEF IsReady
  <1>5. CASE NotReady  BY <1>5, QuietFailures DEF NotReady
  <1>6. CASE StartServer  BY <1>6, QuietFailures DEF StartServer
  <1>7. CASE ServerRefused  BY <1>7, QuietFailures DEF ServerRefused
  <1>8. CASE SeesStop  BY <1>8, QuietFailures DEF SeesStop
  <1>9. CASE OperatorExit  BY <1>9, QuietFailures DEF OperatorExit
  <1>10. CASE BdsExited  BY <1>10, QuietFailures DEF BdsExited
  <1>11. CASE IdlePass  BY <1>11, QuietFailures DEF IdlePass
  <1>12. CASE BackoffEnds  BY <1>12, QuietFailures DEF BackoffEnds
  <1>13. CASE StopAlreadyDown  BY <1>13, QuietFailures DEF StopAlreadyDown
  <1>14. CASE StopAsk  BY <1>14, QuietFailures DEF StopAsk
  <1>15. CASE StopEscalate  BY <1>15, QuietFailures DEF StopEscalate
  <1>16. CASE BdsIsStopped  BY <1>16, QuietFailures DEF BdsIsStopped
  <1>17. CASE PidCleaned  BY <1>17, QuietFailures DEF PidCleaned
  <1>18. CASE RunStart  BY <1>18, QuietFailures DEF RunStart, Running
  <1>19. CASE Interrupt  BY <1>19, QuietFailures DEF Interrupt
  <1>20. ASSUME NEW c \in Watched, PrintReady(c) \/ ReadLine(c) PROVE FailInv' /\ GivesUpRightly
    BY <1>20, QuietFailures DEF PrintReady, ReadLine
  <1>21. ASSUME NEW c \in Children, ChildExits(c) \/ OrphanExits(c) PROVE FailInv' /\ GivesUpRightly
    BY <1>21, QuietFailures DEF ChildExits, OrphanExits
  <1>22. CASE CliStop  BY <1>22, QuietFailures DEF CliStop
  <1>23. ASSUME NEW line \in Lines, CliConsole(line) PROVE FailInv' /\ GivesUpRightly
    BY <1>23, QuietFailures DEF CliConsole
  <1>24. CASE OperatorStart
    <2>1. PICK cleared \in BOOLEAN :
            /\ cleared => /\ failures' = [failures EXCEPT !["runtime"] = <<>>]
                          /\ recent' = [recent EXCEPT !["runtime"] = <<>>]
            /\ ~cleared => failures' = failures /\ recent' = recent
      BY <1>24 DEF OperatorStart
    <2>2. pc # "stop" /\ pc' # "stop" /\ (goal' = "giveup" => goal = "giveup")
      BY <1>24 DEF OperatorStart
    <2>3. CASE ~cleared  BY <2>1, <2>2, <2>3, QuietFailures
    <2>4. CASE cleared
      <3>1. Limit = MaxFailures - 1 /\ Limit' = MaxFailures - 1  BY <2>2 DEF Limit
      <3>2. \A c \in Watched : Counts(failures[c], recent[c], MaxFailures - 1)
        BY <3>1 DEF FailInv
      <3>3. Counts(<<>>, <<>>, MaxFailures - 1)  BY <1>0, EmptyCounts DEF Counts
      <3>4. failures \in [Watched -> Seq(Nat)] /\ recent \in [Watched -> Seq(Nat)]  BY DEF FailInv
      <3>5. \A c \in Watched : Counts(failures'[c], recent'[c], MaxFailures - 1)
        BY <2>1, <2>4, <3>2, <3>3, <3>4
      <3>6. failures' \in [Watched -> Seq(Nat)] /\ recent' \in [Watched -> Seq(Nat)]
        BY <2>1, <2>4, <3>4, EmptyCounts
      <3> QED  BY <2>2, <3>1, <3>5, <3>6 DEF FailInv, GivesUpRightly
    <2> QED  BY <2>3, <2>4
  <1>25. CASE ChildDown
    <2>1. PICK c \in Down : 
            /\ failures' = [failures EXCEPT ![c] = Counted(c)]
            /\ recent' = [recent EXCEPT ![c] = Append(@, 0)]
            /\ IF Len(Counted(c)) >= MaxFailures
                 THEN pc' = "stop" /\ goal' = "giveup"
                 ELSE pc' = "backoff" /\ goal' = goal
      BY <1>25 DEF ChildDown
    <2>2. c \in Watched  BY DEF Down, WatchedNow, Watched
    <2>3. pc = "loop"  BY <1>25 DEF ChildDown
    <2>4. Limit = MaxFailures - 1  BY <2>3 DEF Limit
    <2>5. \A d \in Watched : Counts(failures[d], recent[d], MaxFailures - 1)
      BY <2>4 DEF FailInv
    <2>6. failures \in [Watched -> Seq(Nat)] /\ recent \in [Watched -> Seq(Nat)]  BY DEF FailInv
    <2>7. failures'[c] = Counted(c) /\ recent'[c] = Append(recent[c], 0)
      BY <2>1, <2>2, <2>6
    <2>8. Counts(Counted(c), Append(recent[c], 0), MaxFailures) /\ Len(Counted(c)) <= Len(Append(recent[c], 0))
      BY <2>2, <2>5, CountedAligned DEF Counts, Counted
    <2>9. \A d \in Watched : Counts(failures'[d], recent'[d], Limit')
      <3> SUFFICES ASSUME NEW d \in Watched PROVE Counts(failures'[d], recent'[d], Limit')
        OBVIOUS
      <3>1. MaxFailures - 1 <= Limit' /\ Limit' \in Int  BY <1>0 DEF Limit
      <3>2. CASE d # c
        <4>1. failures'[d] = failures[d] /\ recent'[d] = recent[d]  BY <2>1, <2>6, <3>2
        <4>2. Counts(failures[d], recent[d], MaxFailures - 1) /\ Len(failures[d]) \in Nat
          BY <2>5 DEF Counts
        <4>3. Len(failures[d]) <= Limit'  BY <1>0, <3>1, <4>2 DEF Counts
        <4> QED  BY <4>1, <4>2, <4>3 DEF Counts
      <3>3. CASE d = c
        <4>1. Len(Counted(c)) \in Nat /\ Len(Counted(c)) <= MaxFailures  BY <2>8 DEF Counts
        <4>2. Len(Counted(c)) <= Limit'  BY <1>0, <2>1, <4>1 DEF Limit
        <4> QED  BY <2>7, <2>8, <3>3, <4>2 DEF Counts
      <3> QED  BY <3>2, <3>3
    <2>10. failures' \in [Watched -> Seq(Nat)] /\ recent' \in [Watched -> Seq(Nat)]
      BY <2>1, <2>2, <2>6, <2>8 DEF Counts
    <2>11. GivesUpRightly
      <3>1. Len(Counted(c)) \in Nat /\ Len(Append(recent[c], 0)) \in Nat  BY <2>8 DEF Counts
      <3>2. Len(Counted(c)) >= MaxFailures => Len(recent'[c]) >= MaxFailures  BY <1>0, <2>7, <2>8, <3>1
      <3> QED  BY <2>1, <2>2, <3>2 DEF GivesUpRightly
    <2> QED  BY <2>9, <2>10, <2>11 DEF FailInv
  <1>26. CASE Return \/ Crash
    <2>1. /\ failures' = [c \in Watched |-> <<>>] /\ recent' = [c \in Watched |-> <<>>]
          /\ pc' = "down" /\ goal' = "first"
      BY <1>26 DEF Return, Crash, Gone
    <2>2. Limit' = MaxFailures - 1 /\ 0 <= MaxFailures - 1  BY <1>0, <2>1 DEF Limit
    <2>3. \A c \in Watched : Counts(failures'[c], recent'[c], Limit')
      BY <2>1, <2>2, EmptyCounts DEF Counts
    <2>4. failures' \in [Watched -> Seq(Nat)] /\ recent' \in [Watched -> Seq(Nat)]
      BY <2>1, EmptyCounts
    <2> QED  BY <2>1, <2>3, <2>4 DEF FailInv, GivesUpRightly
  <1>27. CASE Tick
    <2>1. /\ failures' = [c \in Watched |-> Older(failures[c])]
          /\ recent' = [c \in Watched |->
                          LET ages == Older(recent[c]) IN SubSeq(ages, Expired(ages) + 1, Len(ages))]
          /\ pc' = pc /\ goal' = goal
      BY <1>27 DEF Tick
    <2>2. Limit' = Limit  BY <2>1 DEF Limit
    <2>3. \A c \in Watched : Counts(failures'[c], recent'[c], Limit)
      <3> SUFFICES ASSUME NEW c \in Watched PROVE Counts(failures'[c], recent'[c], Limit)
        OBVIOUS
      <3>1. Counts(failures[c], recent[c], Limit)  BY DEF FailInv
      <3>2. failures'[c] = Older(failures[c])
            /\ recent'[c] = LET ages == Older(recent[c]) IN SubSeq(ages, Expired(ages) + 1, Len(ages))
        BY <2>1
      <3> QED  BY <3>1, <3>2, TickAligned DEF Counts
    <2>4. failures' \in [Watched -> Seq(Nat)] /\ recent' \in [Watched -> Seq(Nat)]
      BY <2>1, <2>3 DEF Counts
    <2> QED  BY <2>1, <2>2, <2>3, <2>4 DEF FailInv, GivesUpRightly
  <1> QED
    BY <1>1, <1>2, <1>3, <1>4, <1>5, <1>6, <1>7, <1>8, <1>9, <1>10, <1>11, <1>12, <1>13, <1>14,
       <1>15, <1>16, <1>17, <1>18, <1>19, <1>20, <1>21, <1>22, <1>23, <1>24, <1>25, <1>26, <1>27
    DEF SupervisorNext, SupervisorStep, Outside

(* _restart gives up only on a child that failed MaxFailures times inside  *)
(* one window, and goes on through at most 2 * MaxFailures - 1 of them.    *)
THEOREM RestartsAreBounded == SupervisorSpec => RestartPolicy
  <1> DEFINE Step == /\ goal' = "giveup" /\ goal # "giveup" => \E c \in Watched : Len(recent'[c]) >= MaxFailures
                     /\ \A c \in Watched : Len(recent'[c]) <= 2 * MaxFailures - 1
  <1>1. ASSUME FailInv, [SupervisorNext]_supervisorVars PROVE FailInv' /\ Step
    <2>1. FailInv' /\ GivesUpRightly  BY <1>1, NextFailures
    <2>2. ASSUME NEW c \in Watched PROVE Len(recent'[c]) <= 2 * MaxFailures - 1
      <3>1. Counts(failures'[c], recent'[c], Limit')  BY <2>1 DEF FailInv
      <3>2. Len(recent'[c]) \in Nat /\ Len(failures'[c]) \in Nat /\ Len(failures'[c]) <= Limit'
            /\ Len(recent'[c]) <= Len(failures'[c]) + MaxFailures - 1
        BY <3>1 DEF Counts, Aligned
      <3>3. MaxFailures \in Nat /\ Limit' \in Int /\ Limit' <= MaxFailures
        BY SupervisorBounds DEF Limit
      <3> QED  BY <3>2, <3>3
    <2> QED  BY <2>1, <2>2 DEF GivesUpRightly
  <1> HIDE DEF Step
  <1>2. SupervisorInit /\ [][SupervisorNext]_supervisorVars => [][Step]_supervisorVars
    BY <1>1, InitFailures, PTL
  <1> QED  BY <1>2, PTL DEF SupervisorSpec, RestartPolicy, Step

-----------------------------------------------------------------------------
(***************************************************************************)
(* Instance: which layout the marker names, and what each layout holds.    *)
(***************************************************************************)
Carrying == {"carry", "settings", "move", "remove"}

(* What of the types the arguments need.                                   *)
StoreTypes ==
  /\ marker \in Layouts /\ data \in [Layouts -> [DataFiles -> Nat]] /\ latest \in [DataFiles -> Nat]
  /\ files \in [Layouts -> SUBSET Scripts] /\ made \subseteq Scripts
  /\ running \in {"down", "up", "stopped"} /\ legacy \in [Configs -> Contents]
  /\ op = "none" <=> step = "none"

(* Which versions a command can meet: a version before endbotd has its     *)
(* stores in the plugin's folder, never carries them, and is switched to   *)
(* by a rollback only, once the plugin's layout is the authoritative one.  *)
VersionsKnown ==
  /\ ~toml => current \in Later
  /\ op \in {"start", "fresh", "existing", "rollback"} \/ step \in Carrying => current \in Later
  /\ op = "update" => target \in Later
  /\ op \in {"update", "rollback"} => toml
  /\ step \in {"properties", "toml"} => op \in {"fresh", "existing"}
  /\ step \in {"backup", "acquire"} => op \in {"fresh", "existing", "update"}
  /\ step = "switch" => op \in {"update", "rollback"}
  /\ op \in {"none", "start", "fresh", "existing", "update", "rollback"}

MarkerKnown ==
  /\ current \notin Later => marker = "plugin"
  /\ running # "down" => op = "none" /\ marker = LayoutOf(current)
  /\ op = "start" /\ step \notin Carrying => marker = "state"
  /\ op = "rollback" /\ step = "switch" => marker = "plugin"

(* The layout the marker names holds the last edits; past the copy of a    *)
(* file, so does the one the carry goes to.                                *)
DataKept ==
  /\ \A f \in DataFiles : data[marker][f] = latest[f]
  /\ step \in {"settings", "move", "remove"} => marker = From /\ data[To]["groups"] = latest["groups"]
  /\ step \in {"move", "remove"} => data[To]["scripts"] = latest["scripts"]

(* The script being removed has its copy.                                  *)
FilesKept == ScriptsKept /\ (step = "remove" => item \in files[To])

(* endbotd's file has the identities before the plugin's is rewritten.     *)
LegacyTaken == At("start", "plugin-config") /\ legacy["plugin"] = "held" => legacy["endbotd"] = "held"

StoreInv == StoreTypes /\ VersionsKnown /\ MarkerKnown /\ DataKept /\ FilesKept /\ LegacyTaken

-----------------------------------------------------------------------------
LEMMA InitStores == Init => StoreInv
  BY InstanceConstants
  DEF Init, StoreInv, StoreTypes, VersionsKnown, MarkerKnown, DataKept, FilesKept, ScriptsKept,
      LegacyTaken, At, Layouts, LayoutOf, Carrying, DataFiles, Configs, Contents

LEMMA NextStores ==
  ASSUME StoreInv, [Next]_vars
  PROVE  StoreInv'
  <1> USE InstanceConstants
      DEF StoreInv, StoreTypes, VersionsKnown, MarkerKnown, DataKept, FilesKept, ScriptsKept,
      LegacyTaken, At, Layouts, LayoutOf, Carrying, DataFiles, Configs, Contents, From, To, Idle, Begin, Go, End,
      install, server, stores, command, ghosts
  <1>1. CASE UNCHANGED vars  BY <1>1 DEF vars
  <1>2. CASE Setup  BY <1>2 DEF Setup
  <1>3. CASE CreateBackup  BY <1>3 DEF CreateBackup
  <1>4. CASE AcquireBds  BY <1>4 DEF AcquireBds
  <1>5. CASE SetupProperties  BY <1>5 DEF SetupProperties
  <1>6. CASE WriteEndbotToml  BY <1>6 DEF WriteEndbotToml
  <1>7. CASE ReportDoctor  BY <1>7 DEF ReportDoctor
  <1>8. CASE CarryNothing  BY <1>8 DEF CarryNothing, AfterCarry
  <1>9. CASE CarryGroups  BY <1>9 DEF CarryGroups, CopyData
  <1>34. CASE CarrySettings  BY <1>34 DEF CarrySettings, CopyData
  <1>10. CASE CopyScript  BY <1>10 DEF CopyScript
  <1>11. CASE RemoveScript  BY <1>11 DEF RemoveScript
  <1>12. CASE WriteMarker  BY <1>12 DEF WriteMarker, AfterCarry
  <1>13. CASE ExtractBundle  BY <1>13 DEF ExtractBundle
  <1>14. CASE UpdateClean  BY <1>14 DEF UpdateClean
  <1>15. CASE BdsChange  BY <1>15 DEF BdsChange
  <1>16. CASE UpdateRefused  BY <1>16 DEF UpdateRefused
  <1>17. CASE Switch  BY <1>17 DEF Switch
  <1>18. CASE Rollback  BY <1>18 DEF Rollback
  <1>19. CASE Start  BY <1>19 DEF Start
  <1>20. CASE GenerateRuntimeConfig  BY <1>20 DEF GenerateRuntimeConfig
  <1>21. CASE GenerateEndbotdConfig  BY <1>21 DEF GenerateEndbotdConfig, LegacyAllowlists
  <1>22. CASE GeneratePluginConfig  BY <1>22 DEF GeneratePluginConfig
  <1>23. CASE GenerateEndstoneConfig  BY <1>23 DEF GenerateEndstoneConfig
  <1>24. CASE StartRefused  BY <1>24 DEF StartRefused
  <1>25. CASE StartUp  BY <1>25 DEF StartUp
  <1>26. CASE StartEarlier  BY <1>26 DEF StartEarlier
  <1>27. CASE RestartBds  BY <1>27 DEF RestartBds
  <1>28. ASSUME NEW f \in DataFiles, Edit(f) PROVE StoreInv'  BY <1>28 DEF Edit
  <1>29. CASE ServerEnds  BY <1>29 DEF ServerEnds
  <1>30. CASE Interrupted  BY <1>30 DEF Interrupted
  <1>31. ASSUME NEW v \in Versions, Update(v) PROVE StoreInv'  BY <1>31 DEF Update
  <1>32. ASSUME NEW s \in Scripts, AddScript(s) PROVE StoreInv'  BY <1>32 DEF AddScript
  <1>33. ASSUME NEW f \in Facets, Break(f) \/ Fix(f) PROVE StoreInv'  BY <1>33 DEF Break, Fix
  <1>35. ASSUME NEW f \in Configs, BreakLegacy(f) PROVE StoreInv'  BY <1>35 DEF BreakLegacy
  <1> QED
    BY <1>1, <1>2, <1>3, <1>4, <1>5, <1>6, <1>7, <1>8, <1>9, <1>10, <1>11, <1>12, <1>13, <1>14,
       <1>15, <1>16, <1>17, <1>18, <1>19, <1>20, <1>21, <1>22, <1>23, <1>24, <1>25, <1>26, <1>27,
       <1>28, <1>29, <1>30, <1>31, <1>32, <1>33, <1>34, <1>35 DEF Next, Carry

(* A version that runs reads the last Groups and script settings: the      *)
(* layout it uses is the one the marker names, and _carry writes the       *)
(* marker only when the other layout has the same edit.                    *)
THEOREM EditsSurvive == Spec => []NoLostEdits
  <1>1. ASSUME StoreInv PROVE NoLostEdits
    <2>1. data \in [Layouts -> [DataFiles -> Nat]] /\ latest \in [DataFiles -> Nat]
          /\ marker \in Layouts /\ \A f \in DataFiles : data[marker][f] = latest[f]
      BY <1>1 DEF StoreInv, StoreTypes, DataKept
    <2>2. data[marker] = latest  BY <2>1
    <2> QED  BY <1>1, <2>2 DEF StoreInv, MarkerKnown, NoLostEdits
  <1> QED
    BY <1>1, InitStores, NextStores, PTL DEF Spec

(* No script file is lost, whatever step of _carry a command stops at.     *)
THEOREM ScriptFilesSurvive == Spec => []ScriptsKept
  <1>1. StoreInv => ScriptsKept
    BY DEF StoreInv, FilesKept
  <1> QED
    BY <1>1, InitStores, NextStores, PTL DEF Spec

(* The only step of a command that takes identities away rewrites the      *)
(* plugin's file, and generate_all has written endbotd's by then.          *)
LEMMA IdentitiesStep ==
  ASSUME StoreInv, [Next]_vars, LegacyAllowlists = "held"
  PROVE  LegacyAllowlists' = "held" \/ (op = "none" /\ op' = "none")
  <1> USE DEF install, server, stores, command, ghosts
  <1>1. CASE UNCHANGED legacy  BY <1>1 DEF LegacyAllowlists
  <1>2. CASE GenerateEndbotdConfig
    BY <1>2 DEF GenerateEndbotdConfig, LegacyAllowlists, StoreInv, StoreTypes, Configs
  <1>3. CASE GeneratePluginConfig
    BY <1>3 DEF GeneratePluginConfig, LegacyAllowlists, StoreInv, StoreTypes, LegacyTaken, Configs
  <1>4. CASE StartEarlier  BY <1>4 DEF StartEarlier, Idle
  <1>5. CASE \E f \in Configs : BreakLegacy(f)  BY <1>5 DEF BreakLegacy
  <1>6. UNCHANGED legacy \/ GenerateEndbotdConfig \/ GeneratePluginConfig
          \/ StartEarlier \/ (\E f \in Configs : BreakLegacy(f))
    BY DEF Next, vars, Setup, CreateBackup, AcquireBds, SetupProperties, WriteEndbotToml,
       ReportDoctor, Carry, CarryNothing, CarryGroups, CarrySettings, CopyScript, RemoveScript,
       WriteMarker, ExtractBundle, UpdateClean, BdsChange, UpdateRefused, Switch, Rollback, Start,
       GenerateRuntimeConfig, GenerateEndstoneConfig, StartRefused, StartUp,
       RestartBds, Edit, ServerEnds, Interrupted, Update, AddScript, Break, Fix
  <1> QED  BY <1>1, <1>2, <1>3, <1>4, <1>5, <1>6

(* Pre-bound identities the next start would read survive every step of    *)
(* every command, interrupted anywhere.                                    *)
THEOREM IdentitiesSurvive == Spec => LegacyKept
  <1>1. StoreInv /\ [Next]_vars =>
          [LegacyAllowlists = "held" => LegacyAllowlists' = "held" \/ (op = "none" /\ op' = "none")]_vars
    BY IdentitiesStep
  <1> QED
    BY <1>1, InitStores, NextStores, PTL DEF Spec, LegacyKept
=============================================================================
