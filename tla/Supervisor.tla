----------------------------- MODULE Supervisor -----------------------------
(***************************************************************************)
(* `endbot start`: one foreground supervisor, its three child processes,   *)
(* the files under state/run through which `endbot stop` and               *)
(* `endbot console` reach it, and the supervisors that follow it.          *)
(*                                                                         *)
(* Time is counted in ticks.  Failures are kept as ages (ticks since they  *)
(* were noticed), capped one past the window, so the clock has no end.     *)
(*                                                                         *)
(* Its names differ from those of Instance, so that CliProofs can speak    *)
(* of both parts of the command line.                                      *)
(***************************************************************************)
EXTENDS Naturals, Sequences, SequencesExt

CONSTANTS MaxFailures,   \* options.restart_max_failures
          Window,        \* options.restart_failure_window, in ticks
          BackoffCap,    \* options.restart_max_backoff, in ticks
          MaxRuns,       \* bound: supervisors started one after the other
          MaxConsole     \* bound: console lines queued at once

ASSUME SupervisorBounds ==
  /\ MaxFailures \in Nat \ {0} /\ Window \in Nat /\ BackoffCap \in Nat \ {0}
  /\ MaxRuns \in Nat /\ MaxConsole \in Nat

Watched  == {"runtime", "endbotd"}          \* the restartable children
Children == Watched \cup {"server"}
Lines    == {"start", "exit"}               \* what a stopped BDS answers to

VARIABLES
  run,         \* which supervisor this is; 0 before the first
  pc,          \* where its thread is
  goal,        \* why it starts or stops children
  child,       \* the child being started or restarted
  todo,        \* the children still to stop, in order
  asked,       \* the head of todo has been asked to stop
  delay,       \* ticks left of the back-off
  proc,        \* the child processes that are alive
  ready,       \* child.ready, the event the output reader sets
  printed,     \* ready lines printed and not read yet, per child
  failures,    \* child.failures, as ages
  keep,        \* options.keep_endbotd_after_bds
  bdsStopped, bdsRequest, stopFlag,
  stopFile, console, pidFile,  \* state/run
  orphans,     \* children that outlived a supervisor
  recent       \* ghost: ages of every failure inside the window

thread == <<run, pc, goal, child, todo, asked, delay, keep, bdsStopped, bdsRequest, stopFlag>>
procs  == <<proc, ready, printed, orphans>>
counts == <<failures, recent>>
runFiles == <<stopFile, console, pidFile>>
supervisorVars == <<thread, procs, counts, runFiles>>

Up(c)       == proc[c]
StopWanted  == stopFlag \/ stopFile
Running     == pc # "down"
-----------------------------------------------------------------------------
SupervisorInit ==
  /\ run = 0 /\ pc = "down" /\ goal = "first" /\ child = "runtime" /\ todo = <<>>
  /\ asked = FALSE /\ delay = 0
  /\ proc = [c \in Children |-> FALSE] /\ ready = [c \in Watched |-> FALSE]
  /\ printed = [c \in Watched |-> 0] /\ failures = [c \in Watched |-> <<>>]
  /\ keep = FALSE /\ bdsStopped = FALSE /\ bdsRequest = "none" /\ stopFlag = FALSE
  /\ stopFile = FALSE /\ console = <<>> /\ pidFile = 0 /\ orphans = {}
  /\ recent = [c \in Watched |-> <<>>]

(***************************************************************************)
(* run_start.  The checks before the supervisor (configuration, stores,    *)
(* doctor, ports, toolchain) pass or refuse; a stale pid file is removed   *)
(* either way.  A server that outlived its supervisor still holds its      *)
(* port, which the port check waits for.                                   *)
(***************************************************************************)
PidCleaned ==
  /\ ~Running /\ pidFile # 0
  /\ pidFile' = 0
  /\ UNCHANGED <<thread, procs, counts, stopFile, console>>

RunStart ==
  /\ ~Running /\ run < MaxRuns /\ "server" \notin orphans
  /\ run' = run + 1 /\ pidFile' = run + 1
  /\ keep' \in BOOLEAN
  /\ pc' = "start"
  /\ UNCHANGED <<goal, child, todo, asked, delay, bdsStopped, bdsRequest, stopFlag,
                 procs, counts, stopFile, console>>
-----------------------------------------------------------------------------
(***************************************************************************)
(* Where the thread goes next.  Each names the primed control variables.   *)
(***************************************************************************)
StopChildrenOrder == <<"endbotd", "runtime">>

\* Stop the children in order, then do what g says.
Stop(order, g) ==
  /\ pc' = "stop" /\ todo' = order /\ goal' = g /\ asked' = FALSE
  /\ UNCHANGED <<child, delay>>

StopSequence == Stop(<<"server">> \o StopChildrenOrder, "sequence")
StopChildren(g) == Stop(StopChildrenOrder, g)

GoTo(where) == pc' = where /\ UNCHANGED <<goal, child, todo, asked, delay>>

StartChild(c, g) ==
  /\ pc' = "start" /\ child' = c /\ goal' = g
  /\ UNCHANGED <<todo, asked, delay>>

rest == <<run, keep, stopFlag>>

\* The process is gone, and its memory with it.
Gone ==
  /\ pc' = "down" /\ goal' = "first" /\ child' = "runtime" /\ todo' = <<>>
  /\ asked' = FALSE /\ delay' = 0 /\ keep' = FALSE
  /\ ready' = [c \in Watched |-> FALSE] /\ printed' = [c \in Watched |-> 0]
  /\ failures' = [c \in Watched |-> <<>>] /\ recent' = [c \in Watched |-> <<>>]
  /\ bdsStopped' = FALSE /\ bdsRequest' = "none" /\ stopFlag' = FALSE
-----------------------------------------------------------------------------
(***************************************************************************)
(* _start and _await_ready.  goal is "first" in _run, "back" in _restart   *)
(* and "again" in _restart_bds.                                            *)
(***************************************************************************)
Spawn ==
  /\ pc = "start"
  /\ proc' = [proc EXCEPT ![child] = TRUE]
  /\ ready' = [ready EXCEPT ![child] = FALSE]
  /\ GoTo("await")
  /\ UNCHANGED <<rest, bdsStopped, bdsRequest, printed, orphans, counts, runFiles>>

SpawnFails ==
  /\ pc = "start"
  /\ \/ goal = "first" /\ StopChildren("fail")
     \/ goal \in {"back", "again"} /\ GoTo("loop")
  /\ UNCHANGED <<rest, bdsStopped, bdsRequest, procs, counts, runFiles>>

IsReady ==
  /\ pc = "await" /\ ready[child]
  /\ \/ /\ goal = "back"
        /\ GoTo("loop")
     \/ /\ goal \in {"first", "again"} /\ StopWanted
        /\ StopSequence
     \/ /\ goal = "first" /\ ~StopWanted /\ child = "runtime"
        /\ StartChild("endbotd", "first")
     \/ /\ \/ goal = "first" /\ child = "endbotd"
           \/ goal = "again"
        /\ ~StopWanted
        /\ GoTo("gate")
  /\ UNCHANGED <<rest, bdsStopped, bdsRequest, procs, counts, runFiles>>

\* Not ready: it exited, a stop was requested, or the time-out passed.
\* Unless a stop is wanted outside a restart, what is left of it is killed.
KillUnready == proc' = [proc EXCEPT ![child] = FALSE]

NotReady ==
  /\ pc = "await" /\ ~ready[child]
  /\ \/ /\ goal \in {"first", "again"} /\ StopWanted
        /\ StopSequence
        /\ UNCHANGED proc
     \/ /\ goal = "first" /\ ~StopWanted
        /\ KillUnready
        /\ StopChildren("fail")
     \/ /\ goal = "again" /\ ~StopWanted
        /\ KillUnready
        /\ GoTo("loop")
     \/ /\ goal = "back"
        /\ KillUnready
        /\ GoTo("loop")
  /\ UNCHANGED <<rest, bdsStopped, bdsRequest, ready, printed, orphans, counts, runFiles>>

\* _pre_server_check, then _start_server.
StartServer ==
  /\ pc = "gate"
  /\ proc' = [proc EXCEPT !["server"] = TRUE]
  /\ bdsStopped' = FALSE
  /\ GoTo("loop")
  /\ UNCHANGED <<rest, bdsRequest, ready, printed, orphans, counts, runFiles>>

\* Mutant: a refused start leaves the runtime it has just started.
ServerRefusedKeepsRuntime ==
  /\ pc = "gate"
  /\ \/ goal = "first" /\ StopChildren("fail")
     \/ goal = "again" /\ GoTo("loop")
  /\ UNCHANGED <<rest, bdsStopped, bdsRequest, procs, counts, runFiles>>

ServerRefused ==
  /\ pc = "gate"
  /\ \/ goal = "first" /\ StopChildren("fail")
     \/ goal = "again" /\ Stop(<<"runtime">>, "stopped")
  /\ UNCHANGED <<rest, bdsStopped, bdsRequest, procs, counts, runFiles>>
-----------------------------------------------------------------------------
(***************************************************************************)
(* One pass of _supervise: the console is pumped, then the first of: a     *)
(* stop, an operator's request while BDS is stopped, BDS's own exit, a     *)
(* child that is down.                                                     *)
(***************************************************************************)
Pumped == IF bdsStopped /\ console # <<>> THEN Last(console) ELSE bdsRequest

Pass(pcs) == pc \in pcs /\ console' = <<>>

SeesStop ==
  /\ Pass({"loop", "backoff"}) /\ StopWanted
  /\ bdsRequest' = Pumped
  /\ StopSequence
  /\ UNCHANGED <<rest, bdsStopped, procs, counts, stopFile, pidFile>>

OperatorExit ==
  /\ Pass({"loop"}) /\ ~StopWanted /\ bdsStopped /\ Pumped = "exit"
  /\ bdsRequest' = "none"
  /\ StopChildren("code")
  /\ UNCHANGED <<rest, bdsStopped, procs, counts, stopFile, pidFile>>

OperatorStart ==
  /\ Pass({"loop"}) /\ ~StopWanted /\ bdsStopped /\ Pumped = "start"
  /\ bdsRequest' = "none"
  /\ \/ /\ failures' = [failures EXCEPT !["runtime"] = <<>>]
        /\ recent' = [recent EXCEPT !["runtime"] = <<>>]
        /\ StartChild("runtime", "again")
     \/ /\ GoTo("loop") \* _pre_restart_check refuses
        /\ UNCHANGED counts
  /\ UNCHANGED <<rest, bdsStopped, procs, stopFile, pidFile>>

BdsExited ==
  /\ Pass({"loop"}) /\ ~StopWanted /\ ~bdsStopped /\ ~Up("server")
  /\ IF keep THEN Stop(<<"runtime">>, "stopped") ELSE StopChildren("code")
  /\ UNCHANGED <<rest, bdsStopped, bdsRequest, procs, counts, stopFile, pidFile>>

WatchedNow == IF bdsStopped THEN {"endbotd"} ELSE Watched

\* The runtime is looked at first.
Down == IF "runtime" \in WatchedNow /\ ~Up("runtime") THEN {"runtime"}
        ELSE IF ~Up("endbotd") THEN {"endbotd"} ELSE {}

NoRequest == Pumped = "none" /\ (bdsStopped \/ Up("server"))

IdlePass ==
  /\ Pass({"loop", "backoff"}) /\ ~StopWanted
  /\ IF pc = "loop" THEN NoRequest /\ Down = {} ELSE delay > 0
  /\ bdsRequest' = Pumped
  /\ <<console', bdsRequest'>> # <<console, bdsRequest>>
  /\ UNCHANGED <<rest, pc, goal, child, todo, asked, delay, bdsStopped, procs, counts,
                 stopFile, pidFile>>

(***************************************************************************)
(* _restart: count the failure, give up or back off, then start again.     *)
(***************************************************************************)
Backoff(n) == IF 2 ^ (n - 1) > BackoffCap THEN BackoffCap ELSE 2 ^ (n - 1)

\* Mutant: the window starts again with every failure.
CountedFromLast(c) ==
  IF failures[c] # <<>> /\ Last(failures[c]) > Window THEN <<0>> ELSE Append(failures[c], 0)

Counted(c) ==
  IF failures[c] # <<>> /\ Head(failures[c]) > Window THEN <<0>> ELSE Append(failures[c], 0)

ChildDown ==
  \E c \in Down :
    /\ Pass({"loop"}) /\ ~StopWanted /\ NoRequest
    /\ bdsRequest' = Pumped
    /\ failures' = [failures EXCEPT ![c] = Counted(c)]
    /\ recent' = [recent EXCEPT ![c] = Append(@, 0)]
    /\ IF Len(Counted(c)) >= MaxFailures
         THEN
              /\ Stop(<<"server">> \o StopChildrenOrder, "giveup")
         ELSE /\ pc' = "backoff" /\ child' = c /\ delay' = Backoff(Len(Counted(c)))
              /\ UNCHANGED <<goal, todo, asked>>
    /\ UNCHANGED <<rest, bdsStopped, procs, stopFile, pidFile>>

BackoffEnds ==
  /\ Pass({"backoff"}) /\ ~StopWanted /\ delay = 0
  /\ bdsRequest' = Pumped
  /\ StartChild(child, "back")
  /\ UNCHANGED <<rest, bdsStopped, procs, counts, stopFile, pidFile>>
-----------------------------------------------------------------------------
(***************************************************************************)
(* Stopping the children in todo one after the other, and what follows.    *)
(***************************************************************************)
StopAlreadyDown ==
  /\ pc = "stop" /\ todo # <<>> /\ ~Up(Head(todo))
  /\ todo' = Tail(todo) /\ asked' = FALSE
  /\ UNCHANGED <<rest, pc, goal, child, delay, bdsStopped, bdsRequest, procs, counts, runFiles>>

\* `stop` on the console, closing stdin, or a shutdown request that may fail.
StopAsk ==
  /\ pc = "stop" /\ todo # <<>> /\ Up(Head(todo)) /\ ~asked
  /\ asked' = TRUE
  /\ UNCHANGED <<rest, pc, goal, child, todo, delay, bdsStopped, bdsRequest, procs, counts, runFiles>>

\* Mutant: an overdue child is reported and left alone.
StopEscalateReports ==
  /\ pc = "stop" /\ todo # <<>> /\ Up(Head(todo)) /\ asked
  /\ todo' = Tail(todo) /\ asked' = FALSE
  /\ UNCHANGED <<rest, pc, goal, child, delay, bdsStopped, bdsRequest, procs, counts, runFiles>>

\* Mutant: the stop waits for as long as the child takes.
StopWaitsForever ==
  /\ pc = "stop" /\ todo # <<>> /\ ~Up(Head(todo)) /\ asked
  /\ todo' = Tail(todo) /\ asked' = FALSE
  /\ UNCHANGED <<rest, pc, goal, child, delay, bdsStopped, bdsRequest, procs, counts, runFiles>>

StopEscalate ==
  /\ pc = "stop" /\ todo # <<>> /\ Up(Head(todo)) /\ asked
  /\ proc' = [proc EXCEPT ![Head(todo)] = FALSE]
  /\ todo' = Tail(todo) /\ asked' = FALSE
  /\ UNCHANGED <<rest, pc, goal, child, delay, bdsStopped, bdsRequest, ready, printed, orphans, counts, runFiles>>

\* _enter_bds_stopped, or a start that was refused after its runtime came up.
BdsIsStopped ==
  /\ pc = "stop" /\ todo = <<>> /\ goal = "stopped"
  /\ bdsStopped' = TRUE
  /\ GoTo("loop")
  /\ UNCHANGED <<rest, bdsRequest, procs, counts, runFiles>>

\* run()'s finally: the request files and the pid files are removed.
Return ==
  /\ pc = "stop" /\ todo = <<>> /\ goal # "stopped"
  /\ Gone
  /\ pidFile' = 0 /\ stopFile' = FALSE /\ console' = <<>>
  /\ UNCHANGED <<run, proc, orphans>>
-----------------------------------------------------------------------------
(***************************************************************************)
(* The rest of the machine.                                                *)
(***************************************************************************)
\* A child prints its ready line.  One whose port an orphan holds never does.
PrintReady(c) ==
  /\ Up(c) /\ ~ready[c] /\ printed[c] = 0 /\ c \notin orphans
  /\ printed' = [printed EXCEPT ![c] = 1]
  /\ UNCHANGED <<thread, proc, ready, orphans, counts, runFiles>>

\* The output reader thread sets the event, whichever process printed it.
ReadLine(c) ==
  /\ Running /\ printed[c] > 0
  /\ printed' = [printed EXCEPT ![c] = 0]
  /\ ready' = [ready EXCEPT ![c] = TRUE]
  /\ UNCHANGED <<thread, proc, orphans, counts, runFiles>>

\* A child exits, because it was asked to, or on its own.
ChildExits(c) ==
  /\ Up(c)
  /\ proc' = [proc EXCEPT ![c] = FALSE]
  /\ UNCHANGED <<thread, ready, printed, orphans, counts, runFiles>>

Older(ages) == [i \in DOMAIN ages |-> IF ages[i] > Window THEN ages[i] ELSE ages[i] + 1]

\* How many of the ages, oldest first, are past the window.
Expired(ages) == CHOOSE k \in 0..Len(ages) : \A i \in DOMAIN ages : ages[i] > Window <=> i <= k

Tick ==
  /\ Running
  /\ delay' = IF delay > 0 THEN delay - 1 ELSE 0
  /\ failures' = [c \in Watched |-> Older(failures[c])]
  /\ recent' = [c \in Watched |->
                  LET ages == Older(recent[c]) IN SubSeq(ages, Expired(ages) + 1, Len(ages))]
  /\ <<delay', counts'>> # <<delay, counts>>
  /\ UNCHANGED <<run, pc, goal, child, todo, asked, keep, bdsStopped, bdsRequest, stopFlag,
                 procs, runFiles>>

\* The supervisor is killed: its children outlive it, its files stay.
Crash ==
  /\ Running /\ run < MaxRuns
  /\ Gone
  /\ orphans' = orphans \cup {c \in Children : Up(c)}
  /\ proc' = [c \in Children |-> FALSE]
  /\ UNCHANGED <<run, runFiles>>

OrphanExits(c) ==
  /\ c \in orphans
  /\ orphans' = orphans \ {c}
  /\ UNCHANGED <<thread, proc, ready, printed, counts, runFiles>>

Interrupt == \* request_stop, from the signal handlers
  /\ Running /\ ~StopWanted
  /\ stopFlag' = TRUE
  /\ UNCHANGED <<run, pc, goal, child, todo, asked, delay, keep, bdsStopped, bdsRequest,
                 procs, counts, runFiles>>

(***************************************************************************)
(* `endbot stop` and `endbot console` look for a live supervisor and write *)
(* their request; a stale pid file is removed instead.  One stop is asked  *)
(* for at a time, by `endbot stop` or by a signal.                         *)
(***************************************************************************)
CliStop ==
  /\ Running /\ pidFile = run /\ ~StopWanted
  /\ stopFile' = TRUE
  /\ UNCHANGED <<thread, procs, counts, console, pidFile>>

CliConsole(line) ==
  /\ Running /\ pidFile = run /\ Len(console) < MaxConsole
  /\ console' = Append(console, line)
  /\ UNCHANGED <<thread, procs, counts, stopFile, pidFile>>
-----------------------------------------------------------------------------
SupervisorStep ==
  \/ Spawn \/ SpawnFails \/ IsReady \/ NotReady \/ StartServer \/ ServerRefused
  \/ SeesStop \/ OperatorExit \/ OperatorStart \/ BdsExited \/ IdlePass \/ ChildDown \/ BackoffEnds
  \/ StopAlreadyDown \/ StopAsk \/ StopEscalate \/ BdsIsStopped \/ Return

Outside ==
  \/ PidCleaned \/ RunStart \/ Crash \/ Interrupt
  \/ \E c \in Watched : PrintReady(c) \/ ReadLine(c)
  \/ \E c \in Children : ChildExits(c) \/ OrphanExits(c)
  \/ CliStop
  \/ \E line \in Lines : CliConsole(line)

SupervisorNext == SupervisorStep \/ Outside \/ Tick

\* The supervisor's thread runs and time passes; nothing is owed by the children.
Fairness == WF_supervisorVars(SupervisorStep) /\ WF_supervisorVars(Tick)

SupervisorSpec == SupervisorInit /\ [][SupervisorNext]_supervisorVars /\ Fairness
-----------------------------------------------------------------------------
\* The type of every variable; a back-off never exceeds options.restart_max_backoff.
SupervisorTypeOK ==
  /\ run \in 0..MaxRuns /\ pidFile \in 0..MaxRuns
  /\ pc \in {"down", "start", "await", "gate", "loop", "backoff", "stop"}
  /\ goal \in {"first", "back", "again", "fail", "sequence", "code", "giveup", "stopped"}
  /\ child \in Watched /\ Range(todo) \subseteq Children /\ delay \in 0..BackoffCap
  /\ {asked, keep, bdsStopped, stopFlag, stopFile} \subseteq BOOLEAN
  /\ proc \in [Children -> BOOLEAN] /\ ready \in [Watched -> BOOLEAN] /\ printed \in [Watched -> 0..1]
  /\ bdsRequest \in Lines \cup {"none"} /\ Range(console) \subseteq Lines
  /\ Len(console) <= MaxConsole /\ orphans \subseteq Children
  /\ \A c \in Watched : Range(failures[c]) \cup Range(recent[c]) \subseteq 0..(Window + 1)

\* run() never returns with a child of its own alive, whichever of its paths it
\* returns by: a failed first start, a stop, BDS's exit, or giving up.  A kill is
\* taken to work: kill_process_tree tries, and waits five seconds.
NothingLeft == pc = "down" => \A c \in Children : ~Up(c)

\* While the supervisor waits with BDS stopped, neither BDS nor the runtime is
\* alive: every way a `start` line can fail in _restart_bds undoes its part.
StoppedMeansStopped ==
  bdsStopped /\ pc \in {"loop", "backoff"} => ~Up("server") /\ ~Up("runtime")

\* _restart gives up only when the child failed MaxFailures times inside one
\* window, and keeps restarting through at most twice as many: the window is
\* counted from the oldest failure and starts empty when that one is too old.
RestartPolicy ==
  [][/\ goal' = "giveup" /\ goal # "giveup" => \E c \in Watched : Len(recent'[c]) >= MaxFailures
     /\ \A c \in Watched : Len(recent'[c]) <= 2 * MaxFailures - 1]_supervisorVars

\* A wanted stop ends the supervisor, from wherever its thread is and whatever
\* its children do: every wait is bounded and every overdue child is killed.
StopServed == StopWanted /\ Running ~> ~Running

=============
