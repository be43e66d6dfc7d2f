----------------------------- MODULE ScriptRuns -----------------------------
(***************************************************************************)
(* Script runs: the thread of each run (scripting.py), the runner process  *)
(* behind it with its pipe, reader thread and bounded queue                *)
(* (script_process.py), and the slots that runs and declaration checks     *)
(* share.  Work on Bots goes through the one ordered command worker.       *)
(*                                                                         *)
(* Events are kept by kind: "op" is every request the runner waits for     *)
(* (an operation, members, a wait), "log" one it does not wait for.  What  *)
(* a run's inputs own and how they are cleaned up is ScriptInputs'.        *)
(***************************************************************************)
EXTENDS Naturals, Sequences, FiniteSets, SequencesExt

CONSTANTS Players, Console, None,
          Bodies,          \* script sources, but for how they end
          Broken,          \* the one whose declaration is refused
          BotNames,
          RunIds,          \* places in the table of runs, 1..n, more than runs that can be active
          ServerRuns,      \* server-runs
          ControllerRuns,  \* controller-runs
          QueueSize,       \* events between the reader and the run's thread
          PipeSize         \* events the operating system's pipe holds

VARIABLES
  run,      \* the table of runs: a record from start until the thread leaves, or None
  proc,     \* its RunnerProcess: the runner, the pipe, the queue and the reader
  check,    \* declaration checks in progress: on the worker and on a web thread
  job,      \* the /botscript command the worker is in the middle of, or None
  bot,      \* the identity each Bot name has in the runtime; 0 when it has none
  granted,  \* players who may control Bots
  open,     \* the service takes work
  left      \* bounds that are left

runVars == <<run, proc, check, job, bot, granted, open, left>>

Senders  == Players \cup {Console}
Checkers == {"worker", "web"}
Phases   == {"start", "declare", "prepare", "loop", "throttle", "order", "settle", "reply", "close", "cleanup", "leave"}
Events   == {"params", "op", "log", "done", "error", "eof"}
Spend(event) == left[event] > 0 /\ left' = [left EXCEPT ![event] = @ - 1]

\* what the table holds of a run; target is the Bot parameter and the identity a form
\* chose, 0 when the name was typed
RunRecord == [by: Senders, body: Bodies, target: BotNames \X (0..2), pc: Phases, empty: BOOLEAN,
              canceled: BOOLEAN, late: BOOLEAN, pin: 0..2, acts: SUBSET (0..2),
              outcome: {"none", "completed", "failed", "stopped"}]

ASSUME RunBounds ==
  /\ {ServerRuns, ControllerRuns, QueueSize, PipeSize} \subseteq Nat \ {0}
  /\ IsFiniteSet(RunIds) /\ RunIds = 1..Cardinality(RunIds) /\ ServerRuns < Cardinality(RunIds)
  /\ Console \notin Players /\ Broken \in Bodies
  /\ None \notin Senders /\ None \notin RunRecord

RunInit ==
  /\ run = [r \in RunIds |-> None] /\ proc = [r \in RunIds |-> None]
  /\ check = [c \in Checkers |-> None] /\ job = None
  /\ bot = [n \in BotNames |-> 1] /\ granted = Players /\ open = TRUE

Authorized(by) == open /\ by \in granted \cup {Console}
WorkerFree == job = None /\ check["worker"] = None

(***************************************************************************)
(* Slots.                                                                  *)
(***************************************************************************)
Active(by)    == {r \in RunIds : run[r] # None /\ (by = None \/ run[r].by = by)}
Checking(by)  == {c \in Checkers : check[c] # None /\ (by = None \/ check[c] = by)}

\* Mutant: a declaration check does not count
ReserveRuns(by) ==
  Cardinality(Active(None)) < ServerRuns /\ Cardinality(Active(by)) < ControllerRuns

\* _reserve: runs and declaration checks share the limits
Reserve(by) ==
  /\ Cardinality(Active(None)) + Cardinality(Checking(None)) < ServerRuns
  /\ Cardinality(Active(by)) + Cardinality(Checking(by)) < ControllerRuns

\* inspect: the runner starts, goes as far as the declaration, and is closed
Inspect(c, by) == Authorized(by) /\ Reserve(by) /\ check' = [check EXCEPT ![c] = by]
Inspected(c)   == check' = [check EXCEPT ![c] = None]

WebCheck(by) ==
  /\ check["web"] = None /\ Spend("check") /\ Inspect("web", by)
  /\ UNCHANGED <<run, proc, job, bot, granted, open>>

WebChecked ==
  /\ check["web"] # None /\ Inspected("web")
  /\ UNCHANGED <<run, proc, job, bot, granted, open, left>>

Becomes(r, v) == run' = [run EXCEPT ![r] = v]

NewRun(by, body, target) ==
  [by |-> by, body |-> body, target |-> target, pc |-> "start", empty |-> FALSE,
   canceled |-> FALSE, late |-> FALSE, pin |-> 0, acts |-> {}, outcome |-> "none"]

\* start: the first free place of the table
Start(by, body, target) ==
  /\ Authorized(by) /\ Reserve(by) /\ Spend("run")
  /\ \E r \in RunIds :
       /\ run[r] = None /\ \A q \in 1..r - 1 : run[q] # None
       /\ Becomes(r, NewRun(by, body, target))
  /\ UNCHANGED <<proc, check, bot, granted, open>>

(***************************************************************************)
(* The runner (external) and the reader of its pipe.                       *)
(***************************************************************************)
NewProc == [alive |-> TRUE, at |-> "load", out |-> <<>>, queue |-> <<>>, reader |-> TRUE]
Live(r) == proc[r] # None /\ proc[r].alive

\* the runner writes an event: its declaration, a request it then waits on, a
\* line of its log, or its end
Emit(r, event, at) ==
  /\ Live(r) /\ Len(proc[r].out) < PipeSize
  /\ \/ /\ proc[r].at = "load"
        /\ IF run[r].body = Broken THEN event = "error" /\ at = "over" ELSE event = "params" /\ at = "asked"
        /\ UNCHANGED left
     \/ proc[r].at = "run" /\ event = "op" /\ at = "asked" /\ Spend("op")
     \/ proc[r].at = "run" /\ event = "log" /\ at = "run" /\ Spend("log")
     \/ proc[r].at = "run" /\ event \in {"done", "error"} /\ at = "over" /\ UNCHANGED left
  /\ proc' = [proc EXCEPT ![r].out = Append(@, event), ![r].at = at]
  /\ UNCHANGED <<run, check, job, bot, granted, open>>

\* it exits once it is over, or is lost: killed for memory or CPU time
Exit(r) ==
  /\ Live(r)
  /\ IF proc[r].at = "over" THEN UNCHANGED left ELSE Spend("crash")
  /\ proc' = [proc EXCEPT ![r].alive = FALSE]
  /\ UNCHANGED <<run, check, job, bot, granted, open>>

\* _read: one event from the pipe to the queue, waiting for room; at the end
\* of the pipe, or at a frame it cannot take, an error goes to the queue if it
\* has room, and the runner is killed
Read(r) ==
  /\ proc[r] # None /\ proc[r].reader
  /\ \/ /\ proc[r].out # <<>> /\ Len(proc[r].queue) < QueueSize /\ UNCHANGED left
        /\ proc' = [proc EXCEPT ![r].out = Tail(@), ![r].queue = Append(@, Head(proc[r].out))]
     \/ /\ IF proc[r].out = <<>> THEN ~proc[r].alive /\ UNCHANGED left ELSE Spend("crash")
        /\ proc' = [proc EXCEPT ![r].reader = FALSE, ![r].alive = FALSE,
                                ![r].queue = IF Len(@) < QueueSize THEN Append(@, "eof") ELSE @]
  /\ UNCHANGED <<run, check, job, bot, granted, open>>

(***************************************************************************)
(* The run's thread.                                                       *)
(***************************************************************************)
\* Mutant: only the run itself is looked at, not whether it was stopped
StoppedLate(r) == run[r].late \/ ~Authorized(run[r].by)

\* _alive, and the same conditions in receive
Stopped(r) == run[r].canceled \/ run[r].late \/ ~Authorized(run[r].by)

Goes(r, pc)      == Becomes(r, [run[r] EXCEPT !.pc = pc, !.empty = FALSE])
Ends(r, outcome) == Becomes(r, [run[r] EXCEPT !.pc = "close", !.empty = FALSE, !.outcome = outcome])
At(r, pcs)       == run[r] # None /\ run[r].pc \in pcs

\* RunnerProcess.__init__: the runner is started confined, or the run is over
Launch(r) ==
  /\ At(r, {"start"})
  /\ \/ proc' = [proc EXCEPT ![r] = NewProc] /\ Goes(r, "declare") /\ UNCHANGED left
     \/ /\ Spend("crash") /\ UNCHANGED proc
        /\ Becomes(r, [run[r] EXCEPT !.pc = "cleanup", !.outcome = "failed"])
  /\ UNCHANGED <<check, job, bot, granted, open>>

\* what the thread does with an event it took from the queue
Handle(r, event) ==
  CASE event = "log" /\ run[r].pc = "loop" -> UNCHANGED run
    [] event = "params" /\ run[r].pc = "declare" -> Goes(r, "prepare")
    [] event = "op" /\ run[r].pc = "loop" -> Goes(r, "throttle")
    [] event = "done" /\ run[r].pc = "loop" -> Ends(r, "completed")
    [] OTHER -> Ends(r, "failed")

\* receive: one turn of its loop, as far as the queue; a run whose events come
\* faster than its rate allows is over
Receive(r) ==
  /\ At(r, {"declare", "loop"}) /\ ~run[r].empty
  /\ IF Stopped(r) THEN Ends(r, "stopped") /\ UNCHANGED <<proc, left>>
     ELSE IF proc[r].queue # <<>>
     THEN /\ proc' = [proc EXCEPT ![r].queue = Tail(@)]
          /\ \/ Handle(r, Head(proc[r].queue)) /\ UNCHANGED left
             \/ run[r].pc = "loop" /\ Spend("crash") /\ Ends(r, "failed")
     ELSE Becomes(r, [run[r] EXCEPT !.empty = TRUE]) /\ UNCHANGED <<proc, left>>
  /\ UNCHANGED <<check, job, bot, granted, open>>

\* nothing came: the runner may have exited and the reader with it
Exited(r) ==
  /\ At(r, {"declare", "loop"}) /\ run[r].empty
  /\ IF ~proc[r].alive /\ ~proc[r].reader THEN Ends(r, "failed") ELSE Goes(r, run[r].pc)
  /\ UNCHANGED <<proc, check, job, bot, granted, open, left>>

\* Mutant: the parameter is looked up by name
UnchangedName(target) == bot[target[1]] # 0

\* the Bot a form chose still has that name; a typed name only has to exist
Unchanged(target) == bot[target[1]] # 0 /\ target[2] \in {0, bot[target[1]]}

\* _prepare, on the worker: the targets, then the pins they leave
Prepare(r) ==
  /\ At(r, {"prepare"}) /\ WorkerFree
  /\ IF Stopped(r) \/ ~Unchanged(run[r].target) THEN Ends(r, "failed")
     ELSE Becomes(r, [run[r] EXCEPT !.pc = "reply", !.pin = bot[run[r].target[1]]])
  /\ UNCHANGED <<proc, check, job, bot, granted, open, left>>

\* _throttle: the run's own thread waits for a slot of the rate
Throttle(r) ==
  /\ At(r, {"throttle"})
  /\ IF Stopped(r) THEN Ends(r, "stopped") ELSE Goes(r, "order")
  /\ UNCHANGED <<proc, check, job, bot, granted, open, left>>

\* _operation, on the worker; the runtime refuses a name that is not the pinned
\* Bot any more
Operate(r) ==
  /\ At(r, {"order"}) /\ WorkerFree
  /\ IF Stopped(r) THEN Ends(r, "stopped")
     ELSE Becomes(r, [run[r] EXCEPT !.pc = "settle",
                                    !.acts = IF bot[run[r].target[1]] = run[r].pin THEN @ \cup {run[r].pin} ELSE @])
  /\ UNCHANGED <<proc, check, job, bot, granted, open, left>>

\* _wait_job, _wait_mining and _wait_status: what a wait waits for has come, or
\* after a pause its status is asked for again
Settle(r) ==
  /\ At(r, {"settle"})
  /\ IF Stopped(r) THEN Ends(r, "stopped") ELSE \E pc \in {"reply", "throttle"} : Goes(r, pc)
  /\ UNCHANGED <<proc, check, job, bot, granted, open, left>>

\* send: the answer, to a runner that may be gone; its end of the pipe has room
Reply(r) ==
  /\ At(r, {"reply"})
  /\ IF Stopped(r) THEN Ends(r, "stopped") /\ UNCHANGED proc
     ELSE IF Live(r) THEN Goes(r, "loop") /\ proc' = [proc EXCEPT ![r].at = IF @ = "asked" THEN "run" ELSE @]
     ELSE Ends(r, "failed") /\ UNCHANGED proc
  /\ UNCHANGED <<check, job, bot, granted, open, left>>

\* RunnerProcess.close: the runner is killed and waited for, the reader joined
Close(r) ==
  /\ At(r, {"close"})
  /\ proc' = [proc EXCEPT ![r] = None] /\ Goes(r, "cleanup")
  /\ UNCHANGED <<check, job, bot, granted, open, left>>

\* the run's inputs are cleaned up on the worker; a closed one refuses
Cleanup(r) ==
  /\ At(r, {"cleanup"}) /\ (open => WorkerFree)
  /\ Goes(r, "leave")
  /\ UNCHANGED <<proc, check, job, bot, granted, open, left>>

Leave(r) ==
  /\ At(r, {"leave"})
  /\ Becomes(r, None)
  /\ UNCHANGED <<proc, check, job, bot, granted, open, left>>

Thread(r) == Launch(r) \/ Receive(r) \/ Exited(r) \/ Prepare(r) \/ Throttle(r) \/ Operate(r) \/ Settle(r)
             \/ Reply(r) \/ Close(r) \/ Cleanup(r) \/ Leave(r)

(***************************************************************************)
(* What ends runs or changes under them.                                   *)
(***************************************************************************)
Canceled(v) == [v EXCEPT !.canceled = TRUE]

\* stop: one's own runs, and for the console every run
Stop(by, r) ==
  /\ WorkerFree /\ Authorized(by) /\ r \in Active(IF by = Console THEN None ELSE by)
  /\ ~run[r].canceled /\ Spend("stop")
  /\ Becomes(r, Canceled(run[r]))
  /\ UNCHANGED <<proc, check, job, bot, granted, open>>

\* the time limit: the thread sees it, and the watchdog kills the runner
Late(r) ==
  /\ r \in Active(None) /\ ~run[r].late /\ Spend("late")
  /\ Becomes(r, [run[r] EXCEPT !.late = TRUE])
  /\ UNCHANGED <<proc, check, job, bot, granted, open>>

Watchdog(r) ==
  /\ Live(r) /\ run[r].late
  /\ proc' = [proc EXCEPT ![r].alive = FALSE]
  /\ UNCHANGED <<run, check, job, bot, granted, open, left>>

Revoke(p) ==
  /\ p \in granted /\ Spend("revoke") /\ granted' = granted \ {p}
  /\ UNCHANGED <<run, proc, check, job, bot, open>>

\* a Bot is renamed or forgotten, and another takes its name
Changes(n) ==
  /\ Spend("bot") /\ bot' = [bot EXCEPT ![n] = IF @ = 0 THEN 2 ELSE 0]
  /\ UNCHANGED <<run, proc, check, job, granted, open>>

\* cancel, when endbotd stops: no more work, and every run is stopped
Cancel ==
  /\ open /\ Spend("shut") /\ open' = FALSE
  /\ run' = [r \in RunIds |-> IF r \in Active(None) THEN Canceled(run[r]) ELSE run[r]]
  /\ UNCHANGED <<proc, check, job, bot, granted>>

RunNext ==
  \/ \E r \in RunIds : \/ Thread(r) \/ Exit(r) \/ Read(r) \/ Late(r) \/ Watchdog(r)
                       \/ \E event \in Events, at \in {"asked", "run", "over"} : Emit(r, event, at)
                       \/ \E by \in Senders : Stop(by, r)
  \/ \E by \in Senders : WebCheck(by)
  \/ WebChecked \/ Cancel
  \/ \E p \in Players : Revoke(p)
  \/ \E n \in BotNames : Changes(n)

-----------------------------------------------------------------------------
RunTypeOK ==
  /\ \A r \in RunIds : run[r] # None => run[r] \in RunRecord
  /\ \A r \in RunIds : proc[r] # None =>
       /\ proc[r].queue \in Seq(Events) /\ Len(proc[r].queue) <= QueueSize
       /\ proc[r].out \in Seq(Events) /\ Len(proc[r].out) <= PipeSize
  /\ \A c \in Checkers : check[c] \in Senders \cup {None}
  /\ bot \in [BotNames -> 0..2] /\ granted \subseteq Players /\ open \in BOOLEAN

\* No more runner processes exist than the limits allow, for the server and for
\* each controller, however runs and declaration checks on different threads
\* start and end (_reserve, inspect, _run's finally).
SlotsKept ==
  \E live \in {{r \in RunIds : Live(r)}} :
    /\ Cardinality(live) + Cardinality(Checking(None)) <= ServerRuns
    /\ \A by \in Senders :
         Cardinality({r \in live : run[r].by = by}) + Cardinality(Checking(by)) <= ControllerRuns

\* A run acts only on the Bot its form chose, and from typed words only on the one
\* that had the name when the run read its arguments, whoever has the name later
\* (_prepare's target check and pins).
ActsOnChosen ==
  \A r \in RunIds : run[r] # None =>
    run[r].acts \subseteq {IF run[r].target[2] # 0 THEN run[r].target[2] ELSE run[r].pin}

\* A run that was stopped, ran out of time or lost its authority leaves the table
\* and frees its slot, also when its runner hangs, floods its pipe or exits (_run).
\* A runner that leaves its answers unread until the pipe is full is not covered:
\* send waits for it, and without a time limit nothing kills it.
RunsEnd ==
  \A r \in RunIds :
    (r \in Active(None) /\ (run[r].canceled \/ run[r].late \/ run[r].by \notin granted \cup {Console}))
      ~> (r \notin Active(None))

=============================================================================
