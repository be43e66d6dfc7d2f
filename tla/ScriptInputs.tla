---------------------------- MODULE ScriptInputs ----------------------------
(***************************************************************************)
(* The continuing inputs of one Bot and the script runs that own them:     *)
(* endbot_core's OwnedInputs (script_inputs.py) over the runtime control   *)
(* port, the ordered worker and the mining poll of AsyncCommandRunner, the *)
(* run threads of ScriptService, and endbotd's run journal with its        *)
(* recovery after an unclean exit.                                         *)
(*                                                                         *)
(* A thread's step ends where another thread can see its effect: after a   *)
(* request to the runtime, after the ownership change with the journal     *)
(* snapshot it triggers, and after the journal write.                      *)
(***************************************************************************)
EXTENDS Naturals, Sequences

CONSTANTS
  Runs,        \* run identities; each is used by one run
  Channels,    \* the input channels in play
  Player,      \* every caller without a script scope
  Nobody,
  MaxOps,      \* bound: players' commands on the Bot and script operations
  MaxEvents,   \* bound: failed requests and journal writes, crashes and mining polls together
  MaxRestarts  \* bound: starts of endbotd after the first

ASSUME InputsAssumption ==
  /\ {"move", "mine"} \subseteq Channels
  /\ Channels \subseteq {"move", "jump", "attack", "use", "sprint", "sneak", "mine"}
  /\ Player \notin Runs /\ Nobody \notin Runs /\ Player # Nobody
  /\ Runs \cap {"worker", "poll", "main"} = {}
  /\ MaxOps \in Nat /\ MaxEvents \in Nat /\ MaxRestarts \in Nat

VARIABLES
  rt,       \* the runtime: who set each channel, the mining loop, and (history) acknowledged or not
  late,     \* requests the caller gave up on that the runtime will still serve, in order
  loopIds,  \* mining loop identities given out
  owners,   \* OwnedInputs._owners
  runs,     \* ScriptService._runs
  stage,    \* where each run's thread is
  queue,    \* jobs waiting for the ordered worker
  wk,       \* what the worker is doing
  mining,   \* GroupCommandService._mining_loops: the Bot's loop, or 0
  poll,     \* what the mining poll is doing
  snap,     \* the journal record each thread has taken and not written yet
  file,     \* endbotd-runs.json
  phase,    \* of the endbotd process
  abandoned,\* history: channels whose cleanup failed, that no journal listed at a crash, or the poll disowned
  count     \* operations, events and restarts so far

endbotdVars == <<rt, late, loopIds, owners, runs, stage, queue, wk, mining, poll, snap, file, phase, abandoned, count>>
inputVars   == <<rt, late, loopIds, abandoned>>
threadVars  == <<runs, stage, queue, wk, mining, poll>>

(***************************************************************************)
(* Entries.  The same record serves the runtime's input, an ownership and  *)
(* a journaled channel; sure is history: the runtime acknowledged it.      *)
(***************************************************************************)
Entries == [by : Runs \cup {Player, Nobody}, loop : Nat, sure : BOOLEAN]
Idle    == [by |-> Nobody, loop |-> 0, sure |-> FALSE]
NoInput == [c \in Channels |-> Idle]

\* A request: on starts cs, off ends them; loop makes a mining stop conditional.
Requests == [on : BOOLEAN, cs : SUBSET Channels, by : Runs \cup {Player, Nobody}, loop : Nat]
BeginInput(c, by)   == [on |-> TRUE,  cs |-> {c}, by |-> by, loop |-> 0]
End(c, by, l)  == [on |-> FALSE, cs |-> {c}, by |-> by, loop |-> l]
StopAll(by)    == [on |-> FALSE, cs |-> Channels, by |-> by, loop |-> 0]
Asked(by)      == {BeginInput(c, by) : c \in Channels} \cup {End(c, by, 0) : c \in Channels} \cup {StopAll(by)}
NoRequest      == StopAll(Nobody)

Cleared == {"move", "attack", "use"}   \* what a mining start ends
ClearedBy(q) == IF q.on /\ q.cs = {"mine"} THEN Cleared \cap Channels ELSE {}

\* What a request makes of channel c's input e; l is the identity of a loop it starts.
AppliedTo(e, c, q, l, sure) ==
  IF c \in ClearedBy(q) THEN Idle
  ELSE IF c \notin q.cs THEN e
  ELSE IF q.on THEN [by |-> q.by, loop |-> IF c = "mine" THEN l ELSE 0, sure |-> sure]
  ELSE IF q.loop \in {0, e.loop} THEN Idle ELSE e

Applied(s, q, l, sure) == [c \in Channels |-> AppliedTo(s[c], c, q, l, sure)]

\* What serving requests nobody waits for makes of the inputs; a loop one of them
\* will start has no identity yet.
ServedOne(s, q) == Applied(s, q, 0, FALSE)
Served(s, requests) ==
  LET after[i \in 0..Len(requests)] == IF i = 0 THEN s ELSE ServedOne(after[i - 1], requests[i])
  IN  after[Len(requests)]

\* Mutant: a start whose answer was lost is not owned.
OnlyAnswered(q, l, sure) ==
  IF ~sure THEN owners
  ELSE [c \in Channels |->
          IF c \in q.cs THEN IF q.on /\ q.by \in Runs
                             THEN [by |-> q.by, loop |-> IF c = "mine" THEN l ELSE 0, sure |-> sure]
                             ELSE Idle
          ELSE IF c \in ClearedBy(q) THEN Idle
          ELSE owners[c]]

\* Mutant: only the requests of scripts are recorded.
OnlyScripts(q, l, sure) ==
  IF q.by \notin Runs \/ ~(sure \/ q.on) THEN owners
  ELSE [c \in Channels |->
          IF c \in q.cs THEN IF q.on THEN [by |-> q.by, loop |-> IF c = "mine" THEN l ELSE 0, sure |-> sure]
                             ELSE Idle
          ELSE IF sure /\ c \in ClearedBy(q) THEN Idle
          ELSE owners[c]]

\* Ownership after a request: a start by a run owns its channel, any other
\* acknowledged request disowns the channels it sets.
Recorded(q, l, sure) ==
  IF \/ ~sure /\ ~(q.on /\ q.by \in Runs)
     \/ ~q.on /\ q.loop # 0 /\ owners["mine"] # Idle /\ owners["mine"].loop # q.loop
  THEN owners
  ELSE [c \in Channels |->
          IF c \in q.cs THEN IF q.on /\ q.by \in Runs
                             THEN [by |-> q.by, loop |-> IF c = "mine" THEN l ELSE 0, sure |-> sure]
                             ELSE Idle
          ELSE IF sure /\ c \in ClearedBy(q) THEN Idle
          ELSE owners[c]]

OwnedBy(rs, os) == {c \in Channels : os[c].by \in rs}

\* _journal_runs: the runs in the table with the channels each owns.
JournalOf(rs, os) ==
  [runs  |-> rs,
   owned |-> [c \in Channels |-> IF os[c].by \in rs THEN [os[c] EXCEPT !.sure = FALSE] ELSE Idle]]
NoRuns  == JournalOf({}, NoInput)
Pending == [runs |-> {}, owned |-> <<>>]   \* no record taken

Writers == {"worker", "poll", "main"} \cup Runs
Working(at, job, entries, todo, l, sure) ==
  [at |-> at, job |-> job, entries |-> entries, todo |-> todo, loop |-> l, sure |-> sure]
WorkerJob(kind, r, q) == [kind |-> kind, run |-> r, q |-> q]
NoJob       == WorkerJob("none", Nobody, NoRequest)
Resting     == Working("idle", NoJob, NoInput, {}, 0, FALSE)
PollResting == [at |-> "idle", loop |-> 0]

Accepting  == phase = "up"                        \* commands and script operations are accepted
Alive == phase \in {"up", "draining", "final", "closed"}
Shut  == phase \in {"draining", "final", "closed"}   \* the executor takes no more jobs
Tally(k) == count' = [count EXCEPT ![k] = @ + 1]
MayHappen == count.events < MaxEvents

InputsInit ==
  /\ rt = NoInput /\ late = <<>> /\ loopIds = 0
  /\ owners = NoInput /\ runs = {} /\ stage = [r \in Runs |-> "new"]
  /\ queue = <<>> /\ wk = Resting /\ mining = 0 /\ poll = PollResting
  /\ snap = [w \in Writers |-> Pending] /\ file = NoRuns
  /\ phase = "up" /\ abandoned = {}
  /\ count = [ops |-> 0, events |-> 0, restarts |-> 0]

(***************************************************************************)
(* One request over the control port.  The runtime serves requests in      *)
(* order: an answered one finds no earlier one waiting.  out is ok; an     *)
(* error answer (refused); unavailable without effect (lost); unavailable  *)
(* or an unreadable answer although the runtime serves the request (late). *)
(***************************************************************************)
Answer(q, out, counted) ==
  /\ count' = IF out = "ok" THEN counted ELSE [counted EXCEPT !.events = @ + 1]
  /\ \/ /\ out = "ok" /\ late = <<>>
        /\ rt' = Applied(rt, q, loopIds + 1, TRUE)
        /\ loopIds' = IF q.on /\ "mine" \in q.cs THEN loopIds + 1 ELSE loopIds
        /\ UNCHANGED late
     \/ /\ out = "refused" /\ late = <<>> /\ MayHappen
        /\ UNCHANGED <<rt, late, loopIds>>
     \/ /\ out = "lost" /\ MayHappen
        /\ UNCHANGED <<rt, late, loopIds>>
     \/ /\ out = "late" /\ MayHappen
        /\ late' = Append(late, q)
        /\ UNCHANGED <<rt, loopIds>>
Outcomes == {"ok", "refused", "lost", "late"}
Unavailable(out) == out \in {"lost", "late"}

\* The runtime serves a request whose caller has given up.
ServeLate ==
  /\ late # <<>>
  /\ rt' = Applied(rt, Head(late), loopIds + 1, FALSE)
  /\ loopIds' = IF Head(late).on /\ "mine" \in Head(late).cs THEN loopIds + 1 ELSE loopIds
  /\ late' = Tail(late)
  /\ UNCHANGED <<owners, threadVars, snap, file, phase, abandoned, count>>

\* An input ends by itself: its duration, its count, its lease or its session.
InputEnds(c) ==
  /\ rt[c] # Idle
  /\ rt' = [rt EXCEPT ![c] = Idle]
  /\ UNCHANGED <<late, loopIds, owners, threadVars, snap, file, phase, abandoned, count>>

(***************************************************************************)
(* RunJournal.write: w writes the record it took earlier.                  *)
(***************************************************************************)
Closed == phase = "closed"

Write(w) ==
  /\ snap' = [snap EXCEPT ![w] = Pending]
  /\ \/ file' = (IF Closed THEN file ELSE snap[w]) /\ UNCHANGED count
     \/ ~Closed /\ MayHappen /\ Tally("events") /\ UNCHANGED file
Take(w, rs, os) == snap' = [snap EXCEPT ![w] = JournalOf(rs, os)]

(***************************************************************************)
(* The ordered worker.  A command or a script operation is one step with   *)
(* the worker taking it: until then nobody can tell it from one that has   *)
(* not been submitted, and once the service closes, one still queued ends  *)
(* without effect (_execute, _alive).  The queue holds the cleanups.       *)
(***************************************************************************)
Takes == Accepting /\ wk.at = "idle"

\* /botscript run, ScriptService.start: the run enters the table, its thread starts.
WorkerStart(r) ==
  /\ Takes /\ stage[r] = "new"
  /\ runs' = runs \cup {r}
  /\ stage' = [stage EXCEPT ![r] = "live"]
  /\ Take("worker", runs \cup {r}, owners)
  /\ wk' = [Resting EXCEPT !.at = "write"]
  /\ UNCHANGED <<inputVars, owners, queue, mining, poll, file, phase, count>>

\* OwnedInputs.request up to its answer; then _record and _changed follow.
Request(job) ==
  /\ Takes /\ count.ops < MaxOps
  /\ \E out \in Outcomes :
       /\ Answer(job.q, out, [count EXCEPT !.ops = @ + 1])
       /\ abandoned' = IF out = "ok" THEN abandoned \ (job.q.cs \cup ClearedBy(job.q)) ELSE abandoned
       /\ wk' = IF out = "refused"
                THEN Working("record", WorkerJob(job.kind, job.run, NoRequest), NoInput, {}, 0, FALSE)
                ELSE Working("record", job, NoInput, {},
                             IF out = "ok" /\ "mine" \in job.q.cs THEN loopIds' ELSE 0, out = "ok")
  /\ UNCHANGED <<owners, runs, queue, mining, poll, snap, file, phase>>

\* /bot <name> ... by a player, the console or the web.
WorkerCommand(q) == Request(WorkerJob("command", Nobody, q)) /\ UNCHANGED stage

\* The run's program calls an operation; its thread waits for the result.
WorkerOperation(r, q) ==
  /\ stage[r] = "live"
  /\ stage' = [stage EXCEPT ![r] = "waiting"]
  /\ Request(WorkerJob("operation", r, q))

WorkerRecord ==
  /\ Alive /\ wk.at = "record"
  /\ owners' = Recorded(wk.job.q, wk.loop, wk.sure)
  /\ Take("worker", runs, owners')
  /\ wk' = [wk EXCEPT !.at = "write"]
  /\ UNCHANGED <<inputVars, runs, stage, queue, mining, poll, file, phase, count>>

\* The program ends, fails or is stopped: the finally clause of _run.
Enqueue(job) == queue' = Append(queue, job)
RunEnds(r) ==
  /\ Accepting /\ stage[r] = "live"
  /\ stage' = [stage EXCEPT ![r] = "cleaning"]
  /\ Enqueue(WorkerJob("cleanup", r, NoRequest))
  /\ UNCHANGED <<inputVars, owners, runs, wk, mining, poll, snap, file, phase, count>>

\* Once the executor is shut down, handing the cleanup over raises, and the run
\* is retired without it.
RunLeaves(r) ==
  /\ Alive
  /\ stage[r] = "cleaned" \/ (Shut /\ stage[r] = "live")
  /\ stage' = [stage EXCEPT ![r] = "left"]
  /\ runs' = runs \ {r}
  /\ Take(r, runs \ {r}, owners)
  /\ UNCHANGED <<inputVars, owners, queue, wk, mining, poll, file, phase, count>>

RunRecords(r) ==
  /\ Alive /\ stage[r] = "left"
  /\ stage' = [stage EXCEPT ![r] = "gone"]
  /\ Write(r)
  /\ UNCHANGED <<inputVars, owners, runs, queue, wk, mining, poll, phase>>

\* cleanup, and ScriptService.close for every run in the table.  The last stop is
\* followed by _changed.
Cleaning(w) ==
  IF w.todo = {} THEN wk' = [w EXCEPT !.at = "write"] /\ Take("worker", runs, owners')
                 ELSE wk' = w /\ UNCHANGED snap
WorkerCleanup ==
  /\ Alive /\ wk.at = "idle" /\ queue # <<>>
  /\ queue' = Tail(queue) /\ owners' = owners
  /\ LET job  == Head(queue)
         todo == OwnedBy(IF job.kind = "close" THEN runs ELSE {job.run}, owners)
     IN  Cleaning(Working("clean", job, owners, todo, 0, FALSE))
  /\ UNCHANGED <<inputVars, runs, stage, mining, poll, file, phase, count>>

\* What is left to stop after channel c of its run was answered out: an
\* unavailable runtime ends the cleanup of the run.
Dropped(entries, todo, c, out) ==
  IF Unavailable(out) THEN {d \in todo : entries[d].by = entries[c].by} ELSE {c}
Without(os, cs) == [d \in Channels |-> IF d \in cs THEN Idle ELSE os[d]]
StopOwned(entries, todo, c, out) ==
  /\ Answer(End(c, Nobody, entries[c].loop), out, count)
  /\ owners' = Without(owners, Dropped(entries, todo, c, out))
  /\ abandoned' = IF out # "ok" THEN abandoned \cup Dropped(entries, todo, c, out)
                ELSE IF rt'[c] = Idle THEN abandoned \ {c} ELSE abandoned

WorkerClean ==
  /\ Alive /\ wk.at = "clean"
  /\ \E c \in wk.todo, out \in Outcomes :
       /\ StopOwned(wk.entries, wk.todo, c, out)
       /\ Cleaning([wk EXCEPT !.todo = @ \ Dropped(wk.entries, wk.todo, c, out)])
  /\ UNCHANGED <<runs, stage, queue, mining, poll, file, phase>>

\* The job's journal write, then its end: the waiting thread goes on, an
\* acknowledged destroy updates the mining loops, close goes on to end them.
WorkerWrite ==
  /\ Alive /\ wk.at = "write"
  /\ Write("worker")
  /\ wk' = IF wk.job.kind = "close" THEN [Resting EXCEPT !.at = "endloop"] ELSE Resting
  /\ stage' = CASE wk.job.kind = "operation" -> [stage EXCEPT ![wk.job.run] = "live"]
                [] wk.job.kind = "cleanup"   -> [stage EXCEPT ![wk.job.run] = "cleaned"]
                [] OTHER                     -> stage
  /\ mining' = IF wk.sure /\ wk.job.q.cs = {"mine"}
               THEN IF wk.job.q.on THEN wk.loop ELSE 0
               ELSE mining
  /\ UNCHANGED <<inputVars, owners, runs, queue, poll, phase>>

\* BotCommandService.close: the stop of the loop that is left, with its record.
WorkerEndLoop ==
  /\ Alive /\ wk.at = "endloop"
  /\ mining' = 0
  /\ IF mining = 0
     THEN wk' = Resting /\ UNCHANGED <<inputVars, count>>
     ELSE \E out \in Outcomes :
            /\ Answer(End("mine", Nobody, mining), out, count)
            /\ wk' = Working("record", WorkerJob("endloop", Nobody, End("mine", Nobody, mining)),
                             NoInput, {}, 0, out = "ok")
            /\ UNCHANGED abandoned
  /\ UNCHANGED <<owners, runs, stage, queue, poll, snap, file, phase>>

(***************************************************************************)
(* The mining poll, a thread of its own: every request it makes goes       *)
(* through OwnedInputs and so records the journal.                         *)
(***************************************************************************)
PollBegins == Accepting /\ poll.at = "idle" /\ mining # 0 /\ MayHappen

\* It reads the status: the loop goes on (a renewal changes no ownership) or is over.
PollRenews ==
  /\ PollBegins /\ Tally("events")
  /\ mining' = IF rt["mine"].loop = mining THEN mining ELSE 0
  /\ Take("poll", runs, owners)
  /\ poll' = [poll EXCEPT !.at = "write"]
  /\ UNCHANGED <<inputVars, owners, runs, stage, queue, wk, file, phase>>

\* Permission lost, Bot made private, or an error: _end_mining_loop.
PollEnds ==
  /\ PollBegins
  /\ mining' = 0
  /\ \E out \in Outcomes :
       /\ Answer(End("mine", Nobody, mining), out, [count EXCEPT !.events = @ + 1])
       /\ IF out = "ok"
          THEN poll' = [at |-> "check", loop |-> mining] /\ UNCHANGED snap
          ELSE poll' = [poll EXCEPT !.at = "write"] /\ Take("poll", runs, owners)
  /\ UNCHANGED <<abandoned, owners, runs, stage, queue, wk, file, phase>>

\* _record of the conditional stop: first the test that the loop is still the owned one ...
PollChecks ==
  /\ Alive /\ poll.at = "check"
  /\ IF owners["mine"] # Idle /\ owners["mine"].loop # poll.loop
     THEN Take("poll", runs, owners) /\ poll' = [poll EXCEPT !.at = "write"]
     ELSE poll' = [poll EXCEPT !.at = "pop"] /\ UNCHANGED snap
  /\ UNCHANGED <<inputVars, owners, runs, stage, queue, wk, mining, file, phase, count>>

\* ... then the removal, which disowns a loop the worker recorded in between.
PollPops ==
  /\ Alive /\ poll.at = "pop"
  /\ abandoned' = IF owners["mine"] = Idle \/ owners["mine"].loop = poll.loop
                  THEN abandoned ELSE abandoned \cup {"mine"}
  /\ owners' = Without(owners, {"mine"})
  /\ Take("poll", runs, owners')
  /\ poll' = [poll EXCEPT !.at = "write"]
  /\ UNCHANGED <<rt, late, loopIds, runs, stage, queue, wk, mining, file, phase, count>>

PollWrites ==
  /\ Alive /\ poll.at = "write"
  /\ Write("poll")
  /\ poll' = PollResting
  /\ UNCHANGED <<inputVars, owners, runs, stage, queue, wk, mining, phase>>

(***************************************************************************)
(* The process: a clean stop, a crash, and the next start.                 *)
(***************************************************************************)
\* runner.close: no more work, every run canceled, the closing jobs queued and the
\* executor shut down.  (A cleanup that slips in behind them finds nothing to do.)
CloseBegins ==
  /\ phase = "up" /\ phase' = "draining"
  /\ Enqueue(WorkerJob("close", Nobody, NoRequest))
  /\ UNCHANGED <<inputVars, owners, runs, stage, wk, mining, poll, snap, file, count>>

\* The worker has drained, or CLOSE_SECONDS are over.
CloseTakes ==
  /\ phase = "draining" /\ phase' = "final"
  /\ LET kept == {r \in runs : OwnedBy({r}, owners) # {}} IN Take("main", kept, owners)
  /\ UNCHANGED <<inputVars, owners, threadVars, file, count>>

CloseWrites ==
  /\ phase = "final" /\ phase' = "closed"
  /\ Write("main")
  /\ UNCHANGED <<inputVars, owners, threadVars>>

\* Script inputs the runtime has, or will have once it has served every late request.
Effective == Served(rt, late)
Scripted  == {c \in Channels : Effective[c].by \in Runs}
\* The journal names this very input: a mining stop is conditional on its loop.
Listed(c) == file.owned[c] # Idle /\ file.owned[c].loop \in {0, Effective[c].loop}

\* The threads are gone; the runtime and the file stay.
Dies ==
  /\ phase' = "down"
  /\ abandoned' = abandoned \cup {c \in Scripted : ~Listed(c)}
  /\ owners' = NoInput /\ runs' = {} /\ queue' = <<>> /\ wk' = Resting
  /\ mining' = 0 /\ poll' = PollResting
  /\ snap' = [w \in Writers |-> Pending]
  /\ UNCHANGED <<rt, late, loopIds, file>>

Crash ==
  /\ Alive \/ phase = "recovering"
  /\ MayHappen /\ Tally("events")
  /\ Dies /\ stage' = [r \in Runs |-> IF stage[r] = "new" THEN "new" ELSE "gone"]

\* The interpreter joins the worker at exit; run threads and the poll are dropped.
\* A process started after a clean stop starts no run (a bound).
ProcessExits ==
  /\ phase = "closed" /\ wk.at = "idle" /\ queue = <<>>
  /\ Dies /\ stage' = [r \in Runs |-> "gone"]
  /\ UNCHANGED count

\* The constructor loads the journal; start adopts what it lists ...
StartsAgain ==
  /\ phase = "down" /\ phase' = "recovering"
  /\ count.restarts < MaxRestarts /\ Tally("restarts")
  /\ owners' = file.owned
  /\ UNCHANGED <<inputVars, threadVars, snap, file>>

\* ... stops each channel ...
RecoveryStops ==
  /\ phase = "recovering"
  /\ \E c \in OwnedBy(Runs, owners), out \in Outcomes :
       StopOwned(owners, OwnedBy(Runs, owners), c, out)
  /\ UNCHANGED <<threadVars, snap, file, phase>>

\* ... and removes the journal before anything else runs.
RecoveryEnds ==
  /\ phase = "recovering" /\ OwnedBy(Runs, owners) = {}
  /\ phase' = "up"
  /\ \/ file' = NoRuns /\ UNCHANGED count
     \/ MayHappen /\ Tally("events") /\ UNCHANGED file
  /\ UNCHANGED <<inputVars, owners, threadVars, snap>>

Runtime == ServeLate \/ \E c \in Channels : InputEnds(c)
RunThread(r) == RunEnds(r) \/ RunLeaves(r) \/ RunRecords(r)
Worker ==
  \/ \E r \in Runs : WorkerStart(r) \/ \E q \in Asked(r) : WorkerOperation(r, q)
  \/ \E q \in Asked(Player) : WorkerCommand(q)
  \/ WorkerRecord \/ WorkerCleanup
  \/ WorkerClean \/ WorkerWrite \/ WorkerEndLoop
Polling == PollRenews \/ PollEnds \/ PollChecks \/ PollPops \/ PollWrites
Process == \/ CloseBegins \/ CloseTakes \/ CloseWrites
           \/ Crash \/ ProcessExits \/ StartsAgain \/ RecoveryStops \/ RecoveryEnds

InputsNext ==
  \/ Runtime
  \/ \E r \in Runs : RunThread(r)
  \/ Worker
  \/ Polling
  \/ Process

InputsSpec == InputsInit /\ [][InputsNext]_endbotdVars

(***************************************************************************)
(* Properties.                                                             *)
(***************************************************************************)
Stages == {"new", "live", "waiting", "cleaning", "cleaned", "left", "gone"}
ProcessPhases == {"up", "draining", "final", "closed", "down", "recovering"}

\* The types of the whole state.
InputsTypeOK ==
  /\ rt \in [Channels -> Entries] /\ owners \in [Channels -> Entries]
  /\ late \in Seq(Requests) /\ loopIds \in Nat /\ mining \in Nat
  /\ runs \subseteq Runs /\ stage \in [Runs -> Stages]
  /\ wk.at \in {"idle", "record", "clean", "write", "endloop"} /\ wk.todo \subseteq Channels
  /\ poll.at \in {"idle", "check", "pop", "write"}
  /\ file.runs \subseteq Runs /\ file.owned \in [Channels -> Entries]
  /\ phase \in ProcessPhases /\ abandoned \subseteq Channels

\* Every input a script left in the runtime, late requests included, is owned by a
\* run still in the table (so its end stops it), or is about to be recorded; after
\* a crash it is one the recovery still has to stop.  Excepted are the channels in
\* abandoned: a cleanup that failed, a crash before the journal write, and a newer
\* mining loop that the poll disowned between its test and its removal.
\* OwnedInputs.request, _record, cleanup, ScriptService._run, EndbotService._recover.
Cared(c) ==
  CASE phase = "up"         -> owners[c].by \in runs \/ (wk.at = "record" /\ c \in wk.job.q.cs)
    [] phase = "down"       -> Listed(c)
    [] phase = "recovering" -> owners[c] # Idle
    [] OTHER                -> TRUE
Tracked == \A c \in Scripted : Cared(c) \/ c \in abandoned

\* "Later controller inputs on a channel are preserved": the cleanup of a run that
\* acts on an acknowledged ownership ends no acknowledged input of another caller.
LaterInputsPreserved ==
  [][\A c \in wk.todo \ wk'.todo :
       (wk.at = "clean" /\ phase' # "down" /\ wk.entries[c].sure /\ rt[c].sure /\ rt'[c] = Idle)
         => rt[c].by = wk.entries[c].by]_endbotdVars

\* "shutdown stop[s] continuing inputs still owned by the run": after a clean stop,
\* once the worker has finished, an input a script left is in the journal for the
\* next start, or its cleanup failed.
CleanStopAccounts ==
  (Closed /\ wk.at = "idle" /\ queue = <<>>)
    => \A c \in Scripted : Listed(c) \/ c \in abandoned
=============================================================================
