---------------------------- MODULE BotLifecycle ----------------------------
(***************************************************************************)
(* The Endbot runtime's BotLifecycle (runtime/src/lifecycle.js) with the   *)
(* part of ProfileStore and of BedrockSession it drives.                   *)
(*                                                                         *)
(* The runtime is one JavaScript thread, so everything between two awaits  *)
(* is one atomic step.  A lifecycle command runs synchronously up to       *)
(* #serialize, which appends its operation to the identity's transition    *)
(* chain; the operation at the head of the chain then runs in segments,    *)
(* waiting for a disconnect ("closing") or for the replacement delay       *)
(* ("delay") between them.  Commands, timers and transport events are      *)
(* events of the event loop: the next one is taken when no promise         *)
(* continuation is left to run (Quiet).                                    *)
(***************************************************************************)
EXTENDS Naturals, Sequences

CONSTANTS
  Ids,          \* identity UUIDs the store may create
  Names,        \* Minecraft names
  Sessions,     \* BedrockSession objects
  NoName,       \* the name of an identity that is not in the store
  NoSession,    \* state.session === undefined
  NoId,         \* the owner of a session object not made yet
  MaxGen,       \* bound: lifecycle commands accepted per identity and process
  MaxAttempts,  \* reconnect.maximumAttempts
  MaxQueue,     \* bound: operations waiting in one transition chain
  MaxRestarts   \* bound: runtime process restarts

ASSUME ConstantsAssumption ==
  /\ NoName \notin Names
  /\ NoSession \notin Sessions
  /\ NoId \notin Ids
  /\ MaxGen \in Nat
  /\ MaxAttempts \in Nat
  /\ MaxQueue \in Nat
  /\ MaxRestarts \in Nat

VARIABLES
  \* ProfileStore, persistent
  life,       \* "fresh" (never created), "live" (in the store) or "gone" (forgotten)
  name,       \* profile.name
  desired,    \* profile.desiredOnline
  \* BotLifecycle, in memory, one entry per identity
  gen,        \* generations
  conn,       \* state.state, or "none" without an entry in the sessions map
  attached,   \* state.session
  timer,      \* the generation state.timer captured, 0 without a timer
  handled,    \* state.handledGeneration, 0 when undefined
  attempt,    \* state.reconnectAttempt
  waiting,    \* state.waitingForBdsSince: "no", "recent" or "expired"
  held,       \* state.inputs holds a movement, an action or a flag
  queue,      \* the transition chain
  stage,      \* where the operation at the head of the chain is
  \* BedrockSession, one entry per object
  phase,      \* "unused", "connecting", "up" or "closed"
  owner,      \* the identity it was made for
  sgen,       \* the generation its callbacks captured
  login,      \* the profile name it was made with
  discon,     \* disconnect(): "no", "pending" or "settled"
  late,       \* the rejection of connect() has not been reported yet
  \* the process
  mode,       \* "running", "draining", "closing" or "stopped"
  restarts

storeVars   == <<life, name, desired>>
entryVars   == <<conn, attached, timer, handled, attempt, waiting, held>>
chainVars   == <<queue, stage>>
sessionVars == <<phase, owner, sgen, login, discon, late>>
procVars    == <<mode, restarts>>
vars == <<storeVars, gen, entryVars, chainVars, sessionVars, procVars>>

Active == {"connecting", "online", "reconnecting"}
Open   == {"connecting", "up"}

Live(i)       == life[i] = "live"

\* Mutant: #mayConnect only looks whether the profile still exists.
MayConnectWhileLive(i, g) == mode = "running" /\ Live(i)

MayConnect(i, g) == mode = "running" /\ Live(i) /\ desired[i] /\ gen[i] = g

Operation == [op : {"start", "reconnect", "despawn", "forget", "rename", "retry"},
              gen : Nat, was : BOOLEAN, new : Names \cup {NoName}]

Op(kind, g, was, new) == [op |-> kind, gen |-> g, was |-> was, new |-> new]

Enqueue(i, o) == queue' = [queue EXCEPT ![i] = Append(@, o)]

\* The head operation's promise settles and the chain moves on.
Finish(i) ==
  /\ queue' = [queue EXCEPT ![i] = Tail(@)]
  /\ stage' = [stage EXCEPT ![i] = "idle"]

Wait(i, where) ==
  /\ stage' = [stage EXCEPT ![i] = where]
  /\ UNCHANGED queue

\* #invalidate: a new generation, and no retry timer survives it.
Invalidate(i) ==
  /\ gen' = [gen EXCEPT ![i] = @ + 1]
  /\ timer' = [timer EXCEPT ![i] = 0]

\* No chain has a segment to run and no rejection is still to be delivered.
Quiet == /\ \A i \in Ids : queue[i] = <<>> \/ stage[i] \in {"closing", "delay"}
         /\ \A s \in Sessions : ~late[s]

Accepting(i) == Quiet /\ mode = "running" /\ gen[i] < MaxGen /\ Len(queue[i]) < MaxQueue

-----------------------------------------------------------------------------
(* Lifecycle commands, up to #serialize.                                   *)

AlreadyOnline(i) == desired[i] /\ conn[i] \in Active

\* spawn(name) without a profile: ProfileStore.create, then as below.
SpawnNew(i, n) ==
  /\ Accepting(i)
  /\ life[i] = "fresh"
  /\ \A j \in Ids : name[j] # n
  /\ life' = [life EXCEPT ![i] = "live"]
  /\ name' = [name EXCEPT ![i] = n]
  /\ desired' = [desired EXCEPT ![i] = TRUE]
  /\ Invalidate(i)
  /\ Enqueue(i, Op("start", gen[i] + 1, FALSE, NoName))
  /\ UNCHANGED <<conn, attached, handled, attempt, waiting, held, stage, sessionVars, procVars>>

\* As SpawnNew, when update({ desiredOnline: true }) fails after create.
SpawnHalfDone(i, n) ==
  /\ Accepting(i)
  /\ life[i] = "fresh"
  /\ \A j \in Ids : name[j] # n
  /\ life' = [life EXCEPT ![i] = "live"]
  /\ name' = [name EXCEPT ![i] = n]
  /\ UNCHANGED <<desired, gen, entryVars, chainVars, sessionVars, procVars>>

\* spawn(name) of an existing profile, and resume(name).
SpawnOrResume(i) ==
  /\ Accepting(i)
  /\ Live(i)
  /\ ~AlreadyOnline(i)
  /\ desired' = [desired EXCEPT ![i] = TRUE]
  /\ Invalidate(i)
  /\ Enqueue(i, Op("start", gen[i] + 1, FALSE, NoName))
  /\ UNCHANGED <<life, name, conn, attached, handled, attempt, waiting, held, stage, sessionVars, procVars>>

Reconnect(i) ==
  /\ Accepting(i)
  /\ Live(i)
  /\ desired[i]
  /\ Invalidate(i)
  /\ Enqueue(i, Op("reconnect", gen[i] + 1, FALSE, NoName))
  /\ UNCHANGED <<storeVars, conn, attached, handled, attempt, waiting, held, stage, sessionVars, procVars>>

Despawn(i) ==
  /\ Accepting(i)
  /\ Live(i)
  /\ desired' = [desired EXCEPT ![i] = FALSE]
  /\ Invalidate(i)
  /\ Enqueue(i, Op("despawn", gen[i] + 1, FALSE, NoName))
  /\ UNCHANGED <<life, name, conn, attached, handled, attempt, waiting, held, stage, sessionVars, procVars>>

\* forget changes nothing before its turn in the chain.
Forget(i) ==
  /\ Accepting(i)
  /\ Live(i)
  /\ Enqueue(i, Op("forget", 0, FALSE, NoName))
  /\ UNCHANGED <<storeVars, gen, entryVars, stage, sessionVars, procVars>>

NameFree(i, n) == \A j \in Ids \ {i} : name[j] # n

\* ProfileStore.update({ name }) looks for a collision of its own.
Persistable(i, n) == Live(i) /\ NameFree(i, n)

Rename(i, n) ==
  /\ Accepting(i)
  /\ Live(i)
  /\ NameFree(i, n)
  /\ Invalidate(i)
  /\ Enqueue(i, Op("rename", gen[i] + 1, desired[i], n))
  /\ UNCHANGED <<storeVars, conn, attached, handled, attempt, waiting, held, stage, sessionVars, procVars>>

\* move, action, flag, mine: accepted while the entry says online.
Input(i) ==
  /\ Quiet /\ mode = "running" /\ Live(i) /\ conn[i] = "online"
  /\ held' = [held EXCEPT ![i] = TRUE]
  /\ UNCHANGED <<storeVars, gen, conn, attached, timer, handled, attempt, waiting, chainVars, sessionVars, procVars>>

\* stop(name), or the held input ends by itself (duration, count, death).
StopInput(i) ==
  /\ Quiet /\ mode = "running" /\ Live(i) /\ conn[i] # "none" /\ held[i]
  /\ held' = [held EXCEPT ![i] = FALSE]
  /\ UNCHANGED <<storeVars, gen, conn, attached, timer, handled, attempt, waiting, chainVars, sessionVars, procVars>>

-----------------------------------------------------------------------------
(* Opening and closing transports.                                         *)

Turn(i)          == queue[i][1]
At(i, op, where) == queue[i] # <<>> /\ queue[i][1].op = op /\ stage[i] = where

\* A BedrockSession object nothing refers to any more stands for a new one.
Free(s) == /\ phase[s] \notin Open /\ ~late[s]
           /\ \A i \in Ids : attached[i] # s

\* Mutant: the new entry remembers that its generation was handled.
NewAttemptKeepsHandled(i) ==
  /\ timer' = [timer EXCEPT ![i] = 0]
  /\ UNCHANGED handled

\* The entry of a new attempt has no timer and no loss to its name.
NewAttempt(i) ==
  /\ timer' = [timer EXCEPT ![i] = 0]
  /\ handled' = [handled EXCEPT ![i] = 0]

\* sessionFactory: session s, for this generation and under this name.
OpenSession(i, g, as, n, s) ==
  /\ conn' = [conn EXCEPT ![i] = as]
  /\ attached' = [attached EXCEPT ![i] = s]
  /\ NewAttempt(i)
  /\ phase' = [phase EXCEPT ![s] = "connecting"]
  /\ owner' = [owner EXCEPT ![s] = i]
  /\ sgen' = [sgen EXCEPT ![s] = g]
  /\ login' = [login EXCEPT ![s] = n]
  /\ discon' = [discon EXCEPT ![s] = "no"]
  /\ UNCHANGED late

\* #connect under MayConnect(i, g): refuse next to a session, else open one.
Connect(i, g, as, n) ==
  IF attached[i] # NoSession
  THEN /\ conn' = [conn EXCEPT ![i] = "failed"]
       /\ UNCHANGED <<attached, timer, handled, sessionVars>>
  ELSE \E s \in Sessions : Free(s) /\ OpenSession(i, g, as, n, s)

\* #endCurrent before its await: no timer, no input, and disconnect() called.
EndTimerAndInput(i) ==
  /\ timer' = [timer EXCEPT ![i] = 0]
  /\ held' = [held EXCEPT ![i] = FALSE]

\* Mutants: the operation goes on before, or waits without, disconnect().
BeginCloseNoAwait(i) ==
  /\ EndTimerAndInput(i)
  /\ Wait(i, "closed")
  /\ UNCHANGED <<conn, attached, handled, waiting, sessionVars>>

BeginClose(i) ==
  LET s == attached[i] IN
    /\ EndTimerAndInput(i)
    /\ IF phase[s] \in Open
       THEN Wait(i, "closing") /\ discon' = [discon EXCEPT ![s] = "pending"]
       ELSE Wait(i, "closed") /\ UNCHANGED discon
    /\ UNCHANGED <<conn, attached, handled, waiting, phase, owner, sgen, login, late>>

-----------------------------------------------------------------------------
(* The operation at the head of a chain, one action per segment.  MayGoOn  *)
(* is the #mayConnect the code re-evaluates after every await.             *)

MayGoOn(i) == MayConnect(i, Turn(i).gen)

SegmentFrame == UNCHANGED <<life, desired, gen, procVars>>

Skip(i) == Finish(i) /\ UNCHANGED <<entryVars, sessionVars, name>>

\* The operation's turn ends with #connect, under the persisted name n.
Dial(i, as, n) ==
  /\ Finish(i)
  /\ Connect(i, Turn(i).gen, as, n)
  /\ UNCHANGED <<waiting, held>>

ResetRetryBudget(i) == attempt' = [attempt EXCEPT ![i] = 0]

StartBegins(i) ==
  /\ At(i, "start", "idle")
  /\ SegmentFrame
  /\ \/ ~MayGoOn(i) /\ Skip(i)
     \/ /\ MayGoOn(i) /\ attached[i] = NoSession
        /\ ResetRetryBudget(i) /\ Dial(i, "connecting", name[i]) /\ UNCHANGED name
     \/ /\ MayGoOn(i) /\ attached[i] # NoSession
        /\ BeginClose(i) /\ UNCHANGED <<attempt, name>>

StartResumes(i) ==
  /\ Quiet /\ At(i, "start", "delay")
  /\ SegmentFrame
  /\ \/ ~MayGoOn(i) /\ Skip(i)
     \/ /\ MayGoOn(i)
        /\ ResetRetryBudget(i) /\ Dial(i, "connecting", name[i]) /\ UNCHANGED name

ReconnectBegins(i) ==
  /\ At(i, "reconnect", "idle")
  /\ SegmentFrame
  /\ \/ ~MayGoOn(i) /\ Skip(i)
     \/ /\ MayGoOn(i) /\ ResetRetryBudget(i) /\ UNCHANGED name
        /\ \/ attached[i] # NoSession /\ BeginClose(i)
           \/ /\ attached[i] = NoSession
              /\ EndTimerAndInput(i) /\ Wait(i, "delay")
              /\ UNCHANGED <<conn, attached, handled, waiting, sessionVars>>

ReconnectResumes(i) ==
  /\ Quiet /\ At(i, "reconnect", "delay")
  /\ SegmentFrame
  /\ \/ ~MayGoOn(i) /\ Skip(i)
     \/ MayGoOn(i) /\ Dial(i, "reconnecting", name[i]) /\ UNCHANGED <<attempt, name>>

\* An online rename closes first; an offline one only persists the name.
RenameBegins(i) ==
  /\ At(i, "rename", "idle")
  /\ SegmentFrame
  /\ \/ /\ Turn(i).was /\ attached[i] # NoSession
        /\ BeginClose(i) /\ UNCHANGED <<attempt, name>>
     \/ /\ Turn(i).was /\ attached[i] = NoSession
        /\ EndTimerAndInput(i)
        /\ IF MayGoOn(i) THEN Wait(i, "delay") ELSE Finish(i)
        /\ UNCHANGED <<conn, attached, handled, attempt, waiting, sessionVars, name>>
     \/ /\ ~Turn(i).was /\ Persistable(i, Turn(i).new)
        /\ name' = [name EXCEPT ![i] = Turn(i).new]
        /\ Finish(i) /\ UNCHANGED <<entryVars, sessionVars>>
     \/ ~Turn(i).was /\ Skip(i)   \* store.update threw

\* Saved or not, the Bot is connected again under the name that is persisted.
RenameResumes(i) ==
  /\ Quiet /\ At(i, "rename", "delay")
  /\ SegmentFrame
  /\ \/ ~MayGoOn(i) /\ Skip(i)
     \/ /\ MayGoOn(i) /\ Persistable(i, Turn(i).new)
        /\ name' = [name EXCEPT ![i] = Turn(i).new]
        /\ ResetRetryBudget(i) /\ Dial(i, "reconnecting", Turn(i).new)
     \/ /\ MayGoOn(i)             \* store.update threw
        /\ ResetRetryBudget(i) /\ Dial(i, "reconnecting", name[i]) /\ UNCHANGED name

DespawnBegins(i) ==
  /\ At(i, "despawn", "idle")
  /\ SegmentFrame /\ UNCHANGED name
  /\ \/ /\ attached[i] # NoSession
        /\ BeginClose(i) /\ UNCHANGED attempt
     \/ /\ attached[i] = NoSession
        /\ EndTimerAndInput(i) /\ Finish(i)
        /\ conn' = [conn EXCEPT ![i] = IF gen[i] = Turn(i).gen /\ Live(i) /\ ~desired[i]
                                       THEN "offline" ELSE @]
        /\ UNCHANGED <<attached, handled, attempt, waiting, sessionVars>>

\* Mutant: intent alone decides.
ForgettableByIntent(i) == ~desired[i]

Forgettable(i) == /\ ~desired[i] /\ attached[i] = NoSession
                  /\ timer[i] = 0 /\ conn[i] \notin Active

\* The entry goes first; the profile goes with it unless unlink throws.
ForgetRuns(i) ==
  /\ At(i, "forget", "idle")
  /\ Finish(i)
  /\ UNCHANGED <<desired, sessionVars, procVars>>
  /\ \/ ~(Live(i) /\ Forgettable(i)) /\ UNCHANGED <<life, name, gen, entryVars>>
     \/ /\ Live(i) /\ Forgettable(i)
        /\ Invalidate(i)
        /\ conn' = [conn EXCEPT ![i] = "none"]
        /\ handled' = [handled EXCEPT ![i] = 0]
        /\ attempt' = [attempt EXCEPT ![i] = 0]
        /\ waiting' = [waiting EXCEPT ![i] = "no"]
        /\ held' = [held EXCEPT ![i] = FALSE]
        /\ UNCHANGED attached
        /\ \/ life' = [life EXCEPT ![i] = "gone"] /\ name' = [name EXCEPT ![i] = NoName]
           \/ gen[i] < MaxGen /\ UNCHANGED <<life, name>>

RetryRuns(i) ==
  /\ At(i, "retry", "idle")
  /\ SegmentFrame /\ UNCHANGED name
  /\ \/ ~MayGoOn(i) /\ Finish(i) /\ UNCHANGED <<entryVars, sessionVars>>
     \/ MayGoOn(i) /\ Dial(i, "reconnecting", name[i]) /\ UNCHANGED attempt

\* Mutant: the entry gets a state the code does not name.
ClosedEntryUnknown(i) ==
  /\ attached' = [attached EXCEPT ![i] = NoSession]
  /\ conn' = [conn EXCEPT ![i] = "closed"]
  /\ handled' = [handled EXCEPT ![i] = Turn(i).gen]

ClosedEntry(i) ==
  /\ attached' = [attached EXCEPT ![i] = NoSession]
  /\ conn' = [conn EXCEPT ![i] = "offline"]
  /\ handled' = [handled EXCEPT ![i] = Turn(i).gen]

\* #endCurrent after its await, then despawn's own last lines or #mayConnect.
CloseDone(i) ==
  /\ stage[i] = "closed"
  /\ ClosedEntry(i)
  /\ IF Turn(i).op # "despawn" /\ MayGoOn(i) THEN Wait(i, "delay") ELSE Finish(i)
  /\ UNCHANGED <<storeVars, gen, timer, attempt, waiting, held, sessionVars, procVars>>

\* #endCurrent when disconnect() rejects: the session stays attached.
CloseFailed(i) ==
  /\ stage[i] = "closefailed"
  /\ conn' = [conn EXCEPT ![i] = "failed"]
  /\ Finish(i)
  /\ UNCHANGED <<storeVars, gen, attached, timer, handled, attempt, waiting, held, sessionVars, procVars>>

\* The reconnect delay is over.
TimerFire(i) ==
  /\ Quiet /\ timer[i] # 0
  /\ timer' = [timer EXCEPT ![i] = 0]
  /\ Enqueue(i, Op("retry", timer[i], FALSE, NoName))
  /\ UNCHANGED <<storeVars, gen, conn, attached, handled, attempt, waiting, held, stage, sessionVars, procVars>>

\* notReadyLimitMs have passed since the first bds_not_ready.
WaitExpires(i) ==
  /\ waiting[i] = "recent"
  /\ waiting' = [waiting EXCEPT ![i] = "expired"]
  /\ UNCHANGED <<storeVars, gen, conn, attached, timer, handled, attempt, held, chainVars, sessionVars, procVars>>

-----------------------------------------------------------------------------
(* What sessions report.                                                   *)

\* Mutant: every report of a loss counts.
CountsAgain(i, g, s) == gen[i] = g /\ Live(i) /\ attached[i] \in {NoSession, s}

Counts(i, g, s) == /\ gen[i] = g /\ Live(i)
                   /\ attached[i] \in {NoSession, s}
                   /\ handled[i] # g

\* Mutant: waiting for BDS has no limit.
FreeTryAlways(i, notReady) == notReady

FreeTry(i, notReady) == notReady /\ waiting[i] # "expired"
BudgetSpent(i)       == attempt[i] + 1 > MaxAttempts

\* #retryAfter: the timer captures the generation.
RetryAfter(i, g) ==
  /\ conn' = [conn EXCEPT ![i] = "reconnecting"]
  /\ timer' = [timer EXCEPT ![i] = g]

\* The end of #disconnected: retry, or stop when the budget is spent.
CountLoss(i, g, notReady) ==
  /\ waiting' = [waiting EXCEPT ![i] = IF notReady /\ @ = "no" THEN "recent" ELSE @]
  /\ IF FreeTry(i, notReady)
     THEN RetryAfter(i, g) /\ UNCHANGED attempt
     ELSE /\ attempt' = [attempt EXCEPT ![i] = @ + 1]
          /\ IF BudgetSpent(i)
             THEN conn' = [conn EXCEPT ![i] = "failed"] /\ UNCHANGED timer
             ELSE RetryAfter(i, g)

\* #disconnected
Disconnected(i, g, s, notReady) ==
  IF ~Counts(i, g, s) THEN UNCHANGED entryVars
  ELSE /\ handled' = [handled EXCEPT ![i] = g]
       /\ attached' = [attached EXCEPT ![i] = NoSession]
       /\ held' = [held EXCEPT ![i] = FALSE]
       /\ IF desired[i] THEN CountLoss(i, g, notReady)
          ELSE conn' = [conn EXCEPT ![i] = "offline"] /\ UNCHANGED <<timer, attempt, waiting>>

\* The head of the chain of s's owner is waiting for s.disconnect().
Awaited(s) == /\ owner[s] \in Ids /\ attached[owner[s]] = s
              /\ stage[owner[s]] = "closing" /\ discon[s] = "pending"

DisconnectSettles(s, outcome) ==
  /\ discon' = [discon EXCEPT ![s] = IF @ = "pending" THEN "settled" ELSE @]
  /\ stage' = IF Awaited(s) THEN [stage EXCEPT ![owner[s]] = outcome] ELSE stage

TransportCloses(s) ==
  /\ phase' = [phase EXCEPT ![s] = "closed"]
  /\ DisconnectSettles(s, "closed")
  /\ UNCHANGED <<storeVars, gen, queue, owner, sgen, login, procVars>>

\* connect() rejects.  With a client, 'close' has reported the loss already
\* and the rejection reports it a second time, later.
ConnectRejected(s, notReady, again) ==
  /\ Quiet /\ phase[s] = "connecting"
  /\ again => discon[s] = "no"
  /\ TransportCloses(s)
  /\ Disconnected(owner[s], sgen[s], s, notReady)
  /\ late' = [late EXCEPT ![s] = again]

LateRejection(s) ==
  /\ late[s]
  /\ late' = [late EXCEPT ![s] = FALSE]
  /\ Disconnected(owner[s], sgen[s], s, FALSE)
  /\ UNCHANGED <<storeVars, gen, chainVars, phase, owner, sgen, login, discon, procVars>>

\* 'close' of a spawned session; #emitClose is silent once disconnecting.
TransportLost(s) ==
  /\ Quiet /\ phase[s] = "up"
  /\ TransportCloses(s)
  /\ IF discon[s] = "no" THEN Disconnected(owner[s], sgen[s], s, FALSE) ELSE UNCHANGED entryVars
  /\ UNCHANGED late

\* disconnect() rejects: no close within 5 s, or client.disconnect threw.
DisconnectFails(s) ==
  /\ Quiet /\ discon[s] = "pending" /\ phase[s] \in Open
  /\ DisconnectSettles(s, "closefailed")
  /\ UNCHANGED <<storeVars, gen, entryVars, queue, phase, owner, sgen, login, late, procVars>>

\* connect() resolves: online, or a superseded session to be closed.
Spawned(s) ==
  LET i == owner[s] IN
    /\ Quiet /\ phase[s] = "connecting"
    /\ phase' = [phase EXCEPT ![s] = "up"]
    /\ IF MayConnect(i, sgen[s]) /\ attached[i] = s
       THEN /\ conn' = [conn EXCEPT ![i] = "online"]
            /\ attempt' = [attempt EXCEPT ![i] = 0]
            /\ waiting' = [waiting EXCEPT ![i] = "no"]
            /\ UNCHANGED discon
       ELSE /\ discon' = [discon EXCEPT ![s] = "pending"]
            /\ UNCHANGED <<conn, attempt, waiting>>
    /\ UNCHANGED <<storeVars, gen, attached, timer, handled, held, chainVars, owner, sgen, login, late, procVars>>

-----------------------------------------------------------------------------
(* The process: close() of cli.js's stop, a crash, and start().            *)

BeginShutdown ==
  /\ Quiet /\ mode = "running"
  /\ mode' = "draining"
  /\ gen' = [i \in Ids |-> IF Live(i) THEN gen[i] + 1 ELSE gen[i]]
  /\ timer' = [i \in Ids |-> IF Live(i) THEN 0 ELSE timer[i]]
  /\ UNCHANGED <<storeVars, conn, attached, handled, attempt, waiting, held, chainVars, sessionVars, restarts>>

NoEntries ==
  /\ conn' = [i \in Ids |-> "none"]
  /\ attached' = [i \in Ids |-> NoSession]
  /\ timer' = [i \in Ids |-> 0]
  /\ handled' = [i \in Ids |-> 0]
  /\ attempt' = [i \in Ids |-> 0]
  /\ waiting' = [i \in Ids |-> "no"]
  /\ held' = [i \in Ids |-> FALSE]

Drained ==
  /\ mode = "draining"
  /\ \A i \in Ids : queue[i] = <<>>
  /\ mode' = "closing"
  /\ discon' = [s \in Sessions |->
       IF phase[s] \in Open /\ \E i \in Ids : attached[i] = s THEN "pending" ELSE discon[s]]
  /\ NoEntries
  /\ UNCHANGED <<storeVars, gen, chainVars, phase, owner, sgen, login, late, restarts>>

\* Mutant: exit waits for transports instead of disconnects.
ExitWhenAllClosed ==
  /\ mode = "closing"
  /\ \A s \in Sessions : phase[s] \notin Open
  /\ mode' = "stopped"
  /\ phase' = [s \in Sessions |-> "unused"]
  /\ late' = [s \in Sessions |-> FALSE]
  /\ UNCHANGED <<storeVars, gen, entryVars, chainVars, owner, sgen, login, discon, restarts>>

\* Every disconnect has settled; process.exit ends what is still open.
Exit ==
  /\ mode = "closing"
  /\ \A s \in Sessions : phase[s] \in Open => discon[s] # "pending"
  /\ mode' = "stopped"
  /\ phase' = [s \in Sessions |-> "unused"]
  /\ late' = [s \in Sessions |-> FALSE]
  /\ UNCHANGED <<storeVars, gen, entryVars, chainVars, owner, sgen, login, discon, restarts>>

Wanted(i) == Live(i) /\ desired[i]

\* start(): one session, of generation 1, for every wanted Bot.
RestartSessions(f) ==
  /\ \A i \in Ids : (f[i] # NoSession) <=> Wanted(i)
  /\ \A i, j \in Ids : f[i] = f[j] /\ f[i] # NoSession => i = j
  /\ attached' = f
  /\ phase' = [s \in Sessions |-> IF \E i \in Ids : f[i] = s THEN "connecting" ELSE "unused"]
  /\ owner' = [s \in Sessions |-> IF \E i \in Ids : f[i] = s
                                  THEN CHOOSE i \in Ids : f[i] = s ELSE NoId]
  /\ login' = [s \in Sessions |-> IF \E i \in Ids : f[i] = s
                                  THEN name[CHOOSE i \in Ids : f[i] = s] ELSE NoName]
  /\ sgen' = [s \in Sessions |-> IF \E i \in Ids : f[i] = s THEN 1 ELSE 0]

\* A new process after a crash or an exit: start() dials every wanted Bot.
Restart ==
  /\ restarts < MaxRestarts
  /\ restarts' = restarts + 1
  /\ mode' = "running"
  /\ \E f \in [Ids -> Sessions \cup {NoSession}] : RestartSessions(f)
  /\ conn' = [i \in Ids |-> IF Wanted(i) THEN "reconnecting" ELSE "none"]
  /\ gen' = [i \in Ids |-> IF Wanted(i) THEN 1 ELSE 0]
  /\ timer' = [i \in Ids |-> 0]
  /\ handled' = [i \in Ids |-> 0]
  /\ attempt' = [i \in Ids |-> 0]
  /\ waiting' = [i \in Ids |-> "no"]
  /\ held' = [i \in Ids |-> FALSE]
  /\ queue' = [i \in Ids |-> <<>>]
  /\ stage' = [i \in Ids |-> "idle"]
  /\ discon' = [s \in Sessions |-> "no"]
  /\ late' = [s \in Sessions |-> FALSE]
  /\ UNCHANGED storeVars

-----------------------------------------------------------------------------
Init ==
  /\ life = [i \in Ids |-> "fresh"]
  /\ name = [i \in Ids |-> NoName]
  /\ desired = [i \in Ids |-> FALSE]
  /\ gen = [i \in Ids |-> 0]
  /\ conn = [i \in Ids |-> "none"]
  /\ attached = [i \in Ids |-> NoSession]
  /\ timer = [i \in Ids |-> 0]
  /\ handled = [i \in Ids |-> 0]
  /\ attempt = [i \in Ids |-> 0]
  /\ waiting = [i \in Ids |-> "no"]
  /\ held = [i \in Ids |-> FALSE]
  /\ queue = [i \in Ids |-> <<>>]
  /\ stage = [i \in Ids |-> "idle"]
  /\ phase = [s \in Sessions |-> "unused"]
  /\ owner = [s \in Sessions |-> NoId]
  /\ sgen = [s \in Sessions |-> 0]
  /\ login = [s \in Sessions |-> NoName]
  /\ discon = [s \in Sessions |-> "no"]
  /\ late = [s \in Sessions |-> FALSE]
  /\ mode = "running"
  /\ restarts = 0

Command(i) ==
  \/ \E n \in Names : SpawnNew(i, n) \/ SpawnHalfDone(i, n) \/ Rename(i, n)
  \/ SpawnOrResume(i) \/ Reconnect(i) \/ Despawn(i) \/ Forget(i)
  \/ Input(i) \/ StopInput(i)

\* The next segment of the operation at the head of i's chain.
Advance(i) ==
  \/ StartBegins(i) \/ StartResumes(i)
  \/ ReconnectBegins(i) \/ ReconnectResumes(i)
  \/ RenameBegins(i) \/ RenameResumes(i)
  \/ DespawnBegins(i) \/ ForgetRuns(i) \/ RetryRuns(i)
  \/ CloseDone(i) \/ CloseFailed(i)

ConnectSettles(s) ==
  \/ \E notReady, again \in BOOLEAN : ConnectRejected(s, notReady, again)
  \/ Spawned(s)

SessionEvent(s) ==
  ConnectSettles(s) \/ LateRejection(s) \/ TransportLost(s) \/ DisconnectFails(s)

Next ==
  \/ \E i \in Ids : Command(i) \/ Advance(i) \/ TimerFire(i) \/ WaitExpires(i)
  \/ \E s \in Sessions : SessionEvent(s)
  \/ BeginShutdown \/ Drained \/ Exit \/ Restart

Spec == Init /\ [][Next]_vars

\* The event loop serves due timers and ready sockets in turn, however many
\* commands arrive in between (strong fairness: Quiet comes and goes); connect()
\* settles by its own timers (first reply, spawn) and disconnect() by its 5 s one.
Fairness ==
  /\ \A i \in Ids : SF_vars(Advance(i)) /\ SF_vars(TimerFire(i)) /\ WF_vars(WaitExpires(i))
  /\ \A s \in Sessions :
       /\ SF_vars(ConnectSettles(s))
       /\ WF_vars(LateRejection(s))
       /\ SF_vars(discon[s] = "pending" /\ (ConnectSettles(s) \/ TransportLost(s) \/ DisconnectFails(s)))
  /\ WF_vars(Drained) /\ WF_vars(Exit)

FairSpec == Spec /\ Fairness

-----------------------------------------------------------------------------
(* Properties.                                                             *)

StoreOK ==
  /\ life \in [Ids -> {"fresh", "live", "gone"}]
  /\ name \in [Ids -> Names \cup {NoName}]
  /\ desired \in [Ids -> BOOLEAN]
  /\ gen \in [Ids -> Nat]

EntryOK ==
  /\ conn \in [Ids -> Active \cup {"none", "offline", "failed"}]
  /\ attached \in [Ids -> Sessions \cup {NoSession}]
  /\ timer \in [Ids -> Nat]
  /\ handled \in [Ids -> Nat]
  /\ attempt \in [Ids -> Nat]
  /\ waiting \in [Ids -> {"no", "recent", "expired"}]
  /\ held \in [Ids -> BOOLEAN]

ChainOK ==
  /\ queue \in [Ids -> Seq(Operation)]
  /\ stage \in [Ids -> {"idle", "closing", "closed", "closefailed", "delay"}]

SessionOK ==
  /\ phase \in [Sessions -> Open \cup {"unused", "closed"}]
  /\ owner \in [Sessions -> Ids \cup {NoId}]
  /\ sgen \in [Sessions -> Nat]
  /\ login \in [Sessions -> Names \cup {NoName}]
  /\ discon \in [Sessions -> {"no", "pending", "settled"}]
  /\ late \in [Sessions -> BOOLEAN]

ProcOK ==
  /\ mode \in {"running", "draining", "closing", "stopped"}
  /\ restarts \in Nat

\* Every variable keeps its type: the states, stages and phases are the ones the
\* code names, and a chain holds operations.
TypeOK == StoreOK /\ EntryOK /\ ChainOK /\ SessionOK /\ ProcOK

\* One Bot never has two open transports: no interleaving of spawn, reconnect,
\* rename, retry, loss and shutdown opens one before the last has closed.
OneTransport ==
  \A s, t \in Sessions :
    phase[s] \in Open /\ phase[t] \in Open /\ owner[s] = owner[t] => s = t

\* No open transport escapes the entry that would have to close it: until
\* close() empties the map, the owner's state.session is that very session.
OpenIsAttached ==
  \A s \in Sessions :
    phase[s] \in Open /\ mode \in {"running", "draining"} =>
      owner[s] \in Ids /\ attached[owner[s]] = s

WillConnect(i) == \E k \in 1 .. Len(queue[i]) :
  /\ queue[i][k].gen = gen[i]
  /\ \/ queue[i][k].op \in {"start", "reconnect", "retry"}
     \/ queue[i][k].op = "rename" /\ queue[i][k].was

\* A Bot that is wanted online and not reported failed is never abandoned:
\* a timer or an operation of its current generation will dial, or a session of
\* that generation is open and its loss will be heard.
WantedIsServed ==
  \A i \in Ids : mode = "running" /\ Wanted(i) /\ conn[i] # "failed" =>
    \/ timer[i] = gen[i]
    \/ WillConnect(i)
    \/ /\ attached[i] # NoSession /\ sgen[attached[i]] = gen[i]
       /\ phase[attached[i]] \in Open /\ discon[attached[i]] = "no"

\* A forgotten Bot leaves no transport, retry or entry behind.
ForgottenIsGone ==
  \A i \in Ids : life[i] = "gone" =>
    /\ conn[i] = "none" /\ timer[i] = 0
    /\ \A s \in Sessions : owner[s] = i => phase[s] \notin Open

\* Two profiles never hold one name, whatever renames and spawns race.
NamesUnique ==
  \A i, j \in Ids : i # j /\ Live(i) /\ Live(j) => name[i] # name[j]

\* A loss counts once: 'close' and the rejection of connect() report the same
\* one, and a session that was replaced reports nothing.
OneCountPerLoss ==
  [][\A i \in Ids : attempt'[i] > attempt[i] =>
       attached[i] # NoSession /\ phase[attached[i]] \in Open]_vars

\* lifecycle.js: "Lifecycle desire survives; transient input does not."
InputNotReplayed ==
  [][\A i \in Ids : conn'[i] = "online" /\ conn[i] # "online" => ~held'[i]]_vars

\* A wanted Bot gets online, or is reported failed, or is not wanted any more.
WantedSettles ==
  \A i \in Ids : Wanted(i) /\ mode = "running" ~>
    conn[i] \in {"online", "failed"} \/ ~Wanted(i) \/ mode # "running"

\* Shutdown ends, whatever operations and sessions it met, unless the process is
\* killed and started again first.
ShutdownEnds == mode = "draining" ~> mode \in {"stopped", "running"}

-----------------------------------------------------------------------------
(* BotLifecycle implements BotTransport.                                   *)

wantNow    == {i \in Ids : Wanted(i)}
linesNow   == [i \in Ids |-> {s \in Sessions : owner[s] = i /\ phase[s] \in Open}]
servingNow == mode = "running"

Transport == INSTANCE BotTransport
  WITH want <- wantNow, lines <- linesNow, serving <- servingNow

\* Callers see BotTransport: transports open one at a time, for wanted Bots only.
ImplementsTransport == Transport!Spec
=============================================================================
