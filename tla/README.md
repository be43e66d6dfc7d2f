# Endbot: a TLA+ verification project

Endbot runs Minecraft Bedrock Bots on one server. This directory holds TLA+ models
of its core, the TLC configurations that check them on small instances, and TLAPS
proofs. Paths below are relative to the repository. `PROJECT.json` has the machine-
readable side: components, runs, mutants, the line map, hazards and theorems.

    tlc -config lifecycle.cfg MCBotLifecycle        # one run
    tlapm BotLifecycleProofs.tla                    # one of the eight proof modules

## 1. The system

Four processes take part, and a browser if the web is deployed.

    BDS + plugin  <-- link (one TCP connection, JSON frames) -->  endbotd  <-- control port -->  runtime
    (Python, in                                                   (Python)                       (Node.js)
     the server)                                                  |  ^                            |
                                                script runs  <----+  +---- CLI, web relay         +--> Bedrock sessions to BDS

- **runtime** (`runtime/src`) holds the Bots: profiles on disk, one Bedrock session per
  Bot, reconnects, held inputs, mining loops. One JavaScript thread; operations of one
  Bot are serialised in a chain of promises.
- **endbotd** (`core/src`) holds the policy and the commands: who may control Bots, who
  is online, Groups, scripts, the web. Threads: one ordered thread per link, one thread
  per CLI connection, one command worker, one delivery thread, one mining poll, one
  thread per script run.
- **plugin** (`plugin/endbot/src`) runs inside BDS: it reports presence, forwards typed
  commands, shows forms and sets permission attachments, all on the server thread.
- **cli** (`cli/endbot/src`) installs, updates and supervises the three above.

### Inventory

| Component | State it keeps | Operations | Hard part | What makes it correct |
|---|---|---|---|---|
| Bot lifecycle (`lifecycle.js`, `profile-store.js`) | profiles; per Bot: generation, state, session, timer, retry count, chain | spawn, resume, reconnect, despawn, forget, rename, inputs, shutdown, start | commands, timers and session reports run between the awaits of an operation; a loss is reported twice | at most one transport per Bot; a wanted Bot is never abandoned; one count per loss; shutdown ends |
| Bedrock session (`protocol-session.js`) | connection phase, mining loop with lease, inventory, chunks | connect, disconnect, mining, packets | late answers, lease against poll | one report per loss; a loop ends when nobody renews it |
| Input jobs (`actions.js`) | movement, actions and flags with revisions and end reasons | set, stop, step per tick | two jobs on one channel, bounded counts | a replaced job is reported ended once |
| Link and presence (`link.py`, `link_adapter.py`) | the current link, pending requests, presence records with epoch and join number | dial, handshake, snapshot, join, quit, submit, close | lost links, two links at once, requests queued behind a close | nobody online without a link; presence is the game's once settled |
| Authority (`authority.py`, `controller_policy.py`, `enrollment.py`, `controller_roles.py`, `grant_revisions.py`) | four files: policy, bindings, roles, revisions | join, quit, add, remove, list | writes that fail half-way, renamed GamerTags, offline accounts | a revoke lasts; a grant has its role; old work is not revived |
| Script runs (`scripting.py`, `script_inputs.py`, `command_runner.py`, `journal.py`, `service.py`) | run table, channel owners, worker queue, journal file | start, operation, end, cleanup, poll, close, recover | lost answers, late requests, crash, several writers of one file | an input a script left is stopped when its run ends |
| Commands and Groups (`commands.py`, `groups.py`, `ownership.py`) | Group and ownership documents, table of mining loops | about 40 commands, menus, mining poll | menus that grow old, names that change hands, replies lost half-way through a Group | what is answered is what happened, to the Bots that were shown, within their owner's wishes |
| Scripts (`script_store.py`, `scripting.py`, `script_process.py`, `script_forms.py`) | stored scripts with revisions and history, run table, runner processes | edit, import, copy, rename, restore, run, stop | editors that grow old, slots shared by threads, a runner that floods or hangs | only what was shown is replaced; every stopped run ends and frees its slot |
| Link calls (`link.py`, `dispatch.py`, `endbotd_client.py`) | pending requests, queues, the server thread's tasks | request, reply, give up, break, disable | deadlines at both ends against late answers | an answer is the answer of its own request; what was given up on is not done later |
| Web (`web_*.py`, `relay.ts`) | accounts, passkeys, sessions, ceremonies, connections | link, sign in, revoke, remove, open pages | requests under way while access is taken away; three files | access that was taken away never works again |
| Supervisor (`supervisor.py`, `processes.py`, `runstate.py`) | child processes, restart budget, files of `state/run` | start, restart, stop, console lines | child deaths and stops at every point | nothing is left running; a wanted stop ends |
| Instance (`setupcmd.py`, `updatecmd.py`, `stores.py`, `configgen.py`) | `app/`, stores in two layouts, generated files | setup, update, rollback, start | an interruption between two file steps | a version reads the newest stores; nothing an operator wrote is lost |
| Areas, wording, packets, deployment, identity keys | nothing that lasts between calls | layout, parsing, one-shot I/O | - | not modelled |

## 2. Modules

| Module | Models | Run from |
|---|---|---|
| `BotTransport` | what callers may rely on: transports of each Bot open one at a time, for wanted Bots only | abstract specification of `BotLifecycle` |
| `BotLifecycle` | `lifecycle.js` with the parts of the profile store, the session and the control server it drives | `MCBotLifecycle` |
| `*Proofs` | TLAPS theorems about `BotLifecycle`, `PluginLink`, `LinkCalls`, `ControllerAuthority`, `Scripts`, `Web` and `Commands`, one module each; `ScriptsProofs` is about `ScriptInputs` too, `CliProofs` about `Supervisor` and `Instance` | |
| `PluginLink` | link, presence, permissions, queued commands: plugin and endbotd composed | `MCPluginLink` |
| `LinkCalls` | requests over that link down to the server thread, and the CLI's connections | itself |
| `ControllerAuthority` | policy, bindings, roles, revisions and the work they authorize | `MCControllerAuthority` |
| `ScriptInputs` | the inputs script runs own: channel owners, worker, mining poll, journal, recovery, and the runtime's inputs | `MCScriptInputs` |
| `ScriptRuns` | the run's thread, its runner process, pipe, reader and queue, and the slots | extended by `Scripts` |
| `Scripts` | the `/botscript` service: stored scripts, file scripts, forms, books, composed with `ScriptRuns` | `MCScripts` |
| `Commands` | Bot and Group commands, ownership, Group menus, mining loops and their poll, with the runtime they call | `MCCommands` |
| `Web` | accounts, ceremonies, sessions, revocation, and endbotd's end of the web link | `MCWeb` |
| `Supervisor` | `endbot start` and its children, `endbot stop`, `endbot console` | itself |
| `Instance` | the files of an instance under setup, update, rollback and start | `MCInstance` |

The MC modules hold the model values, the scenarios and the symmetry sets and nothing
else. A scenario (`Commands`, `Scripts`, `Web`) is a stored state the process can start
from together with how often each outside event may happen; `left` counts them down.
Operators whose comment starts with "Mutant" are faulty versions of the definition
below them, used to see that a property notices the fault; no specification uses them.

### BotLifecycle

Everything between two awaits is one step. A command (`SpawnNew`, `SpawnOrResume`,
`Reconnect`, `Despawn`, `Forget`, `Rename`) runs up to `#serialize`, which appends a
record to `queue[i]`. The head of the chain advances through `stage`: `StartBegins`,
`ReconnectBegins`, ... until it awaits a disconnect (`"closing"`) or the replacement
delay (`"delay"`), then `StartResumes`, `ReconnectResumes`, ... . `BeginClose` and
`CloseDone`/`CloseFailed` are the two halves of `#endCurrent`; `OpenSession` is
`#connect`; `Disconnected` is `#disconnected` with all its early returns; `Spawned` is
the continuation of `session.connect()`. A session reports its failure by the close
event and by the rejection of `connect()`: the second comes as `LateRejection`.
`Quiet` makes promise continuations run before the next event of the loop, as
JavaScript does. `BeginShutdown`, `Drained` and `Exit` are `close()` and the end of the
process; `Restart` is a new process, after an exit or a crash at any moment.

Abstractions: the retry delay is "a timer is armed"; `waitingForBdsSince` is no,
recent or expired; all inputs of a Bot are one bit (`held`); the chunk radius and the
read-only commands are left out; a session object is reused once nothing refers to it.

### PluginLink

Plugin actions happen on the server thread (`PlayerJoins`, `PlayerQuits`,
`PlayerTypes`, `ConsoleTypes`, `PluginApplies`); a request travels on `wire`, is read into
`ordered` (`ServerReads`) and handled by the ordered thread in two steps where the
code releases the lock (`HandlePresence` then `HandleJoined`/`HandleQuit`;
`HandleSubmit` then `QueueCommand`). `Operation` decides permissions under the
authority's lock; `SendPermission` hands them to the delivery thread afterwards, which
is where orders can differ. Thread 0 is the CLI's. `Execute` is the worker, which
repeats the authorization. `Deliver` is the delivery thread's send: the link's own
thread at the plugin applies the permissions it received in order (`PluginApplies`),
also those of a link that is gone by then, or gives one up at its deadline
(`PluginGivesUp`). Given up on either side, a permission is logged and not sent again
while the link stays up; `lost` has the players it was for until a later one reaches
them. `HandleJoinedFails` and `OperationStops` are the failing writes of a join and of
an operation, which leave their permissions unsent (`unsent`).

Abstractions: a permission is on, off or untouched; locale reports, forms and answers
are left out; `session` numbers, `lost` and `unsent` are history: the numbers say in which stay of a player something happened. `Overlap`
says whether a new link may be accepted while requests of the last one are unhandled:
`FALSE` is the usual case, where a plugin needs longer to redial than endbotd to drain
its queue; `TRUE` is the general one. A restart of endbotd is not in this module.

### ControllerAuthority

Each public method holds one lock, so it is one step; `Writes` lets it stop after any
of its file writes. Policy and bindings change in memory after their write, roles and
revisions before it, so a failed write leaves them ahead of their files until
`Restart`. `Join` is presence plus `Authority.joined` (enroll, bind, adopt the pending
role); `Add` and `Revoke` are the two console operations with their lookups by name
(`Target`, `EffectiveRole`, `Aliases`, `Bumped`). `Start` and `End` are work that
captures the revision, `Authorized` the check made when it acts.

Abstractions: an account is its XUID and UUID together; GamerTags are case-folded
values and no two players are online under one; a crash is a failed write followed by
`Restart`.

### ScriptInputs

One Bot, the channels `move` and `mine`. The worker takes one job at a time
(`WorkerStart`, `WorkerCommand`, `WorkerOperation`, `WorkerCleanup`); the answer of a
request is `ok`, `refused`, `lost` (applied, answer lost) or `late` (not applied yet;
the runtime serves it later, in order). `Recorded` is `_record` with its `uncertain`
case; `StopOwned` is one stop of a cleanup; `PollRenews`, `PollEnds`, `PollChecks` and
`PollPops` are the mining poll, its test and its removal apart; `CloseBegins`,
`CloseTakes` and `CloseWrites` are the clean stop; `Crash`, `StartsAgain`,
`RecoveryStops` and `RecoveryEnds` the unclean one. A journal record is taken
(`snap`) in one step and written in another.

Abstractions: players, console and web are one caller; a command or operation reaches
the worker and is taken in one step; mining means loops; a batch of a Group is its
requests one by one; a loop's UUID is a number; the journal's `_written` equals the
file. `sure` and `abandoned` are history: what the runtime acknowledged, and what a
failed cleanup, a crash before the journal write or the poll's race leaves without an
owner. In that race the poll removes what a newer request owns by then; a start still
without an answer, whose loop has no identity yet, is removed in the same way.

### LinkCalls

A call is made (`Send`), may be given up by endbotd's thread (`TimesOut`), travels on
its link, is read at the plugin (`PluginReads`), and is handled by the pool
(`PoolTakes`) or, for deliveries and permissions, by the link's one ordered thread
(`OrderedTakes`). Both hand a callback to the server thread (`BridgeCall`), wait for its
future, and give up (`GivesUp`) or answer (`Answers`). `Invoke` and `Finish` are the
callback on the server thread; in between it is running, and giving up then loses
against the result. `AcceptReply` matches identifiers. `Break` cuts a link at either
end, `Connect` replaces it, `Disable` and `CloseLooks`/`CloseTells` are the plugin's
`on_disable`, which looks at each future and settles it in two steps. The CLI's half is
independent: a client connects, sends, is handled once, reads or loses its reply, and
says what it believes.

Abstractions: a deadline may pass at any moment, because the server thread may be stuck
for any time; what is delivered and presence are `PluginLink`'s.

### Commands

The one worker runs a command in the steps that other threads can see: `Act` (one
request and the ownership write after it), `RecordLoop` (the entry of a mining loop
after the runtime began it), `Member` for each member of a Group operation, `Prepare`
and `Send` for a batch. A reply is an answer, a refusal, a time-out or a
connection closed early; after the last two the request may have run, not run, or wait:
the control server drops an idle connection after 8 s and `rename` and `forget` go on
in the Bot's chain until its session is closed (`Waits`). What waits is in `late`; the
chain comes to it at any later moment (`LateEnds`), and a newer operation of the Bot
overtakes it as in `lifecycle.js` (`Overtaken`). While something waits, a session may
already be closed, so a request may be refused and a member of a batch be away
(`Able`). A request that carries an identity is compared with it by `Answer`. `OpenMenu` records what a Group's menu shows and every later submission
carries it (`FormGroup`, `Guard`, `Pinned`). The poll goes through its copy of the
table one entry at a time: `Check`, then `StopLoop` or `Renew`; `Taken` compares the
entry under the lock. `Tick` is the runtime's lease.

Abstractions: one Group name; inputs that the runtime applies at once are one kind;
placement of a spawn, queries, single-block mining and the history of results are left
out. A command that is refused before its first request is no step. Only renames and
forgets wait: what spawn, resume and despawn change (whether the Bot is wanted) changes
when they are dispatched, and the session follows. A request that finds a rename waiting
takes its effect at once or not at all, where the code may queue it behind; a Bot's
status and the request that uses it are one step.

### ScriptRuns and Scripts

A run's thread goes through `Launch`, `Receive` and `Handle`, `Prepare`, `Throttle`,
`Operate` (on the worker), `Settle`, `Reply`, and, however it ends, `Close`, `Cleanup`
and `Leave`. The runner is another process: it may emit anything, exit or hang
(`Emit`, `Exit`), writes into a pipe of `PipeSize`, and the reader moves its events to
a queue of `QueueSize` (`Read`). `Inspect` takes a slot for a declaration check on the
worker or a web thread. `Scripts` adds the store: each operation with its guard
(`Same`), the second step after a declaration check (`SaveEnd`, `ParametersEnd` and, for
a script without parameters, `StartsPlain`) or a book (`Fill`), and the operator's
folder, whose files are checked one by one (`Reload`, `FileCheck`, `FileChecked`,
`ReloadEnds`).

Abstractions: a script is one of a few bodies plus how it ends; the runner's requests
are one kind; what a run leaves active is `ScriptInputs`'. An answer to the runner is
written at once; `send` (`script_process.py:103`) in fact waits while the pipe is full,
and a run without a wall limit has no watchdog, so `RunsEnd` says nothing of a runner
that does not read its answers.

### Web

A request is run by a worker that holds no lock from one step to the next: `Ensure`,
`Begin`, `Limit`, `AddPasskey`, `Touch`, `Issue`, `Replace`, `Answer`. A grant change
is `Revoke` then `Decide` and `End` (`grants_changed`); each write of the three files
may fail, and `Restart` reads back what was written. The link's generations and
connections are `LinkUp`, `LinkLost`, `Open`, `Opened`, `Close`, `Ws`, `Handle`.

Abstractions: one player; signatures are checked by libraries, so a request that
reaches a state change is one they accepted; connection ids are not reused within a
link, and the relay drops answers of another link.

### Supervisor

The thread's place is `pc` with the reason in `goal`. `RunStart`, `Spawn`, `IsReady`,
`NotReady` and `StartServer` are the first start and every later one; the loop takes
`SeesStop`, `OperatorExit`, `OperatorStart`, `BdsExited`, `ChildDown` in the order of
the code; `todo` is the list of children still to stop (`StopAsk`, `StopEscalate`).
Children print their ready line, die and ignore a stop as they please. `Crash` kills
the supervisor and leaves orphans, and a next one starts.

Abstractions: time in ticks; failures kept as ages, so that the clock is unbounded;
exit codes and logs are left out. A kill works: `kill_process_tree`
(`processes.py:208`) is best effort, tries twice and waits five seconds, and a process
that survives this is outside `NothingLeft` and `StoppedMeansStopped`.

### Instance

Each command is a list of steps (`step`), one per file or directory it changes;
`Interrupted` stops any of them anywhere. `Carry` is `stores.py`: the two data files one
after the other, scripts one by one, removal of the sources, the marker last. `legacy`
is what the two generated files say of the pre-bound identities: nothing, empty lists,
identities, or a text that does not parse. `LegacyAllowlists` reads them as
`configgen.py:196-222` does: the first `[authorization]` table decides, and an unreadable
file means empty lists, which `GenerateEndbotdConfig` then writes. `bad` is what an operator broke by hand
and a check would see; `Break` and `Fix` change it at any time.

Abstractions: a store's content is the number of its last edit; `version.txt` stands
for the server's files; versions before endbotd are outside this repository and only
start, edit their own layout and update.

## 3. Runs

Twelve runs, 40 properties in the ten that pass. Every property of a passing run has a
mutant in `PROJECT.json` that breaks it.

| Run | Result | What it shows |
|---|---|---|
| `lifecycle` | pass | `OneTransport`, `WantedIsServed`, `ForgottenIsGone`, `OneCountPerLoss`, the refinement of `BotTransport`; under fairness a wanted Bot gets online, fails or is unwanted (`WantedSettles`) and shutdown ends (`ShutdownEnds`) |
| `lifecycle_inputs` | violation | an input accepted while a session is being closed is applied to its replacement |
| `link` | pass | `PresenceIsTrue`, `ConsolePermissionsConverge`, `RunsInOwnSession`, with link losses, BDS restarts, quits and rejoins, and permissions that are given up on |
| `calls` | pass | `AnswerTrue`, `InOrder`, `GivenUpIsSkipped`, `ThreadsFreed`: deadlines, late replies, full queues, broken links and a disabled plugin; `CliOnce` for repeated and lost CLI requests |
| `authority` | pass | `RevocationSticks`, `NoRevival`, `KeptNameGrantHasRole` with failing writes, renames and restarts |
| `inputs` | pass | `Tracked`, `LaterInputsPreserved` with lost and late requests, crashes and failing writes |
| `inputs_stop` | violation | a run that ends during a clean stop leaves its input and no journal entry |
| `commands` | pass | `RowsTrue`, `PrivateKept`, `ActsOnShown` for commands and old menus, also with renames that end late; `PollSparesOthers` and `LoopsEnd` for mining loops |
| `scripts` | pass | `SlotsKept`, `RunsEnd`, `ActsOnChosen`, `ShownIsReplaced` |
| `web` | pass | `NoRevival`, `RemovedStaysRemoved`, `SlotsExact` |
| `supervisor` | pass | `NothingLeft`, `StoppedMeansStopped`, `RestartPolicy`, `StopServed` |
| `instance` | pass | `NoLostEdits`, `ScriptsKept`, `LegacyKept` |

A violation run checks what a comment or a document of the repository says; the
finding in `PROJECT.json` quotes it. `TypeOK` is stated in every module and listed in
the run whose theorem it accompanies.

**Bounds.** `lifecycle`: one Bot, as Bots share only the store and the session factory
(that names stay unique across Bots is proved instead); two names so that a rename has
a target; two sessions, the number the properties compare; three generations and a
chain of two, so that a command can overtake one that is waiting; one attempt, so that
the budget is reached and passed; one restart. `link`: one player (the code treats
players alike and shares nothing between two but the delivery thread), two links, two
joins, one typed command, one controller operation (console or CLI). `calls`: three
calls, so that an ordered one can be overtaken by the second and its late reply meet a
third; two links; one pool thread and queues of two, so that both are full; two CLI
clients on one place. `authority`: two players and a local Bot, two GamerTags, one of
them configured, two operations with one failing write, one restart and one piece of
work; enough for grant, rename and revoke by another alias. `inputs`: two runs and
the player, two operations, one event out of failed request, failed write, crash or
poll, one restart (a process started after a clean stop starts no run); the two
channels are the plain kind and the one with identities. `commands`: two players and
the console, up to three Bots with two names so that a name changes hands, two Group
identities so that a Group is recreated, members two; ten scenarios. `scripts`: two
script names, an author and a player, two runs at once, a queue of two and a pipe of
one, two places of history; twelve scenarios. `web`: two workers, two connections,
limits of one and two; three scenarios. `supervisor`: three failures in a window of two
ticks, so that the window empties before and after the budget; two supervisors.
`instance`: one earlier and two later versions, two scripts, five commands, two edits.

**Fairness.** `BotLifecycle`: the event loop serves every due timer and every ready
socket although commands keep coming: strong fairness of `Advance`, `TimerFire` and
`ConnectSettles`, because `Quiet` becomes false again and again. `connect()` ends by its
own timers and `disconnect()` by its five-second one. `WaitExpires` (time passes),
`LateRejection`, `Drained` and `Exit` stay enabled until taken, and get weak fairness.
`ShutdownEnds` is for a process that is not killed and restarted meanwhile.
`Supervisor`: weak fairness of its thread and of time; nothing of the children, which
may ignore every request. `Commands`: the poll's thread and the runtime's ticks;
nothing of the worker. `Scripts`: the threads of runs, readers, the worker's second
steps and the web check; nothing of the runner process. `LinkCalls`: every thread but
the server thread, which may be stuck. No other model assumes fairness, and none
assumes anything about commands, players, the operator, or BDS letting a Bot in.

Deadlock is not checked: the bounds stop every model, and each process may stop.

## 4. Proofs

Eight modules, each proved by TLAPS from nothing but the named assumption on the
constants of its component: marker values lie outside their sets, bounds are natural
numbers, sets that are counted are finite. No theorem bounds the number of Bots,
players, calls, links, scripts, versions, commands or faults. Each safety theorem goes
the same way: an inductive invariant holds initially, every action keeps it (one lemma
per group of actions), and it implies the property; an action property follows from
the invariant and one step.

| Theorem | Property | Module |
|---|---|---|
| `TypeCorrect` | `TypeOK` | `BotLifecycleProofs` |
| `OneTransportAlways`, `OpenIsAttachedAlways` | `OneTransport`, `OpenIsAttached` | |
| `NamesUniqueAlways` | `NamesUnique` | |
| `WantedIsServedAlways` | `WantedIsServed` | |
| `ForgottenStaysGone` | `ForgottenIsGone` | |
| `LossesCountOnce` | `OneCountPerLoss` | |
| `LifecycleImplementsTransport` | the refinement of `BotTransport` | |
| `PresenceStaysTrue`, `PermissionsStayInOrder`, `CommandsRunInTheirSession` | `PresenceIsTrue`, `ConsolePermissionsConverge`, `RunsInOwnSession` | `PluginLinkProofs` |
| `AnswersAreTrue`, `OrderedInOrder`, `GivenUpStaysSkipped`, `CliRunsOnce` | `AnswerTrue`, `InOrder`, `GivenUpIsSkipped`, `CliOnce` | `LinkCallsProofs` |
| `RevokedWorkStaysOver`, `RevocationsStick`, `GrantsHaveTheirRole` | `NoRevival`, `RevocationSticks`, `KeptNameGrantHasRole` | `ControllerAuthorityProofs` |
| `OnlyShownIsReplaced`, `SlotsAreKept`, `RunsActOnChosen` | `ShownIsReplaced`, `SlotsKept`, `ActsOnChosen` | `ScriptsProofs` |
| `InputsTypes`, `CleanupsPreserve`, `ScriptInputsTracked` | `InputsTypeOK`, `LaterInputsPreserved`, `Tracked` | |
| `WindowIsExact`, `RevokedSessionsStayOver`, `RemovedAccountsStayRemoved` | `SlotsExact`, `NoRevival`, `RemovedStaysRemoved` | `WebProofs` |
| `NothingLeftBehind`, `StoppedIsStopped`, `RestartsAreBounded` | `NothingLeft`, `StoppedMeansStopped`, `RestartPolicy` | `CliProofs` |
| `EditsSurvive`, `ScriptFilesSurvive`, `IdentitiesSurvive` | `NoLostEdits`, `ScriptsKept`, `LegacyKept` | |
| `CommandsTyped` | the shape of the stores and of the worker's command | `CommandsProofs` |
| `CommandsKeepPrivate`, `MenusActOnShown` | `PrivateKept`, `ActsOnShown` | |
| `GroupRowsTrue`, `PollEndsOnlyTheirs` | `RowsTrue`, `PollSparesOthers` | |

The theorems of `PluginLink` assume `Overlap = FALSE`: a link is accepted after the
last one's requests are handled. Without it they are false (finding 6).

### BotLifecycle

*Types.* `TypeOK` is not inductive: a segment reads the head of the chain, and a
session event updates the entry of the session's owner. `TypeInv` adds that a chain in
a segment is not empty and that a session that is open or has a rejection to report
has an owner. One lemma per group of variables says that an unchanged group keeps its
type; one per action group does the rest.

*Transports.* `OneTransport` is not inductive: `OpenSession` only knows that the entry
has no session. `OpenIsAttached` closes the gap (what is not attached is not open),
and needs in turn that an attached session belongs to the Bot (`AttachedIsOwned`), that
the session is closed when `#endCurrent` goes on after its await
(`ClosedBeforeDetached`), and that a late rejection is of a closed session
(`LateIsClosed`). Their conjunction is `TransportInv`.

*Wanted Bots.* A command overtakes the operations before it in the chain, so the
property says nothing of the operation at the head. `ServedInv` orders the chain: the
operations that take a generation stand in its order and none is above `gen` (`Ordered`),
all of them are newer than the attached session (`Older`), and while the Bot is wanted
an overtaken operation is there only with one of the current generation that dials
(`Followed`). The segments
reduce to seven shapes (`Segment`), and each shape keeps `BotOK` of its own Bot and
leaves the others' alone. A head that is overtaken leaves a dialling operation behind
it (`Overtaken`); a loss arms the timer or is of a session the Bot is not served by.

*Forgetting and losses.* `CountInv` says what may still be reported: a session that is
open or has a rejection left is not newer than its Bot, and is older once the runtime
stops (`HeardInTime`); a late rejection never counts, and is delivered before anything
else runs (`LateIsCounted`); a forgotten Bot has no entry, no operation in a segment
and no open session (`GoneIsIdle`). A report that counts is then one of an open,
attached session of a running process (`LossIsOwn`), which is `OneCountPerLoss`.

*Names.* Only `SpawnNew`, `SpawnHalfDone` and `RenameResumes`/`RenameBegins` write a
name, and each repeats the store's own check in the step that writes.

*Refinement.* With types and transports each step changes the open transports of at
most one Bot, or is `Stop` or `Restart`, or changes nothing abstract.

`OpenIsAttached` and `NamesUnique` are properties the theorems state and no run lists:
the proofs hold for every size, and the second needs two Bots, which exceeds a run.

### PluginLink

The properties speak of a link with nothing in flight; `LinkInv` says the same of what
is in flight. `Stream` is the requests endbotd has yet to handle, in order. The last
one that tells a player's session tells the one in game (`PresenceComes`); each typed
command is preceded by the telling of the session it was typed in (`SubmitsTrue`); a
captured command's epoch and join number name its session as long as the record does
(`CommandsTrue`); and either a decision about a player is still to come or the last
permission on its way is the one the authority would decide now (`PermissionsCome`).
Handling the head of the stream, appending to it and losing it are lemmas about
sequences. What a delivery gives up on goes to `lost` and what a failed write leaves out
to `unsent`, so the decision that counts for anyone else is still there or was applied.

### LinkCalls

`CallInv` follows a call through its places. Calls take their numbers and identifiers
in order, so an identifier names one call of its link (`CallsKnown`); what waits on a
link is its own, unhandled and in order (`FramesInOrder`); a future exists once the
bridge was called, and what it says is what happened to the callback (`Futures`); a
reply says what its own call's future says (`RepliesTrue`); what was applied, is running
and is scheduled keeps the order of ordered calls (`Pipeline`). `CliInv` relates what a
client says to the identifiers endbotd has seen.

### ControllerAuthority

`AuthorityInv`: work's revision is not above its owner's, and below it once the owner
was revoked (`WorkMarked`). For a revocation to reach the revision the account must be
in a row of the report, bound or granted, whatever its name is by then (`WorkListed`):
rows are replaced, never dropped.

`RoleInv` is for `KeptNameGrantHasRole`. A grant can come from a GamerTag that waited, so
a role is owed to a player from the moment its name is added (`Owed`), not from the grant,
and it has to be there in memory and on disk, since a restart turns one into the other.
A remove forgets the roles of every row it denies, by account or by name: it takes a role
that is still owed only if a name could be denied without its account, which
`DeniedApart` excludes. That in turn is about the aliases: whoever is bound or granted
under a name they contain is among them. The passes that collect them are a recursive
function, whose existence and result are shown by looking at the least length at which
they would fail (`PassesExist`, `PassesGather`). The second assumption, `FirstNamesDiffer`,
is that no two players have one GamerTag at first; without it the property is finding 7.

### Scripts

`StoreInv`: no two scripts share a revision (`RevisionsApart`), so a form that shows the
revision there is shows the source there is (`FormKnown`), also after the declaration
check between submission and write (`JobKnown`). Copies, renames and deletions each
keep it. `RunsInv`: a run in any phase has the Bot it was started for, and active
runs plus checks stay within the limits (`SlotsInv`, with cardinalities of finite sets).

### ScriptInputs

`InputsTyped`: every loop that is named anywhere was begun, a snapshot a writer carries
is a journal (`JournalTaken`), and no thread holds anything while the process is down or
recovers (`NoThreads`).

`SureInv` is for `LaterInputsPreserved`: an input the runtime acknowledged to a run that
still owns it is that run's, also while its answer is on the way to the table and while a
cleanup holds a copy of the table.

`TrackInv` is for `Tracked`, which says of each moment that someone answers for a run's
input. It has to say who, and that this one's stop will match: the owner's loop is the
one that will have the channel once the late requests are served, or is unknown
(`Stops`). While the process accepts work this holds of the table, except for what the
request under way owns (`OpenOwned`, `OpenRecord`); a cleanup's copy is as good as the
table, and a run that is cleaned owns nothing (`OpenCleanups`); a loop the poll tested is
not the one the runtime has (`OpenPoll`). Down, it holds of the file; recovering, of the
table read from it.

The late requests are applied by a recursive function (`Served`). That it exists, what
serving one more at either end gives, and that an input served later is one of those
there before or asked since (`Fades`) are lemmas, each shown by looking at the least
length at which it would fail. The one assumption beyond the bounds is that runs are not
called what the threads are (`InputsAssumption`).

The invariant was not inductive at first: the poll's removal compares no loop, so it can
remove a start without an answer, which needs one event more than the run has. That is
the race of the code with another newer request, and `abandoned` covers it now.

### Web

`SlotInv`: the window is the image of the link's tables under `Place`, connections are
told apart by their ids, so removing one frees one place. `SessionInv`: a revoked
session's revision is below the current one, which only rises; so is what a restart
reads back. `AccountInv`: account numbers are not reused.

### Supervisor and Instance

`ChildInv`: while children are stopped, what is alive is still in `todo`
(`WhileStopping`); in the loop with BDS stopped, neither BDS nor the runtime is alive,
and a `start` line begins with the runtime while BDS is still down (`WhileStopped`).

`FailInv`: `_restart`'s count (`failures`) and the failures inside the window (`recent`)
are the same at their ends (`Aligned`). What only the count has is past the window;
what only the window has was counted before the count started anew, and is less than
`MaxFailures`, since a full count ends the supervisor (`Limit`). So a full count lies
inside one window, and the window never holds more than `2 * MaxFailures - 1`. The
assumptions are those on the restart options (`SupervisorBounds`).

`StoreInv`: the layout the marker names has the last edit of each data file, and from
its copy to the marker's change so has the other one (`DataKept`); a script is removed
after its copy (`FilesKept`); endbotd's file has the identities before the plugin's is
rewritten (`LegacyTaken`); which versions a command can meet (`VersionsKnown`), as an earlier
version reads its own layout whatever the marker says.

### Commands

`Typed` says what the worker carries: a command in any place has a sender, Bots that
exist or existed, and, for a Group operation, distinct members with a row each; an
identity that was never used has neither profile nor owner. Its assumption on the stored
states is what the loaders refuse otherwise (`load_ownership`, `GroupStore`).

`NamesApart`: no two Bots have one name. A late rename finds its name free when it is
made, as the store's own check repeats, and so do a spawn and a rename that is answered.
`JobAllowed`: nothing between the owner check and the request changes an owner, since
the worker alone writes ownership. The Bot that has the name is another one only if a
late rename gave it the name meanwhile; it is in `renamed` then, the exception of
`PrivateKept`. `JobShown`: a command
taken from a menu carries the menu's Bot or members of the Group it showed, so a later
edit of the Group changes who is refused, never who is reached. `RowsSoFar`: the rows
written are true of the requests made so far and the open ones are the last, so an
authority that ends in the middle skips a tail nobody asked; `RowsTrue` is this at the
end. `LoopsKnown`: an entry of the mining table, of the poll's copy of it and of the loop
a poll is about to stop names a loop that was begun by the player in the entry; with the
comparison of `Taken` the loop the poll ends for want of control is then that player's.

### What stays with TLC

- Liveness: `WantedSettles`, `ShutdownEnds`, `StopServed`, `RunsEnd`, `LoopsEnd`,
  `ThreadsFreed`. Fairness needs ENABLED, which the prover does not reason about.
- The two violations are counterexamples; there is nothing to prove.

## 5. What the models found

With a run:

1. `lifecycle.js:560`: inputs are reset before the await of `disconnect`, and the entry
   says online meanwhile (`lifecycle_inputs`).
2. `scripting.py:731`: a run that ends during shutdown is not cleaned up
   (`inputs_stop`).

Divergences between code and text that the models show, each with the exception a
property makes for it:

3. `commands.py:1683`: the owner check and the request name the Bot and pin no identity,
   and a rename that `control-server.js:54` answered with a closed socket may be made in
   between, so a command reaches a Bot private to someone else (`docs/OPERATIONS.md:107`:
   "Someone else's private Bot or Group is refused"; `PrivateKept` excepts the Bots
   renamed in this way, `renamed`).
4. `service.py:368`: permissions are decided under a lock and queued after it, so a CLI
   operation during a join can leave the older decision at the plugin
   (`ConsolePermissionsConverge` speaks of the console's).
5. `service.py:516`: a permission that times out or that the plugin gives up on
   (`dispatch.py:50`) is logged and nothing sends it again while the link is up, and an
   operation whose write fails sends none (`docs/OPERATIONS.md:283`: "Changes update
   online players' control permission and command visibility immediately";
   `ConsolePermissionsConverge` excepts `lost` and `unsent`).
6. `link.py:820`: a replaced link's ordered thread still changes presence (`Overlap`; the
   run and the theorems of `PluginLink` are for `Overlap = FALSE`).
7. `authority.py:213`: an existing grant is recognised by name, so a grant to the new
   holder of a GamerTag can lack its role (`KeptNameGrantHasRole`).
8. `authority.py:248`: revoking an offline account of `allowed-xuids` by XUID bumps no
   revision, so work it has under way is authorized again if it is granted later
   (`NoRevival` speaks of the other accounts; the run has none on that list, the theorem
   has any number).
9. `service.py:293`: the journal record is taken outside the journal's lock, so an
   older one can be written last; the next change repairs it.
10. `web_auth.py:218`: the limit of passkeys is tested and used apart; two registrations
    pass it together (`docs/WEB.md:158`: "at most 10 passkeys").
11. `control.py:58`: a reply that is cut off is a protocol error, not `unavailable`, and
    a member whose request ran is counted as failed (`docs/GROUPS.md:75`; `RowsTrue`
    names the case).
12. `script_process.py:153`: a run whose runner exits as the last thing it does can be
    told it failed when the reader had not queued `done` yet.
13. `supervisor.py:311`: a console `start` repeats two of the checks of a first start
    (`docs/OPERATIONS.md:381`: "with the checks a first start runs").
14. `supervisor.py:359`: failures are counted from the oldest one and forgotten all at
    once when it is too old, so up to `2 * MaxFailures - 1` fall into one window before
    the supervisor gives up (`docs/OPERATIONS.md:375`: "after 5 failures of one child
    within a 5-minute window it stops"; `RestartPolicy` states the code's bound).
15. `dispatch.py:80`: `close` looks at a future and settles it without the lock; the
    server thread may have settled it in between, and `on_disable` raises.
16. `service.py:46`, `plugin.py:32`: both deadlines of a delivery are 5.0 s, although
    `link_adapter.py:65` says to keep the plugin's below endbotd's; no property of
    `LinkCalls` rests on it.

Seen while modelling, where no text says otherwise:

- *Lifecycle.* A despawn overtaken by a rename leaves an unwanted Bot shown as
  `reconnecting` (`lifecycle.js:169`).
- *Inputs.* The mining poll's test and removal are apart and can disown a newer loop
  (`script_inputs.py:93`); a crash before the journal write leaves an input no one
  knows of, which for mining the lease of 200 ticks ends.
- *Commands.* A lost reply to a spawn leaves a Bot without owner and outside
  `max-bots-per-controller`; the plain Bot menus pin nothing but the name; a failed
  ownership write leaves memory ahead of the file; a restart brings back more Bots than
  a lowered limit; a player may join between `check_seat` and the spawn; a `look` the
  world did not confirm counts as failed though it was sent.
- *Web.* Beginning a ceremony replaces the table by a copy taken earlier, so an entry
  can be lost or come back (`web_auth.py:149`); a sign-in verified before a revoke and issued
  after a regrant records the later revision; after a failing write pages stay open
  until their next message.
- *Supervisor.* A stop request (`stop.request`) left by a killed supervisor is consumed
  by the next one, which stops as soon as it looks; two supervisors started at the same
  moment are not excluded by the pid file.
- *Instance.* An update to an earlier bundle leaves the stores in the later layout;
  rollback chooses by modification time and may choose a directory whose extraction
  stopped; an interrupted rollback leaves scripts in both layouts; a failed check after
  the BDS change leaves the newer BDS; a generated configuration that cannot be parsed
  drops the pre-bound identities (`test_configgen.py:314-322` says so), and an empty
  `[authorization]` table in the plugin's file hides those in endbotd's (`LegacyKept`
  excepts what happens to the files between two commands); a fresh setup over an existing server directory makes
  no backup.
- *Calls.* The order of deliveries holds within one link, not across two; a player is
  told to try again (`plugin.py:423`) also when endbotd took the command and only the
  answer was lost.

## 6. Not modelled

- Packets, inventory, chunks, block data and the breaking of one block: world state of a
  third-party server.
- Areas, wording, layout, parsing and file formats: no state between two calls.
- The relay (`relay.ts`), a Durable Object in TypeScript, the Svelte user interface, the
  deployment: endbotd's end of the link is in `Web`. How the relay retires a silent link
  while requests on it are pending (`relay.ts:117`) is therefore not covered, and neither
  are the sizes of the tables of ceremonies and sessions (`web_auth.py:150`).
- The Luau runner and its OS confinement, the Endstone patches (C++), identity keys and
  signatures: external processes and cryptography; the runner's protocol is in
  `ScriptRuns`.
- Exit codes and logs of the CLI, the history of Group results, spawn placement, and all
  queries: they change nothing another step reads.
- Development scripts and probes (`scripts/`).

`PROJECT.json` gives the reason for each component.

## 7. Plan

Modelled: every component of section 1 that keeps state between two steps. Proved:
section 4. What is left:

1. `PluginLink` for `Overlap = TRUE`: the weaker statement that holds of presence once
   the replaced link's requests are handled.
