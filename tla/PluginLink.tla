----------------------------- MODULE PluginLink -----------------------------
(***************************************************************************)
(* The link between the BDS plugin and endbotd: presence, session          *)
(* revisions, control permissions and the check of every queued command    *)
(* (endbot_core/link.py, endbotd/service.py, endbotd/authority.py,         *)
(* endbot_core/command_runner.py and the plugin's link_adapter.py).        *)
(*                                                                         *)
(* Threads: the BDS server thread (joins, quits, typed commands), the      *)
(* plugin's ordered thread of each link (permissions), endbotd's ordered   *)
(* thread of each accepted link, the thread of one endbot CLI connection   *)
(* (thread 0), the delivery thread and the command worker.  What runs      *)
(* under the authority's or the presence's lock is one step.               *)
(***************************************************************************)
EXTENDS Naturals, Sequences, FiniteSets

CONSTANTS
  Players,       \* players with an XUID
  Overlap,       \* a link may be accepted before the last one's requests are handled
  MaxLinks,      \* bound: links dialled
  MaxSessions,   \* bound: joins per player
  MaxCommands,   \* bound: commands players type
  MaxOps,        \* bound: controller operations, typed at the console or sent by the CLI
  MaxQueue       \* bound: requests in flight on one link, and queued commands

ASSUME LinkAssumption ==
  /\ Overlap \in BOOLEAN /\ IsFiniteSet(Players)
  /\ MaxLinks \in Nat /\ MaxSessions \in Nat /\ MaxCommands \in Nat
  /\ MaxOps \in Nat /\ MaxQueue \in Nat

VARIABLES
  \* BDS and the plugin
  ingame,    \* the players online
  seen,      \* how often each player has joined: the number of the session
  attach,    \* the control attachment: "none", "on" or "off"
  plive,     \* PluginLink._live, 0 for None
  dial,      \* a connection whose snapshot is not published yet, 0 for none
  \* the sockets
  made,      \* links accepted so far; link c has epoch c
  sock,      \* the connection is up
  wire,      \* sent by the plugin and not read yet
  \* LinkServer and Presence
  srv,       \* the server's LinkConnection: "none", "open" or "closed"
  ordered,   \* LinkConnection._ordered
  link,      \* LinkServer._link, 0 for None
  joins,     \* Presence._joins
  rec,       \* Presence._players
  \* Authority
  status,    \* "none", "allowed" or "revoked"
  grev,      \* grant revisions
  granted,   \* _granted
  \* threads
  at,        \* where a thread is: "idle", "applied", "captured" or "permissions"
  task,      \* the request a thread handles, or the command it has captured
  due,       \* permissions a thread has yet to submit to the delivery thread
  out,       \* permissions on the delivery thread
  asked,     \* permissions sent on a link and not handled by the plugin yet
  work,      \* commands on the ordered worker
  ops,       \* commands so far, of players, the console and the CLI, and runs
  \* ghosts: players whose last permission was given up on at the plugin or came
  \* late on an old link, and those who had none sent because a write failed
  lost, unsent

bdsVars  == <<ingame, seen, attach>>
linkVars == <<plive, dial, made, sock, srv, link>>
presVars == <<joins, rec>>
authVars == <<status, grev, granted>>
pathVars == <<wire, ordered>>
permVars == <<out, asked, lost>>
vars == <<bdsVars, linkVars, presVars, authVars, pathVars, at, task, due, permVars, work, ops, unsent>>

Links   == 1 .. MaxLinks
Threads == 0 .. MaxLinks

NoRecord == [epoch |-> 0, n |-> 0, session |-> 0]
NoDue    == [p \in Players |-> "no"]

\* A request of the plugin.  The session of a command, and the session and the
\* link of a presence record, are only known to the model.
Request(kind, who) == [kind |-> kind, who |-> who, session |-> seen]
NoTask == [kind |-> "none", who |-> {}, session |-> [p \in Players |-> 0]]

Known(p)   == rec[p].epoch # 0
Allowed(p) == status[p] = "allowed"

Send(c, r) == wire' = IF sock[c] THEN [wire EXCEPT ![c] = Append(@, r)] ELSE wire
Room(c)    == c # 0 => Len(wire[c]) + Len(ordered[c]) < MaxQueue

-----------------------------------------------------------------------------
(* The server thread of BDS.                                               *)

PlayerJoins(p) ==
  /\ p \notin ingame /\ seen[p] < MaxSessions /\ Room(plive)
  /\ ingame' = ingame \cup {p}
  /\ seen' = [seen EXCEPT ![p] = @ + 1]
  /\ attach' = [attach EXCEPT ![p] = "none"]
  /\ IF plive = 0 THEN UNCHANGED wire
     ELSE Send(plive, [kind |-> "join", who |-> {p}, session |-> seen'])
  /\ UNCHANGED <<linkVars, presVars, authVars, ordered, at, task, due, permVars, work, ops, unsent>>

PlayerQuits(p) ==
  /\ p \in ingame /\ Room(plive)
  /\ ingame' = ingame \ {p}
  /\ attach' = [attach EXCEPT ![p] = "none"]
  /\ IF plive = 0 THEN UNCHANGED wire ELSE Send(plive, Request("quit", {p}))
  /\ UNCHANGED <<seen, linkVars, presVars, authVars, ordered, at, task, due, permVars, work, ops, unsent>>

\* A player types a command; without a link it is refused on the spot.
PlayerTypes(p) ==
  /\ p \in ingame /\ plive # 0 /\ Room(plive) /\ ops.typed < MaxCommands
  /\ Send(plive, Request("submit", {p}))
  /\ ops' = [ops EXCEPT !.typed = @ + 1]
  /\ UNCHANGED <<bdsVars, linkVars, presVars, authVars, ordered, at, task, due, permVars, work, unsent>>

\* The operator types botcontrollers add or remove at the server console.
ConsoleTypes(kind, p) ==
  /\ plive # 0 /\ Room(plive) /\ ops.console + ops.cli < MaxOps
  /\ Send(plive, Request(kind, {p}))
  /\ ops' = [ops EXCEPT !.console = @ + 1]
  /\ UNCHANGED <<bdsVars, linkVars, presVars, authVars, ordered, at, task, due, permVars, work, unsent>>

\* BDS restarts: nobody quits, everybody is gone.
BdsRestarts ==
  /\ made < MaxLinks
  /\ ingame' = {}
  /\ attach' = [p \in Players |-> "none"]
  /\ plive' = 0 /\ dial' = 0
  /\ sock' = [c \in Links |-> FALSE]
  /\ asked' = [c \in Links |-> <<>>]
  /\ UNCHANGED <<seen, made, srv, link, presVars, authVars, pathVars, at, task, due, out, lost, work, ops, unsent>>

-----------------------------------------------------------------------------
(* Links.                                                                  *)

SocketBreaks(c) ==
  /\ sock[c] /\ made < MaxLinks
  /\ sock' = [sock EXCEPT ![c] = FALSE]
  /\ UNCHANGED <<bdsVars, plive, dial, made, srv, link, presVars, authVars, pathVars, at, task, due, permVars, work, ops, unsent>>

PluginNotices ==
  /\ plive # 0 /\ ~sock[plive]
  /\ plive' = 0
  /\ UNCHANGED <<bdsVars, dial, made, sock, srv, link, presVars, authVars, pathVars, at, task, due, permVars, work, ops, unsent>>

NoRecords == joins' = 0 /\ rec' = [p \in Players |-> NoRecord]

Handled(c) == wire[c] = <<>> /\ ordered[c] = <<>> /\ at[c] = "idle"

\* LinkServer._handshake under its lock: this link, and an empty presence.
Accept(c) ==
  /\ link' = c
  /\ NoRecords

\* The plugin dials and endbotd accepts its hello.
Handshake ==
  /\ plive = 0 /\ dial = 0 /\ made < MaxLinks
  /\ Overlap \/ \A c \in Links : Handled(c)
  /\ LET c == made + 1 IN
       /\ made' = c /\ dial' = c
       /\ sock' = [sock EXCEPT ![c] = TRUE]
       /\ srv' = [srv EXCEPT ![c] = "open"]
       /\ Accept(c)
  /\ UNCHANGED <<bdsVars, plive, authVars, pathVars, at, task, due, permVars, work, ops, unsent>>

\* _go_live: the snapshot is read in the step that publishes the link.
GoLive ==
  /\ dial # 0
  /\ plive' = dial /\ dial' = 0
  /\ Send(dial, Request("snapshot", ingame))
  /\ UNCHANGED <<bdsVars, made, sock, srv, link, presVars, authVars, ordered, at, task, due, permVars, work, ops, unsent>>

\* The server thread did not answer in time: "presence snapshot failed".
GoLiveFails ==
  /\ dial # 0 /\ made < MaxLinks
  /\ dial' = 0
  /\ sock' = [sock EXCEPT ![dial] = FALSE]
  /\ UNCHANGED <<bdsVars, plive, made, srv, link, presVars, authVars, pathVars, at, task, due, permVars, work, ops, unsent>>

\* LinkServer._closed
Closed(c) ==
  IF link = c THEN link' = 0 /\ NoRecords ELSE UNCHANGED <<link, presVars>>

\* The reader fails, or a newer link has replaced this one.  What is queued on
\* the ordered thread is still handled; what is on the wire is lost.
ServerCloses(c) ==
  /\ srv[c] = "open" /\ (~sock[c] \/ link # c)
  /\ srv' = [srv EXCEPT ![c] = "closed"]
  /\ sock' = [sock EXCEPT ![c] = FALSE]
  /\ wire' = [wire EXCEPT ![c] = <<>>]
  /\ Closed(c)
  /\ UNCHANGED <<bdsVars, plive, dial, made, authVars, ordered, at, task, due, permVars, work, ops, unsent>>

ServerReads(c) ==
  /\ srv[c] = "open" /\ wire[c] # <<>>
  /\ ordered' = [ordered EXCEPT ![c] = Append(@, Head(wire[c]))]
  /\ wire' = [wire EXCEPT ![c] = Tail(@)]
  /\ UNCHANGED <<bdsVars, linkVars, presVars, authVars, at, task, due, permVars, work, ops, unsent>>

-----------------------------------------------------------------------------
(* The ordered thread of a link.                                           *)

Next1(c, kinds) == at[c] = "idle" /\ ordered[c] # <<>> /\ Head(ordered[c]).kind \in kinds

Take(c, where) ==
  /\ ordered' = [ordered EXCEPT ![c] = Tail(@)]
  /\ task' = [task EXCEPT ![c] = Head(ordered[c])]
  /\ at' = [at EXCEPT ![c] = where]

\* Every record touched gets a number of its own.
Numberings(S) == {f \in [S -> 1 .. Cardinality(S)] : \A p, q \in S : f[p] = f[q] => p = q}

\* Presence._join for the players S, under the current epoch.
JoinAll(S, base, session) ==
  \E f \in Numberings(S) :
    /\ rec' = [p \in Players |->
         IF p \in S
         THEN [epoch |-> link, n |-> joins + f[p], session |-> session[p]]
         ELSE base[p]]
    /\ joins' = joins + Cardinality(S)

\* Mutant: a report is only an addition, a quit is overheard.
PresenceApplyIgnoresQuit(r) ==
  IF r.kind \in {"snapshot", "join"}
  THEN JoinAll(r.who, rec, r.session)
  ELSE UNCHANGED presVars

\* Presence.apply, under its lock.  Which link the report came on is not asked.
PresenceApply(r) ==
  CASE r.kind = "snapshot" ->
         JoinAll(r.who, [p \in Players |-> NoRecord], r.session)
    [] r.kind = "join" -> JoinAll(r.who, rec, r.session)
    [] r.kind = "quit" ->
         /\ rec' = [p \in Players |-> IF p \in r.who THEN NoRecord ELSE rec[p]]
         /\ UNCHANGED joins

\* LinkServer._presence up to the service's callback; without a link it fails.
HandlePresence(c) ==
  /\ Next1(c, {"snapshot", "join", "quit"})
  /\ IF link = 0 THEN Take(c, "idle") /\ UNCHANGED presVars
     ELSE Take(c, "applied") /\ PresenceApply(Head(ordered[c]))
  /\ UNCHANGED <<bdsVars, linkVars, authVars, wire, due, permVars, work, ops, unsent>>

\* Mutant: only a permission that has changed is sent.
DueIfChanged(S, change, now) ==
  [p \in Players |-> IF p \in change THEN IF now[p] THEN "on" ELSE "off" ELSE "no"]

\* Every player applied has its permission sent, changed or not.
Due(S, change, now) ==
  [p \in Players |-> IF p \in S THEN IF now[p] THEN "on" ELSE "off" ELSE "no"]

\* Authority._apply for the players S, once the status is the new one: a changed
\* permission bumps the session revision.
Now == [p \in Players |-> Known(p) /\ status'[p] = "allowed"]

ApplyEach(S, before) ==
  /\ JoinAll({p \in S : Known(p) /\ before[p] # Now[p]}, rec, [p \in Players |-> rec[p].session])
  /\ granted' = [p \in Players |-> IF p \in S THEN Now[p] ELSE before[p]]

\* The permission is due to be sent in any case.
ApplyAll(t, S, before) ==
  /\ ApplyEach(S, before)
  /\ due' = [due EXCEPT ![t] = Due(S, {p \in S : before[p] # Now[p]}, Now)]
  /\ unsent' = unsent \ S

\* A snapshot starts from no granted permission.
Remembered(r) == IF r.kind = "snapshot" THEN [p \in Players |-> FALSE] ELSE granted

\* Who has no decision on file may be enrolled or bound by the join.
Enrolled(new) == [p \in Players |-> IF p \in new THEN "allowed" ELSE status[p]]

\* Authority.joined: enrolls or binds who may be, then applies.
HandleJoined(c) ==
  /\ at[c] = "applied" /\ task[c].kind \in {"snapshot", "join"}
  /\ \E new \in SUBSET {p \in task[c].who : status[p] = "none"} : status' = Enrolled(new)
  /\ ApplyAll(c, task[c].who, Remembered(task[c]))
  /\ at' = [at EXCEPT ![c] = "permissions"]
  /\ UNCHANGED <<bdsVars, linkVars, grev, pathVars, task, permVars, work, ops>>

\* A write of policy, bindings or roles fails for one of them: those before it are
\* applied, it may be enrolled, and no permission is sent for any.
HandleJoinedFails(c) ==
  /\ at[c] = "applied" /\ task[c].kind \in {"snapshot", "join"}
  /\ \E failing \in task[c].who, done \in SUBSET task[c].who :
       /\ failing \notin done
       /\ \E new \in SUBSET {p \in done \cup {failing} : status[p] = "none"} : status' = Enrolled(new)
       /\ ApplyEach(done, Remembered(task[c]))
  /\ unsent' = unsent \cup task[c].who
  /\ at' = [at EXCEPT ![c] = "idle"]
  /\ UNCHANGED <<bdsVars, linkVars, grev, pathVars, task, due, permVars, work, ops>>

\* Authority.quit
HandleQuit(c) ==
  /\ at[c] = "applied" /\ task[c].kind = "quit"
  /\ granted' = [p \in Players |-> IF p \in task[c].who THEN FALSE ELSE granted[p]]
  /\ at' = [at EXCEPT ![c] = "idle"]
  /\ UNCHANGED <<bdsVars, linkVars, presVars, status, grev, pathVars, task, due, permVars, work, ops, unsent>>

\* LinkServer._sender: the principal, from presence and the grant revisions.
HandleSubmit(c) ==
  /\ Next1(c, {"submit"})
  /\ ordered' = [ordered EXCEPT ![c] = Tail(@)]
  /\ LET r == Head(ordered[c]) IN
       \E p \in r.who :
         task' = [task EXCEPT ![c] =
           [kind |-> "command", player |-> p, session |-> r.session[p],
            epoch |-> rec[p].epoch, n |-> rec[p].n, grev |-> grev[p]]]
  /\ at' = [at EXCEPT ![c] = "captured"]
  /\ UNCHANGED <<bdsVars, linkVars, presVars, authVars, wire, due, permVars, work, ops, unsent>>

\* EndbotService._submit: refused, or queued on the worker.
QueueCommand(c) ==
  /\ at[c] = "captured" /\ Len(work) < MaxQueue
  /\ LET p == task[c].player IN
       work' = IF Known(p) /\ Allowed(p) THEN Append(work, task[c]) ELSE work
  /\ task' = [task EXCEPT ![c] = NoTask]
  /\ at' = [at EXCEPT ![c] = "idle"]
  /\ UNCHANGED <<bdsVars, linkVars, presVars, authVars, pathVars, due, permVars, ops, unsent>>

\* Online, or with a binding or a revocation on file: the name leads to the XUID.
Resolves(p) == Known(p) \/ status[p] # "none"

\* Authority.operation on thread t, under the authority's lock: an add (pending
\* until the join when the name does not resolve) or a remove, and a refresh of
\* everybody online.
OperationApplies(t, kind, p) ==
  /\ kind = "remove" => Resolves(p)
  /\ status' = [status EXCEPT ![p] =
       IF kind = "remove" THEN "revoked" ELSE IF Resolves(p) THEN "allowed" ELSE @]
  /\ grev' = [grev EXCEPT ![p] = IF kind = "remove" THEN @ + 1 ELSE @]
  /\ ApplyAll(t, {q \in Players : Known(q)}, granted)

\* Refused, or a write fails and no refresh follows.  An add writes the grant last;
\* a remove may have written the revocation and raised the revision already.
OperationStops(kind, p) ==
  /\ UNCHANGED <<presVars, granted, due>>
  /\ \/ UNCHANGED <<status, grev, unsent>>
     \/ /\ kind = "remove" /\ Resolves(p)
        /\ status' = [status EXCEPT ![p] = "revoked"]
        /\ grev' \in {grev, [grev EXCEPT ![p] = @ + 1]}
        /\ unsent' = unsent \cup {p}

Operation(t, kind, p) == OperationApplies(t, kind, p) \/ OperationStops(kind, p)

HandleConsole(c) ==
  /\ Next1(c, {"add", "remove"})
  /\ LET r == Head(ordered[c]) IN \E p \in r.who : Operation(c, r.kind, p)
  /\ Take(c, "permissions")
  /\ UNCHANGED <<bdsVars, linkVars, wire, permVars, work, ops>>

-----------------------------------------------------------------------------
(* The CLI's thread, the delivery thread and the worker.                   *)

CliOperation(kind, p) ==
  /\ at[0] = "idle" /\ ops.console + ops.cli < MaxOps
  /\ Operation(0, kind, p)
  /\ at' = [at EXCEPT ![0] = "permissions"]
  /\ ops' = [ops EXCEPT !.cli = @ + 1]
  /\ UNCHANGED <<bdsVars, linkVars, pathVars, task, permVars, work>>

\* EndbotService._send_permissions, outside the authority's lock, one by one.
SendPermission(t, p) ==
  /\ at[t] = "permissions" /\ due[t][p] # "no"
  /\ out' = Append(out, [player |-> p, value |-> due[t][p]])
  /\ due' = [due EXCEPT ![t][p] = "no"]
  /\ UNCHANGED <<bdsVars, linkVars, presVars, authVars, pathVars, at, task, asked, lost, work, ops, unsent>>

PermissionsSent(t) ==
  /\ at[t] = "permissions" /\ due[t] = NoDue
  /\ at' = [at EXCEPT ![t] = "idle"]
  /\ task' = [task EXCEPT ![t] = NoTask]
  /\ UNCHANGED <<bdsVars, linkVars, presVars, authVars, pathVars, due, permVars, work, ops, unsent>>

\* The plugin's _apply_permission: off needs no attachment of its own.
Attached(p, value) ==
  IF p \notin ingame \/ (attach[p] = "none" /\ value = "off") THEN attach
  ELSE [attach EXCEPT ![p] = value]

\* The delivery thread asks the plugin and waits for its answer or a timeout, which
\* it logs; without a working link nothing is sent.  Nothing is sent again.
Deliver ==
  /\ out # <<>>
  /\ out' = Tail(out)
  /\ asked' = IF link # 0 /\ sock[link] THEN [asked EXCEPT ![link] = Append(@, Head(out))] ELSE asked
  /\ UNCHANGED <<bdsVars, linkVars, presVars, authVars, pathVars, at, task, due, lost, work, ops, unsent>>

\* The plugin's ordered thread of link c has the server thread set the permission.
\* What a link had read is still handled after the link is lost.
PluginApplies(c) ==
  /\ asked[c] # <<>>
  /\ LET ask == Head(asked[c]) IN
       /\ attach' = Attached(ask.player, ask.value)
       /\ lost' = IF c = made THEN lost \ {ask.player} ELSE lost \cup {ask.player}
  /\ asked' = [asked EXCEPT ![c] = Tail(@)]
  /\ UNCHANGED <<ingame, seen, linkVars, presVars, authVars, pathVars, at, task, due, out, work, ops, unsent>>

\* The plugin's deadline passes before the server thread starts the callback, the
\* call fails, or the request is lost with the link.
PluginGivesUp(c) ==
  /\ asked[c] # <<>>
  /\ asked' = [asked EXCEPT ![c] = Tail(@)]
  /\ lost' = IF c = made THEN lost \cup {Head(asked[c]).player} ELSE lost
  /\ UNCHANGED <<bdsVars, linkVars, presVars, authVars, pathVars, at, task, due, out, work, ops, unsent>>

\* Mutant: a command needs a grant and somebody by that name online.
AuthorizedByName(w) == Known(w.player) /\ Allowed(w.player)

\* Authority.authorize of a player's command.
Authorized(w) ==
  /\ w.grev = grev[w.player]
  /\ Known(w.player) /\ Allowed(w.player)
  /\ w.epoch = rec[w.player].epoch /\ w.n = rec[w.player].n

\* AsyncCommandRunner._execute: run, or answer that the permission was revoked.
Execute ==
  /\ work # <<>>
  /\ work' = Tail(work)
  /\ ops' = IF Authorized(Head(work)) THEN [ops EXCEPT !.ran = @ + 1] ELSE ops
  /\ UNCHANGED <<bdsVars, linkVars, presVars, authVars, pathVars, at, task, due, permVars, unsent>>

-----------------------------------------------------------------------------
Init ==
  /\ ingame = {} /\ seen = [p \in Players |-> 0] /\ attach = [p \in Players |-> "none"]
  /\ plive = 0 /\ dial = 0 /\ made = 0 /\ link = 0
  /\ sock = [c \in Links |-> FALSE] /\ srv = [c \in Links |-> "none"]
  /\ wire = [c \in Links |-> <<>>] /\ ordered = [c \in Links |-> <<>>]
  /\ joins = 0 /\ rec = [p \in Players |-> NoRecord]
  /\ status = [p \in Players |-> "none"] /\ grev = [p \in Players |-> 0]
  /\ granted = [p \in Players |-> FALSE]
  /\ at = [t \in Threads |-> "idle"] /\ task = [t \in Threads |-> NoTask]
  /\ due = [t \in Threads |-> NoDue]
  /\ out = <<>> /\ work = <<>> /\ asked = [c \in Links |-> <<>>]
  /\ lost = {} /\ unsent = {}
  /\ ops = [typed |-> 0, console |-> 0, cli |-> 0, ran |-> 0]

Bds ==
  \/ \E p \in Players :
       \/ PlayerJoins(p) \/ PlayerQuits(p) \/ PlayerTypes(p)
       \/ \E kind \in {"add", "remove"} : ConsoleTypes(kind, p)
  \/ BdsRestarts \/ PluginNotices \/ Handshake \/ GoLive \/ GoLiveFails

OrderedThread(c) ==
  \/ HandlePresence(c) \/ HandleJoined(c) \/ HandleJoinedFails(c) \/ HandleQuit(c)
  \/ HandleSubmit(c) \/ QueueCommand(c) \/ HandleConsole(c)

Next ==
  \/ Bds
  \/ \E c \in Links :
       \/ SocketBreaks(c) \/ ServerCloses(c) \/ ServerReads(c) \/ OrderedThread(c)
       \/ PluginApplies(c) \/ PluginGivesUp(c)
  \/ \E kind \in {"add", "remove"}, p \in Players : CliOperation(kind, p)
  \/ \E t \in Threads : PermissionsSent(t) \/ \E p \in Players : SendPermission(t, p)
  \/ Deliver \/ Execute

Spec == Init /\ [][Next]_vars

-----------------------------------------------------------------------------
(* Properties.                                                             *)

PermissionValues == {"no", "on", "off"}

\* Every variable keeps its type; a thread handles requests or holds a command.
TypeOK ==
  /\ ingame \subseteq Players /\ seen \in [Players -> Nat]
  /\ attach \in [Players -> {"none", "on", "off"}]
  /\ plive \in Threads /\ dial \in Threads /\ made \in Threads /\ link \in Threads
  /\ sock \in [Links -> BOOLEAN] /\ srv \in [Links -> {"none", "open", "closed"}]
  /\ joins \in Nat
  /\ rec \in [Players -> [epoch : Threads, n : Nat, session : Nat]]
  /\ status \in [Players -> {"none", "allowed", "revoked"}]
  /\ grev \in [Players -> Nat] /\ granted \in [Players -> BOOLEAN]
  /\ at \in [Threads -> {"idle", "applied", "captured", "permissions"}]
  /\ due \in [Threads -> [Players -> PermissionValues]]
  /\ \A c \in Links : \A k \in DOMAIN ordered[c] : ordered[c][k].who \subseteq Players
  /\ \A k \in DOMAIN work : work[k].player \in Players
  /\ \A c \in Links : \A k \in DOMAIN asked[c] : asked[c][k].player \in Players
  /\ lost \subseteq Players /\ unsent \subseteq Players

\* A command only runs in the session it was typed in: whatever quits, rejoins,
\* reconnects and permission changes lie between, its revision is not current.
RunsInOwnSession ==
  [][ops'.ran # ops.ran =>
       Head(work).session = rec[Head(work).player].session]_vars

\* Nothing is in flight between the plugin and endbotd.
Settled ==
  /\ link # 0 /\ plive = link /\ sock[link] /\ dial = 0
  /\ \A c \in Links : Handled(c)
  /\ at[0] = "idle" /\ out = <<>> /\ asked[link] = <<>>

\* endbotd knows exactly the players in game, each in the session it is in.
PresenceIsTrue ==
  Settled => \A p \in Players :
    rec[p].session = IF p \in ingame THEN seen[p] ELSE 0

\* A player in game has the control attachment exactly when the authority allows
\* it: permissions reach the plugin in the order they were decided.  Excepted is
\* whose last permission the plugin gave up on, or was not sent for a failed write:
\* nothing repeats it before the next join, link or operation.
PermissionsConverge ==
  Settled => \A p \in ingame \ (lost \cup unsent) : (attach[p] = "on") <=> Allowed(p)

\* With the console as the only source of operations they do: one thread decides
\* and submits.
ConsolePermissionsConverge == ops.cli = 0 => PermissionsConverge

=============================================================================
