------------------------------ MODULE Commands ------------------------------
(***************************************************************************)
(* endbotd's command service: Bot and Group operations, who owns a Bot or  *)
(* a Group, the menus that submit operations later, and the table of       *)
(* continuous mining loops.                                                *)
(*                                                                         *)
(* One ordered worker runs every command, whatever surface it came from,   *)
(* so profiles, owners and Groups change only there.  Around it run the    *)
(* mining poll, revocations, players joining, Bots losing their session,   *)
(* a runtime whose reply is lost or given up on while the request waits    *)
(* in the Bot's chain, and a restart of endbotd.  A command                *)
(* that is refused before its first request changes nothing and is not a   *)
(* step.  Queries and wording are left out; "input" stands for the         *)
(* operations the runtime applies at once (move, action, flag, hotbar,     *)
(* drop, swap, hold, stop, teleport, interact).                            *)
(***************************************************************************)
EXTENDS Naturals, Sequences, FiniteSets, SequencesExt

CONSTANTS Players, Console, None,
          Names,             \* Bot names, as a command spells them
          Ids, Gids,         \* identities of Bots and Groups: 1..n, never reused
          MaxBots,           \* max-bots
          PerController,     \* max-bots-per-controller
          Slots,             \* max-players less reserved-player-slots
          UnreachableLimit,  \* UNREACHABLE_POLL_LIMIT
          Lease,             \* ticks a loop runs without being renewed
          Scenarios          \* the stored state endbotd starts with, and bounds

Senders == Players \cup {Console}
Events  == {"spawn", "life", "own", "input", "destroy", "edit", "menu",
            "revoke", "lost", "save", "drop", "human", "restart"}
Owner   == [owner: Players, private: BOOLEAN]
Group   == [gid: Gids, members: Seq(Ids)]

Stores  == [bots: [Ids -> Owner \cup {None}], groups: [Gids -> Owner \cup {None}]]

ASSUME CommandBounds ==
  /\ {MaxBots, PerController, Slots, UnreachableLimit, Lease} \subseteq Nat \ {0}
  /\ IsFiniteSet(Ids) /\ Ids = 1..Cardinality(Ids)
  /\ IsFiniteSet(Gids) /\ Gids = 1..Cardinality(Gids)
  /\ Console \notin Players

\* what is stored is well formed: a Bot that was never made has no profile and
\* no owner, no two Bots have one name, and no Bot is a member twice
ASSUME StoredStates ==
  \A s \in Scenarios :
    /\ s.rt \in [Ids -> [name: Names, active: BOOLEAN] \cup {None}] /\ s.own \in Stores
    /\ \A i, j \in Ids : s.rt[i] # None /\ s.rt[j] # None /\ s.rt[i].name = s.rt[j].name => i = j
    /\ s.group = None \/ (s.group \in Group /\ IsInjective(s.group.members))
    /\ s.made \in [bots: 0..Cardinality(Ids), groups: 0..Cardinality(Gids)]
    /\ \A i \in Ids : i > s.made.bots => s.rt[i] = None /\ s.own.bots[i] = None

VARIABLES
  rt,                \* the runtime's profiles: name and whether it is active
  loop, lease,       \* its mining loop per Bot (0: none), ticks unrenewed
  late,              \* its requests without a caller that wait in a Bot's chain
  own, disk,         \* OwnershipStore: in memory and in ownership.json
  group,             \* GroupStore: the Group called "g", or None
  granted, humans,   \* players who may control Bots; human players online
  menus,             \* open Group menus, each with its guard
  job,               \* the command the worker is running
  table, unreach,    \* _mining_loops and _mining_unreachable, by name
  poll,              \* where poll_mining is
  made,              \* Bot identities, Group identities, loops so far
  left,              \* bounds that are left
  acted, started,    \* ghosts: Bots the job was applied to; who began a loop
  renamed,           \* ghost: Bots whose late rename was made while the job ran
  from               \* ghost: the menu the last command came from

runtime == <<rt, loop, lease, late, acted, started, renamed>>
owners  == <<own, disk>>
outside == <<granted, humans>>
mining  == <<table, unreach, poll>>
vars == <<runtime, owners, group, outside, menus, job, mining, made, left, from>>

Idle     == [pc |-> "idle"]
NoPoll   == [pc |-> "idle", todo |-> {}, pending |-> {}, entry |-> None, why |-> "none"]
OwnerOps == {"forget", "rename", "visibility"}

\* destroy begins a mining loop or stops it
Destroys == {"destroy", "destroyStop"}

\* the operations a command can name, and those a Bot's menu submits
Single  == {"spawn", "resume", "despawn", "forget", "rename", "visibility", "owner", "input"} \cup Destroys
MenuOps == Single \ {"visibility", "owner"}

\* operations that are one request and leave nothing behind here
Immediate == {"input", "look"}

\* GROUP_INPUT_OPERATIONS: a Group's inputs go to the runtime as one batch
Batched == Immediate

Spend(event) == left[event] > 0 /\ left' = [left EXCEPT ![event] = @ - 1]

Init ==
  \E s \in Scenarios :
    /\ rt = s.rt /\ own = s.own /\ disk = s.own /\ group = s.group /\ left = s.left
    /\ made = s.made
    /\ loop = [i \in Ids |-> 0] /\ lease = [i \in Ids |-> 0]
    /\ granted = Players /\ humans = 0 /\ menus = {} /\ job = Idle
    /\ table = [n \in Names |-> None] /\ unreach = [n \in Names |-> None]
    /\ poll = NoPoll /\ acted = {} /\ started = <<>> /\ from = None
    /\ late = {} /\ renamed = {}

(***************************************************************************)
(* Reads: the runtime's profiles, ownership, the slot budget.              *)
(***************************************************************************)
Exists(id) == id # 0 /\ rt[id] # None
Online(id) == Exists(id) /\ rt[id].active
Active == {i \in Ids : Online(i)}

\* bot_profiles: the identity a name has now; 0 when there is none
IdOf(name) == LET found == {i \in Ids : Exists(i) /\ rt[i].name = name}
              IN  IF found = {} THEN 0 ELSE CHOOSE i \in found : TRUE

Authorized(by) == by \in granted \cup {Console}

\* an identity without an entry is shared, and everyone counts as its owner
Visible(by, e) == e # None /\ e.private => by \in {Console, e.owner}
IsOwner(by, e) == e # None => by \in {Console, e.owner}

\* Mutant: someone else's private Bot is refused only its owner's operations
OwnerCheckHalf(by, op, id) ==
  id # 0 /\ op \in OwnerOps => IsOwner(by, own.bots[id])

OwnerCheck(by, op, id) ==
  id # 0 => /\ Visible(by, own.bots[id])
            /\ op \in OwnerOps => IsOwner(by, own.bots[id])

CheckSeat(id) ==
  LET others == Cardinality(Active \ {id})
  IN  others + 1 <= MaxBots /\ others + humans + 1 <= Slots

CheckControllerLimit(by) ==
  Cardinality({i \in Ids : own.bots[i] # None /\ own.bots[i].owner = by}) < PerController

\* what _execute checks of a command before the request that acts
Admitted(by, op, id) ==
  /\ OwnerCheck(by, op, id)
  /\ op # "spawn" => Exists(id)
  /\ op = "spawn" /\ id = 0 => CheckControllerLimit(by)
  /\ op \in {"spawn", "resume"} /\ ~Online(id) => CheckSeat(id)
  /\ op = "visibility" => own.bots[id] # None
  /\ op = "owner" => by = Console

(***************************************************************************)
(* The runtime (external: lifecycle.js), reached by name.  A Group member  *)
(* or a member's menu pins the identity the name must still have.          *)
(***************************************************************************)
Accepts(op, id, arg) ==
  CASE op = "spawn" -> id = 0 => made.bots < Cardinality(Ids)
    [] op = "rename" -> Exists(id) /\ IdOf(arg) \in {0, id}
    [] op = "forget" -> Exists(id) /\ ~Online(id)
    [] op \in Immediate \cup Destroys -> Online(id)
    [] OTHER -> Exists(id)

\* Mutant: a request reaches whatever Bot has the name now
PinnedByName(id, name) == TRUE

Pinned(id, name) == IdOf(name) = id

\* the request's effect on a profile
After(op, profile, name, arg) ==
  CASE op = "spawn" -> [name |-> name, active |-> TRUE]
    [] op = "resume" -> [profile EXCEPT !.active = TRUE]
    [] op = "despawn" -> [profile EXCEPT !.active = FALSE]
    [] op = "rename" -> [profile EXCEPT !.name = arg]
    [] op = "forget" -> None
    [] OTHER -> profile

Rested(id) == lease' = [lease EXCEPT ![id] = IF loop'[id] = loop[id] THEN @ ELSE 0]

\* A newer operation of a Bot overtakes what waits: a rename of an online Bot goes
\* on only in its own generation, an older name gives way to the newer one, and a
\* Bot that is wanted again is not forgotten.
Overtaken(op, id) ==
  {r \in late : r.id = id /\ CASE op \in {"rename", "forget"} -> r.op = "rename"
                               [] op = "despawn" -> r.online \/ (r.op = "forget" /\ Online(id))
                               [] op \in {"spawn", "resume"} -> ~Online(id) /\ (r.online \/ r.op = "forget")
                               [] OTHER -> FALSE}

\* the request runs: its effect on the profile, its session and its loop
Apply(by, op, old, name, arg) ==
  LET id == IF old = 0 THEN made.bots + 1 ELSE old
  IN
  /\ rt' = [rt EXCEPT ![id] = After(op, @, name, arg)]
  /\ loop' = [loop EXCEPT ![id] = CASE op = "destroy" -> Len(started) + 1
                                    [] op \in {"despawn", "rename", "forget", "destroyStop"} -> 0
                                    [] OTHER -> @]
  /\ Rested(id)
  /\ late' = late \ Overtaken(op, id)
  /\ started' = IF op = "destroy" THEN Append(started, [by |-> by, bot |-> id]) ELSE started
  /\ made' = [made EXCEPT !.bots = IF old = 0 THEN @ + 1 ELSE @]
  /\ acted' = acted \cup {id}

NotApplied == UNCHANGED <<rt, loop, lease, late, started, made, acted>>

\* A rename or a forget is taken, and its caller gives up while it waits in the
\* Bot's chain for a session to close.  What was left of the bound tells which of
\* two waited first.
Waits(op, id, arg) ==
  /\ op \in {"rename", "forget"} /\ Exists(id) /\ (op = "rename" => Accepts(op, id, arg))
  /\ late' = (IF op = "rename" THEN {r \in late : ~(r.id = id /\ r.online)} ELSE late)
               \cup {[id |-> id, op |-> op, arg |-> arg, online |-> op = "rename" /\ Online(id), n |-> left.lost]}
  /\ loop' \in {loop, [loop EXCEPT ![id] = 0]} /\ (loop' # loop => op = "rename")
  /\ Rested(id)
  /\ acted' = acted \cup {id}
  /\ UNCHANGED <<rt, started, made>>

Waiting(id) == {r \in late : r.id = id}

Lost == {"unavailable", "protocol"}

\* RuntimeControlClient.request: answered, refused, timed out ("unavailable")
\* or closed without an answer ("protocol"); the last two whether it ran, did not
\* or still waits.  A Bot that something waits for may have no session, or be gone
\* by the time the request's turn comes; one that lost its session may be wanted
\* all the same, and is not forgotten then.
Request(by, op, id, name, arg, reply) ==
  \/ /\ reply \in Lost \cup {"ok"} /\ Accepts(op, id, arg) /\ Apply(by, op, id, name, arg)
     /\ \A r \in Waiting(id) \cap late' : r.op = "forget" => Online(id)
  \/ reply \in Lost /\ NotApplied
  \/ reply \in Lost /\ Waits(op, id, arg)
  \/ /\ reply = "refused" /\ NotApplied
     /\ ~Accepts(op, id, arg) \/ Waiting(id) # {} \/ op = "forget"

\* The chain comes to a request without a caller: made, or refused by now.
LateEnds(r) ==
  /\ \A q \in Waiting(r.id) : q.n <= r.n
  /\ late' = late \ {r}
  /\ IF Accepts(r.op, r.id, r.arg)
     THEN /\ rt' = [rt EXCEPT ![r.id] = After(r.op, @, None, r.arg)]
          /\ renamed' = IF r.op = "rename" /\ job # Idle THEN renamed \cup {r.id} ELSE renamed
     ELSE UNCHANGED <<rt, renamed>>
  /\ loop' = IF r.online THEN [loop EXCEPT ![r.id] = 0] ELSE loop
  /\ Rested(r.id)
  /\ UNCHANGED <<acted, started, owners, group, outside, menus, job, mining, made, left, from>>

\* the bounds on lost replies and failed writes
Faults(reply, fails) ==
  /\ reply \in Lost => left.lost > 0
  /\ fails => left.save > 0
  /\ left' = [left EXCEPT !.lost = IF reply \in Lost THEN @ - 1 ELSE @,
                          !.save = IF fails THEN @ - 1 ELSE @]

(***************************************************************************)
(* OwnershipStore: memory first, then the file, whose write may fail.      *)
(***************************************************************************)
Saved(kind, id, entry, fails) ==
  /\ own' = [own EXCEPT ![kind][id] = entry]
  /\ disk' = IF fails THEN disk ELSE own'

Recorded(kind, id, by, fails) ==
  IF by = Console \/ own[kind][id] # None THEN UNCHANGED owners
  ELSE Saved(kind, id, [owner |-> by, private |-> FALSE], fails)

Reassigned(kind, id, player, fails) ==
  Saved(kind, id, [owner |-> player, private |-> own[kind][id] # None /\ own[kind][id].private], fails)

\* what a command does to ownership once its request was answered
Ownership(by, op, id, arg, fails) ==
  CASE op = "spawn" /\ id = 0 -> Recorded("bots", made.bots + 1, by, fails)
    [] op = "forget" -> Saved("bots", id, None, fails)
    [] op = "visibility" -> Saved("bots", id, [own.bots[id] EXCEPT !.private = arg], fails)
    [] op = "owner" -> Reassigned("bots", id, arg, fails)
    [] OTHER -> UNCHANGED owners

Writes(op, id) == op \in {"forget", "visibility", "owner"} \/ (op = "spawn" /\ id = 0)

(***************************************************************************)
(* One Bot, by name: AsyncCommandRunner authorizes the sender, _execute    *)
(* reads what it must and then sends the request, which a typed command    *)
(* does not pin: it is for the Bot that has the name by then.              *)
(***************************************************************************)
Kind(op) == CASE op = "spawn" -> "spawn" [] op \in {"visibility", "owner"} -> "own"
              [] op \in Destroys -> "destroy" [] op \in Immediate -> "input" [] OTHER -> "life"

Args(op) == CASE op = "rename" -> Names [] op = "visibility" -> BOOLEAN
              [] op = "owner" -> Players [] OTHER -> {None}

\* id: the Bot the command is pinned to, 0 when only its name is
Job(pc, by, op, arg, name, id, members) ==
  [pc |-> pc, by |-> by, op |-> op, arg |-> arg, name |-> name, id |-> id,
   members |-> members, rows |-> [i \in DOMAIN members |-> "none"]]

Take(by, op, arg, name) ==
  /\ job.pc = "idle" /\ Authorized(by) /\ Admitted(by, op, IdOf(name))
  /\ Spend(Kind(op))
  /\ job' = Job("act", by, op, arg, name, 0, <<>>)
  /\ acted' = {} /\ renamed' = {} /\ from' = None
  /\ UNCHANGED <<rt, loop, lease, late, started, owners, group, outside, menus, mining, made>>

\* The commands of ownership ask for the Bot's status, and check it again.
Consents(by, op, id) == id # 0 /\ (op = "visibility" => own.bots[id] # None /\ IsOwner(by, own.bots[id]))

\* the answer of the Bot that has the name now
Answer(by, op, id, name, arg, pinned, reply) ==
  CASE pinned # 0 /\ ~Pinned(pinned, name) -> reply = "refused" /\ NotApplied
    [] op \in {"visibility", "owner"} -> reply = (IF Consents(by, op, id) THEN "ok" ELSE "refused") /\ NotApplied
    [] OTHER -> Request(by, op, id, name, arg, reply)

Act ==
  /\ job.pc = "act"
  /\ \E id \in {IdOf(job.name)}, reply \in {"ok", "refused"} \cup Lost, fails \in BOOLEAN :
       /\ fails => reply = "ok" /\ Writes(job.op, id)
       /\ Faults(reply, fails)
       /\ Answer(job.by, job.op, id, job.name, job.arg, job.id, reply)
       /\ IF reply = "ok" THEN Ownership(job.by, job.op, id, job.arg, fails) ELSE UNCHANGED owners
       /\ job' = IF reply = "ok" /\ job.op \in Destroys
                 THEN [job EXCEPT !.pc = "loop", !.id = id] ELSE Idle
  /\ UNCHANGED <<group, outside, menus, mining, from, renamed>>

\* the entry poll_mining renews the loop by, under the name the command used
RecordLoop ==
  /\ job.pc = "loop"
  /\ table' = [table EXCEPT ![job.name] =
       IF job.op = "destroy" THEN [bot |-> job.id, lid |-> Len(started), by |-> job.by] ELSE None]
  /\ job' = IF job.members = <<>> THEN Idle ELSE [job EXCEPT !.pc = "members"]
  /\ UNCHANGED <<runtime, owners, group, outside, menus, unreach, poll, made, left, from>>

(***************************************************************************)
(* Groups.  A menu carries a guard: the Group's identity and members it    *)
(* showed, the member it was opened for, and the Bots it offered to add.   *)
(***************************************************************************)
CanSee(by) == group # None /\ Visible(by, own.groups[group.gid])

FormGroup(menu) == menu # None => menu.gid = group.gid /\ menu.members = group.members

\* what the guard of a menu remembers of the moment it was opened
Guard(by, bot) ==
  [by |-> by, gid |-> group.gid, members |-> group.members, bot |-> bot,
   name |-> IF bot = 0 THEN None ELSE rt[bot].name,
   offered |-> {<<rt[i].name, i>> : i \in {j \in Ids : Exists(j)} \ Range(group.members)}]

OpenMenu(by) ==
  /\ job.pc = "idle" /\ by \in granted /\ CanSee(by)
  /\ Spend("menu")
  /\ \E bot \in Range(group.members) \cup {0} :
       /\ bot # 0 => Exists(bot) /\ Visible(by, own.bots[bot])
       /\ menus' = menus \cup {Guard(by, bot)}
  /\ UNCHANGED <<runtime, owners, group, outside, job, mining, made, from>>

\* a command is typed, or submitted from a menu that may be old by now
Menus(by) == {None} \cup {m \in menus : m.by = by}

\* a member's menu runs its command for the Bot it was opened for
MemberMenu(by, op, arg, menu) ==
  /\ job.pc = "idle" /\ Authorized(by) /\ menu # None /\ menu.bot # 0
  /\ CanSee(by) /\ FormGroup(menu)
  /\ Pinned(menu.bot, menu.name) /\ Admitted(by, op, IdOf(menu.name))
  /\ Spend(Kind(op))
  /\ job' = Job("act", by, op, arg, menu.name, menu.bot, <<>>)
  /\ acted' = {} /\ renamed' = {} /\ from' = menu
  /\ UNCHANGED <<rt, loop, lease, late, started, owners, group, outside, menus, mining, made>>

GroupCreate(by) ==
  /\ job.pc = "idle" /\ Authorized(by) /\ group = None /\ made.groups < Cardinality(Gids)
  /\ Spend("edit")
  /\ group' = [gid |-> made.groups + 1, members |-> <<>>]
  /\ made' = [made EXCEPT !.groups = @ + 1]
  /\ Recorded("groups", made.groups + 1, by, FALSE)
  /\ from' = None
  /\ UNCHANGED <<runtime, outside, menus, job, mining>>

\* the candidate check: the name is still the Bot the menu offered
Offered(menu, name) ==
  menu # None /\ menu.offered # {} => <<name, IdOf(name)>> \in menu.offered

\* add, remove (by index) and delete; the file is written before the Group changes
GroupEdit(by, op, menu, name, i) ==
  /\ job.pc = "idle" /\ Authorized(by) /\ CanSee(by) /\ FormGroup(menu)
  /\ menu # None => menu.bot = 0
  /\ op = "add" /\ menu # None => name \in {c[1] : c \in menu.offered}   \* the form's choices
  /\ op = "add" => Offered(menu, name) /\ IdOf(name) \notin Range(group.members) \cup {0}
  /\ op = "remove" => i \in DOMAIN group.members
  /\ Spend("edit")
  /\ group' = CASE op = "add" -> [group EXCEPT !.members = Append(@, IdOf(name))]
                [] op = "remove" -> [group EXCEPT !.members = RemoveAt(@, i)]
                [] op = "delete" -> None
  /\ IF op = "delete" THEN Saved("groups", group.gid, None, FALSE) ELSE UNCHANGED owners
  /\ from' = menu
  /\ UNCHANGED <<runtime, outside, menus, job, mining, made>>

\* /botgroup visibility and owner
GroupOwnership(by, op, arg) ==
  /\ job.pc = "idle" /\ Authorized(by) /\ CanSee(by)
  /\ Spend("own")
  /\ \E e \in {own.groups[group.gid]} :
       \/ /\ op = "visibility" /\ e # None /\ IsOwner(by, e)
          /\ Saved("groups", group.gid, [e EXCEPT !.private = arg], FALSE)
       \/ op = "owner" /\ by = Console /\ Reassigned("groups", group.gid, arg, FALSE)
  /\ from' = None
  /\ UNCHANGED <<runtime, group, outside, menus, job, mining, made>>

(***************************************************************************)
(* An operation on the members: #g, or #g[i] when index is not 0.          *)
(***************************************************************************)
GroupTake(by, op, menu, index) ==
  /\ job.pc = "idle" /\ Authorized(by) /\ CanSee(by) /\ FormGroup(menu)
  /\ menu # None => menu.bot = 0
  /\ index \in {0} \cup DOMAIN group.members /\ group.members # <<>>
  /\ index = 0 => op # "forget"
  /\ Spend(Kind(op))
  /\ job' = IF index = 0 THEN Job(IF op \in Batched THEN "batch" ELSE "members", by, op, None, None, 0, group.members)
            ELSE Job("members", by, op, None, None, 0, <<group.members[index]>>)
  /\ acted' = {} /\ renamed' = {} /\ from' = menu
  /\ UNCHANGED <<rt, loop, lease, late, started, owners, group, outside, menus, mining, made>>

\* an outcome that is not an acceptance also cancels the rest once the sender
\* has lost control
Row(i, row) ==
  [job EXCEPT !.rows = [k \in DOMAIN @ |-> CASE k = i -> row
                                            [] k > i /\ row # "accepted" /\ ~Authorized(job.by) -> "skipped"
                                            [] OTHER -> @[k]]]

\* what a member gets without a request; "none" when it is asked
Barred(by, op, id) ==
  CASE ~Exists(id) -> "missing"
    [] ~OwnerCheck(by, op, id) -> "refused"
    [] OTHER -> "none"

\* Mutant: a request that timed out did not run
MemberRowTimeout(reply, fails) ==
  CASE reply = "unavailable" -> "refused"
    [] fails -> "unknown"
    [] reply = "ok" /\ ~fails -> "accepted"
    [] OTHER -> reply

\* a lost reply leaves open whether the request ran, but "protocol" counts as failed
MemberRow(reply, fails) ==
  CASE reply = "unavailable" \/ fails -> "unknown"
    [] reply = "ok" /\ ~fails -> "accepted"
    [] OTHER -> reply

\* one member after the other; each request rechecks the sender
Member ==
  /\ job.pc = "members"
  /\ \E i \in DOMAIN job.rows :
       /\ job.rows[i] = "none" /\ \A k \in 1..i - 1 : job.rows[k] # "none"
       /\ \E id \in {job.members[i]}, barred \in {Barred(job.by, job.op, job.members[i])} :
          \/ /\ (barred # "none" \/ ~Authorized(job.by) \/ ~Admitted(job.by, job.op, id))
             /\ job' = Row(i, CASE barred # "none" -> barred [] ~Authorized(job.by) -> "skipped" [] OTHER -> "refused")
             /\ NotApplied /\ UNCHANGED <<owners, left>>
          \/ /\ barred = "none" /\ Authorized(job.by) /\ Admitted(job.by, job.op, id)
             /\ \E reply \in {"ok", "refused"} \cup Lost, fails \in BOOLEAN :
                  /\ fails => reply = "ok" /\ Writes(job.op, id)
                  /\ Faults(reply, fails)
                  /\ Request(job.by, job.op, id, rt[id].name, None, reply)
                  /\ IF reply = "ok" THEN Ownership(job.by, job.op, id, None, fails) ELSE UNCHANGED owners
                  /\ job' = IF reply = "ok" /\ job.op \in Destroys
                            THEN [Row(i, "accepted") EXCEPT !.pc = "loop", !.name = rt[id].name, !.id = id]
                            ELSE Row(i, MemberRow(reply, fails))
  /\ UNCHANGED <<group, outside, menus, mining, from, renamed>>

\* the names the runtime has now
NamesNow == [id \in Ids |-> IF Exists(id) THEN rt[id].name ELSE None]

\* inputs go as one batch: who may be asked, and by which name, is settled first
Prepare ==
  /\ job.pc = "batch"
  /\ job' = IF Authorized(job.by)
            THEN [job EXCEPT !.pc = "send", !.arg = NamesNow,
                             !.rows = [i \in DOMAIN @ |-> Barred(job.by, job.op, job.members[i])]]
            ELSE [job EXCEPT !.pc = "members", !.rows = [i \in DOMAIN @ |-> "skipped"]]
  /\ UNCHANGED <<runtime, owners, group, outside, menus, mining, made, left, from>>

\* _await_look: the looks that BDS does not report in time
Unseen(op, able) == IF op = "look" THEN SUBSET able ELSE {{}}

\* what a member of a batch gets: the runtime had its session, the look was not seen
SentRow(i, reply, able, unseen) ==
  CASE reply \in Lost -> "unknown"
    [] reply = "ok" /\ i \in unseen -> "unseen"
    [] reply = "ok" /\ i \in able \ unseen -> "accepted"
    [] OTHER -> "refused"

\* who has its session and the name it was asked by; a rename may be waiting for
\* the session to close
Able(asked) ==
  LET there(i) == Online(job.members[i]) /\ rt[job.members[i]].name = job.arg[job.members[i]]
  IN  {{i \in asked \ away : there(i)} : away \in SUBSET {i \in asked : Waiting(job.members[i]) # {}}}

\* groupInputBatch: the runtime applies every member's input in one turn, and
\* answers for each; a look that BDS does not confirm is a failure of its own
Send ==
  /\ job.pc = "send"
  /\ \E asked \in {{i \in DOMAIN job.rows : job.rows[i] = "none"}} :
     \E able \in Able(asked), reply \in {"ok"} \cup Lost :
     \E unseen \in Unseen(job.op, able) :
       /\ Faults(reply, FALSE)
       /\ \/ acted' = acted \cup {job.members[i] : i \in able}
          \/ reply \in Lost /\ acted' = acted
       /\ job' = [job EXCEPT !.pc = "members",
                    !.rows = [i \in DOMAIN @ |-> IF i \in asked THEN SentRow(i, reply, able, unseen) ELSE @[i]]]
  /\ UNCHANGED <<rt, loop, lease, late, started, renamed, owners, group, outside, menus, mining, made, from>>

\* _finish: the rows are kept as the operation's result
Finish ==
  /\ job.pc = "members" /\ \A i \in DOMAIN job.rows : job.rows[i] # "none"
  /\ job' = Idle
  /\ UNCHANGED <<runtime, owners, group, outside, menus, mining, made, left, from>>

(***************************************************************************)
(* poll_mining, on a thread of its own.  It works on a snapshot: an entry  *)
(* is taken out only if the table still holds it.                          *)
(***************************************************************************)
Entries == {<<n, table[n]>> : n \in {m \in Names : table[m] # None}}

Poll ==
  /\ poll.pc = "idle" /\ Entries # {}
  /\ poll' = [NoPoll EXCEPT !.pc = "check", !.todo = Entries]
  /\ UNCHANGED <<runtime, owners, group, outside, menus, job, table, unreach, made, left, from>>

\* a poll is over when every entry was checked and every loop renewed
Polled(now) == IF now.todo \cup now.pending = {} THEN NoPoll ELSE now

\* Mutant: whatever the table holds under the name
TakenByName(name, entry) == table[name]

\* _take_mining_loop: the entry that is out of the table now, or None
Taken(name, entry) == IF table[name] = entry THEN entry ELSE None

Drop(name, entry) == table' = IF Taken(name, entry) = None THEN table ELSE [table EXCEPT ![name] = None]

\* _end_mining_loop: take the entry, then stop its loop in the runtime
End(name, entry, why, now) ==
  /\ Drop(name, entry)
  /\ poll' = IF Taken(name, entry) = None THEN now
             ELSE [now EXCEPT !.pc = "stop", !.entry = <<name, Taken(name, entry)>>, !.why = why]

\* the entry's count of polls that could not reach the runtime
Unreachable(name, entry) == IF unreach[name] # None /\ unreach[name][1] = entry THEN unreach[name][2] + 1 ELSE 1

Unreached(name, entry, now) ==
  /\ Spend("lost")
  /\ unreach' = [unreach EXCEPT ![name] = <<entry, Unreachable(name, entry)>>]
  /\ IF Unreachable(name, entry) < UnreachableLimit THEN poll' = now /\ UNCHANGED table
     ELSE End(name, entry, "unreachable", now)

\* the bridge or the world failed
Failed(name, entry, now) ==
  Spend("lost") /\ End(name, entry, "failed", now) /\ UNCHANGED unreach

\* Mutant: it was asked when the loop began
MayRunOn(entry) == TRUE

\* every poll asks again whether the loop's player may control Bots
MayRun(entry) == Authorized(entry.by)

Check ==
  /\ poll.pc = "check"
  /\ \E t \in poll.todo :
     \E name \in {t[1]}, entry \in {t[2]}, now \in {Polled([poll EXCEPT !.todo = @ \ {t}])} :
       IF ~MayRun(entry) THEN End(name, entry, "revoked", now) /\ UNCHANGED <<unreach, left>>
       ELSE IF ~Visible(entry.by, own.bots[entry.bot])
       THEN End(name, entry, "private", now) /\ UNCHANGED <<unreach, left>>
       ELSE \/ Unreached(name, entry, now)
            \/ Failed(name, entry, now)
            \/ /\ IdOf(name) = 0   \* not_found
               /\ End(name, entry, "failed", now) /\ UNCHANGED <<unreach, left>>
            \/ /\ IdOf(name) # 0
               /\ unreach' = [unreach EXCEPT ![name] = None] /\ UNCHANGED left
               /\ IF IdOf(name) # entry.bot \/ loop[entry.bot] # entry.lid
                  THEN Drop(name, entry) /\ poll' = now
                  ELSE poll' = [poll EXCEPT !.todo = @ \ {t}, !.pending = @ \cup {t}] /\ UNCHANGED table
  /\ UNCHANGED <<runtime, owners, group, outside, menus, job, made, from>>

\* the stop request names the loop, so a newer one runs on
StopLoop ==
  /\ poll.pc = "stop"
  /\ \E id \in {IdOf(poll.entry[1])} :
       \/ /\ loop' = IF id # 0 /\ loop[id] = poll.entry[2].lid THEN [loop EXCEPT ![id] = 0] ELSE loop
          /\ UNCHANGED left
       \/ UNCHANGED loop /\ Spend("lost")
  /\ poll' = Polled([poll EXCEPT !.pc = "check", !.entry = None, !.why = "none"])
  /\ UNCHANGED <<rt, lease, late, acted, started, renamed, owners, group, outside, menus, job, table, unreach, made, from>>

\* _continue_mining_loop: the runtime renews the loop it still runs
Renewed(name, entry) ==
  [lease EXCEPT ![IdOf(name)] = IF loop[IdOf(name)] = entry.lid THEN 0 ELSE @]

\* the world is asked for targets, and then the runtime to renew
Renew ==
  /\ poll.pc = "check" /\ poll.todo = {}
  /\ \E t \in poll.pending :
     \E name \in {t[1]}, entry \in {t[2]}, now \in {Polled([poll EXCEPT !.pending = @ \ {t}])} :
       \/ Unreached(name, entry, now) /\ UNCHANGED lease
       \/ Failed(name, entry, now) /\ UNCHANGED lease
       \/ /\ ~Online(IdOf(name))
          /\ End(name, entry, "failed", now) /\ UNCHANGED <<lease, unreach, left>>
       \/ /\ Online(IdOf(name))
          /\ lease' = Renewed(name, entry)
          /\ poll' = now /\ UNCHANGED <<table, unreach, left>>
  /\ UNCHANGED <<rt, loop, late, acted, started, renamed, owners, group, outside, menus, job, made, from>>

(***************************************************************************)
(* Everything that happens around the worker.                              *)
(***************************************************************************)
\* the runtime counts the ticks since a loop was renewed, and gives it up
Tick(id) ==
  /\ loop[id] # 0
  /\ loop' = [loop EXCEPT ![id] = IF lease[id] + 1 >= Lease THEN 0 ELSE @]
  /\ lease' = [lease EXCEPT ![id] = IF @ + 1 >= Lease THEN 0 ELSE @ + 1]
  /\ UNCHANGED <<rt, late, acted, started, renamed, owners, group, outside, menus, job, mining, made, left, from>>

Revoke(p) ==
  /\ p \in granted /\ Spend("revoke")
  /\ granted' = granted \ {p}
  /\ UNCHANGED <<runtime, owners, group, humans, menus, job, mining, made, from>>

Joins ==
  /\ Spend("human") /\ humans' = humans + 1
  /\ UNCHANGED <<runtime, owners, group, granted, menus, job, mining, made, from>>

\* a Bot's session ends and is not retried
Disconnects(id) ==
  /\ Online(id) /\ Spend("drop")
  /\ rt' = [rt EXCEPT ![id].active = FALSE]
  /\ loop' = [loop EXCEPT ![id] = 0] /\ lease' = [lease EXCEPT ![id] = 0]
  /\ UNCHANGED <<late, acted, started, renamed, owners, group, outside, menus, job, mining, made, from>>

\* endbotd starts again with what is on disk; the runtime and open menus stay
Restart ==
  /\ Spend("restart")
  /\ own' = disk /\ job' = Idle /\ poll' = NoPoll
  /\ table' = [n \in Names |-> None] /\ unreach' = [n \in Names |-> None]
  /\ UNCHANGED <<runtime, disk, group, outside, menus, made, from>>

Submit(by) ==
  \/ \E op \in Single, name \in Names : \E arg \in Args(op) : Take(by, op, arg, name)
  \/ \E menu \in Menus(by), op \in MenuOps : \E arg \in Args(op) : MemberMenu(by, op, arg, menu)
  \/ OpenMenu(by)
  \/ GroupCreate(by)
  \/ \E menu \in Menus(by) : \/ GroupEdit(by, "delete", menu, None, 0)
                             \/ \E name \in Names : GroupEdit(by, "add", menu, name, 0)
                             \/ \E i \in Ids : GroupEdit(by, "remove", menu, None, i)
  \/ \E op \in {"visibility", "owner"} : \E arg \in Args(op) : GroupOwnership(by, op, arg)
  \/ \E menu \in Menus(by), op \in {"resume", "despawn", "forget", "input", "look", "destroy", "destroyStop"},
        index \in Ids \cup {0} : GroupTake(by, op, menu, index)

PollStep == Poll \/ Check \/ StopLoop \/ Renew

Next ==
  \/ \E by \in Senders : Submit(by)
  \/ Act \/ RecordLoop \/ Member \/ Prepare \/ Send \/ Finish
  \/ PollStep
  \/ \E id \in Ids : Tick(id) \/ Disconnects(id)
  \/ \E r \in late : LateEnds(r)
  \/ \E p \in Players : Revoke(p)
  \/ Joins \/ Restart

\* the poll thread goes round for ever, and the runtime's clock ticks
Fairness == WF_vars(PollStep) /\ \A id \in Ids : WF_vars(Tick(id))

Spec == Init /\ [][Next]_vars /\ Fairness

-----------------------------------------------------------------------------
Entry == [bot: Ids, lid: Nat, by: Senders]
MenuType == [by: Players, gid: Gids, members: Seq(Ids), bot: Ids \cup {0}, name: Names \cup {None},
             offered: SUBSET (Names \X Ids)]

\* Everything stays within its type: the stores, the worker's command with one
\* row for each member, the table of loops and the poll (groups.py, commands.py).
TypeOK ==
  /\ \A i \in Ids : rt[i] = None \/ rt[i] \in [name: Names, active: BOOLEAN]
  /\ \A i \in Ids : loop[i] \in 0..Len(started) /\ lease[i] \in 0..Lease
  /\ \A o \in {own, disk} : /\ \A i \in Ids : o.bots[i] = None \/ o.bots[i] \in Owner
                            /\ \A g \in Gids : o.groups[g] = None \/ o.groups[g] \in Owner
  /\ group = None \/ group \in Group
  /\ granted \subseteq Players /\ humans \in Nat /\ menus \subseteq MenuType
  /\ job.pc \in {"idle", "act", "loop", "members", "batch", "send"}
  /\ job.pc # "idle" => DOMAIN job.rows = DOMAIN job.members
  /\ \A n \in Names : table[n] = None \/ table[n] \in Entry
  /\ poll.pc \in {"idle", "check", "stop"} /\ (poll.pc = "idle" => poll = NoPoll)
  /\ acted \subseteq Ids /\ from \in menus \cup {None} /\ renamed \subseteq Ids
  /\ \A r \in late : r.id \in Ids /\ r.op \in {"rename", "forget"} /\ (r.op = "rename" => r.arg \in Names)

\* A Group operation answers for every member, and truly: "accepted" means the
\* runtime applied it to that member, "not run" and "failed" that it did not, and
\* only "acceptance unknown" leaves it open.  Two failures are reported although
\* the request may have run: a reply that was cut off, and a look that the world
\* did not confirm (GroupCommandService.execute, _execute_inputs).
RowsTrue ==
  job.pc = "members" /\ (\A i \in DOMAIN job.rows : job.rows[i] # "none") =>
    \A i \in DOMAIN job.rows :
      /\ job.rows[i] = "accepted" => job.members[i] \in acted
      /\ job.rows[i] \in {"missing", "refused", "skipped"} => job.members[i] \notin acted

\* No command is applied to a Bot that is private to someone else, by name, from a
\* menu or as a Group's member, whatever changed hands, names or visibility before
\* (owner_check).  Excepted is a Bot that took the command's name between the check
\* and the request, through a rename whose caller had given up on it.
PrivateKept ==
  [][\A id \in acted' \ acted : Visible(job.by, own.bots[id]) \/ id \in renamed]_vars

\* What is submitted from a Group's menu is applied to the Bots the menu showed or
\* refused: a Bot that took over a member's name, a Group that was recreated, and
\* members that changed since are never acted on (_form_group, _MemberControl).
ActsOnShown ==
  [][/\ from # None =>
          acted' \ acted \subseteq (IF from.bot = 0 THEN Range(from.members) ELSE {from.bot})
     /\ from' # None /\ group' # group =>
          /\ group # None /\ group.gid = from'.gid /\ group.members = from'.members
          /\ group' # None => \A id \in Range(group'.members) \ Range(group.members) :
                                \E c \in from'.offered : c[2] = id]_vars

\* When the poll ends a loop because its player lost control, it ends a loop of such
\* a player: one that someone else started on the Bot in between runs on
\* (_take_mining_loop, _end_mining_loop).
PollSparesOthers ==
  [][\A id \in Ids :
       poll.pc = "stop" /\ poll.why = "revoked" /\ poll' # poll /\ loop[id] # 0 /\ loop'[id] = 0 =>
         ~Authorized(started[loop[id]].by)]_vars

\* A loop whose player may no longer control Bots comes to an end, whatever reply
\* or entry was lost (poll_mining and the runtime's lease).
LoopsEnd ==
  \A id \in Ids :
    (loop[id] # 0 /\ started[loop[id]].by \notin granted \cup {Console}) ~> (loop[id] = 0 \/ started[loop[id]].by \in granted \cup {Console})
=============================================================================
