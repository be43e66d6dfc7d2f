-------------------------- MODULE CommandsProofs --------------------------
(***************************************************************************)
(* Proofs about Commands, for any players, limits, stored states and       *)
(* bounds: a command reaches only Bots its sender may use and, from a      *)
(* menu, only Bots the menu showed; a Group operation's rows are true; and *)
(* a revocation ends no loop but one of the player who lost control.       *)
(***************************************************************************)
EXTENDS Commands, SequenceTheorems, FiniteSetTheorems, TLAPS

(* An ownership store has an entry, or None, for every Bot and Group.      *)
Whole(o) ==
  /\ o = [bots |-> o.bots, groups |-> o.groups]
  /\ o.bots = [i \in Ids |-> o.bots[i]] /\ o.groups = [g \in Gids |-> o.groups[g]]

(* A profile has a name and is active or not.                              *)
Profile(p) == p = [name |-> p.name, active |-> p.active]

(* No two Bots have one name.                                              *)
NamesApart == \A i, j \in Ids : Exists(i) /\ Exists(j) /\ rt[i].name = rt[j].name => i = j

(* A Bot that was never made has no profile and no owner, in memory or on  *)
(* disk; no two Bots have one name; what waits in a Bot's chain is a       *)
(* rename or a forget; no Bot is a member twice.                           *)
StoresWhole ==
  /\ rt = [i \in Ids |-> rt[i]] /\ loop = [i \in Ids |-> loop[i]] /\ Whole(own) /\ Whole(disk)
  /\ \A i \in Ids : rt[i] = None \/ Profile(rt[i])
  /\ NamesApart
  /\ \A r \in late : r.id \in Ids /\ r.op \in {"rename", "forget"}
  /\ made \in [bots: Nat, groups: Nat]
  /\ \A i \in Ids : i > made.bots => rt[i] = None /\ own.bots[i] = None /\ disk.bots[i] = None
  /\ group = None \/ (group \in Group /\ IsInjective(group.members))

(* The worker's command: for one Bot, or for the members of a Group, with  *)
(* a row for each.                                                         *)
JobWhole ==
  job # Idle =>
    /\ job = [pc |-> job.pc, by |-> job.by, op |-> job.op, arg |-> job.arg, name |-> job.name,
              id |-> job.id, members |-> job.members, rows |-> job.rows]
    /\ job.pc \in {"act", "loop", "members", "batch", "send"} /\ job.by \in Senders
    /\ job.members \in Seq(Ids) /\ IsInjective(job.members)
    /\ job.rows = [i \in DOMAIN job.members |-> job.rows[i]]
    /\ job.pc = "act" => job.members = <<>>

Typed == StoresWhole /\ JobWhole

(* What was checked of the sender when the command was taken, or when the  *)
(* batch was prepared, still holds when the request is sent, for the Bot   *)
(* that has the command's name by then, unless a late rename gave it that  *)
(* name meanwhile.                                                         *)
JobAllowed ==
  /\ job.pc = "act" => \A i \in Ids : Exists(i) /\ rt[i].name = job.name =>
                         Visible(job.by, own.bots[i]) \/ i \in renamed
  /\ job.pc = "send" => \A i \in DOMAIN job.members :
                          job.rows[i] = "none" => Visible(job.by, own.bots[job.members[i]])

(* A command from a menu is for the Bot the menu was opened for, or for    *)
(* members it showed.                                                      *)
JobShown ==
  from # None /\ job # Idle =>
    /\ job.pc = "act" => from.bot # 0 /\ job.id = from.bot
    /\ \A i \in DOMAIN job.members : from.bot = 0 /\ job.members[i] \in Range(from.members)

(* The rows written so far are true, the members without one have not been *)
(* asked, and they are the last ones.                                      *)
RowsSoFar ==
  /\ job.pc \in {"batch", "send"} => acted = {}
  /\ job.pc = "send" => \A i \in DOMAIN job.members : job.rows[i] \in {"missing", "refused", "none"}
  /\ job.pc \in {"members", "loop"} => \A i \in DOMAIN job.members :
       /\ job.rows[i] = "accepted" => job.members[i] \in acted
       /\ job.rows[i] \in {"missing", "refused", "skipped", "none"} => job.members[i] \notin acted
       /\ job.rows[i] = "none" => \A k \in DOMAIN job.members : k > i => job.rows[k] = "none"

(* An entry of the table names a loop, and who began it; so do the entries *)
(* a poll works on, and the one whose loop it stops for want of control    *)
(* was begun by a player without it.                                       *)
Known(e) == e.lid \in 1..Len(started) /\ started[e.lid].by = e.by

TableKnown(t) == t = [n \in Names |-> t[n]] /\ \A n \in Names : t[n] = None \/ Known(t[n])

PollKnown(p) ==
  /\ p = [pc |-> p.pc, todo |-> p.todo, pending |-> p.pending, entry |-> p.entry, why |-> p.why]
  /\ \A t \in p.todo \cup p.pending : Known(t[2])
  /\ p.pc = "stop" => /\ Known(p.entry[2])
                      /\ p.why = "revoked" => ~Authorized(p.entry[2].by)

LoopsKnown ==
  /\ started \in Seq([by: Senders, bot: Ids])
  /\ TableKnown(table) /\ PollKnown(poll)
  /\ job.pc = "loop" /\ job.op = "destroy" =>
       Len(started) > 0 /\ started[Len(started)].by = job.by

-----------------------------------------------------------------------------
\* Identities count up from 1.
LEMMA Identities ==
  /\ Ids \subseteq Nat \ {0} /\ Gids \subseteq Nat \ {0}
  /\ \A n \in Nat : n < Cardinality(Ids) => n + 1 \in Ids
  /\ \A n \in Nat : n < Cardinality(Gids) => n + 1 \in Gids
  <1>1. Cardinality(Ids) \in Nat /\ Cardinality(Gids) \in Nat
    BY CommandBounds, FS_CardinalityType
  <1> QED  BY <1>1, CommandBounds

\* The Bot a request is for: the one named, or the one it makes.
Target(id) == IF id = 0 THEN made.bots + 1 ELSE id

\* An identity a request is sent with: that of a profile, or none.
Held(id) == id = 0 \/ (id \in Ids /\ Exists(id))

\* No other Bot has the name.
NameFree(id, name) == \A j \in Ids \ {id} : Exists(j) => rt[j].name # name

\* A request may run for this identity: it is a Bot that was made, or is spawned.
Asks(op, id) == (id = 0 /\ op = "spawn") \/ (id \in Ids /\ id <= made.bots)

\* The identity a name has is that of a profile with the name.
LEMMA Named ==
  ASSUME NEW name
  PROVE  IdOf(name) = 0 \/ (IdOf(name) \in Ids /\ Exists(IdOf(name)) /\ rt[IdOf(name)].name = name)
  <1> DEFINE found == {i \in Ids : Exists(i) /\ rt[i].name = name}
  <1>1. CASE found = {}  BY <1>1 DEF IdOf
  <1>2. CASE found # {}
    <2>1. (CHOOSE i \in found : TRUE) \in found  BY <1>2
    <2> QED  BY <2>1, <1>2 DEF IdOf
  <1> QED  BY <1>1, <1>2

\* It is the only one with the name.
LEMMA NamedAlone ==
  ASSUME NamesApart, NEW name
  PROVE  /\ Held(IdOf(name)) /\ NameFree(IdOf(name), name)
         /\ \A i \in Ids : Exists(i) /\ rt[i].name = name => IdOf(name) = i
  <1> DEFINE found == {i \in Ids : Exists(i) /\ rt[i].name = name}
  <1>1. ASSUME NEW i \in Ids, Exists(i), rt[i].name = name PROVE IdOf(name) = i
    <2>1. found # {}  BY <1>1
    <2>2. (CHOOSE j \in found : TRUE) \in found  BY <2>1
    <2>3. IdOf(name) \in found  BY <2>1, <2>2 DEF IdOf
    <2> QED  BY <1>1, <2>3 DEF NamesApart
  <1>2. Held(IdOf(name))  BY Named DEF Held
  <1> QED  BY <1>1, <1>2 DEF NameFree

\* A profile belongs to a Bot that was made.
LEMMA MadeBefore ==
  ASSUME StoresWhole, NEW id \in Ids, Exists(id)
  PROVE  id <= made.bots
  BY Identities DEF StoresWhole, Exists

\* Only a spawn is accepted for a name that no Bot has.
LEMMA AcceptedAsks ==
  ASSUME StoresWhole, NEW op, NEW id, NEW arg, Held(id), Accepts(op, id, arg)
  PROVE  Asks(op, id)
  <1>1. ASSUME id = 0, op # "spawn" PROVE FALSE
    BY <1>1, Zenon DEF Accepts, Exists, Online
  <1> QED  BY <1>1, MadeBefore DEF Held, Asks

\* What a request makes of a profile.
LEMMA NamedAfter ==
  ASSUME NEW op, NEW profile, NEW name, NEW arg, op = "spawn" \/ Profile(profile)
  PROVE  \/ After(op, profile, name, arg) = None
         \/ /\ Profile(After(op, profile, name, arg))
            /\ \/ op = "spawn" /\ After(op, profile, name, arg).name = name
               \/ op = "rename" /\ After(op, profile, name, arg).name = arg
               \/ op \notin {"spawn", "rename"} /\ After(op, profile, name, arg).name = profile.name
  <1>1. CASE op = "spawn"
    <2>1. After(op, profile, name, arg) = [name |-> name, active |-> TRUE]  BY <1>1 DEF After
    <2> QED  BY <1>1, <2>1 DEF Profile
  <1>2. CASE op = "rename"
    <2>1. After(op, profile, name, arg) = [profile EXCEPT !.name = arg]  BY <1>2 DEF After
    <2> QED  BY <1>2, <2>1 DEF Profile
  <1>3. CASE op = "resume" \/ op = "despawn"
    <2>1. \E on : After(op, profile, name, arg) = [profile EXCEPT !.active = on]  BY <1>3 DEF After
    <2> QED  BY <1>3, <2>1 DEF Profile
  <1>4. CASE op = "forget"
    BY <1>4 DEF After
  <1>5. CASE op \notin {"spawn", "rename", "resume", "despawn", "forget"}
    <2>1. After(op, profile, name, arg) = profile  BY <1>5 DEF After
    <2> QED  BY <1>5, <2>1
  <1> QED  BY <1>1, <1>2, <1>3, <1>4, <1>5

\* A request that is accepted for a Bot that was made finds its profile.
LEMMA AcceptedExists ==
  ASSUME NEW op, NEW id, NEW arg, Accepts(op, id, arg), op # "spawn"
  PROVE  Exists(id) /\ (op = "rename" => IdOf(arg) \in {0, id})
  BY Zenon DEF Accepts, Online, Immediate, Destroys

\* A profile that changes under an accepted request takes no other Bot's name.
LEMMA StillApart ==
  ASSUME StoresWhole, NEW op, NEW id, NEW name, NEW arg, Asks(op, id), Target(id) \in Ids,
         op = "spawn" => NameFree(id, name), Accepts(op, id, arg),
         rt' = [rt EXCEPT ![Target(id)] = After(op, @, name, arg)]
  PROVE  /\ NamesApart' /\ rt' = [i \in Ids |-> rt'[i]]
         /\ \A i \in Ids : rt'[i] = None \/ Profile(rt'[i])
         /\ \A i \in Ids \ {Target(id)} : rt'[i] = rt[i]
  <1> DEFINE t == Target(id)
             after == After(op, rt[t], name, arg)
  <1>1. op = "spawn" \/ (Exists(id) /\ t = id)
    BY AcceptedExists DEF Target, Exists
  <1>2. \/ after = None
        \/ /\ Profile(after)
           /\ \/ op = "spawn" /\ after.name = name
              \/ op = "rename" /\ after.name = arg
              \/ op \notin {"spawn", "rename"} /\ after.name = rt[t].name
    <2>1. op = "spawn" \/ Profile(rt[t])  BY <1>1 DEF StoresWhole, Exists
    <2> QED  BY <2>1, NamedAfter
  <1>3. rt' = [rt EXCEPT ![t] = after] /\ t \in Ids  OBVIOUS
  <1>4. \A j \in Ids \ {t} : j # id  BY Identities DEF Target
  <1>5. op = "rename" => IdOf(arg) \in {0, id}  BY AcceptedExists
  <1>6. ASSUME NEW j \in Ids \ {t}, Exists(j), after # None, after.name = rt[j].name PROVE FALSE
    <2>1. CASE op = "spawn"  BY <1>2, <1>4, <1>6, <2>1 DEF NameFree
    <2>2. CASE op = "rename"
      <3>1. IdOf(arg) = j  BY <1>2, <1>6, <2>2, NamedAlone DEF StoresWhole
      <3> QED  BY <1>4, <1>5, <2>2, <3>1, Identities
    <2>3. CASE op \notin {"spawn", "rename"}
      BY <1>1, <1>2, <1>6, <2>3 DEF StoresWhole, NamesApart
    <2> QED  BY <2>1, <2>2, <2>3
  <1> HIDE DEF t, after
  <1>7. /\ \A j \in Ids \ {t} : rt'[j] = rt[j]
        /\ rt'[t] = after /\ rt' = [i \in Ids |-> rt'[i]]
    BY <1>3 DEF StoresWhole
  <1>8. NamesApart'
    BY <1>3, <1>6, <1>7 DEF StoresWhole, NamesApart, Exists
  <1>9. \A i \in Ids : rt'[i] = None \/ Profile(rt'[i])
    BY <1>2, <1>7 DEF StoresWhole
  <1> QED  BY <1>7, <1>8, <1>9 DEF t

\* A request that runs touches one Bot, and makes it when it had none.
LEMMA Applied ==
  ASSUME StoresWhole, NEW by, NEW op, NEW id, NEW name, NEW arg, Asks(op, id), NameFree(id, name),
         Accepts(op, id, arg), Apply(by, op, id, name, arg)
  PROVE  /\ Target(id) \in Ids /\ acted' = acted \cup {Target(id)}
         /\ rt' = [i \in Ids |-> rt'[i]] /\ loop' = [i \in Ids |-> loop'[i]]
         /\ made' \in [bots: Nat, groups: Nat] /\ made'.groups = made.groups
         /\ made'.bots = IF id = 0 THEN made.bots + 1 ELSE made.bots
         /\ \A i \in Ids : i > made'.bots => rt'[i] = None
         /\ NamesApart' /\ late' \subseteq late /\ \A i \in Ids : rt'[i] = None \/ Profile(rt'[i])
  <1> USE DEF StoresWhole
  <1>0. id = 0 => made.bots < Cardinality(Ids)
    <2>1. ASSUME id = 0 PROVE made.bots < Cardinality(Ids)
      <3> HIDE DEF StoresWhole
      <3> DEFINE seated == id = 0 => made.bots < Cardinality(Ids)
      <3>1. op = "spawn" /\ op # "rename" /\ op # "forget" /\ op \notin Immediate \cup Destroys
        BY <2>1, Identities DEF Asks, Immediate, Destroys
      <3>2. Accepts(op, id, arg) = seated
        BY <3>1, Zenon DEF Accepts
      <3> QED  BY <2>1, <3>2
    <2> QED  BY <2>1
  <1>1. Target(id) \in Ids
    BY <1>0, Identities DEF Asks, Target
  <1>2. /\ acted' = acted \cup {Target(id)} /\ late' \subseteq late
        /\ made' = [made EXCEPT !.bots = IF id = 0 THEN @ + 1 ELSE @]
        /\ rt' = [rt EXCEPT ![Target(id)] = After(op, @, name, arg)]
        /\ loop' = [i \in Ids |-> loop'[i]]
    BY <1>1 DEF Apply, Target
  <1>3. /\ made' \in [bots: Nat, groups: Nat] /\ made'.groups = made.groups
        /\ made'.bots = IF id = 0 THEN made.bots + 1 ELSE made.bots
    BY <1>2
  <1>4. /\ NamesApart' /\ rt' = [i \in Ids |-> rt'[i]]
        /\ \A i \in Ids : rt'[i] = None \/ Profile(rt'[i])
        /\ \A i \in Ids \ {Target(id)} : rt'[i] = rt[i]
    <2> HIDE DEF StoresWhole
    <2> QED  BY <1>1, <1>2, StillApart
  <1>5. ASSUME NEW i \in Ids, i > made'.bots PROVE rt'[i] = None
    BY <1>1, <1>3, <1>4, <1>5, Identities DEF Asks, Target
  <1> QED  BY <1>1, <1>2, <1>3, <1>4, <1>5

\* Writing one entry leaves the others; the file has the old store or the new one.
LEMMA SavedBot ==
  ASSUME Whole(own), Whole(disk), NEW id \in Ids, NEW entry, NEW fails, Saved("bots", id, entry, fails)
  PROVE  /\ Whole(own') /\ Whole(disk') /\ disk' \in {disk, own'}
         /\ \A i \in Ids \ {id} : own'.bots[i] = own.bots[i]
  BY DEF Saved, Whole

LEMMA SavedGroup ==
  ASSUME Whole(own), Whole(disk), NEW gid \in Gids, NEW entry, NEW fails, Saved("groups", gid, entry, fails)
  PROVE  Whole(own') /\ Whole(disk') /\ disk' \in {disk, own'} /\ own'.bots = own.bots
  BY DEF Saved, Whole

\* What an answered request does to ownership concerns the Bot it was for.
LEMMA Owned ==
  ASSUME StoresWhole, NEW by, NEW op, NEW id, NEW arg, NEW fails, Asks(op, id), Target(id) \in Ids,
         Ownership(by, op, id, arg, fails)
  PROVE  /\ Whole(own') /\ Whole(disk') /\ disk' \in {disk, own'}
         /\ \A i \in Ids \ {Target(id)} : own'.bots[i] = own.bots[i]
  <1> USE DEF StoresWhole
  <1>1. CASE UNCHANGED owners
    BY <1>1 DEF owners, Whole
  <1>2. ASSUME NEW entry, Saved("bots", Target(id), entry, fails)
        PROVE  /\ Whole(own') /\ Whole(disk') /\ disk' \in {disk, own'}
               /\ \A i \in Ids \ {Target(id)} : own'.bots[i] = own.bots[i]
    BY <1>2, SavedBot
  <1>3. UNCHANGED owners \/ \E entry : Saved("bots", Target(id), entry, fails)
    BY Identities DEF Ownership, Recorded, Reassigned, Target, Asks
  <1> QED  BY <1>1, <1>2, <1>3

\* Nothing of the stores changes.
LEMMA StoresKept ==
  ASSUME StoresWhole, UNCHANGED <<rt, loop, late, own, disk, made, group>>
  PROVE  StoresWhole'
  <1>1. NamesApart'  BY DEF StoresWhole, NamesApart, Exists
  <1> QED  BY <1>1 DEF StoresWhole, Whole

\* A request that goes on waiting changes no profile.
LEMMA StillWaits ==
  ASSUME StoresWhole, NEW op, NEW id, NEW arg, Held(id), Waits(op, id, arg), UNCHANGED <<owners, group>>
  PROVE  StoresWhole' /\ made' = made /\ id \in Ids /\ acted' = acted \cup {id}
  <1>1. id \in Ids /\ op \in {"rename", "forget"} /\ acted' = acted \cup {id} /\ UNCHANGED <<rt, made>>
    BY DEF Waits, Held, Exists
  <1>2. loop' = [i \in Ids |-> loop'[i]]
    BY DEF Waits, StoresWhole
  <1>3. \A r \in late' : r.id \in Ids /\ r.op \in {"rename", "forget"}
    <2>1. \A r \in late' : r \in late \/ (r.id = id /\ r.op = op)
      BY DEF Waits
    <2> QED  BY <1>1, <2>1 DEF StoresWhole
  <1>4. NamesApart'  BY <1>1 DEF StoresWhole, NamesApart, Exists
  <1> QED  BY <1>1, <1>2, <1>3, <1>4 DEF StoresWhole, Whole, owners

\* A request, whatever became of it: its effect on the stores.  Without one, only
\* the commands of ownership have an answer.
Replied(by, op, id, name, arg, reply) ==
  \/ Request(by, op, id, name, arg, reply)
  \/ NotApplied /\ (reply = "ok" => op \in {"visibility", "owner"} /\ id # 0)

LEMMA Requested ==
  ASSUME StoresWhole, NEW by, NEW op, NEW id, NEW name, NEW arg, NEW reply, NEW fails,
         Held(id), NameFree(id, name), Replied(by, op, id, name, arg, reply),
         IF reply = "ok" THEN Ownership(by, op, id, arg, fails) ELSE UNCHANGED owners,
         UNCHANGED group
  PROVE  /\ StoresWhole'
         /\ acted' = acted \/ (Target(id) \in Ids /\ acted' = acted \cup {Target(id)})
  <1>1. CASE UNCHANGED owners /\ NotApplied
    BY <1>1, StoresKept DEF owners, NotApplied
  <1>2. CASE UNCHANGED owners /\ Accepts(op, id, arg) /\ Apply(by, op, id, name, arg)
    <2>1. /\ Target(id) \in Ids /\ acted' = acted \cup {Target(id)}
          /\ rt' = [i \in Ids |-> rt'[i]] /\ loop' = [i \in Ids |-> loop'[i]]
          /\ made' \in [bots: Nat, groups: Nat] /\ made'.groups = made.groups
          /\ made'.bots = IF id = 0 THEN made.bots + 1 ELSE made.bots
          /\ \A i \in Ids : i > made'.bots => rt'[i] = None
          /\ NamesApart' /\ late' \subseteq late /\ \A i \in Ids : rt'[i] = None \/ Profile(rt'[i])
      BY <1>2, Applied, AcceptedAsks
    <2> QED  BY <1>2, <2>1, Identities DEF StoresWhole, Whole, owners
  <1>3. CASE Ownership(by, op, id, arg, fails) /\ Accepts(op, id, arg) /\ Apply(by, op, id, name, arg)
    <2>1. /\ Target(id) \in Ids /\ acted' = acted \cup {Target(id)}
          /\ rt' = [i \in Ids |-> rt'[i]] /\ loop' = [i \in Ids |-> loop'[i]]
          /\ made' \in [bots: Nat, groups: Nat] /\ made'.groups = made.groups
          /\ made'.bots = IF id = 0 THEN made.bots + 1 ELSE made.bots
          /\ \A i \in Ids : i > made'.bots => rt'[i] = None
          /\ NamesApart' /\ late' \subseteq late /\ \A i \in Ids : rt'[i] = None \/ Profile(rt'[i])
      BY <1>3, Applied, AcceptedAsks
    <2>2. /\ Whole(own') /\ Whole(disk') /\ disk' \in {disk, own'}
          /\ \A i \in Ids \ {Target(id)} : own'.bots[i] = own.bots[i]
      BY <1>3, <2>1, Owned, AcceptedAsks
    <2>3. ASSUME NEW i \in Ids, i > made'.bots PROVE own'.bots[i] = None /\ disk'.bots[i] = None
      <3>1. Asks(op, id)  BY <1>3, AcceptedAsks
      <3> QED  BY <2>1, <2>2, <2>3, <3>1, Identities DEF StoresWhole, Target, Asks
    <2> QED  BY <2>1, <2>2, <2>3 DEF StoresWhole
  <1>4. CASE Ownership(by, op, id, arg, fails) /\ op \in {"visibility", "owner"} /\ id # 0 /\ NotApplied
    <2>1. Target(id) \in Ids /\ Target(id) <= made.bots /\ Asks(op, id)
      BY <1>4, MadeBefore DEF Asks, Target, Held
    <2>2. /\ Whole(own') /\ Whole(disk') /\ disk' \in {disk, own'}
          /\ \A i \in Ids \ {Target(id)} : own'.bots[i] = own.bots[i]
      BY <1>4, <2>1, Owned
    <2>3. UNCHANGED <<rt, loop, late, made, acted, group>>  BY <1>4 DEF NotApplied
    <2>4. ASSUME NEW i \in Ids, i > made.bots PROVE own'.bots[i] = None /\ disk'.bots[i] = None
      BY <2>1, <2>2, <2>4, Identities DEF StoresWhole
    <2>5. NamesApart'  BY <2>3 DEF StoresWhole, NamesApart, Exists
    <2>6. StoresWhole'  BY <2>2, <2>3, <2>4, <2>5 DEF StoresWhole
    <2> QED  BY <2>3, <2>6
  <1>5. CASE UNCHANGED owners /\ Waits(op, id, arg)
    <2>1. StoresWhole' /\ id \in Ids /\ acted' = acted \cup {id}
      BY <1>5, StillWaits
    <2> QED  BY <2>1, Identities DEF Target
  <1> QED  BY <1>1, <1>2, <1>3, <1>4, <1>5 DEF Replied, Request, Lost

-----------------------------------------------------------------------------
\* Whoever is let through to the Bot that has a name may use it.
LEMMA AdmittedSees ==
  ASSUME StoresWhole, NEW by, NEW op, NEW name, Admitted(by, op, IdOf(name))
  PROVE  \A i \in Ids : Exists(i) /\ rt[i].name = name => Visible(by, own.bots[i])
  <1>1. NamesApart  BY DEF StoresWhole
  <1>2. \A i \in Ids : Exists(i) /\ rt[i].name = name => IdOf(name) = i
    BY <1>1, NamedAlone
  <1>3. IdOf(name) # 0 => Visible(by, own.bots[IdOf(name)])
    BY DEF Admitted, OwnerCheck
  <1> QED  BY <1>2, <1>3 DEF Exists

\* A member is asked by the name that only it has.
LEMMA MemberHeld ==
  ASSUME StoresWhole, NEW id \in Ids, Exists(id)
  PROVE  Held(id) /\ NameFree(id, rt[id].name) /\ Target(id) = id
  BY DEF StoresWhole, NamesApart, Held, NameFree, Target, Exists

\* The members of a Group, and one of them, are distinct Bots.
LEMMA GroupMembers ==
  ASSUME StoresWhole, group # None
  PROVE  /\ group.members \in Seq(Ids) /\ IsInjective(group.members) /\ group.gid \in Gids
         /\ \A i \in DOMAIN group.members :
              /\ <<group.members[i]>> \in Seq(Ids) /\ IsInjective(<<group.members[i]>>)
              /\ <<group.members[i]>>[1] = group.members[i] /\ DOMAIN <<group.members[i]>> = {1}
  <1>1. group.members \in Seq(Ids) /\ IsInjective(group.members) /\ group.gid \in Gids
    BY DEF StoresWhole, Group
  <1>2. ASSUME NEW i \in DOMAIN group.members
        PROVE  /\ <<group.members[i]>> \in Seq(Ids) /\ IsInjective(<<group.members[i]>>)
               /\ <<group.members[i]>>[1] = group.members[i] /\ DOMAIN <<group.members[i]>> = {1}
    <2>1. group.members[i] \in Ids  BY <1>1
    <2> QED  BY <2>1 DEF IsInjective
  <1> QED  BY <1>1, <1>2

\* The rows once one more is written.
Rows(i, row) ==
  [k \in DOMAIN job.members |-> CASE k = i -> row
                                  [] k > i /\ row # "accepted" /\ ~Authorized(job.by) -> "skipped"
                                  [] OTHER -> job.rows[k]]

LEMMA RowWritten ==
  ASSUME JobWhole, job # Idle, NEW i, NEW row
  PROVE  Row(i, row) = [job EXCEPT !.pc = job.pc, !.name = job.name, !.id = job.id, !.rows = Rows(i, row)]
  <1>1. DOMAIN job.rows = DOMAIN job.members  BY DEF JobWhole
  <1>2. Row(i, row) = [job EXCEPT !.rows = Rows(i, row)]
    BY <1>1, Zenon DEF Row, Rows
  <1>3. ASSUME NEW rows
        PROVE  [job EXCEPT !.rows = rows] = [job EXCEPT !.pc = job.pc, !.name = job.name, !.id = job.id, !.rows = rows]
    BY DEF JobWhole
  <1> QED  BY <1>2, <1>3

-----------------------------------------------------------------------------
\* What a step of a Group operation does: one row, without a request, or with
\* one for a member that exists and that the sender may see.
Unasked(i) ==
  /\ NotApplied /\ UNCHANGED owners
  /\ \E row \in {"missing", "refused", "skipped"} : job' = Row(i, row)

Asked(i) ==
  /\ Exists(job.members[i]) /\ Visible(job.by, own.bots[job.members[i]])
  /\ \E reply \in {"ok", "refused"} \cup Lost, fails \in BOOLEAN :
       /\ Request(job.by, job.op, job.members[i], rt[job.members[i]].name, None, reply)
       /\ IF reply = "ok" THEN Ownership(job.by, job.op, job.members[i], None, fails) ELSE UNCHANGED owners
       /\ fails => reply = "ok"
       /\ job' = IF reply = "ok" /\ job.op \in Destroys
                 THEN [Row(i, "accepted") EXCEPT !.pc = "loop", !.name = rt[job.members[i]].name, !.id = job.members[i]]
                 ELSE Row(i, MemberRow(reply, fails))

LEMMA MemberCases ==
  ASSUME JobWhole, Member
  PROVE  /\ job.pc = "members" /\ job # Idle /\ UNCHANGED <<group, outside, menus, mining, from, renamed>>
         /\ \E i \in DOMAIN job.members :
              /\ job.rows[i] = "none" /\ \A k \in 1..i - 1 : job.rows[k] # "none"
              /\ job.members[i] \in Ids
              /\ Unasked(i) \/ Asked(i)
  <1>1. job.pc = "members" /\ job # Idle /\ UNCHANGED <<group, outside, menus, mining, from, renamed>>
    BY DEF Member, Idle
  <1>2. PICK i \in DOMAIN job.rows :
       /\ job.rows[i] = "none" /\ \A k \in 1..i - 1 : job.rows[k] # "none"
       /\ \E id \in {job.members[i]}, barred \in {Barred(job.by, job.op, job.members[i])} :
          \/ /\ (barred # "none" \/ ~Authorized(job.by) \/ ~Admitted(job.by, job.op, id))
             /\ job' = Row(i, CASE barred # "none" -> barred [] ~Authorized(job.by) -> "skipped" [] OTHER -> "refused")
             /\ NotApplied /\ UNCHANGED <<owners, left>>
          \/ /\ barred = "none" /\ Authorized(job.by) /\ Admitted(job.by, job.op, id)
             /\ \E reply \in {"ok", "refused"} \cup Lost, fails \in BOOLEAN :
                  /\ fails => reply = "ok" /\ Writes(job.op, id)
                  /\ Faults(reply, fails)
                  /\ Request(job.by, job.op, id, rt[id].name, None, reply)
                  /\ IF reply = "ok" THEN Ownership(job.by, job.op, id, None, fails) ELSE UNCHANGED owners
                  /\ job' = IF reply = "ok" /\ job.op \in Destroys
                            THEN [Row(i, "accepted") EXCEPT !.pc = "loop", !.name = rt[id].name, !.id = id]
                            ELSE Row(i, MemberRow(reply, fails))
    BY Zenon DEF Member
  <1>3. i \in DOMAIN job.members /\ job.members[i] \in Ids
    BY <1>1, <1>2 DEF JobWhole
  <1>4. Barred(job.by, job.op, job.members[i]) \in {"missing", "refused", "none"}
    BY DEF Barred
  <1>5. Barred(job.by, job.op, job.members[i]) = "none" =>
           Exists(job.members[i]) /\ Visible(job.by, own.bots[job.members[i]])
    BY <1>3, Identities DEF Barred, OwnerCheck
  <1>6. CASE /\ Barred(job.by, job.op, job.members[i]) # "none" \/ ~Authorized(job.by)
                \/ ~Admitted(job.by, job.op, job.members[i])
             /\ job' = Row(i, CASE Barred(job.by, job.op, job.members[i]) # "none" -> Barred(job.by, job.op, job.members[i])
                                [] ~Authorized(job.by) -> "skipped" [] OTHER -> "refused")
             /\ NotApplied /\ UNCHANGED <<owners, left>>
    <2>1. PICK row : /\ row = CASE Barred(job.by, job.op, job.members[i]) # "none" -> Barred(job.by, job.op, job.members[i])
                                [] ~Authorized(job.by) -> "skipped" [] OTHER -> "refused"
                     /\ job' = Row(i, row)
      BY <1>6
    <2>2. row \in {Barred(job.by, job.op, job.members[i]), "skipped", "refused"} /\ row # "none"
      BY <2>1
    <2>3. Unasked(i)
      BY <1>4, <1>6, <2>1, <2>2 DEF Unasked
    <2> QED  BY <1>1, <1>2, <1>3, <2>3
  <1>7. CASE Barred(job.by, job.op, job.members[i]) = "none" /\ Asked(i)
    BY <1>1, <1>2, <1>3, <1>7
  <1>8. \/ /\ Barred(job.by, job.op, job.members[i]) # "none" \/ ~Authorized(job.by)
                \/ ~Admitted(job.by, job.op, job.members[i])
           /\ job' = Row(i, CASE Barred(job.by, job.op, job.members[i]) # "none" -> Barred(job.by, job.op, job.members[i])
                                [] ~Authorized(job.by) -> "skipped" [] OTHER -> "refused")
           /\ NotApplied /\ UNCHANGED <<owners, left>>
        \/ Barred(job.by, job.op, job.members[i]) = "none" /\ Asked(i)
    BY <1>2, <1>5, Zenon DEF Asked
  <1> QED  BY <1>6, <1>7, <1>8

LEMMA RowMoves ==
  ASSUME JobWhole, job # Idle, NEW pc \in {"loop", "members"}, NEW name, NEW id, NEW i, NEW row,
         job' = [job EXCEPT !.pc = pc, !.name = name, !.id = id, !.rows = Rows(i, row)]
  PROVE  /\ JobWhole' /\ job' # Idle /\ job'.pc = pc /\ job'.rows = Rows(i, row)
         /\ job'.by = job.by /\ job'.op = job.op /\ job'.members = job.members
  <1> DEFINE rows == Rows(i, row)
  <1>1. rows = [k \in DOMAIN job.members |-> rows[k]]  BY DEF Rows
  <1>2. job' = [job EXCEPT !.pc = pc, !.name = name, !.id = id, !.rows = rows]  OBVIOUS
  <1> HIDE DEF rows
  <1>3. /\ JobWhole' /\ job' # Idle /\ job'.pc = pc /\ job'.rows = rows
        /\ job'.by = job.by /\ job'.op = job.op /\ job'.members = job.members
    BY <1>1, <1>2 DEF JobWhole, Idle
  <1> QED  BY <1>3 DEF rows

\* The row a request leaves, and where the command goes on: "accepted" only when
\* the request ran, "refused" only when it did not.
LEMMA AskedRow ==
  ASSUME JobWhole, job # Idle, NEW i \in DOMAIN job.members, job.pc = "members", Asked(i)
  PROVE  /\ JobWhole' /\ job' # Idle /\ job'.pc \in {"members", "loop"}
         /\ job'.by = job.by /\ job'.op = job.op /\ job'.members = job.members
         /\ \E row \in {"accepted", "unknown", "refused", "protocol"} :
              /\ job'.rows = Rows(i, row)
              /\ row = "accepted" => job.members[i] \in acted'
              /\ row = "refused" => acted' = acted
  <1>1. PICK reply \in {"ok", "refused"} \cup Lost, fails \in BOOLEAN :
           /\ Request(job.by, job.op, job.members[i], rt[job.members[i]].name, None, reply)
           /\ fails => reply = "ok"
           /\ job' = IF reply = "ok" /\ job.op \in Destroys
                     THEN [Row(i, "accepted") EXCEPT !.pc = "loop", !.name = rt[job.members[i]].name, !.id = job.members[i]]
                     ELSE Row(i, MemberRow(reply, fails))
    BY DEF Asked
  <1>2. MemberRow(reply, fails) \in {"accepted", "unknown", "refused", "protocol"}
    BY <1>1 DEF MemberRow, Lost
  <1>3. /\ MemberRow(reply, fails) = "accepted" => reply = "ok"
        /\ MemberRow(reply, fails) = "refused" => reply = "refused"
    BY <1>1 DEF MemberRow, Lost
  <1>4. /\ reply = "ok" => job.members[i] \in acted'
        /\ reply = "refused" => acted' = acted
    <2>1. job.members[i] # 0
      BY Identities DEF JobWhole
    <2>2. /\ reply = "ok" => Apply(job.by, job.op, job.members[i], rt[job.members[i]].name, None)
          /\ reply = "refused" => NotApplied
      BY <1>1 DEF Request, Lost
    <2>3. Apply(job.by, job.op, job.members[i], rt[job.members[i]].name, None) => job.members[i] \in acted'
      BY <2>1 DEF Apply
    <2> QED  BY <2>2, <2>3 DEF NotApplied
  <1>5. CASE reply = "ok" /\ job.op \in Destroys
    <2>1. job' = [[job EXCEPT !.pc = job.pc, !.name = job.name, !.id = job.id, !.rows = Rows(i, "accepted")]
                    EXCEPT !.pc = "loop", !.name = rt[job.members[i]].name, !.id = job.members[i]]
      BY <1>1, <1>5, RowWritten
    <2>2. ASSUME NEW rows, NEW name
          PROVE  [[job EXCEPT !.pc = job.pc, !.name = job.name, !.id = job.id, !.rows = rows]
                    EXCEPT !.pc = "loop", !.name = name, !.id = job.members[i]]
                  = [job EXCEPT !.pc = "loop", !.name = name, !.id = job.members[i], !.rows = rows]
      BY DEF JobWhole
    <2>3. job' = [job EXCEPT !.pc = "loop", !.name = rt[job.members[i]].name, !.id = job.members[i], !.rows = Rows(i, "accepted")]
      BY <2>1, <2>2
    <2>4. /\ JobWhole' /\ job' # Idle /\ job'.pc = "loop" /\ job'.rows = Rows(i, "accepted")
          /\ job'.by = job.by /\ job'.op = job.op /\ job'.members = job.members
      BY <2>3, RowMoves
    <2> QED  BY <1>4, <1>5, <2>4
  <1>6. CASE ~(reply = "ok" /\ job.op \in Destroys)
    <2>1. job' = [job EXCEPT !.pc = "members", !.name = job.name, !.id = job.id, !.rows = Rows(i, MemberRow(reply, fails))]
      BY <1>1, <1>6, RowWritten
    <2>2. /\ JobWhole' /\ job' # Idle /\ job'.pc = "members" /\ job'.rows = Rows(i, MemberRow(reply, fails))
          /\ job'.by = job.by /\ job'.op = job.op /\ job'.members = job.members
      BY <2>1, RowMoves
    <2> QED  BY <1>2, <1>3, <1>4, <2>2
  <1> QED  BY <1>5, <1>6

LEMMA UnaskedRow ==
  ASSUME JobWhole, job # Idle, NEW i \in DOMAIN job.members, job.pc = "members", Unasked(i)
  PROVE  /\ JobWhole' /\ job' # Idle /\ job'.pc = "members"
         /\ job'.by = job.by /\ job'.op = job.op /\ job'.members = job.members
         /\ \E row \in {"missing", "refused", "skipped"} : job'.rows = Rows(i, row)
  <1>1. PICK row \in {"missing", "refused", "skipped"} : job' = Row(i, row)
    BY DEF Unasked
  <1>2. job' = [job EXCEPT !.pc = "members", !.name = job.name, !.id = job.id, !.rows = Rows(i, row)]
    BY <1>1, RowWritten
  <1>3. /\ JobWhole' /\ job' # Idle /\ job'.pc = "members" /\ job'.rows = Rows(i, row)
        /\ job'.by = job.by /\ job'.op = job.op /\ job'.members = job.members
    BY <1>2, RowMoves
  <1> QED  BY <1>1, <1>3

\* A member's request changes the stores for this member alone.
LEMMA AskedStores ==
  ASSUME StoresWhole, NEW i \in DOMAIN job.members, job.members[i] \in Ids, Asked(i), UNCHANGED group
  PROVE  StoresWhole' /\ (acted' = acted \/ acted' = acted \cup {job.members[i]})
  <1> DEFINE id == job.members[i]
  <1>1. Held(id) /\ NameFree(id, rt[id].name) /\ Target(id) = id
    BY MemberHeld DEF Asked
  <1>2. PICK reply \in {"ok", "refused"} \cup Lost, fails \in BOOLEAN :
          /\ Replied(job.by, job.op, id, rt[id].name, None, reply)
          /\ IF reply = "ok" THEN Ownership(job.by, job.op, id, None, fails) ELSE UNCHANGED owners
    BY DEF Asked, Replied
  <1> QED  BY <1>1, <1>2, Requested

-----------------------------------------------------------------------------
(* What the steps of each kind do, as the invariants need it.  First, a    *)
(* command is taken: for one Bot, or for members of the Group.             *)
ForBot(by) ==
  /\ job'.pc = "act" /\ job'.by = by /\ job'.members = <<>> /\ job' # Idle
  /\ \A i \in Ids : Exists(i) /\ rt[i].name = job'.name => Visible(by, own.bots[i])
  /\ from' # None => from'.bot # 0 /\ job'.id = from'.bot

ForMembers(by) ==
  /\ job'.pc \in {"members", "batch"} /\ job'.by = by /\ job' # Idle /\ group # None
  /\ \A i \in DOMAIN job'.members : job'.rows[i] = "none" /\ job'.members[i] \in Range(group.members)
  /\ from' # None => from'.bot = 0 /\ from'.members = group.members

Begun(by) ==
  /\ job.pc = "idle" /\ JobWhole' /\ acted' = {} /\ (ForBot(by) \/ ForMembers(by))
  /\ UNCHANGED <<rt, loop, late, started, own, disk, group, granted, table, poll, made>>

LEMMA TakeBegins ==
  ASSUME Typed, NEW by \in Senders, NEW op, NEW arg, NEW name, Take(by, op, arg, name)
  PROVE  Begun(by)
  <1>1. \A i \in Ids : Exists(i) /\ rt[i].name = name => Visible(by, own.bots[i])
    BY AdmittedSees DEF Take, Typed
  <1>2. job' = Job("act", by, op, arg, name, 0, <<>>)
    BY DEF Take
  <1>3. IsInjective(<<>>) /\ <<>> \in Seq(Ids)
    BY DEF IsInjective
  <1>4. /\ JobWhole' /\ job' # Idle /\ job'.pc = "act" /\ job'.by = by /\ job'.name = name /\ job'.members = <<>>
    BY <1>2, <1>3 DEF Job, JobWhole, Idle
  <1>5. from' = None /\ job.pc = "idle" /\ acted' = {}
        /\ UNCHANGED <<rt, loop, late, started, own, disk, group, granted, table, poll, made>>
    BY DEF Take, owners, outside, mining
  <1> QED  BY <1>1, <1>4, <1>5 DEF Begun, ForBot

LEMMA MenuBegins ==
  ASSUME Typed, NEW by \in Senders, NEW op, NEW arg, NEW menu, MemberMenu(by, op, arg, menu)
  PROVE  Begun(by)
  <1>1. \A i \in Ids : Exists(i) /\ rt[i].name = menu.name => Visible(by, own.bots[i])
    <2>1. Admitted(by, op, IdOf(menu.name))  BY DEF MemberMenu
    <2> QED  BY <2>1, AdmittedSees DEF Typed
  <1>2. menu.bot # 0 /\ job' = Job("act", by, op, arg, menu.name, menu.bot, <<>>)
    BY DEF MemberMenu
  <1>3. IsInjective(<<>>) /\ <<>> \in Seq(Ids)
    BY DEF IsInjective
  <1>4. /\ JobWhole' /\ job' # Idle /\ job'.pc = "act" /\ job'.by = by /\ job'.name = menu.name
        /\ job'.id = menu.bot /\ job'.members = <<>>
    BY <1>2, <1>3 DEF Job, JobWhole, Idle
  <1>5. from' = menu /\ job.pc = "idle" /\ acted' = {}
        /\ UNCHANGED <<rt, loop, late, started, own, disk, group, granted, table, poll, made>>
    BY DEF MemberMenu, owners, outside, mining
  <1> QED  BY <1>1, <1>2, <1>4, <1>5 DEF Begun, ForBot

LEMMA GroupBegins ==
  ASSUME Typed, NEW by \in Senders, NEW op, NEW menu, NEW index, GroupTake(by, op, menu, index)
  PROVE  Begun(by)
  <1>1. group # None /\ (menu # None => menu.bot = 0 /\ menu.members = group.members)
        /\ index \in {0} \cup DOMAIN group.members
    BY DEF GroupTake, CanSee, FormGroup
  <1>2. /\ group.members \in Seq(Ids) /\ IsInjective(group.members)
        /\ \A i \in DOMAIN group.members :
              /\ <<group.members[i]>> \in Seq(Ids) /\ IsInjective(<<group.members[i]>>)
              /\ <<group.members[i]>>[1] = group.members[i] /\ DOMAIN <<group.members[i]>> = {1}
    BY <1>1, GroupMembers DEF Typed
  <1>3. from' = menu /\ job.pc = "idle" /\ acted' = {}
        /\ UNCHANGED <<rt, loop, late, started, own, disk, group, granted, table, poll, made>>
    BY DEF GroupTake, owners, outside, mining
  <1>4. ASSUME NEW pc \in {"members", "batch"}, NEW members \in Seq(Ids), IsInjective(members),
               job' = Job(pc, by, op, None, None, 0, members)
        PROVE  /\ JobWhole' /\ job' # Idle /\ job'.pc = pc /\ job'.by = by /\ job'.members = members
               /\ \A i \in DOMAIN members : job'.rows[i] = "none"
    BY <1>4 DEF Job, JobWhole, Idle
  <1>5. CASE index = 0
    <2>1. PICK pc \in {"members", "batch"} : job' = Job(pc, by, op, None, None, 0, group.members)
      BY <1>5 DEF GroupTake
    <2>2. /\ JobWhole' /\ job' # Idle /\ job'.pc = pc /\ job'.by = by /\ job'.members = group.members
          /\ \A i \in DOMAIN group.members : job'.rows[i] = "none"
      BY <2>1, <1>2, <1>4
    <2>3. \A i \in DOMAIN group.members : group.members[i] \in Range(group.members)  BY DEF Range
    <2> QED  BY <1>1, <1>3, <2>1, <2>2, <2>3 DEF Begun, ForMembers
  <1>6. CASE index # 0
    <2>1. job' = Job("members", by, op, None, None, 0, <<group.members[index]>>) /\ index \in DOMAIN group.members
      BY <1>6, <1>1 DEF GroupTake
    <2>2. /\ JobWhole' /\ job' # Idle /\ job'.pc = "members" /\ job'.by = by /\ job'.members = <<group.members[index]>>
          /\ \A i \in DOMAIN <<group.members[index]>> : job'.rows[i] = "none"
      BY <2>1, <1>2, <1>4
    <2>3. group.members[index] \in Range(group.members)  BY <2>1 DEF Range
    <2> QED  BY <1>1, <1>2, <1>3, <2>1, <2>2, <2>3 DEF Begun, ForMembers
  <1> QED  BY <1>5, <1>6

(* Then, a Group or its owner changes between two commands ...             *)
Regrouped ==
  /\ job.pc = "idle" /\ StoresWhole'
  /\ own'.bots = own.bots
  /\ UNCHANGED <<rt, loop, late, started, granted, job, made.bots, table, poll, acted>>

\* No Bot is a member twice: one is only added when it is not a member yet.
LEMMA AddedDistinct ==
  ASSUME NEW s \in Seq(Ids), IsInjective(s), NEW id \in Ids, id \notin Range(s)
  PROVE  Append(s, id) \in Seq(Ids) /\ IsInjective(Append(s, id))
  <1> DEFINE r == Append(s, id)
  <1>1. \A k \in 1..Len(s) : s[k] # id  BY DEF Range
  <1>2. r \in Seq(Ids) /\ Len(r) = Len(s) + 1
        /\ \A k \in 1..Len(s) + 1 : r[k] = IF k = Len(s) + 1 THEN id ELSE s[k]
    OBVIOUS
  <1> HIDE DEF r
  <1>3. DOMAIN r = 1..Len(s) + 1 /\ DOMAIN s = 1..Len(s)  BY <1>2
  <1>4. IsInjective(r)  BY <1>1, <1>2, <1>3 DEF IsInjective
  <1> QED  BY <1>2, <1>4 DEF r

LEMMA RemovedDistinct ==
  ASSUME NEW s \in Seq(Ids), IsInjective(s), NEW i \in DOMAIN s
  PROVE  /\ RemoveAt(s, i) \in Seq(Ids) /\ IsInjective(RemoveAt(s, i))
         /\ Range(RemoveAt(s, i)) \subseteq Range(s)
  <1> DEFINE r == RemoveAt(s, i)
  <1>1. /\ r \in Seq(Ids) /\ Len(r) = Len(s) - 1
        /\ \A k \in 1..Len(s) - 1 : r[k] = IF k < i THEN s[k] ELSE s[k + 1]
    <2> DEFINE a == SubSeq(s, 1, i - 1)
               b == SubSeq(s, i + 1, Len(s))
    <2>1. /\ a \in Seq(Ids) /\ Len(a) = i - 1 /\ b \in Seq(Ids) /\ Len(b) = Len(s) - i
          /\ \A k \in 1..i - 1 : a[k] = s[k]
          /\ \A k \in 1..Len(s) - i : b[k] = s[i + k]
      BY SubSeqProperties
    <2> HIDE DEF a, b
    <2>2. /\ a \o b \in Seq(Ids) /\ Len(a \o b) = Len(s) - 1
          /\ \A k \in 1..Len(s) - 1 : (a \o b)[k] = IF k < i THEN a[k] ELSE b[k - Len(a)]
      BY <2>1, ConcatProperties
    <2>3. \A k \in 1..Len(s) - 1 : ~(k < i) => k - Len(a) \in 1..Len(s) - i /\ i + (k - Len(a)) = k + 1
      BY <2>1
    <2>4. RemoveAt(s, i) = a \o b  BY DEF RemoveAt, a, b
    <2>5. ASSUME NEW k \in 1..Len(s) - 1 PROVE (a \o b)[k] = IF k < i THEN s[k] ELSE s[k + 1]
      <3>1. CASE k < i
        <4>1. k \in 1..i - 1  BY <3>1
        <4> QED  BY <3>1, <4>1, <2>1, <2>2
      <3>2. CASE ~(k < i)
        <4>1. k - Len(a) \in 1..Len(s) - i /\ i + (k - Len(a)) = k + 1  BY <2>3, <3>2
        <4> QED  BY <3>2, <4>1, <2>1, <2>2
      <3> QED  BY <3>1, <3>2
    <2> QED  BY <2>2, <2>4, <2>5
  <1> HIDE DEF r
  <1>2. IsInjective(r)
    <2>1. DOMAIN r = 1..Len(s) - 1 /\ DOMAIN s = 1..Len(s) /\ Len(s) \in Nat /\ i \in 1..Len(s)  BY <1>1
    <2>2. ASSUME NEW p \in 1..Len(s) - 1, NEW q \in 1..Len(s) - 1, r[p] = r[q] PROVE p = q
      <3>1. PICK v \in 1..Len(s) : v = (IF p < i THEN p ELSE p + 1) /\ r[p] = s[v]  BY <1>1, <2>1
      <3>2. PICK w \in 1..Len(s) : w = (IF q < i THEN q ELSE q + 1) /\ r[q] = s[w]  BY <1>1, <2>1
      <3>3. v = w  BY <2>1, <2>2, <3>1, <3>2 DEF IsInjective
      <3> QED  BY <2>1, <3>1, <3>2, <3>3
    <2> QED  BY <2>1, <2>2 DEF IsInjective
  <1>3. ASSUME NEW x \in Range(r) PROVE x \in Range(s)
    <2>1. PICK k \in 1..Len(s) - 1 : r[k] = x  BY <1>1, <1>3 DEF Range
    <2>2. PICK j \in DOMAIN s : s[j] = x  BY <1>1, <2>1
    <2> QED  BY <2>2 DEF Range
  <1> QED  BY <1>1, <1>2, <1>3 DEF r

LEMMA RecordedGroup ==
  ASSUME Whole(own), Whole(disk), NEW gid \in Gids, NEW by, Recorded("groups", gid, by, FALSE)
  PROVE  Whole(own') /\ Whole(disk') /\ disk' \in {disk, own'} /\ own'.bots = own.bots
  <1>1. UNCHANGED owners \/ \E entry : Saved("groups", gid, entry, FALSE)
    BY DEF Recorded
  <1>2. CASE UNCHANGED owners  BY <1>2 DEF owners, Whole
  <1> QED  BY <1>1, <1>2, SavedGroup

LEMMA CreateRegroups ==
  ASSUME Typed, NEW by, GroupCreate(by)
  PROVE  Regrouped /\ from' = None
  <1> USE DEF Typed, StoresWhole
  <1>a. rt' = rt => NamesApart'  BY DEF NamesApart, Exists
  <1>1. made.groups + 1 \in Gids  BY Identities DEF GroupCreate
  <1>2. Whole(own') /\ Whole(disk') /\ disk' \in {disk, own'} /\ own'.bots = own.bots
    BY <1>1, RecordedGroup DEF GroupCreate
  <1>3. group' = [gid |-> made.groups + 1, members |-> <<>>]  BY DEF GroupCreate
  <1>4. group' \in Group /\ IsInjective(group'.members)
    BY <1>1, <1>3 DEF Group, IsInjective
  <1>5. made' \in [bots: Nat, groups: Nat] /\ made'.bots = made.bots  BY DEF GroupCreate
  <1>6. /\ job.pc = "idle" /\ from' = None
        /\ UNCHANGED <<rt, loop, late, started, granted, job, table, poll, acted>>
    BY DEF GroupCreate, runtime, outside, mining
  <1> QED  BY <1>a, <1>2, <1>4, <1>5, <1>6 DEF Regrouped

LEMMA EditRegroups ==
  ASSUME Typed, NEW by, NEW op \in {"add", "remove", "delete"}, NEW menu, NEW name, NEW i,
         GroupEdit(by, op, menu, name, i)
  PROVE  /\ Regrouped /\ from' = menu /\ group # None
         /\ menu # None => menu.gid = group.gid /\ menu.members = group.members
         /\ menu # None /\ group' # None => \A id \in Range(group'.members) \ Range(group.members) :
                                              \E c \in menu.offered : c[2] = id
  <1> USE DEF Typed, StoresWhole
  <1>a. rt' = rt => NamesApart'  BY DEF NamesApart, Exists
  <1>1. /\ job.pc = "idle" /\ from' = menu /\ group # None
        /\ menu # None => menu.gid = group.gid /\ menu.members = group.members
        /\ UNCHANGED <<rt, loop, late, started, granted, job, made, table, poll, acted>>
    BY DEF GroupEdit, CanSee, FormGroup, runtime, outside, mining
  <1>2. group.members \in Seq(Ids) /\ IsInjective(group.members) /\ group.gid \in Gids
    BY <1>1, GroupMembers
  <1>3. Whole(own') /\ Whole(disk') /\ disk' \in {disk, own'} /\ own'.bots = own.bots
    <2>1. UNCHANGED owners \/ Saved("groups", group.gid, None, FALSE)  BY DEF GroupEdit
    <2>2. CASE UNCHANGED owners  BY <2>2 DEF owners, Whole
    <2> QED  BY <1>2, <2>1, <2>2, SavedGroup
  <1>4. CASE op = "delete"
    <2>1. group' = None  BY <1>4 DEF GroupEdit
    <2> QED  BY <1>a, <1>1, <1>3, <2>1 DEF Regrouped
  <1>5. CASE op = "add"
    <2>1. group' = [group EXCEPT !.members = Append(@, IdOf(name))]  BY <1>5 DEF GroupEdit
    <2>2. /\ IdOf(name) \in Ids /\ IdOf(name) \notin Range(group.members)
          /\ menu # None => <<name, IdOf(name)>> \in menu.offered
      <3>1. /\ Offered(menu, name) /\ IdOf(name) \notin Range(group.members) \cup {0}
            /\ menu # None => name \in {c[1] : c \in menu.offered}
        BY <1>5 DEF GroupEdit
      <3>2. menu # None => menu.offered # {}  BY <3>1
      <3> QED  BY <3>1, <3>2, Named DEF Offered
    <2>3. Append(group.members, IdOf(name)) \in Seq(Ids) /\ IsInjective(Append(group.members, IdOf(name)))
      BY <1>2, <2>2, AddedDistinct
    <2>4. group' \in Group /\ IsInjective(group'.members) /\ group'.members = Append(group.members, IdOf(name))
      BY <1>1, <2>1, <2>3 DEF Group
    <2>5. ASSUME NEW id \in Range(group'.members) \ Range(group.members) PROVE id = IdOf(name)
      BY <1>2, <2>2, <2>4, <2>5 DEF Range
    <2>6. <<name, IdOf(name)>>[2] = IdOf(name)  OBVIOUS
    <2>7. menu # None => \A id \in Range(group'.members) \ Range(group.members) : \E c \in menu.offered : c[2] = id
      BY <2>2, <2>5, <2>6
    <2>8. StoresWhole'  BY <1>a, <1>1, <1>3, <2>4
    <2> QED  BY <1>1, <1>3, <2>7, <2>8 DEF Regrouped
  <1>6. CASE op = "remove"
    <2>1. group' = [group EXCEPT !.members = RemoveAt(@, i)] /\ i \in DOMAIN group.members  BY <1>6 DEF GroupEdit
    <2>2. /\ RemoveAt(group.members, i) \in Seq(Ids) /\ IsInjective(RemoveAt(group.members, i))
          /\ Range(RemoveAt(group.members, i)) \subseteq Range(group.members)
      BY <1>2, <2>1, RemovedDistinct
    <2>3. group' \in Group /\ IsInjective(group'.members) /\ Range(group'.members) \subseteq Range(group.members)
      BY <1>1, <2>1, <2>2 DEF Group
    <2>4. StoresWhole'  BY <1>a, <1>1, <1>3, <2>3
    <2> QED  BY <1>1, <1>3, <2>3, <2>4 DEF Regrouped
  <1> QED  BY <1>4, <1>5, <1>6

LEMMA OwnerRegroups ==
  ASSUME Typed, NEW by, NEW op, NEW arg, GroupOwnership(by, op, arg)
  PROVE  Regrouped /\ UNCHANGED group
  <1> USE DEF Typed, StoresWhole
  <1>a. rt' = rt => NamesApart'  BY DEF NamesApart, Exists
  <1>1. /\ job.pc = "idle" /\ group # None
        /\ UNCHANGED <<rt, loop, late, started, granted, job, made, table, poll, acted, group>>
    BY DEF GroupOwnership, CanSee, runtime, outside, mining
  <1>2. \E entry : Saved("groups", group.gid, entry, FALSE)
    BY DEF GroupOwnership, Reassigned
  <1>3. Whole(own') /\ Whole(disk') /\ disk' \in {disk, own'} /\ own'.bots = own.bots
    BY <1>1, <1>2, GroupMembers, SavedGroup
  <1> QED  BY <1>a, <1>1, <1>3 DEF Regrouped

(* ... and the steps beside the worker, which leave its command alone.     *)
Aside ==
  /\ StoresWhole'
  /\ \A i \in Ids : job # Idle /\ rt'[i] # None =>
       i \in renamed' \/ (rt[i] # None /\ rt'[i].name = rt[i].name)
  /\ renamed \subseteq renamed' /\ granted' \subseteq granted
  /\ UNCHANGED <<own, disk, group, job, made, acted, started, from>>

\* Nothing is renamed, no profile is new.
LEMMA AsidePlain ==
  ASSUME StoresWhole, rt' = [i \in Ids |-> rt'[i]], loop' = [i \in Ids |-> loop'[i]],
         \A i \in Ids : rt'[i] = rt[i] \/ (rt[i] # None /\ Profile(rt'[i]) /\ rt'[i].name = rt[i].name),
         granted' \subseteq granted,
         UNCHANGED <<late, renamed, own, disk, group, job, made, acted, started, from>>
  PROVE  Aside
  <1>1. NamesApart'  BY DEF StoresWhole, NamesApart, Exists
  <1>2. StoresWhole'  BY <1>1 DEF StoresWhole, Whole
  <1> QED  BY <1>2 DEF Aside

\* A request without a caller changes the name of its own Bot, or takes it out.
LEMMA LateAside ==
  ASSUME StoresWhole, NEW r \in late, LateEnds(r)
  PROVE  Aside
  <1>1. /\ r.id \in Ids /\ r.op \in {"rename", "forget"} /\ late' \subseteq late
        /\ UNCHANGED <<own, disk, group, granted, job, made, acted, started, from>>
    BY DEF LateEnds, StoresWhole, owners, outside
  <1>2. loop' = [i \in Ids |-> loop'[i]]
    BY DEF LateEnds, StoresWhole
  <1>3. CASE UNCHANGED <<rt, renamed>>
    <2>1. NamesApart'  BY <1>3 DEF StoresWhole, NamesApart, Exists
    <2>2. StoresWhole'  BY <1>1, <1>2, <1>3, <2>1 DEF StoresWhole, Whole
    <2> QED  BY <1>1, <1>3, <2>2 DEF Aside
  <1>4. CASE /\ Accepts(r.op, r.id, r.arg) /\ rt' = [rt EXCEPT ![r.id] = After(r.op, @, None, r.arg)]
             /\ renamed' = IF r.op = "rename" /\ job # Idle THEN renamed \cup {r.id} ELSE renamed
    <2>1. Exists(r.id) /\ Target(r.id) = r.id
      BY <1>1, <1>4, AcceptedExists DEF Target, Exists
    <2>2. Asks(r.op, r.id)  BY <1>1, <2>1, MadeBefore DEF Asks
    <2>4. /\ NamesApart' /\ rt' = [i \in Ids |-> rt'[i]]
          /\ \A i \in Ids : rt'[i] = None \/ Profile(rt'[i])
          /\ \A i \in Ids \ {r.id} : rt'[i] = rt[i]
      BY <1>1, <1>4, <2>1, <2>2, StillApart
    <2>5. \A i \in Ids : i > made.bots => rt'[i] = None
      BY <1>1, <2>1, <2>4, MadeBefore, Identities DEF StoresWhole
    <2>6. StoresWhole'  BY <1>1, <1>2, <2>4, <2>5 DEF StoresWhole, Whole
    <2>7. r.op = "forget" => rt'[r.id] = None
      BY <1>1, <1>4 DEF After, StoresWhole
    <2> QED  BY <1>1, <1>4, <2>4, <2>6, <2>7 DEF Aside
  <1> QED  BY <1>3, <1>4 DEF LateEnds

LEMMA AsideSteps ==
  ASSUME Typed,
         \/ PollStep \/ Joins \/ UNCHANGED vars \/ \E id \in Ids : Tick(id) \/ Disconnects(id)
         \/ \E p \in Players : Revoke(p)
         \/ \E by \in Senders : OpenMenu(by)
         \/ \E r \in late : LateEnds(r)
  PROVE  Aside
  <1> DEFINE names == \A i \in Ids : rt'[i] = rt[i] \/ (rt[i] # None /\ Profile(rt'[i]) /\ rt'[i].name = rt[i].name)
             rest == UNCHANGED <<late, renamed, own, disk, group, job, made, acted, started, from>>
             plain == /\ rt' = [i \in Ids |-> rt'[i]] /\ loop' = [i \in Ids |-> loop'[i]]
                      /\ names /\ granted' \subseteq granted /\ rest
  <1>a. plain => Aside  BY AsidePlain DEF Typed
  <1> USE DEF Typed, StoresWhole, runtime, owners, outside, mining
  <1>1. Poll => plain  BY DEF Poll
  <1>2. Check => plain  BY DEF Check
  <1>3. StopLoop => plain  BY DEF StopLoop
  <1>4. Renew => plain  BY DEF Renew
  <1>5. Joins => plain  BY DEF Joins
  <1>6. UNCHANGED vars => plain  BY DEF vars
  <1>7. ASSUME NEW id \in Ids, Tick(id) PROVE plain  BY <1>7 DEF Tick
  <1>8. ASSUME NEW id \in Ids, Disconnects(id) PROVE plain
    <2>1. rt[id] # None /\ Profile(rt[id])  BY <1>8 DEF Disconnects, Online, Exists
    <2>2. rt' = [rt EXCEPT ![id] = [rt[id] EXCEPT !.active = FALSE]]  BY <1>8 DEF Disconnects
    <2>3. ASSUME NEW p, p = [rt[id] EXCEPT !.active = FALSE] PROVE Profile(p) /\ p.name = rt[id].name
      BY <2>1, <2>3 DEF Profile
    <2>4. names /\ rt' = [i \in Ids |-> rt'[i]]  BY <2>1, <2>2, <2>3
    <2> QED  BY <1>8, <2>4 DEF Disconnects
  <1>9. ASSUME NEW p \in Players, Revoke(p) PROVE plain  BY <1>9 DEF Revoke
  <1>10. ASSUME NEW by \in Senders, OpenMenu(by) PROVE plain  BY <1>10 DEF OpenMenu
  <1>11. ASSUME NEW r \in late, LateEnds(r) PROVE Aside  BY <1>11, LateAside
  <1> HIDE DEF plain, Typed, StoresWhole
  <1> QED  BY <1>a, <1>1, <1>2, <1>3, <1>4, <1>5, <1>6, <1>7, <1>8, <1>9, <1>10, <1>11 DEF PollStep

-----------------------------------------------------------------------------
(* The steps of a command that has been taken.                             *)
\* Act: the request of a command for one Bot, the one that has the name by then.
\* A command that is pinned to another is refused.
Ran(id) ==
  \E reply \in {"ok", "refused"} \cup Lost, fails \in BOOLEAN :
    /\ Replied(job.by, job.op, id, job.name, job.arg, reply)
    /\ job.id \notin {0, id} => NotApplied
    /\ IF reply = "ok" THEN Ownership(job.by, job.op, id, job.arg, fails) ELSE UNCHANGED owners
    /\ job' = IF reply = "ok" /\ job.op \in Destroys THEN [job EXCEPT !.pc = "loop", !.id = id] ELSE Idle

LEMMA ActRan ==
  ASSUME Typed, Act
  PROVE  /\ job # Idle /\ job.pc = "act" /\ job.members = <<>>
         /\ UNCHANGED <<group, outside, menus, mining, from, renamed>>
         /\ \E id :
              /\ Held(id) /\ NameFree(id, job.name) /\ Ran(id)
              /\ id # 0 => Exists(id) /\ rt[id].name = job.name
  <1>1. job # Idle /\ job.pc = "act" /\ UNCHANGED <<group, outside, menus, mining, from, renamed>>
    BY DEF Act, Idle
  <1>2. PICK id \in {IdOf(job.name)}, reply \in {"ok", "refused"} \cup Lost, fails \in BOOLEAN :
       /\ Answer(job.by, job.op, id, job.name, job.arg, job.id, reply)
       /\ IF reply = "ok" THEN Ownership(job.by, job.op, id, job.arg, fails) ELSE UNCHANGED owners
       /\ job' = IF reply = "ok" /\ job.op \in Destroys
                 THEN [job EXCEPT !.pc = "loop", !.id = id] ELSE Idle
    BY <1>1, Zenon DEF Act
  <1>3. Replied(job.by, job.op, id, job.name, job.arg, reply) /\ (job.id \notin {0, id} => NotApplied)
    BY <1>2 DEF Answer, Replied, Consents, Pinned
  <1>4. Ran(id)  BY <1>2, <1>3, Zenon DEF Ran
  <1>5. Held(id) /\ NameFree(id, job.name) /\ (id # 0 => Exists(id) /\ rt[id].name = job.name)
    BY <1>2, NamedAlone, Named DEF Typed, StoresWhole
  <1> QED  BY <1>1, <1>4, <1>5 DEF Typed, JobWhole

\* Between its requests a command changes neither the stores nor what it reached.
Quietly ==
  /\ job # Idle /\ (job' = Idle \/ (JobWhole' /\ job'.by = job.by /\ job'.op = job.op /\ job'.members = job.members))
  /\ UNCHANGED <<rt, loop, late, acted, started, renamed, own, disk, group, granted, poll, made, from>>

LEMMA RecordLoopQuiet ==
  ASSUME JobWhole, RecordLoop
  PROVE  /\ Quietly /\ job.pc = "loop"
         /\ \/ job' = Idle
            \/ job' # Idle /\ job'.pc = "members" /\ job'.rows = job.rows
         /\ table' = [table EXCEPT ![job.name] =
              IF job.op = "destroy" THEN [bot |-> job.id, lid |-> Len(started), by |-> job.by] ELSE None]
  <1>1. /\ job.pc = "loop" /\ job # Idle
        /\ UNCHANGED <<rt, loop, late, acted, started, renamed, own, disk, group, granted, poll, made, from>>
        /\ table' = [table EXCEPT ![job.name] =
              IF job.op = "destroy" THEN [bot |-> job.id, lid |-> Len(started), by |-> job.by] ELSE None]
        /\ job' = IF job.members = <<>> THEN Idle ELSE [job EXCEPT !.pc = "members"]
    BY DEF RecordLoop, runtime, owners, outside, Idle
  <1>2. CASE job' = Idle  BY <1>1, <1>2 DEF Quietly
  <1>3. CASE job' = [job EXCEPT !.pc = "members"]
    <2>1. /\ JobWhole' /\ job' # Idle /\ job'.pc = "members" /\ job'.rows = job.rows
          /\ job'.by = job.by /\ job'.op = job.op /\ job'.members = job.members
      BY <1>1, <1>3 DEF JobWhole, Idle
    <2> QED  BY <1>1, <2>1 DEF Quietly
  <1> QED  BY <1>1, <1>2, <1>3

LEMMA PrepareQuiet ==
  ASSUME JobWhole, Prepare
  PROVE  /\ Quietly /\ job.pc = "batch" /\ job' # Idle
         /\ \/ /\ job'.pc = "send"
               /\ \A i \in DOMAIN job.members : job'.rows[i] = Barred(job.by, job.op, job.members[i])
            \/ /\ job'.pc = "members" /\ \A i \in DOMAIN job.members : job'.rows[i] = "skipped"
         /\ UNCHANGED table
  <1>1. /\ job.pc = "batch" /\ job # Idle
        /\ UNCHANGED <<rt, loop, late, acted, started, renamed, own, disk, group, granted, poll, made, from, table>>
    BY DEF Prepare, runtime, owners, outside, mining, Idle
  <1>2. DOMAIN job.rows = DOMAIN job.members  BY <1>1 DEF JobWhole
  <1>3. ASSUME NEW pc \in {"send", "members"}, NEW rows, rows = [i \in DOMAIN job.members |-> rows[i]],
               NEW arg, job' = [job EXCEPT !.pc = pc, !.arg = arg, !.rows = rows]
        PROVE  /\ JobWhole' /\ job' # Idle /\ job'.pc = pc /\ job'.rows = rows
               /\ job'.by = job.by /\ job'.op = job.op /\ job'.members = job.members
    BY <1>1, <1>3 DEF JobWhole, Idle
  <1>4. CASE Authorized(job.by)
    <2> DEFINE rows == [i \in DOMAIN job.members |-> Barred(job.by, job.op, job.members[i])]
    <2>1. job' = [job EXCEPT !.pc = "send", !.arg = NamesNow, !.rows = rows]
      BY <1>2, <1>4, Zenon DEF Prepare
    <2>2. rows = [i \in DOMAIN job.members |-> rows[i]] /\ \A i \in DOMAIN job.members : rows[i] = Barred(job.by, job.op, job.members[i])
      OBVIOUS
    <2> HIDE DEF rows
    <2>3. /\ JobWhole' /\ job' # Idle /\ job'.pc = "send" /\ job'.rows = rows
          /\ job'.by = job.by /\ job'.op = job.op /\ job'.members = job.members
      BY <1>3, <2>1, <2>2
    <2>4. Quietly  BY <1>1, <2>3 DEF Quietly
    <2>5. \A i \in DOMAIN job.members : job'.rows[i] = Barred(job.by, job.op, job.members[i])
      BY <2>2, <2>3
    <2> QED  BY <1>1, <2>3, <2>4, <2>5
  <1>5. CASE ~Authorized(job.by)
    <2> DEFINE rows == [i \in DOMAIN job.members |-> "skipped"]
    <2>0. job' = [job EXCEPT !.pc = "members", !.rows = rows]
      BY <1>2, <1>5, Zenon DEF Prepare
    <2>1. job' = [job EXCEPT !.pc = "members", !.arg = job.arg, !.rows = rows]
      BY <1>1, <2>0 DEF JobWhole
    <2>2. rows = [i \in DOMAIN job.members |-> rows[i]] /\ \A i \in DOMAIN job.members : rows[i] = "skipped"
      OBVIOUS
    <2> HIDE DEF rows
    <2>3. /\ JobWhole' /\ job' # Idle /\ job'.pc = "members" /\ job'.rows = rows
          /\ job'.by = job.by /\ job'.op = job.op /\ job'.members = job.members
      BY <1>3, <2>1, <2>2
    <2>4. Quietly  BY <1>1, <2>3 DEF Quietly
    <2> QED  BY <1>1, <2>2, <2>3, <2>4
  <1> QED  BY <1>4, <1>5

LEMMA FinishQuiet ==
  ASSUME JobWhole, Finish
  PROVE  Quietly /\ job' = Idle /\ UNCHANGED table
  BY DEF Finish, Quietly, Idle, runtime, owners, outside, mining

\* Send: the rows a batch leaves, and the members it reached.
Sent ==
  /\ job # Idle /\ job.pc = "send" /\ JobWhole' /\ job' # Idle /\ job'.pc = "members"
  /\ job'.by = job.by /\ job'.op = job.op /\ job'.members = job.members
  /\ \A id \in acted' \ acted : \E i \in DOMAIN job.members : job.members[i] = id /\ job.rows[i] = "none"
  /\ acted \subseteq acted'
  /\ \A i \in DOMAIN job.members :
       \/ job.rows[i] # "none" /\ job'.rows[i] = job.rows[i]
       \/ job.rows[i] = "none" /\ job'.rows[i] \in {"unknown", "unseen"}
       \/ job.rows[i] = "none" /\ job'.rows[i] = "accepted" /\ job.members[i] \in acted'
       \/ /\ job.rows[i] = "none" /\ job'.rows[i] = "refused"
          /\ \A id \in acted' \ acted : \E k \in DOMAIN job.members : job.members[k] = id /\ k # i
  /\ UNCHANGED <<rt, loop, late, started, renamed, own, disk, group, granted, poll, table, made, from>>

LEMMA SendSent ==
  ASSUME JobWhole, Send
  PROVE  Sent
  <1>1. /\ job.pc = "send" /\ job # Idle
        /\ UNCHANGED <<rt, loop, late, started, renamed, own, disk, group, granted, poll, table, made, from>>
    BY DEF Send, owners, outside, mining, Idle
  <1>2. DOMAIN job.rows = DOMAIN job.members  BY <1>1 DEF JobWhole
  <1>3. PICK asked \in {{i \in DOMAIN job.rows : job.rows[i] = "none"}} :
         \E able \in Able(asked), reply \in {"ok"} \cup Lost :
         \E unseen \in Unseen(job.op, able) :
           /\ Faults(reply, FALSE)
           /\ \/ acted' = acted \cup {job.members[i] : i \in able}
              \/ reply \in Lost /\ acted' = acted
           /\ job' = [job EXCEPT !.pc = "members",
                        !.rows = [i \in DOMAIN @ |-> IF i \in asked THEN SentRow(i, reply, able, unseen) ELSE @[i]]]
    BY Zenon DEF Send
  <1>4. PICK able \in Able(asked), reply \in {"ok"} \cup Lost :
         \E unseen \in Unseen(job.op, able) :
           /\ Faults(reply, FALSE)
           /\ \/ acted' = acted \cup {job.members[i] : i \in able}
              \/ reply \in Lost /\ acted' = acted
           /\ job' = [job EXCEPT !.pc = "members",
                        !.rows = [i \in DOMAIN @ |-> IF i \in asked THEN SentRow(i, reply, able, unseen) ELSE @[i]]]
    BY <1>3, Zenon
  <1>5. PICK unseen \in Unseen(job.op, able) :
           /\ \/ acted' = acted \cup {job.members[i] : i \in able}
              \/ reply \in Lost /\ acted' = acted
           /\ job' = [job EXCEPT !.pc = "members",
                        !.rows = [i \in DOMAIN @ |-> IF i \in asked THEN SentRow(i, reply, able, unseen) ELSE @[i]]]
    BY <1>4, Zenon
  <1>6. /\ \A i \in DOMAIN job.members : i \in asked <=> job.rows[i] = "none"
        /\ asked \subseteq DOMAIN job.members /\ able \subseteq asked
    <2>1. able \subseteq asked  BY <1>4 DEF Able
    <2> QED  BY <1>2, <1>3, <2>1
  <1> DEFINE rows == [i \in DOMAIN job.members |->
                        IF i \in asked THEN SentRow(i, reply, able, unseen) ELSE job.rows[i]]
  <1>7. job' = [job EXCEPT !.pc = "members", !.rows = rows]
    BY <1>2, <1>5, Zenon
  <1>8. rows = [i \in DOMAIN job.members |-> rows[i]]
    OBVIOUS
  <1>9. ASSUME NEW i \in DOMAIN job.members
        PROVE  \/ i \notin asked /\ rows[i] = job.rows[i]
               \/ i \in asked /\ rows[i] \in {"unknown", "unseen"}
               \/ i \in able /\ reply \notin Lost /\ rows[i] = "accepted"
               \/ i \in asked /\ i \notin able /\ rows[i] = "refused"
    <2>1. rows[i] = IF i \in asked THEN SentRow(i, reply, able, unseen) ELSE job.rows[i]
      OBVIOUS
    <2> HIDE DEF rows
    <2>2. CASE i \notin asked  BY <2>1, <2>2
    <2>3. CASE i \in asked
      <3>1. \/ SentRow(i, reply, able, unseen) \in {"unknown", "unseen"}
            \/ i \in able /\ reply \notin Lost /\ SentRow(i, reply, able, unseen) = "accepted"
            \/ i \notin able /\ SentRow(i, reply, able, unseen) = "refused"
        BY DEF SentRow, Lost
      <3> QED  BY <2>1, <2>3, <3>1
    <2> QED  BY <2>2, <2>3
  <1> HIDE DEF rows
  <1>10. /\ JobWhole' /\ job' # Idle /\ job'.pc = "members" /\ job'.rows = rows
         /\ job'.by = job.by /\ job'.op = job.op /\ job'.members = job.members
    BY <1>1, <1>7, <1>8 DEF JobWhole, Idle
  <1>11. /\ acted \subseteq acted' /\ \A id \in acted' \ acted : \E k \in able : job.members[k] = id
         /\ reply \notin Lost => \A k \in able : job.members[k] \in acted'
    BY <1>5
  <1> QED  BY <1>1, <1>6, <1>9, <1>10, <1>11 DEF Sent

-----------------------------------------------------------------------------
\* What a Group may become when it is edited from a menu.
EditedAsShown ==
  from' # None /\ group' # group =>
    /\ group # None /\ group.gid = from'.gid /\ group.members = from'.members
    /\ group' # None => \A id \in Range(group'.members) \ Range(group.members) :
                          \E c \in from'.offered : c[2] = id

\* Every step is of one of these kinds.
LEMMA Kinds ==
  ASSUME Typed, [Next]_vars
  PROVE  \/ \E by \in Senders : Begun(by)
         \/ Regrouped /\ EditedAsShown
         \/ Act \/ RecordLoop \/ Member \/ Prepare \/ Send \/ Finish
         \/ Aside /\ (PollStep \/ UNCHANGED <<table, poll>>)
         \/ Restart
  <1>1. CASE UNCHANGED vars
    BY <1>1, AsideSteps DEF vars, mining
  <1>2. CASE \/ PollStep \/ Joins \/ (\E id \in Ids : Tick(id) \/ Disconnects(id))
             \/ (\E r \in late : LateEnds(r)) \/ (\E p \in Players : Revoke(p))
    <2>1. Aside  BY <1>2, AsideSteps
    <2>2. PollStep \/ UNCHANGED <<table, poll>>
      BY <1>2 DEF Joins, Tick, Disconnects, Revoke, LateEnds, mining
    <2> QED  BY <2>1, <2>2
  <1>3. ASSUME NEW by \in Senders, Submit(by)
        PROVE  Begun(by) \/ (Regrouped /\ EditedAsShown) \/ (Aside /\ UNCHANGED <<table, poll>>)
    <2>1. ASSUME NEW op \in Single, NEW name \in Names, NEW arg \in Args(op), Take(by, op, arg, name)
          PROVE  Begun(by)
      BY <2>1, TakeBegins
    <2>2. ASSUME NEW menu \in Menus(by), NEW op \in MenuOps, NEW arg \in Args(op), MemberMenu(by, op, arg, menu)
          PROVE  Begun(by)
      BY <2>2, MenuBegins
    <2>3. ASSUME OpenMenu(by) PROVE Aside /\ UNCHANGED <<table, poll>>
      BY <2>3, AsideSteps DEF OpenMenu, mining
    <2>4. ASSUME GroupCreate(by) PROVE Regrouped /\ EditedAsShown
      BY <2>4, CreateRegroups DEF EditedAsShown
    <2>5. ASSUME NEW menu \in Menus(by), NEW op \in {"add", "remove", "delete"}, NEW name, NEW i,
                 GroupEdit(by, op, menu, name, i)
          PROVE  Regrouped /\ EditedAsShown
      BY <2>5, EditRegroups DEF EditedAsShown
    <2>6. ASSUME NEW op, NEW arg, GroupOwnership(by, op, arg) PROVE Regrouped /\ EditedAsShown
      BY <2>6, OwnerRegroups DEF EditedAsShown
    <2>7. ASSUME NEW menu, NEW op, NEW index, GroupTake(by, op, menu, index) PROVE Begun(by)
      BY <2>7, GroupBegins
    <2> QED  BY <1>3, <2>1, <2>2, <2>3, <2>4, <2>5, <2>6, <2>7 DEF Submit
  <1> QED  BY <1>1, <1>2, <1>3 DEF Next

\* The stores and the worker's command keep their shape.
LEMMA InitTyped == Init => Typed
  <1> SUFFICES ASSUME Init PROVE Typed  OBVIOUS
  <1>1. PICK s \in Scenarios :
    /\ rt = s.rt /\ own = s.own /\ disk = s.own /\ group = s.group /\ made = s.made /\ job = Idle
    /\ loop = [i \in Ids |-> 0] /\ late = {}
    BY DEF Init
  <1>2. /\ s.rt \in [Ids -> [name: Names, active: BOOLEAN] \cup {None}] /\ s.own \in Stores
        /\ \A i, j \in Ids : s.rt[i] # None /\ s.rt[j] # None /\ s.rt[i].name = s.rt[j].name => i = j
        /\ s.group = None \/ (s.group \in Group /\ IsInjective(s.group.members))
        /\ s.made \in [bots: 0..Cardinality(Ids), groups: 0..Cardinality(Gids)]
        /\ \A i \in Ids : i > s.made.bots => s.rt[i] = None /\ s.own.bots[i] = None
    BY StoredStates
  <1>3. Cardinality(Ids) \in Nat /\ Cardinality(Gids) \in Nat
    BY CommandBounds, FS_CardinalityType
  <1>4. made \in [bots: Nat, groups: Nat]  BY <1>1, <1>2, <1>3
  <1>5. Whole(own) /\ Whole(disk)  BY <1>1, <1>2 DEF Whole, Stores
  <1>6. NamesApart /\ \A i \in Ids : rt[i] = None \/ Profile(rt[i])
    BY <1>1, <1>2 DEF NamesApart, Exists, Profile
  <1>7. StoresWhole  BY <1>1, <1>2, <1>4, <1>5, <1>6 DEF StoresWhole
  <1> QED  BY <1>1, <1>7 DEF Typed, JobWhole

LEMMA NextTyped ==
  ASSUME Typed, [Next]_vars
  PROVE  Typed'
  <1>0. StoresWhole /\ JobWhole  BY DEF Typed
  <1>1. ASSUME NEW by \in Senders, Begun(by) PROVE Typed'
    BY <1>0, <1>1, StoresKept DEF Begun, Typed
  <1>2. CASE Regrouped
    <2>1. JobWhole'  BY <1>2 DEF Regrouped, Typed, JobWhole, Idle
    <2> QED  BY <1>2, <2>1 DEF Regrouped, Typed
  <1>3. CASE Act
    <2>1. job # Idle /\ job.pc = "act" /\ job.members = <<>> /\ UNCHANGED group
      BY <1>3, ActRan
    <2>2. PICK id : Held(id) /\ NameFree(id, job.name) /\ Ran(id)
      BY <1>3, ActRan
    <2>3. StoresWhole'
      BY <1>0, <2>1, <2>2, Requested DEF Ran
    <2>4. CASE job' = Idle  BY <2>3, <2>4 DEF Typed, JobWhole
    <2>5. CASE job' = [job EXCEPT !.pc = "loop", !.id = id]
      <3>1. JobWhole'  BY <2>1, <2>5 DEF Typed, JobWhole, Idle
      <3> QED  BY <2>3, <3>1 DEF Typed
    <2> QED  BY <2>2, <2>4, <2>5 DEF Ran
  <1>4. CASE RecordLoop \/ Prepare \/ Finish
    <2>1. Quietly  BY <1>0, <1>4, RecordLoopQuiet, PrepareQuiet, FinishQuiet
    <2>2. JobWhole'  BY <2>1 DEF Quietly, JobWhole
    <2>3. StoresWhole'  BY <1>0, <2>1, StoresKept DEF Quietly
    <2> QED  BY <2>2, <2>3 DEF Typed
  <1>5. CASE Member
    <2>1. PICK i \in DOMAIN job.members : job.members[i] \in Ids /\ (Unasked(i) \/ Asked(i))
      BY <1>5, MemberCases DEF Typed
    <2>2. job.pc = "members" /\ job # Idle /\ UNCHANGED group
      BY <1>5, MemberCases DEF Typed
    <2>3. CASE Unasked(i)
      <3>1. JobWhole'  BY <2>2, <2>3, UnaskedRow DEF Typed
      <3>2. StoresWhole'
        BY <1>0, <2>2, <2>3, StoresKept DEF Unasked, NotApplied, owners
      <3> QED  BY <3>1, <3>2 DEF Typed
    <2>4. CASE Asked(i)
      <3>1. JobWhole'  BY <2>2, <2>4, AskedRow DEF Typed
      <3>2. StoresWhole'
        BY <1>0, <2>1, <2>2, <2>4, AskedStores
      <3> QED  BY <3>1, <3>2 DEF Typed
    <2> QED  BY <2>1, <2>3, <2>4
  <1>6. CASE Send
    BY <1>0, <1>6, SendSent, StoresKept DEF Sent, Typed
  <1>7. CASE Aside
    <2>1. JobWhole'  BY <1>7 DEF Aside, Typed, JobWhole
    <2> QED  BY <1>7, <2>1 DEF Aside, Typed
  <1>8. CASE Restart
    <2>1. own' = disk /\ job' = Idle /\ UNCHANGED <<rt, loop, late, disk, group, made>>
      BY <1>8 DEF Restart, runtime
    <2>2. NamesApart'  BY <1>0, <2>1 DEF StoresWhole, NamesApart, Exists
    <2> QED  BY <1>0, <2>1, <2>2 DEF Typed, StoresWhole, Whole, JobWhole
  <1> QED  BY <1>1, <1>2, <1>3, <1>4, <1>5, <1>6, <1>7, <1>8, Kinds

-----------------------------------------------------------------------------
(* A command reaches only Bots its sender may use.                         *)
\* Someone who was let through to a Bot still is when the request is sent.
LEMMA AllowedKept ==
  ASSUME Typed, JobAllowed, [Next]_vars
  PROVE  JobAllowed'
  <1>1. ASSUME NEW by \in Senders, Begun(by) PROVE JobAllowed'
    BY <1>1 DEF Begun, ForBot, ForMembers, JobAllowed, Visible, Exists
  <1>2. CASE Regrouped
    BY <1>2 DEF Regrouped, JobAllowed
  <1>3. CASE Act
    <2>1. job # Idle /\ (job' = Idle \/ \E id : job' = [job EXCEPT !.pc = "loop", !.id = id])
      BY <1>3, ActRan DEF Ran
    <2>2. CASE job' = Idle  BY <2>2 DEF Idle, JobAllowed
    <2>3. ASSUME NEW id, job' = [job EXCEPT !.pc = "loop", !.id = id] PROVE JobAllowed'
      <3>1. job'.pc = "loop"  BY <2>1, <2>3 DEF Typed, JobWhole
      <3> QED  BY <3>1 DEF JobAllowed
    <2> QED  BY <2>1, <2>2, <2>3
  <1>4. CASE RecordLoop \/ Finish
    <2>1. job'.pc \in {"idle", "members"}
      BY <1>4, RecordLoopQuiet, FinishQuiet DEF Typed, Idle
    <2> QED  BY <2>1 DEF JobAllowed
  <1>5. CASE Prepare
    <2>1. /\ Quietly /\ job' # Idle
          /\ \/ /\ job'.pc = "send"
                /\ \A i \in DOMAIN job.members : job'.rows[i] = Barred(job.by, job.op, job.members[i])
             \/ job'.pc = "members"
      BY <1>5, PrepareQuiet DEF Typed
    <2>2. /\ job'.by = job.by /\ job'.members = job.members /\ own' = own
          /\ \A i \in DOMAIN job.members : job.members[i] \in Ids
      BY <2>1 DEF Quietly, Typed, JobWhole
    <2>3. ASSUME NEW i \in DOMAIN job.members, Barred(job.by, job.op, job.members[i]) = "none"
          PROVE  Visible(job.by, own.bots[job.members[i]])
      BY <2>2, <2>3, Identities DEF Barred, OwnerCheck
    <2> QED  BY <2>1, <2>2, <2>3 DEF JobAllowed, Visible
  <1>6. CASE Member
    <2>1. PICK i \in DOMAIN job.members : Unasked(i) \/ Asked(i)
      BY <1>6, MemberCases DEF Typed
    <2>2. job'.pc \in {"members", "loop"}
      BY <1>6, <2>1, MemberCases, UnaskedRow, AskedRow DEF Typed
    <2> QED  BY <2>2 DEF JobAllowed
  <1>7. CASE Send
    BY <1>7, SendSent DEF Sent, Typed, JobAllowed
  <1>8. CASE Aside
    <2>1. own' = own /\ job' = job /\ renamed \subseteq renamed'
      BY <1>8 DEF Aside
    <2>2. ASSUME NEW i \in Ids, job.pc = "act", Exists(i)', rt'[i].name = job.name
          PROVE  Visible(job.by, own.bots[i]) \/ i \in renamed'
      <3>1. i \in renamed' \/ (Exists(i) /\ rt'[i].name = rt[i].name)
        BY <1>8, <2>2 DEF Aside, Exists, Idle
      <3> QED  BY <2>1, <2>2, <3>1 DEF JobAllowed
    <2> QED  BY <2>1, <2>2 DEF JobAllowed, Visible
  <1>9. CASE Restart
    BY <1>9 DEF Restart, JobAllowed, Idle
  <1> QED  BY <1>1, <1>2, <1>3, <1>4, <1>5, <1>6, <1>7, <1>8, <1>9, Kinds

LEMMA ReachesAllowed ==
  ASSUME Typed, JobAllowed, [Next]_vars
  PROVE  \A id \in acted' \ acted : Visible(job.by, own.bots[id]) \/ id \in renamed
  <1>1. ASSUME NEW by \in Senders, Begun(by) PROVE acted' = {}
    BY <1>1 DEF Begun
  <1>2. CASE Regrouped \/ RecordLoop \/ Prepare \/ Finish \/ Aside
    BY <1>2, RecordLoopQuiet, PrepareQuiet, FinishQuiet DEF Regrouped, Quietly, Aside, Typed
  <1>3. CASE Act
    <2>1. job # Idle /\ job.pc = "act" /\ UNCHANGED group
      BY <1>3, ActRan
    <2>2. PICK id : /\ Held(id) /\ NameFree(id, job.name) /\ Ran(id)
                    /\ id # 0 => Exists(id) /\ rt[id].name = job.name
      BY <1>3, ActRan
    <2>3. acted' = acted \/ (Target(id) \in Ids /\ acted' = acted \cup {Target(id)})
      BY <2>1, <2>2, Requested DEF Ran, Typed
    <2>4. Target(id) \in Ids => Visible(job.by, own.bots[Target(id)]) \/ Target(id) \in renamed
      <3>1. CASE id = 0
        BY <3>1 DEF Target, Typed, StoresWhole, Visible
      <3>2. CASE id # 0
        BY <3>2, <2>1, <2>2 DEF Target, JobAllowed
      <3> QED  BY <3>1, <3>2
    <2> QED  BY <2>3, <2>4
  <1>4. CASE Member
    <2>1. PICK i \in DOMAIN job.members : job.members[i] \in Ids /\ (Unasked(i) \/ Asked(i))
      BY <1>4, MemberCases DEF Typed
    <2>2. job.pc = "members" /\ job # Idle /\ UNCHANGED group
      BY <1>4, MemberCases DEF Typed
    <2>3. CASE Unasked(i)  BY <2>3 DEF Unasked, NotApplied
    <2>4. CASE Asked(i)
      <3>1. acted' = acted \/ acted' = acted \cup {job.members[i]}
        BY <2>1, <2>2, <2>4, AskedStores DEF Typed
      <3> QED  BY <3>1, <2>4 DEF Asked
    <2> QED  BY <2>1, <2>3, <2>4
  <1>5. CASE Send
    BY <1>5, SendSent DEF Sent, Typed, JobAllowed
  <1>6. CASE Restart
    BY <1>6 DEF Restart, runtime
  <1> QED  BY <1>1, <1>2, <1>3, <1>4, <1>5, <1>6, Kinds

\* The stores and the worker's command keep their shape.  (What the theorems
\* below start from: an identity that was never used has no owner, and a Group
\* operation has one row for each of its distinct members.)
THEOREM CommandsTyped == Spec => []Typed
  <1>1. Init => Typed  BY InitTyped
  <1>2. Typed /\ [Next]_vars => Typed'  BY NextTyped
  <1> QED  BY <1>1, <1>2, PTL DEF Spec

\* No command is applied to a Bot that is private to someone else, by name, from
\* a menu or as a Group's member (owner_check), unless a rename whose caller had
\* given up on it gave the Bot the command's name after the check.
THEOREM CommandsKeepPrivate == Spec => PrivateKept
  <1> DEFINE Inv == Typed /\ JobAllowed
             Step == \A id \in acted' \ acted : Visible(job.by, own.bots[id]) \/ id \in renamed
  <1>1. Init => Inv
    BY InitTyped DEF Init, JobAllowed, Idle
  <1>2. Inv /\ [Next]_vars => Inv'
    BY NextTyped, AllowedKept
  <1>3. Inv /\ [Next]_vars => Step
    BY ReachesAllowed
  <1>4. Spec => []Inv
    <2> HIDE DEF Inv, Step
    <2> QED  BY <1>1, <1>2, PTL DEF Spec
  <1>5. Inv /\ [Next]_vars => [Step]_vars  BY <1>3
  <1> HIDE DEF Inv, Step
  <1>6. Spec => [][Step]_vars
    BY <1>4, <1>5, PTL DEF Spec
  <1> QED  BY <1>6 DEF Step, PrivateKept

-----------------------------------------------------------------------------
(* What is submitted from a menu stays with what the menu showed.          *)
LEMMA ShownKept ==
  ASSUME Typed, JobShown, [Next]_vars
  PROVE  JobShown'
  <1>1. ASSUME NEW by \in Senders, Begun(by) PROVE JobShown'
    <2>1. CASE ForBot(by)
      <3>1. job'.members = <<>> /\ DOMAIN <<>> = {}  BY <2>1 DEF ForBot
      <3> QED  BY <2>1, <3>1 DEF ForBot, JobShown
    <2>2. CASE ForMembers(by)  BY <2>2 DEF ForMembers, JobShown
    <2> QED  BY <1>1, <2>1, <2>2 DEF Begun
  <1>2. CASE Regrouped
    <2>1. job' = Idle  BY <1>2 DEF Regrouped, Typed, JobWhole
    <2> QED  BY <2>1 DEF JobShown, Idle
  <1>3. CASE Act
    <2>1. /\ job # Idle /\ UNCHANGED from
          /\ job' = Idle \/ \E id : job' = [job EXCEPT !.pc = "loop", !.id = id]
      BY <1>3, ActRan DEF Ran
    <2>2. CASE job' = Idle  BY <2>2 DEF JobShown, Idle
    <2>3. ASSUME NEW id, job' = [job EXCEPT !.pc = "loop", !.id = id] PROVE JobShown'
      <3>1. job'.members = job.members /\ job'.pc = "loop"
        BY <2>1, <2>3 DEF Typed, JobWhole
      <3> QED  BY <2>1, <3>1 DEF JobShown
    <2> QED  BY <2>1, <2>2, <2>3
  <1>4. CASE RecordLoop \/ Prepare \/ Finish
    <2>1. Quietly /\ (job' = Idle \/ job'.pc \in {"members", "send"})
      BY <1>4, RecordLoopQuiet, PrepareQuiet, FinishQuiet DEF Typed
    <2> QED  BY <2>1 DEF Quietly, JobShown
  <1>5. CASE Member
    <2>1. PICK i \in DOMAIN job.members : Unasked(i) \/ Asked(i)
      BY <1>5, MemberCases DEF Typed
    <2>2. job.pc = "members" /\ job # Idle /\ UNCHANGED from
      BY <1>5, MemberCases DEF Typed
    <2>3. job'.pc \in {"members", "loop"} /\ job'.members = job.members
      BY <2>1, <2>2, UnaskedRow, AskedRow DEF Typed
    <2> QED  BY <2>2, <2>3 DEF JobShown
  <1>6. CASE Send
    BY <1>6, SendSent DEF Sent, Typed, JobShown
  <1>7. CASE Aside
    BY <1>7 DEF Aside, JobShown
  <1>8. CASE Restart
    BY <1>8 DEF Restart, JobShown
  <1> QED  BY <1>1, <1>2, <1>3, <1>4, <1>5, <1>6, <1>7, <1>8, Kinds

\* Whatever a step applies the command to was shown.
LEMMA ReachesShown ==
  ASSUME Typed, JobShown, [Next]_vars, from # None
  PROVE  acted' \ acted \subseteq (IF from.bot = 0 THEN Range(from.members) ELSE {from.bot})
  <1>1. ASSUME NEW by \in Senders, Begun(by) PROVE acted' = {}
    BY <1>1 DEF Begun
  <1>2. CASE Regrouped \/ RecordLoop \/ Prepare \/ Finish \/ Aside
    BY <1>2, RecordLoopQuiet, PrepareQuiet, FinishQuiet DEF Regrouped, Quietly, Aside, Typed
  <1>3. CASE Act
    <2>1. job # Idle /\ job.pc = "act" /\ UNCHANGED group
      BY <1>3, ActRan
    <2>2. PICK id : Held(id) /\ NameFree(id, job.name) /\ Ran(id)
      BY <1>3, ActRan
    <2>3. acted' = acted \/ acted' = acted \cup {Target(id)}
      BY <2>1, <2>2, Requested DEF Ran, Typed
    <2>4. from.bot # 0 /\ job.id = from.bot
      BY <2>1 DEF JobShown
    <2>5. id # from.bot => acted' = acted
      BY <2>2, <2>4 DEF Ran, NotApplied
    <2> QED  BY <2>3, <2>4, <2>5 DEF Target
  <1>4. CASE Member
    <2>1. PICK i \in DOMAIN job.members : job.members[i] \in Ids /\ (Unasked(i) \/ Asked(i))
      BY <1>4, MemberCases DEF Typed
    <2>2. job.pc = "members" /\ job # Idle /\ UNCHANGED group
      BY <1>4, MemberCases DEF Typed
    <2>3. CASE Unasked(i)  BY <2>3 DEF Unasked, NotApplied
    <2>4. CASE Asked(i)
      <3>1. acted' = acted \/ acted' = acted \cup {job.members[i]}
        BY <2>1, <2>2, <2>4, AskedStores DEF Typed
      <3> QED  BY <3>1, <2>2 DEF JobShown
    <2> QED  BY <2>1, <2>3, <2>4
  <1>5. CASE Send
    BY <1>5, SendSent DEF Sent, Typed, JobShown
  <1>6. CASE Restart
    BY <1>6 DEF Restart, runtime
  <1> QED  BY <1>1, <1>2, <1>3, <1>4, <1>5, <1>6, Kinds

\* Only an edit changes the Group.
LEMMA EditsShown ==
  ASSUME Typed, [Next]_vars
  PROVE  EditedAsShown
  <1>1. ASSUME NEW by \in Senders, Begun(by) PROVE UNCHANGED group
    BY <1>1 DEF Begun
  <1>2. CASE RecordLoop \/ Prepare \/ Finish \/ Aside
    <2>1. UNCHANGED group
      BY <1>2, RecordLoopQuiet, PrepareQuiet, FinishQuiet DEF Quietly, Aside, Typed
    <2> QED  BY <2>1 DEF EditedAsShown
  <1>3. CASE Act \/ Member \/ Send \/ Restart
    <2>1. UNCHANGED group
      BY <1>3, ActRan, MemberCases, SendSent DEF Sent, Restart, Typed
    <2> QED  BY <2>1 DEF EditedAsShown
  <1> QED  BY <1>1, <1>2, <1>3, Kinds DEF EditedAsShown

\* What is submitted from a Group's menu is applied to the Bots the menu showed,
\* and edits the Group and the members it showed, or is refused: whatever was
\* renamed, recreated or edited since (_form_group, _MemberControl).
THEOREM MenusActOnShown == Spec => ActsOnShown
  <1> DEFINE Inv == Typed /\ JobShown
             Step == /\ from # None =>
                          acted' \ acted \subseteq (IF from.bot = 0 THEN Range(from.members) ELSE {from.bot})
                     /\ from' # None /\ group' # group =>
                          /\ group # None /\ group.gid = from'.gid /\ group.members = from'.members
                          /\ group' # None => \A id \in Range(group'.members) \ Range(group.members) :
                                                \E c \in from'.offered : c[2] = id
  <1>1. Init => Inv
    BY InitTyped DEF Init, JobShown
  <1>2. Inv /\ [Next]_vars => Inv'
    BY NextTyped, ShownKept
  <1>3. Inv /\ [Next]_vars => Step
    BY ReachesShown, EditsShown DEF EditedAsShown
  <1>4. Spec => []Inv
    <2> HIDE DEF Inv, Step
    <2> QED  BY <1>1, <1>2, PTL DEF Spec
  <1>5. Inv /\ [Next]_vars => [Step]_vars  BY <1>3
  <1> HIDE DEF Inv, Step
  <1>6. Spec => [][Step]_vars
    BY <1>4, <1>5, PTL DEF Spec
  <1> QED  BY <1>6 DEF Step, ActsOnShown

-----------------------------------------------------------------------------
(* A Group operation's rows are true.                                      *)
\* One more row is written for the first member without one.
LEMMA RowsKept ==
  ASSUME JobWhole, job # Idle, RowsSoFar, job.pc = "members",
         NEW i \in DOMAIN job.members, job.rows[i] = "none", \A k \in 1..i - 1 : job.rows[k] # "none",
         NEW row, row # "none", job'.rows = Rows(i, row), job'.members = job.members,
         job'.pc \in {"members", "loop"},
         acted' = acted \/ acted' = acted \cup {job.members[i]},
         row = "accepted" => job.members[i] \in acted',
         row \in {"missing", "refused", "skipped"} => acted' = acted
  PROVE  RowsSoFar'
  <1>1. /\ DOMAIN job.members = 1..Len(job.members) /\ Len(job.members) \in Nat
        /\ IsInjective(job.members)
    BY DEF JobWhole
  <1>2. \A k \in DOMAIN job.members : job.members[k] = job.members[i] => k = i
    BY <1>1 DEF IsInjective
  <1>3. ASSUME NEW k \in DOMAIN job.members
        PROVE  /\ k = i => job'.rows[k] = row
               /\ k # i /\ k < i => job'.rows[k] = job.rows[k]
               /\ k > i => \/ row # "accepted" /\ ~Authorized(job.by) /\ job'.rows[k] = "skipped"
                           \/ ~(row # "accepted" /\ ~Authorized(job.by)) /\ job'.rows[k] = job.rows[k]
    BY <1>1 DEF Rows
  <1>4. \A k \in DOMAIN job.members :
          /\ job.rows[k] = "accepted" => job.members[k] \in acted
          /\ job.rows[k] \in {"missing", "refused", "skipped", "none"} => job.members[k] \notin acted
          /\ job.rows[k] = "none" => \A l \in DOMAIN job.members : l > k => job.rows[l] = "none"
    BY DEF RowsSoFar
  <1>5. ASSUME NEW k \in DOMAIN job.members
        PROVE  /\ job'.rows[k] = "accepted" => job.members[k] \in acted'
               /\ job'.rows[k] \in {"missing", "refused", "skipped", "none"} => job.members[k] \notin acted'
               /\ job'.rows[k] = "none" => \A l \in DOMAIN job.members : l > k => job'.rows[l] = "none"
    <2>1. CASE k = i
      BY <1>3, <1>4, <2>1
    <2>2. CASE k < i
      <3>1. job'.rows[k] = job.rows[k] /\ job.rows[k] # "none"  BY <1>1, <1>3, <2>2
      <3> QED  BY <1>2, <1>4, <2>2, <3>1
    <2>3. CASE k > i
      <3>1. job.rows[k] = "none" /\ \A l \in DOMAIN job.members : l > k => job.rows[l] = "none"
        BY <1>4, <2>3
      <3>2. \A l \in DOMAIN job.members : l > k => l > i  BY <1>1, <2>3
      <3> QED  BY <1>2, <1>3, <1>4, <2>3, <3>1, <3>2
    <2> QED  BY <1>1, <2>1, <2>2, <2>3
  <1> QED  BY <1>5 DEF RowsSoFar

LEMMA SoFarKept ==
  ASSUME Typed, RowsSoFar, [Next]_vars
  PROVE  RowsSoFar'
  <1>1. ASSUME NEW by \in Senders, Begun(by) PROVE RowsSoFar'
    BY <1>1 DEF Begun, ForBot, ForMembers, RowsSoFar
  <1>2. CASE Regrouped
    BY <1>2 DEF Regrouped, RowsSoFar
  <1>3. CASE Act
    <2>1. /\ job # Idle /\ job.members = <<>>
          /\ job' = Idle \/ \E id : job' = [job EXCEPT !.pc = "loop", !.id = id]
      BY <1>3, ActRan DEF Ran
    <2>2. CASE job' = Idle  BY <2>2 DEF RowsSoFar, Idle
    <2>3. ASSUME NEW id, job' = [job EXCEPT !.pc = "loop", !.id = id] PROVE RowsSoFar'
      <3>1. job'.pc = "loop" /\ job'.members = <<>>  BY <2>1, <2>3 DEF Typed, JobWhole
      <3>2. DOMAIN <<>> = {}  OBVIOUS
      <3> QED  BY <3>1, <3>2 DEF RowsSoFar
    <2> QED  BY <2>1, <2>2, <2>3
  <1>4. CASE RecordLoop
    <2>1. Quietly /\ job.pc = "loop" /\ (job' = Idle \/ (job' # Idle /\ job'.pc = "members" /\ job'.rows = job.rows))
      BY <1>4, RecordLoopQuiet DEF Typed
    <2>2. CASE job' = Idle  BY <2>2 DEF RowsSoFar, Idle
    <2>3. CASE job' # Idle
      <3>1. job'.members = job.members /\ acted' = acted /\ job'.rows = job.rows /\ job'.pc = "members"
        BY <2>1, <2>3 DEF Quietly
      <3> QED  BY <2>1, <3>1 DEF RowsSoFar
    <2> QED  BY <2>2, <2>3
  <1>5. CASE Prepare
    <2>1. /\ Quietly /\ job.pc = "batch" /\ job' # Idle
          /\ \/ /\ job'.pc = "send"
                /\ \A i \in DOMAIN job.members : job'.rows[i] = Barred(job.by, job.op, job.members[i])
             \/ /\ job'.pc = "members" /\ \A i \in DOMAIN job.members : job'.rows[i] = "skipped"
      BY <1>5, PrepareQuiet DEF Typed
    <2>2. acted = {} /\ acted' = {} /\ job'.members = job.members
      BY <2>1 DEF Quietly, RowsSoFar
    <2>3. \A i \in DOMAIN job.members : Barred(job.by, job.op, job.members[i]) \in {"missing", "refused", "none"}
      BY DEF Barred
    <2> QED  BY <2>1, <2>2, <2>3 DEF RowsSoFar
  <1>6. CASE Finish
    BY <1>6, FinishQuiet DEF Typed, RowsSoFar, Idle
  <1>7. CASE Member
    <2>1. job.pc = "members" /\ job # Idle /\ UNCHANGED group
      BY <1>7, MemberCases DEF Typed
    <2>2. PICK i \in DOMAIN job.members :
              /\ job.rows[i] = "none" /\ \A k \in 1..i - 1 : job.rows[k] # "none"
              /\ job.members[i] \in Ids
              /\ Unasked(i) \/ Asked(i)
      BY <1>7, MemberCases DEF Typed
    <2>3. CASE Unasked(i)
      <3>1. acted' = acted  BY <2>3 DEF Unasked, NotApplied
      <3>2. job'.pc = "members" /\ job'.members = job.members
            /\ \E row \in {"missing", "refused", "skipped"} : job'.rows = Rows(i, row)
        BY <2>1, <2>3, UnaskedRow DEF Typed
      <3> QED  BY <2>1, <2>2, <3>1, <3>2, RowsKept DEF Typed
    <2>4. CASE Asked(i)
      <3>1. acted' = acted \/ acted' = acted \cup {job.members[i]}
        BY <2>1, <2>2, <2>4, AskedStores DEF Typed
      <3>2. /\ job'.pc \in {"members", "loop"} /\ job'.members = job.members
            /\ \E row \in {"accepted", "unknown", "refused", "protocol"} :
                 /\ job'.rows = Rows(i, row)
                 /\ row = "accepted" => job.members[i] \in acted'
                 /\ row = "refused" => acted' = acted
        BY <2>1, <2>4, AskedRow DEF Typed
      <3>3. PICK row \in {"accepted", "unknown", "refused", "protocol"} :
                 /\ job'.rows = Rows(i, row)
                 /\ row = "accepted" => job.members[i] \in acted'
                 /\ row = "refused" => acted' = acted
        BY <3>2
      <3> QED  BY <2>1, <2>2, <3>1, <3>2, <3>3, RowsKept DEF Typed
    <2> QED  BY <2>2, <2>3, <2>4
  <1>8. CASE Send
    <2>1. Sent /\ job # Idle /\ job.pc = "send"  BY <1>8, SendSent DEF Typed, Sent
    <2>2. /\ acted = {} /\ job'.members = job.members /\ job'.pc = "members"
          /\ \A i \in DOMAIN job.members : job.rows[i] \in {"missing", "refused", "none"}
      BY <2>1 DEF RowsSoFar, Sent
    <2>3. \A i, k \in DOMAIN job.members : job.members[i] = job.members[k] => i = k
      BY <2>1 DEF Typed, JobWhole, IsInjective
    <2>4. \A id \in acted' : \E k \in DOMAIN job.members : job.members[k] = id /\ job.rows[k] = "none"
      BY <2>1, <2>2 DEF Sent
    <2>5. ASSUME NEW i \in DOMAIN job.members
          PROVE  /\ job'.rows[i] # "none"
                 /\ job'.rows[i] = "accepted" => job.members[i] \in acted'
                 /\ job'.rows[i] \in {"missing", "refused", "skipped"} => job.members[i] \notin acted'
      <3>1. CASE job.rows[i] # "none" /\ job'.rows[i] = job.rows[i]
        BY <2>2, <2>3, <2>4, <3>1
      <3>2. CASE job'.rows[i] \in {"unknown", "unseen"}
        BY <3>2
      <3>3. CASE job'.rows[i] = "accepted" /\ job.members[i] \in acted'
        BY <3>3
      <3>4. CASE /\ job'.rows[i] = "refused"
                 /\ \A id \in acted' \ acted : \E k \in DOMAIN job.members : job.members[k] = id /\ k # i
        BY <2>2, <2>3, <3>4
      <3> QED  BY <2>1, <3>1, <3>2, <3>3, <3>4 DEF Sent
    <2> QED  BY <2>2, <2>5 DEF RowsSoFar
  <1>9. CASE Aside
    BY <1>9 DEF Aside, RowsSoFar
  <1>10. CASE Restart
    BY <1>10 DEF Restart, RowsSoFar, Idle
  <1> QED  BY <1>1, <1>2, <1>3, <1>4, <1>5, <1>6, <1>7, <1>8, <1>9, <1>10, Kinds

\* A Group operation answers for every member, and truly: an accepted row's
\* request ran, and a refused, missing or skipped one's did not; only an unknown
\* outcome leaves it open (GroupCommandService.execute, _execute_inputs).
THEOREM GroupRowsTrue == Spec => []RowsTrue
  <1> DEFINE Inv == Typed /\ RowsSoFar
  <1>1. Init => Inv
    BY InitTyped DEF Init, RowsSoFar, Idle
  <1>2. Inv /\ [Next]_vars => Inv'
    BY NextTyped, SoFarKept
  <1>3. Inv => RowsTrue
    BY DEF Typed, JobWhole, RowsSoFar, RowsTrue, Idle
  <1> QED
    <2> HIDE DEF Inv
    <2> QED  BY <1>1, <1>2, <1>3, PTL DEF Spec

-----------------------------------------------------------------------------
(* A revocation ends no loop but one of the player who lost control.       *)
\* The loops begun so far are only added to, and control is only lost.
Onward ==
  /\ granted' \subseteq granted
  /\ \/ started' = started
     \/ \E id \in Ids : started' = Append(started, [by |-> job.by, bot |-> id]) /\ job.by \in Senders

LEMMA KnownOnward ==
  ASSUME started \in Seq([by: Senders, bot: Ids]), Onward
  PROVE  /\ started' \in Seq([by: Senders, bot: Ids])
         /\ \A e : Known(e) => e.lid \in 1..Len(started') /\ started'[e.lid].by = e.by
         /\ \A by : ~Authorized(by) => ~(by \in granted' \cup {Console})
  <1>1. \A by : ~Authorized(by) => ~(by \in granted' \cup {Console})
    BY DEF Onward, Authorized
  <1>2. CASE started' = started
    BY <1>1, <1>2 DEF Known
  <1>3. ASSUME NEW id \in Ids, job.by \in Senders, started' = Append(started, [by |-> job.by, bot |-> id])
        PROVE  /\ started' \in Seq([by: Senders, bot: Ids])
               /\ \A e : Known(e) => e.lid \in 1..Len(started') /\ started'[e.lid].by = e.by
    <2>1. [by |-> job.by, bot |-> id] \in [by: Senders, bot: Ids]
      BY <1>3
    <2>2. /\ started' \in Seq([by: Senders, bot: Ids]) /\ Len(started') = Len(started) + 1
          /\ \A k \in 1..Len(started) : started'[k] = started[k]
      BY <1>3, <2>1
    <2> QED  BY <2>2 DEF Known
  <1> QED  BY <1>1, <1>2, <1>3 DEF Onward

\* What the table and the poll hold stays true of the loops begun since.
LEMMA HeldOnward ==
  ASSUME started \in Seq([by: Senders, bot: Ids]), Onward, TableKnown(table'), PollKnown(poll')
  PROVE  started' \in Seq([by: Senders, bot: Ids]) /\ TableKnown(table)' /\ PollKnown(poll)'
  <1>1. started' \in Seq([by: Senders, bot: Ids])
    BY KnownOnward
  <1>2. TableKnown(table)'
    BY KnownOnward DEF TableKnown, Known
  <1>3. PollKnown(poll)'
    BY KnownOnward DEF PollKnown, Known, Authorized
  <1> QED  BY <1>1, <1>2, <1>3

\* A request leaves the loops begun so far, or adds the one it begins.
LEMMA RequestOnward ==
  ASSUME Typed, LoopsKnown, job # Idle, NEW op, NEW id, NEW name, NEW arg, NEW reply, Held(id),
         Replied(job.by, op, id, name, arg, reply), granted' = granted
  PROVE  /\ Onward
         /\ reply = "ok" /\ op = "destroy" => Len(started') > 0 /\ started'[Len(started')].by = job.by
  <1>1. job.by \in Senders /\ started \in Seq([by: Senders, bot: Ids])
    BY DEF Typed, JobWhole, LoopsKnown
  <1>2. CASE started' = started /\ ~(reply = "ok" /\ op = "destroy")
    BY <1>2 DEF Onward
  <1>3. CASE Accepts(op, id, arg) /\ Apply(job.by, op, id, name, arg)
    <2>1. CASE op # "destroy"
      <3>1. started' = started  BY <1>3, <2>1 DEF Apply
      <3> QED  BY <2>1, <3>1 DEF Onward
    <2>2. CASE op = "destroy"
      <3>1. id # 0 /\ id \in Ids
        BY <1>3, <2>2, AcceptedExists DEF Held, Exists
      <3>2. started' = Append(started, [by |-> job.by, bot |-> id])
        BY <1>3, <2>2, <3>1 DEF Apply
      <3>3. [by |-> job.by, bot |-> id] \in [by: Senders, bot: Ids]  BY <1>1, <3>1
      <3>4. Len(started') = Len(started) + 1 /\ started'[Len(started) + 1] = [by |-> job.by, bot |-> id] /\ Len(started) \in Nat
        BY <1>1, <3>2, <3>3
      <3> QED  BY <1>1, <3>1, <3>2, <3>4 DEF Onward
    <2> QED  BY <2>1, <2>2
  <1>4. \/ Accepts(op, id, arg) /\ Apply(job.by, op, id, name, arg)
        \/ started' = started /\ ~(reply = "ok" /\ op = "destroy")
    BY DEF Replied, Request, Lost, NotApplied, Waits
  <1> QED  BY <1>2, <1>3, <1>4

\* A poll that goes on, or is over, holds what it held.
LEMMA PollGoesOn ==
  ASSUME PollKnown(poll), NEW todo, NEW pending, \A t \in todo \cup pending : Known(t[2])
  PROVE  /\ poll.pc = "check" => PollKnown(Polled([poll EXCEPT !.todo = todo, !.pending = pending]))
         /\ PollKnown(Polled([poll EXCEPT !.pc = "check", !.entry = None, !.why = "none"]))
  <1>0. ASSUME NEW p, p.todo \cup p.pending = {}, p.pc # "stop",
               p = [pc |-> p.pc, todo |-> p.todo, pending |-> p.pending, entry |-> p.entry, why |-> p.why]
        PROVE  PollKnown(p)
    BY <1>0, Zenon DEF PollKnown
  <1>1. PollKnown(NoPoll)
    BY <1>0 DEF NoPoll
  <1>2. poll = [pc |-> poll.pc, todo |-> poll.todo, pending |-> poll.pending, entry |-> poll.entry, why |-> poll.why]
    BY DEF PollKnown
  <1>6. \A t \in poll.todo \cup poll.pending : Known(t[2])
    BY DEF PollKnown
  <1>3. ASSUME NEW p, p.pc = "check", \A t \in p.todo \cup p.pending : Known(t[2]),
               p = [pc |-> p.pc, todo |-> p.todo, pending |-> p.pending, entry |-> p.entry, why |-> p.why]
        PROVE  PollKnown(p)
    BY <1>3, Zenon DEF PollKnown
  <1>4. poll.pc = "check" => PollKnown([poll EXCEPT !.todo = todo, !.pending = pending])
    <2>1. ASSUME NEW p, p = [poll EXCEPT !.todo = todo, !.pending = pending]
          PROVE  /\ p.pc = poll.pc /\ p.todo = todo /\ p.pending = pending
                 /\ p = [pc |-> p.pc, todo |-> p.todo, pending |-> p.pending, entry |-> p.entry, why |-> p.why]
      BY <1>2, <2>1
    <2>2. ASSUME NEW p, p = [poll EXCEPT !.todo = todo, !.pending = pending], poll.pc = "check"
          PROVE  PollKnown(p)
      BY <1>3, <2>1, <2>2
    <2> QED  BY <2>2
  <1>5. PollKnown([poll EXCEPT !.pc = "check", !.entry = None, !.why = "none"])
    <2>1. ASSUME NEW p, p = [poll EXCEPT !.pc = "check", !.entry = None, !.why = "none"]
          PROVE  /\ p.pc = "check" /\ p.todo = poll.todo /\ p.pending = poll.pending
                 /\ p = [pc |-> p.pc, todo |-> p.todo, pending |-> p.pending, entry |-> p.entry, why |-> p.why]
      BY <1>2, <2>1
    <2>2. ASSUME NEW p, p = [poll EXCEPT !.pc = "check", !.entry = None, !.why = "none"]
          PROVE  PollKnown(p)
      BY <1>3, <1>6, <2>1, <2>2
    <2> QED  BY <2>2
  <1> QED  BY <1>1, <1>4, <1>5 DEF Polled

\* An entry that the table still holds is taken out, and its loop is stopped.
LEMMA Dropped ==
  ASSUME TableKnown(table), NEW name, NEW entry, Drop(name, entry)
  PROVE  TableKnown(table')
  BY DEF Drop, TableKnown

LEMMA Ended ==
  ASSUME TableKnown(table), NEW now, PollKnown(now), NEW name, NEW entry, Known(entry), NEW why,
         why = "revoked" => ~Authorized(entry.by), End(name, entry, why, now)
  PROVE  TableKnown(table') /\ PollKnown(poll')
  <1>1. TableKnown(table')  BY Dropped DEF End
  <1>2. CASE poll' = now  BY <1>1, <1>2
  <1>3. CASE poll' = [now EXCEPT !.pc = "stop", !.entry = <<name, entry>>, !.why = why]
    <2>1. <<name, entry>>[2] = entry  OBVIOUS
    <2>2. ASSUME NEW e, e[2] = entry, poll' = [now EXCEPT !.pc = "stop", !.entry = e, !.why = why]
          PROVE  PollKnown(poll')
      BY <2>2 DEF PollKnown
    <2> QED  BY <1>1, <1>3, <2>1, <2>2
  <1> QED  BY <1>2, <1>3 DEF End, Taken

LEMMA UnreachedHolds ==
  ASSUME TableKnown(table), NEW now, PollKnown(now), NEW name, NEW entry, Known(entry),
         Unreached(name, entry, now) \/ Failed(name, entry, now)
  PROVE  TableKnown(table') /\ PollKnown(poll')
  <1>1. (poll' = now /\ UNCHANGED table) \/ End(name, entry, "unreachable", now) \/ End(name, entry, "failed", now)
    BY DEF Unreached, Failed
  <1> QED  BY <1>1, Ended

LEMMA PollHolds ==
  ASSUME TableKnown(table), PollKnown(poll), Poll
  PROVE  TableKnown(table') /\ PollKnown(poll')
  <1>1. \A t \in Entries : Known(t[2])
    BY DEF Entries, TableKnown
  <1>2. poll' = [NoPoll EXCEPT !.pc = "check", !.todo = Entries] /\ table' = table
    BY DEF Poll
  <1> DEFINE todo == Entries
  <1>3. \A t \in todo : Known(t[2])  BY <1>1
  <1>4. poll' = [NoPoll EXCEPT !.pc = "check", !.todo = todo]  BY <1>2
  <1> HIDE DEF todo
  <1>5. PollKnown(poll')  BY <1>3, <1>4 DEF PollKnown, NoPoll
  <1> QED  BY <1>2, <1>5

LEMMA CheckHolds ==
  ASSUME TableKnown(table), PollKnown(poll), Check
  PROVE  TableKnown(table') /\ PollKnown(poll')
  <1>1. poll.pc = "check"  BY DEF Check
  <1>2. PICK t \in poll.todo :
     \E name \in {t[1]}, entry \in {t[2]}, now \in {Polled([poll EXCEPT !.todo = @ \ {t}])} :
       IF ~MayRun(entry) THEN End(name, entry, "revoked", now) /\ UNCHANGED <<unreach, left>>
       ELSE IF ~Visible(entry.by, own.bots[entry.bot])
       THEN End(name, entry, "private", now) /\ UNCHANGED <<unreach, left>>
       ELSE \/ Unreached(name, entry, now)
            \/ Failed(name, entry, now)
            \/ /\ IdOf(name) = 0   \* not_found
               /\ End(name, entry, "failed", now) /\ UNCHANGED <<unreach, left>>
            \/ /\ IdOf(name) # 0
               /\ unreach' = [unreach EXCEPT ![name] = None] /\ UNCHANGED left
               /\ IF IdOf(name) # entry.bot \/ loop[entry.bot] # entry.lid
                  THEN Drop(name, entry) /\ poll' = now
                  ELSE poll' = [poll EXCEPT !.todo = @ \ {t}, !.pending = @ \cup {t}] /\ UNCHANGED table
    BY Zenon DEF Check
  <1>3. PICK name \in {t[1]}, entry \in {t[2]}, now \in {Polled([poll EXCEPT !.todo = @ \ {t}])} :
          \/ End(name, entry, "revoked", now) /\ ~MayRun(entry)
          \/ End(name, entry, "private", now)
          \/ Unreached(name, entry, now) \/ Failed(name, entry, now)
          \/ End(name, entry, "failed", now)
          \/ Drop(name, entry) /\ poll' = now
          \/ poll' = [poll EXCEPT !.todo = @ \ {t}, !.pending = @ \cup {t}] /\ table' = table
    BY <1>2
  <1>4. entry = t[2] /\ Known(entry)
    BY <1>2, <1>3 DEF PollKnown
  <1> DEFINE todo == poll.todo \ {t}
             pending == poll.pending \cup {t}
  <1>5. \A u \in todo \cup pending : Known(u[2])
    BY <1>3, <1>4 DEF PollKnown
  <1>6. PollKnown(now)
    <2>1. [poll EXCEPT !.todo = @ \ {t}] = [poll EXCEPT !.todo = todo, !.pending = poll.pending]
      BY DEF PollKnown
    <2>2. now = Polled([poll EXCEPT !.todo = todo, !.pending = poll.pending])
      BY <1>3, <2>1
    <2>3. \A u \in todo \cup poll.pending : Known(u[2])  BY DEF PollKnown
    <2> HIDE DEF todo, pending
    <2> QED  BY <1>1, <2>2, <2>3, PollGoesOn
  <1>7. CASE poll' = [poll EXCEPT !.todo = @ \ {t}, !.pending = @ \cup {t}] /\ table' = table
    <2>1. poll' = [poll EXCEPT !.todo = todo, !.pending = pending]  BY <1>7
    <2> HIDE DEF todo, pending
    <2>2. PollKnown(poll')  BY <1>1, <1>5, <2>1 DEF PollKnown
    <2> QED  BY <1>7, <2>2
  <1>8. CASE Drop(name, entry) /\ poll' = now
    BY <1>6, <1>8, Dropped
  <1>9. CASE End(name, entry, "revoked", now) /\ ~MayRun(entry)
    BY <1>4, <1>6, <1>9, Ended DEF MayRun
  <1>10. CASE End(name, entry, "private", now) \/ End(name, entry, "failed", now)
    BY <1>4, <1>6, <1>10, Ended
  <1>11. CASE Unreached(name, entry, now) \/ Failed(name, entry, now)
    BY <1>4, <1>6, <1>11, UnreachedHolds
  <1> QED  BY <1>3, <1>7, <1>8, <1>9, <1>10, <1>11

LEMMA RenewHolds ==
  ASSUME TableKnown(table), PollKnown(poll), Renew
  PROVE  TableKnown(table') /\ PollKnown(poll')
  <1>1. poll.pc = "check"  BY DEF Renew
  <1>2. PICK t \in poll.pending :
     \E name \in {t[1]}, entry \in {t[2]}, now \in {Polled([poll EXCEPT !.pending = @ \ {t}])} :
       \/ Unreached(name, entry, now) /\ UNCHANGED lease
       \/ Failed(name, entry, now) /\ UNCHANGED lease
       \/ /\ ~Online(IdOf(name))
          /\ End(name, entry, "failed", now) /\ UNCHANGED <<lease, unreach, left>>
       \/ /\ Online(IdOf(name))
          /\ lease' = Renewed(name, entry)
          /\ poll' = now /\ UNCHANGED <<table, unreach, left>>
    BY Zenon DEF Renew
  <1>3. PICK name \in {t[1]}, entry \in {t[2]}, now \in {Polled([poll EXCEPT !.pending = @ \ {t}])} :
          \/ Unreached(name, entry, now) \/ Failed(name, entry, now)
          \/ End(name, entry, "failed", now)
          \/ poll' = now /\ table' = table
    BY <1>2
  <1>4. Known(entry)
    BY <1>2, <1>3 DEF PollKnown
  <1> DEFINE pending == poll.pending \ {t}
  <1>5. \A u \in poll.todo \cup pending : Known(u[2])
    BY DEF PollKnown
  <1>6. PollKnown(now)
    <2>1. [poll EXCEPT !.pending = @ \ {t}] = [poll EXCEPT !.todo = poll.todo, !.pending = pending]
      BY DEF PollKnown
    <2>2. now = Polled([poll EXCEPT !.todo = poll.todo, !.pending = pending])
      BY <1>3, <2>1
    <2> HIDE DEF pending
    <2> QED  BY <1>1, <1>5, <2>2, PollGoesOn
  <1> QED  BY <1>3, <1>4, <1>6, Ended, UnreachedHolds

LEMMA StopLoopHolds ==
  ASSUME TableKnown(table), PollKnown(poll), loop = [i \in Ids |-> loop[i]], StopLoop
  PROVE  /\ TableKnown(table') /\ PollKnown(poll') /\ loop' = [i \in Ids |-> loop'[i]]
         /\ \A id \in Ids : loop[id] # 0 /\ loop'[id] = 0 => loop[id] = poll.entry[2].lid
  <1>1. poll' = Polled([poll EXCEPT !.pc = "check", !.entry = None, !.why = "none"]) /\ table' = table
    BY DEF StopLoop
  <1>2. PollKnown(poll')
    <2>1. \A t \in poll.todo \cup poll.pending : Known(t[2])  BY DEF PollKnown
    <2> QED  BY <1>1, <2>1, PollGoesOn
  <1>3. PICK id : loop' = loop \/ (loop[id] = poll.entry[2].lid /\ loop' = [loop EXCEPT ![id] = 0])
    BY DEF StopLoop
  <1>4. loop' = [i \in Ids |-> loop'[i]] /\ \A i \in Ids : loop[i] # 0 /\ loop'[i] = 0 => i = id /\ loop[id] = poll.entry[2].lid
    BY <1>3
  <1> QED  BY <1>1, <1>2, <1>4

LEMMA PollStepHolds ==
  ASSUME LoopsKnown, StoresWhole, PollStep
  PROVE  /\ TableKnown(table') /\ PollKnown(poll') /\ loop' = [i \in Ids |-> loop'[i]]
         /\ \A id \in Ids : loop[id] # 0 /\ loop'[id] = 0 => poll.pc = "stop" /\ loop[id] = poll.entry[2].lid
  <1>1. TableKnown(table) /\ PollKnown(poll) /\ loop = [i \in Ids |-> loop[i]]
    BY DEF LoopsKnown, StoresWhole
  <1>2. CASE Poll
    BY <1>1, <1>2, PollHolds DEF Poll, runtime
  <1>3. CASE Check
    BY <1>1, <1>3, CheckHolds DEF Check, runtime
  <1>4. CASE Renew
    <2>1. UNCHANGED loop  BY <1>4 DEF Renew
    <2> QED  BY <1>1, <1>4, <2>1, RenewHolds
  <1>5. CASE StopLoop
    <2>1. poll.pc = "stop"  BY <1>5 DEF StopLoop
    <2> QED  BY <1>1, <1>5, <2>1, StopLoopHolds
  <1> QED  BY <1>2, <1>3, <1>4, <1>5 DEF PollStep

\* A member's request that begins a loop is followed by its entry.
LEMMA AskedLoops ==
  ASSUME Typed, LoopsKnown, job # Idle, NEW i \in DOMAIN job.members, job.members[i] \in Ids,
         job.pc = "members", Asked(i), granted' = granted
  PROVE  /\ Onward
         /\ job'.pc = "loop" /\ job.op = "destroy" => Len(started') > 0 /\ started'[Len(started')].by = job.by
  <1>1. PICK reply \in {"ok", "refused"} \cup Lost, fails \in BOOLEAN :
           /\ Request(job.by, job.op, job.members[i], rt[job.members[i]].name, None, reply)
           /\ job' = IF reply = "ok" /\ job.op \in Destroys
                     THEN [Row(i, "accepted") EXCEPT !.pc = "loop", !.name = rt[job.members[i]].name, !.id = job.members[i]]
                     ELSE Row(i, MemberRow(reply, fails))
    BY DEF Asked
  <1>2. Held(job.members[i])
    BY MemberHeld DEF Asked, Typed
  <1>3. /\ Onward
        /\ reply = "ok" /\ job.op = "destroy" => Len(started') > 0 /\ started'[Len(started')].by = job.by
    BY <1>1, <1>2, RequestOnward DEF Replied
  <1>4. CASE reply = "ok"
    BY <1>3, <1>4
  <1>5. CASE reply # "ok"
    <2>1. job' = [job EXCEPT !.pc = "members", !.name = job.name, !.id = job.id, !.rows = Rows(i, MemberRow(reply, fails))]
      BY <1>1, <1>5, RowWritten DEF Typed
    <2>2. job'.pc = "members"
      BY <2>1, RowMoves DEF Typed
    <2> QED  BY <1>3, <2>2
  <1> QED  BY <1>4, <1>5

LEMMA LoopsKept ==
  ASSUME Typed, LoopsKnown, [Next]_vars
  PROVE  LoopsKnown'
  <1>0. /\ started \in Seq([by: Senders, bot: Ids])
        /\ TableKnown(table) /\ PollKnown(poll)
        /\ job.pc = "loop" /\ job.op = "destroy" => Len(started) > 0 /\ started[Len(started)].by = job.by
    BY DEF LoopsKnown
  <1>a. ASSUME Onward, TableKnown(table'), PollKnown(poll'),
               job'.pc = "loop" /\ job'.op = "destroy" => Len(started') > 0 /\ started'[Len(started')].by = job'.by
        PROVE  LoopsKnown'
    BY <1>0, <1>a, HeldOnward DEF LoopsKnown
  <1> HIDE DEF LoopsKnown
  <1>1. ASSUME NEW by \in Senders, Begun(by) PROVE LoopsKnown'
    <2>1. job'.pc # "loop"  BY <1>1 DEF Begun, ForBot, ForMembers
    <2>2. UNCHANGED <<started, loop, table, poll, granted>>  BY <1>1 DEF Begun
    <2>3. Onward  BY <2>2 DEF Onward
    <2> QED  BY <1>0, <1>a, <2>1, <2>2, <2>3
  <1>2. CASE Regrouped
    <2>1. job'.pc # "loop" /\ UNCHANGED <<started, loop, table, poll, granted>>  BY <1>2 DEF Regrouped
    <2>2. Onward  BY <2>1 DEF Onward
    <2> QED  BY <1>0, <1>a, <2>1, <2>2
  <1>3. CASE Act
    <2>1. /\ job # Idle /\ job.pc = "act" /\ UNCHANGED <<granted, table, poll>>
      BY <1>3, ActRan DEF outside, mining
    <2>2. PICK id : Held(id) /\ Ran(id)
      BY <1>3, ActRan
    <2>3. PICK reply \in {"ok", "refused"} \cup Lost, fails \in BOOLEAN :
       /\ Replied(job.by, job.op, id, job.name, job.arg, reply)
       /\ job' = IF reply = "ok" /\ job.op \in Destroys THEN [job EXCEPT !.pc = "loop", !.id = id] ELSE Idle
      BY <2>2 DEF Ran
    <2>4. /\ Onward
          /\ reply = "ok" /\ job.op = "destroy" => Len(started') > 0 /\ started'[Len(started')].by = job.by
      BY <2>1, <2>2, <2>3, RequestOnward
    <2>5. ASSUME job'.pc = "loop", job'.op = "destroy"
          PROVE  Len(started') > 0 /\ started'[Len(started')].by = job'.by
      <3>1. reply = "ok" /\ job' = [job EXCEPT !.pc = "loop", !.id = id]  BY <2>3, <2>5 DEF Idle
      <3>2. job'.op = job.op /\ job'.by = job.by  BY <2>1, <3>1 DEF Typed, JobWhole
      <3> QED  BY <2>4, <2>5, <3>1, <3>2
    <2> QED  BY <1>0, <1>a, <2>1, <2>4, <2>5
  <1>4. CASE RecordLoop
    <2>1. /\ Quietly /\ job.pc = "loop" /\ (job' = Idle \/ job'.pc = "members")
          /\ table' = [table EXCEPT ![job.name] =
              IF job.op = "destroy" THEN [bot |-> job.id, lid |-> Len(started), by |-> job.by] ELSE None]
      BY <1>4, RecordLoopQuiet DEF Typed
    <2>2. UNCHANGED <<started, loop, poll, granted>> /\ job'.pc # "loop"
      BY <2>1 DEF Quietly, Idle
    <2>3. Onward  BY <2>2 DEF Onward
    <2>4. ASSUME NEW e, e = None \/ Known(e), table' = [table EXCEPT ![job.name] = e]
          PROVE  TableKnown(table')
      BY <1>0, <2>4 DEF TableKnown
    <2>5. job.op = "destroy" => Known([bot |-> job.id, lid |-> Len(started), by |-> job.by])
      <3>1. Len(started) \in Nat  BY <1>0
      <3> QED  BY <1>0, <2>1, <3>1 DEF Known
    <2>6. TableKnown(table')  BY <2>1, <2>4, <2>5
    <2> QED  BY <1>0, <1>a, <2>2, <2>3, <2>6
  <1>5. CASE Prepare \/ Finish \/ Send
    <2>1. /\ UNCHANGED <<started, loop, poll, granted, table>>
          /\ job' = Idle \/ job'.pc \in {"members", "send"}
      BY <1>5, PrepareQuiet, FinishQuiet, SendSent DEF Quietly, Sent, Typed
    <2>2. job'.pc # "loop"  BY <2>1 DEF Idle
    <2>3. Onward  BY <2>1 DEF Onward
    <2> QED  BY <1>0, <1>a, <2>1, <2>2, <2>3
  <1>6. CASE Member
    <2>1. /\ job.pc = "members" /\ job # Idle /\ UNCHANGED <<granted, table, poll>>
      BY <1>6, MemberCases DEF Typed, outside, mining
    <2>2. PICK i \in DOMAIN job.members : job.members[i] \in Ids /\ (Unasked(i) \/ Asked(i))
      BY <1>6, MemberCases DEF Typed
    <2>3. CASE Unasked(i)
      <3>1. job'.pc = "members"  BY <2>1, <2>3, UnaskedRow DEF Typed
      <3>2. UNCHANGED <<started, loop>>  BY <2>3 DEF Unasked, NotApplied
      <3>3. Onward  BY <2>1, <3>2 DEF Onward
      <3> QED  BY <1>0, <1>a, <2>1, <3>1, <3>2, <3>3
    <2>4. CASE Asked(i)
      <3>1. job'.by = job.by /\ job'.op = job.op
        BY <2>1, <2>4, AskedRow DEF Typed
      <3>2. /\ Onward
            /\ job'.pc = "loop" /\ job.op = "destroy" => Len(started') > 0 /\ started'[Len(started')].by = job.by
        BY <2>1, <2>2, <2>4, AskedLoops
      <3> QED  BY <1>0, <1>a, <2>1, <3>1, <3>2
    <2> QED  BY <2>2, <2>3, <2>4
  <1>7. CASE Aside /\ PollStep
    <2>1. Onward /\ job' = job /\ started' = started  BY <1>7 DEF Aside, Onward
    <2>2. TableKnown(table') /\ PollKnown(poll')
      BY <1>7, PollStepHolds DEF Typed
    <2> QED  BY <1>0, <1>a, <2>1, <2>2
  <1>8. CASE Aside /\ UNCHANGED <<table, poll>>
    <2>1. Onward /\ job' = job /\ started' = started  BY <1>8 DEF Aside, Onward
    <2> QED  BY <1>0, <1>a, <1>8, <2>1
  <1>9. CASE Restart
    <2>1. /\ job' = Idle /\ poll' = NoPoll /\ table' = [n \in Names |-> None]
          /\ UNCHANGED <<started, loop, granted>>
      BY <1>9 DEF Restart, runtime, outside
    <2>2. Onward /\ job'.pc # "loop"  BY <2>1 DEF Onward, Idle
    <2>3. TableKnown(table')  BY <2>1 DEF TableKnown
    <2>4. PollKnown(poll')  BY <2>1 DEF PollKnown, NoPoll
    <2> QED  BY <1>0, <1>a, <2>1, <2>2, <2>3, <2>4
  <1> QED  BY <1>1, <1>2, <1>3, <1>4, <1>5, <1>6, <1>7, <1>8, <1>9, Kinds

\* What the poll stops for want of control is a loop of a player without it.
LEMMA StopsOwn ==
  ASSUME Typed, LoopsKnown, [Next]_vars, NEW id \in Ids,
         poll.pc = "stop", poll.why = "revoked", poll' # poll, loop[id] # 0, loop'[id] = 0
  PROVE  ~Authorized(started[loop[id]].by)
  <1>1. \A by \in Senders : ~Begun(by)  BY DEF Begun
  <1>2. ~Regrouped /\ ~(RecordLoop \/ Prepare \/ Finish \/ Send)
    BY RecordLoopQuiet, PrepareQuiet, FinishQuiet, SendSent DEF Regrouped, Quietly, Sent, Typed
  <1>3. ~Act /\ ~Member
    BY ActRan, MemberCases DEF Typed, mining
  <1>4. ~Restart  BY DEF Restart, runtime
  <1>5. PollStep  BY <1>1, <1>2, <1>3, <1>4, Kinds
  <1>6. loop[id] = poll.entry[2].lid
    BY <1>5, PollStepHolds DEF Typed
  <1> QED  BY <1>6 DEF LoopsKnown, PollKnown, Known

\* When the poll ends a loop because its player lost control, it ends a loop of
\* such a player: one that someone else began on the Bot in between runs on
\* (_take_mining_loop, _end_mining_loop).
THEOREM PollEndsOnlyTheirs == Spec => PollSparesOthers
  <1> DEFINE Inv == Typed /\ LoopsKnown
             Step == \A id \in Ids :
               poll.pc = "stop" /\ poll.why = "revoked" /\ poll' # poll /\ loop[id] # 0 /\ loop'[id] = 0 =>
                 ~Authorized(started[loop[id]].by)
  <1>1. Init => Inv
    <2> SUFFICES ASSUME Init PROVE Inv  OBVIOUS
    <2>1. /\ started = <<>> /\ table = [n \in Names |-> None] /\ poll = NoPoll /\ job = Idle
      BY DEF Init
    <2>2. started \in Seq([by: Senders, bot: Ids])  BY <2>1
    <2>3. TableKnown(table) /\ PollKnown(poll)  BY <2>1 DEF TableKnown, PollKnown, NoPoll
    <2>4. LoopsKnown  BY <2>1, <2>2, <2>3 DEF LoopsKnown, Idle
    <2> QED  BY <2>4, InitTyped
  <1>2. Inv /\ [Next]_vars => Inv'
    BY NextTyped, LoopsKept
  <1>3. Inv /\ [Next]_vars => Step
    BY StopsOwn
  <1>4. Spec => []Inv
    <2> HIDE DEF Inv, Step
    <2> QED  BY <1>1, <1>2, PTL DEF Spec
  <1>5. Inv /\ [Next]_vars => [Step]_vars  BY <1>3
  <1> HIDE DEF Inv, Step
  <1>6. Spec => [][Step]_vars
    BY <1>4, <1>5, PTL DEF Spec
  <1> QED  BY <1>6 DEF Step, PollSparesOthers
=============================================================================
