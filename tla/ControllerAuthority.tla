------------------------ MODULE ControllerAuthority -------------------------
(***************************************************************************)
(* Who may control Bots (endbotd/authority.py over endbot_core's           *)
(* controller_policy, enrollment, controller_roles, grant_revisions and    *)
(* authorization).  Four files: the policy and the bindings reach memory   *)
(* after their write, the roles and the grant revisions before it.         *)
(*                                                                         *)
(* Every method runs under one lock, so an operation is one step that      *)
(* performs its writes in order and stops at the first that fails.  A      *)
(* crash between two writes is such a step followed by Restart.            *)
(*                                                                         *)
(* An account stands for its XUID and its UUID, which never change; its    *)
(* GamerTag may.  GamerTags are compared case-insensitively in the code    *)
(* and are model values here.                                              *)
(***************************************************************************)
EXTENDS Naturals, FiniteSets, Sequences

CONSTANTS
  Accounts,     \* accounts that join: players with an XUID, and local Bots
  Bots,         \* the accounts without an XUID
  Names,        \* GamerTags
  NameOf,       \* the first GamerTag of each account; players may change theirs
  Configured,   \* the GamerTags of endbot.toml
  Legacy,       \* the accounts of the allowed-xuids list
  NoName,
  MaxOps,       \* bound: console operations
  MaxFaults,    \* bound: failed writes
  MaxRestarts,  \* bound: restarts of endbotd
  MaxWork       \* bound: runs and jobs at a time

Players == Accounts \ Bots

ASSUME AuthorityAssumption ==
  /\ Bots \subseteq Accounts /\ Legacy \subseteq Accounts \ Bots
  /\ Configured \subseteq Names /\ NoName \notin Names
  /\ NameOf \in [Accounts -> Names]
  /\ MaxOps \in Nat /\ MaxFaults \in Nat /\ MaxRestarts \in Nat /\ MaxWork \in Nat

\* Xbox gives a GamerTag to one account at a time (a local Bot may have any)
ASSUME FirstNamesDiffer ==
  \A a, b \in Players : NameOf[a] = NameOf[b] => a = b

VARIABLES
  online,    \* presence: the name of each account online, or NoName
  policy,    \* controller-policy.json
  bound,     \* controllers.json: the bootstrap bindings, in order
  roles,     \* the roles in memory
  rolesFile, \* controller-roles.json
  grev,      \* the grant revisions in memory
  grevFile,  \* grant-revisions.json
  kept,      \* history: every account has joined under its first GamerTag only
  work,      \* runs and jobs: [who, name, grev, revoked]; revoked is history
  count      \* console operations, failed writes and restarts so far

vars == <<online, policy, bound, roles, rolesFile, grev, grevFile, kept, work, count>>

RoleNames == {"scripter", "controller"}
Unknown   == "none"       \* no entry in the roles file, or no --role option

\* What ends on disk and in memory when the first `done` of the saves of the
\* versions vs of the roles succeed: memory is changed before each save.
SaveRoles(vs, done) ==
  IF vs = <<>> THEN UNCHANGED <<roles, rolesFile>>
  ELSE /\ roles' = vs[IF done < Len(vs) THEN done + 1 ELSE done]
       /\ rolesFile' = IF done = 0 THEN rolesFile ELSE vs[done]

\* The first `done` of w writes succeed; console is 1 for a console operation.
Writes(w, done, console) ==
  /\ done < w => count.faults < MaxFaults
  /\ console = 1 => count.ops < MaxOps
  /\ count' = [count EXCEPT !.ops = @ + console, !.faults = IF done < w THEN @ + 1 ELSE @]

-----------------------------------------------------------------------------
(* Decisions.                                                              *)

Denied(pol, a) == a \in pol.deniedXuids \/ a \in pol.deniedUuids
Granted(pol, a) == ~Denied(pol, a) /\ \E i \in DOMAIN pol.grants : pol.grants[i].who = a
IsBound(b, a) == \E i \in DOMAIN b : b[i].who = a

\* Authority.control_decision
Decision(pol, b, name, a) ==
  /\ a \in Players
  /\ ~Denied(pol, a)
  /\ \/ Granted(pol, a)
     \/ name \notin pol.deniedNames /\ (IsBound(b, a) \/ a \in Legacy)

Allows(a) == online[a] # NoName /\ Decision(policy, bound, online[a], a)

\* The accounts Authority.report has a row with a UUID for, and the row's name:
\* online, else as last granted, else as bound.
Bindings == bound \o policy.grants
Reported == {a \in Players : online[a] # NoName \/ \E i \in DOMAIN Bindings : Bindings[i].who = a}
RowName(a) ==
  IF online[a] # NoName THEN online[a]
  ELSE LET mine == {i \in DOMAIN Bindings : Bindings[i].who = a}
       IN Bindings[CHOOSE i \in mine : \A j \in mine : j <= i].tag

\* Authority.authorize of a run or a job, whose owner may be offline.
Authorized(w) ==
  /\ w.grev = grev[w.who]
  /\ Decision(policy, bound, IF online[w.who] # NoName THEN online[w.who] ELSE w.name, w.who)

-----------------------------------------------------------------------------
(* ControllerPolicy.                                                       *)

\* the grants but that of an account, which has at most one
Others(grants, a) ==
  LET mine == {i \in DOMAIN grants : grants[i].who = a} IN
  IF mine = {} THEN grants
  ELSE [j \in 1 .. Len(grants) - 1 |-> grants[IF \E i \in mine : i <= j THEN j + 1 ELSE j]]

\* add of an account
PolicyAdd(pol, n, a) ==
  [pol EXCEPT !.grants = Append(Others(@, a), [tag |-> n, who |-> a]),
              !.pending = @ \ {n}, !.deniedNames = @ \ {n},
              !.deniedXuids = @ \ {a}, !.deniedUuids = @ \ {a}]

\* add of a name only
PolicyAddPending(pol, n) == [pol EXCEPT !.pending = @ \cup {n}, !.deniedNames = @ \ {n}]

\* Mutant: a pending name is enough.
EnrollsByName(n, a) == a \in Players /\ n \in policy.pending

\* The condition of enroll.
Enrolls(n, a) == a \in Players /\ n \in policy.pending /\ ~Denied(policy, a)

\* remove: two passes over the bindings and the grants collect the aliases of
\* a target that starts as some names, XUIDs and UUIDs.
Related(known, e) == e.tag \in known.names \/ e.who \in known.xuids \/ e.who \in known.uuids

Linked(known, e) ==
  IF ~Related(known, e) THEN known
  ELSE [names |-> known.names \cup {e.tag}, xuids |-> known.xuids \cup {e.who},
        uuids |-> known.uuids \cup {e.who}]

Aliases(target) ==
  LET twice == Bindings \o Bindings
      upTo[i \in 0 .. Len(twice)] == IF i = 0 THEN target ELSE Linked(upTo[i - 1], twice[i])
  IN upTo[Len(twice)]

PolicyRemove(t) ==
  [policy EXCEPT !.pending = @ \ t.names, !.deniedNames = @ \cup t.names,
                 !.deniedXuids = @ \cup t.xuids, !.deniedUuids = @ \cup t.uuids]

-----------------------------------------------------------------------------
(* Presence.                                                               *)

ComesAs(a, n) ==
  /\ online[a] = NoName
  /\ n = NameOf[a] \/ a \in Players
  /\ \A b \in Accounts : online[b] # n
  /\ online' = [online EXCEPT ![a] = n]
  /\ kept' = (kept /\ n = NameOf[a])

\* ControllerEnrollment.authorize makes a binding, as joined calls it.
Binds(pol, n, a) ==
  /\ a \in Players /\ ~Denied(pol, a) /\ n \notin pol.deniedNames
  /\ n \in Configured
  /\ ~IsBound(bound, a) /\ \A i \in DOMAIN bound : bound[i].tag # n

\* A join: presence, then Authority.joined of the record.  The failure of a
\* write leaves joined at once.
Join(a, n) ==
  /\ ComesAs(a, n)
  /\ LET e     == IF Enrolls(n, a) THEN 1 ELSE 0
         pol   == IF Enrolls(n, a) THEN PolicyAdd(policy, n, a) ELSE policy
         b     == IF Binds(pol, n, a) THEN 1 ELSE 0
         bnd   == IF Binds(pol, n, a) THEN Append(bound, [tag |-> n, who |-> a]) ELSE bound
         named == [roles EXCEPT !.of[a] = roles.pending[n]]
         vs    == IF roles.pending[n] # Unknown /\ Decision(pol, bnd, n, a)
                  THEN <<named, [named EXCEPT !.pending[n] = Unknown]>> ELSE <<>>
         w     == e + b + Len(vs)
     IN \E done \in 0 .. w :
          /\ Writes(w, done, 0)
          /\ policy' = IF done >= e THEN pol ELSE policy
          /\ bound' = IF done >= e + b THEN bnd ELSE bound
          /\ IF done < e + b THEN UNCHANGED <<roles, rolesFile>> ELSE SaveRoles(vs, done - e - b)
  /\ UNCHANGED <<grev, grevFile, work>>

\* A record of a snapshot that comes after one whose write failed.
JoinNotHandled(a, n) ==
  /\ ComesAs(a, n) /\ count.faults > 0
  /\ UNCHANGED <<policy, bound, roles, rolesFile, grev, grevFile, work, count>>

Quit(a) ==
  /\ online[a] # NoName
  /\ online' = [online EXCEPT ![a] = NoName]
  /\ UNCHANGED <<policy, bound, roles, rolesFile, grev, grevFile, kept, work, count>>

-----------------------------------------------------------------------------
(* The console's botcontrollers.                                           *)

OnlineAs(n) == {a \in Accounts : online[a] = n}

\* Who `add n` is about: the player online, else the first binding or grant of
\* that GamerTag; the empty set is a name not known yet.
Target(n) ==
  IF OnlineAs(n) # {} THEN OnlineAs(n)
  ELSE LET named == {i \in DOMAIN Bindings : Bindings[i].tag = n}
       IN {Bindings[i].who : i \in {first \in named : \A j \in named : first <= j}}

\* Mutant: decided after the add, when every grant looks like an existing one.
RoleAfterAdd(n, role) ==
  IF role # Unknown THEN role ELSE IF Target(n) # {} THEN Unknown ELSE "controller"

\* The role an add gives: an existing grant keeps its own.
EffectiveRole(n, role) ==
  IF role # Unknown THEN role
  ELSE IF \E a \in Reported :
            RowName(a) = n /\ Decision(policy, bound, n, a)
  THEN Unknown ELSE "controller"

\* The saves of the roles by an add, before the grant is written.
AddRoles(n, role) ==
  LET set == [roles EXCEPT !.of = [a \in Accounts |-> IF a \in Target(n) THEN role ELSE @[a]]]
  IN IF role = Unknown THEN <<>>
     ELSE IF Target(n) \cap Players = {} THEN <<[roles EXCEPT !.pending[n] = role]>>
     ELSE IF roles.pending[n] = Unknown THEN <<set>>
     ELSE <<set, [set EXCEPT !.pending[n] = Unknown]>>

\* add n [--role role]: the roles, then the policy; a local Bot is refused
\* when its role is already noted as pending.
Add(n, role) ==
  /\ LET vs == AddRoles(n, EffectiveRole(n, role))
         ok == Target(n) \cap Bots = {}
         w  == Len(vs) + IF ok THEN 1 ELSE 0
     IN \E done \in 0 .. w :
          /\ Writes(w, done, 1)
          /\ SaveRoles(vs, IF done > Len(vs) THEN Len(vs) ELSE done)
          /\ policy' = IF ~ok \/ done < w THEN policy
                       ELSE IF Target(n) = {} THEN PolicyAddPending(policy, n)
                       ELSE PolicyAdd(policy, n, CHOOSE a \in Target(n) : TRUE)
  /\ UNCHANGED <<online, bound, grev, grevFile, kept, work>>

\* Mutant: only revoked identities that are online lose their older work.
BumpedOnline(pol) == {a \in Reported : online[a] # NoName /\ Denied(pol, a)}

\* The rows of the report before a remove that the policy after it revokes.
Bumped(pol) == {a \in Reported : Denied(pol, a) \/ RowName(a) \in pol.deniedNames}

\* The saves of the roles by a remove, each only when it changes something.
ForgetRoles(bumped, n) ==
  LET forgot == [roles EXCEPT !.of = [a \in Accounts |-> IF a \in bumped THEN Unknown ELSE @[a]]]
      gone   == IF n = NoName THEN forgot ELSE [forgot EXCEPT !.pending[n] = Unknown]
  IN (IF forgot = roles THEN <<>> ELSE <<forgot>>) \o (IF gone = forgot THEN <<>> ELSE <<gone>>)

\* remove: the policy, the grant revisions, the roles, the pending role.  The
\* name of a local Bot online is refused, and an unknown name.
Revoke(t, n) ==
  /\ t.xuids # {} \/ t.uuids # {}
       \/ n \in Configured \cup policy.pending \cup policy.deniedNames
  /\ \E pol \in {PolicyRemove(t)} : \E bumped \in {Bumped(pol)} :
     \E vs \in {ForgetRoles(bumped, n)} :
       LET g == IF bumped = {} THEN 0 ELSE 1
           w == 1 + g + Len(vs)
       IN \E done \in 0 .. w :
            /\ Writes(w, done, 1)
            /\ policy' = IF done >= 1 THEN pol ELSE policy
            /\ grev' = [a \in Accounts |-> IF done >= 1 /\ a \in bumped THEN grev[a] + 1 ELSE grev[a]]
            /\ grevFile' = IF done >= 1 + g /\ g = 1 THEN grev' ELSE grevFile
            /\ IF done < 1 + g THEN UNCHANGED <<roles, rolesFile>> ELSE SaveRoles(vs, done - 1 - g)
  /\ work' = {[w EXCEPT !.revoked = @ \/ Denied(policy', w.who)] : w \in work}
  /\ UNCHANGED <<online, bound, kept>>

RemoveName(n) ==
  /\ OnlineAs(n) \cap Bots = {}
  /\ Revoke(Aliases([names |-> {n}, xuids |-> OnlineAs(n), uuids |-> OnlineAs(n)]), n)

RemoveXuid(a) == Revoke(Aliases([names |-> {}, xuids |-> {a}, uuids |-> {}]), NoName)
RemoveUuid(a) == Revoke(Aliases([names |-> {}, xuids |-> {}, uuids |-> {a}]), NoName)

-----------------------------------------------------------------------------
(* Work and restarts.                                                      *)

\* A player starts a run or a job; it keeps the grant revision of its start.
Start(a) ==
  /\ Allows(a) /\ Cardinality(work) < MaxWork
  /\ work' = work \cup {[who |-> a, name |-> online[a], grev |-> grev[a], revoked |-> FALSE]}
  /\ UNCHANGED <<online, policy, bound, roles, rolesFile, grev, grevFile, kept, count>>

End(w) ==
  /\ work' = work \ {w}
  /\ UNCHANGED <<online, policy, bound, roles, rolesFile, grev, grevFile, kept, count>>

\* endbotd starts again from its files; nobody is online and nothing runs.
Restart ==
  /\ count.restarts < MaxRestarts
  /\ count' = [count EXCEPT !.restarts = @ + 1]
  /\ online' = [a \in Accounts |-> NoName]
  /\ roles' = rolesFile /\ grev' = grevFile /\ work' = {}
  /\ UNCHANGED <<policy, bound, rolesFile, grevFile, kept>>

-----------------------------------------------------------------------------
NoPolicy == [grants |-> <<>>, pending |-> {}, deniedNames |-> {}, deniedXuids |-> {}, deniedUuids |-> {}]
NoRoles  == [of |-> [a \in Accounts |-> Unknown], pending |-> [n \in Names |-> Unknown]]

Init ==
  /\ online = [a \in Accounts |-> NoName]
  /\ policy = NoPolicy /\ bound = <<>>
  /\ roles = NoRoles /\ rolesFile = NoRoles
  /\ grev = [a \in Accounts |-> 0] /\ grevFile = grev
  /\ kept = TRUE /\ work = {}
  /\ count = [ops |-> 0, faults |-> 0, restarts |-> 0]

Console ==
  \/ \E n \in Names :
       \/ \E role \in RoleNames \cup {Unknown} : Add(n, role)
       \/ RemoveName(n)
  \/ \E a \in Players : RemoveXuid(a) \/ RemoveUuid(a)

Presence ==
  \E a \in Accounts :
    \/ \E n \in Names : Join(a, n) \/ JoinNotHandled(a, n)
    \/ Quit(a)

Next ==
  \/ Console \/ Presence
  \/ (\E a \in Players : Start(a)) \/ (\E w \in work : End(w))
  \/ Restart

Spec == Init /\ [][Next]_vars

-----------------------------------------------------------------------------
(* Properties.                                                             *)

RoleMaps == [of : [Accounts -> RoleNames \cup {Unknown}], pending : [Names -> RoleNames \cup {Unknown}]]

\* Every variable keeps its type; a binding or grant is never of a local Bot,
\* and no account has two.
TypeOK ==
  /\ online \in [Accounts -> Names \cup {NoName}]
  /\ policy.pending \subseteq Names /\ policy.deniedNames \subseteq Names
  /\ policy.deniedXuids \subseteq Players /\ policy.deniedUuids \subseteq Players
  /\ \A s \in {bound, policy.grants} :
       /\ \A i \in DOMAIN s : s[i].tag \in Names /\ s[i].who \in Players
       /\ \A i, j \in DOMAIN s : s[i].who = s[j].who => i = j
  /\ roles \in RoleMaps /\ rolesFile \in RoleMaps
  /\ grev \in [Accounts -> Nat] /\ grevFile \in [Accounts -> Nat]

\* controller_policy.py: "only a console add naming that account can" lift a
\* revocation; no join, rename, pending GamerTag, failed write or restart does.
RevocationSticks ==
  [][\A a \in Players : Denied(policy, a) /\ ~Denied(policy', a) =>
       \E n \in Names, role \in RoleNames \cup {Unknown} :
         a \in Target(n) /\ Add(n, role)]_vars

\* Work whose owner was revoked while it ran is never authorized again, whatever
\* is granted afterwards, also when the owner was offline or has a new name.  An
\* account that only the allowed-xuids list knows is in no row of the report while
\* it is offline, and a revocation by its XUID then bumps nothing.
NoRevival == \A w \in work : w.revoked /\ w.who \notin Legacy => ~Authorized(w)

\* A runtime grant of an account that nothing else allows has a role, or a
\* pending role that waits for its GamerTag: it is not a scripter by default.
GrantHasRole ==
  \A i \in DOMAIN policy.grants :
    LET g == policy.grants[i] IN
    ~Denied(policy, g.who) /\ ~IsBound(bound, g.who) /\ g.who \notin Legacy =>
      roles.of[g.who] # Unknown \/ roles.pending[g.tag] # Unknown

\* ... also after failed writes and restarts, while nobody has changed its name.
KeptNameGrantHasRole == kept => GrantHasRole
=============================================================================
