--------------------- MODULE ControllerAuthorityProofs ----------------------
(***************************************************************************)
(* Proofs about ControllerAuthority, for any accounts, GamerTags and       *)
(* bounds: only a console add that names the account lifts a revocation,   *)
(* work that was under way at a revocation is never authorized again, and, *)
(* while nobody has changed its GamerTag, no grant is without its role.    *)
(***************************************************************************)
EXTENDS ControllerAuthority, SequenceTheorems, WellFoundedInduction, TLAPS

Entry == [tag : Names, who : Players]
Work  == [who : Players, name : Names \cup {NoName}, grev : Nat, revoked : BOOLEAN]

\* The policy is this record; its sets are of any names and accounts.
PolicyShape(pol) ==
  pol \in [grants : Seq(Entry), pending : {pol.pending}, deniedNames : {pol.deniedNames},
           deniedXuids : {pol.deniedXuids}, deniedUuids : {pol.deniedUuids}]

StoreTypes ==
  /\ online \in [Accounts -> Names \cup {NoName}]
  /\ PolicyShape(policy) /\ bound \in Seq(Entry)
  /\ grev \in [Accounts -> Nat] /\ grevFile \in [Accounts -> Nat]
  /\ work \subseteq Work

Holders(s) == {s[i].who : i \in DOMAIN s}

\* The report has a row for the account, also while it is offline.
HasEntry(pol, b, a) == a \in Holders(b) \/ a \in Holders(pol.grants)

WorkListed == \A w \in work : w.who \in Legacy \/ HasEntry(policy, bound, w.who)

\* A revocation raises the revision above that of all work of the account.
WorkMarked ==
  \A w \in work :
    /\ w.grev <= grev[w.who]
    /\ Denied(policy, w.who) => w.revoked
    /\ w.revoked /\ w.who \notin Legacy => w.grev < grev[w.who]

AuthorityInv == StoreTypes /\ WorkListed /\ WorkMarked

-----------------------------------------------------------------------------
LEMMA OthersKept ==
  ASSUME NEW s \in Seq(Entry), NEW a
  PROVE  /\ Others(s, a) \in Seq(Entry)
         /\ Holders(s) \ {a} \subseteq Holders(Others(s, a))
  <1> DEFINE mine == {i \in DOMAIN s : s[i].who = a}
             at(j) == IF \E i \in mine : i <= j THEN j + 1 ELSE j
  <1>1. CASE mine = {}  BY <1>1 DEF Others
  <1>2. CASE mine # {}
    <2>1. PICK m \in mine : TRUE  BY <1>2
    <2>2. m \in 1 .. Len(s) /\ Len(s) \in Nat /\ DOMAIN s = 1 .. Len(s)  BY <2>1
    <2>3. Others(s, a) = [j \in 1 .. Len(s) - 1 |-> s[at(j)]]  BY <1>2 DEF Others
    <2>4. ASSUME NEW j \in 1 .. Len(s) - 1 PROVE at(j) \in DOMAIN s
      BY <2>2
    <2>5. \A j \in 1 .. Len(s) - 1 : s[at(j)] \in Entry  BY <2>2, <2>4
    <2> HIDE DEF at
    <2>6. Others(s, a) \in Seq(Entry)
      BY <2>2, <2>3, <2>5, IsASeq
    <2>7. ASSUME NEW i \in DOMAIN s, s[i].who # a
          PROVE  \E j \in DOMAIN Others(s, a) : Others(s, a)[j].who = s[i].who
      <3>1. CASE \E k \in mine : k < i
        <4>1. i - 1 \in 1 .. Len(s) - 1 /\ at(i - 1) = i  BY <2>2, <3>1 DEF at
        <4> QED  BY <2>3, <4>1
      <3>2. CASE ~\E k \in mine : k < i
        <4>1. i \notin mine  BY <2>7
        <4>2. i \in 1 .. Len(s) - 1 /\ at(i) = i  BY <2>1, <2>2, <3>2, <4>1 DEF at
        <4> QED  BY <2>3, <4>2
      <3> QED  BY <3>1, <3>2
    <2> QED  BY <2>6, <2>7 DEF Holders
  <1> QED  BY <1>1, <1>2

LEMMA HoldersAppend ==
  ASSUME NEW s \in Seq(Entry), NEW e \in Entry
  PROVE  Holders(Append(s, e)) = Holders(s) \cup {e.who}
  <1>1. /\ Append(s, e) \in Seq(Entry) /\ Len(Append(s, e)) = Len(s) + 1
        /\ Append(s, e)[Len(s) + 1] = e
        /\ \A j \in 1 .. Len(s) : Append(s, e)[j] = s[j]
    BY AppendProperties
  <1>2. DOMAIN s = 1 .. Len(s) /\ DOMAIN Append(s, e) = 1 .. Len(s) + 1 /\ Len(s) \in Nat
    BY <1>1
  <1> QED  BY <1>1, <1>2 DEF Holders

(* An add lifts the denial of one account and takes nobody's grant.        *)
LEMMA AddDoes ==
  ASSUME NEW pol, PolicyShape(pol), NEW n \in Names, NEW a \in Players
  PROVE  /\ PolicyShape(PolicyAdd(pol, n, a))
         /\ \A b : Denied(PolicyAdd(pol, n, a), b) <=> Denied(pol, b) /\ b # a
         /\ \A bnd, b : HasEntry(pol, bnd, b) => HasEntry(PolicyAdd(pol, n, a), bnd, b)
  <1> DEFINE p == PolicyAdd(pol, n, a)
             new == [tag |-> n, who |-> a]
             left == Others(pol.grants, a)
  <1>1. pol.grants \in Seq(Entry)  BY DEF PolicyShape
  <1>2. left \in Seq(Entry) /\ Holders(pol.grants) \ {a} \subseteq Holders(left)
    BY <1>1, OthersKept
  <1>3. new \in Entry  BY DEF Entry
  <1>4. /\ p.grants = Append(left, new)
        /\ p.deniedXuids = pol.deniedXuids \ {a} /\ p.deniedUuids = pol.deniedUuids \ {a}
        /\ p \in [grants : {p.grants}, pending : {p.pending}, deniedNames : {p.deniedNames},
                  deniedXuids : {p.deniedXuids}, deniedUuids : {p.deniedUuids}]
    BY DEF PolicyShape, PolicyAdd
  <1> HIDE DEF p, new, left
  <1>5. Append(left, new) \in Seq(Entry)  BY <1>2, <1>3, AppendProperties
  <1>6. PolicyShape(p)  BY <1>4, <1>5 DEF PolicyShape
  <1>7. \A b : Denied(p, b) <=> Denied(pol, b) /\ b # a  BY <1>4 DEF Denied
  <1>8. Holders(pol.grants) \subseteq Holders(p.grants)
    <2>1. Holders(p.grants) = Holders(left) \cup {a}
      BY <1>2, <1>3, <1>4, HoldersAppend DEF new
    <2> QED  BY <1>2, <2>1
  <1>9. \A bnd, b : HasEntry(pol, bnd, b) => HasEntry(p, bnd, b)  BY <1>8 DEF HasEntry
  <1> QED  BY <1>6, <1>7, <1>9 DEF p

LEMMA PendingAddDoes ==
  ASSUME NEW pol, PolicyShape(pol), NEW n
  PROVE  /\ PolicyShape(PolicyAddPending(pol, n))
         /\ \A b : Denied(PolicyAddPending(pol, n), b) <=> Denied(pol, b)
         /\ \A bnd, b : HasEntry(pol, bnd, b) => HasEntry(PolicyAddPending(pol, n), bnd, b)
  BY DEF PolicyShape, PolicyAddPending, Denied, HasEntry

(* A remove denies more and keeps the grants.                              *)
LEMMA RemoveDoes ==
  ASSUME PolicyShape(policy), NEW t
  PROVE  /\ PolicyShape(PolicyRemove(t))
         /\ \A b : Denied(policy, b) => Denied(PolicyRemove(t), b)
         /\ \A bnd, b : HasEntry(policy, bnd, b) => HasEntry(PolicyRemove(t), bnd, b)
  BY DEF PolicyShape, PolicyRemove, Denied, HasEntry

LEMMA BindDoes ==
  ASSUME NEW b \in Seq(Entry), NEW n \in Names, NEW a \in Players
  PROVE  /\ Append(b, [tag |-> n, who |-> a]) \in Seq(Entry)
         /\ Holders(b) \subseteq Holders(Append(b, [tag |-> n, who |-> a]))
  <1>1. [tag |-> n, who |-> a] \in Entry  BY DEF Entry
  <1> QED  BY <1>1, AppendProperties, HoldersAppend

(* Every entry is of a player, so the console's name leads to an account.  *)
LEMMA EntriesArePlayers ==
  ASSUME StoreTypes
  PROVE  \A i \in DOMAIN Bindings : Bindings[i].who \in Players
  <1>1. policy.grants \in Seq(Entry) /\ bound \in Seq(Entry)  BY DEF StoreTypes, PolicyShape
  <1>2. Bindings \in Seq(Entry)  BY <1>1, ConcatProperties DEF Bindings
  <1>3. \A i \in DOMAIN Bindings : Bindings[i] \in Entry  BY <1>2
  <1> QED  BY <1>3 DEF Entry

LEMMA TargetKnown ==
  ASSUME StoreTypes, NEW n
  PROVE  Target(n) \subseteq Accounts
  BY EntriesArePlayers DEF Target, OnlineAs, Players

LEMMA ListedIsReported ==
  ASSUME StoreTypes, NEW a \in Players, HasEntry(policy, bound, a)
  PROVE  a \in Reported
  <1>1. policy.grants \in Seq(Entry) /\ bound \in Seq(Entry)  BY DEF StoreTypes, PolicyShape
  <1> DEFINE all == bound \o policy.grants
  <1>2. /\ Len(all) = Len(bound) + Len(policy.grants)
        /\ \A i \in 1 .. Len(all) : all[i] = IF i <= Len(bound) THEN bound[i]
                                             ELSE policy.grants[i - Len(bound)]
        /\ DOMAIN all = 1 .. Len(all) /\ Len(bound) \in Nat /\ Len(policy.grants) \in Nat
    BY <1>1, ConcatProperties
  <1> HIDE DEF all
  <1>3. CASE a \in Holders(bound)
    <2>1. PICK i \in 1 .. Len(bound) : bound[i].who = a  BY <1>1, <1>3 DEF Holders
    <2>2. i \in DOMAIN all /\ all[i] = bound[i]  BY <1>2
    <2> QED  BY <2>1, <2>2 DEF Reported, Bindings, all
  <1>4. CASE a \in Holders(policy.grants)
    <2>1. PICK i \in 1 .. Len(policy.grants) : policy.grants[i].who = a
      BY <1>1, <1>4 DEF Holders
    <2>2. i + Len(bound) \in DOMAIN all /\ all[i + Len(bound)] = policy.grants[i]  BY <1>2
    <2> QED  BY <2>1, <2>2 DEF Reported, Bindings, all
  <1> QED  BY <1>3, <1>4 DEF HasEntry

-----------------------------------------------------------------------------
(* Steps that give nobody a new denial leave the work as it is.            *)
LEMMA NothingRevoked ==
  ASSUME AuthorityInv, work' \subseteq work, grev' = grev,
         \A b : HasEntry(policy, bound, b) => HasEntry(policy', bound', b),
         \A b : Denied(policy', b) => Denied(policy, b)
  PROVE  WorkListed' /\ WorkMarked'
  BY DEF AuthorityInv, WorkListed, WorkMarked

(* A join may enroll one account that is not denied, and may bind it.      *)
LEMMA JoinDoes ==
  ASSUME StoreTypes, NEW a \in Accounts, NEW n \in Names, Join(a, n)
  PROVE  /\ PolicyShape(policy') /\ bound' \in Seq(Entry)
         /\ \A b : HasEntry(policy, bound, b) => HasEntry(policy', bound', b)
         /\ \A b : Denied(policy', b) <=> Denied(policy, b)
  <1> DEFINE added == PolicyAdd(policy, n, a)
             bindings == Append(bound, [tag |-> n, who |-> a])
  <1>1. /\ policy' = policy \/ (Enrolls(n, a) /\ policy' = added)
        /\ bound' = bound \/ (Binds(policy, n, a) /\ bound' = bindings)
                          \/ (Binds(added, n, a) /\ bound' = bindings)
    <2> HIDE DEF added, bindings
    <2> QED  BY DEF Join, added, bindings
  <1>2. PolicyShape(policy) /\ bound \in Seq(Entry)  BY DEF StoreTypes
  <1>3. /\ PolicyShape(policy')
        /\ \A bnd, b : HasEntry(policy, bnd, b) => HasEntry(policy', bnd, b)
        /\ \A b : Denied(policy', b) <=> Denied(policy, b)
    <2>1. CASE policy' = policy  BY <1>2, <2>1
    <2>2. CASE Enrolls(n, a) /\ policy' = added
      <3>1. a \in Players /\ ~Denied(policy, a)  BY <2>2 DEF Enrolls
      <3> QED  BY <1>2, <2>2, <3>1, AddDoes
    <2> QED  BY <1>1, <2>1, <2>2
  <1>4. bound' \in Seq(Entry) /\ Holders(bound) \subseteq Holders(bound')
    <2>1. CASE bound' = bound  BY <1>2, <2>1
    <2>2. CASE bound' = bindings /\ (Binds(policy, n, a) \/ Binds(added, n, a))
      <3>1. a \in Players  BY <2>2 DEF Binds
      <3> QED  BY <1>2, <2>2, <3>1, BindDoes
    <2> QED  BY <1>1, <2>1, <2>2
  <1>5. \A b : HasEntry(policy, bound, b) => HasEntry(policy', bound', b)
    BY <1>3, <1>4 DEF HasEntry
  <1> QED  BY <1>3, <1>4, <1>5

LEMMA JoinKeeps ==
  ASSUME AuthorityInv, NEW a \in Accounts, NEW n \in Names, Join(a, n)
  PROVE  AuthorityInv'
  <1>1. StoreTypes  BY DEF AuthorityInv
  <1>2. online' = [online EXCEPT ![a] = n] /\ UNCHANGED <<grev, grevFile, work>>
    BY DEF Join, ComesAs
  <1>3. /\ PolicyShape(policy') /\ bound' \in Seq(Entry)
        /\ \A b : HasEntry(policy, bound, b) => HasEntry(policy', bound', b)
        /\ \A b : Denied(policy', b) <=> Denied(policy, b)
    BY <1>1, JoinDoes
  <1>4. StoreTypes'  BY <1>1, <1>2, <1>3 DEF StoreTypes, PolicyShape
  <1>5. WorkListed' /\ WorkMarked'  BY <1>2, <1>3, NothingRevoked
  <1> QED  BY <1>4, <1>5 DEF AuthorityInv

(* The policy after an add.                                                *)
LEMMA AddSteps ==
  ASSUME StoreTypes, NEW n \in Names, NEW role, Add(n, role)
  PROVE  /\ PolicyShape(policy')
         /\ \A bnd, b : HasEntry(policy, bnd, b) => HasEntry(policy', bnd, b)
         /\ \A b : Denied(policy', b) => Denied(policy, b)
         /\ \A b : Denied(policy, b) /\ ~Denied(policy', b) => b \in Target(n)
  <1> DEFINE a == CHOOSE x \in Target(n) : TRUE
  <1>1. \/ policy' = policy
        \/ Target(n) = {} /\ policy' = PolicyAddPending(policy, n)
        \/ /\ Target(n) # {} /\ Target(n) \cap Bots = {}
           /\ policy' = PolicyAdd(policy, n, a)
    BY DEF Add
  <1>2. PolicyShape(policy)  BY DEF StoreTypes
  <1>3. CASE policy' = policy  BY <1>2, <1>3
  <1>4. CASE policy' = PolicyAddPending(policy, n)  BY <1>2, <1>4, PendingAddDoes
  <1>5. CASE /\ Target(n) # {} /\ Target(n) \cap Bots = {}
             /\ policy' = PolicyAdd(policy, n, a)
    <2>1. a \in Target(n) /\ a \in Players  BY <1>5, TargetKnown DEF Players
    <2> HIDE DEF a
    <2> QED  BY <1>2, <1>5, <2>1, AddDoes
  <1> QED  BY <1>1, <1>3, <1>4, <1>5

LEMMA AddKeeps ==
  ASSUME AuthorityInv, NEW n \in Names, NEW role, Add(n, role)
  PROVE  AuthorityInv'
  <1>1. StoreTypes /\ UNCHANGED <<online, bound, grev, grevFile, work>>
    BY DEF AuthorityInv, Add
  <1>2. /\ PolicyShape(policy')
        /\ \A bnd, b : HasEntry(policy, bnd, b) => HasEntry(policy', bnd, b)
        /\ \A b : Denied(policy', b) => Denied(policy, b)
    BY <1>1, AddSteps
  <1>3. StoreTypes'  BY <1>1, <1>2 DEF StoreTypes, PolicyShape
  <1>4. WorkListed' /\ WorkMarked'  BY <1>1, <1>2, NothingRevoked
  <1> QED  BY <1>3, <1>4 DEF AuthorityInv

(* A remove: who is denied by it has its revision raised in the same step. *)
LEMMA RevokeDoes ==
  ASSUME StoreTypes, NEW t, NEW n, Revoke(t, n)
  PROVE  /\ PolicyShape(policy')
         /\ \A bnd, b : HasEntry(policy, bnd, b) => HasEntry(policy', bnd, b)
         /\ \A b : Denied(policy, b) => Denied(policy', b)
         /\ grev' \in [Accounts -> Nat] /\ grevFile' \in [Accounts -> Nat]
         /\ \A b \in Accounts : grev[b] <= grev'[b]
         /\ \A b \in Reported : Denied(policy', b) /\ ~Denied(policy, b) => grev[b] < grev'[b]
         /\ work' = {[w EXCEPT !.revoked = @ \/ Denied(policy', w.who)] : w \in work}
         /\ UNCHANGED <<online, bound>>
  <1> DEFINE pol == PolicyRemove(t)
             bumped == Bumped(pol)
  <1>1. PICK wrote \in BOOLEAN :
          /\ policy' = IF wrote THEN pol ELSE policy
          /\ grev' = [a \in Accounts |-> IF wrote /\ a \in bumped THEN grev[a] + 1 ELSE grev[a]]
          /\ grevFile' \in {grev', grevFile}
    <2> HIDE DEF pol, bumped
    <2>1. PICK done \in Nat :
            /\ policy' = IF done >= 1 THEN pol ELSE policy
            /\ grev' = [a \in Accounts |-> IF done >= 1 /\ a \in bumped THEN grev[a] + 1 ELSE grev[a]]
            /\ grevFile' \in {grev', grevFile}
      BY DEF Revoke, pol, bumped
    <2> QED  BY <2>1
  <1>2. PolicyShape(policy) /\ grev \in [Accounts -> Nat] /\ grevFile \in [Accounts -> Nat]
    BY DEF StoreTypes
  <1>3. /\ PolicyShape(pol)
        /\ \A b : Denied(policy, b) => Denied(pol, b)
        /\ \A bnd, b : HasEntry(policy, bnd, b) => HasEntry(pol, bnd, b)
    BY <1>2, RemoveDoes
  <1>4. \A b \in Reported : Denied(pol, b) => b \in bumped /\ b \in Accounts
    BY DEF Bumped, Reported, Players
  <1>5. /\ work' = {[w EXCEPT !.revoked = @ \/ Denied(policy', w.who)] : w \in work}
        /\ UNCHANGED <<online, bound>>
    BY DEF Revoke
  <1> HIDE DEF pol, bumped
  <1>6. /\ grev' \in [Accounts -> Nat] /\ grevFile' \in [Accounts -> Nat]
        /\ \A b \in Accounts : grev[b] <= grev'[b]
    BY <1>1, <1>2
  <1>7. ASSUME NEW b \in Reported, Denied(policy', b), ~Denied(policy, b)
        PROVE  grev[b] < grev'[b]
    <2>1. wrote /\ policy' = pol  BY <1>1, <1>7
    <2>2. b \in Accounts /\ b \in bumped  BY <1>4, <1>7, <2>1
    <2> QED  BY <1>1, <1>2, <2>1, <2>2
  <1> QED  BY <1>1, <1>2, <1>3, <1>5, <1>6, <1>7

(* Marking work as revoked.                                                *)
LEMMA Marked ==
  ASSUME NEW w \in Work, NEW mark \in BOOLEAN
  PROVE  /\ [w EXCEPT !.revoked = @ \/ mark] \in Work
         /\ [w EXCEPT !.revoked = @ \/ mark].who = w.who
         /\ [w EXCEPT !.revoked = @ \/ mark].grev = w.grev
         /\ [w EXCEPT !.revoked = @ \/ mark].revoked = (w.revoked \/ mark)
  BY DEF Work

LEMMA RevokeKeeps ==
  ASSUME AuthorityInv, NEW t, NEW n, Revoke(t, n)
  PROVE  AuthorityInv'
  <1>1. StoreTypes /\ work \subseteq Work  BY DEF AuthorityInv, StoreTypes
  <1>2. /\ PolicyShape(policy')
        /\ \A bnd, b : HasEntry(policy, bnd, b) => HasEntry(policy', bnd, b)
        /\ \A b : Denied(policy, b) => Denied(policy', b)
        /\ grev' \in [Accounts -> Nat] /\ grevFile' \in [Accounts -> Nat]
        /\ \A b \in Accounts : grev[b] <= grev'[b]
        /\ \A b \in Reported : Denied(policy', b) /\ ~Denied(policy, b) => grev[b] < grev'[b]
        /\ work' = {[w EXCEPT !.revoked = @ \/ Denied(policy', w.who)] : w \in work}
        /\ UNCHANGED <<online, bound>>
    BY <1>1, RevokeDoes
  <1> DEFINE marked(w) == [w EXCEPT !.revoked = @ \/ Denied(policy', w.who)]
  <1>3. \A w \in work : /\ marked(w) \in Work /\ marked(w).who = w.who /\ marked(w).grev = w.grev
                        /\ marked(w).revoked = (w.revoked \/ Denied(policy', w.who))
    <2> SUFFICES ASSUME NEW w \in work
                 PROVE  /\ marked(w) \in Work /\ marked(w).who = w.who /\ marked(w).grev = w.grev
                        /\ marked(w).revoked = (w.revoked \/ Denied(policy', w.who))
      OBVIOUS
    <2>1. Denied(policy', w.who) \in BOOLEAN  BY DEF Denied
    <2> QED  BY <1>1, <2>1, Marked
  <1>4. work' = {marked(w) : w \in work}  BY <1>2
  <1> HIDE DEF marked
  <1>5. StoreTypes'
    <2>1. work' \subseteq Work  BY <1>3, <1>4
    <2> QED  BY <1>1, <1>2, <2>1 DEF StoreTypes, PolicyShape
  <1>6. WorkListed'
    BY <1>2, <1>3, <1>4 DEF AuthorityInv, WorkListed
  <1>7. ASSUME NEW w \in work
        PROVE  /\ w.grev <= grev'[w.who]
               /\ w.revoked \/ Denied(policy', w.who) =>
                    w.who \in Legacy \/ w.grev < grev'[w.who]
    <2>1. w \in Work  BY <1>1
    <2>2. /\ w.who \in Players /\ w.who \in Accounts /\ w.grev \in Nat
          /\ grev[w.who] \in Nat /\ grev'[w.who] \in Nat /\ grev[w.who] <= grev'[w.who]
      BY <1>1, <1>2, <2>1 DEF Work, Players, StoreTypes
    <2>3. /\ w.grev <= grev[w.who]
          /\ Denied(policy, w.who) => w.revoked
          /\ w.revoked /\ w.who \notin Legacy => w.grev < grev[w.who]
          /\ w.who \in Legacy \/ HasEntry(policy, bound, w.who)
      BY DEF AuthorityInv, WorkMarked, WorkListed
    <2>4. CASE w.revoked  BY <2>2, <2>3, <2>4
    <2>5. CASE ~w.revoked /\ Denied(policy', w.who) /\ w.who \notin Legacy
      <3>1. w.who \in Reported  BY <1>1, <2>2, <2>3, <2>5, ListedIsReported
      <3>2. grev[w.who] < grev'[w.who]  BY <1>2, <2>3, <2>5, <3>1
      <3> QED  BY <2>2, <2>3, <3>2
    <2> QED  BY <2>2, <2>3, <2>4, <2>5
  <1>8. WorkMarked'
    <2> SUFFICES ASSUME NEW x \in work'
                 PROVE  /\ x.grev <= grev'[x.who]
                        /\ Denied(policy', x.who) => x.revoked
                        /\ x.revoked /\ x.who \notin Legacy => x.grev < grev'[x.who]
      BY DEF WorkMarked, Denied
    <2>1. PICK w \in work : x = marked(w)  BY <1>4
    <2> QED  BY <1>3, <1>7, <2>1
  <1> QED  BY <1>5, <1>6, <1>8 DEF AuthorityInv

(* Only an account that may control, and so is in the report or on the     *)
(* legacy list, starts anything.                                           *)
LEMMA StartKeeps ==
  ASSUME AuthorityInv, NEW a \in Players, Start(a)
  PROVE  AuthorityInv'
  <1> DEFINE new == [who |-> a, name |-> online[a], grev |-> grev[a], revoked |-> FALSE]
  <1>1. /\ work' = work \cup {new}
        /\ UNCHANGED <<online, policy, bound, grev, grevFile>>
    BY DEF Start
  <1>2. /\ online \in [Accounts -> Names \cup {NoName}] /\ grev \in [Accounts -> Nat]
        /\ work \subseteq Work /\ a \in Accounts
    BY DEF AuthorityInv, StoreTypes, Players
  <1>3. ~Denied(policy, a) /\ (a \in Legacy \/ HasEntry(policy, bound, a))
    BY DEF Start, Allows, Decision, Granted, IsBound, HasEntry, Holders
  <1>4. /\ new \in Work /\ new.who = a /\ new.grev = grev[a] /\ new.revoked = FALSE
    BY <1>2 DEF Work
  <1> HIDE DEF new
  <1>5. StoreTypes'  BY <1>1, <1>2, <1>4 DEF AuthorityInv, StoreTypes, PolicyShape
  <1>6. WorkListed'  BY <1>1, <1>3, <1>4 DEF AuthorityInv, WorkListed, HasEntry
  <1>7. grev[a] \in Nat  BY <1>2
  <1>8. WorkMarked'  BY <1>1, <1>3, <1>4, <1>7 DEF AuthorityInv, WorkMarked, Denied
  <1> QED  BY <1>5, <1>6, <1>8 DEF AuthorityInv

LEMMA InitAuthority == Init => AuthorityInv
  <1> SUFFICES ASSUME Init PROVE AuthorityInv
    OBVIOUS
  <1>1. /\ online = [a \in Accounts |-> NoName] /\ policy = NoPolicy /\ bound = <<>>
        /\ grev = [a \in Accounts |-> 0] /\ grevFile = grev /\ work = {}
    BY DEF Init
  <1>2. PolicyShape(policy)  BY <1>1 DEF PolicyShape, NoPolicy
  <1> QED  BY <1>1, <1>2 DEF AuthorityInv, StoreTypes, WorkListed, WorkMarked

LEMMA NextAuthority ==
  ASSUME AuthorityInv, [Next]_vars
  PROVE  AuthorityInv'
  <1>1. ASSUME NEW n \in Names, NEW role, Add(n, role) PROVE AuthorityInv'
    BY <1>1, AddKeeps
  <1>2. ASSUME NEW t, NEW n, Revoke(t, n) PROVE AuthorityInv'
    BY <1>2, RevokeKeeps
  <1>3. CASE Console
    BY <1>1, <1>2, <1>3 DEF Console, RemoveName, RemoveXuid, RemoveUuid
  <1>4. ASSUME NEW a \in Accounts, NEW n \in Names, Join(a, n) PROVE AuthorityInv'
    BY <1>4, JoinKeeps
  <1>5. ASSUME NEW a \in Accounts, NEW n \in Names, JoinNotHandled(a, n) PROVE AuthorityInv'
    <2>1. /\ online' = [online EXCEPT ![a] = n]
          /\ UNCHANGED <<policy, bound, grev, grevFile, work>>
      BY <1>5 DEF JoinNotHandled, ComesAs
    <2> QED  BY <2>1 DEF AuthorityInv, StoreTypes, PolicyShape, WorkListed, WorkMarked, HasEntry, Denied
  <1>6. ASSUME NEW a \in Accounts, Quit(a) PROVE AuthorityInv'
    BY <1>6 DEF Quit, AuthorityInv, StoreTypes, PolicyShape, WorkListed, WorkMarked, HasEntry, Denied
  <1>7. CASE Presence  BY <1>4, <1>5, <1>6, <1>7 DEF Presence
  <1>8. ASSUME NEW a \in Players, Start(a) PROVE AuthorityInv'
    BY <1>8, StartKeeps
  <1>9. ASSUME NEW w \in work, End(w) PROVE AuthorityInv'
    BY <1>9 DEF End, AuthorityInv, StoreTypes, PolicyShape, WorkListed, WorkMarked, HasEntry, Denied
  <1>10. CASE Restart
    BY <1>10 DEF Restart, AuthorityInv, StoreTypes, PolicyShape, WorkListed, WorkMarked
  <1>11. CASE UNCHANGED vars
    BY <1>11 DEF vars, AuthorityInv, StoreTypes, PolicyShape, WorkListed, WorkMarked, HasEntry, Denied
  <1> QED  BY <1>3, <1>7, <1>8, <1>9, <1>10, <1>11 DEF Next

LEMMA AlwaysAuthority == Spec => []AuthorityInv
  BY InitAuthority, NextAuthority, PTL DEF Spec

(* authority.py `authorize`: work whose account was revoked while it ran is *)
(* never authorized again, whatever is granted, renamed or half written.    *)
THEOREM RevokedWorkStaysOver == Spec => []NoRevival
  <1>1. AuthorityInv => NoRevival
    <2> SUFFICES ASSUME AuthorityInv, NEW w \in work, w.revoked, w.who \notin Legacy
                 PROVE  ~Authorized(w)
      BY DEF NoRevival
    <2>1. w \in Work /\ w.grev < grev[w.who]
      BY DEF AuthorityInv, StoreTypes, WorkMarked
    <2>2. w.grev \in Nat /\ grev[w.who] \in Nat
      BY <2>1 DEF AuthorityInv, StoreTypes, Work, Players
    <2> QED  BY <2>1, <2>2 DEF Authorized
  <1> QED  BY <1>1, AlwaysAuthority, PTL

(* controller_policy.py `enroll`: "only a console add naming that account   *)
(* can" lift a revocation; nothing that joins, fails or restarts does.      *)
THEOREM RevocationsStick == Spec => RevocationSticks
  <1> DEFINE Lifted == \A a \in Players : Denied(policy, a) /\ ~Denied(policy', a) =>
                         \E n \in Names, role \in RoleNames \cup {Unknown} :
                           a \in Target(n) /\ Add(n, role)
  <1>1. AuthorityInv /\ [Next]_vars => [Lifted]_vars
    <2> SUFFICES ASSUME AuthorityInv, Next, NEW a \in Players, Denied(policy, a), ~Denied(policy', a)
                 PROVE  \E n \in Names, role \in RoleNames \cup {Unknown} :
                          a \in Target(n) /\ Add(n, role)
      OBVIOUS
    <2>0. StoreTypes  BY DEF AuthorityInv
    <2>1. ASSUME NEW n \in Names, NEW role \in RoleNames \cup {Unknown}, Add(n, role)
          PROVE  a \in Target(n)
      BY <2>0, <2>1, AddSteps
    <2>2. ASSUME NEW t, NEW n, Revoke(t, n) PROVE FALSE
      BY <2>0, <2>2, RevokeDoes
    <2>3. CASE Console
      BY <2>1, <2>2, <2>3 DEF Console, RemoveName, RemoveXuid, RemoveUuid
    <2>4. ASSUME NEW b \in Accounts, NEW n \in Names, Join(b, n) PROVE FALSE
      BY <2>0, <2>4, JoinDoes
    <2>5. CASE Presence
      BY <2>4, <2>5 DEF Presence, JoinNotHandled, Quit, Denied
    <2>6. CASE (\E b \in Players : Start(b)) \/ (\E w \in work : End(w)) \/ Restart
      BY <2>6 DEF Start, End, Restart, Denied
    <2> QED  BY <2>3, <2>5, <2>6 DEF Next
  <1>2. RevocationSticks <=> [][Lifted]_vars  BY DEF RevocationSticks
  <1> QED  BY <1>1, <1>2, AlwaysAuthority, PTL DEF Spec

-----------------------------------------------------------------------------
(***************************************************************************)
(* Roles.  While nobody changes a GamerTag, a role is owed to every        *)
(* account that is granted, or whose GamerTag waits to be, and that        *)
(* nothing denies, and it is noted, in memory and on disk, under the       *)
(* account or under its name.                                              *)
(***************************************************************************)
TagsKept(s) == \A i \in DOMAIN s : s[i].tag = NameOf[s[i].who]

ComeAsFirst == \A a \in Players : online[a] \in {NoName, NameOf[a]}

Owed(pol, b) ==
  {a \in Players : /\ ~Denied(pol, a)
                   /\ \/ NameOf[a] \in pol.pending
                      \/ a \in Holders(pol.grants) /\ a \notin Holders(b) /\ a \notin Legacy}

HasRole(r, a) == r.of[a] # Unknown \/ r.pending[NameOf[a]] # Unknown

Paid(r, pol, b) == \A a \in Owed(pol, b) : HasRole(r, a)

\* A name that is denied neither waits for its player nor is granted to one.
DeniedApart(pol) ==
  /\ \A a \in Players : NameOf[a] \in pol.pending => NameOf[a] \notin pol.deniedNames
  /\ \A a \in Holders(pol.grants) : NameOf[a] \in pol.deniedNames => Denied(pol, a)

KeptInv ==
  /\ ComeAsFirst /\ TagsKept(bound) /\ TagsKept(policy.grants) /\ DeniedApart(policy)
  /\ Paid(roles, policy, bound) /\ Paid(rolesFile, policy, bound)

RoleStores == roles \in RoleMaps /\ rolesFile \in RoleMaps

RoleInv == kept => RoleStores /\ KeptInv

\* A non-empty set of natural numbers has a least element, and a greatest one
\* when it is bounded.
LEMMA Least ==
  ASSUME NEW S, S \subseteq Nat, S # {}
  PROVE  \E m \in S : \A j \in S : m <= j
  <1>1. PICK m \in S : \A j \in S : ~(<<j, m>> \in OpToRel(<, Nat))
    BY NatLessThanWellFounded, WFMin
  <1>2. \A j \in S : ~(j < m)
    BY <1>1 DEF OpToRel
  <1> QED  BY <1>2

LEMMA Greatest ==
  ASSUME NEW n \in Nat, NEW S, S \subseteq 1 .. n, S # {}
  PROVE  \E m \in S : \A j \in S : j <= m
  <1> DEFINE T == {n - j : j \in S}
  <1>1. T \subseteq Nat /\ T # {}
    <2>1. \A j \in S : n - j \in Nat  OBVIOUS
    <2>2. T \subseteq Nat  BY <2>1
    <2>3. \E j \in S : n - j \in T  OBVIOUS
    <2> QED  BY <2>2, <2>3
  <1>2. PICK t \in T : \A u \in T : t <= u
    <2> HIDE DEF T
    <2> QED  BY <1>1, Least
  <1>3. PICK m \in S : t = n - m  BY <1>2
  <1>4. \A j \in S : n - m <= n - j  BY <1>2, <1>3
  <1> QED  BY <1>4

(* A recursive function along a sequence exists: a least length without one *)
(* would have one from the length before.                                  *)
Passes(f, target, s, n) ==
  f = [i \in 0 .. n |-> IF i = 0 THEN target ELSE Linked(f[i - 1], s[i])]

LEMMA PassesExist ==
  ASSUME NEW target, NEW s, NEW n \in Nat
  PROVE  \E f : Passes(f, target, s, n)
  <1> DEFINE Open == {k \in Nat : ~\E f : Passes(f, target, s, k)}
  <1>1. SUFFICES ASSUME Open # {} PROVE FALSE  OBVIOUS
  <1>2. PICK k \in Open : \A j \in Open : k <= j
    <2>1. Open \subseteq Nat  OBVIOUS
    <2> HIDE DEF Open
    <2> QED  BY <1>1, <2>1, Least
  <1>3. k \in Nat /\ ~\E f : Passes(f, target, s, k)  BY <1>2
  <1>4. CASE k = 0
    <2>1. Passes([i \in 0 .. 0 |-> target], target, s, 0)  BY DEF Passes
    <2> QED  BY <1>3, <1>4, <2>1
  <1>5. CASE k # 0
    <2>1. k - 1 \in Nat /\ k - 1 \notin Open  BY <1>2, <1>3, <1>5
    <2>2. PICK g : Passes(g, target, s, k - 1)  BY <2>1
    <2> DEFINE f == [i \in 0 .. k |-> IF i < k THEN g[i] ELSE Linked(g[k - 1], s[k])]
    <2>3. \A i \in 0 .. k - 1 : g[i] = IF i = 0 THEN target ELSE Linked(g[i - 1], s[i])
      BY <2>2, Zenon DEF Passes
    <2>4. ASSUME NEW i \in 0 .. k
          PROVE  f[i] = IF i = 0 THEN target ELSE Linked(f[i - 1], s[i])
      <3>1. CASE i < k
        <4>1. i \in 0 .. k - 1 /\ f[i] = g[i]  BY <1>3, <3>1
        <4>2. i # 0 => f[i - 1] = g[i - 1]  BY <1>3, <3>1
        <4> QED  BY <2>3, <4>1, <4>2
      <3>2. CASE i = k
        <4>1. f[k] = Linked(g[k - 1], s[k]) /\ f[k - 1] = g[k - 1]  BY <1>3, <1>5
        <4> QED  BY <1>5, <3>2, <4>1
      <3> QED  BY <1>3, <3>1, <3>2
    <2>5. f = [i \in 0 .. k |-> f[i]]  OBVIOUS
    <2> HIDE DEF f
    <2>6. Passes(f, target, s, k)  BY <2>4, <2>5, Zenon DEF Passes
    <2> QED  BY <1>3, <2>6
  <1> QED  BY <1>4, <1>5

(* What the two passes of a remove know at the end: the target's names with *)
(* the accounts of their entries, and names of other accounts it gathered.  *)
Gathered(known, target, s, i) ==
  /\ known = [names |-> known.names, xuids |-> known.xuids, uuids |-> known.uuids]
  /\ target.xuids \subseteq known.xuids
  /\ \A m \in known.names \ target.names :
       \E j \in 1 .. i : s[j].tag = m /\ s[j].who \in known.xuids
  /\ \A j \in 1 .. i : s[j].tag \in target.names => s[j].who \in known.xuids
  /\ target.names \subseteq known.names

LEMMA LinkedGathers ==
  ASSUME NEW target, NEW s, NEW i \in Nat, i # 0, NEW known, Gathered(known, target, s, i - 1)
  PROVE  Gathered(Linked(known, s[i]), target, s, i)
  <1> DEFINE e == s[i]
             next == Linked(known, e)
  <1>1. /\ next = [names |-> next.names, xuids |-> next.xuids, uuids |-> next.uuids]
        /\ \/ next = known /\ ~Related(known, e)
           \/ next.names = known.names \cup {e.tag} /\ next.xuids = known.xuids \cup {e.who}
    BY DEF Gathered, Linked
  <1>2. \A j \in 1 .. i : j \in 1 .. i - 1 \/ j = i  OBVIOUS
  <1>3. \A j \in 1 .. i - 1 : j \in 1 .. i  OBVIOUS
  <1>4. i \in 1 .. i  OBVIOUS
  <1> HIDE DEF next
  <1>5. CASE next = known /\ ~Related(known, e)
    <2>1. e.tag \notin target.names  BY <1>5 DEF Related, Gathered
    <2> QED  BY <1>2, <1>3, <1>5, <2>1 DEF Gathered, next
  <1>6. CASE next.names = known.names \cup {e.tag} /\ next.xuids = known.xuids \cup {e.who}
    <2>1. ASSUME NEW m \in next.names \ target.names
          PROVE  \E j \in 1 .. i : s[j].tag = m /\ s[j].who \in next.xuids
      BY <1>3, <1>4, <1>6, <2>1 DEF Gathered
    <2>2. ASSUME NEW j \in 1 .. i, s[j].tag \in target.names PROVE s[j].who \in next.xuids
      BY <1>2, <1>6, <2>2 DEF Gathered
    <2>3. target.xuids \subseteq next.xuids /\ target.names \subseteq next.names
      BY <1>6 DEF Gathered
    <2> QED  BY <1>1, <2>1, <2>2, <2>3, Zenon DEF Gathered, next
  <1> QED  BY <1>1, <1>5, <1>6

LEMMA PassesGather ==
  ASSUME NEW target, target = [names |-> target.names, xuids |-> target.xuids, uuids |-> target.uuids],
         NEW s, NEW n \in Nat, NEW f, Passes(f, target, s, n)
  PROVE  Gathered(f[n], target, s, n)
  <1> DEFINE Open == {k \in 0 .. n : ~Gathered(f[k], target, s, k)}
  <1>1. SUFFICES ASSUME Open # {} PROVE FALSE  OBVIOUS
  <1>2. PICK k \in Open : \A j \in Open : k <= j
    <2>1. Open \subseteq Nat  OBVIOUS
    <2> HIDE DEF Open
    <2> QED  BY <1>1, <2>1, Least
  <1>3. k \in 0 .. n /\ ~Gathered(f[k], target, s, k)  BY <1>2
  <1>4. \A i \in 0 .. n : f[i] = IF i = 0 THEN target ELSE Linked(f[i - 1], s[i])
    BY Zenon DEF Passes
  <1>5. CASE k = 0
    <2>1. Gathered(target, target, s, 0)  BY DEF Gathered
    <2> QED  BY <1>3, <1>4, <1>5, <2>1
  <1>6. CASE k # 0
    <2>1. k - 1 \in 0 .. n /\ k - 1 \notin Open /\ k \in Nat  BY <1>2, <1>3, <1>6
    <2>2. Gathered(f[k - 1], target, s, k - 1)  BY <2>1
    <2>3. Gathered(Linked(f[k - 1], s[k]), target, s, k)  BY <1>6, <2>1, <2>2, LinkedGathers
    <2> QED  BY <1>3, <1>4, <1>6, <2>3
  <1> QED  BY <1>5, <1>6

(* The aliases of a target: its names lead to the accounts of the entries  *)
(* under them, and any further name is that of an account it holds.        *)
LEMMA AliasesKnown ==
  ASSUME StoreTypes, NEW names, NEW xuids, NEW uuids
  PROVE  LET t == Aliases([names |-> names, xuids |-> xuids, uuids |-> uuids])
         IN /\ names \subseteq t.names /\ xuids \subseteq t.xuids
            /\ \A m \in t.names \ names :
                 \E j \in DOMAIN Bindings : Bindings[j].tag = m /\ Bindings[j].who \in t.xuids
            /\ \A j \in DOMAIN Bindings : Bindings[j].tag \in names => Bindings[j].who \in t.xuids
  <1> DEFINE target == [names |-> names, xuids |-> xuids, uuids |-> uuids]
             twice == Bindings \o Bindings
             f == CHOOSE g : Passes(g, target, twice, Len(twice))
  <1>1. Bindings \in Seq(Entry)
    BY ConcatProperties DEF Bindings, StoreTypes, PolicyShape
  <1>2. /\ Len(twice) = Len(Bindings) + Len(Bindings) /\ Len(Bindings) \in Nat /\ Len(twice) \in Nat
        /\ \A i \in 1 .. Len(twice) : twice[i] = IF i <= Len(Bindings) THEN Bindings[i]
                                                 ELSE Bindings[i - Len(Bindings)]
        /\ DOMAIN Bindings = 1 .. Len(Bindings)
    BY <1>1, ConcatProperties
  <1>3. Aliases(target) = f[Len(twice)]
    BY DEF Aliases, Passes
  <1>4. target = [names |-> target.names, xuids |-> target.xuids, uuids |-> target.uuids]
        /\ target.names = names /\ target.xuids = xuids
    OBVIOUS
  <1> HIDE DEF target, twice
  <1>5. Passes(f, target, twice, Len(twice))
    BY <1>2, PassesExist, Zenon
  <1> HIDE DEF f
  <1>6. Gathered(f[Len(twice)], target, twice, Len(twice))
    BY <1>2, <1>4, <1>5, PassesGather
  <1> DEFINE t == f[Len(twice)]
  <1> HIDE DEF t
  <1>7. ASSUME NEW m \in t.names \ names
        PROVE  \E j \in DOMAIN Bindings : Bindings[j].tag = m /\ Bindings[j].who \in t.xuids
    <2>1. PICK j \in 1 .. Len(twice) : twice[j].tag = m /\ twice[j].who \in t.xuids
      BY <1>4, <1>6, <1>7, Zenon DEF Gathered, t
    <2>2. PICK k \in DOMAIN Bindings : twice[j] = Bindings[k]
      <3>1. CASE j <= Len(Bindings)  BY <1>2, <3>1
      <3>2. CASE ~(j <= Len(Bindings))
        <4>1. j - Len(Bindings) \in 1 .. Len(Bindings)  BY <1>2, <3>2
        <4> QED  BY <1>2, <3>2, <4>1
      <3> QED  BY <3>1, <3>2
    <2> QED  BY <2>1, <2>2
  <1>8. ASSUME NEW j \in DOMAIN Bindings, Bindings[j].tag \in names PROVE Bindings[j].who \in t.xuids
    <2>1. j \in 1 .. Len(twice) /\ twice[j] = Bindings[j]  BY <1>2
    <2> QED  BY <1>4, <1>6, <1>8, <2>1 DEF Gathered, t
  <1>9. names \subseteq t.names /\ xuids \subseteq t.xuids  BY <1>4, <1>6 DEF Gathered, t
  <1> QED  BY <1>3, <1>7, <1>8, <1>9 DEF t, target

-----------------------------------------------------------------------------
(* Names, while each player has come under its first GamerTag only.        *)
NamesKept == ComeAsFirst /\ TagsKept(bound) /\ TagsKept(policy.grants)

LEMMA BindingsKept ==
  ASSUME StoreTypes, NamesKept
  PROVE  /\ Bindings \in Seq(Entry) /\ TagsKept(Bindings)
         /\ \A a : (\E i \in DOMAIN Bindings : Bindings[i].who = a) <=> HasEntry(policy, bound, a)
  <1>1. policy.grants \in Seq(Entry) /\ bound \in Seq(Entry)  BY DEF StoreTypes, PolicyShape
  <1> DEFINE all == bound \o policy.grants
  <1>2. /\ all \in Seq(Entry)
        /\ Len(all) = Len(bound) + Len(policy.grants)
        /\ \A i \in 1 .. Len(all) : all[i] = IF i <= Len(bound) THEN bound[i]
                                             ELSE policy.grants[i - Len(bound)]
        /\ DOMAIN all = 1 .. Len(all) /\ Len(bound) \in Nat /\ Len(policy.grants) \in Nat
        /\ DOMAIN bound = 1 .. Len(bound) /\ DOMAIN policy.grants = 1 .. Len(policy.grants)
    BY <1>1, ConcatProperties
  <1> HIDE DEF all
  <1>3. ASSUME NEW i \in DOMAIN all
        PROVE  \/ \E k \in DOMAIN bound : all[i] = bound[k]
               \/ \E k \in DOMAIN policy.grants : all[i] = policy.grants[k]
    <2>1. CASE i <= Len(bound)  BY <1>2, <2>1
    <2>2. CASE ~(i <= Len(bound))
      <3>1. i - Len(bound) \in DOMAIN policy.grants  BY <1>2, <2>2
      <3> QED  BY <1>2, <2>2, <3>1
    <2> QED  BY <2>1, <2>2
  <1>4. \A k \in DOMAIN bound : k \in DOMAIN all /\ all[k] = bound[k]  BY <1>2
  <1>5. \A k \in DOMAIN policy.grants : k + Len(bound) \in DOMAIN all /\ all[k + Len(bound)] = policy.grants[k]
    BY <1>2
  <1>6. TagsKept(all)  BY <1>3 DEF TagsKept, NamesKept
  <1>7. ASSUME NEW a
        PROVE  (\E i \in DOMAIN all : all[i].who = a) <=> HasEntry(policy, bound, a)
    <2>1. ASSUME NEW i \in DOMAIN all, all[i].who = a PROVE HasEntry(policy, bound, a)
      BY <1>3, <2>1 DEF HasEntry, Holders
    <2>2. ASSUME HasEntry(policy, bound, a) PROVE \E i \in DOMAIN all : all[i].who = a
      <3>1. CASE a \in Holders(bound)  BY <1>4, <3>1 DEF Holders
      <3>2. CASE a \in Holders(policy.grants)
        <4>1. PICK k \in DOMAIN policy.grants : policy.grants[k].who = a  BY <3>2 DEF Holders
        <4> QED  BY <1>5, <4>1
      <3> QED  BY <2>2, <3>1, <3>2 DEF HasEntry
    <2> QED  BY <2>1, <2>2
  <1>8. Bindings = all  BY DEF all, Bindings
  <1> QED  BY <1>2, <1>6, <1>7, <1>8

(* A row of the report is under the account's first GamerTag.              *)
LEMMA RowsKept ==
  ASSUME StoreTypes, NamesKept, NEW a \in Reported
  PROVE  /\ a \in Players /\ RowName(a) = NameOf[a]
         /\ online[a] = NameOf[a] \/ \E i \in DOMAIN Bindings : Bindings[i].tag = NameOf[a]
  <1>1. a \in Players  BY DEF Reported
  <1>2. Bindings \in Seq(Entry) /\ TagsKept(Bindings)  BY BindingsKept
  <1>3. CASE online[a] # NoName
    BY <1>1, <1>3 DEF RowName, NamesKept, ComeAsFirst
  <1>4. CASE online[a] = NoName
    <2> DEFINE mine == {i \in DOMAIN Bindings : Bindings[i].who = a}
               last == CHOOSE i \in mine : \A j \in mine : j <= i
    <2>1. mine \subseteq 1 .. Len(Bindings) /\ mine # {} /\ Len(Bindings) \in Nat
      BY <1>2, <1>4 DEF Reported
    <2>2. RowName(a) = Bindings[last].tag  BY <1>4, Zenon DEF RowName
    <2>3. \A i \in mine : i \in DOMAIN Bindings /\ Bindings[i].who = a  OBVIOUS
    <2> HIDE DEF mine
    <2>4. \E i \in mine : \A j \in mine : j <= i  BY <2>1, Greatest
    <2>5. last \in mine  BY <2>4
    <2> QED  BY <1>1, <1>2, <2>2, <2>3, <2>5 DEF TagsKept
  <1> QED  BY <1>3, <1>4

(* A GamerTag leads to the player it is of.                                *)
LEMMA TargetKept ==
  ASSUME StoreTypes, NamesKept, NEW n \in Names
  PROVE  /\ \A a \in Target(n) \cap Players : NameOf[a] = n
         /\ Target(n) = {} => /\ \A a \in Accounts : online[a] # n
                              /\ \A i \in DOMAIN Bindings : Bindings[i].tag # n
  <1>1. Bindings \in Seq(Entry) /\ TagsKept(Bindings)  BY BindingsKept
  <1> DEFINE named == {i \in DOMAIN Bindings : Bindings[i].tag = n}
  <1>2. CASE OnlineAs(n) # {}
    <2>1. Target(n) = OnlineAs(n)  BY <1>2 DEF Target
    <2>2. \A a \in OnlineAs(n) \cap Players : NameOf[a] = n
      BY AuthorityAssumption DEF OnlineAs, NamesKept, ComeAsFirst, Players
    <2> QED  BY <1>2, <2>1, <2>2
  <1>3. CASE OnlineAs(n) = {}
    <2>1. Target(n) = {Bindings[i].who : i \in {first \in named : \A j \in named : first <= j}}
      BY <1>3, Zenon DEF Target
    <2>2. \A a \in Accounts : online[a] # n  BY <1>3 DEF OnlineAs
    <2>3. named \subseteq Nat /\ \A i \in named : Bindings[i].tag = n /\ i \in DOMAIN Bindings
      BY <1>1
    <2>4. ASSUME Target(n) = {}, NEW i \in DOMAIN Bindings, Bindings[i].tag = n PROVE FALSE
      <3>1. named # {}  BY <2>4
      <3> HIDE DEF named
      <3>2. PICK m \in named : \A j \in named : m <= j  BY <2>3, <3>1, Least
      <3>3. Bindings[m].who \in Target(n)  BY <2>1, <3>2
      <3> QED  BY <2>4, <3>3
    <2> HIDE DEF named
    <2>5. \A a \in Target(n) : NameOf[a] = n
      BY <1>1, <2>1, <2>3 DEF TagsKept
    <2> QED  BY <2>2, <2>4, <2>5
  <1> QED  BY <1>2, <1>3

-----------------------------------------------------------------------------
(* Whom a policy owes a role.                                              *)
LEMMA OthersFrom ==
  ASSUME NEW s \in Seq(Entry), NEW a
  PROVE  \A j \in DOMAIN Others(s, a) : \E i \in DOMAIN s : Others(s, a)[j] = s[i]
  <1> DEFINE mine == {i \in DOMAIN s : s[i].who = a}
             at(j) == IF \E i \in mine : i <= j THEN j + 1 ELSE j
  <1>1. CASE mine = {}  BY <1>1 DEF Others
  <1>2. CASE mine # {}
    <2>1. Len(s) \in Nat /\ DOMAIN s = 1 .. Len(s)  OBVIOUS
    <2>2. Others(s, a) = [j \in 1 .. Len(s) - 1 |-> s[at(j)]]  BY <1>2 DEF Others
    <2>3. \A j \in 1 .. Len(s) - 1 : at(j) \in DOMAIN s  BY <2>1
    <2> HIDE DEF at
    <2> QED  BY <2>2, <2>3
  <1> QED  BY <1>1, <1>2

LEMMA AddOwes ==
  ASSUME NEW pol, PolicyShape(pol), NEW a \in Players, TagsKept(pol.grants), DeniedApart(pol), NEW b
  PROVE  LET p == PolicyAdd(pol, NameOf[a], a)
         IN TagsKept(p.grants) /\ DeniedApart(p) /\ Owed(p, b) \subseteq Owed(pol, b) \cup {a}
  <1> DEFINE n == NameOf[a]
             p == PolicyAdd(pol, n, a)
             new == [tag |-> n, who |-> a]
             left == Others(pol.grants, a)
  <1>1. n \in Names  BY AuthorityAssumption DEF Players
  <1>2. pol.grants \in Seq(Entry)  BY DEF PolicyShape
  <1>3. left \in Seq(Entry)  BY <1>2, OthersKept
  <1>4. \A j \in DOMAIN left : \E i \in DOMAIN pol.grants : left[j] = pol.grants[i]
    BY <1>2, OthersFrom
  <1>5. new \in Entry /\ new.tag = n /\ new.who = a  BY <1>1 DEF Entry
  <1>6. /\ p.grants = Append(left, new)
        /\ p.pending = pol.pending \ {n} /\ p.deniedNames = pol.deniedNames \ {n}
        /\ p.deniedXuids = pol.deniedXuids \ {a} /\ p.deniedUuids = pol.deniedUuids \ {a}
    BY DEF PolicyShape, PolicyAdd
  <1> HIDE DEF p, new, left
  <1>7. \A j \in DOMAIN p.grants : (j \in DOMAIN left /\ p.grants[j] = left[j]) \/ p.grants[j] = new
    <2>1. /\ Append(left, new) \in Seq(Entry) /\ Len(Append(left, new)) = Len(left) + 1
          /\ Append(left, new)[Len(left) + 1] = new
          /\ \A j \in 1 .. Len(left) : Append(left, new)[j] = left[j]
      BY <1>3, <1>5, AppendProperties
    <2>2. DOMAIN left = 1 .. Len(left) /\ DOMAIN p.grants = 1 .. Len(left) + 1 /\ Len(left) \in Nat
      BY <1>3, <1>6, <2>1
    <2> QED  BY <1>6, <2>1, <2>2
  <1>8. TagsKept(p.grants)
    BY <1>4, <1>5, <1>7 DEF TagsKept, n
  <1>9. Holders(p.grants) \subseteq Holders(pol.grants) \cup {a}
    BY <1>4, <1>5, <1>7 DEF Holders
  <1>10. \A x : Denied(p, x) <=> Denied(pol, x) /\ x # a  BY <1>6 DEF Denied
  <1>11. DeniedApart(p)  BY <1>6, <1>9, <1>10 DEF DeniedApart, n
  <1>12. Owed(p, b) \subseteq Owed(pol, b) \cup {a}
    BY <1>6, <1>9, <1>10 DEF Owed
  <1> QED  BY <1>8, <1>11, <1>12 DEF p, n

LEMMA PendingAddOwes ==
  ASSUME NEW pol, PolicyShape(pol), NEW n, TagsKept(pol.grants), DeniedApart(pol), NEW b
  PROVE  LET p == PolicyAddPending(pol, n)
         IN /\ TagsKept(p.grants) /\ DeniedApart(p)
            /\ \A x \in Owed(p, b) : x \in Owed(pol, b) \/ NameOf[x] = n
  <1> DEFINE p == PolicyAddPending(pol, n)
  <1>1. /\ p.grants = pol.grants /\ p.pending = pol.pending \cup {n}
        /\ p.deniedNames = pol.deniedNames \ {n}
        /\ p.deniedXuids = pol.deniedXuids /\ p.deniedUuids = pol.deniedUuids
    BY DEF PolicyShape, PolicyAddPending
  <1> HIDE DEF p
  <1>2. TagsKept(p.grants)  BY <1>1
  <1>3. DeniedApart(p)  BY <1>1 DEF DeniedApart, Denied
  <1>4. \A x \in Owed(p, b) : x \in Owed(pol, b) \/ NameOf[x] = n
    BY <1>1 DEF Owed, Denied
  <1> QED  BY <1>2, <1>3, <1>4 DEF p

LEMMA RemoveOwes ==
  ASSUME PolicyShape(policy), NEW t, DeniedApart(policy), NEW b,
         \A x \in Holders(policy.grants) : NameOf[x] \in t.names => x \in t.xuids
  PROVE  LET p == PolicyRemove(t)
         IN /\ p.grants = policy.grants /\ DeniedApart(p) /\ Owed(p, b) \subseteq Owed(policy, b)
            /\ \A x \in Owed(p, b) : NameOf[x] \notin p.deniedNames
            /\ t.names \subseteq p.deniedNames
  <1> DEFINE p == PolicyRemove(t)
  <1>1. /\ p.grants = policy.grants /\ p.pending = policy.pending \ t.names
        /\ p.deniedNames = policy.deniedNames \cup t.names
        /\ p.deniedXuids = policy.deniedXuids \cup t.xuids
        /\ p.deniedUuids = policy.deniedUuids \cup t.uuids
    BY DEF PolicyShape, PolicyRemove
  <1> HIDE DEF p
  <1>2. DeniedApart(p)  BY <1>1 DEF DeniedApart, Denied
  <1>3. Owed(p, b) \subseteq Owed(policy, b)  BY <1>1 DEF Owed, Denied
  <1>4. \A x \in Owed(p, b) : NameOf[x] \notin p.deniedNames  BY <1>2 DEF Owed, DeniedApart
  <1> QED  BY <1>1, <1>2, <1>3, <1>4 DEF p

\* A binding leaves fewer accounts to owe a role.
LEMMA BindOwes ==
  ASSUME NEW pol, NEW b, NEW c, Holders(b) \subseteq Holders(c)
  PROVE  Owed(pol, c) \subseteq Owed(pol, b)
  BY DEF Owed

-----------------------------------------------------------------------------
(* The saves of the roles.                                                 *)
LEMMA RolesSaved ==
  ASSUME NEW G, NEW vs \in Seq(G), NEW done \in 0 .. Len(vs), SaveRoles(vs, done),
         roles \in G, rolesFile \in G
  PROVE  /\ roles' \in G /\ rolesFile' \in G
         /\ vs # <<>> /\ done = Len(vs) => roles' = vs[Len(vs)] /\ rolesFile' = vs[Len(vs)]
         /\ vs = <<>> => UNCHANGED <<roles, rolesFile>>
  <1>1. CASE vs = <<>>  BY <1>1 DEF SaveRoles
  <1>2. CASE vs # <<>>
    <2>1. Len(vs) \in Nat \ {0} /\ \A i \in 1 .. Len(vs) : vs[i] \in G  BY <1>2, EmptySeq
    <2>2. /\ roles' = vs[IF done < Len(vs) THEN done + 1 ELSE done]
          /\ rolesFile' = IF done = 0 THEN rolesFile ELSE vs[done]
      BY <1>2 DEF SaveRoles
    <2> QED  BY <1>2, <2>1, <2>2
  <1> QED  BY <1>1, <1>2

\* What the two ways of changing the roles do.
LEMMA OfSet ==
  ASSUME NEW r \in RoleMaps, NEW of \in [Accounts -> RoleNames \cup {Unknown}]
  PROVE  LET s == [r EXCEPT !.of = of]
         IN s \in RoleMaps /\ s.of = of /\ s.pending = r.pending
  BY DEF RoleMaps

LEMMA PendingSet ==
  ASSUME NEW r \in RoleMaps, NEW n \in Names, NEW role \in RoleNames \cup {Unknown}
  PROVE  LET s == [r EXCEPT !.pending[n] = role]
         IN /\ s \in RoleMaps /\ s.of = r.of
            /\ s.pending[n] = role /\ \A m \in Names \ {n} : s.pending[m] = r.pending[m]
  <1> DEFINE p == [r.pending EXCEPT ![n] = role]
  <1>1. p \in [Names -> RoleNames \cup {Unknown}] /\ p[n] = role
        /\ \A m \in Names \ {n} : p[m] = r.pending[m]
    BY DEF RoleMaps
  <1>2. [r EXCEPT !.pending[n] = role] = [r EXCEPT !.pending = p]  BY DEF RoleMaps
  <1> HIDE DEF p
  <1>3. [r EXCEPT !.pending = p] \in RoleMaps /\ [r EXCEPT !.pending = p].of = r.of
        /\ [r EXCEPT !.pending = p].pending = p
    BY <1>1 DEF RoleMaps
  <1> QED  BY <1>1, <1>2, <1>3

\* The roles with which everybody a policy owes one has one.
Good(pol, b) == {r \in RoleMaps : Paid(r, pol, b)}

(* A join adopts the pending role of the player it is of.                  *)
LEMMA JoinPays ==
  ASSUME StoreTypes, RoleStores, KeptInv, NEW a \in Accounts, NEW n \in Names, Join(a, n), kept'
  PROVE  RoleStores' /\ KeptInv'
  <1> DEFINE G == Good(policy, bound)
             pol == IF Enrolls(n, a) THEN PolicyAdd(policy, n, a) ELSE policy
             bnd == IF Binds(pol, n, a) THEN Append(bound, [tag |-> n, who |-> a]) ELSE bound
             named == [roles EXCEPT !.of[a] = roles.pending[n]]
             gone == [named EXCEPT !.pending[n] = Unknown]
             vs == IF roles.pending[n] # Unknown /\ Decision(pol, bnd, n, a) THEN <<named, gone>> ELSE <<>>
  <1>1. n = NameOf[a] /\ online' = [online EXCEPT ![a] = n]  BY DEF Join, ComesAs
  <1>2. roles \in G /\ rolesFile \in G  BY DEF Good, KeptInv, RoleStores
  <1>3. PICK e \in {0, 1}, b \in {0, 1}, done \in Nat :
          /\ done <= e + b + Len(vs)
          /\ policy' = IF done >= e THEN pol ELSE policy
          /\ bound' = IF done >= e + b THEN bnd ELSE bound
          /\ IF done < e + b THEN UNCHANGED <<roles, rolesFile>> ELSE SaveRoles(vs, done - e - b)
    <2> HIDE DEF vs, bnd, pol
    <2> QED  BY DEF Join, vs, bnd, pol, named, gone
  <1>4. vs \in Seq(G) /\ Len(vs) \in Nat
    <2>1. CASE roles.pending[n] # Unknown /\ Decision(pol, bnd, n, a)
      <3>1. a \in Players  BY <2>1 DEF Decision
      <3> DEFINE of == [roles.of EXCEPT ![a] = roles.pending[n]]
      <3>2. roles.pending[n] \in RoleNames \cup {Unknown} /\ roles.of \in [Accounts -> RoleNames \cup {Unknown}]
        BY DEF RoleStores, RoleMaps
      <3>3. /\ of \in [Accounts -> RoleNames \cup {Unknown}] /\ of[a] # Unknown
            /\ \A x \in Accounts : roles.of[x] # Unknown => of[x] # Unknown
        BY <2>1, <3>2
      <3>4. named = [roles EXCEPT !.of = of]  BY DEF RoleStores, RoleMaps
      <3> HIDE DEF of
      <3> HIDE DEF named
      <3>5. named \in RoleMaps /\ named.of = of /\ named.pending = roles.pending
        <4> DEFINE set == [roles EXCEPT !.of = of]
        <4>1. set \in RoleMaps /\ set.of = of /\ set.pending = roles.pending
          BY <3>3, OfSet DEF RoleStores
        <4>2. named = set  BY <3>4
        <4> HIDE DEF set
        <4> QED  BY <4>1, <4>2
      <3>6. /\ gone \in RoleMaps /\ gone.of = of
            /\ \A m \in Names \ {n} : gone.pending[m] = roles.pending[m]
        BY <3>5, PendingSet
      <3> HIDE DEF gone
      <3>7. \A x \in Owed(policy, bound) :
              x \in Players /\ x \in Accounts /\ NameOf[x] \in Names /\ HasRole(roles, x)
        BY AuthorityAssumption DEF Owed, Players, KeptInv, Paid
      <3>8. \A x \in Owed(policy, bound) : HasRole(named, x)
        BY <3>3, <3>5, <3>7 DEF HasRole
      <3>9. \A x \in Owed(policy, bound) : HasRole(gone, x)
        <4> SUFFICES ASSUME NEW x \in Owed(policy, bound) PROVE HasRole(gone, x)
          OBVIOUS
        <4>1. CASE x = a  BY <3>3, <3>6, <4>1 DEF HasRole
        <4>2. CASE x # a
          <5>1. NameOf[x] # n  BY <1>1, <3>1, <3>7, <4>2, FirstNamesDiffer
          <5> QED  BY <3>3, <3>6, <3>7, <5>1 DEF HasRole
        <4> QED  BY <4>1, <4>2
      <3>10. named \in G /\ gone \in G  BY <3>5, <3>6, <3>8, <3>9 DEF Good, Paid
      <3>11. vs = <<named, gone>>  BY <2>1 DEF vs, named, gone
      <3> HIDE DEF vs, G
      <3> QED  BY <3>10, <3>11
    <2>2. CASE ~(roles.pending[n] # Unknown /\ Decision(pol, bnd, n, a))
      <3>1. vs = <<>>  BY <2>2, Zenon
      <3> HIDE DEF vs, G
      <3> QED  BY <3>1
    <2> QED  BY <2>1, <2>2
  <1> HIDE DEF vs, G
  <1>5. roles' \in G /\ rolesFile' \in G
    <2>1. CASE done < e + b  BY <1>2, <1>3, <2>1
    <2>2. CASE ~(done < e + b)
      <3>1. done - e - b \in 0 .. Len(vs)  BY <1>3, <1>4, <2>2
      <3>2. SaveRoles(vs, done - e - b)  BY <1>3, <2>2
      <3> QED  BY <1>2, <1>4, <3>1, <3>2, RolesSaved
    <2> QED  BY <2>1, <2>2
  <1>6. TagsKept(policy'.grants) /\ DeniedApart(policy') /\ Owed(policy', bound) \subseteq Owed(policy, bound)
    <2>1. CASE policy' = policy  BY <2>1 DEF KeptInv
    <2>2. CASE Enrolls(n, a) /\ policy' = PolicyAdd(policy, n, a)
      <3>1. a \in Players /\ a \in Owed(policy, bound)  BY <1>1, <2>2 DEF Enrolls, Owed
      <3>2. PolicyShape(policy)  BY DEF StoreTypes
      <3> QED  BY <1>1, <2>2, <3>1, <3>2, AddOwes, Zenon DEF KeptInv
    <2> QED  BY <1>3, <2>1, <2>2
  <1>7. TagsKept(bound') /\ Holders(bound) \subseteq Holders(bound')
    <2>1. CASE bound' = bound  BY <2>1 DEF KeptInv
    <2>2. CASE Binds(pol, n, a) /\ bound' = Append(bound, [tag |-> n, who |-> a])
      <3>1. a \in Players /\ bound \in Seq(Entry)  BY <2>2 DEF Binds, StoreTypes
      <3> DEFINE new == [tag |-> n, who |-> a]
      <3>2. new \in Entry /\ new.tag = n /\ new.who = a  BY <3>1 DEF Entry
      <3> HIDE DEF new
      <3>3. /\ Append(bound, new) \in Seq(Entry) /\ Len(Append(bound, new)) = Len(bound) + 1
            /\ Append(bound, new)[Len(bound) + 1] = new
            /\ \A j \in 1 .. Len(bound) : Append(bound, new)[j] = bound[j]
        BY <3>1, <3>2, AppendProperties
      <3>4. DOMAIN bound = 1 .. Len(bound) /\ DOMAIN bound' = 1 .. Len(bound) + 1 /\ Len(bound) \in Nat
        BY <2>2, <3>1, <3>3 DEF new
      <3>5. \A j \in DOMAIN bound' : (j \in DOMAIN bound /\ bound'[j] = bound[j]) \/ bound'[j] = new
        BY <2>2, <3>3, <3>4 DEF new
      <3>6. TagsKept(bound')  BY <1>1, <3>2, <3>5 DEF KeptInv, TagsKept
      <3> QED  BY <2>2, <3>1, <3>6, BindDoes
    <2> QED  BY <1>3, <2>1, <2>2
  <1>8. Owed(policy', bound') \subseteq Owed(policy, bound)  BY <1>6, <1>7, BindOwes
  <1>9. ComeAsFirst'
    BY <1>1 DEF KeptInv, ComeAsFirst, StoreTypes, Players
  <1>10. RoleStores' /\ Paid(roles', policy', bound') /\ Paid(rolesFile', policy', bound')
    BY <1>5, <1>8 DEF G, Good, Paid, RoleStores
  <1>11. TagsKept(bound)'/\ TagsKept(policy.grants)' /\ DeniedApart(policy)'
    BY <1>6, <1>7 DEF TagsKept, DeniedApart, Denied, Holders
  <1>12. Paid(roles, policy, bound)' /\ Paid(rolesFile, policy, bound)'
    BY <1>10 DEF Paid, HasRole, Owed, Denied, Holders
  <1> QED  BY <1>9, <1>10, <1>11, <1>12 DEF KeptInv

(* An existing grant of the GamerTag is one of the target, and allowed.    *)
LEMMA ExistingTarget ==
  ASSUME StoreTypes, NamesKept, NEW n \in Names, EffectiveRole(n, Unknown) = Unknown
  PROVE  \E a \in Players : NameOf[a] = n /\ Target(n) # {} /\ Decision(policy, bound, n, a)
  <1>1. PICK a \in Reported : RowName(a) = n /\ Decision(policy, bound, n, a)
    BY DEF EffectiveRole, Unknown
  <1>2. a \in Players /\ NameOf[a] = n
        /\ (online[a] = n \/ \E i \in DOMAIN Bindings : Bindings[i].tag = n)
    BY <1>1, RowsKept
  <1>3. Target(n) # {}  BY <1>2, TargetKept DEF Players
  <1> QED  BY <1>1, <1>2, <1>3

(* The roles of an add keep everybody's, and end with one for its target.  *)
LEMMA AddRolesPay ==
  ASSUME StoreTypes, RoleStores, KeptInv, NEW n \in Names, NEW role \in RoleNames
  PROVE  LET vs == AddRoles(n, role)
             last == vs[Len(vs)]
         IN /\ vs \in Seq(Good(policy, bound)) /\ vs # <<>>
            /\ IF Target(n) \cap Players = {} THEN last.pending[n] # Unknown
               ELSE \A x \in Target(n) : last.of[x] # Unknown
  <1> DEFINE G == Good(policy, bound)
             of == [a \in Accounts |-> IF a \in Target(n) THEN role ELSE roles.of[a]]
             set == [roles EXCEPT !.of = of]
             gone == [set EXCEPT !.pending[n] = Unknown]
             noted == [roles EXCEPT !.pending[n] = role]
             vs == AddRoles(n, role)
  <1>1. role # Unknown /\ role \in RoleNames \cup {Unknown} /\ Unknown \in RoleNames \cup {Unknown}
    BY DEF RoleNames, Unknown
  <1>2. NamesKept  BY DEF KeptInv, NamesKept
  <1>3. Target(n) \subseteq Accounts  BY TargetKnown
  <1>4. /\ of \in [Accounts -> RoleNames \cup {Unknown}]
        /\ \A x \in Target(n) : of[x] # Unknown
        /\ \A x \in Accounts : roles.of[x] # Unknown => of[x] # Unknown
    <2>1. roles.of \in [Accounts -> RoleNames \cup {Unknown}]  BY DEF RoleStores, RoleMaps
    <2> QED  BY <1>1, <1>3, <2>1
  <1>5. vs = IF Target(n) \cap Players = {} THEN <<noted>>
             ELSE IF roles.pending[n] = Unknown THEN <<set>> ELSE <<set, gone>>
    BY <1>1 DEF AddRoles
  <1> HIDE DEF vs, of
  <1>6. set \in RoleMaps /\ set.of = of /\ set.pending = roles.pending
    BY <1>4, OfSet DEF RoleStores
  <1> HIDE DEF set
  <1>7. /\ gone \in RoleMaps /\ gone.of = of
        /\ \A m \in Names \ {n} : gone.pending[m] = roles.pending[m]
    BY <1>1, <1>6, PendingSet
  <1>8. /\ noted \in RoleMaps /\ noted.of = roles.of /\ noted.pending[n] = role
        /\ \A m \in Names \ {n} : noted.pending[m] = roles.pending[m]
    BY <1>1, PendingSet DEF RoleStores
  <1> HIDE DEF gone, noted
  <1>9. \A x \in Owed(policy, bound) :
          x \in Players /\ x \in Accounts /\ NameOf[x] \in Names /\ HasRole(roles, x)
    BY AuthorityAssumption DEF Owed, Players, KeptInv, Paid
  <1>10. noted \in G  BY <1>1, <1>8, <1>9 DEF Good, Paid, HasRole
  <1>11. set \in G  BY <1>4, <1>6, <1>9 DEF Good, Paid, HasRole
  <1>12. ASSUME Target(n) \cap Players # {} PROVE gone \in G
    <2>1. PICK y \in Target(n) \cap Players : NameOf[y] = n  BY <1>2, <1>12, TargetKept
    <2> SUFFICES ASSUME NEW x \in Owed(policy, bound) PROVE HasRole(gone, x)
      BY <1>7 DEF Good, Paid
    <2>2. CASE NameOf[x] = n
      <3>1. x = y  BY <1>9, <2>1, <2>2, FirstNamesDiffer
      <3> QED  BY <1>4, <1>7, <2>1, <3>1 DEF HasRole
    <2>3. CASE NameOf[x] # n
      BY <1>4, <1>7, <1>9, <2>3 DEF HasRole
    <2> QED  BY <2>2, <2>3
  <1> HIDE DEF G
  <1>13. CASE Target(n) \cap Players = {}
    <2>1. vs = <<noted>>  BY <1>5, <1>13
    <2>2. <<noted>> \in Seq(G) /\ Len(<<noted>>) = 1 /\ <<noted>>[1] = noted /\ <<noted>> # <<>>
      BY <1>10
    <2>3. vs \in Seq(G) /\ vs # <<>> /\ vs[Len(vs)] = noted  BY <2>1, <2>2
    <2> QED  BY <1>1, <1>8, <1>13, <2>3 DEF vs, G
  <1>14. CASE Target(n) \cap Players # {}
    <2>1. vs \in Seq(G) /\ vs # <<>> /\ vs[Len(vs)] \in {set, gone}
      <3>1. CASE roles.pending[n] = Unknown
        <4>1. vs = <<set>>  BY <1>5, <1>14, <3>1
        <4> QED  BY <1>11, <4>1
      <3>2. CASE roles.pending[n] # Unknown
        <4>1. vs = <<set, gone>>  BY <1>5, <1>14, <3>2
        <4> QED  BY <1>11, <1>12, <1>14, <4>1
      <3> QED  BY <3>1, <3>2
    <2>2. \A x \in Target(n) : vs[Len(vs)].of[x] # Unknown  BY <1>4, <1>6, <1>7, <2>1
    <2> QED  BY <1>14, <2>1, <2>2 DEF vs, G
  <1> QED  BY <1>13, <1>14

(* An add writes the role before the grant, and keeps that of a grant there *)
(* is: whatever fails, nobody is owed one.                                 *)
LEMMA AddPays ==
  ASSUME StoreTypes, RoleStores, KeptInv, NEW n \in Names, NEW opt \in RoleNames \cup {Unknown},
         Add(n, opt)
  PROVE  RoleStores' /\ KeptInv'
  <1> DEFINE G == Good(policy, bound)
             role == EffectiveRole(n, opt)
             vs == AddRoles(n, role)
             last == vs[Len(vs)]
             a == CHOOSE x \in Target(n) : TRUE
  <1>1. UNCHANGED <<online, bound, kept>>  BY DEF Add
  <1>2. NamesKept  BY DEF KeptInv, NamesKept
  <1>3. roles \in G /\ rolesFile \in G  BY DEF Good, KeptInv, RoleStores
  <1>4. role \in RoleNames \cup {Unknown}  BY DEF EffectiveRole, RoleNames
  <1>5. role = Unknown => opt = Unknown  BY DEF EffectiveRole
  <1>6. vs \in Seq(G) /\ (vs = <<>> <=> role = Unknown)
    <2>1. CASE role = Unknown
      <3>1. vs = <<>>  BY <2>1 DEF AddRoles
      <3> HIDE DEF vs, G
      <3> QED  BY <2>1, <3>1
    <2>2. CASE role # Unknown
      <3>1. role \in RoleNames  BY <1>4, <2>2
      <3> HIDE DEF role
      <3> QED  BY <2>2, <3>1, AddRolesPay
    <2> QED  BY <2>1, <2>2
  <1>7. PICK done \in Nat :
          /\ SaveRoles(vs, IF done > Len(vs) THEN Len(vs) ELSE done)
          /\ policy' = policy
             \/ /\ Target(n) \cap Bots = {} /\ done = Len(vs) + 1
                /\ policy' = IF Target(n) = {} THEN PolicyAddPending(policy, n) ELSE PolicyAdd(policy, n, a)
    <2> HIDE DEF vs, a
    <2>1. PICK ok \in BOOLEAN :
            /\ ok = (Target(n) \cap Bots = {})
            /\ \E done \in 0 .. Len(vs) + (IF ok THEN 1 ELSE 0) :
                 /\ SaveRoles(vs, IF done > Len(vs) THEN Len(vs) ELSE done)
                 /\ policy' = IF ~ok \/ done < Len(vs) + (IF ok THEN 1 ELSE 0) THEN policy
                              ELSE IF Target(n) = {} THEN PolicyAddPending(policy, n)
                              ELSE PolicyAdd(policy, n, a)
      BY Zenon DEF Add, vs, role, a
    <2>2. Len(vs) \in Nat  BY <1>6
    <2>3. PICK done \in 0 .. Len(vs) + (IF ok THEN 1 ELSE 0) :
            /\ SaveRoles(vs, IF done > Len(vs) THEN Len(vs) ELSE done)
            /\ policy' = IF ~ok \/ done < Len(vs) + (IF ok THEN 1 ELSE 0) THEN policy
                         ELSE IF Target(n) = {} THEN PolicyAddPending(policy, n)
                         ELSE PolicyAdd(policy, n, a)
      BY <2>1, Zenon
    <2>4. done \in Nat  BY <2>2, <2>3
    <2>5. policy' = policy \/ (ok /\ done = Len(vs) + 1)  BY <2>2, <2>3
    <2>6. ok /\ done = Len(vs) + 1 =>
            policy' = IF Target(n) = {} THEN PolicyAddPending(policy, n) ELSE PolicyAdd(policy, n, a)
      BY <2>2, <2>3
    <2> QED  BY <2>1, <2>3, <2>4, <2>5, <2>6, Zenon
  <1>8. Len(vs) \in Nat  BY <1>6
  <1> HIDE DEF vs, G, role
  <1>9. /\ roles' \in G /\ rolesFile' \in G
        /\ role = Unknown => UNCHANGED <<roles, rolesFile>>
        /\ role # Unknown /\ done = Len(vs) + 1 => roles' = last /\ rolesFile' = last
    <2>1. (IF done > Len(vs) THEN Len(vs) ELSE done) \in 0 .. Len(vs)  BY <1>7, <1>8
    <2> QED  BY <1>3, <1>6, <1>7, <1>8, <2>1, RolesSaved
  <1>10. ASSUME policy' = policy PROVE KeptInv' /\ RoleStores'
    <2>1. Paid(roles', policy, bound) /\ Paid(rolesFile', policy, bound) /\ RoleStores'
      BY <1>9 DEF G, Good, RoleStores
    <2> QED  BY <1>1, <1>10, <2>1
             DEF KeptInv, Paid, HasRole, Owed, Denied, Holders, TagsKept, DeniedApart, ComeAsFirst
  <1>11. ASSUME Target(n) \cap Bots = {}, done = Len(vs) + 1,
                policy' = IF Target(n) = {} THEN PolicyAddPending(policy, n) ELSE PolicyAdd(policy, n, a)
         PROVE  KeptInv' /\ RoleStores'
    <2>1. PolicyShape(policy)  BY DEF StoreTypes
    <2>2. TagsKept(policy'.grants) /\ DeniedApart(policy')
          /\ \A x \in Owed(policy', bound) : x \in Owed(policy, bound) \/ NameOf[x] = n
      <3>1. CASE Target(n) = {}
        <4>1. policy' = PolicyAddPending(policy, n)  BY <1>11, <3>1
        <4> QED  BY <2>1, <4>1, PendingAddOwes DEF KeptInv
      <3>2. CASE Target(n) # {}
        <4>1. policy' = PolicyAdd(policy, n, a) /\ a \in Target(n)  BY <1>11, <3>2
        <4>2. a \in Players /\ NameOf[a] = n
          BY <1>2, <1>11, <4>1, TargetKnown, TargetKept DEF Players
        <4> HIDE DEF a
        <4>3. policy' = PolicyAdd(policy, NameOf[a], a)  BY <4>1, <4>2
        <4> QED  BY <2>1, <4>2, <4>3, AddOwes DEF KeptInv
      <3> QED  BY <3>1, <3>2
    <2>3. ASSUME NEW x \in Owed(policy', bound), NameOf[x] = n
          PROVE  HasRole(roles', x) /\ HasRole(rolesFile', x)
      <3>1. x \in Players  BY DEF Owed
      <3>2. CASE role # Unknown
        <4>1. role \in RoleNames /\ roles' = last /\ rolesFile' = last  BY <1>4, <1>9, <1>11, <3>2
        <4>2. CASE Target(n) \cap Players = {}
          <5>1. last.pending[n] # Unknown  BY <4>1, <4>2, AddRolesPay DEF vs
          <5> QED  BY <2>3, <4>1, <5>1 DEF HasRole
        <4>3. CASE Target(n) \cap Players # {}
          <5>1. PICK y \in Target(n) \cap Players : NameOf[y] = n  BY <1>2, <4>3, TargetKept
          <5>2. x = y  BY <2>3, <3>1, <5>1, FirstNamesDiffer
          <5>3. last.of[x] # Unknown  BY <4>1, <4>3, <5>1, <5>2, AddRolesPay DEF vs
          <5> QED  BY <4>1, <5>3 DEF HasRole
        <4> QED  BY <4>2, <4>3
      <3>3. CASE role = Unknown
        <4>1. roles' = roles /\ rolesFile' = rolesFile  BY <1>9, <3>3
        <4>2. PICK y \in Players : NameOf[y] = n /\ Target(n) # {} /\ Decision(policy, bound, n, y)
          BY <1>2, <1>5, <3>3, ExistingTarget DEF role
        <4>3. x = y  BY <2>3, <3>1, <4>2, FirstNamesDiffer
        <4>4. policy' = PolicyAdd(policy, n, a)  BY <1>11, <4>2
        <4>5. n \notin policy'.pending  BY <2>1, <4>4 DEF PolicyAdd, PolicyShape
        <4>6. x \notin Holders(bound) /\ x \notin Legacy  BY <2>3, <4>5 DEF Owed
        <4>7. ~Denied(policy, x) /\ Granted(policy, x)
          BY <4>2, <4>3, <4>6 DEF Decision, IsBound, Holders
        <4>8. x \in Owed(policy, bound)  BY <3>1, <4>6, <4>7 DEF Owed, Granted, Holders
        <4> QED  BY <4>1, <4>8 DEF KeptInv, Paid
      <3> QED  BY <3>2, <3>3
    <2>4. Paid(roles', policy', bound) /\ Paid(rolesFile', policy', bound)
      BY <1>9, <2>2, <2>3 DEF Paid, G, Good
    <2>5. RoleStores'  BY <1>9 DEF G, Good, RoleStores
    <2> QED  BY <1>1, <2>2, <2>4, <2>5
             DEF KeptInv, Paid, HasRole, Owed, Denied, Holders, TagsKept, DeniedApart, ComeAsFirst
  <1> QED  BY <1>7, <1>10, <1>11

(* Whom a remove takes a role from, it denies: a row's name is denied only  *)
(* with the account the name is of.                                        *)
LEMMA RevokePays ==
  ASSUME StoreTypes, RoleStores, KeptInv, NEW names, NEW xuids, NEW uuids, NEW n \in Names \cup {NoName},
         n # NoName => n \in names,
         Revoke(Aliases([names |-> names, xuids |-> xuids, uuids |-> uuids]), n)
  PROVE  RoleStores' /\ KeptInv'
  <1> DEFINE t == Aliases([names |-> names, xuids |-> xuids, uuids |-> uuids])
             pol == PolicyRemove(t)
             bumped == Bumped(pol)
             vs == ForgetRoles(bumped, n)
             G == Good(pol, bound)
  <1>1. UNCHANGED <<online, bound, kept>>  BY DEF Revoke
  <1>2. NamesKept  BY DEF KeptInv, NamesKept
  <1>3. Bindings \in Seq(Entry) /\ TagsKept(Bindings)
        /\ \A x : (\E i \in DOMAIN Bindings : Bindings[i].who = x) <=> HasEntry(policy, bound, x)
    BY <1>2, BindingsKept
  <1>4. /\ names \subseteq t.names
        /\ \A m \in t.names \ names :
             \E j \in DOMAIN Bindings : Bindings[j].tag = m /\ Bindings[j].who \in t.xuids
        /\ \A j \in DOMAIN Bindings : Bindings[j].tag \in names => Bindings[j].who \in t.xuids
    BY AliasesKnown
  <1>5. PICK first \in BOOLEAN :
          /\ policy' = IF first THEN pol ELSE policy
          /\ \/ UNCHANGED <<roles, rolesFile>>
             \/ first /\ \E done \in 0 .. Len(vs) : SaveRoles(vs, done)
    <2> HIDE DEF t
    <2>1. \E p \in {pol} : \E m \in {Bumped(p)} : \E ws \in {ForgetRoles(m, n)} :
            \E done \in 0 .. 1 + (IF m = {} THEN 0 ELSE 1) + Len(ws) :
              /\ policy' = IF done >= 1 THEN p ELSE policy
              /\ IF done < 1 + (IF m = {} THEN 0 ELSE 1) THEN UNCHANGED <<roles, rolesFile>>
                 ELSE SaveRoles(ws, done - 1 - (IF m = {} THEN 0 ELSE 1))
      BY Zenon DEF Revoke, t
    <2> HIDE DEF vs, pol
    <2>2. PICK g \in {0, 1} : \E done \in 0 .. 1 + g + Len(vs) :
              /\ policy' = IF done >= 1 THEN pol ELSE policy
              /\ IF done < 1 + g THEN UNCHANGED <<roles, rolesFile>> ELSE SaveRoles(vs, done - 1 - g)
      BY <2>1 DEF vs
    <2>3. PICK done \in 0 .. 1 + g + Len(vs) :
              /\ policy' = IF done >= 1 THEN pol ELSE policy
              /\ IF done < 1 + g THEN UNCHANGED <<roles, rolesFile>> ELSE SaveRoles(vs, done - 1 - g)
      BY <2>2
    <2>4. Len(vs) \in Nat  BY DEF vs, ForgetRoles
    <2>5. CASE done < 1 + g  BY <2>3, <2>5
    <2>6. CASE ~(done < 1 + g)
      <3>1. done - 1 - g \in 0 .. Len(vs) /\ done >= 1  BY <2>4, <2>6
      <3> QED  BY <2>3, <2>6, <3>1
    <2> QED  BY <2>5, <2>6
  <1> HIDE DEF t
  <1>6. ASSUME NEW x \in Holders(policy.grants), NameOf[x] \in t.names PROVE x \in t.xuids
    <2>1. PICK i \in DOMAIN Bindings : Bindings[i].who = x  BY <1>3 DEF HasEntry
    <2>2. Bindings[i].tag = NameOf[x] /\ x \in Players
      BY <1>3, <2>1, EntriesArePlayers DEF TagsKept
    <2>3. CASE NameOf[x] \in names  BY <1>4, <2>1, <2>2, <2>3
    <2>4. CASE NameOf[x] \notin names
      <3>1. PICK j \in DOMAIN Bindings : Bindings[j].tag = NameOf[x] /\ Bindings[j].who \in t.xuids
        BY <1>4, <1>6, <2>4
      <3>2. Bindings[j].who = x
        BY <1>3, <2>2, <3>1, EntriesArePlayers, FirstNamesDiffer DEF TagsKept
      <3> QED  BY <3>1, <3>2
    <2> QED  BY <2>3, <2>4
  <1>7. /\ pol.grants = policy.grants /\ DeniedApart(pol) /\ Owed(pol, bound) \subseteq Owed(policy, bound)
        /\ \A x \in Owed(pol, bound) : NameOf[x] \notin pol.deniedNames
        /\ t.names \subseteq pol.deniedNames
    BY <1>6, RemoveOwes DEF StoreTypes, KeptInv
  <1> HIDE DEF pol
  <1>8. ASSUME NEW x \in Owed(pol, bound)
        PROVE  /\ x \in Accounts /\ NameOf[x] \in Names /\ x \notin bumped /\ NameOf[x] # n
               /\ HasRole(roles, x) /\ HasRole(rolesFile, x)
    <2>1. x \in Players /\ ~Denied(pol, x)  BY DEF Owed
    <2>2. x \in Accounts /\ NameOf[x] \in Names  BY <2>1, AuthorityAssumption DEF Players
    <2>3. x \in Reported => RowName(x) = NameOf[x]  BY <1>2, RowsKept
    <2>4. x \notin bumped  BY <1>7, <2>1, <2>3 DEF Bumped
    <2>5. NameOf[x] # n  BY <1>4, <1>7, <2>2, AuthorityAssumption
    <2>6. HasRole(roles, x) /\ HasRole(rolesFile, x)  BY <1>7 DEF KeptInv, Paid
    <2> QED  BY <2>2, <2>4, <2>5, <2>6
  <1>9. vs \in Seq(G) /\ Len(vs) \in Nat
    <2> DEFINE of == [a \in Accounts |-> IF a \in bumped THEN Unknown ELSE roles.of[a]]
               forgot == [roles EXCEPT !.of = of]
               gone == IF n = NoName THEN forgot ELSE [forgot EXCEPT !.pending[n] = Unknown]
    <2> HIDE DEF bumped
    <2>1. Unknown \in RoleNames \cup {Unknown} /\ roles.of \in [Accounts -> RoleNames \cup {Unknown}]
      BY DEF RoleStores, RoleMaps
    <2>2. vs = (IF forgot = roles THEN <<>> ELSE <<forgot>>) \o (IF gone = forgot THEN <<>> ELSE <<gone>>)
      BY DEF ForgetRoles
    <2>3. of \in [Accounts -> RoleNames \cup {Unknown}] /\ \A x \in Accounts \ bumped : of[x] = roles.of[x]
      BY <2>1
    <2> HIDE DEF vs, of
    <2>4. forgot \in RoleMaps /\ forgot.of = of /\ forgot.pending = roles.pending
      BY <2>3, OfSet DEF RoleStores
    <2> HIDE DEF forgot
    <2>5. /\ gone \in RoleMaps /\ gone.of = of
          /\ \A m \in Names \ {n} : gone.pending[m] = roles.pending[m]
      <3>1. CASE n = NoName  BY <2>4, <3>1
      <3>2. CASE n # NoName
        <4>1. n \in Names /\ gone = [forgot EXCEPT !.pending[n] = Unknown]  BY <3>2
        <4> HIDE DEF gone
        <4> DEFINE next == [forgot EXCEPT !.pending[n] = Unknown]
        <4>2. /\ next \in RoleMaps /\ next.of = forgot.of
              /\ \A m \in Names \ {n} : next.pending[m] = forgot.pending[m]
          BY <2>1, <2>4, <4>1, PendingSet
        <4> HIDE DEF next
        <4> QED  BY <2>4, <4>1, <4>2 DEF next
      <3> QED  BY <3>1, <3>2
    <2> HIDE DEF gone
    <2>6. forgot \in G /\ gone \in G
      BY <1>8, <2>3, <2>4, <2>5 DEF Good, Paid, HasRole
    <2> HIDE DEF G
    <2>7. (IF forgot = roles THEN <<>> ELSE <<forgot>>) \in Seq(G)
          /\ (IF gone = forgot THEN <<>> ELSE <<gone>>) \in Seq(G)
      BY <2>6
    <2>8. vs \in Seq(G)  BY <2>2, <2>7, ConcatProperties
    <2> QED  BY <2>8
  <1>10. CASE first
    <2>1. policy' = pol  BY <1>5, <1>10
    <2>2. roles \in G /\ rolesFile \in G  BY <1>8 DEF Good, Paid, RoleStores
    <2> HIDE DEF G, vs
    <2>3. roles' \in G /\ rolesFile' \in G  BY <1>5, <1>9, <2>2, RolesSaved
    <2>4. TagsKept(policy'.grants) /\ DeniedApart(policy')  BY <1>7, <2>1 DEF KeptInv
    <2>5. RoleStores' /\ Paid(roles', policy', bound) /\ Paid(rolesFile', policy', bound)
      BY <2>1, <2>3 DEF G, Good, RoleStores
    <2> QED  BY <1>1, <2>4, <2>5
             DEF KeptInv, Paid, HasRole, Owed, Denied, Holders, TagsKept, DeniedApart, ComeAsFirst
  <1>11. CASE ~first
    <2>1. UNCHANGED <<policy, roles, rolesFile>>  BY <1>5, <1>11
    <2> QED  BY <1>1, <2>1
             DEF RoleStores, KeptInv, Paid, HasRole, Owed, Denied, Holders, TagsKept, DeniedApart, ComeAsFirst
  <1> QED  BY <1>10, <1>11

LEMMA NextPays ==
  ASSUME StoreTypes, RoleInv, [Next]_vars
  PROVE  RoleInv'
  <1> SUFFICES ASSUME kept' PROVE RoleStores' /\ KeptInv'
    BY DEF RoleInv, RoleStores, KeptInv
  <1>1. CASE Console
    <2>0. kept  BY <1>1 DEF Console, Add, RemoveName, RemoveXuid, RemoveUuid, Revoke
    <2>1. RoleStores /\ KeptInv  BY <2>0 DEF RoleInv
    <2>2. ASSUME NEW n \in Names, NEW role \in RoleNames \cup {Unknown}, Add(n, role)
          PROVE  RoleStores' /\ KeptInv'
      BY <2>1, <2>2, AddPays
    <2>3. ASSUME NEW n \in Names, RemoveName(n) PROVE RoleStores' /\ KeptInv'
      BY <2>1, <2>3, RevokePays DEF RemoveName
    <2>4. ASSUME NEW a, RemoveXuid(a) \/ RemoveUuid(a) PROVE RoleStores' /\ KeptInv'
      BY <2>1, <2>4, RevokePays DEF RemoveXuid, RemoveUuid
    <2> QED  BY <1>1, <2>2, <2>3, <2>4 DEF Console
  <1>2. CASE Presence
    <2>0. kept
      <3>1. \A a \in Accounts, n \in Names : ComesAs(a, n) => kept  BY DEF ComesAs
      <3>2. \A a \in Accounts, n \in Names : Join(a, n) \/ JoinNotHandled(a, n) => ComesAs(a, n)
        BY Zenon DEF Join, JoinNotHandled
      <3>3. \A a \in Accounts : Quit(a) => kept  BY DEF Quit
      <3> QED  BY <1>2, <3>1, <3>2, <3>3, Zenon DEF Presence
    <2>1. RoleStores /\ KeptInv  BY <2>0 DEF RoleInv
    <2>2. ASSUME NEW a \in Accounts, NEW n \in Names, Join(a, n)
          PROVE  RoleStores' /\ KeptInv'
      BY <2>1, <2>2, JoinPays
    <2>3. ASSUME NEW a \in Accounts,
                 \/ \E n \in Names : JoinNotHandled(a, n)
                 \/ Quit(a)
          PROVE  RoleStores' /\ KeptInv'
      <3>1. /\ online' \in {[online EXCEPT ![a] = NameOf[a]], [online EXCEPT ![a] = NoName]}
            /\ UNCHANGED <<policy, bound, roles, rolesFile>>
        BY <2>3 DEF JoinNotHandled, ComesAs, Quit
      <3>2. ComeAsFirst'  BY <2>1, <3>1 DEF KeptInv, ComeAsFirst, StoreTypes, Players
      <3> QED  BY <2>1, <3>1, <3>2
               DEF RoleStores, KeptInv, Paid, HasRole, Owed, Denied, Holders, TagsKept, DeniedApart
    <2> QED  BY <1>2, <2>2, <2>3 DEF Presence
  <1>3. CASE Restart
    <2>1. RoleStores /\ KeptInv  BY <1>3 DEF Restart, RoleInv
    <2> QED  BY <1>3, <2>1
             DEF Restart, RoleStores, KeptInv, Paid, HasRole, Owed, Denied, Holders, TagsKept, DeniedApart,
                 ComeAsFirst, Players
  <1>4. ASSUME UNCHANGED <<online, policy, bound, roles, rolesFile, kept>>
        PROVE  RoleStores' /\ KeptInv'
    BY <1>4 DEF RoleInv, RoleStores, KeptInv, Paid, HasRole, Owed, Denied, Holders, TagsKept, DeniedApart, ComeAsFirst
  <1>5. CASE \/ \E a \in Players : Start(a)
             \/ \E w \in work : End(w)
             \/ UNCHANGED vars
    BY <1>4, <1>5 DEF Start, End, vars
  <1> QED  BY <1>1, <1>2, <1>3, <1>5 DEF Next

(* authority.py `_operation`: "The role is written before the grant: if a   *)
(* write fails, a new grant never exists without its role, which would make *)
(* it a scripter".  So it is, for any accounts and after any failed writes *)
(* and restarts, while nobody has changed its GamerTag.                    *)
THEOREM GrantsHaveTheirRole == Spec => []KeptNameGrantHasRole
  <1>1. Init => RoleInv
    <2> SUFFICES ASSUME Init PROVE RoleStores /\ KeptInv
      BY DEF RoleInv
    <2>1. /\ online = [a \in Accounts |-> NoName] /\ policy = NoPolicy /\ bound = <<>>
          /\ roles = NoRoles /\ rolesFile = NoRoles
      BY DEF Init
    <2>2. RoleStores  BY <2>1 DEF RoleStores, RoleMaps, NoRoles
    <2>3. policy.grants = <<>> /\ policy.pending = {}  BY <2>1 DEF NoPolicy
    <2> QED  BY <2>1, <2>2, <2>3
             DEF KeptInv, ComeAsFirst, TagsKept, DeniedApart, Paid, Owed, Holders, Players
  <1>2. StoreTypes /\ RoleInv /\ [Next]_vars => RoleInv'
    BY NextPays
  <1>3. AuthorityInv => StoreTypes  BY DEF AuthorityInv
  <1>4. StoreTypes /\ RoleInv => KeptNameGrantHasRole
    <2> SUFFICES ASSUME StoreTypes, KeptInv, NEW i \in DOMAIN policy.grants,
                        ~Denied(policy, policy.grants[i].who), ~IsBound(bound, policy.grants[i].who),
                        policy.grants[i].who \notin Legacy
                 PROVE  roles.of[policy.grants[i].who] # Unknown \/ roles.pending[policy.grants[i].tag] # Unknown
      BY DEF RoleInv, KeptNameGrantHasRole, GrantHasRole
    <2>1. policy.grants[i] \in Entry  BY DEF StoreTypes, PolicyShape
    <2>2. policy.grants[i].who \in Players  BY <2>1 DEF Entry
    <2>3. policy.grants[i].who \in Owed(policy, bound)
      BY <2>2 DEF Owed, IsBound, Holders
    <2> QED  BY <2>3 DEF KeptInv, Paid, HasRole, TagsKept
  <1> QED  BY <1>1, <1>2, <1>3, <1>4, AlwaysAuthority, PTL DEF Spec
=============================================================================
