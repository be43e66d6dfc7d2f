-------------------------- MODULE PluginLinkProofs --------------------------
(***************************************************************************)
(* Proofs about PluginLink, for any players, links and bounds, when a link *)
(* is only accepted after the requests of the last one are handled: what   *)
(* endbotd knows of a session, what runs in it and what permission it has. *)
(***************************************************************************)
EXTENDS PluginLink, SequenceTheorems, FiniteSetTheorems, TLAPS

Req == [kind : {"snapshot", "join", "quit", "submit", "add", "remove"},
        who : SUBSET Players, session : [Players -> Nat]]
Cmd == [kind : {"command"}, player : Players, session : Nat, epoch : Nat, n : Nat, grev : Nat]
Permission == [player : Players, value : {"on", "off"}]

Rec == [epoch : Nat, n : Nat, session : Nat]

BdsTypes ==
  /\ ingame \subseteq Players /\ seen \in [Players -> Nat] /\ \A p \in ingame : seen[p] # 0
  /\ attach \in [Players -> {"none", "on", "off"}]

SocketTypes ==
  /\ made \in Threads /\ plive \in {0, made} /\ dial \in {0, made} /\ link \in {0, made}
  /\ sock \in [Links -> BOOLEAN] /\ srv \in [Links -> {"none", "open", "closed"}]

PathTypes == wire \in [Links -> Seq(Req)] /\ ordered \in [Links -> Seq(Req)]
PresTypes == joins \in Nat /\ rec \in [Players -> Rec]

AuthTypes ==
  /\ status \in [Players -> {"none", "allowed", "revoked"}]
  /\ grev \in [Players -> Nat] /\ granted \in [Players -> BOOLEAN]

ThreadTypes ==
  /\ at \in [Threads -> {"idle", "applied", "captured", "permissions"}]
  /\ task \in [Threads -> Req \cup Cmd \cup {NoTask}]
  /\ \A t \in Threads : /\ at[t] = "captured" => task[t] \in Cmd
                        /\ at[t] = "applied" => task[t] \in Req
  /\ due \in [Threads -> [Players -> PermissionValues]]

QueueTypes ==
  /\ out \in Seq(Permission) /\ asked \in [Links -> Seq(Permission)] /\ work \in Seq(Cmd)
  /\ lost \subseteq Players /\ unsent \subseteq Players
  /\ ops \in [typed : Nat, console : Nat, cli : Nat, ran : Nat]

LinkTypes ==
  BdsTypes /\ SocketTypes /\ PathTypes /\ PresTypes /\ AuthTypes /\ ThreadTypes /\ QueueTypes

\* Only the last link carries anything, and presence is of that link.
OneLink ==
  /\ \A c \in Links : c # made => Handled(c)
  /\ \A p \in Players :
       /\ Known(p) => link = made /\ link # 0 /\ rec[p].epoch = made /\ rec[p].n <= joins
       /\ ~Known(p) => rec[p].session = 0

Live   == link # 0 /\ plive = link /\ sock[link]
Stream == ordered[made] \o wire[made]

\* A request that decides the session endbotd has of a player, and that session.
Brings(r, p) == r.kind \in {"snapshot", "join"} /\ p \in r.who
Tells(r, p)  == r.kind = "snapshot" \/ (r.kind \in {"join", "quit"} /\ p \in r.who)
Says(r, p)   == IF Brings(r, p) THEN r.session[p] ELSE 0

\* Once the requests of s before place k are handled, the session of p is v.
Follows(s, k, p, now, v) ==
  /\ \A j \in 1 .. k - 1 :
       Tells(s[j], p) /\ (\A i \in j + 1 .. k - 1 : ~Tells(s[i], p)) => Says(s[j], p) = v
  /\ (\A j \in 1 .. k - 1 : ~Tells(s[j], p)) => now = v

\* A command is handled in the session it was typed in.
SubmitsIn(s, recs) ==
  \A k \in 1 .. Len(s) : s[k].kind = "submit" =>
    \A p \in s[k].who : Follows(s, k, p, recs[p].session, s[k].session[p])

SubmitsTrue == link # 0 => SubmitsIn(Stream, rec)

Truth(p) == IF p \in ingame THEN seen[p] ELSE 0

PresenceComes ==
  Live => \A p \in Players : Follows(Stream, Len(Stream) + 1, p, rec[p].session, Truth(p))

\* The revision a command was captured with is that of the session it was typed in.
CommandTrue(w) ==
  /\ w.epoch <= made
  /\ link # 0 /\ w.epoch = made => w.n <= joins
  /\ Known(w.player) /\ w.epoch = rec[w.player].epoch /\ w.n = rec[w.player].n =>
       w.session = rec[w.player].session

CommandsTrue ==
  /\ \A k \in DOMAIN work : CommandTrue(work[k])
  /\ \A t \in Threads : at[t] = "captured" => CommandTrue(task[t])

\* Whoever is in game is brought back after a request that takes it away.
Returns(s, p) ==
  \A j \in 1 .. Len(s) : Tells(s[j], p) /\ ~Brings(s[j], p) =>
    \E i \in j + 1 .. Len(s) : Brings(s[i], p)

\* A decision about the player is still to be made.
Coming(s, p) == \E j \in 1 .. Len(s) : Brings(s[j], p)
Settling(p) ==
  \/ Coming(Stream, p)
  \/ at[made] = "applied" /\ Brings(task[made], p)

\* The last permission in q for p is on exactly when v; if there is none, then fine.
LastIs(q, p, fine, v) ==
  /\ \A j \in 1 .. Len(q) :
       q[j].player = p /\ (\A i \in j + 1 .. Len(q) : q[i].player # p) => (q[j].value = "on" <=> v)
  /\ (\A j \in 1 .. Len(q) : q[j].player # p) => fine

\* The permissions on the way to the plugin, and what holds once they are through.
Way == asked[made] \o out
Right(p) == p \in lost \/ (attach[p] = "on" <=> Allowed(p))

PermissionComes(p) ==
  \/ p \in unsent
  \/ IF due[made][p] # "no" THEN due[made][p] = "on" <=> Allowed(p)
     ELSE LastIs(Way, p, Right(p), Allowed(p))

DueSent    == \A t \in Threads : at[t] # "permissions" => due[t] = NoDue
CliIdle    == ops.cli = 0 => at[0] = "idle"
WhoReturns == Live => \A p \in ingame : Returns(Stream, p)
Decided    == Live /\ ops.cli = 0 => \A p \in ingame : Settling(p) \/ PermissionComes(p)

PermissionsCome == DueSent /\ CliIdle /\ WhoReturns /\ Decided

LinkInv == LinkTypes /\ OneLink /\ SubmitsTrue /\ PresenceComes /\ CommandsTrue /\ PermissionsCome

-----------------------------------------------------------------------------
(* The stream: what is read moves from its second part to its first.       *)
LEMMA StreamAppend ==
  ASSUME NEW S, NEW o \in Seq(S), NEW w \in Seq(S), NEW r \in S
  PROVE  o \o Append(w, r) = Append(o \o w, r)
  <1> DEFINE a == o \o Append(w, r)
             b == Append(o \o w, r)
  <1>1. o \o w \in Seq(S) /\ Append(w, r) \in Seq(S)
    BY ConcatProperties, AppendProperties
  <1>2. a \in Seq(S) /\ b \in Seq(S)
    BY <1>1, ConcatProperties, AppendProperties
  <1>3. Len(a) = Len(o) + Len(w) + 1 /\ Len(b) = Len(o) + Len(w) + 1
    BY <1>1, ConcatProperties, AppendProperties
  <1>4. /\ Len(o) \in Nat /\ Len(w) \in Nat /\ Len(Append(w, r)) = Len(w) + 1
        /\ Len(o \o w) = Len(o) + Len(w)
        /\ \A i \in 1 .. Len(w) : Append(w, r)[i] = w[i]
        /\ Append(w, r)[Len(w) + 1] = r
    BY <1>1, ConcatProperties, AppendProperties
  <1>5. ASSUME NEW i \in 1 .. Len(a) PROVE a[i] = b[i]
    <2>0. \A x \in Seq(S) : \A y \in 1 .. Len(o) + Len(x) :
            (o \o x)[y] = IF y <= Len(o) THEN o[y] ELSE x[y - Len(o)]
      BY ConcatProperties
    <2>1. a[i] = IF i <= Len(o) THEN o[i] ELSE Append(w, r)[i - Len(o)]
      BY <1>1, <1>3, <1>4, <2>0
    <2>2. i \in 1 .. Len(o \o w) => b[i] = (o \o w)[i]
      BY <1>1, AppendProperties
    <2>3. i \in 1 .. Len(o \o w) => (o \o w)[i] = IF i <= Len(o) THEN o[i] ELSE w[i - Len(o)]
      BY <1>4, ConcatProperties
    <2>4. b[Len(o \o w) + 1] = r  BY <1>1, AppendProperties
    <2>5. CASE i <= Len(o)  BY <1>3, <1>4, <2>1, <2>2, <2>3, <2>5
    <2>6. CASE i > Len(o) /\ i <= Len(o) + Len(w)
      <3>1. i - Len(o) \in 1 .. Len(w)  BY <1>3, <1>4, <2>6
      <3> QED  BY <1>3, <1>4, <2>1, <2>2, <2>3, <2>6, <3>1
    <2>7. CASE i = Len(o) + Len(w) + 1
      <3>1. i - Len(o) = Len(w) + 1  BY <1>4, <2>7
      <3> QED  BY <1>3, <1>4, <2>1, <2>4, <2>7, <3>1
    <2> QED  BY <1>3, <1>4, <2>5, <2>6, <2>7
  <1> QED  BY <1>2, <1>3, <1>5, SeqEqual

LEMMA StreamMove ==
  ASSUME NEW S, NEW o \in Seq(S), NEW w \in Seq(S), w # <<>>
  PROVE  Append(o, Head(w)) \o Tail(w) = o \o w
  <1> DEFINE a == Append(o, Head(w)) \o Tail(w)
             b == o \o w
  <1>1. /\ Head(w) \in S /\ Head(w) = w[1] /\ Tail(w) \in Seq(S) /\ Len(Tail(w)) = Len(w) - 1
        /\ \A i \in 1 .. Len(Tail(w)) : Tail(w)[i] = w[i + 1]
        /\ Len(o) \in Nat /\ Len(w) \in Nat /\ Len(w) > 0
    BY HeadTailProperties
  <1>2. /\ Append(o, Head(w)) \in Seq(S) /\ Len(Append(o, Head(w))) = Len(o) + 1
        /\ \A i \in 1 .. Len(o) : Append(o, Head(w))[i] = o[i]
        /\ Append(o, Head(w))[Len(o) + 1] = Head(w)
    BY <1>1, AppendProperties
  <1>3. /\ a \in Seq(S) /\ b \in Seq(S)
        /\ Len(a) = Len(o) + Len(w) /\ Len(b) = Len(o) + Len(w)
    BY <1>1, <1>2, ConcatProperties
  <1>4. ASSUME NEW i \in 1 .. Len(a) PROVE a[i] = b[i]
    <2>1. a[i] = IF i <= Len(o) + 1 THEN Append(o, Head(w))[i] ELSE Tail(w)[i - (Len(o) + 1)]
      BY <1>1, <1>2, <1>3, ConcatProperties
    <2>2. b[i] = IF i <= Len(o) THEN o[i] ELSE w[i - Len(o)]
      BY <1>3, ConcatProperties
    <2>3. CASE i <= Len(o)  BY <1>1, <1>2, <1>3, <2>1, <2>2, <2>3
    <2>4. CASE i = Len(o) + 1  BY <1>1, <1>2, <1>3, <2>1, <2>2, <2>4
    <2>5. CASE i > Len(o) + 1
      <3>1. i - (Len(o) + 1) \in 1 .. Len(Tail(w))  BY <1>1, <1>3, <2>5
      <3>2. Tail(w)[i - (Len(o) + 1)] = w[i - (Len(o) + 1) + 1]  BY <1>1, <3>1
      <3>3. i - (Len(o) + 1) + 1 = i - Len(o)  BY <1>1, <1>3
      <3> QED  BY <1>1, <1>3, <2>1, <2>2, <2>5, <3>2, <3>3
    <2> QED  BY <1>1, <1>3, <2>3, <2>4, <2>5
  <1> QED  BY <1>3, <1>4, SeqEqual

LEMMA StreamTail ==
  ASSUME NEW S, NEW o \in Seq(S), NEW w \in Seq(S), o # <<>>
  PROVE  /\ o \o w \in Seq(S) /\ o \o w # <<>> /\ Head(o \o w) = Head(o)
         /\ Tail(o) \o w = Tail(o \o w)
  <1> DEFINE a == Tail(o) \o w
             b == Tail(o \o w)
  <1>1. /\ Tail(o) \in Seq(S) /\ Len(Tail(o)) = Len(o) - 1
        /\ \A i \in 1 .. Len(Tail(o)) : Tail(o)[i] = o[i + 1]
        /\ Len(o) \in Nat /\ Len(w) \in Nat /\ Len(o) > 0
    BY HeadTailProperties
  <1>2. /\ o \o w \in Seq(S) /\ Len(o \o w) = Len(o) + Len(w)
        /\ \A i \in 1 .. Len(o) + Len(w) : (o \o w)[i] = IF i <= Len(o) THEN o[i] ELSE w[i - Len(o)]
    BY ConcatProperties
  <1>3. o \o w # <<>> /\ Head(o \o w) = Head(o)
    BY <1>1, <1>2
  <1>4. /\ b \in Seq(S) /\ Len(b) = Len(o) + Len(w) - 1
        /\ \A i \in 1 .. Len(b) : b[i] = (o \o w)[i + 1]
    BY <1>1, <1>2, <1>3, HeadTailProperties
  <1>5. /\ a \in Seq(S) /\ Len(a) = Len(o) - 1 + Len(w)
        /\ \A i \in 1 .. Len(o) - 1 + Len(w) :
             a[i] = IF i <= Len(o) - 1 THEN Tail(o)[i] ELSE w[i - (Len(o) - 1)]
    BY <1>1, ConcatProperties
  <1>6. ASSUME NEW i \in 1 .. Len(a) PROVE a[i] = b[i]
    <2>1. b[i] = IF i + 1 <= Len(o) THEN o[i + 1] ELSE w[i + 1 - Len(o)]
      BY <1>1, <1>2, <1>4, <1>5
    <2>2. CASE i <= Len(o) - 1  BY <1>1, <1>5, <2>1, <2>2
    <2>3. CASE i > Len(o) - 1
      <3>1. i + 1 - Len(o) = i - (Len(o) - 1)  BY <1>1, <1>5
      <3> QED  BY <1>1, <1>5, <2>1, <2>3, <3>1
    <2> QED  BY <1>1, <1>5, <2>2, <2>3
  <1>7. Len(a) = Len(b)  BY <1>1, <1>4, <1>5
  <1>8. a = b  BY <1>4, <1>5, <1>6, <1>7, SeqEqual
  <1> QED  BY <1>2, <1>3, <1>8

(* What a stream says, when its head is handled or something is appended.  *)
LEMMA FollowsTail ==
  ASSUME NEW s \in Seq(Req), s # <<>>, NEW k \in 2 .. Len(s) + 1, NEW p, NEW now, NEW v,
         Follows(s, k, p, now, v)
  PROVE  Follows(Tail(s), k - 1, p, IF Tells(Head(s), p) THEN Says(Head(s), p) ELSE now, v)
  <1> DEFINE t == Tail(s)
  <1>1. /\ Head(s) = s[1] /\ Len(s) \in Nat /\ Len(s) > 0 /\ Len(t) = Len(s) - 1
        /\ \A i \in 1 .. Len(t) : t[i] = s[i + 1]
    BY HeadTailProperties
  <1> HIDE DEF t
  <1>2. ASSUME NEW j \in 1 .. k - 2, Tells(t[j], p), \A i \in j + 1 .. k - 2 : ~Tells(t[i], p)
        PROVE  Says(t[j], p) = v
    <2>1. j + 1 \in 1 .. k - 1 /\ t[j] = s[j + 1]  BY <1>1
    <2>2. ASSUME NEW i \in j + 2 .. k - 1 PROVE ~Tells(s[i], p)
      <3>1. i - 1 \in j + 1 .. k - 2 /\ i - 1 \in 1 .. Len(t) /\ (i - 1) + 1 = i  BY <1>1
      <3>2. t[i - 1] = s[i]  BY <1>1, <3>1
      <3> QED  BY <1>2, <3>1, <3>2
    <2>3. j + 1 + 1 = j + 2  OBVIOUS
    <2> QED  BY <1>2, <2>1, <2>2, <2>3 DEF Follows
  <1>3. ASSUME \A j \in 1 .. k - 2 : ~Tells(t[j], p)
        PROVE  (IF Tells(s[1], p) THEN Says(s[1], p) ELSE now) = v
    <2>1. ASSUME NEW i \in 2 .. k - 1 PROVE ~Tells(s[i], p)
      <3>1. i - 1 \in 1 .. k - 2 /\ i - 1 \in 1 .. Len(t) /\ (i - 1) + 1 = i  BY <1>1
      <3>2. t[i - 1] = s[i]  BY <1>1, <3>1
      <3> QED  BY <1>3, <3>1, <3>2
    <2>2. CASE Tells(s[1], p)
      <3>1. 1 \in 1 .. k - 1 /\ 1 + 1 = 2  OBVIOUS
      <3> QED  BY <2>1, <2>2, <3>1 DEF Follows
    <2>3. CASE ~Tells(s[1], p)
      <3>1. \A i \in 1 .. k - 1 : i = 1 \/ i \in 2 .. k - 1  OBVIOUS
      <3>2. \A i \in 1 .. k - 1 : ~Tells(s[i], p)  BY <2>1, <2>3, <3>1
      <3> QED  BY <2>3, <3>2 DEF Follows
    <2> QED  BY <2>2, <2>3
  <1>4. (k - 1) - 1 = k - 2  OBVIOUS
  <1> QED  BY <1>1, <1>2, <1>3, <1>4 DEF Follows, t

LEMMA FollowsAppend ==
  ASSUME NEW s \in Seq(Req), NEW r \in Req, NEW k \in 1 .. Len(s) + 1, NEW p, NEW now, NEW v
  PROVE  Follows(s, k, p, now, v) <=> Follows(Append(s, r), k, p, now, v)
  <1>1. \A i \in 1 .. Len(s) : Append(s, r)[i] = s[i]  BY AppendProperties
  <1>2. \A i \in 1 .. k - 1 : Append(s, r)[i] = s[i]  BY <1>1
  <1>3. \A j \in 1 .. k - 1 : \A i \in j + 1 .. k - 1 : i \in 1 .. k - 1  OBVIOUS
  <1> QED  BY <1>2, <1>3 DEF Follows

(* One more request: it decides, or nothing changes.                       *)
LEMMA FollowsNext ==
  ASSUME NEW s \in Seq(Req), NEW r \in Req, NEW p, NEW now, NEW v,
         IF Tells(r, p) THEN Says(r, p) = v ELSE Follows(s, Len(s) + 1, p, now, v)
  PROVE  Follows(Append(s, r), Len(Append(s, r)) + 1, p, now, v)
  <1> DEFINE a == Append(s, r)
  <1>1. /\ Len(a) = Len(s) + 1 /\ Len(s) \in Nat /\ a[Len(s) + 1] = r
        /\ \A i \in 1 .. Len(s) : a[i] = s[i]
    BY AppendProperties
  <1> HIDE DEF a
  <1>2. (Len(a) + 1) - 1 = Len(s) + 1 /\ (Len(s) + 1) - 1 = Len(s)  BY <1>1
  <1>3. ASSUME NEW j \in 1 .. Len(s) + 1, Tells(a[j], p),
               \A i \in j + 1 .. Len(s) + 1 : ~Tells(a[i], p)
        PROVE  Says(a[j], p) = v
    <2>1. CASE Tells(r, p)
      <3>1. j = Len(s) + 1  BY <1>1, <1>3, <2>1
      <3> QED  BY <1>1, <2>1, <3>1
    <2>2. CASE ~Tells(r, p)
      <3>1. j \in 1 .. Len(s) /\ a[j] = s[j]  BY <1>1, <1>3, <2>2
      <3>2. \A i \in j + 1 .. Len(s) : i \in j + 1 .. Len(s) + 1 /\ a[i] = s[i]  BY <1>1, <3>1
      <3>3. \A i \in j + 1 .. Len(s) : ~Tells(s[i], p)  BY <1>3, <3>2
      <3> QED  BY <1>2, <1>3, <2>2, <3>1, <3>3 DEF Follows
    <2> QED  BY <2>1, <2>2
  <1>4. ASSUME \A j \in 1 .. Len(s) + 1 : ~Tells(a[j], p)
        PROVE  now = v
    <2>1. ~Tells(r, p)  BY <1>1, <1>4
    <2>2. \A j \in 1 .. Len(s) : ~Tells(s[j], p)  BY <1>1, <1>4
    <2> QED  BY <1>2, <2>1, <2>2 DEF Follows
  <1> QED  BY <1>2, <1>3, <1>4 DEF Follows, a

LEMMA SubmitsTail ==
  ASSUME NEW s \in Seq(Req), s # <<>>, NEW now, NEW next, SubmitsIn(s, now),
         \A p \in Players : next[p].session = IF Tells(Head(s), p) THEN Says(Head(s), p) ELSE now[p].session
  PROVE  SubmitsIn(Tail(s), next)
  <1>1. /\ Len(s) \in Nat /\ Len(Tail(s)) = Len(s) - 1
        /\ \A i \in 1 .. Len(Tail(s)) : Tail(s)[i] = s[i + 1]
        /\ \A i \in 1 .. Len(s) : s[i] \in Req
    BY HeadTailProperties
  <1> SUFFICES ASSUME NEW k \in 1 .. Len(Tail(s)), Tail(s)[k].kind = "submit", NEW p \in Tail(s)[k].who
               PROVE  Follows(Tail(s), k, p, next[p].session, Tail(s)[k].session[p])
    BY DEF SubmitsIn
  <1>2. k + 1 \in 2 .. Len(s) + 1 /\ k + 1 \in 1 .. Len(s) /\ Tail(s)[k] = s[k + 1] /\ (k + 1) - 1 = k
    BY <1>1
  <1>3. p \in Players  BY <1>1, <1>2 DEF Req
  <1>4. Follows(s, k + 1, p, now[p].session, s[k + 1].session[p])  BY <1>2 DEF SubmitsIn
  <1>5. Follows(Tail(s), (k + 1) - 1, p,
                IF Tells(Head(s), p) THEN Says(Head(s), p) ELSE now[p].session, s[k + 1].session[p])
    BY <1>2, <1>4, FollowsTail
  <1> QED  BY <1>2, <1>3, <1>5

LEMMA SubmitsAppend ==
  ASSUME NEW s \in Seq(Req), NEW r \in Req, NEW now, SubmitsIn(s, now),
         r.kind = "submit" => \A p \in r.who : Follows(s, Len(s) + 1, p, now[p].session, r.session[p])
  PROVE  SubmitsIn(Append(s, r), now)
  <1> DEFINE a == Append(s, r)
  <1>1. /\ Len(a) = Len(s) + 1 /\ Len(s) \in Nat /\ a[Len(s) + 1] = r
        /\ \A i \in 1 .. Len(s) : a[i] = s[i]
    BY AppendProperties
  <1>2. ASSUME NEW k \in 1 .. Len(a), a[k].kind = "submit", NEW p \in a[k].who
        PROVE  Follows(a, k, p, now[p].session, a[k].session[p])
    <2>1. Follows(s, k, p, now[p].session, a[k].session[p])
      <3>1. CASE k \in 1 .. Len(s)  BY <1>1, <1>2, <3>1 DEF SubmitsIn
      <3>2. CASE k = Len(s) + 1  BY <1>1, <1>2, <3>2
      <3> QED  BY <1>1, <3>1, <3>2
    <2>2. k \in 1 .. Len(s) + 1  BY <1>1
    <2> HIDE DEF a
    <2> QED  BY <2>1, <2>2, FollowsAppend DEF a
  <1> QED  BY <1>2 DEF SubmitsIn

LEMMA ReturnsTail ==
  ASSUME NEW s \in Seq(Req), s # <<>>, NEW p, Returns(s, p)
  PROVE  /\ Returns(Tail(s), p)
         /\ Tells(Head(s), p) /\ ~Brings(Head(s), p) => \E i \in 1 .. Len(Tail(s)) : Brings(Tail(s)[i], p)
  <1> DEFINE t == Tail(s)
  <1>1. /\ Head(s) = s[1] /\ Len(s) \in Nat /\ Len(s) > 0 /\ Len(t) = Len(s) - 1
        /\ \A i \in 1 .. Len(t) : t[i] = s[i + 1]
    BY HeadTailProperties
  <1> HIDE DEF t
  <1>2. ASSUME NEW j \in 1 .. Len(s), Tells(s[j], p), ~Brings(s[j], p)
        PROVE  \E i \in j .. Len(t) : Brings(t[i], p)
    <2>1. PICK i \in j + 1 .. Len(s) : Brings(s[i], p)  BY <1>2 DEF Returns
    <2>2. i - 1 \in j .. Len(t) /\ i - 1 \in 1 .. Len(t) /\ (i - 1) + 1 = i  BY <1>1
    <2>3. t[i - 1] = s[i]  BY <1>1, <2>2
    <2> QED  BY <2>1, <2>2, <2>3
  <1>3. ASSUME NEW j \in 1 .. Len(t), Tells(t[j], p), ~Brings(t[j], p)
        PROVE  \E i \in j + 1 .. Len(t) : Brings(t[i], p)
    <2>1. j + 1 \in 1 .. Len(s) /\ t[j] = s[j + 1]  BY <1>1
    <2> QED  BY <1>2, <1>3, <2>1
  <1>4. 1 \in 1 .. Len(s)  BY <1>1
  <1>5. Tells(Head(s), p) /\ ~Brings(Head(s), p) => \E i \in 1 .. Len(t) : Brings(t[i], p)
    BY <1>1, <1>2, <1>4
  <1> QED  BY <1>3, <1>5 DEF Returns, t

LEMMA ReturnsAppend ==
  ASSUME NEW s \in Seq(Req), NEW r \in Req, NEW p,
         Brings(r, p) \/ (Returns(s, p) /\ ~Tells(r, p))
  PROVE  Returns(Append(s, r), p)
  <1> DEFINE a == Append(s, r)
  <1>1. /\ Len(a) = Len(s) + 1 /\ Len(s) \in Nat /\ a[Len(s) + 1] = r
        /\ \A i \in 1 .. Len(s) : a[i] = s[i]
    BY AppendProperties
  <1> HIDE DEF a
  <1>2. ASSUME NEW j \in 1 .. Len(a), Tells(a[j], p), ~Brings(a[j], p)
        PROVE  \E i \in j + 1 .. Len(a) : Brings(a[i], p)
    <2>1. j \in 1 .. Len(s) /\ a[j] = s[j]  BY <1>1, <1>2
    <2>2. CASE Brings(r, p)
      <3>1. Len(s) + 1 \in j + 1 .. Len(a)  BY <1>1, <2>1
      <3> QED  BY <1>1, <2>2, <3>1
    <2>3. CASE Returns(s, p)
      <3>1. PICK i \in j + 1 .. Len(s) : Brings(s[i], p)  BY <1>2, <2>1, <2>3 DEF Returns
      <3>2. i \in j + 1 .. Len(a) /\ a[i] = s[i]  BY <1>1
      <3> QED  BY <3>1, <3>2
    <2> QED  BY <2>2, <2>3
  <1> QED  BY <1>2 DEF Returns, a

LEMMA LastIsTail ==
  ASSUME NEW q \in Seq(Permission), q # <<>>, NEW p, NEW fine \in BOOLEAN, NEW v \in BOOLEAN, LastIs(q, p, fine, v)
  PROVE  LastIs(Tail(q), p, IF Head(q).player = p THEN Head(q).value = "on" <=> v ELSE fine, v)
  <1> DEFINE t == Tail(q)
  <1>1. /\ Head(q) = q[1] /\ Len(q) \in Nat /\ Len(q) > 0 /\ Len(t) = Len(q) - 1
        /\ \A i \in 1 .. Len(t) : t[i] = q[i + 1]
    BY HeadTailProperties
  <1> HIDE DEF t
  <1>2. ASSUME NEW j \in 1 .. Len(t), t[j].player = p, \A i \in j + 1 .. Len(t) : t[i].player # p
        PROVE  t[j].value = "on" <=> v
    <2>1. j + 1 \in 1 .. Len(q) /\ t[j] = q[j + 1]  BY <1>1
    <2>2. ASSUME NEW i \in (j + 1) + 1 .. Len(q) PROVE q[i].player # p
      <3>1. i - 1 \in j + 1 .. Len(t) /\ i - 1 \in 1 .. Len(t) /\ (i - 1) + 1 = i  BY <1>1
      <3>2. t[i - 1] = q[i]  BY <1>1, <3>1
      <3> QED  BY <1>2, <3>1, <3>2
    <2> QED  BY <1>2, <2>1, <2>2 DEF LastIs
  <1>3. ASSUME \A j \in 1 .. Len(t) : t[j].player # p
        PROVE  IF q[1].player = p THEN q[1].value = "on" <=> v ELSE fine
    <2>1. ASSUME NEW i \in 2 .. Len(q) PROVE q[i].player # p
      <3>1. i - 1 \in 1 .. Len(t) /\ (i - 1) + 1 = i  BY <1>1
      <3>2. t[i - 1] = q[i]  BY <1>1, <3>1
      <3> QED  BY <1>3, <3>1, <3>2
    <2>2. CASE q[1].player = p
      <3>1. 1 \in 1 .. Len(q) /\ 1 + 1 = 2  BY <1>1
      <3>2. q[1].value = "on" <=> v  BY <2>1, <2>2, <3>1 DEF LastIs
      <3> QED  BY <2>2, <3>2
    <2>3. CASE q[1].player # p
      <3>1. \A i \in 1 .. Len(q) : i = 1 \/ i \in 2 .. Len(q)  BY <1>1
      <3>2. \A i \in 1 .. Len(q) : q[i].player # p  BY <2>1, <2>3, <3>1
      <3>3. fine  BY <3>2 DEF LastIs
      <3> QED  BY <2>3, <3>3
    <2> QED  BY <2>2, <2>3
  <1> QED  BY <1>1, <1>2, <1>3 DEF LastIs, t

LEMMA LastIsAppend ==
  ASSUME NEW q \in Seq(Permission), NEW m \in Permission, NEW p, NEW fine \in BOOLEAN, NEW v \in BOOLEAN,
         IF m.player = p THEN m.value = "on" <=> v ELSE LastIs(q, p, fine, v)
  PROVE  LastIs(Append(q, m), p, fine, v)
  <1> DEFINE a == Append(q, m)
  <1>1. /\ Len(a) = Len(q) + 1 /\ Len(q) \in Nat /\ a[Len(q) + 1] = m
        /\ \A i \in 1 .. Len(q) : a[i] = q[i]
    BY AppendProperties
  <1> HIDE DEF a
  <1>2. ASSUME NEW j \in 1 .. Len(a), a[j].player = p, \A i \in j + 1 .. Len(a) : a[i].player # p
        PROVE  a[j].value = "on" <=> v
    <2>1. CASE m.player = p
      <3>1. j = Len(q) + 1  BY <1>1, <1>2, <2>1
      <3> QED  BY <1>1, <2>1, <3>1
    <2>2. CASE m.player # p
      <3>1. j \in 1 .. Len(q) /\ a[j] = q[j]  BY <1>1, <1>2, <2>2
      <3>2. \A i \in j + 1 .. Len(q) : i \in j + 1 .. Len(a) /\ a[i] = q[i]  BY <1>1, <3>1
      <3>3. \A i \in j + 1 .. Len(q) : q[i].player # p  BY <1>2, <3>2
      <3>4. LastIs(q, p, fine, v)  BY <2>2
      <3> QED  BY <1>2, <3>1, <3>3, <3>4 DEF LastIs
    <2> QED  BY <2>1, <2>2
  <1>3. ASSUME \A j \in 1 .. Len(a) : a[j].player # p PROVE fine
    <2>1. m.player # p  BY <1>1, <1>3
    <2>2. \A j \in 1 .. Len(q) : q[j].player # p  BY <1>1, <1>3
    <2> QED  BY <2>1, <2>2 DEF LastIs
  <1> QED  BY <1>2, <1>3 DEF LastIs, a

-----------------------------------------------------------------------------
(* Presence: a record that is written has a number above all earlier ones. *)
LEMMA JoinAllDoes ==
  ASSUME LinkTypes, LinkAssumption, NEW S \in SUBSET Players, NEW base \in [Players -> Rec],
         NEW session \in [Players -> Nat], JoinAll(S, base, session)
  PROVE  /\ joins' \in Nat /\ joins <= joins' /\ rec' \in [Players -> Rec]
         /\ \A p \in S : /\ rec'[p].epoch = link /\ rec'[p].session = session[p]
                         /\ joins < rec'[p].n /\ rec'[p].n <= joins'
         /\ \A p \in Players \ S : rec'[p] = base[p]
  <1>1. PICK f \in Numberings(S) :
          /\ rec' = [p \in Players |-> IF p \in S
                       THEN [epoch |-> link, n |-> joins + f[p], session |-> session[p]] ELSE base[p]]
          /\ joins' = joins + Cardinality(S)
    BY DEF JoinAll
  <1>2. IsFiniteSet(S) /\ Cardinality(S) \in Nat
    BY FS_Subset, FS_CardinalityType DEF LinkAssumption
  <1>3. f \in [S -> 1 .. Cardinality(S)]  BY DEF Numberings
  <1>4. joins \in Nat /\ link \in Nat  BY DEF LinkTypes, PresTypes, SocketTypes, LinkAssumption, Threads
  <1>5. \A p \in S : f[p] \in Nat /\ f[p] >= 1 /\ f[p] <= Cardinality(S)  BY <1>2, <1>3
  <1>6. \A p \in S : rec'[p] = [epoch |-> link, n |-> joins + f[p], session |-> session[p]]
    BY <1>1
  <1>7. ASSUME NEW p \in S PROVE rec'[p] \in Rec
    <2> DEFINE n == joins + f[p]
               sess == session[p]
    <2>1. n \in Nat /\ sess \in Nat  BY <1>4, <1>5
    <2>2. rec'[p] = [epoch |-> link, n |-> n, session |-> sess]  BY <1>6
    <2> HIDE DEF n, sess
    <2> QED  BY <1>4, <2>1, <2>2 DEF Rec
  <1>8. \A p \in Players \ S : rec'[p] = base[p]  BY <1>1
  <1>9. rec' \in [Players -> Rec]
    <2>1. \A p \in Players : rec'[p] \in Rec  BY <1>7, <1>8
    <2>2. rec' = [p \in Players |-> rec'[p]]  BY <1>1
    <2> QED  BY <2>1, <2>2
  <1>10. \A p \in S : /\ rec'[p].epoch = link /\ rec'[p].session = session[p]
                      /\ joins < rec'[p].n /\ rec'[p].n <= joins'
    BY <1>1, <1>2, <1>4, <1>5, <1>6
  <1>11. joins' = joins + Cardinality(S)  BY <1>1
  <1>12. joins' \in Nat /\ joins <= joins'  BY <1>2, <1>4, <1>11
  <1> QED  BY <1>8, <1>9, <1>10, <1>12

(* A report changes the sessions as it says.                               *)
LEMMA PresenceDoes ==
  ASSUME LinkTypes, LinkAssumption, NEW r \in Req, r.kind \in {"snapshot", "join", "quit"}, PresenceApply(r)
  PROVE  /\ joins' \in Nat /\ joins <= joins' /\ rec' \in [Players -> Rec]
         /\ \A p \in Players :
              \/ rec'[p] = rec[p] /\ ~Tells(r, p)
              \/ rec'[p] = NoRecord /\ Tells(r, p) /\ Says(r, p) = 0
              \/ /\ Brings(r, p) /\ rec'[p].epoch = link /\ rec'[p].session = r.session[p]
                 /\ joins < rec'[p].n /\ rec'[p].n <= joins'
  <1>1. /\ r.who \in SUBSET Players /\ r.session \in [Players -> Nat]
        /\ joins \in Nat /\ rec \in [Players -> Rec]
    BY DEF Req, LinkTypes, PresTypes
  <1>2. NoRecord \in Rec  BY DEF NoRecord, Rec
  <1>3. CASE r.kind = "snapshot"
    <2>1. JoinAll(r.who, [p \in Players |-> NoRecord], r.session)  BY <1>3 DEF PresenceApply
    <2> DEFINE nobody == [p \in Players |-> NoRecord]
    <2>2. nobody \in [Players -> Rec] /\ \A p \in Players : nobody[p] = NoRecord  BY <1>2
    <2> HIDE DEF nobody
    <2>3. JoinAll(r.who, nobody, r.session)  BY <2>1 DEF nobody
    <2>4. /\ joins' \in Nat /\ joins <= joins' /\ rec' \in [Players -> Rec]
          /\ \A p \in r.who : /\ rec'[p].epoch = link /\ rec'[p].session = r.session[p]
                              /\ joins < rec'[p].n /\ rec'[p].n <= joins'
          /\ \A p \in Players \ r.who : rec'[p] = nobody[p]
      BY <1>1, <2>2, <2>3, JoinAllDoes
    <2> QED  BY <1>1, <1>3, <2>2, <2>4 DEF Tells, Brings, Says
  <1>4. CASE r.kind = "join"
    <2>1. JoinAll(r.who, rec, r.session)  BY <1>4 DEF PresenceApply
    <2> QED  BY <1>1, <1>4, <2>1, JoinAllDoes DEF Tells, Brings, Says
  <1>5. CASE r.kind = "quit"
    <2>1. /\ rec' = [p \in Players |-> IF p \in r.who THEN NoRecord ELSE rec[p]]
          /\ joins' = joins
      BY <1>5 DEF PresenceApply
    <2> QED  BY <1>1, <1>2, <1>5, <2>1 DEF Tells, Brings, Says
  <1> QED  BY <1>3, <1>4, <1>5

(* Deciding permissions keeps every session, and only renumbers records.   *)
Renumbered ==
  /\ joins' \in Nat /\ joins <= joins' /\ rec' \in [Players -> Rec]
  /\ \A p \in Players :
       \/ rec'[p] = rec[p]
       \/ /\ Known(p) /\ rec'[p].epoch = link /\ rec'[p].session = rec[p].session
          /\ joins < rec'[p].n /\ rec'[p].n <= joins'

Decides(t, S) ==
  /\ due' \in [Threads -> [Players -> PermissionValues]]
  /\ \A x \in Threads : x # t => due'[x] = due[x]
  /\ \A p \in Players : due'[t][p] =
       IF p \in S THEN IF Known(p) /\ status'[p] = "allowed" THEN "on" ELSE "off" ELSE "no"
  /\ unsent' = unsent \ S

\* Nothing is sent: whose status has changed has none coming.
Withholds ==
  /\ due' = due /\ unsent \subseteq unsent' /\ unsent' \subseteq Players
  /\ \A q \in Players : status'[q] = status[q] \/ q \in unsent'

LEMMA ApplyEachDoes ==
  ASSUME LinkTypes, LinkAssumption, NEW S \in SUBSET Players,
         NEW before \in [Players -> BOOLEAN], ApplyEach(S, before)
  PROVE  Renumbered /\ granted' \in [Players -> BOOLEAN]
  <1> DEFINE again == {p \in S : Known(p) /\ before[p] # Now[p]}
             sessions == [p \in Players |-> rec[p].session]
  <1>1. /\ JoinAll(again, rec, sessions)
        /\ granted' = [p \in Players |-> IF p \in S THEN Now[p] ELSE before[p]]
    BY DEF ApplyEach
  <1>2. rec \in [Players -> Rec]  BY DEF LinkTypes, PresTypes
  <1>3. again \in SUBSET Players /\ \A p \in again : Known(p)  OBVIOUS
  <1>4. sessions \in [Players -> Nat]  BY <1>2 DEF Rec
  <1>5. Now \in [Players -> BOOLEAN]  BY DEF Now, Known
  <1>6. \A p \in Players : sessions[p] = rec[p].session  OBVIOUS
  <1> HIDE DEF again, sessions
  <1>7. /\ joins' \in Nat /\ joins <= joins' /\ rec' \in [Players -> Rec]
        /\ \A p \in again : /\ rec'[p].epoch = link /\ rec'[p].session = sessions[p]
                            /\ joins < rec'[p].n /\ rec'[p].n <= joins'
        /\ \A p \in Players \ again : rec'[p] = rec[p]
    BY <1>1, <1>2, <1>3, <1>4, JoinAllDoes
  <1>8. granted' \in [Players -> BOOLEAN]  BY <1>1, <1>5
  <1>9. \A p \in Players :
             \/ rec'[p] = rec[p]
             \/ /\ Known(p) /\ rec'[p].epoch = link /\ rec'[p].session = rec[p].session
                /\ joins < rec'[p].n /\ rec'[p].n <= joins'
    BY <1>3, <1>6, <1>7
  <1> QED  BY <1>7, <1>8, <1>9 DEF Renumbered

LEMMA ApplyDoes ==
  ASSUME LinkTypes, LinkAssumption, NEW t \in Threads, NEW S \in SUBSET Players,
         NEW before \in [Players -> BOOLEAN], ApplyAll(t, S, before)
  PROVE  Renumbered /\ granted' \in [Players -> BOOLEAN] /\ Decides(t, S)
  <1> DEFINE change == {p \in S : before[p] # Now[p]}
  <1>1. /\ ApplyEach(S, before) /\ unsent' = unsent \ S
        /\ due' = [due EXCEPT ![t] = Due(S, change, Now)]
    BY DEF ApplyAll
  <1>2. due \in [Threads -> [Players -> PermissionValues]]  BY DEF LinkTypes, ThreadTypes
  <1>3. \A p \in Players : Now[p] = (Known(p) /\ status'[p] = "allowed")  BY DEF Now
  <1> HIDE DEF change
  <1>4. Due(S, change, Now) = [p \in Players |-> IF p \in S THEN IF Now[p] THEN "on" ELSE "off" ELSE "no"]
    BY DEF Due
  <1>5. Due(S, change, Now) \in [Players -> PermissionValues]
    BY <1>4 DEF PermissionValues
  <1>6. /\ due' \in [Threads -> [Players -> PermissionValues]]
        /\ \A x \in Threads : x # t => due'[x] = due[x]
        /\ due'[t] = Due(S, change, Now)
    BY <1>1, <1>2, <1>5
  <1>7. \A p \in Players : due'[t][p] =
          IF p \in S THEN IF Known(p) /\ status'[p] = "allowed" THEN "on" ELSE "off" ELSE "no"
    BY <1>3, <1>4, <1>6
  <1>8. Renumbered /\ granted' \in [Players -> BOOLEAN]  BY <1>1, ApplyEachDoes
  <1> QED  BY <1>1, <1>6, <1>7, <1>8 DEF Decides

(* An operation of a thread: it decides for everybody online, or stops.    *)
LEMMA OperationDoes ==
  ASSUME LinkTypes, LinkAssumption, NEW t \in Threads, NEW kind, NEW p \in Players, Operation(t, kind, p)
  PROVE  /\ Renumbered
         /\ status' \in [Players -> {"none", "allowed", "revoked"}] /\ grev' \in [Players -> Nat]
         /\ granted' \in [Players -> BOOLEAN]
         /\ Withholds \/ Decides(t, {q \in Players : Known(q)})
  <1> DEFINE S == {q \in Players : Known(q)}
  <1>1. /\ joins \in Nat /\ rec \in [Players -> Rec] /\ granted \in [Players -> BOOLEAN]
        /\ status \in [Players -> {"none", "allowed", "revoked"}] /\ grev \in [Players -> Nat]
        /\ unsent \subseteq Players
    BY DEF LinkTypes, PresTypes, AuthTypes, QueueTypes
  <1>2. CASE OperationStops(kind, p)
    <2>1. UNCHANGED <<joins, rec, granted, due>>  BY <1>2 DEF OperationStops, presVars
    <2>2. \/ UNCHANGED <<status, grev, unsent>>
          \/ /\ status' = [status EXCEPT ![p] = "revoked"]
             /\ grev' = grev \/ grev' = [grev EXCEPT ![p] = @ + 1]
             /\ unsent' = unsent \cup {p}
      BY <1>2 DEF OperationStops
    <2>3. /\ status' \in [Players -> {"none", "allowed", "revoked"}] /\ grev' \in [Players -> Nat]
      BY <1>1, <2>2
    <2>4. Withholds  BY <1>1, <2>1, <2>2 DEF Withholds
    <2>5. Renumbered  BY <1>1, <2>1 DEF Renumbered
    <2> QED  BY <1>1, <2>1, <2>3, <2>4, <2>5
  <1>3. CASE OperationApplies(t, kind, p)
    <2>1. /\ status' = [status EXCEPT ![p] =
               IF kind = "remove" THEN "revoked" ELSE IF Resolves(p) THEN "allowed" ELSE @]
          /\ grev' = [grev EXCEPT ![p] = IF kind = "remove" THEN @ + 1 ELSE @]
          /\ ApplyAll(t, S, granted)
      BY <1>3 DEF OperationApplies
    <2>2. /\ status' \in [Players -> {"none", "allowed", "revoked"}]
          /\ grev' \in [Players -> Nat]
      BY <1>1, <2>1
    <2>3. S \in SUBSET Players  OBVIOUS
    <2> HIDE DEF S
    <2>4. Renumbered /\ granted' \in [Players -> BOOLEAN] /\ Decides(t, S)
      BY <1>1, <2>1, <2>3, ApplyDoes
    <2> QED  BY <2>2, <2>4 DEF S
  <1> QED  BY <1>2, <1>3 DEF Operation

-----------------------------------------------------------------------------
(* Types.                                                                  *)
LEMMA SendDoes ==
  ASSUME PathTypes, NEW c \in Links, NEW r \in Req, Send(c, r)
  PROVE  /\ wire' \in [Links -> Seq(Req)]
         /\ wire'[c] = IF sock[c] THEN Append(wire[c], r) ELSE wire[c]
         /\ \A d \in Links : d # c => wire'[d] = wire[d]
  BY AppendProperties DEF PathTypes, Send

LEMMA Requests ==
  ASSUME BdsTypes, NEW kind \in {"snapshot", "join", "quit", "submit", "add", "remove"},
         NEW who \in SUBSET Players
  PROVE  /\ Request(kind, who) \in Req
         /\ Request(kind, who).kind = kind /\ Request(kind, who).who = who
         /\ Request(kind, who).session = seen
  BY DEF BdsTypes, Request, Req

LEMMA MadeIsALink == SocketTypes /\ made # 0 => made \in Links
  BY LinkAssumption DEF SocketTypes, Threads, Links, LinkAssumption

(* The server thread of BDS, and the sockets.                              *)
LEMMA BdsKeepsTypes ==
  ASSUME LinkTypes, Bds
  PROVE  LinkTypes'
  <1> USE DEF LinkTypes
  <1>1. plive # 0 => plive = made /\ made \in Links  BY MadeIsALink DEF SocketTypes
  <1>2. dial # 0 => dial = made /\ made \in Links  BY MadeIsALink DEF SocketTypes
  <1>3. ASSUME NEW p \in Players, PlayerJoins(p) PROVE LinkTypes'
    <2> DEFINE r == [kind |-> "join", who |-> {p}, session |-> seen']
    <2>1. /\ ingame' = ingame \cup {p} /\ seen' = [seen EXCEPT ![p] = @ + 1]
          /\ attach' = [attach EXCEPT ![p] = "none"]
          /\ IF plive = 0 THEN UNCHANGED wire ELSE Send(plive, r)
          /\ UNCHANGED <<linkVars, presVars, authVars, ordered, at, task, due, permVars, work, ops, unsent>>
      BY <1>3 DEF PlayerJoins
    <2>2. BdsTypes'  BY <2>1 DEF BdsTypes
    <2>3. r \in Req  BY <2>2 DEF Req, BdsTypes
    <2> HIDE DEF r
    <2>4. PathTypes'  BY <1>1, <2>1, <2>3, SendDoes DEF PathTypes
    <2> QED  BY <2>1, <2>2, <2>4
             DEF linkVars, presVars, authVars, SocketTypes, PresTypes, AuthTypes, ThreadTypes, QueueTypes, permVars
  <1>4. ASSUME NEW p \in Players, PlayerQuits(p) PROVE LinkTypes'
    <2>1. /\ ingame' = ingame \ {p} /\ attach' = [attach EXCEPT ![p] = "none"]
          /\ IF plive = 0 THEN UNCHANGED wire ELSE Send(plive, Request("quit", {p}))
          /\ UNCHANGED <<seen, linkVars, presVars, authVars, ordered, at, task, due, permVars, work, ops, unsent>>
      BY <1>4 DEF PlayerQuits
    <2>2. BdsTypes'  BY <2>1 DEF BdsTypes
    <2>3. Request("quit", {p}) \in Req  BY Requests
    <2>4. PathTypes'  BY <1>1, <2>1, <2>3, SendDoes DEF PathTypes
    <2> QED  BY <2>1, <2>2, <2>4
             DEF linkVars, presVars, authVars, SocketTypes, PresTypes, AuthTypes, ThreadTypes, QueueTypes, permVars
  <1>5. ASSUME NEW p \in Players, PlayerTypes(p) PROVE LinkTypes'
    <2>1. /\ plive # 0 /\ Send(plive, Request("submit", {p})) /\ ops' = [ops EXCEPT !.typed = @ + 1]
          /\ UNCHANGED <<bdsVars, linkVars, presVars, authVars, ordered, at, task, due, permVars, work, unsent>>
      BY <1>5 DEF PlayerTypes
    <2>2. Request("submit", {p}) \in Req  BY Requests
    <2>3. PathTypes'  BY <1>1, <2>1, <2>2, SendDoes DEF PathTypes
    <2>5. ops \in [typed : Nat, console : Nat, cli : Nat, ran : Nat]  BY DEF QueueTypes
    <2>6. ops' \in [typed : Nat, console : Nat, cli : Nat, ran : Nat]  BY <2>1, <2>5
    <2>4. QueueTypes'  BY <2>1, <2>6 DEF QueueTypes, permVars
    <2> QED  BY <2>1, <2>3, <2>4
             DEF bdsVars, linkVars, presVars, authVars, BdsTypes, SocketTypes, PresTypes, AuthTypes, ThreadTypes
  <1>6. ASSUME NEW kind \in {"add", "remove"}, NEW p \in Players, ConsoleTypes(kind, p) PROVE LinkTypes'
    <2>1. /\ plive # 0 /\ Send(plive, Request(kind, {p})) /\ ops' = [ops EXCEPT !.console = @ + 1]
          /\ UNCHANGED <<bdsVars, linkVars, presVars, authVars, ordered, at, task, due, permVars, work, unsent>>
      BY <1>6 DEF ConsoleTypes
    <2>2. Request(kind, {p}) \in Req  BY Requests
    <2>3. PathTypes'  BY <1>1, <2>1, <2>2, SendDoes DEF PathTypes
    <2>5. ops \in [typed : Nat, console : Nat, cli : Nat, ran : Nat]  BY DEF QueueTypes
    <2>6. ops' \in [typed : Nat, console : Nat, cli : Nat, ran : Nat]  BY <2>1, <2>5
    <2>4. QueueTypes'  BY <2>1, <2>6 DEF QueueTypes, permVars
    <2> QED  BY <2>1, <2>3, <2>4
             DEF bdsVars, linkVars, presVars, authVars, BdsTypes, SocketTypes, PresTypes, AuthTypes, ThreadTypes
  <1>7. CASE BdsRestarts
    BY <1>7 DEF BdsRestarts, bdsVars, linkVars, presVars, authVars, pathVars,
                BdsTypes, SocketTypes, PathTypes, PresTypes, AuthTypes, ThreadTypes, QueueTypes, permVars
  <1>8. CASE PluginNotices
    BY <1>8 DEF PluginNotices, bdsVars, linkVars, presVars, authVars, pathVars,
                BdsTypes, SocketTypes, PathTypes, PresTypes, AuthTypes, ThreadTypes, QueueTypes, permVars
  <1>9. CASE Handshake
    <2>1. /\ plive = 0 /\ made < MaxLinks
          /\ made' = made + 1 /\ dial' = made + 1 /\ link' = made + 1
          /\ sock' = [sock EXCEPT ![made + 1] = TRUE] /\ srv' = [srv EXCEPT ![made + 1] = "open"]
          /\ joins' = 0 /\ rec' = [p \in Players |-> NoRecord]
          /\ UNCHANGED <<bdsVars, plive, authVars, pathVars, at, task, due, permVars, work, ops, unsent>>
      BY <1>9 DEF Handshake, Accept, NoRecords
    <2>2. SocketTypes'
      <3>1. made + 1 \in Threads /\ made + 1 # 0
        BY <2>1, LinkAssumption DEF SocketTypes, Threads, LinkAssumption
      <3>2. /\ sock' \in [Links -> BOOLEAN] /\ srv' \in [Links -> {"none", "open", "closed"}]
        BY <2>1 DEF SocketTypes
      <3> QED  BY <2>1, <3>1, <3>2 DEF SocketTypes
    <2>3. PresTypes'  BY <2>1 DEF PresTypes, NoRecord, Rec
    <2> QED  BY <2>1, <2>2, <2>3
             DEF bdsVars, authVars, pathVars, BdsTypes, PathTypes, AuthTypes, ThreadTypes, QueueTypes, permVars
  <1>10. CASE GoLive
    <2>1. /\ dial # 0 /\ plive' = dial /\ dial' = 0 /\ Send(dial, Request("snapshot", ingame))
          /\ UNCHANGED <<bdsVars, made, sock, srv, link, presVars, authVars, ordered, at, task, due, permVars, work, ops, unsent>>
      BY <1>10 DEF GoLive
    <2>2. Request("snapshot", ingame) \in Req  BY Requests DEF BdsTypes
    <2>3. PathTypes'  BY <1>2, <2>1, <2>2, SendDoes DEF PathTypes
    <2>4. SocketTypes'  BY <1>2, <2>1 DEF SocketTypes
    <2> QED  BY <2>1, <2>3, <2>4
             DEF bdsVars, presVars, authVars, BdsTypes, PresTypes, AuthTypes, ThreadTypes, QueueTypes, permVars
  <1>11. CASE GoLiveFails
    BY <1>11 DEF GoLiveFails, bdsVars, linkVars, presVars, authVars, pathVars,
                BdsTypes, SocketTypes, PathTypes, PresTypes, AuthTypes, ThreadTypes, QueueTypes, permVars
  <1> QED  BY <1>3, <1>4, <1>5, <1>6, <1>7, <1>8, <1>9, <1>10, <1>11 DEF Bds

LEMMA LinksKeepTypes ==
  ASSUME LinkTypes, NEW c \in Links, SocketBreaks(c) \/ ServerCloses(c) \/ ServerReads(c)
  PROVE  LinkTypes'
  <1> USE DEF LinkTypes
  <1>1. CASE SocketBreaks(c)
    BY <1>1 DEF SocketBreaks, bdsVars, presVars, authVars, pathVars,
                BdsTypes, SocketTypes, PathTypes, PresTypes, AuthTypes, ThreadTypes, QueueTypes, permVars
  <1>2. CASE ServerCloses(c)
    <2>1. /\ srv' = [srv EXCEPT ![c] = "closed"] /\ sock' = [sock EXCEPT ![c] = FALSE]
          /\ wire' = [wire EXCEPT ![c] = <<>>]
          /\ \/ link' = 0 /\ joins' = 0 /\ rec' = [p \in Players |-> NoRecord]
             \/ UNCHANGED <<link, joins, rec>>
          /\ UNCHANGED <<bdsVars, plive, dial, made, authVars, ordered, at, task, due, permVars, work, ops, unsent>>
      BY <1>2 DEF ServerCloses, Closed, NoRecords, presVars
    <2>2. PathTypes'  BY <2>1 DEF PathTypes
    <2>3. SocketTypes'  BY <2>1 DEF SocketTypes
    <2>4. PresTypes'  BY <2>1 DEF PresTypes, NoRecord, Rec
    <2> QED  BY <2>1, <2>2, <2>3, <2>4 DEF bdsVars, authVars, BdsTypes, AuthTypes, ThreadTypes, QueueTypes, permVars
  <1>3. CASE ServerReads(c)
    <2>1. /\ wire[c] # <<>> /\ ordered' = [ordered EXCEPT ![c] = Append(@, Head(wire[c]))]
          /\ wire' = [wire EXCEPT ![c] = Tail(@)]
          /\ UNCHANGED <<bdsVars, linkVars, presVars, authVars, at, task, due, permVars, work, ops, unsent>>
      BY <1>3 DEF ServerReads
    <2>2. wire[c] \in Seq(Req) /\ ordered[c] \in Seq(Req)  BY DEF PathTypes
    <2>3. /\ Tail(wire[c]) \in Seq(Req) /\ Append(ordered[c], Head(wire[c])) \in Seq(Req)
      BY <2>1, <2>2, HeadTailProperties, AppendProperties
    <2>4. PathTypes'  BY <2>1, <2>3 DEF PathTypes
    <2> QED  BY <2>1, <2>4
             DEF bdsVars, linkVars, presVars, authVars,
                 BdsTypes, SocketTypes, PresTypes, AuthTypes, ThreadTypes, QueueTypes, permVars
  <1> QED  BY <1>1, <1>2, <1>3

LEMMA HeadIsRequest ==
  ASSUME PathTypes, NEW c \in Links, ordered[c] # <<>>
  PROVE  Head(ordered[c]) \in Req /\ Tail(ordered[c]) \in Seq(Req)
  BY HeadTailProperties DEF PathTypes

LEMMA TakeTypes ==
  ASSUME PathTypes, ThreadTypes, NEW c \in Links, ordered[c] # <<>>,
         NEW where \in {"idle", "applied", "permissions"}, Take(c, where), wire' = wire
  PROVE  /\ PathTypes'
         /\ at' \in [Threads -> {"idle", "applied", "captured", "permissions"}]
         /\ task' \in [Threads -> Req \cup Cmd \cup {NoTask}]
         /\ \A t \in Threads : /\ at'[t] = "captured" => task'[t] \in Cmd
                               /\ at'[t] = "applied" => task'[t] \in Req
  <1>1. Head(ordered[c]) \in Req /\ Tail(ordered[c]) \in Seq(Req)  BY HeadIsRequest
  <1>2. c \in Threads  BY LinkAssumption DEF Links, Threads, LinkAssumption
  <1> QED  BY <1>1, <1>2 DEF Take, PathTypes, ThreadTypes

LEMMA OrderedKeepsTypes ==
  ASSUME LinkTypes, NEW c \in Links, OrderedThread(c)
  PROVE  LinkTypes'
  <1> USE DEF LinkTypes
  <1>0. c \in Threads  BY LinkAssumption DEF Links, Threads, LinkAssumption
  <1>1. CASE HandlePresence(c)
    <2>1. /\ ordered[c] # <<>> /\ Head(ordered[c]).kind \in {"snapshot", "join", "quit"}
          /\ \/ Take(c, "idle") /\ UNCHANGED presVars
             \/ Take(c, "applied") /\ PresenceApply(Head(ordered[c]))
          /\ UNCHANGED <<bdsVars, linkVars, authVars, wire, due, permVars, work, ops, unsent>>
      BY <1>1 DEF HandlePresence, Next1
    <2>2. PathTypes' /\ ThreadTypes'
      BY <2>1, TakeTypes DEF ThreadTypes
    <2>3. PresTypes'
      <3>1. Head(ordered[c]) \in Req  BY <2>1, HeadIsRequest
      <3>2. CASE UNCHANGED presVars  BY <3>2 DEF presVars, PresTypes
      <3>3. CASE PresenceApply(Head(ordered[c]))
        BY <2>1, <3>1, <3>3, LinkAssumption, PresenceDoes DEF PresTypes
      <3> QED  BY <2>1, <3>2, <3>3
    <2> QED  BY <2>1, <2>2, <2>3
             DEF bdsVars, linkVars, authVars, BdsTypes, SocketTypes, AuthTypes, QueueTypes, permVars
  <1>2. CASE HandleJoined(c)
    <2>1. /\ at[c] = "applied" /\ at' = [at EXCEPT ![c] = "permissions"]
          /\ \E new \in SUBSET {p \in task[c].who : status[p] = "none"} : status' = Enrolled(new)
          /\ ApplyAll(c, task[c].who, Remembered(task[c]))
          /\ UNCHANGED <<bdsVars, linkVars, grev, pathVars, task, permVars, work, ops>>
      BY <1>2 DEF HandleJoined
    <2>2. task[c] \in Req /\ task[c].who \in SUBSET Players  BY <1>0, <2>1 DEF ThreadTypes, Req
    <2>3. Remembered(task[c]) \in [Players -> BOOLEAN]  BY DEF Remembered, AuthTypes
    <2>4. /\ Renumbered /\ granted' \in [Players -> BOOLEAN] /\ Decides(c, task[c].who)
      BY <1>0, <2>1, <2>2, <2>3, LinkAssumption, ApplyDoes
    <2>5. status' \in [Players -> {"none", "allowed", "revoked"}]  BY <2>1 DEF Enrolled, AuthTypes
    <2>6. PresTypes' /\ AuthTypes' /\ ThreadTypes'
      BY <2>1, <2>4, <2>5 DEF Renumbered, Decides, PresTypes, AuthTypes, ThreadTypes
    <2>7. QueueTypes'  BY <2>1, <2>4 DEF QueueTypes, permVars, Decides
    <2> QED  BY <2>1, <2>6, <2>7
             DEF bdsVars, linkVars, pathVars, BdsTypes, SocketTypes, PathTypes
  <1>7. CASE HandleJoinedFails(c)
    <2>1. at[c] = "applied" /\ at' = [at EXCEPT ![c] = "idle"]  BY <1>7 DEF HandleJoinedFails
    <2>2. task[c] \in Req /\ task[c].who \in SUBSET Players  BY <1>0, <2>1 DEF ThreadTypes, Req
    <2>3. PICK done \in SUBSET task[c].who, new \in SUBSET task[c].who :
            /\ status' = Enrolled(new) /\ ApplyEach(done, Remembered(task[c]))
      BY <1>7 DEF HandleJoinedFails
    <2>4. /\ unsent' = unsent \cup task[c].who
          /\ UNCHANGED <<bdsVars, linkVars, grev, pathVars, task, due, permVars, work, ops>>
      BY <1>7 DEF HandleJoinedFails
    <2>5. Remembered(task[c]) \in [Players -> BOOLEAN]  BY DEF Remembered, AuthTypes
    <2>6. done \in SUBSET Players  BY <2>2, <2>3
    <2>7. Renumbered /\ granted' \in [Players -> BOOLEAN]
      BY <2>3, <2>5, <2>6, LinkAssumption, ApplyEachDoes
    <2>8. status' \in [Players -> {"none", "allowed", "revoked"}]  BY <2>3 DEF Enrolled, AuthTypes
    <2>9. PresTypes' /\ AuthTypes' /\ ThreadTypes'
      BY <2>1, <2>4, <2>7, <2>8 DEF Renumbered, PresTypes, AuthTypes, ThreadTypes
    <2>10. QueueTypes'  BY <2>2, <2>4 DEF QueueTypes, permVars
    <2> QED  BY <2>4, <2>9, <2>10
             DEF bdsVars, linkVars, pathVars, BdsTypes, SocketTypes, PathTypes
  <1>3. CASE HandleQuit(c)
    <2>1. /\ granted' = [p \in Players |-> IF p \in task[c].who THEN FALSE ELSE granted[p]]
          /\ at' = [at EXCEPT ![c] = "idle"]
          /\ UNCHANGED <<bdsVars, linkVars, presVars, status, grev, pathVars, task, due, permVars, work, ops, unsent>>
      BY <1>3 DEF HandleQuit
    <2> QED  BY <2>1 DEF bdsVars, linkVars, presVars, pathVars,
                BdsTypes, SocketTypes, PathTypes, PresTypes, AuthTypes, ThreadTypes, QueueTypes, permVars
  <1>4. CASE HandleSubmit(c)
    <2> DEFINE r == Head(ordered[c])
               cmd(p) == [kind |-> "command", player |-> p, session |-> r.session[p],
                          epoch |-> rec[p].epoch, n |-> rec[p].n, grev |-> grev[p]]
    <2>1. /\ ordered[c] # <<>> /\ ordered' = [ordered EXCEPT ![c] = Tail(@)]
          /\ \E p \in r.who : task' = [task EXCEPT ![c] = cmd(p)]
          /\ at' = [at EXCEPT ![c] = "captured"]
          /\ UNCHANGED <<bdsVars, linkVars, presVars, authVars, wire, due, permVars, work, ops, unsent>>
      BY <1>4 DEF HandleSubmit, Next1
    <2>2. r \in Req /\ Tail(ordered[c]) \in Seq(Req)  BY <2>1, HeadIsRequest
    <2>3. PathTypes'  BY <2>1, <2>2 DEF PathTypes
    <2>4. \A p \in r.who : cmd(p) \in Cmd  BY <2>2 DEF Req, Cmd, PresTypes, AuthTypes, Rec
    <2> HIDE DEF cmd, r
    <2>5. ThreadTypes'  BY <1>0, <2>1, <2>4 DEF ThreadTypes
    <2> QED  BY <2>1, <2>3, <2>5
             DEF bdsVars, linkVars, presVars, authVars, BdsTypes, SocketTypes, PresTypes, AuthTypes, QueueTypes, permVars
  <1>5. CASE QueueCommand(c)
    <2>1. /\ at[c] = "captured"
          /\ work' = Append(work, task[c]) \/ work' = work
          /\ task' = [task EXCEPT ![c] = NoTask] /\ at' = [at EXCEPT ![c] = "idle"]
          /\ UNCHANGED <<bdsVars, linkVars, presVars, authVars, pathVars, due, permVars, ops, unsent>>
      BY <1>5 DEF QueueCommand
    <2>2. task[c] \in Cmd  BY <1>0, <2>1 DEF ThreadTypes
    <2>3. QueueTypes'
      <3>1. work \in Seq(Cmd) /\ Append(work, task[c]) \in Seq(Cmd)
        BY <2>2, AppendProperties DEF QueueTypes
      <3> QED  BY <2>1, <3>1 DEF QueueTypes, permVars
    <2>4. ThreadTypes'  BY <2>1 DEF ThreadTypes
    <2> QED  BY <2>1, <2>3, <2>4
             DEF bdsVars, linkVars, presVars, authVars, pathVars,
                 BdsTypes, SocketTypes, PathTypes, PresTypes, AuthTypes
  <1>6. CASE HandleConsole(c)
    <2>1. /\ ordered[c] # <<>> /\ Take(c, "permissions")
          /\ \E p \in Head(ordered[c]).who : Operation(c, Head(ordered[c]).kind, p)
          /\ UNCHANGED <<bdsVars, linkVars, wire, permVars, work, ops>>
      BY <1>6 DEF HandleConsole, Next1
    <2>2. Head(ordered[c]).who \in SUBSET Players  BY <2>1, HeadIsRequest DEF Req
    <2>3. /\ Renumbered
          /\ status' \in [Players -> {"none", "allowed", "revoked"}] /\ grev' \in [Players -> Nat]
          /\ granted' \in [Players -> BOOLEAN]
          /\ Withholds \/ Decides(c, {q \in Players : Known(q)})
      <3>1. PICK p \in Head(ordered[c]).who : Operation(c, Head(ordered[c]).kind, p)  BY <2>1
      <3>2. p \in Players  BY <2>2, <3>1
      <3> QED  BY <1>0, <3>1, <3>2, LinkAssumption, OperationDoes
    <2>4. due' \in [Threads -> [Players -> PermissionValues]]  BY <2>3 DEF Decides, Withholds, ThreadTypes
    <2>5. PathTypes' /\ ThreadTypes'  BY <2>1, <2>4, TakeTypes DEF ThreadTypes
    <2>6. unsent' \subseteq Players  BY <2>3 DEF Decides, Withholds, QueueTypes
    <2> QED  BY <2>1, <2>3, <2>5, <2>6
             DEF bdsVars, linkVars, Renumbered, BdsTypes, SocketTypes, PresTypes, AuthTypes, QueueTypes, permVars
  <1> QED  BY <1>1, <1>2, <1>3, <1>4, <1>5, <1>6, <1>7 DEF OrderedThread

LEMMA OthersKeepTypes ==
  ASSUME LinkTypes,
         \/ \E kind \in {"add", "remove"}, p \in Players : CliOperation(kind, p)
         \/ \E t \in Threads : PermissionsSent(t) \/ \E p \in Players : SendPermission(t, p)
         \/ Deliver \/ (\E c \in Links : PluginApplies(c) \/ PluginGivesUp(c)) \/ Execute
  PROVE  LinkTypes'
  <1> USE DEF LinkTypes
  <1>1. ASSUME NEW kind \in {"add", "remove"}, NEW p \in Players, CliOperation(kind, p) PROVE LinkTypes'
    <2>1. /\ Operation(0, kind, p) /\ at' = [at EXCEPT ![0] = "permissions"]
          /\ ops' = [ops EXCEPT !.cli = @ + 1]
          /\ UNCHANGED <<bdsVars, linkVars, pathVars, task, permVars, work>>
      BY <1>1 DEF CliOperation
    <2>2. 0 \in Threads  BY LinkAssumption DEF Threads, LinkAssumption
    <2>3. /\ Renumbered
          /\ status' \in [Players -> {"none", "allowed", "revoked"}] /\ grev' \in [Players -> Nat]
          /\ granted' \in [Players -> BOOLEAN]
          /\ Withholds \/ Decides(0, {q \in Players : Known(q)})
      BY <2>1, <2>2, LinkAssumption, OperationDoes
    <2>4. due' \in [Threads -> [Players -> PermissionValues]]  BY <2>3 DEF Decides, Withholds, ThreadTypes
    <2>5. ThreadTypes'  BY <2>1, <2>4 DEF ThreadTypes
    <2>7. ops \in [typed : Nat, console : Nat, cli : Nat, ran : Nat]  BY DEF QueueTypes
    <2>8. ops' \in [typed : Nat, console : Nat, cli : Nat, ran : Nat]  BY <2>1, <2>7
    <2>9. unsent' \subseteq Players  BY <2>3 DEF QueueTypes, Decides, Withholds
    <2>6. QueueTypes'  BY <2>1, <2>8, <2>9 DEF QueueTypes, permVars
    <2> QED  BY <2>1, <2>3, <2>5, <2>6
             DEF bdsVars, linkVars, pathVars, Renumbered, BdsTypes, SocketTypes, PathTypes, PresTypes, AuthTypes
  <1>2. ASSUME NEW t \in Threads, PermissionsSent(t) PROVE LinkTypes'
    BY <1>2 DEF PermissionsSent, bdsVars, linkVars, presVars, authVars, pathVars,
                BdsTypes, SocketTypes, PathTypes, PresTypes, AuthTypes, ThreadTypes, QueueTypes, permVars
  <1>3. ASSUME NEW t \in Threads, NEW p \in Players, SendPermission(t, p) PROVE LinkTypes'
    <2> DEFINE m == [player |-> p, value |-> due[t][p]]
    <2>1. /\ due[t][p] # "no" /\ out' = Append(out, m) /\ due' = [due EXCEPT ![t][p] = "no"]
          /\ UNCHANGED <<bdsVars, linkVars, presVars, authVars, pathVars, at, task, asked, lost, work, ops, unsent>>
      BY <1>3 DEF SendPermission
    <2>2. due[t][p] \in {"on", "off"}  BY <2>1 DEF ThreadTypes, PermissionValues
    <2>3. m \in Permission  BY <2>2 DEF Permission
    <2> HIDE DEF m
    <2>4. QueueTypes'  BY <2>1, <2>3, AppendProperties DEF QueueTypes, permVars
    <2>5. ThreadTypes'  BY <2>1 DEF ThreadTypes, PermissionValues
    <2> QED  BY <2>1, <2>4, <2>5
             DEF bdsVars, linkVars, presVars, authVars, pathVars,
                 BdsTypes, SocketTypes, PathTypes, PresTypes, AuthTypes
  <1>4. CASE Deliver
    <2>1. /\ out # <<>> /\ out' = Tail(out)
          /\ asked' = asked \/ \E c \in Links : asked' = [asked EXCEPT ![c] = Append(@, Head(out))]
          /\ UNCHANGED <<bdsVars, linkVars, presVars, authVars, pathVars, at, task, due, lost, work, ops, unsent>>
      BY <1>4, MadeIsALink DEF Deliver, SocketTypes
    <2>2. Head(out) \in Permission /\ Tail(out) \in Seq(Permission)
      BY <2>1, HeadTailProperties DEF QueueTypes
    <2>4. asked' \in [Links -> Seq(Permission)]
      <3>1. \A c \in Links : asked[c] \in Seq(Permission) /\ Append(asked[c], Head(out)) \in Seq(Permission)
        BY <2>2, AppendProperties DEF QueueTypes
      <3> QED  BY <2>1, <3>1 DEF QueueTypes
    <2>3. QueueTypes'  BY <2>1, <2>2, <2>4 DEF QueueTypes
    <2> QED  BY <2>1, <2>3
             DEF bdsVars, linkVars, presVars, authVars, pathVars,
                 BdsTypes, SocketTypes, PathTypes, PresTypes, AuthTypes, ThreadTypes
  <1>6. ASSUME NEW c \in Links, PluginApplies(c) \/ PluginGivesUp(c) PROVE LinkTypes'
    <2> DEFINE ask == Head(asked[c])
    <2>1. /\ asked[c] # <<>> /\ asked' = [asked EXCEPT ![c] = Tail(@)]
          /\ attach' = attach \/ attach' = Attached(ask.player, ask.value)
          /\ lost' \subseteq lost \cup {ask.player}
          /\ UNCHANGED <<ingame, seen, linkVars, presVars, authVars, pathVars, at, task, due, out, work, ops, unsent>>
      BY <1>6 DEF PluginApplies, PluginGivesUp, bdsVars
    <2>2. ask \in Permission /\ Tail(asked[c]) \in Seq(Permission)
      BY <2>1, HeadTailProperties DEF QueueTypes
    <2> HIDE DEF ask
    <2>3. attach' \in [Players -> {"none", "on", "off"}]
      BY <2>1, <2>2 DEF Attached, Permission, BdsTypes
    <2>4. ask.player \in Players  BY <2>2 DEF Permission
    <2>5. BdsTypes' /\ QueueTypes'  BY <2>1, <2>2, <2>3, <2>4 DEF BdsTypes, QueueTypes
    <2> QED  BY <2>1, <2>5
             DEF linkVars, presVars, authVars, pathVars, SocketTypes, PathTypes, PresTypes, AuthTypes, ThreadTypes
  <1>5. CASE Execute
    <2>1. /\ work # <<>> /\ work' = Tail(work)
          /\ ops' = [ops EXCEPT !.ran = @ + 1] \/ ops' = ops
          /\ UNCHANGED <<bdsVars, linkVars, presVars, authVars, pathVars, at, task, due, permVars, unsent>>
      BY <1>5 DEF Execute
    <2>3. ops \in [typed : Nat, console : Nat, cli : Nat, ran : Nat] /\ work \in Seq(Cmd)  BY DEF QueueTypes
    <2>4. ops' \in [typed : Nat, console : Nat, cli : Nat, ran : Nat]  BY <2>1, <2>3
    <2>5. work' \in Seq(Cmd)  BY <2>1, <2>3, HeadTailProperties
    <2>2. QueueTypes'  BY <2>1, <2>4, <2>5 DEF QueueTypes, permVars
    <2> QED  BY <2>1, <2>2
             DEF bdsVars, linkVars, presVars, authVars, pathVars,
                 BdsTypes, SocketTypes, PathTypes, PresTypes, AuthTypes, ThreadTypes
  <1> QED  BY <1>1, <1>2, <1>3, <1>4, <1>5, <1>6

LEMMA InitLink == Init => LinkInv
  <1> SUFFICES ASSUME Init PROVE LinkInv  OBVIOUS
  <1>1. 0 \in Threads  BY LinkAssumption DEF Threads, LinkAssumption
  <1>2. LinkTypes
    BY <1>1 DEF Init, LinkTypes, BdsTypes, SocketTypes, PathTypes, PresTypes, AuthTypes, ThreadTypes,
                QueueTypes, NoRecord, Rec, NoDue, PermissionValues, Req, Cmd
  <1>3. OneLink
    <2>1. \A c \in Links : Handled(c)
      BY LinkAssumption DEF Init, Handled, Links, Threads, LinkAssumption
    <2>2. \A p \in Players : ~Known(p) /\ rec[p].session = 0  BY DEF Init, Known, NoRecord
    <2> QED  BY <2>1, <2>2 DEF OneLink
  <1>4. SubmitsTrue /\ PresenceComes  BY DEF Init, SubmitsTrue, PresenceComes, Live
  <1>5. CommandsTrue  BY DEF Init, CommandsTrue
  <1>6. PermissionsCome  BY <1>1 DEF Init, PermissionsCome, DueSent, CliIdle, WhoReturns, Decided, Live
  <1> QED  BY <1>2, <1>3, <1>4, <1>5, <1>6 DEF LinkInv

LEMMA TypesKept == LinkTypes /\ [Next]_vars => LinkTypes'
  <1> SUFFICES ASSUME LinkTypes, [Next]_vars PROVE LinkTypes'  OBVIOUS
  <1>1. CASE UNCHANGED vars
    BY <1>1 DEF vars, bdsVars, linkVars, presVars, authVars, pathVars, LinkTypes,
                BdsTypes, SocketTypes, PathTypes, PresTypes, AuthTypes, ThreadTypes, QueueTypes, permVars
  <1>2. CASE Next
    BY <1>2, BdsKeepsTypes, LinksKeepTypes, OrderedKeepsTypes, OthersKeepTypes DEF Next
  <1> QED  BY <1>1, <1>2

-----------------------------------------------------------------------------
(* One link at a time: what is still handled is of the last one.           *)
LEMMA OfTheLast ==
  ASSUME LinkTypes, OneLink, NEW c \in Links, OrderedThread(c) \/ ServerReads(c)
  PROVE  /\ c = made /\ made \in Links /\ made # 0 /\ made \in Nat
         /\ wire[made] \in Seq(Req) /\ ordered[made] \in Seq(Req) /\ Stream \in Seq(Req)
  <1>1. ~Handled(c)
    BY DEF OrderedThread, ServerReads, HandlePresence, HandleJoined, HandleJoinedFails, HandleQuit, HandleSubmit,
           QueueCommand, HandleConsole, Next1, Handled
  <1>2. c = made  BY <1>1 DEF OneLink
  <1>3. wire[c] \in Seq(Req) /\ ordered[c] \in Seq(Req)  BY DEF LinkTypes, PathTypes
  <1>4. c \in Nat /\ c # 0  BY LinkAssumption DEF Links, LinkAssumption
  <1> QED  BY <1>2, <1>3, <1>4, ConcatProperties DEF Stream

LEMMA LastIsLink ==
  ASSUME LinkTypes, link # 0
  PROVE  /\ link = made /\ made \in Links /\ made \in Nat
         /\ wire[made] \in Seq(Req) /\ ordered[made] \in Seq(Req) /\ Stream \in Seq(Req)
  <1>1. link = made /\ made \in Links
    BY MadeIsALink DEF LinkTypes, SocketTypes
  <1>2. wire[made] \in Seq(Req) /\ ordered[made] \in Seq(Req)  BY <1>1 DEF LinkTypes, PathTypes
  <1> QED  BY <1>1, <1>2, LinkAssumption, ConcatProperties DEF Stream, Links, LinkAssumption

(* What a step does to the records: it leaves, clears or renumbers each.   *)
Moves ==
  /\ made <= made'
  /\ link' # 0 /\ made' = made => link' = link /\ joins <= joins'
  /\ \A p \in Players :
       \/ rec'[p] = NoRecord
       \/ /\ link' = link /\ made' = made /\ joins <= joins'
          /\ \/ rec'[p] = rec[p]
             \/ link # 0 /\ rec'[p].epoch = link /\ joins < rec'[p].n /\ rec'[p].n <= joins'

LEMMA RenumberedMoves ==
  ASSUME LinkTypes, OneLink, Renumbered, UNCHANGED <<made, link>>
  PROVE  Moves
  BY LinkAssumption DEF Renumbered, Moves, OneLink, LinkTypes, SocketTypes, Threads, LinkAssumption

LEMMA StillMoves ==
  ASSUME LinkTypes, UNCHANGED <<made, link, joins, rec>>
  PROVE  Moves
  BY LinkAssumption DEF Moves, LinkTypes, PresTypes, SocketTypes, Threads, LinkAssumption

LEMMA StepMoves ==
  ASSUME LinkTypes, OneLink, Next
  PROVE  Moves
  <1>0. joins \in Nat /\ made \in Nat
    BY LinkAssumption DEF LinkTypes, PresTypes, SocketTypes, Threads, LinkAssumption
  <1>1. ASSUME Bds, ~Handshake PROVE Moves
    <2>1. UNCHANGED <<made, link, joins, rec>>
      BY <1>1 DEF Bds, PlayerJoins, PlayerQuits, PlayerTypes, ConsoleTypes, BdsRestarts, PluginNotices,
                  GoLive, GoLiveFails, linkVars, presVars
    <2> QED  BY <2>1, StillMoves
  <1>2. CASE Handshake
    <2>1. made' = made + 1 /\ link' = made + 1 /\ joins' = 0 /\ rec' = [p \in Players |-> NoRecord]
      BY <1>2 DEF Handshake, Accept, NoRecords
    <2> QED  BY <1>0, <2>1 DEF Moves
  <1>3. ASSUME NEW c \in Links, SocketBreaks(c) \/ ServerReads(c) PROVE Moves
    <2>1. UNCHANGED <<made, link, joins, rec>>
      BY <1>3 DEF SocketBreaks, ServerReads, linkVars, presVars
    <2> QED  BY <2>1, StillMoves
  <1>4. ASSUME NEW c \in Links, ServerCloses(c) PROVE Moves
    <2>1. /\ made' = made
          /\ \/ UNCHANGED <<link, joins, rec>>
             \/ link' = 0 /\ joins' = 0 /\ rec' = [p \in Players |-> NoRecord]
      BY <1>4 DEF ServerCloses, Closed, NoRecords, presVars
    <2>2. CASE UNCHANGED <<link, joins, rec>>  BY <2>1, <2>2, StillMoves
    <2>3. CASE link' = 0 /\ rec' = [p \in Players |-> NoRecord]  BY <1>0, <2>1, <2>3 DEF Moves
    <2> QED  BY <2>1, <2>2, <2>3
  <1>5. ASSUME NEW c \in Links, HandlePresence(c) PROVE Moves
    <2>1. /\ ordered[c] # <<>> /\ Head(ordered[c]).kind \in {"snapshot", "join", "quit"}
          /\ UNCHANGED presVars \/ (link # 0 /\ PresenceApply(Head(ordered[c])))
          /\ UNCHANGED linkVars
      BY <1>5 DEF HandlePresence, Next1
    <2>2. CASE UNCHANGED presVars  BY <2>1, <2>2, StillMoves DEF linkVars, presVars
    <2>3. CASE link # 0 /\ PresenceApply(Head(ordered[c]))
      <3>1. Head(ordered[c]) \in Req  BY <2>1, HeadIsRequest DEF LinkTypes
      <3>2. /\ joins' \in Nat /\ joins <= joins'
            /\ \A p \in Players : \/ rec'[p] = rec[p] \/ rec'[p] = NoRecord
                                  \/ rec'[p].epoch = link /\ joins < rec'[p].n /\ rec'[p].n <= joins'
        BY <2>1, <2>3, <3>1, LinkAssumption, PresenceDoes
      <3> QED  BY <1>0, <2>1, <2>3, <3>2 DEF Moves, linkVars
    <2> QED  BY <2>1, <2>2, <2>3
  <1>6. ASSUME NEW c \in Links, HandleJoined(c) PROVE Moves
    <2>1. c \in Threads  BY LinkAssumption DEF Links, Threads, LinkAssumption
    <2>2. /\ at[c] = "applied" /\ ApplyAll(c, task[c].who, Remembered(task[c])) /\ UNCHANGED linkVars
      BY <1>6 DEF HandleJoined
    <2>3. task[c].who \in SUBSET Players  BY <2>1, <2>2 DEF LinkTypes, ThreadTypes, Req
    <2>4. Remembered(task[c]) \in [Players -> BOOLEAN]  BY DEF Remembered, LinkTypes, AuthTypes
    <2>5. Renumbered  BY <2>1, <2>2, <2>3, <2>4, LinkAssumption, ApplyDoes
    <2> QED  BY <2>2, <2>5, RenumberedMoves DEF linkVars
  <1>11. ASSUME NEW c \in Links, HandleJoinedFails(c) PROVE Moves
    <2>1. c \in Threads  BY LinkAssumption DEF Links, Threads, LinkAssumption
    <2>2. PICK done \in SUBSET task[c].who : ApplyEach(done, Remembered(task[c]))
      BY <1>11 DEF HandleJoinedFails
    <2>3. at[c] = "applied" /\ UNCHANGED linkVars  BY <1>11 DEF HandleJoinedFails
    <2>4. done \in SUBSET Players  BY <2>1, <2>2, <2>3 DEF LinkTypes, ThreadTypes, Req
    <2>5. Remembered(task[c]) \in [Players -> BOOLEAN]  BY DEF Remembered, LinkTypes, AuthTypes
    <2>6. Renumbered  BY <2>2, <2>4, <2>5, LinkAssumption, ApplyEachDoes
    <2> QED  BY <2>3, <2>6, RenumberedMoves DEF linkVars
  <1>7. ASSUME NEW c \in Links, HandleQuit(c) \/ HandleSubmit(c) \/ QueueCommand(c) PROVE Moves
    <2>1. UNCHANGED <<made, link, joins, rec>>
      BY <1>7 DEF HandleQuit, HandleSubmit, QueueCommand, linkVars, presVars
    <2> QED  BY <2>1, StillMoves
  <1>8. ASSUME NEW c \in Links, HandleConsole(c) PROVE Moves
    <2>1. c \in Threads  BY LinkAssumption DEF Links, Threads, LinkAssumption
    <2>2. /\ ordered[c] # <<>> /\ UNCHANGED linkVars
          /\ \E p \in Head(ordered[c]).who : Operation(c, Head(ordered[c]).kind, p)
      BY <1>8 DEF HandleConsole, Next1
    <2>3. Head(ordered[c]).who \in SUBSET Players
      BY <2>2, HeadIsRequest DEF Req, LinkTypes
    <2>4. PICK p \in Players : Operation(c, Head(ordered[c]).kind, p)  BY <2>2, <2>3
    <2>5. Renumbered  BY <2>1, <2>4, LinkAssumption, OperationDoes
    <2> QED  BY <2>2, <2>5, RenumberedMoves DEF linkVars
  <1>9. ASSUME NEW kind \in {"add", "remove"}, NEW p \in Players, CliOperation(kind, p) PROVE Moves
    <2>1. 0 \in Threads  BY LinkAssumption DEF Threads, LinkAssumption
    <2>2. Operation(0, kind, p) /\ UNCHANGED linkVars  BY <1>9 DEF CliOperation
    <2>3. Renumbered  BY <2>1, <2>2, LinkAssumption, OperationDoes
    <2> QED  BY <2>2, <2>3, RenumberedMoves DEF linkVars
  <1>10. ASSUME \/ \E t \in Threads : PermissionsSent(t) \/ \E p \in Players : SendPermission(t, p)
                \/ Deliver \/ (\E c \in Links : PluginApplies(c) \/ PluginGivesUp(c)) \/ Execute
         PROVE  Moves
    <2>1. UNCHANGED <<made, link, joins, rec>>
      BY <1>10 DEF PermissionsSent, SendPermission, Deliver, PluginApplies, PluginGivesUp, Execute, linkVars, presVars
    <2> QED  BY <2>1, StillMoves
  <1> QED  BY <1>1, <1>2, <1>3, <1>4, <1>5, <1>6, <1>7, <1>8, <1>9, <1>10, <1>11 DEF Next, OrderedThread

LEMMA OneLinkKept ==
  ASSUME Overlap = FALSE, LinkTypes, LinkTypes', OneLink, Next
  PROVE  OneLink'
  <1>1. Moves  BY StepMoves
  <1>2. ASSUME NEW p \in Players
        PROVE  /\ Known(p)' => link' = made' /\ link' # 0 /\ rec'[p].epoch = made' /\ rec'[p].n <= joins'
               /\ ~Known(p)' => rec'[p].session = 0
    <2>1. joins \in Nat /\ joins' \in Nat /\ rec[p] \in Rec /\ rec'[p] \in Rec /\ made \in Nat /\ link \in {0, made}
      BY LinkAssumption DEF LinkTypes, PresTypes, SocketTypes, Threads, LinkAssumption
    <2>2. CASE rec'[p] = NoRecord  BY <2>2 DEF Known, NoRecord
    <2>3. CASE rec'[p] = rec[p] /\ link' = link /\ made' = made /\ joins <= joins'
      BY <2>1, <2>3 DEF OneLink, Known, Rec
    <2>4. CASE /\ link' = link /\ made' = made /\ link # 0 /\ rec'[p].epoch = link /\ rec'[p].n <= joins'
      BY <2>1, <2>4 DEF Known
    <2> QED  BY <1>1, <2>2, <2>3, <2>4 DEF Moves
  <1>3. ASSUME NEW d \in Links, d # made' PROVE Handled(d)'
    <2>0. /\ wire \in [Links -> Seq(Req)] /\ ordered \in [Links -> Seq(Req)]
          /\ at \in [Threads -> {"idle", "applied", "captured", "permissions"}]
          /\ d \in Threads /\ d # 0
      BY LinkAssumption DEF LinkTypes, PathTypes, ThreadTypes, Links, Threads, LinkAssumption
    <2>1. made # 0 => made \in Links  BY MadeIsALink DEF LinkTypes
    <2>2. d # made => wire[d] = <<>> /\ ordered[d] = <<>> /\ at[d] = "idle"
      BY DEF OneLink, Handled
    <2> SUFFICES wire'[d] = <<>> /\ ordered'[d] = <<>> /\ at'[d] = "idle"
      BY DEF Handled
    <2>3. ASSUME Bds, ~Handshake PROVE wire'[d] = <<>> /\ ordered'[d] = <<>> /\ at'[d] = "idle"
      <3>1. made' = made /\ ordered' = ordered /\ at' = at
        BY <2>3 DEF Bds, PlayerJoins, PlayerQuits, PlayerTypes, ConsoleTypes, BdsRestarts, PluginNotices,
                    GoLive, GoLiveFails, linkVars, pathVars
      <3>3. plive # 0 => plive = made  BY DEF LinkTypes, SocketTypes
      <3>4. dial # 0 => dial = made  BY DEF LinkTypes, SocketTypes
      <3>5. wire'[d] = wire[d]
        BY <1>3, <2>0, <2>1, <2>3, <3>1, <3>3, <3>4
           DEF Bds, PlayerJoins, PlayerQuits, PlayerTypes, ConsoleTypes, BdsRestarts, PluginNotices,
               GoLive, GoLiveFails, pathVars, Send
      <3> QED  BY <1>3, <2>2, <3>1, <3>5
    <2>4. CASE Handshake
      <3>1. (\A c \in Links : Handled(c)) /\ UNCHANGED <<pathVars, at>>
        BY <2>4 DEF Handshake
      <3> QED  BY <3>1 DEF Handled, pathVars
    <2>5. ASSUME NEW c \in Links, SocketBreaks(c) \/ ServerCloses(c)
          PROVE  wire'[d] = <<>> /\ ordered'[d] = <<>> /\ at'[d] = "idle"
      BY <1>3, <2>0, <2>2, <2>5 DEF SocketBreaks, ServerCloses, linkVars, pathVars
    <2>6. ASSUME NEW c \in Links, ServerReads(c) \/ OrderedThread(c)
          PROVE  wire'[d] = <<>> /\ ordered'[d] = <<>> /\ at'[d] = "idle"
      <3>1. c = made  BY <2>6, OfTheLast
      <3>2. made' = made
        BY <2>6 DEF ServerReads, OrderedThread, HandlePresence, HandleJoined, HandleJoinedFails, HandleQuit, HandleSubmit,
                    QueueCommand, HandleConsole, linkVars
      <3>3. wire'[d] = wire[d] /\ ordered'[d] = ordered[d] /\ at'[d] = at[d]
        BY <1>3, <2>0, <2>6, <3>1, <3>2
           DEF ServerReads, OrderedThread, HandlePresence, HandleJoined, HandleJoinedFails, HandleQuit, HandleSubmit,
               QueueCommand, HandleConsole, Take, pathVars
      <3> QED  BY <1>3, <2>2, <3>2, <3>3
    <2>7. ASSUME \/ \E kind \in {"add", "remove"}, p \in Players : CliOperation(kind, p)
                 \/ \E t \in Threads : PermissionsSent(t) \/ \E p \in Players : SendPermission(t, p)
                 \/ Deliver \/ (\E c \in Links : PluginApplies(c) \/ PluginGivesUp(c)) \/ Execute
          PROVE  wire'[d] = <<>> /\ ordered'[d] = <<>> /\ at'[d] = "idle"
      <3>1. made' = made /\ wire' = wire /\ ordered' = ordered
        BY <2>7 DEF CliOperation, PermissionsSent, SendPermission, Deliver, PluginApplies, PluginGivesUp, Execute, linkVars, pathVars
      <3>2. at'[d] = at[d] \/ at'[d] = "idle"
        BY <2>0, <2>7 DEF CliOperation, PermissionsSent, SendPermission, Deliver, PluginApplies, PluginGivesUp, Execute
      <3> QED  BY <1>3, <2>2, <3>1, <3>2
    <2> QED  BY <2>3, <2>4, <2>5, <2>6, <2>7 DEF Next
  <1> QED  BY <1>2, <1>3 DEF OneLink

(* A captured revision never becomes current in another session.           *)
LEMMA StillTrue ==
  ASSUME LinkTypes, LinkTypes', OneLink, Moves, NEW w \in Cmd, CommandTrue(w)
  PROVE  CommandTrue(w)'
  <1> DEFINE q == w.player
  <1>1. /\ w.epoch \in Nat /\ w.n \in Nat /\ w.session \in Nat /\ q \in Players
        /\ joins \in Nat /\ joins' \in Nat /\ rec[q] \in Rec /\ rec'[q] \in Rec
        /\ made \in Nat /\ made' \in Nat /\ link \in {0, made} /\ link' \in {0, made'}
    BY LinkAssumption DEF LinkTypes, PresTypes, SocketTypes, Threads, LinkAssumption, Cmd
  <1>2. w.epoch <= made'  BY <1>1 DEF CommandTrue, Moves
  <1>3. link' # 0 /\ w.epoch = made' => w.n <= joins'
    BY <1>1 DEF CommandTrue, Moves
  <1>4. ASSUME rec'[q].epoch # 0, w.epoch = rec'[q].epoch, w.n = rec'[q].n
        PROVE  w.session = rec'[q].session
    <2>1. rec'[q] # NoRecord  BY <1>4 DEF NoRecord
    <2>2. CASE rec'[q] = rec[q]  BY <1>4, <2>2 DEF CommandTrue, Known
    <2>3. CASE link # 0 /\ rec'[q].epoch = link /\ joins < rec'[q].n
      BY <1>1, <1>4, <2>3 DEF CommandTrue, Rec
    <2> QED  BY <1>1, <2>1, <2>2, <2>3 DEF Moves
  <1> QED  BY <1>2, <1>3, <1>4 DEF CommandTrue, Known

-----------------------------------------------------------------------------
(* What a step does to the stream of the link: nothing, a request is sent, *)
(* or the first one is handled.                                            *)
SameSessions == \A p \in Players : rec'[p].session = rec[p].session

Rests ==
  /\ link' = link /\ made' = made /\ Stream' = Stream /\ SameSessions
  /\ Live' => Live /\ ingame' = ingame /\ seen' = seen

Grows(r) ==
  /\ link' = link /\ made' = made /\ Stream' = Append(Stream, r) /\ SameSessions
  /\ r.kind = "submit" => Live /\ \A p \in r.who : p \in ingame /\ r.session[p] = seen[p]
  /\ Live' => \A p \in Players :
       IF Tells(r, p) THEN Says(r, p) = Truth(p)' ELSE Live /\ Truth(p)' = Truth(p)

Shrinks ==
  /\ link' = link /\ made' = made /\ Stream # <<>> /\ Stream' = Tail(Stream)
  /\ \A p \in Players :
       rec'[p].session = IF Tells(Head(Stream), p) THEN Says(Head(Stream), p) ELSE rec[p].session
  /\ UNCHANGED <<plive, sock, ingame, seen>>

Starts == link' # plive' /\ Stream' = <<>>

LEMMA SentGrows ==
  ASSUME LinkTypes, link # 0, NEW r \in Req, sock[made], Send(made, r), ordered' = ordered, made' = made
  PROVE  Stream' = Append(Stream, r)
  <1>1. wire[made] \in Seq(Req) /\ ordered[made] \in Seq(Req) /\ made \in Links  BY LastIsLink
  <1>2. wire'[made] = Append(wire[made], r)  BY <1>1, SendDoes DEF LinkTypes
  <1>3. ordered[made] \o Append(wire[made], r) = Append(ordered[made] \o wire[made], r)
    <2> DEFINE o == ordered[made]
               w == wire[made]
    <2>1. o \in Seq(Req) /\ w \in Seq(Req)  BY <1>1
    <2> HIDE DEF o, w
    <2>2. o \o Append(w, r) = Append(o \o w, r)  BY <2>1, StreamAppend
    <2> QED  BY <2>2 DEF o, w
  <1>4. Stream' = ordered[made] \o Append(wire[made], r)  BY <1>2 DEF Stream
  <1> QED  BY <1>3, <1>4 DEF Stream

LEMMA BdsShapes ==
  ASSUME LinkTypes, LinkTypes', Bds, ~Handshake, link # 0
  PROVE  Rests \/ \E r \in Req : Grows(r)
  <1>1. link = made /\ made \in Links  BY LastIsLink
  <1>2. plive \in {0, made} /\ dial \in {0, made}  BY DEF LinkTypes, SocketTypes
  <1>3. BdsTypes /\ BdsTypes'  BY DEF LinkTypes
  <1>4. /\ link' = link /\ made' = made /\ rec' = rec /\ ordered' = ordered
    BY DEF Bds, PlayerJoins, PlayerQuits, PlayerTypes, ConsoleTypes, BdsRestarts, PluginNotices,
           GoLive, GoLiveFails, linkVars, presVars, pathVars
  <1>5. SameSessions  BY <1>4 DEF SameSessions
  <1>6. ASSUME wire' = wire PROVE Stream' = Stream  BY <1>4, <1>6 DEF Stream
  <1>7. ASSUME NEW p \in Players, PlayerJoins(p) PROVE Rests \/ \E r \in Req : Grows(r)
    <2> DEFINE r == [kind |-> "join", who |-> {p}, session |-> seen']
    <2>1. /\ ingame' = ingame \cup {p} /\ seen' = [seen EXCEPT ![p] = @ + 1]
          /\ IF plive = 0 THEN UNCHANGED wire ELSE Send(plive, r)
          /\ UNCHANGED <<plive, sock>>
      BY <1>7 DEF PlayerJoins, linkVars
    <2>2. /\ r \in Req /\ r.kind = "join" /\ r.who = {p} /\ r.session = seen'
      BY <1>3 DEF Req, BdsTypes
    <2> HIDE DEF r
    <2>3. CASE plive # 0 /\ sock[made]
      <3>1. Stream' = Append(Stream, r)  BY <1>1, <1>2, <1>4, <2>1, <2>2, <2>3, SentGrows
      <3>2. Live  BY <1>1, <1>2, <2>3 DEF Live
      <3>3. \A q \in Players : IF Tells(r, q) THEN Says(r, q) = Truth(q)' ELSE Truth(q)' = Truth(q)
        BY <1>3, <2>1, <2>2 DEF Tells, Says, Brings, Truth, BdsTypes
      <3> QED  BY <1>4, <1>5, <2>2, <3>1, <3>2, <3>3 DEF Grows
    <2>4. CASE ~(plive # 0 /\ sock[made])
      <3>1. wire' = wire  BY <1>2, <2>1, <2>4 DEF Send
      <3>2. ~Live'  BY <1>1, <1>2, <1>4, <2>1, <2>4 DEF Live
      <3> QED  BY <1>4, <1>5, <1>6, <3>1, <3>2 DEF Rests
    <2> QED  BY <2>3, <2>4
  <1>8. ASSUME NEW p \in Players, PlayerQuits(p) PROVE Rests \/ \E r \in Req : Grows(r)
    <2> DEFINE r == Request("quit", {p})
    <2>1. /\ ingame' = ingame \ {p} /\ seen' = seen
          /\ IF plive = 0 THEN UNCHANGED wire ELSE Send(plive, r)
          /\ UNCHANGED <<plive, sock>>
      BY <1>8 DEF PlayerQuits, linkVars
    <2>2. r \in Req /\ r.kind = "quit" /\ r.who = {p}  BY <1>3, Requests
    <2> HIDE DEF r
    <2>3. CASE plive # 0 /\ sock[made]
      <3>1. Stream' = Append(Stream, r)  BY <1>1, <1>2, <1>4, <2>1, <2>2, <2>3, SentGrows
      <3>2. Live  BY <1>1, <1>2, <2>3 DEF Live
      <3>3. \A q \in Players : IF Tells(r, q) THEN Says(r, q) = Truth(q)' ELSE Truth(q)' = Truth(q)
        BY <1>3, <2>1, <2>2 DEF Tells, Says, Brings, Truth, BdsTypes
      <3> QED  BY <1>4, <1>5, <2>2, <3>1, <3>2, <3>3 DEF Grows
    <2>4. CASE ~(plive # 0 /\ sock[made])
      <3>1. wire' = wire  BY <1>2, <2>1, <2>4 DEF Send
      <3>2. ~Live'  BY <1>1, <1>2, <1>4, <2>1, <2>4 DEF Live
      <3> QED  BY <1>4, <1>5, <1>6, <3>1, <3>2 DEF Rests
    <2> QED  BY <2>3, <2>4
  <1>9. ASSUME NEW p \in Players, NEW kind \in {"submit", "add", "remove"},
               kind = "submit" => p \in ingame, plive # 0, Send(plive, Request(kind, {p})),
               UNCHANGED <<plive, sock, ingame, seen>>
        PROVE  Rests \/ \E r \in Req : Grows(r)
    <2> DEFINE r == Request(kind, {p})
    <2>1. r \in Req /\ r.kind = kind /\ r.who = {p} /\ r.session = seen  BY <1>3, Requests
    <2>2. Send(plive, r)  BY <1>9
    <2> HIDE DEF r
    <2>3. CASE sock[made]
      <3>1. Stream' = Append(Stream, r)  BY <1>1, <1>2, <1>4, <1>9, <2>1, <2>2, <2>3, SentGrows
      <3>2. Live  BY <1>1, <1>2, <1>9, <2>3 DEF Live
      <3>3. \A q \in Players : ~Tells(r, q) /\ Truth(q)' = Truth(q)
        BY <1>9, <2>1 DEF Tells, Truth
      <3> QED  BY <1>4, <1>5, <1>9, <2>1, <3>1, <3>2, <3>3 DEF Grows
    <2>4. CASE ~sock[made]
      <3>1. wire' = wire  BY <1>2, <1>9, <2>2, <2>4 DEF Send
      <3>2. ~Live'  BY <1>1, <1>4, <1>9, <2>4 DEF Live
      <3> QED  BY <1>4, <1>5, <1>6, <3>1, <3>2 DEF Rests
    <2> QED  BY <2>3, <2>4
  <1>10. ASSUME NEW p \in Players, PlayerTypes(p) PROVE Rests \/ \E r \in Req : Grows(r)
    BY <1>9, <1>10 DEF PlayerTypes, linkVars, bdsVars
  <1>11. ASSUME NEW kind \in {"add", "remove"}, NEW p \in Players, ConsoleTypes(kind, p)
         PROVE  Rests \/ \E r \in Req : Grows(r)
    BY <1>9, <1>11 DEF ConsoleTypes, linkVars, bdsVars
  <1>12. CASE BdsRestarts \/ PluginNotices
    <2>1. wire' = wire /\ plive' = 0  BY <1>12 DEF BdsRestarts, PluginNotices, pathVars
    <2> QED  BY <1>4, <1>5, <1>6, <2>1 DEF Rests, Live
  <1>13. CASE GoLive
    <2> DEFINE r == Request("snapshot", ingame)
    <2>1. /\ dial = made /\ plive' = made /\ Send(made, r) /\ UNCHANGED <<sock, ingame, seen>>
      BY <1>2, <1>13 DEF GoLive, bdsVars
    <2>2. r \in Req /\ r.kind = "snapshot" /\ r.who = ingame /\ r.session = seen
      BY <1>3, Requests DEF BdsTypes
    <2> HIDE DEF r
    <2>3. CASE sock[made]
      <3>1. Stream' = Append(Stream, r)  BY <1>4, <2>1, <2>2, <2>3, SentGrows
      <3>2. \A q \in Players : Tells(r, q) /\ Says(r, q) = Truth(q)'
        BY <2>1, <2>2 DEF Tells, Says, Brings, Truth
      <3> QED  BY <1>4, <1>5, <2>2, <3>1, <3>2 DEF Grows
    <2>4. CASE ~sock[made]
      <3>1. wire' = wire  BY <2>1, <2>4 DEF Send
      <3>2. ~Live'  BY <1>1, <1>4, <2>1, <2>4 DEF Live
      <3> QED  BY <1>4, <1>5, <1>6, <3>1, <3>2 DEF Rests
    <2> QED  BY <2>3, <2>4
  <1>14. CASE GoLiveFails
    <2>1. /\ wire' = wire /\ dial # 0 /\ sock' = [sock EXCEPT ![dial] = FALSE] /\ UNCHANGED <<plive, ingame, seen>>
      BY <1>14 DEF GoLiveFails, pathVars, bdsVars
    <2>2. ~Live'  BY <1>1, <1>2, <1>4, <2>1 DEF Live, LinkTypes, SocketTypes
    <2> QED  BY <1>4, <1>5, <1>6, <2>1, <2>2 DEF Rests
  <1> QED  BY <1>7, <1>8, <1>10, <1>11, <1>12, <1>13, <1>14 DEF Bds

LEMMA HeadHandled ==
  ASSUME LinkTypes, made \in Links, ordered[made] # <<>>, ordered' = [ordered EXCEPT ![made] = Tail(@)],
         wire' = wire, made' = made
  PROVE  /\ Stream # <<>> /\ Head(Stream) = Head(ordered[made]) /\ Stream' = Tail(Stream)
         /\ Head(Stream) \in Req
  <1> DEFINE o == ordered[made]
             w == wire[made]
  <1>1. o \in Seq(Req) /\ w \in Seq(Req) /\ o # <<>>  BY DEF LinkTypes, PathTypes
  <1>2. Stream = o \o w  BY DEF Stream
  <1>3. Stream' = Tail(o) \o w  BY DEF Stream, LinkTypes, PathTypes
  <1> HIDE DEF o, w
  <1>4. Stream # <<>> /\ Head(Stream) = Head(o) /\ Stream' = Tail(Stream)
    BY <1>1, <1>2, <1>3, StreamTail
  <1>5. Head(o) \in Req  BY <1>1, HeadTailProperties
  <1> QED  BY <1>4, <1>5 DEF o

LEMMA OrderedShapes ==
  ASSUME LinkTypes, OneLink, NEW c \in Links, OrderedThread(c), link # 0
  PROVE  Rests \/ Shrinks
  <1>1. link = made /\ c = made /\ made \in Links  BY LastIsLink, OfTheLast
  <1>2. c \in Threads  BY LinkAssumption DEF Links, Threads, LinkAssumption
  <1>3. link' = link /\ made' = made /\ UNCHANGED <<plive, sock, ingame, seen, wire>>
    BY DEF OrderedThread, HandlePresence, HandleJoined, HandleJoinedFails, HandleQuit, HandleSubmit, QueueCommand,
           HandleConsole, linkVars, bdsVars, pathVars
  <1>4. Renumbered => SameSessions  BY DEF Renumbered, SameSessions
  <1>5. CASE HandlePresence(c)
    <2> DEFINE r == Head(ordered[made])
    <2>1. /\ ordered[made] # <<>> /\ r.kind \in {"snapshot", "join", "quit"}
          /\ ordered' = [ordered EXCEPT ![made] = Tail(@)] /\ PresenceApply(r)
      BY <1>1, <1>5 DEF HandlePresence, Next1, Take
    <2>2. /\ Stream # <<>> /\ Head(Stream) = r /\ Stream' = Tail(Stream) /\ r \in Req
      BY <1>1, <1>3, <2>1, HeadHandled
    <2> HIDE DEF r
    <2>3. \A p \in Players :
              \/ rec'[p] = rec[p] /\ ~Tells(r, p)
              \/ rec'[p] = NoRecord /\ Tells(r, p) /\ Says(r, p) = 0
              \/ Brings(r, p) /\ rec'[p].session = r.session[p]
      BY <2>1, <2>2, LinkAssumption, PresenceDoes
    <2>4. \A p \in Players : rec'[p].session = IF Tells(r, p) THEN Says(r, p) ELSE rec[p].session
      BY <2>3 DEF NoRecord, Tells, Brings, Says
    <2> QED  BY <1>3, <2>2, <2>4 DEF Shrinks
  <1>6. CASE HandleJoined(c)
    <2>1. /\ at[c] = "applied" /\ ApplyAll(c, task[c].who, Remembered(task[c])) /\ UNCHANGED pathVars
      BY <1>6 DEF HandleJoined
    <2>2. task[c].who \in SUBSET Players  BY <1>2, <2>1 DEF LinkTypes, ThreadTypes, Req
    <2>3. Remembered(task[c]) \in [Players -> BOOLEAN]  BY DEF Remembered, LinkTypes, AuthTypes
    <2>4. Renumbered  BY <1>2, <2>1, <2>2, <2>3, LinkAssumption, ApplyDoes
    <2>5. Stream' = Stream  BY <1>3, <2>1 DEF Stream, pathVars
    <2> QED  BY <1>3, <1>4, <2>4, <2>5 DEF Rests, Live
  <1>10. CASE HandleJoinedFails(c)
    <2>1. PICK done \in SUBSET task[c].who : ApplyEach(done, Remembered(task[c]))
      BY <1>10 DEF HandleJoinedFails
    <2>2. at[c] = "applied" /\ UNCHANGED pathVars  BY <1>10 DEF HandleJoinedFails
    <2>3. done \in SUBSET Players  BY <1>2, <2>1, <2>2 DEF LinkTypes, ThreadTypes, Req
    <2>4. Remembered(task[c]) \in [Players -> BOOLEAN]  BY DEF Remembered, LinkTypes, AuthTypes
    <2>5. Renumbered  BY <2>1, <2>3, <2>4, LinkAssumption, ApplyEachDoes
    <2>6. Stream' = Stream  BY <1>3, <2>2 DEF Stream, pathVars
    <2> QED  BY <1>3, <1>4, <2>5, <2>6 DEF Rests, Live
  <1>7. CASE HandleQuit(c) \/ QueueCommand(c)
    <2>1. rec' = rec /\ Stream' = Stream
      BY <1>7 DEF HandleQuit, QueueCommand, presVars, pathVars, linkVars, Stream
    <2> QED  BY <1>3, <2>1 DEF Rests, Live, SameSessions
  <1>8. CASE HandleSubmit(c)
    <2>1. /\ ordered[made] # <<>> /\ Head(ordered[made]).kind = "submit"
          /\ ordered' = [ordered EXCEPT ![made] = Tail(@)] /\ rec' = rec
      BY <1>1, <1>8 DEF HandleSubmit, Next1, presVars
    <2>2. Stream # <<>> /\ Head(Stream) = Head(ordered[made]) /\ Stream' = Tail(Stream)
      BY <1>1, <1>3, <2>1, HeadHandled
    <2>3. \A p \in Players : ~Tells(Head(Stream), p)  BY <2>1, <2>2 DEF Tells
    <2> QED  BY <1>3, <2>1, <2>2, <2>3 DEF Shrinks
  <1>9. CASE HandleConsole(c)
    <2>1. /\ ordered[made] # <<>> /\ Head(ordered[made]).kind \in {"add", "remove"}
          /\ ordered' = [ordered EXCEPT ![made] = Tail(@)]
          /\ \E p \in Head(ordered[made]).who : Operation(made, Head(ordered[made]).kind, p)
      BY <1>1, <1>9 DEF HandleConsole, Next1, Take
    <2>2. Stream # <<>> /\ Head(Stream) = Head(ordered[made]) /\ Stream' = Tail(Stream)
      BY <1>1, <1>3, <2>1, HeadHandled
    <2>3. \A p \in Players : ~Tells(Head(Stream), p)  BY <2>1, <2>2 DEF Tells
    <2>4. Head(ordered[made]).who \in SUBSET Players
      BY <1>1, <2>1, HeadIsRequest DEF Req, LinkTypes
    <2>5. PICK p \in Players : Operation(made, Head(ordered[made]).kind, p)  BY <2>1, <2>4
    <2>6. Renumbered  BY <1>1, <1>2, <2>5, LinkAssumption, OperationDoes
    <2> QED  BY <1>3, <1>4, <2>2, <2>3, <2>6 DEF Shrinks, SameSessions
  <1> QED  BY <1>5, <1>6, <1>7, <1>8, <1>9, <1>10 DEF OrderedThread

LEMMA Shapes ==
  ASSUME LinkTypes, LinkTypes', OneLink, Overlap = FALSE, Next, link' # 0
  PROVE  Starts \/ (link # 0 /\ (Rests \/ Shrinks \/ \E r \in Req : Grows(r)))
  <1>1. CASE Handshake
    <2>1. /\ plive' = 0 /\ made' = made + 1 /\ UNCHANGED pathVars
          /\ made < MaxLinks /\ \A c \in Links : Handled(c)
      BY <1>1 DEF Handshake
    <2>2. made + 1 \in Links
      BY <2>1, LinkAssumption DEF LinkTypes, SocketTypes, Links, Threads, LinkAssumption
    <2>3. ordered[made + 1] = <<>> /\ wire[made + 1] = <<>>  BY <2>1, <2>2 DEF Handled
    <2>4. Stream' = <<>> \o <<>>  BY <2>1, <2>3 DEF Stream, pathVars
    <2>5. <<>> \o <<>> = <<>>
      <3>1. <<>> \in Seq(Req)  OBVIOUS
      <3> QED  BY <3>1, ConcatEmptySeq
    <2> QED  BY <2>1, <2>4, <2>5 DEF Starts
  <1> SUFFICES ASSUME ~Handshake PROVE link # 0 /\ (Rests \/ Shrinks \/ \E r \in Req : Grows(r))
    BY <1>1
  <1>2. made' = made
    BY DEF Next, Bds, PlayerJoins, PlayerQuits, PlayerTypes, ConsoleTypes, BdsRestarts, PluginNotices,
           GoLive, GoLiveFails, SocketBreaks, ServerCloses, ServerReads, OrderedThread, HandlePresence,
           HandleJoined, HandleJoinedFails, HandleQuit, HandleSubmit, QueueCommand, HandleConsole, CliOperation,
           PermissionsSent, SendPermission, Deliver, PluginApplies, PluginGivesUp, Execute, linkVars
  <1>3. link' = link  BY <1>2, StepMoves DEF Moves
  <1>4. link # 0 /\ link = made /\ made \in Links  BY <1>3, LastIsLink
  <1>5. ASSUME NEW c \in Links, SocketBreaks(c) PROVE Rests
    <2>1. /\ sock' = [sock EXCEPT ![c] = FALSE] /\ UNCHANGED <<plive, ingame, seen, rec, wire, ordered>>
      BY <1>5 DEF SocketBreaks, bdsVars, presVars, pathVars
    <2>2. sock'[made] => sock[made]  BY <1>4, <2>1 DEF LinkTypes, SocketTypes
    <2> QED  BY <1>2, <1>3, <1>4, <2>1, <2>2 DEF Rests, Live, Stream, SameSessions
  <1>6. ASSUME NEW c \in Links, ServerCloses(c) PROVE Rests
    <2>1. /\ sock' = [sock EXCEPT ![c] = FALSE] /\ wire' = [wire EXCEPT ![c] = <<>>]
          /\ UNCHANGED <<plive, ingame, seen, ordered>>
          /\ c = link => link' = 0
          /\ c # link => rec' = rec
      BY <1>6 DEF ServerCloses, Closed, bdsVars, presVars
    <2>2. c # made  BY <1>3, <1>4, <2>1
    <2>3. sock'[made] = sock[made] /\ wire'[made] = wire[made]
      BY <1>4, <2>1, <2>2 DEF LinkTypes, SocketTypes, PathTypes
    <2> QED  BY <1>2, <1>3, <1>4, <2>1, <2>2, <2>3 DEF Rests, Live, Stream, SameSessions
  <1>7. ASSUME NEW c \in Links, ServerReads(c) PROVE Rests
    <2>1. c = made  BY <1>7, OfTheLast
    <2>2. /\ wire[made] # <<>> /\ ordered' = [ordered EXCEPT ![made] = Append(@, Head(wire[made]))]
          /\ wire' = [wire EXCEPT ![made] = Tail(@)]
          /\ UNCHANGED <<plive, sock, ingame, seen, rec>>
      BY <1>7, <2>1 DEF ServerReads, bdsVars, linkVars, presVars
    <2> DEFINE o == ordered[made]
               w == wire[made]
    <2>3. o \in Seq(Req) /\ w \in Seq(Req) /\ w # <<>>  BY <1>4, <2>2 DEF LinkTypes, PathTypes
    <2>4. Stream = o \o w  BY DEF Stream
    <2>5. Stream' = Append(o, Head(w)) \o Tail(w)
      BY <1>2, <1>4, <2>2 DEF Stream, LinkTypes, PathTypes
    <2> HIDE DEF o, w
    <2>6. Stream' = Stream  BY <2>3, <2>4, <2>5, StreamMove
    <2> QED  BY <1>2, <1>3, <2>2, <2>6 DEF Rests, Live, SameSessions
  <1>8. ASSUME NEW kind \in {"add", "remove"}, NEW p \in Players, CliOperation(kind, p) PROVE Rests
    <2>1. 0 \in Threads  BY LinkAssumption DEF Threads, LinkAssumption
    <2>2. Operation(0, kind, p) /\ UNCHANGED <<plive, sock, ingame, seen, wire, ordered>>
      BY <1>8 DEF CliOperation, bdsVars, linkVars, pathVars
    <2>3. Renumbered  BY <2>1, <2>2, LinkAssumption, OperationDoes
    <2> QED  BY <1>2, <1>3, <2>2, <2>3 DEF Rests, Live, Stream, SameSessions, Renumbered
  <1>9. ASSUME \/ \E t \in Threads : PermissionsSent(t) \/ \E p \in Players : SendPermission(t, p)
               \/ Deliver \/ (\E c \in Links : PluginApplies(c) \/ PluginGivesUp(c)) \/ Execute
        PROVE  Rests
    <2>1. UNCHANGED <<plive, sock, ingame, seen, rec, wire, ordered>>
      BY <1>9 DEF PermissionsSent, SendPermission, Deliver, PluginApplies, PluginGivesUp, Execute, bdsVars, linkVars, presVars, pathVars
    <2> QED  BY <1>2, <1>3, <2>1 DEF Rests, Live, Stream, SameSessions
  <1> QED  BY <1>4, <1>5, <1>6, <1>7, <1>8, <1>9, BdsShapes, OrderedShapes DEF Next

(* In the stream: sessions of commands, what presence becomes, who returns. *)
LEMMA SubmitsSame ==
  ASSUME NEW s \in Seq(Req), NEW now, NEW next, SubmitsIn(s, now),
         \A p \in Players : next[p].session = now[p].session
  PROVE  SubmitsIn(s, next)
  <1>1. ASSUME NEW k \in 1 .. Len(s) PROVE s[k].who \subseteq Players
    <2>1. s[k] \in Req  OBVIOUS
    <2> HIDE DEF Req
    <2>2. \A r \in Req : r.who \subseteq Players  BY DEF Req
    <2> QED  BY <2>1, <2>2
  <1> QED  BY <1>1 DEF SubmitsIn

LEMMA EmptyStream ==
  ASSUME NEW now
  PROVE  SubmitsIn(<<>>, now)
  BY DEF SubmitsIn

LEMMA SubmitsKept ==
  ASSUME LinkTypes, LinkTypes', OneLink, SubmitsTrue, PresenceComes, Overlap = FALSE, Next
  PROVE  SubmitsTrue'
  <1> SUFFICES ASSUME link' # 0 PROVE SubmitsIn(Stream', rec')  BY DEF SubmitsTrue
  <1>1. CASE Starts  BY <1>1, EmptyStream DEF Starts
  <1>2. ASSUME link # 0, Rests PROVE SubmitsIn(Stream', rec')
    BY <1>2, LastIsLink, SubmitsSame DEF Rests, SameSessions, SubmitsTrue
  <1>3. ASSUME link # 0, Shrinks PROVE SubmitsIn(Stream', rec')
    BY <1>3, LastIsLink, SubmitsTail DEF Shrinks, SubmitsTrue
  <1>4. ASSUME link # 0, NEW r \in Req, Grows(r) PROVE SubmitsIn(Stream', rec')
    <2>1. Stream \in Seq(Req) /\ SubmitsIn(Stream, rec)  BY <1>4, LastIsLink DEF SubmitsTrue
    <2>2. SubmitsIn(Stream, rec')  BY <1>4, <2>1, SubmitsSame DEF Grows, SameSessions
    <2>3. ASSUME r.kind = "submit", NEW p \in r.who
          PROVE  Follows(Stream, Len(Stream) + 1, p, rec'[p].session, r.session[p])
      <3>1. p \in Players  BY DEF Req
      <3>2. Live /\ p \in ingame /\ r.session[p] = seen[p]  BY <1>4, <2>3 DEF Grows
      <3>3. Follows(Stream, Len(Stream) + 1, p, rec[p].session, Truth(p))
        BY <3>1, <3>2 DEF PresenceComes
      <3>4. Truth(p) = r.session[p] /\ rec'[p].session = rec[p].session
        BY <1>4, <3>1, <3>2 DEF Truth, Grows, SameSessions
      <3> QED  BY <3>3, <3>4
    <2>4. SubmitsIn(Append(Stream, r), rec')  BY <2>1, <2>2, <2>3, SubmitsAppend
    <2> QED  BY <1>4, <2>4 DEF Grows
  <1> QED  BY <1>1, <1>2, <1>3, <1>4, Shapes

LEMMA PresenceKept ==
  ASSUME LinkTypes, LinkTypes', OneLink, PresenceComes, Overlap = FALSE, Next
  PROVE  PresenceComes'
  <1> SUFFICES ASSUME Live', NEW p \in Players
               PROVE  Follows(Stream', Len(Stream') + 1, p, rec'[p].session, Truth(p)')
    BY DEF PresenceComes
  <1>1. link' # 0 /\ plive' = link'  BY DEF Live
  <1>2. CASE Starts  BY <1>1, <1>2 DEF Starts
  <1>3. ASSUME link # 0, Rests
        PROVE  Follows(Stream', Len(Stream') + 1, p, rec'[p].session, Truth(p)')
    BY <1>3 DEF Rests, SameSessions, PresenceComes, Truth
  <1>4. ASSUME link # 0, Shrinks
        PROVE  Follows(Stream', Len(Stream') + 1, p, rec'[p].session, Truth(p)')
    <2>1. Stream \in Seq(Req) /\ Stream # <<>>  BY <1>4, LastIsLink DEF Shrinks
    <2>2. Len(Stream) \in Nat /\ Len(Stream) > 0 /\ Len(Tail(Stream)) = Len(Stream) - 1
      BY <2>1, HeadTailProperties
    <2>3. Live /\ Truth(p)' = Truth(p)  BY <1>4 DEF Shrinks, Live, Truth
    <2>4. Follows(Stream, Len(Stream) + 1, p, rec[p].session, Truth(p))  BY <2>3 DEF PresenceComes
    <2>5. /\ Len(Stream) + 1 \in 2 .. Len(Stream) + 1
          /\ (Len(Stream) + 1) - 1 = Len(Tail(Stream)) + 1
      BY <2>2
    <2>6. Follows(Tail(Stream), (Len(Stream) + 1) - 1, p,
                  IF Tells(Head(Stream), p) THEN Says(Head(Stream), p) ELSE rec[p].session, Truth(p))
      BY <2>1, <2>4, <2>5, FollowsTail
    <2> QED  BY <1>4, <2>3, <2>5, <2>6 DEF Shrinks
  <1>5. ASSUME link # 0, NEW r \in Req, Grows(r)
        PROVE  Follows(Stream', Len(Stream') + 1, p, rec'[p].session, Truth(p)')
    <2>1. Stream \in Seq(Req)  BY <1>5, LastIsLink
    <2>2. /\ Stream' = Append(Stream, r) /\ rec'[p].session = rec[p].session
          /\ IF Tells(r, p) THEN Says(r, p) = Truth(p)' ELSE Live /\ Truth(p)' = Truth(p)
      BY <1>5 DEF Grows, SameSessions
    <2>3. IF Tells(r, p) THEN Says(r, p) = Truth(p)'
          ELSE Follows(Stream, Len(Stream) + 1, p, rec[p].session, Truth(p)')
      BY <2>2 DEF PresenceComes
    <2> DEFINE v == Truth(p)'
               now == rec[p].session
    <2>4. IF Tells(r, p) THEN Says(r, p) = v ELSE Follows(Stream, Len(Stream) + 1, p, now, v)
      BY <2>3
    <2> HIDE DEF v, now
    <2>5. Follows(Append(Stream, r), Len(Append(Stream, r)) + 1, p, now, v)
      BY <2>1, <2>4, FollowsNext
    <2> QED  BY <2>2, <2>5 DEF v, now
  <1> QED  BY <1>1, <1>2, <1>3, <1>4, <1>5, Shapes

LEMMA ReturnsKept ==
  ASSUME LinkTypes, LinkTypes', OneLink, WhoReturns, Overlap = FALSE, Next
  PROVE  WhoReturns'
  <1> SUFFICES ASSUME Live', NEW p \in ingame' PROVE Returns(Stream', p)
    BY DEF WhoReturns
  <1>1. link' # 0 /\ plive' = link' /\ p \in Players /\ seen'[p] # 0
    BY DEF Live, LinkTypes, BdsTypes
  <1>2. CASE Starts  BY <1>1, <1>2 DEF Starts
  <1>3. ASSUME link # 0, Rests PROVE Returns(Stream', p)
    BY <1>3 DEF Rests, WhoReturns
  <1>4. ASSUME link # 0, Shrinks PROVE Returns(Stream', p)
    <2>1. Stream \in Seq(Req) /\ Stream # <<>>  BY <1>4, LastIsLink DEF Shrinks
    <2>2. Live /\ p \in ingame  BY <1>4 DEF Shrinks, Live
    <2> QED  BY <1>4, <2>1, <2>2, ReturnsTail DEF Shrinks, WhoReturns
  <1>5. ASSUME link # 0, NEW r \in Req, Grows(r) PROVE Returns(Stream', p)
    <2>1. Stream \in Seq(Req)  BY <1>5, LastIsLink
    <2>2. /\ Stream' = Append(Stream, r)
          /\ IF Tells(r, p) THEN Says(r, p) = Truth(p)' ELSE Live /\ Truth(p)' = Truth(p)
      BY <1>1, <1>5 DEF Grows
    <2>3. Truth(p)' # 0  BY <1>1 DEF Truth
    <2>4. CASE Tells(r, p)  BY <2>1, <2>2, <2>3, <2>4, ReturnsAppend DEF Says
    <2>5. CASE ~Tells(r, p)
      <3>1. Live /\ p \in ingame  BY <2>2, <2>3, <2>5 DEF Truth
      <3> QED  BY <2>1, <2>2, <2>5, <3>1, ReturnsAppend DEF WhoReturns
    <2> QED  BY <2>4, <2>5
  <1> QED  BY <1>1, <1>2, <1>3, <1>4, <1>5, Shapes

(* The captured commands, and what is captured now.                        *)
LEMMA CaptureIsTrue ==
  ASSUME LinkTypes, OneLink, SubmitsTrue, NEW c \in Links, HandleSubmit(c)
  PROVE  task'[c] \in Cmd /\ CommandTrue(task'[c])
  <1> DEFINE r == Head(ordered[c])
  <1>0. c \in Threads /\ c = made /\ made # 0 /\ made \in Nat
    BY OfTheLast, LinkAssumption DEF Links, Threads, LinkAssumption, OrderedThread
  <1>1. /\ ordered[made] # <<>> /\ r.kind = "submit" /\ wire' = wire /\ made' = made
        /\ ordered' = [ordered EXCEPT ![made] = Tail(@)]
    BY <1>0 DEF HandleSubmit, Next1, linkVars
  <1>2. r \in Req /\ Stream # <<>> /\ Head(Stream) = r
    BY <1>0, <1>1, HeadHandled
  <1>3. PICK p \in r.who :
          task' = [task EXCEPT ![c] =
            [kind |-> "command", player |-> p, session |-> r.session[p],
             epoch |-> rec[p].epoch, n |-> rec[p].n, grev |-> grev[p]]]
    BY DEF HandleSubmit
  <1>4. r.who \in SUBSET Players /\ r.session \in [Players -> Nat]
    <2> HIDE DEF r
    <2> QED  BY <1>2 DEF Req
  <1>5. p \in Players  BY <1>4
  <1>6. rec[p] \in Rec /\ grev[p] \in Nat  BY <1>5 DEF LinkTypes, PresTypes, AuthTypes
  <1>7. task'[c] = [kind |-> "command", player |-> p, session |-> r.session[p],
                    epoch |-> rec[p].epoch, n |-> rec[p].n, grev |-> grev[p]]
    BY <1>0, <1>3 DEF LinkTypes, ThreadTypes
  <1> DEFINE w == task'[c]
  <1>8. /\ w \in Cmd /\ w.player = p /\ w.session = r.session[p]
        /\ w.epoch = rec[p].epoch /\ w.n = rec[p].n
    BY <1>4, <1>5, <1>6, <1>7 DEF Cmd, Rec
  <1> HIDE DEF w
  <1>9. ASSUME Known(p) PROVE r.session[p] = rec[p].session
    <2>1. link # 0  BY <1>5, <1>9 DEF OneLink
    <2>2. Stream \in Seq(Req) /\ SubmitsIn(Stream, rec)  BY <2>1, LastIsLink DEF SubmitsTrue
    <2>3. Stream[1] = r /\ 1 \in 1 .. Len(Stream)  BY <1>2, <2>2
    <2>4. Follows(Stream, 1, p, rec[p].session, r.session[p])
      <3> HIDE DEF r
      <3> QED  BY <1>1, <2>2, <2>3 DEF SubmitsIn
    <2> QED  BY <2>4 DEF Follows
  <1>10. rec[p].epoch <= made /\ (rec[p].epoch # 0 => rec[p].n <= joins)
    BY <1>0, <1>5, <1>6 DEF OneLink, Known, Rec
  <1>11. CommandTrue(w)
    BY <1>0, <1>8, <1>9, <1>10 DEF CommandTrue, LinkTypes, SocketTypes
  <1> QED  BY <1>8, <1>11 DEF w

(* A command that is queued or captured.                                   *)
Held(w) ==
  \/ \E k \in DOMAIN work : w = work[k]
  \/ \E t \in Threads : at[t] = "captured" /\ w = task[t]

LEMMA HeldBefore ==
  ASSUME LinkTypes, Next, NEW w, Held(w)'
  PROVE  Held(w) \/ \E c \in Links : HandleSubmit(c) /\ w = task'[c]
  <1>0. /\ work \in Seq(Cmd) /\ at \in [Threads -> {"idle", "applied", "captured", "permissions"}]
        /\ task \in [Threads -> Req \cup Cmd \cup {NoTask}]
        /\ \A c \in Links : c \in Threads
    BY LinkAssumption DEF LinkTypes, QueueTypes, ThreadTypes, Links, Threads, LinkAssumption
  <1>1. ASSUME UNCHANGED <<work, at, task>> PROVE Held(w)  BY <1>1 DEF Held
  <1>2. CASE Bds
    BY <1>1, <1>2 DEF Bds, PlayerJoins, PlayerQuits, PlayerTypes, ConsoleTypes, BdsRestarts, PluginNotices,
                Handshake, GoLive, GoLiveFails
  <1>3. ASSUME NEW c \in Links, SocketBreaks(c) \/ ServerCloses(c) \/ ServerReads(c) PROVE Held(w)
    BY <1>1, <1>3 DEF SocketBreaks, ServerCloses, ServerReads
  <1>4. ASSUME NEW c \in Links, \/ HandlePresence(c) \/ HandleJoined(c) \/ HandleJoinedFails(c)
                               \/ HandleQuit(c) \/ HandleConsole(c)
        PROVE  Held(w)
    <2>1. work' = work
      BY <1>4 DEF HandlePresence, HandleJoined, HandleJoinedFails, HandleQuit, HandleConsole
    <2>2. \A t \in Threads : at'[t] = "captured" => at[t] = "captured" /\ task'[t] = task[t]
      BY <1>0, <1>4 DEF HandlePresence, HandleJoined, HandleJoinedFails, HandleQuit, HandleConsole, Take
    <2> QED  BY <2>1, <2>2 DEF Held
  <1>5. ASSUME NEW c \in Links, HandleSubmit(c) PROVE Held(w) \/ w = task'[c]
    <2>1. work' = work  BY <1>5 DEF HandleSubmit
    <2>2. \A t \in Threads : t # c => at'[t] = at[t] /\ task'[t] = task[t]
      BY <1>0, <1>5 DEF HandleSubmit
    <2> QED  BY <2>1, <2>2 DEF Held
  <1>6. ASSUME NEW c \in Links, QueueCommand(c) PROVE Held(w)
    <2>1. /\ at[c] = "captured" /\ (work' = Append(work, task[c]) \/ work' = work)
          /\ task' = [task EXCEPT ![c] = NoTask] /\ at' = [at EXCEPT ![c] = "idle"]
      BY <1>6 DEF QueueCommand
    <2>2. \A t \in Threads : at'[t] = "captured" => at[t] = "captured" /\ task'[t] = task[t]
      BY <1>0, <2>1
    <2>3. \A k \in DOMAIN work' : work'[k] = task[c] \/ (k \in DOMAIN work /\ work'[k] = work[k])
      <3>1. CASE work' = work  BY <3>1
      <3>2. CASE work' = Append(work, task[c])  BY <1>0, <3>2
      <3> QED  BY <2>1, <3>1, <3>2
    <2> QED  BY <1>0, <2>1, <2>2, <2>3 DEF Held
  <1>7. ASSUME NEW kind \in {"add", "remove"}, NEW p \in Players, CliOperation(kind, p) PROVE Held(w)
    <2>1. work' = work /\ task' = task /\ at' = [at EXCEPT ![0] = "permissions"]
      BY <1>7 DEF CliOperation
    <2> QED  BY <1>0, <2>1 DEF Held
  <1>8. ASSUME NEW t \in Threads, PermissionsSent(t) PROVE Held(w)
    <2>1. work' = work /\ task' = [task EXCEPT ![t] = NoTask] /\ at' = [at EXCEPT ![t] = "idle"]
      BY <1>8 DEF PermissionsSent
    <2> QED  BY <1>0, <2>1 DEF Held
  <1>9. ASSUME \/ \E t \in Threads : \E p \in Players : SendPermission(t, p)
               \/ Deliver \/ (\E c \in Links : PluginApplies(c) \/ PluginGivesUp(c))
        PROVE  Held(w)
    BY <1>1, <1>9 DEF SendPermission, Deliver, PluginApplies, PluginGivesUp
  <1>10. CASE Execute
    <2>1. work # <<>> /\ work' = Tail(work) /\ UNCHANGED <<at, task>>  BY <1>10 DEF Execute
    <2>2. \A k \in DOMAIN work' : k + 1 \in DOMAIN work /\ work'[k] = work[k + 1]
      BY <1>0, <2>1, HeadTailProperties
    <2> QED  BY <2>1, <2>2 DEF Held
  <1> QED  BY <1>2, <1>3, <1>4, <1>5, <1>6, <1>7, <1>8, <1>9, <1>10 DEF Next, OrderedThread

LEMMA CommandsKept ==
  ASSUME LinkTypes, LinkTypes', OneLink, OneLink', SubmitsTrue, CommandsTrue, Next
  PROVE  CommandsTrue'
  <1>1. Moves  BY StepMoves
  <1>2. ASSUME NEW w, Held(w)' PROVE CommandTrue(w)'
    <2>1. CASE Held(w)
      <3>1. w \in Cmd /\ CommandTrue(w)
        BY <2>1 DEF Held, CommandsTrue, LinkTypes, QueueTypes, ThreadTypes
      <3> QED  BY <1>1, <3>1, StillTrue
    <2>2. ASSUME NEW c \in Links, HandleSubmit(c), w = task'[c] PROVE CommandTrue(w)'
      <3>1. w \in Cmd /\ CommandTrue(w)  BY <2>2, CaptureIsTrue
      <3> QED  BY <1>1, <3>1, StillTrue
    <2> QED  BY <1>2, <2>1, <2>2, HeldBefore
  <1>3. ASSUME NEW k \in DOMAIN work' PROVE CommandTrue(work[k])'
    <2>1. PICK w : w = work'[k]  OBVIOUS
    <2>2. Held(w)'  BY <2>1 DEF Held
    <2> QED  BY <1>2, <2>1, <2>2 DEF CommandTrue
  <1>4. ASSUME NEW t \in Threads, at'[t] = "captured" PROVE CommandTrue(task[t])'
    <2>1. PICK w : w = task'[t]  OBVIOUS
    <2>2. Held(w)'  BY <1>4, <2>1 DEF Held
    <2> QED  BY <1>2, <2>1, <2>2 DEF CommandTrue
  <1> QED  BY <1>3, <1>4 DEF CommandsTrue

-----------------------------------------------------------------------------
(* Permissions.                                                            *)
LEMMA DueKept ==
  ASSUME LinkTypes, LinkTypes', OneLink, DueSent, CliIdle, Next
  PROVE  DueSent' /\ CliIdle'
  <1>0. /\ at \in [Threads -> {"idle", "applied", "captured", "permissions"}]
        /\ due \in [Threads -> [Players -> PermissionValues]] /\ ops.cli \in Nat /\ 0 \in Threads
        /\ ops \in [typed : Nat, console : Nat, cli : Nat, ran : Nat]
        /\ \A c \in Links : c \in Threads /\ c # 0
    BY LinkAssumption DEF LinkTypes, QueueTypes, ThreadTypes, Links, Threads, LinkAssumption
  <1>1. ASSUME NEW c \in Threads, \A t \in Threads : t # c => at'[t] = at[t] /\ due'[t] = due[t],
               at'[c] = "permissions" \/ due'[c] = NoDue,
               c # 0, ops'.cli = ops.cli
        PROVE  DueSent' /\ CliIdle'
    BY <1>0, <1>1 DEF DueSent, CliIdle
  <1>2. CASE UNCHANGED <<at, due>> /\ ops'.cli = ops.cli
    BY <1>2 DEF DueSent, CliIdle
  <1>3. CASE Bds
    BY <1>0, <1>2, <1>3
       DEF Bds, PlayerJoins, PlayerQuits, PlayerTypes, ConsoleTypes, BdsRestarts, PluginNotices,
           Handshake, GoLive, GoLiveFails
  <1>4. ASSUME NEW c \in Links, SocketBreaks(c) \/ ServerCloses(c) \/ ServerReads(c)
        PROVE  DueSent' /\ CliIdle'
    BY <1>2, <1>4 DEF SocketBreaks, ServerCloses, ServerReads
  <1>5. ASSUME NEW c \in Links, HandlePresence(c) PROVE DueSent' /\ CliIdle'
    <2>1. /\ at[c] = "idle" /\ UNCHANGED <<due, ops>>
          /\ at' = [at EXCEPT ![c] = "idle"] \/ at' = [at EXCEPT ![c] = "applied"]
      BY <1>5 DEF HandlePresence, Next1, Take
    <2> QED  BY <1>0, <1>1, <2>1 DEF DueSent
  <1>6. ASSUME NEW c \in Links, HandleJoined(c) PROVE DueSent' /\ CliIdle'
    <2>1. /\ at' = [at EXCEPT ![c] = "permissions"] /\ ops' = ops
          /\ \E v : due' = [due EXCEPT ![c] = v]
      BY <1>6 DEF HandleJoined, ApplyAll
    <2> QED  BY <1>0, <1>1, <2>1
  <1>7. ASSUME NEW c \in Links, HandleJoinedFails(c) \/ HandleQuit(c) \/ HandleSubmit(c) \/ QueueCommand(c)
        PROVE  DueSent' /\ CliIdle'
    <2>1. /\ at[c] \in {"applied", "idle", "captured"} /\ UNCHANGED <<due, ops>>
          /\ at' = [at EXCEPT ![c] = "idle"] \/ at' = [at EXCEPT ![c] = "captured"]
      BY <1>7 DEF HandleJoinedFails, HandleQuit, HandleSubmit, QueueCommand, Next1
    <2> QED  BY <1>0, <1>1, <2>1 DEF DueSent
  <1>8. ASSUME NEW c \in Links, HandleConsole(c) PROVE DueSent' /\ CliIdle'
    <2>1. /\ at' = [at EXCEPT ![c] = "permissions"] /\ ops' = ops
          /\ due' = due \/ \E v : due' = [due EXCEPT ![c] = v]
      BY <1>8 DEF HandleConsole, Operation, OperationApplies, OperationStops, ApplyAll, Take
    <2> QED  BY <1>0, <1>1, <2>1
  <1>9. ASSUME NEW kind \in {"add", "remove"}, NEW p \in Players, CliOperation(kind, p)
        PROVE  DueSent' /\ CliIdle'
    <2>1. /\ at' = [at EXCEPT ![0] = "permissions"] /\ ops' = [ops EXCEPT !.cli = @ + 1]
          /\ due' = due \/ \E v : due' = [due EXCEPT ![0] = v]
      BY <1>9 DEF CliOperation, Operation, OperationApplies, OperationStops, ApplyAll
    <2>2. \A t \in Threads : t # 0 => at'[t] = at[t] /\ due'[t] = due[t]  BY <1>0, <2>1
    <2>3. at'[0] = "permissions" /\ ops'.cli # 0  BY <1>0, <2>1
    <2> QED  BY <2>2, <2>3 DEF DueSent, CliIdle
  <1>10. ASSUME NEW t \in Threads, PermissionsSent(t) PROVE DueSent' /\ CliIdle'
    <2>1. at' = [at EXCEPT ![t] = "idle"] /\ due[t] = NoDue /\ UNCHANGED <<due, ops>>
      BY <1>10 DEF PermissionsSent
    <2>2. \A x \in Threads : at'[x] # "permissions" => due'[x] = NoDue  BY <1>0, <2>1 DEF DueSent
    <2>3. ops'.cli = 0 => at'[0] = "idle"  BY <1>0, <2>1 DEF CliIdle
    <2> QED  BY <2>2, <2>3 DEF DueSent, CliIdle
  <1>11. ASSUME NEW t \in Threads, NEW p \in Players, SendPermission(t, p) PROVE DueSent' /\ CliIdle'
    <2>1. at[t] = "permissions" /\ due' = [due EXCEPT ![t][p] = "no"] /\ UNCHANGED <<at, ops>>
      BY <1>11 DEF SendPermission
    <2>2. \A x \in Threads : at'[x] # "permissions" => due'[x] = due[x]  BY <1>0, <2>1
    <2> QED  BY <2>1, <2>2 DEF DueSent, CliIdle
  <1>12. CASE Deliver \/ (\E c \in Links : PluginApplies(c) \/ PluginGivesUp(c)) \/ Execute
    <2>1. UNCHANGED <<at, due>>  BY <1>12 DEF Deliver, PluginApplies, PluginGivesUp, Execute
    <2>2. ops'.cli = ops.cli  BY <1>0, <1>12 DEF Deliver, PluginApplies, PluginGivesUp, Execute
    <2> QED  BY <1>2, <2>1, <2>2
  <1> QED  BY <1>3, <1>4, <1>5, <1>6, <1>7, <1>8, <1>9, <1>10, <1>11, <1>12 DEF Next, OrderedThread

LEMMA ComingTail ==
  ASSUME NEW s \in Seq(Req), s # <<>>, NEW p, Coming(s, p)
  PROVE  Brings(Head(s), p) \/ Coming(Tail(s), p)
  <1>1. /\ Head(s) = s[1] /\ Len(s) \in Nat /\ Len(s) > 0 /\ Len(Tail(s)) = Len(s) - 1
        /\ \A i \in 1 .. Len(Tail(s)) : Tail(s)[i] = s[i + 1]
    BY HeadTailProperties
  <1>2. PICK j \in 1 .. Len(s) : Brings(s[j], p)  BY DEF Coming
  <1>3. CASE j = 1  BY <1>1, <1>2, <1>3
  <1>4. CASE j # 1
    <2>1. j - 1 \in 1 .. Len(Tail(s)) /\ (j - 1) + 1 = j  BY <1>1, <1>4
    <2>2. Tail(s)[j - 1] = s[j]  BY <1>1, <2>1
    <2> QED  BY <1>2, <2>1, <2>2 DEF Coming
  <1> QED  BY <1>3, <1>4

LEMMA ComingAppend ==
  ASSUME NEW s \in Seq(Req), NEW r \in Req, NEW p, Coming(s, p) \/ Brings(r, p)
  PROVE  Coming(Append(s, r), p)
  <1> DEFINE a == Append(s, r)
  <1>1. /\ Len(a) = Len(s) + 1 /\ Len(s) \in Nat /\ a[Len(s) + 1] = r
        /\ \A i \in 1 .. Len(s) : a[i] = s[i]
    BY AppendProperties
  <1> HIDE DEF a
  <1>2. CASE Coming(s, p)  BY <1>1, <1>2 DEF Coming, a
  <1>3. CASE Brings(r, p)
    <2>1. Len(s) + 1 \in 1 .. Len(a)  BY <1>1
    <2> QED  BY <1>1, <1>3, <2>1 DEF Coming, a
  <1> QED  BY <1>2, <1>3

(* Who is in game and not about to be brought is known.                    *)
LEMMA InGameIsKnown ==
  ASSUME LinkTypes, OneLink, PresenceComes, WhoReturns, Live, NEW p \in ingame, ~Coming(Stream, p)
  PROVE  Known(p)
  <1>1. p \in Players /\ seen[p] # 0  BY DEF LinkTypes, BdsTypes
  <1>2. Stream \in Seq(Req) /\ Len(Stream) \in Nat  BY LastIsLink DEF Live
  <1>3. \A j \in 1 .. Len(Stream) : ~Brings(Stream[j], p)  BY DEF Coming
  <1>4. ASSUME NEW j \in 1 .. Len(Stream) PROVE ~Tells(Stream[j], p)
    <2>1. SUFFICES ASSUME Tells(Stream[j], p) PROVE FALSE  OBVIOUS
    <2>2. Returns(Stream, p)  BY DEF WhoReturns
    <2>3. PICK i \in j + 1 .. Len(Stream) : Brings(Stream[i], p)
      BY <1>3, <2>1, <2>2 DEF Returns
    <2> QED  BY <1>2, <1>3, <2>3
  <1>5. Follows(Stream, Len(Stream) + 1, p, rec[p].session, Truth(p))  BY <1>1 DEF PresenceComes
  <1>6. (Len(Stream) + 1) - 1 = Len(Stream)  BY <1>2
  <1>7. rec[p].session = Truth(p)  BY <1>4, <1>5, <1>6 DEF Follows
  <1> QED  BY <1>1, <1>7 DEF Truth, OneLink

LEMMA LastIsWeaker ==
  ASSUME NEW q, NEW p, NEW fine, NEW now, NEW v, LastIs(q, p, fine, v), fine => now
  PROVE  LastIs(q, p, now, v)
  BY DEF LastIs

(* What does not touch the permission of p leaves it coming, and giving up *)
(* on it excuses it.                                                       *)
LEMMA PermissionSame ==
  ASSUME NEW p \in Players, PermissionComes(p), made' = made, Way' = Way,
         p \in unsent => p \in unsent', p \in lost => p \in lost',
         attach'[p] = attach[p] \/ p \in lost',
         due'[made][p] = due[made][p], status'[p] = status[p]
  PROVE  PermissionComes(p)'
  <1>1. Allowed(p)' = Allowed(p) /\ (Right(p) => Right(p)')  BY DEF Allowed, Right
  <1>2. LastIs(Way, p, Right(p), Allowed(p)) => LastIs(Way', p, Right(p)', Allowed(p)')
    BY <1>1, LastIsWeaker
  <1> QED  BY <1>1, <1>2 DEF PermissionComes

LEMMA BdsDecided ==
  ASSUME LinkTypes, LinkTypes', OneLink, Decided, Bds, Live', ops'.cli = 0, NEW p \in ingame'
  PROVE  Settling(p)' \/ PermissionComes(p)'
  <1>0. p \in Players /\ seen'[p] # 0  BY DEF LinkTypes, BdsTypes
  <1>1. ~Handshake
    <2>1. SUFFICES ASSUME Handshake PROVE FALSE  OBVIOUS
    <2>2. plive' = 0 /\ link' # 0  BY <2>1 DEF Handshake, Live
    <2> QED  BY <2>2 DEF Live
  <1>2. /\ link' = link /\ made' = made /\ link # 0
        /\ UNCHANGED <<out, lost, unsent, due, status, at, task>>
    BY <1>1 DEF permVars, Bds, PlayerJoins, PlayerQuits, PlayerTypes, ConsoleTypes, BdsRestarts, PluginNotices,
                GoLive, GoLiveFails, linkVars, authVars, Live
  <1>3. ops.cli = 0
    BY <1>1 DEF LinkTypes, QueueTypes,
                Bds, PlayerJoins, PlayerQuits, PlayerTypes, ConsoleTypes, BdsRestarts, PluginNotices,
                GoLive, GoLiveFails
  <1>4. p \in ingame => attach'[p] = attach[p]
    BY <1>0, <1>1, <1>2
       DEF LinkTypes, BdsTypes, Live, Bds, PlayerJoins, PlayerQuits, PlayerTypes, ConsoleTypes,
           BdsRestarts, PluginNotices, GoLive, GoLiveFails, bdsVars
  <1>8. Way' = Way
    <2>1. ~BdsRestarts
      BY <1>1, <1>2 DEF Live, BdsRestarts
    <2>2. asked' = asked
      BY <1>1, <2>1
         DEF permVars, Bds, PlayerJoins, PlayerQuits, PlayerTypes, ConsoleTypes, PluginNotices, GoLive, GoLiveFails
    <2> QED  BY <1>2, <2>2 DEF Way
  <1>5. PermissionComes(p) /\ p \in ingame => PermissionComes(p)'
    BY <1>0, <1>2, <1>4, <1>8, PermissionSame
  <1>6. CASE Rests
    <2>1. Live /\ p \in ingame /\ Stream' = Stream  BY <1>6 DEF Rests
    <2>2. Settling(p) => Settling(p)'  BY <1>2, <2>1 DEF Settling
    <2> QED  BY <1>3, <1>5, <2>1, <2>2 DEF Decided
  <1>7. ASSUME NEW r \in Req, Grows(r) PROVE Settling(p)' \/ PermissionComes(p)'
    <2>1. Stream \in Seq(Req) /\ Stream' = Append(Stream, r)  BY <1>2, <1>7, LastIsLink DEF Grows
    <2>2. IF Tells(r, p) THEN Says(r, p) = Truth(p)' ELSE Live /\ Truth(p)' = Truth(p)
      BY <1>0, <1>7 DEF Grows
    <2>3. Truth(p)' # 0  BY <1>0 DEF Truth
    <2>4. CASE Tells(r, p)
      <3>1. Coming(Stream', p)  BY <2>1, <2>2, <2>3, <2>4, ComingAppend DEF Says
      <3> QED  BY <3>1 DEF Settling
    <2>5. CASE ~Tells(r, p)
      <3>1. Live /\ p \in ingame  BY <2>2, <2>3, <2>5 DEF Truth
      <3>2. Coming(Stream, p) => Coming(Stream', p)  BY <2>1, ComingAppend
      <3>3. Settling(p) => Settling(p)'  BY <1>2, <3>2 DEF Settling
      <3> QED  BY <1>3, <1>5, <3>1, <3>3 DEF Decided
    <2> QED  BY <2>4, <2>5
  <1> QED  BY <1>1, <1>2, <1>6, <1>7, BdsShapes

LEMMA OrderedDecided ==
  ASSUME LinkTypes, LinkTypes', OneLink, PresenceComes, DueSent, WhoReturns, Decided,
         NEW c \in Links, OrderedThread(c), Live', ops'.cli = 0, NEW p \in ingame'
  PROVE  Settling(p)' \/ PermissionComes(p)'
  <1>1. c = made /\ made \in Links /\ made \in Threads
    BY OfTheLast, LinkAssumption DEF Links, Threads, LinkAssumption
  <1>2. UNCHANGED <<link, made, plive, sock, ingame, seen, attach, out, asked, lost, wire>>
    BY DEF OrderedThread, HandlePresence, HandleJoined, HandleJoinedFails, HandleQuit, HandleSubmit, QueueCommand,
           HandleConsole, linkVars, bdsVars, pathVars, permVars
  <1>3. ops.cli = 0
    BY DEF OrderedThread, HandlePresence, HandleJoined, HandleJoinedFails, HandleQuit, HandleSubmit, QueueCommand,
           HandleConsole
  <1>4. Live /\ link # 0 /\ p \in ingame /\ p \in Players
    BY <1>2 DEF Live, LinkTypes, BdsTypes
  <1>5. Settling(p) \/ PermissionComes(p)  BY <1>3, <1>4 DEF Decided
  <1>6. Stream \in Seq(Req)  BY <1>4, LastIsLink
  <1>7. /\ at \in [Threads -> {"idle", "applied", "captured", "permissions"}]
        /\ task \in [Threads -> Req \cup Cmd \cup {NoTask}]
        /\ due \in [Threads -> [Players -> PermissionValues]]
    BY DEF LinkTypes, ThreadTypes
  <1>13. Way' = Way  BY <1>2 DEF Way
  <1>8. CASE HandlePresence(c)
    <2>1. /\ at[made] = "idle" /\ ordered[made] # <<>>
          /\ ordered' = [ordered EXCEPT ![made] = Tail(@)]
          /\ task' = [task EXCEPT ![made] = Head(ordered[made])]
          /\ at' = [at EXCEPT ![made] = "applied"]
          /\ UNCHANGED <<due, status, unsent>>
      BY <1>1, <1>4, <1>8 DEF HandlePresence, Next1, Take, authVars
    <2>2. /\ Stream # <<>> /\ Head(Stream) = Head(ordered[made]) /\ Stream' = Tail(Stream)
      BY <1>1, <1>2, <2>1, HeadHandled
    <2>3. at'[made] = "applied" /\ task'[made] = Head(Stream)  BY <1>1, <1>7, <2>1, <2>2
    <2>4. CASE Coming(Stream, p)
      <3>1. Brings(Head(Stream), p) \/ Coming(Stream', p)  BY <1>6, <2>2, <2>4, ComingTail
      <3> QED  BY <1>2, <2>3, <3>1 DEF Settling
    <2>5. CASE ~Coming(Stream, p)
      <3>1. PermissionComes(p)  BY <1>5, <2>1, <2>5 DEF Settling
      <3> QED  BY <1>2, <1>4, <1>13, <2>1, <3>1, PermissionSame
    <2> QED  BY <2>4, <2>5
  <1>9. CASE HandleJoined(c)
    <2>1. /\ at[made] = "applied" /\ task[made].kind \in {"snapshot", "join"}
          /\ \E new \in SUBSET {q \in task[made].who : status[q] = "none"} :
               status' = Enrolled(new)
          /\ ApplyAll(made, task[made].who, Remembered(task[made]))
          /\ ordered' = ordered
      BY <1>1, <1>9 DEF HandleJoined, pathVars
    <2>2. task[made].who \in SUBSET Players  BY <1>1, <2>1 DEF LinkTypes, ThreadTypes, Req
    <2>3. Remembered(task[made]) \in [Players -> BOOLEAN]  BY DEF Remembered, LinkTypes, AuthTypes
    <2>4. Decides(made, task[made].who)  BY <1>1, <2>1, <2>2, <2>3, LinkAssumption, ApplyDoes
    <2>5. Stream' = Stream  BY <1>2, <2>1 DEF Stream
    <2>6. CASE Coming(Stream, p)  BY <2>5, <2>6 DEF Settling
    <2>7. CASE ~Coming(Stream, p) /\ p \in task[made].who
      <3>1. Known(p)  BY <1>4, <2>7, InGameIsKnown
      <3>2. due'[made][p] = IF status'[p] = "allowed" THEN "on" ELSE "off"
        BY <1>4, <2>4, <2>7, <3>1 DEF Decides
      <3> QED  BY <1>2, <3>2 DEF PermissionComes, Allowed
    <2>8. CASE ~Coming(Stream, p) /\ p \notin task[made].who
      <3>1. PermissionComes(p)  BY <1>5, <2>8 DEF Settling, Brings
      <3>2. due'[made][p] = "no"  BY <1>4, <2>4, <2>8 DEF Decides
      <3>3. due[made][p] = "no"  BY <1>1, <1>4, <2>1 DEF DueSent, NoDue
      <3>4. status'[p] = status[p]  BY <1>4, <2>1, <2>8 DEF Enrolled
      <3>5. p \in unsent => p \in unsent'  BY <2>4, <2>8 DEF Decides
      <3> QED  BY <1>2, <1>4, <1>13, <3>1, <3>2, <3>3, <3>4, <3>5, PermissionSame
    <2> QED  BY <2>6, <2>7, <2>8
  <1>10. CASE HandleQuit(c) \/ QueueCommand(c)
    <2>1. /\ UNCHANGED <<status, due, ordered, unsent>>
          /\ at[made] = "applied" => task[made].kind = "quit"
      BY <1>1, <1>10 DEF HandleQuit, QueueCommand, authVars, pathVars
    <2>2. Stream' = Stream  BY <1>2, <2>1 DEF Stream
    <2>3. CASE Coming(Stream, p)  BY <2>2, <2>3 DEF Settling
    <2>4. CASE ~Coming(Stream, p)
      <3>1. PermissionComes(p)  BY <1>5, <2>1, <2>4 DEF Settling, Brings
      <3> QED  BY <1>2, <1>4, <1>13, <2>1, <3>1, PermissionSame
    <2> QED  BY <2>3, <2>4
  <1>11. CASE HandleSubmit(c)
    <2>1. /\ at[made] = "idle" /\ ordered[made] # <<>> /\ Head(ordered[made]).kind = "submit"
          /\ ordered' = [ordered EXCEPT ![made] = Tail(@)] /\ UNCHANGED <<status, due, unsent>>
      BY <1>1, <1>11 DEF HandleSubmit, Next1, authVars
    <2>2. Stream # <<>> /\ Head(Stream) = Head(ordered[made]) /\ Stream' = Tail(Stream)
      BY <1>1, <1>2, <2>1, HeadHandled
    <2>3. CASE Coming(Stream, p)
      <3>1. Coming(Stream', p)  BY <1>6, <2>1, <2>2, <2>3, ComingTail DEF Brings
      <3> QED  BY <3>1 DEF Settling
    <2>4. CASE ~Coming(Stream, p)
      <3>1. PermissionComes(p)  BY <1>5, <2>1, <2>4 DEF Settling
      <3> QED  BY <1>2, <1>4, <1>13, <2>1, <3>1, PermissionSame
    <2> QED  BY <2>3, <2>4
  <1>12. CASE HandleConsole(c)
    <2>1. /\ at[made] = "idle" /\ ordered[made] # <<>> /\ Head(ordered[made]).kind \in {"add", "remove"}
          /\ ordered' = [ordered EXCEPT ![made] = Tail(@)]
          /\ \E q \in Head(ordered[made]).who : Operation(made, Head(ordered[made]).kind, q)
      BY <1>1, <1>12 DEF HandleConsole, Next1, Take
    <2>2. Stream # <<>> /\ Head(Stream) = Head(ordered[made]) /\ Stream' = Tail(Stream)
      BY <1>1, <1>2, <2>1, HeadHandled
    <2>3. CASE Coming(Stream, p)
      <3>1. Coming(Stream', p)  BY <1>6, <2>1, <2>2, <2>3, ComingTail DEF Brings
      <3> QED  BY <3>1 DEF Settling
    <2>4. CASE ~Coming(Stream, p)
      <3>1. PermissionComes(p)  BY <1>5, <2>1, <2>4 DEF Settling
      <3>2. Known(p)  BY <1>4, <2>4, InGameIsKnown
      <3>3. Head(ordered[made]).who \in SUBSET Players
        BY <1>1, <2>1, HeadIsRequest DEF Req, LinkTypes
      <3>4. PICK q \in Players : Operation(made, Head(ordered[made]).kind, q)  BY <2>1, <3>3
      <3>5. Withholds \/ Decides(made, {x \in Players : Known(x)})
        BY <1>1, <3>4, LinkAssumption, OperationDoes
      <3>6. CASE Withholds
        <4>1. due' = due /\ (p \in unsent => p \in unsent') /\ (status'[p] = status[p] \/ p \in unsent')
          BY <1>4, <3>6 DEF Withholds
        <4>2. CASE p \in unsent'  BY <4>2 DEF PermissionComes
        <4>3. CASE status'[p] = status[p]  BY <1>2, <1>4, <1>13, <3>1, <4>1, <4>3, PermissionSame
        <4> QED  BY <4>1, <4>2, <4>3
      <3>7. CASE Decides(made, {x \in Players : Known(x)})
        <4>1. due'[made][p] = IF status'[p] = "allowed" THEN "on" ELSE "off"
          BY <1>4, <3>2, <3>7 DEF Decides
        <4> QED  BY <1>2, <4>1 DEF PermissionComes, Allowed
      <3> QED  BY <3>5, <3>6, <3>7
    <2> QED  BY <2>3, <2>4
  <1>14. CASE HandleJoinedFails(c)
    <2>1. PICK new \in SUBSET task[made].who : status' = Enrolled(new)
      BY <1>1, <1>14 DEF HandleJoinedFails
    <2>2. unsent' = unsent \cup task[made].who /\ due' = due /\ ordered' = ordered
      BY <1>1, <1>14 DEF HandleJoinedFails, pathVars
    <2>3. Stream' = Stream  BY <1>2, <2>2 DEF Stream
    <2>4. CASE Coming(Stream, p)  BY <2>3, <2>4 DEF Settling
    <2>5. CASE p \in task[made].who  BY <2>2, <2>5 DEF PermissionComes
    <2>6. CASE ~Coming(Stream, p) /\ p \notin task[made].who
      <3>1. PermissionComes(p)  BY <1>5, <2>6 DEF Settling, Brings
      <3>2. status'[p] = status[p]  BY <1>4, <2>1, <2>6 DEF Enrolled
      <3> QED  BY <1>2, <1>4, <1>13, <2>2, <3>1, <3>2, PermissionSame
    <2> QED  BY <2>4, <2>5, <2>6
  <1> QED  BY <1>8, <1>9, <1>10, <1>11, <1>12, <1>14 DEF OrderedThread

LEMMA OthersDecided ==
  ASSUME LinkTypes, LinkTypes', OneLink, CliIdle, Decided, Live', ops'.cli = 0, NEW p \in ingame',
         \/ \E c \in Links : SocketBreaks(c) \/ ServerCloses(c) \/ ServerReads(c)
         \/ \E kind \in {"add", "remove"}, x \in Players : CliOperation(kind, x)
         \/ \E t \in Threads : PermissionsSent(t) \/ \E x \in Players : SendPermission(t, x)
         \/ Deliver \/ (\E c \in Links : PluginApplies(c) \/ PluginGivesUp(c)) \/ Execute
  PROVE  Settling(p)' \/ PermissionComes(p)'
  <1>0. /\ ops \in [typed : Nat, console : Nat, cli : Nat, ran : Nat] /\ ops.cli \in Nat
        /\ at \in [Threads -> {"idle", "applied", "captured", "permissions"}]
        /\ task \in [Threads -> Req \cup Cmd \cup {NoTask}]
        /\ due \in [Threads -> [Players -> PermissionValues]]
        /\ out \in Seq(Permission) /\ asked \in [Links -> Seq(Permission)] /\ attach \in [Players -> {"none", "on", "off"}]
        /\ status \in [Players -> {"none", "allowed", "revoked"}]
    BY DEF LinkTypes, QueueTypes, ThreadTypes, BdsTypes, AuthTypes
  <1>1. ~(\E kind \in {"add", "remove"}, x \in Players : CliOperation(kind, x))
    BY <1>0 DEF CliOperation
  <1>2. ops.cli = 0
    BY <1>0, <1>1 DEF SocketBreaks, ServerCloses, ServerReads, PermissionsSent, SendPermission, Deliver, PluginApplies, PluginGivesUp, Execute
  <1>3. /\ made' = made /\ UNCHANGED <<plive, ingame, seen, status>>
        /\ link' = link \/ link' = 0
    BY <1>1 DEF SocketBreaks, ServerCloses, Closed, ServerReads, PermissionsSent, SendPermission, Deliver,
                PluginApplies, PluginGivesUp, Execute, linkVars, bdsVars, authVars, presVars
  <1>4. link' = link /\ link # 0 /\ link = made /\ made \in Links /\ made \in Threads /\ made # 0
    <2>1. link' = link /\ link # 0  BY <1>3 DEF Live
    <2> QED  BY <2>1, LastIsLink, LinkAssumption DEF Links, Threads, LinkAssumption
  <1>5. \A c \in Links : ServerCloses(c) => c # made
    BY <1>4 DEF ServerCloses, Closed
  <1>6. Live
    <2>1. sock' = sock \/ \E c \in Links : sock' = [sock EXCEPT ![c] = FALSE]
      BY <1>1 DEF SocketBreaks, ServerCloses, ServerReads, PermissionsSent, SendPermission, Deliver,
                  PluginApplies, PluginGivesUp, Execute, linkVars
    <2>2. sock'[made] => sock[made]  BY <1>4, <2>1 DEF LinkTypes, SocketTypes
    <2> QED  BY <1>3, <1>4, <2>2 DEF Live
  <1>7. p \in ingame /\ p \in Players  BY <1>3 DEF LinkTypes, BdsTypes
  <1>8. Settling(p) \/ PermissionComes(p)  BY <1>2, <1>6, <1>7 DEF Decided
  <1>9. Stream' = Stream
    <2>1. CASE UNCHANGED <<wire, ordered>>  BY <1>3, <2>1 DEF Stream
    <2>2. ASSUME NEW c \in Links, ServerCloses(c) PROVE Stream' = Stream
      BY <1>3, <1>4, <1>5, <2>2 DEF ServerCloses, Stream, LinkTypes, PathTypes
    <2>3. ASSUME NEW c \in Links, ServerReads(c) PROVE Stream' = Stream
      <3>1. c = made  BY <2>3, OfTheLast
      <3>2. /\ wire[made] # <<>> /\ ordered' = [ordered EXCEPT ![made] = Append(@, Head(wire[made]))]
            /\ wire' = [wire EXCEPT ![made] = Tail(@)]
        BY <2>3, <3>1 DEF ServerReads
      <3> DEFINE o == ordered[made]
                 w == wire[made]
      <3>3. o \in Seq(Req) /\ w \in Seq(Req) /\ w # <<>>  BY <1>4, <3>2 DEF LinkTypes, PathTypes
      <3>4. Stream = o \o w  BY DEF Stream
      <3>5. Stream' = Append(o, Head(w)) \o Tail(w)
        BY <1>3, <1>4, <3>2 DEF Stream, LinkTypes, PathTypes
      <3> HIDE DEF o, w
      <3> QED  BY <3>3, <3>4, <3>5, StreamMove
    <2> QED
      BY <1>1, <2>1, <2>2, <2>3
         DEF SocketBreaks, PermissionsSent, SendPermission, Deliver, PluginApplies, PluginGivesUp, Execute, pathVars
  <1>10. ASSUME UNCHANGED <<at, task>> \/ \E t \in Threads : PermissionsSent(t)
         PROVE  Settling(p) => Settling(p)'
    <2>1. at[made] = "applied" => at'[made] = "applied" /\ task'[made] = task[made]
      BY <1>0, <1>4, <1>10 DEF PermissionsSent
    <2> QED  BY <1>3, <1>9, <2>1 DEF Settling
  <1>11. ASSUME UNCHANGED <<permVars, attach, due, unsent>> PROVE PermissionComes(p) => PermissionComes(p)'
    <2>1. Way' = Way /\ lost' = lost  BY <1>3, <1>11 DEF Way, permVars
    <2> QED  BY <1>3, <1>7, <1>11, <2>1, PermissionSame
  <1>17. Way = asked[made] \o out /\ asked[made] \in Seq(Permission) /\ Way \in Seq(Permission)
    BY <1>0, <1>4, ConcatProperties DEF Way
  <1>12. ASSUME NEW c \in Links, SocketBreaks(c) \/ ServerCloses(c) \/ ServerReads(c)
         PROVE  Settling(p)' \/ PermissionComes(p)'
    <2>1. UNCHANGED <<at, task, permVars, attach, due, unsent>>
      BY <1>12 DEF SocketBreaks, ServerCloses, ServerReads, bdsVars
    <2> QED  BY <1>8, <1>10, <1>11, <2>1
  <1>13. ASSUME NEW t \in Threads, PermissionsSent(t) PROVE Settling(p)' \/ PermissionComes(p)'
    <2>1. UNCHANGED <<permVars, attach, due, unsent>>  BY <1>13 DEF PermissionsSent, bdsVars
    <2> QED  BY <1>8, <1>10, <1>11, <1>13, <2>1
  <1>14. ASSUME NEW t \in Threads, NEW x \in Players, SendPermission(t, x)
         PROVE  Settling(p)' \/ PermissionComes(p)'
    <2> DEFINE m == [player |-> x, value |-> due[t][x]]
    <2>1. /\ at[t] = "permissions" /\ due[t][x] # "no"
          /\ out' = Append(out, m) /\ due' = [due EXCEPT ![t][x] = "no"]
          /\ UNCHANGED <<at, task, attach, asked, lost, unsent>>
      BY <1>14 DEF SendPermission, bdsVars
    <2>2. t = made
      <3>1. t # 0  BY <1>2, <2>1 DEF CliIdle
      <3>2. t \in Links  BY <3>1, LinkAssumption DEF Links, Threads, LinkAssumption
      <3> QED  BY <2>1, <3>2 DEF OneLink, Handled
    <2>3. m \in Permission /\ m.player = x /\ m.value = due[made][x]
      BY <1>0, <2>1, <2>2 DEF Permission, PermissionValues
    <2>4. due'[made][x] = "no" /\ \A q \in Players : q # x => due'[made][q] = due[made][q]
      BY <1>0, <1>4, <2>1, <2>2
    <2> HIDE DEF m
    <2>5. Way' = Append(Way, m)
      <3> DEFINE a == asked[made]
      <3>1. /\ a \in Seq(Permission) /\ Way = a \o out /\ Way' = a \o Append(out, m)
        BY <1>3, <1>17, <2>1 DEF Way
      <3> HIDE DEF a
      <3> QED  BY <1>0, <2>3, <3>1, StreamAppend
    <2>6. ASSUME PermissionComes(p) PROVE PermissionComes(p)'
      <3> DEFINE fine == Right(p)
                 v == Allowed(p)
      <3>1. fine \in BOOLEAN /\ v \in BOOLEAN  BY DEF Allowed, Right
      <3>2. Allowed(p)' = v /\ Right(p)' = fine  BY <1>3, <2>1 DEF Allowed, Right
      <3>3. CASE p \in unsent  BY <2>1, <3>3 DEF PermissionComes
      <3>4. CASE p # x /\ due[made][p] # "no"
        BY <1>3, <1>7, <2>1, <2>4, <2>6, <3>2, <3>4 DEF PermissionComes
      <3>5. ASSUME p \notin unsent, p = x \/ due[made][p] = "no" PROVE LastIs(Append(Way, m), p, fine, v)
        <4>1. IF m.player = p THEN (m.value = "on") <=> v ELSE LastIs(Way, p, fine, v)
          BY <2>1, <2>2, <2>3, <2>6, <3>5 DEF PermissionComes
        <4> HIDE DEF fine, v
        <4> QED  BY <1>17, <2>3, <3>1, <4>1, LastIsAppend
      <3>6. CASE p \notin unsent /\ (p = x \/ due[made][p] = "no")
        <4>1. due'[made][p] = "no"  BY <1>7, <2>4, <3>6
        <4>2. LastIs(Way', p, fine, v)  BY <2>5, <3>5, <3>6
        <4> QED  BY <1>3, <3>2, <4>1, <4>2 DEF PermissionComes
      <3> QED  BY <3>3, <3>4, <3>6
    <2> QED  BY <1>8, <1>10, <2>1, <2>6
  <1>15. CASE Deliver
    <2>1. /\ out # <<>> /\ out' = Tail(out) /\ asked' = [asked EXCEPT ![made] = Append(@, Head(out))]
          /\ UNCHANGED <<due, at, task, attach, lost, unsent>>
      BY <1>4, <1>6, <1>15 DEF Deliver, Live, bdsVars
    <2>2. Way' = Append(asked[made], Head(out)) \o Tail(out)
      BY <1>0, <1>3, <1>4, <2>1 DEF Way
    <2>3. Way' = Way  BY <1>0, <1>17, <2>1, <2>2, StreamMove
    <2> QED  BY <1>3, <1>7, <1>8, <1>10, <2>1, <2>3, PermissionSame
  <1>18. ASSUME NEW c \in Links, PluginApplies(c) \/ PluginGivesUp(c), c # made
         PROVE  Settling(p)' \/ PermissionComes(p)'
    <2>1. /\ asked' = [asked EXCEPT ![c] = Tail(@)] /\ UNCHANGED <<out, due, at, task, unsent>>
          /\ \/ attach' = attach /\ lost' = lost
             \/ /\ attach' = Attached(Head(asked[c]).player, Head(asked[c]).value)
                /\ lost' = lost \cup {Head(asked[c]).player}
      BY <1>18 DEF PluginApplies, PluginGivesUp, bdsVars
    <2>2. Way' = Way  BY <1>0, <1>3, <1>4, <1>18, <2>1 DEF Way
    <2>3. (p \in lost => p \in lost') /\ (attach'[p] = attach[p] \/ p \in lost')
      BY <1>0, <1>7, <2>1 DEF Attached
    <2> QED  BY <1>3, <1>7, <1>8, <1>10, <2>1, <2>2, <2>3, PermissionSame
  <1>19. CASE PluginApplies(made) \/ PluginGivesUp(made)
    <2> DEFINE ask == Head(asked[made])
    <2>1. /\ asked[made] # <<>> /\ asked' = [asked EXCEPT ![made] = Tail(@)]
          /\ UNCHANGED <<out, due, at, task, unsent>>
          /\ \/ attach' = Attached(ask.player, ask.value) /\ lost' = lost \ {ask.player}
             \/ attach' = attach /\ lost' = lost \cup {ask.player}
      BY <1>19 DEF PluginApplies, PluginGivesUp, bdsVars
    <2>2. ask \in Permission  BY <1>17, <2>1, HeadTailProperties
    <2>3. Way' = Tail(asked[made]) \o out  BY <1>0, <1>3, <1>4, <2>1 DEF Way
    <2>4. Way # <<>> /\ Head(Way) = ask /\ Way' = Tail(Way)
      <3> DEFINE a == asked[made]
      <3>1. a \in Seq(Permission) /\ a # <<>> /\ Way = a \o out /\ Way' = Tail(a) \o out /\ ask = Head(a)
        BY <1>17, <2>1, <2>3
      <3> HIDE DEF a, ask
      <3> QED  BY <1>0, <3>1, StreamTail
    <2> HIDE DEF ask
    <2>5. ask.player \in Players /\ ask.value \in {"on", "off"}  BY <2>2 DEF Permission
    <2>6. IF ask.player = p THEN (ask.value = "on" <=> Allowed(p)) => Right(p)' ELSE Right(p) => Right(p)'
      <3>1. Allowed(p)' = Allowed(p)  BY <1>3 DEF Allowed
      <3>2. ask.player = p => p \in lost' \/ (attach'[p] = "on" <=> ask.value = "on")
        BY <1>0, <1>7, <2>1, <2>5 DEF Attached
      <3>3. ask.player # p => attach'[p] = attach[p] /\ (p \in lost => p \in lost')
        BY <1>0, <1>7, <2>1, <2>5 DEF Attached
      <3> QED  BY <3>1, <3>2, <3>3 DEF Right
    <2>7. ASSUME PermissionComes(p) PROVE PermissionComes(p)'
      <3> DEFINE fine == Right(p)
                 v == Allowed(p)
      <3>1. fine \in BOOLEAN /\ v \in BOOLEAN  BY DEF Allowed, Right
      <3>2. Allowed(p)' = v  BY <1>3 DEF Allowed
      <3>3. CASE p \in unsent \/ due[made][p] # "no"
        BY <1>3, <2>1, <2>7, <3>2, <3>3 DEF PermissionComes
      <3>4. CASE p \notin unsent /\ due[made][p] = "no"
        <4>1. LastIs(Way, p, fine, v)  BY <2>7, <3>4 DEF PermissionComes
        <4>2. LastIs(Tail(Way), p, IF Head(Way).player = p THEN Head(Way).value = "on" <=> v ELSE fine, v)
          <5> HIDE DEF fine, v
          <5> QED  BY <1>17, <2>4, <3>1, <4>1, LastIsTail
        <4>3. LastIs(Way', p, Right(p)', v)  BY <2>4, <2>6, <4>2, LastIsWeaker
        <4> QED  BY <1>3, <2>1, <3>2, <3>4, <4>3 DEF PermissionComes
      <3> QED  BY <3>3, <3>4
    <2> QED  BY <1>8, <1>10, <2>1, <2>7
  <1>16. CASE Execute
    <2>1. UNCHANGED <<at, task, permVars, attach, due, unsent>>  BY <1>16 DEF Execute, bdsVars
    <2> QED  BY <1>8, <1>10, <1>11, <2>1
  <1> QED  BY <1>1, <1>12, <1>13, <1>14, <1>15, <1>16, <1>18, <1>19

LEMMA PermissionsKept ==
  ASSUME LinkTypes, LinkTypes', OneLink, PresenceComes, PermissionsCome, Overlap = FALSE, Next
  PROVE  PermissionsCome'
  <1>1. DueSent' /\ CliIdle'  BY DueKept DEF PermissionsCome
  <1>2. WhoReturns'  BY ReturnsKept DEF PermissionsCome
  <1>3. Decided'
    <2> SUFFICES ASSUME Live', ops'.cli = 0, NEW p \in ingame' PROVE Settling(p)' \/ PermissionComes(p)'
      BY DEF Decided
    <2>1. DueSent /\ CliIdle /\ WhoReturns /\ Decided  BY DEF PermissionsCome
    <2>2. CASE Bds  BY <2>1, <2>2, BdsDecided
    <2>3. ASSUME NEW c \in Links, OrderedThread(c) PROVE Settling(p)' \/ PermissionComes(p)'
      BY <2>1, <2>3, OrderedDecided
    <2>4. CASE \/ \E c \in Links : SocketBreaks(c) \/ ServerCloses(c) \/ ServerReads(c)
               \/ \E kind \in {"add", "remove"}, x \in Players : CliOperation(kind, x)
               \/ \E t \in Threads : PermissionsSent(t) \/ \E x \in Players : SendPermission(t, x)
               \/ Deliver \/ (\E c \in Links : PluginApplies(c) \/ PluginGivesUp(c)) \/ Execute
      BY <2>1, <2>4, OthersDecided
    <2> QED  BY <2>2, <2>3, <2>4 DEF Next
  <1> QED  BY <1>1, <1>2, <1>3 DEF PermissionsCome

LEMMA StutterKeeps == LinkInv /\ UNCHANGED vars => LinkInv'
  <1> SUFFICES ASSUME LinkInv, UNCHANGED vars PROVE LinkInv'  OBVIOUS
  <1>1. UNCHANGED <<ingame, seen, attach, plive, dial, made, sock, srv, link, joins, rec, status, grev,
                    granted, wire, ordered, at, task, due, out, asked, lost, work, ops, unsent>>
    BY DEF vars, bdsVars, linkVars, presVars, authVars, pathVars, permVars
  <1>2. LinkTypes'
    BY <1>1 DEF LinkInv, LinkTypes, BdsTypes, SocketTypes, PathTypes, PresTypes, AuthTypes, ThreadTypes, QueueTypes, permVars
  <1>3. OneLink'  BY <1>1 DEF LinkInv, OneLink, Handled, Known
  <1>4. SubmitsTrue'  BY <1>1 DEF LinkInv, SubmitsTrue, Stream
  <1>5. PresenceComes'  BY <1>1 DEF LinkInv, PresenceComes, Live, Stream, Truth
  <1>6. CommandsTrue'  BY <1>1 DEF LinkInv, CommandsTrue, CommandTrue, Known
  <1>7. PermissionsCome'
    BY <1>1 DEF LinkInv, PermissionsCome, DueSent, CliIdle, WhoReturns, Decided, Live, Stream, Settling,
                PermissionComes, Way, Right, Allowed
  <1> QED  BY <1>2, <1>3, <1>4, <1>5, <1>6, <1>7 DEF LinkInv

LEMMA LinkStep ==
  ASSUME Overlap = FALSE
  PROVE  LinkInv /\ [Next]_vars => LinkInv'
  <1> SUFFICES ASSUME LinkInv, Next PROVE LinkInv'  BY StutterKeeps
  <1>1. LinkTypes /\ OneLink /\ SubmitsTrue /\ PresenceComes /\ CommandsTrue /\ PermissionsCome
    BY DEF LinkInv
  <1>2. LinkTypes'  BY <1>1, TypesKept
  <1>3. OneLink'  BY <1>1, <1>2, OneLinkKept
  <1>4. SubmitsTrue'  BY <1>1, <1>2, SubmitsKept
  <1>5. PresenceComes'  BY <1>1, <1>2, PresenceKept
  <1>6. CommandsTrue'  BY <1>1, <1>2, <1>3, CommandsKept
  <1>7. PermissionsCome'  BY <1>1, <1>2, PermissionsKept
  <1> QED  BY <1>2, <1>3, <1>4, <1>5, <1>6, <1>7 DEF LinkInv

LEMMA LinkHolds ==
  ASSUME Overlap = FALSE
  PROVE  Spec => []LinkInv
  <1>1. LinkInv /\ [Next]_vars => LinkInv'  BY LinkStep
  <1> QED  BY <1>1, InitLink, PTL DEF Spec

-----------------------------------------------------------------------------
(* Theorems.                                                               *)

LEMMA NothingComes ==
  ASSUME LinkInv, Settled
  PROVE  Live /\ Stream = <<>> /\ made \in Links /\ made \in Threads /\ at[made] = "idle"
  <1>1. link # 0 /\ LinkTypes /\ Live  BY DEF LinkInv, Settled, Live
  <1>2. made \in Links /\ made \in Threads
    BY <1>1, LastIsLink, LinkAssumption DEF Links, Threads, LinkAssumption
  <1>3. wire[made] = <<>> /\ ordered[made] = <<>> /\ at[made] = "idle"
    BY <1>2 DEF Settled, Handled
  <1>4. <<>> \o <<>> = <<>>
    <2>1. <<>> \in Seq(Req)  OBVIOUS
    <2> QED  BY <2>1, ConcatEmptySeq
  <1> QED  BY <1>1, <1>2, <1>3, <1>4 DEF Stream

(* For any number of players and links: whenever nothing is in flight on   *)
(* the link, endbotd knows exactly the players in game, in the session     *)
(* each is in (LinkServer._presence, Presence.apply and _go_live).         *)
THEOREM PresenceStaysTrue ==
  ASSUME Overlap = FALSE
  PROVE  Spec => []PresenceIsTrue
  <1>1. LinkInv => PresenceIsTrue
    <2> SUFFICES ASSUME LinkInv, Settled, NEW p \in Players
                 PROVE  rec[p].session = IF p \in ingame THEN seen[p] ELSE 0
      BY DEF PresenceIsTrue
    <2>1. Live /\ Stream = <<>>  BY NothingComes
    <2>2. Follows(Stream, Len(Stream) + 1, p, rec[p].session, Truth(p))
      BY <2>1 DEF LinkInv, PresenceComes
    <2>3. \A j \in 1 .. (Len(Stream) + 1) - 1 : FALSE  BY <2>1
    <2>4. rec[p].session = Truth(p)  BY <2>2, <2>3 DEF Follows
    <2> QED  BY <2>4 DEF Truth
  <1>2. Spec => []LinkInv  BY LinkHolds
  <1> QED  BY <1>1, <1>2, PTL

(* With operations from the console only, whenever nothing is in flight a  *)
(* player in game has the control attachment exactly when the authority    *)
(* allows it, unless the plugin gave up on the last permission or a failed *)
(* write kept it from being sent: endbotd only logs either one             *)
(* (Authority._apply, EndbotService._send_permissions and the plugin's     *)
(* _apply_permission).                                                     *)
THEOREM PermissionsStayInOrder ==
  ASSUME Overlap = FALSE
  PROVE  Spec => []ConsolePermissionsConverge
  <1>1. LinkInv => ConsolePermissionsConverge
    <2> SUFFICES ASSUME LinkInv, ops.cli = 0, Settled, NEW p \in ingame \ (lost \cup unsent)
                 PROVE  (attach[p] = "on") <=> Allowed(p)
      BY DEF ConsolePermissionsConverge, PermissionsConverge
    <2>1. Live /\ Stream = <<>> /\ made \in Threads /\ at[made] = "idle"  BY NothingComes
    <2>2. p \in Players /\ DueSent /\ Decided
      BY DEF LinkInv, LinkTypes, BdsTypes, PermissionsCome
    <2>3. ~Settling(p)  BY <2>1 DEF Settling, Coming
    <2>4. PermissionComes(p)  BY <2>1, <2>2, <2>3 DEF Decided
    <2>5. due[made][p] = "no"  BY <2>1, <2>2 DEF DueSent, NoDue
    <2>6. LastIs(Way, p, Right(p), Allowed(p))  BY <2>4, <2>5 DEF PermissionComes
    <2>7. Way = <<>>
      <3>1. link = made  BY <2>1, LastIsLink DEF LinkInv, Live
      <3>2. asked[made] = <<>> /\ out = <<>>  BY <3>1 DEF Settled
      <3>3. <<>> \in Seq(Permission)  OBVIOUS
      <3> QED  BY <3>2, <3>3, ConcatEmptySeq DEF Way
    <2>8. \A j \in 1 .. Len(Way) : FALSE  BY <2>7
    <2>9. Right(p)  BY <2>6, <2>8 DEF LastIs
    <2> QED  BY <2>9 DEF Right
  <1>2. Spec => []LinkInv  BY LinkHolds
  <1> QED  BY <1>1, <1>2, PTL

(* A command only runs in the session of the game it was typed in, however *)
(* many joins, quits, links and permission changes lie between             *)
(* (LinkServer._sender and Authority.authorize).                           *)
THEOREM CommandsRunInTheirSession ==
  ASSUME Overlap = FALSE
  PROVE  Spec => RunsInOwnSession
  <1>1. LinkInv /\ [Next]_vars =>
          [ops'.ran # ops.ran => Head(work).session = rec[Head(work).player].session]_vars
    <2> SUFFICES ASSUME LinkInv, Next, ops'.ran # ops.ran
                 PROVE  Head(work).session = rec[Head(work).player].session
      OBVIOUS
    <2>1. ops \in [typed : Nat, console : Nat, cli : Nat, ran : Nat] /\ work \in Seq(Cmd)
      BY DEF LinkInv, LinkTypes, QueueTypes
    <2>2. Execute
      BY <2>1 DEF Next, Bds, PlayerJoins, PlayerQuits, PlayerTypes, ConsoleTypes, BdsRestarts, PluginNotices,
                  Handshake, GoLive, GoLiveFails, SocketBreaks, ServerCloses, ServerReads, OrderedThread,
                  HandlePresence, HandleJoined, HandleJoinedFails, HandleQuit, HandleSubmit, QueueCommand, HandleConsole,
                  CliOperation, PermissionsSent, SendPermission, Deliver, PluginApplies, PluginGivesUp
    <2>3. work # <<>> /\ Authorized(Head(work))  BY <2>2 DEF Execute
    <2>4. 1 \in DOMAIN work /\ Head(work) = work[1]  BY <2>1, <2>3
    <2>5. CommandTrue(Head(work))  BY <2>4 DEF LinkInv, CommandsTrue
    <2> QED  BY <2>3, <2>5 DEF Authorized, CommandTrue
  <1>2. Spec => []LinkInv  BY LinkHolds
  <1> QED  BY <1>1, <1>2, PTL DEF Spec, RunsInOwnSession

=============================================================================
