----------------------------- MODULE WebProofs ------------------------------
(***************************************************************************)
(* Proofs about Web, for any number of workers, connections and requests   *)
(* and any limits: the rate window counts exactly the open connections,    *)
(* and neither a revoked session nor a removed account works again.        *)
(***************************************************************************)
EXTENDS Web, FiniteSetTheorems, TLAPS

(* The rate window.  Connection ids tell the entries of the link's tables  *)
(* apart, so forgetting one connection frees no other one's place.         *)
Place(c) == <<c.tok, c.conn>>

Places == {Place(c) : c \in conns} \cup (IF opening = <<>> THEN {} ELSE {opening})

OpeningKnown ==
  opening # <<>> =>
    /\ \E tok, conn : opening = <<tok, conn>>
    /\ \A c \in conns : c.conn # opening[2]

ConnsApart == \A c, d \in conns : c.conn = d.conn => c = d

PlacesOf(tok) == {p \in window : p[1] = tok}

LimitKept ==
  /\ IsFiniteSet(window)
  /\ \A p \in window : Cardinality(PlacesOf(p[1])) <= MaxConnections

SlotInv == window = Places /\ OpeningKnown /\ ConnsApart /\ LimitKept

(* What a step may do to the link's tables.                                *)
TableStep ==
  \/ UNCHANGED <<opening, conns, window>>
  \/ (\E gone \in SUBSET conns : Drop(gone)) /\ UNCHANGED opening
  \/ opening' = <<>> /\ conns' = {} /\ window' = {}
  \/ Open
  \/ Opened

-----------------------------------------------------------------------------
LEMMA TableSteps ==
  ASSUME [Next]_vars
  PROVE  TableStep
  <1> USE DEF link
  <1>0. ASSUME NEW toks, SessionsRemoved(toks) PROVE TableStep
    BY <1>0 DEF SessionsRemoved, TableStep
  <1>1. ASSUME NEW tok, NEW done, EndSession(tok, done) PROVE TableStep
    BY <1>0, <1>1 DEF EndSession
  <1>2. CASE UNCHANGED vars  BY <1>2 DEF vars, TableStep
  <1>3. ASSUME NEW w \in Workers, Request(w) PROVE TableStep
    <2>1. CASE Touch(w)  BY <2>1, <1>1 DEF Touch, TableStep
    <2>2. CASE Replace(w)  BY <2>2, <1>1 DEF Replace, TableStep
    <2>3. CASE SignOut(w)  BY <2>3, <1>1 DEF SignOut
    <2>4. CASE Ws(w)  BY <2>4 DEF Ws, TableStep
    <2>5. CASE AddPasskey(w) \/ Handle(w)  BY <2>5 DEF AddPasskey, Handle, TableStep
    <2>6. CASE LinkOptions(w) \/ Ensure(w) \/ LoginOptions(w) \/ SiteStart(w) \/ Begin(w)
      BY <2>6 DEF LinkOptions, Ensure, LoginOptions, SiteStart, Begin, TableStep
    <2>7. CASE LinkVerify(w) \/ Limit(w) \/ LoginVerify(w) \/ SiteReturn(w) \/ Issue(w)
      BY <2>7 DEF LinkVerify, Limit, LoginVerify, SiteReturn, Issue, TableStep
    <2>8. CASE Answer(w) \/ RemovePasskey(w) \/ Message(w)
      BY <2>8 DEF Answer, RemovePasskey, Message, TableStep
    <2> QED  BY <1>3, <2>1, <2>2, <2>3, <2>4, <2>5, <2>6, <2>7, <2>8 DEF Request
  <1>4. CASE Discard  BY <1>4, <1>1 DEF Discard
  <1>5. CASE End \/ RemoveAccount \/ RemoveCredentials
    BY <1>5, <1>0 DEF End, RemoveAccount, RemoveCredentials
  <1>6. CASE IssueCode \/ Expire \/ Revoke \/ Grant \/ Decide \/ LinkUp \/ Poll
    BY <1>6 DEF IssueCode, Expire, Revoke, Grant, Decide, LinkUp, Poll, TableStep
  <1>7. CASE Restart \/ Reload \/ LinkLost
    BY <1>7 DEF Restart, Reload, LinkLost, TableStep
  <1>8. CASE Close  BY <1>8 DEF Close, TableStep
  <1>9. CASE Open \/ Opened  BY <1>9 DEF TableStep
  <1> QED  BY <1>2, <1>3, <1>4, <1>5, <1>6, <1>7, <1>8, <1>9 DEF Next

LEMMA InitSlots == Init => SlotInv
  <1> SUFFICES ASSUME Init PROVE SlotInv
    OBVIOUS
  <1>1. IsFiniteSet({})  BY FS_EmptySet
  <1> QED  BY <1>1 DEF Init, SlotInv, Places, Place, OpeningKnown, ConnsApart, LimitKept

(* Fewer places: the limit still holds.                                    *)
LEMMA FewerPlaces ==
  ASSUME LimitKept, window' \subseteq window, WebBounds
  PROVE  LimitKept'
  <1>1. IsFiniteSet(window')  BY FS_Subset DEF LimitKept
  <1>2. ASSUME NEW p \in window' PROVE Cardinality(PlacesOf(p[1])') <= MaxConnections
    <2>1. p \in window /\ PlacesOf(p[1])' \subseteq PlacesOf(p[1])
      BY <1>2 DEF PlacesOf
    <2>2. IsFiniteSet(PlacesOf(p[1]))
      BY FS_Subset DEF LimitKept, PlacesOf
    <2>3. Cardinality(PlacesOf(p[1])') <= Cardinality(PlacesOf(p[1]))
      BY <2>1, <2>2, FS_Subset
    <2>4. Cardinality(PlacesOf(p[1])') \in Nat /\ Cardinality(PlacesOf(p[1])) \in Nat
      BY <2>1, <2>2, FS_Subset, FS_CardinalityType
    <2>5. Cardinality(PlacesOf(p[1])) <= MaxConnections
      BY <2>1 DEF LimitKept
    <2> QED  BY <2>3, <2>4, <2>5, WebBounds
  <1> QED  BY <1>1, <1>2 DEF LimitKept, PlacesOf

LEMMA NextSlots ==
  ASSUME SlotInv, [Next]_vars
  PROVE  SlotInv'
  <1>0. TableStep  BY TableSteps
  <1> USE DEF SlotInv
  <1>1. CASE UNCHANGED <<opening, conns, window>>
    BY <1>1 DEF Places, Place, OpeningKnown, ConnsApart, LimitKept, PlacesOf
  <1>2. ASSUME NEW gone \in SUBSET conns, Drop(gone), UNCHANGED opening PROVE SlotInv'
    <2>1. conns' = conns \ gone /\ window' = window \ {Place(c) : c \in gone}
      BY <1>2 DEF Drop, Place
    <2>2. OpeningKnown' /\ ConnsApart'
      BY <1>2, <2>1 DEF OpeningKnown, ConnsApart
    <2>3. LimitKept'  BY <2>1, FewerPlaces, WebBounds
    <2>4. ASSUME NEW c \in gone, NEW d \in conns \ gone PROVE Place(c) # Place(d)
      BY <2>4 DEF ConnsApart, Place
    <2>5. ASSUME opening # <<>>, NEW c \in gone PROVE Place(c) # opening
      BY <2>5 DEF OpeningKnown, Place
    <2>6. window' = Places'
      BY <1>2, <2>1, <2>4, <2>5 DEF Places
    <2> QED  BY <2>2, <2>3, <2>6
  <1>3. CASE opening' = <<>> /\ conns' = {} /\ window' = {}
    <2>1. LimitKept'  BY <1>3, FewerPlaces, WebBounds
    <2> QED  BY <1>3, <2>1 DEF Places, OpeningKnown, ConnsApart
  <1>4. CASE Open
    <2>1. PICK tok \in held, conn \in Conns :
            /\ opening = <<>> /\ conns' = conns
            /\ \A c \in conns : c.conn # conn
            /\ Cardinality({p \in window : p[1] = tok}) < MaxConnections
            /\ window' = window \cup {<<tok, conn>>}
            /\ opening' = <<tok, conn>>
      BY <1>4 DEF Open
    <2>2. window' = Places' /\ OpeningKnown' /\ ConnsApart'
      BY <2>1 DEF Places, Place, OpeningKnown, ConnsApart
    <2>3. IsFiniteSet(window')  BY <2>1, FS_AddElement DEF LimitKept
    <2>4. ASSUME NEW p \in window' PROVE Cardinality(PlacesOf(p[1])') <= MaxConnections
      <3>1. CASE p[1] = tok
        <4>1. PlacesOf(tok)' = PlacesOf(tok) \cup {<<tok, conn>>}
          BY <2>1 DEF PlacesOf
        <4>2. IsFiniteSet(PlacesOf(tok))  BY FS_Subset DEF LimitKept, PlacesOf
        <4>3. Cardinality(PlacesOf(tok)) \in Nat /\ Cardinality(PlacesOf(tok)) < MaxConnections
          BY <2>1, <4>2, FS_CardinalityType DEF PlacesOf
        <4>4. Cardinality(PlacesOf(tok)') <= Cardinality(PlacesOf(tok)) + 1
          <5>1. \/ Cardinality(PlacesOf(tok)') = Cardinality(PlacesOf(tok))
                \/ Cardinality(PlacesOf(tok)') = Cardinality(PlacesOf(tok)) + 1
            BY <4>1, <4>2, FS_AddElement, Zenon
          <5> QED  BY <4>3, <5>1
        <4>5. Cardinality(PlacesOf(tok)') \in Nat
          BY <4>1, <4>2, FS_AddElement, FS_CardinalityType
        <4> QED  BY <3>1, <4>3, <4>4, <4>5, WebBounds
      <3>2. CASE p[1] # tok
        <4>1. p \in window  BY <2>1, <3>2
        <4>2. PlacesOf(p[1])' = PlacesOf(p[1])  BY <2>1, <3>2 DEF PlacesOf
        <4> QED  BY <4>1, <4>2 DEF LimitKept
      <3> QED  BY <3>1, <3>2
    <2> QED  BY <2>2, <2>3, <2>4 DEF LimitKept, PlacesOf
  <1>5. CASE Opened
    <2>1. opening # <<>> /\ opening' = <<>> /\ window' = window
          /\ conns' = conns \cup {[conn |-> opening[2], tok |-> opening[1], gen |-> gen]}
      BY <1>5 DEF Opened
    <2>2. PICK tok, conn : opening = <<tok, conn>>  BY <2>1 DEF OpeningKnown
    <2> DEFINE new == [conn |-> conn, tok |-> tok, gen |-> gen]
    <2>3. conns' = conns \cup {new} /\ new.conn = conn /\ Place(new) = <<tok, conn>>
      BY <2>1, <2>2 DEF Place
    <2>4. \A c \in conns : c.conn # conn  BY <2>1, <2>2 DEF OpeningKnown
    <2> HIDE DEF new
    <2>5. window' = Places'  BY <2>1, <2>2, <2>3 DEF Places
    <2>6. OpeningKnown' /\ ConnsApart'  BY <2>1, <2>3, <2>4 DEF OpeningKnown, ConnsApart
    <2>7. LimitKept'  BY <2>1, FewerPlaces, WebBounds
    <2> QED  BY <2>5, <2>6, <2>7
  <1> QED  BY <1>0, <1>1, <1>2, <1>3, <1>4, <1>5 DEF TableStep

(* The places a session has in the rate window are its open connections    *)
(* and the one _open has not entered yet, and never more than the limit:   *)
(* sessions_removed, _forget and a lost link free exactly what they close. *)
THEOREM WindowIsExact == Spec => []SlotsExact
  <1>1. SlotInv => SlotsExact
    BY DEF SlotInv, Places, Place, LimitKept, PlacesOf, SlotsExact
  <1> QED  BY <1>1, InitSlots, NextSlots, PTL DEF Spec
-----------------------------------------------------------------------------
(* Sessions.  A revoke raises the revision above that of every session in  *)
(* the store; tokens and revisions are never used again.                   *)
IsSession(s) ==
  s \in [tok : Nat, acct : {s.acct}, via : {s.via}, rev : Nat, created : {s.created},
         expired : {s.expired}]

Made == [entry : Nat, key : Nat, tok : Nat, acct : Nat]

SessionInv ==
  /\ rev \in Nat /\ made \in Made
  /\ \A t \in revoked : t \in Nat /\ t <= made.tok
  /\ \A s \in sessions :
       /\ IsSession(s) /\ s.tok <= made.tok /\ s.rev <= rev
       /\ s.tok \in revoked => s.rev < rev

LEMMA MadeMore ==
  ASSUME made \in Made, NEW n \in Nat
  PROVE  /\ [made EXCEPT !.acct = n] \in Made /\ [made EXCEPT !.acct = n].acct = n
         /\ [made EXCEPT !.acct = n].tok = made.tok
         /\ [made EXCEPT !.tok = n] \in Made /\ [made EXCEPT !.tok = n].tok = n
         /\ [made EXCEPT !.tok = n].acct = made.acct
         /\ [made EXCEPT !.key = n] \in Made /\ [made EXCEPT !.key = n].tok = made.tok
         /\ [made EXCEPT !.key = n].acct = made.acct
         /\ [made EXCEPT !.entry = n] \in Made /\ [made EXCEPT !.entry = n].tok = made.tok
         /\ [made EXCEPT !.entry = n].acct = made.acct
  BY DEF Made

LEMMA SessionExpires ==
  ASSUME NEW s, IsSession(s)
  PROVE  /\ IsSession([s EXCEPT !.expired = TRUE])
         /\ [s EXCEPT !.expired = TRUE].tok = s.tok
         /\ [s EXCEPT !.expired = TRUE].rev = s.rev
  <1> DEFINE e == [s EXCEPT !.expired = TRUE]
  <1>1. /\ e \in [tok : Nat, acct : {s.acct}, via : {s.via}, rev : Nat, created : {s.created},
                  expired : {TRUE}]
        /\ e.tok = s.tok /\ e.rev = s.rev
    BY DEF IsSession
  <1> HIDE DEF e
  <1>2. e.acct = s.acct /\ e.via = s.via /\ e.created = s.created /\ e.expired = TRUE
    BY <1>1
  <1>3. IsSession(e)  BY <1>1, <1>2 DEF IsSession
  <1> QED  BY <1>1, <1>3 DEF e

(* What a step may do to the sessions and the identifiers handed out.      *)
FewerSessions ==
  /\ sessions' \subseteq sessions
  /\ UNCHANGED <<rev, revoked>>
  /\ made' \in Made /\ made'.tok = made.tok

OneExpires ==
  /\ \E s \in sessions : sessions' = (sessions \ {s}) \cup {[s EXCEPT !.expired = TRUE]}
  /\ UNCHANGED <<rev, revoked, made>>

SessionStep ==
  \/ FewerSessions \/ OneExpires \/ Revoke
  \/ \E w \in Workers : Issue(w)

LEMMA SessionSteps ==
  ASSUME SessionInv, [Next]_vars
  PROVE  SessionStep
  <1> USE DEF authority, store, ghosts, SessionStep
  <1>0. made \in Made  BY DEF SessionInv
  <1>1. ASSUME UNCHANGED <<sessions, rev, revoked, made>> PROVE FewerSessions
    BY <1>0, <1>1 DEF FewerSessions
  <1>2. ASSUME NEW tok, NEW done, EndSession(tok, done), UNCHANGED <<rev, revoked, made>>
        PROVE  FewerSessions
    BY <1>0, <1>2 DEF EndSession, FewerSessions
  <1>3. CASE UNCHANGED vars  BY <1>1, <1>3 DEF vars
  <1>4. ASSUME NEW w \in Workers, Request(w) PROVE SessionStep
    <2>1. CASE Touch(w)  BY <2>1, <1>1, <1>2 DEF Touch
    <2>2. CASE Replace(w)  BY <2>2, <1>1, <1>2 DEF Replace
    <2>3. CASE SignOut(w)  BY <2>3, <1>2 DEF SignOut
    <2>4. CASE Ensure(w)
      <3>1. made' = made \/ made' = [made EXCEPT !.acct = made.acct + 1]
        BY <2>4, Zenon DEF Ensure, NewAccountId
      <3>2. made.acct + 1 \in Nat  BY <1>0 DEF Made
      <3>3. made' \in Made /\ made'.tok = made.tok  BY <3>1, <3>2, <1>0, MadeMore
      <3> QED  BY <2>4, <3>3 DEF Ensure, FewerSessions
    <2>5. CASE Begin(w)
      <3>1. made' = made \/ made' = [made EXCEPT !.entry = made.entry + 1]
        BY <2>5, Zenon DEF Begin
      <3>2. made.entry + 1 \in Nat  BY <1>0 DEF Made
      <3>3. made' \in Made /\ made'.tok = made.tok  BY <3>1, <3>2, <1>0, MadeMore
      <3> QED  BY <2>5, <3>3 DEF Begin, FewerSessions
    <2>6. CASE AddPasskey(w)
      <3>1. made' = made \/ made' = [made EXCEPT !.key = made.key + 1]
        BY <2>6, Zenon DEF AddPasskey
      <3>2. made.key + 1 \in Nat  BY <1>0 DEF Made
      <3>3. made' \in Made /\ made'.tok = made.tok  BY <3>1, <3>2, <1>0, MadeMore
      <3> QED  BY <2>6, <3>3 DEF AddPasskey, FewerSessions
    <2>7. CASE LinkOptions(w) \/ LoginOptions(w) \/ SiteStart(w) \/ LinkVerify(w) \/ Limit(w)
      BY <2>7, <1>1 DEF LinkOptions, LoginOptions, SiteStart, LinkVerify, Limit
    <2>8. CASE LoginVerify(w) \/ SiteReturn(w) \/ Answer(w) \/ RemovePasskey(w)
      BY <2>8, <1>1 DEF LoginVerify, SiteReturn, Answer, RemovePasskey
    <2>9. CASE Message(w) \/ Ws(w) \/ Handle(w)
      BY <2>9, <1>1 DEF Message, Ws, Handle
    <2>10. CASE Issue(w)  BY <2>10
    <2> QED
      BY <1>4, <2>1, <2>2, <2>3, <2>4, <2>5, <2>6, <2>7, <2>8, <2>9, <2>10 DEF Request
  <1>5. CASE Discard  BY <1>5, <1>2 DEF Discard
  <1>6. CASE End  BY <1>6, <1>0 DEF End, EndRevoked, FewerSessions
  <1>7. CASE RemoveAccount \/ RemoveCredentials
    BY <1>7, <1>0 DEF RemoveAccount, RemoveCredentials, FewerSessions
  <1>8. CASE Restart  BY <1>8, <1>0 DEF Restart, EndRevoked, FewerSessions
  <1>9. CASE Expire  BY <1>9, <1>1 DEF Expire, OneExpires
  <1>10. CASE IssueCode \/ Grant \/ Decide \/ Reload
    BY <1>10, <1>1 DEF IssueCode, Grant, Decide, Reload
  <1>11. CASE LinkUp \/ LinkLost \/ Open \/ Opened \/ Close \/ Poll
    BY <1>11, <1>1 DEF LinkUp, LinkLost, Open, Opened, Close, Poll
  <1>12. CASE Revoke  BY <1>12
  <1> QED
    BY <1>3, <1>4, <1>5, <1>6, <1>7, <1>8, <1>9, <1>10, <1>11, <1>12 DEF Next

LEMMA InitSessions == Init => SessionInv
  BY DEF Init, SessionInv, Made

LEMMA NextSessions ==
  ASSUME SessionInv, [Next]_vars
  PROVE  SessionInv'
  <1>0. SessionStep  BY SessionSteps
  <1>1. CASE FewerSessions  BY <1>1 DEF FewerSessions, SessionInv
  <1>2. CASE OneExpires
    <2>1. PICK s \in sessions : sessions' = (sessions \ {s}) \cup {[s EXCEPT !.expired = TRUE]}
      BY <1>2 DEF OneExpires
    <2> DEFINE e == [s EXCEPT !.expired = TRUE]
    <2>2. IsSession(e) /\ e.tok = s.tok /\ e.rev = s.rev
      BY SessionExpires DEF SessionInv
    <2>3. sessions' = (sessions \ {s}) \cup {e}  BY <2>1
    <2> HIDE DEF e
    <2> QED  BY <1>2, <2>2, <2>3 DEF OneExpires, SessionInv
  <1>3. CASE Revoke
    <2>1. rev' = rev + 1 /\ revoked' = revoked \cup Tokens /\ UNCHANGED <<sessions, made>>
      BY <1>3 DEF Revoke, store
    <2> QED  BY <2>1 DEF Tokens, SessionInv, IsSession
  <1>4. ASSUME NEW w \in Workers, Issue(w) PROVE SessionInv'
    <2> DEFINE s == [tok |-> made.tok + 1, acct |-> task[w].acct, via |-> task[w].via,
                     rev |-> rev, created |-> now, expired |-> FALSE]
               m == [made EXCEPT !.tok = @ + 1]
    <2>1. PICK done \in BOOLEAN : /\ sessions' = IF done THEN sessions \cup {s} ELSE sessions
                                  /\ made' = IF done THEN m ELSE made
                                  /\ UNCHANGED <<rev, revoked>>
      BY <1>4 DEF Issue, authority, ghosts
    <2>2. made.tok \in Nat /\ rev \in Nat  BY DEF SessionInv, Made
    <2>3. IsSession(s) /\ s.tok = made.tok + 1 /\ s.rev = rev  BY <2>2 DEF IsSession
    <2>4. m \in Made /\ m.tok = made.tok + 1
      <3>1. made \in Made /\ made.tok + 1 \in Nat  BY <2>2 DEF SessionInv
      <3> QED  BY <3>1, MadeMore
    <2> HIDE DEF s, m
    <2> QED  BY <2>1, <2>2, <2>3, <2>4 DEF SessionInv, IsSession
  <1> QED  BY <1>0, <1>1, <1>2, <1>3, <1>4 DEF SessionStep

(* A session that was in the store when its player's grant was revoked     *)
(* serves no request again, whatever failed in grants_changed, after a     *)
(* restart, and although the player is granted again.                      *)
THEOREM RevokedSessionsStayOver == Spec => []NoRevival
  <1>1. SessionInv => NoRevival
    BY DEF SessionInv, NoRevival, Authorized, IsSession
  <1> QED  BY <1>1, InitSessions, NextSessions, PTL DEF Spec
-----------------------------------------------------------------------------
(* Accounts.  The account in force is not a removed one, and the next one  *)
(* gets an identifier no account has had.                                  *)
AccountInv ==
  /\ made \in Made /\ now \in Nat
  /\ account \in [id : Nat, from : Nat] /\ account.id <= made.acct
  /\ account.id = 0 => account = NoAccount
  /\ \A a \in removed : a \in Nat \ {0} /\ a <= made.acct
  /\ account.id \notin removed

(* What a step may do to the accounts.                                     *)
SameAccount ==
  /\ UNCHANGED <<account, now, removed>>
  /\ made' \in Made /\ made'.acct = made.acct

Linked ==
  /\ account = NoAccount /\ account' = [id |-> made.acct + 1, from |-> 0]
  /\ made' = [made EXCEPT !.acct = made.acct + 1]
  /\ UNCHANGED <<now, removed>>

SessionsFrom ==
  /\ account # NoAccount /\ account' = [account EXCEPT !.from = now + 1]
  /\ now' = now + 1
  /\ UNCHANGED <<removed, made>>

Unlinked ==
  /\ account # NoAccount /\ account' = NoAccount
  /\ removed' = removed \cup {account.id}
  /\ UNCHANGED <<now, made>>

AccountStep == SameAccount \/ Linked \/ SessionsFrom \/ Unlinked

LEMMA AccountSteps ==
  ASSUME AccountInv, [Next]_vars
  PROVE  AccountStep
  <1> USE DEF store, ghosts, AccountStep
  <1>0. made \in Made  BY DEF AccountInv
  <1>1. ASSUME UNCHANGED <<account, now, removed, made>> PROVE SameAccount
    BY <1>0, <1>1 DEF SameAccount
  <1>2. ASSUME NEW a \in BOOLEAN, NEW b \in BOOLEAN, EndRevoked(a, b), UNCHANGED <<removed, made>>
        PROVE  AccountStep
    BY <1>1, <1>2 DEF EndRevoked, SessionsFrom
  <1>3. CASE UNCHANGED vars  BY <1>1, <1>3 DEF vars
  <1>4. ASSUME NEW w \in Workers, Request(w) PROVE AccountStep
    <2>1. CASE Touch(w) \/ Replace(w) \/ SignOut(w)  BY <2>1, <1>1 DEF Touch, Replace, SignOut
    <2>2. CASE Ensure(w)
      <3>1. \/ UNCHANGED <<account, made>>
            \/ /\ account = NoAccount /\ account' = [id |-> made.acct + 1, from |-> 0]
               /\ made' = [made EXCEPT !.acct = made.acct + 1]
        BY <2>2, Zenon DEF Ensure, NewAccountId
      <3>2. UNCHANGED <<now, removed>>  BY <2>2 DEF Ensure
      <3> QED  BY <3>1, <3>2, <1>1 DEF Linked
    <2>3. CASE Begin(w)
      <3>1. made' = made \/ made' = [made EXCEPT !.entry = made.entry + 1]
        BY <2>3, Zenon DEF Begin
      <3>2. made.entry + 1 \in Nat  BY <1>0 DEF Made
      <3>3. made' \in Made /\ made'.acct = made.acct  BY <3>1, <3>2, <1>0 DEF Made
      <3> QED  BY <2>3, <3>3 DEF Begin, SameAccount
    <2>4. CASE AddPasskey(w)
      <3>1. made' = made \/ made' = [made EXCEPT !.key = made.key + 1]
        BY <2>4, Zenon DEF AddPasskey
      <3>2. made.key + 1 \in Nat  BY <1>0 DEF Made
      <3>3. made' \in Made /\ made'.acct = made.acct  BY <3>1, <3>2, <1>0 DEF Made
      <3> QED  BY <2>4, <3>3 DEF AddPasskey, SameAccount
    <2>5. CASE Issue(w)
      <3>1. made' = made \/ made' = [made EXCEPT !.tok = made.tok + 1]
        BY <2>5, Zenon DEF Issue
      <3>2. made.tok + 1 \in Nat  BY <1>0 DEF Made
      <3>3. made' \in Made /\ made'.acct = made.acct  BY <3>1, <3>2, <1>0 DEF Made
      <3> QED  BY <2>5, <3>3 DEF Issue, SameAccount
    <2>6. CASE LinkOptions(w) \/ LoginOptions(w) \/ SiteStart(w) \/ LinkVerify(w) \/ Limit(w)
      BY <2>6, <1>1 DEF LinkOptions, LoginOptions, SiteStart, LinkVerify, Limit
    <2>7. CASE LoginVerify(w) \/ SiteReturn(w) \/ Answer(w) \/ RemovePasskey(w)
      BY <2>7, <1>1 DEF LoginVerify, SiteReturn, Answer, RemovePasskey
    <2>8. CASE Message(w) \/ Ws(w) \/ Handle(w)
      BY <2>8, <1>1 DEF Message, Ws, Handle
    <2> QED  BY <1>4, <2>1, <2>2, <2>3, <2>4, <2>5, <2>6, <2>7, <2>8 DEF Request
  <1>5. CASE End  BY <1>5, <1>2 DEF End
  <1>6. CASE Restart  BY <1>6, <1>1, <1>2 DEF Restart
  <1>7. CASE RemoveAccount  BY <1>7, <1>1 DEF RemoveAccount, Unlinked
  <1>8. CASE RemoveCredentials \/ Discard \/ Expire \/ Revoke
    BY <1>8, <1>1 DEF RemoveCredentials, Discard, Expire, Revoke
  <1>9. CASE IssueCode \/ Grant \/ Decide \/ Reload
    BY <1>9, <1>1 DEF IssueCode, Grant, Decide, Reload
  <1>10. CASE LinkUp \/ LinkLost \/ Open \/ Opened \/ Close \/ Poll
    BY <1>10, <1>1 DEF LinkUp, LinkLost, Open, Opened, Close, Poll
  <1> QED  BY <1>3, <1>4, <1>5, <1>6, <1>7, <1>8, <1>9, <1>10 DEF Next

LEMMA InitAccounts == Init => AccountInv
  BY DEF Init, AccountInv, Made, NoAccount

LEMMA NextAccounts ==
  ASSUME AccountInv, [Next]_vars
  PROVE  AccountInv'
  <1>0. AccountStep  BY AccountSteps
  <1>1. made.acct \in Nat /\ account.id \in Nat /\ now \in Nat
    BY DEF AccountInv, Made
  <1>2. CASE SameAccount  BY <1>2 DEF SameAccount, AccountInv
  <1>3. CASE Linked
    <2>1. made \in Made /\ made.acct + 1 \in Nat  BY <1>1 DEF AccountInv
    <2>2. made' \in Made /\ made'.acct = made.acct + 1
      BY <1>3, <2>1, MadeMore DEF Linked
    <2>3. account' \in [id : Nat, from : Nat] /\ account'.id = made.acct + 1
      BY <1>3, <2>1 DEF Linked
    <2> QED  BY <1>1, <1>3, <2>2, <2>3 DEF Linked, AccountInv
  <1>4. CASE SessionsFrom
    <2>1. account' \in [id : Nat, from : Nat] /\ account'.id = account.id
      BY <1>1, <1>4 DEF SessionsFrom, AccountInv
    <2> QED  BY <1>1, <1>4, <2>1 DEF SessionsFrom, AccountInv
  <1>5. CASE Unlinked
    <2>1. account' \in [id : Nat, from : Nat] /\ account'.id = 0
      BY <1>5 DEF Unlinked, NoAccount
    <2> QED  BY <1>1, <1>5, <2>1 DEF Unlinked, AccountInv
  <1> QED  BY <1>0, <1>2, <1>3, <1>4, <1>5 DEF AccountStep

(* What was made for an account whose removal was answered never works     *)
(* again: requests that were under way may still write a session or a      *)
(* passkey for it, and a new link gets an account of its own.              *)
THEOREM RemovedAccountsStayRemoved == Spec => []RemovedStaysRemoved
  <1>1. AccountInv => RemovedStaysRemoved
    BY DEF AccountInv, RemovedStaysRemoved, Authorized, Live
  <1> QED  BY <1>1, InitAccounts, NextAccounts, PTL DEF Spec
=============================================================================
