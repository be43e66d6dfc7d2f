-------------------------------- MODULE Web --------------------------------
(***************************************************************************)
(* endbotd's web side: link codes, WebAuthn ceremonies, accounts, passkeys *)
(* and sessions, how a revoke reaches them, and the link that carries      *)
(* browsers' requests.  The link thread reads frames, a pool of workers    *)
(* runs the requests, and the console, the CLI and the poller have threads *)
(* of their own.  The three store files are written before the memory they *)
(* mirror; a write may fail, and the process may crash between two.        *)
(*                                                                         *)
(* One player is modelled.  Signatures, assertions and keys are checked by *)
(* libraries: a request that reaches a state change is one they accepted.  *)
(* Link generations are not reused, and the relay drops an answer whose    *)
(* connection id it did not hand out on that link.                         *)
(***************************************************************************)
EXTENDS Naturals, FiniteSets

CONSTANTS Workers,         \* threads of the request pool (MAX_REQUEST_WORKERS)
          Conns,           \* connection ids the relay hands out
          MaxPasskeys,     \* MAX_PASSKEYS_PER_ACCOUNT
          MaxCeremonies,   \* MAX_CEREMONIES, MAX_NONCES
          MaxConnections,  \* MAX_SESSION_CONNECTIONS
          WrongLimit,      \* WRONG_CODE_LIMIT
          Budgets          \* bounds: how often each outside event may happen

Events == {"code", "request", "revoke", "grant", "remove", "fail", "crash",
           "expire", "link", "open", "message"}

ASSUME WebBounds ==
  /\ {MaxPasskeys, MaxCeremonies, MaxConnections, WrongLimit} \subseteq Nat \ {0}
  /\ Budgets \subseteq [Events -> Nat]

VARIABLES
  granted, rev,                      \* the controller grant and its revision
  account, passkeys, sessions, now,  \* state/web, and a clock of revokes
  code, wrong, closed,               \* LinkCodes
  entries,                           \* WebAuth._ceremonies and TrustedSite._pending
  task,                              \* what each worker runs
  sweep,                             \* where grants_changed is
  gen, up, opening, conns, window,   \* WebLink
  subs,                              \* WebApi._subscribers
  made,                              \* identifiers handed out so far
  left,                              \* what is left of the budget
  held,                              \* session tokens a browser received
  revoked, removed                   \* ghosts: tokens, accounts

authority == <<granted, rev>>
store     == <<account, passkeys, sessions, now>>
codes     == <<code, wrong, closed>>
link      == <<gen, up, opening, conns, window, subs>>
ghosts    == <<held, revoked, removed>>
vars == <<authority, store, codes, entries, task, sweep, link, made, left, ghosts>>

NoAccount == [id |-> 0, from |-> 0]
Idle      == [op |-> "idle"]
Kinds     == {"register", "login", "site"}
Vias      == {"passkey", "site"}

Table(kind) == IF kind = "site" THEN "pending" ELSE "ceremonies"

Spend(event) ==
  /\ left[event] > 0
  /\ left' = [left EXCEPT ![event] = @ - 1]

\* A commit that may fail: done says whether it reached the disk.
Commit(done) == IF done THEN UNCHANGED left ELSE Spend("fail")

Free(w) == task[w] = Idle
Become(w, t) == task' = [task EXCEPT ![w] = t]
-----------------------------------------------------------------------------
(***************************************************************************)
(* Sessions.  Live is WebAuth.session, Authorized is WebAuth.principal.    *)
(***************************************************************************)
Live(s) ==
  /\ ~s.expired
  /\ account.id = s.acct
  /\ s.created >= account.from

\* Mutant: the grant revision the session was issued at is not compared.
AuthorizedByGrant(s) == Live(s) /\ granted

Authorized(s) == Live(s) /\ granted /\ s.rev = rev

Session(tok) == CHOOSE s \in sessions : s.tok = tok
Tokens       == {s.tok : s \in sessions}
Principal(tok) == tok \in Tokens /\ Authorized(Session(tok))

Init ==
  /\ granted = TRUE /\ rev = 0
  /\ account = NoAccount /\ passkeys = {} /\ sessions = {} /\ now = 0
  /\ code = FALSE /\ wrong = 0 /\ closed = FALSE
  /\ entries = {} /\ task = [w \in Workers |-> Idle] /\ sweep = "idle"
  /\ gen = 0 /\ up = FALSE /\ opening = <<>> /\ conns = {} /\ window = {} /\ subs = {}
  /\ made = [entry |-> 0, key |-> 0, tok |-> 0, acct |-> 0]
  /\ left \in Budgets
  /\ held = {} /\ revoked = {} /\ removed = {}
-----------------------------------------------------------------------------
(***************************************************************************)
(* The link's tables.  Drop is _forget for a set of connections: the       *)
(* connection goes with its place in the rate window and its subscription. *)
(***************************************************************************)
\* Mutant: a closed connection keeps its place in the rate window.
DropKeepingWindow(gone) ==
  /\ conns' = conns \ gone
  /\ UNCHANGED window
  /\ subs' = {s \in subs : \A c \in gone : s.conn # c.conn}

Drop(gone) ==
  /\ conns' = conns \ gone
  /\ window' = window \ {<<c.tok, c.conn>> : c \in gone}
  /\ subs' = {s \in subs : \A c \in gone : s.conn # c.conn}

\* WebLink.sessions_removed.
SessionsRemoved(toks) ==
  /\ Drop({c \in conns : c.tok \in toks})
  /\ UNCHANGED <<gen, up, opening>>

\* end_session: the store first, then the connections.
EndSession(tok, done) ==
  /\ Commit(done)
  /\ sessions' = IF done THEN {s \in sessions : s.tok # tok} ELSE sessions
  /\ SessionsRemoved(IF done THEN {tok} ELSE {})
-----------------------------------------------------------------------------
(***************************************************************************)
(* Link codes.                                                             *)
(***************************************************************************)
\* /botweb link, from a player the submission check allows.
IssueCode ==
  /\ granted /\ ~code
  /\ Spend("code") /\ code' = TRUE
  /\ UNCHANGED <<authority, store, wrong, closed, entries, task, sweep, link, made, ghosts>>

\* A code, a ceremony or a session outlives its time, or code entry reopens.
Expire ==
  /\ Spend("expire")
  /\ \/ code /\ code' = FALSE /\ UNCHANGED <<wrong, closed, entries, sessions>>
     \/ closed /\ closed' = FALSE /\ UNCHANGED <<code, wrong, entries, sessions>>
     \/ wrong > 0 /\ wrong' = wrong - 1 /\ UNCHANGED <<code, closed, entries, sessions>>
     \/ \E e \in entries :
          /\ ~e.expired
          /\ entries' = (entries \ {e}) \cup {[e EXCEPT !.expired = TRUE]}
          /\ UNCHANGED <<codes, sessions>>
     \/ \E s \in sessions :
          /\ ~s.expired
          /\ sessions' = (sessions \ {s}) \cup {[s EXCEPT !.expired = TRUE]}
          /\ UNCHANGED <<codes, entries>>
  /\ UNCHANGED <<authority, account, passkeys, now, task, sweep, link, made, ghosts>>

\* redeem: the wrong code that closes code entry for everyone.
EntryCloses == wrong + 1 >= WrongLimit

\* _link_options: redeem, then the grant.  The code is spent either way.
LinkOptions(w) ==
  /\ up /\ Free(w) /\ ~closed /\ Spend("request")
  /\ \/ /\ code /\ code' = FALSE
        /\ UNCHANGED <<wrong, closed>>
        /\ Become(w, IF granted THEN [op |-> "ensure", kind |-> "register",
                                      via |-> "passkey", gen |-> gen] ELSE Idle)
     \/ /\ wrong' = IF EntryCloses THEN 0 ELSE wrong + 1
        /\ closed' = EntryCloses
        /\ UNCHANGED <<code, task>>
  /\ UNCHANGED <<authority, store, entries, sweep, link, made, ghosts>>
-----------------------------------------------------------------------------
(***************************************************************************)
(* Ceremonies and the trusted site's nonces.  Beginning one purges the     *)
(* table: a copy without the expired entries is built, and then takes the  *)
(* table's place.  No lock covers the two.                                 *)
(***************************************************************************)
Kept(kind) == {e \in entries : Table(e.kind) = Table(kind) /\ ~e.expired}

Copying(kind, via, g) ==
  [op |-> "begin", kind |-> kind, via |-> via, copy |-> Kept(kind), gen |-> g]

\* Mutant: an account is named after its player.
AccountOfPlayer == 1

\* ensure_account names a new account at random.
NewAccountId == made.acct + 1

\* registration_options, or the account of a sign-in through the site.
Ensure(w) ==
  /\ task[w].op = "ensure"
  /\ \E done \in BOOLEAN :
       LET fresh == account = NoAccount
           id    == IF fresh THEN NewAccountId ELSE account.id
       IN  /\ IF fresh THEN Commit(done) ELSE done /\ UNCHANGED left
           /\ account' = IF fresh /\ done THEN [id |-> id, from |-> 0] ELSE account
           /\ made' = IF fresh /\ done THEN [made EXCEPT !.acct = id] ELSE made
           /\ Become(w, CASE ~done -> Idle
                          [] done /\ task[w].kind = "site" ->
                               [op |-> "issue", acct |-> id, via |-> "site", replace |-> TRUE,
                                gen |-> task[w].gen]
                          [] done /\ task[w].kind = "register" ->
                               IF Cardinality({k \in passkeys : k.acct = id}) >= MaxPasskeys
                               THEN Idle
                               ELSE Copying("register", task[w].via, task[w].gen))
  /\ UNCHANGED <<authority, passkeys, sessions, now, codes, entries, sweep, link, ghosts>>

\* _login_options and TrustedSite.start begin with the purge.
LoginOptions(w) ==
  /\ up /\ Free(w) /\ Spend("request")
  /\ Become(w, Copying("login", "passkey", gen))
  /\ UNCHANGED <<authority, store, codes, entries, sweep, link, made, ghosts>>

SiteStart(w) ==
  /\ up /\ Free(w) /\ Spend("request")
  /\ Become(w, Copying("site", "site", gen))
  /\ UNCHANGED <<authority, store, codes, entries, sweep, link, made, ghosts>>

Begin(w) ==
  /\ task[w].op = "begin"
  /\ LET t    == task[w]
         rest == {e \in entries : Table(e.kind) # Table(t.kind)}
         busy == Cardinality(t.copy) >= MaxCeremonies
         id   == made.entry + 1
     IN  /\ entries' = rest \cup t.copy
                       \cup IF busy THEN {}
                            ELSE {[id |-> id, kind |-> t.kind, via |-> t.via, expired |-> FALSE]}
         /\ made' = IF busy THEN made ELSE [made EXCEPT !.entry = id]
  /\ Become(w, Idle)
  /\ UNCHANGED <<authority, store, codes, sweep, link, left, ghosts>>

\* The first attempt consumes the entry, whatever becomes of it.
Finish(e) == entries' = entries \ {e}

Valid(e, kind) == e.kind = kind /\ ~e.expired
-----------------------------------------------------------------------------
(***************************************************************************)
(* The end of a registration, of a login and of a sign-in through the      *)
(* site.  A worker holds no lock from one step to the next.                *)
(***************************************************************************)
LinkVerify(w) ==
  /\ up /\ Free(w) /\ Spend("request")
  /\ \E e \in entries :
       /\ Table(e.kind) = "ceremonies"
       /\ Finish(e)
       /\ Become(w, IF Valid(e, "register") /\ account # NoAccount /\ granted
                    THEN [op |-> "limit", acct |-> account.id, via |-> e.via, replace |-> FALSE,
                          gen |-> gen]
                    ELSE Idle)
  /\ UNCHANGED <<authority, store, codes, sweep, link, made, held, revoked, removed>>

Limit(w) ==
  /\ task[w].op = "limit"
  /\ Become(w, IF Cardinality({k \in passkeys : k.acct = task[w].acct}) >= MaxPasskeys
               THEN Idle ELSE [task[w] EXCEPT !.op = "add"])
  /\ UNCHANGED <<authority, store, codes, entries, sweep, link, made, left, ghosts>>

\* on_passkey_added tells the account's pages, which drops the ones signed out.
AddPasskey(w) ==
  /\ task[w].op = "add"
  /\ \E done \in BOOLEAN :
       /\ Commit(done)
       /\ passkeys' = IF done THEN passkeys \cup {[id |-> made.key + 1, acct |-> task[w].acct,
                                                   via |-> task[w].via]}
                      ELSE passkeys
       /\ made' = IF done THEN [made EXCEPT !.key = @ + 1] ELSE made
       /\ subs' = IF done THEN {s \in subs : Principal(s.tok)} ELSE subs
       /\ Become(w, IF done THEN [task[w] EXCEPT !.op = "issue"] ELSE Idle)
  /\ UNCHANGED <<authority, account, sessions, now, codes, entries, sweep,
                 gen, up, opening, conns, window, ghosts>>

LoginVerify(w) ==
  /\ up /\ Free(w) /\ Spend("request")
  /\ \E e \in entries, k \in passkeys :
       /\ Table(e.kind) = "ceremonies"
       /\ Finish(e)
       /\ Become(w, IF Valid(e, "login") /\ k.acct = account.id /\ granted
                    THEN [op |-> "touch", acct |-> account.id, via |-> "passkey", replace |-> FALSE,
                          gen |-> gen]
                    ELSE Idle)
  /\ UNCHANGED <<authority, store, codes, sweep, link, made, held, revoked, removed>>

\* update_passkey, and the end of the session this sign-in replaces.
Touch(w) ==
  /\ task[w].op = "touch"
  /\ \E tok \in held \cup {0}, done \in BOOLEAN :
       /\ IF tok \in Tokens /\ Session(tok).acct = task[w].acct
          THEN EndSession(tok, done)
          ELSE Commit(done) /\ UNCHANGED <<sessions, link>>
       /\ Become(w, IF done THEN [task[w] EXCEPT !.op = "issue"] ELSE Idle)
  /\ UNCHANGED <<authority, account, passkeys, now, codes, entries, sweep, made, ghosts>>

SiteReturn(w) ==
  /\ up /\ Free(w) /\ Spend("request")
  /\ \E e \in entries, kind \in {"register", "site"} :
       /\ e.kind = "site"
       /\ Finish(e)
       /\ Become(w, IF ~e.expired /\ granted
                    THEN [op |-> "ensure", kind |-> kind, via |-> "site", gen |-> gen]
                    ELSE Idle)
  /\ UNCHANGED <<authority, store, codes, sweep, link, made, held, revoked, removed>>

\* issue_session records the revision in force now.
Issue(w) ==
  /\ task[w].op = "issue"
  /\ \E done \in BOOLEAN :
       /\ Commit(done)
       /\ sessions' = IF done THEN sessions \cup
                        {[tok |-> made.tok + 1, acct |-> task[w].acct, via |-> task[w].via,
                          rev |-> rev, created |-> now, expired |-> FALSE]}
                      ELSE sessions
       /\ made' = IF done THEN [made EXCEPT !.tok = @ + 1] ELSE made
       /\ Become(w, IF done THEN [op |-> IF task[w].replace THEN "replace" ELSE "answer",
                                  tok |-> made.tok + 1, acct |-> task[w].acct, gen |-> task[w].gen]
                    ELSE Idle)
  /\ UNCHANGED <<authority, account, passkeys, now, codes, entries, sweep, link, ghosts>>

\* A sign-in through the site ends the session it replaces after the new one exists.
Replace(w) ==
  /\ task[w].op = "replace"
  /\ \E tok \in held \cup {0}, done \in BOOLEAN :
       /\ IF tok \in Tokens /\ Session(tok).acct = task[w].acct
          THEN EndSession(tok, done)
          ELSE done /\ UNCHANGED <<left, sessions, link>>
       /\ Become(w, IF done THEN [task[w] EXCEPT !.op = "answer"] ELSE Idle)
  /\ UNCHANGED <<authority, account, passkeys, now, codes, entries, sweep, made, ghosts>>

\* The answer carries a token: only the link the request came from may have it.
Answer(w) ==
  /\ task[w].op = "answer"
  /\ held' = IF up /\ gen = task[w].gen THEN held \cup {task[w].tok} ELSE held
  /\ Become(w, Idle)
  /\ UNCHANGED <<authority, store, codes, entries, sweep, link, made, left,
                 revoked, removed>>
-----------------------------------------------------------------------------
(***************************************************************************)
(* Requests of one step: /auth/logout, /auth/session/remove and            *)
(* /auth/passkey/remove, and a request whose session is over.              *)
(***************************************************************************)
SignOut(w) ==
  /\ up /\ Free(w)
  /\ \E tok \in held \cap Tokens, gone \in sessions :
       /\ gone.acct = Session(tok).acct
       /\ \/ gone.tok = tok
          \/ Principal(tok)
       /\ EndSession(gone.tok, TRUE)
  /\ UNCHANGED <<authority, account, passkeys, now, codes, entries, task, sweep, made, ghosts>>

RemovePasskey(w) ==
  /\ up /\ Free(w) /\ Spend("request")
  /\ \E tok \in held, k \in passkeys :
       /\ Principal(tok) /\ k.acct = Session(tok).acct
       /\ passkeys' = passkeys \ {k}
  /\ UNCHANGED <<authority, account, sessions, now, codes, entries, task, sweep, link, made, ghosts>>

\* session() deletes one it finds expired, orphaned or older than sessionsFrom.
Discard ==
  /\ \E s \in sessions :
       /\ s.tok \in held /\ ~Live(s)
       /\ EndSession(s.tok, TRUE)
  /\ UNCHANGED <<authority, account, passkeys, now, codes, entries, task, sweep, made, ghosts>>
-----------------------------------------------------------------------------
(***************************************************************************)
(* The grant, and grants_changed after it: the decision is taken under the *)
(* authority's lock, the sessions are ended after it.                      *)
(***************************************************************************)
Revoke ==
  /\ granted /\ sweep = "idle" /\ Spend("revoke")
  /\ granted' = FALSE /\ rev' = rev + 1
  /\ revoked' = revoked \cup Tokens
  /\ sweep' = "decide"
  /\ UNCHANGED <<store, codes, entries, task, link, made, held, removed>>

Grant ==
  /\ ~granted /\ Spend("grant")
  /\ granted' = TRUE
  /\ UNCHANGED <<rev, store, codes, entries, task, sweep, link, made, ghosts>>

Decide ==
  /\ sweep = "decide"
  /\ code' = (code /\ granted)
  /\ sweep' = IF granted \/ account = NoAccount THEN "idle" ELSE "end"
  /\ UNCHANGED <<authority, store, wrong, closed, entries, task, link, made, left, ghosts>>

\* end_sessions_for_revoke: sessionsFrom is written, and then the sessions.
EndRevoked(accountDone, sessionsDone) ==
  LET ended == {s \in sessions : s.acct = account.id}
  IN  /\ sessionsDone => accountDone
      /\ IF account # NoAccount /\ ended # {} /\ accountDone
         THEN /\ account' = [account EXCEPT !.from = now + 1]
              /\ now' = now + 1
              /\ sessions' = IF sessionsDone THEN sessions \ ended ELSE sessions
         ELSE UNCHANGED <<account, now, sessions>>

End ==
  /\ sweep = "end"
  /\ \E accountDone, sessionsDone \in BOOLEAN :
       /\ Commit(sessionsDone)
       /\ EndRevoked(accountDone, sessionsDone)
       /\ SessionsRemoved(Tokens \ {s.tok : s \in sessions'})
  /\ sweep' = "idle"
  /\ UNCHANGED <<authority, passkeys, codes, entries, task, made, ghosts>>
-----------------------------------------------------------------------------
(***************************************************************************)
(* /botweb unlink and the CLI's operations.  Each writes file after file   *)
(* under the store's lock: steps says how many writes were reached.        *)
(***************************************************************************)
RemoveAccount ==
  /\ account # NoAccount /\ left["remove"] > 0
  /\ code' = FALSE       \* void, which is all that happens without an account
  /\ \E steps \in 0..3 :
       /\ left' = [left EXCEPT !["remove"] = @ - 1,
                               !["fail"] = IF steps < 3 THEN @ - 1 ELSE @]
       /\ steps < 3 => left["fail"] > 0
       /\ sessions' = IF steps >= 1 THEN {s \in sessions : s.acct # account.id} ELSE sessions
       /\ passkeys' = IF steps >= 2 THEN {k \in passkeys : k.acct # account.id} ELSE passkeys
       /\ account' = IF steps = 3 THEN NoAccount ELSE account
       /\ removed' = IF steps = 3 THEN removed \cup {account.id} ELSE removed
       /\ SessionsRemoved(IF steps = 3 THEN Tokens \ {s.tok : s \in sessions'} ELSE {})
  /\ UNCHANGED <<authority, now, wrong, closed, entries, task, sweep, made, held, revoked>>

\* domain_changed drops every credential, revoke_site_sessions the site's.
RemoveCredentials ==
  /\ left["remove"] > 0
  /\ \E vias \in {Vias, {"site"}}, steps \in 0..2 :
       /\ left' = [left EXCEPT !["remove"] = @ - 1,
                               !["fail"] = IF steps < 2 THEN @ - 1 ELSE @]
       /\ steps < 2 => left["fail"] > 0
       /\ sessions' = IF steps >= 1 THEN {s \in sessions : s.via \notin vias} ELSE sessions
       /\ passkeys' = IF steps = 2 THEN {k \in passkeys : k.via \notin vias} ELSE passkeys
       /\ SessionsRemoved(IF steps = 2 THEN Tokens \ {s.tok : s \in sessions'} ELSE {})
  /\ UNCHANGED <<authority, account, now, codes, entries, task, sweep, made, ghosts>>

\* endbotd stops and starts again: its memory goes, and grants_changed runs first.
Restart ==
  /\ Spend("crash")
  /\ \/ ~granted /\ EndRevoked(TRUE, TRUE)
     \/ UNCHANGED <<account, now, sessions>>   \* still granted, or the write failed
  /\ code' = FALSE /\ wrong' = 0 /\ closed' = FALSE
  /\ entries' = {} /\ task' = [w \in Workers |-> Idle] /\ sweep' = "idle"
  /\ up' = FALSE /\ opening' = <<>> /\ conns' = {} /\ window' = {} /\ subs' = {}
  /\ UNCHANGED <<authority, passkeys, gen, made, ghosts>>

\* reload after a deploy: new ceremonies, a new link; old workers run on.
Reload ==
  /\ Spend("crash")
  /\ entries' = {}
  /\ task' = [w \in Workers |-> IF task[w].op \in {"begin", "handle"} THEN Idle ELSE task[w]]
  /\ opening = <<>>
  /\ up' = FALSE /\ gen' = gen + 1 /\ conns' = {} /\ window' = {} /\ subs' = {}
  /\ UNCHANGED <<authority, store, codes, sweep, opening, made, ghosts>>
-----------------------------------------------------------------------------
(***************************************************************************)
(* The link.                                                               *)
(***************************************************************************)
\* A link counts once its proof is accepted; until then _run tries again.
LinkUp ==
  /\ ~up /\ Spend("link")
  /\ up' = TRUE /\ gen' = gen + 1
  /\ UNCHANGED <<authority, store, codes, entries, task, sweep,
                 opening, conns, window, subs, made, ghosts>>

\* Only while another link may follow.
LinkLost ==
  /\ up /\ opening = <<>> /\ left["link"] > 0
  /\ up' = FALSE /\ conns' = {} /\ window' = {}
  /\ subs' = {s \in subs : \A c \in conns : s.conn # c.conn}
  /\ UNCHANGED <<authority, store, codes, entries, task, sweep, gen, opening, made, left, ghosts>>

\* _open: the session is checked and its place taken ...
Open ==
  /\ up /\ opening = <<>> /\ Spend("open")
  /\ \E tok \in held, conn \in Conns :
       /\ Principal(tok)
       /\ \A c \in conns : c.conn # conn
       /\ \A s \in subs : s.conn # conn
       /\ \A w \in Workers : task[w].op = "ws" => task[w].conn # conn
       /\ Cardinality({p \in window : p[1] = tok}) < MaxConnections
       /\ window' = window \cup {<<tok, conn>>}
       /\ opening' = <<tok, conn>>
  /\ UNCHANGED <<authority, store, codes, entries, task, sweep, gen, up, conns, subs, made, ghosts>>

\* ... and the connection entered under a second lock.
Opened ==
  /\ opening # <<>>
  /\ conns' = conns \cup {[conn |-> opening[2], tok |-> opening[1], gen |-> gen]}
  /\ opening' = <<>>
  /\ UNCHANGED <<authority, store, codes, entries, task, sweep, gen, up, window, subs,
                 made, left, ghosts>>

Close ==
  /\ up /\ opening = <<>>
  /\ \E c \in conns : Drop({c})
  /\ UNCHANGED <<authority, store, codes, entries, task, sweep, gen, up, opening, made, left, ghosts>>

Message(w) ==
  /\ up /\ opening = <<>> /\ Free(w) /\ Spend("message")
  /\ \E c \in conns : Become(w, [op |-> "ws", conn |-> c.conn, tok |-> c.tok, gen |-> c.gen])
  /\ UNCHANGED <<authority, store, codes, entries, sweep, link, made, ghosts>>

\* _ws: a link that is gone, a session that is over, or a request that is served.
Ws(w) ==
  /\ task[w].op = "ws"
  /\ LET t == task[w] IN
     \/ /\ t.gen # gen
        /\ Become(w, Idle) /\ UNCHANGED link
     \/ /\ t.gen = gen /\ ~Principal(t.tok)
        /\ Drop({c \in conns : c.conn = t.conn})
        /\ Become(w, Idle) /\ UNCHANGED <<gen, up, opening>>
     \/ /\ t.gen = gen /\ Principal(t.tok)
        /\ Become(w, [t EXCEPT !.op = "handle"]) /\ UNCHANGED link
  /\ UNCHANGED <<authority, store, codes, entries, sweep, made, left, ghosts>>

\* _subscribe: keyed by the connection, whether or not it is still open.
Subscribe(t) ==
  subs' = {s \in subs : s.conn # t.conn} \cup {[conn |-> t.conn, tok |-> t.tok, gen |-> t.gen]}

\* WebApi.handle: the principal again, then a subscription, or a query or a
\* command, which change nothing here.
Handle(w) ==
  /\ task[w].op = "handle"
  /\ \/ UNCHANGED subs
     \/ Principal(task[w].tok) /\ Subscribe(task[w])
  /\ Become(w, Idle)
  /\ UNCHANGED <<authority, store, codes, entries, sweep,
                 gen, up, opening, conns, window, made, left, ghosts>>

\* The poller, or an event for the player: who is signed out hears nothing more.
Poll ==
  /\ \E s \in subs : ~Principal(s.tok)
  /\ subs' = {s \in subs : Principal(s.tok)}
  /\ UNCHANGED <<authority, store, codes, entries, task, sweep,
                 gen, up, opening, conns, window, made, left, ghosts>>
-----------------------------------------------------------------------------
Request(w) ==
  \/ LinkOptions(w) \/ Ensure(w) \/ LoginOptions(w) \/ SiteStart(w) \/ Begin(w)
  \/ LinkVerify(w) \/ Limit(w) \/ AddPasskey(w) \/ LoginVerify(w) \/ Touch(w)
  \/ SiteReturn(w) \/ Issue(w) \/ Replace(w) \/ Answer(w) \/ SignOut(w) \/ RemovePasskey(w)
  \/ Message(w) \/ Ws(w) \/ Handle(w)

Next ==
  \/ \E w \in Workers : Request(w)
  \/ IssueCode \/ Expire \/ Discard
  \/ Revoke \/ Grant \/ Decide \/ End
  \/ RemoveAccount \/ RemoveCredentials \/ Restart \/ Reload
  \/ LinkUp \/ LinkLost \/ Open \/ Opened \/ Close \/ Poll

Spec == Init /\ [][Next]_vars
-----------------------------------------------------------------------------
Ids == 0..20

\* Every table holds what the code puts there.
TypeOK ==
  /\ granted \in BOOLEAN /\ rev \in Ids /\ now \in Ids
  /\ account \in [id : Ids, from : Ids]
  /\ passkeys \subseteq [id : Ids, acct : Ids, via : Vias]
  /\ sessions \subseteq [tok : Ids, acct : Ids, via : Vias, rev : Ids, created : Ids,
                         expired : BOOLEAN]
  /\ code \in BOOLEAN /\ closed \in BOOLEAN /\ wrong \in 0..(WrongLimit - 1)
  /\ entries \subseteq [id : Ids, kind : Kinds, via : Vias, expired : BOOLEAN]
  /\ \A w \in Workers : task[w].op \in {"idle", "ensure", "begin", "limit", "add", "touch",
                                        "issue", "replace", "answer", "ws", "handle"}
  /\ sweep \in {"idle", "decide", "end"}
  /\ gen \in Ids /\ up \in BOOLEAN /\ opening \in {<<>>} \cup (Ids \X Conns)
  /\ conns \subseteq [conn : Conns, tok : Ids, gen : Ids] /\ window \subseteq Ids \X Conns
  /\ subs \subseteq [conn : Conns, tok : Ids, gen : Ids]
  /\ held \subseteq Ids /\ left \in [Events -> Nat]

\* A session in the store when its player's grant was revoked never serves a
\* request again: not after a regrant, not when ending the sessions failed
\* halfway, and not after a restart.
NoRevival == \A s \in sessions : Authorized(s) => s.tok \notin revoked

\* Once /botweb unlink or `endbot web revoke` has answered that the account is
\* removed, nothing made for it works again, whatever requests were under way
\* and whatever account the player links later.
RemovedStaysRemoved ==
  /\ \A s \in sessions : Authorized(s) => s.acct \notin removed
  /\ \A k \in passkeys : k.acct = account.id => k.acct \notin removed

\* A session's places in the rate window are exactly its open connections, and
\* the one being opened: none leaks, which would shut the session out, and the
\* limit holds.
SlotsExact ==
  /\ window = {<<c.tok, c.conn>> : c \in conns} \cup (IF opening = <<>> THEN {} ELSE {opening})
  /\ \A p \in window : Cardinality({q \in window : q[1] = p[1]}) <= MaxConnections

=============================================================================
