------------------------------ MODULE LinkCalls ------------------------------
(***************************************************************************)
(* Requests over the link, from the thread of endbotd that asks to the     *)
(* callback on the server thread and back: LinkConnection of link.py at    *)
(* both ends, the handlers of link_adapter.py, ServerThreadBridge of       *)
(* dispatch.py; and the connections of the endbot CLI (endbotd_client.py). *)
(*                                                                         *)
(* A call is "world", handled by a pool of the plugin, or "ordered" (a     *)
(* delivery or a permission), handled one at a time.  Both ends have       *)
(* deadlines of their own and the server thread may be stuck for as long   *)
(* as it likes, so either may give up at any moment.  Presence and what is *)
(* delivered are PluginLink's.                                             *)
(***************************************************************************)
EXTENDS Naturals, Sequences, FiniteSets, SequencesExt

CONSTANTS Calls,      \* requests endbotd makes, 1..n, in this order
          Conns,      \* links, 1..n, one after the other
          Workers,    \* threads of the plugin's pool
          MaxQueued,  \* MAX_QUEUED_FRAMES
          Clients,    \* endbot CLI processes
          MaxCli,     \* MAX_CLI_CONNECTIONS
          MaxSeen,    \* MAX_CLI_REQUESTS
          Faults,     \* times a link breaks or the plugin is disabled
          Extras,     \* requests a CLI connection carries beyond its one
          None

Kinds    == {"world", "ordered"}
Told     == {"ran", "late", "off"}          \* the callback's answer, its deadline, plugin disabled
Outcomes == Told \cup {"timeout", "unavailable"}

ASSUME CallBounds ==
  /\ IsFiniteSet(Calls) /\ Calls = 1..Cardinality(Calls)
  /\ IsFiniteSet(Conns) /\ Conns = 1..Cardinality(Conns)
  /\ {Workers, MaxQueued, MaxCli, MaxSeen} \subseteq Nat \ {0} /\ {Faults, Extras} \subseteq Nat
  /\ None \notin Kinds \cup Outcomes \cup {"pending", "pool", "call", "answered", "ok", "busy"}
  /\ None \notin Nat /\ \A ids \in SUBSET (1..2) : None # ids

VARIABLES
  call,     \* per call: what its thread in endbotd waits for or was told
  current,  \* LinkServer._link: the number of the link, 0 before the first
  link,     \* per link: its two ends, what is in flight, the plugin's ordered queue
  handler,  \* per call: the plugin's thread for it
  fut,      \* per call: its Future in the ServerThreadBridge
  tasks,    \* what the scheduler holds for the server thread
  running,  \* the call whose callback the server thread runs, or None
  applied,  \* ghost: calls whose callback ran, in order
  bridge,   \* whether it is open, and what close() still has to tell
  faults,   \* Faults left
  cli, seen, ran, extra  \* per client: its state, the identifiers endbotd saw, how often its request ran

linkVars == <<call, current, link, handler, fut, tasks, running, applied, bridge, faults>>
cliVars  == <<cli, seen, ran, extra>>
vars     == <<linkVars, cliVars>>

Frame    == [id: Nat, of: Calls]
Answer   == [id: Nat, of: Calls, says: Told]
NoCall(pc) == [pc |-> pc, kind |-> None, on |-> 0, id |-> 0, says |-> None, of |-> None]
NewLink    == [srv |-> TRUE, plug |-> TRUE, next |-> 1, down |-> <<>>, up |-> <<>>, queue |-> <<>>]
NoLink     == [srv |-> FALSE, plug |-> FALSE, next |-> 1, down |-> <<>>, up |-> <<>>, queue |-> <<>>]

\* The link and the CLI share nothing here, so that a behaviour is about one or the
\* other; one in which something breaks makes a call fewer.
Made(k, cliOnly, breaks) == ~cliOnly /\ (breaks => k < Cardinality(Calls))

Init ==
  /\ \E cliOnly, breaks \in BOOLEAN :
       /\ call = [k \in Calls |-> NoCall(IF Made(k, cliOnly, breaks) THEN "new" ELSE "none")]
       /\ cli = [p \in Clients |-> [pc |-> IF cliOnly THEN "new" ELSE "none", says |-> None, wire |-> <<>>, back |-> <<>>]]
       /\ faults = IF breaks /\ ~cliOnly THEN Faults ELSE 0
  /\ current = 0 /\ link = [c \in Conns |-> NoLink]
  /\ handler = [k \in Calls |-> None] /\ fut = [k \in Calls |-> None]
  /\ tasks = <<>> /\ running = None /\ applied = <<>>
  /\ bridge = [open |-> TRUE, rest |-> {}, at |-> None]
  /\ extra = Extras
  /\ seen = [p \in Clients |-> None] /\ ran = [p \in Clients |-> 0]

(***************************************************************************)
(* endbotd's end.                                                          *)
(***************************************************************************)
\* the calls whose Future is in _pending of link c
Pending(c) == {k \in Calls : call[k].pc = "waits" /\ call[k].on = c}

\* the thread of a call goes on with what it is told
Ended(k, says) == [call[k] EXCEPT !.pc = "done", !.says = says]

\* close: what is pending is told so
Unavailable(c) == [k \in Calls |-> IF k \in Pending(c) THEN Ended(k, "unavailable") ELSE call[k]]

\* a closed end has read nothing more
SrvClosed(c)  == [link[c] EXCEPT !.srv = FALSE, !.up = <<>>]
PlugClosed(c) == [link[c] EXCEPT !.plug = FALSE, !.down = <<>>]

\* _outbound is a Queue of MAX_QUEUED_FRAMES
Full(queue) == Len(queue) = MaxQueued

\* LinkServer.request and LinkConnection.send; a peer that does not read loses the link
Send(k, kind) ==
  /\ call[k].pc = "new" /\ \A j \in 1..k - 1 : call[j].pc # "new"
  /\ IF current = 0 \/ ~link[current].srv
     THEN call' = [call EXCEPT ![k] = Ended(k, "unavailable")] /\ UNCHANGED link
     ELSE IF Full(link[current].down)
     THEN /\ call' = [Unavailable(current) EXCEPT ![k] = Ended(k, "unavailable")]
          /\ link' = [link EXCEPT ![current].srv = FALSE]
     ELSE /\ call' = [call EXCEPT ![k] = [pc |-> "waits", kind |-> kind, on |-> current, id |-> link[current].next,
                                          says |-> None, of |-> None]]
          /\ link' = [link EXCEPT ![current].next = @ + 1,
                                  ![current].down = Append(@, [id |-> link[current].next, of |-> k])]
  /\ UNCHANGED <<current, handler, fut, tasks, running, applied, bridge, faults>>

\* request: its deadline passes, and the Future is taken out
TimesOut(k) ==
  /\ call[k].pc = "waits"
  /\ call' = [call EXCEPT ![k] = Ended(k, "timeout")]
  /\ UNCHANGED <<current, link, handler, fut, tasks, running, applied, bridge, faults>>

\* Mutant: a reply answers the oldest request
MatchOldest(c, id) == {k \in Pending(c) : \A j \in Pending(c) : call[k].id <= call[j].id}

\* _accept_reply: the Future of that identifier, if it still waits
Match(c, id) == {k \in Pending(c) : call[k].id = id}

Replied(k, reply) == [Ended(k, reply.says) EXCEPT !.of = reply.of]

AcceptReply(c) ==
  /\ link[c].srv /\ link[c].up # <<>>
  /\ LET reply == Head(link[c].up) IN
       call' = [k \in Calls |-> IF k \in Match(c, reply.id) THEN Replied(k, reply) ELSE call[k]]
  /\ link' = [link EXCEPT ![c].up = Tail(@)]
  /\ UNCHANGED <<current, handler, fut, tasks, running, applied, bridge, faults>>

\* the reader of endbotd sees the end of the stream, or the writer fails
ServerCloses(c) ==
  /\ link[c].srv /\ ~link[c].plug
  /\ link' = [link EXCEPT ![c] = SrvClosed(c)] /\ call' = Unavailable(c)
  /\ UNCHANGED <<current, handler, fut, tasks, running, applied, bridge, faults>>

\* the plugin dials again once its own end is closed; endbotd replaces what it has
Connect ==
  /\ bridge.open /\ current + 1 \in Conns /\ (current # 0 => ~link[current].plug)
  /\ current' = current + 1
  /\ link' = [c \in Conns |-> IF c = current + 1 THEN NewLink ELSE SrvClosed(c)]
  /\ call' = IF current = 0 THEN call ELSE Unavailable(current)
  /\ UNCHANGED <<handler, fut, tasks, running, applied, bridge, faults>>

\* the socket breaks, and one of the ends is the first to see it
Break(c, end) ==
  /\ faults > 0 /\ faults' = faults - 1 /\ link[c].srv /\ link[c].plug
  /\ link' = [link EXCEPT ![c] = IF end = "srv" THEN SrvClosed(c) ELSE PlugClosed(c)]
  /\ call' = IF end = "srv" THEN Unavailable(c) ELSE call
  /\ UNCHANGED <<current, handler, fut, tasks, running, applied, bridge>>

(***************************************************************************)
(* The plugin's end.  What a closed link had already received is handled   *)
(* all the same; only its replies are dropped.                             *)
(***************************************************************************)
\* Mutant: every request type may run concurrently
PooledAll(k) == TRUE

\* concurrent = {"world"}
Pooled(k) == call[k].kind = "world"

\* _read_loop, _accept_request
PluginReads(c) ==
  /\ link[c].plug /\ link[c].down # <<>>
  /\ LET frame == Head(link[c].down) IN
       IF Pooled(frame.of)
       THEN handler' = [handler EXCEPT ![frame.of] = "pool"] /\ link' = [link EXCEPT ![c].down = Tail(@)]
       ELSE link' = [link EXCEPT ![c].down = Tail(@), ![c].queue = Append(@, frame)] /\ UNCHANGED handler
  /\ UNCHANGED <<call, current, fut, tasks, running, applied, bridge, faults>>

\* its reader sees the end of the stream; what was not read is lost
PluginCloses(c) ==
  /\ link[c].plug /\ ~link[c].srv
  /\ link' = [link EXCEPT ![c] = PlugClosed(c)]
  /\ UNCHANGED <<call, current, handler, fut, tasks, running, applied, bridge, faults>>

\* ServerThreadBridge.call: pending and scheduled, unless the plugin is disabled
BridgeCall(k) ==
  /\ handler' = [handler EXCEPT ![k] = "call"]
  /\ fut' = [fut EXCEPT ![k] = IF bridge.open THEN "pending" ELSE "off"]
  /\ tasks' = IF bridge.open THEN Append(tasks, k) ELSE tasks

\* _handle on a thread of the pool
PoolTakes(k) ==
  /\ handler[k] = "pool" /\ Cardinality({j \in Calls : handler[j] = "call" /\ Pooled(j)}) < Workers
  /\ BridgeCall(k)
  /\ UNCHANGED <<call, current, link, running, applied, bridge, faults>>

\* _ordered_loop: the next one, once the last is answered
OrderedTakes(c) ==
  /\ link[c].queue # <<>> /\ \A j \in Calls : ~(handler[j] = "call" /\ ~Pooled(j) /\ call[j].on = c)
  /\ BridgeCall(Head(link[c].queue).of)
  /\ link' = [link EXCEPT ![c].queue = Tail(@)]
  /\ UNCHANGED <<call, current, running, applied, bridge, faults>>

\* _finish: the first to tell the Future is the one that counts
Finished(k, says) == [fut EXCEPT ![k] = IF @ = "pending" THEN says ELSE @]

\* Mutant: only a callback that has not started has a deadline
GivesUpUnstarted(k) ==
  /\ handler[k] = "call" /\ fut[k] = "pending" /\ running # k
  /\ fut' = Finished(k, "late")
  /\ UNCHANGED <<call, current, link, handler, tasks, running, applied, bridge, faults>>

\* call gives up at its deadline
GivesUp(k) ==
  /\ handler[k] = "call" /\ fut[k] = "pending"
  /\ fut' = Finished(k, "late")
  /\ UNCHANGED <<call, current, link, handler, tasks, running, applied, bridge, faults>>

\* _handle: the reply, if the link is still there
Answers(k) ==
  /\ handler[k] = "call" /\ fut[k] # "pending"
  /\ handler' = [handler EXCEPT ![k] = "answered"]
  /\ LET c == call[k].on IN
       link' = IF ~link[c].plug THEN link
               ELSE IF Full(link[c].up) THEN [link EXCEPT ![c] = PlugClosed(c)]
               ELSE [link EXCEPT ![c].up = Append(@, [id |-> call[k].id, of |-> k, says |-> fut[k]])]
  /\ UNCHANGED <<call, current, fut, tasks, running, applied, bridge, faults>>

(***************************************************************************)
(* The server thread.                                                      *)
(***************************************************************************)
\* Mutant: a callback nobody waits for any more is run
RunsAny(k) == bridge.open

\* invoke
Runs(k) == bridge.open /\ fut[k] = "pending"

Invoke ==
  /\ running = None /\ bridge.rest = {} /\ tasks # <<>>
  /\ tasks' = Tail(tasks) /\ running' = IF Runs(Head(tasks)) THEN Head(tasks) ELSE None
  /\ UNCHANGED <<call, current, link, handler, fut, applied, bridge, faults>>

Finish ==
  /\ running # None
  /\ running' = None /\ applied' = Append(applied, running) /\ fut' = Finished(running, "ran")
  /\ UNCHANGED <<call, current, link, handler, tasks, bridge, faults>>

\* on_disable: the link is closed, and the bridge with the Futures it had then
Disable ==
  /\ bridge.open /\ running = None /\ faults > 0 /\ faults' = faults - 1
  /\ bridge' = [bridge EXCEPT !.open = FALSE, !.rest = {k \in Calls : fut[k] = "pending"}]
  /\ link' = [c \in Conns |-> PlugClosed(c)]
  /\ UNCHANGED <<call, current, handler, fut, tasks, running, applied>>

\* close looks at a Future and tells it without the lock: one that was told in
\* between makes it fail, and the others wait for their deadlines
CloseLooks(k) ==
  /\ k \in bridge.rest /\ bridge.at = None
  /\ bridge' = IF fut[k] = "pending" THEN [bridge EXCEPT !.at = k] ELSE [bridge EXCEPT !.rest = @ \ {k}]
  /\ UNCHANGED <<call, current, link, handler, fut, tasks, running, applied, faults>>

CloseTells ==
  /\ bridge.at # None
  /\ IF fut[bridge.at] = "pending"
     THEN fut' = [fut EXCEPT ![bridge.at] = "off"] /\ bridge' = [bridge EXCEPT !.rest = @ \ {bridge.at}, !.at = None]
     ELSE UNCHANGED fut /\ bridge' = [bridge EXCEPT !.rest = {}, !.at = None]
  /\ UNCHANGED <<call, current, link, handler, tasks, running, applied, faults>>

(***************************************************************************)
(* The endbot CLI: one request, with identifier 1, on a connection of its  *)
(* own.  endbotd must bear a peer that repeats it or sends others.         *)
(***************************************************************************)
Connected == {p \in Clients : seen[p] # None}
CliSays(p, says) == [cli EXCEPT ![p].pc = "done", ![p].says = says]

\* _accept_cli, or too many connections
CliConnects(p) ==
  /\ cli[p].pc = "new"
  /\ IF Cardinality(Connected) >= MaxCli THEN cli' = CliSays(p, "busy") /\ UNCHANGED seen
     ELSE cli' = [cli EXCEPT ![p].pc = "hello"] /\ seen' = [seen EXCEPT ![p] = {}]
  /\ UNCHANGED <<ran, extra>>

CliSends(p, id) ==
  /\ \/ cli[p].pc = "hello" /\ id = 1 /\ UNCHANGED extra
     \/ cli[p].pc = "sent" /\ extra > 0 /\ extra' = extra - 1
  /\ cli' = [cli EXCEPT ![p].pc = "sent", ![p].wire = Append(@, id)]
  /\ UNCHANGED <<seen, ran>>

\* Mutant: an identifier is not remembered
RememberedNone(p, id) == {}

\* _seen: identifiers this connection has used
Remembered(p, id) == seen[p] \cup {id}

\* _accept_request and _handle: a repeated identifier is refused without running
\* it, and one too many closes the connection
CliHandled(p) ==
  /\ seen[p] # None /\ cli[p].wire # <<>>
  /\ LET id == Head(cli[p].wire) IN
       IF id \notin seen[p] /\ Cardinality(seen[p]) >= MaxSeen
       THEN seen' = [seen EXCEPT ![p] = None] /\ UNCHANGED <<cli, ran>>
       ELSE /\ seen' = [seen EXCEPT ![p] = Remembered(p, id)]
            /\ ran' = [ran EXCEPT ![p] = IF id = 1 /\ id \notin seen[p] THEN @ + 1 ELSE @]
            /\ cli' = [cli EXCEPT ![p].wire = Tail(@),
                                  ![p].back = Append(@, IF id \in seen[p] THEN "duplicate" ELSE "ok")]
  /\ UNCHANGED extra

\* the first reply is the result
CliReads(p) ==
  /\ cli[p].pc = "sent" /\ cli[p].back # <<>>
  /\ cli' = CliSays(p, Head(cli[p].back))
  /\ UNCHANGED <<seen, ran, extra>>

\* what no reply means: once the request was sent its result is not known
Lost(pc) == IF pc = "sent" THEN "unknown" ELSE "unavailable"

\* the deadline passes, or the connection is lost
CliLost(p) ==
  /\ cli[p].pc \in {"hello", "sent"}
  /\ cli' = CliSays(p, Lost(cli[p].pc))
  /\ UNCHANGED <<seen, ran, extra>>

\* endbotd's end closes: the client is gone, the connection idle, endbotd stops
CliCloses(p) ==
  /\ seen[p] # None /\ seen' = [seen EXCEPT ![p] = None]
  /\ UNCHANGED <<cli, ran, extra>>

LinkNext ==
  \/ \E k \in Calls : \/ TimesOut(k) \/ PoolTakes(k) \/ GivesUp(k) \/ Answers(k) \/ CloseLooks(k)
                      \/ \E kind \in Kinds : Send(k, kind)
  \/ \E c \in Conns : \/ AcceptReply(c) \/ ServerCloses(c) \/ PluginReads(c) \/ PluginCloses(c) \/ OrderedTakes(c)
                      \/ \E end \in {"srv", "plug"} : Break(c, end)
  \/ Connect \/ Invoke \/ Finish \/ Disable \/ CloseTells

CliNext ==
  \E p \in Clients : \/ CliConnects(p) \/ CliHandled(p) \/ CliReads(p) \/ CliLost(p) \/ CliCloses(p)
                     \/ \E id \in 1..2 : CliSends(p, id)

Next == (LinkNext /\ UNCHANGED cliVars) \/ (CliNext /\ UNCHANGED linkVars)

\* every thread goes on but the server thread, which may be stuck
Fairness ==
  /\ \A k \in Calls : WF_vars((TimesOut(k) \/ PoolTakes(k) \/ GivesUp(k) \/ Answers(k)) /\ UNCHANGED cliVars)
  /\ \A c \in Conns : WF_vars((PluginReads(c) \/ PluginCloses(c)) /\ UNCHANGED cliVars)
                      /\ WF_vars(OrderedTakes(c) /\ UNCHANGED cliVars)

Spec == Init /\ [][Next]_vars /\ Fairness

-----------------------------------------------------------------------------
\* Everything stays within its type; no queue outgrows its bound, and a
\* connection remembers no more identifiers than it may use (link.py).
TypeOK ==
  /\ \A k \in Calls :
       /\ call[k].pc \in {"none", "new", "waits", "done"} /\ call[k].says \in Outcomes \cup {None}
       /\ handler[k] \in {None, "pool", "call", "answered"} /\ fut[k] \in Told \cup {None, "pending"}
  /\ \A c \in Conns :
       /\ link[c].down \in Seq(Frame) /\ Len(link[c].down) <= MaxQueued
       /\ link[c].up \in Seq(Answer) /\ Len(link[c].up) <= MaxQueued
  /\ running \in Calls \cup {None} /\ tasks \in Seq(Calls) /\ applied \in Seq(Calls)
  /\ \A p \in Clients : seen[p] # None => Cardinality(seen[p]) <= MaxSeen
  /\ Cardinality(Connected) <= MaxCli

\* What a thread of endbotd is told is true of its own request, whatever timed out
\* before it or was replied late: a result means that its callback ran, and "disabled"
\* that it never will; no callback runs twice (_accept_reply, ServerThreadBridge).
AnswerTrue ==
  /\ \A k \in Calls :
       /\ call[k].says \in Told => call[k].of = k
       /\ call[k].says = "ran" => k \in Range(applied)
       /\ call[k].says = "off" => k \notin Range(applied) \cup {running}
  /\ \A i, j \in DOMAIN applied : applied[i] = applied[j] => i = j

\* A callback the plugin gave up on before it started is never run: what endbotd was
\* told is late cannot change the world afterwards (ServerThreadBridge.call).
GivenUpIsSkipped ==
  [][\A k \in Calls : fut[k] \in {"late", "off"} /\ running # k /\ k \notin Range(applied)
       => running' # k /\ k \notin Range(applied')]_vars

\* Deliveries and permissions of one link take effect in the order endbotd sent
\* them, also when some of them timed out at either end (_ordered_loop).
InOrder ==
  \A i, j \in DOMAIN applied :
    i < j /\ call[applied[i]].kind = "ordered" /\ call[applied[j]].kind = "ordered"
          /\ call[applied[i]].on = call[applied[j]].on => applied[i] < applied[j]

\* No thread of the plugin stays with a request: the one handling it is free again,
\* also when the server thread is stuck, the link gone or the plugin disabled
\* (call's deadline, ServerThreadBridge.close).
ThreadsFreed == \A k \in Calls : handler[k] \in {"pool", "call"} ~> handler[k] = "answered"

\* A request of the CLI runs at most once, however often it arrives, and the CLI says
\* "retry" only when it did not run and never will (_seen, _request's sent).
CliOnce ==
  \A p \in Clients :
    /\ ran[p] <= 1 /\ (cli[p].says = "ok" => ran[p] = 1)
    /\ cli[p].says \in {"busy", "unavailable"} => ran[p] = 0
=============================================================================
