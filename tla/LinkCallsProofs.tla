--------------------------- MODULE LinkCallsProofs ---------------------------
(***************************************************************************)
(* Proofs about LinkCalls, for any number of calls, links, pool threads,   *)
(* clients and faults: what a caller is told is true of its own request,   *)
(* ordered requests take effect in order, what was given up is not run,    *)
(* and a request of the CLI runs once.                                     *)
(***************************************************************************)
EXTENDS LinkCalls, FiniteSetTheorems, TLAPS

CallRec == [pc: {"none", "new", "waits", "done"}, kind: Kinds \cup {None}, on: Nat, id: Nat,
            says: Outcomes \cup {None}, of: Calls \cup {None}]
LinkRec == [srv: BOOLEAN, plug: BOOLEAN, next: Nat, down: Seq(Frame), up: Seq(Answer), queue: Seq(Frame)]

LinkTypes ==
  /\ call \in [Calls -> CallRec] /\ current \in Nat /\ link \in [Conns -> LinkRec]
  /\ handler \in [Calls -> {None, "pool", "call", "answered"}]
  /\ fut \in [Calls -> Told \cup {None, "pending"}]
  /\ tasks \in Seq(Calls) /\ running \in Calls \cup {None} /\ applied \in Seq(Calls)
  /\ bridge \in [open: BOOLEAN, rest: SUBSET Calls, at: Calls \cup {None}]

\* Calls are made in order, and an identifier names one call of its link.
CallsKnown ==
  /\ current # 0 => current \in Conns
  /\ \A k \in Calls :
       /\ call[k].on # 0 => call[k].on \in Conns /\ call[k].on <= current /\ call[k].id < link[call[k].on].next
       /\ call[k].pc \in {"none", "new"} => call[k].on = 0 /\ call[k].says = None
  /\ \A j, k \in Calls :
       /\ j < k /\ call[j].pc = "new" => call[k].pc \in {"none", "new"}
       /\ call[j].on = call[k].on /\ call[j].on # 0 /\ call[j].id = call[k].id => j = k

Increasing(s) == \A i, j \in DOMAIN s : i < j => s[i].of < s[j].of

\* What is in flight on a link is its own, unhandled and in the order of the calls.
FramesOf(c) ==
  /\ \A i \in DOMAIN link[c].down : call[link[c].down[i].of].on = c /\ handler[link[c].down[i].of] = None
  /\ \A i \in DOMAIN link[c].queue : /\ call[link[c].queue[i].of].on = c /\ handler[link[c].queue[i].of] = None
                                     /\ ~Pooled(link[c].queue[i].of)
  /\ Increasing(link[c].down) /\ Increasing(link[c].queue)
  /\ \A i \in DOMAIN link[c].queue : \A j \in DOMAIN link[c].down : link[c].queue[i].of < link[c].down[j].of
  /\ \A k \in Calls : handler[k] # None /\ ~Pooled(k) /\ call[k].on = c =>
       /\ \A i \in DOMAIN link[c].queue : k < link[c].queue[i].of
       /\ \A i \in DOMAIN link[c].down : k < link[c].down[i].of

FramesInOrder == \A c \in Conns : FramesOf(c)

\* A Future exists once the bridge was called, and is told once.
Futures ==
  /\ \A k \in Calls :
       /\ fut[k] = None <=> handler[k] \in {None, "pool"}
       /\ handler[k] # None => call[k].on # 0
       /\ handler[k] = "pool" => Pooled(k)
       /\ fut[k] = "ran" => k \in Range(applied)
       /\ fut[k] = "off" => k \notin Range(applied) /\ running # k
       /\ fut[k] = "pending" => k \notin Range(applied)
  /\ ~bridge.open => running = None
  /\ bridge.at # None \/ bridge.rest # {} => ~bridge.open

\* Replies and results are those of the Future of the same call.
RepliesTrue ==
  /\ \A c \in Conns : \A i \in DOMAIN link[c].up :
       LET r == link[c].up[i] IN call[r.of].on = c /\ call[r.of].id = r.id /\ fut[r.of] = r.says
  /\ \A k \in Calls : call[k].says \in Told => call[k].of = k /\ fut[k] = call[k].says

\* a may run before b: they differ, and are not two ordered calls the wrong way round.
Before(a, b) == a # b /\ (~Pooled(a) /\ ~Pooled(b) /\ call[a].on = call[b].on => a < b)

\* What ran, what runs and what is scheduled, in this order.
Pipeline ==
  /\ \A i \in DOMAIN tasks : fut[tasks[i]] # None
  /\ \A i \in DOMAIN applied : fut[applied[i]] # None
  /\ running # None => fut[running] # None
  /\ \A i, j \in DOMAIN applied : i < j => Before(applied[i], applied[j])
  /\ \A i, j \in DOMAIN tasks : i < j => Before(tasks[i], tasks[j])
  /\ \A i \in DOMAIN applied, j \in DOMAIN tasks : Before(applied[i], tasks[j])
  /\ running # None => /\ \A i \in DOMAIN applied : Before(applied[i], running)
                       /\ \A j \in DOMAIN tasks : Before(running, tasks[j])

CallInv == LinkTypes /\ CallsKnown /\ FramesInOrder /\ Futures /\ RepliesTrue /\ Pipeline

-----------------------------------------------------------------------------
\* The CLI: the identifiers seen tell whether the request ran, and a client that
\* was told to retry had nothing on the wire.
CliRec == [pc: {"none", "new", "hello", "sent", "done"},
           says: {None, "busy", "unavailable", "unknown", "ok", "duplicate"},
           wire: Seq(1..2), back: Seq({"ok", "duplicate"})]

CliTypes == cli \in [Clients -> CliRec] /\ seen \in [Clients -> {None} \cup SUBSET (1..2)] /\ ran \in [Clients -> {0, 1}]

RanOnce(p) ==
  /\ seen[p] # None => IF ran[p] = 0 THEN seen[p] = {} ELSE 1 \in seen[p]
  /\ ran[p] = 0 => cli[p].back = <<>> /\ (cli[p].wire # <<>> => Head(cli[p].wire) = 1)
  /\ cli[p].pc \in {"none", "new", "hello"} => ran[p] = 0 /\ cli[p].wire = <<>> /\ cli[p].says = None
  /\ cli[p].pc = "sent" /\ ran[p] = 0 => cli[p].wire # <<>>
  /\ cli[p].says = "ok" => ran[p] = 1
  /\ cli[p].says \in {"busy", "unavailable"} => ran[p] = 0 /\ cli[p].wire = <<>> /\ cli[p].pc = "done"

CliInv == CliTypes /\ \A p \in Clients : RanOnce(p)

-----------------------------------------------------------------------------
\* The numbers of calls and links are natural.
LEMMA Numbered ==
  /\ Calls \subseteq Nat \ {0} /\ Conns \subseteq Nat \ {0}
  /\ None \notin Calls /\ MaxSeen \in Nat \ {0}
  BY CallBounds, FS_CardinalityType

\* None is no outcome and no state of a handler or a Future.
LEMMA NoneApart ==
  /\ None \notin Told /\ None \notin Outcomes /\ None \notin Kinds
  /\ None \notin {"pending", "pool", "call", "answered", "ok", "busy", "unavailable", "off", "ran", "late"}
  /\ \A ids \in SUBSET (1..2) : None # ids
  BY CallBounds DEF Told, Outcomes, Kinds

\* Taking the head of a queue, and adding to it.
LEMMA TailIs ==
  ASSUME NEW S, NEW s \in Seq(S), s # <<>>
  PROVE  /\ Tail(s) \in Seq(S) /\ Head(s) \in S /\ Head(s) = s[1] /\ 1 \in DOMAIN s
         /\ \A i \in DOMAIN Tail(s) : i \in Nat \ {0} /\ i + 1 \in DOMAIN s /\ Tail(s)[i] = s[i + 1]
  OBVIOUS

LEMMA AppendIs ==
  ASSUME NEW S, NEW s \in Seq(S), NEW x \in S
  PROVE  /\ Append(s, x) \in Seq(S)
         /\ \A i \in DOMAIN Append(s, x) : (i \in DOMAIN s /\ Append(s, x)[i] = s[i])
                                           \/ (i = Len(s) + 1 /\ Append(s, x)[i] = x)
         /\ \A i \in DOMAIN s : i \in DOMAIN Append(s, x) /\ i < Len(s) + 1
         /\ Range(Append(s, x)) = Range(s) \cup {x}
  <1>1. /\ Append(s, x) \in Seq(S)
        /\ \A i \in DOMAIN Append(s, x) : (i \in DOMAIN s /\ Append(s, x)[i] = s[i])
                                           \/ (i = Len(s) + 1 /\ Append(s, x)[i] = x)
    OBVIOUS
  <1>2. \A i \in DOMAIN s : i \in DOMAIN Append(s, x) /\ i < Len(s) + 1 /\ Append(s, x)[i] = s[i]
    OBVIOUS
  <1>3. Len(s) + 1 \in DOMAIN Append(s, x) /\ Append(s, x)[Len(s) + 1] = x
    OBVIOUS
  <1> QED  BY <1>1, <1>2, <1>3 DEF Range

\* What ending a call and closing an end change.
LEMMA EndedIs ==
  ASSUME LinkTypes, NEW k \in Calls, NEW says \in Outcomes
  PROVE  LET r == Ended(k, says) IN
           /\ r \in CallRec /\ r.pc = "done" /\ r.says = says /\ r.of = call[k].of
           /\ r.on = call[k].on /\ r.id = call[k].id /\ r.kind = call[k].kind
  BY DEF LinkTypes, CallRec, Ended

LEMMA RepliedIs ==
  ASSUME LinkTypes, NEW k \in Calls, NEW reply \in Answer
  PROVE  LET r == Replied(k, reply) IN
           /\ r \in CallRec /\ r.pc = "done" /\ r.says = reply.says /\ r.of = reply.of
           /\ r.on = call[k].on /\ r.id = call[k].id /\ r.kind = call[k].kind
  <1>1. reply.says \in Outcomes /\ reply.of \in Calls  BY DEF Answer, Outcomes
  <1> HIDE DEF Ended, Outcomes
  <1> QED  BY <1>1, EndedIs DEF CallRec, Replied

LEMMA ClosedIs ==
  ASSUME LinkTypes, NEW c \in Conns
  PROVE  /\ SrvClosed(c) \in LinkRec /\ SrvClosed(c).up = <<>> /\ SrvClosed(c).next = link[c].next
         /\ SrvClosed(c).down = link[c].down /\ SrvClosed(c).queue = link[c].queue
         /\ PlugClosed(c) \in LinkRec /\ PlugClosed(c).up = link[c].up /\ PlugClosed(c).next = link[c].next
         /\ PlugClosed(c).down = <<>> /\ PlugClosed(c).queue = link[c].queue
  <1>1. link[c] \in LinkRec /\ <<>> \in Seq(Frame) /\ <<>> \in Seq(Answer)  BY DEF LinkTypes
  <1> HIDE DEF Frame, Answer
  <1> QED  BY <1>1 DEF LinkRec, SrvClosed, PlugClosed

\* What a change of some fields makes of a link.
IsLink(r, next, down, queue, up) ==
  r \in LinkRec /\ r.next = next /\ r.down = down /\ r.queue = queue /\ r.up = up

LEMMA LinkWith ==
  ASSUME NEW r \in LinkRec, NEW n \in Nat, NEW d \in Seq(Frame), NEW q \in Seq(Frame), NEW u \in Seq(Answer)
  PROVE  /\ IsLink([r EXCEPT !.srv = FALSE], r.next, r.down, r.queue, r.up)
         /\ IsLink([r EXCEPT !.next = n, !.down = d], n, d, r.queue, r.up)
         /\ IsLink([r EXCEPT !.up = u], r.next, r.down, r.queue, u)
         /\ IsLink([r EXCEPT !.down = d], r.next, d, r.queue, r.up)
         /\ IsLink([r EXCEPT !.down = d, !.queue = q], r.next, d, q, r.up)
         /\ IsLink([r EXCEPT !.queue = q], r.next, r.down, q, r.up)
  BY DEF IsLink, LinkRec

LEMMA InitCalls == Init => CallInv
  <1> SUFFICES ASSUME Init PROVE CallInv  OBVIOUS
  <1>1. LinkTypes
    <2>1. /\ NoLink \in LinkRec /\ NoCall("new") \in CallRec /\ NoCall("none") \in CallRec
      BY DEF CallRec, LinkRec, NoCall, NoLink, Frame, Answer
    <2>2. call \in [Calls -> CallRec]  BY <2>1 DEF Init
    <2> QED  BY <2>1, <2>2 DEF Init, LinkTypes
  <1>2. \A k \in Calls : call[k].on = 0 /\ call[k].says = None /\ call[k].pc \in {"none", "new"}
    BY DEF Init, NoCall
  <1>3. \A c \in Conns : link[c].down = <<>> /\ link[c].up = <<>> /\ link[c].queue = <<>>
    BY DEF Init, NoLink
  <1>4. CallsKnown  BY <1>2 DEF CallsKnown, Init
  <1>5. FramesInOrder  BY <1>3 DEF FramesInOrder, FramesOf, Increasing, Init
  <1>6. Futures  BY Numbered, NoneApart DEF Futures, Range, Init, Told
  <1>7. RepliesTrue  BY <1>2, <1>3, NoneApart DEF RepliesTrue
  <1>8. Pipeline  BY DEF Pipeline, Init
  <1> QED  BY <1>1, <1>4, <1>5, <1>6, <1>7, <1>8 DEF CallInv

LEMMA InitCli == Init => CliInv
  <1> SUFFICES ASSUME Init PROVE CliInv  OBVIOUS
  <1>1. PICK start \in {"none", "new"} :
          cli = [p \in Clients |-> [pc |-> start, says |-> None, wire |-> <<>>, back |-> <<>>]]
    BY DEF Init
  <1> QED  BY <1>1, NoneApart DEF Init, CliInv, CliTypes, CliRec, RanOnce

-----------------------------------------------------------------------------
\* The fields of calls and links.
LEMMA Fields ==
  ASSUME LinkTypes
  PROVE  /\ \A k \in Calls : /\ call[k] \in CallRec /\ call[k].on \in Nat /\ call[k].id \in Nat
                             /\ call[k].says \in Outcomes \cup {None}
         /\ \A c \in Conns : /\ link[c] \in LinkRec /\ link[c].next \in Nat
                             /\ link[c].down \in Seq(Frame) /\ link[c].queue \in Seq(Frame)
                             /\ link[c].up \in Seq(Answer)
         /\ \A f \in Frame : f.of \in Calls /\ f.id \in Nat
         /\ \A r \in Answer : r.of \in Calls /\ r.id \in Nat /\ r.says \in Told
         /\ \A k \in Calls : fut[k] \in Told \cup {None, "pending"}
  <1>1. \A f \in Frame : f.of \in Calls /\ f.id \in Nat  BY DEF Frame
  <1>2. \A r \in Answer : r.of \in Calls /\ r.id \in Nat /\ r.says \in Told  BY DEF Answer
  <1> QED  BY <1>1, <1>2 DEF LinkTypes, CallRec, LinkRec

LEMMA InFlight ==
  ASSUME LinkTypes, NEW c \in Conns
  PROVE  /\ \A i \in DOMAIN link[c].down : link[c].down[i].of \in Calls
         /\ \A i \in DOMAIN link[c].queue : link[c].queue[i].of \in Calls
         /\ \A i \in DOMAIN link[c].up : link[c].up[i].of \in Calls /\ link[c].up[i].says \in Told
  BY Fields

LEMMA Elements ==
  ASSUME LinkTypes
  PROVE  /\ \A i \in DOMAIN tasks : tasks[i] \in Calls
         /\ \A i \in DOMAIN applied : applied[i] \in Calls
         /\ running # None => running \in Calls
  BY DEF LinkTypes

(***************************************************************************)
(* A step that only ends calls without an answer and drops what is in      *)
(* flight: a deadline of endbotd, an end that closes, a new link, a call   *)
(* refused.                                                                *)
(***************************************************************************)
CallsEnd ==
  /\ call' \in [Calls -> CallRec]
  /\ \A k \in Calls :
       /\ call'[k].on = call[k].on /\ call'[k].id = call[k].id /\ call'[k].kind = call[k].kind
       /\ \/ call'[k] = call[k]
          \/ /\ call'[k].pc = "done" /\ call'[k].says \in {"timeout", "unavailable"}
             /\ call[k].pc \in {"new", "waits"}
             /\ call[k].pc = "new" => \A j \in Calls : j < k => call[j].pc # "new"

LinksDrop ==
  /\ link' \in [Conns -> LinkRec]
  /\ \A c \in Conns :
       /\ link'[c].next = link[c].next \/ c > current
       /\ link'[c].down \in {link[c].down, <<>>}
       /\ link'[c].queue \in {link[c].queue, <<>>}
       /\ link'[c].up \in {link[c].up, <<>>}

Quiet ==
  /\ CallsEnd /\ LinksDrop /\ UNCHANGED <<handler, fut, tasks, running, applied>>
  /\ current' = current \/ (current' = current + 1 /\ current' \in Conns)

LEMMA UnavailableIs ==
  ASSUME LinkTypes, NEW c, call' = Unavailable(c)
  PROVE  CallsEnd
  <1>1. "unavailable" \in Outcomes  BY DEF Outcomes
  <1>2. \A k \in Calls : call[k] \in CallRec  BY DEF LinkTypes
  <1> QED  BY <1>1, <1>2, EndedIs DEF Unavailable, Pending, CallsEnd

LEMMA UnchangedCalls ==
  ASSUME LinkTypes, call' = call
  PROVE  CallsEnd
  BY DEF LinkTypes, CallsEnd

LEMMA UnchangedLinks ==
  ASSUME LinkTypes, link' = link
  PROVE  LinksDrop
  BY DEF LinkTypes, LinksDrop

LEMMA QuietKeeps ==
  ASSUME CallInv, Quiet
  PROVE  CallsKnown' /\ FramesInOrder' /\ RepliesTrue' /\ Pipeline'
  <1>0. LinkTypes /\ CallsKnown /\ FramesInOrder /\ Futures /\ RepliesTrue /\ Pipeline  BY DEF CallInv
  <1>1. CallsKnown'
    <2>1. current' # 0 => current' \in Conns  BY <1>0 DEF CallsKnown, Quiet
    <2>2. ASSUME NEW k \in Calls
          PROVE  /\ call'[k].on # 0 => /\ call'[k].on \in Conns /\ call'[k].on <= current'
                                       /\ call'[k].id < link'[call'[k].on].next
                 /\ call'[k].pc \in {"none", "new"} => call'[k].on = 0 /\ call'[k].says = None
      <3>1. call'[k].pc \in {"none", "new"} => call'[k].on = 0 /\ call'[k].says = None
        BY <1>0 DEF CallsKnown, Quiet, CallsEnd
      <3>2. CASE call[k].on # 0
        <4>1. call[k].on \in Conns /\ call[k].on <= current /\ call[k].id < link[call[k].on].next
          BY <1>0, <3>2 DEF CallsKnown
        <4>2. link'[call[k].on].next = link[call[k].on].next
          <5>1. call[k].on \in Nat /\ current \in Nat /\ ~(call[k].on > current)
            BY <1>0, <4>1, Fields DEF LinkTypes
          <5> QED  BY <4>1, <5>1 DEF Quiet, LinksDrop
        <4>3. call'[k].on = call[k].on /\ call'[k].id = call[k].id  BY DEF Quiet, CallsEnd
        <4>4. call[k].on <= current'  BY <1>0, <4>1, Fields DEF Quiet, LinkTypes
        <4> QED  BY <3>1, <4>1, <4>2, <4>3, <4>4
      <3> QED  BY <3>1, <3>2 DEF Quiet, CallsEnd
    <2>3. ASSUME NEW j \in Calls, NEW k \in Calls
          PROVE  /\ j < k /\ call'[j].pc = "new" => call'[k].pc \in {"none", "new"}
                 /\ call'[j].on = call'[k].on /\ call'[j].on # 0 /\ call'[j].id = call'[k].id => j = k
      BY <1>0 DEF CallsKnown, Quiet, CallsEnd
    <2> QED  BY <2>1, <2>2, <2>3 DEF CallsKnown
  <1>2. FramesInOrder'
    BY <1>0, InFlight DEF FramesInOrder, FramesOf, Quiet, CallsEnd, LinksDrop, Increasing, Pooled
  <1>3. RepliesTrue'
    BY <1>0, InFlight DEF RepliesTrue, Quiet, CallsEnd, LinksDrop, Told
  <1>4. Pipeline'
    <2>1. \A a, b \in Calls : Before(a, b) => Before(a, b)'
      BY DEF Quiet, CallsEnd, Before, Pooled
    <2> QED  BY <1>0, <2>1, Elements DEF Pipeline, Quiet
  <1> QED  BY <1>1, <1>2, <1>3, <1>4

LEMMA QuietInv ==
  ASSUME CallInv, Quiet, bridge' = bridge
  PROVE  CallInv'
  <1>1. LinkTypes'  BY Numbered DEF CallInv, LinkTypes, Quiet, CallsEnd, LinksDrop
  <1>2. Futures'  BY DEF CallInv, Futures, Quiet, CallsEnd, Pooled
  <1> QED  BY <1>1, <1>2, QuietKeeps DEF CallInv

LEMMA TimesOutKeeps ==
  ASSUME CallInv, NEW k \in Calls, TimesOut(k)
  PROVE  CallInv'
  <1>0. LinkTypes  BY DEF CallInv
  <1>1. CallsEnd
    <2>1. "timeout" \in Outcomes /\ \A j \in Calls : call[j] \in CallRec  BY <1>0, Fields DEF Outcomes
    <2> QED  BY <1>0, <2>1, EndedIs DEF TimesOut, CallsEnd, LinkTypes
  <1> QED  BY <1>0, <1>1, QuietInv, UnchangedLinks DEF Quiet, TimesOut

LEMMA ClosingKeeps ==
  ASSUME CallInv, NEW c \in Conns,
         ServerCloses(c) \/ PluginCloses(c) \/ \E end \in {"srv", "plug"} : Break(c, end)
  PROVE  CallInv'
  <1>0. LinkTypes  BY DEF CallInv
  <1>1. link' = [link EXCEPT ![c] = SrvClosed(c)] \/ link' = [link EXCEPT ![c] = PlugClosed(c)]
    BY DEF ServerCloses, PluginCloses, Break
  <1>2. LinksDrop  BY <1>0, <1>1, ClosedIs DEF LinksDrop, LinkTypes
  <1>3. CallsEnd  BY <1>0, UnavailableIs, UnchangedCalls DEF ServerCloses, PluginCloses, Break
  <1> QED  BY <1>2, <1>3, QuietInv DEF Quiet, ServerCloses, PluginCloses, Break

LEMMA ConnectKeeps ==
  ASSUME CallInv, Connect
  PROVE  CallInv'
  <1>0. LinkTypes  BY DEF CallInv
  <1>1. NewLink \in LinkRec /\ NewLink.down = <<>> /\ NewLink.queue = <<>> /\ NewLink.up = <<>>
    BY DEF NewLink, LinkRec
  <1>2. current + 1 > current  BY <1>0 DEF LinkTypes
  <1>3. LinksDrop  BY <1>0, <1>1, <1>2, ClosedIs DEF LinksDrop, Connect
  <1>4. CallsEnd  BY <1>0, UnavailableIs, UnchangedCalls DEF Connect
  <1> QED  BY <1>3, <1>4, QuietInv DEF Quiet, Connect

LEMMA DisableKeeps ==
  ASSUME CallInv, Disable
  PROVE  CallInv'
  <1>0. LinkTypes  BY DEF CallInv
  <1>1. LinksDrop  BY <1>0, ClosedIs DEF LinksDrop, Disable
  <1>2. CallsEnd  BY <1>0, UnchangedCalls DEF Disable
  <1>3. Quiet  BY <1>1, <1>2 DEF Quiet, Disable
  <1>4. bridge' \in [open: BOOLEAN, rest: SUBSET Calls, at: Calls \cup {None}] /\ bridge'.open = FALSE
    BY <1>0 DEF Disable, LinkTypes
  <1>5. LinkTypes'  BY <1>0, <1>1, <1>2, <1>4 DEF LinkTypes, Disable, CallsEnd, LinksDrop
  <1>6. Futures'  BY <1>4 DEF CallInv, Futures, Disable, Pooled
  <1> QED  BY <1>3, <1>5, <1>6, QuietKeeps DEF CallInv

LEMMA SendKeeps ==
  ASSUME CallInv, NEW k \in Calls, NEW kind \in Kinds, Send(k, kind)
  PROVE  CallInv'
  <1>0. LinkTypes /\ CallsKnown /\ FramesInOrder /\ Futures /\ RepliesTrue /\ Pipeline  BY DEF CallInv
  <1>1. call[k].pc = "new" /\ \A j \in Calls : j < k => call[j].pc # "new"
    BY Numbered DEF Send
  <1>2. "unavailable" \in Outcomes /\ \A j \in Calls : call[j] \in CallRec  BY <1>0, Fields DEF Outcomes
  <1>3. CASE current = 0 \/ ~link[current].srv
    <2>1. CallsEnd
      BY <1>0, <1>1, <1>2, <1>3, EndedIs DEF Send, CallsEnd, LinkTypes
    <2> QED  BY <1>0, <1>3, <2>1, QuietInv, UnchangedLinks DEF Quiet, Send
  <1>4. CASE ~(current = 0 \/ ~link[current].srv) /\ Full(link[current].down)
    <2>1. current \in Conns  BY <1>0, <1>4 DEF CallsKnown
    <2>2. \A j \in Calls : call'[j] = IF j = k \/ j \in Pending(current) THEN Ended(j, "unavailable") ELSE call[j]
      BY <1>4 DEF Send, Unavailable
    <2>3. CallsEnd
      <3>1. call' \in [Calls -> CallRec]
        BY <1>0, <1>2, <1>4, EndedIs DEF Send, Unavailable
      <3> QED  BY <1>0, <1>1, <1>2, <2>2, <3>1, EndedIs DEF CallsEnd, Pending
    <2>4. IsLink([link[current] EXCEPT !.srv = FALSE], link[current].next, link[current].down,
                 link[current].queue, link[current].up)
      BY <1>0, <2>1, LinkWith, Fields
    <2>5. LinksDrop
      <3>1. link' = [link EXCEPT ![current] = [link[current] EXCEPT !.srv = FALSE]]  BY <1>4 DEF Send
      <3> QED  BY <1>0, <2>1, <2>4, <3>1 DEF LinksDrop, LinkTypes, IsLink
    <2> QED  BY <1>0, <1>4, <2>3, <2>5, QuietInv DEF Quiet, Send
  <1>5. CASE ~(current = 0 \/ ~link[current].srv) /\ ~Full(link[current].down)
    <2>1. PICK c \in Conns : c = current /\ c # 0 /\ c \in Nat
      BY <1>0, <1>5, Numbered DEF CallsKnown
    <2> DEFINE frame == [id |-> link[c].next, of |-> k]
               rec == [pc |-> "waits", kind |-> kind, on |-> c, id |-> link[c].next, says |-> None, of |-> None]
               down == Append(link[c].down, frame)
    <2>2. link[c].next \in Nat /\ link[c].next + 1 \in Nat /\ link[c].down \in Seq(Frame) /\ link[c] \in LinkRec  BY <1>0, <2>1, Fields
    <2>3. frame \in Frame /\ frame.of = k /\ rec \in CallRec  BY <2>1, <2>2 DEF Frame, CallRec
    <2>4. down \in Seq(Frame)  BY <2>2, <2>3
    <2>5. IsLink([link[c] EXCEPT !.next = link[c].next + 1, !.down = down],
                 link[c].next + 1, down, link[c].queue, link[c].up)
      BY <1>0, <2>2, <2>4, LinkWith, Fields
    <2>6. /\ call' \in [Calls -> CallRec] /\ link' \in [Conns -> LinkRec]
          /\ call'[k] = rec /\ \A j \in Calls : j # k => call'[j] = call[j]
          /\ link'[c].next = link[c].next + 1 /\ link'[c].down = down
          /\ link'[c].queue = link[c].queue /\ link'[c].up = link[c].up
          /\ \A e \in Conns : e # c => link'[e] = link[e]
      <3>1. /\ call' = [call EXCEPT ![k] = rec]
            /\ link' = [link EXCEPT ![c] = [link[c] EXCEPT !.next = link[c].next + 1, !.down = down]]
        BY <1>5, <2>1 DEF Send
      <3> QED  BY <1>0, <2>1, <2>3, <2>5, <3>1 DEF LinkTypes, IsLink
    <2>7. /\ call'[k].pc = "waits" /\ call'[k].on = c /\ call'[k].id = link[c].next /\ call'[k].says = None
      BY <2>6
    <2>8. UNCHANGED <<current, handler, fut, tasks, running, applied, bridge>>  BY DEF Send
    <2> HIDE DEF rec, down, frame
    <2>9. \A m \in Calls : call[m].on # 0 => m < k
      BY <1>0, <1>1, Numbered DEF CallsKnown
    <2>10. call[k].on = 0 /\ handler[k] = None /\ fut[k] = None  BY <1>0, <1>1 DEF CallsKnown, Futures
    <2>11. LinkTypes'  BY <1>0, <2>6, <2>8 DEF LinkTypes
    <2>12. CallsKnown'
      <3>1. \A j \in Calls : call'[j].on # 0 => /\ call'[j].on \in Conns /\ call'[j].on <= current'
                                              /\ call'[j].id < link'[call'[j].on].next
        <4>1. ASSUME NEW j \in Calls, j # k, call[j].on # 0
              PROVE  call[j].on \in Conns /\ call[j].on <= current' /\ call[j].id < link'[call[j].on].next
          <5>1. call[j].on \in Conns /\ call[j].on <= current /\ call[j].id < link[call[j].on].next
            BY <1>0, <4>1 DEF CallsKnown
          <5>2. call[j].id < link[c].next => call[j].id < link[c].next + 1  BY <1>0, <2>2, Fields
          <5> QED  BY <2>6, <2>8, <5>1, <5>2
        <4>2. call'[k].on \in Conns /\ call'[k].on <= current' /\ call'[k].id < link'[call'[k].on].next
          BY <2>1, <2>2, <2>6, <2>7, <2>8
        <4> QED  BY <2>6, <4>1, <4>2
      <3>2. \A j \in Calls : call'[j].pc \in {"none", "new"} => call'[j].on = 0 /\ call'[j].says = None
        BY <1>0, <2>6, <2>7 DEF CallsKnown
      <3>3. \A i, j \in Calls : i < j /\ call'[i].pc = "new" => call'[j].pc \in {"none", "new"}
        BY <1>0, <1>1, <2>6, <2>7 DEF CallsKnown
      <3>4. \A i, j \in Calls :
              call'[i].on = call'[j].on /\ call'[i].on # 0 /\ call'[i].id = call'[j].id => i = j
        <4>1. \A j \in Calls : call[j].on = c => call[j].id # link[c].next
          BY <1>0, <2>1, <2>2, Fields DEF CallsKnown
        <4> QED  BY <1>0, <2>6, <2>7, <4>1 DEF CallsKnown
      <3> QED  BY <1>0, <2>1, <2>8, <3>1, <3>2, <3>3, <3>4 DEF CallsKnown
    <2>13. FramesInOrder'
      <3>1. \A j \in Calls : call[j].on # 0 => (Pooled(j)' <=> Pooled(j)) /\ call'[j] = call[j] /\ j < k
        BY <2>6, <2>9, <2>10 DEF Pooled
      <3>2. /\ \A i \in DOMAIN down : (i \in DOMAIN link[c].down /\ down[i] = link[c].down[i])
                                      \/ (i = Len(link[c].down) + 1 /\ down[i] = frame)
            /\ \A i \in DOMAIN link[c].down : i < Len(link[c].down) + 1
        BY <2>2, <2>3, AppendIs DEF down
      <3>3. ASSUME NEW e \in Conns, e # c
            PROVE  FramesOf(e)'
        <4>1. FramesOf(e) /\ e # 0  BY <1>0, Numbered DEF FramesInOrder
        <4>2. \A j \in Calls : handler[j] # None => call[j].on # 0  BY <1>0 DEF Futures
        <4>3. \A j \in Calls : call'[j].on = e => j = k \/ call[j] = call'[j]  BY <2>6
        <4>4. call'[k].on # e  BY <2>7, <3>3
        <4> QED  BY <1>0, <2>6, <2>8, <3>1, <3>3, <4>1, <4>2, <4>3, <4>4, InFlight DEF FramesOf
      <3>4. FramesOf(c)'
        <4>1. FramesOf(c)  BY <1>0, <2>1 DEF FramesInOrder
        <4>2. \A i \in DOMAIN link[c].down : link[c].down[i].of \in Calls /\ link[c].down[i].of < k
          BY <1>0, <2>1, <2>9, <4>1, InFlight DEF FramesOf
        <4>3. \A i \in DOMAIN link[c].queue : link[c].queue[i].of \in Calls /\ link[c].queue[i].of < k
          BY <1>0, <2>1, <2>9, <4>1, InFlight DEF FramesOf
        <4>4. \A i \in DOMAIN down : call'[down[i].of].on = c /\ handler[down[i].of] = None
          BY <2>1, <2>3, <2>6, <2>7, <2>10, <3>1, <3>2, <4>1, <4>2 DEF FramesOf
        <4>5. Increasing(down)
          BY <2>2, <2>3, <3>2, <4>1, <4>2 DEF FramesOf, Increasing
        <4>6. \A i \in DOMAIN link[c].queue : \A j \in DOMAIN down : link[c].queue[i].of < down[j].of
          BY <2>3, <3>2, <4>1, <4>3 DEF FramesOf
        <4>7. \A j \in Calls : handler[j] # None /\ ~Pooled(j)' /\ call'[j].on = c =>
                /\ \A i \in DOMAIN link[c].queue : j < link[c].queue[i].of
                /\ \A i \in DOMAIN down : j < down[i].of
          <5>1. \A j \in Calls : handler[j] # None => call[j].on # 0  BY <1>0 DEF Futures
          <5> QED  BY <2>3, <3>1, <3>2, <4>1, <5>1 DEF FramesOf
        <4>8. \A i \in DOMAIN link[c].queue :
                call'[link[c].queue[i].of].on = c /\ handler[link[c].queue[i].of] = None
                /\ ~Pooled(link[c].queue[i].of)'
          BY <2>1, <2>6, <3>1, <4>1, <4>3 DEF FramesOf
        <4> QED  BY <2>6, <2>8, <4>1, <4>4, <4>5, <4>6, <4>7, <4>8 DEF FramesOf
      <3> QED  BY <3>3, <3>4 DEF FramesInOrder
    <2>14. Futures'  BY <1>0, <2>6, <2>7, <2>8, <2>10, NoneApart DEF Futures, Pooled
    <2>15. RepliesTrue'
      <3>1. \A j \in Calls : call'[j].says \in Told => call'[j].of = j /\ fut[j] = call'[j].says
        BY <1>0, <2>6, <2>7, NoneApart DEF RepliesTrue
      <3>2. ASSUME NEW e \in Conns, NEW i \in DOMAIN link[e].up
            PROVE  LET a == link[e].up[i] IN call'[a.of].on = e /\ call'[a.of].id = a.id /\ fut[a.of] = a.says
        <4> DEFINE j == link[e].up[i].of
        <4>1. j \in Calls /\ e # 0  BY <1>0, InFlight, Numbered
        <4>2. call[j].on = e /\ call[j].id = link[e].up[i].id /\ fut[j] = link[e].up[i].says
          BY <1>0 DEF RepliesTrue
        <4>3. call'[j] = call[j]  BY <2>6, <2>10, <4>1, <4>2
        <4> QED  BY <4>2, <4>3
      <3>3. \A e \in Conns : link'[e].up = link[e].up  BY <2>6
      <3> QED  BY <2>8, <3>1, <3>2, <3>3 DEF RepliesTrue
    <2>16. Pipeline'
      <3>1. \A a, b \in Calls : a # k /\ b # k /\ Before(a, b) => Before(a, b)'
        BY <2>6 DEF Before, Pooled
      <3> QED  BY <1>0, <2>8, <2>10, <3>1, Elements DEF Pipeline
    <2> QED  BY <2>11, <2>12, <2>13, <2>14, <2>15, <2>16 DEF CallInv
  <1> QED  BY <1>3, <1>4, <1>5

\* A reply answers the call whose Future it reports, and no other.
LEMMA AcceptReplyKeeps ==
  ASSUME CallInv, NEW c \in Conns, AcceptReply(c)
  PROVE  CallInv'
  <1>0. LinkTypes /\ CallsKnown /\ FramesInOrder /\ Futures /\ RepliesTrue /\ Pipeline  BY DEF CallInv
  <1> DEFINE reply == Head(link[c].up)
             m == reply.of
  <1>1. link[c].up \in Seq(Answer) /\ link[c].up # <<>> /\ link[c] \in LinkRec  BY <1>0, Fields DEF AcceptReply
  <1>2. reply \in Answer /\ reply = link[c].up[1] /\ 1 \in DOMAIN link[c].up /\ Tail(link[c].up) \in Seq(Answer)
    BY <1>1, TailIs
  <1>3. m \in Calls /\ call[m].on = c /\ call[m].id = reply.id /\ fut[m] = reply.says /\ reply.says \in Told
    BY <1>0, <1>2, Fields DEF RepliesTrue
  <1>4. Match(c, reply.id) \subseteq {m}
    <2>1. c # 0 /\ \A k \in Calls : call[k].on = c /\ call[k].id = reply.id => k = m
      <3>1. \A j, k \in Calls : call[j].on = call[k].on /\ call[j].on # 0 /\ call[j].id = call[k].id => j = k
        BY <1>0 DEF CallsKnown
      <3> HIDE DEF m, reply
      <3> QED  BY <1>3, <3>1, Numbered
    <2> QED  BY <2>1 DEF Match, Pending
  <1>5. IsLink([link[c] EXCEPT !.up = Tail(link[c].up)], link[c].next, link[c].down, link[c].queue, Tail(link[c].up))
    BY <1>0, <1>1, <1>2, LinkWith, Fields
  <1>6. /\ call' \in [Calls -> CallRec] /\ \A k \in Calls : k # m => call'[k] = call[k]
        /\ call'[m].on = call[m].on /\ call'[m].id = call[m].id /\ call'[m].kind = call[m].kind
        /\ \/ call'[m] = call[m]
           \/ call[m].pc = "waits" /\ call'[m].pc = "done" /\ call'[m].says = fut[m] /\ call'[m].of = m
    <2>1. call' = [k \in Calls |-> IF k \in Match(c, reply.id) THEN Replied(k, reply) ELSE call[k]]
      BY DEF AcceptReply
    <2>2. \A k \in Calls : Replied(k, reply) \in CallRec /\ call[k] \in CallRec
      BY <1>0, <1>2, RepliedIs, Fields
    <2>3. m \in Match(c, reply.id) => call[m].pc = "waits"  BY DEF Match, Pending
    <2> QED  BY <1>0, <1>2, <1>3, <1>4, <2>1, <2>2, <2>3, RepliedIs
  <1>7. /\ link' \in [Conns -> LinkRec] /\ \A e \in Conns : e # c => link'[e] = link[e]
        /\ link'[c].next = link[c].next /\ link'[c].down = link[c].down
        /\ link'[c].queue = link[c].queue /\ link'[c].up = Tail(link[c].up)
    <2>1. link' = [link EXCEPT ![c] = [link[c] EXCEPT !.up = Tail(link[c].up)]]  BY DEF AcceptReply
    <2> QED  BY <1>0, <1>5, <2>1 DEF LinkTypes, IsLink
  <1>8. UNCHANGED <<current, handler, fut, tasks, running, applied, bridge>>  BY DEF AcceptReply
  <1>9. \A k \in Calls : /\ call'[k].on = call[k].on /\ call'[k].id = call[k].id /\ call'[k].kind = call[k].kind
                         /\ call[k].pc \in {"none", "new"} \/ call'[k].pc \in {"none", "new"} => call'[k] = call[k]
    BY <1>6
  <1>10. \A e \in Conns : /\ link'[e].next = link[e].next /\ link'[e].down = link[e].down
                          /\ link'[e].queue = link[e].queue
    BY <1>7
  <1> HIDE DEF reply, m
  <1>11. LinkTypes'  BY <1>0, <1>6, <1>7, <1>8 DEF LinkTypes
  <1>12. CallsKnown'  BY <1>0, <1>8, <1>9, <1>10 DEF CallsKnown
  <1>13. FramesInOrder'  BY <1>0, <1>8, <1>9, <1>10, InFlight DEF FramesInOrder, FramesOf, Pooled
  <1>14. Futures'  BY <1>0, <1>8, <1>9 DEF Futures, Pooled
  <1>15. RepliesTrue'
    <2>1. \A k \in Calls : call'[k].says \in Told => call'[k].of = k /\ fut[k] = call'[k].says
      BY <1>0, <1>3, <1>6 DEF RepliesTrue
    <2>2. ASSUME NEW e \in Conns, NEW i \in DOMAIN link'[e].up
          PROVE  \E n \in DOMAIN link[e].up : link'[e].up[i] = link[e].up[n]
      <3>1. CASE e # c  BY <1>7, <3>1
      <3>2. CASE e = c
        <4>1. i \in DOMAIN Tail(link[c].up)  BY <1>7, <3>2
        <4>2. i + 1 \in DOMAIN link[c].up /\ Tail(link[c].up)[i] = link[c].up[i + 1]  BY <1>1, <4>1, TailIs
        <4> QED  BY <1>7, <3>2, <4>2
      <3> QED  BY <3>1, <3>2
    <2>3. ASSUME NEW e \in Conns, NEW n \in DOMAIN link[e].up
          PROVE  LET a == link[e].up[n] IN call'[a.of].on = e /\ call'[a.of].id = a.id /\ fut[a.of] = a.says
      BY <1>0, <1>9, InFlight DEF RepliesTrue
    <2> QED  BY <1>8, <2>1, <2>2, <2>3 DEF RepliesTrue
  <1>16. Pipeline'
    <2>1. \A a, b \in Calls : Before(a, b) => Before(a, b)'  BY <1>9 DEF Before, Pooled
    <2> QED  BY <1>0, <1>8, <2>1, Elements DEF Pipeline
  <1> QED  BY <1>11, <1>12, <1>13, <1>14, <1>15, <1>16 DEF CallInv

\* The plugin's reader hands a frame to the pool or to the ordered thread.
LEMMA PluginReadsKeeps ==
  ASSUME CallInv, NEW c \in Conns, PluginReads(c)
  PROVE  CallInv'
  <1>0. LinkTypes /\ CallsKnown /\ FramesInOrder /\ Futures /\ RepliesTrue /\ Pipeline  BY DEF CallInv
  <1> DEFINE frame == Head(link[c].down)
             rest == Tail(link[c].down)
             k == frame.of
             queue == IF Pooled(k) THEN link[c].queue ELSE Append(link[c].queue, frame)
  <1>1. link[c].down \in Seq(Frame) /\ link[c].down # <<>> /\ link[c].queue \in Seq(Frame) /\ link[c] \in LinkRec
    BY <1>0, Fields DEF PluginReads
  <1>2. /\ frame \in Frame /\ rest \in Seq(Frame) /\ frame = link[c].down[1] /\ 1 \in DOMAIN link[c].down
        /\ \A i \in DOMAIN rest : i \in Nat \ {0} /\ i + 1 \in DOMAIN link[c].down /\ rest[i] = link[c].down[i + 1]
    BY <1>1, TailIs
  <1>3. k \in Calls /\ call[k].on = c /\ c # 0 /\ handler[k] = None
    BY <1>0, <1>2, Fields, Numbered DEF FramesInOrder, FramesOf
  <1>4. queue \in Seq(Frame)  BY <1>1, <1>2, AppendIs
  <1>5. /\ link' \in [Conns -> LinkRec] /\ \A e \in Conns : e # c => link'[e] = link[e]
        /\ link'[c].next = link[c].next /\ link'[c].down = rest
        /\ link'[c].queue = queue /\ link'[c].up = link[c].up
    <2>1. CASE Pooled(k)
      <3>1. link' = [link EXCEPT ![c] = [link[c] EXCEPT !.down = rest]]  BY <2>1 DEF PluginReads
      <3>2. IsLink([link[c] EXCEPT !.down = rest], link[c].next, rest, link[c].queue, link[c].up)
        BY <1>0, <1>1, <1>2, LinkWith, Fields
      <3> QED  BY <1>0, <2>1, <3>1, <3>2 DEF LinkTypes, IsLink
    <2>2. CASE ~Pooled(k)
      <3>1. link' = [link EXCEPT ![c] = [link[c] EXCEPT !.down = rest, !.queue = Append(link[c].queue, frame)]]
        BY <2>2 DEF PluginReads
      <3>2. Append(link[c].queue, frame) \in Seq(Frame)  BY <1>1, <1>2, AppendIs
      <3>3. IsLink([link[c] EXCEPT !.down = rest, !.queue = Append(link[c].queue, frame)],
                   link[c].next, rest, Append(link[c].queue, frame), link[c].up)
        BY <1>0, <1>1, <1>2, <3>2, LinkWith, Fields
      <3> QED  BY <1>0, <2>2, <3>1, <3>3 DEF LinkTypes, IsLink
    <2> QED  BY <2>1, <2>2
  <1>6. /\ UNCHANGED <<call, current, fut, tasks, running, applied, bridge>>
        /\ handler' = IF Pooled(k) THEN [handler EXCEPT ![k] = "pool"] ELSE handler
    BY DEF PluginReads
  <1>7. LinkTypes'  BY <1>0, <1>3, <1>5, <1>6 DEF LinkTypes
  <1>8. \A e \in Conns : link'[e].next = link[e].next /\ link'[e].up = link[e].up  BY <1>5
  <1>9. CallsKnown'  BY <1>0, <1>6, <1>8 DEF CallsKnown
  <1>10. RepliesTrue'  BY <1>0, <1>6, <1>8 DEF RepliesTrue
  <1>11. Futures'  BY <1>0, <1>3, <1>6, NoneApart DEF Futures, Pooled, LinkTypes
  <1>12. Pipeline'  BY <1>0, <1>6 DEF Pipeline, Before, Pooled
  <1>13. FramesInOrder'
    <2>1. \A j \in Calls : (Pooled(j)' <=> Pooled(j)) /\ (j # k => handler'[j] = handler[j])
                           /\ (handler'[j] # None /\ ~Pooled(j) => handler[j] # None)
      BY <1>0, <1>6 DEF Pooled, LinkTypes
    <2>2. ASSUME NEW e \in Conns, e # c PROVE FramesOf(e)'
      <3>1. FramesOf(e)  BY <1>0 DEF FramesInOrder
      <3>2. link'[e] = link[e] /\ call[k].on # e  BY <1>3, <1>5, <2>2
      <3> QED  BY <1>0, <1>6, <2>1, <3>1, <3>2, InFlight DEF FramesOf
    <2>3. FramesOf(c)'
      <3>1. FramesOf(c)  BY <1>0 DEF FramesInOrder
      <3>2. \A i \in DOMAIN rest : /\ rest[i].of \in Calls /\ k < rest[i].of /\ call[rest[i].of].on = c
                                   /\ handler[rest[i].of] = None
        BY <1>0, <1>2, <3>1, InFlight DEF FramesOf, Increasing
      <3>3. \A i \in DOMAIN link[c].queue :
              /\ link[c].queue[i].of \in Calls /\ link[c].queue[i].of < k /\ ~Pooled(link[c].queue[i].of)
              /\ call[link[c].queue[i].of].on = c /\ handler[link[c].queue[i].of] = None
              /\ \A j \in DOMAIN rest : link[c].queue[i].of < rest[j].of
        BY <1>0, <1>2, <3>1, InFlight DEF FramesOf
      <3>4. Increasing(rest)  BY <1>2, <3>1 DEF FramesOf, Increasing
      <3>5. \A j \in Calls : handler[j] # None /\ ~Pooled(j) /\ call[j].on = c =>
              /\ j < k /\ \A i \in DOMAIN link[c].queue : j < link[c].queue[i].of
              /\ \A i \in DOMAIN rest : j < rest[i].of
        BY <1>2, <3>1 DEF FramesOf
      <3>6. \A i \in DOMAIN queue : \/ i \in DOMAIN link[c].queue /\ queue[i] = link[c].queue[i]
                                    \/ ~Pooled(k) /\ i = Len(link[c].queue) + 1 /\ queue[i] = frame
        <4>1. \A i \in DOMAIN Append(link[c].queue, frame) :
                \/ i \in DOMAIN link[c].queue /\ Append(link[c].queue, frame)[i] = link[c].queue[i]
                \/ i = Len(link[c].queue) + 1 /\ Append(link[c].queue, frame)[i] = frame
          BY <1>1, <1>2, AppendIs
        <4>2. CASE Pooled(k)  BY <4>2
        <4>3. CASE ~Pooled(k)
          <5>1. queue = Append(link[c].queue, frame)  BY <4>3
          <5> HIDE DEF queue, frame
          <5> QED  BY <4>1, <4>3, <5>1
        <4> QED  BY <4>2, <4>3
      <3>7. \A i \in DOMAIN link[c].queue : i < Len(link[c].queue) + 1  BY <1>1
      <3>8. Increasing(queue)
        BY <1>1, <3>1, <3>3, <3>6, <3>7 DEF FramesOf, Increasing
      <3> HIDE DEF queue, rest, frame
      <3>9. \A i \in DOMAIN rest : call'[rest[i].of].on = c /\ handler'[rest[i].of] = None
        <4>1. \A i \in DOMAIN rest : rest[i].of # k  BY <1>3, <3>2, Numbered
        <4> QED  BY <1>6, <2>1, <3>2, <4>1
      <3>10. \A i \in DOMAIN queue : /\ call'[queue[i].of].on = c /\ handler'[queue[i].of] = None
                                     /\ ~Pooled(queue[i].of) /\ queue[i].of \in Calls
        BY <1>3, <1>6, <2>1, <3>3, <3>6, Numbered
      <3>11. \A i \in DOMAIN queue : \A j \in DOMAIN rest : queue[i].of < rest[j].of
        BY <3>2, <3>3, <3>6
      <3>12. \A j \in Calls : handler'[j] # None /\ ~Pooled(j)' /\ call'[j].on = c =>
               (\A i \in DOMAIN queue : j < queue[i].of) /\ (\A i \in DOMAIN rest : j < rest[i].of)
        BY <1>6, <2>1, <3>5, <3>6
      <3> QED  BY <1>5, <1>6, <2>1, <3>4, <3>8, <3>9, <3>10, <3>11, <3>12 DEF FramesOf
    <2> QED  BY <2>2, <2>3 DEF FramesInOrder
  <1> QED  BY <1>7, <1>9, <1>10, <1>11, <1>12, <1>13 DEF CallInv

\* ServerThreadBridge.call, for a call that comes after what has been scheduled.
LEMMA BridgeCallKeeps ==
  ASSUME LinkTypes, Futures, Pipeline, NEW k \in Calls, handler[k] \in {None, "pool"}, call[k].on # 0,
         \A a \in Calls : fut[a] # None => Before(a, k),
         BridgeCall(k), UNCHANGED <<call, running, applied, bridge>>
  PROVE  Futures' /\ Pipeline'
  <1>1. fut[k] = None  BY DEF Futures
  <1>2. k \notin Range(applied) /\ running # k  BY <1>1, Numbered DEF Pipeline, Range
  <1>3. fut' \in [Calls -> Told \cup {None, "pending"}] /\ fut'[k] \in {"pending", "off"}
        /\ \A a \in Calls : a # k => fut'[a] = fut[a] /\ handler'[a] = handler[a]
    BY DEF BridgeCall, LinkTypes, Told
  <1>4. handler'[k] = "call"  BY DEF BridgeCall, LinkTypes
  <1>5. Futures'
    BY <1>2, <1>3, <1>4, NoneApart DEF Futures, Pooled
  <1>6. \A i \in DOMAIN tasks' : \/ i \in DOMAIN tasks /\ tasks'[i] = tasks[i]
                                 \/ i = Len(tasks) + 1 /\ tasks'[i] = k
    BY AppendIs DEF BridgeCall, LinkTypes
  <1>7. \A i \in DOMAIN tasks : i < Len(tasks) + 1  BY DEF LinkTypes
  <1>8. \A a, b \in Calls : Before(a, b) <=> Before(a, b)'  BY DEF Before, Pooled
  <1>9. \A a \in Calls : fut[a] # None => fut'[a] # None /\ Before(a, k)'
    BY <1>1, <1>3, <1>8
  <1>10. fut'[k] # None  BY <1>3, NoneApart
  <1>11. \A i \in DOMAIN tasks' : fut'[tasks'[i]] # None
    BY <1>6, <1>9, <1>10, Elements DEF Pipeline
  <1>12. \A i, j \in DOMAIN tasks' : i < j => Before(tasks[i], tasks[j])'
    <2> SUFFICES ASSUME NEW i \in DOMAIN tasks', NEW j \in DOMAIN tasks', i < j
                 PROVE  Before(tasks[i], tasks[j])'
      OBVIOUS
    <2>1. i \in DOMAIN tasks /\ tasks'[i] = tasks[i]
      <3>1. tasks' \in Seq(Calls)  BY DEF BridgeCall, LinkTypes
      <3>2. tasks \in Seq(Calls)  BY DEF LinkTypes
      <3> QED  BY <1>6, <1>7, <3>1, <3>2
    <2>2. CASE j \in DOMAIN tasks /\ tasks'[j] = tasks[j]
      BY <1>8, <2>1, <2>2, Elements DEF Pipeline
    <2>3. CASE tasks'[j] = k
      BY <1>9, <2>1, <2>3, Elements DEF Pipeline
    <2> QED  BY <1>6, <2>2, <2>3
  <1>13. \A i \in DOMAIN applied, j \in DOMAIN tasks' : Before(applied[i], tasks[j])'
    BY <1>6, <1>8, <1>9, Elements DEF Pipeline
  <1>14. running # None => \A j \in DOMAIN tasks' : Before(running, tasks[j])'
    BY <1>6, <1>8, <1>9, Elements DEF Pipeline
  <1>15. Pipeline'
    BY <1>8, <1>9, <1>11, <1>12, <1>13, <1>14, Elements DEF Pipeline
  <1> QED  BY <1>5, <1>15

LEMMA PoolTakesKeeps ==
  ASSUME CallInv, NEW k \in Calls, PoolTakes(k)
  PROVE  CallInv'
  <1>0. LinkTypes /\ CallsKnown /\ FramesInOrder /\ Futures /\ RepliesTrue /\ Pipeline  BY DEF CallInv
  <1>1. handler[k] = "pool" /\ call[k].on # 0 /\ Pooled(k) /\ fut[k] = None
    BY <1>0, NoneApart DEF PoolTakes, Futures
  <1>2. \A a \in Calls : fut[a] # None => Before(a, k)  BY <1>1 DEF Before
  <1>3. UNCHANGED <<call, current, link, running, applied, bridge>> /\ BridgeCall(k)  BY DEF PoolTakes
  <1>4. Futures' /\ Pipeline'  BY <1>0, <1>1, <1>2, <1>3, BridgeCallKeeps
  <1>5. LinkTypes'  BY <1>0, <1>3 DEF LinkTypes, BridgeCall, Told
  <1>6. CallsKnown'  BY <1>0, <1>3 DEF CallsKnown
  <1>7. \A a \in Calls : /\ a # k => handler'[a] = handler[a] /\ fut'[a] = fut[a]
                         /\ handler[a] # None <=> handler'[a] # None
    BY <1>0, <1>1, <1>3, NoneApart DEF BridgeCall, LinkTypes
  <1>8. FramesInOrder'
    BY <1>0, <1>1, <1>3, <1>7, InFlight, NoneApart DEF FramesInOrder, FramesOf, Pooled
  <1>9. RepliesTrue'
    BY <1>0, <1>1, <1>3, <1>7, InFlight, NoneApart DEF RepliesTrue
  <1> QED  BY <1>4, <1>5, <1>6, <1>8, <1>9 DEF CallInv

\* The ordered thread of a link takes the oldest request it holds.
LEMMA OrderedTakesKeeps ==
  ASSUME CallInv, NEW c \in Conns, OrderedTakes(c)
  PROVE  CallInv'
  <1>0. LinkTypes /\ CallsKnown /\ FramesInOrder /\ Futures /\ RepliesTrue /\ Pipeline  BY DEF CallInv
  <1> DEFINE rest == Tail(link[c].queue)
             k == Head(link[c].queue).of
  <1>1. link[c].queue \in Seq(Frame) /\ link[c].queue # <<>> /\ link[c] \in LinkRec
    BY <1>0, Fields DEF OrderedTakes
  <1>2. /\ Head(link[c].queue) \in Frame /\ rest \in Seq(Frame)
        /\ Head(link[c].queue) = link[c].queue[1] /\ 1 \in DOMAIN link[c].queue
        /\ \A i \in DOMAIN rest : i \in Nat \ {0} /\ i + 1 \in DOMAIN link[c].queue /\ rest[i] = link[c].queue[i + 1]
    BY <1>1, TailIs
  <1>3. k \in Calls /\ call[k].on = c /\ c # 0 /\ handler[k] = None /\ ~Pooled(k) /\ fut[k] = None
    <2>1. FramesOf(c)  BY <1>0 DEF FramesInOrder
    <2>2. k \in Calls /\ c # 0  BY <1>0, <1>2, Fields, Numbered
    <2>3. call[k].on = c /\ handler[k] = None /\ ~Pooled(k)  BY <1>2, <2>1 DEF FramesOf
    <2> QED  BY <1>0, <2>2, <2>3 DEF Futures
  <1>4. \A a \in Calls : handler[a] # None /\ ~Pooled(a) /\ call[a].on = c => a < k
    BY <1>0, <1>2 DEF FramesInOrder, FramesOf
  <1>5. \A a \in Calls : fut[a] # None => Before(a, k)
    <2>1. \A a \in Calls : fut[a] # None => handler[a] # None /\ a # k  BY <1>0, <1>3 DEF Futures
    <2> QED  BY <1>3, <1>4, <2>1 DEF Before
  <1>6. UNCHANGED <<call, current, running, applied, bridge>> /\ BridgeCall(k)  BY DEF OrderedTakes
  <1>7. /\ link' \in [Conns -> LinkRec] /\ \A e \in Conns : e # c => link'[e] = link[e]
        /\ link'[c].next = link[c].next /\ link'[c].down = link[c].down
        /\ link'[c].queue = rest /\ link'[c].up = link[c].up
    <2>1. link' = [link EXCEPT ![c] = [link[c] EXCEPT !.queue = rest]]  BY DEF OrderedTakes
    <2>2. IsLink([link[c] EXCEPT !.queue = rest], link[c].next, link[c].down, rest, link[c].up)
      BY <1>0, <1>1, <1>2, LinkWith, Fields
    <2> QED  BY <1>0, <2>1, <2>2 DEF LinkTypes, IsLink
  <1>8. \A e \in Conns : link'[e].next = link[e].next /\ link'[e].up = link[e].up  BY <1>7
  <1>9. \A a \in Calls : a # k => handler'[a] = handler[a] /\ fut'[a] = fut[a]
    BY <1>0, <1>6 DEF BridgeCall, LinkTypes
  <1>10. Futures' /\ Pipeline'
    <2> HIDE DEF k, rest
    <2> QED  BY <1>0, <1>3, <1>5, <1>6, BridgeCallKeeps
  <1>11. LinkTypes'  BY <1>0, <1>3, <1>6, <1>7 DEF LinkTypes, BridgeCall, Told
  <1>12. CallsKnown'  BY <1>0, <1>6, <1>8 DEF CallsKnown
  <1>13. RepliesTrue'
    <2>1. \A a \in Calls : fut[a] \in Told => fut'[a] = fut[a]  BY <1>3, <1>9, NoneApart
    <2> QED  BY <1>0, <1>6, <1>8, <2>1, InFlight DEF RepliesTrue
  <1> HIDE DEF k, rest
  <1>14. FramesInOrder'
    <2>1. \A a \in Calls : Pooled(a)' <=> Pooled(a)  BY <1>6 DEF Pooled
    <2>2. ASSUME NEW e \in Conns, e # c PROVE FramesOf(e)'
      <3>1. FramesOf(e)  BY <1>0 DEF FramesInOrder
      <3>2. link'[e] = link[e] /\ call[k].on # e  BY <1>3, <1>7, <2>2
      <3> QED  BY <1>0, <1>6, <1>9, <2>1, <3>1, <3>2, InFlight DEF FramesOf
    <2>3. FramesOf(c)'
      <3>1. FramesOf(c)  BY <1>0 DEF FramesInOrder
      <3>2. \A i \in DOMAIN rest :
              /\ rest[i].of \in Calls /\ k < rest[i].of /\ call[rest[i].of].on = c
              /\ handler[rest[i].of] = None /\ ~Pooled(rest[i].of)
              /\ \A j \in DOMAIN link[c].down : rest[i].of < link[c].down[j].of
              /\ \A a \in Calls : handler[a] # None /\ ~Pooled(a) /\ call[a].on = c => a < rest[i].of
        BY <1>0, <1>2, <3>1, InFlight DEF FramesOf, Increasing, k
      <3>3. \A j \in DOMAIN link[c].down :
              /\ link[c].down[j].of \in Calls /\ k < link[c].down[j].of /\ call[link[c].down[j].of].on = c
              /\ handler[link[c].down[j].of] = None
              /\ \A a \in Calls : handler[a] # None /\ ~Pooled(a) /\ call[a].on = c => a < link[c].down[j].of
        BY <1>0, <1>2, <3>1, InFlight DEF FramesOf, k
      <3>4. Increasing(rest) /\ Increasing(link[c].down)  BY <1>2, <3>1 DEF FramesOf, Increasing
      <3>5. \A i \in DOMAIN rest : rest[i].of # k  BY <1>3, <3>2, Numbered
      <3>6. \A j \in DOMAIN link[c].down : link[c].down[j].of # k  BY <1>3, <3>3, Numbered
      <3> QED  BY <1>6, <1>7, <1>9, <2>1, <3>2, <3>3, <3>4, <3>5, <3>6 DEF FramesOf
    <2> QED  BY <2>2, <2>3 DEF FramesInOrder
  <1> QED  BY <1>10, <1>11, <1>12, <1>13, <1>14 DEF CallInv

LEMMA AnswersKeeps ==
  ASSUME CallInv, NEW k \in Calls, Answers(k)
  PROVE  CallInv'
  <1>0. LinkTypes /\ CallsKnown /\ FramesInOrder /\ Futures /\ RepliesTrue /\ Pipeline  BY DEF CallInv
  <1>1. handler[k] = "call" /\ fut[k] \in Told  BY <1>0, NoneApart, Fields DEF Answers, Futures
  <1>2. PICK c \in Conns : call[k].on = c /\ c # 0
    BY <1>0, <1>1, NoneApart DEF Futures, CallsKnown
  <1> DEFINE answer == [id |-> call[k].id, of |-> k, says |-> fut[k]]
             more == Append(link[c].up, answer)
  <1>3. answer \in Answer /\ answer.of = k /\ answer.id = call[k].id /\ answer.says = fut[k]
    BY <1>0, <1>1, Fields DEF Answer
  <1>4. link[c].up \in Seq(Answer) /\ link[c] \in LinkRec /\ more \in Seq(Answer)  BY <1>0, <1>3, Fields
  <1>5. UNCHANGED <<call, current, fut, tasks, running, applied, bridge>>
        /\ handler' = [handler EXCEPT ![k] = "answered"]
    BY DEF Answers
  <1>6. /\ link' \in [Conns -> LinkRec] /\ \A e \in Conns : e # c => link'[e] = link[e]
        /\ link'[c].next = link[c].next /\ link'[c].down \in {link[c].down, <<>>}
        /\ link'[c].queue = link[c].queue /\ link'[c].up \in {link[c].up, more}
    <2>1. CASE link' = link  BY <1>0, <2>1 DEF LinkTypes
    <2>2. CASE link' = [link EXCEPT ![c] = PlugClosed(c)]  BY <1>0, <2>2, ClosedIs DEF LinkTypes
    <2>3. CASE link' = [link EXCEPT ![c] = [link[c] EXCEPT !.up = more]]
      <3>1. IsLink([link[c] EXCEPT !.up = more], link[c].next, link[c].down, link[c].queue, more)
        BY <1>0, <1>4, LinkWith, Fields
      <3> QED  BY <1>0, <2>3, <3>1 DEF LinkTypes, IsLink
    <2> QED  BY <1>2, <2>1, <2>2, <2>3 DEF Answers
  <1>7. \A a \in Calls : handler'[a] # None <=> handler[a] # None
    BY <1>0, <1>1, <1>5, NoneApart DEF LinkTypes
  <1>8. LinkTypes'  BY <1>0, <1>5, <1>6 DEF LinkTypes
  <1>9. CallsKnown'
    <2>1. \A e \in Conns : link'[e].next = link[e].next  BY <1>6
    <2> QED  BY <1>0, <1>5, <2>1 DEF CallsKnown
  <1>10. FramesInOrder'
    <2>1. \A e \in Conns : link'[e].down \in {link[e].down, <<>>} /\ link'[e].queue = link[e].queue
      BY <1>6
    <2> QED  BY <1>0, <1>5, <1>7, <2>1, InFlight DEF FramesInOrder, FramesOf, Increasing, Pooled
  <1>11. Futures'  BY <1>0, <1>1, <1>5, NoneApart DEF Futures, Pooled, LinkTypes
  <1>12. RepliesTrue'
    <2>1. ASSUME NEW e \in Conns, NEW i \in DOMAIN link'[e].up
          PROVE  \/ \E n \in DOMAIN link[e].up : link'[e].up[i] = link[e].up[n]
                 \/ e = c /\ link'[e].up[i] = answer
      <3>1. CASE link'[e].up = link[e].up  BY <3>1
      <3>2. CASE e = c /\ link'[c].up = more
        <4>1. i \in DOMAIN more  BY <3>2
        <4> QED  BY <1>3, <1>4, <3>2, <4>1, AppendIs
      <3> QED  BY <1>6, <3>1, <3>2
    <2> QED  BY <1>0, <1>2, <1>3, <1>5, <2>1 DEF RepliesTrue
  <1>13. Pipeline'  BY <1>0, <1>5 DEF Pipeline, Before, Pooled
  <1> QED  BY <1>8, <1>9, <1>10, <1>11, <1>12, <1>13 DEF CallInv

\* A Future is told, or the server thread goes on: nothing on a link changes.
LEMMA WireKept ==
  ASSUME LinkTypes, CallsKnown, FramesInOrder, RepliesTrue, UNCHANGED <<call, current, link, handler>>,
         \A k \in Calls : fut[k] \in Told => fut'[k] = fut[k]
  PROVE  CallsKnown' /\ FramesInOrder' /\ RepliesTrue'
  <1>1. CallsKnown'  BY DEF CallsKnown
  <1>2. FramesInOrder'  BY DEF FramesInOrder, FramesOf, Pooled
  <1>3. RepliesTrue'  BY InFlight DEF RepliesTrue
  <1> QED  BY <1>1, <1>2, <1>3

LEMMA GivesUpKeeps ==
  ASSUME CallInv, NEW k \in Calls, GivesUp(k)
  PROVE  CallInv'
  <1>0. LinkTypes /\ CallsKnown /\ FramesInOrder /\ Futures /\ RepliesTrue /\ Pipeline  BY DEF CallInv
  <1>1. fut[k] = "pending" /\ fut' = [fut EXCEPT ![k] = "late"]
        /\ UNCHANGED <<call, current, link, handler, tasks, running, applied, bridge>>
    BY DEF GivesUp, Finished
  <1>2. CallsKnown' /\ FramesInOrder' /\ RepliesTrue'  BY <1>0, <1>1, WireKept DEF LinkTypes, Told
  <1>3. LinkTypes'  BY <1>0, <1>1 DEF LinkTypes, Told
  <1>4. Futures'  BY <1>0, <1>1, NoneApart DEF Futures, Pooled, LinkTypes
  <1>5. Pipeline'  BY <1>0, <1>1, NoneApart DEF Pipeline, Before, Pooled, LinkTypes
  <1> QED  BY <1>2, <1>3, <1>4, <1>5 DEF CallInv

LEMMA CloseKeeps ==
  ASSUME CallInv, CloseTells \/ \E k \in Calls : CloseLooks(k)
  PROVE  CallInv'
  <1>0. LinkTypes /\ CallsKnown /\ FramesInOrder /\ Futures /\ RepliesTrue /\ Pipeline  BY DEF CallInv
  <1>1. UNCHANGED <<call, current, link, handler, tasks, running, applied>>  BY DEF CloseTells, CloseLooks
  <1>2. /\ bridge' \in [open: BOOLEAN, rest: SUBSET Calls, at: Calls \cup {None}]
        /\ bridge'.open = bridge.open /\ ~bridge.open
    <2>1. bridge \in [open: BOOLEAN, rest: SUBSET Calls, at: Calls \cup {None}]  BY <1>0 DEF LinkTypes
    <2>2. ~bridge.open  BY <1>0 DEF Futures, CloseTells, CloseLooks
    <2> QED  BY <2>1, <2>2 DEF CloseTells, CloseLooks
  <1>3. running = None  BY <1>0, <1>2 DEF Futures
  <1>4. fut' = fut \/ \E k \in Calls : fut[k] = "pending" /\ fut' = [fut EXCEPT ![k] = "off"]
    BY <1>0 DEF CloseTells, CloseLooks, LinkTypes
  <1>5. CallsKnown' /\ FramesInOrder' /\ RepliesTrue'  BY <1>0, <1>1, <1>4, WireKept DEF LinkTypes, Told
  <1>6. LinkTypes'  BY <1>0, <1>1, <1>2, <1>4 DEF LinkTypes, Told
  <1>7. Futures'  BY <1>0, <1>1, <1>2, <1>3, <1>4, Numbered, NoneApart DEF Futures, Pooled, LinkTypes
  <1>8. Pipeline'  BY <1>0, <1>1, <1>4, NoneApart DEF Pipeline, Before, Pooled, LinkTypes
  <1> QED  BY <1>5, <1>6, <1>7, <1>8 DEF CallInv

\* The server thread starts the oldest callback, if its Future still waits.
LEMMA InvokeKeeps ==
  ASSUME CallInv, Invoke
  PROVE  CallInv'
  <1>0. LinkTypes /\ CallsKnown /\ FramesInOrder /\ Futures /\ RepliesTrue /\ Pipeline  BY DEF CallInv
  <1>1. /\ tasks \in Seq(Calls) /\ tasks # <<>> /\ running = None /\ tasks' = Tail(tasks)
        /\ running' = IF Runs(Head(tasks)) THEN Head(tasks) ELSE None
        /\ UNCHANGED <<call, current, link, handler, fut, applied, bridge>>
    BY <1>0 DEF Invoke, LinkTypes
  <1>2. /\ tasks' \in Seq(Calls) /\ Head(tasks) = tasks[1] /\ 1 \in DOMAIN tasks /\ Head(tasks) \in Calls
        /\ \A i \in DOMAIN tasks' : i \in Nat \ {0} /\ i + 1 \in DOMAIN tasks /\ tasks'[i] = tasks[i + 1]
    BY <1>1, TailIs
  <1>3. CallsKnown' /\ FramesInOrder' /\ RepliesTrue'  BY <1>0, <1>1, WireKept
  <1>4. LinkTypes'  BY <1>0, <1>1, <1>2 DEF LinkTypes
  <1>5. Futures'  BY <1>0, <1>1, <1>2, Numbered DEF Futures, Pooled, Runs
  <1>6. Pipeline'
    <2>1. \A a, b \in Calls : Before(a, b) <=> Before(a, b)'  BY <1>1 DEF Before, Pooled
    <2>2. \A i, j \in DOMAIN tasks' : i < j => Before(tasks[i], tasks[j])'
      BY <1>0, <1>2, <2>1, Elements DEF Pipeline
    <2>3. \A j \in DOMAIN tasks' : Before(tasks[1], tasks[j + 1])
      BY <1>0, <1>2 DEF Pipeline
    <2>4. running' # None => /\ running' = tasks[1] /\ running' \in Calls
      BY <1>1, <1>2
    <2> QED  BY <1>0, <1>1, <1>2, <2>1, <2>2, <2>3, <2>4, Elements DEF Pipeline
  <1> QED  BY <1>3, <1>4, <1>5, <1>6 DEF CallInv

LEMMA FinishKeeps ==
  ASSUME CallInv, Finish
  PROVE  CallInv'
  <1>0. LinkTypes /\ CallsKnown /\ FramesInOrder /\ Futures /\ RepliesTrue /\ Pipeline  BY DEF CallInv
  <1>1. PICK k \in Calls : running = k  BY <1>0 DEF Finish, LinkTypes
  <1>2. /\ running' = None /\ applied' = Append(applied, k) /\ applied \in Seq(Calls)
        /\ fut' = [fut EXCEPT ![k] = IF fut[k] = "pending" THEN "ran" ELSE fut[k]]
        /\ UNCHANGED <<call, current, link, handler, tasks, bridge>>
    BY <1>0, <1>1 DEF Finish, Finished, LinkTypes
  <1>3. /\ applied' \in Seq(Calls) /\ Range(applied') = Range(applied) \cup {k}
        /\ \A i \in DOMAIN applied' : \/ i \in DOMAIN applied /\ applied'[i] = applied[i]
                                      \/ i = Len(applied) + 1 /\ applied'[i] = k
        /\ \A i \in DOMAIN applied : i < Len(applied) + 1
    BY <1>2, AppendIs
  <1>4. CallsKnown' /\ FramesInOrder' /\ RepliesTrue'  BY <1>0, <1>2, WireKept DEF LinkTypes, Told
  <1>5. LinkTypes'  BY <1>0, <1>2, <1>3 DEF LinkTypes, Told
  <1>6. \A a \in Calls : /\ a # k => fut'[a] = fut[a]
                         /\ fut[a] # None => fut'[a] # None
                         /\ fut'[k] # "pending" /\ (fut[k] # "ran" /\ fut[k] # "pending" => fut'[k] = fut[k])
    BY <1>0, <1>2, NoneApart DEF LinkTypes
  <1>7. Futures'
    <2>1. fut[k] # None /\ fut[k] # "off"  BY <1>0, <1>1, Numbered DEF Futures, Pipeline
    <2>2. fut'[k] # None /\ fut'[k] # "off" /\ fut'[k] # "pending"  BY <1>0, <1>2, <2>1, NoneApart DEF LinkTypes
    <2> QED  BY <1>0, <1>2, <1>3, <1>6, <2>1, <2>2, Numbered DEF Futures, Pooled
  <1>8. Pipeline'
    <2>1. \A a, b \in Calls : Before(a, b) <=> Before(a, b)'  BY <1>2 DEF Before, Pooled
    <2>2. \A i \in DOMAIN applied' : fut'[applied'[i]] # None
      BY <1>0, <1>1, <1>3, <1>6, Numbered, Elements DEF Pipeline
    <2>3. \A i \in DOMAIN applied : Before(applied[i], k) /\ applied[i] \in Calls
      BY <1>0, <1>1, Numbered, Elements DEF Pipeline
    <2>4. ASSUME NEW i \in DOMAIN applied', NEW j \in DOMAIN applied', i < j
          PROVE  Before(applied[i], applied[j])'
      <3>1. i \in DOMAIN applied /\ applied'[i] = applied[i]
        BY <1>2, <1>3, <2>4
      <3>2. CASE j \in DOMAIN applied /\ applied'[j] = applied[j]
        BY <1>0, <2>1, <2>3, <2>4, <3>1, <3>2 DEF Pipeline
      <3>3. CASE applied'[j] = k  BY <2>1, <2>3, <3>1, <3>3
      <3> QED  BY <1>3, <3>2, <3>3
    <2>5. \A i \in DOMAIN applied', j \in DOMAIN tasks : Before(applied[i], tasks[j])'
      BY <1>0, <1>1, <1>2, <1>3, <2>1, <2>3, Numbered, Elements DEF Pipeline
    <2> QED  BY <1>0, <1>2, <1>6, <2>1, <2>2, <2>4, <2>5, Elements DEF Pipeline
  <1> QED  BY <1>4, <1>5, <1>7, <1>8 DEF CallInv

LEMMA NextCalls ==
  ASSUME CallInv, [Next]_vars
  PROVE  CallInv'
  <1>1. CASE UNCHANGED linkVars
    BY <1>1 DEF linkVars, CallInv, LinkTypes, CallsKnown, FramesInOrder, FramesOf, Futures, RepliesTrue,
       Pipeline, Before, Pooled
  <1>2. CASE LinkNext
    BY <1>2, SendKeeps, TimesOutKeeps, PoolTakesKeeps, GivesUpKeeps, AnswersKeeps, CloseKeeps,
       AcceptReplyKeeps, ClosingKeeps, PluginReadsKeeps, OrderedTakesKeeps, ConnectKeeps, InvokeKeeps,
       FinishKeeps, DisableKeeps
    DEF LinkNext
  <1> QED  BY <1>1, <1>2 DEF Next, vars

\* What a step of one client leaves alone.
LEMMA OthersKept ==
  ASSUME CliInv, NEW p \in Clients, CliTypes', RanOnce(p)',
         \A q \in Clients : q # p => cli'[q] = cli[q] /\ seen'[q] = seen[q] /\ ran'[q] = ran[q]
  PROVE  CliInv'
  BY DEF CliInv, RanOnce

LEMMA CliWith ==
  ASSUME NEW r \in CliRec, NEW w \in Seq(1..2)
  PROVE  /\ LET t == [r EXCEPT !.pc = "hello"] IN
              t \in CliRec /\ t.pc = "hello" /\ t.says = r.says /\ t.wire = r.wire /\ t.back = r.back
         /\ LET t == [r EXCEPT !.pc = "sent", !.wire = w] IN
              t \in CliRec /\ t.pc = "sent" /\ t.says = r.says /\ t.wire = w /\ t.back = r.back
  BY DEF CliRec

LEMMA CliSaysIs ==
  ASSUME CliInv, NEW p \in Clients, NEW says \in {"busy", "unavailable", "unknown", "ok", "duplicate"},
         cli' = CliSays(p, says)
  PROVE  /\ cli' \in [Clients -> CliRec] /\ \A q \in Clients : q # p => cli'[q] = cli[q]
         /\ cli'[p].pc = "done" /\ cli'[p].says = says
         /\ cli'[p].wire = cli[p].wire /\ cli'[p].back = cli[p].back
  BY DEF CliInv, CliTypes, CliRec, CliSays

LEMMA NextCli ==
  ASSUME CliInv, [Next]_vars
  PROVE  CliInv'
  <1>0. CliTypes /\ \A p \in Clients : RanOnce(p)  BY DEF CliInv
  <1>1. CASE UNCHANGED cliVars  BY <1>1 DEF cliVars, CliInv, CliTypes, RanOnce
  <1>2. ASSUME NEW p \in Clients, CliConnects(p) PROVE CliInv'
    <2>1. CASE Cardinality(Connected) >= MaxCli
      BY <1>0, <1>2, <2>1, CliSaysIs, OthersKept DEF CliConnects, CliTypes, RanOnce
    <2>2. CASE ~(Cardinality(Connected) >= MaxCli)
      <3>1. /\ cli' \in [Clients -> CliRec] /\ \A q \in Clients : q # p => cli'[q] = cli[q]
            /\ cli'[p].pc = "hello" /\ cli'[p].says = cli[p].says
            /\ cli'[p].wire = cli[p].wire /\ cli'[p].back = cli[p].back
        <4>1. cli' = [cli EXCEPT ![p] = [cli[p] EXCEPT !.pc = "hello"]]  BY <1>2, <2>2 DEF CliConnects
        <4>2. cli[p] \in CliRec /\ <<>> \in Seq(1..2)  BY <1>0 DEF CliTypes
        <4> QED  BY <1>0, <4>1, <4>2, CliWith DEF CliTypes
      <3>2. CliTypes'  BY <1>0, <1>2, <2>2, <3>1 DEF CliConnects, CliTypes
      <3>3. RanOnce(p)'  BY <1>0, <1>2, <2>2, <3>1 DEF CliConnects, CliTypes, RanOnce
      <3> QED  BY <1>0, <1>2, <2>2, <3>1, <3>2, <3>3, OthersKept DEF CliConnects, CliTypes
    <2> QED  BY <2>1, <2>2
  <1>3. ASSUME NEW p \in Clients, NEW id \in 1..2, CliSends(p, id) PROVE CliInv'
    <2>1. cli[p].wire \in Seq(1..2)  BY <1>0 DEF CliTypes, CliRec
    <2>2. /\ cli' \in [Clients -> CliRec] /\ \A q \in Clients : q # p => cli'[q] = cli[q]
          /\ cli'[p].pc = "sent" /\ cli'[p].says = cli[p].says
          /\ cli'[p].wire = Append(cli[p].wire, id) /\ cli'[p].back = cli[p].back
      <3> DEFINE w == Append(cli[p].wire, id)
                 t == [cli[p] EXCEPT !.pc = "sent", !.wire = w]
      <3>1. cli' = [cli EXCEPT ![p] = t]  BY <1>3 DEF CliSends
      <3>2. cli[p] \in CliRec /\ w \in Seq(1..2)  BY <1>0, <2>1 DEF CliTypes
      <3> HIDE DEF w
      <3>3. t \in CliRec /\ t.pc = "sent" /\ t.says = cli[p].says /\ t.wire = w /\ t.back = cli[p].back
        BY <3>2, CliWith
      <3> HIDE DEF t
      <3> QED  BY <1>0, <3>1, <3>3 DEF CliTypes, w
    <2>3. Append(cli[p].wire, id) # <<>>
          /\ (cli[p].wire # <<>> => Head(Append(cli[p].wire, id)) = Head(cli[p].wire))
          /\ (cli[p].wire = <<>> => Head(Append(cli[p].wire, id)) = id)
      BY <2>1
    <2>4. CliTypes'  BY <1>0, <1>3, <2>2 DEF CliSends, CliTypes
    <2>5. RanOnce(p)'
      <3>1. cli[p].says \notin {"busy", "unavailable"}
        BY <1>0, <1>3, NoneApart DEF CliSends, RanOnce
      <3>2. UNCHANGED <<seen, ran>> /\ ((cli[p].pc = "hello" /\ id = 1) \/ cli[p].pc = "sent")  BY <1>3 DEF CliSends
      <3>3. ran[p] = 0 => cli'[p].back = <<>> /\ Head(cli'[p].wire) = 1
        BY <1>0, <2>2, <2>3, <3>2 DEF RanOnce
      <3>4. cli'[p].wire # <<>>  BY <2>2, <2>3
      <3> QED  BY <1>0, <2>2, <3>1, <3>2, <3>3, <3>4 DEF RanOnce
    <2> QED  BY <1>3, <2>2, <2>4, <2>5, OthersKept DEF CliSends
  <1>4. ASSUME NEW p \in Clients, CliHandled(p) PROVE CliInv'
    <2> DEFINE id == Head(cli[p].wire)
    <2>1. /\ cli[p].wire \in Seq(1..2) /\ cli[p].wire # <<>> /\ cli[p].back \in Seq({"ok", "duplicate"})
          /\ seen[p] \in SUBSET (1..2) /\ seen[p] # None /\ ran[p] \in {0, 1}
      BY <1>0, <1>4 DEF CliHandled, CliTypes, CliRec
    <2>2. id \in 1..2 /\ Tail(cli[p].wire) \in Seq(1..2)  BY <2>1
    <2>3. CASE id \notin seen[p] /\ Cardinality(seen[p]) >= MaxSeen
      <3>1. seen' = [seen EXCEPT ![p] = None] /\ UNCHANGED <<cli, ran>>  BY <1>4, <2>3 DEF CliHandled
      <3> QED  BY <1>0, <3>1, OthersKept DEF CliTypes, RanOnce
    <2>4. CASE ~(id \notin seen[p] /\ Cardinality(seen[p]) >= MaxSeen)
      <3> DEFINE answer == IF id \in seen[p] THEN "duplicate" ELSE "ok"
      <3>1. /\ seen' = [seen EXCEPT ![p] = seen[p] \cup {id}]
            /\ ran' = [ran EXCEPT ![p] = IF id = 1 /\ id \notin seen[p] THEN @ + 1 ELSE @]
            /\ cli' = [cli EXCEPT ![p] = [cli[p] EXCEPT !.wire = Tail(cli[p].wire), !.back = Append(cli[p].back, answer)]]
        BY <1>4, <2>4 DEF CliHandled, Remembered
      <3>2. Append(cli[p].back, answer) \in Seq({"ok", "duplicate"})  BY <2>1
      <3>3. /\ cli' \in [Clients -> CliRec] /\ \A q \in Clients : q # p => cli'[q] = cli[q]
            /\ cli'[p].pc = cli[p].pc /\ cli'[p].says = cli[p].says
        BY <1>0, <2>2, <3>1, <3>2 DEF CliTypes, CliRec
      <3>4. ran[p] = 0 => seen[p] = {} /\ id = 1  BY <1>0, <2>1 DEF RanOnce
      <3>5. ran[p] = 1 => 1 \in seen[p]  BY <1>0, <2>1 DEF RanOnce
      <3>6. ran'[p] = 1 /\ 1 \in seen'[p] /\ seen'[p] \in SUBSET (1..2)
        BY <1>0, <2>1, <2>2, <3>1, <3>4, <3>5 DEF CliTypes
      <3>7. CliTypes'  BY <1>0, <3>1, <3>3, <3>6 DEF CliTypes
      <3>8. RanOnce(p)'
        <4>1. cli[p].pc \notin {"none", "new", "hello"} /\ cli[p].says \notin {"busy", "unavailable"}
          BY <1>0, <2>1 DEF RanOnce
        <4> QED  BY <1>0, <3>3, <3>6, <4>1 DEF RanOnce
      <3> QED  BY <1>0, <3>1, <3>3, <3>7, <3>8, OthersKept DEF CliTypes
    <2> QED  BY <2>3, <2>4
  <1>5. ASSUME NEW p \in Clients, CliReads(p) PROVE CliInv'
    <2>1. cli[p].back \in Seq({"ok", "duplicate"}) /\ cli[p].back # <<>>
      BY <1>0, <1>5 DEF CliReads, CliTypes, CliRec
    <2>2. Head(cli[p].back) \in {"ok", "duplicate"}  BY <2>1
    <2>3. ran[p] = 1  BY <1>0, <2>1 DEF RanOnce, CliTypes
    <2>4. UNCHANGED <<seen, ran>> /\ cli' = CliSays(p, Head(cli[p].back))  BY <1>5 DEF CliReads
    <2>5. /\ cli' \in [Clients -> CliRec] /\ \A q \in Clients : q # p => cli'[q] = cli[q]
          /\ cli'[p].pc = "done" /\ cli'[p].says \in {"ok", "duplicate"}
          /\ cli'[p].wire = cli[p].wire /\ cli'[p].back = cli[p].back
      BY <2>2, <2>4, CliSaysIs
    <2>6. CliTypes' /\ RanOnce(p)'  BY <1>0, <2>3, <2>4, <2>5 DEF CliTypes, RanOnce
    <2> QED  BY <2>4, <2>5, <2>6, OthersKept
  <1>6. ASSUME NEW p \in Clients, CliLost(p) PROVE CliInv'
    <2>1. UNCHANGED <<seen, ran>> /\ cli' = CliSays(p, Lost(cli[p].pc)) /\ cli[p].pc \in {"hello", "sent"}
      BY <1>6 DEF CliLost
    <2>2. Lost(cli[p].pc) = IF cli[p].pc = "sent" THEN "unknown" ELSE "unavailable"  BY DEF Lost
    <2>3. /\ cli' \in [Clients -> CliRec] /\ \A q \in Clients : q # p => cli'[q] = cli[q]
          /\ cli'[p].pc = "done" /\ cli'[p].says = Lost(cli[p].pc)
          /\ cli'[p].wire = cli[p].wire /\ cli'[p].back = cli[p].back
      BY <2>1, <2>2, CliSaysIs
    <2>4. CliTypes' /\ RanOnce(p)'  BY <1>0, <2>1, <2>2, <2>3 DEF CliTypes, RanOnce
    <2> QED  BY <2>1, <2>3, <2>4, OthersKept
  <1>7. ASSUME NEW p \in Clients, CliCloses(p) PROVE CliInv'
    BY <1>0, <1>7, OthersKept DEF CliCloses, CliTypes, RanOnce
  <1> QED  BY <1>1, <1>2, <1>3, <1>4, <1>5, <1>6, <1>7 DEF Next, CliNext, vars

-----------------------------------------------------------------------------
(* What a thread of endbotd is told is true of its own request, and no     *)
(* callback runs twice: identifiers name one call of a link, and a reply   *)
(* reports the Future of the call it names, which is told once.            *)
THEOREM AnswersAreTrue == Spec => []AnswerTrue
  <1>1. CallInv => AnswerTrue
    <2> SUFFICES ASSUME CallInv PROVE AnswerTrue  OBVIOUS
    <2>1. \A k \in Calls : call[k].says \in Told => call[k].of = k /\ fut[k] = call[k].says
      BY DEF CallInv, RepliesTrue
    <2>2. \A i, j \in DOMAIN applied : applied[i] = applied[j] => i = j
      <3>1. \A i, j \in DOMAIN applied : i < j => applied[i] # applied[j]
        BY DEF CallInv, Pipeline, Before
      <3>2. applied \in Seq(Calls)  BY DEF CallInv, LinkTypes
      <3> QED  BY <3>1, <3>2
    <2> QED  BY <2>1, <2>2 DEF CallInv, Futures, AnswerTrue, Told
  <1> QED  BY <1>1, InitCalls, NextCalls, PTL DEF Spec

(* Deliveries and permissions of one link take effect in the order they    *)
(* were sent: the queue of _ordered_loop, the scheduler and the server     *)
(* thread each keep it, whatever timed out on the way.                     *)
THEOREM OrderedInOrder == Spec => []InOrder
  <1>1. CallInv => InOrder
    BY DEF CallInv, Pipeline, Before, Pooled, InOrder
  <1> QED  BY <1>1, InitCalls, NextCalls, PTL DEF Spec

(* A callback given up before it started is never run, by any step: invoke *)
(* looks at the Future first, and a Future is told once.                   *)
THEOREM GivenUpStaysSkipped == Spec => GivenUpIsSkipped
  <1>1. ASSUME CallInv, [Next]_vars
        PROVE  [\A k \in Calls : fut[k] \in {"late", "off"} /\ running # k /\ k \notin Range(applied)
                  => running' # k /\ k \notin Range(applied')]_vars
    <2> SUFFICES ASSUME NEW k \in Calls, fut[k] \in {"late", "off"}, running # k, k \notin Range(applied), Next
                 PROVE  running' # k /\ k \notin Range(applied')
      BY <1>1
    <2>1. CASE UNCHANGED <<running, applied>>  BY <2>1
    <2>2. CASE Invoke  BY <2>2, Numbered DEF Invoke, Runs
    <2>3. CASE Finish
      <3>1. applied \in Seq(Calls) /\ running \in Calls /\ applied' = Append(applied, running) /\ running' = None
        BY <1>1, <2>3 DEF Finish, CallInv, LinkTypes
      <3> QED  BY <3>1, AppendIs, Numbered
    <2> QED
      BY <2>1, <2>2, <2>3 DEF Next, LinkNext, linkVars, TimesOut, PoolTakes, GivesUp, Answers, CloseLooks, Send,
         AcceptReply, ServerCloses, PluginReads, PluginCloses, OrderedTakes, Break, Connect, Disable, CloseTells
  <1> QED  BY <1>1, InitCalls, NextCalls, PTL DEF Spec, GivenUpIsSkipped

(* A request of the CLI runs at most once and "retry" is said only of one  *)
(* that did not run and never will: _seen refuses a repeated identifier,   *)
(* and _request distinguishes a request that was sent.                     *)
THEOREM CliRunsOnce == Spec => []CliOnce
  <1>1. CliInv => CliOnce
    BY DEF CliInv, CliTypes, RanOnce, CliOnce
  <1> QED  BY <1>1, InitCli, NextCli, PTL DEF Spec
=============================================================================
