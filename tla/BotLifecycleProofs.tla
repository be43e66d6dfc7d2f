------------------------- MODULE BotLifecycleProofs -------------------------
(***************************************************************************)
(* Proofs about BotLifecycle, for any number of Bots, names, sessions,     *)
(* commands, attempts and restarts: types, at most one open transport per  *)
(* Bot, unique names, the refinement of BotTransport, wanted Bots that are *)
(* always served, forgetting that is final, and losses counted once.       *)
(***************************************************************************)
EXTENDS BotLifecycle, SequenceTheorems, TLAPS

(* A segment runs for an operation, and open sessions have an owner.       *)
ChainInv   == ChainOK /\ \A i \in Ids : stage[i] # "idle" => queue[i] # <<>>
SessionInv == /\ SessionOK
              /\ \A s \in Sessions : phase[s] \in Open \/ late[s] => owner[s] \in Ids

TypeInv == StoreOK /\ EntryOK /\ ChainInv /\ SessionInv /\ ProcOK

-----------------------------------------------------------------------------
(* What a step leaves alone keeps its type.                                *)
LEMMA SameStore ==
  ASSUME StoreOK, UNCHANGED <<storeVars, gen>> PROVE StoreOK'
  BY DEF StoreOK, storeVars

LEMMA SameEntry ==
  ASSUME EntryOK, UNCHANGED entryVars PROVE EntryOK'
  BY DEF EntryOK, entryVars

LEMMA SameChain ==
  ASSUME ChainInv, UNCHANGED chainVars PROVE ChainInv'
  BY DEF ChainInv, ChainOK, chainVars

LEMMA SameSession ==
  ASSUME SessionInv, UNCHANGED sessionVars PROVE SessionInv'
  BY DEF SessionInv, SessionOK, sessionVars

LEMMA SameProc ==
  ASSUME ProcOK, UNCHANGED procVars PROVE ProcOK'
  BY DEF ProcOK, procVars

-----------------------------------------------------------------------------
(* The building blocks of the actions.                                     *)
LEMMA OpTyped ==
  ASSUME NEW g \in Nat, NEW was \in BOOLEAN, NEW n \in Names \cup {NoName},
         NEW kind \in {"start", "reconnect", "despawn", "forget", "rename", "retry"}
  PROVE  Op(kind, g, was, n) \in Operation
  BY DEF Op, Operation

LEMMA CommandOp ==
  ASSUME StoreOK, NEW i \in Ids, NEW kind \in {"start", "reconnect", "despawn"}
  PROVE  Op(kind, gen[i] + 1, FALSE, NoName) \in Operation
  <1>1. gen[i] + 1 \in Nat  BY DEF StoreOK
  <1> QED  BY <1>1 DEF Op, Operation

LEMMA EnqueueTyped ==
  ASSUME ChainInv, NEW i \in Ids, NEW o \in Operation, Enqueue(i, o), UNCHANGED stage
  PROVE  ChainInv'
  <1>1. queue \in [Ids -> Seq(Operation)]  BY DEF ChainInv, ChainOK
  <1>2. Append(queue[i], o) \in Seq(Operation) /\ Append(queue[i], o) # <<>>
    BY <1>1, AppendProperties
  <1>3. queue' = [queue EXCEPT ![i] = Append(queue[i], o)]  BY DEF Enqueue
  <1> QED  BY <1>1, <1>2, <1>3 DEF ChainInv, ChainOK

LEMMA FinishTyped ==
  ASSUME ChainInv, NEW i \in Ids, queue[i] # <<>>, Finish(i)
  PROVE  ChainInv'
  <1>1. queue \in [Ids -> Seq(Operation)]  BY DEF ChainInv, ChainOK
  <1>2. Tail(queue[i]) \in Seq(Operation)  BY <1>1, HeadTailProperties
  <1> QED  BY <1>1, <1>2 DEF Finish, ChainInv, ChainOK

LEMMA WaitTyped ==
  ASSUME ChainInv, NEW i \in Ids, queue[i] # <<>>,
         NEW where \in {"closing", "closed", "delay"}, Wait(i, where)
  PROVE  ChainInv'
  BY DEF Wait, ChainInv, ChainOK

LEMMA TurnTyped ==
  ASSUME ChainInv, NEW i \in Ids, queue[i] # <<>>
  PROVE  Turn(i) \in Operation
  <1>1. queue[i] \in Seq(Operation)  BY DEF ChainInv, ChainOK
  <1>2. 1 \in 1 .. Len(queue[i])  BY <1>1, EmptySeq
  <1> QED  BY <1>1, <1>2, ElementOfSeq DEF Turn

LEMMA TurnParts ==
  ASSUME ChainInv, NEW i \in Ids, queue[i] # <<>>
  PROVE  /\ Turn(i).gen \in Nat
         /\ Turn(i).was \in BOOLEAN
         /\ Turn(i).new \in Names \cup {NoName}
  BY TurnTyped DEF Operation

(* #connect leaves a typed entry; attempt, waiting and held are its caller's. *)
ConnectVarsOK ==
  /\ conn \in [Ids -> Active \cup {"none", "offline", "failed"}]
  /\ attached \in [Ids -> Sessions \cup {NoSession}]
  /\ timer \in [Ids -> Nat]
  /\ handled \in [Ids -> Nat]

LEMMA ConnectTyped ==
  ASSUME EntryOK, SessionInv, NEW i \in Ids, NEW g \in Nat, NEW as \in Active,
         NEW n \in Names \cup {NoName}, Connect(i, g, as, n)
  PROVE  ConnectVarsOK' /\ SessionInv'
  <1>1. CASE attached[i] # NoSession
    <2>1. conn' = [conn EXCEPT ![i] = "failed"] /\ UNCHANGED <<attached, timer, handled, sessionVars>>
      BY <1>1 DEF Connect
    <2> QED  BY <2>1, SameSession DEF EntryOK, ConnectVarsOK
  <1>2. CASE attached[i] = NoSession
    <2>1. PICK s \in Sessions : OpenSession(i, g, as, n, s)  BY <1>2 DEF Connect
    <2>2. ConnectVarsOK'  BY <2>1 DEF OpenSession, NewAttempt, EntryOK, ConnectVarsOK
    <2>3. SessionInv'  BY <2>1 DEF OpenSession, SessionInv, SessionOK, Open
    <2> QED  BY <2>2, <2>3
  <1> QED  BY <1>1, <1>2

LEMMA DialTyped ==
  ASSUME TypeInv, NEW i \in Ids, queue[i] # <<>>, NEW as \in Active,
         NEW n \in Names \cup {NoName}, Dial(i, as, n), attempt' \in [Ids -> Nat]
  PROVE  EntryOK' /\ SessionInv' /\ ChainInv'
  <1>1. ChainInv'  BY FinishTyped DEF Dial, TypeInv
  <1>2. ConnectVarsOK' /\ SessionInv'
    BY TurnParts, ConnectTyped DEF Dial, TypeInv
  <1>3. waiting' = waiting /\ held' = held  BY DEF Dial
  <1>4. EntryOK'  BY <1>2, <1>3 DEF TypeInv, EntryOK, ConnectVarsOK
  <1> QED  BY <1>1, <1>2, <1>4

LEMMA BeginCloseTyped ==
  ASSUME TypeInv, NEW i \in Ids, queue[i] # <<>>, BeginClose(i), attempt' \in [Ids -> Nat]
  PROVE  EntryOK' /\ SessionInv' /\ ChainInv'
  <1>1. EntryOK'  BY DEF BeginClose, EndTimerAndInput, TypeInv, EntryOK
  <1>2. CASE phase[attached[i]] \in Open
    <2>1. ChainInv'  BY <1>2, WaitTyped DEF BeginClose, TypeInv
    <2>2. SessionInv'  BY <1>2 DEF BeginClose, TypeInv, SessionInv, SessionOK
    <2> QED  BY <1>1, <2>1, <2>2
  <1>3. CASE phase[attached[i]] \notin Open
    <2>1. ChainInv'  BY <1>3, WaitTyped DEF BeginClose, TypeInv
    <2>2. SessionInv'  BY <1>3, SameSession DEF BeginClose, TypeInv, sessionVars
    <2> QED  BY <1>1, <2>1, <2>2
  <1> QED  BY <1>2, <1>3

LEMMA CountLossTyped ==
  ASSUME EntryOK, NEW i \in Ids, NEW g \in Nat, NEW notReady \in BOOLEAN,
         CountLoss(i, g, notReady)
  PROVE  /\ conn' \in [Ids -> Active \cup {"none", "offline", "failed"}]
         /\ timer' \in [Ids -> Nat]
         /\ attempt' \in [Ids -> Nat]
         /\ waiting' \in [Ids -> {"no", "recent", "expired"}]
  <1>1. waiting' \in [Ids -> {"no", "recent", "expired"}]
    BY DEF CountLoss, EntryOK
  <1>2. CASE FreeTry(i, notReady)
    BY <1>1, <1>2 DEF CountLoss, RetryAfter, EntryOK, Active
  <1>3. CASE ~FreeTry(i, notReady) /\ BudgetSpent(i)
    BY <1>1, <1>3 DEF CountLoss, EntryOK, Active
  <1>4. CASE ~FreeTry(i, notReady) /\ ~BudgetSpent(i)
    BY <1>1, <1>4 DEF CountLoss, RetryAfter, EntryOK, Active
  <1> QED  BY <1>2, <1>3, <1>4

LEMMA DisconnectedTyped ==
  ASSUME StoreOK, EntryOK, NEW i \in Ids, NEW g \in Nat, NEW s, NEW notReady \in BOOLEAN,
         Disconnected(i, g, s, notReady)
  PROVE  EntryOK'
  <1>1. CASE ~Counts(i, g, s)
    BY <1>1, SameEntry DEF Disconnected
  <1>2. CASE Counts(i, g, s)
    <2>1. /\ attached' \in [Ids -> Sessions \cup {NoSession}]
          /\ handled' \in [Ids -> Nat]
          /\ held' \in [Ids -> BOOLEAN]
      BY <1>2 DEF Disconnected, EntryOK
    <2>2. CASE desired[i]
      <3>1. CountLoss(i, g, notReady)  BY <1>2, <2>2 DEF Disconnected
      <3> QED  BY <2>1, <3>1, CountLossTyped DEF EntryOK
    <2>3. CASE ~desired[i]
      BY <1>2, <2>1, <2>3 DEF Disconnected, EntryOK
    <2> QED  BY <2>2, <2>3
  <1> QED  BY <1>1, <1>2

-----------------------------------------------------------------------------
(* Every action keeps TypeInv.                                             *)
LEMMA CommandTyped ==
  ASSUME TypeInv, NEW i \in Ids, Command(i)
  PROVE  TypeInv'
  <1> USE ConstantsAssumption DEF TypeInv
  <1>1. ASSUME NEW n \in Names, SpawnNew(i, n) PROVE TypeInv'
    <2>1. StoreOK' /\ EntryOK' /\ UNCHANGED <<stage, sessionVars, procVars>>
      BY <1>1 DEF SpawnNew, Invalidate, StoreOK, EntryOK
    <2>2. Op("start", gen[i] + 1, FALSE, NoName) \in Operation  BY CommandOp
    <2>3. ChainInv'  BY <1>1, <2>1, <2>2, EnqueueTyped DEF SpawnNew
    <2> QED  BY <2>1, <2>3, SameSession, SameProc
  <1>2. ASSUME NEW n \in Names, SpawnHalfDone(i, n) PROVE TypeInv'
    <2>1. StoreOK' /\ UNCHANGED <<entryVars, chainVars, sessionVars, procVars>>
      BY <1>2 DEF SpawnHalfDone, StoreOK
    <2> QED  BY <2>1, SameEntry, SameChain, SameSession, SameProc
  <1>3. ASSUME NEW n \in Names, Rename(i, n) PROVE TypeInv'
    <2>1. StoreOK' /\ EntryOK' /\ UNCHANGED <<stage, sessionVars, procVars>>
      BY <1>3 DEF Rename, Invalidate, storeVars, StoreOK, EntryOK
    <2>2. Op("rename", gen[i] + 1, desired[i], n) \in Operation  BY OpTyped DEF StoreOK
    <2>3. ChainInv'  BY <1>3, <2>1, <2>2, EnqueueTyped DEF Rename
    <2> QED  BY <2>1, <2>3, SameSession, SameProc
  <1>4. ASSUME SpawnOrResume(i) PROVE TypeInv'
    <2>1. StoreOK' /\ EntryOK' /\ UNCHANGED <<stage, sessionVars, procVars>>
      BY <1>4 DEF SpawnOrResume, Invalidate, StoreOK, EntryOK
    <2>2. Op("start", gen[i] + 1, FALSE, NoName) \in Operation  BY CommandOp
    <2>3. ChainInv'  BY <1>4, <2>1, <2>2, EnqueueTyped DEF SpawnOrResume
    <2> QED  BY <2>1, <2>3, SameSession, SameProc
  <1>5. ASSUME Reconnect(i) PROVE TypeInv'
    <2>1. StoreOK' /\ EntryOK' /\ UNCHANGED <<stage, sessionVars, procVars>>
      BY <1>5 DEF Reconnect, Invalidate, storeVars, StoreOK, EntryOK
    <2>2. Op("reconnect", gen[i] + 1, FALSE, NoName) \in Operation  BY CommandOp
    <2>3. ChainInv'  BY <1>5, <2>1, <2>2, EnqueueTyped DEF Reconnect
    <2> QED  BY <2>1, <2>3, SameSession, SameProc
  <1>6. ASSUME Despawn(i) PROVE TypeInv'
    <2>1. StoreOK' /\ EntryOK' /\ UNCHANGED <<stage, sessionVars, procVars>>
      BY <1>6 DEF Despawn, Invalidate, StoreOK, EntryOK
    <2>2. Op("despawn", gen[i] + 1, FALSE, NoName) \in Operation  BY CommandOp
    <2>3. ChainInv'  BY <1>6, <2>1, <2>2, EnqueueTyped DEF Despawn
    <2> QED  BY <2>1, <2>3, SameSession, SameProc
  <1>7. ASSUME Forget(i) PROVE TypeInv'
    <2>1. StoreOK' /\ EntryOK' /\ UNCHANGED <<stage, sessionVars, procVars>>
      BY <1>7 DEF Forget, storeVars, entryVars, StoreOK, EntryOK
    <2>2. Op("forget", 0, FALSE, NoName) \in Operation  BY OpTyped DEF StoreOK
    <2>3. ChainInv'  BY <1>7, <2>1, <2>2, EnqueueTyped DEF Forget
    <2> QED  BY <2>1, <2>3, SameSession, SameProc
  <1>8. ASSUME Input(i) \/ StopInput(i) PROVE TypeInv'
    <2>1. EntryOK' /\ UNCHANGED <<storeVars, gen, chainVars, sessionVars, procVars>>
      BY <1>8 DEF Input, StopInput, EntryOK
    <2> QED  BY <2>1, SameStore, SameChain, SameSession, SameProc
  <1> QED  BY <1>1, <1>2, <1>3, <1>4, <1>5, <1>6, <1>7, <1>8 DEF Command

LEMMA ResetTyped ==
  ASSUME EntryOK, NEW i \in Ids, ResetRetryBudget(i)
  PROVE  attempt' \in [Ids -> Nat]
  BY DEF ResetRetryBudget, EntryOK

LEMMA SkipTyped ==
  ASSUME TypeInv, NEW i \in Ids, queue[i] # <<>>, Skip(i), SegmentFrame
  PROVE  TypeInv'
  <1>1. UNCHANGED <<storeVars, gen, entryVars, sessionVars, procVars>>
    BY DEF Skip, SegmentFrame, storeVars
  <1>2. ChainInv'  BY FinishTyped DEF Skip, TypeInv
  <1> QED  BY <1>1, <1>2, SameStore, SameEntry, SameSession, SameProc DEF TypeInv

(* A segment that ends in #connect or in a wait for disconnect().          *)
LEMMA DialSegmentTyped ==
  ASSUME TypeInv, NEW i \in Ids, queue[i] # <<>>, SegmentFrame,
         NEW as \in Active, NEW n \in Names \cup {NoName}, Dial(i, as, n),
         name' \in [Ids -> Names \cup {NoName}], attempt' \in [Ids -> Nat]
  PROVE  TypeInv'
  <1>1. EntryOK' /\ SessionInv' /\ ChainInv'  BY DialTyped
  <1>2. StoreOK'  BY DEF SegmentFrame, TypeInv, StoreOK
  <1>3. ProcOK'  BY SameProc DEF SegmentFrame, TypeInv
  <1> QED  BY <1>1, <1>2, <1>3 DEF TypeInv

LEMMA CloseSegmentTyped ==
  ASSUME TypeInv, NEW i \in Ids, queue[i] # <<>>, SegmentFrame, UNCHANGED name,
         BeginClose(i), attempt' \in [Ids -> Nat]
  PROVE  TypeInv'
  <1>1. EntryOK' /\ SessionInv' /\ ChainInv'  BY BeginCloseTyped
  <1>2. StoreOK'  BY SameStore DEF SegmentFrame, TypeInv, storeVars
  <1>3. ProcOK'  BY SameProc DEF SegmentFrame, TypeInv
  <1> QED  BY <1>1, <1>2, <1>3 DEF TypeInv

LEMMA AdvanceTyped ==
  ASSUME TypeInv, NEW i \in Ids, Advance(i)
  PROVE  TypeInv'
  <1> USE DEF TypeInv
  <1>a. name[i] \in Names \cup {NoName} /\ name \in [Ids -> Names \cup {NoName}] /\ attempt \in [Ids -> Nat]
    BY DEF StoreOK, EntryOK
  <1>b. {"connecting", "reconnecting"} \subseteq Active  BY DEF Active
  <1>1. CASE StartBegins(i)
    <2>1. queue[i] # <<>> /\ SegmentFrame  BY <1>1 DEF StartBegins, At
    <2>2. CASE Skip(i)  BY <2>1, <2>2, SkipTyped
    <2>3. CASE ResetRetryBudget(i) /\ Dial(i, "connecting", name[i]) /\ UNCHANGED name
      BY <1>a, <1>b, <2>1, <2>3, ResetTyped, DialSegmentTyped
    <2>4. CASE BeginClose(i) /\ UNCHANGED <<attempt, name>>
      BY <1>a, <2>1, <2>4, CloseSegmentTyped
    <2> QED  BY <1>1, <2>2, <2>3, <2>4 DEF StartBegins
  <1>2. CASE StartResumes(i)
    <2>1. queue[i] # <<>> /\ SegmentFrame  BY <1>2 DEF StartResumes, At
    <2>2. CASE Skip(i)  BY <2>1, <2>2, SkipTyped
    <2>3. CASE ResetRetryBudget(i) /\ Dial(i, "connecting", name[i]) /\ UNCHANGED name
      BY <1>a, <1>b, <2>1, <2>3, ResetTyped, DialSegmentTyped
    <2> QED  BY <1>2, <2>2, <2>3 DEF StartResumes
  <1>3. CASE ReconnectBegins(i)
    <2>1. queue[i] # <<>> /\ SegmentFrame  BY <1>3 DEF ReconnectBegins, At
    <2>2. CASE Skip(i)  BY <2>1, <2>2, SkipTyped
    <2>3. CASE ResetRetryBudget(i) /\ UNCHANGED name /\ BeginClose(i)
      BY <2>1, <2>3, ResetTyped, CloseSegmentTyped
    <2>4. CASE /\ ResetRetryBudget(i) /\ UNCHANGED name
               /\ EndTimerAndInput(i) /\ Wait(i, "delay")
               /\ UNCHANGED <<conn, attached, handled, waiting, sessionVars>>
      <3>1. EntryOK'  BY <2>4 DEF ResetRetryBudget, EndTimerAndInput, EntryOK
      <3>2. ChainInv'  BY <2>1, <2>4, WaitTyped
      <3>3. StoreOK' /\ ProcOK'  BY <2>1, <2>4, SameStore, SameProc DEF SegmentFrame, storeVars
      <3> QED  BY <2>4, <3>1, <3>2, <3>3, SameSession
    <2> QED  BY <1>3, <2>2, <2>3, <2>4 DEF ReconnectBegins
  <1>4. CASE ReconnectResumes(i)
    <2>1. queue[i] # <<>> /\ SegmentFrame  BY <1>4 DEF ReconnectResumes, At
    <2>2. CASE Skip(i)  BY <2>1, <2>2, SkipTyped
    <2>3. CASE Dial(i, "reconnecting", name[i]) /\ UNCHANGED <<attempt, name>>
      BY <1>a, <1>b, <2>1, <2>3, DialSegmentTyped
    <2> QED  BY <1>4, <2>2, <2>3 DEF ReconnectResumes
  <1>5. CASE RenameBegins(i)
    <2>1. queue[i] # <<>> /\ SegmentFrame  BY <1>5 DEF RenameBegins, At
    <2>2. Turn(i).new \in Names \cup {NoName}  BY <2>1, TurnParts
    <2>3. CASE BeginClose(i) /\ UNCHANGED <<attempt, name>>
      BY <1>a, <2>1, <2>3, CloseSegmentTyped
    <2>4. CASE /\ EndTimerAndInput(i)
               /\ IF MayGoOn(i) THEN Wait(i, "delay") ELSE Finish(i)
               /\ UNCHANGED <<conn, attached, handled, attempt, waiting, sessionVars, name>>
      <3>1. EntryOK'  BY <2>4 DEF EndTimerAndInput, EntryOK
      <3>2. Wait(i, "delay") \/ Finish(i)  BY <2>4
      <3>3. ChainInv'  BY <2>1, <3>2, WaitTyped, FinishTyped
      <3>4. StoreOK' /\ ProcOK'  BY <2>1, <2>4, SameStore, SameProc DEF SegmentFrame, storeVars
      <3> QED  BY <2>4, <3>1, <3>3, <3>4, SameSession
    <2>5. CASE /\ name' = [name EXCEPT ![i] = Turn(i).new]
               /\ Finish(i) /\ UNCHANGED <<entryVars, sessionVars>>
      <3>1. StoreOK'  BY <2>1, <2>2, <2>5 DEF StoreOK, SegmentFrame
      <3>2. ProcOK'  BY <2>1, SameProc DEF SegmentFrame
      <3> QED  BY <2>1, <2>5, <3>1, <3>2, FinishTyped, SameEntry, SameSession
    <2>6. CASE Skip(i)  BY <2>1, <2>6, SkipTyped
    <2> QED  BY <1>5, <2>3, <2>4, <2>5, <2>6 DEF RenameBegins
  <1>6. CASE RenameResumes(i)
    <2>1. queue[i] # <<>> /\ SegmentFrame  BY <1>6 DEF RenameResumes, At
    <2>2. Turn(i).new \in Names \cup {NoName}  BY <2>1, TurnParts
    <2>3. CASE Skip(i)  BY <2>1, <2>3, SkipTyped
    <2>4. CASE /\ name' = [name EXCEPT ![i] = Turn(i).new]
               /\ ResetRetryBudget(i) /\ Dial(i, "reconnecting", Turn(i).new)
      <3>1. name' \in [Ids -> Names \cup {NoName}]  BY <1>a, <2>2, <2>4
      <3> QED  BY <1>b, <2>1, <2>2, <2>4, <3>1, ResetTyped, DialSegmentTyped
    <2>5. CASE ResetRetryBudget(i) /\ Dial(i, "reconnecting", name[i]) /\ UNCHANGED name
      BY <1>a, <1>b, <2>1, <2>5, ResetTyped, DialSegmentTyped
    <2> QED  BY <1>6, <2>3, <2>4, <2>5 DEF RenameResumes
  <1>7. CASE DespawnBegins(i)
    <2>1. queue[i] # <<>> /\ SegmentFrame /\ UNCHANGED name  BY <1>7 DEF DespawnBegins, At
    <2>2. CASE BeginClose(i) /\ UNCHANGED attempt
      BY <1>a, <2>1, <2>2, CloseSegmentTyped
    <2>3. CASE /\ EndTimerAndInput(i) /\ Finish(i)
               /\ conn' = [conn EXCEPT ![i] = IF gen[i] = Turn(i).gen /\ Live(i) /\ ~desired[i]
                                              THEN "offline" ELSE @]
               /\ UNCHANGED <<attached, handled, attempt, waiting, sessionVars>>
      <3>1. EntryOK'  BY <2>3 DEF EndTimerAndInput, EntryOK
      <3>2. StoreOK' /\ ProcOK'  BY <2>1, SameStore, SameProc DEF SegmentFrame, storeVars
      <3> QED  BY <2>1, <2>3, <3>1, <3>2, FinishTyped, SameSession
    <2> QED  BY <1>7, <2>2, <2>3 DEF DespawnBegins
  <1>8. CASE ForgetRuns(i)
    <2>1. queue[i] # <<>> /\ Finish(i) /\ UNCHANGED <<desired, sessionVars, procVars>>
      BY <1>8 DEF ForgetRuns, At
    <2>2. StoreOK'  BY <1>8 DEF ForgetRuns, Invalidate, StoreOK
    <2>3. CASE UNCHANGED entryVars  BY <2>1, <2>2, <2>3, SameEntry, FinishTyped, SameSession, SameProc
    <2>4. CASE /\ Invalidate(i)
               /\ conn' = [conn EXCEPT ![i] = "none"]
               /\ handled' = [handled EXCEPT ![i] = 0]
               /\ attempt' = [attempt EXCEPT ![i] = 0]
               /\ waiting' = [waiting EXCEPT ![i] = "no"]
               /\ held' = [held EXCEPT ![i] = FALSE]
               /\ UNCHANGED attached
      <3>1. EntryOK'  BY <2>4 DEF Invalidate, EntryOK
      <3> QED  BY <2>1, <2>2, <3>1, FinishTyped, SameSession, SameProc
    <2> QED  BY <1>8, <2>3, <2>4 DEF ForgetRuns
  <1>9. CASE RetryRuns(i)
    <2>1. queue[i] # <<>> /\ SegmentFrame /\ UNCHANGED name  BY <1>9 DEF RetryRuns, At
    <2>2. CASE Finish(i) /\ UNCHANGED <<entryVars, sessionVars>>
      <3>1. Skip(i)  BY <2>1, <2>2 DEF Skip
      <3> QED  BY <2>1, <3>1, SkipTyped
    <2>3. CASE Dial(i, "reconnecting", name[i]) /\ UNCHANGED attempt
      BY <1>a, <1>b, <2>1, <2>3, DialSegmentTyped
    <2> QED  BY <1>9, <2>2, <2>3 DEF RetryRuns
  <1>10. CASE CloseDone(i)
    <2>1. queue[i] # <<>>  BY <1>10 DEF CloseDone, ChainInv
    <2>2. Turn(i).gen \in Nat  BY <2>1, TurnParts
    <2>3. ClosedEntry(i) /\ UNCHANGED <<storeVars, gen, timer, attempt, waiting, held, sessionVars, procVars>>
      BY <1>10 DEF CloseDone
    <2>4. EntryOK'  BY <2>2, <2>3 DEF ClosedEntry, EntryOK
    <2>5. Wait(i, "delay") \/ Finish(i)  BY <1>10 DEF CloseDone
    <2>6. ChainInv'  BY <2>1, <2>5, WaitTyped, FinishTyped
    <2> QED  BY <2>3, <2>4, <2>6, SameStore, SameSession, SameProc
  <1>11. CASE CloseFailed(i)
    <2>1. queue[i] # <<>>  BY <1>11 DEF CloseFailed, ChainInv
    <2>2. Finish(i) /\ UNCHANGED <<storeVars, gen, sessionVars, procVars>>  BY <1>11 DEF CloseFailed
    <2>3. EntryOK'  BY <1>11 DEF CloseFailed, EntryOK
    <2> QED  BY <2>1, <2>2, <2>3, FinishTyped, SameStore, SameSession, SameProc
  <1> QED  BY <1>1, <1>2, <1>3, <1>4, <1>5, <1>6, <1>7, <1>8, <1>9, <1>10, <1>11 DEF Advance

LEMMA TimersTyped ==
  ASSUME TypeInv, NEW i \in Ids, TimerFire(i) \/ WaitExpires(i)
  PROVE  TypeInv'
  <1> USE DEF TypeInv
  <1>1. CASE TimerFire(i)
    <2>1. timer[i] \in Nat  BY DEF EntryOK
    <2>2. Op("retry", timer[i], FALSE, NoName) \in Operation  BY <2>1 DEF Op, Operation
    <2>3. ChainInv'  BY <1>1, <2>2, EnqueueTyped DEF TimerFire
    <2>4. EntryOK' /\ UNCHANGED <<storeVars, gen, sessionVars, procVars>>
      BY <1>1 DEF TimerFire, EntryOK
    <2> QED  BY <2>3, <2>4, SameStore, SameSession, SameProc
  <1>2. CASE WaitExpires(i)
    <2>1. EntryOK' /\ UNCHANGED <<storeVars, gen, chainVars, sessionVars, procVars>>
      BY <1>2 DEF WaitExpires, EntryOK
    <2> QED  BY <2>1, SameStore, SameChain, SameSession, SameProc
  <1> QED  BY <1>1, <1>2

LEMMA SettlesTyped ==
  ASSUME ChainInv, NEW s \in Sessions, NEW outcome \in {"closed", "closefailed"},
         DisconnectSettles(s, outcome), UNCHANGED queue
  PROVE  ChainInv'
  <1>1. CASE Awaited(s)
    BY <1>1 DEF DisconnectSettles, Awaited, ChainInv, ChainOK
  <1>2. CASE ~Awaited(s)
    <2>1. stage' = stage  BY <1>2 DEF DisconnectSettles
    <2> QED  BY <2>1, SameChain DEF chainVars
  <1> QED  BY <1>1, <1>2

LEMMA TransportClosesTyped ==
  ASSUME TypeInv, NEW s \in Sessions, TransportCloses(s),
         late' \in [Sessions -> BOOLEAN],
         \A t \in Sessions : late'[t] => late[t] \/ t = s, owner[s] \in Ids
  PROVE  StoreOK' /\ ChainInv' /\ SessionInv' /\ ProcOK'
  <1> USE DEF TypeInv
  <1>1. StoreOK' /\ ProcOK'
    BY SameStore, SameProc DEF TransportCloses
  <1>2. ChainInv'  BY SettlesTyped DEF TransportCloses
  <1>3. SessionInv'
    BY DEF TransportCloses, DisconnectSettles, SessionInv, SessionOK, Open
  <1> QED  BY <1>1, <1>2, <1>3

LEMMA SessionEventTyped ==
  ASSUME TypeInv, NEW s \in Sessions, SessionEvent(s)
  PROVE  TypeInv'
  <1> USE DEF TypeInv
  <1>a. sgen[s] \in Nat  BY DEF SessionInv, SessionOK
  <1>1. ASSUME NEW notReady \in BOOLEAN, NEW again \in BOOLEAN, ConnectRejected(s, notReady, again)
        PROVE  TypeInv'
    <2>1. owner[s] \in Ids  BY <1>1 DEF ConnectRejected, SessionInv, Open
    <2>2. EntryOK'  BY <1>a, <1>1, <2>1, DisconnectedTyped DEF ConnectRejected
    <2>3. /\ late' \in [Sessions -> BOOLEAN]
          /\ \A t \in Sessions : late'[t] => late[t] \/ t = s
      BY <1>1 DEF ConnectRejected, SessionInv, SessionOK
    <2> QED  BY <1>1, <2>1, <2>2, <2>3, TransportClosesTyped DEF ConnectRejected
  <1>2. CASE Spawned(s)
    <2>1. owner[s] \in Ids  BY <1>2 DEF Spawned, SessionInv, Open
    <2>2. EntryOK'  BY <1>2, <2>1 DEF Spawned, EntryOK, Active
    <2>3. SessionInv'  BY <1>2, <2>1 DEF Spawned, SessionInv, SessionOK, Open
    <2>4. UNCHANGED <<storeVars, gen, chainVars, procVars>>  BY <1>2 DEF Spawned
    <2> QED  BY <2>2, <2>3, <2>4, SameStore, SameChain, SameProc
  <1>3. CASE LateRejection(s)
    <2>1. owner[s] \in Ids  BY <1>3 DEF LateRejection, SessionInv
    <2>2. EntryOK'  BY <1>a, <1>3, <2>1, DisconnectedTyped DEF LateRejection
    <2>3. SessionInv'  BY <1>3 DEF LateRejection, SessionInv, SessionOK
    <2>4. UNCHANGED <<storeVars, gen, chainVars, procVars>>  BY <1>3 DEF LateRejection
    <2> QED  BY <2>2, <2>3, <2>4, SameStore, SameChain, SameProc
  <1>4. CASE TransportLost(s)
    <2>1. owner[s] \in Ids  BY <1>4 DEF TransportLost, SessionInv, Open
    <2>2. Disconnected(owner[s], sgen[s], s, FALSE) \/ UNCHANGED entryVars
      BY <1>4 DEF TransportLost
    <2>3. EntryOK'  BY <1>a, <2>1, <2>2, DisconnectedTyped, SameEntry
    <2>4. late' = late  BY <1>4 DEF TransportLost
    <2>5. late' \in [Sessions -> BOOLEAN]  BY <2>4 DEF SessionInv, SessionOK
    <2> QED  BY <1>4, <2>1, <2>3, <2>4, <2>5, TransportClosesTyped DEF TransportLost
  <1>5. CASE DisconnectFails(s)
    <2>1. ChainInv'  BY <1>5, SettlesTyped DEF DisconnectFails
    <2>2. SessionInv'  BY <1>5 DEF DisconnectFails, DisconnectSettles, SessionInv, SessionOK
    <2>3. UNCHANGED <<storeVars, gen, entryVars, procVars>>  BY <1>5 DEF DisconnectFails
    <2> QED  BY <2>1, <2>2, <2>3, SameStore, SameEntry, SameProc
  <1> QED  BY <1>1, <1>2, <1>3, <1>4, <1>5 DEF SessionEvent, ConnectSettles

LEMMA ProcessTyped ==
  ASSUME TypeInv, BeginShutdown \/ Drained \/ Exit \/ Restart
  PROVE  TypeInv'
  <1> USE DEF TypeInv
  <1>1. CASE BeginShutdown
    <2>1. StoreOK'  BY <1>1 DEF BeginShutdown, StoreOK, storeVars
    <2>2. EntryOK'  BY <1>1 DEF BeginShutdown, EntryOK
    <2>3. ProcOK' /\ UNCHANGED <<chainVars, sessionVars>>  BY <1>1 DEF BeginShutdown, ProcOK
    <2> QED  BY <2>1, <2>2, <2>3, SameChain, SameSession
  <1>2. CASE Drained
    <2>1. EntryOK'  BY <1>2 DEF Drained, NoEntries, EntryOK
    <2>2. SessionInv'  BY <1>2 DEF Drained, SessionInv, SessionOK
    <2>3. ProcOK' /\ UNCHANGED <<storeVars, gen, chainVars>>  BY <1>2 DEF Drained, ProcOK
    <2> QED  BY <2>1, <2>2, <2>3, SameStore, SameChain
  <1>3. CASE Exit
    <2>1. SessionInv'  BY <1>3 DEF Exit, SessionInv, SessionOK, Open
    <2>2. ProcOK' /\ UNCHANGED <<storeVars, gen, entryVars, chainVars>>  BY <1>3 DEF Exit, ProcOK
    <2> QED  BY <2>1, <2>2, SameStore, SameEntry, SameChain
  <1>4. CASE Restart
    <2>1. StoreOK'  BY <1>4 DEF Restart, StoreOK, storeVars
    <2>3. ChainInv'  BY <1>4, EmptySeq DEF Restart, ChainInv, ChainOK
    <2>4. PICK f \in [Ids -> Sessions \cup {NoSession}] : RestartSessions(f)
      BY <1>4 DEF Restart
    <2>5. /\ discon' = [s \in Sessions |-> "no"]
          /\ late' = [s \in Sessions |-> FALSE]
      BY <1>4 DEF Restart
    <2>2. EntryOK'
      <3>1. attached' \in [Ids -> Sessions \cup {NoSession}]  BY <2>4 DEF RestartSessions
      <3> QED  BY <1>4, <3>1 DEF Restart, EntryOK, Active
    <2>6. \A s \in Sessions : (\E i \in Ids : f[i] = s) => (CHOOSE i \in Ids : f[i] = s) \in Ids
      OBVIOUS
    <2>7. SessionInv'
      BY <2>4, <2>5, <2>6 DEF RestartSessions, SessionInv, SessionOK, StoreOK, Open
    <2>8. ProcOK'  BY <1>4 DEF Restart, ProcOK
    <2> QED  BY <2>1, <2>2, <2>3, <2>7, <2>8
  <1> QED  BY <1>1, <1>2, <1>3, <1>4

LEMMA NextTyped ==
  ASSUME TypeInv, [Next]_vars
  PROVE  TypeInv'
  <1>1. CASE UNCHANGED vars
    <2>1. UNCHANGED <<storeVars, gen, entryVars, chainVars, sessionVars, procVars>>
      BY <1>1 DEF vars
    <2> QED  BY <2>1, SameStore, SameEntry, SameChain, SameSession, SameProc DEF TypeInv
  <1>2. CASE Next
    BY <1>2, CommandTyped, AdvanceTyped, TimersTyped, SessionEventTyped, ProcessTyped DEF Next
  <1> QED  BY <1>1, <1>2

LEMMA InitTyped ==
  ASSUME Init PROVE TypeInv
  <1> USE ConstantsAssumption
  <1>1. StoreOK /\ EntryOK /\ ProcOK  BY DEF Init, StoreOK, EntryOK, ProcOK
  <1>2. ChainInv  BY EmptySeq DEF Init, ChainInv, ChainOK
  <1>3. SessionInv  BY DEF Init, SessionInv, SessionOK, Open
  <1> QED  BY <1>1, <1>2, <1>3 DEF TypeInv

(* The types of BotLifecycle's state hold in every reachable state.        *)
THEOREM TypeCorrect == Spec => []TypeOK
  <1>1. Init => TypeInv  BY InitTyped
  <1>2. TypeInv /\ [Next]_vars => TypeInv'  BY NextTyped
  <1>3. TypeInv => TypeOK  BY DEF TypeInv, ChainInv, SessionInv, TypeOK
  <1> QED  BY <1>1, <1>2, <1>3, PTL DEF Spec

-----------------------------------------------------------------------------
(* At most one open transport.  It is not inductive alone: a session is    *)
(* detached only when it is closed, and OpenIsAttached says that nothing   *)
(* detached is open, so #connect, which needs a free entry, finds no open  *)
(* transport of the same Bot.                                              *)
AttachedIsOwned ==
  \A i \in Ids : attached[i] # NoSession => owner[attached[i]] = i

ClosedBeforeDetached ==
  \A i \in Ids : stage[i] = "closed" /\ attached[i] # NoSession => phase[attached[i]] \notin Open

LateIsClosed == \A s \in Sessions : late[s] => phase[s] \notin Open

TransportInv ==
  OneTransport /\ OpenIsAttached /\ AttachedIsOwned /\ ClosedBeforeDetached /\ LateIsClosed

LEMMA SameTransport ==
  ASSUME TransportInv, UNCHANGED <<attached, phase, owner, late, mode>>,
         \A j \in Ids : stage'[j] = "closed" =>
           stage[j] = "closed" \/ attached[j] = NoSession \/ phase[attached[j]] \notin Open
  PROVE  TransportInv'
  BY DEF TransportInv, OneTransport, OpenIsAttached, AttachedIsOwned, ClosedBeforeDetached, LateIsClosed

LEMMA FinishStage ==
  ASSUME TypeInv, NEW i \in Ids, Finish(i) \/ Wait(i, "delay")
  PROVE  \A j \in Ids : stage'[j] = "closed" => stage[j] = "closed" /\ j # i
  BY DEF Finish, Wait, TypeInv, ChainInv, ChainOK

LEMMA OpenTransport ==
  ASSUME TypeInv, TransportInv, mode = "running", UNCHANGED mode, NEW i \in Ids,
         attached[i] = NoSession, NEW s \in Sessions, Free(s),
         NEW g, NEW as, NEW n, OpenSession(i, g, as, n, s),
         \A j \in Ids : stage'[j] = "closed" => stage[j] = "closed" /\ j # i
  PROVE  TransportInv'
  <1>1. /\ attached' = [attached EXCEPT ![i] = s]
        /\ phase' = [phase EXCEPT ![s] = "connecting"]
        /\ owner' = [owner EXCEPT ![s] = i]
        /\ late' = late
    BY DEF OpenSession
  <1>2. /\ attached \in [Ids -> Sessions \cup {NoSession}]
        /\ phase \in [Sessions -> Open \cup {"unused", "closed"}]
        /\ owner \in [Sessions -> Ids \cup {NoId}]
    BY DEF TypeInv, EntryOK, SessionInv, SessionOK
  <1>3. /\ phase[s] \notin Open /\ ~late[s] /\ s # NoSession
        /\ \A j \in Ids : attached[j] # s
    BY ConstantsAssumption DEF Free
  <1>4. \A t \in Sessions : phase[t] \in Open => owner[t] # i
    BY ConstantsAssumption DEF TransportInv, OpenIsAttached
  <1>5. OneTransport'
    BY <1>1, <1>2, <1>3, <1>4 DEF TransportInv, OneTransport
  <1>6. OpenIsAttached'
    BY <1>1, <1>2, <1>3, <1>4 DEF TransportInv, OpenIsAttached
  <1>7. AttachedIsOwned'
    BY <1>1, <1>2, <1>3 DEF TransportInv, AttachedIsOwned
  <1>8. ClosedBeforeDetached'
    BY <1>1, <1>2, <1>3 DEF TransportInv, ClosedBeforeDetached
  <1>9. LateIsClosed'
    BY <1>1, <1>2, <1>3 DEF TransportInv, LateIsClosed
  <1> QED  BY <1>5, <1>6, <1>7, <1>8, <1>9 DEF TransportInv

LEMMA DialTransport ==
  ASSUME TypeInv, TransportInv, NEW i \in Ids, MayGoOn(i), SegmentFrame,
         NEW as, NEW n, Dial(i, as, n)
  PROVE  TransportInv'
  <1>1. mode = "running" /\ mode' = mode
    BY DEF MayGoOn, MayConnect, SegmentFrame, procVars
  <1>2. \A j \in Ids : stage'[j] = "closed" => stage[j] = "closed" /\ j # i
    BY FinishStage DEF Dial
  <1>3. CASE attached[i] # NoSession
    <2>1. UNCHANGED <<attached, phase, owner, late>>
      BY <1>3 DEF Dial, Connect, sessionVars
    <2> QED  BY <1>1, <1>2, <2>1, SameTransport
  <1>4. CASE attached[i] = NoSession
    <2>1. PICK s \in Sessions : Free(s) /\ OpenSession(i, Turn(i).gen, as, n, s)
      BY <1>4 DEF Dial, Connect
    <2> QED  BY <1>1, <1>2, <1>4, <2>1, OpenTransport
  <1> QED  BY <1>3, <1>4

LEMMA BeginCloseTransport ==
  ASSUME TypeInv, TransportInv, NEW i \in Ids, BeginClose(i), SegmentFrame
  PROVE  TransportInv'
  <1>1. UNCHANGED <<attached, phase, owner, late, mode>>
    BY DEF BeginClose, SegmentFrame, procVars
  <1>2. \A j \in Ids : stage'[j] = "closed" =>
           stage[j] = "closed" \/ attached[j] = NoSession \/ phase[attached[j]] \notin Open
    BY DEF BeginClose, Wait, TypeInv, ChainInv, ChainOK
  <1> QED  BY <1>1, <1>2, SameTransport

(* #disconnected detaches nothing but the session it reports.              *)
LEMMA DisconnectedDetaches ==
  ASSUME NEW i \in Ids, NEW g, NEW s, NEW notReady, Disconnected(i, g, s, notReady)
  PROVE  \/ attached' = attached
         \/ attached[i] \in {NoSession, s} /\ attached' = [attached EXCEPT ![i] = NoSession]
  <1>1. CASE ~Counts(i, g, s)  BY <1>1 DEF Disconnected, entryVars
  <1>2. CASE Counts(i, g, s)   BY <1>2 DEF Disconnected, Counts
  <1> QED  BY <1>1, <1>2

(* A session that is closed, by this step or before it, may be detached.   *)
LEMMA ClosedTransport ==
  ASSUME TypeInv, TransportInv, NEW s \in Sessions, NEW i \in Ids, UNCHANGED <<owner, mode>>,
         phase' \in {phase, [phase EXCEPT ![s] = "closed"]}, phase'[s] \notin Open,
         \/ attached' = attached
         \/ attached[i] \in {NoSession, s} /\ attached' = [attached EXCEPT ![i] = NoSession],
         \A t \in Sessions : late'[t] => late[t] \/ t = s,
         \A j \in Ids : stage'[j] = "closed" => stage[j] = "closed" \/ attached[j] = s
  PROVE  TransportInv'
  <1>1. /\ attached \in [Ids -> Sessions \cup {NoSession}]
        /\ phase \in [Sessions -> Open \cup {"unused", "closed"}]
        /\ NoSession \notin Sessions
    BY ConstantsAssumption DEF TypeInv, EntryOK, SessionInv, SessionOK
  <1>2. \A t \in Sessions : phase'[t] \in Open => t # s /\ phase[t] \in Open
    BY <1>1
  <1>3. \A j \in Ids : attached'[j] # NoSession => attached'[j] = attached[j]
    BY <1>1
  <1>4. OneTransport'  BY <1>2 DEF TransportInv, OneTransport
  <1>5. OpenIsAttached'
    BY <1>1, <1>2 DEF TransportInv, OpenIsAttached
  <1>6. AttachedIsOwned'  BY <1>3 DEF TransportInv, AttachedIsOwned
  <1>7. ClosedBeforeDetached'
    BY <1>1, <1>2, <1>3 DEF TransportInv, ClosedBeforeDetached
  <1>8. LateIsClosed'  BY <1>2 DEF TransportInv, LateIsClosed
  <1> QED  BY <1>4, <1>5, <1>6, <1>7, <1>8 DEF TransportInv

LEMMA SettlesStage ==
  ASSUME TypeInv, NEW s \in Sessions, NEW outcome, DisconnectSettles(s, outcome)
  PROVE  \A j \in Ids : stage'[j] = "closed" => stage[j] = "closed" \/ attached[j] = s
  <1>1. CASE Awaited(s)
    BY <1>1 DEF DisconnectSettles, Awaited, TypeInv, ChainInv, ChainOK
  <1>2. CASE ~Awaited(s)
    BY <1>2 DEF DisconnectSettles
  <1> QED  BY <1>1, <1>2

LEMMA CommandTransport ==
  ASSUME TypeInv, TransportInv, NEW i \in Ids, Command(i) \/ TimerFire(i) \/ WaitExpires(i)
  PROVE  TransportInv'
  <1>1. UNCHANGED <<attached, phase, owner, late, mode, stage>>
    BY DEF Command, SpawnNew, SpawnHalfDone, Rename, SpawnOrResume, Reconnect, Despawn, Forget,
           Input, StopInput, TimerFire, WaitExpires, entryVars, chainVars, sessionVars, procVars
  <1> QED  BY <1>1, SameTransport

LEMMA AdvanceTransport ==
  ASSUME TypeInv, TransportInv, NEW i \in Ids, Advance(i)
  PROVE  TransportInv'
  <1>1. ASSUME Skip(i), SegmentFrame PROVE TransportInv'
    <2>1. UNCHANGED <<attached, phase, owner, late, mode>>
      BY <1>1 DEF Skip, SegmentFrame, entryVars, sessionVars, procVars
    <2> QED  BY <1>1, <2>1, FinishStage, SameTransport DEF Skip
  <1>2. ASSUME Finish(i) \/ Wait(i, "delay"), UNCHANGED <<attached, sessionVars>>, SegmentFrame
        PROVE  TransportInv'
    <2>1. UNCHANGED <<attached, phase, owner, late, mode>>
      BY <1>2 DEF SegmentFrame, sessionVars, procVars
    <2> QED  BY <1>2, <2>1, FinishStage, SameTransport
  <1>3. CASE StartBegins(i)
    BY <1>1, <1>3, DialTransport, BeginCloseTransport DEF StartBegins
  <1>4. CASE StartResumes(i)
    BY <1>1, <1>4, DialTransport DEF StartResumes
  <1>5. CASE ReconnectBegins(i)
    BY <1>1, <1>2, <1>5, BeginCloseTransport DEF ReconnectBegins
  <1>6. CASE ReconnectResumes(i)
    BY <1>1, <1>6, DialTransport DEF ReconnectResumes
  <1>7. CASE RenameBegins(i)
    BY <1>1, <1>2, <1>7, BeginCloseTransport DEF RenameBegins, entryVars
  <1>8. CASE RenameResumes(i)
    BY <1>1, <1>8, DialTransport DEF RenameResumes
  <1>9. CASE DespawnBegins(i)
    BY <1>2, <1>9, BeginCloseTransport DEF DespawnBegins
  <1>10. CASE ForgetRuns(i)
    <2>1. Finish(i) /\ UNCHANGED <<attached, sessionVars, procVars>>
      BY <1>10 DEF ForgetRuns, entryVars
    <2>2. UNCHANGED <<attached, phase, owner, late, mode>>
      BY <2>1 DEF sessionVars, procVars
    <2> QED  BY <2>1, <2>2, FinishStage, SameTransport
  <1>11. CASE RetryRuns(i)
    BY <1>2, <1>11, DialTransport DEF RetryRuns, entryVars
  <1>12. CASE CloseDone(i)
    <2>1. attached' = [attached EXCEPT ![i] = NoSession] /\ UNCHANGED <<phase, owner, late, mode>>
      BY <1>12 DEF CloseDone, ClosedEntry, sessionVars, procVars
    <2>2. \A j \in Ids : stage'[j] = "closed" => stage[j] = "closed"
      BY <1>12, FinishStage DEF CloseDone
    <2>3. CASE attached[i] = NoSession
      <3>1. attached' = attached  BY <2>1, <2>3 DEF TypeInv, EntryOK
      <3> QED  BY <2>1, <2>2, <3>1, SameTransport
    <2>4. CASE attached[i] # NoSession
      <3>1. attached[i] \in Sessions  BY <2>4 DEF TypeInv, EntryOK
      <3>2. phase[attached[i]] \notin Open
        BY <1>12, <2>4 DEF CloseDone, TransportInv, ClosedBeforeDetached
      <3> QED  BY <2>1, <2>2, <3>1, <3>2, ClosedTransport
    <2> QED  BY <2>3, <2>4
  <1>13. CASE CloseFailed(i)
    <2>1. Finish(i) /\ UNCHANGED <<attached, phase, owner, late, mode>>
      BY <1>13 DEF CloseFailed, sessionVars, procVars
    <2> QED  BY <2>1, FinishStage, SameTransport
  <1> QED  BY <1>3, <1>4, <1>5, <1>6, <1>7, <1>8, <1>9, <1>10, <1>11, <1>12, <1>13 DEF Advance

LEMMA SessionEventTransport ==
  ASSUME TypeInv, TransportInv, NEW s \in Sessions, SessionEvent(s)
  PROVE  TransportInv'
  <1>a. /\ phase \in [Sessions -> Open \cup {"unused", "closed"}]
        /\ late \in [Sessions -> BOOLEAN]
    BY DEF TypeInv, SessionInv, SessionOK
  <1>1. ASSUME TransportCloses(s)
        PROVE  /\ phase' = [phase EXCEPT ![s] = "closed"] /\ phase'[s] \notin Open
               /\ UNCHANGED <<owner, mode>>
               /\ \A j \in Ids : stage'[j] = "closed" => stage[j] = "closed" \/ attached[j] = s
    BY <1>a, <1>1, SettlesStage DEF TransportCloses, Open, procVars
  <1>2. ASSUME NEW notReady \in BOOLEAN, NEW again \in BOOLEAN, ConnectRejected(s, notReady, again)
        PROVE  TransportInv'
    <2>1. owner[s] \in Ids  BY <1>2 DEF ConnectRejected, TypeInv, SessionInv, Open
    <2>2. \/ attached' = attached
          \/ /\ attached[owner[s]] \in {NoSession, s}
             /\ attached' = [attached EXCEPT ![owner[s]] = NoSession]
      BY <1>2, <2>1, DisconnectedDetaches DEF ConnectRejected
    <2>3. \A t \in Sessions : late'[t] => late[t] \/ t = s
      BY <1>a, <1>2 DEF ConnectRejected
    <2>4. TransportCloses(s)  BY <1>2 DEF ConnectRejected
    <2> QED  BY <1>1, <2>1, <2>2, <2>3, <2>4, ClosedTransport
  <1>3. CASE TransportLost(s)
    <2>1. owner[s] \in Ids  BY <1>3 DEF TransportLost, TypeInv, SessionInv, Open
    <2>2. \/ attached' = attached
          \/ /\ attached[owner[s]] \in {NoSession, s}
             /\ attached' = [attached EXCEPT ![owner[s]] = NoSession]
      BY <1>3, <2>1, DisconnectedDetaches DEF TransportLost, entryVars
    <2>3. TransportCloses(s) /\ late' = late  BY <1>3 DEF TransportLost
    <2> QED  BY <1>1, <2>1, <2>2, <2>3, ClosedTransport
  <1>4. CASE LateRejection(s)
    <2>1. owner[s] \in Ids  BY <1>4 DEF LateRejection, TypeInv, SessionInv
    <2>2. \/ attached' = attached
          \/ /\ attached[owner[s]] \in {NoSession, s}
             /\ attached' = [attached EXCEPT ![owner[s]] = NoSession]
      BY <1>4, <2>1, DisconnectedDetaches DEF LateRejection
    <2>3. /\ UNCHANGED <<phase, owner, mode, stage>>
          /\ \A t \in Sessions : late'[t] => late[t] \/ t = s
      BY <1>a, <1>4 DEF LateRejection, chainVars, procVars
    <2>4. phase[s] \notin Open  BY <1>4 DEF LateRejection, TransportInv, LateIsClosed
    <2> QED  BY <2>1, <2>2, <2>3, <2>4, ClosedTransport
  <1>5. CASE DisconnectFails(s)
    <2>1. UNCHANGED <<attached, phase, owner, late, mode>>
      BY <1>5 DEF DisconnectFails, entryVars, procVars
    <2>2. \A j \in Ids : stage'[j] = "closed" => stage[j] = "closed"
      BY <1>5 DEF DisconnectFails, DisconnectSettles, Awaited, TypeInv, ChainInv, ChainOK
    <2> QED  BY <2>1, <2>2, SameTransport
  <1>6. CASE Spawned(s)
    <2>1. /\ phase[s] \in Open
          /\ \A t \in Sessions : phase'[t] \in Open <=> phase[t] \in Open
      BY <1>a, <1>6 DEF Spawned, Open
    <2>2. UNCHANGED <<attached, owner, late, mode, stage>>
      BY <1>6 DEF Spawned, chainVars, procVars
    <2>3. attached \in [Ids -> Sessions \cup {NoSession}]  BY DEF TypeInv, EntryOK
    <2>4. OneTransport' /\ OpenIsAttached' /\ LateIsClosed'
      BY <2>1, <2>2 DEF TransportInv, OneTransport, OpenIsAttached, LateIsClosed
    <2>5. AttachedIsOwned' /\ ClosedBeforeDetached'
      BY <2>1, <2>2, <2>3 DEF TransportInv, AttachedIsOwned, ClosedBeforeDetached
    <2> QED  BY <2>4, <2>5 DEF TransportInv
  <1> QED  BY <1>2, <1>3, <1>4, <1>5, <1>6 DEF SessionEvent, ConnectSettles

(* Sessions of a new process: one per wanted Bot, none shared.             *)
LEMMA RestartTransport ==
  ASSUME TypeInv, NEW f \in [Ids -> Sessions \cup {NoSession}], RestartSessions(f),
         late' = [s \in Sessions |-> FALSE], stage' = [i \in Ids |-> "idle"]
  PROVE  TransportInv'
  <1>1. /\ attached' = f
        /\ \A i, j \in Ids : f[i] = f[j] /\ f[i] # NoSession => i = j
    BY DEF RestartSessions
  <1>2. \A s \in Sessions : phase'[s] \in Open => \E i \in Ids : f[i] = s
    BY DEF RestartSessions, Open
  <1>3. \A s \in Sessions : (\E i \in Ids : f[i] = s) => owner'[s] \in Ids /\ f[owner'[s]] = s
    <2>1. SUFFICES ASSUME NEW s \in Sessions, \E i \in Ids : f[i] = s
                   PROVE  owner'[s] \in Ids /\ f[owner'[s]] = s
      OBVIOUS
    <2>2. owner'[s] = CHOOSE i \in Ids : f[i] = s  BY <2>1 DEF RestartSessions
    <2> QED  BY <2>1, <2>2
  <1>4. NoSession \notin Sessions  BY ConstantsAssumption
  <1>5. OneTransport'  BY <1>2, <1>3 DEF OneTransport
  <1>6. OpenIsAttached'  BY <1>1, <1>2, <1>3 DEF OpenIsAttached
  <1>7. AttachedIsOwned'  BY <1>1, <1>3, <1>4 DEF AttachedIsOwned
  <1>8. ClosedBeforeDetached' /\ LateIsClosed'  BY DEF ClosedBeforeDetached, LateIsClosed
  <1> QED  BY <1>5, <1>6, <1>7, <1>8 DEF TransportInv

LEMMA ProcessTransport ==
  ASSUME TypeInv, TransportInv, BeginShutdown \/ Drained \/ Exit \/ Restart
  PROVE  TransportInv'
  <1>1. CASE BeginShutdown
    <2>1. mode = "running" /\ mode' = "draining" /\ UNCHANGED <<attached, phase, owner, late, stage>>
      BY <1>1 DEF BeginShutdown, chainVars, sessionVars
    <2> QED
      BY <2>1 DEF TransportInv, OneTransport, OpenIsAttached, AttachedIsOwned, ClosedBeforeDetached, LateIsClosed
  <1>2. CASE Drained
    <2>1. /\ mode' = "closing" /\ UNCHANGED <<phase, owner, late>>
          /\ \A i \in Ids : attached'[i] = NoSession
      BY <1>2 DEF Drained, NoEntries
    <2> QED
      BY <2>1 DEF TransportInv, OneTransport, OpenIsAttached, AttachedIsOwned, ClosedBeforeDetached, LateIsClosed
  <1>3. CASE Exit
    <2>1. /\ \A s \in Sessions : phase'[s] \notin Open /\ ~late'[s]
          /\ UNCHANGED <<attached, owner, stage>>
      BY <1>3 DEF Exit, entryVars, chainVars, Open
    <2>2. attached \in [Ids -> Sessions \cup {NoSession}]  BY DEF TypeInv, EntryOK
    <2> QED
      BY <2>1, <2>2 DEF TransportInv, OneTransport, OpenIsAttached, AttachedIsOwned, ClosedBeforeDetached, LateIsClosed
  <1>4. CASE Restart
    <2>1. PICK f \in [Ids -> Sessions \cup {NoSession}] : RestartSessions(f)  BY <1>4 DEF Restart
    <2>2. late' = [s \in Sessions |-> FALSE] /\ stage' = [i \in Ids |-> "idle"]  BY <1>4 DEF Restart
    <2> QED  BY <2>1, <2>2, RestartTransport
  <1> QED  BY <1>1, <1>2, <1>3, <1>4

LEMMA NextTransport ==
  ASSUME TypeInv, TransportInv, [Next]_vars
  PROVE  TransportInv'
  <1>1. CASE UNCHANGED vars
    <2>1. UNCHANGED <<attached, phase, owner, late, mode, stage>>
      BY <1>1 DEF vars, entryVars, chainVars, sessionVars, procVars
    <2> QED  BY <2>1, SameTransport
  <1>2. CASE Next
    BY <1>2, CommandTransport, AdvanceTransport, SessionEventTransport, ProcessTransport DEF Next
  <1> QED  BY <1>1, <1>2

LEMMA InitTransport ==
  ASSUME Init PROVE TransportInv
  BY DEF Init, Open, TransportInv, OneTransport, OpenIsAttached, AttachedIsOwned,
         ClosedBeforeDetached, LateIsClosed

LEMMA TransportInvariant == Spec => [](TypeInv /\ TransportInv)
  <1>1. Init => TypeInv /\ TransportInv  BY InitTyped, InitTransport
  <1>2. TypeInv /\ TransportInv /\ [Next]_vars => (TypeInv /\ TransportInv)'
    BY NextTyped, NextTransport
  <1> QED  BY <1>1, <1>2, PTL DEF Spec

(* One Bot never has two open transports, whatever commands, losses,       *)
(* retries, failed disconnects, shutdowns and restarts interleave.         *)
THEOREM OneTransportAlways == Spec => []OneTransport
  <1>1. TypeInv /\ TransportInv => OneTransport  BY DEF TransportInv
  <1> QED  BY <1>1, TransportInvariant, PTL

(* While the runtime works, an open transport is the one its entry holds:  *)
(* no session is open that the next disconnect would not reach.            *)
THEOREM OpenIsAttachedAlways == Spec => []OpenIsAttached
  <1>1. TypeInv /\ TransportInv => OpenIsAttached  BY DEF TransportInv
  <1> QED  BY <1>1, TransportInvariant, PTL

-----------------------------------------------------------------------------
(* Names.                                                                  *)
LEMMA NamesStep ==
  ASSUME TypeInv, NamesUnique, [Next]_vars
  PROVE  NamesUnique'
  <1>a. /\ life \in [Ids -> {"fresh", "live", "gone"}]
        /\ name \in [Ids -> Names \cup {NoName}]
    BY DEF TypeInv, StoreOK
  <1>b. ASSUME UNCHANGED <<life, name>> PROVE NamesUnique'
    BY <1>b DEF NamesUnique, Live
  <1>c. ASSUME NEW i \in Ids, NEW n, name' = [name EXCEPT ![i] = n], UNCHANGED life, NameFree(i, n)
        PROVE  NamesUnique'
    BY <1>a, <1>c DEF NamesUnique, Live, NameFree
  <1>1. ASSUME NEW i \in Ids, Command(i) PROVE NamesUnique'
    <2>1. ASSUME NEW n \in Names, SpawnNew(i, n) \/ SpawnHalfDone(i, n) PROVE NamesUnique'
      BY <1>a, <2>1 DEF SpawnNew, SpawnHalfDone, NamesUnique, Live
    <2>2. ASSUME \/ \E n \in Names : Rename(i, n)
                 \/ SpawnOrResume(i) \/ Reconnect(i) \/ Despawn(i) \/ Forget(i)
                 \/ Input(i) \/ StopInput(i)
          PROVE  NamesUnique'
      <3>1. UNCHANGED <<life, name>>
        BY <2>2 DEF Rename, SpawnOrResume, Reconnect, Despawn, Forget, Input, StopInput, storeVars
      <3> QED  BY <1>b, <3>1
    <2> QED  BY <1>1, <2>1, <2>2 DEF Command
  <1>2. ASSUME NEW i \in Ids, Advance(i) PROVE NamesUnique'
    <2>1. CASE RenameBegins(i)
      <3>1. life' = life  BY <2>1 DEF RenameBegins, SegmentFrame
      <3>2. CASE UNCHANGED name  BY <1>b, <3>1, <3>2
      <3>3. CASE Persistable(i, Turn(i).new) /\ name' = [name EXCEPT ![i] = Turn(i).new]
        BY <1>c, <3>1, <3>3 DEF Persistable
      <3> QED  BY <2>1, <3>2, <3>3 DEF RenameBegins, Skip
    <2>2. CASE RenameResumes(i)
      <3>1. life' = life  BY <2>2 DEF RenameResumes, SegmentFrame
      <3>2. CASE UNCHANGED name  BY <1>b, <3>1, <3>2
      <3>3. CASE Persistable(i, Turn(i).new) /\ name' = [name EXCEPT ![i] = Turn(i).new]
        BY <1>c, <3>1, <3>3 DEF Persistable
      <3> QED  BY <2>2, <3>2, <3>3 DEF RenameResumes, Skip
    <2>3. CASE ForgetRuns(i)
      <3>1. CASE UNCHANGED <<life, name>>  BY <1>b, <3>1
      <3>2. CASE life' = [life EXCEPT ![i] = "gone"] /\ name' = [name EXCEPT ![i] = NoName]
        BY <1>a, <3>2 DEF NamesUnique, Live
      <3> QED  BY <2>3, <3>1, <3>2 DEF ForgetRuns
    <2>4. ASSUME \/ StartBegins(i) \/ StartResumes(i) \/ ReconnectBegins(i) \/ ReconnectResumes(i)
                 \/ DespawnBegins(i) \/ RetryRuns(i) \/ CloseDone(i) \/ CloseFailed(i)
          PROVE  UNCHANGED <<life, name>>
      BY <2>4 DEF StartBegins, StartResumes, ReconnectBegins, ReconnectResumes, DespawnBegins,
                  RetryRuns, CloseDone, CloseFailed, SegmentFrame, Skip, storeVars
    <2> QED  BY <1>b, <1>2, <2>1, <2>2, <2>3, <2>4 DEF Advance
  <1>3. ASSUME \/ \E i \in Ids : TimerFire(i) \/ WaitExpires(i)
               \/ \E s \in Sessions : SessionEvent(s)
               \/ BeginShutdown \/ Drained \/ Exit \/ Restart \/ UNCHANGED vars
        PROVE  UNCHANGED <<life, name>>
    BY <1>3 DEF TimerFire, WaitExpires, SessionEvent, ConnectSettles, ConnectRejected, Spawned,
                LateRejection, TransportLost, TransportCloses, DisconnectFails, BeginShutdown,
                Drained, Exit, Restart, vars, storeVars
  <1> QED  BY <1>b, <1>1, <1>2, <1>3 DEF Next

(* Two profiles never hold one name: every way to take one, after however  *)
(* long a wait in the chain, looks for a collision in the same step.       *)
THEOREM NamesUniqueAlways == Spec => []NamesUnique
  <1>1. Init => TypeInv /\ NamesUnique
    BY InitTyped DEF Init, NamesUnique, Live
  <1>2. TypeInv /\ NamesUnique /\ [Next]_vars => (TypeInv /\ NamesUnique)'
    BY NextTyped, NamesStep
  <1>3. TypeInv /\ NamesUnique => NamesUnique  OBVIOUS
  <1> QED  BY <1>1, <1>2, <1>3, PTL DEF Spec

-----------------------------------------------------------------------------
(* Refinement of BotTransport.                                             *)
LEMMA Stutter ==
  ASSUME UNCHANGED <<life, desired, phase, owner, mode>>
  PROVE  UNCHANGED <<wantNow, linesNow, servingNow>>
  BY DEF wantNow, linesNow, servingNow, Wanted, Live

LEMMA DialRefines ==
  ASSUME TypeInv, TransportInv, NEW i \in Ids, MayGoOn(i), SegmentFrame,
         NEW as, NEW n, Dial(i, as, n)
  PROVE  Transport!Next \/ UNCHANGED <<wantNow, linesNow, servingNow>>
  <1>1. UNCHANGED <<life, desired, mode>> /\ mode = "running" /\ Wanted(i)
    BY DEF SegmentFrame, MayGoOn, MayConnect, procVars, Wanted, Live
  <1>2. CASE attached[i] # NoSession
    <2>1. UNCHANGED <<phase, owner>>  BY <1>2 DEF Dial, Connect, sessionVars
    <2> QED  BY <1>1, <2>1, Stutter
  <1>3. CASE attached[i] = NoSession
    <2>1. PICK s \in Sessions : Free(s) /\ OpenSession(i, Turn(i).gen, as, n, s)
      BY <1>3 DEF Dial, Connect
    <2>2. /\ phase' = [phase EXCEPT ![s] = "connecting"] /\ phase[s] \notin Open
          /\ owner' = [owner EXCEPT ![s] = i]
      BY <2>1 DEF OpenSession, Free
    <2>3. /\ phase \in [Sessions -> Open \cup {"unused", "closed"}]
          /\ owner \in [Sessions -> Ids \cup {NoId}]
      BY DEF TypeInv, SessionInv, SessionOK
    <2>4. \A t \in Sessions : phase[t] \in Open => owner[t] # i
      BY <1>1, <1>3, ConstantsAssumption DEF TransportInv, OpenIsAttached
    <2>5. linesNow[i] = {}  BY <2>4 DEF linesNow
    <2>6. \A j \in Ids : linesNow'[j] = IF j = i THEN {s} ELSE linesNow[j]
      BY <2>2, <2>3, <2>4 DEF linesNow, Open
    <2>7. linesNow' = [linesNow EXCEPT ![i] = {s}]  BY <2>6 DEF linesNow
    <2>8. servingNow /\ i \in wantNow /\ UNCHANGED <<wantNow, servingNow>>
      BY <1>1 DEF servingNow, wantNow, Wanted, Live
    <2>9. Transport!Open(i)  BY <2>5, <2>7, <2>8 DEF Transport!Open
    <2> QED  BY <2>9 DEF Transport!Next
  <1> QED  BY <1>2, <1>3

LEMMA CloseRefines ==
  ASSUME TypeInv, TransportInv, NEW s \in Sessions, phase[s] \in Open, TransportCloses(s)
  PROVE  Transport!Next
  <1>1. UNCHANGED <<life, desired, owner, mode>> /\ phase' = [phase EXCEPT ![s] = "closed"]
    BY DEF TransportCloses, storeVars, procVars
  <1>2. /\ owner[s] \in Ids
        /\ phase \in [Sessions -> Open \cup {"unused", "closed"}]
    BY DEF TypeInv, SessionInv, SessionOK
  <1>3. \A t \in Sessions : phase[t] \in Open /\ owner[t] = owner[s] => t = s
    BY DEF TransportInv, OneTransport
  <1>4. \A j \in Ids : linesNow'[j] = IF j = owner[s] THEN {} ELSE linesNow[j]
    BY <1>1, <1>2, <1>3 DEF linesNow, Open
  <1>5. linesNow' = [linesNow EXCEPT ![owner[s]] = {}]  BY <1>4 DEF linesNow
  <1>6. UNCHANGED <<wantNow, servingNow>>  BY <1>1 DEF wantNow, servingNow, Wanted, Live
  <1>7. Transport!Close(owner[s])  BY <1>5, <1>6 DEF Transport!Close
  <1> QED  BY <1>2, <1>7 DEF Transport!Next

LEMMA StepRefines ==
  ASSUME TypeInv, TransportInv, [Next]_vars
  PROVE  Transport!Next \/ UNCHANGED <<wantNow, linesNow, servingNow>>
  <1>1. ASSUME NEW i \in Ids, Command(i)
        PROVE  Transport!Next \/ UNCHANGED <<wantNow, linesNow, servingNow>>
    <2>1. mode = "running" /\ UNCHANGED <<phase, owner, mode>>
      BY <1>1 DEF Command, SpawnNew, SpawnHalfDone, Rename, SpawnOrResume, Reconnect, Despawn,
                  Forget, Input, StopInput, Accepting, sessionVars, procVars
    <2>2. servingNow /\ UNCHANGED <<linesNow, servingNow>> /\ wantNow' \in SUBSET Ids
      BY <2>1 DEF servingNow, linesNow, wantNow
    <2> QED  BY <2>2 DEF Transport!Next, Transport!Desire
  <1>2. ASSUME NEW i \in Ids, Advance(i)
        PROVE  Transport!Next \/ UNCHANGED <<wantNow, linesNow, servingNow>>
    <2>1. ASSUME UNCHANGED <<phase, owner>>, SegmentFrame
          PROVE  UNCHANGED <<wantNow, linesNow, servingNow>>
      BY <2>1, Stutter DEF SegmentFrame, procVars
    <2>2. ASSUME BeginClose(i) \/ Skip(i) PROVE UNCHANGED <<phase, owner>>
      BY <2>2 DEF BeginClose, Skip, sessionVars
    <2>3. CASE StartBegins(i)
      BY <2>1, <2>2, <2>3, DialRefines DEF StartBegins
    <2>4. CASE StartResumes(i)
      BY <2>1, <2>2, <2>4, DialRefines DEF StartResumes
    <2>5. CASE ReconnectBegins(i)
      BY <2>1, <2>2, <2>5 DEF ReconnectBegins, sessionVars
    <2>6. CASE ReconnectResumes(i)
      BY <2>1, <2>2, <2>6, DialRefines DEF ReconnectResumes
    <2>7. CASE RenameBegins(i)
      BY <2>1, <2>2, <2>7 DEF RenameBegins, sessionVars
    <2>8. CASE RenameResumes(i)
      BY <2>1, <2>2, <2>8, DialRefines DEF RenameResumes
    <2>9. CASE DespawnBegins(i)
      BY <2>1, <2>2, <2>9 DEF DespawnBegins, sessionVars
    <2>10. CASE RetryRuns(i)
      BY <2>1, <2>10, DialRefines DEF RetryRuns, sessionVars
    <2>11. CASE CloseDone(i) \/ CloseFailed(i)
      <3>1. UNCHANGED <<life, desired, phase, owner, mode>>
        BY <2>11 DEF CloseDone, CloseFailed, storeVars, sessionVars, procVars
      <3> QED  BY <3>1, Stutter
    <2>12. CASE ForgetRuns(i)
      <3>1. UNCHANGED <<desired, phase, owner, mode>>  BY <2>12 DEF ForgetRuns, sessionVars, procVars
      <3>2. CASE UNCHANGED life  BY <3>1, <3>2, Stutter
      <3>3. CASE ~desired[i] /\ life' = [life EXCEPT ![i] = "gone"]
        <4>1. life \in [Ids -> {"fresh", "live", "gone"}]  BY DEF TypeInv, StoreOK
        <4>2. \A j \in Ids : Wanted(j)' <=> Wanted(j)
          BY <3>1, <3>3, <4>1 DEF Wanted, Live
        <4> QED  BY <3>1, <4>2 DEF wantNow, linesNow, servingNow
      <3> QED  BY <2>12, <3>2, <3>3 DEF ForgetRuns, Forgettable
    <2> QED
      BY <1>2, <2>3, <2>4, <2>5, <2>6, <2>7, <2>8, <2>9, <2>10, <2>11, <2>12 DEF Advance
  <1>3. ASSUME NEW i \in Ids, TimerFire(i) \/ WaitExpires(i)
        PROVE  UNCHANGED <<wantNow, linesNow, servingNow>>
    <2>1. UNCHANGED <<life, desired, phase, owner, mode>>
      BY <1>3 DEF TimerFire, WaitExpires, storeVars, sessionVars, procVars
    <2> QED  BY <2>1, Stutter
  <1>4. ASSUME NEW s \in Sessions, SessionEvent(s)
        PROVE  Transport!Next \/ UNCHANGED <<wantNow, linesNow, servingNow>>
    <2>1. ASSUME NEW notReady \in BOOLEAN, NEW again \in BOOLEAN, ConnectRejected(s, notReady, again)
          PROVE  Transport!Next
      BY <2>1, CloseRefines DEF ConnectRejected, Open
    <2>2. CASE TransportLost(s)  BY <2>2, CloseRefines DEF TransportLost, Open
    <2>3. CASE Spawned(s)
      <3>1. UNCHANGED <<life, desired, owner, mode>>  BY <2>3 DEF Spawned, storeVars, procVars
      <3>2. \A t \in Sessions : phase'[t] \in Open <=> phase[t] \in Open
        BY <2>3 DEF Spawned, Open, TypeInv, SessionInv, SessionOK
      <3> QED  BY <3>1, <3>2 DEF wantNow, linesNow, servingNow, Wanted, Live
    <2>4. CASE LateRejection(s) \/ DisconnectFails(s)
      <3>1. UNCHANGED <<life, desired, phase, owner, mode>>
        BY <2>4 DEF LateRejection, DisconnectFails, storeVars, procVars
      <3> QED  BY <3>1, Stutter
    <2> QED  BY <1>4, <2>1, <2>2, <2>3, <2>4 DEF SessionEvent, ConnectSettles
  <1>5. CASE BeginShutdown
    <2>1. UNCHANGED <<life, desired, phase, owner>> /\ mode' = "draining"
      BY <1>5 DEF BeginShutdown, storeVars, sessionVars
    <2>2. servingNow' = FALSE /\ UNCHANGED <<wantNow, linesNow>>
      BY <2>1 DEF wantNow, linesNow, servingNow, Wanted, Live
    <2> QED  BY <2>2 DEF Transport!Next, Transport!Stop
  <1>6. CASE Drained
    <2>1. UNCHANGED <<life, desired, phase, owner>> /\ mode = "draining" /\ mode' = "closing"
      BY <1>6 DEF Drained, storeVars
    <2> QED  BY <2>1 DEF wantNow, linesNow, servingNow, Wanted, Live
  <1>7. CASE Exit
    <2>1. /\ UNCHANGED <<life, desired, owner>> /\ mode' = "stopped"
          /\ \A s \in Sessions : phase'[s] \notin Open
      BY <1>7 DEF Exit, storeVars, Open
    <2>2. servingNow' = FALSE /\ wantNow' = wantNow /\ linesNow' = [i \in Ids |-> {}]
      BY <2>1 DEF wantNow, linesNow, servingNow, Wanted, Live
    <2> QED  BY <2>2 DEF Transport!Next, Transport!Stop
  <1>8. CASE Restart
    <2>1. PICK f \in [Ids -> Sessions \cup {NoSession}] : RestartSessions(f)  BY <1>8 DEF Restart
    <2>2. UNCHANGED <<life, desired>> /\ mode' = "running"  BY <1>8 DEF Restart, storeVars
    <2>3. /\ \A i \in Ids : (f[i] # NoSession) <=> Wanted(i)
          /\ \A i, j \in Ids : f[i] = f[j] /\ f[i] # NoSession => i = j
      BY <2>1 DEF RestartSessions
    <2>4. \A s \in Sessions : phase'[s] \in Open <=> \E i \in Ids : f[i] = s
      BY <2>1 DEF RestartSessions, Open
    <2>5. \A s \in Sessions : (\E i \in Ids : f[i] = s) => owner'[s] \in Ids /\ f[owner'[s]] = s
      <3>1. SUFFICES ASSUME NEW s \in Sessions, \E i \in Ids : f[i] = s
                     PROVE  owner'[s] \in Ids /\ f[owner'[s]] = s
        OBVIOUS
      <3>2. owner'[s] = CHOOSE i \in Ids : f[i] = s  BY <2>1, <3>1 DEF RestartSessions
      <3> QED  BY <3>1, <3>2
    <2>6. NoSession \notin Sessions  BY ConstantsAssumption
    <2>7. \A i \in Ids : linesNow'[i] = {s \in Sessions : f[i] = s}
      BY <2>3, <2>4, <2>5, <2>6 DEF linesNow
    <2>8. servingNow' = TRUE /\ wantNow' = wantNow
      BY <2>2 DEF servingNow, wantNow, Wanted, Live
    <2>9. linesNow' \in [Ids -> SUBSET Sessions]  BY DEF linesNow
    <2>10. \A i \in Ids : Transport!AtMostOne(linesNow'[i]) /\ (linesNow'[i] # {} <=> i \in wantNow)
      BY <2>3, <2>6, <2>7 DEF Transport!AtMostOne, wantNow
    <2>11. Transport!Restart  BY <2>8, <2>9, <2>10 DEF Transport!Restart
    <2> QED  BY <2>11 DEF Transport!Next
  <1>9. CASE UNCHANGED vars
    <2>1. UNCHANGED <<life, desired, phase, owner, mode>>
      BY <1>9 DEF vars, storeVars, sessionVars, procVars
    <2> QED  BY <2>1, Stutter
  <1> QED  BY <1>1, <1>2, <1>3, <1>4, <1>5, <1>6, <1>7, <1>8, <1>9 DEF Next

(* Callers see BotTransport: a Bot's transports open one at a time, only   *)
(* while it is wanted and the process serves, and a restart opens exactly  *)
(* the wanted ones.                                                        *)
THEOREM LifecycleImplementsTransport == Spec => ImplementsTransport
  <1>1. Init => Transport!Init
    <2> SUFFICES ASSUME Init PROVE Transport!Init  OBVIOUS
    <2>1. wantNow = {}  BY DEF Init, wantNow, Wanted, Live
    <2>2. linesNow = [i \in Ids |-> {}]  BY DEF Init, linesNow, Open
    <2>3. servingNow = TRUE  BY DEF Init, servingNow
    <2> QED  BY <2>1, <2>2, <2>3 DEF Transport!Init
  <1>2. TypeInv /\ TransportInv /\ [Next]_vars => [Transport!Next]_<<wantNow, linesNow, servingNow>>
    BY StepRefines
  <1> QED  BY <1>1, <1>2, TransportInvariant, PTL DEF Spec, ImplementsTransport, Transport!Spec

-----------------------------------------------------------------------------
(* Chains.  A command that lasts takes a generation above every earlier    *)
(* one, so what is left behind it in the chain is newer than it is.        *)
Lasting == {"start", "reconnect", "despawn", "rename"}

Ordered(q, g) == \A k \in 1 .. Len(q) :
  /\ q[k].gen <= g
  /\ q[k].op # "forget" => q[k].gen > 0
  /\ q[k].op \in Lasting => \A j \in 1 .. k - 1 : q[j].gen < q[k].gen

Newer(q, g) == \A k \in 1 .. Len(q) : q[k].op \in Lasting => q[k].gen > g

Dialing(o) == o.op \in {"start", "reconnect", "retry"} \/ (o.op = "rename" /\ o.was)

Dials(q, g) == \E k \in 1 .. Len(q) : q[k].gen = g /\ Dialing(q[k])

(* While a Bot is wanted, what was overtaken is followed by what dials.    *)
Followed(q, g) == \A k \in 1 .. Len(q) :
  /\ q[k].op = "despawn" => q[k].gen < g
  /\ q[k].op \in Lasting /\ q[k].gen < g => Dials(q, g)

LEMMA TailParts ==
  ASSUME NEW q \in Seq(Operation), q # <<>>
  PROVE  /\ Tail(q) \in Seq(Operation)
         /\ Len(q) \in Nat /\ Len(q) > 0 /\ Len(Tail(q)) = Len(q) - 1
         /\ \A k \in 1 .. Len(Tail(q)) : k + 1 \in 1 .. Len(q) /\ Tail(q)[k] = q[k + 1]
         /\ \A k \in 1 .. Len(q) : q[k] \in Operation
         /\ 1 \in 1 .. Len(q)
  <1>1. /\ Tail(q) \in Seq(Operation) /\ Len(Tail(q)) = Len(q) - 1
        /\ \A k \in 1 .. Len(Tail(q)) : Tail(q)[k] = q[k + 1]
    BY HeadTailProperties
  <1>2. Len(q) \in Nat /\ Len(q) > 0  BY EmptySeq, LenProperties
  <1>3. \A k \in 1 .. Len(q) : q[k] \in Operation  BY ElementOfSeq
  <1> QED  BY <1>1, <1>2, <1>3

LEMMA AppendParts ==
  ASSUME NEW q \in Seq(Operation), NEW o \in Operation
  PROVE  /\ Append(q, o) \in Seq(Operation)
         /\ Len(q) \in Nat /\ Len(Append(q, o)) = Len(q) + 1
         /\ Append(q, o)[Len(q) + 1] = o
         /\ \A k \in 1 .. Len(q) : Append(q, o)[k] = q[k] /\ q[k] \in Operation
  BY AppendProperties, LenProperties, ElementOfSeq

LEMMA OpParts ==
  ASSUME NEW o \in Operation PROVE o.gen \in Nat /\ o.was \in BOOLEAN
  BY DEF Operation

LEMMA TailOrdered ==
  ASSUME NEW q \in Seq(Operation), q # <<>>, NEW g \in Nat, Ordered(q, g)
  PROVE  Ordered(Tail(q), g) /\ Newer(Tail(q), q[1].gen)
  <1>1. SUFFICES ASSUME NEW k \in 1 .. Len(Tail(q))
                 PROVE  /\ Tail(q)[k].gen <= g
                        /\ Tail(q)[k].op # "forget" => Tail(q)[k].gen > 0
                        /\ Tail(q)[k].op \in Lasting =>
                             /\ \A j \in 1 .. k - 1 : Tail(q)[j].gen < Tail(q)[k].gen
                             /\ Tail(q)[k].gen > q[1].gen
    BY DEF Ordered, Newer
  <1>2. k + 1 \in 1 .. Len(q) /\ Tail(q)[k] = q[k + 1] /\ 1 \in 1 .. k
    BY TailParts
  <1>3. q[k + 1].gen \in Nat /\ q[1].gen \in Nat  BY <1>2, TailParts, OpParts
  <1>4. ASSUME NEW j \in 1 .. k - 1
        PROVE  j + 1 \in 1 .. (k + 1) - 1 /\ Tail(q)[j] = q[j + 1]
    BY <1>2, TailParts
  <1>5. q[k + 1].op \in Lasting => \A j \in 1 .. (k + 1) - 1 : q[j].gen < q[k + 1].gen
    BY <1>2 DEF Ordered
  <1>6. 1 \in 1 .. (k + 1) - 1  BY <1>2
  <1> QED  BY <1>2, <1>3, <1>4, <1>5, <1>6 DEF Ordered

LEMMA TailNewer ==
  ASSUME NEW q \in Seq(Operation), q # <<>>, NEW g \in Nat, Newer(q, g)
  PROVE  Newer(Tail(q), g)
  BY TailParts DEF Newer

LEMMA OrderedMore ==
  ASSUME NEW q \in Seq(Operation), NEW g \in Nat, NEW h \in Nat, g <= h, Ordered(q, g)
  PROVE  Ordered(q, h)
  <1>1. \A k \in 1 .. Len(q) : q[k].gen \in Nat  BY ElementOfSeq, OpParts
  <1> QED  BY <1>1 DEF Ordered

(* A lifecycle command, under a new generation.                            *)
LEMMA CommandOrdered ==
  ASSUME NEW q \in Seq(Operation), NEW o \in Operation, NEW g \in Nat, Ordered(q, g), o.gen = g + 1
  PROVE  Ordered(Append(q, o), g + 1)
  <1>1. SUFFICES ASSUME NEW k \in 1 .. Len(Append(q, o))
                 PROVE  /\ Append(q, o)[k].gen <= g + 1
                        /\ Append(q, o)[k].op # "forget" => Append(q, o)[k].gen > 0
                        /\ Append(q, o)[k].op \in Lasting =>
                             \A j \in 1 .. k - 1 : Append(q, o)[j].gen < Append(q, o)[k].gen
    BY DEF Ordered
  <1>2. \A j \in 1 .. Len(q) : q[j].gen \in Nat /\ q[j].gen <= g /\ Append(q, o)[j] = q[j]
    BY AppendParts, OpParts DEF Ordered
  <1>3. CASE k = Len(q) + 1
    BY <1>2, <1>3, AppendParts
  <1>4. CASE k \in 1 .. Len(q)
    <2>1. \A j \in 1 .. k - 1 : j \in 1 .. Len(q)  BY <1>4, AppendParts
    <2> QED  BY <1>2, <1>4, <2>1 DEF Ordered
  <1> QED  BY <1>3, <1>4, AppendParts

(* forget, and a retry under the generation its timer captured.            *)
LEMMA OtherOrdered ==
  ASSUME NEW q \in Seq(Operation), NEW o \in Operation, NEW g \in Nat, Ordered(q, g),
         o.op \notin Lasting, o.gen <= g, o.op # "forget" => o.gen > 0
  PROVE  Ordered(Append(q, o), g)
  <1>1. SUFFICES ASSUME NEW k \in 1 .. Len(Append(q, o))
                 PROVE  /\ Append(q, o)[k].gen <= g
                        /\ Append(q, o)[k].op # "forget" => Append(q, o)[k].gen > 0
                        /\ Append(q, o)[k].op \in Lasting =>
                             \A j \in 1 .. k - 1 : Append(q, o)[j].gen < Append(q, o)[k].gen
    BY DEF Ordered
  <1>2. CASE k = Len(q) + 1  BY <1>2, AppendParts
  <1>3. CASE k \in 1 .. Len(q)
    <2>1. \A j \in 1 .. k - 1 : j \in 1 .. Len(q)  BY <1>3, AppendParts
    <2> QED  BY <1>3, <2>1, AppendParts DEF Ordered
  <1> QED  BY <1>2, <1>3, AppendParts

LEMMA AppendNewer ==
  ASSUME NEW q \in Seq(Operation), NEW o \in Operation, NEW g \in Nat, Newer(q, g),
         o.op \in Lasting => o.gen > g
  PROVE  Newer(Append(q, o), g)
  BY AppendParts DEF Newer

LEMMA TailDials ==
  ASSUME NEW q \in Seq(Operation), q # <<>>, NEW g \in Nat, Dials(q, g),
         q[1].gen # g \/ ~Dialing(q[1])
  PROVE  Dials(Tail(q), g)
  <1>1. PICK k \in 1 .. Len(q) : q[k].gen = g /\ Dialing(q[k])  BY DEF Dials
  <1>2. k - 1 \in 1 .. Len(Tail(q)) /\ Tail(q)[k - 1] = q[k]  BY <1>1, TailParts
  <1> QED  BY <1>1, <1>2 DEF Dials

LEMMA AppendDials ==
  ASSUME NEW q \in Seq(Operation), NEW o \in Operation, NEW g \in Nat,
         Dials(q, g) \/ (o.gen = g /\ Dialing(o))
  PROVE  Dials(Append(q, o), g)
  <1>1. CASE Dials(q, g)
    <2>1. PICK k \in 1 .. Len(q) : q[k].gen = g /\ Dialing(q[k])  BY <1>1 DEF Dials
    <2>2. k \in 1 .. Len(Append(q, o)) /\ Append(q, o)[k] = q[k]  BY AppendParts
    <2> QED  BY <2>1, <2>2 DEF Dials
  <1>2. CASE o.gen = g /\ Dialing(o)
    <2>1. Len(q) + 1 \in 1 .. Len(Append(q, o)) /\ Append(q, o)[Len(q) + 1] = o  BY AppendParts
    <2> QED  BY <1>2, <2>1 DEF Dials
  <1> QED  BY <1>1, <1>2

LEMMA TailFollowed ==
  ASSUME NEW q \in Seq(Operation), q # <<>>, NEW g \in Nat, Ordered(q, g), Followed(q, g)
  PROVE  Followed(Tail(q), g)
  <1>1. SUFFICES ASSUME NEW k \in 1 .. Len(Tail(q))
                 PROVE  /\ Tail(q)[k].op = "despawn" => Tail(q)[k].gen < g
                        /\ Tail(q)[k].op \in Lasting /\ Tail(q)[k].gen < g => Dials(Tail(q), g)
    BY DEF Followed
  <1>2. k + 1 \in 1 .. Len(q) /\ Tail(q)[k] = q[k + 1]  BY TailParts
  <1>3. Tail(q)[k].op \in Lasting => Tail(q)[k].gen > q[1].gen  BY TailOrdered DEF Newer
  <1>4. q[k + 1].gen \in Nat /\ q[k + 1].gen <= g  BY <1>2, TailParts, OpParts DEF Ordered
  <1>5. q[k + 1].op \in Lasting /\ q[k + 1].gen < g => Dials(q, g) /\ q[1].gen # g
    BY <1>2, <1>3, <1>4, TailParts, OpParts DEF Followed
  <1> QED  BY <1>2, <1>5, TailDials DEF Followed

(* What dials under the new generation serves what it overtakes.           *)
LEMMA CommandFollowed ==
  ASSUME NEW q \in Seq(Operation), NEW o \in Operation, NEW g \in Nat, Ordered(q, g),
         o.gen = g + 1, Dialing(o)
  PROVE  Dials(Append(q, o), g + 1) /\ Followed(Append(q, o), g + 1)
  <1>1. Dials(Append(q, o), g + 1)  BY AppendDials
  <1>2. \A k \in 1 .. Len(Append(q, o)) :
          Append(q, o)[k].op = "despawn" => Append(q, o)[k].gen < g + 1
    BY AppendParts, OpParts DEF Ordered, Dialing
  <1> QED  BY <1>1, <1>2 DEF Followed

LEMMA OtherFollowed ==
  ASSUME NEW q \in Seq(Operation), NEW o \in Operation, NEW g \in Nat, Followed(q, g),
         o.op \notin Lasting
  PROVE  Followed(Append(q, o), g)
  <1>1. SUFFICES ASSUME NEW k \in 1 .. Len(Append(q, o))
                 PROVE  /\ Append(q, o)[k].op = "despawn" => Append(q, o)[k].gen < g
                        /\ Append(q, o)[k].op \in Lasting /\ Append(q, o)[k].gen < g =>
                             Dials(Append(q, o), g)
    BY DEF Followed
  <1>2. CASE k = Len(q) + 1  BY <1>2, AppendParts DEF Lasting
  <1>3. CASE k \in 1 .. Len(q)
    BY <1>3, AppendParts, AppendDials DEF Followed
  <1> QED  BY <1>2, <1>3, AppendParts

-----------------------------------------------------------------------------
(* What a segment may do to its Bot.                                       *)
(* The turn ends and nothing was dialled: it was overtaken, or forget      *)
(* refused, or an offline name was saved.                                  *)
Passes(i) ==
  /\ Finish(i) /\ UNCHANGED <<life, gen, desired, conn, attached, timer, handled>>
  /\ ~MayGoOn(i) \/ Turn(i).op = "forget" \/ (Turn(i).op = "rename" /\ ~Turn(i).was)
  /\ UNCHANGED sessionVars

Opens(i, s) ==
  /\ MayGoOn(i) /\ Turn(i).op # "forget" /\ attached[i] = NoSession /\ Free(s)
  /\ Finish(i) /\ UNCHANGED <<life, gen, desired>>
  /\ attached' = [attached EXCEPT ![i] = s]
  /\ conn' = [conn EXCEPT ![i] = conn'[i]]
  /\ timer' = [timer EXCEPT ![i] = 0] /\ handled' = [handled EXCEPT ![i] = 0]
  /\ phase' = [phase EXCEPT ![s] = "connecting"] /\ owner' = [owner EXCEPT ![s] = i]
  /\ sgen' = [sgen EXCEPT ![s] = Turn(i).gen] /\ discon' = [discon EXCEPT ![s] = "no"]
  /\ UNCHANGED late

(* #connect next to a session, and #endCurrent whose disconnect() rejects. *)
Fails(i) ==
  /\ Finish(i) /\ UNCHANGED <<life, gen, desired, attached, timer, handled, sessionVars>>
  /\ conn' = [conn EXCEPT ![i] = "failed"]
  /\ MayGoOn(i) \/ stage[i] = "closefailed"

Ends(o) == o.op \in {"start", "reconnect", "despawn"} \/ (o.op = "rename" /\ o.was)

Closes(i) ==
  /\ attached[i] # NoSession /\ Ends(Turn(i))
  /\ UNCHANGED <<life, gen, desired, conn, attached, handled, queue, phase, owner, sgen, late>>
  /\ timer' = [timer EXCEPT ![i] = 0]
  /\ \/ stage' = [stage EXCEPT ![i] = "closing"] /\ discon' = [discon EXCEPT ![attached[i]] = "pending"]
     \/ stage' = [stage EXCEPT ![i] = "closed"] /\ discon' = discon

(* With no session to close.                                               *)
Settles(i) ==
  /\ attached[i] = NoSession /\ Ends(Turn(i)) /\ timer' = [timer EXCEPT ![i] = 0]
  /\ \/ MayGoOn(i) /\ Turn(i).op # "despawn" /\ Wait(i, "delay") /\ conn' = conn
     \/ ~MayGoOn(i) /\ Finish(i) /\ conn' = conn
     \/ /\ Turn(i).op = "despawn" /\ Finish(i)
        /\ conn' = conn \/ (Live(i) /\ ~desired[i] /\ conn' = [conn EXCEPT ![i] = "offline"])
  /\ UNCHANGED <<life, gen, desired, attached, handled, sessionVars>>

Forgets(i) ==
  /\ Live(i) /\ Forgettable(i) /\ stage[i] = "idle"
  /\ Finish(i) /\ UNCHANGED <<desired, attached, sessionVars>>
  /\ conn' = [conn EXCEPT ![i] = "none"] /\ timer' = [timer EXCEPT ![i] = 0]
  /\ handled' = [handled EXCEPT ![i] = 0] /\ gen' = [gen EXCEPT ![i] = @ + 1]
  /\ life' = life \/ life' = [life EXCEPT ![i] = "gone"]

Detaches(i) ==
  /\ stage[i] = "closed" /\ ClosedEntry(i)
  /\ IF Turn(i).op # "despawn" /\ MayGoOn(i) THEN Wait(i, "delay") ELSE Finish(i)
  /\ UNCHANGED <<life, gen, desired, timer, sessionVars>>

Segment(i) ==
  \/ Passes(i) \/ (\E s \in Sessions : Opens(i, s)) \/ Fails(i) \/ Closes(i)
  \/ Settles(i) \/ Forgets(i) \/ Detaches(i)

LEMMA DialShape ==
  ASSUME TypeInv, NEW i \in Ids, MayGoOn(i), Turn(i).op # "forget", SegmentFrame,
         NEW as, NEW n, Dial(i, as, n)
  PROVE  Segment(i)
  <1>1. Finish(i) /\ UNCHANGED <<life, gen, desired>>  BY DEF Dial, SegmentFrame
  <1>2. CASE attached[i] # NoSession
    <2>1. Fails(i)  BY <1>1, <1>2 DEF Dial, Connect, Fails
    <2> QED  BY <2>1 DEF Segment
  <1>3. CASE attached[i] = NoSession
    <2>1. PICK s \in Sessions : Free(s) /\ OpenSession(i, Turn(i).gen, as, n, s)
      BY <1>3 DEF Dial, Connect
    <2>2. conn' = [conn EXCEPT ![i] = conn'[i]]
      BY <2>1 DEF OpenSession, TypeInv, EntryOK
    <2>3. Opens(i, s)  BY <1>1, <1>3, <2>1, <2>2 DEF Opens, OpenSession, NewAttempt
    <2> QED  BY <2>3 DEF Segment
  <1> QED  BY <1>2, <1>3

LEMMA SkipShape ==
  ASSUME NEW i \in Ids, SegmentFrame, Skip(i),
         ~MayGoOn(i) \/ Turn(i).op = "forget" \/ (Turn(i).op = "rename" /\ ~Turn(i).was)
  PROVE  Segment(i)
  <1>1. Passes(i)  BY DEF Passes, Skip, SegmentFrame, entryVars
  <1> QED  BY <1>1 DEF Segment

LEMMA CloseShape ==
  ASSUME NEW i \in Ids, SegmentFrame, BeginClose(i), attached[i] # NoSession, Ends(Turn(i))
  PROVE  Segment(i)
  <1>1. Closes(i)
    BY DEF Closes, BeginClose, EndTimerAndInput, Wait, SegmentFrame
  <1> QED  BY <1>1 DEF Segment

LEMMA AdvanceShape ==
  ASSUME TypeInv, NEW i \in Ids, Advance(i)
  PROVE  /\ queue[i] # <<>>
         /\ UNCHANGED procVars
         /\ Segment(i)
  <1>1. queue[i] # <<>>
    BY DEF Advance, StartBegins, StartResumes, ReconnectBegins, ReconnectResumes, RenameBegins,
           RenameResumes, DespawnBegins, ForgetRuns, RetryRuns, CloseDone, CloseFailed, At, TypeInv, ChainInv
  <1>2. UNCHANGED procVars
    BY DEF Advance, StartBegins, StartResumes, ReconnectBegins, ReconnectResumes, RenameBegins,
           RenameResumes, DespawnBegins, ForgetRuns, RetryRuns, CloseDone, CloseFailed, SegmentFrame
  <1>3. Segment(i)
    <2>1. CASE StartBegins(i)
      <3>1. Ends(Turn(i)) /\ Turn(i).op = "start" /\ SegmentFrame  BY <2>1 DEF StartBegins, At, Turn, Ends
      <3> QED  BY <2>1, <3>1, DialShape, SkipShape, CloseShape DEF StartBegins
    <2>2. CASE StartResumes(i)
      BY <2>2, DialShape, SkipShape DEF StartResumes, At, Turn
    <2>3. CASE ReconnectBegins(i)
      <3>1. Ends(Turn(i)) /\ SegmentFrame /\ Turn(i).op # "despawn"
        BY <2>3 DEF ReconnectBegins, At, Turn, Ends
      <3>2. CASE /\ MayGoOn(i) /\ attached[i] = NoSession
                 /\ EndTimerAndInput(i) /\ Wait(i, "delay")
                 /\ UNCHANGED <<conn, attached, handled, waiting, sessionVars>>
        <4>1. Settles(i)  BY <3>1, <3>2 DEF Settles, EndTimerAndInput, SegmentFrame
        <4> QED  BY <4>1 DEF Segment
      <3> QED  BY <2>3, <3>1, <3>2, SkipShape, CloseShape DEF ReconnectBegins
    <2>4. CASE ReconnectResumes(i)
      BY <2>4, DialShape, SkipShape DEF ReconnectResumes, At, Turn
    <2>5. CASE RenameBegins(i)
      <3>1. Turn(i).op = "rename" /\ SegmentFrame  BY <2>5 DEF RenameBegins, At, Turn
      <3>2. CASE Turn(i).was /\ attached[i] # NoSession /\ BeginClose(i)
        BY <3>1, <3>2, CloseShape DEF Ends
      <3>3. CASE /\ Turn(i).was /\ attached[i] = NoSession /\ EndTimerAndInput(i)
                 /\ IF MayGoOn(i) THEN Wait(i, "delay") ELSE Finish(i)
                 /\ UNCHANGED <<conn, attached, handled, attempt, waiting, sessionVars, name>>
        <4>1. Settles(i)  BY <3>1, <3>3 DEF Settles, EndTimerAndInput, SegmentFrame, Ends
        <4> QED  BY <4>1 DEF Segment
      <3>4. CASE ~Turn(i).was /\ Finish(i) /\ UNCHANGED <<entryVars, sessionVars>>
        <4>1. Passes(i)  BY <3>1, <3>4 DEF Passes, SegmentFrame, entryVars
        <4> QED  BY <4>1 DEF Segment
      <3> QED  BY <2>5, <3>2, <3>3, <3>4 DEF RenameBegins, Skip
    <2>6. CASE RenameResumes(i)
      BY <2>6, DialShape, SkipShape DEF RenameResumes, At, Turn
    <2>7. CASE DespawnBegins(i)
      <3>1. Turn(i).op = "despawn" /\ Ends(Turn(i)) /\ SegmentFrame
        BY <2>7 DEF DespawnBegins, At, Turn, Ends
      <3>2. CASE attached[i] # NoSession  BY <2>7, <3>1, <3>2, CloseShape DEF DespawnBegins
      <3>3. CASE attached[i] = NoSession
        <4>1. \/ conn' = conn
              \/ Live(i) /\ ~desired[i] /\ conn' = [conn EXCEPT ![i] = "offline"]
          BY <2>7, <3>3 DEF DespawnBegins, TypeInv, EntryOK
        <4>2. Settles(i)
          BY <2>7, <3>1, <3>3, <4>1 DEF DespawnBegins, Settles, EndTimerAndInput, SegmentFrame
        <4> QED  BY <4>2 DEF Segment
      <3> QED  BY <3>2, <3>3
    <2>8. CASE ForgetRuns(i)
      <3>1. Turn(i).op = "forget"  BY <2>8 DEF ForgetRuns, At, Turn
      <3>2. CASE UNCHANGED <<life, name, gen, entryVars>>
        <4>1. Passes(i)  BY <2>8, <3>1, <3>2 DEF ForgetRuns, Passes, entryVars
        <4> QED  BY <4>1 DEF Segment
      <3>3. CASE Live(i) /\ Forgettable(i)
        <4>1. CASE Invalidate(i)
          <5>1. life' = life \/ life' = [life EXCEPT ![i] = "gone"]  BY <2>8, <3>3 DEF ForgetRuns
          <5>2. /\ stage[i] = "idle" /\ Finish(i) /\ UNCHANGED <<desired, sessionVars, procVars>>
                /\ conn' = [conn EXCEPT ![i] = "none"] /\ handled' = [handled EXCEPT ![i] = 0] /\ attached' = attached
            BY <2>8, <3>3, <4>1 DEF ForgetRuns, At
          <5>3. timer' = [timer EXCEPT ![i] = 0] /\ gen' = [gen EXCEPT ![i] = @ + 1]  BY <4>1 DEF Invalidate
          <5>4. Forgets(i)  BY <3>3, <5>1, <5>2, <5>3 DEF Forgets
          <5> QED  BY <5>4 DEF Segment
        <4> QED  BY <2>8, <3>3, <4>1 DEF ForgetRuns
      <3> QED  BY <2>8, <3>2, <3>3 DEF ForgetRuns
    <2>9. CASE RetryRuns(i)
      BY <2>9, DialShape, SkipShape DEF RetryRuns, Skip, At, Turn
    <2>10. CASE CloseDone(i)
      <3>1. Detaches(i)  BY <2>10 DEF CloseDone, Detaches, storeVars
      <3> QED  BY <3>1 DEF Segment
    <2>11. CASE CloseFailed(i)
      <3>1. Fails(i)  BY <2>11 DEF CloseFailed, Fails, storeVars
      <3> QED  BY <3>1 DEF Segment
    <2> QED  BY <2>1, <2>2, <2>3, <2>4, <2>5, <2>6, <2>7, <2>8, <2>9, <2>10, <2>11 DEF Advance
  <1> QED  BY <1>1, <1>2, <1>3

-----------------------------------------------------------------------------
(* No Bot is abandoned.  The property is not inductive alone: an overtaken *)
(* operation may clear the timer or close the session, and then what       *)
(* overtook it has to dial.                                                *)
Served(i) ==
  \/ conn[i] = "failed" \/ timer[i] = gen[i] \/ Dials(queue[i], gen[i])
  \/ /\ attached[i] # NoSession /\ sgen[attached[i]] = gen[i]
     /\ phase[attached[i]] \in Open /\ discon[attached[i]] = "no"

Kept(i) ==
  /\ Followed(queue[i], gen[i])
  /\ attached[i] # NoSession /\ phase[attached[i]] \in Open /\ sgen[attached[i]] = gen[i] =>
       discon[attached[i]] = "no"
  /\ Served(i)

(* An attached session is no newer than its Bot, older than every command  *)
(* in the chain, and its loss has not been counted.                        *)
Older(i) == attached[i] # NoSession =>
  /\ sgen[attached[i]] > 0 /\ sgen[attached[i]] <= gen[i]
  /\ handled[i] = 0 /\ Newer(queue[i], sgen[attached[i]])

BotOK(i) ==
  /\ timer[i] <= gen[i] /\ Ordered(queue[i], gen[i])
  /\ stage[i] # "idle" => Ends(Turn(i))
  /\ Older(i)
  /\ life[i] = "fresh" => ~desired[i]
  /\ mode = "running" /\ Wanted(i) => Kept(i)

ServedInv == \A i \in Ids : BotOK(i)

LEMMA SameBot ==
  ASSUME NEW i \in Ids, BotOK(i), mode' = mode \/ mode' # "running",
         /\ life'[i] = life[i] /\ gen'[i] = gen[i] /\ desired'[i] = desired[i]
         /\ conn'[i] = conn[i] /\ attached'[i] = attached[i] /\ timer'[i] = timer[i]
         /\ handled'[i] = handled[i] /\ queue'[i] = queue[i]
         /\ stage'[i] = stage[i] \/ stage[i] # "idle",
         attached[i] # NoSession =>
           /\ sgen'[attached[i]] = sgen[attached[i]]
           /\ mode = "running" /\ Wanted(i) /\ sgen[attached[i]] = gen[i] =>
                /\ discon'[attached[i]] = discon[attached[i]]
                /\ phase'[attached[i]] \in Open <=> phase[attached[i]] \in Open
  PROVE  BotOK(i)'
  <1>1. /\ timer'[i] <= gen'[i] /\ Ordered(queue'[i], gen'[i])
        /\ life'[i] = "fresh" => ~desired'[i]
    BY DEF BotOK
  <1>2. stage'[i] # "idle" => Ends(queue'[i][1])  BY DEF BotOK, Turn
  <1>3. Older(i)'  BY DEF BotOK, Older
  <1>4. (mode = "running" /\ Wanted(i))' => Kept(i)'
    BY DEF BotOK, Kept, Served, Wanted, Live
  <1> QED  BY <1>1, <1>2, <1>3, <1>4 DEF BotOK, Turn

LEMMA Typed ==
  ASSUME TypeInv, NEW i \in Ids
  PROVE  /\ queue[i] \in Seq(Operation) /\ gen[i] \in Nat /\ timer[i] \in Nat /\ handled[i] \in Nat
         /\ attached[i] \in Sessions \cup {NoSession} /\ NoSession \notin Sessions
         /\ \A s \in Sessions : sgen[s] \in Nat
         /\ stage[i] \in {"idle", "closing", "closed", "closefailed", "delay"}
         /\ queue[i] # <<>> => Turn(i) \in Operation /\ Turn(i).gen \in Nat
  BY ConstantsAssumption, TurnTyped, OpParts
  DEF TypeInv, StoreOK, EntryOK, ChainInv, ChainOK, SessionInv, SessionOK

LEMMA SegmentOthers ==
  ASSUME TypeInv, TransportInv, NEW i \in Ids, Segment(i), UNCHANGED procVars,
         NEW j \in Ids \ {i}, BotOK(j)
  PROVE  BotOK(j)'
  <1>1. /\ \A s \in {attached[i], attached[j]} : s # NoSession => s \in Sessions
        /\ attached[j] # NoSession => attached[i] # attached[j]
    BY DEF TypeInv, EntryOK, TransportInv, AttachedIsOwned
  <1>2. mode' = mode  BY DEF procVars
  <1>3. /\ life \in [Ids -> {"fresh", "live", "gone"}] /\ gen \in [Ids -> Nat]
        /\ conn \in [Ids -> Active \cup {"none", "offline", "failed"}]
        /\ attached \in [Ids -> Sessions \cup {NoSession}] /\ timer \in [Ids -> Nat]
        /\ handled \in [Ids -> Nat] /\ queue \in [Ids -> Seq(Operation)]
        /\ stage \in [Ids -> {"idle", "closing", "closed", "closefailed", "delay"}]
        /\ phase \in [Sessions -> Open \cup {"unused", "closed"}]
        /\ sgen \in [Sessions -> Nat]
        /\ discon \in [Sessions -> {"no", "pending", "settled"}]
    BY DEF TypeInv, StoreOK, EntryOK, ChainInv, ChainOK, SessionInv, SessionOK
  <1>4. /\ life'[j] = life[j] /\ gen'[j] = gen[j] /\ desired'[j] = desired[j]
        /\ conn'[j] = conn[j] /\ attached'[j] = attached[j] /\ timer'[j] = timer[j]
        /\ handled'[j] = handled[j] /\ queue'[j] = queue[j] /\ stage'[j] = stage[j]
    BY <1>3 DEF Segment, Passes, Opens, Fails, Closes, Settles, Forgets, Detaches, ClosedEntry, Finish, Wait
  <1>5. attached[j] # NoSession =>
           /\ sgen'[attached[j]] = sgen[attached[j]]
           /\ discon'[attached[j]] = discon[attached[j]]
           /\ phase'[attached[j]] \in Open <=> phase[attached[j]] \in Open
    <2>1. CASE \E s \in Sessions : Opens(i, s)  BY <1>1, <1>3, <2>1 DEF Opens, Free
    <2>2. CASE Closes(i)  BY <1>1, <1>3, <2>2 DEF Closes
    <2>3. CASE Passes(i) \/ Fails(i) \/ Settles(i) \/ Forgets(i) \/ Detaches(i)
      BY <2>3 DEF Passes, Fails, Settles, Forgets, Detaches, sessionVars
    <2> QED  BY <2>1, <2>2, <2>3 DEF Segment
  <1> QED  BY <1>2, <1>4, <1>5, SameBot

(* The chain moves on past a turn that is not the one that has to dial.    *)
LEMMA FinishKeeps ==
  ASSUME TypeInv, NEW i \in Ids, BotOK(i), queue[i] # <<>>, Finish(i), UNCHANGED gen
  PROVE  /\ queue'[i] = Tail(queue[i]) /\ stage'[i] = "idle"
         /\ Ordered(queue'[i], gen'[i]) /\ Newer(queue'[i], Turn(i).gen)
         /\ \A g \in Nat : Newer(queue[i], g) => Newer(queue'[i], g)
         /\ Followed(queue[i], gen[i]) => Followed(queue'[i], gen'[i])
         /\ Dials(queue[i], gen[i]) /\ (Turn(i).gen # gen[i] \/ ~Dialing(Turn(i))) =>
              Dials(queue'[i], gen'[i])
  <1>1. queue'[i] = Tail(queue[i]) /\ stage'[i] = "idle"
    BY DEF Finish, TypeInv, ChainInv, ChainOK
  <1>2. queue[i] \in Seq(Operation) /\ gen[i] \in Nat /\ Ordered(queue[i], gen[i])
    BY Typed DEF BotOK
  <1> QED  BY <1>1, <1>2, TailOrdered, TailNewer, TailFollowed, TailDials DEF Turn

(* A turn that was overtaken is followed by one that dials.                *)
LEMMA Overtaken ==
  ASSUME TypeInv, NEW i \in Ids, BotOK(i), queue[i] # <<>>, mode = "running", Wanted(i),
         Ends(Turn(i)), ~MayGoOn(i) \/ Turn(i).op = "despawn"
  PROVE  /\ Dials(queue[i], gen[i])
         /\ Turn(i).gen # gen[i]
  <1>1. 1 \in 1 .. Len(queue[i]) /\ Turn(i).gen \in Nat /\ gen[i] \in Nat
    BY Typed, TailParts
  <1>2. Turn(i).gen <= gen[i] /\ Followed(queue[i], gen[i])
    BY <1>1 DEF BotOK, Ordered, Turn, Kept
  <1>3. Turn(i).op = "despawn" => Turn(i).gen < gen[i]  BY <1>1, <1>2 DEF Followed, Turn
  <1>4. Turn(i).gen # gen[i]  BY <1>1, <1>3 DEF MayGoOn, MayConnect, Wanted
  <1>5. Turn(i).op \in Lasting  BY DEF Ends, Lasting
  <1> QED  BY <1>1, <1>2, <1>4, <1>5 DEF Followed, Turn

LEMMA PassKeeps ==
  ASSUME TypeInv, NEW i \in Ids, BotOK(i), queue[i] # <<>>, Passes(i), UNCHANGED procVars
  PROVE  BotOK(i)'
  <1>1. /\ Finish(i) /\ UNCHANGED <<life, gen, desired, conn, attached, timer, handled, phase, sgen, discon, mode>>
    BY DEF Passes, sessionVars, procVars
  <1>2. timer'[i] <= gen'[i] /\ Ordered(queue'[i], gen'[i]) /\ stage'[i] = "idle"
    BY <1>1, FinishKeeps DEF BotOK
  <1>3. Older(i)'  BY <1>1, FinishKeeps, Typed DEF BotOK, Older
  <1>4. (mode = "running" /\ Wanted(i))' => Kept(i)'
    <2>1. SUFFICES ASSUME mode = "running", Wanted(i) PROVE Kept(i)'
      BY <1>1 DEF Wanted, Live
    <2>2. Kept(i)  BY <2>1 DEF BotOK
    <2>3. Turn(i).gen # gen[i] \/ ~Dialing(Turn(i))
      BY <2>1 DEF Passes, MayGoOn, MayConnect, Wanted, Dialing
    <2>4. Followed(queue'[i], gen'[i]) /\ (Dials(queue[i], gen[i]) => Dials(queue'[i], gen'[i]))
      BY <1>1, <2>2, <2>3, FinishKeeps DEF Kept
    <2> QED  BY <1>1, <2>2, <2>4 DEF Kept, Served
  <1>5. life'[i] = "fresh" => ~desired'[i]  BY <1>1 DEF BotOK
  <1> QED  BY <1>2, <1>3, <1>4, <1>5 DEF BotOK

LEMMA OpenKeeps ==
  ASSUME TypeInv, NEW i \in Ids, BotOK(i), queue[i] # <<>>, NEW s \in Sessions, Opens(i, s),
         UNCHANGED procVars
  PROVE  BotOK(i)'
  <1>1. /\ Finish(i) /\ UNCHANGED <<life, gen, desired>> /\ Turn(i).gen = gen[i]
        /\ s # NoSession
    BY Typed DEF Opens, MayGoOn, MayConnect
  <1>2. /\ attached'[i] = s /\ timer'[i] = 0 /\ handled'[i] = 0
        /\ sgen'[s] = Turn(i).gen /\ discon'[s] = "no" /\ phase'[s] \in Open
    BY DEF Opens, Open, TypeInv, EntryOK, SessionInv, SessionOK
  <1>3. gen[i] \in Nat /\ timer'[i] <= gen'[i] /\ Ordered(queue'[i], gen'[i]) /\ stage'[i] = "idle"
    BY <1>1, <1>2, FinishKeeps, Typed
  <1>4. Turn(i).gen > 0
    <2>1. 1 \in 1 .. Len(queue[i])  BY Typed, TailParts
    <2>2. Turn(i).op # "forget" => Turn(i).gen > 0  BY <2>1 DEF BotOK, Ordered, Turn
    <2> QED  BY <2>2 DEF Opens
  <1>5. Older(i)'
    BY <1>1, <1>2, <1>3, <1>4, FinishKeeps DEF Older
  <1>6. (mode = "running" /\ Wanted(i))' => Kept(i)'
    <2>1. mode = "running" /\ Wanted(i)  BY DEF Opens, MayGoOn, MayConnect, Wanted
    <2>2. Followed(queue'[i], gen'[i])  BY <1>1, <2>1, FinishKeeps DEF BotOK, Kept
    <2> QED  BY <1>1, <1>2, <2>2 DEF Kept, Served
  <1>7. life'[i] = "fresh" => ~desired'[i]  BY <1>1 DEF BotOK
  <1> QED  BY <1>3, <1>5, <1>6, <1>7 DEF BotOK

LEMMA FailKeeps ==
  ASSUME TypeInv, NEW i \in Ids, BotOK(i), queue[i] # <<>>, Fails(i), UNCHANGED procVars
  PROVE  BotOK(i)'
  <1>1. /\ Finish(i) /\ UNCHANGED <<life, gen, desired, attached, timer, handled, phase, sgen, discon, mode>>
        /\ conn'[i] = "failed"
    BY DEF Fails, sessionVars, procVars, TypeInv, EntryOK
  <1>2. timer'[i] <= gen'[i] /\ Ordered(queue'[i], gen'[i]) /\ stage'[i] = "idle"
    BY <1>1, FinishKeeps DEF BotOK
  <1>3. Older(i)'  BY <1>1, FinishKeeps, Typed DEF BotOK, Older
  <1>4. (mode = "running" /\ Wanted(i))' => Kept(i)'
    <2>1. mode = "running" /\ Wanted(i) => Followed(queue'[i], gen'[i])
      BY <1>1, FinishKeeps DEF BotOK, Kept
    <2> QED  BY <1>1, <2>1 DEF BotOK, Kept, Served, Wanted, Live
  <1>5. life'[i] = "fresh" => ~desired'[i]  BY <1>1 DEF BotOK
  <1> QED  BY <1>2, <1>3, <1>4, <1>5 DEF BotOK

LEMMA CloseKeeps ==
  ASSUME TypeInv, NEW i \in Ids, BotOK(i), queue[i] # <<>>, Closes(i), UNCHANGED procVars
  PROVE  BotOK(i)'
  <1>1. /\ UNCHANGED <<life, gen, desired, conn, attached, handled, queue, phase, sgen, mode>>
        /\ timer'[i] = 0 /\ attached[i] \in Sessions /\ gen[i] \in Nat
    BY Typed DEF Closes, procVars, TypeInv, EntryOK
  <1>2. timer'[i] <= gen'[i] /\ Ordered(queue'[i], gen'[i]) /\ Ends(Turn(i))'
    BY <1>1 DEF BotOK, Closes, Turn, Ends
  <1>3. Older(i)'  BY <1>1 DEF BotOK, Older
  <1>4. (mode = "running" /\ Wanted(i))' => Kept(i)'
    <2>1. SUFFICES ASSUME mode = "running", Wanted(i) PROVE Kept(i)'
      BY <1>1 DEF Wanted, Live
    <2>2. 1 \in 1 .. Len(queue[i]) /\ Turn(i).gen \in Nat  BY Typed, TailParts
    <2>3. Turn(i).op \in Lasting  BY DEF Closes, Ends, Lasting
    <2>4. Turn(i).gen > sgen[attached[i]] /\ Turn(i).gen <= gen[i]
      BY <2>2, <2>3 DEF BotOK, Older, Newer, Ordered, Closes, Turn
    <2>5. sgen[attached[i]] # gen[i]  BY <1>1, <2>2, <2>4, Typed
    <2>6. Dials(queue[i], gen[i])
      <3>1. CASE MayGoOn(i) /\ Turn(i).op # "despawn"
        <4>1. Turn(i).gen = gen[i]  BY <3>1 DEF MayGoOn, MayConnect
        <4>2. Dialing(Turn(i))  BY <3>1 DEF Closes, Ends, Dialing
        <4> QED  BY <2>2, <4>1, <4>2 DEF Dials, Turn
      <3>2. CASE ~MayGoOn(i) \/ Turn(i).op = "despawn"
        BY <2>1, <3>2, Overtaken DEF Closes
      <3> QED  BY <3>1, <3>2
    <2> QED  BY <1>1, <2>1, <2>5, <2>6 DEF BotOK, Kept, Served
  <1>5. life'[i] = "fresh" => ~desired'[i]  BY <1>1 DEF BotOK
  <1> QED  BY <1>2, <1>3, <1>4, <1>5 DEF BotOK

(* #endCurrent without a session, and after it has been closed.            *)
LEMMA DetachedKeeps ==
  ASSUME TypeInv, NEW i \in Ids, BotOK(i), queue[i] # <<>>, Ends(Turn(i)), UNCHANGED procVars,
         UNCHANGED <<life, gen, desired>>, attached'[i] = NoSession, timer'[i] \in {0, timer[i]},
         \/ MayGoOn(i) /\ Turn(i).op # "despawn" /\ Wait(i, "delay")
         \/ (~MayGoOn(i) \/ Turn(i).op = "despawn") /\ Finish(i)
  PROVE  BotOK(i)'
  <1>1. /\ mode' = mode /\ gen[i] \in Nat /\ Turn(i).gen \in Nat
        /\ queue[i] \in Seq(Operation) /\ 1 \in 1 .. Len(queue[i])
    BY Typed, TailParts DEF procVars
  <1>2. timer'[i] <= gen'[i]  BY <1>1 DEF BotOK
  <1>3. Older(i)'  BY DEF Older
  <1>4. life'[i] = "fresh" => ~desired'[i]  BY DEF BotOK
  <1>5. CASE MayGoOn(i) /\ Turn(i).op # "despawn" /\ Wait(i, "delay")
    <2>1. queue' = queue  BY <1>5 DEF Wait
    <2>2. Ordered(queue'[i], gen'[i]) /\ Ends(Turn(i))'  BY <2>1 DEF BotOK, Turn, Ends
    <2>3. Turn(i).gen = gen[i] /\ Dialing(Turn(i))
      BY <1>5 DEF MayGoOn, MayConnect, Ends, Dialing
    <2>4. Dials(queue'[i], gen'[i])  BY <1>1, <2>1, <2>3 DEF Dials, Turn
    <2>5. (mode = "running" /\ Wanted(i))' => Kept(i)'
      BY <1>1, <2>1, <2>4 DEF BotOK, Kept, Served, Wanted, Live
    <2> QED  BY <1>2, <1>3, <1>4, <2>2, <2>5 DEF BotOK
  <1>6. CASE (~MayGoOn(i) \/ Turn(i).op = "despawn") /\ Finish(i)
    <2>1. Ordered(queue'[i], gen'[i]) /\ stage'[i] = "idle"  BY <1>6, FinishKeeps
    <2>2. (mode = "running" /\ Wanted(i))' => Kept(i)'
      <3>1. SUFFICES ASSUME mode = "running", Wanted(i) PROVE Kept(i)'
        BY <1>1 DEF Wanted, Live
      <3>2. Dials(queue[i], gen[i]) /\ Turn(i).gen # gen[i]  BY <1>6, <3>1, Overtaken
      <3>3. Dials(queue'[i], gen'[i]) /\ Followed(queue'[i], gen'[i])
        BY <1>6, <3>1, <3>2, FinishKeeps DEF BotOK, Kept
      <3> QED  BY <3>3 DEF Kept, Served
    <2> QED  BY <1>2, <1>3, <1>4, <2>1, <2>2 DEF BotOK
  <1> QED  BY <1>5, <1>6

LEMMA ForgetKeeps ==
  ASSUME TypeInv, NEW i \in Ids, BotOK(i), queue[i] # <<>>, Forgets(i), UNCHANGED procVars
  PROVE  BotOK(i)'
  <1>1. /\ attached'[i] = NoSession /\ timer'[i] = 0 /\ gen'[i] = gen[i] + 1 /\ ~desired'[i]
    BY DEF Forgets, Forgettable, TypeInv, EntryOK, StoreOK
  <1>2. queue'[i] = Tail(queue[i]) /\ stage'[i] = "idle"
    BY DEF Forgets, Finish, TypeInv, ChainInv, ChainOK
  <1>3. queue[i] \in Seq(Operation) /\ gen[i] \in Nat  BY Typed
  <1>4. Tail(queue[i]) \in Seq(Operation) /\ Ordered(Tail(queue[i]), gen[i])
    BY <1>3, TailParts, TailOrdered DEF BotOK
  <1>5. Ordered(Tail(queue[i]), gen[i] + 1)
    <2>1. gen[i] + 1 \in Nat /\ gen[i] <= gen[i] + 1  BY <1>3
    <2> QED  BY <1>3, <1>4, <2>1, OrderedMore
  <1> QED  BY <1>1, <1>2, <1>3, <1>5 DEF BotOK, Older, Wanted, Ordered

LEMMA SegmentServed ==
  ASSUME TypeInv, TransportInv, ServedInv, NEW i \in Ids, Advance(i)
  PROVE  ServedInv'
  <1>1. queue[i] # <<>> /\ UNCHANGED procVars /\ Segment(i) /\ BotOK(i)
    BY AdvanceShape DEF ServedInv
  <1>2. BotOK(i)'
    <2>1. CASE Settles(i)
      <3>1. attached'[i] = NoSession /\ timer'[i] = 0
        BY <2>1 DEF Settles, TypeInv, EntryOK
      <3> QED  BY <1>1, <2>1, <3>1, DetachedKeeps DEF Settles
    <2>2. CASE Detaches(i)
      <3>1. attached'[i] = NoSession /\ timer'[i] = timer[i] /\ Ends(Turn(i))
        BY <1>1, <2>2 DEF Detaches, ClosedEntry, TypeInv, EntryOK, BotOK
      <3>2. \/ MayGoOn(i) /\ Turn(i).op # "despawn" /\ Wait(i, "delay")
            \/ (~MayGoOn(i) \/ Turn(i).op = "despawn") /\ Finish(i)
        BY <2>2 DEF Detaches
      <3> QED  BY <1>1, <2>2, <3>1, <3>2, DetachedKeeps DEF Detaches
    <2> QED
      BY <1>1, <2>1, <2>2, PassKeeps, OpenKeeps, FailKeeps, CloseKeeps, ForgetKeeps DEF Segment
  <1>3. \A j \in Ids \ {i} : BotOK(j)'  BY <1>1, SegmentOthers DEF ServedInv
  <1> QED  BY <1>2, <1>3 DEF ServedInv

(* A command that starts a generation, and what it appends.                *)
Commands(i, o) ==
  /\ mode = "running" /\ Enqueue(i, o) /\ Invalidate(i) /\ o.gen = gen[i] + 1
  /\ UNCHANGED <<conn, attached, handled, stage, sessionVars, procVars>>
  /\ life[i] # "gone" /\ life' = [life EXCEPT ![i] = "live"]
  /\ \/ Dialing(o) /\ desired' = [desired EXCEPT ![i] = TRUE]
     \/ ~Dialing(o) /\ desired' = [desired EXCEPT ![i] = FALSE]

LEMMA CommandShape ==
  ASSUME TypeInv, NEW i \in Ids, Command(i)
  PROVE  \/ \E o \in Operation : o.op \in Lasting /\ Commands(i, o)
         \/ /\ Enqueue(i, Op("forget", 0, FALSE, NoName))
            /\ UNCHANGED <<life, desired, gen, entryVars, stage, sessionVars, procVars>>
         \/ /\ life[i] = "fresh" /\ life' = [life EXCEPT ![i] = "live"] /\ mode = "running"
            /\ UNCHANGED <<desired, gen, entryVars, chainVars, sessionVars, procVars>>
         \/ UNCHANGED <<life, desired, gen, conn, attached, timer, handled, chainVars, sessionVars, procVars>>
  <1>a. /\ life \in [Ids -> {"fresh", "live", "gone"}] /\ desired \in [Ids -> BOOLEAN]
        /\ gen[i] + 1 \in Nat
    BY DEF TypeInv, StoreOK
  <1>1. ASSUME NEW n \in Names, SpawnNew(i, n)
        PROVE  \E o \in Operation : o.op \in Lasting /\ Commands(i, o)
    <2>1. Op("start", gen[i] + 1, FALSE, NoName) \in Operation  BY CommandOp DEF TypeInv
    <2>2. Commands(i, Op("start", gen[i] + 1, FALSE, NoName))
      BY <1>1 DEF SpawnNew, Commands, Accepting, Op, Dialing
    <2> QED  BY <2>1, <2>2 DEF Op, Lasting
  <1>2. ASSUME NEW n \in Names, Rename(i, n)
        PROVE  \E o \in Operation : o.op \in Lasting /\ Commands(i, o)
    <2>1. Op("rename", gen[i] + 1, desired[i], n) \in Operation  BY <1>a, OpTyped
    <2>2. Live(i) /\ life' = life /\ desired' = desired  BY <1>2 DEF Rename, storeVars
    <2>3. life' = [life EXCEPT ![i] = "live"] /\ desired' = [desired EXCEPT ![i] = desired[i]]
      BY <1>a, <2>2 DEF Live
    <2>4. Dialing(Op("rename", gen[i] + 1, desired[i], n)) <=> desired[i]  BY DEF Op, Dialing
    <2>5. desired[i] \in BOOLEAN  BY <1>a
    <2>6. /\ mode = "running" /\ Enqueue(i, Op("rename", gen[i] + 1, desired[i], n)) /\ Invalidate(i)
          /\ UNCHANGED <<conn, attached, handled, stage, sessionVars, procVars>>
      BY <1>2 DEF Rename, Accepting
    <2>7. Commands(i, Op("rename", gen[i] + 1, desired[i], n))
      BY <2>2, <2>3, <2>4, <2>5, <2>6 DEF Commands, Op, Live
    <2> QED  BY <2>1, <2>7 DEF Op, Lasting
  <1>3. ASSUME SpawnOrResume(i)
        PROVE  \E o \in Operation : o.op \in Lasting /\ Commands(i, o)
    <2>1. Op("start", gen[i] + 1, FALSE, NoName) \in Operation  BY CommandOp DEF TypeInv
    <2>2. Commands(i, Op("start", gen[i] + 1, FALSE, NoName))
      BY <1>3, <1>a DEF SpawnOrResume, Commands, Accepting, Op, Dialing, Live
    <2> QED  BY <2>1, <2>2 DEF Op, Lasting
  <1>4. ASSUME Reconnect(i)
        PROVE  \E o \in Operation : o.op \in Lasting /\ Commands(i, o)
    <2>1. Op("reconnect", gen[i] + 1, FALSE, NoName) \in Operation  BY CommandOp DEF TypeInv
    <2>2. Commands(i, Op("reconnect", gen[i] + 1, FALSE, NoName))
      BY <1>4, <1>a DEF Reconnect, Commands, Accepting, Op, Dialing, Live, storeVars
    <2> QED  BY <2>1, <2>2 DEF Op, Lasting
  <1>5. ASSUME Despawn(i)
        PROVE  \E o \in Operation : o.op \in Lasting /\ Commands(i, o)
    <2>1. Op("despawn", gen[i] + 1, FALSE, NoName) \in Operation  BY CommandOp DEF TypeInv
    <2>2. Commands(i, Op("despawn", gen[i] + 1, FALSE, NoName))
      BY <1>5, <1>a DEF Despawn, Commands, Accepting, Op, Dialing, Live
    <2> QED  BY <2>1, <2>2 DEF Op, Lasting
  <1>6. ASSUME Forget(i)
        PROVE  /\ Enqueue(i, Op("forget", 0, FALSE, NoName))
               /\ UNCHANGED <<life, desired, gen, entryVars, stage, sessionVars, procVars>>
    BY <1>6 DEF Forget, storeVars
  <1>7. ASSUME NEW n \in Names, SpawnHalfDone(i, n)
        PROVE  /\ life[i] = "fresh" /\ life' = [life EXCEPT ![i] = "live"] /\ mode = "running"
               /\ UNCHANGED <<desired, gen, entryVars, chainVars, sessionVars, procVars>>
    BY <1>7 DEF SpawnHalfDone, Accepting
  <1>8. ASSUME Input(i) \/ StopInput(i)
        PROVE  UNCHANGED <<life, desired, gen, conn, attached, timer, handled, chainVars, sessionVars, procVars>>
    BY <1>8 DEF Input, StopInput, storeVars
  <1> QED  BY <1>1, <1>2, <1>3, <1>4, <1>5, <1>6, <1>7, <1>8 DEF Command

LEMMA CommandServed ==
  ASSUME TypeInv, ServedInv, NEW i \in Ids, Command(i) \/ TimerFire(i) \/ WaitExpires(i)
  PROVE  ServedInv'
  <1>a. /\ life \in [Ids -> {"fresh", "live", "gone"}] /\ desired \in [Ids -> BOOLEAN]
        /\ gen \in [Ids -> Nat] /\ timer \in [Ids -> Nat] /\ queue \in [Ids -> Seq(Operation)]
    BY DEF TypeInv, StoreOK, EntryOK, ChainInv, ChainOK
  <1>b. BotOK(i) /\ queue[i] \in Seq(Operation) /\ gen[i] \in Nat /\ timer[i] \in Nat
    BY <1>a DEF ServedInv
  <1>1. ASSUME NEW o \in Operation, o.op \in Lasting, Commands(i, o) PROVE ServedInv'
    <2>1. /\ queue' = [queue EXCEPT ![i] = Append(@, o)] /\ gen' = [gen EXCEPT ![i] = @ + 1]
          /\ timer' = [timer EXCEPT ![i] = 0] /\ o.gen = gen[i] + 1
          /\ UNCHANGED <<conn, attached, handled, stage, phase, sgen, discon, mode>>
      BY <1>1 DEF Commands, Enqueue, Invalidate, sessionVars, procVars
    <2>2. \A j \in Ids \ {i} : BotOK(j)'
      BY <1>1, <1>a, <2>1, SameBot DEF Commands, ServedInv
    <2>3. /\ queue'[i] = Append(queue[i], o) /\ gen'[i] = gen[i] + 1 /\ timer'[i] = 0
      BY <1>a, <2>1
    <2>4. timer'[i] <= gen'[i] /\ Ordered(queue'[i], gen'[i])
      BY <1>b, <2>1, <2>3, CommandOrdered DEF BotOK
    <2>5. stage'[i] # "idle" => Ends(Turn(i))'
      <3>1. ASSUME stage[i] # "idle" PROVE queue'[i][1] = queue[i][1]
        <4>1. queue[i] # <<>>  BY <3>1 DEF TypeInv, ChainInv
        <4>2. 1 \in 1 .. Len(queue[i])  BY <1>b, <4>1, TailParts
        <4> QED  BY <1>b, <2>3, <4>2, AppendParts
      <3> QED  BY <1>b, <2>1, <3>1 DEF BotOK, Turn, Ends
    <2>6. Older(i)'
      <3>1. SUFFICES ASSUME attached[i] # NoSession
                     PROVE  /\ sgen[attached[i]] <= gen'[i]
                            /\ Newer(queue'[i], sgen[attached[i]])
        BY <1>b, <2>1 DEF BotOK, Older
      <3>2. sgen[attached[i]] \in Nat /\ sgen[attached[i]] <= gen[i] /\ Newer(queue[i], sgen[attached[i]])
        BY <3>1, <1>b, Typed DEF BotOK, Older
      <3> QED  BY <1>b, <2>1, <2>3, <3>2, AppendNewer
    <2>7. life'[i] = "fresh" => ~desired'[i]  BY <1>1, <1>a DEF Commands
    <2>8. (mode = "running" /\ Wanted(i))' => Kept(i)'
      <3>1. SUFFICES ASSUME desired'[i] PROVE Kept(i)'  BY DEF Wanted
      <3>2. Dialing(o)  BY <1>1, <1>a, <3>1 DEF Commands
      <3>3. Dials(queue'[i], gen'[i]) /\ Followed(queue'[i], gen'[i])
        BY <1>b, <2>1, <2>3, <3>2, CommandFollowed DEF BotOK
      <3>4. attached[i] # NoSession => sgen[attached[i]] # gen'[i]
        <4>1. attached[i] # NoSession => sgen[attached[i]] \in Nat /\ sgen[attached[i]] <= gen[i]
          BY <1>b, Typed DEF BotOK, Older
        <4> QED  BY <1>b, <2>3, <4>1
      <3> QED  BY <2>1, <3>3, <3>4 DEF Kept, Served
    <2>9. BotOK(i)'  BY <2>4, <2>5, <2>6, <2>7, <2>8 DEF BotOK
    <2> QED  BY <2>2, <2>9 DEF ServedInv
  <1>2. ASSUME NEW o \in Operation, o.op \notin Lasting, o.gen <= gen[i], o.op # "forget" => o.gen > 0,
               Enqueue(i, o), timer' = timer \/ timer' = [timer EXCEPT ![i] = 0],
               timer'[i] = timer[i] \/ (o.gen = timer[i] /\ Dialing(o)),
               UNCHANGED <<life, desired, gen, conn, attached, handled, stage, phase, sgen, discon, mode>>
        PROVE  ServedInv'
    <2>1. queue' = [queue EXCEPT ![i] = Append(queue[i], o)] /\ queue'[i] = Append(queue[i], o)
      BY <1>a, <1>2 DEF Enqueue
    <2>2. \A j \in Ids \ {i} : BotOK(j)'
      BY <1>2, <1>a, <2>1, SameBot DEF ServedInv
    <2>3. timer'[i] <= gen'[i]  BY <1>a, <1>b, <1>2 DEF BotOK
    <2>4. Ordered(queue'[i], gen'[i])  BY <1>b, <1>2, <2>1, OtherOrdered DEF BotOK
    <2>5. stage'[i] # "idle" => Ends(Turn(i))'
      <3>1. ASSUME stage[i] # "idle" PROVE queue'[i][1] = queue[i][1]
        <4>1. queue[i] # <<>>  BY <3>1 DEF TypeInv, ChainInv
        <4>2. 1 \in 1 .. Len(queue[i])  BY <1>b, <4>1, TailParts
        <4> QED  BY <1>b, <2>1, <4>2, AppendParts
      <3> QED  BY <1>b, <1>2, <3>1 DEF BotOK, Turn, Ends
    <2>6. Older(i)'
      <3>1. SUFFICES ASSUME attached[i] # NoSession PROVE Newer(queue'[i], sgen[attached[i]])
        BY <1>b, <1>2 DEF BotOK, Older
      <3>2. sgen[attached[i]] \in Nat /\ Newer(queue[i], sgen[attached[i]])
        BY <3>1, <1>b, Typed DEF BotOK, Older
      <3> QED  BY <1>b, <1>2, <2>1, <3>2, AppendNewer
    <2>7. life'[i] = "fresh" => ~desired'[i]  BY <1>b, <1>2 DEF BotOK
    <2>8. (mode = "running" /\ Wanted(i))' => Kept(i)'
      <3>1. SUFFICES ASSUME mode = "running", Wanted(i) PROVE Kept(i)'
        BY <1>2 DEF Wanted, Live
      <3>2. Kept(i)  BY <1>b, <3>1 DEF BotOK
      <3>3. Followed(queue'[i], gen'[i])  BY <1>b, <1>2, <2>1, <3>2, OtherFollowed DEF Kept
      <3>4. Dials(queue[i], gen[i]) \/ timer[i] = gen[i] =>
              timer'[i] = gen'[i] \/ Dials(queue'[i], gen'[i])
        BY <1>b, <1>2, <2>1, AppendDials
      <3> QED  BY <1>2, <3>2, <3>3, <3>4 DEF Kept, Served
    <2>9. BotOK(i)'  BY <2>3, <2>4, <2>5, <2>6, <2>7, <2>8 DEF BotOK
    <2> QED  BY <2>2, <2>9 DEF ServedInv
  <1>3. CASE TimerFire(i)
    <2>1. Op("retry", timer[i], FALSE, NoName) \in Operation  BY <1>b, OpTyped
    <2>2. /\ timer[i] # 0 /\ timer' = [timer EXCEPT ![i] = 0]
          /\ Enqueue(i, Op("retry", timer[i], FALSE, NoName))
          /\ UNCHANGED <<life, desired, gen, conn, attached, handled, stage, phase, sgen, discon, mode>>
      BY <1>3 DEF TimerFire, storeVars, sessionVars, procVars
    <2>3. /\ Op("retry", timer[i], FALSE, NoName).op = "retry"
          /\ Op("retry", timer[i], FALSE, NoName).gen = timer[i]
          /\ timer[i] <= gen[i]
      BY <1>b DEF Op, BotOK
    <2> DEFINE o == Op("retry", timer[i], FALSE, NoName)
    <2>4. o \in Operation /\ o.op = "retry" /\ o.gen = timer[i] /\ Enqueue(i, o)  BY <2>1, <2>2, <2>3
    <2> HIDE DEF o
    <2>5. o.op \notin Lasting /\ Dialing(o) /\ o.gen <= gen[i] /\ o.gen > 0
      BY <1>b, <2>2, <2>3, <2>4 DEF Lasting, Dialing
    <2> QED  BY <1>2, <2>2, <2>4, <2>5
  <1>4. CASE WaitExpires(i)
    <2>1. UNCHANGED <<life, desired, gen, conn, attached, timer, handled, queue, stage, phase, sgen, discon, mode>>
      BY <1>4 DEF WaitExpires, storeVars, chainVars, sessionVars, procVars
    <2> QED  BY <2>1, SameBot DEF ServedInv
  <1>5. CASE Command(i)
    <2>1. ASSUME /\ Enqueue(i, Op("forget", 0, FALSE, NoName))
                 /\ UNCHANGED <<life, desired, gen, entryVars, stage, sessionVars, procVars>>
          PROVE  ServedInv'
      <3> DEFINE o == Op("forget", 0, FALSE, NoName)
      <3>1. o \in Operation /\ o.op = "forget" /\ o.gen = 0 /\ Enqueue(i, o)
        BY <2>1, OpTyped DEF Op
      <3> HIDE DEF o
      <3>2. o.op \notin Lasting /\ o.gen <= gen[i]  BY <1>b, <3>1 DEF Lasting
      <3>3. UNCHANGED <<life, desired, gen, conn, attached, timer, handled, stage, phase, sgen, discon, mode>>
        BY <2>1 DEF entryVars, sessionVars, procVars
      <3> QED  BY <1>2, <3>1, <3>2, <3>3
    <2>2. ASSUME /\ life[i] = "fresh" /\ life' = [life EXCEPT ![i] = "live"]
                 /\ UNCHANGED <<desired, gen, entryVars, chainVars, sessionVars, procVars>>
          PROVE  ServedInv'
      <3>1. UNCHANGED <<desired, gen, conn, attached, timer, handled, queue, stage, phase, sgen, discon, mode>>
        BY <2>2 DEF entryVars, chainVars, sessionVars, procVars
      <3>2. \A j \in Ids \ {i} : BotOK(j)'  BY <1>a, <2>2, <3>1, SameBot DEF ServedInv
      <3>3. ~desired'[i]  BY <1>b, <2>2, <3>1 DEF BotOK
      <3>4. BotOK(i)'  BY <1>b, <2>2, <3>1, <3>3 DEF BotOK, Older, Wanted, Turn, Ends
      <3> QED  BY <3>2, <3>4 DEF ServedInv
    <2>3. ASSUME UNCHANGED <<life, desired, gen, conn, attached, timer, handled, chainVars, sessionVars, procVars>>
          PROVE  ServedInv'
      <3>1. UNCHANGED <<life, desired, gen, conn, attached, timer, handled, queue, stage, phase, sgen, discon, mode>>
        BY <2>3 DEF chainVars, sessionVars, procVars
      <3> QED  BY <3>1, SameBot DEF ServedInv
    <2> QED  BY <1>1, <1>5, <2>1, <2>2, <2>3, CommandShape
  <1> QED  BY <1>3, <1>4, <1>5

LEMMA LossShape ==
  ASSUME TypeInv, NEW i \in Ids, NEW g \in Nat, NEW s, NEW notReady \in BOOLEAN,
         Disconnected(i, g, s, notReady)
  PROVE  \/ ~Counts(i, g, s) /\ UNCHANGED entryVars
         \/ /\ Counts(i, g, s) /\ attached' = [attached EXCEPT ![i] = NoSession]
            /\ handled' = [handled EXCEPT ![i] = g]
            /\ timer' = timer \/ timer' = [timer EXCEPT ![i] = g]
            /\ conn' = [conn EXCEPT ![i] = conn'[i]]
            /\ desired[i] => conn'[i] = "failed" \/ timer'[i] = g
  <1>a. conn \in [Ids -> Active \cup {"none", "offline", "failed"}] /\ timer \in [Ids -> Nat]
    BY DEF TypeInv, EntryOK
  <1>1. CASE ~Counts(i, g, s)  BY <1>1 DEF Disconnected
  <1>2. CASE Counts(i, g, s)
    <2>1. attached' = [attached EXCEPT ![i] = NoSession] /\ handled' = [handled EXCEPT ![i] = g]
      BY <1>2 DEF Disconnected
    <2>2. CASE desired[i]
      <3>1. CountLoss(i, g, notReady)  BY <1>2, <2>2 DEF Disconnected
      <3>2. CASE RetryAfter(i, g)  BY <1>a, <1>2, <2>1, <3>2 DEF RetryAfter
      <3>3. CASE conn' = [conn EXCEPT ![i] = "failed"] /\ UNCHANGED timer
        BY <1>a, <1>2, <2>1, <3>3
      <3> QED  BY <3>1, <3>2, <3>3 DEF CountLoss
    <2>3. CASE ~desired[i]
      BY <1>a, <1>2, <2>1, <2>3 DEF Disconnected
    <2> QED  BY <2>2, <2>3
  <1> QED  BY <1>1, <1>2

(* A loss is heard: it is counted and the timer armed, or the session that *)
(* was lost is not the one its Bot is served by.                           *)
LEMMA LossKeeps ==
  ASSUME TypeInv, TransportInv, ServedInv, NEW s \in Sessions, owner[s] \in Ids,
         \/ \E notReady \in BOOLEAN : Disconnected(owner[s], sgen[s], s, notReady)
         \/ UNCHANGED entryVars /\ phase[s] \in Open /\ discon[s] # "no",
         UNCHANGED <<life, desired, gen, queue, mode, sgen>>, phase'[s] \notin Open,
         \A t \in Sessions \ {s} : phase'[t] = phase[t] /\ discon'[t] = discon[t],
         \A j \in Ids : stage'[j] = stage[j] \/ stage[j] # "idle"
  PROVE  ServedInv'
  <1>i. PICK i \in Ids : i = owner[s]  OBVIOUS
  <1>a. /\ gen[i] \in Nat /\ sgen[s] \in Nat /\ s # NoSession /\ BotOK(i)
        /\ conn \in [Ids -> Active \cup {"none", "offline", "failed"}]
        /\ attached \in [Ids -> Sessions \cup {NoSession}] /\ timer \in [Ids -> Nat]
        /\ handled \in [Ids -> Nat]
    BY Typed DEF ServedInv, TypeInv, EntryOK
  <1>b. \A j \in Ids : attached[j] = s => j = i  BY <1>i, <1>a DEF TransportInv, AttachedIsOwned
  <1>1. ASSUME UNCHANGED entryVars, attached[i] = s => ~(mode = "running" /\ Wanted(i) /\ sgen[s] = gen[i])
        PROVE  ServedInv'
    <2>1. UNCHANGED <<conn, attached, timer, handled>>  BY <1>1 DEF entryVars
    <2>2. SUFFICES ASSUME NEW j \in Ids PROVE BotOK(j)'  BY DEF ServedInv
    <2>3. CASE attached[j] = s
      <3>1. j = i  BY <1>b, <2>3
      <3> QED  BY <1>1, <2>1, <2>3, <3>1, SameBot DEF ServedInv
    <2>4. CASE attached[j] # s
      <3>1. attached[j] # NoSession => attached[j] \in Sessions \ {s}  BY <1>a, <2>4
      <3> QED  BY <2>1, <3>1, SameBot DEF ServedInv
    <2> QED  BY <2>3, <2>4
  <1>2. CASE UNCHANGED entryVars /\ phase[s] \in Open /\ discon[s] # "no"
    <2>1. attached[i] = s => ~(mode = "running" /\ Wanted(i) /\ sgen[s] = gen[i])
      BY <1>2, <1>a DEF BotOK, Kept
    <2> QED  BY <1>1, <1>2, <2>1
  <1>3. ASSUME NEW notReady \in BOOLEAN, Disconnected(i, sgen[s], s, notReady) PROVE ServedInv'
    <2>1. CASE ~Counts(i, sgen[s], s) /\ UNCHANGED entryVars
      <3>1. attached[i] = s => handled[i] # sgen[s]  BY <1>a DEF BotOK, Older
      <3>2. attached[i] = s => ~(Wanted(i) /\ sgen[s] = gen[i])
        BY <2>1, <3>1 DEF Counts, Wanted
      <3> QED  BY <1>1, <2>1, <3>2
    <2>2. CASE /\ Counts(i, sgen[s], s) /\ attached' = [attached EXCEPT ![i] = NoSession]
               /\ handled' = [handled EXCEPT ![i] = sgen[s]]
               /\ timer' = timer \/ timer' = [timer EXCEPT ![i] = sgen[s]]
               /\ conn' = [conn EXCEPT ![i] = conn'[i]]
               /\ desired[i] => conn'[i] = "failed" \/ timer'[i] = sgen[s]
      <3>1. sgen[s] = gen[i]  BY <2>2 DEF Counts
      <3>2. ASSUME NEW j \in Ids \ {i} PROVE BotOK(j)'
        <4>1. attached[j] # NoSession => attached[j] \in Sessions \ {s}  BY <1>a, <1>b
        <4>2. conn'[j] = conn[j] /\ attached'[j] = attached[j] /\ timer'[j] = timer[j] /\ handled'[j] = handled[j]
          BY <1>a, <2>2
        <4> QED  BY <4>1, <4>2, SameBot DEF ServedInv
      <3>3. attached'[i] = NoSession /\ timer'[i] <= gen'[i]
        BY <1>a, <2>2, <3>1 DEF BotOK
      <3>4. (mode = "running" /\ Wanted(i))' => Kept(i)'
        <4>1. SUFFICES ASSUME mode = "running", Wanted(i) PROVE Kept(i)'
          BY DEF Wanted, Live
        <4>2. conn'[i] = "failed" \/ timer'[i] = gen'[i]  BY <2>2, <3>1, <4>1 DEF Wanted
        <4>3. Followed(queue'[i], gen'[i])  BY <1>a, <4>1 DEF BotOK, Kept
        <4> QED  BY <3>3, <4>2, <4>3 DEF Kept, Served
      <3>5. stage'[i] # "idle" => Ends(Turn(i))'  BY <1>a DEF BotOK, Turn, Ends
      <3>6. BotOK(i)'  BY <1>a, <3>3, <3>4, <3>5 DEF BotOK, Older
      <3> QED  BY <3>2, <3>6 DEF ServedInv
    <2> QED  BY <1>a, <1>3, <2>1, <2>2, LossShape
  <1> QED  BY <1>i, <1>2, <1>3

LEMMA SettlesWaits ==
  ASSUME TypeInv, NEW s \in Sessions, NEW outcome, DisconnectSettles(s, outcome)
  PROVE  /\ \A j \in Ids : stage'[j] = stage[j] \/ stage[j] # "idle"
         /\ \A t \in Sessions \ {s} : discon'[t] = discon[t]
  <1>1. CASE Awaited(s)
    BY <1>1 DEF DisconnectSettles, Awaited, TypeInv, ChainInv, ChainOK, SessionInv, SessionOK
  <1>2. CASE ~Awaited(s)
    BY <1>2 DEF DisconnectSettles, TypeInv, SessionInv, SessionOK
  <1> QED  BY <1>1, <1>2

LEMMA SessionServed ==
  ASSUME TypeInv, TransportInv, ServedInv, NEW s \in Sessions, SessionEvent(s)
  PROVE  ServedInv'
  <1>a. /\ phase \in [Sessions -> Open \cup {"unused", "closed"}]
        /\ discon \in [Sessions -> {"no", "pending", "settled"}]
        /\ attached \in [Ids -> Sessions \cup {NoSession}]
        /\ conn \in [Ids -> Active \cup {"none", "offline", "failed"}]
        /\ NoSession \notin Sessions /\ "closed" \notin Open
    BY ConstantsAssumption DEF TypeInv, SessionInv, SessionOK, EntryOK, Open
  <1>b. ASSUME TransportCloses(s)
        PROVE  /\ UNCHANGED <<life, desired, gen, queue, mode, sgen>> /\ phase'[s] \notin Open
               /\ \A t \in Sessions \ {s} : phase'[t] = phase[t] /\ discon'[t] = discon[t]
               /\ \A j \in Ids : stage'[j] = stage[j] \/ stage[j] # "idle"
    BY <1>a, <1>b, SettlesWaits DEF TransportCloses, storeVars, procVars
  <1>c. phase[s] \in Open \/ late[s] => owner[s] \in Ids  BY DEF TypeInv, SessionInv
  <1>1. ASSUME NEW notReady \in BOOLEAN, NEW again \in BOOLEAN, ConnectRejected(s, notReady, again)
        PROVE  ServedInv'
    <2>1. phase[s] \in Open /\ TransportCloses(s) /\ Disconnected(owner[s], sgen[s], s, notReady)
      BY <1>1 DEF ConnectRejected, Open
    <2> QED  BY <1>b, <1>c, <2>1, LossKeeps
  <1>2. CASE TransportLost(s)
    <2>1. /\ phase[s] \in Open /\ TransportCloses(s)
          /\ \/ Disconnected(owner[s], sgen[s], s, FALSE)
             \/ UNCHANGED entryVars /\ discon[s] # "no"
      BY <1>2 DEF TransportLost, Open
    <2> QED  BY <1>b, <1>c, <2>1, LossKeeps
  <1>3. CASE LateRejection(s)
    <2>1. /\ late[s] /\ Disconnected(owner[s], sgen[s], s, FALSE)
          /\ UNCHANGED <<life, desired, gen, queue, stage, mode, sgen, phase, discon>>
      BY <1>3 DEF LateRejection, storeVars, chainVars, procVars
    <2>2. phase[s] \notin Open  BY <2>1 DEF TransportInv, LateIsClosed
    <2> QED  BY <1>c, <2>1, <2>2, LossKeeps
  <1>4. ASSUME UNCHANGED <<life, desired, gen, conn, attached, timer, handled, queue, mode, sgen>>,
               phase' = phase, \A t \in Sessions \ {s} : discon'[t] = discon[t],
               \A j \in Ids : stage'[j] = stage[j] \/ stage[j] # "idle",
               phase[s] \in Open, discon[s] # "no"
        PROVE  ServedInv'
    <2>1. SUFFICES ASSUME NEW j \in Ids PROVE BotOK(j)'  BY DEF ServedInv
    <2>2. attached[j] = s => ~(mode = "running" /\ Wanted(j) /\ sgen[s] = gen[j])
      BY <1>4, <1>a DEF ServedInv, BotOK, Kept
    <2>3. attached[j] # s /\ attached[j] # NoSession => attached[j] \in Sessions \ {s}  BY <1>a
    <2> QED  BY <1>4, <2>2, <2>3, SameBot DEF ServedInv
  <1>5. CASE DisconnectFails(s)
    <2>1. /\ UNCHANGED <<life, desired, gen, conn, attached, timer, handled, queue, mode, sgen>>
          /\ phase' = phase /\ phase[s] \in Open /\ discon[s] # "no"
          /\ DisconnectSettles(s, "closefailed")
      BY <1>5 DEF DisconnectFails, storeVars, entryVars, procVars
    <2> QED  BY <1>4, <2>1, SettlesWaits
  <1>6. CASE Spawned(s)
    <2>i. PICK i \in Ids : i = owner[s]  BY <1>6, <1>c DEF Spawned, Open
    <2>1. i \in Ids /\ BotOK(i)  BY DEF ServedInv
    <2>2. /\ UNCHANGED <<life, desired, gen, attached, timer, handled, queue, stage, mode, sgen>>
          /\ \A t \in Sessions : phase'[t] \in Open <=> phase[t] \in Open
          /\ phase[s] \in Open
      BY <1>6, <1>a DEF Spawned, storeVars, chainVars, procVars, Open
    <2>3. \A j \in Ids : attached[j] = s => j = i
      BY <2>i, <1>a DEF TransportInv, AttachedIsOwned
    <2>4. \A t \in Sessions \ {s} : discon'[t] = discon[t]  BY <1>6, <1>a DEF Spawned
    <2>5. \A j \in Ids \ {i} : conn'[j] = conn[j]  BY <2>i, <1>6, <1>a DEF Spawned
    <2>6. ASSUME NEW j \in Ids \ {i} PROVE BotOK(j)'
      <3>1. attached[j] # NoSession => attached[j] \in Sessions \ {s}  BY <1>a, <2>3
      <3> QED  BY <2>2, <2>4, <2>5, <3>1, SameBot DEF ServedInv
    <2>7. CASE MayConnect(i, sgen[s]) /\ attached[i] = s
      <3>1. discon' = discon  BY <2>i, <1>6, <2>7 DEF Spawned
      <3>2. Wanted(i) /\ mode = "running" /\ sgen[s] = gen[i]  BY <2>7 DEF MayConnect, Wanted
      <3>3. discon[s] = "no" /\ Followed(queue[i], gen[i])
        BY <1>a, <2>1, <2>2, <2>7, <3>2 DEF BotOK, Kept
      <3>4. Kept(i)'  BY <1>a, <2>2, <2>7, <3>1, <3>2, <3>3 DEF Kept, Served
      <3>5. BotOK(i)'  BY <2>1, <2>2, <3>4 DEF BotOK, Older, Turn, Ends
      <3> QED  BY <2>6, <3>5 DEF ServedInv
    <2>8. CASE ~(MayConnect(i, sgen[s]) /\ attached[i] = s)
      <3>1. conn' = conn  BY <2>i, <1>6, <2>8 DEF Spawned
      <3>2. attached[i] = s => ~(mode = "running" /\ Wanted(i) /\ sgen[s] = gen[i])
        BY <2>8 DEF MayConnect, Wanted
      <3>3. attached[i] # s /\ attached[i] # NoSession => attached[i] \in Sessions \ {s}  BY <1>a, <2>1
      <3>4. BotOK(i)'  BY <2>1, <2>2, <2>4, <3>1, <3>2, <3>3, SameBot
      <3> QED  BY <2>6, <3>4 DEF ServedInv
    <2> QED  BY <2>7, <2>8
  <1> QED  BY <1>1, <1>2, <1>3, <1>5, <1>6 DEF SessionEvent, ConnectSettles

LEMMA ProcessServed ==
  ASSUME TypeInv, ServedInv, BeginShutdown \/ Drained \/ Exit \/ Restart
  PROVE  ServedInv'
  <1> SUFFICES ASSUME NEW i \in Ids PROVE BotOK(i)'  BY DEF ServedInv
  <1>a. BotOK(i) /\ queue[i] \in Seq(Operation) /\ gen[i] \in Nat  BY Typed DEF ServedInv
  <1>b. \A s \in Sessions : sgen[s] \in Nat  BY Typed
  <1>1. CASE BeginShutdown
    <2>1. /\ UNCHANGED <<life, desired, attached, handled, queue, stage, sgen>> /\ mode' # "running"
          /\ gen'[i] \in Nat /\ gen[i] <= gen'[i] /\ timer'[i] \in {0, timer[i]}
      BY <1>1, <1>a DEF BeginShutdown, storeVars, chainVars, sessionVars
    <2>2. Ordered(queue'[i], gen'[i])  BY <1>a, <2>1, OrderedMore DEF BotOK
    <2>3. timer'[i] <= gen'[i]  BY <1>a, <2>1, Typed DEF BotOK
    <2>4. Older(i)'
      <3>1. attached[i] # NoSession => sgen[attached[i]] \in Nat  BY <1>b, Typed
      <3> QED  BY <1>a, <2>1, <3>1 DEF BotOK, Older
    <2> QED  BY <1>a, <2>1, <2>2, <2>3, <2>4 DEF BotOK, Turn, Ends
  <1>2. CASE Drained
    <2>1. /\ UNCHANGED <<life, desired, gen, queue, stage>> /\ mode' # "running"
          /\ attached'[i] = NoSession /\ timer'[i] = 0
      BY <1>2 DEF Drained, NoEntries, storeVars, chainVars
    <2> QED  BY <1>a, <2>1 DEF BotOK, Older, Turn, Ends
  <1>3. CASE Exit
    <2>1. UNCHANGED <<life, desired, gen, attached, timer, handled, queue, stage, sgen>> /\ mode' # "running"
      BY <1>3 DEF Exit, storeVars, entryVars, chainVars
    <2> QED  BY <1>a, <2>1 DEF BotOK, Older, Turn, Ends
  <1>4. CASE Restart
    <2>1. PICK f \in [Ids -> Sessions \cup {NoSession}] : RestartSessions(f)  BY <1>4 DEF Restart
    <2>2. /\ gen'[i] = (IF Wanted(i) THEN 1 ELSE 0) /\ timer'[i] = 0 /\ handled'[i] = 0
          /\ queue'[i] = <<>> /\ stage'[i] = "idle" /\ UNCHANGED <<life, desired>>
          /\ \A s \in Sessions : discon'[s] = "no"
      BY <1>4 DEF Restart, storeVars
    <2>3. /\ attached'[i] = f[i]
          /\ (f[i] # NoSession) <=> Wanted(i)
          /\ f[i] # NoSession => sgen'[f[i]] = 1 /\ phase'[f[i]] \in Open
      BY <2>1 DEF RestartSessions, Open
    <2>4. \A g : Ordered(<<>>, g) /\ Newer(<<>>, g) /\ Followed(<<>>, g)
      BY DEF Ordered, Newer, Followed
    <2>5. Older(i)'
      <3>1. SUFFICES ASSUME f[i] # NoSession
                     PROVE  sgen'[f[i]] = 1 /\ gen'[i] = 1 /\ handled'[i] = 0 /\ queue'[i] = <<>>
        BY <2>3, <2>4 DEF Older
      <3> QED  BY <2>2, <2>3, <3>1
    <2>6. Wanted(i) => Kept(i)'  BY <2>2, <2>3, <2>4 DEF Kept, Served
    <2>7. Wanted(i)' = Wanted(i)  BY <2>2 DEF Wanted, Live
    <2> QED  BY <1>a, <2>2, <2>4, <2>5, <2>6, <2>7 DEF BotOK
  <1> QED  BY <1>1, <1>2, <1>3, <1>4

LEMMA ServedInvariant == Spec => [](TypeInv /\ TransportInv /\ ServedInv)
  <1>1. Init => ServedInv
    <2>1. \A g : Ordered(<<>>, g)  BY DEF Ordered
    <2>2. SUFFICES ASSUME Init, NEW i \in Ids PROVE BotOK(i)  BY DEF ServedInv
    <2>3. /\ timer[i] = 0 /\ gen[i] = 0 /\ queue[i] = <<>> /\ stage[i] = "idle"
          /\ attached[i] = NoSession /\ desired[i] = FALSE
      BY <2>2 DEF Init
    <2> QED  BY <2>1, <2>3 DEF BotOK, Older, Wanted
  <1>2. ASSUME TypeInv, TransportInv, ServedInv, [Next]_vars PROVE ServedInv'
    <2>1. CASE UNCHANGED vars
      <3>1. UNCHANGED <<life, desired, gen, conn, attached, timer, handled, queue, stage, phase, sgen, discon, mode>>
        BY <2>1 DEF vars, storeVars, entryVars, chainVars, sessionVars, procVars
      <3> QED  BY <1>2, <3>1, SameBot DEF ServedInv
    <2>2. CASE Next
      BY <1>2, <2>2, CommandServed, SegmentServed, SessionServed, ProcessServed DEF Next
    <2> QED  BY <1>2, <2>1, <2>2
  <1> QED  BY <1>1, <1>2, TransportInvariant, PTL DEF Spec

(* A Bot that is wanted online and not reported failed is never abandoned: *)
(* a timer, an operation or an open session of its current generation is   *)
(* there, whatever commands, losses and failed disconnects interleave.     *)
THEOREM WantedIsServedAlways == Spec => []WantedIsServed
  <1>1. ServedInv => WantedIsServed
    BY DEF ServedInv, BotOK, Kept, Served, WantedIsServed, WillConnect, Dials, Dialing
  <1> QED  BY <1>1, ServedInvariant, PTL

-----------------------------------------------------------------------------
(* Losses are counted once and forgetting is final.  Both rest on what a   *)
(* session may still report: nothing once it has been counted or its Bot   *)
(* is gone, and nothing that counts once the runtime stops.                *)
Heard(s) == phase[s] \in Open \/ late[s]

HeardInTime == \A s \in Sessions : Heard(s) =>
  /\ sgen[s] <= gen[owner[s]]
  /\ mode # "running" /\ Live(owner[s]) => sgen[s] < gen[owner[s]]

OverIsIdle == mode \in {"closing", "stopped"} => \A i \in Ids : queue[i] = <<>> /\ timer[i] = 0

(* The rejection of connect() arrives before anything else can happen.     *)
LateIsCounted == \A s \in Sessions : late[s] =>
  /\ ~Counts(owner[s], sgen[s], s)
  /\ \A i \in Ids : queue[i] = <<>> \/ stage[i] \in {"closing", "delay"}

GoneIsIdle == \A i \in Ids : life[i] = "gone" =>
  /\ conn[i] = "none" /\ timer[i] = 0 /\ attached[i] = NoSession /\ stage[i] = "idle"
  /\ \A s \in Sessions : owner[s] = i => phase[s] \notin Open

CountInv == HeardInTime /\ OverIsIdle /\ LateIsCounted /\ GoneIsIdle

LEMMA Ranges ==
  ASSUME TypeInv
  PROVE  /\ life \in [Ids -> {"fresh", "live", "gone"}] /\ gen \in [Ids -> Nat]
         /\ conn \in [Ids -> Active \cup {"none", "offline", "failed"}]
         /\ attached \in [Ids -> Sessions \cup {NoSession}] /\ timer \in [Ids -> Nat]
         /\ handled \in [Ids -> Nat] /\ attempt \in [Ids -> Nat] /\ queue \in [Ids -> Seq(Operation)]
         /\ stage \in [Ids -> {"idle", "closing", "closed", "closefailed", "delay"}]
         /\ phase \in [Sessions -> Open \cup {"unused", "closed"}]
         /\ owner \in [Sessions -> Ids \cup {NoId}] /\ sgen \in [Sessions -> Nat]
         /\ discon \in [Sessions -> {"no", "pending", "settled"}] /\ late \in [Sessions -> BOOLEAN]
         /\ NoSession \notin Sessions
         /\ \A s \in Sessions : Heard(s) => owner[s] \in Ids
  BY ConstantsAssumption
  DEF TypeInv, StoreOK, EntryOK, ChainInv, ChainOK, SessionInv, SessionOK, Heard

(* A step that opens no session, keeps gens from falling, and does not     *)
(* bring back what is gone.                                                *)
LEMMA StillInTime ==
  ASSUME TypeInv, HeardInTime, UNCHANGED <<owner, sgen, mode>>,
         \A s \in Sessions : Heard(s)' => Heard(s),
         \A i \in Ids : gen'[i] \in Nat /\ gen[i] <= gen'[i] /\ (life'[i] = "live" => life[i] = "live" \/ mode = "running")
  PROVE  HeardInTime'
  <1> SUFFICES ASSUME NEW s \in Sessions, Heard(s)
               PROVE  /\ sgen[s] <= gen'[owner[s]]
                      /\ mode # "running" /\ life'[owner[s]] = "live" => sgen[s] < gen'[owner[s]]
    BY DEF HeardInTime, Live
  <1>1. sgen[s] \in Nat /\ owner[s] \in Ids /\ gen[owner[s]] \in Nat  BY Ranges
  <1> QED  BY <1>1 DEF HeardInTime, Live

LEMMA AdvanceQuiet ==
  ASSUME TypeInv, LateIsCounted, NEW i \in Ids, Advance(i)
  PROVE  \A s \in Sessions : ~late[s]
  <1>1. queue[i] # <<>>  BY AdvanceShape
  <1>2. Quiet \/ stage[i] \in {"idle", "closed", "closefailed"}
    BY DEF Advance, StartBegins, StartResumes, ReconnectBegins, ReconnectResumes, RenameBegins,
           RenameResumes, DespawnBegins, ForgetRuns, RetryRuns, CloseDone, CloseFailed, At
  <1> QED  BY <1>1, <1>2 DEF LateIsCounted, Quiet

LEMMA AdvanceCounts ==
  ASSUME TypeInv, TransportInv, CountInv, NEW i \in Ids, Advance(i)
  PROVE  CountInv'
  <1>1. queue[i] # <<>> /\ UNCHANGED procVars /\ Segment(i)  BY AdvanceShape
  <1>2. late' = late /\ \A s \in Sessions : ~late[s]
    BY <1>1, AdvanceQuiet
    DEF CountInv, Segment, Passes, Opens, Fails, Closes, Settles, Forgets, Detaches, sessionVars
  <1>3. LateIsCounted'  BY <1>2 DEF LateIsCounted
  <1>4. mode' = mode /\ mode \notin {"closing", "stopped"} /\ mode \in {"running", "draining"}
    BY <1>1 DEF CountInv, OverIsIdle, procVars, TypeInv, ProcOK
  <1>5. OverIsIdle'  BY <1>4 DEF OverIsIdle
  <1>6. HeardInTime'
    <2>1. \A j \in Ids : gen'[j] \in Nat /\ gen[j] <= gen'[j] /\ (life'[j] = "live" => life[j] = "live")
      BY <1>1, Ranges DEF Segment, Passes, Opens, Fails, Closes, Settles, Forgets, Detaches
    <2>2. CASE \E s \in Sessions : Opens(i, s)
      <3>1. PICK s \in Sessions : Opens(i, s)  BY <2>2
      <3>2. /\ owner' = [owner EXCEPT ![s] = i] /\ sgen' = [sgen EXCEPT ![s] = gen[i]]
            /\ phase' = [phase EXCEPT ![s] = "connecting"] /\ UNCHANGED <<life, gen, late>>
            /\ mode = "running"
        BY <3>1 DEF Opens, MayGoOn, MayConnect
      <3>3. SUFFICES ASSUME NEW t \in Sessions, Heard(t)' PROVE sgen'[t] <= gen'[owner'[t]]
        BY <1>4, <3>2 DEF HeardInTime
      <3>4. CASE t = s  BY <3>2, <3>4, Ranges
      <3>5. CASE t # s  BY <3>2, <3>3, <3>5, Ranges DEF Heard, CountInv, HeardInTime
      <3> QED  BY <3>4, <3>5
    <2>3. CASE ~\E s \in Sessions : Opens(i, s)
      <3>1. UNCHANGED <<owner, sgen, phase>>
        BY <1>1, <2>3 DEF Segment, Passes, Fails, Closes, Settles, Forgets, Detaches, sessionVars
      <3> QED  BY <1>2, <1>4, <2>1, <3>1, StillInTime DEF Heard, CountInv
    <2> QED  BY <2>2, <2>3
  <1>7. GoneIsIdle'
    <2>1. SUFFICES ASSUME NEW j \in Ids, life'[j] = "gone"
                   PROVE  /\ conn'[j] = "none" /\ timer'[j] = 0 /\ attached'[j] = NoSession /\ stage'[j] = "idle"
                          /\ \A s \in Sessions : owner'[s] = j => phase'[s] \notin Open
      BY DEF GoneIsIdle
    <2>2. CASE life[j] = "gone"
      <3>1. /\ conn[j] = "none" /\ timer[j] = 0 /\ attached[j] = NoSession /\ stage[j] = "idle"
            /\ \A s \in Sessions : owner[s] = j => phase[s] \notin Open
        BY <2>2 DEF CountInv, GoneIsIdle
      <3>2. CASE Passes(i)
        BY <2>1, <3>1, <3>2, Ranges DEF Passes, Finish, sessionVars
      <3>3. CASE \E s \in Sessions : Opens(i, s)
        <4>1. PICK s \in Sessions : Opens(i, s)  BY <3>3
        <4>2. i # j  BY <2>2, <4>1 DEF Opens, MayGoOn, MayConnect, Live
        <4> QED  BY <3>1, <4>1, <4>2, Ranges DEF Opens, Finish
      <3>4. CASE Fails(i)
        <4>1. i # j  BY <2>2, <3>1, <3>4 DEF Fails, MayGoOn, MayConnect, Live
        <4> QED  BY <3>1, <3>4, <4>1, Ranges DEF Fails, Finish, sessionVars
      <3>5. CASE Closes(i)
        <4>1. i # j  BY <3>1, <3>5 DEF Closes
        <4> QED  BY <3>1, <3>5, <4>1, Ranges DEF Closes
      <3>6. CASE Settles(i)
        <4>1. i = j => ~MayGoOn(i) /\ ~Live(i)  BY <2>2 DEF MayGoOn, MayConnect, Live
        <4>2. conn'[j] = conn[j] /\ stage'[j] = "idle"
          BY <3>1, <3>6, <4>1, Ranges DEF Settles, Finish, Wait
        <4> QED  BY <3>1, <3>6, <4>2, Ranges DEF Settles, sessionVars
      <3>7. CASE Forgets(i)
        <4>1. i # j  BY <2>2, <3>7 DEF Forgets, Live
        <4> QED  BY <3>1, <3>7, <4>1, Ranges DEF Forgets, Finish, sessionVars
      <3>8. CASE Detaches(i)
        <4>1. i # j  BY <3>1, <3>8 DEF Detaches
        <4> QED  BY <3>1, <3>8, <4>1, Ranges DEF Detaches, ClosedEntry, Finish, Wait, sessionVars
      <3> QED  BY <1>1, <3>2, <3>3, <3>4, <3>5, <3>6, <3>7, <3>8 DEF Segment
    <2>3. CASE life[j] # "gone"
      <3>1. Forgets(i) /\ i = j
        BY <1>1, <2>1, <2>3, Ranges DEF Segment, Passes, Opens, Fails, Closes, Settles, Forgets, Detaches
      <3>2. attached[i] = NoSession  BY <3>1 DEF Forgets, Forgettable
      <3>3. \A s \in Sessions : owner[s] = i => phase[s] \notin Open
        BY <1>4, <3>2, Ranges DEF TransportInv, OpenIsAttached
      <3> QED  BY <3>1, <3>2, <3>3, Ranges DEF Forgets, Finish, sessionVars
    <2> QED  BY <2>2, <2>3
  <1> QED  BY <1>3, <1>5, <1>6, <1>7 DEF CountInv

LEMMA CommandCounts ==
  ASSUME TypeInv, CountInv, NEW i \in Ids, Command(i) \/ TimerFire(i) \/ WaitExpires(i)
  PROVE  CountInv'
  <1>a. UNCHANGED <<conn, attached, handled, stage, phase, owner, sgen, late, mode>>
    BY DEF Command, SpawnNew, SpawnHalfDone, Rename, SpawnOrResume, Reconnect, Despawn, Forget,
           Input, StopInput, TimerFire, WaitExpires, entryVars, chainVars, sessionVars, procVars
  <1>1. CASE WaitExpires(i)
    <2>1. UNCHANGED <<life, gen, timer, queue>>  BY <1>1 DEF WaitExpires, storeVars, chainVars
    <2> QED
      BY <1>a, <2>1 DEF CountInv, HeardInTime, Heard, Live, OverIsIdle, LateIsCounted, Counts, GoneIsIdle
  <1>2. CASE Command(i) \/ TimerFire(i)
    <2>1. Quiet
      BY <1>2 DEF Command, SpawnNew, SpawnHalfDone, Rename, SpawnOrResume, Reconnect, Despawn, Forget,
                  Input, StopInput, TimerFire, Accepting
    <2>2. mode \notin {"closing", "stopped"}
      BY <1>2 DEF Command, SpawnNew, SpawnHalfDone, Rename, SpawnOrResume, Reconnect, Despawn, Forget,
                  Input, StopInput, TimerFire, Accepting, CountInv, OverIsIdle
    <2>3. LateIsCounted' /\ OverIsIdle'  BY <1>a, <2>1, <2>2 DEF Quiet, LateIsCounted, OverIsIdle
    <2>4. /\ \A j \in Ids : gen'[j] \in Nat /\ gen[j] <= gen'[j]
          /\ life' = life \/ (life[i] # "gone" /\ life' = [life EXCEPT ![i] = "live"] /\ mode = "running")
          /\ \A j \in Ids : timer'[j] \in {0, timer[j]}
      <3>1. CASE Command(i)
        <4>1. mode = "running"
          BY <3>1 DEF Command, SpawnNew, SpawnHalfDone, Rename, SpawnOrResume, Reconnect, Despawn, Forget,
                      Input, StopInput, Accepting
        <4>2. ASSUME NEW o \in Operation, Commands(i, o)
              PROVE  /\ \A j \in Ids : gen'[j] \in Nat /\ gen[j] <= gen'[j]
                     /\ life[i] # "gone" /\ life' = [life EXCEPT ![i] = "live"]
                     /\ \A j \in Ids : timer'[j] \in {0, timer[j]}
          <5>1. /\ gen' = [gen EXCEPT ![i] = @ + 1] /\ timer' = [timer EXCEPT ![i] = 0]
                /\ life[i] # "gone" /\ life' = [life EXCEPT ![i] = "live"]
            BY <4>2 DEF Commands, Invalidate
          <5> QED  BY <5>1, Ranges
        <4>3. CASE life' = life /\ UNCHANGED <<gen, timer>>  BY <4>3, Ranges
        <4>4. CASE life[i] = "fresh" /\ life' = [life EXCEPT ![i] = "live"] /\ UNCHANGED <<gen, timer>>
          BY <4>1, <4>4, Ranges
        <4>5. \/ \E o \in Operation : Commands(i, o)
              \/ life' = life /\ UNCHANGED <<gen, timer>>
              \/ life[i] = "fresh" /\ life' = [life EXCEPT ![i] = "live"] /\ UNCHANGED <<gen, timer>>
          BY <3>1, CommandShape DEF entryVars
        <4> QED  BY <4>1, <4>2, <4>3, <4>4, <4>5
      <3>2. CASE TimerFire(i)
        BY <3>2, Ranges DEF TimerFire, storeVars
      <3> QED  BY <1>2, <3>1, <3>2
    <2>5. HeardInTime'
      BY <1>a, <2>4, StillInTime, Ranges DEF Heard, CountInv
    <2>6. \A j \in Ids : life'[j] = "gone" => life[j] = "gone"  BY <2>4, Ranges
    <2>7. GoneIsIdle'  BY <1>a, <2>4, <2>6 DEF CountInv, GoneIsIdle
    <2> QED  BY <2>3, <2>5, <2>7 DEF CountInv
  <1> QED  BY <1>1, <1>2

(* A loss that counts is of a session that was open and attached.          *)
LEMMA LossIsOwn ==
  ASSUME TypeInv, TransportInv, CountInv, NEW s \in Sessions, Heard(s), Counts(owner[s], sgen[s], s)
  PROVE  mode = "running" /\ phase[s] \in Open /\ attached[owner[s]] = s /\ life[owner[s]] = "live"
  <1>1. owner[s] \in Ids /\ sgen[s] \in Nat /\ gen[owner[s]] \in Nat  BY Ranges
  <1>2. sgen[s] = gen[owner[s]] /\ Live(owner[s])  BY DEF Counts
  <1>3. mode = "running"  BY <1>1, <1>2 DEF CountInv, HeardInTime
  <1>4. ~late[s]  BY DEF CountInv, LateIsCounted
  <1> QED  BY <1>2, <1>3, <1>4 DEF Heard, TransportInv, OpenIsAttached, Live

(* What a report of session s leaves true, counted or not.                 *)
LEMMA ReportCounts ==
  ASSUME TypeInv, TransportInv, CountInv, NEW s \in Sessions, Heard(s),
         \/ \E notReady \in BOOLEAN : Disconnected(owner[s], sgen[s], s, notReady)
         \/ UNCHANGED entryVars,
         UNCHANGED <<life, gen, queue, owner, sgen, mode>>,
         \A t \in Sessions : (Heard(t)' => Heard(t)) /\ (phase'[t] \in Open => phase[t] \in Open),
         \A j \in Ids : stage'[j] = stage[j] \/ stage[j] = "closing"
  PROVE  HeardInTime' /\ OverIsIdle' /\ GoneIsIdle'
  <1>1. HeardInTime'  BY StillInTime, Ranges DEF CountInv
  <1>i. PICK i \in Ids : i = owner[s]  BY Ranges
  <1>g. sgen[s] \in Nat  BY Ranges
  <1>2. ASSUME UNCHANGED <<conn, attached, timer>>
        PROVE  OverIsIdle' /\ GoneIsIdle'
    <2>1. OverIsIdle'  BY <1>2 DEF CountInv, OverIsIdle
    <2>2. GoneIsIdle'  BY <1>2 DEF CountInv, GoneIsIdle
    <2> QED  BY <2>1, <2>2
  <1>3. CASE UNCHANGED entryVars  BY <1>1, <1>2, <1>3 DEF entryVars
  <1>4. ASSUME NEW notReady \in BOOLEAN, Disconnected(i, sgen[s], s, notReady)
        PROVE  OverIsIdle' /\ GoneIsIdle'
    <2>1. CASE ~Counts(i, sgen[s], s)
      <3>1. UNCHANGED entryVars  BY <1>4, <2>1 DEF Disconnected
      <3> QED  BY <1>2, <3>1 DEF entryVars
    <2>2. CASE Counts(i, sgen[s], s)
      <3>1. mode = "running" /\ life[i] = "live"  BY <1>i, <2>2, LossIsOwn
      <3>2. \A j \in Ids \ {i} : conn'[j] = conn[j] /\ attached'[j] = attached[j] /\ timer'[j] = timer[j]
        <4>1. /\ attached' = [attached EXCEPT ![i] = NoSession]
              /\ timer' = timer \/ timer' = [timer EXCEPT ![i] = sgen[s]]
              /\ conn' = [conn EXCEPT ![i] = conn'[i]]
          BY <1>4, <1>g, <2>2, LossShape
        <4> QED  BY <4>1, Ranges
      <3>3. OverIsIdle'  BY <3>1 DEF OverIsIdle
      <3>4. GoneIsIdle'
        <4>1. SUFFICES ASSUME NEW j \in Ids, life[j] = "gone"
                       PROVE  /\ conn'[j] = "none" /\ timer'[j] = 0 /\ attached'[j] = NoSession /\ stage'[j] = "idle"
                              /\ \A t \in Sessions : owner[t] = j => phase'[t] \notin Open
          BY DEF GoneIsIdle
        <4>2. j # i  BY <3>1, <4>1
        <4>3. /\ conn[j] = "none" /\ timer[j] = 0 /\ attached[j] = NoSession /\ stage[j] = "idle"
              /\ \A t \in Sessions : owner[t] = j => phase[t] \notin Open
          BY <4>1 DEF CountInv, GoneIsIdle
        <4> QED  BY <3>2, <4>2, <4>3
      <3> QED  BY <3>3, <3>4
    <2> QED  BY <2>1, <2>2
  <1> QED  BY <1>i, <1>1, <1>3, <1>4

LEMMA ClosingStage ==
  ASSUME TypeInv, NEW s \in Sessions, NEW outcome, DisconnectSettles(s, outcome)
  PROVE  /\ \A j \in Ids : stage'[j] = stage[j] \/ stage[j] = "closing"
         /\ discon[s] = "no" => stage' = stage
  <1>1. CASE Awaited(s)  BY <1>1, Ranges DEF DisconnectSettles, Awaited
  <1>2. CASE ~Awaited(s)  BY <1>2 DEF DisconnectSettles
  <1> QED  BY <1>1, <1>2

(* A loss reported once is counted, or it will never count.                *)
LEMMA ReportedOnce ==
  ASSUME TypeInv, NEW i \in Ids, NEW g \in Nat, NEW s, NEW notReady \in BOOLEAN,
         Disconnected(i, g, s, notReady), UNCHANGED <<life, gen>>
  PROVE  ~Counts(i, g, s)'
  <1>1. CASE ~Counts(i, g, s)
    BY <1>1 DEF Disconnected, Counts, Live, entryVars
  <1>2. CASE Counts(i, g, s)
    <2>1. handled'[i] = g  BY <1>2, Ranges DEF Disconnected
    <2> QED  BY <2>1 DEF Counts
  <1> QED  BY <1>1, <1>2

LEMMA SessionCounts ==
  ASSUME TypeInv, TransportInv, CountInv, NEW s \in Sessions, SessionEvent(s)
  PROVE  CountInv'
  <1>a. ASSUME TransportCloses(s)
        PROVE  /\ UNCHANGED <<life, gen, queue, owner, sgen, mode>>
               /\ phase' = [phase EXCEPT ![s] = "closed"]
               /\ \A j \in Ids : stage'[j] = stage[j] \/ stage[j] = "closing"
               /\ discon[s] = "no" => stage' = stage
    BY <1>a, ClosingStage DEF TransportCloses, storeVars, procVars
  <1>b. "closed" \notin Open  BY DEF Open
  <1>1. ASSUME NEW notReady \in BOOLEAN, NEW again \in BOOLEAN, ConnectRejected(s, notReady, again)
        PROVE  CountInv'
    <2>2. /\ Quiet /\ phase[s] \in Open /\ TransportCloses(s) /\ (again => discon[s] = "no")
          /\ Disconnected(owner[s], sgen[s], s, notReady) /\ late' = [late EXCEPT ![s] = again]
      BY <1>1 DEF ConnectRejected, Open
    <2>3. Heard(s) /\ owner[s] \in Ids /\ sgen[s] \in Nat  BY <2>2, Ranges DEF Heard
    <2>4. \A t \in Sessions : (Heard(t)' => Heard(t)) /\ (phase'[t] \in Open => phase[t] \in Open)
      BY <1>a, <1>b, <2>2, Ranges DEF Heard
    <2>5. HeardInTime' /\ OverIsIdle' /\ GoneIsIdle'  BY <1>a, <2>2, <2>3, <2>4, ReportCounts
    <2>6. LateIsCounted'
      <3>1. SUFFICES ASSUME NEW t \in Sessions, late'[t]
                     PROVE  /\ ~Counts(owner[t], sgen[t], t)'
                            /\ \A j \in Ids : queue'[j] = <<>> \/ stage'[j] \in {"closing", "delay"}
        BY DEF LateIsCounted
      <3>2. t = s /\ again  BY <2>2, <3>1, Ranges DEF Quiet
      <3>3. stage' = stage /\ queue' = queue  BY <1>a, <2>2, <3>2
      <3>4. \A j \in Ids : queue'[j] = <<>> \/ stage'[j] \in {"closing", "delay"}
        BY <2>2, <3>3 DEF Quiet
      <3>5. ~Counts(owner[s], sgen[s], s)'
        <4>i. PICK i \in Ids, g \in Nat : i = owner[s] /\ g = sgen[s]  BY <2>3
        <4>1. UNCHANGED <<life, gen, owner, sgen>>  BY <1>a, <2>2
        <4>2. ~Counts(i, g, s)'  BY <2>2, <4>i, <4>1, ReportedOnce
        <4> QED  BY <4>i, <4>1, <4>2 DEF Counts, Live
      <3> QED  BY <3>2, <3>4, <3>5
    <2> QED  BY <2>5, <2>6 DEF CountInv
  <1>2. CASE TransportLost(s)
    <2>1. /\ Quiet /\ phase[s] \in Open /\ TransportCloses(s) /\ late' = late
          /\ Disconnected(owner[s], sgen[s], s, FALSE) \/ UNCHANGED entryVars
      BY <1>2 DEF TransportLost, Open
    <2>2. \A t \in Sessions : (Heard(t)' => Heard(t)) /\ (phase'[t] \in Open => phase[t] \in Open)
      BY <1>a, <1>b, <2>1, Ranges DEF Heard
    <2>3. HeardInTime' /\ OverIsIdle' /\ GoneIsIdle'
      BY <1>a, <2>1, <2>2, ReportCounts DEF Heard
    <2>4. LateIsCounted'  BY <2>1 DEF Quiet, LateIsCounted
    <2> QED  BY <2>3, <2>4 DEF CountInv
  <1>3. CASE LateRejection(s)
    <2>1. /\ late[s] /\ late' = [late EXCEPT ![s] = FALSE]
          /\ Disconnected(owner[s], sgen[s], s, FALSE)
          /\ UNCHANGED <<life, gen, queue, stage, owner, sgen, phase, mode>>
      BY <1>3 DEF LateRejection, storeVars, chainVars, procVars
    <2>2. UNCHANGED entryVars  BY <2>1 DEF CountInv, LateIsCounted, Disconnected
    <2>3. \A t \in Sessions : (Heard(t)' => Heard(t)) /\ (phase'[t] \in Open => phase[t] \in Open)
      BY <2>1, Ranges DEF Heard
    <2>4. HeardInTime' /\ OverIsIdle' /\ GoneIsIdle'  BY <2>1, <2>3, ReportCounts DEF Heard
    <2>5. LateIsCounted'
      <3>1. \A t \in Sessions : late'[t] => late[t]  BY <2>1, Ranges
      <3>2. UNCHANGED <<attached, handled>>  BY <2>2 DEF entryVars
      <3> QED  BY <2>1, <3>1, <3>2 DEF CountInv, LateIsCounted, Counts, Live
    <2> QED  BY <2>4, <2>5 DEF CountInv
  <1>4. CASE DisconnectFails(s)
    <2>1. /\ Quiet /\ phase[s] \in Open /\ DisconnectSettles(s, "closefailed") /\ UNCHANGED entryVars
          /\ UNCHANGED <<life, gen, queue, owner, sgen, mode, phase, late>>
      BY <1>4 DEF DisconnectFails, storeVars, procVars
    <2>2. \A t \in Sessions : (Heard(t)' => Heard(t)) /\ (phase'[t] \in Open => phase[t] \in Open)
      BY <2>1 DEF Heard
    <2>3. HeardInTime' /\ OverIsIdle' /\ GoneIsIdle'
      BY <2>1, <2>2, ClosingStage, ReportCounts DEF Heard
    <2>4. LateIsCounted'  BY <2>1 DEF Quiet, LateIsCounted
    <2> QED  BY <2>3, <2>4 DEF CountInv
  <1>5. CASE Spawned(s)
    <2>1. /\ Quiet /\ phase[s] \in Open /\ phase' = [phase EXCEPT ![s] = "up"]
          /\ UNCHANGED <<life, gen, queue, stage, owner, sgen, mode, late, timer, attached>>
      BY <1>5 DEF Spawned, storeVars, chainVars, procVars, Open
    <2>2. \A t \in Sessions : (Heard(t)' => Heard(t)) /\ (phase'[t] \in Open => phase[t] \in Open)
      BY <2>1, Ranges DEF Heard
    <2>3. HeardInTime'  BY <2>1, <2>2, StillInTime, Ranges DEF CountInv
    <2>4. OverIsIdle' /\ LateIsCounted'  BY <2>1 DEF CountInv, OverIsIdle, Quiet, LateIsCounted
    <2>5. \A j \in Ids : life[j] = "gone" => conn'[j] = conn[j]
      BY <1>5, Ranges DEF Spawned, MayConnect, Live
    <2>6. GoneIsIdle'  BY <2>1, <2>2, <2>5 DEF CountInv, GoneIsIdle
    <2> QED  BY <2>3, <2>4, <2>6 DEF CountInv
  <1> QED  BY <1>1, <1>2, <1>3, <1>4, <1>5 DEF SessionEvent, ConnectSettles

LEMMA ProcessCounts ==
  ASSUME TypeInv, CountInv, BeginShutdown \/ Drained \/ Exit \/ Restart
  PROVE  CountInv'
  <1>1. CASE BeginShutdown
    <2>1. /\ Quiet /\ mode' = "draining" /\ UNCHANGED <<life, conn, attached, stage, phase, owner, sgen, late>>
          /\ gen' = [i \in Ids |-> IF Live(i) THEN gen[i] + 1 ELSE gen[i]]
          /\ timer' = [i \in Ids |-> IF Live(i) THEN 0 ELSE timer[i]]
      BY <1>1 DEF BeginShutdown, storeVars, chainVars, sessionVars
    <2>2. HeardInTime'
      <3>1. SUFFICES ASSUME NEW s \in Sessions, Heard(s)
                     PROVE  sgen[s] <= gen'[owner[s]] /\ (life[owner[s]] = "live" => sgen[s] < gen'[owner[s]])
        BY <2>1 DEF HeardInTime, Heard, Live
      <3>2. sgen[s] \in Nat /\ owner[s] \in Ids /\ gen[owner[s]] \in Nat /\ sgen[s] <= gen[owner[s]]
        BY <3>1, Ranges DEF CountInv, HeardInTime
      <3> QED  BY <2>1, <3>2 DEF Live
    <2>3. OverIsIdle' /\ LateIsCounted'  BY <2>1 DEF OverIsIdle, LateIsCounted, Quiet
    <2>4. GoneIsIdle'  BY <2>1 DEF CountInv, GoneIsIdle, Live
    <2> QED  BY <2>2, <2>3, <2>4 DEF CountInv
  <1>2. CASE Drained
    <2>1. /\ mode = "draining" /\ mode' = "closing" /\ \A i \in Ids : queue[i] = <<>>
          /\ UNCHANGED <<life, gen, queue, stage, phase, owner, sgen, late>>
          /\ \A i \in Ids : conn'[i] = "none" /\ attached'[i] = NoSession /\ timer'[i] = 0
      BY <1>2 DEF Drained, NoEntries, storeVars, chainVars
    <2>2. HeardInTime'  BY <2>1 DEF CountInv, HeardInTime, Heard, Live
    <2>3. LateIsCounted'
      <3>1. SUFFICES ASSUME NEW s \in Sessions, late[s] PROVE ~Counts(owner[s], sgen[s], s)'
        BY <2>1 DEF LateIsCounted
      <3>2. Heard(s) /\ owner[s] \in Ids /\ sgen[s] \in Nat /\ gen[owner[s]] \in Nat
        BY <3>1, Ranges DEF Heard
      <3>3. life[owner[s]] = "live" => sgen[s] < gen[owner[s]]
        BY <2>1, <3>2 DEF CountInv, HeardInTime, Live
      <3> QED  BY <2>1, <3>2, <3>3 DEF Counts, Live
    <2>4. OverIsIdle' /\ GoneIsIdle'  BY <2>1 DEF CountInv, OverIsIdle, GoneIsIdle
    <2> QED  BY <2>2, <2>3, <2>4 DEF CountInv
  <1>3. CASE Exit
    <2>1. /\ mode = "closing" /\ mode' = "stopped" /\ \A s \in Sessions : phase'[s] \notin Open /\ ~late'[s]
          /\ UNCHANGED <<life, conn, attached, timer, queue, stage>>
      BY <1>3 DEF Exit, storeVars, entryVars, chainVars, Open
    <2> QED  BY <2>1 DEF CountInv, HeardInTime, Heard, OverIsIdle, LateIsCounted, GoneIsIdle
  <1>4. CASE Restart
    <2>1. PICK f \in [Ids -> Sessions \cup {NoSession}] : RestartSessions(f)  BY <1>4 DEF Restart
    <2>2. /\ mode' = "running" /\ life' = life
          /\ \A i \in Ids : /\ gen'[i] = (IF Wanted(i) THEN 1 ELSE 0) /\ timer'[i] = 0 /\ stage'[i] = "idle"
                            /\ conn'[i] = (IF Wanted(i) THEN "reconnecting" ELSE "none")
          /\ \A s \in Sessions : ~late'[s]
      BY <1>4 DEF Restart, storeVars
    <2>3. /\ attached' = f /\ \A i \in Ids : (f[i] # NoSession) <=> Wanted(i)
          /\ \A s \in Sessions : phase'[s] \in Open => (\E i \in Ids : f[i] = s) /\ sgen'[s] = 1
      BY <2>1 DEF RestartSessions, Open
    <2>4. \A s \in Sessions : phase'[s] \in Open => owner'[s] \in Ids /\ f[owner'[s]] = s
      <3>1. SUFFICES ASSUME NEW s \in Sessions, \E i \in Ids : f[i] = s
                     PROVE  owner'[s] \in Ids /\ f[owner'[s]] = s
        BY <2>3
      <3>2. owner'[s] = CHOOSE i \in Ids : f[i] = s  BY <2>1, <3>1 DEF RestartSessions
      <3> QED  BY <3>1, <3>2
    <2>5. \A s \in Sessions : phase'[s] \in Open => Wanted(owner'[s])  BY <2>3, <2>4, Ranges
    <2>6. HeardInTime'  BY <2>2, <2>3, <2>4, <2>5 DEF HeardInTime, Heard
    <2>7. OverIsIdle' /\ LateIsCounted'  BY <2>2 DEF OverIsIdle, LateIsCounted
    <2>8. GoneIsIdle'
      <3>1. \A i \in Ids : life'[i] = "gone" => ~Wanted(i)  BY <2>2 DEF Wanted, Live
      <3> QED  BY <2>2, <2>3, <2>5, <3>1 DEF GoneIsIdle
    <2> QED  BY <2>6, <2>7, <2>8 DEF CountInv
  <1> QED  BY <1>1, <1>2, <1>3, <1>4

LEMMA CountInvariant == Spec => [](TypeInv /\ TransportInv /\ CountInv)
  <1>1. Init => CountInv
    BY DEF Init, CountInv, HeardInTime, Heard, Open, OverIsIdle, LateIsCounted, GoneIsIdle
  <1>2. ASSUME TypeInv, TransportInv, CountInv, [Next]_vars PROVE CountInv'
    <2>1. CASE UNCHANGED vars
      <3>1. UNCHANGED <<life, gen, conn, attached, timer, handled, queue, stage, phase, owner, sgen, late, mode>>
        BY <2>1 DEF vars, storeVars, entryVars, chainVars, sessionVars, procVars
      <3> QED
        BY <1>2, <3>1 DEF CountInv, HeardInTime, Heard, Live, OverIsIdle, LateIsCounted, Counts, GoneIsIdle
    <2>2. CASE Next
      BY <1>2, <2>2, CommandCounts, AdvanceCounts, SessionCounts, ProcessCounts DEF Next
    <2> QED  BY <1>2, <2>1, <2>2
  <1> QED  BY <1>1, <1>2, TransportInvariant, PTL DEF Spec

(* A forgotten Bot leaves no entry, timer or open transport behind: the    *)
(* conditions forget reads in its turn cannot be undone by a loss, a late  *)
(* rejection or a retry that comes afterwards.                             *)
THEOREM ForgottenStaysGone == Spec => []ForgottenIsGone
  <1>1. CountInv => ForgottenIsGone  BY DEF CountInv, GoneIsIdle, ForgottenIsGone
  <1> QED  BY <1>1, CountInvariant, PTL

(* Nothing but a loss adds to the count of attempts.                       *)
Uncounted(i) == attempt' = attempt \/ attempt' = [attempt EXCEPT ![i] = 0]

LEMMA AdvanceUncounted ==
  ASSUME NEW i \in Ids, Advance(i)
  PROVE  Uncounted(i)
  <1>1. CASE StartBegins(i) \/ StartResumes(i)
    BY <1>1 DEF StartBegins, StartResumes, Skip, ResetRetryBudget, entryVars, Uncounted
  <1>2. CASE ReconnectBegins(i) \/ ReconnectResumes(i)
    BY <1>2 DEF ReconnectBegins, ReconnectResumes, Skip, ResetRetryBudget, entryVars, Uncounted
  <1>3. CASE RenameBegins(i) \/ RenameResumes(i)
    BY <1>3 DEF RenameBegins, RenameResumes, Skip, ResetRetryBudget, entryVars, Uncounted
  <1>4. CASE DespawnBegins(i)  BY <1>4 DEF DespawnBegins, Uncounted
  <1>5. CASE ForgetRuns(i)  BY <1>5 DEF ForgetRuns, entryVars, Uncounted
  <1>6. CASE RetryRuns(i)  BY <1>6 DEF RetryRuns, Skip, entryVars, Uncounted
  <1>7. CASE CloseDone(i) \/ CloseFailed(i)  BY <1>7 DEF CloseDone, CloseFailed, Uncounted
  <1> QED  BY <1>1, <1>2, <1>3, <1>4, <1>5, <1>6, <1>7 DEF Advance

LEMMA CommandUncounted ==
  ASSUME NEW i \in Ids, Command(i) \/ TimerFire(i) \/ WaitExpires(i)
  PROVE  Uncounted(i)
  BY DEF Command, SpawnNew, SpawnHalfDone, Rename, SpawnOrResume, Reconnect, Despawn, Forget,
         Input, StopInput, TimerFire, WaitExpires, entryVars, Uncounted

(* A report that adds to the count is of the open session attached.        *)
LEMMA ReportAdds ==
  ASSUME TypeInv, TransportInv, CountInv, NEW s \in Sessions, Heard(s), NEW notReady \in BOOLEAN,
         Disconnected(owner[s], sgen[s], s, notReady), NEW i \in Ids, attempt'[i] > attempt[i]
  PROVE  attached[i] # NoSession /\ phase[attached[i]] \in Open
  <1>i. PICK j \in Ids : j = owner[s]  BY Ranges
  <1>1. attempt[i] \in Nat /\ s # NoSession  BY Ranges
  <1>2. attempt' # attempt  BY <1>1
  <1>3. Counts(j, sgen[s], s) /\ desired[j] /\ CountLoss(j, sgen[s], notReady)
    BY <1>i, <1>2 DEF Disconnected, entryVars
  <1>4. attempt' = [attempt EXCEPT ![j] = @ + 1]  BY <1>2, <1>3 DEF CountLoss
  <1>5. i = j  BY <1>1, <1>4, Ranges
  <1> QED  BY <1>i, <1>1, <1>3, <1>5, LossIsOwn

LEMMA SessionAdds ==
  ASSUME TypeInv, TransportInv, CountInv, NEW s \in Sessions, SessionEvent(s),
         NEW i \in Ids, attempt'[i] > attempt[i]
  PROVE  attached[i] # NoSession /\ phase[attached[i]] \in Open
  <1>1. attempt[i] \in Nat  BY Ranges
  <1>2. attempt' # attempt  BY <1>1
  <1>3. CASE \E notReady, again \in BOOLEAN : ConnectRejected(s, notReady, again)
    <2>1. Heard(s) /\ \E notReady \in BOOLEAN : Disconnected(owner[s], sgen[s], s, notReady)
      BY <1>3 DEF ConnectRejected, Heard, Open
    <2> QED  BY <2>1, ReportAdds
  <1>4. CASE LateRejection(s)
    <2>1. Heard(s) /\ Disconnected(owner[s], sgen[s], s, FALSE)  BY <1>4 DEF LateRejection, Heard
    <2> QED  BY <2>1, ReportAdds
  <1>5. CASE TransportLost(s)
    <2>1. Heard(s) /\ Disconnected(owner[s], sgen[s], s, FALSE)
      BY <1>2, <1>5 DEF TransportLost, Heard, Open, entryVars
    <2> QED  BY <2>1, ReportAdds
  <1>6. CASE DisconnectFails(s)  BY <1>2, <1>6 DEF DisconnectFails, entryVars
  <1>7. CASE Spawned(s)
    <2>1. attempt' = [attempt EXCEPT ![owner[s]] = 0] \/ attempt' = attempt  BY <1>7 DEF Spawned
    <2>2. attempt'[i] \in {0, attempt[i]}  BY <2>1, Ranges
    <2> QED  BY <1>1, <2>2
  <1> QED  BY <1>3, <1>4, <1>5, <1>6, <1>7 DEF SessionEvent, ConnectSettles

(* A loss counts once: what adds to a Bot's attempts is the loss of the    *)
(* session it holds open, never the second report of one or the report of  *)
(* a session that was replaced.                                            *)
THEOREM LossesCountOnce == Spec => OneCountPerLoss
  <1>1. ASSUME TypeInv, TransportInv, CountInv, Next, NEW i \in Ids, attempt'[i] > attempt[i]
        PROVE  attached[i] # NoSession /\ phase[attached[i]] \in Open
    <2>1. attempt[i] \in Nat /\ attempt \in [Ids -> Nat]  BY <1>1, Ranges
    <2>2. ASSUME NEW j \in Ids, Uncounted(j) PROVE FALSE
      <3>1. attempt'[i] \in {0, attempt[i]}  BY <2>1, <2>2 DEF Uncounted
      <3> QED  BY <1>1, <2>1, <3>1
    <2>3. CASE \E j \in Ids : Command(j) \/ Advance(j) \/ TimerFire(j) \/ WaitExpires(j)
      BY <2>2, <2>3, CommandUncounted, AdvanceUncounted
    <2>4. CASE \E s \in Sessions : SessionEvent(s)  BY <1>1, <2>4, SessionAdds
    <2>5. CASE BeginShutdown \/ Drained \/ Exit \/ Restart
      <3>1. attempt' = attempt \/ attempt' = [j \in Ids |-> 0]
        BY <2>5 DEF BeginShutdown, Drained, NoEntries, Exit, Restart, entryVars
      <3>2. attempt'[i] \in {0, attempt[i]}  BY <3>1
      <3> QED  BY <1>1, <2>1, <3>2
    <2> QED  BY <1>1, <2>3, <2>4, <2>5 DEF Next
  <1>2. TypeInv /\ TransportInv /\ CountInv /\ [Next]_vars
          => [\A i \in Ids : attempt'[i] > attempt[i] =>
                attached[i] # NoSession /\ phase[attached[i]] \in Open]_vars
    BY <1>1
  <1> QED  BY <1>2, CountInvariant, PTL DEF Spec, OneCountPerLoss
=============================================================================
