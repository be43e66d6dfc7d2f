--------------------------- MODULE ScriptsProofs ----------------------------
(***************************************************************************)
(* Proofs about Scripts and the runs of ScriptRuns, for any players, Bots, *)
(* scripts and limits: the slots, what a run acts on, and what a form's    *)
(* submission changes; and about ScriptInputs: what a cleanup stops, and   *)
(* that no input of a script is left without someone to stop it.           *)
(***************************************************************************)
EXTENDS Scripts, ScriptInputs, FiniteSetTheorems, SequenceTheorems, WellFoundedInduction, TLAPS

(***************************************************************************)
(* The scripts.  A revision is given to one source only, so a form that    *)
(* shows the revision there is now shows the source there is now.          *)
(***************************************************************************)
StoreTypes ==
  /\ stored \in [Names -> Stored \cup {None}] /\ revs \in Nat
  /\ files \in [Names -> Bodies \cup {None}] /\ folder \in [Names -> Bodies \cup {None}]
  /\ book \in Bodies \cup {None} /\ bot \in [BotNames -> 0..2]

RevisionsApart ==
  \A n, m \in Names : stored[n] # None /\ stored[m] # None =>
    stored[n].rev <= revs /\ (stored[n].rev = stored[m].rev => n = m)

FormKnown(f) ==
  /\ f.kind = "run" => f.target \in BotNames \X (0..2)
  /\ f.rev \in Nat => f.rev <= revs
  /\ \A n \in Names : stored[n] # None /\ stored[n].rev = f.rev => f.src = stored[n].src

FormsKnown == \A f \in forms : FormKnown(f)

(* A save on its way has the revision its form showed, and an import that  *)
(* replaces a script the writing its form showed.                          *)
ReloadJob == [op: {"reload"}, by: Senders, name: Names \cup {None},
              load: [Names -> Bodies \cup {None}], todo: SUBSET Names]

JobKnown ==
  job # None =>
    /\ job.op \in {"save", "fill"} => job.src \in Source
    /\ job.op \in {"form", "start"} => job.by \in Senders /\ job.name \in Names /\ Exists(job.name)
    /\ job.op = "reload" => job \in ReloadJob
    /\ job.op = "save" =>
         /\ job.by \in Senders /\ job.name \in Names /\ job.form \in forms \cup {None}
         /\ job.form # None /\ job.rev # None =>
              job.form.rev = job.rev /\ (job.form.kind = "import" => job.src.body = job.form.book)

StoreInv == StoreTypes /\ RevisionsApart /\ FormsKnown /\ JobKnown

(* What a step may do to a stored script, and what it was submitted from.  *)
Shown(n, form) ==
  form # None /\ stored[n] # None => form.rev = stored[n].rev /\ form.src = stored[n].src

SaveStep ==
  \E n \in Names, src \in Source, by \in Senders \cup {None} :
    /\ (\E expected : Save(n, src, expected, by)) /\ Shown(n, from')
    /\ from' # None /\ from'.kind = "import" /\ stored[n] # None => src.body = from'.book

DeleteStep == \E n \in Names : Put(n, None) /\ UNCHANGED revs /\ Shown(n, from')

ChangeStep ==
  \E n \in Names, v \in Stored :
    /\ stored[n] # None /\ v.rev = stored[n].rev /\ v.src = stored[n].src
    /\ Put(n, v) /\ UNCHANGED revs /\ Shown(n, from')

RenameStep ==
  \E n, new \in Names :
    /\ stored[n] # None /\ stored[new] = None
    /\ stored' = [stored EXCEPT ![n] = None, ![new] = stored[n]]
    /\ UNCHANGED revs /\ Shown(n, from')

StoreStep == UNCHANGED <<stored, revs>> \/ SaveStep \/ DeleteStep \/ ChangeStep \/ RenameStep

-----------------------------------------------------------------------------
LEMMA ScriptKnown ==
  ASSUME StoreTypes, NEW n \in Names, Exists(n)
  PROVE  /\ Script(n).src \in Source
         /\ stored[n] # None => stored[n] \in Stored /\ Script(n) = stored[n]
         /\ stored[n] = None => Script(n).rev \in Bodies
  <1>1. CASE stored[n] # None  BY <1>1 DEF StoreTypes, Script, Stored
  <1>2. CASE stored[n] = None
    <2>1. files[n] \in Bodies /\ Script(n) = FileScript(files[n])
      BY <1>2 DEF StoreTypes, Script, Exists
    <2> QED  BY <1>2, <2>1 DEF FileScript, Source
  <1> QED  BY <1>1, <1>2

LEMMA SameIsShown ==
  ASSUME StoreInv, NEW n \in Names, NEW form \in forms \cup {None}, Same(form, n)
  PROVE  Shown(n, form)
  BY DEF StoreInv, FormsKnown, FormKnown, Same, Shown, Script

LEMMA NewFormKnown ==
  ASSUME StoreInv, NEW by, NEW kind, NEW n, n = None \/ (n \in Names /\ Exists(n)), NEW showed,
         NEW target, kind = "run" => target \in BotNames \X (0..2)
  PROVE  FormKnown(NewForm(by, kind, n, showed, target))
  <1> DEFINE f == NewForm(by, kind, n, showed, target)
  <1>1. /\ f.kind = kind /\ f.target = target
        /\ f.rev = IF n = None THEN None ELSE Script(n).rev
        /\ f.src = IF n = None THEN None ELSE Script(n).src
    BY DEF NewForm
  <1> HIDE DEF f
  <1>2. \A m \in Names : stored[m] # None => stored[m].rev \in Nat
    BY DEF StoreInv, StoreTypes, Stored
  <1>3. ASSUME n = None PROVE FormKnown(f)
    BY <1>1, <1>2, <1>3, ScriptConstants DEF FormKnown, Revision
  <1>4. ASSUME n # None /\ stored[n] # None PROVE FormKnown(f)
    <2>1. Script(n) = stored[n]  BY <1>4 DEF Script
    <2>2. \A m \in Names : stored[m] # None =>
            stored[n].rev <= revs /\ (stored[n].rev = stored[m].rev => n = m)
      BY <1>4 DEF StoreInv, RevisionsApart
    <2> QED  BY <1>1, <1>4, <2>1, <2>2 DEF FormKnown
  <1>5. ASSUME n # None /\ stored[n] = None PROVE FormKnown(f)
    <2>1. Script(n).rev \in Bodies  BY <1>5, ScriptKnown DEF StoreInv
    <2>2. Script(n).rev \notin Nat  BY <2>1, ScriptConstants
    <2> QED  BY <1>1, <1>2, <1>5, <2>2 DEF FormKnown
  <1> QED  BY <1>3, <1>4, <1>5 DEF f

(* save keeps the source it replaces in front of the history.              *)
LEMMA RevisedKnown ==
  ASSUME NEW s \in Stored, NEW src \in Source, NEW by \in Senders \cup {None}, revs \in Nat
  PROVE  /\ Revised(s, src, by) \in Stored
         /\ Revised(s, src, by).rev = revs + 1 /\ Revised(s, src, by).src = src
         /\ Revised(s, src, by).hist # <<>> /\ Revised(s, src, by).hist[1] = s.src
  <1> DEFINE old == <<s.src>> \o s.hist
             most == IF Len(s.hist) < History THEN Len(s.hist) + 1 ELSE History
             kept == SubSeq(old, 1, most)
             who == IF s.owner = None THEN by ELSE s.owner
  <1>1. s.src \in Source /\ s.hist \in Seq(Source) /\ s.owner \in Senders \cup {None}
        /\ s.shared \in BOOLEAN
    BY DEF Stored
  <1>2. old \in Seq(Source) /\ Len(old) = Len(s.hist) + 1 /\ old[1] = s.src
    BY <1>1, ConcatProperties
  <1>3. most \in 1..Len(old)  BY <1>1, <1>2, ScriptConstants
  <1>4. kept \in Seq(Source) /\ Len(kept) = most /\ kept[1] = old[1]
    BY <1>2, <1>3, SubSeqProperties
  <1>5. kept # <<>> /\ kept[1] = s.src  BY <1>2, <1>3, <1>4
  <1>6. who \in Senders \cup {None}  BY <1>1
  <1> HIDE DEF old, most, kept, who
  <1>7. Revised(s, src, by) = [s EXCEPT !.src = src, !.rev = revs + 1, !.owner = who, !.hist = kept]
    BY DEF Revised, old, most, kept, who
  <1>8. revs + 1 \in Nat  OBVIOUS
  <1> DEFINE n == revs + 1
  <1> HIDE DEF n
  <1>9. /\ [s EXCEPT !.src = src, !.rev = n, !.owner = who, !.hist = kept] \in Stored
        /\ [s EXCEPT !.src = src, !.rev = n, !.owner = who, !.hist = kept].rev = n
        /\ [s EXCEPT !.src = src, !.rev = n, !.owner = who, !.hist = kept].src = src
        /\ [s EXCEPT !.src = src, !.rev = n, !.owner = who, !.hist = kept].hist = kept
    <2>1. n \in Nat  BY <1>8 DEF n
    <2> HIDE DEF Source
    <2> QED  BY <1>1, <1>4, <1>6, <2>1 DEF Stored
  <1> QED  BY <1>5, <1>7, <1>9 DEF n
-----------------------------------------------------------------------------
(* What a step may do to the forms, to the worker's command and to the     *)
(* rest of the store.                                                      *)
FormsStep ==
  \/ forms' = forms
  \/ UNCHANGED <<stored, revs>> /\ \E f : FormKnown(f) /\ forms' = forms \cup {f}

JobStep ==
  \/ job' = None
  \/ job' = job /\ (job # None => UNCHANGED <<stored, files>>)
  \/ forms' = forms /\ JobKnown'

TypesStep ==
  /\ files' \in [Names -> Bodies \cup {None}] /\ folder' \in [Names -> Bodies \cup {None}]
  /\ book' \in Bodies \cup {None} /\ bot' \in [BotNames -> 0..2]

CommandStep == StoreStep /\ FormsStep /\ JobStep /\ TypesStep

LEMMA IdleStep ==
  ASSUME StoreInv, UNCHANGED <<stored, revs, files, folder, book, bot>>
  PROVE  StoreStep /\ TypesStep
  BY DEF StoreInv, StoreTypes, StoreStep, TypesStep

LEMMA EditStep ==
  ASSUME StoreInv, StoreStep, job = None, NEW n, NEW form, Edit(n, form)
  PROVE  CommandStep
  BY DEF StoreInv, StoreTypes, Edit, CommandStep, FormsStep, JobStep, TypesStep

LEMMA BeginStep ==
  ASSUME StoreInv, NEW by \in Senders, NEW n \in Names, NEW src \in Source, NEW expected,
         NEW form \in forms \cup {None}, Begin(by, n, src, expected, form),
         form # None /\ expected # None =>
           form.rev = expected /\ (form.kind = "import" => src.body = form.book)
  PROVE  CommandStep
  <1>1. UNCHANGED <<bot, storeVars>>  BY DEF Begin
  <1>2. JobKnown'
    <2> DEFINE j == [op |-> "save", by |-> by, name |-> n, src |-> src, rev |-> expected,
                     form |-> form, pages |-> None]
    <2>1. job' = j /\ forms' = forms  BY <1>1 DEF Begin, Job, storeVars
    <2>2. j.op = "save" /\ j.by = by /\ j.name = n /\ j.src = src /\ j.rev = expected /\ j.form = form
      OBVIOUS
    <2> HIDE DEF j
    <2> QED  BY <2>1, <2>2 DEF JobKnown
  <1> QED  BY <1>1, <1>2, IdleStep DEF storeVars, CommandStep, FormsStep, JobStep

LEMMA ShowsStep ==
  ASSUME StoreInv, NEW f, FormKnown(f), Shows(f),
         UNCHANGED <<stored, revs, files, folder, book, bot>>, job' = job \/ job' = None
  PROVE  CommandStep
  BY IdleStep DEF Shows, CommandStep, FormsStep, JobStep

LEMMA RunSteps ==
  ASSUME StoreInv, RunNext, UNCHANGED storeVars
  PROVE  CommandStep
  <1>1. UNCHANGED <<stored, revs, files, folder, book, forms>>  BY DEF storeVars
  <1>2. job' = job /\ bot' \in [BotNames -> 0..2]
    <2>0. bot \in [BotNames -> 0..2]  BY DEF StoreInv, StoreTypes
    <2>1. ASSUME NEW r \in RunIds, Thread(r) PROVE UNCHANGED <<job, bot>>
      BY <2>1 DEF Thread, Launch, Receive, Exited, Prepare, Throttle, Operate, Settle, Reply,
                  Close, Cleanup, Leave
    <2>2. ASSUME NEW r \in RunIds, Exit(r) \/ Read(r) \/ Late(r) \/ Watchdog(r) PROVE UNCHANGED <<job, bot>>
      BY <2>2 DEF Exit, Read, Late, Watchdog
    <2>3. ASSUME NEW r \in RunIds, NEW event \in Events, NEW at \in {"asked", "run", "over"},
                 Emit(r, event, at)
          PROVE  UNCHANGED <<job, bot>>
      BY <2>3 DEF Emit
    <2>4. ASSUME NEW by \in Senders, WebCheck(by) \/ \E r \in RunIds : Stop(by, r)
          PROVE  UNCHANGED <<job, bot>>
      BY <2>4 DEF WebCheck, Stop
    <2>5. CASE WebChecked \/ Cancel  BY <2>0, <2>5 DEF WebChecked, Cancel
    <2>6. CASE \E q \in Players : Revoke(q)  BY <2>0, <2>6 DEF Revoke
    <2>7. CASE \E n \in BotNames : Changes(n)  BY <2>0, <2>7 DEF Changes
    <2> QED  BY <2>0, <2>1, <2>2, <2>3, <2>4, <2>5, <2>6, <2>7 DEF RunNext
  <1> QED  BY <1>1, <1>2 DEF StoreInv, StoreTypes, CommandStep, StoreStep, FormsStep, JobStep, TypesStep

LEMMA SubmitSteps ==
  ASSUME StoreInv, NEW by \in Senders, Submit(by)
  PROVE  CommandStep
  <1>0. \A kind : Typed(by, kind) \subseteq forms \cup {None}  BY DEF Typed
  <1>00. StoreTypes  BY DEF StoreInv
  <1>1. ASSUME NEW kind \in {"new", "edit", "menu"}, NEW n \in Names \cup {None}, Open(by, kind, n)
        PROVE  CommandStep
    <2>1. n = None \/ (n \in Names /\ Exists(n))
      BY <1>1 DEF Open, Editable, Found
    <2>2. FormKnown(NewForm(by, kind, n, None, None))  BY <2>1, NewFormKnown
    <2>3. Shows(NewForm(by, kind, n, None, None))
          /\ UNCHANGED <<stored, revs, files, folder, book, bot, job>>
      BY <1>1 DEF Open
    <2> QED  BY <2>2, <2>3, ShowsStep
  <1>2. ASSUME NEW n \in Names, Parameters(by, n) PROVE CommandStep
    <2>1. UNCHANGED <<bot, stored, folder, files, book, forms, revs>> /\ Exists(n)
      BY <1>2 DEF Parameters, Found, storeVars
    <2> DEFINE j == [op |-> "form", by |-> by, name |-> n, src |-> None, rev |-> None,
                     form |-> None, pages |-> None]
    <2>2. job' = j  BY <1>2 DEF Parameters, Job
    <2>3. j.op = "form" /\ j.name = n /\ j.by = by  OBVIOUS
    <2> HIDE DEF j
    <2>4. JobKnown'  BY <2>1, <2>2, <2>3 DEF JobKnown, Exists
    <2> QED  BY <2>1, <2>4, IdleStep DEF CommandStep, FormsStep, JobStep
  <1>3. ASSUME NEW n \in Names, NEW src \in Edited,
               NEW form \in (Typed(by, "new") \cup Typed(by, "edit")) \ {None},
               SaveForm(by, n, src, form)
        PROVE  CommandStep
    <2>1. form \in forms /\ form.kind \in {"new", "edit"}  BY <1>3 DEF Typed
    <2>2. src \in Source  BY <1>3 DEF Edited, Source
    <2>3. Begin(by, n, src, form.rev, form)  BY <1>3 DEF SaveForm
    <2> QED  BY <2>1, <2>2, <2>3, BeginStep
  <1>4. ASSUME NEW n \in Names,
               NEW form \in Typed(by, "new") \cup Typed(by, "menu") \cup Typed(by, "import"),
               Import(by, n, form)
        PROVE  CommandStep
    <2>1. form \in forms \cup {None}  BY <1>0
    <2>2. book \in Bodies /\ by \in Senders  BY <1>4, <1>00 DEF Import, StoreTypes
    <2>3. Text(book) \in Source /\ Text(book).body = book  BY <2>2 DEF Text, Source
    <2>4. CASE ~Exists(n)
      <3>1. Begin(by, n, Text(book), None, form)  BY <1>4, <2>4 DEF Import
      <3> QED  BY <2>1, <2>2, <2>3, <3>1, BeginStep
    <2>5. CASE Exists(n) /\ form # None /\ form.kind = "menu"
      <3>1. Shows(NewForm(by, "import", n, book, None))
            /\ UNCHANGED <<stored, revs, files, folder, book, bot, job>>
        BY <1>4, <2>5 DEF Import
      <3>2. FormKnown(NewForm(by, "import", n, book, None))  BY <2>5, NewFormKnown
      <3> QED  BY <3>1, <3>2, ShowsStep
    <2>6. CASE Exists(n) /\ ~(form # None /\ form.kind = "menu")
      <3>1. /\ Begin(by, n, Text(book), Script(n).rev, form)
            /\ form # None => form.book = book /\ form.rev = Script(n).rev
        BY <1>4, <2>6 DEF Import, Same
      <3> QED  BY <2>1, <2>2, <2>3, <3>1, BeginStep
    <2> QED  BY <2>4, <2>5, <2>6
  <1>5. ASSUME NEW n \in Names, NEW form \in Typed(by, "menu") PROVE
          /\ form \in forms \cup {None} /\ (form # None => form.kind = "menu")
          /\ (Same(form, n) => Shown(n, form))
    BY <1>0, SameIsShown DEF Typed
  <1>6. ASSUME NEW n \in Names, NEW form \in Typed(by, "menu"), Delete(by, n, form) PROVE CommandStep
    <2>1. job = None /\ Edit(n, form) /\ Put(n, None) /\ UNCHANGED revs /\ Same(form, n)
      BY <1>6 DEF Delete, Editable, Found, WorkerFree
    <2>2. DeleteStep  BY <2>1, <1>5 DEF DeleteStep, Edit
    <2> QED  BY <2>1, <2>2, EditStep DEF StoreStep
  <1>7. ASSUME NEW n \in Names, NEW form \in Typed(by, "menu"), NEW new \in Names,
               Copy(by, n, new, form)
        PROVE  CommandStep
    <2>1. job = None /\ Edit(n, form) /\ Save(new, Script(n).src, None, by) /\ Exists(n) /\ ~Exists(new)
      BY <1>7 DEF Copy, Found, WorkerFree
    <2>2. stored[new] = None /\ Script(n).src \in Source
      BY <2>1, <1>00, ScriptKnown DEF Exists
    <2>3. SaveStep  BY <2>1, <2>2 DEF SaveStep, Shown
    <2> QED  BY <2>1, <2>3, EditStep DEF StoreStep
  <1>8. ASSUME NEW n \in Names, NEW form \in Typed(by, "menu"), NEW new \in Names,
               Rename(by, n, new, form)
        PROVE  CommandStep
    <2>1. /\ job = None /\ Edit(n, form) /\ Exists(n) /\ ~Exists(new) /\ CanEdit(Script(n), by) /\ Same(form, n)
          /\ stored' = [stored EXCEPT ![n] = None, ![new] = stored[n]] /\ UNCHANGED revs
      BY <1>8 DEF Rename, Editable, Found, WorkerFree
    <2>2. stored[new] = None /\ stored[n] # None
      BY <2>1 DEF Exists, CanEdit, Script, FileScript
    <2>3. RenameStep  BY <2>1, <2>2, <1>5 DEF RenameStep, Edit
    <2> QED  BY <2>1, <2>3, EditStep DEF StoreStep
  <1>9. ASSUME NEW n \in Names, NEW form \in Typed(by, "menu"), NEW shared \in BOOLEAN,
               SetVisibility(by, n, shared, form)
        PROVE  CommandStep
    <2> DEFINE v == [stored[n] EXCEPT !.shared = shared]
    <2>1. /\ job = None /\ Edit(n, form) /\ Exists(n) /\ CanEdit(Script(n), by) /\ Same(form, n)
          /\ Put(n, v) /\ UNCHANGED revs
      BY <1>9 DEF SetVisibility, Editable, Found, WorkerFree
    <2>2. stored[n] # None  BY <2>1 DEF Exists, CanEdit, Script, FileScript
    <2>3. stored[n] \in Stored  BY <1>00, <2>2 DEF StoreTypes
    <2>4. v \in Stored /\ v.rev = stored[n].rev /\ v.src = stored[n].src
      <3> HIDE DEF Source
      <3> QED  BY <2>3 DEF Stored
    <2> HIDE DEF v
    <2>5. ChangeStep  BY <2>1, <2>2, <2>4, <1>5 DEF ChangeStep, Edit
    <2> QED  BY <2>1, <2>5, EditStep DEF StoreStep
  <1>10. ASSUME NEW n \in Names, NEW form \in Typed(by, "menu"), NEW i \in 1..History,
                Restore(by, n, i, form)
         PROVE  CommandStep
    <2>1. /\ job = None /\ Edit(n, form) /\ Exists(n) /\ CanEdit(Script(n), by) /\ Same(form, n)
          /\ i \in DOMAIN stored[n].hist
          /\ Save(n, stored[n].hist[i], stored[n].rev, None)
      BY <1>10 DEF Restore, Editable, Found, WorkerFree
    <2>2. stored[n] # None  BY <2>1 DEF Exists, CanEdit, Script, FileScript
    <2>3. stored[n].hist \in Seq(Source)  BY <1>00, <2>2 DEF StoreTypes, Stored
    <2>4. stored[n].hist[i] \in Source  BY <2>1, <2>3
    <2>5. SaveStep
      <3>1. from' = form  BY <2>1 DEF Edit
      <3>2. Shown(n, form) /\ (form # None => form.kind = "menu")  BY <1>5, <2>1
      <3> DEFINE src == stored[n].hist[i]
      <3>3. src \in Source /\ Save(n, src, stored[n].rev, None)  BY <2>1, <2>4
      <3> HIDE DEF src
      <3> QED  BY <3>1, <3>2, <3>3 DEF SaveStep
    <2> QED  BY <2>1, <2>5, EditStep DEF StoreStep
  <1>11. ASSUME NEW n \in Names, NEW form, NEW over \in BOOLEAN, Export(by, n, form, over)
         PROVE  CommandStep
    <2>1. UNCHANGED <<bot, stored, folder, files, book, revs>> /\ Exists(n)
      BY <1>11 DEF Export, Found
    <2>2. CASE book # None /\ ~over
      <3>1. Shows(NewForm(by, "export", n, book, None)) /\ UNCHANGED job  BY <1>11, <2>2 DEF Export
      <3>2. FormKnown(NewForm(by, "export", n, book, None))  BY <2>1, NewFormKnown
      <3> QED  BY <2>1, <3>1, <3>2, ShowsStep
    <2>3. CASE ~(book # None /\ ~over)
      <3>1. PICK pages : Job("fill", by, n, Script(n).src, None, form, pages) /\ UNCHANGED forms
        BY <1>11, <2>3 DEF Export
      <3> DEFINE j == [op |-> "fill", by |-> by, name |-> n, src |-> Script(n).src, rev |-> None,
                       form |-> form, pages |-> pages]
      <3>2. job' = j  BY <3>1 DEF Job
      <3>3. j.op = "fill" /\ j.src = Script(n).src  OBVIOUS
      <3> HIDE DEF j
      <3>4. Script(n).src \in Source  BY <2>1, <1>00, ScriptKnown
      <3>5. JobKnown'  BY <3>2, <3>3, <3>4 DEF JobKnown
      <3> QED  BY <2>1, <3>1, <3>5, IdleStep DEF CommandStep, FormsStep, JobStep
    <2> QED  BY <2>2, <2>3
  <1>12. ASSUME NEW n \in Names, NEW form \in Typed(by, "run"), Run(by, n, form) PROVE CommandStep
    <2>1. UNCHANGED <<job, stored, folder, files, book, forms, revs, bot>>
      BY <1>12 DEF Run, Start
    <2> QED  BY <2>1, IdleStep DEF CommandStep, FormsStep, JobStep
  <1>13. CASE Reload(by)
    <2>1. UNCHANGED <<stored, folder, files, book, forms, revs, bot>>  BY <1>13 DEF Reload, storeVars
    <2> DEFINE j == [op |-> "reload", by |-> by, name |-> None, load |-> Unstored(folder),
                     todo |-> {n \in Names : Unstored(folder)[n] # None}]
    <2>2. job' = j  BY <1>13 DEF Reload
    <2>3. Unstored(folder) \in [Names -> Bodies \cup {None}]  BY <1>00 DEF StoreTypes, Unstored
    <2>4. j \in ReloadJob /\ j.op = "reload"  BY <2>3 DEF ReloadJob
    <2> HIDE DEF j
    <2>5. JobKnown'  BY <2>2, <2>4 DEF JobKnown
    <2> QED  BY <2>1, <2>5, IdleStep DEF CommandStep, FormsStep, JobStep
  <1> QED
    BY <1>1, <1>2, <1>3, <1>4, <1>6, <1>7, <1>8, <1>9, <1>10, <1>11, <1>12, <1>13 DEF Submit

LEMMA CommandSteps ==
  ASSUME StoreInv, [Next]_vars
  PROVE  CommandStep
  <1>00. StoreTypes  BY DEF StoreInv
  <1>1. CASE UNCHANGED vars
    BY <1>1, IdleStep DEF vars, runVars, storeVars, CommandStep, FormsStep, JobStep
  <1>2. CASE RunNext /\ UNCHANGED storeVars  BY <1>2, RunSteps
  <1>3. ASSUME NEW by \in Senders, Submit(by) PROVE CommandStep  BY <1>3, SubmitSteps
  <1>4. ASSUME NEW n \in Names, NEW p \in Players, SetOwner(n, p) PROVE CommandStep
    <2> DEFINE v == [stored[n] EXCEPT !.owner = p]
    <2>1. job = None /\ stored[n] # None /\ Put(n, v) /\ UNCHANGED revs /\ Edit(n, None)
      BY <1>4 DEF SetOwner, WorkerFree
    <2>2. stored[n] \in Stored /\ p \in Senders  BY <1>00, <2>1 DEF StoreTypes, Senders
    <2>3. v \in Stored /\ v.rev = stored[n].rev /\ v.src = stored[n].src
      <3> HIDE DEF Source, Senders
      <3> QED  BY <2>2 DEF Stored
    <2> HIDE DEF v
    <2>4. ChangeStep  BY <2>1, <2>3 DEF ChangeStep, Shown, Edit
    <2> QED  BY <2>1, <2>4, EditStep DEF StoreStep
  <1>5. CASE ParametersEnd
    <2>1. /\ job # None /\ job.op = "form" /\ job.by \in Senders /\ job.name \in Names /\ Exists(job.name)
          /\ UNCHANGED <<stored, revs, files, folder, book, bot>>
      BY <1>5 DEF ParametersEnd, StoreInv, JobKnown
    <2>2. CASE job' = None /\ UNCHANGED forms
      BY <2>1, <2>2, IdleStep DEF CommandStep, FormsStep, JobStep
    <2>3. ASSUME NEW b \in BotNames, Shows(NewForm(job.by, "run", job.name, None, <<b, bot[b]>>)),
                 job' = None
          PROVE  CommandStep
      <3>1. <<b, bot[b]>> \in BotNames \X (0..2)  BY <1>00 DEF StoreTypes
      <3>2. FormKnown(NewForm(job.by, "run", job.name, None, <<b, bot[b]>>))
        BY <2>1, <3>1, NewFormKnown
      <3> QED  BY <2>1, <2>3, <3>2, ShowsStep
    <2>4. CASE job' = [job EXCEPT !.op = "start"] /\ UNCHANGED forms
      <3>1. JobKnown'
        <4>1. job'.op = "start" /\ job'.by = job.by /\ job'.name = job.name
          BY <1>5, <2>4 DEF ParametersEnd
        <4> QED  BY <2>1, <4>1 DEF JobKnown, Exists
      <3> QED  BY <2>1, <2>4, <3>1, IdleStep DEF CommandStep, FormsStep, JobStep
    <2> QED  BY <1>5, <2>2, <2>3, <2>4 DEF ParametersEnd
  <1>11. CASE StartsPlain
    <2>1. UNCHANGED <<stored, revs, files, folder, book, forms, bot>> /\ job' = None
      BY <1>11 DEF StartsPlain, Start
    <2> QED  BY <2>1, IdleStep DEF CommandStep, FormsStep, JobStep
  <1>12. ASSUME (\E n \in Names : FileCheck(n)) \/ FileChecked PROVE CommandStep
    <2>1. job # None /\ job.op = "reload" /\ UNCHANGED <<stored, revs, files, folder, book, forms, bot>>
      BY <1>12 DEF FileCheck, FileChecked, Reloading, storeVars
    <2>2. job \in ReloadJob  BY <2>1 DEF StoreInv, JobKnown
    <2>3. job' \in ReloadJob
      <3>1. CASE \E n \in Names : FileCheck(n)  BY <2>2, <3>1 DEF FileCheck, ReloadJob
      <3>2. CASE job' = [job EXCEPT !.name = None]  BY <2>2, <3>2 DEF ReloadJob
      <3>3. CASE job' = [job EXCEPT !.name = None, !.load[job.name] = None]
        BY <2>2, <3>3 DEF ReloadJob
      <3> QED  BY <1>12, <3>1, <3>2, <3>3 DEF FileChecked
    <2>4. JobKnown'
      <3>1. job'.op = "reload"  BY <2>3 DEF ReloadJob
      <3> QED  BY <2>3, <3>1 DEF JobKnown
    <2> QED  BY <2>1, <2>4, IdleStep DEF CommandStep, FormsStep, JobStep
  <1>13. CASE ReloadEnds
    <2>1. /\ UNCHANGED <<stored, revs, folder, book, forms, bot>> /\ job' = None
          /\ files' = Unstored(job.load) /\ job.load \in [Names -> Bodies \cup {None}]
      BY <1>13 DEF ReloadEnds, Reloading, StoreInv, JobKnown, ReloadJob
    <2> QED
      BY <1>00, <2>1 DEF StoreTypes, Unstored, CommandStep, StoreStep, FormsStep, JobStep, TypesStep
  <1>6. CASE SaveEnd
    <2>1. /\ job # None /\ job.op = "save" /\ job' = None
          /\ UNCHANGED <<folder, files, book, forms, bot>>
      BY <1>6 DEF SaveEnd
    <2>2. CASE UNCHANGED <<stored, revs>>
      BY <2>1, <2>2, IdleStep DEF CommandStep, FormsStep, JobStep
    <2>3. ASSUME Save(job.name, job.src, job.rev, job.by), from' = job.form PROVE CommandStep
      <3>1. /\ job.src \in Source /\ job.by \in Senders /\ job.name \in Names
            /\ job.form \in forms \cup {None}
            /\ job.form # None /\ job.rev # None =>
                 job.form.rev = job.rev /\ (job.form.kind = "import" => job.src.body = job.form.book)
        BY <2>1 DEF StoreInv, JobKnown
      <3>2. stored[job.name] # None => job.rev = stored[job.name].rev /\ job.rev # None
        <4>1. stored[job.name] # None => stored[job.name].rev \in Nat
          BY <1>00, <3>1 DEF StoreTypes, Stored
        <4> QED  BY <2>3, <4>1, ScriptConstants DEF Save, Revision
      <3>3. Shown(job.name, job.form)
        BY <3>1, <3>2 DEF StoreInv, FormsKnown, FormKnown, Shown
      <3>4. SaveStep  BY <2>3, <3>1, <3>2, <3>3 DEF SaveStep
      <3> QED
        BY <1>00, <2>1, <3>4 DEF StoreTypes, CommandStep, StoreStep, FormsStep, JobStep, TypesStep
    <2> QED  BY <1>6, <2>2, <2>3 DEF SaveEnd
  <1>7. CASE Fill
    <2>1. job # None /\ job.op = "fill" /\ job' = None /\ (book' = job.src.body \/ UNCHANGED book)
          /\ UNCHANGED <<stored, revs, files, folder, forms, bot>>
      BY <1>7 DEF Fill
    <2>2. job.src.body \in Bodies  BY <2>1 DEF StoreInv, JobKnown, Source
    <2> QED
      BY <1>00, <2>1, <2>2 DEF StoreTypes, CommandStep, StoreStep, FormsStep, JobStep, TypesStep
  <1>8. CASE Restart
    <2>1. UNCHANGED <<stored, revs, folder, book, forms, bot>> /\ job' = None /\ files' = Unstored(folder)
      BY <1>8 DEF Restart
    <2> QED
      BY <1>00, <2>1 DEF StoreTypes, Unstored, CommandStep, StoreStep, FormsStep, JobStep, TypesStep
  <1>9. ASSUME NEW pages \in Bodies \cup {None}, Writes(pages) PROVE CommandStep
    BY <1>00, <1>9 DEF StoreTypes, Writes, CommandStep, StoreStep, FormsStep, JobStep, TypesStep
  <1>10. ASSUME NEW n \in Names, NEW body \in Bodies \cup {None}, Operator(n, body) PROVE CommandStep
    BY <1>00, <1>10 DEF StoreTypes, Operator, CommandStep, StoreStep, FormsStep, JobStep, TypesStep
  <1> QED
    BY <1>1, <1>2, <1>3, <1>4, <1>5, <1>6, <1>7, <1>8, <1>9, <1>10, <1>11, <1>12, <1>13
    DEF Next, WorkerStep

LEMMA InitStore == Init => StoreInv
  <1> SUFFICES ASSUME Init PROVE StoreInv
    OBVIOUS
  <1>1. PICK s \in Scenarios : /\ RunInit /\ stored = s.stored /\ folder = s.folder /\ files = s.files
                               /\ book = s.book /\ forms = {} /\ revs = 9
    BY DEF Init
  <1>2. StoreTypes  BY <1>1, ScriptConstants DEF RunInit, StoreTypes
  <1>3. RevisionsApart  BY <1>1, ScriptConstants DEF RevisionsApart
  <1>4. JobKnown  BY <1>1 DEF RunInit, JobKnown
  <1> QED  BY <1>1, <1>2, <1>3, <1>4 DEF StoreInv, FormsKnown

(* A save, new or over a script that has the expected revision.            *)
LEMMA Saved ==
  ASSUME StoreTypes, NEW n \in Names, NEW src \in Source, NEW expected, NEW by \in Senders \cup {None},
         Save(n, src, expected, by)
  PROVE  \E v \in Stored :
           /\ Put(n, v) /\ revs' = revs + 1 /\ v.rev = revs + 1 /\ v.src = src
           /\ stored[n] # None => v.hist # <<>> /\ v.hist[1] = stored[n].src
  <1>0. revs \in Nat  BY DEF StoreTypes
  <1>1. CASE stored[n] = None
    <2> DEFINE v == Created(src, by)
    <2>1. v \in Stored /\ v.rev = revs + 1 /\ v.src = src
      <3> HIDE DEF Source
      <3> QED  BY <1>0 DEF Created, Stored
    <2> HIDE DEF v
    <2>2. Put(n, v) /\ revs' = revs + 1  BY <1>1 DEF Save, v
    <2> QED  BY <1>1, <2>1, <2>2
  <1>2. CASE stored[n] # None
    <2> DEFINE v == Revised(stored[n], src, by)
    <2>1. stored[n] \in Stored  BY <1>2 DEF StoreTypes
    <2>2. /\ v \in Stored /\ v.rev = revs + 1 /\ v.src = src
          /\ v.hist # <<>> /\ v.hist[1] = stored[n].src
      BY <1>0, <2>1, RevisedKnown
    <2> HIDE DEF v
    <2>3. Put(n, v) /\ revs' = revs + 1  BY <1>2 DEF Save, v
    <2> QED  BY <2>2, <2>3
  <1> QED  BY <1>1, <1>2

LEMMA NextStore ==
  ASSUME StoreInv, [Next]_vars
  PROVE  StoreInv'
  <1>0. CommandStep  BY CommandSteps
  <1>1. StoreTypes /\ RevisionsApart /\ FormsKnown /\ JobKnown  BY DEF StoreInv
  <1>2. \A n \in Names : stored[n] # None => stored[n] \in Stored /\ stored[n].rev \in Nat
    <2> HIDE DEF Source
    <2> QED  BY <1>1 DEF StoreTypes, Stored
  <1>3. stored' \in [Names -> Stored \cup {None}] /\ revs' \in Nat /\ RevisionsApart'
        /\ \A f : FormKnown(f) => FormKnown(f)'
    <2>1. CASE UNCHANGED <<stored, revs>>
      BY <1>1, <2>1 DEF StoreTypes, RevisionsApart, FormKnown
    <2>2. CASE SaveStep
      <3>1. PICK n \in Names, v \in Stored : Put(n, v) /\ revs' = revs + 1 /\ v.rev = revs + 1
        BY <1>1, <2>2, Saved DEF SaveStep
      <3>2. stored' = [stored EXCEPT ![n] = v]  BY <3>1 DEF Put
      <3> QED  BY <1>1, <1>2, <3>1, <3>2 DEF StoreTypes, RevisionsApart, FormKnown
    <2>3. CASE DeleteStep
      BY <1>1, <1>2, <2>3 DEF DeleteStep, Put, StoreTypes, RevisionsApart, FormKnown
    <2>4. CASE ChangeStep
      <3>1. PICK n \in Names, v \in Stored :
              /\ stored[n] # None /\ v.rev = stored[n].rev /\ v.src = stored[n].src
              /\ stored' = [stored EXCEPT ![n] = v] /\ revs' = revs
        BY <2>4 DEF ChangeStep, Put
      <3> QED  BY <1>1, <1>2, <3>1 DEF StoreTypes, RevisionsApart, FormKnown
    <2>5. CASE RenameStep
      BY <1>1, <1>2, <2>5 DEF RenameStep, StoreTypes, RevisionsApart, FormKnown
    <2> QED  BY <1>0, <2>1, <2>2, <2>3, <2>4, <2>5 DEF CommandStep, StoreStep
  <1>4. FormsKnown'
    BY <1>0, <1>1, <1>3 DEF CommandStep, FormsStep, FormsKnown
  <1>5. JobKnown'
    <2>1. forms \subseteq forms'  BY <1>0 DEF CommandStep, FormsStep
    <2> QED  BY <1>0, <1>1, <2>1 DEF CommandStep, JobStep, JobKnown, Exists
  <1> QED  BY <1>0, <1>3, <1>4, <1>5 DEF StoreInv, StoreTypes, CommandStep, TypesStep

(* A form or an editor changes a script only as it was shown, and a save   *)
(* keeps the source it replaces: Same compares revisions, and two sources  *)
(* never share one.                                                        *)
THEOREM OnlyShownIsReplaced == Spec => ShownIsReplaced
  <1> DEFINE Kept == \A n \in Names : stored[n] # None /\ stored'[n] # stored[n] =>
       /\ from' # None => from'.rev = stored[n].rev /\ from'.src = stored[n].src
       /\ stored'[n] # None /\ stored'[n].rev # stored[n].rev =>
            /\ stored'[n].hist # <<>> /\ stored'[n].hist[1] = stored[n].src
            /\ from' # None /\ from'.kind = "import" => stored'[n].src.body = from'.book
  <1>1. ASSUME StoreInv, [Next]_vars PROVE Kept
    <2>0. CommandStep /\ StoreTypes  BY <1>1, CommandSteps DEF StoreInv
    <2>1. CASE UNCHANGED <<stored, revs>>  BY <2>1
    <2>2. CASE SaveStep
      <3>1. PICK n \in Names, src \in Source, by \in Senders \cup {None} :
              /\ (\E expected : Save(n, src, expected, by)) /\ Shown(n, from')
              /\ from' # None /\ from'.kind = "import" /\ stored[n] # None => src.body = from'.book
        BY <2>2 DEF SaveStep
      <3>2. PICK v \in Stored :
              /\ Put(n, v) /\ v.src = src
              /\ stored[n] # None => v.hist # <<>> /\ v.hist[1] = stored[n].src
        BY <2>0, <3>1, Saved
      <3>3. stored' = [stored EXCEPT ![n] = v]  BY <3>2 DEF Put
      <3> QED  BY <2>0, <3>1, <3>2, <3>3 DEF StoreTypes, Shown
    <2>3. CASE DeleteStep  BY <2>0, <2>3 DEF DeleteStep, Put, StoreTypes, Shown
    <2>4. CASE ChangeStep
      <3>1. PICK n \in Names, v \in Stored :
              /\ stored[n] # None /\ v.rev = stored[n].rev
              /\ stored' = [stored EXCEPT ![n] = v] /\ Shown(n, from')
        BY <2>4 DEF ChangeStep, Put
      <3> QED  BY <2>0, <3>1 DEF StoreTypes, Shown
    <2>5. CASE RenameStep  BY <2>0, <2>5 DEF RenameStep, StoreTypes, Shown
    <2> QED  BY <2>0, <2>1, <2>2, <2>3, <2>4, <2>5 DEF CommandStep, StoreStep
  <1>2. StoreInv /\ [Next]_vars => [Kept]_vars  BY <1>1
  <1> QED  BY <1>2, InitStore, NextStore, PTL DEF Spec, ShownIsReplaced
-----------------------------------------------------------------------------
(***************************************************************************)
(* The runs.                                                               *)
(***************************************************************************)
(* The record of a run.                                                    *)
Chosen(v) == IF v.target[2] # 0 THEN v.target[2] ELSE v.pin

Unpinned == {"start", "declare", "prepare"}
Ending   == {"close", "cleanup", "leave"}

(* A run acts on nothing before _prepare, and only on its pin after it.    *)
Pinned(v) ==
  /\ v.pc \in Unpinned => v.acts = {}
  /\ v.pc \notin Unpinned \cup Ending => v.target[2] \in {0, v.pin}
  /\ v.acts \subseteq {Chosen(v)}

IsRun(v) == v \in RunRecord /\ Pinned(v)

(* What a step may make of a run's record v.                               *)
Step(v, u) ==
  /\ IsRun(u) /\ u.by = v.by
  /\ u.pc = "start" => v.pc = "start"
  /\ u.pc = "cleanup" => v.pc \in {"start", "close", "cleanup"}
  /\ u.pc = "leave" => v.pc \in {"cleanup", "leave"}

LEMMA Lasts ==
  ASSUME NEW v, IsRun(v)
  PROVE  /\ Step(v, Canceled(v))
         /\ Step(v, [v EXCEPT !.late = TRUE])
         /\ Step(v, [v EXCEPT !.empty = TRUE])
         /\ Canceled(v).pc = v.pc /\ [v EXCEPT !.late = TRUE].pc = v.pc
         /\ [v EXCEPT !.empty = TRUE].pc = v.pc
  BY DEF IsRun, RunRecord, Step, Canceled, Pinned, Chosen

LEMMA Ended ==
  ASSUME NEW v, IsRun(v), NEW o \in {"none", "completed", "failed", "stopped"}
  PROVE  /\ Step(v, [v EXCEPT !.pc = "close", !.empty = FALSE, !.outcome = o])
         /\ [v EXCEPT !.pc = "close", !.empty = FALSE, !.outcome = o].pc = "close"
  BY DEF IsRun, RunRecord, Step, Pinned, Chosen, Phases, Unpinned, Ending

(* The thread goes on: from one phase to another.                          *)
Follows(pc, next) ==
  /\ next \in Phases \ {"start"}
  /\ next \notin Ending => (pc \in Unpinned <=> next \in Unpinned) /\ pc \notin Ending
  /\ next = "cleanup" => pc = "close"
  /\ next = "leave" => pc = "cleanup"

LEMMA Went ==
  ASSUME NEW v, IsRun(v), NEW pc, Follows(v.pc, pc)
  PROVE  /\ Step(v, [v EXCEPT !.pc = pc, !.empty = FALSE])
         /\ [v EXCEPT !.pc = pc, !.empty = FALSE].pc = pc
  BY DEF IsRun, RunRecord, Step, Pinned, Chosen, Phases, Unpinned, Ending, Follows

LEMMA FailedToLaunch ==
  ASSUME NEW v, IsRun(v), v.pc = "start"
  PROVE  Step(v, [v EXCEPT !.pc = "cleanup", !.outcome = "failed"])
  BY DEF IsRun, RunRecord, Step, Pinned, Chosen, Phases, Unpinned, Ending

LEMMA Prepared ==
  ASSUME NEW v, IsRun(v), v.pc = "prepare", NEW pin \in 0..2, v.target[2] \in {0, pin}
  PROVE  /\ Step(v, [v EXCEPT !.pc = "reply", !.pin = pin])
         /\ [v EXCEPT !.pc = "reply", !.pin = pin].pc = "reply"
  BY DEF IsRun, RunRecord, Step, Pinned, Chosen, Phases, Unpinned, Ending

LEMMA Operated ==
  ASSUME NEW v, IsRun(v), v.pc = "order"
  PROVE  /\ Step(v, [v EXCEPT !.pc = "settle", !.acts = v.acts])
         /\ Step(v, [v EXCEPT !.pc = "settle", !.acts = v.acts \cup {v.pin}])
         /\ [v EXCEPT !.pc = "settle", !.acts = v.acts].pc = "settle"
         /\ [v EXCEPT !.pc = "settle", !.acts = v.acts \cup {v.pin}].pc = "settle"
  BY DEF IsRun, RunRecord, Step, Pinned, Chosen, Phases, Unpinned, Ending

LEMMA Started ==
  ASSUME NEW by \in Senders, NEW body \in Bodies, NEW target \in BotNames \X (0..2)
  PROVE  IsRun(NewRun(by, body, target)) /\ NewRun(by, body, target).by = by
         /\ NewRun(by, body, target).pc = "start"
  BY DEF IsRun, RunRecord, NewRun, Pinned, Chosen, Phases, Unpinned, Ending

LEMMA Stays ==
  ASSUME NEW v, IsRun(v)
  PROVE  Step(v, v)
  BY DEF Step, IsRun, Pinned, Unpinned

(* The table of runs, and the runner behind each.                          *)
RunsKnown ==
  /\ run \in [RunIds -> RunRecord \cup {None}]
  /\ \A r \in RunIds : run[r] # None => IsRun(run[r])

ProcsKnown ==
  /\ DOMAIN proc = RunIds
  /\ \A r \in RunIds : proc[r] # None =>
       run[r] # None /\ run[r].pc \notin {"start", "cleanup", "leave"}

(* What a step may do to the table: each run goes on or leaves it, or one  *)
(* is started in a free place.                                             *)
GoOn ==
  /\ run' \in [RunIds -> RunRecord \cup {None}]
  /\ \A r \in RunIds : run'[r] = None \/ (run[r] # None /\ Step(run[r], run'[r]))

Starts ==
  \E by \in Senders, r \in RunIds : \E v :
    /\ run[r] = None /\ Reserve(by) /\ IsRun(v) /\ v.by = by /\ v.pc = "start"
    /\ Becomes(r, v) /\ UNCHANGED <<proc, check>>

TableStep == (GoOn /\ ProcsKnown') \/ Starts

LEMMA RunGoes ==
  ASSUME RunsKnown, ProcsKnown, NEW r \in RunIds, run[r] # None, NEW u, Step(run[r], u), Becomes(r, u),
         DOMAIN proc' = RunIds, \A q \in RunIds \ {r} : proc'[q] = proc[q],
         proc'[r] # None => u.pc \notin {"start", "cleanup", "leave"}
  PROVE  TableStep
  <1>1. u \in RunRecord /\ u # None  BY RunBounds DEF Step, IsRun
  <1>2. run'[r] = u /\ (\A q \in RunIds \ {r} : run'[q] = run[q])
        /\ run' \in [RunIds -> RunRecord \cup {None}]
    <2> HIDE DEF RunRecord
    <2> QED  BY <1>1 DEF RunsKnown, Becomes
  <1>3. \A q \in RunIds : run[q] # None => Step(run[q], run[q])
    BY Stays DEF RunsKnown
  <1> QED  BY <1>1, <1>2, <1>3 DEF TableStep, GoOn, ProcsKnown

LEMMA ProcGoes ==
  ASSUME RunsKnown, ProcsKnown, run' = run,
         DOMAIN proc' = RunIds,
         \A q \in RunIds : proc'[q] # None =>
           proc[q] # None \/ (run[q] # None /\ run[q].pc \notin {"start", "cleanup", "leave"})
  PROVE  TableStep
  <1>1. \A q \in RunIds : run[q] # None => Step(run[q], run[q])
    BY Stays DEF RunsKnown
  <1> QED  BY <1>1 DEF TableStep, GoOn, ProcsKnown, RunsKnown

(* Steps of a run's thread that leave the runner alone.                    *)
LEMMA ThreadGoes ==
  ASSUME RunsKnown, ProcsKnown, NEW r \in RunIds, run[r] # None,
         DOMAIN proc' = RunIds, \A q \in RunIds \ {r} : proc'[q] = proc[q]
  PROVE  /\ \A pc : Follows(run[r].pc, pc) /\ pc \notin {"cleanup", "leave"} /\ Goes(r, pc) => TableStep
         /\ \A o \in {"completed", "failed", "stopped"} : Ends(r, o) => TableStep
         /\ UNCHANGED run /\ run[r].pc \notin {"start", "cleanup", "leave"} => TableStep
  <1>0. IsRun(run[r])  BY DEF RunsKnown
  <1>1. ASSUME NEW pc, Follows(run[r].pc, pc), pc \notin {"cleanup", "leave"}, Goes(r, pc) PROVE TableStep
    <2> DEFINE u == [run[r] EXCEPT !.pc = pc, !.empty = FALSE]
    <2>1. Step(run[r], u) /\ u.pc = pc  BY <1>0, <1>1, Went
    <2>2. Becomes(r, u)  BY <1>1 DEF Goes
    <2>3. pc # "start"  BY <1>1 DEF Follows
    <2> HIDE DEF u
    <2> QED  BY <1>1, <2>1, <2>2, <2>3, RunGoes
  <1>2. ASSUME NEW o \in {"completed", "failed", "stopped"}, Ends(r, o) PROVE TableStep
    <2> DEFINE u == [run[r] EXCEPT !.pc = "close", !.empty = FALSE, !.outcome = o]
    <2>1. Step(run[r], u) /\ u.pc = "close"  BY <1>0, Ended
    <2>2. Becomes(r, u)  BY <1>2 DEF Ends
    <2> HIDE DEF u
    <2> QED  BY <2>1, <2>2, RunGoes
  <1>3. ASSUME UNCHANGED run, run[r].pc \notin {"start", "cleanup", "leave"} PROVE TableStep
    BY <1>3, ProcGoes
  <1> QED  BY <1>1, <1>2, <1>3

LEMMA ThreadSteps ==
  ASSUME StoreTypes, RunsKnown, ProcsKnown, NEW r \in RunIds, Thread(r)
  PROVE  TableStep
  <1>0. DOMAIN proc = RunIds  BY DEF ProcsKnown
  <1>1. run[r] # None
    BY DEF Thread, Launch, Receive, Exited, Prepare, Throttle, Operate, Settle, Reply, Close, Cleanup, Leave, At
  <1>2. IsRun(run[r])  BY <1>1 DEF RunsKnown
  <1> USE DEF Phases, Unpinned, Ending, Follows
  <1>3. CASE Launch(r)
    <2>1. CASE proc' = [proc EXCEPT ![r] = NewProc] /\ Goes(r, "declare")
      <3> DEFINE u == [run[r] EXCEPT !.pc = "declare", !.empty = FALSE]
      <3>1. Follows(run[r].pc, "declare")  BY <1>3 DEF Launch, At
      <3>2. Step(run[r], u) /\ u.pc = "declare"  BY <1>2, <3>1, Went
      <3>3. Becomes(r, u)  BY <2>1 DEF Goes
      <3>4. DOMAIN proc' = RunIds /\ \A q \in RunIds \ {r} : proc'[q] = proc[q]  BY <1>0, <2>1
      <3> HIDE DEF u
      <3> QED  BY <1>1, <3>2, <3>3, <3>4, RunGoes
    <2>2. CASE UNCHANGED proc /\ Becomes(r, [run[r] EXCEPT !.pc = "cleanup", !.outcome = "failed"])
      <3> DEFINE u == [run[r] EXCEPT !.pc = "cleanup", !.outcome = "failed"]
      <3>1. run[r].pc = "start"  BY <1>3 DEF Launch, At
      <3>2. Step(run[r], u)  BY <1>2, <3>1, FailedToLaunch
      <3>3. Becomes(r, u)  BY <2>2
      <3>4. proc[r] = None  BY <3>1 DEF ProcsKnown
      <3> HIDE DEF u
      <3> QED  BY <1>0, <1>1, <2>2, <3>2, <3>3, <3>4, RunGoes
    <2> QED  BY <1>3, <2>1, <2>2 DEF Launch
  <1>4. CASE Receive(r)
    <2>1. run[r].pc \in {"declare", "loop"}  BY <1>4 DEF Receive, At
    <2>2. CASE proc' = proc
      <3>1. CASE Stopped(r)  BY <1>0, <1>1, <1>4, <2>2, <3>1, ThreadGoes DEF Receive
      <3>2. CASE ~Stopped(r) /\ proc[r].queue = <<>>
        <4> DEFINE u == [run[r] EXCEPT !.empty = TRUE]
        <4>1. Step(run[r], u) /\ u.pc = run[r].pc  BY <1>2, Lasts
        <4>2. Becomes(r, u)  BY <1>4, <3>2 DEF Receive
        <4> HIDE DEF u
        <4> QED  BY <1>0, <1>1, <2>1, <2>2, <4>1, <4>2, RunGoes
      <3>3. CASE ~Stopped(r) /\ proc[r].queue # <<>>
        <4>1. Handle(r, Head(proc[r].queue)) \/ Ends(r, "failed")
          BY <1>4, <3>3 DEF Receive
        <4> QED
          BY <1>0, <1>1, <2>1, <2>2, <4>1, ThreadGoes DEF Handle
      <3> QED  BY <3>1, <3>2, <3>3
    <2>3. CASE proc' # proc
      <3>1. /\ proc' = [proc EXCEPT ![r].queue = Tail(@)]
            /\ Handle(r, Head(proc[r].queue)) \/ Ends(r, "failed")
        BY <1>4, <2>3 DEF Receive
      <3>2. DOMAIN proc' = RunIds /\ \A q \in RunIds \ {r} : proc'[q] = proc[q]
        BY <1>0, <3>1
      <3> QED
        BY <1>0, <1>1, <2>1, <3>1, <3>2, ThreadGoes DEF Handle
    <2> QED  BY <2>2, <2>3
  <1>5. CASE Exited(r) \/ Throttle(r) \/ Settle(r)
    BY <1>0, <1>1, <1>5, ThreadGoes DEF Exited, Throttle, Settle, At
  <1>6. CASE Prepare(r)
    <2>1. CASE Ends(r, "failed")
      BY <1>0, <1>1, <1>6, <2>1, ThreadGoes DEF Prepare
    <2>2. CASE ~Ends(r, "failed")
      <3> DEFINE pin == bot[run[r].target[1]]
                 u == [run[r] EXCEPT !.pc = "reply", !.pin = pin]
      <3>1. Unchanged(run[r].target) /\ run[r].pc = "prepare" /\ Becomes(r, u) /\ proc' = proc
        BY <1>6, <2>2 DEF Prepare, At
      <3>2. run[r].target \in BotNames \X (0..2)  BY <1>2 DEF IsRun, RunRecord
      <3>3. pin \in 0..2 /\ run[r].target[2] \in {0, pin}
        BY <3>1, <3>2 DEF StoreTypes, Unchanged
      <3> HIDE DEF pin
      <3>4. Step(run[r], u) /\ u.pc = "reply"  BY <1>2, <3>1, <3>3, Prepared
      <3> HIDE DEF u
      <3> QED  BY <1>0, <1>1, <3>1, <3>4, RunGoes
    <2> QED  BY <2>1, <2>2
  <1>7. CASE Operate(r)
    <2>1. CASE Ends(r, "stopped")
      BY <1>0, <1>1, <1>7, <2>1, ThreadGoes DEF Operate
    <2>2. CASE ~Ends(r, "stopped")
      <3> DEFINE acts == IF bot[run[r].target[1]] = run[r].pin THEN run[r].acts \cup {run[r].pin}
                         ELSE run[r].acts
                 u == [run[r] EXCEPT !.pc = "settle", !.acts = acts]
      <3>1. run[r].pc = "order" /\ Becomes(r, u) /\ proc' = proc
        BY <1>7, <2>2 DEF Operate, At
      <3>2. acts = run[r].acts \/ acts = run[r].acts \cup {run[r].pin}  OBVIOUS
      <3> HIDE DEF acts
      <3>3. Step(run[r], u) /\ u.pc = "settle"  BY <1>2, <3>1, <3>2, Operated
      <3> HIDE DEF u
      <3> QED  BY <1>0, <1>1, <3>1, <3>3, RunGoes
    <2> QED  BY <2>1, <2>2
  <1>8. CASE Reply(r)
    <2>1. DOMAIN proc' = RunIds /\ \A q \in RunIds \ {r} : proc'[q] = proc[q]
      BY <1>0, <1>8 DEF Reply
    <2> QED  BY <1>1, <1>8, <2>1, ThreadGoes DEF Reply, At
  <1>9. CASE Close(r)
    <2> DEFINE u == [run[r] EXCEPT !.pc = "cleanup", !.empty = FALSE]
    <2>1. DOMAIN proc' = RunIds /\ proc'[r] = None /\ \A q \in RunIds \ {r} : proc'[q] = proc[q]
      BY <1>0, <1>9 DEF Close
    <2>2. Follows(run[r].pc, "cleanup")  BY <1>9 DEF Close, At
    <2>3. Step(run[r], u)  BY <1>2, <2>2, Went
    <2>4. Becomes(r, u)  BY <1>9 DEF Close, Goes
    <2> HIDE DEF u
    <2> QED  BY <1>1, <2>1, <2>3, <2>4, RunGoes
  <1>10. CASE Cleanup(r)
    <2> DEFINE u == [run[r] EXCEPT !.pc = "leave", !.empty = FALSE]
    <2>1. proc' = proc /\ run[r].pc = "cleanup"  BY <1>10 DEF Cleanup, At
    <2>2. Follows(run[r].pc, "leave")  BY <2>1
    <2>3. Step(run[r], u)  BY <1>2, <2>2, Went
    <2>4. Becomes(r, u)  BY <1>10 DEF Cleanup, Goes
    <2>5. proc[r] = None  BY <1>1, <2>1 DEF ProcsKnown
    <2> HIDE DEF u
    <2> QED  BY <1>0, <1>1, <2>1, <2>3, <2>4, <2>5, RunGoes
  <1>11. CASE Leave(r)
    <2>1. Becomes(r, None) /\ proc' = proc /\ run[r].pc = "leave"  BY <1>11 DEF Leave, At
    <2>2. run'[r] = None /\ (\A q \in RunIds \ {r} : run'[q] = run[q])
          /\ run' \in [RunIds -> RunRecord \cup {None}]
      <3> HIDE DEF RunRecord
      <3> QED  BY <2>1 DEF RunsKnown, Becomes
    <2>3. \A q \in RunIds : run[q] # None => Step(run[q], run[q])
      BY Stays DEF RunsKnown
    <2> QED  BY <1>1, <2>1, <2>2, <2>3 DEF TableStep, GoOn, ProcsKnown
  <1> QED  BY <1>3, <1>4, <1>5, <1>6, <1>7, <1>8, <1>9, <1>10, <1>11 DEF Thread

(* The other steps, and the record of declaration checks.                  *)
ChecksKnown == check \in [Checkers -> Senders \cup {None}]

CheckStep ==
  \/ UNCHANGED check
  \/ \E c \in Checkers : Inspected(c)
  \/ check' = [c \in Checkers |-> None]
  \/ run' = run /\ \E c \in Checkers, by \in Senders : Reserve(by) /\ check' = [check EXCEPT ![c] = by]

LEMMA RunTableSteps ==
  ASSUME StoreTypes, RunsKnown, ProcsKnown, RunNext
  PROVE  TableStep /\ CheckStep
  <1>0. DOMAIN proc = RunIds  BY DEF ProcsKnown
  <1>1. ASSUME NEW r \in RunIds, Thread(r) PROVE TableStep /\ CheckStep
    <2>1. UNCHANGED check
      BY <1>1 DEF Thread, Launch, Receive, Exited, Prepare, Throttle, Operate, Settle, Reply, Close,
                  Cleanup, Leave
    <2> QED  BY <1>1, <2>1, ThreadSteps DEF CheckStep
  <1>2. ASSUME NEW r \in RunIds, Exit(r) \/ Read(r) \/ Watchdog(r) PROVE TableStep /\ CheckStep
    <2>1. proc[r] # None /\ UNCHANGED <<run, check>>  BY <1>2 DEF Exit, Read, Watchdog, Live
    <2>2. DOMAIN proc' = RunIds /\ \A q \in RunIds \ {r} : proc'[q] = proc[q]
      BY <1>0, <1>2 DEF Exit, Read, Watchdog
    <2> QED  BY <2>1, <2>2, ProcGoes DEF CheckStep
  <1>3. ASSUME NEW r \in RunIds, NEW event \in Events, NEW at \in {"asked", "run", "over"},
               Emit(r, event, at)
        PROVE  TableStep /\ CheckStep
    <2>1. proc[r] # None /\ UNCHANGED <<run, check>>  BY <1>3 DEF Emit, Live
    <2>2. DOMAIN proc' = RunIds /\ \A q \in RunIds \ {r} : proc'[q] = proc[q]
      BY <1>0, <1>3 DEF Emit
    <2> QED  BY <2>1, <2>2, ProcGoes DEF CheckStep
  <1>4. ASSUME NEW r \in RunIds, Late(r) PROVE TableStep /\ CheckStep
    <2> DEFINE u == [run[r] EXCEPT !.late = TRUE]
    <2>1. run[r] # None /\ Becomes(r, u) /\ UNCHANGED <<proc, check>>  BY <1>4 DEF Late, Active
    <2>2. Step(run[r], u) /\ u.pc = run[r].pc  BY <2>1, Lasts DEF RunsKnown
    <2> HIDE DEF u
    <2>3. TableStep  BY <1>0, <2>1, <2>2, RunGoes DEF ProcsKnown
    <2> QED  BY <2>1, <2>3 DEF CheckStep
  <1>5. ASSUME NEW r \in RunIds, NEW by \in Senders, Stop(by, r) PROVE TableStep /\ CheckStep
    <2>1. run[r] # None /\ Becomes(r, Canceled(run[r])) /\ UNCHANGED <<proc, check>>
      BY <1>5 DEF Stop, Active
    <2>2. Step(run[r], Canceled(run[r])) /\ Canceled(run[r]).pc = run[r].pc
      BY <2>1, Lasts DEF RunsKnown
    <2>3. TableStep  BY <1>0, <2>1, <2>2, RunGoes DEF ProcsKnown
    <2> QED  BY <2>1, <2>3 DEF CheckStep
  <1>6. CASE Cancel
    <2>1. /\ run' = [r \in RunIds |-> IF r \in Active(None) THEN Canceled(run[r]) ELSE run[r]]
          /\ UNCHANGED <<proc, check>>
      BY <1>6 DEF Cancel
    <2>2. \A r \in RunIds : run[r] # None =>
            Step(run[r], Canceled(run[r])) /\ Canceled(run[r]).pc = run[r].pc
            /\ Canceled(run[r]) \in RunRecord /\ Canceled(run[r]) # None
      <3>1. \A r \in RunIds : run[r] # None =>
              Step(run[r], Canceled(run[r])) /\ Canceled(run[r]).pc = run[r].pc
        BY Lasts DEF RunsKnown
      <3> QED  BY <3>1, RunBounds DEF Step, IsRun
    <2>3. \A r \in RunIds : r \in Active(None) <=> run[r] # None  BY DEF Active
    <2>4. \A r \in RunIds : run'[r] = IF run[r] # None THEN Canceled(run[r]) ELSE None
      BY <2>1, <2>3
    <2>5. run' \in [RunIds -> RunRecord \cup {None}]
      <3> HIDE DEF RunRecord
      <3> QED  BY <2>1, <2>2, <2>3 DEF RunsKnown
    <2>6. GoOn  BY <2>2, <2>4, <2>5 DEF GoOn
    <2>7. ProcsKnown'  BY <2>1, <2>2, <2>4 DEF ProcsKnown
    <2> QED  BY <2>1, <2>6, <2>7 DEF TableStep, CheckStep
  <1>7. CASE UNCHANGED <<run, proc>> /\ CheckStep
    BY <1>0, <1>7, ProcGoes
  <1>8. ASSUME NEW by \in Senders, WebCheck(by) PROVE UNCHANGED <<run, proc>> /\ CheckStep
    BY <1>8 DEF WebCheck, Inspect, CheckStep, Checkers
  <1>9. CASE WebChecked \/ (\E p \in Players : Revoke(p)) \/ (\E n \in BotNames : Changes(n))
    BY <1>0, <1>9, ProcGoes DEF WebChecked, Revoke, Changes, CheckStep, Checkers
  <1> QED  BY <1>1, <1>2, <1>3, <1>4, <1>5, <1>6, <1>7, <1>8, <1>9 DEF RunNext

LEMMA TableSteps ==
  ASSUME StoreInv, RunsKnown, ProcsKnown, [Next]_vars
  PROVE  TableStep /\ CheckStep
  <1>0. DOMAIN proc = RunIds /\ StoreTypes  BY DEF ProcsKnown, StoreInv
  <1>1. ASSUME UNCHANGED <<run, proc>>, CheckStep PROVE TableStep /\ CheckStep
    BY <1>0, <1>1, ProcGoes
  <1>2. CASE UNCHANGED vars
    BY <1>1, <1>2 DEF vars, runVars, CheckStep
  <1>3. CASE RunNext /\ UNCHANGED storeVars  BY <1>0, <1>3, RunTableSteps
  <1>4. ASSUME NEW by \in Senders, Submit(by) PROVE TableStep /\ CheckStep
    <2>1. ASSUME NEW n, NEW src, NEW expected, NEW form, Begin(by, n, src, expected, form)
          PROVE  TableStep /\ CheckStep
      BY <1>1, <2>1 DEF Begin, Inspect, CheckStep, Checkers
    <2>2. ASSUME NEW n, NEW form, Edit(n, form) PROVE TableStep /\ CheckStep
      BY <1>1, <2>2 DEF Edit, CheckStep
    <2>3. ASSUME NEW kind, NEW n, Open(by, kind, n) PROVE TableStep /\ CheckStep
      BY <1>1, <2>3 DEF Open, CheckStep
    <2>4. ASSUME NEW n \in Names, Parameters(by, n) PROVE TableStep /\ CheckStep
      BY <1>1, <2>4 DEF Parameters, Inspect, CheckStep, Checkers
    <2>5. ASSUME NEW n, NEW form, Import(by, n, form) PROVE TableStep /\ CheckStep
      BY <1>1, <2>1, <2>5 DEF Import, CheckStep
    <2>6. ASSUME NEW n, NEW form, NEW over, Export(by, n, form, over) PROVE TableStep /\ CheckStep
      BY <1>1, <2>6 DEF Export, CheckStep
    <2>7. ASSUME NEW n \in Names, NEW form \in Typed(by, "run"), Run(by, n, form)
          PROVE  TableStep /\ CheckStep
      <3>1. Exists(n)  BY <2>7 DEF Run, Found
      <3>2. Script(n).src.body \in Bodies  BY <1>0, <3>1, ScriptKnown DEF Source
      <3>3. PICK b \in BotNames : Start(by, Script(n).src.body, IF form = None THEN <<b, 0>> ELSE form.target)
        BY <2>7 DEF Run
      <3> DEFINE target == IF form = None THEN <<b, 0>> ELSE form.target
                 v == NewRun(by, Script(n).src.body, target)
      <3>4. target \in BotNames \X (0..2)
        BY DEF Typed, StoreInv, FormsKnown, FormKnown
      <3> HIDE DEF target
      <3>5. IsRun(v) /\ v.by = by /\ v.pc = "start"  BY <3>2, <3>4, Started
      <3>6. \E r \in RunIds : run[r] = None /\ Becomes(r, v)
        BY <3>3 DEF Start, target
      <3>7. Reserve(by) /\ UNCHANGED <<proc, check>>  BY <3>3 DEF Start
      <3> HIDE DEF v
      <3> QED  BY <3>5, <3>6, <3>7 DEF TableStep, Starts, CheckStep
    <2>8. CASE Reload(by)  BY <1>1, <2>8 DEF Reload, CheckStep
    <2> QED
      BY <1>4, <2>1, <2>2, <2>3, <2>4, <2>5, <2>6, <2>7, <2>8
      DEF Submit, SaveForm, Delete, Copy, Rename, SetVisibility, Restore
  <1>5. ASSUME NEW n \in Names, NEW p \in Players, SetOwner(n, p) PROVE TableStep /\ CheckStep
    BY <1>1, <1>5 DEF SetOwner, Edit, CheckStep
  <1>6. CASE ParametersEnd \/ SaveEnd
    BY <1>1, <1>6 DEF ParametersEnd, SaveEnd, CheckStep, Checkers
  <1>7. CASE Fill \/ ReloadEnds  BY <1>1, <1>7 DEF Fill, ReloadEnds, CheckStep
  <1>8. CASE Restart
    <2>1. /\ run' = [r \in RunIds |-> None] /\ proc' = [r \in RunIds |-> None]
          /\ check' = [c \in Checkers |-> None]
      BY <1>8 DEF Restart
    <2>2. GoOn /\ ProcsKnown'
      <3> HIDE DEF RunRecord
      <3> QED  BY <2>1 DEF GoOn, ProcsKnown
    <2> QED  BY <2>1, <2>2 DEF TableStep, CheckStep
  <1>9. ASSUME NEW pages, Writes(pages) PROVE TableStep /\ CheckStep
    BY <1>1, <1>9 DEF Writes, CheckStep
  <1>10. ASSUME NEW n, NEW body, Operator(n, body) PROVE TableStep /\ CheckStep
    BY <1>1, <1>10 DEF Operator, CheckStep
  <1>11. CASE StartsPlain
    <2>1. job.by \in Senders /\ job.name \in Names /\ Exists(job.name)
      BY <1>11 DEF StartsPlain, StoreInv, JobKnown
    <2>2. CASE UNCHANGED <<run, proc, check>>  BY <1>1, <2>2 DEF CheckStep
    <2>3. ASSUME NEW b \in BotNames, Start(job.by, Script(job.name).src.body, <<b, 0>>)
          PROVE  TableStep /\ CheckStep
      <3> DEFINE v == NewRun(job.by, Script(job.name).src.body, <<b, 0>>)
      <3>1. Script(job.name).src.body \in Bodies  BY <1>0, <2>1, ScriptKnown DEF Source
      <3>2. IsRun(v) /\ v.by = job.by /\ v.pc = "start"  BY <2>1, <3>1, Started
      <3>3. \E r \in RunIds : run[r] = None /\ Becomes(r, v)  BY <2>3 DEF Start
      <3>4. Reserve(job.by) /\ UNCHANGED <<proc, check>>  BY <2>3 DEF Start
      <3> HIDE DEF v
      <3> QED  BY <2>1, <3>2, <3>3, <3>4 DEF TableStep, Starts, CheckStep
    <2> QED  BY <1>11, <2>2, <2>3 DEF StartsPlain
  <1>12. ASSUME (\E n \in Names : FileCheck(n)) \/ FileChecked PROVE TableStep /\ CheckStep
    <2>1. Reloading => job.by \in Senders  BY DEF Reloading, StoreInv, JobKnown, ReloadJob
    <2> QED  BY <1>1, <1>12, <2>1 DEF FileCheck, FileChecked, Inspect, CheckStep, Checkers
  <1> QED
    BY <1>2, <1>3, <1>4, <1>5, <1>6, <1>7, <1>8, <1>9, <1>10, <1>11, <1>12 DEF Next, WorkerStep

-----------------------------------------------------------------------------
(* Slots: what _reserve counts never passes the limits.                    *)
Used(by) == Cardinality(Active(by)) + Cardinality(Checking(by))

SlotsInv ==
  /\ Used(None) <= ServerRuns
  /\ \A by \in Senders : Used(by) <= ControllerRuns

RunsInv == RunsKnown /\ ProcsKnown /\ ChecksKnown /\ SlotsInv

LEMMA Finite ==
  ASSUME NEW S, S \subseteq RunIds \/ S \subseteq Checkers
  PROVE  IsFiniteSet(S) /\ Cardinality(S) \in Nat
  <1>1. IsFiniteSet(Checkers)
    <2>1. IsFiniteSet({} \cup {"worker"})  BY FS_EmptySet, FS_AddElement
    <2>2. IsFiniteSet(({} \cup {"worker"}) \cup {"web"})  BY <2>1, FS_AddElement
    <2>3. Checkers = ({} \cup {"worker"}) \cup {"web"}  BY DEF Checkers
    <2> QED  BY <2>2, <2>3
  <1>2. IsFiniteSet(RunIds)  BY RunBounds
  <1>3. IsFiniteSet(S)  BY <1>1, <1>2, FS_Subset
  <1> QED  BY <1>3, FS_CardinalityType

(* A smaller set counts no more, and one that has one more, at most one    *)
(* more.                                                                   *)
LEMMA Counts ==
  ASSUME NEW S, NEW T, S \subseteq RunIds \/ S \subseteq Checkers, NEW x
  PROVE  /\ T \subseteq S => Cardinality(T) <= Cardinality(S)
         /\ T \subseteq S \cup {x} => Cardinality(T) <= Cardinality(S) + 1
  <1>1. IsFiniteSet(S) /\ Cardinality(S) \in Nat  BY Finite
  <1>2. T \subseteq S => Cardinality(T) <= Cardinality(S)  BY <1>1, FS_Subset
  <1>3. ASSUME T \subseteq S \cup {x} PROVE Cardinality(T) <= Cardinality(S) + 1
    <2>1. IsFiniteSet(S \cup {x})  BY <1>1, FS_AddElement
    <2>2. \/ Cardinality(S \cup {x}) = Cardinality(S)
          \/ Cardinality(S \cup {x}) = Cardinality(S) + 1
      BY <1>1, FS_AddElement, Zenon
    <2>3. Cardinality(T) <= Cardinality(S \cup {x})  BY <1>3, <2>1, FS_Subset
    <2>4. Cardinality(T) \in Nat  BY <1>3, <2>1, FS_Subset, FS_CardinalityType
    <2> QED  BY <1>1, <2>2, <2>3, <2>4
  <1> QED  BY <1>2, <1>3

LEMMA NextSlots ==
  ASSUME StoreInv, RunsInv, [Next]_vars
  PROVE  SlotsInv' /\ RunsKnown' /\ ChecksKnown' /\ ProcsKnown'
  <1>0. TableStep /\ CheckStep  BY TableSteps DEF RunsInv
  <1>1. ServerRuns \in Nat /\ ControllerRuns \in Nat /\ None \notin Senders  BY RunBounds
  <1>2. ChecksKnown'
    BY <1>0 DEF RunsInv, ChecksKnown, CheckStep, Inspected
  <1>3. \A by : /\ Cardinality(Active(by)) \in Nat /\ Cardinality(Checking(by)) \in Nat
                /\ Cardinality(Active(by)') \in Nat /\ Cardinality(Checking(by)') \in Nat
    <2>1. \A by : Active(by) \subseteq RunIds /\ Active(by)' \subseteq RunIds  BY DEF Active
    <2>2. \A by : Checking(by) \subseteq Checkers /\ Checking(by)' \subseteq Checkers  BY DEF Checking
    <2> QED  BY <2>1, <2>2, Finite
  <1>4. SlotsInv  BY DEF RunsInv
  <1>5. CASE Starts
    <2>0. PICK by \in Senders, r \in RunIds : \E v :
            /\ run[r] = None /\ Reserve(by) /\ IsRun(v) /\ v.by = by /\ v.pc = "start"
            /\ Becomes(r, v) /\ UNCHANGED <<proc, check>>
      BY <1>5 DEF Starts
    <2>1. PICK v :
            /\ run[r] = None /\ Reserve(by) /\ IsRun(v) /\ v.by = by /\ v.pc = "start"
            /\ Becomes(r, v) /\ UNCHANGED <<proc, check>>
      BY <2>0
    <2>2. v \in RunRecord /\ v # None  BY <2>1, RunBounds DEF IsRun
    <2>3. run'[r] = v /\ (\A q \in RunIds \ {r} : run'[q] = run[q])
          /\ run' \in [RunIds -> RunRecord \cup {None}]
      <3> HIDE DEF RunRecord
      <3> QED  BY <2>1, <2>2 DEF RunsInv, RunsKnown, Becomes
    <2>4. RunsKnown'  BY <2>1, <2>3 DEF RunsInv, RunsKnown
    <2>5. ProcsKnown'  BY <2>1, <2>3 DEF RunsInv, ProcsKnown
    <2>6. ASSUME NEW s \in Senders \cup {None} PROVE
            /\ Checking(s)' = Checking(s)
            /\ s \in {None, by} => Active(s)' \subseteq Active(s) \cup {r}
            /\ s \notin {None, by} => Active(s)' \subseteq Active(s)
      BY <2>1, <2>3 DEF Checking, Active
    <2>7. ASSUME NEW s \in Senders \cup {None} PROVE
            /\ Cardinality(Checking(s)') = Cardinality(Checking(s))
            /\ s \in {None, by} => Cardinality(Active(s)') <= Cardinality(Active(s)) + 1
            /\ s \notin {None, by} => Cardinality(Active(s)') <= Cardinality(Active(s))
      <3>1. Active(s) \subseteq RunIds  BY DEF Active
      <3> QED  BY <2>6, <3>1, Counts
    <2>8. /\ Used(None) < ServerRuns /\ Used(by) < ControllerRuns
      BY <2>1 DEF Reserve, Used
    <2>9. Used(None)' <= ServerRuns
      BY <1>1, <1>3, <2>7, <2>8 DEF Used
    <2>10. ASSUME NEW s \in Senders PROVE Used(s)' <= ControllerRuns
      <3>1. CASE s = by  BY <1>1, <1>3, <2>7, <2>8, <3>1 DEF Used
      <3>2. CASE s # by  BY <1>1, <1>3, <1>4, <2>7, <3>2 DEF Used, SlotsInv
      <3> QED  BY <3>1, <3>2
    <2>11. SlotsInv'  BY <2>9, <2>10 DEF SlotsInv
    <2> QED  BY <1>2, <2>4, <2>5, <2>11
  <1>6. CASE GoOn /\ ProcsKnown'
    <2>1. RunsKnown'
      BY <1>6 DEF GoOn, RunsKnown, Step
    <2>2. ASSUME NEW s PROVE Active(s)' \subseteq Active(s)
      BY <1>6 DEF GoOn, Active, Step
    <2>3. ASSUME NEW s PROVE Cardinality(Active(s)') <= Cardinality(Active(s))
      <3>1. Active(s) \subseteq RunIds  BY DEF Active
      <3> QED  BY <2>2, <3>1, Counts
    <2>4. CASE UNCHANGED check \/ (\E c \in Checkers : Inspected(c)) \/ check' = [c \in Checkers |-> None]
      <3>1. ASSUME NEW s PROVE Cardinality(Checking(s)') <= Cardinality(Checking(s))
        <4>1. Checking(s)' \subseteq Checking(s) /\ Checking(s) \subseteq Checkers
          BY <2>4 DEF Checking, Inspected, RunsInv, ChecksKnown
        <4> QED  BY <4>1, Counts
      <3>2. ASSUME NEW s PROVE Used(s)' \in Nat /\ Used(s) \in Nat /\ Used(s)' <= Used(s)
        BY <1>3, <2>3, <3>1 DEF Used
      <3> QED  BY <1>1, <1>2, <1>4, <1>6, <2>1, <3>2 DEF SlotsInv
    <2>5. ASSUME run' = run, NEW c \in Checkers, NEW by \in Senders, Reserve(by),
                 check' = [check EXCEPT ![c] = by]
          PROVE  SlotsInv'
      <3>1. ASSUME NEW s \in Senders \cup {None} PROVE
              /\ s \in {None, by} => Checking(s)' \subseteq Checking(s) \cup {c}
              /\ s \notin {None, by} => Checking(s)' \subseteq Checking(s)
        BY <2>5 DEF Checking, RunsInv, ChecksKnown
      <3>2. ASSUME NEW s \in Senders \cup {None} PROVE
              /\ s \in {None, by} => Cardinality(Checking(s)') <= Cardinality(Checking(s)) + 1
              /\ s \notin {None, by} => Cardinality(Checking(s)') <= Cardinality(Checking(s))
        <4>1. Checking(s) \subseteq Checkers  BY DEF Checking
        <4> QED  BY <3>1, <4>1, Counts
      <3>3. Used(None) < ServerRuns /\ Used(by) < ControllerRuns  BY <2>5 DEF Reserve, Used
      <3>4. Used(None)' <= ServerRuns  BY <1>1, <1>3, <2>3, <3>2, <3>3 DEF Used
      <3>5. ASSUME NEW s \in Senders PROVE Used(s)' <= ControllerRuns
        <4>1. CASE s = by  BY <1>1, <1>3, <2>3, <3>2, <3>3, <4>1 DEF Used
        <4>2. CASE s # by  BY <1>1, <1>3, <1>4, <2>3, <3>2, <4>2 DEF Used, SlotsInv
        <4> QED  BY <4>1, <4>2
      <3> QED  BY <3>4, <3>5 DEF SlotsInv
    <2> QED  BY <1>0, <1>2, <1>6, <2>1, <2>4, <2>5 DEF CheckStep
  <1> QED  BY <1>0, <1>5, <1>6 DEF TableStep

LEMMA InitRuns == Init => RunsInv
  <1> SUFFICES ASSUME Init PROVE RunsInv
    OBVIOUS
  <1>1. RunInit  BY DEF Init
  <1>2. \A by : Active(by) = {} /\ Checking(by) = {}
    BY <1>1 DEF RunInit, Active, Checking
  <1>3. \A by : Used(by) = 0
    BY <1>2, FS_EmptySet DEF Used
  <1>4. RunsKnown /\ ProcsKnown /\ ChecksKnown
    <2> HIDE DEF RunRecord
    <2> QED  BY <1>1 DEF RunInit, RunsKnown, ProcsKnown, ChecksKnown
  <1>5. SlotsInv  BY <1>3, RunBounds DEF SlotsInv
  <1> QED  BY <1>4, <1>5 DEF RunsInv

LEMMA NextRuns ==
  ASSUME StoreInv /\ RunsInv, [Next]_vars
  PROVE  (StoreInv /\ RunsInv)'
  BY NextStore, NextSlots DEF RunsInv

(* Runner processes are never more than server-runs, and for a controller  *)
(* never more than controller-runs: every runner belongs to a run in the   *)
(* table, and _reserve counts runs and declaration checks together.        *)
THEOREM SlotsAreKept == Spec => []SlotsKept
  <1>1. ASSUME RunsInv PROVE SlotsKept
    <2> DEFINE live == {r \in RunIds : Live(r)}
               mine(by) == {r \in live : run[r].by = by}
    <2>0. ServerRuns \in Nat /\ ControllerRuns \in Nat  BY RunBounds
    <2>1. live \subseteq Active(None) /\ Active(None) \subseteq RunIds
      BY <1>1 DEF RunsInv, ProcsKnown, Live, Active
    <2>2. \A by : mine(by) \subseteq Active(by) /\ Active(by) \subseteq RunIds
      BY <1>1 DEF RunsInv, ProcsKnown, Live, Active
    <2>3. \A by : Checking(by) \subseteq Checkers  BY DEF Checking
    <2> HIDE DEF live, mine
    <2>4. Cardinality(live) <= Cardinality(Active(None)) /\ Cardinality(live) \in Nat
          /\ Cardinality(Active(None)) \in Nat /\ Cardinality(Checking(None)) \in Nat
      BY <2>1, <2>3, Counts, Finite
    <2>5. Cardinality(live) + Cardinality(Checking(None)) <= ServerRuns
      BY <1>1, <2>0, <2>4 DEF RunsInv, SlotsInv, Used
    <2>6. ASSUME NEW by \in Senders PROVE Cardinality(mine(by)) + Cardinality(Checking(by)) <= ControllerRuns
      <3>1. Cardinality(mine(by)) <= Cardinality(Active(by)) /\ Cardinality(mine(by)) \in Nat
            /\ Cardinality(Active(by)) \in Nat /\ Cardinality(Checking(by)) \in Nat
        BY <2>2, <2>3, Counts, Finite
      <3>2. Used(by) <= ControllerRuns  BY <1>1 DEF RunsInv, SlotsInv
      <3> QED  BY <2>0, <3>1, <3>2 DEF Used
    <2> QED  BY <2>5, <2>6 DEF SlotsKept, live, mine
  <1> QED  BY <1>1, InitStore, InitRuns, NextRuns, PTL DEF Spec

(* A run acts only on the Bot its form chose, or on the one a typed name   *)
(* had when _prepare read it: it is pinned before its first operation, and *)
(* nothing changes the pin.                                                *)
THEOREM RunsActOnChosen == Spec => []ActsOnChosen
  <1>1. RunsInv => ActsOnChosen
    BY DEF RunsInv, RunsKnown, IsRun, Pinned, Chosen, ActsOnChosen
  <1> QED  BY <1>1, InitStore, InitRuns, NextRuns, PTL DEF Spec

(***************************************************************************)
(* The inputs of one Bot.                                                  *)
(***************************************************************************)
Inputs == [Channels -> Entries]
Jobs   == [kind : {"none", "command", "operation", "cleanup", "close", "endloop"},
           run : Runs \cup {Nobody}, q : Requests]

Workings == [at : {"idle", "record", "clean", "write", "endloop"}, job : Jobs, entries : Inputs,
             todo : SUBSET Channels, loop : Nat, sure : BOOLEAN]
Polls == [at : {"idle", "check", "pop", "write"}, loop : Nat]

\* Every mining loop that is named anywhere was given out.
Given(s, l) == s \in Inputs /\ \A c \in Channels : s[c].loop <= l

\* A journal record names inputs of runs, and does not say what was acknowledged.
Journal(j, l) ==
  /\ j.runs \subseteq Runs /\ Given(j.owned, l)
  /\ \A c \in Channels : j.owned[c] = Idle \/ (j.owned[c].by \in Runs /\ ~j.owned[c].sure)

RuntimeTyped ==
  /\ loopIds \in Nat /\ Given(rt, loopIds)
  /\ late \in Seq(Requests) /\ \A i \in DOMAIN late : late[i].loop <= loopIds

TablesTyped ==
  /\ Given(owners, loopIds) /\ runs \subseteq Runs /\ stage \in [Runs -> Stages]
  /\ abandoned \subseteq Channels /\ phase \in ProcessPhases /\ queue \in Seq(Jobs)

ThreadsTyped ==
  /\ wk \in Workings /\ Given(wk.entries, loopIds) /\ wk.loop <= loopIds
  /\ poll \in Polls /\ poll.loop <= loopIds
  /\ mining \in Nat /\ mining <= loopIds

\* A thread that is about to write has taken a record.
Writing(w) ==
  \/ w = "worker" /\ wk.at = "write"
  \/ w = "poll" /\ poll.at = "write"
  \/ w = "main" /\ phase = "final"
  \/ w \in Runs /\ stage[w] = "left"

JournalTaken ==
  /\ DOMAIN snap = Writers /\ Journal(file, loopIds)
  /\ \A w \in Writers : Writing(w) => Journal(snap[w], loopIds)

\* Between two processes nothing runs.
NoThreads ==
  phase \in {"down", "recovering"} =>
    /\ wk = Resting /\ poll = PollResting /\ mining = 0 /\ queue = <<>> /\ runs = {}
    /\ \A r \in Runs : stage[r] \in {"new", "gone"}

InputsTyped == RuntimeTyped /\ TablesTyped /\ ThreadsTyped /\ JournalTaken /\ NoThreads

(* What the runtime acknowledged to a run that still owns it is still that *)
(* run's: the worker makes the requests, and a late one is never sure.     *)
SureInv ==
  /\ \A c \in Channels :
       owners[c].sure /\ rt[c].sure =>
         rt[c].by = owners[c].by \/ (wk.at = "record" /\ wk.sure /\ wk.job.q.on /\ c \in wk.job.q.cs)
  /\ wk.at = "record" /\ wk.sure /\ wk.job.q.on =>
       \A c \in wk.job.q.cs : rt[c].sure => rt[c].by = wk.job.q.by
  /\ wk.at = "clean" => \A c \in wk.todo :
       wk.entries[c].sure /\ rt[c].sure => rt[c].by = wk.entries[c].by

\* Ownership e stops the input on c: it names its loop, or no loop.
Stops(e, c) == e.loop \in {0, Effective[c].loop}

Recording(c) == wk.at = "record" /\ c \in wk.job.q.cs /\ wk.job.q.on /\ wk.job.q.by \in Runs

\* While endbotd accepts work, jobs are those of players, runs and their ends.
OpenJobs ==
  /\ \A i \in DOMAIN queue : queue[i].kind = "cleanup" /\ queue[i].run \in Runs
  /\ wk.job.kind \in {"none", "command", "operation", "cleanup"} /\ wk.at # "endloop"
  /\ wk.at = "clean" => wk.job.kind = "cleanup"
  /\ wk.job.kind = "cleanup" => wk.job.run \in Runs
  /\ wk.at = "record" =>
       /\ wk.job.kind \in {"command", "operation"} /\ wk.job.q.loop = 0
       /\ wk.job.q.by \in Runs => wk.job.kind = "operation" /\ wk.job.run = wk.job.q.by
  /\ wk.at \in {"record", "write"} /\ wk.job.kind = "operation" =>
       wk.job.run \in Runs /\ stage[wk.job.run] = "waiting"
  /\ \A r \in Runs : stage[r] \in {"live", "waiting"} => r \in runs

\* A cleanup stops what its run owns, and nobody else records for the run.
OpenCleanups ==
  /\ \A r \in Runs : stage[r] = "cleaned" => OwnedBy({r}, owners) = {}
  /\ wk.at = "write" /\ wk.job.kind = "cleanup" => OwnedBy({wk.job.run}, owners) = {}
  /\ wk.at = "clean" => OwnedBy({wk.job.run}, owners) \subseteq wk.todo
  /\ wk.at = "clean" => \A c \in wk.todo \cap (Scripted \ abandoned) : Stops(wk.entries[c], c)

\* What was acknowledged and waits to be recorded is what the runtime has.
OpenRecord ==
  wk.at = "record" =>
    /\ \A c \in Scripted : Recording(c) => wk.loop \in {0, Effective[c].loop}
    /\ wk.sure => \A c \in Scripted \cap (wk.job.q.cs \cup ClearedBy(wk.job.q)) : Recording(c)

\* The loop the poll has ended is gone for good.
OpenPoll ==
  poll.at \in {"check", "pop"} =>
    poll.loop # 0 /\ ("mine" \in Scripted => Effective["mine"].loop # poll.loop)

\* The run that owns an input is in the table, and its ownership stops it.
OpenOwned == \A c \in Scripted \ abandoned : Recording(c) \/ (owners[c].by \in runs /\ Stops(owners[c], c))

OpenInv == OpenJobs /\ OpenCleanups /\ OpenRecord /\ OpenPoll /\ OpenOwned

TrackInv ==
  /\ phase = "up" => OpenInv
  /\ phase = "down" => \A c \in Scripted \ abandoned : Listed(c)
  /\ phase = "recovering" =>
       \A c \in Scripted \ abandoned : owners[c].by \in Runs /\ Stops(owners[c], c)
(***************************************************************************)
(* What the waiting requests come to, along the sequence of them.          *)
(***************************************************************************)
\* An input may end, or its loop get the identity it did not have yet.
Fades(L, v, w) ==
  w = v \/ w.by = Nobody \/ (v.loop = 0 /\ w.by = v.by /\ w.loop > L)

LEMMA FadesOn ==
  ASSUME NEW L \in Nat, NEW u, NEW v, NEW w, Fades(L, u, v), Fades(L, v, w)
  PROVE  Fades(L, u, w)
  BY DEF Fades

OneInput(e, c, q) == AppliedTo(e, c, q, 0, FALSE)

LEMMA ServedOneIs ==
  ASSUME NEW s, NEW q, NEW c \in Channels
  PROVE  ServedOne(s, q)[c] = OneInput(s[c], c, q)
  BY DEF ServedOne, Applied, OneInput, AppliedTo

LEMMA FadesStep ==
  ASSUME NEW L \in Nat, NEW c, NEW v, NEW w, NEW q \in Requests, q.loop <= L, Fades(L, v, w)
  PROVE  Fades(L, OneInput(v, c, q), OneInput(w, c, q))
  <1>1. q.loop \in Nat  BY DEF Requests
  <1>2. Idle.by = Nobody  BY DEF Idle
  <1>3. CASE c \in ClearedBy(q) \/ c \notin q.cs \/ q.on
    BY <1>2, <1>3 DEF OneInput, AppliedTo, Fades
  <1>4. CASE ~(c \in ClearedBy(q) \/ c \notin q.cs \/ q.on)
    <2>1. /\ OneInput(v, c, q) = IF q.loop \in {0, v.loop} THEN Idle ELSE v
          /\ OneInput(w, c, q) = IF q.loop \in {0, w.loop} THEN Idle ELSE w
      BY <1>4 DEF OneInput, AppliedTo
    <2>2. CASE w = v \/ w.by = Nobody  BY <1>2, <2>1, <2>2 DEF Fades
    <2>3. CASE v.loop = 0 /\ w.by = v.by /\ w.loop > L
      <3>1. q.loop # w.loop  BY <1>1, <2>3
      <3>2. CASE q.loop = 0
        <4>1. OneInput(v, c, q) = Idle /\ OneInput(w, c, q) = Idle  BY <2>1, <3>2
        <4> QED  BY <4>1 DEF Fades
      <3>3. CASE q.loop # 0
        <4>1. OneInput(v, c, q) = v /\ OneInput(w, c, q) = w  BY <2>1, <2>3, <3>1, <3>3
        <4> QED  BY <2>3, <4>1 DEF Fades
      <3> QED  BY <3>2, <3>3
    <2> QED  BY <2>2, <2>3 DEF Fades
  <1> QED  BY <1>3, <1>4

Serving(f, s, asked, n) ==
  f = [i \in 0 .. n |-> IF i = 0 THEN s ELSE ServedOne(f[i - 1], asked[i])]

(* A set of numbers has a least one.                                       *)
LEMMA LeastNumber ==
  ASSUME NEW S, S \subseteq Nat, S # {}
  PROVE  \E m \in S : \A j \in S : m <= j
  <1>1. PICK m \in S : \A j \in S : ~(<<j, m>> \in OpToRel(<, Nat))
    BY NatLessThanWellFounded, WFMin
  <1>2. \A j \in S : ~(j < m)
    BY <1>1 DEF OpToRel
  <1> QED  BY <1>2

(* The recursive function of Served exists: the shortest sequence without  *)
(* one would have one from the sequence before.                            *)
LEMMA ServingExists ==
  ASSUME NEW s, NEW asked, NEW n \in Nat
  PROVE  \E f : Serving(f, s, asked, n)
  <1> DEFINE Lacking == {k \in Nat : ~\E f : Serving(f, s, asked, k)}
  <1>1. SUFFICES ASSUME Lacking # {} PROVE FALSE  OBVIOUS
  <1>2. PICK k \in Lacking : \A j \in Lacking : k <= j
    <2>1. Lacking \subseteq Nat  OBVIOUS
    <2> HIDE DEF Lacking
    <2> QED  BY <1>1, <2>1, LeastNumber
  <1>3. k \in Nat /\ ~\E f : Serving(f, s, asked, k)  BY <1>2
  <1>4. CASE k = 0
    <2>1. Serving([i \in 0 .. 0 |-> s], s, asked, 0)  BY DEF Serving
    <2> QED  BY <1>3, <1>4, <2>1
  <1>5. CASE k # 0
    <2>1. k - 1 \in Nat /\ k - 1 \notin Lacking  BY <1>2, <1>3, <1>5
    <2>2. PICK g : Serving(g, s, asked, k - 1)  BY <2>1
    <2> DEFINE f == [i \in 0 .. k |-> IF i < k THEN g[i] ELSE ServedOne(g[k - 1], asked[k])]
    <2>3. \A i \in 0 .. k - 1 : g[i] = IF i = 0 THEN s ELSE ServedOne(g[i - 1], asked[i])
      BY <2>2, Zenon DEF Serving
    <2>4. ASSUME NEW i \in 0 .. k
          PROVE  f[i] = IF i = 0 THEN s ELSE ServedOne(f[i - 1], asked[i])
      <3>1. CASE i < k
        <4>1. i \in 0 .. k - 1 /\ f[i] = g[i]  BY <1>3, <3>1
        <4>2. i # 0 => f[i - 1] = g[i - 1]  BY <1>3, <3>1
        <4> QED  BY <2>3, <4>1, <4>2
      <3>2. CASE i = k
        <4>1. f[k] = ServedOne(g[k - 1], asked[k]) /\ f[k - 1] = g[k - 1]  BY <1>3, <1>5
        <4> QED  BY <1>5, <3>2, <4>1
      <3> QED  BY <1>3, <3>1, <3>2
    <2>5. f = [i \in 0 .. k |-> f[i]]  OBVIOUS
    <2> HIDE DEF f
    <2>6. Serving(f, s, asked, k)  BY <2>4, <2>5, Zenon DEF Serving
    <2> QED  BY <1>3, <2>6
  <1> QED  BY <1>4, <1>5

LEMMA ServedIs ==
  ASSUME NEW s, NEW asked \in Seq(Requests)
  PROVE  \E f : Serving(f, s, asked, Len(asked)) /\ Served(s, asked) = f[Len(asked)]
  <1> DEFINE f == CHOOSE g : Serving(g, s, asked, Len(asked))
  <1>1. Served(s, asked) = f[Len(asked)]  BY DEF Served, Serving
  <1>2. Serving(f, s, asked, Len(asked))
    <2>1. Len(asked) \in Nat  OBVIOUS
    <2> QED  BY <2>1, ServingExists, Zenon
  <1> QED  BY <1>1, <1>2

AllFade(L, s, t) == \A c \in Channels : Fades(L, s[c], t[c])

\* The same requests, which name no loop past L.
Alike(L, p, q, n) == \A i \in 1 .. n : p[i] = q[i] /\ p[i] \in Requests /\ p[i].loop <= L

(* The same requests keep inputs that only faded so.                       *)
LEMMA FadesAlong ==
  ASSUME NEW L \in Nat, NEW n \in Nat, NEW s, NEW t, NEW p, NEW q, NEW f, NEW g,
         Serving(f, s, p, n), Serving(g, t, q, n), Alike(L, p, q, n), AllFade(L, s, t)
  PROVE  AllFade(L, f[n], g[n])
  <1> DEFINE Bad == {k \in 0 .. n : ~AllFade(L, f[k], g[k])}
  <1>1. SUFFICES ASSUME Bad # {} PROVE FALSE  OBVIOUS
  <1>2. PICK k \in Bad : \A j \in Bad : k <= j
    <2>1. Bad \subseteq Nat  OBVIOUS
    <2> HIDE DEF Bad
    <2> QED  BY <1>1, <2>1, LeastNumber
  <1>3. k \in 0 .. n /\ ~AllFade(L, f[k], g[k])  BY <1>2
  <1>4. \A i \in 0 .. n : f[i] = IF i = 0 THEN s ELSE ServedOne(f[i - 1], p[i])
    BY Zenon DEF Serving
  <1>5. \A i \in 0 .. n : g[i] = IF i = 0 THEN t ELSE ServedOne(g[i - 1], q[i])
    BY Zenon DEF Serving
  <1>6. CASE k = 0  BY <1>3, <1>4, <1>5, <1>6
  <1>7. CASE k # 0
    <2>1. k - 1 \in 0 .. n /\ k - 1 \notin Bad /\ k \in 1 .. n  BY <1>2, <1>3, <1>7
    <2>2. AllFade(L, f[k - 1], g[k - 1])  BY <2>1
    <2> HIDE DEF Bad
    <2>4. p[k] \in Requests /\ p[k].loop <= L /\ p[k] = q[k]  BY <2>1 DEF Alike
    <2>3. f[k] = ServedOne(f[k - 1], p[k]) /\ g[k] = ServedOne(g[k - 1], p[k])
      BY <1>3, <1>4, <1>5, <1>7, <2>1, <2>4
    <2>5. ASSUME NEW c \in Channels PROVE Fades(L, f[k][c], g[k][c])
      <3>1. /\ f[k][c] = OneInput(f[k - 1][c], c, p[k])
            /\ g[k][c] = OneInput(g[k - 1][c], c, p[k])
        BY <2>3, ServedOneIs
      <3>2. Fades(L, f[k - 1][c], g[k - 1][c])  BY <2>2 DEF AllFade
      <3> QED  BY <2>4, <3>1, <3>2, FadesStep
    <2> QED  BY <1>3, <2>5 DEF AllFade
  <1> QED  BY <1>6, <1>7

LEMMA ServedEmpty ==
  ASSUME NEW s
  PROVE  Served(s, <<>>) = s
  <1> DEFINE e == <<>>
  <1>1. e \in Seq(Requests) /\ Len(e) = 0  OBVIOUS
  <1> HIDE DEF e
  <1>2. PICK f : Serving(f, s, e, Len(e)) /\ Served(s, e) = f[Len(e)]
    BY <1>1, ServedIs
  <1>3. f[0] = s
    <2>1. \A i \in 0 .. 0 : f[i] = IF i = 0 THEN s ELSE ServedOne(f[i - 1], e[i])
      BY <1>1, <1>2, Zenon DEF Serving
    <2> QED  BY <2>1
  <1> QED  BY <1>1, <1>2, <1>3 DEF e

LEMMA ServedFades ==
  ASSUME NEW L \in Nat, NEW s, NEW t, NEW asked \in Seq(Requests),
         \A i \in DOMAIN asked : asked[i].loop <= L, AllFade(L, s, t)
  PROVE  AllFade(L, Served(s, asked), Served(t, asked))
  <1>1. PICK f : Serving(f, s, asked, Len(asked)) /\ Served(s, asked) = f[Len(asked)]
    BY ServedIs
  <1>2. PICK g : Serving(g, t, asked, Len(asked)) /\ Served(t, asked) = g[Len(asked)]
    BY ServedIs
  <1>3. Len(asked) \in Nat /\ Alike(L, asked, asked, Len(asked))
    BY DEF Alike
  <1> QED  BY <1>1, <1>2, <1>3, FadesAlong

(* One more request waits: it is served after the others.                  *)
LEMMA ServedOneMore ==
  ASSUME NEW L \in Nat, NEW s, NEW asked \in Seq(Requests), NEW q \in Requests, q.loop <= L,
         \A i \in DOMAIN asked : asked[i].loop <= L
  PROVE  \A c \in Channels :
           Fades(L, OneInput(Served(s, asked)[c], c, q), Served(s, Append(asked, q))[c])
  <1> DEFINE more == Append(asked, q)
             n == Len(asked)
  <1>1. /\ more \in Seq(Requests) /\ Len(more) = n + 1 /\ n \in Nat /\ more[n + 1] = q
        /\ \A i \in 1 .. n : more[i] = asked[i] /\ asked[i] \in Requests /\ asked[i].loop <= L
    OBVIOUS
  <1> HIDE DEF more
  <1>2. PICK f : Serving(f, s, asked, n) /\ Served(s, asked) = f[n]
    BY ServedIs
  <1>3. PICK g : Serving(g, s, more, n + 1) /\ Served(s, more) = g[n + 1]
    BY <1>1, ServedIs
  <1> HIDE DEF n
  <1>4. \A i \in 0 .. n + 1 : g[i] = IF i = 0 THEN s ELSE ServedOne(g[i - 1], more[i])
    BY <1>3, Zenon DEF Serving
  <1> DEFINE h == [i \in 0 .. n |-> g[i]]
  <1>5. Serving(h, s, more, n)
    <2>1. \A i \in 0 .. n : h[i] = g[i] /\ i \in 0 .. n + 1  BY <1>1
    <2>2. \A i \in 0 .. n : i # 0 => i - 1 \in 0 .. n  BY <1>1
    <2>3. h = [i \in 0 .. n |-> h[i]]  OBVIOUS
    <2> HIDE DEF h
    <2>4. ASSUME NEW i \in 0 .. n
          PROVE  h[i] = IF i = 0 THEN s ELSE ServedOne(h[i - 1], more[i])
      <3>1. g[i] = IF i = 0 THEN s ELSE ServedOne(g[i - 1], more[i])  BY <1>4, <2>1
      <3>2. i # 0 => h[i - 1] = g[i - 1]  BY <2>1, <2>2
      <3> QED  BY <2>1, <3>1, <3>2
    <2> QED  BY <2>3, <2>4, Zenon DEF Serving
  <1>6. h[n] = g[n]  BY <1>1
  <1> HIDE DEF h
  <1>7. AllFade(L, f[n], h[n])
    <2>1. AllFade(L, s, s)  BY DEF Fades, AllFade
    <2>2. Alike(L, asked, more, n)  BY <1>1 DEF Alike
    <2> QED  BY <1>1, <1>2, <1>5, <2>1, <2>2, FadesAlong
  <1>8. g[n + 1] = ServedOne(g[n], q)
    <2>1. n + 1 \in 0 .. n + 1 /\ n + 1 # 0 /\ n + 1 - 1 = n  BY <1>1
    <2> QED  BY <1>1, <1>4, <2>1
  <1>9. ASSUME NEW c \in Channels
        PROVE  Fades(L, OneInput(Served(s, asked)[c], c, q), Served(s, more)[c])
    <2>1. Served(s, more)[c] = OneInput(g[n][c], c, q)  BY <1>3, <1>8, ServedOneIs
    <2>2. Fades(L, f[n][c], g[n][c])  BY <1>6, <1>7 DEF AllFade
    <2> QED  BY <1>2, <2>1, <2>2, FadesStep
  <1> QED  BY <1>9 DEF more

(* The first request is served: a loop it starts is a new one.             *)
LEMMA ServedFirst ==
  ASSUME NEW L \in Nat, NEW s, NEW asked \in Seq(Requests), asked # <<>>,
         \A i \in DOMAIN asked : asked[i].loop <= L
  PROVE  AllFade(L, Served(s, asked), Served(Applied(s, Head(asked), L + 1, FALSE), Tail(asked)))
  <1> DEFINE rest == Tail(asked)
             n == Len(asked)
             m == n - 1
             q == asked[1]
             t == Applied(s, q, L + 1, FALSE)
  <1>1. /\ rest \in Seq(Requests) /\ Len(rest) = m /\ m \in Nat /\ n = m + 1
        /\ Head(asked) = q /\ q \in Requests
        /\ \A i \in 1 .. m : rest[i] = asked[i + 1] /\ rest[i] \in Requests /\ rest[i].loop <= L
    OBVIOUS
  <1>2. PICK f : Serving(f, s, asked, n) /\ Served(s, asked) = f[n]
    BY ServedIs
  <1> HIDE DEF rest, n, q, m
  <1>3. PICK g : Serving(g, t, rest, m) /\ Served(t, rest) = g[m]
    BY <1>1, ServedIs
  <1>4. \A i \in 0 .. n : f[i] = IF i = 0 THEN s ELSE ServedOne(f[i - 1], asked[i])
    BY <1>2, Zenon DEF Serving
  <1> DEFINE h == [i \in 0 .. m |-> f[i + 1]]
             u == ServedOne(s, q)
  <1>5. f[1] = u
    <2>1. 1 \in 0 .. n /\ 0 \in 0 .. n /\ 1 - 1 = 0  BY <1>1
    <2>2. f[0] = s  BY <1>4, <2>1
    <2> QED  BY <1>4, <2>1, <2>2 DEF q
  <1> HIDE DEF u, t
  <1>6. Serving(h, u, rest, m)
    <2>1. \A i \in 0 .. m : h[i] = f[i + 1] /\ i + 1 \in 0 .. n /\ i + 1 # 0 /\ i + 1 - 1 = i  BY <1>1
    <2>2. \A i \in 0 .. m : i # 0 => i - 1 \in 0 .. m /\ i - 1 + 1 = i /\ i \in 1 .. m  BY <1>1
    <2>3. h = [i \in 0 .. m |-> h[i]]  OBVIOUS
    <2> HIDE DEF h
    <2>4. ASSUME NEW i \in 0 .. m
          PROVE  h[i] = IF i = 0 THEN u ELSE ServedOne(h[i - 1], rest[i])
      <3>1. CASE i = 0
        <4>1. h[i] = f[1]
          <5>1. i + 1 = 1  BY <3>1
          <5> QED  BY <2>1, <5>1
        <4> QED  BY <1>5, <3>1, <4>1
      <3>2. CASE i # 0
        <4>1. f[i + 1] = ServedOne(f[i], asked[i + 1])
          <5>1. f[i + 1] = ServedOne(f[i + 1 - 1], asked[i + 1])  BY <1>4, <2>1
          <5> QED  BY <2>1, <5>1
        <4>2. h[i - 1] = f[i]
          <5>1. h[i - 1] = f[i - 1 + 1]  BY <2>1, <2>2, <3>2
          <5> QED  BY <2>2, <3>2, <5>1
        <4>3. rest[i] = asked[i + 1]  BY <1>1, <2>2, <3>2
        <4> QED  BY <2>1, <3>2, <4>1, <4>2, <4>3
      <3> QED  BY <3>1, <3>2
    <2> QED  BY <2>3, <2>4, Zenon DEF Serving
  <1>7. h[m] = f[n]
    <2>1. m \in 0 .. m /\ m + 1 = n  BY <1>1
    <2> QED  BY <2>1
  <1> HIDE DEF h
  <1>8. AllFade(L, u, t)
    <2> SUFFICES ASSUME NEW c \in Channels PROVE Fades(L, u[c], t[c])
      BY DEF AllFade
    <2>1. u[c] = IF c \in ClearedBy(q) THEN Idle
                 ELSE IF c \notin q.cs THEN s[c]
                 ELSE IF q.on THEN [by |-> q.by, loop |-> 0, sure |-> FALSE]
                 ELSE IF q.loop \in {0, s[c].loop} THEN Idle ELSE s[c]
      BY DEF u, ServedOne, Applied, AppliedTo
    <2>2. t[c] = IF c \in ClearedBy(q) THEN Idle
                 ELSE IF c \notin q.cs THEN s[c]
                 ELSE IF q.on THEN [by |-> q.by, loop |-> IF c = "mine" THEN L + 1 ELSE 0, sure |-> FALSE]
                 ELSE IF q.loop \in {0, s[c].loop} THEN Idle ELSE s[c]
      BY DEF t, Applied, AppliedTo
    <2>3. CASE c \notin ClearedBy(q) /\ c \in q.cs /\ q.on /\ c = "mine"
      <3>1. u[c].loop = 0 /\ u[c].by = q.by  BY <2>1, <2>3
      <3>2. t[c].loop = L + 1 /\ t[c].by = q.by  BY <2>2, <2>3
      <3> QED  BY <3>1, <3>2 DEF Fades
    <2>4. CASE ~(c \notin ClearedBy(q) /\ c \in q.cs /\ q.on /\ c = "mine")
      <3>1. t[c] = u[c]
        <4>1. CASE c = "mine"  BY <2>1, <2>2, <2>4, <4>1
        <4>2. CASE c # "mine"  BY <2>1, <2>2, <4>2
        <4> QED  BY <4>1, <4>2
      <3> QED  BY <3>1 DEF Fades
    <2> QED  BY <2>3, <2>4
  <1>9. AllFade(L, h[m], g[m])
    <2>1. Alike(L, rest, rest, m)  BY <1>1 DEF Alike
    <2> QED  BY <1>1, <1>3, <1>6, <1>8, <2>1, FadesAlong
  <1> QED  BY <1>1, <1>2, <1>3, <1>7, <1>9 DEF rest, t

(***************************************************************************)
(* Types.                                                                  *)
(***************************************************************************)
LEMMA InputConstants ==
  /\ Idle \in Entries /\ Idle.loop = 0 /\ Idle.by = Nobody /\ Idle.sure = FALSE
  /\ \A l \in Nat : Given(NoInput, l)
  /\ NoRequest \in Requests /\ NoRequest.on = FALSE /\ NoRequest.loop = 0 /\ NoRequest.by = Nobody
  /\ NoJob \in Jobs /\ NoJob.kind = "none" /\ NoJob.q = NoRequest
  /\ "mine" \in Channels /\ Player \notin Runs /\ Nobody \notin Runs
  <1>1. Idle \in Entries /\ Idle.loop = 0 /\ Idle.by = Nobody /\ Idle.sure = FALSE
    BY DEF Idle, Entries
  <1>2. \A l \in Nat : Given(NoInput, l)
    BY <1>1 DEF Given, NoInput, Inputs
  <1>3. NoRequest \in Requests /\ NoRequest.on = FALSE /\ NoRequest.loop = 0 /\ NoRequest.by = Nobody
    BY DEF NoRequest, StopAll, Requests
  <1>4. NoJob \in Jobs /\ NoJob.kind = "none" /\ NoJob.q = NoRequest
    BY <1>3 DEF NoJob, WorkerJob, Jobs
  <1> QED  BY <1>1, <1>2, <1>3, <1>4, InputsAssumption

\* What a player or a run may ask for.
LEMMA AskedRequests ==
  ASSUME NEW by \in Runs \cup {Player}, NEW q \in Asked(by)
  PROVE  q \in Requests /\ q.loop = 0 /\ q.by = by /\ (q.on => \E c \in Channels : q.cs = {c})
  <1>0. by \in Runs \cup {Player, Nobody}  OBVIOUS
  <1>1. CASE \E c \in Channels : q = BeginInput(c, by)  BY <1>0, <1>1 DEF BeginInput, Requests
  <1>2. CASE \E c \in Channels : q = End(c, by, 0)  BY <1>0, <1>2 DEF End, Requests
  <1>3. CASE q = StopAll(by)  BY <1>0, <1>3 DEF StopAll, Requests
  <1> QED  BY <1>1, <1>2, <1>3 DEF Asked

LEMMA EndRequests ==
  ASSUME NEW c \in Channels, NEW l \in Nat
  PROVE  /\ End(c, Nobody, l) \in Requests /\ End(c, Nobody, l).loop = l
         /\ End(c, Nobody, l).on = FALSE /\ End(c, Nobody, l).cs = {c}
         /\ ClearedBy(End(c, Nobody, l)) = {}
  BY DEF End, Requests, ClearedBy

LEMMA GivenGrows ==
  ASSUME NEW l \in Nat, NEW m \in Nat, l <= m
  PROVE  /\ \A s : Given(s, l) => Given(s, m)
         /\ \A j : Journal(j, l) => Journal(j, m)
  <1>1. ASSUME NEW s, Given(s, l) PROVE Given(s, m)
    <2>1. \A c \in Channels : s[c] \in Entries /\ s[c].loop \in Nat /\ s[c].loop <= l
      BY <1>1 DEF Given, Inputs, Entries
    <2> QED  BY <1>1, <2>1 DEF Given
  <1> QED  BY <1>1 DEF Journal

LEMMA AppliedGiven ==
  ASSUME NEW l \in Nat, NEW m \in Nat, l <= m, NEW s, Given(s, l), NEW q \in Requests,
         NEW i \in Nat, q.on /\ "mine" \in q.cs => i <= m, NEW sure \in BOOLEAN
  PROVE  Given(Applied(s, q, i, sure), m)
  <1>1. \A c \in Channels : s[c] \in Entries /\ s[c].loop \in Nat /\ s[c].loop <= l
    BY DEF Given, Inputs, Entries
  <1>2. q.by \in Runs \cup {Player, Nobody}  BY DEF Requests
  <1>3. ASSUME NEW c \in Channels PROVE AppliedTo(s[c], c, q, i, sure) \in Entries /\ AppliedTo(s[c], c, q, i, sure).loop <= m
    <2>1. s[c] \in Entries /\ s[c].loop <= m /\ Idle \in Entries /\ Idle.loop = 0
      BY <1>1, InputConstants
    <2>2. CASE c \notin ClearedBy(q) /\ c \in q.cs /\ q.on
      <3> DEFINE e == [by |-> q.by, loop |-> IF c = "mine" THEN i ELSE 0, sure |-> sure]
      <3>1. AppliedTo(s[c], c, q, i, sure) = e  BY <2>2 DEF AppliedTo
      <3>2. e \in Entries /\ e.loop <= m  BY <1>2, <2>2 DEF Entries
      <3> QED  BY <3>1, <3>2
    <2>3. CASE ~(c \notin ClearedBy(q) /\ c \in q.cs /\ q.on)
      <3>1. AppliedTo(s[c], c, q, i, sure) \in {s[c], Idle}  BY <2>3 DEF AppliedTo
      <3> QED  BY <2>1, <3>1
    <2> QED  BY <2>2, <2>3
  <1> QED  BY <1>3 DEF Given, Applied, Inputs

LEMMA AnswerTyped ==
  ASSUME RuntimeTyped, NEW q \in Requests, q.loop <= loopIds, NEW out, NEW k, Answer(q, out, k)
  PROVE  RuntimeTyped' /\ loopIds <= loopIds'
  <1>1. CASE UNCHANGED <<rt, late, loopIds>>  BY <1>1 DEF RuntimeTyped
  <1>2. CASE rt' = Applied(rt, q, loopIds + 1, TRUE)
             /\ loopIds' = (IF q.on /\ "mine" \in q.cs THEN loopIds + 1 ELSE loopIds) /\ UNCHANGED late
    <2>1. loopIds \in Nat /\ loopIds' \in Nat /\ loopIds <= loopIds' /\ loopIds + 1 \in Nat
      BY <1>2 DEF RuntimeTyped
    <2>2. Given(rt, loopIds) /\ (q.on /\ "mine" \in q.cs => loopIds + 1 <= loopIds')
      BY <1>2, <2>1 DEF RuntimeTyped
    <2>3. Given(rt', loopIds')  BY <1>2, <2>1, <2>2, AppliedGiven
    <2>4. \A i \in DOMAIN late : late[i].loop \in Nat /\ late[i].loop <= loopIds'
      <3>1. \A i \in DOMAIN late : late[i] \in Requests /\ late[i].loop <= loopIds
        BY DEF RuntimeTyped
      <3> QED  BY <2>1, <3>1 DEF Requests
    <2> QED  BY <1>2, <2>1, <2>3, <2>4 DEF RuntimeTyped
  <1>3. CASE late' = Append(late, q) /\ UNCHANGED <<rt, loopIds>>
    <2>1. late' \in Seq(Requests) /\ \A i \in DOMAIN late' : late'[i].loop <= loopIds
      BY <1>3 DEF RuntimeTyped
    <2> QED  BY <1>3, <2>1 DEF RuntimeTyped
  <1> QED  BY <1>1, <1>2, <1>3 DEF Answer

LEMMA ServeLateTyped ==
  ASSUME RuntimeTyped, ServeLate
  PROVE  RuntimeTyped' /\ loopIds <= loopIds'
  <1> DEFINE q == Head(late)
  <1>1. late # <<>> /\ late \in Seq(Requests) /\ q \in Requests /\ late' = Tail(late)
        /\ rt' = Applied(rt, q, loopIds + 1, FALSE)
        /\ loopIds' = IF q.on /\ "mine" \in q.cs THEN loopIds + 1 ELSE loopIds
    BY DEF ServeLate, RuntimeTyped
  <1>2. loopIds \in Nat /\ loopIds' \in Nat /\ loopIds <= loopIds' /\ loopIds + 1 \in Nat
    BY <1>1 DEF RuntimeTyped
  <1>3. \A i \in DOMAIN Tail(late) : Tail(late)[i] \in Requests /\ Tail(late)[i].loop <= loopIds
    BY <1>1 DEF RuntimeTyped
  <1>4. \A i \in DOMAIN late' : late'[i].loop \in Nat /\ late'[i].loop <= loopIds'
    BY <1>1, <1>2, <1>3 DEF Requests
  <1>5. late' \in Seq(Requests)  BY <1>1
  <1> HIDE DEF q
  <1>6. Given(rt, loopIds) /\ (q.on /\ "mine" \in q.cs => loopIds + 1 <= loopIds')
    BY <1>1, <1>2 DEF RuntimeTyped
  <1>7. Given(rt', loopIds')  BY <1>1, <1>2, <1>6, AppliedGiven
  <1> QED  BY <1>2, <1>4, <1>5, <1>7 DEF RuntimeTyped

\* What a step of a thread may leave of the runtime.
LEMMA RuntimeNext ==
  ASSUME InputsTyped, [InputsNext]_endbotdVars
  PROVE  RuntimeTyped' /\ loopIds <= loopIds'
  <1> USE DEF inputVars, threadVars
  <1>0. RuntimeTyped /\ loopIds \in Nat  BY DEF InputsTyped, RuntimeTyped
  <1>1. CASE UNCHANGED <<rt, late, loopIds>>  BY <1>0, <1>1 DEF RuntimeTyped
  <1>2. CASE ServeLate  BY <1>0, <1>2, ServeLateTyped
  <1>3. ASSUME NEW c \in Channels, InputEnds(c) PROVE RuntimeTyped' /\ loopIds <= loopIds'
    <2>1. rt' = [rt EXCEPT ![c] = Idle] /\ UNCHANGED <<late, loopIds>>  BY <1>3 DEF InputEnds
    <2>2. Given(rt', loopIds)  BY <1>0, <2>1, InputConstants DEF RuntimeTyped, Given, Inputs
    <2> QED  BY <1>0, <2>1, <2>2 DEF RuntimeTyped
  <1>4. ASSUME NEW j, j.q \in Requests, j.q.loop = 0, Request(j)
        PROVE  RuntimeTyped' /\ loopIds <= loopIds'
    <2>1. PICK out \in Outcomes : Answer(j.q, out, [count EXCEPT !.ops = @ + 1])
      BY <1>4 DEF Request
    <2>2. j.q.loop <= loopIds  BY <1>0, <1>4
    <2> HIDE DEF inputVars, threadVars
    <2> QED  BY <1>0, <1>4, <2>1, <2>2, AnswerTyped
  <1>5. ASSUME NEW by \in Runs \cup {Player}, NEW q \in Asked(by), NEW kind, NEW r,
               Request(WorkerJob(kind, r, q))
        PROVE  RuntimeTyped' /\ loopIds <= loopIds'
    <2>1. q \in Requests /\ q.loop = 0  BY AskedRequests
    <2>2. WorkerJob(kind, r, q).q = q  BY DEF WorkerJob
    <2> QED  BY <1>4, <1>5, <2>1, <2>2
  <1>6. CASE \E r \in Runs : \E q \in Asked(r) : WorkerOperation(r, q)
    <2>1. PICK r \in Runs : \E q \in Asked(r) : WorkerOperation(r, q)  BY <1>6
    <2>2. PICK q \in Asked(r) : WorkerOperation(r, q)  BY <2>1
    <2> QED  BY <1>5, <2>1, <2>2 DEF WorkerOperation
  <1>7. CASE \E q \in Asked(Player) : WorkerCommand(q)
    <2>1. PICK q \in Asked(Player) : WorkerCommand(q)  BY <1>7
    <2> QED  BY <1>5, <2>1 DEF WorkerCommand
  <1>8. ASSUME NEW s, Given(s, loopIds), NEW todo \in SUBSET Channels, NEW c \in todo, NEW out,
               StopOwned(s, todo, c, out)
        PROVE  RuntimeTyped' /\ loopIds <= loopIds'
    <2>1. s[c].loop \in Nat /\ s[c].loop <= loopIds  BY <1>8 DEF Given, Inputs, Entries
    <2>2. Answer(End(c, Nobody, s[c].loop), out, count)  BY <1>8 DEF StopOwned
    <2> QED  BY <1>0, <2>1, <2>2, EndRequests, AnswerTyped
  <1>9. CASE WorkerClean
    <2>1. PICK c \in wk.todo, out \in Outcomes : StopOwned(wk.entries, wk.todo, c, out)
      BY <1>9 DEF WorkerClean
    <2>2. wk.todo \subseteq Channels /\ Given(wk.entries, loopIds)
      BY DEF InputsTyped, ThreadsTyped, Workings
    <2> QED  BY <1>8, <2>1, <2>2
  <1>10. CASE RecoveryStops
    <2>1. PICK c \in OwnedBy(Runs, owners), out \in Outcomes : StopOwned(owners, OwnedBy(Runs, owners), c, out)
      BY <1>10 DEF RecoveryStops
    <2>2. OwnedBy(Runs, owners) \subseteq Channels /\ Given(owners, loopIds)
      BY DEF InputsTyped, TablesTyped, OwnedBy
    <2> QED  BY <1>8, <2>1, <2>2
  <1>11. CASE WorkerEndLoop \/ PollEnds
    <2>1. CASE UNCHANGED <<rt, late, loopIds>>  BY <1>1, <2>1
    <2>2. CASE \E out \in Outcomes : \E k : Answer(End("mine", Nobody, mining), out, k)
      <3>1. mining \in Nat /\ mining <= loopIds /\ "mine" \in Channels
        BY InputConstants DEF InputsTyped, ThreadsTyped
      <3> QED  BY <1>0, <2>2, <3>1, EndRequests, AnswerTyped
    <2> QED  BY <1>11, <2>1, <2>2 DEF WorkerEndLoop, PollEnds
  <1>12. CASE \E r \in Runs : RunThread(r) \/ WorkerStart(r)
    BY <1>1, <1>12 DEF RunThread, RunEnds, RunLeaves, RunRecords, WorkerStart
  <1>13. CASE WorkerRecord \/ WorkerCleanup \/ WorkerWrite
    BY <1>1, <1>13 DEF WorkerRecord, WorkerCleanup, WorkerWrite
  <1>14. CASE PollRenews \/ PollChecks \/ PollPops \/ PollWrites
    BY <1>1, <1>14 DEF PollRenews, PollChecks, PollPops, PollWrites
  <1>15. CASE CloseBegins \/ CloseTakes \/ CloseWrites \/ StartsAgain \/ RecoveryEnds
    BY <1>1, <1>15 DEF CloseBegins, CloseTakes, CloseWrites, StartsAgain, RecoveryEnds
  <1>16. CASE Crash \/ ProcessExits
    BY <1>1, <1>16 DEF Crash, ProcessExits, Dies
  <1>17. CASE UNCHANGED endbotdVars  BY <1>1, <1>17 DEF endbotdVars
  <1> QED
    BY <1>2, <1>3, <1>9, <1>10, <1>11, <1>12, <1>13, <1>14, <1>15, <1>16, <1>17, <1>6, <1>7
    DEF InputsNext, Runtime, Worker, Polling, Process


LEMMA WithoutGiven ==
  ASSUME NEW l \in Nat, NEW s, Given(s, l), NEW cs
  PROVE  Given(Without(s, cs), l)
  BY InputConstants DEF Given, Without, Inputs

LEMMA JournalOfTyped ==
  ASSUME NEW l \in Nat, NEW rs \in SUBSET Runs, NEW s, Given(s, l)
  PROVE  Journal(JournalOf(rs, s), l)
  <1> DEFINE j == JournalOf(rs, s)
             e(c) == IF s[c].by \in rs THEN [s[c] EXCEPT !.sure = FALSE] ELSE Idle
  <1>1. j.runs = rs /\ j.owned = [c \in Channels |-> e(c)]  BY DEF JournalOf
  <1>2. ASSUME NEW c \in Channels
        PROVE  e(c) \in Entries /\ e(c).loop <= l /\ (e(c) = Idle \/ (e(c).by \in Runs /\ ~e(c).sure))
    <2>1. s[c] \in Entries /\ s[c].loop <= l  BY DEF Given, Inputs
    <2>2. CASE s[c].by \in rs  BY <2>1, <2>2 DEF Entries
    <2>3. CASE s[c].by \notin rs  BY <2>3, InputConstants
    <2> QED  BY <2>2, <2>3
  <1> HIDE DEF j, e
  <1>3. Given(j.owned, l)  BY <1>1, <1>2 DEF Given, Inputs
  <1>4. Journal(j, l)  BY <1>1, <1>2, <1>3 DEF Journal
  <1> QED  BY <1>4 DEF j

LEMMA RecordedGiven ==
  ASSUME NEW l \in Nat, Given(owners, l), NEW q \in Requests, NEW i \in Nat, i <= l, NEW sure \in BOOLEAN
  PROVE  Given(Recorded(q, i, sure), l)
  <1> DEFINE mine(c) == [by |-> q.by, loop |-> IF c = "mine" THEN i ELSE 0, sure |-> sure]
             r(c) == IF c \in q.cs THEN IF q.on /\ q.by \in Runs THEN mine(c) ELSE Idle
                     ELSE IF sure /\ c \in ClearedBy(q) THEN Idle
                     ELSE owners[c]
  <1>1. ASSUME NEW c \in Channels PROVE mine(c) \in Entries /\ mine(c).loop <= l
    BY DEF Entries, Requests
  <1>2. ASSUME NEW c \in Channels PROVE r(c) \in Entries /\ r(c).loop <= l
    <2>1. owners[c] \in Entries /\ owners[c].loop <= l  BY DEF Given, Inputs
    <2>2. mine(c) \in Entries /\ mine(c).loop <= l  BY <1>1
    <2>3. r(c) \in {mine(c), Idle, owners[c]}  OBVIOUS
    <2> HIDE DEF r, mine
    <2> QED  BY <2>1, <2>2, <2>3, InputConstants
  <1>3. Recorded(q, i, sure) \in {owners, [c \in Channels |-> r(c)]}  BY DEF Recorded
  <1> HIDE DEF r
  <1>4. Given([c \in Channels |-> r(c)], l)  BY <1>2 DEF Given, Inputs
  <1> QED  BY <1>3, <1>4

(* What was named stays given out.                                         *)
Grown(l) ==
  /\ l \in Nat /\ loopIds <= l /\ Given(owners, l) /\ Given(wk.entries, l) /\ wk.loop <= l
  /\ poll.loop <= l /\ mining <= l /\ Journal(file, l)
  /\ \A w \in Writers : Journal(snap[w], loopIds) => Journal(snap[w], l)

LEMMA StateGrown ==
  ASSUME InputsTyped, [InputsNext]_endbotdVars
  PROVE  Grown(loopIds')
  <1>1. loopIds \in Nat /\ loopIds' \in Nat /\ loopIds <= loopIds'
    BY RuntimeNext DEF InputsTyped, RuntimeTyped
  <1>2. Given(owners, loopIds') /\ Given(wk.entries, loopIds') /\ Journal(file, loopIds')
    BY <1>1, GivenGrows DEF InputsTyped, TablesTyped, ThreadsTyped, JournalTaken
  <1>3. wk.loop <= loopIds' /\ poll.loop <= loopIds' /\ mining <= loopIds'
    <2>1. wk.loop \in Nat /\ poll.loop \in Nat /\ mining \in Nat
      BY DEF InputsTyped, ThreadsTyped, Workings, Polls
    <2> QED  BY <1>1, <2>1 DEF InputsTyped, ThreadsTyped
  <1>4. \A w \in Writers : Journal(snap[w], loopIds) => Journal(snap[w], loopIds')
    BY <1>1, GivenGrows
  <1> QED  BY <1>1, <1>2, <1>3, <1>4 DEF Grown

LEMMA GrownKept ==
  ASSUME InputsTyped, NEW l, Grown(l)
  PROVE  /\ l \in Nat /\ Given(owners, l) /\ Given(wk.entries, l) /\ wk.loop <= l
         /\ poll.loop <= l /\ mining <= l /\ Journal(file, l) /\ Given(file.owned, l)
         /\ \A w \in Writers : Writing(w) => Journal(snap[w], l)
  BY DEF InputsTyped, JournalTaken, Grown, Journal
LEMMA TablesNext ==
  ASSUME InputsTyped, [InputsNext]_endbotdVars
  PROVE  TablesTyped'
  <1> USE DEF inputVars, threadVars
  <1>0. Grown(loopIds')  BY StateGrown
  <1>1. /\ loopIds' \in Nat /\ Given(owners, loopIds') /\ Given(file.owned, loopIds')
        /\ wk.loop \in Nat /\ wk.loop <= loopIds'
    BY <1>0, GrownKept DEF InputsTyped, ThreadsTyped, Workings
  <1>2. /\ runs \subseteq Runs /\ stage \in [Runs -> Stages] /\ abandoned \subseteq Channels
        /\ phase \in ProcessPhases /\ queue \in Seq(Jobs)
    BY DEF InputsTyped, TablesTyped
  <1>3. /\ wk.job \in Jobs /\ wk.job.q \in Requests /\ wk.job.run \in Runs \cup {Nobody}
        /\ wk.sure \in BOOLEAN /\ wk.todo \subseteq Channels
    BY DEF InputsTyped, ThreadsTyped, Workings, Jobs
  <1>4. Given(owners', loopIds')
    <2>1. CASE UNCHANGED owners  BY <1>1, <2>1
    <2>2. CASE WorkerRecord
      <3>1. owners' = Recorded(wk.job.q, wk.loop, wk.sure)  BY <2>2 DEF WorkerRecord
      <3> QED  BY <1>1, <1>3, <3>1, RecordedGiven
    <2>3. CASE \E s \in {wk.entries, owners} : \E todo, c, out : StopOwned(s, todo, c, out)
      <3>1. \E cs : owners' = Without(owners, cs)  BY <2>3 DEF StopOwned
      <3> QED  BY <1>1, <3>1, WithoutGiven
    <2>4. CASE PollPops
      <3>1. owners' = Without(owners, {"mine"})  BY <2>4 DEF PollPops
      <3> QED  BY <1>1, <3>1, WithoutGiven
    <2>5. CASE Crash \/ ProcessExits
      <3>1. owners' = NoInput  BY <2>5 DEF Crash, ProcessExits, Dies
      <3> QED  BY <1>1, <3>1, InputConstants
    <2>6. CASE StartsAgain  BY <1>1, <2>6 DEF StartsAgain
    <2>7. CASE WorkerClean \/ RecoveryStops  BY <2>3, <2>7 DEF WorkerClean, RecoveryStops
    <2>8. CASE Runtime \/ UNCHANGED endbotdVars
      BY <2>1, <2>8 DEF Runtime, ServeLate, InputEnds, endbotdVars
    <2>9. CASE \E r \in Runs : RunThread(r)
      BY <2>1, <2>9 DEF RunThread, RunEnds, RunLeaves, RunRecords
    <2>10. CASE Polling
      BY <2>1, <2>4, <2>10 DEF Polling, PollRenews, PollEnds, PollChecks, PollWrites
    <2>11. CASE WorkerCleanup \/ WorkerWrite \/ WorkerEndLoop \/ \E r \in Runs : WorkerStart(r)
      BY <2>1, <2>11 DEF WorkerCleanup, WorkerWrite, WorkerEndLoop, WorkerStart
    <2>12. CASE \E j : Request(j)  BY <2>1, <2>12 DEF Request
    <2>13. CASE Worker
      BY <2>2, <2>7, <2>11, <2>12, <2>13 DEF Worker, WorkerOperation, WorkerCommand
    <2>14. CASE Process
      BY <2>1, <2>5, <2>6, <2>7, <2>14 DEF Process, CloseBegins, CloseTakes, CloseWrites, RecoveryEnds
    <2> QED  BY <2>8, <2>9, <2>10, <2>13, <2>14 DEF InputsNext
  <1>5. runs' \subseteq Runs
    <2>1. CASE UNCHANGED runs  BY <1>2, <2>1
    <2>2. CASE \E r \in Runs : WorkerStart(r) \/ RunLeaves(r)  BY <1>2, <2>2 DEF WorkerStart, RunLeaves
    <2>3. CASE Crash \/ ProcessExits  BY <2>3 DEF Crash, ProcessExits, Dies
    <2>4. CASE Runtime \/ UNCHANGED endbotdVars
      BY <2>1, <2>4 DEF Runtime, ServeLate, InputEnds, endbotdVars
    <2>5. CASE \E r \in Runs : RunThread(r)
      BY <2>1, <2>2, <2>5 DEF RunThread, RunEnds, RunRecords
    <2>6. CASE Polling
      BY <2>1, <2>6 DEF Polling, PollRenews, PollEnds, PollChecks, PollPops, PollWrites
    <2>7. CASE \E j : Request(j)  BY <2>1, <2>7 DEF Request
    <2>8. CASE Worker
      BY <2>1, <2>2, <2>7, <2>8 DEF Worker, WorkerOperation, WorkerCommand, WorkerRecord, WorkerCleanup,
           WorkerClean, WorkerWrite, WorkerEndLoop
    <2>9. CASE Process
      BY <2>1, <2>3, <2>9 DEF Process, CloseBegins, CloseTakes, CloseWrites, StartsAgain, RecoveryStops,
           RecoveryEnds
    <2> QED  BY <2>4, <2>5, <2>6, <2>8, <2>9 DEF InputsNext
  <1>6. stage' \in [Runs -> Stages]
    <2>1. CASE UNCHANGED stage  BY <1>2, <2>1
    <2>2. CASE \E r : \E s \in Stages : stage' = [stage EXCEPT ![r] = s]  BY <1>2, <2>2
    <2>3. CASE Crash \/ ProcessExits
      BY <1>2, <2>3 DEF Crash, ProcessExits, Stages
    <2>4. CASE Runtime \/ UNCHANGED endbotdVars
      BY <2>1, <2>4 DEF Runtime, ServeLate, InputEnds, endbotdVars
    <2>5. ASSUME NEW r \in Runs, RunThread(r) \/ WorkerStart(r) PROVE stage' \in [Runs -> Stages]
      <3>1. \E s \in Stages : stage' = [stage EXCEPT ![r] = s]
        BY <2>5 DEF RunThread, RunEnds, RunLeaves, RunRecords, WorkerStart, Stages
      <3> QED  BY <2>2, <3>1
    <2>6. CASE Polling
      BY <2>1, <2>6 DEF Polling, PollRenews, PollEnds, PollChecks, PollPops, PollWrites
    <2>7. ASSUME NEW r \in Runs, NEW q, WorkerOperation(r, q) PROVE stage' \in [Runs -> Stages]
      <3>1. "waiting" \in Stages /\ stage' = [stage EXCEPT ![r] = "waiting"]
        BY <2>7 DEF WorkerOperation, Stages
      <3> QED  BY <2>2, <3>1
    <2>8. CASE WorkerWrite
      <3>1. stage' = stage \/ stage' = [stage EXCEPT ![wk.job.run] = "live"]
            \/ stage' = [stage EXCEPT ![wk.job.run] = "cleaned"]
        BY <2>8 DEF WorkerWrite
      <3>2. "live" \in Stages /\ "cleaned" \in Stages  BY DEF Stages
      <3> QED  BY <2>1, <2>2, <3>1, <3>2
    <2>9. CASE Worker
      BY <2>1, <2>5, <2>7, <2>8, <2>9 DEF Worker, WorkerCommand, WorkerRecord, WorkerCleanup,
           WorkerClean, WorkerEndLoop
    <2>10. CASE Process
      BY <2>1, <2>3, <2>10 DEF Process, CloseBegins, CloseTakes, CloseWrites, StartsAgain, RecoveryStops,
           RecoveryEnds
    <2> QED  BY <2>4, <2>5, <2>6, <2>9, <2>10 DEF InputsNext
  <1>7. abandoned' \subseteq Channels
    <2>1. CASE UNCHANGED abandoned  BY <1>2, <2>1
    <2>2. CASE \E j : Request(j)
      <3>1. \E cs : abandoned' = abandoned \ cs \/ abandoned' = abandoned
        BY <2>2 DEF Request
      <3> QED  BY <1>2, <3>1
    <2>3. ASSUME NEW s, NEW todo \in SUBSET Channels, NEW c \in todo, NEW out, StopOwned(s, todo, c, out)
          PROVE  abandoned' \subseteq Channels
      <3>1. Dropped(s, todo, c, out) \subseteq Channels  BY DEF Dropped
      <3>2. \/ abandoned' = abandoned \cup Dropped(s, todo, c, out)
            \/ abandoned' = abandoned \ {c} \/ abandoned' = abandoned
        BY <2>3 DEF StopOwned
      <3> QED  BY <1>2, <3>1, <3>2
    <2>4. CASE PollPops  BY <1>2, <2>4, InputConstants DEF PollPops
    <2>5. CASE Crash \/ ProcessExits
      <3>1. abandoned' = abandoned \cup {c \in Scripted : ~Listed(c)}
        BY <2>5 DEF Crash, ProcessExits, Dies
      <3> QED  BY <1>2, <3>1 DEF Scripted
    <2>6. CASE WorkerClean  BY <1>3, <2>3, <2>6 DEF WorkerClean
    <2>7. CASE RecoveryStops
      <3>1. OwnedBy(Runs, owners) \subseteq Channels  BY DEF OwnedBy
      <3> QED  BY <2>3, <2>7, <3>1 DEF RecoveryStops
    <2>8. CASE Runtime \/ UNCHANGED endbotdVars
      BY <2>1, <2>8 DEF Runtime, ServeLate, InputEnds, endbotdVars
    <2>9. CASE \E r \in Runs : RunThread(r)
      BY <2>1, <2>9 DEF RunThread, RunEnds, RunLeaves, RunRecords
    <2>10. CASE Polling
      BY <2>1, <2>4, <2>10 DEF Polling, PollRenews, PollEnds, PollChecks, PollWrites
    <2>11. CASE WorkerRecord \/ WorkerCleanup \/ WorkerWrite \/ WorkerEndLoop \/ \E r \in Runs : WorkerStart(r)
      BY <2>1, <2>11 DEF WorkerRecord, WorkerCleanup, WorkerWrite, WorkerEndLoop, WorkerStart
    <2>12. CASE Worker
      BY <2>2, <2>6, <2>11, <2>12 DEF Worker, WorkerOperation, WorkerCommand
    <2>13. CASE Process
      BY <2>1, <2>5, <2>7, <2>13 DEF Process, CloseBegins, CloseTakes, CloseWrites, StartsAgain, RecoveryEnds
    <2> QED  BY <2>8, <2>9, <2>10, <2>12, <2>13 DEF InputsNext
  <1>8. phase' \in ProcessPhases
    <2>1. CASE UNCHANGED phase  BY <1>2, <2>1
    <2>2. CASE Process
      BY <1>2, <2>2 DEF Process, CloseBegins, CloseTakes, CloseWrites, StartsAgain, RecoveryStops,
           RecoveryEnds, Crash, ProcessExits, Dies, ProcessPhases
    <2>3. CASE Runtime \/ UNCHANGED endbotdVars
      BY <2>1, <2>3 DEF Runtime, ServeLate, InputEnds, endbotdVars
    <2>4. CASE \E r \in Runs : RunThread(r)
      BY <2>1, <2>4 DEF RunThread, RunEnds, RunLeaves, RunRecords
    <2>5. CASE Polling
      BY <2>1, <2>5 DEF Polling, PollRenews, PollEnds, PollChecks, PollPops, PollWrites
    <2>6. CASE \E j : Request(j)  BY <2>1, <2>6 DEF Request
    <2>7. CASE Worker
      BY <2>1, <2>6, <2>7 DEF Worker, WorkerOperation, WorkerCommand, WorkerRecord, WorkerCleanup,
           WorkerClean, WorkerWrite, WorkerEndLoop, WorkerStart
    <2> QED  BY <2>2, <2>3, <2>4, <2>5, <2>7 DEF InputsNext
  <1>9. queue' \in Seq(Jobs)
    <2>1. CASE UNCHANGED queue  BY <1>2, <2>1
    <2>2. ASSUME NEW r \in Runs \cup {Nobody}, NEW kind \in {"cleanup", "close"},
                 Enqueue(WorkerJob(kind, r, NoRequest))
          PROVE  queue' \in Seq(Jobs)
      <3>1. WorkerJob(kind, r, NoRequest) \in Jobs  BY InputConstants DEF WorkerJob, Jobs
      <3> QED  BY <1>2, <2>2, <3>1 DEF Enqueue
    <2>3. CASE CloseBegins  BY <2>2, <2>3 DEF CloseBegins
    <2>4. CASE WorkerCleanup  BY <1>2, <2>4 DEF WorkerCleanup
    <2>5. CASE Crash \/ ProcessExits
      <3>1. queue' = <<>>  BY <2>5 DEF Crash, ProcessExits, Dies
      <3> QED  BY <3>1
    <2>6. CASE Runtime \/ UNCHANGED endbotdVars
      BY <2>1, <2>6 DEF Runtime, ServeLate, InputEnds, endbotdVars
    <2>7. CASE \E r \in Runs : RunThread(r)
      BY <2>1, <2>2, <2>7 DEF RunThread, RunEnds, RunLeaves, RunRecords
    <2>8. CASE Polling
      BY <2>1, <2>8 DEF Polling, PollRenews, PollEnds, PollChecks, PollPops, PollWrites
    <2>9. CASE \E j : Request(j)  BY <2>1, <2>9 DEF Request
    <2>10. CASE Worker
      BY <2>1, <2>4, <2>9, <2>10 DEF Worker, WorkerOperation, WorkerCommand, WorkerRecord,
           WorkerClean, WorkerWrite, WorkerEndLoop, WorkerStart
    <2>11. CASE Process
      BY <2>1, <2>3, <2>5, <2>11 DEF Process, CloseTakes, CloseWrites, StartsAgain, RecoveryStops, RecoveryEnds
    <2> QED  BY <2>6, <2>7, <2>8, <2>10, <2>11 DEF InputsNext
  <1> QED  BY <1>4, <1>5, <1>6, <1>7, <1>8, <1>9 DEF TablesTyped

WorkingTyped(w, l) == w \in Workings /\ Given(w.entries, l) /\ w.loop <= l

LEMMA NewWorking ==
  ASSUME NEW l \in Nat, NEW at \in {"idle", "record", "clean", "write", "endloop"}, NEW j \in Jobs,
         NEW s, Given(s, l), NEW todo \in SUBSET Channels, NEW i \in Nat, i <= l, NEW sure \in BOOLEAN
  PROVE  WorkingTyped(Working(at, j, s, todo, i, sure), l)
  BY DEF WorkingTyped, Working, Workings, Given

LEMMA UnsureWorking ==
  ASSUME NEW l \in Nat, NEW at \in {"idle", "record", "clean", "write", "endloop"}, NEW j \in Jobs,
         NEW s, Given(s, l), NEW todo \in SUBSET Channels
  PROVE  WorkingTyped(Working(at, j, s, todo, 0, FALSE), l)
  BY DEF WorkingTyped, Working, Workings, Given

LEMMA RestingTyped ==
  ASSUME NEW l \in Nat
  PROVE  /\ WorkingTyped(Resting, l) /\ Resting \in Workings /\ Resting.at = "idle"
         /\ Resting.job = NoJob /\ Resting.loop = 0 /\ Resting.sure = FALSE
         /\ \A at \in {"write", "endloop"} :
              /\ WorkingTyped([Resting EXCEPT !.at = at], l)
              /\ [Resting EXCEPT !.at = at].at = at /\ [Resting EXCEPT !.at = at].job = NoJob
  <1>1. /\ Resting = [at |-> "idle", job |-> NoJob, entries |-> NoInput, todo |-> {}, loop |-> 0, sure |-> FALSE]
        /\ Given(NoInput, l) /\ NoInput \in Inputs /\ NoJob \in Jobs
    BY InputConstants DEF Resting, Working, Given
  <1>2. Resting \in Workings  BY <1>1 DEF Workings
  <1>3. WorkingTyped(Resting, l)  BY <1>1, <1>2 DEF WorkingTyped
  <1>4. ASSUME NEW at \in {"write", "endloop"}
        PROVE  /\ WorkingTyped([Resting EXCEPT !.at = at], l)
               /\ [Resting EXCEPT !.at = at].at = at /\ [Resting EXCEPT !.at = at].job = NoJob
    <2> DEFINE w == [Resting EXCEPT !.at = at]
    <2>1. /\ w \in Workings /\ w.entries = NoInput /\ w.loop = 0 /\ w.at = at /\ w.job = NoJob
      BY <1>1, <1>2 DEF Workings
    <2> HIDE DEF w
    <2>2. WorkingTyped(w, l)  BY <1>1, <2>1 DEF WorkingTyped
    <2> QED  BY <2>1, <2>2 DEF w
  <1> QED  BY <1>1, <1>2, <1>3, <1>4

Moved(w) == [w EXCEPT !.at = "write"]
Shrunk(w, cs) == [w EXCEPT !.todo = @ \ cs]

LEMMA WorkingMoves ==
  ASSUME NEW l \in Nat, NEW w, WorkingTyped(w, l)
  PROVE  /\ WorkingTyped(Moved(w), l)
         /\ Moved(w).at = "write" /\ Moved(w).job = w.job /\ Moved(w).sure = w.sure
         /\ \A cs : /\ WorkingTyped(Shrunk(w, cs), l)
                    /\ Shrunk(w, cs).todo = w.todo \ cs /\ Shrunk(w, cs).at = w.at
                    /\ Shrunk(w, cs).job = w.job /\ Shrunk(w, cs).entries = w.entries
  <1>1. w \in Workings /\ Given(w.entries, l) /\ w.loop <= l  BY DEF WorkingTyped
  <1>2. /\ Moved(w) \in Workings /\ Moved(w).entries = w.entries /\ Moved(w).loop = w.loop
        /\ Moved(w).at = "write" /\ Moved(w).job = w.job /\ Moved(w).sure = w.sure
    BY <1>1 DEF Workings, Moved
  <1>3. ASSUME NEW cs
        PROVE  /\ Shrunk(w, cs) \in Workings /\ Shrunk(w, cs).entries = w.entries
               /\ Shrunk(w, cs).loop = w.loop /\ Shrunk(w, cs).todo = w.todo \ cs
               /\ Shrunk(w, cs).at = w.at /\ Shrunk(w, cs).job = w.job
    BY <1>1 DEF Workings, Shrunk
  <1> QED  BY <1>1, <1>2, <1>3 DEF WorkingTyped

\* A cleanup goes on with w, or writes the journal it takes.
LEMMA CleaningIs ==
  ASSUME NEW l \in Nat, NEW w, WorkingTyped(w, l), w.at = "clean", Cleaning(w)
  PROVE  /\ WorkingTyped(wk', l) /\ wk'.job = w.job
         /\ \/ wk' = w /\ UNCHANGED snap /\ w.todo # {}
            \/ wk' = Moved(w) /\ wk'.at = "write" /\ w.todo = {} /\ Take("worker", runs, owners')
  <1>1. CASE w.todo = {}
    <2>1. wk' = Moved(w) /\ Take("worker", runs, owners')  BY <1>1 DEF Cleaning, Moved
    <2> QED  BY <1>1, <2>1, WorkingMoves
  <1>2. CASE w.todo # {}  BY <1>2 DEF Cleaning
  <1> QED  BY <1>1, <1>2

LEMMA ThreadsNext ==
  ASSUME InputsTyped, [InputsNext]_endbotdVars
  PROVE  ThreadsTyped'
  <1> USE DEF inputVars, threadVars
  <1> DEFINE l == loopIds'
  <1>0. Grown(l)  BY StateGrown
  <1>1. l \in Nat /\ Given(owners, l) /\ loopIds \in Nat /\ loopIds <= l
    BY <1>0, GrownKept DEF InputsTyped, RuntimeTyped, Grown
  <1>2. wk \in Workings /\ WorkingTyped(wk, l)
    BY <1>0, GrownKept DEF InputsTyped, ThreadsTyped, WorkingTyped
  <1>3. poll \in Polls /\ poll.loop <= l /\ mining \in Nat /\ mining <= l
    BY <1>0, GrownKept DEF InputsTyped, ThreadsTyped
  <1>4. Given(NoInput, l) /\ NoJob \in Jobs /\ NoRequest \in Requests /\ "mine" \in Channels
    BY <1>1, InputConstants
  <1> HIDE DEF l
  <1>5. WorkingTyped(wk', l)
    <2>1. CASE UNCHANGED wk  BY <1>2, <2>1
    <2>2. ASSUME NEW j \in Jobs, Request(j) PROVE WorkingTyped(wk', l)
      <3>1. PICK out \in Outcomes :
               wk' = IF out = "refused"
                     THEN Working("record", WorkerJob(j.kind, j.run, NoRequest), NoInput, {}, 0, FALSE)
                     ELSE Working("record", j, NoInput, {},
                                  IF out = "ok" /\ "mine" \in j.q.cs THEN loopIds' ELSE 0, out = "ok")
        BY <2>2 DEF Request
      <3>2. WorkerJob(j.kind, j.run, NoRequest) \in Jobs  BY <1>4 DEF WorkerJob, Jobs
      <3> DEFINE i == IF out = "ok" /\ "mine" \in j.q.cs THEN loopIds' ELSE 0
                 ok == out = "ok"
      <3>3. i \in Nat /\ i <= l /\ ok \in BOOLEAN  BY <1>1 DEF l
      <3>4. wk' \in {Working("record", WorkerJob(j.kind, j.run, NoRequest), NoInput, {}, 0, FALSE),
                     Working("record", j, NoInput, {}, i, ok)}
        BY <3>1
      <3> HIDE DEF i, ok
      <3>5. WorkingTyped(Working("record", j, NoInput, {}, i, ok), l)  BY <1>1, <1>4, <3>3, NewWorking
      <3>6. WorkingTyped(Working("record", WorkerJob(j.kind, j.run, NoRequest), NoInput, {}, 0, FALSE), l)
        BY <1>1, <1>4, <3>2, UnsureWorking
      <3> QED  BY <3>4, <3>5, <3>6
    <2>3. ASSUME NEW by \in Runs \cup {Player}, NEW q \in Asked(by), NEW kind \in {"command", "operation"},
                 NEW r \in Runs \cup {Nobody}
          PROVE  WorkerJob(kind, r, q) \in Jobs
      BY AskedRequests DEF WorkerJob, Jobs
    <2>4. CASE \E q \in Asked(Player) : WorkerCommand(q)
      <3>1. PICK q \in Asked(Player) : Request(WorkerJob("command", Nobody, q))
        BY <2>4 DEF WorkerCommand
      <3>2. WorkerJob("command", Nobody, q) \in Jobs  BY <2>3
      <3> QED  BY <2>2, <3>1, <3>2
    <2>5. ASSUME NEW r \in Runs, NEW q \in Asked(r), WorkerOperation(r, q) PROVE WorkingTyped(wk', l)
      <3>1. WorkerJob("operation", r, q) \in Jobs  BY <2>3
      <3> QED  BY <2>2, <2>5, <3>1 DEF WorkerOperation
    <2>6. CASE \E r \in Runs : WorkerStart(r)
      <3>1. wk' = [Resting EXCEPT !.at = "write"]  BY <2>6 DEF WorkerStart
      <3> QED  BY <1>1, <3>1, RestingTyped
    <2>7. CASE WorkerRecord
      <3>1. wk' = Moved(wk)  BY <2>7 DEF WorkerRecord, Moved
      <3> QED  BY <1>1, <1>2, <3>1, WorkingMoves
    <2>8. CASE WorkerCleanup
      <3> DEFINE j == Head(queue)
                 todo == OwnedBy(IF j.kind = "close" THEN runs ELSE {j.run}, owners)
                 w == Working("clean", j, owners, todo, 0, FALSE)
      <3>1. Cleaning(w) /\ queue # <<>>  BY <2>8 DEF WorkerCleanup
      <3>2. j \in Jobs  BY <3>1 DEF InputsTyped, TablesTyped
      <3>3. todo \subseteq Channels  BY DEF OwnedBy
      <3> HIDE DEF j, todo
      <3>4. WorkingTyped(w, l)  BY <1>1, <3>2, <3>3, UnsureWorking
      <3>5. w.at = "clean"  BY DEF Working
      <3> HIDE DEF w
      <3> QED  BY <1>1, <3>1, <3>4, <3>5, CleaningIs
    <2>9. CASE WorkerClean
      <3>1. PICK cs : Cleaning(Shrunk(wk, cs))  BY <2>9 DEF WorkerClean, Shrunk
      <3> DEFINE w == Shrunk(wk, cs)
      <3>2. WorkingTyped(w, l) /\ w.at = wk.at  BY <1>1, <1>2, WorkingMoves
      <3>3. Cleaning(w)  BY <3>1
      <3> HIDE DEF w
      <3> QED  BY <1>1, <2>9, <3>2, <3>3, CleaningIs DEF WorkerClean
    <2>10. CASE WorkerWrite
      <3>1. wk' \in {Resting, [Resting EXCEPT !.at = "endloop"]}  BY <2>10 DEF WorkerWrite
      <3> QED  BY <1>1, <3>1, RestingTyped
    <2>11. CASE WorkerEndLoop
      <3>1. CASE wk' = Resting  BY <1>1, <3>1, RestingTyped
      <3>2. CASE \E out \in Outcomes :
                   wk' = Working("record", WorkerJob("endloop", Nobody, End("mine", Nobody, mining)),
                                 NoInput, {}, 0, out = "ok")
        <4>1. WorkerJob("endloop", Nobody, End("mine", Nobody, mining)) \in Jobs
          BY <1>3, <1>4, EndRequests DEF WorkerJob, Jobs
        <4>2. PICK ok \in BOOLEAN : wk' = Working("record", WorkerJob("endloop", Nobody, End("mine", Nobody, mining)),
                                                 NoInput, {}, 0, ok)
          BY <3>2
        <4>3. 0 \in Nat /\ 0 <= l  BY <1>1
        <4> QED  BY <1>1, <1>4, <4>1, <4>2, <4>3, NewWorking
      <3> QED  BY <2>11, <3>1, <3>2 DEF WorkerEndLoop
    <2>12. CASE Crash \/ ProcessExits
      <3>1. wk' = Resting  BY <2>12 DEF Crash, ProcessExits, Dies
      <3> QED  BY <1>1, <3>1, RestingTyped
    <2>13. CASE Runtime \/ UNCHANGED endbotdVars
      BY <2>1, <2>13 DEF Runtime, ServeLate, InputEnds, endbotdVars
    <2>14. CASE \E r \in Runs : RunThread(r)
      BY <2>1, <2>14 DEF RunThread, RunEnds, RunLeaves, RunRecords
    <2>15. CASE Polling
      BY <2>1, <2>15 DEF Polling, PollRenews, PollEnds, PollChecks, PollPops, PollWrites
    <2>16. CASE Worker
      BY <2>4, <2>5, <2>6, <2>7, <2>8, <2>9, <2>10, <2>11, <2>16 DEF Worker
    <2>17. CASE Process
      BY <2>1, <2>12, <2>17 DEF Process, CloseBegins, CloseTakes, CloseWrites, StartsAgain, RecoveryStops,
           RecoveryEnds
    <2> QED  BY <2>13, <2>14, <2>15, <2>16, <2>17 DEF InputsNext
  <1>6. poll' \in Polls /\ poll'.loop <= l
    <2>1. CASE UNCHANGED poll  BY <1>3, <2>1
    <2>2. CASE poll' \in {PollResting, [poll EXCEPT !.at = "write"], [poll EXCEPT !.at = "pop"],
                          [at |-> "check", loop |-> mining]}
      BY <1>1, <1>3, <2>2 DEF Polls, PollResting
    <2>3. CASE Polling
      BY <2>1, <2>2, <2>3 DEF Polling, PollRenews, PollEnds, PollChecks, PollPops, PollWrites
    <2>4. CASE Crash \/ ProcessExits  BY <2>2, <2>4 DEF Crash, ProcessExits, Dies
    <2>5. CASE Runtime \/ UNCHANGED endbotdVars
      BY <2>1, <2>5 DEF Runtime, ServeLate, InputEnds, endbotdVars
    <2>6. CASE \E r \in Runs : RunThread(r)
      BY <2>1, <2>6 DEF RunThread, RunEnds, RunLeaves, RunRecords
    <2>7. CASE \E j : Request(j)  BY <2>1, <2>7 DEF Request
    <2>8. CASE Worker
      BY <2>1, <2>7, <2>8 DEF Worker, WorkerOperation, WorkerCommand, WorkerRecord, WorkerCleanup,
           WorkerClean, WorkerWrite, WorkerEndLoop, WorkerStart
    <2>9. CASE Process
      BY <2>1, <2>4, <2>9 DEF Process, CloseBegins, CloseTakes, CloseWrites, StartsAgain, RecoveryStops,
           RecoveryEnds
    <2> QED  BY <2>3, <2>5, <2>6, <2>8, <2>9 DEF InputsNext
  <1>7. mining' \in Nat /\ mining' <= l
    <2>1. CASE mining' \in {mining, 0}  BY <1>1, <1>3, <2>1
    <2>2. CASE WorkerWrite
      <3>1. mining' \in {mining, 0, wk.loop}  BY <2>2 DEF WorkerWrite
      <3> QED  BY <1>1, <1>2, <1>3, <3>1 DEF WorkingTyped, Workings
    <2>3. CASE Polling
      BY <2>1, <2>3 DEF Polling, PollRenews, PollEnds, PollChecks, PollPops, PollWrites
    <2>4. CASE Crash \/ ProcessExits  BY <2>1, <2>4 DEF Crash, ProcessExits, Dies
    <2>5. CASE Runtime \/ UNCHANGED endbotdVars
      BY <2>1, <2>5 DEF Runtime, ServeLate, InputEnds, endbotdVars
    <2>6. CASE \E r \in Runs : RunThread(r)
      BY <2>1, <2>6 DEF RunThread, RunEnds, RunLeaves, RunRecords
    <2>7. CASE \E j : Request(j)  BY <2>1, <2>7 DEF Request
    <2>8. CASE Worker
      BY <2>1, <2>2, <2>7, <2>8 DEF Worker, WorkerOperation, WorkerCommand, WorkerRecord, WorkerCleanup,
           WorkerClean, WorkerEndLoop, WorkerStart
    <2>9. CASE Process
      BY <2>1, <2>4, <2>9 DEF Process, CloseBegins, CloseTakes, CloseWrites, StartsAgain, RecoveryStops,
           RecoveryEnds
    <2> QED  BY <2>3, <2>5, <2>6, <2>8, <2>9 DEF InputsNext
  <1> QED  BY <1>5, <1>6, <1>7 DEF ThreadsTyped, WorkingTyped, l

(* A record is taken, or written, by one thread.                           *)
LEMMA QuietJournals ==
  ASSUME InputsTyped, Grown(loopIds'), UNCHANGED snap, file' = file \/ file' = NoRuns,
         \A w \in Writers : Writing(w)' => Writing(w)
  PROVE  JournalTaken'
  <1>1. Journal(file', loopIds')
    <2>1. loopIds' \in Nat /\ Journal(file, loopIds') /\ Given(NoInput, loopIds')
      BY GrownKept, InputConstants
    <2>2. Journal(NoRuns, loopIds')  BY <2>1, JournalOfTyped DEF NoRuns
    <2> QED  BY <2>1, <2>2
  <1>2. DOMAIN snap' = Writers  BY DEF InputsTyped, JournalTaken
  <1>3. \A w \in Writers : Writing(w)' => Journal(snap[w], loopIds')  BY GrownKept
  <1> QED  BY <1>1, <1>2, <1>3 DEF JournalTaken

LEMMA TakenJournals ==
  ASSUME InputsTyped, Grown(loopIds'), NEW w \in Writers, NEW rs \in SUBSET Runs, NEW os,
         Given(os, loopIds'), Take(w, rs, os), UNCHANGED file,
         \A v \in Writers \ {w} : Writing(v)' => Writing(v)
  PROVE  JournalTaken'
  <1> DEFINE j == JournalOf(rs, os)
  <1>1. Journal(j, loopIds')  BY GrownKept, JournalOfTyped
  <1>2. snap' = [snap EXCEPT ![w] = j]  BY DEF Take
  <1> HIDE DEF j
  <1>3. DOMAIN snap = Writers  BY DEF InputsTyped, JournalTaken
  <1>4. DOMAIN snap' = Writers /\ snap'[w] = j /\ \A v \in Writers \ {w} : snap'[v] = snap[v]
    BY <1>2, <1>3
  <1>5. Journal(file', loopIds')  BY GrownKept
  <1>6. \A v \in Writers : Writing(v)' => Journal(snap'[v], loopIds')
    BY <1>1, <1>4, GrownKept
  <1> QED  BY <1>4, <1>5, <1>6 DEF JournalTaken

LEMMA WrittenJournals ==
  ASSUME InputsTyped, Grown(loopIds'), NEW w \in Writers, Writing(w), Write(w), ~Writing(w)',
         \A v \in Writers \ {w} : Writing(v)' => Writing(v)
  PROVE  JournalTaken'
  <1>1. snap' = [snap EXCEPT ![w] = Pending] /\ (file' = file \/ file' = snap[w])
    BY DEF Write
  <1>2. DOMAIN snap = Writers  BY DEF InputsTyped, JournalTaken
  <1>3. DOMAIN snap' = Writers /\ \A v \in Writers \ {w} : snap'[v] = snap[v]
    BY <1>1, <1>2
  <1>4. Journal(file', loopIds')  BY <1>1, GrownKept
  <1>5. \A v \in Writers : Writing(v)' => Journal(snap'[v], loopIds')
    BY <1>3, GrownKept
  <1> QED  BY <1>3, <1>4, <1>5 DEF JournalTaken

LEMMA WritersAre ==
  /\ {"worker", "poll", "main"} \cup Runs = Writers
  /\ "worker" \notin Runs /\ "poll" \notin Runs /\ "main" \notin Runs
  BY InputsAssumption DEF Writers

LEMMA CleaningJournals ==
  ASSUME InputsTyped, Grown(loopIds'), Given(owners', loopIds'), UNCHANGED <<runs, file, poll, phase, stage>>,
         NEW w, WorkingTyped(w, loopIds'), w.at = "clean", Cleaning(w)
  PROVE  JournalTaken'
  <1>1. loopIds' \in Nat  BY DEF Grown
  <1>2. \/ wk' = w /\ UNCHANGED snap
        \/ wk'.at = "write" /\ Take("worker", runs, owners')
    BY <1>1, CleaningIs
  <1>3. CASE wk' = w /\ UNCHANGED snap
    <2>1. \A v \in Writers : Writing(v)' => Writing(v)  BY <1>3 DEF Writing
    <2> QED  BY <1>3, <2>1, QuietJournals
  <1>4. CASE wk'.at = "write" /\ Take("worker", runs, owners')
    <2>1. \A v \in Writers \ {"worker"} : Writing(v)' => Writing(v)  BY <1>4 DEF Writing
    <2>2. "worker" \in Writers /\ runs \subseteq Runs  BY WritersAre DEF InputsTyped, TablesTyped
    <2> QED  BY <1>4, <2>1, <2>2, TakenJournals
  <1> QED  BY <1>2, <1>3, <1>4

LEMMA JournalsNext ==
  ASSUME InputsTyped, [InputsNext]_endbotdVars
  PROVE  JournalTaken'
  <1> USE DEF inputVars, threadVars
  <1>1. Grown(loopIds') /\ loopIds' \in Nat  BY StateGrown DEF Grown
  <1>2. /\ Given(owners, loopIds') /\ Given(owners', loopIds') /\ runs \subseteq Runs /\ runs' \subseteq Runs
        /\ stage \in [Runs -> Stages] /\ WorkingTyped(wk, loopIds')
    BY <1>1, GrownKept, TablesNext DEF InputsTyped, TablesTyped, ThreadsTyped, WorkingTyped
  <1>3. /\ "worker" \in Writers /\ "poll" \in Writers /\ "main" \in Writers /\ Runs \subseteq Writers
        /\ "worker" \notin Runs /\ "poll" \notin Runs /\ "main" \notin Runs
    BY WritersAre
  <1>4. Resting.at = "idle" /\ [Resting EXCEPT !.at = "write"].at = "write"
        /\ [Resting EXCEPT !.at = "endloop"].at = "endloop"
    BY <1>1, RestingTyped
  <1>5. CASE Runtime \/ UNCHANGED endbotdVars
    <2>1. UNCHANGED <<snap, file, wk, poll, phase, stage>>
      BY <1>5 DEF Runtime, ServeLate, InputEnds, endbotdVars
    <2>2. \A w \in Writers : Writing(w)' => Writing(w)  BY <2>1 DEF Writing
    <2> QED  BY <1>1, <2>1, <2>2, QuietJournals
  <1>6. ASSUME NEW r \in Runs, RunEnds(r) PROVE JournalTaken'
    <2>1. UNCHANGED <<snap, file, wk, poll, phase>> /\ stage' = [stage EXCEPT ![r] = "cleaning"]
      BY <1>6 DEF RunEnds
    <2>2. \A w \in Writers : Writing(w)' => Writing(w)  BY <1>2, <2>1 DEF Writing
    <2> QED  BY <1>1, <2>1, <2>2, QuietJournals
  <1>7. ASSUME NEW r \in Runs, RunLeaves(r) PROVE JournalTaken'
    <2>1. /\ UNCHANGED <<file, wk, poll, phase>> /\ stage' = [stage EXCEPT ![r] = "left"]
          /\ Take(r, runs \ {r}, owners)
      BY <1>7 DEF RunLeaves
    <2>2. \A w \in Writers \ {r} : Writing(w)' => Writing(w)  BY <1>2, <2>1 DEF Writing
    <2> QED  BY <1>1, <1>2, <1>3, <2>1, <2>2, TakenJournals
  <1>8. ASSUME NEW r \in Runs, RunRecords(r) PROVE JournalTaken'
    <2>1. UNCHANGED <<wk, poll, phase>> /\ stage' = [stage EXCEPT ![r] = "gone"] /\ stage[r] = "left" /\ Write(r)
      BY <1>8 DEF RunRecords
    <2>2. \A w \in Writers \ {r} : Writing(w)' => Writing(w)  BY <1>2, <2>1 DEF Writing
    <2>3. Writing(r) /\ ~Writing(r)'  BY <1>2, <1>3, <2>1 DEF Writing
    <2> QED  BY <1>1, <1>3, <2>1, <2>2, <2>3, WrittenJournals
  <1>9. ASSUME NEW r \in Runs, WorkerStart(r) PROVE JournalTaken'
    <2>1. /\ UNCHANGED <<file, poll, phase>> /\ stage' = [stage EXCEPT ![r] = "live"]
          /\ Take("worker", runs \cup {r}, owners)
      BY <1>9 DEF WorkerStart
    <2>2. \A w \in Writers \ {"worker"} : Writing(w)' => Writing(w)  BY <1>2, <2>1 DEF Writing
    <2> QED  BY <1>1, <1>2, <1>3, <2>1, <2>2, TakenJournals
  <1>10. ASSUME NEW j, Request(j), UNCHANGED stage \/ \E r \in Runs : stage' = [stage EXCEPT ![r] = "waiting"]
         PROVE  JournalTaken'
    <2>1. UNCHANGED <<snap, file, poll, phase>> /\ wk'.at = "record"
      BY <1>10 DEF Request, Working
    <2>2. \A w \in Writers : Writing(w)' => Writing(w)  BY <1>2, <1>10, <2>1 DEF Writing
    <2> QED  BY <1>1, <2>1, <2>2, QuietJournals
  <1>11. CASE WorkerRecord
    <2>1. UNCHANGED <<file, poll, phase, stage>> /\ Take("worker", runs, owners')
      BY <1>11 DEF WorkerRecord
    <2>2. \A w \in Writers \ {"worker"} : Writing(w)' => Writing(w)  BY <2>1 DEF Writing
    <2> QED  BY <1>1, <1>2, <1>3, <2>1, <2>2, TakenJournals
  <1>12. CASE WorkerCleanup
    <2> DEFINE j == Head(queue)
               todo == OwnedBy(IF j.kind = "close" THEN runs ELSE {j.run}, owners)
               w == Working("clean", j, owners, todo, 0, FALSE)
    <2>1. Cleaning(w) /\ queue # <<>> /\ UNCHANGED <<runs, file, poll, phase, stage>>
      BY <1>12 DEF WorkerCleanup
    <2>2. j \in Jobs  BY <2>1 DEF InputsTyped, TablesTyped
    <2>3. todo \subseteq Channels  BY DEF OwnedBy
    <2> HIDE DEF j, todo
    <2>4. WorkingTyped(w, loopIds')  BY <1>1, <1>2, <2>2, <2>3, UnsureWorking
    <2>5. w.at = "clean"  BY DEF Working
    <2> HIDE DEF w
    <2> QED  BY <1>1, <1>2, <2>1, <2>4, <2>5, CleaningJournals
  <1>13. CASE WorkerClean
    <2>1. PICK cs : Cleaning(Shrunk(wk, cs))  BY <1>13 DEF WorkerClean, Shrunk
    <2> DEFINE w == Shrunk(wk, cs)
    <2>2. WorkingTyped(w, loopIds') /\ w.at = wk.at  BY <1>1, <1>2, WorkingMoves
    <2>3. Cleaning(w)  BY <2>1
    <2>4. wk.at = "clean" /\ UNCHANGED <<runs, file, poll, phase, stage>>  BY <1>13 DEF WorkerClean
    <2> HIDE DEF w
    <2> QED  BY <1>1, <1>2, <2>2, <2>3, <2>4, CleaningJournals
  <1>14. CASE WorkerWrite
    <2>1. /\ UNCHANGED <<poll, phase>> /\ Write("worker") /\ wk.at = "write" /\ wk'.at # "write"
      BY <1>4, <1>14 DEF WorkerWrite
    <2>2. stage' \in {stage, [stage EXCEPT ![wk.job.run] = "live"], [stage EXCEPT ![wk.job.run] = "cleaned"]}
      BY <1>14 DEF WorkerWrite
    <2>3. \A w \in Writers \ {"worker"} : Writing(w)' => Writing(w)  BY <1>2, <2>1, <2>2 DEF Writing
    <2>4. Writing("worker") /\ ~Writing("worker")'  BY <1>3, <2>1 DEF Writing
    <2> QED  BY <1>1, <1>3, <2>1, <2>3, <2>4, WrittenJournals
  <1>15. CASE WorkerEndLoop
    <2>1. UNCHANGED <<snap, file, poll, phase, stage>> /\ wk'.at # "write"
      BY <1>4, <1>15 DEF WorkerEndLoop, Working
    <2>2. \A w \in Writers : Writing(w)' => Writing(w)  BY <2>1 DEF Writing
    <2> QED  BY <1>1, <2>1, <2>2, QuietJournals
  <1>16. ASSUME NEW os, Given(os, loopIds'), Take("poll", runs, os), UNCHANGED <<file, wk, phase, stage>>
         PROVE  JournalTaken'
    <2>1. \A w \in Writers \ {"poll"} : Writing(w)' => Writing(w)  BY <1>16 DEF Writing
    <2> QED  BY <1>1, <1>2, <1>3, <1>16, <2>1, TakenJournals
  <1>17. ASSUME UNCHANGED <<snap, file, wk, phase, stage>>, poll'.at # "write"
         PROVE  JournalTaken'
    <2>1. \A w \in Writers : Writing(w)' => Writing(w)  BY <1>17 DEF Writing
    <2> QED  BY <1>1, <1>17, <2>1, QuietJournals
  <1>18. CASE PollRenews  BY <1>2, <1>16, <1>18 DEF PollRenews
  <1>19. CASE PollEnds
    <2>1. UNCHANGED <<file, wk, phase, stage>>  BY <1>19 DEF PollEnds
    <2>2. \/ Take("poll", runs, owners)
          \/ UNCHANGED snap /\ poll' = [at |-> "check", loop |-> mining]
      BY <1>19 DEF PollEnds
    <2> QED  BY <1>2, <1>16, <1>17, <2>1, <2>2
  <1>20. CASE PollChecks
    <2>1. UNCHANGED <<file, wk, phase, stage>>  BY <1>20 DEF PollChecks
    <2>2. poll \in Polls  BY DEF InputsTyped, ThreadsTyped
    <2>3. [poll EXCEPT !.at = "pop"].at = "pop"  BY <2>2 DEF Polls
    <2>4. \/ Take("poll", runs, owners)
          \/ UNCHANGED snap /\ poll' = [poll EXCEPT !.at = "pop"]
      BY <1>20 DEF PollChecks
    <2> QED  BY <1>2, <1>16, <1>17, <2>1, <2>3, <2>4
  <1>21. CASE PollPops  BY <1>2, <1>16, <1>21 DEF PollPops
  <1>22. CASE PollWrites
    <2>1. UNCHANGED <<wk, phase, stage>> /\ Write("poll") /\ poll.at = "write" /\ poll'.at # "write"
      BY <1>22 DEF PollWrites, PollResting
    <2>2. \A w \in Writers \ {"poll"} : Writing(w)' => Writing(w)  BY <2>1 DEF Writing
    <2>3. Writing("poll") /\ ~Writing("poll")'  BY <1>3, <2>1 DEF Writing
    <2> QED  BY <1>1, <1>3, <2>1, <2>2, <2>3, WrittenJournals
  <1>23. CASE CloseBegins \/ StartsAgain \/ RecoveryStops \/ RecoveryEnds
    <2>1. phase' # "final" \/ phase' = phase
      BY <1>23 DEF CloseBegins, StartsAgain, RecoveryStops, RecoveryEnds
    <2>2. UNCHANGED <<snap, wk, poll, stage>> /\ (file' = file \/ file' = NoRuns)
      BY <1>23 DEF CloseBegins, StartsAgain, RecoveryStops, RecoveryEnds
    <2>3. \A w \in Writers : Writing(w)' => Writing(w)  BY <2>1, <2>2 DEF Writing
    <2> QED  BY <1>1, <2>2, <2>3, QuietJournals
  <1>24. CASE CloseTakes
    <2>1. PICK rs \in SUBSET runs : Take("main", rs, owners)  BY <1>24 DEF CloseTakes
    <2>2. UNCHANGED <<file, wk, poll, stage>>  BY <1>24 DEF CloseTakes
    <2>3. \A w \in Writers \ {"main"} : Writing(w)' => Writing(w)  BY <2>2 DEF Writing
    <2>4. rs \in SUBSET Runs  BY <1>2, <2>1
    <2> QED  BY <1>1, <1>2, <1>3, <2>1, <2>2, <2>3, <2>4, TakenJournals
  <1>25. CASE CloseWrites
    <2>1. UNCHANGED <<wk, poll, stage>> /\ Write("main") /\ phase = "final" /\ phase' = "closed"
      BY <1>25 DEF CloseWrites
    <2>2. \A w \in Writers \ {"main"} : Writing(w)' => Writing(w)  BY <2>1 DEF Writing
    <2>3. Writing("main") /\ ~Writing("main")'  BY <1>3, <2>1 DEF Writing
    <2> QED  BY <1>1, <1>3, <2>1, <2>2, <2>3, WrittenJournals
  <1>26. CASE Crash \/ ProcessExits
    <2>1. /\ snap' = [w \in Writers |-> Pending] /\ UNCHANGED file
          /\ wk' = Resting /\ poll' = PollResting /\ phase' = "down"
      BY <1>26 DEF Crash, ProcessExits, Dies
    <2>2. \A r \in Runs : stage'[r] # "left"  BY <1>26 DEF Crash, ProcessExits
    <2>3. \A w \in Writers : ~Writing(w)'  BY <1>4, <2>1, <2>2 DEF Writing, PollResting
    <2>4. Journal(file', loopIds')  BY <1>1, <2>1, GrownKept
    <2>5. DOMAIN snap' = Writers  BY <2>1
    <2> QED  BY <2>3, <2>4, <2>5 DEF JournalTaken
  <1>27. CASE \E q \in Asked(Player) : WorkerCommand(q)  BY <1>10, <1>27 DEF WorkerCommand
  <1>28. ASSUME NEW r \in Runs, NEW q \in Asked(r), WorkerOperation(r, q) PROVE JournalTaken'
    BY <1>10, <1>28 DEF WorkerOperation
  <1>29. CASE Worker
    BY <1>9, <1>11, <1>12, <1>13, <1>14, <1>15, <1>27, <1>28, <1>29 DEF Worker
  <1> QED
    BY <1>5, <1>6, <1>7, <1>8, <1>18, <1>19, <1>20, <1>21, <1>22, <1>23, <1>24, <1>25, <1>26, <1>29
    DEF InputsNext, RunThread, Polling, Process

LEMMA NoThreadsNext ==
  ASSUME InputsTyped, [InputsNext]_endbotdVars
  PROVE  NoThreads'
  <1> USE DEF inputVars, threadVars, Takes, Accepting, Alive, PollBegins, Shut
  <1>1. Resting.at = "idle" /\ PollResting.at = "idle"
    BY RestingTyped DEF InputsTyped, RuntimeTyped, PollResting
  <1>2. phase \in {"down", "recovering"} =>
          /\ wk = Resting /\ poll = PollResting /\ mining = 0 /\ queue = <<>> /\ runs = {}
          /\ \A r \in Runs : stage[r] \in {"new", "gone"}
    BY DEF InputsTyped, NoThreads
  <1>3. CASE UNCHANGED threadVars /\ (phase' \in {"down", "recovering"} => phase \in {"down", "recovering"})
    BY <1>2, <1>3 DEF NoThreads
  <1>4. CASE phase' \notin {"down", "recovering"}  BY <1>4 DEF NoThreads
  <1>5. CASE Runtime \/ UNCHANGED endbotdVars
    BY <1>3, <1>5 DEF Runtime, ServeLate, InputEnds, endbotdVars
  <1>6. CASE \E r \in Runs : RunThread(r)
    <2>1. PICK r \in Runs : RunThread(r)  BY <1>6
    <2>2. Alive /\ UNCHANGED phase  BY <2>1 DEF RunThread, RunEnds, RunLeaves, RunRecords
    <2> QED  BY <1>4, <2>2
  <1>7. CASE \E j : Request(j)  BY <1>4, <1>7 DEF Request
  <1>8. CASE Worker
    <2>1. (Alive /\ UNCHANGED phase) \/ \E j : Request(j)
      BY <1>8 DEF Worker, WorkerOperation, WorkerCommand, WorkerRecord, WorkerCleanup,
           WorkerClean, WorkerWrite, WorkerEndLoop, WorkerStart
    <2> QED  BY <1>4, <1>7, <2>1
  <1>9. CASE Polling
    <2>1. Alive /\ UNCHANGED phase
      BY <1>9 DEF Polling, PollRenews, PollEnds, PollChecks, PollPops, PollWrites
    <2> QED  BY <1>4, <2>1
  <1>10. CASE Crash \/ ProcessExits
    BY <1>10 DEF Crash, ProcessExits, Dies, NoThreads
  <1>11. CASE CloseBegins \/ CloseTakes \/ CloseWrites \/ RecoveryEnds
    BY <1>4, <1>11 DEF CloseBegins, CloseTakes, CloseWrites, RecoveryEnds
  <1>12. CASE StartsAgain \/ RecoveryStops
    BY <1>3, <1>12 DEF StartsAgain, RecoveryStops
  <1> QED  BY <1>5, <1>6, <1>8, <1>9, <1>10, <1>11, <1>12 DEF InputsNext, Process

LEMMA InputsTypedNext ==
  ASSUME InputsTyped, [InputsNext]_endbotdVars
  PROVE  InputsTyped'
  BY RuntimeNext, TablesNext, ThreadsNext, JournalsNext, NoThreadsNext DEF InputsTyped

LEMMA InputsTypedInit ==
  ASSUME InputsInit
  PROVE  InputsTyped
  <1> USE DEF InputsInit
  <1>1. /\ Given(NoInput, 0) /\ 0 \in Nat /\ WorkingTyped(Resting, 0) /\ Resting \in Workings
        /\ Resting.at = "idle"
    BY InputConstants, RestingTyped
  <1>2. RuntimeTyped
    <2>1. late \in Seq(Requests) /\ DOMAIN late = {}  BY SMT
    <2> QED  BY <1>1, <2>1 DEF RuntimeTyped
  <1>3. TablesTyped
    <2>1. queue \in Seq(Jobs)  BY SMT
    <2> QED  BY <1>1, <2>1 DEF TablesTyped, Stages, ProcessPhases
  <1>4. ThreadsTyped  BY <1>1 DEF ThreadsTyped, WorkingTyped, PollResting, Polls
  <1>5. JournalTaken
    <2>1. Journal(NoRuns, 0)  BY <1>1, JournalOfTyped DEF NoRuns
    <2>2. \A w \in Writers : ~Writing(w)  BY <1>1 DEF Writing, PollResting
    <2>3. DOMAIN snap = Writers  OBVIOUS
    <2> QED  BY <2>1, <2>2, <2>3 DEF JournalTaken
  <1>6. NoThreads  BY DEF NoThreads
  <1> QED  BY <1>2, <1>3, <1>4, <1>5, <1>6 DEF InputsTyped

(* The inputs, the tables, the journal and the threads keep their types.   *)
THEOREM InputsTypes == InputsSpec => []InputsTypeOK
  <1>1. InputsInit => InputsTyped  BY InputsTypedInit
  <1>2. InputsTyped /\ [InputsNext]_endbotdVars => InputsTyped'  BY InputsTypedNext
  <1>3. InputsTyped => InputsTypeOK
    BY DEF InputsTyped, InputsTypeOK, RuntimeTyped, TablesTyped, ThreadsTyped, JournalTaken, Journal, Given, Inputs, Workings, Polls
  <1> QED  BY <1>1, <1>2, <1>3, PTL DEF InputsSpec

(***************************************************************************)
(* A cleanup ends no acknowledged input of another caller.                 *)
(***************************************************************************)
\* What is acknowledged was, to the same caller.
SureKept(s, t) == \A c \in Channels : t[c].sure => s[c].sure /\ t[c].by = s[c].by

LEMMA AppliedSure ==
  ASSUME NEW s, NEW q, NEW l, NEW sure \in BOOLEAN, q.on => ~sure
  PROVE  SureKept(s, Applied(s, q, l, sure))
  <1> SUFFICES ASSUME NEW c \in Channels, Applied(s, q, l, sure)[c].sure
               PROVE  s[c].sure /\ Applied(s, q, l, sure)[c].by = s[c].by
    BY DEF SureKept
  <1>1. Applied(s, q, l, sure)[c] =
          IF c \in ClearedBy(q) THEN Idle
          ELSE IF c \notin q.cs THEN s[c]
          ELSE IF q.on THEN [by |-> q.by, loop |-> IF c = "mine" THEN l ELSE 0, sure |-> sure]
          ELSE IF q.loop \in {0, s[c].loop} THEN Idle ELSE s[c]
    BY DEF Applied, AppliedTo
  <1>2. ~Idle.sure  BY InputConstants
  <1>3. CASE q.on  BY <1>1, <1>2, <1>3
  <1>4. CASE ~q.on  BY <1>1, <1>2, <1>4
  <1> QED  BY <1>3, <1>4

LEMMA AnswerSure ==
  ASSUME NEW q, NEW out, NEW k, Answer(q, out, k), ~(out = "ok" /\ q.on)
  PROVE  SureKept(rt, rt')
  <1>1. CASE UNCHANGED rt  BY <1>1 DEF SureKept
  <1>2. CASE out = "ok" /\ rt' = Applied(rt, q, loopIds + 1, TRUE)
    <2> DEFINE sure == TRUE
    <2>1. rt' = Applied(rt, q, loopIds + 1, sure) /\ ~q.on /\ sure \in BOOLEAN  BY <1>2
    <2> HIDE DEF sure
    <2> QED  BY <2>1, AppliedSure
  <1> QED  BY <1>1, <1>2 DEF Answer

LEMMA WithoutSure ==
  ASSUME NEW s, NEW cs
  PROVE  SureKept(s, Without(s, cs))
  BY InputConstants DEF SureKept, Without

\* Every step but a command and an operation keeps what the runtime acknowledged.
LEMMA RuntimeSure ==
  ASSUME InputsTyped, [InputsNext]_endbotdVars,
         ~(wk.at = "idle" /\ wk'.at = "record")
  PROVE  SureKept(rt, rt')
  <1> USE DEF inputVars, threadVars
  <1>1. CASE UNCHANGED rt  BY <1>1 DEF SureKept
  <1>2. CASE ServeLate
    <2> DEFINE q == Head(late)
               sure == FALSE
    <2>1. rt' = Applied(rt, q, loopIds + 1, sure) /\ ~sure /\ sure \in BOOLEAN  BY <1>2 DEF ServeLate
    <2> HIDE DEF q, sure
    <2> QED  BY <2>1, AppliedSure
  <1>3. ASSUME NEW c \in Channels, InputEnds(c) PROVE SureKept(rt, rt')
    <2>1. rt \in [Channels -> Entries] /\ rt' = [rt EXCEPT ![c] = Idle]
      BY <1>3 DEF InputEnds, InputsTyped, RuntimeTyped, Given, Inputs
    <2> QED  BY <2>1, InputConstants DEF SureKept
  <1>4. ASSUME NEW j, Request(j) PROVE SureKept(rt, rt')
    <2>1. wk.at = "idle" /\ wk'.at = "record"  BY <1>4 DEF Request, Takes, Working
    <2> QED  BY <2>1
  <1>5. ASSUME NEW s, NEW todo, NEW c, NEW out, StopOwned(s, todo, c, out) PROVE SureKept(rt, rt')
    <2>1. Answer(End(c, Nobody, s[c].loop), out, count) /\ ~End(c, Nobody, s[c].loop).on
      BY <1>5 DEF StopOwned, End
    <2> QED  BY <2>1, AnswerSure
  <1>6. CASE WorkerEndLoop \/ PollEnds
    <2>1. CASE \E out \in Outcomes : \E k : Answer(End("mine", Nobody, mining), out, k)
      <3>1. ~End("mine", Nobody, mining).on  BY DEF End
      <3> QED  BY <2>1, <3>1, AnswerSure
    <2> QED  BY <1>1, <1>6, <2>1 DEF WorkerEndLoop, PollEnds
  <1>7. CASE \E r \in Runs : RunThread(r) \/ WorkerStart(r)
    BY <1>1, <1>7 DEF RunThread, RunEnds, RunLeaves, RunRecords, WorkerStart
  <1>8. CASE Worker
    BY <1>1, <1>4, <1>5, <1>6, <1>7, <1>8
    DEF Worker, WorkerOperation, WorkerCommand, WorkerRecord, WorkerCleanup, WorkerClean, WorkerWrite
  <1>9. CASE Polling
    BY <1>1, <1>6, <1>9 DEF Polling, PollRenews, PollChecks, PollPops, PollWrites
  <1>10. CASE Process
    BY <1>1, <1>5, <1>10 DEF Process, CloseBegins, CloseTakes, CloseWrites, Crash, ProcessExits, Dies,
         StartsAgain, RecoveryStops, RecoveryEnds
  <1>11. CASE UNCHANGED endbotdVars  BY <1>1, <1>11 DEF endbotdVars
  <1> QED
    BY <1>2, <1>3, <1>7, <1>8, <1>9, <1>10, <1>11 DEF InputsNext, Runtime

\* Only WorkerRecord records what was acknowledged.
LEMMA OwnersSure ==
  ASSUME InputsTyped, [InputsNext]_endbotdVars, ~WorkerRecord
  PROVE  SureKept(owners, owners')
  <1> USE DEF inputVars, threadVars
  <1>1. CASE UNCHANGED owners  BY <1>1 DEF SureKept
  <1>2. CASE \E s, todo, c, out : StopOwned(s, todo, c, out)
    BY <1>2, WithoutSure DEF StopOwned
  <1>3. CASE PollPops
    <2>1. owners' = Without(owners, {"mine"})  BY <1>3 DEF PollPops
    <2> QED  BY <2>1, WithoutSure
  <1>4. CASE Crash \/ ProcessExits
    <2>1. owners' = NoInput  BY <1>4 DEF Crash, ProcessExits, Dies
    <2> QED  BY <2>1, InputConstants DEF SureKept, NoInput
  <1>5. CASE StartsAgain
    <2>1. owners' = file.owned /\ \A c \in Channels : ~file.owned[c].sure
      BY <1>5, InputConstants DEF StartsAgain, InputsTyped, JournalTaken, Journal
    <2> QED  BY <2>1 DEF SureKept
  <1>6. CASE Runtime \/ UNCHANGED endbotdVars
    BY <1>1, <1>6 DEF Runtime, ServeLate, InputEnds, endbotdVars
  <1>7. CASE \E r \in Runs : RunThread(r)
    BY <1>1, <1>7 DEF RunThread, RunEnds, RunLeaves, RunRecords
  <1>8. CASE Polling
    BY <1>1, <1>3, <1>8 DEF Polling, PollRenews, PollEnds, PollChecks, PollWrites
  <1>9. CASE \E j : Request(j)  BY <1>1, <1>9 DEF Request
  <1>10. CASE Worker
    BY <1>1, <1>2, <1>9, <1>10 DEF Worker, WorkerOperation, WorkerCommand, WorkerCleanup, WorkerClean,
         WorkerWrite, WorkerEndLoop, WorkerStart
  <1>11. CASE Process
    BY <1>1, <1>2, <1>4, <1>5, <1>11 DEF Process, CloseBegins, CloseTakes, CloseWrites, RecoveryStops,
         RecoveryEnds
  <1> QED  BY <1>6, <1>7, <1>8, <1>10, <1>11 DEF InputsNext

SureMatch == \A c \in Channels : owners[c].sure /\ rt[c].sure => rt[c].by = owners[c].by

\* Away from a record and a cleanup nothing is about to change.
LEMMA SureRests ==
  ASSUME SureInv, SureKept(rt, rt'), SureKept(owners, owners'),
         wk.at # "record" \/ SureMatch, wk'.at \notin {"record", "clean"}
  PROVE  SureInv'
  BY DEF SureInv, SureKept, SureMatch

LEMMA RequestSure ==
  ASSUME InputsTyped, SureInv, NEW j \in Jobs, Request(j)
  PROVE  SureInv'
  <1>1. PICK out \in Outcomes :
          /\ Answer(j.q, out, [count EXCEPT !.ops = @ + 1])
          /\ wk' = IF out = "refused"
                   THEN Working("record", WorkerJob(j.kind, j.run, NoRequest), NoInput, {}, 0, FALSE)
                   ELSE Working("record", j, NoInput, {},
                                IF out = "ok" /\ "mine" \in j.q.cs THEN loopIds' ELSE 0, out = "ok")
    BY DEF Request
  <1>2. wk.at = "idle" /\ UNCHANGED owners  BY DEF Request, Takes
  <1>3. wk'.at = "record" /\ (wk'.sure => out = "ok" /\ wk'.job = j) /\ (out = "ok" => wk'.job = j /\ wk'.sure)
    BY <1>1 DEF Working
  <1>4. \A c \in Channels : owners[c].sure /\ rt[c].sure => rt[c].by = owners[c].by
    BY <1>2 DEF SureInv
  <1>5. CASE out = "ok" /\ j.q.on
    <2>1. rt' = Applied(rt, j.q, loopIds + 1, TRUE)  BY <1>1, <1>5 DEF Answer
    <2>2. \A c \in Channels : rt'[c].sure =>
             IF c \in j.q.cs THEN rt'[c].by = j.q.by ELSE rt'[c] = rt[c]
      BY <1>5, <2>1, InputConstants DEF Applied, AppliedTo
    <2>3. j.q.cs \subseteq Channels  BY DEF Jobs, Requests
    <2> QED  BY <1>2, <1>3, <1>4, <1>5, <2>2, <2>3 DEF SureInv
  <1>6. CASE ~(out = "ok" /\ j.q.on)
    <2>1. SureKept(rt, rt')  BY <1>1, <1>6, AnswerSure
    <2>2. ~(wk'.sure /\ wk'.job.q.on)  BY <1>3, <1>6
    <2> QED  BY <1>2, <1>3, <1>4, <2>1, <2>2 DEF SureInv, SureKept
  <1> QED  BY <1>5, <1>6

LEMMA RecordSure ==
  ASSUME InputsTyped, SureInv, WorkerRecord
  PROVE  SureInv'
  <1> DEFINE q == wk.job.q
  <1>1. wk.at = "record" /\ owners' = Recorded(q, wk.loop, wk.sure) /\ UNCHANGED rt /\ wk' = Moved(wk)
    BY DEF WorkerRecord, Moved, inputVars
  <1>2. wk'.at = "write"
    BY <1>1, WorkingMoves DEF InputsTyped, ThreadsTyped, RuntimeTyped, WorkingTyped
  <1>3. ASSUME NEW c \in Channels, owners'[c].sure, rt[c].sure PROVE rt[c].by = owners'[c].by
    <2>1. CASE owners' = owners /\ ~(wk.sure /\ q.on)  BY <1>1, <1>3, <2>1 DEF SureInv
    <2>2. CASE owners'[c] = Idle  BY <1>3, <2>2, InputConstants
    <2>3. CASE c \notin q.cs /\ owners'[c] = owners[c]  BY <1>1, <1>3, <2>3 DEF SureInv
    <2>4. CASE c \in q.cs /\ q.on
               /\ owners'[c] = [by |-> q.by, loop |-> IF c = "mine" THEN wk.loop ELSE 0, sure |-> wk.sure]
      <3>1. wk.sure  BY <1>3, <2>4
      <3> QED  BY <1>1, <1>3, <2>4, <3>1 DEF SureInv
    <2>5. \/ owners' = owners /\ ~(wk.sure /\ q.on)
          \/ owners'[c] = Idle
          \/ c \notin q.cs /\ owners'[c] = owners[c]
          \/ c \in q.cs /\ q.on
             /\ owners'[c] = [by |-> q.by, loop |-> IF c = "mine" THEN wk.loop ELSE 0, sure |-> wk.sure]
      BY <1>1 DEF Recorded
    <2> QED  BY <2>1, <2>2, <2>3, <2>4, <2>5
  <1> QED  BY <1>1, <1>2, <1>3 DEF SureInv

\* A cleanup goes on over what was its own.
LEMMA CleaningSure ==
  ASSUME SureInv, SureKept(rt, rt'), SureKept(owners, owners'), wk.at # "record",
         NEW l \in Nat, NEW w, WorkingTyped(w, l), w.at = "clean", Cleaning(w),
         \A c \in w.todo : c \in Channels /\ (w.entries[c].sure /\ rt[c].sure => rt[c].by = w.entries[c].by)
  PROVE  SureInv'
  <1>1. CASE wk' = w  BY <1>1 DEF SureInv, SureKept
  <1>2. CASE wk'.at = "write"  BY <1>2, SureRests
  <1> QED  BY <1>1, <1>2, CleaningIs

LEMMA SureInvNext ==
  ASSUME InputsTyped, SureInv, [InputsNext]_endbotdVars
  PROVE  SureInv'
  <1> USE DEF inputVars, threadVars
  <1> DEFINE l == loopIds
  <1>1. /\ l \in Nat /\ Given(owners, l) /\ WorkingTyped(wk, l) /\ wk \in Workings /\ runs \subseteq Runs
    BY DEF InputsTyped, RuntimeTyped, TablesTyped, ThreadsTyped, WorkingTyped
  <1>2. Resting.at = "idle" /\ [Resting EXCEPT !.at = "write"].at = "write"
        /\ [Resting EXCEPT !.at = "endloop"].at = "endloop"
    BY <1>1, RestingTyped
  <1> HIDE DEF l
  <1>3. CASE \E q \in Asked(Player) : WorkerCommand(q)
    <2>1. PICK q \in Asked(Player) : Request(WorkerJob("command", Nobody, q))  BY <1>3 DEF WorkerCommand
    <2>2. WorkerJob("command", Nobody, q) \in Jobs  BY AskedRequests DEF WorkerJob, Jobs
    <2> QED  BY <2>1, <2>2, RequestSure
  <1>4. ASSUME NEW r \in Runs, NEW q \in Asked(r), WorkerOperation(r, q) PROVE SureInv'
    <2>1. WorkerJob("operation", r, q) \in Jobs  BY AskedRequests DEF WorkerJob, Jobs
    <2> QED  BY <1>4, <2>1, RequestSure DEF WorkerOperation
  <1>5. CASE WorkerRecord  BY <1>5, RecordSure
  <1>6. ASSUME wk.at # "record", ~(wk.at = "idle" /\ wk'.at = "record")
        PROVE  SureKept(rt, rt') /\ SureKept(owners, owners')
    BY <1>6, RuntimeSure, OwnersSure DEF WorkerRecord
  <1>7. CASE UNCHANGED wk /\ ~WorkerRecord
    <2>1. SureKept(rt, rt') /\ SureKept(owners, owners')  BY <1>7, RuntimeSure, OwnersSure
    <2>2. wk.todo \subseteq Channels /\ (wk.at = "record" => wk.job.q.cs \subseteq Channels)
      BY <1>1 DEF Workings, Jobs, Requests
    <2> QED  BY <1>7, <2>1, <2>2 DEF SureInv, SureKept
  <1>8. CASE WorkerWrite \/ \E r \in Runs : WorkerStart(r)
    <2>1. wk.at \in {"write", "idle"} /\ wk'.at \in {"idle", "write", "endloop"}
      BY <1>2, <1>8 DEF WorkerWrite, WorkerStart, Takes
    <2>2. SureKept(rt, rt') /\ SureKept(owners, owners')  BY <1>6, <2>1
    <2> QED  BY <2>1, <2>2, SureRests
  <1>9. CASE WorkerEndLoop
    <2>1. wk.at = "endloop"  BY <1>9 DEF WorkerEndLoop
    <2>2. SureKept(rt, rt') /\ SureKept(owners, owners')  BY <1>6, <2>1
    <2>3. CASE wk' = Resting  BY <1>2, <2>1, <2>2, <2>3, SureRests
    <2>4. CASE \E out \in Outcomes :
                 wk' = Working("record", WorkerJob("endloop", Nobody, End("mine", Nobody, mining)),
                               NoInput, {}, 0, out = "ok")
      <3>1. wk'.at = "record" /\ ~wk'.job.q.on  BY <2>4 DEF Working, WorkerJob, End
      <3> QED  BY <2>1, <2>2, <3>1 DEF SureInv, SureKept
    <2> QED  BY <1>9, <2>3, <2>4 DEF WorkerEndLoop
  <1>10. CASE WorkerCleanup
    <2> DEFINE j == Head(queue)
               todo == OwnedBy(IF j.kind = "close" THEN runs ELSE {j.run}, owners)
               w == Working("clean", j, owners, todo, 0, FALSE)
    <2>1. Cleaning(w) /\ queue # <<>> /\ wk.at = "idle"  BY <1>10 DEF WorkerCleanup
    <2>2. j \in Jobs  BY <2>1 DEF InputsTyped, TablesTyped
    <2>3. todo \subseteq Channels  BY DEF OwnedBy
    <2> HIDE DEF j, todo
    <2>4. WorkingTyped(w, l) /\ l \in Nat  BY <1>1, <2>2, <2>3, UnsureWorking
    <2>5. w.at = "clean" /\ w.todo = todo /\ w.entries = owners  BY DEF Working
    <2> HIDE DEF w
    <2>6. wk'.at # "record"  BY <2>1, <2>4, <2>5, CleaningIs
    <2>7. SureKept(rt, rt') /\ SureKept(owners, owners')  BY <1>6, <2>1, <2>6
    <2>8. \A c \in w.todo : c \in Channels /\ (w.entries[c].sure /\ rt[c].sure => rt[c].by = w.entries[c].by)
      BY <2>1, <2>3, <2>5 DEF SureInv
    <2> QED  BY <2>1, <2>4, <2>5, <2>7, <2>8, CleaningSure
  <1>11. CASE WorkerClean
    <2>1. PICK cs : Cleaning(Shrunk(wk, cs))  BY <1>11 DEF WorkerClean, Shrunk
    <2>2. wk.at = "clean"  BY <1>11 DEF WorkerClean
    <2> DEFINE w == Shrunk(wk, cs)
    <2>3. WorkingTyped(w, l) /\ w.at = wk.at /\ w.todo = wk.todo \ cs /\ w.entries = wk.entries /\ l \in Nat
      BY <1>1, WorkingMoves
    <2>4. Cleaning(w)  BY <2>1
    <2> HIDE DEF w
    <2>5. wk'.at # "record"  BY <2>2, <2>3, <2>4, CleaningIs
    <2>6. SureKept(rt, rt') /\ SureKept(owners, owners')  BY <1>6, <2>2, <2>5
    <2>7. \A c \in w.todo : c \in Channels /\ (w.entries[c].sure /\ rt[c].sure => rt[c].by = w.entries[c].by)
      BY <1>1, <2>2, <2>3 DEF SureInv, Workings
    <2> QED  BY <2>2, <2>3, <2>4, <2>6, <2>7, CleaningSure
  <1>12. CASE Crash \/ ProcessExits
    <2>1. wk' = Resting /\ owners' = NoInput  BY <1>12 DEF Crash, ProcessExits, Dies
    <2>2. \A c \in Channels : ~owners'[c].sure  BY <2>1, InputConstants DEF NoInput
    <2> QED  BY <1>2, <2>1, <2>2 DEF SureInv
  <1>13. ASSUME UNCHANGED wk PROVE ~WorkerRecord
    <2>1. Moved(wk).at = "write"  BY <1>1, WorkingMoves
    <2> QED  BY <1>13, <2>1 DEF WorkerRecord, Moved
  <1>14. CASE Runtime \/ UNCHANGED endbotdVars
    BY <1>7, <1>13, <1>14 DEF Runtime, ServeLate, InputEnds, endbotdVars
  <1>15. CASE \E r \in Runs : RunThread(r)
    BY <1>7, <1>13, <1>15 DEF RunThread, RunEnds, RunLeaves, RunRecords
  <1>16. CASE Polling
    BY <1>7, <1>13, <1>16 DEF Polling, PollRenews, PollEnds, PollChecks, PollPops, PollWrites
  <1>17. CASE Worker  BY <1>3, <1>4, <1>5, <1>8, <1>9, <1>10, <1>11, <1>17 DEF Worker
  <1>18. CASE Process
    BY <1>7, <1>12, <1>13, <1>18 DEF Process, CloseBegins, CloseTakes, CloseWrites, StartsAgain, RecoveryStops,
         RecoveryEnds
  <1> QED  BY <1>14, <1>15, <1>16, <1>17, <1>18 DEF InputsNext

LEMMA SureInvInit == InputsInit => SureInv
  <1>1. Resting.at = "idle"  BY DEF Resting, Working
  <1> QED  BY <1>1, InputConstants DEF InputsInit, SureInv, NoInput

(* A cleanup that acts on an acknowledged ownership ends no acknowledged   *)
(* input of another caller.  OwnedInputs.cleanup.                          *)
THEOREM CleanupsPreserve == InputsSpec => LaterInputsPreserved
  <1>1. InputsInit => InputsTyped /\ SureInv  BY InputsTypedInit, SureInvInit
  <1>2. InputsTyped /\ SureInv /\ [InputsNext]_endbotdVars => (InputsTyped /\ SureInv)'
    BY InputsTypedNext, SureInvNext
  <1>3. InputsTyped /\ SureInv /\ [InputsNext]_endbotdVars =>
          [\A c \in wk.todo \ wk'.todo :
             (wk.at = "clean" /\ phase' # "down" /\ wk.entries[c].sure /\ rt[c].sure /\ rt'[c] = Idle)
               => rt[c].by = wk.entries[c].by]_endbotdVars
    BY DEF SureInv
  <1> QED  BY <1>1, <1>2, <1>3, PTL DEF InputsSpec, LaterInputsPreserved

(***************************************************************************)
(* Every input a script left is stopped by someone.                        *)
(***************************************************************************)
\* A step that only ends inputs keeps what stops the rest, whatever loop it names.
Settles ==
  \A c \in Scripted' :
    /\ c \in Scripted
    /\ \A l \in 0 .. loopIds : l \in {0, Effective[c].loop} => l \in {0, Effective'[c].loop}
    /\ \A l \in 1 .. loopIds : Effective[c].loop # l => Effective'[c].loop # l

LEMMA FadeSettles ==
  ASSUME loopIds \in Nat, AllFade(loopIds, Effective, Effective')
  PROVE  Settles
  <1> SUFFICES ASSUME NEW c \in Channels, Effective'[c].by \in Runs
               PROVE  /\ Effective[c].by \in Runs
                      /\ \A l \in 0 .. loopIds : l \in {0, Effective[c].loop} => l \in {0, Effective'[c].loop}
                      /\ \A l \in 1 .. loopIds : Effective[c].loop # l => Effective'[c].loop # l
    BY DEF Settles, Scripted
  <1>1. Fades(loopIds, Effective[c], Effective'[c])  BY DEF AllFade
  <1>2. Nobody \notin Runs  BY InputConstants
  <1>3. CASE Effective'[c] = Effective[c]  BY <1>3
  <1>4. CASE Effective[c].loop = 0 /\ Effective'[c].by = Effective[c].by /\ Effective'[c].loop > loopIds
    <2>1. \A l \in 1 .. loopIds : Effective'[c].loop # l  BY <1>4
    <2> QED  BY <1>4, <2>1
  <1> QED  BY <1>1, <1>2, <1>3, <1>4 DEF Fades

LEMMA SameSettles ==
  ASSUME UNCHANGED <<rt, late>>
  PROVE  Settles /\ Effective' = Effective
  <1>1. Effective' = Effective  BY DEF Effective
  <1> QED  BY <1>1 DEF Settles, Scripted

\* The runtime served everything: an answered request is what it has.
LEMMA AnsweredEffect ==
  ASSUME NEW q, NEW k, Answer(q, "ok", k)
  PROVE  /\ Effective = rt /\ Effective' = rt' /\ rt' = Applied(rt, q, loopIds + 1, TRUE)
         /\ loopIds' = IF q.on /\ "mine" \in q.cs THEN loopIds + 1 ELSE loopIds
  <1>1. /\ late = <<>> /\ late' = <<>> /\ rt' = Applied(rt, q, loopIds + 1, TRUE)
        /\ loopIds' = IF q.on /\ "mine" \in q.cs THEN loopIds + 1 ELSE loopIds
    BY DEF Answer
  <1> QED  BY <1>1, ServedEmpty DEF Effective

LEMMA LateEffect ==
  ASSUME RuntimeTyped, NEW q \in Requests, q.loop <= loopIds, NEW k, Answer(q, "late", k)
  PROVE  /\ loopIds' = loopIds
         /\ \A c \in Channels : Fades(loopIds, OneInput(Effective[c], c, q), Effective'[c])
  <1>1. rt' = rt /\ loopIds' = loopIds /\ late' = Append(late, q)  BY DEF Answer
  <1>2. loopIds \in Nat /\ late \in Seq(Requests) /\ \A i \in DOMAIN late : late[i].loop <= loopIds
    BY DEF RuntimeTyped
  <1>3. Effective' = Served(rt, Append(late, q))  BY <1>1 DEF Effective
  <1> QED  BY <1>1, <1>2, <1>3, ServedOneMore DEF Effective

\* An end only ends, and an answered one has ended what it names.
LEMMA EndSettles ==
  ASSUME RuntimeTyped, NEW c \in Channels, NEW l \in Nat, l <= loopIds, NEW out \in Outcomes, NEW k,
         Answer(End(c, Nobody, l), out, k)
  PROVE  /\ Settles /\ loopIds' = loopIds
         /\ out = "ok" => \A d \in Channels :
              Effective[d] = rt[d] /\ Effective'[d] = rt'[d]
              /\ rt'[d] = IF d = c /\ l \in {0, rt[d].loop} THEN Idle ELSE rt[d]
  <1> DEFINE q == End(c, Nobody, l)
  <1>1. q \in Requests /\ q.loop = l /\ q.on = FALSE /\ q.cs = {c} /\ ClearedBy(q) = {} /\ loopIds \in Nat
    BY EndRequests DEF RuntimeTyped
  <1>2. Answer(q, out, k)  OBVIOUS
  <1> HIDE DEF q
  <1>3. CASE out = "ok"
    <2>1. /\ Effective = rt /\ Effective' = rt' /\ rt' = Applied(rt, q, loopIds + 1, TRUE)
          /\ loopIds' = IF q.on /\ "mine" \in q.cs THEN loopIds + 1 ELSE loopIds
      BY <1>2, <1>3, AnsweredEffect
    <2>2. \A d \in Channels : rt'[d] = IF d = c /\ l \in {0, rt[d].loop} THEN Idle ELSE rt[d]
      BY <1>1, <2>1 DEF Applied, AppliedTo
    <2>3. AllFade(loopIds, Effective, Effective')
      BY <2>1, <2>2, InputConstants DEF AllFade, Fades
    <2>4. Settles  BY <1>1, <2>3, FadeSettles
    <2> QED  BY <1>1, <1>3, <2>1, <2>2, <2>4
  <1>4. CASE out = "late"
    <2>1. loopIds' = loopIds /\ \A d \in Channels : Fades(loopIds, OneInput(Effective[d], d, q), Effective'[d])
      BY <1>1, <1>2, <1>4, LateEffect
    <2>2. ASSUME NEW d \in Channels PROVE Fades(loopIds, Effective[d], Effective'[d])
      <3>1. OneInput(Effective[d], d, q) = Effective[d] \/ OneInput(Effective[d], d, q) = Idle
        BY <1>1 DEF OneInput, AppliedTo
      <3>2. Fades(loopIds, Effective[d], OneInput(Effective[d], d, q))
        BY <3>1, InputConstants DEF Fades
      <3> QED  BY <1>1, <2>1, <3>2, FadesOn
    <2>3. Settles  BY <1>1, <2>2, FadeSettles DEF AllFade
    <2> QED  BY <1>4, <2>1, <2>3
  <1>5. CASE out \in {"refused", "lost"}
    <2>1. UNCHANGED <<rt, late, loopIds>>  BY <1>2, <1>5 DEF Answer
    <2> QED  BY <1>5, <2>1, SameSettles
  <1> QED  BY <1>3, <1>4, <1>5 DEF Outcomes

\* A waiting request served, and an input ending, change nothing else.
LEMMA RuntimeSettles ==
  ASSUME InputsTyped, Runtime
  PROVE  Settles
  <1>0. /\ loopIds \in Nat /\ late \in Seq(Requests) /\ \A i \in DOMAIN late : late[i].loop <= loopIds
        /\ rt \in [Channels -> Entries]
    BY DEF InputsTyped, RuntimeTyped, Given, Inputs
  <1>1. CASE ServeLate
    <2>1. late # <<>> /\ Effective' = Served(Applied(rt, Head(late), loopIds + 1, FALSE), Tail(late))
      BY <1>1 DEF ServeLate, Effective
    <2>2. AllFade(loopIds, Effective, Effective')  BY <1>0, <2>1, ServedFirst DEF Effective
    <2> QED  BY <1>0, <2>2, FadeSettles
  <1>2. ASSUME NEW c \in Channels, InputEnds(c) PROVE Settles
    <2>1. rt' = [rt EXCEPT ![c] = Idle] /\ late' = late  BY <1>2 DEF InputEnds
    <2>2. AllFade(loopIds, rt, rt')  BY <1>0, <2>1, InputConstants DEF AllFade, Fades
    <2>3. AllFade(loopIds, Served(rt, late), Served(rt', late))  BY <1>0, <2>2, ServedFades
    <2>4. AllFade(loopIds, Effective, Effective')  BY <2>1, <2>3 DEF Effective
    <2> QED  BY <1>0, <2>4, FadeSettles
  <1> QED  BY <1>1, <1>2 DEF Runtime

\* Every ownership and every thread names a loop that was given out.
LEMMA LoopsKnown ==
  ASSUME InputsTyped
  PROVE  /\ loopIds \in Nat
         /\ \A c \in Channels : owners[c].loop \in 0 .. loopIds /\ wk.entries[c].loop \in 0 .. loopIds
              /\ file.owned[c].loop \in 0 .. loopIds
         /\ wk.loop \in 0 .. loopIds /\ poll.loop \in 0 .. loopIds /\ mining \in 0 .. loopIds
  <1>1. loopIds \in Nat /\ Given(owners, loopIds) /\ Given(wk.entries, loopIds) /\ Given(file.owned, loopIds)
    BY DEF InputsTyped, RuntimeTyped, TablesTyped, ThreadsTyped, JournalTaken, Journal
  <1>2. \A s, c : Given(s, loopIds) /\ c \in Channels => s[c].loop \in 0 .. loopIds
    <2>1. \A s, c : Given(s, loopIds) /\ c \in Channels => s[c].loop \in Nat /\ s[c].loop <= loopIds
      BY DEF Given, Inputs, Entries
    <2> QED  BY <1>1, <2>1
  <1>3. /\ wk.loop \in Nat /\ poll.loop \in Nat /\ mining \in Nat
        /\ wk.loop <= loopIds /\ poll.loop <= loopIds /\ mining <= loopIds
    BY DEF InputsTyped, ThreadsTyped, Workings, Polls
  <1> QED  BY <1>1, <1>2, <1>3

\* Steps of the runtime, and an end of the poll, leave the threads' promises alone.
LEMMA SettledOpen ==
  ASSUME InputsTyped, OpenInv, Settles, abandoned' = abandoned,
         UNCHANGED <<owners, runs, stage, queue, wk>>, OpenPoll'
  PROVE  OpenInv'
  <1>1. \A c \in Scripted' : c \in Channels  BY DEF Scripted
  <1>2. OpenJobs'  BY DEF OpenInv, OpenJobs
  <1>3. OpenCleanups'
    <2>1. \A c \in Scripted' : Stops(wk.entries[c], c) => wk.entries[c].loop \in {0, Effective'[c].loop}
      BY <1>1, LoopsKnown DEF Settles, Stops
    <2>2. wk.at = "clean" => \A c \in wk.todo \cap (Scripted' \ abandoned') : wk.entries[c].loop \in {0, Effective'[c].loop}
      BY <2>1 DEF OpenInv, OpenCleanups, Settles
    <2> QED  BY <2>2 DEF OpenInv, OpenCleanups, Stops, OwnedBy
  <1>4. OpenRecord'
    <2>1. wk.at = "record" => \A c \in Scripted' : Recording(c) => wk.loop \in {0, Effective'[c].loop}
      BY LoopsKnown DEF OpenInv, OpenRecord, Settles
    <2>2. wk.at = "record" /\ wk.sure => \A c \in Scripted' \cap (wk.job.q.cs \cup ClearedBy(wk.job.q)) : Recording(c)
      BY DEF OpenInv, OpenRecord, Settles
    <2> QED  BY <2>1, <2>2 DEF OpenRecord, Recording
  <1>5. OpenOwned'
    <2>1. \A c \in Scripted' : Stops(owners[c], c) => owners[c].loop \in {0, Effective'[c].loop}
      BY <1>1, LoopsKnown DEF Settles, Stops
    <2>2. \A c \in Scripted' \ abandoned' :
             Recording(c) \/ (owners[c].by \in runs /\ owners[c].loop \in {0, Effective'[c].loop})
      BY <2>1 DEF OpenInv, OpenOwned, Settles
    <2> QED  BY <2>2 DEF OpenOwned, Recording, Stops
  <1> QED  BY <1>2, <1>3, <1>4, <1>5 DEF OpenInv

LEMMA RuntimeOpen ==
  ASSUME InputsTyped, OpenInv, Runtime \/ UNCHANGED endbotdVars
  PROVE  OpenInv'
  <1>1. Settles  BY RuntimeSettles, SameSettles DEF endbotdVars
  <1>2. UNCHANGED <<owners, runs, stage, queue, wk, poll, abandoned>>
    BY DEF Runtime, ServeLate, InputEnds, endbotdVars, threadVars
  <1>3. OpenPoll'
    <2>1. poll.at \in {"check", "pop"} => poll.loop \in 1 .. loopIds
      BY LoopsKnown DEF OpenInv, OpenPoll
    <2> QED  BY <1>1, <1>2, <2>1 DEF OpenInv, OpenPoll, Settles
  <1> QED  BY <1>1, <1>2, <1>3, SettledOpen

\* A run starts, ends, leaves the table and records that.
LEMMA StartOpen ==
  ASSUME InputsTyped, OpenInv, NEW r \in Runs, WorkerStart(r)
  PROVE  OpenInv'
  <1>1. /\ wk.at = "idle" /\ stage[r] = "new" /\ runs' = runs \cup {r} /\ stage' = [stage EXCEPT ![r] = "live"]
        /\ wk' = [Resting EXCEPT !.at = "write"] /\ UNCHANGED <<rt, late, abandoned, owners, queue, poll>>
    BY DEF WorkerStart, Takes, inputVars
  <1>2. wk'.at = "write" /\ wk'.job.kind = "none"
    BY <1>1, RestingTyped, InputConstants, LoopsKnown
  <1>3. Effective' = Effective /\ Scripted' = Scripted  BY <1>1, SameSettles DEF Scripted
  <1>4. stage \in [Runs -> Stages]  BY DEF InputsTyped, TablesTyped
  <1>5. OpenJobs'  BY <1>1, <1>2, <1>4 DEF OpenInv, OpenJobs
  <1>6. OpenCleanups'  BY <1>1, <1>2, <1>4 DEF OpenInv, OpenCleanups, OwnedBy
  <1>7. OpenRecord'  BY <1>2 DEF OpenRecord
  <1>8. OpenPoll'  BY <1>1, <1>3 DEF OpenInv, OpenPoll
  <1>9. OpenOwned'
    <2>1. \A c \in Scripted \ abandoned : owners[c].by \in runs /\ Stops(owners[c], c)
      BY <1>1 DEF OpenInv, OpenOwned, Recording
    <2> QED  BY <1>1, <1>3, <2>1 DEF OpenOwned, Stops
  <1> QED  BY <1>5, <1>6, <1>7, <1>8, <1>9 DEF OpenInv

LEMMA ThreadOpen ==
  ASSUME InputsTyped, OpenInv, phase = "up", NEW r \in Runs, RunThread(r)
  PROVE  OpenInv'
  <1>1. UNCHANGED <<rt, late, abandoned, owners, wk, poll>>
    BY DEF RunThread, RunEnds, RunLeaves, RunRecords, inputVars
  <1>2. Effective' = Effective /\ Scripted' = Scripted  BY <1>1, SameSettles DEF Scripted
  <1>3. stage \in [Runs -> Stages] /\ queue \in Seq(Jobs)  BY DEF InputsTyped, TablesTyped
  <1>4. OpenPoll' /\ OpenRecord'
    BY <1>1, <1>2 DEF OpenInv, OpenPoll, OpenRecord, Recording
  <1>5. CASE RunEnds(r)
    <2>1. /\ stage[r] = "live" /\ stage' = [stage EXCEPT ![r] = "cleaning"] /\ runs' = runs
          /\ queue' = Append(queue, WorkerJob("cleanup", r, NoRequest))
      BY <1>5 DEF RunEnds, Enqueue
    <2>2. \A i \in DOMAIN queue' : queue'[i].kind = "cleanup" /\ queue'[i].run \in Runs
      <3>1. \A i \in DOMAIN queue' : queue'[i] = WorkerJob("cleanup", r, NoRequest)
                                     \/ (i \in DOMAIN queue /\ queue'[i] = queue[i])
        BY <1>3, <2>1
      <3> QED  BY <3>1 DEF OpenInv, OpenJobs, WorkerJob
    <2>3. OpenJobs'  BY <1>1, <1>3, <2>1, <2>2 DEF OpenInv, OpenJobs
    <2>4. OpenCleanups'  BY <1>1, <1>2, <1>3, <2>1 DEF OpenInv, OpenCleanups, OwnedBy, Stops
    <2>5. OpenOwned'  BY <1>1, <1>2, <2>1 DEF OpenInv, OpenOwned, Recording, Stops
    <2> QED  BY <1>4, <2>3, <2>4, <2>5 DEF OpenInv
  <1>6. CASE RunLeaves(r)
    <2>1. stage[r] = "cleaned" /\ stage' = [stage EXCEPT ![r] = "left"] /\ runs' = runs \ {r} /\ queue' = queue
      BY <1>6 DEF RunLeaves, Shut
    <2>2. OpenJobs'  BY <1>1, <1>3, <2>1 DEF OpenInv, OpenJobs
    <2>3. OpenCleanups'  BY <1>1, <1>2, <1>3, <2>1 DEF OpenInv, OpenCleanups, OwnedBy, Stops
    <2>4. \A c \in Channels : owners[c].by # r  BY <2>1 DEF OpenInv, OpenCleanups, OwnedBy
    <2>5. OpenOwned'
      <3>1. \A c \in Scripted : owners[c].by \in runs => owners[c].by \in runs'  BY <2>1, <2>4 DEF Scripted
      <3> QED  BY <1>1, <1>2, <3>1 DEF OpenInv, OpenOwned, Recording, Stops
    <2> QED  BY <1>4, <2>2, <2>3, <2>5 DEF OpenInv
  <1>7. CASE RunRecords(r)
    <2>1. stage[r] = "left" /\ stage' = [stage EXCEPT ![r] = "gone"] /\ runs' = runs /\ queue' = queue
      BY <1>7 DEF RunRecords
    <2>2. OpenJobs'  BY <1>1, <1>3, <2>1 DEF OpenInv, OpenJobs
    <2>3. OpenCleanups'  BY <1>1, <1>2, <1>3, <2>1 DEF OpenInv, OpenCleanups, OwnedBy, Stops
    <2>4. OpenOwned'  BY <1>1, <1>2, <2>1 DEF OpenInv, OpenOwned, Recording, Stops
    <2> QED  BY <1>4, <2>2, <2>3, <2>4 DEF OpenInv
  <1> QED  BY <1>5, <1>6, <1>7 DEF RunThread

\* The ownership that was recorded belongs to a run that waits for it, and stops
\* what the runtime has; what was acknowledged to others leaves no script input.
LEMMA RecordOpen ==
  ASSUME InputsTyped, OpenInv, WorkerRecord
  PROVE  OpenInv'
  <1> DEFINE q == wk.job.q
             mine(c) == [by |-> q.by, loop |-> IF c = "mine" THEN wk.loop ELSE 0, sure |-> wk.sure]
  <1>1. /\ wk.at = "record" /\ owners' = Recorded(q, wk.loop, wk.sure) /\ wk' = Moved(wk)
        /\ UNCHANGED <<rt, late, abandoned, runs, stage, queue, poll>>
    BY DEF WorkerRecord, Moved, inputVars
  <1>2. wk'.at = "write" /\ wk'.job = wk.job
    BY <1>1, WorkingMoves DEF InputsTyped, ThreadsTyped, RuntimeTyped, WorkingTyped
  <1>3. Effective' = Effective /\ Scripted' = Scripted  BY <1>1, SameSettles DEF Scripted
  <1>4. /\ q.loop = 0 /\ wk.job.kind \in {"command", "operation"}
        /\ q.by \in Runs => wk.job.kind = "operation" /\ wk.job.run = q.by
                             /\ stage[q.by] = "waiting" /\ q.by \in runs
    BY <1>1 DEF OpenInv, OpenJobs
  <1>5. OpenJobs'  BY <1>1, <1>2, <1>4 DEF OpenInv, OpenJobs
  <1>6. ASSUME NEW c \in Channels
        PROVE  \/ owners'[c] = owners[c] /\ ~(c \in q.cs /\ q.on /\ q.by \in Runs)
                  /\ (wk.sure => c \notin q.cs \cup ClearedBy(q))
               \/ c \in q.cs /\ q.on /\ q.by \in Runs /\ owners'[c] = mine(c)
               \/ owners'[c] = Idle /\ wk.sure /\ c \in q.cs \cup ClearedBy(q)
                  /\ ~(c \in q.cs /\ q.on /\ q.by \in Runs)
    <2>1. CASE ~wk.sure /\ ~(q.on /\ q.by \in Runs)
      BY <1>1, <2>1 DEF Recorded
    <2>2. CASE wk.sure \/ (q.on /\ q.by \in Runs)
      <3>1. owners'[c] = IF c \in q.cs THEN IF q.on /\ q.by \in Runs THEN mine(c) ELSE Idle
                         ELSE IF wk.sure /\ c \in ClearedBy(q) THEN Idle
                         ELSE owners[c]
        BY <1>1, <1>4, <2>2 DEF Recorded
      <3> HIDE DEF mine
      <3> QED  BY <2>2, <3>1
    <2> QED  BY <2>1, <2>2
  <1>7. \A c \in Channels : owners'[c].by \in {owners[c].by, Nobody} \/ (owners'[c].by = q.by /\ q.by \in Runs)
    <2>1. \A c \in Channels : mine(c).by = q.by  OBVIOUS
    <2> HIDE DEF mine, q
    <2> QED  BY <1>6, <2>1, InputConstants
  <1>8. OpenCleanups'
    <2>1. \A r \in Runs : stage[r] = "cleaned" => \A c \in Channels : owners'[c].by # r
      BY <1>4, <1>7, InputConstants DEF OpenInv, OpenCleanups, OwnedBy
    <2> QED  BY <1>1, <1>2, <1>4, <2>1 DEF OpenCleanups, OwnedBy
  <1>9. OpenRecord' /\ OpenPoll'  BY <1>1, <1>2, <1>3 DEF OpenInv, OpenRecord, OpenPoll
  <1>10. ASSUME NEW c \in Scripted \ abandoned
         PROVE  owners'[c].by \in runs /\ owners'[c].loop \in {0, Effective[c].loop}
    <2>1. c \in Channels  BY DEF Scripted
    <2>2. CASE Recording(c)
      <3>1. owners'[c] = mine(c)  BY <1>6, <2>1, <2>2 DEF Recording
      <3>2. wk.loop \in {0, Effective[c].loop}  BY <1>1, <2>2 DEF OpenInv, OpenRecord
      <3> QED  BY <1>4, <2>2, <3>1, <3>2 DEF Recording
    <2>3. CASE ~Recording(c)
      <3>1. ~(c \in q.cs /\ q.on /\ q.by \in Runs)  BY <1>1, <2>3 DEF Recording
      <3>2. wk.sure => c \notin q.cs \cup ClearedBy(q)  BY <1>1, <2>3 DEF OpenInv, OpenRecord
      <3>3. owners'[c] = owners[c]  BY <1>6, <2>1, <3>1, <3>2
      <3> QED  BY <2>3, <3>3 DEF OpenInv, OpenOwned, Stops
    <2> QED  BY <2>2, <2>3
  <1>11. OpenOwned'  BY <1>1, <1>3, <1>10 DEF OpenOwned, Stops
  <1> QED  BY <1>5, <1>8, <1>9, <1>11 DEF OpenInv

\* What an answered or an unanswered request of a player or a run leaves.
LEMMA RequestOpen ==
  ASSUME InputsTyped, OpenInv, NEW by \in Runs \cup {Player}, NEW q \in Asked(by),
         NEW kind \in {"command", "operation"}, NEW r \in Runs \cup {Nobody},
         Request(WorkerJob(kind, r, q)),
         IF kind = "operation" THEN r = by /\ stage[r] = "live" /\ stage' = [stage EXCEPT ![r] = "waiting"]
                               ELSE by = Player /\ UNCHANGED stage
  PROVE  OpenInv'
  <1> DEFINE j == WorkerJob(kind, r, q)
  <1>1. q \in Requests /\ q.loop = 0 /\ q.by = by /\ (q.on => \E c \in Channels : q.cs = {c})
        /\ j.q = q /\ j.kind = kind /\ j.run = r
    BY AskedRequests DEF WorkerJob
  <1>2. Request(j)  OBVIOUS
  <1> HIDE DEF j
  <1>3. PICK out \in Outcomes :
          /\ Answer(q, out, [count EXCEPT !.ops = @ + 1])
          /\ abandoned' = IF out = "ok" THEN abandoned \ (q.cs \cup ClearedBy(q)) ELSE abandoned
          /\ wk' = IF out = "refused"
                   THEN Working("record", WorkerJob(j.kind, j.run, NoRequest), NoInput, {}, 0, FALSE)
                   ELSE Working("record", j, NoInput, {},
                                IF out = "ok" /\ "mine" \in q.cs THEN loopIds' ELSE 0, out = "ok")
    BY <1>1, <1>2 DEF Request
  <1>4. wk.at = "idle" /\ UNCHANGED <<owners, runs, queue, poll>>  BY <1>2 DEF Request, Takes
  <1>5. /\ wk'.at = "record" /\ wk'.job.kind = kind /\ wk'.job.run = r
        /\ out = "refused" => wk'.job.q = NoRequest /\ ~wk'.sure /\ wk'.loop = 0
        /\ out # "refused" => wk'.job.q = q
        /\ out \in {"lost", "late"} => ~wk'.sure /\ wk'.loop = 0
        /\ out = "ok" => wk'.sure /\ wk'.loop = IF "mine" \in q.cs THEN loopIds' ELSE 0
    BY <1>1, <1>3 DEF Working, WorkerJob
  <1>6. /\ stage \in [Runs -> Stages] /\ loopIds \in Nat /\ RuntimeTyped /\ Player \notin Runs /\ Nobody \notin Runs
        /\ NoRequest.on = FALSE /\ NoRequest.by = Nobody /\ NoRequest.loop = 0 /\ Player # Nobody
    BY InputConstants, InputsAssumption DEF InputsTyped, TablesTyped, RuntimeTyped
  <1>7. OpenJobs'
    <2>1. wk'.job.q.loop = 0 /\ (wk'.job.q.by \in Runs => kind = "operation" /\ r = wk'.job.q.by)
      BY <1>1, <1>5, <1>6
    <2>2. kind = "operation" => r \in Runs /\ stage'[r] = "waiting" /\ r \in runs
      BY <1>6 DEF OpenInv, OpenJobs
    <2>3. \A s \in Runs : stage'[s] \in {"live", "waiting"} => s \in runs
      BY <1>6, <2>2 DEF OpenInv, OpenJobs
    <2> QED  BY <1>4, <1>5, <2>1, <2>2, <2>3 DEF OpenInv, OpenJobs
  <1>8. OpenCleanups'
    <2>1. \A s \in Runs : stage'[s] = "cleaned" => stage[s] = "cleaned"  BY <1>6
    <2> QED  BY <1>4, <1>5, <2>1 DEF OpenInv, OpenCleanups, OwnedBy
  <1>9. \A c \in Scripted \ abandoned : owners[c].by \in runs /\ Stops(owners[c], c)
    BY <1>4 DEF OpenInv, OpenOwned, Recording
  <1>10. poll.at \in {"check", "pop"} => poll.loop \in 1 .. loopIds
    BY LoopsKnown DEF OpenInv, OpenPoll
  <1>11. CASE out \in {"refused", "lost"}
    <2>1. Effective' = Effective /\ Scripted' = Scripted
      BY <1>3, <1>11, SameSettles DEF Answer, Scripted
    <2>2. OpenRecord'  BY <1>5, <1>11 DEF OpenRecord
    <2>3. OpenPoll'  BY <1>4, <2>1 DEF OpenInv, OpenPoll
    <2>4. OpenOwned'  BY <1>3, <1>4, <1>9, <1>11, <2>1 DEF OpenOwned, Stops
    <2> QED  BY <1>7, <1>8, <2>2, <2>3, <2>4 DEF OpenInv
  <1>12. CASE out = "late"
    <2>1. \A c \in Channels : Fades(loopIds, OneInput(Effective[c], c, q), Effective'[c])
      BY <1>1, <1>3, <1>6, <1>12, LateEffect
    <2>2. ASSUME NEW c \in Scripted'
          PROVE  \/ c \in q.cs /\ q.on /\ q.by \in Runs /\ (Effective'[c].loop = 0 \/ Effective'[c].loop > loopIds)
                 \/ /\ c \in Scripted
                    /\ \A l \in 0 .. loopIds : l \in {0, Effective[c].loop} => l \in {0, Effective'[c].loop}
                    /\ \A l \in 1 .. loopIds : Effective[c].loop # l => Effective'[c].loop # l
      <3>1. c \in Channels /\ Effective'[c].by \in Runs  BY DEF Scripted
      <3>2. Fades(loopIds, OneInput(Effective[c], c, q), Effective'[c])  BY <2>1, <3>1
      <3>3. CASE c \notin ClearedBy(q) /\ c \in q.cs /\ q.on
        <4>1. OneInput(Effective[c], c, q).by = q.by /\ OneInput(Effective[c], c, q).loop = 0
          BY <3>3 DEF OneInput, AppliedTo
        <4> QED  BY <1>6, <3>1, <3>2, <3>3, <4>1 DEF Fades
      <3>4. CASE ~(c \notin ClearedBy(q) /\ c \in q.cs /\ q.on)
        <4>1. OneInput(Effective[c], c, q) = Effective[c] \/ OneInput(Effective[c], c, q) = Idle
          BY <3>4 DEF OneInput, AppliedTo
        <4>2. Fades(loopIds, Effective[c], Effective'[c])
          <5>1. Fades(loopIds, Effective[c], OneInput(Effective[c], c, q))
            BY <4>1, InputConstants DEF Fades
          <5> QED  BY <1>6, <3>2, <5>1, FadesOn
        <4>3. CASE Effective'[c] = Effective[c]  BY <3>1, <4>3 DEF Scripted
        <4>4. CASE Effective[c].loop = 0 /\ Effective'[c].by = Effective[c].by /\ Effective'[c].loop > loopIds
          <5>1. \A l \in 1 .. loopIds : Effective'[c].loop # l  BY <4>4, <1>6
          <5> QED  BY <3>1, <4>4, <5>1 DEF Scripted
        <4> QED  BY <1>6, <3>1, <4>2, <4>3, <4>4 DEF Fades
      <3> QED  BY <3>3, <3>4
    <2>3. OpenRecord'  BY <1>5, <1>12 DEF OpenRecord
    <2>4. OpenPoll'
      <3>1. poll.at \in {"check", "pop"} /\ "mine" \in Scripted' => Effective'["mine"].loop # poll.loop
        BY <1>6, <1>10, <2>2 DEF OpenInv, OpenPoll
      <3> QED  BY <1>4, <3>1 DEF OpenInv, OpenPoll
    <2>5. OpenOwned'
      <3>1. ASSUME NEW c \in Scripted' \ abandoned
            PROVE  Recording(c)' \/ (owners[c].by \in runs /\ owners[c].loop \in {0, Effective'[c].loop})
        <4>1. CASE c \in q.cs /\ q.on /\ q.by \in Runs  BY <1>5, <1>12, <4>1 DEF Recording
        <4>2. CASE c \in Scripted
                   /\ \A l \in 0 .. loopIds : l \in {0, Effective[c].loop} => l \in {0, Effective'[c].loop}
          <5>1. owners[c].loop \in 0 .. loopIds  BY LoopsKnown DEF Scripted
          <5> QED  BY <1>9, <4>2, <5>1 DEF Stops
        <4> QED  BY <2>2, <4>1, <4>2
      <3> QED  BY <1>3, <1>4, <1>12, <3>1 DEF OpenOwned, Stops
    <2> QED  BY <1>7, <1>8, <2>3, <2>4, <2>5 DEF OpenInv
  <1>13. CASE out = "ok"
    <2>1. /\ Effective = rt /\ Effective' = rt' /\ rt' = Applied(rt, q, loopIds + 1, TRUE)
          /\ loopIds' = IF q.on /\ "mine" \in q.cs THEN loopIds + 1 ELSE loopIds
      BY <1>3, <1>13, AnsweredEffect
    <2>2. \A c \in Channels : rt'[c] =
             IF c \in ClearedBy(q) THEN Idle
             ELSE IF c \notin q.cs THEN rt[c]
             ELSE IF q.on THEN [by |-> q.by, loop |-> IF c = "mine" THEN loopIds + 1 ELSE 0, sure |-> TRUE]
             ELSE Idle
      BY <1>1, <2>1 DEF Applied, AppliedTo
    <2>3. ASSUME NEW c \in Scripted'
          PROVE  \/ c \notin q.cs /\ c \notin ClearedBy(q) /\ c \in Scripted /\ Effective'[c] = Effective[c]
                 \/ c \in q.cs /\ q.on /\ q.by \in Runs
                    /\ Effective'[c].loop = IF c = "mine" THEN loopIds + 1 ELSE 0
      <3>1. c \in Channels /\ rt'[c].by \in Runs  BY <2>1 DEF Scripted
      <3>2. rt'[c] # Idle  BY <3>1, InputConstants
      <3>3. c \notin ClearedBy(q)  BY <2>2, <3>1, <3>2
      <3>4. CASE c \notin q.cs  BY <2>1, <2>2, <3>1, <3>3, <3>4 DEF Scripted
      <3>5. CASE c \in q.cs
        <4>1. q.on  BY <2>2, <3>1, <3>2, <3>3, <3>5
        <4>2. rt'[c].by = q.by /\ rt'[c].loop = IF c = "mine" THEN loopIds + 1 ELSE 0
          <5> DEFINE e == [by |-> q.by, loop |-> IF c = "mine" THEN loopIds + 1 ELSE 0, sure |-> TRUE]
          <5>1. rt'[c] = e  BY <2>2, <3>1, <3>3, <3>5, <4>1
          <5>2. e.by = q.by /\ e.loop = IF c = "mine" THEN loopIds + 1 ELSE 0  OBVIOUS
          <5> QED  BY <5>1, <5>2
        <4> QED  BY <2>1, <3>1, <3>5, <4>1, <4>2
      <3> QED  BY <3>4, <3>5
    <2>4. OpenRecord'
      <3>1. ASSUME NEW c \in Scripted', Recording(c)' PROVE wk'.loop \in {0, Effective'[c].loop}
        <4>1. c \in q.cs /\ q.on  BY <1>5, <1>13, <3>1 DEF Recording
        <4>2. q.cs = {c}  BY <1>1, <4>1
        <4> QED  BY <1>5, <1>13, <2>1, <2>3, <4>1, <4>2
      <3>2. \A c \in Scripted' \cap (q.cs \cup ClearedBy(q)) : Recording(c)'
        BY <1>5, <1>13, <2>3 DEF Recording
      <3> QED  BY <1>5, <1>13, <3>1, <3>2 DEF OpenRecord
    <2>5. OpenPoll'
      <3>1. poll.at \in {"check", "pop"} /\ "mine" \in Scripted' => Effective'["mine"].loop # poll.loop
        BY <1>6, <1>10, <2>3 DEF OpenInv, OpenPoll
      <3> QED  BY <1>4, <3>1 DEF OpenInv, OpenPoll
    <2>6. OpenOwned'
      <3>1. ASSUME NEW c \in Scripted' \ abandoned'
            PROVE  Recording(c)' \/ (owners[c].by \in runs /\ owners[c].loop \in {0, Effective'[c].loop})
        <4>1. CASE c \in q.cs /\ q.on /\ q.by \in Runs  BY <1>5, <1>13, <4>1 DEF Recording
        <4>2. CASE c \notin q.cs /\ c \notin ClearedBy(q) /\ c \in Scripted /\ Effective'[c] = Effective[c]
          BY <1>3, <1>9, <1>13, <4>2 DEF Stops
        <4> QED  BY <2>3, <4>1, <4>2
      <3> QED  BY <1>4, <3>1 DEF OpenOwned, Stops
    <2> QED  BY <1>7, <1>8, <2>4, <2>5, <2>6 DEF OpenInv
  <1> QED  BY <1>11, <1>12, <1>13 DEF Outcomes

\* A cleanup begins with what its run owns; with nothing to stop it is over.
LEMMA CleanupOpen ==
  ASSUME InputsTyped, OpenInv, WorkerCleanup
  PROVE  OpenInv'
  <1> DEFINE j == Head(queue)
             todo == OwnedBy({j.run}, owners)
             w == Working("clean", j, owners, todo, 0, FALSE)
  <1>0. queue # <<>> /\ queue \in Seq(Jobs) /\ loopIds \in Nat /\ Given(owners, loopIds)
    BY DEF WorkerCleanup, InputsTyped, TablesTyped, RuntimeTyped
  <1>1. j \in Jobs /\ j.kind = "cleanup" /\ j.run \in Runs
    <2>1. 1 \in DOMAIN queue /\ j = queue[1] /\ j \in Jobs  BY <1>0
    <2> QED  BY <2>1 DEF OpenInv, OpenJobs
  <1>2. /\ wk.at = "idle" /\ Cleaning(w) /\ queue' = Tail(queue)
        /\ UNCHANGED <<rt, late, abandoned, owners, runs, stage, poll>>
    BY <1>1 DEF WorkerCleanup, inputVars
  <1>3. \A i \in DOMAIN Tail(queue) : Tail(queue)[i] = queue[i + 1] /\ i + 1 \in DOMAIN queue
    BY <1>0
  <1>4. todo \subseteq Channels  BY DEF OwnedBy
  <1> DEFINE Cleaned == OwnedBy({wk'.job.run}, owners)
  <1>5. /\ wk'.job = j
        /\ \/ wk'.at = "clean" /\ wk'.todo = todo /\ wk'.entries = owners
           \/ wk'.at = "write" /\ todo = {}
    <2> HIDE DEF j, todo
    <2>1. WorkingTyped(w, loopIds)  BY <1>0, <1>1, <1>4, UnsureWorking
    <2>2. w.at = "clean" /\ w.todo = todo /\ w.entries = owners /\ w.job = j  BY DEF Working
    <2>3. Cleaning(w)  BY <1>2
    <2> HIDE DEF w
    <2>4. wk'.job = w.job /\ (wk' = w \/ (wk'.at = "write" /\ w.todo = {}))
      BY <1>0, <2>1, <2>2, <2>3, CleaningIs
    <2> QED  BY <2>2, <2>4
  <1>6. Effective' = Effective /\ Scripted' = Scripted  BY <1>2, SameSettles DEF Scripted
  <1>7. \A i \in DOMAIN queue' : queue'[i].kind = "cleanup" /\ queue'[i].run \in Runs
    BY <1>2, <1>3 DEF OpenInv, OpenJobs
  <1>8. todo = OwnedBy({wk'.job.run}, owners)  BY <1>5
  <1> HIDE DEF j, todo, w
  <1>9. OpenJobs'  BY <1>1, <1>2, <1>5, <1>7 DEF OpenInv, OpenJobs
  <1>10. \A c \in Scripted \ abandoned : owners[c].by \in runs /\ Stops(owners[c], c)
    BY <1>2 DEF OpenInv, OpenOwned, Recording
  <1>11. OpenCleanups'
    <2>1. \A r \in Runs : stage'[r] = "cleaned" => OwnedBy({r}, owners') = {}
      BY <1>2 DEF OpenInv, OpenCleanups
    <2>2. wk'.at = "write" => OwnedBy({wk'.job.run}, owners') = {}  BY <1>2, <1>5, <1>8
    <2>3. wk'.at = "clean" => OwnedBy({wk'.job.run}, owners') \subseteq wk'.todo  BY <1>2, <1>5, <1>8
    <2>4. wk'.at = "clean" => \A c \in Scripted \ abandoned : Stops(wk'.entries[c], c)  BY <1>5, <1>10
    <2> QED  BY <1>2, <1>6, <2>1, <2>2, <2>3, <2>4 DEF OpenCleanups, Stops
  <1>12. OpenRecord' /\ OpenPoll'  BY <1>2, <1>5, <1>6 DEF OpenInv, OpenRecord, OpenPoll
  <1>13. OpenOwned'  BY <1>2, <1>6, <1>10 DEF OpenOwned, Stops
  <1> QED  BY <1>9, <1>11, <1>12, <1>13 DEF OpenInv

\* A stop of channel c: what is left scripted and cared for keeps its owner, or was
\* dropped with an answer that left it abandoned.
LEMMA StopOpen ==
  ASSUME InputsTyped, NEW s, Given(s, loopIds), NEW todo \in SUBSET Channels, NEW c \in todo,
         NEW out \in Outcomes, StopOwned(s, todo, c, out),
         c \in Scripted \ abandoned => Stops(s[c], c)
  PROVE  /\ Settles /\ Scripted' \ abandoned' \subseteq Scripted \ abandoned
         /\ Scripted' \cap Dropped(s, todo, c, out) \subseteq abandoned'
         /\ owners' = Without(owners, Dropped(s, todo, c, out))
  <1> DEFINE gone == Dropped(s, todo, c, out)
  <1>1. /\ Answer(End(c, Nobody, s[c].loop), out, count) /\ owners' = Without(owners, gone)
        /\ abandoned' = IF out # "ok" THEN abandoned \cup gone
                        ELSE IF rt'[c] = Idle THEN abandoned \ {c} ELSE abandoned
    BY DEF StopOwned
  <1>2. s[c].loop \in Nat /\ s[c].loop <= loopIds /\ c \in Channels
    BY DEF Given, Inputs, Entries
  <1>3. RuntimeTyped  BY DEF InputsTyped
  <1>4. /\ Settles
        /\ out = "ok" => \A d \in Channels :
             Effective[d] = rt[d] /\ Effective'[d] = rt'[d]
             /\ rt'[d] = IF d = c /\ s[c].loop \in {0, rt[d].loop} THEN Idle ELSE rt[d]
    BY <1>1, <1>2, <1>3, EndSettles
  <1>5. CASE out # "ok"
    <2>1. abandoned' = abandoned \cup gone  BY <1>1, <1>5
    <2> HIDE DEF gone
    <2>2. /\ Scripted' \ abandoned' \subseteq Scripted \ abandoned
          /\ Scripted' \cap gone \subseteq abandoned'
      BY <1>4, <2>1 DEF Settles
    <2> QED  BY <1>1, <1>4, <2>2 DEF gone
  <1>6. CASE out = "ok"
    <2>1. gone = {c}  BY <1>6 DEF Dropped, Unavailable
    <2> HIDE DEF gone
    <2>2. rt'[c] = Idle => c \notin Scripted'
      BY <1>2, <1>4, <1>6, InputConstants DEF Scripted
    <2>3. c \in Scripted \ abandoned => rt'[c] = Idle
      BY <1>2, <1>4, <1>6 DEF Stops
    <2>4. c \in Scripted' => c \in Scripted  BY <1>4 DEF Settles
    <2>5. c \notin Scripted' \ abandoned'  BY <1>1, <1>6, <2>2, <2>3, <2>4
    <2>6. Scripted' \ abandoned' \subseteq Scripted \ abandoned
      BY <1>1, <1>4, <1>6, <2>5 DEF Settles
    <2> QED  BY <1>1, <1>4, <2>1, <2>5, <2>6 DEF gone
  <1> QED  BY <1>5, <1>6

LEMMA CleanOpen ==
  ASSUME InputsTyped, OpenInv, WorkerClean
  PROVE  OpenInv'
  <1>1. PICK c \in wk.todo : \E out \in Outcomes :
          /\ StopOwned(wk.entries, wk.todo, c, out)
          /\ Cleaning(Shrunk(wk, Dropped(wk.entries, wk.todo, c, out)))
    BY DEF WorkerClean, Shrunk
  <1>2. PICK out \in Outcomes :
          /\ StopOwned(wk.entries, wk.todo, c, out)
          /\ Cleaning(Shrunk(wk, Dropped(wk.entries, wk.todo, c, out)))
    BY <1>1
  <1> DEFINE gone == Dropped(wk.entries, wk.todo, c, out)
             w == Shrunk(wk, gone)
  <1>3. wk.at = "clean" /\ wk.job.kind = "cleanup" /\ wk.job.run \in Runs /\ UNCHANGED <<runs, stage, queue, poll>>
    BY DEF WorkerClean, OpenInv, OpenJobs
  <1>4. wk.todo \in SUBSET Channels /\ Given(wk.entries, loopIds) /\ WorkingTyped(wk, loopIds) /\ loopIds \in Nat
        /\ owners \in [Channels -> Entries]
    BY DEF InputsTyped, ThreadsTyped, RuntimeTyped, TablesTyped, WorkingTyped, Workings, Given, Inputs
  <1>5. c \in Scripted \ abandoned => Stops(wk.entries[c], c)
    BY <1>1, <1>3 DEF OpenInv, OpenCleanups
  <1>6. /\ Settles /\ Scripted' \ abandoned' \subseteq Scripted \ abandoned
        /\ Scripted' \cap gone \subseteq abandoned' /\ owners' = Without(owners, gone)
    BY <1>1, <1>2, <1>4, <1>5, StopOpen
  <1>7. /\ wk'.job = wk.job
        /\ \/ wk'.at = "clean" /\ wk'.todo = wk.todo \ gone /\ wk'.entries = wk.entries
           \/ wk'.at = "write" /\ wk.todo \ gone = {}
    <2>1. WorkingTyped(w, loopIds) /\ w.at = "clean" /\ w.todo = wk.todo \ gone /\ w.job = wk.job
          /\ w.entries = wk.entries
      BY <1>3, <1>4, WorkingMoves
    <2>2. Cleaning(w)  BY <1>2
    <2> HIDE DEF w
    <2> QED  BY <1>4, <2>1, <2>2, CleaningIs
  <1> HIDE DEF gone, w
  <1>8. \A d \in Channels : owners'[d] = IF d \in gone THEN Idle ELSE owners[d]
    BY <1>6 DEF Without
  <1>9. OpenJobs'  BY <1>3, <1>7 DEF OpenInv, OpenJobs
  <1>10. OpenCleanups'
    <2>1. \A r \in Runs : OwnedBy({r}, owners') = OwnedBy({r}, owners) \ gone
      BY <1>8, InputConstants DEF OwnedBy
    <2>2. \A r \in Runs : stage[r] = "cleaned" => OwnedBy({r}, owners') = {}
      BY <2>1, InputConstants DEF OpenInv, OpenCleanups
    <2>3. OwnedBy({wk.job.run}, owners) \subseteq wk.todo  BY <1>3 DEF OpenInv, OpenCleanups
    <2>4. \A d \in Scripted' : Stops(wk.entries[d], d) => wk.entries[d].loop \in {0, Effective'[d].loop}
      BY <1>6, LoopsKnown DEF Settles, Scripted, Stops
    <2>5. \A d \in (wk.todo \ gone) \cap (Scripted' \ abandoned') : wk.entries[d].loop \in {0, Effective'[d].loop}
      BY <1>3, <1>6, <2>4 DEF OpenInv, OpenCleanups
    <2>6. OwnedBy({wk.job.run}, owners') \subseteq wk.todo \ gone
      BY <1>3, <2>1, <2>3
    <2> QED  BY <1>3, <1>7, <2>2, <2>5, <2>6 DEF OpenCleanups, Stops
  <1>11. OpenRecord'  BY <1>7 DEF OpenRecord
  <1>12. OpenPoll'
    <2>1. poll.at \in {"check", "pop"} => poll.loop \in 1 .. loopIds
      BY LoopsKnown DEF OpenInv, OpenPoll
    <2> QED  BY <1>3, <1>6, <2>1 DEF OpenInv, OpenPoll, Settles
  <1>13. OpenOwned'
    <2>1. ASSUME NEW d \in Scripted' \ abandoned'
          PROVE  owners'[d].by \in runs /\ owners'[d].loop \in {0, Effective'[d].loop}
      <3>1. d \in Scripted \ abandoned /\ d \notin gone /\ d \in Channels  BY <1>6 DEF Scripted
      <3>2. owners'[d] = owners[d] /\ owners[d].loop \in 0 .. loopIds  BY <1>8, <3>1, LoopsKnown
      <3>3. owners[d].by \in runs /\ owners[d].loop \in {0, Effective[d].loop}
        BY <1>3, <3>1 DEF OpenInv, OpenOwned, Recording, Stops
      <3> QED  BY <1>6, <3>2, <3>3 DEF Settles
    <2> QED  BY <1>3, <2>1 DEF OpenOwned, Stops
  <1> QED  BY <1>9, <1>10, <1>11, <1>12, <1>13 DEF OpenInv

\* The job is over: its thread goes on, and a run that was cleaned owns nothing.
LEMMA WriteOpen ==
  ASSUME InputsTyped, OpenInv, WorkerWrite
  PROVE  OpenInv'
  <1>1. wk.at = "write" /\ wk' = Resting /\ UNCHANGED <<rt, late, abandoned, owners, runs, queue, poll>>
    BY DEF WorkerWrite, OpenInv, OpenJobs, inputVars
  <1>2. wk'.at = "idle" /\ wk'.job.kind = "none"  BY <1>1, RestingTyped, InputConstants, LoopsKnown
  <1>3. Effective' = Effective /\ Scripted' = Scripted  BY <1>1, SameSettles DEF Scripted
  <1>4. stage \in [Runs -> Stages]  BY DEF InputsTyped, TablesTyped
  <1>5. \/ wk.job.kind = "operation" /\ stage' = [stage EXCEPT ![wk.job.run] = "live"]
        \/ wk.job.kind = "cleanup" /\ stage' = [stage EXCEPT ![wk.job.run] = "cleaned"]
        \/ stage' = stage
    BY DEF WorkerWrite
  <1>6. OpenJobs'
    <2>1. \A r \in Runs : stage'[r] \in {"live", "waiting"} => r \in runs
      BY <1>1, <1>4, <1>5 DEF OpenInv, OpenJobs
    <2> QED  BY <1>1, <1>2, <2>1 DEF OpenInv, OpenJobs
  <1>7. OpenCleanups'
    <2>1. \A r \in Runs : stage'[r] = "cleaned" => OwnedBy({r}, owners) = {}
      BY <1>1, <1>4, <1>5 DEF OpenInv, OpenCleanups
    <2> QED  BY <1>1, <1>2, <2>1 DEF OpenCleanups
  <1>8. OpenRecord' /\ OpenPoll'  BY <1>1, <1>2, <1>3 DEF OpenInv, OpenRecord, OpenPoll
  <1>9. OpenOwned'
    <2>1. \A c \in Scripted \ abandoned : owners[c].by \in runs /\ Stops(owners[c], c)
      BY <1>1 DEF OpenInv, OpenOwned, Recording
    <2> QED  BY <1>1, <1>3, <2>1 DEF OpenOwned, Stops
  <1> QED  BY <1>6, <1>7, <1>8, <1>9 DEF OpenInv

\* The loop an acknowledged stop named is over; a removal that disowns another one
\* leaves it abandoned.
LEMMA PollOpen ==
  ASSUME InputsTyped, OpenInv, Polling
  PROVE  OpenInv'
  <1>0. poll \in Polls  BY DEF InputsTyped, ThreadsTyped
  <1>1. UNCHANGED <<runs, stage, queue, wk>>
    BY DEF Polling, PollRenews, PollEnds, PollChecks, PollPops, PollWrites
  <1>2. CASE PollRenews \/ PollWrites
    <2>1. UNCHANGED <<rt, late, abandoned, owners>> /\ poll'.at \in {"write", "idle"}
      BY <1>0, <1>2 DEF PollRenews, PollWrites, inputVars, Polls, PollResting
    <2>2. OpenPoll'  BY <2>1 DEF OpenPoll
    <2> QED  BY <1>1, <2>1, <2>2, SameSettles, SettledOpen
  <1>3. CASE PollEnds
    <2>1. UNCHANGED <<abandoned, owners>> /\ mining # 0  BY <1>3 DEF PollEnds, PollBegins
    <2>2. PICK out \in Outcomes :
            /\ Answer(End("mine", Nobody, mining), out, [count EXCEPT !.events = @ + 1])
            /\ IF out = "ok" THEN poll' = [at |-> "check", loop |-> mining] /\ UNCHANGED snap
               ELSE poll' = [poll EXCEPT !.at = "write"] /\ Take("poll", runs, owners)
      BY <1>3 DEF PollEnds
    <2>3. "mine" \in Channels /\ mining \in Nat /\ mining <= loopIds /\ RuntimeTyped
      BY InputConstants DEF InputsTyped, ThreadsTyped
    <2>4. /\ Settles
          /\ out = "ok" => \A d \in Channels :
               Effective[d] = rt[d] /\ Effective'[d] = rt'[d]
               /\ rt'[d] = IF d = "mine" /\ mining \in {0, rt[d].loop} THEN Idle ELSE rt[d]
      BY <2>2, <2>3, EndSettles
    <2>5. OpenPoll'
      <3>1. CASE out = "ok"
        <4>1. Effective'["mine"] = Idle \/ Effective'["mine"].loop # mining
          BY <2>3, <2>4, <3>1
        <4> QED  BY <2>1, <2>2, <3>1, <4>1, InputConstants DEF OpenPoll
      <3>2. CASE out # "ok"
        <4>1. poll'.at = "write"  BY <1>0, <2>2, <3>2 DEF Polls
        <4> QED  BY <4>1 DEF OpenPoll
      <3> QED  BY <3>1, <3>2
    <2> QED  BY <1>1, <2>1, <2>4, <2>5, SettledOpen
  <1>4. CASE PollChecks
    <2>1. /\ UNCHANGED <<rt, late, abandoned, owners>>
          /\ poll.at = "check"
          /\ poll' \in {[poll EXCEPT !.at = "write"], [poll EXCEPT !.at = "pop"]}
      BY <1>4 DEF PollChecks, inputVars
    <2>2. poll'.loop = poll.loop  BY <1>0, <2>1 DEF Polls
    <2>3. Settles /\ Effective' = Effective /\ Scripted' = Scripted  BY <2>1, SameSettles DEF Scripted
    <2>4. OpenPoll'  BY <2>1, <2>2, <2>3 DEF OpenInv, OpenPoll
    <2> QED  BY <1>1, <2>1, <2>3, <2>4, SettledOpen
  <1>5. CASE PollPops
    <2>1. /\ UNCHANGED <<rt, late>> /\ poll.at = "pop" /\ poll' = [poll EXCEPT !.at = "write"]
          /\ abandoned' = IF owners["mine"] = Idle \/ owners["mine"].loop = poll.loop
                          THEN abandoned ELSE abandoned \cup {"mine"}
          /\ owners' = Without(owners, {"mine"})
      BY <1>5 DEF PollPops
    <2>2. poll'.at = "write"  BY <1>0, <2>1 DEF Polls
    <2>3. Effective' = Effective /\ Scripted' = Scripted  BY <2>1, SameSettles DEF Scripted
    <2>4. \A d \in Channels : owners'[d] = IF d = "mine" THEN Idle ELSE owners[d]
      BY <2>1 DEF Without
    <2>5. OpenJobs' /\ OpenPoll'  BY <1>1, <2>2 DEF OpenInv, OpenJobs, OpenPoll
    <2>6. OpenCleanups'
      <3>1. \A r \in Runs : OwnedBy({r}, owners') \subseteq OwnedBy({r}, owners)
        BY <2>4, InputConstants DEF OwnedBy
      <3>2. wk.at = "clean" => wk.job.kind = "cleanup" /\ wk.job.run \in Runs
        BY DEF OpenInv, OpenJobs
      <3>3. wk.job.kind = "cleanup" => wk.job.run \in Runs  BY DEF OpenInv, OpenJobs
      <3>4. abandoned \subseteq abandoned'  BY <2>1
      <3>5. \A r \in Runs : stage[r] = "cleaned" => OwnedBy({r}, owners') = {}
        BY <3>1 DEF OpenInv, OpenCleanups
      <3>6. wk.at = "write" /\ wk.job.kind = "cleanup" => OwnedBy({wk.job.run}, owners') = {}
        BY <3>1, <3>3 DEF OpenInv, OpenCleanups
      <3>7. wk.at = "clean" => OwnedBy({wk.job.run}, owners') \subseteq wk.todo
        BY <3>1, <3>2 DEF OpenInv, OpenCleanups
      <3>8. wk.at = "clean" => \A c \in wk.todo \cap (Scripted \ abandoned') : Stops(wk.entries[c], c)
        BY <3>4 DEF OpenInv, OpenCleanups
      <3> QED  BY <1>1, <2>3, <3>5, <3>6, <3>7, <3>8 DEF OpenCleanups, Stops
    <2>7. OpenRecord'  BY <1>1, <2>3 DEF OpenInv, OpenRecord, Recording
    <2>8. ASSUME NEW c \in Scripted \ abandoned'
          PROVE  Recording(c) \/ (owners'[c].by \in runs /\ owners'[c].loop \in {0, Effective[c].loop})
      <3>1. c \in Channels /\ c \in Scripted \ abandoned  BY <2>1 DEF Scripted
      <3>2. Recording(c) \/ (owners[c].by \in runs /\ owners[c].loop \in {0, Effective[c].loop})
        BY <3>1 DEF OpenInv, OpenOwned, Stops
      <3>3. CASE c # "mine"  BY <2>4, <3>1, <3>2, <3>3
      <3>4. CASE c = "mine"
        <4>1. owners["mine"] = Idle \/ owners["mine"].loop = poll.loop  BY <2>1, <3>4
        <4>2. poll.loop # 0 /\ Effective["mine"].loop # poll.loop
          BY <2>1, <3>1, <3>4 DEF OpenInv, OpenPoll
        <4>3. owners["mine"].by \notin runs \/ owners["mine"].loop \notin {0, Effective["mine"].loop}
          BY <4>1, <4>2, InputConstants DEF InputsTyped, TablesTyped
        <4> QED  BY <3>2, <3>4, <4>3
      <3> QED  BY <3>3, <3>4
    <2>9. OpenOwned'  BY <1>1, <2>3, <2>8 DEF OpenOwned, Recording, Stops
    <2> QED  BY <2>5, <2>6, <2>7, <2>9 DEF OpenInv
  <1> QED  BY <1>2, <1>3, <1>4, <1>5 DEF Polling

\* A process that has stopped everything it adopted starts with nothing to stop.
LEMMA RecoveredOpen ==
  ASSUME InputsTyped, TrackInv, RecoveryEnds
  PROVE  OpenInv'
  <1>1. /\ phase = "recovering" /\ OwnedBy(Runs, owners) = {}
        /\ UNCHANGED <<rt, late, abandoned, owners, runs, stage, queue, wk, poll>>
    BY DEF RecoveryEnds, inputVars, threadVars
  <1>2. /\ wk = Resting /\ poll = PollResting /\ queue = <<>> /\ runs = {}
        /\ \A r \in Runs : stage[r] \in {"new", "gone"}
    BY <1>1 DEF InputsTyped, NoThreads
  <1>3. wk.at = "idle" /\ wk.job.kind = "none" /\ poll.at = "idle"
    BY <1>2, RestingTyped, InputConstants, LoopsKnown DEF PollResting
  <1>4. Effective' = Effective /\ Scripted' = Scripted  BY <1>1, SameSettles DEF Scripted
  <1>5. Scripted \ abandoned = {}
    BY <1>1 DEF TrackInv, OwnedBy, Scripted
  <1>6. OpenJobs'  BY <1>1, <1>2, <1>3 DEF OpenJobs
  <1>7. OpenCleanups'  BY <1>1, <1>2, <1>3 DEF OpenCleanups
  <1>8. OpenRecord' /\ OpenPoll'  BY <1>1, <1>3 DEF OpenRecord, OpenPoll
  <1>9. OpenOwned'  BY <1>1, <1>4, <1>5 DEF OpenOwned
  <1> QED  BY <1>6, <1>7, <1>8, <1>9 DEF OpenInv

\* The next process adopts what the journal lists, and stops it.
LEMMA RecoveryTracked ==
  ASSUME InputsTyped, TrackInv, phase = "recovering", RecoveryStops
  PROVE  TrackInv'
  <1>1. PICK c \in OwnedBy(Runs, owners) : \E out \in Outcomes : StopOwned(owners, OwnedBy(Runs, owners), c, out)
    BY DEF RecoveryStops
  <1>2. PICK out \in Outcomes : StopOwned(owners, OwnedBy(Runs, owners), c, out)  BY <1>1
  <1> DEFINE todo == OwnedBy(Runs, owners)
             gone == Dropped(owners, todo, c, out)
  <1>3. todo \in SUBSET Channels /\ Given(owners, loopIds)
    BY DEF OwnedBy, InputsTyped, TablesTyped
  <1>4. phase' = phase  BY DEF RecoveryStops
  <1>5. c \in Scripted \ abandoned => Stops(owners[c], c)  BY DEF TrackInv
  <1> HIDE DEF todo
  <1>6. c \in todo /\ StopOwned(owners, todo, c, out)  BY <1>1, <1>2 DEF todo
  <1>7. /\ Settles /\ Scripted' \ abandoned' \subseteq Scripted \ abandoned
        /\ Scripted' \cap gone \subseteq abandoned' /\ owners' = Without(owners, gone)
    BY <1>3, <1>5, <1>6, StopOpen
  <1> HIDE DEF gone
  <1>8. ASSUME NEW d \in Scripted' \ abandoned'
        PROVE  owners'[d].by \in Runs /\ owners'[d].loop \in {0, Effective'[d].loop}
    <2>1. d \in Scripted \ abandoned /\ d \notin gone /\ d \in Channels  BY <1>7 DEF Scripted
    <2>2. owners'[d] = owners[d] /\ owners[d].loop \in 0 .. loopIds
      BY <1>7, <2>1, LoopsKnown DEF Without
    <2>3. owners[d].by \in Runs /\ owners[d].loop \in {0, Effective[d].loop}
      BY <2>1 DEF TrackInv, Stops
    <2> QED  BY <1>7, <2>2, <2>3 DEF Settles
  <1> QED  BY <1>4, <1>8 DEF TrackInv, Stops

\* Between two processes only the runtime moves.
LEMMA DownTracked ==
  ASSUME InputsTyped, TrackInv, phase \in {"down", "recovering"}, Runtime \/ UNCHANGED endbotdVars
  PROVE  TrackInv'
  <1>1. Settles  BY RuntimeSettles, SameSettles DEF endbotdVars
  <1>2. UNCHANGED <<owners, file, abandoned, phase>>
    BY DEF Runtime, ServeLate, InputEnds, endbotdVars
  <1>3. ASSUME NEW d \in Scripted' \ abandoned'
        PROVE  /\ d \in Scripted \ abandoned
               /\ owners[d].loop \in {0, Effective[d].loop} => owners[d].loop \in {0, Effective'[d].loop}
               /\ file.owned[d].loop \in {0, Effective[d].loop} => file.owned[d].loop \in {0, Effective'[d].loop}
    <2>1. d \in Channels /\ d \in Scripted \ abandoned  BY <1>1, <1>2 DEF Settles, Scripted
    <2>2. owners[d].loop \in 0 .. loopIds /\ file.owned[d].loop \in 0 .. loopIds  BY <2>1, LoopsKnown
    <2> QED  BY <1>1, <2>1, <2>2 DEF Settles
  <1>4. CASE phase = "down"
    <2>1. \A d \in Scripted' \ abandoned' : Listed(d)'  BY <1>2, <1>3, <1>4 DEF TrackInv, Listed
    <2> QED  BY <1>2, <1>4, <2>1 DEF TrackInv
  <1>5. CASE phase = "recovering"
    <2>1. \A d \in Scripted' \ abandoned' : owners'[d].by \in Runs /\ Stops(owners[d], d)'
      BY <1>2, <1>3, <1>5 DEF TrackInv, Stops
    <2> QED  BY <1>2, <1>5, <2>1 DEF TrackInv
  <1> QED  BY <1>4, <1>5

LEMMA TrackInvNext ==
  ASSUME InputsTyped, TrackInv, [InputsNext]_endbotdVars
  PROVE  TrackInv'
  <1> USE DEF Alive, Accepting, Takes, PollBegins
  <1>1. CASE Runtime \/ UNCHANGED endbotdVars
    <2>1. phase' = phase  BY <1>1 DEF Runtime, ServeLate, InputEnds, endbotdVars
    <2>2. CASE phase = "up"  BY <1>1, <2>1, <2>2, RuntimeOpen DEF TrackInv
    <2>3. CASE phase \in {"down", "recovering"}  BY <1>1, <2>3, DownTracked
    <2>4. CASE phase \notin {"up", "down", "recovering"}  BY <2>1, <2>4 DEF TrackInv
    <2> QED  BY <2>2, <2>3, <2>4
  <1>2. ASSUME NEW r \in Runs, RunThread(r) PROVE TrackInv'
    <2>1. phase' = phase /\ phase \notin {"down", "recovering"}
      BY <1>2 DEF RunThread, RunEnds, RunLeaves, RunRecords
    <2>2. CASE phase = "up"  BY <1>2, <2>1, <2>2, ThreadOpen DEF TrackInv
    <2>3. CASE phase # "up"  BY <2>1, <2>3 DEF TrackInv
    <2> QED  BY <2>2, <2>3
  <1>3. CASE Polling
    <2>1. phase' = phase /\ phase \notin {"down", "recovering"}
      BY <1>3 DEF Polling, PollRenews, PollEnds, PollChecks, PollPops, PollWrites
    <2>2. CASE phase = "up"  BY <1>3, <2>1, <2>2, PollOpen DEF TrackInv
    <2>3. CASE phase # "up"  BY <2>1, <2>3 DEF TrackInv
    <2> QED  BY <2>2, <2>3
  <1>4. CASE \E q \in Asked(Player) : WorkerCommand(q)
    <2>1. PICK q \in Asked(Player) : WorkerCommand(q)  BY <1>4
    <2>2. Request(WorkerJob("command", Nobody, q)) /\ UNCHANGED stage  BY <2>1 DEF WorkerCommand
    <2>3. phase = "up" /\ phase' = phase  BY <2>2 DEF Request
    <2>4. OpenInv'  BY <2>2, <2>3, RequestOpen DEF TrackInv
    <2> QED  BY <2>3, <2>4 DEF TrackInv
  <1>5. ASSUME NEW r \in Runs, NEW q \in Asked(r), WorkerOperation(r, q) PROVE TrackInv'
    <2>1. Request(WorkerJob("operation", r, q)) /\ stage[r] = "live" /\ stage' = [stage EXCEPT ![r] = "waiting"]
      BY <1>5 DEF WorkerOperation
    <2>2. phase = "up" /\ phase' = phase  BY <2>1 DEF Request
    <2>3. OpenInv'  BY <2>1, <2>2, RequestOpen DEF TrackInv
    <2> QED  BY <2>2, <2>3 DEF TrackInv
  <1>6. ASSUME NEW r \in Runs, WorkerStart(r) PROVE TrackInv'
    <2>1. phase = "up" /\ phase' = phase  BY <1>6 DEF WorkerStart
    <2> QED  BY <1>6, <2>1, StartOpen DEF TrackInv
  <1>7. CASE WorkerRecord \/ WorkerCleanup \/ WorkerClean \/ WorkerWrite \/ WorkerEndLoop
    <2>1. phase' = phase /\ phase \notin {"down", "recovering"}
      BY <1>7 DEF WorkerRecord, WorkerCleanup, WorkerClean, WorkerWrite, WorkerEndLoop
    <2>2. CASE phase = "up"
      <3>1. OpenInv /\ ~WorkerEndLoop  BY <2>2 DEF TrackInv, OpenInv, OpenJobs, WorkerEndLoop
      <3>2. OpenInv'  BY <1>7, <3>1, RecordOpen, CleanupOpen, CleanOpen, WriteOpen
      <3> QED  BY <2>1, <2>2, <3>2 DEF TrackInv
    <2>3. CASE phase # "up"  BY <2>1, <2>3 DEF TrackInv
    <2> QED  BY <2>2, <2>3
  <1>8. CASE Worker  BY <1>4, <1>5, <1>6, <1>7, <1>8 DEF Worker
  <1>9. CASE CloseBegins \/ CloseTakes \/ CloseWrites
    BY <1>9 DEF CloseBegins, CloseTakes, CloseWrites, TrackInv
  <1>10. CASE Crash \/ ProcessExits
    <2>1. /\ phase' = "down" /\ UNCHANGED <<rt, late, file>>
          /\ abandoned' = abandoned \cup {c \in Scripted : ~Listed(c)}
      BY <1>10 DEF Crash, ProcessExits, Dies
    <2>2. Effective' = Effective /\ Scripted' = Scripted  BY <2>1, SameSettles DEF Scripted
    <2>3. \A c \in Scripted' \ abandoned' : Listed(c)'  BY <2>1, <2>2 DEF Listed
    <2> QED  BY <2>1, <2>3 DEF TrackInv
  <1>11. CASE StartsAgain
    <2>1. phase = "down" /\ phase' = "recovering" /\ owners' = file.owned /\ UNCHANGED <<rt, late, abandoned>>
      BY <1>11 DEF StartsAgain, inputVars
    <2>2. Effective' = Effective /\ Scripted' = Scripted  BY <2>1, SameSettles DEF Scripted
    <2>3. \A c \in Channels : file.owned[c] = Idle \/ file.owned[c].by \in Runs
      BY DEF InputsTyped, JournalTaken, Journal
    <2>4. \A c \in Scripted' \ abandoned' : owners'[c].by \in Runs /\ owners'[c].loop \in {0, Effective'[c].loop}
      BY <2>1, <2>2, <2>3 DEF TrackInv, Listed, Scripted
    <2> QED  BY <2>1, <2>4 DEF TrackInv, Stops
  <1>12. CASE RecoveryStops
    <2>1. phase = "recovering"  BY <1>12 DEF RecoveryStops
    <2> QED  BY <1>12, <2>1, RecoveryTracked
  <1>13. CASE RecoveryEnds
    <2>1. phase' = "up"  BY <1>13 DEF RecoveryEnds
    <2> QED  BY <1>13, <2>1, RecoveredOpen DEF TrackInv
  <1> QED
    BY <1>1, <1>2, <1>3, <1>8, <1>9, <1>10, <1>11, <1>12, <1>13 DEF InputsNext, Process

LEMMA TrackInvInit == InputsInit => TrackInv
  <1> SUFFICES ASSUME InputsInit PROVE OpenInv  BY DEF InputsInit, TrackInv
  <1> USE DEF InputsInit
  <1>1. Effective = NoInput  BY ServedEmpty DEF Effective
  <1>2. Scripted = {}  BY <1>1, InputConstants DEF Scripted, NoInput
  <1>3. wk.at = "idle" /\ wk.job.kind = "none" /\ poll.at = "idle"
    BY InputConstants, RestingTyped DEF PollResting
  <1>4. OpenJobs  BY <1>3 DEF OpenJobs
  <1> QED  BY <1>2, <1>3, <1>4 DEF OpenInv, OpenCleanups, OpenRecord, OpenPoll, OpenOwned

(* Every input a script left in the runtime is owned by a run in the table *)
(* or about to be, or waits for the recovery; the exceptions are the       *)
(* abandoned channels.  OwnedInputs, ScriptService._run, EndbotService.    *)
THEOREM ScriptInputsTracked == InputsSpec => []Tracked
  <1>1. InputsInit => InputsTyped /\ TrackInv  BY InputsTypedInit, TrackInvInit
  <1>2. InputsTyped /\ TrackInv /\ [InputsNext]_endbotdVars => (InputsTyped /\ TrackInv)'
    BY InputsTypedNext, TrackInvNext
  <1>3. InputsTyped /\ TrackInv => Tracked
    <2> SUFFICES ASSUME InputsTyped, TrackInv, NEW c \in Scripted \ abandoned PROVE Cared(c)
      BY DEF Tracked
    <2>1. CASE phase = "up"
      BY <2>1 DEF TrackInv, OpenInv, OpenOwned, Recording, Cared
    <2>2. CASE phase = "down"  BY <2>2 DEF TrackInv, Cared
    <2>3. CASE phase = "recovering"  BY <2>3, InputConstants DEF TrackInv, Cared
    <2>4. CASE phase \notin {"up", "down", "recovering"}  BY <2>4 DEF Cared
    <2> QED  BY <2>1, <2>2, <2>3, <2>4
  <1> QED  BY <1>1, <1>2, <1>3, PTL DEF InputsSpec

=============================================================================
