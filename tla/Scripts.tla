------------------------------- MODULE Scripts -------------------------------
(***************************************************************************)
(* The /botscript service: stored scripts with their owner, visibility,    *)
(* revision and history (script_store.py), the operator's script files,    *)
(* the forms that submit edits and runs later (script_forms.py, web_api),  *)
(* books (script_books.py), and the runs of ScriptRuns.                    *)
(*                                                                         *)
(* Commands run one at a time on the command worker; one that checks a     *)
(* declaration or writes a book has a second step there.  A refused        *)
(* command changes nothing and is not a step.  No capability has to be     *)
(* declared yet, so the comparison of requires never refuses a run and is  *)
(* left out.                                                               *)
(***************************************************************************)
EXTENDS ScriptRuns

CONSTANTS Names,        \* script names
          Authors,      \* players with the scripter role
          History,      \* HISTORY
          MaxScripts,   \* max-scripts
          Scenarios     \* what is stored at first, and the bounds

VARIABLES
  stored,   \* ScriptStore._scripts, in memory and in scripts.json
  folder,   \* the operator's folder: a body per name, or None
  files,    \* ScriptStore._files: the file scripts that are loaded
  book,     \* the writing in the book the player holds; None when it is empty
  forms,    \* open forms and editor pages
  revs,     \* revisions given out
  from      \* ghost: the form the last change was submitted from, or None

storeVars == <<stored, folder, files, book, forms, revs, from>>
vars == <<runVars, storeVars>>

\* a source is its lines and whether the last one ends with a line break
Source   == [body: Bodies, ended: BOOLEAN]
Revision == Nat \cup Bodies
Editing  == {"save", "import", "copy", "rename", "restore", "shared"}
Stored   == [rev: Nat, src: Source, owner: Senders \cup {None}, shared: BOOLEAN, hist: Seq(Source)]
Form     == [by: Players, kind: {"new", "edit", "menu", "run", "import", "export"}, name: Names \cup {None},
             rev: Revision \cup {None}, src: Source \cup {None}, book: Bodies \cup {None},
             target: (BotNames \X (1..2)) \cup {None}]

\* None is nothing else, and what is found on disk has a revision for each script
ASSUME ScriptConstants ==
  /\ History \in Nat \ {0} /\ None \notin Revision /\ None \notin Stored /\ Bodies \cap Nat = {}
  /\ \A s \in Scenarios :
       /\ s.stored \in [Names -> Stored \cup {None}] /\ s.book \in Bodies \cup {None}
       /\ s.folder \in [Names -> Bodies \cup {None}] /\ s.files \in [Names -> Bodies \cup {None}]
       /\ \A n, m \in Names : s.stored[n] # None /\ s.stored[m] # None =>
            s.stored[n].rev <= 9 /\ (s.stored[n].rev = s.stored[m].rev => n = m)

Init ==
  \E s \in Scenarios :
    /\ RunInit /\ left = s.left
    /\ stored = s.stored /\ folder = s.folder /\ files = s.files /\ book = s.book
    /\ forms = {} /\ revs = 9 /\ from = None

(***************************************************************************)
(* Reads.                                                                  *)
(***************************************************************************)
\* a file script: shared, owned by its file, with its content as the revision
FileScript(body) ==
  [rev |-> body, src |-> [body |-> body, ended |-> TRUE], owner |-> "file", shared |-> TRUE, hist |-> <<>>]

Exists(n) == stored[n] # None \/ files[n] # None
Script(n) == IF stored[n] # None THEN stored[n] ELSE FileScript(files[n])

CanEdit(s, by) == s.owner # "file" /\ (by = Console \/ s.owner \in {None, by})
CanRun(s, by)  == s.shared \/ CanEdit(s, by)

Author(by) == by \in Authors \cup {Console}

\* what execute checks before a command: the sender, the role, and what _script finds
Found(by, op, n) ==
  /\ WorkerFree /\ Authorized(by) /\ (op \in Editing => Author(by))
  /\ Exists(n) /\ CanRun(Script(n), by)

Editable(by, op, n) == Found(by, op, n) /\ CanEdit(Script(n), by)

\* Mutant: a form is only asked for its name
SameName(form, n) == TRUE

\* the form showed the revision there is now
Same(form, n) == form # None => form.rev = Script(n).rev

(***************************************************************************)
(* The store.  Each change is one atomic write of the file, which may fail *)
(* and then changes nothing.                                               *)
(***************************************************************************)
Put(n, s) == stored' = [stored EXCEPT ![n] = s]

\* save of an existing script: a new revision, the old source kept in front of
\* the history, and an owner for a script from before there were any
Revised(s, src, by) ==
  [s EXCEPT !.src = src, !.rev = revs + 1, !.owner = IF @ = None THEN by ELSE @,
            !.hist = SubSeq(<<s.src>> \o @, 1, IF Len(@) < History THEN Len(@) + 1 ELSE History)]

Created(src, by) == [rev |-> revs + 1, src |-> src, owner |-> by, shared |-> FALSE, hist |-> <<>>]

Count == Cardinality({n \in Names : stored[n] # None})

\* ScriptStore.save: expected is the revision the caller saw, None for a new script
Save(n, src, expected, by) ==
  /\ files[n] = None
  /\ expected = (IF stored[n] = None THEN None ELSE stored[n].rev)
  /\ stored[n] = None => Count < MaxScripts
  /\ Put(n, IF stored[n] = None THEN Created(src, by) ELSE Revised(stored[n], src, by))
  /\ revs' = revs + 1

(***************************************************************************)
(* Forms: an editor, a script's menu, a run form with the Bot it chose.    *)
(***************************************************************************)
NewForm(by, kind, n, showed, target) ==
  [by |-> by, kind |-> kind, name |-> n, rev |-> IF n = None THEN None ELSE Script(n).rev,
   src |-> IF n = None THEN None ELSE Script(n).src, book |-> showed, target |-> target]

Shows(form) == forms' = forms \cup {form}

\* an editor, or a script's menu
Open(by, kind, n) ==
  /\ by \in Players /\ Spend("form")
  /\ CASE kind = "new"  -> n = None /\ WorkerFree /\ Authorized(by) /\ Author(by)
       [] kind = "edit" -> n # None /\ Editable(by, "save", n)
       [] kind = "menu" -> n # None /\ Found(by, kind, n)
  /\ Shows(NewForm(by, kind, n, None, None))
  /\ UNCHANGED <<run, proc, check, job, bot, granted, open, stored, folder, files, book, revs, from>>

Job(op, by, n, src, expected, form, pages) ==
  job' = [op |-> op, by |-> by, name |-> n, src |-> src, rev |-> expected, form |-> form, pages |-> pages]

\* a run form: its declaration is read, and then the Bots to choose from
Parameters(by, n) ==
  /\ by \in Players /\ Found(by, "run", n) /\ Spend("form") /\ Inspect("worker", by)
  /\ Job("form", by, n, None, None, None, None)
  /\ UNCHANGED <<run, proc, bot, granted, open, storeVars>>

ParametersEnd ==
  /\ job # None /\ job.op = "form" /\ Inspected("worker")
  /\ \/ /\ Script(job.name).src.body # Broken /\ job' = None
        /\ \E b \in BotNames : bot[b] # 0 /\ Shows(NewForm(job.by, "run", job.name, None, <<b, bot[b]>>))
     \/ Script(job.name).src.body # Broken /\ job' = [job EXCEPT !.op = "start"] /\ UNCHANGED forms
     \/ job' = None /\ UNCHANGED forms
  /\ UNCHANGED <<run, proc, bot, granted, open, left, stored, folder, files, book, revs, from>>

\* a script without parameters has no form: its run is started, or refused
StartsPlain ==
  /\ job # None /\ job.op = "start" /\ job' = None
  /\ \/ \E b \in BotNames : Start(job.by, Script(job.name).src.body, <<b, 0>>) /\ from' = None
     \/ UNCHANGED <<run, proc, check, bot, granted, open, left, from>>
  /\ UNCHANGED <<stored, folder, files, book, forms, revs>>

Typed(by, kind) == {None} \cup {f \in forms : f.by = by /\ f.kind = kind}
On(form, n)     == form # None => form.name = n

(***************************************************************************)
(* save and import: checked, inspected on the worker, then written.        *)
(***************************************************************************)
Begin(by, n, src, expected, form) ==
  /\ Spend("edit") /\ Inspect("worker", by)
  /\ Job("save", by, n, src, expected, form, None)
  /\ UNCHANGED <<run, proc, bot, granted, open, storeVars>>

\* what an editor submits: its lines, each with a line break
Edited == [body: Bodies, ended: {TRUE}]

\* a whole-script save: only an editor's form carries it, when its lines were
\* changed, and a new script needs a free name
SaveForm(by, n, src, form) ==
  /\ WorkerFree /\ Authorized(by) /\ Author(by)
  /\ \/ form.kind = "new" /\ ~Exists(n)
     \/ form.kind = "edit" /\ form.name = n /\ Editable(by, "save", n) /\ src.body # form.src.body
  /\ Begin(by, n, src, form.rev, form)

\* pages_to_source: the text of a book always ends with a line break
Text(pages) == [body |-> pages, ended |-> TRUE]

\* an import from the held book: a menu shows the book before it replaces a
\* script, and then takes only the writing it showed.  A new name needs no
\* confirmation, also where the script of the form is gone.
Import(by, n, form) ==
  /\ by \in Players /\ book # None /\ WorkerFree /\ Authorized(by) /\ Author(by)
  /\ form # None /\ form.kind # "new" => form.name = n
  /\ IF ~Exists(n) THEN Begin(by, n, Text(book), None, form)
     ELSE /\ Editable(by, "import", n) /\ Same(form, n) /\ Script(n).src # Text(book)
          /\ form # None => form.kind # "new"
          /\ IF form # None /\ form.kind = "menu"
             THEN /\ Spend("edit") /\ Shows(NewForm(by, "import", n, book, None))
                  /\ UNCHANGED <<run, proc, check, job, bot, granted, open, stored, folder, files, book, revs, from>>
             ELSE /\ form # None => form.book = book
                  /\ Begin(by, n, Text(book), Script(n).rev, form)

\* the declaration was read, or was not one, or the check could not be made
SaveEnd ==
  /\ job # None /\ job.op = "save" /\ Inspected("worker")
  /\ \/ /\ job.src.body # Broken /\ Authorized(job.by)
        /\ Save(job.name, job.src, job.rev, job.by)
        /\ from' = job.form
     \/ UNCHANGED <<stored, revs, from>>
  /\ job' = None
  /\ UNCHANGED <<run, proc, bot, granted, open, left, folder, files, book, forms>>

(***************************************************************************)
(* Commands of one step.                                                   *)
(***************************************************************************)
Edit(n, form) ==
  /\ Spend("edit") /\ On(form, n) /\ from' = form
  /\ UNCHANGED <<run, proc, check, job, bot, granted, open, folder, files, book, forms>>

Copy(by, n, new, form) ==
  /\ Found(by, "copy", n) /\ Same(form, n) /\ ~Exists(new)
  /\ Save(new, Script(n).src, None, by)
  /\ Edit(n, form)

Delete(by, n, form) ==
  /\ Editable(by, "delete", n) /\ Same(form, n)
  /\ Put(n, None) /\ UNCHANGED revs
  /\ Edit(n, form)

SetVisibility(by, n, shared, form) ==
  /\ Editable(by, IF shared THEN "shared" ELSE "private", n) /\ Same(form, n)
  /\ Put(n, [stored[n] EXCEPT !.shared = shared]) /\ UNCHANGED revs
  /\ Edit(n, form)

SetOwner(n, player) ==
  /\ WorkerFree /\ open /\ stored[n] # None
  /\ Put(n, [stored[n] EXCEPT !.owner = player]) /\ UNCHANGED revs
  /\ Edit(n, None)

\* an earlier source becomes the current one, as a new revision
Restore(by, n, i, form) ==
  /\ Editable(by, "restore", n) /\ Same(form, n) /\ i \in DOMAIN stored[n].hist
  /\ Save(n, stored[n].hist[i], stored[n].rev, None)
  /\ Edit(n, form)

Rename(by, n, new, form) ==
  /\ Editable(by, "rename", n) /\ Same(form, n) /\ ~Exists(new)
  /\ stored' = [stored EXCEPT ![n] = None, ![new] = stored[n]] /\ UNCHANGED revs
  /\ Edit(n, form)

\* load_files and set_files: a stored script wins
Unstored(bodies) == [n \in Names |-> IF stored[n] = None THEN bodies[n] ELSE None]

\* reload_files: the folder is read, and each file's declaration checked in turn
Reload(by) ==
  /\ WorkerFree /\ Authorized(by) /\ Spend("edit")
  /\ job' = [op |-> "reload", by |-> by, name |-> None, load |-> Unstored(folder),
             todo |-> {n \in Names : Unstored(folder)[n] # None}]
  /\ UNCHANGED <<run, proc, check, bot, granted, open, storeVars>>

Reloading == job # None /\ job.op = "reload"

\* a file that cannot be checked (no slot, no authority, no runner) is loaded so
FileCheck(n) ==
  /\ Reloading /\ check["worker"] = None /\ n \in job.todo
  /\ \/ Inspect("worker", job.by) /\ job' = [job EXCEPT !.todo = @ \ {n}, !.name = n]
     \/ UNCHANGED check /\ job' = [job EXCEPT !.todo = @ \ {n}]
  /\ UNCHANGED <<run, proc, bot, granted, open, left, storeVars>>

\* one whose declaration is refused, or whose runner failed, is left out
FileChecked ==
  /\ Reloading /\ check["worker"] # None /\ Inspected("worker")
  /\ \/ job.load[job.name] # Broken /\ job' = [job EXCEPT !.name = None]
     \/ job' = [job EXCEPT !.name = None, !.load[job.name] = None]
  /\ UNCHANGED <<run, proc, bot, granted, open, left, storeVars>>

ReloadEnds ==
  /\ Reloading /\ check["worker"] = None /\ job.todo = {}
  /\ files' = Unstored(job.load) /\ job' = None /\ from' = None
  /\ UNCHANGED <<run, proc, check, bot, granted, open, left, stored, folder, book, forms, revs>>

\* a run: from a form it is the revision, and the Bot, the form showed
Run(by, n, form) ==
  /\ Found(by, "run", n) /\ On(form, n) /\ Same(form, n)
  /\ \E b \in BotNames : Start(by, Script(n).src.body, IF form = None THEN <<b, 0>> ELSE form.target)
  /\ from' = form
  /\ UNCHANGED <<job, stored, folder, files, book, forms, revs>>

(***************************************************************************)
(* Books.  An export reads the held book and then fills it, two calls of   *)
(* the server thread; the player may write in between.                     *)
(***************************************************************************)
Export(by, n, form, overwrite) ==
  /\ by \in Players /\ Found(by, "export", n) /\ On(form, n) /\ Same(form, n) /\ Spend("edit")
  /\ IF book # None /\ ~overwrite
     THEN /\ form # None /\ form.kind = "menu" /\ Shows(NewForm(by, "export", n, book, None))
          /\ UNCHANGED job
     ELSE /\ Job("fill", by, n, Script(n).src, None, form,
                 IF book # None /\ form # None /\ form.kind = "export" THEN form.book ELSE book)
          /\ UNCHANGED forms
  /\ UNCHANGED <<run, proc, check, bot, granted, open, stored, folder, files, book, revs, from>>

\* fill_book: writing is replaced only when it is what was shown or read
Fills(pages) == book # None => pages = book

Fill ==
  /\ job # None /\ job.op = "fill"
  /\ IF Fills(job.pages) THEN book' = job.src.body /\ from' = job.form ELSE UNCHANGED <<book, from>>
  /\ job' = None
  /\ UNCHANGED <<run, proc, check, bot, granted, open, left, stored, folder, files, forms, revs>>

Writes(pages) ==
  /\ pages # book /\ Spend("book") /\ book' = pages
  /\ UNCHANGED <<run, proc, check, job, bot, granted, open, stored, folder, files, forms, revs, from>>

\* the operator changes a file
Operator(n, body) ==
  /\ Spend("folder") /\ folder' = [folder EXCEPT ![n] = body]
  /\ UNCHANGED <<run, proc, check, job, bot, granted, open, stored, files, book, forms, revs, from>>

\* endbotd starts again: runs and checks are gone, the files are read unchecked,
\* forms stay open
Restart ==
  /\ Spend("restart")
  /\ run' = [r \in RunIds |-> None] /\ proc' = [r \in RunIds |-> None] /\ check' = [c \in Checkers |-> None] /\ job' = None
  /\ open' = TRUE /\ files' = Unstored(folder)
  /\ UNCHANGED <<bot, granted, stored, folder, book, forms, revs, from>>

Submit(by) ==
  \/ \E kind \in {"new", "edit", "menu"}, n \in Names \cup {None} : Open(by, kind, n)
  \/ \E n \in Names : Parameters(by, n)
  \/ \E n \in Names, src \in Edited, form \in (Typed(by, "new") \cup Typed(by, "edit")) \ {None} :
       SaveForm(by, n, src, form)
  \/ \E n \in Names, form \in Typed(by, "new") \cup Typed(by, "menu") \cup Typed(by, "import") : Import(by, n, form)
  \/ \E n \in Names, form \in Typed(by, "menu") :
       \/ Delete(by, n, form)
       \/ \E new \in Names : Copy(by, n, new, form) \/ Rename(by, n, new, form)
       \/ \E shared \in BOOLEAN : SetVisibility(by, n, shared, form)
       \/ \E i \in 1..History : Restore(by, n, i, form)
       \/ Export(by, n, form, FALSE)
  \/ \E n \in Names, form \in Typed(by, "export") : Export(by, n, form, TRUE)
  \/ \E n \in Names, form \in Typed(by, "run") : Run(by, n, form)
  \/ Reload(by)

\* the steps of the command the worker is in
WorkerStep ==
  \/ ParametersEnd \/ StartsPlain \/ SaveEnd \/ Fill
  \/ \E n \in Names : FileCheck(n)
  \/ FileChecked \/ ReloadEnds

Next ==
  \/ (RunNext /\ UNCHANGED storeVars)
  \/ \E by \in Senders : Submit(by)
  \/ \E n \in Names, p \in Players : SetOwner(n, p)
  \/ WorkerStep \/ Restart
  \/ \E pages \in Bodies \cup {None} : Writes(pages)
  \/ \E n \in Names, body \in Bodies \cup {None} : Operator(n, body)

\* every thread goes on: a run's, the reader's, the worker's and a web check's;
\* of the runner nothing is assumed
Fairness ==
  /\ \A r \in RunIds : WF_vars(Thread(r) /\ UNCHANGED storeVars) /\ WF_vars(Read(r) /\ UNCHANGED storeVars)
  /\ WF_vars(WorkerStep)

Spec == Init /\ [][Next]_vars /\ Fairness

-----------------------------------------------------------------------------
\* Everything stays within its type, a name never is a stored script and a file
\* script at once, and a history never outgrows its bound (script_store.py).
TypeOK ==
  /\ RunTypeOK
  /\ \A n \in Names :
       /\ stored[n] # None => stored[n] \in Stored /\ Len(stored[n].hist) <= History
       /\ folder[n] \in Bodies \cup {None} /\ files[n] \in Bodies \cup {None}
       /\ ~(stored[n] # None /\ files[n] # None)
  /\ book \in Bodies \cup {None} /\ forms \subseteq Form /\ from \in forms \cup {None}

\* What is submitted from a form or an editor changes a script only as it was shown:
\* one that was saved, restored, recreated or renamed over since is left alone, an
\* import takes the writing that was confirmed, and the source that is replaced is
\* the newest of the history (ScriptGuard, ScriptStore.save).
ShownIsReplaced ==
  [][\A n \in Names : stored[n] # None /\ stored'[n] # stored[n] =>
       /\ from' # None => from'.rev = stored[n].rev /\ from'.src = stored[n].src
       /\ stored'[n] # None /\ stored'[n].rev # stored[n].rev =>
            /\ stored'[n].hist # <<>> /\ stored'[n].hist[1] = stored[n].src
            /\ from' # None /\ from'.kind = "import" => stored'[n].src.body = from'.book]_vars

=============================================================================
