------------------------------ MODULE MCScripts ------------------------------
(***************************************************************************)
(* Small instances of Scripts.  Each scenario starts from scripts endbotd  *)
(* can find on disk and names the events that may happen in it.            *)
(***************************************************************************)
EXTENDS Scripts

CONSTANTS alex, sam, console, none, dig, walk, wrong, b1, s1, s2

MCScript(rev, body, owner, shared, hist) ==
  [rev |-> rev, src |-> [body |-> body, ended |-> FALSE], owner |-> owner, shared |-> shared, hist |-> hist]

MCNothing == [n \in {s1, s2} |-> none]
MCLeft == [e \in {"run", "check", "op", "log", "crash", "stop", "late", "revoke", "bot", "shut", "form", "edit", "book",
                  "folder", "restart"} |-> 0]

MCStart(scripts, folders, pages, bounds) ==
  [stored |-> scripts, folder |-> folders, files |-> folders, book |-> pages, left |-> bounds @@ MCLeft]

MCOne == [MCNothing EXCEPT ![s1] = MCScript(1, dig, alex, TRUE, <<[body |-> walk, ended |-> TRUE]>>)]
MCOld == [MCNothing EXCEPT ![s1] = MCScript(1, dig, none, FALSE, <<>>)]

MCFile == [MCNothing EXCEPT ![s2] = walk]

MCScenarios ==
  { \* one run followed closely: its pipe and queue, stops, time, losses
    MCStart(MCOne, MCNothing, none, "run" :> 1 @@ "op" :> 1 @@ "log" :> 2 @@ "crash" :> 1 @@ "stop" :> 1 @@ "late" :> 1),
    \* runs and checks at their limits
    MCStart(MCOne, MCNothing, none, "run" :> 1 @@ "check" :> 1 @@ "edit" :> 1 @@ "form" :> 1),
    MCStart(MCOne, MCNothing, none, "run" :> 2 @@ "check" :> 1),
    \* the folder is read again while a web check goes on
    MCStart(MCNothing, MCFile, none, "check" :> 1 @@ "edit" :> 1 @@ "folder" :> 1 @@ "revoke" :> 1),
    \* revocation and a stop of the service
    MCStart(MCOne, MCNothing, none, "run" :> 2 @@ "revoke" :> 1),
    MCStart(MCOne, MCNothing, none, "run" :> 1 @@ "check" :> 1 @@ "shut" :> 1 @@ "restart" :> 1),
    \* the Bot of a run form changes
    MCStart(MCOne, MCNothing, none, "run" :> 1 @@ "op" :> 1 @@ "form" :> 1 @@ "bot" :> 2),
    \* a run form grows old
    MCStart(MCOne, MCNothing, none, "run" :> 1 @@ "form" :> 1 @@ "edit" :> 1),
    \* editors and menus grow old
    MCStart(MCOne, MCFile, none, "form" :> 1 @@ "edit" :> 3),
    MCStart(MCOne, MCNothing, none, "form" :> 2 @@ "edit" :> 2),
    MCStart(MCOld, MCFile, none, "form" :> 1 @@ "edit" :> 2 @@ "restart" :> 1 @@ "folder" :> 1),
    \* books
    MCStart(MCOne, MCNothing, walk, "form" :> 1 @@ "edit" :> 2 @@ "book" :> 1) }
=============================================================================
