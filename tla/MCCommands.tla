----------------------------- MODULE MCCommands -----------------------------
(***************************************************************************)
(* Small instances of Commands.  Each scenario starts from stores endbotd  *)
(* can find on disk and names the events that may happen in it.            *)
(***************************************************************************)
EXTENDS Commands

CONSTANTS A, B, N1, N2

Only(happens) == [e \in Events |-> IF e \in DOMAIN happens THEN happens[e] ELSE 0]
Bot(name) == [name |-> name, active |-> TRUE]
Owned(p, private) == [owner |-> p, private |-> private]

Stored(bots, ours, gown, members, happens) ==
  [rt |-> [i \in Ids |-> IF i \in DOMAIN bots THEN Bot(bots[i]) ELSE None],
   own |-> [bots |-> [i \in Ids |-> IF i \in DOMAIN ours THEN ours[i] ELSE None],
            groups |-> [g \in Gids |-> IF g = 1 THEN gown ELSE None]],
   group |-> IF members = <<>> THEN None ELSE [gid |-> 1, members |-> members],
   made |-> [bots |-> Len(bots), groups |-> IF members = <<>> THEN 0 ELSE 1],
   left |-> Only(happens)]

MCScenarios ==
  { \* a private Bot: names that change hands, the slot budget, lost replies
    Stored(<<N1>>, <<Owned(A, TRUE)>>, None, <<>>,
           [spawn |-> 1, life |-> 1, own |-> 1, input |-> 1, lost |-> 1, human |-> 1]),
    \* a rename or a forget whose caller gave up is made later, or overtaken
    Stored(<<N1>>, <<Owned(A, TRUE)>>, None, <<>>, [spawn |-> 1, life |-> 2, lost |-> 1]),
    Stored(<<N1, N2>>, <<Owned(A, TRUE)>>, None, <<1, 2>>, [life |-> 3, input |-> 1, lost |-> 1]),
    \* owners that could not be written, and a restart
    Stored(<<N1>>, <<Owned(A, FALSE)>>, None, <<>>,
           [spawn |-> 1, own |-> 1, input |-> 1, save |-> 1, restart |-> 1]),
    \* an operation on a Group with a private member
    Stored(<<N1, N2>>, <<Owned(A, TRUE)>>, None, <<1, 2>>,
           [input |-> 1, life |-> 2, lost |-> 1, revoke |-> 1, drop |-> 1, save |-> 1]),
    \* a menu grows old while a member's name changes hands
    Stored(<<N1, N2>>, <<>>, None, <<1>>,
           [menu |-> 1, edit |-> 1, life |-> 2, spawn |-> 1, input |-> 1]),
    \* and while the Group is changed, recreated or made private
    Stored(<<N1, N2>>, <<>>, Owned(A, FALSE), <<1>>,
           [menu |-> 1, edit |-> 2, input |-> 1, own |-> 1]),
    \* loops against the poll
    Stored(<<N1>>, <<Owned(A, FALSE)>>, None, <<>>,
           [destroy |-> 2, own |-> 1, revoke |-> 1, lost |-> 1, restart |-> 1]),
    Stored(<<N1>>, <<>>, None, <<>>, [destroy |-> 1, revoke |-> 1, lost |-> 2, life |-> 1]),
    Stored(<<N1, N2>>, <<Owned(A, TRUE)>>, None, <<1, 2>>, [destroy |-> 1, revoke |-> 1, lost |-> 1]) }
=============================================================================
