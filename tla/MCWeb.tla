------------------------------- MODULE MCWeb -------------------------------
(***************************************************************************)
(* Small instances of Web.  Each budget is a scenario: the events of the   *)
(* outside world it leaves out never happen in it.                         *)
(***************************************************************************)
EXTENDS Web, TLC

Only(happens) == [e \in Events |-> IF e \in DOMAIN happens THEN happens[e] ELSE 0]

MCBudgets ==
  { \* sign-ins against a revoke, failed writes and a restart
    Only([link |-> 1, code |-> 1, request |-> 4, revoke |-> 1, grant |-> 1, fail |-> 1, crash |-> 1]),
    \* two registrations against the account's removal, at the limits
    Only([link |-> 1, code |-> 2, request |-> 5, remove |-> 1, fail |-> 1, expire |-> 1]),
    \* pages open on sessions that end under them, over two links
    Only([link |-> 2, code |-> 1, request |-> 2, revoke |-> 1, grant |-> 1, expire |-> 1,
          open |-> 3, message |-> 2]) }

Symmetry == Permutations(Workers) \cup Permutations(Conns)
=============================================================================
