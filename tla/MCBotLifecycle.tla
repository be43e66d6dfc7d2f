--------------------------- MODULE MCBotLifecycle ---------------------------
(* Model values and symmetry for BotLifecycle.                             *)
EXTENDS BotLifecycle, TLC

\* Bots, names and session objects are interchangeable.
Symmetry == Permutations(Ids) \cup Permutations(Names) \cup Permutations(Sessions)
=============================================================================
