--------------------------- MODULE MCScriptInputs ---------------------------
(* Two runs and the players' commands on a moving and mining Bot. *)
EXTENDS ScriptInputs, TLC

CONSTANTS run1, run2, player, nobody
RunSymmetry == Permutations(Runs)
=============================================================================
