---------------------------- MODULE MCPluginLink ----------------------------
(* Model checking of PluginLink: players are interchangeable.              *)
EXTENDS PluginLink, TLC

Symmetry == Permutations(Players)
=============================================================================
