----------------------- MODULE MCControllerAuthority ------------------------
(* Model checking of ControllerAuthority: two players and a local Bot that *)
(* is called like one of them.                                             *)
EXTENDS ControllerAuthority

CONSTANTS alice, bob, bot, tag1, tag2

FixedNames == [x \in Accounts |-> IF x = bob THEN tag2 ELSE tag1]
=============================================================================
