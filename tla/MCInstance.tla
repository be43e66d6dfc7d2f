----------------------------- MODULE MCInstance -----------------------------
(* One version before endbotd and two after it, each with a BDS of its own. *)
EXTENDS Instance
MCLock == [v \in Versions |-> CASE v = "v1" -> 1 [] v = "v2" -> 1 [] OTHER -> 2]
=============================================================================
