---------------------------- MODULE BotTransport ----------------------------
(***************************************************************************)
(* What BotLifecycle promises its callers about transports, whatever       *)
(* commands, losses, retries and delays happen inside: a Bot has at most   *)
(* one, it is opened only while the Bot is wanted and the process serves,  *)
(* and a restart opens exactly the wanted ones again.                      *)
(***************************************************************************)
CONSTANTS Ids, Sessions

VARIABLES
  want,      \* the identities whose profile desires online
  lines,     \* the open transports of each identity
  serving    \* the process accepts commands and opens transports

AtMostOne(S) == \A s, t \in S : s = t

Init ==
  /\ want = {}
  /\ lines = [i \in Ids |-> {}]
  /\ serving = TRUE

\* spawn, resume, despawn
Desire ==
  /\ serving
  /\ want' \in SUBSET Ids
  /\ UNCHANGED <<lines, serving>>

Open(i) ==
  /\ serving /\ i \in want /\ lines[i] = {}
  /\ \E s \in Sessions : lines' = [lines EXCEPT ![i] = {s}]
  /\ UNCHANGED <<want, serving>>

Close(i) ==
  /\ lines' = [lines EXCEPT ![i] = {}]
  /\ UNCHANGED <<want, serving>>

Stop ==
  /\ serving' = FALSE
  /\ lines' \in {lines, [i \in Ids |-> {}]}
  /\ UNCHANGED want

Restart ==
  /\ serving' = TRUE
  /\ lines' \in [Ids -> SUBSET Sessions]
  /\ \A i \in Ids : AtMostOne(lines'[i]) /\ (lines'[i] # {} <=> i \in want)
  /\ UNCHANGED want

Next == Desire \/ (\E i \in Ids : Open(i) \/ Close(i)) \/ Stop \/ Restart

Spec == Init /\ [][Next]_<<want, lines, serving>>
=============================================================================
