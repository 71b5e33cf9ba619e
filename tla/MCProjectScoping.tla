-------------------------- MODULE MCProjectScoping --------------------------
(* Two request slots, two prompt versions, two prices: enough for a scope run  *)
(* and two quotes to overtake the approvals they were read before.             *)
EXTENDS ProjectScoping, TLC

Symmetry == Permutations(Requests) \cup Permutations(Prompts) \cup Permutations(PayKeys)
=============================================================================
