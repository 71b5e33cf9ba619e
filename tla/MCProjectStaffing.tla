-------------------------- MODULE MCProjectStaffing -------------------------
(* A student and a lead with one free hour each; two offers, two plan runs and *)
(* two request slots, so that late quotes, racing plan runs and offers that    *)
(* outlive a transition all occur.                                             *)
EXTENDS ProjectStaffing

CONSTANTS learner, lead

MCCommitted == learner :> 0 @@ lead :> 0
MCCap == learner :> 1 @@ lead :> 1
Symmetry == Permutations(Requests) \cup Permutations(Prompts)
=============================================================================
