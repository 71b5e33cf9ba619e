------------------------ MODULE MCProjectSettlement ------------------------
(* A student with two offers and a share of a change order, a lead, an         *)
(* administrator who is also a coordinator and one who is not; two request     *)
(* slots, so that two pieces of payout evidence race.                          *)
EXTENDS ProjectSettlement

CONSTANTS learner, lead

MCHours == learner :> 0 @@ lead :> 0
MCCap == learner :> 2 @@ lead :> 1
Symmetry == Permutations(Requests) \cup Permutations(PayoutKeys) \cup Permutations(References)
=============================================================================
