-------------------------- MODULE MCProjectDelivery -------------------------
(* A student and a lead, two deliverables, two QA reviews and two request       *)
(* slots: enough for a review, a deliverable or a scope-change request to be    *)
(* overtaken, for one revision and for one change order.                        *)
EXTENDS ProjectDelivery

CONSTANTS learner, lead

MCHours == learner :> 0 @@ lead :> 0
MCCap == learner :> 1 @@ lead :> 1
Symmetry == Permutations(Requests) \cup Permutations(Prompts)
=============================================================================
