----------------------- MODULE MCProjectDeliveryFocus -----------------------
(* A behaviour looks either at reviews, two deliverables and two QA reviews       *)
(* that overtake each other, or at changes: two scope-change requests, their      *)
(* orders and a late quote.  Leads who ask for changes, which no check reads, are *)
(* left to the second; a late scope run to the first.  Work can be diverted       *)
(* before its first submission.                                                   *)
EXTENDS MCProjectDelivery

VARIABLE focus

focusVars == <<deliveryVars, focus>>

InFocus ==
  /\ state = "DISPUTED" => version <= 11
  /\ \/ /\ focus = "review"
        /\ funded = 1 /\ version <= 13
        /\ Len(quotes) = 1 /\ \A r \in Requests : req[r].op \in {"idle", "scope", "deliver", "qa"}
        /\ changes = <<>>
        /\ \A review \in leadReviews : review.verdict = "RELEASE"
     \/ /\ focus = "change"
        /\ Len(deliverables) <= 1 /\ Len(reviews) <= 1
        /\ Len(scopes) = 1 /\ \A r \in Requests : req[r].op \notin {"scope", "quote"}

FocusStart == DeliveryStart /\ focus \in {"review", "change"} /\ InFocus
FocusNext == DeliveryNext /\ UNCHANGED focus /\ InFocus'
FocusSpec == FocusStart /\ [][FocusNext]_focusVars
=============================================================================
