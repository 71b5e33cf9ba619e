------------------------ MODULE ProjectDeliveryProofs ------------------------
(***************************************************************************)
(* What TLAPS proves of deliverables, reviews, the release, scope changes  *)
(* and change orders, for any users, rows and requests in flight.          *)
(***************************************************************************)
EXTENDS ProjectDelivery, ProjectStaffingProofs

(* Types. *)

\* What a request in a handler of this phase holds.
DeliveryCall(read) ==
  /\ read.op = "deliver" => read \in DeliverableCalls
  /\ read.op = "qa" => read \in QACalls
  /\ read.op = "change" => read \in ChangeCalls

DeliveryRowTypes ==
  /\ deliverables \in Seq(Deliverables)
  /\ reviews \in Seq(Reviews)
  /\ leadReviews \subseteq LeadReviews
  /\ changes \in Seq(Changes)
  /\ orders \in Seq(Orders)
  /\ decisions \in Seq(Decisions)

\* The rows of this phase and the requests in flight, and what the phases before it own.
LEMMA DeliveryTypesAre ==
  DeliveryTypeOK <=>
    /\ StaffingTypeOK /\ DeliveryRowTypes
    /\ \A r \in Requests : DeliveryCall(req[r])
  BY DEF DeliveryTypeOK, DeliveryRowTypes, DeliveryCall, In

\* A request begins, goes on or ends, and rows of this phase are written.
LEMMA HoldKeepsDeliveryTypes ==
  ASSUME DeliveryTypeOK, NEW r \in Requests, NEW read, Hold(r, read), ScopingCall(read),
         read.op \notin {"staff", "plan"}, DeliveryCall(read), UNCHANGED <<record, before>>,
         DeliveryRowTypes'
  PROVE  DeliveryTypeOK'
<1>1. /\ req' = [req EXCEPT ![r] = read] /\ req = [q \in Requests |-> req[q]]
      /\ UNCHANGED <<scopingRows, shortlists, offers, assignments, plans, scopes>>
  BY DEF Hold, before, staffingRows, scopingRows, DeliveryTypeOK, StaffingTypeOK,
         ScopingTypeOK, RecordTypeOK
<1>2. ScopingTypeOK'  BY <1>1, HoldKeepsTypes DEF DeliveryTypeOK, StaffingTypeOK
<1>3. ASSUME NEW q \in Requests
      PROVE  /\ In(q, "staff")' => req'[q] \in StaffingCalls
             /\ In(q, "plan")' => req'[q] \in PlanCalls
             /\ DeliveryCall(req'[q])
  <2>1. CASE q = r  BY <1>1, <2>1 DEF In
  <2>2. CASE q # r
    BY <1>1, <2>2, DeliveryTypesAre DEF In, StaffingTypeOK
  <2> QED  BY <2>1, <2>2
<1>4. StaffingTypeOK'
  BY <1>1, <1>2, <1>3 DEF DeliveryTypeOK, StaffingTypeOK
<1>5. \A q \in Requests : DeliveryCall(req[q])'  BY <1>3 DEF DeliveryCall
<1> QED  BY <1>4, <1>5 DEF DeliveryTypeOK, DeliveryRowTypes, DeliveryCall, In

\* A handler ends.
LEMMA ReleaseKeepsDeliveryTypes ==
  ASSUME DeliveryTypeOK, NEW r \in Requests, Release(r), UNCHANGED <<record, before>>,
         DeliveryRowTypes'
  PROVE  DeliveryTypeOK'
<1>1. Hold(r, Idle) /\ ScopingCall(Idle) /\ DeliveryCall(Idle)
      /\ Idle.op \notin {"staff", "plan"}
  BY CallsOfScoping DEF Hold, Release, Idle, DeliveryCall
<1> QED  BY <1>1, HoldKeepsDeliveryTypes

\* A locked request is one step.
LEMMA LockedKeepsDeliveryTypes ==
  ASSUME DeliveryTypeOK, UNCHANGED <<req, before>>, RecordTypeOK', DeliveryRowTypes'
  PROVE  DeliveryTypeOK'
<1>1. UNCHANGED <<scopes, scopedBy, quotes, payments, shortlists, offers, assignments, plans>>
  BY DEF before, staffingRows, scopingRows
<1>2. ScopingTypeOK'
  BY <1>1 DEF DeliveryTypeOK, StaffingTypeOK, ScopingTypeOK, In
<1>3. StaffingTypeOK'  BY <1>1, <1>2 DEF DeliveryTypeOK, StaffingTypeOK, In
<1>4. \A q \in Requests : DeliveryCall(req[q])'
  BY DeliveryTypesAre DEF DeliveryCall
<1> QED  BY <1>3, <1>4 DEF DeliveryTypeOK, DeliveryRowTypes, DeliveryCall, In

\* A transition moves the project and may add a decision or an approval.
LEMMA MoveKeepsDeliveryTypes ==
  ASSUME DeliveryTypeOK, NEW role, NEW to, Move(role, to), approvals' \subseteq Approvals,
         UNCHANGED before, DeliveryRowTypes'
  PROVE  DeliveryTypeOK'
<1>1. RecordTypeOK'
  BY EdgesOfScoping
     DEF Move, DeliveryTypeOK, StaffingTypeOK, ScopingTypeOK, RecordTypeOK
<1> QED  BY <1>1, LockedKeepsDeliveryTypes DEF Move

\* create_deliverable.
LEMMA DeliverableTypes ==
  ASSUME DeliveryTypeOK, DeliverableRequests PROVE DeliveryTypeOK'
<1>0. /\ DeliveryRowTypes /\ assignments \subseteq Assignments
      /\ deliverables \in Seq(Deliverables) /\ Len(deliverables) \in Nat
  BY DEF DeliveryTypeOK, StaffingTypeOK, DeliveryRowTypes
<1>1. ASSUME NEW r \in Requests, NEW user \in Team, StartDeliverable(r, user)
      PROVE  DeliveryTypeOK'
  <2>1. PICK read : read = [op |-> "deliver", by |-> user, after |-> Len(deliverables)]
    OBVIOUS
  <2>2. ScopingCall(read) /\ DeliveryCall(read) /\ read.op \notin {"staff", "plan"}
    BY <1>0, <2>1 DEF ScopingCall, DeliveryCall, DeliverableCalls
  <2>3. Hold(r, read) /\ UNCHANGED <<record, before>> /\ DeliveryRowTypes'
    BY <1>0, <1>1, <2>1 DEF StartDeliverable, DeliveryRowTypes, deliveryRows
  <2> QED  BY <2>2, <2>3, HoldKeepsDeliveryTypes
<1>2. ASSUME NEW r \in Requests, NEW artifact \in Artifacts,
             NEW place \in 1..Len(deliverables) + 1, CommitDeliverable(r, artifact, place)
      PROVE  DeliveryTypeOK'
  <2>1. req[r].by \in Team
    BY <1>2 DEF CommitDeliverable, DeliveryTypeOK, DeliverableCalls
  <2>2. PICK row \in Deliverables : deliverables' = InsertAt(deliverables, place, row)
    <3>1. [id |-> Len(deliverables) + 1, by |-> req[r].by, artifact |-> artifact]
            \in Deliverables
      BY <1>0, <2>1 DEF Deliverables
    <3> QED  BY <1>2, <3>1 DEF CommitDeliverable
  <2>3. deliverables' \in Seq(Deliverables)  BY <1>0, <2>2, InsertAtProperties
  <2>4. DeliveryRowTypes'  BY <1>0, <1>2, <2>3 DEF CommitDeliverable, DeliveryRowTypes
  <2> QED  BY <1>2, <2>4, ReleaseKeepsDeliveryTypes DEF CommitDeliverable
<1> QED  BY <1>1, <1>2 DEF DeliverableRequests

\* run_qa_agent and create_lead_review.
LEMMA ReviewTypes ==
  ASSUME DeliveryTypeOK, ReviewRequests PROVE DeliveryTypeOK'
<1>0. /\ DeliveryRowTypes /\ reviews \in Seq(Reviews) /\ Len(reviews) \in Nat
      /\ \A n \in 1..Len(deliverables) : deliverables[n] \in Deliverables
  BY DEF DeliveryTypeOK, DeliveryRowTypes
<1>1. ASSUME NEW r \in Requests, NEW n \in 1..Len(deliverables), StartQA(r, n)
      PROVE  DeliveryTypeOK'
  <2>1. PICK read : read = [op |-> "qa", of |-> deliverables[n].id,
                            artifact |-> deliverables[n].artifact, after |-> Len(reviews)]
    OBVIOUS
  <2>2. ScopingCall(read) /\ DeliveryCall(read) /\ read.op \notin {"staff", "plan"}
    BY <1>0, <2>1 DEF ScopingCall, DeliveryCall, QACalls, Deliverables
  <2>3. Hold(r, read) /\ UNCHANGED <<record, before>> /\ DeliveryRowTypes'
    BY <1>0, <1>1, <2>1 DEF StartQA, DeliveryRowTypes, deliveryRows
  <2> QED  BY <2>2, <2>3, HoldKeepsDeliveryTypes
<1>2. ASSUME NEW r \in Requests, NEW verdict \in Verdicts, NEW place \in 1..Len(reviews) + 1,
             CommitQA(r, verdict, place)
      PROVE  DeliveryTypeOK'
  <2>1. req[r].of \in Nat  BY <1>2 DEF CommitQA, DeliveryTypeOK, QACalls
  <2>2. PICK row \in Reviews : reviews' = InsertAt(reviews, place, row)
    BY <1>2, <2>1 DEF CommitQA, Reviews
  <2>3. reviews' \in Seq(Reviews)  BY <1>0, <2>2, InsertAtProperties
  <2>4. DeliveryRowTypes'  BY <1>0, <1>2, <2>3 DEF CommitQA, DeliveryRowTypes
  <2> QED  BY <1>2, <2>4, ReleaseKeepsDeliveryTypes DEF CommitQA
<1>3. ASSUME NEW user \in Team, NEW n \in 1..Len(deliverables),
             NEW verdict \in {"RELEASE", "CHANGES_REQUIRED"}, ReviewAsLead(user, n, verdict)
      PROVE  DeliveryTypeOK'
  <2>1. leadReviews' \subseteq LeadReviews
    <3>1. deliverables[n].id \in Nat  BY <1>0 DEF Deliverables
    <3> QED  BY <1>0, <1>3, <3>1 DEF ReviewAsLead, DeliveryRowTypes, LeadReviews
  <2>2. DeliveryRowTypes'  BY <1>0, <1>3, <2>1 DEF ReviewAsLead, DeliveryRowTypes
  <2>3. RecordTypeOK'
    BY <1>3 DEF ReviewAsLead, record, DeliveryTypeOK, StaffingTypeOK, ScopingTypeOK, RecordTypeOK
  <2> QED  BY <1>3, <2>2, <2>3, LockedKeepsDeliveryTypes DEF ReviewAsLead
<1> QED  BY <1>1, <1>2, <1>3 DEF ReviewRequests

\* request_scope_change, create_change_order and decide_change_order.
LEMMA ChangeTypes ==
  ASSUME DeliveryTypeOK, ChangeRequests PROVE DeliveryTypeOK'
<1> USE DeliveryAssumption
<1>0. /\ DeliveryRowTypes /\ RecordTypeOK
      /\ changes \in Seq(Changes) /\ Len(changes) \in Nat
      /\ orders \in Seq(Orders) /\ Len(orders) \in Nat
      /\ \A n \in 1..Len(changes) : changes[n] \in Changes
      /\ \A n \in 1..Len(orders) : orders[n] \in Orders
  BY DEF DeliveryTypeOK, DeliveryRowTypes, StaffingTypeOK, ScopingTypeOK
<1>1. ASSUME NEW r \in Requests, BeginScopeChange(r) PROVE DeliveryTypeOK'
  <2>1. PICK read : read = [op |-> "change", after |-> Len(changes)]  OBVIOUS
  <2>2. ScopingCall(read) /\ DeliveryCall(read) /\ read.op \notin {"staff", "plan"}
    BY <1>0, <2>1 DEF ScopingCall, DeliveryCall, ChangeCalls
  <2>3. Hold(r, read) /\ UNCHANGED <<record, before>> /\ DeliveryRowTypes'
    BY <1>0, <1>1, <2>1 DEF BeginScopeChange, DeliveryRowTypes, deliveryRows
  <2> QED  BY <2>2, <2>3, HoldKeepsDeliveryTypes
<1>2. ASSUME NEW r \in Requests, NEW defect \in BOOLEAN, NEW material \in BOOLEAN,
             NEW place \in 1..Len(changes) + 1, CommitScopeChange(r, defect, material, place)
      PROVE  DeliveryTypeOK'
  <2>1. Last(deliverables).id \in Nat
    <3>1. deliverables \in Seq(Deliverables) /\ deliverables # <<>>
      BY <1>0, <1>2 DEF DeliveryRowTypes, CommitScopeChange
    <3>2. deliverables[Len(deliverables)] \in Deliverables  BY <3>1
    <3> QED  BY <3>2 DEF Last, Deliverables
  <2>2. Class(defect, material, RemainingRounds) \in Classes  BY DEF Class, Classes
  <2>3. PICK row \in Changes : changes' = InsertAt(changes, place, row)
    <3>1. [id |-> Len(changes) + 1, class |-> Class(defect, material, RemainingRounds),
           deliverable |-> Last(deliverables).id] \in Changes
      BY <1>0, <2>1, <2>2 DEF Changes
    <3> QED  BY <1>2, <3>1 DEF CommitScopeChange
  <2>4. changes' \in Seq(Changes)  BY <1>0, <2>3, InsertAtProperties
  <2>5. DeliveryRowTypes'  BY <1>0, <1>2, <2>4 DEF CommitScopeChange, DeliveryRowTypes
  <2> QED  BY <1>2, <2>5, ReleaseKeepsDeliveryTypes DEF CommitScopeChange
<1>3. ASSUME NEW n \in 1..Len(changes), NEW amount \in Added, NEW recipient \in Team,
             CreateChangeOrder(n, amount, recipient)
      PROVE  DeliveryTypeOK'
  <2>1. changes[n].id \in Nat /\ amount \in Nat  BY <1>0 DEF Changes
  <2>2. [change |-> changes[n].id, amount |-> amount,
         shares |-> [u \in Team |-> IF u = recipient THEN amount ELSE 0],
         state |-> "DRAFT"] \in Orders
    BY <2>1 DEF Orders
  <2>3. PICK row \in Orders : orders' = Append(orders, row)
    BY <1>3, <2>2 DEF CreateChangeOrder
  <2>4. DeliveryRowTypes'  BY <1>0, <1>3, <2>3 DEF CreateChangeOrder, DeliveryRowTypes
  <2>5. RecordTypeOK'  BY <1>0, <1>3 DEF CreateChangeOrder, record, RecordTypeOK
  <2> QED  BY <1>3, <2>4, <2>5, LockedKeepsDeliveryTypes DEF CreateChangeOrder
<1>4. ASSUME NEW decision \in {"ACCEPTED", "REJECTED"}, DecideChangeOrder(decision)
      PROVE  DeliveryTypeOK'
  <2>1. Len(orders) \in 1..Len(orders) /\ orders[Len(orders)] \in Orders
    BY <1>0, <1>4 DEF DecideChangeOrder
  <2>2. PICK row \in Orders : orders' = [orders EXCEPT ![Len(orders)] = row]
    <3>1. [orders[Len(orders)] EXCEPT !.state = decision] \in Orders  BY <2>1 DEF Orders
    <3> QED  BY <1>4, <3>1 DEF DecideChangeOrder
  <2>3. orders' \in Seq(Orders)  BY <1>0, <2>1, <2>2
  <2>4. DeliveryRowTypes'  BY <1>0, <1>4, <2>3 DEF DecideChangeOrder, DeliveryRowTypes
  <2>5. required' \in Nat
    <3>1. Last(orders).amount \in Nat  BY <2>1 DEF Last, Orders
    <3> QED  BY <1>0, <1>4, <3>1 DEF DecideChangeOrder, Owed, RecordTypeOK
  <2>6. approvals' \subseteq Approvals
    BY <1>0, <1>4 DEF DecideChangeOrder, RecordTypeOK, Approvals, Subjects
  <2>7. RecordTypeOK'  BY <1>0, <1>4, <2>5, <2>6 DEF DecideChangeOrder, RecordTypeOK
  <2> QED  BY <1>4, <2>4, <2>7, LockedKeepsDeliveryTypes DEF DecideChangeOrder
<1> QED  BY <1>1, <1>2, <1>3, <1>4 DEF ChangeRequests

\* transition_project: which transition it is, and what it writes besides the move.
DecidedAs(decision) ==
  \E n, round \in Nat :
    decisions' = Append(decisions, [decision |-> decision, deliverable |-> n, round |-> round])

\* The transitions of this part, each with its guard.
LEMMA DeliveryTransitionIs ==
  ASSUME DeliveryTypeOK, DeliveryTransitions
  PROVE  \E role \in Roles, to \in States :
           /\ Move(role, to) /\ UNCHANGED before
           /\ approvals' = approvals \/ Approve("release", 0)
           /\ decisions' = decisions \/ DecidedAs("REVISION_REQUESTED") \/ DecidedAs("ACCEPTED")
           /\ UNCHANGED <<deliverables, reviews, leadReviews, changes, orders>>
           /\ to = "AWAITING_RELEASE_APPROVAL" => PassQA(role)
           /\ to = "CLIENT_REVIEW" => ApproveRelease(role) \/ DropChange(role)
           /\ to = "CHANGE_ORDER_REVIEW" => ReviewChangeOrder(role)
<1> USE DEF deliveryRows
<1>1. PICK role \in Roles :
        \/ SubmitForQA(role) \/ PassQA(role) \/ ApproveRelease(role) \/ RequestRevision(role)
        \/ StartRevision(role) \/ ReviewChangeOrder(role) \/ StartChange(role)
        \/ DropChange(role) \/ AcceptWork(role)
        \/ \E to \in Detours : DivertFromDelivery(role, to)
  BY DEF DeliveryTransitions
<1>2. CASE SubmitForQA(role)  BY <1>2 DEF SubmitForQA, States
<1>3. CASE PassQA(role)  BY <1>3 DEF PassQA, States
<1>4. CASE ApproveRelease(role)  BY <1>4 DEF ApproveRelease, States
<1>5. CASE RequestRevision(role)
  <2>1. Last(deliverables).id \in Nat
    <3>1. deliverables \in Seq(Deliverables) /\ deliverables # <<>>
      BY <1>5 DEF DeliveryTypeOK, RequestRevision, ChangeCurrent
    <3>2. deliverables[Len(deliverables)] \in Deliverables  BY <3>1
    <3> QED  BY <3>2 DEF Last, Deliverables
  <2>2. Cardinality(Revisions) + 1 \in Nat
    <3>1. Len(decisions) \in Nat /\ Revisions \subseteq 1..Len(decisions)
      BY DEF DeliveryTypeOK, Revisions
    <3>2. IsFiniteSet(1..Len(decisions))  BY <3>1, FS_Interval
    <3>3. IsFiniteSet(Revisions)  BY <3>1, <3>2, FS_Subset
    <3> QED  BY <3>3, FS_CardinalityType
  <2>3. DecidedAs("REVISION_REQUESTED")  BY <1>5, <2>1, <2>2 DEF RequestRevision, DecidedAs
  <2> QED  BY <1>5, <2>3 DEF RequestRevision, States
<1>6. CASE StartRevision(role)  BY <1>6 DEF StartRevision, States
<1>7. CASE ReviewChangeOrder(role)  BY <1>7 DEF ReviewChangeOrder, States
<1>8. CASE StartChange(role)  BY <1>8 DEF StartChange, States
<1>9. CASE DropChange(role)  BY <1>9 DEF DropChange, States
<1>10. CASE AcceptWork(role)
  <2>1. DecidedAs("ACCEPTED")  BY <1>10 DEF AcceptWork, DecidedAs
  <2> QED  BY <1>10, <2>1 DEF AcceptWork, States
<1>11. ASSUME NEW to \in Detours, DivertFromDelivery(role, to)
       PROVE  /\ Move(role, to) /\ to \in {"PAUSED", "DISPUTED", "CANCELED"}
              /\ UNCHANGED <<before, deliveryRows, approvals>>
  BY <1>11, RecordAssumption DEF DivertFromDelivery, Divert, RecordAssumption
<1>12. ASSUME NEW to \in Detours, DivertFromDelivery(role, to)
       PROVE  to \in States
  BY <1>11, <1>12 DEF States
<1> QED
  BY <1>1, <1>2, <1>3, <1>4, <1>5, <1>6, <1>7, <1>8, <1>9, <1>10, <1>11, <1>12

\* A transition keeps the types.
LEMMA DeliveryTransitionTypes ==
  ASSUME DeliveryTypeOK, DeliveryTransitions PROVE DeliveryTypeOK'
<1>1. PICK role \in Roles, to \in States :
        /\ Move(role, to) /\ UNCHANGED before
        /\ approvals' = approvals \/ Approve("release", 0)
        /\ decisions' = decisions \/ DecidedAs("REVISION_REQUESTED") \/ DecidedAs("ACCEPTED")
        /\ UNCHANGED <<deliverables, reviews, leadReviews, changes, orders>>
  BY DeliveryTransitionIs
<1>2. approvals' \subseteq Approvals
  BY <1>1 DEF Approve, DeliveryTypeOK, StaffingTypeOK, ScopingTypeOK, RecordTypeOK, Approvals,
              Subjects
<1>3. decisions' \in Seq(Decisions)
  <2>1. decisions \in Seq(Decisions)  BY DEF DeliveryTypeOK
  <2>2. ASSUME NEW decision \in {"REVISION_REQUESTED", "ACCEPTED"}, DecidedAs(decision)
        PROVE  \E row \in Decisions : decisions' = Append(decisions, row)
    BY <2>2 DEF DecidedAs, Decisions
  <2> QED  BY <1>1, <2>1, <2>2
<1>4. DeliveryRowTypes'  BY <1>1, <1>3 DEF DeliveryTypeOK, DeliveryRowTypes
<1> QED  BY <1>1, <1>2, <1>4, MoveKeepsDeliveryTypes

\* A scope run or a quote that began before the client accepted: it adds a scope or a quote
\* and leaves the rows of the later phases alone.
LEMMA LateTermsIs ==
  ASSUME LateTerms, DeliveryTypeOK
  PROVE  /\ UNCHANGED <<state, approvals, staffingRows, deliveryRows>>
         /\ Len(scopes) <= Len(scopes')
         /\ \E r \in Requests : \E read :
              Hold(r, read) /\ read.op \notin {"staff", "plan", "deliver", "qa", "change"}
<1>1. UNCHANGED <<state, approvals, staffingRows, deliveryRows>>
  BY DEF LateTerms, LateScoping, ScopeRuns, StartScopeRun, FinishScopeRun, QuoteRequests,
         LoadForQuote, PriceQuote, NumberQuote, CommitQuote, record
<1>2. Len(scopes) <= Len(scopes')
  <2>1. scopes' = scopes \/ scopes' = Append(scopes, "PROPOSED")
    BY DEF LateTerms, LateScoping, ScopeRuns, StartScopeRun, FinishScopeRun, QuoteRequests,
           LoadForQuote, PriceQuote, NumberQuote, CommitQuote, scopingRows
  <2>2. scopes \in Seq(ScopeStatus)  BY DEF DeliveryTypeOK, StaffingTypeOK, ScopingTypeOK
  <2> QED  BY <2>1, <2>2
<1> DEFINE Other(r) ==
      \E read : Hold(r, read) /\ read.op \notin {"staff", "plan", "deliver", "qa", "change"}
<1>3. \E r \in Requests : Other(r)
  <2>1. ASSUME NEW r \in Requests, Release(r) PROVE Other(r)
    <3>1. Hold(r, Idle) /\ Idle.op \notin {"staff", "plan", "deliver", "qa", "change"}
      BY <2>1 DEF Release, Hold, Idle
    <3> QED  BY <3>1
  <2>2. ASSUME NEW r \in Requests, NEW prompt \in Prompts, StartScopeRun(r, prompt)
        PROVE  Other(r)
    BY <2>2 DEF StartScopeRun
  <2>3. ASSUME NEW r \in Requests, LoadForQuote(r) PROVE Other(r)
    BY <2>3 DEF LoadForQuote
  <2>4. ASSUME NEW r \in Requests, NEW base \in Bases, PriceQuote(r, base) PROVE Other(r)
    BY <2>4 DEF PriceQuote
  <2>5. ASSUME NEW r \in Requests, NumberQuote(r) PROVE Other(r)
    BY <2>5 DEF NumberQuote
  <2> HIDE DEF Other
  <2> QED
    BY <2>1, <2>2, <2>3, <2>4, <2>5
       DEF LateTerms, LateScoping, ScopeRuns, FinishScopeRun, QuoteRequests, CommitQuote
<1> QED  BY <1>1, <1>2, <1>3

LEMMA LateTermTypes ==
  ASSUME DeliveryTypeOK, LateTerms PROVE DeliveryTypeOK'
<1>0. req = [q \in Requests |-> req[q]]
  BY DEF DeliveryTypeOK, StaffingTypeOK, ScopingTypeOK, RecordTypeOK
<1>1. ScopingTypeOK'
  BY ScopeRunTypes, QuoteTypes
     DEF LateTerms, LateScoping, ScopeRuns, QuoteRequests, DeliveryTypeOK, StaffingTypeOK
<1>2. UNCHANGED <<staffingRows, deliveryRows>>  BY LateTermsIs
<1>3. shortlists' \subseteq 1..Len(scopes')
  <2>1. Len(scopes) \in Nat /\ Len(scopes') \in Nat
    BY <1>1 DEF DeliveryTypeOK, StaffingTypeOK, ScopingTypeOK
  <2>2. 1..Len(scopes) \subseteq 1..Len(scopes')  BY <2>1, LateTermsIs
  <2> QED  BY <1>2, <2>2 DEF DeliveryTypeOK, StaffingTypeOK, staffingRows
<1>4. ASSUME NEW q \in Requests
      PROVE  /\ In(q, "staff")' => req'[q] \in StaffingCalls
             /\ In(q, "plan")' => req'[q] \in PlanCalls
             /\ DeliveryCall(req'[q])
  <2>0. PICK r \in Requests : \E read :
          Hold(r, read) /\ read.op \notin {"staff", "plan", "deliver", "qa", "change"}
    BY LateTermsIs
  <2>1. PICK read :
          /\ req' = [req EXCEPT ![r] = read]
          /\ read.op \notin {"staff", "plan", "deliver", "qa", "change"}
    BY <2>0 DEF Hold
  <2>2. CASE q = r  BY <1>0, <2>1, <2>2 DEF In, DeliveryCall
  <2>3. CASE q # r
    BY <1>0, <2>1, <2>3, DeliveryTypesAre DEF In, StaffingTypeOK
  <2> QED  BY <2>2, <2>3
<1>5. StaffingTypeOK'
  BY <1>1, <1>2, <1>3, <1>4 DEF DeliveryTypeOK, StaffingTypeOK, staffingRows
<1>6. DeliveryRowTypes'  BY <1>2 DEF deliveryRows, DeliveryTypeOK, DeliveryRowTypes
<1>7. \A q \in Requests : DeliveryCall(req[q])'  BY <1>4 DEF DeliveryCall
<1> QED  BY <1>5, <1>6, <1>7 DEF DeliveryTypeOK, DeliveryRowTypes, DeliveryCall, In

\* Every step keeps the types.
LEMMA DeliveryTypesStep ==
  ASSUME DeliveryTypeOK, [DeliveryNext]_deliveryVars PROVE DeliveryTypeOK'
<1>0. DeliveryRowTypes /\ RecordTypeOK
  BY DEF DeliveryTypeOK, StaffingTypeOK, ScopingTypeOK, DeliveryRowTypes
<1>1. CASE UNCHANGED deliveryVars
  <2>1. UNCHANGED <<record, req, before, deliveryRows>>
    BY <1>1 DEF deliveryVars, staffingVars, scopingVars, before
  <2> QED
    BY <1>0, <2>1, LockedKeepsDeliveryTypes
       DEF deliveryRows, DeliveryRowTypes, record, RecordTypeOK
<1>2. ASSUME NEW r \in Requests, AbandonInDelivery(r) PROVE DeliveryTypeOK'
  BY <1>0, <1>2, ReleaseKeepsDeliveryTypes
     DEF AbandonInDelivery, Abandon, deliveryRows, DeliveryRowTypes
<1> QED
  BY <1>1, <1>2, DeliverableTypes, ReviewTypes, ChangeTypes, DeliveryTransitionTypes,
     LateTermTypes DEF DeliveryNext

\* The initial states.
LEMMA InitDeliveryTypes == DeliveryStart => DeliveryTypeOK
<1> SUFFICES ASSUME DeliveryStart PROVE DeliveryTypeOK  OBVIOUS
<1> USE ScopingAssumption
<1>1. PICK base \in Bases, paid \in Amounts, by \in Prompts, key \in PayKeys :
        /\ StartedRecord(base, paid) /\ AcceptedTerms(base, paid, by, key)
        /\ req \in [Requests -> LateRequests(base)]
  BY DEF DeliveryStart
<1>0. PICK s \in Students, l \in Leads, hours \in Hours, pay \in Pays :
        StartedTeam(s, l, hours, pay)
  BY DEF DeliveryStart
<1>2. RecordTypeOK
  <2>0. base \in Nat /\ paid \in Nat  OBVIOUS
  <2>1. ledger \in [Accounts -> Int]  BY <1>1, <2>0 DEF Accounts, StartedRecord
  <2>2. approvals \subseteq Approvals  BY <1>1 DEF Approvals, Subjects, StartedRecord
  <2>3. req = [r \in Requests |-> req[r]]  BY <1>1
  <2> QED  BY <1>1, <2>0, <2>1, <2>2, <2>3 DEF RecordTypeOK, States, StartedRecord
<1>3. scopes \in Seq(ScopeStatus) /\ scopedBy \subseteq Prompts /\ Len(scopes) = 1
  BY <1>1 DEF ScopeStatus, AcceptedTerms
<1>4. quotes \in Seq(Quotes)
  <2>1. [scope |-> 1, base |-> base, status |-> "CLIENT_ACCEPTED"] \in Quotes  BY DEF Quotes
  <2> QED  BY <1>1, <2>1 DEF AcceptedTerms
<1>5. payments \subseteq Payments  BY <1>1 DEF Payments, AcceptedTerms
<1>6. ASSUME NEW r \in Requests
      PROVE  /\ ScopingCall(req[r])
             /\ req[r].op \in {"idle", "scope", "quote", "priced", "numbered"}
  <2>1. req[r] \in LateRequests(base)  BY <1>1
  <2>2. CASE req[r] = Idle  BY <2>2 DEF Idle, ScopingCall
  <2>3. CASE req[r] \in [op : {"scope"}, prompt : Prompts \ scopedBy, seen : {"LOW", complexity}]
    BY <1>1, <2>3 DEF ScopingCall, ScopeCalls, StartedRecord
  <2>4. CASE req[r] \in [op : {"quote"}, seen : {0, base}]
    BY <2>4 DEF ScopingCall, QuoteLoads
  <2>5. CASE req[r] \in [op : {"priced"}, seen : {0, base}, scope : {1}, base : Bases]
    BY <2>5 DEF ScopingCall, QuotePrices
  <2>6. CASE req[r] \in [op : {"numbered"}, seen : {0, base}, scope : {1}, base : Bases,
                         number : {2} \cap 1..MaxQuotes]
    BY <2>6 DEF ScopingCall, QuoteNumbers
  <2> QED  BY <2>1, <2>2, <2>3, <2>4, <2>5, <2>6 DEF LateRequests
<1>7. ScopingTypeOK
  BY <1>2, <1>3, <1>4, <1>5, <1>6 DEF ScopingTypeOK, ScopingCall, In
<1>8. StaffingTypeOK
  <2>0. PICK first, second :
          /\ first = TakenOffer(s, "student", hours, pay)
          /\ second = TakenOffer(l, "technical lead", hours, pay)
    OBVIOUS
  <2>1. shortlists = {1}  BY <1>0, Zenon DEF StartedTeam
  <2>2. offers = <<first, second>>  BY <1>0, <2>0, Zenon DEF StartedTeam
  <2>3. s \in Team /\ l \in Team  BY DEF Team
  <2>4. offers \in Seq(Offers)
    <3>1. first \in Offers /\ second \in Offers
      BY <2>0, <2>3 DEF TakenOffer, Offers, OfferRoles
    <3> QED  BY <2>2, <3>1
  <2>5. assignments \subseteq Assignments
    <3>1. assignments = {[user |-> s, role |-> "student", offer |-> 1],
                         [user |-> l, role |-> "technical lead", offer |-> 2]}
      BY <1>0, Zenon DEF StartedTeam
    <3>2. /\ [user |-> s, role |-> "student", offer |-> 1] \in Assignments
          /\ [user |-> l, role |-> "technical lead", offer |-> 2] \in Assignments
      BY <2>3 DEF Assignments, OfferRoles
    <3> QED  BY <3>1, <3>2, Zenon
  <2>6. plans \in Seq(Plans)
    <3>1. [id |-> 1, scope |-> 1, version |-> 9, status |-> "APPROVED"] \in Plans  BY DEF Plans
    <3>2. plans = <<[id |-> 1, scope |-> 1, version |-> 9, status |-> "APPROVED"]>>
      BY <1>0, Zenon DEF StartedTeam
    <3> QED  BY <3>1, <3>2
  <2>7. shortlists \subseteq 1..Len(scopes)  BY <1>3, <2>1
  <2> QED  BY <1>6, <1>7, <2>4, <2>5, <2>6, <2>7 DEF StaffingTypeOK, In
<1>9. DeliveryRowTypes  BY DEF DeliveryStart, DeliveryInit, DeliveryRowTypes
<1>10. \A r \in Requests : DeliveryCall(req[r])  BY <1>6 DEF DeliveryCall
<1> QED  BY <1>8, <1>9, <1>10, DeliveryTypesAre

\* Every variable stays in its set: deliverables, reviews and scope-change requests may be
\* inserted before later ones, and every request in flight holds what its handler read.
THEOREM DeliveryTypes == DeliverySpec => []DeliveryTypeOK
  BY InitDeliveryTypes, DeliveryTypesStep, PTL DEF DeliverySpec

----------------------------------------------------------------------------
(* The release. *)

\* The rows are numbered by their own ids, whatever order created_at puts them in.
Numbered(rows) ==
  \A m \in 1..Len(rows) :
    /\ rows[m].id \in 1..Len(rows)
    /\ \A n \in 1..Len(rows) : rows[n].id = rows[m].id => n = m

\* A deliverable with this id and this artifact was handed in.
HandedIn(id, artifact) == \E d \in Range(deliverables) : d.id = id /\ d.artifact = artifact

\* A QA run in flight holds a deliverable whose scan has ended.
RunsOnDeliverables ==
  \A r \in Requests : In(r, "qa") =>
    req[r].artifact # "unscanned" /\ HandedIn(req[r].of, req[r].artifact)

\* A review that passed is of a sound deliverable.
PassedIsSound ==
  \A review \in Range(reviews) : review.verdict = "PASS" => HandedIn(review.of, "sound")

\* A lead reviews a deliverable of somebody else that passed.
LeadsAreIndependent ==
  \A review \in leadReviews :
    /\ [of |-> review.of, verdict |-> "PASS"] \in Range(reviews)
    /\ \E d \in Range(deliverables) : d.id = review.of /\ d.by # review.by

\* The review that passed is still there.
ReleaseWasChecked ==
  state \in WithClient => \E review \in Range(reviews) : review.verdict = "PASS"

EvidenceInv ==
  /\ DeliveryTypeOK
  /\ Numbered(deliverables)
  /\ RunsOnDeliverables /\ PassedIsSound /\ LeadsAreIndependent /\ ReleaseWasChecked

\* A new row takes the next number and any place.
LEMMA InsertKeepsNumbered ==
  ASSUME NEW S, NEW s \in Seq(S), NEW i \in 1..Len(s) + 1, NEW e \in S
  PROVE  Numbered(s) /\ e.id = Len(s) + 1 => Numbered(InsertAt(s, i, e))
<1> DEFINE t == InsertAt(s, i, e)
<1>0. /\ t \in Seq(S) /\ Len(t) = Len(s) + 1
      /\ \A j \in 1..Len(s) + 1 :
           t[j] = IF j < i THEN s[j] ELSE IF j = i THEN e ELSE s[j - 1]
  <2>1. t \in Seq(S) /\ Len(t) = Len(s) + 1 /\ Inserted(t, s, i, e)
    BY InsertAtProperties
  <2> QED  BY <2>1 DEF Inserted
<1> HIDE DEF t
<1> SUFFICES ASSUME Numbered(s), e.id = Len(s) + 1 PROVE Numbered(t)
  BY DEF t
<1> DEFINE N == Len(s)
<1>1. /\ Len(t) = N + 1
      /\ \A j \in 1..N + 1 : t[j] = IF j < i THEN s[j] ELSE IF j = i THEN e ELSE s[j - 1]
  BY <1>0
<1>2. N \in Nat /\ i \in 1..N + 1  OBVIOUS
<1>3. \A m \in 1..N : s[m].id \in 1..N /\ \A n \in 1..N : s[n].id = s[m].id => n = m
  BY DEF Numbered
<1> HIDE DEF N
<1> DEFINE old(j) == IF j < i THEN j ELSE j - 1
<1>4. ASSUME NEW j \in 1..N + 1, j # i
      PROVE  old(j) \in 1..N /\ t[j] = s[old(j)] /\ t[j].id \in 1..N
  <2>1. CASE j < i
    <3>1. j \in 1..N /\ old(j) = j /\ t[j] = s[j]  BY <1>1, <1>2, <2>1
    <3> QED  BY <1>3, <3>1
  <2>2. CASE j > i
    <3>1. j - 1 \in 1..N /\ old(j) = j - 1 /\ t[j] = s[j - 1]  BY <1>1, <1>2, <2>2
    <3> QED  BY <1>3, <3>1
  <2> QED  BY <1>2, <1>4, <2>1, <2>2
<1>5. t[i] = e /\ e.id = N + 1  BY <1>1, <1>2 DEF N
<1>6. ASSUME NEW m \in 1..N + 1, NEW n \in 1..N + 1, t[n].id = t[m].id PROVE n = m
  <2>1. CASE m = i  BY <1>2, <1>4, <1>5, <1>6, <2>1
  <2>2. CASE n = i  BY <1>2, <1>4, <1>5, <1>6, <2>2
  <2>3. CASE m # i /\ n # i
    <3>1. old(m) \in 1..N /\ old(n) \in 1..N /\ s[old(n)].id = s[old(m)].id
      BY <1>4, <1>6, <2>3
    <3>2. old(n) = old(m)  BY <1>3, <3>1
    <3> QED  BY <1>2, <2>3, <3>2
  <2> QED  BY <2>1, <2>2, <2>3
<1>7. \A m \in 1..N + 1 : t[m].id \in 1..N + 1
  BY <1>2, <1>4, <1>5
<1> QED  BY <1>1, <1>2, <1>6, <1>7 DEF Numbered, t

\* The initial states.
LEMMA InitEvidence == DeliveryStart => EvidenceInv
<1> SUFFICES ASSUME DeliveryStart PROVE EvidenceInv  OBVIOUS
<1>1. /\ state = "ACTIVE" /\ deliverables = <<>> /\ reviews = <<>> /\ leadReviews = {}
  BY DEF DeliveryStart, StartedRecord, DeliveryInit
<1>2. Range(reviews) = {}  BY <1>1 DEF Range
<1>3. \A r \in Requests : ~In(r, "qa")
  <2>1. PICK base \in Bases : req \in [Requests -> LateRequests(base)]  BY DEF DeliveryStart
  <2> QED  BY <2>1 DEF LateRequests, In, Idle
<1> QED
  BY <1>1, <1>2, <1>3, InitDeliveryTypes
     DEF EvidenceInv, Numbered, RunsOnDeliverables, PassedIsSound, LeadsAreIndependent,
         ReleaseWasChecked, WithClient

\* A step in which rows are only added, and no QA run, lead review or transition happens.
LEMMA EvidenceGrows ==
  ASSUME EvidenceInv, DeliveryTypeOK', Numbered(deliverables)',
         Range(deliverables) \subseteq Range(deliverables'), UNCHANGED <<reviews, leadReviews>>,
         UNCHANGED state,
         \A r \in Requests : In(r, "qa")' => In(r, "qa") /\ req'[r] = req[r]
  PROVE  EvidenceInv'
<1>1. \A id, artifact : HandedIn(id, artifact) => HandedIn(id, artifact)'
  BY DEF HandedIn
<1>2. RunsOnDeliverables'  BY <1>1 DEF EvidenceInv, RunsOnDeliverables
<1>3. PassedIsSound'  BY <1>1 DEF EvidenceInv, PassedIsSound
<1>4. LeadsAreIndependent'  BY DEF EvidenceInv, LeadsAreIndependent
<1>5. ReleaseWasChecked'  BY DEF EvidenceInv, ReleaseWasChecked
<1> QED  BY <1>2, <1>3, <1>4, <1>5 DEF EvidenceInv

\* create_deliverable.
LEMMA DeliverablesAddEvidence ==
  ASSUME EvidenceInv, DeliveryTypeOK', DeliverableRequests PROVE EvidenceInv'
<1>0. /\ req = [q \in Requests |-> req[q]] /\ deliverables \in Seq(Deliverables)
      /\ Len(deliverables) \in Nat
  BY DEF EvidenceInv, DeliveryTypeOK, StaffingTypeOK, ScopingTypeOK, RecordTypeOK
<1>1. ASSUME NEW r \in Requests, NEW user \in Team, StartDeliverable(r, user)
      PROVE  EvidenceInv'
  <2>1. /\ req' = [req EXCEPT ![r] = [op |-> "deliver", by |-> user,
                                      after |-> Len(deliverables)]]
        /\ UNCHANGED <<deliverables, reviews, leadReviews, state>>
    BY <1>1 DEF StartDeliverable, Hold, deliveryRows, record
  <2>2. \A q \in Requests : In(q, "qa")' => In(q, "qa") /\ req'[q] = req[q]
    BY <1>0, <2>1 DEF In
  <2> QED  BY <2>1, <2>2, EvidenceGrows DEF EvidenceInv
<1>2. ASSUME NEW r \in Requests, NEW artifact \in Artifacts,
             NEW place \in 1..Len(deliverables) + 1, CommitDeliverable(r, artifact, place)
      PROVE  EvidenceInv'
  <2>1. req[r].by \in Team
    BY <1>2 DEF CommitDeliverable, EvidenceInv, DeliveryTypeOK, DeliverableCalls
  <2>2. PICK row \in Deliverables :
          row.id = Len(deliverables) + 1 /\ deliverables' = InsertAt(deliverables, place, row)
    <3>1. [id |-> Len(deliverables) + 1, by |-> req[r].by, artifact |-> artifact]
            \in Deliverables
      BY <1>0, <2>1 DEF Deliverables
    <3> QED  BY <1>2, <3>1 DEF CommitDeliverable
  <2>3. Numbered(deliverables)'  BY <1>0, <2>2, InsertKeepsNumbered DEF EvidenceInv, Numbered
  <2>4. Range(deliverables) \subseteq Range(deliverables')  BY <1>0, <2>2, InsertAtAddsRow
  <2>5. /\ req' = [req EXCEPT ![r] = Idle]
        /\ UNCHANGED <<reviews, leadReviews, state>>
    BY <1>2 DEF CommitDeliverable, Release, record
  <2>6. \A q \in Requests : In(q, "qa")' => In(q, "qa") /\ req'[q] = req[q]
    BY <1>0, <2>5 DEF In, Idle
  <2> QED  BY <2>3, <2>4, <2>5, <2>6, EvidenceGrows
<1> QED  BY <1>1, <1>2 DEF DeliverableRequests

\* run_qa_agent and create_lead_review.
LEMMA ReviewsAddEvidence ==
  ASSUME EvidenceInv, DeliveryTypeOK', ReviewRequests PROVE EvidenceInv'
<1>0. /\ req = [q \in Requests |-> req[q]] /\ deliverables \in Seq(Deliverables)
      /\ reviews \in Seq(Reviews) /\ Len(reviews) \in Nat
      /\ DOMAIN deliverables = 1..Len(deliverables) /\ DOMAIN reviews = 1..Len(reviews)
      /\ \A n \in 1..Len(deliverables) : deliverables[n] \in Deliverables
  <2>1. /\ req = [q \in Requests |-> req[q]] /\ deliverables \in Seq(Deliverables)
        /\ reviews \in Seq(Reviews)
    BY DEF EvidenceInv, DeliveryTypeOK, StaffingTypeOK, ScopingTypeOK, RecordTypeOK
  <2> QED  BY <2>1
<1>1. ASSUME NEW r \in Requests, NEW n \in 1..Len(deliverables), StartQA(r, n)
      PROVE  EvidenceInv'
  <2>1. PICK read : read = [op |-> "qa", of |-> deliverables[n].id,
                            artifact |-> deliverables[n].artifact, after |-> Len(reviews)]
    OBVIOUS
  <2>2. /\ req' = [req EXCEPT ![r] = read] /\ read.artifact # "unscanned"
        /\ UNCHANGED <<deliverables, reviews, leadReviews, state>>
    BY <1>1, <2>1 DEF StartQA, Hold, deliveryRows, record
  <2>3. HandedIn(read.of, read.artifact)  BY <1>0, <2>1 DEF HandedIn, Range
  <2>4. \A id, artifact : HandedIn(id, artifact)' <=> HandedIn(id, artifact)
    BY <2>2 DEF HandedIn
  <2>5. RunsOnDeliverables'
    <3> SUFFICES ASSUME NEW q \in Requests, In(q, "qa")'
                 PROVE  req'[q].artifact # "unscanned" /\ HandedIn(req'[q].of, req'[q].artifact)
      BY <2>4 DEF RunsOnDeliverables
    <3>1. CASE q = r  BY <1>0, <2>2, <2>3, <3>1
    <3>2. CASE q # r  BY <1>0, <2>2, <3>2 DEF EvidenceInv, RunsOnDeliverables, In
    <3> QED  BY <3>1, <3>2
  <2>6. Numbered(deliverables)' /\ PassedIsSound' /\ LeadsAreIndependent' /\ ReleaseWasChecked'
    BY <2>2, <2>4 DEF EvidenceInv, Numbered, PassedIsSound, LeadsAreIndependent, ReleaseWasChecked
  <2> QED  BY <2>5, <2>6 DEF EvidenceInv
<1>2. ASSUME NEW r \in Requests, NEW verdict \in Verdicts, NEW place \in 1..Len(reviews) + 1,
             CommitQA(r, verdict, place)
      PROVE  EvidenceInv'
  <2>1. /\ In(r, "qa") /\ req[r] \in QACalls /\ req[r].of \in Nat
    BY <1>2 DEF CommitQA, EvidenceInv, DeliveryTypeOK, QACalls
  <2>2. PICK row \in Reviews :
          /\ row.of = req[r].of /\ row.verdict = verdict
          /\ reviews' = InsertAt(reviews, place, row)
    <3>1. [of |-> req[r].of, verdict |-> verdict] \in Reviews  BY <2>1 DEF Reviews
    <3> QED  BY <1>2, <3>1 DEF CommitQA
  <2>3. Range(reviews') = Range(reviews) \cup {row}  BY <1>0, <2>2, InsertAtAddsRow
  <2>4. /\ req' = [req EXCEPT ![r] = Idle]
        /\ UNCHANGED <<deliverables, leadReviews, state>>
    BY <1>2 DEF CommitQA, Release, record
  <2>5. \A q \in Requests : In(q, "qa")' => In(q, "qa") /\ req'[q] = req[q]
    BY <1>0, <2>4 DEF In, Idle
  <2>6. \A id, artifact : HandedIn(id, artifact)' <=> HandedIn(id, artifact)
    BY <2>4 DEF HandedIn
  <2>7. row.verdict = "PASS" => HandedIn(row.of, "sound")
    <3>1. /\ req[r].artifact \in Artifacts /\ req[r].artifact # "unscanned"
          /\ HandedIn(req[r].of, req[r].artifact)
      BY <2>1 DEF EvidenceInv, RunsOnDeliverables, QACalls
    <3>2. req[r].artifact = "incomplete" => verdict = "CHANGES_REQUIRED"
      BY <1>2 DEF CommitQA
    <3> QED  BY <2>2, <3>1, <3>2 DEF Artifacts
  <2>8. RunsOnDeliverables'  BY <2>5, <2>6 DEF EvidenceInv, RunsOnDeliverables
  <2>9. PassedIsSound'  BY <2>3, <2>6, <2>7 DEF EvidenceInv, PassedIsSound
  <2>10. LeadsAreIndependent'  BY <2>3, <2>4 DEF EvidenceInv, LeadsAreIndependent
  <2>11. ReleaseWasChecked'  BY <2>3, <2>4 DEF EvidenceInv, ReleaseWasChecked
  <2>12. Numbered(deliverables)'  BY <2>4 DEF EvidenceInv, Numbered
  <2> QED  BY <2>8, <2>9, <2>10, <2>11, <2>12 DEF EvidenceInv
<1>3. ASSUME NEW user \in Team, NEW n \in 1..Len(deliverables),
             NEW verdict \in {"RELEASE", "CHANGES_REQUIRED"}, ReviewAsLead(user, n, verdict)
      PROVE  EvidenceInv'
  <2>1. PICK row : row = [of |-> deliverables[n].id, by |-> user, verdict |-> verdict]
    OBVIOUS
  <2>2. /\ leadReviews' = leadReviews \cup {row}
        /\ UNCHANGED <<req, deliverables, reviews, state>>
        /\ deliverables[n].by # user /\ Passed(deliverables[n].id)
    BY <1>3, <2>1 DEF ReviewAsLead, Independent, record
  <2>3. /\ [of |-> row.of, verdict |-> "PASS"] \in Range(reviews)
        /\ \E d \in Range(deliverables) : d.id = row.of /\ d.by # row.by
    BY <1>0, <2>1, <2>2 DEF Passed, Range
  <2>4. \A id, artifact : HandedIn(id, artifact)' <=> HandedIn(id, artifact)
    BY <2>2 DEF HandedIn
  <2>5. RunsOnDeliverables' /\ PassedIsSound' /\ Numbered(deliverables)'
    BY <2>2, <2>4 DEF EvidenceInv, RunsOnDeliverables, PassedIsSound, Numbered, In
  <2>6. LeadsAreIndependent'  BY <2>2, <2>3 DEF EvidenceInv, LeadsAreIndependent
  <2>7. ReleaseWasChecked'  BY <2>2 DEF EvidenceInv, ReleaseWasChecked
  <2> QED  BY <2>5, <2>6, <2>7 DEF EvidenceInv
<1> QED  BY <1>1, <1>2, <1>3 DEF ReviewRequests

\* transition_project: the one way to the client is the release check.
LEMMA TransitionsKeepEvidence ==
  ASSUME EvidenceInv, DeliveryTypeOK', DeliveryTransitions PROVE EvidenceInv'
<1>1. PICK role \in Roles, to \in States :
        /\ Move(role, to)
        /\ UNCHANGED <<deliverables, reviews, leadReviews>>
        /\ to = "AWAITING_RELEASE_APPROVAL" => PassQA(role)
  BY DeliveryTransitionIs DEF EvidenceInv
<1>2. state' = to /\ req' = req  BY <1>1 DEF Move
<1>3. to \in WithClient \ {"AWAITING_RELEASE_APPROVAL"} => state \in WithClient
  BY <1>1 DEF Move, Allowed, RULES, Forward, Exits, Edge, WithClient
<1>4. \A id, artifact : HandedIn(id, artifact)' <=> HandedIn(id, artifact)
  BY <1>1 DEF HandedIn
<1>5. RunsOnDeliverables' /\ PassedIsSound' /\ Numbered(deliverables)' /\ LeadsAreIndependent'
  BY <1>1, <1>2, <1>4
     DEF EvidenceInv, RunsOnDeliverables, PassedIsSound, Numbered, In, LeadsAreIndependent
<1>6. ReleaseWasChecked'
  <2>1. CASE to = "AWAITING_RELEASE_APPROVAL"
    <3>1. /\ reviews \in Seq(Reviews) /\ reviews # <<>> /\ Last(reviews).verdict = "PASS"
      BY <1>1, <2>1 DEF PassQA, EvidenceInv, DeliveryTypeOK
    <3>2. Len(reviews) \in DOMAIN reviews /\ reviews[Len(reviews)].verdict = "PASS"
      BY <3>1 DEF Last
    <3>3. \E review \in Range(reviews) : review.verdict = "PASS"
      BY <3>2 DEF Range
    <3> QED  BY <1>1, <1>2, <3>1, <3>3 DEF ReleaseWasChecked
  <2>2. CASE to # "AWAITING_RELEASE_APPROVAL"
    BY <1>1, <1>2, <1>3, <2>2 DEF EvidenceInv, ReleaseWasChecked
  <2> QED  BY <2>1, <2>2
<1> QED  BY <1>5, <1>6 DEF EvidenceInv

\* Every step keeps the evidence of a release.
LEMMA StepKeepsEvidence ==
  ASSUME EvidenceInv, [DeliveryNext]_deliveryVars PROVE EvidenceInv'
<1>0. DeliveryTypeOK' /\ req = [q \in Requests |-> req[q]]
  BY DeliveryTypesStep
     DEF EvidenceInv, DeliveryTypeOK, StaffingTypeOK, ScopingTypeOK, RecordTypeOK
<1> DEFINE Other(r) == \E read : Hold(r, read) /\ read.op # "qa"
<1>1. (\E r \in Requests : Other(r))
         => \A q \in Requests : In(q, "qa")' => In(q, "qa") /\ req'[q] = req[q]
  BY <1>0 DEF Hold, In
<1>2. ASSUME NEW r \in Requests, Release(r) PROVE Other(r)
  <2>1. Hold(r, Idle) /\ Idle.op # "qa"  BY <1>2 DEF Release, Hold, Idle
  <2> QED  BY <2>1
<1>3. ASSUME UNCHANGED <<deliverables, reviews, leadReviews, state>>,
             UNCHANGED req \/ \E r \in Requests : Other(r)
      PROVE  EvidenceInv'
  <2>1. \A q \in Requests : In(q, "qa")' => In(q, "qa") /\ req'[q] = req[q]
    BY <1>1, <1>3 DEF In
  <2>2. Numbered(deliverables)'  BY <1>3 DEF EvidenceInv, Numbered
  <2> QED  BY <1>0, <1>3, <2>1, <2>2, EvidenceGrows
<1>4. CASE ChangeRequests
  <2>1. UNCHANGED <<deliverables, reviews, leadReviews, state>>
    BY <1>4 DEF ChangeRequests, BeginScopeChange, CommitScopeChange, CreateChangeOrder,
                DecideChangeOrder, record, deliveryRows
  <2>2. ASSUME NEW r \in Requests, BeginScopeChange(r) PROVE Other(r)
    BY <2>2 DEF BeginScopeChange
  <2>3. UNCHANGED req \/ \E r \in Requests : Other(r)
    <3> HIDE DEF Other
    <3> QED
      BY <1>2, <1>4, <2>2
         DEF ChangeRequests, CommitScopeChange, CreateChangeOrder, DecideChangeOrder
  <2> HIDE DEF Other
  <2> QED  BY <1>3, <2>1, <2>3
<1>5. CASE LateTerms
  <2>1. UNCHANGED <<deliverables, reviews, leadReviews, state>>
    BY <1>5, LateTermsIs DEF EvidenceInv, deliveryRows
  <2>2. \E r \in Requests : Other(r)  BY <1>5, LateTermsIs DEF EvidenceInv
  <2> HIDE DEF Other
  <2> QED  BY <1>3, <2>1, <2>2
<1>6. CASE UNCHANGED deliveryVars \/ \E r \in Requests : AbandonInDelivery(r)
  <2>1. UNCHANGED <<deliverables, reviews, leadReviews, state>>
    BY <1>6 DEF deliveryVars, staffingVars, scopingVars, record, deliveryRows,
                AbandonInDelivery, Abandon
  <2>2. UNCHANGED req \/ \E r \in Requests : Other(r)
    <3> HIDE DEF Other
    <3> QED
      BY <1>2, <1>6 DEF deliveryVars, staffingVars, scopingVars, AbandonInDelivery, Abandon
  <2> HIDE DEF Other
  <2> QED  BY <1>3, <2>1, <2>2
<1> QED
  BY <1>0, <1>4, <1>5, <1>6, DeliverablesAddEvidence, ReviewsAddEvidence,
     TransitionsKeepEvidence DEF DeliveryNext

\* With the client there is a sound deliverable that passed.
LEMMA EvidenceIsSound ==
  ASSUME EvidenceInv, state \in WithClient PROVE SoundPassed
<1>1. /\ deliverables \in Seq(Deliverables) /\ DOMAIN deliverables = 1..Len(deliverables)
      /\ reviews \in Seq(Reviews) /\ DOMAIN reviews = 1..Len(reviews)
      /\ \A n \in 1..Len(reviews) : reviews[n] \in Reviews
  BY DEF EvidenceInv, DeliveryTypeOK
<1>2. \A id : [of |-> id, verdict |-> "PASS"] \in Range(reviews) => Passed(id)
  BY <1>1 DEF Range, Passed
<1>3. PICK review \in Range(reviews) : review.verdict = "PASS"
  BY DEF EvidenceInv, ReleaseWasChecked
<1>4. review = [of |-> review.of, verdict |-> "PASS"]
  <2>1. review \in Reviews  BY <1>1, <1>3 DEF Range
  <2> QED  BY <1>3, <2>1 DEF Reviews
<1>5. PICK d \in Range(deliverables) : d.id = review.of /\ d.artifact = "sound"
  BY <1>3 DEF EvidenceInv, PassedIsSound, HandedIn
<1> QED  BY <1>1, <1>2, <1>3, <1>4, <1>5 DEF SoundPassed, Range

\* The release of an independent lead, by the rows it rests on.
Released(lead) ==
  /\ lead.verdict = "RELEASE"
  /\ [of |-> lead.of, verdict |-> "PASS"] \in Range(reviews)
  /\ \E d \in Range(deliverables) : d.id = lead.of /\ d.by # lead.by

LEMMA LeadReleasedIs ==
  ASSUME deliverables \in Seq(Deliverables), reviews \in Seq(Reviews)
  PROVE  LeadReleased <=> \E lead \in leadReviews : Released(lead)
<1>1. DOMAIN deliverables = 1..Len(deliverables) /\ DOMAIN reviews = 1..Len(reviews)
  OBVIOUS
<1>2. \A id : Passed(id) <=> [of |-> id, verdict |-> "PASS"] \in Range(reviews)
  BY <1>1 DEF Range, Passed
<1> QED  BY <1>1, <1>2 DEF LeadReleased, Released, Range

\* Deliverables, QA reviews and lead reviews are only added.
LEMMA EvidenceRowsGrow ==
  ASSUME DeliveryTypeOK, [DeliveryNext]_deliveryVars
  PROVE  /\ Range(deliverables) \subseteq Range(deliverables')
         /\ Range(reviews) \subseteq Range(reviews')
         /\ leadReviews \subseteq leadReviews'
<1>0. deliverables \in Seq(Deliverables) /\ reviews \in Seq(Reviews) /\ DeliveryTypeOK'
  BY DeliveryTypesStep DEF DeliveryTypeOK
<1>1. CASE DeliverableRequests
  <2>1. UNCHANGED <<reviews, leadReviews>>
    BY <1>1 DEF DeliverableRequests, StartDeliverable, CommitDeliverable, deliveryRows
  <2>2. ASSUME NEW r \in Requests, NEW user \in Team, StartDeliverable(r, user)
        PROVE  deliverables' = deliverables
    BY <2>2 DEF StartDeliverable, deliveryRows
  <2>3. ASSUME NEW r \in Requests, NEW artifact \in Artifacts,
               NEW place \in 1..Len(deliverables) + 1, CommitDeliverable(r, artifact, place)
        PROVE  Range(deliverables) \subseteq Range(deliverables')
    <3>1. req[r].by \in Team
      BY <2>3 DEF CommitDeliverable, DeliveryTypeOK, DeliverableCalls
    <3>2. PICK row \in Deliverables : deliverables' = InsertAt(deliverables, place, row)
      <4>1. [id |-> Len(deliverables) + 1, by |-> req[r].by, artifact |-> artifact]
              \in Deliverables
        BY <1>0, <3>1 DEF Deliverables
      <4> QED  BY <2>3, <4>1 DEF CommitDeliverable
    <3> QED  BY <1>0, <3>2, InsertAtAddsRow
  <2> QED  BY <1>1, <2>1, <2>2, <2>3 DEF DeliverableRequests
<1>2. CASE ReviewRequests
  <2>1. ASSUME NEW r \in Requests, NEW n \in 1..Len(deliverables), StartQA(r, n)
        PROVE  UNCHANGED <<deliverables, reviews, leadReviews>>
    BY <2>1 DEF StartQA, deliveryRows
  <2>2. ASSUME NEW r \in Requests, NEW verdict \in Verdicts, NEW place \in 1..Len(reviews) + 1,
               CommitQA(r, verdict, place)
        PROVE  /\ UNCHANGED <<deliverables, leadReviews>>
               /\ Range(reviews) \subseteq Range(reviews')
    <3>1. req[r].of \in Nat  BY <2>2 DEF CommitQA, DeliveryTypeOK, QACalls
    <3>2. PICK row \in Reviews : reviews' = InsertAt(reviews, place, row)
      <4>1. [of |-> req[r].of, verdict |-> verdict] \in Reviews  BY <3>1 DEF Reviews
      <4> QED  BY <2>2, <4>1 DEF CommitQA
    <3> QED  BY <1>0, <2>2, <3>2, InsertAtAddsRow DEF CommitQA
  <2>3. ASSUME NEW user \in Team, NEW n \in 1..Len(deliverables),
               NEW verdict \in {"RELEASE", "CHANGES_REQUIRED"}, ReviewAsLead(user, n, verdict)
        PROVE  UNCHANGED <<deliverables, reviews>> /\ leadReviews \subseteq leadReviews'
    BY <2>3 DEF ReviewAsLead
  <2> QED  BY <1>2, <2>1, <2>2, <2>3 DEF ReviewRequests
<1>3. CASE DeliveryTransitions
  BY <1>0, <1>3, DeliveryTransitionIs
<1>4. CASE ChangeRequests
  BY <1>4 DEF ChangeRequests, BeginScopeChange, CommitScopeChange, CreateChangeOrder,
              DecideChangeOrder, deliveryRows
<1>5. CASE LateTerms \/ UNCHANGED deliveryVars \/ \E r \in Requests : AbandonInDelivery(r)
  BY <1>5 DEF LateTerms, AbandonInDelivery, deliveryVars, deliveryRows
<1> QED  BY <1>1, <1>2, <1>3, <1>4, <1>5 DEF DeliveryNext

\* The project reaches the client by the release check alone.
LEMMA ReleaseIsChecked ==
  ASSUME DeliveryTypeOK, [DeliveryNext]_deliveryVars,
         state \notin WithClient, state' \in WithClient
  PROVE  /\ UNCHANGED <<complexity, deliverables, reviews, leadReviews>>
         /\ complexity # "LOW" => \E lead \in leadReviews : lead.verdict = "RELEASE"
<1>1. ASSUME ~DeliveryTransitions PROVE state' = state
  <2>1. CASE DeliverableRequests \/ ReviewRequests \/ ChangeRequests
    BY <2>1 DEF DeliverableRequests, StartDeliverable, CommitDeliverable, ReviewRequests,
                StartQA, CommitQA, ReviewAsLead, ChangeRequests, BeginScopeChange,
                CommitScopeChange, CreateChangeOrder, DecideChangeOrder, record
  <2>2. CASE LateTerms  BY <2>2, LateTermsIs
  <2>3. CASE UNCHANGED deliveryVars \/ \E r \in Requests : AbandonInDelivery(r)
    BY <2>3 DEF deliveryVars, staffingVars, scopingVars, record, AbandonInDelivery, Abandon
  <2> QED  BY <1>1, <2>1, <2>2, <2>3 DEF DeliveryNext
<1>2. PICK role \in Roles, to \in States :
        /\ Move(role, to)
        /\ UNCHANGED <<deliverables, reviews, leadReviews>>
        /\ to = "AWAITING_RELEASE_APPROVAL" => PassQA(role)
  BY <1>1, DeliveryTransitionIs
<1>3. state' = to /\ UNCHANGED complexity /\ Allowed(role, state, to)  BY <1>2 DEF Move
<1>4. to = "AWAITING_RELEASE_APPROVAL"
  BY <1>3 DEF Allowed, RULES, Forward, Exits, Edge, WithClient
<1> QED  BY <1>2, <1>3, <1>4 DEF PassQA

\* No step releases without a lead where one is asked for, and none takes a release back.
LEMMA StepReleases ==
  ASSUME EvidenceInv, [DeliveryNext]_deliveryVars PROVE ReleaseStep
<1>1. /\ deliverables \in Seq(Deliverables) /\ reviews \in Seq(Reviews)
      /\ deliverables' \in Seq(Deliverables) /\ reviews' \in Seq(Reviews)
  BY DeliveryTypesStep DEF EvidenceInv, DeliveryTypeOK
<1>2. LeadReleased <=> \E lead \in leadReviews : Released(lead)  BY <1>1, LeadReleasedIs
<1>3. (\E lead \in leadReviews' : Released(lead)') => LeadReleased'
  <2>1. DOMAIN deliverables' = 1..Len(deliverables') /\ DOMAIN reviews' = 1..Len(reviews')
    BY <1>1
  <2>2. \A id : [of |-> id, verdict |-> "PASS"] \in Range(reviews') => Passed(id)'
    BY <2>1 DEF Range, Passed
  <2> QED  BY <2>1, <2>2 DEF LeadReleased, Released, Range
<1>4. LeadReleased => LeadReleased'
  BY <1>2, <1>3, EvidenceRowsGrow DEF EvidenceInv, Released
<1>5. ASSUME state \notin WithClient, state' \in WithClient, complexity' # "LOW"
      PROVE  LeadReleased
  <2>1. PICK lead \in leadReviews : lead.verdict = "RELEASE"
    BY <1>5, ReleaseIsChecked DEF EvidenceInv
  <2>2. Released(lead)  BY <2>1 DEF Released, EvidenceInv, LeadsAreIndependent
  <2> QED  BY <1>2, <2>2
<1> QED  BY <1>4, <1>5 DEF ReleaseStep

\* Nothing reaches the client without evidence, although create_deliverable and
\* run_qa_agent commit what they read earlier and a late scope run rewrites the complexity:
\* some sound deliverable passed QA, a lead who is not its author released one that passed
\* where the project asks for it when it is released, and no later row takes that back.
THEOREM ReleaseHasEvidence == DeliverySpec => ReleasedOnEvidence
<1>1. EvidenceInv => (state \in WithClient => SoundPassed)  BY EvidenceIsSound
<1>2. EvidenceInv /\ [DeliveryNext]_deliveryVars => [ReleaseStep]_deliveryVars
  BY StepReleases
<1>3. EvidenceInv /\ [DeliveryNext]_deliveryVars => EvidenceInv'  BY StepKeepsEvidence
<1> QED  BY <1>1, <1>2, <1>3, InitEvidence, PTL DEF DeliverySpec, ReleasedOnEvidence

----------------------------------------------------------------------------
(* Change orders. *)

\* What an order answers.
AnswersRequest(order) ==
  \E change \in Range(changes) : change.id = order.change /\ change.class = "new_scope"

\* What is on record of the decision of an order.
Decided(n) ==
  {a.decision : a \in {b \in approvals : b.subject = "change_order" /\ b.ref = n}}

OrdersInv ==
  /\ DeliveryTypeOK
  /\ \A n \in 1..Len(orders) : AnswersRequest(orders[n])
  /\ \A m, n \in 1..Len(orders) : orders[m].change = orders[n].change => m = n
  /\ \A n \in 1..Len(orders) : Decided(n) = {orders[n].state} \ {"DRAFT"}
  /\ \A a \in approvals : a.subject = "change_order" => a.ref \in 1..Len(orders)
  /\ state = "CHANGE_ORDER_REVIEW" =>
       orders # <<>> /\ Last(orders).change = Last(changes).id

\* The initial states.
LEMMA InitOrders == DeliveryStart => OrdersInv
<1> SUFFICES ASSUME DeliveryStart PROVE OrdersInv  OBVIOUS
<1>1. orders = <<>> /\ state = "ACTIVE"
  BY DEF DeliveryStart, DeliveryInit, StartedRecord
<1>2. 1..Len(orders) = {}  BY <1>1
<1>3. \A a \in approvals : a.subject # "change_order"
  BY DEF DeliveryStart, StartedRecord
<1> QED  BY <1>1, <1>2, <1>3, InitDeliveryTypes DEF OrdersInv

\* A step that leaves the orders, the scope-change requests and their decisions alone,
\* and starts no review of an order.
LEMMA OrdersKept ==
  ASSUME OrdersInv, DeliveryTypeOK', UNCHANGED <<orders, changes>>,
         \A a : a.subject = "change_order" => (a \in approvals' <=> a \in approvals),
         state' = "CHANGE_ORDER_REVIEW" => state = "CHANGE_ORDER_REVIEW"
  PROVE  OrdersInv'
<1>1. \A n : Decided(n)' = Decided(n)  BY DEF Decided
<1>2. \A order : AnswersRequest(order)' <=> AnswersRequest(order)  BY DEF AnswersRequest
<1> QED  BY <1>1, <1>2 DEF OrdersInv

\* request_scope_change: the row of an earlier request keeps its answer.
LEMMA ScopeChangeKeepsOrders ==
  ASSUME OrdersInv, DeliveryTypeOK', NEW r \in Requests, NEW defect \in BOOLEAN,
         NEW material \in BOOLEAN, NEW place \in 1..Len(changes) + 1,
         CommitScopeChange(r, defect, material, place)
  PROVE  OrdersInv'
<1>0. changes \in Seq(Changes) /\ deliverables \in Seq(Deliverables) /\ Len(changes) \in Nat
  BY DEF OrdersInv, DeliveryTypeOK
<1>1. /\ state = "CLIENT_REVIEW" /\ UNCHANGED <<state, approvals, orders>>
  BY DEF CommitScopeChange, record
<1>2. PICK change \in Changes : changes' = InsertAt(changes, place, change)
  <2>1. deliverables # <<>>  BY DEF CommitScopeChange
  <2>2. deliverables[Len(deliverables)] \in Deliverables  BY <1>0, <2>1
  <2>3. Last(deliverables).id \in Nat  BY <2>2 DEF Last, Deliverables
  <2>4. Class(defect, material, RemainingRounds) \in Classes  BY DEF Class, Classes
  <2>5. [id |-> Len(changes) + 1, class |-> Class(defect, material, RemainingRounds),
         deliverable |-> Last(deliverables).id] \in Changes
    BY <1>0, <2>3, <2>4 DEF Changes
  <2> QED  BY <2>5 DEF CommitScopeChange
<1>3. Range(changes) \subseteq Range(changes')  BY <1>0, <1>2, InsertAtAddsRow
<1>4. \A n \in 1..Len(orders) : AnswersRequest(orders[n])'
  BY <1>1, <1>3 DEF OrdersInv, AnswersRequest
<1>5. \A n : Decided(n)' = Decided(n)  BY <1>1 DEF Decided
<1> QED  BY <1>1, <1>4, <1>5 DEF OrdersInv

\* create_change_order: a request without an answer gets one.
LEMMA CreateKeepsOrders ==
  ASSUME OrdersInv, DeliveryTypeOK', NEW n \in 1..Len(changes), NEW amount \in Added,
         NEW recipient \in Team, CreateChangeOrder(n, amount, recipient)
  PROVE  OrdersInv'
<1>0. /\ orders \in Seq(Orders) /\ Len(orders) \in Nat
      /\ changes \in Seq(Changes) /\ changes[n] \in Changes /\ DOMAIN changes = 1..Len(changes)
  BY DEF OrdersInv, DeliveryTypeOK
<1>1. PICK order : order =
        [change |-> changes[n].id, amount |-> amount,
         shares |-> [u \in Team |-> IF u = recipient THEN amount ELSE 0], state |-> "DRAFT"]
  OBVIOUS
<1>2. /\ order.change = changes[n].id /\ order.state = "DRAFT" /\ order \in Orders
  <2>1. amount \in Nat /\ changes[n].id \in Nat
    BY <1>0, DeliveryAssumption DEF DeliveryAssumption, Changes
  <2> QED  BY <1>1, <2>1 DEF Orders
<1>3. /\ orders' = Append(orders, order) /\ UNCHANGED <<state, approvals, changes>>
      /\ state = "CLIENT_REVIEW" /\ changes[n].class = "new_scope"
      /\ \A m \in 1..Len(orders) : orders[m].change # order.change
  BY <1>1, <1>2 DEF CreateChangeOrder, Unanswered, record
<1>4. /\ Len(orders') = Len(orders) + 1 /\ orders'[Len(orders) + 1] = order
      /\ \A m \in 1..Len(orders) : orders'[m] = orders[m]
      /\ \A m \in 1..Len(orders') : m \in 1..Len(orders) \/ m = Len(orders) + 1
  BY <1>0, <1>2, <1>3
<1>5. (\A m \in 1..Len(orders) : AnswersRequest(orders[m]))'
  <2>1. \A m \in 1..Len(orders) : AnswersRequest(orders[m])  BY DEF OrdersInv
  <2>2. AnswersRequest(order)  BY <1>0, <1>2, <1>3 DEF AnswersRequest, Range
  <2> QED  BY <1>3, <1>4, <2>1, <2>2 DEF AnswersRequest
<1>6. \A m, k \in 1..Len(orders') : orders'[m].change = orders'[k].change => m = k
  BY <1>3, <1>4 DEF OrdersInv
<1>7. \A m : Decided(m)' = Decided(m)  BY <1>3 DEF Decided
<1>8. Decided(Len(orders) + 1) = {}  BY <1>0 DEF Decided, OrdersInv
<1>9. \A m \in 1..Len(orders') : Decided(m)' = {orders'[m].state} \ {"DRAFT"}
  BY <1>2, <1>4, <1>7, <1>8 DEF OrdersInv
<1>10. \A a \in approvals' : a.subject = "change_order" => a.ref \in 1..Len(orders')
  BY <1>0, <1>3, <1>4 DEF OrdersInv
<1> QED  BY <1>3, <1>5, <1>6, <1>9, <1>10 DEF OrdersInv

\* decide_change_order: the draft under review is decided, on record.
LEMMA DecideKeepsOrders ==
  ASSUME OrdersInv, DeliveryTypeOK', NEW decision \in {"ACCEPTED", "REJECTED"},
         DecideChangeOrder(decision)
  PROVE  OrdersInv'
<1>0. orders \in Seq(Orders) /\ Len(orders) \in Nat /\ orders # <<>>
  BY DEF OrdersInv, DeliveryTypeOK, DecideChangeOrder
<1>1. PICK last \in 1..Len(orders) : last = Len(orders)  BY <1>0
<1>2. orders[last] \in Orders /\ orders[last].state = "DRAFT" /\ Last(orders) = orders[last]
  BY <1>0, <1>1 DEF DecideChangeOrder, Last
<1>3. PICK order : order = [orders[last] EXCEPT !.state = decision]  OBVIOUS
<1>4. order.change = orders[last].change /\ order.state = decision /\ order \in Orders
  BY <1>2, <1>3 DEF Orders
<1>5. /\ orders' = [orders EXCEPT ![last] = order] /\ UNCHANGED <<state, changes>>
      /\ approvals' = approvals \cup
           {[subject |-> "change_order", ref |-> last, decision |-> decision]}
  BY <1>1, <1>3 DEF DecideChangeOrder
<1>6. /\ Len(orders') = Len(orders) /\ orders'[last] = order
      /\ \A m \in 1..Len(orders) : m # last => orders'[m] = orders[m]
      /\ Last(orders').change = Last(orders).change /\ orders' # <<>>
  <2>1. /\ Len(orders') = Len(orders) /\ orders'[last] = order
        /\ \A m \in 1..Len(orders) : m # last => orders'[m] = orders[m]
    BY <1>0, <1>4, <1>5
  <2> QED  BY <1>0, <1>1, <1>2, <1>4, <2>1 DEF Last
<1>7. (\A m \in 1..Len(orders) : AnswersRequest(orders[m]))'
  <2>1. \A m \in 1..Len(orders) : AnswersRequest(orders[m])  BY DEF OrdersInv
  <2>2. AnswersRequest(order)  BY <1>4, <2>1 DEF AnswersRequest
  <2> QED  BY <1>5, <1>6, <2>1, <2>2 DEF AnswersRequest
<1>8. \A m, k \in 1..Len(orders') : orders'[m].change = orders'[k].change => m = k
  <2>1. \A m \in 1..Len(orders) : orders'[m].change = orders[m].change  BY <1>4, <1>6
  <2> QED  BY <1>6, <2>1 DEF OrdersInv
<1>9. \A m \in 1..Len(orders') : Decided(m)' = {orders'[m].state} \ {"DRAFT"}
  <2>1. ASSUME NEW m \in 1..Len(orders), m # last
        PROVE  Decided(m)' = {orders'[m].state} \ {"DRAFT"}
    <3>1. Decided(m)' = Decided(m)  BY <1>5, <2>1 DEF Decided
    <3> QED  BY <1>6, <2>1, <3>1 DEF OrdersInv
  <2>2. Decided(last)' = {decision}
    <3>1. Decided(last) = {}  BY <1>2 DEF OrdersInv
    <3>2. \A a \in approvals : ~(a.subject = "change_order" /\ a.ref = last)
      BY <3>1 DEF Decided
    <3>3. PICK new : new = [subject |-> "change_order", ref |-> last, decision |-> decision]
      OBVIOUS
    <3>4. {b \in approvals' : b.subject = "change_order" /\ b.ref = last} = {new}
      BY <1>5, <3>2, <3>3
    <3> QED  BY <3>3, <3>4 DEF Decided
  <2> QED  BY <1>4, <1>6, <2>1, <2>2
<1>10. \A a \in approvals' : a.subject = "change_order" => a.ref \in 1..Len(orders')
  BY <1>5, <1>6 DEF OrdersInv
<1>11. state' = "CHANGE_ORDER_REVIEW" =>
         orders' # <<>> /\ Last(orders').change = Last(changes').id
  BY <1>5, <1>6 DEF OrdersInv
<1> QED  BY <1>7, <1>8, <1>9, <1>10, <1>11 DEF OrdersInv

\* Every step keeps the orders answered.
LEMMA StepKeepsOrders ==
  ASSUME OrdersInv, [DeliveryNext]_deliveryVars PROVE OrdersInv'
<1>0. DeliveryTypeOK'  BY DeliveryTypesStep DEF OrdersInv
<1>1. CASE DeliverableRequests \/ ReviewRequests \/ UNCHANGED deliveryVars
             \/ \E r \in Requests : AbandonInDelivery(r) \/ BeginScopeChange(r)
  <2>1. UNCHANGED <<state, approvals, orders, changes>>
    BY <1>1 DEF DeliverableRequests, StartDeliverable, CommitDeliverable, ReviewRequests,
                StartQA, CommitQA, ReviewAsLead, AbandonInDelivery, Abandon,
                BeginScopeChange, deliveryVars, staffingVars, scopingVars, record, deliveryRows
  <2> QED  BY <1>0, <2>1, OrdersKept
<1>4. CASE LateTerms
  <2>1. UNCHANGED <<state, approvals, orders, changes>>
    BY <1>4, LateTermsIs DEF OrdersInv, deliveryRows
  <2> QED  BY <1>0, <2>1, OrdersKept
<1>2. CASE ChangeRequests
  BY <1>0, <1>1, <1>2, ScopeChangeKeepsOrders, CreateKeepsOrders, DecideKeepsOrders
     DEF ChangeRequests
<1>3. CASE DeliveryTransitions
  <2>1. PICK role \in Roles, to \in States :
          /\ Move(role, to) /\ UNCHANGED <<changes, orders>>
          /\ approvals' = approvals \/ Approve("release", 0)
          /\ to = "CHANGE_ORDER_REVIEW" => ReviewChangeOrder(role)
    BY <1>3, DeliveryTransitionIs DEF OrdersInv
  <2>2. \A a : a.subject = "change_order" => (a \in approvals' <=> a \in approvals)
    BY <2>1 DEF Approve
  <2>3. state' = to  BY <2>1 DEF Move
  <2>4. CASE to # "CHANGE_ORDER_REVIEW"
    BY <1>0, <2>1, <2>2, <2>3, <2>4, OrdersKept
  <2>5. CASE to = "CHANGE_ORDER_REVIEW"
    <3>1. orders # <<>> /\ Last(orders).change = Last(changes).id
      BY <2>1, <2>5 DEF ReviewChangeOrder
    <3>2. \A n : Decided(n)' = Decided(n)  BY <2>2 DEF Decided
    <3>3. \A order : AnswersRequest(order)' <=> AnswersRequest(order)
      BY <2>1 DEF AnswersRequest
    <3> QED  BY <1>0, <2>1, <2>2, <3>1, <3>2, <3>3 DEF OrdersInv
  <2> QED  BY <2>4, <2>5
<1> QED  BY <1>1, <1>2, <1>3, <1>4 DEF DeliveryNext

\* Every change order answers one request for new scope, no request gets two, and the one
\* decision of an order is on record; while an order is under review it answers the latest
\* request, although requests are inserted where they began (create_change_order,
\* decide_change_order, request_scope_change).
THEOREM OrdersAreAnswers == DeliverySpec => []OrdersAnswerRequests
<1>1. OrdersInv => OrdersAnswerRequests
  <2> SUFFICES ASSUME OrdersInv PROVE OrdersAnswerRequests  OBVIOUS
  <2>1. DOMAIN changes = 1..Len(changes)  BY DEF OrdersInv, DeliveryTypeOK
  <2>2. \A n \in 1..Len(orders) : \E m \in 1..Len(changes) :
          changes[m].id = orders[n].change /\ changes[m].class = "new_scope"
    BY <2>1 DEF OrdersInv, AnswersRequest, Range
  <2> QED  BY <2>2 DEF OrdersInv, OrdersAnswerRequests, Decided
<1> QED  BY <1>1, InitOrders, StepKeepsOrders, PTL DEF DeliverySpec

----------------------------------------------------------------------------
(* Funded work. *)

AcceptedIn(rows) == {n \in 1..Len(rows) : rows[n].state = "ACCEPTED"}
AmountsOf(rows) == [n \in 1..Len(rows) |-> rows[n].amount]
\* What change orders added to the deposit.
Extra(rows) == SumFunctionOnSet(AmountsOf(rows), AcceptedIn(rows))

\* The amounts of accepted orders are natural numbers.
LEMMA AcceptedAmounts ==
  ASSUME NEW rows \in Seq(Orders)
  PROVE  /\ IsFiniteSet(AcceptedIn(rows)) /\ AcceptedIn(rows) \subseteq 1..Len(rows)
         /\ \A n \in 1..Len(rows) : AmountsOf(rows)[n] = rows[n].amount /\ rows[n].amount \in Nat
         /\ Extra(rows) \in Nat
<1>1. Len(rows) \in Nat /\ \A n \in 1..Len(rows) : rows[n] \in Orders
  OBVIOUS
<1>2. AcceptedIn(rows) \subseteq 1..Len(rows) /\ IsFiniteSet(1..Len(rows))
  BY <1>1, FS_Interval DEF AcceptedIn
<1>3. IsFiniteSet(AcceptedIn(rows))  BY <1>2, FS_Subset
<1>4. \A n \in 1..Len(rows) : AmountsOf(rows)[n] = rows[n].amount /\ rows[n].amount \in Nat
  BY <1>1, DeliveryAssumption DEF AmountsOf, Orders, DeliveryAssumption
<1>5. Extra(rows) \in Nat  BY <1>2, <1>3, <1>4, TotalIsNatural DEF Extra
<1> QED  BY <1>2, <1>3, <1>4, <1>5

\* Rows that are still drafts, or were rejected, add nothing.
LEMMA ExtraKept ==
  ASSUME NEW a \in Seq(Orders), NEW b \in Seq(Orders), AcceptedIn(b) = AcceptedIn(a),
         \A n \in AcceptedIn(a) : b[n].amount = a[n].amount
  PROVE  Extra(b) = Extra(a)
<1>1. IsFiniteSet(AcceptedIn(a)) /\ AcceptedIn(a) \subseteq 1..Len(a)
      /\ AcceptedIn(a) \subseteq 1..Len(b)
  BY AcceptedAmounts
<1>2. \A n \in AcceptedIn(a) : AmountsOf(b)[n] = AmountsOf(a)[n]
  BY <1>1, AcceptedAmounts
<1> QED  BY <1>1, <1>2, TotalCongruence DEF Extra

\* A row that is accepted adds its amount.
LEMMA ExtraAdds ==
  ASSUME NEW a \in Seq(Orders), NEW b \in Seq(Orders), NEW n \in 1..Len(a),
         n \notin AcceptedIn(a), AcceptedIn(b) = AcceptedIn(a) \cup {n},
         \A m \in AcceptedIn(b) : b[m].amount = a[m].amount
  PROVE  Extra(b) = a[n].amount + Extra(a)
<1>1. IsFiniteSet(AcceptedIn(a)) /\ AcceptedIn(a) \subseteq 1..Len(a)
      /\ \A m \in 1..Len(a) : AmountsOf(a)[m] = a[m].amount /\ a[m].amount \in Nat
  BY AcceptedAmounts
<1>2. Extra(b) = SumFunctionOnSet(AmountsOf(a), AcceptedIn(b))
  <2>1. IsFiniteSet(AcceptedIn(b)) /\ AcceptedIn(b) \subseteq 1..Len(b)
        /\ \A m \in 1..Len(b) : AmountsOf(b)[m] = b[m].amount
    BY AcceptedAmounts
  <2>2. \A m \in AcceptedIn(b) : AmountsOf(b)[m] = AmountsOf(a)[m]  BY <1>1, <2>1
  <2> QED  BY <2>1, <2>2, TotalCongruence DEF Extra
<1>3. SumFunctionOnSet(AmountsOf(a), AcceptedIn(a) \cup {n})
        = AmountsOf(a)[n] + SumFunctionOnSet(AmountsOf(a), AcceptedIn(a))
  BY <1>1, TotalAdds
<1> QED  BY <1>1, <1>2, <1>3 DEF Extra

\* The states in which the deposit must be paid.
PaidFor == {"ACTIVE", "QA_REVIEW", "AWAITING_RELEASE_APPROVAL", "CLIENT_REVIEW",
            "REVISION_REQUESTED", "ACCEPTED"}

\* FundedWork, and what keeps it while a change order is under review: until the order is
\* accepted the deposit is still the one that was paid.
FundedInv ==
  /\ DeliveryTypeOK
  /\ quotes # <<>>
  /\ Priced => required = quotes[Len(quotes)].base + Extra(orders)
  /\ Priced /\ state \in PaidFor => funded >= required
  /\ Priced /\ state = "CHANGE_ORDER_REVIEW" =>
       orders # <<>> /\ (Last(orders).state # "ACCEPTED" => funded >= required)

\* What is invariant gives the property.
LEMMA FundedInvImplies == FundedInv => FundedWork
<1>1. SumFunctionOnSet([n \in 1..Len(orders) |-> orders[n].amount], AcceptedOrders)
        = Extra(orders)
  BY DEF Extra, AmountsOf, AcceptedIn, AcceptedOrders
<1> QED  BY <1>1 DEF FundedInv, FundedWork, PaidFor

\* The initial states.
LEMMA InitFunded == DeliveryStart => FundedInv
<1> SUFFICES ASSUME DeliveryStart PROVE FundedInv  OBVIOUS
<1>1. orders = <<>> /\ state = "ACTIVE"
  BY DEF DeliveryStart, DeliveryInit, StartedRecord
<1>2. PICK base \in Bases, paid \in Amounts :
        /\ paid >= base /\ required = base /\ funded = paid
        /\ quotes = <<[scope |-> 1, base |-> base, status |-> "CLIENT_ACCEPTED"]>>
  BY DEF DeliveryStart, StartedRecord, AcceptedTerms
<1>3. Extra(orders) = 0
  <2>1. AcceptedIn(orders) = {}  BY <1>1 DEF AcceptedIn
  <2> QED  BY <2>1, TotalOfNone DEF Extra
<1>4. quotes # <<>> /\ quotes[Len(quotes)].base = base  BY <1>2
<1>5. base \in Nat  BY ScopingAssumption DEF ScopingAssumption
<1> QED  BY <1>1, <1>2, <1>3, <1>4, <1>5, InitDeliveryTypes DEF FundedInv

\* A step that leaves the money and the rows alone, and goes on from work that is paid.
LEMMA FundedKept ==
  ASSUME FundedInv, DeliveryTypeOK', UNCHANGED <<quotes, orders, required, funded>>,
         Priced /\ state' \in PaidFor => state \in PaidFor \/ funded >= required,
         Priced /\ state' = "CHANGE_ORDER_REVIEW" =>
           \/ state = "CHANGE_ORDER_REVIEW"
           \/ orders # <<>> /\ state \in PaidFor
  PROVE  FundedInv'
  BY DEF FundedInv, Priced

\* transition_project.
LEMMA TransitionsKeepFunded ==
  ASSUME FundedInv, DeliveryTypeOK', DeliveryTransitions PROVE FundedInv'
<1>1. PICK role \in Roles, to \in States :
        /\ Move(role, to) /\ UNCHANGED before /\ orders' = orders
        /\ to = "CLIENT_REVIEW" => ApproveRelease(role) \/ DropChange(role)
        /\ to = "CHANGE_ORDER_REVIEW" => ReviewChangeOrder(role)
  BY DeliveryTransitionIs DEF FundedInv
<1>2. /\ Allowed(role, state, to) /\ state' = to /\ UNCHANGED <<quotes, orders, required, funded>>
      /\ to = "ACTIVE" => funded >= required
  BY <1>1 DEF Move, FundingConfirmed, FundingGated, before, scopingRows
<1>3. CASE to = "CLIENT_REVIEW"
  <2>1. state \in {"AWAITING_RELEASE_APPROVAL", "CHANGE_ORDER_REVIEW"}
    BY <1>2, <1>3 DEF Allowed, RULES, Forward, Exits, Edge
  <2>2. CASE state = "AWAITING_RELEASE_APPROVAL"
    BY <1>2, <1>3, <2>2, FundedKept DEF PaidFor
  <2>3. CASE state = "CHANGE_ORDER_REVIEW"
    <3>1. Last(orders).state # "ACCEPTED"
      BY <1>1, <1>3, <2>3 DEF ApproveRelease, DropChange
    <3>2. Priced => funded >= required  BY <2>3, <3>1 DEF FundedInv
    <3> QED  BY <1>2, <1>3, <3>2, FundedKept
  <2> QED  BY <2>1, <2>2, <2>3
<1>4. CASE to = "CHANGE_ORDER_REVIEW"
  <2>1. state = "CLIENT_REVIEW"
    BY <1>2, <1>4 DEF Allowed, RULES, Forward, Exits, Edge
  <2>2. orders # <<>>  BY <1>1, <1>4 DEF ReviewChangeOrder
  <2> QED  BY <1>2, <1>4, <2>1, <2>2, FundedKept DEF PaidFor
<1>5. CASE to \in PaidFor \ {"ACTIVE", "CLIENT_REVIEW"}
  <2>1. state \in PaidFor
    BY <1>2, <1>5 DEF Allowed, RULES, Forward, Exits, Edge, PaidFor
  <2> QED  BY <1>2, <1>5, <2>1, FundedKept DEF PaidFor
<1>6. CASE to = "ACTIVE"
  BY <1>2, <1>6, FundedKept
<1>7. CASE to \notin PaidFor /\ to # "CHANGE_ORDER_REVIEW"
  BY <1>2, <1>7, FundedKept
<1> QED  BY <1>3, <1>4, <1>5, <1>6, <1>7 DEF PaidFor

\* create_change_order: a draft adds nothing.
LEMMA CreateKeepsFunded ==
  ASSUME FundedInv, DeliveryTypeOK', NEW n \in 1..Len(changes), NEW amount \in Added,
         NEW recipient \in Team, CreateChangeOrder(n, amount, recipient)
  PROVE  FundedInv'
<1>0. orders \in Seq(Orders) /\ orders' \in Seq(Orders) /\ Len(orders) \in Nat
  BY DEF FundedInv, DeliveryTypeOK
<1>1. PICK order : orders' = Append(orders, order) /\ order.state = "DRAFT"
  BY DEF CreateChangeOrder
<1>2. /\ Len(orders') = Len(orders) + 1 /\ orders'[Len(orders) + 1] = order
      /\ \A m \in 1..Len(orders) : orders'[m] = orders[m]
  BY <1>0, <1>1
<1>3. AcceptedIn(orders') = AcceptedIn(orders)
  <2>1. ASSUME NEW m \in 1..Len(orders'), m \notin 1..Len(orders)
        PROVE  orders'[m].state # "ACCEPTED"
    <3>1. m = Len(orders) + 1  BY <1>0, <1>2, <2>1
    <3> QED  BY <1>1, <1>2, <3>1
  <2>2. 1..Len(orders) \subseteq 1..Len(orders')  BY <1>0, <1>2
  <2> QED  BY <1>2, <2>1, <2>2 DEF AcceptedIn
<1>4. \A m \in AcceptedIn(orders) : orders'[m].amount = orders[m].amount
  BY <1>2 DEF AcceptedIn
<1>5. Extra(orders') = Extra(orders)  BY <1>0, <1>3, <1>4, ExtraKept
<1>6. state = "CLIENT_REVIEW" /\ UNCHANGED <<state, quotes, required, funded>>
  BY DEF CreateChangeOrder, record, before, scopingRows
<1> QED  BY <1>5, <1>6 DEF FundedInv, Priced

\* decide_change_order: an accepted order is owed from now on.
LEMMA DecideKeepsFunded ==
  ASSUME FundedInv, DeliveryTypeOK', NEW decision \in {"ACCEPTED", "REJECTED"},
         DecideChangeOrder(decision)
  PROVE  FundedInv'
<1>0. /\ orders \in Seq(Orders) /\ orders' \in Seq(Orders) /\ orders # <<>>
      /\ required \in Nat /\ quotes \in Seq(Quotes) /\ quotes # <<>>
  BY DEF FundedInv, DeliveryTypeOK, StaffingTypeOK, ScopingTypeOK, RecordTypeOK,
         DecideChangeOrder
<1>1. PICK last \in 1..Len(orders) : last = Len(orders)  BY <1>0
<1>2. /\ orders[last] \in Orders /\ orders[last].state = "DRAFT" /\ Last(orders) = orders[last]
      /\ state = "CHANGE_ORDER_REVIEW" /\ UNCHANGED <<state, quotes, funded>>
      /\ required' = required + Owed(decision)
  BY <1>0, <1>1 DEF DecideChangeOrder, Last, before, scopingRows
<1>3. PICK order : order = [orders[last] EXCEPT !.state = decision]  OBVIOUS
<1>4. order.amount = orders[last].amount /\ order.state = decision
  BY <1>2, <1>3 DEF Orders
<1>5. /\ Len(orders') = Len(orders) /\ orders'[last] = order
      /\ \A m \in 1..Len(orders) : m # last => orders'[m] = orders[m]
  <2>1. orders' = [orders EXCEPT ![last] = order]  BY <1>1, <1>3 DEF DecideChangeOrder
  <2> QED  BY <1>0, <2>1
<1>6. Last(orders').state = decision /\ orders' # <<>>
  BY <1>0, <1>1, <1>4, <1>5 DEF Last
<1>7. last \notin AcceptedIn(orders) /\ orders[last].amount \in Nat
  BY <1>0, <1>2, AcceptedAmounts DEF AcceptedIn
<1>8. \A m \in 1..Len(orders) : orders'[m].amount = orders[m].amount  BY <1>4, <1>5
<1>9. quotes[Len(quotes)].base \in Nat
  <2>1. quotes[Len(quotes)] \in Quotes  BY <1>0
  <2> QED  BY <2>1 DEF Quotes
<1>10. Extra(orders') = Extra(orders) + Owed(decision)
  <2>1. CASE decision = "ACCEPTED"
    <3>1. AcceptedIn(orders') = AcceptedIn(orders) \cup {last}
      BY <1>4, <1>5, <2>1 DEF AcceptedIn
    <3>2. \A m \in AcceptedIn(orders') : orders'[m].amount = orders[m].amount
      BY <1>5, <1>8 DEF AcceptedIn
    <3>3. Extra(orders') = orders[last].amount + Extra(orders)
      BY <1>0, <1>7, <3>1, <3>2, ExtraAdds
    <3>4. Owed(decision) = orders[last].amount  BY <1>2, <2>1 DEF Owed
    <3> QED  BY <1>0, <1>7, <3>3, <3>4, AcceptedAmounts
  <2>2. CASE decision = "REJECTED"
    <3>1. AcceptedIn(orders') = AcceptedIn(orders)
      BY <1>4, <1>5, <1>7, <2>2 DEF AcceptedIn
    <3>2. \A m \in AcceptedIn(orders) : orders'[m].amount = orders[m].amount
      BY <1>8 DEF AcceptedIn
    <3>3. Extra(orders') = Extra(orders)  BY <1>0, <3>1, <3>2, ExtraKept
    <3> QED  BY <1>0, <2>2, <3>3, AcceptedAmounts DEF Owed
  <2> QED  BY <2>1, <2>2
<1>11. Extra(orders) \in Nat /\ Owed(decision) \in Nat
  BY <1>0, <1>2, <1>7, AcceptedAmounts DEF Owed
<1>12. Priced' => required' = quotes'[Len(quotes')].base + Extra(orders')
  <2> SUFFICES ASSUME Priced PROVE required' = quotes[Len(quotes)].base + Extra(orders')
    BY <1>2 DEF Priced
  <2>1. required = quotes[Len(quotes)].base + Extra(orders)  BY DEF FundedInv
  <2> QED  BY <1>2, <1>9, <1>10, <1>11, <2>1
<1>13. Priced' /\ Last(orders').state # "ACCEPTED" => funded' >= required'
  <2> SUFFICES ASSUME Priced, decision = "REJECTED" PROVE funded >= required'
    BY <1>2, <1>6 DEF Priced
  <2>1. funded >= required  BY <1>2 DEF FundedInv
  <2>2. required' = required  BY <1>0, <1>2 DEF Owed
  <2> QED  BY <2>1, <2>2
<1> QED  BY <1>0, <1>2, <1>6, <1>12, <1>13 DEF FundedInv, PaidFor

\* Quotes that were priced earlier: the new one is not the accepted one.  A scope run
\* leaves the money alone.
LEMMA LateTermsKeepFunded ==
  ASSUME FundedInv, DeliveryTypeOK', LateTerms PROVE FundedInv'
<1>1. orders' = orders /\ state' = state
  BY LateTermsIs DEF FundedInv, deliveryRows
<1>2. ASSUME NEW r \in Requests, CommitQuote(r) PROVE FundedInv'
  <2>1. quotes \in Seq(Quotes) /\ Len(quotes) \in Nat
    BY DEF FundedInv, DeliveryTypeOK, StaffingTypeOK, ScopingTypeOK
  <2>2. PICK quote : quotes' = Append(quotes, quote) /\ quote.status = "DRAFT"
    BY <1>2 DEF CommitQuote
  <2>3. quotes'[Len(quotes')] = quote /\ quotes' # <<>>  BY <2>1, <2>2
  <2>4. ~Priced'  BY <2>2, <2>3 DEF Priced
  <2> QED  BY <2>3, <2>4 DEF FundedInv
<1>3. CASE UNCHANGED <<quotes, required, funded>>
  BY <1>1, <1>3, FundedKept
<1> QED
  BY <1>2, <1>3 DEF LateTerms, LateScoping, ScopeRuns, StartScopeRun, FinishScopeRun,
                    QuoteRequests, LoadForQuote, PriceQuote, NumberQuote, record, money,
                    scopingRows

\* Every step keeps the work funded.
LEMMA StepKeepsFunded ==
  ASSUME FundedInv, [DeliveryNext]_deliveryVars PROVE FundedInv'
<1>0. DeliveryTypeOK'  BY DeliveryTypesStep DEF FundedInv
<1>1. CASE UNCHANGED <<quotes, orders, required, funded, state>>
  BY <1>0, <1>1, FundedKept
<1>2. CASE DeliverableRequests \/ ReviewRequests \/ UNCHANGED deliveryVars
             \/ \E r \in Requests : AbandonInDelivery(r)
  BY ZenonT(60), <1>1, <1>2
     DEF DeliverableRequests, StartDeliverable, CommitDeliverable, ReviewRequests, StartQA,
         CommitQA, ReviewAsLead, AbandonInDelivery, Abandon, deliveryVars, staffingVars,
         scopingVars, record, before, scopingRows, deliveryRows
<1>3. CASE \E r \in Requests :
             \/ BeginScopeChange(r)
             \/ \E defect, material \in BOOLEAN, place \in 1..Len(changes) + 1 :
                  CommitScopeChange(r, defect, material, place)
  BY <1>1, <1>3 DEF BeginScopeChange, CommitScopeChange, record, before, scopingRows,
                    deliveryRows
<1>4. CASE ChangeRequests
  BY <1>0, <1>3, <1>4, CreateKeepsFunded, DecideKeepsFunded DEF ChangeRequests
<1> QED
  BY <1>0, <1>2, <1>4, TransitionsKeepFunded, LateTermsKeepFunded DEF DeliveryNext

\* While the accepted quote is the latest one, the deposit is its price and every accepted
\* change order, and outside the review of a change order it is paid, whatever quotes
\* come in late (create_quote, decide_change_order, transition_project).
THEOREM WorkIsFunded == DeliverySpec => []FundedWork
  BY InitFunded, StepKeepsFunded, FundedInvImplies, PTL DEF DeliverySpec

=============================================================================
