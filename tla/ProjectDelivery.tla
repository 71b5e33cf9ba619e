-------------------------- MODULE ProjectDelivery --------------------------
(***************************************************************************)
(* Work in progress: deliverables, QA runs, lead reviews, the release to   *)
(* the client, revisions and change orders, up to the client's acceptance. *)
(*                                                                         *)
(* create_deliverable and run_qa_agent read the project without its lock   *)
(* and commit later.  Deliverables, QA reviews and scope-change requests   *)
(* are looked up by created_at, the start of the transaction that inserts  *)
(* them: a request holds the number of rows there were when it began, and  *)
(* its row takes any place after those.                                    *)
(***************************************************************************)
EXTENDS ProjectStaffing

CONSTANTS
  Added,            \* added_compensation_minor of change orders
  Rounds,           \* revision_rounds of every quote
  MaxDeliverables,  \* bounds on the rows of each kind
  MaxReviews,
  MaxChanges

ASSUME DeliveryAssumption ==
  /\ Added \subseteq Nat \ {0}
  /\ Rounds \in Nat
  /\ {MaxDeliverables, MaxReviews, MaxChanges} \subseteq Nat

VARIABLES
  deliverables,  \* deliverables with their artifact, in the order of created_at
  reviews,       \* qa_reviews with status COMPLETED, in the order of created_at
  leadReviews,   \* lead_reviews
  changes,       \* scope_change_requests, in the order of created_at
  orders,        \* change_orders: version 1, 2, ...
  decisions      \* client_decisions, in the order they were made

deliveryRows == <<deliverables, reviews, leadReviews, changes, orders, decisions>>
deliveryVars == <<staffingVars, deliveryRows>>
\* Everything the phases before this one own, besides the row of the project.
before == <<scopingRows, staffingRows>>

\* What the evidence checks make of an artifact: a scan that never ends (uploads),
\* a failed check (a repository without its commit), or nothing to object to.
Artifacts == {"unscanned", "incomplete", "sound"}
Deliverables == [id : Nat, by : Team, artifact : Artifacts]
Verdicts == {"PASS", "CHANGES_REQUIRED"}
Reviews == [of : Nat, verdict : Verdicts]
LeadReviews == [of : Nat, by : Team, verdict : {"RELEASE", "CHANGES_REQUIRED"}]
Classes == {"included_revision", "defect", "new_scope"}
Changes == [id : Nat, class : Classes, deliverable : Nat]
\* Compensation shares add up to the amount; a share goes to an assigned user.
Orders ==
  [change : Nat, amount : Added, shares : [Team -> Nat],
   state : {"DRAFT", "ACCEPTED", "REJECTED"}]
Decisions ==
  [decision : {"REVISION_REQUESTED", "ACCEPTED"}, deliverable : Nat, round : Nat]

DeliverableCalls == [op : {"deliver"}, by : Team, after : Nat]
QACalls == [op : {"qa"}, of : Nat, artifact : Artifacts, after : Nat]
ChangeCalls == [op : {"change"}, after : Nat]

DeliveryTypeOK ==
  /\ StaffingTypeOK
  /\ deliverables \in Seq(Deliverables)
  /\ reviews \in Seq(Reviews)
  /\ leadReviews \subseteq LeadReviews
  /\ changes \in Seq(Changes)
  /\ orders \in Seq(Orders)
  /\ decisions \in Seq(Decisions)
  /\ \A r \in Requests :
       /\ In(r, "deliver") => req[r] \in DeliverableCalls
       /\ In(r, "qa") => req[r] \in QACalls
       /\ In(r, "change") => req[r] \in ChangeCalls

DeliveryInit ==
  /\ deliverables = <<>>
  /\ reviews = <<>>
  /\ leadReviews = {}
  /\ changes = <<>>
  /\ orders = <<>>
  /\ decisions = <<>>

Assigned == {a.user : a \in assignments}
Places(rows, after) == after + 1 .. Len(rows) + 1

----------------------------------------------------------------------------
(* create_deliverable. *)

StartDeliverable(r, user) ==
  /\ Free(r)
  /\ user \in Assigned
  /\ state = "ACTIVE"
  /\ Hold(r, [op |-> "deliver", by |-> user, after |-> Len(deliverables)])
  /\ UNCHANGED <<record, before, deliveryRows>>

CommitDeliverable(r, artifact, place) ==
  /\ In(r, "deliver")
  /\ Len(deliverables) < MaxDeliverables
  /\ place \in Places(deliverables, req[r].after)
  /\ deliverables' = InsertAt(deliverables, place,
       [id |-> Len(deliverables) + 1, by |-> req[r].by, artifact |-> artifact])
  /\ Release(r)
  /\ UNCHANGED <<record, before, reviews, leadReviews, changes, orders, decisions>>

----------------------------------------------------------------------------
(* run_qa_agent. *)

StartQA(r, n) ==
  /\ Free(r)
  /\ state = "QA_REVIEW"
  /\ deliverables[n].artifact # "unscanned"
  /\ Hold(r, [op |-> "qa", of |-> deliverables[n].id,
              artifact |-> deliverables[n].artifact, after |-> Len(reviews)])
  /\ UNCHANGED <<record, before, deliveryRows>>

\* The agent's verdict counts only for an artifact that passed the deterministic
\* checks.  A run that failed or was unavailable leaves no review: Abandon.
CommitQA(r, verdict, place) ==
  /\ In(r, "qa")
  /\ Len(reviews) < MaxReviews
  /\ req[r].artifact = "incomplete" => verdict = "CHANGES_REQUIRED"
  /\ place \in Places(reviews, req[r].after)
  /\ reviews' = InsertAt(reviews, place, [of |-> req[r].of, verdict |-> verdict])
  /\ Release(r)
  /\ UNCHANGED <<record, before, deliverables, leadReviews, changes, orders, decisions>>

----------------------------------------------------------------------------
(* create_lead_review: no state is required, and a conflict only excludes RELEASE. *)

Passed(id) == \E n \in 1..Len(reviews) : reviews[n] = [of |-> id, verdict |-> "PASS"]

AnyLead(user, n) == TRUE  \* mutant: a lead may review their own work
Independent(user, n) == deliverables[n].by # user

ReviewAsLead(user, n, verdict) ==
  /\ user \in Leads \cap Assigned
  /\ Independent(user, n)
  /\ Passed(deliverables[n].id)
  /\ leadReviews' = leadReviews \cup
       {[of |-> deliverables[n].id, by |-> user, verdict |-> verdict]}
  /\ UNCHANGED <<record, req, before, deliverables, reviews, changes, orders, decisions>>

----------------------------------------------------------------------------
(* request_scope_change: under the lock, but dated when the request began. *)

Revisions ==
  {n \in 1..Len(decisions) : decisions[n].decision = "REVISION_REQUESTED"}
RemainingRounds == Max({0, Rounds - Cardinality(Revisions)})

\* classify_scope_change: a verified defect, a material change, or a revision.
Class(defect, material, remaining) ==
  IF defect THEN "defect"
  ELSE IF ~material /\ remaining > 0 THEN "included_revision"
  ELSE "new_scope"

BeginScopeChange(r) ==
  /\ Free(r)
  /\ Len(changes) < MaxChanges
  /\ Hold(r, [op |-> "change", after |-> Len(changes)])
  /\ UNCHANGED <<record, before, deliveryRows>>

CommitScopeChange(r, defect, material, place) ==
  /\ In(r, "change")
  /\ state = "CLIENT_REVIEW"
  /\ deliverables # <<>>
  /\ Len(changes) < MaxChanges
  /\ place \in Places(changes, req[r].after)
  /\ changes' = InsertAt(changes, place,
       [id |-> Len(changes) + 1, class |-> Class(defect, material, RemainingRounds),
        deliverable |-> Last(deliverables).id])
  /\ Release(r)
  /\ UNCHANGED <<record, before, deliverables, reviews, leadReviews, orders, decisions>>

----------------------------------------------------------------------------
(* create_change_order and decide_change_order. *)

\* Mutant: only the latest order is compared.
UnansweredByLast(n) == orders # <<>> => Last(orders).change # changes[n].id
Unanswered(n) == \A m \in 1..Len(orders) : orders[m].change # changes[n].id

CreateChangeOrder(n, amount, recipient) ==
  /\ state = "CLIENT_REVIEW"
  /\ changes[n].class = "new_scope"
  /\ Unanswered(n)
  /\ recipient \in Assigned
  /\ orders' = Append(orders,
       [change |-> changes[n].id, amount |-> amount,
        shares |-> [u \in Team |-> IF u = recipient THEN amount ELSE 0],
        state |-> "DRAFT"])
  /\ UNCHANGED <<record, req, before, deliverables, reviews, leadReviews, changes, decisions>>

\* What the decision adds to the deposit.
OwedAnyway(decision) == Last(orders).amount  \* mutant: rejected orders too
Owed(decision) == IF decision = "ACCEPTED" THEN Last(orders).amount ELSE 0

\* Only the latest order can be decided, and only while it is a draft.
DecideChangeOrder(decision) ==
  /\ state = "CHANGE_ORDER_REVIEW"
  /\ orders # <<>>
  /\ Last(orders).state = "DRAFT"
  /\ orders' = [orders EXCEPT ![Len(orders)].state = decision]
  /\ required' = required + Owed(decision)
  /\ approvals' = approvals \cup
       {[subject |-> "change_order", ref |-> Len(orders), decision |-> decision]}
  /\ UNCHANGED <<state, version, funded, complexity, ledger, req, before, deliverables,
                 reviews, leadReviews, changes, decisions>>

----------------------------------------------------------------------------
(* transition_project, the targets of this phase. *)

SubmitForQA(role) ==
  /\ Member(role)
  /\ Move(role, "QA_REVIEW")
  /\ UNCHANGED <<approvals, before, deliveryRows>>

\* The latest review of the project's deliverables passed; a project that is not of
\* low complexity has some release review of a lead.
PassQA(role) ==
  /\ Member(role)
  /\ reviews # <<>>
  /\ Last(reviews).verdict = "PASS"
  /\ complexity # "LOW" => \E review \in leadReviews : review.verdict = "RELEASE"
  /\ Move(role, "AWAITING_RELEASE_APPROVAL")
  /\ UNCHANGED <<approvals, before, deliveryRows>>

\* Every edge into CLIENT_REVIEW but the one from a rejected change order.
ApproveRelease(role) ==
  /\ state # "CHANGE_ORDER_REVIEW"
  /\ Move(role, "CLIENT_REVIEW")
  /\ Approve("release", 0)
  /\ UNCHANGED <<before, deliveryRows>>

\* The latest scope-change request is about the latest deliverable.
ChangeCurrent ==
  /\ changes # <<>> /\ deliverables # <<>>
  /\ Last(changes).deliverable = Last(deliverables).id

RequestRevision(role) ==
  /\ ChangeCurrent
  /\ Last(changes).class \in {"included_revision", "defect"}
  /\ Move(role, "REVISION_REQUESTED")
  /\ decisions' = Append(decisions,
       [decision |-> "REVISION_REQUESTED",
        deliverable |-> Last(deliverables).id, round |-> Cardinality(Revisions) + 1])
  /\ UNCHANGED <<approvals, before, deliverables, reviews, leadReviews, changes, orders>>

StartRevision(role) ==
  /\ state = "REVISION_REQUESTED"
  /\ Member(role)
  /\ PlanApproved
  /\ Move(role, "ACTIVE")
  /\ UNCHANGED <<approvals, before, deliveryRows>>

ReviewChangeOrder(role) ==
  /\ ChangeCurrent
  /\ Last(changes).class = "new_scope"
  /\ orders # <<>>
  /\ Last(orders).state = "DRAFT"
  /\ Last(orders).change = Last(changes).id
  /\ Move(role, "CHANGE_ORDER_REVIEW")
  /\ UNCHANGED <<approvals, before, deliveryRows>>

StartChange(role) ==
  /\ state = "CHANGE_ORDER_REVIEW"
  /\ orders # <<>>
  /\ Last(orders).state = "ACCEPTED"
  /\ PlanApproved
  /\ Move(role, "ACTIVE")
  /\ UNCHANGED <<approvals, before, deliveryRows>>

\* Back to the client; like every move to CLIENT_REVIEW it adds a release approval.
DropChange(role) ==
  /\ state = "CHANGE_ORDER_REVIEW"
  /\ orders # <<>>
  /\ Last(orders).state = "REJECTED"
  /\ Move(role, "CLIENT_REVIEW")
  /\ Approve("release", 0)
  /\ UNCHANGED <<before, deliveryRows>>

AcceptWork(role) ==
  /\ Move(role, "ACCEPTED")
  /\ decisions' = Append(decisions,
       [decision |-> "ACCEPTED", deliverable |-> 0, round |-> 0])
  /\ UNCHANGED <<approvals, before, deliverables, reviews, leadReviews, changes, orders>>

DivertFromDelivery(role, to) ==
  /\ Member(role)
  /\ Divert(role, to)
  /\ UNCHANGED <<before, deliveryRows>>

DeliverableRequests ==
  \E r \in Requests :
    \/ \E user \in Team : StartDeliverable(r, user)
    \/ \E artifact \in Artifacts, place \in 1..Len(deliverables) + 1 :
         CommitDeliverable(r, artifact, place)

ReviewRequests ==
  \/ \E r \in Requests :
       \/ \E n \in 1..Len(deliverables) : StartQA(r, n)
       \/ \E verdict \in Verdicts, place \in 1..Len(reviews) + 1 :
            CommitQA(r, verdict, place)
  \/ \E user \in Team, n \in 1..Len(deliverables),
        verdict \in {"RELEASE", "CHANGES_REQUIRED"} : ReviewAsLead(user, n, verdict)

ChangeRequests ==
  \/ \E r \in Requests :
       \/ BeginScopeChange(r)
       \/ \E defect, material \in BOOLEAN, place \in 1..Len(changes) + 1 :
            CommitScopeChange(r, defect, material, place)
  \/ \E n \in 1..Len(changes), amount \in Added, recipient \in Team :
       CreateChangeOrder(n, amount, recipient)
  \/ \E decision \in {"ACCEPTED", "REJECTED"} : DecideChangeOrder(decision)

DeliveryTransitions ==
  \E role \in Roles :
    \/ SubmitForQA(role)
    \/ PassQA(role)
    \/ ApproveRelease(role)
    \/ RequestRevision(role)
    \/ StartRevision(role)
    \/ ReviewChangeOrder(role)
    \/ StartChange(role)
    \/ DropChange(role)
    \/ AcceptWork(role)
    \/ \E to \in Detours : DivertFromDelivery(role, to)

\* Scope runs and quotes that began before the client accepted: a run that ends now
\* still overwrites the complexity, which the release check reads.  Staffing and plan
\* runs may end late too, but nothing of this phase reads their rows.
LateTerms == LateScoping /\ UNCHANGED deliveryRows

AbandonInDelivery(r) == Abandon(r) /\ UNCHANGED <<before, deliveryRows>>

DeliveryNext ==
  \/ DeliverableRequests
  \/ ReviewRequests
  \/ ChangeRequests
  \/ DeliveryTransitions
  \/ LateTerms
  \/ \E r \in Requests : AbandonInDelivery(r)

\* A project on which a student and a lead have just started, as ProjectStaffing
\* leaves it; the client may have paid more than the deposit.
StartedRecord(base, paid) ==
  /\ state = "ACTIVE"
  /\ version = 10
  /\ required = base
  /\ funded = paid
  /\ complexity \in {"LOW", "HIGH"}
  /\ ledger = [external_funding_evidence |-> paid, client_funding_liability |-> -paid,
               external_payout_evidence |-> 0]
  /\ approvals = {[subject |-> subject, ref |-> 1, decision |-> "APPROVED"] :
                   subject \in {"scope", "scope_and_quote", "staffing", "plan"}}

AcceptedTerms(base, paid, by, key) ==
  /\ scopes = <<"CLIENT_ACCEPTED">>
  /\ scopedBy = {by}
  /\ quotes = <<[scope |-> 1, base |-> base, status |-> "CLIENT_ACCEPTED"]>>
  /\ payments = {[key |-> key, amount |-> paid]}

TakenOffer(user, role, hours, pay) ==
  [to |-> user, role |-> role, hours |-> hours, pay |-> pay, version |-> 8, scope |-> 1,
   quote |-> 1, state |-> "ACCEPTED"]

StartedTeam(s, l, hours, pay) ==
  /\ shortlists = {1}
  /\ offers = <<TakenOffer(s, "student", hours, pay), TakenOffer(l, "technical lead", hours, pay)>>
  /\ assignments = {[user |-> s, role |-> "student", offer |-> 1],
                    [user |-> l, role |-> "technical lead", offer |-> 2]}
  /\ plans = <<[id |-> 1, scope |-> 1, version |-> 9, status |-> "APPROVED"]>>

DeliveryStart ==
  /\ \E base \in Bases, paid \in Amounts, by \in Prompts, key \in PayKeys :
       /\ paid >= base
       /\ StartedRecord(base, paid)
       /\ AcceptedTerms(base, paid, by, key)
       /\ req \in [Requests -> LateRequests(base)]
  /\ \E s \in Students, l \in Leads, hours \in Hours, pay \in Pays :
       StartedTeam(s, l, hours, pay)
  /\ DeliveryInit

DeliverySpec == DeliveryStart /\ [][DeliveryNext]_deliveryVars

\* The client who accepted a change order keeps sending funding evidence, and the
\* coordinator keeps asking for the move to ACTIVE.
LateFunding == FundingRequests /\ UNCHANGED <<staffingRows, deliveryRows>>
LateFundingCommit ==
  (\E r \in Requests : CommitFunding(r)) /\ UNCHANGED <<staffingRows, deliveryRows>>
PersistentSpec ==
  /\ DeliveryStart
  /\ [][DeliveryNext \/ LateFunding]_deliveryVars
  /\ WF_deliveryVars(LateFunding)
  /\ SF_deliveryVars(LateFundingCommit)
  /\ WF_deliveryVars(\E role \in Roles : StartChange(role))

----------------------------------------------------------------------------
(* Properties. *)

\* Nothing reaches the client without evidence, whatever reviews, deliverables and
\* scope runs came in late: with the client there is a sound deliverable that passed
\* QA; a project that is not of low complexity when its release is checked has a
\* deliverable that passed and was released by a lead who is not its author; and no
\* later row takes that release back.  The requirement is the one of the check: a
\* late scope run may raise the complexity of a project the client already has.
WithClient == {"AWAITING_RELEASE_APPROVAL", "CLIENT_REVIEW", "REVISION_REQUESTED",
               "CHANGE_ORDER_REVIEW", "ACCEPTED"}
SoundPassed ==
  \E n \in 1..Len(deliverables) :
    deliverables[n].artifact = "sound" /\ Passed(deliverables[n].id)
LeadReleased ==
  \E n \in 1..Len(deliverables), review \in leadReviews :
    /\ Passed(deliverables[n].id)
    /\ review.of = deliverables[n].id /\ review.verdict = "RELEASE"
    /\ review.by # deliverables[n].by
ReleaseStep ==
  /\ (state \notin WithClient /\ state' \in WithClient /\ complexity' # "LOW") => LeadReleased'
  /\ LeadReleased => LeadReleased'
ReleasedOnEvidence ==
  [](state \in WithClient => SoundPassed) /\ [][ReleaseStep]_deliveryVars

\* Work is funded: while the accepted quote is the latest one, the deposit is that
\* quote's price and every accepted change order, and outside the review of a change
\* order the client has paid it.
Priced == quotes[Len(quotes)].status = "CLIENT_ACCEPTED"
AcceptedOrders == {n \in 1..Len(orders) : orders[n].state = "ACCEPTED"}
FundedWork ==
  Priced =>
    /\ required = quotes[Len(quotes)].base
                    + SumFunctionOnSet([n \in 1..Len(orders) |-> orders[n].amount],
                                       AcceptedOrders)
    /\ state \in {"ACTIVE", "QA_REVIEW", "AWAITING_RELEASE_APPROVAL", "CLIENT_REVIEW",
                  "REVISION_REQUESTED", "ACCEPTED"} => funded >= required

\* A change order answers one request for new scope and no request gets two; while
\* one is decided it is the answer to the latest request, and its decision, made
\* once, is the one on record.
OrdersAnswerRequests ==
  /\ \A n \in 1..Len(orders) :
       /\ \E m \in 1..Len(changes) :
            changes[m].id = orders[n].change /\ changes[m].class = "new_scope"
       /\ \A m \in 1..Len(orders) : orders[m].change = orders[n].change => m = n
       /\ {a.decision : a \in {b \in approvals : b.subject = "change_order" /\ b.ref = n}}
            = {orders[n].state} \ {"DRAFT"}
  /\ state = "CHANGE_ORDER_REVIEW" => Last(orders).change = Last(changes).id

\* What docs/database-schema.md says: review decisions bind to the exact artifact.
\* The release check takes the latest review of any deliverable, so a deliverable
\* that no review passed can be the one the client is shown.
ReleasedIsReviewed ==
  state \in {"CLIENT_REVIEW", "ACCEPTED"} => Passed(Last(deliverables).id)

\* What docs/data-model.md and the test of a paid change order say: an accepted
\* change order adds funding, after which the work resumes.  Funding evidence is
\* only taken in AWAITING_DEPOSIT, so the order's amount can never be paid in.
ChangeCarriedOut ==
  (state = "CHANGE_ORDER_REVIEW" /\ Last(orders).state = "ACCEPTED") ~> state = "ACTIVE"
=============================================================================
