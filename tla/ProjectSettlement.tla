------------------------- MODULE ProjectSettlement -------------------------
(***************************************************************************)
(* From the client's acceptance to completion: payout allocations, their   *)
(* approval, and the evidence of payouts made outside the system.          *)
(*                                                                         *)
(* An allocation is made under the project's lock and approved and paid    *)
(* under its own, whatever the state of the project is by then.  The check *)
(* that a payout reference is new reads the payouts of other allocations,  *)
(* which no lock covers: recording a payout is two steps.                  *)
(***************************************************************************)
EXTENDS ProjectDelivery

CONSTANTS
  Coordinators,    \* users who create allocations
  Admins,          \* platform administrators; a user may be both
  PayoutAmounts,   \* amount_minor of allocations
  PayoutKeys,      \* Idempotency-Key values of payout evidence
  References,      \* external_reference of payout evidence
  MaxAllocations   \* bound on the allocations

ASSUME SettlementAssumption ==
  /\ PayoutAmounts \subseteq Nat \ {0}
  /\ MaxAllocations \in Nat

VARIABLES
  allocations,  \* payout_allocations, in the order they were made
  payouts       \* payouts

settlementRows == <<allocations, payouts>>
settlementVars == <<deliveryVars, settlementRows>>
\* Everything the phases before this one own, besides the row of the project.
earlier == <<before, deliveryRows>>

Nobody == "nobody"
Allocations ==
  [recipient : Team, amount : PayoutAmounts, status : {"PENDING", "APPROVED", "PAID"},
   creator : Coordinators, approver : Admins \cup {Nobody}]
Payouts == [allocation : Nat, key : PayoutKeys, reference : References, by : Admins]
PayoutCalls == [op : {"payout"}, row : Payouts]

SettlementTypeOK ==
  /\ DeliveryTypeOK
  /\ allocations \in Seq(Allocations)
  /\ payouts \subseteq Payouts
  /\ \A r \in Requests : In(r, "payout") => req[r] \in PayoutCalls

SettlementInit ==
  /\ allocations = <<>>
  /\ payouts = {}

----------------------------------------------------------------------------
(* create_payout_allocation. *)

WithStatus(statuses) == {n \in 1..Len(allocations) : allocations[n].status \in statuses}

AmountOf(rows) ==
  SumFunctionOnSet([n \in 1..Len(allocations) |-> allocations[n].amount], rows)

AllocatedTo(users) ==
  AmountOf({n \in 1..Len(allocations) : allocations[n].recipient \in users})

OrderShare(user) ==
  SumFunctionOnSet([n \in 1..Len(orders) |-> orders[n].shares[user]], AcceptedOrders)

\* The allocations of the project stay within what the client paid in.
\* Mutant: only what was paid out counts.
AffordablePaid(amount) == AmountOf(WithStatus({"PAID"})) + amount <= funded
Affordable(amount) == AllocatedTo(Team) + amount <= funded

\* A user with several assignments is paid by the offer of any one of them: the
\* query has no order.
CreateAllocation(creator, user, amount) ==
  /\ state = "ACCEPTED"
  /\ Len(allocations) < MaxAllocations
  /\ \E a \in assignments :
       /\ a.user = user
       /\ AllocatedTo({user}) + amount <= offers[a.offer].pay + OrderShare(user)
  /\ Affordable(amount)
  /\ allocations' = Append(allocations,
       [recipient |-> user, amount |-> amount, status |-> "PENDING", creator |-> creator,
        approver |-> Nobody])
  /\ UNCHANGED <<record, req, earlier, payouts>>

----------------------------------------------------------------------------
(* approve_payout_allocation and record_external_payout. *)

\* No request holds the row lock of this allocation.
Unlocked(n) ==
  \A r \in Requests : In(r, "payout") => req[r].row.allocation # n

\* Mutant: the creator approves.
MayApproveOwn(admin, n) == TRUE

MayApprove(admin, n) == allocations[n].creator # admin

ApproveAllocation(admin, n) ==
  /\ Unlocked(n)
  /\ allocations[n].status = "PENDING"
  /\ MayApprove(admin, n)
  /\ allocations' = [allocations EXCEPT ![n].status = "APPROVED", ![n].approver = admin]
  /\ UNCHANGED <<record, req, earlier, payouts>>

\* The key is looked up before the allocation is locked, the reference after.
StartPayout(r, admin, n, key, reference) ==
  /\ Free(r)
  /\ Unlocked(n)
  /\ \A p \in payouts : p.key # key
  /\ allocations[n].status = "APPROVED"
  /\ allocations[n].approver # admin
  /\ \A p \in payouts : p.reference # reference
  /\ Hold(r, [op |-> "payout", row |->
       [allocation |-> n, key |-> key, reference |-> reference, by |-> admin]])
  /\ UNCHANGED <<record, earlier, settlementRows>>

\* allocation_id and idempotency_key are UNIQUE; provider_reference is not.
CommitPayout(r) ==
  LET row == req[r].row IN
  /\ In(r, "payout")
  /\ \A p \in payouts : p.key # row.key /\ p.allocation # row.allocation
  /\ payouts' = payouts \cup {row}
  /\ allocations' = [allocations EXCEPT ![row.allocation].status = "PAID"]
  /\ Post("client_funding_liability", "external_payout_evidence",
          allocations[row.allocation].amount)
  /\ Release(r)
  /\ UNCHANGED <<state, version, required, funded, complexity, approvals, earlier>>

----------------------------------------------------------------------------
(* transition_project, the targets of this phase. *)

ApprovePayouts(role) ==
  /\ WithStatus({"APPROVED", "PAID"}) # {}
  /\ Move(role, "PAYOUT_PENDING")
  /\ UNCHANGED <<approvals, earlier, settlementRows>>

\* No code opens a row of disputes, so none is ever open.
\* Mutant: without a paid allocation.
CompleteUnpaid(role) ==
  /\ funded > 0
  /\ \E n \in 1..Len(decisions) : decisions[n].decision = "ACCEPTED"
  /\ Move(role, "COMPLETED")
  /\ UNCHANGED <<approvals, earlier, settlementRows>>

Complete(role) ==
  /\ funded > 0
  /\ \E n \in 1..Len(decisions) : decisions[n].decision = "ACCEPTED"
  /\ WithStatus({"PAID"}) # {}
  /\ Move(role, "COMPLETED")
  /\ UNCHANGED <<approvals, earlier, settlementRows>>

DivertFromSettlement(role, to) ==
  /\ Member(role)
  /\ Divert(role, to)
  /\ UNCHANGED <<earlier, settlementRows>>

AllocationRequests ==
  \/ \E creator \in Coordinators, user \in Team, amount \in PayoutAmounts :
       CreateAllocation(creator, user, amount)
  \/ \E admin \in Admins, n \in 1..Len(allocations) : ApproveAllocation(admin, n)

PayoutRequests ==
  \E r \in Requests :
    \/ \E admin \in Admins, n \in 1..Len(allocations), key \in PayoutKeys,
          reference \in References : StartPayout(r, admin, n, key, reference)
    \/ CommitPayout(r)

SettlementTransitions ==
  \E role \in Roles :
    \/ ApprovePayouts(role)
    \/ Complete(role)
    \/ \E to \in Detours : DivertFromSettlement(role, to)

AbandonInSettlement(r) == Abandon(r) /\ UNCHANGED <<earlier, settlementRows>>

SettlementNext ==
  \/ AllocationRequests
  \/ PayoutRequests
  \/ SettlementTransitions
  \/ \E r \in Requests : AbandonInSettlement(r)

\* A project the client accepted after one change order, as ProjectDelivery leaves
\* it: the deposit covers the quote and the order, and a learner has a share of it.
AcceptedRecord(base, added) ==
  /\ state = "ACCEPTED"
  /\ version = 19
  /\ required = base + added
  /\ funded = base + added
  /\ complexity = "LOW"
  /\ ledger = [external_funding_evidence |-> base + added,
               client_funding_liability |-> -(base + added), external_payout_evidence |-> 0]
  /\ approvals =
       {[subject |-> subject, ref |-> 1, decision |-> "APPROVED"] :
          subject \in {"scope", "scope_and_quote", "staffing", "plan"}}
       \cup {[subject |-> "release", ref |-> 0, decision |-> "APPROVED"],
             [subject |-> "change_order", ref |-> 1, decision |-> "ACCEPTED"]}

\* The student took two offers.
PaidTeam(s, l, hours, pay, other) ==
  /\ shortlists = {1}
  /\ offers = <<TakenOffer(s, "student", hours, pay), TakenOffer(s, "student", hours, other),
                TakenOffer(l, "technical lead", hours, pay)>>
  /\ assignments = {[user |-> offers[n].to, role |-> offers[n].role, offer |-> n] : n \in 1..3}
  /\ plans = <<[id |-> 1, scope |-> 1, version |-> 9, status |-> "APPROVED"]>>

AcceptedDelivery(s, added) ==
  /\ deliverables = <<[id |-> 1, by |-> s, artifact |-> "sound"]>>
  /\ reviews = <<[of |-> 1, verdict |-> "PASS"]>>
  /\ leadReviews = {}
  /\ changes = <<[id |-> 1, class |-> "new_scope", deliverable |-> 1]>>
  /\ orders = <<[change |-> 1, amount |-> added,
                 shares |-> [u \in Team |-> IF u = s THEN added ELSE 0], state |-> "ACCEPTED"]>>
  /\ decisions = <<[decision |-> "ACCEPTED", deliverable |-> 0, round |-> 0]>>

ClientAccepted ==
  /\ \E base \in Bases, added \in Added, by \in Prompts, key \in PayKeys, s \in Students,
        l \in Leads, hours \in Hours, pay, other \in Pays :
       /\ base + added \in Amounts
       /\ AcceptedRecord(base, added)
       /\ AcceptedTerms(base, base + added, by, key)
       /\ PaidTeam(s, l, hours, pay, other)
       /\ AcceptedDelivery(s, added)
  /\ req = [r \in Requests |-> Idle]

SettlementStart == ClientAccepted /\ SettlementInit

SettlementSpec == SettlementStart /\ [][SettlementNext]_settlementVars

----------------------------------------------------------------------------
(* Properties. *)

\* Money out never exceeds money in: what is allocated, to everyone and to each
\* recipient, stays within the funds and the recipient's entitlement, and the ledger
\* holds exactly the funding evidence and the payouts that have evidence.
PaidOut == SumFunction([p \in payouts |-> allocations[p.allocation].amount])
PaidWithinFunds ==
  /\ AllocatedTo(Team) <= funded
  /\ \A user \in Assigned :
       \E a \in assignments :
         /\ a.user = user
         /\ AllocatedTo({user}) <= offers[a.offer].pay + OrderShare(user)
  /\ ledger["external_funding_evidence"] = funded
  /\ ledger["external_payout_evidence"] = -PaidOut
  /\ ledger["client_funding_liability"] = PaidOut - funded
  /\ ledger["client_funding_liability"] <= 0

\* An allocation is paid once, on evidence of its own, by two people besides each
\* other: the creator did not approve it and the approver did not record it, also
\* when requests with the same key race.
PaidOnce ==
  /\ \A n \in 1..Len(allocations) :
       allocations[n].status = "PAID" <=> \E p \in payouts : p.allocation = n
  /\ \A p, q \in payouts : p.allocation = q.allocation \/ p.key = q.key => p = q
  /\ \A p \in payouts :
       LET a == allocations[p.allocation] IN
       /\ a.approver \in Admins \ {a.creator, p.by}

\* A completed project was accepted by the client and somebody was paid for it, and
\* once it is no longer ACCEPTED nothing more is allocated.
CompletedIsSettled ==
  /\ [](state = "COMPLETED" => payouts # {})
  /\ [][(state # "ACCEPTED") => Len(allocations') = Len(allocations)]_settlementVars

\* What the refusal "External payout reference was already recorded" says: one
\* reference is evidence of one payout.
ReferencesUnique ==
  \A p, q \in payouts : p.reference = q.reference => p = q
=============================================================================
