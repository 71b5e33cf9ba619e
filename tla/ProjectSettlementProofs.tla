----------------------- MODULE ProjectSettlementProofs -----------------------
(***************************************************************************)
(* What TLAPS proves of allocations and payouts, for any users, amounts,   *)
(* keys, references and requests in flight.                                *)
(***************************************************************************)
EXTENDS ProjectSettlement, ProjectDeliveryProofs

SettlementRowTypes ==
  /\ allocations \in Seq(Allocations)
  /\ payouts \subseteq Payouts
  /\ req = [r \in Requests |-> req[r]]
  /\ \A r \in Requests : In(r, "payout") => req[r] \in PayoutCalls

\* A request that will record a payout holds its allocation, approved by somebody
\* else, and nobody else holds it.
CallsHoldTheirRow ==
  \A r \in Requests : In(r, "payout") =>
    LET row == req[r].row IN
    /\ row.allocation \in 1..Len(allocations)
    /\ allocations[row.allocation].status = "APPROVED"
    /\ allocations[row.allocation].approver # row.by
    /\ \A q \in Requests : In(q, "payout") /\ req[q].row.allocation = row.allocation => q = r

\* An approval is an administrator's, and not the creator's.
ApprovedByAnother ==
  \A n \in 1..Len(allocations) : allocations[n].status \in {"APPROVED", "PAID"} =>
    allocations[n].approver \in Admins \ {allocations[n].creator}

\* A payout is of an allocation that exists.
PayoutsOnRows == \A p \in payouts : p.allocation \in 1..Len(allocations)

PayoutInv ==
  /\ SettlementRowTypes
  /\ PayoutsOnRows
  /\ CallsHoldTheirRow
  /\ ApprovedByAnother
  /\ PaidOnce

\* The initial states.
LEMMA InitPayouts == SettlementStart => PayoutInv /\ state = "ACCEPTED"
<1> SUFFICES ASSUME SettlementStart PROVE PayoutInv /\ state = "ACCEPTED"  OBVIOUS
<1>1. /\ allocations = <<>> /\ payouts = {} /\ state = "ACCEPTED"
      /\ req = [r \in Requests |-> Idle]
  BY DEF SettlementStart, SettlementInit, ClientAccepted, AcceptedRecord
<1>2. \A r \in Requests : ~In(r, "payout")  BY <1>1 DEF In, Idle
<1>3. 1..Len(allocations) = {}  BY <1>1
<1>4. SettlementRowTypes
  <2>1. req = [r \in Requests |-> req[r]]  BY <1>1
  <2> QED  BY <1>1, <1>2, <2>1 DEF SettlementRowTypes
<1>5. CallsHoldTheirRow  BY <1>2 DEF CallsHoldTheirRow
<1>6. ApprovedByAnother /\ PayoutsOnRows /\ PaidOnce
  BY <1>1, <1>3 DEF ApprovedByAnother, PayoutsOnRows, PaidOnce
<1> QED  BY <1>1, <1>4, <1>5, <1>6 DEF PayoutInv

\* Nothing about payouts changes when the rows stay and no request begins or ends one.
LEMMA PayoutsKept ==
  ASSUME PayoutInv, UNCHANGED settlementRows,
         req' = [r \in Requests |-> req'[r]],
         \A r \in Requests : In(r, "payout")' => In(r, "payout") /\ req'[r] = req[r]
  PROVE  PayoutInv'
<1>1. allocations' = allocations /\ payouts' = payouts  BY DEF settlementRows
<1>2. SettlementRowTypes'  BY <1>1 DEF PayoutInv, SettlementRowTypes
<1>3. CallsHoldTheirRow'  BY <1>1 DEF PayoutInv, CallsHoldTheirRow
<1>4. ApprovedByAnother'  BY <1>1 DEF PayoutInv, ApprovedByAnother
<1>5. PaidOnce'  BY <1>1 DEF PayoutInv, PaidOnce
<1>6. PayoutsOnRows'  BY <1>1 DEF PayoutInv, PayoutsOnRows
<1> QED  BY <1>2, <1>3, <1>4, <1>5, <1>6 DEF PayoutInv

\* The requests in flight of a step that touches none of them.
LEMMA CallsKept ==
  ASSUME PayoutInv, UNCHANGED <<req, settlementRows>>
  PROVE  PayoutInv'
  BY PayoutsKept DEF PayoutInv, SettlementRowTypes, In

\* create_payout_allocation: the new row is PENDING.
LEMMA CreateKeepsPayouts ==
  ASSUME PayoutInv, NEW creator \in Coordinators, NEW user \in Team,
         NEW amount \in PayoutAmounts, CreateAllocation(creator, user, amount)
  PROVE  PayoutInv' /\ state = "ACCEPTED"
<1> DEFINE row == [recipient |-> user, amount |-> amount, status |-> "PENDING",
                   creator |-> creator, approver |-> Nobody]
<1>1. /\ allocations' = Append(allocations, row) /\ payouts' = payouts /\ req' = req
      /\ state = "ACCEPTED"
  BY DEF CreateAllocation
<1>2. row \in Allocations /\ row.status = "PENDING"  BY DEF Allocations
<1> HIDE DEF row
<1>3. allocations \in Seq(Allocations) /\ Len(allocations) \in Nat
  BY DEF PayoutInv, SettlementRowTypes
<1>4. /\ allocations' \in Seq(Allocations) /\ Len(allocations') = Len(allocations) + 1
      /\ \A n \in 1..Len(allocations) : allocations'[n] = allocations[n]
      /\ allocations'[Len(allocations) + 1] = row
  BY <1>1, <1>2, <1>3
<1>5. SettlementRowTypes'  BY <1>1, <1>4 DEF PayoutInv, SettlementRowTypes, In
<1>6. CallsHoldTheirRow'
  BY <1>1, <1>3, <1>4 DEF PayoutInv, CallsHoldTheirRow, In
<1>7. \A n \in 1..Len(allocations') : n \in 1..Len(allocations)
                                      \/ (n = Len(allocations) + 1 /\ allocations'[n].status = "PENDING")
  BY <1>2, <1>3, <1>4
<1>8. ApprovedByAnother'  BY <1>4, <1>7 DEF PayoutInv, ApprovedByAnother
<1>9. PayoutsOnRows'  BY <1>1, <1>3, <1>4 DEF PayoutInv, PayoutsOnRows
<1>10. PaidOnce'
  <2>1. \A n \in 1..Len(allocations') :
          allocations'[n].status = "PAID" <=> \E p \in payouts' : p.allocation = n
    BY <1>1, <1>3, <1>4, <1>7 DEF PayoutInv, PaidOnce, PayoutsOnRows
  <2>2. \A p \in payouts' : allocations'[p.allocation] = allocations[p.allocation]
    BY <1>1, <1>4 DEF PayoutInv, PayoutsOnRows
  <2> QED  BY <1>1, <2>1, <2>2 DEF PayoutInv, PaidOnce
<1> QED  BY <1>1, <1>5, <1>6, <1>8, <1>9, <1>10 DEF PayoutInv

\* approve_payout_allocation: the row was PENDING, so no request holds it and no payout
\* is of it.
LEMMA ApproveKeepsPayouts ==
  ASSUME PayoutInv, NEW admin \in Admins, NEW n \in 1..Len(allocations),
         ApproveAllocation(admin, n)
  PROVE  PayoutInv'
<1>1. /\ allocations \in Seq(Allocations) /\ allocations[n] \in Allocations
      /\ allocations[n].status = "PENDING" /\ allocations[n].creator # admin
      /\ payouts' = payouts /\ req' = req
  BY DEF PayoutInv, SettlementRowTypes, ApproveAllocation, MayApprove
<1>2. PICK row : row = [allocations[n] EXCEPT !.status = "APPROVED", !.approver = admin]
  OBVIOUS
<1>3. /\ row \in Allocations /\ row.status = "APPROVED" /\ row.approver = admin
      /\ row.creator = allocations[n].creator
  BY <1>1, <1>2 DEF Allocations
<1>4. allocations' = [allocations EXCEPT ![n] = row]
  BY <1>2 DEF ApproveAllocation
<1>5. /\ allocations' \in Seq(Allocations) /\ Len(allocations') = Len(allocations)
      /\ allocations'[n] = row
      /\ \A k \in 1..Len(allocations) : k # n => allocations'[k] = allocations[k]
  BY <1>1, <1>3, <1>4
<1>6. SettlementRowTypes'  BY <1>1, <1>5 DEF PayoutInv, SettlementRowTypes, In
<1>7. \A r \in Requests : In(r, "payout") => req[r].row.allocation # n
  BY DEF ApproveAllocation, Unlocked
<1>8. CallsHoldTheirRow'
  BY <1>1, <1>5, <1>7 DEF PayoutInv, CallsHoldTheirRow, In
<1>9. ApprovedByAnother'  BY <1>1, <1>3, <1>5 DEF PayoutInv, ApprovedByAnother
<1>10. PayoutsOnRows'  BY <1>1, <1>5 DEF PayoutInv, PayoutsOnRows
<1>11. \A p \in payouts : p.allocation # n  BY <1>1 DEF PayoutInv, PaidOnce
<1>12. PaidOnce'
  <2>1. \A k \in 1..Len(allocations') :
          allocations'[k].status = "PAID" <=> \E p \in payouts' : p.allocation = k
    BY <1>1, <1>3, <1>5, <1>11 DEF PayoutInv, PaidOnce
  <2>2. \A p \in payouts' : allocations'[p.allocation] = allocations[p.allocation]
    BY <1>1, <1>5, <1>11 DEF PayoutInv, PayoutsOnRows
  <2> QED  BY <1>1, <2>1, <2>2 DEF PayoutInv, PaidOnce
<1> QED  BY <1>6, <1>8, <1>9, <1>10, <1>12 DEF PayoutInv

\* record_external_payout, up to the commit: the request takes a row nobody holds.
LEMMA StartKeepsPayouts ==
  ASSUME PayoutInv, NEW r \in Requests, NEW admin \in Admins,
         NEW n \in 1..Len(allocations), NEW key \in PayoutKeys, NEW reference \in References,
         StartPayout(r, admin, n, key, reference)
  PROVE  PayoutInv'
<1>1. PICK read : read = [op |-> "payout", row |->
        [allocation |-> n, key |-> key, reference |-> reference, by |-> admin]]
  OBVIOUS
<1>2. /\ read \in PayoutCalls /\ read.op = "payout" /\ read.row.allocation = n
      /\ read.row.by = admin
  <2>1. n \in Nat  BY DEF PayoutInv, SettlementRowTypes
  <2> QED  BY <1>1, <2>1 DEF PayoutCalls, Payouts
<1>3. /\ allocations' = allocations /\ payouts' = payouts
      /\ req' = [req EXCEPT ![r] = read]
      /\ allocations[n].status = "APPROVED" /\ allocations[n].approver # admin
  BY <1>1 DEF StartPayout, Hold, settlementRows
<1>4. /\ req'[r] = read /\ \A q \in Requests : q # r => req'[q] = req[q]
      /\ req' = [q \in Requests |-> req'[q]]
  BY <1>3 DEF PayoutInv, SettlementRowTypes
<1>5. \A q \in Requests : In(q, "payout") => req[q].row.allocation # n
  BY DEF StartPayout, Unlocked
<1>6. SettlementRowTypes'
  BY <1>2, <1>3, <1>4 DEF PayoutInv, SettlementRowTypes, In
<1>7. CallsHoldTheirRow'
  BY <1>2, <1>3, <1>4, <1>5 DEF PayoutInv, CallsHoldTheirRow, In
<1>8. ApprovedByAnother' /\ PayoutsOnRows' /\ PaidOnce'
  BY <1>3 DEF PayoutInv, ApprovedByAnother, PayoutsOnRows, PaidOnce
<1> QED  BY <1>6, <1>7, <1>8 DEF PayoutInv

\* record_external_payout, the commit: its row is still APPROVED by somebody else.
LEMMA CommitKeepsPayouts ==
  ASSUME PayoutInv, NEW r \in Requests, CommitPayout(r)
  PROVE  PayoutInv' /\ state' = state /\ payouts' # {}
<1>1. PICK row : row = req[r].row  OBVIOUS
<1>2. /\ In(r, "payout") /\ row \in Payouts
      /\ row.allocation \in 1..Len(allocations)
      /\ allocations[row.allocation].status = "APPROVED"
      /\ allocations[row.allocation].approver # row.by
  BY <1>1 DEF CommitPayout, PayoutInv, SettlementRowTypes, CallsHoldTheirRow, PayoutCalls
<1>3. PICK n : n = row.allocation  OBVIOUS
<1>4. /\ allocations \in Seq(Allocations) /\ allocations[n] \in Allocations
      /\ n \in 1..Len(allocations)
  BY <1>2, <1>3 DEF PayoutInv, SettlementRowTypes
<1>5. PICK paid : paid = [allocations[n] EXCEPT !.status = "PAID"]  OBVIOUS
<1>6. /\ paid \in Allocations /\ paid.status = "PAID"
      /\ paid.approver = allocations[n].approver /\ paid.creator = allocations[n].creator
  BY <1>4, <1>5 DEF Allocations
<1>7. /\ allocations' = [allocations EXCEPT ![n] = paid]
      /\ payouts' = payouts \cup {row}
      /\ req' = [req EXCEPT ![r] = Idle]
      /\ state' = state
      /\ \A p \in payouts : p.key # row.key /\ p.allocation # n
  BY <1>1, <1>3, <1>5 DEF CommitPayout, Release
<1>8. /\ allocations' \in Seq(Allocations) /\ Len(allocations') = Len(allocations)
      /\ allocations'[n] = paid
      /\ \A k \in 1..Len(allocations) : k # n => allocations'[k] = allocations[k]
  BY <1>4, <1>6, <1>7
<1>9. /\ req'[r] = Idle /\ \A q \in Requests : q # r => req'[q] = req[q]
      /\ req' = [q \in Requests |-> req'[q]]
  BY <1>7 DEF PayoutInv, SettlementRowTypes
<1>10. \A q \in Requests : In(q, "payout")' =>
         q # r /\ In(q, "payout") /\ req'[q] = req[q] /\ req[q].row.allocation # n
  BY <1>1, <1>2, <1>3, <1>9 DEF PayoutInv, CallsHoldTheirRow, In, Idle
<1>11. SettlementRowTypes'
  <2>1. payouts' \subseteq Payouts  BY <1>2, <1>7 DEF PayoutInv, SettlementRowTypes
  <2>2. \A q \in Requests : In(q, "payout")' => req'[q] \in PayoutCalls
    BY <1>10 DEF PayoutInv, SettlementRowTypes
  <2> QED  BY <1>8, <1>9, <2>1, <2>2 DEF SettlementRowTypes
<1>12. CallsHoldTheirRow'
  <2> SUFFICES ASSUME NEW q \in Requests, In(q, "payout")'
               PROVE  LET held == req'[q].row IN
                      /\ held.allocation \in 1..Len(allocations')
                      /\ allocations'[held.allocation].status = "APPROVED"
                      /\ allocations'[held.allocation].approver # held.by
                      /\ \A p \in Requests :
                           In(p, "payout")' /\ req'[p].row.allocation = held.allocation => p = q
    BY DEF CallsHoldTheirRow
  <2>1. /\ In(q, "payout") /\ req'[q] = req[q] /\ req[q].row.allocation # n
        /\ req[q].row.allocation \in 1..Len(allocations)
        /\ allocations[req[q].row.allocation].status = "APPROVED"
        /\ allocations[req[q].row.allocation].approver # req[q].row.by
    BY <1>10 DEF PayoutInv, CallsHoldTheirRow
  <2>2. allocations'[req[q].row.allocation] = allocations[req[q].row.allocation]
    BY <1>8, <2>1
  <2>3. ASSUME NEW p \in Requests, In(p, "payout")',
               req'[p].row.allocation = req[q].row.allocation
        PROVE  p = q
    BY <1>10, <2>1, <2>3 DEF PayoutInv, CallsHoldTheirRow
  <2> QED  BY <1>8, <2>1, <2>2, <2>3
<1>13. ApprovedByAnother'
  BY <1>2, <1>3, <1>6, <1>8 DEF PayoutInv, ApprovedByAnother
<1>14. PayoutsOnRows'
  BY <1>3, <1>4, <1>7, <1>8 DEF PayoutInv, PayoutsOnRows
<1>15. PaidOnce'
  <2>1. \A k \in 1..Len(allocations') :
          allocations'[k].status = "PAID" <=> \E p \in payouts' : p.allocation = k
    BY <1>3, <1>6, <1>7, <1>8 DEF PayoutInv, PaidOnce
  <2>2. \A p, q \in payouts' : p.allocation = q.allocation \/ p.key = q.key => p = q
    BY <1>3, <1>7 DEF PayoutInv, PaidOnce
  <2>3. ASSUME NEW p \in payouts'
        PROVE  allocations'[p.allocation].approver
                 \in Admins \ {allocations'[p.allocation].creator, p.by}
    <3>1. CASE p = row
      BY <1>2, <1>3, <1>4, <1>6, <1>8, <3>1 DEF PayoutInv, ApprovedByAnother
    <3>2. CASE p \in payouts
      BY <1>7, <1>8, <3>2 DEF PayoutInv, PaidOnce, PayoutsOnRows
    <3> QED  BY <1>7, <3>1, <3>2
  <2> QED  BY <2>1, <2>2, <2>3 DEF PaidOnce
<1> QED  BY <1>7, <1>11, <1>12, <1>13, <1>14, <1>15 DEF PayoutInv

\* transition_project and the requests that give up: no row of a payout changes.
LEMMA TransitionKeepsPayouts ==
  ASSUME PayoutInv, RecordAssumption, SettlementTransitions
  PROVE  PayoutInv' /\ (state' = "COMPLETED" => payouts # {}) /\ payouts' = payouts
         /\ Len(allocations') = Len(allocations)
<1>1. PICK role \in Roles :
        ApprovePayouts(role) \/ Complete(role) \/ \E to \in Detours : DivertFromSettlement(role, to)
  BY DEF SettlementTransitions
<1>2. UNCHANGED <<req, settlementRows>>
  BY <1>1 DEF ApprovePayouts, Complete, DivertFromSettlement, Divert, Move
<1>3. state' = "COMPLETED" => payouts # {}
  <2>1. CASE ApprovePayouts(role)  BY <2>1 DEF ApprovePayouts, Move
  <2>2. CASE Complete(role)
    BY <2>2 DEF Complete, WithStatus, PayoutInv, PaidOnce
  <2>3. ASSUME NEW to \in Detours, DivertFromSettlement(role, to)
        PROVE  state' # "COMPLETED"
    BY <2>3 DEF DivertFromSettlement, Divert, Move, RecordAssumption
  <2> QED  BY <1>1, <2>1, <2>2, <2>3
<1> QED  BY <1>2, <1>3, CallsKept DEF settlementRows

\* A case that is given up pays nobody.
LEMMA AbandonKeepsPayouts ==
  ASSUME PayoutInv, NEW r \in Requests, AbandonInSettlement(r)
  PROVE  PayoutInv' /\ UNCHANGED <<state, settlementRows>>
<1>1. /\ req' = [req EXCEPT ![r] = Idle] /\ UNCHANGED <<state, settlementRows>>
  BY DEF AbandonInSettlement, Abandon, Release, record
<1>2. /\ req' = [q \in Requests |-> req'[q]] /\ req'[r] = Idle
      /\ \A q \in Requests : q # r => req'[q] = req[q]
  BY <1>1 DEF PayoutInv, SettlementRowTypes
<1>3. \A q \in Requests : In(q, "payout")' => In(q, "payout") /\ req'[q] = req[q]
  BY <1>2 DEF In, Idle
<1> QED  BY <1>1, <1>2, <1>3, PayoutsKept

\* One step, whichever it is.
LEMMA StepKeepsPayouts ==
  ASSUME PayoutInv, RecordAssumption, state = "COMPLETED" => payouts # {},
         [SettlementNext]_settlementVars
  PROVE  /\ PayoutInv'
         /\ (state = "COMPLETED" => payouts # {})'
         /\ state # "ACCEPTED" => Len(allocations') = Len(allocations)
<1>1. ASSUME NEW creator \in Coordinators, NEW user \in Team, NEW amount \in PayoutAmounts,
             CreateAllocation(creator, user, amount)
      PROVE  PayoutInv' /\ state' = "ACCEPTED" /\ state = "ACCEPTED"
  <2>1. state' = state  BY <1>1 DEF CreateAllocation, record
  <2> QED  BY <1>1, <2>1, CreateKeepsPayouts
<1>2. ASSUME NEW admin \in Admins, NEW n \in 1..Len(allocations), ApproveAllocation(admin, n)
      PROVE  PayoutInv' /\ UNCHANGED <<state, payouts>> /\ Len(allocations') = Len(allocations)
  <2>1. UNCHANGED <<state, payouts>>  BY <1>2 DEF ApproveAllocation, record
  <2>2. Len(allocations') = Len(allocations)
    BY <1>2 DEF ApproveAllocation, PayoutInv, SettlementRowTypes
  <2> QED  BY <1>2, <2>1, <2>2, ApproveKeepsPayouts
<1>3. ASSUME PayoutRequests
      PROVE  PayoutInv' /\ state' = state /\ (payouts' = payouts \/ payouts' # {})
             /\ Len(allocations') = Len(allocations)
  <2>1. ASSUME NEW q \in Requests, NEW admin \in Admins, NEW n \in 1..Len(allocations),
               NEW key \in PayoutKeys, NEW reference \in References,
               StartPayout(q, admin, n, key, reference)
        PROVE  PayoutInv' /\ UNCHANGED <<state, settlementRows>>
    <3>1. UNCHANGED <<state, settlementRows>>  BY <2>1 DEF StartPayout, record
    <3> QED  BY <2>1, <3>1, StartKeepsPayouts
  <2>2. ASSUME NEW q \in Requests, CommitPayout(q)
        PROVE  PayoutInv' /\ state' = state /\ payouts' # {}
               /\ Len(allocations') = Len(allocations)
    <3>1. Len(allocations') = Len(allocations)
      BY <2>2 DEF CommitPayout, PayoutInv, SettlementRowTypes
    <3> QED  BY <2>2, <3>1, CommitKeepsPayouts
  <2> QED  BY <1>3, <2>1, <2>2 DEF PayoutRequests, settlementRows
<1>4. CASE SettlementTransitions  BY <1>4, TransitionKeepsPayouts
<1>5. ASSUME NEW r \in Requests, AbandonInSettlement(r)
      PROVE  PayoutInv' /\ UNCHANGED <<state, settlementRows>>
  BY <1>5, AbandonKeepsPayouts
<1>6. CASE UNCHANGED settlementVars
  <2>1. UNCHANGED <<state, req, settlementRows>>
    BY <1>6 DEF settlementVars, deliveryVars, staffingVars, scopingVars, record
  <2> QED  BY <2>1, CallsKept DEF settlementRows
<1>7. CASE AllocationRequests
  BY <1>1, <1>2, <1>7 DEF AllocationRequests
<1> QED  BY <1>3, <1>4, <1>5, <1>6, <1>7, TransitionKeepsPayouts
         DEF SettlementNext, settlementVars, settlementRows

\* Nobody is paid twice or alone: a paid allocation has exactly one payout, a key records
\* one payout, and who created, approved and recorded it check each other. The row lock
\* of the allocation carries it: a request that will commit holds an APPROVED row of its
\* own. (create_payout_allocation, approve_payout_allocation, record_external_payout)
THEOREM PayoutsAreMadeOnce == SettlementSpec => []PaidOnce
<1> DEFINE Inv == PayoutInv /\ (state = "COMPLETED" => payouts # {})
<1>1. SettlementStart => Inv  BY InitPayouts
<1>2. Inv /\ [SettlementNext]_settlementVars => Inv'  BY StepKeepsPayouts, RecordAssumption
<1>3. Inv => PaidOnce  BY DEF PayoutInv
<1> QED  BY <1>1, <1>2, <1>3, PTL DEF SettlementSpec

\* A completed project had a payout, and after ACCEPTED nothing more is allocated
\* (transition_project to COMPLETED, create_payout_allocation).
THEOREM CompletionIsSettled == SettlementSpec => CompletedIsSettled
<1> DEFINE Inv == PayoutInv /\ (state = "COMPLETED" => payouts # {})
<1>1. SettlementStart => Inv  BY InitPayouts
<1>2. Inv /\ [SettlementNext]_settlementVars => Inv'  BY StepKeepsPayouts, RecordAssumption
<1>3. Inv /\ [SettlementNext]_settlementVars
        => [state # "ACCEPTED" => Len(allocations') = Len(allocations)]_settlementVars
  BY StepKeepsPayouts, RecordAssumption
<1>4. Inv => (state = "COMPLETED" => payouts # {})  OBVIOUS
<1> HIDE DEF Inv
<1> QED  BY <1>1, <1>2, <1>3, <1>4, PTL DEF SettlementSpec, CompletedIsSettled

----------------------------------------------------------------------------
(* Types. *)

\* The types, one conjunct at a time.
LEMMA SettlementTypesAre ==
  SettlementTypeOK <=> DeliveryTypeOK /\ SettlementRowTypes
  BY DEF SettlementTypeOK, SettlementRowTypes, DeliveryTypeOK, StaffingTypeOK, ScopingTypeOK,
         RecordTypeOK

\* The phases before keep their types: this one writes the ledger, the state and the version.
LEMMA EarlierKeepsTypes ==
  ASSUME DeliveryTypeOK, PayoutInv, [SettlementNext]_settlementVars
  PROVE  DeliveryTypeOK'
<1>0. DeliveryRowTypes /\ RecordTypeOK /\ Idle.op = "idle"
  BY DEF DeliveryTypeOK, DeliveryRowTypes, StaffingTypeOK, ScopingTypeOK, Idle
<1>1. UNCHANGED <<deliveryRows, before>>
  BY DEF SettlementNext, AllocationRequests, CreateAllocation, ApproveAllocation,
         PayoutRequests, StartPayout, CommitPayout, SettlementTransitions, ApprovePayouts,
         Complete, DivertFromSettlement, AbandonInSettlement, settlementVars, deliveryVars,
         staffingVars, scopingVars, before, earlier
<1>2. DeliveryRowTypes'  BY <1>0, <1>1 DEF deliveryRows, DeliveryRowTypes
<1>3. CASE UNCHANGED <<record, req>>
  <2>1. RecordTypeOK'  BY <1>0, <1>3 DEF record, RecordTypeOK
  <2> QED  BY <1>1, <1>2, <1>3, <2>1, LockedKeepsDeliveryTypes
<1>4. CASE AllocationRequests \/ UNCHANGED settlementVars
  BY <1>3, <1>4 DEF AllocationRequests, CreateAllocation, ApproveAllocation, settlementVars,
                    deliveryVars, staffingVars, scopingVars
<1>5. CASE SettlementTransitions
  <2>1. PICK role, to : Move(role, to) /\ approvals' = approvals
    BY <1>5 DEF SettlementTransitions, ApprovePayouts, Complete, DivertFromSettlement, Divert
  <2> QED  BY <1>0, <1>1, <1>2, <2>1, MoveKeepsDeliveryTypes DEF RecordTypeOK
<1>6. ASSUME NEW r \in Requests, AbandonInSettlement(r) PROVE DeliveryTypeOK'
  BY <1>1, <1>2, <1>6, ReleaseKeepsDeliveryTypes DEF AbandonInSettlement, Abandon
<1>7. ASSUME NEW r \in Requests, NEW admin, NEW n, NEW key, NEW reference,
             StartPayout(r, admin, n, key, reference)
      PROVE  DeliveryTypeOK'
  <2>1. PICK read : Hold(r, read) /\ read.op = "payout" /\ UNCHANGED record
    BY <1>7 DEF StartPayout
  <2>2. ScopingCall(read) /\ DeliveryCall(read) /\ read.op \notin {"staff", "plan"}
    BY <2>1 DEF ScopingCall, DeliveryCall
  <2> QED  BY <1>1, <1>2, <2>1, <2>2, HoldKeepsDeliveryTypes
<1>8. ASSUME NEW r \in Requests, CommitPayout(r) PROVE DeliveryTypeOK'
  <2>1. /\ req' = [req EXCEPT ![r] = Idle] /\ req = [q \in Requests |-> req[q]]
        /\ UNCHANGED <<scopingRows, staffingRows, deliveryRows>>
        /\ UNCHANGED <<state, version, required, funded, complexity, approvals>>
    BY <1>0, <1>1, <1>8 DEF CommitPayout, Release, before, RecordTypeOK
  <2>2. ledger' \in [Accounts -> Int]
    <3>1. PICK amount : Post("client_funding_liability", "external_payout_evidence", amount)
                        /\ amount \in Nat
      <4>1. /\ req[r].row.allocation \in 1..Len(allocations)
            /\ allocations \in Seq(Allocations)
        BY <1>8 DEF CommitPayout, PayoutInv, CallsHoldTheirRow, SettlementRowTypes
      <4>2. allocations[req[r].row.allocation] \in Allocations  BY <4>1
      <4>3. allocations[req[r].row.allocation].amount \in Nat
        BY <4>2, SettlementAssumption DEF Allocations, SettlementAssumption
      <4> QED  BY <1>8, <4>3 DEF CommitPayout
    <3> QED  BY <1>0, <3>1 DEF Post, RecordTypeOK, Accounts
  <2>3. RecordTypeOK'  BY <1>0, <2>1, <2>2 DEF RecordTypeOK
  <2>4. \A q \in Requests : req'[q] = req[q] \/ (req'[q] = Idle /\ req'[q].op = "idle")
    BY <1>0, <2>1
  <2>5. ScopingTypeOK'
    BY <2>1, <2>3, <2>4 DEF DeliveryTypeOK, StaffingTypeOK, ScopingTypeOK, scopingRows, In
  <2>6. StaffingTypeOK'
    BY <2>1, <2>4, <2>5 DEF DeliveryTypeOK, StaffingTypeOK, scopingRows, staffingRows, In
  <2> QED  BY <1>2, <2>4, <2>6 DEF DeliveryTypeOK, DeliveryRowTypes, In
<1> QED
  BY <1>4, <1>5, <1>6, <1>7, <1>8 DEF SettlementNext, PayoutRequests

\* The initial states.
LEMMA InitSettlementTypes == SettlementStart => SettlementTypeOK
<1> SUFFICES ASSUME SettlementStart PROVE SettlementTypeOK  OBVIOUS
<1> USE ScopingAssumption, DeliveryAssumption
<1>1. PICK base \in Bases, added \in Added, by \in Prompts, key \in PayKeys, s \in Students :
        /\ base + added \in Amounts
        /\ AcceptedRecord(base, added)
        /\ AcceptedTerms(base, base + added, by, key)
        /\ \E l \in Leads, hours \in Hours, pay, other \in Pays :
             PaidTeam(s, l, hours, pay, other)
        /\ AcceptedDelivery(s, added)
  BY DEF SettlementStart, ClientAccepted
<1>2. PICK l \in Leads, hours \in Hours, pay \in Pays, other \in Pays :
        PaidTeam(s, l, hours, pay, other)
  BY <1>1
<1>3. req = [r \in Requests |-> Idle]  BY DEF SettlementStart, ClientAccepted
<1>4. \A r \in Requests : req[r] = Idle /\ req[r].op = "idle"  BY <1>3 DEF Idle
<1>5. base \in Nat /\ added \in Nat /\ s \in Team /\ l \in Team  BY DEF Team
<1>6. RecordTypeOK
  <2>1. ledger \in [Accounts -> Int]  BY <1>1, <1>5 DEF Accounts, AcceptedRecord
  <2>2. approvals \subseteq Approvals
    BY <1>1 DEF Approvals, Subjects, AcceptedRecord
  <2>3. req = [r \in Requests |-> req[r]]  BY <1>3
  <2> QED  BY <1>1, <1>5, <2>1, <2>2, <2>3 DEF RecordTypeOK, States, AcceptedRecord
<1>7. ScopingTypeOK
  <2>1. scopes \in Seq(ScopeStatus) /\ scopedBy \subseteq Prompts
    BY <1>1 DEF ScopeStatus, AcceptedTerms
  <2>2. quotes \in Seq(Quotes)
    <3>1. [scope |-> 1, base |-> base, status |-> "CLIENT_ACCEPTED"] \in Quotes
      BY <1>5 DEF Quotes
    <3> QED  BY <1>1, <3>1 DEF AcceptedTerms
  <2>3. payments \subseteq Payments  BY <1>1 DEF Payments, AcceptedTerms
  <2> QED  BY <1>4, <1>6, <2>1, <2>2, <2>3 DEF ScopingTypeOK, In
<1>8. StaffingTypeOK
  <2>1. PICK first, second, third :
          /\ first = TakenOffer(s, "student", hours, pay)
          /\ second = TakenOffer(s, "student", hours, other)
          /\ third = TakenOffer(l, "technical lead", hours, pay)
    OBVIOUS
  <2>2. shortlists = {1}  BY <1>2, Zenon DEF PaidTeam
  <2>3. offers = <<first, second, third>>  BY <1>2, <2>1, Zenon DEF PaidTeam
  <2>4. first \in Offers /\ second \in Offers /\ third \in Offers
    BY <1>5, <2>1 DEF TakenOffer, Offers, OfferRoles
  <2>5. offers \in Seq(Offers)  BY <2>3, <2>4
  <2>6. assignments =
          {[user |-> offers[n].to, role |-> offers[n].role, offer |-> n] : n \in 1..3}
    BY <1>2, Zenon DEF PaidTeam
  <2>7. \A n \in 1..3 : offers[n] \in Offers  BY <2>3, <2>4
  <2>8. assignments \subseteq Assignments  BY <2>6, <2>7 DEF Offers, Assignments
  <2>9. plans \in Seq(Plans)
    <3>1. [id |-> 1, scope |-> 1, version |-> 9, status |-> "APPROVED"] \in Plans  BY DEF Plans
    <3>2. plans = <<[id |-> 1, scope |-> 1, version |-> 9, status |-> "APPROVED"]>>
      BY <1>2, Zenon DEF PaidTeam
    <3> QED  BY <3>1, <3>2
  <2>10. Len(scopes) = 1  BY <1>1 DEF AcceptedTerms
  <2> QED  BY <1>4, <1>7, <2>2, <2>5, <2>8, <2>9, <2>10 DEF StaffingTypeOK, In
<1>9. DeliveryRowTypes
  <2>1. PICK deliverable, review, change, order, decision :
          /\ deliverable = [id |-> 1, by |-> s, artifact |-> "sound"]
          /\ review = [of |-> 1, verdict |-> "PASS"]
          /\ change = [id |-> 1, class |-> "new_scope", deliverable |-> 1]
          /\ order = [change |-> 1, amount |-> added,
                      shares |-> [u \in Team |-> IF u = s THEN added ELSE 0],
                      state |-> "ACCEPTED"]
          /\ decision = [decision |-> "ACCEPTED", deliverable |-> 0, round |-> 0]
    OBVIOUS
  <2>2. /\ deliverables = <<deliverable>> /\ reviews = <<review>> /\ leadReviews = {}
        /\ changes = <<change>> /\ orders = <<order>> /\ decisions = <<decision>>
    BY <1>1, <2>1, Zenon DEF AcceptedDelivery
  <2>3. deliverable \in Deliverables  BY <1>5, <2>1 DEF Deliverables, Artifacts
  <2>4. review \in Reviews  BY <2>1 DEF Reviews, Verdicts
  <2>5. change \in Changes  BY <2>1 DEF Changes, Classes
  <2>6. order \in Orders  BY <1>5, <2>1 DEF Orders
  <2>7. decision \in Decisions  BY <2>1 DEF Decisions
  <2> QED  BY <2>2, <2>3, <2>4, <2>5, <2>6, <2>7 DEF DeliveryRowTypes
<1>10. DeliveryTypeOK  BY <1>4, <1>8, <1>9 DEF DeliveryTypeOK, DeliveryRowTypes, In
<1>11. SettlementRowTypes  BY InitPayouts DEF PayoutInv
<1> QED  BY <1>10, <1>11, SettlementTypesAre

\* Every variable stays in its set, and a request that will record a payout holds a row
\* of the table it will insert.
THEOREM SettlementTypes == SettlementSpec => []SettlementTypeOK
<1> DEFINE Inv == DeliveryTypeOK /\ PayoutInv /\ (state = "COMPLETED" => payouts # {})
<1>1. SettlementStart => Inv
  BY InitPayouts, InitSettlementTypes DEF SettlementTypeOK
<1>2. Inv /\ [SettlementNext]_settlementVars => Inv'
  BY StepKeepsPayouts, EarlierKeepsTypes, RecordAssumption
<1>3. Inv => SettlementTypeOK  BY SettlementTypesAre DEF PayoutInv
<1> HIDE DEF Inv
<1> QED  BY <1>1, <1>2, <1>3, PTL DEF SettlementSpec

----------------------------------------------------------------------------
(* Money. *)

\* The sums over the rows of allocations, and over the payouts that have evidence.
SumOf(rows, ns) == SumFunctionOnSet([n \in 1..Len(rows) |-> rows[n].amount], ns)
RowsOf(rows, users) == {n \in 1..Len(rows) : rows[n].recipient \in users}
PaidRows(rows) == {n \in 1..Len(rows) : rows[n].status = "PAID"}
Payable(rows, paid) == [p \in paid |-> rows[p.allocation].amount]
SumOfPayouts(rows, paid) == SumFunctionOnSet(Payable(rows, paid), paid)

\* A sum of natural numbers is one.
LEMMA SumIsNatural ==
  ASSUME NEW rows \in Seq(Allocations), NEW ns, ns \subseteq 1..Len(rows)
  PROVE  /\ IsFiniteSet(ns) /\ SumOf(rows, ns) \in Nat
         /\ \A n \in 1..Len(rows) : rows[n].amount \in Nat
<1>1. Len(rows) \in Nat /\ \A n \in 1..Len(rows) : rows[n] \in Allocations
  OBVIOUS
<1>2. \A n \in 1..Len(rows) : rows[n].amount \in Nat
  BY <1>1, SettlementAssumption DEF SettlementAssumption, Allocations
<1>3. IsFiniteSet(ns)
  <2>1. IsFiniteSet(1..Len(rows))  BY <1>1, FS_Interval
  <2> QED  BY <2>1, FS_Subset
<1>4. PICK f : f = [n \in 1..Len(rows) |-> rows[n].amount]  OBVIOUS
<1>5. \A n \in ns : f[n] \in Nat  BY <1>2, <1>4
<1> QED  BY <1>2, <1>3, <1>4, <1>5, TotalIsNatural DEF SumOf

\* Rows of which the amounts stay have the same sum.
LEMMA SumKept ==
  ASSUME NEW a \in Seq(Allocations), NEW b \in Seq(Allocations), NEW ns,
         ns \subseteq 1..Len(a), ns \subseteq 1..Len(b), \A n \in ns : b[n].amount = a[n].amount
  PROVE  SumOf(b, ns) = SumOf(a, ns)
<1>1. IsFiniteSet(ns)  BY SumIsNatural
<1>2. PICK f, g : /\ f = [n \in 1..Len(b) |-> b[n].amount]
                  /\ g = [n \in 1..Len(a) |-> a[n].amount]
  OBVIOUS
<1>3. \A n \in ns : f[n] = g[n]  BY <1>2
<1>4. SumFunctionOnSet(f, ns) = SumFunctionOnSet(g, ns)  BY <1>1, <1>3, TotalCongruence
<1> QED  BY <1>2, <1>4 DEF SumOf

\* One more element adds its value.
LEMMA SumAdds ==
  ASSUME NEW rows \in Seq(Allocations), NEW ns, ns \subseteq 1..Len(rows),
         NEW n \in 1..Len(rows), n \notin ns
  PROVE  SumOf(rows, ns \cup {n}) = rows[n].amount + SumOf(rows, ns)
<1>1. IsFiniteSet(ns) /\ \A m \in 1..Len(rows) : rows[m].amount \in Nat  BY SumIsNatural
<1>2. PICK f : f = [m \in 1..Len(rows) |-> rows[m].amount]  OBVIOUS
<1>3. f[n] = rows[n].amount /\ f[n] \in Nat /\ \A m \in ns : f[m] \in Nat  BY <1>1, <1>2
<1> QED  BY <1>1, <1>2, <1>3, TotalAdds DEF SumOf

\* A subset sums to no more.
LEMMA SumIsMonotone ==
  ASSUME NEW rows \in Seq(Allocations), NEW ns, ns \subseteq 1..Len(rows), NEW ms, ms \subseteq ns
  PROVE  SumOf(rows, ms) <= SumOf(rows, ns)
<1>1. IsFiniteSet(ns) /\ \A m \in 1..Len(rows) : rows[m].amount \in Nat  BY SumIsNatural
<1>2. PICK f : f = [m \in 1..Len(rows) |-> rows[m].amount]  OBVIOUS
<1>3. \A m \in ns : f[m] \in Nat  BY <1>1, <1>2
<1> QED  BY <1>1, <1>2, <1>3, TotalMonotone DEF SumOf

\* What is paid stays when no payout changes.
LEMMA PayoutsSumKept ==
  ASSUME NEW a, NEW b, NEW paid, IsFiniteSet(paid),
         \A p \in paid : b[p.allocation].amount = a[p.allocation].amount
  PROVE  SumOfPayouts(b, paid) = SumOfPayouts(a, paid)
<1>1. Payable(b, paid) = Payable(a, paid)  BY DEF Payable
<1> QED  BY <1>1 DEF SumOfPayouts

\* A payout adds its amount to what is paid.
LEMMA PayoutsSumAdds ==
  ASSUME NEW rows, NEW paid, IsFiniteSet(paid), NEW p, p \notin paid,
         \A q \in paid \cup {p} : rows[q.allocation].amount \in Nat
  PROVE  SumOfPayouts(rows, paid \cup {p})
           = rows[p.allocation].amount + SumOfPayouts(rows, paid)
<1>1. PICK f : f = Payable(rows, paid \cup {p})  OBVIOUS
<1>2. \A q \in paid \cup {p} : f[q] = rows[q.allocation].amount  BY <1>1 DEF Payable
<1>3. SumFunctionOnSet(f, paid \cup {p}) = f[p] + SumFunctionOnSet(f, paid)
  BY <1>2, TotalAdds
<1>4. SumFunctionOnSet(f, paid) = SumOfPayouts(rows, paid)
  <2>1. \A q \in paid : f[q] = Payable(rows, paid)[q]  BY <1>2 DEF Payable
  <2> QED  BY <2>1, TotalCongruence DEF SumOfPayouts
<1> QED  BY <1>1, <1>2, <1>3, <1>4 DEF SumOfPayouts

\* This much is within what one offer of the recipient and the change orders pay.
WithinOffer(user, total) ==
  \E a \in assignments : a.user = user /\ total <= offers[a.offer].pay + OrderShare(user)

MoneyInv ==
  /\ DeliveryTypeOK
  /\ PayoutInv
  /\ IsFiniteSet(payouts)
  /\ SumOf(allocations, RowsOf(allocations, Team)) <= funded
  /\ \A user \in Assigned : WithinOffer(user, SumOf(allocations, RowsOf(allocations, {user})))
  /\ SumOfPayouts(allocations, payouts) = SumOf(allocations, PaidRows(allocations))
  /\ ledger["external_funding_evidence"] = funded
  /\ ledger["external_payout_evidence"] = 0 - SumOf(allocations, PaidRows(allocations))
  /\ ledger["client_funding_liability"] = SumOf(allocations, PaidRows(allocations)) - funded

\* What is invariant gives the property.
LEMMA MoneyInvImplies == MoneyInv => PaidWithinFunds
<1> SUFFICES ASSUME MoneyInv PROVE PaidWithinFunds  OBVIOUS
<1>1. /\ allocations \in Seq(Allocations) /\ funded \in Nat
      /\ \A n \in 1..Len(allocations) : allocations[n] \in Allocations
  BY DEF MoneyInv, PayoutInv, SettlementRowTypes, DeliveryTypeOK, StaffingTypeOK,
         ScopingTypeOK, RecordTypeOK
<1>2. \A users : AllocatedTo(users) = SumOf(allocations, RowsOf(allocations, users))
  BY DEF AllocatedTo, AmountOf, SumOf, RowsOf
<1>3. PaidOut = SumOf(allocations, PaidRows(allocations))
  <2>1. PaidOut = SumOfPayouts(allocations, payouts)
    BY DEF PaidOut, SumFunction, SumOfPayouts, Payable, SumFunctionOnSet, FoldFunction
  <2> QED  BY <2>1 DEF MoneyInv
<1>4. PaidRows(allocations) \subseteq RowsOf(allocations, Team)
      /\ RowsOf(allocations, Team) \subseteq 1..Len(allocations)
  BY <1>1 DEF PaidRows, RowsOf, Allocations
<1>5. PaidOut <= AllocatedTo(Team)  BY <1>1, <1>2, <1>3, <1>4, SumIsMonotone
<1>6. PaidOut \in Nat /\ AllocatedTo(Team) \in Nat
  <2>1. PaidRows(allocations) \subseteq 1..Len(allocations)  BY DEF PaidRows
  <2> QED  BY <1>1, <1>2, <1>3, <1>4, <2>1, SumIsNatural
<1>7. AllocatedTo(Team) <= funded  BY <1>2 DEF MoneyInv
<1>8. PaidOut - funded <= 0 /\ 0 - PaidOut = -PaidOut  BY <1>1, <1>5, <1>6, <1>7
<1>9. \A user \in Assigned : WithinOffer(user, AllocatedTo({user}))
  BY <1>2 DEF MoneyInv
<1>10. \A user \in Assigned : \E a \in assignments :
         a.user = user /\ AllocatedTo({user}) <= offers[a.offer].pay + OrderShare(user)
  BY <1>9 DEF WithinOffer
<1> QED  BY <1>3, <1>7, <1>8, <1>10 DEF MoneyInv, PaidWithinFunds

\* The initial states.
LEMMA InitMoney == SettlementStart => MoneyInv
<1> SUFFICES ASSUME SettlementStart PROVE MoneyInv  OBVIOUS
<1>1. allocations = <<>> /\ payouts = {}  BY DEF SettlementStart, SettlementInit
<1>2. DeliveryTypeOK /\ PayoutInv
  BY InitPayouts, InitSettlementTypes DEF SettlementTypeOK
<1>3. \A users : RowsOf(allocations, users) = {}  BY <1>1 DEF RowsOf
<1>4. PaidRows(allocations) = {}  BY <1>1 DEF PaidRows
<1>5. SumOf(allocations, {}) = 0 /\ SumOfPayouts(allocations, {}) = 0
  BY TotalOfNone DEF SumOf, SumOfPayouts
<1>6. PICK base \in Bases, added \in Added : AcceptedRecord(base, added)
  BY DEF SettlementStart, ClientAccepted
<1>7. funded \in Nat /\ ledger["external_funding_evidence"] = funded
      /\ ledger["external_payout_evidence"] = 0 /\ ledger["client_funding_liability"] = 0 - funded
  <2>1. base + added \in Nat
    BY ScopingAssumption, DeliveryAssumption DEF ScopingAssumption, DeliveryAssumption
  <2> QED  BY <1>6, <2>1 DEF AcceptedRecord
<1>8. ASSUME NEW user \in Assigned PROVE WithinOffer(user, 0)
  <2>1. PICK a \in assignments : a.user = user  BY DEF Assigned
  <2>2. offers[a.offer].pay \in Nat
    <3>1. PICK n \in 1..3 : a.offer = n /\ Len(offers) = 3
      <4>1. PICK s, l, hours, pay, other : PaidTeam(s, l, hours, pay, other)
        BY DEF SettlementStart, ClientAccepted
      <4>2. PICK n \in 1..3 :
              a = [user |-> offers[n].to, role |-> offers[n].role, offer |-> n]
        BY <4>1 DEF PaidTeam
      <4>3. PICK first, second, third : offers = <<first, second, third>>
        BY <4>1, Zenon DEF PaidTeam
      <4> QED  BY <4>2, <4>3
    <3>2. offers \in Seq(Offers)  BY <1>2 DEF DeliveryTypeOK, StaffingTypeOK
    <3>3. offers[n] \in Offers
      <4>1. n \in 1..Len(offers)  BY <3>1
      <4> QED  BY <3>2, <4>1
    <3> QED  BY <3>1, <3>3, StaffingAssumption DEF Offers, StaffingAssumption
  <2>3. OrderShare(user) \in Nat
    <3>1. orders \in Seq(Orders)  BY <1>2 DEF DeliveryTypeOK
    <3>2. user \in Team  BY <1>2 DEF Assigned, DeliveryTypeOK, StaffingTypeOK, Assignments
    <3>3. PICK f : f = [n \in 1..Len(orders) |-> orders[n].shares[user]]  OBVIOUS
    <3>4. AcceptedOrders \subseteq 1..Len(orders) /\ IsFiniteSet(AcceptedOrders)
      BY <3>1, AcceptedAmounts DEF AcceptedOrders, AcceptedIn
    <3>5. \A n \in AcceptedOrders : f[n] \in Nat
      <4> SUFFICES ASSUME NEW n \in AcceptedOrders PROVE f[n] \in Nat  OBVIOUS
      <4>1. orders[n] \in Orders  BY <3>1, <3>4
      <4>2. orders[n].shares \in [Team -> Nat]  BY <4>1 DEF Orders
      <4> QED  BY <3>2, <3>3, <3>4, <4>2
    <3> QED  BY <3>3, <3>4, <3>5, TotalIsNatural DEF OrderShare
  <2> QED  BY <2>1, <2>2, <2>3 DEF WithinOffer
<1>9. IsFiniteSet(payouts)  BY <1>1, FS_EmptySet
<1>10. \A user \in Assigned : WithinOffer(user, SumOf(allocations, RowsOf(allocations, {user})))
  BY <1>3, <1>5, <1>8
<1>11. /\ SumOf(allocations, RowsOf(allocations, Team)) = 0
       /\ SumOf(allocations, PaidRows(allocations)) = 0
       /\ SumOfPayouts(allocations, payouts) = 0
  BY <1>1, <1>3, <1>4, <1>5
<1>12. /\ SumOf(allocations, RowsOf(allocations, Team)) <= funded
       /\ ledger["external_payout_evidence"] = 0 - SumOf(allocations, PaidRows(allocations))
       /\ ledger["client_funding_liability"] = SumOf(allocations, PaidRows(allocations)) - funded
  BY <1>7, <1>11
<1> QED  BY <1>2, <1>7, <1>9, <1>10, <1>11, <1>12 DEF MoneyInv

\* A step that leaves the amounts, the recipients and what is paid alone.
LEMMA MoneyKept ==
  ASSUME MoneyInv, DeliveryTypeOK', PayoutInv',
         UNCHANGED <<assignments, offers, orders, payouts, funded, ledger>>,
         Len(allocations') = Len(allocations),
         \A n \in 1..Len(allocations) :
           /\ allocations'[n].amount = allocations[n].amount
           /\ allocations'[n].recipient = allocations[n].recipient
           /\ allocations'[n].status = "PAID" <=> allocations[n].status = "PAID"
  PROVE  MoneyInv'
<1>1. allocations \in Seq(Allocations) /\ allocations' \in Seq(Allocations)
  BY DEF MoneyInv, PayoutInv, SettlementRowTypes
<1>2. \A users : RowsOf(allocations', users) = RowsOf(allocations, users)
      /\ RowsOf(allocations, users) \subseteq 1..Len(allocations)
  BY DEF RowsOf
<1>3. PaidRows(allocations') = PaidRows(allocations)
      /\ PaidRows(allocations) \subseteq 1..Len(allocations)
  BY DEF PaidRows
<1>4. \A ns : ns \subseteq 1..Len(allocations) => SumOf(allocations', ns) = SumOf(allocations, ns)
  BY <1>1, SumKept
<1>5. SumOfPayouts(allocations', payouts) = SumOfPayouts(allocations, payouts)
  <2>1. \A p \in payouts : allocations'[p.allocation].amount = allocations[p.allocation].amount
    BY DEF MoneyInv, PayoutInv, PayoutsOnRows
  <2> QED  BY <2>1, PayoutsSumKept DEF MoneyInv
<1>6. \A user, total : WithinOffer(user, total)' <=> WithinOffer(user, total)
  BY DEF WithinOffer, OrderShare, AcceptedOrders
<1>7. Assigned' = Assigned  BY DEF Assigned
<1>8. /\ SumOf(allocations', RowsOf(allocations', Team)) = SumOf(allocations, RowsOf(allocations, Team))
      /\ \A user : SumOf(allocations', RowsOf(allocations', {user}))
                     = SumOf(allocations, RowsOf(allocations, {user}))
      /\ SumOf(allocations', PaidRows(allocations')) = SumOf(allocations, PaidRows(allocations))
  BY <1>2, <1>3, <1>4
<1>9. (\A user \in Assigned : WithinOffer(user, SumOf(allocations, RowsOf(allocations, {user}))))'
  BY ZenonT(60), <1>7, <1>8 DEF MoneyInv, WithinOffer, OrderShare, AcceptedOrders
<1> QED  BY <1>5, <1>8, <1>9 DEF MoneyInv

\* create_payout_allocation: the new row counts for the project and for its recipient.
LEMMA CreateKeepsMoney ==
  ASSUME MoneyInv, DeliveryTypeOK', PayoutInv', NEW creator \in Coordinators, NEW user \in Team,
         NEW amount \in PayoutAmounts, CreateAllocation(creator, user, amount)
  PROVE  MoneyInv'
<1>1. PICK row : row = [recipient |-> user, amount |-> amount, status |-> "PENDING",
                        creator |-> creator, approver |-> Nobody]
  OBVIOUS
<1>2. row \in Allocations /\ row.status = "PENDING" /\ row.amount = amount /\ row.recipient = user
  BY <1>1 DEF Allocations
<1>3. /\ allocations' = Append(allocations, row)
      /\ UNCHANGED <<assignments, offers, orders, payouts, funded, ledger>>
  BY <1>1 DEF CreateAllocation, record, earlier, before, staffingRows, deliveryRows
<1>4. PICK new : new = Len(allocations) + 1  OBVIOUS
<1>5. allocations \in Seq(Allocations) /\ Len(allocations) \in Nat
  BY DEF MoneyInv, PayoutInv, SettlementRowTypes
<1>6. /\ allocations' \in Seq(Allocations) /\ Len(allocations') = new
      /\ allocations'[new] = row /\ new \in 1..Len(allocations') /\ new \notin 1..Len(allocations)
      /\ 1..Len(allocations') = 1..Len(allocations) \cup {new}
      /\ \A n \in 1..Len(allocations) : allocations'[n] = allocations[n]
  BY <1>2, <1>3, <1>4, <1>5
<1>7. \A ns : ns \subseteq 1..Len(allocations) =>
        /\ SumOf(allocations', ns) = SumOf(allocations, ns)
        /\ SumOf(allocations, ns) \in Nat
        /\ SumOf(allocations', ns \cup {new}) = amount + SumOf(allocations, ns)
  <2> SUFFICES ASSUME NEW ns, ns \subseteq 1..Len(allocations)
               PROVE  /\ SumOf(allocations', ns) = SumOf(allocations, ns)
                      /\ SumOf(allocations, ns) \in Nat
                      /\ SumOf(allocations', ns \cup {new}) = amount + SumOf(allocations, ns)
    OBVIOUS
  <2>1. ns \subseteq 1..Len(allocations') /\ new \notin ns  BY <1>6
  <2>2. \A n \in ns : allocations'[n].amount = allocations[n].amount  BY <1>6
  <2>3. SumOf(allocations', ns) = SumOf(allocations, ns)
    BY <1>5, <1>6, <2>1, <2>2, SumKept
  <2>4. SumOf(allocations', ns \cup {new}) = amount + SumOf(allocations', ns)
    BY <1>2, <1>6, <2>1, SumAdds
  <2> QED  BY <1>5, <2>3, <2>4, SumIsNatural
<1>8. \A users : /\ RowsOf(allocations, users) \subseteq 1..Len(allocations)
                 /\ user \in users =>
                      RowsOf(allocations', users) = RowsOf(allocations, users) \cup {new}
                 /\ user \notin users => RowsOf(allocations', users) = RowsOf(allocations, users)
  BY <1>2, <1>6 DEF RowsOf
<1>9. amount \in Nat /\ funded \in Nat
  BY SettlementAssumption DEF SettlementAssumption, MoneyInv, DeliveryTypeOK, StaffingTypeOK,
     ScopingTypeOK, RecordTypeOK
<1>10. SumOf(allocations', RowsOf(allocations', Team)) <= funded'
  <2>1. AllocatedTo(Team) + amount <= funded  BY DEF CreateAllocation, Affordable
  <2>2. AllocatedTo(Team) = SumOf(allocations, RowsOf(allocations, Team))
    BY DEF AllocatedTo, AmountOf, SumOf, RowsOf
  <2>3. SumOf(allocations', RowsOf(allocations', Team))
          = amount + SumOf(allocations, RowsOf(allocations, Team))
        /\ SumOf(allocations, RowsOf(allocations, Team)) \in Nat
    BY <1>7, <1>8
  <2> QED  BY <1>3, <1>9, <2>1, <2>2, <2>3
<1>11. (\A u \in Assigned : WithinOffer(u, SumOf(allocations, RowsOf(allocations, {u}))))'
  <2> SUFFICES ASSUME NEW u \in Assigned
               PROVE  WithinOffer(u, SumOf(allocations', RowsOf(allocations', {u})))
    BY <1>3 DEF WithinOffer, OrderShare, AcceptedOrders, Assigned
  <2>1. CASE u # user
    <3>1. SumOf(allocations', RowsOf(allocations', {u})) = SumOf(allocations, RowsOf(allocations, {u}))
      BY <1>7, <1>8, <2>1
    <3> QED  BY <3>1 DEF MoneyInv
  <2>2. CASE u = user
    <3>1. PICK a \in assignments :
            a.user = user /\ AllocatedTo({user}) + amount <= offers[a.offer].pay + OrderShare(user)
      BY DEF CreateAllocation
    <3>2. AllocatedTo({user}) = SumOf(allocations, RowsOf(allocations, {user}))
      BY DEF AllocatedTo, AmountOf, SumOf, RowsOf
    <3>3. SumOf(allocations', RowsOf(allocations', {user}))
            = amount + SumOf(allocations, RowsOf(allocations, {user}))
          /\ SumOf(allocations, RowsOf(allocations, {user})) \in Nat
      BY <1>7, <1>8
    <3>4. AllocatedTo({user}) + amount = SumOf(allocations', RowsOf(allocations', {user}))
      BY <1>9, <3>2, <3>3
    <3> QED  BY <2>2, <3>1, <3>4 DEF WithinOffer
  <2> QED  BY <2>1, <2>2
<1>12. SumOf(allocations', PaidRows(allocations')) = SumOf(allocations, PaidRows(allocations))
  <2>1. PaidRows(allocations') = PaidRows(allocations)
        /\ PaidRows(allocations) \subseteq 1..Len(allocations)
    BY <1>2, <1>6 DEF PaidRows
  <2> QED  BY <1>7, <2>1
<1>13. SumOfPayouts(allocations', payouts) = SumOfPayouts(allocations, payouts)
  <2>1. \A p \in payouts : allocations'[p.allocation].amount = allocations[p.allocation].amount
    BY <1>6 DEF MoneyInv, PayoutInv, PayoutsOnRows
  <2> QED  BY <2>1, PayoutsSumKept DEF MoneyInv
<1> QED  BY <1>3, <1>10, <1>11, <1>12, <1>13 DEF MoneyInv

\* record_external_payout, the commit: the amount of the row leaves the liability.
LEMMA CommitKeepsMoney ==
  ASSUME MoneyInv, DeliveryTypeOK', PayoutInv', NEW r \in Requests, CommitPayout(r)
  PROVE  MoneyInv'
<1>1. PICK row : row = req[r].row  OBVIOUS
<1>2. PICK n : n = row.allocation  OBVIOUS
<1>3. PICK amount : amount = allocations[n].amount  OBVIOUS
<1>4. /\ In(r, "payout") /\ n \in 1..Len(allocations) /\ allocations[n].status = "APPROVED"
      /\ allocations \in Seq(Allocations) /\ allocations' \in Seq(Allocations)
      /\ \A p \in payouts : p.allocation # n
  BY <1>1, <1>2 DEF CommitPayout, MoneyInv, PayoutInv, SettlementRowTypes, CallsHoldTheirRow
<1>5. allocations[n] \in Allocations /\ amount \in Nat
  <2>1. allocations[n] \in Allocations  BY <1>4
  <2> QED  BY <1>3, <2>1, SettlementAssumption DEF Allocations, SettlementAssumption
<1>6. PICK paid : paid = [allocations[n] EXCEPT !.status = "PAID"]  OBVIOUS
<1>7. paid.status = "PAID" /\ paid.amount = amount /\ paid.recipient = allocations[n].recipient
  BY <1>3, <1>5, <1>6 DEF Allocations
<1>8. /\ allocations' = [allocations EXCEPT ![n] = paid] /\ payouts' = payouts \cup {row}
      /\ UNCHANGED <<assignments, offers, orders, funded>>
      /\ Post("client_funding_liability", "external_payout_evidence", amount)
  BY <1>1, <1>2, <1>3, <1>6
     DEF CommitPayout, earlier, before, staffingRows, deliveryRows
<1>9. /\ Len(allocations') = Len(allocations) /\ allocations'[n] = paid
      /\ \A m \in 1..Len(allocations) : m # n => allocations'[m] = allocations[m]
  BY <1>4, <1>8
<1>10. \A m \in 1..Len(allocations) : /\ allocations'[m].amount = allocations[m].amount
                                      /\ allocations'[m].recipient = allocations[m].recipient
  BY <1>3, <1>7, <1>9
<1>11. \A ns : ns \subseteq 1..Len(allocations) =>
         SumOf(allocations', ns) = SumOf(allocations, ns)
  BY <1>4, <1>9, <1>10, SumKept
<1>12. \A users : RowsOf(allocations', users) = RowsOf(allocations, users)
                  /\ RowsOf(allocations, users) \subseteq 1..Len(allocations)
  BY <1>9, <1>10 DEF RowsOf
<1>13. /\ PaidRows(allocations') = PaidRows(allocations) \cup {n}
       /\ n \notin PaidRows(allocations) /\ PaidRows(allocations) \subseteq 1..Len(allocations)
  BY <1>4, <1>7, <1>9 DEF PaidRows
<1>14. /\ SumOf(allocations', PaidRows(allocations'))
            = amount + SumOf(allocations, PaidRows(allocations))
       /\ SumOf(allocations, PaidRows(allocations)) \in Nat
  <2>1. SumOf(allocations', PaidRows(allocations'))
          = allocations'[n].amount + SumOf(allocations', PaidRows(allocations))
    <3>1. n \in 1..Len(allocations') /\ PaidRows(allocations) \subseteq 1..Len(allocations')
      BY <1>4, <1>9, <1>13
    <3> QED  BY <1>4, <1>13, <3>1, SumAdds
  <2>2. SumOf(allocations', PaidRows(allocations)) = SumOf(allocations, PaidRows(allocations))
    BY <1>11, <1>13
  <2>3. SumOf(allocations, PaidRows(allocations)) \in Nat
    BY <1>4, <1>13, SumIsNatural
  <2> QED  BY <1>7, <1>9, <2>1, <2>2, <2>3
<1>15. SumOfPayouts(allocations', payouts') = amount + SumOfPayouts(allocations, payouts)
  <2>1. \A p \in payouts : p.allocation \in 1..Len(allocations)
    BY DEF MoneyInv, PayoutInv, PayoutsOnRows
  <2>2. IsFiniteSet(payouts) /\ row \notin payouts  BY <1>2, <1>4 DEF MoneyInv
  <2>3. \A m \in 1..Len(allocations) : allocations'[m].amount \in Nat
    BY <1>4, <1>9, SumIsNatural
  <2>4. \A q \in payouts \cup {row} : allocations'[q.allocation].amount \in Nat
    BY <1>2, <1>4, <2>1, <2>3
  <2>5. SumOfPayouts(allocations', payouts \cup {row})
          = allocations'[n].amount + SumOfPayouts(allocations', payouts)
    BY <1>2, <2>2, <2>4, PayoutsSumAdds
  <2>6. SumOfPayouts(allocations', payouts) = SumOfPayouts(allocations, payouts)
    BY <1>10, <2>1, <2>2, PayoutsSumKept
  <2> QED  BY <1>7, <1>8, <1>9, <2>5, <2>6
<1>16. /\ ledger'["external_funding_evidence"] = ledger["external_funding_evidence"]
       /\ ledger'["client_funding_liability"] = ledger["client_funding_liability"] + amount
       /\ ledger'["external_payout_evidence"] = ledger["external_payout_evidence"] - amount
  <2>1. ledger \in [Accounts -> Int]
    BY DEF MoneyInv, DeliveryTypeOK, StaffingTypeOK, ScopingTypeOK, RecordTypeOK
  <2> QED  BY <1>8, <2>1 DEF Post, Accounts
<1>17. /\ SumOf(allocations', RowsOf(allocations', Team)) = SumOf(allocations, RowsOf(allocations, Team))
       /\ \A user : SumOf(allocations', RowsOf(allocations', {user}))
                      = SumOf(allocations, RowsOf(allocations, {user}))
  BY <1>11, <1>12
<1>18. (\A user \in Assigned : WithinOffer(user, SumOf(allocations, RowsOf(allocations, {user}))))'
  <2> SUFFICES ASSUME NEW u \in Assigned
               PROVE  WithinOffer(u, SumOf(allocations', RowsOf(allocations', {u})))
    BY <1>8 DEF WithinOffer, OrderShare, AcceptedOrders, Assigned
  <2>1. WithinOffer(u, SumOf(allocations, RowsOf(allocations, {u})))  BY DEF MoneyInv
  <2> QED  BY <1>17, <2>1
<1>19. IsFiniteSet(payouts')  BY <1>8, FS_AddElement DEF MoneyInv
<1>20. funded \in Nat
  BY DEF MoneyInv, DeliveryTypeOK, StaffingTypeOK, ScopingTypeOK, RecordTypeOK
<1>21. /\ ledger'["external_funding_evidence"] = funded'
       /\ ledger'["external_payout_evidence"] = 0 - SumOf(allocations', PaidRows(allocations'))
       /\ ledger'["client_funding_liability"]
            = SumOf(allocations', PaidRows(allocations')) - funded'
  <2>1. /\ ledger["external_funding_evidence"] = funded
        /\ ledger["external_payout_evidence"] = 0 - SumOf(allocations, PaidRows(allocations))
        /\ ledger["client_funding_liability"]
             = SumOf(allocations, PaidRows(allocations)) - funded
    BY DEF MoneyInv
  <2> QED  BY <1>5, <1>8, <1>14, <1>16, <1>20, <2>1
<1>22. SumOfPayouts(allocations', payouts') = SumOf(allocations', PaidRows(allocations'))
  BY <1>14, <1>15 DEF MoneyInv
<1> QED  BY <1>8, <1>17, <1>18, <1>19, <1>21, <1>22 DEF MoneyInv

\* Every step keeps what is paid within the funds.
LEMMA StepKeepsMoney ==
  ASSUME MoneyInv, DeliveryTypeOK', PayoutInv', [SettlementNext]_settlementVars
  PROVE  MoneyInv'
<1>1. CASE UNCHANGED <<assignments, offers, orders, payouts, funded, ledger, allocations>>
  BY <1>1, MoneyKept
<1>2. ASSUME NEW admin \in Admins, NEW n \in 1..Len(allocations), ApproveAllocation(admin, n)
      PROVE  MoneyInv'
  <2>1. /\ allocations \in Seq(Allocations) /\ allocations[n] \in Allocations
        /\ allocations[n].status = "PENDING"
    BY <1>2 DEF ApproveAllocation, MoneyInv, PayoutInv, SettlementRowTypes
  <2>2. PICK row : row = [allocations[n] EXCEPT !.status = "APPROVED", !.approver = admin]
    OBVIOUS
  <2>3. /\ row.amount = allocations[n].amount /\ row.recipient = allocations[n].recipient
        /\ row.status = "APPROVED"
    BY <2>1, <2>2 DEF Allocations
  <2>4. /\ allocations' = [allocations EXCEPT ![n] = row]
        /\ UNCHANGED <<assignments, offers, orders, payouts, funded, ledger>>
    BY <1>2, <2>2 DEF ApproveAllocation, record, earlier, before, staffingRows, deliveryRows
  <2>5. /\ Len(allocations') = Len(allocations) /\ allocations'[n] = row
        /\ \A m \in 1..Len(allocations) : m # n => allocations'[m] = allocations[m]
    BY <2>1, <2>4
  <2> QED  BY <2>1, <2>3, <2>4, <2>5, MoneyKept
<1>3. CASE AllocationRequests
  BY <1>2, <1>3, CreateKeepsMoney DEF AllocationRequests
<1>4. CASE PayoutRequests
  <2>1. ASSUME NEW r \in Requests, NEW admin, NEW n, NEW key, NEW reference,
               StartPayout(r, admin, n, key, reference)
        PROVE  MoneyInv'
    BY <1>1, <2>1 DEF StartPayout, record, earlier, before, staffingRows, deliveryRows,
                      settlementRows
  <2> QED  BY <1>4, <2>1, CommitKeepsMoney DEF PayoutRequests
<1>5. CASE SettlementTransitions
  BY <1>1, <1>5 DEF SettlementTransitions, ApprovePayouts, Complete, DivertFromSettlement, Divert,
                    Move, earlier, before, staffingRows, deliveryRows, settlementRows
<1>6. CASE UNCHANGED settlementVars \/ \E r \in Requests : AbandonInSettlement(r)
  BY <1>1, <1>6 DEF AbandonInSettlement, Abandon, settlementVars, deliveryVars, staffingVars,
                    scopingVars, record, earlier, before, staffingRows, deliveryRows,
                    settlementRows
<1> QED  BY <1>3, <1>4, <1>5, <1>6 DEF SettlementNext

\* Money out never exceeds money in, for any number of allocations, users and amounts: what
\* is allocated stays within the funds and each recipient's entitlement, and the ledger
\* holds exactly the funding evidence and the payouts on record
\* (create_payout_allocation, record_external_payout).
THEOREM MoneyIsCovered == SettlementSpec => []PaidWithinFunds
<1> DEFINE Inv == MoneyInv /\ (state = "COMPLETED" => payouts # {})
<1>1. SettlementStart => Inv  BY InitMoney, InitPayouts
<1>2. Inv /\ [SettlementNext]_settlementVars => Inv'
  <2> SUFFICES ASSUME Inv, [SettlementNext]_settlementVars PROVE Inv'  OBVIOUS
  <2>1. PayoutInv' /\ (state = "COMPLETED" => payouts # {})'
    BY StepKeepsPayouts, RecordAssumption DEF MoneyInv
  <2>2. DeliveryTypeOK'  BY EarlierKeepsTypes DEF MoneyInv
  <2> QED  BY <2>1, <2>2, StepKeepsMoney
<1>3. Inv => PaidWithinFunds  BY MoneyInvImplies
<1> HIDE DEF Inv
<1> QED  BY <1>1, <1>2, <1>3, PTL DEF SettlementSpec

=============================================================================
