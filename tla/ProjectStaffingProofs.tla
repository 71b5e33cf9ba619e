------------------------ MODULE ProjectStaffingProofs ------------------------
(***************************************************************************)
(* What TLAPS proves of offers, the team and the plans, for any users,     *)
(* offers, plan runs and late requests of the scoping phase.               *)
(***************************************************************************)
EXTENDS ProjectStaffing, ProjectScopingProofs, SequenceTheorems

(* Rows dated by the start of their transaction take any later place. *)

\* t is s with e at place i.
Inserted(t, s, i, e) ==
  \A j \in 1..Len(s) + 1 : t[j] = IF j < i THEN s[j] ELSE IF j = i THEN e ELSE s[j - 1]

\* What InsertAt makes of a sequence.
LEMMA InsertAtProperties ==
  ASSUME NEW S, NEW s \in Seq(S), NEW i \in 1..Len(s) + 1, NEW e \in S
  PROVE  /\ InsertAt(s, i, e) \in Seq(S)
         /\ Len(InsertAt(s, i, e)) = Len(s) + 1
         /\ Inserted(InsertAt(s, i, e), s, i, e)
<1>1. /\ SubSeq(s, 1, i - 1) \in Seq(S) /\ Len(SubSeq(s, 1, i - 1)) = i - 1
      /\ \A j \in 1..i - 1 : SubSeq(s, 1, i - 1)[j] = s[j]
  OBVIOUS
<1>2. /\ SubSeq(s, i, Len(s)) \in Seq(S) /\ Len(SubSeq(s, i, Len(s))) = Len(s) - i + 1
      /\ \A j \in 1..Len(s) - i + 1 : SubSeq(s, i, Len(s))[j] = s[j + i - 1]
  OBVIOUS
<1>3. PICK a \in Seq(S) : a = SubSeq(s, 1, i - 1)
  BY <1>1
<1>4. PICK b \in Seq(S) : b = SubSeq(s, i, Len(s))
  BY <1>2
<1>5. InsertAt(s, i, e) = a \o <<e>> \o b
  BY <1>3, <1>4 DEF InsertAt
<1>6. /\ a \o <<e>> \in Seq(S) /\ Len(a \o <<e>>) = i
      /\ \A j \in 1..i - 1 : (a \o <<e>>)[j] = s[j]
      /\ (a \o <<e>>)[i] = e
  BY <1>1, <1>3
<1>7. PICK c \in Seq(S) : c = a \o <<e>>
  BY <1>6
<1>8. /\ c \o b \in Seq(S) /\ Len(c \o b) = Len(s) + 1
      /\ \A j \in 1..i : (c \o b)[j] = c[j]
      /\ \A j \in i + 1..Len(s) + 1 : (c \o b)[j] = b[j - i]
  <2>1. Len(c) = i /\ Len(b) = Len(s) - i + 1 /\ Len(s) \in Nat /\ i \in 1..Len(s) + 1
    BY <1>2, <1>4, <1>6, <1>7
  <2>2. /\ c \o b \in Seq(S) /\ Len(c \o b) = Len(c) + Len(b)
        /\ \A j \in 1..Len(c) + Len(b) :
             (c \o b)[j] = IF j <= Len(c) THEN c[j] ELSE b[j - Len(c)]
    BY ConcatProperties
  <2> QED BY <2>1, <2>2
<1>9. \A j \in i + 1..Len(s) + 1 : b[j - i] = s[j - 1]
  BY <1>2, <1>4
<1> QED BY <1>5, <1>6, <1>7, <1>8, <1>9 DEF Inserted

\* The rows before, and the new one.
LEMMA InsertAtAddsRow ==
  ASSUME NEW S, NEW s \in Seq(S), NEW i \in 1..Len(s) + 1, NEW e \in S
  PROVE  /\ InsertAt(s, i, e) \in Seq(S)
         /\ Len(InsertAt(s, i, e)) = Len(s) + 1
         /\ Range(InsertAt(s, i, e)) = Range(s) \cup {e}
<1> DEFINE t == InsertAt(s, i, e)
<1>1. /\ t \in Seq(S) /\ Len(t) = Len(s) + 1
      /\ \A j \in 1..Len(s) + 1 : t[j] = IF j < i THEN s[j] ELSE IF j = i THEN e ELSE s[j - 1]
  <2>1. t \in Seq(S) /\ Len(t) = Len(s) + 1 /\ Inserted(t, s, i, e)
    BY InsertAtProperties
  <2> QED  BY <2>1 DEF Inserted
<1> HIDE DEF t
<1>2. DOMAIN t = 1..Len(s) + 1 /\ DOMAIN s = 1..Len(s) /\ Len(s) \in Nat /\ i \in Nat
  BY <1>1
<1>3. ASSUME NEW x \in Range(t) PROVE x \in Range(s) \cup {e}
  <2>1. PICK j \in 1..Len(s) + 1 : x = t[j]  BY <1>2, <1>3 DEF Range
  <2>2. CASE j < i
    <3>1. x = s[j] /\ j \in 1..Len(s)  BY <1>1, <1>2, <2>1, <2>2
    <3> QED  BY <1>2, <3>1 DEF Range
  <2>3. CASE j = i
    BY <1>1, <2>1, <2>3
  <2>4. CASE j > i
    <3>1. x = s[j - 1] /\ j - 1 \in 1..Len(s)  BY <1>1, <1>2, <2>1, <2>4
    <3> QED  BY <1>2, <3>1 DEF Range
  <2> QED  BY <1>2, <2>2, <2>3, <2>4
<1>4. ASSUME NEW x \in Range(s) PROVE x \in Range(t)
  <2>1. PICK j \in 1..Len(s) : x = s[j]  BY <1>2, <1>4 DEF Range
  <2>2. CASE j < i
    <3>1. t[j] = x /\ j \in DOMAIN t  BY <1>1, <1>2, <2>1, <2>2
    <3> QED  BY <3>1 DEF Range
  <2>3. CASE ~(j < i)
    <3>1. t[j + 1] = x /\ j + 1 \in DOMAIN t  BY <1>1, <1>2, <2>1, <2>3
    <3> QED  BY <3>1 DEF Range
  <2> QED  BY <2>2, <2>3
<1>5. e \in Range(t)
  <2>1. t[i] = e /\ i \in DOMAIN t  BY <1>1, <1>2
  <2> QED  BY <2>1 DEF Range
<1> QED  BY <1>1, <1>3, <1>4, <1>5 DEF t

----------------------------------------------------------------------------
(* Types. *)

\* What a request in a handler of this phase holds: a staffing run names a scope there is.
StaffingCall(read) ==
  /\ read.op = "staff" => read \in StaffingCalls /\ read.scope \in 1..Len(scopes)
  /\ read.op = "plan" => read \in PlanCalls

StaffTypes ==
  /\ StaffingTypeOK
  /\ \A r \in Requests : In(r, "staff") => req[r].scope \in 1..Len(scopes)

\* The initial states.
LEMMA InitStaffTypes == StaffingStart => StaffTypes
<1> SUFFICES ASSUME StaffingStart PROVE StaffTypes  OBVIOUS
<1> USE ScopingAssumption
<1>1. PICK base \in Bases \cap Amounts, by \in Prompts, key \in PayKeys :
        /\ state = "STAFFING" /\ version = 6
        /\ required = base /\ funded = base
        /\ complexity \in {"LOW", "HIGH"}
        /\ ledger = [external_funding_evidence |-> base, client_funding_liability |-> -base,
                     external_payout_evidence |-> 0]
        /\ approvals = {[subject |-> "scope", ref |-> 1, decision |-> "APPROVED"],
                        [subject |-> "scope_and_quote", ref |-> 1, decision |-> "APPROVED"]}
        /\ scopes = <<"CLIENT_ACCEPTED">>
        /\ scopedBy = {by}
        /\ quotes = <<[scope |-> 1, base |-> base, status |-> "CLIENT_ACCEPTED"]>>
        /\ payments = {[key |-> key, amount |-> base]}
        /\ req \in [Requests -> LateRequests(base)]
        /\ StaffingInit
  BY DEF StaffingStart
<1>2. RecordTypeOK
  <2>0. base \in Nat  BY ScopingAssumption
  <2>1. ledger \in [Accounts -> Int]  BY <1>1, <2>0 DEF Accounts
  <2>2. approvals \subseteq Approvals  BY <1>1 DEF Approvals, Subjects
  <2>3. req = [r \in Requests |-> req[r]]  BY <1>1
  <2> QED  BY <1>1, <2>1, <2>2, <2>3 DEF RecordTypeOK, States
<1>3. scopes \in Seq(ScopeStatus) /\ scopedBy \subseteq Prompts  BY <1>1 DEF ScopeStatus
<1>4. quotes \in Seq(Quotes)
  <2>1. [scope |-> 1, base |-> base, status |-> "CLIENT_ACCEPTED"] \in Quotes  BY DEF Quotes
  <2> QED  BY <1>1, <2>1
<1>5. payments \subseteq Payments  BY <1>1 DEF Payments
<1>6. ASSUME NEW r \in Requests
      PROVE  ScopingCall(req[r]) /\ req[r].op \notin {"staff", "plan"}
  <2>1. req[r] \in LateRequests(base)  BY <1>1
  <2>2. CASE req[r] = Idle  BY <2>2 DEF Idle, ScopingCall
  <2>3. CASE req[r] \in [op : {"scope"}, prompt : Prompts \ scopedBy, seen : {"LOW", complexity}]
    BY <1>1, <2>3 DEF ScopingCall, ScopeCalls
  <2>4. CASE req[r] \in [op : {"quote"}, seen : {0, base}]
    BY <2>4 DEF ScopingCall, QuoteLoads
  <2>5. CASE req[r] \in [op : {"priced"}, seen : {0, base}, scope : {1}, base : Bases]
    BY <2>5 DEF ScopingCall, QuotePrices
  <2>6. CASE req[r] \in [op : {"numbered"}, seen : {0, base}, scope : {1}, base : Bases,
                         number : {2} \cap 1..MaxQuotes]
    BY <2>6 DEF ScopingCall, QuoteNumbers
  <2> QED  BY <2>1, <2>2, <2>3, <2>4, <2>5, <2>6 DEF LateRequests
<1>7. ScopingTypeOK
  BY <1>2, <1>3, <1>4, <1>5, <1>6 DEF ScopingTypeOK, ScopingCall, In
<1>8. /\ shortlists = {} /\ offers = <<>> /\ assignments = {} /\ plans = <<>>
  BY <1>1 DEF StaffingInit
<1> QED  BY <1>6, <1>7, <1>8 DEF StaffTypes, StaffingTypeOK, In

\* A step that leaves the rows of this phase alone, and its requests or ends them.
LEMMA StaffTypesCarry ==
  ASSUME StaffTypes, ScopingTypeOK', UNCHANGED staffingRows, Len(scopes) <= Len(scopes'),
         \A r \in Requests : req'[r].op \in {"staff", "plan"} => req'[r] = req[r]
  PROVE  StaffTypes'
<1>1. Len(scopes) \in Nat /\ Len(scopes') \in Nat
  BY DEF StaffTypes, StaffingTypeOK, ScopingTypeOK
<1>2. 1..Len(scopes) \subseteq 1..Len(scopes')  BY <1>1
<1>3. shortlists' \subseteq 1..Len(scopes')
  BY <1>2 DEF StaffTypes, StaffingTypeOK, staffingRows
<1>4. /\ offers' \in Seq(Offers) /\ assignments' \subseteq Assignments /\ plans' \in Seq(Plans)
  BY DEF StaffTypes, StaffingTypeOK, staffingRows
<1>5. ASSUME NEW r \in Requests
      PROVE  /\ In(r, "staff")' => req'[r] \in StaffingCalls /\ req'[r].scope \in 1..Len(scopes')
             /\ In(r, "plan")' => req'[r] \in PlanCalls
  BY <1>2 DEF In, StaffTypes, StaffingTypeOK
<1> QED  BY <1>3, <1>4, <1>5 DEF StaffTypes, StaffingTypeOK

\* A request begins, goes on or ends, and nothing else happens.
LEMMA HoldKeepsStaffTypes ==
  ASSUME StaffTypes, NEW r \in Requests, NEW read, Hold(r, read), ScopingCall(read),
         StaffingCall(read), UNCHANGED <<record, scopingRows, staffingRows>>
  PROVE  StaffTypes'
<1>1. ScopingTypeOK'  BY HoldKeepsTypes DEF StaffTypes, StaffingTypeOK
<1>2. /\ req' = [req EXCEPT ![r] = read] /\ req = [q \in Requests |-> req[q]]
      /\ UNCHANGED <<scopes, shortlists, offers, assignments, plans>>
  BY DEF Hold, StaffTypes, StaffingTypeOK, ScopingTypeOK, RecordTypeOK, scopingRows, staffingRows
<1>3. ASSUME NEW q \in Requests
      PROVE  /\ In(q, "staff")' => req'[q] \in StaffingCalls /\ req'[q].scope \in 1..Len(scopes)
             /\ In(q, "plan")' => req'[q] \in PlanCalls
  <2>1. CASE q = r  BY <1>2, <2>1 DEF In, StaffingCall
  <2>2. CASE q # r  BY <1>2, <2>2 DEF In, StaffTypes, StaffingTypeOK
  <2> QED  BY <2>1, <2>2
<1> QED  BY <1>1, <1>2, <1>3 DEF StaffTypes, StaffingTypeOK

\* A handler ends and writes rows of this phase.
LEMMA ReleaseKeepsStaffTypes ==
  ASSUME StaffTypes, NEW r \in Requests, Release(r), UNCHANGED <<record, scopingRows>>,
         shortlists' \subseteq 1..Len(scopes), offers' \in Seq(Offers),
         assignments' \subseteq Assignments, plans' \in Seq(Plans)
  PROVE  StaffTypes'
<1>1. Hold(r, Idle) /\ ScopingCall(Idle)  BY CallsOfScoping DEF Hold, Release
<1>2. ScopingTypeOK'  BY <1>1, HoldKeepsTypes DEF StaffTypes, StaffingTypeOK
<1>3. /\ req' = [req EXCEPT ![r] = Idle] /\ req = [q \in Requests |-> req[q]]
      /\ UNCHANGED scopes
  BY DEF Release, StaffTypes, StaffingTypeOK, ScopingTypeOK, RecordTypeOK, scopingRows
<1>4. ASSUME NEW q \in Requests
      PROVE  /\ In(q, "staff")' => req'[q] \in StaffingCalls /\ req'[q].scope \in 1..Len(scopes)
             /\ In(q, "plan")' => req'[q] \in PlanCalls
  BY <1>3 DEF In, Idle, StaffTypes, StaffingTypeOK
<1> QED  BY <1>2, <1>3, <1>4 DEF StaffTypes, StaffingTypeOK

\* A run of the planner or matcher keeps the types.
LEMMA StaffingRunTypes ==
  ASSUME StaffTypes, StaffingRuns PROVE StaffTypes'
<1> PICK r \in Requests : StartStaffingRun(r) \/ CommitStaffingRun(r)  BY DEF StaffingRuns
<1>0. Len(scopes) \in Nat  BY DEF StaffTypes, StaffingTypeOK, ScopingTypeOK
<1>1. CASE StartStaffingRun(r)
  <2> DEFINE read == [op |-> "staff", scope |-> Len(scopes)]
  <2>1. scopes \in Seq(ScopeStatus) /\ scopes # <<>>
    BY <1>1 DEF StartStaffingRun, StaffTypes, StaffingTypeOK, ScopingTypeOK
  <2>2. ScopingCall(read) /\ StaffingCall(read)
    BY <1>0, <2>1 DEF ScopingCall, StaffingCall, StaffingCalls
  <2> HIDE DEF read
  <2>3. Hold(r, read) /\ UNCHANGED <<record, scopingRows, staffingRows>>
    BY <1>1 DEF StartStaffingRun, read
  <2> QED  BY <2>2, <2>3, HoldKeepsStaffTypes
<1>2. CASE CommitStaffingRun(r)
  BY <1>2, ReleaseKeepsStaffTypes DEF CommitStaffingRun, StaffTypes, StaffingTypeOK
<1> QED  BY <1>1, <1>2

\* Offers are made and answered without a request in flight.
LEMMA OfferRequestTypes ==
  ASSUME StaffTypes, OfferRequests PROVE StaffTypes'
<1>0. offers \in Seq(Offers) /\ Len(offers) \in Nat /\ assignments \subseteq Assignments
  BY DEF StaffTypes, StaffingTypeOK
<1>1. /\ UNCHANGED <<record, req, scopingRows, shortlists, plans>>
      /\ offers' \in Seq(Offers) /\ assignments' \subseteq Assignments
  <2>1. ASSUME NEW user \in Team, NEW role \in OfferRoles, NEW hours \in Hours, NEW pay \in Pays,
               CreateOffer(user, role, hours, pay)
        PROVE  offers' \in Seq(Offers)
    <3>1. version \in Nat /\ Len(scopes) \in Nat /\ Len(quotes) \in Nat
      BY DEF StaffTypes, StaffingTypeOK, ScopingTypeOK, RecordTypeOK
    <3>2. [to |-> user, role |-> role, hours |-> hours, pay |-> pay, version |-> version,
           scope |-> Len(scopes), quote |-> Len(quotes), state |-> "OFFERED"] \in Offers
      BY <3>1 DEF Offers
    <3>3. PICK row \in Offers : offers' = Append(offers, row)  BY <2>1, <3>2 DEF CreateOffer
    <3> QED  BY <1>0, <3>3
  <2>2. ASSUME NEW n \in 1..Len(offers), NEW answer \in {"ACCEPTED", "DECLINED", "EXPIRED"},
               Answer(n, answer)
        PROVE  offers' \in Seq(Offers)
    <3>1. offers[n] \in Offers  BY <1>0
    <3>2. [offers[n] EXCEPT !.state = answer] \in Offers  BY <3>1 DEF Offers
    <3> QED  BY <1>0, <2>2, <3>2 DEF Answer
  <2>3. ASSUME NEW n \in 1..Len(offers)
        PROVE  [user |-> offers[n].to, role |-> offers[n].role, offer |-> n] \in Assignments
    <3>1. offers[n] \in Offers  BY <1>0
    <3> QED  BY <1>0, <3>1 DEF Offers, Assignments
  <2> QED
    BY ZenonT(60), <1>0, <2>1, <2>2, <2>3
       DEF OfferRequests, CreateOffer, ExpireOffer, AcceptOffer, DeclineOffer
<1>2. ScopingTypeOK'
  BY <1>1 DEF StaffTypes, StaffingTypeOK, ScopingTypeOK, RecordTypeOK, record, scopingRows, In
<1> QED  BY <1>1, <1>2 DEF StaffTypes, StaffingTypeOK, scopingRows, In

\* The accepted scope is a version, or 0.
LEMMA AcceptedScopeType == ASSUME scopes \in Seq(ScopeStatus) PROVE AcceptedScope \in Nat
<1> DEFINE A == {0} \cup {n \in 1..Len(scopes) : scopes[n] = "CLIENT_ACCEPTED"}
<1>1. A \subseteq 0..Len(scopes) /\ A # {} /\ Len(scopes) \in Nat
  OBVIOUS
<1> HIDE DEF A
<1>2. Max(A) \in A  BY <1>1, MaxProperties
<1> QED  BY <1>1, <1>2 DEF AcceptedScope, A

\* A plan run inserts its plan where its transaction began; a decision is on record.
LEMMA PlanRequestTypes ==
  ASSUME StaffTypes, PlanRequests PROVE StaffTypes'
<1>0. /\ plans \in Seq(Plans) /\ Len(plans) \in Nat /\ version \in Nat
      /\ scopes \in Seq(ScopeStatus) /\ approvals \subseteq Approvals
  BY DEF StaffTypes, StaffingTypeOK, ScopingTypeOK, RecordTypeOK
<1>1. ASSUME NEW r \in Requests, StartPlan(r) PROVE StaffTypes'
  <2> DEFINE read == [op |-> "plan", scope |-> AcceptedScope, version |-> version,
                      after |-> Len(plans)]
  <2>1. ScopingCall(read) /\ StaffingCall(read)
    BY <1>0, AcceptedScopeType DEF ScopingCall, StaffingCall, PlanCalls
  <2> HIDE DEF read
  <2>2. Hold(r, read) /\ UNCHANGED <<record, scopingRows, staffingRows>>
    BY <1>1 DEF StartPlan, read
  <2> QED  BY <2>1, <2>2, HoldKeepsStaffTypes
<1>2. ASSUME NEW r \in Requests, NEW position \in 1..Len(plans) + 1, CommitPlan(r, position)
      PROVE  StaffTypes'
  <2>1. req[r] \in PlanCalls  BY <1>2 DEF CommitPlan, StaffTypes, StaffingTypeOK
  <2>2. [id |-> Len(plans) + 1, scope |-> req[r].scope, version |-> req[r].version,
         status |-> "PROPOSED"] \in Plans
    BY <1>0, <2>1 DEF PlanCalls, Plans
  <2>3. PICK row \in Plans : plans' = InsertAt(plans, position, row)
    BY <1>2, <2>2 DEF CommitPlan
  <2>4. plans' \in Seq(Plans)  BY <1>0, <2>3, InsertAtProperties
  <2> QED
    BY <1>2, <2>4, ReleaseKeepsStaffTypes DEF CommitPlan, StaffTypes, StaffingTypeOK
<1>3. ASSUME NEW n \in 1..Len(plans), NEW decision \in {"APPROVED", "REJECTED"},
             DecidePlan(n, decision)
      PROVE  StaffTypes'
  <2>1. plans[n] \in Plans  BY <1>0
  <2>2. [plans[n] EXCEPT !.status = decision] \in Plans  BY <2>1 DEF Plans
  <2>3. PICK row \in Plans : plans' = [plans EXCEPT ![n] = row]
    BY <1>3, <2>2 DEF DecidePlan
  <2>4. plans' \in Seq(Plans)  BY <1>0, <2>3
  <2>5. plans[n].id \in Nat  BY <2>1 DEF Plans
  <2>6. approvals' \subseteq Approvals
    BY <1>0, <1>3, <2>5 DEF DecidePlan, Approvals, Subjects
  <2>7. ScopingTypeOK'
    BY <1>3, <2>6 DEF DecidePlan, money, scopingRows, StaffTypes, StaffingTypeOK, ScopingTypeOK,
                      RecordTypeOK, In
  <2> QED
    BY <1>3, <2>4, <2>7 DEF DecidePlan, scopingRows, StaffTypes, StaffingTypeOK, In
<1> QED  BY <1>1, <1>2, <1>3 DEF PlanRequests

\* So does every transition.
LEMMA StaffingTransitionTypes ==
  ASSUME StaffTypes, StaffingTransitions PROVE StaffTypes'
<1> PICK role \in Roles :
      \/ CompleteStaffing(role) \/ ApproveStaffing(role) \/ ConfirmTeam(role)
      \/ Activate(role) \/ \E to \in Detours : DivertFromStaffing(role, to)
  BY DEF StaffingTransitions
<1>1. PICK to : Move(role, to) /\ UNCHANGED <<scopingRows, staffingRows>>
  BY DEF CompleteStaffing, ApproveStaffing, ConfirmTeam, Activate, DivertFromStaffing, Divert
<1>2. approvals' \subseteq Approvals
  <2>1. CASE ApproveStaffing(role)
    <3>1. shortlists \subseteq 0..Len(scopes) /\ shortlists # {} /\ Len(scopes) \in Nat
      BY <2>1 DEF ApproveStaffing, StaffTypes, StaffingTypeOK, ScopingTypeOK
    <3>2. Max(shortlists) \in shortlists  BY <3>1, MaxProperties
    <3>3. Max(shortlists) \in Nat
      <4>1. PICK m \in shortlists : m = Max(shortlists)  BY <3>2
      <4>2. m \in 0..Len(scopes)  BY <3>1
      <4> QED  BY <3>1, <4>1, <4>2
    <3> QED
      BY <2>1, <3>3 DEF ApproveStaffing, Approve, Approvals, Subjects, StaffTypes,
                        StaffingTypeOK, ScopingTypeOK, RecordTypeOK
  <2>2. CASE ~ApproveStaffing(role)
    BY <2>2 DEF CompleteStaffing, ConfirmTeam, Activate, DivertFromStaffing, Divert, StaffTypes,
                StaffingTypeOK, ScopingTypeOK, RecordTypeOK
  <2> QED  BY <2>1, <2>2
<1>3. ScopingTypeOK'
  BY <1>1, <1>2, MoveTypes DEF scopingRows, StaffTypes, StaffingTypeOK, ScopingTypeOK
<1>4. req' = req /\ scopes' = scopes /\ UNCHANGED staffingRows
  BY <1>1 DEF Move, scopingRows
<1> QED  BY <1>3, <1>4, StaffTypesCarry DEF StaffTypes, StaffingTypeOK, ScopingTypeOK

\* A scope run or a quote of the phase before, which touches no request of this one.
LEMMA LateScopingTypes ==
  ASSUME StaffTypes, LateScoping PROVE StaffTypes'
<1>1. ScopingTypeOK'
  BY ScopeRunTypes, QuoteTypes
     DEF LateScoping, ScopeRuns, QuoteRequests, StaffTypes, StaffingTypeOK
<1>2. scopes \in Seq(ScopeStatus) /\ req = [r \in Requests |-> req[r]]
  BY DEF StaffTypes, StaffingTypeOK, ScopingTypeOK, RecordTypeOK
<1>3. Len(scopes) <= Len(scopes')
  <2>1. scopes' = scopes \/ scopes' = Append(scopes, "PROPOSED")
    BY DEF LateScoping, ScopeRuns, StartScopeRun, FinishScopeRun, QuoteRequests, LoadForQuote,
           PriceQuote, NumberQuote, CommitQuote, scopingRows
  <2> QED  BY <1>2, <2>1
<1>4. \A q \in Requests : req'[q].op \in {"staff", "plan"} => req'[q] = req[q]
  <2> DEFINE Other(r) == \E read : Hold(r, read) /\ read.op \notin {"staff", "plan"}
  <2>1. ASSUME NEW r \in Requests, NEW prompt \in Prompts, StartScopeRun(r, prompt)
        PROVE  Other(r)
    BY <2>1 DEF StartScopeRun
  <2>2. ASSUME NEW r \in Requests, Release(r) PROVE Other(r)
    <3>1. Hold(r, Idle) /\ Idle.op \notin {"staff", "plan"}
      BY <2>2 DEF Release, Hold, Idle
    <3> QED  BY <3>1
  <2>3. ASSUME NEW r \in Requests, LoadForQuote(r) PROVE Other(r)
    BY <2>3 DEF LoadForQuote
  <2>4. ASSUME NEW r \in Requests, NEW base \in Bases, PriceQuote(r, base) PROVE Other(r)
    BY <2>4 DEF PriceQuote
  <2>5. ASSUME NEW r \in Requests, NumberQuote(r) PROVE Other(r)
    BY <2>5 DEF NumberQuote
  <2>6. PICK r \in Requests : Other(r)
    BY <2>1, <2>2, <2>3, <2>4, <2>5
       DEF LateScoping, ScopeRuns, FinishScopeRun, QuoteRequests, CommitQuote
  <2> QED  BY <1>2, <2>6 DEF Hold
<1> QED  BY <1>1, <1>3, <1>4, StaffTypesCarry DEF LateScoping

\* Every step keeps the types.
LEMMA StaffTypesStep == ASSUME StaffTypes, [StaffingNext]_staffingVars PROVE StaffTypes'
<1>1. CASE UNCHANGED staffingVars
  <2>1. ScopingTypeOK'
    BY <1>1, TypesStep DEF staffingVars, StaffTypes, StaffingTypeOK
  <2> QED
    BY <1>1, <2>1, StaffTypesCarry
       DEF staffingVars, scopingVars, scopingRows, StaffTypes, StaffingTypeOK, ScopingTypeOK
<1>2. ASSUME NEW r \in Requests, AbandonInStaffing(r) PROVE StaffTypes'
  BY <1>2, ReleaseKeepsStaffTypes
     DEF AbandonInStaffing, Abandon, staffingRows, StaffTypes, StaffingTypeOK
<1> QED
  BY <1>1, <1>2, StaffingRunTypes, OfferRequestTypes, PlanRequestTypes, StaffingTransitionTypes,
     LateScopingTypes DEF StaffingNext

\* Every variable stays in its set, whatever scope runs and quotes of the phase before
\* are still answered, and a staffing run's shortlist is of a scope there is.
THEOREM StaffingTypes == StaffingSpec => []StaffingTypeOK
<1>1. StaffTypes => StaffingTypeOK  BY DEF StaffTypes
<1> QED  BY <1>1, InitStaffTypes, StaffTypesStep, PTL DEF StaffingSpec

----------------------------------------------------------------------------
(* The team. *)

OfferTypes ==
  /\ offers \in Seq(Offers)
  /\ version \in Nat
  /\ scopes \in Seq(ScopeStatus)
  /\ \E Quoted : quotes \in Seq(Quoted)

\* An offer for the version the project has was made in the state the project is in.
OffersOfTheirPhase ==
  \A n \in 1..Len(offers) :
    /\ offers[n].version <= version
    /\ offers[n].version = version => state = "AWAITING_STUDENT_ACCEPTANCE"

TeamInv ==
  /\ OfferTypes
  /\ OffersOfTheirPhase
  /\ TeamSettled

AcceptedOffers == {m \in 1..Len(offers) : offers[m].state = "ACCEPTED"}
AssignmentOf(n) == [user |-> offers[n].to, role |-> offers[n].role, offer |-> n]

\* Both halves of TeamSettled.
Team1 == assignments = {AssignmentOf(n) : n \in AcceptedOffers}
Team2 == state \in Working => OpenOffers = {} /\ \E a \in assignments : a.role = "student"

\* The property, in its two halves.
LEMMA TeamSettledIs == TeamSettled <=> Team1 /\ Team2
  BY DEF TeamSettled, Team1, Team2, AcceptedOffers, AssignmentOf

\* The initial states.
LEMMA InitTeam == StaffingStart => TeamInv
<1> SUFFICES ASSUME StaffingStart PROVE TeamInv  OBVIOUS
<1>1. state = "STAFFING" /\ version = 6 /\ StaffingInit  BY DEF StaffingStart
<1>2. offers = <<>> /\ assignments = {}  BY <1>1 DEF StaffingInit
<1>3. 1..Len(offers) = {}  BY <1>2
<1>4. OfferTypes
  <2>1. scopes \in Seq(ScopeStatus)  BY DEF StaffingStart, ScopeStatus
  <2>2. PICK quote : quotes = <<quote>>  BY DEF StaffingStart
  <2>3. quotes \in Seq({quote})  BY <2>2
  <2> QED  BY <1>1, <1>2, <2>1, <2>3 DEF OfferTypes
<1>5. OffersOfTheirPhase  BY <1>3 DEF OffersOfTheirPhase
<1>6. Team1  BY <1>2, <1>3 DEF Team1, AcceptedOffers
<1>7. Team2  BY <1>1 DEF Team2, Working
<1> QED  BY <1>4, <1>5, <1>6, <1>7, TeamSettledIs DEF TeamInv

\* A step that leaves the offers, the team, the state and the version alone.
LEMMA TeamKept ==
  ASSUME TeamInv, OfferTypes', UNCHANGED <<state, version, offers, assignments>>
  PROVE  TeamInv'
<1>1. OfferTypes'  OBVIOUS
<1>2. OffersOfTheirPhase'  BY DEF TeamInv, OffersOfTheirPhase
<1>3. TeamSettled'  BY DEF TeamInv, TeamSettled, OpenOffers
<1> QED  BY <1>1, <1>2, <1>3 DEF TeamInv

\* create_assignment_offer: the new offer is open, in the phase of offers.
LEMMA CreateKeepsTeam ==
  ASSUME TeamInv, NEW user \in Team, NEW role \in OfferRoles, NEW hours \in Hours,
         NEW pay \in Pays, CreateOffer(user, role, hours, pay)
  PROVE  TeamInv' /\ assignments' = assignments
<1>1. PICK offer : offer =
        [to |-> user, role |-> role, hours |-> hours, pay |-> pay, version |-> version,
         scope |-> Len(scopes), quote |-> Len(quotes), state |-> "OFFERED"]
  OBVIOUS
<1>2. /\ state = "AWAITING_STUDENT_ACCEPTANCE" /\ state' = state /\ version' = version
      /\ assignments' = assignments /\ offers' = Append(offers, offer)
      /\ offer.version = version /\ offer.state = "OFFERED"
  BY <1>1 DEF CreateOffer, record
<1>3. offers \in Seq(Offers) /\ Len(offers) \in Nat /\ version \in Nat
  BY DEF TeamInv, OfferTypes
<1>4. offer \in Offers
  <2>1. Len(scopes) \in Nat /\ Len(quotes) \in Nat  BY DEF TeamInv, OfferTypes
  <2> QED  BY <1>1, <1>3, <2>1 DEF Offers
<1>5. /\ offers' \in Seq(Offers) /\ Len(offers') = Len(offers) + 1
      /\ \A n \in 1..Len(offers) : offers'[n] = offers[n]
      /\ offers'[Len(offers) + 1] = offer
  BY <1>2, <1>3, <1>4
<1>6. OfferTypes'  BY <1>2, <1>3, <1>5 DEF TeamInv, OfferTypes, CreateOffer, scopingRows
<1>7. \A n \in 1..Len(offers') : n \in 1..Len(offers) \/ n = Len(offers) + 1
  BY <1>3, <1>5
<1>8. OffersOfTheirPhase'
  BY <1>2, <1>3, <1>5, <1>7 DEF TeamInv, OffersOfTheirPhase
<1>9. Team1'
  <2>1. \A n \in 1..Len(offers') : n \in AcceptedOffers' <=> n \in AcceptedOffers
    BY <1>2, <1>3, <1>5, <1>7 DEF AcceptedOffers
  <2>2. AcceptedOffers' = AcceptedOffers
    BY <1>3, <1>5, <2>1 DEF AcceptedOffers
  <2>3. \A n \in AcceptedOffers : AssignmentOf(n)' = AssignmentOf(n)
    BY <1>5 DEF AcceptedOffers, AssignmentOf
  <2> QED  BY <1>2, <2>2, <2>3, TeamSettledIs DEF TeamInv, Team1
<1>10. Team2'  BY <1>2 DEF Team2, Working
<1>11. TeamSettled'  BY <1>9, <1>10 DEF TeamSettled, Team1, Team2, AcceptedOffers, AssignmentOf
<1> QED  BY <1>2, <1>6, <1>8, <1>11 DEF TeamInv

\* decide_offer: an open offer is closed, and an accepted one gives the assignment.
LEMMA AnswerKeepsTeam ==
  ASSUME TeamInv, NEW n \in 1..Len(offers),
         NEW answer \in {"ACCEPTED", "DECLINED", "EXPIRED"},
         offers[n].state = "OFFERED", Answer(n, answer),
         UNCHANGED <<record, req, scopingRows>>,
         assignments' = assignments \cup (IF answer = "ACCEPTED" THEN {AssignmentOf(n)} ELSE {})
  PROVE  TeamInv'
<1>1. offers \in Seq(Offers) /\ Len(offers) \in Nat /\ offers[n] \in Offers
  BY DEF TeamInv, OfferTypes
<1>2. PICK row : row = [offers[n] EXCEPT !.state = answer]  OBVIOUS
<1>3. /\ row \in Offers /\ row.state = answer /\ row.to = offers[n].to
      /\ row.role = offers[n].role /\ row.version = offers[n].version
  BY <1>1, <1>2 DEF Offers
<1>4. offers' = [offers EXCEPT ![n] = row]  BY <1>2 DEF Answer
<1>5. /\ offers' \in Seq(Offers) /\ Len(offers') = Len(offers) /\ offers'[n] = row
      /\ \A k \in 1..Len(offers) : k # n => offers'[k] = offers[k]
  BY <1>1, <1>3, <1>4
<1>6. OfferTypes'  BY <1>5 DEF TeamInv, OfferTypes, record, scopingRows
<1>7. OffersOfTheirPhase'
  <2>1. \A k \in 1..Len(offers) : offers'[k].version = offers[k].version  BY <1>3, <1>5
  <2> QED  BY <1>5, <2>1 DEF TeamInv, OffersOfTheirPhase, record
<1>8. AcceptedOffers' = AcceptedOffers \cup (IF answer = "ACCEPTED" THEN {n} ELSE {})
  BY <1>3, <1>5 DEF AcceptedOffers
<1>9. \A k \in 1..Len(offers) : AssignmentOf(k)' = AssignmentOf(k)
  BY <1>3, <1>5 DEF AssignmentOf
<1>10. AcceptedOffers \subseteq 1..Len(offers)  BY DEF AcceptedOffers
<1>11. Team1'
  <2>1. assignments = {AssignmentOf(k) : k \in AcceptedOffers}
    BY TeamSettledIs DEF TeamInv, Team1
  <2> QED  BY <1>8, <1>9, <1>10, <2>1 DEF Team1
<1>12. Team2'
  <2>1. n \in OpenOffers  BY DEF OpenOffers
  <2> QED  BY <2>1, TeamSettledIs DEF TeamInv, Team2, record, Working
<1>13. TeamSettled'  BY <1>11, <1>12 DEF TeamSettled, Team1, Team2, AcceptedOffers, AssignmentOf
<1> QED  BY <1>6, <1>7, <1>13 DEF TeamInv

\* The requests about offers. Only an answer to an open offer changes the team.
LEMMA OffersKeepTeam ==
  ASSUME TeamInv, OfferRequests
  PROVE  /\ TeamInv'
         /\ assignments' # assignments =>
              state = "AWAITING_STUDENT_ACCEPTANCE" /\ funded >= required
<1>1. ASSUME NEW n \in 1..Len(offers), ExpireOffer(n)
      PROVE  TeamInv' /\ assignments' = assignments
  BY <1>1, AnswerKeepsTeam DEF ExpireOffer
<1>2. ASSUME NEW n \in 1..Len(offers), DeclineOffer(n)
      PROVE  TeamInv' /\ assignments' = assignments
  BY <1>2, AnswerKeepsTeam DEF DeclineOffer, Decidable
<1>3. ASSUME NEW n \in 1..Len(offers), AcceptOffer(n)
      PROVE  TeamInv' /\ state = "AWAITING_STUDENT_ACCEPTANCE" /\ funded >= required
  <2>1. state = "AWAITING_STUDENT_ACCEPTANCE" /\ funded >= required
    BY <1>3 DEF AcceptOffer, Decidable, TeamInv, OffersOfTheirPhase
  <2>2. TeamInv'  BY <1>3, AnswerKeepsTeam DEF AcceptOffer, Decidable, AssignmentOf
  <2> QED  BY <2>1, <2>2
<1> QED  BY <1>1, <1>2, <1>3, CreateKeepsTeam DEF OfferRequests

\* transition_project: the version moves past every offer, and the team is confirmed
\* only with no offer open and a student on it.
LEMMA MoveKeepsTeam ==
  ASSUME TeamInv, NEW role, NEW to, Move(role, to), UNCHANGED <<scopes, quotes, staffingRows>>,
         to \in Working => OpenOffers = {} /\ \E a \in assignments : a.role = "student"
  PROVE  TeamInv' /\ assignments' = assignments
<1>1. /\ state' = to /\ version' = version + 1 /\ offers' = offers
      /\ assignments' = assignments
  BY DEF Move, staffingRows
<1>2. OfferTypes'  BY <1>1 DEF TeamInv, OfferTypes
<1>3. OffersOfTheirPhase'
  <2>1. offers \in Seq(Offers) /\ version \in Nat  BY DEF TeamInv, OfferTypes
  <2>2. ASSUME NEW n \in 1..Len(offers) PROVE offers[n].version \in Nat
    <3>1. offers[n] \in Offers  BY <2>1
    <3> QED  BY <3>1 DEF Offers
  <2>3. \A n \in 1..Len(offers) : offers[n].version <= version
    BY DEF TeamInv, OffersOfTheirPhase
  <2> QED  BY <1>1, <2>1, <2>2, <2>3 DEF OffersOfTheirPhase
<1>4. TeamSettled'  BY <1>1 DEF TeamInv, TeamSettled, OpenOffers
<1> QED  BY <1>1, <1>2, <1>3, <1>4 DEF TeamInv

\* The transitions keep the team settled.
LEMMA TransitionsKeepTeam ==
  ASSUME TeamInv, RecordAssumption, StaffingTransitions
  PROVE  TeamInv' /\ assignments' = assignments
<1>1. PICK role \in Roles :
        \/ CompleteStaffing(role) \/ ApproveStaffing(role) \/ ConfirmTeam(role)
        \/ Activate(role) \/ \E to \in Detours : DivertFromStaffing(role, to)
  BY DEF StaffingTransitions
<1>2. UNCHANGED <<scopes, quotes, staffingRows>>
  BY <1>1 DEF CompleteStaffing, ApproveStaffing, ConfirmTeam, Activate, DivertFromStaffing,
              scopingRows
<1>3. CASE CompleteStaffing(role)
  BY <1>2, <1>3, MoveKeepsTeam DEF CompleteStaffing, Working
<1>4. CASE ApproveStaffing(role)
  BY <1>2, <1>4, MoveKeepsTeam DEF ApproveStaffing, Working
<1>5. CASE ConfirmTeam(role)
  <2>1. \A a \in assignments : a.role # "technical lead" => a.role = "student"
    <3>1. offers \in Seq(Offers)  BY DEF TeamInv, OfferTypes
    <3>2. ASSUME NEW n \in 1..Len(offers) PROVE offers[n].role \in OfferRoles
      <4>1. offers[n] \in Offers  BY <3>1
      <4> QED  BY <4>1 DEF Offers
    <3>3. \A a \in assignments : \E n \in 1..Len(offers) : a.role = offers[n].role
      BY TeamSettledIs DEF TeamInv, Team1, AcceptedOffers, AssignmentOf
    <3> QED  BY <3>2, <3>3 DEF OfferRoles
  <2> QED  BY <1>2, <1>5, <2>1, MoveKeepsTeam DEF ConfirmTeam
<1>6. CASE Activate(role)
  <2>1. OpenOffers = {} /\ \E a \in assignments : a.role = "student"
    BY <1>6, TeamSettledIs DEF Activate, TeamInv, Team2, Working
  <2> QED  BY <1>2, <1>6, <2>1, MoveKeepsTeam DEF Activate
<1>7. ASSUME NEW to \in Detours, DivertFromStaffing(role, to)
      PROVE  TeamInv' /\ assignments' = assignments
  <2>1. Move(role, to)  BY <1>7 DEF DivertFromStaffing, Divert
  <2>2. to \notin Working  BY RecordAssumption DEF RecordAssumption, Working
  <2> QED  BY <1>2, <2>1, <2>2, MoveKeepsTeam
<1> QED  BY <1>1, <1>3, <1>4, <1>5, <1>6, <1>7

\* Everything else: staffing runs, plans, late scope runs and quotes, refusals.
LEMMA OthersKeepTeam ==
  ASSUME TeamInv,
         StaffingRuns \/ PlanRequests \/ LateScoping \/ (\E r \in Requests : AbandonInStaffing(r))
           \/ UNCHANGED staffingVars
  PROVE  TeamInv' /\ assignments' = assignments
<1>1. CASE StaffingRuns \/ PlanRequests \/ (\E r \in Requests : AbandonInStaffing(r))
             \/ UNCHANGED staffingVars
  <2>1. UNCHANGED <<state, version, offers, assignments, scopes, quotes>>
    BY <1>1 DEF StaffingRuns, StartStaffingRun, CommitStaffingRun, PlanRequests, StartPlan,
                CommitPlan, DecidePlan, AbandonInStaffing, Abandon, staffingVars, scopingVars,
                record, scopingRows, staffingRows
  <2>2. OfferTypes'  BY <2>1 DEF TeamInv, OfferTypes
  <2> QED  BY <2>1, <2>2, TeamKept
<1>2. CASE LateScoping
  <2>1. UNCHANGED <<offers, assignments>>  BY <1>2 DEF LateScoping, staffingRows
  <2>2. ASSUME ScopeRuns
        PROVE  UNCHANGED <<state, version, quotes>>
               /\ (scopes' = scopes \/ scopes' = Append(scopes, "PROPOSED"))
    BY <2>2 DEF ScopeRuns, StartScopeRun, FinishScopeRun, record, scopingRows
  <2>3. ASSUME QuoteRequests
        PROVE  UNCHANGED <<state, version, scopes>>
               /\ (quotes' = quotes \/ \E quote : quotes' = Append(quotes, quote))
    <3>1. PICK r \in Requests : LoadForQuote(r) \/ (\E base \in Bases : PriceQuote(r, base))
                                \/ NumberQuote(r) \/ CommitQuote(r)
      BY <2>3 DEF QuoteRequests
    <3>2. CASE CommitQuote(r)  BY <3>2 DEF CommitQuote
    <3>3. CASE LoadForQuote(r) \/ (\E base \in Bases : PriceQuote(r, base)) \/ NumberQuote(r)
      BY <3>3 DEF LoadForQuote, PriceQuote, NumberQuote, record, scopingRows
    <3> QED  BY <3>1, <3>2, <3>3
  <2>4. UNCHANGED <<state, version>>  BY <1>2, <2>2, <2>3 DEF LateScoping
  <2>5. scopes' \in Seq(ScopeStatus)
    <3>1. scopes \in Seq(ScopeStatus)  BY DEF TeamInv, OfferTypes
    <3>2. Append(scopes, "PROPOSED") \in Seq(ScopeStatus)  BY <3>1 DEF ScopeStatus
    <3> QED  BY <1>2, <2>2, <2>3, <3>1, <3>2 DEF LateScoping
  <2>6. \E Quoted : quotes' \in Seq(Quoted)
    <3>1. PICK Quoted : quotes \in Seq(Quoted)  BY DEF TeamInv, OfferTypes
    <3>2. ASSUME NEW quote, quotes' = Append(quotes, quote)
          PROVE  quotes' \in Seq(Quoted \cup {quote})
      <4>1. quotes \in Seq(Quoted \cup {quote})  BY <3>1
      <4> QED  BY <3>2, <4>1
    <3> QED  BY <1>2, <2>2, <2>3, <3>1, <3>2 DEF LateScoping
  <2>7. OfferTypes'  BY <2>1, <2>4, <2>5, <2>6 DEF TeamInv, OfferTypes
  <2> QED  BY <2>1, <2>4, <2>7, TeamKept
<1> QED  BY <1>1, <1>2

\* Every step keeps the team settled.
LEMMA StepKeepsTeam ==
  ASSUME TeamInv, RecordAssumption, [StaffingNext]_staffingVars
  PROVE  /\ TeamInv'
         /\ assignments' # assignments =>
              state = "AWAITING_STUDENT_ACCEPTANCE" /\ funded >= required
  BY OffersKeepTeam, TransitionsKeepTeam, OthersKeepTeam DEF StaffingNext

\* Each accepted offer gives its recipient one assignment and nothing else does, and once
\* the team is confirmed no offer is open (create_assignment_offer, decide_offer,
\* transition_project).
THEOREM TeamIsSettled == StaffingSpec => []TeamSettled
<1>1. TeamInv /\ [StaffingNext]_staffingVars => TeamInv'
  BY StepKeepsTeam, RecordAssumption
<1>2. TeamInv => TeamSettled  BY DEF TeamInv
<1> QED  BY InitTeam, <1>1, <1>2, PTL DEF StaffingSpec

\* The team changes only while offers are out and the deposit is covered, although
\* decide_offer never reads the state: an offer for the current version was made in it.
THEOREM TeamIsFrozen == StaffingSpec => TeamFrozen
<1>1. TeamInv /\ [StaffingNext]_staffingVars => TeamInv'
  BY StepKeepsTeam, RecordAssumption
<1>2. TeamInv /\ [StaffingNext]_staffingVars
        => [assignments' # assignments =>
              state = "AWAITING_STUDENT_ACCEPTANCE" /\ funded >= required]_staffingVars
  BY StepKeepsTeam, RecordAssumption
<1> QED  BY InitTeam, <1>1, <1>2, PTL DEF StaffingSpec, TeamFrozen

----------------------------------------------------------------------------
(* The plans. *)

BeforePlans == {"STAFFING", "AWAITING_STAFFING_APPROVAL", "AWAITING_STUDENT_ACCEPTANCE"}
ForThisProject(plan) == plan.version = version /\ plan.scope = AcceptedScope

\* No plan is drawn up before the team is confirmed, which happens once.
NoPlanYet ==
  state \in BeforePlans =>
    /\ plans = <<>>
    /\ \A r \in Requests : ~In(r, "plan")
    /\ ~PlanDecided

\* Until work starts, every plan and every plan run in flight is for the project as it
\* is, and the approval every edge into ACTIVE asks for is of one of these plans.
PlansAreCurrent ==
  state = "READY_TO_START" =>
    /\ \A plan \in Range(plans) : ForThisProject(plan)
    /\ \A r \in Requests : In(r, "plan") => ForThisProject(req[r])
    /\ PlanApproved => \E plan \in Range(plans) : plan.status = "APPROVED"

PlansInv == StaffTypes /\ NoPlanYet /\ PlansAreCurrent

\* A scope that was proposed meanwhile is not the accepted one.
LEMMA ProposedIsNotAccepted ==
  ASSUME scopes \in Seq(ScopeStatus), scopes' = Append(scopes, "PROPOSED")
  PROVE  AcceptedScope' = AcceptedScope
<1>1. {n \in 1..Len(scopes') : scopes'[n] = "CLIENT_ACCEPTED"}
        = {n \in 1..Len(scopes) : scopes[n] = "CLIENT_ACCEPTED"}
  <2>1. Len(scopes') = Len(scopes) + 1 /\ Len(scopes) \in Nat
        /\ \A n \in 1..Len(scopes') :
             scopes'[n] = IF n = Len(scopes) + 1 THEN "PROPOSED" ELSE scopes[n]
    OBVIOUS
  <2> QED  BY <2>1
<1> QED  BY <1>1 DEF AcceptedScope

\* A step without a plan, a decision or a transition.
LEMMA PlansCarry ==
  ASSUME PlansInv, StaffTypes', UNCHANGED <<state, version, approvals, plans>>,
         AcceptedScope' = AcceptedScope,
         \A r \in Requests : req'[r] = req[r] \/ req'[r].op # "plan"
  PROVE  PlansInv'
<1>1. NoPlanYet'  BY DEF PlansInv, NoPlanYet, In, PlanDecided
<1>2. PlansAreCurrent'  BY DEF PlansInv, PlansAreCurrent, In, ForThisProject, PlanApproved
<1> QED  BY <1>1, <1>2 DEF PlansInv

\* The initial states.
LEMMA InitPlans == StaffingStart => PlansInv
<1> SUFFICES ASSUME StaffingStart PROVE PlansInv  OBVIOUS
<1>1. plans = <<>> /\ state = "STAFFING"  BY DEF StaffingStart, StaffingInit
<1>2. ~PlanDecided  BY DEF StaffingStart, PlanDecided
<1>3. ASSUME NEW r \in Requests PROVE ~In(r, "plan")
  <2>1. PICK base \in Bases : req[r] \in LateRequests(base)  BY DEF StaffingStart
  <2> QED  BY <2>1 DEF LateRequests, In, Idle
<1> QED  BY <1>1, <1>2, <1>3, InitStaffTypes DEF PlansInv, NoPlanYet, PlansAreCurrent

\* transition_project: the team is confirmed before there is a plan.
LEMMA TransitionsKeepPlans ==
  ASSUME PlansInv, StaffTypes', RecordAssumption, StaffingTransitions
  PROVE  PlansInv'
<1>1. PICK role \in Roles :
        \/ CompleteStaffing(role) \/ ApproveStaffing(role) \/ ConfirmTeam(role)
        \/ Activate(role) \/ \E to \in Detours : DivertFromStaffing(role, to)
  BY DEF StaffingTransitions
<1>2. PICK to \in {"AWAITING_STAFFING_APPROVAL", "AWAITING_STUDENT_ACCEPTANCE",
                   "READY_TO_START", "ACTIVE"} \cup Detours :
        Move(role, to) /\ UNCHANGED <<scopingRows, staffingRows>>
  BY <1>1 DEF CompleteStaffing, ApproveStaffing, ConfirmTeam, Activate, DivertFromStaffing, Divert
<1>3. to \in BeforePlans \cup {"READY_TO_START"} => state \in BeforePlans
  BY <1>2 DEF Move, Allowed, RULES, Forward, Exits, Edge, BeforePlans
<1>4. PlanDecided' => PlanDecided
  <2>1. approvals' = approvals
          \/ \E ref : approvals' = approvals \cup {[subject |-> "staffing", ref |-> ref,
                                                   decision |-> "APPROVED"]}
    BY <1>1 DEF CompleteStaffing, ApproveStaffing, ConfirmTeam, Activate, DivertFromStaffing,
                Divert, Approve
  <2> QED  BY <2>1 DEF PlanDecided
<1>5. state' = to /\ plans' = plans /\ req' = req  BY <1>2 DEF Move, staffingRows
<1>6. NoPlanYet'  BY <1>3, <1>4, <1>5 DEF PlansInv, NoPlanYet, In
<1>7. PlansAreCurrent'
  <2> SUFFICES ASSUME to = "READY_TO_START" PROVE PlansAreCurrent'
    BY <1>5 DEF PlansAreCurrent
  <2>1. plans' = <<>> /\ ~PlanDecided' /\ \A r \in Requests : ~In(r, "plan")'
    BY <1>3, <1>4, <1>5 DEF PlansInv, NoPlanYet, In
  <2>2. Range(plans') = {}  BY <2>1 DEF Range
  <2> QED  BY <2>1, <2>2 DEF PlansAreCurrent, PlanApproved, PlanDecided
<1> QED  BY <1>6, <1>7 DEF PlansInv

\* run_planning_agent and decide_plan.
LEMMA RequestsKeepPlans ==
  ASSUME PlansInv, StaffTypes', PlanRequests PROVE PlansInv'
<1>0. plans \in Seq(Plans) /\ Len(plans) \in Nat /\ DOMAIN plans = 1..Len(plans)
      /\ req = [r \in Requests |-> req[r]]
  BY DEF PlansInv, StaffTypes, StaffingTypeOK, ScopingTypeOK, RecordTypeOK
<1>1. ASSUME NEW r \in Requests, StartPlan(r) PROVE PlansInv'
  <2>1. /\ state = "READY_TO_START"
        /\ UNCHANGED <<state, version, approvals, plans, scopes>>
        /\ req' = [req EXCEPT ![r] = [op |-> "plan", scope |-> AcceptedScope,
                                      version |-> version, after |-> Len(plans)]]
    BY <1>1 DEF StartPlan, Hold, record, scopingRows, staffingRows
  <2>2. AcceptedScope' = AcceptedScope  BY <2>1 DEF AcceptedScope
  <2>3. ASSUME NEW q \in Requests, In(q, "plan")' PROVE ForThisProject(req[q])'
    <3>1. CASE q = r  BY <1>0, <2>1, <2>2, <3>1 DEF ForThisProject
    <3>2. CASE q # r
      BY <1>0, <2>1, <2>2, <2>3, <3>2 DEF PlansInv, PlansAreCurrent, ForThisProject, In
    <3> QED  BY <3>1, <3>2
  <2>4. NoPlanYet'  BY <2>1 DEF NoPlanYet, BeforePlans
  <2>5. PlansAreCurrent'
    BY <2>1, <2>2, <2>3 DEF PlansInv, PlansAreCurrent, ForThisProject, PlanApproved
  <2> QED  BY <2>4, <2>5 DEF PlansInv
<1>2. ASSUME NEW r \in Requests, NEW position \in 1..Len(plans) + 1, CommitPlan(r, position)
      PROVE  PlansInv'
  <2>1. /\ In(r, "plan") /\ UNCHANGED <<state, version, approvals, scopes>>
        /\ req' = [req EXCEPT ![r] = Idle]
    BY <1>2 DEF CommitPlan, Release, record, scopingRows
  <2>2. PICK row \in Plans :
          /\ row.scope = req[r].scope /\ row.version = req[r].version
          /\ plans' = InsertAt(plans, position, row)
    <3>1. req[r] \in PlanCalls  BY <2>1 DEF PlansInv, StaffTypes, StaffingTypeOK
    <3>2. [id |-> Len(plans) + 1, scope |-> req[r].scope, version |-> req[r].version,
           status |-> "PROPOSED"] \in Plans
      BY <1>0, <3>1 DEF PlanCalls, Plans
    <3> QED  BY <1>2, <3>2 DEF CommitPlan
  <2>3. Range(plans') = Range(plans) \cup {row}  BY <1>0, <2>2, InsertAtAddsRow
  <2>4. AcceptedScope' = AcceptedScope  BY <2>1 DEF AcceptedScope
  <2>5. \A q \in Requests : In(q, "plan")' => In(q, "plan") /\ req'[q] = req[q]
    BY <1>0, <2>1 DEF In, Idle
  <2>6. NoPlanYet'  BY <2>1 DEF PlansInv, NoPlanYet
  <2>7. PlansAreCurrent'
    <3> SUFFICES ASSUME state = "READY_TO_START" PROVE PlansAreCurrent'
      BY <2>1 DEF PlansAreCurrent
    <3>1. ForThisProject(row)
      BY <2>1, <2>2 DEF PlansInv, PlansAreCurrent, ForThisProject
    <3>2. \A plan : ForThisProject(plan)' <=> ForThisProject(plan)
      BY <2>1, <2>4 DEF ForThisProject
    <3>3. \A plan \in Range(plans') : ForThisProject(plan)
      BY <2>3, <3>1 DEF PlansInv, PlansAreCurrent
    <3>4. \A q \in Requests : In(q, "plan")' => ForThisProject(req'[q])
      BY <2>5 DEF PlansInv, PlansAreCurrent
    <3>5. PlanApproved' => \E plan \in Range(plans') : plan.status = "APPROVED"
      BY <2>1, <2>3 DEF PlansInv, PlansAreCurrent, PlanApproved
    <3> QED  BY <2>1, <2>4, <3>3, <3>4, <3>5 DEF PlansAreCurrent, ForThisProject
  <2> QED  BY <2>6, <2>7 DEF PlansInv
<1>3. ASSUME NEW n \in 1..Len(plans), NEW decision \in {"APPROVED", "REJECTED"},
             DecidePlan(n, decision)
      PROVE  PlansInv'
  <2>1. /\ state = "READY_TO_START" /\ UNCHANGED <<state, version, req, scopes>>
        /\ plans[n].status = "PROPOSED"
        /\ approvals' = approvals \cup
             {[subject |-> "plan", ref |-> plans[n].id, decision |-> decision]}
    BY <1>3 DEF DecidePlan, scopingRows
  <2>2. PICK row \in Plans :
          /\ row.scope = plans[n].scope /\ row.version = plans[n].version
          /\ row.status = decision /\ plans' = [plans EXCEPT ![n] = row]
    <3>1. plans[n] \in Plans  BY <1>0
    <3>2. [plans[n] EXCEPT !.status = decision] \in Plans  BY <3>1 DEF Plans
    <3>3. PICK row : row = [plans[n] EXCEPT !.status = decision]  OBVIOUS
    <3>4. row.scope = plans[n].scope /\ row.version = plans[n].version /\ row.status = decision
      BY <3>1, <3>3 DEF Plans
    <3> QED  BY <1>3, <3>2, <3>3, <3>4 DEF DecidePlan
  <2>3. DOMAIN plans' = DOMAIN plans /\ plans'[n] = row
        /\ \A m \in 1..Len(plans) : m # n => plans'[m] = plans[m]
    BY <1>0, <2>2
  <2>4. AcceptedScope' = AcceptedScope  BY <2>1 DEF AcceptedScope
  <2>5. NoPlanYet'  BY <2>1 DEF NoPlanYet, BeforePlans
  <2>6. \A plan \in Range(plans) : ForThisProject(plan)
    BY <2>1 DEF PlansInv, PlansAreCurrent
  <2>7. \A plan \in Range(plans') : ForThisProject(plan)
    <3>1. ForThisProject(plans[n])  BY <1>0, <2>6 DEF Range
    <3>2. ForThisProject(row)  BY <2>2, <3>1 DEF ForThisProject
    <3>3. ASSUME NEW m \in DOMAIN plans PROVE ForThisProject(plans'[m])
      BY <1>0, <2>3, <2>6, <3>2, <3>3 DEF Range
    <3> QED  BY <2>3, <3>3 DEF Range
  <2>8. PlanApproved' => \E plan \in Range(plans') : plan.status = "APPROVED"
    <3>1. CASE decision = "APPROVED"
      BY <1>0, <2>2, <2>3, <3>1 DEF Range
    <3>2. CASE decision = "REJECTED"
      <4> SUFFICES ASSUME PlanApproved' PROVE \E plan \in Range(plans') : plan.status = "APPROVED"
        OBVIOUS
      <4>1. PlanApproved  BY <2>1, <3>2 DEF PlanApproved
      <4>2. PICK m \in DOMAIN plans : plans[m].status = "APPROVED"
        BY <2>1, <4>1 DEF PlansInv, PlansAreCurrent, Range
      <4>3. m # n /\ plans'[m] = plans[m]  BY <1>0, <2>1, <2>3, <4>2
      <4> QED  BY <2>3, <4>2, <4>3 DEF Range
    <3> QED  BY <3>1, <3>2
  <2>9. \A q \in Requests : In(q, "plan")' => ForThisProject(req'[q])
    BY <2>1 DEF PlansInv, PlansAreCurrent, In
  <2> QED
    BY <2>1, <2>4, <2>5, <2>7, <2>8, <2>9 DEF PlansInv, PlansAreCurrent, ForThisProject
<1> QED  BY <1>1, <1>2, <1>3 DEF PlanRequests

\* Staffing runs, offers, late scope runs and quotes, refusals.
LEMMA OthersKeepPlans ==
  ASSUME PlansInv, StaffTypes',
         StaffingRuns \/ OfferRequests \/ LateScoping
           \/ (\E r \in Requests : AbandonInStaffing(r)) \/ UNCHANGED staffingVars
  PROVE  PlansInv'
<1>0. req = [r \in Requests |-> req[r]] /\ scopes \in Seq(ScopeStatus)
  BY DEF PlansInv, StaffTypes, StaffingTypeOK, ScopingTypeOK, RecordTypeOK
<1> DEFINE Other(r) == \E read : Hold(r, read) /\ read.op # "plan"
<1>1. ASSUME NEW r \in Requests, Release(r) PROVE Other(r)
  <2>1. Hold(r, Idle) /\ Idle.op # "plan"  BY <1>1 DEF Release, Hold, Idle
  <2> QED  BY <2>1
<1>2. (\E r \in Requests : Other(r)) => \A r \in Requests : req'[r] = req[r] \/ req'[r].op # "plan"
  BY <1>0 DEF Hold
<1>3. CASE StaffingRuns \/ (\E r \in Requests : AbandonInStaffing(r))
  <2>1. /\ UNCHANGED <<state, version, approvals, plans, scopes>>
    BY <1>3 DEF StaffingRuns, StartStaffingRun, CommitStaffingRun, AbandonInStaffing, Abandon,
                record, scopingRows, staffingRows
  <2>2. \E r \in Requests : Other(r)
    <3>1. ASSUME NEW r \in Requests, StartStaffingRun(r) PROVE Other(r)
      BY <3>1 DEF StartStaffingRun
    <3> QED  BY <1>1, <1>3, <3>1 DEF StaffingRuns, CommitStaffingRun, AbandonInStaffing, Abandon
  <2>3. AcceptedScope' = AcceptedScope  BY <2>1 DEF AcceptedScope
  <2> HIDE DEF Other
  <2> QED  BY <1>2, <2>1, <2>2, <2>3, PlansCarry
<1>4. CASE OfferRequests \/ UNCHANGED staffingVars
  <2>1. UNCHANGED <<state, version, approvals, plans, scopes, req>>
    BY <1>4 DEF OfferRequests, CreateOffer, ExpireOffer, AcceptOffer, DeclineOffer, staffingVars,
                scopingVars, record, scopingRows, staffingRows
  <2>2. AcceptedScope' = AcceptedScope  BY <2>1 DEF AcceptedScope
  <2> QED  BY <2>1, <2>2, PlansCarry
<1>5. CASE LateScoping
  <2>1. \E r \in Requests : Other(r)
    <3>1. ASSUME NEW r \in Requests, NEW prompt \in Prompts, StartScopeRun(r, prompt)
          PROVE  Other(r)
      BY <3>1 DEF StartScopeRun
    <3>2. ASSUME NEW r \in Requests, LoadForQuote(r) PROVE Other(r)
      BY <3>2 DEF LoadForQuote
    <3>3. ASSUME NEW r \in Requests, NEW base \in Bases, PriceQuote(r, base) PROVE Other(r)
      BY <3>3 DEF PriceQuote
    <3>4. ASSUME NEW r \in Requests, NumberQuote(r) PROVE Other(r)
      BY <3>4 DEF NumberQuote
    <3> HIDE DEF Other
    <3> QED
      BY <1>1, <1>5, <3>1, <3>2, <3>3, <3>4
         DEF LateScoping, ScopeRuns, FinishScopeRun, QuoteRequests, CommitQuote
  <2>2. /\ UNCHANGED <<state, version, approvals, plans>>
        /\ scopes' = scopes \/ scopes' = Append(scopes, "PROPOSED")
    BY <1>5 DEF LateScoping, ScopeRuns, StartScopeRun, FinishScopeRun, QuoteRequests,
                LoadForQuote, PriceQuote, NumberQuote, CommitQuote, record, scopingRows,
                staffingRows
  <2>3. AcceptedScope' = AcceptedScope
    BY <1>0, <2>2, ProposedIsNotAccepted DEF AcceptedScope
  <2> HIDE DEF Other
  <2> QED  BY <1>2, <2>1, <2>2, <2>3, PlansCarry
<1> QED  BY <1>3, <1>4, <1>5

\* Every step keeps the work on its plan.
LEMMA StepKeepsPlans ==
  ASSUME PlansInv, RecordAssumption, [StaffingNext]_staffingVars PROVE PlansInv'
<1>1. StaffTypes'  BY StaffTypesStep DEF PlansInv
<1> QED
  BY <1>1, TransitionsKeepPlans, RequestsKeepPlans, OthersKeepPlans DEF StaffingNext

\* Work starts under an approved plan, and every approved plan is for the accepted scope
\* and the version the project then has, whichever of several plan runs finished last
\* (run_planning_agent, decide_plan, transition_project).
THEOREM WorkIsPlanned == StaffingSpec => WorkOnCurrentPlan
<1>1. PlansInv /\ [StaffingNext]_staffingVars => PlansInv'
  BY StepKeepsPlans, RecordAssumption
<1>2. PlansInv /\ [StaffingNext]_staffingVars
        => [(state = "READY_TO_START" /\ state' = "ACTIVE") =>
              /\ ApprovedPlans # {}
              /\ \A n \in ApprovedPlans :
                   plans[n].version = version /\ plans[n].scope = AcceptedScope]_staffingVars
  <2> SUFFICES ASSUME PlansInv, StaffingNext, state = "READY_TO_START", state' = "ACTIVE"
               PROVE  /\ ApprovedPlans # {}
                      /\ \A n \in ApprovedPlans :
                           plans[n].version = version /\ plans[n].scope = AcceptedScope
    OBVIOUS
  <2>1. plans \in Seq(Plans) /\ DOMAIN plans = 1..Len(plans)
    BY DEF PlansInv, StaffTypes, StaffingTypeOK
  <2>2. PlanApproved
    <3>1. StaffingTransitions
      BY DEF StaffingNext, StaffingRuns, StartStaffingRun, CommitStaffingRun, OfferRequests,
             CreateOffer, ExpireOffer, AcceptOffer, DeclineOffer, PlanRequests, StartPlan,
             CommitPlan, DecidePlan, LateScoping, ScopeRuns, StartScopeRun, FinishScopeRun,
             QuoteRequests, LoadForQuote, PriceQuote, NumberQuote, CommitQuote,
             AbandonInStaffing, Abandon, record
    <3> QED
      BY <3>1, RecordAssumption
         DEF StaffingTransitions, CompleteStaffing, ApproveStaffing, ConfirmTeam, Activate,
             DivertFromStaffing, Divert, Move, RecordAssumption
  <2>3. PICK n \in DOMAIN plans : plans[n].status = "APPROVED"
    BY <2>2 DEF PlansInv, PlansAreCurrent, Range
  <2>4. \A m \in DOMAIN plans : ForThisProject(plans[m])
    BY DEF PlansInv, PlansAreCurrent, Range
  <2> QED  BY <2>1, <2>3, <2>4 DEF ApprovedPlans, ForThisProject
<1> QED  BY InitPlans, <1>1, <1>2, PTL DEF StaffingSpec, WorkOnCurrentPlan
=============================================================================
