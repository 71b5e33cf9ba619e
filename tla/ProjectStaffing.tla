-------------------------- MODULE ProjectStaffing --------------------------
(***************************************************************************)
(* From a funded project to work in progress: staffing runs, offers and    *)
(* their decisions, plans and their approval.                              *)
(*                                                                         *)
(* Staffing and plan runs read the project without its lock and insert     *)
(* later; offers are made and decided under it.  Scope runs and quotes     *)
(* that began in the phase before may still commit during this one.        *)
(***************************************************************************)
EXTENDS ProjectScoping

CONSTANTS
  Students,   \* users with an eligible student profile
  Leads,      \* users with a verified lead profile
  Committed,  \* committed_hours of each profile; nothing in the API writes it
  Cap,        \* workload_cap_hours of each profile
  Hours,      \* weekly hours that offers ask for
  Pays,       \* gross compensation of an offer
  MaxOffers,  \* bound on the offers
  MaxPlans    \* bound on the plan runs

Team == Students \cup Leads

ASSUME StaffingAssumption ==
  /\ Committed \in [Team -> Nat]
  /\ Cap \in [Team -> Nat]
  /\ Hours \subseteq Nat \ {0}
  /\ Pays \subseteq Nat \ {0}
  /\ MaxOffers \in Nat
  /\ MaxPlans \in Nat

VARIABLES
  shortlists,   \* scope versions with a COMPLETED staffing run
  offers,       \* assignment_offers, in the order they were made
  assignments,  \* project_assignments: one per accepted offer
  plans         \* plan_runs, in the order of created_at

staffingRows == <<shortlists, offers, assignments, plans>>
staffingVars == <<scopingVars, staffingRows>>

OfferRoles == {"student", "technical lead"}
Offers ==
  [to : Team, role : OfferRoles, hours : Hours, pay : Pays, version : Nat, scope : Nat,
   quote : Nat, state : {"OFFERED", "ACCEPTED", "DECLINED", "EXPIRED"}]
Assignments == [user : Team, role : OfferRoles, offer : Nat]
Plans ==
  [id : Nat, scope : Nat, version : Nat, status : {"PROPOSED", "APPROVED", "REJECTED"}]

StaffingCalls == [op : {"staff"}, scope : Nat]
PlanCalls == [op : {"plan"}, scope : Nat, version : Nat, after : Nat]

StaffingTypeOK ==
  /\ ScopingTypeOK
  /\ shortlists \subseteq 1..Len(scopes)
  /\ offers \in Seq(Offers)
  /\ assignments \subseteq Assignments
  /\ plans \in Seq(Plans)
  /\ \A r \in Requests :
       /\ In(r, "staff") => req[r] \in StaffingCalls
       /\ In(r, "plan") => req[r] \in PlanCalls

StaffingInit ==
  /\ shortlists = {}
  /\ offers = <<>>
  /\ assignments = {}
  /\ plans = <<>>

\* A caller who is not a client or an operator must be assigned to the project.
Member(role) ==
  /\ role = "student" => \E a \in assignments : a.user \in Students
  /\ role = "technical_lead" => \E a \in assignments : a.user \in Leads

\* The client-accepted scope with the highest version, 0 if there is none.
AcceptedScope ==
  Max({0} \cup {n \in 1..Len(scopes) : scopes[n] = "CLIENT_ACCEPTED"})

----------------------------------------------------------------------------
(* create_staffing_run. *)

StartStaffingRun(r) ==
  /\ Free(r)
  /\ state = "STAFFING"
  /\ scopes # <<>>
  /\ Len(scopes) \notin shortlists
  /\ Hold(r, [op |-> "staff", scope |-> Len(scopes)])
  /\ UNCHANGED <<record, scopingRows, staffingRows>>

CommitStaffingRun(r) ==
  /\ In(r, "staff")
  /\ shortlists' = shortlists \cup {req[r].scope}
  /\ Release(r)
  /\ UNCHANGED <<record, scopingRows, offers, assignments, plans>>

----------------------------------------------------------------------------
(* create_assignment_offer and decide_offer. *)

Fits(user, hours) == Committed[user] + hours <= Cap[user]

CreateOffer(user, role, hours, pay) ==
  /\ state = "AWAITING_STUDENT_ACCEPTANCE"
  /\ funded >= required
  /\ scopes # <<>> /\ quotes # <<>>
  /\ role = "technical lead" => user \in Leads
  /\ role = "student" => user \in Students /\ Fits(user, hours)
  /\ Len(offers) < MaxOffers
  /\ offers' = Append(offers,
       [to |-> user, role |-> role, hours |-> hours, pay |-> pay, version |-> version,
        scope |-> Len(scopes), quote |-> Len(quotes), state |-> "OFFERED"])
  /\ UNCHANGED <<record, req, scopingRows, shortlists, assignments, plans>>

Answer(n, answer) == offers' = [offers EXCEPT ![n].state = answer]

\* The answer came after expires_at: the offer is closed and the answer refused.
ExpireOffer(n) ==
  /\ offers[n].state = "OFFERED"
  /\ Answer(n, "EXPIRED")
  /\ UNCHANGED <<record, req, scopingRows, shortlists, assignments, plans>>

HasTime(n) ==
  IF offers[n].role = "technical lead"
  THEN Committed[offers[n].to] < Cap[offers[n].to]
  ELSE Fits(offers[n].to, offers[n].hours)

\* The state of the project is not read: its version stands for it.
\* Mutants: an offer decided twice, and one decided for another version.
DecidableAgain(n) == funded >= required /\ version = offers[n].version /\ HasTime(n)
DecidableLater(n) == offers[n].state = "OFFERED" /\ funded >= required /\ HasTime(n)
Decidable(n) ==
  /\ offers[n].state = "OFFERED"
  /\ funded >= required
  /\ version = offers[n].version
  /\ HasTime(n)

AcceptOffer(n) ==
  /\ Decidable(n)
  /\ Answer(n, "ACCEPTED")
  /\ assignments' = assignments \cup
       {[user |-> offers[n].to, role |-> offers[n].role, offer |-> n]}
  /\ UNCHANGED <<record, req, scopingRows, shortlists, plans>>

DeclineOffer(n) ==
  /\ Decidable(n)
  /\ Answer(n, "DECLINED")
  /\ UNCHANGED <<record, req, scopingRows, shortlists, assignments, plans>>

----------------------------------------------------------------------------
(* run_planning_agent and decide_plan. *)

\* The latest plan of this scope is current: it is returned instead of a new one.
PlanCurrent(scope) ==
  LET own == {n \in 1..Len(plans) : plans[n].scope = scope} IN
  /\ own # {}
  /\ plans[Max(own)].version = version
  /\ plans[Max(own)].status \in {"PROPOSED", "APPROVED"}

StartPlan(r) ==
  /\ Free(r)
  /\ state = "READY_TO_START"
  /\ AcceptedScope # 0
  /\ ~PlanCurrent(AcceptedScope)
  /\ Hold(r, [op |-> "plan", scope |-> AcceptedScope, version |-> version,
              after |-> Len(plans)])
  /\ UNCHANGED <<record, scopingRows, staffingRows>>

\* created_at is the start of the transaction: a plan that took long is inserted
\* before the plans of requests that began later and were done sooner.
CommitPlan(r, position) ==
  /\ In(r, "plan")
  /\ Len(plans) < MaxPlans
  /\ position \in req[r].after + 1 .. Len(plans) + 1
  /\ plans' = InsertAt(plans, position,
       [id |-> Len(plans) + 1, scope |-> req[r].scope, version |-> req[r].version,
        status |-> "PROPOSED"])
  /\ Release(r)
  /\ UNCHANGED <<record, scopingRows, shortlists, offers, assignments>>

\* APPROVED also creates the milestones and tasks of the plan.
DecidePlan(n, decision) ==
  /\ state = "READY_TO_START"
  /\ plans[n].status = "PROPOSED"
  /\ plans[n].version = version
  /\ plans' = [plans EXCEPT ![n].status = decision]
  /\ approvals' = approvals \cup
       {[subject |-> "plan", ref |-> plans[n].id, decision |-> decision]}
  /\ UNCHANGED <<state, version, money, complexity, req, scopingRows, shortlists, offers,
                 assignments>>

----------------------------------------------------------------------------
(* transition_project, the targets of this phase. *)

CompleteStaffing(role) ==
  /\ shortlists # {}
  /\ Move(role, "AWAITING_STAFFING_APPROVAL")
  /\ UNCHANGED <<approvals, scopingRows, staffingRows>>

\* The approval names the latest run; which one it is has no further use.
ApproveStaffing(role) ==
  /\ shortlists # {}
  /\ Move(role, "AWAITING_STUDENT_ACCEPTANCE")
  /\ Approve("staffing", Max(shortlists))
  /\ UNCHANGED <<scopingRows, staffingRows>>

OpenOffers == {n \in 1..Len(offers) : offers[n].state = "OFFERED"}

ConfirmTeam(role) ==
  /\ OpenOffers = {}
  /\ \E a \in assignments : a.role # "technical lead"
  /\ complexity # "LOW" => \E a \in assignments : a.role = "technical lead"
  /\ Move(role, "READY_TO_START")
  /\ UNCHANGED <<approvals, scopingRows, staffingRows>>

\* Every edge into ACTIVE asks for an approved plan.
PlanDecided == \E a \in approvals : a.subject = "plan"  \* mutant: or a rejected one
PlanApproved ==
  \E a \in approvals : a.subject = "plan" /\ a.decision = "APPROVED"

Activate(role) ==
  /\ state = "READY_TO_START"
  /\ Member(role)
  /\ PlanApproved
  /\ Move(role, "ACTIVE")
  /\ UNCHANGED <<approvals, scopingRows, staffingRows>>

DivertFromStaffing(role, to) ==
  /\ Member(role)
  /\ Divert(role, to)
  /\ UNCHANGED <<scopingRows, staffingRows>>

StaffingRuns ==
  \E r \in Requests : StartStaffingRun(r) \/ CommitStaffingRun(r)

OfferRequests ==
  \/ \E user \in Team, role \in OfferRoles, hours \in Hours, pay \in Pays :
       CreateOffer(user, role, hours, pay)
  \/ \E n \in 1..Len(offers) : ExpireOffer(n) \/ AcceptOffer(n) \/ DeclineOffer(n)

PlanRequests ==
  \/ \E r \in Requests :
       \/ StartPlan(r)
       \/ \E position \in 1..Len(plans) + 1 : CommitPlan(r, position)
  \/ \E n \in 1..Len(plans), decision \in {"APPROVED", "REJECTED"} :
       DecidePlan(n, decision)

StaffingTransitions ==
  \E role \in Roles :
    \/ CompleteStaffing(role)
    \/ ApproveStaffing(role)
    \/ ConfirmTeam(role)
    \/ Activate(role)
    \/ \E to \in Detours : DivertFromStaffing(role, to)

\* Scope runs and quotes that began before the client accepted.
LateScoping == (ScopeRuns \/ QuoteRequests) /\ UNCHANGED staffingRows

AbandonInStaffing(r) == Abandon(r) /\ UNCHANGED <<scopingRows, staffingRows>>

StaffingNext ==
  \/ StaffingRuns
  \/ OfferRequests
  \/ PlanRequests
  \/ StaffingTransitions
  \/ LateScoping
  \/ \E r \in Requests : AbandonInStaffing(r)

\* A project the client has paid the base price of, as ProjectScoping leaves it,
\* with requests of that phase that are still to be answered.
LateRequests(base) ==
  {Idle} \cup
  [op : {"scope"}, prompt : Prompts \ scopedBy, seen : {"LOW", complexity}] \cup
  [op : {"quote"}, seen : {0, base}] \cup
  [op : {"priced"}, seen : {0, base}, scope : {1}, base : Bases] \cup
  [op : {"numbered"}, seen : {0, base}, scope : {1}, base : Bases,
   number : {2} \cap 1..MaxQuotes]

StaffingStart ==
  \E base \in Bases \cap Amounts, by \in Prompts, key \in PayKeys :
    /\ state = "STAFFING"
    /\ version = 6
    /\ required = base
    /\ funded = base
    /\ complexity \in {"LOW", "HIGH"}
    /\ ledger = [external_funding_evidence |-> base, client_funding_liability |-> -base,
                 external_payout_evidence |-> 0]
    /\ approvals = {[subject |-> "scope", ref |-> 1, decision |-> "APPROVED"],
                    [subject |-> "scope_and_quote", ref |-> 1, decision |-> "APPROVED"]}
    /\ scopes = <<"CLIENT_ACCEPTED">>
    /\ scopedBy = {by}
    /\ quotes = <<[scope |-> 1, base |-> base, status |-> "CLIENT_ACCEPTED"]>>
    /\ payments = {[key |-> key, amount |-> base]}
    /\ req \in [Requests -> LateRequests(base)]
    /\ StaffingInit

StaffingSpec == StaffingStart /\ [][StaffingNext]_staffingVars

----------------------------------------------------------------------------
(* Properties. *)

\* The team is chosen only while offers are out and the deposit is covered:
\* decide_offer never reads the state, so this rests on every offer being made in
\* AWAITING_STUDENT_ACCEPTANCE and on every transition changing the version.
TeamFrozen ==
  [][assignments' # assignments =>
       state = "AWAITING_STUDENT_ACCEPTANCE" /\ funded >= required]_staffingVars

\* Each accepted offer gives its recipient one assignment and nothing else does;
\* once the team is confirmed no offer is open any more, so none can still be
\* accepted, declined or expire, and a student is on the team.
Working == {"READY_TO_START", "ACTIVE"}
TeamSettled ==
  /\ assignments =
       {[user |-> offers[n].to, role |-> offers[n].role, offer |-> n] :
          n \in {m \in 1..Len(offers) : offers[m].state = "ACCEPTED"}}
  /\ state \in Working =>
       OpenOffers = {} /\ \E a \in assignments : a.role = "student"

\* Work starts under an approved plan for the accepted scope that was drawn up for
\* the project as it is now, whichever of several plan runs finished last, and
\* every plan decision is on record.
ApprovedPlans == {n \in 1..Len(plans) : plans[n].status = "APPROVED"}
WorkOnCurrentPlan ==
  [][(state = "READY_TO_START" /\ state' = "ACTIVE") =>
       /\ ApprovedPlans # {}
       /\ \A n \in ApprovedPlans :
            plans[n].version = version /\ plans[n].scope = AcceptedScope]_staffingVars
=============================================================================
