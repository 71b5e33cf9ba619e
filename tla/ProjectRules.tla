---------------------------- MODULE ProjectRules ----------------------------
(***************************************************************************)
(* The state machine of a project: the states, the roles and the edges of  *)
(* the RULES table in apps/api/app/projects/service.py.  Every module that *)
(* moves a project uses these definitions, so that there is one table, as  *)
(* in the code.                                                            *)
(***************************************************************************)
EXTENDS Integers

Roles == {"client_owner", "client_member", "student", "technical_lead",
          "reviewer", "coordinator", "university_viewer", "platform_admin"}

States ==
  {"DRAFT", "SCOPING", "AWAITING_COORDINATOR_SCOPE_APPROVAL",
   "AWAITING_CLIENT_SCOPE_APPROVAL", "AWAITING_DEPOSIT", "STAFFING",
   "AWAITING_STAFFING_APPROVAL", "AWAITING_STUDENT_ACCEPTANCE",
   "READY_TO_START", "ACTIVE", "QA_REVIEW", "AWAITING_RELEASE_APPROVAL",
   "CLIENT_REVIEW", "REVISION_REQUESTED", "CHANGE_ORDER_REVIEW", "ACCEPTED",
   "PAYOUT_PENDING", "COMPLETED", "PAUSED", "CANCELED", "DISPUTED"}

\* The default of projects.state.
Created == "DRAFT"

Closed == {"COMPLETED", "CANCELED"}

Edge(from, to, roles) == [from |-> from, to |-> to, roles |-> roles]

\* The edges of the happy path and of the revision and change-order loops.
Forward ==
  {Edge("DRAFT", "SCOPING", {"client_owner"}),
   Edge("SCOPING", "AWAITING_COORDINATOR_SCOPE_APPROVAL",
        {"coordinator", "platform_admin"}),
   Edge("AWAITING_COORDINATOR_SCOPE_APPROVAL", "AWAITING_CLIENT_SCOPE_APPROVAL",
        {"coordinator"}),
   Edge("AWAITING_CLIENT_SCOPE_APPROVAL", "AWAITING_DEPOSIT", {"client_owner"}),
   Edge("AWAITING_DEPOSIT", "STAFFING", {"coordinator"}),
   Edge("STAFFING", "AWAITING_STAFFING_APPROVAL", {"coordinator"}),
   Edge("AWAITING_STAFFING_APPROVAL", "AWAITING_STUDENT_ACCEPTANCE",
        {"coordinator"}),
   Edge("AWAITING_STUDENT_ACCEPTANCE", "READY_TO_START", {"coordinator"}),
   Edge("READY_TO_START", "ACTIVE", {"coordinator", "technical_lead"}),
   Edge("ACTIVE", "QA_REVIEW", {"student", "technical_lead"}),
   Edge("QA_REVIEW", "AWAITING_RELEASE_APPROVAL",
        {"technical_lead", "coordinator"}),
   Edge("AWAITING_RELEASE_APPROVAL", "CLIENT_REVIEW", {"coordinator"}),
   Edge("CLIENT_REVIEW", "REVISION_REQUESTED", {"client_owner"}),
   Edge("REVISION_REQUESTED", "ACTIVE", {"coordinator", "technical_lead"}),
   Edge("CLIENT_REVIEW", "CHANGE_ORDER_REVIEW", {"client_owner", "coordinator"}),
   Edge("CHANGE_ORDER_REVIEW", "ACTIVE", {"coordinator"}),
   Edge("CHANGE_ORDER_REVIEW", "CLIENT_REVIEW", {"client_owner", "coordinator"}),
   Edge("CLIENT_REVIEW", "ACCEPTED", {"client_owner"}),
   Edge("ACCEPTED", "PAYOUT_PENDING", {"coordinator"}),
   Edge("PAYOUT_PENDING", "COMPLETED", {"coordinator"})}

\* The three exits the loop at the end of the table adds to every open state,
\* PAUSED and DISPUTED themselves included.
Exits(s) ==
  {Edge(s, "PAUSED", {"coordinator"}),
   Edge(s, "DISPUTED",
        {"client_owner", "student", "technical_lead", "coordinator"}),
   Edge(s, "CANCELED", {"client_owner", "coordinator"})}

RULESFromAll == Forward \cup UNION {Exits(s) : s \in States}  \* mutant: closed too
RULES == Forward \cup UNION {Exits(s) : s \in States \ Closed}

\* RULES.get((current, target)) exists and names the caller's role.
Allowed(role, from, to) ==
  \E rule \in RULES : rule.from = from /\ rule.to = to /\ role \in rule.roles

\* Targets that require the deposit: the funding check precedes every other.
FundingGated == {"STAFFING", "READY_TO_START", "ACTIVE"}

FundingConfirmed(to, funded, required) == to \in FundingGated => funded >= required
=============================================================================
