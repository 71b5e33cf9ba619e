--------------------------- MODULE ProjectConsole ---------------------------
(***************************************************************************)
(* The project page of the web workspace                                   *)
(* (components/project-command-center.tsx): what each role is offered in   *)
(* each state, and what a press does.  Every press is a POST followed by a *)
(* GET of the workspace; the page is locked in between.  Several tabs show *)
(* one project, each a copy of what it last read.                          *)
(*                                                                         *)
(* The server's side is the summary of the handlers this page can tell     *)
(* apart (the phase modules have them in full); it may also refuse.  An    *)
(* answer can be lost after the server committed, and a refetch of the     *)
(* query cache can be answered before a press and arrive after it.         *)
(***************************************************************************)
EXTENDS ProjectRules, Sequences, FiniteSets

CONSTANTS
  Tabs,        \* open project pages
  TabRole,     \* the role of each tab's session, of those that see a project from its draft on
  Deposit,     \* required_deposit_minor the quote form ends up with
  Receipts,    \* evidence references the coordinator has to record
  MaxOffers,   \* bound on the offers sent
  MaxPresses,  \* bound on the presses of a page's buttons
  MaxFaults    \* bound on refused or lost requests and late answers

ASSUME ConsoleAssumption ==
  /\ TabRole \in [Tabs -> {"client_owner", "client_member", "coordinator", "platform_admin"}]
  /\ Deposit \in Nat \ {0}
  /\ MaxOffers \in Nat
  /\ MaxPresses \in Nat
  /\ MaxFaults \in Nat

VARIABLES
  project,      \* what GET /projects/{id}/workspace shows of the project now
  transitions,  \* project_transitions
  payments,     \* funding evidence in the ledger, in order
  shown,        \* the workspace each tab shows
  late,         \* an answer to a refetch of the query cache, still on its way
  call,         \* the last press of each tab and how far it is
  sent,         \* the transition requests formed so far
  toRecord,     \* the receipts the coordinator believes are not recorded
  faults

consoleVars == <<project, transitions, payments, shown, late, call, sent, toRecord, faults>>
server == <<project, transitions, payments>>

NoPlan == "none"

Created0 ==
  [state |-> Created, version |-> 1, scope |-> FALSE, quote |-> FALSE, staffing |-> FALSE,
   offers |-> <<>>, plan |-> NoPlan, funded |-> 0, required |-> 0]
\* Staffing runs and offers are sent to the coordinator and the administrator only.
ViewFor(r) ==
  IF r \in {"coordinator", "platform_admin"} THEN project
  ELSE [project EXCEPT !.staffing = FALSE, !.offers = <<>>]

Nothing == "none"
NoCall == [op |-> "none", with |-> Nothing, phase |-> "idle"]
\* No answer is on its way: versions start at 1.
NoAnswer == [Created0 EXCEPT !.version = 0]

ConsoleInit ==
  /\ project = Created0
  /\ transitions = {}
  /\ payments = <<>>
  /\ shown = [t \in Tabs |-> Created0]
  /\ late = [t \in Tabs |-> NoAnswer]
  /\ call = [t \in Tabs |-> NoCall]
  /\ sent = {}
  /\ toRecord = Receipts
  /\ faults = 0

----------------------------------------------------------------------------
(* What the page offers: a button or form for a role r on a workspace w. *)

SubmitButton(r, w) == r = "client_owner" /\ w.state = "DRAFT"
GenerateScopeButton(r, w) ==
  r \in {"client_owner", "coordinator", "platform_admin"} /\ w.state = "SCOPING" /\ ~w.scope
\* Mutant: offered to the client as well.
SendScopeButtonAll(r, w) == w.state = "SCOPING" /\ w.scope
SendScopeButton(r, w) ==
  r \in {"coordinator", "platform_admin"} /\ w.state = "SCOPING" /\ w.scope
ApproveScopeButton(r, w) ==
  r = "coordinator" /\ w.state = "AWAITING_COORDINATOR_SCOPE_APPROVAL" /\ w.quote
QuoteForm(r, w) ==
  /\ r = "coordinator" /\ w.state = "AWAITING_COORDINATOR_SCOPE_APPROVAL"
  /\ ~w.quote /\ w.scope
AcceptQuoteButton(r, w) ==
  r = "client_owner" /\ w.state = "AWAITING_CLIENT_SCOPE_APPROVAL" /\ w.quote
FundingForm(r, w) ==
  r = "coordinator" /\ w.state = "AWAITING_DEPOSIT" /\ w.funded < w.required
ConfirmFundingButton(r, w) ==
  r = "coordinator" /\ w.state = "AWAITING_DEPOSIT" /\ w.funded >= w.required
StaffingButton(r, w) == r = "coordinator" /\ w.state = "STAFFING" /\ ~w.staffing
SendStaffingButton(r, w) == r = "coordinator" /\ w.state = "STAFFING" /\ w.staffing
ApproveStaffingButton(r, w) ==
  r = "coordinator" /\ w.state = "AWAITING_STAFFING_APPROVAL" /\ w.staffing
OfferForm(r, w) == r = "coordinator" /\ w.state = "AWAITING_STUDENT_ACCEPTANCE"
ConfirmTeamButton(r, w) ==
  /\ r = "coordinator" /\ w.state = "AWAITING_STUDENT_ACCEPTANCE"
  /\ w.offers # <<>>
  /\ \A n \in 1..Len(w.offers) : w.offers[n] # "OFFERED"
PlanButton(r, w) ==
  r \in {"coordinator", "technical_lead"} /\ w.state = "READY_TO_START" /\ w.plan = NoPlan
ApprovePlanButton(r, w) ==
  r = "coordinator" /\ w.state = "READY_TO_START" /\ w.plan = "PROPOSED"
ActivateButton(r, w) ==
  /\ r \in {"coordinator", "technical_lead"}
  /\ w.state = "READY_TO_START" /\ w.plan = "APPROVED"

\* The moves on offer: the target of each lifecycle button that is shown.
Moves(r, w) ==
  {m \in {<<"SCOPING", SubmitButton(r, w)>>,
          <<"AWAITING_COORDINATOR_SCOPE_APPROVAL", SendScopeButton(r, w)>>,
          <<"AWAITING_CLIENT_SCOPE_APPROVAL", ApproveScopeButton(r, w)>>,
          <<"AWAITING_DEPOSIT", AcceptQuoteButton(r, w)>>,
          <<"STAFFING", ConfirmFundingButton(r, w)>>,
          <<"AWAITING_STAFFING_APPROVAL", SendStaffingButton(r, w)>>,
          <<"AWAITING_STUDENT_ACCEPTANCE", ApproveStaffingButton(r, w)>>,
          <<"READY_TO_START", ConfirmTeamButton(r, w)>>,
          <<"ACTIVE", ActivateButton(r, w)>>} : m[2]}
Targets == {"SCOPING", "AWAITING_COORDINATOR_SCOPE_APPROVAL", "AWAITING_CLIENT_SCOPE_APPROVAL",
            "AWAITING_DEPOSIT", "STAFFING", "AWAITING_STAFFING_APPROVAL",
            "AWAITING_STUDENT_ACCEPTANCE", "READY_TO_START", "ACTIVE"}

----------------------------------------------------------------------------
(* Presses: the page locks (isSubmitting), clears its notice and posts. *)

Locked(t) == call[t].phase \in {"posted", "answered"}
Presses == Cardinality(sent)

Post(t, op, with) ==
  /\ ~Locked(t)
  /\ call' = [call EXCEPT ![t] = [op |-> op, with |-> with, phase |-> "posted"]]
  /\ UNCHANGED <<server, shown, late, toRecord, faults>>

\* transitionProject: a fresh Idempotency-Key, the version of the project on show.
\* Mutant: the version is read anew for the request, the button was not.
PressMoveUnversioned(t, target) ==
  LET key == Presses + 1
      m == [project |-> "project", user |-> t, target |-> target, expected |-> project.version,
            key |-> key, saw |-> shown[t].state] IN
  /\ key <= MaxPresses
  /\ sent' = sent \cup {m}
  /\ Post(t, "move", m)
PressMove(t, target) ==
  LET key == Presses + 1
      m == [project |-> "project", user |-> t, target |-> target,
            expected |-> shown[t].version, key |-> key, saw |-> shown[t].state] IN
  /\ key <= MaxPresses
  /\ sent' = sent \cup {m}
  /\ Post(t, "move", m)

GenerateScope(t) == Post(t, "scope", Nothing) /\ UNCHANGED sent
CreateQuote(t) == Post(t, "quote", Nothing) /\ UNCHANGED sent
\* A new Idempotency-Key for every submission of the form.
RecordExternalFunding(t, receipt) ==
  Post(t, "fund", receipt) /\ UNCHANGED sent
RunStaffingMatch(t) == Post(t, "staffing", Nothing) /\ UNCHANGED sent
CreateAssignmentOffer(t) == Post(t, "offer", Nothing) /\ UNCHANGED sent
RunPlanProposal(t) == Post(t, "plan", Nothing) /\ UNCHANGED sent
ApprovePlan(t) == Post(t, "approve", Nothing) /\ UNCHANGED sent

Press(t) ==
  LET r == TabRole[t]  w == shown[t] IN
  \/ \E m \in Moves(r, w) : PressMove(t, m[1])
  \/ GenerateScopeButton(r, w) /\ GenerateScope(t)
  \/ QuoteForm(r, w) /\ CreateQuote(t)
  \/ FundingForm(r, w) /\ \E receipt \in toRecord : RecordExternalFunding(t, receipt)
  \/ StaffingButton(r, w) /\ RunStaffingMatch(t)
  \/ OfferForm(r, w) /\ CreateAssignmentOffer(t)
  \/ PlanButton(r, w) /\ RunPlanProposal(t)
  \/ ApprovePlanButton(r, w) /\ ApprovePlan(t)

----------------------------------------------------------------------------
(* The server: it commits, and the answer arrives or not; or it refuses. *)

Fault == faults < MaxFaults /\ faults' = faults + 1
Posted(t, op) == call[t].phase = "posted" /\ call[t].op = op
Answered(t, phase) == call' = [call EXCEPT ![t].phase = phase]
Committed(t) ==
  \/ Answered(t, "answered") /\ UNCHANGED faults
  \/ Answered(t, "failed") /\ Fault

\* transition_project: what each target requires, as this page sees it.
Evidence(target) ==
  /\ target \in {"AWAITING_COORDINATOR_SCOPE_APPROVAL"} => project.scope
  /\ target \in {"AWAITING_CLIENT_SCOPE_APPROVAL", "AWAITING_DEPOSIT"} => project.quote
  /\ target = "AWAITING_STAFFING_APPROVAL" => project.staffing
  /\ target = "READY_TO_START" =>
       /\ \E n \in 1..Len(project.offers) : project.offers[n] = "ACCEPTED"
       /\ \A n \in 1..Len(project.offers) : project.offers[n] # "OFFERED"
  /\ target = "ACTIVE" => project.plan = "APPROVED"

CommitMove(t) ==
  LET m == call[t].with IN
  /\ Posted(t, "move")
  /\ project.version = m.expected
  /\ Allowed(TabRole[t], project.state, m.target)
  /\ FundingConfirmed(m.target, project.funded, project.required)
  /\ Evidence(m.target)
  /\ project' = [project EXCEPT !.state = m.target, !.version = @ + 1]
  /\ transitions' = transitions \cup
       {[project |-> m.project, actor |-> t, from |-> project.state, to |-> m.target,
         expected |-> m.expected, key |-> m.key]}
  /\ Committed(t)
  /\ UNCHANGED <<payments, shown, late, sent, toRecord>>

\* The other handlers: accepted in one state, they add one piece of evidence.
CommitEvidence(t, op, state, w) ==
  /\ Posted(t, op)
  /\ project.state = state
  /\ project' = w
  /\ Committed(t)
  /\ UNCHANGED <<transitions, shown, late, sent, toRecord>>

CommitScope(t) ==
  CommitEvidence(t, "scope", "SCOPING", [project EXCEPT !.scope = TRUE]) /\ UNCHANGED payments
CommitQuote(t) ==
  /\ CommitEvidence(t, "quote", "AWAITING_COORDINATOR_SCOPE_APPROVAL",
                    [project EXCEPT !.quote = TRUE, !.required = Deposit])
  /\ UNCHANGED payments
CommitFunding(t) ==
  /\ CommitEvidence(t, "fund", "AWAITING_DEPOSIT", [project EXCEPT !.funded = @ + 1])
  /\ payments' = Append(payments, call[t].with)
CommitStaffing(t) ==
  CommitEvidence(t, "staffing", "STAFFING", [project EXCEPT !.staffing = TRUE])
    /\ UNCHANGED payments
CommitOffer(t) ==
  /\ Len(project.offers) < MaxOffers
  /\ CommitEvidence(t, "offer", "AWAITING_STUDENT_ACCEPTANCE",
                    [project EXCEPT !.offers = Append(@, "OFFERED")])
  /\ UNCHANGED payments
CommitPlan(t) ==
  /\ CommitEvidence(t, "plan", "READY_TO_START",
                    [project EXCEPT !.plan = IF @ = NoPlan THEN "PROPOSED" ELSE @])
  /\ UNCHANGED payments
CommitApproval(t) ==
  /\ project.plan = "PROPOSED"
  /\ CommitEvidence(t, "approve", "READY_TO_START", [project EXCEPT !.plan = "APPROVED"])
  /\ UNCHANGED payments

\* A refusal, a request lost on its way, a gateway timeout before the commit.
\* Mutant: the page does not look at the error of the answer.
RefuseUnnoticed(t) ==
  /\ call[t].phase = "posted"
  /\ Answered(t, "answered")
  /\ Fault
  /\ UNCHANGED <<server, shown, late, sent, toRecord>>
Refuse(t) ==
  /\ call[t].phase = "posted"
  /\ Answered(t, "failed")
  /\ Fault
  /\ UNCHANGED <<server, shown, late, sent, toRecord>>

\* A recipient answers an offer on a page of their own.
AnswerOffer(n, answer) ==
  /\ project.offers[n] = "OFFERED"
  /\ project' = [project EXCEPT !.offers[n] = answer]
  /\ UNCHANGED <<transitions, payments, shown, late, call, sent, toRecord, faults>>

----------------------------------------------------------------------------
(* Back in the page. *)

\* After a 2xx: refreshWorkspace, then the notice; a recorded receipt is ticked off.
Refresh(t) ==
  /\ call[t].phase = "answered"
  /\ shown' = [shown EXCEPT ![t] = ViewFor(TabRole[t])]
  /\ Answered(t, "done")
  /\ toRecord' = IF call[t].op = "fund" THEN toRecord \ {call[t].with} ELSE toRecord
  /\ UNCHANGED <<server, late, sent, faults>>

\* The refresh fails: the page shows an error although the action was committed.
RefreshFails(t) ==
  /\ call[t].phase = "answered"
  /\ Answered(t, "failed")
  /\ Fault
  /\ UNCHANGED <<server, shown, late, sent, toRecord>>

\* The page is opened anew.
Reopen(t) ==
  /\ ~Locked(t) /\ late[t] = NoAnswer
  /\ shown' = [shown EXCEPT ![t] = ViewFor(TabRole[t])]
  /\ call' = [call EXCEPT ![t] = NoCall]
  /\ UNCHANGED <<server, late, sent, toRecord, faults>>

\* The query cache refetches when the page is mounted or the browser comes back
\* online, whatever the page is doing; its answer replaces what is shown.
Refetch(t) ==
  /\ late[t] = NoAnswer
  /\ late' = [late EXCEPT ![t] = ViewFor(TabRole[t])]
  /\ Fault
  /\ UNCHANGED <<server, shown, call, sent, toRecord>>
RefetchArrives(t) ==
  /\ late[t] # NoAnswer
  /\ shown' = [shown EXCEPT ![t] = late[t]]
  /\ late' = [late EXCEPT ![t] = NoAnswer]
  /\ UNCHANGED <<server, call, sent, toRecord, faults>>

Serve(t) ==
  \/ CommitMove(t)
  \/ CommitScope(t)
  \/ CommitQuote(t)
  \/ CommitFunding(t)
  \/ CommitStaffing(t)
  \/ CommitOffer(t)
  \/ CommitPlan(t)
  \/ CommitApproval(t)
  \/ Refuse(t)

ConsoleNext ==
  \/ \E t \in Tabs :
       \/ Press(t)
       \/ Serve(t)
       \/ Refresh(t)
       \/ RefreshFails(t)
       \/ Reopen(t)
       \/ Refetch(t)
       \/ RefetchArrives(t)
  \/ \E n \in 1..Len(project.offers), answer \in {"ACCEPTED", "DECLINED"} :
       AnswerOffer(n, answer)

ConsoleSpec == ConsoleInit /\ [][ConsoleNext]_consoleVars

----------------------------------------------------------------------------
(* Properties. *)

\* The pages speak the transition protocol: whatever is pressed, refused, lost or
\* overtaken by a late refetch, the project, the requests and what the tabs show
\* are a behaviour of ProjectTransition.
Protocol ==
  INSTANCE ProjectTransition WITH
    Projects <- {"project"}, Users <- Tabs, RoleOf <- TabRole,
    Access <- Tabs \X {"project"}, Keys <- 1..MaxPresses,
    MaxVersion <- MaxPresses + 1, MaxRequests <- MaxPresses,
    state <- [p \in {"project"} |-> project.state],
    version <- [p \in {"project"} |-> project.version],
    view <- [t \in Tabs |->
               [p \in {"project"} |-> [state |-> shown[t].state, version |-> shown[t].version]]],
    acked <- {m \in sent : \E row \in transitions : row.key = m.key}
ImplementsProtocol == Protocol!Spec

\* What the page offers, the server's table allows: on an up-to-date page no
\* lifecycle button is refused for the role, the state or the money (the buttons
\* repeat in TypeScript what RULES and the funding check say in Python).
OffersLegalMoves ==
  \A t \in Tabs :
    shown[t] = ViewFor(TabRole[t]) =>
      \A m \in Moves(TabRole[t], shown[t]) :
        /\ Allowed(TabRole[t], project.state, m[1])
        /\ FundingConfirmed(m[1], project.funded, project.required)

\* A page that says an action was done is right, whatever was refused, lost or pressed
\* in another tab meanwhile: the move it asked for is on record under its own key, every
\* receipt that was ticked off is in the ledger, and the total shown is the ledger's.
NoticeIsEarned ==
  /\ \A t \in Tabs :
       call[t].phase = "done" /\ call[t].op = "move" =>
         \E row \in transitions : row.key = call[t].with.key
  /\ Receipts \ toRecord \subseteq {payments[n] : n \in 1..Len(payments)}
  /\ project.funded = Len(payments)
=============================================================================
