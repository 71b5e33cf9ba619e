----------------------------- MODULE TalentDesk -----------------------------
(***************************************************************************)
(* The talent marketplace: the employer's hiring page                      *)
(* (employer-talent-workspace.tsx), the student's career page              *)
(* (student-career-workspace.tsx) and the handlers they call               *)
(* (app/talent/service.py, app/learning/service.py), for one project and   *)
(* one learning path.  The pages load once and then keep what they show up *)
(* to date by hand; colleagues and other students act meanwhile.  Deciding *)
(* a proposal takes row locks in an order that two decisions can deadlock  *)
(* on, which the database ends by rolling one of them back.                *)
(***************************************************************************)
EXTENDS Naturals, FiniteSets

CONSTANTS
  Students,       \* who may propose
  Me,             \* the student whose page this is
  MaxProposals,   \* max_proposals of the opportunity
  Modules,        \* modules 1..Modules of the learning path
  DemoFallback    \* whether the pages may fall back on sample data

\* The rows of the proposals and of the opportunity are different rows.
ASSUME TalentAssumption == Me \in Students /\ "opportunity" \notin Students /\ Modules \in Nat

VARIABLES
  tdPage,         \* "employer", "student" or "learn"
  tdOpportunity,  \* project_opportunities: NONE, OPEN, SELECTED
  tdProposals,    \* student_proposals: student -> state
  tdDecisions,    \* decide_proposal transactions that are open
  tdShown,        \* what the page shows of them
  tdDemo,         \* isDemoPreview
  tdCall,         \* the request of the page, isSubmitting while there is one
  tdLearnt,       \* modules completed on the server; enrolled once # "no"
  tdCourse,       \* what the page shows of the path
  tdModule        \* the module whose evidence form is open

tdServer == <<tdOpportunity, tdProposals, tdDecisions>>
tdLearning == <<tdLearnt, tdCourse, tdModule>>
tdVars == <<tdPage, tdOpportunity, tdProposals, tdDecisions, tdShown, tdDemo, tdCall,
            tdLearnt, tdCourse, tdModule>>

NoRequest == [kind |-> "none", student |-> Me, decision |-> "NONE", module |-> 0, stage |-> "sent"]
Loading == [opportunity |-> "LOADING", proposals |-> [s \in Students |-> "NONE"]]
NotEnrolled == [enrolled |-> FALSE, done |-> 0]

TdInit ==
  /\ tdPage \in {"employer", "student", "learn"}
  /\ tdOpportunity = "NONE"
  /\ tdProposals = [s \in Students |-> "NONE"]
  /\ tdDecisions = {}
  /\ tdShown = Loading /\ tdDemo = FALSE /\ tdCall = NoRequest
  /\ tdLearnt = NotEnrolled /\ tdCourse = NotEnrolled /\ tdModule = 0

Busy == tdCall # NoRequest
Loaded == tdShown.opportunity # "LOADING"

----------------------------------------------------------------------------
(* The server: publishing, proposing, deciding. *)

Published ==
  /\ tdOpportunity = "NONE"
  /\ tdOpportunity' = "OPEN"
  /\ UNCHANGED <<tdProposals, tdDecisions>>

RowLocked(row) == \E d \in tdDecisions : row \in d.holds
\* submit_proposal, under the lock of the opportunity.
Propose(s) ==
  /\ ~RowLocked("opportunity")
  /\ tdOpportunity = "OPEN"
  /\ tdProposals[s] = "NONE"
  /\ Cardinality({t \in Students : tdProposals[t] # "NONE"}) < MaxProposals
  /\ tdProposals' = [tdProposals EXCEPT ![s] = "SUBMITTED"]
  /\ UNCHANGED <<tdOpportunity, tdDecisions>>

\* decide_proposal: the proposal is locked, then the opportunity, then everything
\* is checked; the other proposals are locked when their rows are written.
LockProposal(by, s, decision) ==
  /\ ~\E d \in tdDecisions : d.by = by
  /\ ~RowLocked(s)
  /\ tdDecisions' = tdDecisions \cup {[by |-> by, student |-> s, decision |-> decision, holds |-> {s}]}
  /\ UNCHANGED <<tdOpportunity, tdProposals>>
LockOpportunity(d) ==
  /\ "opportunity" \notin d.holds /\ ~RowLocked("opportunity")
  /\ tdDecisions' = (tdDecisions \ {d}) \cup
                    (IF tdProposals[d.student] = "SUBMITTED" /\ tdOpportunity = "OPEN"
                     THEN {[d EXCEPT !.holds = @ \cup {"opportunity"}]} ELSE {})
  /\ UNCHANGED <<tdOpportunity, tdProposals>>
Competing(d) == {s \in Students \ {d.student} : tdProposals[s] = "SUBMITTED"}
WaitsForProposal(d) ==
  /\ "opportunity" \in d.holds /\ d.decision = "ACCEPTED"
  /\ \E s \in Competing(d) : RowLocked(s)
Written(d) ==
  [s \in Students |->
     IF s = d.student THEN d.decision
     ELSE IF d.decision = "ACCEPTED" /\ s \in Competing(d) THEN "REJECTED" ELSE tdProposals[s]]
\* Mutant: the proposals that were not selected stay as they are.
CommitDecisionAlone(d) ==
  /\ "opportunity" \in d.holds
  /\ tdProposals' = [tdProposals EXCEPT ![d.student] = d.decision]
  /\ tdOpportunity' = IF d.decision = "ACCEPTED" THEN "SELECTED" ELSE tdOpportunity
  /\ tdDecisions' = tdDecisions \ {d}
CommitDecision(d) ==
  /\ "opportunity" \in d.holds /\ ~WaitsForProposal(d)
  /\ tdProposals' = Written(d)
  /\ tdOpportunity' = IF d.decision = "ACCEPTED" THEN "SELECTED" ELSE tdOpportunity
  /\ tdDecisions' = tdDecisions \ {d}
\* External: the database may find the cycle and roll one side back.
BreakDeadlock(d) ==
  /\ \E waiting \in tdDecisions : WaitsForProposal(waiting) /\ d.student \in Competing(waiting)
  /\ "opportunity" \notin d.holds
  /\ \E victim \in tdDecisions : tdDecisions' = tdDecisions \ {victim}
  /\ UNCHANGED <<tdOpportunity, tdProposals>>

----------------------------------------------------------------------------
(* Both pages load once; if the API is out of reach they may show the sample. *)

Sampled == [opportunity |-> "OPEN", proposals |-> [s \in Students |-> IF s = Me THEN "NONE" ELSE "SUBMITTED"]]
LoadDesk ==
  /\ ~Loaded
  /\ \/ /\ tdShown' = [opportunity |-> tdOpportunity, proposals |-> tdProposals]
        /\ tdCourse' = tdLearnt
        /\ UNCHANGED tdDemo
     \/ /\ DemoFallback
        /\ tdShown' = Sampled /\ tdDemo' = TRUE /\ tdCourse' = NotEnrolled
  /\ UNCHANGED <<tdPage, tdServer, tdCall, tdLearnt, tdModule>>

\* A request of the page; the sample's ids are unknown to the API.
PageAsks(call) ==
  /\ Loaded /\ ~Busy
  /\ tdCall' = call
  /\ UNCHANGED <<tdPage, tdServer, tdShown, tdDemo, tdLearning>>
\* Refused, or the answer is lost and a decision goes on without the page.
PageFails ==
  /\ Busy /\ ~tdDemo
  /\ tdCall' = NoRequest
  /\ tdDecisions' = {IF d.by = "page" THEN [d EXCEPT !.by = "nobody"] ELSE d : d \in tdDecisions}
  /\ UNCHANGED <<tdPage, tdOpportunity, tdProposals, tdShown, tdDemo, tdLearning>>

----------------------------------------------------------------------------
(* employer-talent-workspace.tsx *)

PressPublish ==
  /\ tdShown.opportunity = "NONE"
  /\ PageAsks([NoRequest EXCEPT !.kind = "publish"])
\* Both need a reason of twenty characters, and a proposal that is shown undecided.
PressDecide(s, decision) ==
  /\ tdShown.proposals[s] = "SUBMITTED"
  /\ PageAsks([NoRequest EXCEPT !.kind = "decide", !.student = s, !.decision = decision])

ServePublish ==
  /\ tdCall.kind = "publish" /\ ~tdDemo /\ tdCall.stage = "sent"
  /\ Published
  /\ tdCall' = [tdCall EXCEPT !.stage = "ok"]
  /\ UNCHANGED <<tdPage, tdShown, tdDemo, tdLearning>>
ServeDecide ==
  /\ tdCall.kind = "decide" /\ ~tdDemo /\ tdCall.stage = "sent"
  /\ LockProposal("page", tdCall.student, tdCall.decision)
  /\ tdCall' = [tdCall EXCEPT !.stage = "served"]
  /\ UNCHANGED <<tdPage, tdShown, tdDemo, tdLearning>>
\* What the answer of a decision changes on the page, the other proposals included.
Decided(shown, call) ==
  [opportunity |-> IF call.decision = "ACCEPTED" THEN "SELECTED" ELSE shown.opportunity,
   proposals |->
     [s \in Students |->
        IF s = call.student THEN call.decision
        ELSE IF call.decision = "ACCEPTED" /\ shown.proposals[s] = "SUBMITTED" THEN "REJECTED"
        ELSE shown.proposals[s]]]
DeskAnswered ==
  /\ tdCall.stage = "ok" /\ tdCall.kind \in {"publish", "decide"}
  /\ tdShown' = IF tdCall.kind = "publish" THEN [tdShown EXCEPT !.opportunity = "OPEN"]
                ELSE Decided(tdShown, tdCall)
  /\ tdCall' = NoRequest
  /\ UNCHANGED <<tdPage, tdServer, tdDemo, tdLearning>>
\* The preview leaves the other proposals undecided.
DeskPreview ==
  /\ Busy /\ tdDemo /\ tdCall.kind \in {"publish", "decide"}
  /\ tdShown' =
       IF tdCall.kind = "publish" THEN [tdShown EXCEPT !.opportunity = "OPEN"]
       ELSE [opportunity |-> IF tdCall.decision = "ACCEPTED" THEN "SELECTED" ELSE tdShown.opportunity,
             proposals |-> [tdShown.proposals EXCEPT ![tdCall.student] = tdCall.decision]]
  /\ tdCall' = NoRequest
  /\ UNCHANGED <<tdPage, tdServer, tdDemo, tdLearning>>

----------------------------------------------------------------------------
(* student-career-workspace.tsx: proposing and learning. *)

PressPropose ==
  /\ tdShown.opportunity = "OPEN" /\ tdShown.proposals[Me] = "NONE"
  /\ PageAsks([NoRequest EXCEPT !.kind = "propose"])
ServePropose ==
  /\ tdCall.kind = "propose" /\ ~tdDemo /\ tdCall.stage = "sent"
  /\ Propose(Me)
  /\ tdCall' = [tdCall EXCEPT !.stage = "ok"]
  /\ UNCHANGED <<tdPage, tdShown, tdDemo, tdLearning>>
Proposed ==
  /\ tdCall.kind = "propose" /\ (tdCall.stage = "ok" \/ tdDemo)
  /\ tdShown' = [tdShown EXCEPT !.proposals[Me] = "SUBMITTED"]
  /\ tdCall' = NoRequest
  /\ UNCHANGED <<tdPage, tdServer, tdDemo, tdLearning>>

PressEnroll == ~tdCourse.enrolled /\ PageAsks([NoRequest EXCEPT !.kind = "enroll"])
OpenModule(n) ==
  /\ Loaded /\ tdCourse.enrolled /\ n = tdCourse.done + 1 /\ tdModule # n
  /\ tdModule' = n
  /\ UNCHANGED <<tdPage, tdServer, tdShown, tdDemo, tdCall, tdLearnt, tdCourse>>
PressComplete ==
  /\ tdModule # 0
  /\ PageAsks([NoRequest EXCEPT !.kind = "complete", !.module = tdModule])
\* enroll_in_path and complete_module: modules are completed in their order, once.
ServeLearning ==
  /\ ~tdDemo /\ tdCall.stage = "sent"
  /\ \/ tdCall.kind = "enroll" /\ tdLearnt' = [tdLearnt EXCEPT !.enrolled = TRUE]
     \/ /\ tdCall.kind = "complete" /\ tdLearnt.enrolled
        /\ tdCall.module <= tdLearnt.done + 1
        /\ tdLearnt' = [tdLearnt EXCEPT !.done = IF @ < tdCall.module THEN tdCall.module ELSE @]
  /\ tdCall' = [tdCall EXCEPT !.stage = "ok"]
  /\ UNCHANGED <<tdPage, tdServer, tdShown, tdDemo, tdCourse, tdModule>>
\* The answer is the whole path; in the preview it is put together on the page.
Learnt ==
  /\ tdCall.kind \in {"enroll", "complete"} /\ (tdCall.stage = "ok" \/ tdDemo)
  /\ tdCourse' = IF ~tdDemo THEN tdLearnt
                 ELSE IF tdCall.kind = "enroll" THEN [tdCourse EXCEPT !.enrolled = TRUE]
                 ELSE [tdCourse EXCEPT !.done = tdCall.module]
  /\ tdModule' = IF tdCall.kind = "complete" THEN 0 ELSE tdModule
  /\ tdCall' = NoRequest
  /\ UNCHANGED <<tdPage, tdServer, tdShown, tdDemo, tdLearnt>>

----------------------------------------------------------------------------
\* Others: colleagues of the employer and students, on pages of their own.
Others ==
  /\ \/ Published
     \/ \E s \in Students : Propose(s)
     \/ \E s \in Students, decision \in {"ACCEPTED", "REJECTED"} :
          tdProposals[s] = "SUBMITTED" /\ LockProposal("colleague", s, decision)
  /\ UNCHANGED <<tdPage, tdShown, tdDemo, tdCall, tdLearning>>

DecisionStep(d) ==
  /\ \/ LockOpportunity(d) /\ UNCHANGED tdCall
     \/ /\ CommitDecision(d)
        /\ tdCall' = IF d.by = "page" THEN [tdCall EXCEPT !.stage = "ok"] ELSE tdCall
     \/ BreakDeadlock(d) /\ UNCHANGED tdCall
  /\ UNCHANGED <<tdPage, tdShown, tdDemo, tdLearning>>
DecisionSteps == \E d \in tdDecisions : DecisionStep(d)

TdNext ==
  \/ LoadDesk
  \/ PageFails
  \/ DecisionSteps
  \/ tdPage \in {"employer", "student"} /\ Others
  \/ /\ tdPage = "employer"
     /\ \/ PressPublish
        \/ \E s \in Students, decision \in {"ACCEPTED", "REJECTED"} : PressDecide(s, decision)
        \/ ServePublish
        \/ ServeDecide
        \/ DeskAnswered
        \/ DeskPreview
  \/ /\ tdPage = "student"
     /\ PressPropose \/ ServePropose \/ Proposed
  \/ /\ tdPage = "learn"
     /\ \/ PressEnroll
        \/ \E n \in 1..Modules : OpenModule(n)
        \/ PressComplete
        \/ ServeLearning
        \/ Learnt

TdSpec == TdInit /\ [][TdNext]_tdVars

----------------------------------------------------------------------------
(* Properties. *)

\* One proposal is selected and the others of the opportunity are settled with it,
\* whoever decides at the same time; and outside the preview a page shows a decision,
\* the ones it works out by itself included, only as the server has taken it.
DecisionsAgree ==
  /\ tdOpportunity = "SELECTED" =>
       /\ Cardinality({s \in Students : tdProposals[s] = "ACCEPTED"}) = 1
       /\ \A s \in Students : tdProposals[s] # "SUBMITTED"
  /\ ~tdDemo => \A s \in Students :
       tdShown.proposals[s] \in {"ACCEPTED", "REJECTED"} => tdProposals[s] = tdShown.proposals[s]
=============================================================================
