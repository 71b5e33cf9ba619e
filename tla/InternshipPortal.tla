-------------------------- MODULE InternshipPortal --------------------------
(***************************************************************************)
(* The student's internship pages (internship-student-portal.tsx) and the  *)
(* handlers they call: applying to a cohort, with a coordinator deciding   *)
(* and the same application open elsewhere, and recording evidence for the *)
(* units of the curriculum while weeks unlock.  Every route mounts a       *)
(* portal of its own, so the view of a behaviour is fixed.                 *)
(*                                                                         *)
(* The fields of the application are one text, complete or blank.          *)
(***************************************************************************)
EXTENDS Naturals

CONSTANTS
  Essays,        \* complete contents of the application, and of evidence
  Weeks,         \* weeks 1..Weeks, one unit each
  MaxIpVersion   \* bound on the versions of the application

VARIABLES
  ipView,        \* "application" or "learn"
  ipRow,         \* the row of internship_applications
  ipLoaded,      \* the application the page has; its id and version are the form's key
  ipForm,        \* what is typed
  ipCalls,       \* requests under way
  ipRead,        \* history: the contents in front of whoever made the last decision
  ipReview,      \* the application a coordinator has open
  ipWeek,        \* weeks that have started
  ipDone,        \* internship_unit_completions: unit -> evidence
  ipCurriculum,  \* the curriculum the page has: weeks unlocked and units complete
  ipOpen,        \* the unit whose evidence form is open, 0 for none
  ipEvidence     \* its text, one for all units

ipApplication == <<ipRow, ipLoaded, ipForm, ipRead, ipReview>>
ipLearning == <<ipWeek, ipDone, ipCurriculum, ipOpen, ipEvidence>>
ipVars == <<ipView, ipRow, ipLoaded, ipForm, ipCalls, ipRead, ipReview,
            ipWeek, ipDone, ipCurriculum, ipOpen, ipEvidence>>

Unwritten == "unwritten"
NotLoaded == [status |-> "LOADING", version |-> 0, text |-> Unwritten]
NoRow == [status |-> "NONE", version |-> 0, text |-> Unwritten]
Units == 1..Weeks

IpInit ==
  /\ ipView \in {"application", "learn"}
  /\ ipRow = NoRow /\ ipLoaded = NotLoaded /\ ipForm = Unwritten
  /\ ipCalls = {} /\ ipRead = Unwritten /\ ipReview = NoRow
  /\ ipWeek = 1
  /\ ipDone = [u \in Units |-> Unwritten]
  /\ ipCurriculum = [unlocked |-> 0, done |-> {}]
  /\ ipOpen = 0 /\ ipEvidence = Unwritten

EditableStatus == {"DRAFT", "ELIGIBILITY_REVIEW"}
Calling(kind) == \E c \in ipCalls : c.kind = kind
Call(kind) ==
  [kind |-> kind, version |-> ipLoaded.version, unit |-> ipOpen, served |-> FALSE,
   text |-> IF kind = "save" THEN ipForm ELSE IF kind = "unit" THEN ipEvidence ELSE ipLoaded.text]
Send(kind) == ipCalls' = ipCalls \cup {Call(kind)}
Served(c) == ipCalls' = (ipCalls \ {c}) \cup {[c EXCEPT !.served = TRUE]}

----------------------------------------------------------------------------
(* The application. *)

\* The list and the application are fetched.  The form is keyed by id and version:
\* a version the page does not have yet replaces what is typed.
Refreshed ==
  /\ ipLoaded' = ipRow
  /\ ipForm' = IF ipLoaded.version # ipRow.version THEN ipRow.text ELSE ipForm
RefreshApplication ==
  /\ ipLoaded # ipRow
  /\ Refreshed
  /\ UNCHANGED <<ipView, ipRow, ipCalls, ipRead, ipReview, ipLearning>>

\* NewApplicationView, offered when the list has arrived and is empty.
PressCreate ==
  /\ ipLoaded.status = "NONE" /\ ~Calling("create")
  /\ Send("create")
  /\ UNCHANGED <<ipView, ipApplication, ipLearning>>
\* start_application: one application per applicant and cohort.
ServeCreate(c) ==
  /\ c.kind = "create" /\ ~c.served
  /\ ipRow = NoRow
  /\ \E status \in EditableStatus : ipRow' = [NoRow EXCEPT !.status = status, !.version = 1]
  /\ Served(c)
  /\ UNCHANGED <<ipView, ipLoaded, ipForm, ipRead, ipReview, ipLearning>>

\* ApplicationView: fields that can be edited, save, submit.
MayEdit == ipLoaded.status \in EditableStatus
EditEssay(text) ==
  /\ MayEdit /\ ipForm # text
  /\ ipForm' = text
  /\ UNCHANGED <<ipView, ipRow, ipLoaded, ipCalls, ipRead, ipReview, ipLearning>>
\* The browser asks for the required fields before it lets the form be saved.
PressSaveDraft ==
  /\ MayEdit /\ ~Calling("save") /\ ipForm # Unwritten
  /\ Send("save")
  /\ UNCHANGED <<ipView, ipApplication, ipLearning>>
\* What is typed and not saved is not submitted; the button does not ask for it.
PressSubmit ==
  /\ MayEdit /\ ~Calling("save") /\ ~Calling("submit")
  /\ Send("submit")
  /\ UNCHANGED <<ipView, ipApplication, ipLearning>>

\* update_application and submit_application.
Current(c) == ipRow.version = c.version /\ ipRow.status \in EditableStatus
ServeSaveDraft(c) ==
  /\ c.kind = "save" /\ ~c.served
  /\ Current(c) /\ ipRow.version < MaxIpVersion
  /\ ipRow' = [ipRow EXCEPT !.version = @ + 1, !.text = c.text]
  /\ Served(c)
  /\ UNCHANGED <<ipView, ipLoaded, ipForm, ipRead, ipReview, ipLearning>>
\* Mutant: the draft as it is by now is submitted.
ServeSubmitLatest(c) ==
  /\ c.kind = "submit" /\ ~c.served
  /\ ipRow.status \in EditableStatus /\ ipRow.text # Unwritten
  /\ ipRow' = [ipRow EXCEPT !.version = @ + 1, !.status = "SUBMITTED"]
  /\ ipRead' = c.text
  /\ Served(c)
  /\ UNCHANGED <<ipView, ipLoaded, ipForm, ipReview, ipLearning>>
ServeSubmit(c) ==
  /\ c.kind = "submit" /\ ~c.served
  /\ Current(c) /\ ipRow.text # Unwritten
  /\ ipRow' = [ipRow EXCEPT !.version = @ + 1, !.status = "SUBMITTED"]
  /\ ipRead' = c.text
  /\ Served(c)
  /\ UNCHANGED <<ipView, ipLoaded, ipForm, ipReview, ipLearning>>
\* onSuccess waits for the queries it invalidates.
ApplicationAnswered(c) ==
  /\ c.served /\ c.kind # "unit"
  /\ ipCalls' = ipCalls \ {c}
  /\ Refreshed
  /\ UNCHANGED <<ipView, ipRow, ipRead, ipReview, ipLearning>>
\* Refused, or the answer is lost: the error is shown, nothing is fetched.
CallFails(c) ==
  /\ c.kind # "unit"
  /\ ipCalls' = ipCalls \ {c}
  /\ UNCHANGED <<ipView, ipApplication, ipLearning>>

\* The same application saved from another tab.
SaveInOtherTab(text) ==
  /\ ipRow.status \in EditableStatus
  /\ ipRow.version < MaxIpVersion
  /\ ipRow' = [ipRow EXCEPT !.version = @ + 1, !.text = text]
  /\ UNCHANGED <<ipView, ipLoaded, ipForm, ipCalls, ipRead, ipReview, ipLearning>>

\* decide_application, on the version the coordinator has read.
OpenReview ==
  /\ ipRow.status \in {"SUBMITTED", "ELIGIBILITY_REVIEW", "WAITLISTED"}
  /\ ipReview # ipRow
  /\ ipReview' = ipRow
  /\ UNCHANGED <<ipView, ipRow, ipLoaded, ipForm, ipCalls, ipRead, ipLearning>>
Decide(decision) ==
  /\ ipReview.version > 0
  /\ ipRow.version = ipReview.version
  /\ ipRow.status \in {"SUBMITTED", "ELIGIBILITY_REVIEW", "WAITLISTED"}
  /\ ipRow.version <= MaxIpVersion
  /\ ipRow' = [ipRow EXCEPT !.version = @ + 1, !.status = decision]
  /\ ipRead' = ipReview.text
  /\ UNCHANGED <<ipView, ipLoaded, ipForm, ipCalls, ipReview, ipLearning>>

----------------------------------------------------------------------------
(* The curriculum. *)

WeekStarts ==
  /\ ipWeek < Weeks
  /\ ipWeek' = ipWeek + 1
  /\ UNCHANGED <<ipView, ipApplication, ipCalls, ipDone, ipCurriculum, ipOpen, ipEvidence>>
CurriculumNow == [unlocked |-> ipWeek, done |-> {u \in Units : ipDone[u] # Unwritten}]
LoadCurriculum ==
  /\ ipCurriculum # CurriculumNow
  /\ ipCurriculum' = CurriculumNow
  /\ UNCHANGED <<ipView, ipApplication, ipCalls, ipWeek, ipDone, ipOpen, ipEvidence>>
\* "Record evidence".  The text of the form that was open goes with it.
OpenUnit(u) ==
  /\ u \notin ipCurriculum.done /\ u <= ipCurriculum.unlocked /\ ipOpen # u
  /\ ipOpen' = u
  /\ UNCHANGED <<ipView, ipApplication, ipCalls, ipWeek, ipDone, ipCurriculum, ipEvidence>>
WriteEvidence(text) ==
  /\ ipOpen # 0 /\ ipEvidence # text
  /\ ipEvidence' = text
  /\ UNCHANGED <<ipView, ipApplication, ipCalls, ipWeek, ipDone, ipCurriculum, ipOpen>>
SubmitEvidence ==
  /\ ipOpen # 0 /\ ipEvidence # Unwritten /\ ~Calling("unit")
  /\ Send("unit")
  /\ UNCHANGED <<ipView, ipApplication, ipLearning>>
\* complete_unit: the first evidence of a unit that has started is kept.
CompleteUnit(c) ==
  /\ c.kind = "unit" /\ ~c.served
  /\ c.unit <= ipWeek
  /\ ipDone' = IF ipDone[c.unit] = Unwritten THEN [ipDone EXCEPT ![c.unit] = c.text] ELSE ipDone
  /\ Served(c)
  /\ UNCHANGED <<ipView, ipApplication, ipWeek, ipCurriculum, ipOpen, ipEvidence>>
\* onSuccess closes whichever form is open by now.
UnitCompleted(c) ==
  /\ c.kind = "unit" /\ c.served
  /\ ipCalls' = ipCalls \ {c}
  /\ ipCurriculum' = CurriculumNow
  /\ ipOpen' = 0 /\ ipEvidence' = Unwritten
  /\ UNCHANGED <<ipView, ipApplication, ipWeek, ipDone>>
UnitFails(c) ==
  /\ c.kind = "unit"
  /\ ipCalls' = ipCalls \ {c}
  /\ UNCHANGED <<ipView, ipApplication, ipLearning>>

----------------------------------------------------------------------------
Applying ==
  \/ RefreshApplication
  \/ PressCreate
  \/ \E text \in Essays : EditEssay(text) \/ SaveInOtherTab(text)
  \/ PressSaveDraft
  \/ PressSubmit
  \/ OpenReview
  \/ \E decision \in {"ACCEPTED", "REJECTED", "WAITLISTED"} : Decide(decision)
  \/ \E c \in ipCalls : ServeCreate(c) \/ ServeSaveDraft(c) \/ ServeSubmit(c)
                        \/ ApplicationAnswered(c) \/ CallFails(c)
Learning ==
  \/ WeekStarts
  \/ LoadCurriculum
  \/ \E u \in Units : OpenUnit(u)
  \/ \E text \in Essays : WriteEvidence(text)
  \/ SubmitEvidence
  \/ \E c \in ipCalls : CompleteUnit(c) \/ UnitCompleted(c) \/ UnitFails(c)
IpNext ==
  \/ ipView = "application" /\ Applying
  \/ ipView = "learn" /\ Learning

IpSpec == IpInit /\ [][IpNext]_ipVars

----------------------------------------------------------------------------
(* Properties. *)

\* An application is submitted with the contents the applicant's page had for the
\* saved version, and decided on the contents the coordinator read, although saves
\* of this tab and another one race with both.
ActedOnAsRead ==
  ipRow.status \in {"SUBMITTED", "ACCEPTED", "REJECTED", "WAITLISTED"} => ipRow.text = ipRead
=============================================================================
