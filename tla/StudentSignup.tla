---------------------------- MODULE StudentSignup ----------------------------
(***************************************************************************)
(* One person's way into an internship: the public program pages, the      *)
(* signup page, the verification mail with its link back, and the API that *)
(* provisions the account.  Which cohort was chosen travels through the    *)
(* address of the page, the mail and the callback; the tabs share one      *)
(* browser and with it both sessions.                                      *)
(***************************************************************************)
EXTENDS Naturals, FiniteSets

CONSTANTS
  SuTabs,
  Cohorts,
  ProgramOf,    \* the program of each cohort
  Eligible,     \* the cohorts the address is eligible for
  MaxSuInputs   \* bound: what is pressed, and cohorts closed

ASSUME SignupAssumption ==
  /\ Eligible \subseteq Cohorts /\ "none" \notin Cohorts  \* what is no id is left out
  /\ MaxSuInputs \in Nat

VARIABLES
  suTabs,          \* each tab: its page, the ids in its address, its request, and whether
                   \* it shows an error
  suChosen,        \* cohorts whose Apply was pressed
  suMail,          \* Supabase's account of the address
  suLinks,         \* the unused links mailed, by the ids in them
  suSession,       \* the browser has a Supabase session
  suOpen,          \* cohorts whose application window is open
  suUsers,         \* user rows of the identity
  suApplications,  \* the applications provisioned
  suCookie,        \* the browser has a PraxisAI session
  suInputs

suAccounts == <<suMail, suLinks, suSession>>
suRows == <<suUsers, suApplications>>
suVars == <<suTabs, suChosen, suAccounts, suOpen, suRows, suCookie, suInputs>>

None == "none"
NoIds == [program |-> None, cohort |-> None]
Tab(at, ids) == [at |-> at, ids |-> ids, call |-> "idle", error |-> FALSE]

SuInit ==
  /\ suTabs = [t \in SuTabs |-> Tab("programs", NoIds)]
  /\ suChosen = {}
  /\ suMail = "none"
  /\ suLinks = {}
  /\ suSession = FALSE
  /\ suOpen = Cohorts
  /\ suUsers = 0
  /\ suApplications = {}
  /\ suCookie = FALSE
  /\ suInputs = 0

PressedOnce == suInputs < MaxSuInputs /\ suInputs' = suInputs + 1
Goes(t, tab) == suTabs' = [suTabs EXCEPT ![t] = tab]
On(t, at) == suTabs[t].at = at
\* Both buttons of the page are disabled while it is busy.
Ready(t) == On(t, "signup") /\ suTabs[t].call = "idle"
Ends(t, error) == suTabs' = [suTabs EXCEPT ![t].call = "idle", ![t].error = error]

----------------------------------------------------------------------------
(* The program pages: every cohort has its link, open or not. *)

\* (A request that is left behind ends as one whose answer is lost.)
BrowsePrograms(t) ==
  /\ PressedOnce
  /\ suTabs[t].at # "programs" /\ suTabs[t].call = "idle"
  /\ Goes(t, Tab("programs", NoIds))
  /\ UNCHANGED <<suChosen, suAccounts, suOpen, suRows, suCookie>>

Apply(t, c) ==
  /\ PressedOnce
  /\ On(t, "programs")
  /\ Goes(t, Tab("signup", [program |-> ProgramOf[c], cohort |-> c]))
  /\ suChosen' = suChosen \cup {c}
  /\ UNCHANGED <<suAccounts, suOpen, suRows, suCookie>>

----------------------------------------------------------------------------
(* The signup page and the mail. *)

\* studentSignupPath.  The ids are kept by name; what is no id is left out.
SignupPath(ids) == [program |-> ids.program, cohort |-> ids.cohort]
\* safeAuthCallbackDestination of what studentSignupEmailRedirect wrote.
CallbackDestination(ids) == SignupPath(SignupPath(ids))

SendMail(t) ==
  /\ PressedOnce
  /\ Ready(t)
  /\ suTabs' = [suTabs EXCEPT ![t].call = "signing up", ![t].error = FALSE]
  /\ UNCHANGED <<suChosen, suAccounts, suOpen, suRows, suCookie>>

\* The provider mails a link unless the address is confirmed already, and answers alike.
MailSent(t) ==
  /\ suTabs[t].call = "signing up"
  /\ IF suMail = "confirmed" THEN UNCHANGED <<suMail, suLinks>>
     ELSE /\ suMail' = "unconfirmed"
          /\ suLinks' = suLinks \cup {SignupPath(suTabs[t].ids)}
  /\ Ends(t, FALSE)
  /\ UNCHANGED <<suChosen, suSession, suOpen, suRows, suCookie, suInputs>>
MailFails(t) ==
  /\ suTabs[t].call = "signing up"
  /\ Ends(t, TRUE)
  /\ UNCHANGED <<suChosen, suAccounts, suOpen, suRows, suCookie, suInputs>>

\* The provider confirms the address and sends the browser on with a one-time code.
FollowLink(t, link) ==
  /\ PressedOnce
  /\ suTabs[t].call = "idle"
  /\ suMail' = "confirmed"
  /\ suLinks' = suLinks \ {link}
  /\ Goes(t, Tab("callback", link))
  /\ UNCHANGED <<suChosen, suSession, suOpen, suRows, suCookie>>

CodeExchanged(t) ==
  /\ On(t, "callback") /\ ~suTabs[t].error
  /\ suSession' = TRUE
  /\ Goes(t, Tab("signup", CallbackDestination(suTabs[t].ids)))
  /\ UNCHANGED <<suChosen, suMail, suLinks, suOpen, suRows, suCookie, suInputs>>
\* The link is old, or was opened where the code cannot be verified.
CodeRefused(t) ==
  /\ On(t, "callback") /\ ~suTabs[t].error
  /\ Ends(t, TRUE)
  /\ UNCHANGED <<suChosen, suAccounts, suOpen, suRows, suCookie, suInputs>>
\* Restart verification leads to the page without ids.
Restart(t) ==
  /\ On(t, "callback") /\ suTabs[t].error
  /\ Goes(t, Tab("signup", NoIds))
  /\ UNCHANGED <<suChosen, suAccounts, suOpen, suRows, suCookie, suInputs>>

----------------------------------------------------------------------------
(* provision and the API's signup. *)

\* Without a confirmed identity in the browser nothing is sent.
Provision(t) ==
  /\ PressedOnce
  /\ Ready(t)
  /\ suTabs' = [suTabs EXCEPT ![t].call = IF suSession THEN "sent" ELSE "idle",
                              ![t].error = ~suSession]
  /\ UNCHANGED <<suChosen, suAccounts, suOpen, suRows, suCookie>>

\* The cohort exists, is the program's, is open, and the address is eligible.
Admissible(ids) ==
  /\ ids.cohort \in suOpen \cap Eligible
  /\ ids.program = ProgramOf[ids.cohort]

CheckSignup(t) ==
  /\ suTabs[t].call = "sent"
  /\ IF ~Admissible(suTabs[t].ids) THEN Ends(t, TRUE)
     ELSE suTabs' = [suTabs EXCEPT ![t].call = IF suUsers > 0 THEN "check email" ELSE "new"]
  /\ UNCHANGED <<suChosen, suAccounts, suOpen, suRows, suCookie, suInputs>>

\* UNIQUE on the subject and the address: the second of two requests fails.
\* Mutant: the user is inserted whoever else was.
InsertUserAnyway(t) ==
  /\ suTabs[t].call = "new"
  /\ suUsers' = suUsers + 1
  /\ suApplications' = suApplications \cup {suTabs[t].ids}
  /\ suTabs' = [suTabs EXCEPT ![t].call = "created"]
  /\ UNCHANGED <<suChosen, suAccounts, suOpen, suCookie, suInputs>>
InsertUser(t) ==
  /\ suTabs[t].call = "new"
  /\ IF suUsers > 0 THEN Ends(t, TRUE) /\ UNCHANGED suRows
     ELSE /\ suUsers' = 1
          /\ suApplications' = suApplications \cup {suTabs[t].ids}
          /\ suTabs' = [suTabs EXCEPT ![t].call = "created"]
  /\ UNCHANGED <<suChosen, suAccounts, suOpen, suCookie, suInputs>>

\* Either answer is followed to the application; only CREATED brings a session, and
\* without one the proxy shows the login page.
SignupAnswered(t) ==
  /\ suTabs[t].call \in {"created", "check email"}
  /\ suCookie' = (suCookie \/ suTabs[t].call = "created")
  /\ Goes(t, Tab(IF suCookie' THEN "application" ELSE "login", NoIds))
  /\ UNCHANGED <<suChosen, suAccounts, suOpen, suRows, suInputs>>
\* The request or its answer is lost.
SignupLost(t) ==
  /\ suTabs[t].call \in {"sent", "new", "created", "check email"}
  /\ Ends(t, TRUE)
  /\ UNCHANGED <<suChosen, suAccounts, suOpen, suRows, suCookie, suInputs>>

CloseCohort(c) ==
  /\ PressedOnce
  /\ suOpen' = suOpen \ {c}
  /\ UNCHANGED <<suTabs, suChosen, suAccounts, suRows, suCookie>>

SuNext ==
  \/ \E t \in SuTabs :
       \/ BrowsePrograms(t)
       \/ \E c \in Cohorts : Apply(t, c)
       \/ SendMail(t) \/ MailSent(t) \/ MailFails(t)
       \/ \E link \in suLinks : FollowLink(t, link)
       \/ CodeExchanged(t) \/ CodeRefused(t) \/ Restart(t)
       \/ Provision(t) \/ CheckSignup(t) \/ InsertUser(t)
       \/ SignupAnswered(t) \/ SignupLost(t)
  \/ \E c \in suOpen : CloseCohort(c)

SignupSpec == SuInit /\ [][SuNext]_suVars

----------------------------------------------------------------------------
(* Properties. *)

\* What signing up leads to is what was chosen, over tabs, lost answers, used and
\* failed links: one account for the identity at most, never before its address was
\* confirmed, with one application, to a cohort whose Apply was pressed and under its
\* own program; and nobody is shown the application page without an application.
AppliedAsChosen ==
  /\ suUsers <= 1 /\ Cardinality(suApplications) <= suUsers
  /\ suUsers > 0 => suMail = "confirmed"
  /\ \A a \in suApplications : a.cohort \in suChosen \cap Eligible /\ a.program = ProgramOf[a.cohort]
  /\ \A t \in SuTabs : On(t, "application") => suApplications # {}
=============================================================================
