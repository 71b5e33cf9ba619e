--------------------------- MODULE WorkspaceShell ---------------------------
(***************************************************************************)
(* The signed-in workspace of one browser tab: signing in and out, the     *)
(* routes and what each of them asks the API for, the query cache with its *)
(* answers in flight, the writes that follow a press on the queue pages,   *)
(* and the navigation and primary action each role is shown.               *)
(*                                                                         *)
(* A path is the sequence of its segments.  An answer is the account it    *)
(* was given to and the version of the list it shows.                      *)
(***************************************************************************)
EXTENDS ProjectRules, ApiGateway, Sequences, FiniteSets

CONSTANTS
  Accounts,      \* people who use this browser
  RoleOfAccount,
  Queries,       \* the queries considered, of those Enabled knows
  ShPages,       \* the routes considered
  AppEnv, DemoMode,
  MaxWrites,     \* bound on the writes to each list
  MaxShFaults    \* bound on failed requests and expired sessions

VARIABLES
  shAccount,     \* the account of the session cookie
  shPage,        \* the route of the tab
  shCache,       \* query -> answer
  shInvalid,     \* queries marked invalidated
  shFlight,      \* requests of the cache under way
  shOut,         \* how far signing out is
  shServer,      \* version of each list on the server
  shKnown,       \* version each list has, as far as this tab's writes were answered
  shWrites,      \* writes under way
  shFaults

shVars == <<shAccount, shPage, shCache, shInvalid, shFlight, shOut,
            shServer, shKnown, shWrites, shFaults>>

----------------------------------------------------------------------------
(* Routes. *)

Root(path) ==
  IF path # <<>> /\ path[1] \in {"student", "lead", "ops", "admin", "university"}
  THEN path[1] ELSE "client"

\* login: where a role lands.
Destination(role) ==
  CASE role = "student" -> <<"student">>
    [] role = "technical_lead" -> <<"lead">>
    [] role = "coordinator" -> <<"ops">>
    [] role = "platform_admin" -> <<"admin">>
    [] role = "university_viewer" -> <<"university">>
    [] OTHER -> <<"client">>

IsolatedRoutes ==
  {<<"admin", "jobs">>, <<"student", "offers">>, <<"lead", "offers">>,
   <<"university", "exports">>, <<"ops", "approvals">>, <<"ops", "risks">>,
   <<"ops", "agent-runs">>}
Project(path) ==
  /\ Len(path) = 3 /\ path[1] \in {"client", "student", "lead", "ops"}
  /\ path[2] = "projects" /\ path[3] # "new"

\* The queries a route runs: those of the shell (use-workspace-data) and those of
\* the pages that bring their own (isolated-workspace-page).
ShellQueries(path) ==
  LET root == Root(path)  isolated == path \in IsolatedRoutes IN
  {"session", "notifications", "preferences"} \cup
  (IF root # "university" /\ ~isolated THEN {"projects"} ELSE {}) \cup
  (IF root = "university" /\ ~isolated THEN {"metrics", "exports"} ELSE {}) \cup
  (IF root \in {"ops", "admin"} /\ ~isolated
   THEN {"dashboard", "jobs", "integrations"} ELSE {}) \cup
  (IF path = <<"client", "invoices">> THEN {"invoices"} ELSE {}) \cup
  (IF path = <<"student", "credentials">> THEN {"credentials"} ELSE {}) \cup
  (IF path \in {<<"student", "earnings">>, <<"lead", "earnings">>}
   THEN {"earnings"} ELSE {}) \cup
  (IF path = <<"lead">> THEN {"reviews"} ELSE {}) \cup
  (IF Project(path) THEN {"workspace"} ELSE {})
IsolatedQueries(path) ==
  CASE path = <<"admin", "jobs">> -> {"jobs", "integrations"}
    [] path \in {<<"student", "offers">>, <<"lead", "offers">>} -> {"offers"}
    [] path = <<"university", "exports">> -> {"exports", "metrics"}
    [] path = <<"ops", "approvals">> -> {"approvals"}
    [] path = <<"ops", "risks">> -> {"risks"}
    [] OTHER -> {}
Enabled(path) == (ShellQueries(path) \cup IsolatedQueries(path)) \cap Queries

\* What the shell puts on a route itself: the tiles and the panel, by the queries their
\* data comes from.  Other routes bring a page of their own.
OwnPage(path) ==
  path \in IsolatedRoutes \cup
    {<<"student">>, <<"student", "learn">>, <<"student", "opportunities">>,
     <<"student", "proposals">>, <<"client">>, <<"client", "proposals">>,
     <<"client", "opportunities/new">>, <<"client", "projects", "new">>, <<"university">>}
RoleRecords(path) ==
  IF path = <<"client", "invoices">> THEN {"invoices"}
  ELSE IF path = <<"student", "credentials">> THEN {"credentials"}
  ELSE IF path \in {<<"student", "earnings">>, <<"lead", "earnings">>} THEN {"earnings"}
  ELSE IF path = <<"lead">> THEN {"reviews"}
  ELSE {}
RecordsPanel(path) == IF RoleRecords(path) # {} THEN RoleRecords(path) ELSE {"projects"}
Panel(path) ==
  IF OwnPage(path) THEN {}
  ELSE IF Root(path) = "university" THEN {"metrics", "exports"}
  ELSE IF Root(path) = "admin" THEN {"jobs", "integrations"}
  ELSE IF Project(path) THEN {"workspace"}
  ELSE RecordsPanel(path)
Tiles(path) ==
  IF OwnPage(path) THEN {}
  ELSE IF Root(path) = "university" THEN {"metrics"}
  ELSE IF Root(path) \in {"ops", "admin"} THEN {"dashboard"}
  ELSE {"projects", "session"}

\* routeError: the queries whose failure is said in the panel's place.
Watched(path) ==
  {"session"} \cup
  (IF Root(path) = "university" THEN {"metrics", "exports"}
   ELSE IF Root(path) = "admin" \/ path = <<"ops">> THEN {"dashboard", "jobs", "integrations"}
   ELSE IF Project(path) THEN {"workspace"}
   ELSE RecordsPanel(path))

\* The queries that have a demo sample to fall back on.
HasSample == {"session", "notifications", "preferences", "projects"}

----------------------------------------------------------------------------
(* What a role is shown: navigation entries and the primary action. *)

\* CAPABILITIES, those the pages ask for.
Capabilities(role) ==
  CASE role = "client_owner" ->
         {"projects:create", "projects:approve", "opportunities:publish",
          "proposals:decide", "payments:view", "members:manage"}
    [] role = "client_member" -> {"projects:view"}
    [] role = "student" ->
         {"learning:participate", "opportunities:view", "proposals:create", "offers:decide",
          "work:submit", "credentials:view", "internships:view_own"}
    [] role = "technical_lead" -> {"offers:decide", "plans:review"}
    [] role = "coordinator" ->
         {"projects:operate", "approvals:decide", "internships:view_analytics"}
    [] role = "university_viewer" -> {"university:aggregate:view", "university:consented:view"}
    [] role = "platform_admin" ->
         {"platform:configure", "jobs:retry", "access:manage", "internships:view_analytics"}
    [] OTHER -> {}

Entry(root, page, needs) ==
  [href |-> IF page = "" THEN <<root>> ELSE <<root, page>>, needs |-> needs]
Navigation ==
  {Entry("client", "", {"projects:view"}), Entry("client", "projects", {"projects:view"}),
   Entry("client", "proposals", {"proposals:decide"}),
   Entry("client", "opportunities/new", {"opportunities:publish"}),
   Entry("client", "invoices", {"payments:view"}),
   Entry("client", "organization", {"members:manage"}),
   Entry("student", "", {}), Entry("student", "internship", {"internships:view_own"}),
   Entry("student", "learn", {"learning:participate"}),
   Entry("student", "opportunities", {"opportunities:view"}),
   Entry("student", "proposals", {"proposals:create"}),
   Entry("student", "offers", {"offers:decide"}), Entry("student", "projects", {"work:submit"}),
   Entry("student", "earnings", {}), Entry("student", "credentials", {"credentials:view"}),
   Entry("lead", "", {}), Entry("lead", "offers", {"offers:decide"}),
   Entry("lead", "", {"plans:review"}), Entry("lead", "earnings", {}),
   Entry("ops", "", {"projects:operate"}),
   Entry("ops", "internships", {"internships:view_analytics"}),
   Entry("ops", "approvals", {"approvals:decide"}), Entry("ops", "risks", {"projects:operate"}),
   Entry("ops", "projects", {"projects:operate"}), Entry("ops", "students", {"projects:operate"}),
   Entry("ops", "agent-runs", {"projects:operate"}), Entry("ops", "intake", {"projects:operate"}),
   Entry("admin", "", {"platform:configure"}), Entry("admin", "access", {"access:manage"}),
   Entry("admin", "integrations", {"platform:configure"}), Entry("admin", "jobs", {"jobs:retry"}),
   Entry("university", "", {"university:aggregate:view"}),
   Entry("university", "students", {"university:consented:view"}),
   Entry("university", "exports", {"university:consented:view"}),
   Entry("university", "settings", {"university:aggregate:view"})}

\* A session that has not arrived yet hides nothing.
VisibleNavigation(root, arrived, can) ==
  {e \in Navigation : e.href[1] = root /\ (arrived => e.needs \subseteq can)}

ProjectActions ==
  {[root |-> "client", state |-> "DRAFT", needs |-> "projects:create", intent |-> "navigate"],
   [root |-> "client", state |-> "AWAITING_CLIENT_SCOPE_APPROVAL",
    needs |-> "projects:approve", intent |-> "approve"],
   [root |-> "client", state |-> "AWAITING_DEPOSIT", needs |-> "payments:view",
    intent |-> "review"],
   [root |-> "client", state |-> "CLIENT_REVIEW", needs |-> "projects:approve",
    intent |-> "approve"],
   [root |-> "student", state |-> "AWAITING_STUDENT_ACCEPTANCE", needs |-> "offers:decide",
    intent |-> "review"],
   [root |-> "student", state |-> "ACTIVE", needs |-> "work:submit", intent |-> "navigate"],
   [root |-> "lead", state |-> "QA_REVIEW", needs |-> "plans:review", intent |-> "review"]}
\* The action on a project's page.
ProjectAction(path, can, state) ==
  {a \in ProjectActions : a.root = Root(path) /\ a.state = state /\ a.needs \in can}

PageAction(path, can) ==
  LET Go(needs, here, href) == IF needs \in can /\ here THEN {href} ELSE {}
      root == Root(path) IN
  Go("projects:create", root = "client", <<"client", "projects", "new">>) \cup
  Go("learning:participate", path = <<"student">>, <<"student", "learn">>) \cup
  Go("opportunities:view", path = <<"student", "opportunities">>,
     <<"student", "opportunities">>) \cup
  Go("plans:review", path = <<"lead">>, <<"lead">>) \cup
  Go("approvals:decide", path = <<"ops">>, <<"ops", "approvals">>) \cup
  Go("jobs:retry", root = "admin", <<"admin", "jobs">>) \cup
  Go("university:aggregate:view", root = "university", <<"university">>)

----------------------------------------------------------------------------
Nobody == "nobody"
Empty == [of |-> Nobody, at |-> 0]
Sample == [of |-> "sample", at |-> 0]
Lists == {"offers", "jobs", "exports"}
Login == <<"login">>

ShInit ==
  /\ shAccount = Nobody
  /\ shPage = Login
  /\ shCache = [q \in Queries |-> Empty]
  /\ shInvalid = {}
  /\ shFlight = {}
  /\ shOut = "in"
  /\ shServer = [l \in Lists |-> 0]
  /\ shKnown = [l \in Lists |-> 0]
  /\ shWrites = {}
  /\ shFaults = 0

\* A full page load: a new QueryClient, nothing of the old page is left.
Load(page) ==
  /\ shPage' = page
  /\ shCache' = [q \in Queries |-> Empty]
  /\ shInvalid' = {}
  /\ shFlight' = {}
  /\ shWrites' = {}
  /\ shOut' = "in"
  /\ shKnown' = [l \in Lists |-> 0]

\* signInLocal, signInSupabase: the API sets the cookie, then window.location.assign.
SignIn(a) ==
  /\ shPage = Login /\ shOut = "in"
  /\ shAccount' = a
  /\ Load(Destination(RoleOfAccount[a]))
  /\ UNCHANGED <<shServer, shFaults>>

\* The cookie lives for eight hours.
SessionExpires ==
  /\ shAccount # Nobody
  /\ shFaults < MaxShFaults
  /\ shFaults' = shFaults + 1
  /\ shAccount' = Nobody
  /\ UNCHANGED <<shPage, shCache, shInvalid, shFlight, shOut, shServer, shKnown, shWrites>>

\* The proxy sends a tab without a session to the login page.  An address typed in
\* loads the page anew; a link of the navigation or the primary action, once the
\* session is known, leaves the cache in place.
Open(page) ==
  /\ shOut = "in"
  /\ Load(IF Admit(page[1], shAccount # Nobody) = "login" THEN Login ELSE page)
  /\ UNCHANGED <<shAccount, shServer, shFaults>>
\* The search offers the navigation and the projects that are loaded.
SearchHits(path) ==
  IF "projects" \in Queries /\ shCache["projects"] # Empty
  THEN {hit \in ShPages : Project(hit) /\ hit[1] = Root(path)} ELSE {}
Navigate(page) ==
  /\ shPage # Login /\ shOut = "in" /\ page # shPage
  /\ LET known == shCache["session"].of \in Accounts
         can == IF known THEN Capabilities(RoleOfAccount[shCache["session"].of]) ELSE {} IN
     page \in {e.href : e \in VisibleNavigation(Root(shPage), known, can)}
               \cup PageAction(shPage, can) \cup SearchHits(shPage)
  /\ shPage' = IF Admit(page[1], shAccount # Nobody) = "login" THEN Login ELSE page
  /\ UNCHANGED <<shAccount, shCache, shInvalid, shFlight, shOut, shServer, shKnown,
                 shWrites, shFaults>>

----------------------------------------------------------------------------
(* The query cache. *)

VersionOf(q) == IF q \in Lists THEN shServer[q] ELSE 0
InFlight(q) == \E f \in shFlight : f.query = q

\* A mounted query that is missing, stale or invalidated is fetched; the answer is
\* what the API reads for the account of the cookie.
Fetch(q) ==
  /\ q \in Enabled(shPage) /\ shPage # Login
  /\ ~InFlight(q)
  /\ shCache[q] = Empty \/ q \in shInvalid \/ q \in Lists
  /\ shFlight' = shFlight \cup {[query |-> q, as |-> shAccount, at |-> VersionOf(q)]}
  /\ UNCHANGED <<shAccount, shPage, shCache, shInvalid, shOut, shServer, shKnown,
                 shWrites, shFaults>>
FetchArrives(f) ==
  /\ f.as # Nobody
  /\ shFlight' = shFlight \ {f}
  /\ shCache' = [shCache EXCEPT ![f.query] = [of |-> f.as, at |-> f.at]]
  /\ shInvalid' = shInvalid \ {f.query}
  /\ UNCHANGED <<shAccount, shPage, shOut, shServer, shKnown, shWrites, shFaults>>
\* After the retries: the sample, if the environment allows one and the API was out of
\* reach (withDemoFallback); else the old data stays beside the error.
FetchFails(f, unreachable) ==
  /\ shFlight' = shFlight \ {f}
  /\ IF f.as = Nobody THEN UNCHANGED shFaults
     ELSE shFaults < MaxShFaults /\ shFaults' = shFaults + 1
  /\ LET sample == /\ unreachable /\ f.as # Nobody
                   /\ DemoEnvironment(AppEnv, DemoMode).fallback /\ f.query \in HasSample IN
     /\ shCache' = IF sample THEN [shCache EXCEPT ![f.query] = Sample] ELSE shCache
     /\ shInvalid' = IF sample THEN shInvalid \ {f.query} ELSE shInvalid
  /\ UNCHANGED <<shAccount, shPage, shOut, shServer, shKnown, shWrites>>

----------------------------------------------------------------------------
(* Writes of the queue pages: decide an offer, recover a job, request an export. *)

WrittenOn(path) ==
  CASE path \in {<<"student", "offers">>, <<"lead", "offers">>} -> {"offers"}
    [] path = <<"admin", "jobs">> -> {"jobs"}
    [] path = <<"university", "exports">> -> {"exports"}
    [] OTHER -> {}

\* The offer buttons are disabled by an id that is never an offer's, so a second
\* decision can be sent while the first is under way; the server takes one.
Write(l) ==
  /\ l \in WrittenOn(shPage) /\ shPage # Login
  /\ shCache[l] # Empty
  /\ l = "offers" \/ ~\E w \in shWrites : w.list = l
  /\ Cardinality(shWrites) < 2
  /\ \E n \in {1, 2} :
       /\ ~\E w \in shWrites : w.n = n
       /\ shWrites' = shWrites \cup {[list |-> l, n |-> n, at |-> 0]}
  /\ UNCHANGED <<shAccount, shPage, shCache, shInvalid, shFlight, shOut, shServer, shKnown,
                 shFaults>>
ServeWrite(w) ==
  /\ w.at = 0 /\ shAccount # Nobody
  /\ shServer[w.list] < MaxWrites
  /\ shServer' = [shServer EXCEPT ![w.list] = @ + 1]
  /\ shWrites' = (shWrites \ {w}) \cup {[w EXCEPT !.at = shServer[w.list] + 1]}
  /\ UNCHANGED <<shAccount, shPage, shCache, shInvalid, shFlight, shOut, shKnown, shFaults>>
\* A refused write changes nothing and says nothing.
WriteRefused(w) ==
  /\ w.at = 0
  /\ shWrites' = shWrites \ {w}
  /\ UNCHANGED <<shAccount, shPage, shCache, shInvalid, shFlight, shOut, shServer, shKnown,
                 shFaults>>

\* onSuccess: invalidateQueries, which cancels a request of the list that is under way.
\* Mutant: the request under way is left to finish.
WriteAnsweredLoosely(w) ==
  /\ w.at > 0
  /\ shWrites' = shWrites \ {w}
  /\ shKnown' = [shKnown EXCEPT ![w.list] = IF @ < w.at THEN w.at ELSE @]
  /\ shInvalid' = shInvalid \cup {w.list}
  /\ UNCHANGED <<shAccount, shPage, shCache, shFlight, shOut, shServer, shFaults>>
WriteAnswered(w) ==
  /\ w.at > 0
  /\ shWrites' = shWrites \ {w}
  /\ shKnown' = [shKnown EXCEPT ![w.list] = IF @ < w.at THEN w.at ELSE @]
  /\ shInvalid' = shInvalid \cup {w.list}
  /\ shFlight' = {f \in shFlight : f.query # w.list}
  /\ UNCHANGED <<shAccount, shPage, shCache, shOut, shServer, shFaults>>

----------------------------------------------------------------------------
(* handleLogout: the API, the identity provider, the cache, the login page. *)

SignOut ==
  /\ shPage # Login /\ shOut = "in"
  /\ shOut' = "asked"
  /\ UNCHANGED <<shAccount, shPage, shCache, shInvalid, shFlight, shServer, shKnown,
                 shWrites, shFaults>>
SessionRevoked ==
  /\ shOut = "asked"
  /\ shAccount' = Nobody
  /\ shOut' = "revoked"
  /\ UNCHANGED <<shPage, shCache, shInvalid, shFlight, shServer, shKnown, shWrites, shFaults>>
\* Either call fails: the error is shown and the page stays as it is.
SignOutFails ==
  /\ shOut \in {"asked", "revoked"}
  /\ shFaults < MaxShFaults
  /\ shFaults' = shFaults + 1
  /\ shOut' = "in"
  /\ UNCHANGED <<shAccount, shPage, shCache, shInvalid, shFlight, shServer, shKnown, shWrites>>
\* Mutant: clear without cancelling first.
ClearOnly ==
  /\ shOut = "revoked"
  /\ shOut' = "cleared"
  /\ shCache' = [q \in Queries |-> Empty]
  /\ shInvalid' = {}
  /\ UNCHANGED <<shAccount, shPage, shFlight, shServer, shKnown, shWrites, shFaults>>
CancelAndClear ==
  /\ shOut = "revoked"
  /\ shOut' = "cleared"
  /\ shFlight' = {}
  /\ shCache' = [q \in Queries |-> Empty]
  /\ shInvalid' = {}
  /\ UNCHANGED <<shAccount, shPage, shServer, shKnown, shWrites, shFaults>>
LeaveForLogin ==
  /\ shOut = "cleared"
  /\ Load(Login)
  /\ UNCHANGED <<shAccount, shServer, shFaults>>

ShNext ==
  \/ \E a \in Accounts : SignIn(a)
  \/ SessionExpires
  \/ \E page \in ShPages : Open(page) \/ Navigate(page)
  \/ \E q \in Queries : shOut # "cleared" /\ Fetch(q)
  \/ \E f \in shFlight : FetchArrives(f) \/ \E unreachable \in BOOLEAN : FetchFails(f, unreachable)
  \/ \E l \in Lists \cap Queries : shOut # "cleared" /\ Write(l)
  \/ \E w \in shWrites : ServeWrite(w) \/ WriteRefused(w) \/ WriteAnswered(w)
  \/ SignOut
  \/ SessionRevoked
  \/ SignOutFails
  \/ CancelAndClear
  \/ LeaveForLogin

ShSpec == ShInit /\ [][ShNext]_shVars

----------------------------------------------------------------------------
(* Properties. *)

\* What the tab holds belongs to the account it is signed in with: nothing of the
\* account before, whether that one signed out or its session ran out, and nothing
\* at all once signing out has cleared the cache, late answers included.
DataOfTheSession ==
  /\ shAccount # Nobody => \A q \in Queries : shCache[q].of \in {Nobody, "sample", shAccount}
  /\ shOut = "cleared" => \A q \in Queries : shCache[q] = Empty

\* After a write of a queue page was answered, the list on show has it or is marked
\* to be fetched again: an answer read before the write does not pass for fresh.
WritesAreShown ==
  \A l \in Lists \cap Queries :
    shCache[l].at < shKnown[l] /\ shCache[l] # Empty => l \in shInvalid
=============================================================================
