-------------------------- MODULE WebSessionProofs --------------------------
(***************************************************************************)
(* What TLAPS proves of a signed-in tab: the workspace shell and its query *)
(* cache, a call through the same-origin proxy, and the project page, for  *)
(* any accounts, queries, pages, configurations, tabs and bounds.          *)
(***************************************************************************)
EXTENDS WorkspaceShell, ProjectConsole, FiniteSetTheorems, TLAPS

People == Accounts \cup {Nobody}
Results == [of : People \cup {"sample"}, at : Nat]
Requests == [query : Queries, as : People, at : Nat]
WritesSent == [list : Lists, n : {1, 2}, at : Nat]

\* The variables stay in their sets.
ShTypeOK ==
  /\ shAccount \in People
  /\ shCache \in [Queries -> Results]
  /\ shFlight \subseteq Requests
  /\ shServer \in [Lists -> Nat]
  /\ shKnown \in [Lists -> Nat]
  /\ shWrites \subseteq WritesSent

\* A request under way was sent for the account of the session, and none is left once
\* the cache was cleared.
RequestsOfTheSession ==
  /\ shAccount # Nobody => \A f \in shFlight : f.as = shAccount
  /\ shOut = "cleared" => shFlight = {}

\* Nothing this tab was told of is newer than the server, and a list under way was read
\* after every write that was answered.
ReadAfterWrites ==
  /\ \A l \in Lists : shKnown[l] <= shServer[l]
  /\ \A w \in shWrites : w.at <= shServer[w.list]
  /\ \A f \in shFlight : f.query \in Lists => shKnown[f.query] <= f.at

ShInv ==
  /\ ShTypeOK
  /\ DataOfTheSession /\ RequestsOfTheSession
  /\ WritesAreShown /\ ReadAfterWrites

\* What is shown in place of an answer belongs to nobody.
LEMMA EmptyIsResult == Empty \in Results /\ Sample \in Results /\ Empty.of = Nobody
  BY DEF Empty, Sample, Results, People

\* The initial states.
LEMMA InitShInv == ShInit => ShInv
  BY EmptyIsResult DEF ShInit, ShInv, ShTypeOK, DataOfTheSession, RequestsOfTheSession, WritesAreShown,
         ReadAfterWrites, People, Requests, WritesSent

\* A page load forgets everything, whoever it is for.
LEMMA LoadInv ==
  ASSUME ShInv, NEW page, Load(page), shAccount' \in People, UNCHANGED shServer
  PROVE  ShInv'
  BY EmptyIsResult
     DEF Load, ShInv, ShTypeOK, DataOfTheSession, RequestsOfTheSession, WritesAreShown,
         ReadAfterWrites

\* A step that leaves the cache, the requests and the writes alone, and the account or
\* forgets it.
LEMMA KeptInv ==
  ASSUME ShInv, UNCHANGED <<shCache, shInvalid, shFlight, shServer, shKnown, shWrites>>,
         shAccount' \in {shAccount, Nobody}, shOut' = "cleared" => shOut = "cleared"
  PROVE  ShInv'
  BY DEF ShInv, ShTypeOK, DataOfTheSession, RequestsOfTheSession, WritesAreShown,
         ReadAfterWrites, People

\* A fetch starts for the account signed in.
LEMMA FetchInv ==
  ASSUME ShInv, NEW q \in Queries, Fetch(q), shOut # "cleared" PROVE ShInv'
<1> DEFINE f == [query |-> q, as |-> shAccount, at |-> VersionOf(q)]
<1>1. VersionOf(q) \in Nat /\ (q \in Lists => VersionOf(q) = shServer[q])
  BY DEF VersionOf, ShInv, ShTypeOK
<1>2. f \in Requests /\ f.as = shAccount /\ f.query = q /\ f.at = VersionOf(q)
  BY <1>1 DEF ShInv, ShTypeOK, Requests
<1>3. shFlight' = shFlight \cup {f}  BY DEF Fetch
<1> HIDE DEF f
<1> QED
  BY <1>1, <1>2, <1>3
     DEF Fetch, ShInv, ShTypeOK, DataOfTheSession, RequestsOfTheSession, WritesAreShown,
         ReadAfterWrites

\* Its answer is stored if that account still is.
LEMMA FetchArrivesInv == ASSUME ShInv, NEW f \in shFlight, FetchArrives(f) PROVE ShInv'
<1>1. f \in Requests /\ f.query \in Queries /\ f.at \in Nat /\ f.as \in People
  BY DEF ShInv, ShTypeOK, Requests
<1> DEFINE r == [of |-> f.as, at |-> f.at]
<1>2. r \in Results /\ r.of = f.as /\ r.at = f.at  BY <1>1 DEF Results
<1>3. shCache' = [shCache EXCEPT ![f.query] = r] /\ shCache' \in [Queries -> Results]
  BY <1>1, <1>2 DEF FetchArrives, ShInv, ShTypeOK
<1> HIDE DEF r
<1>4. ShTypeOK' /\ RequestsOfTheSession' /\ ReadAfterWrites'
  BY <1>3 DEF FetchArrives, ShInv, ShTypeOK, RequestsOfTheSession, ReadAfterWrites
<1>5. DataOfTheSession'
  BY <1>1, <1>2, <1>3
     DEF FetchArrives, ShInv, ShTypeOK, DataOfTheSession, RequestsOfTheSession
<1>6. WritesAreShown'
  <2> SUFFICES ASSUME NEW l \in Lists \cap Queries,
                      shCache'[l].at < shKnown[l], shCache'[l] # Empty
               PROVE  l \in shInvalid'
    BY DEF WritesAreShown, FetchArrives
  <2>1. f.query # l
    BY <1>1, <1>2, <1>3 DEF ShInv, ShTypeOK, ReadAfterWrites
  <2> QED  BY <1>1, <1>3, <2>1 DEF FetchArrives, ShInv, ShTypeOK, WritesAreShown
<1> QED  BY <1>4, <1>5, <1>6 DEF ShInv

\* Only queries that are no queue's list have a sample.
LEMMA FetchFailsInv ==
  ASSUME ShInv, NEW f \in shFlight, NEW unreachable \in BOOLEAN, FetchFails(f, unreachable)
  PROVE  ShInv'
<1>1. f.query \in Queries  BY DEF ShInv, ShTypeOK, Requests
<1>2. \/ shCache' = shCache /\ shInvalid' = shInvalid
      \/ /\ f.query \notin Lists
         /\ shCache' = [shCache EXCEPT ![f.query] = Sample]
         /\ shInvalid' = shInvalid \ {f.query}
  BY DEF FetchFails, HasSample, Lists
<1>3. shFlight' = shFlight \ {f} /\ UNCHANGED <<shAccount, shOut, shServer, shKnown, shWrites>>
  BY DEF FetchFails
<1>4. Sample \in Results /\ Sample.of = "sample"  BY EmptyIsResult DEF Sample
<1>5. ShTypeOK' /\ RequestsOfTheSession' /\ ReadAfterWrites'
  BY <1>1, <1>2, <1>3, <1>4 DEF ShInv, ShTypeOK, RequestsOfTheSession, ReadAfterWrites
<1>6. DataOfTheSession'
  BY <1>1, <1>2, <1>3, <1>4
     DEF ShInv, ShTypeOK, DataOfTheSession, RequestsOfTheSession
<1>7. WritesAreShown'
  BY <1>1, <1>2, <1>3 DEF ShInv, ShTypeOK, WritesAreShown
<1> QED  BY <1>5, <1>6, <1>7 DEF ShInv

\* The writes of the queue pages: sent, carried out, refused, answered.
LEMMA WriteInv == ASSUME ShInv, NEW l \in Lists, Write(l) PROVE ShInv'
<1>1. \E n \in {1, 2} : shWrites' = shWrites \cup {[list |-> l, n |-> n, at |-> 0]}
  BY DEF Write
<1>2. PICK n \in {1, 2} : shWrites' = shWrites \cup {[list |-> l, n |-> n, at |-> 0]}
  BY <1>1
<1>3. UNCHANGED <<shAccount, shCache, shInvalid, shFlight, shOut, shServer, shKnown>>
  BY DEF Write
<1> QED
  BY <1>2, <1>3
     DEF ShInv, ShTypeOK, WritesSent, DataOfTheSession, RequestsOfTheSession, WritesAreShown,
         ReadAfterWrites

\* The API carries out a write for the account that sent it.
LEMMA ServeWriteInv == ASSUME ShInv, NEW w \in shWrites, ServeWrite(w) PROVE ShInv'
<1>1. w \in WritesSent /\ w.list \in Lists  BY DEF ShInv, ShTypeOK, WritesSent
<1> DEFINE v == shServer[w.list] + 1
           x == [w EXCEPT !.at = v]
<1>2. v \in Nat /\ shServer' = [shServer EXCEPT ![w.list] = v]
  BY <1>1 DEF ServeWrite, ShInv, ShTypeOK
<1>3. x \in WritesSent /\ x.list = w.list /\ x.at = v  BY <1>1, <1>2 DEF WritesSent
<1>4. shWrites' = (shWrites \ {w}) \cup {x}  BY DEF ServeWrite
<1>5. \A l \in Lists : shServer[l] <= shServer'[l]  BY <1>1, <1>2 DEF ShInv, ShTypeOK
<1> HIDE DEF v, x
<1>6. UNCHANGED <<shAccount, shCache, shInvalid, shFlight, shOut, shKnown>>  BY DEF ServeWrite
<1>7. ShTypeOK'  BY <1>2, <1>3, <1>4, <1>6 DEF ShInv, ShTypeOK
<1>8. ReadAfterWrites'
  <2>1. \A l \in Lists : shKnown[l] <= shServer'[l]
    BY <1>5, <1>7 DEF ShInv, ShTypeOK, ReadAfterWrites
  <2>2. \A y \in shWrites : y.list \in Lists /\ y.at <= shServer'[y.list]
    BY <1>5, <1>7 DEF ShInv, ShTypeOK, WritesSent, ReadAfterWrites
  <2>3. x.at <= shServer'[x.list]  BY <1>1, <1>2, <1>3, <1>7 DEF ShInv, ShTypeOK
  <2> QED  BY <1>4, <1>6, <2>1, <2>2, <2>3 DEF ShInv, ReadAfterWrites
<1> QED
  BY <1>6, <1>7, <1>8
     DEF ShInv, DataOfTheSession, RequestsOfTheSession, WritesAreShown

\* A write that is refused.
LEMMA WriteRefusedInv == ASSUME ShInv, NEW w \in shWrites, WriteRefused(w) PROVE ShInv'
  BY DEF WriteRefused, ShInv, ShTypeOK, DataOfTheSession, RequestsOfTheSession, WritesAreShown,
         ReadAfterWrites

\* invalidateQueries: what the list shows is marked, and a request of it is dropped, so
\* the answer that comes next was read after the write.
LEMMA WriteAnsweredInv == ASSUME ShInv, NEW w \in shWrites, WriteAnswered(w) PROVE ShInv'
<1>1. w.list \in Lists /\ w.at \in Nat /\ w.at <= shServer[w.list]
  BY DEF ShInv, ShTypeOK, WritesSent, ReadAfterWrites
<1>2. /\ shKnown' = [shKnown EXCEPT ![w.list] = IF @ < w.at THEN w.at ELSE @]
      /\ shInvalid' = shInvalid \cup {w.list}
      /\ shFlight' = {f \in shFlight : f.query # w.list}
      /\ shWrites' = shWrites \ {w}
      /\ UNCHANGED <<shAccount, shCache, shOut, shServer>>
  BY DEF WriteAnswered
<1>3. \A l \in Lists : /\ shKnown'[l] \in Nat /\ shKnown'[l] <= shServer[l]
                       /\ l # w.list => shKnown'[l] = shKnown[l]
  BY <1>1, <1>2 DEF ShInv, ShTypeOK, ReadAfterWrites
<1>4. ShTypeOK'  BY <1>1, <1>2 DEF ShInv, ShTypeOK
<1>5. ReadAfterWrites'  BY <1>2, <1>3, <1>4 DEF ShInv, ShTypeOK, ReadAfterWrites
<1>6. WritesAreShown'  BY <1>2, <1>3 DEF ShInv, WritesAreShown
<1> QED
  BY <1>2, <1>4, <1>5, <1>6 DEF ShInv, DataOfTheSession, RequestsOfTheSession

\* Signing out cancels and clears.
LEMMA ClearInv == ASSUME ShInv, CancelAndClear PROVE ShInv'
  BY EmptyIsResult
     DEF CancelAndClear, ShInv, ShTypeOK, DataOfTheSession, RequestsOfTheSession,
         WritesAreShown, ReadAfterWrites

\* Every step of the shell.
LEMMA NextShInv == ASSUME ShInv, [ShNext]_shVars PROVE ShInv'
<1>1. ASSUME NEW a \in Accounts, SignIn(a) PROVE ShInv'
  BY <1>1, LoadInv DEF SignIn, People
<1>2. CASE SessionExpires
  BY <1>2, KeptInv DEF SessionExpires
<1>3. ASSUME NEW page \in ShPages, Open(page) PROVE ShInv'
  BY <1>3, LoadInv DEF Open, ShInv, ShTypeOK
<1>4. ASSUME NEW page \in ShPages, Navigate(page) PROVE ShInv'
  BY <1>4, KeptInv DEF Navigate
<1>5. ASSUME NEW q \in Queries, shOut # "cleared", Fetch(q) PROVE ShInv'
  BY <1>5, FetchInv
<1>6. ASSUME NEW f \in shFlight, FetchArrives(f) PROVE ShInv'
  BY <1>6, FetchArrivesInv
<1>7. ASSUME NEW f \in shFlight, NEW unreachable \in BOOLEAN, FetchFails(f, unreachable)
      PROVE  ShInv'
  BY <1>7, FetchFailsInv
<1>8. ASSUME NEW l \in Lists \cap Queries, Write(l) PROVE ShInv'
  BY <1>8, WriteInv
<1>9. ASSUME NEW w \in shWrites, ServeWrite(w) \/ WriteRefused(w) \/ WriteAnswered(w)
      PROVE  ShInv'
  BY <1>9, ServeWriteInv, WriteRefusedInv, WriteAnsweredInv
<1>10. CASE SignOut  BY <1>10, KeptInv DEF SignOut
<1>11. CASE SessionRevoked  BY <1>11, KeptInv DEF SessionRevoked
<1>12. CASE SignOutFails  BY <1>12, KeptInv DEF SignOutFails
<1>13. CASE CancelAndClear  BY <1>13, ClearInv
<1>14. CASE LeaveForLogin
  BY <1>14, LoadInv DEF LeaveForLogin, ShInv, ShTypeOK
<1>15. CASE UNCHANGED shVars  BY <1>15, KeptInv DEF shVars
<1> QED
  BY <1>1, <1>2, <1>3, <1>4, <1>5, <1>6, <1>7, <1>8, <1>9, <1>10, <1>11, <1>12, <1>13, <1>14,
     <1>15
     DEF ShNext

\* The invariant holds in every state.
LEMMA ShInvHolds == ShSpec => []ShInv
  BY InitShInv, NextShInv, PTL DEF ShSpec

\* What the tab holds belongs to the account it is signed in with, and nothing is left
\* once signing out has cleared the cache (handleLogout, withDemoFallback).
THEOREM DataStaysWithAccount == ShSpec => []DataOfTheSession
<1>1. ShInv => DataOfTheSession  BY DEF ShInv
<1> QED  BY <1>1, ShInvHolds, PTL

\* An answer read before a write of a queue page does not pass for fresh after it.
THEOREM WritesReachTheList == ShSpec => []WritesAreShown
<1>1. ShInv => WritesAreShown  BY DEF ShInv
<1> QED  BY <1>1, ShInvHolds, PTL

\* What the shell puts on a route is asked for there, and the failure of what the panel
\* shows is said in its place.  The coordinator's overview is the exception: its panel
\* lists the projects, while routeError watches the operations queries.
THEOREM RoutesAreServed ==
  ASSUME NEW path \in Seq(STRING)
  PROVE  /\ ~OwnPage(path) => Panel(path) \cup Tiles(path) \subseteq ShellQueries(path)
         /\ path # <<"ops">> => Panel(path) \subseteq Watched(path)
<1>1. Root(path) \in {"student", "lead", "ops", "admin", "university", "client"}
  BY DEF Root
<1>2. ~OwnPage(path) => path \notin IsolatedRoutes  BY DEF OwnPage
<1>3. RoleRecords(path) \subseteq ShellQueries(path)
  BY DEF RoleRecords, ShellQueries
<1>4. ~OwnPage(path) /\ Root(path) # "university" => RecordsPanel(path) \subseteq ShellQueries(path)
  BY <1>2, <1>3 DEF RecordsPanel, ShellQueries
<1>5. ~OwnPage(path) => Panel(path) \subseteq ShellQueries(path)
  BY <1>2, <1>4 DEF Panel, ShellQueries
<1>6. ~OwnPage(path) => Tiles(path) \subseteq ShellQueries(path)
  BY <1>1, <1>2 DEF Tiles, ShellQueries
<1>7. path # <<"ops">> => Panel(path) \subseteq Watched(path)
  BY DEF Panel, Watched
<1> QED  BY <1>5, <1>6, <1>7

\* The primary action of a page leads into the workspace the role lands in, whichever
\* address the page was opened under, and the action of a project's page that asks for
\* an approval asks somebody whom RULES lets move the project on.
THEOREM ActionsLeadOn ==
  ASSUME NEW role, NEW path
  PROVE  /\ \A href \in PageAction(path, Capabilities(role)) : href[1] = Destination(role)[1]
         /\ \A state \in States : \A a \in ProjectAction(path, Capabilities(role), state) :
              a.intent = "approve" => \E e \in Forward : e.from = state /\ role \in e.roles
<1> DEFINE can == Capabilities(role)
<1>1. /\ "projects:create" \in can => role = "client_owner"
      /\ "projects:approve" \in can => role = "client_owner"
      /\ "learning:participate" \in can => role = "student"
      /\ "opportunities:view" \in can => role = "student"
      /\ "plans:review" \in can => role = "technical_lead"
      /\ "approvals:decide" \in can => role = "coordinator"
      /\ "jobs:retry" \in can => role = "platform_admin"
      /\ "university:aggregate:view" \in can => role = "university_viewer"
  BY DEF Capabilities
<1>2. /\ Destination("client_owner")[1] = "client"
      /\ Destination("student")[1] = "student"
      /\ Destination("technical_lead")[1] = "lead"
      /\ Destination("coordinator")[1] = "ops"
      /\ Destination("platform_admin")[1] = "admin"
      /\ Destination("university_viewer")[1] = "university"
  BY DEF Destination
<1> HIDE DEF can
<1>3. ASSUME NEW href \in PageAction(path, can) PROVE href[1] = Destination(role)[1]
  BY <1>1, <1>2 DEF PageAction
<1>4. ASSUME NEW state \in States, NEW a \in ProjectAction(path, can, state),
             a.intent = "approve"
      PROVE  \E e \in Forward : e.from = state /\ role \in e.roles
  <2>1. /\ a \in ProjectActions /\ a.state = state /\ a.needs \in can
    BY DEF ProjectAction
  <2>2. a.needs = "projects:approve"
        /\ state \in {"AWAITING_CLIENT_SCOPE_APPROVAL", "CLIENT_REVIEW"}
    BY <2>1, <1>4 DEF ProjectActions
  <2>3. role = "client_owner"  BY <1>1, <2>1, <2>2
  <2>4. /\ Edge("AWAITING_CLIENT_SCOPE_APPROVAL", "AWAITING_DEPOSIT", {"client_owner"}) \in Forward
        /\ Edge("CLIENT_REVIEW", "ACCEPTED", {"client_owner"}) \in Forward
    BY DEF Forward
  <2> QED  BY <2>2, <2>3, <2>4 DEF Edge
<1> QED  BY <1>3, <1>4 DEF can

----------------------------------------------------------------------------
(* The proxy. *)

\* The API hears of a request only after the proxy has built it for a target it
\* accepts and, in the hosted environments, has put its own token on it.
ForwardedProperly ==
  /\ gwForward.headers \cap UntrustedRouting = {}
  /\ gwConfig.env \in Hosted => gwForward.scheme = "https" /\ gwForward.token = "ours"
GwInv ==
  /\ AnswersAreTrue
  /\ gwCall \in {"idle", "received", "built"} => gwUpstream = "untouched"
  /\ gwCall \in {"idle", "received", "built", "forwarded"} => gwAnswer = NoReply
  /\ gwCall = "built" =>
       /\ gwForward.headers \cap UntrustedRouting = {}
       /\ gwForward = [headers |-> gwForward.headers, token |-> "none", scheme |-> gwConfig.base]
       /\ TargetValid(gwConfig)
  /\ gwCall = "forwarded" => ForwardedProperly

\* A request that is built carries no routing header of the browser.
LEMMA NothingUntrusted ==
  ASSUME NEW headers PROVE ForwardHeaders(headers) \cap UntrustedRouting = {}
  BY DEF ForwardHeaders, UntrustedRouting

\* Every step of the gateway.
LEMMA NextGwInv == ASSUME GwInv, [GwNext]_gwVars PROVE GwInv'
<1> USE DEF GwInv, AnswersAreTrue, ForwardedProperly, NoReply
<1>1. CASE SendQuery  BY <1>1 DEF SendQuery
<1>2. CASE RejectUnconfigured \/ RejectMisconfigured
  BY <1>2 DEF RejectUnconfigured, RejectMisconfigured, Reply
<1>3. CASE BuildRequest  BY <1>3, NothingUntrusted DEF BuildRequest
<1>4. CASE AddToken  BY <1>4 DEF AddToken, TargetValid
<1>5. ASSUME NEW timedOut, FailedWith(timedOut), gwCall \in {"built", "forwarded"} PROVE GwInv'
  BY <1>5 DEF FailedWith, Reply
<1>6. CASE TokenFails \/ ConnectionFails \/ TimesOut \/ AbortForwarded
  BY <1>5, <1>6 DEF TokenFails, ConnectionFails, TimesOut, AbortForwarded
<1>7. CASE GiveUp \/ ApiReached \/ ApiHandles
  BY <1>7 DEF GiveUp, ApiReached, ApiHandles
<1>8. ASSUME NEW status \in ApiStatuses, ApiAnswers(status) PROVE GwInv'
  BY <1>8 DEF ApiAnswers, Reply
<1>9. CASE Settle  BY <1>9 DEF Settle
<1>10. CASE UNCHANGED gwVars  BY <1>10 DEF gwVars, TargetValid
<1> QED
  BY <1>1, <1>2, <1>3, <1>4, <1>6, <1>7, <1>8, <1>9, <1>10 DEF GwNext, GwSteps

\* The status a page is given says what became of its request (proxyRequest,
\* apiRequestHeaders): a configuration error never reached the API, an answer of the API
\* was handled by it, and a hosted API only ever sees HTTPS and the proxy's own token.
THEOREM AnswersStayTrue == GwSpec => []AnswersAreTrue
<1>1. GwInit => GwInv
  BY DEF GwInit, GwInv, AnswersAreTrue, NoReply
<1>2. GwInv => AnswersAreTrue  BY DEF GwInv
<1> QED  BY <1>1, <1>2, NextGwInv, PTL DEF GwSpec

----------------------------------------------------------------------------
(* The project page. *)

\* What a workspace, a request and a press consist of.
OffersMade == Seq({"OFFERED", "ACCEPTED", "DECLINED"})
Workspaces ==
  [state : States, version : Nat, scope : BOOLEAN, quote : BOOLEAN, staffing : BOOLEAN,
   offers : OffersMade,
   plan : {NoPlan, "PROPOSED", "APPROVED"}, funded : Nat, required : Nat]
MoveRequests ==
  [project : {"project"}, user : Tabs, target : Targets, expected : Nat, key : Nat,
   saw : States]
Phases == {"idle", "posted", "answered", "done", "failed"}
PressKinds ==
  [op : {"none", "scope", "quote", "staffing", "offer", "plan", "approve"},
   with : {Nothing}, phase : Phases]
MovePresses == [op : {"move"}, with : MoveRequests, phase : Phases]
FundPresses == [op : {"fund"}, with : Receipts, phase : Phases]
PressCalls == PressKinds \cup MovePresses \cup FundPresses

ConsoleTypeOK ==
  /\ project \in Workspaces
  /\ shown \in [Tabs -> Workspaces]
  /\ late \in [Tabs -> Workspaces]
  /\ call \in [Tabs -> PressCalls]
  /\ sent \subseteq MoveRequests
  /\ payments \in Seq(Receipts)
  /\ toRecord \subseteq Receipts

\* The requests are numbered in the order of the presses, and no number is used twice.
RequestsNumbered ==
  /\ IsFiniteSet(sent) /\ Presses <= MaxPresses
  /\ \A m \in sent : m.key \in 1..Presses
  /\ \A m, n \in sent : m.key = n.key => m = n

\* A press that waits for its answer has no row yet; one that was answered has its row.
RowKeys == {row.key : row \in transitions}
PressesKnown ==
  \A t \in Tabs : call[t].op = "move" =>
    /\ call[t].with \in sent /\ call[t].with.user = t
    /\ call[t].phase = "posted" => call[t].with.key \notin RowKeys
    /\ call[t].phase \in {"answered", "done"} => call[t].with.key \in RowKeys

\* One row for every version the project has left, each with a key of its own.
VersionsCounted ==
  /\ RowKeys \subseteq 1..Presses
  /\ Cardinality(RowKeys) = project.version - 1

\* What a tab shows, and an answer on its way, is the present of the project or its past.
Past(w) ==
  \/ w.state = project.state /\ w.version = project.version
  \/ \E row \in transitions :
       row.project = "project" /\ row.from = w.state /\ row.expected = w.version
PagesShowPast ==
  \A t \in Tabs : Past(shown[t]) /\ (late[t] # NoAnswer => Past(late[t]))

\* From the deposit on, the money is there.
FundedStates ==
  {"STAFFING", "AWAITING_STAFFING_APPROVAL", "AWAITING_STUDENT_ACCEPTANCE",
   "READY_TO_START", "ACTIVE"}
DepositHeld == project.state \in FundedStates => project.funded >= project.required

\* The ledger, the total on show and the receipts that were ticked off agree.
Ledger == {payments[n] : n \in 1..Len(payments)}
ReceiptsKnown ==
  /\ project.funded = Len(payments)
  /\ Receipts \ toRecord \subseteq Ledger
  /\ \A t \in Tabs : call[t].op = "fund" /\ call[t].phase = "answered" => call[t].with \in Ledger

ConsoleInv ==
  /\ ConsoleTypeOK
  /\ RequestsNumbered /\ PressesKnown /\ VersionsCounted
  /\ PagesShowPast /\ DepositHeld /\ ReceiptsKnown

\* The initial states.
LEMMA InitConsoleInv == ConsoleInit => ConsoleInv
<1> SUFFICES ASSUME ConsoleInit PROVE ConsoleInv  OBVIOUS
<1>1. Created0 \in Workspaces /\ NoAnswer \in Workspaces
  <2>1. <<>> \in OffersMade  BY DEF OffersMade
  <2>2. Created0 \in Workspaces
    BY <2>1 DEF Created0, Workspaces, Created, States, NoPlan
  <2> QED  BY <2>2 DEF NoAnswer, Workspaces
<1>2. NoCall \in PressCalls /\ NoCall.op = "none"
  BY DEF NoCall, PressCalls, PressKinds, Phases
<1>3. ConsoleTypeOK
  BY <1>1, <1>2 DEF ConsoleInit, ConsoleTypeOK
<1>4. IsFiniteSet({}) /\ Cardinality({}) = 0  BY FS_EmptySet
<1>5. RowKeys = {} /\ Created0.version = 1 /\ Created0.funded = 0 /\ Created0.state = "DRAFT"
  BY DEF RowKeys, ConsoleInit, Created0, Created
<1>6. RequestsNumbered /\ VersionsCounted
  BY <1>4, <1>5, ConsoleAssumption DEF RequestsNumbered, VersionsCounted, ConsoleInit, Presses
<1>7. PressesKnown /\ PagesShowPast /\ DepositHeld /\ ReceiptsKnown
  BY <1>2, <1>5 DEF ConsoleInit, PressesKnown, PagesShowPast, Past, DepositHeld, FundedStates,
              ReceiptsKnown, Ledger
<1> QED  BY <1>3, <1>6, <1>7 DEF ConsoleInv

\* The view of a role is a workspace with the project's state, version and money.
LEMMA ViewProperties ==
  ASSUME project \in Workspaces, NEW r
  PROVE  /\ ViewFor(r) \in Workspaces
         /\ ViewFor(r).state = project.state /\ ViewFor(r).version = project.version
         /\ ViewFor(r).funded = project.funded /\ ViewFor(r).required = project.required
         /\ ViewFor(r).plan = project.plan
<1>1. <<>> \in OffersMade  BY DEF OffersMade
<1> QED  BY <1>1 DEF ViewFor, Workspaces

\* The target of a button is one of the states the page asks for.
LEMMA MovesHaveTargets ==
  ASSUME NEW r, NEW w, NEW m \in Moves(r, w) PROVE m[1] \in Targets
  BY DEF Moves, Targets

\* A fresh request: the next number, and nothing else about the requests changes.
LEMMA NextNumber ==
  ASSUME RequestsNumbered, NEW m, m.key = Presses + 1
  PROVE  /\ IsFiniteSet(sent \cup {m}) /\ Presses \in Nat
         /\ Cardinality(sent \cup {m}) = Presses + 1 /\ m \notin sent
<1>1. IsFiniteSet(sent) /\ Presses \in Nat  BY FS_CardinalityType DEF RequestsNumbered, Presses
<1>2. m \notin sent  BY <1>1 DEF RequestsNumbered
<1> QED  BY <1>1, <1>2, FS_AddElement DEF Presses

\* A move is pressed, among those on offer.
LEMMA PressMoveInv ==
  ASSUME ConsoleInv, NEW t \in Tabs, NEW target \in Targets, PressMove(t, target)
  PROVE  ConsoleInv'
<1> DEFINE m == [project |-> "project", user |-> t, target |-> target,
                 expected |-> shown[t].version, key |-> Presses + 1, saw |-> shown[t].state]
<1>1. /\ sent' = sent \cup {m} /\ Presses + 1 <= MaxPresses /\ ~Locked(t)
      /\ call' = [call EXCEPT ![t] = [op |-> "move", with |-> m, phase |-> "posted"]]
      /\ UNCHANGED <<project, transitions, payments, shown, late, toRecord>>
  BY DEF PressMove, Post, server
<1>2. /\ Presses \in Nat /\ m.key = Presses + 1 /\ m.user = t
      /\ shown[t].version \in Nat /\ shown[t].state \in States
  BY FS_CardinalityType DEF ConsoleInv, RequestsNumbered, Presses, ConsoleTypeOK, Workspaces
<1>3. m \in MoveRequests  BY <1>2 DEF MoveRequests
<1> HIDE DEF m
<1>4. /\ IsFiniteSet(sent') /\ Presses' = Presses + 1 /\ m \notin sent
  BY <1>1, <1>2, NextNumber DEF ConsoleInv, Presses
<1>5. RequestsNumbered'
  BY <1>1, <1>2, <1>4, ConsoleAssumption DEF ConsoleInv, RequestsNumbered
<1>6. [op |-> "move", with |-> m, phase |-> "posted"] \in PressCalls
  BY <1>3 DEF PressCalls, MovePresses, Phases
<1>7. ConsoleTypeOK'
  BY <1>1, <1>3, <1>6 DEF ConsoleInv, ConsoleTypeOK
<1>8. RowKeys' = RowKeys  BY <1>1 DEF RowKeys
<1>9. VersionsCounted'  BY <1>1, <1>2, <1>4, <1>8 DEF ConsoleInv, VersionsCounted
<1>10. m.key \notin RowKeys
  BY <1>2 DEF ConsoleInv, VersionsCounted, RowKeys
<1>11. /\ call'[t].op = "move" /\ call'[t].with = m /\ call'[t].phase = "posted"
       /\ \A u \in Tabs : u # t => call'[u] = call[u]
  BY <1>1 DEF ConsoleInv, ConsoleTypeOK
<1>12. PressesKnown'
  BY <1>1, <1>2, <1>10, <1>11 DEF ConsoleInv, PressesKnown, RowKeys
<1>13. ReceiptsKnown'
  BY <1>1, <1>11 DEF ConsoleInv, ReceiptsKnown, Ledger
<1>14. PagesShowPast' /\ DepositHeld'
  BY <1>1 DEF ConsoleInv, PagesShowPast, Past, DepositHeld
<1> QED  BY <1>5, <1>7, <1>9, <1>12, <1>13, <1>14 DEF ConsoleInv

\* A press of another kind, a refusal, a refresh that failed, a page opened anew: what a
\* tab's press is about, and nothing of the server.
LEMMA CallInv ==
  ASSUME ConsoleInv, NEW t \in Tabs, NEW c \in PressCalls, call' = [call EXCEPT ![t] = c],
         \/ c.op # "move" /\ (c.op = "fund" => c.phase # "answered")
         \/ c.op = call[t].op /\ c.with = call[t].with /\ c.phase = "failed",
         UNCHANGED <<project, transitions, payments, sent, toRecord>>,
         shown' \in [Tabs -> Workspaces], late' \in [Tabs -> Workspaces],
         \A u \in Tabs : Past(shown'[u]) /\ (late'[u] # NoAnswer => Past(late'[u]))
  PROVE  ConsoleInv'
<1>1. call'[t] = c /\ \A u \in Tabs : u # t => call'[u] = call[u]
  BY DEF ConsoleInv, ConsoleTypeOK
<1>2. ConsoleTypeOK'  BY DEF ConsoleInv, ConsoleTypeOK
<1>3. RequestsNumbered' /\ VersionsCounted' /\ DepositHeld'
  BY DEF ConsoleInv, RequestsNumbered, Presses, VersionsCounted, RowKeys, DepositHeld
<1>4. PressesKnown'  BY <1>1 DEF ConsoleInv, PressesKnown, RowKeys
<1>5. ReceiptsKnown'  BY <1>1 DEF ConsoleInv, ReceiptsKnown, Ledger
<1>6. PagesShowPast'  BY DEF PagesShowPast, Past
<1> QED  BY <1>2, <1>3, <1>4, <1>5, <1>6 DEF ConsoleInv

\* A call that failed.
LEMMA FailedInv ==
  ASSUME ConsoleInv, NEW t \in Tabs, Answered(t, "failed"),
         UNCHANGED <<project, transitions, payments, shown, late, sent, toRecord>>
  PROVE  ConsoleInv'
<1> DEFINE c == [call[t] EXCEPT !.phase = "failed"]
<1>1. call[t] \in PressCalls  BY DEF ConsoleInv, ConsoleTypeOK
<1>2. /\ c \in PressCalls /\ c.op = call[t].op /\ c.with = call[t].with /\ c.phase = "failed"
      /\ call' = [call EXCEPT ![t] = c]
  BY <1>1 DEF Answered, PressCalls, PressKinds, MovePresses, FundPresses, Phases
<1> HIDE DEF c
<1>3. shown' \in [Tabs -> Workspaces] /\ late' \in [Tabs -> Workspaces]
  BY DEF ConsoleInv, ConsoleTypeOK
<1>4. \A u \in Tabs : Past(shown'[u]) /\ (late'[u] # NoAnswer => Past(late'[u]))
  BY DEF ConsoleInv, PagesShowPast
<1> QED  BY <1>2, <1>3, <1>4, CallInv

\* A recipient who answers an offer on a page of their own changes nothing a tab is owed.
LEMMA OfferAnsweredInv ==
  ASSUME ConsoleInv, project' \in Workspaces, project'.state = project.state,
         project'.version = project.version, project'.funded = project.funded,
         project.state \in FundedStates => project'.required = project.required,
         UNCHANGED <<transitions, payments, shown, late, call, sent, toRecord>>
  PROVE  ConsoleInv'
<1>1. ConsoleTypeOK'  BY DEF ConsoleInv, ConsoleTypeOK
<1>2. PressesKnown' /\ ReceiptsKnown'
  BY DEF ConsoleInv, PressesKnown, RowKeys, ReceiptsKnown, Ledger
<1>3. RequestsNumbered' /\ VersionsCounted' /\ DepositHeld' /\ PagesShowPast'
  BY DEF ConsoleInv, RequestsNumbered, Presses, VersionsCounted, RowKeys, DepositHeld,
         PagesShowPast, Past
<1> QED  BY <1>1, <1>2, <1>3 DEF ConsoleInv

\* A handler that adds evidence other than money, whatever becomes of its answer.
LEMMA EvidenceInv ==
  ASSUME ConsoleInv, NEW t \in Tabs, NEW phase \in Phases,
         call' = [call EXCEPT ![t].phase = phase], call[t].op \notin {"move", "fund"},
         project' \in Workspaces, project'.state = project.state,
         project'.version = project.version, project'.funded = project.funded,
         project.state \in FundedStates => project'.required = project.required,
         UNCHANGED <<transitions, payments, shown, late, sent, toRecord>>
  PROVE  ConsoleInv'
<1> DEFINE c == [call[t] EXCEPT !.phase = phase]
<1>1. call[t] \in PressCalls  BY DEF ConsoleInv, ConsoleTypeOK
<1>2. /\ c.op = call[t].op /\ c.with = call[t].with /\ c \in PressCalls
      /\ call' = [call EXCEPT ![t] = c]
  BY <1>1 DEF PressCalls, PressKinds, MovePresses, FundPresses
<1> HIDE DEF c
<1>3. call'[t] = c /\ \A u \in Tabs : u # t => call'[u] = call[u]
  BY <1>2 DEF ConsoleInv, ConsoleTypeOK
<1>4. ConsoleTypeOK'  BY <1>2 DEF ConsoleInv, ConsoleTypeOK
<1>5. PressesKnown'  BY <1>2, <1>3 DEF ConsoleInv, PressesKnown, RowKeys
<1>6. ReceiptsKnown'  BY <1>2, <1>3 DEF ConsoleInv, ReceiptsKnown, Ledger
<1>7. RequestsNumbered' /\ VersionsCounted' /\ DepositHeld' /\ PagesShowPast'
  BY DEF ConsoleInv, RequestsNumbered, Presses, VersionsCounted, RowKeys, DepositHeld,
         PagesShowPast, Past
<1> QED  BY <1>4, <1>5, <1>6, <1>7 DEF ConsoleInv

\* Money that is recorded lengthens the ledger and the total alike.
LEMMA FundingCommitInv ==
  ASSUME ConsoleInv, NEW t \in Tabs, CommitFunding(t) PROVE ConsoleInv'
<1>1. /\ call[t].op = "fund" /\ project.state = "AWAITING_DEPOSIT"
      /\ project' = [project EXCEPT !.funded = @ + 1]
      /\ payments' = Append(payments, call[t].with)
      /\ UNCHANGED <<transitions, shown, late, sent, toRecord>>
  BY DEF CommitFunding, CommitEvidence, Posted
<1>2. PICK phase \in {"answered", "failed"} : call' = [call EXCEPT ![t].phase = phase]
  BY DEF CommitFunding, CommitEvidence, Committed, Answered
<1>3. call[t] \in FundPresses /\ call[t].with \in Receipts
  BY <1>1 DEF ConsoleInv, ConsoleTypeOK, PressCalls, PressKinds, MovePresses, FundPresses
<1> DEFINE c == [call[t] EXCEPT !.phase = phase]
<1>4. c \in PressCalls /\ c.op = "fund" /\ c.with = call[t].with /\ call' = [call EXCEPT ![t] = c]
  BY <1>2, <1>3 DEF PressCalls, FundPresses, Phases
<1> HIDE DEF c
<1>5. call'[t] = c /\ \A u \in Tabs : u # t => call'[u] = call[u]
  BY <1>4 DEF ConsoleInv, ConsoleTypeOK
<1>6. /\ project' \in Workspaces /\ project'.state = project.state
      /\ project'.version = project.version /\ project'.funded = project.funded + 1
      /\ project'.required = project.required
  <2>1. project \in Workspaces  BY DEF ConsoleInv, ConsoleTypeOK
  <2>2. project.funded \in Nat /\ project.funded + 1 \in Nat  BY <2>1 DEF Workspaces
  <2> QED  BY <1>1, <2>1, <2>2 DEF Workspaces
<1>7. /\ payments' \in Seq(Receipts) /\ Len(payments') = Len(payments) + 1
      /\ \A n \in 1..Len(payments) : payments'[n] = payments[n]
      /\ payments'[Len(payments')] = call[t].with
      /\ Len(payments) \in Nat
  BY <1>1, <1>3 DEF ConsoleInv, ConsoleTypeOK
<1>8. Ledger \subseteq Ledger' /\ call[t].with \in Ledger'
  BY <1>7 DEF Ledger
<1>9. ConsoleTypeOK'  BY <1>1, <1>4, <1>6, <1>7 DEF ConsoleInv, ConsoleTypeOK
<1>10. PressesKnown'  BY <1>1, <1>4, <1>5 DEF ConsoleInv, PressesKnown, RowKeys
<1>11. ReceiptsKnown'
  <2>1. Receipts \ toRecord' \subseteq Ledger' /\ project'.funded = Len(payments')
    BY <1>1, <1>6, <1>7, <1>8 DEF ConsoleInv, ReceiptsKnown
  <2>2. \A u \in Tabs :
          call'[u].op = "fund" /\ call'[u].phase = "answered" => call'[u].with \in Ledger'
    BY <1>4, <1>5, <1>8 DEF ConsoleInv, ReceiptsKnown
  <2>3. (\A u \in Tabs :
          call[u].op = "fund" /\ call[u].phase = "answered" => call[u].with \in Ledger)'
    BY <2>2
  <2> QED  BY <2>1, <2>3 DEF ReceiptsKnown
<1>12. RequestsNumbered' /\ VersionsCounted' /\ PagesShowPast'
  BY <1>1, <1>6
     DEF ConsoleInv, RequestsNumbered, Presses, VersionsCounted, RowKeys, PagesShowPast, Past
<1>13. DepositHeld'  BY <1>1, <1>6 DEF DepositHeld, FundedStates
<1> QED  BY <1>9, <1>10, <1>11, <1>12, <1>13 DEF ConsoleInv

\* The states from the deposit on are entered with the money, or from one another.
LEMMA FundedStatesEntered ==
  ASSUME NEW role, NEW from, NEW to \in Targets, NEW funded, NEW required,
         Allowed(role, from, to), FundingConfirmed(to, funded, required), to \in FundedStates
  PROVE  from \in FundedStates \/ funded >= required
<1>1. CASE to \in FundingGated  BY <1>1 DEF FundingConfirmed
<1>2. CASE to \in {"AWAITING_STAFFING_APPROVAL", "AWAITING_STUDENT_ACCEPTANCE"}
  <2>1. PICK rule \in RULES : rule.from = from /\ rule.to = to  BY DEF Allowed
  <2>2. rule \in Forward
    BY <1>2, <2>1 DEF RULES, Exits, Edge
  <2> QED  BY <1>2, <2>1, <2>2 DEF Forward, Edge, FundedStates
<1> QED  BY <1>1, <1>2 DEF FundedStates, FundingGated

\* The API commits the move of a tab.
LEMMA MoveCommitInv ==
  ASSUME ConsoleInv, NEW t \in Tabs, CommitMove(t)
  PROVE  ConsoleInv' /\ project.version < MaxPresses + 1
<1> DEFINE m == call[t].with
           row == [project |-> m.project, actor |-> t, from |-> project.state, to |-> m.target,
                   expected |-> m.expected, key |-> m.key]
<1>1. /\ call[t].op = "move" /\ call[t].phase = "posted"
      /\ project.version = m.expected /\ Allowed(TabRole[t], project.state, m.target)
      /\ FundingConfirmed(m.target, project.funded, project.required)
      /\ project' = [project EXCEPT !.state = m.target, !.version = @ + 1]
      /\ transitions' = transitions \cup {row}
      /\ UNCHANGED <<payments, shown, late, sent, toRecord>>
  BY DEF CommitMove, Posted
<1>2. PICK phase \in {"answered", "failed"} : call' = [call EXCEPT ![t].phase = phase]
  BY DEF CommitMove, Committed, Answered
<1>3. call[t] \in MovePresses
  BY <1>1 DEF ConsoleInv, ConsoleTypeOK, PressCalls, PressKinds, MovePresses, FundPresses
<1>4. m \in sent /\ m.user = t /\ m \in MoveRequests /\ m.key \notin RowKeys
  BY <1>1, <1>3 DEF ConsoleInv, PressesKnown, MovePresses
<1>5. m.key \in 1..Presses /\ Presses \in Nat /\ m.project = "project" /\ m.target \in Targets
      /\ Presses <= MaxPresses
  BY <1>4, FS_CardinalityType DEF ConsoleInv, RequestsNumbered, MoveRequests, Presses
<1> DEFINE c == [call[t] EXCEPT !.phase = phase]
<1>6. /\ c \in PressCalls /\ c.op = "move" /\ c.with = m /\ c.phase = phase
      /\ call' = [call EXCEPT ![t] = c]
  BY <1>1, <1>2, <1>3 DEF PressCalls, MovePresses, Phases
<1>7. /\ row.key = m.key /\ row.from = project.state /\ row.expected = project.version
      /\ row.project = "project"
  BY <1>1, <1>5
<1> HIDE DEF c, m, row
<1>8. call'[t] = c /\ \A u \in Tabs : u # t => call'[u] = call[u]
  BY <1>6 DEF ConsoleInv, ConsoleTypeOK
<1>9. /\ project' \in Workspaces /\ project'.state = m.target
      /\ project'.version = project.version + 1 /\ project'.funded = project.funded
      /\ project'.required = project.required
  <2>1. project \in Workspaces  BY DEF ConsoleInv, ConsoleTypeOK
  <2>2. project.version \in Nat /\ project.version + 1 \in Nat  BY <2>1 DEF Workspaces
  <2>3. m.target \in States  BY <1>5 DEF Targets, States
  <2> QED  BY <1>1, <2>1, <2>2, <2>3 DEF Workspaces
<1>10. ConsoleTypeOK'  BY <1>1, <1>6, <1>9 DEF ConsoleInv, ConsoleTypeOK
<1>11. RequestsNumbered'  BY <1>1 DEF ConsoleInv, RequestsNumbered, Presses
<1>12. RowKeys' = RowKeys \cup {m.key} /\ m.key \notin RowKeys
  BY <1>1, <1>4, <1>7 DEF RowKeys
<1>13. RowKeys \subseteq 1..Presses /\ IsFiniteSet(1..Presses) /\ Cardinality(1..Presses) = Presses
  BY <1>5, FS_Interval DEF ConsoleInv, VersionsCounted
<1>14. IsFiniteSet(RowKeys) /\ IsFiniteSet(RowKeys') /\ Cardinality(RowKeys') = project.version
       /\ Cardinality(RowKeys) \in Nat /\ project.version \in Nat
  <2>1. IsFiniteSet(RowKeys)  BY <1>13, FS_Subset
  <2>2. Cardinality(RowKeys) \in Nat  BY <2>1, FS_CardinalityType
  <2>3. project.version \in Nat  BY DEF ConsoleInv, ConsoleTypeOK, Workspaces
  <2>4. IsFiniteSet(RowKeys') /\ Cardinality(RowKeys') = Cardinality(RowKeys) + 1
    BY <2>1, <1>12, FS_AddElement
  <2> QED  BY <2>1, <2>2, <2>3, <2>4 DEF ConsoleInv, VersionsCounted
<1>15. VersionsCounted'
  <2>1. RowKeys' \subseteq 1..Presses'  BY <1>1, <1>5, <1>12, <1>13 DEF Presses
  <2>2. Cardinality(RowKeys)' = project'.version - 1  BY <1>9, <1>14
  <2> QED  BY <2>1, <2>2 DEF VersionsCounted
<1>16. project.version < MaxPresses + 1
  <2>1. RowKeys' \subseteq 1..Presses  BY <1>5, <1>12, <1>13
  <2>2. Cardinality(RowKeys') <= Presses  BY ZenonT(60), <2>1, <1>13, FS_Subset
  <2> QED  BY <1>5, <1>14, <2>2, ConsoleAssumption
<1>17. PressesKnown'
  <2>1. ASSUME NEW u \in Tabs, u # t, call[u].op = "move"
        PROVE  call[u].with.key # m.key
    <3>1. call[u].with \in sent /\ call[u].with.user = u  BY <2>1 DEF ConsoleInv, PressesKnown
    <3> QED  BY <1>4, <2>1, <3>1 DEF ConsoleInv, RequestsNumbered
  <2>2. RowKeys' = RowKeys \cup {m.key} /\ phase # "posted"  BY <1>2, <1>12
  <2>3. ASSUME NEW u \in Tabs, call'[u].op = "move"
        PROVE  /\ call'[u].with \in sent /\ call'[u].with.user = u
               /\ call'[u].phase = "posted" => call'[u].with.key \notin RowKeys'
               /\ call'[u].phase \in {"answered", "done"} => call'[u].with.key \in RowKeys'
    <3>1. CASE u = t  BY <3>1, <1>4, <1>6, <1>8, <2>2
    <3>2. CASE u # t
      <4>1. call'[u] = call[u] /\ call[u].with.key # m.key  BY <3>2, <1>8, <2>1, <2>3
      <4> QED  BY <2>2, <2>3, <4>1 DEF ConsoleInv, PressesKnown
    <3> QED  BY <3>1, <3>2
  <2> QED  BY <1>1, <2>3 DEF PressesKnown
<1>18. PagesShowPast'
  <2>1. \A w : Past(w) => Past(w)'
    BY <1>1, <1>7 DEF Past
  <2> QED  BY <1>1, <2>1 DEF ConsoleInv, PagesShowPast
<1>19. DepositHeld'
  BY <1>1, <1>5, <1>9, FundedStatesEntered DEF ConsoleInv, DepositHeld
<1>20. ReceiptsKnown'
  BY <1>1, <1>6, <1>8, <1>9 DEF ConsoleInv, ReceiptsKnown, Ledger
<1> QED  BY <1>10, <1>11, <1>15, <1>16, <1>17, <1>18, <1>19, <1>20 DEF ConsoleInv

\* After a 2xx: the page shows the present, and the receipt it recorded is ticked off.
LEMMA RefreshInv == ASSUME ConsoleInv, NEW t \in Tabs, Refresh(t) PROVE ConsoleInv'
<1> DEFINE c == [call[t] EXCEPT !.phase = "done"]
<1>1. call[t] \in PressCalls /\ call[t].phase = "answered"
  BY DEF ConsoleInv, ConsoleTypeOK, Refresh
<1>2. /\ c \in PressCalls /\ c.op = call[t].op /\ c.with = call[t].with /\ c.phase = "done"
      /\ call' = [call EXCEPT ![t] = c]
  BY <1>1 DEF Refresh, Answered, PressCalls, PressKinds, MovePresses, FundPresses, Phases
<1> HIDE DEF c
<1>3. call'[t] = c /\ \A u \in Tabs : u # t => call'[u] = call[u]
  BY <1>2 DEF ConsoleInv, ConsoleTypeOK
<1>4. /\ shown' = [shown EXCEPT ![t] = ViewFor(TabRole[t])]
      /\ toRecord' = IF call[t].op = "fund" THEN toRecord \ {call[t].with} ELSE toRecord
      /\ UNCHANGED <<project, transitions, payments, late, sent>>
  BY DEF Refresh, server
<1>5. Past(ViewFor(TabRole[t])) /\ ViewFor(TabRole[t]) \in Workspaces
  BY ViewProperties DEF ConsoleInv, ConsoleTypeOK, Past
<1>6. ConsoleTypeOK'  BY <1>2, <1>4, <1>5 DEF ConsoleInv, ConsoleTypeOK
<1>7. RequestsNumbered' /\ VersionsCounted' /\ DepositHeld'
  BY <1>4 DEF ConsoleInv, RequestsNumbered, Presses, VersionsCounted, RowKeys, DepositHeld
<1>8. PagesShowPast'
  <2>1. \A u \in Tabs : Past(shown'[u]) /\ (late[u] # NoAnswer => Past(late[u]))
    BY <1>4, <1>5 DEF ConsoleInv, ConsoleTypeOK, PagesShowPast
  <2> QED  BY <1>4, <2>1 DEF PagesShowPast, Past
<1>9. PressesKnown'  BY <1>1, <1>2, <1>3, <1>4 DEF ConsoleInv, PressesKnown, RowKeys
<1>10. ReceiptsKnown'
  BY <1>1, <1>2, <1>3, <1>4 DEF ConsoleInv, ReceiptsKnown, Ledger
<1> QED  BY <1>6, <1>7, <1>8, <1>9, <1>10 DEF ConsoleInv

\* Whatever is pressed.
LEMMA PressInv == ASSUME ConsoleInv, NEW t \in Tabs, Press(t) PROVE ConsoleInv'
<1>1. ASSUME NEW m \in Moves(TabRole[t], shown[t]), PressMove(t, m[1]) PROVE ConsoleInv'
  BY <1>1, MovesHaveTargets, PressMoveInv
<1>2. ASSUME NEW op, NEW with, Post(t, op, with), UNCHANGED sent,
             \/ op \in {"scope", "quote", "staffing", "offer", "plan", "approve"} /\ with = Nothing
             \/ op = "fund" /\ with \in Receipts
      PROVE  ConsoleInv'
  <2> DEFINE c == [op |-> op, with |-> with, phase |-> "posted"]
  <2>1. c \in PressCalls
    BY <1>2 DEF PressCalls, PressKinds, FundPresses, Phases
  <2>2. c.op # "move" /\ c.phase # "answered"  BY <1>2
  <2>3. call' = [call EXCEPT ![t] = c]
        /\ UNCHANGED <<project, transitions, payments, shown, late, sent, toRecord>>
    BY <1>2 DEF Post, server
  <2> HIDE DEF c
  <2>4. shown' \in [Tabs -> Workspaces] /\ late' \in [Tabs -> Workspaces]
    BY <2>3 DEF ConsoleInv, ConsoleTypeOK
  <2>5. \A u \in Tabs : Past(shown'[u]) /\ (late'[u] # NoAnswer => Past(late'[u]))
    BY <2>3 DEF ConsoleInv, PagesShowPast
  <2> QED  BY <2>1, <2>2, <2>3, <2>4, <2>5, CallInv
<1>3. toRecord \subseteq Receipts  BY DEF ConsoleInv, ConsoleTypeOK
<1>4. CASE GenerateScope(t)  BY <1>2, <1>4 DEF GenerateScope
<1>5. CASE CreateQuote(t)  BY <1>2, <1>5 DEF CreateQuote
<1>6. ASSUME NEW receipt \in toRecord, RecordExternalFunding(t, receipt) PROVE ConsoleInv'
  BY <1>2, <1>3, <1>6 DEF RecordExternalFunding
<1>7. CASE RunStaffingMatch(t)  BY <1>2, <1>7 DEF RunStaffingMatch
<1>8. CASE CreateAssignmentOffer(t)  BY <1>2, <1>8 DEF CreateAssignmentOffer
<1>9. CASE RunPlanProposal(t)  BY <1>2, <1>9 DEF RunPlanProposal
<1>10. CASE ApprovePlan(t)  BY <1>2, <1>10 DEF ApprovePlan
<1> QED
  BY <1>1, <1>4, <1>5, <1>6, <1>7, <1>8, <1>9, <1>10, Zenon DEF Press

\* Whatever the API does for a tab.
LEMMA ServeInv == ASSUME ConsoleInv, NEW t \in Tabs, Serve(t) PROVE ConsoleInv'
<1> USE DEF ConsoleInv, ConsoleTypeOK
<1>1. ASSUME NEW op, NEW from, NEW w, CommitEvidence(t, op, from, w), UNCHANGED payments,
             op \notin {"move", "fund"}, w \in Workspaces, w.state = project.state,
             w.version = project.version, w.funded = project.funded,
             from \in FundedStates => w.required = project.required
      PROVE  ConsoleInv'
  <2>1. PICK phase \in {"answered", "failed"} : call' = [call EXCEPT ![t].phase = phase]
    BY <1>1 DEF CommitEvidence, Committed, Answered
  <2>2. project' = w /\ call[t].op = op /\ project.state = from
        /\ UNCHANGED <<transitions, payments, shown, late, sent, toRecord>>
    BY <1>1 DEF CommitEvidence, Posted
  <2>3. phase \in Phases  BY DEF Phases
  <2> QED  BY <1>1, <2>1, <2>2, <2>3, EvidenceInv
<1>2. project \in Workspaces  OBVIOUS
<1>3. CASE CommitScope(t)
  <2> DEFINE w == [project EXCEPT !.scope = TRUE]
  <2>1. w \in Workspaces /\ w.state = project.state /\ w.version = project.version
        /\ w.funded = project.funded /\ w.required = project.required
    BY <1>2 DEF Workspaces
  <2>2. CommitEvidence(t, "scope", "SCOPING", w) /\ UNCHANGED payments
    BY <1>3 DEF CommitScope
  <2> HIDE DEF w
  <2> QED  BY <1>1, <2>1, <2>2
<1>4. CASE CommitQuote(t)
  <2> DEFINE w == [project EXCEPT !.quote = TRUE, !.required = Deposit]
  <2>1. w \in Workspaces /\ w.state = project.state /\ w.version = project.version
        /\ w.funded = project.funded
    BY <1>2, ConsoleAssumption DEF Workspaces
  <2>2. CommitEvidence(t, "quote", "AWAITING_COORDINATOR_SCOPE_APPROVAL", w)
        /\ UNCHANGED payments
    BY <1>4 DEF CommitQuote
  <2> HIDE DEF w
  <2>3. "AWAITING_COORDINATOR_SCOPE_APPROVAL" \notin FundedStates  BY DEF FundedStates
  <2> QED  BY <1>1, <2>1, <2>2, <2>3
<1>5. CASE CommitFunding(t)  BY <1>5, FundingCommitInv
<1>6. CASE CommitStaffing(t)
  <2> DEFINE w == [project EXCEPT !.staffing = TRUE]
  <2>1. w \in Workspaces /\ w.state = project.state /\ w.version = project.version
        /\ w.funded = project.funded /\ w.required = project.required
    BY <1>2 DEF Workspaces
  <2>2. CommitEvidence(t, "staffing", "STAFFING", w) /\ UNCHANGED payments
    BY <1>6 DEF CommitStaffing
  <2> HIDE DEF w
  <2> QED  BY <1>1, <2>1, <2>2
<1>7. CASE CommitOffer(t)
  <2> DEFINE w == [project EXCEPT !.offers = Append(@, "OFFERED")]
  <2>1. Append(project.offers, "OFFERED") \in OffersMade
    BY <1>2 DEF Workspaces, OffersMade
  <2>2. w \in Workspaces /\ w.state = project.state /\ w.version = project.version
        /\ w.funded = project.funded /\ w.required = project.required
    BY <1>2, <2>1 DEF Workspaces
  <2>3. CommitEvidence(t, "offer", "AWAITING_STUDENT_ACCEPTANCE", w) /\ UNCHANGED payments
    BY <1>7 DEF CommitOffer
  <2> HIDE DEF w
  <2> QED  BY <1>1, <2>2, <2>3
<1>8. CASE CommitPlan(t)
  <2> DEFINE w == [project EXCEPT !.plan = IF @ = NoPlan THEN "PROPOSED" ELSE @]
  <2>1. w \in Workspaces /\ w.state = project.state /\ w.version = project.version
        /\ w.funded = project.funded /\ w.required = project.required
    BY <1>2 DEF Workspaces
  <2>2. CommitEvidence(t, "plan", "READY_TO_START", w) /\ UNCHANGED payments
    BY <1>8 DEF CommitPlan
  <2> HIDE DEF w
  <2> QED  BY <1>1, <2>1, <2>2
<1>9. CASE CommitApproval(t)
  <2> DEFINE w == [project EXCEPT !.plan = "APPROVED"]
  <2>1. w \in Workspaces /\ w.state = project.state /\ w.version = project.version
        /\ w.funded = project.funded /\ w.required = project.required
    BY <1>2 DEF Workspaces
  <2>2. CommitEvidence(t, "approve", "READY_TO_START", w) /\ UNCHANGED payments
    BY <1>9 DEF CommitApproval
  <2> HIDE DEF w
  <2> QED  BY <1>1, <2>1, <2>2
<1>10. CASE CommitMove(t)  BY <1>10, MoveCommitInv
<1>11. CASE Refuse(t)
  BY <1>11, FailedInv DEF Refuse, server
<1> QED  BY <1>3, <1>4, <1>5, <1>6, <1>7, <1>8, <1>9, <1>10, <1>11 DEF Serve

\* A refetch of the query cache: what it brings is the present now, and the past later.
LEMMA PagesInv ==
  ASSUME ConsoleInv, UNCHANGED <<project, transitions, payments, call, sent, toRecord>>,
         shown' \in [Tabs -> Workspaces], late' \in [Tabs -> Workspaces],
         \A u \in Tabs : Past(shown'[u]) /\ (late'[u] # NoAnswer => Past(late'[u]))
  PROVE  ConsoleInv'
<1>1. ConsoleTypeOK'  BY DEF ConsoleInv, ConsoleTypeOK
<1>2. PressesKnown' /\ ReceiptsKnown'
  BY DEF ConsoleInv, PressesKnown, RowKeys, ReceiptsKnown, Ledger
<1>3. RequestsNumbered' /\ VersionsCounted' /\ DepositHeld'
  BY DEF ConsoleInv, RequestsNumbered, Presses, VersionsCounted, RowKeys, DepositHeld
<1>4. PagesShowPast'  BY DEF PagesShowPast, Past
<1> QED  BY <1>1, <1>2, <1>3, <1>4 DEF ConsoleInv

\* Every step of the console.
LEMMA NextConsoleInv == ASSUME ConsoleInv, [ConsoleNext]_consoleVars PROVE ConsoleInv'
<1>0. \A t \in Tabs : /\ Past(ViewFor(TabRole[t])) /\ ViewFor(TabRole[t]) \in Workspaces
                      /\ shown[t] \in Workspaces /\ Past(shown[t])
                      /\ late[t] \in Workspaces /\ (late[t] # NoAnswer => Past(late[t]))
  BY ViewProperties DEF ConsoleInv, ConsoleTypeOK, PagesShowPast, Past
<1>1. NoAnswer \in Workspaces /\ NoCall \in PressCalls /\ NoCall.op = "none"
      /\ shown \in [Tabs -> Workspaces] /\ late \in [Tabs -> Workspaces]
  <2>1. <<>> \in OffersMade  BY DEF OffersMade
  <2> QED
    BY <2>1
       DEF NoAnswer, Created0, Workspaces, Created, States, NoPlan, NoCall, PressCalls,
           PressKinds, Phases, ConsoleInv, ConsoleTypeOK
<1>2. ASSUME NEW t \in Tabs, Refresh(t) PROVE ConsoleInv'  BY <1>2, RefreshInv
<1>3. ASSUME NEW t \in Tabs, RefreshFails(t) PROVE ConsoleInv'
  BY <1>3, FailedInv DEF RefreshFails, server
<1>4. ASSUME NEW t \in Tabs, Reopen(t) PROVE ConsoleInv'
  <2>1. /\ shown' = [shown EXCEPT ![t] = ViewFor(TabRole[t])]
        /\ call' = [call EXCEPT ![t] = NoCall]
        /\ UNCHANGED <<project, transitions, payments, late, sent, toRecord>>
    BY <1>4 DEF Reopen, server
  <2>2. shown' \in [Tabs -> Workspaces] /\ late' \in [Tabs -> Workspaces]
        /\ \A u \in Tabs : Past(shown'[u]) /\ (late'[u] # NoAnswer => Past(late'[u]))
    BY <1>0, <1>1, <2>1
  <2> QED  BY <1>1, <2>1, <2>2, CallInv
<1>5. ASSUME NEW t \in Tabs, Refetch(t) PROVE ConsoleInv'
  <2>1. /\ late' = [late EXCEPT ![t] = ViewFor(TabRole[t])]
        /\ UNCHANGED <<project, transitions, payments, shown, call, sent, toRecord>>
    BY <1>5 DEF Refetch, server
  <2>2. shown' \in [Tabs -> Workspaces] /\ late' \in [Tabs -> Workspaces]
        /\ \A u \in Tabs : Past(shown'[u]) /\ (late'[u] # NoAnswer => Past(late'[u]))
    BY <1>0, <1>1, <2>1
  <2> QED  BY <2>1, <2>2, PagesInv
<1>6. ASSUME NEW t \in Tabs, RefetchArrives(t) PROVE ConsoleInv'
  <2>1. /\ shown' = [shown EXCEPT ![t] = late[t]] /\ late[t] # NoAnswer
        /\ late' = [late EXCEPT ![t] = NoAnswer]
        /\ UNCHANGED <<project, transitions, payments, call, sent, toRecord>>
    BY <1>6 DEF RefetchArrives, server
  <2>2. shown' \in [Tabs -> Workspaces] /\ late' \in [Tabs -> Workspaces]
        /\ \A u \in Tabs : Past(shown'[u]) /\ (late'[u] # NoAnswer => Past(late'[u]))
    BY <1>0, <1>1, <2>1
  <2> QED  BY <2>1, <2>2, PagesInv
<1>7. ASSUME NEW n \in 1..Len(project.offers), NEW answer \in {"ACCEPTED", "DECLINED"},
             AnswerOffer(n, answer)
      PROVE  ConsoleInv'
  <2> DEFINE offers == [project.offers EXCEPT ![n] = answer]
  <2>1. project \in Workspaces /\ project.offers \in OffersMade
    BY DEF ConsoleInv, ConsoleTypeOK, Workspaces
  <2>2. offers \in OffersMade  BY <2>1 DEF OffersMade
  <2>3. project' = [project EXCEPT !.offers = offers]
        /\ UNCHANGED <<transitions, payments, shown, late, call, sent, toRecord>>
    BY <1>7 DEF AnswerOffer
  <2> HIDE DEF offers
  <2>4. /\ project' \in Workspaces /\ project'.state = project.state
        /\ project'.version = project.version /\ project'.funded = project.funded
        /\ project'.required = project.required
    BY <2>1, <2>2, <2>3 DEF Workspaces
  <2> QED  BY <2>3, <2>4, OfferAnsweredInv
<1>8. CASE UNCHANGED consoleVars
  BY <1>0, <1>1, <1>8, PagesInv DEF consoleVars
<1> QED
  BY <1>2, <1>3, <1>4, <1>5, <1>6, <1>7, <1>8, PressInv, ServeInv DEF ConsoleNext

\* The invariant holds in every state.
LEMMA ConsoleInvHolds == ConsoleSpec => []ConsoleInv
  BY InitConsoleInv, NextConsoleInv, PTL DEF ConsoleSpec

\* Every button of an up-to-date page asks for a move that RULES and the funding check
\* allow the role (projectMoves beside transition_project).
THEOREM ButtonsAreLegal == ConsoleSpec => []OffersLegalMoves
<1>1. ASSUME ConsoleInv PROVE OffersLegalMoves
  <2> SUFFICES ASSUME NEW t \in Tabs, shown[t] = ViewFor(TabRole[t]),
                      NEW m \in Moves(TabRole[t], shown[t])
               PROVE  /\ Allowed(TabRole[t], project.state, m[1])
                      /\ FundingConfirmed(m[1], project.funded, project.required)
    BY DEF OffersLegalMoves
  <2> DEFINE r == TabRole[t]
             w == shown[t]
  <2>1. w.state = project.state /\ w.funded = project.funded /\ w.required = project.required
    BY <1>1, ViewProperties DEF ConsoleInv, ConsoleTypeOK
  <2>2. ASSUME NEW from, NEW to, NEW roles, Edge(from, to, roles) \in Forward,
               w.state = from, r \in roles
        PROVE  Allowed(r, project.state, to)
    BY <2>1, <2>2 DEF Allowed, RULES, Edge
  <2> DEFINE Legal(to) == /\ Allowed(r, project.state, to)
                          /\ FundingConfirmed(to, project.funded, project.required)
  <2>3. w.state \in FundedStates => project.funded >= project.required
    BY <1>1, <2>1 DEF ConsoleInv, DepositHeld
  <2> HIDE DEF r, w
  <2>4. SubmitButton(r, w) => Legal("SCOPING")
    BY <2>2 DEF SubmitButton, Forward, FundingConfirmed, FundingGated
  <2>5. SendScopeButton(r, w) => Legal("AWAITING_COORDINATOR_SCOPE_APPROVAL")
    BY <2>2 DEF SendScopeButton, Forward, FundingConfirmed, FundingGated
  <2>6. ApproveScopeButton(r, w) => Legal("AWAITING_CLIENT_SCOPE_APPROVAL")
    BY <2>2 DEF ApproveScopeButton, Forward, FundingConfirmed, FundingGated
  <2>7. AcceptQuoteButton(r, w) => Legal("AWAITING_DEPOSIT")
    BY <2>2 DEF AcceptQuoteButton, Forward, FundingConfirmed, FundingGated
  <2>8. ConfirmFundingButton(r, w) => Legal("STAFFING")
    BY <2>1, <2>2 DEF ConfirmFundingButton, Forward, FundingConfirmed
  <2>9. SendStaffingButton(r, w) => Legal("AWAITING_STAFFING_APPROVAL")
    BY <2>2 DEF SendStaffingButton, Forward, FundingConfirmed, FundingGated
  <2>10. ApproveStaffingButton(r, w) => Legal("AWAITING_STUDENT_ACCEPTANCE")
    BY <2>2 DEF ApproveStaffingButton, Forward, FundingConfirmed, FundingGated
  <2>11. ConfirmTeamButton(r, w) => Legal("READY_TO_START")
    BY <2>2, <2>3 DEF ConfirmTeamButton, Forward, FundingConfirmed, FundedStates
  <2>12. ActivateButton(r, w) => Legal("ACTIVE")
    BY <2>2, <2>3 DEF ActivateButton, Forward, FundingConfirmed, FundedStates
  <2>13. m \in Moves(r, w)  BY DEF r, w
  <2> HIDE DEF Legal
  <2>14. Legal(m[1])
    BY <2>4, <2>5, <2>6, <2>7, <2>8, <2>9, <2>10, <2>11, <2>12, <2>13 DEF Moves
  <2> QED  BY <2>14 DEF Legal, r
<1> QED  BY <1>1, ConsoleInvHolds, PTL

\* Whatever the page reports as done is on record (act, recordExternalFunding).
THEOREM NoticesAreEarned == ConsoleSpec => []NoticeIsEarned
<1>1. ConsoleInv => NoticeIsEarned
  BY DEF ConsoleInv, NoticeIsEarned, PressesKnown, RowKeys, ReceiptsKnown, Ledger
<1> QED  BY <1>1, ConsoleInvHolds, PTL

----------------------------------------------------------------------------
(* The project pages implement the transition protocol. *)

\* The protocol's table is the page's: one module, instantiated.
LEMMA SameTable ==
  ASSUME NEW role, NEW from, NEW to
  PROVE  Protocol!Allowed(role, from, to) <=> Allowed(role, from, to)
<1>1. Protocol!Forward = Forward  BY DEF Protocol!Forward, Forward, Protocol!Edge, Edge
<1>2. \A s : Protocol!Exits(s) = Exits(s)  BY DEF Protocol!Exits, Exits, Protocol!Edge, Edge
<1>3. Protocol!States = States /\ Protocol!Closed = Closed
  BY DEF Protocol!States, States, Protocol!Closed, Closed
<1>4. Protocol!RULES = RULES  BY <1>1, <1>2, <1>3 DEF Protocol!RULES, RULES
<1> QED  BY <1>4 DEF Protocol!Allowed, Allowed

\* Nor does counting depend on which module counts.
LEMMA SameCount == ASSUME NEW S PROVE Protocol!Cardinality(S) = Cardinality(S)
  BY DEF Protocol!Cardinality, Cardinality

\* The initial states map to initial states of the protocol.
LEMMA InitMaps == ConsoleInit => Protocol!Init
  BY DEF ConsoleInit, Protocol!Init, Protocol!Created, Created, Created0

\* A step the protocol does not see.
LEMMA StutterMaps ==
  ASSUME project'.state = project.state, project'.version = project.version,
         UNCHANGED <<transitions, shown, sent>>
  PROVE  UNCHANGED Protocol!vars
  BY DEF Protocol!vars

\* A read: the page shows the present or something it has been.
LEMMA ReadMaps ==
  ASSUME ConsoleInv, NEW t \in Tabs, NEW w, Past(w), shown' = [shown EXCEPT ![t] = w],
         UNCHANGED <<project, transitions, sent>>
  PROVE  Protocol!GetProject(t, "project")
<1> DEFINE seen == [state |-> w.state, version |-> w.version]
           Shows(s) == [u \in Tabs |-> [p \in {"project"} |->
                          [state |-> s[u].state, version |-> s[u].version]]]
<1>1. seen \in Protocol!Answers("project")
  BY DEF Protocol!Answers, Past
<1>3. Shows(shown') = [Shows(shown) EXCEPT ![t]["project"] = seen]
  BY DEF ConsoleInv, ConsoleTypeOK
<1>4. <<t, "project">> \in Tabs \X {"project"}  OBVIOUS
<1> QED  BY <1>1, <1>3, <1>4 DEF Protocol!GetProject

\* A press of a lifecycle button: a request with the version on show and a new key.
LEMMA PressMaps ==
  ASSUME ConsoleInv, NEW t \in Tabs, NEW target \in Targets, PressMove(t, target)
  PROVE  \E key \in 1..MaxPresses : Protocol!Submit(t, "project", target, key)
<1> DEFINE key == Presses + 1
           m == [project |-> "project", user |-> t, target |-> target,
                 expected |-> shown[t].version, key |-> key, saw |-> shown[t].state]
<1>1. /\ sent' = sent \cup {m} /\ key <= MaxPresses
      /\ UNCHANGED <<project, transitions, shown>>
  BY DEF PressMove, Post, server
<1>2. key \in 1..MaxPresses /\ Cardinality(sent) < MaxPresses
  BY <1>1, FS_CardinalityType, ConsoleAssumption DEF ConsoleInv, RequestsNumbered, Presses
<1>3. \A row \in transitions : row.key # m.key
  BY FS_CardinalityType DEF ConsoleInv, VersionsCounted, RowKeys, RequestsNumbered, Presses
<1>4. {n \in sent' : \E row \in transitions' : row.key = n.key}
        = {n \in sent : \E row \in transitions : row.key = n.key}
  BY <1>1, <1>3
<1>5. <<t, "project">> \in Tabs \X {"project"}  OBVIOUS
<1>6. UNCHANGED <<project.state, project.version, transitions, shown>>  BY <1>1
<1> HIDE DEF key
<1>7. Protocol!Submit(t, "project", target, key)
  <2> DEFINE view == [u \in Tabs |-> [p \in {"project"} |->
                        [state |-> shown[u].state, version |-> shown[u].version]]]
  <2>1. view[t]["project"].version = shown[t].version /\ view[t]["project"].state = shown[t].state
    OBVIOUS
  <2>2. sent' = sent \cup
          {[project |-> "project", user |-> t, target |-> target,
            expected |-> view[t]["project"].version, key |-> key,
            saw |-> view[t]["project"].state]}
    BY <1>1, <2>1
  <2>3. Protocol!Cardinality(sent) < MaxPresses  BY <1>2, SameCount
  <2> QED  BY <1>4, <1>5, <1>6, <2>2, <2>3 DEF Protocol!Submit
<1> QED  BY <1>2, <1>7

\* A move that is committed: the request is applied, once, to the version it was made for.
LEMMA MoveMaps ==
  ASSUME ConsoleInv, NEW t \in Tabs, CommitMove(t)
  PROVE  \E m \in sent : Protocol!Apply(m)
<1> DEFINE m == call[t].with
<1>1. /\ m \in sent /\ m.user = t /\ m.project = "project"
      /\ m.key \notin RowKeys
  BY DEF CommitMove, Posted, ConsoleInv, PressesKnown, ConsoleTypeOK, MoveRequests
<1>2. /\ project.version = m.expected /\ Allowed(TabRole[t], project.state, m.target)
      /\ project' = [project EXCEPT !.state = m.target, !.version = @ + 1]
      /\ transitions' = transitions \cup
           {[project |-> m.project, actor |-> t, from |-> project.state, to |-> m.target,
             expected |-> m.expected, key |-> m.key]}
      /\ UNCHANGED <<shown, sent>>
  BY DEF CommitMove
<1>3. project.version < MaxPresses + 1  BY MoveCommitInv
<1>4. project'.state = m.target /\ project'.version = project.version + 1
  BY <1>2 DEF ConsoleInv, ConsoleTypeOK, Workspaces
<1> HIDE DEF m
<1>5. {n \in sent' : \E row \in transitions' : row.key = n.key}
        = {n \in sent : \E row \in transitions : row.key = n.key} \cup {m}
  <2>1. \A n \in sent : n.key = m.key => n = m
    BY <1>1 DEF ConsoleInv, RequestsNumbered
  <2> DEFINE new == [project |-> m.project, actor |-> t, from |-> project.state,
                     to |-> m.target, expected |-> m.expected, key |-> m.key]
  <2>2. transitions' = transitions \cup {new} /\ new.key = m.key  BY <1>2
  <2> HIDE DEF new
  <2> QED  BY <1>1, <1>2, <2>1, <2>2
<1>6. Protocol!Recorded(m.key) = {}
  BY <1>1 DEF Protocol!Recorded, RowKeys
<1>7. Protocol!Acceptable(m)
  BY <1>1, <1>2, SameTable DEF Protocol!Acceptable
<1>8. <<m.user, m.project>> \in Tabs \X {"project"}  BY <1>1
<1> QED
  BY <1>1, <1>2, <1>3, <1>4, <1>5, <1>6, <1>7, <1>8 DEF Protocol!Apply

\* Every step maps to a step of the protocol, or to none.
LEMMA StepMaps ==
  ASSUME ConsoleInv, [ConsoleNext]_consoleVars PROVE [Protocol!Next]_(Protocol!vars)
<1>1. ASSUME NEW t \in Tabs, Protocol!GetProject(t, "project") PROVE Protocol!Next
  BY <1>1 DEF Protocol!Next
<1>2. \A t \in Tabs : Past(ViewFor(TabRole[t]))
  BY ViewProperties DEF ConsoleInv, ConsoleTypeOK, Past
<1>3. ASSUME NEW t \in Tabs, Press(t) PROVE [Protocol!Next]_(Protocol!vars)
  <2>1. CASE \E m \in Moves(TabRole[t], shown[t]) : PressMove(t, m[1])
    <3>1. PICK target \in Targets : PressMove(t, target)  BY <2>1, MovesHaveTargets
    <3>2. PICK key \in 1..MaxPresses : Protocol!Submit(t, "project", target, key)
      BY <3>1, PressMaps
    <3> QED  BY <3>2 DEF Protocol!Next
  <2>2. CASE UNCHANGED <<project, transitions, shown, sent>>  BY <2>2, StutterMaps
  <2> QED
    BY <1>3, <2>1, <2>2
       DEF Press, GenerateScope, CreateQuote, RecordExternalFunding, RunStaffingMatch,
           CreateAssignmentOffer, RunPlanProposal, ApprovePlan, Post, server
<1>4. ASSUME NEW t \in Tabs, CommitMove(t) PROVE Protocol!Next
  BY <1>4, MoveMaps DEF Protocol!Next
<1>5. ASSUME NEW t \in Tabs, Serve(t), ~CommitMove(t) PROVE UNCHANGED Protocol!vars
  <2>1. project'.state = project.state /\ project'.version = project.version
        /\ UNCHANGED <<transitions, shown, sent>>
    BY <1>5
       DEF Serve, CommitScope, CommitQuote, CommitFunding, CommitStaffing, CommitOffer,
           CommitPlan, CommitApproval, CommitEvidence, Refuse, server, ConsoleInv,
           ConsoleTypeOK, Workspaces
  <2> QED  BY <2>1, StutterMaps
<1>6. ASSUME NEW t \in Tabs, Refresh(t) \/ Reopen(t) PROVE Protocol!Next
  BY <1>1, <1>2, <1>6, ReadMaps DEF Refresh, Reopen, server
<1>7. ASSUME NEW t \in Tabs, RefetchArrives(t) PROVE Protocol!Next
  BY <1>1, <1>7, ReadMaps DEF RefetchArrives, server, ConsoleInv, PagesShowPast
<1>8. ASSUME NEW t \in Tabs, RefreshFails(t) \/ Refetch(t) PROVE UNCHANGED Protocol!vars
  BY <1>8, StutterMaps DEF RefreshFails, Refetch, server
<1>9. ASSUME NEW n \in 1..Len(project.offers), NEW answer \in {"ACCEPTED", "DECLINED"},
             AnswerOffer(n, answer)
      PROVE  UNCHANGED Protocol!vars
  <2>1. project'.state = project.state /\ project'.version = project.version
        /\ UNCHANGED <<transitions, shown, sent>>
    BY <1>9 DEF AnswerOffer, ConsoleInv, ConsoleTypeOK, Workspaces
  <2> QED  BY <2>1, StutterMaps
<1>10. CASE UNCHANGED consoleVars  BY <1>10, StutterMaps DEF consoleVars
<1> QED
  BY <1>3, <1>4, <1>5, <1>6, <1>7, <1>8, <1>9, <1>10 DEF ConsoleNext

\* Whatever is pressed, refused, lost or overtaken on any number of tabs, the project,
\* its requests and what the tabs show are a behaviour of the transition protocol; its
\* theorems (a history without gaps, nothing applied that is stale) hold of the pages too.
THEOREM PagesSpeakTheProtocol == ConsoleSpec => ImplementsProtocol
  BY InitMaps, StepMaps, ConsoleInvHolds, PTL DEF ConsoleSpec, ImplementsProtocol, Protocol!Spec
=============================================================================
