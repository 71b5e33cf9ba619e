---------------------------- MODULE RecordsDesk ----------------------------
(***************************************************************************)
(* The pages of the workspace shell that edit the query cache by hand: the *)
(* notifications, their preferences, the dead-letter jobs, and the         *)
(* university's exports and outcomes, which pages of two shapes read under *)
(* one key: the shell stores {data, isDemo}, the portal and the exports    *)
(* page the bare answer.  A deployment without demo samples.               *)
(***************************************************************************)
EXTENDS Naturals, FiniteSets

CONSTANTS
  Notices,     \* notifications of the person signed in
  Jobs,        \* outbox events that can end as dead letters
  KeySets,     \* keys of the cache that are looked at together; they share no state
  MinCohort,   \* university_minimum_cohort_size
  MaxRdInputs  \* bound: presses, page changes and changes by others

ASSUME RecordsAssumption == MinCohort \in Nat \ {0} /\ MaxRdInputs \in Nat

VARIABLES
  rdServer,  \* what the API holds: notices read, categories switched off, dead jobs,
             \* exports with the cohort their request was admitted on, the cohort
  rdKeys,    \* the keys looked at
  rdPage,
  rdCache,   \* the query cache: shape and value of each key
  rdFlight,  \* the answer on its way to each key, or Missing
  rdCalls,   \* writes under way
  rdNotice,  \* actionNotice and the writes the API has carried out
  rdCsv,     \* the figures last saved as a file
  rdInputs

rdVars == <<rdServer, rdKeys, rdPage, rdCache, rdFlight, rdCalls, rdNotice, rdCsv, rdInputs>>

Pages == {"admin", "portal", "exports", "settings"}
Optional == {"operations"}
Required == {"payments"}
Critical == {"payments"}
Keys == {"notices", "off", "dead", "exports", "metrics"}
Missing == [shape |-> "none"]

\* aggregate_metrics.  Mutant: the threshold is one too low.
SuppressedBelow(cohort) == cohort + 1 < MinCohort
Suppressed(cohort) == cohort < MinCohort
Metrics(cohort) == [suppressed |-> Suppressed(cohort), cohort |-> cohort]

\* The keys a page mounts, with the shape its queries store.  On the portal's page the
\* portal's own queries are mounted before the shell's and fetch first.
Mounted(page) ==
  {<<"notices", "wrapped">>} \cup
  CASE page = "admin" -> {<<"dead", "wrapped">>}
    [] page \in {"portal", "exports"} -> {<<"exports", "raw">>, <<"metrics", "raw">>}
    [] page = "settings" ->
         {<<"off", "wrapped">>, <<"exports", "wrapped">>, <<"metrics", "wrapped">>}

RdInit ==
  /\ rdKeys \in KeySets
  /\ rdPage \in Pages
  /\ rdServer \in [notices : {{}}, off : {{}}, dead : {Jobs}, exports : {{}},
                   cohort : {MinCohort - 1, MinCohort}]
  /\ rdCache = [k \in Keys |-> Missing]
  /\ rdFlight = [k \in Keys |-> Missing]
  /\ rdCalls = {}
  /\ rdNotice = [says |-> <<"nothing">>, done |-> {}]
  /\ rdCsv = [source |-> "none"]
  /\ rdInputs = 0

Counted == rdInputs < MaxRdInputs /\ rdInputs' = rdInputs + 1
Answer(k) == IF k = "metrics" THEN Metrics(rdServer.cohort)
             ELSE IF k = "exports" THEN {e.id : e \in rdServer.exports} ELSE rdServer[k]
\* What the shell reads: data.data, which the bare answer does not have.
Shown(k) == rdCache[k].shape = "wrapped"

----------------------------------------------------------------------------
(* Queries and pages. *)

Query(k, shape) ==
  /\ k \in rdKeys /\ <<k, shape>> \in Mounted(rdPage)
  /\ rdFlight[k] = Missing
  /\ rdCache[k] = Missing
  /\ rdFlight' = [rdFlight EXCEPT ![k] = [shape |-> shape, value |-> Answer(k)]]
  /\ UNCHANGED <<rdServer, rdKeys, rdPage, rdCache, rdCalls, rdNotice, rdCsv, rdInputs>>

\* The value is over 30 seconds old when a page mounts it, or it was invalidated.
QueryAgain(k, shape) ==
  /\ Counted
  /\ k \in rdKeys /\ <<k, shape>> \in Mounted(rdPage)
  /\ rdFlight[k] = Missing
  /\ rdCache[k] # Missing
  /\ rdFlight' = [rdFlight EXCEPT ![k] = [shape |-> shape, value |-> Answer(k)]]
  /\ UNCHANGED <<rdServer, rdKeys, rdPage, rdCache, rdCalls, rdNotice, rdCsv>>

Arrives(k) ==
  /\ rdFlight[k] # Missing
  /\ rdCache' = [rdCache EXCEPT ![k] = rdFlight[k]]
  /\ rdFlight' = [rdFlight EXCEPT ![k] = Missing]
  /\ UNCHANGED <<rdServer, rdKeys, rdPage, rdCalls, rdNotice, rdCsv, rdInputs>>

\* A link between the pages of one workspace; the cache and the calls under way stay,
\* what the page said or would say to their answers goes with it.
Visit(page) ==
  /\ Counted
  /\ page # rdPage /\ "admin" \notin {page, rdPage}
  /\ rdPage' = page
  /\ rdNotice' = [rdNotice EXCEPT !.says = <<"nothing">>]
  /\ rdCalls' = {[call EXCEPT !.heard = FALSE] : call \in rdCalls}
  /\ UNCHANGED <<rdServer, rdKeys, rdCache, rdFlight, rdCsv>>

----------------------------------------------------------------------------
(* What is pressed. *)

Dispatch(call) == rdCalls' = rdCalls \cup {call}
\* markNotificationRead.  Mutant: the notice is marked before the API has answered.
PressReadEarly(n) ==
  /\ Counted
  /\ Shown("notices") /\ n \notin rdCache["notices"].value
  /\ Dispatch([op |-> "read", of |-> n, served |-> FALSE, heard |-> TRUE])
  /\ rdCache' = [rdCache EXCEPT !["notices"].value = @ \cup {n}]
  /\ UNCHANGED <<rdServer, rdKeys, rdPage, rdFlight, rdNotice, rdCsv>>
PressRead(n) ==
  /\ Counted
  /\ Shown("notices") /\ n \notin rdCache["notices"].value
  /\ Dispatch([op |-> "read", of |-> n, served |-> FALSE, heard |-> TRUE])
  /\ UNCHANGED <<rdServer, rdKeys, rdPage, rdCache, rdFlight, rdNotice, rdCsv>>

\* togglePreference sends the opposite of what is on show.
PressToggle(c) ==
  /\ Counted
  /\ rdPage = "settings" /\ Shown("off") /\ c \notin Required
  /\ Dispatch([op |-> IF c \in rdCache["off"].value THEN "on" ELSE "off", of |-> c,
           served |-> FALSE, heard |-> TRUE])
  /\ rdNotice' = [rdNotice EXCEPT !.says = IF @ = <<"error">> THEN <<"nothing">> ELSE @]
  /\ UNCHANGED <<rdServer, rdKeys, rdPage, rdCache, rdFlight, rdCsv>>

WriteBusy == \E call \in rdCalls : call.heard /\ call.op \in {"recover", "export"}
\* The button of a job is there for the jobs on show, disabled while one is submitted.
RecoverButton(j) == rdPage = "admin" /\ Shown("dead") /\ j \in rdCache["dead"].value /\ ~WriteBusy
PressRecover(j) ==
  /\ Counted
  /\ RecoverButton(j)
  /\ Dispatch([op |-> "recover", of |-> j, served |-> FALSE, heard |-> TRUE])
  /\ rdNotice' = [rdNotice EXCEPT !.says = <<"nothing">>]
  /\ UNCHANGED <<rdServer, rdKeys, rdPage, rdCache, rdFlight, rdCsv>>

\* The form of the shell is there when both answers are, and are of its shape; the one
\* of the portal is hidden only by an answer of its own shape that is suppressed; the
\* one of the exports page is always there.
ShellForm == Shown("exports") /\ Shown("metrics") /\ ~rdCache["metrics"].value.suppressed
PortalForm == rdCache["metrics"].shape = "raw" => ~rdCache["metrics"].value.suppressed

ShellExport ==
  /\ rdPage = "settings" /\ ShellForm
  /\ rdNotice' = [rdNotice EXCEPT !.says = <<"nothing">>]
PortalExport == rdPage = "portal" /\ PortalForm /\ UNCHANGED rdNotice
IsolatedExport == rdPage = "exports" /\ UNCHANGED rdNotice
PressExport ==
  /\ Counted
  /\ "exports" \in rdKeys /\ ~WriteBusy
  /\ ShellExport \/ PortalExport \/ IsolatedExport
  /\ Dispatch([op |-> "export", of |-> rdPage, served |-> FALSE, heard |-> TRUE, cohort |-> 0])
  /\ UNCHANGED <<rdServer, rdKeys, rdPage, rdCache, rdFlight, rdCsv>>

\* The portal shows what was reported to it; the built-in sample stands in for an
\* answer that is missing, its single figures for one of the other shape.
SampleFigures == [source |-> "sample"]
FiguresShown == IF rdCache["metrics"].shape = "raw"
                  THEN [source |-> "report", cohort |-> rdCache["metrics"].value.cohort]
                  ELSE SampleFigures

\* handleDownloadDemoCsv.
SaveCsv ==
  /\ Counted
  /\ "exports" \in rdKeys /\ rdPage = "portal" /\ PortalForm
  /\ rdCsv' = FiguresShown
  /\ UNCHANGED <<rdServer, rdKeys, rdPage, rdCache, rdFlight, rdCalls, rdNotice>>

----------------------------------------------------------------------------
(* The API. *)

\* The exports page has no line for it.
Says(call, what) == rdNotice' = IF call.heard /\ call.of # "exports" THEN [rdNotice EXCEPT !.says = what] ELSE rdNotice
Carried(call) == rdNotice' = [rdNotice EXCEPT !.done = @ \cup {<<call.op, call.of>>}]
Became(call, more) == rdCalls' = (rdCalls \ {call}) \cup {more}
Refused(call) ==
  /\ rdCalls' = rdCalls \ {call}
  /\ Says(call, <<"error">>)
  /\ UNCHANGED rdServer

ServeRead(call) ==
  /\ call.op = "read" /\ ~call.served
  /\ rdServer' = [rdServer EXCEPT !.notices = @ \cup {call.of}]
  /\ Became(call, [call EXCEPT !.served = TRUE])
  /\ Carried(call)
  /\ UNCHANGED <<rdKeys, rdPage, rdCache, rdFlight, rdCsv, rdInputs>>

\* update_preference refuses to switch off a critical category.
ServePreference(call) ==
  /\ call.op \in {"on", "off"} /\ ~call.served
  /\ IF call.op = "off" /\ call.of \in Critical THEN Refused(call)
     ELSE /\ rdServer' = [rdServer EXCEPT !.off = IF call.op = "off" THEN @ \cup {call.of}
                                                  ELSE @ \ {call.of}]
          /\ Became(call, [call EXCEPT !.served = TRUE])
          /\ Carried(call)
  /\ UNCHANGED <<rdKeys, rdPage, rdCache, rdFlight, rdCsv, rdInputs>>

ServeRecover(call) ==
  /\ call.op = "recover" /\ ~call.served
  /\ IF call.of \notin rdServer.dead THEN Refused(call)
     ELSE /\ rdServer' = [rdServer EXCEPT !.dead = @ \ {call.of}]
          /\ Became(call, [call EXCEPT !.served = TRUE])
          /\ Carried(call)
  /\ UNCHANGED <<rdKeys, rdPage, rdCache, rdFlight, rdCsv, rdInputs>>

\* request_export reads the cohort, then records the job.
AdmitExport(call) ==
  /\ call.op = "export" /\ ~call.served /\ call.cohort = 0
  /\ IF Suppressed(rdServer.cohort) THEN Refused(call)
     ELSE /\ Became(call, [call EXCEPT !.cohort = rdServer.cohort])
          /\ UNCHANGED <<rdServer, rdNotice>>
  /\ UNCHANGED <<rdKeys, rdPage, rdCache, rdFlight, rdCsv, rdInputs>>
RecordExport(call) ==
  /\ call.op = "export" /\ ~call.served /\ call.cohort > 0
  /\ LET id == Cardinality(rdServer.exports) + 1 IN
     /\ rdServer' = [rdServer EXCEPT !.exports = @ \cup {[id |-> id, cohort |-> call.cohort]}]
     /\ Became(call, [op |-> "export", of |-> call.of, served |-> TRUE,
                    heard |-> call.heard, id |-> id])
  /\ Carried(call)
  /\ UNCHANGED <<rdKeys, rdPage, rdCache, rdFlight, rdCsv, rdInputs>>

\* Consent given or withdrawn; the worker gives a recovered job up again; the same
\* person switches a category in another tab.
CohortChanges ==
  /\ Counted /\ "metrics" \in rdKeys
  /\ rdServer' = [rdServer EXCEPT !.cohort = (2 * MinCohort - 1) - @]
  /\ UNCHANGED <<rdKeys, rdPage, rdCache, rdFlight, rdCalls, rdNotice, rdCsv>>
JobDies(j) ==
  /\ Counted
  /\ j \notin rdServer.dead /\ "dead" \in rdKeys
  /\ rdServer' = [rdServer EXCEPT !.dead = @ \cup {j}]
  /\ UNCHANGED <<rdKeys, rdPage, rdCache, rdFlight, rdCalls, rdNotice, rdCsv>>
SwitchedElsewhere(c) ==
  /\ Counted
  /\ c \notin Critical /\ "off" \in rdKeys
  /\ rdServer' = [rdServer EXCEPT !.off = IF c \in @ THEN @ \ {c} ELSE @ \cup {c}]
  /\ UNCHANGED <<rdKeys, rdPage, rdCache, rdFlight, rdCalls, rdNotice, rdCsv>>

----------------------------------------------------------------------------
(* The answers.  useQuerySetter edits what the cache holds when the answer comes and   *)
(* leaves a request under way alone, so an older answer can still replace the edit.    *)

\* An entry of the other shape counts as nothing and is replaced.
Held(k) == IF Shown(k) THEN rdCache[k].value ELSE {}
Edited(k, value) == rdCache' = [rdCache EXCEPT ![k] = [shape |-> "wrapped", value |-> value]]

CallAnswered(call) ==
  /\ call.served
  /\ rdCalls' = rdCalls \ {call}
  /\ \/ call.op = "read" /\ Edited("notices", Held("notices") \cup {call.of})
        /\ UNCHANGED <<rdNotice, rdFlight>>
     \/ call.op = "off" /\ Edited("off", Held("off") \cup {call.of})
        /\ UNCHANGED <<rdNotice, rdFlight>>
     \/ call.op = "on" /\ Edited("off", Held("off") \ {call.of})
        /\ UNCHANGED <<rdNotice, rdFlight>>
     \/ call.op = "recover" /\ Edited("dead", Held("dead") \ {call.of}) /\ Says(call, <<call.op, call.of>>)
        /\ UNCHANGED rdFlight
     \/ call.op = "export" /\ call.of = "settings"
        /\ Edited("exports", Held("exports") \cup {call.id}) /\ Says(call, <<call.op, call.of>>)
        /\ UNCHANGED rdFlight
     \/ call.op = "export" /\ call.of \in {"portal", "exports"}
        /\ Says(call, <<call.op, call.of>>)
        /\ rdFlight' = [rdFlight EXCEPT !["exports"] = Missing]
        /\ UNCHANGED rdCache
  /\ UNCHANGED <<rdServer, rdKeys, rdPage, rdCsv, rdInputs>>

\* The answer is lost, before or after the API acted on the call.
CallLost(call) ==
  /\ Counted
  /\ rdCalls' = rdCalls \ {call}
  /\ Says(call, <<"error">>)
  /\ UNCHANGED <<rdServer, rdKeys, rdPage, rdCache, rdFlight, rdCsv>>

RdNext ==
  \/ \E k \in Keys : Arrives(k) \/ \E shape \in {"raw", "wrapped"} : Query(k, shape) \/ QueryAgain(k, shape)
  \/ \E page \in Pages : Visit(page)
  \/ \E n \in Notices : PressRead(n)
  \/ \E c \in Optional \cup Required : PressToggle(c) \/ SwitchedElsewhere(c)
  \/ \E j \in Jobs : PressRecover(j) \/ JobDies(j)
  \/ PressExport \/ SaveCsv \/ CohortChanges
  \/ \E call \in rdCalls :
       \/ ServeRead(call) \/ ServePreference(call) \/ ServeRecover(call)
       \/ AdmitExport(call) \/ RecordExport(call)
       \/ CallAnswered(call) \/ CallLost(call)

RdSpec == RdInit /\ [][RdNext]_rdVars

----------------------------------------------------------------------------
(* Properties. *)

\* Nothing is reported as done that the API has not done, whatever overtakes the
\* answer: a notice shown as read is read, a success message stands for a write, and
\* the financial and fairness categories are on, on the page and in the API.
NoticesAreTrue ==
  /\ Shown("notices") => rdCache["notices"].value \subseteq rdServer.notices
  /\ rdNotice.says \in {<<"nothing">>, <<"error">>} \cup rdNotice.done
  /\ rdServer.off \cap Required = {}
  /\ Shown("off") => rdCache["off"].value \cap Required = {}

\* No figures of a cohort below the threshold leave the API: a file saved from the page
\* holds the built-in sample or what was reported of a large enough cohort, and every
\* export was admitted on one, though consent changes while pages and requests are open.
SuppressedStaysHidden ==
  /\ rdCsv.source = "report" => rdCsv.cohort >= MinCohort
  /\ \A e \in rdServer.exports : e.cohort >= MinCohort
=============================================================================
