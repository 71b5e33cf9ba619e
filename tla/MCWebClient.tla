---------------------------- MODULE MCWebClient ----------------------------
(* The web client.  Its pages share the session and the API but no state of    *)
(* their own, so every behaviour has one page, chosen at its start.            *)
EXTENDS WorkspaceShell, ProjectConsole, SubmissionDesk, InternshipPortal, TalentDesk,
        IntakeDesk, ClientIntake, CredentialDesk, JudgePage, RecordsDesk,
        StudentSignup, TLC

CONSTANTS owner, coord

VARIABLE page

shellVars == <<shVars, gwVars>>
deskVars == <<sdVars, ipVars, tdVars>>
intakeVars == <<idVars, ciVars>>
publicVars == <<cdVars, jpVars, rdVars, suVars>>
webVars == <<page, consoleVars, shellVars, deskVars, intakeVars, publicVars>>

MCTabs == {owner, coord}
MCTabRole == owner :> "client_owner" @@ coord :> "coordinator"

\* Unset or set per deployment; the timeout as text, in range and past the limit.
MCConfigurations ==
  [env : {"local", "staging"}, base : {"unset", "http", "https", "other"},
   timeout : {[kind |-> "unset", ms |-> 0], [kind |-> "text", ms |-> 0],
              [kind |-> "integer", ms |-> MinTimeout], [kind |-> "integer", ms |-> MaxTimeout + 1]}]

MCAccounts == {"learner", "client"}
MCRoleOfAccount == [a \in MCAccounts |-> IF a = "learner" THEN "student" ELSE "client_owner"]
MCKeySets == {{"notices"}, {"off"}, {"dead"}, {"exports", "metrics"}}

MCProgramOf == "ca" :> "pa" @@ "cb" :> "pb"

MCPages == {<<"student", "offers">>, <<"client", "projects">>,
            <<"client", "projects", "p1">>}

\* The pages that are not looked at stay as they are, so one start of each is enough.
WebInit ==
  /\ page \in {"gateway", "shell", "console", "submission", "internship", "talent",
               "intake", "project intake", "credential", "sandbox", "walkthrough", "records",
               "signup"}
  /\ GwInit /\ ShInit /\ ConsoleInit /\ SdInit /\ IpInit /\ TdInit /\ IdInit /\ CiInit /\ CdInit /\ JpInit /\ RdInit
  /\ SuInit
  /\ page # "gateway" =>
       gwConfig = [env |-> "local", base |-> "http", timeout |-> [kind |-> "unset", ms |-> 0]]
  /\ page # "internship" => ipView = "learn"
  /\ page # "talent" => tdPage = "learn"
  /\ page # "intake" => idForm.stage = "editing"
  /\ page # "credential" => cdRing = 1 /\ cdBox = 0
  /\ page # "records" => rdKeys = {"notices"} /\ rdPage = "admin" /\ Suppressed(rdServer.cohort)

WebNext ==
  /\ UNCHANGED page
  /\ \/ page = "gateway" /\ GwNext
        /\ UNCHANGED <<shVars, consoleVars, deskVars, intakeVars, publicVars>>
     \/ page = "shell" /\ ShNext
        /\ UNCHANGED <<gwVars, consoleVars, deskVars, intakeVars, publicVars>>
     \/ page = "console" /\ ConsoleNext
        /\ UNCHANGED <<shellVars, deskVars, intakeVars, publicVars>>
     \/ page = "submission" /\ SdNext
        /\ UNCHANGED <<shellVars, consoleVars, ipVars, tdVars, intakeVars, publicVars>>
     \/ page = "internship" /\ IpNext
        /\ UNCHANGED <<shellVars, consoleVars, sdVars, tdVars, intakeVars, publicVars>>
     \/ page = "talent" /\ TdNext
        /\ UNCHANGED <<shellVars, consoleVars, sdVars, ipVars, intakeVars, publicVars>>
     \/ page = "intake" /\ IdNext
        /\ UNCHANGED <<shellVars, consoleVars, deskVars, ciVars, publicVars>>
     \/ page = "project intake" /\ CiNext
        /\ UNCHANGED <<shellVars, consoleVars, deskVars, idVars, publicVars>>
     \/ page = "credential" /\ CdNext
        /\ UNCHANGED <<shellVars, consoleVars, deskVars, intakeVars, jpVars, rdVars, suVars>>
     \/ page = "sandbox" /\ SandboxNext
        /\ UNCHANGED <<shellVars, consoleVars, deskVars, intakeVars, cdVars, rdVars, suVars>>
     \/ page = "walkthrough" /\ WalkthroughNext
        /\ UNCHANGED <<shellVars, consoleVars, deskVars, intakeVars, cdVars, rdVars, suVars>>
     \/ page = "records" /\ RdNext
        /\ UNCHANGED <<shellVars, consoleVars, deskVars, intakeVars, cdVars, jpVars, suVars>>
     \/ page = "signup" /\ SuNext
        /\ UNCHANGED <<shellVars, consoleVars, deskVars, intakeVars, cdVars, jpVars, rdVars>>

WebFairness == WF_gwVars(GwSteps) /\ SdFairness
WebSpec == WebInit /\ [][WebNext]_webVars /\ WebFairness
=============================================================================
