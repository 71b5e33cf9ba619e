# PraxisAI: a TLA+ model of the project lifecycle, its services and its web client

PraxisAI is a managed marketplace: clients bring projects, students and technical leads
carry them out, coordinators and administrators run them, universities watch aggregates.
The program is a FastAPI application over PostgreSQL (`apps/api/app`), a worker that
delivers outbox events and scans uploads, and a Next.js front end (`apps/web`). These
modules model the part where correctness is about *order*: the state machine of a project
and the money that follows it, the delivery of notifications, and the pages of the web
client against the handlers they call, where answers come late, twice or never.

Paths below are relative to `src/apps/api/app/` unless they start with `docs/`, `apps/`,
`components/`, `features/` or `lib/` (the last three under `src/apps/web/`).

## How the system executes

* A request handler is one database transaction at READ COMMITTED, with several awaits.
  What it reads without `FOR UPDATE` may have changed when it commits.
* `SELECT ... FOR UPDATE` on the project row serialises the handlers that use it. Rows
  inserted by the others reference the project and wait for the same lock (a foreign key
  takes KEY SHARE), so their commit is atomic with respect to the locked handlers, but what
  they read before is not protected. SQLAlchemy does not refresh an object that is already
  in the session (`expire_on_commit=False`, no `populate_existing`), and writes a column only
  if its value differs from the loaded one.
* `created_at` is `now()`, the *start* of the transaction, so "latest by `created_at`" is the
  request that began last, not the one that committed last.
* Several API processes and workers run at once. A process can die between two statements;
  its transaction rolls back.

This gives the granularity of the models: a handler under the row lock is one step; a handler
that reads first and commits later is two steps or more, with the values it read kept in
`req[r]` ("request in flight"); a refusal, a crash or a lost connection is `Abandon`, which
changes nothing but `req[r]`.

On the browser's side a press is a step of its own, so is the server's commit, and so is the
arrival of the answer. Mutations and the query cache (TanStack Query) are not serialised with
each other: a refetch that was answered before a write may arrive after it, a page may be
left, reloaded or signed out in between, and an answer may be lost after the commit.

## Inventory

| component | state | operations | what is hard | correct when |
|---|---|---|---|---|
| project state machine (`projects/service.py`) | project row, `project_transitions` | `transition_project` | retries, reused keys, stale versions, exits from every state | history is unbroken, a retry has no second effect, closed stays closed |
| scoping, quotes, funding (`api/projects.py`, `billing/service.py`) | scope versions, quotes, payment events, ledger | `run_scope_agent`, `create_quote`, `record_manual_funding` | unlocked reads before commit, racing keys | terms are accepted once and on record, evidence counts once |
| staffing, offers, planning (`api/projects.py`, `offers/service.py`) | staffing runs, offers, assignments, plans | create and decide offers, run and decide plans | offers that outlive a transition, concurrent plan runs, late quotes and scope runs | the team is chosen in its phase, work starts on a current plan |
| delivery, QA, lead review (`api/projects.py`) | deliverables, artifacts, reviews | submit, `run_qa_agent`, `create_lead_review`, release | reviews and deliverables that overtake each other | nothing reaches the client without evidence |
| scope control (`change_orders/service.py`) | scope-change requests, change orders, decisions | request, order, decide | one request answered twice, funding of an accepted order | orders answer requests, work is covered by the deposit |
| payouts (`api/billing.py`, `billing/service.py`) | allocations, payouts, ledger | allocate, approve, record evidence, complete | overlapping roles, racing evidence | paid once, within funds, by separate people |
| outbox, notifications, worker (`outbox`, `notifications`, `worker.py`, `operations`) | events, job attempts, notifications | claim, handle, settle, requeue, recover | crashes after the claim, workers that outlive the cut-off | told once, nothing stuck, nothing given up early |
| public intake (`intake/service.py`, `components/public-intake-form.tsx`) | submissions, key reservations, reviews | reserve, create, review, anonymise, delete, sweep | racing reservations, a client timer, privacy actions beside reviews | "received" is true, privacy is terminal |
| talent marketplace (`talent/service.py`, the employer's and the student's pages), learning | opportunities, proposals, enrolments | publish, submit, decide, complete modules | lock order, pages kept up to date by hand | one proposal is selected, pages agree with it |
| internships (`internships/service.py`, `api/internships_public.py`, the student's pages) | signups, applications, units, drafts, submissions | sign up, save, submit, decide, record, finalize | two tabs, a second device, an unlocked new start, mails followed late | what is submitted is what was read |
| uploads (`internships/service.py`, `worker.py`) | upload sessions, objects | upload, scan, give up, expire, attach | the scan races the student, a poll that stops | only scanned files are sealed, no endless "scanning" |
| credentials (`credentials/lifecycle.py`, `api/credentials.py`, the verify page) | credentials, revocations | issue, revoke, check | unlocked lookups, checks of several reads | "valid" hides no revocation; one credential each |
| university (`university/service.py`, its portal) | consents, metrics, exports | report, export | threshold while consent changes, two shapes under one cache key | no small cohort leaves the API |
| proxy and session (`apps/web/app/api/v1`, `lib/api-proxy.ts`, `auth/`) | configuration, token, deadline | forward, refuse, time out | an API that says nothing | answers are true, queries end |
| workspace shell (`components/app-shell.tsx`, navigation, `use-workspace-data.ts`) | account, query cache, requests in flight | sign in and out, navigate, query, write | answers to the account before | data belong to the session |
| project console (`components/project-command-center.tsx`) | what each tab shows | press, answer, refetch | stale views | offers what `RULES` allows, speaks the protocol |
| project intake form (`components/client-project-intake.tsx`) | form, stored draft | edit, reload, submit | failed and lost requests | no complete draft is lost |
| evaluator's pages (`features/judge/`) | panels, digests, walkthrough | select, run, tamper, play | delayed and overlapping results | what stands together belongs together |
| rate limits, work management, governance, agents, pricing and matching, read-only workspaces, schema, infrastructure, marketing pages | | | | not modelled, see below |

## Modules

| module | models |
|---|---|
| `ProjectRules` | states, roles, the `RULES` table with its loop of exits, the funding gate |
| `ProjectTransition` | the protocol of `POST /projects/{id}/transition` over several projects: what clients saw, requests that arrive late, twice or never, idempotency keys |
| `ProjectRecord` | the project row, ledger, approvals and requests in flight shared by the phases; `Move` is the common part of `transition_project`, `Post` of `post_balanced_transaction` |
| `ProjectScoping` | DRAFT to STAFFING: scope runs, quotes, the two approvals, funding |
| `ProjectStaffing` (extends it) | STAFFING to ACTIVE: staffing runs, offers, plans, and late requests of the phase before |
| `ProjectDelivery` (extends it) | ACTIVE to ACCEPTED: deliverables, QA, reviews, revisions, change orders |
| `ProjectSettlement` (extends it) | ACCEPTED to COMPLETED: allocations, approvals, payout evidence |
| `Outbox` | events, job attempts, workers, requeueing, recovery, in-app delivery |
| `ApiGateway` | a query with its retries, the proxy route with configuration, token and deadline, an API that answers, breaks off or is silent |
| `WorkspaceShell` | one tab signed in: routes and what each asks for, the query cache with answers in flight, writes of the queue pages, navigation, the primary action per role |
| `ProjectConsole` | the project page in several tabs: what is offered, pressed, answered, lost, refetched |
| `SubmissionDesk` | the submission editor: saves, uploads, scans, polling, finalizing, a second device |
| `InternshipPortal` | applying to a cohort in two tabs with a coordinator deciding; units and their evidence |
| `StudentSignup` | program pages, the signup page, the verification mail and its callback, provisioning, over two tabs of one browser |
| `TalentDesk` | the hiring page, the career page, colleagues and other students; `decide_proposal` lock by lock; learning modules |
| `IntakeDesk` | the contact form with its key and 15-second timer, the handler with its reservation, the review page, privacy actions and the sweep, crashes of the API |
| `ClientIntake` | the client's project form with its local draft |
| `CredentialDesk` | issue, revocation, the public check read by read, the verify page |
| `RecordsDesk` | notifications, preferences, dead letters, exports and outcomes: pages that edit the query cache by hand, two of them with another shape under the same key |
| `JudgePage` | the sandbox's delayed panels and digests, its price sliders, the walkthrough |
| `...Proofs` | theorems |
| `MC...` | constants and symmetry for TLC; `MCProjectDeliveryFocus` and `MCWebClient` compose |

Each phase module states its own `...Next`; its start (`StaffingStart`, `DeliveryStart`,
`SettlementStart`) is a project as the phase before leaves it, with the requests of that phase
that may still be in flight. The phases share one set of variables, so they compose by
disjunction. `transition_project` appears once per target state: the checks of the target are
the guard of its action, and `Move` adds version, rule, role and funding.

In `Outbox`, `Claim` is the first transaction of `process_one`, `Handle` the handler's reads
(its rows are only in the session), `Succeed`, `Collide` and `Fail` the three ways the second
transaction ends, `Crash` a process that ends in between.

A page module keeps three kinds of state: what the page shows (its React state and its part
of the query cache), what is on its way, and the server's rows as far as the page can tell
them apart. The handler it calls is modelled in full where it reads and writes in several
steps (`TalentDesk`, `IntakeDesk`, `CredentialDesk`, `StudentSignup`, `SubmissionDesk`);
`ProjectConsole` uses `Allowed` and `FundingConfirmed` of `ProjectRules` for the server, so
the TypeScript conditions and the Python table are compared with each other.

`ProjectConsole` implements `ProjectTransition`: `ImplementsProtocol` is the abstract
specification under the refinement mapping that takes the page's view for the client's view,
a press for a request with a key of its own, and the recorded row of a sent request for its
acknowledgement. Late refetches and lost answers are stutters or steps of the protocol.

Abstractions: titles, prompts, texts, hashes and audit events are left out; a prompt version
is a model value, a price a small number, an artifact one of three classes, the fields of a
form one text or whether they pass the schema. Time is not a clock: an offer may expire, a
backoff be over, a timer fire or a claim be stale whenever the model lets it.

## What the runs check

Runs that pass:

| run | properties | what is shown |
|---|---|---|
| `MCProjectTransition` | `HistoryChains`, `AckedIsRecorded`, `AppliedAsSeen`, `NoReturn` | rows form an unbroken history; a 200 is never about somebody else's move; a stale request is refused even when the project is back in the state it was formed from; PAUSED, DISPUTED and CANCELED never lead back to work |
| `MCProjectScoping` | `TermsOnRecord`, `FundingCountedOnce` | one accepted scope and quote, both on record, before any money; the funded amount equals ledger and payment events |
| `MCProjectStaffing` | `TeamSettled`, `TeamFrozen`, `WorkOnCurrentPlan` | assignments are exactly the accepted offers and change only in their phase, although `decide_offer` never reads the state; approved plans are of the current version and scope |
| `MCProjectDeliveryFocus` | `ReleasedOnEvidence`, `FundedWork`, `OrdersAnswerRequests` | whenever the client is shown work, some sound deliverable has passed QA; and the step that released it found a lead who is not its author where the complexity *of that moment* asked for one, although scope runs of the scoping phase may overwrite the complexity until the end; the deposit is the accepted quote plus the accepted orders (as long as no late quote was added), and work in progress is covered |
| `MCProjectSettlement` | `PaidWithinFunds`, `PaidOnce`, `CompletedIsSettled` | allocations stay within funds and entitlements, a payout has one allocation, one key, and a creator, approver and recorder who check each other |
| `MCOutbox` | `ClaimIsExclusive`, `DeliveredOnce`, `DeadLetterEarned`, `AttemptsFinal`, `Settles` | one notification per event whoever repeats the job; none given up early; exclusive claims until a worker outlives the cut-off; every event is eventually settled |
| `MCWebClient` | nineteen, below | the pages against their handlers |

`MCWebClient` composes the page modules. They share the session and the API but no state of
their own, so a product of pages would show nothing a page does not: a behaviour has one
page, chosen at its start (`page`), and all other variables keep still. This is one run of
164,580 distinct states instead of a dozen small ones.

| module | property | what could go wrong |
|---|---|---|
| `ApiGateway` | `AnswersAreTrue` | a configuration error is reported for a request the API has handled; a hosted API is called without TLS, or with the browser's token |
| | `QueryEnds` | an API that says nothing keeps the page waiting for ever |
| `WorkspaceShell` | `DataOfTheSession` | a query in flight at sign-out is answered for the next person |
| | `WritesAreShown` | a list read before a write passes for fresh after it |
| `ProjectConsole` | `ImplementsProtocol` | a press is sent with another version or key than the page showed |
| | `OffersLegalMoves` | a button that `RULES` or the funding gate refuses |
| | `NoticeIsEarned` | "done" for a move or a receipt that was refused or lost |
| `SubmissionDesk` | `FinalizedAsShown` | another device's save, a half emptied draft or a file that was never scanned is sealed; a late new start gives the finalized row other contents |
| | `VerdictShown` | a file stays "scanning" on the screen after its verdict |
| `InternshipPortal` | `ActedOnAsRead` | an application is submitted or decided with a text nobody read |
| `StudentSignup` | `AppliedAsChosen` | two users for one identity, an application to a cohort nobody chose, an application page without an application |
| `TalentDesk` | `DecisionsAgree` | two proposals accepted; a page shows a decision the server did not take |
| `IntakeDesk` | `ReceivedIsStored` | "received" for contents that are not stored, after a key was reused, taken over or cut off |
| | `PrivacyIsTerminal` | a review brings an anonymized record back (`docs/public-intake-privacy.md`) |
| `ClientIntake` | `CompleteDraftKept` | a failed request or a reload loses a complete form |
| `CredentialDesk` | `RevocationHonoured` | a card says valid for a credential revoked before its check |
| `JudgePage` | `SandboxIsConsistent` | a hash beside the verdict on another payload; a walkthrough that plays against reduced motion |
| `RecordsDesk` | `NoticesAreTrue` | a notice or a preference shown as saved that is not |
| | `SuppressedStaysHidden` | figures of a cohort below the threshold in a file or an export |

Runs that show a disagreement between the code and what is said of it:

| run | property | finding |
|---|---|---|
| `MCProjectScopingTerms` | `TermsImmutableOnceSent` | `create_quote` checks the state before, not when, it commits: a quote and a new deposit appear after the terms were sent or accepted |
| `MCProjectDeliveryStale` | `ReleasedIsReviewed` | the release check looks at the latest review of *any* deliverable, so the client can be shown one that no review passed |
| `MCProjectDeliveryFunding` | `ChangeCarriedOut` | an accepted change order raises the deposit where no funding evidence is taken, so its work cannot resume; the test of this path writes `funded_minor` itself |
| `MCProjectSettlementReferences` | `ReferencesUnique` | one external payout reference is recorded for two allocations by concurrent requests |
| `MCCredentialDesk` | `OneCredential` | two issue requests for one student and project both find none and insert two; the refusal says a credential exists once |

### Bounds

Two request slots are the fewest in which one request overtakes another, which is what every
race in the project handlers is; a third adds another victim, no new kind of race. Two
projects are needed to try a key on the wrong one, three keys to have a fresh one left. Two
quotes, scope runs, plans, offers, deliverables and reviews: the current one and one that is
late. Two change requests: one that is answered and one that follows. `MaxVersion` bounds the
number of transitions at the path through the phase, plus a detour. Amounts are 1 to 3, so
that a deposit is just covered, exceeded, or short by one. In `MCOutbox` two workers, two
attempts, one crash, one recovery and one overrun: a late result meets an event that was
delivered, given up, recovered or claimed again.

`MCProjectDeliveryFocus` splits the delivery phase in two kinds of behaviour, which share no
race: two deliverables with two QA runs that overtake each other and a late scope run, or two
scope-change requests with their orders and a late quote. `Detours` restricts which of PAUSED, DISPUTED and CANCELED
a run tries; they have the same checks and `MCProjectScoping` tries all of them.

In `MCWebClient` a page gets two of what can overtake each other (tabs, texts, uploads,
proposals, keys, decisions) and one fault; what is pressed is bounded by the `Max...Inputs`
and the other `Max` constants. `SubmissionDesk` has one upload, so that two disturbances of `MaxReloads` (a
reload, another device's save, a new start, a scan given up, an expiry) can meet one finalization;
`MaxSdVersion` leaves room for a save beside the two that lead to it. `MaxPresses` is 10: the
console's lifecycle buttons lead from DRAFT to ACTIVE in nine moves and none is offered after
that, so 10 leaves one press to spare (larger values reach the same states). `MaxSuInputs` is 6
so that a mail is sent and followed, and two tabs provision. Deployments differ in `Configurations`: unset, in range and out of range.

`CHECK_DEADLOCK FALSE` everywhere: a project may be closed, an outbox settled, a form sent,
and bounded requests used up. The one deadlock the code can meet is between the row locks of two
decisions (`TalentDesk`). The lock order does not exclude it; the database's deadlock detector rolls
one of them back (`BreakDeadlock`, external), and what is checked is that the rows agree after it. That
the decisions end is the database's doing and no property of this code.

### Fairness

Safety needs none.

* `Settles` assumes `Scheduling`: the scheduler starts workers for ever (the Cloud Run job of
  `infra/terraform/main.tf`), every run first requeues stale claims (weak fairness of
  `Requeue` for each stale event) and then visits the available events (strong fairness of a
  claim: an event may be repeatedly, not continuously, available to a free worker), and a
  handler returns or raises (weak fairness of `Work`). Crashes are bounded; an unlimited
  series of crashes would starve any retry.
* `ChangeCarriedOut` is refuted under `PersistentSpec`, which assumes that the client keeps
  presenting evidence (weak fairness to begin, strong to commit) and that the coordinator
  keeps asking for the move: the counterexample is not somebody who gave up.
* `QueryEnds` assumes weak fairness of the proxy and its timer and of the query's retries
  (`GwSteps`), and nothing of the API: `AbortSignal.timeout` fires although the API is silent.
  Nothing is assumed of the call for an identity token, which the signal does not cover
  (`route.ts:107`): in a hosted environment a query may be held up there, and the property says so.
* `VerdictShown` assumes that a poll which the page keeps making is answered in the end, weak
  fairness of `Poll` where it has news (`SdFairness`). The worker need not do anything: the
  property begins when the scan is over. A poll is made in the foreground only, until the file
  expires, and never after a first fetch that failed; the property leaves a page in the
  background and an expired file alone.

## What is proved

TLAPS checks the following for every value of the constants, from the named assumptions of
the modules.

| module | theorems | inductive invariant |
|---|---|---|
| `ProjectTransitionProofs` | `TypeCorrect`, `HistoryIsComplete`, `AckedOnce`, `NothingStaleApplied` (`AppliedAsSeen`), `NoReturnHolds` | adds `Fresh`, a project at version 1 is in DRAFT, and `SeenIsHistory`: what a client saw, and every request it formed, is the present of the project or the `from` of a recorded row |
| `OutboxProofs` | `TypeCorrect`, `ToldOnce` (`DeliveredOnce`), `RunningHasAttempt`, `GivenUpLate` (`DeadLetterEarned`), `MutualExclusion` (`ClaimIsExclusive`), `AttemptsStayFinal` | adds `JobsRecorded`: a worker's attempt is on record, and the notification a handler found is still there |
| `ProjectScopingProofs` | `ScopingTypes`, `TermsSettledOnce` (`TermsOnRecord`), `FundsCountedOnce` (`FundingCountedOnce`) | `TermsInv` adds that nothing is accepted before the client was asked, that a scope the coordinator approved has its approval, and that `funded` is the sum of a finite set of payment events |
| `ProjectStaffingProofs` | `StaffingTypes`, `TeamIsSettled` (`TeamSettled`), `TeamIsFrozen` (`TeamFrozen`), `WorkIsPlanned` (`WorkOnCurrentPlan`) | `TeamInv` adds `OffersOfTheirPhase`: no offer is of a later version, and one of the present version means AWAITING_STUDENT_ACCEPTANCE; `PlansInv` adds that no plan, plan run or plan approval precedes READY_TO_START, and that in it all of them are of the present version and the accepted scope |
| `ProjectDeliveryProofs` | `DeliveryTypes`, `ReleaseHasEvidence` (`ReleasedOnEvidence`), `OrdersAreAnswers` (`OrdersAnswerRequests`), `WorkIsFunded` (`FundedWork`) | `EvidenceInv`: rows are numbered by their ids wherever `created_at` puts them, a QA run holds a deliverable that exists, a review that passed is of a sound one, a release found its evidence; `OrdersInv`: an order under review answers the latest request; `FundedInv`: the deposit by price and accepted orders, with the two states of a decided order |
| `ProjectSettlementProofs` | `SettlementTypes`, `PayoutsAreMadeOnce` (`PaidOnce`), `CompletionIsSettled` (`CompletedIsSettled`), `MoneyIsCovered` (`PaidWithinFunds`) | `PayoutInv` adds `CallsHoldTheirRow`: a request that will commit holds an APPROVED allocation nobody else holds; `ApprovedByAnother`; `PayoutsOnRows`; `MoneyInv` states the ledger over the paid allocations |
| `WebSessionProofs` | `DataStaysWithAccount` (`DataOfTheSession`), `WritesReachTheList` (`WritesAreShown`), `RoutesAreServed`, `ActionsLeadOn`, `AnswersStayTrue` (`AnswersAreTrue`), `ButtonsAreLegal` (`OffersLegalMoves`), `NoticesAreEarned` (`NoticeIsEarned`), `PagesSpeakTheProtocol` (`ImplementsProtocol`) | `ShInv` adds that a request under way is the session's and that a list under way was read after every answered write; `GwInv`, what each stage of the proxy has checked; `ConsoleInv`, below |
| `WebDeskProofs` | `NoRevocationHidden` (`RevocationHonoured`), `PriceIsCovered` (`SharesCoverPrice`), `SandboxStaysConsistent` (`SandboxIsConsistent`), `DraftsAreKept` (`CompleteDraftKept`), `ApplicationsAreChosen` (`AppliedAsChosen`), `FinalizedIsConfirmed` (`FinalizedAsShown`), `ApplicationsActedOnAsRead` (`ActedOnAsRead`), `DecisionsAlwaysAgree` (`DecisionsAgree`), `ReceivedIsTrue` (`ReceivedIsStored`), `PrivacyStaysTerminal` (`PrivacyIsTerminal`), `PagesSayWhatIsDone` (`NoticesAreTrue`), `SmallCohortsStayHidden` (`SuppressedStaysHidden`) | one per page: what each stage of a call under way has read and what of it still holds |

The pages are proved one by one, each under its own specification (`ShSpec`, `GwSpec`,
`ConsoleSpec`, `SdSpec`, ...), of which `MCWebClient` is the choice.

How the arguments go:

* Transitions. A request whose expected version is the current one must have seen the current
  state, because a row with that version would contradict `HistoryChains`; this is why the
  version check alone suffices.
* Outbox. Exclusion is carried by the status: a busy worker's event is RUNNING, only PENDING
  events are claimed, and before the first overrun only abandoned events become PENDING
  again. Given exclusion, the attempt a worker settles is the last and is RUNNING.
* Terms. A late scope run or quote only appends a PROPOSED scope or a DRAFT quote; the two
  approvals look at the last one, each in a state no edge leads back to.
* Sums. `SumFunction` is a fold, a recursive function over subsets. That it adds a new element, is
  monotone and depends on its values alone is proved by least counterexamples (`SubsetMin`:
  a finite set's subsets are well-founded under inclusion), which needs no induction rule.
  Funds, deposits, allocations and the ledger rest on these lemmas.
* Team. `decide_offer` never reads the state, but every transition moves the version past all
  offers, and an offer is made in AWAITING_STUDENT_ACCEPTANCE at the present version; hence an
  offer that can still be decided is of that state, and after `ConfirmTeam` none is open.
* Plans. A plan run can begin only once the team is confirmed, and READY_TO_START is entered
  once. In it nothing moves the version or accepts a scope (a late scope run appends a
  proposal), so whichever run commits last has read the same project.
* Evidence. Rows are inserted by the start of their request, so positions say nothing; ids do.
  A run keeps the artifact it read, deliverables are never changed, and the release check
  leaves its witnesses in tables that only grow, so the sound deliverable stays (`SoundPassed`).
  Whether a lead was needed does not stay: a late scope run may overwrite the complexity in
  any state. That half is a property of the releasing step (`ReleaseStep`).
* Orders and funds. An order takes the latest request and is the last order under review,
  while in that state no request is added. An accepted order raises the deposit and its own
  sum by the same amount; leaving the review for work passes the funding check again.
* Payouts. The row lock of the allocation is what counts, not the unlocked lookup of the key:
  two requests cannot hold one row, its approver is fixed before the request begins, and
  UNIQUE (`idempotency_key`) decides between two keys that raced. An allocation is checked
  under the project's lock against everything allocated, so the sum stays within the funds;
  a payout moves its amount from the ledger once because its row turns PAID once.
* Shell. Signing out cancels and clears, a page load forgets everything; a write raises the
  version every later answer must have.
* Console and refinement. `ConsoleInv` says that requests are numbered by their presses, that
  an answered press has its row, that there is one row per version the project has left, and
  that what a tab shows, or will show when a late answer comes, is the project's present or a
  recorded past. Then each step is matched: a press is a request formed on what was seen, the
  commit is the protocol's own, and a refetch brings the view to the present; lost answers and
  receipts are stutters. The theorems of `ProjectTransitionProofs` so hold of the pages.
* Applications and submissions. A version that a reader holds is at most the row's, and names
  the row's contents when equal, since a save moves the version; a finalization keeps the
  contents that were pressed as long as its version is the draft's. A new start empties columns
  without moving the version; a draft that lost one fails the checks, and one that passes them is what was
  pressed until the lock is released (`HeldKnows`), since a start has to wait for it too.
* Hiring. Whoever holds the opportunity's lock holds it alone, and what was checked under it
  stays so until commit; a verdict is never taken back, so a page that shows one is right.
* Intake. What a request has read of a reservation may be out of date in its status, never in
  its hash; a record, once there, keeps its hash, and outlives the status of its reservation,
  which a late `mark_idempotency_failed` may overwrite. A review commits under the
  row's lock on a record that is not private; a privacy write only ever adds to privacy.
* Records. The server's set of notices read, the writes carried out and the cohort an export
  was admitted on only grow or are fixed with the call, so an answer that is old is still true.
* `RoutesAreServed` and `ActionsLeadOn` have no state: they quantify over every path, role and
  state, where a run would enumerate a few. The coordinator's overview is the exception that
  `RoutesAreServed` names: its panel lists projects, `routeError` watches other queries, and a
  failed projects query leaves a skeleton there.
* Shares. The rates of the slider are multiples of five, so every price in minor units is one;
  of such a price the three rounded shares lose nothing and gain one unit at most. Of other
  prices they can lose one.

Assumptions on the constants are named in the module that declares them, and TLC evaluates
each. Beside the types of the bounds they say that a form has some contents (`Bodies # {}`),
that the student at the desk is one of the students and no student is the opportunity
(`TalentAssumption`), and that "none" is no cohort (`SignupAssumption`).

Only model-checked: what is refuted, since a counterexample needs no proof; and everything
under fairness (`Settles`, `QueryEnds`, `VerdictShown`), as the prover has
neither ENABLED nor the rules for liveness. Every invariant and every action property of the
passing runs is proved. The composition of the delivery phase in `MCProjectDeliveryFocus` and of the
pages in `MCWebClient` is for TLC; the theorems are about the specifications it composes.

## What the models show besides

Behaviour of the code found while modelling that no run refutes a statement with:

* Projects. A scope-change request is not consumed by the revision it leads to, so until
  another deliverable is submitted it serves for a further one, also beyond the quote's
  revision rounds (`change_orders/service.py:115`). PAUSED and DISPUTED have no edge back to
  work. An artifact is stored with scan status PENDING, which nothing updates, so its QA is
  refused for ever (`api/projects.py:1229`). Capacity is checked against `committed_hours`,
  which no request increases (`offers/service.py:70`). The same bank evidence under two keys
  counts twice (`billing/service.py:127`).
* Worker. `requeue_stale_running_events` (`worker.py:301`) ignores the number of attempts, so
  an event that makes its workers crash is retried for ever. `UniversityExportRequested` has no
  handler; export jobs stay PENDING.
* Project console. `client_owner` lacks the capability `projects:view`. A technical lead under
  `/student` is offered the student's offer-review action. The isolated offers page never
  disables its buttons, so an answer can be sent twice.
* Proxy. Its timeout does not cover the call for the identity token, and the expression by
  which `retryTransientError` recognises an error never matches the API's envelopes.
* Submissions. `create_submission_draft` reads DRAFT without the lock (`internships/service.py:1133`), so
  it can empty the row of a submission that is finalized meanwhile, although
  `save_submission` says finalized submissions are immutable and `docs/database-schema.md:82` calls
  submission attempts so;
  `canonical_hash` and `artifact_snapshot` keep what was sealed, and then differ from the row. A scan that is
  given up (`worker.py:261`) marks an upload and deletes its object in any state, attached ones
  included, so the object of a sealed file can be gone.
* Submission editor. A file whose first fetch failed blocks uploading and finalizing until the page is loaded again
  (the refetch when the browser comes back online is left out). What is typed during a save is
  overwritten by the save's answer, and "Draft saved" is not shown after a remount. The text of one unit's evidence stays in the
  field of the next unit. A coordinator may decide an application in ELIGIBILITY_REVIEW that
  was not submitted.
* Sign-up. CHECK_EMAIL also leads to the application page, which without a session is the
  login page; "Restart verification" forgets program and cohort.
* Project form. An incomplete draft does not survive a reload (`partial()` rejects empty
  fields), and a second press after a lost answer creates a second project, as the request has
  no Idempotency-Key.
* University. The portal shows and exports sample figures without a label when an answer is of
  the other shape (`README.md:88` says demo data are always labelled;
  `docs/core-product-completion-audit.md:40` names the collision). `get_export_csv_content`
  does not refuse a suppressed cohort but writes zeros marked COMPLIANT. An export can appear
  twice or revert on the screen, since `setQueryData` does not cancel a refetch.
* Verify page. The evidence hash is a constant, NOT_FOUND is shown as revoked or invalid, the
  identifier shown is the input box's, and a failed check keeps the earlier card.
* Evaluator's pages. The shares of the price may exceed it by one minor unit; a result can
  appear under another preset; a policy rejection names no model; the matching offer ignores
  risk and revisions; a failed digest shows an error beside the earlier verdict.

## Not modelled

* Rate limits: one counter under a row lock, exact within its fixed window; at the window's
  edge twice the limit can pass, which is what a fixed window means. `IntakeDesk` counts a
  refusal as an input.
* Authentication on the server: a caller's role is an input. Sessions are modelled as the
  shell and the sign-up page see them.
* The language-model provider and `runAiReview`: any answer, or none, is an input where a
  handler waits for it.
* Pricing and matching arithmetic of the API, governance rows, work-management tasks (last
  write wins and nothing else reads them), read-only workspaces, check-ins, milestones.
* Internship reviews, completion and certificates; cohorts and rosters; the retention sweep.
* Storage back ends, migrations, infrastructure, the generated API types, marketing pages,
  layout and wording.

## What would come next

An escrow (money in, allocated, paid) that `ProjectScoping` and `ProjectSettlement` implement,
proved as a refinement with the lemmas on sums; the reviews and certificates of internships;
an abstract desk of which credentials, intake and hiring are three implementations.

Recursion is avoided in all modules that proofs use; sums are `SumFunction` of the community
modules.
