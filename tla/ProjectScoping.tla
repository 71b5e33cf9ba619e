--------------------------- MODULE ProjectScoping ---------------------------
(***************************************************************************)
(* From a draft to a funded project: the scoping agent, the quotes, the    *)
(* two approvals and the funding evidence.                                 *)
(*                                                                         *)
(* run_scope_agent checks the state before it takes the lock, create_quote *)
(* never takes it, and record_manual_funding looks its key up before it    *)
(* does: these three are the requests in flight of this module.            *)
(***************************************************************************)
EXTENDS ProjectRecord, SequencesExt, FiniteSetsExt

CONSTANTS
  Prompts,   \* prompt versions that deployed API instances may carry
  Bases,     \* base_minor of the quotes coordinators calculate
  Amounts,   \* amounts of funding evidence
  PayKeys,   \* Idempotency-Key values of funding requests
  MaxQuotes  \* bound on the quote versions

ASSUME ScopingAssumption ==
  /\ Bases \subseteq Nat \ {0}
  /\ Amounts \subseteq Nat \ {0}

VARIABLES
  scopes,    \* project_scope_versions: the status of version 1, 2, ...
  scopedBy,  \* prompt versions with a SUCCEEDED scoping run
  quotes,    \* quotes: version 1, 2, ...
  payments   \* payment_events

scopingRows == <<scopes, scopedBy, quotes, payments>>
scopingVars == <<record, req, scopingRows>>

ScopeStatus == {"PROPOSED", "COORDINATOR_APPROVED", "CLIENT_ACCEPTED"}
Quotes == [scope : Nat, base : Nat, status : {"DRAFT", "CLIENT_ACCEPTED"}]
Payments == [key : PayKeys, amount : Amounts]

ScopeCalls == [op : {"scope"}, prompt : Prompts, seen : {"LOW", "HIGH"}]
QuoteLoads == [op : {"quote"}, seen : Nat]
QuotePrices == [op : {"priced"}, seen : Nat, scope : Nat, base : Bases]
QuoteNumbers == [op : {"numbered"}, seen : Nat, scope : Nat, base : Bases, number : Nat]
FundingCalls == [op : {"fund"}, row : Payments]

ScopingTypeOK ==
  /\ RecordTypeOK
  /\ scopes \in Seq(ScopeStatus)
  /\ scopedBy \subseteq Prompts
  /\ quotes \in Seq(Quotes)
  /\ payments \subseteq Payments
  /\ \A r \in Requests :
       /\ In(r, "scope") => req[r] \in ScopeCalls
       /\ In(r, "quote") => req[r] \in QuoteLoads
       /\ In(r, "priced") => req[r] \in QuotePrices
       /\ In(r, "numbered") => req[r] \in QuoteNumbers
       /\ In(r, "fund") => req[r] \in FundingCalls

ScopingInit ==
  /\ scopes = <<>>
  /\ scopedBy = {}
  /\ quotes = <<>>
  /\ payments = {}

\* The row that ORDER BY version DESC returns first has this status.
\* Mutant: the status is part of the query, not a check of its result.
SomeScopeIs(status) == \E n \in 1..Len(scopes) : scopes[n] = status
LatestScopeIs(status) == scopes # <<>> /\ scopes[Len(scopes)] = status

\* What an assignment to a column commits: the ORM writes it only where the value
\* differs from the one this session loaded in its first, unlocked read; a later
\* SELECT ... FOR UPDATE locks the row but does not refresh the loaded object.
Written(value, seen, current) == IF value = seen THEN current ELSE value

----------------------------------------------------------------------------
(* run_scope_agent. *)

StartScopeRun(r, prompt) ==
  /\ Free(r)
  /\ state = "SCOPING"
  /\ Hold(r, [op |-> "scope", prompt |-> prompt, seen |-> complexity])
  /\ UNCHANGED <<record, scopingRows>>

\* Under the lock: a run with the same prompt and the same intake snapshot is
\* returned; otherwise the provider answers and the scope becomes the next version.
FinishScopeRun(r, level) ==
  /\ In(r, "scope")
  /\ req[r].prompt \notin scopedBy
  /\ scopedBy' = scopedBy \cup {req[r].prompt}
  /\ scopes' = Append(scopes, "PROPOSED")
  /\ complexity' = Written(level, req[r].seen, complexity)
  /\ Release(r)
  /\ UNCHANGED <<state, version, money, approvals, quotes, payments>>

----------------------------------------------------------------------------
(* create_quote: three reads without a lock, then the insert and the update. *)

LoadForQuote(r) ==
  /\ Free(r)
  /\ state = "AWAITING_COORDINATOR_SCOPE_APPROVAL"
  /\ Hold(r, [op |-> "quote", seen |-> required])
  /\ UNCHANGED <<record, scopingRows>>

PriceQuote(r, base) ==
  /\ In(r, "quote")
  /\ LatestScopeIs("PROPOSED")
  /\ Hold(r, [op |-> "priced", seen |-> req[r].seen, scope |-> Len(scopes), base |-> base])
  /\ UNCHANGED <<record, scopingRows>>

NumberQuote(r) ==
  /\ In(r, "priced")
  /\ Hold(r, [op |-> "numbered", seen |-> req[r].seen, scope |-> req[r].scope,
              base |-> req[r].base, number |-> Len(quotes) + 1])
  /\ UNCHANGED <<record, scopingRows>>

\* UNIQUE (project_id, version) refuses the insert if another quote took the
\* version.
CommitQuote(r) ==
  /\ In(r, "numbered")
  /\ req[r].number = Len(quotes) + 1
  /\ req[r].number <= MaxQuotes
  /\ quotes' = Append(quotes, [scope |-> req[r].scope, base |-> req[r].base,
                               status |-> "DRAFT"])
  /\ required' = Written(req[r].base, req[r].seen, required)
  /\ Release(r)
  /\ UNCHANGED <<state, version, funded, complexity, ledger, approvals, scopes, scopedBy,
                 payments>>

----------------------------------------------------------------------------
(* record_manual_funding. *)

\* No payment event has this key.
NeverLookedUp(key) == TRUE  \* mutant
Unrecorded(key) == \A p \in payments : p.key # key

CheckFunding(r, key, amount) ==
  /\ Free(r)
  /\ Unrecorded(key)
  /\ Hold(r, [op |-> "fund", row |-> [key |-> key, amount |-> amount]])
  /\ UNCHANGED <<record, scopingRows>>

\* provider_event_id is UNIQUE: a concurrent request with the same key that got
\* the lock first makes this one roll back.
CommitFunding(r) ==
  /\ In(r, "fund")
  /\ state = "AWAITING_DEPOSIT"
  /\ Unrecorded(req[r].row.key)
  /\ funded' = funded + req[r].row.amount
  /\ payments' = payments \cup {req[r].row}
  /\ Post("external_funding_evidence", "client_funding_liability", req[r].row.amount)
  /\ Release(r)
  /\ UNCHANGED <<state, version, required, complexity, approvals, scopes, scopedBy, quotes>>

----------------------------------------------------------------------------
(* transition_project, the targets of this phase. *)

SubmitProject(role) ==
  /\ Move(role, "SCOPING")
  /\ UNCHANGED <<approvals, scopingRows>>

CompleteScoping(role) ==
  /\ LatestScopeIs("PROPOSED")
  /\ Move(role, "AWAITING_COORDINATOR_SCOPE_APPROVAL")
  /\ UNCHANGED <<approvals, scopingRows>>

ApproveScope(role) ==
  /\ LatestScopeIs("PROPOSED")
  /\ quotes # <<>>
  /\ Move(role, "AWAITING_CLIENT_SCOPE_APPROVAL")
  /\ scopes' = [scopes EXCEPT ![Len(scopes)] = "COORDINATOR_APPROVED"]
  /\ Approve("scope", Len(scopes))
  /\ UNCHANGED <<scopedBy, quotes, payments>>

AcceptQuote(role) ==
  /\ LatestScopeIs("COORDINATOR_APPROVED")
  /\ quotes # <<>>
  /\ Move(role, "AWAITING_DEPOSIT")
  /\ scopes' = [scopes EXCEPT ![Len(scopes)] = "CLIENT_ACCEPTED"]
  /\ quotes' = [quotes EXCEPT ![Len(quotes)].status = "CLIENT_ACCEPTED"]
  /\ Approve("scope_and_quote", Len(quotes))
  /\ UNCHANGED <<scopedBy, payments>>

ConfirmFunding(role) ==
  /\ Move(role, "STAFFING")
  /\ UNCHANGED <<approvals, scopingRows>>

\* PAUSED, DISPUTED and CANCELED, from any state.
DivertFromScoping(role, to) ==
  /\ Divert(role, to)
  /\ UNCHANGED scopingRows

ScopeRuns ==
  \E r \in Requests :
    \/ \E prompt \in Prompts : StartScopeRun(r, prompt)
    \/ \E level \in {"LOW", "HIGH"} : FinishScopeRun(r, level)

QuoteRequests ==
  \E r \in Requests :
    \/ LoadForQuote(r)
    \/ \E base \in Bases : PriceQuote(r, base)
    \/ NumberQuote(r)
    \/ CommitQuote(r)

FundingRequests ==
  \E r \in Requests :
    \/ \E key \in PayKeys, amount \in Amounts : CheckFunding(r, key, amount)
    \/ CommitFunding(r)

ScopingTransitions ==
  \E role \in Roles :
    \/ SubmitProject(role)
    \/ CompleteScoping(role)
    \/ ApproveScope(role)
    \/ AcceptQuote(role)
    \/ ConfirmFunding(role)
    \/ \E to \in Detours : DivertFromScoping(role, to)

AbandonInScoping(r) == Abandon(r) /\ UNCHANGED scopingRows

ScopingNext ==
  \/ ScopeRuns
  \/ QuoteRequests
  \/ FundingRequests
  \/ ScopingTransitions
  \/ \E r \in Requests : AbandonInScoping(r)

ScopingStart == RecordInit /\ ScopingInit

ScopingSpec == ScopingStart /\ [][ScopingNext]_scopingVars

----------------------------------------------------------------------------
(* Properties. *)

Accepted == {n \in 1..Len(quotes) : quotes[n].status = "CLIENT_ACCEPTED"}
AcceptedScopes == {n \in 1..Len(scopes) : scopes[n] = "CLIENT_ACCEPTED"}
Approved(subject) == {a.ref : a \in {b \in approvals : b.subject = subject}}

\* The terms a project is carried out under are settled once and on record: at
\* most one scope and one quote are ever accepted, both or neither, the quote's
\* number and the scope's coordinator approval are in approvals, and no project
\* waits for money or is staffed without them, whatever scope run or quote was
\* still in flight when they were approved.
TermsOnRecord ==
  /\ \A m, n \in Accepted : m = n
  /\ \A m, n \in AcceptedScopes : m = n
  /\ Accepted = {} <=> AcceptedScopes = {}
  /\ Approved("scope_and_quote") = Accepted
  /\ AcceptedScopes \subseteq Approved("scope")
  /\ state \in {"AWAITING_DEPOSIT", "STAFFING"} => Accepted # {}

\* Funding evidence counts once: funded_minor is what the ledger owes the client,
\* a key is recorded at most once however often its request is repeated, and
\* money arrives only after the client accepted the terms.
PaidIn == SumFunction([p \in payments |-> p.amount])
FundingOnLedger ==
  /\ ledger["external_funding_evidence"] = funded
  /\ ledger["client_funding_liability"] = 0 - funded
  /\ \A p, q \in payments : p.key = q.key => p = q
  /\ payments # {} => Accepted # {}
FundingCountedOnce == FundingOnLedger /\ funded = PaidIn

\* What docs/data-model.md says: once scope and quote were sent to the client, no
\* further quote is added and the deposit stays (create_quote checks the state in
\* its first read and commits whenever it is done).
SentForApproval ==
  {"AWAITING_CLIENT_SCOPE_APPROVAL", "AWAITING_DEPOSIT", "STAFFING"}
TermsImmutableOnceSent ==
  [][(state \in SentForApproval) =>
       Len(quotes') = Len(quotes) /\ required' = required]_scopingVars
=============================================================================
