--------------------------- MODULE ProjectRecord ---------------------------
(***************************************************************************)
(* The row of one project, its ledger and its approvals, shared by the     *)
(* phase modules (ProjectScoping, ProjectStaffing, ProjectDelivery,        *)
(* ProjectSettlement), and the part of transition_project that every       *)
(* target has in common.                                                   *)
(*                                                                         *)
(* A request that takes the project's row lock (SELECT ... FOR UPDATE) is  *)
(* one step.  A request that reads the row without the lock and writes     *)
(* later is two steps or more: whatever is committed in between, it goes   *)
(* on with what it read.  Inserting a child row needs a key-share lock on  *)
(* the project, which the row lock excludes, so a commit is atomic with    *)
(* respect to the locked requests.                                         *)
(***************************************************************************)
EXTENDS ProjectRules

CONSTANTS
  Requests,   \* slots for the requests in flight, each in at most one handler
  Detours,    \* those of PAUSED, DISPUTED and CANCELED that requests ask for
  MaxVersion  \* bound: no transition is applied at this version

ASSUME RecordAssumption ==
  /\ Detours \subseteq {"PAUSED", "DISPUTED", "CANCELED"}
  /\ MaxVersion \in Nat

VARIABLES
  state,       \* projects.state
  version,     \* projects.version
  required,    \* projects.required_deposit_minor
  funded,      \* projects.funded_minor
  complexity,  \* projects.complexity: "LOW", or anything else
  ledger,      \* the balance of each ledger account: the sum of its entries
  approvals,   \* rows of approvals: subject_type, subject_id, decision
  req          \* what each request in flight has read, and the handler it is in

record == <<state, version, required, funded, complexity, ledger, approvals>>
\* The columns a transition without an Approval row leaves alone.
money == <<required, funded, ledger>>

Accounts == {"external_funding_evidence", "client_funding_liability",
             "external_payout_evidence"}
Subjects == {"scope", "scope_and_quote", "staffing", "plan", "release", "change_order"}
Approvals == [subject : Subjects, ref : Nat, decision : {"APPROVED", "REJECTED", "ACCEPTED"}]

Idle == [op |-> "idle"]

RecordTypeOK ==
  /\ state \in States
  /\ version \in Nat
  /\ required \in Nat
  /\ funded \in Nat
  /\ complexity \in {"LOW", "HIGH"}
  /\ ledger \in [Accounts -> Int]
  /\ approvals \subseteq Approvals
  /\ req = [r \in Requests |-> req[r]]

\* create_project.
RecordInit ==
  /\ state = Created
  /\ version = 1
  /\ required = 0
  /\ funded = 0
  /\ complexity = "LOW"
  /\ ledger = [a \in Accounts |-> 0]
  /\ approvals = {}
  /\ req = [r \in Requests |-> Idle]

\* A request begins, goes on, or ends in a handler.
Free(r) == req[r] = Idle
In(r, handler) == req[r].op = handler
Hold(r, read) == req' = [req EXCEPT ![r] = read]
Release(r) == req' = [req EXCEPT ![r] = Idle]

\* A refusal, a replayed key, an unavailable provider, a lost connection or a
\* crash of the API process: the transaction rolls back, nothing is written.
Abandon(r) ==
  /\ ~Free(r)
  /\ Release(r)
  /\ UNCHANGED record

\* The lock, version, rule and funding checks, then the new state and version.
\* The caller presents the current version: a stale one changes nothing.
Move(role, to) ==
  /\ version < MaxVersion
  /\ Allowed(role, state, to)
  /\ FundingConfirmed(to, funded, required)
  /\ state' = to
  /\ version' = version + 1
  /\ UNCHANGED <<required, funded, complexity, ledger, req>>

Approve(subject, ref) ==
  approvals' = approvals \cup {[subject |-> subject, ref |-> ref, decision |-> "APPROVED"]}

\* PAUSED, DISPUTED and CANCELED need no evidence.
Divert(role, to) ==
  /\ to \in Detours
  /\ Move(role, to)
  /\ UNCHANGED approvals

\* post_balanced_transaction with one debit and one credit of the same amount:
\* a zero amount is refused, and the entries sum to zero by construction.
Post(debit, credit, amount) ==
  /\ amount # 0
  /\ ledger' = [ledger EXCEPT ![debit] = @ + amount, ![credit] = @ - amount]
=============================================================================
