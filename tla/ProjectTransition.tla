------------------------- MODULE ProjectTransition -------------------------
(***************************************************************************)
(* The request protocol of POST /projects/{id}/transition: optimistic      *)
(* versions, idempotency keys and retries.  Clients read a project, form a *)
(* request from what they saw, and the network may delay, lose, reorder or *)
(* repeat it; transition_project holds the project's row lock from its     *)
(* first statement to its commit, so one delivery is one step.             *)
(*                                                                         *)
(* The evidence a target requires (scope, quote, QA...) is the subject of  *)
(* the phase modules.  Here it is a refusal the handler may always make:   *)
(* a refusal changes nothing, so it is the absence of a step.              *)
(***************************************************************************)
EXTENDS ProjectRules, FiniteSets

CONSTANTS
  Projects,
  Users,
  RoleOf,      \* the role of each user's session
  Access,      \* the pairs <<user, project>> that pass the tenancy check
  Keys,        \* Idempotency-Key header values
  Targets,     \* the states that requests of this instance ask for
  MaxVersion,  \* bound: no transition is applied at this version
  MaxRequests  \* bound on the requests clients form

ASSUME ConstantsAssumption ==
  /\ RoleOf \in [Users -> Roles]
  /\ Access \subseteq Users \X Projects
  /\ Targets \subseteq States
  /\ MaxVersion \in Nat

VARIABLES
  state,        \* projects.state
  version,      \* projects.version
  transitions,  \* the rows of project_transitions
  view,         \* what each user last read of each project
  sent,         \* requests formed so far; each may be delivered any number of times
  acked         \* requests that were answered with 200

vars == <<state, version, transitions, view, sent, acked>>

Views == [state : States, version : Nat]
Requests ==
  [project : Projects, user : Users, target : States, expected : Nat, key : Keys,
   saw : States]
Rows ==
  [project : Projects, actor : Users, from : States, to : States, expected : Nat,
   key : Keys]

TypeOK ==
  /\ state \in [Projects -> States]
  /\ version \in [Projects -> Nat]
  /\ transitions \subseteq Rows
  /\ view \in [Users -> [Projects -> Views]]
  /\ sent \subseteq Requests
  /\ acked \subseteq sent

Init ==
  /\ state = [p \in Projects |-> Created]
  /\ version = [p \in Projects |-> 1]
  /\ transitions = {}
  /\ view = [u \in Users |-> [p \in Projects |-> [state |-> Created, version |-> 1]]]
  /\ sent = {}
  /\ acked = {}

----------------------------------------------------------------------------
(* Clients. *)

\* What a read of the row answers: what it holds, or what it held when it was read,
\* however late the answer arrives.
Answers(p) ==
  {[state |-> state[p], version |-> version[p]]}
    \cup {[state |-> row.from, version |-> row.expected] :
           row \in {r \in transitions : r.project = p}}

\* GET /projects/{id}: an unlocked read of the row; answers may overtake each other.
GetProject(u, p) ==
  /\ <<u, p>> \in Access
  /\ \E seen \in Answers(p) : view' = [view EXCEPT ![u][p] = seen]
  /\ UNCHANGED <<state, version, transitions, sent, acked>>

\* A client asks for a move from the state it last saw; it may reuse a key.
Submit(u, p, target, key) ==
  /\ <<u, p>> \in Access
  /\ Cardinality(sent) < MaxRequests
  /\ sent' = sent \cup
       {[project |-> p, user |-> u, target |-> target,
         expected |-> view[u][p].version, key |-> key, saw |-> view[u][p].state]}
  /\ UNCHANGED <<state, version, transitions, view, acked>>

----------------------------------------------------------------------------
(* transition_project. *)

\* The row another delivery of the same key left, on whatever project.
Recorded(key) == {row \in transitions : row.key = key}

\* request_hash, actor, project and target agree with the stored row.
SameRequest(row, m) ==
  /\ row.project = m.project
  /\ row.actor = m.user
  /\ row.to = m.target
  /\ row.expected = m.expected

\* The version and rule checks of a request whose key is new.
\* Mutant: without the version.
AcceptableUnversioned(m) == Allowed(RoleOf[m.user], state[m.project], m.target)
Acceptable(m) ==
  /\ version[m.project] = m.expected
  /\ Allowed(RoleOf[m.user], state[m.project], m.target)

\* Mutant: the stored row is returned whatever request it was stored for.
ReplayAnything(m) ==
  /\ <<m.user, m.project>> \in Access
  /\ \E row \in Recorded(m.key) : Allowed(RoleOf[m.user], row.from, row.to)
  /\ acked' = acked \cup {m}
  /\ UNCHANGED <<state, version, transitions, view, sent>>

Replay(m) ==
  /\ <<m.user, m.project>> \in Access
  /\ \E row \in Recorded(m.key) :
       /\ Allowed(RoleOf[m.user], row.from, row.to)
       /\ SameRequest(row, m)
  /\ acked' = acked \cup {m}
  /\ UNCHANGED <<state, version, transitions, view, sent>>

\* The lookup of the key runs under this project's lock only; the UNIQUE
\* constraint on idempotency_key refuses at commit a key another project took.
Apply(m) ==
  /\ <<m.user, m.project>> \in Access
  /\ Recorded(m.key) = {}
  /\ Acceptable(m)
  /\ version[m.project] < MaxVersion
  /\ state' = [state EXCEPT ![m.project] = m.target]
  /\ version' = [version EXCEPT ![m.project] = version[m.project] + 1]
  /\ transitions' = transitions \cup
       {[project |-> m.project, actor |-> m.user, from |-> state[m.project],
         to |-> m.target, expected |-> m.expected, key |-> m.key]}
  /\ acked' = acked \cup {m}
  /\ UNCHANGED <<view, sent>>

Next ==
  \/ \E u \in Users, p \in Projects : GetProject(u, p)
  \/ \E u \in Users, p \in Projects, target \in Targets, key \in Keys :
       Submit(u, p, target, key)
  \/ \E m \in sent : Replay(m) \/ Apply(m)

Spec == Init /\ [][Next]_vars

----------------------------------------------------------------------------
(* Properties. *)

\* The transition rows of a project are its history: one row for every version
\* it has left, each starting where the one before it ended, the last one ending
\* in the current state (transition_project writes state, version and row in one
\* commit, whatever was retried or raced).
HistoryChains ==
  \A p \in Projects :
    /\ \A row \in transitions : row.project = p => row.expected \in 1..version[p]-1
    /\ \A v \in 1..version[p]-1 :
         \E row \in transitions :
           /\ row.project = p /\ row.expected = v
           /\ \A other \in transitions :
                other.project = p /\ other.expected = v => other = row
           /\ v = 1 => row.from = "DRAFT"
           /\ v = version[p] - 1 => row.to = state[p]
           /\ \A next \in transitions :
                next.project = p /\ next.expected = v + 1 => next.from = row.to

\* A key moves at most one project once, and every request answered with 200 is
\* the one its key recorded: a lost response followed by a retry, or a key reused
\* by someone else, never reports an effect that is not the caller's.
AckedIsRecorded ==
  /\ \A m \in acked :
       \E row \in transitions : row.key = m.key /\ SameRequest(row, m)
  /\ \A r1, r2 \in transitions : r1.key = r2.key => r1 = r2

\* A move is applied only to the state its caller was looking at, even when the
\* project has left that state and come back to it in between (PAUSED, DISPUTED,
\* PAUSED): the version check, not the state, is what a stale request fails.
AppliedAsSeen ==
  \A row \in transitions :
    \E m \in sent : m.key = row.key /\ SameRequest(row, m) /\ m.saw = row.from

\* COMPLETED and CANCELED are final, and a pause or a dispute leads only to
\* another pause, a dispute or a cancellation.
SidePath == {"PAUSED", "DISPUTED", "CANCELED"}
NoReturn ==
  [][\A p \in Projects :
       /\ state[p] \in Closed => state'[p] = state[p]
       /\ state[p] \in SidePath => state'[p] \in SidePath]_vars
=============================================================================
