---------------------- MODULE ProjectTransitionProofs ----------------------
(***************************************************************************)
(* What TLAPS proves of the transition protocol, for any sets of projects, *)
(* users and keys.                                                         *)
(***************************************************************************)
EXTENDS ProjectTransition, TLAPS

\* Versions start at 1, and a project still at version 1 has not moved.
Fresh ==
  \A p \in Projects :
    /\ version[p] >= 1
    /\ version[p] = 1 => state[p] = "DRAFT"

\* s was the state of project p at version v: it still is, or a row says so.
StateAt(p, v, s) ==
  \/ version[p] = v /\ state[p] = s
  \/ \E row \in transitions : row.project = p /\ row.expected = v /\ row.from = s

\* Whatever a client saw, and every request formed from it, is the present or a
\* recorded past of the project.
SeenIsHistory ==
  /\ \A u \in Users, p \in Projects : StateAt(p, view[u][p].version, view[u][p].state)
  /\ \A m \in sent : StateAt(m.project, m.expected, m.saw)

IInv ==
  TypeOK /\ Fresh /\ HistoryChains /\ AckedIsRecorded /\ SeenIsHistory /\ AppliedAsSeen

\* The initial states.
LEMMA InitIInv == Init => IInv
  BY DEF Init, IInv, TypeOK, Views, States, Created, Fresh, HistoryChains, AckedIsRecorded,
         SeenIsHistory, AppliedAsSeen, StateAt

\* The type invariant: every step keeps the variables in their sets.
LEMMA TypePreserved == ASSUME TypeOK, [Next]_vars PROVE TypeOK'
<1> USE ConstantsAssumption DEF TypeOK
<1>1. ASSUME NEW u \in Users, NEW p \in Projects, GetProject(u, p) PROVE TypeOK'
  <2>1. Answers(p) \subseteq Views  BY DEF Answers, Views, Rows
  <2> QED  BY <1>1, <2>1 DEF GetProject
<1>2. ASSUME NEW u \in Users, NEW p \in Projects, NEW target \in Targets, NEW key \in Keys,
             Submit(u, p, target, key)
      PROVE  TypeOK'
  <2>1. view[u][p] \in Views  OBVIOUS
  <2>2. [project |-> p, user |-> u, target |-> target, expected |-> view[u][p].version,
         key |-> key, saw |-> view[u][p].state] \in Requests
    BY <2>1 DEF Requests, Views
  <2> QED  BY <1>2, <2>2 DEF Submit
<1>3. ASSUME NEW m \in sent, Replay(m) PROVE TypeOK'
  BY <1>3 DEF Replay
<1>4. ASSUME NEW m \in sent, Apply(m) PROVE TypeOK'
  <2>1. m \in Requests  OBVIOUS
  <2>2. /\ m.project \in Projects /\ m.user \in Users /\ m.target \in States
        /\ m.expected \in Nat /\ m.key \in Keys
    BY <2>1 DEF Requests
  <2>3. [project |-> m.project, actor |-> m.user, from |-> state[m.project],
         to |-> m.target, expected |-> m.expected, key |-> m.key] \in Rows
    BY <2>2 DEF Rows
  <2>4. version[m.project] + 1 \in Nat  BY <2>2
  <2> QED  BY <1>4, <2>2, <2>3, <2>4 DEF Apply
<1>5. CASE UNCHANGED vars  BY <1>5 DEF vars
<1> QED  BY <1>1, <1>2, <1>3, <1>4, <1>5 DEF Next

\* An applied request turns the current version into recorded history.
LEMMA ApplyPreserves ==
  ASSUME IInv, NEW m \in sent, Apply(m)
  PROVE  /\ Fresh' /\ HistoryChains' /\ AckedIsRecorded' /\ SeenIsHistory'
         /\ AppliedAsSeen'
<1> DEFINE q == m.project
           new == [project |-> q, actor |-> m.user, from |-> state[q],
                   to |-> m.target, expected |-> m.expected, key |-> m.key]
<1> USE DEF IInv
<1>1. /\ q \in Projects /\ m.expected \in Nat /\ m.target \in States
      /\ version[q] = m.expected
  BY DEF TypeOK, Requests, Apply, Acceptable
<1>2. /\ transitions' = transitions \cup {new}
      /\ state' = [state EXCEPT ![q] = m.target]
      /\ version' = [version EXCEPT ![q] = version[q] + 1]
      /\ acked' = acked \cup {m}
      /\ view' = view /\ sent' = sent
  BY DEF Apply
<1>3. /\ new.project = q /\ new.expected = version[q] /\ new.from = state[q]
      /\ new.to = m.target /\ new.key = m.key /\ new.actor = m.user
  BY <1>1
<1>4. \A row \in transitions : /\ row.key # m.key
                               /\ row.expected \in Nat
                               /\ row.project \in Projects
  BY DEF Apply, Recorded, TypeOK, Rows
<1>5. \A p \in Projects : /\ version[p] \in Nat /\ version[p] >= 1
                          /\ p # q => version'[p] = version[p] /\ state'[p] = state[p]
                          /\ p = q => version'[p] = version[p] + 1 /\ state'[p] = m.target
  BY <1>1, <1>2 DEF TypeOK, Fresh
<1> HIDE DEF new, q
<1>6. Fresh'  BY <1>5 DEF Fresh
<1>7. HistoryChains'
  <2> SUFFICES ASSUME NEW p \in Projects
               PROVE  /\ \A row \in transitions' : row.project = p
                           => row.expected \in 1..version'[p]-1
                      /\ \A v \in 1..version'[p]-1 :
                           \E row \in transitions' :
                             /\ row.project = p /\ row.expected = v
                             /\ \A other \in transitions' :
                                  other.project = p /\ other.expected = v => other = row
                             /\ v = 1 => row.from = "DRAFT"
                             /\ v = version'[p] - 1 => row.to = state'[p]
                             /\ \A next \in transitions' :
                                  next.project = p /\ next.expected = v + 1
                                    => next.from = row.to
    BY DEF HistoryChains
  <2>1. ASSUME NEW row \in transitions', row.project = p
        PROVE  row.expected \in 1..version'[p]-1
    BY <1>1, <1>2, <1>3, <1>5, <2>1 DEF HistoryChains
  <2>2. ASSUME NEW v \in 1..version'[p]-1
        PROVE  \E row \in transitions' :
                 /\ row.project = p /\ row.expected = v
                 /\ \A other \in transitions' :
                      other.project = p /\ other.expected = v => other = row
                 /\ v = 1 => row.from = "DRAFT"
                 /\ v = version'[p] - 1 => row.to = state'[p]
                 /\ \A next \in transitions' :
                      next.project = p /\ next.expected = v + 1 => next.from = row.to
    <3>1. CASE p = q /\ v = version[q]
      <4>1. \A other \in transitions' :
              other.project = p /\ other.expected = v => other = new
        BY <1>2, <1>5, <3>1 DEF HistoryChains
      <4>2. \A next \in transitions' : next.project = p => next.expected # v + 1
        BY <1>2, <1>3, <1>5, <3>1 DEF HistoryChains
      <4> QED  BY <1>2, <1>3, <1>5, <3>1, <4>1, <4>2 DEF Fresh
    <3>2. CASE ~ (p = q /\ v = version[q])
      <4>1. v \in 1..version[p]-1  BY <1>5, <3>2
      <4>2. PICK row \in transitions :
              /\ row.project = p /\ row.expected = v
              /\ \A other \in transitions :
                   other.project = p /\ other.expected = v => other = row
              /\ v = 1 => row.from = "DRAFT"
              /\ v = version[p] - 1 => row.to = state[p]
              /\ \A next \in transitions :
                   next.project = p /\ next.expected = v + 1 => next.from = row.to
        BY <4>1 DEF HistoryChains
      <4>3. \A next \in transitions' :
              next.project = p /\ next.expected = v + 1 => next.from = row.to
        BY <1>2, <1>3, <1>5, <4>1, <4>2
      <4>4. v = version'[p] - 1 => row.to = state'[p]
        BY <1>5, <3>2, <4>1, <4>2
      <4>5. \A other \in transitions' :
              other.project = p /\ other.expected = v => other = row
        BY <1>2, <1>3, <3>2, <4>2
      <4> QED  BY <1>2, <4>2, <4>3, <4>4, <4>5
    <3> QED  BY <3>1, <3>2
  <2> QED  BY <2>1, <2>2
<1>8. AckedIsRecorded'
  BY <1>1, <1>2, <1>3, <1>4 DEF AckedIsRecorded, SameRequest, q
<1>9. SeenIsHistory'
  <2>1. ASSUME NEW p \in Projects, NEW v, NEW s, StateAt(p, v, s)
        PROVE  StateAt(p, v, s)'
    BY <1>2, <1>3, <1>5, <2>1 DEF StateAt
  <2>2. \A n \in sent : n.project \in Projects  BY DEF TypeOK, Requests
  <2> QED  BY <1>2, <2>1, <2>2 DEF SeenIsHistory
<1>10. AppliedAsSeen'
  <2>1. m.saw = state[q]
    BY <1>1, <1>5 DEF SeenIsHistory, StateAt, HistoryChains, q
  <2> QED  BY <1>1, <1>2, <1>3, <2>1 DEF AppliedAsSeen, SameRequest, q
<1> QED  BY <1>6, <1>7, <1>8, <1>9, <1>10

\* Every step, by action.
LEMMA StepPreserves == ASSUME IInv, [Next]_vars PROVE IInv'
<1>1. TypeOK'  BY TypePreserved DEF IInv
<1>2. ASSUME NEW u \in Users, NEW p \in Projects, GetProject(u, p) PROVE IInv'
  <2>1. UNCHANGED <<state, version, transitions, sent, acked>>  BY <1>2 DEF GetProject
  <2>2. Fresh' /\ HistoryChains' /\ AckedIsRecorded' /\ AppliedAsSeen'
    BY <2>1 DEF IInv, Fresh, HistoryChains, AckedIsRecorded, AppliedAsSeen, SameRequest
  <2>3. SeenIsHistory'
    <3>1. \A w \in Users, r \in Projects :
            \/ view'[w][r] = view[w][r]
            \/ view'[w][r] \in Answers(r)
      BY <1>2 DEF GetProject, IInv, TypeOK
    <3>2. ASSUME NEW w \in Users, NEW r \in Projects
          PROVE  StateAt(r, view'[w][r].version, view'[w][r].state)
      <4>1. CASE view'[w][r] = view[w][r]  BY <4>1 DEF IInv, SeenIsHistory
      <4>2. CASE view'[w][r] \in Answers(r)
        BY <4>2 DEF StateAt, Answers
      <4> QED  BY <3>1, <4>1, <4>2
    <3>3. \A w \in Users, r \in Projects :
            StateAt(r, view[w][r].version, view[w][r].state)'
      BY <2>1, <3>2 DEF StateAt
    <3>4. \A m \in sent' : StateAt(m.project, m.expected, m.saw)'
      BY <2>1 DEF IInv, SeenIsHistory, StateAt
    <3> QED  BY <3>3, <3>4 DEF SeenIsHistory
  <2> QED  BY <1>1, <2>2, <2>3 DEF IInv
<1>3. ASSUME NEW u \in Users, NEW p \in Projects, NEW target \in Targets, NEW key \in Keys,
             Submit(u, p, target, key)
      PROVE  IInv'
  <2>1. UNCHANGED <<state, version, transitions, view, acked>> /\ sent \subseteq sent'
    BY <1>3 DEF Submit
  <2>2. Fresh' /\ HistoryChains' /\ AckedIsRecorded'
    BY <2>1 DEF IInv, Fresh, HistoryChains, AckedIsRecorded, SameRequest
  <2>3. SeenIsHistory'  BY <1>3, <2>1 DEF Submit, IInv, SeenIsHistory, StateAt
  <2>4. AppliedAsSeen'  BY <2>1 DEF IInv, AppliedAsSeen, SameRequest
  <2> QED  BY <1>1, <2>2, <2>3, <2>4 DEF IInv
<1>4. ASSUME NEW m \in sent, Replay(m) PROVE IInv'
  <2>1. UNCHANGED <<state, version, transitions, view, sent>>  BY <1>4 DEF Replay
  <2>2. Fresh' /\ HistoryChains' /\ SeenIsHistory' /\ AppliedAsSeen'
    BY <2>1 DEF IInv, Fresh, HistoryChains, SeenIsHistory, StateAt, AppliedAsSeen,
                SameRequest
  <2>3. AckedIsRecorded'
    BY <1>4 DEF Replay, Recorded, IInv, AckedIsRecorded, SameRequest
  <2> QED  BY <1>1, <2>2, <2>3 DEF IInv
<1>5. ASSUME NEW m \in sent, Apply(m) PROVE IInv'
  BY <1>1, <1>5, ApplyPreserves DEF IInv
<1>6. CASE UNCHANGED vars
  BY <1>1, <1>6 DEF vars, IInv, Fresh, HistoryChains, AckedIsRecorded, SeenIsHistory,
                    StateAt, AppliedAsSeen, SameRequest
<1> QED  BY <1>2, <1>3, <1>4, <1>5, <1>6 DEF Next

\* Type correctness of the protocol.
THEOREM TypeCorrect == Spec => []TypeOK
<1>1. IInv => TypeOK  BY DEF IInv
<1> QED  BY InitIInv, StepPreserves, <1>1, PTL DEF Spec

\* The transition rows of every project are its complete, unbroken history.
THEOREM HistoryIsComplete == Spec => []HistoryChains
<1>1. IInv => HistoryChains  BY DEF IInv
<1> QED  BY InitIInv, StepPreserves, <1>1, PTL DEF Spec

\* A request answered with 200 took effect exactly once, as its caller's own.
THEOREM AckedOnce == Spec => []AckedIsRecorded
<1>1. IInv => AckedIsRecorded  BY DEF IInv
<1> QED  BY InitIInv, StepPreserves, <1>1, PTL DEF Spec

\* No stale request is ever applied.
THEOREM NothingStaleApplied == Spec => []AppliedAsSeen
<1>1. IInv => AppliedAsSeen  BY DEF IInv
<1> QED  BY InitIInv, StepPreserves, <1>1, PTL DEF Spec

\* A closed project stays closed and a paused or disputed one never resumes work.
THEOREM NoReturnHolds == Spec => NoReturn
<1>1. ASSUME TypeOK, [Next]_vars
      PROVE  [\A p \in Projects :
               /\ state[p] \in Closed => state'[p] = state[p]
               /\ state[p] \in SidePath => state'[p] \in SidePath]_vars
  <2>1. ASSUME NEW m \in sent, Apply(m), NEW p \in Projects
        PROVE  /\ state[p] \in Closed => state'[p] = state[p]
               /\ state[p] \in SidePath => state'[p] \in SidePath
    <3>1. CASE p # m.project  BY <1>1, <2>1, <3>1 DEF Apply, TypeOK
    <3>2. CASE p = m.project
      <4>1. Allowed(RoleOf[m.user], state[p], m.target)  BY <2>1, <3>2 DEF Apply, Acceptable
      <4>2. state'[p] = m.target  BY <1>1, <2>1, <3>2 DEF Apply, TypeOK, Requests
      <4>3. PICK rule \in RULES : rule.from = state[p] /\ rule.to = m.target
        BY <4>1 DEF Allowed
      <4>4. CASE rule \in Forward
        BY <4>2, <4>3, <4>4 DEF Forward, Edge, Closed, SidePath
      <4>5. CASE \E s \in States \ Closed : rule \in Exits(s)
        BY <4>2, <4>3, <4>5 DEF Exits, Edge, Closed, SidePath
      <4> QED  BY <4>4, <4>5 DEF RULES
    <3> QED  BY <3>1, <3>2
  <2>2. ASSUME NEW u \in Users, NEW p \in Projects, GetProject(u, p) PROVE state' = state
    BY <2>2 DEF GetProject
  <2>3. ASSUME NEW u \in Users, NEW p \in Projects, NEW target \in Targets,
               NEW key \in Keys, Submit(u, p, target, key)
        PROVE  state' = state
    BY <2>3 DEF Submit
  <2>4. ASSUME NEW m \in sent, Replay(m) PROVE state' = state  BY <2>4 DEF Replay
  <2> QED  BY <1>1, <2>1, <2>2, <2>3, <2>4 DEF Next
<1> QED  BY TypeCorrect, <1>1, PTL DEF Spec, NoReturn
=============================================================================
