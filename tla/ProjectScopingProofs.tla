------------------------ MODULE ProjectScopingProofs ------------------------
(***************************************************************************)
(* What TLAPS proves of scoping, quotes and funding, for any prompts,      *)
(* prices, keys and requests in flight.                                    *)
(***************************************************************************)
EXTENDS ProjectScoping, FiniteSetTheorems, TLAPS

(* Finite sets: sums, for the funds and the payouts, and largest elements. *)

\* The element the sum takes first, and what it means that h is the function which
\* SumFunctionOnSet(f, S) evaluates at S.
Pick(s) == CHOOSE x \in s : TRUE
IsTotal(h, f, S) ==
  h = [s \in SUBSET S |-> IF s = {} THEN 0 ELSE f[Pick(s)] + h[s \ {Pick(s)}]]

\* There is something to take from a set that is not empty.
LEMMA PickIsElement == ASSUME NEW S, S # {} PROVE Pick(S) \in S
  BY DEF Pick

\* Induction over a finite set, as a least counterexample: some member of a set of
\* subsets includes no other member.
LEMMA SubsetMin == ASSUME NEW S, IsFiniteSet(S), NEW T \in SUBSET SUBSET S, T # {}
  PROVE \E x \in T : \A y \in T : ~(y \subseteq x /\ y # x)
<1>1. IsWellFoundedOn(StrictSubsetOrdering(S), SUBSET S)
  BY FS_StrictSubsetOrderingWellFounded, FS_FiniteSubsetsOfFinite
<1>2. \E x \in T : \A y \in T : ~(<<y, x>> \in StrictSubsetOrdering(S))
  BY <1>1, WFMin
<1> QED BY <1>2 DEF StrictSubsetOrdering

\* The partial sums of a set do not depend on the set they are a part of.
LEMMA TotalsAgree ==
  ASSUME NEW f, NEW S, NEW T, NEW h, IsTotal(h, f, S), NEW k, IsTotal(k, f, T),
         NEW u, u \subseteq S, u \subseteq T, IsFiniteSet(u)
  PROVE  h[u] = k[u]
<1> DEFINE B == {v \in SUBSET u : h[v] # k[v]}
<1>1. SUFFICES ASSUME B # {} PROVE FALSE
  OBVIOUS
<1>2. PICK v \in B : \A w \in B : ~(w \subseteq v /\ w # v)
  <2>1. B \in SUBSET SUBSET u
    OBVIOUS
  <2> HIDE DEF B
  <2> QED BY <1>1, <2>1, SubsetMin
<1>3. v # {}
  BY <1>2 DEF IsTotal
<1>4. /\ Pick(v) \in v
      /\ h[v] = f[Pick(v)] + h[v \ {Pick(v)}]
      /\ k[v] = f[Pick(v)] + k[v \ {Pick(v)}]
  BY <1>2, <1>3, PickIsElement DEF IsTotal
<1>5. h[v \ {Pick(v)}] = k[v \ {Pick(v)}]
  BY <1>2, <1>4
<1> QED BY <1>2, <1>4, <1>5

\* There is such a function for every finite set, so that CHOOSE finds it.
LEMMA TotalExists ==
  ASSUME NEW f, NEW S, IsFiniteSet(S)
  PROVE  \E h : IsTotal(h, f, S)
<1> DEFINE H(u) == CHOOSE h : IsTotal(h, f, u)
           B == {u \in SUBSET S : ~ \E h : IsTotal(h, f, u)}
<1>1. SUFFICES ASSUME B # {} PROVE FALSE
  OBVIOUS
<1>2. PICK s \in B : \A w \in B : ~(w \subseteq s /\ w # s)
  <2>1. B \in SUBSET SUBSET S
    OBVIOUS
  <2> HIDE DEF B
  <2> QED BY <1>1, <2>1, SubsetMin
<1>3. \A u \in SUBSET s : u # s => IsTotal(H(u), f, u)
  BY <1>2
<1> DEFINE rest(t) == t \ {Pick(t)}
           k == [t \in SUBSET s |-> IF t = {} THEN 0 ELSE f[Pick(t)] + H(rest(t))[rest(t)]]
<1>4. ASSUME NEW t \in SUBSET s, t # {}
      PROVE  k[rest(t)] = H(rest(t))[rest(t)]
  <2>1. rest(t) \in SUBSET s /\ rest(t) # s /\ IsFiniteSet(rest(t))
    BY <1>2, <1>4, PickIsElement, FS_Subset
  <2>2. IsTotal(H(rest(t)), f, rest(t))
    BY <1>3, <2>1
  <2>3. CASE rest(t) = {}
    <3>1. k[rest(t)] = 0
      BY <2>1, <2>3
    <3>2. H(rest(t))[rest(t)] = 0
      <4> HIDE DEF H
      <4> QED BY <2>2, <2>3 DEF IsTotal
    <3> QED BY <3>1, <3>2
  <2>4. CASE rest(t) # {}
    <3> DEFINE u == rest(t)
    <3>1. rest(u) \in SUBSET s /\ rest(u) # s /\ IsFiniteSet(rest(u)) /\ rest(u) \subseteq u
      BY <2>1, <2>4, PickIsElement, FS_Subset
    <3>2. IsTotal(H(rest(u)), f, rest(u))
      BY <1>3, <3>1
    <3>3. H(rest(u))[rest(u)] = H(u)[rest(u)]
      <4> HIDE DEF H, rest, u
      <4> QED BY <2>2, <3>1, <3>2, TotalsAgree DEF u
    <3>4. k[u] = f[Pick(u)] + H(rest(u))[rest(u)]
      BY <2>1, <2>4
    <3>5. H(u)[u] = f[Pick(u)] + H(u)[rest(u)]
      <4> HIDE DEF H
      <4> QED BY <2>2, <2>4 DEF IsTotal
    <3> QED BY <3>3, <3>4, <3>5
  <2> QED BY <2>3, <2>4
<1>5. IsTotal(k, f, s)
  <2> HIDE DEF H
  <2> QED BY <1>4 DEF IsTotal
<1> QED BY <1>2, <1>5

\* The sum is the value of such a function.
LEMMA TotalUnfolds ==
  ASSUME NEW f, NEW S, IsFiniteSet(S)
  PROVE  \E h : IsTotal(h, f, S) /\ SumFunctionOnSet(f, S) = h[S]
<1>1. SumFunctionOnSet(f, S) = (CHOOSE h : IsTotal(h, f, S))[S]
  BY DEF SumFunctionOnSet, FoldFunctionOnSet, MapThenFoldSet, IsTotal, Pick
<1> QED BY <1>1, TotalExists

\* The sum over the empty set.
LEMMA TotalOfNone == ASSUME NEW f PROVE SumFunctionOnSet(f, {}) = 0
<1>1. IsFiniteSet({})
  BY FS_EmptySet
<1>2. PICK h : IsTotal(h, f, {}) /\ SumFunctionOnSet(f, {}) = h[{}]
  BY <1>1, TotalUnfolds
<1> QED BY <1>2 DEF IsTotal

\* Functions that agree on the set have the same sum.
LEMMA TotalCongruence ==
  ASSUME NEW f, NEW g, NEW S, IsFiniteSet(S), \A x \in S : f[x] = g[x]
  PROVE  SumFunctionOnSet(f, S) = SumFunctionOnSet(g, S)
<1>1. PICK h : IsTotal(h, f, S) /\ SumFunctionOnSet(f, S) = h[S]
  BY TotalUnfolds
<1>2. PICK k : IsTotal(k, g, S) /\ SumFunctionOnSet(g, S) = k[S]
  BY TotalUnfolds
<1>3. IsTotal(h, g, S)
  BY <1>1, PickIsElement DEF IsTotal
<1>4. h[S] = k[S]
  BY <1>1, <1>2, <1>3, TotalsAgree
<1> QED BY <1>1, <1>2, <1>4

\* The definition of the sum, without its auxiliary function.
LEMMA TotalPicks ==
  ASSUME NEW f, NEW S, IsFiniteSet(S), S # {}
  PROVE  SumFunctionOnSet(f, S) = f[Pick(S)] + SumFunctionOnSet(f, S \ {Pick(S)})
<1> DEFINE R == S \ {Pick(S)}
<1>1. R \subseteq S /\ IsFiniteSet(R)
  BY FS_Subset
<1>2. PICK h : IsTotal(h, f, S) /\ SumFunctionOnSet(f, S) = h[S]
  BY TotalUnfolds
<1>3. PICK k : IsTotal(k, f, R) /\ SumFunctionOnSet(f, R) = k[R]
  BY <1>1, TotalUnfolds
<1>4. h[S] = f[Pick(S)] + h[R]
  BY <1>2 DEF IsTotal
<1>5. h[R] = k[R]
  BY <1>1, <1>2, <1>3, TotalsAgree
<1> QED BY <1>2, <1>3, <1>4, <1>5

\* A sum of natural numbers is one.
LEMMA TotalIsNatural ==
  ASSUME NEW f, NEW S, IsFiniteSet(S), \A x \in S : f[x] \in Nat
  PROVE  SumFunctionOnSet(f, S) \in Nat
<1> DEFINE B == {s \in SUBSET S : SumFunctionOnSet(f, s) \notin Nat}
<1>1. SUFFICES ASSUME B # {} PROVE FALSE
  OBVIOUS
<1>2. PICK s \in B : \A w \in B : ~(w \subseteq s /\ w # s)
  <2>1. B \in SUBSET SUBSET S
    OBVIOUS
  <2> HIDE DEF B
  <2> QED BY <1>1, <2>1, SubsetMin
<1>3. s # {} /\ IsFiniteSet(s)
  <2>1. SumFunctionOnSet(f, s) \notin Nat /\ s \subseteq S
    BY <1>2
  <2>2. IsFiniteSet(s)
    BY <2>1, FS_Subset
  <2> QED BY <2>1, <2>2, TotalOfNone
<1>4. Pick(s) \in s /\ SumFunctionOnSet(f, s) = f[Pick(s)] + SumFunctionOnSet(f, s \ {Pick(s)})
  BY <1>3, TotalPicks, PickIsElement
<1>5. SumFunctionOnSet(f, s \ {Pick(s)}) \in Nat
  BY <1>2, <1>4
<1> QED BY <1>2, <1>4, <1>5

\* A new element adds its value, in whatever order the sum takes the elements.
LEMMA TotalAdds ==
  ASSUME NEW f, NEW S, IsFiniteSet(S), NEW x, x \notin S, f[x] \in Nat, \A y \in S : f[y] \in Nat
  PROVE  SumFunctionOnSet(f, S \cup {x}) = f[x] + SumFunctionOnSet(f, S)
<1> DEFINE A == S \cup {x}
           B == {s \in SUBSET A : \E y \in A \ s :
                   SumFunctionOnSet(f, s \cup {y}) # f[y] + SumFunctionOnSet(f, s)}
<1>0. IsFiniteSet(A)
  BY FS_AddElement
<1>1. SUFFICES ASSUME B # {} PROVE FALSE
  OBVIOUS
<1>2. PICK s \in B : \A w \in B : ~(w \subseteq s /\ w # s)
  <2>1. B \in SUBSET SUBSET A
    OBVIOUS
  <2> HIDE DEF A, B
  <2> QED BY <1>0, <1>1, <2>1, SubsetMin
<1>3. PICK y \in A \ s : SumFunctionOnSet(f, s \cup {y}) # f[y] + SumFunctionOnSet(f, s)
  BY <1>2
<1> DEFINE p == Pick(s \cup {y})
<1>4. IsFiniteSet(s) /\ IsFiniteSet(s \cup {y}) /\ p \in s \cup {y}
  <2>1. s \subseteq A /\ s \cup {y} # {}
    BY <1>2
  <2>2. IsFiniteSet(s)
    <3> HIDE DEF A
    <3> QED BY <1>0, <2>1, FS_Subset
  <2>3. IsFiniteSet(s \cup {y})
    BY <2>2, FS_AddElement
  <2>4. p \in s \cup {y}
    BY <2>1, PickIsElement
  <2> QED BY <2>2, <2>3, <2>4
<1>5. SumFunctionOnSet(f, s \cup {y}) = f[p] + SumFunctionOnSet(f, (s \cup {y}) \ {p})
  BY <1>4, TotalPicks
<1>6. p # y
  <2>1. (s \cup {y}) \ {y} = s
    BY <1>3
  <2> HIDE DEF p
  <2> QED BY <1>3, <1>5, <2>1
<1> DEFINE r == s \ {p}
<1>7. p \in s /\ (s \cup {y}) \ {p} = r \cup {y} /\ s = r \cup {p}
  <2> HIDE DEF p
  <2> QED BY <1>4, <1>6
<1>8. r \in SUBSET A /\ r \subseteq s /\ r # s /\ y \in A \ r /\ p \in A \ r /\ IsFiniteSet(r)
  <2> HIDE DEF p, A
  <2> QED BY <1>2, <1>3, <1>4, <1>7, FS_Subset
<1>9. r \notin B
  BY <1>2, <1>8
<1>10. /\ SumFunctionOnSet(f, r \cup {y}) = f[y] + SumFunctionOnSet(f, r)
       /\ SumFunctionOnSet(f, r \cup {p}) = f[p] + SumFunctionOnSet(f, r)
  BY <1>8, <1>9
<1>11. f[p] \in Nat /\ f[y] \in Nat /\ SumFunctionOnSet(f, r) \in Nat
  <2>1. \A z \in A : f[z] \in Nat
    OBVIOUS
  <2> HIDE DEF A, p, r
  <2> QED BY <1>8, <2>1, TotalIsNatural
<1>12. /\ SumFunctionOnSet(f, s \cup {y}) = f[p] + SumFunctionOnSet(f, r \cup {y})
       /\ SumFunctionOnSet(f, s) = SumFunctionOnSet(f, r \cup {p})
  <2> HIDE DEF p, r
  <2> QED BY <1>5, <1>7
<1> HIDE DEF A, B, p, r
<1> QED BY <1>3, <1>10, <1>11, <1>12

\* A sum of natural numbers over a part is no larger.
LEMMA TotalMonotone ==
  ASSUME NEW f, NEW T, IsFiniteSet(T), NEW S, S \subseteq T, \A x \in T : f[x] \in Nat
  PROVE  SumFunctionOnSet(f, S) <= SumFunctionOnSet(f, T)
<1> DEFINE B == {u \in SUBSET T :
                   S \subseteq u /\ ~(SumFunctionOnSet(f, S) <= SumFunctionOnSet(f, u))}
<1>1. SUFFICES ASSUME B # {} PROVE FALSE
  OBVIOUS
<1>2. PICK u \in B : \A w \in B : ~(w \subseteq u /\ w # u)
  <2>1. B \in SUBSET SUBSET T
    OBVIOUS
  <2> HIDE DEF B
  <2> QED BY <1>1, <2>1, SubsetMin
<1>3. u \subseteq T /\ S \subseteq u /\ ~(SumFunctionOnSet(f, S) <= SumFunctionOnSet(f, u))
  BY <1>2
<1>4. IsFiniteSet(u) /\ IsFiniteSet(S)
  BY <1>3, FS_Subset
<1>5. SumFunctionOnSet(f, S) \in Nat
  BY <1>4, TotalIsNatural
<1>6. PICK x \in u : x \notin S
  BY <1>3, <1>5
<1>7. PICK r : r = u \ {x}
  OBVIOUS
<1>8. /\ r \in SUBSET T /\ S \subseteq r /\ r \subseteq u /\ r # u /\ x \notin r
      /\ IsFiniteSet(r) /\ r \cup {x} = u
  BY <1>3, <1>4, <1>6, <1>7, FS_Subset
<1>9. SumFunctionOnSet(f, S) <= SumFunctionOnSet(f, r)
  <2>1. r \notin B  BY <1>2, <1>8
  <2> QED BY <1>8, <2>1
<1>10. SumFunctionOnSet(f, u) = f[x] + SumFunctionOnSet(f, r)
  BY <1>3, <1>6, <1>8, TotalAdds
<1>11. f[x] \in Nat /\ SumFunctionOnSet(f, r) \in Nat
  BY <1>3, <1>6, <1>8, TotalIsNatural
<1> HIDE DEF B
<1> QED BY <1>3, <1>5, <1>9, <1>10, <1>11

\* A bounded set of natural numbers has a largest element.
LEMMA MaxProperties ==
  ASSUME NEW N \in Nat, NEW A, A \subseteq 0..N, A # {}
  PROVE  Max(A) \in A /\ \A y \in A : y <= Max(A)
<1> DEFINE T == {U \in SUBSET (0..N) : \E k \in 0..N : U = 0..k /\ A \subseteq 0..k}
<1>1. IsFiniteSet(0..N)
  BY FS_Interval
<1>2. T \subseteq SUBSET (0..N) /\ T # {}
  <2>1. 0..N \in T
    OBVIOUS
  <2> QED BY <2>1
<1>3. PICK U \in T : \A V \in T : ~(V \subseteq U /\ V # U)
  <2>1. PICK S : S = 0..N
    OBVIOUS
  <2>2. IsFiniteSet(S) /\ T \subseteq SUBSET S /\ T # {}
    BY <1>1, <1>2, <2>1
  <2> HIDE DEF T
  <2> QED BY <2>2, SubsetMin
<1>4. PICK k \in 0..N : U = 0..k /\ A \subseteq 0..k
  BY <1>3
<1>5. k \in A
  <2> SUFFICES ASSUME k \notin A PROVE FALSE
    OBVIOUS
  <2>0. k # 0
    <3>1. PICK y : y \in A
      OBVIOUS
    <3>2. y \in 0..k /\ y # k
      BY <1>4, <3>1
    <3> QED BY <3>2
  <2>1. A \subseteq 0..k - 1 /\ k - 1 \in 0..N
    BY <1>4, <2>0
  <2>2. 0..k - 1 \in T
    BY <2>1
  <2>3. 0..k - 1 \subseteq 0..k /\ k \in 0..k /\ k \notin 0..k - 1
    OBVIOUS
  <2> HIDE DEF T
  <2> QED BY <1>3, <1>4, <2>2, <2>3
<1>6. \A y \in A : k >= y /\ y \in Nat
  BY <1>4
<1> QED BY <1>5, <1>6 DEF Max

----------------------------------------------------------------------------
(* Types. *)

Early == {"DRAFT", "SCOPING", "AWAITING_COORDINATOR_SCOPE_APPROVAL",
          "AWAITING_CLIENT_SCOPE_APPROVAL"}

\* The one state each step of this phase starts from, and no way back into it.
LEMMA EdgesOfScoping ==
  ASSUME NEW role, NEW from, NEW to, Allowed(role, from, to)
  PROVE  /\ to \in States
         /\ to \in Early => from \in Early /\ to # "DRAFT"
         /\ to = "AWAITING_DEPOSIT" => from = "AWAITING_CLIENT_SCOPE_APPROVAL"
         /\ to = "STAFFING" => from = "AWAITING_DEPOSIT"
  BY DEF Allowed, RULES, Forward, Exits, Edge, Early, States

\* What post_balanced_transaction does to the balances of the two accounts of funding.
LEMMA PostKeepsTypes ==
  ASSUME ledger \in [Accounts -> Int], NEW amount \in Nat,
         Post("external_funding_evidence", "client_funding_liability", amount)
  PROVE  /\ ledger' \in [Accounts -> Int]
         /\ ledger'["external_funding_evidence"] = ledger["external_funding_evidence"] + amount
         /\ ledger'["client_funding_liability"] = ledger["client_funding_liability"] - amount
  BY DEF Post, Accounts

\* What a request in a handler of this phase holds; requests in other handlers are
\* not this phase's business.
ScopingCall(read) ==
  /\ read.op = "scope" => read \in ScopeCalls
  /\ read.op = "quote" => read \in QuoteLoads
  /\ read.op = "priced" => read \in QuotePrices
  /\ read.op = "numbered" => read \in QuoteNumbers
  /\ read.op = "fund" => read \in FundingCalls

\* The handlers of this phase hold what they should.
LEMMA CallsOfScoping ==
  ASSUME NEW read \in {Idle} \cup ScopeCalls \cup QuoteLoads \cup QuotePrices
                             \cup QuoteNumbers \cup FundingCalls
  PROVE  ScopingCall(read)
  BY DEF ScopingCall, Idle, ScopeCalls, QuoteLoads, QuotePrices, QuoteNumbers, FundingCalls

\* What a step of a handler does to the requests in flight.
LEMMA HoldKeepsTypes ==
  ASSUME ScopingTypeOK, NEW r \in Requests, NEW read, Hold(r, read), ScopingCall(read),
         UNCHANGED <<record, scopingRows>>
  PROVE  ScopingTypeOK'
<1>1. /\ RecordTypeOK' /\ req' = [req EXCEPT ![r] = read]
      /\ \A q \in Requests : q # r => req'[q] = req[q]
      /\ req'[r] = read
  BY DEF ScopingTypeOK, RecordTypeOK, Hold, record
<1>2. /\ read.op = "scope" => read \in ScopeCalls
      /\ read.op = "quote" => read \in QuoteLoads
      /\ read.op = "priced" => read \in QuotePrices
      /\ read.op = "numbered" => read \in QuoteNumbers
      /\ read.op = "fund" => read \in FundingCalls
  BY DEF ScopingCall
<1>3. ASSUME NEW q \in Requests
      PROVE  /\ In(q, "scope")' => req'[q] \in ScopeCalls
             /\ In(q, "quote")' => req'[q] \in QuoteLoads
             /\ In(q, "priced")' => req'[q] \in QuotePrices
             /\ In(q, "numbered")' => req'[q] \in QuoteNumbers
             /\ In(q, "fund")' => req'[q] \in FundingCalls
  <2>1. CASE q = r  BY <1>1, <1>2, <2>1 DEF In
  <2>2. CASE q # r  BY <1>1, <2>2 DEF In, ScopingTypeOK
  <2> QED  BY <2>1, <2>2
<1> QED  BY <1>1, <1>3 DEF ScopingTypeOK, scopingRows

\* The scoping runs.
LEMMA ScopeRunTypes ==
  ASSUME ScopingTypeOK, NEW r \in Requests,
         \/ \E prompt \in Prompts : StartScopeRun(r, prompt)
         \/ \E level \in {"LOW", "HIGH"} : FinishScopeRun(r, level)
  PROVE  ScopingTypeOK'
<1>1. ASSUME NEW prompt \in Prompts, StartScopeRun(r, prompt) PROVE ScopingTypeOK'
  <2>1. [op |-> "scope", prompt |-> prompt, seen |-> complexity] \in ScopeCalls
    BY DEF ScopeCalls, ScopingTypeOK, RecordTypeOK
  <2> QED  BY <1>1, <2>1, HoldKeepsTypes, CallsOfScoping DEF StartScopeRun
<1>2. ASSUME NEW level \in {"LOW", "HIGH"}, FinishScopeRun(r, level) PROVE ScopingTypeOK'
  <2>1. req[r].prompt \in Prompts /\ complexity' \in {"LOW", "HIGH"}
    BY <1>2 DEF FinishScopeRun, ScopingTypeOK, RecordTypeOK, ScopeCalls, Written
  <2>2. scopes' \in Seq(ScopeStatus)
    BY <1>2 DEF FinishScopeRun, ScopingTypeOK, ScopeStatus
  <2> QED
    BY <1>2, <2>1, <2>2
       DEF FinishScopeRun, Release, ScopingTypeOK, RecordTypeOK, In, Idle, money
<1> QED  BY <1>1, <1>2

\* create_quote.
LEMMA QuoteTypes ==
  ASSUME ScopingTypeOK, NEW r \in Requests,
         \/ LoadForQuote(r) \/ NumberQuote(r) \/ CommitQuote(r)
         \/ \E base \in Bases : PriceQuote(r, base)
  PROVE  ScopingTypeOK'
<1> USE ScopingAssumption
<1>1. CASE LoadForQuote(r)
  <2>1. [op |-> "quote", seen |-> required] \in QuoteLoads
    BY DEF QuoteLoads, ScopingTypeOK, RecordTypeOK
  <2> QED  BY <1>1, <2>1, HoldKeepsTypes, CallsOfScoping DEF LoadForQuote
<1>2. ASSUME NEW base \in Bases, PriceQuote(r, base) PROVE ScopingTypeOK'
  <2>1. [op |-> "priced", seen |-> req[r].seen, scope |-> Len(scopes), base |-> base]
          \in QuotePrices
    BY <1>2 DEF PriceQuote, ScopingTypeOK, QuoteLoads, QuotePrices
  <2> QED  BY <1>2, <2>1, HoldKeepsTypes, CallsOfScoping DEF PriceQuote
<1>3. CASE NumberQuote(r)
  <2>1. req[r] \in QuotePrices  BY <1>3 DEF NumberQuote, ScopingTypeOK
  <2>2. [op |-> "numbered", seen |-> req[r].seen, scope |-> req[r].scope,
         base |-> req[r].base, number |-> Len(quotes) + 1] \in QuoteNumbers
    BY <2>1 DEF ScopingTypeOK, QuotePrices, QuoteNumbers
  <2> QED  BY <1>3, <2>2, HoldKeepsTypes, CallsOfScoping DEF NumberQuote
<1>4. CASE CommitQuote(r)
  <2>1. req[r] \in QuoteNumbers  BY <1>4 DEF CommitQuote, ScopingTypeOK
  <2>2. required' \in Nat /\ quotes' \in Seq(Quotes)
    BY <1>4, <2>1 DEF CommitQuote, ScopingTypeOK, RecordTypeOK, QuoteNumbers, Written, Quotes
  <2> QED
    BY <1>4, <2>2 DEF CommitQuote, Release, ScopingTypeOK, RecordTypeOK, In, Idle
<1> QED  BY <1>1, <1>2, <1>3, <1>4

\* record_manual_funding.
LEMMA FundingTypes ==
  ASSUME ScopingTypeOK, NEW r \in Requests,
         \/ \E key \in PayKeys, amount \in Amounts : CheckFunding(r, key, amount)
         \/ CommitFunding(r)
  PROVE  ScopingTypeOK'
<1> USE ScopingAssumption
<1>1. ASSUME NEW key \in PayKeys, NEW amount \in Amounts, CheckFunding(r, key, amount)
      PROVE  ScopingTypeOK'
  <2>1. [op |-> "fund", row |-> [key |-> key, amount |-> amount]] \in FundingCalls
    BY DEF FundingCalls, Payments
  <2> QED  BY <1>1, <2>1, HoldKeepsTypes, CallsOfScoping DEF CheckFunding
<1>2. CASE CommitFunding(r)
  <2>1. req[r].row \in Payments /\ req[r].row.amount \in Nat
    BY <1>2 DEF CommitFunding, ScopingTypeOK, FundingCalls, Payments
  <2>2. ledger' \in [Accounts -> Int]
    <3>1. ledger \in [Accounts -> Int]  BY DEF ScopingTypeOK, RecordTypeOK
    <3>2. Post("external_funding_evidence", "client_funding_liability", req[r].row.amount)
      BY <1>2 DEF CommitFunding
    <3> QED  BY <2>1, <3>1, <3>2, PostKeepsTypes
  <2>3. funded' \in Nat /\ payments' \subseteq Payments
    BY <1>2, <2>1 DEF CommitFunding, ScopingTypeOK, RecordTypeOK
  <2>4. /\ UNCHANGED <<state, version, required, complexity, approvals, scopes, scopedBy, quotes>>
        /\ req' = [req EXCEPT ![r] = Idle]
    BY <1>2 DEF CommitFunding, Release
  <2>5. RecordTypeOK'
    BY <2>2, <2>3, <2>4 DEF ScopingTypeOK, RecordTypeOK
  <2> QED  BY <2>3, <2>4, <2>5 DEF ScopingTypeOK, RecordTypeOK, In, Idle
<1> QED  BY <1>1, <1>2

\* A case that is given up keeps the types.
LEMMA AbandonTypes ==
  ASSUME ScopingTypeOK, NEW r \in Requests, AbandonInScoping(r) PROVE ScopingTypeOK'
<1>1. Hold(r, Idle) /\ UNCHANGED <<record, scopingRows>>
  BY DEF AbandonInScoping, Abandon, Hold, Release
<1> QED  BY <1>1, HoldKeepsTypes, CallsOfScoping

\* A move changes the state and the version; what else it writes is of its type.
LEMMA MoveTypes ==
  ASSUME ScopingTypeOK, NEW role, NEW to, Move(role, to), approvals' \subseteq Approvals,
         scopes' \in Seq(ScopeStatus), quotes' \in Seq(Quotes), UNCHANGED <<scopedBy, payments>>
  PROVE  ScopingTypeOK'
  BY EdgesOfScoping DEF Move, ScopingTypeOK, RecordTypeOK, In

\* So does every transition.
LEMMA TransitionTypes ==
  ASSUME ScopingTypeOK, ScopingTransitions PROVE ScopingTypeOK'
<1> PICK role \in Roles :
      \/ SubmitProject(role) \/ CompleteScoping(role) \/ ApproveScope(role)
      \/ AcceptQuote(role) \/ ConfirmFunding(role)
      \/ \E to \in Detours : DivertFromScoping(role, to)
  BY DEF ScopingTransitions
<1>1. CASE SubmitProject(role) \/ CompleteScoping(role) \/ ConfirmFunding(role)
           \/ \E to \in Detours : DivertFromScoping(role, to)
  BY <1>1, MoveTypes
     DEF SubmitProject, CompleteScoping, ConfirmFunding, DivertFromScoping, Divert, scopingRows,
         ScopingTypeOK, RecordTypeOK
<1>2. CASE ApproveScope(role)
  <2>1. scopes' \in Seq(ScopeStatus)
    BY <1>2 DEF ApproveScope, ScopingTypeOK, ScopeStatus, LatestScopeIs
  <2>2. approvals' \subseteq Approvals
    BY <1>2 DEF ApproveScope, Approve, ScopingTypeOK, RecordTypeOK, Approvals, Subjects
  <2> QED  BY <1>2, <2>1, <2>2, MoveTypes DEF ApproveScope, ScopingTypeOK
<1>3. CASE AcceptQuote(role)
  <2>1. scopes' \in Seq(ScopeStatus)
    BY <1>3 DEF AcceptQuote, ScopingTypeOK, ScopeStatus, LatestScopeIs
  <2>2. quotes' \in Seq(Quotes)
    <3>1. quotes \in Seq(Quotes) /\ Len(quotes) \in 1..Len(quotes)
      BY <1>3 DEF AcceptQuote, ScopingTypeOK
    <3>2. quotes[Len(quotes)] \in Quotes  BY <3>1
    <3>3. [quotes[Len(quotes)] EXCEPT !.status = "CLIENT_ACCEPTED"] \in Quotes
      BY <3>2 DEF Quotes
    <3> QED  BY <1>3, <3>1, <3>3 DEF AcceptQuote
  <2>3. approvals' \subseteq Approvals
    BY <1>3 DEF AcceptQuote, Approve, ScopingTypeOK, RecordTypeOK, Approvals, Subjects
  <2> QED  BY <1>3, <2>1, <2>2, <2>3, MoveTypes DEF AcceptQuote
<1> QED  BY <1>1, <1>2, <1>3

\* Every step keeps the types.
LEMMA TypesStep == ASSUME ScopingTypeOK, [ScopingNext]_scopingVars PROVE ScopingTypeOK'
<1>1. CASE UNCHANGED scopingVars
  BY <1>1 DEF scopingVars, scopingRows, record, ScopingTypeOK, RecordTypeOK, In
<1>2. CASE ScopingNext
  BY <1>2, ScopeRunTypes, QuoteTypes, FundingTypes, AbandonTypes, TransitionTypes
     DEF ScopingNext, ScopeRuns, QuoteRequests, FundingRequests
<1> QED  BY <1>1, <1>2

\* The initial states.
LEMMA InitTypes == ScopingStart => ScopingTypeOK
  BY DEF ScopingStart, RecordInit, ScopingInit, ScopingTypeOK, RecordTypeOK, In, Idle, Created,
         States, Accounts, Approvals

\* Every variable stays in its set, and every request in flight holds what its handler
\* read, whatever it does next.
THEOREM ScopingTypes == ScopingSpec => []ScopingTypeOK
  BY InitTypes, TypesStep, PTL DEF ScopingSpec

----------------------------------------------------------------------------
(* The terms and the funds. *)

\* Nothing is accepted before the client was asked, and every scope the coordinator
\* approved has its approval on record.
NoneAcceptedEarly == state \in Early => Accepted = {}
ScopesOnRecord ==
  \A n \in 1..Len(scopes) : scopes[n] = "COORDINATOR_APPROVED" => n \in Approved("scope")

\* The funded amount is the sum of the payment events.
PaymentsCounted == IsFiniteSet(payments) /\ funded = PaidIn

TermsInv ==
  /\ ScopingTypeOK
  /\ TermsOnRecord /\ NoneAcceptedEarly /\ ScopesOnRecord
  /\ FundingOnLedger /\ PaymentsCounted

\* A new payment event adds its amount.
LEMMA PaymentAdds ==
  ASSUME IsFiniteSet(payments), payments \subseteq Payments, NEW row \in Payments,
         row \notin payments, payments' = payments \cup {row}
  PROVE  IsFiniteSet(payments)' /\ PaidIn' = PaidIn + row.amount /\ PaidIn \in Nat
<1> DEFINE f == [p \in payments |-> p.amount]
           g == [p \in payments \cup {row} |-> p.amount]
<1>1. /\ \A p \in payments : f[p] \in Nat /\ g[p] \in Nat /\ f[p] = g[p]
      /\ g[row] = row.amount /\ row.amount \in Nat
  BY ScopingAssumption DEF Payments
<1>2. PaidIn = SumFunctionOnSet(f, payments)
      /\ PaidIn' = SumFunctionOnSet(g, payments \cup {row})
  BY DEF PaidIn, SumFunction
<1> HIDE DEF f, g
<1>3. SumFunctionOnSet(g, payments \cup {row}) = g[row] + SumFunctionOnSet(g, payments)
  BY <1>1, TotalAdds
<1>4. SumFunctionOnSet(f, payments) = SumFunctionOnSet(g, payments)
  BY <1>1, TotalCongruence
<1>5. SumFunctionOnSet(f, payments) \in Nat
  BY <1>1, TotalIsNatural
<1>6. IsFiniteSet(payments)'
  BY FS_AddElement
<1> QED  BY <1>1, <1>2, <1>3, <1>4, <1>5, <1>6

\* An approval is on record under its subject and no other.
LEMMA ApprovalAdds ==
  ASSUME NEW subject, NEW ref, Approve(subject, ref)
  PROVE  /\ Approved(subject)' = Approved(subject) \cup {ref}
         /\ \A other : other # subject => Approved(other)' = Approved(other)
<1> DEFINE row == [subject |-> subject, ref |-> ref, decision |-> "APPROVED"]
<1>1. approvals' = approvals \cup {row} /\ row.subject = subject /\ row.ref = ref
  BY DEF Approve
<1> HIDE DEF row
<1>2. ASSUME NEW x PROVE x \in Approved(subject)' <=> x \in Approved(subject) \/ x = ref
  BY <1>1 DEF Approved
<1>3. ASSUME NEW other, other # subject PROVE Approved(other)' = Approved(other)
  <2>1. \A b : b \in approvals' /\ b.subject = other <=> b \in approvals /\ b.subject = other
    BY <1>1, <1>3
  <2> QED  BY <2>1 DEF Approved
<1> QED  BY <1>2, <1>3

\* The initial states.
LEMMA InitTermsInv == ScopingStart => TermsInv
<1> SUFFICES ASSUME ScopingStart PROVE TermsInv  OBVIOUS
<1>1. ScopingTypeOK  BY InitTypes
<1>2. Accepted = {} /\ AcceptedScopes = {} /\ Approved("scope_and_quote") = {}
  BY DEF ScopingStart, RecordInit, ScopingInit, Accepted, AcceptedScopes, Approved
<1>3. TermsOnRecord  BY <1>2 DEF ScopingStart, RecordInit, TermsOnRecord, Created
<1>4. NoneAcceptedEarly /\ ScopesOnRecord
  BY <1>2 DEF ScopingStart, ScopingInit, NoneAcceptedEarly, ScopesOnRecord
<1>5. FundingOnLedger
  <2>1. ledger["external_funding_evidence"] = 0 /\ ledger["client_funding_liability"] = 0
    BY DEF ScopingStart, RecordInit, Accounts
  <2>2. funded = 0 /\ payments = {}  BY DEF ScopingStart, RecordInit, ScopingInit
  <2>3. 0 - funded = 0  BY <2>2
  <2>4. \A p, q \in payments : p.key = q.key => p = q  BY <2>2
  <2> QED  BY <2>1, <2>2, <2>3, <2>4 DEF FundingOnLedger
<1>6. PaymentsCounted
  <2>1. payments = {} /\ funded = 0  BY DEF ScopingStart, RecordInit, ScopingInit
  <2>2. PaidIn = SumFunctionOnSet([p \in {} |-> p.amount], {})
    BY <2>1 DEF PaidIn, SumFunction
  <2> QED  BY <2>1, <2>2, TotalOfNone, FS_EmptySet DEF PaymentsCounted
<1> QED  BY <1>1, <1>3, <1>4, <1>5, <1>6 DEF TermsInv

\* Steps that accept nothing, approve nothing and pay nothing: what they append is a
\* proposal or a draft.
LEMMA TermsKept ==
  ASSUME TermsInv, ScopingTypeOK', UNCHANGED <<approvals, funded, ledger, payments>>,
         \/ UNCHANGED scopes
         \/ scopes' = Append(scopes, "PROPOSED"),
         \/ UNCHANGED quotes
         \/ \E scope \in Nat, base \in Nat :
              quotes' = Append(quotes, [scope |-> scope, base |-> base, status |-> "DRAFT"]),
         \/ UNCHANGED state
         \/ \E role \in Roles, to \in States \ {"AWAITING_DEPOSIT"} : Move(role, to)
  PROVE  TermsInv'
<1> USE DEF TermsInv
<1>1. Accepted' = Accepted
  <2>1. CASE UNCHANGED quotes  BY <2>1 DEF Accepted
  <2>2. ASSUME NEW scope \in Nat, NEW base \in Nat,
               quotes' = Append(quotes, [scope |-> scope, base |-> base, status |-> "DRAFT"])
        PROVE  Accepted' = Accepted
    <3>1. /\ Len(quotes) \in Nat /\ Len(quotes') = Len(quotes) + 1
          /\ \A n \in 1..Len(quotes) : quotes'[n] = quotes[n]
          /\ quotes'[Len(quotes) + 1].status = "DRAFT"
      BY <2>2 DEF ScopingTypeOK
    <3> QED  BY <3>1 DEF Accepted
  <2> QED  BY <2>1, <2>2
<1>2. AcceptedScopes' = AcceptedScopes /\ ScopesOnRecord'
  <2>1. CASE UNCHANGED scopes  BY <2>1 DEF AcceptedScopes, ScopesOnRecord, Approved
  <2>2. CASE scopes' = Append(scopes, "PROPOSED")
    <3>1. /\ Len(scopes) \in Nat /\ Len(scopes') = Len(scopes) + 1
          /\ \A n \in 1..Len(scopes) : scopes'[n] = scopes[n]
          /\ scopes'[Len(scopes) + 1] = "PROPOSED"
      BY <2>2 DEF ScopingTypeOK
    <3>2. Approved("scope")' = Approved("scope")  BY DEF Approved
    <3> QED  BY <3>1, <3>2 DEF AcceptedScopes, ScopesOnRecord
  <2> QED  BY <2>1, <2>2
<1>3. \A subject : Approved(subject)' = Approved(subject)  BY DEF Approved
<1>4. /\ state' \in Early => state \in Early
      /\ state' \in {"AWAITING_DEPOSIT", "STAFFING"} => state \in {"AWAITING_DEPOSIT", "STAFFING"}
  BY EdgesOfScoping DEF Move
<1>5. TermsOnRecord' /\ NoneAcceptedEarly'
  BY <1>1, <1>2, <1>3, <1>4 DEF TermsOnRecord, NoneAcceptedEarly
<1>6. PaymentsCounted'  BY DEF PaymentsCounted, PaidIn
<1> QED  BY <1>1, <1>2, <1>5, <1>6 DEF FundingOnLedger

\* The two approvals: the coordinator's of the latest scope, and the client's of that
\* scope and the latest quote.
LEMMA ApproveScopeTerms ==
  ASSUME TermsInv, ScopingTypeOK', NEW role \in Roles, ApproveScope(role)
  PROVE  TermsInv'
<1> USE DEF TermsInv
<1> DEFINE N == Len(scopes)
<1>1. /\ scopes[N] = "PROPOSED" /\ N \in 1..N
      /\ scopes' = [scopes EXCEPT ![N] = "COORDINATOR_APPROVED"]
      /\ Len(scopes') = N
      /\ UNCHANGED <<funded, ledger, quotes, payments>>
  BY DEF ApproveScope, LatestScopeIs, ScopingTypeOK, Move
<1>2. state \in Early /\ state' \in Early
  BY EdgesOfScoping DEF ApproveScope, Move, Early
<1>3. /\ Approved("scope")' = Approved("scope") \cup {N}
      /\ Approved("scope_and_quote")' = Approved("scope_and_quote")
  BY ApprovalAdds DEF ApproveScope
<1>4. Accepted' = Accepted /\ AcceptedScopes' = AcceptedScopes
  BY <1>1 DEF Accepted, AcceptedScopes, ScopingTypeOK
<1>5. ScopesOnRecord'
  <2>1. DOMAIN scopes = 1..N  BY DEF ScopingTypeOK
  <2>2. \A n \in 1..N : n # N => scopes'[n] = scopes[n]  BY <1>1, <2>1
  <2> QED  BY <1>1, <1>3, <2>2 DEF ScopesOnRecord
<1> QED
  BY <1>1, <1>2, <1>3, <1>4, <1>5
     DEF TermsOnRecord, NoneAcceptedEarly, FundingOnLedger, Early, PaymentsCounted, PaidIn

\* A quote is accepted on the terms it was made on.
LEMMA AcceptQuoteTerms ==
  ASSUME TermsInv, ScopingTypeOK', NEW role \in Roles, AcceptQuote(role)
  PROVE  TermsInv'
<1> USE DEF TermsInv
<1> DEFINE N == Len(scopes)
           M == Len(quotes)
<1>1. /\ scopes[N] = "COORDINATOR_APPROVED" /\ N \in 1..N
      /\ scopes'[N] = "CLIENT_ACCEPTED" /\ Len(scopes') = N
      /\ \A n \in 1..N : n # N => scopes'[n] = scopes[n]
  <2>1. scopes \in Seq(ScopeStatus) /\ N \in 1..N
    BY DEF AcceptQuote, LatestScopeIs, ScopingTypeOK
  <2>2. /\ scopes[N] = "COORDINATOR_APPROVED"
        /\ scopes' = [scopes EXCEPT ![N] = "CLIENT_ACCEPTED"]
    BY DEF AcceptQuote, LatestScopeIs
  <2> HIDE DEF TermsInv
  <2> QED  BY <2>1, <2>2
<1>2. /\ M \in 1..M /\ Len(quotes') = M
      /\ quotes'[M].status = "CLIENT_ACCEPTED"
      /\ \A n \in 1..M : n # M => quotes'[n] = quotes[n]
  <2>1. quotes \in Seq(Quotes) /\ M \in 1..M  BY DEF AcceptQuote, ScopingTypeOK
  <2>2. quotes[M] \in Quotes  BY <2>1
  <2>3. [quotes[M] EXCEPT !.status = "CLIENT_ACCEPTED"].status = "CLIENT_ACCEPTED"
    BY <2>2 DEF Quotes
  <2> QED  BY <2>1, <2>3 DEF AcceptQuote
<1>3. /\ state = "AWAITING_CLIENT_SCOPE_APPROVAL" /\ state' = "AWAITING_DEPOSIT"
      /\ UNCHANGED <<funded, ledger, payments>>
  BY EdgesOfScoping DEF AcceptQuote, Move
<1>4. Accepted = {} /\ AcceptedScopes = {} /\ Approved("scope_and_quote") = {}
  BY <1>3 DEF NoneAcceptedEarly, TermsOnRecord, Early
<1>5. Accepted' = {M}  BY <1>2, <1>4 DEF Accepted
<1>6. AcceptedScopes' = {N}  BY <1>1, <1>4 DEF AcceptedScopes
<1>7. /\ Approved("scope_and_quote")' = {M}
      /\ Approved("scope")' = Approved("scope")
  BY <1>4, ApprovalAdds DEF AcceptQuote
<1>8. N \in Approved("scope")  BY <1>1 DEF ScopesOnRecord
<1>9. ScopesOnRecord'
  <2>1. \A n \in 1..N : scopes[n] = "COORDINATOR_APPROVED" => n \in Approved("scope")
    BY DEF ScopesOnRecord
  <2> QED  BY <1>1, <1>7, <2>1 DEF ScopesOnRecord
<1>10. TermsOnRecord'  BY <1>5, <1>6, <1>7, <1>8 DEF TermsOnRecord
<1> QED
  BY <1>3, <1>5, <1>9, <1>10
     DEF NoneAcceptedEarly, FundingOnLedger, Early, PaymentsCounted, PaidIn

\* Evidence is taken while the client owes the deposit of accepted terms.
LEMMA CommitFundingTerms ==
  ASSUME TermsInv, ScopingTypeOK', NEW r \in Requests, CommitFunding(r)
  PROVE  TermsInv'
<1> USE DEF TermsInv
<1> DEFINE row == req[r].row
<1>1. row \in Payments /\ row.amount \in Nat
  BY ScopingAssumption DEF CommitFunding, ScopingTypeOK, FundingCalls, Payments
<1>2. /\ payments' = payments \cup {row} /\ funded' = funded + row.amount
      /\ \A p \in payments : p.key # row.key
      /\ UNCHANGED <<state, approvals, scopes, quotes>>
  BY DEF CommitFunding, Unrecorded
<1>3. /\ ledger'["external_funding_evidence"] = ledger["external_funding_evidence"] + row.amount
      /\ ledger'["client_funding_liability"] = ledger["client_funding_liability"] - row.amount
  <2>1. ledger \in [Accounts -> Int]  BY DEF ScopingTypeOK, RecordTypeOK
  <2>2. Post("external_funding_evidence", "client_funding_liability", row.amount)
    BY DEF CommitFunding
  <2> HIDE DEF row
  <2> QED  BY <1>1, <2>1, <2>2, PostKeepsTypes
<1>4. Accepted # {}  BY DEF CommitFunding, TermsOnRecord
<1>5. /\ Accepted' = Accepted /\ AcceptedScopes' = AcceptedScopes
      /\ \A subject : Approved(subject)' = Approved(subject)
  BY <1>2 DEF Accepted, AcceptedScopes, Approved
<1>6. FundingOnLedger'
  <2>1. \A p, q \in payments' : p.key = q.key => p = q  BY <1>2 DEF FundingOnLedger
  <2>2. funded \in Nat  BY DEF ScopingTypeOK, RecordTypeOK
  <2>3. /\ ledger["external_funding_evidence"] = funded
        /\ ledger["client_funding_liability"] = 0 - funded
    BY DEF FundingOnLedger
  <2> HIDE DEF TermsInv, row
  <2>4. /\ ledger'["external_funding_evidence"] = funded'
        /\ ledger'["client_funding_liability"] = 0 - funded'
    BY <1>1, <1>2, <1>3, <2>2, <2>3
  <2> QED  BY <1>4, <1>5, <2>1, <2>4 DEF FundingOnLedger
<1>7. PaymentsCounted'
  <2>1. /\ IsFiniteSet(payments) /\ payments \subseteq Payments /\ funded = PaidIn
        /\ row \notin payments
    BY <1>2 DEF PaymentsCounted, ScopingTypeOK
  <2> HIDE DEF TermsInv, row
  <2>2. IsFiniteSet(payments)' /\ PaidIn' = PaidIn + row.amount /\ PaidIn \in Nat
    BY <1>1, <1>2, <2>1, PaymentAdds
  <2> QED  BY <1>1, <1>2, <2>1, <2>2 DEF PaymentsCounted
<1> QED
  BY <1>2, <1>5, <1>6, <1>7 DEF TermsOnRecord, NoneAcceptedEarly, ScopesOnRecord

\* Every step keeps the terms.
LEMMA TermsStep == ASSUME TermsInv, [ScopingNext]_scopingVars PROVE TermsInv'
<1>0. ScopingTypeOK'  BY TypesStep DEF TermsInv
<1>1. CASE ScopeRuns \/ (\E r \in Requests : AbandonInScoping(r)) \/ UNCHANGED scopingVars
  BY <1>0, <1>1, TermsKept
     DEF ScopeRuns, StartScopeRun, FinishScopeRun, AbandonInScoping, Abandon, scopingVars, record,
         scopingRows, money
<1>2. CASE QuoteRequests
  <2> PICK r \in Requests : \/ LoadForQuote(r) \/ NumberQuote(r) \/ CommitQuote(r)
                            \/ \E base \in Bases : PriceQuote(r, base)
    BY <1>2 DEF QuoteRequests
  <2>1. CASE CommitQuote(r)
    <3>1. req[r].scope \in Nat /\ req[r].base \in Nat
      BY <2>1, ScopingAssumption DEF CommitQuote, TermsInv, ScopingTypeOK, QuoteNumbers
    <3> QED  BY <1>0, <2>1, <3>1, TermsKept DEF CommitQuote
  <2>2. CASE LoadForQuote(r) \/ NumberQuote(r) \/ \E base \in Bases : PriceQuote(r, base)
    BY <1>0, <2>2, TermsKept DEF LoadForQuote, NumberQuote, PriceQuote, record, scopingRows
  <2> QED  BY <2>1, <2>2
<1>3. CASE FundingRequests
  BY <1>0, <1>3, TermsKept, CommitFundingTerms
     DEF FundingRequests, CheckFunding, record, scopingRows
<1>4. CASE ScopingTransitions
  <2> PICK role \in Roles :
        \/ SubmitProject(role) \/ CompleteScoping(role) \/ ApproveScope(role)
        \/ AcceptQuote(role) \/ ConfirmFunding(role)
        \/ \E to \in Detours : DivertFromScoping(role, to)
    BY <1>4 DEF ScopingTransitions
  <2>1. CASE \/ SubmitProject(role) \/ CompleteScoping(role) \/ ConfirmFunding(role)
             \/ \E to \in Detours : DivertFromScoping(role, to)
    <3>1. /\ \E to \in States \ {"AWAITING_DEPOSIT"} : Move(role, to)
          /\ UNCHANGED <<approvals, scopes, quotes, payments>>
      BY <2>1, RecordAssumption
         DEF SubmitProject, CompleteScoping, ConfirmFunding, DivertFromScoping, Divert,
             scopingRows, States
    <3>2. UNCHANGED <<funded, ledger>>  BY <3>1 DEF Move
    <3> QED  BY <1>0, <3>1, <3>2, TermsKept
  <2> QED  BY <1>0, <2>1, ApproveScopeTerms, AcceptQuoteTerms
<1> QED  BY <1>1, <1>2, <1>3, <1>4 DEF ScopingNext

\* The terms hold in every state.
LEMMA TermsInvHolds == ScopingSpec => []TermsInv
  BY InitTermsInv, TermsStep, PTL DEF ScopingSpec

\* The terms are settled once and on record, whatever scope run or quote is in flight.
THEOREM TermsSettledOnce == ScopingSpec => []TermsOnRecord
<1>1. TermsInv => TermsOnRecord  BY DEF TermsInv
<1> QED  BY <1>1, TermsInvHolds, PTL

\* Funding evidence counts once: ledger, payment events and funded_minor agree, a key
\* is recorded once, and nothing is paid before the terms were accepted.
THEOREM FundsCountedOnce == ScopingSpec => []FundingCountedOnce
<1>1. TermsInv => FundingCountedOnce
  BY DEF TermsInv, PaymentsCounted, FundingCountedOnce
<1> QED  BY <1>1, TermsInvHolds, PTL
=============================================================================
