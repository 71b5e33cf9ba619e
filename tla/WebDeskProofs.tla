--------------------------- MODULE WebDeskProofs ---------------------------
(***************************************************************************)
(* What TLAPS proves of the pages of the web client, each for any contents *)
(* of its sets and any bounds: the public credential check, the            *)
(* evaluator's page, the two intakes, signing up, and the desks of         *)
(* submissions, internships, talent and records.                           *)
(***************************************************************************)
EXTENDS CredentialDesk, JudgePage, ClientIntake, StudentSignup, SubmissionDesk,
        InternshipPortal, TalentDesk, IntakeDesk, RecordsDesk, FiniteSetTheorems,
        SequenceTheorems, TLAPS

----------------------------------------------------------------------------
(* Credentials and their public check. *)

CheckRequest(stage, slug, before) == [stage |-> stage, slug |-> slug, revoked |-> before]
CheckVerified(slug, before, signed) ==
  [stage |-> "verified", slug |-> slug, revoked |-> before, signed |-> signed]
CheckAnswered(slug, before, status, signed) ==
  [stage |-> "answered", slug |-> slug, revoked |-> before, status |-> status,
   signed |-> signed]

Issued(slug) == slug <= Len(cdCredentials)

\* An answer that says valid is about a credential that was issued and not revoked
\* when the check began.
Honest(slug, before, status) == status = "VALID" => Issued(slug) /\ slug \notin before

\* The request of the page, stage by stage: what it has read still holds.
CheckKnows ==
  \/ cdCheck = NoCheck
  \/ \E slug \in Slugs, before \in SUBSET Revoked :
       \/ cdCheck = CheckRequest("sent", slug, before)
       \/ Issued(slug) /\ cdCheck = CheckRequest("found", slug, before)
       \/ Issued(slug) /\ \E signed \in BOOLEAN : cdCheck = CheckVerified(slug, before, signed)
       \/ \E status \in {"VALID", "REVOKED", "NOT_FOUND"}, signed \in BOOLEAN :
            /\ Honest(slug, before, status)
            /\ cdCheck = CheckAnswered(slug, before, status, signed)
CardKnows ==
  \/ cdCard = NoCard
  \/ \E slug \in Slugs, before \in SUBSET Revoked,
        status \in {"VALID", "REVOKED", "NOT_FOUND"}, signed \in BOOLEAN :
       /\ Honest(slug, before, status)
       /\ cdCard = CheckAnswered(slug, before, status, signed)

\* What a coordinator's request can hold between its lookup and its commit.
CoordinatorCalls ==
  {FreeCall} \cup [op : {"issue"}, ring : KeyRings]
  \cup [op : {"revoke"}, credential : Slugs, key : RevocationKeys]

CdInv ==
  /\ cdCredentials \in Seq(KeyRings)
  /\ cdRing \in KeyRings
  /\ cdCall \in [Callers -> CoordinatorCalls]
  /\ cdBox \in 0..MaxCredentials
  /\ CheckKnows /\ CardKnows

\* The initial states.
LEMMA InitCdInv == CdInit => CdInv
<1> SUFFICES ASSUME CdInit PROVE CdInv  OBVIOUS
<1>1. CheckKnows
  <2>1. CASE cdBox = 0  BY <2>1 DEF CdInit, CheckKnows
  <2>2. CASE cdBox # 0
    <3>1. cdBox \in Slugs  BY <2>2, CredentialAssumption DEF CdInit, Slugs
    <3>2. cdCheck = CheckRequest("sent", cdBox, {}) /\ {} \in SUBSET Revoked
      BY <2>2 DEF CdInit, CheckRequest
    <3> QED  BY <3>1, <3>2 DEF CheckKnows
  <2> QED  BY <2>1, <2>2
<1> QED  BY <1>1 DEF CdInit, CdInv, CardKnows, CoordinatorCalls

\* Credentials are only added and never leave; so are revocations.  Whatever the page
\* has read stays true.
LEMMA RowsGrow ==
  ASSUME CheckKnows, CardKnows, UNCHANGED <<cdCheck, cdCard>>,
         Revoked \subseteq Revoked', Len(cdCredentials) <= Len(cdCredentials'),
         Len(cdCredentials) \in Nat, Len(cdCredentials') \in Nat
  PROVE  CheckKnows' /\ CardKnows'
<1> USE CredentialAssumption DEF Slugs
<1>1. \A slug \in Slugs : Issued(slug) => Issued(slug)'  BY DEF Issued
<1>2. \A slug \in Slugs : \A before, status : Honest(slug, before, status) => Honest(slug, before, status)'
  BY <1>1 DEF Honest
<1>3. CheckKnows'
  <2>1. CASE cdCheck = NoCheck  BY <2>1 DEF CheckKnows
  <2>2. ASSUME NEW slug \in Slugs, NEW before \in SUBSET Revoked,
               cdCheck = CheckRequest("sent", slug, before)
        PROVE  CheckKnows'
    BY <2>2 DEF CheckKnows
  <2>3. ASSUME NEW slug \in Slugs, NEW before \in SUBSET Revoked,
               Issued(slug), cdCheck = CheckRequest("found", slug, before)
        PROVE  CheckKnows'
    BY <2>3, <1>1 DEF CheckKnows
  <2>4. ASSUME NEW slug \in Slugs, NEW before \in SUBSET Revoked, NEW signed \in BOOLEAN,
               Issued(slug), cdCheck = CheckVerified(slug, before, signed)
        PROVE  CheckKnows'
    BY <2>4, <1>1 DEF CheckKnows
  <2>5. ASSUME NEW slug \in Slugs, NEW before \in SUBSET Revoked, NEW signed \in BOOLEAN,
               NEW status \in {"VALID", "REVOKED", "NOT_FOUND"},
               Honest(slug, before, status), cdCheck = CheckAnswered(slug, before, status, signed)
        PROVE  CheckKnows'
    BY <2>5, <1>2 DEF CheckKnows
  <2> QED  BY <2>1, <2>2, <2>3, <2>4, <2>5 DEF CheckKnows
<1>4. CardKnows'
  BY <1>2 DEF CardKnows
<1> QED  BY <1>3, <1>4

\* A credential is issued.
LEMMA IssueInv == ASSUME CdInv, NEW c \in Callers, CommitIssue(c) PROVE CdInv'
<1>1. cdCall[c].ring \in KeyRings  BY DEF CommitIssue, CdInv, CoordinatorCalls, FreeCall
<1>2. cdCredentials' = Append(cdCredentials, cdCall[c].ring)  BY DEF CommitIssue
<1>3. /\ cdCredentials' \in Seq(KeyRings)
      /\ Len(cdCredentials) \in Nat /\ Len(cdCredentials') = Len(cdCredentials) + 1
  BY <1>1, <1>2 DEF CdInv
<1>4. Revoked' = Revoked /\ UNCHANGED <<cdCheck, cdCard, cdRing, cdBox>>
  BY DEF CommitIssue, Revoked, cdPage
<1>5. CheckKnows' /\ CardKnows'
  BY <1>3, <1>4, RowsGrow DEF CdInv
<1>6. cdCall' \in [Callers -> CoordinatorCalls]  BY DEF CommitIssue, CdInv, CoordinatorCalls
<1> QED  BY <1>3, <1>4, <1>5, <1>6 DEF CdInv

\* One is revoked; the register only grows.
LEMMA RevokeInv == ASSUME CdInv, NEW c \in Callers, CommitRevoke(c) PROVE CdInv'
<1>1. cdRevocations \subseteq cdRevocations'  BY DEF CommitRevoke
<1>2. Revoked \subseteq Revoked'  BY <1>1 DEF Revoked
<1>3. UNCHANGED <<cdCredentials, cdCheck, cdCard, cdRing, cdBox>>
  BY DEF CommitRevoke, cdPage
<1>4. Len(cdCredentials) \in Nat  BY DEF CdInv
<1>5. CheckKnows' /\ CardKnows'  BY <1>2, <1>3, <1>4, RowsGrow DEF CdInv
<1>6. cdCall' \in [Callers -> CoordinatorCalls]  BY DEF CommitRevoke, CdInv, CoordinatorCalls
<1> QED  BY <1>3, <1>5, <1>6 DEF CdInv

\* The steps of the coordinators that commit nothing.
LEMMA CallsInv ==
  ASSUME CdInv, NEW c \in Callers,
         \/ CheckIssue(c) \/ AbandonCall(c)
         \/ \E n \in Slugs, key \in RevocationKeys : CheckRevoke(c, n, key)
  PROVE  CdInv'
<1>1. UNCHANGED <<cdCredentials, cdRevocations, cdCheck, cdCard, cdBox>>
  BY DEF CheckIssue, AbandonCall, CheckRevoke, cdRows, cdPage
<1>2. Revoked' = Revoked /\ Len(cdCredentials) \in Nat  BY <1>1 DEF Revoked, CdInv
<1>3. CheckKnows' /\ CardKnows'  BY <1>1, <1>2, RowsGrow DEF CdInv
<1>4. cdRing' \in KeyRings
  BY DEF CheckIssue, AbandonCall, CheckRevoke, CdInv
<1>5. cdCall' \in [Callers -> CoordinatorCalls]
  BY DEF CheckIssue, AbandonCall, CheckRevoke, CdInv, CoordinatorCalls
<1> QED  BY <1>1, <1>3, <1>4, <1>5 DEF CdInv

\* The steps of the page: what they read is added to what the request knows.
LEMMA VerifyInv ==
  ASSUME CdInv, Verify \/ \E slug \in 0..MaxCredentials : TypeSlug(slug) PROVE CdInv'
<1>1. UNCHANGED <<cdCredentials, cdRevocations, cdRing, cdCall, cdCard>>
  BY DEF Verify, TypeSlug, cdRows
<1>2. Revoked' = Revoked /\ cdBox' \in 0..MaxCredentials
  BY <1>1 DEF Revoked, Verify, TypeSlug, CdInv
<1>3. CASE UNCHANGED cdCheck
  BY <1>1, <1>2, <1>3, RowsGrow DEF CdInv
<1>4. CASE Verify
  <2>1. cdBox \in Slugs  BY <1>4, CredentialAssumption DEF Verify, CdInv, Slugs
  <2>2. cdCheck' = CheckRequest("sent", cdBox, Revoked)
    BY <1>4 DEF Verify, Checking, CheckRequest
  <2>3. CheckKnows'  BY <2>1, <2>2, <1>2 DEF CheckKnows
  <2>4. CardKnows'
    BY <1>1, <1>2 DEF CdInv, CardKnows, Honest, Issued
  <2> QED  BY <1>1, <1>2, <2>3, <2>4 DEF CdInv
<1> QED  BY <1>3, <1>4 DEF TypeSlug

\* A check reads the register, or the cache in front of it.
LEMMA ReadsInv ==
  ASSUME CdInv, ReadCredential \/ CheckSignature \/ ReadRevocation PROVE CdInv'
<1>1. UNCHANGED <<cdCredentials, cdRevocations, cdRing, cdCall, cdCard, cdBox>>
  BY DEF ReadCredential, CheckSignature, ReadRevocation, cdRows
<1>2. Revoked' = Revoked  BY <1>1 DEF Revoked
<1>3. CardKnows'  BY <1>1, <1>2 DEF CdInv, CardKnows, Honest, Issued
<1>4. CASE ReadCredential
  <2>1. PICK slug \in Slugs, before \in SUBSET Revoked : cdCheck = CheckRequest("sent", slug, before)
    BY <1>4 DEF ReadCredential, CdInv, CheckKnows, NoCheck, CheckRequest, CheckVerified, CheckAnswered
  <2>2. cdCheck.slug = slug /\ cdCheck.revoked = before  BY <2>1 DEF CheckRequest
  <2>3. ASSUME slug > Len(cdCredentials) PROVE CheckKnows'
    <3>1. cdCheck' = CheckAnswered(slug, before, "NOT_FOUND", FALSE)
      BY <1>4, <2>2, <2>3 DEF ReadCredential, CheckAnswered
    <3>2. Honest(slug, before, "NOT_FOUND")'  BY DEF Honest
    <3> QED  BY <1>2, <2>1, <3>1, <3>2 DEF CheckKnows
  <2>4. ASSUME ~(slug > Len(cdCredentials)) PROVE CheckKnows'
    <3>1. cdCheck' = CheckRequest("found", slug, before)
      BY <1>4, <2>1, <2>2, <2>4 DEF ReadCredential, CheckRequest
    <3>2. Issued(slug)'
      BY <1>1, <2>4, CredentialAssumption DEF Issued, CdInv, Slugs
    <3> QED  BY <1>2, <2>1, <3>1, <3>2 DEF CheckKnows
  <2>5. CheckKnows'  BY <2>3, <2>4
  <2> QED  BY <1>1, <1>3, <2>5 DEF CdInv
<1>5. CASE CheckSignature
  <2>1. PICK slug \in Slugs, before \in SUBSET Revoked :
          Issued(slug) /\ cdCheck = CheckRequest("found", slug, before)
    BY <1>5 DEF CheckSignature, CdInv, CheckKnows, NoCheck, CheckRequest, CheckVerified, CheckAnswered
  <2>2. cdCheck' = CheckVerified(slug, before, cdCredentials[slug] = cdRing)
    BY <1>5, <2>1 DEF CheckSignature, CheckRequest, CheckVerified
  <2>3. CheckKnows'  BY <1>1, <1>2, <2>1, <2>2 DEF CheckKnows, Issued
  <2> QED  BY <1>1, <1>3, <2>3 DEF CdInv
<1>6. CASE ReadRevocation
  <2>1. PICK slug \in Slugs, before \in SUBSET Revoked, signed \in BOOLEAN :
          Issued(slug) /\ cdCheck = CheckVerified(slug, before, signed)
    BY <1>6 DEF ReadRevocation, CdInv, CheckKnows, NoCheck, CheckRequest, CheckVerified, CheckAnswered
  <2>2. PICK status \in {"VALID", "REVOKED", "NOT_FOUND"} : status = EffectiveStatus(slug)
    BY DEF EffectiveStatus
  <2>3. cdCheck' = CheckAnswered(slug, before, status, signed)
    BY <1>6, <2>1, <2>2 DEF ReadRevocation, CheckAnswered, CheckVerified
  <2>4. Honest(slug, before, status)'
    BY <1>1, <2>1, <2>2 DEF Honest, Issued, EffectiveStatus
  <2>5. CheckKnows'  BY <1>2, <2>1, <2>2, <2>3, <2>4 DEF CheckKnows
  <2> QED  BY <1>1, <1>3, <2>5 DEF CdInv
<1> QED  BY <1>4, <1>5, <1>6

\* The card shows an answer, or none comes.
LEMMA AnswersInv == ASSUME CdInv, ShowCard \/ CheckFails PROVE CdInv'
<1>1. UNCHANGED <<cdCredentials, cdRevocations, cdRing, cdCall, cdBox>> /\ cdCheck' = NoCheck
  BY DEF ShowCard, CheckFails, cdRows
<1>2. Revoked' = Revoked  BY <1>1 DEF Revoked
<1>3. CASE CheckFails
  BY <1>1, <1>2, <1>3 DEF CheckFails, CdInv, CheckKnows, CardKnows, Honest, Issued
<1>4. CASE ShowCard
  <2>1. PICK slug \in Slugs, before \in SUBSET Revoked,
             status \in {"VALID", "REVOKED", "NOT_FOUND"}, signed \in BOOLEAN :
          Honest(slug, before, status) /\ cdCheck = CheckAnswered(slug, before, status, signed)
    BY <1>4 DEF ShowCard, CdInv, CheckKnows, NoCheck, CheckRequest, CheckVerified, CheckAnswered
  <2>2. CardKnows'
    BY <1>1, <1>2, <1>4, <2>1 DEF ShowCard, CardKnows, Honest, Issued
  <2> QED  BY <1>1, <2>2 DEF CdInv, CheckKnows
<1> QED  BY <1>3, <1>4

\* Every step of the desk.
LEMMA NextCdInv == ASSUME CdInv, [CdNext]_cdVars PROVE CdInv'
<1>1. ASSUME NEW c \in Callers,
             \/ CheckIssue(c) \/ CommitIssue(c)
             \/ \E n \in Slugs, key \in RevocationKeys : CheckRevoke(c, n, key)
             \/ CommitRevoke(c) \/ AbandonCall(c)
      PROVE  CdInv'
  BY <1>1, CallsInv, IssueInv, RevokeInv
<1>2. CASE \/ \E slug \in 0..MaxCredentials : TypeSlug(slug)
           \/ Verify \/ ReadCredential \/ CheckSignature \/ ReadRevocation
           \/ ShowCard \/ CheckFails
  BY <1>2, VerifyInv, ReadsInv, AnswersInv
<1>3. CASE (\E ring \in KeyRings : Reconfigure(ring)) \/ UNCHANGED cdVars
  <2>1. Revoked' = Revoked /\ cdRing' \in KeyRings
        /\ UNCHANGED <<cdCredentials, cdCall, cdBox, cdCheck, cdCard>>
    BY <1>3 DEF Reconfigure, cdVars, cdRows, cdPage, Revoked, CdInv
  <2>2. CheckKnows'  BY <2>1 DEF CdInv, CheckKnows, Honest, Issued
  <2>3. CardKnows'  BY <2>1 DEF CdInv, CardKnows, Honest, Issued
  <2> QED  BY <2>1, <2>2, <2>3 DEF CdInv
<1> QED  BY <1>1, <1>2, <1>3 DEF CdNext

\* A card that says valid hides no revocation that was recorded before its check began
\* (public_credential, effective_credential_status).
THEOREM NoRevocationHidden == CredentialSpec => []RevocationHonoured
<1>1. CdInv => RevocationHonoured
  BY DEF CdInv, CardKnows, RevocationHonoured, CardVerdict, NoCard, CheckAnswered, Honest, Issued
<1> QED  BY <1>1, InitCdInv, NextCdInv, PTL DEF CredentialSpec

----------------------------------------------------------------------------
(* The evaluator's page. *)

\* Rates the slider can be left at: multiples of five.
SliderRates == {5 * n : n \in 8..40}

PriceType ==
  jpPrice \in [hours : 10..120, rate : SliderRates, risk : RiskTiers, revisions : {0, 2, 5}]

\* Runs and results of a panel.
PanelResults ==
  [preset : ScopingPresets \cup VisualPresets \cup {"none"}, model : Models \cup {"none"},
   verdict : {"POLICY_REJECTED", "PROMPT_INJECTION_CONTAINED", "PROPOSAL_GENERATED",
              "PASS", "CHANGES_REQUIRED", "none"}]
PanelTypes ==
  /\ jpModel \in Models
  /\ jpScoping \in [preset : ScopingPresets, run : PanelResults, result : PanelResults]
  /\ jpVisual \in [preset : VisualPresets, run : PanelResults, result : PanelResults]
  /\ jpAudit \in [payload : Payloads, digests : SUBSET Payloads,
                  hash : Payloads \cup {"none", "error"}, tampered : BOOLEAN]
  /\ wtPlaying \in BOOLEAN /\ wtReduced \in BOOLEAN

\* A run in progress carries the verdict on its own preset.
RunsKnow ==
  jpScoping.run # NoResult => jpScoping.run.verdict = ScopingVerdict(jpScoping.run.preset)

PanelInv == PanelTypes /\ RunsKnow /\ SandboxIsConsistent

\* Three shares, each rounded by itself, of a price that is a multiple of five.
LEMMA SharesOfFives ==
  ASSUME NEW k \in Nat
  PROVE  LET b == 5 * k
             shares == StudentShare(b) + LeadShare(b) + PlatformReserve(b)
         IN b <= shares /\ shares <= b + 1
<1> DEFINE q == k \div 4
           r == k % 4
<1>1. k = 4 * q + r /\ q \in Nat /\ r \in 0..3  OBVIOUS
<1> HIDE DEF q, r
<1>2. /\ StudentShare(5 * k) = (750 * k + 100) \div 200
      /\ LeadShare(5 * k) = (150 * k + 100) \div 200
      /\ PlatformReserve(5 * k) = (100 * k + 100) \div 200
  BY DEF StudentShare, LeadShare, PlatformReserve, Rounded
<1>3. CASE r = 0  BY <1>1, <1>2, <1>3
<1>4. CASE r = 1  BY <1>1, <1>2, <1>4
<1>5. CASE r = 2  BY <1>1, <1>2, <1>5
<1>6. CASE r = 3  BY <1>1, <1>2, <1>6
<1> QED  BY <1>1, <1>3, <1>4, <1>5, <1>6

\* At every position of the sliders the price is a multiple of five.
LEMMA PriceIsFives == PriceType => \E k \in Nat : BaseMinor(jpPrice) = 5 * k
<1> SUFFICES ASSUME PriceType PROVE \E k \in Nat : BaseMinor(jpPrice) = 5 * k
  OBVIOUS
<1>1. PICK n \in 8..40 : jpPrice.rate = 5 * n  BY DEF PriceType, SliderRates
<1>2. jpPrice.hours \in Nat /\ jpPrice.revisions \in Nat /\ jpPrice.risk \in RiskTiers
  BY DEF PriceType
<1>3. RiskPercent[jpPrice.risk] \in {100, 115, 130}  BY <1>2 DEF RiskTiers, RiskPercent
<1> DEFINE h == jpPrice.hours
           c == RiskPercent[jpPrice.risk]
           k == h * n * c + jpPrice.revisions * 3000
<1>4. h * n \in Nat  BY <1>1, <1>2
<1>5. (h * n) * c \in Nat /\ h * (5 * n) * c = 5 * ((h * n) * c)  BY <1>2, <1>3, <1>4
<1>6. k \in Nat /\ BaseMinor(jpPrice) = 5 * k
  BY <1>1, <1>2, <1>5 DEF BaseMinor
<1> QED  BY <1>6

\* What the sandbox holds to start with.
LEMMA PriceInv == JpInit => PriceType
  BY DEF JpInit, PriceType, SliderRates, RiskTiers

\* And stay numbers.
LEMMA PriceStep == ASSUME PriceType, [JpNext]_jpVars PROVE PriceType'
<1>1. CASE MoveSlider
  <2>1. CASE \E h \in SandboxHours : jpPrice' = [jpPrice EXCEPT !.hours = h]
    BY <2>1, JudgeAssumption DEF PriceType
  <2>2. CASE \E r \in SandboxRates : jpPrice' = [jpPrice EXCEPT !.rate = r]
    BY <2>2, JudgeAssumption DEF PriceType, SliderRates
  <2>3. CASE \E t \in RiskTiers : jpPrice' = [jpPrice EXCEPT !.risk = t]
    BY <2>3 DEF PriceType
  <2>4. CASE \E n \in {0, 5} : jpPrice' = [jpPrice EXCEPT !.revisions = n]
    BY <2>4 DEF PriceType
  <2> QED  BY <1>1, <2>1, <2>2, <2>3, <2>4 DEF MoveSlider
<1>2. CASE UNCHANGED jpPrice  BY <1>2 DEF PriceType
<1>3. CASE JpNext /\ ~MoveSlider
  BY <1>2, <1>3
     DEF JpNext, SandboxNext, WalkthroughNext, SelectModel, SelectScoping, RunScoping,
         ShowScoping, SelectVisual, RunVisual, ShowVisual, SelectCategory, RunMatching,
         EditPayload, RunHashVerification, DigestEnds, DigestFails, Select, Tick, TogglePlay,
         ReduceMotion, CopyLink, jpSandbox
<1> QED  BY <1>1, <1>2, <1>3 DEF jpVars, jpSandbox

\* Whatever the sliders are moved to, the shares of student, lead and platform cover the
\* price and exceed it by one minor unit at most (the pricing panel's Math.round).
THEOREM PriceIsCovered == JudgeSpec => []SharesCoverPrice
<1>1. PriceType => SharesCoverPrice
  BY PriceIsFives, SharesOfFives DEF SharesCoverPrice
<1> QED  BY <1>1, PriceInv, PriceStep, PTL DEF JudgeSpec

\* The initial states.
LEMMA InitPanelInv == JpInit => PanelInv
<1> SUFFICES ASSUME JpInit PROVE PanelInv  OBVIOUS
<1>1. NoResult \in PanelResults  BY DEF NoResult, PanelResults
<1>2. PanelTypes
  BY <1>1 DEF JpInit, PanelTypes, Models, ScopingPresets, VisualPresets, Payloads
<1>3. RunsKnow /\ SandboxIsConsistent
  BY DEF JpInit, RunsKnow, SandboxIsConsistent, Payloads
<1> QED  BY <1>2, <1>3 DEF PanelInv

\* The two panels that answer after a delay.
LEMMA PanelsStep ==
  ASSUME PanelInv,
         \/ \E preset \in ScopingPresets : SelectScoping(preset)
         \/ RunScoping \/ ShowScoping
         \/ \E preset \in VisualPresets : SelectVisual(preset)
         \/ RunVisual \/ ShowVisual
  PROVE  PanelInv'
<1> USE DEF PanelInv, PanelTypes, RunsKnow, SandboxIsConsistent, wtVars
<1>0. NoResult \in PanelResults  BY DEF NoResult, PanelResults
<1>1. ASSUME NEW preset \in ScopingPresets, SelectScoping(preset) PROVE PanelInv'
  BY <1>0, <1>1 DEF SelectScoping
<1>2. CASE RunScoping
  <2> DEFINE run == [preset |-> jpScoping.preset, model |-> jpModel,
                     verdict |-> ScopingVerdict(jpScoping.preset)]
  <2>1. run \in PanelResults /\ run.preset = jpScoping.preset
        /\ run.verdict = ScopingVerdict(jpScoping.preset)
    BY DEF ScopingVerdict, ScopingPresets, PanelResults
  <2>2. jpScoping' = [jpScoping EXCEPT !.result = NoResult, !.run = run]
        /\ UNCHANGED <<jpModel, jpVisual, jpAudit, wtPlaying, wtReduced>>
    BY <1>2 DEF RunScoping
  <2> HIDE DEF run
  <2> QED  BY <1>0, <2>1, <2>2
<1>3. CASE ShowScoping
  <2>1. /\ jpScoping'.run = NoResult /\ jpScoping'.preset = jpScoping.preset
        /\ jpScoping'.result.preset = jpScoping.run.preset
        /\ jpScoping'.result.verdict = jpScoping.run.verdict
        /\ jpScoping' \in [preset : ScopingPresets, run : PanelResults, result : PanelResults]
    BY <1>0, <1>3 DEF ShowScoping, PanelResults
  <2> QED  BY <1>3, <2>1 DEF ShowScoping
<1>4. ASSUME NEW preset \in VisualPresets, SelectVisual(preset) PROVE PanelInv'
  BY <1>0, <1>4 DEF SelectVisual
<1>5. CASE RunVisual
  <2> DEFINE run == [preset |-> jpVisual.preset, model |-> jpModel,
                     verdict |-> VisualVerdict(jpVisual.preset)]
  <2>1. run \in PanelResults  BY DEF VisualVerdict, VisualPresets, PanelResults
  <2>2. jpVisual' = [jpVisual EXCEPT !.result = NoResult, !.run = run]
        /\ UNCHANGED <<jpModel, jpScoping, jpAudit, wtPlaying, wtReduced>>
    BY <1>5 DEF RunVisual
  <2> HIDE DEF run
  <2> QED  BY <1>0, <2>1, <2>2
<1>6. CASE ShowVisual  BY <1>0, <1>6 DEF ShowVisual
<1> QED  BY <1>1, <1>2, <1>3, <1>4, <1>5, <1>6

\* The audit panel and the walkthrough.
LEMMA AuditStep ==
  ASSUME PanelInv,
         \/ \E payload \in Payloads : EditPayload(payload) \/ DigestEnds(payload) \/ DigestFails(payload)
         \/ RunHashVerification \/ WalkthroughNext
  PROVE  PanelInv'
<1> USE DEF PanelInv, PanelTypes, RunsKnow, SandboxIsConsistent
<1>1. ASSUME NEW payload \in Payloads, EditPayload(payload) PROVE PanelInv'
  BY <1>1 DEF EditPayload, wtVars
<1>2. ASSUME NEW payload \in Payloads, DigestEnds(payload) PROVE PanelInv'
  BY <1>2 DEF DigestEnds, VerdictOn, Tampered, wtVars
<1>3. ASSUME NEW payload \in Payloads, DigestFails(payload) PROVE PanelInv'
  BY <1>3 DEF DigestFails, Payloads, wtVars
<1>4. CASE RunHashVerification  BY <1>4 DEF RunHashVerification, wtVars
<1>5. CASE WalkthroughNext
  <2> DEFINE Calm == /\ wtPlaying' \in BOOLEAN /\ wtReduced' \in BOOLEAN
                     /\ wtPlaying' => ~wtReduced'
  <2>1. ASSUME NEW n \in 0..LastIndex, Select(n) PROVE Calm
    BY <2>1, Zenon DEF Select
  <2>2. ASSUME Tick PROVE Calm  BY <2>2, Zenon DEF Tick
  <2>3. ASSUME TogglePlay PROVE Calm
    <3>1. wtPlaying' \in BOOLEAN  BY <2>3, Zenon DEF TogglePlay
    <3> QED  BY <2>3, <3>1, Zenon DEF TogglePlay
  <2>4. ASSUME NEW on \in BOOLEAN, ReduceMotion(on) PROVE Calm
    <3>1. wtPlaying' \in BOOLEAN  BY <2>4, Zenon DEF ReduceMotion
    <3>2. wtReduced' = on  BY <2>4, Zenon DEF ReduceMotion
    <3>3. wtPlaying' => ~on  BY <2>4, Zenon DEF ReduceMotion
    <3> QED  BY <3>1, <3>2, <3>3, Zenon
  <2>5. ASSUME NEW on \in BOOLEAN, CopyLink(on) PROVE Calm
    BY <2>5, Zenon DEF CopyLink
  <2>6. Calm  BY <1>5, <2>1, <2>2, <2>3, <2>4, <2>5 DEF WalkthroughNext
  <2>7. UNCHANGED jpSandbox
    BY <1>5, Zenon DEF WalkthroughNext, Select, Tick, TogglePlay, ReduceMotion, CopyLink
  <2> QED  BY <2>6, <2>7 DEF jpSandbox
<1> QED  BY <1>1, <1>2, <1>3, <1>4, <1>5

\* PanelResults, hashes and verdicts shown beside each other belong together, and nothing
\* plays against a wish for less motion, over any interleaving of inputs and answers.
THEOREM SandboxStaysConsistent == JudgeSpec => []SandboxIsConsistent
<1>1. ASSUME PanelInv, [JpNext]_jpVars PROVE PanelInv'
  <2>1. CASE \/ \E model \in Models : SelectModel(model)
             \/ MoveSlider \/ RunMatching
             \/ \E category \in {"frontend", "backend"} : SelectCategory(category)
             \/ UNCHANGED jpVars
    <3>1. jpModel' \in Models /\ UNCHANGED <<jpScoping, jpVisual, jpAudit, wtPlaying, wtReduced>>
      BY <1>1, <2>1
         DEF SelectModel, MoveSlider, RunMatching, SelectCategory, jpVars, jpSandbox, wtVars,
             PanelInv, PanelTypes
    <3> QED  BY <1>1, <3>1 DEF PanelInv, PanelTypes, RunsKnow, SandboxIsConsistent
  <2> QED  BY <1>1, <2>1, PanelsStep, AuditStep DEF JpNext, SandboxNext
<1>2. PanelInv => SandboxIsConsistent  BY DEF PanelInv
<1> QED  BY <1>1, <1>2, InitPanelInv, PTL DEF JudgeSpec

----------------------------------------------------------------------------
(* The project intake of a client. *)

\* Every step of the form keeps the draft it must keep.
LEMMA DraftStep ==
  ASSUME CompleteDraftKept, [CiNext]_ciVars PROVE CompleteDraftKept'
<1> USE DEF CompleteDraftKept, OnPage
<1>1. ~PassesSchema(Defaults)
  BY DEF PassesSchema, Defaults, Steps, LastStep
<1>2. ASSUME NEW value \in FieldStates, EditField(value) PROVE CompleteDraftKept'
  BY <1>2 DEF EditField
<1>3. CASE NextStep \/ PreviousStep \/ SubmitProject \/ CreateProject
  BY <1>3 DEF NextStep, PreviousStep, SubmitProject, CreateProject, PassesSchema
<1>4. CASE ProjectAnswered  BY <1>4 DEF ProjectAnswered
<1>5. CASE SubmitFails  BY <1>5 DEF SubmitFails, PassesSchema
<1>6. CASE ReloadForm
  <2>1. CASE ciDraft # NoDraft /\ PassesSchema(ciDraft)  BY <1>6, <2>1 DEF ReloadForm
  <2>2. CASE ~(ciDraft # NoDraft /\ PassesSchema(ciDraft))
    BY <1>1, <1>6, <2>2 DEF ReloadForm, PassesSchema
  <2> QED  BY <2>1, <2>2
<1>7. CASE UNCHANGED ciVars  BY <1>7 DEF ciVars, PassesSchema
<1> QED  BY <1>2, <1>3, <1>4, <1>5, <1>6, <1>7 DEF CiNext

\* A complete form is in the browser's storage until its project is known to exist
\* (handleSubmit clears the draft only after the answer).
THEOREM DraftsAreKept == CiSpec => []CompleteDraftKept
<1>1. CiInit => CompleteDraftKept
  BY DEF CiInit, CompleteDraftKept, PassesSchema, Defaults, Steps, LastStep
<1> QED  BY <1>1, DraftStep, PTL DEF CiSpec

----------------------------------------------------------------------------
(* Signing up. *)

SignupIds == [program : {ProgramOf[c] : c \in Cohorts} \cup {None}, cohort : Cohorts \cup {None}]
SignupTabs ==
  [at : {"programs", "signup", "callback", "application", "login"}, ids : SignupIds,
   call : {"idle", "signing up", "sent", "new", "created", "check email"}, error : BOOLEAN]

\* Ids in an address or a mail come from an Apply that was pressed, or there are none.
From(ids, pressed) ==
  \/ ids = NoIds
  \/ ids.cohort \in pressed /\ ids.program = ProgramOf[ids.cohort]

\* Where a tab has got to presupposes what came before.
TabsKnow ==
  \A t \in SuTabs :
    /\ From(suTabs[t].ids, suChosen)
    /\ suTabs[t].at = "callback" => suMail = "confirmed"
    /\ suTabs[t].call \in {"sent", "new", "created"} => suMail = "confirmed"
    /\ suTabs[t].call = "new" => suTabs[t].ids.cohort \in Eligible
    /\ suTabs[t].call = "created" => suApplications # {}
    /\ suTabs[t].at = "application" => suApplications # {}

SuInv ==
  /\ suTabs \in [SuTabs -> SignupTabs]
  /\ suLinks \subseteq SignupIds /\ suChosen \subseteq Cohorts
  /\ suSession \in BOOLEAN /\ suCookie \in BOOLEAN
  /\ suUsers \in {0, 1} /\ IsFiniteSet(suApplications)
  /\ TabsKnow
  /\ \A link \in suLinks : From(link, suChosen)
  /\ suSession => suMail = "confirmed"
  /\ suCookie => suApplications # {}
  /\ suUsers = 0 => suApplications = {}
  /\ AppliedAsChosen

\* The initial states.
LEMMA InitSuInv == SuInit => SuInv
<1> SUFFICES ASSUME SuInit PROVE SuInv  OBVIOUS
<1>1. NoIds \in SignupIds  BY DEF NoIds, SignupIds
<1>2. Tab("programs", NoIds) \in SignupTabs  BY <1>1 DEF Tab, SignupTabs
<1>3. \A t \in SuTabs : suTabs[t] = Tab("programs", NoIds)  BY DEF SuInit
<1>4. TabsKnow  BY <1>3 DEF TabsKnow, Tab, From
<1>5. IsFiniteSet({}) /\ Cardinality({}) = 0  BY FS_EmptySet
<1>6. AppliedAsChosen  BY <1>3, <1>5 DEF SuInit, AppliedAsChosen, Tab, On
<1> QED  BY <1>2, <1>4, <1>5, <1>6 DEF SuInit, SuInv

\* A tab that changes alone: what it presupposes is all there is to show.
LEMMA TabMoves ==
  ASSUME SuInv, NEW t \in SuTabs, NEW tab \in SignupTabs, suTabs' = [suTabs EXCEPT ![t] = tab],
         suChosen \subseteq suChosen', suChosen' \subseteq Cohorts,
         suMail = "confirmed" => suMail' = "confirmed",
         suLinks' \subseteq suLinks \cup {suTabs[t].ids},
         suSession' \in BOOLEAN, suSession' => suMail' = "confirmed",
         suCookie' \in BOOLEAN, suCookie' => suApplications # {},
         UNCHANGED suRows,
         From(tab.ids, suChosen'),
         tab.at = "callback" => suMail' = "confirmed",
         tab.call \in {"sent", "new", "created"} => suMail' = "confirmed",
         tab.call = "new" => tab.ids.cohort \in Eligible,
         tab.call = "created" => suApplications # {},
         tab.at = "application" => suApplications # {}
  PROVE  SuInv'
<1>1. suTabs'[t] = tab /\ \A u \in SuTabs : u # t => suTabs'[u] = suTabs[u]
  BY DEF SuInv
<1>2. \A ids : From(ids, suChosen) => From(ids, suChosen')  BY DEF From
<1>3. UNCHANGED <<suUsers, suApplications>>  BY DEF suRows
<1>4. suTabs' \in [SuTabs -> SignupTabs] /\ suTabs[t].ids \in SignupIds
  BY DEF SuInv, SignupTabs
<1>5. TabsKnow'
  BY <1>1, <1>2, <1>3 DEF SuInv, TabsKnow
<1>6. suLinks' \subseteq SignupIds /\ \A link \in suLinks' : From(link, suChosen')
  BY <1>2, <1>4 DEF SuInv, TabsKnow
<1>7. AppliedAsChosen'
  BY <1>1, <1>3 DEF SuInv, AppliedAsChosen, On, TabsKnow
<1> QED  BY <1>3, <1>4, <1>5, <1>6, <1>7 DEF SuInv

\* A tab that stays where it is and with the ids it has, and changes what its request is at.
Calls(t, called, error) ==
  suTabs' = [suTabs EXCEPT ![t].call = called, ![t].error = error]
\* A call of a tab moves on, no further than what it has achieved.
LEMMA TabCalls ==
  ASSUME SuInv, NEW t \in SuTabs, NEW called, NEW error \in BOOLEAN,
         called \in {"idle", "signing up", "sent", "new", "check email"},
         Calls(t, called, error),
         called \in {"sent", "new"} => suMail = "confirmed",
         called = "new" => suTabs[t].ids.cohort \in Eligible,
         UNCHANGED <<suChosen, suAccounts, suRows, suCookie>>
  PROVE  SuInv'
<1> DEFINE tab == [suTabs[t] EXCEPT !.call = called, !.error = error]
<1>1. suTabs[t] \in SignupTabs  BY DEF SuInv
<1>2. /\ tab \in SignupTabs /\ tab.ids = suTabs[t].ids /\ tab.at = suTabs[t].at
      /\ tab.call = called /\ suTabs' = [suTabs EXCEPT ![t] = tab]
  BY <1>1 DEF SignupTabs, Calls
<1> HIDE DEF tab
<1>3. From(suTabs[t].ids, suChosen) /\ UNCHANGED <<suMail, suLinks, suSession>>
  BY DEF SuInv, TabsKnow, suAccounts
<1>4. /\ tab.at = "callback" => suMail = "confirmed"
      /\ tab.at = "application" => suApplications # {}
  BY <1>2 DEF SuInv, TabsKnow
<1>5. /\ suChosen \subseteq Cohorts /\ suSession \in BOOLEAN /\ suCookie \in BOOLEAN
      /\ suSession => suMail = "confirmed"
      /\ suCookie => suApplications # {}
  BY DEF SuInv
<1> QED  BY <1>2, <1>3, <1>4, <1>5, TabMoves

\* A tab that goes to another page.
LEMMA TabGoes ==
  ASSUME SuInv, NEW t \in SuTabs, NEW at, NEW ids \in SignupIds, Goes(t, Tab(at, ids)),
         at \in {"programs", "signup", "callback", "application", "login"},
         suChosen \subseteq suChosen', suChosen' \subseteq Cohorts, From(ids, suChosen'),
         suMail' \in {suMail, "confirmed"}, at = "callback" => suMail' = "confirmed",
         suLinks' \subseteq suLinks,
         suSession' \in BOOLEAN, suSession' => suMail' = "confirmed",
         suCookie' \in BOOLEAN, suCookie' => suApplications # {},
         at = "application" => suApplications # {}, UNCHANGED suRows
  PROVE  SuInv'
<1> DEFINE tab == Tab(at, ids)
<1>1. /\ tab \in SignupTabs /\ tab.ids = ids /\ tab.at = at /\ tab.call = "idle"
      /\ suTabs' = [suTabs EXCEPT ![t] = tab]
  BY DEF Tab, SignupTabs, Goes
<1> HIDE DEF tab
<1> QED  BY <1>1, TabMoves

\* The pages on the way to the application.
LEMMA PagesSuInv ==
  ASSUME SuInv, NEW t \in SuTabs,
         \/ BrowsePrograms(t) \/ (\E c \in Cohorts : Apply(t, c))
         \/ (\E link \in suLinks : FollowLink(t, link))
         \/ CodeExchanged(t) \/ CodeRefused(t) \/ Restart(t)
  PROVE  SuInv'
<1>1. NoIds \in SignupIds /\ From(NoIds, suChosen') /\ suTabs[t] \in SignupTabs
  BY DEF NoIds, SignupIds, From, SuInv
<1>2. CASE BrowsePrograms(t)
  BY <1>1, <1>2, TabGoes DEF BrowsePrograms, SuInv, suAccounts
<1>3. ASSUME NEW c \in Cohorts, Apply(t, c) PROVE SuInv'
  <2> DEFINE ids == [program |-> ProgramOf[c], cohort |-> c]
  <2>1. ids \in SignupIds /\ ids.cohort = c /\ ids.program = ProgramOf[ids.cohort]
    BY DEF SignupIds
  <2>2. Goes(t, Tab("signup", ids)) /\ suChosen' = suChosen \cup {c}
        /\ UNCHANGED <<suMail, suLinks, suSession, suRows, suCookie>>
    BY <1>3 DEF Apply, suAccounts
  <2>3. From(ids, suChosen')  BY <2>1, <2>2 DEF From
  <2> HIDE DEF ids
  <2> QED  BY <2>1, <2>2, <2>3, TabGoes DEF SuInv
<1>4. ASSUME NEW link \in suLinks, FollowLink(t, link) PROVE SuInv'
  <2>1. From(link, suChosen') /\ link \in SignupIds  BY <1>4 DEF SuInv, FollowLink, From
  <2> QED  BY <1>4, <2>1, TabGoes DEF FollowLink, SuInv
<1>5. CASE CodeExchanged(t)
  <2>1. suTabs[t].ids \in SignupIds /\ From(suTabs[t].ids, suChosen) /\ suMail = "confirmed"
    BY <1>1, <1>5 DEF SuInv, TabsKnow, SignupTabs, CodeExchanged, On
  <2>2. CallbackDestination(suTabs[t].ids) = suTabs[t].ids
    BY <2>1 DEF CallbackDestination, SignupPath, SignupIds
  <2>3. /\ suSession' = TRUE /\ Goes(t, Tab("signup", suTabs[t].ids))
        /\ UNCHANGED <<suChosen, suMail, suLinks, suRows, suCookie>>
    BY <1>5, <2>2 DEF CodeExchanged
  <2>4. PICK ids \in SignupIds : ids = suTabs[t].ids  BY <2>1
  <2>5. From(ids, suChosen')  BY <2>1, <2>3, <2>4 DEF From
  <2> QED  BY <2>1, <2>3, <2>4, <2>5, TabGoes DEF SuInv
<1>6. CASE CodeRefused(t)
  <2>1. /\ Calls(t, "idle", TRUE)
        /\ UNCHANGED <<suChosen, suAccounts, suRows, suCookie>>
    BY <1>6 DEF CodeRefused, Ends, Calls
  <2> QED  BY <2>1, TabCalls
<1>7. CASE Restart(t)
  BY <1>1, <1>7, TabGoes DEF Restart, SuInv, suAccounts
<1> QED  BY <1>2, <1>3, <1>4, <1>5, <1>6, <1>7

\* A mail is asked for, sent or refused.
LEMMA MailSuInv ==
  ASSUME SuInv, NEW t \in SuTabs, SendMail(t) \/ MailSent(t) \/ MailFails(t) PROVE SuInv'
<1>1. CASE SendMail(t)
  <2>1. /\ Calls(t, "signing up", FALSE)
        /\ UNCHANGED <<suChosen, suAccounts, suRows, suCookie>>
    BY <1>1 DEF SendMail, Calls
  <2> QED  BY <2>1, TabCalls
<1>2. CASE MailFails(t)
  <2>1. /\ Calls(t, "idle", TRUE)
        /\ UNCHANGED <<suChosen, suAccounts, suRows, suCookie>>
    BY <1>2 DEF MailFails, Ends, Calls
  <2> QED  BY <2>1, TabCalls
<1>3. CASE MailSent(t)
  <2> DEFINE tab == [suTabs[t] EXCEPT !.call = "idle", !.error = FALSE]
  <2>1. suTabs[t] \in SignupTabs  BY DEF SuInv
  <2>2. /\ tab \in SignupTabs /\ tab.ids = suTabs[t].ids /\ tab.at = suTabs[t].at
        /\ tab.call = "idle" /\ suTabs' = [suTabs EXCEPT ![t] = tab]
        /\ UNCHANGED <<suChosen, suSession, suRows, suCookie>>
    BY <1>3, <2>1 DEF MailSent, SignupTabs, Ends
  <2> HIDE DEF tab
  <2>3. SignupPath(suTabs[t].ids) = suTabs[t].ids
    BY <2>1 DEF SignupPath, SignupTabs, SignupIds
  <2>4. /\ suMail = "confirmed" => suMail' = "confirmed"
        /\ suLinks' \subseteq suLinks \cup {suTabs[t].ids}
    BY <1>3, <2>3 DEF MailSent
  <2>5. suMail # "confirmed" => tab.at # "callback" /\ suSession = FALSE
    BY <2>2 DEF SuInv, TabsKnow
  <2>6. /\ From(tab.ids, suChosen')
        /\ tab.at = "application" => suApplications # {}
    BY <2>2 DEF SuInv, TabsKnow
  <2>7. /\ suChosen \subseteq Cohorts /\ suSession \in BOOLEAN /\ suCookie \in BOOLEAN
        /\ suSession => suMail = "confirmed"
        /\ suCookie => suApplications # {}
    BY DEF SuInv
  <2> QED  BY <2>2, <2>4, <2>5, <2>6, <2>7, TabMoves
<1> QED  BY <1>1, <1>2, <1>3

\* What the page asks of the API, and what comes back.
LEMMA AsksSuInv ==
  ASSUME SuInv, NEW t \in SuTabs, Provision(t) \/ CheckSignup(t) \/ SignupLost(t)
  PROVE  SuInv'
<1>1. CASE Provision(t)
  <2>1. /\ Calls(t, IF suSession THEN "sent" ELSE "idle", ~suSession)
        /\ UNCHANGED <<suChosen, suAccounts, suRows, suCookie>>
    BY <1>1 DEF Provision, Calls
  <2>2. suSession \in BOOLEAN /\ (suSession => suMail = "confirmed")  BY DEF SuInv
  <2>3. CASE suSession = TRUE
    <3>1. Calls(t, "sent", FALSE)  BY <2>1, <2>3
    <3> QED  BY <2>1, <2>2, <2>3, <3>1, TabCalls
  <2>4. CASE suSession = FALSE
    <3>1. Calls(t, "idle", TRUE)  BY <2>1, <2>4
    <3> QED  BY <2>1, <3>1, TabCalls
  <2> QED  BY <2>2, <2>3, <2>4
<1>2. CASE CheckSignup(t)
  <2>1. /\ suTabs[t] \in SignupTabs
        /\ suMail = "confirmed"
        /\ UNCHANGED <<suChosen, suAccounts, suRows, suCookie>>
    BY <1>2 DEF CheckSignup, SuInv, TabsKnow
  <2>2. CASE ~Admissible(suTabs[t].ids)
    <3>1. Calls(t, "idle", TRUE)  BY <1>2, <2>2 DEF CheckSignup, Ends, Calls
    <3> QED  BY <2>1, <3>1, TabCalls
  <2>3. CASE Admissible(suTabs[t].ids)
    <3>1. suTabs[t].ids.cohort \in Eligible  BY <2>3 DEF Admissible
    <3>2. PICK called \in {"new", "check email"} :
            suTabs' = [suTabs EXCEPT ![t].call = called]
      BY <1>2, <2>3 DEF CheckSignup
    <3>3. PICK error \in BOOLEAN : error = suTabs[t].error  BY <2>1 DEF SignupTabs
    <3>4. Calls(t, called, error)  BY <2>1, <3>2, <3>3 DEF Calls, SignupTabs, SuInv
    <3> QED  BY <2>1, <3>1, <3>2, <3>3, <3>4, TabCalls
  <2> QED  BY <2>2, <2>3
<1>3. CASE SignupLost(t)
  <2>1. /\ Calls(t, "idle", TRUE)
        /\ UNCHANGED <<suChosen, suAccounts, suRows, suCookie>>
    BY <1>3 DEF SignupLost, Ends, Calls
  <2> QED  BY <2>1, TabCalls
<1> QED  BY <1>1, <1>2, <1>3

\* The answer to the application arrives in its tab.
LEMMA AnswerSuInv == ASSUME SuInv, NEW t \in SuTabs, SignupAnswered(t) PROVE SuInv'
<1>1. NoIds \in SignupIds /\ From(NoIds, suChosen')
  BY DEF NoIds, SignupIds, From
<1>2. /\ suCookie \in BOOLEAN /\ suSession \in BOOLEAN /\ suChosen \subseteq Cohorts
      /\ suCookie => suApplications # {}
      /\ suTabs[t].call = "created" => suApplications # {}
      /\ suSession => suMail = "confirmed"
  BY DEF SuInv, TabsKnow
<1>3. /\ suCookie' = (suCookie \/ suTabs[t].call = "created")
      /\ Goes(t, Tab(IF suCookie' THEN "application" ELSE "login", NoIds))
      /\ UNCHANGED <<suChosen, suMail, suLinks, suSession, suRows>>
  BY DEF SignupAnswered, suAccounts
<1>4. suCookie' \in BOOLEAN /\ (suCookie' => suApplications # {})
  BY <1>2, <1>3
<1>5. CASE suCookie' = TRUE
  <2>1. Goes(t, Tab("application", NoIds))  BY <1>3, <1>5
  <2> QED  BY <1>1, <1>2, <1>3, <1>4, <1>5, <2>1, TabGoes
<1>6. CASE suCookie' = FALSE
  <2>1. Goes(t, Tab("login", NoIds))  BY <1>3, <1>6
  <2> QED  BY <1>1, <1>2, <1>3, <1>4, <1>6, <2>1, TabGoes
<1> QED  BY <1>4, <1>5, <1>6

\* The insert of the one user: the ids it came with are an Apply's, because a cohort
\* that exists is no missing id.
LEMMA InsertSuInv == ASSUME SuInv, NEW t \in SuTabs, InsertUser(t) PROVE SuInv'
<1>1. UNCHANGED <<suChosen, suMail, suLinks, suSession, suCookie>>
  BY DEF InsertUser, suAccounts
<1>2. CASE suUsers > 0
  <2>1. /\ Calls(t, "idle", TRUE)
        /\ UNCHANGED <<suChosen, suAccounts, suRows, suCookie>>
    BY <1>2 DEF InsertUser, Ends, Calls
  <2> QED  BY <2>1, TabCalls
<1>3. CASE ~(suUsers > 0)
  <2> DEFINE ids == suTabs[t].ids
  <2>1. suUsers = 0 /\ suApplications = {}  BY <1>3 DEF SuInv
  <2>2. /\ suUsers' = 1 /\ suApplications' = {ids}
        /\ suTabs' = [suTabs EXCEPT ![t].call = "created"]
        /\ suTabs[t].call = "new"
    BY <1>3, <2>1 DEF InsertUser
  <2>3. suTabs[t] \in SignupTabs /\ suTabs \in [SuTabs -> SignupTabs]  BY DEF SuInv
  <2>4. /\ From(ids, suChosen) /\ ids.cohort \in Eligible /\ suMail = "confirmed"
    BY <2>2 DEF SuInv, TabsKnow
  <2>5. ids # NoIds  BY <2>4, SignupAssumption DEF NoIds, None
  <2>6. ids.cohort \in suChosen \cap Eligible /\ ids.program = ProgramOf[ids.cohort]
    BY <2>4, <2>5 DEF From
  <2>7. IsFiniteSet(suApplications') /\ Cardinality(suApplications') = 1
    BY <2>2, FS_Singleton
  <2>8. /\ suTabs' \in [SuTabs -> SignupTabs]
        /\ \A u \in SuTabs : /\ suTabs'[u].at = suTabs[u].at /\ suTabs'[u].ids = suTabs[u].ids
                             /\ \/ suTabs'[u].call = suTabs[u].call
                                \/ suTabs'[u].call = "created"
    BY <2>2, <2>3 DEF SignupTabs
  <2>9. TabsKnow'
    <3>1. suApplications' # {}  BY <2>2
    <3> QED  BY <1>1, <2>4, <2>8, <3>1 DEF SuInv, TabsKnow
  <2>10. AppliedAsChosen'
    BY <1>1, <2>2, <2>4, <2>6, <2>7 DEF AppliedAsChosen
  <2> QED  BY <1>1, <2>2, <2>7, <2>8, <2>9, <2>10 DEF SuInv
<1> QED  BY <1>2, <1>3

\* Every step of the signup.
LEMMA NextSuInv == ASSUME SuInv, [SuNext]_suVars PROVE SuInv'
<1>1. ASSUME NEW c \in suOpen, CloseCohort(c) PROVE SuInv'
  BY <1>1 DEF CloseCohort, SuInv, TabsKnow, AppliedAsChosen, On, suAccounts, suRows
<1>2. CASE UNCHANGED suVars
  BY <1>2 DEF suVars, SuInv, TabsKnow, AppliedAsChosen, On, suAccounts, suRows
<1> QED  BY <1>1, <1>2, PagesSuInv, MailSuInv, AsksSuInv, AnswerSuInv, InsertSuInv DEF SuNext

\* Signing up leads to what was chosen, whatever tabs, links and answers did
\* (auth/student/signup, auth/callback and the API's student signup).
THEOREM ApplicationsAreChosen == SignupSpec => []AppliedAsChosen
<1>1. SuInv => AppliedAsChosen  BY DEF SuInv
<1> QED  BY <1>1, InitSuInv, NextSuInv, PTL DEF SignupSpec
----------------------------------------------------------------------------
(* Submitting work. *)

SdTexts == Texts \cup {Blank}
Drafts == [version : Nat, state : {"DRAFT", "FINALIZED"}, text : SdTexts, files : SUBSET Nat]
SdStages ==
  {"idle", "initiate", "content", "complete", "persist", "sent", "saved", "posted", "checked",
   "final"}
UploadStates ==
  {"INITIATED", "UPLOADED", "QUARANTINED", "CLEAN", "REJECTED", "SCAN_FAILED", "ATTACHED",
   "EXPIRED"}
SdRequests == [stage : SdStages, version : Nat, text : SdTexts, files : SUBSET Nat, id : Nat]
DraftTypes == sdSubmission \in Drafts /\ sdCache \in Drafts /\ sdTyped \in SdTexts
RequestTypes == sdSave \in SdRequests /\ sdUpload \in SdRequests /\ sdFinalize \in SdRequests
SdTypes == DraftTypes /\ RequestTypes /\ sdUploads \in Seq(UploadStates)

\* A file a draft, a request or the seal names has been begun; so has the one under way.
UploadsKnow ==
  /\ sdSubmission.files \cup sdCache.files \cup sdSealed.files \subseteq 1..Len(sdUploads)
  /\ sdSave.files \cup sdUpload.files \cup sdFinalize.files \subseteq 1..Len(sdUploads)
  /\ sdUpload.stage \in {"content", "complete", "persist", "sent", "saved"} =>
       sdUpload.id \in 1..Len(sdUploads)

\* What the form showed when the button was pressed for this version.
Pressed(version, text, files) ==
  \E press \in sdConfirmed : press.version = version /\ press.text = text /\ press.files = files
\* The draft is past this version, or has these contents, or lost some to a new start.
SavedAs(version, text, files) ==
  /\ sdSubmission.version >= version
  /\ sdSubmission.version = version =>
       sdSubmission.text \in {text, Blank} /\ sdSubmission.files \in {files, {}}

\* The finalization under way is one that was pressed, and the draft has not been
\* given other contents under its version.
FinalizeKnows ==
  /\ sdFinalize.stage \in {"sent", "saved"} =>
       Pressed(sdFinalize.version + 1, sdFinalize.text, sdFinalize.files)
  /\ sdFinalize.stage = "saved" =>
       SavedAs(sdFinalize.version + 1, sdFinalize.text, sdFinalize.files)
  /\ sdFinalize.stage = "posted" =>
       /\ Pressed(sdFinalize.version, sdFinalize.text, sdFinalize.files)
       /\ SavedAs(sdFinalize.version, sdFinalize.text, sdFinalize.files)

\* Under the lock of a finalization that passed its checks the draft is complete and as the
\* student confirmed it, whether or not the page still waits for the answer.
HeldKnows ==
  sdHeld =>
    /\ sdSubmission.state = "DRAFT"
    /\ sdSubmission.text # Blank /\ sdSubmission.files # {}
    /\ Pressed(sdSubmission.version, sdSubmission.text, sdSubmission.files)
    /\ \A n \in sdSubmission.files : sdUploads[n] \notin Scanning

SdInv == SdTypes /\ UploadsKnow /\ FinalizeKnows /\ HeldKnows /\ FinalizedAsShown

\* What the buttons send, and no request, are requests.
LEMMA RequestTyped ==
  /\ Idle \in SdRequests
  /\ DraftTypes => Request("sent") \in SdRequests
  BY DEF Idle, SdStages, SdRequests, SdTexts, DraftTypes, Drafts, Request
\* A save of the draft leaves a draft.
LEMMA PutTyped == ASSUME DraftTypes, NEW op \in SdRequests, Put(op) PROVE sdSubmission' \in Drafts
<1>1. sdSubmission.version + 1 \in Nat  BY DEF DraftTypes, Drafts
<1> QED  BY <1>1 DEF DraftTypes, Drafts, Put, SdRequests

\* The drafts keep their form: a version that counts, a state, a text and files.
LEMMA SubmissionStep == ASSUME SdTypes, SdNext PROVE DraftTypes'
<1>1. CASE \/ ServeSave \/ ServePersist \/ ServeFinalizeSave
  BY <1>1, PutTyped
     DEF ServeSave, ServePersist, ServeFinalizeSave, SdTypes, DraftTypes, RequestTypes, sdPage
<1>2. CASE \/ SaveAnswered \/ UploadAnswered \/ FinalizeSaved \/ FinalizeAnswered
  BY SMTT(30), <1>2
     DEF SaveAnswered, UploadAnswered, FinalizeSaved, FinalizeAnswered, SdTypes, DraftTypes,
         RequestTypes, Drafts, SdRequests, sdRow
<1>3. CASE CommitStart \/ CommitFinalize
  BY <1>3
     DEF CommitStart, CommitFinalize, SdTypes, DraftTypes, Drafts, SdTexts, sdPage
<1>4. CASE \E text \in Texts : SaveElsewhere(text)
  BY <1>4, \A n \in Nat : n + 1 \in Nat
     DEF SaveElsewhere, SdTypes, DraftTypes, Drafts, SdTexts, sdPage
<1>5. CASE Reload \/ (\E text \in Texts : Type(text))
  BY <1>5 DEF Reload, Type, SdTypes, DraftTypes, Drafts, SdTexts, sdRow
<1>6. CASE \/ PressSave \/ PressUpload \/ PressFinalize \/ SaveFails \/ Initiate
           \/ ReceiveContent \/ CompleteUpload \/ PersistUpload \/ UploadFails
           \/ FinalizeFails \/ CheckFinalize \/ AbortFinalize \/ BeginStart
  BY <1>6
     DEF PressSave, PressUpload, PressFinalize, SaveFails, Initiate, ReceiveContent,
         CompleteUpload, PersistUpload, UploadFails, FinalizeFails, CheckFinalize,
         AbortFinalize, BeginStart, SdTypes, DraftTypes, sdRow, sdPage
<1>7. CASE SdWatch \/ \E visible \in BOOLEAN : Look(visible)
  BY <1>7
     DEF SdWatch, Look, Scan, ScanGivenUp, Lapse, Expire, FirstFetch, Poll, SdTypes,
         DraftTypes, sdRow, sdPage
<1> QED
  BY <1>1, <1>2, <1>3, <1>4, <1>5, <1>6, <1>7 DEF SdNext, SdPress, SdElsewhere, SdSteps

\* So do the three requests.
LEMMA RequestStep == ASSUME SdTypes, SdNext PROVE RequestTypes'
<1>1. CASE \/ PressSave \/ PressFinalize
  BY <1>1, RequestTyped DEF PressSave, PressFinalize, SdTypes, RequestTypes
<1>2. CASE \/ SaveAnswered \/ SaveFails \/ UploadAnswered \/ UploadFails \/ FinalizeAnswered
           \/ FinalizeFails \/ AbortFinalize \/ Reload
  BY <1>2, RequestTyped
     DEF SaveAnswered, SaveFails, UploadAnswered, UploadFails, FinalizeAnswered, FinalizeFails,
         AbortFinalize, Reload, SdTypes, RequestTypes
<1>3. CASE \/ ServeSave \/ ServePersist \/ ServeFinalizeSave \/ ReceiveContent
           \/ CompleteUpload \/ CheckFinalize \/ PressUpload
  BY SMTT(30), <1>3, RequestTyped
     DEF ServeSave, ServePersist, ServeFinalizeSave, ReceiveContent, CompleteUpload,
         CheckFinalize, PressUpload, SdTypes, RequestTypes, SdRequests, SdStages
<1>4. CASE PersistUpload
  BY <1>4
     DEF PersistUpload, SdTypes, RequestTypes, SdRequests, SdStages, DraftTypes, Drafts
<1>5. CASE FinalizeSaved
  BY <1>5, \A n \in Nat : n + 1 \in Nat
     DEF FinalizeSaved, SdTypes, RequestTypes, SdRequests, SdStages
<1>6. CASE CommitFinalize
  BY <1>6
     DEF CommitFinalize, SdTypes, RequestTypes, SdRequests, SdStages, DraftTypes, Drafts
<1>7. CASE Initiate
  BY <1>7, RequestTyped, Len(sdUploads) + 1 \in Nat
     DEF Initiate, SdTypes, RequestTypes, SdRequests, SdStages
<1>8. CASE \/ SdElsewhere \/ (\E text \in Texts : Type(text))
  BY <1>8
     DEF SdElsewhere, BeginStart, CommitStart, Look, Type, SaveElsewhere, SdTypes, RequestTypes,
         sdOps
<1>9. CASE SdWatch
  BY <1>9
     DEF SdWatch, Scan, ScanGivenUp, Lapse, Expire, FirstFetch, Poll, SdTypes, RequestTypes,
         sdOps
<1> QED
  BY <1>1, <1>2, <1>3, <1>4, <1>5, <1>6, <1>7, <1>8, <1>9 DEF SdNext, SdPress, SdSteps

\* No step loses an upload, and a file that is past its scan stays past it.
UploadsKept ==
  /\ sdUploads' \in Seq(UploadStates)
  /\ Len(sdUploads) <= Len(sdUploads')
  /\ \A n \in 1..Len(sdUploads) : sdUploads[n] \notin Scanning => sdUploads'[n] \notin Scanning
LEMMA UploadsMove == ASSUME SdTypes, UploadsKnow, SdNext PROVE UploadsKept
<1> DEFINE n0 == Len(sdUploads)
<1>1. n0 \in Nat /\ DOMAIN sdUploads = 1..n0 /\ \A i \in 1..n0 : sdUploads[i] \in UploadStates
  BY LenProperties DEF SdTypes
<1>2. CASE Initiate
  BY <1>2 DEF Initiate, UploadsKept, SdTypes, UploadStates
<1>3. ASSUME NEW n \in 1..n0, NEW state \in UploadStates,
             sdUploads' = [sdUploads EXCEPT ![n] = state],
             state \in Scanning => sdUploads[n] \in Scanning
      PROVE  UploadsKept
  BY <1>1, <1>3, ExceptSeq DEF UploadsKept, SdTypes
<1>4. CASE ReceiveContent
  BY <1>3, <1>4 DEF ReceiveContent, UploadsKnow, UploadStates, Scanning
<1>5. CASE CompleteUpload
  BY <1>3, <1>5 DEF CompleteUpload, UploadsKnow, UploadStates, Scanning
<1>6. ASSUME NEW n \in 1..n0, Scan(n) \/ ScanGivenUp(n) \/ Expire(n) PROVE UploadsKept
  <2>1. CASE Scan(n)
    BY <1>3, <1>6, <2>1 DEF Scan, UploadStates, Scanning
  <2>2. CASE ScanGivenUp(n)
    <3>1. PICK state \in {"SCAN_FAILED", sdUploads[n]} :
            sdUploads' = [sdUploads EXCEPT ![n] = state]
      BY <2>2 DEF ScanGivenUp
    <3>2. state \in UploadStates  BY <1>1, <1>6, <3>1 DEF UploadStates
    <3>3. state \in Scanning => sdUploads[n] \in Scanning  BY <3>1 DEF Scanning
    <3> QED  BY <1>3, <1>6, <3>1, <3>2, <3>3
  <2>3. CASE Expire(n)
    BY <1>3, <1>6, <2>3 DEF Expire, UploadStates, Scanning
  <2> QED  BY <1>6, <2>1, <2>2, <2>3
<1>7. CASE CommitFinalize
  <2>1. sdUploads' = [i \in 1..n0 |->
                        IF i \in sdSubmission.files THEN "ATTACHED" ELSE sdUploads[i]]
    BY <1>7 DEF CommitFinalize
  <2>2. sdUploads' \in [1..n0 -> UploadStates]
    BY <1>1, <2>1 DEF UploadStates
  <2>3. sdUploads' \in Seq(UploadStates) /\ Len(sdUploads') = n0
    BY <1>1, <2>2, SeqDef
  <2>4. \A i \in 1..n0 : sdUploads[i] \notin Scanning => sdUploads'[i] \notin Scanning
    BY <2>1 DEF Scanning
  <2> QED  BY <1>1, <2>3, <2>4 DEF UploadsKept
<1>8. CASE UNCHANGED sdUploads
  BY <1>1, <1>8 DEF UploadsKept, SdTypes
<1>9. CASE SdPress \/ SdElsewhere
  BY <1>8, <1>9
     DEF SdPress, Type, PressSave, PressUpload, PressFinalize, Reload, SdElsewhere,
         SaveElsewhere, BeginStart, CommitStart, Look, sdFiles
<1>10. CASE \/ ServeSave \/ SaveAnswered \/ SaveFails \/ PersistUpload \/ ServePersist
            \/ UploadAnswered \/ UploadFails \/ ServeFinalizeSave \/ FinalizeSaved
            \/ CheckFinalize \/ AbortFinalize \/ FinalizeAnswered \/ FinalizeFails
  BY <1>8, <1>10
     DEF ServeSave, SaveAnswered, SaveFails, PersistUpload, ServePersist, UploadAnswered,
         UploadFails, ServeFinalizeSave, FinalizeSaved, CheckFinalize, AbortFinalize,
         FinalizeAnswered, FinalizeFails, sdFiles
<1>11. CASE \E n \in 1..n0 : Lapse(n) \/ FirstFetch(n) \/ Poll(n)
  BY <1>8, <1>11 DEF Lapse, FirstFetch, Poll, sdFiles
<1> QED
  BY <1>2, <1>4, <1>5, <1>6, <1>7, <1>9, <1>10, <1>11 DEF SdNext, SdSteps, SdWatch

\* What drafts and requests name stays within the uploads that were begun.
LEMMA UploadsStep == ASSUME SdTypes, UploadsKnow, UploadsKept, SdNext PROVE UploadsKnow'
<1>1. /\ Len(sdUploads) \in Nat /\ Len(sdUploads') \in Nat
      /\ 1..Len(sdUploads) \subseteq 1..Len(sdUploads')
  BY LenProperties DEF SdTypes, UploadsKept
<1>2. CASE Initiate
  <2>1. Len(sdUploads') = Len(sdUploads) + 1  BY <1>2 DEF Initiate, SdTypes
  <2>2. sdUpload'.files = {} /\ sdUpload'.id = Len(sdUploads) + 1
    BY <1>2 DEF Initiate, Idle
  <2>3. UNCHANGED <<sdSubmission, sdCache, sdSealed, sdSave, sdFinalize>>
    BY <1>2 DEF Initiate, sdRow, sdPage
  <2> QED  BY <1>1, <2>1, <2>2, <2>3 DEF UploadsKnow
<1>3. CASE PressSave \/ PressUpload \/ PressFinalize
  BY SMTT(30), <1>1, <1>3
     DEF PressSave, PressUpload, PressFinalize, UploadsKnow, Idle, Request, sdRow, sdPage
<1>4. CASE Reload \/ SaveAnswered \/ SaveFails
  BY SMTT(30), <1>1, <1>4
     DEF Reload, SaveAnswered, SaveFails, UploadsKnow, Idle, sdRow, sdPage
<1>5. CASE PersistUpload \/ UploadAnswered \/ UploadFails
  BY SMTT(30), <1>1, <1>5
     DEF PersistUpload, UploadAnswered, UploadFails, UploadsKnow, Idle, sdRow, sdPage
<1>6. ASSUME sdSubmission' = sdSubmission, sdSealed' = sdSealed,
             sdSave' = sdSave, sdUpload' = sdUpload,
             sdFinalize'.files \in {sdFinalize.files, {}},
             sdCache'.files \in {sdCache.files, sdFinalize.files}
      PROVE  UploadsKnow'
  BY <1>1, <1>6 DEF UploadsKnow
<1>12. CASE FinalizeSaved
  BY <1>6, <1>12 DEF FinalizeSaved, SdTypes, RequestTypes, SdRequests, sdRow
<1>13. CASE FinalizeAnswered
  BY <1>6, <1>13 DEF FinalizeAnswered, Idle, sdRow
<1>14. CASE FinalizeFails
  BY <1>6, <1>14 DEF FinalizeFails, Idle, sdRow, sdPage
<1>15. CASE CheckFinalize
  BY <1>6, <1>15 DEF CheckFinalize, SdTypes, RequestTypes, SdRequests, sdPage
<1>16. CASE AbortFinalize
  BY <1>6, <1>16 DEF AbortFinalize, Idle, sdPage
<1>7. CASE CommitFinalize
  BY SMTT(30), <1>1, <1>7
     DEF CommitFinalize, UploadsKnow, SdTypes, DraftTypes, Drafts, RequestTypes, SdRequests, sdPage
<1>8. CASE ServeSave \/ ServePersist \/ ServeFinalizeSave
  <2>1. UNCHANGED <<sdSealed, sdCache>>
    BY <1>8 DEF ServeSave, ServePersist, ServeFinalizeSave, Put, sdPage
  <2>2. sdSubmission'.files \in {sdSave.files, sdUpload.files, sdFinalize.files}
    BY <1>8 DEF ServeSave, ServePersist, ServeFinalizeSave, Put, SdTypes, DraftTypes, Drafts
  <2>3. /\ sdSave'.files = sdSave.files /\ sdFinalize'.files = sdFinalize.files
        /\ sdUpload'.files = sdUpload.files /\ sdUpload'.id = sdUpload.id
        /\ sdUpload'.stage = sdUpload.stage \/ sdUpload.stage = "sent"
    BY <1>8
       DEF ServeSave, ServePersist, ServeFinalizeSave, SdTypes, RequestTypes, SdRequests
  <2> QED  BY <1>1, <2>1, <2>2, <2>3 DEF UploadsKnow
<1>9. CASE ReceiveContent \/ CompleteUpload
  BY SMTT(30), <1>1, <1>9
     DEF ReceiveContent, CompleteUpload, UploadsKnow, SdTypes, RequestTypes, SdRequests, sdRow,
         sdPage
<1>10. CASE SdElsewhere \/ (\E text \in Texts : Type(text))
  <2>1. UNCHANGED <<sdSealed, sdCache, sdSave, sdUpload, sdFinalize>>
    BY <1>10
       DEF SdElsewhere, SaveElsewhere, BeginStart, CommitStart, Look, Type, sdRow, sdPage, sdOps
  <2>2. sdSubmission'.files \in {sdSubmission.files, {}}
    BY <1>10
       DEF SdElsewhere, SaveElsewhere, BeginStart, CommitStart, Look, Type, SdTypes, DraftTypes,
           Drafts, sdRow
  <2> QED  BY <1>1, <2>1, <2>2 DEF UploadsKnow
<1>11. CASE SdWatch
  BY SMTT(30), <1>1, <1>11
     DEF SdWatch, Scan, ScanGivenUp, Lapse, Expire, FirstFetch, Poll, UploadsKnow, sdRow, sdPage,
         sdOps
<1> QED
  BY <1>2, <1>3, <1>4, <1>5, <1>7, <1>8, <1>9, <1>10, <1>11, <1>12, <1>13, <1>14, <1>15, <1>16
     DEF SdNext, SdPress, SdSteps

\* The draft stays what the finalization saved, or its version moves on, or it loses what a
\* new start empties.
LEMMA FinalStep == ASSUME SdTypes, FinalizeKnows, SdNext PROVE FinalizeKnows'
<1>1. CASE PressFinalize
  <2> DEFINE press == [Request("sent") EXCEPT !.version = @ + 1]
  <2>1. /\ sdFinalize' = Request("sent") /\ sdConfirmed' = sdConfirmed \cup {press}
        /\ UNCHANGED sdSubmission
    BY <1>1 DEF PressFinalize, sdRow
  <2>2. /\ press.version = sdFinalize'.version + 1 /\ press.text = sdFinalize'.text
        /\ press.files = sdFinalize'.files /\ sdFinalize'.stage = "sent"
    BY <2>1 DEF Request
  <2>3. press \in sdConfirmed'  BY <2>1
  <2> HIDE DEF press
  <2> QED  BY <2>2, <2>3 DEF FinalizeKnows, Pressed
<1>2. CASE ServeSave
  BY <1>2
     DEF ServeSave, FinalizeKnows, Pressed, SavedAs, SdTypes, DraftTypes, RequestTypes, Drafts,
         SdRequests, Put, sdCounts
<1>3. CASE ServePersist
  BY <1>3
     DEF ServePersist, FinalizeKnows, Pressed, SavedAs, SdTypes, DraftTypes, RequestTypes, Drafts,
         SdRequests, Put, sdCounts
<1>4. CASE ServeFinalizeSave
  BY <1>4
     DEF ServeFinalizeSave, FinalizeKnows, Pressed, SavedAs, SdTypes, DraftTypes, RequestTypes,
         Drafts, SdRequests, Put, sdCounts
<1>5. CASE FinalizeSaved
  BY <1>5
     DEF FinalizeSaved, FinalizeKnows, Pressed, SavedAs, SdTypes, DraftTypes, RequestTypes, Drafts,
         SdRequests, sdRow, sdCounts
<1>6. CASE CommitFinalize
  <2>1. sdFinalize'.stage = "final" \/ sdFinalize' = sdFinalize
    BY <1>6 DEF CommitFinalize, SdTypes, RequestTypes, SdRequests
  <2>2. /\ sdSubmission'.version = sdSubmission.version /\ sdSubmission'.text = sdSubmission.text
        /\ sdSubmission'.files = sdSubmission.files /\ UNCHANGED sdConfirmed
    BY <1>6 DEF CommitFinalize, SdTypes, DraftTypes, Drafts, sdCounts
  <2> QED  BY <2>1, <2>2 DEF FinalizeKnows, Pressed, SavedAs
<1>7. CASE CommitStart
  <2>1. /\ sdSubmission'.version = sdSubmission.version
        /\ sdSubmission'.text \in {sdSubmission.text, Blank}
        /\ sdSubmission'.files \in {sdSubmission.files, {}}
        /\ UNCHANGED <<sdFinalize, sdConfirmed>>
    BY <1>7 DEF CommitStart, SdTypes, DraftTypes, Drafts, sdOps, sdCounts
  <2> QED  BY <2>1 DEF FinalizeKnows, Pressed, SavedAs
<1>8. CASE \E text \in Texts : SaveElsewhere(text)
  BY <1>8
     DEF SaveElsewhere, FinalizeKnows, Pressed, SavedAs, SdTypes, DraftTypes, RequestTypes, Drafts,
         SdRequests, sdOps
<1>9. ASSUME UNCHANGED <<sdSubmission, sdConfirmed>>,
             sdFinalize' = sdFinalize \/ sdFinalize'.stage \in {"idle", "checked"}
      PROVE  FinalizeKnows'
  BY <1>9 DEF FinalizeKnows, Pressed, SavedAs
<1>10. CASE \/ FinalizeAnswered \/ FinalizeFails \/ Reload \/ AbortFinalize \/ CheckFinalize
  BY SMTT(30), <1>9, <1>10
     DEF FinalizeAnswered, FinalizeFails, Reload, AbortFinalize, CheckFinalize, Idle, SdTypes,
         RequestTypes, SdRequests, sdRow, sdCounts
<1>11. CASE \/ PressSave \/ PressUpload \/ SaveAnswered \/ SaveFails \/ Initiate
            \/ ReceiveContent \/ CompleteUpload \/ PersistUpload \/ UploadAnswered
            \/ UploadFails \/ BeginStart \/ (\E text \in Texts : Type(text))
            \/ (\E visible \in BOOLEAN : Look(visible))
  BY <1>9, <1>11
     DEF PressSave, PressUpload, SaveAnswered, SaveFails, Initiate, ReceiveContent,
         CompleteUpload, PersistUpload, UploadAnswered, UploadFails, BeginStart, Type, Look,
         sdRow, sdCounts, sdOps
<1>12. CASE SdWatch
  BY <1>9, <1>12
     DEF SdWatch, Scan, ScanGivenUp, Lapse, Expire, FirstFetch, Poll, sdRow, sdCounts, sdOps
<1> QED
  BY <1>1, <1>2, <1>3, <1>4, <1>5, <1>6, <1>7, <1>8, <1>10, <1>11, <1>12
     DEF SdNext, SdPress, SdElsewhere, SdSteps

\* A finalization that passes its checks finds the draft as the student confirmed it; until
\* it commits nothing rewrites the draft, and afterwards only a start that read DRAFT does.
LEMMA ShownStep ==
  ASSUME SdInv, UploadsKept, SdNext PROVE HeldKnows' /\ FinalizedAsShown'
<1> USE DEF SdInv
<1>1. ASSUME UNCHANGED <<sdSubmission, sdSealed>>, sdHeld' => sdHeld,
             sdConfirmed \subseteq sdConfirmed'
      PROVE  HeldKnows' /\ FinalizedAsShown'
  <2>1. HeldKnows'
    BY <1>1 DEF HeldKnows, Pressed, UploadsKnow, UploadsKept
  <2>2. FinalizedAsShown'
    BY <1>1 DEF FinalizedAsShown, Sealed, Scanned, Scanning, UploadsKnow, UploadsKept
  <2> QED  BY <2>1, <2>2
<1>2. ASSUME ~sdHeld', sdSubmission'.state = "DRAFT" PROVE HeldKnows' /\ FinalizedAsShown'
  BY <1>2 DEF HeldKnows, FinalizedAsShown
<1>3. CASE ServeSave \/ ServePersist \/ ServeFinalizeSave
  BY <1>2, <1>3
     DEF ServeSave, ServePersist, ServeFinalizeSave, Put, SdTypes, DraftTypes, Drafts
<1>4. CASE \E text \in Texts : SaveElsewhere(text)
  BY <1>2, <1>4 DEF SaveElsewhere, SdTypes, DraftTypes, Drafts
<1>5. CASE CommitStart
  <2>1. /\ ~sdHeld' /\ UNCHANGED <<sdSealed, sdConfirmed, sdUploads>>
        /\ sdSubmission'.version = sdSubmission.version
        /\ sdSubmission'.state = sdSubmission.state
        /\ sdSubmission'.text \in {sdSubmission.text, Blank}
        /\ sdSubmission'.files \in {sdSubmission.files, {}}
    BY <1>5 DEF CommitStart, SdTypes, DraftTypes, Drafts, sdFiles, sdCounts
  <2> QED  BY <2>1 DEF HeldKnows, FinalizedAsShown, Sealed, Scanned
<1>6. CASE CheckFinalize
  <2>1. /\ UNCHANGED <<sdSubmission, sdSealed, sdConfirmed, sdUploads>>
        /\ sdFinalize.stage = "posted" /\ Finalizable(sdFinalize)
    BY <1>6 DEF CheckFinalize, sdFiles, sdCounts
  <2>2. /\ sdSubmission.state = "DRAFT"
        /\ sdSubmission.text = sdFinalize.text /\ sdSubmission.files = sdFinalize.files
        /\ sdSubmission.version = sdFinalize.version
        /\ sdSubmission.text # Blank /\ sdSubmission.files # {}
    BY <2>1 DEF Finalizable, Acceptable, FinalizeKnows, SavedAs
  <2>3. Pressed(sdSubmission.version, sdSubmission.text, sdSubmission.files)
    BY <2>1, <2>2 DEF FinalizeKnows
  <2>4. \A n \in sdSubmission.files : sdUploads[n] \notin Scanning
    BY <2>1 DEF Finalizable, Acceptable, Scanning
  <2> QED  BY <2>1, <2>2, <2>3, <2>4 DEF HeldKnows, FinalizedAsShown, Pressed
<1>7. CASE CommitFinalize
  <2>1. /\ ~sdHeld' /\ sdHeld /\ UNCHANGED sdConfirmed
        /\ sdSubmission'.version = sdSubmission.version
        /\ sdSubmission'.text = sdSubmission.text /\ sdSubmission'.files = sdSubmission.files
        /\ sdSealed'.text = sdSubmission.text /\ sdSealed'.files = sdSubmission.files
    BY <1>7 DEF CommitFinalize, SdTypes, DraftTypes, Drafts, sdCounts
  <2>2. \A n \in sdSubmission.files : sdUploads'[n] \notin Scanning
    BY <2>1 DEF HeldKnows, UploadsKnow, UploadsKept
  <2> QED  BY <2>1, <2>2 DEF HeldKnows, Pressed, FinalizedAsShown, Sealed, Scanned, Scanning
<1>8. CASE PressFinalize
  BY <1>1, <1>8 DEF PressFinalize, sdRow
<1>9. CASE \/ PressSave \/ PressUpload \/ Reload \/ SaveAnswered \/ SaveFails \/ PersistUpload
           \/ Initiate \/ ReceiveContent \/ CompleteUpload \/ UploadAnswered \/ UploadFails
           \/ (\E text \in Texts : Type(text))
  BY <1>1, <1>9
     DEF PressSave, PressUpload, Reload, SaveAnswered, SaveFails, PersistUpload, Initiate,
         ReceiveContent, CompleteUpload, UploadAnswered, UploadFails, Type, sdRow, sdCounts
<1>10. CASE \/ FinalizeSaved \/ FinalizeAnswered \/ FinalizeFails \/ AbortFinalize \/ BeginStart
            \/ (\E visible \in BOOLEAN : Look(visible))
  BY <1>1, <1>10
     DEF FinalizeSaved, FinalizeAnswered, FinalizeFails, AbortFinalize, BeginStart, Look,
         sdRow, sdCounts
<1>11. CASE SdWatch
  BY <1>1, <1>11
     DEF SdWatch, Scan, ScanGivenUp, Lapse, Expire, FirstFetch, Poll, sdRow, sdCounts
<1> QED
  BY <1>3, <1>4, <1>5, <1>6, <1>7, <1>8, <1>9, <1>10, <1>11
     DEF SdNext, SdPress, SdElsewhere, SdSteps

\* The page starts on an empty draft with nothing under way.
LEMMA InitSdInv == SdInit => SdInv
<1> SUFFICES ASSUME SdInit PROVE SdInv  OBVIOUS
<1>1. Draft0 \in Drafts  BY DEF Draft0, Drafts, SdTexts
<1>2. SdTypes  BY <1>1, RequestTyped DEF SdInit, SdTypes, DraftTypes, RequestTypes, SdTexts
<1> QED
  BY <1>2 DEF SdInit, SdInv, UploadsKnow, FinalizeKnows, HeldKnows, FinalizedAsShown, Draft0, Idle

\* Every step of the page, the API, the worker and the other pages.
LEMMA NextSdInv == ASSUME SdInv, [SdNext]_sdVars PROVE SdInv'
<1>1. CASE SdNext
  <2>1. UploadsKept  BY <1>1, UploadsMove DEF SdInv
  <2> QED
    BY <1>1, <2>1, SubmissionStep, RequestStep, UploadsStep, FinalStep, ShownStep
       DEF SdInv, SdTypes, UploadsKept
<1>2. CASE UNCHANGED sdVars
  <2>1. UNCHANGED <<sdSubmission, sdSealed, sdHeld, sdUploads, sdCache, sdTyped, sdSave, sdUpload,
                    sdFinalize, sdConfirmed>>
    BY <1>2 DEF sdVars, sdRow, sdFiles, sdPage, sdOps, sdCounts
  <2> QED
    BY <2>1
       DEF SdInv, SdTypes, DraftTypes, RequestTypes, UploadsKnow, FinalizeKnows, HeldKnows,
           Pressed, SavedAs, FinalizedAsShown, Sealed, Scanned
<1> QED  BY <1>1, <1>2

\* What is sealed is what the student confirmed, with files past their scan alone, whatever
\* saves, uploads, new starts, failed scans and other devices did in between
\* (finalizeMutation, save_submission, create_submission_draft, finalize_submission).
THEOREM FinalizedIsConfirmed == SdSpec => []FinalizedAsShown
<1>1. SdInv => FinalizedAsShown  BY DEF SdInv
<1> QED  BY <1>1, InitSdInv, NextSdInv, PTL DEF SdSpec

----------------------------------------------------------------------------
(* Applying for an internship. *)

Writings == Essays \cup {Unwritten}
Statuses ==
  {"NONE", "LOADING", "DRAFT", "ELIGIBILITY_REVIEW", "SUBMITTED", "ACCEPTED", "REJECTED",
   "WAITLISTED"}
ApplicationRows == [status : Statuses, version : Nat, text : Writings]
PortalCalls ==
  [kind : {"create", "save", "submit", "unit"}, version : Nat, unit : Units \cup {0},
   served : BOOLEAN, text : Writings]

\* Who has read a version has its contents, or the row has moved on.
ReadAs(version, text) ==
  /\ version <= ipRow.version
  /\ version = ipRow.version => text = ipRow.text

RowTypes ==
  /\ ipRow \in ApplicationRows /\ ipLoaded \in ApplicationRows
  /\ ipReview \in ApplicationRows
FormTypes == ipForm \in Writings /\ ipEvidence \in Writings /\ ipOpen \in Units \cup {0}

\* So has everybody who may act on one: the page, the coordinator and a submission sent.
ReadersKnow ==
  /\ ReadAs(ipLoaded.version, ipLoaded.text)
  /\ ReadAs(ipReview.version, ipReview.text)
  /\ \A c \in ipCalls : c.kind = "submit" => ReadAs(c.version, c.text)
IpInv ==
  /\ RowTypes /\ FormTypes /\ ipCalls \subseteq PortalCalls
  /\ ReadersKnow
  /\ ActedOnAsRead

\* There is no application yet and the page has loaded none.
LEMMA InitIpInv == IpInit => IpInv
<1> SUFFICES ASSUME IpInit PROVE IpInv  OBVIOUS
<1>1. NoRow \in ApplicationRows /\ NotLoaded \in ApplicationRows
  BY DEF NoRow, NotLoaded, ApplicationRows, Statuses, Writings
<1> QED
  BY <1>1 DEF IpInit, IpInv, RowTypes, FormTypes, Writings, ReadersKnow, ReadAs, ActedOnAsRead,
     NoRow, NotLoaded

\* A request that was served, or is gone, leaves no request that was not there.
Continued ==
  /\ ipCalls' \subseteq PortalCalls
  /\ \A d \in ipCalls' : \E c \in ipCalls :
       d.kind = c.kind /\ d.version = c.version /\ d.text = c.text
\* What is under way was under way before, served or not.
LEMMA CallsContinue ==
  ASSUME IpInv, NEW c \in ipCalls, Served(c) \/ ipCalls' = ipCalls \ {c} \/ UNCHANGED ipCalls
  PROVE  Continued
<1>1. ipCalls \subseteq PortalCalls  BY DEF IpInv
<1> DEFINE d == [c EXCEPT !.served = TRUE]
<1>2. d \in PortalCalls /\ d.kind = c.kind /\ d.version = c.version /\ d.text = c.text
  BY <1>1 DEF PortalCalls
<1>3. ipCalls' \subseteq ipCalls \cup {d}  BY DEF Served
<1> HIDE DEF d
<1> QED  BY <1>1, <1>2, <1>3 DEF Continued

\* A row that moves on to another version leaves nobody with its contents.
LEMMA RowMoves ==
  ASSUME IpInv, ipRow' \in ApplicationRows, ipRow'.version = ipRow.version + 1,
         UNCHANGED <<ipLoaded, ipForm, ipReview, ipLearning>>, Continued,
         ipRow'.status \in {"SUBMITTED", "ACCEPTED", "REJECTED", "WAITLISTED"} =>
           ipRow'.text = ipRead'
  PROVE  IpInv'
<1>1. \A d \in ipCalls' : d.version \in Nat /\ (d.kind = "submit" => d.version <= ipRow.version)
  BY DEF IpInv, ReadersKnow, ReadAs, Continued, PortalCalls
<1>2. ipRow.version \in Nat /\ ipLoaded.version \in Nat /\ ipReview.version \in Nat
  BY DEF IpInv, RowTypes, ApplicationRows
<1>3. ReadersKnow'
  BY <1>1, <1>2 DEF IpInv, ReadersKnow, ReadAs
<1> QED
  BY <1>3 DEF IpInv, RowTypes, FormTypes, ActedOnAsRead, ipLearning, Continued

\* What the page or the coordinator fetches is the row; what the page sends comes of it.
LEMMA PageMoves ==
  ASSUME IpInv, UNCHANGED <<ipRow, ipRead>>, FormTypes',
         ipLoaded' \in {ipLoaded, ipRow}, ipReview' \in {ipReview, ipRow},
         \/ Continued
         \/ \E kind \in {"create", "save", "submit", "unit"} : Send(kind)
  PROVE  IpInv'
<1>1. RowTypes' /\ ipRow.version \in Nat
  BY DEF IpInv, RowTypes, ApplicationRows
<1>2. /\ ReadAs(ipLoaded.version, ipLoaded.text)'
      /\ ReadAs(ipReview.version, ipReview.text)'
  BY <1>1 DEF IpInv, ReadersKnow, ReadAs
<1> DEFINE CallsKnow ==
      /\ ipCalls' \subseteq PortalCalls
      /\ \A d \in ipCalls' : d.kind = "submit" =>
           d.version <= ipRow.version /\ (d.version = ipRow.version => d.text = ipRow.text)
<1>3. CallsKnow
  <2>1. CASE Continued  BY <2>1 DEF Continued, IpInv, ReadersKnow, ReadAs
  <2>2. ASSUME NEW kind \in {"create", "save", "submit", "unit"}, Send(kind)
        PROVE  CallsKnow
    <3>1. ipLoaded.version \in Nat /\ ipLoaded.text \in Writings
      BY DEF IpInv, RowTypes, ApplicationRows
    <3>2. Call(kind) \in PortalCalls
      BY <3>1 DEF Call, PortalCalls, IpInv, FormTypes
    <3>3. Call(kind).kind = kind /\ Call(kind).version = ipLoaded.version
          /\ (kind = "submit" => Call(kind).text = ipLoaded.text)
      BY DEF Call
    <3> QED  BY <2>2, <3>2, <3>3 DEF Send, IpInv, ReadersKnow, ReadAs
  <2> QED  BY <2>1, <2>2
<1> QED  BY <1>1, <1>2, <1>3 DEF IpInv, ReadersKnow, ReadAs, ActedOnAsRead

\* What the API does for the page (start_, update_ and submit_application).
LEMMA ServesIpInv ==
  ASSUME IpInv, NEW c \in ipCalls, ServeCreate(c) \/ ServeSaveDraft(c) \/ ServeSubmit(c)
  PROVE  IpInv'
<1>1. Continued  BY CallsContinue DEF ServeCreate, ServeSaveDraft, ServeSubmit
<1>2. c \in PortalCalls /\ ipRow \in ApplicationRows /\ c.text \in Writings /\ ipRow.version + 1 \in Nat
  BY DEF IpInv, RowTypes, PortalCalls, ApplicationRows
<1>3. CASE ServeCreate(c)
  <2>1. PICK status \in EditableStatus : ipRow' = [NoRow EXCEPT !.status = status, !.version = 1]
    BY <1>3 DEF ServeCreate
  <2>2. ipRow' = [status |-> status, version |-> 1, text |-> Unwritten] /\ ipRow.version = 0
    BY <1>3, <2>1 DEF NoRow, ServeCreate
  <2>3. status \in {"DRAFT", "ELIGIBILITY_REVIEW"}  BY DEF EditableStatus
  <2>4. ipRow' \in ApplicationRows /\ ipRow'.version = ipRow.version + 1 /\ ipRow'.status = status
    BY <2>2, <2>3 DEF ApplicationRows, Statuses, Writings
  <2> QED  BY <1>1, <1>3, <2>3, <2>4, RowMoves DEF ServeCreate
<1>4. CASE ServeSaveDraft(c)
  <2>1. ipRow' = [ipRow EXCEPT !.version = @ + 1, !.text = c.text] /\ ipRow.status \in EditableStatus
    BY <1>4 DEF ServeSaveDraft, Current
  <2>2. ipRow' \in ApplicationRows /\ ipRow'.version = ipRow.version + 1 /\ ipRow'.status = ipRow.status
    BY <1>2, <2>1 DEF ApplicationRows
  <2> QED  BY <1>1, <1>4, <2>1, <2>2, RowMoves DEF ServeSaveDraft, EditableStatus
<1>5. CASE ServeSubmit(c)
  <2>1. ipRow' = [ipRow EXCEPT !.version = @ + 1, !.status = "SUBMITTED"] /\ ipRead' = c.text
    BY <1>5 DEF ServeSubmit
  <2>2. ipRow' \in ApplicationRows /\ ipRow'.version = ipRow.version + 1 /\ ipRow'.text = ipRow.text
    BY <1>2, <2>1 DEF ApplicationRows, Statuses
  <2>3. c.text = ipRow.text
    BY <1>5 DEF ServeSubmit, Current, IpInv, ReadersKnow, ReadAs
  <2> QED  BY <1>1, <1>5, <2>1, <2>2, <2>3, RowMoves DEF ServeSubmit
<1> QED  BY <1>3, <1>4, <1>5

\* The other tab and the coordinator.
LEMMA OthersIpInv ==
  ASSUME IpInv,
         \/ \E text \in Essays : SaveInOtherTab(text)
         \/ \E decision \in {"ACCEPTED", "REJECTED", "WAITLISTED"} : Decide(decision)
  PROVE  IpInv'
<1>1. ipRow \in ApplicationRows /\ ipRow.version + 1 \in Nat /\ ipCalls \subseteq PortalCalls
  BY DEF IpInv, RowTypes, ApplicationRows
<1>2. UNCHANGED ipCalls => Continued  BY <1>1 DEF Continued
<1>3. ASSUME NEW text \in Essays, SaveInOtherTab(text) PROVE IpInv'
  <2>1. ipRow' = [ipRow EXCEPT !.version = @ + 1, !.text = text] /\ ipRow.status \in EditableStatus
    BY <1>3 DEF SaveInOtherTab
  <2>2. ipRow' \in ApplicationRows /\ ipRow'.version = ipRow.version + 1 /\ ipRow'.status = ipRow.status
    BY <1>1, <2>1 DEF ApplicationRows, Writings
  <2> QED  BY <1>2, <1>3, <2>1, <2>2, RowMoves DEF SaveInOtherTab, EditableStatus
<1>4. ASSUME NEW decision \in {"ACCEPTED", "REJECTED", "WAITLISTED"}, Decide(decision) PROVE IpInv'
  <2>1. ipRow' = [ipRow EXCEPT !.version = @ + 1, !.status = decision] /\ ipRead' = ipReview.text
    BY <1>4 DEF Decide
  <2>2. ipRow' \in ApplicationRows /\ ipRow'.version = ipRow.version + 1 /\ ipRow'.text = ipRow.text
    BY <1>1, <2>1 DEF ApplicationRows, Statuses
  <2>3. ipReview.text = ipRow.text
    BY <1>4 DEF Decide, IpInv, ReadersKnow, ReadAs
  <2> QED  BY <1>2, <1>4, <2>1, <2>2, <2>3, RowMoves DEF Decide
<1> QED  BY <1>3, <1>4

\* The application page.
LEMMA ApplyingIpInv == ASSUME IpInv, Applying PROVE IpInv'
<1>1. CASE RefreshApplication \/ PressCreate \/ PressSaveDraft \/ PressSubmit \/ OpenReview
           \/ \E text \in Essays : EditEssay(text)
  <2>1. FormTypes'
    BY <1>1 DEF RefreshApplication, Refreshed, PressCreate, PressSaveDraft, PressSubmit, OpenReview,
       EditEssay, IpInv, FormTypes, RowTypes, ApplicationRows, Writings, ipApplication, ipLearning
  <2>2. UNCHANGED ipCalls => Continued  BY DEF Continued, IpInv
  <2> QED
    BY <1>1, <2>1, <2>2, PageMoves
       DEF RefreshApplication, Refreshed, PressCreate, PressSaveDraft, PressSubmit, OpenReview,
           EditEssay, ipApplication
<1>2. ASSUME NEW c \in ipCalls, ApplicationAnswered(c) \/ CallFails(c) PROVE IpInv'
  <2>1. Continued  BY <1>2, CallsContinue DEF ApplicationAnswered, CallFails
  <2>2. FormTypes'
    BY <1>2 DEF ApplicationAnswered, CallFails, Refreshed, IpInv, FormTypes, RowTypes,
       ApplicationRows, ipApplication, ipLearning
  <2> QED
    BY <1>2, <2>1, <2>2, PageMoves DEF ApplicationAnswered, CallFails, Refreshed, ipApplication
<1> QED  BY <1>1, <1>2, ServesIpInv, OthersIpInv DEF Applying

\* The curriculum page, which touches no application.
LEMMA LearningIpInv == ASSUME IpInv, Learning PROVE IpInv'
<1>1. UNCHANGED ipCalls => Continued  BY DEF Continued, IpInv
<1>2. ASSUME NEW c \in ipCalls, CompleteUnit(c) \/ UnitCompleted(c) \/ UnitFails(c) PROVE IpInv'
  <2>1. Continued  BY <1>2, CallsContinue DEF CompleteUnit, UnitCompleted, UnitFails
  <2>2. FormTypes' /\ UNCHANGED ipApplication
    BY <1>2 DEF CompleteUnit, UnitCompleted, UnitFails, IpInv, FormTypes, Writings, ipApplication,
       ipLearning
  <2> QED  BY <2>1, <2>2, PageMoves DEF ipApplication
<1>3. CASE \/ WeekStarts \/ LoadCurriculum \/ SubmitEvidence \/ (\E u \in Units : OpenUnit(u))
           \/ (\E text \in Essays : WriteEvidence(text))
  <2>1. FormTypes' /\ UNCHANGED ipApplication
    BY <1>3 DEF WeekStarts, LoadCurriculum, SubmitEvidence, OpenUnit, WriteEvidence, IpInv, FormTypes,
       Writings, ipApplication, ipLearning
  <2>2. Continued \/ Send("unit")
    BY <1>1, <1>3 DEF WeekStarts, LoadCurriculum, SubmitEvidence, OpenUnit, WriteEvidence
  <2> QED  BY <2>1, <2>2, PageMoves DEF ipApplication
<1> QED  BY <1>2, <1>3 DEF Learning

\* Whoever acts on an application acts on the contents they have read: the version the
\* requests name is one whose contents cannot have changed (submit_application,
\* decide_application).
THEOREM ApplicationsActedOnAsRead == IpSpec => []ActedOnAsRead
<1>1. ASSUME IpInv, [IpNext]_ipVars PROVE IpInv'
  <2>1. CASE UNCHANGED ipVars
    BY <1>1, <2>1 DEF ipVars, IpInv, RowTypes, FormTypes, ReadersKnow, ReadAs, ActedOnAsRead
  <2> QED  BY <1>1, <2>1, ApplyingIpInv, LearningIpInv DEF IpNext
<1>2. IpInv => ActedOnAsRead  BY DEF IpInv
<1> QED  BY <1>1, <1>2, InitIpInv, PTL DEF IpSpec

----------------------------------------------------------------------------
(* The talent marketplace. *)

Verdicts == {"ACCEPTED", "REJECTED"}
ProposalStates == {"NONE", "SUBMITTED"} \cup Verdicts
Askers == {"page", "colleague", "nobody"}
Decisions ==
  [by : Askers, student : Students, decision : Verdicts,
   holds : SUBSET (Students \cup {"opportunity"})]
MarketTypes ==
  /\ tdOpportunity \in {"NONE", "OPEN", "SELECTED"}
  /\ tdProposals \in [Students -> ProposalStates]
  /\ tdDecisions \subseteq Decisions

\* A decision that holds the opportunity holds it alone, and what it checked still is so.
HoldersKnow ==
  /\ \A d, e \in tdDecisions :
       "opportunity" \in d.holds /\ "opportunity" \in e.holds => d = e
  /\ \A d \in tdDecisions : "opportunity" \in d.holds =>
       tdOpportunity = "OPEN" /\ tdProposals[d.student] = "SUBMITTED"

OneSelected ==
  IF tdOpportunity = "SELECTED"
  THEN \E s \in Students : \A t \in Students :
         tdProposals[t] # "SUBMITTED" /\ (tdProposals[t] = "ACCEPTED" <=> t = s)
  ELSE \A s \in Students : tdProposals[s] # "ACCEPTED"

MarketInv == MarketTypes /\ HoldersKnow /\ OneSelected

\* A step of the market takes nothing back.
MarketForward ==
  /\ tdOpportunity = "SELECTED" => tdOpportunity' = "SELECTED"
  /\ \A s \in Students :
       /\ tdProposals[s] \in Verdicts => tdProposals'[s] = tdProposals[s]
       /\ tdProposals[s] # "NONE" => tdProposals'[s] # "NONE"

\* Publishing the opportunity and proposing to it (submit_proposal).
LEMMA PublishProposeInv ==
  ASSUME MarketInv, Published \/ \E s \in Students : Propose(s)
  PROVE  MarketInv' /\ MarketForward
<1>1. CASE Published
  BY <1>1 DEF Published, MarketInv, MarketTypes, HoldersKnow, OneSelected, MarketForward
<1>2. ASSUME NEW s \in Students, Propose(s) PROVE MarketInv' /\ MarketForward
  <2>1. /\ tdProposals' = [tdProposals EXCEPT ![s] = "SUBMITTED"] /\ tdProposals[s] = "NONE"
        /\ tdOpportunity = "OPEN" /\ UNCHANGED <<tdOpportunity, tdDecisions>>
    BY <1>2 DEF Propose
  <2>2. /\ tdProposals' \in [Students -> ProposalStates] /\ tdProposals'[s] = "SUBMITTED"
        /\ \A t \in Students : t # s => tdProposals'[t] = tdProposals[t]
    BY <2>1 DEF MarketInv, MarketTypes, ProposalStates
  <2>3. \A d \in tdDecisions : d.student \in Students  BY DEF MarketInv, MarketTypes, Decisions
  <2>4. MarketTypes' /\ MarketForward
    BY <2>1, <2>2 DEF MarketInv, MarketTypes, MarketForward, Verdicts
  <2>5. HoldersKnow' /\ OneSelected'
    BY <2>1, <2>2, <2>3 DEF MarketInv, HoldersKnow, OneSelected
  <2> QED  BY <2>4, <2>5 DEF MarketInv
<1> QED  BY <1>1, <1>2

\* Decisions that come, go or let go leave the rest as it was.
LEMMA DecisionsMove ==
  ASSUME MarketInv, UNCHANGED <<tdOpportunity, tdProposals>>, tdDecisions' \subseteq Decisions,
         \A d \in tdDecisions' : "opportunity" \in d.holds =>
           /\ tdOpportunity = "OPEN" /\ tdProposals[d.student] = "SUBMITTED"
           /\ \A e \in tdDecisions' : "opportunity" \in e.holds => d = e
  PROVE  MarketInv' /\ MarketForward
  BY DEF MarketInv, MarketTypes, HoldersKnow, OneSelected, MarketForward

\* A decision begins with the lock of its proposal.
LEMMA LockInv ==
  ASSUME MarketInv, NEW by \in Askers, NEW s \in Students, NEW decision \in Verdicts,
         LockProposal(by, s, decision)
  PROVE  MarketInv' /\ MarketForward
<1> DEFINE d == [by |-> by, student |-> s, decision |-> decision, holds |-> {s}]
<1>1. d \in Decisions /\ "opportunity" \notin d.holds
  BY TalentAssumption DEF Decisions
<1>2. tdDecisions' = tdDecisions \cup {d} /\ UNCHANGED <<tdOpportunity, tdProposals>>
  BY DEF LockProposal
<1> HIDE DEF d
<1> QED  BY <1>1, <1>2, DecisionsMove DEF MarketInv, MarketTypes, HoldersKnow

\* The lock of the opportunity, after which everything is checked, and a deadlock that
\* the database ends.
LEMMA DropInv ==
  ASSUME MarketInv, NEW d \in tdDecisions, LockOpportunity(d) \/ BreakDeadlock(d)
  PROVE  MarketInv' /\ MarketForward
<1>1. CASE BreakDeadlock(d)
  BY <1>1, DecisionsMove DEF BreakDeadlock, MarketInv, MarketTypes, HoldersKnow
<1>2. CASE LockOpportunity(d)
  <2> DEFINE e == [d EXCEPT !.holds = @ \cup {"opportunity"}]
  <2>1. d \in Decisions  BY DEF MarketInv, MarketTypes
  <2>2. e \in Decisions /\ e.student = d.student /\ "opportunity" \in e.holds
    BY <2>1 DEF Decisions
  <2>3. /\ tdDecisions' \subseteq (tdDecisions \ {d}) \cup {e}
        /\ e \in tdDecisions' =>
             e \in tdDecisions \/ (tdProposals[d.student] = "SUBMITTED" /\ tdOpportunity = "OPEN")
        /\ UNCHANGED <<tdOpportunity, tdProposals>>
    BY <1>2 DEF LockOpportunity
  <2>4. \A f \in tdDecisions : "opportunity" \notin f.holds
    BY <1>2 DEF LockOpportunity, RowLocked
  <2> HIDE DEF e
  <2> QED  BY <2>2, <2>3, <2>4, DecisionsMove DEF MarketInv, MarketTypes
<1> QED  BY <1>1, <1>2

\* The commit of a decision settles the other proposals with the one selected.
LEMMA CommitInv ==
  ASSUME MarketInv, NEW d \in tdDecisions, CommitDecision(d)
  PROVE  /\ MarketInv' /\ MarketForward
         /\ tdProposals'[d.student] = d.decision
         /\ d.decision = "ACCEPTED" => tdOpportunity' = "SELECTED"
<1>1. /\ d \in Decisions /\ "opportunity" \in d.holds
      /\ tdOpportunity = "OPEN" /\ tdProposals[d.student] = "SUBMITTED"
      /\ \A e \in tdDecisions : "opportunity" \in e.holds => d = e
  BY DEF MarketInv, MarketTypes, HoldersKnow, CommitDecision
<1>2. d.student \in Students /\ d.decision \in Verdicts  BY <1>1 DEF Decisions
<1>3. /\ tdDecisions' = tdDecisions \ {d}
      /\ tdOpportunity' = IF d.decision = "ACCEPTED" THEN "SELECTED" ELSE "OPEN"
  BY <1>1 DEF CommitDecision
<1>4. tdProposals' = Written(d)  BY DEF CommitDecision
<1>5. \A s \in Students : tdProposals'[s] =
        IF s = d.student THEN d.decision
        ELSE IF d.decision = "ACCEPTED" /\ tdProposals[s] = "SUBMITTED" THEN "REJECTED"
        ELSE tdProposals[s]
  BY <1>4 DEF Written, Competing
<1>6. tdProposals' \in [Students -> ProposalStates]
  <2>1. \A s \in Students : tdProposals[s] \in ProposalStates  BY DEF MarketInv, MarketTypes
  <2> QED  BY <1>2, <1>4, <2>1 DEF Written, ProposalStates, Verdicts
<1>7. MarketTypes' /\ HoldersKnow'
  BY <1>1, <1>3, <1>6 DEF MarketInv, MarketTypes, HoldersKnow
<1>8. MarketForward
  BY <1>1, <1>2, <1>3, <1>5 DEF MarketForward, Verdicts
<1>9. \A s \in Students : tdProposals[s] # "ACCEPTED"
  BY <1>1 DEF MarketInv, OneSelected
<1>10. OneSelected'
  <2>1. CASE d.decision = "ACCEPTED"
    <3>1. \A t \in Students : /\ tdProposals'[t] # "SUBMITTED"
                              /\ tdProposals'[t] = "ACCEPTED" <=> t = d.student
      BY <1>5, <1>9, <2>1
    <3> QED  BY <1>2, <1>3, <2>1, <3>1 DEF OneSelected
  <2>2. CASE d.decision = "REJECTED"
    BY <1>3, <1>5, <1>9, <2>2 DEF OneSelected
  <2> QED  BY <1>2, <2>1, <2>2 DEF Verdicts
<1> QED  BY <1>2, <1>3, <1>5, <1>7, <1>8, <1>10 DEF MarketInv

Shows ==
  [opportunity : {"LOADING", "NONE", "OPEN", "SELECTED"}, proposals : [Students -> ProposalStates]]
PageRequests ==
  {r \in [kind : {"none", "publish", "decide", "propose", "enroll", "complete"}, student : Students,
          decision : Verdicts \cup {"NONE"}, module : {0} \cup 1..Modules,
          stage : {"sent", "served", "ok"}] : r.kind = "decide" => r.decision \in Verdicts}
PageTypes ==
  /\ tdShown \in Shows /\ tdCall \in PageRequests
  /\ tdDemo \in BOOLEAN /\ tdModule \in {0} \cup 1..Modules

\* The page's decision is one transaction, and it is the one the page waits for.
PageDecides ==
  /\ \A d, e \in tdDecisions : d.by = "page" /\ e.by = "page" => d = e
  /\ \A d \in tdDecisions : d.by = "page" =>
       /\ tdCall.kind = "decide" /\ tdCall.stage = "served" /\ ~tdDemo
       /\ tdCall.student = d.student /\ tdCall.decision = d.decision
  /\ ~Loaded => tdCall.kind = "none"

\* Outside the preview the page is behind the server, never ahead of it or beside it.
ShownKnows ==
  ~tdDemo => \A s \in Students :
    /\ tdShown.proposals[s] \in Verdicts => tdProposals[s] = tdShown.proposals[s]
    /\ tdShown.proposals[s] # "NONE" => tdProposals[s] # "NONE"
AnswerKnows ==
  ~tdDemo /\ tdCall.stage = "ok" =>
    /\ tdCall.kind = "decide" =>
         /\ tdCall.decision \in Verdicts /\ tdProposals[tdCall.student] = tdCall.decision
         /\ tdCall.decision = "ACCEPTED" => tdOpportunity = "SELECTED"
    /\ tdCall.kind = "propose" => tdProposals[Me] # "NONE"

DeskInv == MarketInv /\ PageTypes /\ PageDecides /\ ShownKnows /\ AnswerKnows

\* Nothing is published and the page has loaded nothing.
LEMMA InitDeskInv == TdInit => DeskInv
<1> SUFFICES ASSUME TdInit PROVE DeskInv  OBVIOUS
<1>1. MarketInv
  BY DEF TdInit, MarketInv, MarketTypes, ProposalStates, HoldersKnow, OneSelected
<1>2. Loading \in Shows /\ \A s \in Students : Loading.proposals[s] = "NONE"
  BY DEF Loading, Shows, ProposalStates
<1>3. NoRequest \in PageRequests /\ NoRequest.stage = "sent" /\ NoRequest.kind = "none"
  BY TalentAssumption DEF NoRequest, PageRequests
<1>4. PageTypes /\ PageDecides /\ ShownKnows /\ AnswerKnows
  BY <1>2, <1>3
     DEF TdInit, PageTypes, PageDecides, ShownKnows, AnswerKnows, Verdicts
<1> QED  BY <1>1, <1>4 DEF DeskInv

\* A step of the market that no answer of the page comes from.
LEMMA MarketMoves ==
  ASSUME DeskInv, MarketInv', MarketForward, UNCHANGED <<tdShown, tdDemo, tdModule>>,
         tdCall' \in PageRequests, PageDecides',
         tdCall' = tdCall \/ tdCall'.stage # "ok" \/ AnswerKnows'
  PROVE  DeskInv'
<1>1. tdCall.student \in Students /\ Me \in Students
  BY TalentAssumption DEF DeskInv, PageTypes, PageRequests
<1>2. ShownKnows' /\ AnswerKnows'
  BY <1>1 DEF DeskInv, ShownKnows, AnswerKnows, MarketForward
<1> QED  BY <1>2 DEF DeskInv, PageTypes

\* Colleagues and other students.
LEMMA OthersDeskInv == ASSUME DeskInv, Others PROVE DeskInv'
<1>1. MarketInv' /\ MarketForward
  <2>1. CASE Published \/ \E s \in Students : Propose(s)
    BY <2>1, PublishProposeInv DEF DeskInv
  <2>2. CASE \E s \in Students, decision \in {"ACCEPTED", "REJECTED"} :
               LockProposal("colleague", s, decision)
    BY <2>2, LockInv DEF DeskInv, Askers, Verdicts
  <2> QED  BY <2>1, <2>2 DEF Others
<1>2. /\ UNCHANGED <<tdShown, tdDemo, tdModule, tdCall>>
      /\ \A d \in tdDecisions' : d \in tdDecisions \/ d.by = "colleague"
  <2>1. CASE Published \/ \E s \in Students : Propose(s)
    BY <2>1 DEF Others, Published, Propose, tdLearning
  <2>2. ASSUME NEW s \in Students, NEW decision \in {"ACCEPTED", "REJECTED"},
               LockProposal("colleague", s, decision)
        PROVE  \A d \in tdDecisions' : d \in tdDecisions \/ d.by = "colleague"
    BY <2>2 DEF LockProposal
  <2> QED  BY <2>1, <2>2 DEF Others, tdLearning
<1>3. PageDecides'  BY <1>2 DEF DeskInv, PageDecides, Loaded
<1>4. tdCall' \in PageRequests  BY <1>2 DEF DeskInv, PageTypes
<1> QED  BY <1>1, <1>2, <1>3, <1>4, MarketMoves

\* The steps of the transactions, the answer to the page included.
LEMMA DecisionDeskInv == ASSUME DeskInv, NEW d \in tdDecisions, DecisionStep(d) PROVE DeskInv'
<1>1. d \in Decisions /\ UNCHANGED <<tdShown, tdDemo, tdModule>>
  BY DEF DeskInv, MarketInv, MarketTypes, DecisionStep, tdLearning
<1>2. CASE LockOpportunity(d) /\ UNCHANGED tdCall
  <2> DEFINE e == [d EXCEPT !.holds = @ \cup {"opportunity"}]
  <2>1. e.by = d.by /\ e.student = d.student /\ e.decision = d.decision
    BY <1>1 DEF Decisions
  <2>2. tdDecisions' \subseteq (tdDecisions \ {d}) \cup {e}
    BY <1>2 DEF LockOpportunity
  <2> HIDE DEF e
  <2>3. PageDecides'
    BY <1>1, <1>2, <2>1, <2>2 DEF DeskInv, PageDecides, Loaded
  <2>4. MarketInv' /\ MarketForward /\ tdCall' \in PageRequests
    BY <1>2, DropInv DEF DeskInv, PageTypes
  <2> QED  BY <1>1, <1>2, <2>3, <2>4, MarketMoves
<1>3. CASE BreakDeadlock(d) /\ UNCHANGED tdCall
  <2>1. PageDecides'
    BY <1>1, <1>3 DEF BreakDeadlock, DeskInv, PageDecides, Loaded
  <2>2. MarketInv' /\ MarketForward /\ tdCall' \in PageRequests
    BY <1>3, DropInv DEF DeskInv, PageTypes
  <2> QED  BY <1>1, <1>3, <2>1, <2>2, MarketMoves
<1>4. CASE /\ CommitDecision(d)
           /\ tdCall' = IF d.by = "page" THEN [tdCall EXCEPT !.stage = "ok"] ELSE tdCall
  <2>1. /\ MarketInv' /\ MarketForward /\ tdProposals'[d.student] = d.decision
        /\ d.decision = "ACCEPTED" => tdOpportunity' = "SELECTED"
        /\ tdDecisions' = tdDecisions \ {d} /\ tdCall \in PageRequests
    BY <1>4, CommitInv DEF DeskInv, PageTypes, CommitDecision
  <2>2. CASE d.by # "page"
    <3>1. PageDecides' /\ tdCall' = tdCall
      BY <1>1, <1>4, <2>1, <2>2 DEF DeskInv, PageDecides, Loaded
    <3> QED  BY <1>1, <2>1, <3>1, MarketMoves
  <2>3. CASE d.by = "page"
    <3>1. /\ tdCall.kind = "decide" /\ tdCall.student = d.student /\ tdCall.decision = d.decision
      BY <2>3 DEF DeskInv, PageDecides
    <3>2. /\ tdCall' \in PageRequests /\ tdCall'.kind = "decide"
          /\ tdCall'.student = d.student /\ tdCall'.decision = d.decision
      BY <1>4, <2>1, <2>3, <3>1 DEF PageRequests
    <3>3. \A e \in tdDecisions' : e.by # "page"
      BY <2>1, <2>3 DEF DeskInv, PageDecides
    <3>4. PageDecides'
      BY <1>1, <2>3, <3>1, <3>3 DEF DeskInv, PageDecides, Loaded
    <3>5. AnswerKnows'
      BY <1>1, <2>1, <3>2 DEF AnswerKnows, Decisions
    <3>6. ShownKnows'
      BY <1>1, <2>1 DEF DeskInv, ShownKnows, MarketForward
    <3> QED  BY <1>1, <2>1, <3>2, <3>4, <3>5, <3>6 DEF DeskInv, PageTypes
  <2> QED  BY <2>2, <2>3
<1> QED  BY <1>2, <1>3, <1>4 DEF DecisionStep

\* A page that waits for no decision of its own may ask, or take note of an answer.
LEMMA DeskMoves ==
  ASSUME DeskInv, UNCHANGED <<tdServer, tdDemo>>,
         \A d \in tdDecisions : d.by # "page",
         tdShown' \in Shows, tdModule' \in {0} \cup 1..Modules, tdCall' \in PageRequests,
         tdCall'.stage # "ok", tdShown'.opportunity = "LOADING" => tdCall'.kind = "none",
         ShownKnows'
  PROVE  DeskInv'
<1>1. UNCHANGED <<tdOpportunity, tdProposals, tdDecisions>>  BY DEF tdServer
<1>2. MarketInv'
  BY <1>1 DEF DeskInv, MarketInv, MarketTypes, HoldersKnow, OneSelected
<1>3. PageTypes' /\ PageDecides' /\ AnswerKnows'
  BY <1>1 DEF DeskInv, PageTypes, PageDecides, Loaded, AnswerKnows
<1> QED  BY <1>2, <1>3 DEF DeskInv

\* What no request is.
LEMMA NoRequestTyped ==
  /\ NoRequest \in PageRequests /\ NoRequest.stage = "sent" /\ NoRequest.kind = "none"
  /\ NoRequest.student = Me /\ NoRequest.decision = "NONE" /\ NoRequest.module = 0
  BY TalentAssumption DEF NoRequest, PageRequests

\* Whatever the page asks, it asks while it waits for nothing.
LEMMA AsksDeskInv ==
  ASSUME DeskInv, NEW call \in PageRequests, call.stage = "sent", PageAsks(call)
  PROVE  DeskInv'
<1>1. tdCall = NoRequest /\ Loaded /\ tdCall' = call
      /\ UNCHANGED <<tdServer, tdShown, tdDemo, tdModule>>
  BY DEF PageAsks, Busy, tdLearning
<1>2. \A d \in tdDecisions : d.by # "page"
  BY <1>1, NoRequestTyped DEF DeskInv, PageDecides
<1>3. ShownKnows'  BY <1>1 DEF DeskInv, ShownKnows, tdServer
<1> QED  BY <1>1, <1>2, <1>3, DeskMoves DEF DeskInv, PageTypes, Loaded

\* The buttons.
LEMMA PressesDeskInv ==
  ASSUME DeskInv,
         \/ PressPublish \/ PressPropose \/ PressEnroll \/ PressComplete
         \/ \E s \in Students, decision \in Verdicts : PressDecide(s, decision)
  PROVE  DeskInv'
<1>1. \A kind \in {"publish", "propose", "enroll"} :
        /\ [NoRequest EXCEPT !.kind = kind] \in PageRequests
        /\ [NoRequest EXCEPT !.kind = kind].stage = "sent"
  BY NoRequestTyped DEF PageRequests
<1>2. CASE PressPublish \/ PressPropose \/ PressEnroll
  BY <1>1, <1>2, AsksDeskInv DEF PressPublish, PressPropose, PressEnroll
<1>3. CASE PressComplete
  <2> DEFINE call == [NoRequest EXCEPT !.kind = "complete", !.module = tdModule]
  <2>1. call \in PageRequests /\ call.stage = "sent"
    BY NoRequestTyped DEF PageRequests, DeskInv, PageTypes
  <2>2. PageAsks(call)  BY <1>3 DEF PressComplete
  <2> QED  BY <2>1, <2>2, AsksDeskInv
<1>4. ASSUME NEW s \in Students, NEW decision \in Verdicts, PressDecide(s, decision) PROVE DeskInv'
  <2> DEFINE call == [NoRequest EXCEPT !.kind = "decide", !.student = s, !.decision = decision]
  <2>1. call \in PageRequests /\ call.stage = "sent"
    BY NoRequestTyped DEF PageRequests
  <2>2. PageAsks(call)  BY <1>4 DEF PressDecide
  <2> QED  BY <2>1, <2>2, AsksDeskInv
<1> QED  BY <1>2, <1>3, <1>4

\* The page loads, or falls back on the sample.
LEMMA LoadsDeskInv == ASSUME DeskInv, LoadDesk PROVE DeskInv'
<1>1. /\ tdCall.kind = "none" /\ tdCall \in PageRequests
      /\ UNCHANGED <<tdServer, tdCall, tdModule>>
      /\ \A d \in tdDecisions : d.by # "page"
  BY DEF LoadDesk, DeskInv, PageTypes, PageDecides
<1>2. UNCHANGED <<tdOpportunity, tdProposals, tdDecisions>>  BY <1>1 DEF tdServer
<1>3. tdShown' \in Shows /\ tdDemo' \in BOOLEAN
  <2>1. /\ tdOpportunity \in {"NONE", "OPEN", "SELECTED"}
        /\ tdProposals \in [Students -> ProposalStates]
    BY DEF DeskInv, MarketInv, MarketTypes
  <2>2. Sampled \in Shows  BY DEF Sampled, Shows, ProposalStates
  <2>3. tdDemo \in BOOLEAN  BY DEF DeskInv, PageTypes
  <2>4. [opportunity |-> tdOpportunity, proposals |-> tdProposals] \in Shows
    BY <2>1 DEF Shows
  <2> QED  BY <2>2, <2>3, <2>4 DEF LoadDesk
<1>4. ShownKnows'
  <2>1. \/ tdShown'.proposals = tdProposals
        \/ tdDemo' = TRUE
    BY DEF LoadDesk
  <2> QED  BY <1>2, <2>1 DEF ShownKnows
<1>5. MarketInv' /\ PageDecides' /\ PageTypes'
  BY <1>1, <1>2, <1>3
     DEF DeskInv, MarketInv, MarketTypes, HoldersKnow, OneSelected, PageDecides, PageTypes
<1>6. AnswerKnows'
  BY <1>1 DEF AnswerKnows
<1> QED  BY <1>4, <1>5, <1>6 DEF DeskInv

\* The page gives up; what the API was asked goes on.
LEMMA FailsDeskInv == ASSUME DeskInv, PageFails PROVE DeskInv'
<1> DEFINE D(d) == IF d.by = "page" THEN [d EXCEPT !.by = "nobody"] ELSE d
<1>1. \A d \in tdDecisions : d \in Decisions  BY DEF DeskInv, MarketInv, MarketTypes
<1>2. \A d \in Decisions : /\ D(d) \in Decisions /\ D(d).holds = d.holds
                           /\ D(d).student = d.student /\ D(d).by # "page"
  BY DEF Decisions, Askers
<1>3. tdDecisions' = {D(d) : d \in tdDecisions}  BY DEF PageFails
<1>4. /\ tdCall' = NoRequest
      /\ UNCHANGED <<tdOpportunity, tdProposals, tdShown, tdDemo, tdModule>>
  BY DEF PageFails, tdLearning
<1> HIDE DEF D
<1>5. MarketInv' /\ MarketForward
  BY <1>1, <1>2, <1>3, <1>4, DecisionsMove DEF DeskInv, MarketInv, HoldersKnow
<1>6. PageDecides'
  BY <1>1, <1>2, <1>3, <1>4, NoRequestTyped DEF PageDecides
<1> QED  BY <1>4, <1>5, <1>6, MarketMoves, NoRequestTyped

\* The API takes a request of the page.
LEMMA ServesDeskInv ==
  ASSUME DeskInv, ServePublish \/ ServeDecide \/ ServePropose \/ ServeLearning PROVE DeskInv'
<1>1. tdCall \in PageRequests /\ tdCall.stage = "sent" /\ ~tdDemo
      /\ UNCHANGED <<tdShown, tdDemo, tdModule>>
  BY DEF ServePublish, ServeDecide, ServePropose, ServeLearning, DeskInv, PageTypes, tdLearning
<1>2. \A d \in tdDecisions : d.by # "page"  BY <1>1 DEF DeskInv, PageDecides
<1>3. Loaded \/ tdCall.kind = "none"  BY DEF DeskInv, PageDecides
<1>4. CASE ServeDecide
  <2>1. /\ LockProposal("page", tdCall.student, tdCall.decision)
        /\ tdCall' = [tdCall EXCEPT !.stage = "served"] /\ tdCall.kind = "decide"
    BY <1>4 DEF ServeDecide
  <2>2. /\ tdCall.student \in Students /\ tdCall.decision \in Verdicts
        /\ tdCall' \in PageRequests /\ tdCall'.kind = "decide" /\ tdCall'.stage = "served"
        /\ tdCall'.student = tdCall.student /\ tdCall'.decision = tdCall.decision
    BY <1>1, <2>1 DEF PageRequests
  <2>3. MarketInv' /\ MarketForward
    BY <2>1, <2>2, LockInv DEF DeskInv, Askers
  <2>4. \A d \in tdDecisions' : d \in tdDecisions \/
          d = [by |-> "page", student |-> tdCall.student, decision |-> tdCall.decision,
               holds |-> {tdCall.student}]
    BY <2>1 DEF LockProposal
  <2>5. PageDecides'
    BY <1>1, <1>2, <1>3, <2>1, <2>2, <2>4 DEF PageDecides, Loaded
  <2> QED  BY <1>1, <2>2, <2>3, <2>5, MarketMoves
<1>5. CASE ServePublish \/ ServePropose
  <2>1. /\ tdCall' = [tdCall EXCEPT !.stage = "ok"] /\ tdCall.kind \in {"publish", "propose"}
        /\ UNCHANGED tdDecisions
    BY <1>5 DEF ServePublish, ServePropose, Published, Propose
  <2>2. tdCall' \in PageRequests /\ tdCall'.kind = tdCall.kind
    BY <1>1, <2>1 DEF PageRequests
  <2>3. MarketInv' /\ MarketForward
    BY <1>5, PublishProposeInv, TalentAssumption DEF ServePublish, ServePropose, DeskInv
  <2>4. tdCall.kind = "propose" => tdProposals'[Me] # "NONE"
    BY <1>5, TalentAssumption
       DEF ServePublish, ServePropose, Propose, DeskInv, MarketInv, MarketTypes
  <2>5. AnswerKnows'  BY <2>1, <2>2, <2>4 DEF AnswerKnows
  <2>6. PageDecides'  BY <1>1, <1>2, <1>3, <2>1, <2>2 DEF PageDecides, Loaded
  <2> QED  BY <1>1, <2>2, <2>3, <2>5, <2>6, MarketMoves
<1>6. CASE ServeLearning
  <2>1. /\ tdCall' = [tdCall EXCEPT !.stage = "ok"] /\ tdCall.kind \in {"enroll", "complete"}
        /\ UNCHANGED <<tdOpportunity, tdProposals, tdDecisions>>
    BY <1>6 DEF ServeLearning, tdServer
  <2>2. tdCall' \in PageRequests /\ tdCall'.kind = tdCall.kind
    BY <1>1, <2>1 DEF PageRequests
  <2>3. MarketInv' /\ MarketForward
    BY <2>1 DEF DeskInv, MarketInv, MarketTypes, HoldersKnow, OneSelected, MarketForward
  <2>4. PageDecides' /\ AnswerKnows'
    BY <1>1, <1>2, <1>3, <2>1, <2>2 DEF PageDecides, Loaded, AnswerKnows
  <2> QED  BY <1>1, <2>2, <2>3, <2>4, MarketMoves
<1> QED  BY <1>4, <1>5, <1>6

\* What a decided proposal means for the others is what the API made of them: whoever
\* was shown as undecided has proposed, and nobody is left undecided.
LEMMA DecidedShows ==
  ASSUME DeskInv, DeskAnswered PROVE tdShown' \in Shows /\ ShownKnows'
<1>1. /\ tdCall \in PageRequests /\ tdShown \in Shows /\ tdCall.stage = "ok"
      /\ tdProposals' = tdProposals /\ tdDemo' = tdDemo
  BY DEF DeskAnswered, DeskInv, PageTypes, tdServer
<1>2. CASE tdCall.kind = "publish"
  <2>1. tdShown' = [tdShown EXCEPT !.opportunity = "OPEN"]  BY <1>2 DEF DeskAnswered
  <2>2. tdShown' \in Shows /\ tdShown'.proposals = tdShown.proposals  BY <1>1, <2>1 DEF Shows
  <2> QED  BY <1>1, <2>2 DEF DeskInv, ShownKnows
<1>3. CASE tdCall.kind = "decide"
  <2>1. tdShown' = Decided(tdShown, tdCall)  BY <1>3 DEF DeskAnswered
  <2>2. /\ tdCall.decision \in Verdicts /\ tdCall.student \in Students
        /\ ~tdDemo => /\ tdProposals[tdCall.student] = tdCall.decision
                      /\ tdCall.decision = "ACCEPTED" => tdOpportunity = "SELECTED"
    BY <1>1, <1>3 DEF DeskInv, AnswerKnows, PageRequests
  <2>3. \A s \in Students : tdShown'.proposals[s] =
          IF s = tdCall.student THEN tdCall.decision
          ELSE IF tdCall.decision = "ACCEPTED" /\ tdShown.proposals[s] = "SUBMITTED"
          THEN "REJECTED" ELSE tdShown.proposals[s]
    BY <2>1 DEF Decided
  <2>4. \A s \in Students : tdShown.proposals[s] \in ProposalStates  BY <1>1 DEF Shows
  <2>5. tdShown' \in Shows
    BY <1>1, <2>1, <2>2, <2>4 DEF Decided, Shows, ProposalStates, Verdicts
  <2>6. ~tdDemo /\ tdCall.decision = "ACCEPTED" => \A s \in Students \ {tdCall.student} :
          tdShown.proposals[s] = "SUBMITTED" => tdProposals[s] = "REJECTED"
    <3>1. \A s \in Students : tdProposals[s] \in {"NONE", "SUBMITTED", "ACCEPTED", "REJECTED"}
      BY DEF DeskInv, MarketInv, MarketTypes, ProposalStates, Verdicts
    <3>2. ~tdDemo => \A s \in Students :
            tdShown.proposals[s] = "SUBMITTED" => tdProposals[s] # "NONE"
      BY DEF DeskInv, ShownKnows
    <3>3. ~tdDemo /\ tdCall.decision = "ACCEPTED" => \A s \in Students \ {tdCall.student} :
            tdProposals[s] # "SUBMITTED" /\ tdProposals[s] # "ACCEPTED"
      BY <2>2 DEF DeskInv, MarketInv, OneSelected
    <3> QED  BY <3>1, <3>2, <3>3
  <2>7. ShownKnows'
    BY <1>1, <2>2, <2>3, <2>6 DEF DeskInv, ShownKnows, Verdicts
  <2> QED  BY <2>5, <2>7
<1> QED  BY <1>2, <1>3 DEF DeskAnswered

\* What the page makes of the answers.
LEMMA AnswersDeskInv ==
  ASSUME DeskInv,
         \/ DeskAnswered \/ DeskPreview \/ Proposed \/ Learnt
         \/ \E n \in 1..Modules : OpenModule(n)
  PROVE  DeskInv'
<1>1. tdCall \in PageRequests /\ tdShown \in Shows /\ tdModule \in {0} \cup 1..Modules
  BY DEF DeskInv, PageTypes
<1>2. UNCHANGED <<tdServer, tdDemo>> /\ UNCHANGED tdProposals
  BY DEF DeskAnswered, DeskPreview, Proposed, Learnt, OpenModule, tdServer
<1>3. tdShown'.opportunity = "LOADING" => tdShown.opportunity = "LOADING"
  BY <1>1 DEF DeskAnswered, DeskPreview, Proposed, Learnt, OpenModule, Decided, Shows
<1>4. CASE \E n \in 1..Modules : OpenModule(n)
  BY <1>4
     DEF OpenModule, tdServer, DeskInv, MarketInv, MarketTypes, HoldersKnow, OneSelected, PageTypes,
         PageDecides, ShownKnows, AnswerKnows, Loaded
<1>5. ASSUME tdCall' = NoRequest, \A d \in tdDecisions : d.by # "page", tdShown' \in Shows,
             tdModule' \in {0} \cup 1..Modules, ShownKnows'
      PROVE  DeskInv'
  BY <1>2, <1>5, NoRequestTyped, DeskMoves
<1>6. CASE DeskAnswered
  <2>1. tdCall' = NoRequest /\ tdCall.stage = "ok" /\ UNCHANGED tdModule
    BY <1>6 DEF DeskAnswered, tdLearning
  <2>2. \A d \in tdDecisions : d.by # "page"  BY <2>1 DEF DeskInv, PageDecides
  <2> QED  BY <1>1, <1>5, <1>6, <2>1, <2>2, DecidedShows
<1>7. CASE DeskPreview
  <2>1. tdCall' = NoRequest /\ tdDemo /\ tdDemo' = tdDemo /\ UNCHANGED tdModule
    BY <1>7 DEF DeskPreview, tdLearning
  <2>2. \A d \in tdDecisions : d.by # "page"  BY <2>1 DEF DeskInv, PageDecides
  <2>3. tdShown' \in Shows
    <3>1. CASE tdCall.kind = "publish"
      BY <1>1, <1>7, <3>1 DEF DeskPreview, Shows
    <3>2. CASE tdCall.kind = "decide"
      <4>1. /\ tdCall.decision \in Verdicts /\ tdShown.proposals \in [Students -> ProposalStates]
            /\ tdShown.opportunity \in {"LOADING", "NONE", "OPEN", "SELECTED"}
        BY <1>1, <3>2 DEF PageRequests, Shows
      <4>2. [tdShown.proposals EXCEPT ![tdCall.student] = tdCall.decision]
              \in [Students -> ProposalStates]
        BY <4>1 DEF ProposalStates
      <4> QED  BY <1>7, <3>2, <4>1, <4>2 DEF DeskPreview, Shows
    <3> QED  BY <1>7, <3>1, <3>2 DEF DeskPreview
  <2> QED  BY <1>1, <1>5, <2>1, <2>2, <2>3 DEF ShownKnows
<1>8. CASE Proposed
  <2>1. /\ tdCall' = NoRequest /\ tdCall.kind = "propose" /\ UNCHANGED <<tdModule, tdDemo>>
        /\ tdCall.stage = "ok" \/ tdDemo
        /\ tdShown' = [tdShown EXCEPT !.proposals[Me] = "SUBMITTED"]
    BY <1>8 DEF Proposed, tdLearning
  <2>2. \A d \in tdDecisions : d.by # "page"  BY <2>1 DEF DeskInv, PageDecides
  <2>3. tdShown' \in Shows /\ \A s \in Students : tdShown'.proposals[s] =
          IF s = Me THEN "SUBMITTED" ELSE tdShown.proposals[s]
    BY <1>1, <2>1, TalentAssumption DEF Shows, ProposalStates
  <2>4. ShownKnows'
    BY <1>2, <2>1, <2>3 DEF DeskInv, ShownKnows, AnswerKnows, Verdicts
  <2> QED  BY <1>1, <1>5, <2>1, <2>2, <2>3, <2>4
<1>9. CASE Learnt
  <2>1. /\ tdCall' = NoRequest /\ tdCall.kind # "decide" /\ UNCHANGED <<tdShown, tdDemo>>
        /\ tdModule' \in {0, tdModule}
    BY <1>9 DEF Learnt
  <2>2. \A d \in tdDecisions : d.by # "page"  BY <2>1 DEF DeskInv, PageDecides
  <2>3. ShownKnows'  BY <1>2, <2>1 DEF DeskInv, ShownKnows
  <2> QED  BY <1>1, <1>5, <2>1, <2>2, <2>3
<1> QED  BY <1>4, <1>6, <1>7, <1>8, <1>9

\* Every step of the market and of the page.
LEMMA NextDeskInv == ASSUME DeskInv, [TdNext]_tdVars PROVE DeskInv'
<1>1. CASE UNCHANGED tdVars
  BY <1>1
     DEF tdVars, DeskInv, MarketInv, MarketTypes, HoldersKnow, OneSelected, PageTypes, PageDecides,
         ShownKnows, AnswerKnows, Loaded
<1>2. CASE TdNext
  BY <1>2, OthersDeskInv, DecisionDeskInv, PressesDeskInv, LoadsDeskInv, FailsDeskInv,
     ServesDeskInv, AnswersDeskInv
     DEF TdNext, DecisionSteps, Verdicts
<1> QED  BY <1>1, <1>2

\* One proposal is selected, the others are settled with it, and no page says otherwise,
\* whoever decides meanwhile (decide_proposal and the two workspaces that show it).
THEOREM DecisionsAlwaysAgree == TdSpec => []DecisionsAgree
<1>1. DeskInv => DecisionsAgree
  <2> SUFFICES ASSUME DeskInv PROVE DecisionsAgree  OBVIOUS
  <2>1. ASSUME tdOpportunity = "SELECTED"
        PROVE  /\ Cardinality({s \in Students : tdProposals[s] = "ACCEPTED"}) = 1
               /\ \A s \in Students : tdProposals[s] # "SUBMITTED"
    <3>1. PICK s \in Students : \A t \in Students :
            tdProposals[t] # "SUBMITTED" /\ (tdProposals[t] = "ACCEPTED" <=> t = s)
      BY <2>1 DEF DeskInv, MarketInv, OneSelected
    <3>2. {t \in Students : tdProposals[t] = "ACCEPTED"} = {s}  BY <3>1
    <3> QED  BY <3>1, <3>2, FS_Singleton
  <2> QED  BY <2>1 DEF DecisionsAgree, DeskInv, ShownKnows, Verdicts
<1> QED  BY <1>1, InitDeskInv, NextDeskInv, PTL DEF TdSpec

----------------------------------------------------------------------------
(* Public intake. *)

Hashes == Bodies \cup {Unfilled}
ReviewStatuses == {"NEW", "IN_REVIEW", "QUALIFIED", "REJECTED", "CONVERTED"}
IntakeRecords ==
  [status : ReviewStatuses \cup {Absent}, hash : Hashes, version : Nat,
   owner : Owners \cup {Nobody0}, notes : BOOLEAN, personal : BOOLEAN, withdrawn : BOOLEAN,
   anonymized : BOOLEAN, deleted : BOOLEAN]
Reservations == [status : {Absent, "RESERVED", "COMPLETED", "FAILED"}, hash : Hashes]
PostStages == {"sent", "looked", "reserved", "failing", "done"}
Posts ==
  [key : RequestKeys, body : Hashes, stage : PostStages, found : Reservations,
   answer : {"none", "received", "conflict", "error"}]
FormStages == {"editing", "posting", "received", "closed"}

ServerTypes ==
  /\ idReservations \in [RequestKeys -> Reservations]
  /\ idRecords \in [RequestKeys -> IntakeRecords]

\* A record of a key is of that key's reservation; what was anonymized has nothing left,
\* and what is not there was never private.
RecordsKnow ==
  \A k \in RequestKeys :
    /\ idReservations[k].status = "COMPLETED" =>
         idRecords[k].status # Absent /\ idRecords[k].hash = idReservations[k].hash
    /\ idRecords[k].status = Absent => ~Private(idRecords[k])
    /\ idRecords[k].anonymized => idRecords[k].withdrawn /\ ~idRecords[k].personal

\* What a request has read of a reservation can be out of date in its status alone.
PostKnows(p, reservations, records) ==
  /\ p.found.status # Absent =>
       /\ reservations[p.key].status # Absent
       /\ reservations[p.key].hash = p.found.hash
  /\ p.found.status = "COMPLETED" =>
       records[p.key].status # Absent /\ records[p.key].hash = p.found.hash
  /\ p.stage \in {"reserved", "failing"} =>
       reservations[p.key].status # Absent /\ reservations[p.key].hash = p.body
  /\ p.answer = "received" =>
       records[p.key].status # Absent /\ records[p.key].hash = p.body
  /\ p.answer # "none" => p.stage = "done"

\* The form waits for the request it sent, with the key it has.
FormKnows ==
  idForm.stage \in {"posting", "received"} =>
    /\ idForm.post \in 1..Len(idPosts)
    /\ idPosts[idForm.post].key = idForm.key
    /\ idForm.stage = "received" => idPosts[idForm.post].answer = "received"

IdForms == [body : Hashes, key : RequestKeys, stage : FormStages, post : Nat]
PostsKnow == \A n \in 1..Len(idPosts) : PostKnows(idPosts[n], idReservations, idRecords)
IntakeKnows == ServerTypes /\ RecordsKnow /\ idPosts \in Seq(Posts) /\ PostsKnow

\* The page acts on the record it shows, and shows one that is there.
PrivacyOps == {"none", "withdraw", "anonymize"}
IntakePages ==
  [key : RequestKeys \cup {0}, shown : IntakeRecords,
   review : [stage : {"none", "sent", "done"}, target : ReviewStatuses \cup {Absent},
             owner : Owners \cup {Nobody0}, expected : Nat],
   privacy : [stage : {"none", "sent", "read", "done"}, op : PrivacyOps, read : IntakeRecords]]
PageKnowsRecord ==
  /\ idPage \in IntakePages
  /\ idPage.key # 0 => idRecords[idPage.key].status # Absent
  /\ idPage.key = 0 => /\ idPage.shown.status = Absent
                       /\ idPage.review.stage = "none" /\ idPage.privacy.stage = "none"
IdInv == IntakeKnows /\ idForm \in IdForms /\ FormKnows /\ PageKnowsRecord

\* What happens to a record and to a reservation that are there.
RecordsForward ==
  \A k \in RequestKeys :
    /\ idRecords[k].status # Absent =>
         idRecords'[k].status # Absent /\ idRecords'[k].hash = idRecords[k].hash
    /\ idReservations[k].status # Absent =>
         idReservations'[k].status # Absent /\ idReservations'[k].hash = idReservations[k].hash
    /\ Private(idRecords[k]) =>
         /\ idRecords'[k].status = idRecords[k].status
         /\ idRecords'[k].withdrawn
         /\ idRecords[k].anonymized => idRecords'[k].anonymized /\ ~idRecords'[k].personal

\* What there is before a request, and a record as a request makes it.
LEMMA BodiesTyped ==
  /\ Unreserved \in Reservations /\ NoRecord \in IntakeRecords
  /\ \A body \in Hashes : NewRecord(body) \in IntakeRecords /\ NewRecord(body).hash = body
       /\ NewRecord(body).status # Absent /\ ~Private(NewRecord(body))
  BY DEF Unreserved, Reservations, Hashes, NoRecord, NewRecord, IntakeRecords, Private,
         Absent, ReviewStatuses

\* Both starts: nothing yet, or one stored request under review.
LEMMA InitIdInv == IdInit => IdInv
<1> SUFFICES ASSUME IdInit PROVE IdInv  OBVIOUS
<1>1. 1 \in RequestKeys  BY IntakeAssumption DEF RequestKeys
<1>2. idPosts \in Seq(Posts) /\ Len(idPosts) = 0  BY DEF IdInit
<1>3. PageKnowsRecord
  <2>1. ClosedPage \in IntakePages
    BY BodiesTyped DEF ClosedPage, IntakePages, NoReview, NoPrivacy, PrivacyOps
  <2> QED  BY <2>1 DEF PageKnowsRecord, IdInit, ClosedPage, NoRecord, NoReview, NoPrivacy
<1>4. CASE /\ idForm = [body |-> Unfilled, key |-> 1, stage |-> "editing", post |-> 0]
           /\ idReservations = [k \in RequestKeys |-> Unreserved]
           /\ idRecords = [k \in RequestKeys |-> NoRecord]
  <2>1. ServerTypes  BY <1>4, BodiesTyped DEF ServerTypes
  <2>2. RecordsKnow  BY <1>4 DEF RecordsKnow, Unreserved, NoRecord, Absent, Private
  <2>3. idForm \in IdForms /\ FormKnows  BY <1>1, <1>4 DEF IdForms, FormKnows, FormStages, Hashes
  <2> QED  BY <1>2, <1>3, <2>1, <2>2, <2>3 DEF IdInv, IntakeKnows, PostsKnow
<1>5. CASE ~(/\ idForm = [body |-> Unfilled, key |-> 1, stage |-> "editing", post |-> 0]
             /\ idReservations = [k \in RequestKeys |-> Unreserved]
             /\ idRecords = [k \in RequestKeys |-> NoRecord])
  <2> DEFINE body == CHOOSE b \in Bodies : TRUE
  <2>1. /\ idForm = [body |-> Unfilled, key |-> 1, stage |-> "closed", post |-> 0]
        /\ idReservations = [k \in RequestKeys |->
             IF k = 1 THEN [status |-> "COMPLETED", hash |-> body] ELSE Unreserved]
        /\ idRecords = [k \in RequestKeys |-> IF k = 1 THEN NewRecord(body) ELSE NoRecord]
    BY <1>5 DEF IdInit
  <2>2. body \in Bodies  BY IntakeAssumption
  <2>3. [status |-> "COMPLETED", hash |-> body] \in Reservations
    BY <2>2 DEF Reservations, Hashes
  <2> HIDE DEF body
  <2>4. ServerTypes  BY <2>1, <2>2, <2>3, BodiesTyped DEF ServerTypes, Hashes
  <2>5. RecordsKnow
    BY <2>1, <2>2, BodiesTyped DEF RecordsKnow, Unreserved, NoRecord, NewRecord,
          Absent, Private, Hashes
  <2>6. idForm \in IdForms /\ FormKnows
    BY <1>1, <2>1 DEF IdForms, FormKnows, FormStages, Hashes
  <2> QED  BY <1>2, <1>3, <2>4, <2>5, <2>6 DEF IdInv, IntakeKnows, PostsKnow
<1> QED  BY <1>4, <1>5

\* A request that moves on, on what is there by then.
LEMMA PostMoves ==
  ASSUME IntakeKnows, ServerTypes', RecordsKnow', RecordsForward,
         NEW n \in 1..Len(idPosts), NEW p \in Posts, idPosts' = [idPosts EXCEPT ![n] = p],
         PostKnows(p, idReservations', idRecords')
  PROVE  IntakeKnows'
<1>1. /\ idPosts' \in Seq(Posts) /\ Len(idPosts') = Len(idPosts)
      /\ \A m \in 1..Len(idPosts) : idPosts'[m] = IF m = n THEN p ELSE idPosts[m]
  BY ExceptSeq DEF IntakeKnows
<1>2. \A m \in 1..Len(idPosts) : idPosts[m] \in Posts  BY DEF IntakeKnows
<1>3. \A q \in Posts : PostKnows(q, idReservations, idRecords) =>
                         PostKnows(q, idReservations', idRecords')
  BY DEF PostKnows, RecordsForward, Posts, Reservations
<1>4. PostsKnow'
  BY <1>1, <1>2, <1>3 DEF IntakeKnows, PostsKnow
<1> QED  BY <1>1, <1>4 DEF IntakeKnows

\* A request that is answered, or gets further, on records that stay.
LEMMA PostStays ==
  ASSUME IntakeKnows, UNCHANGED idServer, NEW n \in 1..Len(idPosts), NEW p \in Posts,
         idPosts' = [idPosts EXCEPT ![n] = p], PostKnows(p, idReservations, idRecords)
  PROVE  IntakeKnows' /\ RecordsForward
<1>1. idReservations' = idReservations /\ idRecords' = idRecords  BY DEF idServer
<1>2. ServerTypes' /\ RecordsKnow' /\ RecordsForward
  BY <1>1 DEF IntakeKnows, ServerTypes, RecordsKnow, RecordsForward, Private
<1> QED  BY <1>1, <1>2, PostMoves

\* The reservation as the request found it.
LEMMA LooksInv ==
  ASSUME IntakeKnows, NEW n \in 1..Len(idPosts), LookUp(n) PROVE IntakeKnows' /\ RecordsForward
<1> DEFINE p == [idPosts[n] EXCEPT !.stage = "looked", !.found = idReservations[idPosts[n].key]]
<1>1. idPosts[n] \in Posts /\ PostKnows(idPosts[n], idReservations, idRecords)
  BY DEF IntakeKnows, PostsKnow
<1>2. idPosts[n].key \in RequestKeys /\ idReservations[idPosts[n].key] \in Reservations
  BY <1>1 DEF IntakeKnows, ServerTypes, Posts
<1>3. /\ p \in Posts /\ p.key = idPosts[n].key /\ p.body = idPosts[n].body /\ p.stage = "looked"
      /\ p.found = idReservations[p.key] /\ p.answer = idPosts[n].answer
  BY <1>1, <1>2 DEF Posts, PostStages
<1>4. idPosts' = [idPosts EXCEPT ![n] = p] /\ idPosts[n].stage = "sent" /\ UNCHANGED idServer
  BY <1>1 DEF LookUp, Posts, IntakeKnows
<1> HIDE DEF p
<1>5. PostKnows(p, idReservations, idRecords)
  BY <1>1, <1>2, <1>3, <1>4 DEF PostKnows, IntakeKnows, RecordsKnow
<1> QED  BY <1>3, <1>4, <1>5, PostStays

\* An answer that is no receipt, or one that the record bears out.
LEMMA PostAnswersInv ==
  ASSUME IntakeKnows, UNCHANGED idServer, NEW n \in 1..Len(idPosts),
         NEW answer \in {"received", "conflict", "error"}, AnswerPost(n, answer),
         answer = "received" => /\ idRecords[idPosts[n].key].status # Absent
                                /\ idRecords[idPosts[n].key].hash = idPosts[n].body
  PROVE  IntakeKnows' /\ RecordsForward
<1> DEFINE p == [idPosts[n] EXCEPT !.stage = "done", !.answer = answer]
<1>1. idPosts[n] \in Posts /\ PostKnows(idPosts[n], idReservations, idRecords)
  BY DEF IntakeKnows, PostsKnow
<1>2. /\ p \in Posts /\ p.key = idPosts[n].key /\ p.body = idPosts[n].body /\ p.stage = "done"
      /\ p.found = idPosts[n].found /\ p.answer = answer
  BY <1>1 DEF Posts, PostStages
<1>3. idPosts' = [idPosts EXCEPT ![n] = p]
  BY <1>1 DEF AnswerPost, Posts, IntakeKnows
<1> HIDE DEF p
<1>4. PostKnows(p, idReservations, idRecords)
  BY <1>1, <1>2 DEF PostKnows
<1> QED  BY <1>2, <1>3, <1>4, PostStays

\* What a post knows, said of the post itself.
LEMMA PostFacts ==
  ASSUME IntakeKnows, NEW n \in 1..Len(idPosts)
  PROVE  /\ idPosts[n] \in Posts /\ idPosts[n].key \in RequestKeys
         /\ PostKnows(idPosts[n], idReservations, idRecords)
         /\ idReservations[idPosts[n].key] \in Reservations
         /\ idRecords[idPosts[n].key] \in IntakeRecords
<1>1. idPosts[n] \in Posts /\ PostKnows(idPosts[n], idReservations, idRecords)
  BY DEF IntakeKnows, PostsKnow
<1>2. idPosts[n].key \in RequestKeys  BY <1>1 DEF Posts
<1> QED  BY <1>1, <1>2 DEF IntakeKnows, ServerTypes

\* The answers given from a reservation or from a record.
LEMMA RepliesInv ==
  ASSUME IntakeKnows, NEW n \in 1..Len(idPosts),
         \/ Replay(n) \/ ReserveBeaten(n) \/ AnswerFromRecord(n) \/ CrashPost(n)
  PROVE  IntakeKnows' /\ RecordsForward
<1> USE PostFacts
<1>1. ASSUME NEW found, AnswerFromKey(n, found),
             found.status = "COMPLETED" =>
               /\ idRecords[idPosts[n].key].status # Absent
               /\ idRecords[idPosts[n].key].hash = found.hash
      PROVE  IntakeKnows' /\ RecordsForward
  <2>1. \/ AnswerPost(n, "conflict")
        \/ /\ AnswerPost(n, "received") /\ found.hash = idPosts[n].body
           /\ found.status = "COMPLETED"
    BY <1>1 DEF AnswerFromKey, SameBody
  <2>2. UNCHANGED idServer  BY <1>1 DEF AnswerFromKey
  <2> QED  BY <1>1, <2>1, <2>2, PostAnswersInv
<1>2. CASE Replay(n)
  <2>1. AnswerFromKey(n, idPosts[n].found)  BY <1>2 DEF Replay
  <2>2. PICK found : found = idPosts[n].found  OBVIOUS
  <2> QED  BY <1>1, <2>1, <2>2 DEF PostKnows
<1>3. CASE ReserveBeaten(n)
  <2>1. PICK row : row = idReservations[idPosts[n].key]  OBVIOUS
  <2>2. \/ AnswerFromKey(n, row)
        \/ AnswerPost(n, "conflict") /\ UNCHANGED idServer
    BY <1>3, <2>1 DEF ReserveBeaten
  <2>3. row.status = "COMPLETED" =>
          idRecords[idPosts[n].key].status # Absent /\ idRecords[idPosts[n].key].hash = row.hash
    BY <2>1 DEF IntakeKnows, RecordsKnow
  <2> QED  BY <1>1, <2>2, <2>3, PostAnswersInv
<1>4. CASE AnswerFromRecord(n)
  <2>1. /\ UNCHANGED idServer /\ idRecords[idPosts[n].key].status # Absent
        /\ \/ AnswerPost(n, "received") /\ idRecords[idPosts[n].key].hash = idPosts[n].body
           \/ AnswerPost(n, "conflict")
    BY <1>4 DEF AnswerFromRecord, SameBody
  <2> QED  BY <2>1, PostAnswersInv
<1>5. CASE CrashPost(n)
  BY <1>5, PostAnswersInv DEF CrashPost
<1> QED  BY <1>2, <1>3, <1>4, <1>5

\* The reservation is taken, the first time or after a failure.
LEMMA ReservesInv ==
  ASSUME IntakeKnows, NEW n \in 1..Len(idPosts), TakeOver(n) \/ Reserve(n)
  PROVE  IntakeKnows' /\ RecordsForward
<1> USE PostFacts
<1> DEFINE p == [idPosts[n] EXCEPT !.stage = "reserved"]
           k == idPosts[n].key
           row == [status |-> "RESERVED", hash |-> idPosts[n].body]
<1>1. /\ p \in Posts /\ p.key = k /\ p.body = idPosts[n].body /\ p.stage = "reserved"
      /\ p.found = idPosts[n].found /\ p.answer = idPosts[n].answer /\ row \in Reservations
  BY DEF Posts, PostStages, Reservations
<1>2. idPosts[n].stage = "looked" /\ idRecords' = idRecords /\ idPosts' = [idPosts EXCEPT ![n] = p]
  BY DEF TakeOver, Reserve, Stage, Posts, IntakeKnows
<1>3. idReservations' = [idReservations EXCEPT ![k] = row]
  <2>1. CASE Reserve(n)  BY <2>1 DEF Reserve
  <2>2. CASE TakeOver(n)
    <3>1. idReservations' = [idReservations EXCEPT ![k].status = "RESERVED"]
      BY <2>2 DEF TakeOver
    <3>2. idReservations[k].hash = idPosts[n].body
      BY <2>2 DEF TakeOver, SameBody, PostKnows, Absent
    <3>3. [idReservations[k] EXCEPT !.status = "RESERVED"] = row
      BY <3>2 DEF Reservations
    <3> QED  BY <3>1, <3>3
  <2> QED  BY <2>1, <2>2
<1>4. idReservations[k].status # Absent => idReservations[k].hash = idPosts[n].body
  BY DEF TakeOver, Reserve, SameBody, PostKnows, Absent
<1>5. /\ k \in RequestKeys /\ p.answer = "none" /\ row.status = "RESERVED" /\ row.hash = p.body
      /\ p.found.status # Absent => p.found.hash = p.body
      /\ p.found.status = "COMPLETED" =>
           idRecords[k].status # Absent /\ idRecords[k].hash = p.found.hash
  <2>1. PostKnows(idPosts[n], idReservations, idRecords) /\ k \in RequestKeys
    OBVIOUS
  <2> QED  BY <1>1, <1>2, <1>4, <2>1 DEF PostKnows
<1>6. \A j \in RequestKeys : idReservations'[j] = IF j = k THEN row ELSE idReservations[j]
  BY <1>3, <1>5 DEF IntakeKnows, ServerTypes
<1> HIDE DEF p, row, k
<1>7. ServerTypes'
  BY <1>1, <1>2, <1>3, <1>5 DEF IntakeKnows, ServerTypes
<1>8. RecordsKnow' /\ RecordsForward
  BY <1>1, <1>2, <1>4, <1>5, <1>6 DEF IntakeKnows, RecordsKnow, RecordsForward, Private, Absent
<1>9. PostKnows(p, idReservations', idRecords')
  BY <1>1, <1>2, <1>5, <1>6 DEF PostKnows, Absent
<1> QED  BY <1>1, <1>2, <1>7, <1>8, <1>9, PostMoves

\* The record, and with it the completed reservation.
LEMMA CreatesInv ==
  ASSUME IntakeKnows, NEW n \in 1..Len(idPosts), CreateSubmission(n)
  PROVE  IntakeKnows' /\ RecordsForward
<1> USE PostFacts
<1> DEFINE p == [idPosts[n] EXCEPT !.stage = "done", !.answer = "received"]
           k == idPosts[n].key
           row == [idReservations[k] EXCEPT !.status = "COMPLETED"]
           record == NewRecord(idPosts[n].body)
<1>1. /\ p \in Posts /\ p.key = k /\ p.body = idPosts[n].body /\ p.stage = "done"
      /\ p.found = idPosts[n].found /\ p.answer = "received"
      /\ row \in Reservations /\ row.status = "COMPLETED" /\ row.hash = idReservations[k].hash
  BY ZenonT(60) DEF Posts, PostStages, Reservations
<1>2. record \in IntakeRecords /\ record.hash = p.body /\ record.status # Absent /\ ~Private(record)
  BY <1>1, BodiesTyped DEF Posts
<1>3. /\ idPosts' = [idPosts EXCEPT ![n] = p]
      /\ idReservations' = [idReservations EXCEPT ![k] = row]
      /\ idRecords' = [idRecords EXCEPT ![k] = record]
  BY DEF CreateSubmission, AnswerPost, Posts, IntakeKnows, ServerTypes
<1>4. /\ idRecords[k].status = Absent /\ ~Private(idRecords[k]) /\ k \in RequestKeys
      /\ idReservations[k].status # Absent /\ idReservations[k].hash = p.body
      /\ p.found.status # "COMPLETED"
  BY <1>1 DEF CreateSubmission, PostKnows, IntakeKnows, RecordsKnow
<1>5. \A j \in RequestKeys : /\ idReservations'[j] = IF j = k THEN row ELSE idReservations[j]
                             /\ idRecords'[j] = IF j = k THEN record ELSE idRecords[j]
  BY <1>3, <1>4 DEF IntakeKnows, ServerTypes
<1>6. p.found.status # Absent => idReservations[k].hash = p.found.hash
  BY <1>1 DEF PostKnows
<1> HIDE DEF p, row, k, record
<1>7. ServerTypes'
  BY <1>1, <1>2, <1>3, <1>4 DEF IntakeKnows, ServerTypes
<1>8. RecordsKnow' /\ RecordsForward
  BY <1>1, <1>2, <1>4, <1>5 DEF IntakeKnows, RecordsKnow, RecordsForward, Private, Absent
<1>9. PostKnows(p, idReservations', idRecords')
  BY <1>1, <1>2, <1>4, <1>5, <1>6 DEF PostKnows, Absent
<1> QED  BY <1>1, <1>3, <1>7, <1>8, <1>9, PostMoves

\* A request that failed: the reservation is marked, whatever it has become by then.
LEMMA FailuresInv ==
  ASSUME IntakeKnows, NEW n \in 1..Len(idPosts), FailPost(n) \/ MarkFailed(n)
  PROVE  IntakeKnows' /\ RecordsForward
<1> USE PostFacts
<1>1. CASE FailPost(n)
  <2> DEFINE p == [idPosts[n] EXCEPT !.stage = "failing"]
  <2>1. /\ p \in Posts /\ p.key = idPosts[n].key /\ p.body = idPosts[n].body /\ p.stage = "failing"
        /\ p.found = idPosts[n].found /\ p.answer = idPosts[n].answer
    BY DEF Posts, PostStages
  <2>2. /\ UNCHANGED idServer /\ idPosts[n].stage = "reserved"
        /\ idPosts' = [idPosts EXCEPT ![n] = p] \/ AnswerPost(n, "error")
    BY <1>1 DEF FailPost, Stage, Posts, IntakeKnows
  <2> HIDE DEF p
  <2>3. PostKnows(p, idReservations, idRecords)
    BY <2>1, <2>2 DEF PostKnows
  <2> QED  BY <2>1, <2>2, <2>3, PostStays, PostAnswersInv
<1>2. CASE MarkFailed(n)
  <2> DEFINE p == [idPosts[n] EXCEPT !.stage = "done", !.answer = "error"]
             k == idPosts[n].key
             row == [idReservations[k] EXCEPT !.status = "FAILED"]
  <2>1. /\ p \in Posts /\ p.key = k /\ p.body = idPosts[n].body /\ p.stage = "done"
        /\ p.found = idPosts[n].found /\ p.answer = "error"
        /\ row \in Reservations /\ row.status = "FAILED" /\ row.hash = idReservations[k].hash
    BY ZenonT(60) DEF Posts, PostStages, Reservations
  <2>2. /\ idPosts' = [idPosts EXCEPT ![n] = p] /\ idRecords' = idRecords
        /\ idReservations' = [idReservations EXCEPT ![k] = row]
    BY <1>2 DEF MarkFailed, AnswerPost, Posts, IntakeKnows, ServerTypes
  <2>3. /\ k \in RequestKeys
        /\ p.found.status # Absent =>
             idReservations[k].status # Absent /\ idReservations[k].hash = p.found.hash
        /\ p.found.status = "COMPLETED" =>
             idRecords[k].status # Absent /\ idRecords[k].hash = p.found.hash
    BY <2>1 DEF PostKnows
  <2>4. \A j \in RequestKeys : idReservations'[j] = IF j = k THEN row ELSE idReservations[j]
    BY <2>2, <2>3 DEF IntakeKnows, ServerTypes
  <2> HIDE DEF p, row, k
  <2>5. ServerTypes'
    BY <2>1, <2>2, <2>3 DEF IntakeKnows, ServerTypes
  <2>6. RecordsKnow' /\ RecordsForward
    BY <2>1, <2>2, <2>4 DEF IntakeKnows, RecordsKnow, RecordsForward, Private, Absent
  <2>7. PostKnows(p, idReservations', idRecords')
    BY <2>1, <2>2, <2>3, <2>4 DEF PostKnows, Absent
  <2> QED  BY <2>1, <2>2, <2>5, <2>6, <2>7, PostMoves
<1> QED  BY <1>1, <1>2

\* Every step of the handler.
LEMMA ServesInv ==
  ASSUME IntakeKnows, NEW n \in 1..Len(idPosts), ServePost(n)
  PROVE  IntakeKnows' /\ RecordsForward
  BY LooksInv, RepliesInv, ReservesInv, CreatesInv, FailuresInv DEF ServePost

\* A record that is there is changed: what is kept of it, and of one made private.
LEMMA RecordMoves ==
  ASSUME IntakeKnows, NEW k \in RequestKeys, NEW row \in IntakeRecords,
         idRecords' = [idRecords EXCEPT ![k] = row], UNCHANGED <<idPosts, idReservations>>,
         idRecords[k].status # Absent, row.status # Absent, row.hash = idRecords[k].hash,
         Private(idRecords[k]) => row.status = idRecords[k].status /\ row.withdrawn,
         row.anonymized => row.withdrawn /\ ~row.personal,
         idRecords[k].anonymized => row.anonymized
  PROVE  IntakeKnows' /\ RecordsForward
<1>1. \A j \in RequestKeys : idRecords'[j] = IF j = k THEN row ELSE idRecords[j]
  BY DEF IntakeKnows, ServerTypes
<1>2. ServerTypes'
  BY DEF IntakeKnows, ServerTypes
<1>3. RecordsKnow' /\ RecordsForward
  BY <1>1 DEF IntakeKnows, RecordsKnow, RecordsForward, Private
<1>4. \A q \in Posts : PostKnows(q, idReservations, idRecords) =>
                         PostKnows(q, idReservations', idRecords')
  BY <1>3 DEF PostKnows, RecordsForward, Posts, Reservations
<1>5. \A m \in 1..Len(idPosts) : idPosts[m] \in Posts  BY DEF IntakeKnows
<1>6. PostsKnow'  BY <1>4, <1>5 DEF IntakeKnows, PostsKnow
<1> QED  BY <1>2, <1>3, <1>6 DEF IntakeKnows

\* A review of a record that is not private.
LEMMA ReviewMoves ==
  ASSUME IntakeKnows, NEW k \in RequestKeys, NEW target, NEW owner \in Owners \cup {Nobody0},
         ~Private(idRecords[k]), target \in ReviewTable[idRecords[k].status],
         idRecords[k].status # Absent,
         idRecords' = [idRecords EXCEPT ![k].status = target, ![k].owner = owner,
                         ![k].notes = target \in {"QUALIFIED", "REJECTED", "CONVERTED"},
                         ![k].version = @ + 1],
         UNCHANGED <<idPosts, idReservations>>
  PROVE  IntakeKnows' /\ RecordsForward
<1> DEFINE row == [idRecords[k] EXCEPT !.status = target, !.owner = owner,
                     !.notes = target \in {"QUALIFIED", "REJECTED", "CONVERTED"},
                     !.version = @ + 1]
<1>1. idRecords[k] \in IntakeRecords /\ idRecords \in [RequestKeys -> IntakeRecords]
  BY DEF IntakeKnows, ServerTypes
<1>2. target \in ReviewStatuses
  BY <1>1 DEF ReviewTable, ReviewStatuses, IntakeRecords
<1>3. idRecords[k].version + 1 \in Nat  BY <1>1 DEF IntakeRecords
<1>4. row \in IntakeRecords
  BY <1>1, <1>2, <1>3 DEF IntakeRecords
<1>5. /\ row.status = target /\ row.hash = idRecords[k].hash
      /\ row.anonymized = idRecords[k].anonymized
      /\ idRecords' = [idRecords EXCEPT ![k] = row]
  BY <1>1 DEF IntakeRecords
<1>6. target # Absent  BY <1>2 DEF ReviewStatuses, Absent
<1> HIDE DEF row
<1> QED  BY <1>4, <1>5, <1>6, RecordMoves DEF Private

\* A record made private: what is left of it.
LEMMA RedactedFacts ==
  ASSUME NEW row \in IntakeRecords, NEW read \in IntakeRecords
  PROVE  /\ Redact(row, read) \in IntakeRecords
         /\ Redact(row, read).status = row.status /\ Redact(row, read).hash = row.hash
         /\ Redact(row, read).withdrawn /\ Redact(row, read).anonymized
         /\ ~Redact(row, read).personal
  BY ZenonT(60) DEF Redact, IntakeRecords

\* The record that is redacted keeps its status and its contents' hash.
LEMMA RedactMoves ==
  ASSUME IntakeKnows, NEW k \in RequestKeys, NEW read \in IntakeRecords,
         idRecords[k].status # Absent,
         \/ idRecords' = [idRecords EXCEPT ![k] = Redact(@, read)]
         \/ idRecords' = [idRecords EXCEPT ![k] = [Redact(@, read) EXCEPT !.deleted = TRUE]],
         UNCHANGED <<idPosts, idReservations>>
  PROVE  IntakeKnows' /\ RecordsForward
<1>1. idRecords[k] \in IntakeRecords /\ idRecords \in [RequestKeys -> IntakeRecords]
  BY DEF IntakeKnows, ServerTypes
<1>2. PICK red : red = Redact(idRecords[k], read)  OBVIOUS
<1>3. /\ red \in IntakeRecords /\ red.status = idRecords[k].status /\ red.hash = idRecords[k].hash
      /\ red.withdrawn /\ red.anonymized /\ ~red.personal
  BY <1>1, <1>2, RedactedFacts
<1>4. PICK row : /\ row = red \/ row = [red EXCEPT !.deleted = TRUE]
                 /\ idRecords' = [idRecords EXCEPT ![k] = row]
  BY <1>1, <1>2
<1>5. /\ row \in IntakeRecords /\ row.status = idRecords[k].status /\ row.hash = idRecords[k].hash
      /\ row.withdrawn /\ row.anonymized /\ ~row.personal
  BY <1>3, <1>4 DEF IntakeRecords
<1> QED  BY <1>4, <1>5, RecordMoves

\* What the server does not write stays as it knows it.
LEMMA ServerStays ==
  ASSUME IntakeKnows, UNCHANGED <<idPosts, idServer>> PROVE IntakeKnows' /\ RecordsForward
<1>1. idReservations' = idReservations /\ idRecords' = idRecords /\ idPosts' = idPosts
  BY DEF idServer
<1> QED
  BY <1>1 DEF IntakeKnows, ServerTypes, RecordsKnow, PostsKnow, PostKnows, RecordsForward, Private

\* A request keeps its key and its contents, and its answer once it has one.
LEMMA AnswersStay ==
  ASSUME IntakeKnows, NEW n \in 1..Len(idPosts), ServePost(n)
  PROVE  /\ Len(idPosts') = Len(idPosts)
         /\ \A m \in 1..Len(idPosts) :
              /\ idPosts'[m].key = idPosts[m].key
              /\ idPosts[m].answer = "received" => idPosts'[m].answer = "received"
<1>1. idPosts[n] \in Posts /\ (idPosts[n].answer # "none" => idPosts[n].stage = "done")
  BY PostFacts DEF PostKnows
<1>2. idPosts \in Seq(Posts)  BY DEF IntakeKnows
<1>3. PICK q : idPosts' = [idPosts EXCEPT ![n] = q] /\ q.key = idPosts[n].key
  <2>1. CASE LookUp(n)
    <3> DEFINE q == [idPosts[n] EXCEPT !.stage = "looked",
                                       !.found = idReservations[idPosts[n].key]]
    <3>1. q.key = idPosts[n].key  BY <1>1 DEF Posts
    <3>2. idPosts' = [idPosts EXCEPT ![n] = q]  BY <1>1, <1>2, <2>1 DEF LookUp, Posts
    <3> QED  BY <3>1, <3>2
  <2>2. CASE \E stage : Stage(n, stage)
    BY <1>1, <1>2, <2>2 DEF Stage, Posts
  <2>3. ASSUME NEW answer, AnswerPost(n, answer)
        PROVE  \E q : idPosts' = [idPosts EXCEPT ![n] = q] /\ q.key = idPosts[n].key
    <3> DEFINE q == [idPosts[n] EXCEPT !.stage = "done", !.answer = answer]
    <3>1. q.key = idPosts[n].key  BY <1>1 DEF Posts
    <3>2. idPosts' = [idPosts EXCEPT ![n] = q]  BY <1>1, <1>2, <2>3 DEF AnswerPost, Posts
    <3> QED  BY <3>1, <3>2
  <2> QED
    BY <2>1, <2>2, <2>3 DEF ServePost, Replay, TakeOver, Reserve, ReserveBeaten, AnswerFromKey,
          AnswerFromRecord, CreateSubmission, FailPost, MarkFailed, CrashPost
<1>4. idPosts[n].stage # "done"
  BY DEF ServePost, LookUp, Replay, TakeOver, Reserve, ReserveBeaten, AnswerFromKey,
         AnswerFromRecord, CreateSubmission, FailPost, MarkFailed, CrashPost
<1>5. Len(idPosts') = Len(idPosts)
  BY <1>2, <1>3, LenProperties
<1>6. \A m \in 1..Len(idPosts) : idPosts'[m] = IF m = n THEN q ELSE idPosts[m]
  BY <1>2, <1>3, LenProperties
<1> QED  BY <1>1, <1>3, <1>4, <1>5, <1>6

\* The form's own steps.
LEMMA FormSteps ==
  ASSUME IdInv, IdFormSteps
  PROVE  IntakeKnows' /\ RecordsForward /\ idForm' \in IdForms /\ FormKnows' /\ PageKnowsRecord'
<1>0. IntakeKnows /\ idForm \in IdForms /\ FormKnows /\ PageKnowsRecord /\ Len(idPosts) \in Nat
  BY LenProperties DEF IdInv, IntakeKnows
<1>1. idPage' = idPage /\ UNCHANGED idServer
  BY DEF IdFormSteps, FillIn, SubmitForm, ReadAnswer, AbortSubmit, NewRequest
<1>2. PageKnowsRecord'  BY <1>0, <1>1 DEF PageKnowsRecord, idServer
<1>3. CASE SubmitForm
  <2> DEFINE p == [key |-> idForm.key, body |-> idForm.body, stage |-> "sent",
                   found |-> Unreserved, answer |-> "none"]
  <2>1. p \in Posts
    BY <1>0, BodiesTyped DEF Posts, PostStages, IdForms
  <2>2. idPosts \in Seq(Posts) /\ idPosts' = Append(idPosts, p)
    BY <1>0, <1>3 DEF SubmitForm, IntakeKnows
  <2>3. PostKnows(p, idReservations, idRecords)
    BY DEF PostKnows, Unreserved, Absent
  <2>4. p.key = idForm.key  OBVIOUS
  <2> HIDE DEF p
  <2>5. /\ idPosts' \in Seq(Posts) /\ Len(idPosts') = Len(idPosts) + 1
        /\ \A m \in 1..Len(idPosts) : idPosts'[m] = idPosts[m]
        /\ idPosts'[Len(idPosts) + 1] = p
    BY <2>1, <2>2, AppendProperties
  <2>6. \A m \in 1..(Len(idPosts) + 1) : m \in 1..Len(idPosts) \/ m = Len(idPosts) + 1
    BY <1>0
  <2>7. idReservations' = idReservations /\ idRecords' = idRecords  BY <1>1 DEF idServer
  <2>8. PostsKnow'
    BY <1>0, <2>3, <2>5, <2>6, <2>7 DEF PostsKnow, IntakeKnows
  <2>9. ServerTypes' /\ RecordsKnow' /\ RecordsForward
    BY <1>0, <2>7 DEF IntakeKnows, ServerTypes, RecordsKnow, RecordsForward, Private
  <2>10. Len(idPosts) + 1 \in Nat /\ Len(idPosts) + 1 \in 1..(Len(idPosts) + 1)  BY <1>0
  <2>11. idForm' = [idForm EXCEPT !.stage = "posting", !.post = Len(idPosts) + 1]
    BY <1>3 DEF SubmitForm
  <2>12. idForm' \in IdForms /\ FormKnows'
    BY <1>0, <2>4, <2>5, <2>10, <2>11 DEF IdForms, FormKnows, FormStages
  <2> QED  BY <1>2, <2>5, <2>8, <2>9, <2>12 DEF IntakeKnows
<1>4. CASE ~SubmitForm
  <2>1. idPosts' = idPosts
    BY <1>4 DEF IdFormSteps, FillIn, ReadAnswer, AbortSubmit, NewRequest
  <2>2. IntakeKnows' /\ RecordsForward  BY <1>0, <1>1, <2>1, ServerStays
  <2> SUFFICES idForm' \in IdForms /\ FormKnows'  BY <1>2, <2>2
  <2>3. CASE \E body \in Bodies : FillIn(body)
    BY <1>0, <2>1, <2>3 DEF FillIn, IdForms, FormKnows, Hashes
  <2>4. CASE ReadAnswer
    BY <1>0, <2>1, <2>4 DEF ReadAnswer, IdForms, FormKnows, FormStages
  <2>5. CASE AbortSubmit
    BY <1>0, <2>1, <2>5 DEF AbortSubmit, IdForms, FormKnows, FormStages
  <2>6. CASE NewRequest
    <3>1. idForm.key + 1 \in RequestKeys
      BY <1>0, <2>6, IntakeAssumption DEF NewRequest, IdForms, RequestKeys
    <3> QED  BY <2>6, <3>1 DEF NewRequest, IdForms, FormKnows, FormStages, Hashes
  <2> QED  BY <1>4, <2>3, <2>4, <2>5, <2>6 DEF IdFormSteps
<1> QED  BY <1>3, <1>4

\* The page: its reads, and the two mutations it has under way.
LEMMA ReviewPageSteps ==
  ASSUME PageKnowsRecord, ServerTypes,
         \/ \E k \in RequestKeys : OpenRecord(k)
         \/ \E target \in DOMAIN ReviewTable, owner \in Owners \cup {Nobody0} :
              SaveReview(target, owner)
         \/ ReviewAnswered \/ ReviewRefused
         \/ \E op \in {"withdraw", "anonymize"} : PressPrivacy(op)
         \/ ReadForPrivacy \/ PrivacyAnswered
  PROVE  PageKnowsRecord'
<1>1. idRecords' = idRecords
  BY DEF OpenRecord, SaveReview, ReviewAnswered, ReviewRefused, PressPrivacy, ReadForPrivacy,
         PrivacyAnswered, idServer
<1>2. idPage.key # 0 => idPage.key \in RequestKeys /\ idRecords[idPage.key] \in IntakeRecords
  BY DEF PageKnowsRecord, IntakePages, ServerTypes
<1>3. 0 \notin RequestKeys  BY DEF RequestKeys
<1>4. NoReview.stage = "none" /\ NoPrivacy.stage = "none"  BY DEF NoReview, NoPrivacy
<1>5. /\ NoReview \in [stage : {"none", "sent", "done"}, target : ReviewStatuses \cup {Absent},
                       owner : Owners \cup {Nobody0}, expected : Nat]
      /\ NoPrivacy \in [stage : {"none", "sent", "read", "done"}, op : PrivacyOps,
                        read : IntakeRecords]
  BY BodiesTyped DEF NoReview, NoPrivacy, PrivacyOps
<1>6. ASSUME NEW k \in RequestKeys, OpenRecord(k) PROVE PageKnowsRecord'
  <2>1. idRecords[k] \in IntakeRecords  BY DEF ServerTypes
  <2>2. idRecords[k].status # Absent /\ idPage' = [idPage EXCEPT !.key = k, !.shown = idRecords[k]]
    BY <1>6 DEF OpenRecord, Fetched
  <2> QED  BY <1>1, <1>3, <2>1, <2>2 DEF PageKnowsRecord, IntakePages
<1>7. ASSUME NEW target \in DOMAIN ReviewTable, NEW owner \in Owners \cup {Nobody0},
             SaveReview(target, owner)
      PROVE  PageKnowsRecord'
  <2>1. target \in ReviewStatuses  BY DEF ReviewTable, ReviewStatuses
  <2>2. idPage.shown.version \in Nat  BY DEF PageKnowsRecord, IntakePages, IntakeRecords
  <2>3. idPage.shown.status # Absent  BY <1>7 DEF SaveReview, OfferedReviews
  <2> QED  BY <1>1, <1>7, <2>1, <2>2, <2>3 DEF PageKnowsRecord, IntakePages, SaveReview
<1>8. CASE ReviewAnswered
  <2>1. idPage.key # 0  BY <1>8 DEF ReviewAnswered, PageKnowsRecord
  <2>2. idPage' = [[idPage EXCEPT !.key = idPage.key, !.shown = idRecords[idPage.key]]
                     EXCEPT !.review = NoReview]
    BY <1>8 DEF ReviewAnswered, Fetched
  <2> QED  BY <1>1, <1>2, <1>5, <2>1, <2>2 DEF PageKnowsRecord, IntakePages
<1>9. CASE ReviewRefused
  BY <1>1, <1>4, <1>5, <1>9 DEF PageKnowsRecord, IntakePages, ReviewRefused
<1>10. ASSUME NEW op \in {"withdraw", "anonymize"}, PressPrivacy(op) PROVE PageKnowsRecord'
  BY <1>1, <1>10, BodiesTyped DEF PageKnowsRecord, IntakePages, PressPrivacy, PrivacyOps
<1>11. CASE ReadForPrivacy
  <2>1. idPage.key # 0  BY <1>11 DEF ReadForPrivacy, PageKnowsRecord
  <2> QED  BY <1>1, <1>2, <1>11, <2>1 DEF PageKnowsRecord, IntakePages, ReadForPrivacy
<1>12. CASE PrivacyAnswered
  <2>1. idPage.key # 0  BY <1>12 DEF PrivacyAnswered, PageKnowsRecord
  <2>2. idPage' = [[idPage EXCEPT !.key = idPage.key, !.shown = idRecords[idPage.key]]
                     EXCEPT !.privacy = NoPrivacy]
    BY <1>12 DEF PrivacyAnswered, Fetched
  <2> QED  BY <1>1, <1>2, <1>5, <2>1, <2>2 DEF PageKnowsRecord, IntakePages
<1> QED  BY <1>6, <1>7, <1>8, <1>9, <1>10, <1>11, <1>12

\* The steps on records: a review, a privacy action, the sweep.
LEMMA RecordSteps ==
  ASSUME IntakeKnows, PageKnowsRecord,
         \/ ServeReview \/ WritePrivacy
         \/ \E k \in RequestKeys, target \in DOMAIN ReviewTable, owner \in Owners \cup {Nobody0} :
              ReviewElsewhere(k, target, owner)
         \/ \E k \in RequestKeys : DeleteRecord(k) \/ SweepRecord(k)
  PROVE  IntakeKnows' /\ RecordsForward /\ PageKnowsRecord'
<1>1. \A k \in RequestKeys : idRecords[k] \in IntakeRecords
  BY DEF IntakeKnows, ServerTypes
<1>2. idPage.key # 0 => idPage.key \in RequestKeys  BY DEF PageKnowsRecord, IntakePages
<1>3. ASSUME ServeReview PROVE IntakeKnows' /\ RecordsForward
  <2>1. idPage.key \in RequestKeys  BY <1>2, <1>3 DEF ServeReview, PageKnowsRecord
  <2>2. idPage.review.owner \in Owners \cup {Nobody0}  BY DEF PageKnowsRecord, IntakePages
  <2>3. idRecords[idPage.key].status # Absent  BY <2>1 DEF PageKnowsRecord, RequestKeys
  <2>4. PICK k, target, owner : /\ k = idPage.key /\ target = idPage.review.target
                                /\ owner = idPage.review.owner
    OBVIOUS
  <2>5. /\ ~Private(idRecords[k]) /\ target \in ReviewTable[idRecords[k].status]
        /\ idRecords' = [idRecords EXCEPT ![k].status = target, ![k].owner = owner,
                           ![k].notes = target \in {"QUALIFIED", "REJECTED", "CONVERTED"},
                           ![k].version = @ + 1]
        /\ UNCHANGED <<idPosts, idReservations>>
    BY <1>3, <2>4 DEF ServeReview
  <2> QED  BY <2>1, <2>2, <2>3, <2>4, <2>5, ReviewMoves
<1>4. ASSUME NEW k \in RequestKeys, NEW target \in DOMAIN ReviewTable,
             NEW owner \in Owners \cup {Nobody0}, ReviewElsewhere(k, target, owner)
      PROVE  IntakeKnows' /\ RecordsForward
  <2>1. /\ ~Private(idRecords[k]) /\ target \in ReviewTable[idRecords[k].status]
        /\ idRecords[k].status # Absent
    BY <1>4 DEF ReviewElsewhere, OfferedReviews
  <2> QED  BY <1>4, <2>1, ReviewMoves DEF ReviewElsewhere
<1>5. ASSUME WritePrivacy PROVE IntakeKnows' /\ RecordsForward
  <2>1. idPage.key \in RequestKeys  BY <1>2, <1>5 DEF WritePrivacy, PageKnowsRecord
  <2>2. PICK k, read : k = idPage.key /\ read = idPage.privacy.read  OBVIOUS
  <2>3. /\ k \in RequestKeys /\ read \in IntakeRecords /\ idRecords[k].status # Absent
        /\ idRecords[k] \in IntakeRecords /\ UNCHANGED <<idPosts, idReservations>>
    BY <1>1, <1>5, <2>1, <2>2 DEF PageKnowsRecord, IntakePages, RequestKeys, WritePrivacy
  <2>4. CASE idPage.privacy.op = "withdraw"
    <3> DEFINE row == [idRecords[k] EXCEPT !.withdrawn = TRUE]
    <3>1. /\ row \in IntakeRecords /\ row.status = idRecords[k].status /\ row.withdrawn
          /\ row.hash = idRecords[k].hash /\ row.anonymized = idRecords[k].anonymized
          /\ row.personal = idRecords[k].personal
      BY <2>3 DEF IntakeRecords
    <3>2. idRecords' = [idRecords EXCEPT ![k] = row]
      BY <1>5, <2>2, <2>3, <2>4 DEF WritePrivacy, IntakeKnows, ServerTypes
    <3>3. row.anonymized => ~row.personal  BY <2>3, <3>1 DEF IntakeKnows, RecordsKnow
    <3> HIDE DEF row
    <3> QED  BY <2>3, <3>1, <3>2, <3>3, RecordMoves
  <2>5. CASE idPage.privacy.op # "withdraw"
    <3>1. idRecords' = [idRecords EXCEPT ![k] = Redact(@, read)]
      BY <1>5, <2>2, <2>5 DEF WritePrivacy
    <3> QED  BY <2>3, <3>1, RedactMoves
  <2> QED  BY <2>4, <2>5
<1>6. ASSUME NEW k \in RequestKeys, DeleteRecord(k) \/ SweepRecord(k)
      PROVE  IntakeKnows' /\ RecordsForward
  <2>1. PICK read \in IntakeRecords : read = idRecords[k]  BY <1>1
  <2>2. /\ idRecords[k].status # Absent /\ UNCHANGED <<idPosts, idReservations>>
        /\ \/ idRecords' = [idRecords EXCEPT ![k] = Redact(@, read)]
           \/ idRecords' = [idRecords EXCEPT ![k] = [Redact(@, read) EXCEPT !.deleted = TRUE]]
    BY <1>6, <2>1 DEF DeleteRecord, SweepRecord, IntakeKnows, ServerTypes
  <2> QED  BY <2>1, <2>2, RedactMoves
<1>7. IntakeKnows' /\ RecordsForward  BY <1>3, <1>4, <1>5, <1>6
<1>8. /\ idPage'.key = idPage.key /\ idPage'.shown = idPage.shown
      /\ idPage' \in IntakePages
      /\ idPage.key = 0 => idPage'.review.stage = "none" /\ idPage'.privacy.stage = "none"
  <2>1. CASE ServeReview
    BY <2>1 DEF ServeReview, PageKnowsRecord, IntakePages
  <2>2. CASE WritePrivacy
    BY <2>2 DEF WritePrivacy, PageKnowsRecord, IntakePages
  <2>3. CASE idPage' = idPage
    BY <2>3 DEF PageKnowsRecord
  <2>4. ASSUME NEW k, NEW target, NEW owner, ReviewElsewhere(k, target, owner)
        PROVE  idPage' = idPage
    BY <2>4 DEF ReviewElsewhere
  <2>5. ASSUME NEW k, DeleteRecord(k) \/ SweepRecord(k) PROVE idPage' = idPage
    BY <2>5 DEF DeleteRecord, SweepRecord
  <2> QED  BY <2>1, <2>2, <2>3, <2>4, <2>5
<1> QED  BY <1>2, <1>7, <1>8 DEF PageKnowsRecord, RecordsForward

\* The invariant, and with it that nothing there is undone.
LEMMA NextIdInv ==
  ASSUME IdInv, [IdNext]_idVars PROVE IdInv' /\ RecordsForward
<1>0. /\ IntakeKnows /\ idForm \in IdForms /\ FormKnows /\ PageKnowsRecord /\ ServerTypes
  BY DEF IdInv, IntakeKnows
<1>1. CASE IdFormSteps  BY <1>1, FormSteps DEF IdInv
<1>2. ASSUME NEW n \in 1..Len(idPosts), ServePost(n) PROVE IdInv' /\ RecordsForward
  <2>1. IntakeKnows' /\ RecordsForward  BY <1>0, <1>2, ServesInv
  <2>2. idForm' = idForm /\ idPage' = idPage
    BY <1>2 DEF ServePost, LookUp, Replay, TakeOver, Reserve, ReserveBeaten, AnswerFromKey,
          AnswerFromRecord, CreateSubmission, FailPost, MarkFailed, CrashPost
  <2>3. FormKnows'  BY <1>0, <1>2, <2>2, AnswersStay DEF FormKnows
  <2>4. PageKnowsRecord'  BY <1>0, <2>1, <2>2 DEF PageKnowsRecord, IntakePages, RecordsForward
  <2> QED  BY <1>0, <2>1, <2>2, <2>3, <2>4 DEF IdInv
<1>3. CASE IdReviewSteps \/ IdPrivacySteps
  <2>1. idForm' = idForm /\ idPosts' = idPosts
    BY ZenonT(60), <1>3 DEF IdReviewSteps, IdPrivacySteps, OpenRecord, SaveReview, ServeReview,
          ReviewAnswered, ReviewRefused, ReviewElsewhere, PressPrivacy, ReadForPrivacy,
          WritePrivacy, PrivacyAnswered, DeleteRecord, SweepRecord
  <2>2. IntakeKnows' /\ RecordsForward /\ PageKnowsRecord'
    <3>1. CASE UNCHANGED idServer
      <4>1. \/ \E k \in RequestKeys : OpenRecord(k)
            \/ \E target \in DOMAIN ReviewTable, owner \in Owners \cup {Nobody0} :
                 SaveReview(target, owner)
            \/ ReviewAnswered \/ ReviewRefused
            \/ \E op \in {"withdraw", "anonymize"} : PressPrivacy(op)
            \/ ReadForPrivacy \/ PrivacyAnswered
            \/ ServeReview \/ WritePrivacy
            \/ \E k \in RequestKeys, target \in DOMAIN ReviewTable,
                  owner \in Owners \cup {Nobody0} :
                 ReviewElsewhere(k, target, owner)
            \/ \E k \in RequestKeys : DeleteRecord(k) \/ SweepRecord(k)
        BY <1>3 DEF IdReviewSteps, IdPrivacySteps
      <4> QED  BY <1>0, <2>1, <3>1, <4>1, ServerStays, ReviewPageSteps, RecordSteps
    <3>2. CASE ~UNCHANGED idServer
      <4>1. \/ ServeReview \/ WritePrivacy
            \/ \E k \in RequestKeys, target \in DOMAIN ReviewTable,
                  owner \in Owners \cup {Nobody0} :
                 ReviewElsewhere(k, target, owner)
            \/ \E k \in RequestKeys : DeleteRecord(k) \/ SweepRecord(k)
        BY <1>3, <3>2 DEF IdReviewSteps, IdPrivacySteps, OpenRecord, SaveReview,
              ReviewAnswered, ReviewRefused, PressPrivacy, ReadForPrivacy, PrivacyAnswered
      <4> QED  BY <1>0, <4>1, RecordSteps
    <3> QED  BY <3>1, <3>2
  <2> QED  BY <1>0, <2>1, <2>2 DEF IdInv, FormKnows
<1>4. CASE UNCHANGED idVars
  <2>1. UNCHANGED <<idPosts, idServer>> /\ idForm' = idForm /\ idPage' = idPage
        /\ idPosts' = idPosts /\ idRecords' = idRecords
    BY <1>4 DEF idVars, idServer
  <2> QED  BY <1>0, <2>1, ServerStays DEF IdInv, FormKnows, PageKnowsRecord
<1> QED  BY <1>1, <1>2, <1>3, <1>4 DEF IdNext

\* "Received" is true: the record of the key holds what the request said.
THEOREM ReceivedIsTrue == IdSpec => []ReceivedIsStored
<1>1. IdInit => IdInv  BY InitIdInv
<1>2. IdInv /\ [IdNext]_idVars => IdInv'  BY NextIdInv
<1>3. IdInv => ReceivedIsStored
  <2> SUFFICES ASSUME IdInv PROVE ReceivedIsStored  OBVIOUS
  <2>1. ASSUME idForm.stage = "received"
        PROVE  /\ idRecords[idForm.key].status # Absent
               /\ idRecords[idForm.key].hash = idPosts[idForm.post].body
    <3>1. /\ idForm.post \in 1..Len(idPosts) /\ idPosts[idForm.post].key = idForm.key
          /\ idPosts[idForm.post].answer = "received"
      BY <2>1 DEF IdInv, FormKnows
    <3> QED  BY <3>1 DEF IdInv, IntakeKnows, PostsKnow, PostKnows
  <2> QED  BY <2>1 DEF ReceivedIsStored, IdInv, IntakeKnows, RecordsKnow
<1> QED  BY <1>1, <1>2, <1>3, PTL DEF IdSpec

\* A record made private stays so, whatever was under way.
THEOREM PrivacyStaysTerminal == IdSpec => PrivacyIsTerminal
<1>1. IdInit => IdInv  BY InitIdInv
<1>2. IdInv /\ [IdNext]_idVars => IdInv'  BY NextIdInv
<1>3. IdInv /\ [IdNext]_idVars =>
        [\A k \in RequestKeys :
           Private(idRecords[k]) =>
             /\ idRecords'[k].status = idRecords[k].status
             /\ idRecords'[k].withdrawn
             /\ idRecords[k].anonymized =>
                  idRecords'[k].anonymized /\ ~idRecords'[k].personal]_idVars
  BY NextIdInv DEF RecordsForward
<1> QED  BY <1>1, <1>2, <1>3, PTL DEF IdSpec, PrivacyIsTerminal

----------------------------------------------------------------------------
(* Records, notifications and exports. *)

Exports == [id : Nat, cohort : Nat]
Servers ==
  [notices : SUBSET Notices, off : SUBSET Optional, dead : SUBSET Jobs, exports : SUBSET Exports,
   cohort : {MinCohort - 1, MinCohort}]
NoticeCalls == [op : {"read"}, of : Notices, served : BOOLEAN, heard : BOOLEAN]
PreferenceCalls == [op : {"on", "off"}, of : Optional, served : BOOLEAN, heard : BOOLEAN]
RecoverCalls == [op : {"recover"}, of : Jobs, served : BOOLEAN, heard : BOOLEAN]
ExportsAsked ==
  [op : {"export"}, of : Pages, served : {FALSE}, heard : BOOLEAN, cohort : Nat]
ExportsTaken == [op : {"export"}, of : Pages, served : {TRUE}, heard : BOOLEAN, id : Nat]
WriteCalls == NoticeCalls \cup PreferenceCalls \cup RecoverCalls \cup ExportsAsked \cup ExportsTaken

\* A write the API has carried out is known for one; an export that was let through was
\* let through on a large enough cohort.
CallTrue(call, notices, done) ==
  /\ call.served /\ call.op = "read" => call.of \in notices
  /\ call.served /\ call.op \in {"recover", "export"} => <<call.op, call.of>> \in done
  /\ call.op = "export" /\ ~call.served /\ call.cohort > 0 => call.cohort >= MinCohort

\* What a query stored or is about to store of notices, categories and figures.
EntryTrue(k, entry, notices) ==
  /\ k = "notices" /\ entry.shape = "wrapped" => entry.value \subseteq notices
  /\ k = "off" /\ entry.shape = "wrapped" => entry.value \subseteq Optional
  /\ k = "metrics" /\ entry.shape = "raw" /\ ~entry.value.suppressed =>
       entry.value.cohort >= MinCohort

ServerTrue ==
  /\ rdServer \in Servers /\ IsFiniteSet(rdServer.exports)
  /\ \A e \in rdServer.exports : e.cohort >= MinCohort
EntriesTrue ==
  /\ rdCache = [k \in Keys |-> rdCache[k]] /\ rdFlight = [k \in Keys |-> rdFlight[k]]
  /\ \A k \in Keys : /\ EntryTrue(k, rdCache[k], rdServer.notices)
                     /\ EntryTrue(k, rdFlight[k], rdServer.notices)
CallsTrue ==
  \A call \in rdCalls : call \in WriteCalls /\ CallTrue(call, rdServer.notices, rdNotice.done)
NoticeTrue ==
  /\ rdNotice = [says |-> rdNotice.says, done |-> rdNotice.done]
  /\ rdNotice.says \in {<<"nothing">>, <<"error">>} \cup rdNotice.done
CsvTrue == rdCsv.source = "report" => rdCsv.cohort >= MinCohort
RdInv == ServerTrue /\ EntriesTrue /\ CallsTrue /\ NoticeTrue /\ CsvTrue

\* Nothing read, shown or under way.
LEMMA InitRdInv == RdInit => RdInv
<1> SUFFICES ASSUME RdInit PROVE RdInv  OBVIOUS
<1>1. ServerTrue
  <2>1. rdServer.exports = {} /\ rdServer \in Servers
    BY RecordsAssumption DEF RdInit, Servers
  <2> QED  BY <2>1, FS_EmptySet DEF ServerTrue
<1>2. EntriesTrue  BY DEF RdInit, EntriesTrue, EntryTrue, Missing
<1> QED  BY <1>1, <1>2 DEF RdInit, RdInv, CallsTrue, NoticeTrue, CsvTrue

\* What the API answers to a query is true as long as it only learns.
LEMMA AnswersTrueEntries ==
  ASSUME ServerTrue, NEW k \in Keys, NEW shape \in {"raw", "wrapped"}
  PROVE  EntryTrue(k, [shape |-> shape, value |-> Answer(k)], rdServer.notices)
<1>1. CASE k = "notices"  BY <1>1 DEF EntryTrue, Answer
<1>2. CASE k = "off"  BY <1>2 DEF EntryTrue, Answer, ServerTrue, Servers
<1>3. CASE k = "metrics"
  <2>1. rdServer.cohort \in Nat  BY RecordsAssumption DEF ServerTrue, Servers
  <2>2. PICK value : value = Answer(k)  OBVIOUS
  <2>3. (value.suppressed <=> rdServer.cohort < MinCohort) /\ value.cohort = rdServer.cohort
    BY <1>3, <2>2 DEF Answer, Metrics, Suppressed
  <2>4. ~value.suppressed => value.cohort >= MinCohort  BY <2>1, <2>3, RecordsAssumption
  <2> QED  BY <1>3, <2>2, <2>4 DEF EntryTrue
<1> QED  BY <1>1, <1>2, <1>3 DEF EntryTrue

\* A query is sent, or its answer arrives.
LEMMA QueriesInv ==
  ASSUME RdInv, NEW k \in Keys,
         \/ Arrives(k)
         \/ \E shape \in {"raw", "wrapped"} : Query(k, shape) \/ QueryAgain(k, shape)
  PROVE  RdInv'
<1>1. rdServer' = rdServer /\ rdCalls' = rdCalls /\ rdNotice' = rdNotice /\ rdCsv' = rdCsv
  BY DEF Arrives, Query, QueryAgain
<1>2. ServerTrue /\ EntriesTrue  BY DEF RdInv
<1>3. EntriesTrue'
  <2>1. CASE Arrives(k)
    BY <1>1, <1>2, <2>1 DEF Arrives, EntriesTrue, EntryTrue, Missing
  <2>2. ASSUME NEW shape \in {"raw", "wrapped"}, Query(k, shape) \/ QueryAgain(k, shape)
        PROVE  EntriesTrue'
    <3>1. PICK entry : entry = [shape |-> shape, value |-> Answer(k)]  OBVIOUS
    <3>2. EntryTrue(k, entry, rdServer.notices)  BY <1>2, <3>1, AnswersTrueEntries
    <3>3. rdFlight' = [rdFlight EXCEPT ![k] = entry] /\ rdCache' = rdCache
      BY <2>2, <3>1 DEF Query, QueryAgain
    <3> QED  BY <1>1, <1>2, <3>2, <3>3 DEF EntriesTrue
  <2> QED  BY <2>1, <2>2
<1> QED  BY <1>1, <1>3 DEF RdInv, ServerTrue, CallsTrue, NoticeTrue, CsvTrue

\* Another page: the answers to come are no longer heard.
LEMMA VisitsInv == ASSUME RdInv, NEW page \in Pages, Visit(page) PROVE RdInv'
<1>1. /\ rdServer' = rdServer /\ rdCache' = rdCache /\ rdFlight' = rdFlight /\ rdCsv' = rdCsv
      /\ rdNotice' = [rdNotice EXCEPT !.says = <<"nothing">>]
      /\ rdCalls' = {[call EXCEPT !.heard = FALSE] : call \in rdCalls}
  BY DEF Visit
<1>2. rdNotice'.done = rdNotice.done /\ NoticeTrue'
  BY <1>1 DEF RdInv, NoticeTrue
<1>3. ASSUME NEW call \in rdCalls
      PROVE  /\ [call EXCEPT !.heard = FALSE] \in WriteCalls
             /\ CallTrue([call EXCEPT !.heard = FALSE], rdServer.notices, rdNotice.done)
  <2>1. call \in WriteCalls /\ CallTrue(call, rdServer.notices, rdNotice.done)
    BY DEF RdInv, CallsTrue
  <2>2. PICK quiet : quiet = [call EXCEPT !.heard = FALSE]  OBVIOUS
  <2>3. CASE call \in NoticeCalls \cup PreferenceCalls \cup RecoverCalls
    BY <2>1, <2>2, <2>3 DEF WriteCalls, NoticeCalls, PreferenceCalls, RecoverCalls, CallTrue
  <2>4. CASE call \in ExportsAsked
    BY <2>1, <2>2, <2>4 DEF WriteCalls, ExportsAsked, CallTrue
  <2>5. CASE call \in ExportsTaken
    BY <2>1, <2>2, <2>5 DEF WriteCalls, ExportsTaken, CallTrue
  <2> QED  BY <2>1, <2>3, <2>4, <2>5 DEF WriteCalls
<1>4. CallsTrue'  BY <1>1, <1>2, <1>3 DEF CallsTrue
<1> QED  BY <1>1, <1>2, <1>4 DEF RdInv, ServerTrue, EntriesTrue, CsvTrue

\* A call goes out that has not been served.
LEMMA DispatchesInv ==
  ASSUME RdInv, NEW call \in WriteCalls, Dispatch(call), ~call.served,
         call.op = "export" => call.cohort = 0,
         \/ UNCHANGED rdNotice
         \/ rdNotice' = [rdNotice EXCEPT !.says = <<"nothing">>],
         UNCHANGED <<rdServer, rdCache, rdFlight, rdCsv>>
  PROVE  RdInv'
<1>1. rdNotice'.done = rdNotice.done /\ NoticeTrue'
  BY DEF RdInv, NoticeTrue
<1>2. CallTrue(call, rdServer.notices, rdNotice.done)  BY DEF CallTrue
<1>3. CallsTrue'  BY <1>1, <1>2 DEF RdInv, CallsTrue, Dispatch
<1> QED  BY <1>1, <1>3 DEF RdInv, ServerTrue, EntriesTrue, CsvTrue

\* What is pressed.
LEMMA PressesInv ==
  ASSUME RdInv,
         \/ \E n \in Notices : PressRead(n)
         \/ \E c \in Optional \cup Required : PressToggle(c)
         \/ \E j \in Jobs : PressRecover(j)
         \/ PressExport
  PROVE  RdInv'
<1>1. ASSUME NEW n \in Notices, PressRead(n) PROVE RdInv'
  <2>1. PICK call : call = [op |-> "read", of |-> n, served |-> FALSE, heard |-> TRUE]  OBVIOUS
  <2> QED  BY <1>1, <2>1, DispatchesInv DEF PressRead, WriteCalls, NoticeCalls
<1>2. ASSUME NEW c \in Optional \cup Required, PressToggle(c) PROVE RdInv'
  <2>1. PICK op \in {"on", "off"} : op = IF c \in rdCache["off"].value THEN "on" ELSE "off"
    OBVIOUS
  <2>2. PICK call : call = [op |-> op, of |-> c, served |-> FALSE, heard |-> TRUE]  OBVIOUS
  <2>3. call \in PreferenceCalls /\ Dispatch(call)
    BY <1>2, <2>1, <2>2 DEF PressToggle, PreferenceCalls
  <2>4. \/ UNCHANGED rdNotice \/ rdNotice' = [rdNotice EXCEPT !.says = <<"nothing">>]
    BY <1>2 DEF PressToggle, RdInv, NoticeTrue
  <2> QED  BY <1>2, <2>1, <2>2, <2>3, <2>4, DispatchesInv DEF PressToggle, WriteCalls
<1>3. ASSUME NEW j \in Jobs, PressRecover(j) PROVE RdInv'
  <2>1. PICK call : call = [op |-> "recover", of |-> j, served |-> FALSE, heard |-> TRUE]  OBVIOUS
  <2> QED  BY <1>3, <2>1, DispatchesInv DEF PressRecover, WriteCalls, RecoverCalls
<1>4. CASE PressExport
  <2>1. rdPage \in Pages  BY <1>4 DEF PressExport, ShellExport, PortalExport, IsolatedExport, Pages
  <2>2. PICK call : call = [op |-> "export", of |-> rdPage, served |-> FALSE, heard |-> TRUE,
                            cohort |-> 0]
    OBVIOUS
  <2>3. call \in WriteCalls /\ call.cohort = 0 /\ ~call.served
    BY <2>1, <2>2 DEF WriteCalls, ExportsAsked
  <2> QED
    BY <1>4, <2>2, <2>3, DispatchesInv DEF PressExport, ShellExport, PortalExport, IsolatedExport
<1> QED  BY <1>1, <1>2, <1>3, <1>4

\* The API acts on a call: what it knows grows, and the call is replaced by what is left of it.
LEMMA ServesTrueCalls ==
  ASSUME RdInv, NEW call \in rdCalls, NEW more \in WriteCalls, Became(call, more),
         ServerTrue', rdServer.notices \subseteq rdServer'.notices,
         NoticeTrue', rdNotice.done \subseteq rdNotice'.done,
         CallTrue(more, rdServer'.notices, rdNotice'.done),
         UNCHANGED <<rdCache, rdFlight, rdCsv>>
  PROVE  RdInv'
<1>1. CallsTrue'
  <2>1. \A c \in WriteCalls : CallTrue(c, rdServer.notices, rdNotice.done) =>
                                CallTrue(c, rdServer'.notices, rdNotice'.done)
    BY DEF CallTrue
  <2> QED  BY <2>1 DEF RdInv, CallsTrue, Became
<1>2. EntriesTrue'
  <2>1. \A k, entry : EntryTrue(k, entry, rdServer.notices) =>
                        EntryTrue(k, entry, rdServer'.notices)
    BY DEF EntryTrue
  <2> QED  BY <2>1 DEF RdInv, EntriesTrue
<1> QED  BY <1>1, <1>2 DEF RdInv, CsvTrue

\* A call that is carried out is on record as done.
LEMMA CarriedTrue ==
  ASSUME NoticeTrue, NEW call, Carried(call)
  PROVE  /\ NoticeTrue' /\ rdNotice.done \subseteq rdNotice'.done
         /\ <<call.op, call.of>> \in rdNotice'.done
<1>1. rdNotice' = [rdNotice EXCEPT !.done = @ \cup {<<call.op, call.of>>}]  BY DEF Carried
<1>2. /\ rdNotice'.says = rdNotice.says
      /\ rdNotice'.done = rdNotice.done \cup {<<call.op, call.of>>}
      /\ rdNotice' = [says |-> rdNotice'.says, done |-> rdNotice'.done]
  BY <1>1 DEF NoticeTrue
<1> QED  BY <1>2 DEF NoticeTrue

\* What the page says, of a call that was carried out or that failed.
LEMMA SaysTrue ==
  ASSUME NoticeTrue, NEW call, NEW what \in {<<"error">>} \cup rdNotice.done, Says(call, what)
  PROVE  NoticeTrue' /\ rdNotice'.done = rdNotice.done
<1>1. CASE rdNotice' = rdNotice  BY <1>1 DEF NoticeTrue
<1>2. CASE rdNotice' = [rdNotice EXCEPT !.says = what]
  <2>1. /\ rdNotice'.says = what /\ rdNotice'.done = rdNotice.done
        /\ rdNotice' = [says |-> rdNotice'.says, done |-> rdNotice'.done]
    BY <1>2 DEF NoticeTrue
  <2> QED  BY <2>1 DEF NoticeTrue
<1> QED  BY <1>1, <1>2 DEF Says

\* A call that is over, refused or answered or lost.
LEMMA EndsInv ==
  ASSUME RdInv, NEW call \in rdCalls, rdCalls' = rdCalls \ {call}, EntriesTrue',
         NoticeTrue', rdNotice'.done = rdNotice.done, UNCHANGED <<rdServer, rdCsv>>
  PROVE  RdInv'
  BY DEF RdInv, ServerTrue, CallsTrue, CsvTrue

\* The call of a kind, by its operation.
LEMMA KindsOfCalls ==
  ASSUME NEW call \in WriteCalls
  PROVE  /\ call.op = "read" => call \in NoticeCalls
         /\ call.op \in {"on", "off"} => call \in PreferenceCalls
         /\ call.op = "recover" => call \in RecoverCalls
         /\ call.op = "export" => /\ ~call.served => call \in ExportsAsked
                                  /\ call.served => call \in ExportsTaken
  BY DEF WriteCalls, NoticeCalls, PreferenceCalls, RecoverCalls, ExportsAsked, ExportsTaken

\* A write that is served keeps what it is.
LEMMA ServedCalls ==
  ASSUME NEW call \in NoticeCalls \cup PreferenceCalls \cup RecoverCalls,
         NEW more, more = [call EXCEPT !.served = TRUE]
  PROVE  more \in WriteCalls /\ more.op = call.op /\ more.of = call.of /\ more.op # "export"
  BY DEF WriteCalls, NoticeCalls, PreferenceCalls, RecoverCalls

\* A call that is refused is answered with an error.
LEMMA RefusesInv == ASSUME RdInv, NEW call \in rdCalls, Refused(call),
                           UNCHANGED <<rdCache, rdFlight, rdCsv>>
                    PROVE  RdInv'
<1>1. NoticeTrue' /\ rdNotice'.done = rdNotice.done
  BY SaysTrue DEF Refused, RdInv
<1> QED  BY <1>1, EndsInv DEF Refused, RdInv, EntriesTrue

\* The notification, the preference and the recovery, as the API serves them.
LEMMA ServesRdInv ==
  ASSUME RdInv, NEW call \in rdCalls,
         ServeRead(call) \/ ServePreference(call) \/ ServeRecover(call)
  PROVE  RdInv'
<1>0. /\ call \in WriteCalls /\ NoticeTrue /\ rdServer \in Servers /\ IsFiniteSet(rdServer.exports)
      /\ \A e \in rdServer.exports : e.cohort >= MinCohort
  BY DEF RdInv, CallsTrue, ServerTrue
<1>1. UNCHANGED <<rdCache, rdFlight, rdCsv>>
  BY DEF ServeRead, ServePreference, ServeRecover
<1>2. CASE Refused(call)  BY <1>1, <1>2, RefusesInv
<1>3. CASE ~Refused(call)
  <2>1. PICK more : more = [call EXCEPT !.served = TRUE]  OBVIOUS
  <2>2. call \in NoticeCalls \cup PreferenceCalls \cup RecoverCalls
    BY <1>0, KindsOfCalls DEF ServeRead, ServePreference, ServeRecover
  <2>3. /\ more \in WriteCalls /\ more.op = call.op /\ more.of = call.of /\ more.op # "export"
    BY <2>1, <2>2, ServedCalls
  <2>4. Became(call, more) /\ Carried(call)
    BY <1>3, <2>1 DEF ServeRead, ServePreference, ServeRecover
  <2>5. /\ NoticeTrue' /\ rdNotice.done \subseteq rdNotice'.done
        /\ <<call.op, call.of>> \in rdNotice'.done
    BY <1>0, <2>4, CarriedTrue
  <2>6. /\ ServerTrue' /\ rdServer.notices \subseteq rdServer'.notices
        /\ call.op = "read" => call.of \in rdServer'.notices
    <3>1. CASE ServeRead(call)
      <4>1. call.of \in Notices  BY <1>0, <3>1, KindsOfCalls DEF ServeRead, NoticeCalls
      <4>2. rdServer' = [rdServer EXCEPT !.notices = @ \cup {call.of}]  BY <3>1 DEF ServeRead
      <4>3. /\ rdServer' \in Servers /\ rdServer'.exports = rdServer.exports
            /\ rdServer'.notices = rdServer.notices \cup {call.of}
        BY <1>0, <4>1, <4>2 DEF Servers
      <4> QED  BY <1>0, <4>3 DEF ServerTrue
    <3>2. CASE ServePreference(call)
      <4>1. call.of \in Optional /\ call.op # "read"
        BY <1>0, <3>2, KindsOfCalls DEF ServePreference, PreferenceCalls
      <4>2. rdServer' = [rdServer EXCEPT !.off = IF call.op = "off" THEN @ \cup {call.of}
                                                 ELSE @ \ {call.of}]
        BY <1>3, <3>2 DEF ServePreference
      <4>3. /\ rdServer' \in Servers /\ rdServer'.exports = rdServer.exports
            /\ rdServer'.notices = rdServer.notices
        BY <1>0, <4>1, <4>2 DEF Servers
      <4> QED  BY <1>0, <4>1, <4>3 DEF ServerTrue
    <3>3. CASE ServeRecover(call)
      <4>2. rdServer' = [rdServer EXCEPT !.dead = @ \ {call.of}] /\ call.op # "read"
        BY <1>3, <3>3 DEF ServeRecover
      <4>3. /\ rdServer' \in Servers /\ rdServer'.exports = rdServer.exports
            /\ rdServer'.notices = rdServer.notices
        BY <1>0, <4>2 DEF Servers
      <4> QED  BY <1>0, <4>2, <4>3 DEF ServerTrue
    <3> QED  BY <3>1, <3>2, <3>3
  <2>7. CallTrue(more, rdServer'.notices, rdNotice'.done)
    BY <2>3, <2>5, <2>6 DEF CallTrue
  <2> QED  BY <1>1, <2>3, <2>4, <2>5, <2>6, <2>7, ServesTrueCalls
<1> QED  BY <1>2, <1>3

\* The export: let through on the cohort there is, recorded on the cohort it was let through.
LEMMA ExportsInv ==
  ASSUME RdInv, NEW call \in rdCalls, AdmitExport(call) \/ RecordExport(call) PROVE RdInv'
<1>0. /\ call \in ExportsAsked /\ CallTrue(call, rdServer.notices, rdNotice.done) /\ NoticeTrue
      /\ ServerTrue /\ rdServer \in Servers /\ rdServer.cohort \in Nat
      /\ IsFiniteSet(rdServer.exports) /\ \A e \in rdServer.exports : e.cohort >= MinCohort
  BY KindsOfCalls, RecordsAssumption
     DEF RdInv, CallsTrue, ServerTrue, Servers, AdmitExport, RecordExport
<1>1. UNCHANGED <<rdCache, rdFlight, rdCsv>>
  BY DEF AdmitExport, RecordExport
<1>2. CASE Refused(call)  BY <1>1, <1>2, RefusesInv
<1>3. CASE AdmitExport(call) /\ ~Refused(call)
  <2>1. PICK more : more = [call EXCEPT !.cohort = rdServer.cohort]  OBVIOUS
  <2>2. /\ more \in WriteCalls /\ more.op = "export" /\ ~more.served
        /\ more.cohort = rdServer.cohort
    BY <1>0, <2>1 DEF ExportsAsked, WriteCalls
  <2>3. /\ Became(call, more) /\ UNCHANGED <<rdServer, rdNotice>>
        /\ ~(rdServer.cohort < MinCohort)
    BY <1>3, <2>1 DEF AdmitExport, Suppressed
  <2>4. CallTrue(more, rdServer'.notices, rdNotice'.done)
    BY <1>0, <2>2, <2>3, RecordsAssumption DEF CallTrue
  <2> QED
    BY <1>0, <1>1, <2>2, <2>3, <2>4, ServesTrueCalls DEF ServerTrue, NoticeTrue
<1>4. CASE RecordExport(call)
  <2>1. PICK id : id = Cardinality(rdServer.exports) + 1  OBVIOUS
  <2>2. id \in Nat  BY <1>0, <2>1, FS_CardinalityType
  <2>3. PICK export : export = [id |-> id, cohort |-> call.cohort]  OBVIOUS
  <2>4. PICK more : more = [op |-> "export", of |-> call.of, served |-> TRUE,
                            heard |-> call.heard, id |-> id]
    OBVIOUS
  <2>5. /\ rdServer' = [rdServer EXCEPT !.exports = @ \cup {export}]
        /\ Became(call, more) /\ Carried(call) /\ call.cohort > 0 /\ call.op = "export"
        /\ ~call.served
    BY <1>4, <2>1, <2>3, <2>4 DEF RecordExport
  <2>6. export \in Exports /\ export.cohort >= MinCohort
    BY <1>0, <2>2, <2>3, <2>5 DEF Exports, ExportsAsked, CallTrue
  <2>7. /\ rdServer' \in Servers /\ rdServer'.notices = rdServer.notices
        /\ rdServer'.exports = rdServer.exports \cup {export}
    BY <1>0, <2>5, <2>6 DEF Servers
  <2>8. ServerTrue'
    BY <1>0, <2>6, <2>7, FS_AddElement DEF ServerTrue
  <2>9. /\ more \in WriteCalls /\ more.op = call.op /\ more.of = call.of /\ more.served
    BY <1>0, <2>2, <2>4, <2>5 DEF ExportsAsked, ExportsTaken, WriteCalls
  <2>10. /\ NoticeTrue' /\ rdNotice.done \subseteq rdNotice'.done
         /\ <<call.op, call.of>> \in rdNotice'.done
    BY <1>0, <2>5, CarriedTrue
  <2>11. CallTrue(more, rdServer'.notices, rdNotice'.done)
    BY <2>5, <2>9, <2>10 DEF CallTrue
  <2> QED  BY <1>1, <2>5, <2>7, <2>8, <2>9, <2>10, <2>11, ServesTrueCalls
<1> QED  BY <1>2, <1>3, <1>4 DEF AdmitExport

\* The answer edits the cache, on what the call was served for.
LEMMA AnswersRdInv ==
  ASSUME RdInv, NEW call \in rdCalls, CallAnswered(call) \/ CallLost(call) PROVE RdInv'
<1>0. /\ call \in WriteCalls /\ CallTrue(call, rdServer.notices, rdNotice.done) /\ NoticeTrue
      /\ EntriesTrue
  BY DEF RdInv, CallsTrue
<1>1. rdCalls' = rdCalls \ {call} /\ UNCHANGED <<rdServer, rdCsv>>
  BY DEF CallAnswered, CallLost
<1>2. NoticeTrue' /\ rdNotice'.done = rdNotice.done
  <2>1. CASE CallLost(call)  BY <1>0, <2>1, SaysTrue DEF CallLost
  <2>2. CASE CallAnswered(call)
    <3>1. CASE rdNotice' = rdNotice  BY <1>0, <3>1 DEF NoticeTrue
    <3>2. CASE call.op \in {"recover", "export"} /\ Says(call, <<call.op, call.of>>)
      <4>1. <<call.op, call.of>> \in rdNotice.done
        BY <1>0, <2>2, <3>2 DEF CallAnswered, CallTrue
      <4> QED  BY <1>0, <3>2, <4>1, SaysTrue
    <3> QED  BY <2>2, <3>1, <3>2 DEF CallAnswered
  <2> QED  BY <2>1, <2>2
<1>3. EntriesTrue'
  <2>0. rdServer' = rdServer  BY <1>1
  <2>1. CASE rdCache' = rdCache /\ rdFlight' = rdFlight
    BY <1>0, <2>0, <2>1 DEF EntriesTrue
  <2>2. CASE rdCache' = rdCache /\ rdFlight' = [rdFlight EXCEPT !["exports"] = Missing]
    BY <1>0, <2>0, <2>2 DEF EntriesTrue, EntryTrue, Missing
  <2>3. ASSUME NEW k \in {"notices", "off", "dead", "exports"}, NEW value, Edited(k, value),
               rdFlight' = rdFlight, k = "notices" => value \subseteq rdServer.notices,
               k = "off" => value \subseteq Optional
        PROVE  EntriesTrue'
    <3>1. PICK entry : entry = [shape |-> "wrapped", value |-> value]  OBVIOUS
    <3>2. rdCache' = [rdCache EXCEPT ![k] = entry]  BY <2>3, <3>1 DEF Edited
    <3>3. EntryTrue(k, entry, rdServer.notices) /\ k \in Keys
      BY <2>3, <3>1 DEF EntryTrue, Keys
    <3> QED  BY <1>0, <2>0, <2>3, <3>2, <3>3 DEF EntriesTrue
  <2>4. /\ Held("notices") \subseteq rdServer.notices
        /\ Held("off") \subseteq Optional
    BY <1>0 DEF Held, Shown, EntriesTrue, EntryTrue, Keys
  <2>5. call.op \in {"on", "off"} => call.of \in Optional
    BY <1>0, KindsOfCalls DEF PreferenceCalls
  <2>6. CASE CallAnswered(call)
    <3>1. CASE call.op = "read"
      <4>1. call.of \in rdServer.notices  BY <1>0, <2>6, <3>1 DEF CallTrue, CallAnswered
      <4> QED  BY <2>3, <2>4, <2>6, <3>1, <4>1 DEF CallAnswered
    <3>2. CASE call.op \in {"on", "off"}
      BY <2>3, <2>4, <2>5, <2>6, <3>2 DEF CallAnswered
    <3>3. CASE call.op = "recover"
      BY <2>3, <2>6, <3>3 DEF CallAnswered
    <3>4. CASE call.op = "export"
      BY <2>2, <2>3, <2>6, <3>4 DEF CallAnswered
    <3> QED  BY <2>6, <3>1, <3>2, <3>3, <3>4 DEF CallAnswered
  <2> QED  BY <2>1, <2>6 DEF CallLost
<1> QED  BY <1>1, <1>2, <1>3, EndsInv

\* What others do on the server, and the file that is saved.
LEMMA OthersRdInv ==
  ASSUME RdInv,
         \/ \E c \in Optional \cup Required : SwitchedElsewhere(c)
         \/ \E j \in Jobs : JobDies(j)
         \/ SaveCsv \/ CohortChanges
  PROVE  RdInv'
<1>0. /\ rdServer \in Servers /\ IsFiniteSet(rdServer.exports) /\ EntriesTrue
      /\ \A e \in rdServer.exports : e.cohort >= MinCohort
  BY DEF RdInv, ServerTrue
<1>1. CASE SaveCsv
  <2>1. CsvTrue'
    <3>1. rdCsv' = FiguresShown /\ PortalForm  BY <1>1 DEF SaveCsv
    <3>2. CASE rdCache["metrics"].shape = "raw"
      BY <1>0, <3>1, <3>2 DEF FiguresShown, PortalForm, CsvTrue, EntriesTrue, EntryTrue, Keys
    <3>3. CASE rdCache["metrics"].shape # "raw"
      BY <3>1, <3>3 DEF FiguresShown, SampleFigures, CsvTrue
    <3> QED  BY <3>2, <3>3
  <2> QED
    BY <1>1, <2>1 DEF SaveCsv, RdInv, ServerTrue, EntriesTrue, CallsTrue, NoticeTrue
<1>2. CASE ~SaveCsv
  <2>1. UNCHANGED <<rdCache, rdFlight, rdCalls, rdNotice, rdCsv>>
    BY <1>2 DEF SwitchedElsewhere, JobDies, CohortChanges
  <2>2. /\ rdServer' \in Servers /\ rdServer'.exports = rdServer.exports
        /\ rdServer'.notices = rdServer.notices
    <3>1. ASSUME NEW c \in Optional \cup Required, SwitchedElsewhere(c)
          PROVE  /\ rdServer' \in Servers /\ rdServer'.exports = rdServer.exports
                 /\ rdServer'.notices = rdServer.notices
      <4>1. c \in Optional  BY <3>1 DEF SwitchedElsewhere, Critical, Required
      <4> QED  BY <1>0, <3>1, <4>1 DEF SwitchedElsewhere, Servers
    <3>2. ASSUME NEW j \in Jobs, JobDies(j)
          PROVE  /\ rdServer' \in Servers /\ rdServer'.exports = rdServer.exports
                 /\ rdServer'.notices = rdServer.notices
      BY <1>0, <3>2 DEF JobDies, Servers
    <3>3. CASE CohortChanges
      <4>1. (2 * MinCohort - 1) - rdServer.cohort \in {MinCohort - 1, MinCohort}
        BY <1>0, RecordsAssumption DEF Servers
      <4> QED  BY <1>0, <3>3, <4>1 DEF CohortChanges, Servers
    <3> QED  BY <1>2, <3>1, <3>2, <3>3
  <2> QED
    BY <1>0, <2>1, <2>2 DEF RdInv, ServerTrue, EntriesTrue, CallsTrue, NoticeTrue, CsvTrue
<1> QED  BY <1>1, <1>2

\* Every step of these pages.
LEMMA NextRdInv == RdInv /\ [RdNext]_rdVars => RdInv'
<1> SUFFICES ASSUME RdInv, [RdNext]_rdVars PROVE RdInv'  OBVIOUS
<1>1. CASE UNCHANGED rdVars
  BY <1>1 DEF rdVars, RdInv, ServerTrue, EntriesTrue, CallsTrue, NoticeTrue, CsvTrue
<1>2. CASE RdNext
  BY <1>2, QueriesInv, VisitsInv, PressesInv, OthersRdInv, ServesRdInv, ExportsInv,
     AnswersRdInv DEF RdNext
<1> QED  BY <1>1, <1>2

\* Nothing is shown or said that the API has not done.
THEOREM PagesSayWhatIsDone == RdSpec => []NoticesAreTrue
<1>1. RdInit => RdInv  BY InitRdInv
<1>2. RdInv /\ [RdNext]_rdVars => RdInv'  BY NextRdInv
<1>3. RdInv => NoticesAreTrue
  <2> SUFFICES ASSUME RdInv PROVE NoticesAreTrue  OBVIOUS
  <2>1. Optional \cap Required = {}  BY DEF Optional, Required
  <2> QED
    BY <2>1 DEF RdInv, ServerTrue, Servers, EntriesTrue, EntryTrue, NoticeTrue, NoticesAreTrue,
       Shown, Keys
<1> QED  BY <1>1, <1>2, <1>3, PTL DEF RdSpec

\* No figures and no export of a cohort below the threshold.
THEOREM SmallCohortsStayHidden == RdSpec => []SuppressedStaysHidden
<1>1. RdInit => RdInv  BY InitRdInv
<1>2. RdInv /\ [RdNext]_rdVars => RdInv'  BY NextRdInv
<1>3. RdInv => SuppressedStaysHidden
  BY DEF RdInv, ServerTrue, CsvTrue, SuppressedStaysHidden
<1> QED  BY <1>1, <1>2, <1>3, PTL DEF RdSpec
=============================================================================
