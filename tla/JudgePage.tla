----------------------------- MODULE JudgePage -----------------------------
(***************************************************************************)
(* The evaluator's page: the sandbox, whose panels answer after a delay    *)
(* with what was selected when the button was pressed, and the walkthrough *)
(* that plays itself.                                                      *)
(***************************************************************************)
EXTENDS Naturals

CONSTANTS
  SandboxHours,  \* hours and rates the sliders are moved to
  SandboxRates,
  MaxInputs      \* bound: inputs to the sandbox in one visit

ASSUME JudgeAssumption ==
  /\ SandboxHours \subseteq 10..120
  /\ SandboxRates \subseteq {5 * n : n \in 8..40}
  /\ MaxInputs \in Nat

VARIABLES
  jpModel,     \* selectedModel
  jpScoping,   \* the scoping panel: preset, the run in progress, the result
  jpVisual,    \* the multimodal panel, likewise
  jpPrice,     \* the sliders of the pricing panel
  jpMatch,     \* the matching panel: category, and the candidate found
  jpAudit,     \* the audit panel: payload, digests in progress, hash, isTampered
  jpInputs,    \* inputs so far
  wtIndex, wtPlaying, wtReduced, wtCopied  \* the walkthrough

jpSandbox == <<jpModel, jpScoping, jpVisual, jpPrice, jpMatch, jpAudit, jpInputs>>
wtVars == <<wtIndex, wtPlaying, wtReduced, wtCopied>>
jpVars == <<jpSandbox, wtVars>>

Models == {"flash", "pro"}
ScopingPresets == {"civic", "medical", "injection"}
VisualPresets == {"dashboard", "unresponsive"}
RiskTiers == {"low", "medium", "high"}
\* The payload as the page delivers it, edited, or without its project's id.
Payloads == {"original", "edited", "tampered"}
NoResult == [preset |-> "none", model |-> "none", verdict |-> "none"]

----------------------------------------------------------------------------
(* The price, in minor units; Math.round rounds halves up. *)

\* Mutant: a share cut off where it should be rounded.
RoundedDown(n, d) == n \div d
Rounded(n, d) == (2 * n + d) \div (2 * d)
RiskPercent == [low |-> 100, medium |-> 115, high |-> 130]
BaseMinor(p) == p.hours * p.rate * RiskPercent[p.risk] + p.revisions * 15000
StudentShare(b) == Rounded(75 * b, 100)
LeadShare(b) == Rounded(15 * b, 100)
PlatformReserve(b) == Rounded(10 * b, 100)

JpInit ==
  /\ jpModel = "flash"
  /\ jpScoping = [preset |-> "civic", run |-> NoResult, result |-> NoResult]
  /\ jpVisual = [preset |-> "dashboard", run |-> NoResult, result |-> NoResult]
  /\ jpPrice = [hours |-> 30, rate |-> 85, risk |-> "medium", revisions |-> 2]
  /\ jpMatch = [category |-> "frontend", candidate |-> "none", offer |-> 0]
  /\ jpAudit = [payload |-> "original", digests |-> {}, hash |-> "none", tampered |-> FALSE]
  /\ jpInputs = 0
  /\ wtIndex = 0 /\ wtPlaying = FALSE /\ wtReduced = FALSE /\ wtCopied = FALSE

Input == jpInputs < MaxInputs /\ jpInputs' = jpInputs + 1

----------------------------------------------------------------------------
(* The scoping and the multimodal panel. *)

ScopingVerdict(preset) ==
  CASE preset = "medical" -> "POLICY_REJECTED"
    [] preset = "injection" -> "PROMPT_INJECTION_CONTAINED"
    [] preset = "civic" -> "PROPOSAL_GENERATED"
VisualVerdict(preset) == IF preset = "dashboard" THEN "PASS" ELSE "CHANGES_REQUIRED"

SelectModel(model) ==
  /\ Input
  /\ jpModel' = model
  /\ UNCHANGED <<jpScoping, jpVisual, jpPrice, jpMatch, jpAudit, wtVars>>

\* A preset is selected also while a run is in progress.
SelectScoping(preset) ==
  /\ Input
  /\ jpScoping' = [jpScoping EXCEPT !.preset = preset, !.result = NoResult]
  /\ UNCHANGED <<jpModel, jpVisual, jpPrice, jpMatch, jpAudit, wtVars>>

RunScoping ==
  /\ Input
  /\ jpScoping.run = NoResult
  /\ jpScoping' = [jpScoping EXCEPT !.result = NoResult,
       !.run = [preset |-> jpScoping.preset, model |-> jpModel,
                verdict |-> ScopingVerdict(jpScoping.preset)]]
  /\ UNCHANGED <<jpModel, jpVisual, jpPrice, jpMatch, jpAudit, wtVars>>

\* The timer's callback shows what it was given.  The policy's rejection names no model.
ShowScoping ==
  /\ jpScoping.run # NoResult
  /\ jpScoping' = [jpScoping EXCEPT !.run = NoResult,
       !.result = IF jpScoping.run.preset = "medical"
                    THEN [jpScoping.run EXCEPT !.model = "none"] ELSE jpScoping.run]
  /\ UNCHANGED <<jpModel, jpVisual, jpPrice, jpMatch, jpAudit, jpInputs, wtVars>>

SelectVisual(preset) ==
  /\ Input
  /\ jpVisual' = [jpVisual EXCEPT !.preset = preset, !.result = NoResult]
  /\ UNCHANGED <<jpModel, jpScoping, jpPrice, jpMatch, jpAudit, wtVars>>

RunVisual ==
  /\ Input
  /\ jpVisual.run = NoResult
  /\ jpVisual' = [jpVisual EXCEPT !.result = NoResult,
       !.run = [preset |-> jpVisual.preset, model |-> jpModel,
                verdict |-> VisualVerdict(jpVisual.preset)]]
  /\ UNCHANGED <<jpModel, jpScoping, jpPrice, jpMatch, jpAudit, wtVars>>

ShowVisual ==
  /\ jpVisual.run # NoResult
  /\ jpVisual' = [jpVisual EXCEPT !.run = NoResult, !.result = jpVisual.run]
  /\ UNCHANGED <<jpModel, jpScoping, jpPrice, jpMatch, jpAudit, jpInputs, wtVars>>

----------------------------------------------------------------------------
(* Pricing and matching share the hours and the rate. *)

MoveSlider ==
  /\ Input
  /\ \/ \E h \in SandboxHours : jpPrice' = [jpPrice EXCEPT !.hours = h]
     \/ \E r \in SandboxRates : jpPrice' = [jpPrice EXCEPT !.rate = r]
     \/ \E t \in RiskTiers : jpPrice' = [jpPrice EXCEPT !.risk = t]
     \/ \E n \in {0, 5} : jpPrice' = [jpPrice EXCEPT !.revisions = n]
  /\ UNCHANGED <<jpModel, jpScoping, jpVisual, jpMatch, jpAudit, wtVars>>

SelectCategory(category) ==
  /\ Input
  /\ jpMatch' = [jpMatch EXCEPT !.category = category, !.candidate = "none", !.offer = 0]
  /\ UNCHANGED <<jpModel, jpScoping, jpVisual, jpPrice, jpAudit, wtVars>>

\* The offer is three quarters of hours and rate, without risk and revisions.
RunMatching ==
  /\ Input
  /\ jpMatch' = [jpMatch EXCEPT !.candidate = jpMatch.category,
                                !.offer = 75 * jpPrice.hours * jpPrice.rate]
  /\ UNCHANGED <<jpModel, jpScoping, jpVisual, jpPrice, jpAudit, wtVars>>

----------------------------------------------------------------------------
(* The audit panel.  Each press starts a digest of the payload it sees; digests end *)
(* in any order.                                                                    *)

Tampered(payload) == payload = "tampered"

EditPayload(payload) ==
  /\ Input
  /\ jpAudit' = [jpAudit EXCEPT !.payload = payload]
  /\ UNCHANGED <<jpModel, jpScoping, jpVisual, jpPrice, jpMatch, wtVars>>

RunHashVerification ==
  /\ Input
  /\ jpAudit' = [jpAudit EXCEPT !.digests = @ \cup {jpAudit.payload}]
  /\ UNCHANGED <<jpModel, jpScoping, jpVisual, jpPrice, jpMatch, wtVars>>

\* Mutant: the verdict is on the payload as it is when the digest ends.
VerdictNow(payload) == Tampered(jpAudit.payload)
VerdictOn(payload) == Tampered(payload)

DigestEnds(payload) ==
  /\ payload \in jpAudit.digests
  /\ jpAudit' = [jpAudit EXCEPT !.digests = @ \ {payload}, !.hash = payload,
                                !.tampered = VerdictOn(payload)]
  /\ UNCHANGED <<jpModel, jpScoping, jpVisual, jpPrice, jpMatch, jpInputs, wtVars>>

\* The verdict beside the message is the one of an earlier digest.
DigestFails(payload) ==
  /\ payload \in jpAudit.digests
  /\ jpAudit' = [jpAudit EXCEPT !.digests = @ \ {payload}, !.hash = "error"]
  /\ UNCHANGED <<jpModel, jpScoping, jpVisual, jpPrice, jpMatch, jpInputs, wtVars>>

----------------------------------------------------------------------------
(* The walkthrough: select, the timer, play, the reduced-motion setting, the link. *)

LastIndex == 13

Select(n) ==
  /\ wtIndex' = n
  /\ wtPlaying' = FALSE
  /\ UNCHANGED <<wtReduced, wtCopied, jpSandbox>>

Tick ==
  /\ wtPlaying /\ ~wtReduced
  /\ \/ /\ wtIndex = LastIndex
        /\ wtPlaying' = FALSE
        /\ UNCHANGED wtIndex
     \/ /\ wtIndex < LastIndex
        /\ wtIndex' = wtIndex + 1
        /\ UNCHANGED wtPlaying
  /\ UNCHANGED <<wtReduced, wtCopied, jpSandbox>>

TogglePlay ==
  /\ ~wtReduced
  /\ wtPlaying' = ~wtPlaying
  /\ UNCHANGED <<wtIndex, wtReduced, wtCopied, jpSandbox>>

ReduceMotion(reduced) ==
  /\ wtReduced' = reduced
  /\ wtPlaying' = (wtPlaying /\ ~reduced)
  /\ UNCHANGED <<wtIndex, wtCopied, jpSandbox>>

CopyLink(copied) ==
  /\ wtCopied' = copied
  /\ UNCHANGED <<wtIndex, wtPlaying, wtReduced, jpSandbox>>

SandboxNext ==
  \/ \E model \in Models : SelectModel(model)
  \/ \E preset \in ScopingPresets : SelectScoping(preset)
  \/ RunScoping \/ ShowScoping
  \/ \E preset \in VisualPresets : SelectVisual(preset)
  \/ RunVisual \/ ShowVisual
  \/ MoveSlider
  \/ \E category \in {"frontend", "backend"} : SelectCategory(category)
  \/ RunMatching
  \/ \E payload \in Payloads : EditPayload(payload) \/ DigestEnds(payload) \/ DigestFails(payload)
  \/ RunHashVerification

WalkthroughNext ==
  \/ \E n \in 0..LastIndex : Select(n)
  \/ Tick \/ TogglePlay
  \/ \E on \in BOOLEAN : ReduceMotion(on) \/ CopyLink(on)

JpNext == SandboxNext \/ WalkthroughNext

JudgeSpec == JpInit /\ [][JpNext]_jpVars

----------------------------------------------------------------------------
(* Properties. *)

\* What the sandbox shows beside each other belongs together: a hash and the verdict
\* on tampering are of one payload however many digests overlap, and a proposal or a
\* finding is the one of the preset it names.  The walkthrough never plays against a
\* wish for less motion, however jumps, the timer and the setting interleave.
SandboxIsConsistent ==
  /\ jpAudit.hash \in Payloads => jpAudit.tampered = Tampered(jpAudit.hash)
  /\ jpScoping.result # NoResult =>
       /\ jpScoping.run = NoResult
       /\ jpScoping.result.verdict = ScopingVerdict(jpScoping.result.preset)
  /\ jpVisual.result # NoResult => jpVisual.run = NoResult
  /\ wtPlaying => ~wtReduced

\* The three shares cover the price and exceed it by at most one minor unit, at any
\* position of the sliders.
SharesCoverPrice ==
  LET base == BaseMinor(jpPrice)
      shares == StudentShare(base) + LeadShare(base) + PlatformReserve(base)
  IN base <= shares /\ shares <= base + 1
=============================================================================
