---------------------------- MODULE ClientIntake ----------------------------
(***************************************************************************)
(* The project intake of a client (components/client-project-intake.tsx):  *)
(* three steps of one form, kept in the browser's local storage at every   *)
(* change ("Saved on this device"), and the request that creates the       *)
(* project.  A step's fields are abstracted to whether they pass.          *)
(***************************************************************************)
EXTENDS Naturals, Sequences

CONSTANTS
  MaxSubmits,   \* bound on the requests of the form
  MaxCiReloads  \* bound on reloads of the page

ASSUME ClientIntakeAssumption == MaxSubmits \in Nat /\ MaxCiReloads \in Nat

VARIABLES
  ciFields,    \* what each step of the form holds
  ciStep,      \* the step on show
  ciDraft,     \* the draft in local storage
  ciSubmit,    \* the request: none, posted, created (answer on its way) or left (the page)
  ciBody,      \* what it carries
  ciProjects,  \* projects created, by what their form held
  ciSubmits,
  ciReloads

ciVars == <<ciFields, ciStep, ciDraft, ciSubmit, ciBody, ciProjects, ciSubmits, ciReloads>>

Steps == 0..2
LastStep == 2
\* badLink: passes the schema, but a reference is not an HTTPS address.
FieldStates == {"unfilled", "filled", "badLink"}
\* The guardrails' defaults (no deadline, budget or reference) pass.
Defaults == [s \in Steps |-> IF s = LastStep THEN "filled" ELSE "unfilled"]
NoDraft == [s \in Steps |-> "none"]

PassesSchema(fields) == \A s \in Steps : fields[s] # "unfilled"

CiInit ==
  /\ ciFields = Defaults
  /\ ciStep = 0
  /\ ciDraft = NoDraft
  /\ ciSubmit = "none"
  /\ ciBody = NoDraft
  /\ ciProjects = <<>>
  /\ ciSubmits = 0
  /\ ciReloads = 0

OnPage == ciSubmit # "left"

\* A change of a field is written to local storage with all the others; the inputs
\* stay open while the project is being created.
EditField(value) ==
  /\ OnPage
  /\ value = "badLink" => ciStep = LastStep
  /\ ciFields' = [ciFields EXCEPT ![ciStep] = value]
  /\ ciDraft' = [ciFields EXCEPT ![ciStep] = value]
  /\ UNCHANGED <<ciBody, ciStep, ciSubmit, ciProjects, ciSubmits, ciReloads>>

\* validateStep: errors of the other steps do not hold this one back.
NextStep ==
  /\ OnPage
  /\ ciStep < LastStep /\ ciFields[ciStep] # "unfilled" /\ ciSubmit = "none"
  /\ ciStep' = ciStep + 1
  /\ UNCHANGED <<ciBody, ciFields, ciDraft, ciSubmit, ciProjects, ciSubmits, ciReloads>>
PreviousStep ==
  /\ OnPage
  /\ ciStep > 0
  /\ ciStep' = ciStep - 1
  /\ UNCHANGED <<ciBody, ciFields, ciDraft, ciSubmit, ciProjects, ciSubmits, ciReloads>>

\* The whole schema, then the links; the request has no Idempotency-Key.
\* Mutant: the draft is dropped as the request leaves.
SubmitDropsDraft ==
  /\ ciStep = LastStep /\ ciSubmit = "none" /\ ciSubmits < MaxSubmits
  /\ PassesSchema(ciFields) /\ ciFields[LastStep] # "badLink"
  /\ ciSubmit' = "posted"
  /\ ciBody' = ciFields
  /\ ciSubmits' = ciSubmits + 1
  /\ ciDraft' = NoDraft
  /\ UNCHANGED <<ciFields, ciStep, ciProjects, ciReloads>>
SubmitProject ==
  /\ ciStep = LastStep /\ ciSubmit = "none" /\ ciSubmits < MaxSubmits
  /\ PassesSchema(ciFields) /\ ciFields[LastStep] # "badLink"
  /\ ciSubmit' = "posted"
  /\ ciBody' = ciFields
  /\ ciSubmits' = ciSubmits + 1
  /\ UNCHANGED <<ciFields, ciStep, ciDraft, ciProjects, ciReloads>>
CreateProject ==
  /\ ciSubmit = "posted"
  /\ ciProjects' = Append(ciProjects, ciBody)
  /\ ciSubmit' = "created"
  /\ UNCHANGED <<ciBody, ciFields, ciStep, ciDraft, ciSubmits, ciReloads>>
ProjectAnswered ==
  /\ ciSubmit = "created"
  /\ ciDraft' = NoDraft
  /\ ciSubmit' = "left"
  /\ UNCHANGED <<ciBody, ciFields, ciStep, ciProjects, ciSubmits, ciReloads>>
\* Refused, or lost before or after the commit: the button comes back.
SubmitFails ==
  /\ ciSubmit \in {"posted", "created"}
  /\ ciSubmit' = "none"
  /\ UNCHANGED <<ciBody, ciFields, ciStep, ciDraft, ciProjects, ciSubmits, ciReloads>>

\* A fresh page.  The stored draft is restored if it passes the schema as a whole
\* (partial() allows absent fields, and none is absent); otherwise it is removed.
ReloadForm ==
  /\ ciReloads < MaxCiReloads
  /\ ciReloads' = ciReloads + 1
  /\ ciSubmit' = "none"
  /\ ciStep' = 0
  /\ IF ciDraft # NoDraft /\ PassesSchema(ciDraft)
     THEN ciFields' = ciDraft /\ UNCHANGED ciDraft
     ELSE ciFields' = Defaults /\ ciDraft' = NoDraft
  /\ UNCHANGED <<ciBody, ciProjects, ciSubmits>>

CiNext ==
  \/ \E value \in FieldStates : EditField(value)
  \/ NextStep
  \/ PreviousStep
  \/ SubmitProject
  \/ CreateProject
  \/ ProjectAnswered
  \/ SubmitFails
  \/ ReloadForm

CiSpec == CiInit /\ [][CiNext]_ciVars

\* A form that could be submitted is safe on this device until its project is known to
\* exist: a request that fails, or a reload while it is under way, loses no field.
CompleteDraftKept == OnPage /\ PassesSchema(ciFields) => ciDraft = ciFields
=============================================================================
