---------------------------- MODULE CredentialDesk ----------------------------
(***************************************************************************)
(* The credentials of one student for one completed project: their issue   *)
(* and revocation by coordinators, the public check, and the page that     *)
(* shows its verdict.  Handlers look rows up before they write and take no *)
(* lock; the check reads the credential, its signature and its revocation  *)
(* one after the other.                                                    *)
(***************************************************************************)
EXTENDS Naturals, Sequences

CONSTANTS
  Callers,         \* coordinators' requests
  RevocationKeys,  \* idempotency keys of revocations
  KeyRings,        \* signing keys a deployment can be configured with
  MaxCredentials,  \* bound on the credentials issued
  MaxChecks        \* bound on the checks made on one page

ASSUME CredentialAssumption ==
  /\ {MaxCredentials, MaxChecks} \subseteq Nat
  /\ KeyRings # {}

VARIABLES
  cdCredentials,  \* credentials in the order of issue: the key ring of each; the n-th
                  \* has the public slug n
  cdRevocations,  \* credential_revocations
  cdRing,         \* the key ring of the deployment's settings
  cdCall,         \* what each coordinator's request holds
  cdBox,          \* the page's input; 0 when it is empty
  cdCheck,        \* the page's request, if it waits for one
  cdCard,         \* the result it shows
  cdChecks        \* checks begun

cdRows == <<cdCredentials, cdRevocations>>
cdPage == <<cdBox, cdCheck, cdCard, cdChecks>>
cdVars == <<cdRows, cdRing, cdCall, cdPage>>

Slugs == 1..MaxCredentials
Revoked == {r.credential : r \in cdRevocations}
FreeCall == [op |-> "none"]
NoCheck == [stage |-> "none"]
NoCard == [status |-> "none"]

\* A page opened by a link checks its slug at once.  revoked: which credentials were
\* revoked when the check began.
Checking(slug) == [stage |-> "sent", slug |-> slug, revoked |-> Revoked]

CdInit ==
  /\ cdCredentials = <<>>
  /\ cdRevocations = {}
  /\ cdRing \in KeyRings
  /\ cdCall = [c \in Callers |-> FreeCall]
  /\ cdBox \in 0..MaxCredentials
  /\ cdCheck = IF cdBox = 0 THEN NoCheck
               ELSE [stage |-> "sent", slug |-> cdBox, revoked |-> {}]
  /\ cdCard = NoCard
  /\ cdChecks = 0

----------------------------------------------------------------------------
(* issue_project_credential, revoke_project_credential. *)

\* Nothing in the table keeps a second row out.
CheckIssue(c) ==
  /\ cdCall[c] = FreeCall
  /\ cdCredentials = <<>>
  /\ cdCall' = [cdCall EXCEPT ![c] = [op |-> "issue", ring |-> cdRing]]
  /\ UNCHANGED <<cdRows, cdRing, cdPage>>

CommitIssue(c) ==
  /\ cdCall[c].op = "issue"
  /\ Len(cdCredentials) < MaxCredentials
  /\ cdCredentials' = Append(cdCredentials, cdCall[c].ring)
  /\ cdCall' = [cdCall EXCEPT ![c] = FreeCall]
  /\ UNCHANGED <<cdRevocations, cdRing, cdPage>>

\* A key that is recorded answers for its own credential and changes nothing.
CheckRevoke(c, n, key) ==
  /\ cdCall[c] = FreeCall
  /\ n <= Len(cdCredentials)
  /\ n \notin Revoked
  /\ \A r \in cdRevocations : r.key # key
  /\ cdCall' = [cdCall EXCEPT ![c] = [op |-> "revoke", credential |-> n, key |-> key]]
  /\ UNCHANGED <<cdRows, cdRing, cdPage>>

\* UNIQUE on the credential and on the key: the second of two racing requests fails.
CommitRevoke(c) ==
  /\ cdCall[c].op = "revoke"
  /\ cdRevocations' =
       IF \E r \in cdRevocations : r.credential = cdCall[c].credential \/ r.key = cdCall[c].key
         THEN cdRevocations
         ELSE cdRevocations \cup {[credential |-> cdCall[c].credential, key |-> cdCall[c].key]}
  /\ cdCall' = [cdCall EXCEPT ![c] = FreeCall]
  /\ UNCHANGED <<cdCredentials, cdRing, cdPage>>

\* The process ends, or the client gives up, before the commit.
AbandonCall(c) ==
  /\ cdCall[c] # FreeCall
  /\ cdCall' = [cdCall EXCEPT ![c] = FreeCall]
  /\ UNCHANGED <<cdRows, cdRing, cdPage>>

Reconfigure(ring) ==
  /\ ring # cdRing
  /\ cdRing' = ring
  /\ UNCHANGED <<cdRows, cdCall, cdPage>>

----------------------------------------------------------------------------
(* The page and public_credential. *)

TypeSlug(slug) ==
  /\ cdBox' = slug
  /\ UNCHANGED <<cdRows, cdRing, cdCall, cdCheck, cdCard, cdChecks>>

\* The button is disabled while a check is busy.
Verify ==
  /\ cdCheck = NoCheck
  /\ cdBox # 0
  /\ cdChecks < MaxChecks
  /\ cdCheck' = Checking(cdBox)
  /\ cdChecks' = cdChecks + 1
  /\ UNCHANGED <<cdRows, cdRing, cdCall, cdBox, cdCard>>

ReadCredential ==
  /\ cdCheck.stage = "sent"
  /\ cdCheck' =
       IF cdCheck.slug > Len(cdCredentials)
         THEN [stage |-> "answered", slug |-> cdCheck.slug, revoked |-> cdCheck.revoked,
               status |-> "NOT_FOUND", signed |-> FALSE]
         ELSE [stage |-> "found", slug |-> cdCheck.slug, revoked |-> cdCheck.revoked]
  /\ UNCHANGED <<cdRows, cdRing, cdCall, cdBox, cdCard, cdChecks>>

\* A key of another ring than the configured one is not allowed to verify.
CheckSignature ==
  /\ cdCheck.stage = "found"
  /\ cdCheck' = [stage |-> "verified", slug |-> cdCheck.slug, revoked |-> cdCheck.revoked,
                 signed |-> cdCredentials[cdCheck.slug] = cdRing]
  /\ UNCHANGED <<cdRows, cdRing, cdCall, cdBox, cdCard, cdChecks>>

\* Mutant: the status column of the credential, which no revocation changes.
StatusOfRow(n) == "VALID"
EffectiveStatus(n) == IF n \in Revoked THEN "REVOKED" ELSE "VALID"

ReadRevocation ==
  /\ cdCheck.stage = "verified"
  /\ cdCheck' = [stage |-> "answered", slug |-> cdCheck.slug, revoked |-> cdCheck.revoked,
                 status |-> EffectiveStatus(cdCheck.slug), signed |-> cdCheck.signed]
  /\ UNCHANGED <<cdRows, cdRing, cdCall, cdBox, cdCard, cdChecks>>

\* The line of the card: one verdict for a credential that is revoked, does not verify,
\* or does not exist.
CardVerdict ==
  IF cdCard.status = "VALID" /\ cdCard.signed THEN "valid" ELSE "revoked or invalid"

ShowCard ==
  /\ cdCheck.stage = "answered"
  /\ cdCard' = cdCheck
  /\ cdCheck' = NoCheck
  /\ UNCHANGED <<cdRows, cdRing, cdCall, cdBox, cdChecks>>

\* A refusal by the rate limit or a lost answer: the earlier card stays.
CheckFails ==
  /\ cdCheck # NoCheck
  /\ cdCheck' = NoCheck
  /\ UNCHANGED <<cdRows, cdRing, cdCall, cdBox, cdCard, cdChecks>>

CdNext ==
  \/ \E c \in Callers :
       \/ CheckIssue(c) \/ CommitIssue(c)
       \/ \E n \in Slugs, key \in RevocationKeys : CheckRevoke(c, n, key)
       \/ CommitRevoke(c) \/ AbandonCall(c)
  \/ \E ring \in KeyRings : Reconfigure(ring)
  \/ \E slug \in 0..MaxCredentials : TypeSlug(slug)
  \/ Verify \/ ReadCredential \/ CheckSignature \/ ReadRevocation \/ ShowCard \/ CheckFails

CredentialSpec == CdInit /\ [][CdNext]_cdVars

----------------------------------------------------------------------------
(* Properties. *)

\* A card that says valid never hides a revocation: the credential it is about was
\* issued and not revoked when the check began, however the issue, the revocations
\* and the steps of the check interleave.
RevocationHonoured ==
  cdCard.status # "none" /\ CardVerdict = "valid" =>
    cdCard.slug <= Len(cdCredentials) /\ cdCard.slug \notin cdCard.revoked

\* What the refusal of issue_project_credential says: there is one credential for a
\* student and a project (the lookup takes no lock and no constraint backs it).
OneCredential == Len(cdCredentials) <= 1
=============================================================================
