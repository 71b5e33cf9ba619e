----------------------------- MODULE IntakeDesk -----------------------------
(***************************************************************************)
(* Public intake: the contact form of the website                          *)
(* (components/public-intake-form.tsx) with its Idempotency-Key and its    *)
(* 15-second timer, the handler that reserves the key, counts the request  *)
(* against the limit and stores it (app/intake/service.py), and the review *)
(* page of the coordinators (features/intake/intake-detail.tsx) with the   *)
(* privacy operations beside it.  A request that timed out in the browser  *)
(* is still served; requests with one key are served concurrently; the     *)
(* server can stop between two commits.                                    *)
(***************************************************************************)
EXTENDS Naturals, Sequences, FiniteSets

CONSTANTS
  Bodies,       \* complete contents of the form, as intakeSchema lets them through
  Owners,       \* active coordinators
  MaxKeys,      \* bound on the Idempotency-Keys the browser draws
  MaxPosts,     \* bound on the requests of the form
  MaxIdFaults,  \* bound on timeouts, reloads, requests over the limit and crashes
  MaxReviews    \* bound on the version of a record

ASSUME IntakeAssumption ==
  /\ Bodies # {}
  /\ {MaxKeys, MaxPosts, MaxReviews} \subseteq Nat \ {0}
  /\ MaxIdFaults \in Nat

VARIABLES
  idForm,          \* the form: content, key and what it is doing
  idPosts,         \* the requests sent and how far the server is with them
  idReservations,  \* public_intake_idempotency, by key
  idRecords,       \* public_intake_submissions, by key (unique)
  idPage,          \* the review page of one record, and the review or privacy action under way
  idFaults

idVars == <<idForm, idPosts, idReservations, idRecords, idPage, idFaults>>

Unfilled == "unfilled"
Absent == "absent"
Nobody0 == "nobody"
RequestKeys == 1..MaxKeys

NoRecord ==
  [status |-> Absent, hash |-> Unfilled, version |-> 0, owner |-> Nobody0, notes |-> FALSE,
   personal |-> FALSE, withdrawn |-> FALSE, anonymized |-> FALSE, deleted |-> FALSE]
\* personal: the contact, the payload and the consent snapshot.
NewRecord(body) ==
  [NoRecord EXCEPT !.status = "NEW", !.hash = body, !.version = 1, !.personal = TRUE]
Unreserved == [status |-> Absent, hash |-> Unfilled]
NoReview == [stage |-> "none", target |-> Absent, owner |-> Nobody0, expected |-> 0]
NoPrivacy == [stage |-> "none", op |-> "none", read |-> NoRecord]
ClosedPage == [key |-> 0, shown |-> NoRecord, review |-> NoReview, privacy |-> NoPrivacy]

\* A visitor on the contact page, or a coordinator with a submission to review: what
\* is stored the form never touches again, so the two halves are explored apart.
Visiting == idForm.stage # "closed"
IdInit ==
  /\ \/ /\ idForm = [body |-> Unfilled, key |-> 1, stage |-> "editing", post |-> 0]
        /\ idReservations = [k \in RequestKeys |-> Unreserved]
        /\ idRecords = [k \in RequestKeys |-> NoRecord]
     \/ LET body == CHOOSE b \in Bodies : TRUE IN
          /\ idForm = [body |-> Unfilled, key |-> 1, stage |-> "closed", post |-> 0]
          /\ idReservations = [k \in RequestKeys |->
               IF k = 1 THEN [status |-> "COMPLETED", hash |-> body] ELSE Unreserved]
          /\ idRecords = [k \in RequestKeys |-> IF k = 1 THEN NewRecord(body) ELSE NoRecord]
  /\ idPosts = <<>>
  /\ idPage = ClosedPage
  /\ idFaults = 0

IdFault == idFaults < MaxIdFaults /\ idFaults' = idFaults + 1
idServer == <<idReservations, idRecords>>

----------------------------------------------------------------------------
(* The form. *)

\* The inputs are never locked; after the receipt they are hidden.
FillIn(body) ==
  /\ idForm.stage \in {"editing", "posting"}
  /\ idForm' = [idForm EXCEPT !.body = body]
  /\ UNCHANGED <<idPosts, idServer, idPage, idFaults>>

\* The schema lets complete contents through; the timer starts with the request.
SubmitForm ==
  /\ idForm.stage = "editing"
  /\ idForm.body # Unfilled
  /\ Len(idPosts) < MaxPosts
  /\ idPosts' = Append(idPosts, [key |-> idForm.key, body |-> idForm.body, stage |-> "sent",
                                 found |-> Unreserved, answer |-> "none"])
  /\ idForm' = [idForm EXCEPT !.stage = "posting", !.post = Len(idPosts) + 1]
  /\ UNCHANGED <<idServer, idPage, idFaults>>

\* The answer arrives.  A refusal leaves the form as it is, key included.
ReadAnswer ==
  /\ idForm.stage = "posting"
  /\ idPosts[idForm.post].answer # "none"
  /\ idForm' = [idForm EXCEPT !.stage =
                  IF idPosts[idForm.post].answer = "received" THEN "received" ELSE "editing"]
  /\ UNCHANGED <<idPosts, idServer, idPage, idFaults>>

\* After 15 seconds, or when the connection fails: "Your form is still filled in".
AbortSubmit ==
  /\ idForm.stage = "posting"
  /\ idForm' = [idForm EXCEPT !.stage = "editing"]
  /\ IdFault
  /\ UNCHANGED <<idPosts, idServer, idPage>>

\* "Submit another request" after the receipt, or a reload of the page before it: an
\* empty form and a new key.
NewRequest ==
  /\ Visiting /\ idForm.key < MaxKeys
  /\ idForm' = [body |-> Unfilled, key |-> idForm.key + 1, stage |-> "editing", post |-> 0]
  /\ idForm.stage # "received" => idFaults < MaxIdFaults
  /\ idFaults' = IF idForm.stage = "received" THEN idFaults ELSE idFaults + 1
  /\ UNCHANGED <<idPosts, idServer, idPage>>

----------------------------------------------------------------------------
(* The handler, commit by commit. *)

Stage(n, stage) == idPosts' = [idPosts EXCEPT ![n].stage = stage]
AnswerPost(n, answer) ==
  idPosts' = [idPosts EXCEPT ![n].stage = "done", ![n].answer = answer]

\* Mutant: a key answers for whatever content it is used with.
SameBodyAny(hash, body) == hash \in Bodies
SameBody(hash, body) == hash = body

\* reserve_idempotency reads the reservation without a lock ...
LookUp(n) ==
  /\ idPosts[n].stage = "sent"
  /\ idPosts' = [idPosts EXCEPT ![n].stage = "looked", ![n].found = idReservations[idPosts[n].key]]
  /\ UNCHANGED <<idForm, idServer, idPage, idFaults>>

\* ... answers from it ...
AnswerFromKey(n, found) ==
  /\ found.status # Absent
  /\ \/ ~SameBody(found.hash, idPosts[n].body) /\ AnswerPost(n, "conflict")
     \/ /\ SameBody(found.hash, idPosts[n].body)
        /\ found.status = "COMPLETED" /\ AnswerPost(n, "received")
     \/ /\ SameBody(found.hash, idPosts[n].body)
        /\ found.status = "RESERVED" /\ AnswerPost(n, "conflict")
  /\ UNCHANGED <<idForm, idServer, idPage, idFaults>>
Replay(n) == idPosts[n].stage = "looked" /\ AnswerFromKey(n, idPosts[n].found)

\* ... takes a failed one over ...
TakeOver(n) ==
  LET p == idPosts[n] IN
  /\ p.stage = "looked"
  /\ p.found.status = "FAILED" /\ SameBody(p.found.hash, p.body)
  /\ idReservations' = [idReservations EXCEPT ![p.key].status = "RESERVED"]
  /\ Stage(n, "reserved")
  /\ UNCHANGED <<idForm, idRecords, idPage, idFaults>>

\* ... or inserts one; if another request did so first, its row answers.
Reserve(n) ==
  LET p == idPosts[n] IN
  /\ p.stage = "looked" /\ p.found.status = Absent
  /\ idReservations[p.key].status = Absent
  /\ idReservations' = [idReservations EXCEPT ![p.key] = [status |-> "RESERVED", hash |-> p.body]]
  /\ Stage(n, "reserved")
  /\ UNCHANGED <<idForm, idRecords, idPage, idFaults>>
ReserveBeaten(n) ==
  LET p == idPosts[n]  row == idReservations[p.key] IN
  /\ p.stage = "looked" /\ p.found.status = Absent
  /\ \/ AnswerFromKey(n, row)
     \/ /\ row.status = "FAILED" /\ SameBody(row.hash, p.body)
        /\ AnswerPost(n, "conflict")
        /\ UNCHANGED <<idForm, idServer, idPage, idFaults>>

\* create_submission: the record of the key if there is one (its reservation stays as
\* it is), else a record and the completed reservation in one commit.
AnswerFromRecord(n) ==
  LET p == idPosts[n] IN
  /\ p.stage = "reserved"
  /\ idRecords[p.key].status # Absent
  /\ AnswerPost(n, IF SameBody(idRecords[p.key].hash, p.body) THEN "received" ELSE "conflict")
  /\ UNCHANGED <<idForm, idServer, idPage, idFaults>>
CreateSubmission(n) ==
  LET p == idPosts[n] IN
  /\ p.stage = "reserved"
  /\ idRecords[p.key].status = Absent
  /\ idRecords' = [idRecords EXCEPT ![p.key] = NewRecord(p.body)]
  /\ idReservations' = [idReservations EXCEPT ![p.key].status = "COMPLETED"]
  /\ AnswerPost(n, "received")
  /\ UNCHANGED <<idForm, idPage, idFaults>>

\* Over the limit (429) or any other exception: mark_idempotency_failed reads the
\* reservation, then writes it.
FailPost(n) ==
  /\ idPosts[n].stage = "reserved"
  /\ IdFault
  /\ IF idReservations[idPosts[n].key].status # "COMPLETED"
     THEN Stage(n, "failing") ELSE AnswerPost(n, "error")
  /\ UNCHANGED <<idForm, idServer, idPage>>
MarkFailed(n) ==
  /\ idPosts[n].stage = "failing"
  /\ idReservations' = [idReservations EXCEPT ![idPosts[n].key].status = "FAILED"]
  /\ AnswerPost(n, "error")
  /\ UNCHANGED <<idForm, idRecords, idPage, idFaults>>

\* The process ends: what was committed stays, the reservation included.
CrashPost(n) ==
  /\ idPosts[n].stage \in {"sent", "looked", "reserved", "failing"}
  /\ IdFault
  /\ AnswerPost(n, "error")
  /\ UNCHANGED <<idForm, idServer, idPage>>

ServePost(n) ==
  \/ LookUp(n)
  \/ Replay(n)
  \/ TakeOver(n)
  \/ Reserve(n)
  \/ ReserveBeaten(n)
  \/ AnswerFromRecord(n)
  \/ CreateSubmission(n)
  \/ FailPost(n)
  \/ MarkFailed(n)
  \/ CrashPost(n)

----------------------------------------------------------------------------
(* The review page. *)

\* _ALLOWED_TRANSITIONS, and allowed_transitions of the view.
ReviewTable ==
  [s \in {"NEW", "IN_REVIEW", "QUALIFIED", "REJECTED", "CONVERTED"} |->
     CASE s = "NEW" -> {"IN_REVIEW", "REJECTED"}
       [] s = "IN_REVIEW" -> {"QUALIFIED", "REJECTED"}
       [] s = "QUALIFIED" -> {"CONVERTED", "REJECTED"}
       [] s = "REJECTED" -> {"IN_REVIEW"}
       [] OTHER -> {}]
Private(r) == r.anonymized \/ r.withdrawn
OfferedReviews(r) ==
  IF r.status = Absent \/ r.deleted \/ Private(r) THEN {} ELSE ReviewTable[r.status]

Fetched(k) == [idPage EXCEPT !.key = k, !.shown = idRecords[k]]

\* The detail query, on opening a record or "Reload latest record".
OpenRecord(k) ==
  /\ idPage.review.stage = "none" /\ idPage.privacy.stage = "none"
  /\ idRecords[k].status # Absent /\ ~idRecords[k].deleted
  /\ idPage' = Fetched(k)
  /\ UNCHANGED <<idForm, idPosts, idServer, idFaults>>

\* "Save review": a transition on offer with what it requires, the version on show,
\* and the owner picked on this page; an owner shown but not picked is sent as none.
SaveReview(target, owner) ==
  /\ idPage.review.stage = "none"
  /\ target \in OfferedReviews(idPage.shown)
  /\ idPage' = [idPage EXCEPT !.review =
                  [stage |-> "sent", target |-> target, owner |-> owner,
                   expected |-> idPage.shown.version]]
  /\ UNCHANGED <<idForm, idPosts, idServer, idFaults>>

\* update_submission under the row's lock.  Mutant: a withdrawal does not stop it.
ServeReviewUnguarded ==
  LET v == idPage.review  k == idPage.key  row == idRecords[k] IN
  /\ v.stage = "sent"
  /\ row.version < MaxReviews
  /\ ~row.deleted /\ row.version = v.expected
  /\ v.target \in ReviewTable[row.status]
  /\ idRecords' = [idRecords EXCEPT ![k].status = v.target, ![k].owner = v.owner,
                     ![k].notes = v.target \in {"QUALIFIED", "REJECTED", "CONVERTED"},
                     ![k].version = @ + 1]
  /\ idPage' = [idPage EXCEPT !.review.stage = "done"]
  /\ UNCHANGED <<idForm, idPosts, idReservations, idFaults>>
ServeReview ==
  LET v == idPage.review  k == idPage.key  row == idRecords[k] IN
  /\ v.stage = "sent"
  /\ row.version < MaxReviews
  /\ ~row.deleted /\ ~Private(row) /\ row.version = v.expected
  /\ v.target \in ReviewTable[row.status]
  /\ idRecords' = [idRecords EXCEPT ![k].status = v.target, ![k].owner = v.owner,
                     ![k].notes = v.target \in {"QUALIFIED", "REJECTED", "CONVERTED"},
                     ![k].version = @ + 1]
  /\ idPage' = [idPage EXCEPT !.review.stage = "done"]
  /\ UNCHANGED <<idForm, idPosts, idReservations, idFaults>>
\* onSuccess shows the answer and refetches; an error leaves the page as it is.
ReviewAnswered ==
  /\ idPage.review.stage = "done"
  /\ idPage' = [Fetched(idPage.key) EXCEPT !.review = NoReview]
  /\ UNCHANGED <<idForm, idPosts, idServer, idFaults>>
ReviewRefused ==
  LET v == idPage.review  row == idRecords[idPage.key] IN
  /\ v.stage = "sent"
  /\ row.deleted \/ Private(row) \/ row.version # v.expected
  /\ idPage' = [idPage EXCEPT !.review = NoReview]
  /\ UNCHANGED <<idForm, idPosts, idServer, idFaults>>

\* Another coordinator's review of the same record, likewise under the lock.
ReviewElsewhere(k, target, owner) ==
  LET row == idRecords[k] IN
  /\ row.version < MaxReviews
  /\ target \in OfferedReviews(row)
  /\ idRecords' = [idRecords EXCEPT ![k].status = target, ![k].owner = owner,
                     ![k].notes = target \in {"QUALIFIED", "REJECTED", "CONVERTED"},
                     ![k].version = @ + 1]
  /\ UNCHANGED <<idForm, idPosts, idReservations, idPage, idFaults>>

\* Privacy actions of the page: a second mutation, not held back by the review.
PressPrivacy(op) ==
  /\ idPage.key # 0
  /\ idPage.privacy.stage = "none"
  /\ ~idPage.shown.anonymized
  /\ idPage' = [idPage EXCEPT !.privacy = [stage |-> "sent", op |-> op, read |-> NoRecord]]
  /\ UNCHANGED <<idForm, idPosts, idServer, idFaults>>

\* get_submission takes no lock, and only the columns that differ from the row as it
\* was read are written: an owner or notes set in between survive.
ReadForPrivacy ==
  LET row == idRecords[idPage.key] IN
  /\ idPage.privacy.stage = "sent"
  /\ idPage' = [idPage EXCEPT
       !.privacy.stage = IF row.deleted \/ row.anonymized THEN "done" ELSE "read",
       !.privacy.read = row]
  /\ UNCHANGED <<idForm, idPosts, idServer, idFaults>>
Redact(row, read) ==
  [row EXCEPT !.personal = FALSE, !.anonymized = TRUE, !.withdrawn = TRUE,
              !.owner = IF read.owner = Nobody0 THEN @ ELSE Nobody0,
              !.notes = IF read.notes THEN FALSE ELSE @]
WritePrivacy ==
  LET k == idPage.key  v == idPage.privacy IN
  /\ v.stage = "read"
  /\ idRecords' = [idRecords EXCEPT ![k] =
       IF v.op = "withdraw" THEN [@ EXCEPT !.withdrawn = TRUE] ELSE Redact(@, v.read)]
  /\ idPage' = [idPage EXCEPT !.privacy.stage = "done"]
  /\ UNCHANGED <<idForm, idPosts, idReservations, idFaults>>
PrivacyAnswered ==
  /\ idPage.privacy.stage = "done"
  /\ idPage' = [Fetched(idPage.key) EXCEPT !.privacy = NoPrivacy]
  /\ UNCHANGED <<idForm, idPosts, idServer, idFaults>>

\* delete_submission, which no page of the web application offers.
DeleteRecord(k) ==
  /\ idRecords[k].status # Absent /\ ~idRecords[k].deleted
  /\ idRecords' = [idRecords EXCEPT ![k] = [Redact(@, @) EXCEPT !.deleted = TRUE]]
  /\ UNCHANGED <<idForm, idPosts, idReservations, idPage, idFaults>>
\* anonymize_expired_submissions: the retention sweep locks the rows it takes.
SweepRecord(k) ==
  /\ idRecords[k].status # Absent
  /\ ~idRecords[k].anonymized /\ ~idRecords[k].deleted
  /\ idRecords' = [idRecords EXCEPT ![k] = Redact(@, @)]
  /\ UNCHANGED <<idForm, idPosts, idReservations, idPage, idFaults>>

IdFormSteps ==
  \/ \E body \in Bodies : FillIn(body)
  \/ SubmitForm
  \/ ReadAnswer
  \/ AbortSubmit
  \/ NewRequest
IdReviewSteps ==
  \/ \E k \in RequestKeys : OpenRecord(k)
  \/ \E target \in DOMAIN ReviewTable, owner \in Owners \cup {Nobody0} : SaveReview(target, owner)
  \/ ServeReview
  \/ ReviewAnswered
  \/ ReviewRefused
  \/ \E k \in RequestKeys, target \in DOMAIN ReviewTable, owner \in Owners \cup {Nobody0} :
       ReviewElsewhere(k, target, owner)
IdPrivacySteps ==
  \/ \E op \in {"withdraw", "anonymize"} : PressPrivacy(op)
  \/ ReadForPrivacy
  \/ WritePrivacy
  \/ PrivacyAnswered
  \/ \E k \in RequestKeys : DeleteRecord(k) \/ SweepRecord(k)
IdNext ==
  \/ IdFormSteps
  \/ \E n \in 1..Len(idPosts) : ServePost(n)
  \/ ~Visiting /\ IdReviewSteps
  \/ ~Visiting /\ IdPrivacySteps

IdSpec == IdInit /\ [][IdNext]_idVars

----------------------------------------------------------------------------
(* Properties. *)

\* "Received" is true: the record of the form's key holds what the request said, even
\* when that key was tried before with other contents, by requests still under way,
\* taken over after a failure or cut off by a crash; and a reservation that counts as
\* completed has its record.
ReceivedIsStored ==
  /\ idForm.stage = "received" =>
       /\ idRecords[idForm.key].status # Absent
       /\ idRecords[idForm.key].hash = idPosts[idForm.post].body
  /\ \A k \in RequestKeys :
       idReservations[k].status = "COMPLETED" => idRecords[k].hash = idReservations[k].hash

\* docs/public-intake-privacy.md: an anonymized or deleted record is terminal and cannot
\* re-enter review.  No interleaving of reviews, privacy actions and the sweep moves
\* one, brings its contents back or undoes its withdrawal.
PrivacyIsTerminal ==
  [][\A k \in RequestKeys :
       Private(idRecords[k]) =>
         /\ idRecords'[k].status = idRecords[k].status
         /\ idRecords'[k].withdrawn
         /\ idRecords[k].anonymized => idRecords'[k].anonymized /\ ~idRecords'[k].personal]_idVars
=============================================================================
