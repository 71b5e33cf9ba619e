--------------------------- MODULE SubmissionDesk ---------------------------
(***************************************************************************)
(* The submission workspace of an internship assignment                    *)
(* (internship-submission-editor.tsx with its queries) and the handlers it *)
(* calls (app/internships/service.py, app/worker.py): a draft with one     *)
(* required text and one required file.  Saving, uploading and finalizing  *)
(* are mutations of their own, which the buttons keep apart only in part.  *)
(* save_submission and finalize_submission hold the row's lock;            *)
(* create_submission_draft, which empties a draft, and the worker that     *)
(* gives up a scan do not.                                                 *)
(***************************************************************************)
EXTENDS Naturals, Sequences, FiniteSets

CONSTANTS
  Texts,          \* what the student may type, besides nothing
  MaxUploads,     \* bound on the uploads begun
  MaxSdVersion,   \* bound on the saves of the draft
  MaxReloads      \* bound on reloads, other pages, scans given up and lapses, together

VARIABLES
  sdSubmission,   \* the row of the draft
  sdSealed,       \* what canonical_hash and artifact_snapshot were taken of
  sdHeld,         \* a finalization has passed its checks and holds the row's lock
  sdStart,        \* the columns that a create_submission_draft under way will empty
  sdUploads,      \* internship_uploads by state, in the order of their creation
  sdStored,       \* the uploads whose object is in the store
  sdLapsed,       \* the uploads whose expires_at is past
  sdCache,        \* the draft in the query cache
  sdTyped,        \* the fields of the form
  sdSeen,         \* the upload statuses the page has
  sdVisible,      \* the page is in the foreground
  sdSave, sdUpload, sdFinalize,  \* the three mutations
  sdConfirmed,    \* what the form showed whenever a finalization was pressed
  sdReloads

sdRow == <<sdSubmission, sdSealed, sdHeld, sdStart>>
sdFiles == <<sdUploads, sdStored, sdLapsed>>
sdPage == <<sdCache, sdTyped, sdSeen, sdVisible>>
sdOps == <<sdSave, sdUpload, sdFinalize>>
sdCounts == <<sdConfirmed, sdReloads>>
sdVars == <<sdRow, sdFiles, sdPage, sdOps, sdCounts>>

Blank == "blank"
Draft0 == [version |-> 1, state |-> "DRAFT", text |-> Blank, files |-> {}]
Idle == [stage |-> "idle", version |-> 0, text |-> Blank, files |-> {}, id |-> 0]
Unknown == "unknown"
Failed == "failed"

\* Mutant: a quarantined upload is taken for settled.
PendingUploadStatesFew == {"INITIATED", "UPLOADED"}
PendingUploadStates == {"INITIATED", "UPLOADED", "QUARANTINED"}

SdInit ==
  /\ sdSubmission = Draft0
  /\ sdSealed = [text |-> Blank, files |-> {}]
  /\ sdHeld = FALSE /\ sdStart = {}
  /\ sdUploads = <<>> /\ sdStored = {} /\ sdLapsed = {}
  /\ sdCache = Draft0
  /\ sdTyped = Blank
  /\ sdSeen = [n \in 1..MaxUploads |-> Unknown]
  /\ sdVisible = TRUE
  /\ sdSave = Idle /\ sdUpload = Idle /\ sdFinalize = Idle
  /\ sdConfirmed = {}
  /\ sdReloads = 0

----------------------------------------------------------------------------
(* What the buttons ask for. *)

Immutable == sdCache.state # "DRAFT"
Pending(op) == op.stage # "idle"
UploadStatusesLoaded == \A n \in sdCache.files : sdSeen[n] \notin {Unknown, Failed}
AllAttachedUploadsClean == \A n \in sdCache.files : sdSeen[n] = "CLEAN"
RequiredArtifactsReady == sdTyped # Blank /\ \E n \in sdCache.files : sdSeen[n] = "CLEAN"

SaveEnabled == ~Immutable /\ ~Pending(sdSave) /\ ~Pending(sdUpload)
UploadEnabled == ~Immutable /\ ~Pending(sdUpload) /\ ~Pending(sdSave) /\ UploadStatusesLoaded
FinalizeEnabled ==
  /\ ~Immutable
  /\ ~Pending(sdFinalize) /\ ~Pending(sdSave) /\ ~Pending(sdUpload)
  /\ UploadStatusesLoaded /\ RequiredArtifactsReady /\ AllAttachedUploadsClean

----------------------------------------------------------------------------
(* The server's side of the requests. *)

\* save_submission, once it has the lock: only a draft, only the version the caller has
\* seen.
Put(op) ==
  /\ ~sdHeld
  /\ sdSubmission.version < MaxSdVersion
  /\ sdSubmission.state = "DRAFT"
  /\ sdSubmission.version = op.version
  /\ sdSubmission' = [sdSubmission EXCEPT !.version = @ + 1, !.text = op.text, !.files = op.files]
  /\ UNCHANGED <<sdSealed, sdHeld, sdStart>>
PutRefused(op) ==
  ~sdHeld /\ (sdSubmission.state # "DRAFT" \/ sdSubmission.version # op.version)

\* finalize_submission: every upload clean, unexpired and in the store, every requirement
\* met.
Acceptable ==
  /\ \A n \in sdSubmission.files : sdUploads[n] = "CLEAN" /\ n \in sdStored \ sdLapsed
  /\ sdSubmission.files # {} /\ sdSubmission.text # Blank
\* Mutant: whatever version there is by now is finalized.
FinalizableLatest(op) == sdSubmission.state = "DRAFT" /\ Acceptable
Finalizable(op) ==
  /\ sdSubmission.state = "DRAFT"
  /\ sdSubmission.version = op.version
  /\ Acceptable

\* The uploads are not locked: they become ATTACHED whatever they are by now.
CommitFinalize ==
  /\ sdHeld
  /\ sdHeld' = FALSE
  /\ sdSubmission' = [sdSubmission EXCEPT !.state = "FINALIZED"]
  /\ sdSealed' = [text |-> sdSubmission.text, files |-> sdSubmission.files]
  /\ sdUploads' = [n \in 1..Len(sdUploads) |->
                     IF n \in sdSubmission.files THEN "ATTACHED" ELSE sdUploads[n]]
  /\ sdFinalize' = IF sdFinalize.stage = "checked"
                   THEN [sdFinalize EXCEPT !.stage = "final", !.text = sdSubmission.text,
                                           !.files = sdSubmission.files]
                   ELSE sdFinalize
  /\ UNCHANGED <<sdStart, sdStored, sdLapsed, sdPage, sdSave, sdUpload, sdCounts>>
\* The process ends, or the commit fails: the lock is released and nothing was written.
AbortFinalize ==
  /\ sdHeld
  /\ sdHeld' = FALSE
  /\ sdFinalize' = IF sdFinalize.stage = "checked" THEN Idle ELSE sdFinalize
  /\ UNCHANGED <<sdSubmission, sdSealed, sdStart, sdFiles, sdPage, sdSave, sdUpload, sdCounts>>

\* "Start a draft submission" on the page of the assignment.  create_submission_draft reads
\* the state without the lock, and its UPDATE names the columns that differ from what it
\* read.  One that finds the submission finalized opens another, which is another page's.
BeginStart ==
  /\ sdReloads < MaxReloads
  /\ sdReloads' = sdReloads + 1
  /\ sdStart = {}
  /\ sdSubmission.state = "DRAFT"
  /\ sdStart' = {column \in {"text", "files"} :
                   \/ column = "text" /\ sdSubmission.text # Blank
                   \/ column = "files" /\ sdSubmission.files # {}}
  /\ UNCHANGED <<sdSubmission, sdSealed, sdHeld, sdFiles, sdPage, sdOps, sdConfirmed>>
\* The UPDATE waits for the lock and then finds its row, in whatever state it is: the
\* version does not move.
CommitStart ==
  /\ sdStart # {}
  /\ ~sdHeld
  /\ sdSubmission' = [sdSubmission EXCEPT !.text = IF "text" \in sdStart THEN Blank ELSE @,
                                          !.files = IF "files" \in sdStart THEN {} ELSE @]
  /\ sdStart' = {}
  /\ UNCHANGED <<sdSealed, sdHeld, sdFiles, sdPage, sdOps, sdCounts>>

\* The same draft saved from another device.
SaveElsewhere(text) ==
  /\ sdReloads < MaxReloads
  /\ sdReloads' = sdReloads + 1
  /\ ~sdHeld
  /\ sdSubmission.state = "DRAFT"
  /\ sdSubmission' = [sdSubmission EXCEPT !.version = @ + 1, !.text = text]
  /\ UNCHANGED <<sdSealed, sdHeld, sdStart, sdFiles, sdPage, sdOps, sdConfirmed>>

----------------------------------------------------------------------------
(* The worker, and the time. *)

\* The handler of process_malware_scans, again after a requeue: the object is read, and
\* deleted when it is rejected.
Scan(n) ==
  /\ sdUploads[n] \in {"QUARANTINED", "SCAN_FAILED"}
  /\ n \in sdStored
  /\ \/ sdUploads' = [sdUploads EXCEPT ![n] = "CLEAN"] /\ UNCHANGED sdStored
     \/ sdUploads' = [sdUploads EXCEPT ![n] = "REJECTED"] /\ sdStored' = sdStored \ {n}
  /\ UNCHANGED <<sdRow, sdLapsed, sdPage, sdOps, sdCounts>>

\* The fifth attempt of the event failed, whatever the attempts before it did: the upload
\* is marked without its lock and in any state.  The object goes first, so a worker that
\* ends in between leaves the state as it was, and the object may stay behind instead.
ScanGivenUp(n) ==
  /\ sdUploads[n] \notin {"INITIATED", "UPLOADED"}
  /\ sdReloads < MaxReloads
  /\ sdReloads' = sdReloads + 1
  /\ \E state \in {"SCAN_FAILED", sdUploads[n]} :
       /\ sdUploads' = [sdUploads EXCEPT ![n] = state]
       /\ sdStored' = sdStored \ {n} \/ sdStored' = sdStored
  /\ UNCHANGED <<sdRow, sdLapsed, sdPage, sdOps, sdConfirmed>>

Lapse(n) ==
  /\ n \notin sdLapsed
  /\ sdReloads < MaxReloads
  /\ sdReloads' = sdReloads + 1
  /\ sdLapsed' = sdLapsed \cup {n}
  /\ UNCHANGED <<sdRow, sdUploads, sdStored, sdPage, sdOps, sdConfirmed>>
\* The retention sweep, and a content or completion that comes too late.
Expire(n) ==
  /\ n \in sdLapsed
  /\ sdUploads[n] \notin {"ATTACHED", "EXPIRED"}
  /\ sdUploads' = [sdUploads EXCEPT ![n] = "EXPIRED"]
  /\ sdStored' = sdStored \ {n}
  /\ UNCHANGED <<sdRow, sdLapsed, sdPage, sdOps, sdCounts>>

----------------------------------------------------------------------------
(* The form and the save button. *)

Type(text) ==
  /\ ~Immutable
  /\ sdTyped' = text
  /\ UNCHANGED <<sdRow, sdFiles, sdCache, sdSeen, sdVisible, sdOps, sdCounts>>

Request(stage) ==
  [stage |-> stage, version |-> sdCache.version, text |-> sdTyped, files |-> sdCache.files, id |-> 0]

PressSave ==
  /\ SaveEnabled
  /\ sdSave' = Request("sent")
  /\ UNCHANGED <<sdRow, sdFiles, sdPage, sdUpload, sdFinalize, sdCounts>>
ServeSave ==
  /\ sdSave.stage = "sent"
  /\ Put(sdSave)
  /\ sdSave' = [sdSave EXCEPT !.stage = "saved"]
  /\ UNCHANGED <<sdFiles, sdPage, sdUpload, sdFinalize, sdCounts>>
\* onSuccess: the answer replaces the cached draft and the form, typing meanwhile included.
SaveAnswered ==
  /\ sdSave.stage = "saved"
  /\ sdCache' = [version |-> sdSave.version + 1, state |-> "DRAFT", text |-> sdSave.text,
                 files |-> sdSave.files]
  /\ sdTyped' = sdSave.text
  /\ sdSave' = Idle
  /\ UNCHANGED <<sdRow, sdFiles, sdSeen, sdVisible, sdUpload, sdFinalize, sdCounts>>
SaveFails ==
  /\ \/ sdSave.stage = "sent" /\ PutRefused(sdSave)
     \/ sdSave.stage = "saved"
  /\ sdSave' = Idle
  /\ UNCHANGED <<sdRow, sdFiles, sdPage, sdUpload, sdFinalize, sdCounts>>

----------------------------------------------------------------------------
(* Uploading: initiate, content, complete, then the draft is saved with it. *)

PressUpload ==
  /\ UploadEnabled
  /\ Len(sdUploads) < MaxUploads
  /\ sdUpload' = [Idle EXCEPT !.stage = "initiate"]
  /\ UNCHANGED <<sdRow, sdFiles, sdPage, sdSave, sdFinalize, sdCounts>>

Initiate ==
  /\ sdUpload.stage = "initiate"
  /\ sdUploads' = Append(sdUploads, "INITIATED")
  /\ sdUpload' = [Idle EXCEPT !.stage = "content", !.id = Len(sdUploads) + 1]
  /\ UNCHANGED <<sdRow, sdStored, sdLapsed, sdPage, sdSave, sdFinalize, sdCounts>>
\* The stream has the declared size and hash.
ReceiveContent ==
  /\ sdUpload.stage = "content"
  /\ sdUploads[sdUpload.id] = "INITIATED" /\ sdUpload.id \notin sdLapsed
  /\ sdUploads' = [sdUploads EXCEPT ![sdUpload.id] = "UPLOADED"]
  /\ sdStored' = sdStored \cup {sdUpload.id}
  /\ sdUpload' = [sdUpload EXCEPT !.stage = "complete"]
  /\ UNCHANGED <<sdRow, sdLapsed, sdPage, sdSave, sdFinalize, sdCounts>>
\* Hosted: the object waits for the worker.
CompleteUpload ==
  /\ sdUpload.stage = "complete"
  /\ sdUploads[sdUpload.id] = "UPLOADED" /\ sdUpload.id \notin sdLapsed
  /\ sdUploads' = [sdUploads EXCEPT ![sdUpload.id] = "QUARANTINED"]
  /\ sdUpload' = [sdUpload EXCEPT !.stage = "persist"]
  /\ UNCHANGED <<sdRow, sdStored, sdLapsed, sdPage, sdSave, sdFinalize, sdCounts>>
\* persistUpload: the cached draft with the file, in place of one of the same type.
PersistUpload ==
  /\ sdUpload.stage = "persist"
  /\ sdUpload' = [stage |-> "sent", version |-> sdCache.version, text |-> sdCache.text,
                  files |-> {sdUpload.id}, id |-> sdUpload.id]
  /\ UNCHANGED <<sdRow, sdFiles, sdPage, sdSave, sdFinalize, sdCounts>>
ServePersist ==
  /\ sdUpload.stage = "sent"
  /\ Put(sdUpload)
  /\ sdUpload' = [sdUpload EXCEPT !.stage = "saved"]
  /\ UNCHANGED <<sdFiles, sdPage, sdSave, sdFinalize, sdCounts>>
UploadAnswered ==
  /\ sdUpload.stage = "saved"
  /\ sdCache' = [version |-> sdUpload.version + 1, state |-> "DRAFT", text |-> sdUpload.text,
                 files |-> sdUpload.files]
  /\ sdSeen' = [sdSeen EXCEPT ![sdUpload.id] = "QUARANTINED"]
  /\ sdUpload' = Idle
  /\ UNCHANGED <<sdRow, sdFiles, sdTyped, sdVisible, sdSave, sdFinalize, sdCounts>>
\* Any step may fail; an upload that was begun stays behind.
UploadFails ==
  /\ \/ sdUpload.stage \in {"content", "complete", "saved"}
     \/ sdUpload.stage = "sent" /\ PutRefused(sdUpload)
  /\ sdUpload' = Idle
  /\ UNCHANGED <<sdRow, sdFiles, sdPage, sdSave, sdFinalize, sdCounts>>

\* The query of a file: its first fetch is made wherever the page is, and one that fails
\* is not repeated before the page is loaded again.
FirstFetch(n) ==
  /\ n \in sdCache.files
  /\ sdSeen[n] = Unknown
  /\ \E status \in {sdUploads[n], Failed} : sdSeen' = [sdSeen EXCEPT ![n] = status]
  /\ UNCHANGED <<sdRow, sdFiles, sdCache, sdTyped, sdVisible, sdOps, sdCounts>>
\* refetchInterval, in the foreground alone: as long as the status on show is pending and
\* its expires_at, which no longer changes, lies ahead.
Poll(n) ==
  /\ n \in sdCache.files
  /\ sdVisible
  /\ sdSeen[n] \in PendingUploadStates /\ n \notin sdLapsed
  /\ sdSeen' = [sdSeen EXCEPT ![n] = sdUploads[n]]
  /\ UNCHANGED <<sdRow, sdFiles, sdCache, sdTyped, sdVisible, sdOps, sdCounts>>
\* The student turns to another window, and back.
Look(visible) ==
  /\ sdVisible' = visible
  /\ UNCHANGED <<sdRow, sdFiles, sdCache, sdTyped, sdSeen, sdOps, sdCounts>>

----------------------------------------------------------------------------
(* Finalizing: the form is saved, then that version is finalized. *)

PressFinalize ==
  /\ FinalizeEnabled
  /\ sdFinalize' = Request("sent")
  /\ sdConfirmed' = sdConfirmed \cup {[Request("sent") EXCEPT !.version = @ + 1]}
  /\ UNCHANGED <<sdRow, sdFiles, sdPage, sdSave, sdUpload, sdReloads>>
ServeFinalizeSave ==
  /\ sdFinalize.stage = "sent"
  /\ Put(sdFinalize)
  /\ sdFinalize' = [sdFinalize EXCEPT !.stage = "saved"]
  /\ UNCHANGED <<sdFiles, sdPage, sdSave, sdUpload, sdCounts>>
FinalizeSaved ==
  /\ sdFinalize.stage = "saved"
  /\ sdCache' = [version |-> sdFinalize.version + 1, state |-> "DRAFT", text |-> sdFinalize.text,
                 files |-> sdFinalize.files]
  /\ sdFinalize' = [sdFinalize EXCEPT !.stage = "posted", !.version = @ + 1]
  /\ UNCHANGED <<sdRow, sdFiles, sdTyped, sdSeen, sdVisible, sdSave, sdUpload, sdCounts>>
\* finalize_submission up to its commit; the objects are read meanwhile.
CheckFinalize ==
  /\ sdFinalize.stage = "posted"
  /\ ~sdHeld
  /\ Finalizable(sdFinalize)
  /\ sdHeld' = TRUE
  /\ sdFinalize' = [sdFinalize EXCEPT !.stage = "checked"]
  /\ UNCHANGED <<sdSubmission, sdSealed, sdStart, sdFiles, sdPage, sdSave, sdUpload, sdCounts>>
FinalizeAnswered ==
  /\ sdFinalize.stage = "final"
  /\ sdCache' = [version |-> sdFinalize.version, state |-> "FINALIZED",
                 text |-> sdFinalize.text, files |-> sdFinalize.files]
  /\ sdTyped' = sdFinalize.text
  /\ sdFinalize' = Idle
  /\ UNCHANGED <<sdRow, sdFiles, sdSeen, sdVisible, sdSave, sdUpload, sdCounts>>
FinalizeFails ==
  /\ \/ sdFinalize.stage = "sent" /\ PutRefused(sdFinalize)
     \/ sdFinalize.stage \in {"saved", "posted", "checked", "final"}
  /\ sdFinalize' = Idle
  /\ UNCHANGED <<sdRow, sdFiles, sdPage, sdSave, sdUpload, sdCounts>>

\* "Refresh the page to reconcile the latest version": the form is filled in anew.
Reload ==
  /\ sdReloads < MaxReloads
  /\ sdReloads' = sdReloads + 1
  /\ sdCache' = sdSubmission
  /\ sdTyped' = sdSubmission.text
  /\ sdSeen' = [n \in 1..MaxUploads |-> Unknown]
  /\ sdSave' = Idle /\ sdUpload' = Idle /\ sdFinalize' = Idle
  /\ UNCHANGED <<sdRow, sdFiles, sdVisible, sdConfirmed>>

\* A page in the background is not pressed.
SdPress ==
  /\ sdVisible
  /\ \/ \E text \in Texts : Type(text)
     \/ PressSave
     \/ PressUpload
     \/ PressFinalize
     \/ Reload
SdElsewhere ==
  \/ \E text \in Texts : SaveElsewhere(text)
  \/ BeginStart
  \/ CommitStart
  \/ \E visible \in BOOLEAN : Look(visible)
SdSteps ==
  \/ ServeSave
  \/ SaveAnswered
  \/ SaveFails
  \/ Initiate
  \/ ReceiveContent
  \/ CompleteUpload
  \/ PersistUpload
  \/ ServePersist
  \/ UploadAnswered
  \/ UploadFails
  \/ ServeFinalizeSave
  \/ FinalizeSaved
  \/ CheckFinalize
  \/ CommitFinalize
  \/ AbortFinalize
  \/ FinalizeAnswered
  \/ FinalizeFails
SdWatch ==
  \E n \in 1..Len(sdUploads) :
    \/ Scan(n)
    \/ ScanGivenUp(n)
    \/ Lapse(n)
    \/ Expire(n)
    \/ FirstFetch(n)
    \/ Poll(n)
SdNext == SdPress \/ SdElsewhere \/ SdSteps \/ SdWatch

\* A poll that is made every two seconds is answered in the end.
SdFairness == \A n \in 1..MaxUploads : WF_sdVars(Poll(n) /\ sdSeen' # sdSeen)
SdSpec == SdInit /\ [][SdNext]_sdVars /\ SdFairness

----------------------------------------------------------------------------
(* Properties. *)

\* What is sealed is what the student had on the screen when pressing the button for that
\* version, text and file, although saves, uploads, another device and a draft started
\* anew interleave with the two requests, and none of its files is one that was never
\* scanned.  The row is not as immutable as its hash: a start that read DRAFT may empty
\* its columns afterwards, but nothing gives it other contents.
Sealed(press) ==
  /\ press.version = sdSubmission.version
  /\ press.text = sdSealed.text /\ press.files = sdSealed.files
Scanned(n) == sdUploads[n] \notin {"INITIATED", "UPLOADED", "QUARANTINED"}
FinalizedAsShown ==
  sdSubmission.state = "FINALIZED" =>
    /\ \E press \in sdConfirmed : Sealed(press)
    /\ sdSubmission.text \in {sdSealed.text, Blank}
    /\ sdSubmission.files \in {sdSealed.files, {}}
    /\ sdSealed.text # Blank /\ sdSealed.files # {}
    /\ \A n \in sdSealed.files : Scanned(n)

\* A file does not stay "scanning" on the screen once the worker is done with it: as long
\* as the page is looked at and the file has not expired, the page gets the new status.
Scanning == {"INITIATED", "UPLOADED", "QUARANTINED"}
VerdictShown ==
  \A n \in 1..MaxUploads :
    (n \in sdCache.files /\ sdSeen[n] \in Scanning /\ Scanned(n))
      ~> \/ sdSeen[n] \notin Scanning \/ n \notin sdCache.files
         \/ n \in sdLapsed \/ ~sdVisible
=============================================================================
