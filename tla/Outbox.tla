------------------------------- MODULE Outbox -------------------------------
(***************************************************************************)
(* The transactional outbox and the workers that deliver notifications     *)
(* from it.  Business transactions insert PENDING events; a worker claims  *)
(* one under its row lock and commits the claim, runs the handler without  *)
(* the lock, and commits the handler's rows together with the result.      *)
(*                                                                         *)
(* Time is abstracted: a backoff may have passed, and a claim may have     *)
(* become stale, whenever the model allows it.  A scheduled job is killed  *)
(* after 1800 s, before its claims are stale after 2100 s (infra/terraform *)
(* /main.tf); a worker started by hand has no such limit, and a claim is   *)
(* then taken from it while it is still at work, which is an overrun.      *)
(***************************************************************************)
EXTENDS Integers, Sequences, FiniteSets

CONSTANTS
  Events,         \* outbox events of type NotificationRequested
  Workers,        \* worker processes, one session each
  MaxAttempts,    \* process_one's max_attempts
  MaxOverruns,    \* bound on the claims taken from workers that outlive the cut-off
  MaxCrashes,     \* bound on the worker crashes
  MaxRecoveries   \* bound on the dead letters operators recover

ASSUME OutboxAssumption ==
  /\ MaxAttempts \in Nat \ {0}
  /\ MaxOverruns \in Nat
  /\ MaxCrashes \in Nat
  /\ MaxRecoveries \in Nat

VARIABLES
  status,     \* outbox_events.status
  attempts,   \* job_attempts of each event: their status, by attempt_number
  notified,   \* number of notifications with this source_outbox_event_id
  outcome,    \* statuses of the event's provider_synchronizations
  job,        \* what each worker is doing
  overruns,   \* counters of the bounds
  crashes,
  recoveries

vars == <<status, attempts, notified, outcome, job, overruns, crashes, recoveries>>

Statuses == {"PENDING", "RUNNING", "SUCCEEDED", "DEAD_LETTER"}
AttemptStatuses == {"RUNNING", "SUCCEEDED", "FAILED"}
Nothing == [stage |-> "free"]
\* A job has been claimed, or handled: the handler decided to deliver the
\* notification, to skip it, or that it had been delivered before.
Jobs ==
  [stage : {"claimed", "deliver", "skip", "repeat"}, event : Events, attempt : Nat \ {0}]

OutboxTypeOK ==
  /\ status \in [Events -> Statuses]
  /\ attempts \in [Events -> Seq(AttemptStatuses)]
  /\ notified \in [Events -> Nat]
  /\ outcome \in [Events -> SUBSET {"SUCCEEDED", "SKIPPED"}]
  /\ job \in [Workers -> Jobs \cup {Nothing}]
  /\ overruns \in Nat
  /\ crashes \in Nat
  /\ recoveries \in Nat

Busy(w) == job[w] # Nothing

Init ==
  /\ status = [e \in Events |-> "PENDING"]
  /\ attempts = [e \in Events |-> <<>>]
  /\ notified = [e \in Events |-> 0]
  /\ outcome = [e \in Events |-> {}]
  /\ job = [w \in Workers |-> Nothing]
  /\ overruns = 0
  /\ crashes = 0
  /\ recoveries = 0

----------------------------------------------------------------------------
(* process_one and its handler _deliver_in_app. *)

\* Mutants: a running event is taken over, a delivered one delivered again.
ClaimableRunning(e) == status[e] \in {"PENDING", "RUNNING"}
ClaimableAgain(e) == status[e] \in {"PENDING", "SUCCEEDED"}
Claimable(e) == status[e] = "PENDING"

Claim(w, e) ==
  /\ ~Busy(w)
  /\ Claimable(e)
  /\ status' = [status EXCEPT ![e] = "RUNNING"]
  /\ attempts' = [attempts EXCEPT ![e] = Append(@, "RUNNING")]
  /\ job' = [job EXCEPT ![w] =
       [stage |-> "claimed", event |-> e, attempt |-> Len(attempts[e]) + 1]]
  /\ UNCHANGED <<notified, outcome, overruns, crashes, recoveries>>

\* The handler looks for the notification and for the recipient's preference,
\* which may have changed since an earlier attempt; it only adds rows to the session.
Handle(w, enabled) ==
  /\ Busy(w) /\ job[w].stage = "claimed"
  /\ job' = [job EXCEPT ![w].stage =
       IF notified[job[w].event] > 0 THEN "repeat"
       ELSE IF enabled THEN "deliver" ELSE "skip"]
  /\ UNCHANGED <<status, attempts, notified, outcome, overruns, crashes, recoveries>>

\* UNIQUE (user_id, source_outbox_event_id) lets the notification be inserted.
UnsentUnchecked(e) == TRUE  \* mutant: no such constraint
Unsent(e) == notified[e] = 0

\* The final commit writes the result whatever became of the claim meanwhile.
Succeed(w) ==
  LET e == job[w].event IN
  /\ Busy(w) /\ job[w].stage # "claimed"
  /\ job[w].stage = "deliver" => Unsent(e)
  /\ status' = [status EXCEPT ![e] = "SUCCEEDED"]
  /\ attempts' = [attempts EXCEPT ![e] = [@ EXCEPT ![job[w].attempt] = "SUCCEEDED"]]
  /\ notified' =
       [notified EXCEPT ![e] = IF job[w].stage = "deliver" THEN @ + 1 ELSE @]
  /\ outcome' = [outcome EXCEPT ![e] = @ \cup
       CASE job[w].stage = "deliver" -> {"SUCCEEDED"}
         [] job[w].stage = "skip" -> {"SKIPPED"}
         [] OTHER -> {}]
  /\ job' = [job EXCEPT ![w] = Nothing]
  /\ UNCHANGED <<overruns, crashes, recoveries>>

\* Another worker inserted the notification: the commit fails outside the handler's
\* try block and is rolled back, so event and attempt stay RUNNING.
Collide(w) ==
  /\ Busy(w) /\ job[w].stage = "deliver"
  /\ ~Unsent(job[w].event)
  /\ job' = [job EXCEPT ![w] = Nothing]
  /\ UNCHANGED <<status, attempts, notified, outcome, overruns, crashes, recoveries>>

\* The n-th attempt failed.  Mutant: one attempt too few.
AfterFailureEarly(n) == IF n + 1 >= MaxAttempts THEN "DEAD_LETTER" ELSE "PENDING"
AfterFailure(n) == IF n >= MaxAttempts THEN "DEAD_LETTER" ELSE "PENDING"

\* The handler raised: its rows are rolled back; the event is locked again, and what
\* counts is its number of attempts by now, not whose claim it is.
Fail(w) ==
  LET e == job[w].event IN
  /\ Busy(w)
  /\ status' = [status EXCEPT ![e] = AfterFailure(Len(attempts[e]))]
  /\ attempts' = [attempts EXCEPT ![e] = [@ EXCEPT ![job[w].attempt] = "FAILED"]]
  /\ job' = [job EXCEPT ![w] = Nothing]
  /\ UNCHANGED <<notified, outcome, overruns, crashes, recoveries>>

\* The process ends, or its connection does, before the final commit.
Crash(w) ==
  /\ Busy(w)
  /\ crashes < MaxCrashes
  /\ crashes' = crashes + 1
  /\ job' = [job EXCEPT ![w] = Nothing]
  /\ UNCHANGED <<status, attempts, notified, outcome, overruns, recoveries>>

----------------------------------------------------------------------------
(* requeue_stale_running_events, at the start of every worker run, and       *)
(* recover_dead_letter, a request of an operator.                            *)

Abandoned(e) == \A w \in Workers : Busy(w) => job[w].event # e

StaleNever(e) == FALSE  \* mutant: claims never become stale
Stale(e) == status[e] = "RUNNING" /\ (overruns < MaxOverruns \/ Abandoned(e))

Requeue(stale) ==
  /\ stale # {}
  /\ \A e \in stale : Stale(e)
  /\ status' = [e \in Events |-> IF e \in stale THEN "PENDING" ELSE status[e]]
  /\ attempts' = [e \in Events |->
       IF e \in stale
       THEN [n \in DOMAIN attempts[e] |->
               IF attempts[e][n] = "RUNNING" THEN "FAILED" ELSE attempts[e][n]]
       ELSE attempts[e]]
  /\ overruns' = IF \A e \in stale : Abandoned(e) THEN overruns ELSE overruns + 1
  /\ UNCHANGED <<notified, outcome, job, crashes, recoveries>>

Recover(e) ==
  /\ status[e] = "DEAD_LETTER"
  /\ recoveries < MaxRecoveries
  /\ status' = [status EXCEPT ![e] = "PENDING"]
  /\ recoveries' = recoveries + 1
  /\ UNCHANGED <<attempts, notified, outcome, job, overruns, crashes>>

----------------------------------------------------------------------------
Work(w) ==
  \/ \E enabled \in BOOLEAN : Handle(w, enabled)
  \/ Succeed(w)
  \/ Collide(w)
  \/ Fail(w)

Next ==
  \/ \E w \in Workers, e \in Events : Claim(w, e)
  \/ \E w \in Workers : Work(w) \/ Crash(w)
  \/ \E stale \in SUBSET Events : Requeue(stale)
  \/ \E e \in Events : Recover(e)

Spec == Init /\ [][Next]_vars

\* The scheduler starts workers for ever; each requeues what is stale, visits every
\* available event, and its handlers return or raise.
Scheduling ==
  /\ \A e \in Events : SF_vars(\E w \in Workers : Claim(w, e))
  /\ \A e \in Events : WF_vars(\E stale \in SUBSET Events : e \in stale /\ Requeue(stale))
  /\ \A w \in Workers : WF_vars(Work(w))

FairSpec == Spec /\ Scheduling

----------------------------------------------------------------------------
(* Properties. *)

\* A recipient is told once, however often the job is repeated, by whichever workers:
\* at most one notification per event, exactly when a delivery is on record, and an
\* event is SUCCEEDED only after it was delivered or its recipient did not want it.
DeliveredOnce ==
  \A e \in Events :
    /\ notified[e] = IF "SUCCEEDED" \in outcome[e] THEN 1 ELSE 0
    /\ status[e] = "SUCCEEDED" => outcome[e] # {}

\* A running event is somebody's latest attempt, also when a worker whose claim was
\* taken away reports its result late.
RunningIsClaimed ==
  \A e \in Events :
    status[e] = "RUNNING" =>
      attempts[e] # <<>> /\ attempts[e][Len(attempts[e])] = "RUNNING"

\* No event is given up before its attempts are used up.
DeadLetterEarned ==
  \A e \in Events : status[e] = "DEAD_LETTER" => Len(attempts[e]) >= MaxAttempts

\* Claims exclude concurrent execution until a worker outlives the cut-off: a
\* worker in a handler holds the event's latest attempt, and no other worker does.
ClaimIsExclusive ==
  overruns = 0 =>
    \A w \in Workers :
      Busy(w) =>
        /\ status[job[w].event] = "RUNNING"
        /\ job[w].attempt = Len(attempts[job[w].event])
        /\ \A v \in Workers : Busy(v) /\ job[v].event = job[w].event => v = w

\* Until then the record of attempts is only added to: a finished attempt keeps its
\* result, and a delivered event is not reopened.
AttemptsFinal ==
  [][overruns = 0 => \A e \in Events :
       /\ Len(attempts'[e]) >= Len(attempts[e])
       /\ \A n \in 1..Len(attempts[e]) :
            attempts[e][n] # "RUNNING" => attempts'[e][n] = attempts[e][n]
       /\ status[e] = "SUCCEEDED" => status'[e] = "SUCCEEDED"]_vars

\* Every event is delivered or given up, whatever crashes, fails or is slow.
Settles ==
  \A e \in Events :
    status[e] \in {"PENDING", "RUNNING"} ~> status[e] \in {"SUCCEEDED", "DEAD_LETTER"}
=============================================================================
