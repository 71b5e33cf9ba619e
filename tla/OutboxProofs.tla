---------------------------- MODULE OutboxProofs ----------------------------
(***************************************************************************)
(* What TLAPS proves of the outbox, for any sets of events and workers and *)
(* any number of attempts, overruns, crashes and recoveries.               *)
(***************************************************************************)
EXTENDS Outbox, SequenceTheorems, TLAPS

\* A job's attempt was recorded, and a notification found by a handler stays.
JobsRecorded ==
  \A w \in Workers :
    Busy(w) =>
      /\ job[w].attempt \in 1..Len(attempts[job[w].event])
      /\ job[w].stage = "repeat" => notified[job[w].event] > 0

IInv ==
  /\ OutboxTypeOK
  /\ JobsRecorded
  /\ DeliveredOnce
  /\ RunningIsClaimed
  /\ DeadLetterEarned
  /\ ClaimIsExclusive

\* The initial states.
LEMMA InitIInv == Init => IInv
  BY DEF Init, IInv, OutboxTypeOK, Statuses, JobsRecorded, Busy, DeliveredOnce,
         RunningIsClaimed, DeadLetterEarned, ClaimIsExclusive

\* What requeue_stale_running_events makes of an event's attempts.
LEMMA RequeuedAttempts ==
  ASSUME NEW s \in Seq(AttemptStatuses)
  PROVE  LET t == [n \in DOMAIN s |-> IF s[n] = "RUNNING" THEN "FAILED" ELSE s[n]]
         IN  /\ t \in Seq(AttemptStatuses)
             /\ Len(t) = Len(s)
             /\ \A n \in 1..Len(s) : t[n] = IF s[n] = "RUNNING" THEN "FAILED" ELSE s[n]
<1> DEFINE t == [n \in DOMAIN s |-> IF s[n] = "RUNNING" THEN "FAILED" ELSE s[n]]
<1>1. DOMAIN s = 1..Len(s) /\ Len(s) \in Nat  BY LenProperties
<1>2. \A n \in 1..Len(s) : s[n] \in AttemptStatuses  BY ElementOfSeq
<1>3. t \in [1..Len(s) -> AttemptStatuses]  BY <1>1, <1>2 DEF AttemptStatuses
<1>4. t \in Seq(AttemptStatuses)  BY <1>1, <1>3
<1>5. Len(t) = Len(s)  BY <1>1, <1>3, <1>4, LenProperties
<1> QED  BY <1>1, <1>4, <1>5

\* What each step does to the record of attempts: it is extended by one running
\* attempt, or some of its attempts get a result, in place.
LEMMA ClaimedAttempts ==
  ASSUME IInv, NEW w \in Workers, NEW e \in Events, Claim(w, e)
  PROVE  /\ attempts' \in [Events -> Seq(AttemptStatuses)]
         /\ \A f \in Events : f # e => attempts'[f] = attempts[f]
         /\ Len(attempts'[e]) = Len(attempts[e]) + 1
         /\ attempts'[e][Len(attempts[e]) + 1] = "RUNNING"
         /\ \A n \in 1..Len(attempts[e]) : attempts'[e][n] = attempts[e][n]
  BY DEF IInv, OutboxTypeOK, Claim, AttemptStatuses

Finished(w, result) ==
  attempts' = [attempts EXCEPT ![job[w].event] = [@ EXCEPT ![job[w].attempt] = result]]

\* The attempts once one of them has ended.
LEMMA FinishedAttempts ==
  ASSUME IInv, NEW w \in Workers, Busy(w), NEW result \in AttemptStatuses,
         Finished(w, result)
  PROVE  /\ attempts' \in [Events -> Seq(AttemptStatuses)]
         /\ \A f \in Events : Len(attempts'[f]) = Len(attempts[f])
         /\ \A f \in Events : \A n \in 1..Len(attempts[f]) :
              attempts'[f][n] =
                IF f = job[w].event /\ n = job[w].attempt THEN result ELSE attempts[f][n]
<1> DEFINE e == job[w].event
           i == job[w].attempt
           s == attempts[e]
<1>1. e \in Events  BY DEF IInv, OutboxTypeOK, Busy, Jobs
<1>2. s \in Seq(AttemptStatuses)  BY <1>1 DEF IInv, OutboxTypeOK
<1>3. i \in 1..Len(s)  BY DEF IInv, JobsRecorded
<1>4. /\ attempts'[e] = [s EXCEPT ![i] = result]
      /\ \A f \in Events : f # e => attempts'[f] = attempts[f]
      /\ attempts' = [f \in Events |-> IF f = e THEN [s EXCEPT ![i] = result]
                                       ELSE attempts[f]]
  BY <1>1 DEF IInv, OutboxTypeOK, Finished
<1>5. /\ [s EXCEPT ![i] = result] \in Seq(AttemptStatuses)
      /\ Len([s EXCEPT ![i] = result]) = Len(s)
      /\ \A n \in 1..Len(s) :
           [s EXCEPT ![i] = result][n] = IF n = i THEN result ELSE s[n]
  BY <1>2, <1>3, ExceptSeq
<1>6. \A f \in Events : attempts[f] \in Seq(AttemptStatuses)  BY DEF IInv, OutboxTypeOK
<1> HIDE DEF e, i, s
<1>7. attempts' \in [Events -> Seq(AttemptStatuses)]  BY <1>4, <1>5, <1>6
<1>8. ASSUME NEW f \in Events
      PROVE  /\ Len(attempts'[f]) = Len(attempts[f])
             /\ \A n \in 1..Len(attempts[f]) :
                  attempts'[f][n] = IF f = e /\ n = i THEN result ELSE attempts[f][n]
  <2>1. CASE f = e  BY <1>4, <1>5, <2>1 DEF s
  <2>2. CASE f # e  BY <1>4, <2>2
  <2> QED  BY <2>1, <2>2
<1> QED  BY <1>7, <1>8 DEF e, i

\* An event is claimed: its lease is the attempt it counts.
LEMMA ClaimPreserves ==
  ASSUME IInv, NEW w \in Workers, NEW e \in Events, Claim(w, e)
  PROVE  IInv'
<1>1. /\ \A f \in Events : Len(attempts[f]) \in Nat
      /\ \A v \in Workers : Busy(v) => job[v].event \in Events
  BY DEF IInv, OutboxTypeOK, Busy, Jobs
<1>2. /\ status' = [status EXCEPT ![e] = "RUNNING"]
      /\ job' = [job EXCEPT ![w] =
           [stage |-> "claimed", event |-> e, attempt |-> Len(attempts[e]) + 1]]
      /\ status[e] = "PENDING" /\ ~Busy(w)
      /\ UNCHANGED <<notified, outcome, overruns, crashes, recoveries>>
  BY DEF Claim, Claimable
<1>3. /\ status'[e] = "RUNNING"
      /\ \A f \in Events : f # e => status'[f] = status[f]
      /\ job'[w] = [stage |-> "claimed", event |-> e, attempt |-> Len(attempts[e]) + 1]
      /\ \A v \in Workers : v # w => job'[v] = job[v]
  BY <1>2 DEF IInv, OutboxTypeOK
<1>4. /\ attempts' \in [Events -> Seq(AttemptStatuses)]
      /\ \A f \in Events : f # e => attempts'[f] = attempts[f]
      /\ Len(attempts'[e]) = Len(attempts[e]) + 1
      /\ attempts'[e][Len(attempts[e]) + 1] = "RUNNING"
      /\ \A n \in 1..Len(attempts[e]) : attempts'[e][n] = attempts[e][n]
  BY ClaimedAttempts
<1>5. OutboxTypeOK'
  <2>1. job'[w] \in Jobs  BY <1>1, <1>3 DEF Jobs
  <2> QED  BY <1>2, <1>3, <1>4, <2>1 DEF IInv, OutboxTypeOK, Statuses
<1>6. \A v \in Workers : v # w /\ Busy(v)' => Busy(v)  BY <1>3 DEF Busy
<1>7. ASSUME NEW v \in Workers, Busy(v)'
      PROVE  /\ job'[v].attempt \in 1..Len(attempts'[job'[v].event])
             /\ job'[v].stage = "repeat" => notified'[job'[v].event] > 0
  <2>1. CASE v = w  BY <1>1, <1>3, <1>4, <2>1
  <2>2. CASE v # w
    BY <1>1, <1>2, <1>3, <1>4, <1>6, <1>7, <2>2 DEF IInv, JobsRecorded
  <2> QED  BY <2>1, <2>2
<1>8. DeliveredOnce'  BY <1>2, <1>3 DEF IInv, DeliveredOnce
<1>9. ASSUME NEW f \in Events, status'[f] = "RUNNING"
      PROVE  attempts'[f] # <<>> /\ attempts'[f][Len(attempts'[f])] = "RUNNING"
  <2>1. CASE f = e
    <3>1. Len(attempts'[e]) # 0  BY <1>1, <1>4
    <3> QED  BY <1>4, <2>1, <3>1
  <2>2. CASE f # e  BY <1>3, <1>4, <1>9, <2>2 DEF IInv, RunningIsClaimed
  <2> QED  BY <2>1, <2>2
<1>10. DeadLetterEarned'  BY <1>3, <1>4 DEF IInv, DeadLetterEarned
<1>11. ASSUME overruns = 0, NEW v \in Workers, Busy(v)'
       PROVE  /\ status'[job'[v].event] = "RUNNING"
              /\ job'[v].attempt = Len(attempts'[job'[v].event])
              /\ \A u \in Workers : Busy(u)' /\ job'[u].event = job'[v].event => u = v
  <2>1. \A u \in Workers : Busy(u) => job[u].event # e
    BY <1>2, <1>11 DEF IInv, ClaimIsExclusive
  <2>2. CASE v = w
    <3>1. job'[v].event = e /\ job'[v].attempt = Len(attempts[e]) + 1  BY <1>3, <2>2
    <3>2. \A u \in Workers : Busy(u)' /\ u # w => job'[u].event # e  BY <1>3, <1>6, <2>1
    <3> QED  BY <1>3, <1>4, <2>2, <3>1, <3>2
  <2>3. CASE v # w
    <3>1. Busy(v) /\ job'[v] = job[v] /\ job[v].event # e /\ job[v].event \in Events
      BY <1>1, <1>3, <1>6, <1>11, <2>1, <2>3
    <3>2. /\ status[job[v].event] = "RUNNING"
          /\ job[v].attempt = Len(attempts[job[v].event])
          /\ \A u \in Workers : Busy(u) /\ job[u].event = job[v].event => u = v
      BY <1>11, <3>1 DEF IInv, ClaimIsExclusive
    <3>3. /\ status'[job'[v].event] = "RUNNING"
          /\ job'[v].attempt = Len(attempts'[job'[v].event])
      BY <1>3, <1>4, <3>1, <3>2
    <3>4. ASSUME NEW u \in Workers, Busy(u)', job'[u].event = job'[v].event
          PROVE  u = v
      <4>1. u # w  BY <1>3, <3>1, <3>4
      <4> QED  BY <1>3, <1>6, <3>1, <3>2, <3>4, <4>1
    <3> QED  BY <3>3, <3>4
  <2> QED  BY <2>2, <2>3
<1>12. JobsRecorded' /\ RunningIsClaimed'
  BY <1>7, <1>9 DEF JobsRecorded, RunningIsClaimed
<1>13. ClaimIsExclusive'  BY <1>2, <1>11 DEF ClaimIsExclusive
<1> QED  BY <1>5, <1>8, <1>10, <1>12, <1>13 DEF IInv

\* A worker that lets go of its job leaves the other workers' jobs as they are.
LEMMA Released ==
  ASSUME OutboxTypeOK, NEW w \in Workers, job' = [job EXCEPT ![w] = Nothing]
  PROVE  /\ job' \in [Workers -> Jobs \cup {Nothing}]
         /\ \A v \in Workers : Busy(v)' => v # w /\ Busy(v) /\ job'[v] = job[v]
  BY DEF OutboxTypeOK, Busy

\* The final commit of a successful attempt, and the one after a failure.
LEMMA FinishPreserves ==
  ASSUME IInv, NEW w \in Workers, Busy(w),
         NEW result \in AttemptStatuses, Finished(w, result),
         NEW settled \in Statuses \ {"RUNNING"},
         status' = [status EXCEPT ![job[w].event] = settled],
         job' = [job EXCEPT ![w] = Nothing],
         UNCHANGED <<overruns, crashes, recoveries>>,
         notified' \in [Events -> Nat],
         outcome' \in [Events -> SUBSET {"SUCCEEDED", "SKIPPED"}],
         \A f \in Events : notified'[f] >= notified[f],
         DeliveredOnce',
         settled = "DEAD_LETTER" => Len(attempts[job[w].event]) >= MaxAttempts
  PROVE  IInv'
<1> DEFINE e == job[w].event
<1>1. /\ \A v \in Workers : Busy(v) => job[v].event \in Events
      /\ \A f \in Events : Len(attempts[f]) \in Nat /\ notified[f] \in Nat
      /\ OutboxTypeOK
  BY DEF IInv, OutboxTypeOK, Busy, Jobs
<1>2. /\ attempts' \in [Events -> Seq(AttemptStatuses)]
      /\ \A f \in Events : Len(attempts'[f]) = Len(attempts[f])
      /\ \A f \in Events : \A n \in 1..Len(attempts[f]) :
           attempts'[f][n] =
             IF f = job[w].event /\ n = job[w].attempt THEN result ELSE attempts[f][n]
  BY FinishedAttempts
<1>3. /\ status' \in [Events -> Statuses]
      /\ status'[e] = settled
      /\ \A f \in Events : f # e => status'[f] = status[f]
  BY <1>1 DEF OutboxTypeOK
<1>4. /\ job' \in [Workers -> Jobs \cup {Nothing}]
      /\ \A v \in Workers : Busy(v)' => v # w /\ Busy(v) /\ job'[v] = job[v]
  BY <1>1, Released
<1>5. OutboxTypeOK'  BY <1>1, <1>2, <1>3, <1>4 DEF OutboxTypeOK
<1>6. JobsRecorded'
  <2>1. ASSUME NEW v \in Workers, Busy(v)'
        PROVE  /\ job'[v].attempt \in 1..Len(attempts'[job'[v].event])
               /\ job'[v].stage = "repeat" => notified'[job'[v].event] > 0
    <3>1. Busy(v) /\ job'[v] = job[v] /\ job[v].event \in Events
      BY <1>1, <1>4, <2>1
    <3>2. /\ job[v].attempt \in 1..Len(attempts[job[v].event])
          /\ job[v].stage = "repeat" => notified[job[v].event] > 0
      BY <3>1 DEF IInv, JobsRecorded
    <3>3. /\ Len(attempts'[job[v].event]) = Len(attempts[job[v].event])
          /\ notified'[job[v].event] >= notified[job[v].event]
          /\ notified'[job[v].event] \in Nat /\ notified[job[v].event] \in Nat
      BY <1>1, <1>2, <3>1
    <3> QED  BY <3>1, <3>2, <3>3
  <2> QED  BY <2>1 DEF JobsRecorded
<1>7. RunningIsClaimed'
  <2>1. ASSUME NEW f \in Events, status'[f] = "RUNNING"
        PROVE  attempts'[f] # <<>> /\ attempts'[f][Len(attempts'[f])] = "RUNNING"
    <3>1. f # e /\ status[f] = "RUNNING"  BY <1>3, <2>1
    <3>2. attempts[f] # <<>> /\ attempts[f][Len(attempts[f])] = "RUNNING"
      BY <3>1 DEF IInv, RunningIsClaimed
    <3>3. attempts[f] \in Seq(AttemptStatuses)  BY <1>1 DEF OutboxTypeOK
    <3>4. Len(attempts[f]) \in 1..Len(attempts[f])  BY <3>2, <3>3, EmptySeq
    <3>5. Len(attempts'[f]) = Len(attempts[f])  BY <1>2
    <3>6. attempts'[f] # <<>>  BY <3>4, <3>5
    <3>7. attempts'[f][Len(attempts[f])] = attempts[f][Len(attempts[f])]
      BY <1>2, <3>1, <3>4
    <3> QED  BY <3>2, <3>5, <3>6, <3>7
  <2> QED  BY <2>1 DEF RunningIsClaimed
<1>8. DeadLetterEarned'  BY <1>2, <1>3 DEF IInv, DeadLetterEarned
<1>9. ClaimIsExclusive'
  <2>1. ASSUME overruns = 0, NEW v \in Workers, Busy(v)'
        PROVE  /\ status'[job'[v].event] = "RUNNING"
               /\ job'[v].attempt = Len(attempts'[job'[v].event])
               /\ \A u \in Workers : Busy(u)' /\ job'[u].event = job'[v].event => u = v
    <3>1. v # w /\ Busy(v) /\ job'[v] = job[v] /\ job[v].event \in Events
      BY <1>1, <1>4, <2>1
    <3>2. /\ status[job[v].event] = "RUNNING"
          /\ job[v].attempt = Len(attempts[job[v].event])
          /\ \A u \in Workers : Busy(u) /\ job[u].event = job[v].event => u = v
      BY <2>1, <3>1 DEF IInv, ClaimIsExclusive
    <3>3. job[v].event # e  BY <3>1, <3>2
    <3> QED  BY <1>2, <1>3, <1>4, <3>1, <3>2, <3>3
  <2> QED  BY <2>1 DEF ClaimIsExclusive
<1> QED  BY <1>5, <1>6, <1>7, <1>8, <1>9 DEF IInv

\* The handler ended and the event with it.
LEMMA SucceedPreserves == ASSUME IInv, NEW w \in Workers, Succeed(w) PROVE IInv'
<1> DEFINE e == job[w].event
<1>1. /\ Busy(w) /\ job[w].stage # "claimed"
      /\ job[w].stage = "deliver" => notified[e] = 0
      /\ notified' = [notified EXCEPT ![e] = IF job[w].stage = "deliver" THEN @ + 1 ELSE @]
      /\ outcome' = [outcome EXCEPT ![e] = @ \cup
           CASE job[w].stage = "deliver" -> {"SUCCEEDED"}
             [] job[w].stage = "skip" -> {"SKIPPED"}
             [] OTHER -> {}]
      /\ status' = [status EXCEPT ![e] = "SUCCEEDED"]
  BY DEF Succeed, Unsent
<1>2. e \in Events /\ job[w].stage \in {"deliver", "skip", "repeat"}
  BY <1>1 DEF IInv, OutboxTypeOK, Busy, Jobs
<1>3. /\ notified \in [Events -> Nat]
      /\ outcome \in [Events -> SUBSET {"SUCCEEDED", "SKIPPED"}]
      /\ status \in [Events -> Statuses]
  BY DEF IInv, OutboxTypeOK
<1>4. /\ notified' \in [Events -> Nat]
      /\ \A f \in Events : notified'[f] >= notified[f]
  BY <1>1, <1>2, <1>3
<1>5. /\ outcome'[e] = outcome[e] \cup
           (IF job[w].stage = "deliver" THEN {"SUCCEEDED"}
            ELSE IF job[w].stage = "skip" THEN {"SKIPPED"} ELSE {})
      /\ \A f \in Events : f # e => /\ outcome'[f] = outcome[f]
                                    /\ notified'[f] = notified[f]
                                    /\ status'[f] = status[f]
      /\ outcome' \in [Events -> SUBSET {"SUCCEEDED", "SKIPPED"}]
  BY <1>1, <1>2, <1>3
<1>6. DeliveredOnce'
  <2>1. /\ notified[e] = IF "SUCCEEDED" \in outcome[e] THEN 1 ELSE 0
        /\ job[w].stage = "repeat" => notified[e] > 0
    BY <1>1, <1>2 DEF IInv, DeliveredOnce, JobsRecorded
  <2>2. /\ notified'[e] = IF "SUCCEEDED" \in outcome'[e] THEN 1 ELSE 0
        /\ outcome'[e] # {}
    <3>1. CASE job[w].stage = "deliver"  BY <1>1, <1>2, <1>3, <1>5, <2>1, <3>1
    <3>2. CASE job[w].stage = "skip"  BY <1>1, <1>2, <1>3, <1>5, <2>1, <3>2
    <3>3. CASE job[w].stage = "repeat"  BY <1>1, <1>2, <1>3, <1>5, <2>1, <3>3
    <3> QED  BY <1>2, <3>1, <3>2, <3>3
  <2> QED  BY <1>5, <2>2 DEF IInv, DeliveredOnce
<1> QED
  BY <1>1, <1>4, <1>5, <1>6, FinishPreserves DEF Succeed, Statuses, AttemptStatuses, Finished

\* The handler failed: the event goes back or dies.
LEMMA FailPreserves == ASSUME IInv, NEW w \in Workers, Fail(w) PROVE IInv'
<1> DEFINE e == job[w].event
           settled == AfterFailure(Len(attempts[e]))
<1>1. e \in Events  BY DEF IInv, OutboxTypeOK, Busy, Jobs, Fail
<1>2. /\ settled \in Statuses \ {"RUNNING", "SUCCEEDED"}
      /\ settled = "DEAD_LETTER" => Len(attempts[e]) >= MaxAttempts
  BY DEF AfterFailure, Statuses
<1>3. /\ notified' \in [Events -> Nat]
      /\ outcome' \in [Events -> SUBSET {"SUCCEEDED", "SKIPPED"}]
      /\ \A f \in Events : notified'[f] >= notified[f]
  BY DEF Fail, IInv, OutboxTypeOK
<1>4. DeliveredOnce'
  <2>1. \A f \in Events : status'[f] = "SUCCEEDED" => status[f] = "SUCCEEDED"
    BY <1>1, <1>2 DEF Fail, IInv, OutboxTypeOK
  <2> QED  BY <2>1 DEF Fail, IInv, DeliveredOnce
<1> HIDE DEF settled
<1>5. status' = [status EXCEPT ![e] = settled]  BY DEF Fail, settled
<1> QED
  BY <1>2, <1>3, <1>4, <1>5, FinishPreserves DEF Fail, AttemptStatuses, Finished

\* Expired leases go back, attempts counted.
LEMMA RequeuePreserves ==
  ASSUME IInv, NEW stale \in SUBSET Events, Requeue(stale)
  PROVE  IInv'
<1>1. \A f \in Events : attempts[f] \in Seq(AttemptStatuses) /\ Len(attempts[f]) \in Nat
  BY DEF IInv, OutboxTypeOK
<1>2. \A f \in Events :
        /\ attempts'[f] \in Seq(AttemptStatuses)
        /\ Len(attempts'[f]) = Len(attempts[f])
        /\ f \notin stale => attempts'[f] = attempts[f]
  <2> SUFFICES ASSUME NEW f \in Events
               PROVE  /\ attempts'[f] \in Seq(AttemptStatuses)
                      /\ Len(attempts'[f]) = Len(attempts[f])
                      /\ f \notin stale => attempts'[f] = attempts[f]
    OBVIOUS
  <2>1. CASE f \in stale
    <3>1. attempts'[f] = [n \in DOMAIN attempts[f] |->
                           IF attempts[f][n] = "RUNNING" THEN "FAILED"
                           ELSE attempts[f][n]]
      BY <2>1 DEF Requeue
    <3> QED  BY <1>1, <2>1, <3>1, RequeuedAttempts
  <2>2. CASE f \notin stale  BY <1>1, <2>2 DEF Requeue
  <2> QED  BY <2>1, <2>2
<1>3. attempts' \in [Events -> Seq(AttemptStatuses)]
  <2>1. attempts' = [f \in Events |-> attempts'[f]]  BY DEF Requeue
  <2> QED  BY <1>2, <2>1
<1>4. /\ UNCHANGED <<notified, outcome, job, crashes, recoveries>>
      /\ overruns \in Nat /\ overruns' \in Nat
      /\ \A f \in Events : status'[f] = IF f \in stale THEN "PENDING" ELSE status[f]
      /\ \A f \in stale : status[f] = "RUNNING"
      /\ overruns' = 0 =>
           overruns = 0 /\ \A f \in stale : \A w \in Workers : Busy(w) => job[w].event # f
  BY DEF Requeue, Stale, Abandoned, IInv, OutboxTypeOK
<1>5. OutboxTypeOK'
  <2>1. status' \in [Events -> Statuses]
    BY DEF IInv, OutboxTypeOK, Requeue, Statuses
  <2> QED  BY <1>3, <1>4, <2>1 DEF IInv, OutboxTypeOK
<1>6. \A w \in Workers : Busy(w)' <=> Busy(w)  BY <1>4 DEF Busy
<1>7. \A w \in Workers : Busy(w) => job[w].event \in Events
  BY DEF IInv, OutboxTypeOK, Busy, Jobs
<1>8. JobsRecorded'  BY <1>2, <1>4, <1>6, <1>7 DEF IInv, JobsRecorded
<1>9. DeliveredOnce'  BY <1>4 DEF IInv, DeliveredOnce
<1>10. RunningIsClaimed'  BY <1>2, <1>4 DEF IInv, RunningIsClaimed
<1>11. DeadLetterEarned'  BY <1>2, <1>4 DEF IInv, DeadLetterEarned
<1>12. ClaimIsExclusive'
  BY <1>2, <1>4, <1>6, <1>7 DEF IInv, ClaimIsExclusive
<1> QED  BY <1>5, <1>8, <1>9, <1>10, <1>11, <1>12 DEF IInv

\* Every step, by action.
LEMMA StepPreserves == ASSUME IInv, [Next]_vars PROVE IInv'
<1>1. ASSUME NEW w \in Workers, NEW e \in Events, Claim(w, e) PROVE IInv'
  BY <1>1, ClaimPreserves
<1>2. ASSUME NEW w \in Workers, NEW enabled \in BOOLEAN, Handle(w, enabled) PROVE IInv'
  <2>1. /\ UNCHANGED <<status, attempts, notified, outcome, overruns, crashes, recoveries>>
        /\ Busy(w) /\ job[w].stage = "claimed" /\ job[w] \in Jobs
        /\ job \in [Workers -> Jobs \cup {Nothing}]
    BY <1>2 DEF Handle, IInv, OutboxTypeOK, Busy
  <2> DEFINE stage == IF notified[job[w].event] > 0 THEN "repeat"
                      ELSE IF enabled THEN "deliver" ELSE "skip"
             handled == [job[w] EXCEPT !.stage = stage]
  <2>2. job' = [job EXCEPT ![w] = handled]  BY <1>2 DEF Handle
  <2>3. /\ handled \in Jobs /\ handled.stage = stage
        /\ handled.event = job[w].event /\ handled.attempt = job[w].attempt
    BY <2>1 DEF Jobs
  <2>4. \A v \in Workers :
          /\ job'[v] = IF v = w THEN handled ELSE job[v]
          /\ Busy(v)' => Busy(v)
          /\ Busy(v) => job'[v].event = job[v].event /\ job'[v].attempt = job[v].attempt
          /\ Busy(v) /\ job'[v].stage = "repeat"
               => job[v].stage = "repeat" \/ notified[job[v].event] > 0
    <3> HIDE DEF handled
    <3> QED  BY <2>1, <2>2, <2>3 DEF Busy
  <2>5. OutboxTypeOK'
    <3> HIDE DEF handled
    <3> QED  BY <2>1, <2>2, <2>3 DEF IInv, OutboxTypeOK
  <2> HIDE DEF handled, stage
  <2>6. JobsRecorded'  BY <2>1, <2>4 DEF IInv, JobsRecorded
  <2>7. ClaimIsExclusive'  BY <2>1, <2>4 DEF IInv, ClaimIsExclusive
  <2> QED
    BY <2>1, <2>5, <2>6, <2>7
       DEF IInv, DeliveredOnce, RunningIsClaimed, DeadLetterEarned
<1>3. ASSUME NEW w \in Workers, Succeed(w) PROVE IInv'  BY <1>3, SucceedPreserves
<1>4. ASSUME NEW w \in Workers, Collide(w) \/ Crash(w) PROVE IInv'
  <2>1. /\ UNCHANGED <<status, attempts, notified, outcome, overruns, recoveries>>
        /\ crashes' \in Nat
        /\ job' = [job EXCEPT ![w] = Nothing]
    BY <1>4 DEF Collide, Crash, IInv, OutboxTypeOK
  <2>2. /\ job' \in [Workers -> Jobs \cup {Nothing}]
        /\ \A v \in Workers : Busy(v)' => v # w /\ Busy(v) /\ job'[v] = job[v]
    BY <2>1, Released DEF IInv
  <2>3. OutboxTypeOK'  BY <2>1, <2>2 DEF IInv, OutboxTypeOK
  <2>4. JobsRecorded'  BY <2>1, <2>2 DEF IInv, JobsRecorded
  <2>5. ClaimIsExclusive'  BY <2>1, <2>2 DEF IInv, ClaimIsExclusive
  <2> QED
    BY <2>1, <2>3, <2>4, <2>5
       DEF IInv, DeliveredOnce, RunningIsClaimed, DeadLetterEarned
<1>5. ASSUME NEW w \in Workers, Fail(w) PROVE IInv'  BY <1>5, FailPreserves
<1>6. ASSUME NEW stale \in SUBSET Events, Requeue(stale) PROVE IInv'
  BY <1>6, RequeuePreserves
<1>7. ASSUME NEW e \in Events, Recover(e) PROVE IInv'
  <2>1. /\ UNCHANGED <<attempts, notified, outcome, job, overruns, crashes>>
        /\ \A f \in Events : f # e => status'[f] = status[f]
        /\ status[e] = "DEAD_LETTER" /\ status'[e] = "PENDING"
    BY <1>7 DEF Recover, IInv, OutboxTypeOK
  <2>2. OutboxTypeOK'  BY <1>7 DEF Recover, IInv, OutboxTypeOK, Statuses
  <2>3. \A v \in Workers : Busy(v)' <=> Busy(v)  BY <2>1 DEF Busy
  <2>4. JobsRecorded'  BY <2>1, <2>3 DEF IInv, JobsRecorded
  <2>5. DeliveredOnce' /\ RunningIsClaimed' /\ DeadLetterEarned'
    BY <2>1 DEF IInv, DeliveredOnce, RunningIsClaimed, DeadLetterEarned
  <2>6. ClaimIsExclusive'
    <3>1. \A w \in Workers : Busy(w) => job[w].event \in Events
      BY DEF IInv, OutboxTypeOK, Busy, Jobs
    <3> QED  BY <2>1, <2>3, <3>1 DEF IInv, ClaimIsExclusive
  <2> QED  BY <2>2, <2>4, <2>5, <2>6 DEF IInv
<1>8. CASE UNCHANGED vars
  BY <1>8 DEF vars, IInv, OutboxTypeOK, JobsRecorded, Busy, DeliveredOnce,
              RunningIsClaimed, DeadLetterEarned, ClaimIsExclusive
<1> QED  BY <1>1, <1>2, <1>3, <1>4, <1>5, <1>6, <1>7, <1>8 DEF Next, Work

\* The invariant holds in every state.
LEMMA Invariant == Spec => []IInv
  BY InitIInv, StepPreserves, PTL DEF Spec

\* Type correctness of the outbox.
THEOREM TypeCorrect == Spec => []OutboxTypeOK
<1>1. IInv => OutboxTypeOK  BY DEF IInv
<1> QED  BY Invariant, <1>1, PTL

\* At most one notification per event, whoever else repeats its job.
THEOREM ToldOnce == Spec => []DeliveredOnce
<1>1. IInv => DeliveredOnce  BY DEF IInv
<1> QED  BY Invariant, <1>1, PTL

\* No event is RUNNING without an attempt under way, so none is out of requeueing's reach.
THEOREM RunningHasAttempt == Spec => []RunningIsClaimed
<1>1. IInv => RunningIsClaimed  BY DEF IInv
<1> QED  BY Invariant, <1>1, PTL

\* No event is given up early.
THEOREM GivenUpLate == Spec => []DeadLetterEarned
<1>1. IInv => DeadLetterEarned  BY DEF IInv
<1> QED  BY Invariant, <1>1, PTL

\* Until a worker outlives the cut-off, claims exclude each other.
THEOREM MutualExclusion == Spec => []ClaimIsExclusive
<1>1. IInv => ClaimIsExclusive  BY DEF IInv
<1> QED  BY Invariant, <1>1, PTL

\* The record of attempts is final until a worker outlives the cut-off: a worker then
\* settles the running attempt it holds, never one that was given a result before.
THEOREM AttemptsStayFinal == Spec => AttemptsFinal
<1> DEFINE Final == \A e \in Events :
             /\ Len(attempts'[e]) >= Len(attempts[e])
             /\ \A n \in 1..Len(attempts[e]) :
                  attempts[e][n] # "RUNNING" => attempts'[e][n] = attempts[e][n]
             /\ status[e] = "SUCCEEDED" => status'[e] = "SUCCEEDED"
<1>1. ASSUME IInv, [Next]_vars, overruns = 0 PROVE Final \/ UNCHANGED vars
  <2>1. \A e \in Events : Len(attempts[e]) \in Nat  BY <1>1 DEF IInv, OutboxTypeOK
  <2>2. ASSUME NEW w \in Workers, NEW e \in Events, Claim(w, e) PROVE Final
    <3>0. /\ \A f \in Events : f # e => attempts'[f] = attempts[f]
          /\ Len(attempts'[e]) = Len(attempts[e]) + 1
          /\ \A n \in 1..Len(attempts[e]) : attempts'[e][n] = attempts[e][n]
      BY <1>1, <2>2, ClaimedAttempts
    <3>1. ASSUME NEW f \in Events PROVE Len(attempts'[f]) >= Len(attempts[f])
      <4>1. CASE f = e  BY <2>1, <3>0, <4>1
      <4>2. CASE f # e  BY <2>1, <3>0, <4>2
      <4> QED  BY <4>1, <4>2
    <3>2. \A f \in Events : \A n \in 1..Len(attempts[f]) :
            attempts'[f][n] = attempts[f][n]
      BY <3>0
    <3>3. \A f \in Events : status[f] = "SUCCEEDED" => status'[f] = "SUCCEEDED"
      BY <1>1, <2>2 DEF Claim, Claimable, IInv, OutboxTypeOK
    <3> QED  BY <3>1, <3>2, <3>3
  <2>3. ASSUME NEW w \in Workers, Succeed(w) \/ Fail(w) PROVE Final
    <3> DEFINE e == job[w].event
    <3>1. Busy(w) /\ e \in Events
      BY <1>1, <2>3 DEF Succeed, Fail, IInv, OutboxTypeOK, Busy, Jobs
    <3>2. status[e] = "RUNNING" /\ job[w].attempt = Len(attempts[e])
      BY <1>1, <3>1 DEF IInv, ClaimIsExclusive
    <3>3. attempts[e][job[w].attempt] = "RUNNING"
      BY <1>1, <3>1, <3>2 DEF IInv, RunningIsClaimed
    <3>4. PICK result \in AttemptStatuses : Finished(w, result)
      BY <2>3 DEF Succeed, Fail, Finished, AttemptStatuses
    <3>5. /\ \A f \in Events : Len(attempts'[f]) = Len(attempts[f])
          /\ \A f \in Events : \A n \in 1..Len(attempts[f]) :
               attempts'[f][n] =
                 IF f = e /\ n = job[w].attempt THEN result ELSE attempts[f][n]
      BY <1>1, <3>1, <3>4, FinishedAttempts
    <3>6. \A f \in Events : status[f] = "SUCCEEDED" => status'[f] = "SUCCEEDED"
      BY <1>1, <2>3, <3>1, <3>2 DEF Succeed, Fail, IInv, OutboxTypeOK
    <3> QED  BY <2>1, <3>3, <3>5, <3>6
  <2>4. ASSUME NEW stale \in SUBSET Events, Requeue(stale) PROVE Final
    <3>1. ASSUME NEW f \in Events
          PROVE  /\ Len(attempts'[f]) >= Len(attempts[f])
                 /\ \A n \in 1..Len(attempts[f]) :
                      attempts[f][n] # "RUNNING" => attempts'[f][n] = attempts[f][n]
      <4>1. attempts[f] \in Seq(AttemptStatuses)  BY <1>1 DEF IInv, OutboxTypeOK
      <4>2. CASE f \in stale
        <5>1. attempts'[f] = [n \in DOMAIN attempts[f] |->
                               IF attempts[f][n] = "RUNNING" THEN "FAILED"
                               ELSE attempts[f][n]]
          BY <2>4, <4>2 DEF Requeue
        <5> QED  BY <2>1, <4>1, <5>1, RequeuedAttempts
      <4>3. CASE f \notin stale  BY <2>1, <2>4, <4>3 DEF Requeue
      <4> QED  BY <4>2, <4>3
    <3>2. \A f \in Events : status[f] = "SUCCEEDED" => status'[f] = "SUCCEEDED"
      BY <2>4 DEF Requeue, Stale
    <3> QED  BY <3>1, <3>2
  <2>5. ASSUME NEW e \in Events, Recover(e) PROVE Final
    BY <1>1, <2>1, <2>5 DEF Recover, IInv, OutboxTypeOK
  <2>6. ASSUME UNCHANGED <<attempts, status>> PROVE Final  BY <2>1, <2>6
  <2>7. ASSUME NEW w \in Workers, NEW enabled \in BOOLEAN,
               Handle(w, enabled) \/ Collide(w) \/ Crash(w)
        PROVE  Final
    BY <2>6, <2>7 DEF Handle, Collide, Crash
  <2> HIDE DEF Final
  <2>8. Next => Final  BY <2>2, <2>3, <2>4, <2>5, <2>7 DEF Next, Work
  <2> QED  BY <1>1, <2>8
<1> HIDE DEF Final
<1>2. ASSUME IInv, [Next]_vars PROVE [overruns = 0 => Final]_vars  BY <1>1, <1>2
<1>3. Spec => [][overruns = 0 => Final]_vars  BY Invariant, <1>2, PTL DEF Spec
<1> USE DEF Final
<1> QED  BY <1>3 DEF AttemptsFinal
=============================================================================
