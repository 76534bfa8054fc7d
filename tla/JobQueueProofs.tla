---------------------------- MODULE JobQueueProofs ----------------------------
(* Theorems about JobQueue, for every value of its constants. *)
EXTENDS JobQueue, TLAPS

-----------------------------------------------------------------------------
(* Rows and activations. *)

\* What each statement makes of a row, and that it is a row.
LEMMA RowEffects ==
  ASSUME NEW row \in JobRow
  PROVE  /\ Recovered(row) \in JobRow
         /\ Recovered(row).attempt = row.attempt
         /\ row.attempt >= MaxAttempts => Recovered(row).status = "dead_letter"
         /\ row.attempt < MaxAttempts => Recovered(row).status = "pending"
         /\ Completed(row) \in JobRow
         /\ Completed(row).attempt = row.attempt /\ Completed(row).status = "succeeded"
         /\ Older(row) \in JobRow
         /\ Older(row).attempt = row.attempt /\ Older(row).status = row.status
         /\ row.status = "running" /\ row.age < RunningTimeout => Older(row).age = row.age + 1
<1> USE QueueAssumption
<1>1. Recovered(row) \in JobRow
  BY DEF Recovered, JobRow, Settled
<1>2. /\ Recovered(row).attempt = row.attempt
      /\ row.attempt >= MaxAttempts => Recovered(row).status = "dead_letter"
      /\ row.attempt < MaxAttempts => Recovered(row).status = "pending"
  BY DEF Recovered, JobRow
<1>3. /\ Completed(row) \in JobRow
      /\ Completed(row).attempt = row.attempt /\ Completed(row).status = "succeeded"
  BY DEF Completed, JobRow, Settled
<1>4. /\ Older(row) \in JobRow
      /\ Older(row).attempt = row.attempt /\ Older(row).status = row.status
      /\ row.status = "running" /\ row.age < RunningTimeout => Older(row).age = row.age + 1
  <2>1. (IF row.wait > 0 THEN row.wait - 1 ELSE row.wait) \in Nat
    BY DEF JobRow
  <2>2. (IF row.status = "running" /\ row.age < RunningTimeout THEN row.age + 1 ELSE row.age) \in Nat
    BY DEF JobRow
  <2>3. QED BY <2>1, <2>2 DEF Older, JobRow
<1>5. QED BY <1>1, <1>2, <1>3, <1>4

\* The UPDATE of a claim.
LEMMA ClaimedEffect ==
  ASSUME NEW row \in JobRow, NEW age \in Nat
  PROVE  /\ Claimed(row, age) \in JobRow
         /\ row.status # "pending" => Claimed(row, age) = row
         /\ row.status = "pending" => /\ Claimed(row, age).status = "running"
                                      /\ Claimed(row, age).attempt = row.attempt + 1
                                      /\ Claimed(row, age).age = age
<1>1. row.attempt + 1 \in Nat
  BY DEF JobRow
<1>2. QED BY <1>1 DEF Claimed, JobRow

\* The UPDATE of failJob.
LEMMA FailedEffect ==
  ASSUME NEW row \in JobRow, NEW exhausted \in BOOLEAN
  PROVE  /\ Failed(row, exhausted) \in JobRow
         /\ Failed(row, exhausted).attempt = row.attempt
         /\ Failed(row, exhausted).status = IF exhausted THEN "dead_letter" ELSE "pending"
<1>1. (IF exhausted THEN 0 ELSE RetryDelay) \in Nat
  BY QueueAssumption
<1>2. QED BY <1>1 DEF Failed, JobRow, Settled

\* The row of a new job, and of one that is not queued yet.
LEMMA FreshRows ==
  /\ NoRow \in JobRow /\ NoRow.status = "none" /\ NoRow.attempt = 0
  /\ [NoRow EXCEPT !.status = "pending"] \in JobRow
  /\ [NoRow EXCEPT !.status = "pending"].status = "pending"
  /\ [NoRow EXCEPT !.status = "pending"].attempt = 0
BY DEF NoRow, JobRow, Settled

\* An activation that has no job.
LEMMA FreshActs ==
  /\ Idle \in Activation /\ Idle.step = "idle"
  /\ Ready \in Activation /\ Ready.step = "ready"
BY DEF Idle, Ready, Activation, Steps

\* What an activation becomes when it goes on, selects a job, reads the row of
\* its job, or grows older.
LEMMA ActEffects ==
  ASSUME NEW act \in Activation, NEW n \in Nat
  PROVE  /\ \A step \in Steps :
              LET next == [act EXCEPT !.step = step]
              IN  next \in Activation /\ next.step = step /\ next.job = act.job
                  /\ next.age = act.age /\ next.read = act.read
         /\ LET next == [act EXCEPT !.age = n]
            IN  next \in Activation /\ next.step = act.step /\ next.job = act.job
                /\ next.age = n /\ next.read = act.read
BY DEF Activation, Steps

LEMMA FailingEffect ==
  ASSUME NEW act \in Activation, NEW n \in Nat
  PROVE  LET next == [act EXCEPT !.step = "failing", !.read = n]
         IN  next \in Activation /\ next.step = "failing" /\ next.job = act.job
             /\ next.age = act.age /\ next.read = n
BY DEF Activation, Steps

LEMMA ScanEffect ==
  ASSUME NEW j \in Jobs
  PROVE  LET next == [Idle EXCEPT !.step = "claiming", !.job = j]
         IN  next \in Activation /\ next.step = "claiming" /\ next.job = j /\ next.age = 0
BY DEF Activation, Steps, Idle

\* Only the activation that goes on changes.
LEMMA GoesEffect ==
  ASSUME TypeOK, NEW w \in Workers, NEW act \in Activation, Goes(w, act)
  PROVE  /\ acts' \in [Workers -> Activation]
         /\ acts'[w] = act
         /\ \A v \in Workers : v # w => acts'[v] = acts[v]
BY DEF Goes, TypeOK

-----------------------------------------------------------------------------
(* Types. *)

\* An activation that has a job of the table keeps the types as it goes on.
LEMMA GoesType ==
  ASSUME TypeOK, NEW w \in Workers, NEW act \in Activation, Goes(w, act),
         act.step \in {"idle", "ready"} \/ act.job \in Jobs,
         jobs' \in [Jobs -> JobRow], alarms' \in [Jobs -> Nat], done' \in SUBSET Jobs
  PROVE  TypeOK'
BY GoesEffect DEF TypeOK

\* Every step of an activation keeps the types.
LEMMA ProcessType ==
  ASSUME TypeOK, NEW w \in Workers, Process(w) \/ Crash(w)
  PROVE  TypeOK'
<1> DEFINE act == acts[w]
<1>1. /\ act \in Activation /\ act.age \in Nat
      /\ jobs \in [Jobs -> JobRow] /\ alarms \in [Jobs -> Nat] /\ done \in SUBSET Jobs
  BY DEF TypeOK, Activation
<1>2. ASSUME act.step \notin {"idle", "ready"} PROVE act.job \in Jobs
  BY <1>2 DEF TypeOK
<1>3. \A step \in Steps : /\ [act EXCEPT !.step = step] \in Activation
                          /\ [act EXCEPT !.step = step].job = act.job
  BY <1>1, ActEffects, Zenon
<1>4. CASE RecoverStaleRunningJobs(w)
  BY <1>1, <1>4, RowEffects, FreshActs, GoesType DEF RecoverStaleRunningJobs
<1>5. CASE ClaimScan(w)
  <2>1. ASSUME NEW j \in Jobs, Goes(w, [Idle EXCEPT !.step = "claiming", !.job = j]),
               UNCHANGED <<jobs, alarms, done>>
        PROVE  TypeOK'
    <3>1. [Idle EXCEPT !.step = "claiming", !.job = j] \in Activation
          /\ [Idle EXCEPT !.step = "claiming", !.job = j].job = j
      BY ScanEffect
    <3>2. QED BY <1>1, <2>1, <3>1, GoesType
  <2>2. ASSUME Goes(w, Idle), UNCHANGED <<jobs, alarms, done>> PROVE TypeOK'
    BY <1>1, <2>2, FreshActs, GoesType
  <2>3. QED BY <1>5, <2>1, <2>2 DEF ClaimScan
<1>6. CASE ClaimCommit(w)
  <2>1. Goes(w, [act EXCEPT !.step = "running"]) /\ "running" \in Steps /\ act.job \in Jobs
    BY <1>2, <1>6 DEF ClaimCommit, At, Steps
  <2>2. jobs' \in [Jobs -> JobRow]
    BY <1>1, <1>6, <2>1, ClaimedEffect DEF ClaimCommit
  <2>3. alarms' = alarms /\ done' = done
    BY <1>6 DEF ClaimCommit
  <2>4. QED BY <1>1, <1>3, <2>1, <2>2, <2>3, GoesType
<1>7. CASE HandlerReturns(w)
  <2>1. Goes(w, [act EXCEPT !.step = "returned"]) /\ "returned" \in Steps /\ act.job \in Jobs
    BY <1>2, <1>7 DEF HandlerReturns, At, Steps
  <2>2. jobs' = jobs /\ alarms' = alarms /\ done' \in SUBSET Jobs
    BY <1>1, <1>7, <2>1 DEF HandlerReturns
  <2>3. QED BY <1>1, <1>3, <2>1, <2>2, GoesType
<1>8. CASE HandlerThrows(w) \/ CompleteFails(w)
  <2>1. Goes(w, [act EXCEPT !.step = "threw"]) /\ "threw" \in Steps /\ act.job \in Jobs
    BY <1>2, <1>8 DEF HandlerThrows, CompleteFails, At, Steps
  <2>2. jobs' = jobs /\ alarms' = alarms /\ done' = done
    BY <1>8 DEF HandlerThrows, CompleteFails
  <2>3. QED BY <1>1, <1>3, <2>1, <2>2, GoesType
<1>9. CASE CompleteJob(w)
  <2>1. act.job \in Jobs
    BY <1>2, <1>9 DEF CompleteJob, At
  <2>2. QED BY <1>1, <1>9, <2>1, FreshActs, RowEffects, GoesType DEF CompleteJob
<1>10. CASE FailRead(w)
  <2> DEFINE n == jobs[act.job].attempt
  <2>1. act.job \in Jobs /\ Goes(w, [act EXCEPT !.step = "failing", !.read = n])
        /\ jobs' = jobs /\ alarms' = alarms /\ done' = done
    BY <1>2, <1>10 DEF FailRead, At
  <2>2. n \in Nat
    BY <1>1, <2>1 DEF JobRow
  <2>3. [act EXCEPT !.step = "failing", !.read = n] \in Activation
        /\ [act EXCEPT !.step = "failing", !.read = n].job = act.job
    BY <1>1, <2>2, FailingEffect
  <2>4. QED BY <1>1, <2>1, <2>3, GoesType
<1>11. CASE FailCommit(w)
  <2>1. Exhausted(w) \in BOOLEAN /\ act.job \in Jobs
    BY <1>2, <1>11 DEF Exhausted, FailCommit, At
  <2>2. jobs' \in [Jobs -> JobRow] /\ alarms' \in [Jobs -> Nat]
    BY <1>1, <1>11, <2>1, FailedEffect DEF FailCommit
  <2>3. QED BY <1>1, <1>11, <2>2, FreshActs, GoesType DEF FailCommit
<1>12. CASE Crash(w)
  BY <1>1, <1>12, FreshActs, GoesType DEF Crash
<1>13. QED BY <1>4, <1>5, <1>6, <1>7, <1>8, <1>9, <1>10, <1>11, <1>12 DEF Process

\* So does the clock.
LEMMA TickType == ASSUME TypeOK, Tick PROVE TypeOK'
<1>1. jobs' \in [Jobs -> JobRow]
  BY RowEffects DEF Tick, TypeOK
<1>2. ASSUME NEW w \in Workers
      PROVE  acts'[w] \in Activation /\ acts'[w].step = acts[w].step
             /\ acts'[w].job = acts[w].job
  <2>1. acts[w] \in Activation /\ acts[w].age + 1 \in Nat
    BY DEF TypeOK, Activation
  <2>2. QED BY <2>1, ActEffects DEF Tick, TypeOK, Activation
<1>3. acts' \in [Workers -> Activation]
  BY <1>2 DEF Tick
<1>4. QED BY <1>1, <1>2, <1>3 DEF Tick, TypeOK

\* Every step keeps the types.
LEMMA StepType == ASSUME TypeOK, [Next]_vars PROVE TypeOK'
<1>1. CASE UNCHANGED vars
  BY <1>1 DEF TypeOK, vars
<1>2. ASSUME NEW j \in Jobs, Enqueue(j) PROVE TypeOK'
  BY <1>2, FreshRows DEF Enqueue, TypeOK
<1>3. QED BY <1>1, <1>2, ProcessType, TickType DEF Next

\* Every reachable state of the table and of the activations is well typed.
THEOREM TypeCorrect == Spec => []TypeOK
<1>1. Init => TypeOK
  BY FreshRows, FreshActs DEF Init, TypeOK
<1>2. TypeOK /\ [Next]_vars => TypeOK'
  BY StepType
<1>3. QED BY <1>1, <1>2, PTL DEF Spec

-----------------------------------------------------------------------------
(* What holds with any number of workers, however slow. *)

\* Steps of an activation that change no row and read none.
Silently(w) == ClaimScan(w) \/ HandlerReturns(w) \/ HandlerThrows(w) \/ CompleteFails(w)
                 \/ Crash(w)

\* Where such a step leads.
LEMMA SilentEffect ==
  ASSUME TypeOK, NEW w \in Workers, Silently(w)
  PROVE  /\ jobs' = jobs /\ alarms' = alarms
         /\ acts'[w].step \in {"idle", "claiming", "returned", "threw"}
         /\ \A v \in Workers : v # w => acts'[v] = acts[v]
         /\ acts'[w].step \in {"returned", "threw"} =>
              /\ acts[w].step \in {"running", "returned"}
              /\ acts'[w].job = acts[w].job /\ acts'[w].age = acts[w].age
         /\ acts'[w].step = "returned" => acts'[w].job \in done'
         /\ done \subseteq done'
<1>1. acts[w] \in Activation
  BY DEF TypeOK
<1>2. CASE ClaimScan(w)
  <2>1. ASSUME NEW j \in Jobs, Goes(w, [Idle EXCEPT !.step = "claiming", !.job = j])
        PROVE  acts'[w].step = "claiming" /\ \A v \in Workers : v # w => acts'[v] = acts[v]
    <3> DEFINE next == [Idle EXCEPT !.step = "claiming", !.job = j]
    <3>1. next \in Activation /\ next.step = "claiming"
      BY ScanEffect, Zenon
    <3>2. acts'[w] = next /\ \A v \in Workers : v # w => acts'[v] = acts[v]
      BY <2>1, <3>1, GoesEffect
    <3>3. QED BY <3>1, <3>2
  <2>2. ASSUME Goes(w, Idle)
        PROVE  acts'[w].step = "idle" /\ \A v \in Workers : v # w => acts'[v] = acts[v]
    BY <2>2, FreshActs, GoesEffect
  <2>3. QED BY <1>2, <2>1, <2>2 DEF ClaimScan
<1>3. CASE HandlerReturns(w)
  <2>1. Goes(w, [acts[w] EXCEPT !.step = "returned"]) /\ "returned" \in Steps
    BY <1>3 DEF HandlerReturns, Steps
  <2> DEFINE next == [acts[w] EXCEPT !.step = "returned"]
  <2>2. next \in Activation /\ next.step = "returned" /\ next.job = acts[w].job /\ next.age = acts[w].age
    BY <1>1, <2>1, ActEffects, Zenon
  <2>3. acts'[w] = next /\ \A v \in Workers : v # w => acts'[v] = acts[v]
    BY <2>1, <2>2, GoesEffect
  <2>4. QED BY <1>3, <2>2, <2>3 DEF HandlerReturns, At
<1>4. CASE HandlerThrows(w) \/ CompleteFails(w)
  <2>1. Goes(w, [acts[w] EXCEPT !.step = "threw"]) /\ "threw" \in Steps
    BY <1>4 DEF HandlerThrows, CompleteFails, Steps
  <2> DEFINE next == [acts[w] EXCEPT !.step = "threw"]
  <2>2. next \in Activation /\ next.step = "threw" /\ next.job = acts[w].job /\ next.age = acts[w].age
    BY <1>1, <2>1, ActEffects, Zenon
  <2>3. acts'[w] = next /\ \A v \in Workers : v # w => acts'[v] = acts[v]
    BY <2>1, <2>2, GoesEffect
  <2>4. QED BY <1>4, <2>2, <2>3 DEF HandlerThrows, CompleteFails, At
<1>5. CASE Crash(w)
  BY <1>5, FreshActs, GoesEffect DEF Crash
<1>6. QED BY <1>2, <1>3, <1>4, <1>5 DEF Silently

\* A claim: its row, if it still waits, and the activation.
LEMMA CommitEffect ==
  ASSUME TypeOK, NEW w \in Workers, ClaimCommit(w)
  PROVE  LET j == acts[w].job
         IN  /\ j \in Jobs /\ acts[w].age \in Nat
             /\ jobs'[j] = Claimed(jobs[j], acts[w].age)
             /\ \A k \in Jobs : k # j => jobs'[k] = jobs[k]
             /\ acts'[w].step = "running" /\ acts'[w].job = j /\ acts'[w].age = acts[w].age
             /\ \A v \in Workers : v # w => acts'[v] = acts[v]
             /\ alarms' = alarms /\ done' = done
<1>1. acts[w] \in Activation /\ acts[w].age \in Nat /\ "running" \in Steps
  BY DEF TypeOK, Activation, Steps
<1>2. acts[w].job \in Jobs
  BY DEF TypeOK, ClaimCommit, At
<1> DEFINE next == [acts[w] EXCEPT !.step = "running"]
<1>3. next \in Activation /\ next.step = "running" /\ next.job = acts[w].job /\ next.age = acts[w].age
  BY <1>1, ActEffects, Zenon
<1>4. acts'[w] = next /\ \A v \in Workers : v # w => acts'[v] = acts[v]
  BY <1>3, GoesEffect DEF ClaimCommit
<1>5. QED BY <1>1, <1>2, <1>3, <1>4 DEF ClaimCommit, TypeOK

\* The read of failJob.
LEMMA FailReadEffect ==
  ASSUME TypeOK, NEW w \in Workers, FailRead(w)
  PROVE  /\ acts[w].step = "threw" /\ acts[w].job \in Jobs
         /\ acts'[w].step = "failing" /\ acts'[w].job = acts[w].job
         /\ acts'[w].age = acts[w].age /\ acts'[w].read = jobs[acts[w].job].attempt
         /\ \A v \in Workers : v # w => acts'[v] = acts[v]
         /\ jobs' = jobs /\ alarms' = alarms /\ done' = done
<1> DEFINE n == jobs[acts[w].job].attempt
           next == [acts[w] EXCEPT !.step = "failing", !.read = n]
<1>1. acts[w] \in Activation /\ acts[w].step = "threw" /\ acts[w].job \in Jobs
  BY DEF TypeOK, FailRead, At
<1>2. n \in Nat
  BY <1>1 DEF TypeOK, JobRow
<1>3. next \in Activation /\ next.step = "failing" /\ next.job = acts[w].job
      /\ next.age = acts[w].age /\ next.read = n
  BY <1>1, <1>2, FailingEffect
<1>4. acts'[w] = next /\ \A v \in Workers : v # w => acts'[v] = acts[v]
  BY <1>3, GoesEffect DEF FailRead
<1>5. QED BY <1>1, <1>3, <1>4 DEF FailRead

\* The two records of a result.
LEMMA RecordEffect ==
  ASSUME TypeOK, NEW w \in Workers, CompleteJob(w) \/ FailCommit(w)
  PROVE  LET j == acts[w].job
         IN  /\ j \in Jobs /\ acts'[w].step = "idle"
             /\ jobs'[j] = IF CompleteJob(w) THEN Completed(jobs[j])
                           ELSE Failed(jobs[j], Exhausted(w))
             /\ \A k \in Jobs : k # j => jobs'[k] = jobs[k]
             /\ \A v \in Workers : v # w => acts'[v] = acts[v]
             /\ \A k \in Jobs : \/ alarms'[k] = alarms[k]
                                 \/ /\ alarms'[k] = alarms[k] + 1 /\ k = j
                                    /\ FailCommit(w) /\ Exhausted(w)
             /\ done' = done
<1>1. acts[w].job \in Jobs
  BY DEF TypeOK, CompleteJob, FailCommit, At
<1>2. Goes(w, Idle)
  BY DEF CompleteJob, FailCommit
<1>3. acts'[w].step = "idle" /\ \A v \in Workers : v # w => acts'[v] = acts[v]
  BY <1>2, FreshActs, GoesEffect
<1>4. CASE CompleteJob(w)
  BY <1>1, <1>3, <1>4 DEF CompleteJob, TypeOK
<1>5. CASE FailCommit(w)
  <2>1. ~CompleteJob(w)
    BY <1>5 DEF FailCommit, CompleteJob, At
  <2>2. QED BY <1>1, <1>3, <1>5, <2>1 DEF FailCommit, TypeOK
<1>6. QED BY <1>4, <1>5

\* Recovery.
LEMMA RecoverEffect ==
  ASSUME TypeOK, NEW w \in Workers, RecoverStaleRunningJobs(w)
  PROVE  /\ acts'[w].step = "ready"
         /\ \A v \in Workers : v # w => acts'[v] = acts[v]
         /\ \A j \in Jobs : jobs'[j] = IF Abandoned(j) THEN Recovered(jobs[j]) ELSE jobs[j]
         /\ alarms' = alarms /\ done' = done
BY FreshActs, GoesEffect DEF RecoverStaleRunningJobs

\* What recovery and a claim make of a job.
LEMMA RecoveredJob ==
  ASSUME TypeOK, NEW w \in Workers, RecoverStaleRunningJobs(w), NEW j \in Jobs
  PROVE  /\ jobs'[j].attempt = jobs[j].attempt /\ jobs[j].attempt \in Nat
         /\ ~Abandoned(j) => jobs'[j] = jobs[j]
         /\ Abandoned(j) => \/ jobs[j].attempt >= MaxAttempts /\ jobs'[j].status = "dead_letter"
                            \/ jobs[j].attempt < MaxAttempts /\ jobs'[j].status = "pending"
<1>1. jobs[j] \in JobRow /\ jobs[j].attempt \in Nat /\ MaxAttempts \in Nat
  BY QueueAssumption DEF TypeOK, JobRow
<1>2. jobs'[j] = IF Abandoned(j) THEN Recovered(jobs[j]) ELSE jobs[j]
  BY RecoverEffect
<1>3. jobs[j].attempt >= MaxAttempts \/ jobs[j].attempt < MaxAttempts
  BY <1>1
<1>4. QED BY <1>1, <1>2, <1>3, RowEffects

LEMMA ClaimedJob ==
  ASSUME TypeOK, NEW w \in Workers, ClaimCommit(w), NEW j \in Jobs
  PROVE  /\ jobs[j].attempt \in Nat
         /\ \/ jobs'[j] = jobs[j]
            \/ /\ j = acts[w].job /\ jobs[j].status = "pending" /\ jobs'[j].status = "running"
               /\ jobs'[j].attempt = jobs[j].attempt + 1 /\ jobs'[j].age = acts[w].age
<1>1. jobs[j] \in JobRow /\ jobs[j].attempt \in Nat /\ acts[w].age \in Nat
  BY CommitEffect DEF TypeOK, JobRow
<1>2. QED BY <1>1, CommitEffect, ClaimedEffect

\* What the record of a result makes of it.
LEMMA RecordedJob ==
  ASSUME TypeOK, NEW w \in Workers, CompleteJob(w) \/ FailCommit(w)
  PROVE  LET j == acts[w].job
         IN  /\ jobs'[j].attempt = jobs[j].attempt
             /\ CompleteJob(w) => jobs'[j].status = "succeeded"
             /\ FailCommit(w) => jobs'[j].status = IF Exhausted(w) THEN "dead_letter" ELSE "pending"
<1> DEFINE j == acts[w].job
<1>1. j \in Jobs /\ jobs'[j] = IF CompleteJob(w) THEN Completed(jobs[j])
                              ELSE Failed(jobs[j], Exhausted(w))
  BY RecordEffect
<1>2. jobs[j] \in JobRow /\ Exhausted(w) \in BOOLEAN
  BY <1>1 DEF TypeOK, Exhausted
<1>3. Completed(jobs[j]).attempt = jobs[j].attempt /\ Completed(jobs[j]).status = "succeeded"
  BY <1>2, RowEffects
<1>4. /\ Failed(jobs[j], Exhausted(w)).attempt = jobs[j].attempt
      /\ Failed(jobs[j], Exhausted(w)).status = IF Exhausted(w) THEN "dead_letter" ELSE "pending"
  BY <1>2, FailedEffect
<1>5. FailCommit(w) => ~CompleteJob(w)
  BY DEF FailCommit, CompleteJob, At
<1>6. QED BY <1>1, <1>3, <1>4, <1>5

\* The clock moves ages only.
LEMMA TickEffect ==
  ASSUME TypeOK, Tick
  PROVE  /\ \A j \in Jobs : jobs'[j] = Older(jobs[j])
         /\ \A w \in Workers :
              /\ acts'[w].step = acts[w].step /\ acts'[w].job = acts[w].job
              /\ acts'[w].read = acts[w].read
              /\ Busy(w) => acts[w].age < HandlerBound /\ acts'[w].age = acts[w].age + 1
         /\ alarms' = alarms /\ done' = done
<1>1. ASSUME NEW w \in Workers
      PROVE  /\ acts'[w].step = acts[w].step /\ acts'[w].job = acts[w].job
             /\ acts'[w].read = acts[w].read
             /\ Busy(w) => acts[w].age < HandlerBound /\ acts'[w].age = acts[w].age + 1
  <2>1. acts[w] \in Activation /\ acts[w].age + 1 \in Nat
    BY DEF TypeOK, Activation
  <2> DEFINE next == [acts[w] EXCEPT !.age = acts[w].age + 1]
  <2>2. next.step = acts[w].step /\ next.job = acts[w].job /\ next.age = acts[w].age + 1
        /\ next.read = acts[w].read
    BY <2>1, ActEffects, Zenon
  <2>3. QED BY <2>2 DEF Tick
<1>2. QED BY <1>1 DEF Tick

\* The actions, as the proofs below take them.
LEMMA NextCases ==
  ASSUME [Next]_vars
  PROVE  \/ UNCHANGED vars
         \/ \E j \in Jobs : Enqueue(j)
         \/ \E w \in Workers : \/ Silently(w) \/ RecoverStaleRunningJobs(w) \/ ClaimCommit(w)
                                \/ FailRead(w) \/ CompleteJob(w) \/ FailCommit(w)
         \/ Tick
BY DEF Next, Process, Silently

\* Attempts only grow, so an attempt that has been read is a lower bound.
LEMMA GivenUpStep ==
  ASSUME TypeOK, GivenUpInv, [Next]_vars
  PROVE  GivenUpInv'
<1> USE QueueAssumption
<1>1. CASE UNCHANGED vars
  BY <1>1 DEF vars, GivenUpInv, GivenUpLast, Untouched, At
<1>2. ASSUME NEW j \in Jobs, Enqueue(j) PROVE GivenUpInv'
  <2>1. /\ acts' = acts /\ alarms' = alarms /\ jobs[j].attempt = 0 /\ alarms[j] = 0
        /\ jobs'[j].status = "pending" /\ jobs'[j].attempt = 0
        /\ \A k \in Jobs : k # j => jobs'[k] = jobs[k]
    BY <1>2, FreshRows DEF Enqueue, TypeOK, GivenUpInv, Untouched
  <2>2. QED BY <2>1 DEF GivenUpInv, GivenUpLast, Untouched, At, TypeOK
<1>3. ASSUME NEW w \in Workers, Silently(w) PROVE GivenUpInv'
  BY <1>3, SilentEffect DEF GivenUpInv, GivenUpLast, Untouched, At
<1>4. ASSUME NEW w \in Workers, RecoverStaleRunningJobs(w) PROVE GivenUpInv'
  <2>1. \A j \in Jobs : /\ jobs'[j].attempt = jobs[j].attempt /\ jobs[j].attempt \in Nat
                        /\ jobs'[j].status = "dead_letter" /\ jobs[j].status # "dead_letter"
                             => jobs[j].attempt >= MaxAttempts
                        /\ jobs'[j].status = "none" => jobs[j].status = "none"
    BY <1>4, RecoveredJob
  <2>2. GivenUpLast' /\ Untouched'
    BY <1>4, <2>1, RecoverEffect DEF GivenUpInv, GivenUpLast, Untouched
  <2>3. ASSUME NEW v \in Workers, At(v, "failing")'
        PROVE  acts'[v].read <= jobs'[acts'[v].job].attempt
    <3>1. acts'[v] = acts[v] /\ At(v, "failing")
      BY <1>4, <2>3, RecoverEffect DEF At
    <3>2. acts[v].job \in Jobs
      BY <3>1 DEF At, TypeOK
    <3>3. QED BY <2>1, <3>1, <3>2 DEF GivenUpInv
  <2>4. QED BY <2>2, <2>3 DEF GivenUpInv
<1>5. ASSUME NEW w \in Workers, ClaimCommit(w) PROVE GivenUpInv'
  <2>1. \A k \in Jobs : /\ jobs'[k].attempt >= jobs[k].attempt
                        /\ jobs[k].attempt \in Nat /\ jobs'[k].attempt \in Nat
                        /\ jobs'[k] # jobs[k] => jobs'[k].status = "running"
    <3>1. ASSUME NEW k \in Jobs
          PROVE  /\ jobs[k].attempt \in Nat
                 /\ \/ jobs'[k] = jobs[k]
                    \/ jobs'[k].status = "running" /\ jobs'[k].attempt = jobs[k].attempt + 1
      BY <1>5, ClaimedJob
    <3>2. QED BY <3>1
  <2>2. \A v \in Workers : /\ At(v, "failing")' => v # w /\ acts'[v] = acts[v]
                           /\ At(v, "failing")' => acts[v].job \in Jobs /\ acts[v].read \in Nat
    BY <1>5, CommitEffect DEF At, TypeOK, Activation
  <2>3. GivenUpLast' /\ Untouched'
    BY <1>5, <2>1, CommitEffect DEF GivenUpInv, GivenUpLast, Untouched
  <2>4. ASSUME NEW v \in Workers, At(v, "failing")'
        PROVE  acts'[v].read <= jobs'[acts'[v].job].attempt
    <3>1. acts'[v] = acts[v] /\ acts[v].job \in Jobs /\ acts[v].read \in Nat
      BY <2>2, <2>4
    <3>2. acts[v].read <= jobs[acts[v].job].attempt
      BY <2>4, <3>1 DEF GivenUpInv, At
    <3> DEFINE k == acts[v].job
    <3>3. jobs'[k].attempt >= jobs[k].attempt /\ jobs[k].attempt \in Nat /\ jobs'[k].attempt \in Nat
      BY <2>1, <3>1
    <3>4. acts[v].read <= jobs'[k].attempt
      BY <3>1, <3>2, <3>3
    <3>5. QED BY <3>1, <3>4
  <2>5. QED BY <2>3, <2>4 DEF GivenUpInv
<1>6. ASSUME NEW w \in Workers, FailRead(w) PROVE GivenUpInv'
  <2>1. jobs[acts[w].job].attempt \in Nat
    BY <1>6, FailReadEffect DEF TypeOK, JobRow
  <2>2. QED BY <1>6, <2>1, FailReadEffect DEF GivenUpInv, GivenUpLast, Untouched, At
<1>7. ASSUME NEW w \in Workers, CompleteJob(w) \/ FailCommit(w) PROVE GivenUpInv'
  <2> DEFINE j == acts[w].job
  <2>1. j \in Jobs /\ jobs[j] \in JobRow
    <3>1. j \in Jobs
      BY <1>7, RecordEffect
    <3>2. QED BY <3>1 DEF TypeOK
  <2>2. /\ jobs'[j].attempt = jobs[j].attempt
        /\ jobs'[j].status \in {"succeeded", "dead_letter", "pending"}
        /\ jobs'[j].status = "dead_letter" => Exhausted(w) /\ FailCommit(w)
    BY <1>7, RecordedJob
  <2>3. Exhausted(w) /\ FailCommit(w) => jobs[j].attempt >= MaxAttempts
    <3>1. FailCommit(w) => acts[w].read <= jobs[j].attempt
      BY DEF FailCommit, At, GivenUpInv
    <3>2. acts[w].read \in Nat /\ jobs[j].attempt \in Nat
      BY <2>1 DEF TypeOK, Activation, JobRow
    <3>3. QED BY <3>1, <3>2 DEF Exhausted
  <2>4. \A k \in Jobs : jobs'[k].attempt = jobs[k].attempt
    BY <1>7, <2>2, RecordEffect
  <2>5. GivenUpLast' /\ Untouched'
    BY <1>7, <2>2, <2>3, <2>4, RecordEffect DEF GivenUpInv, GivenUpLast, Untouched, TypeOK
  <2>6. ASSUME NEW v \in Workers, At(v, "failing")'
        PROVE  acts'[v].read <= jobs'[acts'[v].job].attempt
    <3>1. v # w /\ acts'[v] = acts[v]
      BY <1>7, <2>6, RecordEffect DEF At
    <3>2. acts[v].job \in Jobs
      BY <2>6, <3>1 DEF At, TypeOK
    <3>3. QED BY <2>4, <2>6, <3>1, <3>2 DEF GivenUpInv, At
  <2>7. QED BY <2>5, <2>6 DEF GivenUpInv
<1>8. CASE Tick
  <2>1. \A k \in Jobs : jobs'[k].attempt = jobs[k].attempt /\ jobs'[k].status = jobs[k].status
    BY <1>8, TickEffect, RowEffects DEF TypeOK
  <2>2. \A v \in Workers : At(v, "failing") => acts[v].job \in Jobs
    BY DEF At, TypeOK
  <2>3. QED BY <1>8, <2>1, <2>2, TickEffect DEF GivenUpInv, GivenUpLast, Untouched, At
<1>9. QED BY <1>1, <1>2, <1>3, <1>4, <1>5, <1>6, <1>7, <1>8, NextCases

\* For any number of workers and any delays, a job is given up, and its failure
\* announced, only after max_attempts claims.
THEOREM GivenUpHolds == Spec => []GivenUpLast
<1>1. Init => GivenUpInv
  BY QueueAssumption, FreshRows, FreshActs DEF Init, GivenUpInv, GivenUpLast, Untouched, At
<1>2. TypeOK /\ GivenUpInv /\ [Next]_vars => GivenUpInv'
  BY GivenUpStep
<1>3. GivenUpInv => GivenUpLast
  BY DEF GivenUpInv
<1>4. QED BY <1>1, <1>2, <1>3, TypeCorrect, PTL DEF Spec

\* A run that returned is remembered until it is recorded, and afterwards.
LEMMA SuccessInvariant == Spec => []SuccessInv
<1>1. Init => SuccessInv
  BY FreshRows, FreshActs DEF Init, SuccessInv, SuccessIsReal, At
<1>2. ASSUME TypeOK, SuccessInv, [Next]_vars PROVE SuccessInv'
  <2>1. CASE UNCHANGED vars
    BY <1>2, <2>1 DEF vars, SuccessInv, SuccessIsReal, At
  <2>2. ASSUME NEW j \in Jobs, Enqueue(j) PROVE SuccessInv'
    BY <1>2, <2>2, FreshRows DEF Enqueue, TypeOK, SuccessInv, SuccessIsReal, At
  <2>3. ASSUME NEW w \in Workers, Silently(w) PROVE SuccessInv'
    BY <1>2, <2>3, SilentEffect DEF SuccessInv, SuccessIsReal, At
  <2>4. ASSUME NEW w \in Workers, RecoverStaleRunningJobs(w) PROVE SuccessInv'
    <3>1. \A j \in Jobs : jobs'[j].status = "succeeded" => jobs[j].status = "succeeded"
      BY <1>2, <2>4, RecoveredJob
    <3>2. QED BY <1>2, <2>4, <3>1, RecoverEffect DEF SuccessInv, SuccessIsReal, At
  <2>5. ASSUME NEW w \in Workers, ClaimCommit(w) PROVE SuccessInv'
    <3>1. \A j \in Jobs : jobs'[j].status = "succeeded" => jobs[j].status = "succeeded"
      BY <1>2, <2>5, CommitEffect, ClaimedEffect DEF TypeOK
    <3>2. QED BY <1>2, <2>5, <3>1, CommitEffect DEF SuccessInv, SuccessIsReal, At
  <2>6. ASSUME NEW w \in Workers, FailRead(w) PROVE SuccessInv'
    BY <1>2, <2>6, FailReadEffect DEF SuccessInv, SuccessIsReal, At
  <2>7. ASSUME NEW w \in Workers, CompleteJob(w) PROVE SuccessInv'
    <3>1. acts[w].job \in done
      BY <1>2, <2>7 DEF CompleteJob, SuccessInv, At
    <3>2. QED BY <1>2, <2>7, <3>1, RecordEffect DEF SuccessInv, SuccessIsReal, At
  <2>8. ASSUME NEW w \in Workers, FailCommit(w) PROVE SuccessInv'
    <3>1. ~CompleteJob(w) /\ Exhausted(w) \in BOOLEAN
      BY <2>8 DEF CompleteJob, FailCommit, At, Exhausted
    <3>2. \A j \in Jobs : jobs'[j].status = "succeeded" => jobs[j].status = "succeeded"
      BY <1>2, <2>8, <3>1, RecordEffect, FailedEffect DEF TypeOK
    <3>3. QED BY <1>2, <2>8, <3>2, RecordEffect DEF SuccessInv, SuccessIsReal, At
  <2>9. CASE Tick
    <3>1. \A j \in Jobs : jobs'[j].status = jobs[j].status
      BY <1>2, <2>9, TickEffect, RowEffects DEF TypeOK
    <3>2. QED BY <1>2, <2>9, <3>1, TickEffect DEF SuccessInv, SuccessIsReal, At
  <2>10. QED BY <1>2, <2>1, <2>2, <2>3, <2>4, <2>5, <2>6, <2>7, <2>8, <2>9, NextCases
<1>3. QED BY <1>1, <1>2, TypeCorrect, PTL DEF Spec

\* Under the same conditions, none, a job is succeeded only if its handler returned.
THEOREM SuccessHolds == Spec => []SuccessIsReal
<1>1. SuccessInv => SuccessIsReal
  BY DEF SuccessInv
<1>2. QED BY <1>1, SuccessInvariant, PTL

-----------------------------------------------------------------------------
(* What holds when claims are serial and handlers end in time. *)

\* A claim finds its job due, and no other claim under way.
LEMMA ScanFinds ==
  ASSUME Owned, TypeOK, NEW w \in Workers, ClaimScan(w), acts'[w].step = "claiming"
  PROVE  /\ acts'[w].job \in Jobs /\ jobs[acts'[w].job].status = "pending" /\ acts'[w].age = 0
         /\ \A v \in Workers : acts[v].step # "claiming"
<1>1. \A v \in Workers : acts[v].step # "claiming"
  BY DEF ClaimScan, Owned, At
<1>2. ~Goes(w, Idle)
  BY FreshActs, GoesEffect
<1>3. PICK j \in Jobs : Due(j) /\ Goes(w, [Idle EXCEPT !.step = "claiming", !.job = j])
  BY <1>2 DEF ClaimScan
<1> DEFINE next == [Idle EXCEPT !.step = "claiming", !.job = j]
<1>4. next \in Activation /\ next.job = j /\ next.age = 0
  BY ScanEffect, Zenon
<1>5. acts'[w] = next
  BY <1>3, <1>4, GoesEffect
<1>6. QED BY <1>1, <1>3, <1>4, <1>5 DEF Due

\* Whoever handles or claims a job has one, and handled rows are too young for
\* recovery.
LEMMA OwnedFacts ==
  ASSUME Owned, QueueInv
  PROVE  /\ \A w \in Workers : Busy(w) => acts[w].job \in Jobs /\ acts[w].age \in Nat
         /\ \A w \in Workers : Handling(w) => ~Abandoned(acts[w].job)
         /\ \A j \in Jobs : alarms[j] \in Nat /\ jobs[j].attempt \in Nat
         /\ \A j \in Jobs : jobs[j].status # "dead_letter" => alarms[j] = 0
<1>1. \A w \in Workers : Busy(w) => acts[w].job \in Jobs /\ acts[w].age \in Nat
  BY DEF QueueInv, TypeOK, Busy, Activation
<1>2. ASSUME NEW w \in Workers, Handling(w) PROVE ~Abandoned(acts[w].job)
  <2>1. Busy(w)
    BY <1>2 DEF Busy, Handling
  <2>2. jobs[acts[w].job].age = acts[w].age /\ acts[w].age <= HandlerBound
    BY <1>2, <2>1 DEF QueueInv, ClaimsAgree
  <2>3. QED BY <1>1, <2>1, <2>2, QueueAssumption DEF Abandoned, Owned
<1>3. \A j \in Jobs : alarms[j] \in Nat /\ jobs[j].attempt \in Nat
  BY DEF QueueInv, TypeOK, JobRow
<1>4. \A j \in Jobs : jobs[j].status # "dead_letter" => alarms[j] = 0
  BY <1>3 DEF QueueInv, AlarmsAreFinal
<1>5. QED BY <1>1, <1>2, <1>3, <1>4

LEMMA EnqueueSafe ==
  ASSUME Owned, QueueInv, TypeOK', NEW j \in Jobs, Enqueue(j)
  PROVE  QueueInv'
<1> USE QueueAssumption
<1>1. /\ acts' = acts /\ alarms' = alarms /\ jobs[j].status = "none"
      /\ jobs'[j].status = "pending" /\ jobs'[j].attempt = 0
      /\ \A k \in Jobs : k # j => jobs'[k] = jobs[k]
  BY FreshRows DEF Enqueue, QueueInv, TypeOK
<1>2. \A w \in Workers : Handling(w) \/ At(w, "claiming") => acts[w].job \in Jobs /\ acts[w].job # j
  BY <1>1, OwnedFacts DEF QueueInv, OneHandler, ClaimsAgree, Busy, Handling, At
<1>3. OneHandler'
  BY <1>1, <1>2 DEF QueueInv, OneHandler, Handling
<1>4. ClaimsAgree'
  <2>1. ASSUME NEW v \in Workers
        PROVE  /\ At(v, "claiming")' => /\ jobs'[acts'[v].job].status = "pending"
                                        /\ \A u \in Workers : At(u, "claiming")' => u = v
               /\ Busy(v)' => acts'[v].age <= HandlerBound
               /\ Handling(v)' => jobs'[acts'[v].job].age = acts'[v].age
               /\ At(v, "failing")' => acts'[v].read = jobs'[acts'[v].job].attempt
    <3>1. CASE Handling(v) \/ At(v, "claiming")
      <4>1. jobs'[acts[v].job] = jobs[acts[v].job]
        BY <1>1, <1>2, <3>1
      <4>2. QED BY <1>1, <3>1, <4>1 DEF QueueInv, ClaimsAgree, Handling, At, Busy
    <3>2. CASE ~Handling(v) /\ ~At(v, "claiming")
      BY <1>1, <3>2 DEF QueueInv, ClaimsAgree, Handling, At, Busy
    <3>3. QED BY <3>1, <3>2
  <2>2. QED BY <2>1 DEF ClaimsAgree
<1>5. AttemptsBounded' /\ AlarmsAreFinal' /\ Untouched'
  BY <1>1, OwnedFacts DEF QueueInv, AttemptsBounded, AlarmsAreFinal, Untouched
<1>6. QED BY <1>3, <1>4, <1>5 DEF QueueInv

LEMMA SilentSafe ==
  ASSUME Owned, QueueInv, TypeOK', NEW w \in Workers, Silently(w)
  PROVE  QueueInv'
<1>1. TypeOK /\ jobs' = jobs /\ alarms' = alarms
  BY SilentEffect DEF QueueInv
<1>2. \A v \in Workers : v # w => acts'[v] = acts[v]
  BY <1>1, SilentEffect
<1>3. acts'[w].step \in {"returned", "threw"} =>
         Handling(w) /\ acts'[w].job = acts[w].job /\ acts'[w].age = acts[w].age
  BY <1>1, SilentEffect DEF Handling
<1>4. acts'[w].step = "claiming" =>
         /\ acts'[w].job \in Jobs /\ jobs[acts'[w].job].status = "pending" /\ acts'[w].age = 0
         /\ \A v \in Workers : acts[v].step # "claiming"
  <2>1. SUFFICES ASSUME acts'[w].step = "claiming"
                 PROVE  /\ acts'[w].job \in Jobs /\ jobs[acts'[w].job].status = "pending"
                        /\ acts'[w].age = 0
                        /\ \A v \in Workers : acts[v].step # "claiming"
    OBVIOUS
  <2>2. ClaimScan(w)
    <3>1. CASE HandlerReturns(w)
      <4>1. "returned" \in Steps /\ acts[w] \in Activation
        BY <1>1 DEF Steps, TypeOK
      <4>2. [acts[w] EXCEPT !.step = "returned"] \in Activation
            /\ [acts[w] EXCEPT !.step = "returned"].step = "returned"
        BY <4>1, ActEffects, Zenon
      <4>3. QED BY <1>1, <2>1, <3>1, <4>2, GoesEffect DEF HandlerReturns
    <3>2. CASE HandlerThrows(w) \/ CompleteFails(w)
      <4>1. "threw" \in Steps /\ acts[w] \in Activation
        BY <1>1 DEF Steps, TypeOK
      <4>2. [acts[w] EXCEPT !.step = "threw"] \in Activation
            /\ [acts[w] EXCEPT !.step = "threw"].step = "threw"
        BY <4>1, ActEffects, Zenon
      <4>3. QED BY <1>1, <2>1, <3>2, <4>2, GoesEffect DEF HandlerThrows, CompleteFails
    <3>3. CASE Crash(w)
      BY <1>1, <2>1, <3>3, FreshActs, GoesEffect DEF Crash
    <3>4. QED BY <3>1, <3>2, <3>3 DEF Silently
  <2>3. QED BY <1>1, <2>1, <2>2, ScanFinds
<1>5. acts'[w].step \in {"idle", "claiming", "returned", "threw"}
  BY <1>1, SilentEffect
<1>6. OneHandler'
  BY <1>1, <1>2, <1>3, <1>4, <1>5 DEF QueueInv, OneHandler, Handling
<1>7. \A v \in Workers : Busy(v) => acts[v].age <= HandlerBound
  BY DEF QueueInv, ClaimsAgree
<1>8. ClaimsAgree'
  <2>1. ASSUME NEW v \in Workers
        PROVE  /\ At(v, "claiming")' => /\ jobs'[acts'[v].job].status = "pending"
                                        /\ \A u \in Workers : At(u, "claiming")' => u = v
               /\ Busy(v)' => acts'[v].age <= HandlerBound
               /\ Handling(v)' => jobs'[acts'[v].job].age = acts'[v].age
               /\ At(v, "failing")' => acts'[v].read = jobs'[acts'[v].job].attempt
    <3>1. CASE v = w
      <4>1. At(v, "claiming")' => /\ jobs'[acts'[v].job].status = "pending"
                                  /\ \A u \in Workers : At(u, "claiming")' => u = v
        BY <1>1, <1>2, <1>4, <3>1 DEF At
      <4>2. Busy(v)' => acts'[v].age <= HandlerBound
        BY <1>3, <1>4, <1>5, <1>7, <3>1, QueueAssumption DEF Busy, Handling
      <4>3. Handling(v)' => jobs'[acts'[v].job].age = acts'[v].age
        BY <1>1, <1>3, <1>5, <3>1 DEF QueueInv, ClaimsAgree, Handling
      <4>4. QED BY <1>5, <3>1, <4>1, <4>2, <4>3 DEF At
    <3>2. CASE v # w
      BY <1>1, <1>2, <1>4, <1>5, <3>2 DEF QueueInv, ClaimsAgree, At, Busy, Handling
    <3>3. QED BY <3>1, <3>2
  <2>2. QED BY <2>1 DEF ClaimsAgree
<1>9. AttemptsBounded' /\ AlarmsAreFinal' /\ Untouched'
  BY <1>1 DEF QueueInv, AttemptsBounded, AlarmsAreFinal, Untouched
<1>10. QED BY <1>6, <1>8, <1>9 DEF QueueInv

\* Recovery leaves every row that an activation handles or claims alone.
LEMMA RecoverSafe ==
  ASSUME Owned, QueueInv, TypeOK', NEW w \in Workers, RecoverStaleRunningJobs(w)
  PROVE  QueueInv'
<1> USE QueueAssumption
<1>1. TypeOK
  BY DEF QueueInv
<1>2. /\ acts'[w].step = "ready" /\ alarms' = alarms
      /\ \A v \in Workers : v # w => acts'[v] = acts[v]
  BY <1>1, RecoverEffect
<1>3. ASSUME NEW v \in Workers, Handling(v)' \/ At(v, "claiming")'
      PROVE  /\ v # w /\ acts'[v] = acts[v] /\ acts[v].job \in Jobs
             /\ jobs'[acts[v].job] = jobs[acts[v].job]
  <2>1. v # w /\ acts'[v] = acts[v] /\ (Handling(v) \/ At(v, "claiming"))
    BY <1>2, <1>3 DEF Handling, At
  <2>2. acts[v].job \in Jobs
    BY <2>1, OwnedFacts DEF Busy, Handling, At
  <2>3. ~Abandoned(acts[v].job)
    BY <2>1, OwnedFacts DEF QueueInv, ClaimsAgree, At, Abandoned
  <2>4. QED BY <1>1, <2>1, <2>2, <2>3, RecoveredJob
<1>4. OneHandler'
  BY <1>2, <1>3 DEF QueueInv, OneHandler, Handling
<1>5. ClaimsAgree'
  BY <1>2, <1>3 DEF QueueInv, ClaimsAgree, Handling, At, Busy
<1>6. ASSUME NEW j \in Jobs
      PROVE  /\ jobs'[j].attempt <= MaxAttempts
             /\ jobs'[j].status = "pending" => jobs'[j].attempt < MaxAttempts
             /\ alarms'[j] > 0 => alarms'[j] = 1 /\ jobs'[j].status = "dead_letter"
             /\ jobs'[j].status = "none" => alarms'[j] = 0 /\ jobs'[j].attempt = 0
  <2>1. CASE Abandoned(j)
    <3>1. alarms[j] = 0 /\ jobs[j].attempt <= MaxAttempts /\ jobs[j].attempt \in Nat
      BY <2>1, OwnedFacts DEF QueueInv, AttemptsBounded, Abandoned
    <3>2. /\ jobs'[j].attempt = jobs[j].attempt
          /\ \/ jobs[j].attempt >= MaxAttempts /\ jobs'[j].status = "dead_letter"
             \/ jobs[j].attempt < MaxAttempts /\ jobs'[j].status = "pending"
      BY <1>1, <2>1, RecoveredJob
    <3>3. QED BY <1>2, <3>1, <3>2
  <2>2. CASE ~Abandoned(j)
    <3>1. jobs'[j] = jobs[j]
      BY <1>1, <2>2, RecoveredJob
    <3>2. QED BY <1>2, <3>1 DEF QueueInv, AttemptsBounded, AlarmsAreFinal, Untouched
  <2>3. QED BY <2>1, <2>2
<1>7. QED BY <1>4, <1>5, <1>6 DEF QueueInv, AttemptsBounded, AlarmsAreFinal, Untouched

\* A claim finds its row still waiting.
LEMMA CommitSafe ==
  ASSUME Owned, QueueInv, TypeOK', NEW w \in Workers, ClaimCommit(w)
  PROVE  QueueInv'
<1> USE QueueAssumption
<1> DEFINE j == acts[w].job
<1>1. TypeOK /\ At(w, "claiming")
  BY DEF QueueInv, ClaimCommit
<1>2. /\ j \in Jobs /\ acts[w].age \in Nat /\ alarms' = alarms
      /\ \A k \in Jobs : k # j => jobs'[k] = jobs[k]
      /\ acts'[w].step = "running" /\ acts'[w].job = j /\ acts'[w].age = acts[w].age
      /\ \A v \in Workers : v # w => acts'[v] = acts[v]
  BY <1>1, CommitEffect
<1>3. jobs[j].status = "pending" /\ \A v \in Workers : At(v, "claiming") => v = w
  BY <1>1 DEF QueueInv, ClaimsAgree
<1>4. /\ jobs'[j].status = "running" /\ jobs'[j].attempt = jobs[j].attempt + 1
      /\ jobs'[j].age = acts[w].age
  <2>1. jobs[j] \in JobRow /\ jobs'[j] = Claimed(jobs[j], acts[w].age)
    BY <1>1, <1>2, CommitEffect DEF TypeOK
  <2>2. QED BY <1>2, <1>3, <2>1, ClaimedEffect
<1>5. \A v \in Workers : Handling(v) => acts[v].job \in Jobs /\ acts[v].job # j
  BY <1>3, OwnedFacts DEF QueueInv, OneHandler, Handling, Busy
<1>6. OneHandler'
  BY <1>2, <1>4, <1>5 DEF QueueInv, OneHandler, Handling
<1>7. ClaimsAgree'
  <2>1. ASSUME NEW v \in Workers
        PROVE  /\ At(v, "claiming")' => /\ jobs'[acts'[v].job].status = "pending"
                                        /\ \A u \in Workers : At(u, "claiming")' => u = v
               /\ Busy(v)' => acts'[v].age <= HandlerBound
               /\ Handling(v)' => jobs'[acts'[v].job].age = acts'[v].age
               /\ At(v, "failing")' => acts'[v].read = jobs'[acts'[v].job].attempt
    <3>1. CASE v = w
      BY <1>1, <1>2, <1>4, <3>1 DEF QueueInv, ClaimsAgree, At, Busy
    <3>2. CASE v # w
      <4>1. acts'[v] = acts[v] /\ ~At(v, "claiming")
        BY <1>2, <1>3, <3>2
      <4>2. Handling(v) => jobs'[acts[v].job] = jobs[acts[v].job]
        BY <1>2, <1>5
      <4>3. At(v, "failing") => Handling(v)
        BY DEF At, Handling
      <4>4. QED BY <4>1, <4>2, <4>3 DEF QueueInv, ClaimsAgree, At, Busy, Handling
    <3>3. QED BY <3>1, <3>2
  <2>2. QED BY <2>1 DEF ClaimsAgree
<1>8. alarms[j] = 0 /\ jobs[j].attempt < MaxAttempts /\ jobs[j].attempt \in Nat
  BY <1>2, <1>3, OwnedFacts DEF QueueInv, AttemptsBounded
<1>9. AttemptsBounded' /\ AlarmsAreFinal' /\ Untouched'
  BY <1>2, <1>4, <1>8 DEF QueueInv, AttemptsBounded, AlarmsAreFinal, Untouched
<1>10. QED BY <1>6, <1>7, <1>9 DEF QueueInv

LEMMA FailReadSafe ==
  ASSUME Owned, QueueInv, TypeOK', NEW w \in Workers, FailRead(w)
  PROVE  QueueInv'
<1>1. /\ acts[w].step = "threw" /\ acts[w].job \in Jobs
      /\ acts'[w].step = "failing" /\ acts'[w].job = acts[w].job
      /\ acts'[w].age = acts[w].age /\ acts'[w].read = jobs[acts[w].job].attempt
      /\ \A v \in Workers : v # w => acts'[v] = acts[v]
      /\ jobs' = jobs /\ alarms' = alarms
  BY FailReadEffect DEF QueueInv
<1>2. OneHandler'
  BY <1>1 DEF QueueInv, OneHandler, Handling
<1>3. ClaimsAgree'
  BY <1>1 DEF QueueInv, ClaimsAgree, Handling, At, Busy
<1>4. QED BY <1>1, <1>2, <1>3 DEF QueueInv, AttemptsBounded, AlarmsAreFinal, Untouched

\* A result is recorded over the row it belongs to, and by nobody else.
LEMMA RecordSafe ==
  ASSUME Owned, QueueInv, TypeOK', NEW w \in Workers, CompleteJob(w) \/ FailCommit(w)
  PROVE  QueueInv'
<1> USE QueueAssumption
<1> DEFINE j == acts[w].job
<1>1. TypeOK /\ Handling(w)
  BY DEF QueueInv, CompleteJob, FailCommit, At, Handling
<1>2. /\ j \in Jobs /\ acts'[w].step = "idle"
      /\ \A k \in Jobs : k # j => jobs'[k] = jobs[k]
      /\ \A v \in Workers : v # w => acts'[v] = acts[v]
      /\ \A k \in Jobs : \/ alarms'[k] = alarms[k]
                          \/ /\ alarms'[k] = alarms[k] + 1 /\ k = j
                             /\ FailCommit(w) /\ Exhausted(w)
  BY <1>1, RecordEffect
<1>3. /\ jobs'[j].attempt = jobs[j].attempt
      /\ CompleteJob(w) => jobs'[j].status = "succeeded"
      /\ FailCommit(w) => jobs'[j].status = IF Exhausted(w) THEN "dead_letter" ELSE "pending"
  BY <1>1, RecordedJob
<1>4. jobs[j].status = "running" /\ \A v \in Workers : Handling(v) /\ acts[v].job = j => v = w
  BY <1>1 DEF QueueInv, OneHandler
<1>5. \A v \in Workers : v # w /\ (Handling(v) \/ At(v, "claiming"))
                          => acts[v].job \in Jobs /\ acts[v].job # j
  BY <1>4, OwnedFacts DEF QueueInv, ClaimsAgree, At, Handling, Busy
<1>6. OneHandler'
  BY <1>2, <1>5 DEF QueueInv, OneHandler, Handling
<1>7. ClaimsAgree'
  <2>1. ASSUME NEW v \in Workers
        PROVE  /\ At(v, "claiming")' => /\ jobs'[acts'[v].job].status = "pending"
                                        /\ \A u \in Workers : At(u, "claiming")' => u = v
               /\ Busy(v)' => acts'[v].age <= HandlerBound
               /\ Handling(v)' => jobs'[acts'[v].job].age = acts'[v].age
               /\ At(v, "failing")' => acts'[v].read = jobs'[acts'[v].job].attempt
    <3>1. CASE v = w
      BY <1>2, <3>1 DEF At, Busy, Handling
    <3>2. CASE v # w
      <4>1. acts'[v] = acts[v]
        BY <1>2, <3>2
      <4>2. Handling(v) \/ At(v, "claiming") => jobs'[acts[v].job] = jobs[acts[v].job]
        BY <1>2, <1>5, <3>2
      <4>3. At(v, "failing") => Handling(v)
        BY DEF At, Handling
      <4>4. \A u \in Workers : At(u, "claiming")' => At(u, "claiming")
        BY <1>2 DEF At
      <4>5. QED BY <4>1, <4>2, <4>3, <4>4 DEF QueueInv, ClaimsAgree, At, Busy, Handling
    <3>3. QED BY <3>1, <3>2
  <2>2. QED BY <2>1 DEF ClaimsAgree
<1>8. alarms[j] = 0 /\ jobs[j].attempt \in Nat /\ jobs[j].attempt <= MaxAttempts
  BY <1>2, <1>4, OwnedFacts DEF QueueInv, AttemptsBounded
<1>9. FailCommit(w) /\ ~Exhausted(w) => jobs[j].attempt < MaxAttempts
  BY <1>8 DEF FailCommit, Exhausted, QueueInv, ClaimsAgree
<1>10. /\ jobs'[j].attempt <= MaxAttempts
       /\ jobs'[j].status = "pending" => jobs'[j].attempt < MaxAttempts
       /\ jobs'[j].status # "none"
       /\ alarms'[j] > 0 => alarms'[j] = 1 /\ jobs'[j].status = "dead_letter"
  <2>1. CASE CompleteJob(w)
    <3>1. jobs'[j].status = "succeeded" /\ ~FailCommit(w)
      BY <1>3, <2>1 DEF CompleteJob, FailCommit, At
    <3>2. alarms'[j] = 0
      <4>1. alarms'[j] = alarms[j]
        BY <1>2, <3>1, Zenon
      <4>2. QED BY <1>8, <4>1
    <3>3. QED BY <1>3, <1>8, <3>1, <3>2
  <2>2. CASE FailCommit(w)
    <3>1. alarms'[j] = 0 \/ (alarms'[j] = 1 /\ Exhausted(w))
      <4>1. alarms'[j] = alarms[j] \/ (alarms'[j] = alarms[j] + 1 /\ Exhausted(w))
        BY <1>2, Zenon
      <4>2. QED BY <1>8, <4>1
    <3>2. CASE Exhausted(w)
      <4>1. jobs'[j].status = "dead_letter"
        BY <1>3, <2>2, <3>2
      <4>2. QED BY <1>3, <1>8, <3>1, <4>1
    <3>3. CASE ~Exhausted(w)
      <4>1. jobs'[j].status = "pending" /\ alarms'[j] = 0
        BY <1>3, <2>2, <3>1, <3>3
      <4>2. QED BY <1>3, <1>8, <1>9, <2>2, <3>3, <4>1
    <3>4. QED BY <3>2, <3>3
  <2>3. QED BY <2>1, <2>2
<1>11. \A k \in Jobs : k # j => alarms'[k] = alarms[k]
  BY <1>2
<1>12. AttemptsBounded' /\ AlarmsAreFinal' /\ Untouched'
  BY <1>2, <1>10, <1>11 DEF QueueInv, AttemptsBounded, AlarmsAreFinal, Untouched
<1>13. QED BY <1>6, <1>7, <1>12 DEF QueueInv

\* A handled row and its activation grow older together.
LEMMA TickSafe ==
  ASSUME Owned, QueueInv, TypeOK', Tick
  PROVE  QueueInv'
<1> USE QueueAssumption
<1>1. TypeOK
  BY DEF QueueInv
<1>2. \A j \in Jobs :
        /\ jobs[j] \in JobRow /\ jobs'[j] = Older(jobs[j])
        /\ jobs'[j].attempt = jobs[j].attempt /\ jobs'[j].status = jobs[j].status
  BY <1>1, TickEffect, RowEffects DEF TypeOK
<1>3. /\ alarms' = alarms
      /\ \A w \in Workers :
           /\ acts'[w].step = acts[w].step /\ acts'[w].job = acts[w].job
           /\ acts'[w].read = acts[w].read
           /\ Busy(w) => acts[w].age < HandlerBound /\ acts'[w].age = acts[w].age + 1
  BY <1>1, TickEffect
<1>4. ASSUME NEW w \in Workers, Handling(w)
      PROVE  jobs'[acts[w].job].age = acts'[w].age
  <2> DEFINE j == acts[w].job
  <2>1. Busy(w) /\ j \in Jobs /\ acts[w].age \in Nat
    BY <1>4, OwnedFacts DEF Busy, Handling
  <2>2. jobs[j].age = acts[w].age /\ jobs[j].status = "running" /\ acts[w].age < RunningTimeout
    BY <1>3, <1>4, <2>1 DEF QueueInv, ClaimsAgree, OneHandler, Owned
  <2>3. jobs'[j].age = jobs[j].age + 1
    <3>1. jobs[j] \in JobRow /\ jobs'[j] = Older(jobs[j]) /\ jobs[j].age < RunningTimeout
      BY <1>2, <2>1, <2>2
    <3>2. QED BY <2>2, <3>1, RowEffects
  <2>4. QED BY <1>3, <2>1, <2>2, <2>3
<1>5. \A w \in Workers : Busy(w) => acts[w].job \in Jobs /\ acts[w].age \in Nat
  BY OwnedFacts
<1>6. OneHandler'
  <2>1. ASSUME NEW w \in Workers, Handling(w)'
        PROVE  /\ jobs'[acts'[w].job].status = "running"
               /\ \A v \in Workers : Handling(v)' /\ acts'[v].job = acts'[w].job => v = w
    <3>1. Handling(w) /\ acts'[w].job = acts[w].job
      BY <1>3, <2>1 DEF Handling
    <3>2. acts[w].job \in Jobs
      BY <1>5, <3>1 DEF Handling, Busy
    <3>3. \A v \in Workers : Handling(v)' => Handling(v) /\ acts'[v].job = acts[v].job
      BY <1>3 DEF Handling
    <3>4. QED BY <1>2, <3>1, <3>2, <3>3 DEF QueueInv, OneHandler
  <2>2. QED BY <2>1 DEF OneHandler
<1>7. ClaimsAgree'
  <2>1. ASSUME NEW v \in Workers
        PROVE  /\ At(v, "claiming")' => /\ jobs'[acts'[v].job].status = "pending"
                                        /\ \A u \in Workers : At(u, "claiming")' => u = v
               /\ At(v, "failing")' => acts'[v].read = jobs'[acts'[v].job].attempt
    <3>1. \A u \in Workers : acts'[u].step = acts[u].step /\ acts'[u].job = acts[u].job
                             /\ acts'[u].read = acts[u].read
      BY <1>3
    <3>2. At(v, "claiming") \/ At(v, "failing") => acts[v].job \in Jobs
      BY <1>5 DEF At, Busy
    <3>3. At(v, "claiming") => /\ jobs[acts[v].job].status = "pending"
                               /\ \A u \in Workers : At(u, "claiming") => u = v
      BY DEF QueueInv, ClaimsAgree
    <3>4. At(v, "failing") => acts[v].read = jobs[acts[v].job].attempt
      BY DEF QueueInv, ClaimsAgree
    <3>5. At(v, "claiming")' => /\ jobs'[acts'[v].job].status = "pending"
                                /\ \A u \in Workers : At(u, "claiming")' => u = v
      BY <1>2, <3>1, <3>2, <3>3 DEF At
    <3>6. At(v, "failing")' => acts'[v].read = jobs'[acts'[v].job].attempt
      BY <1>2, <3>1, <3>2, <3>4 DEF At
    <3>7. QED BY <3>5, <3>6
  <2>2. ASSUME NEW v \in Workers, Busy(v)' PROVE acts'[v].age <= HandlerBound
    BY <1>3, <1>5, <2>2 DEF Busy
  <2>3. ASSUME NEW v \in Workers, Handling(v)' PROVE jobs'[acts'[v].job].age = acts'[v].age
    BY <1>3, <1>4, <2>3 DEF Handling
  <2>4. QED BY <2>1, <2>2, <2>3 DEF ClaimsAgree
<1>8. AttemptsBounded' /\ AlarmsAreFinal' /\ Untouched'
  BY <1>2, <1>3 DEF QueueInv, AttemptsBounded, AlarmsAreFinal, Untouched
<1>9. QED BY <1>6, <1>7, <1>8 DEF QueueInv

LEMMA QueueStep == ASSUME Owned, QueueInv, [Next]_vars PROVE QueueInv'
<1>1. TypeOK'
  BY StepType DEF QueueInv
<1>2. CASE UNCHANGED vars
  BY <1>1, <1>2 DEF vars, QueueInv, OneHandler, AttemptsBounded, AlarmsAreFinal, ClaimsAgree,
                    Untouched, Handling, At, Busy
<1>3. QED BY <1>1, <1>2, NextCases, EnqueueSafe, SilentSafe, RecoverSafe, CommitSafe,
             FailReadSafe, RecordSafe, TickSafe

\* The inductive invariant, when claims are serial and handlers end in time.
THEOREM QueueInvariant == ASSUME Owned PROVE Spec => []QueueInv
<1>1. Init => QueueInv
  <2>1. SUFFICES ASSUME Init PROVE QueueInv
    OBVIOUS
  <2>2. TypeOK
    BY <2>1, FreshRows, FreshActs DEF Init, TypeOK
  <2>3. \A w \in Workers : acts[w].step = "idle"
    BY <2>1, FreshActs DEF Init
  <2>4. \A j \in Jobs : jobs[j].status = "none" /\ jobs[j].attempt = 0 /\ alarms[j] = 0
    BY <2>1, FreshRows DEF Init
  <2>5. QED BY <2>2, <2>3, <2>4, QueueAssumption
            DEF QueueInv, OneHandler, AttemptsBounded, AlarmsAreFinal, ClaimsAgree, Untouched,
                Handling, At, Busy
<1>2. QueueInv /\ [Next]_vars => QueueInv'
  BY QueueStep
<1>3. QED BY <1>1, <1>2, PTL DEF Spec

\* Under these conditions one activation at a time runs a job.
THEOREM OneHandlerHolds == ASSUME Owned PROVE Spec => []OneHandler
<1>1. QueueInv => OneHandler
  BY DEF QueueInv
<1>2. QED BY <1>1, QueueInvariant, PTL

\* Attempts stay within max_attempts.
THEOREM AttemptsHold == ASSUME Owned PROVE Spec => []AttemptsBounded
<1>1. QueueInv => AttemptsBounded
  BY DEF QueueInv
<1>2. QED BY <1>1, QueueInvariant, PTL

\* A job's failure is announced at most once, and is final.
THEOREM AlarmsHold == ASSUME Owned PROVE Spec => []AlarmsAreFinal
<1>1. QueueInv => AlarmsAreFinal
  BY DEF QueueInv
<1>2. QED BY <1>1, QueueInvariant, PTL

\* What happens to one job in a step.
JobMoves(j) ==
  \/ jobs'[j] = jobs[j]
  \/ /\ jobs'[j].status = jobs[j].status /\ jobs'[j].attempt = jobs[j].attempt
  \/ /\ jobs[j].status = "none" /\ jobs'[j].status = "pending"
     /\ jobs'[j].attempt = jobs[j].attempt
  \/ /\ jobs[j].status = "pending" /\ jobs'[j].status = "running"
     /\ jobs[j].attempt < MaxAttempts /\ jobs'[j].attempt = jobs[j].attempt + 1
  \/ /\ jobs[j].status = "running" /\ jobs'[j].status = "pending"
     /\ jobs[j].attempt < MaxAttempts /\ jobs'[j].attempt = jobs[j].attempt
  \/ /\ jobs[j].status = "running" /\ jobs'[j].status = "dead_letter"
     /\ jobs'[j].attempt = jobs[j].attempt
  \/ /\ jobs[j].status = "running" /\ jobs'[j].status = "succeeded" /\ j \in done
     /\ jobs'[j].attempt = jobs[j].attempt

LEMMA Moves ==
  ASSUME Owned, QueueInv, SuccessInv, [Next]_vars, NEW j \in Jobs
  PROVE  JobMoves(j)
<1> USE QueueAssumption
<1>1. TypeOK /\ jobs[j] \in JobRow /\ jobs[j].attempt \in Nat
  BY DEF QueueInv, TypeOK, JobRow
<1>2. CASE UNCHANGED vars
  BY <1>2 DEF vars, JobMoves
<1>3. ASSUME NEW k \in Jobs, Enqueue(k) PROVE JobMoves(j)
  BY <1>1, <1>3, FreshRows DEF Enqueue, TypeOK, JobMoves, QueueInv, Untouched
<1>4. ASSUME NEW w \in Workers, Silently(w) \/ FailRead(w) PROVE JobMoves(j)
  BY <1>1, <1>4, SilentEffect, FailReadEffect DEF JobMoves
<1>5. ASSUME NEW w \in Workers, RecoverStaleRunningJobs(w) PROVE JobMoves(j)
  BY <1>1, <1>5, RecoveredJob DEF JobMoves, Abandoned
<1>6. ASSUME NEW w \in Workers, ClaimCommit(w) PROVE JobMoves(j)
  BY <1>1, <1>6, ClaimedJob DEF JobMoves, QueueInv, AttemptsBounded
<1>7. ASSUME NEW w \in Workers, CompleteJob(w) \/ FailCommit(w) PROVE JobMoves(j)
  <2>1. CASE j # acts[w].job
    BY <1>1, <1>7, <2>1, RecordEffect DEF JobMoves
  <2>2. CASE j = acts[w].job
    <3>1. jobs[j].status = "running"
      BY <1>7, <2>2 DEF CompleteJob, FailCommit, At, QueueInv, OneHandler, Handling
    <3>2. CompleteJob(w) => j \in done
      BY <2>2 DEF CompleteJob, SuccessInv, At
    <3>3. FailCommit(w) /\ ~Exhausted(w) => jobs[j].attempt < MaxAttempts
      BY <1>1, <2>2 DEF FailCommit, Exhausted, QueueInv, ClaimsAgree
    <3>4. /\ jobs'[j].attempt = jobs[j].attempt
          /\ CompleteJob(w) => jobs'[j].status = "succeeded"
          /\ FailCommit(w) => jobs'[j].status = IF Exhausted(w) THEN "dead_letter" ELSE "pending"
      BY <1>1, <1>7, <2>2, RecordedJob
    <3>5. QED BY <1>7, <3>1, <3>2, <3>3, <3>4 DEF JobMoves
  <2>3. QED BY <2>1, <2>2
<1>8. CASE Tick
  BY <1>1, <1>8, TickEffect, RowEffects DEF JobMoves
<1>9. QED BY <1>2, <1>3, <1>4, <1>5, <1>6, <1>7, <1>8, NextCases

\* A job is recorded as done while it runs.
LEMMA DoneMoves ==
  ASSUME Owned, QueueInv, [Next]_vars
  PROVE  /\ done \subseteq done'
         /\ \A j \in done' \ done : jobs[j].status = "running"
<1>1. TypeOK
  BY DEF QueueInv
<1>2. ASSUME NEW w \in Workers, HandlerReturns(w)
      PROVE  /\ done \subseteq done'
             /\ \A j \in done' \ done : jobs[j].status = "running"
  BY <1>2 DEF HandlerReturns, At, Handling, QueueInv, OneHandler
<1>3. \/ done' = done \/ \E w \in Workers : HandlerReturns(w)
  BY DEF Next, vars, Process, Enqueue, RecoverStaleRunningJobs, ClaimScan, ClaimCommit, Crash,
         HandlerThrows, CompleteJob, CompleteFails, FailRead, FailCommit, Tick
<1>4. QED BY <1>2, <1>3

\* An outcome is never changed.
THEOREM OutcomesAreFinal == ASSUME Owned PROVE Spec => OutcomeIsFinal
<1> DEFINE Kept == \A j \in Jobs : jobs[j].status \in Settled => jobs'[j].status = jobs[j].status
<1>1. QueueInv /\ SuccessInv /\ [Next]_vars => [Kept]_vars
  <2>1. SUFFICES ASSUME QueueInv, SuccessInv, [Next]_vars PROVE Kept
    OBVIOUS
  <2>2. ASSUME NEW j \in Jobs PROVE JobMoves(j)
    BY <2>1, <2>2, Moves
  <2>3. QED BY <2>2 DEF JobMoves, Settled
<1>2. QED BY <1>1, QueueInvariant, SuccessInvariant, PTL DEF Spec, OutcomeIsFinal

\* The queue keeps the contract of a durable work table.
THEOREM KeepsContract == ASSUME Owned PROVE Spec => ImplementsContract
<1> DEFINE Tries == [j \in Jobs |-> jobs[j].attempt]
<1>1. Init => Contract!Init
  <2>1. SUFFICES ASSUME Init PROVE Contract!Init
    OBVIOUS
  <2>2. \A j \in Jobs : jobs[j].status = "none" /\ jobs[j].attempt = 0
    BY <2>1, FreshRows DEF Init
  <2>3. Stage = [j \in Jobs |-> "none"] /\ Tries = [j \in Jobs |-> 0]
    BY <2>2 DEF Stage
  <2>4. QED BY <2>1, <2>3 DEF Init, Contract!Init
<1>2. QueueInv /\ SuccessInv /\ [Next]_vars => Contract!Next
  <2>1. SUFFICES ASSUME QueueInv, SuccessInv, [Next]_vars PROVE Contract!Next
    OBVIOUS
  <2>2. ASSUME NEW j \in Jobs
        PROVE  \/ Contract!Open(j) \/ Contract!Try(j) \/ Contract!Retry(j)
               \/ Contract!Close(j) \/ Contract!Remove(j) \/ Contract!Stay(j)
    <3>1. JobMoves(j)
      BY <2>1, Moves
    <3>2. Stage[j] = CASE jobs[j].status = "pending" -> "waiting"
                       [] jobs[j].status = "running" -> "trying"
                       [] jobs[j].status = "dead_letter" -> "failed"
                       [] OTHER -> jobs[j].status
      BY DEF Stage
    <3>3. Stage'[j] = CASE jobs'[j].status = "pending" -> "waiting"
                        [] jobs'[j].status = "running" -> "trying"
                        [] jobs'[j].status = "dead_letter" -> "failed"
                        [] OTHER -> jobs'[j].status
      BY DEF Stage
    <3>4. Tries[j] = jobs[j].attempt /\ Tries'[j] = jobs'[j].attempt
      OBVIOUS
    <3>5. CASE jobs'[j].status = jobs[j].status /\ jobs'[j].attempt = jobs[j].attempt
      BY <3>2, <3>3, <3>4, <3>5 DEF Contract!Stay, Contract!SameTries
    <3>6. CASE jobs[j].status = "none" /\ jobs'[j].status = "pending"
               /\ jobs'[j].attempt = jobs[j].attempt
      BY <3>2, <3>3, <3>4, <3>6 DEF Contract!Open, Contract!Moves, Contract!SameTries
    <3>7. CASE jobs[j].status = "pending" /\ jobs'[j].status = "running"
               /\ jobs[j].attempt < MaxAttempts /\ jobs'[j].attempt = jobs[j].attempt + 1
      BY <3>2, <3>3, <3>4, <3>7 DEF Contract!Try, Contract!Moves
    <3>8. CASE jobs[j].status = "running" /\ jobs'[j].status = "pending"
               /\ jobs[j].attempt < MaxAttempts /\ jobs'[j].attempt = jobs[j].attempt
      BY <3>2, <3>3, <3>4, <3>8 DEF Contract!Retry, Contract!Moves, Contract!SameTries
    <3>9. CASE jobs[j].status = "running" /\ jobs'[j].status = "dead_letter"
               /\ jobs'[j].attempt = jobs[j].attempt
      BY <3>2, <3>3, <3>4, <3>9 DEF Contract!Close, Contract!Moves, Contract!SameTries
    <3>10. CASE jobs[j].status = "running" /\ jobs'[j].status = "succeeded" /\ j \in done
                /\ jobs'[j].attempt = jobs[j].attempt
      BY <3>2, <3>3, <3>4, <3>10 DEF Contract!Close, Contract!Moves, Contract!SameTries
    <3>11. QED BY <3>1, <3>5, <3>6, <3>7, <3>8, <3>9, <3>10 DEF JobMoves
  <2>3. done \subseteq done' /\ \A j \in done' \ done : Stage[j] = "trying"
    <3>1. done \subseteq done' /\ \A j \in done' \ done : jobs[j].status = "running"
      BY <2>1, DoneMoves
    <3>2. done' \in SUBSET Jobs
      BY <2>1, StepType DEF QueueInv, TypeOK
    <3>3. QED BY <3>1, <3>2 DEF Stage
  <2>4. QED BY <2>2, <2>3 DEF Contract!Next
<1>3. QED BY <1>1, <1>2, QueueInvariant, SuccessInvariant, PTL
         DEF Spec, ImplementsContract, Contract!Spec

\* Handlers, outcomes and announcements fit together when claims exclude each
\* other and handlers end before recovery may take their jobs.
THEOREM QueueSound == ASSUME Owned PROVE Spec => []QueueIsSound
<1>1. Spec => []OneHandler
  BY OneHandlerHolds
<1>2. Spec => []AlarmsAreFinal
  BY AlarmsHold
<1>3. Spec => []GivenUpLast
  BY GivenUpHolds
<1>4. Spec => []SuccessIsReal
  BY SuccessHolds
<1>5. OneHandler /\ AlarmsAreFinal /\ GivenUpLast /\ SuccessIsReal => QueueIsSound
  BY DEF QueueIsSound
<1> QED
  BY <1>1, <1>2, <1>3, <1>4, <1>5, PTL
=============================================================================
