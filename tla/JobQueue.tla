------------------------------- MODULE JobQueue -------------------------------
(***************************************************************************)
(* The durable queue over the table queue_jobs: enqueue, and processNext   *)
(* as an activation of a worker runs it - recover stale jobs, claim one,   *)
(* run its handler, record the result.                                     *)
(*                                                                         *)
(* A worker is one activation of processReady.  A statement or transaction *)
(* is one step, except that READ COMMITTED lets other transactions commit  *)
(* between the SELECT and the UPDATE of a claim (SerialClaims is FALSE).   *)
(***************************************************************************)
EXTENDS Integers

CONSTANTS
  Jobs,           \* ids of queue_jobs
  Silent,         \* jobs whose failure makes no event: webhook.*, or all of them
  Workers,        \* activations of processReady
  MaxAttempts,    \* max_attempts
  RetryDelay,     \* retryDelaySeconds, in ticks
  RunningTimeout, \* runningTimeoutSeconds, in ticks
  HandlerBound,   \* ticks within which a worker that does not crash has
                  \* recorded the result of the job it claimed
  SerialClaims    \* TRUE: claim transactions exclude each other (SQLite)

ASSUME QueueAssumption ==
  /\ Jobs \subseteq Nat
  /\ Silent \subseteq Jobs
  /\ MaxAttempts \in Nat \ {0}
  /\ RetryDelay \in Nat
  /\ RunningTimeout \in Nat \ {0}
  /\ HandlerBound \in Nat
  /\ SerialClaims \in BOOLEAN

VARIABLES
  jobs,    \* queue_jobs
  acts,    \* what each activation is doing
  alarms,  \* job.failed rows of event_outbox, per job
  done     \* jobs of which some run of the handler returned (ghost)

vars == <<jobs, acts, alarms, done>>

-----------------------------------------------------------------------------
Settled == {"succeeded", "dead_letter"}
JobRow == [status : Settled \cup {"none", "pending", "running"},
           attempt : Nat, wait : Nat, age : Nat]
NoRow == [status |-> "none", attempt |-> 0, wait |-> 0, age |-> 0]

\* job and read mean something only in the steps that use them.
Steps == {"idle", "ready", "claiming", "running", "returned", "threw", "failing"}
Activation == [step : Steps, job : Jobs \cup {0}, age : Nat, read : Nat]
Idle == [step |-> "idle", job |-> 0, age |-> 0, read |-> 0]
Ready == [Idle EXCEPT !.step = "ready"]

TypeOK ==
  /\ jobs \in [Jobs -> JobRow]
  /\ acts \in [Workers -> Activation]
  /\ \A w \in Workers : acts[w].step \notin {"idle", "ready"} => acts[w].job \in Jobs
  /\ alarms \in [Jobs -> Nat]
  /\ done \in SUBSET Jobs

Init ==
  /\ jobs = [j \in Jobs |-> NoRow]
  /\ acts = [w \in Workers |-> Idle]
  /\ alarms = [j \in Jobs |-> 0]
  /\ done = {}

Goes(w, act) == acts' = [acts EXCEPT ![w] = act]
At(w, step) == acts[w].step = step

-----------------------------------------------------------------------------
\* enqueue: the INSERT.
Enqueue(j) ==
  /\ jobs[j].status = "none"
  /\ jobs' = [jobs EXCEPT ![j] = [NoRow EXCEPT !.status = "pending"]]
  /\ UNCHANGED <<acts, alarms, done>>

\* Mutants: every running job is abandoned; an exhausted one never is.
AnyRunning(j) == jobs[j].status = "running"
AbandonedWithBudget(j) == /\ jobs[j].status = "running" /\ jobs[j].age >= RunningTimeout
                          /\ jobs[j].attempt < MaxAttempts

Abandoned(j) == jobs[j].status = "running" /\ jobs[j].age >= RunningTimeout

Recovered(row) == [row EXCEPT !.status = IF row.attempt >= MaxAttempts
                                           THEN "dead_letter" ELSE "pending",
                              !.wait = 0, !.age = 0]

\* recoverStaleRunningJobs: processReady runs it, and processNext before its claim.
RecoverStaleRunningJobs(w) ==
  /\ acts[w].step \in {"idle", "ready"}
  /\ Goes(w, Ready)
  /\ jobs' = [j \in Jobs |-> IF Abandoned(j) THEN Recovered(jobs[j]) ELSE jobs[j]]
  /\ UNCHANGED <<alarms, done>>

Due(j) == jobs[j].status = "pending" /\ jobs[j].wait = 0

\* claimNextJob: the SELECT takes the job that was queued first.
ClaimScan(w) ==
  /\ At(w, "ready")
  /\ SerialClaims => \A v \in Workers : ~At(v, "claiming")
  /\ IF \E j \in Jobs : Due(j)
       THEN \E j \in Jobs : /\ Due(j)
                            /\ \A k \in Jobs : Due(k) => j <= k
                            /\ Goes(w, [Idle EXCEPT !.step = "claiming", !.job = j])
       ELSE Goes(w, Idle)
  /\ UNCHANGED <<jobs, alarms, done>>

\* Mutant: the attempt is not counted.
ClaimedUncounted(row, age) == IF row.status = "pending"
                                THEN [row EXCEPT !.status = "running", !.age = age] ELSE row

Claimed(row, age) == IF row.status = "pending"
                       THEN [row EXCEPT !.status = "running", !.attempt = @ + 1, !.age = age]
                       ELSE row

\* The UPDATE names the id and the status; the job is returned, and run, even
\* when it changed no row.
ClaimCommit(w) ==
  /\ At(w, "claiming")
  /\ Goes(w, [acts[w] EXCEPT !.step = "running"])
  /\ jobs' = [jobs EXCEPT ![acts[w].job] = Claimed(@, acts[w].age)]
  /\ UNCHANGED <<alarms, done>>

HandlerReturns(w) ==
  /\ At(w, "running")
  /\ Goes(w, [acts[w] EXCEPT !.step = "returned"])
  /\ done' = done \cup {acts[w].job}
  /\ UNCHANGED <<jobs, alarms>>

\* No handler for the type counts as one that throws.
HandlerThrows(w) ==
  /\ At(w, "running")
  /\ Goes(w, [acts[w] EXCEPT !.step = "threw"])
  /\ UNCHANGED <<jobs, alarms, done>>

Completed(row) == [row EXCEPT !.status = "succeeded", !.age = 0]

\* completeJob; its failure is caught like the handler's.
CompleteJob(w) ==
  /\ At(w, "returned")
  /\ Goes(w, Idle)
  /\ jobs' = [jobs EXCEPT ![acts[w].job] = Completed(@)]
  /\ UNCHANGED <<alarms, done>>

CompleteFails(w) ==
  /\ At(w, "returned")
  /\ Goes(w, [acts[w] EXCEPT !.step = "threw"])
  /\ UNCHANGED <<jobs, alarms, done>>

\* failJob: the attempt is read outside the transaction.
FailRead(w) ==
  /\ At(w, "threw")
  /\ Goes(w, [acts[w] EXCEPT !.step = "failing", !.read = jobs[acts[w].job].attempt])
  /\ UNCHANGED <<jobs, alarms, done>>

Exhausted(w) == acts[w].read >= MaxAttempts

Failed(row, exhausted) ==
  [row EXCEPT !.status = IF exhausted THEN "dead_letter" ELSE "pending",
              !.wait = IF exhausted THEN 0 ELSE RetryDelay, !.age = 0]

\* The row is named by its id alone; the event is in the same transaction.
FailCommit(w) ==
  LET j == acts[w].job
  IN  /\ At(w, "failing")
      /\ Goes(w, Idle)
      /\ jobs' = [jobs EXCEPT ![j] = Failed(@, Exhausted(w))]
      /\ alarms' = IF Exhausted(w) /\ j \notin Silent
                     THEN [alarms EXCEPT ![j] = @ + 1] ELSE alarms
      /\ UNCHANGED done

\* The process exits, or a statement throws: processReady is over.
Crash(w) ==
  /\ acts[w].step \notin {"idle", "ready"}
  /\ Goes(w, Idle)
  /\ UNCHANGED <<jobs, alarms, done>>

\* Ages stop where no guard can tell more.
Older(row) ==
  [row EXCEPT !.wait = IF @ > 0 THEN @ - 1 ELSE @,
              !.age = IF row.status = "running" /\ @ < RunningTimeout THEN @ + 1 ELSE @]

\* Age counts from the SELECT, whose time the UPDATE writes to locked_at.
Busy(w) == acts[w].step \notin {"idle", "ready"}

Tick ==
  /\ \A w \in Workers : Busy(w) => acts[w].age < HandlerBound
  /\ jobs' = [j \in Jobs |-> Older(jobs[j])]
  /\ acts' = [w \in Workers |-> IF Busy(w) THEN [acts[w] EXCEPT !.age = @ + 1] ELSE acts[w]]
  /\ UNCHANGED <<alarms, done>>

-----------------------------------------------------------------------------
Process(w) ==
  \/ RecoverStaleRunningJobs(w) \/ ClaimScan(w) \/ ClaimCommit(w)
  \/ HandlerReturns(w) \/ HandlerThrows(w) \/ CompleteJob(w) \/ CompleteFails(w)
  \/ FailRead(w) \/ FailCommit(w)

Next ==
  \/ \E j \in Jobs : Enqueue(j)
  \/ \E w \in Workers : Process(w) \/ Crash(w)
  \/ Tick

Spec == Init /\ [][Next]_vars

-----------------------------------------------------------------------------
(* Properties; [owned] ones suppose Owned.                                   *)

\* Claims are serial, and handlers end before recovery takes their job.
Owned == SerialClaims /\ HandlerBound < RunningTimeout

Handling(w) == acts[w].step \in {"running", "returned", "threw", "failing"}

\* [owned] A job is run by one activation at a time, and its row says so until
\* that activation has recorded the result.
OneHandler ==
  \A w \in Workers : Handling(w) =>
    /\ jobs[acts[w].job].status = "running"
    /\ \A v \in Workers : Handling(v) /\ acts[v].job = acts[w].job => v = w

\* [owned] No job is tried more than max_attempts times, and one that waits may
\* be tried again.
AttemptsBounded ==
  \A j \in Jobs : /\ jobs[j].attempt <= MaxAttempts
                  /\ jobs[j].status = "pending" => jobs[j].attempt < MaxAttempts

\* [owned] What a job.failed event announces is final and announced once.
AlarmsAreFinal ==
  \A j \in Jobs : alarms[j] > 0 => alarms[j] = 1 /\ jobs[j].status = "dead_letter"

\* A job is given up only after max_attempts claims, whoever gives it up and
\* however late, and only then is its failure announced.
GivenUpLast ==
  \A j \in Jobs : jobs[j].status = "dead_letter" \/ alarms[j] > 0
                    => jobs[j].attempt >= MaxAttempts

\* A job is succeeded only if its handler has returned, even when activations
\* share it, stall, or record one after the other.
SuccessIsReal == \A j \in Jobs : jobs[j].status = "succeeded" => j \in done

\* [owned] The handlers, the outcomes and the announcements fit together.
QueueIsSound == OneHandler /\ AlarmsAreFinal /\ GivenUpLast /\ SuccessIsReal

\* [owned] A settled job stays settled.
OutcomeIsFinal ==
  [][\A j \in Jobs : jobs[j].status \in Settled => jobs'[j].status = jobs[j].status]_vars

\* Inductive strengthenings.  Those of GivenUpLast and SuccessIsReal need no
\* assumption: attempts only grow, and a run that returned is remembered.
Untouched == \A j \in Jobs : jobs[j].status = "none" => alarms[j] = 0 /\ jobs[j].attempt = 0
GivenUpInv ==
  /\ GivenUpLast
  /\ Untouched
  /\ \A w \in Workers : At(w, "failing") => acts[w].read <= jobs[acts[w].job].attempt
SuccessInv ==
  /\ SuccessIsReal
  /\ \A w \in Workers : At(w, "returned") => acts[w].job \in done

\* [owned] A claim is serial and finds its row waiting; a claimed row is exactly
\* as old as the activation that handles it, so recovery is too early for it.
ClaimsAgree ==
  \A w \in Workers :
    /\ At(w, "claiming") => /\ jobs[acts[w].job].status = "pending"
                            /\ \A v \in Workers : At(v, "claiming") => v = w
    /\ Busy(w) => acts[w].age <= HandlerBound
    /\ Handling(w) => jobs[acts[w].job].age = acts[w].age
    /\ At(w, "failing") => acts[w].read = jobs[acts[w].job].attempt
QueueInv == TypeOK /\ OneHandler /\ AttemptsBounded /\ AlarmsAreFinal /\ ClaimsAgree /\ Untouched

\* [owned] The queue keeps the contract of a durable work table.
Stage == [j \in Jobs |->
  CASE jobs[j].status = "pending" -> "waiting"
    [] jobs[j].status = "running" -> "trying"
    [] jobs[j].status = "dead_letter" -> "failed"
    [] OTHER -> jobs[j].status]
Contract == INSTANCE DeliveryContract
              WITH Deliveries <- Jobs, stage <- Stage,
                   tries <- [j \in Jobs |-> jobs[j].attempt], received <- done
ImplementsContract == Contract!Spec

\* The timer starts activations, statements and handlers end, time passes, and
\* crashes do not hit every claim of a job for ever.
Fairness == /\ \A w \in Workers : WF_vars(Process(w)) /\ WF_vars(ClaimScan(w))
                                    /\ SF_vars(ClaimCommit(w))
            /\ WF_vars(Tick)
FairSpec == Spec /\ Fairness

\* Every job gets an outcome, through failures, crashes and lost results.
EventuallySettled ==
  \A j \in Jobs : jobs[j].status = "pending" ~> jobs[j].status \in Settled
=============================================================================
