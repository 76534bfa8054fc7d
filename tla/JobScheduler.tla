----------------------------- MODULE JobScheduler -----------------------------
(***************************************************************************)
(* The durable scheduler over the table scheduled_jobs: the registration   *)
(* of the catalogue's tasks by each worker that starts, processDue as an   *)
(* activation runs it - claim a due task under a lease, run its handler,   *)
(* record the result - and the administrators' requests to the API.        *)
(*                                                                         *)
(* A worker is one activation of processDue.  Times are ticks that are     *)
(* left until next_run_at.                                                 *)
(***************************************************************************)
EXTENDS Integers

CONSTANTS
  Tasks,         \* rows of scheduled_jobs, named by their ids
  Catalogue,     \* the tasks every worker registers; administrators create the rest
  Edited,        \* the tasks whose status and times administrators change
  JobSilent,        \* tasks whose failure makes no event: webhook.*
  JobWorkers,       \* activations of processDue
  Admins,        \* administrators that edit tasks, one request each at a time
  MaxJobAttempts,   \* max_attempts
  JobRetryDelay,    \* retryDelaySeconds, in ticks
  Lease,         \* runningTimeoutSeconds, in ticks
  Shortest,      \* the shortest and
  Period,        \* the longest time to the next run that computeNextCronRun returns
  JobHandlerBound,  \* ticks within which a worker that does not crash has recorded
                 \* the result of the task it claimed
  JobSerial,        \* TRUE: write transactions exclude each other (SQLite);
                 \* FALSE: statements of others may run inside them
  MaxAlarms      \* events are counted up to here

ASSUME SchedulerAssumption ==
  /\ Tasks \subseteq Nat
  /\ Catalogue \subseteq Tasks /\ Edited \subseteq Tasks /\ JobSilent \subseteq Tasks
  /\ {MaxJobAttempts, JobRetryDelay, Lease, Shortest, Period, MaxAlarms} \subseteq Nat \ {0}
  /\ JobHandlerBound \in Nat
  /\ JobSerial \in BOOLEAN

VARIABLES
  tasks,   \* scheduled_jobs
  jobActs,    \* what each activation is doing
  edits,   \* what each administrator's update has read
  jobAlarms,  \* job.failed rows of event_outbox, per task
  wanted,  \* the tasks whose last decision was "enabled" (ghost)
  tries    \* claims of each task since its last outcome (ghost)

jobVars == <<tasks, jobActs, edits, jobAlarms, wanted, tries>>

-----------------------------------------------------------------------------
Unset == -1   \* next_run_at IS NULL
TaskRow == [status : {"none", "enabled", "disabled"}, due : Nat \cup {Unset},
            attempt : 0 .. MaxJobAttempts]
JobNoRow == [status |-> "none", due |-> Unset, attempt |-> 0]

JobSteps == {"idle", "claiming", "running", "returned", "threw"}
JobActivation == [step : JobSteps, task : Tasks \cup {0}, attempt : 0 .. MaxJobAttempts, age : Nat]
JobIdle == [step |-> "idle", task |-> 0, attempt |-> 0, age |-> 0]
Edit == [task : Tasks \cup {0}, status : {"none", "enabled", "disabled"}]
NoEdit == [task |-> 0, status |-> "none"]

JobTypeOK ==
  /\ tasks \in [Tasks -> TaskRow]
  /\ jobActs \in [JobWorkers -> JobActivation]
  /\ \A w \in JobWorkers : jobActs[w].step # "idle" => jobActs[w].task \in Tasks
  /\ edits \in [Admins -> Edit]
  /\ jobAlarms \in [Tasks -> 0 .. MaxAlarms]
  /\ wanted \in SUBSET Tasks
  /\ tries \in [Tasks -> 0 .. MaxJobAttempts]

JobInit ==
  /\ tasks = [t \in Tasks |-> JobNoRow]
  /\ jobActs = [w \in JobWorkers |-> JobIdle]
  /\ edits = [a \in Admins |-> NoEdit]
  /\ jobAlarms = [t \in Tasks |-> 0]
  /\ wanted = {}
  /\ tries = [t \in Tasks |-> 0]

\* Attempts are only compared with MaxAttempts, so they stop there.
Counted(n) == IF n < MaxJobAttempts THEN n + 1 ELSE n
CronRun == Shortest .. Period
JobGoes(w, act) == jobActs' = [jobActs EXCEPT ![w] = act]
JobAt(w, step) == jobActs[w].step = step
Known(t) == tasks[t].status # "none"
JobAlone == JobSerial => \A v \in JobWorkers : ~JobAt(v, "claiming")
Decided(t, on) == wanted' = IF on THEN wanted \cup {t} ELSE wanted \ {t}

-----------------------------------------------------------------------------
(* Registration, by WorkerRuntime.start, and the API.                        *)

\* Mutant: a registration sets the next run anew.
RegisteredAnew(row, run) == [row EXCEPT !.status = "enabled", !.due = run]

\* The upsert enables the task and keeps the next run it has.
Registered(row, run) == [row EXCEPT !.status = "enabled",
                                    !.due = IF @ = Unset THEN run ELSE @]

Register(t) ==
  /\ t \in Catalogue /\ JobAlone
  /\ \E run \in CronRun : tasks' = [tasks EXCEPT ![t] = Registered(@, run)]
  /\ wanted' = IF Known(t) THEN wanted ELSE wanted \cup {t}
  /\ UNCHANGED <<jobActs, edits, jobAlarms, tries>>

CreateScheduledTask(t, on) ==
  /\ t \notin Catalogue /\ ~Known(t) /\ JobAlone
  /\ \E run \in CronRun :
       tasks' = [tasks EXCEPT ![t] = [JobNoRow EXCEPT !.status = IF on THEN "enabled" ELSE "disabled",
                                                   !.due = IF on THEN run ELSE Unset]]
  /\ Decided(t, on)
  /\ UNCHANGED <<jobActs, edits, jobAlarms, tries>>

\* Both requests write a status and the next run of it, and leave the attempt.
Switched(row, on, run) == [row EXCEPT !.status = IF on THEN "enabled" ELSE "disabled",
                                      !.due = IF on THEN run ELSE Unset]

SetScheduledTaskStatus(a, t, on) ==
  /\ edits[a] = NoEdit /\ Known(t) /\ JobAlone
  /\ \E run \in CronRun : tasks' = [tasks EXCEPT ![t] = Switched(@, on, run)]
  /\ Decided(t, on)
  /\ UNCHANGED <<jobActs, edits, jobAlarms, tries>>

\* updateScheduledTask reads the row, lays the request's fields over it, and
\* writes them all.
UpdateRead(a, t) ==
  /\ edits[a] = NoEdit /\ Known(t)
  /\ edits' = [edits EXCEPT ![a] = [task |-> t, status |-> tasks[t].status]]
  /\ UNCHANGED <<tasks, jobActs, jobAlarms, wanted, tries>>

UpdateCommit(a) ==
  LET t == edits[a].task
  IN  /\ edits[a] # NoEdit /\ JobAlone
      /\ \E run \in CronRun :
           \/ /\ tasks' = [tasks EXCEPT ![t] = Switched(@, edits[a].status = "enabled", run)]
              /\ UNCHANGED wanted
           \/ \E on \in BOOLEAN : /\ tasks' = [tasks EXCEPT ![t] = Switched(@, on, run)]
                                  /\ Decided(t, on)
      /\ edits' = [edits EXCEPT ![a] = NoEdit]
      /\ UNCHANGED <<jobActs, jobAlarms, tries>>

-----------------------------------------------------------------------------
(* processDue.                                                               *)

JobDue(t) == tasks[t].status = "enabled" /\ tasks[t].due <= 0

\* The SELECT of a claim.
JobClaimScan(w) ==
  /\ JobAt(w, "idle") /\ JobAlone
  /\ \E t \in Tasks : /\ JobDue(t)
                      /\ \A u \in Tasks : JobDue(u) => t <= u
                      /\ JobGoes(w, [step |-> "claiming", task |-> t, age |-> 0,
                                  attempt |-> Counted(tasks[t].attempt)])
  /\ UNCHANGED <<tasks, edits, jobAlarms, wanted, tries>>

\* Mutant: the lease is forgotten.
ClaimedUnleased(row, age) ==
  IF row.status = "enabled" THEN [row EXCEPT !.attempt = Counted(@)] ELSE row

\* The lease was computed with the SELECT.
JobClaimed(row, age) ==
  IF row.status = "enabled"
    THEN [row EXCEPT !.attempt = Counted(@), !.due = IF age < Lease THEN Lease - age ELSE 0]
    ELSE row

\* The UPDATE asks for the status only, and the task runs even if no row changed.
JobClaimCommit(w) ==
  LET t == jobActs[w].task
  IN  /\ JobAt(w, "claiming")
      /\ JobGoes(w, [jobActs[w] EXCEPT !.step = "running"])
      /\ tasks' = [tasks EXCEPT ![t] = JobClaimed(@, jobActs[w].age)]
      /\ tries' = [tries EXCEPT ![t] = Counted(@)]
      /\ UNCHANGED <<edits, jobAlarms, wanted>>

\* A task without a handler counts as one whose handler throws.
JobHandlerEnds(w) ==
  /\ JobAt(w, "running")
  /\ \E end \in {"returned", "threw"} : JobGoes(w, [jobActs[w] EXCEPT !.step = end])
  /\ UNCHANGED <<tasks, edits, jobAlarms, wanted, tries>>

\* Mutant: the attempts of a finished run are kept.
SucceededUncleared(row, run) == [row EXCEPT !.due = run]

Succeeded(row, run) == [row EXCEPT !.due = run, !.attempt = 0]

MarkScheduleSuccess(w) ==
  LET t == jobActs[w].task
  IN  /\ JobAt(w, "returned") /\ JobAlone
      /\ \E run \in CronRun : tasks' = [tasks EXCEPT ![t] = Succeeded(@, run)]
      /\ tries' = [tries EXCEPT ![t] = 0]
      /\ JobGoes(w, JobIdle)
      /\ UNCHANGED <<edits, jobAlarms, wanted>>

\* Its failure, or that of the log entry after it, is caught like the handler's.
MarkSuccessFails(w) ==
  LET t == jobActs[w].task
  IN  /\ JobAt(w, "returned") /\ JobAlone
      /\ \/ UNCHANGED tasks
         \/ \E run \in CronRun : tasks' = [tasks EXCEPT ![t] = Succeeded(@, run)]
      /\ JobGoes(w, [jobActs[w] EXCEPT !.step = "threw"])
      /\ UNCHANGED <<edits, jobAlarms, wanted, tries>>

JobExhausted(w) == jobActs[w].attempt >= MaxJobAttempts

\* The claim's attempt is written back, whatever the row's is by now.
MarkScheduleFailure(w) ==
  LET t == jobActs[w].task
  IN  /\ JobAt(w, "threw") /\ JobAlone
      /\ IF JobExhausted(w)
           THEN /\ \E run \in CronRun : tasks' = [tasks EXCEPT ![t] = Succeeded(@, run)]
                /\ tries' = [tries EXCEPT ![t] = 0]
                /\ jobAlarms' = IF t \notin JobSilent /\ jobAlarms[t] < MaxAlarms
                               THEN [jobAlarms EXCEPT ![t] = @ + 1] ELSE jobAlarms
           ELSE /\ tasks' = [tasks EXCEPT ![t].due = JobRetryDelay, ![t].attempt = jobActs[w].attempt]
                /\ UNCHANGED <<jobAlarms, tries>>
      /\ JobGoes(w, JobIdle)
      /\ UNCHANGED <<edits, wanted>>

\* The process exits, or a statement throws outside the handler's try.
JobCrash(w) ==
  /\ ~JobAt(w, "idle")
  /\ JobGoes(w, JobIdle)
  /\ UNCHANGED <<tasks, edits, jobAlarms, wanted, tries>>

JobTick ==
  /\ \A w \in JobWorkers : ~JobAt(w, "idle") => jobActs[w].age < JobHandlerBound
  /\ tasks' = [t \in Tasks |-> [tasks[t] EXCEPT !.due = IF @ > 0 THEN @ - 1 ELSE @]]
  /\ jobActs' = [w \in JobWorkers |-> IF JobAt(w, "idle") THEN jobActs[w] ELSE [jobActs[w] EXCEPT !.age = @ + 1]]
  /\ UNCHANGED <<edits, jobAlarms, wanted, tries>>

-----------------------------------------------------------------------------
JobProcess(w) ==
  \/ JobClaimScan(w) \/ JobClaimCommit(w) \/ JobHandlerEnds(w)
  \/ MarkScheduleSuccess(w) \/ MarkSuccessFails(w) \/ MarkScheduleFailure(w)

Administer(a) ==
  \/ \E t \in Edited : UpdateRead(a, t) \/ (\E on \in BOOLEAN : SetScheduledTaskStatus(a, t, on))
  \/ UpdateCommit(a)

JobNext ==
  \/ \E t \in Tasks : Register(t) \/ (\E on \in BOOLEAN : CreateScheduledTask(t, on))
  \/ \E a \in Admins : Administer(a)
  \/ \E w \in JobWorkers : JobProcess(w) \/ JobCrash(w)
  \/ JobTick

JobSpec == JobInit /\ [][JobNext]_jobVars

-----------------------------------------------------------------------------
(* Properties; [owned] ones suppose Owned and speak of the tasks that no       *)
(* administrator touches, while others are edited beside them.                 *)

\* Transactions are serial, and a run is recorded before its lease ends and
\* before the next one is due.
JobOwned == JobSerial /\ JobHandlerBound < Lease /\ JobHandlerBound < Shortest
JobUntouched == Tasks \ Edited

JobHandling(w, t) == jobActs[w].step \in {"running", "returned", "threw"} /\ jobActs[w].task = t

\* [owned] A task is run by one activation at a time, whoever registers it
\* anew, and whatever becomes of its results.
OneRun ==
  \A t \in JobUntouched : \A v, w \in JobWorkers : JobHandling(v, t) /\ JobHandling(w, t) => v = w

\* [owned] job.failed stands for an occurrence that was tried max_attempts times.
AlarmsAreEarned ==
  [][\A t \in JobUntouched : jobAlarms'[t] > jobAlarms[t] => tries[t] = MaxJobAttempts]_jobVars

\* With serial transactions and one administrator, a task that was created or
\* switched disabled is not started before somebody enables it, unless workers
\* register it.
DisabledNeverStarts ==
  [][\A w \in JobWorkers : JobAt(w, "claiming") /\ jobActs'[w].step = "running"
        => jobActs[w].task \in wanted \cup Catalogue]_jobVars

\* The timer starts activations, statements and handlers end, the database
\* grants its lock in the end, crashes do not hit every claim, time passes.
JobFairness ==
  /\ \A w \in JobWorkers : SF_jobVars(JobProcess(w)) /\ SF_jobVars(JobClaimCommit(w))
  /\ WF_jobVars(JobTick)
JobFairSpec == JobSpec /\ JobFairness

\* [owned] A task that is enabled and left alone runs again and again: crashes,
\* failures and restarts of workers do not put it off for ever.
EventuallyRuns ==
  \A t \in JobUntouched : tasks[t].status = "enabled" ~> \E w \in JobWorkers : JobHandling(w, t)

\* [owned] One activation at a time runs a task, and neither its start nor an
\* alarm comes out of nothing.
RunsAreEarned == [](JobTypeOK /\ OneRun) /\ AlarmsAreEarned /\ DisabledNeverStarts
=============================================================================
