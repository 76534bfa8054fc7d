------------------------------- MODULE MCWorker -------------------------------
(* Values for model checking what the worker and the API's saves go through:   *)
(* the queue, the scheduler and its cron expressions, the lease, the saves of  *)
(* the backend core and the managed files.  Each behaviour is of one part, and *)
(* fairness is asked of the part that goes on.                                 *)
EXTENDS JobQueue, JobScheduler, CronSchedule, DistributedLock, CorePersistence, ManagedFiles

CONSTANTS w1, w2, a1, r1, r2, r3, o1, o2, o3, users, bindings
CONSTANT Parts   \* the parts a run checks
VARIABLE part

OwnOwners == [r \in Runners |-> CASE r = r1 -> o1 [] r = r2 -> o2 [] OTHER -> o3]

\* r1 and r2 create users with a role in an organization, r3 is saved in the
\* background.
CreateUsers == [r \in Requests |-> IF r = r3 THEN <<bindings>> ELSE <<users, bindings>>]

\* CronSchedule: four years of two short months, the second of every other year
\* a day longer; a day has two hours, an hour three minutes, a week three days.
WildcardField(low, high) == [wildcard |-> TRUE, tokens |-> {[start |-> low, end |-> high, step |-> 1]}]
FieldOf(tokens) == [wildcard |-> FALSE,
                    tokens |-> {[start |-> t[1], end |-> t[2], step |-> t[3]] : t \in tokens}]
MCMonthLengths == <<2, 3, 2, 4, 2, 3, 2, 3>>
MCExpressions ==
  {[minutes |-> minutes, hours |-> FieldOf({<<1, 1, 1>>}), daysOfMonth |-> days,
    months |-> months, daysOfWeek |-> week] :
     minutes \in {FieldOf({<<0, 0, 1>>}), FieldOf({<<0, 2, 2>>})},
     days \in {WildcardField(1, 4), FieldOf({<<4, 4, 1>>}), FieldOf({<<1, 4, 2>>})},
     months \in {WildcardField(1, 2), FieldOf({<<2, 2, 1>>})},
     week \in {WildcardField(0, 3), FieldOf({<<2, 3, 1>>}), FieldOf({<<0, 3, 1>>})}}

-----------------------------------------------------------------------------
\* A part that is not explored begins in one way.
SomeExpression == CHOOSE e \in MCExpressions : IsSupportedCronExpression(e)

MCInit ==
  /\ part \in Parts
  /\ CronInit /\ (part # "cron" => schedule.from = 0 /\ schedule.expression = SomeExpression)
  /\ Init /\ JobInit /\ LockInit /\ SaveInit /\ FilesInit

\* A step of one part: the other parts' variables stay as they are.
Stays(p, variables) == IF part = p THEN TRUE ELSE UNCHANGED variables
Only ==
  /\ UNCHANGED part
  /\ Stays("queue", vars) /\ Stays("scheduler", jobVars) /\ Stays("lock", lockVars)
  /\ Stays("saves", saveVars) /\ Stays("files", filesVars)
  /\ Stays("cron", schedule)

\* Records are attached to the first file, and as long as there is no task.
Attachments ==
  /\ attaching' \subseteq {1} \X Records
  /\ attaching' \cup references' # {} => \A t \in ExportTasks : exports'[t].status = "none"

MCNext ==
  \/ part = "queue" /\ Next /\ Only
  \/ part = "scheduler" /\ JobNext /\ Only
  \/ part = "cron" /\ CronNext /\ Only
  \/ part = "lock" /\ LockNext /\ Only
  \/ part = "saves" /\ SaveNext /\ Only
  \/ part = "files" /\ FilesNext /\ Attachments /\ Only

\* Fairness, FairSpec's of each module.
QueueIs == part = "queue"
QueueFairness ==
  /\ \A w \in Workers : /\ WF_vars(QueueIs /\ Process(w)) /\ WF_vars(QueueIs /\ ClaimScan(w))
                        /\ SF_vars(QueueIs /\ ClaimCommit(w))
  /\ WF_vars(QueueIs /\ Tick)

SchedulerIs == part = "scheduler"
SchedulerFairness ==
  /\ \A w \in JobWorkers : /\ SF_jobVars(SchedulerIs /\ JobProcess(w))
                           /\ SF_jobVars(SchedulerIs /\ JobClaimCommit(w))
  /\ WF_jobVars(SchedulerIs /\ JobTick)

LockIs == part = "lock"
LeaseFairness ==
  /\ \A r \in Survivors : /\ WF_lockVars(LockIs /\ LockPerform(r))
                          /\ SF_lockVars(LockIs /\ TakeExpiredOrOwned(r))
  /\ \A r \in Runners :
       WF_lockVars(LockIs /\ ~LockAt(r, "idle") /\ (LockPerform(r) \/ LockCrash(r)))
  /\ WF_lockVars(LockIs /\ LockTick)

SavesFairness == \A r \in Requests : WF_saveVars(part = "saves" /\ SavePerform(r))

FilesIs == part = "files"
CleanupFairness ==
  /\ WF_filesVars(FilesIs /\ StartFileCleanup) /\ WF_filesVars(FilesIs /\ StartResultCleanup)
  /\ \A c \in Cleanups : WF_filesVars(FilesIs /\ \E f \in Files : Purge(c, f))

PartsSpec == MCInit /\ [][MCNext]_<<part, vars, jobVars, lockVars, saveVars, filesVars, schedule>>

\* The run of the queue, the lease and the files, and the run of the scheduler
\* and the saves.
WorkerSpec == PartsSpec /\ QueueFairness /\ LeaseFairness /\ CleanupFairness
SavesSpec == PartsSpec /\ SchedulerFairness /\ SavesFairness
=============================================================================
