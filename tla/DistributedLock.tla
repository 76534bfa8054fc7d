---------------------------- MODULE DistributedLock ----------------------------
(***************************************************************************)
(* A lease of the table locks, and the tasks that run under it: the base   *)
(* catalogue's singleton tasks (withDistributedTaskLock) and the singleton *)
(* jobs of business modules (runWithExecutionBoundary), which also stop    *)
(* waiting for a handler when its time is over.                            *)
(*                                                                         *)
(* A runner is one execution of a task under one key.  The worker's timer  *)
(* starts runners while older ones still run, and those of one process     *)
(* share an owner.  A statement is one step.                               *)
(***************************************************************************)
EXTENDS Integers

CONSTANTS
  Runners,           \* executions of the task
  Owners,            \* owners of leases
  NoOwner,           \* of the key when its row does not exist
  Survivors,         \* runners whose process goes on, or is started again
  OwnerOf,           \* the owner each runner acquires for
  Ttl,               \* ttlSeconds, and the timeout of a module's job, in ticks
  LockHandlerBound,  \* ticks within which a handler ends and, unless its process
                     \* exits, its lease is released
  Bounded,           \* TRUE: handlers are run with a timeout (business modules)
  LockSerial         \* TRUE: transactions exclude each other (SQLite)

ASSUME LockAssumption ==
  /\ OwnerOf \in [Runners -> Owners] /\ NoOwner \notin Owners
  /\ Survivors \subseteq Runners
  /\ Ttl \in Nat \ {0} /\ LockHandlerBound \in Nat
  /\ Bounded \in BOOLEAN /\ LockSerial \in BOOLEAN

VARIABLES lock,    \* the row of the key
          runners  \* what each execution is doing

lockVars == <<lock, runners>>

-----------------------------------------------------------------------------
LockRow == [owner : Owners \cup {NoOwner}, left : 0 .. Ttl]
Free == [owner |-> NoOwner, left |-> 0]   \* no row

\* "late" is a handler whose boundary has timed out and "orphan" one whose
\* lease has been released: both go on executing.
LockSteps == {"idle", "conflict", "running", "late", "ended", "orphan"}
Runner == [step : LockSteps, age : Nat]
LockIdle == [step |-> "idle", age |-> 0]

LockTypeOK == lock \in LockRow /\ runners \in [Runners -> Runner]

LockInit == lock = Free /\ runners = [r \in Runners |-> LockIdle]

LockAt(r, step) == runners[r].step = step
LockGoes(r, step) ==
  runners' = [runners EXCEPT ![r] = [step |-> step, age |-> IF step = "idle" THEN 0 ELSE @.age]]

\* expires_at was computed when acquire began.
Leased(r) == [owner |-> OwnerOf[r],
              left |-> IF runners[r].age < Ttl THEN Ttl - runners[r].age ELSE 0]
Executing(r) == runners[r].step \in {"running", "late", "orphan"}
LockAlone == LockSerial => \A r \in Runners : ~LockAt(r, "conflict")

-----------------------------------------------------------------------------
\* insertIfAbsent: the insert is the lease, or finds a row.
InsertIfAbsent(r) ==
  /\ LockAt(r, "idle") /\ LockAlone
  /\ IF lock = Free THEN lock' = Leased(r) /\ LockGoes(r, "running")
                    ELSE UNCHANGED lock /\ LockGoes(r, "conflict")

\* Mutant: the holder is not looked at.
TakeableAlways(r) == lock # Free

Takeable(r) == lock # Free /\ (lock.owner = OwnerOf[r] \/ lock.left = 0)

\* takeExpiredOrOwned; the row may have been released since the insert, and
\* then there is no lease although nobody holds it.
TakeExpiredOrOwned(r) ==
  /\ LockAt(r, "conflict")
  /\ IF Takeable(r) THEN lock' = Leased(r) /\ LockGoes(r, "running")
                    ELSE UNCHANGED lock /\ LockGoes(r, "idle")

\* The handler returns or throws.
LockHandlerEnds(r) ==
  /\ Executing(r)
  /\ LockGoes(r, IF LockAt(r, "orphan") THEN "idle" ELSE "ended")
  /\ UNCHANGED lock

\* runWithTimeout rejects and aborts the signal; nothing stops the handler.
TimesOut(r) ==
  /\ Bounded /\ LockAt(r, "running") /\ runners[r].age >= Ttl
  /\ LockGoes(r, "late")
  /\ UNCHANGED lock

\* Mutant: whoever holds the lease loses it.
ReleasedByKey(r) == Free

\* DELETE with key and owner: a lease that another owner took meanwhile stays.
Released(r) == IF lock.owner = OwnerOf[r] THEN Free ELSE lock

LockRelease(r) ==
  /\ runners[r].step \in {"ended", "late"} /\ LockAlone
  /\ lock' = Released(r)
  /\ LockGoes(r, IF LockAt(r, "late") THEN "orphan" ELSE "idle")

\* The process exits, or the release fails: the lease stays until it expires.
LockCrash(r) ==
  /\ ~LockAt(r, "idle")
  /\ LockGoes(r, "idle")
  /\ UNCHANGED lock

\* Age counts from the call of acquire.
LockOlder(runner) == IF runner.step = "idle" THEN runner ELSE [runner EXCEPT !.age = @ + 1]

\* Mutant: an abandoned lease never expires.
Unexpired(row) == row

Expiring(row) == [row EXCEPT !.left = IF @ > 0 THEN @ - 1 ELSE @]

LockTick ==
  /\ \A r \in Runners : ~LockAt(r, "idle") => runners[r].age < LockHandlerBound
  /\ runners' = [r \in Runners |-> LockOlder(runners[r])]
  /\ lock' = Expiring(lock)

-----------------------------------------------------------------------------
LockPerform(r) ==
  \/ InsertIfAbsent(r) \/ TakeExpiredOrOwned(r)
  \/ LockHandlerEnds(r) \/ TimesOut(r) \/ LockRelease(r)

LockNext ==
  \/ \E r \in Runners : LockPerform(r) \/ LockCrash(r)
  \/ LockTick

LockSpec == LockInit /\ [][LockNext]_lockVars

-----------------------------------------------------------------------------
(* Properties; [exclusive] ones suppose that no two runners share an owner.  *)

Exclusive == \A r, s \in Runners : OwnerOf[r] = OwnerOf[s] => r = s

\* [exclusive] Handlers of one key overlap only if one of them has outlived its
\* lease, even when activations overlap, releases come late and processes die.
OneInTime ==
  \A r, s \in Runners : Executing(r) /\ Executing(s) /\ r # s
                          => runners[r].age >= Ttl \/ runners[s].age >= Ttl

\* [exclusive] Nobody takes or deletes a lease that has time left but its own
\* runner: a runner that has lost its lease does not release the next one's.
LeaseIsRespected ==
  [][\A r \in Runners : LockAt(r, "running") /\ lock.owner = OwnerOf[r] /\ lock.left > 0
       /\ runners'[r].step = "running" => lock'.owner = OwnerOf[r]]_lockVars

\* [exclusive] Both: a lease protects its handler as long as it lasts.
LeaseIsKept == []OneInTime /\ LeaseIsRespected

\* The inductive invariant behind OneInTime: a runner in time holds the lease,
\* which has as much time left as the runner; only late ones go on without it.
LeaseInv ==
  /\ LockTypeOK
  /\ \A r \in Runners :
       /\ runners[r].step \in {"running", "ended"} /\ runners[r].age < Ttl
            => lock = [owner |-> OwnerOf[r], left |-> Ttl - runners[r].age]
       /\ runners[r].step \in {"late", "orphan"} => runners[r].age >= Ttl

\* The timer of a surviving process starts runners; statements and handlers
\* end, here or with their process; crashes do not hit every claim of the lease;
\* time passes.
LockFairness ==
  /\ \A r \in Survivors : WF_lockVars(LockPerform(r)) /\ SF_lockVars(TakeExpiredOrOwned(r))
  /\ \A r \in Runners : WF_lockVars(~LockAt(r, "idle") /\ (LockPerform(r) \/ LockCrash(r)))
  /\ WF_lockVars(LockTick)
LockFairSpec == LockSpec /\ LockFairness

\* A lease is never the last one: whoever holds it, and dies with it, somebody
\* executes the task later.
EventuallyRunAgain == lock # Free ~> \E r \in Runners : Executing(r)
=============================================================================
