----------------------------- MODULE WorkerProofs -----------------------------
(* Proofs about what the worker does beside the queue, for every number of     *)
(* runners, activations and files: the lease of DistributedLock, and the       *)
(* managed files and the tasks that write them of ManagedFiles.                *)
EXTENDS DistributedLock, ManagedFiles, JobScheduler, CorePersistence, CronSchedule,
        FiniteSetTheorems, WellFoundedInduction, TLAPS

-----------------------------------------------------------------------------
(* The lease: what a runner and the lease become.                           *)

\* Goes changes one runner, and its age only when it ends.
LEMMA GoesEffect ==
  ASSUME runners \in [Runners -> Runner], NEW r \in Runners, NEW step \in LockSteps, LockGoes(r, step)
  PROVE  /\ runners' \in [Runners -> Runner]
         /\ runners'[r].step = step
         /\ step # "idle" => runners'[r].age = runners[r].age
         /\ \A s \in Runners : s # r => runners'[s] = runners[s]
<1> DEFINE n == IF step = "idle" THEN 0 ELSE runners[r].age
<1>1. runners[r] \in Runner /\ runners[r].age \in Nat
  BY DEF Runner
<1>2. n \in Nat /\ [step |-> step, age |-> n] \in Runner
  BY <1>1 DEF Runner
<1>3. runners' = [runners EXCEPT ![r] = [step |-> step, age |-> n]]
  BY DEF LockGoes
<1>4. QED BY <1>2, <1>3

\* A lease lasts as long as its runner has left.
LEMMA LeasedEffect ==
  ASSUME runners \in [Runners -> Runner], NEW r \in Runners
  PROVE  /\ Leased(r) \in LockRow
         /\ Leased(r).owner = OwnerOf[r]
         /\ runners[r].age < Ttl => Leased(r) = [owner |-> OwnerOf[r], left |-> Ttl - runners[r].age]
<1>1. runners[r].age \in Nat /\ OwnerOf[r] \in Owners
  BY LockAssumption DEF Runner
<1>2. QED BY <1>1, LockAssumption DEF Leased, LockRow

\* Time makes runners older and leases shorter.
LEMMA TickEffect ==
  ASSUME LockTypeOK, LockTick
  PROVE  /\ LockTypeOK'
         /\ lock'.owner = lock.owner
         /\ lock.left > 0 => lock'.left = lock.left - 1
         /\ \A r \in Runners : /\ runners'[r].step = runners[r].step
                               /\ runners[r].step # "idle" => runners'[r].age = runners[r].age + 1
<1>1. lock' \in LockRow /\ lock'.owner = lock.owner /\ (lock.left > 0 => lock'.left = lock.left - 1)
  BY LockAssumption DEF LockTick, Expiring, LockTypeOK, LockRow
<1>2. ASSUME NEW r \in Runners
      PROVE  /\ LockOlder(runners[r]) \in Runner
             /\ LockOlder(runners[r]).step = runners[r].step
             /\ runners[r].step # "idle" => LockOlder(runners[r]).age = runners[r].age + 1
  BY DEF LockTypeOK, Runner, LockOlder
<1>3. runners' = [r \in Runners |-> LockOlder(runners[r])]
  BY DEF LockTick
<1>4. QED BY <1>1, <1>2, <1>3 DEF LockTypeOK

-----------------------------------------------------------------------------
(* Types. *)

LEMMA FreeIsRow == Free \in LockRow
  BY LockAssumption DEF Free, LockRow

\* Every step keeps the types, whatever its order.
LEMMA StepType == ASSUME LockTypeOK, [LockNext]_lockVars PROVE LockTypeOK'
<1> USE FreeIsRow
<1>1. ASSUME NEW r \in Runners, LockPerform(r) \/ LockCrash(r) PROVE LockTypeOK'
  <2>1. Leased(r) \in LockRow
    BY LeasedEffect DEF LockTypeOK
  <2>2. lock' \in LockRow
    BY <1>1, <2>1 DEF LockPerform, LockCrash, InsertIfAbsent, TakeExpiredOrOwned, LockHandlerEnds,
                      TimesOut, LockRelease, Released, LockTypeOK
  <2>3. \E step \in LockSteps : LockGoes(r, step)
    BY <1>1, Zenon DEF LockPerform, LockCrash, InsertIfAbsent, TakeExpiredOrOwned, LockHandlerEnds,
                       TimesOut, LockRelease, LockSteps
  <2>4. QED BY <2>2, <2>3, GoesEffect DEF LockTypeOK
<1>2. CASE UNCHANGED lockVars
  BY <1>2 DEF lockVars, LockTypeOK
<1>3. QED BY <1>1, <1>2, TickEffect DEF LockNext

\* The lease row and the runners keep their types in every reachable state.
THEOREM TypeCorrect == LockSpec => []LockTypeOK
<1>1. LockInit => LockTypeOK
  BY FreeIsRow DEF LockInit, LockTypeOK, LockIdle, Runner, LockSteps
<1>2. QED BY <1>1, StepType, PTL DEF LockSpec

-----------------------------------------------------------------------------
(* The lease. *)

\* A lease with time left is neither inserted over, nor taken, nor deleted by
\* a runner of another owner.
LEMMA OthersKeepIt ==
  ASSUME LockTypeOK, Exclusive, NEW r \in Runners, NEW s \in Runners, r # s,
         lock.owner = OwnerOf[s], lock.left > 0, LockPerform(r) \/ LockCrash(r)
  PROVE  lock' = lock
<1>1. OwnerOf[s] # OwnerOf[r] /\ OwnerOf[s] # NoOwner /\ lock.left # 0
  BY LockAssumption DEF Exclusive, LockTypeOK, LockRow
<1>2. lock # Free /\ ~Takeable(r) /\ Released(r) = lock
  BY <1>1 DEF Free, Takeable, Released
<1>3. QED BY <1>2 DEF LockPerform, LockCrash, InsertIfAbsent, TakeExpiredOrOwned, LockHandlerEnds,
                      TimesOut, LockRelease

\* What the runner that moves comes to: in time it holds the lease, and
\* without it it is late.
LEMMA OwnStep ==
  ASSUME LeaseInv, NEW r \in Runners, LockPerform(r) \/ LockCrash(r)
  PROVE  /\ runners'[r].step \in {"running", "ended"} /\ runners'[r].age < Ttl
              => lock' = [owner |-> OwnerOf[r], left |-> Ttl - runners'[r].age]
         /\ runners'[r].step \in {"late", "orphan"} => runners'[r].age >= Ttl
<1>1. runners \in [Runners -> Runner] /\ runners[r].age \in Nat
  BY DEF LeaseInv, LockTypeOK, Runner
<1>2. CASE InsertIfAbsent(r)
  <2>1. CASE lock = Free
    <3>1. LockGoes(r, "running") /\ lock' = Leased(r)
      BY <1>2, <2>1 DEF InsertIfAbsent
    <3>2. QED BY <1>1, <3>1, GoesEffect, LeasedEffect DEF LockSteps
  <2>2. CASE lock # Free
    <3>1. LockGoes(r, "conflict")
      BY <1>2, <2>2 DEF InsertIfAbsent
    <3>2. QED BY <1>1, <3>1, GoesEffect DEF LockSteps
  <2>3. QED BY <2>1, <2>2
<1>3. CASE TakeExpiredOrOwned(r)
  <2>1. CASE Takeable(r)
    <3>1. LockGoes(r, "running") /\ lock' = Leased(r)
      BY <1>3, <2>1 DEF TakeExpiredOrOwned
    <3>2. QED BY <1>1, <3>1, GoesEffect, LeasedEffect DEF LockSteps
  <2>2. CASE ~Takeable(r)
    <3>1. LockGoes(r, "idle")
      BY <1>3, <2>2 DEF TakeExpiredOrOwned
    <3>2. QED BY <1>1, <3>1, GoesEffect DEF LockSteps
  <2>3. QED BY <2>1, <2>2
<1>4. CASE LockHandlerEnds(r)
  <2>1. lock' = lock /\ (LockGoes(r, "idle") \/ (LockGoes(r, "ended") /\ Executing(r) /\ ~LockAt(r, "orphan")))
    BY <1>4 DEF LockHandlerEnds
  <2>2. CASE LockGoes(r, "idle")
    BY <1>1, <2>2, GoesEffect DEF LockSteps
  <2>3. CASE LockGoes(r, "ended") /\ Executing(r) /\ ~LockAt(r, "orphan")
    <3>1. runners'[r].step = "ended" /\ runners'[r].age = runners[r].age
      BY <1>1, <2>3, GoesEffect DEF LockSteps
    <3>2. runners[r].step \in {"running", "late"}
      BY <2>3 DEF Executing, LockAt
    <3>3. QED BY <1>1, <2>1, <3>1, <3>2, LockAssumption DEF LeaseInv
  <2>4. QED BY <2>1, <2>2, <2>3
<1>5. CASE TimesOut(r)
  <2>1. LockGoes(r, "late") /\ runners[r].age >= Ttl
    BY <1>5 DEF TimesOut
  <2>2. QED BY <1>1, <2>1, GoesEffect DEF LockSteps
<1>6. CASE LockRelease(r)
  <2>1. LockGoes(r, "idle") \/ (LockGoes(r, "orphan") /\ LockAt(r, "late"))
    BY <1>6 DEF LockRelease
  <2>2. QED BY <1>1, <2>1, GoesEffect DEF LeaseInv, LockAt, LockSteps
<1>7. CASE LockCrash(r)
  BY <1>1, <1>7, GoesEffect DEF LockCrash, LockSteps
<1>8. QED BY <1>2, <1>3, <1>4, <1>5, <1>6, <1>7 DEF LockPerform

\* The strengthening is kept by every step.
LEMMA LeaseStep == ASSUME Exclusive, LeaseInv, [LockNext]_lockVars PROVE LeaseInv'
<1>1. LockTypeOK /\ LockTypeOK'
  BY StepType DEF LeaseInv
<1>2. ASSUME NEW r \in Runners, LockPerform(r) \/ LockCrash(r) PROVE LeaseInv'
  <2>1. ASSUME NEW s \in Runners, s # r
        PROVE  /\ runners'[s].step \in {"running", "ended"} /\ runners'[s].age < Ttl
                    => lock' = [owner |-> OwnerOf[s], left |-> Ttl - runners'[s].age]
               /\ runners'[s].step \in {"late", "orphan"} => runners'[s].age >= Ttl
    <3>1. runners'[s] = runners[s]
      <4>1. \E step \in LockSteps : LockGoes(r, step)
        BY <1>2, Zenon DEF LockPerform, LockCrash, InsertIfAbsent, TakeExpiredOrOwned, LockHandlerEnds,
                           TimesOut, LockRelease, LockSteps
      <4>2. QED BY <1>1, <2>1, <4>1, GoesEffect DEF LockTypeOK
    <3>2. CASE runners[s].step \in {"running", "ended"} /\ runners[s].age < Ttl
      <4>1. lock = [owner |-> OwnerOf[s], left |-> Ttl - runners[s].age]
        BY <3>2 DEF LeaseInv
      <4>2. lock.owner = OwnerOf[s] /\ lock.left > 0
        BY <1>1, <3>2, <4>1, LockAssumption DEF LockTypeOK, Runner
      <4>3. lock' = lock
        BY <1>1, <1>2, <2>1, <4>2, OthersKeepIt
      <4>4. QED BY <3>1, <3>2, <4>1, <4>3
    <3>3. CASE ~(runners[s].step \in {"running", "ended"} /\ runners[s].age < Ttl)
      BY <3>1, <3>3 DEF LeaseInv
    <3>4. QED BY <3>2, <3>3
  <2>2. QED BY <1>1, <1>2, <2>1, OwnStep DEF LeaseInv
<1>3. CASE LockTick
  <2>1. ASSUME NEW s \in Runners
        PROVE  /\ runners'[s].step \in {"running", "ended"} /\ runners'[s].age < Ttl
                    => lock' = [owner |-> OwnerOf[s], left |-> Ttl - runners'[s].age]
               /\ runners'[s].step \in {"late", "orphan"} => runners'[s].age >= Ttl
    <3>1. /\ runners'[s].step = runners[s].step /\ runners[s].age \in Nat
          /\ runners[s].step # "idle" => runners'[s].age = runners[s].age + 1
          /\ lock' \in LockRow /\ lock'.owner = lock.owner
          /\ lock.left > 0 => lock'.left = lock.left - 1
      BY <1>1, <1>3, TickEffect DEF LockTypeOK, Runner
    <3>2. CASE runners[s].step \in {"running", "ended"} /\ runners[s].age + 1 < Ttl
      <4>1. lock = [owner |-> OwnerOf[s], left |-> Ttl - runners[s].age]
        BY <3>1, <3>2, LockAssumption DEF LeaseInv
      <4>2. lock'.owner = OwnerOf[s] /\ lock'.left = Ttl - (runners[s].age + 1)
        BY <3>1, <3>2, <4>1, LockAssumption
      <4>3. lock' = [owner |-> OwnerOf[s], left |-> Ttl - (runners[s].age + 1)]
        BY <3>1, <4>2 DEF LockRow
      <4>4. QED BY <3>1, <3>2, <4>3
    <3>3. CASE runners[s].step \in {"running", "ended"} /\ ~(runners[s].age + 1 < Ttl)
      BY <3>1, <3>3, LockAssumption
    <3>4. CASE runners[s].step \notin {"running", "ended"}
      BY <3>1, <3>4, LockAssumption DEF LeaseInv
    <3>5. QED BY <3>2, <3>3, <3>4
  <2>2. QED BY <1>1, <2>1 DEF LeaseInv
<1>4. CASE UNCHANGED lockVars
  BY <1>4, <1>1 DEF lockVars, LeaseInv
<1>5. QED BY <1>2, <1>3, <1>4 DEF LockNext

\* A runner in time holds the lease, with as much time left as it has itself.
THEOREM LeaseInvariant == ASSUME Exclusive PROVE LockSpec => []LeaseInv
<1>1. LockInit => LeaseInv
  <2>1. LockInit => LockTypeOK
    BY FreeIsRow DEF LockInit, LockTypeOK, LockIdle, Runner, LockSteps
  <2>2. QED BY <2>1 DEF LockInit, LeaseInv, LockIdle
<1>2. LeaseInv /\ [LockNext]_lockVars => LeaseInv'
  BY LeaseStep
<1>3. QED BY <1>1, <1>2, PTL DEF LockSpec

\* OneInTime, for any number of runners and any delay.
THEOREM OneInTimeHolds == ASSUME Exclusive PROVE LockSpec => []OneInTime
<1>1. ASSUME LeaseInv PROVE OneInTime
  <2>1. ASSUME NEW r \in Runners, NEW s \in Runners, Executing(r), Executing(s), r # s,
               runners[r].age < Ttl, runners[s].age < Ttl
        PROVE  FALSE
    <3>1. runners[r].age \in Nat /\ runners[s].age \in Nat
      BY <1>1 DEF LeaseInv, LockTypeOK, Runner
    <3>2. runners[r].step = "running" /\ runners[s].step = "running"
      BY <1>1, <2>1, <3>1, LockAssumption DEF LeaseInv, Executing
    <3>3. lock.owner = OwnerOf[r] /\ lock.owner = OwnerOf[s]
      BY <1>1, <2>1, <3>2 DEF LeaseInv
    <3>4. QED BY <2>1, <3>3 DEF Exclusive
  <2>2. \A r \in Runners : runners[r].age \in Nat
    BY <1>1 DEF LeaseInv, LockTypeOK, Runner
  <2>3. QED BY <2>1, <2>2, LockAssumption DEF OneInTime
<1>2. QED BY <1>1, LeaseInvariant, PTL

\* LeaseIsRespected: only its own runner ends a lease that has time left.
THEOREM LeaseRespected == ASSUME Exclusive PROVE LockSpec => LeaseIsRespected
<1>1. ASSUME LockTypeOK, [LockNext]_lockVars, NEW r \in Runners, LockAt(r, "running"),
             lock.owner = OwnerOf[r], lock.left > 0, runners'[r].step = "running"
      PROVE  lock'.owner = OwnerOf[r]
  <2>1. ASSUME NEW s \in Runners, LockPerform(s) \/ LockCrash(s) PROVE lock'.owner = OwnerOf[r]
    <3>1. CASE s # r
      BY <1>1, <2>1, <3>1, OthersKeepIt
    <3>2. CASE s = r
      <4>1. LockHandlerEnds(r) \/ TimesOut(r) \/ LockCrash(r)
        BY <1>1, <2>1, <3>2 DEF LockAt, LockPerform, InsertIfAbsent, TakeExpiredOrOwned, LockRelease
      <4>2. QED BY <1>1, <4>1 DEF LockHandlerEnds, TimesOut, LockCrash
    <3>3. QED BY <3>1, <3>2
  <2>2. CASE LockTick
    BY <1>1, <2>2, TickEffect
  <2>3. CASE UNCHANGED lockVars
    BY <1>1, <2>3 DEF lockVars
  <2>4. QED BY <1>1, <2>1, <2>2, <2>3 DEF LockNext
<1>2. LockTypeOK /\ [LockNext]_lockVars
        => [\A r \in Runners : LockAt(r, "running") /\ lock.owner = OwnerOf[r] /\ lock.left > 0
              /\ runners'[r].step = "running" => lock'.owner = OwnerOf[r]]_lockVars
  BY <1>1
<1>3. QED BY <1>2, TypeCorrect, PTL DEF LockSpec, LeaseIsRespected

\* Both: what the run of DistributedLock checks.
THEOREM LeaseKept == ASSUME Exclusive PROVE LockSpec => LeaseIsKept
<1>1. LockSpec => []OneInTime
  BY OneInTimeHolds
<1>2. LockSpec => LeaseIsRespected
  BY LeaseRespected
<1>3. QED BY <1>1, <1>2 DEF LeaseIsKept

-----------------------------------------------------------------------------
(* The managed files: ManagedFiles.                                         *)

\* A file has no row before its content is stored.
UploadsAreOrdered ==
  \A f \in Files :
    /\ uploads[f].step \in {"none", "stored"} => rows[f].status = "none"
    /\ uploads[f].step = "stored" => f \in objects

\* An upload of a worker that has not ended is the one its handler waits for.
UploadsAreAwaited ==
  \A f \in Files :
    uploads[f].step \in {"stored", "unconfirmed"} /\ uploads[f].by # "api"
      => handlers[uploads[f].by].step = "uploading" /\ handlers[uploads[f].by].file = f

\* Only what is invalid is removed.
PurgedIsInvalid == \A c \in Cleanups : \A f \in purging[c] : rows[f].status = "invalid"

Kept(f) == f \in deleted \/ (rows[f].status = "active" /\ f \in objects)

\* A handler's file is one it has uploaded and nobody's result yet; before it
\* completes the task the file is there.
HandlersAreSound ==
  \A w \in FileWorkers :
    LET h == handlers[w] IN
    /\ h.step # "idle" => h.task \in ExportTasks
    /\ h.step \in {"idle", "selected", "working"} => h.file = NoFile
    /\ h.file # NoFile =>
         /\ uploads[h.file].by = w /\ uploads[h.file].step # "none"
         /\ \A t \in ExportTasks : exports[t].result # h.file
         /\ h.step = "completing" => uploads[h.file].step = "done" /\ Kept(h.file)

\* A result is one task's, and it was uploaded to the end.
ResultsAreSeparate ==
  \A t \in ExportTasks : exports[t].result # NoFile =>
    /\ uploads[exports[t].result].step = "done"
    /\ \A u \in ExportTasks : exports[u].result = exports[t].result => u = t

FilesInv ==
  /\ FilesAreSound
  /\ UploadsAreOrdered /\ UploadsAreAwaited /\ PurgedIsInvalid /\ HandlersAreSound
  /\ ResultsAreSeparate

\* What the types say of one file, one task and one handler.
LEMMA FilesFields ==
  ASSUME FilesTypeOK
  PROVE  /\ NoFile \notin Files /\ NoTask \notin ExportTasks /\ Files \subseteq Nat
         /\ \A f \in Files : /\ rows[f].status \in {"none", "active", "invalid"}
                             /\ rows[f].purged \in BOOLEAN
                             /\ uploads[f].step \in UploadStep
                             /\ uploads[f].by \in FileWorkers \cup {"api"}
         /\ \A t \in ExportTasks : /\ exports[t].result \in Files \cup {NoFile}
                                   /\ exports[t].expired \in BOOLEAN
         /\ \A w \in FileWorkers : /\ handlers[w].step \in HandlerSteps
                                   /\ handlers[w].task \in ExportTasks \cup {NoTask}
                                   /\ handlers[w].file \in Files \cup {NoFile}
<1>1. Files \subseteq Nat /\ NoFile \notin Files /\ NoTask \notin ExportTasks
  <2>1. /\ \A n \in 1 .. Cardinality(Files) : n \in Nat /\ n # 0
        /\ \A n \in 1 .. Cardinality(ExportTasks) : n \in Nat /\ n # 0
    BY FilesAssumption, FS_CardinalityType
  <2>2. QED BY <2>1, FilesAssumption DEF NoFile, NoTask
<1>2. QED BY <1>1 DEF FilesTypeOK, FileRow, UploadRow, ExportRow, Handler

\* Who rests, and how a handler's step or an upload's changes.
LEMMA HandlerAfterIs ==
  ASSUME FilesTypeOK, UploadsAreAwaited, NEW f \in Files, NEW next \in HandlerSteps,
         uploads[f].step \in {"stored", "unconfirmed"}
  PROVE  /\ HandlerAfter(f, next) \in [FileWorkers -> Handler]
         /\ \A w \in FileWorkers :
              /\ HandlerAfter(f, next)[w].task = handlers[w].task
              /\ HandlerAfter(f, next)[w].file = handlers[w].file
              /\ HandlerAfter(f, next)[w].step = handlers[w].step
                   \/ /\ w = uploads[f].by /\ HandlerAfter(f, next)[w].step = next
                      /\ handlers[w].step = "uploading" /\ handlers[w].file = f
<1>1. CASE uploads[f].by = "api"
  BY <1>1 DEF HandlerAfter, FilesTypeOK
<1>2. CASE uploads[f].by # "api"
  <2> DEFINE by == uploads[f].by
  <2>1. by \in FileWorkers /\ handlers[by].step = "uploading" /\ handlers[by].file = f
    BY <1>2, FilesFields DEF UploadsAreAwaited
  <2>2. HandlerAfter(f, next) = [handlers EXCEPT ![by].step = next]
    BY <1>2 DEF HandlerAfter
  <2>3. handlers \in [FileWorkers -> Handler]
    BY DEF FilesTypeOK
  <2> HIDE DEF by
  <2>4. QED BY <2>1, <2>2, <2>3 DEF Handler, by
<1>3. QED BY <1>1, <1>2

\* The content of a new file is stored, by the API or by a handler.
LEMMA PutIs ==
  ASSUME FilesInv, NEW f \in Files, NEW by \in FileWorkers \cup {"api"}, Put(f, by)
  PROVE  /\ uploads[f].step = "none" /\ rows[f].status = "none"
         /\ uploads' \in [Files -> UploadRow] /\ objects' = objects \cup {f} /\ objects' \subseteq Files
         /\ uploads'[f].step = "stored" /\ uploads'[f].by = by
         /\ \A g \in Files : g # f => uploads'[g] = uploads[g]
         /\ \A t \in ExportTasks : exports[t].result # f
         /\ \A w \in FileWorkers : handlers[w].file # f
<1> USE DEF FilesInv, FilesAreSound
<1>1. uploads[f].step = "none" /\ rows[f].status = "none"
  BY DEF Put, UploadsAreOrdered
<1>2. uploads' = [uploads EXCEPT ![f] = [step |-> "stored", by |-> by]]
  BY DEF Put
<1>3. [step |-> "stored", by |-> by] \in UploadRow
  BY DEF UploadRow, UploadStep
<1>4. \A t \in ExportTasks : exports[t].result # f
  BY <1>1, FilesFields DEF ResultsAreSeparate
<1>5. \A w \in FileWorkers : handlers[w].file # f
  BY <1>1, FilesFields DEF HandlersAreSound
<1>6. QED BY <1>1, <1>2, <1>3, <1>4, <1>5 DEF Put, FilesTypeOK

LEMMA UploadSafe ==
  ASSUME FilesInv, NEW f \in Files, UploadFile(f)
  PROVE  FilesInv'
<1> USE DEF FilesInv, FilesAreSound
<1>1. /\ uploads[f].step = "none" /\ rows[f].status = "none"
      /\ uploads' \in [Files -> UploadRow] /\ objects' = objects \cup {f} /\ objects' \subseteq Files
      /\ uploads'[f].step = "stored" /\ uploads'[f].by = "api"
      /\ \A g \in Files : g # f => uploads'[g] = uploads[g]
      /\ \A t \in ExportTasks : exports[t].result # f
      /\ \A w \in FileWorkers : handlers[w].file # f
  BY PutIs DEF UploadFile
<1>2. UNCHANGED <<rows, references, attaching, exports, handlers, purging, abandoned, deleted,
                  fileFaults>>
  BY DEF UploadFile
<1>3. FilesTypeOK'
  BY <1>1, <1>2 DEF FilesTypeOK
<1>4. ActiveHasContent' /\ StoredIsKnown' /\ ResultsAreKept'
  <2>1. ActiveHasContent'
    BY <1>1, <1>2 DEF ActiveHasContent
  <2>2. StoredIsKnown'
    BY <1>1, <1>2 DEF StoredIsKnown
  <2>3. ResultsAreKept'
    BY <1>1, <1>2 DEF ResultsAreKept
  <2>4. QED BY <2>1, <2>2, <2>3
<1>5. UploadsAreOrdered' /\ UploadsAreAwaited' /\ PurgedIsInvalid'
  BY <1>1, <1>2 DEF UploadsAreOrdered, UploadsAreAwaited, PurgedIsInvalid
<1>6. HandlersAreSound'
  BY <1>1, <1>2, FilesFields DEF HandlersAreSound, Kept
<1>7. ResultsAreSeparate'
  BY <1>1, <1>2, FilesFields DEF ResultsAreSeparate
<1>8. QED BY <1>3, <1>4, <1>5, <1>6, <1>7

\* The row of a stored file is inserted, and its handler goes on.
LEMMA InsertSafe ==
  ASSUME FilesInv, NEW f \in Files, InsertFile(f)
  PROVE  FilesInv'
<1> USE DEF FilesInv, FilesAreSound
<1>1. /\ uploads[f].step = "stored" /\ rows[f].status = "none" /\ f \in objects
      /\ UNCHANGED <<objects, references, attaching, exports, purging, abandoned, deleted,
                     fileFaults>>
  BY DEF InsertFile, UploadsAreOrdered
<1>2. /\ rows' \in [Files -> FileRow] /\ rows'[f].status = "active"
      /\ \A g \in Files : g # f => rows'[g] = rows[g]
  BY DEF InsertFile, FilesTypeOK, FileRow
<1>3. /\ uploads' \in [Files -> UploadRow] /\ uploads'[f].step = "done"
      /\ \A g \in Files : uploads'[g].by = uploads[g].by /\ (g # f => uploads'[g] = uploads[g])
  BY DEF InsertFile, FilesTypeOK, UploadRow, UploadStep
<1>4. /\ handlers' \in [FileWorkers -> Handler]
      /\ \A w \in FileWorkers :
           /\ handlers'[w].task = handlers[w].task /\ handlers'[w].file = handlers[w].file
           /\ handlers'[w].step = handlers[w].step
                \/ /\ w = uploads[f].by /\ handlers'[w].step = "completing"
                   /\ handlers[w].step = "uploading" /\ handlers[w].file = f
  BY <1>1, HandlerAfterIs DEF InsertFile, HandlerSteps
<1>5. FilesTypeOK'
  BY <1>1, <1>2, <1>3, <1>4 DEF FilesTypeOK
<1>6. ActiveHasContent' /\ StoredIsKnown'
  <2>1. ActiveHasContent'
    BY <1>1, <1>2, <1>3 DEF ActiveHasContent
  <2>2. StoredIsKnown'
    BY <1>1, <1>2, <1>3 DEF StoredIsKnown, FilesTypeOK
  <2>3. QED BY <2>1, <2>2
<1>7. ResultsAreKept'
  BY <1>1, <1>2, FilesFields DEF ResultsAreKept
<1>8. UploadsAreOrdered'
  BY <1>1, <1>2, <1>3 DEF UploadsAreOrdered
<1>9. UploadsAreAwaited'
  BY <1>1, <1>3, <1>4, FilesFields DEF UploadsAreAwaited
<1>10. PurgedIsInvalid'
  BY <1>1, <1>2 DEF PurgedIsInvalid, FilesTypeOK
<1>11. HandlersAreSound'
  BY <1>1, <1>2, <1>3, <1>4, FilesFields DEF HandlersAreSound, Kept
<1>12. ResultsAreSeparate'
  BY <1>1, <1>3, FilesFields DEF ResultsAreSeparate
<1>13. QED BY <1>5, <1>6, <1>7, <1>8, <1>9, <1>10, <1>11, <1>12

\* The insert fails, and the row may be there all the same.
LEMMA InsertFailsSafe ==
  ASSUME FilesInv, NEW f \in Files, InsertFails(f)
  PROVE  FilesInv'
<1> USE DEF FilesInv, FilesAreSound
<1>1. /\ uploads[f].step = "stored" /\ rows[f].status = "none" /\ f \in objects
      /\ UNCHANGED <<objects, references, attaching, exports, handlers, purging, abandoned, deleted>>
      /\ fileFaults' \in 0 .. MaxFileFaults
  BY FilesAssumption DEF InsertFails, UploadsAreOrdered, Faulty, FilesTypeOK
<1>2. /\ rows' \in [Files -> FileRow] /\ rows'[f].status \in {"none", "active"}
      /\ \A g \in Files : g # f => rows'[g] = rows[g]
  <2>1. CASE rows' = rows
    BY <1>1, <2>1 DEF FilesTypeOK
  <2>2. CASE rows' = [rows EXCEPT ![f].status = "active"]
    BY <2>2 DEF FilesTypeOK, FileRow
  <2>3. QED BY <2>1, <2>2 DEF InsertFails
<1>3. /\ uploads' \in [Files -> UploadRow] /\ uploads'[f].step = "unconfirmed"
      /\ \A g \in Files : uploads'[g].by = uploads[g].by /\ (g # f => uploads'[g] = uploads[g])
  BY DEF InsertFails, FilesTypeOK, UploadRow, UploadStep
<1>4. FilesTypeOK'
  BY <1>1, <1>2, <1>3 DEF FilesTypeOK
<1>5. ActiveHasContent'
  BY <1>1, <1>2, <1>3 DEF ActiveHasContent
<1>6. StoredIsKnown'
  BY <1>1, <1>2, <1>3 DEF StoredIsKnown, FilesTypeOK
<1>7. ResultsAreKept'
  BY <1>1, <1>2, FilesFields DEF ResultsAreKept
<1>8. UploadsAreOrdered'
  BY <1>1, <1>2, <1>3 DEF UploadsAreOrdered
<1>9. UploadsAreAwaited'
  BY <1>1, <1>3, FilesFields DEF UploadsAreAwaited
<1>10. PurgedIsInvalid'
  BY <1>1, <1>2 DEF PurgedIsInvalid, FilesTypeOK
<1>11. HandlersAreSound'
  BY <1>1, <1>2, <1>3, FilesFields DEF HandlersAreSound, Kept
<1>12. ResultsAreSeparate'
  BY <1>1, <1>3, FilesFields DEF ResultsAreSeparate
<1>13. QED BY <1>4, <1>5, <1>6, <1>7, <1>8, <1>9, <1>10, <1>11, <1>12

\* What could not be confirmed is removed again, or stays as a file that was cut off.
LEMMA CompensateSafe ==
  ASSUME FilesInv, NEW f \in Files, Compensate(f)
  PROVE  FilesInv'
<1> USE DEF FilesInv, FilesAreSound
<1>1. /\ uploads[f].step = "unconfirmed"
      /\ UNCHANGED <<rows, references, attaching, exports, purging, deleted>>
      /\ fileFaults' \in 0 .. MaxFileFaults
  BY FilesAssumption DEF Compensate, Faulty, FilesTypeOK
<1>2. /\ objects \ {f} \subseteq objects' /\ objects' \subseteq objects
      /\ abandoned \subseteq abandoned' /\ abandoned' \subseteq Files
      /\ f \in objects' => f \in abandoned'
  BY DEF Compensate, FilesTypeOK
<1>3. /\ uploads' \in [Files -> UploadRow] /\ uploads'[f].step = "removed"
      /\ \A g \in Files : uploads'[g].by = uploads[g].by /\ (g # f => uploads'[g] = uploads[g])
  BY DEF Compensate, FilesTypeOK, UploadRow, UploadStep
<1>4. /\ handlers' \in [FileWorkers -> Handler]
      /\ \A w \in FileWorkers :
           /\ handlers'[w].task = handlers[w].task /\ handlers'[w].file = handlers[w].file
           /\ handlers'[w].step = handlers[w].step
                \/ /\ w = uploads[f].by /\ handlers'[w].step = "failing"
                   /\ handlers[w].step = "uploading" /\ handlers[w].file = f
  BY <1>1, HandlerAfterIs DEF Compensate, HandlerSteps
<1>5. FilesTypeOK'
  BY <1>1, <1>2, <1>3, <1>4 DEF FilesTypeOK
<1>6. ActiveHasContent'
  BY <1>1, <1>2, <1>3 DEF ActiveHasContent
<1>7. StoredIsKnown'
  BY <1>1, <1>2, <1>3 DEF StoredIsKnown, FilesTypeOK
<1>8. ResultsAreKept'
  BY <1>1, <1>2, FilesFields DEF ResultsAreKept, ResultsAreSeparate
<1>9. UploadsAreOrdered'
  BY <1>1, <1>2, <1>3 DEF UploadsAreOrdered
<1>10. UploadsAreAwaited'
  BY <1>1, <1>3, <1>4, FilesFields DEF UploadsAreAwaited
<1>11. PurgedIsInvalid'
  BY <1>1 DEF PurgedIsInvalid
<1>12. HandlersAreSound'
  BY <1>1, <1>2, <1>3, <1>4, FilesFields DEF HandlersAreSound, Kept
<1>13. ResultsAreSeparate'
  BY <1>1, <1>3, FilesFields DEF ResultsAreSeparate
<1>14. QED BY <1>5, <1>6, <1>7, <1>8, <1>9, <1>10, <1>11, <1>12, <1>13

\* What a cut takes away: the uploads under way become files that were cut off.
LEMMA CutIs ==
  ASSUME FilesTypeOK, NEW by \in SUBSET (FileWorkers \cup {"api"}), Cut(by)
  PROVE  /\ uploads' \in [Files -> UploadRow]
         /\ abandoned \subseteq abandoned' /\ abandoned' \subseteq Files
         /\ \A g \in Files :
              /\ uploads'[g].by = uploads[g].by
              /\ \/ /\ uploads'[g].step = uploads[g].step
                    /\ ~(uploads[g].by \in by /\ uploads[g].step \in {"stored", "unconfirmed"})
                 \/ /\ uploads[g].step \in {"stored", "unconfirmed"} /\ uploads[g].by \in by
                    /\ uploads'[g].step = "removed" /\ g \in abandoned'
<1>1. \A g : g \in CutOff(by) <=> /\ g \in Files /\ uploads[g].by \in by
                                  /\ uploads[g].step \in {"stored", "unconfirmed"}
  BY DEF CutOff
<1>2. uploads' = [g \in Files |-> IF g \in CutOff(by) THEN [uploads[g] EXCEPT !.step = "removed"]
                                  ELSE uploads[g]]
      /\ abandoned' = abandoned \cup CutOff(by)
  BY DEF Cut
<1>3. \A g \in Files : /\ [uploads[g] EXCEPT !.step = "removed"] \in UploadRow
                       /\ [uploads[g] EXCEPT !.step = "removed"].step = "removed"
                       /\ [uploads[g] EXCEPT !.step = "removed"].by = uploads[g].by
  BY DEF FilesTypeOK, UploadRow, UploadStep
<1>4. QED BY <1>1, <1>2, <1>3 DEF FilesTypeOK

\* A process that exits leaves its content behind, and its tasks.
LEMMA CrashesSafe ==
  ASSUME FilesInv, CrashApi \/ \E w \in FileWorkers : CrashWorker(w)
  PROVE  FilesInv'
<1> USE DEF FilesInv, FilesAreSound
<1>1. PICK by \in SUBSET (FileWorkers \cup {"api"}) :
        /\ Cut(by)
        /\ UNCHANGED <<objects, rows, references, exports, purging, deleted>>
        /\ fileFaults' \in 0 .. MaxFileFaults /\ attaching' \subseteq attaching
        /\ handlers' \in [FileWorkers -> Handler]
        /\ \A w \in FileWorkers : w \in by \/ handlers'[w] = handlers[w]
        /\ \A w \in FileWorkers : handlers'[w] = handlers[w] \/ handlers'[w] = Resting
  <2>1. CASE CrashApi
    BY <2>1, FilesAssumption DEF CrashApi, Faulty, FilesTypeOK
  <2>2. CASE \E w \in FileWorkers : CrashWorker(w)
    <3>1. PICK w \in FileWorkers : CrashWorker(w)
      BY <2>2
    <3>2. Resting \in Handler
      BY DEF Resting, Handler, HandlerSteps, NoTask, NoFile
    <3>3. QED BY <3>1, <3>2, FilesAssumption DEF CrashWorker, Faulty, FilesTypeOK
  <2>3. QED BY <2>1, <2>2
<1>2. Resting.step = "idle" /\ Resting.file = NoFile
  BY DEF Resting
<1>3. /\ uploads' \in [Files -> UploadRow]
      /\ abandoned \subseteq abandoned' /\ abandoned' \subseteq Files
      /\ \A g \in Files :
           /\ uploads'[g].by = uploads[g].by
           /\ \/ /\ uploads'[g].step = uploads[g].step
                 /\ ~(uploads[g].by \in by /\ uploads[g].step \in {"stored", "unconfirmed"})
              \/ /\ uploads[g].step \in {"stored", "unconfirmed"} /\ uploads[g].by \in by
                 /\ uploads'[g].step = "removed" /\ g \in abandoned'
  BY <1>1, CutIs
<1>4. FilesTypeOK'
  BY <1>1, <1>3 DEF FilesTypeOK
<1>5. ActiveHasContent'
  BY <1>1, <1>3 DEF ActiveHasContent
<1>6. StoredIsKnown'
  BY <1>1, <1>3 DEF StoredIsKnown, FilesTypeOK
<1>7. ResultsAreKept'
  BY <1>1 DEF ResultsAreKept
<1>8. UploadsAreOrdered'
  BY <1>1, <1>3 DEF UploadsAreOrdered
<1>9. UploadsAreAwaited'
  BY <1>1, <1>3, FilesFields DEF UploadsAreAwaited
<1>10. PurgedIsInvalid'
  BY <1>1 DEF PurgedIsInvalid
<1>11. HandlersAreSound'
  BY <1>1, <1>2, <1>3, FilesFields DEF HandlersAreSound, Kept
<1>12. ResultsAreSeparate'
  BY <1>1, <1>3, FilesFields DEF ResultsAreSeparate
<1>13. QED BY <1>4, <1>5, <1>6, <1>7, <1>8, <1>9, <1>10, <1>11, <1>12

\* An administrator deletes a file: its row is invalid, its content stays.
LEMMA DeleteSafe ==
  ASSUME FilesInv, NEW f \in Files, DeleteFile(f)
  PROVE  FilesInv'
<1> USE DEF FilesInv, FilesAreSound
<1>1. /\ UNCHANGED <<objects, attaching, uploads, exports, handlers, purging, abandoned, fileFaults>>
      /\ references' \subseteq references /\ deleted' = deleted \cup {f}
      /\ rows' \in [Files -> FileRow] /\ rows[f].status # "none" /\ rows'[f].status = "invalid"
      /\ \A g \in Files : g # f => rows'[g] = rows[g]
  BY DEF DeleteFile, FilesTypeOK, FileRow
<1>2. FilesTypeOK'
  BY <1>1 DEF FilesTypeOK
<1>3. ActiveHasContent'
  BY <1>1 DEF ActiveHasContent
<1>4. StoredIsKnown'
  BY <1>1 DEF StoredIsKnown, FilesTypeOK
<1>5. ResultsAreKept'
  BY <1>1, FilesFields DEF ResultsAreKept
<1>6. UploadsAreOrdered' /\ UploadsAreAwaited'
  BY <1>1 DEF UploadsAreOrdered, UploadsAreAwaited
<1>7. PurgedIsInvalid'
  BY <1>1 DEF PurgedIsInvalid, FilesTypeOK
<1>8. HandlersAreSound'
  BY <1>1, FilesFields DEF HandlersAreSound, Kept
<1>9. ResultsAreSeparate'
  BY <1>1 DEF ResultsAreSeparate
<1>10. QED BY <1>2, <1>3, <1>4, <1>5, <1>6, <1>7, <1>8, <1>9

\* References say nothing of the content.
LEMMA AttachmentSafe ==
  ASSUME FilesInv, NEW f \in Files, NEW r \in Records,
         \/ CheckAttachment(f, r) \/ DetachFile(f, r)
         \/ \E single \in BOOLEAN : AttachFile(f, r, single)
  PROVE  FilesInv'
<1>1. /\ UNCHANGED <<objects, rows, uploads, exports, handlers, purging, abandoned, deleted,
                     fileFaults>>
      /\ references' \subseteq Files \X Records /\ attaching' \subseteq Files \X Records
  BY DEF CheckAttachment, DetachFile, AttachFile, FilesInv, FilesAreSound, FilesTypeOK
<1>2. FilesTypeOK'
  BY <1>1 DEF FilesInv, FilesAreSound, FilesTypeOK
<1>3. QED BY <1>1, <1>2
  DEF FilesInv, FilesAreSound, ActiveHasContent, StoredIsKnown, ResultsAreKept, UploadsAreOrdered,
      UploadsAreAwaited, PurgedIsInvalid, HandlersAreSound, ResultsAreSeparate, Kept

\* A task's row while no result is recorded: a status, and an expiry that stays.
LEMMA TaskSafe ==
  ASSUME FilesInv, NEW t \in ExportTasks,
         \/ ResultExpires(t)
         \/ \E kind \in TaskKinds, source \in Files \cup {NoFile} : CreateTask(t, kind, source)
         \/ \E w \in FileWorkers : SelectTask(w, t)
  PROVE  FilesInv'
<1> USE DEF FilesInv, FilesAreSound
<1>1. /\ UNCHANGED <<objects, rows, references, attaching, uploads, purging, abandoned, deleted,
                     fileFaults>>
      /\ exports' \in [ExportTasks -> ExportRow] /\ handlers' \in [FileWorkers -> Handler]
      /\ \A u \in ExportTasks : exports'[u].result = exports[u].result
                                /\ (exports[u].expired => exports'[u].expired)
      /\ \A w \in FileWorkers : \/ handlers'[w] = handlers[w]
                                \/ /\ handlers'[w].step = "selected" /\ handlers'[w].file = NoFile
                                   /\ handlers'[w].task \in ExportTasks
                                   /\ handlers[w].step = "idle"
  <2>1. CASE ResultExpires(t)
    BY <2>1 DEF ResultExpires, FilesTypeOK, ExportRow
  <2>2. CASE \E kind \in TaskKinds, source \in Files \cup {NoFile} : CreateTask(t, kind, source)
    <3>1. PICK kind \in TaskKinds, source \in Files \cup {NoFile} : CreateTask(t, kind, source)
      BY <2>2
    <3>2. kind \in {"log", "export", "import"}
      BY FilesAssumption
    <3>3. exports' = [exports EXCEPT ![t].status = "pending", ![t].kind = kind,
                                     ![t].source = source]
      BY <3>1 DEF CreateTask
    <3>4. exports' \in [ExportTasks -> ExportRow]
      <4> DEFINE row == [exports[t] EXCEPT !.status = "pending", !.kind = kind, !.source = source]
      <4>1. exports[t] \in ExportRow
        BY DEF FilesTypeOK
      <4>2. row \in ExportRow
        BY <3>1, <3>2, <4>1 DEF ExportRow, TaskStatus
      <4>3. exports' = [exports EXCEPT ![t] = row]
        BY <3>3 DEF FilesTypeOK
      <4> HIDE DEF row
      <4>4. QED BY <4>2, <4>3 DEF FilesTypeOK
    <3>5. \A u \in ExportTasks : exports'[u].result = exports[u].result
                                 /\ exports'[u].expired = exports[u].expired
      BY <3>3 DEF FilesTypeOK, ExportRow
    <3>6. QED BY <3>1, <3>4, <3>5 DEF CreateTask, FilesTypeOK
  <2>3. CASE \E w \in FileWorkers : SelectTask(w, t)
    <3>1. PICK w \in FileWorkers : SelectTask(w, t)
      BY <2>3
    <3>2. [step |-> "selected", task |-> t, file |-> NoFile] \in Handler
      BY DEF Handler, HandlerSteps
    <3>3. QED BY <3>1, <3>2 DEF SelectTask, FilesTypeOK
  <2>4. QED BY <2>1, <2>2, <2>3
<1>2. FilesTypeOK'
  BY <1>1 DEF FilesTypeOK
<1>3. ActiveHasContent' /\ StoredIsKnown'
  BY <1>1 DEF ActiveHasContent, StoredIsKnown
<1>4. ResultsAreKept'
  BY <1>1 DEF ResultsAreKept
<1>5. UploadsAreOrdered' /\ PurgedIsInvalid'
  BY <1>1 DEF UploadsAreOrdered, PurgedIsInvalid
<1>6. UploadsAreAwaited'
  BY <1>1, FilesFields DEF UploadsAreAwaited
<1>7. HandlersAreSound'
  BY <1>1, FilesFields DEF HandlersAreSound, Kept
<1>8. ResultsAreSeparate'
  BY <1>1 DEF ResultsAreSeparate
<1>9. QED BY <1>2, <1>3, <1>4, <1>5, <1>6, <1>7, <1>8

\* A handler goes on without a new file: its file stays what it is.
LEMMA HandlerSafe ==
  ASSUME FilesInv, NEW w \in FileWorkers,
         ClaimTask(w) \/ ImportWithoutErrors(w) \/ WorkFails(w) \/ FailTask(w)
  PROVE  FilesInv'
<1> USE DEF FilesInv, FilesAreSound
<1>1. /\ UNCHANGED <<objects, rows, references, attaching, uploads, purging, abandoned, deleted>>
      /\ fileFaults' \in 0 .. MaxFileFaults
      /\ exports' \in [ExportTasks -> ExportRow] /\ handlers' \in [FileWorkers -> Handler]
      /\ \A u \in ExportTasks : exports'[u].result = exports[u].result
                                /\ exports'[u].expired = exports[u].expired
      /\ \A v \in FileWorkers : v # w => handlers'[v] = handlers[v]
      /\ \/ /\ handlers'[w].task = handlers[w].task /\ handlers'[w].file = NoFile
            /\ handlers[w].file = NoFile /\ handlers[w].step \in {"selected", "working"}
         \/ handlers'[w] = Resting /\ handlers[w].step = "failing"
  <2>1. handlers[w].step # "idle" => handlers[w].task \in ExportTasks
    BY DEF HandlersAreSound
  <2>2. handlers[w].step \in {"selected", "working"} => handlers[w].file = NoFile
    BY DEF HandlersAreSound
  <2>3. CASE ClaimTask(w)
    BY <2>1, <2>2, <2>3 DEF ClaimTask, FilesTypeOK, ExportRow, TaskStatus, Handler, HandlerSteps
  <2>4. CASE ImportWithoutErrors(w)
    BY <2>1, <2>2, <2>4 DEF ImportWithoutErrors, FilesTypeOK, Handler, HandlerSteps
  <2>5. CASE WorkFails(w)
    BY <2>1, <2>2, <2>5, FilesAssumption DEF WorkFails, Faulty, FilesTypeOK, Handler, HandlerSteps
  <2>6. CASE FailTask(w)
    <3>1. Resting \in Handler
      BY DEF Resting, Handler, HandlerSteps
    <3>2. QED BY <2>1, <2>6, <3>1 DEF FailTask, FilesTypeOK, ExportRow, TaskStatus
  <2>7. QED BY <2>3, <2>4, <2>5, <2>6
<1>2. Resting.step = "idle" /\ Resting.file = NoFile
  BY DEF Resting
<1>3. FilesTypeOK'
  BY <1>1 DEF FilesTypeOK
<1>4. ActiveHasContent' /\ StoredIsKnown'
  BY <1>1 DEF ActiveHasContent, StoredIsKnown
<1>5. ResultsAreKept'
  BY <1>1 DEF ResultsAreKept
<1>6. UploadsAreOrdered' /\ PurgedIsInvalid'
  BY <1>1 DEF UploadsAreOrdered, PurgedIsInvalid
<1>7. UploadsAreAwaited'
  BY <1>1, FilesFields DEF UploadsAreAwaited
<1>8. HandlersAreSound'
  BY <1>1, <1>2, FilesFields DEF HandlersAreSound, Kept
<1>9. ResultsAreSeparate'
  BY <1>1 DEF ResultsAreSeparate
<1>10. QED BY <1>3, <1>4, <1>5, <1>6, <1>7, <1>8, <1>9

\* A handler puts its file.
LEMMA WriteSafe ==
  ASSUME FilesInv, NEW w \in FileWorkers, NEW f \in Files, WriteResult(w, f)
  PROVE  FilesInv'
<1> USE DEF FilesInv, FilesAreSound
<1>1. /\ uploads[f].step = "none" /\ rows[f].status = "none"
      /\ uploads' \in [Files -> UploadRow] /\ objects' = objects \cup {f} /\ objects' \subseteq Files
      /\ uploads'[f].step = "stored" /\ uploads'[f].by = w
      /\ \A g \in Files : g # f => uploads'[g] = uploads[g]
      /\ \A t \in ExportTasks : exports[t].result # f
      /\ \A v \in FileWorkers : handlers[v].file # f
  BY PutIs DEF WriteResult
<1>2. /\ handlers[w].step = "working"
      /\ UNCHANGED <<rows, references, attaching, exports, purging, abandoned, deleted, fileFaults>>
  BY DEF WriteResult
<1>3. /\ handlers' \in [FileWorkers -> Handler]
      /\ handlers'[w].step = "uploading" /\ handlers'[w].file = f
      /\ handlers'[w].task = handlers[w].task
      /\ \A v \in FileWorkers : v # w => handlers'[v] = handlers[v]
  BY DEF WriteResult, FilesTypeOK, Handler, HandlerSteps
<1>4. FilesTypeOK'
  BY <1>1, <1>2, <1>3 DEF FilesTypeOK
<1>5. ActiveHasContent'
  BY <1>1, <1>2 DEF ActiveHasContent
<1>6. StoredIsKnown'
  BY <1>1, <1>2 DEF StoredIsKnown
<1>7. ResultsAreKept'
  BY <1>1, <1>2 DEF ResultsAreKept
<1>8. UploadsAreOrdered' /\ PurgedIsInvalid'
  BY <1>1, <1>2 DEF UploadsAreOrdered, PurgedIsInvalid
<1>9. UploadsAreAwaited'
  BY <1>1, <1>2, <1>3, FilesFields DEF UploadsAreAwaited
<1>10. HandlersAreSound'
  BY <1>1, <1>2, <1>3, FilesFields DEF HandlersAreSound, Kept
<1>11. ResultsAreSeparate'
  BY <1>1, <1>2, FilesFields DEF ResultsAreSeparate
<1>12. QED BY <1>4, <1>5, <1>6, <1>7, <1>8, <1>9, <1>10, <1>11

\* The file of a handler becomes the result of its task, and of no other.
LEMMA CompleteSafe ==
  ASSUME FilesInv, NEW w \in FileWorkers, CompleteTask(w)
  PROVE  FilesInv'
<1> USE DEF FilesInv, FilesAreSound
<1> DEFINE t == handlers[w].task
<1> DEFINE new == handlers[w].file
<1>1. /\ handlers[w].step = "completing" /\ t \in ExportTasks /\ new \in Files \cup {NoFile}
      /\ UNCHANGED <<objects, rows, references, attaching, uploads, purging, abandoned, deleted,
                     fileFaults>>
  BY FilesFields DEF CompleteTask, HandlersAreSound
<1>2. new # NoFile => /\ uploads[new].by = w /\ uploads[new].step = "done" /\ Kept(new)
                      /\ \A u \in ExportTasks : exports[u].result # new
                      /\ \A v \in FileWorkers : v # w => handlers[v].file # new
  BY <1>1 DEF HandlersAreSound
<1>3. /\ exports' \in [ExportTasks -> ExportRow] /\ exports'[t].result = new
      /\ \A u \in ExportTasks : u # t => exports'[u] = exports[u]
  BY <1>1 DEF CompleteTask, FilesTypeOK, ExportRow, TaskStatus
<1>4. /\ handlers' \in [FileWorkers -> Handler] /\ handlers'[w] = Resting
      /\ \A v \in FileWorkers : v # w => handlers'[v] = handlers[v]
  <2>1. Resting \in Handler
    BY DEF Resting, Handler, HandlerSteps
  <2>2. QED BY <2>1 DEF CompleteTask, FilesTypeOK
<1>5. Resting.step = "idle" /\ Resting.file = NoFile
  BY DEF Resting
<1> HIDE DEF t, new
<1>6. FilesTypeOK'
  BY <1>1, <1>3, <1>4 DEF FilesTypeOK
<1>7. ActiveHasContent' /\ StoredIsKnown'
  BY <1>1 DEF ActiveHasContent, StoredIsKnown
<1>8. ResultsAreKept'
  BY <1>1, <1>2, <1>3 DEF ResultsAreKept, Kept
<1>9. UploadsAreOrdered' /\ PurgedIsInvalid'
  BY <1>1 DEF UploadsAreOrdered, PurgedIsInvalid
<1>10. UploadsAreAwaited'
  BY <1>1, <1>4, FilesFields DEF UploadsAreAwaited
<1>11. HandlersAreSound'
  <2>1. \A v \in FileWorkers : v # w /\ handlers[v].file # NoFile
          => \A u \in ExportTasks : exports'[u].result # handlers[v].file
    BY <1>1, <1>2, <1>3 DEF HandlersAreSound
  <2>2. QED BY <1>1, <1>4, <1>5, <2>1 DEF HandlersAreSound, Kept
<1>12. ResultsAreSeparate'
  BY <1>1, <1>2, <1>3 DEF ResultsAreSeparate
<1>13. QED BY <1>6, <1>7, <1>8, <1>9, <1>10, <1>11, <1>12

\* What a cleanup selects is invalid, and an expired task's.
LEMMA CleanupSelects ==
  ASSUME FilesInv
  PROVE  /\ Lowest(Unpurged) \subseteq {f \in Files : rows[f].status = "invalid"}
         /\ ExpiredFiles \subseteq Files
         /\ \A f \in ExpiredFiles : \E t \in ExportTasks : exports[t].result = f /\ exports[t].expired
<1>1. \A ids : Lowest(ids) \subseteq ids
  BY DEF Lowest
<1>2. Lowest(Unpurged) \subseteq Unpurged /\ Lowest(ExpiredTasks) \subseteq ExpiredTasks
  BY <1>1
<1>3. \A f \in ExpiredFiles : \E t \in Lowest(ExpiredTasks) : f = exports[t].result /\ f # NoFile
  BY DEF ExpiredFiles
<1>4. \A t \in ExportTasks : exports[t].result \in Files \cup {NoFile}
  BY FilesFields DEF FilesInv, FilesAreSound
<1>5. QED BY <1>2, <1>3, <1>4 DEF Unpurged, ExpiredTasks

\* A cleanup begins, goes on, fails and stops: only invalid content goes, and
\* only what has expired becomes invalid.
LEMMA CleaningSafe ==
  ASSUME FilesInv,
         \/ Cleaning
         \/ \E c \in Cleanups : CleanupCrashes(c) \/ \E f \in Files : PurgeFails(c, f)
  PROVE  FilesInv'
<1> USE DEF FilesInv, FilesAreSound
<1>1. /\ UNCHANGED <<references, attaching, uploads, exports, handlers, abandoned, deleted>>
      /\ fileFaults' \in 0 .. MaxFileFaults
      /\ rows' \in [Files -> FileRow] /\ purging' \in [Cleanups -> SUBSET Files]
      /\ objects' \subseteq objects
      /\ \A f \in objects : f \in objects' \/ rows[f].status = "invalid"
      /\ \A f \in Files : \/ rows'[f].status = rows[f].status
                          \/ f \in ExpiredFiles /\ rows'[f].status = "invalid"
      /\ \A c \in Cleanups : \A f \in purging'[c] : f \in purging[c] \/ rows'[f].status = "invalid"
  <2>1. CASE StartFileCleanup
    <3>1. purging' = [purging EXCEPT !["invalid"] = Lowest(Unpurged)]
          /\ UNCHANGED <<objects, rows, references, attaching, uploads, exports, handlers, abandoned,
                         deleted, fileFaults>>
      BY <2>1 DEF StartFileCleanup
    <3>2. QED BY <3>1, CleanupSelects DEF FilesTypeOK
  <2>2. CASE StartResultCleanup
    <3>1. /\ purging' = [purging EXCEPT !["results"] = ExpiredFiles]
          /\ rows' = [f \in Files |-> IF f \in ExpiredFiles THEN [rows[f] EXCEPT !.status = "invalid"]
                                      ELSE rows[f]]
          /\ UNCHANGED <<objects, references, attaching, uploads, exports, handlers, abandoned,
                         deleted, fileFaults>>
      BY <2>2 DEF StartResultCleanup
    <3>2. \A f \in Files : /\ [rows[f] EXCEPT !.status = "invalid"] \in FileRow
                           /\ [rows[f] EXCEPT !.status = "invalid"].status = "invalid"
      BY DEF FilesTypeOK, FileRow
    <3>3. rows' \in [Files -> FileRow] /\ purging' \in [Cleanups -> SUBSET Files]
      BY <3>1, <3>2, CleanupSelects DEF FilesTypeOK
    <3>4. QED BY <3>1, <3>2, <3>3, CleanupSelects DEF FilesTypeOK
  <2>3. CASE \E c \in Cleanups, f \in Files : Purge(c, f)
    <3>1. PICK c \in Cleanups, f \in Files : Purge(c, f)
      BY <2>3
    <3>2. rows[f].status = "invalid"
      BY <3>1 DEF Purge, PurgedIsInvalid
    <3>3. rows' \in [Files -> FileRow] /\ \A g \in Files : rows'[g].status = rows[g].status
      <4>1. rows' = rows \/ rows' = [rows EXCEPT ![f].purged = TRUE]
        BY <3>1 DEF Purge
      <4>2. CASE rows' = rows
        BY <4>2 DEF FilesTypeOK
      <4>3. CASE rows' = [rows EXCEPT ![f].purged = TRUE]
        BY <4>3 DEF FilesTypeOK, FileRow
      <4>4. QED BY <4>1, <4>2, <4>3
    <3>4. fileFaults' \in 0 .. MaxFileFaults
      BY <3>1, FilesAssumption DEF Purge, Faulty, FilesTypeOK
    <3>5. QED BY <3>1, <3>2, <3>3, <3>4 DEF Purge, FilesTypeOK
  <2>4. CASE \E c \in Cleanups : CleanupCrashes(c) \/ \E f \in Files : PurgeFails(c, f)
    BY <2>4, FilesAssumption DEF CleanupCrashes, PurgeFails, Faulty, FilesTypeOK
  <2>5. QED BY <2>1, <2>2, <2>3, <2>4 DEF Cleaning
<1>2. \A f \in ExpiredFiles : \E t \in ExportTasks : exports[t].result = f /\ exports[t].expired
  BY CleanupSelects
<1>3. FilesTypeOK'
  BY <1>1 DEF FilesTypeOK
<1>4. ActiveHasContent'
  BY <1>1 DEF ActiveHasContent
<1>5. StoredIsKnown'
  BY <1>1 DEF StoredIsKnown, FilesTypeOK
<1>6. ResultsAreKept'
  BY <1>1, <1>2, FilesFields DEF ResultsAreKept, ResultsAreSeparate
<1>7. UploadsAreOrdered'
  BY <1>1, <1>2, FilesFields DEF UploadsAreOrdered, ResultsAreSeparate
<1>8. UploadsAreAwaited'
  BY <1>1 DEF UploadsAreAwaited
<1>9. PurgedIsInvalid'
  BY <1>1 DEF PurgedIsInvalid, FilesTypeOK
<1>10. HandlersAreSound'
  BY <1>1, <1>2, FilesFields DEF HandlersAreSound, Kept
<1>11. ResultsAreSeparate'
  BY <1>1 DEF ResultsAreSeparate
<1>12. QED BY <1>3, <1>4, <1>5, <1>6, <1>7, <1>8, <1>9, <1>10, <1>11

LEMMA FilesStart == FilesInit => FilesInv
<1> SUFFICES ASSUME FilesInit PROVE FilesInv
  OBVIOUS
<1>1. FilesTypeOK
  BY FilesAssumption
  DEF FilesInit, FilesTypeOK, FileRow, UploadRow, UploadStep, ExportRow, TaskStatus, Handler,
      HandlerSteps, Resting
<1>2. QED BY <1>1
  DEF FilesInit, FilesInv, FilesAreSound, ActiveHasContent, StoredIsKnown, ResultsAreKept,
      UploadsAreOrdered, UploadsAreAwaited, PurgedIsInvalid, HandlersAreSound, ResultsAreSeparate,
      Resting

LEMMA FilesStep == FilesInv /\ [FilesNext]_filesVars => FilesInv'
<1> SUFFICES ASSUME FilesInv, [FilesNext]_filesVars PROVE FilesInv'
  OBVIOUS
<1>1. CASE UNCHANGED filesVars
  BY <1>1
  DEF filesVars, FilesInv, FilesAreSound, FilesTypeOK, ActiveHasContent, StoredIsKnown,
      ResultsAreKept, UploadsAreOrdered, UploadsAreAwaited, PurgedIsInvalid, HandlersAreSound,
      ResultsAreSeparate, Kept
<1>2. CASE \E f \in Files : UploadFile(f) \/ InsertFile(f) \/ InsertFails(f) \/ Compensate(f)
  BY <1>2, UploadSafe, InsertSafe, InsertFailsSafe, CompensateSafe
<1>3. CASE \E f \in Files : DeleteFile(f)
  BY <1>3, DeleteSafe
<1>4. CASE \E f \in Files, r \in Records :
             \/ CheckAttachment(f, r) \/ DetachFile(f, r)
             \/ \E single \in BOOLEAN : AttachFile(f, r, single)
  BY <1>4, AttachmentSafe
<1>5. CASE CrashApi \/ \E w \in FileWorkers : CrashWorker(w)
  BY <1>5, CrashesSafe
<1>6. CASE \E t \in ExportTasks :
             \/ ResultExpires(t)
             \/ \E kind \in TaskKinds, source \in Files \cup {NoFile} : CreateTask(t, kind, source)
             \/ \E w \in FileWorkers : SelectTask(w, t)
  BY <1>6, TaskSafe
<1>7. CASE \E w \in FileWorkers : Work(w)
  <2>1. PICK w \in FileWorkers : Work(w)
    BY <1>7
  <2>2. \/ ClaimTask(w) \/ ImportWithoutErrors(w) \/ WorkFails(w) \/ FailTask(w)
        \/ CompleteTask(w) \/ \E f \in Files : WriteResult(w, f)
    BY <2>1 DEF Work
  <2>3. QED BY <2>2, HandlerSafe, WriteSafe, CompleteSafe
<1>8. CASE \/ Cleaning
           \/ \E c \in Cleanups : CleanupCrashes(c) \/ \E f \in Files : PurgeFails(c, f)
  BY <1>8, CleaningSafe
<1>9. QED BY <1>1, <1>2, <1>3, <1>4, <1>5, <1>6, <1>7, <1>8 DEF FilesNext

\* Rows, content and results agree, whoever uploads, deletes, exports and
\* cleans up beside each other, and wherever a process stops: an active row can
\* be read, what is stored is known, and a result stays until it expires.
THEOREM FilesHold == FilesSpec => []FilesAreSound
<1>1. FilesInv => FilesAreSound
  BY DEF FilesInv
<1>2. QED BY <1>1, FilesStart, FilesStep, PTL DEF FilesSpec

-----------------------------------------------------------------------------
(* The scheduler: JobScheduler.  What follows supposes JobOwned, and one       *)
(* administrator who edits.                                                 *)

OneAdministrator == \A a, b \in Admins : a = b

\* A task that is being claimed is due, and nobody else claims meanwhile.
ClaimsAreDue ==
  \A w \in JobWorkers : JobAt(w, "claiming") =>
    /\ JobDue(jobActs[w].task)
    /\ jobActs[w].attempt = Counted(tasks[jobActs[w].task].attempt)
    /\ \A v \in JobWorkers : JobAt(v, "claiming") => v = w

AgesAreBounded == \A w \in JobWorkers : ~JobAt(w, "idle") => jobActs[w].age <= JobHandlerBound

\* A task that is run is not due before its activation has ended.
RunsAreLeased ==
  \A w \in JobWorkers, t \in JobUntouched : JobHandling(w, t) =>
    /\ tasks[t].status = "enabled"
    /\ tasks[t].due + jobActs[w].age > JobHandlerBound

\* No attempt is counted that was not made.
TriesAreCounted ==
  \A t \in JobUntouched :
    /\ tasks[t].attempt <= tries[t]
    /\ \A w \in JobWorkers : JobHandling(w, t) => jobActs[w].attempt <= tries[t]

\* What is enabled was wanted, or is registered; so is what an update has read.
EnabledIsWanted ==
  /\ \A t \in Tasks : tasks[t].status = "enabled" => t \in wanted \cup Catalogue
  /\ \A a \in Admins : edits[a] # NoEdit =>
       /\ edits[a].task \in Edited /\ Known(edits[a].task)
       /\ edits[a].status = "enabled" => edits[a].task \in wanted \cup Catalogue

JobInv ==
  /\ JobTypeOK /\ OneRun
  /\ ClaimsAreDue /\ AgesAreBounded /\ RunsAreLeased /\ TriesAreCounted /\ EnabledIsWanted

\* What the types say of one activation and one row.
LEMMA JobFields ==
  ASSUME JobTypeOK
  PROVE  /\ \A w \in JobWorkers : /\ jobActs[w] \in JobActivation
                                  /\ jobActs[w].step \in JobSteps /\ jobActs[w].age \in Nat
                                  /\ jobActs[w].attempt \in 0 .. MaxJobAttempts
                                  /\ jobActs[w].step # "idle" => jobActs[w].task \in Tasks
         /\ \A t \in Tasks : /\ tasks[t] \in TaskRow
                             /\ tasks[t].status \in {"none", "enabled", "disabled"}
                             /\ tasks[t].due \in Int /\ tasks[t].due >= -1
                             /\ tasks[t].due \in Nat \cup {Unset}
                             /\ tasks[t].attempt \in 0 .. MaxJobAttempts
                             /\ tries[t] \in 0 .. MaxJobAttempts
         /\ MaxJobAttempts \in Nat /\ MaxJobAttempts > 0
<1>1. \A t \in Tasks : tasks[t] \in TaskRow /\ tries[t] \in 0 .. MaxJobAttempts
  BY DEF JobTypeOK
<1>2. \A t \in Tasks : /\ tasks[t].status \in {"none", "enabled", "disabled"}
                       /\ tasks[t].due \in Nat \cup {Unset}
                       /\ tasks[t].attempt \in 0 .. MaxJobAttempts
  BY <1>1 DEF TaskRow
<1>3. \A w \in JobWorkers : /\ jobActs[w] \in JobActivation
                            /\ jobActs[w].step # "idle" => jobActs[w].task \in Tasks
  BY DEF JobTypeOK
<1>4. QED BY <1>1, <1>2, <1>3, SchedulerAssumption DEF JobActivation, Unset

\* Who handles a task is an activation that is neither idle nor claiming.
LEMMA HandlingIs ==
  ASSUME JobTypeOK, NEW w \in JobWorkers, NEW t \in Tasks
  PROVE  JobHandling(w, t) <=> /\ jobActs[w].task = t
                               /\ jobActs[w].step \notin {"idle", "claiming"}
BY JobFields DEF JobHandling, JobSteps

\* Counting goes on to the limit.
LEMMA CountedIs ==
  ASSUME SchedulerAssumption, NEW n \in 0 .. MaxJobAttempts, NEW m \in 0 .. MaxJobAttempts, n <= m
  PROVE  Counted(n) \in 0 .. MaxJobAttempts /\ Counted(n) <= Counted(m)
BY DEF Counted

\* What one activation and one row become.
LEMMA ActIs ==
  ASSUME JobTypeOK, NEW w \in JobWorkers, NEW act \in JobActivation, JobGoes(w, act)
  PROVE  /\ jobActs' \in [JobWorkers -> JobActivation] /\ jobActs'[w] = act
         /\ \A v \in JobWorkers : v # w => jobActs'[v] = jobActs[v]
BY DEF JobTypeOK, JobGoes

LEMMA ScheduleRowIs ==
  ASSUME JobTypeOK, NEW t \in Tasks, NEW row \in TaskRow, tasks' = [tasks EXCEPT ![t] = row]
  PROVE  /\ tasks' \in [Tasks -> TaskRow] /\ tasks'[t] = row
         /\ \A u \in Tasks : u # t => tasks'[u] = tasks[u]
BY DEF JobTypeOK

LEMMA CronRunIs == \A run \in CronRun : run \in Nat /\ run >= Shortest /\ run # Unset
BY SchedulerAssumption DEF CronRun, Unset

\* The row of a run that has ended.
LEMMA SucceededIs ==
  ASSUME NEW row \in TaskRow, NEW run \in CronRun
  PROVE  /\ Succeeded(row, run) \in TaskRow
         /\ Succeeded(row, run).due = run /\ Succeeded(row, run).attempt = 0
         /\ Succeeded(row, run).status = row.status
<1>1. run \in Nat /\ 0 \in 0 .. MaxJobAttempts
  BY CronRunIs, SchedulerAssumption
<1>2. QED BY <1>1 DEF Succeeded, TaskRow

\* A step that leaves the rows of the tasks that are run as they are, while
\* nobody claims: registrations and administrators' requests.
LEMMA RowsSafe ==
  ASSUME JobInv, NEW t \in Tasks, NEW row \in TaskRow,
         tasks' = [tasks EXCEPT ![t] = row],
         \A v \in JobWorkers : ~JobAt(v, "claiming"),
         UNCHANGED <<jobActs, tries, jobAlarms>>, wanted' \in SUBSET Tasks,
         edits' \in [Admins -> Edit],
         row.attempt = tasks[t].attempt \/ row.attempt = 0,
         t \in JobUntouched => \/ ~Known(t)
                               \/ /\ row.status = "enabled"
                                  /\ tasks[t].due # Unset => row.due = tasks[t].due,
         EnabledIsWanted'
  PROVE  JobInv'
<1> USE DEF JobInv
<1>1. /\ tasks' \in [Tasks -> TaskRow] /\ tasks'[t] = row
      /\ \A u \in Tasks : u # t => tasks'[u] = tasks[u]
  BY ScheduleRowIs
<1>2. JobTypeOK'
  BY <1>1 DEF JobTypeOK
<1>3. OneRun' /\ ClaimsAreDue' /\ AgesAreBounded'
  BY DEF OneRun, ClaimsAreDue, AgesAreBounded, JobHandling, JobAt
<1>4. RunsAreLeased'
  <2> SUFFICES ASSUME NEW w \in JobWorkers, NEW u \in JobUntouched, JobHandling(w, u)
               PROVE  tasks'[u].status = "enabled" /\ tasks'[u].due = tasks[u].due
    BY DEF RunsAreLeased, JobHandling
  <2>1. u \in Tasks /\ tasks[u].status = "enabled" /\ Known(u)
    BY DEF RunsAreLeased, Known, JobUntouched
  <2>2. tasks[u].due # Unset
    <3>1. tasks[u].due + jobActs[w].age > JobHandlerBound /\ jobActs[w].age <= JobHandlerBound
      BY DEF RunsAreLeased, AgesAreBounded, JobHandling, JobAt
    <3>2. QED BY <2>1, <3>1, JobFields, SchedulerAssumption DEF Unset
  <2>3. QED BY <1>1, <2>1, <2>2
<1>5. TriesAreCounted'
  <2>1. \A u \in JobUntouched : tasks'[u].attempt <= tries[u]
    BY <1>1, JobFields DEF TriesAreCounted, JobUntouched
  <2>2. QED BY <2>1 DEF TriesAreCounted, JobHandling
<1>6. QED BY <1>2, <1>3, <1>4, <1>5

\* A worker that starts registers its tasks anew.
LEMMA RegisterSafe ==
  ASSUME JobOwned, JobInv, NEW t \in Tasks, Register(t)
  PROVE  JobInv'
<1> USE DEF JobInv
<1>1. PICK run \in CronRun : tasks' = [tasks EXCEPT ![t] = Registered(@, run)]
  BY DEF Register
<1> DEFINE row == Registered(tasks[t], run)
<1>2. /\ row \in TaskRow /\ row.status = "enabled" /\ row.attempt = tasks[t].attempt
      /\ tasks[t].due # Unset => row.due = tasks[t].due
  BY CronRunIs, JobFields DEF Registered, TaskRow
<1>3. tasks' = [tasks EXCEPT ![t] = row]
  BY <1>1
<1> HIDE DEF row
<1>4. /\ t \in Catalogue /\ UNCHANGED <<jobActs, edits, jobAlarms, tries>>
      /\ wanted \subseteq wanted' /\ wanted' \subseteq wanted \cup {t}
      /\ \A v \in JobWorkers : ~JobAt(v, "claiming")
  BY DEF Register, JobAlone, JobOwned
<1>5. wanted' \in SUBSET Tasks /\ edits' \in [Admins -> Edit]
  BY <1>4 DEF JobTypeOK
<1>6. EnabledIsWanted'
  <2>1. tasks'[t].status = "enabled" /\ \A u \in Tasks : u # t => tasks'[u] = tasks[u]
    BY <1>2, <1>3, ScheduleRowIs
  <2>2. \A u \in Tasks : Known(u) => tasks'[u].status # "none"
    BY <2>1 DEF Known
  <2>3. \A a \in Admins : edits[a] # NoEdit => edits[a].task \in Tasks
    BY SchedulerAssumption DEF EnabledIsWanted
  <2>4. QED BY <1>4, <2>1, <2>2, <2>3 DEF EnabledIsWanted, Known
<1>7. QED BY <1>2, <1>3, <1>4, <1>5, <1>6, RowsSafe

\* The API creates a task.
LEMMA CreateSafe ==
  ASSUME JobOwned, JobInv, NEW t \in Tasks, NEW on \in BOOLEAN, CreateScheduledTask(t, on)
  PROVE  JobInv'
<1> USE DEF JobInv
<1>1. PICK run \in CronRun :
        tasks' = [tasks EXCEPT ![t] = [JobNoRow EXCEPT !.status = IF on THEN "enabled" ELSE "disabled",
                                                       !.due = IF on THEN run ELSE Unset]]
  BY DEF CreateScheduledTask
<1> DEFINE row == [JobNoRow EXCEPT !.status = IF on THEN "enabled" ELSE "disabled",
                                   !.due = IF on THEN run ELSE Unset]
<1>2. /\ row \in TaskRow /\ row.attempt = 0 /\ row.status # "none"
      /\ row.status = "enabled" => on
  <2>1. run \in Nat /\ 0 \in 0 .. MaxJobAttempts
    BY CronRunIs, SchedulerAssumption
  <2>2. QED BY <2>1 DEF JobNoRow, TaskRow
<1>3. tasks' = [tasks EXCEPT ![t] = row]
  BY <1>1
<1> HIDE DEF row
<1>4. /\ ~Known(t) /\ UNCHANGED <<jobActs, edits, jobAlarms, tries>>
      /\ wanted' = IF on THEN wanted \cup {t} ELSE wanted \ {t}
      /\ \A v \in JobWorkers : ~JobAt(v, "claiming")
  BY DEF CreateScheduledTask, Decided, JobAlone, JobOwned
<1>5. wanted' \in SUBSET Tasks /\ edits' \in [Admins -> Edit]
  BY <1>4 DEF JobTypeOK
<1>6. EnabledIsWanted'
  <2>1. tasks'[t] = row /\ \A u \in Tasks : u # t => tasks'[u] = tasks[u]
    BY <1>2, <1>3, ScheduleRowIs
  <2>2. \A u : u # t => (u \in wanted' <=> u \in wanted)
    BY <1>4
  <2>3. \A u \in Tasks : tasks'[u].status = "enabled" => u \in wanted' \cup Catalogue
    BY <1>2, <1>4, <2>1, <2>2 DEF EnabledIsWanted
  <2>4. \A a \in Admins : edits[a] # NoEdit => edits[a].task \in Tasks /\ edits[a].task # t
    BY <1>4, SchedulerAssumption DEF EnabledIsWanted
  <2>5. QED BY <1>4, <2>1, <2>2, <2>3, <2>4 DEF EnabledIsWanted, Known
<1>7. QED BY <1>2, <1>3, <1>4, <1>5, <1>6, RowsSafe

\* What both requests of an administrator write.
LEMMA SwitchedIs ==
  ASSUME NEW row \in TaskRow, NEW on \in BOOLEAN, NEW run \in CronRun
  PROVE  /\ Switched(row, on, run) \in TaskRow
         /\ Switched(row, on, run).attempt = row.attempt
         /\ Switched(row, on, run).status = IF on THEN "enabled" ELSE "disabled"
BY CronRunIs DEF Switched, TaskRow

\* A switch is no other administrator's: there is one.
LEMMA SetStatusSafe ==
  ASSUME JobOwned, OneAdministrator, JobInv,
         NEW a \in Admins, NEW t \in Edited, NEW on \in BOOLEAN, SetScheduledTaskStatus(a, t, on)
  PROVE  JobInv'
<1> USE DEF JobInv
<1>1. PICK run \in CronRun : tasks' = [tasks EXCEPT ![t] = Switched(@, on, run)]
  BY DEF SetScheduledTaskStatus
<1>2. t \in Tasks /\ t \notin JobUntouched
  BY SchedulerAssumption DEF JobUntouched
<1> DEFINE row == Switched(tasks[t], on, run)
<1>3. /\ row \in TaskRow /\ row.attempt = tasks[t].attempt
      /\ row.status = IF on THEN "enabled" ELSE "disabled"
  BY <1>2, SwitchedIs, JobFields
<1>4. tasks' = [tasks EXCEPT ![t] = row]
  BY <1>1, <1>2
<1> HIDE DEF row
<1>5. /\ UNCHANGED <<jobActs, edits, jobAlarms, tries>>
      /\ wanted' = IF on THEN wanted \cup {t} ELSE wanted \ {t}
      /\ \A v \in JobWorkers : ~JobAt(v, "claiming")
      /\ \A b \in Admins : edits[b] = NoEdit
  BY DEF SetScheduledTaskStatus, Decided, JobAlone, JobOwned, OneAdministrator
<1>6. wanted' \in SUBSET Tasks /\ edits' \in [Admins -> Edit]
  BY <1>2, <1>5 DEF JobTypeOK
<1>7. EnabledIsWanted'
  <2>1. tasks'[t] = row /\ \A u \in Tasks : u # t => tasks'[u] = tasks[u]
    BY <1>2, <1>3, <1>4, ScheduleRowIs
  <2>2. row.status = "enabled" => on
    BY <1>3
  <2>3. \A u \in Tasks : tasks'[u].status = "enabled" => u \in wanted' \cup Catalogue
    BY <1>5, <2>1, <2>2 DEF EnabledIsWanted
  <2>4. QED BY <1>5, <2>3 DEF EnabledIsWanted
<1>8. QED BY <1>2, <1>3, <1>4, <1>5, <1>6, <1>7, RowsSafe

\* The administrator's update writes the status it has read, or a new one.
LEMMA UpdateSafe ==
  ASSUME JobOwned, OneAdministrator, JobInv, NEW a \in Admins, UpdateCommit(a)
  PROVE  JobInv'
<1> USE DEF JobInv
<1> DEFINE t == edits[a].task
<1>1. /\ t \in Edited /\ t \in Tasks /\ t \notin JobUntouched /\ edits[a] # NoEdit
      /\ edits[a].status = "enabled" => t \in wanted \cup Catalogue
  BY SchedulerAssumption DEF UpdateCommit, EnabledIsWanted, JobUntouched
<1>2. PICK run \in CronRun, on \in BOOLEAN :
        /\ tasks' = [tasks EXCEPT ![t] = Switched(@, on, run)]
        /\ \/ on = (edits[a].status = "enabled") /\ UNCHANGED wanted
           \/ wanted' = IF on THEN wanted \cup {t} ELSE wanted \ {t}
  <2>1. (edits[a].status = "enabled") \in BOOLEAN
    OBVIOUS
  <2>2. QED BY <2>1 DEF UpdateCommit, Decided
<1> DEFINE row == Switched(tasks[t], on, run)
<1>3. /\ row \in TaskRow /\ row.attempt = tasks[t].attempt
      /\ row.status = IF on THEN "enabled" ELSE "disabled"
  BY <1>1, SwitchedIs, JobFields
<1>4. tasks' = [tasks EXCEPT ![t] = row]
  BY <1>1, <1>2
<1> HIDE DEF row, t
<1>5. /\ UNCHANGED <<jobActs, jobAlarms, tries>> /\ edits' = [edits EXCEPT ![a] = NoEdit]
      /\ \A v \in JobWorkers : ~JobAt(v, "claiming")
      /\ \A b \in Admins : b = a
  BY DEF UpdateCommit, JobAlone, JobOwned, OneAdministrator
<1>6. wanted' \in SUBSET Tasks /\ edits' \in [Admins -> Edit] /\ \A b \in Admins : edits'[b] = NoEdit
  <2>1. NoEdit \in Edit
    BY DEF NoEdit, Edit
  <2>2. QED BY <1>1, <1>2, <1>5, <2>1 DEF JobTypeOK
<1>7. EnabledIsWanted'
  <2>1. tasks'[t] = row /\ \A u \in Tasks : u # t => tasks'[u] = tasks[u]
    BY <1>1, <1>3, <1>4, ScheduleRowIs
  <2>2. row.status = "enabled" => on
    BY <1>3
  <2>3. \A u : u # t => (u \in wanted => u \in wanted')
    BY <1>2
  <2>4. on => t \in wanted' \cup Catalogue
    BY <1>1, <1>2 DEF t
  <2>5. QED BY <1>6, <2>1, <2>2, <2>3, <2>4 DEF EnabledIsWanted
<1>8. QED BY <1>1, <1>3, <1>4, <1>5, <1>6, <1>7, RowsSafe

\* An update reads the row it will write.
LEMMA UpdateReadSafe ==
  ASSUME JobInv, NEW a \in Admins, NEW t \in Edited, UpdateRead(a, t)
  PROVE  JobInv'
<1> USE DEF JobInv
<1> DEFINE edit == [task |-> t, status |-> tasks[t].status]
<1>1. /\ t \in Tasks /\ Known(t) /\ UNCHANGED <<tasks, jobActs, jobAlarms, wanted, tries>>
      /\ edits' = [edits EXCEPT ![a] = edit]
  BY SchedulerAssumption DEF UpdateRead
<1>2. edit \in Edit /\ edit.task = t /\ edit.status = tasks[t].status
  BY <1>1, JobFields DEF Edit
<1> HIDE DEF edit
<1>3. edits' \in [Admins -> Edit] /\ \A b \in Admins : edits'[b] = IF b = a THEN edit ELSE edits[b]
  BY <1>1, <1>2 DEF JobTypeOK
<1>4. JobTypeOK' /\ OneRun' /\ ClaimsAreDue' /\ AgesAreBounded' /\ RunsAreLeased' /\ TriesAreCounted'
  BY <1>1, <1>3
  DEF JobTypeOK, OneRun, ClaimsAreDue, AgesAreBounded, RunsAreLeased, TriesAreCounted, JobHandling,
      JobAt, JobDue
<1>5. EnabledIsWanted'
  BY <1>1, <1>2, <1>3 DEF EnabledIsWanted, Known
<1>6. QED BY <1>4, <1>5

\* A claim begins on a due task, while nobody else claims.
LEMMA ClaimScanSafe ==
  ASSUME JobOwned, JobInv, NEW w \in JobWorkers, JobClaimScan(w)
  PROVE  JobInv'
<1> USE DEF JobInv
<1>1. PICK t \in Tasks :
        /\ JobDue(t)
        /\ JobGoes(w, [step |-> "claiming", task |-> t, age |-> 0, attempt |-> Counted(tasks[t].attempt)])
  BY DEF JobClaimScan
<1> DEFINE act == [step |-> "claiming", task |-> t, age |-> 0, attempt |-> Counted(tasks[t].attempt)]
<1>2. /\ act \in JobActivation /\ act.step = "claiming" /\ act.task = t /\ act.age = 0
      /\ act.attempt = Counted(tasks[t].attempt)
  <2>1. Counted(tasks[t].attempt) \in 0 .. MaxJobAttempts
    BY CountedIs, JobFields, SchedulerAssumption
  <2>2. QED BY <2>1 DEF JobActivation, JobSteps
<1>3. JobGoes(w, act)
  BY <1>1
<1> HIDE DEF act
<1>4. /\ jobActs' \in [JobWorkers -> JobActivation] /\ jobActs'[w] = act
      /\ \A v \in JobWorkers : v # w => jobActs'[v] = jobActs[v]
  BY <1>2, <1>3, ActIs
<1>5. /\ UNCHANGED <<tasks, edits, jobAlarms, wanted, tries>>
      /\ \A v \in JobWorkers : ~JobAt(v, "claiming")
  BY DEF JobClaimScan, JobAlone, JobOwned
<1>6. JobTypeOK'
  BY <1>2, <1>4, <1>5 DEF JobTypeOK
<1>7. OneRun' /\ RunsAreLeased' /\ TriesAreCounted'
  <2>1. \A v \in JobWorkers, u \in Tasks : JobHandling(v, u)' => JobHandling(v, u) /\ jobActs'[v] = jobActs[v]
    BY <1>2, <1>4 DEF JobHandling
  <2>2. JobUntouched \subseteq Tasks
    BY DEF JobUntouched
  <2>3. QED BY <1>5, <2>1, <2>2 DEF OneRun, RunsAreLeased, TriesAreCounted
<1>8. ClaimsAreDue'
  BY <1>1, <1>2, <1>4, <1>5 DEF ClaimsAreDue, JobAt, JobDue
<1>9. AgesAreBounded'
  BY <1>2, <1>4, SchedulerAssumption DEF AgesAreBounded, JobAt
<1>10. EnabledIsWanted'
  BY <1>5 DEF EnabledIsWanted, Known
<1>11. QED BY <1>6, <1>7, <1>8, <1>9, <1>10

\* The claim leases a task that nobody runs.
LEMMA ClaimCommitSafe ==
  ASSUME JobOwned, JobInv, NEW w \in JobWorkers, JobClaimCommit(w)
  PROVE  JobInv'
<1> USE DEF JobInv
<1> DEFINE t == jobActs[w].task
<1> DEFINE row == JobClaimed(tasks[t], jobActs[w].age)
<1> DEFINE act == [jobActs[w] EXCEPT !.step = "running"]
<1>1. /\ JobAt(w, "claiming") /\ t \in Tasks /\ JobDue(t)
      /\ jobActs[w].attempt = Counted(tasks[t].attempt)
      /\ \A v \in JobWorkers : JobAt(v, "claiming") => v = w
      /\ UNCHANGED <<edits, jobAlarms, wanted>>
  BY JobFields DEF JobClaimCommit, ClaimsAreDue, JobAt
<1>2. /\ jobActs[w].age \in Nat /\ jobActs[w].age <= JobHandlerBound /\ JobHandlerBound \in Nat
      /\ JobHandlerBound < Lease /\ Lease \in Nat
  BY <1>1, JobFields, SchedulerAssumption DEF AgesAreBounded, JobAt, JobOwned
<1>3. /\ row \in TaskRow /\ row.status = "enabled" /\ row.due = Lease - jobActs[w].age
      /\ row.attempt = Counted(tasks[t].attempt)
  <2>1. tasks[t] \in TaskRow /\ tasks[t].status = "enabled"
    BY <1>1, JobFields DEF JobDue
  <2>2. Counted(tasks[t].attempt) \in 0 .. MaxJobAttempts
    BY <1>1, CountedIs, JobFields, SchedulerAssumption
  <2>3. Lease - jobActs[w].age \in Nat /\ jobActs[w].age < Lease
    BY <1>2
  <2>4. QED BY <2>1, <2>2, <2>3 DEF JobClaimed, TaskRow
<1>4. /\ act \in JobActivation /\ act.step = "running" /\ act.task = t /\ act.age = jobActs[w].age
      /\ act.attempt = jobActs[w].attempt
  BY JobFields DEF JobActivation, JobSteps
<1>5. JobGoes(w, act) /\ tasks' = [tasks EXCEPT ![t] = row]
  BY <1>1 DEF JobClaimCommit, JobTypeOK
<1>6. tries' = [tries EXCEPT ![t] = Counted(tries[t])]
  BY <1>1 DEF JobClaimCommit, JobTypeOK
<1> HIDE DEF act, row, t
<1>7. /\ jobActs' \in [JobWorkers -> JobActivation] /\ jobActs'[w] = act
      /\ \A v \in JobWorkers : v # w => jobActs'[v] = jobActs[v]
  BY <1>4, <1>5, ActIs
<1>8. /\ tasks' \in [Tasks -> TaskRow] /\ tasks'[t] = row
      /\ \A u \in Tasks : u # t => tasks'[u] = tasks[u]
  BY <1>1, <1>3, <1>5, ScheduleRowIs
<1>9. /\ tries' \in [Tasks -> 0 .. MaxJobAttempts] /\ tries'[t] = Counted(tries[t])
      /\ \A u \in Tasks : u # t => tries'[u] = tries[u]
  <2>1. Counted(tries[t]) \in 0 .. MaxJobAttempts
    BY <1>1, CountedIs, JobFields, SchedulerAssumption
  <2>2. QED BY <1>1, <1>6, <2>1 DEF JobTypeOK
<1>10. \A v \in JobWorkers : t \in JobUntouched => ~JobHandling(v, t)
  <2>1. ASSUME NEW v \in JobWorkers, t \in JobUntouched, JobHandling(v, t) PROVE FALSE
    <3>1. tasks[t].due + jobActs[v].age > JobHandlerBound
      BY <2>1 DEF RunsAreLeased
    <3>2. jobActs[v].age <= JobHandlerBound /\ jobActs[v].age \in Nat
      BY <2>1, JobFields DEF AgesAreBounded, JobAt, JobHandling
    <3>3. tasks[t].due <= 0 /\ tasks[t].due \in Int
      BY <1>1, JobFields DEF JobDue
    <3>4. QED BY <1>2, <3>1, <3>2, <3>3
  <2>2. QED BY <2>1
<1>11. \A v \in JobWorkers, u \in JobUntouched :
         JobHandling(v, u)' => (v = w /\ u = t) \/ (v # w /\ u # t /\ JobHandling(v, u))
  BY <1>1, <1>4, <1>7, <1>10 DEF JobHandling
<1>12. JobUntouched \subseteq Tasks
  BY DEF JobUntouched
<1>13. JobTypeOK'
  BY <1>1, <1>4, <1>7, <1>8, <1>9 DEF JobTypeOK
<1>14. OneRun'
  BY <1>11 DEF OneRun
<1>15. ClaimsAreDue'
  <2>1. \A v \in JobWorkers : jobActs'[v].step # "claiming"
    BY <1>1, <1>4, <1>7 DEF JobAt
  <2>2. QED BY <2>1 DEF ClaimsAreDue, JobAt
<1>16. AgesAreBounded'
  BY <1>2, <1>4, <1>7 DEF AgesAreBounded, JobAt
<1>17. RunsAreLeased'
  <2> SUFFICES ASSUME NEW v \in JobWorkers, NEW u \in JobUntouched, JobHandling(v, u)'
               PROVE  tasks'[u].status = "enabled" /\ tasks'[u].due + jobActs'[v].age > JobHandlerBound
    BY DEF RunsAreLeased
  <2>1. CASE v = w /\ u = t
    BY <1>2, <1>3, <1>4, <1>7, <1>8, <2>1
  <2>2. CASE v # w /\ u # t /\ JobHandling(v, u)
    BY <1>7, <1>8, <1>12, <2>2 DEF RunsAreLeased
  <2>3. QED BY <1>11, <2>1, <2>2
<1>18. TriesAreCounted'
  <2>1. \A u \in JobUntouched : tasks'[u].attempt <= tries'[u]
    BY <1>1, <1>3, <1>8, <1>9, <1>12, CountedIs, JobFields, SchedulerAssumption DEF TriesAreCounted
  <2>2. t \in JobUntouched => act.attempt <= tries'[t]
    BY <1>1, <1>4, <1>9, CountedIs, JobFields, SchedulerAssumption DEF TriesAreCounted
  <2>3. \A v \in JobWorkers, u \in JobUntouched : JobHandling(v, u)' => jobActs'[v].attempt <= tries'[u]
    BY <1>7, <1>9, <1>11, <1>12, <2>2 DEF TriesAreCounted
  <2>4. QED BY <2>1, <2>3 DEF TriesAreCounted
<1>19. EnabledIsWanted'
  <2>1. \A u \in Tasks : tasks'[u].status = tasks[u].status
    BY <1>1, <1>3, <1>8 DEF JobDue
  <2>2. \A a \in Admins : edits[a] # NoEdit => edits[a].task \in Tasks
    BY SchedulerAssumption DEF EnabledIsWanted
  <2>3. QED BY <1>1, <2>1, <2>2 DEF EnabledIsWanted, Known
<1>20. QED BY <1>13, <1>14, <1>15, <1>16, <1>17, <1>18, <1>19

\* A step of one activation that ends it, or lets it run on with the row it has.
LEMMA RunsOnSafe ==
  ASSUME JobInv, NEW w \in JobWorkers, JobHandlerEnds(w) \/ JobCrash(w)
  PROVE  JobInv'
<1> USE DEF JobInv
<1>1. PICK act \in JobActivation :
        /\ JobGoes(w, act)
        /\ \/ act = JobIdle
           \/ /\ act.step \in {"returned", "threw"} /\ JobAt(w, "running")
              /\ act.task = jobActs[w].task /\ act.age = jobActs[w].age
              /\ act.attempt = jobActs[w].attempt
  <2>1. CASE JobHandlerEnds(w)
    <3>1. PICK end \in {"returned", "threw"} : JobGoes(w, [jobActs[w] EXCEPT !.step = end])
      BY <2>1 DEF JobHandlerEnds
    <3>2. [jobActs[w] EXCEPT !.step = end] \in JobActivation
      BY JobFields DEF JobActivation, JobSteps
    <3>3. QED BY <2>1, <3>1, <3>2, JobFields DEF JobHandlerEnds, JobActivation
  <2>2. CASE JobCrash(w)
    <3>1. JobIdle \in JobActivation
      BY SchedulerAssumption DEF JobIdle, JobActivation, JobSteps
    <3>2. QED BY <2>2, <3>1 DEF JobCrash
  <2>3. QED BY <2>1, <2>2
<1>2. /\ jobActs' \in [JobWorkers -> JobActivation] /\ jobActs'[w] = act
      /\ \A v \in JobWorkers : v # w => jobActs'[v] = jobActs[v]
  BY <1>1, ActIs
<1>3. UNCHANGED <<tasks, edits, jobAlarms, wanted, tries>> /\ JobIdle.step = "idle"
  BY DEF JobHandlerEnds, JobCrash, JobIdle
<1>4. JobTypeOK'
  BY <1>1, <1>2, <1>3, JobFields DEF JobTypeOK, JobAt
<1>5. \A v \in JobWorkers, u \in Tasks :
        JobHandling(v, u)' => JobHandling(v, u) /\ jobActs'[v].age = jobActs[v].age
                              /\ jobActs'[v].attempt = jobActs[v].attempt
  BY <1>1, <1>2, <1>3 DEF JobHandling, JobAt
<1>6. JobUntouched \subseteq Tasks
  BY DEF JobUntouched
<1>7. OneRun' /\ RunsAreLeased' /\ TriesAreCounted'
  BY <1>3, <1>5, <1>6 DEF OneRun, RunsAreLeased, TriesAreCounted
<1>8. ClaimsAreDue'
  BY <1>1, <1>2, <1>3 DEF ClaimsAreDue, JobAt, JobDue
<1>9. AgesAreBounded'
  BY <1>1, <1>2, <1>3 DEF AgesAreBounded, JobAt
<1>10. EnabledIsWanted'
  BY <1>3 DEF EnabledIsWanted, Known
<1>11. QED BY <1>4, <1>7, <1>8, <1>9, <1>10

\* The end of a run, or its failure to be recorded: nobody else runs the task,
\* whose tries begin anew if this one is over.
LEMMA ResultSafe ==
  ASSUME JobOwned, JobInv, NEW w \in JobWorkers, jobActs[w].step \notin {"idle", "claiming"},
         \A v \in JobWorkers : ~JobAt(v, "claiming"),
         NEW t \in Tasks, t = jobActs[w].task,
         NEW row \in TaskRow, tasks' = [tasks EXCEPT ![t] = row], row.status = tasks[t].status,
         NEW act \in JobActivation, JobGoes(w, act),
         NEW n \in 0 .. MaxJobAttempts, tries' = [tries EXCEPT ![t] = n],
         n = tries[t] \/ act = JobIdle,
         t \in JobUntouched => row.attempt <= n,
         \/ act = JobIdle
         \/ /\ act.step = "threw" /\ act.task = t /\ act.age = jobActs[w].age
            /\ act.attempt = jobActs[w].attempt
            /\ t \in JobUntouched => row.due + act.age > JobHandlerBound,
         UNCHANGED <<edits, wanted>>, jobAlarms' \in [Tasks -> 0 .. MaxAlarms]
  PROVE  JobInv'
<1> USE DEF JobInv
<1>1. /\ jobActs' \in [JobWorkers -> JobActivation] /\ jobActs'[w] = act
      /\ \A v \in JobWorkers : v # w => jobActs'[v] = jobActs[v]
  BY ActIs
<1>2. /\ tasks' \in [Tasks -> TaskRow] /\ tasks'[t] = row
      /\ \A u \in Tasks : u # t => tasks'[u] = tasks[u]
  BY ScheduleRowIs
<1>3. /\ tries' \in [Tasks -> 0 .. MaxJobAttempts] /\ tries'[t] = n
      /\ \A u \in Tasks : u # t => tries'[u] = tries[u]
  BY DEF JobTypeOK
<1>4. JobHandling(w, t) /\ JobIdle.step = "idle" /\ JobUntouched \subseteq Tasks
  BY HandlingIs DEF JobIdle, JobUntouched
<1>5. \A v \in JobWorkers, u \in JobUntouched :
        JobHandling(v, u)' =>
          /\ JobHandling(v, u) /\ jobActs'[v].age = jobActs[v].age
          /\ jobActs'[v].attempt = jobActs[v].attempt
          /\ (v = w /\ u = t /\ act # JobIdle) \/ (v # w /\ u # t)
  <2> SUFFICES ASSUME NEW v \in JobWorkers, NEW u \in JobUntouched, JobHandling(v, u)'
               PROVE  /\ JobHandling(v, u) /\ jobActs'[v].age = jobActs[v].age
                      /\ jobActs'[v].attempt = jobActs[v].attempt
                      /\ (v = w /\ u = t /\ act # JobIdle) \/ (v # w /\ u # t)
    OBVIOUS
  <2>1. CASE v = w
    BY <1>1, <1>4, <2>1 DEF JobHandling
  <2>2. CASE v # w
    <3>1. JobHandling(v, u) /\ jobActs'[v] = jobActs[v]
      BY <1>1, <2>2 DEF JobHandling
    <3>2. u # t
      BY <1>4, <2>2, <3>1 DEF OneRun
    <3>3. QED BY <2>2, <3>1, <3>2
  <2>3. QED BY <2>1, <2>2
<1>6. JobTypeOK'
  BY <1>1, <1>2, <1>3, <1>4 DEF JobTypeOK
<1>7. OneRun'
  BY <1>5 DEF OneRun
<1>8. ClaimsAreDue'
  BY <1>1, <1>4 DEF ClaimsAreDue, JobAt
<1>9. AgesAreBounded'
  BY <1>1, <1>4 DEF AgesAreBounded, JobAt
<1>10. RunsAreLeased'
  <2> SUFFICES ASSUME NEW v \in JobWorkers, NEW u \in JobUntouched, JobHandling(v, u)'
               PROVE  tasks'[u].status = "enabled" /\ tasks'[u].due + jobActs'[v].age > JobHandlerBound
    BY DEF RunsAreLeased
  <2>1. JobHandling(v, u) /\ tasks[u].status = "enabled"
        /\ tasks[u].due + jobActs[v].age > JobHandlerBound
    BY <1>5 DEF RunsAreLeased
  <2>2. CASE v = w /\ u = t /\ act # JobIdle
    BY <1>1, <1>2, <2>1, <2>2
  <2>3. CASE v # w /\ u # t
    BY <1>1, <1>2, <1>4, <2>1, <2>3
  <2>4. QED BY <1>5, <2>2, <2>3
<1>11. TriesAreCounted'
  <2>1. \A u \in JobUntouched : tasks'[u].attempt <= tries'[u]
    BY <1>2, <1>3, <1>4 DEF TriesAreCounted
  <2>2. \A v \in JobWorkers, u \in JobUntouched : JobHandling(v, u)' => jobActs'[v].attempt <= tries'[u]
    <3>1. \A v \in JobWorkers, u \in JobUntouched : JobHandling(v, u)' => tries'[u] = tries[u]
      BY <1>3, <1>4, <1>5
    <3>2. \A v \in JobWorkers, u \in JobUntouched : JobHandling(v, u) => jobActs[v].attempt <= tries[u]
      BY DEF TriesAreCounted
    <3>3. QED BY <1>5, <3>1, <3>2
  <2>3. QED BY <2>1, <2>2 DEF TriesAreCounted
<1>12. EnabledIsWanted'
  <2>1. \A u \in Tasks : tasks'[u].status = tasks[u].status
    BY <1>2
  <2>2. \A a \in Admins : edits[a] # NoEdit => edits[a].task \in Tasks
    BY SchedulerAssumption DEF EnabledIsWanted
  <2>3. QED BY <2>1, <2>2 DEF EnabledIsWanted, Known
<1>13. QED BY <1>6, <1>7, <1>8, <1>9, <1>10, <1>11, <1>12

\* A run that has returned is over, and the next one is set.
LEMMA MarkSuccessSafe ==
  ASSUME JobOwned, JobInv, NEW w \in JobWorkers, MarkScheduleSuccess(w)
  PROVE  JobInv'
<1> USE DEF JobInv
<1> DEFINE t == jobActs[w].task
<1>1. PICK run \in CronRun : tasks' = [tasks EXCEPT ![t] = Succeeded(@, run)]
  BY DEF MarkScheduleSuccess
<1>2. /\ jobActs[w].step = "returned" /\ t \in Tasks /\ JobGoes(w, JobIdle)
      /\ tries' = [tries EXCEPT ![t] = 0] /\ UNCHANGED <<edits, jobAlarms, wanted>>
      /\ \A v \in JobWorkers : ~JobAt(v, "claiming")
  BY JobFields DEF MarkScheduleSuccess, JobAt, JobAlone, JobOwned
<1> DEFINE row == Succeeded(tasks[t], run)
<1>3. /\ row \in TaskRow /\ row.attempt = 0 /\ row.status = tasks[t].status
      /\ tasks' = [tasks EXCEPT ![t] = row]
  BY <1>1, <1>2, SucceededIs, JobFields
<1>4. JobIdle \in JobActivation /\ 0 \in 0 .. MaxJobAttempts /\ row.attempt <= 0
  BY <1>3, SchedulerAssumption DEF JobIdle, JobActivation, JobSteps
<1>5. jobAlarms' \in [Tasks -> 0 .. MaxAlarms]
  BY <1>2 DEF JobTypeOK
<1>6. t = jobActs[w].task
  OBVIOUS
<1> HIDE DEF row, t, JobInv
<1>7. QED BY <1>2, <1>3, <1>4, <1>5, <1>6, ResultSafe

\* A success that cannot be recorded, or was and is not known to be, is a failure.
LEMMA MarkSuccessFailsSafe ==
  ASSUME JobOwned, JobInv, NEW w \in JobWorkers, MarkSuccessFails(w)
  PROVE  JobInv'
<1> USE DEF JobInv
<1> DEFINE t == jobActs[w].task
<1> DEFINE act == [jobActs[w] EXCEPT !.step = "threw"]
<1>1. /\ jobActs[w].step = "returned" /\ t \in Tasks /\ JobGoes(w, act)
      /\ UNCHANGED <<edits, jobAlarms, wanted, tries>>
      /\ \A v \in JobWorkers : ~JobAt(v, "claiming")
  BY JobFields DEF MarkSuccessFails, JobAt, JobAlone, JobOwned
<1>2. /\ act \in JobActivation /\ act.step = "threw" /\ act.task = t /\ act.age = jobActs[w].age
      /\ act.attempt = jobActs[w].attempt
  BY JobFields DEF JobActivation, JobSteps
<1>3. JobHandling(w, t)
  BY <1>1, HandlingIs
<1>4. /\ jobActs[w].age \in Nat /\ tries[t] \in 0 .. MaxJobAttempts /\ tries' = [tries EXCEPT ![t] = tries[t]]
      /\ JobHandlerBound < Shortest /\ JobHandlerBound \in Nat /\ Shortest \in Nat
      /\ jobAlarms' \in [Tasks -> 0 .. MaxAlarms]
  BY <1>1, JobFields, SchedulerAssumption DEF JobOwned, JobTypeOK
<1> HIDE DEF act, t
<1>5. CASE UNCHANGED tasks
  <2>1. tasks' = [tasks EXCEPT ![t] = tasks[t]] /\ tasks[t] \in TaskRow
    BY <1>1, <1>5 DEF JobTypeOK
  <2>2. t \in JobUntouched => tasks[t].due + act.age > JobHandlerBound /\ tasks[t].attempt <= tries[t]
    BY <1>2, <1>3 DEF RunsAreLeased, TriesAreCounted
  <2>3. QED BY <1>1, <1>2, <1>4, <2>1, <2>2, ResultSafe DEF t
<1>6. CASE \E run \in CronRun : tasks' = [tasks EXCEPT ![t] = Succeeded(@, run)]
  <2>1. PICK run \in CronRun : tasks' = [tasks EXCEPT ![t] = Succeeded(@, run)]
    BY <1>6
  <2> DEFINE row == Succeeded(tasks[t], run)
  <2>2. /\ row \in TaskRow /\ row.attempt = 0 /\ row.due = run /\ row.status = tasks[t].status
    BY <1>1, SucceededIs, JobFields
  <2>3. tasks' = [tasks EXCEPT ![t] = row] /\ run \in Nat /\ run >= Shortest
    BY <2>1, CronRunIs
  <2> HIDE DEF row
  <2>4. row.due + act.age > JobHandlerBound /\ row.attempt <= tries[t]
    BY <1>2, <1>4, <2>2, <2>3
  <2>5. QED BY <1>1, <1>2, <1>4, <2>2, <2>3, <2>4, ResultSafe DEF t
<1>7. QED BY <1>5, <1>6 DEF MarkSuccessFails, t

\* A failure is tried again after a while, or it is the occurrence's.
LEMMA MarkFailureSafe ==
  ASSUME JobOwned, JobInv, NEW w \in JobWorkers, MarkScheduleFailure(w)
  PROVE  JobInv'
<1> USE DEF JobInv
<1> DEFINE t == jobActs[w].task
<1>1. /\ jobActs[w].step = "threw" /\ t \in Tasks /\ JobGoes(w, JobIdle)
      /\ UNCHANGED <<edits, wanted>>
      /\ \A v \in JobWorkers : ~JobAt(v, "claiming")
  BY JobFields DEF MarkScheduleFailure, JobAt, JobAlone, JobOwned
<1>2. JobHandling(w, t)
  BY <1>1, HandlingIs
<1>3. JobIdle \in JobActivation /\ 0 \in 0 .. MaxJobAttempts
  BY SchedulerAssumption DEF JobIdle, JobActivation, JobSteps
<1>4. CASE JobExhausted(w)
  <2>1. PICK run \in CronRun : tasks' = [tasks EXCEPT ![t] = Succeeded(@, run)]
    BY <1>4 DEF MarkScheduleFailure
  <2> DEFINE row == Succeeded(tasks[t], run)
  <2>2. /\ row \in TaskRow /\ row.attempt = 0 /\ row.status = tasks[t].status
        /\ tasks' = [tasks EXCEPT ![t] = row]
    BY <1>1, <2>1, SucceededIs, JobFields
  <2>3. jobAlarms' \in [Tasks -> 0 .. MaxAlarms] /\ tries' = [tries EXCEPT ![t] = 0]
    <3>1. \/ jobAlarms' = jobAlarms
          \/ jobAlarms[t] < MaxAlarms /\ jobAlarms' = [jobAlarms EXCEPT ![t] = @ + 1]
      BY <1>4 DEF MarkScheduleFailure
    <3>2. tries' = [tries EXCEPT ![t] = 0]
      BY <1>4 DEF MarkScheduleFailure
    <3>3. jobAlarms[t] \in 0 .. MaxAlarms /\ MaxAlarms \in Nat
      BY <1>1, SchedulerAssumption DEF JobTypeOK
    <3>4. QED BY <3>1, <3>2, <3>3 DEF JobTypeOK
  <2>4. t = jobActs[w].task /\ row.attempt <= 0
    BY <2>2
  <2> HIDE DEF row, t, JobInv
  <2>5. QED BY <1>1, <1>3, <2>2, <2>3, <2>4, ResultSafe
<1>5. CASE ~JobExhausted(w)
  <2>1. /\ tasks' = [tasks EXCEPT ![t].due = JobRetryDelay, ![t].attempt = jobActs[w].attempt]
        /\ UNCHANGED <<jobAlarms, tries>>
    BY <1>5 DEF MarkScheduleFailure
  <2> DEFINE row == [tasks[t] EXCEPT !.due = JobRetryDelay, !.attempt = jobActs[w].attempt]
  <2>2. /\ row \in TaskRow /\ row.status = tasks[t].status /\ row.attempt = jobActs[w].attempt
    <3>1. tasks[t] \in TaskRow /\ jobActs[w].attempt \in 0 .. MaxJobAttempts
      BY <1>1, JobFields
    <3>2. JobRetryDelay \in Nat \cup {Unset}
      BY SchedulerAssumption
    <3>3. QED BY <3>1, <3>2 DEF TaskRow
  <2>3. tasks' = [tasks EXCEPT ![t] = row]
    BY <1>1, <2>1 DEF JobTypeOK
  <2> HIDE DEF row
  <2>4. t \in JobUntouched => row.attempt <= tries[t]
    BY <1>2, <2>2 DEF TriesAreCounted
  <2>5. tries[t] \in 0 .. MaxJobAttempts /\ tries' = [tries EXCEPT ![t] = tries[t]]
        /\ jobAlarms' \in [Tasks -> 0 .. MaxAlarms]
    BY <1>1, <2>1 DEF JobTypeOK
  <2>6. QED BY <1>1, <1>3, <2>2, <2>3, <2>4, <2>5, ResultSafe
<1>6. QED BY <1>4, <1>5

\* Time passes for the leases as it does for the activations.
LEMMA JobTickSafe ==
  ASSUME JobOwned, JobInv, JobTick
  PROVE  JobInv'
<1> USE DEF JobInv
<1>1. /\ \A w \in JobWorkers : ~JobAt(w, "idle") => jobActs[w].age < JobHandlerBound
      /\ tasks' = [t \in Tasks |-> [tasks[t] EXCEPT !.due = IF @ > 0 THEN @ - 1 ELSE @]]
      /\ jobActs' = [w \in JobWorkers |-> IF JobAt(w, "idle") THEN jobActs[w]
                                          ELSE [jobActs[w] EXCEPT !.age = @ + 1]]
      /\ UNCHANGED <<edits, jobAlarms, wanted, tries>> /\ JobHandlerBound \in Nat
  BY SchedulerAssumption DEF JobTick
<1>2. ASSUME NEW t \in Tasks
      PROVE  /\ tasks'[t] \in TaskRow /\ tasks'[t].status = tasks[t].status
             /\ tasks'[t].attempt = tasks[t].attempt
             /\ tasks'[t].due = IF tasks[t].due > 0 THEN tasks[t].due - 1 ELSE tasks[t].due
  <2>1. tasks[t] \in TaskRow /\ tasks[t].due \in Nat \cup {Unset}
    BY JobFields
  <2>2. tasks'[t] = [tasks[t] EXCEPT !.due = IF tasks[t].due > 0 THEN tasks[t].due - 1
                                             ELSE tasks[t].due]
    BY <1>1
  <2>3. (IF tasks[t].due > 0 THEN tasks[t].due - 1 ELSE tasks[t].due) \in Nat \cup {Unset}
    BY <2>1 DEF Unset
  <2>4. QED BY <2>1, <2>2, <2>3 DEF TaskRow
<1>3. ASSUME NEW w \in JobWorkers
      PROVE  /\ jobActs'[w] \in JobActivation /\ jobActs'[w].step = jobActs[w].step
             /\ jobActs'[w].task = jobActs[w].task /\ jobActs'[w].attempt = jobActs[w].attempt
             /\ jobActs[w].step # "idle" => /\ jobActs[w].age < JobHandlerBound
                                            /\ jobActs'[w].age = jobActs[w].age + 1
  BY <1>1, JobFields DEF JobActivation, JobAt
<1>4. JobTypeOK'
  <2>1. tasks' \in [Tasks -> TaskRow]
    BY <1>1, <1>2
  <2>2. jobActs' \in [JobWorkers -> JobActivation]
    BY <1>1, <1>3
  <2>3. QED BY <1>1, <1>3, <2>1, <2>2 DEF JobTypeOK
<1>5. OneRun' /\ AgesAreBounded'
  BY <1>1, <1>3, JobFields DEF OneRun, AgesAreBounded, JobHandling, JobAt
<1>6. ClaimsAreDue'
  <2>1. \A t \in Tasks : JobDue(t) => JobDue(t)'
    BY <1>2, JobFields DEF JobDue
  <2>2. \A w \in JobWorkers : JobAt(w, "claiming") <=> JobAt(w, "claiming")'
    BY <1>3 DEF JobAt
  <2>3. \A w \in JobWorkers : JobAt(w, "claiming") => jobActs[w].task \in Tasks
    BY JobFields DEF JobAt
  <2>4. QED BY <1>2, <1>3, <2>1, <2>2, <2>3 DEF ClaimsAreDue, Counted
<1>7. RunsAreLeased'
  <2> SUFFICES ASSUME NEW w \in JobWorkers, NEW t \in JobUntouched, JobHandling(w, t)'
               PROVE  tasks'[t].status = "enabled" /\ tasks'[t].due + jobActs'[w].age > JobHandlerBound
    BY DEF RunsAreLeased
  <2>1. JobHandling(w, t) /\ t \in Tasks /\ jobActs[w].step # "idle"
    BY <1>3 DEF JobHandling, JobUntouched
  <2>2. tasks[t].status = "enabled" /\ tasks[t].due + jobActs[w].age > JobHandlerBound
    BY <2>1 DEF RunsAreLeased
  <2>3. tasks[t].due \in Int /\ jobActs[w].age \in Nat
    BY <2>1, JobFields
  <2>4. tasks'[t].status = "enabled"
    BY <1>2, <2>1, <2>2
  <2>5. jobActs'[w].age = jobActs[w].age + 1 /\ jobActs[w].age < JobHandlerBound
    BY <1>3, <2>1
  <2>6. tasks'[t].due = tasks[t].due - 1
    BY <1>1, <1>2, <2>1, <2>2, <2>3, <2>5
  <2>7. QED BY <1>1, <2>2, <2>3, <2>4, <2>5, <2>6
<1>8. TriesAreCounted'
  BY <1>1, <1>2, <1>3 DEF TriesAreCounted, JobHandling, JobUntouched
<1>9. EnabledIsWanted'
  <2>1. \A a \in Admins : edits[a] # NoEdit => edits[a].task \in Tasks
    BY SchedulerAssumption DEF EnabledIsWanted
  <2>2. QED BY <1>1, <1>2, <2>1 DEF EnabledIsWanted, Known
<1>10. QED BY <1>4, <1>5, <1>6, <1>7, <1>8, <1>9

LEMMA JobStarts == JobInit => JobInv
<1> SUFFICES ASSUME JobInit PROVE JobInv
  OBVIOUS
<1>1. \A w \in JobWorkers : jobActs[w] = JobIdle
  BY DEF JobInit
<1>2. JobTypeOK
  <2>1. JobNoRow \in TaskRow /\ JobIdle \in JobActivation /\ NoEdit \in Edit
    BY SchedulerAssumption
    DEF JobNoRow, TaskRow, Unset, JobIdle, JobActivation, JobSteps, NoEdit, Edit
  <2>2. 0 \in 0 .. MaxJobAttempts /\ 0 \in 0 .. MaxAlarms
    BY SchedulerAssumption
  <2>3. QED BY <1>1, <2>1, <2>2 DEF JobInit, JobTypeOK, JobIdle
<1>3. \A t \in Tasks : tasks[t].status = "none" /\ tasks[t].attempt = 0 /\ tries[t] = 0
  BY DEF JobInit, JobNoRow
<1>4. \A a \in Admins : edits[a] = NoEdit
  BY DEF JobInit
<1>5. QED BY <1>1, <1>2, <1>3, <1>4
  DEF JobInv, OneRun, ClaimsAreDue, AgesAreBounded, RunsAreLeased, TriesAreCounted,
      EnabledIsWanted, JobHandling, JobAt, JobIdle, JobUntouched

LEMMA JobStep ==
  ASSUME JobOwned, OneAdministrator
  PROVE  JobInv /\ [JobNext]_jobVars => JobInv'
<1> SUFFICES ASSUME JobInv, [JobNext]_jobVars PROVE JobInv'
  OBVIOUS
<1>1. CASE UNCHANGED jobVars
  BY <1>1
  DEF jobVars, JobInv, JobTypeOK, OneRun, ClaimsAreDue, AgesAreBounded, RunsAreLeased,
      TriesAreCounted, EnabledIsWanted, JobHandling, JobAt, JobDue, Known
<1>2. CASE \E t \in Tasks : Register(t) \/ (\E on \in BOOLEAN : CreateScheduledTask(t, on))
  BY <1>2, RegisterSafe, CreateSafe
<1>3. CASE \E a \in Admins : Administer(a)
  BY <1>3, UpdateReadSafe, SetStatusSafe, UpdateSafe DEF Administer
<1>4. CASE \E w \in JobWorkers : JobProcess(w) \/ JobCrash(w)
  BY <1>4, ClaimScanSafe, ClaimCommitSafe, RunsOnSafe, MarkSuccessSafe, MarkSuccessFailsSafe,
     MarkFailureSafe
  DEF JobProcess
<1>5. CASE JobTick
  BY <1>5, JobTickSafe
<1>6. QED BY <1>1, <1>2, <1>3, <1>4, <1>5 DEF JobNext

\* An alarm is raised by an activation whose claim was the last that was allowed.
LEMMA AlarmStep ==
  ASSUME JobInv, [JobNext]_jobVars, NEW t \in JobUntouched, jobAlarms'[t] > jobAlarms[t]
  PROVE  tries[t] = MaxJobAttempts
<1> USE DEF JobInv
<1>1. t \in Tasks /\ jobAlarms[t] \in Nat
  BY DEF JobTypeOK, JobUntouched
<1>2. jobAlarms' # jobAlarms
  BY <1>1
<1>3. PICK w \in JobWorkers : MarkScheduleFailure(w)
  BY <1>2
  DEF JobNext, jobVars, Register, CreateScheduledTask, Administer, UpdateRead,
      SetScheduledTaskStatus, UpdateCommit, JobProcess, JobClaimScan, JobClaimCommit,
      JobHandlerEnds, MarkScheduleSuccess, MarkSuccessFails, JobCrash, JobTick
<1>4. JobExhausted(w)
  BY <1>2, <1>3 DEF MarkScheduleFailure
<1>5. t = jobActs[w].task
  <2> DEFINE u == jobActs[w].task
  <2>1. jobAlarms' = [jobAlarms EXCEPT ![u] = @ + 1]
    BY <1>2, <1>3, <1>4 DEF MarkScheduleFailure
  <2>2. t # u => jobAlarms'[t] = jobAlarms[t]
    BY <1>1, <2>1 DEF JobTypeOK
  <2>3. QED BY <1>1, <2>2
<1>6. JobHandling(w, t)
  BY <1>1, <1>3, <1>5, HandlingIs DEF MarkScheduleFailure, JobAt
<1>7. jobActs[w].attempt <= tries[t] /\ jobActs[w].attempt >= MaxJobAttempts
  BY <1>4, <1>6 DEF TriesAreCounted, JobExhausted
<1>8. QED BY <1>1, <1>7, JobFields

\* A task that starts is enabled.
LEMMA StartStep ==
  ASSUME JobInv, [JobNext]_jobVars, NEW w \in JobWorkers, JobAt(w, "claiming"),
         jobActs'[w].step = "running"
  PROVE  jobActs[w].task \in wanted \cup Catalogue
<1>1. JobDue(jobActs[w].task) /\ jobActs[w].task \in Tasks
  BY JobFields DEF JobInv, ClaimsAreDue, JobAt
<1>2. QED BY <1>1 DEF JobInv, EnabledIsWanted, JobDue

\* With serial transactions, results recorded within the lease and the period,
\* and one administrator: no task is run by two activations, no alarm is raised
\* before the last attempt, and what was disabled does not start.
THEOREM RunsAreEarnedHolds == ASSUME JobOwned, OneAdministrator PROVE JobSpec => RunsAreEarned
<1>1. JobInv /\ [JobNext]_jobVars => JobInv'
  BY JobStep
<1>2. JobInv => JobTypeOK /\ OneRun
  BY DEF JobInv
<1>3. JobInv /\ [JobNext]_jobVars
        => [\A t \in JobUntouched : jobAlarms'[t] > jobAlarms[t] => tries[t] = MaxJobAttempts]_jobVars
  BY AlarmStep
<1>4. JobInv /\ [JobNext]_jobVars
        => [\A w \in JobWorkers : JobAt(w, "claiming") /\ jobActs'[w].step = "running"
              => jobActs[w].task \in wanted \cup Catalogue]_jobVars
  BY StartStep
<1>5. QED BY <1>1, <1>2, <1>3, <1>4, JobStarts, PTL
  DEF JobSpec, RunsAreEarned, AlarmsAreEarned, DisabledNeverStarts

-----------------------------------------------------------------------------
(* The saves of the backend core: CorePersistence.  What follows supposes that *)
(* one save at a time waits for pendingSave.                                *)

SaveRuns(r) ==
  saves[r].step \in {"connecting", "scope", "delete", "insert", "event", "end", "release"}
Client(r) == <<r, "outer">>

\* One save is under way; the one that waits does so for it, and is waited for
\* by the next.
SavesAreOrdered ==
  /\ \A p, q \in Requests : SaveRuns(p) /\ SaveRuns(q) => p = q
  /\ \A p, q \in Requests : SaveAt(p, "queued") /\ SaveAt(q, "queued") => p = q
  /\ \A p, q \in Requests : SaveRuns(p) /\ SaveAt(q, "queued") => saves[q].after = p
  /\ \A p \in Requests : SaveRuns(p) =>
       pendingSave = p \/ (pendingSave \in Background /\ SaveAt(pendingSave, "queued"))
  /\ \A q \in Requests : SaveAt(q, "queued") =>
       IF q \in Background THEN pendingSave = q ELSE saves[q].after = pendingSave
  /\ pendingSave \in Requests => saves[pendingSave].step \notin {"idle", "gone"}

\* Where a save is in its calls.
Nested(r, save) ==
  /\ save.step \in {"queued", "connecting"} => save.ok /\ save.own = {} /\ save.at = 1
  /\ save.step = "connecting" => save.level = "outer"
  /\ save.step \in {"scope", "delete", "insert", "event", "end", "release"} => save.own = {"outer"}
  /\ save.step \in {"scope", "delete", "insert", "event"} => save.ok
  /\ save.step \in {"delete", "insert"} => save.level = "inner"
  /\ save.step \in {"delete", "insert"} \/ (save.step = "end" /\ save.ok /\ save.level = "inner")
       => save.at <= Len(ScopesOf[r])
  /\ save.step = "event" \/ (save.step = "end" /\ save.ok /\ save.level = "outer")
       => save.at = Len(ScopesOf[r]) + 1
  /\ save.step \in {"event", "release"} => save.level = "outer"
  /\ save.step = "event" => r \in Events

SavesAreNested == \A r \in Requests : Nested(r, saves[r])

\* The one transaction that is open is that of the save under way.
ClientIsTheSavers ==
  /\ (\A r \in Requests : ~SaveRuns(r)) => activeClient = Pool
  /\ \A c \in Connections : tx[c].open => activeClient = c
  /\ \A r \in Requests : SaveRuns(r) =>
       /\ activeClient = IF SaveAt(r, "connecting") THEN Pool ELSE Client(r)
       /\ saves[r].ok /\ saves[r].step \notin {"connecting", "release"}
            => tx[Client(r)].open /\ ~tx[Client(r)].failed
       /\ SaveAt(r, "release") => ~tx[Client(r)].open

\* The memory holds the tables, and the changes of the requests that are not
\* answered yet.
MemoryIsAhead ==
  /\ \A s \in Scopes : tables[s] \subseteq memory[s]
  /\ \A r \in Requests, s \in Scopes :
       (SaveAt(r, "queued") \/ SaveRuns(r)) /\ Holds(r, s) => r \in memory[s]

ToInsert(r, s) == IF SaveAt(r, "insert") /\ s = Scope(r) THEN saves[r].rows ELSE {}

\* A save that goes well writes again what it has deleted, and its request's
\* change into each scope, and the event last.
SaveIsWhole(r) ==
  LET save == saves[r]
      t == tx[Client(r)]
  IN /\ \A s \in Scopes :
          /\ tables[s] \subseteq (tables[s] \ t.deleted[s]) \cup t.inserted[s] \cup ToInsert(r, s)
          /\ t.inserted[s] \cup ToInsert(r, s) \subseteq memory[s]
     /\ \A i \in 1 .. Len(ScopesOf[r]) :
          i < save.at \/ (i = save.at /\ save.step \in {"insert", "end"})
            => r \in t.inserted[ScopesOf[r][i]] \cup ToInsert(r, ScopesOf[r][i])
     /\ t.events \subseteq {r} \cap Events
     /\ save.step \in {"event", "end"} /\ save.level = "outer" /\ r \in Events
          => save.step = "event" \/ r \in t.events
     /\ save.step # "end" \/ save.level # "outer" => t.events = {}

SavesAreWhole ==
  \A r \in Requests :
    /\ saves[r].step \in {"scope", "delete", "insert", "event", "end"} /\ saves[r].ok => SaveIsWhole(r)
    /\ saves[r].step = "release" /\ saves[r].ok => Committed(r) /\ (r \in Events => r \in outbox)

\* After a background save has failed every save that waits is rejected.
FailureStops ==
  (\E b \in Background : SaveAt(b, "failed")) =>
    /\ \A r \in Requests : ~SaveRuns(r)
    /\ pendingSave \in Background /\ saves[pendingSave].step \in {"queued", "failed"}
    /\ \A q \in Requests : SaveAt(q, "queued") => Rejected(saves[q].after)

SaveInv ==
  /\ SaveTypeOK /\ AcknowledgedIsDurable /\ EventImpliesChange
  /\ SavesAreOrdered /\ SavesAreNested /\ ClientIsTheSavers /\ MemoryIsAhead /\ SavesAreWhole
  /\ FailureStops

\* What the types say of one save, one table and one transaction.
LEMMA SaveFields ==
  ASSUME SaveTypeOK
  PROVE  /\ \A r \in Requests : /\ saves[r] \in Save
                                /\ saves[r].step \in SaveSteps /\ saves[r].level \in Levels
                                /\ saves[r].own \subseteq Levels /\ saves[r].at \in Nat
                                /\ saves[r].at \in 1 .. Len(ScopesOf[r]) + 1
                                /\ saves[r].rows \subseteq Requests /\ saves[r].ok \in BOOLEAN
                                /\ saves[r].after \in Requests \cup {NoRequest}
                                /\ ScopesOf[r] \in Seq(Scopes) /\ Len(ScopesOf[r]) \in Nat
                                /\ \A i \in 1 .. Len(ScopesOf[r]) : ScopesOf[r][i] \in Scopes
                                /\ Client(r) \in Connections
         /\ \A s \in Scopes : memory[s] \subseteq Requests /\ tables[s] \subseteq Requests
         /\ \A c \in Connections : /\ tx[c] \in Transaction
                                   /\ tx[c].open \in BOOLEAN /\ tx[c].failed \in BOOLEAN
                                   /\ tx[c].deleted \in Store /\ tx[c].inserted \in Store
                                   /\ tx[c].events \subseteq Requests
         /\ Pool \notin Connections /\ NoRequest \notin Requests
<1>1. \A r \in Requests : saves[r] \in Save /\ saves[r].at \in 1 .. Len(ScopesOf[r]) + 1
  BY DEF SaveTypeOK
<1>2. \A r \in Requests : ScopesOf[r] \in Seq(Scopes)
  BY PersistenceAssumption
<1>3. \A r \in Requests : Len(ScopesOf[r]) \in Nat
                          /\ \A i \in 1 .. Len(ScopesOf[r]) : ScopesOf[r][i] \in Scopes
  BY <1>2
<1>4. \A r \in Requests : Client(r) \in Connections
  BY DEF Client, Connections, Levels
<1>5. \A s \in Scopes : memory[s] \subseteq Requests /\ tables[s] \subseteq Requests
  BY DEF SaveTypeOK, Store
<1>6. \A c \in Connections : tx[c] \in Transaction
  BY DEF SaveTypeOK
<1>7. Pool \notin Connections /\ NoRequest \notin Requests
  BY PersistenceAssumption DEF Connections, Levels
<1>8. \A r \in Requests : /\ saves[r].step \in SaveSteps /\ saves[r].level \in Levels
                          /\ saves[r].own \subseteq Levels /\ saves[r].at \in Nat
                          /\ saves[r].rows \subseteq Requests /\ saves[r].ok \in BOOLEAN
                          /\ saves[r].after \in Requests \cup {NoRequest}
  BY <1>1 DEF Save
<1>9. \A c \in Connections : /\ tx[c].open \in BOOLEAN /\ tx[c].failed \in BOOLEAN
                             /\ tx[c].deleted \in Store /\ tx[c].inserted \in Store
                             /\ tx[c].events \subseteq Requests
  BY <1>6 DEF Transaction
<1>10. QED BY <1>1, <1>2, <1>3, <1>4, <1>5, <1>6, <1>7, <1>8, <1>9

\* What one save becomes.
LEMMA SaveGoesTo ==
  ASSUME SaveTypeOK, NEW r \in Requests, NEW to \in Save, SaveGoes(r, to)
  PROVE  /\ saves' \in [Requests -> Save] /\ saves'[r] = to
         /\ \A q \in Requests : q # r => saves'[q] = saves[q]
BY DEF SaveTypeOK, SaveGoes

\* Committed changes stay while tables only grow.
LEMMA CommittedStays ==
  ASSUME SaveTypeOK, \A s \in Scopes : tables[s] \subseteq tables'[s], NEW r \in Requests, Committed(r)
  PROVE  Committed(r)'
BY SaveFields DEF Committed

\* A step of the save under way: the order of the saves is not touched, and what
\* remains to be shown concerns the save and its transaction.
LEMMA SaveRunSafe ==
  ASSUME SaveInv, NEW r \in Requests, SaveRuns(r), NEW to \in Save, SaveGoes(r, to),
         to.step \in {"connecting", "scope", "delete", "insert", "event", "end", "release",
                      "saved", "failed"},
         UNCHANGED <<memory, pendingSave>>, SaveTypeOK', Nested(r, to), ClientIsTheSavers',
         \A s \in Scopes : tables[s] \subseteq tables'[s] /\ tables'[s] \subseteq memory[s],
         outbox \subseteq outbox', outbox' \subseteq outbox \cup {r},
         r \in outbox' \ outbox => Committed(r)',
         to.step \in {"release", "saved"} /\ to.ok => Committed(r)' /\ (r \in Events => r \in outbox'),
         to.step = "saved" => to.ok,
         to.step \in {"scope", "delete", "insert", "event", "end"} /\ to.ok => SaveIsWhole(r)'
  PROVE  SaveInv'
<1> USE DEF SaveInv
<1>1. /\ saves' \in [Requests -> Save] /\ saves'[r] = to
      /\ \A q \in Requests : q # r => saves'[q] = saves[q]
  BY SaveGoesTo
<1>2. \A q \in Requests : SaveRuns(q) => q = r
  BY DEF SavesAreOrdered
<1>3. \A q \in Requests : SaveRuns(q)' => SaveRuns(q)
  BY <1>1 DEF SaveRuns
<1>4. saves[r].step # "queued" /\ saves'[r].step # "queued"
  BY <1>1 DEF SaveRuns
<1>5. \A q \in Requests : SaveAt(q, "queued")' <=> SaveAt(q, "queued")
  BY <1>1, <1>4 DEF SaveAt
<1>6. AcknowledgedIsDurable'
  <2> SUFFICES ASSUME NEW q \in Requests, SaveAt(q, "saved")'
               PROVE  Committed(q)' /\ (q \in Events => q \in outbox')
    BY DEF AcknowledgedIsDurable
  <2>1. CASE q = r
    BY <1>1, <2>1 DEF SaveAt
  <2>2. CASE q # r
    BY <1>1, <2>2, CommittedStays DEF SaveAt, AcknowledgedIsDurable
  <2>3. QED BY <2>1, <2>2
<1>7. EventImpliesChange'
  <2>1. \A q \in outbox : Committed(q)'
    BY CommittedStays DEF EventImpliesChange, SaveTypeOK
  <2>2. QED BY <2>1 DEF EventImpliesChange
<1>8. SavesAreOrdered'
  <2>1. pendingSave \in Requests => saves'[pendingSave].step \notin {"idle", "gone"}
    BY <1>1 DEF SavesAreOrdered
  <2>2. \A q \in Requests : SaveAt(q, "queued") => saves'[q].after = saves[q].after
    BY <1>1, <1>4 DEF SaveAt
  <2>3. \A p \in Requests : SaveRuns(p)' =>
          pendingSave = p \/ (pendingSave \in Background /\ SaveAt(pendingSave, "queued")')
    BY <1>3, <1>5, PersistenceAssumption DEF SavesAreOrdered
  <2>4. QED BY <1>2, <1>3, <1>5, <2>1, <2>2, <2>3 DEF SavesAreOrdered
<1>9. SavesAreNested'
  BY <1>1 DEF SavesAreNested
<1>10. MemoryIsAhead'
  <2>1. \A q \in Requests : (SaveAt(q, "queued") \/ SaveRuns(q))' => SaveAt(q, "queued") \/ SaveRuns(q)
    BY <1>3, <1>5
  <2>2. QED BY <2>1 DEF MemoryIsAhead, Holds
<1>11. SavesAreWhole'
  <2>1. \A q \in Requests : q # r => saves'[q].step \notin {"scope", "delete", "insert", "event", "end", "release"}
    BY <1>1, <1>2 DEF SaveRuns
  <2>2. QED BY <1>1, <2>1 DEF SavesAreWhole
<1>12. FailureStops'
  <2> SUFFICES ASSUME NEW b \in Background, SaveAt(b, "failed")'
               PROVE  /\ \A q \in Requests : ~SaveRuns(q)'
                      /\ pendingSave \in Background /\ saves'[pendingSave].step \in {"queued", "failed"}
                      /\ \A q \in Requests : SaveAt(q, "queued") =>
                           saves[q].after \in Background /\ saves'[saves[q].after].step = "failed"
    <3>1. \A q \in Requests : SaveAt(q, "queued") => saves'[q] = saves[q]
      BY <1>1, <1>4 DEF SaveAt
    <3>2. QED BY <1>5, <3>1 DEF FailureStops, Rejected, SaveAt
  <2>1. b = r
    <3>1. SaveAt(b, "failed") => FALSE
      BY DEF FailureStops
    <3>2. QED BY <1>1, <3>1, PersistenceAssumption DEF SaveAt
  <2>2. \A q \in Requests : ~SaveRuns(q)'
    BY <1>1, <1>2, <1>3, <2>1 DEF SaveRuns, SaveAt
  <2>3. pendingSave \in Background /\ saves'[pendingSave].step \in {"queued", "failed"}
    <3>1. pendingSave = r \/ (pendingSave \in Background /\ SaveAt(pendingSave, "queued"))
      BY DEF SavesAreOrdered
    <3>2. QED BY <1>5, <2>1, <3>1, PersistenceAssumption DEF SaveAt
  <2>4. \A q \in Requests : SaveAt(q, "queued") => saves[q].after = r
    BY DEF SavesAreOrdered
  <2>5. r \in Background /\ saves'[r].step = "failed"
    BY <2>1 DEF SaveAt
  <2>6. QED BY <2>2, <2>3, <2>4, <2>5
<1>13. QED BY <1>6, <1>7, <1>8, <1>9, <1>10, <1>11, <1>12

\* A save after some of its fields have changed.
Moved(save, step, level, own, at, list, ok) ==
  [step |-> step, after |-> save.after, level |-> level, own |-> own, at |-> at,
   rows |-> list, ok |-> ok]

\* What one transaction becomes.
LEMMA TxGoesTo ==
  ASSUME SaveTypeOK, NEW c \in Connections, NEW t \in Transaction, tx' = [tx EXCEPT ![c] = t]
  PROVE  /\ tx' \in [Connections -> Transaction] /\ tx'[c] = t
         /\ \A d \in Connections : d # c => tx'[d] = tx[d]
BY DEF SaveTypeOK

\* The save under way is alone with its client: statements go to its
\* transaction, which waits for nobody.
LEMMA SaverIsAlone ==
  ASSUME SaveInv, NEW r \in Requests, SaveRuns(r), saves[r].step # "connecting"
  PROVE  /\ activeClient = Client(r) /\ activeClient # Pool
         /\ \A c \in Connections : c # Client(r) => ~tx[c].open
         /\ InTransaction <=> tx[Client(r)].open
         /\ saves[r].ok /\ saves[r].step # "release" => InTransaction /\ ~Refused
         /\ saves[r].own = {"outer"}
         /\ Owns(r) <=> saves[r].level = "outer"
<1> USE DEF SaveInv
<1>1. activeClient = Client(r) /\ activeClient \in Connections /\ activeClient # Pool
  BY SaveFields DEF ClientIsTheSavers, SaveAt
<1>2. saves[r].own = {"outer"}
  BY DEF SavesAreNested, Nested, SaveRuns
<1>3. InTransaction <=> tx[Client(r)].open
  BY <1>1 DEF InTransaction
<1>4. \A c \in Connections : c # Client(r) => ~tx[c].open
  BY <1>1 DEF ClientIsTheSavers
<1>5. saves[r].ok /\ saves[r].step # "release" => InTransaction /\ ~Refused
  BY <1>1, <1>3 DEF ClientIsTheSavers, Refused
<1>6. QED BY <1>1, <1>2, <1>3, <1>4, <1>5 DEF Owns

LEMMA EmptyIsStore ==
  /\ Empty \in Store /\ \A s \in Scopes : Empty[s] = {}
  /\ Closed \in Transaction /\ ~Closed.open /\ ~Closed.failed /\ Closed.events = {}
  /\ Begun \in Transaction /\ Begun.open /\ ~Begun.failed /\ Begun.events = {}
  /\ Begun.deleted = Empty /\ Begun.inserted = Empty
<1>1. Empty \in Store /\ \A s \in Scopes : Empty[s] = {}
  BY DEF Empty, Store
<1>2. QED BY <1>1 DEF Closed, Begun, Transaction

\* The outer transaction begins, and it is empty.
LEMMA ConnectedSaves ==
  ASSUME SaveInv, NEW r \in Requests, Connected(r)
  PROVE  SaveInv'
<1> USE DEF SaveInv
<1>1. /\ saves[r].step = "connecting" /\ saves[r].level = "outer" /\ saves[r].ok
      /\ saves[r].own = {} /\ saves[r].at = 1 /\ SaveRuns(r) /\ activeClient = Pool
  BY DEF Connected, SaveAt, SaveRuns, SavesAreNested, Nested, ClientIsTheSavers
<1>2. /\ activeClient' = Client(r) /\ tx' = [tx EXCEPT ![Client(r)] = Begun]
      /\ SaveGoes(r, [saves[r] EXCEPT !.own = @ \cup {"outer"}, !.step = "scope"])
      /\ UNCHANGED <<memory, tables, outbox, pendingSave, budget>>
  BY <1>1 DEF Connected, Client
<1>3. PICK to \in Save :
        /\ SaveGoes(r, to) /\ to.step = "scope" /\ to.own = {"outer"} /\ to.level = "outer" /\ to.ok
        /\ to.at = 1 /\ to.rows = saves[r].rows
  <2>1. PICK u : SaveGoes(r, u) /\ u = [saves[r] EXCEPT !.own = @ \cup {"outer"}, !.step = "scope"]
    BY <1>2
  <2>2. saves[r] \in Save /\ saves[r].rows \subseteq Requests
    BY SaveFields
  <2>3. u = Moved(saves[r], "scope", "outer", {"outer"}, 1, saves[r].rows, TRUE)
    BY <1>1, <2>1, <2>2 DEF Save, Moved
  <2>4. "scope" \in SaveSteps /\ "outer" \in Levels /\ {"outer"} \subseteq Levels
    BY DEF SaveSteps, Levels
  <2>5. /\ u \in Save /\ u.step = "scope" /\ u.level = "outer" /\ u.own = {"outer"} /\ u.at = 1
        /\ u.rows = saves[r].rows /\ u.ok = TRUE
    BY <2>2, <2>3, <2>4, SaveFields DEF Moved, Save
  <2>6. QED BY <2>1, <2>5
<1>4. /\ saves' \in [Requests -> Save] /\ saves'[r] = to
      /\ \A q \in Requests : q # r => saves'[q] = saves[q]
  BY <1>2, <1>3, SaveGoesTo
<1>5. /\ tx' \in [Connections -> Transaction] /\ tx'[Client(r)] = Begun
      /\ \A d \in Connections : d # Client(r) => tx'[d] = tx[d]
  BY <1>2, SaveFields, TxGoesTo, EmptyIsStore
<1>6. SaveTypeOK'
  <2>1. \A q \in Requests : saves'[q].at \in 1 .. Len(ScopesOf[q]) + 1
    BY <1>1, <1>3, <1>4, SaveFields
  <2>2. Client(r) \in Connections
    BY SaveFields
  <2>3. QED BY <1>2, <1>4, <1>5, <2>1, <2>2 DEF SaveTypeOK
<1>7. ClientIsTheSavers'
  <2>1. \A d \in Connections : ~tx[d].open
    BY <1>1, SaveFields DEF ClientIsTheSavers
  <2>2. \A q \in Requests : SaveRuns(q)' => q = r
    BY <1>1, <1>4 DEF SaveRuns, SavesAreOrdered
  <2>3. SaveRuns(r)'
    BY <1>3, <1>4 DEF SaveRuns
  <2>4. QED BY <1>2, <1>3, <1>4, <1>5, <2>1, <2>2, <2>3, EmptyIsStore
    DEF ClientIsTheSavers, SaveAt
<1>8. SaveIsWhole(r)'
  BY <1>2, <1>3, <1>4, <1>5, EmptyIsStore, SaveFields DEF SaveIsWhole, ToInsert, SaveAt
<1>9. Nested(r, to)
  BY <1>3 DEF Nested
<1>10. \A s \in Scopes : tables[s] \subseteq tables'[s] /\ tables'[s] \subseteq memory[s]
  BY <1>2 DEF MemoryIsAhead
<1>11. QED BY <1>1, <1>2, <1>3, <1>6, <1>7, <1>8, <1>9, <1>10, SaveRunSafe

\* The next scope is saved in the transaction there is.
LEMMA NextScopeSaves ==
  ASSUME SaveInv, NEW r \in Requests, NextScope(r)
  PROVE  SaveInv'
<1> USE DEF SaveInv
<1>1. /\ saves[r].step = "scope" /\ saves[r].ok /\ SaveRuns(r) /\ saves[r].own = {"outer"}
      /\ UNCHANGED <<memory, tables, outbox, tx, pendingSave, activeClient, budget>>
  BY DEF NextScope, Database, SaveAt, SaveRuns, SavesAreNested, Nested
<1>2. activeClient # Pool
  BY <1>1, SaverIsAlone
<1>3. PICK to \in Save :
        /\ SaveGoes(r, to) /\ to.own = saves[r].own /\ to.ok /\ to.at = saves[r].at
        /\ \/ to.step = "delete" /\ to.level = "inner" /\ to.at <= Len(ScopesOf[r])
           \/ /\ to.step = IF r \in Events THEN "event" ELSE "end"
              /\ to.level = "outer" /\ ~(to.at <= Len(ScopesOf[r]))
  <2>0. saves[r] \in Save /\ saves[r].rows \subseteq Requests /\ saves[r].at \in Nat
    BY SaveFields
  <2>1. CASE saves[r].at <= Len(ScopesOf[r])
    <3>1. PICK u : SaveGoes(r, u) /\ u = [saves[r] EXCEPT !.step = "delete", !.level = "inner"]
      BY <1>2, <2>1 DEF NextScope, Enter
    <3>2. u = Moved(saves[r], "delete", "inner", {"outer"}, saves[r].at, saves[r].rows, TRUE)
      BY <1>1, <2>0, <3>1 DEF Save, Moved
    <3>3. "delete" \in SaveSteps /\ "inner" \in Levels /\ {"outer"} \subseteq Levels
      BY DEF SaveSteps, Levels
    <3>4. /\ u \in Save /\ u.step = "delete" /\ u.level = "inner" /\ u.own = {"outer"}
          /\ u.at = saves[r].at /\ u.ok = TRUE
      BY <2>0, <3>2, <3>3, SaveFields DEF Moved, Save
    <3>5. QED BY <1>1, <2>1, <3>1, <3>4
  <2>2. CASE ~(saves[r].at <= Len(ScopesOf[r]))
    <3> DEFINE step == IF r \in Events THEN "event" ELSE "end"
    <3>1. PICK u : SaveGoes(r, u) /\ u = [saves[r] EXCEPT !.level = "outer", !.step = step]
      BY <2>2 DEF NextScope, Emits
    <3>2. u = Moved(saves[r], step, "outer", {"outer"}, saves[r].at, saves[r].rows, TRUE)
      BY <1>1, <2>0, <3>1 DEF Save, Moved
    <3>3. step \in SaveSteps /\ "outer" \in Levels /\ {"outer"} \subseteq Levels
      BY DEF SaveSteps, Levels
    <3> HIDE DEF step
    <3>4. /\ u \in Save /\ u.step = step /\ u.level = "outer" /\ u.own = {"outer"}
          /\ u.at = saves[r].at /\ u.ok = TRUE
      BY <2>0, <3>2, <3>3, SaveFields DEF Moved, Save
    <3>5. QED BY <1>1, <2>2, <3>1, <3>4 DEF step
  <2>3. QED BY <2>1, <2>2
<1>4. /\ saves' \in [Requests -> Save] /\ saves'[r] = to
      /\ \A q \in Requests : q # r => saves'[q] = saves[q]
  BY <1>3, SaveGoesTo
<1>5. to.step \in {"delete", "event", "end"}
  BY <1>3
<1>6. SaveTypeOK'
  BY <1>1, <1>3, <1>4, SaveFields DEF SaveTypeOK
<1>7. ClientIsTheSavers'
  <2>1. \A q \in Requests : SaveRuns(q)' <=> SaveRuns(q)
    BY <1>1, <1>4, <1>5 DEF SaveRuns
  <2>2. \A q \in Requests : SaveRuns(q) => q = r
    BY <1>1 DEF SavesAreOrdered
  <2>3. QED BY <1>1, <1>3, <1>4, <1>5, <2>1, <2>2 DEF ClientIsTheSavers, SaveAt
<1>8. SaveIsWhole(r)'
  <2>1. SaveIsWhole(r)
    BY <1>1 DEF SavesAreWhole
  <2>2. \A s : ToInsert(r, s) = {} /\ ToInsert(r, s)' = {}
    BY <1>1, <1>4, <1>5 DEF ToInsert, SaveAt
  <2>3. \A i \in 1 .. Len(ScopesOf[r]) :
          i < to.at \/ (i = to.at /\ to.step \in {"insert", "end"}) => i < saves[r].at
    BY <1>3, SaveFields
  <2>4. QED BY <1>1, <1>3, <1>4, <2>1, <2>2, <2>3 DEF SaveIsWhole
<1>9. Nested(r, to)
  <2>1. to.at \in 1 .. Len(ScopesOf[r]) + 1 /\ Len(ScopesOf[r]) \in Nat
    BY <1>3, SaveFields
  <2>2. QED BY <1>1, <1>3, <1>5, <2>1 DEF Nested
<1>10. \A s \in Scopes : tables[s] \subseteq tables'[s] /\ tables'[s] \subseteq memory[s]
  BY <1>1 DEF MemoryIsAhead
<1>11. QED BY <1>1, <1>3, <1>5, <1>6, <1>7, <1>8, <1>9, <1>10, SaveRunSafe

\* A statement of the save under way, or a call that ends inside its
\* transaction: what remains concerns the save and what the transaction holds.
LEMMA StatementSafe ==
  ASSUME SaveInv, NEW r \in Requests, SaveRuns(r), saves[r].step \notin {"connecting", "release"},
         NEW to \in Save, SaveGoes(r, to), to.at \in 1 .. Len(ScopesOf[r]) + 1, Nested(r, to),
         to.step \in {"scope", "delete", "insert", "event", "end"},
         UNCHANGED <<memory, tables, outbox, pendingSave, activeClient>>,
         budget' \in [failures : 0 .. MaxFailures, crashes : 0 .. MaxCrashes],
         NEW t \in Transaction, tx' = [tx EXCEPT ![Client(r)] = t], t.open = tx[Client(r)].open,
         to.ok => saves[r].ok /\ ~t.failed, to.ok => SaveIsWhole(r)'
  PROVE  SaveInv'
<1> USE DEF SaveInv
<1>1. /\ saves' \in [Requests -> Save] /\ saves'[r] = to
      /\ \A q \in Requests : q # r => saves'[q] = saves[q]
  BY SaveGoesTo
<1>2. Client(r) \in Connections
  BY SaveFields
<1>3. /\ tx' \in [Connections -> Transaction] /\ tx'[Client(r)] = t
      /\ \A d \in Connections : d # Client(r) => tx'[d] = tx[d]
  BY <1>2, TxGoesTo
<1>4. SaveTypeOK'
  <2>1. \A q \in Requests : saves'[q].at \in 1 .. Len(ScopesOf[q]) + 1
    BY <1>1, SaveFields
  <2>2. QED BY <1>1, <1>3, <2>1 DEF SaveTypeOK
<1>5. ClientIsTheSavers'
  <2>1. \A q \in Requests : SaveRuns(q)' => q = r
    BY <1>1 DEF SaveRuns, SavesAreOrdered
  <2>2. SaveRuns(r)' /\ saves'[r].step \notin {"connecting", "release"}
    BY <1>1 DEF SaveRuns
  <2>3. activeClient = Client(r)
    BY SaverIsAlone
  <2>4. to.ok => t.open
    BY DEF ClientIsTheSavers
  <2>5. \A d \in Connections : tx'[d].open => activeClient = d
    BY <1>2, <1>3, <2>3 DEF ClientIsTheSavers
  <2>6. QED BY <1>1, <1>3, <2>1, <2>2, <2>3, <2>4, <2>5 DEF ClientIsTheSavers, SaveAt
<1>6. \A s \in Scopes : tables[s] \subseteq tables'[s] /\ tables'[s] \subseteq memory[s]
  BY DEF MemoryIsAhead
<1>7. QED BY <1>4, <1>5, <1>6, SaveRunSafe

\* What the transaction of a save holds, when the save goes well.
LEMMA SaveFollowed ==
  ASSUME SaveInv, NEW r \in Requests,
         saves[r].step \in {"scope", "delete", "insert", "event", "end"}, saves[r].ok
  PROVE  /\ SaveIsWhole(r) /\ SaveRuns(r) /\ saves[r].own = {"outer"}
         /\ tx[Client(r)].open /\ ~tx[Client(r)].failed
         /\ InTransaction /\ ~Refused /\ activeClient = Client(r)
<1> USE DEF SaveInv
<1>1. SaveRuns(r)
  BY DEF SaveRuns
<1>2. SaveIsWhole(r)
  BY DEF SavesAreWhole
<1>3. QED BY <1>1, <1>2, SaverIsAlone DEF ClientIsTheSavers

\* A table is emptied in the transaction; the memory's rows are to be inserted.
LEMMA DeleteSaves ==
  ASSUME SaveInv, NEW r \in Requests, Delete(r)
  PROVE  SaveInv'
<1> USE DEF SaveInv
<1> DEFINE s == Scope(r)
           o == tx[Client(r)]
<1>1. /\ saves[r].step = "delete" /\ saves[r].ok /\ saves[r].level = "inner"
      /\ saves[r].own = {"outer"} /\ saves[r].at \in 1 .. Len(ScopesOf[r])
  BY SaveFields DEF Delete, SaveAt, SavesAreNested, Nested
<1>2. SaveIsWhole(r) /\ SaveRuns(r) /\ InTransaction /\ activeClient = Client(r) /\ ~o.failed
  BY <1>1, SaveFollowed
<1>3. s \in Scopes /\ s = ScopesOf[r][saves[r].at] /\ Holds(r, s)
  BY <1>1, SaveFields DEF Scope, Holds
<1>4. /\ tx' = [tx EXCEPT ![Client(r)].deleted[s] = @ \cup tables[s], ![Client(r)].inserted[s] = {}]
      /\ SaveGoes(r, [saves[r] EXCEPT !.step = "insert", !.rows = memory[s]])
      /\ UNCHANGED <<memory, tables, outbox, pendingSave, activeClient, budget>>
  BY <1>2 DEF Delete, RowsOf
<1>5. PICK to \in Save :
        /\ SaveGoes(r, to) /\ to.step = "insert" /\ to.level = "inner" /\ to.own = {"outer"}
        /\ to.at = saves[r].at /\ to.rows = memory[s] /\ to.ok
  <2>1. PICK u : SaveGoes(r, u) /\ u = [saves[r] EXCEPT !.step = "insert", !.rows = memory[s]]
    BY <1>4
  <2>2. saves[r] \in Save /\ memory[s] \subseteq Requests /\ saves[r].at \in Nat
    BY <1>3, SaveFields
  <2> HIDE DEF s
  <2>3. u = Moved(saves[r], "insert", "inner", {"outer"}, saves[r].at, memory[s], TRUE)
    BY <1>1, <2>1, <2>2 DEF Save, Moved
  <2>4. "insert" \in SaveSteps /\ "inner" \in Levels /\ {"outer"} \subseteq Levels
    BY DEF SaveSteps, Levels
  <2>5. /\ u \in Save /\ u.step = "insert" /\ u.level = "inner" /\ u.own = {"outer"}
        /\ u.at = saves[r].at /\ u.rows = memory[s] /\ u.ok = TRUE
    BY <2>2, <2>3, <2>4, SaveFields DEF Moved, Save
  <2>6. QED BY <2>1, <2>5
<1>6. PICK t \in Transaction :
        /\ tx' = [tx EXCEPT ![Client(r)] = t] /\ t.open = o.open /\ t.failed = o.failed
        /\ t.events = o.events
        /\ \A z \in Scopes : /\ t.deleted[z] = IF z = s THEN o.deleted[s] \cup tables[s] ELSE o.deleted[z]
                             /\ t.inserted[z] = IF z = s THEN {} ELSE o.inserted[z]
  <2>1. Client(r) \in Connections /\ o \in Transaction /\ o.deleted \in Store /\ o.inserted \in Store
        /\ tables[s] \subseteq Requests
    BY <1>3, SaveFields
  <2> HIDE DEF s
  <2> DEFINE t == [open |-> o.open, failed |-> o.failed,
                   deleted |-> [o.deleted EXCEPT ![s] = @ \cup tables[s]],
                   inserted |-> [o.inserted EXCEPT ![s] = {}], events |-> o.events]
  <2>2. t.deleted \in Store /\ t.inserted \in Store
    BY <1>3, <2>1 DEF Store
  <2>3. t \in Transaction
    BY <2>1, <2>2 DEF Transaction
  <2>4. tx' = [tx EXCEPT ![Client(r)] = t]
    <3>1. PICK u : u = [o EXCEPT !.deleted[s] = @ \cup tables[s], !.inserted[s] = {}]
      OBVIOUS
    <3>2. tx' = [tx EXCEPT ![Client(r)] = u]
      BY <1>4, <2>1, <3>1 DEF SaveTypeOK
    <3>3. u = t
      BY <2>1, <3>1 DEF Transaction
    <3>4. QED BY <3>2, <3>3
  <2>5. \A z \in Scopes : /\ t.deleted[z] = IF z = s THEN o.deleted[s] \cup tables[s] ELSE o.deleted[z]
                          /\ t.inserted[z] = IF z = s THEN {} ELSE o.inserted[z]
    BY <2>1 DEF Store
  <2>6. QED BY <2>3, <2>4, <2>5
<1> HIDE DEF s, o
<1>7. saves'[r] = to /\ tx'[Client(r)] = t
  BY <1>5, <1>6, SaveFields, SaveGoesTo, TxGoesTo
<1>8. Nested(r, to)
  BY <1>1, <1>5, SaveFields DEF Nested
<1>9. SaveIsWhole(r)'
  <2>1. \A z \in Scopes : /\ ToInsert(r, z)' = IF z = s THEN memory[s] ELSE {}
                          /\ ToInsert(r, z) = {}
    BY <1>1, <1>3, <1>5, <1>7 DEF ToInsert, SaveAt, Scope
  <2>2. \A z \in Scopes : tables[z] \subseteq memory[z] /\ r \in memory[s]
    BY <1>2, <1>3 DEF MemoryIsAhead
  <2>3. \A z \in Scopes :
          /\ tables[z] \subseteq (tables[z] \ t.deleted[z]) \cup t.inserted[z] \cup ToInsert(r, z)'
          /\ t.inserted[z] \cup ToInsert(r, z)' \subseteq memory[z]
    BY <1>2, <1>6, <2>1, <2>2 DEF SaveIsWhole, o
  <2>4. ASSUME NEW i \in 1 .. Len(ScopesOf[r]), i < to.at \/ i = to.at
        PROVE  r \in t.inserted[ScopesOf[r][i]] \cup ToInsert(r, ScopesOf[r][i])'
    <3>1. ScopesOf[r][i] \in Scopes
      BY SaveFields
    <3>2. CASE ScopesOf[r][i] = s
      BY <2>1, <2>2, <3>1, <3>2
    <3>3. CASE ScopesOf[r][i] # s
      <4>1. i < saves[r].at
        BY <1>3, <1>5, <2>4, <3>3
      <4>2. r \in o.inserted[ScopesOf[r][i]] \cup ToInsert(r, ScopesOf[r][i])
        BY <1>2, <4>1 DEF SaveIsWhole, o
      <4>3. QED BY <1>6, <2>1, <3>1, <3>3, <4>2
    <3>4. QED BY <3>2, <3>3
  <2>5. t.events = {}
    BY <1>1, <1>2, <1>6 DEF SaveIsWhole, o
  <2>6. QED BY <1>4, <1>5, <1>7, <2>3, <2>4, <2>5 DEF SaveIsWhole
<1>10. budget' \in [failures : 0 .. MaxFailures, crashes : 0 .. MaxCrashes]
  BY <1>4 DEF SaveTypeOK
<1>11. to.at \in 1 .. Len(ScopesOf[r]) + 1
  BY <1>5, SaveFields
<1>12. QED BY <1>1, <1>2, <1>4, <1>5, <1>6, <1>8, <1>9, <1>10, <1>11, StatementSafe DEF o

\* A row goes from the list into the transaction.
LEMMA InsertSaves ==
  ASSUME SaveInv, NEW r \in Requests, Insert(r)
  PROVE  SaveInv'
<1> USE DEF SaveInv
<1> DEFINE s == Scope(r)
           o == tx[Client(r)]
<1>1. /\ saves[r].step = "insert" /\ saves[r].ok /\ saves[r].level = "inner"
      /\ saves[r].own = {"outer"} /\ saves[r].at \in 1 .. Len(ScopesOf[r])
  BY SaveFields DEF Insert, SaveAt, SavesAreNested, Nested
<1>2. SaveIsWhole(r) /\ SaveRuns(r) /\ InTransaction /\ activeClient = Client(r) /\ ~o.failed
  BY <1>1, SaveFollowed
<1>3. s \in Scopes /\ s = ScopesOf[r][saves[r].at]
  BY <1>1, SaveFields DEF Scope
<1>4. PICK row \in saves[r].rows :
        /\ tx' = [tx EXCEPT ![Client(r)].inserted[s] = @ \cup {row}]
        /\ SaveGoes(r, [saves[r] EXCEPT !.rows = @ \ {row},
                                        !.step = IF saves[r].rows = {row} THEN "end" ELSE "insert"])
        /\ UNCHANGED <<memory, tables, outbox, pendingSave, activeClient, budget>>
  BY <1>2 DEF Insert
<1>5. PICK to \in Save :
        /\ SaveGoes(r, to) /\ to.level = "inner" /\ to.own = {"outer"}
        /\ to.step = IF saves[r].rows = {row} THEN "end" ELSE "insert"
        /\ to.at = saves[r].at /\ to.rows = saves[r].rows \ {row} /\ to.ok
  <2> DEFINE step == IF saves[r].rows = {row} THEN "end" ELSE "insert"
  <2>1. PICK u : SaveGoes(r, u) /\ u = [saves[r] EXCEPT !.rows = @ \ {row}, !.step = step]
    BY <1>4
  <2>2. saves[r] \in Save /\ saves[r].rows \ {row} \subseteq Requests /\ saves[r].at \in Nat
    BY SaveFields
  <2>3. "insert" \in SaveSteps /\ "end" \in SaveSteps /\ "inner" \in Levels /\ {"outer"} \subseteq Levels
    BY DEF SaveSteps, Levels
  <2>4. step \in SaveSteps
    BY <2>3
  <2> HIDE DEF step
  <2>5. u = Moved(saves[r], step, "inner", {"outer"}, saves[r].at, saves[r].rows \ {row}, TRUE)
    BY <1>1, <2>1, <2>2 DEF Save, Moved
  <2>6. /\ u \in Save /\ u.step = step /\ u.level = "inner" /\ u.own = {"outer"}
        /\ u.at = saves[r].at /\ u.rows = saves[r].rows \ {row} /\ u.ok = TRUE
    BY <2>2, <2>3, <2>4, <2>5, SaveFields DEF Moved, Save
  <2>7. QED BY <2>1, <2>6 DEF step
<1>6. PICK t \in Transaction :
        /\ tx' = [tx EXCEPT ![Client(r)] = t] /\ t.open = o.open /\ t.failed = o.failed
        /\ t.events = o.events /\ t.deleted = o.deleted
        /\ \A z \in Scopes : t.inserted[z] = IF z = s THEN o.inserted[s] \cup {row} ELSE o.inserted[z]
  <2>1. Client(r) \in Connections /\ o \in Transaction /\ o.deleted \in Store /\ o.inserted \in Store
        /\ row \in Requests
    BY SaveFields
  <2> HIDE DEF s
  <2> DEFINE t == [open |-> o.open, failed |-> o.failed, deleted |-> o.deleted,
                   inserted |-> [o.inserted EXCEPT ![s] = @ \cup {row}], events |-> o.events]
  <2>2. t.deleted \in Store /\ t.inserted \in Store
    BY <1>3, <2>1 DEF Store
  <2>3. t \in Transaction
    BY <2>1, <2>2 DEF Transaction
  <2>4. tx' = [tx EXCEPT ![Client(r)] = t]
    <3>1. PICK u : u = [o EXCEPT !.inserted[s] = @ \cup {row}]
      OBVIOUS
    <3>2. tx' = [tx EXCEPT ![Client(r)] = u]
      BY <1>4, <2>1, <3>1 DEF SaveTypeOK
    <3>3. u = t
      BY <2>1, <3>1 DEF Transaction
    <3>4. QED BY <3>2, <3>3
  <2>5. \A z \in Scopes : t.inserted[z] = IF z = s THEN o.inserted[s] \cup {row} ELSE o.inserted[z]
    BY <2>1 DEF Store
  <2>6. QED BY <2>3, <2>4, <2>5
<1> HIDE DEF s, o
<1>7. saves'[r] = to /\ tx'[Client(r)] = t
  BY <1>5, <1>6, SaveFields, SaveGoesTo, TxGoesTo
<1>8. Nested(r, to)
  BY <1>1, <1>5, SaveFields DEF Nested
<1>9. SaveIsWhole(r)'
  <2>1. /\ \A z \in Scopes : ToInsert(r, z) = IF z = s THEN saves[r].rows ELSE {}
        /\ \A z \in Scopes : ToInsert(r, z)' = IF z = s THEN saves[r].rows \ {row} ELSE {}
    BY <1>1, <1>3, <1>5, <1>7 DEF ToInsert, SaveAt, Scope
  <2>2. \A z \in Scopes : t.inserted[z] \cup ToInsert(r, z)' = o.inserted[z] \cup ToInsert(r, z)
    BY <1>4, <1>6, <2>1
  <2>3. \A z \in Scopes :
          /\ tables[z] \subseteq (tables[z] \ o.deleted[z]) \cup o.inserted[z] \cup ToInsert(r, z)
          /\ o.inserted[z] \cup ToInsert(r, z) \subseteq memory[z]
    BY <1>2 DEF SaveIsWhole, o
  <2>4. \A z \in Scopes :
          /\ tables[z] \subseteq (tables[z] \ t.deleted[z]) \cup t.inserted[z] \cup ToInsert(r, z)'
          /\ t.inserted[z] \cup ToInsert(r, z)' \subseteq memory[z]
    BY <1>6, <2>2, <2>3
  <2>5. ASSUME NEW i \in 1 .. Len(ScopesOf[r]), i < to.at \/ i = to.at
        PROVE  r \in t.inserted[ScopesOf[r][i]] \cup ToInsert(r, ScopesOf[r][i])'
    <3>1. ScopesOf[r][i] \in Scopes
      BY SaveFields
    <3>2. r \in o.inserted[ScopesOf[r][i]] \cup ToInsert(r, ScopesOf[r][i])
      BY <1>1, <1>2, <1>5, <2>5 DEF SaveIsWhole, o
    <3>3. QED BY <2>2, <3>1, <3>2
  <2>6. t.events = {}
    BY <1>1, <1>2, <1>6 DEF SaveIsWhole, o
  <2>7. QED BY <1>4, <1>5, <1>7, <2>4, <2>5, <2>6 DEF SaveIsWhole
<1>10. budget' \in [failures : 0 .. MaxFailures, crashes : 0 .. MaxCrashes]
  BY <1>4 DEF SaveTypeOK
<1>11. to.at \in 1 .. Len(ScopesOf[r]) + 1
  BY <1>5, SaveFields
<1>12. to.step \in {"scope", "delete", "insert", "event", "end"}
  BY <1>5
<1>13. QED BY <1>1, <1>2, <1>4, <1>5, <1>6, <1>8, <1>9, <1>10, <1>11, <1>12, StatementSafe DEF o

\* The event is written in the transaction.
LEMMA AppendEventSaves ==
  ASSUME SaveInv, NEW r \in Requests, AppendEvent(r)
  PROVE  SaveInv'
<1> USE DEF SaveInv
<1> DEFINE o == tx[Client(r)]
<1>1. /\ saves[r].step = "event" /\ saves[r].ok /\ saves[r].level = "outer"
      /\ saves[r].own = {"outer"} /\ saves[r].at = Len(ScopesOf[r]) + 1
  BY SaveFields DEF AppendEvent, SaveAt, SavesAreNested, Nested
<1>2. SaveIsWhole(r) /\ SaveRuns(r) /\ InTransaction /\ activeClient = Client(r) /\ ~o.failed
  BY <1>1, SaveFollowed
<1>3. /\ tx' = [tx EXCEPT ![Client(r)].events = @ \cup {r}]
      /\ SaveGoes(r, [saves[r] EXCEPT !.step = "end"])
      /\ UNCHANGED <<memory, tables, outbox, pendingSave, activeClient, budget>>
  BY <1>2 DEF AppendEvent
<1>4. PICK to \in Save :
        /\ SaveGoes(r, to) /\ to.step = "end" /\ to.level = "outer" /\ to.own = {"outer"}
        /\ to.at = saves[r].at /\ to.ok
  <2>1. PICK u : SaveGoes(r, u) /\ u = [saves[r] EXCEPT !.step = "end"]
    BY <1>3
  <2>2. saves[r] \in Save /\ saves[r].rows \subseteq Requests /\ saves[r].at \in Nat
    BY SaveFields
  <2>3. u = Moved(saves[r], "end", "outer", {"outer"}, saves[r].at, saves[r].rows, TRUE)
    BY <1>1, <2>1, <2>2 DEF Save, Moved
  <2>4. "end" \in SaveSteps /\ "outer" \in Levels /\ {"outer"} \subseteq Levels
    BY DEF SaveSteps, Levels
  <2>5. /\ u \in Save /\ u.step = "end" /\ u.level = "outer" /\ u.own = {"outer"}
        /\ u.at = saves[r].at /\ u.ok = TRUE
    BY <2>2, <2>3, <2>4, SaveFields DEF Moved, Save
  <2>6. QED BY <2>1, <2>5
<1>5. PICK t \in Transaction :
        /\ tx' = [tx EXCEPT ![Client(r)] = t] /\ t.open = o.open /\ t.failed = o.failed
        /\ t.events = o.events \cup {r} /\ t.deleted = o.deleted /\ t.inserted = o.inserted
  <2>1. Client(r) \in Connections /\ o \in Transaction /\ o.events \subseteq Requests
    BY SaveFields
  <2> DEFINE t == [open |-> o.open, failed |-> o.failed, deleted |-> o.deleted,
                   inserted |-> o.inserted, events |-> o.events \cup {r}]
  <2>2. t \in Transaction
    BY <2>1 DEF Transaction
  <2>3. tx' = [tx EXCEPT ![Client(r)] = t]
    <3>1. PICK u : u = [o EXCEPT !.events = @ \cup {r}]
      OBVIOUS
    <3>2. tx' = [tx EXCEPT ![Client(r)] = u]
      BY <1>3, <2>1, <3>1 DEF SaveTypeOK
    <3>3. u = t
      BY <2>1, <3>1 DEF Transaction
    <3>4. QED BY <3>2, <3>3
  <2>4. QED BY <2>2, <2>3
<1> HIDE DEF o
<1>6. saves'[r] = to /\ tx'[Client(r)] = t
  BY <1>4, <1>5, SaveFields, SaveGoesTo, TxGoesTo
<1>7. Nested(r, to)
  BY <1>1, <1>4, SaveFields DEF Nested
<1>8. SaveIsWhole(r)'
  <2>1. \A z : ToInsert(r, z) = {} /\ ToInsert(r, z)' = {}
    BY <1>1, <1>4, <1>6 DEF ToInsert, SaveAt
  <2>2. \A i \in 1 .. Len(ScopesOf[r]) : i < saves[r].at
    BY <1>1, SaveFields
  <2>3. r \in Events
    BY <1>1 DEF SavesAreNested, Nested
  <2>4. t.events \subseteq {r} \cap Events
    BY <1>2, <1>5, <2>3 DEF SaveIsWhole, o
  <2>5. QED BY <1>2, <1>3, <1>4, <1>5, <1>6, <2>1, <2>2, <2>4 DEF SaveIsWhole, o
<1>9. budget' \in [failures : 0 .. MaxFailures, crashes : 0 .. MaxCrashes]
  BY <1>3 DEF SaveTypeOK
<1>10. to.at \in 1 .. Len(ScopesOf[r]) + 1
  BY <1>4, SaveFields
<1>11. QED BY <1>1, <1>2, <1>3, <1>4, <1>5, <1>7, <1>8, <1>9, <1>10, StatementSafe DEF o

\* A statement that fails spoils its transaction, and the save.
LEMMA StatementFailsSaves ==
  ASSUME SaveInv, NEW r \in Requests, StatementFails(r)
  PROVE  SaveInv'
<1> USE DEF SaveInv
<1> DEFINE o == tx[Client(r)]
<1>1. /\ saves[r].step \in {"delete", "insert", "event"} /\ saves[r].ok /\ saves[r].own = {"outer"}
      /\ UNCHANGED <<memory, tables, outbox, pendingSave, activeClient>>
  BY DEF StatementFails, SavesAreNested, Nested
<1>2. SaveRuns(r) /\ InTransaction /\ activeClient = Client(r)
  BY <1>1, SaveFollowed
<1>3. /\ tx' = [tx EXCEPT ![Client(r)].failed = TRUE]
      /\ SaveGoes(r, [saves[r] EXCEPT !.step = "end", !.ok = FALSE])
  BY <1>2 DEF StatementFails
<1>4. PICK to \in Save :
        /\ SaveGoes(r, to) /\ to.step = "end" /\ to.own = {"outer"} /\ to.at = saves[r].at
        /\ to.ok = FALSE
  <2>1. PICK u : SaveGoes(r, u) /\ u = [saves[r] EXCEPT !.step = "end", !.ok = FALSE]
    BY <1>3
  <2>2. /\ saves[r] \in Save /\ saves[r].rows \subseteq Requests /\ saves[r].at \in Nat
        /\ saves[r].level \in Levels
    BY SaveFields
  <2>3. u = Moved(saves[r], "end", saves[r].level, {"outer"}, saves[r].at, saves[r].rows, FALSE)
    BY <1>1, <2>1, <2>2 DEF Save, Moved
  <2>4. "end" \in SaveSteps /\ {"outer"} \subseteq Levels
    BY DEF SaveSteps, Levels
  <2>5. /\ u \in Save /\ u.step = "end" /\ u.own = {"outer"} /\ u.at = saves[r].at /\ u.ok = FALSE
    BY <2>2, <2>3, <2>4, SaveFields DEF Moved, Save
  <2>6. QED BY <2>1, <2>5
<1>5. PICK t \in Transaction : tx' = [tx EXCEPT ![Client(r)] = t] /\ t.open = o.open
  <2>1. Client(r) \in Connections /\ o \in Transaction
    BY SaveFields
  <2>2. PICK u : u = [o EXCEPT !.failed = TRUE]
    OBVIOUS
  <2>3. tx' = [tx EXCEPT ![Client(r)] = u]
    BY <1>3, <2>1, <2>2 DEF SaveTypeOK
  <2>4. u \in Transaction /\ u.open = o.open
    BY <2>1, <2>2 DEF Transaction
  <2>5. QED BY <2>3, <2>4
<1>6. Nested(r, to)
  BY <1>1, <1>4, SaveFields DEF Nested
<1>7. budget' \in [failures : 0 .. MaxFailures, crashes : 0 .. MaxCrashes]
  BY PersistenceAssumption DEF SaveTypeOK, StatementFails, Fails
<1>8. to.at \in 1 .. Len(ScopesOf[r]) + 1
  BY <1>4, SaveFields
<1>9. QED BY <1>1, <1>2, <1>4, <1>5, <1>6, <1>7, <1>8, StatementSafe

\* The call inside the transaction returns to the one outside.
LEMMA LeaveJoinedSaves ==
  ASSUME SaveInv, NEW r \in Requests, LeaveJoined(r)
  PROVE  SaveInv'
<1> USE DEF SaveInv
<1>1. /\ saves[r].step = "end" /\ saves[r].own = {"outer"} /\ SaveRuns(r)
      /\ UNCHANGED <<memory, tables, outbox, tx, pendingSave, activeClient, budget>>
  BY DEF LeaveJoined, SaveAt, SaveRuns, Database, SavesAreNested, Nested
<1>2. saves[r].level = "inner"
  BY <1>1, SaveFields DEF LeaveJoined, Owns, Levels
<1>3. saves[r].ok => saves[r].at <= Len(ScopesOf[r]) /\ SaveIsWhole(r)
  BY <1>1, <1>2, SaveFollowed DEF SavesAreNested, Nested
<1>4. PICK to \in Save :
        /\ SaveGoes(r, to) /\ to.own = {"outer"} /\ to.ok = saves[r].ok
        /\ IF saves[r].ok THEN to.step = "scope" /\ to.at = saves[r].at + 1
           ELSE to.step = "end" /\ to.at = saves[r].at
  <2>1. /\ saves[r] \in Save /\ saves[r].rows \subseteq Requests /\ saves[r].at \in Nat
        /\ saves[r].level \in Levels
    BY SaveFields
  <2>2. {"scope", "end"} \subseteq SaveSteps /\ {"outer"} \subseteq Levels /\ {"inner", "outer"} \subseteq Levels
    BY DEF SaveSteps, Levels
  <2>3. CASE saves[r].ok
    <3>1. PICK u : SaveGoes(r, u) /\ u = [saves[r] EXCEPT !.step = "scope", !.at = @ + 1]
      BY <1>2, <2>3 DEF LeaveJoined, Left
    <3>2. u = Moved(saves[r], "scope", "inner", {"outer"}, saves[r].at + 1, saves[r].rows, TRUE)
      BY <1>1, <1>2, <2>1, <2>3, <3>1 DEF Save, Moved
    <3>3. /\ u \in Save /\ u.step = "scope" /\ u.own = {"outer"} /\ u.at = saves[r].at + 1
          /\ u.ok = TRUE
      BY <2>1, <2>2, <3>2, SaveFields DEF Moved, Save
    <3>4. QED BY <2>3, <3>1, <3>3
  <2>4. CASE ~saves[r].ok
    <3>1. PICK u : SaveGoes(r, u) /\ u = [saves[r] EXCEPT !.step = "end", !.level = "outer"]
      BY <1>2, <2>4 DEF LeaveJoined, Left
    <3>2. u = Moved(saves[r], "end", "outer", {"outer"}, saves[r].at, saves[r].rows, FALSE)
      BY <1>1, <1>2, <2>1, <2>4, <3>1, SaveFields DEF Save, Moved
    <3>3. /\ u \in Save /\ u.step = "end" /\ u.own = {"outer"} /\ u.at = saves[r].at
          /\ u.ok = FALSE
      BY <2>1, <2>2, <3>2, SaveFields DEF Moved, Save
    <3>4. saves[r].ok = FALSE
      BY <2>4, SaveFields
    <3>5. QED BY <2>4, <3>1, <3>3, <3>4
  <2>5. QED BY <2>3, <2>4
<1>5. saves'[r] = to
  BY <1>4, SaveGoesTo
<1>6. Nested(r, to)
  <2>1. to.ok <=> saves[r].ok
    BY <1>4
  <2>2. QED BY <1>4, <2>1, SaveFields DEF Nested
<1>7. to.at \in 1 .. Len(ScopesOf[r]) + 1
  <2>1. saves[r].at \in 1 .. Len(ScopesOf[r]) + 1 /\ Len(ScopesOf[r]) \in Nat
    BY SaveFields
  <2>2. QED BY <1>3, <1>4, <2>1
<1>8. to.ok => SaveIsWhole(r)'
  <2> SUFFICES ASSUME saves[r].ok PROVE SaveIsWhole(r)'
    BY <1>4
  <2>1. \A z : ToInsert(r, z) = {} /\ ToInsert(r, z)' = {}
    BY <1>1, <1>4, <1>5 DEF ToInsert, SaveAt
  <2>2. \A i \in 1 .. Len(ScopesOf[r]) : i < to.at => i < saves[r].at \/ i = saves[r].at
    BY <1>4, SaveFields
  <2>3. QED BY <1>1, <1>2, <1>3, <1>4, <1>5, <2>1, <2>2 DEF SaveIsWhole
<1>9. budget' \in [failures : 0 .. MaxFailures, crashes : 0 .. MaxCrashes]
  BY <1>1 DEF SaveTypeOK
<1>10. tx[Client(r)] \in Transaction /\ tx' = [tx EXCEPT ![Client(r)] = tx[Client(r)]]
  BY <1>1, SaveFields DEF SaveTypeOK
<1>11. to.ok => saves[r].ok /\ ~tx[Client(r)].failed
  BY <1>1, <1>4, SaveFollowed
<1>12. to.step \in {"scope", "end"}
  BY <1>4
<1>13. QED BY <1>1, <1>4, <1>6, <1>7, <1>8, <1>9, <1>10, <1>11, <1>12, StatementSafe

\* Nothing that is committed is taken away.
TablesGrow == (\A s \in Scopes : tables[s] \subseteq tables'[s]) /\ outbox \subseteq outbox'

\* A client that closes its transaction: the save is over or lets its client go.
LEMMA EndSafe ==
  ASSUME SaveInv, NEW r \in Requests, saves[r].step = "end", saves[r].level = "outer",
         NEW to \in Save, SaveGoes(r, to), to.step = "release", to.level = "outer",
         to.own = saves[r].own, to.at = saves[r].at,
         tx' = [tx EXCEPT ![Client(r)] = Closed], UNCHANGED <<memory, pendingSave, activeClient>>,
         budget' \in [failures : 0 .. MaxFailures, crashes : 0 .. MaxCrashes],
         UNCHANGED <<tables, outbox>> \/ (saves[r].ok /\ CommitEffect(Client(r))),
         to.ok => saves[r].ok /\ CommitEffect(Client(r))
  PROVE  SaveInv' /\ TablesGrow
<1> USE DEF SaveInv
<1>1. /\ saves' \in [Requests -> Save] /\ saves'[r] = to
      /\ \A q \in Requests : q # r => saves'[q] = saves[q]
  BY SaveGoesTo
<1>2. Client(r) \in Connections /\ SaveRuns(r) /\ saves[r].own = {"outer"}
  BY SaveFields DEF SaveRuns, SavesAreNested, Nested
<1>3. /\ tx' \in [Connections -> Transaction] /\ tx'[Client(r)] = Closed
      /\ \A d \in Connections : d # Client(r) => tx'[d] = tx[d]
  BY <1>2, EmptyIsStore, TxGoesTo
<1>4. \A d \in Connections : ~tx'[d].open
  BY <1>2, <1>3, EmptyIsStore, SaverIsAlone
<1>5. /\ \A s \in Scopes : tables[s] \subseteq tables'[s] /\ tables'[s] \subseteq memory[s]
      /\ outbox \subseteq outbox' /\ outbox' \subseteq outbox \cup {r}
      /\ tables' \in Store
      /\ saves[r].ok /\ CommitEffect(Client(r)) =>
           (\A i \in 1 .. Len(ScopesOf[r]) : r \in tables'[ScopesOf[r][i]])
           /\ (r \in Events => r \in outbox')
  <2>1. CASE UNCHANGED <<tables, outbox>> /\ ~(saves[r].ok /\ CommitEffect(Client(r)))
    BY <2>1 DEF MemoryIsAhead, SaveTypeOK
  <2>2. CASE saves[r].ok /\ CommitEffect(Client(r))
    <3> DEFINE t == tx[Client(r)]
    <3>1. SaveIsWhole(r) /\ ~t.failed
      BY <2>2, SaveFollowed
    <3>2. tables' = Applied(Client(r)) /\ outbox' = outbox \cup t.events
      BY <2>2, <3>1 DEF CommitEffect
    <3>3. \A s \in Scopes : tables'[s] = (tables[s] \ t.deleted[s]) \cup t.inserted[s]
      BY <3>2 DEF Applied
    <3>4. \A s : ToInsert(r, s) = {}
      BY DEF ToInsert, SaveAt
    <3>5. \A s \in Scopes : /\ tables[s] \subseteq (tables[s] \ t.deleted[s]) \cup t.inserted[s]
                            /\ t.inserted[s] \subseteq memory[s]
      BY <3>1, <3>4 DEF SaveIsWhole
    <3>6. \A s \in Scopes : tables[s] \subseteq tables'[s] /\ tables'[s] \subseteq memory[s]
      BY <3>3, <3>5 DEF MemoryIsAhead
    <3>7. saves[r].at = Len(ScopesOf[r]) + 1
      BY <2>2 DEF SavesAreNested, Nested
    <3>8. \A i \in 1 .. Len(ScopesOf[r]) : r \in t.inserted[ScopesOf[r][i]]
      BY <3>1, <3>4, <3>7, SaveFields DEF SaveIsWhole
    <3>9. \A i \in 1 .. Len(ScopesOf[r]) : r \in tables'[ScopesOf[r][i]]
      BY <3>3, <3>8, SaveFields
    <3>10. t.events \subseteq {r} /\ (r \in Events => r \in t.events)
      BY <3>1 DEF SaveIsWhole
    <3>11. tables' \in Store
      BY <3>2, <3>5, SaveFields DEF Applied, Store
    <3>12. QED BY <3>2, <3>6, <3>9, <3>10, <3>11
  <2>3. QED BY <2>1, <2>2
<1>6. saves[r].ok /\ CommitEffect(Client(r)) => Committed(r)' /\ (r \in Events => r \in outbox')
  <2>1. DOMAIN ScopesOf[r] = 1 .. Len(ScopesOf[r])
    BY SaveFields
  <2>2. QED BY <1>5, <2>1 DEF Committed
<1>7. SaveTypeOK'
  <2>1. \A q \in Requests : saves'[q].at \in 1 .. Len(ScopesOf[q]) + 1
    BY <1>1, SaveFields
  <2>2. outbox' \in SUBSET Requests
    BY <1>5 DEF SaveTypeOK
  <2>3. QED BY <1>1, <1>3, <1>5, <2>1, <2>2 DEF SaveTypeOK
<1>8. ClientIsTheSavers'
  <2>1. \A q \in Requests : SaveRuns(q)' => q = r
    BY <1>1, <1>2 DEF SaveRuns, SavesAreOrdered
  <2>2. SaveRuns(r)' /\ activeClient = Client(r)
    BY <1>1, <1>2, SaverIsAlone DEF SaveRuns
  <2>3. QED BY <1>1, <1>2, <1>4, <2>1, <2>2 DEF ClientIsTheSavers, SaveAt
<1>9. Nested(r, to)
  BY <1>2 DEF Nested
<1>10. r \in outbox' \ outbox => Committed(r)'
  BY <1>6
<1>11. to.ok => Committed(r)' /\ (r \in Events => r \in outbox')
  BY <1>6
<1>12. SaveInv'
  BY <1>2, <1>5, <1>7, <1>8, <1>9, <1>10, <1>11, SaveRunSafe
<1>13. QED BY <1>5, <1>12 DEF TablesGrow

\* COMMIT, its failure, and ROLLBACK.
LEMMA EndSaves ==
  ASSUME SaveInv, NEW r \in Requests, Commit(r) \/ CommitFails(r) \/ Rollback(r)
  PROVE  SaveInv' /\ TablesGrow
<1> USE DEF SaveInv
<1>1. saves[r].step = "end" /\ saves[r].level = "outer" /\ saves[r].own = {"outer"}
  <2>1. saves[r].step = "end" /\ saves[r].level \in saves[r].own
    BY DEF Commit, CommitFails, Rollback, SaveAt, Owns
  <2>2. QED BY <2>1 DEF SavesAreNested, Nested
<1>2. /\ tx' = [tx EXCEPT ![Client(r)] = Closed]
      /\ UNCHANGED <<memory, pendingSave, activeClient>>
  BY <1>1 DEF Commit, CommitFails, Rollback, Ended, Client
<1>3. budget' \in [failures : 0 .. MaxFailures, crashes : 0 .. MaxCrashes]
  BY PersistenceAssumption DEF SaveTypeOK, Commit, CommitFails, Rollback, Fails
<1>4. PICK ok \in BOOLEAN :
        /\ SaveGoes(r, IF ok = saves[r].ok THEN [saves[r] EXCEPT !.step = "release"]
                       ELSE [saves[r] EXCEPT !.step = "release", !.ok = FALSE])
        /\ UNCHANGED <<tables, outbox>> \/ (saves[r].ok /\ CommitEffect(Client(r)))
        /\ ok => saves[r].ok /\ CommitEffect(Client(r))
        /\ ok # saves[r].ok => ok = FALSE
  <2>0. saves[r].ok \in BOOLEAN
    BY SaveFields
  <2>1. CASE Commit(r)
    <3>1. saves[r].ok /\ CommitEffect(Client(r)) /\ SaveGoes(r, [saves[r] EXCEPT !.step = "release"])
      BY <1>1, <2>1 DEF Commit, Client
    <3>2. saves[r].ok = TRUE
      BY <2>0, <3>1
    <3>3. WITNESS TRUE \in BOOLEAN
    <3>4. QED BY <3>1, <3>2
  <2>2. CASE CommitFails(r)
    <3>1. /\ saves[r].ok /\ SaveGoes(r, [saves[r] EXCEPT !.step = "release", !.ok = FALSE])
          /\ CommitEffect(Client(r)) \/ UNCHANGED <<tables, outbox>>
      BY <1>1, <2>2 DEF CommitFails, Client
    <3>2. saves[r].ok = TRUE
      BY <2>0, <3>1
    <3>3. WITNESS FALSE \in BOOLEAN
    <3>4. QED BY <3>1, <3>2
  <2>3. CASE Rollback(r)
    <3>1. /\ ~saves[r].ok /\ SaveGoes(r, [saves[r] EXCEPT !.step = "release"])
          /\ UNCHANGED <<tables, outbox>>
      BY <2>3 DEF Rollback
    <3>2. saves[r].ok = FALSE
      BY <2>0, <3>1
    <3>3. WITNESS FALSE \in BOOLEAN
    <3>4. QED BY <3>1, <3>2
  <2>4. QED BY <2>1, <2>2, <2>3
<1>5. PICK to \in Save :
        /\ SaveGoes(r, to) /\ to.step = "release" /\ to.level = "outer" /\ to.own = {"outer"}
        /\ to.at = saves[r].at /\ to.ok = ok
  <2>1. /\ saves[r] \in Save /\ saves[r].rows \subseteq Requests /\ saves[r].at \in Nat
    BY SaveFields
  <2>2. "release" \in SaveSteps /\ "outer" \in Levels /\ {"outer"} \subseteq Levels
    BY DEF SaveSteps, Levels
  <2>3. CASE ok = saves[r].ok
    <3>1. PICK u : SaveGoes(r, u) /\ u = [saves[r] EXCEPT !.step = "release"]
      BY <1>4, <2>3
    <3>2. u = Moved(saves[r], "release", "outer", {"outer"}, saves[r].at, saves[r].rows, ok)
      BY <1>1, <2>1, <2>3, <3>1 DEF Save, Moved
    <3>3. /\ u \in Save /\ u.step = "release" /\ u.level = "outer" /\ u.own = {"outer"}
          /\ u.at = saves[r].at /\ u.ok = ok
      BY <2>1, <2>2, <3>2, SaveFields DEF Moved, Save
    <3>4. QED BY <3>1, <3>3
  <2>4. CASE ok # saves[r].ok
    <3>1. PICK u : SaveGoes(r, u) /\ u = [saves[r] EXCEPT !.step = "release", !.ok = FALSE]
      BY <1>4, <2>4
    <3>2. u = Moved(saves[r], "release", "outer", {"outer"}, saves[r].at, saves[r].rows, FALSE)
      BY <1>1, <2>1, <3>1 DEF Save, Moved
    <3>3. /\ u \in Save /\ u.step = "release" /\ u.level = "outer" /\ u.own = {"outer"}
          /\ u.at = saves[r].at /\ u.ok = FALSE
      BY <2>1, <2>2, <3>2, SaveFields DEF Moved, Save
    <3>4. QED BY <1>4, <2>4, <3>1, <3>3
  <2>5. QED BY <2>3, <2>4
<1>6. UNCHANGED <<tables, outbox>> \/ (saves[r].ok /\ CommitEffect(Client(r)))
  BY <1>4
<1>7. to.ok => saves[r].ok /\ CommitEffect(Client(r))
  BY <1>4, <1>5
<1>8. QED BY <1>1, <1>2, <1>3, <1>5, <1>6, <1>7, EndSafe

\* The client goes back to the pool, and the save is over.
LEMMA ReleaseSaves ==
  ASSUME SaveInv, NEW r \in Requests, SaveRelease(r)
  PROVE  SaveInv'
<1> USE DEF SaveInv
<1>1. /\ saves[r].step = "release" /\ saves[r].own = {"outer"} /\ saves[r].level = "outer"
      /\ SaveRuns(r) /\ ~tx[Client(r)].open
      /\ activeClient' = Pool /\ UNCHANGED <<memory, tables, outbox, tx, pendingSave, budget>>
  BY DEF SaveRelease, SaveAt, SaveRuns, Database, SavesAreNested, Nested, ClientIsTheSavers
<1>2. PICK to \in Save :
        /\ SaveGoes(r, to) /\ to.step = (IF saves[r].ok THEN "saved" ELSE "failed")
        /\ to.at = saves[r].at /\ to.ok = saves[r].ok
  <2> DEFINE step == IF saves[r].ok THEN "saved" ELSE "failed"
  <2>1. /\ saves[r] \in Save /\ saves[r].rows \subseteq Requests /\ saves[r].at \in Nat
        /\ saves[r].ok \in BOOLEAN
    BY SaveFields
  <2>2. step \in SaveSteps /\ "outer" \in Levels /\ {} \subseteq Levels
    BY DEF SaveSteps, Levels
  <2>3. PICK u : u = [saves[r] EXCEPT !.own = @ \ {saves[r].level}]
    OBVIOUS
  <2>4. u = Moved(saves[r], "release", "outer", {}, saves[r].at, saves[r].rows, saves[r].ok)
    BY <1>1, <2>1, <2>3 DEF Save, Moved
  <2>5. u.level = "outer" /\ u.ok = saves[r].ok
    BY <2>4 DEF Moved
  <2>6. PICK v : SaveGoes(r, v) /\ v = [u EXCEPT !.step = step]
    BY <2>3, <2>5 DEF SaveRelease, Left
  <2> HIDE DEF step
  <2>7. v = Moved(saves[r], step, "outer", {}, saves[r].at, saves[r].rows, saves[r].ok)
    BY <2>4, <2>6 DEF Moved
  <2>8. v \in Save /\ v.step = step /\ v.at = saves[r].at /\ v.ok = saves[r].ok
    BY <2>1, <2>2, <2>7, SaveFields DEF Moved, Save
  <2>9. QED BY <2>6, <2>8 DEF step
<1>3. /\ saves' \in [Requests -> Save] /\ saves'[r] = to
      /\ \A q \in Requests : q # r => saves'[q] = saves[q]
  BY <1>2, SaveGoesTo
<1>4. \A q \in Requests : ~SaveRuns(q)'
  <2>1. \A q \in Requests : SaveRuns(q) => q = r
    BY <1>1 DEF SavesAreOrdered
  <2>2. to.step \in {"saved", "failed"}
    BY <1>2
  <2>3. QED BY <1>3, <2>1, <2>2 DEF SaveRuns
<1>5. SaveTypeOK'
  <2>1. \A q \in Requests : saves'[q].at \in 1 .. Len(ScopesOf[q]) + 1
    BY <1>2, <1>3, SaveFields
  <2>2. QED BY <1>1, <1>3, <2>1 DEF SaveTypeOK
<1>6. ClientIsTheSavers'
  <2>1. \A c \in Connections : ~tx[c].open
    BY <1>1, SaverIsAlone
  <2>2. QED BY <1>1, <1>4, <2>1 DEF ClientIsTheSavers
<1>7. Nested(r, to)
  BY <1>2 DEF Nested
<1>8. \A s \in Scopes : tables[s] \subseteq tables'[s] /\ tables'[s] \subseteq memory[s]
  BY <1>1 DEF MemoryIsAhead
<1>9. to.ok => Committed(r)' /\ (r \in Events => r \in outbox')
  <2>1. saves[r].ok => Committed(r) /\ (r \in Events => r \in outbox)
    BY <1>1 DEF SavesAreWhole
  <2>2. QED BY <1>1, <1>2, <2>1 DEF Committed
<1>10. to.step \in {"saved", "failed"} /\ (to.step = "saved" => to.ok)
  BY <1>2
<1>11. QED BY <1>1, <1>2, <1>5, <1>6, <1>7, <1>8, <1>9, <1>10, SaveRunSafe

\* No client, and the save is over; or BEGIN fails, and the client is let go.
LEMMA ConnectFailsSaves ==
  ASSUME SaveInv, NEW r \in Requests, ConnectFails(r)
  PROVE  SaveInv'
<1> USE DEF SaveInv
<1>1. /\ saves[r].step = "connecting" /\ saves[r].level = "outer" /\ saves[r].ok
      /\ saves[r].own = {} /\ SaveRuns(r) /\ activeClient = Pool
      /\ UNCHANGED <<memory, tables, outbox, tx, pendingSave>>
  BY DEF ConnectFails, SaveAt, SaveRuns, Database, SavesAreNested, Nested, ClientIsTheSavers
<1>2. PICK to \in Save :
        /\ SaveGoes(r, to) /\ to.ok = FALSE /\ to.at = saves[r].at
        /\ \/ to.step = "failed" /\ activeClient' = Pool
           \/ to.step = "end" /\ to.own = {"outer"} /\ activeClient' = Client(r)
  <2>1. /\ saves[r] \in Save /\ saves[r].rows \subseteq Requests /\ saves[r].at \in Nat
    BY SaveFields
  <2>2. {"failed", "end", "connecting"} \subseteq SaveSteps /\ "outer" \in Levels /\ {"outer"} \subseteq Levels
    BY DEF SaveSteps, Levels
  <2>3. CASE SaveGoes(r, Left([saves[r] EXCEPT !.ok = FALSE])) /\ UNCHANGED activeClient
    <3>1. PICK u : u = [saves[r] EXCEPT !.ok = FALSE]
      OBVIOUS
    <3>2. u = Moved(saves[r], "connecting", "outer", {}, saves[r].at, saves[r].rows, FALSE)
      BY <1>1, <2>1, <3>1 DEF Save, Moved
    <3>3. u.level = "outer" /\ u.ok = FALSE
      BY <3>2 DEF Moved
    <3>4. PICK v : SaveGoes(r, v) /\ v = [u EXCEPT !.step = "failed"]
      BY <2>3, <3>1, <3>3 DEF Left
    <3>5. v = Moved(saves[r], "failed", "outer", {}, saves[r].at, saves[r].rows, FALSE)
      BY <3>2, <3>4 DEF Moved
    <3>6. v \in Save /\ v.step = "failed" /\ v.at = saves[r].at /\ v.ok = FALSE
      BY <2>1, <2>2, <3>5, SaveFields DEF Moved, Save
    <3>7. QED BY <1>1, <2>3, <3>4, <3>6
  <2>4. CASE /\ SaveGoes(r, [saves[r] EXCEPT !.step = "end", !.own = @ \cup {"outer"}, !.ok = FALSE])
             /\ activeClient' = Client(r)
    <3>1. PICK u : /\ SaveGoes(r, u)
                   /\ u = [saves[r] EXCEPT !.step = "end", !.own = @ \cup {"outer"}, !.ok = FALSE]
      BY <2>4
    <3>2. u = Moved(saves[r], "end", "outer", {"outer"}, saves[r].at, saves[r].rows, FALSE)
      BY <1>1, <2>1, <3>1 DEF Save, Moved
    <3>3. u \in Save /\ u.step = "end" /\ u.own = {"outer"} /\ u.at = saves[r].at /\ u.ok = FALSE
      BY <2>1, <2>2, <3>2, SaveFields DEF Moved, Save
    <3>4. QED BY <2>4, <3>1, <3>3
  <2>5. QED BY <1>1, <2>3, <2>4 DEF ConnectFails, Client
<1>3. /\ saves' \in [Requests -> Save] /\ saves'[r] = to
      /\ \A q \in Requests : q # r => saves'[q] = saves[q]
  BY <1>2, SaveGoesTo
<1>4. SaveTypeOK'
  <2>1. \A q \in Requests : saves'[q].at \in 1 .. Len(ScopesOf[q]) + 1
    BY <1>2, <1>3, SaveFields
  <2>2. budget' \in [failures : 0 .. MaxFailures, crashes : 0 .. MaxCrashes]
    BY PersistenceAssumption DEF SaveTypeOK, ConnectFails, Fails
  <2>3. activeClient' \in Connections \cup {Pool}
    BY <1>2, SaveFields
  <2>4. QED BY <1>1, <1>3, <2>1, <2>2, <2>3 DEF SaveTypeOK
<1>5. ClientIsTheSavers'
  <2>1. \A c \in Connections : ~tx[c].open
    BY <1>1, SaveFields DEF ClientIsTheSavers
  <2>2. \A q \in Requests : SaveRuns(q)' => q = r
    BY <1>1, <1>3 DEF SaveRuns, SavesAreOrdered
  <2>3. CASE to.step = "failed"
    BY <1>1, <1>2, <1>3, <2>1, <2>2, <2>3 DEF ClientIsTheSavers, SaveRuns
  <2>4. CASE to.step = "end"
    <3>1. SaveRuns(r)'
      BY <1>3, <2>4 DEF SaveRuns
    <3>2. QED BY <1>1, <1>2, <1>3, <2>1, <2>2, <2>4, <3>1 DEF ClientIsTheSavers, SaveAt
  <2>5. QED BY <1>2, <2>3, <2>4
<1>6. Nested(r, to)
  BY <1>2 DEF Nested
<1>7. \A s \in Scopes : tables[s] \subseteq tables'[s] /\ tables'[s] \subseteq memory[s]
  BY <1>1 DEF MemoryIsAhead
<1>8. to.step \in {"failed", "end"} /\ ~to.ok
  BY <1>2
<1>9. QED BY <1>1, <1>2, <1>4, <1>5, <1>6, <1>7, <1>8, SaveRunSafe

\* A request's operation: the memory grows by its change, and the request, which
\* was idle, waits or is over.
LEMMA OperationSafe ==
  ASSUME SaveInv, NEW r \in Requests, SaveAt(r, "idle"), NEW to \in Save, SaveGoes(r, to),
         memory' = [s \in Scopes |-> memory[s] \cup IF Holds(r, s) THEN {r} ELSE {}],
         UNCHANGED <<tables, outbox, tx, activeClient, budget>>,
         to.at = 1, to.own = {}, to.step \in {"queued", "failed"},
         to.step = "queued" => to.ok, to.step = "failed" => r \notin Background,
         SavesAreOrdered', FailureStops', pendingSave' \in Requests \cup {NoRequest}
  PROVE  SaveInv'
<1> USE DEF SaveInv
<1>1. /\ saves' \in [Requests -> Save] /\ saves'[r] = to
      /\ \A q \in Requests : q # r => saves'[q] = saves[q]
  BY SaveGoesTo
<1>2. \A q \in Requests : SaveRuns(q)' => q # r /\ SaveRuns(q)
  BY <1>1 DEF SaveRuns
<1>3. /\ memory' \in Store
      /\ \A s \in Scopes : memory[s] \subseteq memory'[s] /\ (Holds(r, s) => r \in memory'[s])
  <2>1. \A s \in Scopes : memory[s] \cup (IF Holds(r, s) THEN {r} ELSE {}) \subseteq Requests
    BY SaveFields
  <2>2. QED BY <2>1 DEF Store
<1>4. SaveTypeOK'
  <2>1. \A q \in Requests : saves'[q].at \in 1 .. Len(ScopesOf[q]) + 1
    <3>1. 1 \in 1 .. Len(ScopesOf[r]) + 1
      BY SaveFields
    <3>2. QED BY <1>1, <3>1, SaveFields
  <2>2. QED BY <1>1, <1>3, <2>1 DEF SaveTypeOK
<1>5. AcknowledgedIsDurable' /\ EventImpliesChange'
  BY <1>1 DEF AcknowledgedIsDurable, EventImpliesChange, SaveAt, Committed
<1>6. SavesAreNested'
  <2>1. Nested(r, to)
    BY DEF Nested
  <2>2. QED BY <1>1, <2>1 DEF SavesAreNested
<1>7. ClientIsTheSavers'
  <2>1. \A q \in Requests : SaveRuns(q) => SaveRuns(q)' /\ saves'[q] = saves[q]
    BY <1>1 DEF SaveRuns, SaveAt
  <2>2. QED BY <1>2, <2>1 DEF ClientIsTheSavers, SaveAt
<1>8. MemoryIsAhead'
  <2>1. \A q \in Requests : q # r /\ (SaveAt(q, "queued") \/ SaveRuns(q))' => SaveAt(q, "queued") \/ SaveRuns(q)
    BY <1>1 DEF SaveAt, SaveRuns
  <2>2. \A q \in Requests, s \in Scopes :
          (SaveAt(q, "queued") \/ SaveRuns(q))' /\ Holds(q, s) => q \in memory'[s]
    BY <1>3, <2>1 DEF MemoryIsAhead
  <2>3. \A s \in Scopes : tables[s] \subseteq memory'[s]
    BY <1>3 DEF MemoryIsAhead
  <2>4. QED BY <2>2, <2>3 DEF MemoryIsAhead, Holds
<1>9. SavesAreWhole'
  <2> SUFFICES ASSUME NEW q \in Requests, SaveRuns(q)'
               PROVE  /\ saves'[q].step \in {"scope", "delete", "insert", "event", "end"} /\ saves'[q].ok
                           => SaveIsWhole(q)'
                      /\ saves'[q].step = "release" /\ saves'[q].ok
                           => Committed(q)' /\ (q \in Events => q \in outbox')
    BY DEF SavesAreWhole, SaveRuns
  <2>1. saves'[q] = saves[q] /\ q # r
    BY <1>1, <1>2
  <2>2. \A s : ToInsert(q, s)' = ToInsert(q, s)
    BY <2>1 DEF ToInsert, SaveAt, Scope
  <2>3. ASSUME SaveIsWhole(q) PROVE SaveIsWhole(q)'
    <3>1. \A s \in Scopes : tx[Client(q)].inserted[s] \cup ToInsert(q, s) \subseteq memory'[s]
      BY <1>3, <2>3 DEF SaveIsWhole
    <3>2. QED BY <2>1, <2>2, <2>3, <3>1 DEF SaveIsWhole
  <2>4. Committed(q) => Committed(q)'
    BY DEF Committed
  <2>5. QED BY <2>1, <2>3, <2>4 DEF SavesAreWhole
<1>10. QED BY <1>4, <1>5, <1>6, <1>7, <1>8, <1>9

\* The fields of a save that begins anew.
LEMMA IdleIs ==
  /\ SaveIdle \in Save /\ SaveIdle.level = "outer" /\ SaveIdle.own = {} /\ SaveIdle.at = 1
  /\ SaveIdle.rows = {} /\ SaveIdle.ok = TRUE /\ SaveIdle.step = "idle" /\ SaveIdle.after = NoRequest
BY DEF SaveIdle, Save, SaveSteps, Levels

\* An operation whose save waits.
LEMMA OperateSaves ==
  ASSUME MaxWaiting = 1, SaveInv, NEW r \in Requests, Operate(r)
  PROVE  SaveInv'
<1> USE DEF SaveInv
<1>1. \A q \in Requests : ~SaveAt(q, "queued")
  <2> SUFFICES ASSUME NEW p \in Requests, SaveAt(p, "queued") PROVE FALSE
    OBVIOUS
  <2>1. {q \in Requests : SaveAt(q, "queued")} = {p}
    BY DEF SavesAreOrdered
  <2>2. Cardinality({p}) = 1
    BY FS_Singleton
  <2>3. Cardinality({q \in Requests : SaveAt(q, "queued")}) < 1
    BY DEF Operate
  <2>4. QED BY <2>1, <2>2, <2>3
<1>2. PICK to \in Save :
        /\ SaveGoes(r, to) /\ to.step = "queued" /\ to.after = pendingSave /\ to.at = 1
        /\ to.own = {} /\ to.ok = TRUE
  <2>1. PICK u : SaveGoes(r, u) /\ u = [SaveIdle EXCEPT !.step = "queued", !.after = pendingSave]
    BY DEF Operate, FlushedOf
  <2>2. u = [step |-> "queued", after |-> pendingSave, level |-> "outer", own |-> {}, at |-> 1,
             rows |-> {}, ok |-> TRUE]
    BY <2>1 DEF SaveIdle
  <2>3. "queued" \in SaveSteps /\ "outer" \in Levels /\ pendingSave \in Requests \cup {NoRequest}
    BY DEF SaveSteps, Levels, SaveTypeOK
  <2>4. u \in Save
    BY <2>2, <2>3 DEF Save
  <2>5. u.step = "queued" /\ u.after = pendingSave /\ u.at = 1 /\ u.own = {} /\ u.ok = TRUE
    BY <2>2
  <2>6. QED BY <2>1, <2>4, <2>5
<1>3. /\ saves' \in [Requests -> Save] /\ saves'[r] = to
      /\ \A q \in Requests : q # r => saves'[q] = saves[q]
  BY <1>2, SaveGoesTo
<1>4. /\ SaveAt(r, "idle") /\ UNCHANGED <<tables, outbox, tx, activeClient, budget>>
      /\ memory' = [s \in Scopes |-> memory[s] \cup IF Holds(r, s) THEN {r} ELSE {}]
      /\ pendingSave' = IF r \in Background THEN r ELSE pendingSave
  BY DEF Operate, Database
<1>5. pendingSave # r /\ ~SaveRuns(r)
  BY <1>4 DEF SavesAreOrdered, SaveAt, SaveRuns
<1>6. \A q \in Requests : /\ SaveRuns(q)' <=> SaveRuns(q)
                          /\ SaveAt(q, "queued")' <=> q = r
  BY <1>1, <1>2, <1>3, <1>5 DEF SaveRuns, SaveAt
<1>7. SavesAreOrdered'
  <2>1. \A p \in Requests : SaveRuns(p) => pendingSave = p
    BY <1>1, PersistenceAssumption DEF SavesAreOrdered
  <2>2. pendingSave' \in Requests => saves'[pendingSave'].step \notin {"idle", "gone"}
    BY <1>2, <1>3, <1>4 DEF SavesAreOrdered
  <2>3. \A p \in Requests : SaveRuns(p)' =>
          pendingSave' = p \/ (pendingSave' \in Background /\ saves'[pendingSave'].step = "queued")
    BY <1>2, <1>3, <1>4, <1>6, <2>1
  <2>4. \A p, q \in Requests : SaveRuns(p)' /\ SaveAt(q, "queued")' => saves'[q].after = p
    BY <1>2, <1>3, <1>6, <2>1
  <2>5. \A q \in Requests : SaveAt(q, "queued")' =>
       IF q \in Background THEN pendingSave' = q ELSE saves'[q].after = pendingSave'
    BY <1>2, <1>3, <1>4, <1>6
  <2>6. \A p, q \in Requests : SaveRuns(p)' /\ SaveRuns(q)' => p = q
    BY <1>6 DEF SavesAreOrdered
  <2>7. QED BY <1>6, <2>2, <2>3, <2>4, <2>5, <2>6 DEF SavesAreOrdered, SaveAt
<1>8. FailureStops'
  <2> SUFFICES ASSUME NEW b \in Background, SaveAt(b, "failed")'
               PROVE  /\ \A q \in Requests : ~SaveRuns(q)'
                      /\ pendingSave' \in Background /\ saves'[pendingSave'].step \in {"queued", "failed"}
                      /\ \A q \in Requests : SaveAt(q, "queued")' =>
                           saves'[q].after \in Background /\ saves'[saves'[q].after].step = "failed"
    BY DEF FailureStops, Rejected
  <2>1. b \in Requests /\ b # r /\ SaveAt(b, "failed")
    BY <1>2, <1>3, PersistenceAssumption DEF SaveAt
  <2>2. /\ \A q \in Requests : ~SaveRuns(q)
        /\ pendingSave \in Background /\ saves[pendingSave].step = "failed"
    BY <1>1, <2>1, PersistenceAssumption DEF FailureStops, SaveAt
  <2>3. saves'[pendingSave] = saves[pendingSave]
    BY <1>3, <1>5, <2>2, PersistenceAssumption
  <2>4. \A q \in Requests : SaveAt(q, "queued")' => saves'[q].after = pendingSave
    BY <1>2, <1>3, <1>6
  <2>5. QED BY <1>2, <1>3, <1>4, <1>6, <2>2, <2>3, <2>4
<1>9. pendingSave' \in Requests \cup {NoRequest}
  BY <1>4 DEF SaveTypeOK
<1>10. QED BY <1>2, <1>4, <1>7, <1>8, <1>9, OperationSafe

\* An operation that throws.
LEMMA OperationThrowsSaves ==
  ASSUME SaveInv, NEW r \in Requests, OperationThrows(r)
  PROVE  SaveInv'
<1> USE DEF SaveInv
<1>1. PICK to \in Save :
        SaveGoes(r, to) /\ to.step = "failed" /\ to.at = 1 /\ to.own = {} /\ to.ok = FALSE
  <2>1. PICK u : SaveGoes(r, u) /\ u = [SaveIdle EXCEPT !.step = "failed", !.ok = FALSE]
    BY DEF OperationThrows
  <2>2. u = [step |-> "failed", after |-> NoRequest, level |-> "outer", own |-> {}, at |-> 1,
             rows |-> {}, ok |-> FALSE]
    BY <2>1 DEF SaveIdle
  <2>3. "failed" \in SaveSteps /\ "outer" \in Levels
    BY DEF SaveSteps, Levels
  <2>4. u \in Save
    BY <2>2, <2>3 DEF Save
  <2>5. QED BY <2>1, <2>2, <2>4
<1>2. /\ saves' \in [Requests -> Save] /\ saves'[r] = to
      /\ \A q \in Requests : q # r => saves'[q] = saves[q]
  BY <1>1, SaveGoesTo
<1>3. /\ SaveAt(r, "idle") /\ r \notin Background
      /\ UNCHANGED <<tables, outbox, tx, pendingSave, activeClient, budget>>
      /\ memory' = [s \in Scopes |-> memory[s] \cup IF Holds(r, s) THEN {r} ELSE {}]
  BY DEF OperationThrows, Database
<1>4. pendingSave # r
  BY <1>3 DEF SavesAreOrdered, SaveAt
<1>5. \A q \in Requests : /\ SaveRuns(q)' <=> SaveRuns(q)
                          /\ SaveAt(q, "queued")' <=> SaveAt(q, "queued")
  BY <1>1, <1>2, <1>3 DEF SaveRuns, SaveAt
<1>6. \A q \in Requests : SaveAt(q, "queued") => saves'[q] = saves[q]
  BY <1>2, <1>3 DEF SaveAt
<1>7. SavesAreOrdered'
  <2>1. pendingSave \in Requests => saves'[pendingSave] = saves[pendingSave]
    BY <1>2, <1>4
  <2>2. \A p \in Requests : SaveRuns(p)' =>
          pendingSave = p \/ (pendingSave \in Background /\ saves'[pendingSave].step = "queued")
    BY <1>2, <1>4, <1>5, PersistenceAssumption DEF SavesAreOrdered, SaveAt
  <2>3. QED BY <1>3, <1>5, <1>6, <2>1, <2>2 DEF SavesAreOrdered, SaveAt
<1>8. FailureStops'
  <2> SUFFICES ASSUME NEW b \in Background, SaveAt(b, "failed")'
               PROVE  /\ \A q \in Requests : ~SaveRuns(q)'
                      /\ pendingSave' \in Background /\ saves'[pendingSave'].step \in {"queued", "failed"}
                      /\ \A q \in Requests : SaveAt(q, "queued")' =>
                           saves'[q].after \in Background /\ saves'[saves'[q].after].step = "failed"
    BY DEF FailureStops, Rejected
  <2>1. SaveAt(b, "failed")
    BY <1>2, <1>3, PersistenceAssumption DEF SaveAt
  <2>2. /\ \A q \in Requests : ~SaveRuns(q)
        /\ pendingSave \in Background /\ saves[pendingSave].step \in {"queued", "failed"}
        /\ \A q \in Requests : SaveAt(q, "queued") => Rejected(saves[q].after)
    BY <2>1 DEF FailureStops
  <2>3. \A p \in Background : saves'[p] = saves[p]
    BY <1>2, <1>3, PersistenceAssumption
  <2>4. QED BY <1>3, <1>5, <1>6, <2>2, <2>3 DEF Rejected
<1>9. pendingSave' \in Requests \cup {NoRequest}
  BY <1>3 DEF SaveTypeOK
<1>10. QED BY <1>1, <1>2, <1>3, <1>7, <1>8, <1>9, OperationSafe

\* The save that waited asks for a client, or is rejected.
LEMMA StartSaveSaves ==
  ASSUME SaveInv, NEW r \in Requests, StartSave(r)
  PROVE  SaveInv'
<1> USE DEF SaveInv
<1>1. /\ saves[r].step = "queued" /\ saves[r].ok /\ saves[r].own = {} /\ saves[r].at = 1
      /\ UNCHANGED <<memory, tables, outbox, tx, activeClient, budget>>
  BY DEF StartSave, SaveAt, Database, SavesAreNested, Nested
<1>2. \A q \in Requests : ~SaveRuns(q)
  <2> SUFFICES ASSUME NEW q \in Requests, SaveRuns(q) PROVE FALSE
    OBVIOUS
  <2>1. saves[r].after = q
    BY <1>1 DEF SavesAreOrdered, SaveAt
  <2>2. saves[q].step \in {"saved", "failed"}
    BY <2>1, SaveFields DEF StartSave, SaveSettled
  <2>3. QED BY <2>2 DEF SaveRuns
<1>3. activeClient = Pool /\ \A c \in Connections : ~tx[c].open
  BY <1>2, SaveFields DEF ClientIsTheSavers
<1>4. PICK to \in Save :
        /\ SaveGoes(r, to) /\ to.own = {} /\ to.at = 1 /\ to.ok = TRUE
        /\ IF Rejected(saves[r].after) THEN to.step = "failed" /\ UNCHANGED pendingSave
           ELSE /\ to.step = "connecting" /\ to.level = "outer"
                /\ pendingSave' = IF r \in Background THEN pendingSave ELSE r
  <2>1. saves[r] \in Save /\ saves[r].rows \subseteq Requests /\ saves[r].level \in Levels
    BY SaveFields
  <2>2. {"failed", "connecting"} \subseteq SaveSteps /\ "outer" \in Levels /\ {} \subseteq Levels
    BY DEF SaveSteps, Levels
  <2>3. saves[r].ok = TRUE
    BY <1>1, SaveFields
  <2>4. CASE Rejected(saves[r].after)
    <3>1. PICK u : /\ SaveGoes(r, u) /\ u = [saves[r] EXCEPT !.step = "failed"]
                   /\ UNCHANGED pendingSave
      BY <2>4 DEF StartSave
    <3>2. u = Moved(saves[r], "failed", saves[r].level, {}, 1, saves[r].rows, TRUE)
      BY <1>1, <2>1, <2>3, <3>1 DEF Save, Moved
    <3>3. u \in Save /\ u.step = "failed" /\ u.own = {} /\ u.at = 1 /\ u.ok = TRUE
      BY <2>1, <2>2, <3>2, SaveFields DEF Moved, Save
    <3>4. QED BY <2>4, <3>1, <3>3
  <2>5. CASE ~Rejected(saves[r].after)
    <3>1. PICK u : /\ SaveGoes(r, u)
                   /\ u = [saves[r] EXCEPT !.step = "connecting", !.level = "outer"]
                   /\ pendingSave' = IF r \in Background THEN pendingSave ELSE r
      BY <1>3, <2>5 DEF StartSave, Enter
    <3>2. u = Moved(saves[r], "connecting", "outer", {}, 1, saves[r].rows, TRUE)
      BY <1>1, <2>1, <2>3, <3>1 DEF Save, Moved
    <3>3. /\ u \in Save /\ u.step = "connecting" /\ u.level = "outer" /\ u.own = {} /\ u.at = 1
          /\ u.ok = TRUE
      BY <2>1, <2>2, <3>2, SaveFields DEF Moved, Save
    <3>4. QED BY <2>5, <3>1, <3>3
  <2>6. QED BY <2>4, <2>5
<1>5. /\ saves' \in [Requests -> Save] /\ saves'[r] = to
      /\ \A q \in Requests : q # r => saves'[q] = saves[q]
  BY <1>4, SaveGoesTo
<1>6. to.step \in {"failed", "connecting"}
  BY <1>4
<1>7. \A q \in Requests : /\ ~SaveAt(q, "queued")'
                          /\ SaveRuns(q)' => q = r /\ to.step = "connecting"
  <2>1. \A q \in Requests : q # r => ~SaveAt(q, "queued")
    BY <1>1 DEF SavesAreOrdered, SaveAt
  <2>2. QED BY <1>2, <1>5, <1>6, <2>1 DEF SaveAt, SaveRuns
<1>8. SaveTypeOK'
  <2>1. \A q \in Requests : saves'[q].at \in 1 .. Len(ScopesOf[q]) + 1
    <3>1. 1 \in 1 .. Len(ScopesOf[r]) + 1
      BY SaveFields
    <3>2. QED BY <1>4, <1>5, <3>1, SaveFields
  <2>2. pendingSave' \in Requests \cup {NoRequest}
    BY <1>4 DEF SaveTypeOK
  <2>3. QED BY <1>1, <1>5, <2>1, <2>2 DEF SaveTypeOK
<1>9. AcknowledgedIsDurable' /\ EventImpliesChange'
  BY <1>1, <1>5, <1>6 DEF AcknowledgedIsDurable, EventImpliesChange, SaveAt, Committed
<1>10. SavesAreOrdered'
  <2>1. pendingSave \in Requests => saves'[pendingSave].step \notin {"idle", "gone"}
    BY <1>5, <1>6 DEF SavesAreOrdered
  <2>2. pendingSave' \in Requests => saves'[pendingSave'].step \notin {"idle", "gone"}
    BY <1>4, <1>5, <1>6, <2>1
  <2>3. to.step = "connecting" => pendingSave' = r
    BY <1>1, <1>4 DEF SavesAreOrdered, SaveAt
  <2>4. QED BY <1>7, <2>2, <2>3 DEF SavesAreOrdered
<1>11. SavesAreNested'
  <2>1. Nested(r, to)
    BY <1>4, <1>6 DEF Nested
  <2>2. QED BY <1>5, <2>1 DEF SavesAreNested
<1>12. ClientIsTheSavers'
  BY <1>1, <1>3, <1>5, <1>7 DEF ClientIsTheSavers, SaveAt
<1>13. MemoryIsAhead'
  <2>1. \A q \in Requests : (SaveAt(q, "queued") \/ SaveRuns(q))' => SaveAt(q, "queued")
    BY <1>1, <1>7 DEF SaveAt
  <2>2. QED BY <1>1, <2>1 DEF MemoryIsAhead, Holds
<1>14. SavesAreWhole'
  <2>1. \A q \in Requests :
          saves'[q].step \notin {"scope", "delete", "insert", "event", "end", "release"}
    BY <1>5, <1>7 DEF SaveRuns
  <2>2. QED BY <2>1 DEF SavesAreWhole
<1>15. FailureStops'
  <2> SUFFICES ASSUME NEW b \in Background, SaveAt(b, "failed")'
               PROVE  /\ \A q \in Requests : ~SaveRuns(q)'
                      /\ pendingSave' \in Background /\ saves'[pendingSave'].step \in {"queued", "failed"}
    BY <1>7 DEF FailureStops
  <2>1. CASE Rejected(saves[r].after)
    <3>1. to.step = "failed" /\ pendingSave' = pendingSave
      BY <1>4, <2>1
    <3>2. pendingSave \in Background /\ saves[pendingSave].step \in {"queued", "failed"}
      BY <2>1 DEF FailureStops, Rejected, SaveAt
    <3>3. saves'[pendingSave].step \in {"queued", "failed"}
      BY <1>5, <3>1, <3>2, PersistenceAssumption
    <3>4. QED BY <1>7, <3>1, <3>2, <3>3
  <2>2. CASE ~Rejected(saves[r].after)
    <3>1. \A p \in Background : ~SaveAt(p, "failed")
      BY <1>1, <2>2 DEF FailureStops, SaveAt
    <3>2. to.step = "connecting"
      BY <1>4, <2>2
    <3>3. QED BY <1>5, <3>1, <3>2, PersistenceAssumption DEF SaveAt
  <2>3. QED BY <2>1, <2>2
<1>16. QED BY <1>8, <1>9, <1>10, <1>11, <1>12, <1>13, <1>14, <1>15

\* The process exits: what was under way is gone, and the memory is what was
\* committed.
LEMMA SaveCrashSaves ==
  ASSUME SaveInv, SaveCrash
  PROVE  SaveInv'
<1> USE DEF SaveInv
<1>1. /\ memory' = tables /\ UNCHANGED <<tables, outbox>> /\ pendingSave' = NoRequest
      /\ activeClient' = Pool /\ tx' = [c \in Connections |-> Closed]
  BY DEF SaveCrash, Loaded
<1>2. /\ saves' \in [Requests -> Save]
      /\ \A r \in Requests : \/ saves'[r] = saves[r] /\ saves[r].step \in {"idle", "saved"}
                             \/ saves'[r].step = "gone" /\ saves'[r].at = 1
  <2>0. PICK gone : gone = [SaveIdle EXCEPT !.step = "gone"]
    OBVIOUS
  <2>1. gone = [step |-> "gone", after |-> NoRequest, level |-> "outer", own |-> {}, at |-> 1,
                rows |-> {}, ok |-> TRUE]
    BY <2>0 DEF SaveIdle
  <2>2. "gone" \in SaveSteps /\ "outer" \in Levels
    BY DEF SaveSteps, Levels
  <2>3. gone \in Save
    BY <2>1, <2>2 DEF Save
  <2>4. gone.step = "gone" /\ gone.at = 1
    BY <2>1
  <2>5. saves' = [r \in Requests |-> IF saves[r].step \in {"idle", "saved"} THEN saves[r] ELSE gone]
    BY <2>0 DEF SaveCrash
  <2>6. QED BY <2>3, <2>4, <2>5, SaveFields
<1>3. \A r \in Requests : saves'[r].step \in {"idle", "saved", "gone"}
  BY <1>2
<1>4. \A r \in Requests : ~SaveRuns(r)' /\ ~SaveAt(r, "queued")' /\ ~SaveAt(r, "failed")'
  BY <1>3 DEF SaveRuns, SaveAt
<1>5. tx' \in [Connections -> Transaction] /\ \A c \in Connections : ~tx'[c].open
  BY <1>1, EmptyIsStore
<1>6. SaveTypeOK'
  <2>1. \A q \in Requests : saves'[q].at \in 1 .. Len(ScopesOf[q]) + 1
    BY <1>2, SaveFields
  <2>2. budget' \in [failures : 0 .. MaxFailures, crashes : 0 .. MaxCrashes]
    <3>1. budget.crashes < MaxCrashes /\ budget' = [budget EXCEPT !.crashes = @ + 1]
      BY DEF SaveCrash
    <3>2. budget \in [failures : 0 .. MaxFailures, crashes : 0 .. MaxCrashes]
      BY DEF SaveTypeOK
    <3>3. QED BY <3>1, <3>2, PersistenceAssumption
  <2>3. QED BY <1>1, <1>2, <1>5, <2>1, <2>2 DEF SaveTypeOK
<1>7. AcknowledgedIsDurable' /\ EventImpliesChange'
  <2>1. \A r \in Requests : SaveAt(r, "saved")' => SaveAt(r, "saved")
    BY <1>2 DEF SaveAt
  <2>2. QED BY <1>1, <2>1 DEF AcknowledgedIsDurable, EventImpliesChange, Committed
<1>8. SavesAreOrdered'
  BY <1>1, <1>4, SaveFields DEF SavesAreOrdered
<1>9. SavesAreNested'
  BY <1>3 DEF SavesAreNested, Nested
<1>10. ClientIsTheSavers'
  BY <1>1, <1>4, <1>5 DEF ClientIsTheSavers
<1>11. MemoryIsAhead'
  BY <1>1, <1>4 DEF MemoryIsAhead
<1>12. SavesAreWhole'
  BY <1>3 DEF SavesAreWhole
<1>13. FailureStops'
  BY <1>4, PersistenceAssumption DEF FailureStops
<1>14. QED BY <1>6, <1>7, <1>8, <1>9, <1>10, <1>11, <1>12, <1>13

\* Nothing is saved at the start.
LEMMA SavesStart == SaveInit => SaveInv
<1> SUFFICES ASSUME SaveInit PROVE SaveInv
  OBVIOUS
<1>1. \A r \in Requests : saves[r] = SaveIdle
  BY DEF SaveInit
<1>2. \A r \in Requests : saves[r].step = "idle" /\ saves[r].own = {} /\ saves[r].at = 1
  BY <1>1, IdleIs
<1>3. \A r \in Requests : ~SaveRuns(r) /\ ~SaveAt(r, "queued") /\ ~SaveAt(r, "failed") /\ ~SaveAt(r, "saved")
  BY <1>2 DEF SaveRuns, SaveAt
<1>4. tx \in [Connections -> Transaction] /\ \A c \in Connections : ~tx[c].open
  BY EmptyIsStore DEF SaveInit
<1>5. SaveTypeOK
  <2>1. \A r \in Requests : 1 \in 1 .. Len(ScopesOf[r]) + 1
    <3>1. \A r \in Requests : Len(ScopesOf[r]) \in Nat
      BY PersistenceAssumption
    <3>2. QED BY <3>1
  <2>2. saves \in [Requests -> Save]
    BY IdleIs DEF SaveInit
  <2>3. budget \in [failures : 0 .. MaxFailures, crashes : 0 .. MaxCrashes]
    BY PersistenceAssumption DEF SaveInit
  <2>4. QED BY <1>2, <1>4, <2>1, <2>2, <2>3, EmptyIsStore DEF SaveTypeOK, SaveInit
<1>6. AcknowledgedIsDurable /\ EventImpliesChange
  BY <1>3 DEF AcknowledgedIsDurable, EventImpliesChange, SaveInit
<1>7. SavesAreOrdered
  BY <1>3, PersistenceAssumption DEF SavesAreOrdered, SaveInit
<1>8. SavesAreNested
  BY <1>2 DEF SavesAreNested, Nested
<1>9. ClientIsTheSavers
  BY <1>3, <1>4 DEF ClientIsTheSavers, SaveInit
<1>10. MemoryIsAhead
  BY <1>3 DEF MemoryIsAhead, SaveInit
<1>11. SavesAreWhole
  BY <1>2 DEF SavesAreWhole
<1>12. FailureStops
  BY <1>3, PersistenceAssumption DEF FailureStops
<1>13. QED BY <1>5, <1>6, <1>7, <1>8, <1>9, <1>10, <1>11, <1>12 DEF SaveInv

\* The step of a save: the invariant holds again, the tables grow, and after a
\* background save has failed nothing is saved.
SavingStops ==
  (\E b \in Background : SaveAt(b, "failed"))
    => tables' = tables /\ (\A r \in Requests : SaveAt(r, "saved") \/ saves'[r].step # "saved")

LEMMA SaveStep ==
  ASSUME MaxWaiting = 1, SaveInv, SaveNext
  PROVE  SaveInv' /\ TablesGrow /\ SavingStops
<1>1. ASSUME NEW r \in Requests, Operate(r) \/ OperationThrows(r) \/ StartSave(r)
      PROVE  SaveInv' /\ TablesGrow /\ SavingStops
  <2>1. SaveInv'
    BY <1>1, OperateSaves, OperationThrowsSaves, StartSaveSaves
  <2>2. UNCHANGED <<tables, outbox>>
    BY <1>1 DEF Operate, OperationThrows, StartSave, Database
  <2>3. \A q \in Requests : SaveAt(q, "saved") \/ saves'[q].step # "saved"
    <3>1. PICK to : SaveGoes(r, to) /\ to.step \in {"queued", "failed", "connecting", "scope"}
      <4>1. CASE Operate(r)
        <5>1. PICK u, p : SaveGoes(r, u) /\ u = [SaveIdle EXCEPT !.step = "queued", !.after = p]
          BY <4>1 DEF Operate
        <5>2. u.step = "queued"
          BY <5>1 DEF SaveIdle
        <5>3. QED BY <5>1, <5>2
      <4>2. CASE OperationThrows(r)
        <5>1. PICK u : SaveGoes(r, u) /\ u = [SaveIdle EXCEPT !.step = "failed", !.ok = FALSE]
          BY <4>2 DEF OperationThrows
        <5>2. u.step = "failed"
          BY <5>1 DEF SaveIdle
        <5>3. QED BY <5>1, <5>2
      <4>3. CASE StartSave(r)
        <5>1. saves[r] \in Save
          BY SaveFields DEF SaveInv
        <5>2. PICK u : /\ SaveGoes(r, u)
                       /\ \/ u = [saves[r] EXCEPT !.step = "failed"]
                          \/ u = [saves[r] EXCEPT !.step = "connecting", !.level = "outer"]
                          \/ u = [saves[r] EXCEPT !.step = "scope", !.level = "outer"]
          BY <4>3 DEF StartSave, Enter
        <5>3. u.step \in {"failed", "connecting", "scope"}
          BY <5>1, <5>2 DEF Save
        <5>4. QED BY <5>2, <5>3
      <4>4. QED BY <1>1, <4>1, <4>2, <4>3
    <3>2. saves'[r].step # "saved" /\ \A q \in Requests : q # r => saves'[q] = saves[q]
      BY <3>1 DEF SaveGoes, SaveInv, SaveTypeOK
    <3>3. QED BY <3>2 DEF SaveAt
  <2>4. QED BY <2>1, <2>2, <2>3 DEF TablesGrow, SavingStops
<1>2. ASSUME NEW r \in Requests,
             Connected(r) \/ NextScope(r) \/ Delete(r) \/ Insert(r) \/ AppendEvent(r)
               \/ StatementFails(r) \/ LeaveJoined(r) \/ SaveRelease(r) \/ ConnectFails(r)
      PROVE  SaveInv' /\ TablesGrow /\ SavingStops
  <2>1. SaveInv'
    BY <1>2, ConnectedSaves, NextScopeSaves, DeleteSaves, InsertSaves, AppendEventSaves,
       StatementFailsSaves, LeaveJoinedSaves, ReleaseSaves, ConnectFailsSaves
  <2>2. SaveRuns(r)
    BY <1>2 DEF Connected, NextScope, Delete, Insert, AppendEvent, StatementFails, LeaveJoined,
       SaveRelease, ConnectFails, SaveAt, SaveRuns
  <2>3. UNCHANGED <<tables, outbox>>
    <3>1. CASE Delete(r) \/ Insert(r) \/ AppendEvent(r)
      <4>1. saves[r].step \in {"delete", "insert", "event"} /\ saves[r].ok
        BY <3>1 DEF Delete, Insert, AppendEvent, SaveAt, SaveInv, SavesAreNested, Nested
      <4>2. InTransaction
        BY <4>1, SaveFollowed
      <4>3. QED BY <3>1, <4>2 DEF Delete, Insert, AppendEvent
    <3>2. CASE ~(Delete(r) \/ Insert(r) \/ AppendEvent(r))
      BY <1>2, <3>2 DEF Connected, NextScope, StatementFails, LeaveJoined, SaveRelease,
         ConnectFails, Database
    <3>3. QED BY <3>1, <3>2
  <2>4. SavingStops
    BY <2>2 DEF SavingStops, SaveInv, FailureStops
  <2>5. QED BY <2>1, <2>3, <2>4 DEF TablesGrow
<1>3. ASSUME NEW r \in Requests, Commit(r) \/ CommitFails(r) \/ Rollback(r)
      PROVE  SaveInv' /\ TablesGrow /\ SavingStops
  <2>1. SaveRuns(r)
    BY <1>3 DEF Commit, CommitFails, Rollback, SaveAt, SaveRuns
  <2>2. SavingStops
    BY <2>1 DEF SavingStops, SaveInv, FailureStops
  <2>3. QED BY <1>3, <2>2, EndSaves
<1>4. CASE SaveCrash
  <2>1. UNCHANGED <<tables, outbox>>
    BY <1>4 DEF SaveCrash
  <2>2. \A r \in Requests : SaveAt(r, "saved") \/ saves'[r].step # "saved"
    BY <1>4, IdleIs DEF SaveCrash, SaveAt, SaveIdle
  <2>3. QED BY <1>4, <2>1, <2>2, SaveCrashSaves DEF TablesGrow, SavingStops
<1>5. QED BY <1>1, <1>2, <1>3, <1>4 DEF SaveNext, SavePerform

\* What the saves of the backend core promise (CorePersistence), while one save
\* at a time waits for pendingSave: what a request was told is saved is committed
\* with its event, an event tells of what is committed, a save that replaces whole
\* tables takes no committed row away, and after a failed background save nothing
\* is saved.
THEOREM SavesHold ==
  ASSUME MaxWaiting = 1
  PROVE  SaveSpec => SavesAreTrue
<1>1. SaveInit => SaveInv
  BY SavesStart
<1>2. SaveInv /\ [SaveNext]_saveVars => SaveInv'
  <2> SUFFICES ASSUME SaveInv, [SaveNext]_saveVars PROVE SaveInv'
    OBVIOUS
  <2>1. CASE SaveNext
    BY <2>1, SaveStep
  <2>2. CASE UNCHANGED saveVars
    BY <2>2 DEF saveVars, SaveInv, SaveTypeOK, AcknowledgedIsDurable, EventImpliesChange,
       SavesAreOrdered, SavesAreNested, ClientIsTheSavers, MemoryIsAhead, SavesAreWhole,
       SaveIsWhole, ToInsert, FailureStops, Rejected, SaveAt, SaveRuns, Scope, Committed
  <2>3. QED BY <2>1, <2>2
<1>3. SaveInv => SaveTypeOK /\ AcknowledgedIsDurable /\ EventImpliesChange
  BY DEF SaveInv
<1>4. SaveInv /\ [SaveNext]_saveVars
        => [(\A s \in Scopes : tables[s] \subseteq tables'[s]) /\ outbox \subseteq outbox']_saveVars
  BY SaveStep DEF TablesGrow
<1>5. SaveInv /\ [SaveNext]_saveVars
        => [(\E b \in Background : SaveAt(b, "failed"))
              => tables' = tables /\ (\A r \in Requests : SaveAt(r, "saved") \/ saves'[r].step # "saved")]_saveVars
  BY SaveStep DEF SavingStops
<1>6. QED BY <1>1, <1>2, <1>3, <1>4, <1>5, PTL
  DEF SaveSpec, SavesAreTrue, NothingCommittedIsLost, FailedBackgroundStopsSaving

-----------------------------------------------------------------------------
(* The next run of a cron expression: CronSchedule.                        *)

\* A set of natural numbers that is not empty has a least element.
LEMMA LeastExists ==
  ASSUME NEW S, S \subseteq Nat, S # {}
  PROVE  \E m \in S : \A n \in S : m <= n
<1>1. PICK x \in S : TRUE
  OBVIOUS
<1> DEFINE Upto == 0 .. x
           Starts == {0 .. m : m \in S \cap Upto}
<1>2. IsFiniteSet(Upto)
  BY FS_Interval
<1>3. IsWellFoundedOn(StrictSubsetOrdering(Upto), SUBSET Upto)
  <2> HIDE DEF Upto
  <2> QED BY <1>2, FS_StrictSubsetOrderingWellFounded, FS_FiniteSubsetsOfFinite
<1>4. Starts \subseteq SUBSET Upto
  OBVIOUS
<1>5. 0 .. x \in Starts
  OBVIOUS
<1> HIDE DEF Starts, Upto
<1>6. PICK s \in Starts : \A t \in Starts : ~ (<<t, s>> \in StrictSubsetOrdering(Upto))
  BY <1>3, <1>4, <1>5, WFMin
<1> USE DEF Starts, Upto
<1>7. PICK m \in S \cap Upto : s = 0 .. m
  BY <1>6
<1>8. ASSUME NEW n \in S, n < m PROVE FALSE
  <2>1. 0 .. n \in Starts
    BY <1>7, <1>8
  <2>2. <<0 .. n, s>> \in StrictSubsetOrdering(Upto)
    BY <1>7, <1>8 DEF StrictSubsetOrdering
  <2> QED BY <1>6, <2>1, <2>2
<1> QED BY <1>7, <1>8

\* The sizes of the calendar.
LEMMA CalendarSizes ==
  /\ SecondsPerMinute \in Nat \ {0} /\ DaysPerWeek \in Nat \ {0} /\ HorizonDays \in Nat \ {0}
  /\ MinutesPerDay \in Nat \ {0}
  /\ HorizonDays * MinutesPerDay * SecondsPerMinute \in Nat
<1>1. /\ SecondsPerMinute \in Nat \ {0} /\ DaysPerWeek \in Nat \ {0} /\ HorizonDays \in Nat \ {0}
      /\ MinutesPerHour \in Nat \ {0} /\ HoursPerDay \in Nat \ {0}
  BY CronAssumption
<1>2. \A a, b \in Nat \ {0} : a * b \in Nat \ {0}
  OBVIOUS
<1>3. MinutesPerDay \in Nat \ {0}
  BY <1>1, <1>2 DEF MinutesPerDay
<1>4. HorizonDays * MinutesPerDay \in Nat \ {0}
  BY <1>1, <1>2, <1>3
<1>5. QED BY <1>1, <1>2, <1>3, <1>4

\* A token of a field adds what it denotes: its steps up to the end of its range.
LEMMA StepsAreMultiples ==
  ASSUME NEW a \in Nat, NEW b \in Nat, NEW s \in Nat \ {0}, NEW v \in Int
  PROVE  (\E n \in 0 .. (b - a) \div s : v = a + n * s) <=> v \in a .. b /\ (v - a) % s = 0
<1>1. ASSUME NEW n \in 0 .. (b - a) \div s, v = a + n * s
      PROVE  v \in a .. b /\ (v - a) % s = 0
  <2> DEFINE q == (b - a) \div s
  <2>1. q \in Nat /\ n \in Nat /\ n <= q
    BY <1>1
  <2>2. q * s <= b - a
    OBVIOUS
  <2>3. \A i, j \in Nat : i <= j => i * s <= j * s /\ 0 <= i * s
    OBVIOUS
  <2>4. n * s \in 0 .. b - a
    <3> HIDE DEF q
    <3>1. n * s <= q * s /\ 0 <= n * s
      BY <2>1, <2>3
    <3>2. n * s \in Int /\ q * s \in Int
      BY <2>1
    <3>3. QED BY <2>2, <3>1, <3>2
  <2>5. \A i \in Nat : (i * s) % s = 0
    OBVIOUS
  <2>6. v - a = n * s
    BY <1>1, <2>4
  <2>7. QED BY <2>1, <2>4, <2>5, <2>6
<1>2. ASSUME v \in a .. b, (v - a) % s = 0
      PROVE  \E n \in 0 .. (b - a) \div s : v = a + n * s
  <2>1. (v - a) \div s \in 0 .. (b - a) \div s
    BY <1>2
  <2>2. v = a + ((v - a) \div s) * s
    BY <1>2
  <2>3. QED BY <2>1, <2>2
<1>3. QED BY <1>1, <1>2

\* What the parsed field holds is what one of its tokens denotes.
LEMMA FieldsMean ==
  ASSUME NEW e \in Expressions, IsSupportedCronExpression(e), NEW f \in FieldNames,
         NEW minute \in Int
  PROVE  ValueAt(f, minute) \in Parsed(e)[f] <=> FieldFires(e, f, minute)
<1> DEFINE value == ValueAt(f, minute)
<1>1. f = "daysOfWeek" => value \in 0 .. DaysPerWeek - 1
  <2>1. MinutesPerDay \in Nat \ {0} /\ DaysPerWeek \in Nat \ {0}
    BY CalendarSizes
  <2>2. minute \div MinutesPerDay \in Int
    BY <2>1
  <2>3. \A day \in Int : day % DaysPerWeek \in 0 .. DaysPerWeek - 1
    BY <2>1
  <2>4. QED BY <2>2, <2>3 DEF ValueAt
<1> HIDE DEF value
<1>2. ASSUME NEW token \in e[f].tokens
      PROVE  value \in Added(f, token) <=> Denotes(f, token, value)
  <2>1. token \in CronToken /\ IsSupportedToken(f, token)
    BY <1>2, CronAssumption DEF IsSupportedCronExpression
  <2>2. /\ token.start \in Nat /\ token.end \in Nat /\ token.step \in Nat \ {0}
        /\ token.end <= Highest(f)
    BY <2>1 DEF CronToken, IsSupportedToken, LowestIn
  <2>3. f = "daysOfWeek" => Highest(f) = DaysPerWeek
    BY DEF Highest
  <2>4. \A v \in Int : (\E n \in 0 .. (token.end - token.start) \div token.step :
                           v = token.start + n * token.step)
                       <=> v \in token.start .. token.end /\ (v - token.start) % token.step = 0
    BY <2>2, StepsAreMultiples
  <2>5. \A n \in 0 .. (token.end - token.start) \div token.step : token.start + n * token.step \in Int
    BY <2>2
  <2>6. value \in Added(f, token)
          <=> \E v \in token.start .. token.end : /\ (v - token.start) % token.step = 0
                                                 /\ value = Normalized(f, v)
    <3>1. value \in Added(f, token)
            <=> \E n \in 0 .. (token.end - token.start) \div token.step :
                  value = Normalized(f, token.start + n * token.step)
      BY DEF Added
    <3> DEFINE steps == 0 .. (token.end - token.start) \div token.step
               range == token.start .. token.end
               Value(n) == token.start + n * token.step
               Multiple(v) == (v - token.start) % token.step = 0
    <3>2. /\ \A v \in Int : (\E n \in steps : v = Value(n)) <=> v \in range /\ Multiple(v)
          /\ \A n \in steps : Value(n) \in Int
          /\ value \in Added(f, token) <=> \E n \in steps : value = Normalized(f, Value(n))
      BY <2>4, <2>5, <3>1
    <3>3. range \subseteq Int
      BY <2>2
    <3> HIDE DEF steps, range, Value, Multiple
    <3>4. value \in Added(f, token) <=> \E v \in range : Multiple(v) /\ value = Normalized(f, v)
      BY <3>2, <3>3
    <3>5. QED BY <3>4 DEF range, Multiple
  <2>7. ASSUME NEW v \in token.start .. token.end
        PROVE  value = Normalized(f, v)
                 <=> v = value \/ (f = "daysOfWeek" /\ v = value + DaysPerWeek)
    <3>1. v \in Nat /\ v <= token.end
      BY <2>2
    <3>2. CASE f = "daysOfWeek"
      <4>1. v <= DaysPerWeek /\ DaysPerWeek \in Nat \ {0} /\ value \in 0 .. DaysPerWeek - 1
        BY <1>1, <2>2, <2>3, <3>1, <3>2, CalendarSizes
      <4>2. Normalized(f, v) = IF v = DaysPerWeek THEN 0 ELSE v
        BY <3>2 DEF Normalized
      <4>3. value = (IF v = DaysPerWeek THEN 0 ELSE v) <=> v = value \/ v = value + DaysPerWeek
        <5>1. CASE v = DaysPerWeek
          BY <4>1, <5>1
        <5>2. CASE v # DaysPerWeek
          BY <3>1, <4>1, <5>2
        <5>3. QED BY <5>1, <5>2
      <4>4. QED BY <3>2, <4>2, <4>3
    <3>3. CASE f # "daysOfWeek"
      BY <3>3 DEF Normalized
    <3>4. QED BY <3>2, <3>3
  <2>8. QED BY <2>6, <2>7 DEF Denotes
<1>3. value \in Parsed(e)[f] <=> \E token \in e[f].tokens : value \in Added(f, token)
  BY DEF Parsed
<1>4. QED BY <1>2, <1>3 DEF FieldFires, value

\* The loop stops at the minutes at which the expression fires.
LEMMA MatchingIsFiring ==
  ASSUME NEW e \in Expressions, IsSupportedCronExpression(e), NEW minute \in Int
  PROVE  MatchesSchedule(e, minute) <=> Fires(e, minute)
<1>1. \A f \in FieldNames : ValueAt(f, minute) \in Parsed(e)[f] <=> FieldFires(e, f, minute)
  BY FieldsMean
<1>2. MatchesSchedule(e, minute)
        <=> /\ FieldFires(e, "minutes", minute) /\ FieldFires(e, "hours", minute)
            /\ FieldFires(e, "months", minute)
            /\ MatchesCronDay(e, FieldFires(e, "daysOfMonth", minute), FieldFires(e, "daysOfWeek", minute))
  <2> DEFINE matches == [f \in FieldNames |-> ValueAt(f, minute) \in Parsed(e)[f]]
  <2>1. MatchesSchedule(e, minute)
          <=> /\ matches["minutes"] /\ matches["hours"] /\ matches["months"]
              /\ MatchesCronDay(e, matches["daysOfMonth"], matches["daysOfWeek"])
    BY DEF MatchesSchedule
  <2>2. \A f \in FieldNames : matches[f] <=> FieldFires(e, f, minute)
    BY <1>1
  <2> HIDE DEF matches
  <2>3. QED BY <2>1, <2>2, Zenon DEF FieldNames, MatchesCronDay
<1>3. DayFires(e, minute)
        <=> MatchesCronDay(e, FieldFires(e, "daysOfMonth", minute), FieldFires(e, "daysOfWeek", minute))
  <2>1. e["daysOfMonth"].wildcard \in BOOLEAN /\ e["daysOfWeek"].wildcard \in BOOLEAN
    BY CronAssumption DEF FieldNames
  <2>2. DayFires(e, minute)
          <=> \/ e["daysOfMonth"].wildcard /\ e["daysOfWeek"].wildcard
              \/ ~e["daysOfMonth"].wildcard /\ FieldFires(e, "daysOfMonth", minute)
              \/ ~e["daysOfWeek"].wildcard /\ FieldFires(e, "daysOfWeek", minute)
    BY Zenon DEF DayFires
  <2>3. QED BY <2>1, <2>2 DEF MatchesCronDay
<1>4. QED BY <1>2, <1>3 DEF Fires

\* The loop finds the first minute that matches, or none up to the deadline.
LEMMA SearchFindsFirst ==
  ASSUME NEW e, NEW from \in Nat
  PROVE  LET last == Deadline(from) \div SecondsPerMinute
             next == ComputeNextCronRun(e, from)
         IN \/ /\ next = NoRun
               /\ \A minute \in FirstCandidate(from) .. last : ~MatchesSchedule(e, minute)
            \/ /\ next \in FirstCandidate(from) .. last /\ MatchesSchedule(e, next)
               /\ \A minute \in FirstCandidate(from) .. next - 1 : ~MatchesSchedule(e, minute)
<1> DEFINE first == FirstCandidate(from)
           last == Deadline(from) \div SecondsPerMinute
           M(minute) == MatchesSchedule(e, minute)
           Searches(s) == s = [minute \in first .. last + 1 |->
                                 IF minute > last THEN NoRun
                                 ELSE IF M(minute) THEN minute ELSE s[minute + 1]]
           Right(minute, next) ==
             \/ next = NoRun /\ \A m \in minute .. last : ~M(m)
             \/ next \in minute .. last /\ M(next) /\ \A m \in minute .. next - 1 : ~M(m)
<1>1. first \in Nat /\ last \in Nat /\ first <= last + 1
  <2>1. SecondsPerMinute \in Nat \ {0}
    BY CalendarSizes
  <2>2. Deadline(from) \in Nat /\ Deadline(from) >= from
    BY CalendarSizes DEF Deadline
  <2>3. (from + SecondsPerMinute) \div SecondsPerMinute = from \div SecondsPerMinute + 1
    BY <2>1
  <2>4. \A a, b \in Nat : a <= b => a \div SecondsPerMinute <= b \div SecondsPerMinute
    BY <2>1
  <2>5. \A a \in Nat : a \div SecondsPerMinute \in Nat
    BY <2>1
  <2>6. QED BY <2>2, <2>3, <2>4, <2>5 DEF FirstCandidate
<1>2. ComputeNextCronRun(e, from) = (CHOOSE s : Searches(s))[first]
  BY DEF ComputeNextCronRun
<1> HIDE DEF M, first, last
<1>3. \A minute \in first .. last : \E next : Right(minute, next)
  <2> SUFFICES ASSUME NEW minute \in first .. last PROVE \E next : Right(minute, next)
    OBVIOUS
  <2> DEFINE Matching == {m \in minute .. last : M(m)}
  <2>1. CASE Matching = {}
    BY <2>1
  <2>2. CASE Matching # {}
    <3>1. Matching \subseteq Nat
      BY <1>1
    <3>2. PICK next \in Matching : \A m \in Matching : next <= m
      <4> HIDE DEF Matching
      <4> QED BY <2>2, <3>1, LeastExists
    <3>3. Right(minute, next)
      BY <1>1, <3>2
    <3>4. QED BY <3>3
  <2>3. QED BY <2>1, <2>2
<1> DEFINE found == [minute \in first .. last + 1 |->
                       IF minute > last THEN NoRun ELSE CHOOSE next : Right(minute, next)]
<1>4. \A minute \in first .. last : Right(minute, found[minute])
  <2> SUFFICES ASSUME NEW minute \in first .. last PROVE Right(minute, found[minute])
    OBVIOUS
  <2>1. found[minute] = CHOOSE next : Right(minute, next)
    BY <1>1
  <2> HIDE DEF Right, found
  <2>2. QED BY <1>3, <2>1
<1>5. Searches(found)
  <2>0. found = [minute \in first .. last + 1 |-> found[minute]]
    OBVIOUS
  <2> SUFFICES ASSUME NEW minute \in first .. last + 1
               PROVE  found[minute] = IF minute > last THEN NoRun
                                      ELSE IF M(minute) THEN minute ELSE found[minute + 1]
    <3> HIDE DEF found
    <3> QED BY <2>0
  <2>1. CASE minute > last
    BY <2>1
  <2>2. CASE minute <= last
    <3>1. minute \in first .. last /\ minute + 1 \in first .. last + 1
      BY <1>1, <2>2
    <3>2. Right(minute, found[minute])
      BY <1>4, <3>1
    <3>3. CASE M(minute)
      <4> HIDE DEF found
      <4> QED BY <1>1, <2>2, <3>1, <3>2, <3>3
    <3>4. CASE ~M(minute) /\ minute = last
      <4>1. found[minute + 1] = NoRun
        BY <1>1, <3>1, <3>4
      <4> HIDE DEF found
      <4> QED BY <1>1, <2>2, <3>1, <3>2, <3>4, <4>1
    <3>5. CASE ~M(minute) /\ minute < last
      <4>0. minute + 1 \in first .. last
        BY <1>1, <3>1, <3>5
      <4> HIDE DEF found
      <4>1. Right(minute + 1, found[minute + 1])
        <5> HIDE DEF Right
        <5> QED BY <1>4, <4>0
      <4>2. found[minute] \in Int /\ found[minute + 1] \in Int
        BY <1>1, <3>1, <3>2, <4>1 DEF NoRun
      <4> QED BY <1>1, <2>2, <3>1, <3>2, <3>5, <4>1, <4>2 DEF NoRun
    <3>6. QED BY <1>1, <2>2, <3>1, <3>3, <3>4, <3>5
  <2>3. QED BY <1>1, <2>1, <2>2
<1> DEFINE search == CHOOSE s : Searches(s)
<1>6. Searches(search)
  <2> HIDE DEF Searches, found
  <2> QED BY <1>5
<1> HIDE DEF search, found
<1>7. \A minute \in first .. last + 1 :
        search[minute] = IF minute > last THEN NoRun
                         ELSE IF M(minute) THEN minute ELSE search[minute + 1]
  BY <1>6
<1>8. \A minute \in first .. last : Right(minute, search[minute])
  <2> DEFINE Wrong == {n \in Nat : last - n \in first .. last /\ ~Right(last - n, search[last - n])}
  <2>1. CASE Wrong = {}
    <3>1. \A minute \in first .. last : last - minute \in Nat /\ last - (last - minute) = minute
      BY <1>1
    <3> HIDE DEF Right
    <3> QED BY <2>1, <3>1
  <2>2. CASE Wrong # {}
    <3>1. PICK n \in Wrong : \A k \in Wrong : n <= k
      <4>1. Wrong \subseteq Nat
        OBVIOUS
      <4> HIDE DEF Wrong
      <4> QED BY <2>2, <4>1, LeastExists
    <3> DEFINE minute == last - n
    <3>2. minute \in first .. last /\ ~Right(minute, search[minute]) /\ n \in Nat
      BY <3>1
    <3>3. minute + 1 \in first .. last => Right(minute + 1, search[minute + 1])
      <4> SUFFICES ASSUME minute + 1 \in first .. last, ~Right(minute + 1, search[minute + 1])
                   PROVE  FALSE
        OBVIOUS
      <4>1. n - 1 \in Nat /\ last - (n - 1) = minute + 1
        BY <1>1, <3>2
      <4> HIDE DEF Right
      <4>2. n - 1 \in Wrong
        BY <4>1
      <4>3. QED BY <3>1, <3>2, <4>1, <4>2
    <3> HIDE DEF minute
    <3>4. search[minute] = IF M(minute) THEN minute ELSE search[minute + 1]
      BY <1>1, <1>7, <3>2
    <3>5. minute = last => search[minute + 1] = NoRun
      BY <1>1, <1>7, <3>2
    <3>6. CASE M(minute)
      BY <1>1, <3>2, <3>4, <3>6
    <3>7. CASE ~M(minute) /\ minute = last
      BY <1>1, <3>2, <3>4, <3>5, <3>7
    <3>8. CASE ~M(minute) /\ minute < last
      <4>1. minute + 1 \in first .. last /\ minute \in Nat
        BY <1>1, <3>2, <3>8
      <4>2. search[minute] = search[minute + 1] /\ Right(minute + 1, search[minute + 1])
        BY <3>3, <3>4, <3>8, <4>1
      <4>3. Right(minute, search[minute + 1])
        BY <1>1, <3>8, <4>1, <4>2
      <4>4. QED BY <3>2, <4>2, <4>3
    <3>9. QED BY <1>1, <3>2, <3>6, <3>7, <3>8
  <2>3. QED BY <2>1, <2>2
<1>9. Right(first, search[first])
  <2>1. CASE first <= last
    BY <1>1, <1>8, <2>1
  <2>2. CASE first = last + 1
    BY <1>1, <1>7, <2>2
  <2>3. QED BY <1>1, <2>1, <2>2
<1>10. QED
  BY <1>2, <1>9 DEF M, first, last, search

\* What is known of a registration: its expression was accepted, and its next
\* run was computed from its time.
CronInv ==
  \E e \in Expressions : \E from \in Nat :
    /\ IsSupportedCronExpression(e)
    /\ schedule = [expression |-> e, from |-> from, next |-> ComputeNextCronRun(e, from)]

LEMMA CronStarts == CronInit => CronInv
<1> SUFFICES ASSUME CronInit PROVE CronInv
  OBVIOUS
<1>1. PICK e \in Expressions, from \in 0 .. LatestStart :
        /\ IsSupportedCronExpression(e)
        /\ schedule = [expression |-> e, from |-> from, next |-> ComputeNextCronRun(e, from)]
  BY DEF CronInit
<1>2. from \in Nat
  BY CronAssumption
<1>3. QED BY <1>1, <1>2 DEF CronInv

LEMMA CronStep == CronInv /\ [CronNext]_schedule => CronInv'
<1> SUFFICES ASSUME CronInv, [CronNext]_schedule PROVE CronInv'
  OBVIOUS
<1>1. PICK e \in Expressions, from \in Nat :
        /\ IsSupportedCronExpression(e)
        /\ schedule = [expression |-> e, from |-> from, next |-> ComputeNextCronRun(e, from)]
  BY DEF CronInv
<1>2. CASE UNCHANGED schedule
  BY <1>1, <1>2 DEF CronInv
<1>3. ASSUME NEW delay \in Delays, RunAndReschedule(delay) PROVE CronInv'
  <2> DEFINE later == schedule.next * SecondsPerMinute + delay
  <2>1. later \in Nat
    <3>1. schedule.next \in Nat
      <4>1. schedule.next = ComputeNextCronRun(e, from) /\ schedule.next # NoRun
        BY <1>1, <1>3 DEF RunAndReschedule
      <4>2. FirstCandidate(from) \in Nat /\ Deadline(from) \div SecondsPerMinute \in Nat
        BY CalendarSizes DEF FirstCandidate, Deadline
      <4>3. schedule.next \in FirstCandidate(from) .. Deadline(from) \div SecondsPerMinute
        BY <1>1, <4>1, SearchFindsFirst
      <4>4. QED BY <4>2, <4>3
    <3>2. SecondsPerMinute \in Nat /\ delay \in Nat
      BY <1>3, CronAssumption
    <3>3. QED BY <3>1, <3>2
  <2>2. schedule' = [expression |-> e, from |-> later, next |-> ComputeNextCronRun(e, later)]
    BY <1>1, <1>3 DEF RunAndReschedule
  <2> HIDE DEF later
  <2>3. QED BY <1>1, <2>1, <2>2 DEF CronInv
<1>4. QED BY <1>2, <1>3 DEF CronNext

\* The next run of a cron expression is the first minute after the computation
\* at which it fires, and there is none only where none is within the horizon:
\* for every expression, every length of hours, days, weeks, months and years,
\* and however long the runs take.
THEOREM NextRunHolds == CronSpec => []NextRunIsFirst
<1>1. CronInv => NextRunIsFirst
  <2> SUFFICES ASSUME CronInv PROVE NextRunIsFirst
    OBVIOUS
  <2>1. PICK e \in Expressions, from \in Nat :
          /\ IsSupportedCronExpression(e)
          /\ schedule = [expression |-> e, from |-> from, next |-> ComputeNextCronRun(e, from)]
    BY DEF CronInv
  <2> DEFINE last == Deadline(from) \div SecondsPerMinute
             horizon == {minute \in from \div SecondsPerMinute .. last :
                           minute * SecondsPerMinute > from}
             next == ComputeNextCronRun(e, from)
  <2>2. horizon = FirstCandidate(from) .. last
    <3>1. SecondsPerMinute \in Nat \ {0} /\ last \in Nat
      BY CalendarSizes DEF Deadline
    <3>2. FirstCandidate(from) = from \div SecondsPerMinute + 1 /\ from \div SecondsPerMinute \in Nat
      BY <3>1 DEF FirstCandidate
    <3>3. ASSUME NEW minute \in Int
          PROVE  minute * SecondsPerMinute > from <=> minute > from \div SecondsPerMinute
      BY <3>1
    <3> HIDE DEF last
    <3>4. QED BY <3>1, <3>2, <3>3
  <2>3. \A minute \in Int : MatchesSchedule(e, minute) <=> Fires(e, minute)
    BY <2>1, MatchingIsFiring
  <2>4. \/ next = NoRun /\ \A minute \in horizon : ~MatchesSchedule(e, minute)
        \/ /\ next \in horizon /\ MatchesSchedule(e, next)
           /\ \A minute \in FirstCandidate(from) .. next - 1 : ~MatchesSchedule(e, minute)
    <3> HIDE DEF horizon
    <3> QED BY <2>2, SearchFindsFirst
  <2>5. FirstCandidate(from) \in Nat /\ last \in Nat
    BY CalendarSizes DEF FirstCandidate, Deadline
  <2>6. horizon \subseteq Nat
    BY <2>2, <2>5
  <2>7. schedule.expression = e /\ schedule.from = from /\ schedule.next = next
    BY <2>1
  <2> HIDE DEF next, horizon, last
  <2>8. IF next = NoRun THEN \A minute \in horizon : ~Fires(e, minute)
        ELSE /\ next \in horizon /\ Fires(e, next)
             /\ \A minute \in horizon : minute < next => ~Fires(e, minute)
    BY <2>2, <2>3, <2>4, <2>5, <2>6 DEF NoRun
  <2>9. QED BY <2>7, <2>8 DEF NextRunIsFirst, next, horizon, last
<1>2. QED BY <1>1, CronStarts, CronStep, PTL DEF CronSpec
=============================================================================
