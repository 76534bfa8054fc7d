---------------------------- MODULE CorePersistence ----------------------------
(***************************************************************************)
(* How one API process keeps the backend core's memory in PostgreSQL.      *)
(* Requests change the in-memory store first and save it afterwards: the   *)
(* coordinator orders the saves with one promise (pendingSave), a save     *)
(* replaces every table of its scopes by what the memory holds, and the    *)
(* executor lets whoever finds activeClient set join that transaction.     *)
(*                                                                         *)
(* A request's change is one row in each table of its scopes, named after  *)
(* the request.  A statement is one step; it waits while another           *)
(* connection has uncommitted changes of its rows.                         *)
(***************************************************************************)
EXTENDS Integers, Sequences, FiniteSets

CONSTANTS
  Requests,     \* requests that change the store
  Scopes,       \* persistence scopes, one table each
  ScopesOf,     \* the scopes a request saves, in order
  Background,   \* requests answered before they are saved (persistSync)
  Events,       \* requests that append a webhook event
  NoRequest,    \* the promise resolved at the start
  Pool,         \* activeClient = null: statements go to the pool
  MaxWaiting,   \* saves that wait for pendingSave at one time
  MaxFailures,  \* statements that fail
  MaxCrashes    \* exits of the process

ASSUME PersistenceAssumption ==
  /\ ScopesOf \in [Requests -> Seq(Scopes)]
  /\ Background \subseteq Requests /\ Events \subseteq Requests \ Background
  /\ NoRequest \notin Requests
  /\ Pool \notin Requests \X {"outer", "inner"}
  /\ MaxWaiting \in Nat /\ MaxFailures \in Nat /\ MaxCrashes \in Nat

VARIABLES memory,        \* the in-memory store
          tables,        \* committed rows
          outbox,        \* committed rows of event_outbox
          saves,         \* where each request is
          pendingSave,   \* the request whose save pendingSave stands for
          activeClient,  \* the connection statements are sent to
          tx,            \* what each connection has not committed
          budget         \* failures and crashes so far

saveVars == <<memory, tables, outbox, saves, pendingSave, activeClient, tx, budget>>

-----------------------------------------------------------------------------
Levels == {"outer", "inner"}   \* persistScopes' transaction and replaceTables'
Connections == Requests \X Levels
Store == [Scopes -> SUBSET Requests]
SaveSteps == {"idle", "queued", "connecting", "scope", "delete", "insert", "event",
          "end", "release", "saved", "failed", "gone"}

Save == [step : SaveSteps,
         after : Requests \cup {NoRequest},  \* the promise it waits for
         level : Levels,                     \* of the call it is in
         own : SUBSET Levels,                \* transactions it has begun itself
         at : Nat,                           \* index of the scope being saved
         rows : SUBSET Requests,             \* still to insert
         ok : BOOLEAN]

Transaction == [open : BOOLEAN, failed : BOOLEAN,
                deleted : Store, inserted : Store, events : SUBSET Requests]

SaveTypeOK ==
  /\ memory \in Store /\ tables \in Store
  /\ outbox \in SUBSET Requests
  /\ saves \in [Requests -> Save]
  /\ \A r \in Requests : saves[r].at \in 1 .. Len(ScopesOf[r]) + 1
  /\ pendingSave \in Requests \cup {NoRequest}
  /\ activeClient \in Connections \cup {Pool}
  /\ tx \in [Connections -> Transaction]
  /\ budget \in [failures : 0 .. MaxFailures, crashes : 0 .. MaxCrashes]

Empty == [s \in Scopes |-> {}]
Closed == [open |-> FALSE, failed |-> FALSE,
           deleted |-> Empty, inserted |-> Empty, events |-> {}]
Begun == [Closed EXCEPT !.open = TRUE]
SaveIdle == [step |-> "idle", after |-> NoRequest, level |-> "outer", own |-> {},
         at |-> 1, rows |-> {}, ok |-> TRUE]

SaveInit ==
  /\ memory = Empty /\ tables = Empty /\ outbox = {}
  /\ saves = [r \in Requests |-> SaveIdle]
  /\ pendingSave = NoRequest /\ activeClient = Pool
  /\ tx = [c \in Connections |-> Closed]
  /\ budget = [failures |-> 0, crashes |-> 0]

-----------------------------------------------------------------------------
SaveAt(r, step) == saves[r].step = step
SaveGoes(r, to) == saves' = [saves EXCEPT ![r] = to]
Holds(r, s) == \E i \in DOMAIN ScopesOf[r] : ScopesOf[r][i] = s
Scope(r) == ScopesOf[r][saves[r].at]
Database == <<tables, outbox, tx>>

\* Mutant: the chained save is caught as well.
RejectedNever(p) == FALSE

\* The promises: a save that was answered by persistNow is caught, one that
\* persistSync has chained is not.
Rejected(p) == p \in Background /\ saves[p].step = "failed"
SaveSettled(p) == p # NoRequest => saves[p].step \in {"saved", "failed"}

\* Mutant: pendingSave is assigned before the flush, so a save waits for itself.
FlushedOfItself(r) == r

FlushedOf(r) == pendingSave

Fails == /\ budget.failures < MaxFailures
         /\ budget' = [budget EXCEPT !.failures = @ + 1]

\* The operation of persistAfter or persistSync changes the memory; then the
\* save waits for the pending ones.
Operate(r) ==
  /\ SaveAt(r, "idle")
  /\ Cardinality({q \in Requests : SaveAt(q, "queued")}) < MaxWaiting
  /\ memory' = [s \in Scopes |-> memory[s] \cup IF Holds(r, s) THEN {r} ELSE {}]
  /\ SaveGoes(r, [SaveIdle EXCEPT !.step = "queued", !.after = FlushedOf(r)])
  /\ pendingSave' = IF r \in Background THEN r ELSE pendingSave
  /\ UNCHANGED <<Database, activeClient, budget>>

\* The operation changed something a webhook event tells of.
Emits(r) == r \in Events

\* An operation changes the memory and throws, as a refused login does: nothing
\* is saved.
OperationThrows(r) ==
  /\ SaveAt(r, "idle") /\ r \notin Background /\ ~Emits(r)
  /\ memory' = [s \in Scopes |-> memory[s] \cup IF Holds(r, s) THEN {r} ELSE {}]
  /\ SaveGoes(r, [SaveIdle EXCEPT !.step = "failed", !.ok = FALSE])
  /\ UNCHANGED <<Database, pendingSave, activeClient, budget>>

-----------------------------------------------------------------------------
(* The executor.                                                            *)

\* transaction(): join the active one, or ask the pool for a client.
Enter(r, level, joined) ==
  IF activeClient = Pool
    THEN [saves[r] EXCEPT !.step = "connecting", !.level = level]
    ELSE [saves[r] EXCEPT !.step = joined, !.level = level]

\* persistNow and the chained save of persistSync, once the flush is over.
StartSave(r) ==
  /\ SaveAt(r, "queued") /\ SaveSettled(saves[r].after)
  /\ IF Rejected(saves[r].after)
       THEN SaveGoes(r, [saves[r] EXCEPT !.step = "failed"]) /\ UNCHANGED pendingSave
       ELSE /\ SaveGoes(r, Enter(r, "outer", "scope"))
            /\ pendingSave' = IF r \in Background THEN pendingSave ELSE r
  /\ UNCHANGED <<memory, Database, activeClient, budget>>

\* The client arrives: whoever set activeClient meanwhile is not looked at.
Connected(r) ==
  LET c == <<r, saves[r].level>> IN
  /\ SaveAt(r, "connecting")
  /\ activeClient' = c
  /\ tx' = [tx EXCEPT ![c] = Begun]
  /\ SaveGoes(r, [saves[r] EXCEPT !.own = @ \cup {c[2]},
                              !.step = IF c[2] = "outer" THEN "scope" ELSE "delete"])
  /\ UNCHANGED <<memory, tables, outbox, pendingSave, budget>>

\* The transaction call ends, here or after the release of its client: the
\* outer call's body goes on, or the save is over.
Left(save) ==
  IF save.level = "outer" THEN [save EXCEPT !.step = IF save.ok THEN "saved" ELSE "failed"]
  ELSE IF save.ok THEN [save EXCEPT !.step = "scope", !.at = @ + 1]
  ELSE [save EXCEPT !.step = "end", !.level = "outer"]

\* No client, or BEGIN fails (then the client is active).
ConnectFails(r) ==
  LET c == <<r, saves[r].level>> IN
  /\ SaveAt(r, "connecting") /\ Fails
  /\ \/ SaveGoes(r, Left([saves[r] EXCEPT !.ok = FALSE])) /\ UNCHANGED activeClient
     \/ /\ SaveGoes(r, [saves[r] EXCEPT !.step = "end", !.own = @ \cup {c[2]}, !.ok = FALSE])
        /\ activeClient' = c
  /\ UNCHANGED <<memory, Database, pendingSave>>

-----------------------------------------------------------------------------
(* Statements go to activeClient, inside its transaction while that is open. *)

\* Mutant: statements never use the transaction's client.
InTransactionNever == FALSE

InTransaction == activeClient # Pool /\ tx[activeClient].open
Refused == InTransaction /\ tx[activeClient].failed
Locked(s, rows) ==
  \E c \in Connections \ {activeClient} :
     tx[c].open /\ rows \cap (tx[c].deleted[s] \cup tx[c].inserted[s]) # {}
Visible(s) == IF InTransaction
                THEN (tables[s] \ tx[activeClient].deleted[s]) \cup tx[activeClient].inserted[s]
                ELSE tables[s]

\* The next scope, or the event, or the end of the outer body.
NextScope(r) ==
  /\ SaveAt(r, "scope")
  /\ SaveGoes(r, IF saves[r].at <= Len(ScopesOf[r]) THEN Enter(r, "inner", "delete")
             ELSE [saves[r] EXCEPT !.level = "outer",
                                   !.step = IF Emits(r) THEN "event" ELSE "end"])
  /\ UNCHANGED <<memory, Database, pendingSave, activeClient, budget>>

RowsOf(s) == memory[s]

\* DELETE FROM the table; then the rows to insert are read from the memory.
Delete(r) ==
  LET s == Scope(r) IN
  /\ SaveAt(r, "delete") /\ ~Refused /\ ~Locked(s, tables[s])
  /\ IF InTransaction
       THEN /\ tx' = [tx EXCEPT ![activeClient].deleted[s] = @ \cup tables[s],
                                ![activeClient].inserted[s] = {}]
            /\ UNCHANGED tables
       ELSE tables' = [tables EXCEPT ![s] = {}] /\ UNCHANGED tx
  /\ SaveGoes(r, [saves[r] EXCEPT !.step = "insert", !.rows = RowsOf(s)])
  /\ UNCHANGED <<memory, outbox, pendingSave, activeClient, budget>>

Insert(r) ==
  LET s == Scope(r) IN
  /\ SaveAt(r, "insert") /\ ~Refused
  /\ \E row \in saves[r].rows \ Visible(s) :
       /\ ~Locked(s, {row})
       /\ IF InTransaction
            THEN /\ tx' = [tx EXCEPT ![activeClient].inserted[s] = @ \cup {row}]
                 /\ UNCHANGED tables
            ELSE tables' = [tables EXCEPT ![s] = @ \cup {row}] /\ UNCHANGED tx
       /\ SaveGoes(r, [saves[r] EXCEPT !.rows = @ \ {row},
                                   !.step = IF saves[r].rows = {row} THEN "end" ELSE "insert"])
  /\ UNCHANGED <<memory, outbox, pendingSave, activeClient, budget>>

\* Mutant: the event is not written in the transaction.
AppendEventOutside(r) ==
  /\ SaveAt(r, "event") /\ ~Refused
  /\ outbox' = outbox \cup {r}
  /\ SaveGoes(r, [saves[r] EXCEPT !.step = "end"])
  /\ UNCHANGED <<memory, tables, tx, pendingSave, activeClient, budget>>

\* appendWebhookEvent
AppendEvent(r) ==
  /\ SaveAt(r, "event") /\ ~Refused
  /\ IF InTransaction
       THEN tx' = [tx EXCEPT ![activeClient].events = @ \cup {r}] /\ UNCHANGED outbox
       ELSE outbox' = outbox \cup {r} /\ UNCHANGED tx
  /\ SaveGoes(r, [saves[r] EXCEPT !.step = "end"])
  /\ UNCHANGED <<memory, tables, pendingSave, activeClient, budget>>

\* A statement fails, inserts a key that is there, or comes after one that has
\* failed in its transaction.
StatementFails(r) ==
  /\ saves[r].step \in {"delete", "insert", "event"}
  /\ \/ Fails
     \/ /\ Refused \/ (SaveAt(r, "insert") /\ saves[r].rows \cap Visible(Scope(r)) # {})
        /\ UNCHANGED budget
  /\ tx' = IF InTransaction THEN [tx EXCEPT ![activeClient].failed = TRUE] ELSE tx
  /\ SaveGoes(r, [saves[r] EXCEPT !.step = "end", !.ok = FALSE])
  /\ UNCHANGED <<memory, tables, outbox, pendingSave, activeClient>>

-----------------------------------------------------------------------------
(* The end of a transaction call.                                           *)

Owns(r) == saves[r].level \in saves[r].own
Applied(c) == [s \in Scopes |-> (tables[s] \ tx[c].deleted[s]) \cup tx[c].inserted[s]]

\* COMMIT; of a transaction that has failed it is a rollback and no error.
CommitEffect(c) ==
  IF tx[c].failed THEN UNCHANGED <<tables, outbox>>
  ELSE tables' = Applied(c) /\ outbox' = outbox \cup tx[c].events

Ended(c) == tx' = [tx EXCEPT ![c] = Closed]

Commit(r) ==
  LET c == <<r, saves[r].level>> IN
  /\ SaveAt(r, "end") /\ Owns(r) /\ saves[r].ok
  /\ Ended(c) /\ CommitEffect(c)
  /\ SaveGoes(r, [saves[r] EXCEPT !.step = "release"])
  /\ UNCHANGED <<memory, pendingSave, activeClient, budget>>

\* The answer to COMMIT is lost: it may have been done.
CommitFails(r) ==
  LET c == <<r, saves[r].level>> IN
  /\ SaveAt(r, "end") /\ Owns(r) /\ saves[r].ok /\ Fails
  /\ Ended(c) /\ (CommitEffect(c) \/ UNCHANGED <<tables, outbox>>)
  /\ SaveGoes(r, [saves[r] EXCEPT !.step = "release", !.ok = FALSE])
  /\ UNCHANGED <<memory, pendingSave, activeClient>>

Rollback(r) ==
  /\ SaveAt(r, "end") /\ Owns(r) /\ ~saves[r].ok
  /\ Ended(<<r, saves[r].level>>)
  /\ SaveGoes(r, [saves[r] EXCEPT !.step = "release"])
  /\ UNCHANGED <<memory, tables, outbox, pendingSave, activeClient, budget>>

\* finally: activeClient = null, whoever's client it was.
SaveRelease(r) ==
  /\ SaveAt(r, "release")
  /\ activeClient' = Pool
  /\ SaveGoes(r, Left([saves[r] EXCEPT !.own = @ \ {saves[r].level}]))
  /\ UNCHANGED <<memory, Database, pendingSave, budget>>

\* Who joined returns or throws to its caller at once.
LeaveJoined(r) ==
  /\ SaveAt(r, "end") /\ ~Owns(r)
  /\ SaveGoes(r, Left(saves[r]))
  /\ UNCHANGED <<memory, Database, pendingSave, activeClient, budget>>

-----------------------------------------------------------------------------
\* load() reads every table.
Loaded == tables

\* The process exits and starts again: the store is loaded.
SaveCrash ==
  /\ budget.crashes < MaxCrashes
  /\ budget' = [budget EXCEPT !.crashes = @ + 1]
  /\ memory' = Loaded
  /\ saves' = [r \in Requests |->
                IF saves[r].step \in {"idle", "saved"} THEN saves[r]
                ELSE [SaveIdle EXCEPT !.step = "gone"]]
  /\ pendingSave' = NoRequest /\ activeClient' = Pool
  /\ tx' = [c \in Connections |-> Closed]
  /\ UNCHANGED <<tables, outbox>>

SavePerform(r) ==
  \/ StartSave(r) \/ Connected(r) \/ NextScope(r)
  \/ Delete(r) \/ Insert(r) \/ AppendEvent(r) \/ StatementFails(r)
  \/ Commit(r) \/ Rollback(r) \/ SaveRelease(r) \/ LeaveJoined(r)

SaveNext ==
  \/ \E r \in Requests :
       \/ Operate(r) \/ OperationThrows(r)
       \/ SavePerform(r) \/ ConnectFails(r) \/ CommitFails(r)
  \/ SaveCrash

SaveSpec == SaveInit /\ [][SaveNext]_saveVars

-----------------------------------------------------------------------------
(* Properties.                                                              *)

Committed(r) == \A i \in DOMAIN ScopesOf[r] : r \in tables[ScopesOf[r][i]]

\* With one save at a time waiting for pendingSave: what a request was told is
\* saved is committed, all of it and with its event, and stays so through later
\* saves, failures and exits.
AcknowledgedIsDurable ==
  \A r \in Requests : SaveAt(r, "saved") => Committed(r) /\ (r \in Events => r \in outbox)

\* No event tells of a change that is not committed in every scope.
EventImpliesChange == \A r \in outbox : Committed(r)

\* A save replaces whole tables, and yet nobody ever sees a committed row gone.
NothingCommittedIsLost ==
  [][(\A s \in Scopes : tables[s] \subseteq tables'[s]) /\ outbox \subseteq outbox']_saveVars

\* After a save of persistSync has failed nothing is saved any more, and no
\* request is told that it was, until the process starts again.
FailedBackgroundStopsSaving ==
  [][(\E b \in Background : SaveAt(b, "failed"))
       => tables' = tables /\ (\A r \in Requests : SaveAt(r, "saved") \/ saves'[r].step # "saved")]_saveVars

SaveFairness == \A r \in Requests : WF_saveVars(SavePerform(r))
SaveFairSpec == SaveSpec /\ SaveFairness

\* Every request is answered.
EventuallyAnswered ==
  \A r \in Requests : SaveAt(r, "queued") ~> saves[r].step \in {"saved", "failed", "gone"}

\* What a request was told, and what a webhook tells, is in the database;
\* overwriting whole tables takes nothing away, and a failure is not passed over.
SavesAreTrue ==
  /\ [](SaveTypeOK /\ AcknowledgedIsDurable /\ EventImpliesChange)
  /\ NothingCommittedIsLost /\ FailedBackgroundStopsSaving
=============================================================================
