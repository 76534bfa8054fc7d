---------------------------- MODULE EmailDelivery ----------------------------
(***************************************************************************)
(* Reliable e-mail: the API's idempotent request, the worker's claim,      *)
(* send, record, recover, cancel and clean-up steps over the table         *)
(* email_deliveries, the encrypted content a row carries until it is       *)
(* settled, and the rotation of the key the content is encrypted with.     *)
(*                                                                         *)
(* As in WebhookDelivery, a worker is one activation of runOnce and a      *)
(* transaction is one step.  A claim is one step here: it reads nothing    *)
(* but the rows that it locks.                                             *)
(***************************************************************************)
EXTENDS Integers, FiniteSets

CONSTANTS
  Requests,       \* request_key: one per call the application means to make
  Users,
  UserOf,         \* the user a request is for; (request_key, user_id) is unique
  Prints,         \* request fingerprints
  Callers,        \* request calls in progress
  Workers,        \* activations of runOnce
  Keys, NoKey,    \* content keys, and the key of purged content
  MaxAttempts,    \* EMAIL_DELIVERY_MAX_ATTEMPTS
  Concurrency,    \* EMAIL_DELIVERY_CONCURRENCY
  StaleTimeout,   \* EMAIL_DELIVERY_STALE_SECONDS, in ticks
  Retention,      \* EMAIL_DELIVERY_RETENTION_DAYS, in ticks
  SendBound       \* ticks within which a worker that does not crash has
                  \* recorded (or lost) the results of its batch

ASSUME EmailAssumption ==
  /\ UserOf \in [Requests -> Users]
  /\ NoKey \notin Keys
  /\ MaxAttempts \in Nat \ {0}
  /\ Concurrency \in Nat \ {0}
  /\ StaleTimeout \in Nat \ {0}
  /\ Retention \in Nat \ {0}
  /\ SendBound \in Nat

VARIABLES
  users,      \* users: what the statements read of each
  calls,      \* request calls between their statements
  replies,    \* fingerprints a caller was given the present row for (ghost)
  deliv,      \* email_deliveries, one row per request
  attempts,   \* email_delivery_attempts of each delivery
  sends,      \* claimed deliveries whose result is not recorded yet
  purging,    \* deliveries the clean-up has selected and not deleted yet
  activeKey,  \* EMAIL_CONTENT_ACTIVE_KEY_ID of the API
  keyring,    \* EMAIL_CONTENT_KEYS of the worker
  rekeying    \* rows the key migration has read and not updated yet

vars == <<users, calls, replies, deliv, attempts, sends, purging, activeKey,
          keyring, rekeying>>
apiVars == <<users, calls, replies>>
keyVars == <<activeKey, keyring, rekeying>>

-----------------------------------------------------------------------------
(* Rows and messages. *)

Terminal == {"succeeded", "failed", "canceled"}
Unfinished == {"pending", "running"}
Outcomes == {"ok", "retryable", "permanent"}

Row == [status : Terminal \cup Unfinished \cup {"none"}, attempt : Nat,
        print : Prints \cup {"none"}, key : Keys \cup {NoKey}, wait : Nat, age : Nat]
NoRow == [status |-> "none", attempt |-> 0, print |-> "none", key |-> NoKey,
          wait |-> 0, age |-> 0]

Call == [caller : Callers, req : Requests, print : Prints, step : {"unknown", "eligible"}]
Send == [worker : Workers, req : Requests, attempt : Nat, age : Nat,
         answer : Outcomes \cup {"none"}]
Attempt == [number : Nat, ok : BOOLEAN]

TypeOK ==
  /\ users \in [Users -> {"enabled", "disabled", "deleted"}]
  /\ calls \in SUBSET Call
  /\ replies \in SUBSET (Requests \X Prints)
  /\ deliv \in [Requests -> Row]
  /\ attempts \in [Requests -> SUBSET Attempt]
  /\ sends \in SUBSET Send
  /\ purging \in SUBSET Requests
  /\ activeKey \in Keys
  /\ keyring \in SUBSET Keys
  /\ rekeying \in SUBSET (Requests \X Keys)

Init ==
  /\ users \in [Users -> {"enabled", "disabled"}]
  /\ calls = {}
  /\ replies = {}
  /\ deliv = [q \in Requests |-> NoRow]
  /\ attempts = [q \in Requests |-> {}]
  /\ sends = {}
  /\ purging = {}
  /\ activeKey \in Keys
  /\ keyring = Keys
  /\ rekeying = {}

-----------------------------------------------------------------------------
(* The API: EmailDeliveryService.request. *)

\* UserService: enable, disable, lock and soft-delete a user.
SetUser(u, state) ==
  /\ users[u] \notin {"deleted", state}
  /\ users' = [users EXCEPT ![u] = state]
  /\ UNCHANGED <<calls, replies, deliv, attempts, sends, purging, keyVars>>

\* Mutant: the fingerprint is not compared.
AnswerAnyone(q, print) == replies' = replies \cup {<<q, print>>}

\* assertIdempotent: the caller is given the row only for its own fingerprint.
Answer(q, print) ==
  replies' = IF deliv'[q].print = print THEN replies \cup {<<q, print>>} ELSE replies

\* findByRequestKey comes first: a known request needs no eligible user.
RequestLookup(c, q, print) ==
  /\ \A x \in calls : x.caller # c
  /\ deliv' = deliv
  /\ IF deliv[q].status # "none"
       THEN Answer(q, print) /\ calls' = calls
       ELSE /\ calls' = calls \cup
                 {[caller |-> c, req |-> q, print |-> print, step |-> "unknown"]}
            /\ UNCHANGED replies
  /\ UNCHANGED <<users, attempts, sends, purging, keyVars>>

\* resolveEligibleRecipient, then the template: the call goes on or is refused.
RequestCheck(x) ==
  /\ x.step = "unknown"
  /\ \/ /\ users[UserOf[x.req]] = "enabled"
        /\ calls' = (calls \ {x}) \cup {[x EXCEPT !.step = "eligible"]}
     \/ calls' = calls \ {x}
  /\ UNCHANGED <<users, replies, deliv, attempts, sends, purging, keyVars>>

Accepted(print) == [NoRow EXCEPT !.status = "pending", !.print = print, !.key = activeKey]

\* create: the INSERT, which does nothing on a conflict, and the row it finds.
RequestInsert(x) ==
  /\ x.step = "eligible"
  /\ calls' = calls \ {x}
  /\ deliv' = IF deliv[x.req].status = "none"
                THEN [deliv EXCEPT ![x.req] = Accepted(x.print)] ELSE deliv
  /\ Answer(x.req, x.print)
  /\ UNCHANGED <<users, attempts, sends, purging, keyVars>>

-----------------------------------------------------------------------------
(* The worker. *)

\* A terminal state and the loss of the content are one UPDATE.
Settled(row, status) ==
  [row EXCEPT !.status = status, !.key = NoKey, !.wait = 0, !.age = 0]

CancelDeletedUsers ==
  LET doomed == {q \in Requests : deliv[q].status = "pending" /\ users[UserOf[q]] = "deleted"}
  IN  /\ doomed # {}
      /\ deliv' = [q \in Requests |-> IF q \in doomed THEN Settled(deliv[q], "canceled")
                                      ELSE deliv[q]]
      /\ UNCHANGED <<apiVars, attempts, sends, purging, keyVars>>

Claimable(q) == /\ deliv[q].status = "pending"
                /\ deliv[q].wait = 0
                /\ deliv[q].key \in keyring
                /\ users[UserOf[q]] # "deleted"

NewSend(w, q) == [worker |-> w, req |-> q, attempt |-> deliv[q].attempt + 1,
                  age |-> 0, answer |-> "none"]

\* claimReady; SKIP LOCKED passes the rows another claim has locked, so a part
\* of the rows is a possible result.
ClaimReady(w, claimed) ==
  /\ \A r \in sends : r.worker # w
  /\ claimed # {}
  /\ \A q \in claimed : Claimable(q)
  /\ Cardinality(claimed) <= Concurrency
  /\ deliv' = [q \in Requests |->
       IF q \in claimed
         THEN [deliv[q] EXCEPT !.status = "running", !.attempt = @ + 1, !.age = 0]
         ELSE deliv[q]]
  /\ sends' = sends \cup {NewSend(w, q) : q \in claimed}
  /\ UNCHANGED <<apiVars, attempts, purging, keyVars>>

\* SMTP acceptance, a failure that may be retried, or one that may not (an
\* envelope that does not decrypt is one).
Respond(r, outcome) ==
  /\ r.answer = "none"
  /\ sends' = (sends \ {r}) \cup {[r EXCEPT !.answer = outcome]}
  /\ UNCHANGED <<apiVars, deliv, attempts, purging, keyVars>>

Retry(r) == r.answer = "retryable" /\ r.attempt < MaxAttempts

\* processReady records no result before every delivery of the batch has one.
BatchAnswered(w) == \A r \in sends : r.worker = w => r.answer # "none"

\* A retry keeps the content the row has by now.
Recorded(row, r) ==
  IF Retry(r) THEN [row EXCEPT !.status = "pending", !.wait = 1, !.age = 0]
  ELSE Settled(row, IF r.answer = "ok" THEN "succeeded" ELSE "failed")

RecordAttempt(r) ==
  /\ BatchAnswered(r.worker)
  /\ sends' = sends \ {r}
  /\ attempts' = IF \E a \in attempts[r.req] : a.number = r.attempt THEN attempts
                 ELSE [attempts EXCEPT ![r.req] = @ \cup
                        {[number |-> r.attempt, ok |-> r.answer = "ok"]}]
  /\ deliv' = IF deliv[r.req].status = "none" THEN deliv
              ELSE [deliv EXCEPT ![r.req] = Recorded(@, r)]
  /\ UNCHANGED <<apiVars, purging, keyVars>>

\* persistDeliveryResults stops at a statement or an alert that fails: the
\* results it has not come to are lost, as they are when the process exits.
LoseResults(w) ==
  /\ \E r \in sends : r.worker = w
  /\ sends' = {r \in sends : r.worker # w}
  /\ UNCHANGED <<apiVars, deliv, attempts, purging, keyVars>>

\* Mutant: every running row is abandoned.
AnyRunning(q) == deliv[q].status = "running"

Abandoned(q) == deliv[q].status = "running" /\ deliv[q].age >= StaleTimeout

\* Mutant: recovery fails a delivery and keeps its content.
RecoveredUnpurged(row) ==
  [row EXCEPT !.status = IF row.attempt >= MaxAttempts THEN "failed" ELSE "pending",
              !.wait = 0, !.age = 0]

Recovered(row) == IF row.attempt >= MaxAttempts THEN Settled(row, "failed")
                  ELSE [row EXCEPT !.status = "pending", !.wait = 0, !.age = 0]

RecoverStaleRunning ==
  /\ \E q \in Requests : Abandoned(q)
  /\ deliv' = [q \in Requests |-> IF Abandoned(q) THEN Recovered(deliv[q]) ELSE deliv[q]]
  /\ UNCHANGED <<apiVars, attempts, sends, purging, keyVars>>

CleanupSelect ==
  /\ purging = {}
  /\ purging' = {q \in Requests : deliv[q].status \in Terminal /\ deliv[q].age >= Retention}
  /\ purging' # {}
  /\ UNCHANGED <<apiVars, deliv, attempts, sends, keyVars>>

\* A request whose row is deleted is unknown again.
CleanupDelete ==
  /\ purging # {}
  /\ deliv' = [q \in Requests |-> IF q \in purging THEN NoRow ELSE deliv[q]]
  /\ attempts' = [q \in Requests |-> IF q \in purging THEN {} ELSE attempts[q]]
  /\ replies' = {p \in replies : p[1] \notin purging}
  /\ rekeying' = {m \in rekeying : m[1] \notin purging}
  /\ purging' = {}
  /\ UNCHANGED <<users, calls, sends, activeKey, keyring>>

-----------------------------------------------------------------------------
(* Content keys: email-content-key-migration and the operator's steps. *)

\* The API restarts with another active key; its calls are lost.
Rotate(k) ==
  /\ k \in keyring \ {activeKey}
  /\ activeKey' = k
  /\ calls' = {}
  /\ UNCHANGED <<users, replies, deliv, attempts, sends, purging, keyring, rekeying>>

\* The migration reads every unfinished row under another key.
MigrateScan ==
  /\ rekeying = {}
  /\ rekeying' = {<<q, activeKey>> : q \in
       {p \in Requests : deliv[p].status \in Unfinished /\ deliv[p].key \in keyring \ {activeKey}}}
  /\ rekeying' # {}
  /\ UNCHANGED <<apiVars, deliv, attempts, sends, purging, activeKey, keyring>>

\* It updates a row it has read if the row is still unfinished.
MigrateRow(m) ==
  /\ rekeying' = rekeying \ {m}
  /\ deliv' = IF deliv[m[1]].status \in Unfinished
                THEN [deliv EXCEPT ![m[1]].key = m[2]] ELSE deliv
  /\ UNCHANGED <<apiVars, attempts, sends, purging, activeKey, keyring>>

\* The operator removes a key that is not active, with no migration under way,
\* when countActiveByKeyId says no unfinished row refers to it.
RemoveKey(k) ==
  /\ k \in keyring \ {activeKey}
  /\ rekeying = {}
  /\ \A q \in Requests : deliv[q].status \in Unfinished => deliv[q].key # k
  /\ keyring' = keyring \ {k}
  /\ UNCHANGED <<apiVars, deliv, attempts, sends, purging, activeKey, rekeying>>

\* Ages stop where no guard can tell more.
AgeLimit(row) == IF row.status = "running" THEN StaleTimeout
                 ELSE IF row.status \in Terminal THEN Retention ELSE 0
Older(row) == [row EXCEPT !.wait = IF @ > 0 THEN @ - 1 ELSE @,
                          !.age = IF @ < AgeLimit(row) THEN @ + 1 ELSE @]

Tick ==
  /\ \A r \in sends : r.age < SendBound
  /\ deliv' = [q \in Requests |-> Older(deliv[q])]
  /\ sends' = {[r EXCEPT !.age = @ + 1] : r \in sends}
  /\ UNCHANGED <<apiVars, attempts, purging, keyVars>>

-----------------------------------------------------------------------------
Next ==
  \/ \E u \in Users, state \in {"enabled", "disabled", "deleted"} : SetUser(u, state)
  \/ \E c \in Callers, q \in Requests, print \in Prints : RequestLookup(c, q, print)
  \/ \E x \in calls : RequestCheck(x) \/ RequestInsert(x)
  \/ CancelDeletedUsers
  \/ \E w \in Workers, claimed \in SUBSET Requests : ClaimReady(w, claimed)
  \/ \E w \in Workers : LoseResults(w)
  \/ \E r \in sends : RecordAttempt(r) \/ \E o \in Outcomes : Respond(r, o)
  \/ RecoverStaleRunning
  \/ CleanupSelect
  \/ CleanupDelete
  \/ \E k \in Keys : Rotate(k) \/ RemoveKey(k)
  \/ MigrateScan
  \/ \E m \in rekeying : MigrateRow(m)
  \/ Tick

Spec == Init /\ [][Next]_vars

-----------------------------------------------------------------------------
(* Properties; [prompt] ones suppose SendBound < StaleTimeout.  The          *)
(* configuration does not enforce it: EMAIL_DELIVERY_STALE_SECONDS may be 60 *)
(* and SMTP_TIMEOUT_MS, which each step of a conversation may take, 120000.  *)

\* [prompt] A delivery has at most one running attempt: no two activations are
\* sending it, and the one that sends it sends the attempt its row counts.
OneRunningAttempt ==
  /\ \A r1, r2 \in sends : r1.req = r2.req => r1 = r2
  /\ \A r \in sends : /\ deliv[r.req].status = "running"
                      /\ deliv[r.req].attempt = r.attempt

\* [prompt] Content is kept exactly as long as it may be needed: an unfinished
\* delivery has it, and a settled one has lost it, whatever was retried,
\* recovered, canceled or encrypted anew in between.
ContentKeptWhileNeeded ==
  \A q \in Requests : deliv[q].status \in Unfinished <=> deliv[q].key # NoKey

\* [prompt] A success on record is the outcome of the delivery.
SuccessIsFinal ==
  \A q \in Requests : (\E a \in attempts[q] : a.ok) <=> deliv[q].status = "succeeded"

\* Every caller that was given a delivery meant the same request, although
\* callers look it up, check the user and insert it in separate statements.
IdempotentReplies == \A p \in replies : deliv[p[1]].print = p[2]

\* [prompt] A delivery has one outcome: once it has succeeded, failed or been
\* canceled, no result that comes late, recovery, claim, request or migration
\* opens it again or gives it another, and only its clean-up removes it.
OutcomesStand ==
  [][\A q \in Requests :
       /\ deliv[q].status \in Terminal => deliv'[q].status \in {deliv[q].status, "none"}
       /\ deliv[q].status \in Unfinished => deliv'[q].status # "none"]_vars

\* [prompt] A key is removed only when nothing unfinished needs it, ever after:
\* requests and migrations in progress do not bring it back.
UnfinishedIsReadable ==
  \A q \in Requests : deliv[q].status \in Unfinished => deliv[q].key \in keyring

\* [prompt] Attempts, whoever makes, recovers or cancels them, end in one outcome.
AttemptsAreSound == OneRunningAttempt /\ SuccessIsFinal

\* [prompt] Content, its key and the need for both go together.
ContentIsSound == TypeOK /\ ContentKeptWhileNeeded /\ UnfinishedIsReadable
=============================================================================
