--------------------------- MODULE WebhookDelivery ---------------------------
(***************************************************************************)
(* Durable outbound webhook delivery: the API's subscription repository,   *)
(* the worker's fan-out of the transactional outbox, and its claim,        *)
(* request, record, recover and clean-up steps, over the PostgreSQL        *)
(* tables webhook_subscriptions, event_outbox, webhook_deliveries and      *)
(* webhook_delivery_attempts.                                              *)
(*                                                                         *)
(* A worker is one activation of WorkerRuntime.runOnce: several processes  *)
(* run them, and setInterval starts a new one while an older one is still  *)
(* awaiting, so any number may be in progress.  A database transaction is  *)
(* one step, except where READ COMMITTED lets another transaction commit   *)
(* between two of its statements and the code depends on what it read.     *)
(***************************************************************************)
EXTENDS Integers, FiniteSets

CONSTANTS
  Events,         \* outbox events, by id
  Subs,           \* subscriptions, by id
  Workers,        \* activations of runOnce
  Admins,         \* API requests that update a subscription
  Urls, NoUrl,    \* target URLs, and the URL of a row that does not exist
  EventTypes,     \* allowedEventTypes
  TypeOf,         \* the type of an event
  Audience,       \* the subscriptions an event may reach: all of them, or the
                  \* one targetSubscriptionId of a notification.requested
  MaxAttempts,    \* WEBHOOK_MAX_ATTEMPTS
  Concurrency,    \* WEBHOOK_DELIVERY_CONCURRENCY
  RetryDelays,    \* retry delays, in ticks of the clock
  StaleTimeout,   \* recoverStaleRunning's timeout, in ticks
  Retention,      \* WEBHOOK_DELIVERY_RETENTION_DAYS, in ticks
  RequestBound,   \* ticks within which a worker that does not crash has
                  \* recorded (or lost) the result of a claim
  SerialClaims,   \* TRUE: claim transactions do not overlap (SQLite's one
                  \* writer); FALSE: they may (PostgreSQL)
  MaxRevision     \* bound of the model on the updates of a subscription

ASSUME WebhookAssumption ==
  /\ TypeOf \in [Events -> EventTypes]
  /\ Audience \in [Events -> SUBSET Subs]
  /\ NoUrl \notin Urls
  /\ MaxAttempts \in Nat \ {0}
  /\ Concurrency \in Nat \ {0}
  /\ RetryDelays \subseteq Nat \ {0}
  /\ RetryDelays # {}
  /\ StaleTimeout \in Nat \ {0}
  /\ Retention \in Nat \ {0}
  /\ RequestBound \in Nat
  /\ SerialClaims \in BOOLEAN
  /\ MaxRevision \in Nat

VARIABLES
  subs,       \* webhook_subscriptions
  edits,      \* updates that have read their row and not written it yet
  outbox,     \* event_outbox: the status of each event
  fanouts,    \* open fan-out transactions
  deliv,      \* webhook_deliveries, one row per event and subscription
  attempts,   \* webhook_delivery_attempts of each delivery
  scans,      \* claim transactions between their SELECT and their UPDATEs
  inflight,   \* claimed deliveries whose result is not recorded yet
  purging,    \* deliveries the clean-up has selected and not deleted yet
  accepted    \* deliveries whose request some receiver accepted (ghost)

vars == <<subs, edits, outbox, fanouts, deliv, attempts, scans, inflight,
          purging, accepted>>
apiVars == <<subs, edits>>
fanVars == <<outbox, fanouts>>

-----------------------------------------------------------------------------
(* Rows and messages. *)

Deliveries == Events \X Subs
Terminal == {"succeeded", "failed", "canceled"}
LiveStatus == {"enabled", "disabled"}
Outcomes == {"ok", "retryable", "permanent"}

SubRow == [status : LiveStatus \cup {"absent", "deleted"}, url : Urls \cup {NoUrl},
           types : SUBSET EventTypes, rev : Nat]
NoSub == [status |-> "absent", url |-> NoUrl, types |-> {}, rev |-> 0]

Edit == [admin : Admins, sub : Subs, row : SubRow, affects : BOOLEAN]

DeliveryRow == [status : Terminal \cup {"none", "pending", "running"}, attempt : Nat,
                rev : Nat, url : Urls \cup {NoUrl}, wait : Nat, age : Nat]
NoDelivery == [status |-> "none", attempt |-> 0, rev |-> 0, url |-> NoUrl,
               wait |-> 0, age |-> 0]

NewRow == [delivery : Deliveries, rev : Nat, url : Urls \cup {NoUrl}]
FanOut == [worker : Workers, events : SUBSET Events, left : SUBSET Events,
           rows : SUBSET NewRow]
Scan == [worker : Workers, seen : SUBSET Deliveries]
Request == [worker : Workers, delivery : Deliveries, attempt : Nat, age : Nat,
            answer : Outcomes \cup {"none"}]
Attempt == [number : Nat, ok : BOOLEAN]

TypeOK ==
  /\ subs \in [Subs -> SubRow]
  /\ edits \in SUBSET Edit
  /\ outbox \in [Events -> {"none", "pending", "published", "purged"}]
  /\ fanouts \in SUBSET FanOut
  /\ deliv \in [Deliveries -> DeliveryRow]
  /\ attempts \in [Deliveries -> SUBSET Attempt]
  /\ scans \in SUBSET Scan
  /\ inflight \in SUBSET Request
  /\ purging \in SUBSET Deliveries
  /\ accepted \in SUBSET Deliveries

Init ==
  /\ subs = [s \in Subs |-> NoSub]
  /\ edits = {}
  /\ outbox = [e \in Events |-> "none"]
  /\ fanouts = {}
  /\ deliv = [d \in Deliveries |-> NoDelivery]
  /\ attempts = [d \in Deliveries |-> {}]
  /\ scans = {}
  /\ inflight = {}
  /\ purging = {}
  /\ accepted = {}

\* runOnce awaits one part after the other: an activation that is in a
\* fan-out, a claim or a delivery starts nothing else.
Idle(w) ==
  /\ \A f \in fanouts : f.worker # w
  /\ \A c \in scans : c.worker # w
  /\ \A r \in inflight : r.worker # w

-----------------------------------------------------------------------------
(* The API: WebhookRepository. *)

\* Every column of a pending delivery's cancellation that is read again.
Canceled(row) == [row EXCEPT !.status = "canceled", !.wait = 0, !.age = 0]

\* The UPDATE of cancelPending; a fan-out's uncommitted rows are not seen.
CancelPending(s) ==
  deliv' = [d \in Deliveries |->
              IF d[2] = s /\ deliv[d].status = "pending" THEN Canceled(deliv[d])
              ELSE deliv[d]]

CreateSubscription(s) ==
  /\ subs[s].status = "absent"
  /\ \E url \in Urls, types \in (SUBSET EventTypes) \ {{}}, status \in LiveStatus :
       subs' = [subs EXCEPT ![s] = [status |-> status, url |-> url,
                                    types |-> types, rev |-> 1]]
  /\ UNCHANGED <<edits, fanVars, deliv, attempts, scans, inflight, purging, accepted>>

\* getStored runs before the transaction and supplies every column that the
\* transaction will write, the revision included.  An input with a URL, event
\* types, a status or a secret affects delivery, whatever its value.
UpdateRead(a, s) ==
  /\ \A x \in edits : x.admin # a
  /\ subs[s].status \in LiveStatus
  /\ subs[s].rev < MaxRevision
  /\ \/ edits' = edits \cup {[admin |-> a, sub |-> s, row |-> subs[s], affects |-> FALSE]}
     \/ \E url \in Urls, types \in (SUBSET EventTypes) \ {{}}, status \in LiveStatus :
          edits' = edits \cup
            {[admin |-> a, sub |-> s, affects |-> TRUE,
              row |-> [status |-> status, url |-> url, types |-> types,
                       rev |-> subs[s].rev + 1]]}
  /\ UNCHANGED <<subs, fanVars, deliv, attempts, scans, inflight, purging, accepted>>

\* The UPDATE skips a row deleted meanwhile; the cancellation runs anyway.
UpdateCommit(x) ==
  /\ edits' = edits \ {x}
  /\ subs' = IF subs[x.sub].status \in LiveStatus
               THEN [subs EXCEPT ![x.sub] = x.row] ELSE subs
  /\ IF x.affects THEN CancelPending(x.sub) ELSE UNCHANGED deliv
  /\ UNCHANGED <<fanVars, attempts, scans, inflight, purging, accepted>>

\* The read before the transaction supplies nothing it writes.
DeleteSubscription(s) ==
  /\ subs[s].status \in LiveStatus
  /\ subs' = [subs EXCEPT ![s].status = "deleted", ![s].rev = @ + 1]
  /\ CancelPending(s)
  /\ UNCHANGED <<edits, fanVars, attempts, scans, inflight, purging, accepted>>

\* The transaction of a domain change inserts its event.
Emit(e) ==
  /\ outbox[e] = "none"
  /\ outbox' = [outbox EXCEPT ![e] = "pending"]
  /\ UNCHANGED <<apiVars, fanouts, deliv, attempts, scans, inflight, purging, accepted>>

-----------------------------------------------------------------------------
(* Fan-out. *)

\* FOR UPDATE SKIP LOCKED: the pending events no other fan-out has locked.
FanOutBegin(w) ==
  LET batch == {e \in Events : outbox[e] = "pending" /\ \A f \in fanouts : e \notin f.events}
  IN  /\ Idle(w)
      /\ batch # {}
      /\ fanouts' = fanouts \cup
           {[worker |-> w, events |-> batch, left |-> batch, rows |-> {}]}
      /\ UNCHANGED <<apiVars, outbox, deliv, attempts, scans, inflight, purging, accepted>>

Matching(e) ==
  {s \in Subs : subs[s].status = "enabled" /\ TypeOf[e] \in subs[s].types /\ s \in Audience[e]}

\* matchingSubscriptions is a statement of its own for every event.
FanOutEvent(f, e) ==
  /\ e \in f.left
  /\ fanouts' = (fanouts \ {f}) \cup
       {[f EXCEPT !.left = @ \ {e},
                  !.rows = @ \cup {[delivery |-> <<e, s>>, rev |-> subs[s].rev,
                                    url |-> subs[s].url] : s \in Matching(e)}]}
  /\ UNCHANGED <<apiVars, outbox, deliv, attempts, scans, inflight, purging, accepted>>

Inserted(n) == [NoDelivery EXCEPT !.status = "pending", !.rev = n.rev, !.url = n.url]

\* The INSERTs, of which a conflicting one does nothing, and the publication.
FanOutCommit(f) ==
  /\ f.left = {}
  /\ fanouts' = fanouts \ {f}
  /\ outbox' = [e \in Events |-> IF e \in f.events THEN "published" ELSE outbox[e]]
  /\ deliv' = [d \in Deliveries |->
       IF deliv[d].status = "none" /\ \E n \in f.rows : n.delivery = d
         THEN Inserted(CHOOSE n \in f.rows : n.delivery = d)
         ELSE deliv[d]]
  /\ UNCHANGED <<apiVars, attempts, scans, inflight, purging, accepted>>

-----------------------------------------------------------------------------
(* Claiming. *)

Due(d) == deliv[d].status = "pending" /\ deliv[d].wait = 0
\* Mutant: the NOT EXISTS is dropped.
NeverBusy == {}

BusySubs == {s \in Subs : \E e \in Events : deliv[<<e, s>>].status = "running"}
\* Mutant: the revision is not compared.
StaleByStatus(d) == subs[d[2]].status # "enabled"

Stale(d) == \/ subs[d[2]].status # "enabled"
            \/ subs[d[2]].rev # deliv[d].rev

\* The snapshot of the SELECT: NOT EXISTS is decided on it and never again.
ClaimScan(w) ==
  LET seen == {d \in Deliveries : Due(d) /\ d[2] \notin BusySubs}
  IN  /\ Idle(w)
      /\ SerialClaims => scans = {}
      /\ seen # {}
      /\ scans' = scans \cup {[worker |-> w, seen |-> seen]}
      /\ UNCHANGED <<apiVars, fanVars, deliv, attempts, inflight, purging, accepted>>

NewRequest(w, d) == [worker |-> w, delivery |-> d, attempt |-> deliv[d].attempt + 1,
                     age |-> 0, answer |-> "none"]

Claimed(row) == [row EXCEPT !.status = "running", !.attempt = @ + 1, !.age = 0]

\* Locking re-evaluates the columns of rows changed since the snapshot, skips
\* rows another claim has locked (so a part of the rows is a possible result),
\* and the loop takes at most one fresh row of a subscription, canceling the
\* stale ones it passes.
ClaimCommit(c) ==
  LET rows == {d \in c.seen : Due(d)}
  IN  /\ scans' = scans \ {c}
      /\ \E claimed \in SUBSET {d \in rows : ~ Stale(d)},
            stale \in SUBSET {d \in rows : Stale(d)} :
           /\ \A d1, d2 \in claimed : d1[2] = d2[2] => d1 = d2
           /\ Cardinality(claimed) <= Concurrency
           /\ rows # {} => claimed \cup stale # {}
           /\ deliv' = [d \in Deliveries |->
                IF d \in claimed THEN Claimed(deliv[d])
                ELSE IF d \in stale THEN Canceled(deliv[d])
                ELSE deliv[d]]
           /\ inflight' = inflight \cup {NewRequest(c.worker, d) : d \in claimed}
      /\ UNCHANGED <<apiVars, fanVars, attempts, purging, accepted>>

-----------------------------------------------------------------------------
(* The HTTP request and its result. *)

\* An answer, a timeout, or an error before or after the receiver accepted the
\* request; any other status than 2xx is not an acceptance.
Respond(r, outcome) ==
  /\ r.answer = "none"
  /\ inflight' = (inflight \ {r}) \cup {[r EXCEPT !.answer = outcome]}
  /\ \/ outcome = "ok" /\ accepted' = accepted \cup {r.delivery}
     \/ outcome = "retryable" /\ accepted' = accepted \cup {r.delivery}
     \/ outcome # "ok" /\ accepted' = accepted
  /\ UNCHANGED <<apiVars, fanVars, deliv, attempts, scans, purging>>

Retry(r) == r.answer = "retryable" /\ r.attempt < MaxAttempts

ResultStatus(r) == IF r.answer = "ok" THEN "succeeded"
                   ELSE IF Retry(r) THEN "pending" ELSE "failed"

Recorded(row, r, delay) ==
  [row EXCEPT !.status = ResultStatus(r), !.wait = IF Retry(r) THEN delay ELSE 0, !.age = 0]

\* recordAttempt: the attempt, unless its number is taken, and the row of the
\* delivery, whatever its state is by now (there may be none left).
RecordAttempt(r) ==
  LET d == r.delivery
  IN  /\ r.answer # "none"
      /\ inflight' = inflight \ {r}
      /\ attempts' = IF \E a \in attempts[d] : a.number = r.attempt THEN attempts
                     ELSE [attempts EXCEPT ![d] = @ \cup
                            {[number |-> r.attempt, ok |-> r.answer = "ok"]}]
      /\ \E delay \in RetryDelays :
           deliv' = IF deliv[d].status = "none" THEN deliv
                    ELSE [deliv EXCEPT ![d] = Recorded(@, r, delay)]
      /\ UNCHANGED <<apiVars, fanVars, scans, purging, accepted>>

\* The transaction of recordAttempt fails; nothing retries it.
LoseResult(r) ==
  /\ r.answer # "none"
  /\ inflight' = inflight \ {r}
  /\ UNCHANGED <<apiVars, fanVars, deliv, attempts, scans, purging, accepted>>

\* The process exits, with its open transactions and the results in memory.
Crash(w) ==
  /\ ~ Idle(w)
  /\ fanouts' = {f \in fanouts : f.worker # w}
  /\ scans' = {c \in scans : c.worker # w}
  /\ inflight' = {r \in inflight : r.worker # w}
  /\ UNCHANGED <<apiVars, outbox, deliv, attempts, purging, accepted>>

-----------------------------------------------------------------------------
(* Recovery, clean-up and time. *)

Abandoned(d) == deliv[d].status = "running" /\ deliv[d].age >= StaleTimeout

\* Mutants: recovery always tries again; recovery leaves the last attempt running.
AlwaysPending(row) == [row EXCEPT !.status = "pending", !.wait = 0, !.age = 0]
LeftRunning(row) ==
  [row EXCEPT !.status = IF row.attempt >= MaxAttempts THEN "running" ELSE "pending",
              !.wait = 0, !.age = 0]

Recovered(row) ==
  [row EXCEPT !.status = IF row.attempt >= MaxAttempts THEN "failed" ELSE "pending",
              !.wait = 0, !.age = 0]

RecoverStaleRunning ==
  /\ \E d \in Deliveries : Abandoned(d)
  /\ deliv' = [d \in Deliveries |-> IF Abandoned(d) THEN Recovered(deliv[d]) ELSE deliv[d]]
  /\ UNCHANGED <<apiVars, fanVars, attempts, scans, inflight, purging, accepted>>

\* The ids are selected outside the transaction that deletes them.
CleanupSelect ==
  /\ purging = {}
  /\ purging' = {d \in Deliveries : deliv[d].status \in Terminal /\ deliv[d].age >= Retention}
  /\ purging' # {}
  /\ UNCHANGED <<apiVars, fanVars, deliv, attempts, scans, inflight, accepted>>

CleanupDelete ==
  /\ purging # {}
  /\ deliv' = [d \in Deliveries |-> IF d \in purging THEN NoDelivery ELSE deliv[d]]
  /\ attempts' = [d \in Deliveries |-> IF d \in purging THEN {} ELSE attempts[d]]
  /\ purging' = {}
  /\ UNCHANGED <<apiVars, fanVars, scans, inflight, accepted>>

\* deleteOutboxBefore; the age of a published event is not modelled.
CleanupOutbox(e) ==
  /\ outbox[e] = "published"
  /\ outbox' = [outbox EXCEPT ![e] = "purged"]
  /\ UNCHANGED <<apiVars, fanouts, deliv, attempts, scans, inflight, purging, accepted>>

\* Ages are time since updated_at (for a running row, also since locked_at) and
\* stop where no guard can tell more; wait is time until next_attempt_at.
AgeLimit(row) == IF row.status = "running" THEN StaleTimeout
                 ELSE IF row.status \in Terminal THEN Retention ELSE 0
Older(row) == [row EXCEPT !.wait = IF @ > 0 THEN @ - 1 ELSE @,
                          !.age = IF @ < AgeLimit(row) THEN @ + 1 ELSE @]

Tick ==
  /\ \A r \in inflight : r.age < RequestBound
  /\ deliv' = [d \in Deliveries |-> Older(deliv[d])]
  /\ inflight' = {[r EXCEPT !.age = @ + 1] : r \in inflight}
  /\ UNCHANGED <<apiVars, fanVars, attempts, scans, purging, accepted>>

-----------------------------------------------------------------------------
Next ==
  \/ \E s \in Subs : CreateSubscription(s) \/ DeleteSubscription(s)
  \/ \E a \in Admins, s \in Subs : UpdateRead(a, s)
  \/ \E x \in edits : UpdateCommit(x)
  \/ \E e \in Events : Emit(e) \/ CleanupOutbox(e)
  \/ \E w \in Workers : FanOutBegin(w) \/ ClaimScan(w) \/ Crash(w)
  \/ \E f \in fanouts : FanOutCommit(f) \/ \E e \in Events : FanOutEvent(f, e)
  \/ \E c \in scans : ClaimCommit(c)
  \/ \E r \in inflight : \/ RecordAttempt(r)
                         \/ LoseResult(r)
                         \/ \E o \in Outcomes : Respond(r, o)
  \/ RecoverStaleRunning
  \/ CleanupSelect
  \/ CleanupDelete
  \/ Tick

Spec == Init /\ [][Next]_vars

-----------------------------------------------------------------------------
(* Properties.  Those marked [prompt] suppose RequestBound < StaleTimeout: a  *)
(* worker that is alive records a result before recovery may take the claim. *)

\* [prompt] A result still to be recorded belongs to the row it was claimed
\* from: the row is running that very attempt, for nobody else
\* (recordAttempt updates by id alone).
ClaimsAreOwned ==
  /\ \A r \in inflight : /\ deliv[r.delivery].status = "running"
                         /\ deliv[r.delivery].attempt = r.attempt
  /\ \A r1, r2 \in inflight : r1.delivery = r2.delivery => r1 = r2

\* [prompt] No delivery is requested more than WEBHOOK_MAX_ATTEMPTS times,
\* through any sequence of retries, crashes and recoveries.
AttemptsBounded ==
  \A d \in Deliveries : /\ deliv[d].attempt <= MaxAttempts
                        /\ \A a \in attempts[d] : a.number <= MaxAttempts

Explained(d) ==
  /\ \A a \in attempts[d] :
       /\ a.number \in 1..deliv[d].attempt
       /\ a.ok => deliv[d].status = "succeeded" /\ a.number = deliv[d].attempt
  /\ deliv[d].status = "succeeded" => \E a \in attempts[d] : a.ok
  /\ deliv[d].status = "running" => \A a \in attempts[d] : a.number < deliv[d].attempt

\* [prompt] The recorded attempts explain the state of the delivery: every one
\* is of a claim that was made, an accepted one is the last and made the
\* delivery succeed, and the attempt under way has no record yet.
HistoryExplainsOutcome == \A d \in Deliveries : Explained(d)

\* A delivery that says "succeeded" was accepted by a receiver at least once,
\* whatever was lost, repeated or recorded late.
SucceededWasAccepted ==
  \A d \in Deliveries : deliv[d].status = "succeeded" => d \in accepted

\* [prompt] An outcome is final: recovery, late results, cancellation and
\* claims never reopen or change it; only retention removes it.
OutcomeIsFinal ==
  [][\A d \in Deliveries :
       deliv[d].status \in Terminal => deliv'[d].status \in {deliv[d].status, "none"}]_vars

\* [prompt] Retention deletes only what has an outcome, although it selects the
\* rows before the transaction that deletes them.
OnlySettledIsPurged ==
  [][\A d \in Deliveries :
       deliv'[d].status = "none" => deliv[d].status \in Terminal \cup {"none"}]_vars

\* At most one delivery of a subscription is running at once: holds when claim
\* transactions are serial, and fails when two of them overlap.
OneRunningPerSubscription ==
  \A d1, d2 \in Deliveries :
    d1[2] = d2[2] /\ deliv[d1].status = "running" /\ deliv[d2].status = "running" => d1 = d2

\* [prompt, serial] Claims belong to one activation each, one per subscription,
\* and the attempts on record explain every delivery, through all of the above.
DeliveriesAreSound ==
  ClaimsAreOwned /\ HistoryExplainsOutcome /\ OneRunningPerSubscription

\* A delivery is claimed only for an enabled subscription, and is sent to the
\* URL the subscription has at that moment, although the row took its URL when
\* the event was fanned out, concurrently with updates and cancellations.
ClaimUsesCurrentConfig ==
  [][\A d \in Deliveries :
       deliv[d].status # "running" /\ deliv'[d].status = "running"
         => subs[d[2]].status = "enabled" /\ deliv[d].url = subs[d[2]].url]_vars

\* A revision never goes back, and names one configuration: whatever a claim
\* compares by revision (URL, event types, status) does not change under it.
RevisionNamesConfig ==
  [][\A s \in Subs :
       /\ subs'[s].rev >= subs[s].rev
       /\ subs'[s].rev = subs[s].rev => subs'[s] = subs[s]]_vars

\* What is claimed is what administrators have configured last.
ConfigIsCurrent == ClaimUsesCurrentConfig /\ RevisionNamesConfig

\* [prompt] What the tables promise without workers, leases and time.
Contract == INSTANCE DeliveryContract WITH
  stage <- [d \in Deliveries |->
              CASE deliv[d].status = "none" ->
                     IF outbox[d[1]] \in {"published", "purged"} THEN "gone" ELSE "none"
                [] deliv[d].status = "pending" -> "waiting"
                [] deliv[d].status = "running" -> "trying"
                [] OTHER -> deliv[d].status],
  tries <- [d \in Deliveries |-> deliv[d].attempt],
  received <- accepted
ImplementsContract == Contract!Spec

\* Fairness: the interval timer goes on starting activations, the clock and
\* the database go on, and the HTTP client answers or times out.  Crashes may
\* go on forever, but not forever in the few statements of a fan-out or a claim.
Fairness ==
  /\ WF_vars(\E w \in Workers : FanOutBegin(w))
  /\ WF_vars(\E f \in fanouts, e \in Events : FanOutEvent(f, e))
  /\ WF_vars(\E f \in fanouts : FanOutCommit(f))
  /\ WF_vars(\E w \in Workers : ClaimScan(w))
  /\ WF_vars(\E c \in scans : ClaimCommit(c))
  /\ WF_vars(\E r \in inflight, o \in Outcomes : Respond(r, o))
  /\ WF_vars(\E r \in inflight : RecordAttempt(r) \/ LoseResult(r))
  /\ WF_vars(RecoverStaleRunning)
  /\ WF_vars(Tick)
  /\ <>[][\A w \in Workers : Crash(w) => \E r \in inflight : r.worker = w]_vars
FairSpec == Spec /\ Fairness

\* [prompt] An event a subscription was waiting for when it was emitted, and
\* goes on waiting for, gets its delivery, and the delivery an outcome:
\* no crash, lost result or race loses it or leaves it running.
EventuallySettled ==
  \A d \in Deliveries :
    [](outbox[d[1]] = "none" /\ [](d[2] \in Matching(d[1]))
         => [](outbox[d[1]] = "pending" => <>(deliv[d].status \in Terminal)))

-----------------------------------------------------------------------------
(* The inductive invariant behind the properties marked [prompt]. *)

Prompt == RequestBound < StaleTimeout

\* A claim in memory is exactly as old as its row's locked_at.
LeasesAgree ==
  \A r \in inflight : deliv[r.delivery].age = r.age /\ r.age <= RequestBound

\* A delivery that waits has an attempt left; none has used more than there are.
BudgetKept ==
  \A d \in Deliveries : /\ deliv[d].attempt <= MaxAttempts
                        /\ deliv[d].status = "pending" => deliv[d].attempt < MaxAttempts
                        /\ deliv[d].status = "none" => deliv[d].attempt = 0
                        /\ deliv[d].status = "running" => deliv[d].attempt > 0

\* A positive answer in memory is a receiver's.
AnswersAreAccepted == \A r \in inflight : r.answer = "ok" => r.delivery \in accepted

\* What the clean-up has selected has an outcome until it is deleted.
PurgingSettled == \A d \in purging : deliv[d].status \in Terminal

\* [prompt] The conjunction is inductive: each part needs ClaimsAreOwned, which
\* needs the lease of a live worker to outlast its request.
DeliveryInv ==
  /\ ClaimsAreOwned
  /\ LeasesAgree
  /\ BudgetKept
  /\ HistoryExplainsOutcome
  /\ SucceededWasAccepted
  /\ AnswersAreAccepted
  /\ PurgingSettled

\* Serial claims: the one open claim has seen no delivery of a subscription of
\* which another is running by now.
ScansSeeIdleSubs ==
  /\ \A c1, c2 \in scans : c1 = c2
  /\ \A c \in scans : \A d \in c.seen : d[2] \notin BusySubs
SerialInv == ScansSeeIdleSubs /\ OneRunningPerSubscription
=============================================================================
