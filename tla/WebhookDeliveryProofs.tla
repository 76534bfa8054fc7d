------------------------ MODULE WebhookDeliveryProofs ------------------------
(* Theorems about WebhookDelivery, for every value of its constants. *)
EXTENDS WebhookDelivery, TLAPS

-----------------------------------------------------------------------------
(* Rows. *)

\* Every row a statement writes is a row of the table.
LEMMA RowTypes ==
  /\ NoDelivery \in DeliveryRow
  /\ \A n \in NewRow : Inserted(n) \in DeliveryRow
  /\ \A row \in DeliveryRow : /\ Canceled(row) \in DeliveryRow
                              /\ Claimed(row) \in DeliveryRow
                              /\ Recovered(row) \in DeliveryRow
                              /\ Older(row) \in DeliveryRow
<1>1. NoDelivery \in DeliveryRow
  BY DEF NoDelivery, DeliveryRow
<1>2. ASSUME NEW n \in NewRow PROVE Inserted(n) \in DeliveryRow
  BY <1>1 DEF Inserted, NewRow, DeliveryRow
<1>3. ASSUME NEW row \in DeliveryRow
      PROVE  /\ Canceled(row) \in DeliveryRow
             /\ Claimed(row) \in DeliveryRow
             /\ Recovered(row) \in DeliveryRow
             /\ Older(row) \in DeliveryRow
  <2>1. Canceled(row) \in DeliveryRow
    BY DEF Canceled, DeliveryRow, Terminal
  <2>2. Claimed(row) \in DeliveryRow
    <3>1. row.attempt + 1 \in Nat
      BY DEF DeliveryRow
    <3>2. QED BY <3>1 DEF Claimed, DeliveryRow
  <2>3. Recovered(row) \in DeliveryRow
    BY DEF Recovered, DeliveryRow, Terminal
  <2>4. Older(row) \in DeliveryRow
    <3>1. (IF row.wait > 0 THEN row.wait - 1 ELSE row.wait) \in Nat
      BY DEF DeliveryRow
    <3>2. (IF row.age < AgeLimit(row) THEN row.age + 1 ELSE row.age) \in Nat
      BY DEF DeliveryRow
    <3>3. QED BY <3>1, <3>2 DEF Older, DeliveryRow
  <2>5. QED BY <2>1, <2>2, <2>3, <2>4
<1>4. QED BY <1>1, <1>2, <1>3

\* So is the row recordAttempt writes.
LEMMA RecordedType ==
  ASSUME NEW row \in DeliveryRow, NEW r, NEW delay \in RetryDelays
  PROVE  Recorded(row, r, delay) \in DeliveryRow
<1>1. (IF Retry(r) THEN delay ELSE 0) \in Nat
  BY WebhookAssumption
<1>2. ResultStatus(r) \in Terminal \cup {"none", "pending", "running"}
  BY DEF ResultStatus, Terminal
<1>3. QED BY <1>1, <1>2 DEF Recorded, DeliveryRow

\* The UPDATE of cancelPending keeps the table well typed.
LEMMA CancelPendingType ==
  ASSUME TypeOK, NEW s \in Subs, CancelPending(s)
  PROVE  deliv' \in [Deliveries -> DeliveryRow]
BY RowTypes DEF TypeOK, CancelPending

\* Every action of the API keeps the types.
LEMMA ApiType ==
  ASSUME TypeOK,
         \/ \E s \in Subs : CreateSubscription(s) \/ DeleteSubscription(s)
         \/ \E a \in Admins, s \in Subs : UpdateRead(a, s)
         \/ \E x \in edits : UpdateCommit(x)
         \/ \E e \in Events : Emit(e) \/ CleanupOutbox(e)
  PROVE  TypeOK'
<1> USE WebhookAssumption
<1>1. ASSUME NEW s \in Subs, CreateSubscription(s) PROVE TypeOK'
  BY <1>1 DEF TypeOK, CreateSubscription, SubRow, LiveStatus, fanVars
<1>2. ASSUME NEW s \in Subs, DeleteSubscription(s) PROVE TypeOK'
  BY <1>2, CancelPendingType DEF TypeOK, DeleteSubscription, SubRow, LiveStatus, fanVars
<1>3. ASSUME NEW a \in Admins, NEW s \in Subs, UpdateRead(a, s) PROVE TypeOK'
  <2>1. subs[s] \in SubRow /\ subs[s].rev + 1 \in Nat
    BY DEF TypeOK, SubRow
  <2>2. [admin |-> a, sub |-> s, row |-> subs[s], affects |-> FALSE] \in Edit
    BY <2>1 DEF Edit
  <2>3. \A url \in Urls, types \in (SUBSET EventTypes) \ {{}}, status \in LiveStatus :
          [admin |-> a, sub |-> s, affects |-> TRUE,
           row |-> [status |-> status, url |-> url, types |-> types,
                    rev |-> subs[s].rev + 1]] \in Edit
    BY <2>1 DEF Edit, SubRow
  <2>4. edits' \in SUBSET Edit
    <3>1. PICK x \in Edit : edits' = edits \cup {x}
      BY <1>3, <2>2, <2>3 DEF UpdateRead
    <3>2. QED BY <3>1 DEF TypeOK
  <2>5. QED BY <1>3, <2>4 DEF TypeOK, UpdateRead, fanVars
<1>4. ASSUME NEW x \in edits, UpdateCommit(x) PROVE TypeOK'
  <2>1. x.sub \in Subs /\ x.row \in SubRow
    BY DEF TypeOK, Edit
  <2>2. deliv' \in [Deliveries -> DeliveryRow]
    BY <1>4, <2>1, CancelPendingType DEF TypeOK, UpdateCommit
  <2>3. QED BY <1>4, <2>1, <2>2 DEF TypeOK, UpdateCommit, fanVars
<1>5. ASSUME NEW e \in Events, Emit(e) \/ CleanupOutbox(e) PROVE TypeOK'
  BY <1>5 DEF TypeOK, Emit, CleanupOutbox, apiVars
<1>6. QED BY <1>1, <1>2, <1>3, <1>4, <1>5

\* Every step of a fan-out keeps the types.
LEMMA FanOutType ==
  ASSUME TypeOK,
         \/ \E w \in Workers : FanOutBegin(w)
         \/ \E f \in fanouts : FanOutCommit(f) \/ \E e \in Events : FanOutEvent(f, e)
  PROVE  TypeOK'
<1> USE WebhookAssumption
<1>1. ASSUME NEW w \in Workers, FanOutBegin(w) PROVE TypeOK'
  BY <1>1 DEF TypeOK, FanOutBegin, FanOut, apiVars
<1>2. ASSUME NEW f \in fanouts, NEW e \in Events, FanOutEvent(f, e) PROVE TypeOK'
  <2> DEFINE new == {[delivery |-> <<e, s>>, rev |-> subs[s].rev, url |-> subs[s].url] :
                       s \in Matching(e)}
  <2>1. new \in SUBSET NewRow
    <3>1. ASSUME NEW s \in Matching(e)
          PROVE  [delivery |-> <<e, s>>, rev |-> subs[s].rev, url |-> subs[s].url] \in NewRow
      <4>1. s \in Subs /\ subs[s] \in SubRow
        BY DEF TypeOK, Matching
      <4>2. QED BY <4>1 DEF NewRow, SubRow, Deliveries
    <3>2. QED BY <3>1
  <2>2. f \in FanOut
    BY DEF TypeOK
  <2>3. fanouts' = (fanouts \ {f}) \cup {[f EXCEPT !.left = @ \ {e}, !.rows = @ \cup new]}
    BY <1>2 DEF FanOutEvent
  <2> HIDE DEF new
  <2>4. [f EXCEPT !.left = @ \ {e}, !.rows = @ \cup new] \in FanOut
    BY <2>1, <2>2 DEF FanOut
  <2>5. QED BY <1>2, <2>3, <2>4 DEF TypeOK, FanOutEvent, apiVars
<1>3. ASSUME NEW f \in fanouts, FanOutCommit(f) PROVE TypeOK'
  <2>1. \A n \in f.rows : Inserted(n) \in DeliveryRow
    BY RowTypes DEF TypeOK, FanOut
  <2>2. deliv' \in [Deliveries -> DeliveryRow]
    <3>1. ASSUME NEW d \in Deliveries PROVE deliv'[d] \in DeliveryRow
      <4>1. CASE deliv[d].status = "none" /\ \E n \in f.rows : n.delivery = d
        <5>1. (CHOOSE n \in f.rows : n.delivery = d) \in f.rows
          BY <4>1
        <5>2. QED BY <1>3, <4>1, <5>1, <2>1 DEF FanOutCommit
      <4>2. CASE ~ (deliv[d].status = "none" /\ \E n \in f.rows : n.delivery = d)
        BY <1>3, <4>2 DEF FanOutCommit, TypeOK
      <4>3. QED BY <4>1, <4>2
    <3>2. QED BY <1>3, <3>1 DEF FanOutCommit
  <2>3. QED BY <1>3, <2>2 DEF TypeOK, FanOutCommit, apiVars
<1>4. QED BY <1>1, <1>2, <1>3

\* Claiming, answering, recording, losing and crashing keep the types.
LEMMA WorkType ==
  ASSUME TypeOK,
         \/ \E w \in Workers : ClaimScan(w) \/ Crash(w)
         \/ \E c \in scans : ClaimCommit(c)
         \/ \E r \in inflight : \/ RecordAttempt(r)
                                \/ LoseResult(r)
                                \/ \E o \in Outcomes : Respond(r, o)
  PROVE  TypeOK'
<1> USE WebhookAssumption
<1>1. ASSUME NEW w \in Workers, ClaimScan(w) PROVE TypeOK'
  BY <1>1 DEF TypeOK, ClaimScan, Scan, apiVars, fanVars
<1>2. ASSUME NEW w \in Workers, Crash(w) PROVE TypeOK'
  BY <1>2 DEF TypeOK, Crash, apiVars
<1>3. ASSUME NEW c \in scans, ClaimCommit(c) PROVE TypeOK'
  <2>1. PICK claimed \in SUBSET {d \in c.seen : Due(d) /\ ~ Stale(d)},
             stale \in SUBSET {d \in c.seen : Due(d) /\ Stale(d)} :
          /\ deliv' = [d \in Deliveries |->
                IF d \in claimed THEN Claimed(deliv[d])
                ELSE IF d \in stale THEN Canceled(deliv[d])
                ELSE deliv[d]]
          /\ inflight' = inflight \cup {NewRequest(c.worker, d) : d \in claimed}
    BY <1>3 DEF ClaimCommit
  <2>2. c \in Scan /\ c.worker \in Workers /\ claimed \subseteq Deliveries
    BY DEF TypeOK, Scan
  <2>3. deliv' \in [Deliveries -> DeliveryRow]
    BY <2>1, RowTypes DEF TypeOK
  <2>4. \A d \in claimed : NewRequest(c.worker, d) \in Request
    BY <2>2 DEF TypeOK, NewRequest, Request, DeliveryRow
  <2>5. inflight' \in SUBSET Request
    BY <2>1, <2>4 DEF TypeOK
  <2>6. scans' \in SUBSET Scan
    BY <1>3 DEF TypeOK, ClaimCommit
  <2>7. QED BY <1>3, <2>3, <2>5, <2>6 DEF TypeOK, ClaimCommit, apiVars, fanVars
<1>4. ASSUME NEW r \in inflight, NEW o \in Outcomes, Respond(r, o) PROVE TypeOK'
  <2>1. [r EXCEPT !.answer = o] \in Request /\ r.delivery \in Deliveries
    BY DEF TypeOK, Request
  <2>2. QED BY <1>4, <2>1 DEF TypeOK, Respond, apiVars, fanVars
<1>5. ASSUME NEW r \in inflight, RecordAttempt(r) PROVE TypeOK'
  <2>1. r.delivery \in Deliveries /\ r.attempt \in Nat
    BY DEF TypeOK, Request
  <2>2. [number |-> r.attempt, ok |-> r.answer = "ok"] \in Attempt
    BY <2>1 DEF Attempt
  <2>3. attempts' \in [Deliveries -> SUBSET Attempt]
    BY <1>5, <2>1, <2>2 DEF TypeOK, RecordAttempt
  <2>4. deliv' \in [Deliveries -> DeliveryRow]
    BY <1>5, <2>1, RecordedType DEF TypeOK, RecordAttempt
  <2>5. QED BY <1>5, <2>3, <2>4 DEF TypeOK, RecordAttempt, apiVars, fanVars
<1>6. ASSUME NEW r \in inflight, LoseResult(r) PROVE TypeOK'
  BY <1>6 DEF TypeOK, LoseResult, apiVars, fanVars
<1>7. QED BY <1>1, <1>2, <1>3, <1>4, <1>5, <1>6

\* Recovery, clean-up and the clock keep the types.
LEMMA UpkeepType ==
  ASSUME TypeOK, RecoverStaleRunning \/ CleanupSelect \/ CleanupDelete \/ Tick
  PROVE  TypeOK'
<1> USE WebhookAssumption
<1>1. CASE RecoverStaleRunning
  BY <1>1, RowTypes DEF TypeOK, RecoverStaleRunning, apiVars, fanVars
<1>2. CASE CleanupSelect
  BY <1>2 DEF TypeOK, CleanupSelect, apiVars, fanVars
<1>3. CASE CleanupDelete
  BY <1>3, RowTypes DEF TypeOK, CleanupDelete, apiVars, fanVars
<1>4. CASE Tick
  <2>1. \A r \in inflight : [r EXCEPT !.age = @ + 1] \in Request
    BY DEF TypeOK, Request
  <2>2. QED BY <1>4, <2>1, RowTypes DEF TypeOK, Tick, apiVars, fanVars
<1>5. QED BY <1>1, <1>2, <1>3, <1>4

\* Every step keeps the types.
LEMMA StepType == ASSUME TypeOK, [Next]_vars PROVE TypeOK'
<1>1. CASE UNCHANGED vars
  BY <1>1 DEF TypeOK, vars
<1>2. CASE Next
  BY <1>2, ApiType, FanOutType, WorkType, UpkeepType DEF Next
<1>3. QED BY <1>1, <1>2

\* Every reachable state is a state of the tables and of the workers' memory.
THEOREM TypeCorrect == Spec => []TypeOK
<1>1. Init => TypeOK
  BY RowTypes DEF Init, TypeOK, NoSub, SubRow
<1>2. TypeOK /\ [Next]_vars => TypeOK'
  BY StepType
<1>3. QED BY <1>1, <1>2, PTL DEF Spec

-----------------------------------------------------------------------------
(* Safety. *)

\* What each statement does to the columns the invariants are about.
LEMMA RowEffects ==
  /\ NoDelivery.status = "none" /\ NoDelivery.attempt = 0
  /\ \A n \in NewRow : Inserted(n).status = "pending" /\ Inserted(n).attempt = 0
  /\ \A row \in DeliveryRow :
       /\ Canceled(row).status = "canceled" /\ Canceled(row).attempt = row.attempt
       /\ Claimed(row).status = "running" /\ Claimed(row).attempt = row.attempt + 1
       /\ Claimed(row).age = 0
       /\ Recovered(row).attempt = row.attempt
       /\ Recovered(row).status = IF row.attempt >= MaxAttempts THEN "failed" ELSE "pending"
       /\ Older(row).status = row.status /\ Older(row).attempt = row.attempt
       /\ row.status = "running" /\ row.age < StaleTimeout => Older(row).age = row.age + 1
<1>1. NoDelivery.status = "none" /\ NoDelivery.attempt = 0
  BY DEF NoDelivery
<1>2. ASSUME NEW n \in NewRow
      PROVE  Inserted(n).status = "pending" /\ Inserted(n).attempt = 0
  BY DEF Inserted, NoDelivery
<1>3. ASSUME NEW row \in DeliveryRow
      PROVE  /\ Canceled(row).status = "canceled" /\ Canceled(row).attempt = row.attempt
             /\ Claimed(row).status = "running" /\ Claimed(row).attempt = row.attempt + 1
             /\ Claimed(row).age = 0
             /\ Recovered(row).attempt = row.attempt
             /\ Recovered(row).status = IF row.attempt >= MaxAttempts
                                          THEN "failed" ELSE "pending"
  BY DEF DeliveryRow, Canceled, Claimed, Recovered
<1>4. ASSUME NEW row \in DeliveryRow
      PROVE  /\ Older(row).status = row.status /\ Older(row).attempt = row.attempt
             /\ row.status = "running" /\ row.age < StaleTimeout
                  => Older(row).age = row.age + 1
  BY DEF DeliveryRow, Older, AgeLimit
<1>5. QED BY <1>1, <1>2, <1>3, <1>4

\* ... and what the result of a request does.
LEMMA RecordedEffect ==
  ASSUME NEW row \in DeliveryRow, NEW r, NEW delay
  PROVE  /\ Recorded(row, r, delay).status = ResultStatus(r)
         /\ Recorded(row, r, delay).attempt = row.attempt
BY DEF DeliveryRow, Recorded

\* A step that changes no row that is in flight or has an outcome, and makes
\* rows only pending or canceled, keeps the invariant.
LEMMA HarmlessStep ==
  ASSUME TypeOK, TypeOK', DeliveryInv,
         UNCHANGED <<attempts, inflight, purging, accepted>>,
         \A d \in Deliveries :
           \/ deliv'[d] = deliv[d]
           \/ /\ deliv[d].status \in {"none", "pending"}
              /\ \/ deliv'[d].status = "pending" /\ deliv[d].status = "none"
                                                 /\ deliv'[d].attempt = 0
                 \/ deliv'[d].status = "canceled" /\ deliv'[d].attempt = deliv[d].attempt
  PROVE  DeliveryInv'
<1> USE DEF DeliveryInv
<1>1. \A r \in inflight : deliv'[r.delivery] = deliv[r.delivery]
  BY DEF ClaimsAreOwned, TypeOK, Request
<1>2. ClaimsAreOwned' /\ LeasesAgree' /\ AnswersAreAccepted'
  BY <1>1 DEF ClaimsAreOwned, LeasesAgree, AnswersAreAccepted
<1>3. BudgetKept'
  BY WebhookAssumption DEF BudgetKept
<1>4. HistoryExplainsOutcome'
  <2>1. ASSUME NEW d \in Deliveries PROVE Explained(d)'
    <3>1. Explained(d) /\ attempts'[d] = attempts[d]
      BY DEF HistoryExplainsOutcome
    <3>2. CASE deliv'[d] = deliv[d]
      BY <3>1, <3>2 DEF Explained
    <3>3. CASE deliv[d].status \in {"none", "pending"} /\ deliv'[d].attempt = deliv[d].attempt
               /\ deliv'[d].status \in {"pending", "canceled"}
      BY <3>1, <3>3 DEF Explained
    <3>4. QED BY <3>2, <3>3 DEF BudgetKept
  <2>2. QED BY <2>1 DEF HistoryExplainsOutcome
<1>5. SucceededWasAccepted'
  BY DEF SucceededWasAccepted
<1>6. PurgingSettled'
  <2>1. \A d \in purging : deliv'[d] = deliv[d]
    BY DEF PurgingSettled, Terminal, TypeOK
  <2>2. QED BY <2>1 DEF PurgingSettled
<1>7. QED BY <1>2, <1>3, <1>4, <1>5, <1>6

\* The steps of the API and of the fan-out, and the snapshot of a claim, are
\* harmless in that sense.
LEMMA ApiAndFanOutSafe ==
  ASSUME TypeOK, TypeOK', DeliveryInv,
         \/ \E s \in Subs : CreateSubscription(s) \/ DeleteSubscription(s)
         \/ \E a \in Admins, s \in Subs : UpdateRead(a, s)
         \/ \E x \in edits : UpdateCommit(x)
         \/ \E e \in Events : Emit(e) \/ CleanupOutbox(e)
         \/ \E w \in Workers : FanOutBegin(w) \/ ClaimScan(w)
         \/ \E f \in fanouts : FanOutCommit(f) \/ \E e \in Events : FanOutEvent(f, e)
  PROVE  DeliveryInv'
<1>1. ASSUME NEW s \in Subs, CancelPending(s), NEW d \in Deliveries, deliv'[d] # deliv[d]
      PROVE  /\ deliv[d].status \in {"none", "pending"}
             /\ deliv'[d].status = "canceled" /\ deliv'[d].attempt = deliv[d].attempt
  BY <1>1, RowEffects DEF CancelPending, TypeOK
<1>2. ASSUME NEW s \in Subs, CreateSubscription(s) \/ DeleteSubscription(s)
      PROVE  DeliveryInv'
  BY <1>1, <1>2, HarmlessStep DEF CreateSubscription, DeleteSubscription, fanVars
<1>3. ASSUME NEW a \in Admins, NEW s \in Subs, UpdateRead(a, s) PROVE DeliveryInv'
  BY <1>3, HarmlessStep DEF UpdateRead, fanVars
<1>4. ASSUME NEW x \in edits, UpdateCommit(x) PROVE DeliveryInv'
  <2>1. x.sub \in Subs
    BY DEF TypeOK, Edit
  <2>2. QED BY <1>1, <1>4, <2>1, HarmlessStep DEF UpdateCommit, fanVars
<1>5. ASSUME NEW e \in Events, Emit(e) \/ CleanupOutbox(e) PROVE DeliveryInv'
  BY <1>5, HarmlessStep DEF Emit, CleanupOutbox, apiVars
<1>6. ASSUME NEW w \in Workers, FanOutBegin(w) \/ ClaimScan(w) PROVE DeliveryInv'
  BY <1>6, HarmlessStep DEF FanOutBegin, ClaimScan, apiVars, fanVars
<1>7. ASSUME NEW f \in fanouts, NEW e \in Events, FanOutEvent(f, e) PROVE DeliveryInv'
  BY <1>7, HarmlessStep DEF FanOutEvent, apiVars
<1>8. ASSUME NEW f \in fanouts, FanOutCommit(f) PROVE DeliveryInv'
  <2>1. ASSUME NEW d \in Deliveries, deliv'[d] # deliv[d]
        PROVE  /\ deliv[d].status = "none"
               /\ deliv'[d].status = "pending" /\ deliv'[d].attempt = 0
    <3>1. deliv[d].status = "none" /\ \E n \in f.rows : n.delivery = d
      BY <1>8, <2>1 DEF FanOutCommit
    <3>2. (CHOOSE n \in f.rows : n.delivery = d) \in NewRow
      BY <3>1 DEF TypeOK, FanOut
    <3>3. QED BY <1>8, <3>1, <3>2, RowEffects DEF FanOutCommit
  <2>2. QED BY <1>8, <2>1, HarmlessStep DEF FanOutCommit, apiVars
<1>9. QED BY <1>2, <1>3, <1>4, <1>5, <1>6, <1>7, <1>8

\* Forgetting requests is safe: recovery finds their rows later.
LEMMA ForgetSafe ==
  ASSUME TypeOK, DeliveryInv, UNCHANGED <<deliv, attempts, purging, accepted>>,
         inflight' \subseteq inflight
  PROVE  DeliveryInv'
BY DEF DeliveryInv, ClaimsAreOwned, LeasesAgree, BudgetKept, HistoryExplainsOutcome, Explained,
       SucceededWasAccepted, AnswersAreAccepted, PurgingSettled

\* A claim takes pending rows, which no request in memory is about.
LEMMA ClaimSafe ==
  ASSUME TypeOK, TypeOK', DeliveryInv, NEW c \in scans, ClaimCommit(c)
  PROVE  DeliveryInv'
<1> USE WebhookAssumption DEF DeliveryInv
<1>1. PICK claimed \in SUBSET {d \in c.seen : Due(d) /\ ~ Stale(d)},
           stale \in SUBSET {d \in c.seen : Due(d) /\ Stale(d)} :
        /\ deliv' = [d \in Deliveries |->
              IF d \in claimed THEN Claimed(deliv[d])
              ELSE IF d \in stale THEN Canceled(deliv[d])
              ELSE deliv[d]]
        /\ inflight' = inflight \cup {NewRequest(c.worker, d) : d \in claimed}
  BY DEF ClaimCommit
<1>2. UNCHANGED <<attempts, purging, accepted>>
  BY DEF ClaimCommit
<1>3. /\ claimed \subseteq Deliveries /\ stale \subseteq Deliveries
      /\ \A d \in claimed \cup stale : deliv[d].status = "pending"
  BY DEF TypeOK, Scan, Due
<1>4. \A d \in claimed : /\ deliv'[d].status = "running" /\ deliv'[d].age = 0
                         /\ deliv'[d].attempt = deliv[d].attempt + 1
  BY <1>1, <1>3, RowEffects DEF TypeOK
<1>5. \A d \in stale : d \notin claimed => /\ deliv'[d].status = "canceled"
                                           /\ deliv'[d].attempt = deliv[d].attempt
  BY <1>1, <1>3, RowEffects DEF TypeOK
<1>6. \A d \in Deliveries : d \notin claimed /\ d \notin stale => deliv'[d] = deliv[d]
  BY <1>1
<1>7. \A r \in inflight : /\ r.delivery \in Deliveries /\ r.delivery \notin claimed
                          /\ deliv'[r.delivery] = deliv[r.delivery]
  BY <1>3, <1>6 DEF ClaimsAreOwned, TypeOK, Request
<1>8. \A r \in inflight' : r \in inflight \/ \E d \in claimed : r = NewRequest(c.worker, d)
  BY <1>1
<1>9. \A d \in claimed : LET r == NewRequest(c.worker, d)
                         IN  /\ r.delivery = d /\ r.attempt = deliv[d].attempt + 1
                             /\ r.age = 0 /\ r.answer = "none"
  BY DEF NewRequest
<1>10. ClaimsAreOwned'
  BY <1>3, <1>4, <1>7, <1>8, <1>9 DEF ClaimsAreOwned
<1>11. LeasesAgree'
  BY <1>4, <1>7, <1>8, <1>9 DEF LeasesAgree
<1>12. BudgetKept'
  BY <1>3, <1>4, <1>5, <1>6 DEF BudgetKept, TypeOK, DeliveryRow
<1>13. HistoryExplainsOutcome'
  <2>1. ASSUME NEW d \in Deliveries PROVE Explained(d)'
    <3>1. Explained(d) /\ attempts'[d] = attempts[d] /\ deliv[d].attempt \in Nat
      BY <1>2 DEF HistoryExplainsOutcome, TypeOK, DeliveryRow
    <3>2. CASE d \in claimed
      BY <1>3, <1>4, <3>1, <3>2 DEF Explained
    <3>3. CASE d \in stale /\ d \notin claimed
      BY <1>3, <1>5, <3>1, <3>3 DEF Explained
    <3>4. CASE d \notin claimed /\ d \notin stale
      BY <1>6, <3>1, <3>4 DEF Explained
    <3>5. QED BY <3>2, <3>3, <3>4
  <2>2. QED BY <2>1 DEF HistoryExplainsOutcome
<1>14. SucceededWasAccepted'
  BY <1>2, <1>4, <1>5, <1>6 DEF SucceededWasAccepted
<1>15. AnswersAreAccepted'
  BY <1>2, <1>8, <1>9 DEF AnswersAreAccepted
<1>16. PurgingSettled'
  BY <1>2, <1>3, <1>6 DEF PurgingSettled, Terminal, TypeOK
<1>17. QED BY <1>10, <1>11, <1>12, <1>13, <1>14, <1>15, <1>16

\* An answer changes one request, and only its answer.
LEMMA RespondSafe ==
  ASSUME TypeOK, DeliveryInv, NEW r \in inflight, NEW o \in Outcomes, Respond(r, o)
  PROVE  DeliveryInv'
<1> USE DEF DeliveryInv
<1> DEFINE q == [r EXCEPT !.answer = o]
<1>1. /\ q.delivery = r.delivery /\ q.attempt = r.attempt /\ q.age = r.age /\ q.answer = o
  BY DEF TypeOK, Request
<1>2. /\ inflight' = (inflight \ {r}) \cup {q} /\ UNCHANGED <<deliv, attempts, purging>>
      /\ accepted \subseteq accepted' /\ (o = "ok" => r.delivery \in accepted')
  BY DEF Respond
<1> HIDE DEF q
<1>3. ClaimsAreOwned' /\ LeasesAgree'
  BY <1>1, <1>2 DEF ClaimsAreOwned, LeasesAgree
<1>4. BudgetKept' /\ HistoryExplainsOutcome' /\ PurgingSettled' /\ SucceededWasAccepted'
  BY <1>2 DEF BudgetKept, HistoryExplainsOutcome, Explained, PurgingSettled, SucceededWasAccepted
<1>5. AnswersAreAccepted'
  BY <1>1, <1>2 DEF AnswersAreAccepted
<1>6. QED BY <1>3, <1>4, <1>5

\* A recorded result closes or reopens the row it was claimed from.
LEMMA RecordSafe ==
  ASSUME TypeOK, TypeOK', DeliveryInv, NEW r \in inflight, RecordAttempt(r)
  PROVE  DeliveryInv'
<1> USE WebhookAssumption DEF DeliveryInv
<1> DEFINE d == r.delivery
           rec == [number |-> r.attempt, ok |-> r.answer = "ok"]
<1>1. /\ d \in Deliveries /\ deliv[d] \in DeliveryRow /\ deliv[d].status = "running"
      /\ deliv[d].attempt = r.attempt /\ r.attempt \in Nat
  BY DEF ClaimsAreOwned, TypeOK, Request
<1>2. \A q \in inflight' : q \in inflight /\ q.delivery \in Deliveries /\ q.delivery # d
  BY DEF RecordAttempt, ClaimsAreOwned, TypeOK, Request
<1>3. /\ deliv'[d].status = ResultStatus(r) /\ deliv'[d].attempt = r.attempt
      /\ \A x \in Deliveries : x # d => deliv'[x] = deliv[x]
  BY <1>1, RecordedEffect DEF RecordAttempt, TypeOK
<1>4. \A a \in attempts[d] : a.number < r.attempt /\ ~ a.ok
  BY <1>1 DEF HistoryExplainsOutcome, Explained
<1>5. attempts' = [attempts EXCEPT ![d] = @ \cup {rec}]
  BY <1>1, <1>4 DEF RecordAttempt, TypeOK, Attempt
<1>6. UNCHANGED <<purging, accepted>>
  BY DEF RecordAttempt
<1>7. r.attempt \in 1..MaxAttempts
  BY <1>1 DEF BudgetKept
<1>8. ClaimsAreOwned' /\ LeasesAgree' /\ AnswersAreAccepted'
  BY <1>2, <1>3, <1>6 DEF ClaimsAreOwned, LeasesAgree, AnswersAreAccepted
<1>9. BudgetKept'
  BY <1>3, <1>7 DEF BudgetKept, ResultStatus, Retry
<1>10. HistoryExplainsOutcome'
  <2>1. rec.number = r.attempt /\ (rec.ok <=> r.answer = "ok")
    OBVIOUS
  <2>2. Explained(d)'
    <3>1. attempts'[d] = attempts[d] \cup {rec}
      BY <1>1, <1>5 DEF TypeOK
    <3>2. \A a \in attempts[d] : a.number \in 1..r.attempt
      BY <1>1 DEF HistoryExplainsOutcome, Explained
    <3>3. (r.answer = "ok") <=> (deliv'[d].status = "succeeded")
      BY <1>3 DEF ResultStatus
    <3>4. deliv'[d].status # "running"
      BY <1>3 DEF ResultStatus
    <3>5. \A a \in attempts'[d] : a \in attempts[d] \/ a = rec
      BY <3>1
    <3>6. \A a \in attempts'[d] : a.number \in 1..deliv'[d].attempt
      BY <1>1, <1>3, <1>7, <2>1, <3>2, <3>5
    <3>7. \A a \in attempts'[d] :
            a.ok => deliv'[d].status = "succeeded" /\ a.number = deliv'[d].attempt
      BY <1>3, <1>4, <2>1, <3>3, <3>5
    <3>8. deliv'[d].status = "succeeded" => \E a \in attempts'[d] : a.ok
      BY <2>1, <3>1, <3>3
    <3>9. QED BY <3>4, <3>6, <3>7, <3>8 DEF Explained
  <2>3. ASSUME NEW x \in Deliveries, x # d PROVE Explained(x)'
    BY <1>3, <1>5, <2>3 DEF HistoryExplainsOutcome, Explained, TypeOK
  <2>4. QED BY <2>2, <2>3 DEF HistoryExplainsOutcome
<1>11. SucceededWasAccepted'
  BY <1>3, <1>6 DEF SucceededWasAccepted, AnswersAreAccepted, ResultStatus
<1>12. PurgingSettled'
  BY <1>1, <1>3, <1>6 DEF PurgingSettled, Terminal, TypeOK
<1>13. QED BY <1>8, <1>9, <1>10, <1>11, <1>12

\* Under Prompt, recovery finds no row that a live worker is still to record.
LEMMA RecoverSafe ==
  ASSUME Prompt, TypeOK, TypeOK', DeliveryInv, RecoverStaleRunning
  PROVE  DeliveryInv'
<1> USE WebhookAssumption DEF DeliveryInv
<1>1. UNCHANGED <<attempts, inflight, purging, accepted>>
  BY DEF RecoverStaleRunning
<1>2. \A d \in Deliveries :
        \/ deliv'[d] = deliv[d]
        \/ /\ deliv[d].status = "running" /\ deliv[d].age >= StaleTimeout
           /\ deliv'[d].attempt = deliv[d].attempt
           /\ deliv'[d].status = IF deliv[d].attempt >= MaxAttempts THEN "failed" ELSE "pending"
  BY RowEffects DEF RecoverStaleRunning, Abandoned, TypeOK
<1>3. \A r \in inflight : r.delivery \in Deliveries /\ deliv'[r.delivery] = deliv[r.delivery]
  BY <1>2 DEF LeasesAgree, Prompt, TypeOK, Request
<1>4. ClaimsAreOwned' /\ LeasesAgree' /\ AnswersAreAccepted'
  BY <1>1, <1>3 DEF ClaimsAreOwned, LeasesAgree, AnswersAreAccepted
<1>5. BudgetKept'
  BY <1>2 DEF BudgetKept, TypeOK, DeliveryRow
<1>6. HistoryExplainsOutcome'
  BY <1>1, <1>2 DEF HistoryExplainsOutcome, Explained
<1>7. SucceededWasAccepted'
  BY <1>1, <1>2 DEF SucceededWasAccepted
<1>8. PurgingSettled'
  BY <1>1, <1>2 DEF PurgingSettled, Terminal, TypeOK
<1>9. QED BY <1>4, <1>5, <1>6, <1>7, <1>8

\* Clean-up selects and deletes only rows with an outcome.
LEMMA CleanupSafe ==
  ASSUME TypeOK, DeliveryInv, CleanupSelect \/ CleanupDelete
  PROVE  DeliveryInv'
<1> USE DEF DeliveryInv
<1>1. CASE CleanupSelect
  <2>1. UNCHANGED <<deliv, attempts, inflight, accepted>>
    BY <1>1 DEF CleanupSelect, fanVars
  <2>2. PurgingSettled'
    BY <1>1 DEF CleanupSelect, PurgingSettled
  <2>3. QED BY <2>1, <2>2 DEF ClaimsAreOwned, LeasesAgree, BudgetKept, HistoryExplainsOutcome,
                              Explained, SucceededWasAccepted, AnswersAreAccepted
<1>2. CASE CleanupDelete
  <2>1. UNCHANGED <<inflight, accepted>> /\ purging' = {}
    BY <1>2 DEF CleanupDelete
  <2>2. \A d \in Deliveries :
          IF d \in purging THEN deliv'[d] = NoDelivery /\ attempts'[d] = {}
          ELSE deliv'[d] = deliv[d] /\ attempts'[d] = attempts[d]
    BY <1>2 DEF CleanupDelete
  <2>3. \A r \in inflight : r.delivery \in Deliveries /\ deliv'[r.delivery] = deliv[r.delivery]
    BY <2>2 DEF ClaimsAreOwned, PurgingSettled, Terminal, TypeOK, Request
  <2>4. ClaimsAreOwned' /\ LeasesAgree' /\ AnswersAreAccepted'
    BY <2>1, <2>3 DEF ClaimsAreOwned, LeasesAgree, AnswersAreAccepted
  <2>5. BudgetKept' /\ SucceededWasAccepted' /\ PurgingSettled'
    BY <2>1, <2>2, RowEffects, WebhookAssumption
    DEF BudgetKept, SucceededWasAccepted, PurgingSettled
  <2>6. HistoryExplainsOutcome'
    BY <2>2, RowEffects DEF HistoryExplainsOutcome, Explained
  <2>7. QED BY <2>4, <2>5, <2>6
<1>3. QED BY <1>1, <1>2

\* The clock ages a claim and its row together.
LEMMA TickSafe ==
  ASSUME Prompt, TypeOK, DeliveryInv, Tick
  PROVE  DeliveryInv'
<1> USE DEF DeliveryInv
<1>1. UNCHANGED <<attempts, purging, accepted>>
  BY DEF Tick
<1>2. \A d \in Deliveries : /\ deliv'[d] = Older(deliv[d])
                            /\ deliv'[d].status = deliv[d].status
                            /\ deliv'[d].attempt = deliv[d].attempt
  BY RowEffects DEF Tick, TypeOK
<1>3. \A q \in inflight' : \E r \in inflight :
        /\ q = [r EXCEPT !.age = @ + 1]
        /\ q.delivery = r.delivery /\ q.attempt = r.attempt /\ q.answer = r.answer
        /\ q.age = r.age + 1 /\ r.age < RequestBound /\ r.delivery \in Deliveries
  BY DEF Tick, TypeOK, Request
<1>4. ClaimsAreOwned'
  BY <1>2, <1>3 DEF ClaimsAreOwned
<1>5. LeasesAgree'
  <2>1. ASSUME NEW r \in inflight, r.age < RequestBound, r.delivery \in Deliveries
        PROVE  deliv'[r.delivery].age = r.age + 1 /\ r.age + 1 <= RequestBound
    <3>1. deliv[r.delivery].status = "running" /\ deliv[r.delivery].age = r.age
          /\ deliv[r.delivery] \in DeliveryRow /\ r.age \in Nat
      BY <2>1 DEF ClaimsAreOwned, LeasesAgree, TypeOK, Request
    <3>2. r.age < StaleTimeout /\ r.age + 1 <= RequestBound
      BY <2>1, <3>1, WebhookAssumption DEF Prompt
    <3>3. QED BY <1>2, <2>1, <3>1, <3>2, RowEffects
  <2>2. QED BY <1>3, <2>1 DEF LeasesAgree
<1>6. AnswersAreAccepted'
  BY <1>1, <1>3 DEF AnswersAreAccepted
<1>7. BudgetKept' /\ SucceededWasAccepted'
  BY <1>1, <1>2 DEF BudgetKept, SucceededWasAccepted
<1>8. HistoryExplainsOutcome' /\ PurgingSettled'
  BY <1>1, <1>2 DEF HistoryExplainsOutcome, Explained, PurgingSettled, TypeOK
<1>9. QED BY <1>4, <1>5, <1>6, <1>7, <1>8

\* Under Prompt, every step keeps the inductive invariant.
LEMMA StepSafe ==
  ASSUME Prompt, TypeOK, TypeOK', DeliveryInv, [Next]_vars
  PROVE  DeliveryInv'
<1>1. CASE UNCHANGED vars
  BY <1>1, ForgetSafe DEF vars
<1>2. ASSUME NEW w \in Workers, Crash(w) PROVE DeliveryInv'
  BY <1>2, ForgetSafe DEF Crash
<1>3. ASSUME NEW r \in inflight, LoseResult(r) PROVE DeliveryInv'
  BY <1>3, ForgetSafe DEF LoseResult
<1>4. CASE Next
  BY <1>2, <1>3, <1>4, ApiAndFanOutSafe, ClaimSafe, RespondSafe, RecordSafe, RecoverSafe,
     CleanupSafe, TickSafe DEF Next
<1>5. QED BY <1>1, <1>4

\* The inductive invariant holds of every reachable state, for any number of
\* events, subscriptions and overlapping activations, provided that a worker
\* that is alive records its result before recovery may take its claim.
THEOREM DeliveryInvariant == ASSUME Prompt PROVE Spec => []DeliveryInv
<1>1. Init => DeliveryInv
  BY RowEffects, WebhookAssumption
  DEF Init, DeliveryInv, ClaimsAreOwned, LeasesAgree, BudgetKept, HistoryExplainsOutcome,
      Explained, SucceededWasAccepted, AnswersAreAccepted, PurgingSettled
<1>2. TypeOK /\ TypeOK' /\ DeliveryInv /\ [Next]_vars => DeliveryInv'
  BY StepSafe
<1>3. QED BY <1>1, <1>2, TypeCorrect, PTL DEF Spec

\* A result still to be recorded belongs to the row it was claimed from.
THEOREM OwnershipHolds == ASSUME Prompt PROVE Spec => []ClaimsAreOwned
<1>1. DeliveryInv => ClaimsAreOwned
  BY DEF DeliveryInv
<1>2. QED BY <1>1, DeliveryInvariant, PTL

\* The recorded attempts explain every delivery's state.
THEOREM HistoryHolds == ASSUME Prompt PROVE Spec => []HistoryExplainsOutcome
<1>1. DeliveryInv => HistoryExplainsOutcome
  BY DEF DeliveryInv
<1>2. QED BY <1>1, DeliveryInvariant, PTL

\* No delivery uses, and no attempt records, more than WEBHOOK_MAX_ATTEMPTS.
THEOREM AttemptsHold == ASSUME Prompt PROVE Spec => []AttemptsBounded
<1>1. TypeOK /\ DeliveryInv => AttemptsBounded
  BY WebhookAssumption
  DEF DeliveryInv, BudgetKept, HistoryExplainsOutcome, Explained, AttemptsBounded, TypeOK,
      DeliveryRow, Attempt
<1>2. QED BY <1>1, TypeCorrect, DeliveryInvariant, PTL

-----------------------------------------------------------------------------
(* Outcomes. *)

\* What one step may do to one row.
RowMoves(d) ==
  \/ /\ deliv'[d].status = deliv[d].status /\ deliv'[d].attempt = deliv[d].attempt
  \/ /\ deliv[d].status = "none" /\ deliv'[d].status = "pending"
     /\ deliv'[d].attempt = deliv[d].attempt
  \/ /\ deliv[d].status = "pending" /\ deliv'[d].status = "running"
     /\ deliv[d].attempt < MaxAttempts /\ deliv'[d].attempt = deliv[d].attempt + 1
  \/ /\ deliv[d].status = "pending" /\ deliv'[d].status = "canceled"
     /\ deliv'[d].attempt = deliv[d].attempt
  \/ /\ deliv[d].status = "running" /\ deliv'[d].status = "pending"
     /\ deliv[d].attempt < MaxAttempts /\ deliv'[d].attempt = deliv[d].attempt
  \/ /\ deliv[d].status = "running" /\ deliv'[d].status = "failed"
     /\ deliv'[d].attempt = deliv[d].attempt
  \/ /\ deliv[d].status = "running" /\ deliv'[d].status = "succeeded" /\ d \in accepted
     /\ deliv'[d].attempt = deliv[d].attempt
  \/ /\ deliv[d].status \in Terminal /\ deliv'[d].status = "none" /\ deliv'[d].attempt = 0

\* Every step moves every row along that life cycle.
LEMMA Moves ==
  ASSUME TypeOK, DeliveryInv, [Next]_vars, NEW d \in Deliveries
  PROVE  RowMoves(d)
<1>1. deliv[d] \in DeliveryRow /\ deliv[d].attempt \in Nat
  BY DEF TypeOK, DeliveryRow
<1>2. /\ deliv[d].status = "pending" => deliv[d].attempt < MaxAttempts
      /\ deliv[d].status = "none" => deliv[d].attempt = 0
  BY DEF DeliveryInv, BudgetKept
<1>3. ASSUME NEW s \in Subs, CancelPending(s) PROVE RowMoves(d)
  BY <1>1, <1>3, RowEffects DEF CancelPending, RowMoves
<1>4. ASSUME NEW s \in Subs, CreateSubscription(s) \/ DeleteSubscription(s) PROVE RowMoves(d)
  BY <1>3, <1>4 DEF CreateSubscription, DeleteSubscription, RowMoves
<1>5. ASSUME NEW x \in edits, UpdateCommit(x) PROVE RowMoves(d)
  <2>1. x.sub \in Subs
    BY DEF TypeOK, Edit
  <2>2. QED BY <1>3, <1>5, <2>1 DEF UpdateCommit, RowMoves
<1>6. ASSUME NEW f \in fanouts, FanOutCommit(f) PROVE RowMoves(d)
  <2>1. CASE deliv[d].status = "none" /\ \E n \in f.rows : n.delivery = d
    <3>1. (CHOOSE n \in f.rows : n.delivery = d) \in NewRow
      BY <2>1 DEF TypeOK, FanOut
    <3>2. QED BY <1>2, <1>6, <2>1, <3>1, RowEffects DEF FanOutCommit, RowMoves
  <2>2. CASE ~ (deliv[d].status = "none" /\ \E n \in f.rows : n.delivery = d)
    BY <1>6, <2>2 DEF FanOutCommit, RowMoves
  <2>3. QED BY <2>1, <2>2
<1>7. ASSUME NEW c \in scans, ClaimCommit(c) PROVE RowMoves(d)
  <2>1. PICK claimed \in SUBSET {x \in c.seen : Due(x) /\ ~ Stale(x)},
             stale \in SUBSET {x \in c.seen : Due(x) /\ Stale(x)} :
          /\ deliv' = [x \in Deliveries |->
                IF x \in claimed THEN Claimed(deliv[x])
                ELSE IF x \in stale THEN Canceled(deliv[x])
                ELSE deliv[x]]
          /\ inflight' = inflight \cup {NewRequest(c.worker, x) : x \in claimed}
    BY <1>7 DEF ClaimCommit
  <2>2. \/ deliv'[d] = deliv[d]
        \/ deliv'[d] \in {Claimed(deliv[d]), Canceled(deliv[d])} /\ Due(d)
    BY <2>1
  <2>3. QED BY <1>1, <1>2, <2>2, RowEffects DEF Due, RowMoves
<1>8. ASSUME NEW r \in inflight, RecordAttempt(r) PROVE RowMoves(d)
  <2>1. /\ r.delivery \in Deliveries /\ deliv[r.delivery].status = "running"
        /\ deliv[r.delivery].attempt = r.attempt
        /\ r.answer = "ok" => r.delivery \in accepted
    BY DEF DeliveryInv, ClaimsAreOwned, AnswersAreAccepted, TypeOK, Request
  <2>2. d # r.delivery => deliv'[d] = deliv[d]
    BY <1>8, <2>1 DEF RecordAttempt, TypeOK
  <2>3. d = r.delivery => /\ deliv'[d].status = ResultStatus(r)
                          /\ deliv'[d].attempt = deliv[d].attempt
    BY <1>1, <1>8, <2>1, RecordedEffect DEF RecordAttempt, TypeOK
  <2>4. QED BY <2>1, <2>2, <2>3 DEF ResultStatus, Retry, RowMoves
<1>9. CASE RecoverStaleRunning
  BY <1>1, <1>9, RowEffects, WebhookAssumption DEF RecoverStaleRunning, Abandoned, RowMoves
<1>10. CASE CleanupDelete
  BY <1>10, RowEffects DEF CleanupDelete, DeliveryInv, PurgingSettled, RowMoves
<1>11. CASE Tick
  BY <1>1, <1>11, RowEffects DEF Tick, RowMoves
<1>12. ASSUME UNCHANGED deliv PROVE RowMoves(d)
  BY <1>12 DEF RowMoves
<1>13. CASE Next
  <2>1. ASSUME \/ \E a \in Admins, s \in Subs : UpdateRead(a, s)
               \/ \E e \in Events : Emit(e) \/ CleanupOutbox(e)
               \/ \E w \in Workers : FanOutBegin(w) \/ ClaimScan(w) \/ Crash(w)
               \/ \E f \in fanouts, e \in Events : FanOutEvent(f, e)
               \/ \E r \in inflight : LoseResult(r) \/ \E o \in Outcomes : Respond(r, o)
               \/ CleanupSelect
        PROVE  UNCHANGED deliv
    BY <2>1 DEF UpdateRead, Emit, CleanupOutbox, FanOutBegin, ClaimScan, Crash, FanOutEvent,
                LoseResult, Respond, CleanupSelect
  <2>2. QED BY <1>4, <1>5, <1>6, <1>7, <1>8, <1>9, <1>10, <1>11, <1>12, <1>13, <2>1 DEF Next
<1>14. QED BY <1>12, <1>13 DEF vars

\* So an outcome stays or is purged, and only an outcome is purged.
LEMMA SettledStep ==
  ASSUME TypeOK, DeliveryInv, [Next]_vars, NEW d \in Deliveries
  PROVE  /\ deliv[d].status \in Terminal => deliv'[d].status \in {deliv[d].status, "none"}
         /\ deliv'[d].status = "none" => deliv[d].status \in Terminal \cup {"none"}
BY Moves DEF RowMoves, Terminal

\* No step reopens or changes an outcome; only retention removes it.
THEOREM OutcomesAreFinal == ASSUME Prompt PROVE Spec => OutcomeIsFinal
<1>1. TypeOK /\ DeliveryInv /\ [Next]_vars
        => [\A d \in Deliveries :
              deliv[d].status \in Terminal => deliv'[d].status \in {deliv[d].status, "none"}]_vars
  BY SettledStep
<1>2. QED BY <1>1, TypeCorrect, DeliveryInvariant, PTL DEF Spec, OutcomeIsFinal

\* Retention deletes nothing that still waits or runs.
THEOREM PurgeIsSafe == ASSUME Prompt PROVE Spec => OnlySettledIsPurged
<1>1. TypeOK /\ DeliveryInv /\ [Next]_vars
        => [\A d \in Deliveries :
              deliv'[d].status = "none" => deliv[d].status \in Terminal \cup {"none"}]_vars
  BY SettledStep
<1>2. QED BY <1>1, TypeCorrect, DeliveryInvariant, PTL DEF Spec, OnlySettledIsPurged

-----------------------------------------------------------------------------
(* What holds without Prompt. *)

\* Who starts running: only the rows a claim has seen, and of those at most one
\* of each subscription.
LEMMA RunningStep ==
  ASSUME TypeOK, [Next]_vars
  PROVE  \/ \A d \in Deliveries : deliv'[d].status = "running" => deliv[d].status = "running"
         \/ \E c \in scans :
              /\ ClaimCommit(c)
              /\ scans' = scans \ {c}
              /\ \A d \in Deliveries :
                   deliv'[d].status = "running" => deliv[d].status = "running" \/ d \in c.seen
              /\ \A d1, d2 \in Deliveries :
                   /\ deliv'[d1].status = "running" /\ deliv[d1].status # "running"
                   /\ deliv'[d2].status = "running" /\ deliv[d2].status # "running"
                   /\ d1[2] = d2[2]
                   => d1 = d2
<1> DEFINE NoneStarts ==
             \A d \in Deliveries : deliv'[d].status = "running" => deliv[d].status = "running"
<1>1. ASSUME NEW s \in Subs, CancelPending(s) PROVE NoneStarts
  BY <1>1, RowEffects DEF CancelPending, TypeOK
<1>2. ASSUME NEW s \in Subs, CreateSubscription(s) \/ DeleteSubscription(s) PROVE NoneStarts
  BY <1>1, <1>2 DEF CreateSubscription, DeleteSubscription
<1>3. ASSUME NEW x \in edits, UpdateCommit(x) PROVE NoneStarts
  <2>1. x.sub \in Subs
    BY DEF TypeOK, Edit
  <2>2. QED BY <1>1, <1>3, <2>1 DEF UpdateCommit
<1>4. ASSUME NEW f \in fanouts, FanOutCommit(f) PROVE NoneStarts
  <2>1. ASSUME NEW d \in Deliveries, deliv'[d] # deliv[d] PROVE deliv'[d].status = "pending"
    <3>1. deliv[d].status = "none" /\ \E n \in f.rows : n.delivery = d
      BY <1>4, <2>1 DEF FanOutCommit
    <3>2. (CHOOSE n \in f.rows : n.delivery = d) \in NewRow
      BY <3>1 DEF TypeOK, FanOut
    <3>3. QED BY <1>4, <3>1, <3>2, RowEffects DEF FanOutCommit
  <2>2. QED BY <2>1
<1>5. ASSUME NEW r \in inflight, RecordAttempt(r) PROVE NoneStarts
  <2>1. ASSUME NEW d \in Deliveries, deliv'[d] # deliv[d]
        PROVE  deliv'[d].status = ResultStatus(r)
    BY <1>5, <2>1, RecordedEffect DEF RecordAttempt, TypeOK
  <2>2. QED BY <2>1 DEF ResultStatus
<1>6. ASSUME RecoverStaleRunning PROVE NoneStarts
  BY <1>6, RowEffects DEF RecoverStaleRunning, TypeOK
<1>7. ASSUME CleanupDelete PROVE NoneStarts
  BY <1>7, RowEffects DEF CleanupDelete
<1>8. ASSUME Tick PROVE NoneStarts
  BY <1>8, RowEffects DEF Tick, TypeOK
<1>9. ASSUME UNCHANGED deliv PROVE NoneStarts
  BY <1>9
<1>10. ASSUME NEW c \in scans, ClaimCommit(c)
       PROVE  /\ scans' = scans \ {c}
              /\ \A d \in Deliveries :
                   deliv'[d].status = "running" => deliv[d].status = "running" \/ d \in c.seen
              /\ \A d1, d2 \in Deliveries :
                   /\ deliv'[d1].status = "running" /\ deliv[d1].status # "running"
                   /\ deliv'[d2].status = "running" /\ deliv[d2].status # "running"
                   /\ d1[2] = d2[2]
                   => d1 = d2
  <2>1. PICK claimed \in SUBSET {x \in c.seen : Due(x) /\ ~ Stale(x)},
             stale \in SUBSET {x \in c.seen : Due(x) /\ Stale(x)} :
          /\ \A d1, d2 \in claimed : d1[2] = d2[2] => d1 = d2
          /\ deliv' = [x \in Deliveries |->
                IF x \in claimed THEN Claimed(deliv[x])
                ELSE IF x \in stale THEN Canceled(deliv[x])
                ELSE deliv[x]]
          /\ inflight' = inflight \cup {NewRequest(c.worker, x) : x \in claimed}
    BY <1>10 DEF ClaimCommit
  <2>2. ASSUME NEW d \in Deliveries, deliv'[d].status = "running", deliv[d].status # "running"
        PROVE  d \in claimed
    <3>1. deliv'[d] = IF d \in claimed THEN Claimed(deliv[d])
                      ELSE IF d \in stale THEN Canceled(deliv[d]) ELSE deliv[d]
      BY <2>1
    <3>2. QED BY <2>2, <3>1, RowEffects DEF TypeOK
  <2>3. claimed \subseteq c.seen
    OBVIOUS
  <2>4. scans' = scans \ {c}
    BY <1>10 DEF ClaimCommit
  <2>5. QED BY <2>1, <2>2, <2>3, <2>4
<1>11. CASE Next
  <2>1. ASSUME \/ \E a \in Admins, s \in Subs : UpdateRead(a, s)
               \/ \E e \in Events : Emit(e) \/ CleanupOutbox(e)
               \/ \E w \in Workers : FanOutBegin(w) \/ ClaimScan(w) \/ Crash(w)
               \/ \E f \in fanouts, e \in Events : FanOutEvent(f, e)
               \/ \E r \in inflight : LoseResult(r) \/ \E o \in Outcomes : Respond(r, o)
               \/ CleanupSelect
        PROVE  UNCHANGED deliv
    BY <2>1 DEF UpdateRead, Emit, CleanupOutbox, FanOutBegin, ClaimScan, Crash, FanOutEvent,
                LoseResult, Respond, CleanupSelect
  <2>2. (\E c \in scans : ClaimCommit(c)) \/ NoneStarts
    BY <1>2, <1>3, <1>4, <1>5, <1>6, <1>7, <1>8, <1>9, <1>11, <2>1 DEF Next
  <2>3. QED BY <1>10, <2>2
<1>12. QED BY <1>9, <1>11 DEF vars

\* A subscription is busy exactly when one of its deliveries is running.
LEMMA BusyMeansRunning ==
  \A d \in Deliveries : deliv[d].status = "running" => d[2] \in BusySubs
<1>1. \A d \in Deliveries : d = <<d[1], d[2]>> /\ d[1] \in Events /\ d[2] \in Subs
  BY DEF Deliveries
<1>2. QED BY <1>1 DEF BusySubs

\* With serial claims, no step starts a second delivery of a subscription.
LEMMA SerialStep ==
  ASSUME SerialClaims, TypeOK, SerialInv, [Next]_vars
  PROVE  SerialInv'
<1> USE DEF SerialInv
<1>1. CASE \E w \in Workers : ClaimScan(w)
  <2>1. UNCHANGED deliv /\ scans = {}
    BY <1>1 DEF ClaimScan
  <2>2. PICK w \in Workers, seen \in SUBSET Deliveries : /\ \A d \in seen : d[2] \notin BusySubs
                                   /\ scans' = {[worker |-> w, seen |-> seen]}
    BY <1>1, <2>1 DEF ClaimScan
  <2>3. ScansSeeIdleSubs'
    <3>1. BusySubs' = BusySubs
      BY <2>1 DEF BusySubs
    <3>2. \A c \in scans' : c = [worker |-> w, seen |-> seen] /\ c.seen = seen
      BY <2>2
    <3>3. QED BY <2>2, <3>1, <3>2 DEF ScansSeeIdleSubs
  <2>4. QED BY <2>1, <2>3 DEF OneRunningPerSubscription
<1>2. CASE /\ scans' \subseteq scans
           /\ \A d \in Deliveries : deliv'[d].status = "running" => deliv[d].status = "running"
  <2>1. BusySubs' \subseteq BusySubs
    BY <1>2 DEF BusySubs, Deliveries
  <2>2. QED BY <1>2, <2>1 DEF ScansSeeIdleSubs, OneRunningPerSubscription
<1>3. ASSUME NEW c \in scans, scans' = scans \ {c},
             \A d \in Deliveries :
               deliv'[d].status = "running" => deliv[d].status = "running" \/ d \in c.seen,
             \A d1, d2 \in Deliveries :
               /\ deliv'[d1].status = "running" /\ deliv[d1].status # "running"
               /\ deliv'[d2].status = "running" /\ deliv[d2].status # "running"
               /\ d1[2] = d2[2]
               => d1 = d2
      PROVE  SerialInv'
  <2>1. scans' = {}
    BY <1>3 DEF ScansSeeIdleSubs
  <2>2. ASSUME NEW d1 \in Deliveries, NEW d2 \in Deliveries, d1[2] = d2[2],
               deliv'[d1].status = "running", deliv'[d2].status = "running"
        PROVE  d1 = d2
    <3>1. CASE deliv[d1].status = "running" /\ deliv[d2].status = "running"
      BY <2>2, <3>1 DEF OneRunningPerSubscription
    <3>2. CASE deliv[d1].status = "running" /\ deliv[d2].status # "running"
      BY <1>3, <2>2, <3>2, BusyMeansRunning DEF ScansSeeIdleSubs
    <3>3. CASE deliv[d1].status # "running" /\ deliv[d2].status = "running"
      BY <1>3, <2>2, <3>3, BusyMeansRunning DEF ScansSeeIdleSubs
    <3>4. CASE deliv[d1].status # "running" /\ deliv[d2].status # "running"
      BY <1>3, <2>2, <3>4
    <3>5. QED BY <3>1, <3>2, <3>3, <3>4
  <2>3. QED BY <2>1, <2>2 DEF ScansSeeIdleSubs, OneRunningPerSubscription
<1>4. scans' \subseteq scans \/ \E w \in Workers : ClaimScan(w)
  <2>1. CASE Next
    BY <2>1 DEF Next, CreateSubscription, DeleteSubscription, UpdateRead, UpdateCommit, Emit,
       CleanupOutbox, FanOutBegin, Crash, FanOutCommit, FanOutEvent, ClaimCommit,
       RecordAttempt, LoseResult, Respond, RecoverStaleRunning, CleanupSelect, CleanupDelete, Tick
  <2>2. QED BY <2>1 DEF vars
<1>5. QED BY <1>1, <1>2, <1>3, <1>4, RunningStep

\* When claim transactions do not overlap, at most one delivery of a
\* subscription is running, however long workers stall and whatever is
\* recovered or recorded late.
THEOREM OneRunningHolds == ASSUME SerialClaims PROVE Spec => []OneRunningPerSubscription
<1>1. Init => SerialInv
  BY RowEffects
  DEF Init, SerialInv, ScansSeeIdleSubs, OneRunningPerSubscription
<1>2. TypeOK /\ SerialInv /\ [Next]_vars => SerialInv'
  BY SerialStep
<1>3. SerialInv => OneRunningPerSubscription
  BY DEF SerialInv
<1>4. QED BY <1>1, <1>2, <1>3, TypeCorrect, PTL DEF Spec

\* Only the result of an accepted request makes a delivery succeed.
LEMMA SucceedingStep ==
  ASSUME TypeOK, [Next]_vars, NEW d \in Deliveries,
         deliv'[d].status = "succeeded", deliv[d].status # "succeeded"
  PROVE  \E r \in inflight : r.answer = "ok" /\ r.delivery = d
<1>1. deliv[d] \in DeliveryRow
  BY DEF TypeOK
<1>2. ASSUME NEW s \in Subs, CancelPending(s) PROVE FALSE
  BY <1>1, <1>2, RowEffects DEF CancelPending
<1>3. ASSUME NEW s \in Subs, CreateSubscription(s) \/ DeleteSubscription(s) PROVE FALSE
  BY <1>2, <1>3 DEF CreateSubscription, DeleteSubscription
<1>4. ASSUME NEW x \in edits, UpdateCommit(x) PROVE FALSE
  <2>1. x.sub \in Subs
    BY DEF TypeOK, Edit
  <2>2. QED BY <1>2, <1>4, <2>1 DEF UpdateCommit
<1>5. ASSUME NEW f \in fanouts, FanOutCommit(f) PROVE FALSE
  <2>1. deliv[d].status = "none" /\ \E n \in f.rows : n.delivery = d
    BY <1>5 DEF FanOutCommit
  <2>2. (CHOOSE n \in f.rows : n.delivery = d) \in NewRow
    BY <2>1 DEF TypeOK, FanOut
  <2>3. QED BY <1>5, <2>1, <2>2, RowEffects DEF FanOutCommit
<1>6. ASSUME NEW c \in scans, ClaimCommit(c) PROVE FALSE
  <2>1. PICK claimed \in SUBSET {x \in c.seen : Due(x) /\ ~ Stale(x)},
             stale \in SUBSET {x \in c.seen : Due(x) /\ Stale(x)} :
          /\ deliv' = [x \in Deliveries |->
                IF x \in claimed THEN Claimed(deliv[x])
                ELSE IF x \in stale THEN Canceled(deliv[x])
                ELSE deliv[x]]
          /\ inflight' = inflight \cup {NewRequest(c.worker, x) : x \in claimed}
    BY <1>6 DEF ClaimCommit
  <2>2. deliv'[d] = IF d \in claimed THEN Claimed(deliv[d])
                    ELSE IF d \in stale THEN Canceled(deliv[d]) ELSE deliv[d]
    BY <2>1
  <2>3. QED BY <1>1, <2>2, RowEffects
<1>7. ASSUME NEW r \in inflight, RecordAttempt(r)
      PROVE  r.answer = "ok" /\ r.delivery = d
  <2>1. r.delivery = d
    BY <1>7 DEF RecordAttempt, TypeOK
  <2>2. deliv'[d].status = ResultStatus(r)
    BY <1>1, <1>7, <2>1, RecordedEffect DEF RecordAttempt, TypeOK
  <2>3. QED BY <2>1, <2>2 DEF ResultStatus
<1>8. ASSUME RecoverStaleRunning \/ CleanupDelete \/ Tick PROVE FALSE
  BY <1>1, <1>8, RowEffects DEF RecoverStaleRunning, CleanupDelete, Tick
<1>9. deliv' # deliv
  OBVIOUS
<1>10. CASE Next
  <2>1. ASSUME \/ \E a \in Admins, s \in Subs : UpdateRead(a, s)
               \/ \E e \in Events : Emit(e) \/ CleanupOutbox(e)
               \/ \E w \in Workers : FanOutBegin(w) \/ ClaimScan(w) \/ Crash(w)
               \/ \E f \in fanouts, e \in Events : FanOutEvent(f, e)
               \/ \E r \in inflight : LoseResult(r) \/ \E o \in Outcomes : Respond(r, o)
               \/ CleanupSelect
        PROVE  FALSE
    BY <1>9, <2>1 DEF UpdateRead, Emit, CleanupOutbox, FanOutBegin, ClaimScan, Crash,
                      FanOutEvent, LoseResult, Respond, CleanupSelect
  <2>2. QED BY <1>3, <1>4, <1>5, <1>6, <1>7, <1>8, <1>10, <2>1 DEF Next
<1>11. QED BY <1>9, <1>10 DEF vars

\* A delivery that says "succeeded" was accepted, however late its result.
THEOREM SuccessIsReal == Spec => []SucceededWasAccepted
<1> DEFINE Inv == SucceededWasAccepted /\ AnswersAreAccepted
<1>1. Init => Inv
  BY RowEffects DEF Init, SucceededWasAccepted, AnswersAreAccepted
<1>2. TypeOK /\ Inv /\ [Next]_vars => Inv'
  <2>1. SUFFICES ASSUME TypeOK, Inv, [Next]_vars PROVE Inv'
    OBVIOUS
  <2>2. accepted \subseteq accepted'
    <3>1. CASE Next
      BY <3>1 DEF Next, CreateSubscription, DeleteSubscription, UpdateRead, UpdateCommit, Emit,
         CleanupOutbox, FanOutBegin, Crash, FanOutCommit, FanOutEvent, ClaimScan, ClaimCommit,
         RecordAttempt, LoseResult, Respond, RecoverStaleRunning, CleanupSelect,
         CleanupDelete, Tick
    <3>2. QED BY <2>1, <3>1 DEF vars
  <2>3. SucceededWasAccepted'
    BY <2>1, <2>2, SucceedingStep DEF SucceededWasAccepted, AnswersAreAccepted
  <2>4. AnswersAreAccepted'
    <3>1. CASE \E r \in inflight, o \in Outcomes : Respond(r, o)
      <4>1. PICK r \in inflight, o \in Outcomes : Respond(r, o)
        BY <3>1
      <4>2. r.delivery \in Deliveries /\ [r EXCEPT !.answer = o].delivery = r.delivery
            /\ [r EXCEPT !.answer = o].answer = o
        BY <2>1 DEF TypeOK, Request
      <4>3. o = "ok" => r.delivery \in accepted'
        BY <4>1 DEF Respond
      <4>4. \A q \in inflight' : q \in inflight \/ q = [r EXCEPT !.answer = o]
        BY <4>1 DEF Respond
      <4>5. QED BY <2>1, <2>2, <4>2, <4>3, <4>4 DEF AnswersAreAccepted
    <3>2. CASE \E c \in scans : ClaimCommit(c)
      BY <2>1, <2>2, <3>2 DEF AnswersAreAccepted, ClaimCommit, NewRequest
    <3>3. CASE Tick
      <4>1. \A q \in inflight' : \E r \in inflight : q.answer = r.answer /\ q.delivery = r.delivery
        BY <2>1, <3>3 DEF Tick, TypeOK, Request
      <4>2. QED BY <2>1, <2>2, <4>1 DEF AnswersAreAccepted
    <3>4. CASE inflight' \subseteq inflight
      BY <2>1, <2>2, <3>4 DEF AnswersAreAccepted
    <3>5. CASE Next
      BY <3>1, <3>2, <3>3, <3>4, <3>5
      DEF Next, CreateSubscription, DeleteSubscription, UpdateRead, UpdateCommit, Emit,
          CleanupOutbox, FanOutBegin, Crash, FanOutCommit, FanOutEvent, ClaimScan,
          RecordAttempt, LoseResult, RecoverStaleRunning, CleanupSelect, CleanupDelete
    <3>6. QED BY <2>1, <3>4, <3>5 DEF vars
  <2>5. QED BY <2>3, <2>4
<1>3. Inv => SucceededWasAccepted
  OBVIOUS
<1>4. QED BY <1>1, <1>2, <1>3, TypeCorrect, PTL DEF Spec

\* Claims are owned, one per subscription, and explained by the attempts on
\* record, when workers are prompt and their claims exclude each other.
THEOREM DeliveriesSound == ASSUME Prompt, SerialClaims PROVE Spec => []DeliveriesAreSound
<1>1. Spec => []ClaimsAreOwned
  BY OwnershipHolds
<1>2. Spec => []HistoryExplainsOutcome
  BY HistoryHolds
<1>3. Spec => []OneRunningPerSubscription
  BY OneRunningHolds
<1>4. ClaimsAreOwned /\ HistoryExplainsOutcome /\ OneRunningPerSubscription => DeliveriesAreSound
  BY DEF DeliveriesAreSound
<1> QED
  BY <1>1, <1>2, <1>3, <1>4, PTL

-----------------------------------------------------------------------------
(* The contract. *)

Published == {"published", "purged"}

\* An open fan-out holds pending events that no other one holds and rows of
\* those only, and the deliveries of an event exist once it is published.
FanOutsAreDisjoint ==
  /\ \A f \in fanouts :
       /\ f.left \subseteq f.events
       /\ \A e \in f.events : outbox[e] = "pending"
       /\ \A n \in f.rows : n.delivery[1] \in f.events
  /\ \A f, g \in fanouts : f # g => f.events \cap g.events = {}
  /\ \A d \in Deliveries : deliv[d].status # "none" => outbox[d[1]] \in Published

\* A row appears only when the fan-out of its pending event commits.
LEMMA InsertStep ==
  ASSUME TypeOK, FanOutsAreDisjoint, [Next]_vars, NEW d \in Deliveries,
         deliv[d].status = "none", deliv'[d].status # "none"
  PROVE  \E f \in fanouts : FanOutCommit(f) /\ d[1] \in f.events
<1>1. deliv' # deliv
  OBVIOUS
<1>2. ASSUME NEW s \in Subs, CancelPending(s) PROVE FALSE
  BY <1>2 DEF CancelPending
<1>3. ASSUME NEW s \in Subs, CreateSubscription(s) \/ DeleteSubscription(s) PROVE FALSE
  BY <1>1, <1>2, <1>3 DEF CreateSubscription, DeleteSubscription
<1>4. ASSUME NEW x \in edits, UpdateCommit(x) PROVE FALSE
  <2>1. x.sub \in Subs
    BY DEF TypeOK, Edit
  <2>2. QED BY <1>1, <1>2, <1>4, <2>1 DEF UpdateCommit
<1>5. ASSUME NEW f \in fanouts, FanOutCommit(f) PROVE d[1] \in f.events
  <2>1. \E n \in f.rows : n.delivery = d
    BY <1>5 DEF FanOutCommit
  <2>2. QED BY <2>1 DEF FanOutsAreDisjoint
<1>6. ASSUME NEW c \in scans, ClaimCommit(c) PROVE FALSE
  <2>1. PICK claimed \in SUBSET {x \in c.seen : Due(x) /\ ~ Stale(x)},
             stale \in SUBSET {x \in c.seen : Due(x) /\ Stale(x)} :
          /\ deliv' = [x \in Deliveries |->
                IF x \in claimed THEN Claimed(deliv[x])
                ELSE IF x \in stale THEN Canceled(deliv[x])
                ELSE deliv[x]]
          /\ inflight' = inflight \cup {NewRequest(c.worker, x) : x \in claimed}
    BY <1>6 DEF ClaimCommit
  <2>2. deliv'[d] = deliv[d] \/ Due(d)
    BY <2>1
  <2>3. QED BY <2>2 DEF Due
<1>7. ASSUME NEW r \in inflight, RecordAttempt(r) PROVE FALSE
  BY <1>7 DEF RecordAttempt, TypeOK
<1>8. ASSUME RecoverStaleRunning \/ CleanupDelete \/ Tick PROVE FALSE
  BY <1>8, RowEffects DEF RecoverStaleRunning, Abandoned, CleanupDelete, Tick, TypeOK
<1>9. CASE Next
  <2>1. ASSUME \/ \E a \in Admins, s \in Subs : UpdateRead(a, s)
               \/ \E e \in Events : Emit(e) \/ CleanupOutbox(e)
               \/ \E w \in Workers : FanOutBegin(w) \/ ClaimScan(w) \/ Crash(w)
               \/ \E f \in fanouts, e \in Events : FanOutEvent(f, e)
               \/ \E r \in inflight : LoseResult(r) \/ \E o \in Outcomes : Respond(r, o)
               \/ CleanupSelect
        PROVE  FALSE
    BY <1>1, <2>1 DEF UpdateRead, Emit, CleanupOutbox, FanOutBegin, ClaimScan, Crash,
                      FanOutEvent, LoseResult, Respond, CleanupSelect
  <2>2. QED BY <1>3, <1>4, <1>5, <1>6, <1>7, <1>8, <1>9, <2>1 DEF Next
<1>10. QED BY <1>1, <1>9 DEF vars

\* Which steps change the outbox, and how the status of an event goes on.
LEMMA OutboxStep ==
  ASSUME TypeOK, FanOutsAreDisjoint, [Next]_vars, NEW e \in Events
  PROVE  /\ outbox[e] \in Published => outbox'[e] \in Published
         /\ outbox[e] = "pending" /\ outbox'[e] # "pending"
              => \E f \in fanouts : FanOutCommit(f) /\ e \in f.events
<1>1. ASSUME NEW k \in Events, Emit(k) \/ CleanupOutbox(k)
      PROVE  /\ outbox[e] \in Published => outbox'[e] \in Published
             /\ outbox[e] = "pending" => outbox'[e] = "pending"
  BY <1>1 DEF Emit, CleanupOutbox, Published, TypeOK
<1>2. ASSUME NEW f \in fanouts, FanOutCommit(f)
      PROVE  /\ outbox[e] \in Published => outbox'[e] \in Published
             /\ outbox[e] = "pending" /\ outbox'[e] # "pending" => e \in f.events
  BY <1>2 DEF FanOutCommit, Published
<1>3. CASE UNCHANGED outbox
  BY <1>3
<1>4. CASE Next
  <2>1. \/ \E k \in Events : Emit(k) \/ CleanupOutbox(k)
        \/ \E f \in fanouts : FanOutCommit(f)
        \/ UNCHANGED outbox
    BY <1>4 DEF Next, CreateSubscription, DeleteSubscription, UpdateRead, UpdateCommit,
       FanOutBegin, ClaimScan, Crash, FanOutEvent, ClaimCommit, RecordAttempt, LoseResult,
       Respond, RecoverStaleRunning, CleanupSelect, CleanupDelete, Tick, fanVars
  <2>2. QED BY <1>1, <1>2, <1>3, <2>1
<1>5. QED BY <1>3, <1>4 DEF vars

\* Where the fan-outs of the next state come from.
LEMMA FanOutStep ==
  ASSUME TypeOK, [Next]_vars
  PROVE  \/ fanouts' \subseteq fanouts
         \/ \E w \in Workers : FanOutBegin(w)
         \/ \E f \in fanouts, e \in Events : FanOutEvent(f, e)
<1>1. CASE Next
  BY <1>1 DEF Next, CreateSubscription, DeleteSubscription, UpdateRead, UpdateCommit, Emit,
     CleanupOutbox, ClaimScan, Crash, FanOutCommit, ClaimCommit, RecordAttempt, LoseResult,
     Respond, RecoverStaleRunning, CleanupSelect, CleanupDelete, Tick, fanVars
<1>2. QED BY <1>1 DEF vars

LEMMA FanOutsStep ==
  ASSUME TypeOK, TypeOK', FanOutsAreDisjoint, [Next]_vars
  PROVE  FanOutsAreDisjoint'
<1> USE DEF FanOutsAreDisjoint
<1>1. \A d \in Deliveries : d[1] \in Events
  BY DEF Deliveries
<1>2. ASSUME NEW d \in Deliveries, deliv'[d].status # "none" PROVE outbox'[d[1]] \in Published
  <2>1. CASE deliv[d].status # "none"
    BY <1>1, <2>1, OutboxStep
  <2>2. CASE deliv[d].status = "none"
    <3>1. PICK f \in fanouts : FanOutCommit(f) /\ d[1] \in f.events
      BY <1>2, <2>2, InsertStep
    <3>2. QED BY <1>1, <3>1 DEF FanOutCommit, Published
  <2>3. QED BY <2>1, <2>2
<1>3. CASE fanouts' \subseteq fanouts
  <2>1. ASSUME NEW g \in fanouts', NEW e \in g.events PROVE outbox'[e] = "pending"
    <3>1. g \in fanouts /\ e \in Events /\ outbox[e] = "pending"
      BY <1>3, <2>1 DEF TypeOK, FanOut
    <3>2. ASSUME NEW f \in fanouts, FanOutCommit(f), e \in f.events PROVE FALSE
      <4>1. f = g
        BY <2>1, <3>1, <3>2
      <4>2. QED BY <2>1, <3>2, <4>1 DEF FanOutCommit
    <3>3. QED BY <3>1, <3>2, OutboxStep
  <2>2. QED BY <1>2, <1>3, <2>1
<1>4. ASSUME NEW w \in Workers, FanOutBegin(w) PROVE FanOutsAreDisjoint'
  <2> DEFINE batch == {e \in Events : /\ outbox[e] = "pending"
                                      /\ \A f \in fanouts : e \notin f.events}
             new == [worker |-> w, events |-> batch, left |-> batch, rows |-> {}]
  <2>1. fanouts' = fanouts \cup {new} /\ UNCHANGED outbox
    BY <1>4 DEF FanOutBegin
  <2>2. new.events = batch /\ new.left = batch /\ new.rows = {}
    OBVIOUS
  <2>3. \A f \in fanouts : f.events \cap batch = {}
    OBVIOUS
  <2>4. \A e \in batch : outbox[e] = "pending"
    OBVIOUS
  <2> HIDE DEF batch, new
  <2>5. QED BY <1>2, <2>1, <2>2, <2>3, <2>4
<1>5. ASSUME NEW f \in fanouts, NEW e \in Events, FanOutEvent(f, e) PROVE FanOutsAreDisjoint'
  <2> DEFINE added == {[delivery |-> <<e, s>>, rev |-> subs[s].rev, url |-> subs[s].url] :
                         s \in Matching(e)}
             new == [f EXCEPT !.left = @ \ {e}, !.rows = @ \cup added]
  <2>1. fanouts' = (fanouts \ {f}) \cup {new} /\ UNCHANGED outbox /\ e \in f.left
    BY <1>5 DEF FanOutEvent
  <2>2. \A n \in added : n.delivery[1] = e
    OBVIOUS
  <2>3. f \in FanOut
    BY DEF TypeOK
  <2> HIDE DEF added
  <2>4. new.events = f.events /\ new.left = f.left \ {e} /\ new.rows = f.rows \cup added
    BY <2>3 DEF FanOut
  <2>5. /\ new.left \subseteq new.events
        /\ \A n \in new.rows : n.delivery[1] \in new.events
    BY <2>1, <2>2, <2>4
  <2>6. \A x \in new.events : outbox'[x] = "pending"
    BY <2>1, <2>4
  <2> HIDE DEF new
  <2>7. \A g, h \in fanouts' : g # h => g.events \cap h.events = {}
    BY <2>1, <2>4
  <2>8. QED BY <1>2, <2>1, <2>5, <2>6, <2>7
<1>6. QED BY <1>3, <1>4, <1>5, FanOutStep

\* FOR UPDATE SKIP LOCKED keeps fan-outs apart: no event is fanned out twice.
THEOREM FanOutsStayDisjoint == Spec => []FanOutsAreDisjoint
<1>1. Init => FanOutsAreDisjoint
  BY RowEffects DEF Init, FanOutsAreDisjoint
<1>2. TypeOK /\ TypeOK' /\ FanOutsAreDisjoint /\ [Next]_vars => FanOutsAreDisjoint'
  BY FanOutsStep
<1>3. QED BY <1>1, <1>2, TypeCorrect, PTL DEF Spec

\* A request is accepted while its delivery is running.
LEMMA AcceptedMoves ==
  ASSUME TypeOK, DeliveryInv, [Next]_vars
  PROVE  /\ accepted \subseteq accepted'
         /\ \A d \in accepted' \ accepted : d \in Deliveries /\ deliv[d].status = "running"
<1>1. ASSUME NEW r \in inflight, NEW o \in Outcomes, Respond(r, o)
      PROVE  /\ accepted \subseteq accepted'
             /\ \A d \in accepted' \ accepted : d \in Deliveries /\ deliv[d].status = "running"
  <2>1. r.delivery \in Deliveries /\ deliv[r.delivery].status = "running"
    BY DEF DeliveryInv, ClaimsAreOwned, TypeOK, Request
  <2>2. accepted' \in {accepted, accepted \cup {r.delivery}}
    BY <1>1 DEF Respond
  <2>3. QED BY <2>1, <2>2
<1>2. CASE Next
  <2>1. (\E r \in inflight, o \in Outcomes : Respond(r, o)) \/ accepted' = accepted
    BY <1>2 DEF Next, CreateSubscription, DeleteSubscription, UpdateRead, UpdateCommit, Emit,
       CleanupOutbox, FanOutBegin, Crash, FanOutCommit, FanOutEvent, ClaimScan, ClaimCommit,
       RecordAttempt, LoseResult, RecoverStaleRunning, CleanupSelect, CleanupDelete, Tick
  <2>2. QED BY <1>1, <2>1
<1>3. QED BY <1>2 DEF vars

\* The stage of a delivery, as ImplementsContract reads it off the tables.
Stage(d) == CASE deliv[d].status = "none" ->
                   IF outbox[d[1]] \in {"published", "purged"} THEN "gone" ELSE "none"
              [] deliv[d].status = "pending" -> "waiting"
              [] deliv[d].status = "running" -> "trying"
              [] OTHER -> deliv[d].status

\* The tables keep the contract of a durable work table: every delivery is
\* opened once, tried within its budget, closed for a reason, and kept closed
\* until retention removes it for good.
THEOREM KeepsContract == ASSUME Prompt PROVE Spec => ImplementsContract
<1> DEFINE stage == [d \in Deliveries |->
              CASE deliv[d].status = "none" ->
                     IF outbox[d[1]] \in {"published", "purged"} THEN "gone" ELSE "none"
                [] deliv[d].status = "pending" -> "waiting"
                [] deliv[d].status = "running" -> "trying"
                [] OTHER -> deliv[d].status]
           tries == [d \in Deliveries |-> deliv[d].attempt]
<1>1. Init => Contract!Init
  <2>1. SUFFICES ASSUME Init PROVE Contract!Init
    OBVIOUS
  <2>2. \A d \in Deliveries : /\ deliv[d].status = "none" /\ deliv[d].attempt = 0
                              /\ outbox[d[1]] = "none"
    BY <2>1, RowEffects DEF Init, Deliveries
  <2>3. stage = [d \in Deliveries |-> "none"] /\ tries = [d \in Deliveries |-> 0]
    BY <2>2
  <2>4. QED BY <2>1, <2>3 DEF Init, Contract!Init
<1>2. TypeOK /\ DeliveryInv /\ FanOutsAreDisjoint /\ FanOutsAreDisjoint' /\ [Next]_vars
        => Contract!Next
  <2>1. SUFFICES ASSUME TypeOK, DeliveryInv, FanOutsAreDisjoint, FanOutsAreDisjoint', [Next]_vars
                 PROVE  Contract!Next
    OBVIOUS
  <2>2. ASSUME NEW d \in Deliveries
        PROVE  \/ Contract!Open(d) \/ Contract!Try(d) \/ Contract!Retry(d)
               \/ Contract!Close(d) \/ Contract!Remove(d) \/ Contract!Stay(d)
    <3>1. RowMoves(d) /\ d[1] \in Events
      BY <2>1, Moves DEF Deliveries
    <3>2. stage[d] = Stage(d) /\ stage'[d] = Stage(d)'
      BY DEF Stage
    <3>3. tries[d] = deliv[d].attempt /\ tries'[d] = deliv'[d].attempt
      OBVIOUS
    <3>4. outbox[d[1]] \in Published => outbox'[d[1]] \in Published
      BY <2>1, <3>1, OutboxStep
    <3> HIDE DEF stage, tries
    <3>5. CASE deliv[d].status # "none" /\ deliv'[d].status = deliv[d].status
               /\ deliv'[d].attempt = deliv[d].attempt
      BY <3>2, <3>3, <3>5 DEF Stage, Contract!Stay, Contract!SameTries, stage, tries
    <3>6. CASE deliv[d].status = "none" /\ deliv'[d].status = "none"
               /\ deliv'[d].attempt = deliv[d].attempt
      <4>1. Stage(d) \in {"none", "gone"} /\ Stage(d)' \in {"none", "gone"}
            /\ (Stage(d) = "gone" => Stage(d)' = "gone")
        BY <3>4, <3>6 DEF Stage, Published
      <4>2. QED BY <3>2, <3>3, <3>6, <4>1
                DEF Contract!Stay, Contract!Open, Contract!Moves, Contract!SameTries, stage, tries
    <3>7. CASE deliv[d].status = "none" /\ deliv'[d].status = "pending"
               /\ deliv'[d].attempt = deliv[d].attempt
      <4>1. outbox[d[1]] = "pending"
        BY <2>1, <3>7, InsertStep DEF FanOutsAreDisjoint
      <4>2. Stage(d) = "none" /\ Stage(d)' = "waiting"
        BY <3>7, <4>1 DEF Stage
      <4>3. QED BY <3>2, <3>3, <3>7, <4>2
                DEF Contract!Open, Contract!Moves, Contract!SameTries, stage, tries
    <3>8. CASE deliv[d].status = "pending" /\ deliv'[d].status = "running"
               /\ deliv[d].attempt < MaxAttempts /\ deliv'[d].attempt = deliv[d].attempt + 1
      <4>1. Stage(d) = "waiting" /\ Stage(d)' = "trying"
        BY <3>8 DEF Stage
      <4>2. QED BY <3>2, <3>3, <3>8, <4>1 DEF Contract!Try, Contract!Moves, stage, tries
    <3>9. CASE deliv[d].status = "running" /\ deliv'[d].status = "pending"
               /\ deliv[d].attempt < MaxAttempts /\ deliv'[d].attempt = deliv[d].attempt
      <4>1. Stage(d) = "trying" /\ Stage(d)' = "waiting"
        BY <3>9 DEF Stage
      <4>2. QED BY <3>2, <3>3, <3>9, <4>1
                DEF Contract!Retry, Contract!Moves, Contract!SameTries, stage, tries
    <3>10. CASE /\ deliv'[d].attempt = deliv[d].attempt
                /\ \/ deliv[d].status = "pending" /\ deliv'[d].status = "canceled"
                   \/ deliv[d].status = "running" /\ deliv'[d].status = "failed"
                   \/ deliv[d].status = "running" /\ deliv'[d].status = "succeeded"
                      /\ d \in accepted
      <4>1. \/ Stage(d) = "waiting" /\ Stage(d)' = "canceled"
            \/ Stage(d) = "trying" /\ Stage(d)' = "failed"
            \/ Stage(d) = "trying" /\ Stage(d)' = "succeeded" /\ d \in accepted
        BY <3>10 DEF Stage
      <4>2. QED BY <3>2, <3>3, <3>10, <4>1
                DEF Contract!Close, Contract!Moves, Contract!SameTries, stage, tries
    <3>11. CASE deliv[d].status \in Terminal /\ deliv'[d].status = "none"
                /\ deliv'[d].attempt = 0
      <4>1. outbox[d[1]] \in Published
        BY <2>1, <3>11 DEF FanOutsAreDisjoint, Terminal
      <4>2. Stage(d) \in {"succeeded", "failed", "canceled"} /\ Stage(d)' = "gone"
        BY <3>4, <3>11, <4>1 DEF Stage, Terminal, Published
      <4>3. QED BY <3>2, <3>3, <3>11, <4>2
                DEF Contract!Remove, Contract!Moves, Contract!Outcome, stage, tries
    <3>12. QED BY <3>1, <3>5, <3>6, <3>7, <3>8, <3>9, <3>10, <3>11 DEF RowMoves
  <2>3. accepted \subseteq accepted' /\ \A d \in accepted' \ accepted : stage[d] = "trying"
    BY <2>1, AcceptedMoves
  <2>4. QED BY <2>2, <2>3 DEF Contract!Next
<1>3. QED BY <1>1, <1>2, TypeCorrect, DeliveryInvariant, FanOutsStayDisjoint, PTL
         DEF Spec, ImplementsContract, Contract!Spec

-----------------------------------------------------------------------------
(* Configurations. *)

OneAdmin == \A a, b \in Admins : a = b

\* [one administrator] An update under way writes the revision after the one it
\* read, or, when it leaves delivery alone, the very row it read.
EditsAreFresh ==
  /\ \A x, y \in edits : x = y
  /\ \A x \in edits :
       /\ x.row.status \in LiveStatus /\ subs[x.sub].status # "absent"
       /\ subs[x.sub].status \in LiveStatus =>
            IF x.affects THEN x.row.rev = subs[x.sub].rev + 1 ELSE x.row = subs[x.sub]
  /\ \A s \in Subs : subs[s].status = "absent" => subs[s].rev = 0

\* A revision and URL that were read from a subscription are its past or its
\* present configuration.
ReadFrom(s, rev, url) ==
  /\ rev <= subs[s].rev
  /\ rev = subs[s].rev => url = subs[s].url

\* Rows, and the rows a fan-out is about to insert, were read from their subscription.
RowsWereRead ==
  /\ \A d \in Deliveries :
       deliv[d].status # "none" => ReadFrom(d[2], deliv[d].rev, deliv[d].url)
  /\ \A f \in fanouts : \A n \in f.rows : ReadFrom(n.delivery[2], n.rev, n.url)

\* What creations, deletions and updates do to a configuration.
LEMMA ConfigStep ==
  ASSUME TypeOK, EditsAreFresh, [Next]_vars, NEW s \in Subs
  PROVE  /\ subs'[s].rev >= subs[s].rev
         /\ subs'[s].rev = subs[s].rev => subs'[s] = subs[s]
<1> DEFINE Kept == /\ subs'[s].rev >= subs[s].rev
                   /\ subs'[s].rev = subs[s].rev => subs'[s] = subs[s]
<1>1. subs[s] \in SubRow /\ subs[s].rev \in Nat
  BY DEF TypeOK, SubRow
<1>2. ASSUME UNCHANGED subs PROVE Kept
  BY <1>1, <1>2
<1>3. ASSUME NEW t \in Subs, CreateSubscription(t) PROVE Kept
  BY <1>1, <1>3 DEF CreateSubscription, TypeOK, EditsAreFresh
<1>4. ASSUME NEW t \in Subs, DeleteSubscription(t) PROVE Kept
  BY <1>1, <1>4 DEF DeleteSubscription, TypeOK, SubRow
<1>5. ASSUME NEW x \in edits, UpdateCommit(x) PROVE Kept
  <2>1. x.sub \in Subs /\ x.row \in SubRow /\ x.row.rev \in Nat /\ x.affects \in BOOLEAN
    BY DEF TypeOK, Edit, SubRow
  <2>2. CASE s = x.sub /\ subs[s].status \in LiveStatus
    <3>1. subs'[s] = x.row
      BY <1>5, <2>1, <2>2 DEF UpdateCommit, TypeOK
    <3>2. IF x.affects THEN x.row.rev = subs[s].rev + 1 ELSE x.row = subs[s]
      BY <2>2 DEF EditsAreFresh
    <3>3. x.row.rev = subs[s].rev + 1 \/ x.row = subs[s]
      BY <3>2
    <3>4. QED BY <1>1, <3>1, <3>3
  <2>3. CASE ~ (s = x.sub /\ subs[s].status \in LiveStatus)
    BY <1>1, <1>5, <2>1, <2>3 DEF UpdateCommit, TypeOK
  <2>4. QED BY <2>2, <2>3
<1>6. CASE Next
  <2>1. \/ \E t \in Subs : CreateSubscription(t) \/ DeleteSubscription(t)
        \/ \E x \in edits : UpdateCommit(x)
        \/ UNCHANGED subs
    BY <1>6 DEF Next, UpdateRead, Emit, CleanupOutbox, FanOutBegin, ClaimScan, Crash,
       FanOutCommit, FanOutEvent, ClaimCommit, RecordAttempt, LoseResult, Respond,
       RecoverStaleRunning, CleanupSelect, CleanupDelete, Tick, apiVars
  <2>2. QED BY <1>2, <1>3, <1>4, <1>5, <2>1
<1>7. QED BY <1>2, <1>6 DEF vars

\* With one administrator at a time, no update works on what another has changed.
LEMMA EditsStep ==
  ASSUME OneAdmin, TypeOK, EditsAreFresh, [Next]_vars
  PROVE  EditsAreFresh'
<1> USE DEF EditsAreFresh
<1>1. ASSUME UNCHANGED <<subs, edits>> PROVE EditsAreFresh'
  BY <1>1
<1>2. \A x \in edits : x.sub \in Subs /\ x.row \in SubRow /\ x.admin \in Admins
  BY DEF TypeOK, Edit
<1>3. ASSUME NEW s \in Subs, CreateSubscription(s) PROVE EditsAreFresh'
  <2>1. edits' = edits /\ subs[s].status = "absent"
    BY <1>3 DEF CreateSubscription
  <2>2. subs'[s].status # "absent" /\ \A t \in Subs \ {s} : subs'[t] = subs[t]
    BY <1>3 DEF CreateSubscription, TypeOK, LiveStatus
  <2>3. QED BY <1>2, <2>1, <2>2
<1>4. ASSUME NEW s \in Subs, DeleteSubscription(s) PROVE EditsAreFresh'
  <2>1. edits' = edits
    BY <1>4 DEF DeleteSubscription
  <2>2. subs'[s].status = "deleted" /\ \A t \in Subs \ {s} : subs'[t] = subs[t]
    BY <1>4 DEF DeleteSubscription, TypeOK, SubRow
  <2>3. QED BY <1>2, <2>1, <2>2 DEF LiveStatus
<1>5. ASSUME NEW a \in Admins, NEW s \in Subs, UpdateRead(a, s) PROVE EditsAreFresh'
  <2>1. edits = {} /\ subs' = subs /\ subs[s].status \in LiveStatus
    BY <1>2, <1>5 DEF UpdateRead, OneAdmin
  <2>2. PICK x : /\ edits' = {x} /\ x.sub = s /\ x.row.status \in LiveStatus
                 /\ IF x.affects THEN x.row.rev = subs[s].rev + 1 ELSE x.row = subs[s]
    <3> DEFINE Fits(x) == /\ edits' = {x} /\ x.sub = s /\ x.row.status \in LiveStatus
                          /\ IF x.affects THEN x.row.rev = subs[s].rev + 1
                                          ELSE x.row = subs[s]
    <3>1. CASE edits' = {[admin |-> a, sub |-> s, row |-> subs[s], affects |-> FALSE]}
      <4>1. Fits([admin |-> a, sub |-> s, row |-> subs[s], affects |-> FALSE])
        BY <2>1, <3>1
      <4>2. QED BY <4>1
    <3>2. CASE \E url \in Urls, types \in (SUBSET EventTypes) \ {{}}, status \in LiveStatus :
                 edits' = {[admin |-> a, sub |-> s, affects |-> TRUE,
                            row |-> [status |-> status, url |-> url, types |-> types,
                                     rev |-> subs[s].rev + 1]]}
      <4>1. PICK url \in Urls, types \in (SUBSET EventTypes) \ {{}}, status \in LiveStatus :
                 edits' = {[admin |-> a, sub |-> s, affects |-> TRUE,
                            row |-> [status |-> status, url |-> url, types |-> types,
                                     rev |-> subs[s].rev + 1]]}
        BY <3>2
      <4>2. Fits([admin |-> a, sub |-> s, affects |-> TRUE,
                  row |-> [status |-> status, url |-> url, types |-> types,
                           rev |-> subs[s].rev + 1]])
        BY <4>1
      <4>3. QED BY <4>2
    <3>3. QED BY <1>5, <2>1, <3>1, <3>2 DEF UpdateRead
  <2>3. QED BY <2>1, <2>2 DEF LiveStatus
<1>6. ASSUME NEW x \in edits, UpdateCommit(x) PROVE EditsAreFresh'
  <2>1. edits' = {}
    BY <1>6 DEF UpdateCommit
  <2>2. \A s \in Subs : subs'[s].status = "absent" => subs'[s].rev = 0
    BY <1>2, <1>6 DEF UpdateCommit, TypeOK, LiveStatus
  <2>3. QED BY <2>1, <2>2
<1>7. CASE Next
  <2>1. \/ \E s \in Subs : CreateSubscription(s) \/ DeleteSubscription(s)
        \/ \E a \in Admins, s \in Subs : UpdateRead(a, s)
        \/ \E x \in edits : UpdateCommit(x)
        \/ UNCHANGED <<subs, edits>>
    BY <1>7 DEF Next, Emit, CleanupOutbox, FanOutBegin, ClaimScan, Crash,
       FanOutCommit, FanOutEvent, ClaimCommit, RecordAttempt, LoseResult, Respond,
       RecoverStaleRunning, CleanupSelect, CleanupDelete, Tick, apiVars
  <2>2. QED BY <1>1, <1>3, <1>4, <1>5, <1>6, <2>1
<1>8. QED BY <1>1, <1>7 DEF vars

\* What was read from a configuration stays its past or its present.
LEMMA ReadFromStays ==
  ASSUME TypeOK, TypeOK', EditsAreFresh, [Next]_vars,
         NEW s \in Subs, NEW rev \in Nat, NEW url, ReadFrom(s, rev, url)
  PROVE  ReadFrom(s, rev, url)'
<1>1. subs[s].rev \in Nat /\ subs'[s].rev \in Nat
  BY DEF TypeOK, SubRow
<1>2. QED BY <1>1, ConfigStep DEF ReadFrom

\* The configuration a row carries is never changed: it is the row's own, or
\* that of the fan-out that inserts it.
LEMMA RowConfigStep ==
  ASSUME TypeOK, [Next]_vars, NEW d \in Deliveries, deliv'[d].status # "none"
  PROVE  \/ /\ deliv[d].status # "none"
            /\ deliv'[d].rev = deliv[d].rev /\ deliv'[d].url = deliv[d].url
         \/ \E f \in fanouts : \E n \in f.rows :
              n.delivery = d /\ deliv'[d].rev = n.rev /\ deliv'[d].url = n.url
<1> DEFINE Same == /\ deliv[d].status # "none"
                   /\ deliv'[d].rev = deliv[d].rev /\ deliv'[d].url = deliv[d].url
<1>1. deliv[d] \in DeliveryRow
  BY DEF TypeOK
<1>2. /\ Canceled(deliv[d]).rev = deliv[d].rev /\ Canceled(deliv[d]).url = deliv[d].url
      /\ Claimed(deliv[d]).rev = deliv[d].rev /\ Claimed(deliv[d]).url = deliv[d].url
      /\ Recovered(deliv[d]).rev = deliv[d].rev /\ Recovered(deliv[d]).url = deliv[d].url
  BY <1>1 DEF DeliveryRow, Canceled, Claimed, Recovered
<1>3. Older(deliv[d]).rev = deliv[d].rev /\ Older(deliv[d]).url = deliv[d].url
  BY <1>1 DEF DeliveryRow, Older
<1>4. \A r, delay : /\ Recorded(deliv[d], r, delay).rev = deliv[d].rev
                    /\ Recorded(deliv[d], r, delay).url = deliv[d].url
  BY <1>1 DEF DeliveryRow, Recorded
<1>5. ASSUME NEW s \in Subs, CancelPending(s) PROVE Same
  BY <1>2, <1>5 DEF CancelPending
<1>6. ASSUME UNCHANGED deliv PROVE Same
  BY <1>6
<1>7. ASSUME NEW s \in Subs, CreateSubscription(s) \/ DeleteSubscription(s) PROVE Same
  BY <1>5, <1>6, <1>7 DEF CreateSubscription, DeleteSubscription
<1>8. ASSUME NEW x \in edits, UpdateCommit(x) PROVE Same
  <2>1. x.sub \in Subs
    BY DEF TypeOK, Edit
  <2>2. QED BY <1>5, <1>6, <1>8, <2>1 DEF UpdateCommit
<1>9. ASSUME NEW f \in fanouts, FanOutCommit(f)
      PROVE  Same \/ \E n \in f.rows :
                       n.delivery = d /\ deliv'[d].rev = n.rev /\ deliv'[d].url = n.url
  <2>1. CASE deliv[d].status = "none" /\ \E n \in f.rows : n.delivery = d
    <3> DEFINE n == CHOOSE n \in f.rows : n.delivery = d
    <3>1. n \in f.rows /\ n.delivery = d
      BY <2>1
    <3>2. deliv'[d] = Inserted(n)
      BY <1>9, <2>1 DEF FanOutCommit
    <3> HIDE DEF n
    <3>3. Inserted(n).rev = n.rev /\ Inserted(n).url = n.url
      BY DEF Inserted, NoDelivery
    <3>4. QED BY <3>1, <3>2, <3>3
  <2>2. CASE ~ (deliv[d].status = "none" /\ \E n \in f.rows : n.delivery = d)
    BY <1>9, <2>2 DEF FanOutCommit
  <2>3. QED BY <2>1, <2>2
<1>10. ASSUME NEW c \in scans, ClaimCommit(c) PROVE Same
  <2>1. PICK claimed \in SUBSET {x \in c.seen : Due(x) /\ ~ Stale(x)},
             stale \in SUBSET {x \in c.seen : Due(x) /\ Stale(x)} :
          /\ deliv' = [x \in Deliveries |->
                IF x \in claimed THEN Claimed(deliv[x])
                ELSE IF x \in stale THEN Canceled(deliv[x])
                ELSE deliv[x]]
          /\ inflight' = inflight \cup {NewRequest(c.worker, x) : x \in claimed}
    BY <1>10 DEF ClaimCommit
  <2>2. \/ deliv'[d] = deliv[d]
        \/ deliv'[d] \in {Claimed(deliv[d]), Canceled(deliv[d])} /\ Due(d)
    BY <2>1
  <2>3. QED BY <1>2, <2>2 DEF Due
<1>11. ASSUME NEW r \in inflight, RecordAttempt(r) PROVE Same
  <2>1. r.delivery \in Deliveries
    BY DEF TypeOK, Request
  <2>2. \/ deliv' = deliv
        \/ deliv[r.delivery].status # "none" /\ \E delay \in RetryDelays :
             deliv' = [deliv EXCEPT ![r.delivery] = Recorded(@, r, delay)]
    BY <1>11 DEF RecordAttempt
  <2>3. QED BY <1>4, <1>6, <2>1, <2>2 DEF TypeOK
<1>12. ASSUME RecoverStaleRunning PROVE Same
  BY <1>2, <1>12 DEF RecoverStaleRunning, Abandoned
<1>13. ASSUME CleanupDelete PROVE Same
  BY <1>13, RowEffects DEF CleanupDelete
<1>14. ASSUME Tick PROVE Same
  BY <1>1, <1>3, <1>14, RowEffects DEF Tick
<1>15. CASE Next
  <2>1. ASSUME \/ \E a \in Admins, s \in Subs : UpdateRead(a, s)
               \/ \E e \in Events : Emit(e) \/ CleanupOutbox(e)
               \/ \E w \in Workers : FanOutBegin(w) \/ ClaimScan(w) \/ Crash(w)
               \/ \E f \in fanouts, e \in Events : FanOutEvent(f, e)
               \/ \E r \in inflight : LoseResult(r) \/ \E o \in Outcomes : Respond(r, o)
               \/ CleanupSelect
        PROVE  UNCHANGED deliv
    BY <2>1 DEF UpdateRead, Emit, CleanupOutbox, FanOutBegin, ClaimScan, Crash, FanOutEvent,
                LoseResult, Respond, CleanupSelect
  <2>2. QED BY <1>6, <1>7, <1>8, <1>9, <1>10, <1>11, <1>12, <1>13, <1>14, <1>15, <2>1 DEF Next
<1>16. QED BY <1>6, <1>15 DEF vars

\* Fan-outs read the configuration of the moment, and rows keep what they were
\* inserted with.
LEMMA ReadStep ==
  ASSUME TypeOK, TypeOK', EditsAreFresh, RowsWereRead, [Next]_vars
  PROVE  RowsWereRead'
<1> USE DEF RowsWereRead
<1>1. \A f \in fanouts : \A n \in f.rows :
        n.delivery \in Deliveries /\ n.delivery[2] \in Subs /\ n.rev \in Nat
  BY DEF TypeOK, FanOut, NewRow, Deliveries
<1>2. \A f \in fanouts : \A n \in f.rows : ReadFrom(n.delivery[2], n.rev, n.url)'
  BY <1>1, ReadFromStays
<1>3. ASSUME NEW d \in Deliveries, deliv'[d].status # "none"
      PROVE  ReadFrom(d[2], deliv[d].rev, deliv[d].url)'
  <2>1. d[2] \in Subs /\ deliv[d].rev \in Nat
    BY DEF Deliveries, TypeOK, DeliveryRow
  <2>2. CASE /\ deliv[d].status # "none"
             /\ deliv'[d].rev = deliv[d].rev /\ deliv'[d].url = deliv[d].url
    BY <2>1, <2>2, ReadFromStays
  <2>3. ASSUME NEW f \in fanouts, NEW n \in f.rows, n.delivery = d,
               deliv'[d].rev = n.rev, deliv'[d].url = n.url
        PROVE  ReadFrom(d[2], deliv[d].rev, deliv[d].url)'
    BY <1>2, <2>3
  <2>4. QED BY <1>3, <2>2, <2>3, RowConfigStep
<1>4. ASSUME NEW g \in fanouts', NEW n \in g.rows
      PROVE  ReadFrom(n.delivery[2], n.rev, n.url)'
  <2>1. CASE fanouts' \subseteq fanouts
    BY <1>2, <2>1
  <2>2. ASSUME NEW w \in Workers, FanOutBegin(w) PROVE ReadFrom(n.delivery[2], n.rev, n.url)'
    <3>1. g \in fanouts
      BY <2>2 DEF FanOutBegin
    <3>2. QED BY <1>2, <3>1
  <2>3. ASSUME NEW f \in fanouts, NEW e \in Events, FanOutEvent(f, e)
        PROVE  ReadFrom(n.delivery[2], n.rev, n.url)'
    <3> DEFINE added == {[delivery |-> <<e, s>>, rev |-> subs[s].rev, url |-> subs[s].url] :
                           s \in Matching(e)}
               new == [f EXCEPT !.left = @ \ {e}, !.rows = @ \cup added]
    <3>1. fanouts' = (fanouts \ {f}) \cup {new} /\ UNCHANGED subs
      BY <2>3 DEF FanOutEvent, apiVars
    <3>2. new.rows = f.rows \cup added
      BY DEF TypeOK, FanOut
    <3>3. ASSUME n \in added PROVE ReadFrom(n.delivery[2], n.rev, n.url)'
      <4>1. PICK s \in Subs : n = [delivery |-> <<e, s>>, rev |-> subs[s].rev,
                                   url |-> subs[s].url]
        BY <3>3 DEF Matching
      <4>2. subs[s].rev \in Nat
        BY DEF TypeOK, SubRow
      <4>3. n.delivery[2] = s /\ n.rev = subs[s].rev /\ n.url = subs[s].url
        BY <4>1
      <4>4. subs'[n.delivery[2]].rev = n.rev /\ subs'[n.delivery[2]].url = n.url
            /\ n.rev \in Nat
        BY <3>1, <4>2, <4>3
      <4>5. QED BY <4>4 DEF ReadFrom
    <3> HIDE DEF added, new
    <3>4. g \in fanouts \/ n \in f.rows \/ n \in added
      BY <3>1, <3>2
    <3>5. QED BY <1>2, <3>3, <3>4
  <2>4. QED BY <2>1, <2>2, <2>3, FanOutStep
<1>5. QED BY <1>3, <1>4

\* A claim starts only what is due for an enabled subscription of that revision.
LEMMA ClaimedConfig ==
  ASSUME TypeOK, [Next]_vars, NEW d \in Deliveries,
         deliv[d].status # "running", deliv'[d].status = "running"
  PROVE  /\ deliv[d].status = "pending"
         /\ subs[d[2]].status = "enabled" /\ subs[d[2]].rev = deliv[d].rev
<1>1. PICK c \in scans : ClaimCommit(c)
  BY RunningStep
<1>2. PICK claimed \in SUBSET {x \in c.seen : Due(x) /\ ~ Stale(x)},
           stale \in SUBSET {x \in c.seen : Due(x) /\ Stale(x)} :
        /\ deliv' = [x \in Deliveries |->
              IF x \in claimed THEN Claimed(deliv[x])
              ELSE IF x \in stale THEN Canceled(deliv[x])
              ELSE deliv[x]]
        /\ inflight' = inflight \cup {NewRequest(c.worker, x) : x \in claimed}
  BY <1>1 DEF ClaimCommit
<1>3. deliv'[d] = IF d \in claimed THEN Claimed(deliv[d])
                  ELSE IF d \in stale THEN Canceled(deliv[d]) ELSE deliv[d]
  BY <1>2
<1>4. d \in claimed
  BY <1>3, RowEffects DEF TypeOK
<1>5. QED BY <1>4 DEF Due, Stale

\* With one administrator at a time, a claim uses the configuration of its
\* moment, and a revision names one configuration.
THEOREM ConfigHolds == ASSUME OneAdmin PROVE Spec => ConfigIsCurrent
<1> DEFINE Inv == EditsAreFresh /\ RowsWereRead
           Claims == \A d \in Deliveries :
                       deliv[d].status # "running" /\ deliv'[d].status = "running"
                         => subs[d[2]].status = "enabled" /\ deliv[d].url = subs[d[2]].url
           Revisions == \A s \in Subs :
                          /\ subs'[s].rev >= subs[s].rev
                          /\ subs'[s].rev = subs[s].rev => subs'[s] = subs[s]
<1>1. Init => Inv
  BY RowEffects DEF Init, EditsAreFresh, RowsWereRead, NoSub
<1>2. TypeOK /\ TypeOK' /\ Inv /\ [Next]_vars => Inv'
  BY EditsStep, ReadStep
<1>3. TypeOK /\ Inv /\ [Next]_vars => [Claims]_vars
  <2>1. SUFFICES ASSUME TypeOK, Inv, [Next]_vars, NEW d \in Deliveries,
                        deliv[d].status # "running", deliv'[d].status = "running"
                 PROVE  subs[d[2]].status = "enabled" /\ deliv[d].url = subs[d[2]].url
    OBVIOUS
  <2>2. QED BY <2>1, ClaimedConfig DEF RowsWereRead, ReadFrom
<1>4. TypeOK /\ Inv /\ [Next]_vars => [Revisions]_vars
  BY ConfigStep
<1>5. QED BY <1>1, <1>2, <1>3, <1>4, TypeCorrect, PTL
         DEF Spec, ConfigIsCurrent, ClaimUsesCurrentConfig, RevisionNamesConfig
=============================================================================
