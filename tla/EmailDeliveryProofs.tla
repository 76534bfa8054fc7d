-------------------------- MODULE EmailDeliveryProofs --------------------------
(* Proofs about EmailDelivery, for every number of requests, workers, callers *)
(* and keys and every timing.                                                 *)
EXTENDS EmailDelivery, SmtpDelivery, TLAPS

\* The code does not enforce it: a worker that does not crash has recorded the
\* results of its batch before its deliveries are taken for abandoned.
PromptResults == SendBound < StaleTimeout

-----------------------------------------------------------------------------
(* What the operators make of a row. *)

LEMMA SettledEffect ==
  ASSUME NEW row \in Row, NEW status \in Terminal
  PROVE  /\ Settled(row, status) \in Row
         /\ Settled(row, status).status = status /\ Settled(row, status).key = NoKey
         /\ Settled(row, status).attempt = row.attempt /\ Settled(row, status).print = row.print
         /\ Settled(row, status).age = 0
BY DEF Settled, Row

LEMMA RecoveredEffect ==
  ASSUME NEW row \in Row
  PROVE  /\ Recovered(row) \in Row
         /\ Recovered(row).attempt = row.attempt /\ Recovered(row).print = row.print
         /\ \/ Recovered(row).status = "failed" /\ Recovered(row).key = NoKey
            \/ Recovered(row).status = "pending" /\ Recovered(row).key = row.key
<1>1. "failed" \in Terminal
  BY DEF Terminal
<1>2. CASE row.attempt >= MaxAttempts
  BY <1>1, <1>2, SettledEffect DEF Recovered
<1>3. CASE ~(row.attempt >= MaxAttempts)
  BY <1>3 DEF Recovered, Row, Unfinished
<1>4. QED BY <1>2, <1>3

LEMMA RecordedEffect ==
  ASSUME NEW row \in Row, NEW r \in Send
  PROVE  /\ Recorded(row, r) \in Row
         /\ Recorded(row, r).attempt = row.attempt /\ Recorded(row, r).print = row.print
         /\ \/ /\ Recorded(row, r).status = "succeeded" /\ Recorded(row, r).key = NoKey
               /\ r.answer = "ok"
            \/ /\ Recorded(row, r).status = "failed" /\ Recorded(row, r).key = NoKey
               /\ r.answer # "ok"
            \/ /\ Recorded(row, r).status = "pending" /\ Recorded(row, r).key = row.key
               /\ r.answer # "ok"
<1>1. {"succeeded", "failed"} \subseteq Terminal
  BY DEF Terminal
<1>2. CASE Retry(r)
  BY <1>2 DEF Retry, Recorded, Row, Unfinished
<1>3. CASE ~Retry(r) /\ r.answer = "ok"
  BY <1>1, <1>3, SettledEffect DEF Recorded
<1>4. CASE ~Retry(r) /\ r.answer # "ok"
  BY <1>1, <1>4, SettledEffect DEF Recorded
<1>5. QED BY <1>2, <1>3, <1>4

\* A row that runs and is not stale ages by one.
LEMMA OlderEffect ==
  ASSUME NEW row \in Row
  PROVE  /\ Older(row) \in Row
         /\ Older(row).status = row.status /\ Older(row).key = row.key
         /\ Older(row).attempt = row.attempt /\ Older(row).print = row.print
         /\ row.status = "running" /\ row.age < StaleTimeout => Older(row).age = row.age + 1
<1> DEFINE wait == IF row.wait > 0 THEN row.wait - 1 ELSE row.wait
           age == IF row.age < AgeLimit(row) THEN row.age + 1 ELSE row.age
<1>1. Older(row) = [row EXCEPT !.wait = wait, !.age = age]
  BY DEF Older
<1>2. row.wait \in Nat /\ row.age \in Nat
  BY DEF Row
<1>3. wait \in Nat /\ age \in Nat
  BY <1>2
<1>4. row.status = "running" /\ row.age < StaleTimeout => age = row.age + 1
  BY DEF AgeLimit
<1> HIDE DEF wait, age
<1>5. QED BY <1>1, <1>3, <1>4 DEF Row

\* Nothing that has no row gets older.
LEMMA OlderNoRow == Older(NoRow) = NoRow
<1>1. NoRow.wait = 0 /\ NoRow.age = 0 /\ NoRow.status = "none"
  BY DEF NoRow
<1>2. AgeLimit(NoRow) = 0
  BY <1>1 DEF AgeLimit, Terminal
<1>3. Older(NoRow) = [NoRow EXCEPT !.wait = NoRow.wait, !.age = NoRow.age]
  BY <1>1, <1>2 DEF Older
<1>4. QED BY <1>3 DEF NoRow

LEMMA NoRowIsRow == NoRow \in Row
BY DEF NoRow, Row

LEMMA AcceptedEffect ==
  ASSUME NEW print \in Prints, activeKey \in Keys
  PROVE  /\ Accepted(print) \in Row /\ Accepted(print).status = "pending"
         /\ Accepted(print).key = activeKey /\ Accepted(print).attempt = 0
         /\ Accepted(print).print = print
BY DEF Accepted, NoRow, Row, Unfinished

-----------------------------------------------------------------------------
(* Types. *)

RowsType == deliv \in [Requests -> Row] /\ attempts \in [Requests -> SUBSET Attempt]

\* Requests and users.
LEMMA ApiTypes ==
  ASSUME TypeOK,
         \/ \E u \in Users, state \in {"enabled", "disabled", "deleted"} : SetUser(u, state)
         \/ \E c \in Callers, q \in Requests, print \in Prints : RequestLookup(c, q, print)
         \/ \E x \in calls : RequestCheck(x) \/ RequestInsert(x)
  PROVE  TypeOK'
<1>1. ASSUME NEW u \in Users, NEW state \in {"enabled", "disabled", "deleted"}, SetUser(u, state)
      PROVE  TypeOK'
  BY <1>1 DEF SetUser, keyVars, TypeOK
<1>2. ASSUME NEW c \in Callers, NEW q \in Requests, NEW print \in Prints, RequestLookup(c, q, print)
      PROVE  TypeOK'
  <2>1. [caller |-> c, req |-> q, print |-> print, step |-> "unknown"] \in Call
    BY DEF Call
  <2>2. calls' \in SUBSET Call
    BY <1>2, <2>1 DEF RequestLookup, TypeOK
  <2>3. replies' \in SUBSET (Requests \X Prints)
    BY <1>2 DEF RequestLookup, Answer, TypeOK
  <2>4. QED BY <1>2, <2>2, <2>3 DEF RequestLookup, keyVars, TypeOK
<1>3. ASSUME NEW x \in calls, RequestCheck(x) PROVE TypeOK'
  <2>1. x \in Call /\ [x EXCEPT !.step = "eligible"] \in Call
    BY DEF TypeOK, Call
  <2>2. calls' \in SUBSET Call
    BY <1>3, <2>1 DEF RequestCheck, TypeOK
  <2>3. QED BY <1>3, <2>2 DEF RequestCheck, keyVars, TypeOK
<1>4. ASSUME NEW x \in calls, RequestInsert(x) PROVE TypeOK'
  <2>1. x.req \in Requests /\ x.print \in Prints /\ Accepted(x.print) \in Row
    BY AcceptedEffect DEF TypeOK, Call
  <2>2. deliv' \in [Requests -> Row]
    BY <1>4, <2>1 DEF RequestInsert, TypeOK
  <2>3. replies' \in SUBSET (Requests \X Prints)
    BY <1>4, <2>1 DEF RequestInsert, Answer, TypeOK
  <2>4. calls' \in SUBSET Call
    BY <1>4 DEF RequestInsert, TypeOK
  <2>5. QED BY <1>4, <2>2, <2>3, <2>4 DEF RequestInsert, keyVars, TypeOK
<1>5. QED BY <1>1, <1>2, <1>3, <1>4

\* Claims, answers and their records.
LEMMA SendTypes ==
  ASSUME TypeOK,
         \/ \E w \in Workers, claimed \in SUBSET Requests : ClaimReady(w, claimed)
         \/ \E w \in Workers : LoseResults(w)
         \/ \E r \in sends : RecordAttempt(r) \/ \E o \in Outcomes : Respond(r, o)
  PROVE  TypeOK'
<1>1. ASSUME NEW w \in Workers, NEW claimed \in SUBSET Requests, ClaimReady(w, claimed)
      PROVE  TypeOK'
  <2>1. deliv' \in [Requests -> Row]
    <3>1. ASSUME NEW q \in Requests
          PROVE  [deliv[q] EXCEPT !.status = "running", !.attempt = @ + 1, !.age = 0] \in Row
      <4>1. deliv[q] \in Row /\ deliv[q].attempt + 1 \in Nat /\ 0 \in Nat
        BY DEF TypeOK, Row
      <4>2. QED BY <4>1 DEF Row, Unfinished
    <3>2. QED BY <1>1, <3>1 DEF ClaimReady, TypeOK
  <2>2. \A q \in claimed : NewSend(w, q) \in Send
    BY DEF NewSend, Send, TypeOK, Row
  <2>3. sends' \in SUBSET Send
    BY <1>1, <2>2 DEF ClaimReady, TypeOK
  <2>4. QED BY <1>1, <2>1, <2>3 DEF ClaimReady, apiVars, keyVars, TypeOK
<1>2. ASSUME NEW w \in Workers, LoseResults(w) PROVE TypeOK'
  BY <1>2 DEF LoseResults, apiVars, keyVars, TypeOK
<1>3. ASSUME NEW r \in sends, RecordAttempt(r) PROVE TypeOK'
  <2>1. r \in Send /\ r.req \in Requests /\ r.attempt \in Nat
    BY DEF TypeOK, Send
  <2>2. Recorded(deliv[r.req], r) \in Row
    BY <2>1, RecordedEffect DEF TypeOK
  <2>3. deliv' \in [Requests -> Row]
    BY <1>3, <2>2 DEF RecordAttempt, TypeOK
  <2>4. [number |-> r.attempt, ok |-> r.answer = "ok"] \in Attempt
    BY <2>1 DEF Attempt
  <2>5. attempts' \in [Requests -> SUBSET Attempt]
    BY <1>3, <2>4 DEF RecordAttempt, TypeOK
  <2>6. QED BY <1>3, <2>3, <2>5 DEF RecordAttempt, apiVars, keyVars, TypeOK
<1>4. ASSUME NEW r \in sends, NEW o \in Outcomes, Respond(r, o) PROVE TypeOK'
  <2>1. [r EXCEPT !.answer = o] \in Send
    BY DEF TypeOK, Send
  <2>2. QED BY <1>4, <2>1 DEF Respond, apiVars, keyVars, TypeOK
<1>5. QED BY <1>1, <1>2, <1>3, <1>4

\* Cancellation, recovery, clean-up and time.
LEMMA SweepTypes ==
  ASSUME TypeOK,
         CancelDeletedUsers \/ RecoverStaleRunning \/ CleanupSelect \/ CleanupDelete \/ Tick
  PROVE  TypeOK'
<1>1. CASE CancelDeletedUsers
  <2>1. \A q \in Requests : Settled(deliv[q], "canceled") \in Row
    BY SettledEffect DEF TypeOK, Terminal
  <2>2. QED BY <1>1, <2>1 DEF CancelDeletedUsers, apiVars, keyVars, TypeOK
<1>2. CASE RecoverStaleRunning
  <2>1. \A q \in Requests : Recovered(deliv[q]) \in Row
    BY RecoveredEffect DEF TypeOK
  <2>2. QED BY <1>2, <2>1 DEF RecoverStaleRunning, apiVars, keyVars, TypeOK
<1>3. CASE CleanupSelect
  BY <1>3 DEF CleanupSelect, apiVars, keyVars, TypeOK
<1>4. CASE CleanupDelete
  BY <1>4, NoRowIsRow DEF CleanupDelete, TypeOK
<1>5. CASE Tick
  <2>1. \A q \in Requests : Older(deliv[q]) \in Row
    BY OlderEffect DEF TypeOK
  <2>2. \A r \in sends : [r EXCEPT !.age = @ + 1] \in Send
    BY DEF TypeOK, Send
  <2>3. QED BY <1>5, <2>1, <2>2 DEF Tick, apiVars, keyVars, TypeOK
<1>6. QED BY <1>1, <1>2, <1>3, <1>4, <1>5

\* Keys.
LEMMA KeyTypes ==
  ASSUME TypeOK,
         MigrateScan \/ (\E k \in Keys : Rotate(k) \/ RemoveKey(k)) \/ \E m \in rekeying : MigrateRow(m)
  PROVE  TypeOK'
<1>1. CASE MigrateScan
  BY <1>1 DEF MigrateScan, apiVars, TypeOK
<1>2. ASSUME NEW k \in Keys, Rotate(k) PROVE TypeOK'
  BY <1>2 DEF Rotate, TypeOK
<1>3. ASSUME NEW k \in Keys, RemoveKey(k) PROVE TypeOK'
  BY <1>3 DEF RemoveKey, apiVars, TypeOK
<1>4. ASSUME NEW m \in rekeying, MigrateRow(m) PROVE TypeOK'
  <2>1. m[1] \in Requests /\ m[2] \in Keys
    BY DEF TypeOK
  <2>2. [deliv[m[1]] EXCEPT !.key = m[2]] \in Row
    BY <2>1 DEF TypeOK, Row
  <2>3. QED BY <1>4, <2>2 DEF MigrateRow, apiVars, TypeOK
<1>5. QED BY <1>1, <1>2, <1>3, <1>4

LEMMA InitType == Init => TypeOK
BY NoRowIsRow DEF Init, TypeOK

LEMMA StepType == TypeOK /\ [Next]_vars => TypeOK'
<1>1. TypeOK /\ UNCHANGED vars => TypeOK'
  BY DEF vars, TypeOK
<1>2. TypeOK /\ Next => TypeOK'
  BY ApiTypes, SendTypes, SweepTypes, KeyTypes, Zenon DEF Next
<1>3. QED BY <1>1, <1>2

\* Types hold in every reachable state.
THEOREM EmailTyped == Spec => []TypeOK
BY InitType, StepType, PTL DEF Spec

-----------------------------------------------------------------------------
(* Requests: these hold whatever the timing. *)

\* Where there is no row there is nothing, and nobody was given it.
Absent(q) == deliv[q].status = "none" => deliv[q] = NoRow
RequestInv ==
  /\ TypeOK /\ IdempotentReplies
  /\ \A q \in Requests : Absent(q)
  /\ \A p \in replies : deliv[p[1]].status # "none"

\* A row stays the row of its request.
SameRequest(q) ==
  /\ deliv'[q].print = deliv[q].print
  /\ deliv'[q].status = "none" <=> deliv[q].status = "none"
  /\ deliv'[q].status = "none" => deliv'[q] = deliv[q]
  /\ deliv'[q].attempt = deliv[q].attempt

LEMMA SameIsSame ==
  ASSUME NEW q, deliv'[q] = deliv[q]
  PROVE  SameRequest(q)
BY DEF SameRequest

\* What changes rows and neither accepts, claims nor deletes.
LEMMA ChangesKeepRequests ==
  ASSUME RequestInv, NEW q \in Requests,
         \/ CancelDeletedUsers \/ RecoverStaleRunning \/ Tick
         \/ \E r \in sends : RecordAttempt(r)
         \/ \E m \in rekeying : MigrateRow(m)
  PROVE  SameRequest(q)
<1>1. deliv \in [Requests -> Row] /\ deliv[q] \in Row
  BY DEF RequestInv, TypeOK
<1>2. CASE CancelDeletedUsers
  <2>1. /\ Settled(deliv[q], "canceled").print = deliv[q].print
        /\ Settled(deliv[q], "canceled").status = "canceled"
        /\ Settled(deliv[q], "canceled").attempt = deliv[q].attempt
    BY <1>1, SettledEffect DEF Terminal
  <2>2. deliv'[q] = deliv[q] \/ (deliv[q].status = "pending" /\ deliv'[q] = Settled(deliv[q], "canceled"))
    BY <1>2 DEF CancelDeletedUsers
  <2>3. QED BY <2>1, <2>2 DEF SameRequest
<1>3. CASE RecoverStaleRunning
  <2>1. /\ Recovered(deliv[q]).print = deliv[q].print /\ Recovered(deliv[q]).status # "none"
        /\ Recovered(deliv[q]).attempt = deliv[q].attempt
    BY <1>1, RecoveredEffect
  <2>2. deliv'[q] = deliv[q] \/ (deliv[q].status = "running" /\ deliv'[q] = Recovered(deliv[q]))
    BY <1>3 DEF RecoverStaleRunning, Abandoned
  <2>3. QED BY <2>1, <2>2 DEF SameRequest
<1>4. CASE Tick
  <2>1. deliv'[q] = Older(deliv[q])
    BY <1>4 DEF Tick
  <2>2. deliv[q].status = "none" => Older(deliv[q]) = deliv[q]
    BY OlderNoRow DEF RequestInv, Absent
  <2>3. QED BY <1>1, <2>1, <2>2, OlderEffect DEF SameRequest
<1>5. ASSUME NEW r \in sends, RecordAttempt(r) PROVE SameRequest(q)
  <2>1. r \in Send
    BY DEF RequestInv, TypeOK
  <2>2. /\ Recorded(deliv[q], r).print = deliv[q].print /\ Recorded(deliv[q], r).status # "none"
        /\ Recorded(deliv[q], r).attempt = deliv[q].attempt
    BY <1>1, <2>1, RecordedEffect
  <2>3. deliv'[q] = deliv[q] \/ (deliv[q].status # "none" /\ deliv'[q] = Recorded(deliv[q], r))
    BY <1>1, <1>5 DEF RecordAttempt
  <2>4. QED BY <2>2, <2>3 DEF SameRequest
<1>6. ASSUME NEW m \in rekeying, MigrateRow(m) PROVE SameRequest(q)
  <2>1. deliv'[q] = deliv[q] \/ (deliv[q].status \in Unfinished /\ deliv'[q] = [deliv[q] EXCEPT !.key = m[2]])
    BY <1>1, <1>6 DEF MigrateRow
  <2>2. QED BY <1>1, <2>1 DEF SameRequest, Row, Unfinished
<1>7. QED BY <1>2, <1>3, <1>4, <1>5, <1>6

\* Rows that stay the rows of their requests keep what was answered true.
LEMMA SameRequestsKeepIt ==
  ASSUME RequestInv, TypeOK', replies' = replies, \A q \in Requests : SameRequest(q)
  PROVE  RequestInv'
<1>1. \A q \in Requests : Absent(q)'
  BY DEF RequestInv, SameRequest, Absent
<1>2. \A p \in replies : p[1] \in Requests
  BY DEF RequestInv, TypeOK
<1>3. IdempotentReplies' /\ \A p \in replies' : deliv'[p[1]].status # "none"
  BY <1>2 DEF RequestInv, SameRequest, IdempotentReplies
<1>4. QED BY <1>1, <1>3 DEF RequestInv

\* A caller that is answered has the fingerprint of the row.
LEMMA AnswerKeepsIt ==
  ASSUME RequestInv, TypeOK', NEW q \in Requests, NEW print \in Prints, Answer(q, print),
         deliv'[q].status # "none", Absent(q)',
         \A p \in Requests : p # q => deliv'[p] = deliv[p],
         deliv[q].status # "none" => deliv'[q] = deliv[q]
  PROVE  RequestInv'
<1>1. \A p \in Requests : Absent(p)'
  BY DEF RequestInv, Absent
<1>2. ASSUME NEW p \in replies PROVE deliv'[p[1]].print = p[2] /\ deliv'[p[1]].status # "none"
  <2>1. p[1] \in Requests /\ deliv[p[1]].print = p[2] /\ deliv[p[1]].status # "none"
    BY DEF RequestInv, TypeOK, IdempotentReplies
  <2>2. QED BY <2>1
<1>3. \A p \in replies' : p \in replies \/ (p = <<q, print>> /\ deliv'[q].print = print)
  BY DEF Answer
<1>4. \A p \in replies' : deliv'[p[1]].print = p[2] /\ deliv'[p[1]].status # "none"
  BY <1>2, <1>3
<1>5. QED BY <1>1, <1>4 DEF RequestInv, IdempotentReplies

LEMMA RequestStep ==
  ASSUME RequestInv, [Next]_vars
  PROVE  RequestInv'
<1>1. TypeOK' /\ TypeOK /\ deliv \in [Requests -> Row]
  BY StepType DEF RequestInv, TypeOK
<1>2. CASE deliv' = deliv /\ replies' = replies
  BY <1>1, <1>2, SameRequestsKeepIt, SameIsSame
<1>3. ASSUME NEW c \in Callers, NEW q \in Requests, NEW print \in Prints, RequestLookup(c, q, print)
      PROVE  RequestInv'
  <2>1. CASE deliv[q].status # "none"
    <3>1. Answer(q, print) /\ deliv' = deliv
      BY <1>3, <2>1 DEF RequestLookup
    <3>2. QED BY <1>1, <2>1, <3>1, AnswerKeepsIt DEF RequestInv, Absent
  <2>2. CASE deliv[q].status = "none"
    BY <1>2, <1>3, <2>2 DEF RequestLookup
  <2>3. QED BY <2>1, <2>2
<1>4. ASSUME NEW x \in calls, RequestInsert(x) PROVE RequestInv'
  <2>1. x.req \in Requests /\ x.print \in Prints /\ Accepted(x.print).status = "pending"
    BY <1>1, AcceptedEffect DEF TypeOK, Call
  <2>2. /\ deliv'[x.req].status # "none" /\ Answer(x.req, x.print)
        /\ \A p \in Requests : p # x.req => deliv'[p] = deliv[p]
        /\ deliv[x.req].status # "none" => deliv'[x.req] = deliv[x.req]
    BY <1>1, <1>4, <2>1 DEF RequestInsert
  <2>3. QED BY <1>1, <2>1, <2>2, AnswerKeepsIt DEF Absent
<1>5. ASSUME NEW w \in Workers, NEW claimed \in SUBSET Requests, ClaimReady(w, claimed)
      PROVE  RequestInv'
  <2>1. ASSUME NEW q \in Requests
        PROVE  /\ deliv'[q].print = deliv[q].print
               /\ deliv'[q].status = "none" <=> deliv[q].status = "none"
               /\ deliv'[q].status = "none" => deliv'[q] = deliv[q]
    <3>1. CASE q \in claimed
      BY <1>1, <1>5, <3>1 DEF ClaimReady, Claimable, Row
    <3>2. CASE q \notin claimed
      BY <1>5, <3>2 DEF ClaimReady
    <3>3. QED BY <3>1, <3>2
  <2>2. replies' = replies /\ \A p \in replies : p[1] \in Requests
    BY <1>1, <1>5 DEF ClaimReady, apiVars, TypeOK
  <2>3. QED BY <1>1, <2>1, <2>2 DEF RequestInv, IdempotentReplies, Absent
<1>6. CASE CleanupDelete
  <2>1. /\ \A q \in Requests : deliv'[q] = NoRow \/ (q \notin purging /\ deliv'[q] = deliv[q])
        /\ \A p \in replies' : p \in replies /\ p[1] \in Requests /\ p[1] \notin purging
        /\ \A q \in Requests : q \notin purging => deliv'[q] = deliv[q]
    BY <1>1, <1>6 DEF CleanupDelete, TypeOK
  <2>2. QED BY <1>1, <2>1 DEF RequestInv, IdempotentReplies, Absent
<1>7. CASE \/ CancelDeletedUsers \/ RecoverStaleRunning \/ Tick
           \/ \E r \in sends : RecordAttempt(r)
           \/ \E m \in rekeying : MigrateRow(m)
  <2>1. replies' = replies
    BY <1>7 DEF CancelDeletedUsers, RecoverStaleRunning, Tick, RecordAttempt, MigrateRow, apiVars
  <2>2. QED BY <1>1, <1>7, <2>1, ChangesKeepRequests, SameRequestsKeepIt
<1>8. CASE \/ \E u \in Users, state \in {"enabled", "disabled", "deleted"} : SetUser(u, state)
           \/ \E x \in calls : RequestCheck(x)
           \/ \E w \in Workers : LoseResults(w)
           \/ \E r \in sends, o \in Outcomes : Respond(r, o)
           \/ CleanupSelect \/ MigrateScan
           \/ \E k \in Keys : Rotate(k) \/ RemoveKey(k)
           \/ UNCHANGED vars
  <2>1. deliv' = deliv /\ replies' = replies
    BY <1>8 DEF SetUser, RequestCheck, LoseResults, Respond, CleanupSelect, MigrateScan, Rotate,
                RemoveKey, apiVars, vars
  <2>2. QED BY <1>2, <2>1
<1>9. QED BY <1>3, <1>4, <1>5, <1>6, <1>7, <1>8, Zenon DEF Next

LEMMA RequestInit == Init => RequestInv
<1>1. Init => /\ \A q \in Requests : deliv[q] = NoRow
              /\ replies = {}
  BY DEF Init
<1>2. QED BY <1>1, InitType DEF RequestInv, IdempotentReplies, Absent

\* Callers that share a request key were answered only for the same request,
\* however their lookups and inserts interleave with the worker and clean-up.
THEOREM RepliesIdempotent == Spec => []IdempotentReplies
<1>1. RequestInv => IdempotentReplies
  BY DEF RequestInv
<1>2. QED BY <1>1, RequestInit, RequestStep, PTL DEF Spec

-----------------------------------------------------------------------------
(* Attempts and content, under PromptResults. *)

\* A delivery: its content, its key, its attempts and its clean-up.
RowSound(q) ==
  /\ deliv[q].status \in Unfinished <=> deliv[q].key # NoKey
  /\ deliv[q].status \in Unfinished => deliv[q].key \in keyring
  /\ (\E a \in attempts[q] : a.ok) <=> deliv[q].status = "succeeded"
  /\ \A a \in attempts[q] : /\ a.number <= deliv[q].attempt
                            /\ deliv[q].status = "running" => a.number < deliv[q].attempt
  /\ q \in purging => deliv[q].status \in Terminal

\* What is being sent runs, with the attempt and the age of its row.
SendSound(r) ==
  /\ deliv[r.req].status = "running"
  /\ deliv[r.req].attempt = r.attempt /\ deliv[r.req].age = r.age
  /\ r.age <= SendBound

\* Keys that will be written to rows are in the ring.
KeysStay == activeKey \in keyring /\ \A m \in rekeying : m[2] \in keyring

EmailInv ==
  /\ RequestInv /\ KeysStay
  /\ \A q \in Requests : RowSound(q)
  /\ \A r \in sends : SendSound(r)
  /\ \A r1, r2 \in sends : r1.req = r2.req => r1 = r2

LEMMA EmailInvUse ==
  ASSUME EmailInv
  PROVE  /\ TypeOK /\ deliv \in [Requests -> Row] /\ attempts \in [Requests -> SUBSET Attempt]
         /\ purging \in SUBSET Requests /\ keyring \in SUBSET Keys
         /\ \A r \in sends : r \in Send /\ r.req \in Requests
         /\ NoKey \notin keyring
BY EmailAssumption DEF EmailInv, RequestInv, TypeOK, Send

\* A row that keeps what RowSound reads stays sound.
LEMMA RowStays ==
  ASSUME NEW q, RowSound(q), deliv'[q].status = deliv[q].status, deliv'[q].key = deliv[q].key,
         deliv'[q].attempt = deliv[q].attempt, attempts'[q] = attempts[q],
         q \in purging' => q \in purging \/ deliv[q].status \in Terminal,
         deliv[q].status \in Unfinished /\ deliv[q].key \in keyring => deliv[q].key \in keyring'
  PROVE  RowSound(q)'
BY DEF RowSound

\* A row that is settled or goes back to pending, and records no success.
LEMMA RowFails ==
  ASSUME NEW q, RowSound(q), deliv[q].status \in Unfinished,
         \/ deliv'[q].status \in {"failed", "canceled"} /\ deliv'[q].key = NoKey
         \/ deliv'[q].status = "pending" /\ deliv'[q].key = deliv[q].key,
         deliv'[q].attempt = deliv[q].attempt, q \notin purging', keyring' = keyring,
         \A a \in attempts'[q] : a \in attempts[q] \/ (~a.ok /\ a.number = deliv[q].attempt),
         deliv[q].attempt \in Nat
  PROVE  RowSound(q)'
<1>1. deliv[q].key # NoKey /\ deliv[q].key \in keyring /\ ~(\E a \in attempts[q] : a.ok)
  BY DEF RowSound, Unfinished
<1>2. ~(\E a \in attempts'[q] : a.ok) /\ deliv'[q].status # "succeeded"
  BY <1>1 DEF Unfinished
<1>3. \A a \in attempts'[q] : a.number <= deliv'[q].attempt
  BY DEF RowSound
<1>4. deliv'[q].status \in Unfinished <=> deliv'[q].key # NoKey
  BY <1>1 DEF Unfinished
<1>5. QED BY <1>1, <1>2, <1>3, <1>4 DEF RowSound, Unfinished

\* Sends are fewer, or answered, and their rows run on.
LEMMA SendsStay ==
  ASSUME EmailInv,
         \A r \in sends' : \E s \in sends :
           /\ r.req = s.req /\ r.attempt = s.attempt /\ r.age = s.age
           /\ deliv'[r.req].status = deliv[r.req].status
           /\ deliv'[r.req].attempt = deliv[r.req].attempt
           /\ deliv'[r.req].age = deliv[r.req].age
  PROVE  \A r \in sends' : SendSound(r)'
BY DEF EmailInv, SendSound

-----------------------------------------------------------------------------
(* One lemma per kind of step. *)

\* Steps that leave the rows alone.
LEMMA QuietSteps ==
  ASSUME EmailInv, RequestInv', deliv' = deliv, attempts' = attempts, sends' \subseteq sends,
         KeysStay',
         \A q \in purging' : q \in purging \/ deliv[q].status \in Terminal,
         \A q \in Requests : deliv[q].status \in Unfinished /\ deliv[q].key \in keyring
                              => deliv[q].key \in keyring'
  PROVE  EmailInv'
<1>1. \A q \in Requests : RowSound(q)'
  BY RowStays DEF EmailInv
<1>2. \A r \in sends' : SendSound(r)'
  BY SendsStay
<1>3. \A r1, r2 \in sends' : r1.req = r2.req => r1 = r2
  BY DEF EmailInv
<1>4. QED BY <1>1, <1>2, <1>3 DEF EmailInv

LEMMA QuietActions ==
  ASSUME EmailInv, RequestInv',
         \/ \E u \in Users, state \in {"enabled", "disabled", "deleted"} : SetUser(u, state)
         \/ \E c \in Callers, q \in Requests, print \in Prints : RequestLookup(c, q, print)
         \/ \E x \in calls : RequestCheck(x)
         \/ \E w \in Workers : LoseResults(w)
         \/ CleanupSelect \/ MigrateScan
         \/ \E k \in Keys : Rotate(k) \/ RemoveKey(k)
         \/ UNCHANGED vars
  PROVE  EmailInv'
<1>1. deliv' = deliv /\ attempts' = attempts /\ sends' \subseteq sends
  BY DEF SetUser, RequestLookup, RequestCheck, LoseResults, CleanupSelect, MigrateScan, Rotate,
         RemoveKey, vars
<1>2. KeysStay /\ KeysStay'
  BY DEF EmailInv, KeysStay, SetUser, RequestLookup, RequestCheck, LoseResults, CleanupSelect,
         MigrateScan, Rotate, RemoveKey, keyVars, vars
<1>3. \A q \in purging' : q \in purging \/ deliv[q].status \in Terminal
  BY DEF SetUser, RequestLookup, RequestCheck, LoseResults, CleanupSelect, MigrateScan, Rotate,
         RemoveKey, keyVars, vars
<1>4. \A q \in Requests : deliv[q].status \in Unfinished /\ deliv[q].key \in keyring
                          => deliv[q].key \in keyring'
  BY DEF SetUser, RequestLookup, RequestCheck, LoseResults, CleanupSelect, MigrateScan, Rotate,
         RemoveKey, keyVars, vars
<1>5. QED BY <1>1, <1>2, <1>3, <1>4, QuietSteps

\* An answer changes one send, in what SendSound does not read.
LEMMA RespondKeepsIt ==
  ASSUME EmailInv, RequestInv', NEW r \in sends, NEW o \in Outcomes, Respond(r, o)
  PROVE  EmailInv'
<1> DEFINE s == [r EXCEPT !.answer = o]
<1>1. /\ deliv' = deliv /\ attempts' = attempts /\ purging' = purging /\ keyring' = keyring
      /\ sends' = (sends \ {r}) \cup {s} /\ activeKey' = activeKey /\ rekeying' = rekeying
  BY DEF Respond, keyVars
<1>2. s.req = r.req /\ s.attempt = r.attempt /\ s.age = r.age
  BY EmailInvUse DEF Send
<1> HIDE DEF s
<1>3. \A q \in Requests : RowSound(q)'
  BY <1>1, RowStays DEF EmailInv
<1>4. \A t \in sends' : SendSound(t)'
  BY <1>1, <1>2, SendsStay
<1>5. \A r1, r2 \in sends' : r1.req = r2.req => r1 = r2
  BY <1>1, <1>2 DEF EmailInv
<1>6. KeysStay'
  BY <1>1 DEF EmailInv, KeysStay
<1>7. QED BY <1>3, <1>4, <1>5, <1>6 DEF EmailInv

LEMMA InsertKeepsIt ==
  ASSUME EmailInv, RequestInv', NEW x \in calls, RequestInsert(x)
  PROVE  EmailInv'
<1>1. /\ x.req \in Requests /\ x.print \in Prints /\ activeKey \in Keys
      /\ deliv \in [Requests -> Row] /\ NoKey \notin keyring
  BY EmailInvUse DEF TypeOK, Call
<1>2. /\ attempts' = attempts /\ sends' = sends /\ purging' = purging /\ keyring' = keyring
      /\ activeKey' = activeKey /\ rekeying' = rekeying
  BY DEF RequestInsert, keyVars
<1>3. KeysStay' /\ KeysStay
  BY <1>2 DEF EmailInv, KeysStay
<1>4. CASE deliv[x.req].status # "none"
  <2>1. deliv' = deliv
    BY <1>4 DEF RequestInsert
  <2>2. QED BY <1>2, <1>3, <2>1, QuietSteps
<1>5. CASE deliv[x.req].status = "none"
  <2>1. /\ deliv'[x.req] = Accepted(x.print)
        /\ \A q \in Requests : q # x.req => deliv'[q] = deliv[q]
    BY <1>1, <1>5 DEF RequestInsert
  <2>2. /\ deliv'[x.req].status = "pending" /\ deliv'[x.req].key = activeKey
        /\ deliv'[x.req].attempt = 0
    BY <1>1, <2>1, AcceptedEffect
  <2>3. /\ x.req \notin purging /\ deliv[x.req].attempt = 0
        /\ ~(\E a \in attempts[x.req] : a.ok)
        /\ \A a \in attempts[x.req] : a.number <= 0
    BY <1>1, <1>5 DEF EmailInv, RowSound, RequestInv, Absent, NoRow, Terminal
  <2>4. RowSound(x.req)'
    BY <1>1, <1>2, <1>3, <2>2, <2>3 DEF RowSound, Unfinished, KeysStay
  <2>5. \A q \in Requests : q # x.req => RowSound(q)'
    BY <1>2, <2>1, RowStays DEF EmailInv
  <2>6. \A r \in sends : r.req # x.req /\ r.req \in Requests
    BY <1>5, EmailInvUse DEF EmailInv, SendSound
  <2>7. \A r \in sends' : SendSound(r)'
    BY <1>2, <2>1, <2>6, SendsStay
  <2>8. QED BY <1>2, <1>3, <2>4, <2>5, <2>7 DEF EmailInv
<1>6. QED BY <1>4, <1>5

\* A claim takes pending rows, which nobody is sending.
LEMMA ClaimKeepsIt ==
  ASSUME EmailInv, RequestInv', NEW w \in Workers, NEW claimed \in SUBSET Requests,
         ClaimReady(w, claimed)
  PROVE  EmailInv'
<1>1. /\ deliv \in [Requests -> Row] /\ attempts \in [Requests -> SUBSET Attempt]
      /\ \A r \in sends : r \in Send /\ r.req \in Requests
  BY EmailInvUse
<1>2. /\ attempts' = attempts /\ purging' = purging /\ keyring' = keyring
      /\ activeKey' = activeKey /\ rekeying' = rekeying
      /\ sends' = sends \cup {NewSend(w, q) : q \in claimed}
      /\ \A q \in Requests \ claimed : deliv'[q] = deliv[q]
      /\ \A q \in claimed : deliv[q].status = "pending" /\ deliv[q].key \in keyring
  BY <1>1 DEF ClaimReady, Claimable, keyVars
<1>3. ASSUME NEW q \in claimed
      PROVE  /\ deliv'[q].status = "running" /\ deliv'[q].attempt = deliv[q].attempt + 1
             /\ deliv'[q].key = deliv[q].key /\ deliv'[q].age = 0 /\ deliv[q].attempt \in Nat
  <2>1. deliv[q] \in Row
    BY <1>1
  <2>2. deliv'[q] = [deliv[q] EXCEPT !.status = "running", !.attempt = @ + 1, !.age = 0]
    BY DEF ClaimReady
  <2>3. QED BY <2>1, <2>2 DEF Row
<1>4. ASSUME NEW q \in claimed PROVE RowSound(q)'
  <2>1. RowSound(q) /\ \A a \in attempts[q] : a.number \in Nat
    BY <1>1 DEF EmailInv, Attempt
  <2>2. QED BY <1>2, <1>3, <2>1 DEF RowSound, Unfinished, Terminal
<1>5. \A q \in Requests \ claimed : RowSound(q)'
  BY <1>2, RowStays DEF EmailInv
<1>6. \A r \in sends : r.req \notin claimed
  BY <1>2 DEF EmailInv, SendSound
<1>7. \A q \in claimed : /\ NewSend(w, q).req = q /\ NewSend(w, q).age = 0
                         /\ NewSend(w, q).attempt = deliv[q].attempt + 1
  BY DEF NewSend
<1>8. \A r \in sends : SendSound(r)'
  BY <1>1, <1>2, <1>6 DEF EmailInv, SendSound
<1>9. ASSUME NEW q \in claimed, NEW r, r = NewSend(w, q) PROVE SendSound(r)'
  <2>1. r.req = q /\ r.age = 0 /\ r.attempt = deliv[q].attempt + 1
    BY <1>7, <1>9
  <2>2. QED BY <1>3, <2>1, EmailAssumption DEF SendSound
<1>10. \A r \in sends' : SendSound(r)'
  BY <1>2, <1>8, <1>9
<1>11. \A r1, r2 \in sends' : r1.req = r2.req => r1 = r2
  BY <1>2, <1>6, <1>7 DEF EmailInv
<1>12. KeysStay'
  BY <1>2 DEF EmailInv, KeysStay
<1>13. QED BY <1>4, <1>5, <1>10, <1>11, <1>12 DEF EmailInv

\* A result is recorded once, on the row that runs its attempt.
LEMMA RecordKeepsIt ==
  ASSUME EmailInv, RequestInv', NEW r \in sends, RecordAttempt(r)
  PROVE  EmailInv'
<1> DEFINE q == r.req
           new == [number |-> r.attempt, ok |-> r.answer = "ok"]
<1>1. /\ deliv \in [Requests -> Row] /\ attempts \in [Requests -> SUBSET Attempt]
      /\ \A s \in sends : s \in Send /\ s.req \in Requests
      /\ q \in Requests /\ deliv[q] \in Row /\ deliv[q].attempt \in Nat
  BY EmailInvUse DEF Row
<1>2. SendSound(r) /\ RowSound(q) /\ deliv[q].status = "running" /\ deliv[q].attempt = r.attempt
  BY <1>1 DEF EmailInv, SendSound
<1>3. /\ sends' = sends \ {r} /\ purging' = purging /\ keyring' = keyring
      /\ activeKey' = activeKey /\ rekeying' = rekeying
  BY DEF RecordAttempt, keyVars
<1>4. /\ deliv'[q] = Recorded(deliv[q], r)
      /\ \A p \in Requests : p # q => deliv'[p] = deliv[p]
  BY <1>1, <1>2 DEF RecordAttempt
<1>5. /\ attempts'[q] = attempts[q] \cup {new}
      /\ \A p \in Requests : p # q => attempts'[p] = attempts[p]
  <2>1. ~ \E a \in attempts[q] : a.number = r.attempt
    BY <1>1, <1>2 DEF RowSound, Attempt
  <2>2. attempts' = [attempts EXCEPT ![q] = @ \cup {new}]
    BY <2>1 DEF RecordAttempt
  <2>3. QED BY <1>1, <2>2
<1>6. q \notin purging
  BY <1>2 DEF RowSound, Terminal
<1>7. new.number = r.attempt /\ (new.ok <=> r.answer = "ok")
  OBVIOUS
<1>8. \/ /\ deliv'[q].status = "succeeded" /\ deliv'[q].key = NoKey /\ r.answer = "ok"
      \/ /\ deliv'[q].status = "failed" /\ deliv'[q].key = NoKey /\ r.answer # "ok"
      \/ /\ deliv'[q].status = "pending" /\ deliv'[q].key = deliv[q].key /\ r.answer # "ok"
  BY <1>1, <1>4, RecordedEffect
<1>9. deliv'[q].attempt = deliv[q].attempt
  BY <1>1, <1>4, RecordedEffect
<1> HIDE DEF new
<1>10. RowSound(q)'
  <2>1. CASE r.answer = "ok"
    <3>1. deliv'[q].status = "succeeded" /\ deliv'[q].key = NoKey
      BY <1>8, <2>1
    <3>2. \E a \in attempts'[q] : a.ok
      BY <1>5, <1>7, <2>1
    <3>3. \A a \in attempts'[q] : a.number <= deliv'[q].attempt
      BY <1>1, <1>2, <1>5, <1>7, <1>9 DEF RowSound
    <3>4. QED BY <1>3, <1>6, <3>1, <3>2, <3>3 DEF RowSound, Unfinished
  <2>2. CASE r.answer # "ok"
    <3>1. \A a \in attempts'[q] : a \in attempts[q] \/ (~a.ok /\ a.number = deliv[q].attempt)
      BY <1>2, <1>5, <1>7, <2>2
    <3>2. \/ deliv'[q].status \in {"failed", "canceled"} /\ deliv'[q].key = NoKey
          \/ deliv'[q].status = "pending" /\ deliv'[q].key = deliv[q].key
      BY <1>8, <2>2
    <3>3. deliv[q].status \in Unfinished
      BY <1>2 DEF Unfinished
    <3>4. QED BY <1>1, <1>2, <1>3, <1>6, <1>9, <3>1, <3>2, <3>3, RowFails
  <2>3. QED BY <2>1, <2>2
<1>11. \A p \in Requests : p # q => RowSound(p)'
  BY <1>3, <1>4, <1>5, RowStays DEF EmailInv
<1>12. \A s \in sends' : s \in sends /\ s.req # q
  BY <1>3 DEF EmailInv
<1>13. \A s \in sends' : SendSound(s)'
  BY <1>1, <1>4, <1>12, SendsStay
<1>14. KeysStay' /\ \A r1, r2 \in sends' : r1.req = r2.req => r1 = r2
  BY <1>3 DEF EmailInv, KeysStay
<1>15. QED BY <1>10, <1>11, <1>13, <1>14 DEF EmailInv

\* Cancellation and recovery take rows that nobody is sending.
LEMMA SettlingKeepsIt ==
  ASSUME PromptResults, EmailInv, RequestInv', CancelDeletedUsers \/ RecoverStaleRunning
  PROVE  EmailInv'
<1>1. /\ deliv \in [Requests -> Row]
      /\ \A r \in sends : r \in Send /\ r.req \in Requests
  BY EmailInvUse
<1>2. /\ attempts' = attempts /\ sends' = sends /\ purging' = purging /\ keyring' = keyring
      /\ activeKey' = activeKey /\ rekeying' = rekeying
  BY DEF CancelDeletedUsers, RecoverStaleRunning, keyVars
<1>3. ASSUME NEW q \in Requests
      PROVE  \/ deliv'[q] = deliv[q]
             \/ /\ deliv[q].status \in Unfinished /\ deliv'[q].attempt = deliv[q].attempt
                /\ \/ deliv'[q].status \in {"failed", "canceled"} /\ deliv'[q].key = NoKey
                   \/ deliv'[q].status = "pending" /\ deliv'[q].key = deliv[q].key
                /\ \A r \in sends : r.req # q
  <2>1. CASE CancelDeletedUsers
    <3>1. deliv'[q] = deliv[q] \/ (deliv[q].status = "pending" /\ deliv'[q] = Settled(deliv[q], "canceled"))
      BY <2>1 DEF CancelDeletedUsers
    <3>2. /\ Settled(deliv[q], "canceled").status = "canceled"
          /\ Settled(deliv[q], "canceled").key = NoKey
          /\ Settled(deliv[q], "canceled").attempt = deliv[q].attempt
      BY <1>1, SettledEffect DEF Terminal
    <3>3. deliv[q].status = "pending" => \A r \in sends : r.req # q
      BY DEF EmailInv, SendSound
    <3>4. QED BY <3>1, <3>2, <3>3 DEF Unfinished
  <2>2. CASE RecoverStaleRunning
    <3>1. deliv'[q] = deliv[q] \/ (Abandoned(q) /\ deliv'[q] = Recovered(deliv[q]))
      BY <2>2 DEF RecoverStaleRunning
    <3>2. /\ Recovered(deliv[q]).attempt = deliv[q].attempt
          /\ \/ Recovered(deliv[q]).status = "failed" /\ Recovered(deliv[q]).key = NoKey
             \/ Recovered(deliv[q]).status = "pending" /\ Recovered(deliv[q]).key = deliv[q].key
      BY <1>1, RecoveredEffect
    <3>3. Abandoned(q) => \A r \in sends : r.req # q
      <4> SUFFICES ASSUME Abandoned(q), NEW r \in sends, r.req = q PROVE FALSE
        OBVIOUS
      <4>1. deliv[q].age = r.age /\ r.age <= SendBound /\ deliv[q].age \in Nat
        BY <1>1 DEF EmailInv, SendSound, Row
      <4>2. deliv[q].age >= StaleTimeout
        BY DEF Abandoned
      <4>3. QED BY <4>1, <4>2, EmailAssumption DEF PromptResults
    <3>4. QED BY <3>1, <3>2, <3>3 DEF Abandoned, Unfinished
  <2>3. QED BY <2>1, <2>2
<1>4. ASSUME NEW q \in Requests PROVE RowSound(q)'
  <2>1. RowSound(q) /\ deliv[q].attempt \in Nat
    BY <1>1 DEF EmailInv, Row
  <2>2. CASE deliv'[q] = deliv[q]
    BY <1>2, <2>1, <2>2, RowStays
  <2>3. CASE deliv'[q] # deliv[q]
    <3>1. deliv[q].status \in Unfinished /\ q \notin purging
      BY <1>3, <2>1, <2>3 DEF RowSound, Unfinished, Terminal
    <3>2. QED BY <1>2, <1>3, <2>1, <2>3, <3>1, RowFails
  <2>4. QED BY <2>2, <2>3
<1>5. \A r \in sends : deliv'[r.req] = deliv[r.req]
  BY <1>1, <1>3
<1>6. \A r \in sends' : SendSound(r)'
  BY <1>2, <1>5, SendsStay
<1>7. KeysStay' /\ \A r1, r2 \in sends' : r1.req = r2.req => r1 = r2
  BY <1>2 DEF EmailInv, KeysStay
<1>8. QED BY <1>4, <1>6, <1>7 DEF EmailInv

\* What is deleted was settled.
LEMMA DeleteKeepsIt ==
  ASSUME EmailInv, RequestInv', CleanupDelete
  PROVE  EmailInv'
<1>1. /\ deliv \in [Requests -> Row] /\ attempts \in [Requests -> SUBSET Attempt]
      /\ \A r \in sends : r \in Send /\ r.req \in Requests
      /\ purging \in SUBSET Requests
  BY EmailInvUse
<1>2. /\ sends' = sends /\ purging' = {} /\ keyring' = keyring /\ activeKey' = activeKey
      /\ rekeying' \subseteq rekeying
      /\ \A q \in purging : deliv'[q] = NoRow /\ attempts'[q] = {}
      /\ \A q \in Requests \ purging : deliv'[q] = deliv[q] /\ attempts'[q] = attempts[q]
  BY <1>1 DEF CleanupDelete
<1>3. \A q \in purging : RowSound(q)'
  BY <1>2 DEF RowSound, NoRow, Unfinished
<1>4. \A q \in Requests \ purging : RowSound(q)'
  BY <1>2, RowStays DEF EmailInv
<1>5. \A r \in sends : r.req \notin purging
  BY <1>1 DEF EmailInv, SendSound, RowSound, Terminal
<1>6. \A r \in sends' : SendSound(r)'
  BY <1>1, <1>2, <1>5, SendsStay
<1>7. KeysStay' /\ \A r1, r2 \in sends' : r1.req = r2.req => r1 = r2
  BY <1>2 DEF EmailInv, KeysStay
<1>8. QED BY <1>3, <1>4, <1>6, <1>7 DEF EmailInv

\* The key migration writes a key of the ring to an unfinished row.
LEMMA MigrateKeepsIt ==
  ASSUME EmailInv, RequestInv', NEW m \in rekeying, MigrateRow(m)
  PROVE  EmailInv'
<1> DEFINE p == m[1]
<1>1. /\ deliv \in [Requests -> Row] /\ p \in Requests /\ m[2] \in keyring /\ m[2] # NoKey
      /\ \A r \in sends : r \in Send /\ r.req \in Requests
  BY EmailInvUse DEF EmailInv, KeysStay, TypeOK
<1>2. /\ attempts' = attempts /\ sends' = sends /\ purging' = purging /\ keyring' = keyring
      /\ activeKey' = activeKey /\ rekeying' \subseteq rekeying
  BY DEF MigrateRow
<1>3. KeysStay' /\ \A r1, r2 \in sends' : r1.req = r2.req => r1 = r2
  BY <1>2 DEF EmailInv, KeysStay
<1>4. CASE deliv[p].status \notin Unfinished
  <2>1. deliv' = deliv
    BY <1>4 DEF MigrateRow
  <2>2. QED BY <1>2, <1>3, <2>1, QuietSteps
<1>5. CASE deliv[p].status \in Unfinished
  <2>1. /\ deliv'[p] = [deliv[p] EXCEPT !.key = m[2]]
        /\ \A q \in Requests : q # p => deliv'[q] = deliv[q]
    BY <1>1, <1>5 DEF MigrateRow
  <2>2. /\ deliv'[p].status = deliv[p].status /\ deliv'[p].attempt = deliv[p].attempt
        /\ deliv'[p].age = deliv[p].age /\ deliv'[p].key = m[2]
    BY <1>1, <2>1 DEF Row
  <2>3. RowSound(p)'
    BY <1>1, <1>2, <1>5, <2>2 DEF EmailInv, RowSound
  <2>4. \A q \in Requests : q # p => RowSound(q)'
    BY <1>2, <2>1, RowStays DEF EmailInv
  <2>5. \A r \in sends' : SendSound(r)'
    BY <1>1, <1>2, <2>1, <2>2, SendsStay
  <2>6. QED BY <1>2, <1>3, <2>3, <2>4, <2>5 DEF EmailInv
<1>6. QED BY <1>4, <1>5

\* Time makes a send and its row older together.
LEMMA TickKeepsIt ==
  ASSUME PromptResults, EmailInv, RequestInv', Tick
  PROVE  EmailInv'
<1>1. /\ deliv \in [Requests -> Row]
      /\ \A r \in sends : r \in Send /\ r.req \in Requests
  BY EmailInvUse
<1>2. /\ attempts' = attempts /\ purging' = purging /\ keyring' = keyring
      /\ activeKey' = activeKey /\ rekeying' = rekeying
      /\ sends' = {[r EXCEPT !.age = @ + 1] : r \in sends}
      /\ \A r \in sends : r.age < SendBound
  BY DEF Tick, keyVars
<1>3. ASSUME NEW q \in Requests
      PROVE  /\ deliv'[q].status = deliv[q].status /\ deliv'[q].key = deliv[q].key
             /\ deliv'[q].attempt = deliv[q].attempt
             /\ deliv[q].status = "running" /\ deliv[q].age < StaleTimeout
                  => deliv'[q].age = deliv[q].age + 1
  <2>1. deliv'[q] = Older(deliv[q])
    BY DEF Tick
  <2>2. QED BY <1>1, <2>1, OlderEffect
<1>4. \A q \in Requests : RowSound(q)'
  BY <1>2, <1>3, RowStays DEF EmailInv
<1>5. ASSUME NEW r \in sends PROVE SendSound([r EXCEPT !.age = @ + 1])'
  <2> DEFINE s == [r EXCEPT !.age = @ + 1]
  <2>1. r \in Send /\ r.req \in Requests /\ r.age < SendBound /\ r.age \in Nat /\ SendSound(r)
    BY <1>1, <1>2 DEF EmailInv, Send
  <2>2. s.req = r.req /\ s.attempt = r.attempt /\ s.age = r.age + 1
    BY <2>1 DEF Send
  <2>3. r.age < StaleTimeout /\ r.age + 1 <= SendBound
    BY <2>1, EmailAssumption DEF PromptResults
  <2> HIDE DEF s
  <2>4. SendSound(s)'
    BY <1>3, <2>1, <2>2, <2>3 DEF SendSound
  <2>5. QED BY <2>4 DEF s
<1>6. \A r \in sends' : SendSound(r)'
  BY <1>2, <1>5
<1>7. \A r1, r2 \in sends' : r1.req = r2.req => r1 = r2
  <2>1. \A r \in sends : [r EXCEPT !.age = @ + 1].req = r.req
    BY <1>1 DEF Send
  <2>2. ASSUME NEW r1 \in sends', NEW r2 \in sends', r1.req = r2.req PROVE r1 = r2
    <3>1. PICK s1 \in sends : r1 = [s1 EXCEPT !.age = @ + 1]
      BY <1>2
    <3>2. PICK s2 \in sends : r2 = [s2 EXCEPT !.age = @ + 1]
      BY <1>2
    <3>3. s1 = s2
      BY <2>1, <2>2, <3>1, <3>2 DEF EmailInv
    <3>4. QED BY <3>1, <3>2, <3>3
  <2>3. QED BY <2>2
<1>8. KeysStay'
  BY <1>2 DEF EmailInv, KeysStay
<1>9. QED BY <1>4, <1>6, <1>7, <1>8 DEF EmailInv

-----------------------------------------------------------------------------
LEMMA EmailStep ==
  ASSUME PromptResults, EmailInv, [Next]_vars
  PROVE  EmailInv'
<1>1. RequestInv'
  BY RequestStep DEF EmailInv
<1>2. QED BY <1>1, QuietActions, RespondKeepsIt, InsertKeepsIt, ClaimKeepsIt, RecordKeepsIt,
             SettlingKeepsIt, DeleteKeepsIt, MigrateKeepsIt, TickKeepsIt, Zenon DEF Next

LEMMA EmailStarts == Init => EmailInv
<1>1. Init => /\ \A q \in Requests : deliv[q] = NoRow /\ attempts[q] = {}
              /\ sends = {} /\ purging = {} /\ rekeying = {} /\ activeKey \in keyring
  BY DEF Init
<1>2. QED BY <1>1, RequestInit DEF EmailInv, KeysStay, RowSound, NoRow, Unfinished

\* No two activations send one delivery, and a success on record is the
\* delivery's outcome, when workers record results before they are given up.
THEOREM AttemptsSound == ASSUME PromptResults PROVE Spec => []AttemptsAreSound
<1>1. EmailInv => AttemptsAreSound
  BY DEF EmailInv, RequestInv, TypeOK, RowSound, SendSound, AttemptsAreSound, OneRunningAttempt,
         SuccessIsFinal
<1>2. EmailInv /\ [Next]_vars => EmailInv'
  BY EmailStep
<1>3. QED BY <1>1, <1>2, EmailStarts, PTL DEF Spec

\* An unfinished delivery has its content, under a key the worker has, and a
\* settled one has lost it.
THEOREM ContentSound == ASSUME PromptResults PROVE Spec => []ContentIsSound
<1>1. EmailInv => ContentIsSound
  BY DEF EmailInv, RequestInv, RowSound, ContentIsSound, ContentKeptWhileNeeded, UnfinishedIsReadable
<1>2. EmailInv /\ [Next]_vars => EmailInv'
  BY EmailStep
<1>3. QED BY <1>1, <1>2, EmailStarts, PTL DEF Spec

\* What a step may do to the outcome of a delivery.
OutcomeStays(q) ==
  /\ deliv[q].status \in Terminal => deliv'[q].status \in {deliv[q].status, "none"}
  /\ deliv[q].status \in Unfinished => deliv'[q].status # "none"

\* A result settles the running row of its own attempt; recovery and cancellation
\* take unfinished rows; clean-up takes settled ones.
LEMMA OutcomesStep ==
  ASSUME EmailInv, [Next]_vars, NEW q \in Requests
  PROVE  OutcomeStays(q)
<1>1. /\ deliv \in [Requests -> Row] /\ purging \in SUBSET Requests /\ activeKey \in Keys
      /\ \A r \in sends : r \in Send /\ r.req \in Requests
      /\ calls \in SUBSET Call
  BY EmailInvUse DEF EmailInv, RequestInv, TypeOK
<1>2. ASSUME deliv'[q].status = deliv[q].status PROVE OutcomeStays(q)
  BY <1>1, <1>2 DEF OutcomeStays, Unfinished
<1>3. ASSUME NEW x \in calls, RequestInsert(x) PROVE OutcomeStays(q)
  <2>1. x.print \in Prints /\ x.req \in Requests
    BY <1>1 DEF Call
  <2>2. CASE q # x.req \/ deliv[x.req].status # "none"
    BY <1>1, <1>2, <1>3, <2>1, <2>2 DEF RequestInsert
  <2>3. CASE q = x.req /\ deliv[x.req].status = "none"
    BY <2>3 DEF OutcomeStays, Terminal, Unfinished
  <2>4. QED BY <2>2, <2>3
<1>4. ASSUME NEW w \in Workers, NEW claimed \in SUBSET Requests, ClaimReady(w, claimed)
      PROVE  OutcomeStays(q)
  <2>1. CASE q \notin claimed
    BY <1>1, <1>2, <1>4, <2>1 DEF ClaimReady
  <2>2. CASE q \in claimed
    <3>1. deliv[q].status = "pending" /\ deliv'[q].status = "running"
      BY <1>1, <1>4, <2>2 DEF ClaimReady, Claimable, Row
    <3>2. QED BY <3>1 DEF OutcomeStays, Terminal
  <2>3. QED BY <2>1, <2>2
<1>5. ASSUME NEW r \in sends, RecordAttempt(r) PROVE OutcomeStays(q)
  <2>1. deliv[r.req].status = "running" /\ r.req \in Requests
    BY <1>1 DEF EmailInv, SendSound
  <2>2. CASE q # r.req
    BY <1>1, <1>2, <1>5, <2>1, <2>2 DEF RecordAttempt
  <2>3. CASE q = r.req
    <3>1. deliv'[q] = Recorded(deliv[q], r)
      BY <1>1, <1>5, <2>1, <2>3 DEF RecordAttempt
    <3>2. deliv'[q].status \in {"succeeded", "failed", "pending"}
      BY <1>1, <3>1, RecordedEffect
    <3>3. QED BY <2>1, <2>3, <3>2 DEF OutcomeStays, Terminal
  <2>4. QED BY <2>2, <2>3
<1>6. CASE CancelDeletedUsers
  <2>1. deliv'[q] = deliv[q] \/ (deliv[q].status = "pending" /\ deliv'[q] = Settled(deliv[q], "canceled"))
    BY <1>6 DEF CancelDeletedUsers
  <2>2. Settled(deliv[q], "canceled").status = "canceled"
    BY <1>1, SettledEffect DEF Terminal
  <2>3. QED BY <1>2, <2>1, <2>2 DEF OutcomeStays, Terminal
<1>7. CASE RecoverStaleRunning
  <2>1. deliv'[q] = deliv[q] \/ (deliv[q].status = "running" /\ deliv'[q] = Recovered(deliv[q]))
    BY <1>7 DEF RecoverStaleRunning, Abandoned
  <2>2. Recovered(deliv[q]).status \in {"failed", "pending"}
    BY <1>1, RecoveredEffect
  <2>3. QED BY <1>2, <2>1, <2>2 DEF OutcomeStays, Terminal
<1>8. CASE CleanupDelete
  <2>1. deliv'[q] = deliv[q] \/ (q \in purging /\ deliv'[q] = NoRow)
    BY <1>1, <1>8 DEF CleanupDelete
  <2>2. q \in purging => deliv[q].status \notin Unfinished
    BY DEF EmailInv, RowSound, Terminal, Unfinished
  <2>3. QED BY <1>2, <2>1, <2>2 DEF OutcomeStays, NoRow
<1>9. ASSUME NEW m \in rekeying, MigrateRow(m) PROVE OutcomeStays(q)
  <2>1. deliv'[q].status = deliv[q].status
    BY <1>1, <1>9 DEF MigrateRow, Row
  <2>2. QED BY <1>2, <2>1
<1>10. CASE Tick
  <2>1. deliv'[q] = Older(deliv[q])
    BY <1>10 DEF Tick
  <2>2. QED BY <1>1, <1>2, <2>1, OlderEffect
<1>11. CASE \/ \E u \in Users, state \in {"enabled", "disabled", "deleted"} : SetUser(u, state)
            \/ \E c \in Callers, p \in Requests, print \in Prints : RequestLookup(c, p, print)
            \/ \E x \in calls : RequestCheck(x)
            \/ \E w \in Workers : LoseResults(w)
            \/ \E r \in sends, o \in Outcomes : Respond(r, o)
            \/ CleanupSelect \/ MigrateScan
            \/ \E k \in Keys : Rotate(k) \/ RemoveKey(k)
            \/ UNCHANGED vars
  <2>1. deliv' = deliv
    BY <1>11 DEF SetUser, RequestLookup, RequestCheck, LoseResults, Respond, CleanupSelect,
                 MigrateScan, Rotate, RemoveKey, vars
  <2>2. QED BY <1>2, <2>1
<1>12. QED BY <1>3, <1>4, <1>5, <1>6, <1>7, <1>8, <1>9, <1>10, <1>11, Zenon DEF Next

\* The outcome of a delivery is not changed any more.
THEOREM OutcomesKept == ASSUME PromptResults PROVE Spec => OutcomesStand
<1>1. EmailInv /\ [Next]_vars => [\A q \in Requests : OutcomeStays(q)]_vars
  BY OutcomesStep
<1>2. EmailInv /\ [Next]_vars => EmailInv'
  BY EmailStep
<1>3. Spec => [][\A q \in Requests : OutcomeStays(q)]_vars
  BY <1>1, <1>2, EmailStarts, PTL DEF Spec
<1>4. QED BY <1>3 DEF OutcomesStand, OutcomeStays

-----------------------------------------------------------------------------
(* The conversation with the mail server: SmtpDelivery.                     *)

\* The commands after TLS has been settled.
Settling == {"login", "username", "password", "from", "recipient", "data", "content",
             "message", "quit"}
ClearIsAllowed == smtp.local /\ ~smtp.secure /\ ~smtp.offersTls

\* What is unread is goodbyes, and at most one answer: to the command the client
\* waits for.
AnswersAreCurrent ==
  /\ owed => command \notin {None, "connect", "upgrade", "content"}
  /\ link = None => buffer = <<>>
  /\ \A i \in 1 .. Len(buffer) : buffer[i] # Transient =>
       /\ ~owed /\ command \notin {None, "connect", "upgrade", "content"}
       /\ command = "message" /\ buffer[i] = 250 => mail.attempt \in accepted
       /\ \A j \in 1 .. Len(buffer) : buffer[j] # Transient => i = j

\* An attempt under way has been counted; between attempts one is left, and
\* what the server accepted before is doubtful.
AttemptsAreCounted ==
  /\ command # None <=> mail.status = "running"
  /\ mail.status = "running" => mail.attempt > 0
  /\ mail.status = "pending" => mail.attempt < MaxSends
  /\ mail.status \in {"pending", "failed"} => accepted \subseteq doubtful
  /\ command = "quit" => mail.attempt \in accepted

\* Nothing but the greetings is said before TLS is settled.
TlsIsSettled ==
  /\ link = "plain" => ~smtp.secure
  /\ command \notin {None, "connect"} <=> link # None
  /\ command \in {"greeting", "hello"} /\ smtp.secure => link = "tls"
  /\ command = "helloAgain" => link = "tls"
  /\ command \in Settling => link = "tls" \/ ClearIsAllowed

ErrorCodes == {"OK", "SMTP_TRANSIENT_RESPONSE", "SMTP_PERMANENT_RESPONSE", "SMTP_TIMEOUT",
               "SMTP_STARTTLS_REQUIRED", "SMTP_TLS_VALIDATION_FAILED", "SMTP_NETWORK_ERROR",
               "SMTP_PROTOCOL_ERROR", "CONTENT_DECRYPTION_FAILED", "EMAIL_DELIVERY_WORKER_TIMEOUT"}
MailErrors == [code : ErrorCodes, retryable : BOOLEAN]
MailRow == [attempt : Nat, status : {"pending", "running", "succeeded", "failed"},
            error : MailErrors]
SmtpRow == [secure : BOOLEAN, local : BOOLEAN, credentials : BOOLEAN, offersTls : BOOLEAN]

SmtpInv ==
  /\ smtp \in SmtpRow /\ mail \in MailRow
  /\ MailIsSound
  /\ AnswersAreCurrent /\ AttemptsAreCounted /\ TlsIsSettled

\* The codes of the answers.
LEMMA CodesAre ==
  /\ \A c \in Commands : Expected(c) \subseteq Codes
  /\ Transient \in Codes /\ Permanent \in Codes /\ Codes \subseteq Nat
  /\ \A c : Transient \notin Expected(c)
  /\ \A c : IsExpected(c, 250) \/ ~IsExpected(c, 250)
  /\ \A code : IsExpected("message", code) <=> code = 250
<1>1. Transient = 421 /\ Permanent = 550
  BY DEF Transient, Permanent
<1>2. \A c : Expected(c) \subseteq {220, 334, 235, 250, 251, 354, 221}
  BY DEF Expected
<1>3. Codes \subseteq Nat
  <2>1. {220, 334, 235, 250, 251, 354, 221} \subseteq Nat
    OBVIOUS
  <2>2. \A n \in Codes : n \in {220, 334, 235, 250, 251, 354, 221} \cup {421, 550}
    BY <1>1, <1>2 DEF Codes
  <2>3. QED BY <2>1, <2>2
<1>4. Expected("message") = {250}
  BY DEF Expected
<1>5. QED BY <1>1, <1>2, <1>3, <1>4 DEF Codes, IsExpected

\* Every command but the last has one after it, and the message travels only
\* after TLS has been settled.
LEMMA FollowingIs ==
  ASSUME NEW c \in {"greeting", "hello", "starttls", "helloAgain", "login", "username",
                    "password", "from", "recipient", "data", "message"}
  PROVE  /\ Following(c) \in Commands
         /\ Following(c) \notin {"connect", "greeting"}
         /\ Following(c) = "quit" => c = "message"
         /\ c \in Settling => Following(c) \in Settling
         /\ c = "helloAgain" => Following(c) \in Settling
         /\ c = "greeting" => Following(c) = "hello"
         /\ c = "starttls" => Following(c) = "upgrade"
         /\ c = "hello" => IF ~smtp.secure /\ smtp.offersTls THEN Following(c) = "starttls"
                           ELSE Following(c) \in {"login", "from"}
         /\ Following(c) # "helloAgain" /\ Following(c) # "message"
         /\ Following(c) = "hello" => c = "greeting"
BY DEF Following, AfterHello, Commands, Settling

\* An error has the code and the retry it is given.
LEMMA FailureIs ==
  ASSUME NEW c \in ErrorCodes, NEW b \in BOOLEAN
  PROVE  /\ Failure(c, b) \in MailErrors
         /\ Failure(c, b).code = c /\ Failure(c, b).retryable = b
BY DEF Failure, MailErrors

\* What is true between attempts: nobody waits, and nothing is connected.
LEMMA EndsSafe ==
  ASSUME SmtpInv, command # None, NEW error \in MailErrors,
         error.code = "OK" => command = "quit",
         error.code = "OK" => ~error.retryable,
         Ends(error)
  PROVE  SmtpInv'
<1> USE SmtpAssumption DEF SmtpInv, MailIsSound
<1>1. /\ command' = None /\ link' = None /\ buffer' = <<>> /\ owed' = FALSE
      /\ UNCHANGED <<smtp, accepted, clear>>
  BY DEF Ends
<1>2. /\ mail.attempt \in Nat /\ mail.attempt > 0 /\ mail.attempt <= MaxSends
      /\ mail.status = "running"
  BY DEF AttemptsAreCounted, SmtpTypeOK, MailRow
<1>3. mail'.attempt = mail.attempt /\ mail'.error = error /\ mail' \in MailRow
      /\ mail'.status = CASE error.code = "OK" -> "succeeded"
                          [] error.retryable /\ mail.attempt < MaxSends -> "pending"
                          [] OTHER -> "failed"
  BY DEF Ends, MailRow
<1>4. /\ error.code = "OK" => doubtful' = doubtful /\ mail'.status = "succeeded"
      /\ error.code # "OK" => /\ doubtful' = doubtful \cup (accepted \cap {mail.attempt})
                              /\ mail'.status \in {"pending", "failed"}
  BY <1>3 DEF Ends
<1>5. accepted \subseteq 1 .. MaxSends /\ doubtful \subseteq accepted /\ doubtful' \subseteq accepted
  BY <1>4 DEF SmtpTypeOK
<1>6. \A a \in accepted : a \in doubtful \/ a = mail.attempt
  BY DEF DuplicatesAreDoubtful
<1>7. error.code # "OK" => accepted \subseteq doubtful'
  BY <1>4, <1>6
<1>8. SmtpTypeOK'
  <2>1. buffer' \in Seq(Codes)
    BY <1>1
  <2>2. QED BY <1>1, <1>2, <1>3, <1>5, <2>1 DEF SmtpTypeOK, MailRow
<1>9. SuccessIsAccepted' /\ DuplicatesAreDoubtful'
  BY <1>1, <1>3, <1>4, <1>6, <1>7 DEF SuccessIsAccepted, DuplicatesAreDoubtful, AttemptsAreCounted
<1>10. GivenUpIsFinal' /\ NothingInTheClear'
  <2>1. mail'.status = "failed" => mail'.attempt = MaxSends \/ ~mail'.error.retryable
    BY <1>2, <1>3
  <2>2. QED BY <1>1, <2>1 DEF GivenUpIsFinal, NothingInTheClear
<1>11. AnswersAreCurrent'
  BY <1>1 DEF AnswersAreCurrent
<1>12. AttemptsAreCounted'
  <2>1. mail'.status = "pending" => mail'.attempt < MaxSends
    BY <1>3
  <2>2. mail'.status \in {"pending", "failed"} => accepted' \subseteq doubtful'
    BY <1>1, <1>3, <1>4, <1>7
  <2>3. mail'.status # "running" /\ command' = None /\ command' # "quit"
    BY <1>1, <1>3 DEF None
  <2>4. QED BY <2>1, <2>2, <2>3 DEF AttemptsAreCounted
<1>13. TlsIsSettled'
  BY <1>1 DEF TlsIsSettled, None, Settling
<1>14. QED BY <1>1, <1>3, <1>8, <1>9, <1>10, <1>11, <1>12, <1>13

\* A command is sent once the answer to the one before it, or nothing, was awaited:
\* the buffer holds goodbyes only.
LEMMA SendsSafe ==
  ASSUME SmtpInv, command # None, NEW c \in Commands \ {"connect", "greeting"}, Sends(c),
         UNCHANGED <<smtp, mail, accepted, doubtful>>, link' \in {link, "tls"}, link # None,
         buffer' \in Seq(Codes), \A i \in 1 .. Len(buffer') : buffer'[i] = Transient,
         c = "quit" => mail.attempt \in accepted,
         c = "helloAgain" => link' = "tls",
         c = "hello" /\ smtp.secure => link' = "tls",
         c \in Settling => link = "tls" \/ ClearIsAllowed
  PROVE  SmtpInv'
<1> USE SmtpAssumption DEF SmtpInv, MailIsSound
<1>1. command' = c /\ owed' = (c \notin {"upgrade", "content"})
      /\ clear' = clear \cup SentInClear(c)
  BY DEF Sends
<1>2. link' \in {"plain", "tls"}
  BY DEF SmtpTypeOK
<1>3. c # None /\ c # "connect"
  BY DEF Commands, None
<1>4. SmtpTypeOK'
  BY <1>1, <1>2 DEF SmtpTypeOK
<1>5. SuccessIsAccepted' /\ DuplicatesAreDoubtful' /\ GivenUpIsFinal'
  BY DEF SuccessIsAccepted, DuplicatesAreDoubtful, GivenUpIsFinal
<1>6. NothingInTheClear'
  <2>1. SentInClear(c) # {} => ClearIsAllowed
    <3>1. SentInClear(c) # {} => link = "plain" /\ c \in Settling
      BY DEF SentInClear, Secrets, Settling
    <3>2. QED BY <3>1
  <2>2. QED BY <1>1, <2>1 DEF NothingInTheClear, ClearIsAllowed
<1>7. AnswersAreCurrent'
  <2>1. link' # None
    BY <1>2 DEF None
  <2>2. owed' => command' \notin {None, "connect", "upgrade", "content"}
    BY <1>1, <1>3
  <2>3. QED BY <2>1, <2>2 DEF AnswersAreCurrent
<1>8. AttemptsAreCounted'
  BY <1>1, <1>3 DEF AttemptsAreCounted
<1>9. TlsIsSettled'
  <2>1. link' = "plain" => link = "plain"
    BY <1>2
  <2>2. link = "tls" => link' = "tls"
    OBVIOUS
  <2>3. link' # None /\ command' \notin {None, "connect"}
    BY <1>1, <1>2, <1>3 DEF None
  <2>4. command' # "greeting"
    BY <1>1
  <2>5. (command' \notin {None, "connect"}) <=> link' # None
    BY <2>3
  <2>6. (link' = "plain" => ~smtp'.secure) /\ (command' = "helloAgain" => link' = "tls")
    BY <1>1, <2>1 DEF TlsIsSettled
  <2>7. /\ command' \in {"greeting", "hello"} /\ smtp'.secure => link' = "tls"
        /\ command' \in Settling => link' = "tls" \/ ClearIsAllowed'
    BY <1>1, <2>2, <2>4 DEF ClearIsAllowed
  <2>8. QED BY <2>5, <2>6, <2>7 DEF TlsIsSettled
<1>10. QED BY <1>4, <1>5, <1>6, <1>7, <1>8, <1>9

\* An answer that is taken for the command's is the command's: what follows it
\* in the buffer is goodbyes.
LEMMA ReadSafe ==
  ASSUME SmtpInv, ReadAnswer
  PROVE  SmtpInv'
<1> USE DEF SmtpInv
<1> DEFINE code == Head(buffer)
<1>1. /\ command \notin {None, "connect", "upgrade", "content"} /\ buffer # <<>>
      /\ buffer \in Seq(Codes)
  BY DEF ReadAnswer, MailIsSound, SmtpTypeOK
<1>2. code = buffer[1] /\ 1 \in 1 .. Len(buffer) /\ code \in Codes
  BY <1>1
<1>3. CASE ~IsExpected(command, code)
  <2>1. Ends(ResponseError(code))
    BY <1>3 DEF ReadAnswer
  <2>2. /\ ResponseError(code) \in MailErrors /\ ResponseError(code).code # "OK"
    <3>1. CASE code \in 400 .. 499
      <4>1. ResponseError(code) = Failure("SMTP_TRANSIENT_RESPONSE", TRUE)
        BY <3>1 DEF ResponseError
      <4>2. QED BY <4>1, FailureIs DEF ErrorCodes
    <3>2. CASE code \notin 400 .. 499
      <4>1. (code \in 400 .. 499) = FALSE
        BY <3>2
      <4>2. ResponseError(code) = Failure("SMTP_PERMANENT_RESPONSE", code \in 400 .. 499)
        BY <3>2 DEF ResponseError
      <4>3. ResponseError(code) = Failure("SMTP_PERMANENT_RESPONSE", FALSE)
        BY <4>1, <4>2
      <4>4. /\ Failure("SMTP_PERMANENT_RESPONSE", FALSE) \in MailErrors
            /\ Failure("SMTP_PERMANENT_RESPONSE", FALSE).code = "SMTP_PERMANENT_RESPONSE"
        BY FailureIs DEF ErrorCodes
      <4>5. QED BY <4>3, <4>4
    <3>3. QED BY <3>1, <3>2
  <2>3. QED BY <1>1, <2>1, <2>2, EndsSafe
<1>4. CASE IsExpected(command, code) /\ command = "quit"
  <2>1. Ends(Fine)
    BY <1>4 DEF ReadAnswer
  <2>2. Fine \in MailErrors /\ ~Fine.retryable
    <3>1. Fine = Failure("OK", FALSE)
      BY DEF Fine, Failure
    <3>2. QED BY <3>1, FailureIs DEF ErrorCodes
  <2>3. QED BY <1>1, <1>4, <2>1, <2>2, EndsSafe
<1>5. CASE IsExpected(command, code) /\ command = "hello" /\ TlsIsMissing
  <2>1. Ends(Failure("SMTP_STARTTLS_REQUIRED", FALSE))
    BY <1>5 DEF ReadAnswer
  <2>2. /\ Failure("SMTP_STARTTLS_REQUIRED", FALSE) \in MailErrors
        /\ Failure("SMTP_STARTTLS_REQUIRED", FALSE).code # "OK"
    BY FailureIs DEF ErrorCodes
  <2>3. QED BY <1>1, <2>1, <2>2, EndsSafe
<1>6. CASE IsExpected(command, code) /\ command # "quit" /\ ~(command = "hello" /\ TlsIsMissing)
  <2>1. /\ buffer' = Tail(buffer) /\ Sends(Following(command))
        /\ UNCHANGED <<smtp, mail, link, accepted, doubtful>>
    BY <1>6 DEF ReadAnswer
  <2>2. command \in {"greeting", "hello", "starttls", "helloAgain", "login", "username",
                     "password", "from", "recipient", "data", "message"}
    BY <1>1, <1>6 DEF MailIsSound, SmtpTypeOK, Commands
  <2>3. code # Transient
    BY <1>6, CodesAre DEF IsExpected
  <2>4. buffer' \in Seq(Codes) /\ \A i \in 1 .. Len(buffer') : buffer'[i] = Transient
    <3>1. /\ buffer' \in Seq(Codes) /\ Len(buffer') = Len(buffer) - 1 /\ Len(buffer) \in Nat
          /\ \A i \in 1 .. Len(buffer') : buffer'[i] = buffer[i + 1]
      BY <1>1, <2>1
    <3>2. \A i \in 1 .. Len(buffer') : i + 1 \in 1 .. Len(buffer) /\ i + 1 # 1
      BY <3>1
    <3>3. QED BY <1>2, <2>3, <3>1, <3>2 DEF AnswersAreCurrent
  <2>5. Following(command) = "quit" => mail.attempt \in accepted
    <3>1. command = "message" => code = 250
      BY <1>6, CodesAre
    <3>2. command = "message" => mail.attempt \in accepted
      BY <1>2, <2>3, <3>1 DEF AnswersAreCurrent
    <3>3. QED BY <2>2, <3>2, FollowingIs
  <2>6. link # None
    <3>1. command \notin {None, "connect"}
      BY <1>1
    <3>2. QED BY <3>1 DEF TlsIsSettled
  <2>7. Following(command) \in Settling => link = "tls" \/ ClearIsAllowed
    <3>1. CASE command = "hello"
      BY <1>6, <2>2, <2>6, <3>1, FollowingIs
      DEF TlsIsSettled, TlsIsMissing, ClearIsAllowed, MailIsSound, SmtpTypeOK, SmtpRow, Settling
    <3>2. CASE command # "hello"
      BY <2>2, <3>2, FollowingIs DEF TlsIsSettled, Settling
    <3>3. QED BY <3>1, <3>2
  <2>8. /\ Following(command) \in Commands \ {"connect", "greeting"}
        /\ Following(command) # "helloAgain"
        /\ Following(command) = "hello" /\ smtp.secure => link = "tls"
    BY <2>2, FollowingIs DEF TlsIsSettled
  <2>9. QED BY <1>1, <2>1, <2>4, <2>5, <2>6, <2>7, <2>8, SendsSafe
<1>7. QED BY <1>3, <1>4, <1>5, <1>6

\* Claimed: the attempt is counted, and nothing of an earlier one is left.
LEMMA BeginSafe ==
  ASSUME SmtpInv, NEW decrypts \in BOOLEAN, BeginSend(decrypts)
  PROVE  SmtpInv'
<1> USE SmtpAssumption DEF SmtpInv, MailIsSound
<1>1. /\ mail.status = "pending" /\ command = None /\ link = None /\ buffer = <<>> /\ ~owed
      /\ mail.attempt \in Nat /\ mail.attempt < MaxSends /\ accepted \subseteq doubtful
  BY DEF BeginSend, AttemptsAreCounted, AnswersAreCurrent, TlsIsSettled, MailRow
<1>2. /\ UNCHANGED <<smtp, owed, link, buffer, accepted, doubtful, clear>>
      /\ command' = IF decrypts THEN "connect" ELSE None
      /\ mail'.attempt = mail.attempt + 1
      /\ mail'.status = IF decrypts THEN "running" ELSE "failed"
      /\ ~decrypts => mail'.error = Failure("CONTENT_DECRYPTION_FAILED", FALSE)
  BY DEF BeginSend, MailRow
<1>3. mail' \in MailRow /\ (mail'.status = "failed" => ~mail'.error.retryable)
  <2>1. /\ Failure("CONTENT_DECRYPTION_FAILED", FALSE) \in MailErrors
        /\ ~Failure("CONTENT_DECRYPTION_FAILED", FALSE).retryable
    BY FailureIs DEF ErrorCodes
  <2>2. mail'.attempt \in Nat /\ mail'.status \in {"running", "failed"}
    BY <1>1, <1>2
  <2>3. mail'.error \in MailErrors
    BY <1>2, <2>1 DEF BeginSend, MailRow
  <2>4. mail' = [attempt |-> mail'.attempt, status |-> mail'.status, error |-> mail'.error]
    BY DEF BeginSend, MailRow
  <2>5. mail' \in MailRow
    BY <2>2, <2>3, <2>4 DEF MailRow
  <2>6. QED BY <1>2, <2>1, <2>5
<1>4. /\ command' \in {None, "connect"} /\ (command' = None <=> ~decrypts)
      /\ (decrypts => mail'.status = "running") /\ (~decrypts => mail'.status = "failed")
  BY <1>2 DEF None
<1>5. SmtpTypeOK'
  BY <1>1, <1>2, <1>4 DEF SmtpTypeOK, Commands, None
<1>6. SuccessIsAccepted' /\ DuplicatesAreDoubtful' /\ GivenUpIsFinal' /\ NothingInTheClear'
  BY <1>1, <1>2, <1>3, <1>4
  DEF SuccessIsAccepted, DuplicatesAreDoubtful, GivenUpIsFinal, NothingInTheClear
<1>7. AnswersAreCurrent'
  BY <1>1, <1>2 DEF AnswersAreCurrent
<1>8. AttemptsAreCounted'
  BY <1>1, <1>2, <1>4 DEF AttemptsAreCounted, None
<1>9. TlsIsSettled'
  BY <1>1, <1>2, <1>4 DEF TlsIsSettled, None, Settling
<1>10. QED BY <1>2, <1>3, <1>5, <1>6, <1>7, <1>8, <1>9

\* The connection stands, and the server's greeting is awaited.
LEMMA ConnectedSafe ==
  ASSUME SmtpInv, Connected
  PROVE  SmtpInv'
<1> USE SmtpAssumption DEF SmtpInv, MailIsSound
<1>1. /\ command = "connect" /\ command' = "greeting" /\ owed' = TRUE
      /\ UNCHANGED <<smtp, mail, buffer, accepted, doubtful, clear>>
      /\ link' = IF smtp.secure THEN "tls" ELSE "plain"
  BY DEF Connected
<1>2. link' \in {"plain", "tls"} /\ (link' = "plain" => ~smtp.secure) /\ (smtp.secure => link' = "tls")
  BY <1>1
<1>3. link = None /\ buffer = <<>>
  <2>1. ~(command \notin {None, "connect"})
    BY <1>1
  <2>2. QED BY <2>1 DEF TlsIsSettled, AnswersAreCurrent
<1>4. SmtpTypeOK' /\ SuccessIsAccepted' /\ DuplicatesAreDoubtful' /\ GivenUpIsFinal'
      /\ NothingInTheClear'
  BY <1>1, <1>2
  DEF SmtpTypeOK, SuccessIsAccepted, DuplicatesAreDoubtful, GivenUpIsFinal, NothingInTheClear, Commands
<1>5. AnswersAreCurrent'
  <2>1. link' # None /\ command' \notin {None, "connect", "upgrade", "content"}
    BY <1>1, <1>2 DEF None
  <2>2. QED BY <1>1, <1>3, <2>1 DEF AnswersAreCurrent
<1>6. AttemptsAreCounted'
  BY <1>1 DEF AttemptsAreCounted, None
<1>7. TlsIsSettled'
  <2>1. (command' \notin {None, "connect"}) <=> link' # None
    BY <1>1, <1>2 DEF None
  <2>2. command' # "helloAgain" /\ command' \notin Settling
    BY <1>1 DEF Settling
  <2>3. QED BY <1>1, <1>2, <2>1, <2>2 DEF TlsIsSettled
<1>8. QED BY <1>1, <1>4, <1>5, <1>6, <1>7

\* The one answer to the command is added to goodbyes.
LEMMA AnswersSafe ==
  ASSUME SmtpInv, NEW code \in Codes, Answers(code)
  PROVE  SmtpInv'
<1> USE SmtpAssumption DEF SmtpInv, MailIsSound
<1>1. /\ owed /\ ~owed' /\ buffer' = Append(buffer, code)
      /\ UNCHANGED <<smtp, mail, command, link, doubtful, clear>>
      /\ accepted' = IF command = "message" /\ code = 250 THEN accepted \cup {mail.attempt}
                     ELSE accepted
  BY DEF Answers
<1>2. /\ command \notin {None, "connect", "upgrade", "content"} /\ buffer \in Seq(Codes)
      /\ mail.status = "running" /\ mail.attempt \in 1 .. MaxSends
  BY <1>1 DEF AnswersAreCurrent, AttemptsAreCounted, SmtpTypeOK, MailRow
<1>3. \A i \in 1 .. Len(buffer) : buffer[i] = Transient
  BY <1>1 DEF AnswersAreCurrent
<1>4. accepted \subseteq accepted' /\ accepted' \subseteq accepted \cup {mail.attempt}
  BY <1>1
<1>5. SmtpTypeOK'
  <2>1. buffer' \in Seq(Codes)
    BY <1>1, <1>2
  <2>2. accepted \subseteq 1 .. MaxSends /\ doubtful \subseteq accepted
    BY DEF SmtpTypeOK
  <2>3. accepted' \subseteq 1 .. MaxSends /\ doubtful' \subseteq accepted'
    <3>1. mail.attempt \in 1 .. MaxSends /\ doubtful' = doubtful
      BY <1>1, <1>2
    <3>2. accepted' \subseteq 1 .. MaxSends
      BY <1>4, <2>2, <3>1
    <3>3. QED BY <1>4, <2>2, <3>1, <3>2
  <2>4. owed' \in BOOLEAN
    BY DEF Answers
  <2>5. /\ mail'.attempt \in 0 .. MaxSends /\ command' \in Commands \cup {None}
        /\ mail'.status \in {"pending", "running", "succeeded", "failed"}
        /\ link' \in {None, "plain", "tls"}
    BY <1>1 DEF SmtpTypeOK
  <2>6. QED BY <2>1, <2>3, <2>4, <2>5 DEF SmtpTypeOK
<1>6. SuccessIsAccepted' /\ DuplicatesAreDoubtful' /\ GivenUpIsFinal' /\ NothingInTheClear'
  BY <1>1, <1>4
  DEF SuccessIsAccepted, DuplicatesAreDoubtful, GivenUpIsFinal, NothingInTheClear
<1>7. AnswersAreCurrent'
  <2>1. /\ Len(buffer') = Len(buffer) + 1 /\ Len(buffer) \in Nat
        /\ buffer'[Len(buffer) + 1] = code
        /\ \A i \in 1 .. Len(buffer) : buffer'[i] = buffer[i]
    BY <1>1, <1>2
  <2>2. \A i \in 1 .. Len(buffer') : i \in 1 .. Len(buffer) \/ i = Len(buffer) + 1
    BY <2>1
  <2>3. \A i \in 1 .. Len(buffer') : buffer'[i] # Transient => i = Len(buffer) + 1
    BY <1>3, <2>1, <2>2
  <2>4. command = "message" /\ code = 250 => mail.attempt \in accepted'
    BY <1>1
  <2>5. link # None
    <3>1. command \notin {None, "connect"}
      BY <1>2
    <3>2. QED BY <3>1 DEF TlsIsSettled
  <2>6. QED BY <1>1, <1>2, <2>1, <2>3, <2>4, <2>5 DEF AnswersAreCurrent
<1>8. AttemptsAreCounted'
  BY <1>1, <1>2, <1>4 DEF AttemptsAreCounted
<1>9. TlsIsSettled'
  BY <1>1 DEF TlsIsSettled, ClearIsAllowed
<1>10. QED BY <1>1, <1>5, <1>6, <1>7, <1>8, <1>9

\* A goodbye answers nothing.
LEMMA GoodbyeSafe ==
  ASSUME SmtpInv, SaysGoodbye
  PROVE  SmtpInv'
<1> USE DEF SmtpInv, MailIsSound
<1>1. /\ link # None /\ ~owed /\ buffer' = Append(buffer, Transient)
      /\ UNCHANGED <<smtp, mail, command, owed, link, accepted, doubtful, clear>>
  BY DEF SaysGoodbye
<1>2. buffer \in Seq(Codes) /\ buffer' \in Seq(Codes)
  <2>1. buffer \in Seq(Codes) /\ Transient \in Codes
    BY CodesAre DEF SmtpTypeOK
  <2>2. QED BY <1>1, <2>1
<1>3. /\ Len(buffer') = Len(buffer) + 1 /\ Len(buffer) \in Nat
      /\ buffer'[Len(buffer) + 1] = Transient
      /\ \A i \in 1 .. Len(buffer) : buffer'[i] = buffer[i]
  BY <1>1, <1>2
<1>4. \A i \in 1 .. Len(buffer') : buffer'[i] # Transient => i \in 1 .. Len(buffer)
  BY <1>3
<1>5. AnswersAreCurrent'
  BY <1>1, <1>3, <1>4 DEF AnswersAreCurrent
<1>6. MailIsSound'
  BY <1>1, <1>2
  DEF SmtpTypeOK, SuccessIsAccepted, DuplicatesAreDoubtful, GivenUpIsFinal, NothingInTheClear
<1>7. AttemptsAreCounted' /\ TlsIsSettled'
  BY <1>1 DEF AttemptsAreCounted, TlsIsSettled, ClearIsAllowed
<1>8. QED BY <1>1, <1>5, <1>6, <1>7

\* Nothing but goodbyes is unread while TLS is negotiated or the message written.
LEMMA UpgradedSafe ==
  ASSUME SmtpInv, Upgraded \/ Written
  PROVE  SmtpInv'
<1> USE DEF SmtpInv
<1>1. /\ command \in {"upgrade", "content"} /\ command # None /\ buffer \in Seq(Codes)
      /\ UNCHANGED <<smtp, mail, buffer, accepted, doubtful>>
  BY DEF Upgraded, Written, None, MailIsSound, SmtpTypeOK
<1>2. \A i \in 1 .. Len(buffer) : buffer[i] = Transient
  BY <1>1 DEF AnswersAreCurrent
<1>3. link # None
  <2>1. command \notin {None, "connect"}
    BY <1>1 DEF None
  <2>2. QED BY <2>1 DEF TlsIsSettled
<1>4. CASE Upgraded
  <2>1. Sends("helloAgain") /\ link' = "tls"
    BY <1>4 DEF Upgraded
  <2>2. "helloAgain" \in Commands \ {"connect", "greeting"} /\ "helloAgain" \notin Settling
    BY DEF Commands, Settling
  <2>3. QED BY <1>1, <1>2, <1>3, <2>1, <2>2, SendsSafe
<1>5. CASE Written
  <2>1. Sends("message") /\ link' = link /\ command = "content"
    BY <1>5 DEF Written
  <2>2. "message" \in Commands \ {"connect", "greeting"} /\ command \in Settling
    BY <2>1 DEF Commands, Settling
  <2>3. link = "tls" \/ ClearIsAllowed
    BY <2>2 DEF TlsIsSettled
  <2>4. QED BY <1>1, <1>2, <1>3, <2>1, <2>2, <2>3, SendsSafe
<1>6. QED BY <1>4, <1>5

\* A timeout and a failed connection end the attempt like an answer that is refused.
LEMMA FailsSafe ==
  ASSUME SmtpInv, TimesOut \/ \E error \in SocketErrors : Fails(error)
  PROVE  SmtpInv'
<1>1. CASE TimesOut
  <2>1. command # None /\ Ends(TimeoutError(command))
    BY <1>1 DEF TimesOut
  <2>2. TimeoutError(command) = Failure("SMTP_TIMEOUT", command # "upgrade")
    BY DEF TimeoutError
  <2>3. TimeoutError(command) \in MailErrors /\ TimeoutError(command).code = "SMTP_TIMEOUT"
    BY <2>2, FailureIs DEF ErrorCodes
  <2>4. QED BY <2>1, <2>3, EndsSafe
<1>2. CASE \E error \in SocketErrors : Fails(error)
  <2>1. PICK error \in SocketErrors : Fails(error)
    BY <1>2
  <2>2. command # None /\ Ends(error)
    BY <2>1 DEF Fails
  <2>3. error \in MailErrors /\ error.code # "OK"
    BY <2>1, FailureIs DEF SocketErrors, ErrorCodes
  <2>4. QED BY <2>2, <2>3, EndsSafe
<1>3. QED BY <1>1, <1>2

\* A claim that is given up is a failure that may be tried again.
LEMMA ExitsSafe ==
  ASSUME SmtpInv, Exits
  PROVE  SmtpInv'
<1> USE SmtpAssumption DEF SmtpInv, MailIsSound
<1>1. /\ command # None /\ command' = None /\ link' = None /\ buffer' = <<>> /\ owed' = FALSE
      /\ UNCHANGED <<smtp, accepted, clear>>
      /\ doubtful' = doubtful \cup (accepted \cap {mail.attempt})
  BY DEF Exits
<1>2. /\ mail.attempt \in Nat /\ mail.attempt > 0 /\ mail.attempt <= MaxSends
  BY <1>1 DEF AttemptsAreCounted, SmtpTypeOK, MailRow
<1>3. /\ Failure("EMAIL_DELIVERY_WORKER_TIMEOUT", TRUE) \in MailErrors
      /\ mail'.error = Failure("EMAIL_DELIVERY_WORKER_TIMEOUT", TRUE)
      /\ mail'.attempt = mail.attempt
      /\ mail'.status = IF mail.attempt < MaxSends THEN "pending" ELSE "failed"
  BY FailureIs DEF ErrorCodes, Exits, MailRow
<1>4. mail' \in MailRow
  <2>1. mail' = [attempt |-> mail'.attempt, status |-> mail'.status, error |-> mail'.error]
    BY DEF Exits, MailRow
  <2>2. mail'.status \in {"pending", "failed"}
    BY <1>3
  <2>3. QED BY <1>2, <1>3, <2>1, <2>2 DEF MailRow
<1>5. accepted' \subseteq doubtful' /\ doubtful' \subseteq accepted' /\ accepted' \subseteq 1 .. MaxSends
  BY <1>1 DEF SmtpTypeOK, DuplicatesAreDoubtful
<1>6. SmtpTypeOK'
  <2>1. buffer' \in Seq(Codes)
    BY <1>1
  <2>2. QED BY <1>1, <1>2, <1>3, <1>5, <2>1 DEF SmtpTypeOK
<1>7. /\ mail'.status \in {"pending", "failed"}
      /\ mail'.status = "pending" => mail'.attempt < MaxSends
      /\ mail'.status = "failed" => mail'.attempt = MaxSends
  BY <1>2, <1>3
<1>8. SuccessIsAccepted' /\ DuplicatesAreDoubtful' /\ GivenUpIsFinal' /\ NothingInTheClear'
  BY <1>1, <1>5, <1>7
  DEF SuccessIsAccepted, DuplicatesAreDoubtful, GivenUpIsFinal, NothingInTheClear
<1>9. AnswersAreCurrent' /\ AttemptsAreCounted'
  BY <1>1, <1>5, <1>7 DEF AnswersAreCurrent, AttemptsAreCounted, None
<1>10. TlsIsSettled'
  BY <1>1 DEF TlsIsSettled, None, Settling
<1>11. QED BY <1>1, <1>4, <1>6, <1>8, <1>9, <1>10

\* A delivery waits for its first attempt.
LEMMA SmtpStarts == SmtpInit => SmtpInv
<1> SUFFICES ASSUME SmtpInit PROVE SmtpInv
  OBVIOUS
<1>1. /\ mail = [attempt |-> 0, status |-> "pending", error |-> Failure("OK", FALSE)]
      /\ command = None /\ link = None /\ buffer = <<>> /\ ~owed
      /\ accepted = {} /\ doubtful = {} /\ clear = {} /\ smtp \in SmtpRow
  BY DEF SmtpInit, Fine, Failure, SmtpRow
<1>2. mail \in MailRow
  BY <1>1, FailureIs DEF MailRow, ErrorCodes
<1>3. MailIsSound
  <2>1. buffer \in Seq(Codes) /\ owed \in BOOLEAN
    <3>1. <<>> \in Seq(Codes)
      OBVIOUS
    <3>2. owed = FALSE
      BY DEF SmtpInit
    <3>3. QED BY <1>1, <3>1, <3>2
  <2>2. mail.attempt \in 0 .. MaxSends
    BY <1>1, SmtpAssumption
  <2>3. SmtpTypeOK
    BY <1>1, <2>1, <2>2 DEF SmtpTypeOK
  <2>4. QED BY <1>1, <2>3
    DEF MailIsSound, SuccessIsAccepted, DuplicatesAreDoubtful, GivenUpIsFinal, NothingInTheClear
<1>4. AnswersAreCurrent /\ AttemptsAreCounted
  BY <1>1, SmtpAssumption DEF AnswersAreCurrent, AttemptsAreCounted, None, SmtpInit
<1>5. TlsIsSettled
  BY <1>1 DEF TlsIsSettled, None, Settling
<1>6. QED BY <1>1, <1>2, <1>3, <1>4, <1>5 DEF SmtpInv

\* Every step of the conversation keeps it.
LEMMA SmtpStep == SmtpInv /\ [SmtpNext]_smtpVars => SmtpInv'
<1> SUFFICES ASSUME SmtpInv, [SmtpNext]_smtpVars PROVE SmtpInv'
  OBVIOUS
<1>1. CASE UNCHANGED smtpVars
  BY <1>1
  DEF smtpVars, SmtpInv, MailIsSound, SmtpTypeOK, SuccessIsAccepted, DuplicatesAreDoubtful,
      GivenUpIsFinal, NothingInTheClear, AnswersAreCurrent, AttemptsAreCounted, TlsIsSettled,
      ClearIsAllowed
<1>2. CASE SmtpNext
  BY <1>2, BeginSafe, ConnectedSafe, AnswersSafe, GoodbyeSafe, ReadSafe, UpgradedSafe,
     FailsSafe, ExitsSafe
  DEF SmtpNext
<1>3. QED BY <1>1, <1>2

\* The conversation keeps its promises, whatever the server answers and when:
\* success is acceptance in that attempt, a second mail follows a doubtful one,
\* a delivery is given up for a reason, and nothing secret goes in the clear.
THEOREM MailHolds == SmtpSpec => []MailIsSound
<1>1. SmtpInv => MailIsSound
  BY DEF SmtpInv
<1>2. QED BY <1>1, SmtpStarts, SmtpStep, PTL DEF SmtpSpec
=============================================================================
