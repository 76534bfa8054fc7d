----------------------------- MODULE Notifications -----------------------------
(***************************************************************************)
(* In-app notifications: a request renders a template and enqueues a job,  *)
(* the worker writes one row per recipient, once or more often, and the    *)
(* recipients read, archive and delete their rows meanwhile.  A request    *)
(* that names no enabled template with its variables, or no recipient, is  *)
(* refused before it changes anything.  Texts are left out.                *)
(***************************************************************************)
EXTENDS Integers, Sequences, FiniteSets

CONSTANTS
  Recipients,
  RequestKeys,        \* keys callers give to their requests
  MaxRequests,        \* notifications requested
  MaxInboxRows        \* rows there can be

NoKey == "none"       \* NULL, which is equal to no other key

ASSUME NotificationsAssumption ==
  /\ NoKey \notin RequestKeys /\ IsFiniteSet(Recipients)
  /\ {MaxRequests, MaxInboxRows} \subseteq Nat

VARIABLES requests,   \* payloads of the dispatch jobs
          dispatched, \* jobs whose handler has committed
          inbox       \* the notifications table, by id

inboxVars == <<requests, dispatched, inbox>>

-----------------------------------------------------------------------------
NotificationsTypeOK ==
  /\ requests \in Seq([recipients : SUBSET Recipients, key : RequestKeys \cup {NoKey}])
  /\ Len(requests) <= MaxRequests
  /\ dispatched \subseteq 1 .. MaxRequests
  /\ inbox \in Seq([user : Recipients, key : RequestKeys \cup {NoKey}, request : 1 .. MaxRequests,
                    status : {"unread", "read", "archived", "deleted"}, isDeleted : BOOLEAN])
  /\ Len(inbox) <= MaxInboxRows

NotificationsInit ==
  /\ requests = <<>> /\ dispatched = {} /\ inbox = <<>>

-----------------------------------------------------------------------------
(* Requests and the worker.                                                 *)

\* The recipients are resolved and the text is rendered before the job is
\* enqueued.
RequestNotification(users, key) ==
  /\ users # {} /\ Len(requests) < MaxRequests
  /\ requests' = Append(requests, [recipients |-> users, key |-> key])
  /\ UNCHANGED <<dispatched, inbox>>

\* Mutant: a row its recipient has deleted is no conflict.
HasVisibleRow(rows, user, key) ==
  key # NoKey /\ \E i \in DOMAIN rows : rows[i].user = user /\ rows[i].key = key /\ ~rows[i].isDeleted

HasRow(rows, user, key) == key # NoKey /\ \E i \in DOMAIN rows : rows[i].user = user /\ rows[i].key = key
NewRow(n, user) == [user |-> user, key |-> requests[n].key, request |-> n, status |-> "unread",
                    isDeleted |-> FALSE]

\* ON CONFLICT (user_id, request_key) DO NOTHING
Inserted(rows, n, user) ==
  IF HasRow(rows, user, requests[n].key) THEN rows ELSE Append(rows, NewRow(n, user))

\* One transaction for all recipients; the queue may deliver the job again.
\* A handler that fails has written nothing.
Dispatch(n, order) ==
  LET after[i \in 0 .. Len(order)] ==
        IF i = 0 THEN inbox ELSE Inserted(after[i - 1], n, order[i])
  IN
  /\ n \in DOMAIN requests
  /\ Len(after[Len(order)]) <= MaxInboxRows
  /\ inbox' = after[Len(order)]
  /\ dispatched' = dispatched \cup {n}
  /\ UNCHANGED requests

Orders(users) ==
  {order \in [1 .. Cardinality(users) -> users] :
     \A i, j \in 1 .. Cardinality(users) : i # j => order[i] # order[j]}

-----------------------------------------------------------------------------
(* The recipients.                                                          *)

\* updateNotificationStatus: by the id alone, whatever the row's state is.
UpdateStatus(i, status) ==
  /\ i \in DOMAIN inbox
  /\ inbox' = [inbox EXCEPT ![i].status = status,
                            ![i].isDeleted = @ \/ status = "deleted"]
  /\ UNCHANGED <<requests, dispatched>>

NotificationsNext ==
  \/ \E users \in SUBSET Recipients, key \in RequestKeys \cup {NoKey} :
       RequestNotification(users, key)
  \/ \E n \in DOMAIN requests : \E order \in Orders(requests[n].recipients) : Dispatch(n, order)
  \/ \E i \in DOMAIN inbox, status \in {"read", "archived", "deleted"} : UpdateStatus(i, status)

NotificationsSpec == NotificationsInit /\ [][NotificationsNext]_inboxVars

-----------------------------------------------------------------------------
(* Properties.                                                              *)

\* listNotifications
Listed(user) == {i \in DOMAIN inbox : inbox[i].user = user /\ ~inbox[i].isDeleted}

\* A request with a key reaches every recipient once, with all its recipients
\* or none, however often the job is delivered or the request repeated.
EachRecipientOnce ==
  /\ \A i, j \in DOMAIN inbox :
       inbox[i].user = inbox[j].user /\ inbox[i].key = inbox[j].key /\ inbox[i].key # NoKey => i = j
  /\ \A n \in dispatched : \A user \in requests[n].recipients :
       \E i \in DOMAIN inbox : inbox[i].user = user /\ inbox[i].key = requests[n].key
  /\ \A i \in DOMAIN inbox : inbox[i].request \in dispatched

\* What a recipient has deleted stays away: no later delivery, no repeated
\* request and no late change of its status shows it again.
DeletedStaysAway ==
  [][\A i \in DOMAIN inbox : inbox[i].isDeleted /\ inbox[i].key # NoKey =>
        \A j \in Listed(inbox[i].user)' : inbox'[j].key # inbox[i].key]_inboxVars

\* A recipient has what was sent to him once, until he deletes it.
InboxIsExact == [](NotificationsTypeOK /\ EachRecipientOnce) /\ DeletedStaysAway
=============================================================================
