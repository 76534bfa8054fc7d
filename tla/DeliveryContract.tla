-------------------------- MODULE DeliveryContract --------------------------
(***************************************************************************)
(* What a durable work table promises of each piece of work (an event for  *)
(* a subscription, a queued job), without workers, leases or time: it is   *)
(* opened at most once, is tried at most MaxAttempts times, is canceled    *)
(* only between tries, succeeds only if it was received (a receiver        *)
(* accepted it, a handler returned), and keeps its outcome until retention *)
(* removes it for good.                                                    *)
(***************************************************************************)
EXTENDS Integers

CONSTANTS Deliveries, MaxAttempts

VARIABLES stage,     \* where each delivery is in its life
          tries,     \* the requests it has used
          received   \* the deliveries some receiver accepted

contractVars == <<stage, tries, received>>

Outcome == {"succeeded", "failed", "canceled"}

Init ==
  /\ stage = [d \in Deliveries |-> "none"]
  /\ tries = [d \in Deliveries |-> 0]
  /\ received = {}

Moves(d, from, to) == stage[d] = from /\ stage'[d] = to
SameTries(d) == tries'[d] = tries[d]

\* It is due, or it never will be (an event not meant for a subscription).
Open(d) == /\ \/ Moves(d, "none", "waiting")
              \/ Moves(d, "none", "gone")
           /\ SameTries(d)

Try(d) == /\ Moves(d, "waiting", "trying")
          /\ tries[d] < MaxAttempts
          /\ tries'[d] = tries[d] + 1

Retry(d) == /\ Moves(d, "trying", "waiting")
            /\ tries[d] < MaxAttempts
            /\ SameTries(d)

Close(d) == /\ \/ Moves(d, "trying", "succeeded") /\ d \in received
               \/ Moves(d, "trying", "failed")
               \/ Moves(d, "waiting", "canceled")
            /\ SameTries(d)

Remove(d) == /\ \E o \in Outcome : Moves(d, o, "gone")
             /\ tries'[d] = 0

Stay(d) == stage'[d] = stage[d] /\ SameTries(d)

\* Statements act on many rows, so each delivery steps or stays by itself.
Next == /\ \A d \in Deliveries :
             Open(d) \/ Try(d) \/ Retry(d) \/ Close(d) \/ Remove(d) \/ Stay(d)
        /\ received \subseteq received'
        /\ \A d \in received' \ received : stage[d] = "trying"

Spec == Init /\ [][Next]_contractVars
=============================================================================
