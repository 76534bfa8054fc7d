-------------------------- MODULE MCWebhookDelivery --------------------------
(* Values for model checking WebhookDelivery.                                  *)
EXTENDS WebhookDelivery, TLC

CONSTANTS e1, e2, s1, s2, w1, w2, a1, a2, url1, url2, t1

AllOneType == [e \in Events |-> t1]
ToEverybody == [e \in Events |-> Subs]

Symmetry == Permutations(Workers) \cup Permutations(Events)

\* A behaviour has two events, or one event and an administrator who edits.
VARIABLE edited

FocusInit == Init /\ edited \in BOOLEAN
FocusNext ==
  /\ Next
  /\ UNCHANGED edited
  /\ IF edited THEN outbox'[e2] = "none" ELSE edits' = {}

\* Administrators and events owe no progress: the fairness is FairSpec's.
FocusSpec == FocusInit /\ [][FocusNext]_<<vars, edited>> /\ Fairness
=============================================================================
