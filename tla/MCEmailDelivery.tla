--------------------------- MODULE MCEmailDelivery ---------------------------
(* Values for model checking e-mail: its deliveries, and the conversation with *)
(* the mail server that an attempt is.  Each behaviour is of one of them.      *)
EXTENDS EmailDelivery, SmtpDelivery, TLC

CONSTANTS q1, q2, u1, p1, p2, c1, c2, w1, w2, k1, k2
CONSTANT Parts   \* the parts a run checks
VARIABLE part

ToOneUser == [q \in Requests |-> u1]

Symmetry == Permutations(Workers) \cup Permutations(Requests) \cup Permutations(Callers)
              \cup Permutations(Prints)

\* Where one may begin in several ways, it begins in one while the other is
\* explored.
MCInit ==
  /\ part \in Parts
  /\ Init /\ (part # "deliveries" => users[u1] = "enabled" /\ activeKey = k1)
  /\ SmtpInit /\ (part # "conversation" => ~\E f \in DOMAIN smtp : smtp[f])

\* A step of one part: the other part's variables stay as they are.
MCNext ==
  \/ part = "deliveries" /\ Next /\ UNCHANGED <<part, smtpVars>>
  \/ part = "conversation" /\ SmtpNext /\ UNCHANGED <<part, vars>>

PartsSpec == MCInit /\ [][MCNext]_<<part, vars, smtpVars>>
=============================================================================
