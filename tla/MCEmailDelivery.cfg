SPECIFICATION PartsSpec
CONSTANTS
  Parts = {"deliveries", "conversation"}
  q1 = q1
  q2 = q2
  u1 = u1
  p1 = p1
  p2 = p2
  c1 = c1
  c2 = c2
  w1 = w1
  w2 = w2
  k1 = k1
  k2 = k2
  NoKey = NoKey
  Requests = {q1, q2}
  Users = {u1}
  UserOf <- ToOneUser
  Prints = {p1, p2}
  Callers = {c1, c2}
  Workers = {w1, w2}
  Keys = {k1, k2}
  MaxAttempts = 2
  Concurrency = 2
  StaleTimeout = 2
  Retention = 1
  SendBound = 1
  MaxSends = 2
SYMMETRY Symmetry
INVARIANTS
  AttemptsAreSound
  ContentIsSound
  IdempotentReplies
  MailIsSound
PROPERTIES
  OutcomesStand
CHECK_DEADLOCK FALSE
