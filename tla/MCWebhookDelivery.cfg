SPECIFICATION FocusSpec
CONSTANTS
  e1 = e1
  e2 = e2
  s1 = s1
  s2 = s2
  w1 = w1
  w2 = w2
  a1 = a1
  a2 = a2
  url1 = url1
  url2 = url2
  t1 = t1
  NoUrl = NoUrl
  Events = {e1, e2}
  Subs = {s1}
  Workers = {w1, w2}
  Admins = {a1}
  Urls = {url1, url2}
  EventTypes = {t1}
  TypeOf <- AllOneType
  Audience <- ToEverybody
  MaxAttempts = 2
  Concurrency = 2
  RetryDelays = {1}
  StaleTimeout = 2
  Retention = 1
  RequestBound = 1
  SerialClaims = TRUE
  MaxRevision = 2
INVARIANTS
  DeliveriesAreSound
PROPERTIES
  ImplementsContract
  ConfigIsCurrent
  EventuallySettled
