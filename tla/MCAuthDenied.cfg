SPECIFICATION PartsSpec
CONSTANTS
  Parts = {"server"}
  u1 = u1
  p1 = p1
  p2 = p2
  s1 = s1
  s2 = s2
  c1 = c1
  c2 = c2
  NoUser = NoUser
  NoSession = NoSession
  NoPassword = NoPassword
  Users = {u1}
  Passwords = {p1}
  Sessions = {s1}
  Callers = {c1}
  MaxFailed = 2
  MaxVersion = 3
  Tabs = {"t1", "t2"}
  WebUsers = {"u", "v"}
  WebOrganizations = {"o", "p"}
  DefaultOrganizations = {"o"}
  MaxWebSessions = 2
  MaxWebCalls = 3
PROPERTIES
  DeniedUntilUnlocked
