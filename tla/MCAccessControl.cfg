SPECIFICATION AccessSpec
CONSTANTS
  Parts = {"contexts", "requests", "records", "fields", "pages", "roles"}
  root = root
  branch = branch
  NoRole = NoRole
  NoEntry = NoEntry
  NoCreation = NoCreation
  u1 = u1
  u2 = u2
  Users = {u1, u2}
  Wanted <- OneContext
  Organizations = {root, branch}
  Subtree <- TwoLevels
  Roles = {super, r1}
  SuperRole = super
  Codes = {p1}
  BaseCodes = {}
  Rules = {d1}
  Callers = {c1}
  Admins = {a1}
  MaxChanges = 2
  MaxFailures = 1
  ReleaseModules = {"m", "n"}
  ModuleApis <- MCApis
  Attachments <- MCAttachments
  ReferenceTypes = {"t", "u"}
  MaxReferences = 1
  MaxWorldChanges = 1
  UserIds = {"u", "v", "w"}
  OrganizationIds = {"o", "p"}
  CurrentUser = "u"
  CurrentOrganization = "o"
  Descendants = {"o", "p"}
  UsersOfRole = {"v", "u", "w"}
  MaxValues = 2
  Documents <- MCDocuments
  MaxRules = 2
  MaxRuleUpdates = 1
  Fields = {"f", "g"}
  Declarations <- MCDeclarations
  RuleLists <- MCRuleLists
  MaxFieldUpdates = 2
  Visited = {"notifications.announcements", "system.files", "system.dictionaries", "logs.api", "account.profile"}
  Kept <- MCKept
  PanelRoles = {"r1", "r2"}
  PanelCodes = {"c"}
  MaxOtherChanges = 1
INVARIANTS
  ContextsAreSound
  RulesAreExact
  RequestsAreSound
  PagesAreSound
PROPERTIES
  EventuallyCurrent
CHECK_DEADLOCK FALSE
