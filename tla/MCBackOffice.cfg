INIT MCInit
NEXT MCNext
CONSTANTS
  Parts = {"store", "modules", "tree", "announcements", "menus", "migrations", "catalog", "setup", "notifications", "templates", "settings", "conformance"}
  UsedOperations = {"createUser", "updateUser", "createMenu", "updateRolePermissions"}
  Dialect = "sqlite"
  MaxChanges = 3
  MaxIds = 3
  MaxMetadataApplies = 1
  MaxSaveFailures = 1
  MaxRestarts = 1
  Modules = {"a", "b"}
  Permissions = {"a1", "a2", "b1"}
  ModuleOf <- MCModuleOf
  Roles = {"editor"}
  Releases = 4
  Ships <- MCShips
  DefinitionOf <- MCHash
  ActivationOf <- MCHash
  PermissionsOf <- MCPermissionsOf
  MaxGrantEdits = 2
  MaxApplies = 2
  Organizations = {1, 2, 3}
  Radix = 4
  RootSegments = 1
  ChildSegments = 2
  MaxLevel = 3
  AnnouncementIds = {1}
  AnnouncementRequests = {1, 2}
  ApiProcesses = {1, 2}
  MaxAnnouncementRequests = 3
  MenuCodes = {"system", "menus", "own"}
  MenuPaths = {"/system", "/menus", "/own"}
  BaseMenus <- MCBaseMenus
  ModuleMenus <- MCModuleMenus
  MaxMenus = 3
  Runners = {"r1", "r2"}
  Plans <- MCPlans
  SchemaDialect = "postgresql"
  MaxRunnerExits = 1
  ApiCodes = {"c1", "c2", "c3"}
  Endpoints = {"e1", "e2", "e3"}
  BaseCodes = {"p", "q"}
  ApiManifests <- MCApiManifests
  PermManifests <- MCPermManifests
  MaxCatalogEdits = 3
  Setups = {"s1", "s2", "s3", "s4"}
  OrganizationOf <- MCOrganizationOf
  AdministratorOf <- MCAdministratorOf
  MaxSetupSaveFailures = 2
  MaxSetupRestarts = 2
  Recipients = {"u", "v"}
  RequestKeys = {"k"}
  MaxRequests = 2
  MaxInboxRows = 3
  Editors = {"e1", "e2"}
  TemplateKeys = {1, 2}
  TemplateChannel <- MCChannel
  Variables = {"x"}
  TemplateRows <- MCRows
  TemplateInputs <- MCInputs
  ListedTemplates = 1
  MaxTemplateEdits = 2
  Managers = {"e1", "e2"}
  ConfigKeys = {"k", "r"}
  EditableConfigs = {"k"}
  ConfigValues = {"v1", "v2"}
  TypeIds = {1, 2}
  TypeCodes = {"c1", "c2"}
  TypeNames = {"n1", "n2"}
  Texts = {1, 2}
  TextsOf <- MCTextsOf
  Overrides = {"o"}
  ListedTexts = 1
  MaxSettingEdits = 2
  ModuleNames = {"m", "n"}
  Contributions <- MCContributions
  BaseMenuCodes = {"system"}
  MaxSourceEdits = 3
INVARIANTS
  
  TargetsAreMinimal
  
  DeploymentIsSound
  EditsAreSound
  ConformingWorks
PROPERTIES
  ChangesAreKept
  PathsAreAForest
  InboxIsExact
CHECK_DEADLOCK FALSE
