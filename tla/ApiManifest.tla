------------------------------ MODULE ApiManifest ------------------------------
(* The tables the API and the web application are built from, each written by   *)
(* hand in a file of its own: the permission manifest of the APIs, the routers'  *)
(* handlers in the order in which createApp composes them, the request schemas   *)
(* of the OpenAPI document, the permission codes, and the pages and menus.  A    *)
(* path is the tuple of its segments after /api; ":" is a segment bound to a     *)
(* parameter, whatever its name.                                                 *)
EXTENDS Sequences, Naturals

Public == "public"
SignedIn == ""
NoBody == ""
Top == ""

Api(method, path, code, permission) ==
  [method |-> method, path |-> path, code |-> code, permission |-> permission]
\* A handler and the request it parses; Own: one that needs the caller's session.
On(method, path, reads) == [method |-> method, path |-> path, reads |-> reads, own |-> FALSE]
Own(method, path, reads) == [method |-> method, path |-> path, reads |-> reads, own |-> TRUE]
Page(code, path, permission) == [code |-> code, path |-> path, permission |-> permission]
Menu(code, parent, path, permission) ==
  [code |-> code, parent |-> parent, path |-> path, permission |-> permission]

-----------------------------------------------------------------------------
PublicApis ==
  << Api("GET", <<"health">>, "api.health.view", Public),
     Api("GET", <<"metrics">>, "api.metrics.view", Public),
     Api("GET", <<"openapi.json">>, "api.openapi.view", Public),
     Api("GET", <<"initialization", "status">>, "api.initialization.status", Public),
     Api("POST", <<"initialization", "setup">>, "api.initialization.setup", Public),
     Api("GET", <<"setup", "status">>, "api.setup.status", Public),
     Api("POST", <<"setup", "initialize">>, "api.setup.initialize", Public),
     Api("POST", <<"auth", "login">>, "api.auth.login", Public),
     Api("POST", <<"auth", "refresh">>, "api.auth.refresh", Public) >>

OwnApis ==
  << Api("GET", <<"auth", "me">>, "api.auth.me", SignedIn),
     Api("POST", <<"auth", "logout">>, "api.auth.logout", SignedIn),
     Api("POST", <<"auth", "change-password">>, "api.auth.change-password", SignedIn),
     Api("POST", <<"context", "current-organization">>, "api.context.current-organization.switch", SignedIn),
     Api("POST", <<"auth", "current-organization">>, "api.auth.current-organization.switch", SignedIn),
     Api("GET", <<"context", "organizations">>, "api.context.organizations.list", SignedIn),
     Api("GET", <<"context", "permissions">>, "api.context.permissions", SignedIn),
     Api("GET", <<"permissions", "effective">>, "api.permissions.effective", SignedIn),
     Api("GET", <<"online-users">>, "api.online-users.view", "online-user:view"),
     Api("GET", <<"profile">>, "api.profile.view", SignedIn),
     Api("PATCH", <<"profile">>, "api.profile.update", SignedIn),
     Api("PATCH", <<"profile", "preferences">>, "api.profile.preferences.update", SignedIn),
     Api("POST", <<"profile", "avatar">>, "api.profile.avatar.update", SignedIn) >>

OrganizationApis ==
  << Api("GET", <<"organizations", "tree">>, "api.organizations.tree", "organization:view"),
     Api("GET", <<"organizations", "config", "depth">>, "api.organizations.depth.get", "organization:view"),
     Api("PATCH", <<"organizations", "config", "depth">>, "api.organizations.depth.update", "organization:depth:configure"),
     Api("POST", <<"organizations">>, "api.organizations.create", "organization:create"),
     Api("GET", <<"organizations", ":">>, "api.organizations.detail", "organization:view"),
     Api("PATCH", <<"organizations", ":">>, "api.organizations.update", "organization:update"),
     Api("POST", <<"organizations", ":", "disable">>, "api.organizations.disable", "organization:disable"),
     Api("POST", <<"organizations", ":", "enable">>, "api.organizations.enable", "organization:enable"),
     Api("DELETE", <<"organizations", ":">>, "api.organizations.delete", "organization:delete") >>

UserApis ==
  << Api("GET", <<"users">>, "api.users.list", "user:view"),
     Api("POST", <<"users">>, "api.users.create", "user:create"),
     Api("GET", <<"users", ":">>, "api.users.detail", "user:view"),
     Api("PATCH", <<"users", ":">>, "api.users.update", "user:update"),
     Api("POST", <<"users", ":", "disable">>, "api.users.disable", "user:disable"),
     Api("POST", <<"users", ":", "enable">>, "api.users.enable", "user:enable"),
     Api("POST", <<"users", ":", "lock">>, "api.users.lock", "user:lock"),
     Api("POST", <<"users", ":", "unlock">>, "api.users.unlock", "user:unlock"),
     Api("POST", <<"users", ":", "reset-password">>, "api.users.password.reset", "user:password:reset"),
     Api("DELETE", <<"users", ":">>, "api.users.delete", "user:delete"),
     Api("GET", <<"users", ":", "organizations">>, "api.users.organizations.list", "user:view"),
     Api("POST", <<"users", ":", "organizations">>, "api.users.organizations.assign", "user:update"),
     Api("DELETE", <<"users", ":", "organizations", ":">>, "api.users.organizations.remove", "user:update") >>

RoleApis ==
  << Api("GET", <<"roles">>, "api.roles.list", "role:view"),
     Api("POST", <<"roles">>, "api.roles.create", "role:create"),
     Api("GET", <<"roles", ":">>, "api.roles.detail", "role:view"),
     Api("PATCH", <<"roles", ":">>, "api.roles.update", "role:update"),
     Api("POST", <<"roles", ":", "enable">>, "api.roles.enable", "role:status:update"),
     Api("POST", <<"roles", ":", "disable">>, "api.roles.disable", "role:status:update"),
     Api("DELETE", <<"roles", ":">>, "api.roles.delete", "role:delete"),
     Api("POST", <<"roles", ":", "copy">>, "api.roles.copy", "role:copy"),
     Api("GET", <<"roles", ":", "permissions">>, "api.roles.permissions.view", "role:view"),
     Api("PUT", <<"roles", ":", "permissions">>, "api.roles.permissions.update", "role:permissions:update"),
     Api("GET", <<"roles", ":", "data-permissions">>, "api.roles.data-permissions.view", "role:view"),
     Api("PUT", <<"roles", ":", "data-permissions">>, "api.roles.data-permissions.update", "role:permissions:update"),
     Api("GET", <<"roles", ":", "field-permissions">>, "api.roles.field-permissions.view", "role:view"),
     Api("PUT", <<"roles", ":", "field-permissions">>, "api.roles.field-permissions.update", "role:permissions:update") >>

PermissionApis ==
  << Api("GET", <<"permissions">>, "api.permissions.list", "permission:view"),
     Api("GET", <<"permissions", "tree">>, "api.permissions.tree", "permission:view"),
     Api("GET", <<"permissions", "user-overrides", ":">>, "api.permissions.user-overrides.view", "permission:view"),
     Api("PUT", <<"permissions", "user-overrides", ":">>, "api.permissions.user-overrides.update", "permission:sync"),
     Api("POST", <<"permissions", "sync">>, "api.permissions.sync", "permission:sync"),
     Api("GET", <<"permissions", "api">>, "api.permissions.api.list", "permission:view"),
     Api("POST", <<"permissions", "api", "sync">>, "api.permissions.api.sync", "permission:api:sync"),
     Api("GET", <<"permissions", "manifest">>, "api.permissions.manifest", "permission:view"),
     Api("GET", <<"routes", "manifest">>, "api.routes.manifest", "route:manifest:view"),
     Api("POST", <<"routes", "sync">>, "api.routes.sync", "route:sync") >>

MenuApis ==
  << Api("GET", <<"menus", "tree">>, "api.menus.tree", "menu:view"),
     Api("POST", <<"menus">>, "api.menus.create", "menu:create"),
     Api("PATCH", <<"menus", ":">>, "api.menus.update", "menu:update"),
     Api("DELETE", <<"menus", ":">>, "api.menus.delete", "menu:delete"),
     Api("PUT", <<"menus", ":", "api-bindings">>, "api.menus.api-bindings.update", "menu:update"),
     Api("GET", <<"system-config">>, "api.system-config.list", "system-config:view"),
     Api("PATCH", <<"system-config", ":">>, "api.system-config.update", "system-config:update"),
     Api("GET", <<"dictionary-types">>, "api.dictionary-types.list", "dictionary:view"),
     Api("POST", <<"dictionary-types">>, "api.dictionary-types.create", "dictionary:create"),
     Api("PATCH", <<"dictionary-types", ":">>, "api.dictionary-types.update", "dictionary:update"),
     Api("GET", <<"dictionary-types", ":", "items">>, "api.dictionary-items.list", "dictionary:view"),
     Api("POST", <<"dictionary-types", ":", "items">>, "api.dictionary-items.create", "dictionary:create"),
     Api("PATCH", <<"dictionary-items", ":">>, "api.dictionary-items.update", "dictionary:update"),
     Api("GET", <<"i18n", "messages">>, "api.i18n.messages.list", "i18n:view"),
     Api("PATCH", <<"i18n", "messages", ":">>, "api.i18n.messages.update", "i18n:update") >>

LogApis ==
  << Api("GET", <<"logs", "login">>, "api.logs.login.list", "login-log:view"),
     Api("GET", <<"logs", "operation">>, "api.logs.operation.list", "operation-log:view"),
     Api("GET", <<"logs", "access">>, "api.logs.access.list", "access-log:view"),
     Api("GET", <<"logs", "api">>, "api.logs.api.list", "api-log:view"),
     Api("GET", <<"logs", "exception">>, "api.logs.exception.list", "exception-log:view"),
     Api("GET", <<"logs", "security">>, "api.logs.security.list", "security-log:view"),
     Api("GET", <<"logs", "jobs">>, "api.logs.jobs.list", "scheduler-log:view"),
     Api("GET", <<"logs", "files">>, "api.logs.files.list", "file-log:view"),
     Api("POST", <<"logs", "export">>, "api.logs.export", "log:export") >>

FileApis ==
  << Api("GET", <<"files">>, "api.files.list", "file:view"),
     Api("POST", <<"files", "upload">>, "api.files.upload", "file:upload"),
     Api("GET", <<"files", ":">>, "api.files.detail", "file:view"),
     Api("GET", <<"files", ":", "download">>, "api.files.download", "file:download"),
     Api("GET", <<"files", ":", "preview">>, "api.files.preview", "file:preview"),
     Api("GET", <<"files", ":", "references">>, "api.files.references", "file:references:view"),
     Api("DELETE", <<"files", ":">>, "api.files.delete", "file:delete") >>

AnnouncementApis ==
  << Api("GET", <<"announcements">>, "api.announcements.list", "announcement:view"),
     Api("GET", <<"announcements", "current">>, "api.announcements.current", SignedIn),
     Api("POST", <<"announcements">>, "api.announcements.create", "announcement:create"),
     Api("PATCH", <<"announcements", ":">>, "api.announcements.update", "announcement:update"),
     Api("POST", <<"announcements", ":", "publish">>, "api.announcements.publish", "announcement:publish"),
     Api("POST", <<"announcements", ":", "unpublish">>, "api.announcements.unpublish", "announcement:publish"),
     Api("DELETE", <<"announcements", ":">>, "api.announcements.delete", "announcement:delete") >>

NotificationApis ==
  << Api("GET", <<"notifications">>, "api.notifications.list", "notification:view"),
     Api("POST", <<"notifications", ":", "read">>, "api.notifications.read", "notification:update"),
     Api("POST", <<"notifications", ":", "archive">>, "api.notifications.archive", "notification:update"),
     Api("DELETE", <<"notifications", ":">>, "api.notifications.delete", "notification:update"),
     Api("POST", <<"notifications", "email", "test">>, "api.notifications.email.test", "notification-template:update"),
     Api("GET", <<"notification-templates">>, "api.notification-templates.list", "notification-template:view"),
     Api("GET", <<"email-deliveries">>, "api.email-deliveries.list", "notification:email-delivery:view"),
     Api("GET", <<"email-deliveries", ":">>, "api.email-deliveries.detail", "notification:email-delivery:view"),
     Api("POST", <<"notification-templates">>, "api.notification-templates.create", "notification-template:create"),
     Api("PATCH", <<"notification-templates", ":">>, "api.notification-templates.update", "notification-template:update") >>

WebhookApis ==
  << Api("GET", <<"webhooks">>, "api.webhooks.list", "webhook:view"),
     Api("POST", <<"webhooks">>, "api.webhooks.create", "webhook:create"),
     Api("PATCH", <<"webhooks", ":">>, "api.webhooks.update", "webhook:update"),
     Api("DELETE", <<"webhooks", ":">>, "api.webhooks.delete", "webhook:delete"),
     Api("GET", <<"webhook-event-types">>, "api.webhook-event-types.list", "webhook:view"),
     Api("GET", <<"webhook-deliveries">>, "api.webhook-deliveries.list", "webhook:view"),
     Api("GET", <<"webhook-deliveries", ":">>, "api.webhook-deliveries.detail", "webhook:view") >>

TaskApis ==
  << Api("GET", <<"scheduled-tasks">>, "api.scheduled-tasks.list", "job:view"),
     Api("POST", <<"scheduled-tasks">>, "api.scheduled-tasks.create", "job:create"),
     Api("PATCH", <<"scheduled-tasks", ":">>, "api.scheduled-tasks.update", "job:update"),
     Api("POST", <<"scheduled-tasks", ":", "enable">>, "api.scheduled-tasks.enable", "job:update"),
     Api("POST", <<"scheduled-tasks", ":", "disable">>, "api.scheduled-tasks.disable", "job:update"),
     Api("POST", <<"scheduled-tasks", ":", "run">>, "api.scheduled-tasks.run", "job:run"),
     Api("GET", <<"import-export", "tasks">>, "api.import-export.tasks.list", "import-export:view"),
     Api("POST", <<"import-export", "export">>, "api.import-export.export.create", "import-export:create"),
     Api("GET", <<"import-export", "tasks", ":">>, "api.import-export.tasks.detail", "import-export:view"),
     Api("GET", <<"modules", "registry">>, "api.modules.registry.view", "module-registry:view"),
     Api("POST", <<"modules", "sync", "plan">>, "api.modules.sync.plan", "module-registry:view"),
     Api("POST", <<"modules", "sync", "apply">>, "api.modules.sync.apply", "module-registry:sync") >>

BaseApis ==
  PublicApis \o OwnApis \o OrganizationApis \o UserApis \o RoleApis \o PermissionApis
    \o MenuApis \o LogApis \o FileApis \o AnnouncementApis \o NotificationApis
    \o WebhookApis \o TaskApis

-----------------------------------------------------------------------------
InitializationRoutes ==
  << On("GET", <<"initialization", "status">>, NoBody),
     On("POST", <<"initialization", "setup">>, "InitializationSetupRequest"),
     On("GET", <<"setup", "status">>, NoBody),
     On("POST", <<"setup", "initialize">>, "InitializationSetupRequest") >>

AuthRoutes ==
  << On("POST", <<"auth", "login">>, "LoginRequest"),
     Own("GET", <<"auth", "me">>, NoBody),
     Own("POST", <<"auth", "logout">>, "LogoutRequest"),
     Own("POST", <<"auth", "change-password">>, "ChangePasswordRequest"),
     Own("POST", <<"context", "current-organization">>, "SwitchCurrentOrganizationRequest"),
     Own("POST", <<"auth", "current-organization">>, "SwitchCurrentOrganizationRequest"),
     Own("GET", <<"context", "organizations">>, NoBody),
     Own("GET", <<"context", "permissions">>, NoBody),
     Own("GET", <<"permissions", "effective">>, NoBody),
     On("POST", <<"auth", "refresh">>, NoBody),
     Own("GET", <<"online-users">>, NoBody) >>

ProfileRoutes ==
  << Own("GET", <<"profile">>, NoBody),
     Own("PATCH", <<"profile">>, "UpdateOwnProfileRequest"),
     Own("PATCH", <<"profile", "preferences">>, "UpdateOwnPreferencesRequest"),
     Own("POST", <<"profile", "avatar">>, "UpdateOwnAvatarRequest") >>

OrganizationRoutes ==
  << On("GET", <<"organizations", "tree">>, NoBody),
     On("GET", <<"organizations", "config", "depth">>, NoBody),
     On("PATCH", <<"organizations", "config", "depth">>, "UpdateOrganizationDepthConfigRequest"),
     On("POST", <<"organizations">>, "CreateOrganizationRequest"),
     On("GET", <<"organizations", ":">>, NoBody),
     On("PATCH", <<"organizations", ":">>, "UpdateOrganizationRequest"),
     On("POST", <<"organizations", ":", "disable">>, NoBody),
     On("POST", <<"organizations", ":", "enable">>, NoBody),
     On("DELETE", <<"organizations", ":">>, NoBody) >>

UserRoutes ==
  << On("GET", <<"users">>, NoBody),
     On("POST", <<"users">>, "CreateUserRequest"),
     On("GET", <<"users", ":">>, NoBody),
     On("PATCH", <<"users", ":">>, "UpdateUserRequest"),
     On("POST", <<"users", ":", "disable">>, NoBody),
     On("POST", <<"users", ":", "enable">>, NoBody),
     On("POST", <<"users", ":", "lock">>, NoBody),
     On("POST", <<"users", ":", "unlock">>, NoBody),
     On("POST", <<"users", ":", "reset-password">>, "ResetPasswordRequest"),
     On("DELETE", <<"users", ":">>, NoBody),
     On("GET", <<"users", ":", "organizations">>, NoBody),
     On("POST", <<"users", ":", "organizations">>, "AssignUserOrganizationRoleRequest"),
     On("DELETE", <<"users", ":", "organizations", ":">>, NoBody) >>

RoleRoutes ==
  << On("GET", <<"roles">>, NoBody),
     On("POST", <<"roles">>, "CreateRoleRequest"),
     On("GET", <<"roles", ":">>, NoBody),
     On("PATCH", <<"roles", ":">>, "UpdateRoleRequest"),
     On("POST", <<"roles", ":", "enable">>, NoBody),
     On("POST", <<"roles", ":", "disable">>, NoBody),
     On("DELETE", <<"roles", ":">>, NoBody),
     On("POST", <<"roles", ":", "copy">>, NoBody),
     On("GET", <<"roles", ":", "permissions">>, NoBody),
     On("PUT", <<"roles", ":", "permissions">>, "UpdateRolePermissionsRequest"),
     On("GET", <<"permissions">>, NoBody),
     On("GET", <<"permissions", "tree">>, NoBody),
     On("POST", <<"permissions", "sync">>, NoBody),
     On("GET", <<"permissions", "api">>, NoBody),
     On("POST", <<"permissions", "api", "sync">>, NoBody) >>

MenuRoutes ==
  << On("GET", <<"menus", "tree">>, NoBody),
     On("POST", <<"menus">>, "CreateMenuRequest"),
     On("PATCH", <<"menus", ":">>, "UpdateMenuRequest"),
     On("DELETE", <<"menus", ":">>, NoBody),
     On("PUT", <<"menus", ":", "api-bindings">>, "UpdateMenuApiBindingsRequest") >>

RouteMetadataRoutes ==
  << On("GET", <<"routes", "manifest">>, NoBody),
     On("POST", <<"routes", "sync">>, NoBody) >>

PermissionExtensionRoutes ==
  << On("GET", <<"roles", ":", "data-permissions">>, NoBody),
     On("PUT", <<"roles", ":", "data-permissions">>, "UpdateRoleDataPermissionsRequest"),
     On("GET", <<"roles", ":", "field-permissions">>, NoBody),
     On("PUT", <<"roles", ":", "field-permissions">>, "UpdateRoleFieldPermissionsRequest"),
     On("GET", <<"permissions", "user-overrides", ":">>, NoBody),
     On("PUT", <<"permissions", "user-overrides", ":">>, "UpdateUserPermissionOverridesRequest") >>

CommunicationsRoutes ==
  << On("GET", <<"announcements">>, NoBody),
     Own("GET", <<"announcements", "current">>, NoBody),
     On("POST", <<"announcements">>, "CreateAnnouncementRequest"),
     On("PATCH", <<"announcements", ":">>, "UpdateAnnouncementRequest"),
     On("POST", <<"announcements", ":", "publish">>, NoBody),
     On("POST", <<"announcements", ":", "unpublish">>, NoBody),
     On("DELETE", <<"announcements", ":">>, NoBody),
     On("GET", <<"webhooks">>, NoBody),
     On("POST", <<"webhooks">>, "CreateWebhookSubscriptionRequest"),
     On("PATCH", <<"webhooks", ":">>, "UpdateWebhookSubscriptionRequest"),
     On("DELETE", <<"webhooks", ":">>, NoBody),
     On("GET", <<"webhook-event-types">>, NoBody),
     On("GET", <<"webhook-deliveries">>, NoBody),
     On("GET", <<"webhook-deliveries", ":">>, NoBody) >>

InfrastructureRoutes ==
  << On("GET", <<"logs", "login">>, NoBody),
     On("GET", <<"logs", "operation">>, NoBody),
     On("GET", <<"logs", "access">>, NoBody),
     On("GET", <<"logs", "api">>, NoBody),
     On("GET", <<"logs", "exception">>, NoBody),
     On("GET", <<"logs", "security">>, NoBody),
     On("GET", <<"logs", "jobs">>, NoBody),
     On("GET", <<"logs", "files">>, NoBody),
     On("POST", <<"logs", "export">>, "CreateLogExportTaskRequest"),
     On("GET", <<"files">>, NoBody),
     On("POST", <<"files", "upload">>, "FileUploadRequest"),
     On("GET", <<"files", ":">>, NoBody),
     Own("GET", <<"files", ":", "download">>, NoBody),
     Own("GET", <<"files", ":", "preview">>, NoBody),
     On("GET", <<"files", ":", "references">>, NoBody),
     On("DELETE", <<"files", ":">>, NoBody),
     Own("GET", <<"notifications">>, NoBody),
     On("POST", <<"notifications", ":", "read">>, NoBody),
     On("POST", <<"notifications", ":", "archive">>, NoBody),
     On("DELETE", <<"notifications", ":">>, NoBody),
     On("POST", <<"notifications", "email", "test">>, "SendTestEmailNotificationRequest"),
     On("GET", <<"email-deliveries">>, NoBody),
     On("GET", <<"email-deliveries", ":">>, NoBody),
     On("GET", <<"notification-templates">>, NoBody),
     On("POST", <<"notification-templates">>, "CreateNotificationTemplateRequest"),
     On("PATCH", <<"notification-templates", ":">>, "UpdateNotificationTemplateRequest"),
     On("GET", <<"scheduled-tasks">>, NoBody),
     On("POST", <<"scheduled-tasks">>, "CreateScheduledTaskRequest"),
     On("PATCH", <<"scheduled-tasks", ":">>, "UpdateScheduledTaskRequest"),
     On("POST", <<"scheduled-tasks", ":", "enable">>, NoBody),
     On("POST", <<"scheduled-tasks", ":", "disable">>, NoBody),
     On("POST", <<"scheduled-tasks", ":", "run">>, NoBody),
     On("GET", <<"import-export", "tasks">>, NoBody),
     On("POST", <<"import-export", "export">>, "CreateExportTaskRequest"),
     On("GET", <<"import-export", "tasks", ":">>, NoBody) >>

SystemManagementRoutes ==
  << On("GET", <<"system-config">>, NoBody),
     On("PATCH", <<"system-config", ":">>, "UpdateSystemConfigRequest"),
     On("GET", <<"dictionary-types">>, NoBody),
     On("POST", <<"dictionary-types">>, "CreateDictionaryTypeRequest"),
     On("PATCH", <<"dictionary-types", ":">>, "UpdateDictionaryTypeRequest"),
     On("GET", <<"dictionary-types", ":", "items">>, NoBody),
     On("POST", <<"dictionary-types", ":", "items">>, "CreateDictionaryItemRequest"),
     On("PATCH", <<"dictionary-items", ":">>, "UpdateDictionaryItemRequest"),
     On("GET", <<"i18n", "messages">>, NoBody),
     On("PATCH", <<"i18n", "messages", ":">>, "UpdateI18nMessageRequest") >>

ModuleLifecycleRoutes ==
  << On("GET", <<"modules", "registry">>, NoBody),
     On("POST", <<"modules", "sync", "plan">>, NoBody),
     On("POST", <<"modules", "sync", "apply">>, "ApplyModuleSyncRequest") >>

ManifestRoutes ==
  << On("GET", <<"permissions", "manifest">>, NoBody) >>

CoreFoundationRoutes ==
  InitializationRoutes \o AuthRoutes \o ProfileRoutes \o OrganizationRoutes \o UserRoutes
    \o RoleRoutes \o MenuRoutes \o RouteMetadataRoutes \o PermissionExtensionRoutes

Handlers ==
  << On("GET", <<"health">>, NoBody), On("GET", <<"metrics">>, NoBody),
     On("GET", <<"openapi.json">>, NoBody) >>
    \o CoreFoundationRoutes \o CommunicationsRoutes \o InfrastructureRoutes
    \o SystemManagementRoutes \o ModuleLifecycleRoutes \o ManifestRoutes

-----------------------------------------------------------------------------
RequestSchemas ==
  {<<"api.initialization.setup", "InitializationSetupRequest">>,
   <<"api.setup.initialize", "InitializationSetupRequest">>,
   <<"api.auth.login", "LoginRequest">>,
   <<"api.auth.logout", "LogoutRequest">>,
   <<"api.auth.change-password", "ChangePasswordRequest">>,
   <<"api.context.current-organization.switch", "SwitchCurrentOrganizationRequest">>,
   <<"api.auth.current-organization.switch", "SwitchCurrentOrganizationRequest">>,
   <<"api.profile.update", "UpdateOwnProfileRequest">>,
   <<"api.profile.preferences.update", "UpdateOwnPreferencesRequest">>,
   <<"api.profile.avatar.update", "UpdateOwnAvatarRequest">>,
   <<"api.organizations.depth.update", "UpdateOrganizationDepthConfigRequest">>,
   <<"api.organizations.create", "CreateOrganizationRequest">>,
   <<"api.organizations.update", "UpdateOrganizationRequest">>,
   <<"api.users.create", "CreateUserRequest">>,
   <<"api.users.update", "UpdateUserRequest">>,
   <<"api.users.password.reset", "ResetPasswordRequest">>,
   <<"api.users.organizations.assign", "AssignUserOrganizationRoleRequest">>,
   <<"api.roles.create", "CreateRoleRequest">>,
   <<"api.roles.update", "UpdateRoleRequest">>,
   <<"api.roles.permissions.update", "UpdateRolePermissionsRequest">>,
   <<"api.roles.data-permissions.update", "UpdateRoleDataPermissionsRequest">>,
   <<"api.roles.field-permissions.update", "UpdateRoleFieldPermissionsRequest">>,
   <<"api.permissions.user-overrides.update", "UpdateUserPermissionOverridesRequest">>,
   <<"api.menus.create", "CreateMenuRequest">>,
   <<"api.menus.update", "UpdateMenuRequest">>,
   <<"api.menus.api-bindings.update", "UpdateMenuApiBindingsRequest">>,
   <<"api.system-config.update", "UpdateSystemConfigRequest">>,
   <<"api.dictionary-types.create", "CreateDictionaryTypeRequest">>,
   <<"api.dictionary-types.update", "UpdateDictionaryTypeRequest">>,
   <<"api.dictionary-items.create", "CreateDictionaryItemRequest">>,
   <<"api.dictionary-items.update", "UpdateDictionaryItemRequest">>,
   <<"api.i18n.messages.update", "UpdateI18nMessageRequest">>,
   <<"api.announcements.create", "CreateAnnouncementRequest">>,
   <<"api.announcements.update", "UpdateAnnouncementRequest">>,
   <<"api.webhooks.create", "CreateWebhookSubscriptionRequest">>,
   <<"api.webhooks.update", "UpdateWebhookSubscriptionRequest">>,
   <<"api.logs.export", "CreateLogExportTaskRequest">>,
   <<"api.files.upload", "FileUploadRequest">>,
   <<"api.notification-templates.create", "CreateNotificationTemplateRequest">>,
   <<"api.notification-templates.update", "UpdateNotificationTemplateRequest">>,
   <<"api.notifications.email.test", "SendTestEmailNotificationRequest">>,
   <<"api.scheduled-tasks.create", "CreateScheduledTaskRequest">>,
   <<"api.scheduled-tasks.update", "UpdateScheduledTaskRequest">>,
   <<"api.import-export.export.create", "CreateExportTaskRequest">>,
   <<"api.modules.sync.apply", "ApplyModuleSyncRequest">>}

BasePermissions ==
  {"organization:view", "organization:create", "organization:update",
   "organization:disable", "organization:enable", "organization:delete",
   "organization:depth:configure", "user:view", "user:create", "user:update",
   "user:disable", "user:enable", "user:lock", "user:unlock", "user:password:reset",
   "user:delete", "role:view", "role:create", "role:update", "role:copy",
   "role:permissions:update", "role:status:update", "role:delete", "permission:view",
   "permission:sync", "permission:api:sync", "menu:view", "menu:create", "menu:update",
   "menu:delete", "route:manifest:view", "route:sync", "system-config:view",
   "system-config:update", "dictionary:view", "dictionary:create", "dictionary:update",
   "i18n:view", "i18n:update", "module-registry:view", "module-registry:sync",
   "online-user:view", "login-log:view", "operation-log:view", "access-log:view",
   "api-log:view", "exception-log:view", "security-log:view", "scheduler-log:view",
   "file-log:view", "log:export", "file:view", "file:upload", "file:download",
   "file:preview", "file:references:view", "file:delete", "notification:view",
   "notification:update", "announcement:view", "announcement:create",
   "announcement:update", "announcement:publish", "announcement:delete",
   "notification-template:view", "notification-template:create",
   "notification-template:update", "notification:email-delivery:view", "webhook:view",
   "webhook:create", "webhook:update", "webhook:delete", "job:view", "job:create",
   "job:update", "job:run", "import-export:view", "import-export:create"}

SystemRoutes ==
  { Page("dashboard", "/", SignedIn),
    Page("system.organizations", "/system/organizations", "organization:view"),
    Page("system.users", "/system/users", "user:view"),
    Page("system.roles", "/system/roles", "role:view"),
    Page("system.permissions", "/system/permissions", "permission:view"),
    Page("system.menus", "/system/menus", "menu:view"),
    Page("system.config", "/system/config", "system-config:view"),
    Page("system.dictionaries", "/system/dictionaries", "dictionary:view"),
    Page("system.i18nMessages", "/system/i18n-messages", "i18n:view"),
    Page("system.modules", "/system/modules", "module-registry:view"),
    Page("system.files", "/system/files", "file:view") }

OtherRoutes ==
  { Page("notifications.announcements", "/notifications/announcements", "announcement:view"),
    Page("notifications.in-app", "/notifications/in-app", "notification:view"),
    Page("notifications.templates", "/notifications/templates", "notification-template:view"),
    Page("notifications.webhooks", "/notifications/webhooks", "webhook:view"),
    Page("notifications.email-deliveries", "/notifications/email-deliveries", "notification:email-delivery:view"),
    Page("operations.online-users", "/operations/online-users", "online-user:view"),
    Page("operations.scheduler", "/operations/scheduler", "job:view"),
    Page("operations.import-export", "/operations/import-export", "import-export:view"),
    Page("logs.login", "/logs/login", "login-log:view"),
    Page("logs.operation", "/logs/operation", "operation-log:view"),
    Page("logs.access", "/logs/access", "access-log:view"),
    Page("logs.api", "/logs/api", "api-log:view"),
    Page("logs.exception", "/logs/exception", "exception-log:view"),
    Page("logs.security", "/logs/security", "security-log:view"),
    Page("logs.scheduler", "/logs/scheduler", "scheduler-log:view"),
    Page("logs.files", "/logs/files", "file-log:view"),
    Page("account.profile", "/account/profile", SignedIn),
    Page("account.password", "/account/password", SignedIn),
    Page("account.settings", "/account/settings", SignedIn) }

BaseRoutes == SystemRoutes \cup OtherRoutes

SystemMenus ==
  { Menu("dashboard", Top, "/", SignedIn),
    Menu("system", Top, "/system", SignedIn),
    Menu("system.organizations", "system", "/system/organizations", "organization:view"),
    Menu("system.users", "system", "/system/users", "user:view"),
    Menu("system.roles", "system", "/system/roles", "role:view"),
    Menu("system.permissions", "system", "/system/permissions", "permission:view"),
    Menu("system.menus", "system", "/system/menus", "menu:view"),
    Menu("system.config", "system", "/system/config", "system-config:view"),
    Menu("system.dictionaries", "system", "/system/dictionaries", "dictionary:view"),
    Menu("system.i18nMessages", "system", "/system/i18n-messages", "i18n:view"),
    Menu("system.modules", "system", "/system/modules", "module-registry:view"),
    Menu("system.files", "system", "/system/files", "file:view") }

MessageMenus ==
  { Menu("notifications", Top, "/notifications", SignedIn),
    Menu("notifications.announcements", "notifications", "/notifications/announcements", "announcement:view"),
    Menu("notifications.in-app", "notifications", "/notifications/in-app", "notification:view"),
    Menu("notifications.templates", "notifications", "/notifications/templates", "notification-template:view"),
    Menu("notifications.webhooks", "notifications", "/notifications/webhooks", "webhook:view"),
    Menu("notifications.email-deliveries", "notifications", "/notifications/email-deliveries", "notification:email-delivery:view") }

OtherMenus ==
  { Menu("operations", Top, "/operations", SignedIn),
    Menu("operations.online-users", "operations", "/operations/online-users", "online-user:view"),
    Menu("operations.scheduler", "operations", "/operations/scheduler", "job:view"),
    Menu("operations.import-export", "operations", "/operations/import-export", "import-export:view"),
    Menu("logs", Top, "/logs", SignedIn),
    Menu("logs.login", "logs", "/logs/login", "login-log:view"),
    Menu("logs.operation", "logs", "/logs/operation", "operation-log:view"),
    Menu("logs.access", "logs", "/logs/access", "access-log:view"),
    Menu("logs.api", "logs", "/logs/api", "api-log:view"),
    Menu("logs.exception", "logs", "/logs/exception", "exception-log:view"),
    Menu("logs.security", "logs", "/logs/security", "security-log:view"),
    Menu("logs.scheduler", "logs", "/logs/scheduler", "scheduler-log:view"),
    Menu("logs.files", "logs", "/logs/files", "file-log:view"),
    Menu("account", Top, "/account", SignedIn),
    Menu("account.profile", "account", "/account/profile", SignedIn),
    Menu("account.password", "account", "/account/password", SignedIn),
    Menu("account.settings", "account", "/account/settings", SignedIn) }

MenuManifest == SystemMenus \cup MessageMenus \cup OtherMenus

SystemPages ==
  { Page("dashboard", "/", SignedIn),
    Page("system.users", "/system/users", "user:view"),
    Page("system.organizations", "/system/organizations", "organization:view"),
    Page("system.roles", "/system/roles", "role:view"),
    Page("system.permissions", "/system/permissions", "permission:view"),
    Page("system.menus", "/system/menus", "menu:view"),
    Page("system.config", "/system/config", "system-config:view"),
    Page("system.dictionaries", "/system/dictionaries", "dictionary:view"),
    Page("system.i18nMessages", "/system/i18n-messages", "i18n:view"),
    Page("system.modules", "/system/modules", "module-registry:view"),
    Page("system.files", "/system/files", "file:view") }

MessagePages ==
  { Page("notifications.announcements", "/notifications/announcements", "announcement:view"),
    Page("notifications.in-app", "/notifications/in-app", "notification:view"),
    Page("notifications.templates", "/notifications/templates", "notification-template:view"),
    Page("notifications.webhooks", "/notifications/webhooks", "webhook:view"),
    Page("notifications.email-deliveries", "/notifications/email-deliveries", "notification:email-delivery:view") }

OtherPages ==
  { Page("operations.online-users", "/operations/online-users", "online-user:view"),
    Page("operations.scheduler", "/operations/scheduler", "job:view"),
    Page("operations.import-export", "/operations/import-export", "import-export:view"),
    Page("account.profile", "/account/profile", SignedIn),
    Page("account.password", "/account/password", SignedIn),
    Page("account.settings", "/account/settings", SignedIn),
    Page("logs.login", "/logs/login", "login-log:view"),
    Page("logs.operation", "/logs/operation", "operation-log:view"),
    Page("logs.access", "/logs/access", "access-log:view"),
    Page("logs.api", "/logs/api", "api-log:view"),
    Page("logs.exception", "/logs/exception", "exception-log:view"),
    Page("logs.security", "/logs/security", "security-log:view"),
    Page("logs.scheduler", "/logs/scheduler", "scheduler-log:view"),
    Page("logs.files", "/logs/files", "file-log:view") }

AdminRoutes == SystemPages \cup MessagePages \cup OtherPages
=============================================================================
