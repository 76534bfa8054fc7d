------------------------------- MODULE WebPages -------------------------------
(* The pages of the web application (apps/web/src/features): what each one reads  *)
(* from the API and what it may change, behind which permission, and how a change *)
(* refreshes what is shown.  Reads go through TanStack Query, which keeps one      *)
(* answer per key: a read starts when its component is mounted, and a change that  *)
(* succeeds makes the reads of what is mounted start again whose keys begin with   *)
(* one it names, but for a first load.  A key and a path hold ":" for the value    *)
(* chosen on the page.                                                             *)
EXTENDS ApiManifest, AssignmentPanel, FiniteSets

Get(path) == [method |-> "GET", path |-> path]
Post(path) == [method |-> "POST", path |-> path]
Patch(path) == [method |-> "PATCH", path |-> path]
Put(path) == [method |-> "PUT", path |-> path]
Delete(path) == [method |-> "DELETE", path |-> path]

\* A read and a change: asks are the permissions one of which the page asks for
\* beside its own, none when it asks for nothing more.
Read(key, call, asks) == [key |-> key, call |-> call, asks |-> asks]
Act(sends, asks, refreshes) == [calls |-> sends, asks |-> asks, refreshes |-> refreshes]
View(reads, acts) == [reads |-> reads, acts |-> acts]

-----------------------------------------------------------------------------
(* The API clients.                                                             *)

Account == [fetchProfile |-> Get(<<"profile">>), updateOwnProfile |-> Patch(<<"profile">>),
            updateOwnPreferences |-> Patch(<<"profile", "preferences">>),
            updateOwnAvatar |-> Post(<<"profile", "avatar">>)]

CoreReads == [users |-> Get(<<"users">>), organizations |-> Get(<<"organizations", "tree">>),
              roles |-> Get(<<"roles">>), permissions |-> Get(<<"permissions">>),
              apiPermissions |-> Get(<<"permissions", "api">>), menus |-> Get(<<"menus", "tree">>),
              rolePermissions |-> Get(<<"roles", ":", "permissions">>)]

\* createX, updateX, deleteX and the calls that name an action of one record.
Edits(kind) == {Post(<<kind>>), Patch(<<kind, ":">>), Delete(<<kind, ":">>)}
OnRecord(kind, actions) == {Post(<<kind, ":", a>>) : a \in actions}
CoreActs ==
  [users |-> Edits("users")
               \cup OnRecord("users", {"enable", "disable", "lock", "unlock", "reset-password"}),
   organizations |-> Edits("organizations") \cup OnRecord("organizations", {"enable", "disable"}),
   roles |-> Edits("roles") \cup OnRecord("roles", {"enable", "disable", "copy"})
               \cup {Put(<<"roles", ":", "permissions">>)},
   permissions |-> {},
   menus |-> Edits("menus") \cup {Put(<<"menus", ":", "api-bindings">>)}]
SyncAllPermissions == Post(<<"permissions", "sync">>)

LogPath == [login |-> "login", operation |-> "operation", access |-> "access", api |-> "api",
            exception |-> "exception", security |-> "security", scheduler |-> "jobs",
            files |-> "files"]
FetchLogs(kind) == Get(<<"logs", LogPath[kind]>>)
CreateLogExportTask == Post(<<"logs", "export">>)

Announcement ==
  [fetch |-> Get(<<"announcements">>), fetchCurrent |-> Get(<<"announcements", "current">>),
   fetchOrganizations |-> Get(<<"organizations", "tree">>),
   create |-> Post(<<"announcements">>), update |-> Patch(<<"announcements", ":">>),
   publish |-> Post(<<"announcements", ":", "publish">>),
   unpublish |-> Post(<<"announcements", ":", "unpublish">>),
   delete |-> Delete(<<"announcements", ":">>)]

EmailCalls == [list |-> Get(<<"email-deliveries">>), detail |-> Get(<<"email-deliveries", ":">>)]

InApp == [fetch |-> Get(<<"notifications">>), read |-> Post(<<"notifications", ":", "read">>),
          archive |-> Post(<<"notifications", ":", "archive">>),
          delete |-> Delete(<<"notifications", ":">>)]

Template == [fetch |-> Get(<<"notification-templates">>),
             create |-> Post(<<"notification-templates">>),
             update |-> Patch(<<"notification-templates", ":">>)]

Subscription == [fetch |-> Get(<<"webhooks">>), create |-> Post(<<"webhooks">>),
                 update |-> Patch(<<"webhooks", ":">>), delete |-> Delete(<<"webhooks", ":">>),
                 eventTypes |-> Get(<<"webhook-event-types">>)]
WebhookCalls == [list |-> Get(<<"webhook-deliveries">>),
                 detail |-> Get(<<"webhook-deliveries", ":">>)]

Operations ==
  [onlineUsers |-> Get(<<"online-users">>), tasks |-> Get(<<"scheduled-tasks">>),
   create |-> Post(<<"scheduled-tasks">>), update |-> Patch(<<"scheduled-tasks", ":">>),
   status |-> OnRecord("scheduled-tasks", {"enable", "disable"}),
   run |-> Post(<<"scheduled-tasks", ":", "run">>),
   exports |-> Get(<<"import-export", "tasks">>),
   export |-> Get(<<"import-export", "tasks", ":">>),
   createExport |-> Post(<<"import-export", "export">>)]

File == [fetch |-> Get(<<"files">>), detail |-> Get(<<"files", ":">>), delete |-> Delete(<<"files", ":">>),
         upload |-> Post(<<"files", "upload">>), references |-> Get(<<"files", ":", "references">>),
         download |-> Get(<<"files", ":", "download">>), preview |-> Get(<<"files", ":", "preview">>)]

I18n == [fetch |-> Get(<<"i18n", "messages">>), update |-> Patch(<<"i18n", "messages", ":">>)]

ModuleCalls == [registry |-> Get(<<"modules", "registry">>), plan |-> Post(<<"modules", "sync", "plan">>),
                apply |-> Post(<<"modules", "sync", "apply">>)]

System ==
  [configs |-> Get(<<"system-config">>), updateConfig |-> Patch(<<"system-config", ":">>),
   types |-> Get(<<"dictionary-types">>), createType |-> Post(<<"dictionary-types">>),
   updateType |-> Patch(<<"dictionary-types", ":">>),
   items |-> Get(<<"dictionary-types", ":", "items">>),
   createItem |-> Post(<<"dictionary-types", ":", "items">>),
   updateItem |-> Patch(<<"dictionary-items", ":">>)]

-----------------------------------------------------------------------------
(* The pages.                                                                   *)

ProfilePage ==
  View({Read(<<"profile">>, Account.fetchProfile, {})},
       {Act({Account.updateOwnProfile, Account.updateOwnAvatar}, {}, {<<"profile">>})})
SettingsPage ==
  View({Read(<<"profile">>, Account.fetchProfile, {})},
       {Act({Account.updateOwnPreferences}, {}, {<<"profile">>})})

CoreKey(rest) == <<"core-management">> \o rest
Option(name, kind) == Read(CoreKey(name), CoreReads[kind], {})
CoreManagementPage(kind) ==
  View({Read(CoreKey(<<kind, "">>), CoreReads[kind], {})}
         \cup (IF kind \in {"users", "organizations", "menus"}
                 THEN {Option(<<"organizations", "options">>, "organizations")} ELSE {})
         \cup (IF kind = "users" THEN {Option(<<"roles", "options">>, "roles")} ELSE {})
         \cup (IF kind \in {"roles", "permissions"}
                 THEN {Option(<<"permissions", "all">>, "permissions")} ELSE {})
         \cup (IF kind = "roles"
                 THEN {Option(<<"roles", ":", "permissions">>, "rolePermissions")} ELSE {})
         \cup (IF kind = "menus"
                 THEN {Option(<<"menus", "options">>, "menus"),
                       Option(<<"api-permissions", "all">>, "apiPermissions")} ELSE {}),
       {Act(CoreActs[kind], {}, {CoreKey(<<>>)})}
         \cup (IF kind = "permissions"
                 THEN {Act({SyncAllPermissions}, {"permission:sync"}, {CoreKey(<<>>)})} ELSE {}))

LogsPage(kind) ==
  View({Read(<<"logs", kind>>, FetchLogs(kind), {})},
       {Act({CreateLogExportTask}, {"log:export"}, {<<"import-export-tasks">>})})

AnnouncementsPage ==
  LET all == {<<"announcements">>, <<"current-announcements">>}
  IN View({Read(<<"announcements">>, Announcement.fetch, {}),
           Read(<<"announcement-organizations">>, Announcement.fetchOrganizations,
                {"announcement:create", "announcement:update"})},
          {Act({Announcement.create}, {"announcement:create"}, all),
           Act({Announcement.update}, {"announcement:update"}, all),
           Act({Announcement.publish, Announcement.unpublish}, {"announcement:publish"}, all),
           Act({Announcement.delete}, {"announcement:delete"}, all)})
\* The panel of the shell, open over any page.
CurrentAnnouncementsPanel ==
  {Read(<<"current-announcements">>, Announcement.fetchCurrent, {})}

InAppNotificationsPage ==
  View({Read(<<"in-app-notifications">>, InApp.fetch, {})},
       {Act({InApp.read, InApp.archive, InApp.delete}, {"notification:update"},
            {<<"in-app-notifications">>})})

NotificationTemplatesPage ==
  LET all == {<<"notification-templates">>}
  IN View({Read(<<"notification-templates">>, Template.fetch, {})},
          {Act({Template.create}, {"notification-template:create"}, all),
           Act({Template.update}, {"notification-template:update"}, all)})

EventTypes == Read(<<"webhook-event-types">>, Subscription.eventTypes, {})
Subscriptions == Read(<<"webhook-subscriptions">>, Subscription.fetch, {})
WebhookSubscriptionsPanel ==
  LET all == {<<"webhook-subscriptions">>}
  IN View({Subscriptions, EventTypes},
          {Act({Subscription.create}, {"webhook:create"}, all),
           Act({Subscription.update}, {"webhook:update"}, all),
           Act({Subscription.delete}, {"webhook:delete"}, all)})
WebhookDeliveriesPanel ==
  View({Read(<<"webhook-deliveries">>, WebhookCalls.list, {}),
        Read(<<"webhook-delivery", ":">>, WebhookCalls.detail, {}), Subscriptions, EventTypes}, {})

EmailDeliveriesPage ==
  View({Read(<<"email-deliveries">>, EmailCalls.list, {}),
        Read(<<"email-delivery", ":">>, EmailCalls.detail, {})}, {})

OnlineUsersPage == View({Read(<<"online-users">>, Operations.onlineUsers, {})}, {})

SchedulerPage ==
  LET all == {<<"scheduled-tasks">>}
  IN View({Read(<<"scheduled-tasks">>, Operations.tasks, {})},
          {Act({Operations.create}, {"job:create"}, all),
           Act({Operations.update} \cup Operations.status, {"job:update"}, all),
           Act({Operations.run}, {"job:run"}, all)})

ImportExportPage ==
  View({Read(<<"import-export-tasks">>, Operations.exports, {}),
        Read(<<"import-export-task", ":">>, Operations.export, {})},
       {Act({Operations.createExport}, {"import-export:create"}, {<<"import-export-tasks">>})})

FilesPage ==
  LET all == {<<"files">>}
  IN View({Read(<<"files">>, File.fetch, {}), Read(<<"files", ":">>, File.detail, {}),
           Read(<<"files", ":", "references">>, File.references, {"file:references:view"})},
          {Act({File.upload}, {"file:upload"}, all),
           Act({File.delete}, {"file:delete"}, all \cup {<<"files", ":">>}),
           Act({File.download}, {"file:download"}, {}), Act({File.preview}, {"file:preview"}, {})})

I18nMessagesPage ==
  View({Read(<<"i18n-messages">>, I18n.fetch, {})},
       {Act({I18n.update}, {"i18n:update"}, {<<"i18n-messages">>})})

ModuleRegistryPage ==
  View({Read(<<"business-module-registry">>, ModuleCalls.registry, {}),
        Read(<<"business-module-sync-plan">>, ModuleCalls.plan, {})},
       {Act({ModuleCalls.apply}, {"module-registry:sync"},
            {<<"business-module-registry">>, <<"business-module-sync-plan">>})})

SystemConfigPage ==
  View({Read(<<"system-configs">>, System.configs, {})},
       {Act({System.updateConfig}, {"system-config:update"}, {<<"system-configs">>})})

DictionaryPage ==
  View({Read(<<"dictionary-types">>, System.types, {}),
        Read(<<"dictionary-items", ":">>, System.items, {})},
       {Act({System.createType}, {"dictionary:create"}, {<<"dictionary-types">>}),
        Act({System.updateType}, {"dictionary:update"}, {<<"dictionary-types">>}),
        Act({System.createItem}, {"dictionary:create"}, {<<"dictionary-items", ":">>}),
        Act({System.updateItem}, {"dictionary:update"}, {<<"dictionary-items", ":">>})})

\* The component the router mounts for a route, RoutePermissionGuard around it; the
\* two tabs of the webhook page take turns.
LogKinds == DOMAIN LogPath
LogCode == [login |-> "logs.login", operation |-> "logs.operation", access |-> "logs.access",
            api |-> "logs.api", exception |-> "logs.exception", security |-> "logs.security",
            scheduler |-> "logs.scheduler", files |-> "logs.files"]
CoreCode == [users |-> "system.users", organizations |-> "system.organizations",
             roles |-> "system.roles", permissions |-> "system.permissions",
             menus |-> "system.menus"]
ManagementRoutes ==
  {<<CoreCode[k], CoreManagementPage(k)>> : k \in DOMAIN CoreCode}
    \cup {<<LogCode[k], LogsPage(k)>> : k \in LogKinds}
    \cup {<<"notifications.in-app", InAppNotificationsPage>>,
          <<"notifications.announcements", AnnouncementsPage>>,
          <<"system.i18nMessages", I18nMessagesPage>>, <<"system.modules", ModuleRegistryPage>>,
          <<"system.files", FilesPage>>, <<"notifications.templates", NotificationTemplatesPage>>,
          <<"notifications.webhooks", WebhookSubscriptionsPanel>>,
          <<"notifications.webhooks", WebhookDeliveriesPanel>>,
          <<"notifications.email-deliveries", EmailDeliveriesPage>>,
          <<"operations.online-users", OnlineUsersPage>>, <<"operations.scheduler", SchedulerPage>>,
          <<"operations.import-export", ImportExportPage>>, <<"system.config", SystemConfigPage>>,
          <<"system.dictionaries", DictionaryPage>>, <<"account.profile", ProfilePage>>,
          <<"account.settings", SettingsPage>>}

-----------------------------------------------------------------------------
(* What is shown.                                                               *)

CONSTANTS Visited,     \* the routes whose pages are opened
          Kept         \* the keys that stay in the cache when nothing on the screen has them

VARIABLES view,     \* the page that is open
          chosen,   \* whether something is chosen on it
          panel,    \* whether the panel of current announcements is open
          fetches,  \* the reads in the cache, by key: how far the last fetch is, whether what it
                    \* brings is still true, whether an answer is there, and whether a change
                    \* that has made it untrue is over and has not started it again
          act       \* the change under way
webVars == <<view, chosen, panel, fetches, act>>

Views == {r[2] : r \in {x \in ManagementRoutes : x[1] \in Visited}}
AllReads == (UNION {r[2].reads : r \in ManagementRoutes}) \cup CurrentAnnouncementsPanel
CallOf(key) == (CHOOSE r \in AllReads : r.key = key).call
NoAct == [phase |-> "none", changes |-> "", refreshes |-> {}]

\* What a call reads or changes: a new export changes the list of them, and no other.
ResourceOf(call) ==
  IF call.path[1] = "dictionary-items" \/ call.path = <<"dictionary-types", ":", "items">>
    THEN "dictionary items"
  ELSE IF call = CreateLogExportTask THEN "import-export"
  ELSE IF call = Operations.export THEN "an export" ELSE call.path[1]

OnChoice(key) == \E i \in DOMAIN key : key[i] = ":"
KeysOf(reads) == {r.key : r \in reads}
MountedBy(v, c, p) ==
  KeysOf({r \in v.reads : c \/ ~OnChoice(r.key)})
    \cup (IF p THEN KeysOf(CurrentAnnouncementsPanel) ELSE {})
Mounted == MountedBy(view, chosen, panel)

\* A fetch that starts, of a key that has an answer or has none.
Asked(loaded) ==
  [phase |-> "asked", current |-> TRUE, loaded |-> loaded, missed |-> FALSE]
UnderWay(k) == fetches[k].phase # "shown"

\* A component that is mounted joins a fetch of its key that is under way, whoever it
\* was begun for, and else starts one: an answer in the cache is stale at once.
Fetched(k) == IF k \notin DOMAIN fetches THEN Asked(FALSE)
              ELSE IF UnderWay(k) THEN fetches[k] ELSE Asked(TRUE)
\* The components that stay mounted: those of the page, or the panel over it.
StayMounted(v, p) ==
  IF v = view THEN Mounted ELSE IF p /\ panel THEN KeysOf(CurrentAnnouncementsPanel) ELSE {}

\* Components are mounted and unmounted.  Of what is unmounted the cache keeps the
\* reads that are under way, and for some time the answers (here: of the keys Kept).
Mount(v, c, p) ==
  /\ view' = v /\ chosen' = c /\ panel' = p
  /\ \E kept \in SUBSET ((DOMAIN fetches \cap Kept) \ MountedBy(v, c, p)) :
       fetches' = [k \in MountedBy(v, c, p) \cup kept |->
         IF k \in kept \cup StayMounted(v, p) THEN fetches[k] ELSE Fetched(k)]
  /\ UNCHANGED act

WebInit ==
  /\ view \in Views /\ chosen = FALSE /\ panel = FALSE
  /\ fetches = [k \in MountedBy(view, FALSE, FALSE) |-> Asked(FALSE)]
  /\ act = NoAct

Open == \E v \in Views \ {view} : Mount(v, FALSE, panel)
Choose == Mount(view, ~chosen, panel)
TogglePanel == Mount(view, chosen, ~panel)

\* The server answers a read, and the answer arrives.  A read that fails is asked again.
ServerAnswers(k) ==
  /\ fetches[k].phase = "asked"
  /\ fetches' = [fetches EXCEPT ![k].phase = "answered"]
  /\ UNCHANGED <<view, chosen, panel, act>>
Arrives(k) ==
  /\ fetches[k].phase = "answered"
  /\ fetches' = [fetches EXCEPT ![k].phase = "shown", ![k].loaded = TRUE]
  /\ UNCHANGED <<view, chosen, panel, act>>

\* One change at a time: its button waits for the answer.
Send ==
  /\ act = NoAct
  /\ \E a \in view.acts : \E call \in a.calls :
       /\ call.method # "GET"
       /\ act' = [phase |-> "sent", changes |-> ResourceOf(call), refreshes |-> a.refreshes]
  /\ UNCHANGED <<view, chosen, panel, fetches>>

\* The server makes the change: what it has answered of the resource before is no
\* longer true.  Or it refuses, or the request never reaches it.
ServerChanges ==
  /\ act.phase = "sent"
  /\ act' = [act EXCEPT !.phase = "made"]
  /\ fetches' = [k \in DOMAIN fetches |->
       IF fetches[k].phase # "asked" /\ ResourceOf(CallOf(k)) = act.changes
       THEN [fetches[k] EXCEPT !.current = FALSE] ELSE fetches[k]]
  /\ UNCHANGED <<view, chosen, panel>>
Refused == act.phase = "sent" /\ act' = NoAct /\ UNCHANGED <<view, chosen, panel, fetches>>

\* invalidateQueries: a read whose key begins with the one named.
Begins(key, named) == Len(named) <= Len(key) /\ SubSeq(key, 1, Len(named)) = named

\* What the library leaves alone: a read no component on the screen has, which is
\* fetched when one has it again, and a first load, which is joined.
GoesOn(k) == k \notin Mounted \/ ~fetches[k].loaded

\* Mutant: cancelRefetch is off, and whatever is under way goes on.
IdleRestarts(k) == ~GoesOn(k) /\ ~UnderWay(k)

\* The others are cancelled, if they are under way, and start again.
Restarts(k) == ~GoesOn(k)

\* A fetch that goes on, or has come: the change may be one it knows nothing of.
Missing(k) == [fetches[k] EXCEPT !.missed = ~fetches[k].current]

\* onSuccess: the reads the change names start again, or go on.
Succeeds ==
  /\ act.phase = "made" /\ act' = NoAct
  /\ fetches' = [k \in DOMAIN fetches |->
       IF ~\E named \in act.refreshes : Begins(k, named) THEN fetches[k]
       ELSE IF Restarts(k) THEN Asked(TRUE)
       ELSE IF GoesOn(k) THEN Missing(k) ELSE fetches[k]]
  /\ UNCHANGED <<view, chosen, panel>>
\* The answer to a change that was made is lost: nothing starts again.
AnswerLost ==
  /\ act.phase = "made" /\ act' = NoAct
  /\ fetches' = [k \in DOMAIN fetches |-> Missing(k)]
  /\ UNCHANGED <<view, chosen, panel>>

WebNext ==
  \/ Open \/ Choose \/ TogglePanel \/ Send \/ ServerChanges \/ Refused \/ Succeeds \/ AnswerLost
  \/ \E k \in DOMAIN fetches : ServerAnswers(k) \/ Arrives(k)

WebSpec == WebInit /\ [][WebNext]_webVars

-----------------------------------------------------------------------------
Handled(call) == \E i \in DOMAIN Handlers : Handlers[i].method = call.method /\ Handlers[i].path = call.path
Required(call) ==
  {BaseApis[i].permission : i \in {j \in DOMAIN BaseApis : /\ BaseApis[j].method = call.method
                                                           /\ BaseApis[j].path = call.path}}
\* What the router asks for: the permission of the route.
RouteAsks(code) == (CHOOSE r \in AdminRoutes : r.code = code).permission

\* The pages of core management offer everything to whoever may view them, and the
\* announcement form lists the organizations: what the server then refuses fails.
Refusable(code) == code \in {CoreCode[k] : k \in DOMAIN CoreCode}
Suffices(code, call, asks) ==
  /\ Handled(call) /\ Required(call) # {}
  /\ \/ Required(call) \subseteq {SignedIn, RouteAsks(code)}
     \/ asks # {} /\ Required(call) = asks
     \/ Refusable(code) \/ call = Announcement.fetchOrganizations
OffersSuffice ==
  /\ \A route \in ManagementRoutes :
       /\ \A r \in route[2].reads : Suffices(route[1], r.call, r.asks)
       /\ \A a \in route[2].acts : \A call \in a.calls : Suffices(route[1], call, a.asks)
  /\ \A r \in AdminRoutes : r \in BaseRoutes
  /\ \A m \in MenuManifest : \A r \in AdminRoutes :
       m.path = r.path => m.permission = r.permission
  /\ \A m \in MenuManifest : m.parent = Top \/ \E n \in MenuManifest : n.code = m.parent
  /\ \A r \in AdminRoutes : r.permission \in {SignedIn} \cup BasePermissions

\* Nothing refreshes the announcement form's organizations, which a change begun on
\* another page may still reach.
NotRefreshed == {<<"announcement-organizations">>}

\* What the tables above owe the pages: offers that suffice; one call to a key;
\* and changes that name what they refresh, whatever page is open by then.
ASSUME PagesAgree ==
  /\ OffersSuffice
  /\ \A r, q \in AllReads : r.key = q.key => r.call = q.call
  /\ \A route \in ManagementRoutes : \A a \in route[2].acts : \A call \in a.calls : \A r \in AllReads :
       call.method # "GET" /\ ResourceOf(r.call) = ResourceOf(call) /\ r.key \notin NotRefreshed =>
         \E named \in a.refreshes : Begins(r.key, named)

\* A page offers only what the API serves, under the permission the API will ask
\* for; the routes, menus and pages agree; and once nothing is under way, whatever
\* is shown is what the server has.  The exceptions are answers from before a change
\* whose own answer was lost, or came while the fetch was the first of its key, or one
\* begun for a component that was gone by then; each lasts until the next fetch.
WebPagesAreSound ==
  /\ OffersSuffice
  /\ act = NoAct =>
       \A k \in Mounted \ NotRefreshed :
         ~UnderWay(k) /\ ~fetches[k].missed => fetches[k].current

\* What a page shows and sends is what its user has seen and may do.
PagesAreSound == WebPagesAreSound /\ SavesAreMeant
=============================================================================
