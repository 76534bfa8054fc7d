----------------------------- MODULE MCBackOffice -----------------------------
(* Values for model checking the parts of the back office.  Each behaviour is  *)
(* of one part: the others, which share no table with it, stay as they are.    *)
EXTENDS CoreStore, ModuleLifecycle, Announcements, BackOffice, Notifications,
        ModuleConformance

CONSTANTS Parts,                   \* the parts a run checks
          MaxAnnouncementRequests  \* requests of announcements that begin
VARIABLES part,
          begun   \* of them so far

\* ModuleLifecycle: a becomes another module with the third release, which
\* gives up a2; b comes with the second; a goes with the fourth.
MCModuleOf == [p \in Permissions |-> IF p = "b1" THEN "b" ELSE "a"]
MCShips == <<{"a"}, {"a", "b"}, {"a", "b"}, {"b"}>>
MCHash == [r \in 1 .. 4 |-> [m \in {"a", "b"} |-> IF m = "a" /\ r >= 3 THEN 2 ELSE 1]]
MCPermissionsOf ==
  [r \in 1 .. 4 |-> [m \in {"a", "b"} |->
     IF m = "b" THEN {"b1"} ELSE IF r >= 3 THEN {"a2"} ELSE {"a1", "a2"}]]

\* MenuTree: two base menus, and one of a module below them.
MCBaseMenus == <<[code |-> "system", path |-> "/system", parent |-> NoParent],
                 [code |-> "menus", path |-> "/menus", parent |-> "system"]>>
MCModuleMenus == <<[code |-> "own", path |-> "/own", parent |-> "menus"]>>

\* Migrations: of three releases, one of which has edited a migration.
Migrated(id, source, checksum) == [id |-> id, source |-> source, checksum |-> checksum]
MCPlans ==
  LET first == Migrated("0001", "base-system", 1)
      second == Migrated("0002", "base-system", 1)
      m1 == Migrated("m1", "module-m", 1)
  IN <<<<first, m1>>,
       <<first, second, m1, Migrated("m2", "module-m", 1)>>,
       <<first, Migrated("0002", "base-system", 2), Migrated("n1", "module-n", 1)>>>>

\* MetadataCatalog: codes and endpoints change places from release to release.
Api(code, endpoint) == [code |-> code, endpoint |-> endpoint]
MCApiManifests == <<<<Api("c1", "e1"), Api("c2", "e2")>>, <<Api("c3", "e1"), Api("c2", "e2")>>,
                    <<Api("c3", "e3"), Api("c2", "e1"), Api("c1", "e2")>>,
                    <<Api("c1", "e1"), Api("c2", "e2")>>>>
MCPermManifests == <<{"p", "q"}, {"p"}, {"q"}, {"p", "q"}>>

\* SystemSetup: requests that agree in one of the two names, in both or in none.
MCOrganizationOf == [q \in Setups |-> IF q \in {"s1", "s3"} THEN "hq" ELSE "main"]
MCAdministratorOf == [q \in Setups |-> IF q = "s4" THEN "root" ELSE "admin"]

\* NotificationTemplates: one template of each channel, rows that were written
\* under any of the rules, and inputs that give some of the fields.
MCChannel == <<"in_app", "email">>
MCInputs == {[body |-> {"x"}, declared |-> {"x"}], [body |-> {}], [declared |-> {}],
             [enabled |-> FALSE], [subject |-> {"x"}, titled |-> TRUE]}
MCRows == {[titled |-> t, subject |-> {}, body |-> b, declared |-> b, enabled |-> TRUE] :
             t \in BOOLEAN, b \in {{}, {"x"}}}

\* SystemSettings: the second release has one text less.
MCTextsOf == <<<<"d1", "d1">>, <<"d2">>>>

\* ModuleConformance: m has a contribution of each kind that needs code, n an API.
Contribution(kind, namespace, place, refs, directions, operators, schemas) ==
  [kind |-> kind, id |-> namespace, namespace |-> namespace, place |-> place, refs |-> refs,
   within |-> TRUE, directions |-> directions, operators |-> operators, schemas |-> schemas]
Bare(kind, namespace, schemas) == Contribution(kind, namespace, "", {}, {}, {}, schemas)
MCContributions ==
  {Bare("permission", m, {}) : m \in {"m", "n"}}
    \cup {Contribution("api", m, m, {<<"permission", m>>}, {}, {}, {}) : m \in {"m", "n"}}
    \cup {Contribution("route", "m", "page", {<<"permission", "m">>, <<"menu", "system">>}, {}, {}, {}),
          Contribution("csv", "m", "", {<<"permission", "m">>}, {"import", "export"}, {}, {}),
          Contribution("resource", "m", "", {<<"permission", "m">>}, {}, {"own"}, {}),
          Bare("attachment", "m", {}), Bare("job", "m", {"work"}),
          Bare("notification", "m", {"values"}), Bare("domainEvent", "m", {"payload"})}

-----------------------------------------------------------------------------
\* With announcements the tree has two organizations, on two levels.
Depth == IF part = "announcements" THEN 2 ELSE MaxLevel
Small == /\ depth' = depth /\ Created' \in {{}, {1}, {1, 2}}
         /\ \A o \in Created' : orgs'[o].status = "enabled"

\* So many requests begin.  One has the first slot that is free and begins in a process that is busy
\* or in the first that is not: slots are alike, and so are idle processes.
Busy == {r \in AnnouncementRequests : pendingRequests[r].step # "no"}
InOrder ==
  LET news == {r \in AnnouncementRequests \ Busy : pendingRequests'[r].step # "no"}
      busy == {pendingRequests[s].process : s \in Busy}
  IN /\ begun' = begun + Cardinality(news) /\ begun' <= MaxAnnouncementRequests
     /\ \A r \in news :
          LET p == pendingRequests'[r].process IN
          /\ \A s \in 1 .. r - 1 : s \in Busy
          /\ p \in busy \/ \A o \in 1 .. p - 1 : o \in busy

\* With announcements there may be a draft, and a request more to come.
Drafted ==
  \E draft \in IF part = "announcements" THEN BOOLEAN ELSE {FALSE} :
     /\ announcements = [a \in AnnouncementIds |-> IF draft THEN [NoAnnouncement EXCEPT !.status = "draft"]
                                                  ELSE NoAnnouncement]
     /\ begun = IF draft THEN 0 ELSE 1

MCInit ==
  /\ part \in Parts
  /\ StoreInit /\ ModulesInit /\ MenusInit /\ MigrationsInit /\ CatalogInit /\ SetupInit
  /\ NotificationsInit /\ Drafted /\ NothingPending /\ TemplatesInit /\ SettingsInit
  /\ ConformanceInit /\ (part # "conformance" => mounted = {})
  /\ orgs = [o \in Organizations |-> Nowhere] /\ depth = Depth

\* A step of one part: the other parts' variables stay as they are.
Stays(p, vars) == IF part = p THEN TRUE ELSE UNCHANGED vars
Alone ==
  /\ UNCHANGED part
  /\ Stays("store", storeVars) /\ Stays("modules", modulesVars)
  /\ IF part \in {"tree", "announcements"} THEN TRUE ELSE UNCHANGED treeVars
  /\ Stays("announcements", <<announcementVars, begun>>) /\ Stays("menus", menuVars)
  /\ Stays("migrations", migrationVars) /\ Stays("catalog", catalogVars)
  /\ Stays("setup", setupVars) /\ Stays("notifications", inboxVars)
  /\ Stays("templates", templateVars) /\ Stays("settings", settingVars)
  /\ Stays("conformance", conformanceVars)

\* One of the modules has a job.
OneJob == schedules' \cup enabling' \subseteq {"a"}

\* Of the menus the last one is bound to APIs.
OneBound == bindings' \subseteq {MaxMenus}

MCNext ==
  \/ part = "store" /\ StoreNext /\ Alone
  \/ part = "modules" /\ ModulesNext /\ OneJob /\ Alone
  \/ part = "tree" /\ TreeNext /\ Alone
  \/ part = "announcements" /\ AnnouncementsNext /\ Small /\ InOrder /\ Alone
  \/ part = "menus" /\ MenusNext /\ OneBound /\ Alone
  \/ part = "migrations" /\ MigrationsNext /\ Alone
  \/ part = "catalog" /\ CatalogNext /\ Alone
  \/ part = "setup" /\ SetupNext /\ Alone
  \/ part = "notifications" /\ NotificationsNext /\ Alone
  \/ part = "templates" /\ TemplatesNext /\ Alone
  \/ part = "settings" /\ SettingsNext /\ Alone
  \/ part = "conformance" /\ ConformanceNext /\ Alone
=============================================================================
