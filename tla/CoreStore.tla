------------------------------ MODULE CoreStore ------------------------------
(***************************************************************************)
(* What every operation of the backend core changes in memory, which       *)
(* tables are saved for it, what a restart loads, and what the             *)
(* synchronization of business modules, which writes the same tables past  *)
(* the memory, does to all that.                                           *)
(*                                                                         *)
(* A row is the set of the changes made to it: changes are numbered, the   *)
(* empty set is a row that does not exist, and a hard deletion is a change *)
(* of the row like any other.  A save is one step here; how its statements *)
(* interleave is CorePersistence's subject.                                *)
(***************************************************************************)
EXTENDS Integers, Sequences, FiniteSets

CONSTANTS
  UsedOperations,  \* the operations of Catalogue that are performed
  Dialect,         \* "sqlite" or "postgresql": where a new row's id comes from
  MaxChanges,      \* operations performed
  MaxIds,          \* ids of one table
  MaxMetadataApplies,      \* synchronizations of the business modules
  MaxSaveFailures, \* saves that fail
  MaxRestarts      \* exits of the process

VARIABLES memory,      \* the in-memory store
          sequences,   \* its last id of each table
          tables,      \* the rows of the database
          serial,      \* the database's own last id of each table
          log,         \* the operation behind each change
          reserved,    \* the id of the user a change is about to insert
          state,       \* where each change is
          loaded,      \* what a synchronization has read, if one is at it
          applied,     \* the process has synchronized modules since its start
          overwritten, \* changes a synchronization or a reused id has undone
          faults       \* applies, failed saves and restarts so far

storeVars == <<memory, sequences, tables, serial, log, reserved, state,
               loaded, applied, overwritten, faults>>

-----------------------------------------------------------------------------
\* Mutant: the grants are left to the permissions' repository.
RolesAlone == {"roles"}

\* The tables an aggregate repository replaces for its scope.
RoleTables == {"roles", "rolePermissions"}
PermissionTables == {"permissions", "apiPermissions", "rolePermissions", "menuApiBindings"}
MenuTables == {"menus", "menuApiBindings"}
ExtensionTables == {"roleDataPermissions", "fieldPermissionRules", "userPermissionOverrides"}
SessionTables == {"authSessions", "refreshTokens"}
SingleTables == {"organizations", "users", "userPreferences", "userOrganizationRoles",
                 "routeMetadata", "initializationState"}
Tables == UNION {RoleTables, PermissionTables, MenuTables, ExtensionTables, SessionTables,
                 SingleTables}

TablesOf(scope) ==
  CASE scope = "roles" -> RoleTables
    [] scope = "permissions" -> PermissionTables
    [] scope = "menus" -> MenuTables
    [] scope = "permissionExtensions" -> ExtensionTables
    [] scope = "authSessions" -> SessionTables
    [] scope = "all" -> Tables
    [] OTHER -> {scope}

\* What a synchronization writes, and what it then reloads.
ModuleTables == {"permissions", "apiPermissions", "routeMetadata", "menus"}
Reloaded == ModuleTables \cup {"menuApiBindings", "roleDataPermissions",
                               "userPermissionOverrides", "rolePermissions"}

\* adds: tables that get a row; writes: tables of which a row is changed;
\* unsaved: tables it changes too, which its scopes leave out.
Op(adds, writes, unsaved, saves) ==
  [adds |-> adds, writes |-> writes, unsaved |-> unsaved, saves |-> saves,
   optional |-> FALSE, background |-> FALSE]
InBackground(op) == [op EXCEPT !.background = TRUE]
IfMissing(op) == [op EXCEPT !.optional = TRUE]   \* the row may be there already

SessionOperations == [
  login |-> Op({"authSessions", "refreshTokens"}, {"users"}, {"userPreferences"},
               {"users", "authSessions"}),
  refusedLogin |-> Op({}, {}, {"users"}, {}),
  authenticate |-> Op({}, {}, {"authSessions", "users"}, {}),
  refreshAccessToken |-> Op({}, {"authSessions"}, {"users"}, {"authSessions"}),
  logout |-> Op({}, {"authSessions", "refreshTokens"}, {}, {"authSessions"}),
  changePassword |-> Op({}, {"users"}, {}, {"users"}),
  switchCurrentOrganization |-> Op({}, {"authSessions"}, {}, {"authSessions"}),
  listOnlineUsers |-> InBackground(Op({}, {"authSessions"}, {}, {"authSessions"}))]

ProfileOperations == [
  updateOwnProfile |-> IfMissing(Op({"userPreferences"}, {"users"}, {}, {"users", "userPreferences"})),
  updateOwnAvatar |-> IfMissing(Op({"userPreferences"}, {"users"}, {}, {"users", "userPreferences"})),
  updateOwnPreferences |-> Op({}, {"userPreferences"}, {}, {"userPreferences"})]

OrganizationOperations == [
  createOrganization |-> Op({"organizations"}, {}, {}, {"organizations"}),
  updateOrganization |-> Op({}, {"organizations"}, {}, {"organizations"}),
  disableOrganization |-> Op({}, {"organizations"}, {}, {"organizations"}),
  enableOrganization |-> Op({}, {"organizations"}, {}, {"organizations"}),
  deleteOrganization |-> Op({}, {"organizations", "userOrganizationRoles"}, {},
                            {"organizations", "userOrganizationRoles"})]

UserOperations == [
  createUser |-> Op({"users", "userOrganizationRoles"}, {}, {},
                    {"users", "userOrganizationRoles"}),
  updateUser |-> Op({}, {"users", "userOrganizationRoles"}, {},
                    {"users", "userOrganizationRoles"}),
  setUserStatus |-> Op({}, {"users"}, {}, {"users"}),
  resetUserPassword |-> Op({}, {"users"}, {}, {"users"}),
  deleteUser |-> Op({}, {"users", "userOrganizationRoles"}, {},
                    {"users", "userOrganizationRoles"}),
  assignUserOrganizationRole |-> IfMissing(Op({"userOrganizationRoles"}, {"userOrganizationRoles"}, {},
                                    {"users", "userOrganizationRoles"})),
  removeUserOrganizationRole |-> Op({}, {"userOrganizationRoles"}, {},
                                    {"users", "userOrganizationRoles"})]

RoleOperations == [
  createRole |-> InBackground(Op({"roles"}, {}, {}, {"roles"})),
  copyRole |-> InBackground(Op({"roles"}, {"rolePermissions"}, {}, {"roles"})),
  updateRole |-> Op({}, {"roles"}, {}, {"roles"}),
  setRoleStatus |-> Op({}, {"roles"}, {}, {"roles"}),
  deleteRole |-> Op({}, {"roles", "userOrganizationRoles", "rolePermissions"}, {},
                    {"roles", "userOrganizationRoles"}),
  updateRolePermissions |-> Op({}, {"rolePermissions"}, {}, {"roles"})]

ExtensionOperations == [
  updateRoleDataPermissions |-> IfMissing(Op({"roleDataPermissions"}, {"roleDataPermissions"}, {},
                                   {"permissionExtensions"})),
  updateRoleFieldPermissions |-> IfMissing(Op({"fieldPermissionRules"}, {"fieldPermissionRules"}, {},
                                    {"permissionExtensions"})),
  updateUserPermissionOverrides |->
    IfMissing(Op({"userPermissionOverrides"}, {"userPermissionOverrides"}, {}, {"permissionExtensions"}))]

MetadataOperations == [
  syncPermissions |-> IfMissing(Op({"permissions", "apiPermissions"},
                         {"permissions", "apiPermissions", "rolePermissions",
                          "menuApiBindings"}, {}, {"permissions"})),
  syncRoutes |-> IfMissing(Op({"routeMetadata"}, {"routeMetadata"}, {}, {"routeMetadata"})),
  createMenu |-> Op({"menus"}, {}, {}, {"menus"}),
  updateMenu |-> Op({}, {"menus"}, {}, {"menus"}),
  deleteMenu |-> Op({}, {"menus", "menuApiBindings"}, {}, {"menus"}),
  updateMenuApiBindings |-> IfMissing(Op({"menuApiBindings"}, {"menuApiBindings"}, {}, {"menus"}))]

SetupOperations == [
  seedInitialization |-> Op({}, {"permissions", "apiPermissions", "roles", "rolePermissions",
                                 "routeMetadata", "menus", "userOrganizationRoles"}, {},
                            {"all"})]

Joined(f, g) == [o \in DOMAIN f \cup DOMAIN g |-> IF o \in DOMAIN f THEN f[o] ELSE g[o]]
Catalogue ==
  Joined(Joined(Joined(SessionOperations, ProfileOperations),
                Joined(OrganizationOperations, UserOperations)),
         Joined(Joined(RoleOperations, ExtensionOperations),
                Joined(MetadataOperations, SetupOperations)))

ASSUME StoreAssumption ==
  /\ UsedOperations \subseteq DOMAIN Catalogue
  /\ Dialect \in {"sqlite", "postgresql"}
  /\ {MaxChanges, MaxMetadataApplies, MaxSaveFailures, MaxRestarts} \subseteq Nat
  /\ MaxIds \in Nat \ {0}

Durable(op) == op.writes \cup IF op.optional THEN {} ELSE op.adds
SavedTables(op) == UNION {TablesOf(s) : s \in op.saves}

-----------------------------------------------------------------------------
Ids == 1 .. MaxIds
ByInstall == 0                 \* the rows the system is installed with
ByModule == MaxChanges + 1     \* what a synchronization inserts
Changes == 1 .. MaxChanges
Marks == 0 .. MaxChanges + 1
Store == [Tables -> [Ids -> SUBSET Marks]]

States == {"none", "hashing", "waiting", "saved", "failed", "refused", "gone"}

StoreTypeOK ==
  /\ memory \in Store /\ tables \in Store
  /\ sequences \in [Tables -> Nat] /\ serial \in [Tables -> Nat]
  /\ log \in Seq(UsedOperations) /\ Len(log) <= MaxChanges
  /\ reserved \in [Changes -> 0 .. MaxIds]
  /\ state \in [Changes -> States]
  /\ \A found \in loaded : found \in Store
  /\ applied \in BOOLEAN
  /\ overwritten \subseteq Marks
  /\ faults \in [applies : 0 .. MaxMetadataApplies, saves : 0 .. MaxSaveFailures,
                 restarts : 0 .. MaxRestarts]

Installed == [t \in Tables |-> [i \in Ids |-> IF i = 1 THEN {ByInstall} ELSE {}]]

StoreInit ==
  /\ memory = Installed /\ tables = Installed
  /\ sequences = [t \in Tables |-> 1] /\ serial = [t \in Tables |-> 1]
  /\ log = <<>>
  /\ reserved = [n \in Changes |-> 0]
  /\ state = [n \in Changes |-> "none"]
  /\ loaded = {} /\ applied = FALSE /\ overwritten = {}
  /\ faults = [applies |-> 0, saves |-> 0, restarts |-> 0]

-----------------------------------------------------------------------------
(* Operations.                                                              *)

Held(store) == UNION {store[t][i] : t \in Tables, i \in Ids}
Present(store, t) == {i \in Ids : store[t][i] # {}}
Operation(n) == Catalogue[log[n]]
NextChange == Len(log) + 1
Performs(o) == o \in UsedOperations /\ NextChange <= MaxChanges

\* nextId of the store, then Map.set: what was under the id is gone.
Added(t, n) == [memory[t] EXCEPT ![sequences[t] + 1] = {n}]
Sequenced(ts) == [t \in Tables |-> sequences[t] + IF t \in ts THEN 1 ELSE 0]
HasIds(ts) == \A t \in ts : sequences[t] < MaxIds
Replaced(ts) == UNION {memory[t][sequences[t] + 1] : t \in ts}

\* The operation is synchronous up to the save: one new row in each table of
\* adds and one changed row in each other table.
Change(o) ==
  LET op == Catalogue[o]
      n == NextChange
      touched == op.writes \cup op.unsaved
  IN
  /\ Performs(o) /\ o # "createUser"
  /\ \E added \in {op.adds} \cup (IF op.optional THEN {{}} ELSE {}) :
       /\ HasIds(added)
       /\ \E row \in [touched -> Ids] :
            /\ \A t \in touched : row[t] \in Present(memory, t)
            /\ memory' = [t \in Tables |-> [i \in Ids |->
                 (IF t \in added /\ i = sequences[t] + 1 THEN {n} ELSE memory[t][i])
                   \cup IF t \in touched /\ i = row[t] THEN {n} ELSE {}]]
       /\ sequences' = Sequenced(added)
       /\ overwritten' = overwritten \cup Replaced(added)
  /\ log' = Append(log, o)
  /\ state' = [state EXCEPT ![n] = IF op.saves = {} THEN "refused" ELSE "waiting"]
  /\ UNCHANGED <<tables, serial, reserved, loaded, applied, faults>>

\* Every createUser of the model asks for one username.
NameOwners(store) ==
  {i \in Ids : \E n \in store.users[i] \cap (1 .. Len(log)) : log[n] = "createUser"}

\* createRecord looks for the name, takes an id and waits for the hash.
CheckNewUser ==
  /\ Performs("createUser") /\ HasIds({"users"})
  /\ NameOwners(memory) = {}
  /\ reserved' = [reserved EXCEPT ![NextChange] = sequences.users + 1]
  /\ sequences' = Sequenced({"users"})
  /\ log' = Append(log, "createUser")
  /\ state' = [state EXCEPT ![NextChange] = "hashing"]
  /\ UNCHANGED <<memory, tables, serial, loaded, applied, overwritten, faults>>

InsertUser(n) ==
  LET binding == "userOrganizationRoles" IN
  /\ state[n] = "hashing" /\ HasIds({binding})
  /\ memory' = [memory EXCEPT !.users[reserved[n]] = {n}, ![binding] = Added(binding, n)]
  /\ sequences' = Sequenced({binding})
  /\ overwritten' = overwritten \cup memory.users[reserved[n]] \cup Replaced({binding})
  /\ state' = [state EXCEPT ![n] = "waiting"]
  /\ UNCHANGED <<tables, serial, log, reserved, loaded, applied, faults>>

-----------------------------------------------------------------------------
(* Saves.                                                                   *)

\* Mutant: hydrateSequences has forgotten the table.
NotHydrated(store, t) == 0

\* hydrateSequences
Highest(store, t) == CHOOSE i \in Ids \cup {0} :
                       /\ i = 0 \/ store[t][i] # {}
                       /\ \A j \in Present(store, t) : j <= i

\* SQLite's AUTOINCREMENT follows the ids that are inserted, SERIAL does not.
SerialAfter(ts) ==
  [t \in Tables |-> IF Dialect = "sqlite" /\ t \in ts /\ Highest(memory, t) > serial[t]
                      THEN Highest(memory, t) ELSE serial[t]]

\* users_username_unique
Violates(n) == "users" \in SavedTables(Operation(n)) /\ Cardinality(NameOwners(memory)) > 1

\* A save chained by persistSync that has failed rejects every later one.
ChainBroken == \E n \in 1 .. Len(log) : Operation(n).background /\ state[n] = "failed"

SaveCommits(n) ==
  LET ts == SavedTables(Operation(n)) IN
  /\ state[n] = "waiting" /\ ~Violates(n) /\ ~ChainBroken
  /\ tables' = [t \in Tables |-> IF t \in ts THEN memory[t] ELSE tables[t]]
  /\ serial' = SerialAfter(ts)
  /\ state' = [state EXCEPT ![n] = "saved"]
  /\ UNCHANGED <<memory, sequences, log, reserved, loaded, applied, overwritten, faults>>

\* Rolled back; the memory keeps the change.
SaveFails(n) ==
  /\ state[n] = "waiting"
  /\ \/ (Violates(n) \/ ChainBroken) /\ UNCHANGED faults
     \/ /\ faults.saves < MaxSaveFailures
        /\ faults' = [faults EXCEPT !.saves = @ + 1]
  /\ state' = [state EXCEPT ![n] = "failed"]
  /\ UNCHANGED <<memory, sequences, tables, serial, log, reserved, loaded, applied,
                 overwritten>>

-----------------------------------------------------------------------------
(* The synchronization of modules.                                          *)

\* One base entry is updated by its code, and one entry of a module inserted
\* with an id of the database's own.  ON CONFLICT takes a number of SERIAL.
Taken == IF Dialect = "sqlite" THEN 0 ELSE 1
ModuleId(t) == serial[t] + Taken + 1
ApplyNumbers == serial' = [t \in Tables |-> IF t \in ModuleTables THEN ModuleId(t) ELSE serial[t]]

Apply ==
  /\ faults.applies < MaxMetadataApplies /\ loaded = {}
  /\ \A t \in ModuleTables : ModuleId(t) <= MaxIds
  /\ faults' = [faults EXCEPT !.applies = @ + 1]
  /\ IF \E t \in ModuleTables : tables[t][ModuleId(t)] # {}
       THEN UNCHANGED <<tables, loaded, overwritten>>   \* the id is taken: rolled back
       ELSE /\ tables' = [t \in Tables |->
                           IF t \in ModuleTables
                             THEN [tables[t] EXCEPT ![1] = {ByInstall}, ![ModuleId(t)] = {ByModule}]
                             ELSE tables[t]]
            /\ overwritten' = overwritten
                 \cup ((UNION {tables[t][1] : t \in ModuleTables}) \ {ByInstall})
            /\ loaded' = {tables'}
  /\ ApplyNumbers
  /\ UNCHANGED <<memory, sequences, log, reserved, state, applied>>

NotFound(found) ==
  {m \in Marks : \E t \in Reloaded, i \in Ids : m \in memory[t][i] \ found[t][i]}

\* refreshBusinessModuleMetadata has loaded everything again and replaces what
\* it reloads; the sequences stay as they were.
Refresh ==
  /\ \E found \in loaded :
       /\ memory' = [t \in Tables |-> IF t \in Reloaded THEN found[t] ELSE memory[t]]
       /\ overwritten' = overwritten \cup NotFound(found)
  /\ applied' = TRUE /\ loaded' = {}
  /\ UNCHANGED <<sequences, tables, serial, log, reserved, state, faults>>

\* The load is repeated while it runs: it may see any later state of the tables.
LoadSees ==
  /\ loaded # {} /\ loaded # {tables}
  /\ loaded' = {tables}
  /\ UNCHANGED <<memory, sequences, tables, serial, log, reserved, state, applied,
                 overwritten, faults>>

\* The process exits and starts again: load and hydrateSequences.
Restart ==
  /\ faults.restarts < MaxRestarts
  /\ faults' = [faults EXCEPT !.restarts = @ + 1]
  /\ memory' = tables
  /\ sequences' = [t \in Tables |-> Highest(tables, t)]
  /\ state' = [n \in Changes |-> IF state[n] \in {"none", "saved"} THEN state[n] ELSE "gone"]
  /\ loaded' = {} /\ applied' = FALSE
  /\ UNCHANGED <<tables, serial, log, reserved, overwritten>>

StoreNext ==
  \/ \E o \in UsedOperations : Change(o)
  \/ CheckNewUser
  \/ \E n \in Changes : InsertUser(n) \/ SaveCommits(n) \/ SaveFails(n)
  \/ Apply \/ LoadSees \/ Refresh
  \/ Restart

StoreSpec == StoreInit /\ [][StoreNext]_storeVars

-----------------------------------------------------------------------------
(* Properties.                                                              *)

\* What a request was told is saved survives every restart, in each table it
\* has changed, unless a synchronization of modules or an id that one had
\* given away has undone it.
AcknowledgedSurvives ==
  \A n \in Changes \ overwritten :
     state[n] = "saved" => \A t \in Durable(Operation(n)) : \E i \in Ids : n \in tables[t][i]

\* Until the process has synchronized modules, only a restart takes a change
\* out of the memory: no row is created over another one.
MemoryKeepsChanges ==
  [][memory' # memory /\ ~applied /\ loaded = {}
       => faults'.restarts > faults.restarts \/ Held(memory) \subseteq Held(memory')]_storeVars

\* When two requests have created users of one name, no user is saved any more
\* and no request that changes users succeeds, until the process starts again.
TwinsBlockUsers ==
  [][Cardinality(NameOwners(memory)) > 1 /\ faults'.restarts = faults.restarts
       => /\ tables'.users = tables.users
          /\ \A n \in 1 .. Len(log) : "users" \in SavedTables(Operation(n)) =>
                (state'[n] = "saved" => state[n] = "saved")]_storeVars

\* What a request has made of the memory stays there, for itself and for the
\* requests after it, and what it was told is saved in the tables.
ChangesAreKept ==
  [](StoreTypeOK /\ AcknowledgedSurvives) /\ MemoryKeepsChanges /\ TwinsBlockUsers
=============================================================================
