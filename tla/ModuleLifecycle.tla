---------------------------- MODULE ModuleLifecycle ----------------------------
(***************************************************************************)
(* Which business modules a release ships, which of them the database has  *)
(* accepted, and what that means for permissions, role grants, schedules   *)
(* and the worker's handlers.  A release is deployed by starting the       *)
(* processes again; an administrator accepts it with a synchronization,    *)
(* in the running API or by the command line, which is a process of its    *)
(* own and may be of the next release already.                             *)
(*                                                                         *)
(* A permission stands for every row a module contributes (permission, API,*)
(* route, menu, message): all are inserted, enabled and disabled alike.    *)
(***************************************************************************)
EXTENDS Integers, FiniteSets

CONSTANTS
  Modules,        \* module codes
  Permissions,    \* permission codes, each of one module
  ModuleOf,       \* the module of a permission
  Roles,
  Releases,       \* releases of the system, 1 .. n, deployed in this order
  Ships,          \* the modules of a release
  DefinitionOf,   \* definitionHash of a module in a release
  ActivationOf,   \* activationHash
  PermissionsOf,  \* the permissions of a module in a release
  MaxGrantEdits,  \* edits of role permissions
  MaxApplies      \* synchronizations that reach the database

ASSUME ModulesAssumption ==
  /\ Releases \in Nat \ {0}
  /\ ModuleOf \in [Permissions -> Modules]
  /\ Ships \in [1 .. Releases -> SUBSET Modules]
  /\ PermissionsOf \in [1 .. Releases -> [Modules -> SUBSET Permissions]]
  /\ \A r \in 1 .. Releases, m \in Modules :
       \A p \in PermissionsOf[r][m] : ModuleOf[p] = m
  /\ \A r, s \in 1 .. Releases, m \in Modules :
       /\ DefinitionOf[r][m] = DefinitionOf[s][m] => ActivationOf[r][m] = ActivationOf[s][m]
       /\ ActivationOf[r][m] = ActivationOf[s][m] => PermissionsOf[r][m] = PermissionsOf[s][m]
  /\ MaxGrantEdits \in Nat /\ MaxApplies \in Nat

VARIABLES running,     \* the release of the API process
          entries,     \* business_module_registry_entries
          registry,    \* business_module_registry_state: the accepted release
          statuses,    \* permissions in the database
          grants,      \* role_permissions in the database
          live,        \* permissions and role grants in the API's memory
          schedules,   \* modules with an enabled scheduled job
          enabling,    \* modules whose job an administrator is enabling
          dictionary,  \* the dictionary type the modules depend on is enabled
          applying,    \* where the API's synchronization is
          command,     \* where the command line's is, and its release
          behind,      \* the command line has synchronized and the API's memory knows nothing of it
          worker,      \* the worker's release and the modules it has handlers of
          authorised,  \* grants given and neither withdrawn nor up for removal
          restored,    \* other grants, which a save of roles wrote back from a memory that was behind
          spent        \* edits and applies so far

apiVars == <<running, live, applying>>
tableVars == <<entries, registry, statuses, grants>>
modulesVars == <<apiVars, tableVars, schedules, enabling, dictionary, command, behind, worker,
                 authorised, restored, spent>>

-----------------------------------------------------------------------------
Grants == Roles \X Permissions
Status == {"absent", "enabled", "disabled"}

\* A synchronization has read its plan, with changes or without, and has committed.
ApplySteps == {"no", "unchanged", "changed", "committed"}
NoCommand == [step |-> "no", release |-> 1]

\* An entry names the release whose definition was accepted.
Entry == [status : {"absent", "active", "disabled"}, release : 0 .. Releases]

ModulesTypeOK ==
  /\ running \in 1 .. Releases
  /\ entries \in [Modules -> Entry] /\ registry \in 0 .. Releases
  /\ statuses \in [Permissions -> Status] /\ grants \subseteq Grants
  /\ live \in [statuses : [Permissions -> Status], grants : SUBSET Grants]
  /\ schedules \subseteq Modules /\ enabling \subseteq Modules
  /\ dictionary \in BOOLEAN
  /\ applying \in ApplySteps /\ command \in [step : ApplySteps, release : 1 .. Releases]
  /\ behind \in BOOLEAN
  /\ worker \in [release : 1 .. Releases, handlers : SUBSET Modules]
  /\ authorised \subseteq Grants /\ restored \subseteq Grants
  /\ spent \in [edits : 0 .. MaxGrantEdits, applies : 0 .. MaxApplies]

Shipped(r) == UNION {PermissionsOf[r][m] : m \in Ships[r]}

\* An initialized system: bootstrap has accepted the first release.
ModulesInit ==
  LET accepted == [p \in Permissions |-> IF p \in Shipped(1) THEN "enabled" ELSE "absent"] IN
  /\ running = 1 /\ registry = 1
  /\ entries = [m \in Modules |-> IF m \in Ships[1] THEN [status |-> "active", release |-> 1]
                                  ELSE [status |-> "absent", release |-> 0]]
  /\ statuses = accepted /\ grants = {}
  /\ live = [statuses |-> accepted, grants |-> {}]
  /\ schedules = {} /\ enabling = {} /\ dictionary = TRUE
  /\ applying = "no" /\ command = NoCommand /\ behind = FALSE
  /\ worker = [release |-> 1, handlers |-> Ships[1]]
  /\ authorised = {} /\ restored = {}
  /\ spent = [edits |-> 0, applies |-> 0]

-----------------------------------------------------------------------------
(* Reading the registry.                                                    *)

SameActivation(m, r) ==
  entries[m].release # 0 /\ ActivationOf[entries[m].release][m] = ActivationOf[r][m]

\* isModuleActive and getActiveDefinitions, of a release
Active(r) == {m \in Ships[r] : entries[m].status = "active" /\ SameActivation(m, r)}

\* moduleState: pending modules are shipped and not active.
Pending(r) == Ships[r] \ Active(r)

\* findChanges
NewModules(r) == {m \in Ships[r] : entries[m].status # "active"}
UpdatedModules(r) ==
  {m \in Ships[r] \ NewModules(r) : DefinitionOf[entries[m].release][m] # DefinitionOf[r][m]}
RemovedModules(r) == {m \in Modules \ Ships[r] : entries[m].status = "active"}
HasChanges(r) == NewModules(r) \cup UpdatedModules(r) \cup RemovedModules(r) # {}

\* removedBindings: the permissions whose bindings the plan says will go.
RemovedPermissions(r) ==
  (UNION {PermissionsOf[entries[m].release][m] \ PermissionsOf[r][m] : m \in UpdatedModules(r)})
  \cup (UNION {PermissionsOf[entries[m].release][m] : m \in RemovedModules(r)})

\* findDependencyFailures
CanApply(r) == dictionary \/ Ships[r] = {}

Of(gs, ps) == {g \in gs : g[2] \in ps}

-----------------------------------------------------------------------------
(* The synchronization.                                                     *)

\* apply, bootstrap or synchronizeCompatibility: the plan is read and checked;
\* compatibility synchronizes whatever the plan says.
PlanRead(r) ==
  /\ spent.applies < MaxApplies /\ CanApply(r)
  /\ spent' = [spent EXCEPT !.applies = @ + 1]
Planned(r, compatibility) == IF compatibility \/ HasChanges(r) THEN "changed" ELSE "unchanged"

ApplyChecks(compatibility) ==
  /\ applying = "no" /\ PlanRead(running)
  /\ applying' = Planned(running, compatibility)
  /\ UNCHANGED <<running, live, tableVars, schedules, enabling, dictionary, command, behind,
                 worker, authorised, restored>>

\* Without a change in the plan, the registry's hash decides.
Synchronizes(step, r) == step = "changed" \/ (step = "unchanged" /\ registry # r)

SynchronizedStatuses(r) ==
  [p \in Permissions |-> IF p \in Shipped(r) THEN "enabled"
                         ELSE IF statuses[p] = "absent" THEN "absent" ELSE "disabled"]

\* Mutant: the bindings stay.
EveryGrant(r) == grants

\* removeDisabledAuthorizationBindings, after disableMissing
SynchronizedGrants(r) == {g \in grants : SynchronizedStatuses(r)[g[2]] # "disabled"}

\* applyRegistry, one transaction.
Commits(r) ==
  /\ registry' = r
  /\ entries' = [m \in Modules |->
                  IF m \in Ships[r] THEN [status |-> "active", release |-> r]
                  ELSE IF entries[m].status = "active" THEN [entries[m] EXCEPT !.status = "disabled"]
                  ELSE entries[m]]
  /\ schedules' = schedules \ RemovedModules(r)
  /\ statuses' = SynchronizedStatuses(r)
  /\ grants' = SynchronizedGrants(r)
  /\ authorised' = authorised \ Of(authorised, RemovedPermissions(r))
  /\ restored' = restored \cap (grants' \cup live.grants)

ApplyCommits ==
  /\ Synchronizes(applying, running) /\ Commits(running)
  /\ applying' = "committed"
  /\ UNCHANGED <<running, live, enabling, dictionary, command, behind, worker, spent>>

\* Nothing has changed: only the memory is refreshed.
ApplySkips ==
  /\ applying = "unchanged" /\ registry = running
  /\ applying' = "committed"
  /\ UNCHANGED <<running, live, tableVars, schedules, enabling, dictionary, command, behind,
                 worker, authorised, restored, spent>>

\* Mutant: what the database holds is taken as it is.
AsStored(definitions) ==
  [statuses |-> statuses, grants |-> {g \in grants : statuses[g[2]] = "enabled"}]

\* refreshBusinessModuleMetadata: load again, then disable in memory what is
\* not of an active module and drop the grants of what is not enabled.
Refreshed(definitions) ==
  LET loaded == [p \in Permissions |->
                   IF statuses[p] # "absent" /\ ModuleOf[p] \notin definitions THEN "disabled"
                   ELSE statuses[p]]
  IN [statuses |-> loaded, grants |-> {g \in grants : loaded[g[2]] = "enabled"}]

ApplyRefreshes ==
  /\ applying = "committed"
  /\ live' = Refreshed(Ships[running]) /\ behind' = (behind /\ registry # running)
  /\ applying' = "no"
  /\ UNCHANGED <<running, tableVars, schedules, enabling, dictionary, command, worker,
                 authorised, restored, spent>>

\* The transaction fails, or the hook does: the request ends where it is.
ApplyFails ==
  /\ applying # "no" /\ applying' = "no"
  /\ UNCHANGED <<running, live, tableVars, schedules, enabling, dictionary, command, behind,
                 worker, authorised, restored, spent>>

\* runModuleSyncCli, beside the API: the same synchronization by a process of this
\* release or the next, without the hook that refreshes the API's memory.
CommandChecks(r) ==
  /\ command = NoCommand /\ r \in {running, running + 1} /\ r <= Releases
  /\ PlanRead(r)
  /\ command' = [step |-> Planned(r, FALSE), release |-> r]
  /\ UNCHANGED <<apiVars, tableVars, schedules, enabling, dictionary, behind, worker,
                 authorised, restored>>

CommandCommits ==
  /\ Synchronizes(command.step, command.release) /\ Commits(command.release)
  /\ command' = NoCommand /\ behind' = TRUE
  /\ UNCHANGED <<apiVars, enabling, dictionary, worker, spent>>

\* It fails, or has nothing to synchronize.
CommandEnds ==
  /\ command # NoCommand /\ command' = NoCommand
  /\ UNCHANGED <<apiVars, tableVars, schedules, enabling, dictionary, behind, worker,
                 authorised, restored, spent>>

-----------------------------------------------------------------------------
(* The processes.                                                           *)

\* The API starts, with this release or the next: what it refreshes at once is
\* the memory alone.
StartApi(r) ==
  /\ r \in {running, running + 1} /\ r <= Releases
  /\ running' = r
  /\ live' = Refreshed(Active(r)) /\ behind' = FALSE
  /\ applying' = "no" /\ enabling' = {}
  /\ UNCHANGED <<tableVars, schedules, dictionary, command, worker, authorised, restored, spent>>

\* loadActiveBusinessWorkerRegistrations looks at the status alone.
ActiveRegistrations(r) == {m \in Ships[r] : entries[m].status = "active"}

StartWorker ==
  /\ worker' = [release |-> running, handlers |-> ActiveRegistrations(running)]
  /\ UNCHANGED <<apiVars, tableVars, schedules, enabling, dictionary, command, behind,
                 authorised, restored, spent>>

-----------------------------------------------------------------------------
(* Administrators.                                                          *)

Edits == /\ spent.edits < MaxGrantEdits
         /\ spent' = [spent EXCEPT !.edits = @ + 1]

\* The roles scope writes every grant the memory has.
SavesGrants(given) ==
  /\ grants' = given
  /\ restored' = (restored \cap given) \cup (IF behind THEN given \ authorised' ELSE {})

\* updateRolePermissions keeps the codes it knows and that are enabled.
UpdateRolePermissions(role, codes) ==
  LET given == {role} \X {p \in codes : live.statuses[p] = "enabled"}
      kept == {g \in live.grants : g[1] # role}
  IN
  /\ Edits
  /\ live' = [live EXCEPT !.grants = given \cup kept]
  /\ authorised' = given \cup {g \in authorised : g[1] # role}
  /\ SavesGrants(given \cup kept)
  /\ UNCHANGED <<running, entries, registry, statuses, schedules, enabling, dictionary,
                 applying, command, behind, worker>>

\* Any other save of the roles scope: createRole, updateRole, setRoleStatus.
SaveRoles ==
  /\ Edits /\ authorised' = authorised /\ SavesGrants(live.grants)
  /\ UNCHANGED <<apiVars, entries, registry, statuses, schedules, enabling, dictionary,
                 command, behind, worker>>

\* An administrator enables a job of a module: the types of active modules are
\* read before the row is written.
CheckSchedule(m) ==
  /\ m \in Active(running) /\ m \notin enabling
  /\ enabling' = enabling \cup {m}
  /\ UNCHANGED <<apiVars, tableVars, schedules, dictionary, command, behind, worker,
                 authorised, restored, spent>>

EnableSchedule(m) ==
  /\ m \in enabling
  /\ enabling' = enabling \ {m} /\ schedules' = schedules \cup {m}
  /\ UNCHANGED <<apiVars, tableVars, dictionary, command, behind, worker, authorised,
                 restored, spent>>

ToggleDictionary ==
  /\ dictionary' = ~dictionary
  /\ UNCHANGED <<apiVars, tableVars, schedules, enabling, command, behind, worker,
                 authorised, restored, spent>>

ModulesNext ==
  \/ ApplyCommits \/ ApplySkips \/ ApplyRefreshes \/ ApplyFails \/ CommandCommits \/ CommandEnds
  \/ \E compatibility \in BOOLEAN : ApplyChecks(compatibility)
  \/ \E r \in 1 .. Releases : StartApi(r) \/ CommandChecks(r)
  \/ StartWorker
  \/ \E role \in Roles, codes \in SUBSET Permissions : UpdateRolePermissions(role, codes)
  \/ SaveRoles
  \/ \E m \in Modules : CheckSchedule(m) \/ EnableSchedule(m)
  \/ ToggleDictionary

ModulesSpec == ModulesInit /\ [][ModulesNext]_modulesVars

-----------------------------------------------------------------------------
(* Properties.                                                              *)

\* The running API grants nothing of a module that is not active in the registry:
\* not even what the database still holds; unless the command line has changed the
\* registry beside it and it was not refreshed since.
LivePermissionsAreActive ==
  ~behind =>
     \A p \in Permissions :
        /\ live.statuses[p] = "enabled" => ModuleOf[p] \in Active(running)
        /\ \A role \in Roles : <<role, p>> \in live.grants => live.statuses[p] = "enabled"

\* A role holds a permission only if an administrator gave it after the last
\* synchronization that removed the permission.  The exceptions are the memory of an
\* API that the command line went past, and what a save of roles wrote back from it.
GrantsNeedAuthorisation ==
  /\ grants \subseteq authorised \cup restored
  /\ ~behind => live.grants \subseteq authorised \cup restored

\* Neither permissions nor grants outlive the module they come from.
ModulesAreSound == ModulesTypeOK /\ LivePermissionsAreActive /\ GrantsNeedAuthorisation

\* What a release needs to have accepted again has no handlers in the worker.
PendingHaveNoHandlers ==
  worker.release = running => worker.handlers \cap Pending(running) = {}
=============================================================================
