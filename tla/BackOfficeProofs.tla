---------------------------- MODULE BackOfficeProofs ----------------------------
(* Proofs about the parts of the back office: the core store, the life cycle *)
(* of modules, migrations and the first setup, templates and settings, the   *)
(* inbox, the catalogue of permissions, the menus, the organization tree,    *)
(* announcements for it, and what conforming modules can rely on.            *)
EXTENDS CoreStore, ModuleLifecycle, Announcements, ModuleConformance, BackOffice, Notifications,
        SequenceTheorems, FiniteSetTheorems, WellFoundedInduction, TLAPS

-----------------------------------------------------------------------------
(* Modules: ModuleLifecycle, for every sequence of releases.                *)

\* An active module was accepted with some release.
ActiveWasAccepted ==
  \A m \in Modules : entries[m].status = "active" => entries[m].release # 0

\* All that the accepted release ships is active, and a synchronization that has
\* committed has accepted the release of the API, if the command line did not follow.
RegistryIsActive == registry \in 1 .. Releases /\ Ships[registry] \subseteq Active(registry)
CommittedIsAccepted == applying = "committed" => behind \/ registry = running

\* The memory knows no permission that the database has not.
LiveIsPresent ==
  \A p \in Permissions : live.statuses[p] # "absent" => statuses[p] # "absent"

\* What is granted exists, and what is granted in memory is enabled there.
GrantsArePresent == \A g \in grants : statuses[g[2]] # "absent"
LiveGrantsAreEnabled == \A g \in live.grants : live.statuses[g[2]] = "enabled"

\* The inductive invariant.
ModulesInv ==
  /\ ModulesTypeOK
  /\ ActiveWasAccepted /\ RegistryIsActive /\ CommittedIsAccepted
  /\ LiveIsPresent /\ GrantsArePresent /\ LiveGrantsAreEnabled
  /\ LivePermissionsAreActive /\ GrantsNeedAuthorisation

-----------------------------------------------------------------------------
(* Releases. *)

LEMMA GrantShape ==
  ASSUME NEW g \in Grants
  PROVE  g[1] \in Roles /\ g[2] \in Permissions /\ g = <<g[1], g[2]>>
BY DEF Grants

\* A permission has one module, in every release that has it.
LEMMA OfOneModule ==
  ASSUME NEW r \in 1 .. Releases, NEW m \in Modules, NEW p \in PermissionsOf[r][m]
  PROVE  p \in Permissions /\ ModuleOf[p] = m
BY ModulesAssumption

LEMMA ShippedIsOfShipped ==
  ASSUME NEW r \in 1 .. Releases, NEW p \in Shipped(r)
  PROVE  p \in Permissions /\ ModuleOf[p] \in Ships[r] /\ p \in PermissionsOf[r][ModuleOf[p]]
<1>1. PICK m \in Ships[r] : p \in PermissionsOf[r][m]
  BY DEF Shipped
<1>2. m \in Modules
  BY ModulesAssumption
<1>3. QED BY <1>1, <1>2, OfOneModule

\* What a synchronization removes was of an accepted release, and the module
\* that had it is either not shipped or shipped without it.
LEMMA RemovedWasAccepted ==
  ASSUME ModulesTypeOK, ActiveWasAccepted, NEW r \in 1 .. Releases, NEW p \in RemovedPermissions(r)
  PROVE  /\ p \in Permissions
         /\ entries[ModuleOf[p]].release \in 1 .. Releases
         /\ p \in PermissionsOf[entries[ModuleOf[p]].release][ModuleOf[p]]
         /\ ModuleOf[p] \in Ships[r] => p \notin PermissionsOf[r][ModuleOf[p]]
<1>1. PICK m \in UpdatedModules(r) \cup RemovedModules(r) :
        /\ p \in PermissionsOf[entries[m].release][m]
        /\ m \in RemovedModules(r) \/ p \notin PermissionsOf[r][m]
  <2>1. CASE \E m \in UpdatedModules(r) :
               p \in PermissionsOf[entries[m].release][m] \ PermissionsOf[r][m]
    BY <2>1
  <2>2. CASE \E m \in RemovedModules(r) : p \in PermissionsOf[entries[m].release][m]
    BY <2>2
  <2>3. QED BY <2>1, <2>2 DEF RemovedPermissions
<1>2. m \in Modules /\ entries[m].status = "active"
  BY <1>1, ModulesAssumption DEF UpdatedModules, RemovedModules, NewModules, ModulesTypeOK
<1>3. entries[m].release \in 1 .. Releases
  BY <1>2, ModulesAssumption DEF ActiveWasAccepted, ModulesTypeOK, Entry
<1>4. p \in Permissions /\ ModuleOf[p] = m
  BY <1>1, <1>2, <1>3, OfOneModule
<1>5. m \in Ships[r] => p \notin PermissionsOf[r][m]
  BY <1>1 DEF RemovedModules
<1>6. QED BY <1>1, <1>3, <1>4, <1>5

\* An active module has the permissions it was accepted with: nothing of it is
\* up for removal.
LEMMA ActiveLosesNothing ==
  ASSUME ModulesTypeOK, ActiveWasAccepted, NEW r \in 1 .. Releases, NEW p \in RemovedPermissions(r)
  PROVE  ModuleOf[p] \notin Active(r)
<1> DEFINE m == ModuleOf[p]
<1>1. /\ p \in Permissions /\ entries[m].release \in 1 .. Releases
      /\ p \in PermissionsOf[entries[m].release][m]
      /\ m \in Ships[r] => p \notin PermissionsOf[r][m]
  BY RemovedWasAccepted
<1>2. m \in Modules
  BY <1>1, ModulesAssumption DEF ModulesTypeOK
<1>3. SUFFICES ASSUME m \in Ships[r],
                      ActivationOf[entries[m].release][m] = ActivationOf[r][m]
               PROVE  FALSE
  BY DEF Active, SameActivation
<1>4. PermissionsOf[entries[m].release][m] = PermissionsOf[r][m]
  BY <1>1, <1>2, <1>3, ModulesAssumption
<1>5. QED BY <1>1, <1>3, <1>4

\* A binding the plan removes does not outlive the synchronization.
LEMMA RemovedIsDisabled ==
  ASSUME ModulesTypeOK, ActiveWasAccepted, NEW r \in 1 .. Releases, NEW p \in RemovedPermissions(r),
         statuses[p] # "absent"
  PROVE  SynchronizedStatuses(r)[p] = "disabled"
<1>1. /\ p \in Permissions
      /\ ModuleOf[p] \in Ships[r] => p \notin PermissionsOf[r][ModuleOf[p]]
  BY RemovedWasAccepted
<1>2. p \notin Shipped(r)
  BY <1>1, ShippedIsOfShipped DEF ModulesTypeOK
<1>3. QED BY <1>1, <1>2 DEF SynchronizedStatuses

-----------------------------------------------------------------------------
(* Reading into memory. *)

\* The memory after a refresh: nothing but what is stored, and nothing enabled
\* but what the definitions have.
LEMMA RefreshedEffect ==
  ASSUME ModulesTypeOK, NEW definitions
  PROVE  /\ Refreshed(definitions) \in [statuses : [Permissions -> Status], grants : SUBSET Grants]
         /\ Refreshed(definitions).grants \subseteq grants
         /\ \A p \in Permissions :
              /\ Refreshed(definitions).statuses[p] # "absent" => statuses[p] # "absent"
              /\ Refreshed(definitions).statuses[p] = "enabled" => ModuleOf[p] \in definitions
         /\ \A g \in Refreshed(definitions).grants :
              Refreshed(definitions).statuses[g[2]] = "enabled"
<1> DEFINE shown == [p \in Permissions |->
                       IF statuses[p] # "absent" /\ ModuleOf[p] \notin definitions THEN "disabled"
                       ELSE statuses[p]]
           kept == {g \in grants : shown[g[2]] = "enabled"}
<1>1. Refreshed(definitions) = [statuses |-> shown, grants |-> kept]
  BY DEF Refreshed
<1>2. Refreshed(definitions).statuses = shown /\ Refreshed(definitions).grants = kept
  BY <1>1
<1>3. shown \in [Permissions -> Status] /\ kept \subseteq Grants
  BY DEF ModulesTypeOK, Status
<1>4. Refreshed(definitions) \in [statuses : [Permissions -> Status], grants : SUBSET Grants]
  BY <1>1, <1>3
<1>5. \A p \in Permissions : /\ shown[p] # "absent" => statuses[p] # "absent"
                             /\ shown[p] = "enabled" => ModuleOf[p] \in definitions
  OBVIOUS
<1>6. QED BY <1>2, <1>4, <1>5

\* The counters stay within their bounds.
LEMMA SpentCounts ==
  ASSUME ModulesInv
  PROVE  /\ spent.edits < MaxGrantEdits =>
              [spent EXCEPT !.edits = @ + 1] \in [edits : 0 .. MaxGrantEdits, applies : 0 .. MaxApplies]
         /\ spent.applies < MaxApplies =>
              [spent EXCEPT !.applies = @ + 1] \in [edits : 0 .. MaxGrantEdits, applies : 0 .. MaxApplies]
<1>1. PICK e \in 0 .. MaxGrantEdits, a \in 0 .. MaxApplies : spent = [edits |-> e, applies |-> a]
  BY DEF ModulesInv, ModulesTypeOK
<1>2. /\ [spent EXCEPT !.edits = @ + 1] = [edits |-> e + 1, applies |-> a]
      /\ [spent EXCEPT !.applies = @ + 1] = [edits |-> e, applies |-> a + 1]
  BY <1>1
<1>3. e < MaxGrantEdits => e + 1 \in 0 .. MaxGrantEdits
  BY ModulesAssumption
<1>4. a < MaxApplies => a + 1 \in 0 .. MaxApplies
  BY ModulesAssumption
<1>5. QED BY <1>1, <1>2, <1>3, <1>4

\* The invariant from what a refresh leaves alone and what it reads.
LEMMA RefreshKeepsIt ==
  ASSUME ModulesInv, NEW r \in 1 .. Releases, NEW definitions,
         live' = Refreshed(definitions), running' = r,
         applying' = "no", enabling' \subseteq Modules,
         behind' \in BOOLEAN, ~behind' => definitions \subseteq Active(r),
         UNCHANGED <<tableVars, schedules, dictionary, command, worker, authorised, restored, spent>>
  PROVE  ModulesInv'
<1>1. UNCHANGED <<entries, registry, statuses, grants>>
  BY DEF tableVars
<1>2. ModulesTypeOK'
  BY <1>1, RefreshedEffect DEF ModulesInv, ModulesTypeOK, ApplySteps
<1>3. ActiveWasAccepted' /\ CommittedIsAccepted' /\ GrantsArePresent'
  BY <1>1 DEF ModulesInv, ActiveWasAccepted, CommittedIsAccepted, GrantsArePresent
<1>4. RegistryIsActive'
  BY <1>1 DEF ModulesInv, RegistryIsActive, Active, SameActivation
<1>5. LiveIsPresent' /\ LiveGrantsAreEnabled'
  BY <1>1, RefreshedEffect DEF ModulesInv, LiveIsPresent, LiveGrantsAreEnabled
<1>6. LivePermissionsAreActive'
  <2> SUFFICES ASSUME ~behind'
               PROVE  \A p \in Permissions :
                        /\ live'.statuses[p] = "enabled" => ModuleOf[p] \in Active(r)
                        /\ \A role \in Roles : <<role, p>> \in live'.grants => live'.statuses[p] = "enabled"
    BY <1>1 DEF LivePermissionsAreActive, Active, SameActivation
  <2>1. \A p \in Permissions : live'.statuses[p] = "enabled" => ModuleOf[p] \in Active(r)
    BY RefreshedEffect DEF ModulesInv
  <2>2. \A role \in Roles, p \in Permissions :
          <<role, p>> \in live'.grants => live'.statuses[p] = "enabled"
    BY <1>5 DEF LiveGrantsAreEnabled
  <2>3. QED BY <2>1, <2>2
<1>7. GrantsNeedAuthorisation'
  BY <1>1, RefreshedEffect DEF ModulesInv, GrantsNeedAuthorisation
<1>8. QED BY <1>2, <1>3, <1>4, <1>5, <1>6, <1>7 DEF ModulesInv

-----------------------------------------------------------------------------
(* The synchronization. *)

\* What a commit of any release does, whichever process makes it.
LEMMA CommitEffect ==
  ASSUME ModulesInv, NEW r \in 1 .. Releases, Commits(r), UNCHANGED live
  PROVE  /\ entries' \in [Modules -> Entry] /\ registry' = r /\ schedules' \subseteq Modules
         /\ statuses' \in [Permissions -> Status] /\ grants' \subseteq Grants
         /\ authorised' \subseteq Grants /\ restored' \subseteq Grants
         /\ ActiveWasAccepted' /\ RegistryIsActive' /\ Ships[r] \subseteq Active(r)'
         /\ LiveIsPresent' /\ LiveGrantsAreEnabled' /\ GrantsArePresent'
         /\ grants' \subseteq authorised' \cup restored'
<1>1. ModulesTypeOK /\ ActiveWasAccepted /\ Ships[r] \subseteq Modules
  BY ModulesAssumption DEF ModulesInv
<1>2. /\ entries' \in [Modules -> Entry]
      /\ \A m \in Ships[r] : entries'[m] = [status |-> "active", release |-> r]
      /\ \A m \in Modules : entries'[m].status = "active" => entries'[m].release # 0
  <2>1. ASSUME NEW m \in Modules, m \in Ships[r]
        PROVE  entries'[m] = [status |-> "active", release |-> r]
    BY <2>1 DEF Commits
  <2>2. ASSUME NEW m \in Modules, m \notin Ships[r]
        PROVE  /\ entries'[m] \in Entry
               /\ entries'[m].release = entries[m].release
               /\ entries'[m].status # "active"
    <3>1. entries[m] \in Entry
      BY <1>1 DEF ModulesTypeOK
    <3>2. entries'[m] = IF entries[m].status = "active" THEN [entries[m] EXCEPT !.status = "disabled"]
                        ELSE entries[m]
      BY <2>2 DEF Commits
    <3>3. QED BY <3>1, <3>2 DEF Entry
  <2>3. [status |-> "active", release |-> r] \in Entry
    BY ModulesAssumption DEF Entry
  <2>4. entries' = [m \in Modules |-> entries'[m]]
    BY DEF Commits
  <2>5. QED BY <1>1, <2>1, <2>2, <2>3, <2>4
<1>3. /\ statuses' = SynchronizedStatuses(r) /\ statuses' \in [Permissions -> Status]
      /\ \A p \in Permissions : statuses[p] # "absent" => statuses'[p] # "absent"
  BY <1>1 DEF Commits, SynchronizedStatuses, Status, ModulesTypeOK
<1>4. grants' = {g \in grants : statuses'[g[2]] # "disabled"}
  BY <1>3 DEF Commits, SynchronizedGrants
<1>5. /\ authorised' \subseteq authorised /\ restored' = restored \cap (grants' \cup live.grants)
      /\ \A g \in authorised : g[2] \notin RemovedPermissions(r) => g \in authorised'
  BY DEF Commits, Of
<1>6. registry' = r /\ schedules' \subseteq Modules
  BY <1>1 DEF Commits, ModulesTypeOK
<1>7. Ships[r] \subseteq Active(r)'
  BY <1>1, <1>2 DEF Active, SameActivation
<1>8. ActiveWasAccepted' /\ RegistryIsActive'
  BY <1>2, <1>6, <1>7 DEF ActiveWasAccepted, RegistryIsActive, Active, SameActivation
<1>9. LiveIsPresent' /\ LiveGrantsAreEnabled'
  BY <1>3 DEF ModulesInv, LiveIsPresent, LiveGrantsAreEnabled
<1>10. GrantsArePresent'
  BY <1>1, <1>3, <1>4, GrantShape DEF ModulesInv, GrantsArePresent, ModulesTypeOK
<1>11. ASSUME NEW g \in grants' PROVE g \in authorised' \cup restored'
  <2>1. g \in grants /\ g \in authorised \cup restored
    BY <1>4 DEF ModulesInv, GrantsNeedAuthorisation
  <2>2. statuses[g[2]] # "absent" /\ SynchronizedStatuses(r)[g[2]] # "disabled"
    BY <1>3, <1>4, <2>1 DEF ModulesInv, GrantsArePresent
  <2>3. QED BY <1>1, <1>5, <2>1, <2>2, RemovedIsDisabled
<1>12. grants' \subseteq Grants /\ authorised' \subseteq Grants /\ restored' \subseteq Grants
  BY <1>1, <1>4, <1>5 DEF ModulesTypeOK
<1>13. QED BY <1>2, <1>3, <1>6, <1>7, <1>8, <1>9, <1>10, <1>11, <1>12

\* Of the API's own release: what its memory has of active modules stays theirs.
LEMMA CommitKeepsIt == ASSUME ModulesInv, ApplyCommits PROVE ModulesInv'
<1>1. /\ Commits(running) /\ applying' = "committed" /\ running \in 1 .. Releases
      /\ UNCHANGED <<running, live, enabling, dictionary, command, behind, worker, spent>>
      /\ ModulesTypeOK /\ ActiveWasAccepted
  BY DEF ApplyCommits, ModulesInv, ModulesTypeOK
<1>2. /\ entries' \in [Modules -> Entry] /\ registry' = running /\ schedules' \subseteq Modules
      /\ statuses' \in [Permissions -> Status] /\ grants' \subseteq Grants
      /\ authorised' \subseteq Grants /\ restored' \subseteq Grants
      /\ ActiveWasAccepted' /\ RegistryIsActive' /\ Ships[running] \subseteq Active(running)'
      /\ LiveIsPresent' /\ LiveGrantsAreEnabled' /\ GrantsArePresent'
      /\ grants' \subseteq authorised' \cup restored'
  BY <1>1, CommitEffect DEF Active, SameActivation
<1>3. ModulesTypeOK'
  BY <1>1, <1>2, ModulesAssumption DEF ModulesTypeOK, ApplySteps
<1>4. CommittedIsAccepted'
  BY <1>1, <1>2 DEF CommittedIsAccepted
<1>5. LivePermissionsAreActive'
  <2>1. Active(running) \subseteq Ships[running]
    BY DEF Active
  <2>2. QED BY <1>1, <1>2, <2>1 DEF ModulesInv, LivePermissionsAreActive, Active, SameActivation
<1>6. GrantsNeedAuthorisation'
  <2> SUFFICES ASSUME ~behind, NEW g \in live.grants PROVE g \in authorised' \cup restored'
    BY <1>1, <1>2 DEF GrantsNeedAuthorisation
  <2>1. g \in authorised \cup restored
    BY DEF ModulesInv, GrantsNeedAuthorisation
  <2>2. g \in Grants /\ g[2] \in Permissions /\ g[1] \in Roles /\ g = <<g[1], g[2]>>
    BY <1>1, GrantShape DEF ModulesTypeOK
  <2>3. ModuleOf[g[2]] \in Active(running)
    BY <2>2 DEF ModulesInv, LivePermissionsAreActive, LiveGrantsAreEnabled
  <2>4. /\ restored' = restored \cap (grants' \cup live.grants)
        /\ authorised' = authorised \ Of(authorised, RemovedPermissions(running))
    BY <1>1 DEF Commits
  <2>5. g[2] \notin RemovedPermissions(running)
    BY <1>1, <2>3, ActiveLosesNothing
  <2>6. QED BY <2>1, <2>4, <2>5 DEF Of
<1>7. QED BY <1>2, <1>3, <1>4, <1>5, <1>6 DEF ModulesInv

\* Of the command line's release: nothing is said of the API's memory any more.
LEMMA CommandKeepsIt == ASSUME ModulesInv, CommandCommits PROVE ModulesInv'
<1> DEFINE r == command.release
<1>1. /\ Commits(r) /\ r \in 1 .. Releases /\ command' = NoCommand /\ behind' = TRUE
      /\ UNCHANGED <<running, live, applying, enabling, dictionary, worker, spent>>
      /\ ModulesTypeOK
  BY DEF CommandCommits, ModulesInv, ModulesTypeOK, apiVars
<1> HIDE DEF r
<1>2. /\ entries' \in [Modules -> Entry] /\ registry' = r /\ schedules' \subseteq Modules
      /\ statuses' \in [Permissions -> Status] /\ grants' \subseteq Grants
      /\ authorised' \subseteq Grants /\ restored' \subseteq Grants
      /\ ActiveWasAccepted' /\ RegistryIsActive'
      /\ LiveIsPresent' /\ LiveGrantsAreEnabled' /\ GrantsArePresent'
      /\ grants' \subseteq authorised' \cup restored'
  BY <1>1, CommitEffect
<1>3. ModulesTypeOK'
  <2>1. command' \in [step : ApplySteps, release : 1 .. Releases]
    BY <1>1, ModulesAssumption DEF NoCommand, ApplySteps
  <2>2. QED BY <1>1, <1>2, <2>1, ModulesAssumption DEF ModulesTypeOK
<1>4. CommittedIsAccepted' /\ LivePermissionsAreActive' /\ GrantsNeedAuthorisation'
  BY <1>1, <1>2 DEF CommittedIsAccepted, LivePermissionsAreActive, GrantsNeedAuthorisation
<1>5. QED BY <1>2, <1>3, <1>4 DEF ModulesInv

\* The steps that change neither the registry nor the memory.
LEMMA ApplyMovesKeepIt ==
  ASSUME ModulesInv,
         \/ \E compatibility \in BOOLEAN : ApplyChecks(compatibility)
         \/ ApplySkips \/ ApplyFails \/ CommandEnds \/ \E r \in 1 .. Releases : CommandChecks(r)
  PROVE  ModulesInv'
<1>1. /\ UNCHANGED <<running, live, entries, registry, statuses, grants, schedules, enabling,
                     dictionary, behind, worker, authorised, restored>>
      /\ applying' \in ApplySteps /\ (applying' = "committed" => applying = "committed" \/ registry = running)
      /\ command' \in [step : ApplySteps, release : 1 .. Releases]
      /\ spent' = spent \/ \E r \in 1 .. Releases : PlanRead(r)
  <2>0. /\ command \in [step : ApplySteps, release : 1 .. Releases] /\ applying \in ApplySteps
        /\ running \in 1 .. Releases /\ NoCommand \in [step : ApplySteps, release : 1 .. Releases]
    BY ModulesAssumption DEF ModulesInv, ModulesTypeOK, NoCommand, ApplySteps
  <2>1. ASSUME NEW c \in BOOLEAN, NEW r \in 1 .. Releases
        PROVE  Planned(r, c) \in ApplySteps /\ Planned(r, c) # "committed"
    BY DEF Planned, ApplySteps
  <2>2. ASSUME NEW c \in BOOLEAN, ApplyChecks(c) PROVE <1>1
    BY <2>0, <2>1, <2>2 DEF ApplyChecks, tableVars
  <2>3. CASE ApplySkips
    BY <2>0, <2>3 DEF ApplySkips, tableVars, ApplySteps
  <2>4. CASE ApplyFails
    BY <2>0, <2>4 DEF ApplyFails, tableVars, ApplySteps
  <2>5. CASE CommandEnds
    BY <2>0, <2>5 DEF CommandEnds, apiVars, tableVars
  <2>6. ASSUME NEW r \in 1 .. Releases, CommandChecks(r) PROVE <1>1
    BY <2>0, <2>1, <2>6 DEF CommandChecks, apiVars, tableVars
  <2>7. QED BY <2>2, <2>3, <2>4, <2>5, <2>6
<1>2. spent' \in [edits : 0 .. MaxGrantEdits, applies : 0 .. MaxApplies]
  BY <1>1, SpentCounts DEF PlanRead, ModulesInv, ModulesTypeOK
<1>3. ModulesTypeOK'
  BY <1>1, <1>2 DEF ModulesInv, ModulesTypeOK
<1>4. /\ ActiveWasAccepted' /\ LiveIsPresent' /\ GrantsArePresent' /\ LiveGrantsAreEnabled'
      /\ CommittedIsAccepted'
  BY <1>1 DEF ModulesInv, ActiveWasAccepted, LiveIsPresent, GrantsArePresent, LiveGrantsAreEnabled,
              CommittedIsAccepted
<1>5. RegistryIsActive' /\ LivePermissionsAreActive' /\ GrantsNeedAuthorisation'
  BY <1>1 DEF ModulesInv, RegistryIsActive, LivePermissionsAreActive, GrantsNeedAuthorisation,
              Active, SameActivation
<1>6. QED BY <1>3, <1>4, <1>5 DEF ModulesInv

LEMMA RefreshesKeepIt ==
  ASSUME ModulesInv, ApplyRefreshes \/ \E r \in 1 .. Releases : StartApi(r)
  PROVE  ModulesInv'
<1>1. CASE ApplyRefreshes
  <2>1. /\ running \in 1 .. Releases /\ running' = running /\ enabling' \subseteq Modules
        /\ live' = Refreshed(Ships[running]) /\ applying' = "no" /\ behind' \in BOOLEAN
        /\ UNCHANGED <<tableVars, schedules, dictionary, command, worker, authorised, restored, spent>>
    BY <1>1 DEF ApplyRefreshes, ModulesInv, ModulesTypeOK
  <2>2. ~behind' => Ships[running] \subseteq Active(running)
    BY <1>1 DEF ApplyRefreshes, ModulesInv, CommittedIsAccepted, RegistryIsActive
  <2>3. QED BY <2>1, <2>2, RefreshKeepsIt
<1>2. ASSUME NEW r \in 1 .. Releases, StartApi(r) PROVE ModulesInv'
  <2>1. /\ running' = r /\ enabling' \subseteq Modules
        /\ live' = Refreshed(Active(r)) /\ applying' = "no" /\ behind' = FALSE
        /\ UNCHANGED <<tableVars, schedules, dictionary, command, worker, authorised, restored, spent>>
    BY <1>2 DEF StartApi
  <2>2. QED BY <2>1, RefreshKeepsIt
<1>3. QED BY <1>1, <1>2

-----------------------------------------------------------------------------
(* Administrators and the worker. *)

\* A save of the roles writes grants of what is enabled in memory.
LEMMA SavesKeepIt ==
  ASSUME ModulesInv,
         SaveRoles \/ \E role \in Roles, codes \in SUBSET Permissions :
                        UpdateRolePermissions(role, codes)
  PROVE  ModulesInv'
<1>1. /\ UNCHANGED <<running, entries, registry, statuses, schedules, enabling, dictionary,
                     applying, command, behind, worker>>
      /\ spent' \in [edits : 0 .. MaxGrantEdits, applies : 0 .. MaxApplies]
      /\ SavesGrants(live'.grants)
      /\ live' \in [statuses : [Permissions -> Status], grants : SUBSET Grants]
      /\ live'.statuses = live.statuses /\ authorised' \subseteq Grants
      /\ \A g \in live'.grants : live.statuses[g[2]] = "enabled"
      /\ live.grants \subseteq authorised \cup restored =>
           live'.grants \subseteq authorised' \cup restored
  <2>0. Edits => spent' \in [edits : 0 .. MaxGrantEdits, applies : 0 .. MaxApplies]
    BY SpentCounts DEF Edits
  <2>1. CASE SaveRoles
    BY <2>0, <2>1 DEF SaveRoles, apiVars, ModulesInv, ModulesTypeOK, LiveGrantsAreEnabled
  <2>2. ASSUME NEW role \in Roles, NEW codes \in SUBSET Permissions, UpdateRolePermissions(role, codes)
        PROVE  <1>1
    <3> DEFINE given == {role} \X {p \in codes : live.statuses[p] = "enabled"}
               kept == {g \in live.grants : g[1] # role}
    <3>1. /\ live' = [live EXCEPT !.grants = given \cup kept] /\ SavesGrants(given \cup kept)
          /\ authorised' = given \cup {g \in authorised : g[1] # role} /\ Edits
          /\ UNCHANGED <<running, entries, registry, statuses, schedules, enabling, dictionary,
                         applying, command, behind, worker>>
      BY <2>2 DEF UpdateRolePermissions
    <3>2. given \subseteq Grants /\ \A g \in given : live.statuses[g[2]] = "enabled"
      BY DEF Grants
    <3>3. kept \subseteq Grants /\ \A g \in kept : live.statuses[g[2]] = "enabled"
      BY DEF ModulesInv, ModulesTypeOK, LiveGrantsAreEnabled
    <3>4. live'.grants = given \cup kept /\ live'.statuses = live.statuses
      BY <3>1 DEF ModulesInv, ModulesTypeOK
    <3>5. live' \in [statuses : [Permissions -> Status], grants : SUBSET Grants]
      BY <3>1, <3>2, <3>3 DEF ModulesInv, ModulesTypeOK
    <3>6. authorised' \subseteq Grants
      BY <3>1, <3>2 DEF ModulesInv, ModulesTypeOK
    <3>7. live.grants \subseteq authorised \cup restored => live'.grants \subseteq authorised' \cup restored
      BY <3>1, <3>4
    <3> HIDE DEF given, kept
    <3>8. QED BY <2>0, <3>1, <3>2, <3>3, <3>4, <3>5, <3>6, <3>7
  <2>3. QED BY <2>1, <2>2
<1>2. /\ grants' = live'.grants
      /\ restored' = (restored \cap live'.grants) \cup (IF behind THEN live'.grants \ authorised' ELSE {})
  BY <1>1 DEF SavesGrants
<1>3. ModulesTypeOK'
  <2>1. restored' \subseteq Grants /\ grants' \subseteq Grants
    BY <1>1, <1>2
  <2>2. QED BY <1>1, <2>1 DEF ModulesInv, ModulesTypeOK
<1>4. ActiveWasAccepted' /\ RegistryIsActive' /\ CommittedIsAccepted'
  BY <1>1 DEF ModulesInv, ActiveWasAccepted, RegistryIsActive, CommittedIsAccepted, Active, SameActivation
<1>5. LiveIsPresent' /\ LiveGrantsAreEnabled'
  BY <1>1 DEF ModulesInv, LiveIsPresent, LiveGrantsAreEnabled
<1>6. GrantsArePresent'
  <2> SUFFICES ASSUME NEW g \in live'.grants PROVE statuses[g[2]] # "absent"
    BY <1>1, <1>2 DEF GrantsArePresent
  <2>1. g[2] \in Permissions /\ live.statuses[g[2]] = "enabled"
    BY <1>1, GrantShape
  <2>2. QED BY <2>1 DEF ModulesInv, LiveIsPresent
<1>7. LivePermissionsAreActive'
  BY <1>1 DEF ModulesInv, LivePermissionsAreActive, Active, SameActivation
<1>8. GrantsNeedAuthorisation'
  BY <1>1, <1>2 DEF ModulesInv, GrantsNeedAuthorisation
<1>9. QED BY <1>3, <1>4, <1>5, <1>6, <1>7, <1>8 DEF ModulesInv

\* Schedules, the dictionary and the worker have no say in permissions.
LEMMA OthersKeepIt ==
  ASSUME ModulesInv,
         StartWorker \/ ToggleDictionary \/ \E m \in Modules : CheckSchedule(m) \/ EnableSchedule(m)
  PROVE  ModulesInv'
<1>1. /\ UNCHANGED <<running, entries, registry, statuses, grants, live, applying, command, behind,
                     authorised, restored, spent>>
      /\ schedules' \subseteq Modules /\ enabling' \subseteq Modules /\ dictionary' \in BOOLEAN
  BY DEF StartWorker, ToggleDictionary, CheckSchedule, EnableSchedule, apiVars, tableVars,
         ModulesInv, ModulesTypeOK
<1>2. worker' \in [release : 1 .. Releases, handlers : SUBSET Modules]
  BY ModulesAssumption DEF StartWorker, ActiveRegistrations, ToggleDictionary, CheckSchedule,
                           EnableSchedule, ModulesInv, ModulesTypeOK
<1>3. ModulesTypeOK'
  BY <1>1, <1>2 DEF ModulesInv, ModulesTypeOK
<1>4. Active(running)' = Active(running)
  BY <1>1 DEF Active, SameActivation
<1>5. RegistryIsActive'
  BY <1>1 DEF ModulesInv, RegistryIsActive, Active, SameActivation
<1>6. QED BY <1>1, <1>3, <1>4, <1>5
          DEF ModulesInv, ActiveWasAccepted, CommittedIsAccepted, LiveIsPresent, GrantsArePresent,
              LiveGrantsAreEnabled, LivePermissionsAreActive, GrantsNeedAuthorisation

-----------------------------------------------------------------------------
LEMMA StartsWithIt == ModulesInit => ModulesInv
<1> SUFFICES ASSUME ModulesInit PROVE ModulesInv
  OBVIOUS
<1> DEFINE accepted == [p \in Permissions |-> IF p \in Shipped(1) THEN "enabled" ELSE "absent"]
<1>1. 1 \in 1 .. Releases /\ Ships[1] \subseteq Modules
  BY ModulesAssumption
<1>2. /\ running = 1 /\ registry = 1 /\ statuses = accepted /\ grants = {} /\ applying = "no"
      /\ live = [statuses |-> accepted, grants |-> {}] /\ authorised = {} /\ restored = {}
      /\ command = NoCommand /\ behind = FALSE
      /\ schedules = {} /\ enabling = {} /\ dictionary = TRUE
      /\ worker = [release |-> 1, handlers |-> Ships[1]] /\ spent = [edits |-> 0, applies |-> 0]
      /\ entries = [m \in Modules |-> IF m \in Ships[1] THEN [status |-> "active", release |-> 1]
                                      ELSE [status |-> "absent", release |-> 0]]
  BY DEF ModulesInit
<1>3. entries \in [Modules -> Entry] /\ ActiveWasAccepted
  BY <1>1, <1>2, ModulesAssumption DEF Entry, ActiveWasAccepted
<1>4. ModulesTypeOK
  <2>1. accepted \in [Permissions -> Status] /\ 1 \in 1 .. Releases /\ 1 \in 0 .. Releases
    BY ModulesAssumption DEF Status
  <2>2. spent \in [edits : 0 .. MaxGrantEdits, applies : 0 .. MaxApplies]
    BY <1>2, ModulesAssumption
  <2>3. live \in [statuses : [Permissions -> Status], grants : SUBSET Grants]
    BY <1>2, <2>1
  <2>4. worker \in [release : 1 .. Releases, handlers : SUBSET Modules]
    BY <1>1, <1>2
  <2> HIDE DEF accepted
  <2>5. command \in [step : ApplySteps, release : 1 .. Releases] /\ applying \in ApplySteps
    BY <1>1, <1>2 DEF NoCommand, ApplySteps
  <2>6. QED BY <1>2, <1>3, <2>1, <2>2, <2>3, <2>4, <2>5 DEF ModulesTypeOK
<1>5. CommittedIsAccepted /\ LiveIsPresent /\ GrantsArePresent /\ LiveGrantsAreEnabled
      /\ GrantsNeedAuthorisation /\ RegistryIsActive
  BY <1>1, <1>2 DEF CommittedIsAccepted, LiveIsPresent, GrantsArePresent, LiveGrantsAreEnabled,
              GrantsNeedAuthorisation, RegistryIsActive, Active, SameActivation
<1>6. LivePermissionsAreActive
  <2> SUFFICES ASSUME NEW p \in Permissions, accepted[p] = "enabled"
               PROVE  ModuleOf[p] \in Active(running)
    BY <1>2 DEF LivePermissionsAreActive
  <2>1. ModuleOf[p] \in Ships[1]
    BY <1>1, ShippedIsOfShipped
  <2>2. QED BY <1>1, <1>2, <2>1 DEF Active, SameActivation
<1>7. QED BY <1>3, <1>4, <1>5, <1>6 DEF ModulesInv

LEMMA StepKeepsIt == ModulesInv /\ [ModulesNext]_modulesVars => ModulesInv'
<1> SUFFICES ASSUME ModulesInv, [ModulesNext]_modulesVars PROVE ModulesInv'
  OBVIOUS
<1>1. CASE UNCHANGED modulesVars
  BY <1>1 DEF modulesVars, apiVars, tableVars, ModulesInv, ModulesTypeOK, ActiveWasAccepted,
              RegistryIsActive, CommittedIsAccepted, LiveIsPresent, GrantsArePresent,
              LiveGrantsAreEnabled, LivePermissionsAreActive, GrantsNeedAuthorisation, Active,
              SameActivation
<1>2. CASE ModulesNext
  BY <1>2, CommitKeepsIt, CommandKeepsIt, ApplyMovesKeepIt, RefreshesKeepIt, SavesKeepIt,
     OthersKeepIt, Zenon
     DEF ModulesNext
<1>3. QED BY <1>1, <1>2

\* The running API has enabled permissions only of modules that the registry has as
\* active, whatever the database still holds, for every sequence of releases,
\* synchronizations in it or by the command line, and failures, until the command
\* line goes past it.
THEOREM ModulesLiveSound == ModulesSpec => []LivePermissionsAreActive
<1>1. ModulesInv => LivePermissionsAreActive
  BY DEF ModulesInv
<1>2. QED BY <1>1, StartsWithIt, StepKeepsIt, PTL DEF ModulesSpec

\* And no role gets back a permission that a synchronization took from it, but for
\* what a save of roles writes back from the memory of an API the command line went
\* past.
THEOREM ModulesSound == ModulesSpec => []ModulesAreSound
<1>1. ModulesInv => ModulesAreSound
  BY DEF ModulesInv, ModulesAreSound
<1>2. QED BY <1>1, StartsWithIt, StepKeepsIt, PTL DEF ModulesSpec

-----------------------------------------------------------------------------
(* The first setup: SystemSetup.                                            *)

\* A store that says it is initialized is so by one setup, all of it.
Whole(store) ==
  \/ store.initialized = {}
  \/ \E q \in Setups : /\ store.initialized = {q}
                       /\ OrganizationOf[q] \in store.organizations /\ store.roles
                       /\ AdministratorOf[q] \in store.users

\* The built-in roles let one request through at a time; it makes the memory
\* its own, and after its save the database.
SetupsTakeTurns ==
  /\ \A p, q \in Setups : setup[p] = "hashing" /\ setup[q] = "hashing" => p = q
  /\ \A q \in Setups : setup[q] = "hashing" =>
       /\ system.initialized = {} /\ system.roles
       /\ OrganizationOf[q] \in system.organizations
  /\ \A q \in Setups : setup[q] = "saving" => system.initialized = {q}
  /\ \A q \in Setups : setup[q] \in {"bootstrapping", "answered"} => saved.initialized = {q}

\* The inductive invariant.
SetupInv ==
  /\ system \in System /\ saved \in System
  /\ setup \in [Setups -> Stages]
  /\ mishaps \in [saves : 0 .. MaxSetupSaveFailures, restarts : 0 .. MaxSetupRestarts]
  /\ Whole(system) /\ Whole(saved)
  /\ saved.initialized # {} => saved.initialized = system.initialized
  /\ SetupsTakeTurns

\* It says that a setup is atomic.
LEMMA SetupInvSuffices == SetupInv => SetupIsAtomic
<1> SUFFICES ASSUME SetupInv PROVE SetupIsAtomic
  OBVIOUS
<1>1. Cardinality(system.initialized) <= 1
  <2>1. CASE system.initialized = {}
    <3>1. Cardinality(system.initialized) = 0
      BY <2>1, FS_EmptySet
    <3>2. QED BY <3>1
  <2>2. ASSUME NEW q, system.initialized = {q}
        PROVE  Cardinality(system.initialized) <= 1
    <3>1. Cardinality({q}) = 1
      BY FS_Singleton
    <3>2. QED BY <3>1, <2>2
  <2>3. system.initialized = {} \/ \E q : system.initialized = {q}
    BY DEF SetupInv, Whole
  <2>4. QED BY <2>1, <2>2, <2>3
<1>2. Cardinality({q \in Setups : setup[q] = "answered"}) <= 1
  <2>1. \A p, q \in Setups : setup[p] = "answered" /\ setup[q] = "answered" => p = q
    BY DEF SetupInv, SetupsTakeTurns
  <2>2. CASE \A q \in Setups : setup[q] # "answered"
    <3>1. {q \in Setups : setup[q] = "answered"} = {}
      BY <2>2
    <3>2. QED BY <3>1, FS_EmptySet
  <2>3. ASSUME NEW p \in Setups, setup[p] = "answered"
        PROVE  Cardinality({q \in Setups : setup[q] = "answered"}) <= 1
    <3>1. {q \in Setups : setup[q] = "answered"} = {p}
      BY <2>1, <2>3
    <3>2. Cardinality({p}) = 1
      BY FS_Singleton
    <3>3. QED BY <3>1, <3>2
  <2>4. QED BY <2>2, <2>3
<1>3. InitializedIsWhole
  BY DEF SetupInv, Whole, InitializedIsWhole
<1>4. QED BY <1>1, <1>2, <1>3 DEF SetupInv, SetupIsAtomic, SetupTypeOK, SetupHappensOnce, SetupsTakeTurns

\* What a request that enters a stage leaves of the others.
LEMMA StageEntered ==
  ASSUME SetupInv, NEW q \in Setups, NEW stage \in Stages, Enters(q, stage)
  PROVE  /\ setup' \in [Setups -> Stages] /\ setup'[q] = stage
         /\ \A p \in Setups : p # q => setup'[p] = setup[p]
BY DEF SetupInv, Enters

\* Nothing is set up at the start.
LEMMA SetupStarts == SetupInit => SetupInv
<1> SUFFICES ASSUME SetupInit PROVE SetupInv
  OBVIOUS
<1>1. Fresh \in System /\ Fresh.initialized = {}
  BY DEF Fresh, System
<1>2. "new" \in Stages
  BY DEF Stages
<1>3. QED BY <1>1, <1>2, SetupAssumption DEF SetupInit, SetupInv, Whole, SetupsTakeTurns

\* The organization and the roles are created before the hash.
LEMMA BeginKeepsSetup ==
  ASSUME SetupInv, NEW q \in Setups, BeginSetup(q)
  PROVE  SetupInv'
<1>1. /\ system.initialized = {} /\ saved.initialized = {}
      /\ UNCHANGED <<saved, mishaps>>
  BY DEF SetupInv, BeginSetup
<1>2. PICK s : s = [system EXCEPT !.organizations = @ \cup {OrganizationOf[q]}, !.roles = TRUE]
  OBVIOUS
<1>3. /\ s.organizations = system.organizations \cup {OrganizationOf[q]} /\ s.roles = TRUE
      /\ s.users = system.users /\ s.initialized = {}
      /\ s = [organizations |-> s.organizations, roles |-> s.roles, users |-> s.users,
              initialized |-> s.initialized]
  BY <1>1, <1>2 DEF SetupInv, System
<1>4. OrganizationOf[q] \in SetupOrganizations
  BY DEF SetupOrganizations
<1>5. s \in System /\ system' = s
  <2>1. system.organizations \subseteq SetupOrganizations /\ system.users \subseteq Administrators
    BY DEF SetupInv, System
  <2>2. s.organizations \subseteq SetupOrganizations /\ s.users \subseteq Administrators
    BY <1>3, <1>4, <2>1
  <2>3. s \in System
    BY <1>3, <2>2 DEF System
  <2>4. QED BY <1>2, <2>3 DEF BeginSetup
<1>6. PICK stage \in Stages :
        /\ Enters(q, stage) /\ stage \in {"hashing", "refused"}
        /\ stage = "hashing" => ~system.roles
  BY DEF BeginSetup, Stages, RolesAreFree
<1>7. /\ setup' \in [Setups -> Stages] /\ setup'[q] = stage
      /\ \A p \in Setups : p # q => setup'[p] = setup[p]
  BY <1>6, StageEntered
<1>8. \A p \in Setups : setup'[p] \notin {"saving", "bootstrapping", "answered"}
  BY <1>1, <1>6, <1>7 DEF SetupInv, SetupsTakeTurns
<1>9. \A p, r \in Setups : setup'[p] = "hashing" /\ setup'[r] = "hashing" => p = r
  BY <1>6, <1>7 DEF SetupInv, SetupsTakeTurns
<1>10. \A p \in Setups : setup'[p] = "hashing" => OrganizationOf[p] \in s.organizations
  BY <1>3, <1>6, <1>7 DEF SetupInv, SetupsTakeTurns
<1>11. SetupsTakeTurns'
  BY <1>3, <1>5, <1>8, <1>9, <1>10 DEF SetupsTakeTurns
<1>12. Whole(system)' /\ Whole(saved)'
  BY <1>1, <1>3, <1>5 DEF Whole
<1>13. QED BY <1>1, <1>3, <1>5, <1>7, <1>11, <1>12 DEF SetupInv

\* The administrator is created, and the memory is initialized.
LEMMA FinishKeepsSetup ==
  ASSUME SetupInv, NEW q \in Setups, FinishSetup(q)
  PROVE  SetupInv'
<1>1. /\ system.initialized = {} /\ saved.initialized = {} /\ system.roles
      /\ OrganizationOf[q] \in system.organizations /\ setup[q] = "hashing"
      /\ UNCHANGED <<saved, mishaps>>
  BY DEF SetupInv, SetupsTakeTurns, FinishSetup
<1>2. PICK s : s = [system EXCEPT !.users = @ \cup {AdministratorOf[q]}, !.initialized = {q}]
  OBVIOUS
<1>3. /\ s.organizations = system.organizations /\ s.roles = system.roles
      /\ s.users = system.users \cup {AdministratorOf[q]} /\ s.initialized = {q}
      /\ s = [organizations |-> s.organizations, roles |-> s.roles, users |-> s.users,
              initialized |-> s.initialized]
  BY <1>1, <1>2 DEF SetupInv, System
<1>4. AdministratorOf[q] \in Administrators
  BY DEF Administrators
<1>5. s \in System /\ system' = s
  <2>1. /\ system.organizations \subseteq SetupOrganizations /\ system.users \subseteq Administrators
        /\ system.roles \in BOOLEAN
    BY DEF SetupInv, System
  <2>2. /\ s.organizations \subseteq SetupOrganizations /\ s.users \subseteq Administrators
        /\ s.roles \in BOOLEAN /\ s.initialized \subseteq Setups
    BY <1>3, <1>4, <2>1
  <2>3. s \in System
    BY <1>3, <2>2 DEF System
  <2>4. QED BY <1>2, <2>3 DEF FinishSetup
<1>6. /\ setup' \in [Setups -> Stages] /\ setup'[q] = "saving"
      /\ \A p \in Setups : p # q => setup'[p] = setup[p]
  BY StageEntered DEF FinishSetup, Stages
<1>7. \A p \in Setups : p # q => setup'[p] \notin {"hashing", "saving", "bootstrapping", "answered"}
  BY <1>1, <1>6 DEF SetupInv, SetupsTakeTurns
<1>8. SetupsTakeTurns'
  BY <1>3, <1>5, <1>6, <1>7 DEF SetupsTakeTurns
<1>9. Whole(system)' /\ Whole(saved)'
  BY <1>1, <1>3, <1>5 DEF Whole
<1>10. QED BY <1>1, <1>5, <1>6, <1>8, <1>9 DEF SetupInv

\* The save, and what comes after it: the memory does not change.
LEMMA LaterStagesKeepSetup ==
  ASSUME SetupInv, NEW q \in Setups,
         RefuseSetup(q) \/ SaveSetup(q) \/ FailToSave(q) \/ Bootstrap(q)
  PROVE  SetupInv'
<1>1. PICK stage \in Stages :
        /\ Enters(q, stage) /\ system' = system
        /\ \/ stage \in {"refused", "failed"} /\ saved' = saved
           \/ stage = "bootstrapping" /\ setup[q] = "saving" /\ saved' = system
           \/ stage = "answered" /\ setup[q] = "bootstrapping" /\ saved' = saved
  BY DEF RefuseSetup, SaveSetup, FailToSave, Bootstrap, Stages
<1>2. /\ setup' \in [Setups -> Stages] /\ setup'[q] = stage
      /\ \A p \in Setups : p # q => setup'[p] = setup[p]
  BY <1>1, StageEntered
<1>3. mishaps' \in [saves : 0 .. MaxSetupSaveFailures, restarts : 0 .. MaxSetupRestarts]
  BY SetupAssumption DEF SetupInv, RefuseSetup, SaveSetup, FailToSave, Bootstrap
<1>4. SetupsTakeTurns'
  <2>1. CASE saved' = saved
    BY <1>1, <1>2, <2>1 DEF SetupInv, SetupsTakeTurns
  <2>2. CASE stage = "bootstrapping" /\ setup[q] = "saving" /\ saved' = system
    <3>1. system.initialized = {q}
      BY <2>2 DEF SetupInv, SetupsTakeTurns
    <3>2. \A p \in Setups : setup[p] \in {"bootstrapping", "answered"} => p = q
      BY <3>1 DEF SetupInv, SetupsTakeTurns
    <3>3. QED BY <1>1, <1>2, <2>2, <3>1, <3>2 DEF SetupInv, SetupsTakeTurns
  <2>3. QED BY <1>1, <2>1, <2>2
<1>5. saved' \in {saved, system}
  BY <1>1
<1>6. Whole(system)' /\ Whole(saved)' /\ saved' \in System
  BY <1>1, <1>5 DEF SetupInv, Whole
<1>7. saved'.initialized # {} => saved'.initialized = system.initialized
  BY <1>5 DEF SetupInv
<1>8. QED BY <1>1, <1>2, <1>3, <1>4, <1>6, <1>7 DEF SetupInv

\* The administrator's work saves tables of a memory that is whole.
LEMMA WorkKeepsSetup ==
  ASSUME SetupInv, Work
  PROVE  SetupInv'
<1>1. PICK s : /\ saved' = s
               /\ \/ s = [saved EXCEPT !.users = system.users]
                  \/ s = [saved EXCEPT !.organizations = system.organizations]
                  \/ s = [saved EXCEPT !.roles = system.roles]
  BY DEF Work
<1>2. UNCHANGED <<system, setup, mishaps>>
  BY DEF Work
<1>3. /\ s.users \in {saved.users, system.users}
      /\ s.organizations \in {saved.organizations, system.organizations}
      /\ s.roles = saved.roles \/ s.roles = system.roles
      /\ s.initialized = saved.initialized
      /\ s = [organizations |-> s.organizations, roles |-> s.roles, users |-> s.users,
              initialized |-> s.initialized]
  BY <1>1 DEF SetupInv, System
<1>4. s \in System
  <2>1. \A t \in {saved, system} : /\ t.organizations \subseteq SetupOrganizations
                                   /\ t.users \subseteq Administrators /\ t.roles \in BOOLEAN
                                   /\ t.initialized \subseteq Setups
    BY DEF SetupInv, System
  <2>2. /\ s.organizations \subseteq SetupOrganizations /\ s.users \subseteq Administrators
        /\ s.roles \in BOOLEAN /\ s.initialized \subseteq Setups
    BY <1>3, <2>1
  <2>3. QED BY <1>3, <2>2 DEF System
<1>5. Whole(s)
  <2>1. CASE saved.initialized = {}
    BY <1>3, <2>1 DEF Whole
  <2>2. CASE saved.initialized # {}
    <3>1. PICK q \in Setups : /\ saved.initialized = {q}
                              /\ OrganizationOf[q] \in saved.organizations /\ saved.roles
                              /\ AdministratorOf[q] \in saved.users
      BY <2>2 DEF SetupInv, Whole
    <3>2. /\ OrganizationOf[q] \in system.organizations /\ system.roles
          /\ AdministratorOf[q] \in system.users
      BY <3>1 DEF SetupInv, Whole
    <3>3. QED BY <1>3, <3>1, <3>2 DEF Whole
  <2>3. QED BY <2>1, <2>2
<1>6. SetupsTakeTurns'
  BY <1>1, <1>2, <1>3 DEF SetupInv, SetupsTakeTurns
<1>7. Whole(system)' /\ Whole(saved)'
  BY <1>1, <1>2, <1>5 DEF SetupInv, Whole
<1>8. QED BY <1>1, <1>2, <1>3, <1>4, <1>6, <1>7 DEF SetupInv

\* A restart forgets the requests that are under way.
LEMMA RestartKeepsSetup ==
  ASSUME SetupInv, RestartSetup
  PROVE  SetupInv'
<1>1. system' = saved /\ saved' = saved
  BY DEF RestartSetup
<1>2. /\ setup' \in [Setups -> Stages]
      /\ \A q \in Setups : /\ setup'[q] \notin {"hashing", "saving", "bootstrapping"}
                           /\ setup'[q] = "answered" => setup[q] = "answered"
  BY DEF RestartSetup, SetupInv, Stages
<1>3. SetupsTakeTurns'
  BY <1>1, <1>2 DEF SetupInv, SetupsTakeTurns
<1>4. mishaps' \in [saves : 0 .. MaxSetupSaveFailures, restarts : 0 .. MaxSetupRestarts]
  BY SetupAssumption DEF SetupInv, RestartSetup
<1>5. Whole(system)' /\ Whole(saved)'
  BY <1>1 DEF SetupInv, Whole
<1>6. QED BY <1>1, <1>2, <1>3, <1>4, <1>5 DEF SetupInv

\* Whatever overlaps, fails and restarts, there is one setup at most, and it is
\* whole (initializeFreshSystem and the saves around it).
THEOREM SetupHolds == SetupSpec => []SetupIsAtomic
<1>1. SetupInv /\ [SetupNext]_setupVars => SetupInv'
  <2> SUFFICES ASSUME SetupInv, [SetupNext]_setupVars PROVE SetupInv'
    OBVIOUS
  <2>1. CASE SetupNext
    BY <2>1, BeginKeepsSetup, FinishKeepsSetup, LaterStagesKeepSetup, WorkKeepsSetup,
       RestartKeepsSetup DEF SetupNext
  <2>2. CASE UNCHANGED setupVars
    BY <2>2 DEF setupVars, SetupInv, Whole, SetupsTakeTurns
  <2>3. QED BY <2>1, <2>2
<1>2. QED BY <1>1, SetupStarts, SetupInvSuffices, PTL DEF SetupSpec

-----------------------------------------------------------------------------
(* Migrations, for every sequence of releases.                              *)

Awake == {"looking", "pending", "written", "done"}

\* A runner is at a migration of its release, or at its end.
RunnersAreWithin ==
  \A p \in Runners :
    /\ runner[p].step \in {"pending", "written"} => runner[p].at <= Len(Plan(p))
    /\ runner[p].step = "done" => runner[p].at > Len(Plan(p))

\* What a runner has passed is applied, as it is written.
PassedIsApplied ==
  \A p \in Runners : runner[p].step \in Awake =>
    \A i \in 1 .. Len(Plan(p)) : i < runner[p].at => Plan(p)[i] \in history

\* A transaction that has inserted its row is the only one of that name, ever.
WritersAreAlone ==
  \A p \in Runners : runner[p].step = "written" =>
    /\ \A row \in history : row.id # Current(p).id
    /\ \A q \in Runners : runner[q].step = "written" /\ Current(q).id = Current(p).id => q = p

\* An effect came from a release all of whose earlier migrations it followed.
Follows(done, j) ==
  \E l \in 1 .. Len(Plans) : \E n \in 1 .. Len(Plans[l]) :
    /\ done[j] = Plans[l][n]
    /\ \A m \in 1 .. Len(Plans[l]) : m < n =>
         \E i \in 1 .. Len(done) : i < j /\ done[i] = Plans[l][m]
EffectsFollow == \A j \in 1 .. Len(effects) : Follows(effects, j)

\* The inductive invariant.
MigrationsInv ==
  /\ MigrationsTypeOK /\ EffectsAreRecordedOnce
  /\ RunnersAreWithin /\ PassedIsApplied /\ WritersAreAlone /\ EffectsFollow

\* It makes a finished run complete: what another release has applied of a
\* source came after all that this one has before it.
LEMMA MigrationsInvSuffices == MigrationsInv => HistoryIsTrue
<1> SUFFICES ASSUME MigrationsInv, NEW p \in Runners, runner[p].step = "done"
             PROVE  /\ \A i \in 1 .. Len(Plan(p)) : Plan(p)[i] \in history
                    /\ \A i, j \in 1 .. Len(Plan(p)) :
                         i < j /\ Plan(p)[i].source = Plan(p)[j].source
                           => Before(Plan(p)[i], Plan(p)[j], effects)
  BY DEF MigrationsInv, HistoryIsTrue, FinishedRunsAreComplete
<1> DEFINE k == runner[p].plan
<1>1. k \in 1 .. Len(Plans) /\ Len(Plans[k]) \in Nat /\ Plan(p) = Plans[k] /\ runner[p].at \in Nat
  BY MigrationsAssumption DEF MigrationsInv, MigrationsTypeOK, Plan
<1>2. ASSUME NEW i \in 1 .. Len(Plans[k]) PROVE Plans[k][i] \in history
  BY <1>1 DEF MigrationsInv, RunnersAreWithin, PassedIsApplied, Awake
<1>3. ASSUME NEW i \in 1 .. Len(Plans[k]), NEW j \in 1 .. Len(Plans[k]), i < j,
             Plans[k][i].source = Plans[k][j].source
      PROVE  Before(Plans[k][i], Plans[k][j], effects)
  <2>1. PICK a \in 1 .. Len(effects) : effects[a] = Plans[k][i]
    BY <1>2 DEF MigrationsInv, EffectsAreRecordedOnce
  <2>2. PICK b \in 1 .. Len(effects) : effects[b] = Plans[k][j]
    BY <1>2 DEF MigrationsInv, EffectsAreRecordedOnce
  <2>3. PICK l \in 1 .. Len(Plans) : \E n \in 1 .. Len(Plans[l]) :
          /\ effects[b] = Plans[l][n]
          /\ \A m \in 1 .. Len(Plans[l]) : m < n =>
               \E c \in 1 .. Len(effects) : c < b /\ effects[c] = Plans[l][m]
    BY DEF MigrationsInv, EffectsFollow, Follows
  <2>4. PICK n \in 1 .. Len(Plans[l]) :
          /\ effects[b] = Plans[l][n]
          /\ \A m \in 1 .. Len(Plans[l]) : m < n =>
               \E c \in 1 .. Len(effects) : c < b /\ effects[c] = Plans[l][m]
    BY <2>3
  <2>5. PICK m \in 1 .. n - 1 : Plans[l][m].id = Plans[k][i].id
    <3>1. Plans[l][n] = Plans[k][j]
      BY <2>2, <2>4
    <3> HIDE DEF k
    <3>2. QED BY <1>1, <1>3, <3>1, ReleasesGrow
  <2>6. m \in 1 .. Len(Plans[l]) /\ m < n
    BY MigrationsAssumption
  <2>7. PICK c \in 1 .. Len(effects) : c < b /\ effects[c] = Plans[l][m]
    BY <2>4, <2>6
  <2>8. c = a
    BY <2>1, <2>5, <2>7 DEF MigrationsInv, EffectsAreRecordedOnce
  <2>9. QED BY <2>1, <2>2, <2>7, <2>8 DEF Before
<1>4. QED BY <1>1, <1>2, <1>3

-----------------------------------------------------------------------------
(* Its preservation.                                                        *)

\* Effects that stay follow what they followed.
LEMMA EffectsStillFollow ==
  ASSUME MigrationsInv, effects' = effects PROVE EffectsFollow'
BY DEF MigrationsInv, EffectsFollow

\* A step of one runner that changes neither the history nor its release
\* disturbs nothing, if where it comes to is in order.
LEMMA WalkingKeepsIt ==
  ASSUME MigrationsInv, NEW p \in Runners, NEW to,
         to \in [plan : 1 .. Len(Plans), at : Nat \ {0}, step : Steps],
         runner' = [runner EXCEPT ![p] = to],
         UNCHANGED <<history, effects>>, kills' \in 0 .. MaxRunnerExits,
         to.step \in {"pending", "written"} => to.at <= Len(Plans[to.plan]),
         to.step = "done" => to.at > Len(Plans[to.plan]),
         to.step \in Awake => \A i \in 1 .. Len(Plans[to.plan]) :
                                 i < to.at => Plans[to.plan][i] \in history,
         to.step = "written" =>
           /\ \A row \in history : row.id # Plans[to.plan][to.at].id
           /\ \A q \in Runners : runner[q].step = "written"
                                   => q = p \/ Current(q).id # Plans[to.plan][to.at].id
  PROVE  MigrationsInv'
<1>1. /\ runner'[p] = to
      /\ \A q \in Runners : q # p => runner'[q] = runner[q]
      /\ history' = history /\ effects' = effects
  BY DEF MigrationsInv, MigrationsTypeOK
<1>2. /\ Plan(p)' = Plans[to.plan] /\ Current(p)' = Plans[to.plan][to.at]
      /\ \A q \in Runners : q # p => Plan(q)' = Plan(q) /\ Current(q)' = Current(q)
  BY <1>1 DEF Plan, Current
<1>3. MigrationsTypeOK'
  BY <1>1 DEF MigrationsInv, MigrationsTypeOK, Migration
<1>4. EffectsAreRecordedOnce' /\ EffectsFollow'
  <2>1. EffectsAreRecordedOnce'
    BY <1>1 DEF MigrationsInv, EffectsAreRecordedOnce
  <2>2. EffectsFollow'
    BY EffectsStillFollow
  <2>3. QED BY <2>1, <2>2
<1>5. RunnersAreWithin'
  <2> SUFFICES ASSUME NEW q \in Runners
               PROVE  /\ runner'[q].step \in {"pending", "written"} => runner'[q].at <= Len(Plan(q)')
                      /\ runner'[q].step = "done" => runner'[q].at > Len(Plan(q)')
    BY DEF RunnersAreWithin
  <2>1. CASE q = p
    BY <2>1, <1>1, <1>2
  <2>2. CASE q # p
    BY <2>2, <1>1, <1>2 DEF MigrationsInv, RunnersAreWithin
  <2>3. QED BY <2>1, <2>2
<1>6. PassedIsApplied'
  <2> SUFFICES ASSUME NEW q \in Runners, runner'[q].step \in Awake,
                      NEW i \in 1 .. Len(Plan(q)'), i < runner'[q].at
               PROVE  Plan(q)'[i] \in history'
    BY DEF PassedIsApplied
  <2>1. CASE q = p
    BY <2>1, <1>1, <1>2
  <2>2. CASE q # p
    BY <2>2, <1>1, <1>2 DEF MigrationsInv, PassedIsApplied
  <2>3. QED BY <2>1, <2>2
<1>7. WritersAreAlone'
  BY <1>1, <1>2 DEF MigrationsInv, WritersAreAlone
<1>8. QED BY <1>3, <1>4, <1>5, <1>6, <1>7 DEF MigrationsInv

\* A commit adds one effect and its row.
LEMMA CommittingKeepsIt ==
  ASSUME MigrationsInv, NEW p \in Runners, Commit(p)
  PROVE  MigrationsInv'
<1> DEFINE k == runner[p].plan
           n == runner[p].at
           new == Plans[k][n]
           to == [plan |-> k, at |-> n + 1, step |-> "looking"]
<1>1. /\ k \in 1 .. Len(Plans) /\ Len(Plans[k]) \in Nat /\ n \in 1 .. Len(Plans[k])
      /\ Plan(p) = Plans[k] /\ Current(p) = new /\ new \in Migration /\ runner[p].step = "written"
  <2>1. k \in 1 .. Len(Plans) /\ n \in Nat \ {0} /\ Len(Plans[k]) \in Nat
        /\ Plan(p) = Plans[k] /\ Current(p) = new /\ runner[p].step = "written"
    BY MigrationsAssumption DEF MigrationsInv, MigrationsTypeOK, Plan, Current, Commit
  <2>2. n <= Len(Plans[k])
    BY <2>1 DEF MigrationsInv, RunnersAreWithin
  <2>3. QED BY <2>1, <2>2 DEF Migration
<1> DEFINE L == Len(effects)
<1>2. /\ effects \in Seq(Migration) /\ L \in Nat
      /\ history' = history \cup {new} /\ effects' = Append(effects, new)
      /\ Len(effects') = L + 1 /\ effects'[L + 1] = new
      /\ \A i \in 1 .. L : effects'[i] = effects[i]
      /\ effects' \in Seq(Migration)
  BY <1>1 DEF Commit, MigrationsInv, MigrationsTypeOK
<1>3. /\ runner' = [runner EXCEPT ![p] = to]
      /\ to \in [plan : 1 .. Len(Plans), at : Nat \ {0}, step : Steps]
  <2>1. PICK u : u = [runner[p] EXCEPT !.step = "looking", !.at = @ + 1]
    OBVIOUS
  <2>2. u = to
    BY <2>1 DEF MigrationsInv, MigrationsTypeOK
  <2>3. runner' = [runner EXCEPT ![p] = u]
    BY <2>1 DEF Commit
  <2>4. to \in [plan : 1 .. Len(Plans), at : Nat \ {0}, step : Steps]
    BY <1>1 DEF Steps
  <2> HIDE DEF to
  <2>5. QED BY <2>2, <2>3, <2>4
<1>4. /\ runner'[p] = to
      /\ \A q \in Runners : q # p => runner'[q] = runner[q]
  BY <1>3 DEF MigrationsInv, MigrationsTypeOK
<1>5. /\ Plan(p)' = Plans[k]
      /\ \A q \in Runners : q # p => Plan(q)' = Plan(q) /\ Current(q)' = Current(q)
  BY <1>4 DEF Plan, Current
<1>6. \A row \in history : row.id # new.id
  BY <1>1 DEF MigrationsInv, WritersAreAlone
<1>7. \A i \in 1 .. L : effects[i] \in history /\ effects[i].id # new.id
  BY <1>6 DEF MigrationsInv, EffectsAreRecordedOnce
<1>8. MigrationsTypeOK'
  BY <1>1, <1>2, <1>3 DEF MigrationsInv, MigrationsTypeOK, Migration, Commit
<1> HIDE DEF L
<1>9. EffectsAreRecordedOnce'
  <2>1. ASSUME NEW i \in 1 .. L + 1, NEW j \in 1 .. L + 1, effects'[i].id = effects'[j].id
        PROVE  i = j
    <3>1. CASE i \in 1 .. L /\ j \in 1 .. L
      BY <3>1, <2>1, <1>2 DEF MigrationsInv, EffectsAreRecordedOnce, L
    <3>2. CASE i = L + 1 \/ j = L + 1
      BY <3>2, <2>1, <1>2, <1>7
    <3>3. QED BY <3>1, <3>2, <1>2
  <2>2. history' = {effects'[i] : i \in 1 .. L + 1}
    <3>1. history = {effects[i] : i \in 1 .. L}
      BY DEF MigrationsInv, EffectsAreRecordedOnce, L
    <3>2. QED BY <3>1, <1>2
  <2>3. QED BY <2>1, <2>2, <1>2 DEF EffectsAreRecordedOnce
<1>10. EffectsFollow'
  <2> SUFFICES ASSUME NEW j \in 1 .. L + 1 PROVE Follows(effects', j)
    BY <1>2 DEF EffectsFollow
  <2>1. CASE j \in 1 .. L
    <3>1. Follows(effects, j)
      BY <2>1 DEF MigrationsInv, EffectsFollow, L
    <3>2. PICK l \in 1 .. Len(Plans) : \E h \in 1 .. Len(Plans[l]) :
            /\ effects[j] = Plans[l][h]
            /\ \A m \in 1 .. Len(Plans[l]) : m < h =>
                 \E i \in 1 .. L : i < j /\ effects[i] = Plans[l][m]
      BY <3>1 DEF Follows, L
    <3>3. PICK h \in 1 .. Len(Plans[l]) :
            /\ effects[j] = Plans[l][h]
            /\ \A m \in 1 .. Len(Plans[l]) : m < h =>
                 \E i \in 1 .. L : i < j /\ effects[i] = Plans[l][m]
      BY <3>2
    <3>4. ASSUME NEW m \in 1 .. Len(Plans[l]), m < h
          PROVE  \E i \in 1 .. L + 1 : i < j /\ effects'[i] = Plans[l][m]
      BY <3>3, <3>4, <1>2
    <3>5. effects'[j] = Plans[l][h]
      BY <3>3, <2>1, <1>2
    <3>6. QED BY <3>4, <3>5, <1>2 DEF Follows
  <2>2. CASE j = L + 1
    <3>1. ASSUME NEW m \in 1 .. Len(Plans[k]), m < n
          PROVE  \E i \in 1 .. L + 1 : i < j /\ effects'[i] = Plans[k][m]
      <4>1. Plans[k][m] \in history
        BY <1>1, <3>1 DEF MigrationsInv, PassedIsApplied, Awake
      <4>2. PICK i \in 1 .. L : effects[i] = Plans[k][m]
        BY <4>1 DEF MigrationsInv, EffectsAreRecordedOnce, L
      <4>3. QED BY <4>2, <2>2, <1>2
    <3>2. effects'[j] = Plans[k][n]
      BY <2>2, <1>2
    <3> HIDE DEF k, n
    <3>3. \E l \in 1 .. Len(Plans) : \E h \in 1 .. Len(Plans[l]) :
            /\ effects'[j] = Plans[l][h]
            /\ \A m \in 1 .. Len(Plans[l]) : m < h =>
                 \E i \in 1 .. L + 1 : i < j /\ effects'[i] = Plans[l][m]
      BY <3>1, <3>2, <1>1
    <3>4. QED BY <3>3, <1>2 DEF Follows
  <2>3. QED BY <2>1, <2>2, <1>2
<1>11. RunnersAreWithin'
  <2> SUFFICES ASSUME NEW q \in Runners
               PROVE  /\ runner'[q].step \in {"pending", "written"} => runner'[q].at <= Len(Plan(q)')
                      /\ runner'[q].step = "done" => runner'[q].at > Len(Plan(q)')
    BY DEF RunnersAreWithin
  <2>1. CASE q = p
    BY <2>1, <1>4
  <2>2. CASE q # p
    BY <2>2, <1>4, <1>5 DEF MigrationsInv, RunnersAreWithin
  <2>3. QED BY <2>1, <2>2
<1>12. PassedIsApplied'
  <2> SUFFICES ASSUME NEW q \in Runners, runner'[q].step \in Awake,
                      NEW i \in 1 .. Len(Plan(q)'), i < runner'[q].at
               PROVE  Plan(q)'[i] \in history'
    BY DEF PassedIsApplied
  <2>1. CASE q = p
    <3>1. i \in 1 .. Len(Plans[k]) /\ i < n + 1 /\ Plan(q)' = Plans[k]
      BY <2>1, <1>4, <1>5
    <3>2. CASE i = n
      BY <3>1, <3>2, <1>2
    <3>3. CASE i < n
      BY <3>1, <3>3, <1>1, <1>2 DEF MigrationsInv, PassedIsApplied, Awake
    <3>4. QED BY <3>1, <3>2, <3>3, <1>1
  <2>2. CASE q # p
    BY <2>2, <1>2, <1>4, <1>5 DEF MigrationsInv, PassedIsApplied
  <2>3. QED BY <2>1, <2>2
<1>13. WritersAreAlone'
  <2> SUFFICES ASSUME NEW q \in Runners, runner'[q].step = "written"
               PROVE  /\ \A row \in history' : row.id # Current(q)'.id
                      /\ \A r \in Runners :
                           runner'[r].step = "written" /\ Current(r)'.id = Current(q)'.id => r = q
    BY DEF WritersAreAlone
  <2>1. q # p /\ runner[q].step = "written" /\ Current(q)' = Current(q)
    BY <1>4, <1>5
  <2>2. Current(q).id # new.id
    BY <2>1, <1>1 DEF MigrationsInv, WritersAreAlone
  <2>3. QED BY <2>1, <2>2, <1>2, <1>4, <1>5 DEF MigrationsInv, WritersAreAlone
<1>14. QED BY <1>8, <1>9, <1>10, <1>11, <1>12, <1>13 DEF MigrationsInv

\* Every other step of a runner is a walk.
LEMMA RunnersKeepIt ==
  ASSUME MigrationsInv, NEW p \in Runners,
         \/ \E k \in 1 .. Len(Plans) : StartRunner(p, k)
         \/ Finish(p) \/ Look(p) \/ Abort(p) \/ Execute(p)
  PROVE  MigrationsInv'
<1> DEFINE k == runner[p].plan
           n == runner[p].at
<1>1. /\ k \in 1 .. Len(Plans) /\ Len(Plans[k]) \in Nat /\ n \in Nat \ {0}
      /\ Plan(p) = Plans[k] /\ Current(p) = Plans[k][n] /\ kills \in 0 .. MaxRunnerExits
  BY MigrationsAssumption DEF MigrationsInv, MigrationsTypeOK, Plan, Current
<1>2. \A step \in Steps :
        /\ [plan |-> k, at |-> n, step |-> step]
             \in [plan : 1 .. Len(Plans), at : Nat \ {0}, step : Steps]
        /\ Moves(p, step) => runner' = [runner EXCEPT ![p] = [plan |-> k, at |-> n, step |-> step]]
  <2> SUFFICES ASSUME NEW step \in Steps
               PROVE  Moves(p, step)
                        => runner' = [runner EXCEPT ![p] = [plan |-> k, at |-> n, step |-> step]]
    BY <1>1
  <2>1. PICK u : u = [runner[p] EXCEPT !.step = step]
    OBVIOUS
  <2>2. u = [plan |-> k, at |-> n, step |-> step]
    BY <2>1 DEF MigrationsInv, MigrationsTypeOK
  <2>3. Moves(p, step) => runner' = [runner EXCEPT ![p] = u]
    BY <2>1 DEF Moves
  <2>4. QED BY <2>2, <2>3
<1>3. runner[p].step \in Awake => \A i \in 1 .. Len(Plans[k]) : i < n => Plans[k][i] \in history
  BY <1>1 DEF MigrationsInv, PassedIsApplied
<1>4. ASSUME NEW l \in 1 .. Len(Plans), StartRunner(p, l) PROVE MigrationsInv'
  <2> DEFINE to == [plan |-> l, at |-> 1, step |-> "looking"]
  <2>1. /\ to \in [plan : 1 .. Len(Plans), at : Nat \ {0}, step : Steps]
        /\ runner' = [runner EXCEPT ![p] = to]
        /\ UNCHANGED <<history, effects, kills>>
    BY <1>4 DEF StartRunner, Steps
  <2>2. to.step = "looking" /\ to.at = 1 /\ to.plan = l
    OBVIOUS
  <2> HIDE DEF to
  <2>3. \A i \in 1 .. Len(Plans[to.plan]) : i < to.at => Plans[to.plan][i] \in history
    BY <2>2, MigrationsAssumption
  <2>4. QED BY <2>1, <2>2, <2>3, <1>1, WalkingKeepsIt
<1>5. CASE Finish(p)
  <2> DEFINE to == [plan |-> k, at |-> n, step |-> "done"]
  <2>1. /\ to \in [plan : 1 .. Len(Plans), at : Nat \ {0}, step : Steps]
        /\ runner' = [runner EXCEPT ![p] = to]
        /\ UNCHANGED <<history, effects, kills>>
    BY <1>5, <1>2 DEF Finish, Steps
  <2>2. to.step = "done" /\ to.at = n /\ to.plan = k /\ n > Len(Plans[k]) /\ runner[p].step = "looking"
    BY <1>5, <1>1 DEF Finish
  <2> HIDE DEF to, k, n
  <2>3. QED BY <2>1, <2>2, <1>1, <1>3, WalkingKeepsIt DEF Awake
<1>6. CASE Look(p)
  <2>1. CASE Recorded(Current(p).id) = {}
    <3> DEFINE to == [plan |-> k, at |-> n, step |-> "pending"]
    <3>1. /\ to \in [plan : 1 .. Len(Plans), at : Nat \ {0}, step : Steps]
          /\ runner' = [runner EXCEPT ![p] = to]
          /\ UNCHANGED <<history, effects, kills>>
      BY <1>6, <1>2, <2>1 DEF Look, Steps
    <3>2. to.step = "pending" /\ to.at = n /\ to.plan = k /\ n <= Len(Plans[k])
          /\ runner[p].step = "looking"
      BY <1>6, <1>1 DEF Look
    <3> HIDE DEF to, k, n
    <3>3. \A i \in 1 .. Len(Plans[to.plan]) : i < to.at => Plans[to.plan][i] \in history
      BY <3>2, <1>3 DEF Awake
    <3>4. QED BY <3>1, <3>2, <3>3, <1>1, WalkingKeepsIt
  <2>2. CASE Recorded(Current(p).id) # {} /\ Applied(p)
    <3> DEFINE to == [plan |-> k, at |-> n + 1, step |-> "looking"]
    <3>1. runner[p].step = "looking" /\ UNCHANGED <<history, effects, kills>>
          /\ runner' = [runner EXCEPT ![p].at = @ + 1]
      BY <1>6, <2>2 DEF Look
    <3>2. PICK u : u = [runner[p] EXCEPT !.at = @ + 1]
      OBVIOUS
    <3>3. u = to
      BY <3>1, <3>2 DEF MigrationsInv, MigrationsTypeOK
    <3>4. runner' = [runner EXCEPT ![p] = to]
      BY <3>1, <3>2, <3>3
    <3>5. to \in [plan : 1 .. Len(Plans), at : Nat \ {0}, step : Steps]
      BY <1>1 DEF Steps
    <3>6. to.step = "looking" /\ to.at = n + 1 /\ to.plan = k
      OBVIOUS
    <3>7. Plans[k][n] \in history
      BY <2>2, <1>1 DEF Applied, Recorded
    <3>8. \A i \in 1 .. Len(Plans[k]) : i < n + 1 => Plans[k][i] \in history
      <4> SUFFICES ASSUME NEW i \in 1 .. Len(Plans[k]), i < n + 1 PROVE Plans[k][i] \in history
        OBVIOUS
      <4>1. i = n \/ i < n
        BY <1>1
      <4>2. QED BY <4>1, <3>1, <3>7, <1>3 DEF Awake
    <3> HIDE DEF to, k, n
    <3>9. \A i \in 1 .. Len(Plans[to.plan]) : i < to.at => Plans[to.plan][i] \in history
      BY <3>6, <3>8
    <3>10. UNCHANGED <<history, effects, kills>>
      BY <3>1
    <3>11. QED BY <3>4, <3>5, <3>6, <3>9, <3>10, <1>1, WalkingKeepsIt
  <2>3. CASE Recorded(Current(p).id) # {} /\ ~Applied(p)
    <3> DEFINE to == [plan |-> k, at |-> n, step |-> "failed"]
    <3>1. /\ to \in [plan : 1 .. Len(Plans), at : Nat \ {0}, step : Steps]
          /\ runner' = [runner EXCEPT ![p] = to]
          /\ UNCHANGED <<history, effects, kills>>
      BY <1>6, <1>2, <2>3 DEF Look, Steps
    <3>2. to.step = "failed"
      OBVIOUS
    <3> HIDE DEF to, k, n
    <3>3. QED BY <3>1, <3>2, <1>1, WalkingKeepsIt DEF Awake
  <2>4. QED BY <2>1, <2>2, <2>3
<1>7. CASE Abort(p)
  <2> DEFINE to == [plan |-> k, at |-> n, step |-> "failed"]
  <2>1. /\ to \in [plan : 1 .. Len(Plans), at : Nat \ {0}, step : Steps]
        /\ runner' = [runner EXCEPT ![p] = to]
        /\ UNCHANGED <<history, effects>> /\ kills' \in 0 .. MaxRunnerExits
    BY <1>7, <1>1, <1>2, MigrationsAssumption DEF Abort, Steps
  <2>2. to.step = "failed"
    OBVIOUS
  <2> HIDE DEF to, k, n
  <2>3. QED BY <2>1, <2>2, WalkingKeepsIt DEF Awake
<1>8. CASE Execute(p)
  <2>1. CASE Recorded(Current(p).id) # {}
    <3> DEFINE to == [plan |-> k, at |-> n, step |-> "failed"]
    <3>1. /\ to \in [plan : 1 .. Len(Plans), at : Nat \ {0}, step : Steps]
          /\ runner' = [runner EXCEPT ![p] = to]
          /\ UNCHANGED <<history, effects, kills>>
      BY <1>8, <1>2, <2>1 DEF Execute, Steps
    <3>2. to.step = "failed"
      OBVIOUS
    <3> HIDE DEF to, k, n
    <3>3. QED BY <3>1, <3>2, <1>1, WalkingKeepsIt DEF Awake
  <2>2. CASE Recorded(Current(p).id) = {}
    <3> DEFINE to == [plan |-> k, at |-> n, step |-> "written"]
    <3>1. /\ to \in [plan : 1 .. Len(Plans), at : Nat \ {0}, step : Steps]
          /\ runner' = [runner EXCEPT ![p] = to]
          /\ UNCHANGED <<history, effects, kills>>
      BY <1>8, <1>2, <2>2 DEF Execute, Steps
    <3>2. to.step = "written" /\ to.at = n /\ to.plan = k /\ runner[p].step = "pending"
      BY <1>8 DEF Execute
    <3>3. n <= Len(Plans[k])
      BY <3>2, <1>1 DEF MigrationsInv, RunnersAreWithin
    <3>4. \A row \in history : row.id # Plans[k][n].id
      BY <2>2, <1>1 DEF Recorded
    <3>5. \A q \in Runners : runner[q].step = "written" => Current(q).id # Plans[k][n].id
      BY <1>8, <1>1 DEF Execute, Holders
    <3> HIDE DEF to, k, n
    <3>6. QED BY <3>1, <3>2, <3>3, <3>4, <3>5, <1>1, <1>3, WalkingKeepsIt DEF Awake
  <2>3. QED BY <2>1, <2>2
<1>9. QED BY <1>4, <1>5, <1>6, <1>7, <1>8

\* However many operators run the command, for whichever releases, the effects
\* are what the history says, each once, and a run that ended well left its
\* release applied, the migrations of one source in their order.
THEOREM HistoryHolds == MigrationsSpec => []HistoryIsTrue
<1>1. MigrationsInit => MigrationsInv
  <2> SUFFICES ASSUME MigrationsInit PROVE MigrationsInv
    OBVIOUS
  <2>1. history = {} /\ effects = <<>> /\ kills = 0 /\ Len(effects) = 0
    BY DEF MigrationsInit
  <2>2. MigrationsTypeOK
    BY <2>1, MigrationsAssumption, EmptySeq DEF MigrationsInit, MigrationsTypeOK, Steps
  <2>3. EffectsAreRecordedOnce /\ EffectsFollow
    BY <2>1 DEF EffectsAreRecordedOnce, EffectsFollow
  <2>4. \A p \in Runners : runner[p].step = "idle"
    BY DEF MigrationsInit
  <2>5. RunnersAreWithin /\ PassedIsApplied /\ WritersAreAlone
    BY <2>4 DEF RunnersAreWithin, PassedIsApplied, WritersAreAlone, Awake
  <2>6. QED BY <2>2, <2>3, <2>5 DEF MigrationsInv
<1>2. MigrationsInv /\ [MigrationsNext]_migrationVars => MigrationsInv'
  <2> SUFFICES ASSUME MigrationsInv, [MigrationsNext]_migrationVars PROVE MigrationsInv'
    OBVIOUS
  <2>1. CASE UNCHANGED migrationVars
    <3>1. history' = history /\ effects' = effects /\ runner' = runner /\ kills' = kills
      BY <2>1 DEF migrationVars
    <3>2. EffectsFollow'
      BY <3>1, EffectsStillFollow
    <3>3. QED
      BY <3>1, <3>2 DEF MigrationsInv, MigrationsTypeOK, Migration, EffectsAreRecordedOnce,
                        RunnersAreWithin, PassedIsApplied, WritersAreAlone, Plan, Current
  <2>2. ASSUME NEW p \in Runners, Commit(p) PROVE MigrationsInv'
    BY <2>2, CommittingKeepsIt, Zenon
  <2>3. ASSUME NEW p \in Runners,
               \/ \E k \in 1 .. Len(Plans) : StartRunner(p, k)
               \/ Finish(p) \/ Look(p) \/ Abort(p) \/ Execute(p)
        PROVE  MigrationsInv'
    BY <2>3, RunnersKeepIt, Zenon
  <2>4. QED BY <2>1, <2>2, <2>3, Zenon DEF MigrationsNext
<1>3. QED BY <1>1, <1>2, MigrationsInvSuffices, PTL DEF MigrationsSpec

\* A system is migrated and set up once: the two share nothing but the database,
\* and neither reads what the other has written.
THEOREM DeploymentHolds == MigrationsSpec /\ SetupSpec => []DeploymentIsSound
<1>1. HistoryIsTrue /\ SetupIsAtomic => DeploymentIsSound
  BY DEF DeploymentIsSound
<1>2. QED BY <1>1, HistoryHolds, SetupHolds, PTL

-----------------------------------------------------------------------------
(* Templates: NotificationTemplates.                                        *)

\* What is known of a draft, whatever it is of.
Draft == [step : {"idle", "checked", "read"}, key : TemplateKeys \cup {0},
          input : TemplateInputs \cup {<<>>}, read : TemplateRow]
Editing(e) == drafts[e].step # "idle"

DraftsAreTyped ==
  /\ drafts \in [Editors -> Draft]
  /\ \A e \in Editors : Editing(e) => drafts[e].input \in TemplateInputs
  /\ IsFiniteSet(DOMAIN templates)

\* A template two updates of which have never overlapped has one at a time.
OneAtATime ==
  \A d, e \in Editors : Editing(d) /\ Editing(e) /\ drafts[d].key = drafts[e].key
                        /\ drafts[e].key \notin overlapped => d = e

\* Such an update still finds what it has checked.
ChecksStand ==
  \A e \in Editors : drafts[e].key \notin overlapped =>
    /\ drafts[e].step = "checked" /\ InList(drafts[e].key)
         => Contract(Merged(templates[drafts[e].key], drafts[e].input))
    /\ drafts[e].step = "read" =>
         /\ drafts[e].read = templates[drafts[e].key]
         /\ Contract(Merged(drafts[e].read, drafts[e].input))

\* The inductive invariant.
TemplatesInv == TemplatesAreSound /\ DraftsAreTyped /\ OneAtATime /\ ChecksStand

\* More templates before it can only push one off the list.
LEMMA ListsShrink ==
  ASSUME DOMAIN templates \subseteq DOMAIN templates',
         DOMAIN templates' \subseteq TemplateKeys, IsFiniteSet(DOMAIN templates')
  PROVE  \A k \in DOMAIN templates : InList(k)' => InList(k)
<1> SUFFICES ASSUME NEW k \in DOMAIN templates, InList(k)' PROVE InList(k)
  OBVIOUS
<1> DEFINE S == {j \in DOMAIN templates : j < k}
           T == {j \in DOMAIN templates' : j < k}
<1>1. S \subseteq T /\ T \subseteq DOMAIN templates'
  OBVIOUS
<1>2. IsFiniteSet(T)
  BY <1>1, FS_Subset
<1>3. Cardinality(S) <= Cardinality(T) /\ Cardinality(T) \in Nat /\ Cardinality(S) \in Nat
  BY <1>1, <1>2, FS_Subset, FS_CardinalityType
<1>4. Cardinality(T) < ListedTemplates
  BY DEF InList
<1>5. Cardinality(S) < ListedTemplates
  BY <1>3, <1>4, TemplatesAssumption
<1>6. QED BY <1>5 DEF InList

\* A new template is nobody's draft.
LEMMA CreateTemplateKeepsIt ==
  ASSUME TemplatesInv, NEW k \in TemplateKeys, NEW row \in TemplateRows, CreateTemplate(k, row)
  PROVE  TemplatesInv'
<1>1. /\ k \notin DOMAIN templates /\ Contract(row) /\ row \in TemplateRow
      /\ templates' = WithTemplate(templates, k, row) /\ intended' = WithTemplate(intended, k, row)
      /\ drafts' = drafts /\ message' = message /\ updates' = updates /\ overlapped' = overlapped
  BY TemplatesAssumption DEF CreateTemplate
<1>2. /\ DOMAIN templates' = {k} \cup DOMAIN templates /\ templates'[k] = row
      /\ \A j \in DOMAIN templates : templates'[j] = templates[j]
  BY <1>1 DEF WithTemplate
<1>3. /\ DOMAIN intended' = {k} \cup DOMAIN intended /\ intended'[k] = row
      /\ \A j \in DOMAIN intended : j # k => intended'[j] = intended[j]
  BY <1>1 DEF WithTemplate
<1>4. DOMAIN intended = DOMAIN templates
  BY DEF TemplatesInv, TemplatesAreSound, TemplatesTypeOK
<1>5. TemplatesTypeOK'
  BY <1>1, <1>2, <1>3, <1>4 DEF TemplatesInv, TemplatesAreSound, TemplatesTypeOK
<1>6. UpdatesAddUp'
  BY <1>1, <1>2, <1>3, <1>4 DEF TemplatesInv, TemplatesAreSound, UpdatesAddUp
<1>7. GapsAreTheCallers'
  BY <1>1 DEF TemplatesInv, TemplatesAreSound, GapsAreTheCallers
<1>8. IsFiniteSet(DOMAIN templates')
  BY <1>2, FS_AddElement DEF TemplatesInv, DraftsAreTyped
<1>9. DraftsAreTyped' /\ OneAtATime'
  BY <1>1, <1>8 DEF TemplatesInv, DraftsAreTyped, OneAtATime, Editing
<1>10. ChecksStand'
  <2> SUFFICES ASSUME NEW e \in Editors, NEW j, j = drafts[e].key, j \notin overlapped, Editing(e)
               PROVE  /\ drafts[e].step = "checked" /\ InList(j)'
                           => Contract(Merged(templates'[j], drafts[e].input))
                      /\ drafts[e].step = "read" =>
                           /\ drafts[e].read = templates'[j]
                           /\ Contract(Merged(drafts[e].read, drafts[e].input))
    BY <1>1 DEF ChecksStand, Editing
  <2>1. j \in DOMAIN templates
    BY DEF TemplatesInv, TemplatesAreSound, TemplatesTypeOK, Editing
  <2>2. InList(j)' => InList(j)
    <3>1. DOMAIN templates \subseteq DOMAIN templates' /\ DOMAIN templates' \subseteq TemplateKeys
      BY <1>2, <1>5 DEF TemplatesTypeOK
    <3>2. QED BY <2>1, <3>1, <1>8, ListsShrink
  <2>3. QED BY <2>1, <2>2, <1>2 DEF TemplatesInv, ChecksStand
<1>11. QED BY <1>5, <1>6, <1>7, <1>9, <1>10 DEF TemplatesInv, TemplatesAreSound

\* A second draft of a template makes it one whose updates have overlapped.
LEMMA CheckUpdateKeepsIt ==
  ASSUME TemplatesInv, NEW e \in Editors, NEW k \in TemplateKeys, NEW input \in TemplateInputs,
         CheckUpdate(e, k, input)
  PROVE  TemplatesInv'
<1> DEFINE new == [step |-> "checked", key |-> k, input |-> input, read |-> BlankTemplate]
<1>1. /\ drafts[e].step = "idle" /\ k \in DOMAIN templates /\ updates < MaxTemplateEdits
      /\ InList(k) => Contract(Merged(templates[k], input))
      /\ updates' = updates + 1
      /\ overlapped \subseteq overlapped' /\ overlapped' \subseteq overlapped \cup {k}
      /\ (\E d \in Editors : Editing(d) /\ drafts[d].key = k) => k \in overlapped'
      /\ templates' = templates /\ message' = message /\ intended' = intended
  BY DEF CheckUpdate, Editing
<1>2. BlankTemplate \in TemplateRow
  BY DEF BlankTemplate, TemplateRow
<1>3. drafts' = [drafts EXCEPT ![e] = new]
  <2>1. PICK u : u = [NoDraft EXCEPT !.step = "checked", !.key = k, !.input = input]
    OBVIOUS
  <2>2. u = new
    BY <2>1 DEF NoDraft
  <2>3. drafts' = [drafts EXCEPT ![e] = u]
    BY <2>1 DEF CheckUpdate
  <2>4. QED BY <2>2, <2>3
<1>4. /\ new \in Draft /\ new.step = "checked" /\ new.key = k /\ new.input = input
      /\ new.read \in TemplateRow
  BY <1>2 DEF Draft
<1> HIDE DEF new
<1>5. /\ drafts' \in [Editors -> Draft] /\ drafts'[e] = new
      /\ \A d \in Editors : d # e => drafts'[d] = drafts[d]
  BY <1>3, <1>4 DEF TemplatesInv, DraftsAreTyped
<1>6. TemplatesTypeOK'
  BY <1>1, <1>4, <1>5, TemplatesAssumption DEF TemplatesInv, TemplatesAreSound, TemplatesTypeOK
<1>7. UpdatesAddUp' /\ GapsAreTheCallers'
  BY <1>1 DEF TemplatesInv, TemplatesAreSound, UpdatesAddUp, GapsAreTheCallers
<1>8. DraftsAreTyped'
  BY <1>1, <1>4, <1>5 DEF TemplatesInv, DraftsAreTyped, Editing
<1>9. OneAtATime'
  BY <1>1, <1>4, <1>5 DEF TemplatesInv, OneAtATime, Editing
<1>10. InList(k)' = InList(k) /\ \A j : InList(j)' = InList(j)
  BY <1>1 DEF InList
<1>11. ChecksStand'
  BY <1>1, <1>4, <1>5, <1>10 DEF TemplatesInv, ChecksStand
<1>12. QED BY <1>6, <1>7, <1>8, <1>9, <1>11 DEF TemplatesInv, TemplatesAreSound

\* Nobody writes between the check and the read, unless updates have overlapped.
LEMMA ReadTemplateKeepsIt ==
  ASSUME TemplatesInv, NEW e \in Editors, ReadTemplate(e)
  PROVE  TemplatesInv'
<1> DEFINE k == drafts[e].key
           new == IF InList(k) THEN [step |-> "read", key |-> k, input |-> drafts[e].input,
                                     read |-> templates[k]]
                               ELSE NoDraft
<1>1. /\ drafts[e].step = "checked" /\ k \in DOMAIN templates /\ templates[k] \in TemplateRow
      /\ templates' = templates /\ message' = message /\ updates' = updates
      /\ intended' = intended /\ overlapped' = overlapped
      /\ drafts[e] \in Draft /\ drafts[e].input \in TemplateInputs
  BY DEF ReadTemplate, TemplatesInv, TemplatesAreSound, TemplatesTypeOK, DraftsAreTyped, Editing
<1>2. drafts' = [drafts EXCEPT ![e] = new]
  <2>1. PICK u : u = [drafts[e] EXCEPT !.step = "read", !.read = templates[k]]
    OBVIOUS
  <2>2. u = [step |-> "read", key |-> k, input |-> drafts[e].input, read |-> templates[k]]
    BY <2>1, <1>1 DEF Draft
  <2>3. drafts' = [drafts EXCEPT ![e] = IF InList(k) THEN u ELSE NoDraft]
    BY <2>1 DEF ReadTemplate
  <2>4. QED BY <2>2, <2>3
<1>3. BlankTemplate \in TemplateRow
  BY DEF BlankTemplate, TemplateRow
<1>4. /\ new \in Draft /\ new.read \in TemplateRow
      /\ \/ InList(k) /\ new.step = "read" /\ new.key = k /\ new.input = drafts[e].input
            /\ new.read = templates[k]
         \/ new.step = "idle"
  <2>1. CASE InList(k)
    BY <2>1, <1>1 DEF Draft
  <2>2. CASE ~InList(k)
    BY <2>2, <1>3 DEF Draft, NoDraft
  <2>3. QED BY <2>1, <2>2
<1> HIDE DEF new
<1>5. /\ drafts' \in [Editors -> Draft] /\ drafts'[e] = new
      /\ \A d \in Editors : d # e => drafts'[d] = drafts[d]
  BY <1>2, <1>4 DEF TemplatesInv, DraftsAreTyped
<1>6. TemplatesTypeOK'
  BY <1>1, <1>4, <1>5 DEF TemplatesInv, TemplatesAreSound, TemplatesTypeOK
<1>7. UpdatesAddUp' /\ GapsAreTheCallers'
  BY <1>1 DEF TemplatesInv, TemplatesAreSound, UpdatesAddUp, GapsAreTheCallers
<1>8. DraftsAreTyped' /\ OneAtATime'
  BY <1>1, <1>4, <1>5 DEF TemplatesInv, DraftsAreTyped, OneAtATime, Editing
<1>9. \A j : InList(j)' = InList(j)
  BY <1>1 DEF InList
<1>10. ChecksStand'
  BY <1>1, <1>4, <1>5, <1>9 DEF TemplatesInv, ChecksStand
<1>11. QED BY <1>6, <1>7, <1>8, <1>10 DEF TemplatesInv, TemplatesAreSound

\* What is written was read of the row that stands, unless updates have
\* overlapped: then it is as if the update had been alone.
LEMMA WriteTemplateKeepsIt ==
  ASSUME TemplatesInv, NEW e \in Editors, WriteTemplate(e)
  PROVE  TemplatesInv'
<1> DEFINE k == drafts[e].key
           input == drafts[e].input
           written == Merged(drafts[e].read, input)
<1>1. /\ drafts[e].step = "read" /\ k \in DOMAIN templates /\ k \in DOMAIN intended
      /\ drafts[e].read \in TemplateRow /\ intended[k] \in TemplateRow /\ input \in TemplateInputs
      /\ templates' = [templates EXCEPT ![k] = written]
      /\ intended' = [intended EXCEPT ![k] = input @@ intended[k]]
      /\ drafts' = [drafts EXCEPT ![e] = NoDraft]
      /\ message' = message /\ updates' = updates /\ overlapped' = overlapped
  BY DEF WriteTemplate, TemplatesInv, TemplatesAreSound, TemplatesTypeOK, DraftsAreTyped, Editing
<1>2. written \in TemplateRow /\ input @@ intended[k] \in TemplateRow
  BY <1>1, TemplatesAssumption DEF Merged
<1>3. NoDraft \in Draft /\ NoDraft.step = "idle" /\ NoDraft.read \in TemplateRow
  BY DEF NoDraft, Draft, BlankTemplate, TemplateRow
<1>4. k \notin overlapped => /\ drafts[e].read = templates[k] /\ Contract(written)
                             /\ written = input @@ intended[k]
  <2> SUFFICES ASSUME k \notin overlapped
               PROVE  /\ drafts[e].read = templates[k] /\ Contract(written)
                      /\ written = input @@ intended[k]
    OBVIOUS
  <2>1. drafts[e].read = templates[k] /\ Contract(written)
    BY <1>1 DEF TemplatesInv, ChecksStand
  <2>2. templates[k] = intended[k]
    BY <1>1 DEF TemplatesInv, TemplatesAreSound, UpdatesAddUp
  <2>3. QED BY <2>1, <2>2 DEF Merged
<1> HIDE DEF written, input
<1>5. /\ DOMAIN templates' = DOMAIN templates /\ templates'[k] = written
      /\ \A j \in DOMAIN templates : j # k => templates'[j] = templates[j]
      /\ DOMAIN intended' = DOMAIN intended /\ intended'[k] = input @@ intended[k]
      /\ \A j \in DOMAIN intended : j # k => intended'[j] = intended[j]
  BY <1>1
<1>6. /\ drafts' \in [Editors -> Draft] /\ drafts'[e] = NoDraft
      /\ \A d \in Editors : d # e => drafts'[d] = drafts[d]
  BY <1>1, <1>3 DEF TemplatesInv, DraftsAreTyped
<1>7. TemplatesTypeOK'
  <2>1. \A d \in Editors : /\ drafts'[d].step \in {"idle", "checked", "read"}
                           /\ drafts'[d].step # "idle" => drafts'[d].key \in DOMAIN templates'
                           /\ drafts'[d].read \in TemplateRow
    BY <1>3, <1>5, <1>6 DEF TemplatesInv, TemplatesAreSound, TemplatesTypeOK
  <2>2. QED BY <2>1, <1>1, <1>2, <1>5 DEF TemplatesInv, TemplatesAreSound, TemplatesTypeOK
<1>8. UpdatesAddUp'
  BY <1>1, <1>4, <1>5 DEF TemplatesInv, TemplatesAreSound, UpdatesAddUp
<1>9. GapsAreTheCallers'
  BY <1>1 DEF TemplatesInv, TemplatesAreSound, GapsAreTheCallers
<1>10. DraftsAreTyped' /\ OneAtATime'
  BY <1>1, <1>3, <1>5, <1>6 DEF TemplatesInv, DraftsAreTyped, OneAtATime, Editing
<1>11. \A j : InList(j)' = InList(j)
  BY <1>5 DEF InList
<1>12. ChecksStand'
  <2> SUFFICES ASSUME NEW d \in Editors, drafts'[d].key \notin overlapped, drafts'[d].step # "idle"
               PROVE  /\ drafts'[d].step = "checked" /\ InList(drafts'[d].key)
                           => Contract(Merged(templates'[drafts'[d].key], drafts'[d].input))
                      /\ drafts'[d].step = "read" =>
                           /\ drafts'[d].read = templates'[drafts'[d].key]
                           /\ Contract(Merged(drafts'[d].read, drafts'[d].input))
    BY <1>1, <1>11 DEF ChecksStand
  <2>1. d # e /\ drafts'[d] = drafts[d] /\ drafts[d].key \in DOMAIN templates
    BY <1>3, <1>6 DEF TemplatesInv, TemplatesAreSound, TemplatesTypeOK
  <2>2. drafts[d].key # k
    BY <2>1, <1>1 DEF TemplatesInv, OneAtATime, Editing
  <2>3. QED BY <2>1, <2>2, <1>5 DEF TemplatesInv, ChecksStand
<1>13. QED BY <1>7, <1>8, <1>9, <1>10, <1>12 DEF TemplatesInv, TemplatesAreSound

\* A mail needs a template that keeps its contract, an in-app notification only
\* one that is there.
LEMMA RenderingKeepsIt ==
  ASSUME TemplatesInv, NEW k \in TemplateKeys, NEW supplied \in SUBSET Variables,
         SendTestEmail(k, supplied) \/ RequestEmail(k, supplied) \/ RequestInApp(k, supplied)
  PROVE  TemplatesInv'
<1> DEFINE row == templates[k]
           shown == row.subject \cup row.body
<1>1. /\ k \in DOMAIN templates
      /\ templates' = templates /\ drafts' = drafts /\ updates' = updates
      /\ intended' = intended /\ overlapped' = overlapped
  BY DEF SendTestEmail, RequestEmail, RequestInApp, Available, Renders
<1>2. /\ message'.kind \in {"test", "delivery", "in_app"} /\ message'.key = k
      /\ message'.undeclared = shown \ row.declared
      /\ message'.kind \in {"test", "delivery"} => message'.missing = {}
  <2>1. CASE SendTestEmail(k, supplied)
    BY <2>1 DEF SendTestEmail, Renders, Strict, Contract
  <2>2. CASE RequestEmail(k, supplied)
    BY <2>2 DEF RequestEmail, Renders, Strict, Contract
  <2>3. CASE RequestInApp(k, supplied)
    BY <2>3 DEF RequestInApp, Renders
  <2>4. QED BY <2>1, <2>2, <2>3
<1>3. shown \ row.declared # {} => k \in overlapped
  BY <1>1 DEF TemplatesInv, TemplatesAreSound, UpdatesAddUp, Contract
<1>4. GapsAreTheCallers'
  BY <1>1, <1>2, <1>3 DEF GapsAreTheCallers
<1>5. TemplatesTypeOK' /\ UpdatesAddUp'
  BY <1>1, <1>2 DEF TemplatesInv, TemplatesAreSound, TemplatesTypeOK, UpdatesAddUp
<1>6. \A j : InList(j)' = InList(j)
  BY <1>1 DEF InList
<1>7. DraftsAreTyped' /\ OneAtATime' /\ ChecksStand'
  BY <1>1, <1>6 DEF TemplatesInv, DraftsAreTyped, OneAtATime, ChecksStand, Editing
<1>8. QED BY <1>4, <1>5, <1>7 DEF TemplatesInv, TemplatesAreSound

\* Updates of a template that do not overlap add up and keep its contract, and
\* no mail has a gap, for any templates, inputs, editors and length of the list.
THEOREM TemplatesHold == TemplatesSpec => []TemplatesAreSound
<1>1. TemplatesInit => TemplatesInv
  <2> SUFFICES ASSUME TemplatesInit PROVE TemplatesInv
    OBVIOUS
  <2>1. DOMAIN templates = {} /\ DOMAIN intended = {}
    BY DEF TemplatesInit
  <2>2. NoDraft \in Draft /\ NoDraft.step = "idle" /\ NoDraft.read \in TemplateRow
    BY DEF NoDraft, Draft, BlankTemplate, TemplateRow
  <2>3. drafts \in [Editors -> Draft] /\ \A e \in Editors : drafts[e] = NoDraft
    BY <2>2 DEF TemplatesInit
  <2>4. message.kind = "none" /\ message.undeclared = {} /\ overlapped = {} /\ updates = 0
    BY DEF TemplatesInit, NoMessage
  <2>5. TemplatesAreSound
    BY <2>1, <2>2, <2>3, <2>4, TemplatesAssumption
       DEF TemplatesAreSound, TemplatesTypeOK, UpdatesAddUp, GapsAreTheCallers
  <2>6. DraftsAreTyped /\ OneAtATime /\ ChecksStand
    BY <2>1, <2>2, <2>3, FS_EmptySet DEF DraftsAreTyped, OneAtATime, ChecksStand, Editing
  <2>7. QED BY <2>5, <2>6 DEF TemplatesInv
<1>2. TemplatesInv /\ [TemplatesNext]_templateVars => TemplatesInv'
  <2> SUFFICES ASSUME TemplatesInv, [TemplatesNext]_templateVars PROVE TemplatesInv'
    OBVIOUS
  <2>1. CASE UNCHANGED templateVars
    <3>1. /\ templates' = templates /\ drafts' = drafts /\ message' = message
          /\ updates' = updates /\ intended' = intended /\ overlapped' = overlapped
      BY <2>1 DEF templateVars
    <3>2. \A j : InList(j)' = InList(j)
      BY <3>1 DEF InList
    <3>3. TemplatesAreSound'
      BY <3>1 DEF TemplatesInv, TemplatesAreSound, TemplatesTypeOK, UpdatesAddUp, GapsAreTheCallers
    <3>4. DraftsAreTyped' /\ OneAtATime' /\ ChecksStand'
      BY <3>1, <3>2 DEF TemplatesInv, DraftsAreTyped, OneAtATime, ChecksStand, Editing
    <3>5. QED BY <3>3, <3>4 DEF TemplatesInv
  <2>2. ASSUME NEW k \in TemplateKeys, NEW row \in TemplateRows, CreateTemplate(k, row)
        PROVE  TemplatesInv'
    BY <2>2, CreateTemplateKeepsIt, Zenon
  <2>3. ASSUME NEW e \in Editors, NEW k \in TemplateKeys, NEW input \in TemplateInputs,
               CheckUpdate(e, k, input)
        PROVE  TemplatesInv'
    BY <2>3, CheckUpdateKeepsIt, Zenon
  <2>4. ASSUME NEW e \in Editors, ReadTemplate(e) \/ WriteTemplate(e) PROVE TemplatesInv'
    BY <2>4, ReadTemplateKeepsIt, WriteTemplateKeepsIt, Zenon
  <2>5. ASSUME NEW k \in TemplateKeys, NEW supplied \in SUBSET Variables,
               SendTestEmail(k, supplied) \/ RequestEmail(k, supplied) \/ RequestInApp(k, supplied)
        PROVE  TemplatesInv'
    BY <2>5, RenderingKeepsIt, Zenon
  <2>6. QED BY <2>1, <2>2, <2>3, <2>4, <2>5, Zenon DEF TemplatesNext
<1>3. TemplatesInv => TemplatesAreSound
  BY DEF TemplatesInv
<1>4. QED BY <1>1, <1>2, <1>3, PTL DEF TemplatesSpec

-----------------------------------------------------------------------------
(* Settings: SystemSettings.                                                *)

TypeRow == [code : TypeCodes, name : TypeNames]
TextRow == [default : DefaultsIn, override : Overrides \cup {NoText},
            shown : DefaultsIn \cup Overrides, enabled : BOOLEAN]

\* What an update has read is a row that stood, and the row still stands.
RequestsAreTyped ==
  /\ DOMAIN requested = Managers
  /\ \A a \in Managers : requested[a].table = "types" =>
       /\ requested[a].id \in DOMAIN types /\ requested[a].input \in TypeInputs
       /\ requested[a].read \in TypeRow
  /\ \A a \in Managers : requested[a].table = "texts" =>
       /\ requested[a].id \in DOMAIN texts
       /\ requested[a].input.override \in Overrides \cup {NoText}
       /\ requested[a].read.default \in DefaultsIn

TextsAreTyped == \A m \in DOMAIN texts : texts[m] \in TextRow
SentIsTyped == \A i \in DOMAIN sent : sent[i] \in TypeRow

\* The inductive invariant.
SettingsInv == SettingsAreSound /\ RequestsAreTyped /\ TextsAreTyped /\ SentIsTyped

\* An update sends one column, and writes a row.
LEMMA OverIsARow ==
  ASSUME NEW row \in TypeRow, NEW input \in TypeInputs
  PROVE  Over(row, input) \in TypeRow
<1>1. ASSUME NEW code \in TypeCodes, input = [code |-> code] PROVE Over(row, input) \in TypeRow
  <2>1. Over(row, input) = [code |-> code, name |-> row.name]
    BY <1>1 DEF Over, TypeRow
  <2>2. QED BY <2>1 DEF TypeRow
<1>2. ASSUME NEW name \in TypeNames, input = [name |-> name] PROVE Over(row, input) \in TypeRow
  <2>1. Over(row, input) = [code |-> row.code, name |-> name]
    BY <1>2 DEF Over, TypeRow
  <2>2. QED BY <2>1 DEF TypeRow
<1>3. QED BY <1>1, <1>2 DEF TypeInputs

\* A row that is shown by its override, or by its default.
LEMMA CoalescedIsShown ==
  ASSUME NEW override \in Overrides \cup {NoText}, NEW default \in DefaultsIn
  PROVE  Coalesced(override, default) \in DefaultsIn \cup Overrides
BY DEF Coalesced

\* Only the tables of types.
LEMMA TypesStepsKeepIt ==
  ASSUME SettingsInv,
         \/ \E i \in TypeIds, code \in TypeCodes, name \in TypeNames : CreateDictionaryType(i, code, name)
         \/ \E a \in Managers : WriteDictionaryType(a) \/ RefuseDictionaryType(a)
  PROVE  SettingsInv'
<1>1. \A m \in DOMAIN texts : IsText(texts[m])
  BY DEF SettingsInv, SettingsAreSound, SettingsTypeOK
<1>2. ASSUME NEW i \in TypeIds, NEW code \in TypeCodes, NEW name \in TypeNames,
             CreateDictionaryType(i, code, name)
      PROVE  SettingsInv'
  <2> DEFINE row == [code |-> code, name |-> name]
  <2>1. /\ i \notin DOMAIN types /\ row \in TypeRow
        /\ types' = WithType(types, i, row) /\ sent' = WithType(sent, i, row)
        /\ configs' = configs /\ texts' = texts /\ requested' = requested
        /\ settingEdits' = settingEdits /\ outdated' = outdated /\ replaced' = replaced
    BY <1>2 DEF CreateDictionaryType, TypeRow
  <2> HIDE DEF row
  <2>2. /\ DOMAIN types' = DOMAIN types \cup {i} /\ types'[i] = row
        /\ \A j \in DOMAIN types : types'[j] = types[j]
        /\ DOMAIN sent' = DOMAIN types \cup {i} /\ sent'[i] = row
        /\ \A j \in DOMAIN types : sent'[j] = sent[j]
        /\ DOMAIN sent = DOMAIN types
    BY <2>1 DEF WithType, SettingsInv, SettingsAreSound, SettingsTypeOK
  <2>3. SettingsTypeOK'
    <3>1. \A j \in DOMAIN types' : types'[j] \in TypeRow
      BY <2>1, <2>2 DEF SettingsInv, SettingsAreSound, SettingsTypeOK, TypeRow
    <3>2. QED BY <3>1, <2>1, <2>2, <1>1
                 DEF SettingsInv, SettingsAreSound, SettingsTypeOK, TypeRow, IsText
  <2>4. TextsAreShown' /\ TextsAreTyped'
    BY <2>1 DEF SettingsInv, SettingsAreSound, TextsAreShown, TextsAreTyped, Coalesced
  <2>5. TypesAddUp' /\ SentIsTyped'
    BY <2>1, <2>2 DEF SettingsInv, SettingsAreSound, TypesAddUp, SentIsTyped
  <2>6. RequestsAreTyped'
    BY <2>1, <2>2 DEF SettingsInv, RequestsAreTyped
  <2>7. QED BY <2>3, <2>4, <2>5, <2>6 DEF SettingsInv, SettingsAreSound
<1>3. ASSUME NEW a \in Managers, WriteDictionaryType(a) PROVE SettingsInv'
  <2> DEFINE i == requested[a].id
             input == requested[a].input
             written == Over(requested[a].read, input)
             added == Over(sent[i], input)
  <2>1. /\ i \in DOMAIN types /\ i \in DOMAIN sent /\ input \in TypeInputs
        /\ requested[a].read \in TypeRow /\ DOMAIN sent = DOMAIN types
        /\ types' = [types EXCEPT ![i] = written] /\ sent' = [sent EXCEPT ![i] = added]
        /\ replaced' = IF requested[a].read # types[i] THEN replaced \cup {i} ELSE replaced
        /\ requested' = [requested EXCEPT ![a] = NoRequest]
        /\ configs' = configs /\ texts' = texts
        /\ settingEdits' = settingEdits /\ outdated' = outdated
    BY <1>3 DEF WriteDictionaryType, WrittenValue, Finishes, SettingsInv, RequestsAreTyped,
                SettingsAreSound, SettingsTypeOK
  <2>2. written \in TypeRow /\ added \in TypeRow
    BY <2>1, OverIsARow DEF SettingsInv, SentIsTyped
  <2>3. i \notin replaced' => written = added
    BY <2>1 DEF SettingsInv, SettingsAreSound, TypesAddUp
  <2> HIDE DEF written, added, i
  <2>4. /\ DOMAIN types' = DOMAIN types /\ types'[i] = written
        /\ \A j \in DOMAIN types : j # i => types'[j] = types[j]
        /\ DOMAIN sent' = DOMAIN types /\ sent'[i] = added
        /\ \A j \in DOMAIN types : j # i => sent'[j] = sent[j]
    BY <2>1
  <2>5. /\ DOMAIN requested' = Managers /\ requested'[a].table = "none"
        /\ \A b \in Managers : b # a => requested'[b] = requested[b]
    BY <2>1 DEF SettingsInv, RequestsAreTyped, NoRequest
  <2>6. SettingsTypeOK'
    <3>1. \A j \in DOMAIN types' : types'[j] \in TypeRow
      BY <2>2, <2>4 DEF SettingsInv, SettingsAreSound, SettingsTypeOK, TypeRow
    <3>2. replaced' \subseteq DOMAIN types'
      BY <2>1, <2>4 DEF SettingsInv, SettingsAreSound, SettingsTypeOK
    <3>3. \A b \in Managers : requested'[b].table \in {"none", "types", "texts"}
      BY <2>5 DEF SettingsInv, SettingsAreSound, SettingsTypeOK
    <3>4. QED BY <3>1, <3>2, <3>3, <2>1, <2>4, <1>1
                 DEF SettingsInv, SettingsAreSound, SettingsTypeOK, TypeRow, IsText
  <2>7. TextsAreShown' /\ TextsAreTyped'
    BY <2>1 DEF SettingsInv, SettingsAreSound, TextsAreShown, TextsAreTyped, Coalesced
  <2>8. TypesAddUp' /\ SentIsTyped'
    BY <2>1, <2>2, <2>3, <2>4 DEF SettingsInv, SettingsAreSound, TypesAddUp, SentIsTyped
  <2>9. RequestsAreTyped'
    BY <2>1, <2>4, <2>5 DEF SettingsInv, RequestsAreTyped
  <2>10. QED BY <2>6, <2>7, <2>8, <2>9 DEF SettingsInv, SettingsAreSound
<1>4. ASSUME NEW a \in Managers, RefuseDictionaryType(a) PROVE SettingsInv'
  <2>1. /\ requested' = [requested EXCEPT ![a] = NoRequest]
        /\ configs' = configs /\ texts' = texts /\ types' = types /\ sent' = sent
        /\ settingEdits' = settingEdits /\ outdated' = outdated /\ replaced' = replaced
    BY <1>4 DEF RefuseDictionaryType, Finishes
  <2>2. /\ DOMAIN requested' = Managers /\ requested'[a].table = "none"
        /\ \A b \in Managers : b # a => requested'[b] = requested[b]
    BY <2>1 DEF SettingsInv, RequestsAreTyped, NoRequest
  <2>3. SettingsAreSound'
    BY <2>1, <2>2, <1>1 DEF SettingsInv, SettingsAreSound, SettingsTypeOK, IsText,
                            TextsAreShown, TypesAddUp, Coalesced
  <2>4. RequestsAreTyped' /\ TextsAreTyped' /\ SentIsTyped'
    BY <2>1, <2>2 DEF SettingsInv, RequestsAreTyped, TextsAreTyped, SentIsTyped
  <2>5. QED BY <2>3, <2>4 DEF SettingsInv
<1>5. QED BY <1>2, <1>3, <1>4

\* What is read is a row that stands.
LEMMA ReadsKeepIt ==
  ASSUME SettingsInv, NEW a \in Managers,
         \/ \E i \in TypeIds, input \in TypeInputs : ReadDictionaryType(a, i, input)
         \/ \E m \in Texts, override \in Overrides \cup {NoText} : ReadText(a, m, override)
  PROVE  SettingsInv'
<1>1. /\ DOMAIN requested' = Managers
      /\ requested'[a].table \in {"types", "texts"}
      /\ requested'[a].table = "types" =>
           /\ requested'[a].id \in DOMAIN types /\ requested'[a].input \in TypeInputs
           /\ requested'[a].read \in TypeRow
      /\ requested'[a].table = "texts" =>
           /\ requested'[a].id \in DOMAIN texts
           /\ requested'[a].input.override \in Overrides \cup {NoText}
           /\ requested'[a].read.default \in DefaultsIn
      /\ \A b \in Managers : b # a => requested'[b] = requested[b]
      /\ configs' = configs /\ texts' = texts /\ types' = types /\ sent' = sent
      /\ outdated' = outdated /\ replaced' = replaced
      /\ settingEdits' = settingEdits + 1 /\ settingEdits < MaxSettingEdits
  <2>1. ASSUME NEW i \in TypeIds, NEW input \in TypeInputs, ReadDictionaryType(a, i, input)
        PROVE  <1>1
    <3>1. i \in DOMAIN types /\ types[i] \in TypeRow
      BY <2>1 DEF ReadDictionaryType, SettingsInv, SettingsAreSound, SettingsTypeOK, TypeRow
    <3>2. requested' = [requested EXCEPT ![a] =
                          [table |-> "types", id |-> i, input |-> input, read |-> types[i]]]
      BY <2>1 DEF ReadDictionaryType, Begins
    <3>3. QED BY <2>1, <3>1, <3>2 DEF ReadDictionaryType, Begins, SettingsInv, RequestsAreTyped
  <2>2. ASSUME NEW m \in Texts, NEW override \in Overrides \cup {NoText}, ReadText(a, m, override)
        PROVE  <1>1
    <3>1. m \in DOMAIN texts /\ texts[m].default \in DefaultsIn
      BY <2>2 DEF ReadText, TextInList, SettingsInv, SettingsAreSound, SettingsTypeOK, IsText
    <3>2. requested' = [requested EXCEPT ![a] =
                          [table |-> "texts", id |-> m, input |-> [override |-> override],
                           read |-> [default |-> texts[m].default]]]
      BY <2>2 DEF ReadText, Begins
    <3>3. QED BY <2>2, <3>1, <3>2 DEF ReadText, Begins, SettingsInv, RequestsAreTyped
  <2>3. QED BY <2>1, <2>2
<1>2. \A m \in DOMAIN texts : IsText(texts[m])
  BY DEF SettingsInv, SettingsAreSound, SettingsTypeOK
<1>3. SettingsTypeOK'
  BY <1>1, <1>2, SettingsAssumption DEF SettingsInv, SettingsAreSound, SettingsTypeOK, IsText
<1>4. TextsAreShown' /\ TypesAddUp'
  BY <1>1 DEF SettingsInv, SettingsAreSound, TextsAreShown, TypesAddUp, Coalesced
<1>5. RequestsAreTyped' /\ TextsAreTyped' /\ SentIsTyped'
  BY <1>1 DEF SettingsInv, RequestsAreTyped, TextsAreTyped, SentIsTyped
<1>6. QED BY <1>3, <1>4, <1>5 DEF SettingsInv, SettingsAreSound

\* A text that is written over a default that has been replaced is outdated.
LEMMA WriteTextKeepsIt ==
  ASSUME SettingsInv, NEW a \in Managers, WriteText(a)
  PROVE  SettingsInv'
<1> DEFINE m == requested[a].id
           override == requested[a].input.override
           default == requested[a].read.default
           old == texts[m]
           new == [default |-> old.default, override |-> override,
                   shown |-> Coalesced(override, default), enabled |-> old.enabled]
<1>1. /\ m \in DOMAIN texts /\ old \in TextRow
      /\ override \in Overrides \cup {NoText} /\ default \in DefaultsIn
      /\ outdated' = IF default # old.default THEN outdated \cup {m} ELSE outdated \ {m}
      /\ requested' = [requested EXCEPT ![a] = NoRequest]
      /\ configs' = configs /\ types' = types /\ sent' = sent
      /\ settingEdits' = settingEdits /\ replaced' = replaced
  BY DEF WriteText, Finishes, SettingsInv, RequestsAreTyped, TextsAreTyped
<1>2. texts' = [texts EXCEPT ![m] = new]
  <2>1. PICK u : u = [old EXCEPT !.override = override]
    OBVIOUS
  <2>2. PICK v : v = [u EXCEPT !.shown = Coalesced(override, default)]
    OBVIOUS
  <2>3. u = [default |-> old.default, override |-> override, shown |-> old.shown,
             enabled |-> old.enabled]
    BY <1>1, <2>1 DEF TextRow
  <2>4. v = new
    BY <2>2, <2>3
  <2>5. PICK half : half = [texts EXCEPT ![m].override = override]
    OBVIOUS
  <2>6. half = [texts EXCEPT ![m] = u]
    BY <2>1, <2>5
  <2>7. texts' = [half EXCEPT ![m].shown = Coalesced(override, default)]
    BY <2>5 DEF WriteText
  <2>8. half[m] = u /\ DOMAIN half = DOMAIN texts /\ \A n \in DOMAIN texts : n # m => half[n] = texts[n]
    BY <1>1, <2>6
  <2>9. texts' = [half EXCEPT ![m] = v]
    BY <2>2, <2>7, <2>8
  <2>10. QED BY <2>4, <2>6, <2>9
<1>3. new \in TextRow
  BY <1>1, CoalescedIsShown DEF TextRow
<1>4. /\ new.default = old.default /\ new.override = override
      /\ new.shown = Coalesced(override, default)
  OBVIOUS
<1> HIDE DEF new
<1>5. /\ DOMAIN texts' = DOMAIN texts /\ texts'[m] = new
      /\ \A n \in DOMAIN texts : n # m => texts'[n] = texts[n]
  BY <1>1, <1>2
<1>6. /\ DOMAIN requested' = Managers /\ requested'[a].table = "none"
      /\ \A b \in Managers : b # a => requested'[b] = requested[b]
  BY <1>1 DEF SettingsInv, RequestsAreTyped, NoRequest
<1>7. TextsAreTyped'
  BY <1>3, <1>5 DEF SettingsInv, TextsAreTyped
<1>8. SettingsTypeOK'
  <2>1. \A n \in DOMAIN texts' : IsText(texts'[n])
    BY <1>7 DEF TextsAreTyped, TextRow, IsText
  <2>2. outdated' \subseteq DOMAIN texts'
    BY <1>1, <1>5 DEF SettingsInv, SettingsAreSound, SettingsTypeOK
  <2>3. \A b \in Managers : requested'[b].table \in {"none", "types", "texts"}
    BY <1>6 DEF SettingsInv, SettingsAreSound, SettingsTypeOK
  <2>4. QED BY <2>1, <2>2, <2>3, <1>1, <1>5
               DEF SettingsInv, SettingsAreSound, SettingsTypeOK, IsText
<1>9. TextsAreShown'
  <2> SUFFICES ASSUME NEW n \in DOMAIN texts
               PROVE  \/ texts'[n].shown = Coalesced(texts'[n].override, texts'[n].default)
                      \/ n \in outdated' /\ texts'[n].override = NoText
    BY <1>5 DEF TextsAreShown, Coalesced
  <2>1. CASE n = m
    BY <2>1, <1>1, <1>4, <1>5 DEF Coalesced
  <2>2. CASE n # m
    BY <2>2, <1>1, <1>5 DEF SettingsInv, SettingsAreSound, TextsAreShown
  <2>3. QED BY <2>1, <2>2
<1>10. TypesAddUp' /\ SentIsTyped'
  BY <1>1 DEF SettingsInv, SettingsAreSound, TypesAddUp, SentIsTyped
<1>11. RequestsAreTyped'
  BY <1>1, <1>5, <1>6 DEF SettingsInv, RequestsAreTyped
<1>12. QED BY <1>7, <1>8, <1>9, <1>10, <1>11 DEF SettingsInv, SettingsAreSound

\* A synchronization makes what is shown again, of the override that stands and
\* the default that it brings.
LEMMA SynchronizeTextsKeepsIt ==
  ASSUME SettingsInv, NEW r \in DOMAIN TextsOf, SynchronizeTexts(r)
  PROVE  SettingsInv'
<1>1. /\ DOMAIN texts' = DOMAIN texts \cup DOMAIN TextsOf[r]
      /\ \A m \in DOMAIN texts' : texts'[m] = SynchronizedText(r, m)
      /\ outdated' = outdated \ DOMAIN TextsOf[r]
      /\ configs' = configs /\ types' = types /\ sent' = sent /\ requested' = requested
      /\ settingEdits' = settingEdits /\ replaced' = replaced
  BY DEF SynchronizeTexts
<1>2. ASSUME NEW m \in DOMAIN TextsOf[r]
      PROVE  /\ texts'[m] \in TextRow
             /\ texts'[m].shown = Coalesced(texts'[m].override, texts'[m].default)
  <2> DEFINE override == IF m \in DOMAIN texts THEN texts[m].override ELSE NoText
             default == TextsOf[r][m]
  <2>1. override \in Overrides \cup {NoText}
    BY DEF SettingsInv, TextsAreTyped, TextRow
  <2>2. default \in DefaultsIn
    BY DEF DefaultsIn
  <2>3. texts'[m] = [default |-> default, override |-> override,
                     shown |-> Coalesced(override, default), enabled |-> TRUE]
    BY <1>1 DEF SynchronizedText, ShownText
  <2> HIDE DEF override, default
  <2>4. QED BY <2>1, <2>2, <2>3, CoalescedIsShown DEF TextRow
<1>3. ASSUME NEW m \in DOMAIN texts, m \notin DOMAIN TextsOf[r]
      PROVE  /\ texts'[m] \in TextRow
             /\ texts'[m].shown = texts[m].shown /\ texts'[m].override = texts[m].override
             /\ texts'[m].default = texts[m].default
  <2>1. texts[m] \in TextRow
    BY DEF SettingsInv, TextsAreTyped
  <2>2. texts'[m] = [texts[m] EXCEPT !.enabled = FALSE]
    BY <1>1, <1>3 DEF SynchronizedText
  <2>3. texts'[m] = [default |-> texts[m].default, override |-> texts[m].override,
                     shown |-> texts[m].shown, enabled |-> FALSE]
    BY <2>1, <2>2 DEF TextRow
  <2>4. QED BY <2>1, <2>3 DEF TextRow
<1>4. TextsAreTyped'
  BY <1>1, <1>2, <1>3 DEF TextsAreTyped
<1>5. SettingsTypeOK'
  <2>1. \A m \in DOMAIN texts' : IsText(texts'[m])
    BY <1>4 DEF TextsAreTyped, TextRow, IsText
  <2>2. outdated' \subseteq DOMAIN texts' /\ DOMAIN texts' \subseteq Texts
    BY <1>1, SettingsAssumption DEF SettingsInv, SettingsAreSound, SettingsTypeOK
  <2>3. QED BY <2>1, <2>2, <1>1 DEF SettingsInv, SettingsAreSound, SettingsTypeOK, IsText
<1>6. TextsAreShown'
  <2> SUFFICES ASSUME NEW m \in DOMAIN texts'
               PROVE  \/ texts'[m].shown = Coalesced(texts'[m].override, texts'[m].default)
                      \/ m \in outdated' /\ texts'[m].override = NoText
    BY DEF TextsAreShown, Coalesced
  <2>1. CASE m \in DOMAIN TextsOf[r]
    BY <2>1, <1>2
  <2>2. CASE m \notin DOMAIN TextsOf[r]
    <3>1. m \in DOMAIN texts
      BY <2>2, <1>1
    <3>2. \/ texts[m].shown = Coalesced(texts[m].override, texts[m].default)
          \/ m \in outdated /\ texts[m].override = NoText
      BY <3>1 DEF SettingsInv, SettingsAreSound, TextsAreShown
    <3>3. QED BY <2>2, <3>1, <3>2, <1>1, <1>3
  <2>3. QED BY <2>1, <2>2
<1>7. TypesAddUp' /\ SentIsTyped' /\ RequestsAreTyped'
  BY <1>1 DEF SettingsInv, SettingsAreSound, TypesAddUp, SentIsTyped, RequestsAreTyped
<1>8. QED BY <1>4, <1>5, <1>6, <1>7 DEF SettingsInv, SettingsAreSound

\* Texts are shown as administrators wrote them, and the updates of a type add
\* up, whatever the releases bring and however long the lists are.
THEOREM SettingsHold == SettingsSpec => []SettingsAreSound
<1>1. SettingsInit => SettingsInv
  <2> SUFFICES ASSUME SettingsInit PROVE SettingsInv
    OBVIOUS
  <2>1. /\ DOMAIN types = {} /\ DOMAIN texts = {} /\ DOMAIN sent = {}
        /\ outdated = {} /\ replaced = {} /\ settingEdits = 0
        /\ configs = [k \in ConfigKeys |-> CHOOSE value \in ConfigValues : TRUE]
    BY DEF SettingsInit
  <2>2. DOMAIN requested = Managers /\ \A a \in Managers : requested[a].table = "none"
    BY DEF SettingsInit, NoRequest
  <2>3. (CHOOSE value \in ConfigValues : TRUE) \in ConfigValues
    BY SettingsAssumption
  <2>4. SettingsTypeOK
    BY <2>1, <2>2, <2>3, SettingsAssumption DEF SettingsTypeOK
  <2>5. QED
    BY <2>1, <2>2, <2>4 DEF SettingsInv, SettingsAreSound, TextsAreShown, TypesAddUp,
                            RequestsAreTyped, TextsAreTyped, SentIsTyped
<1>2. SettingsInv /\ [SettingsNext]_settingVars => SettingsInv'
  <2> SUFFICES ASSUME SettingsInv, [SettingsNext]_settingVars PROVE SettingsInv'
    OBVIOUS
  <2>1. \A m \in DOMAIN texts : IsText(texts[m])
    BY DEF SettingsInv, SettingsAreSound, SettingsTypeOK
  <2>2. CASE UNCHANGED settingVars
    BY <2>1, <2>2 DEF settingVars, SettingsInv, SettingsAreSound, SettingsTypeOK, IsText,
                      TextsAreShown, TypesAddUp, RequestsAreTyped, TextsAreTyped, SentIsTyped,
                      Coalesced
  <2>3. ASSUME NEW k \in ConfigKeys, NEW value \in ConfigValues, UpdateSystemConfig(k, value)
        PROVE  SettingsInv'
    <3>1. /\ configs' = [configs EXCEPT ![k] = value]
          /\ texts' = texts /\ types' = types /\ sent' = sent /\ requested' = requested
          /\ settingEdits' = settingEdits /\ outdated' = outdated /\ replaced' = replaced
      BY <2>3 DEF UpdateSystemConfig
    <3>2. SettingsTypeOK'
      BY <2>1, <3>1 DEF SettingsInv, SettingsAreSound, SettingsTypeOK, IsText
    <3>3. QED
      BY <3>1, <3>2 DEF SettingsInv, SettingsAreSound, TextsAreShown, TypesAddUp,
                        RequestsAreTyped, TextsAreTyped, SentIsTyped, Coalesced
  <2>4. CASE \/ \E i \in TypeIds, code \in TypeCodes, name \in TypeNames :
                  CreateDictionaryType(i, code, name)
             \/ \E a \in Managers : WriteDictionaryType(a) \/ RefuseDictionaryType(a)
    BY <2>4, TypesStepsKeepIt, Zenon
  <2>5. ASSUME NEW a \in Managers,
               \/ \E i \in TypeIds, input \in TypeInputs : ReadDictionaryType(a, i, input)
               \/ \E m \in Texts, override \in Overrides \cup {NoText} : ReadText(a, m, override)
        PROVE  SettingsInv'
    BY <2>5, ReadsKeepIt, Zenon
  <2>6. ASSUME NEW a \in Managers, WriteText(a) PROVE SettingsInv'
    BY <2>6, WriteTextKeepsIt, Zenon
  <2>7. ASSUME NEW r \in DOMAIN TextsOf, SynchronizeTexts(r) PROVE SettingsInv'
    BY <2>7, SynchronizeTextsKeepsIt, Zenon
  <2>8. QED BY <2>2, <2>3, <2>4, <2>5, <2>6, <2>7, Zenon DEF SettingsNext
<1>3. SettingsInv => SettingsAreSound
  BY DEF SettingsInv
<1>4. QED BY <1>1, <1>2, <1>3, PTL DEF SettingsSpec

\* Editors who write over each other leave templates and settings that are as
\* somebody meant them.
THEOREM EditsHold == TemplatesSpec /\ SettingsSpec => []EditsAreSound
<1>1. TemplatesAreSound /\ SettingsAreSound => EditsAreSound
  BY DEF EditsAreSound
<1>2. QED BY <1>1, TemplatesHold, SettingsHold, PTL

-----------------------------------------------------------------------------
(* The inboxes: Notifications.                                              *)

\* A set of natural numbers that is not empty has a least element.
LEMMA LeastExists ==
  ASSUME NEW S, S \subseteq Nat, S # {}
  PROVE  \E m \in S : \A n \in S : m <= n
<1>1. PICK x \in S : TRUE
  OBVIOUS
<1> DEFINE Upto == 0 .. x
           Starts == {0 .. m : m \in S \cap Upto}
<1>2. IsFiniteSet(Upto)
  BY FS_Interval
<1>3. IsWellFoundedOn(StrictSubsetOrdering(Upto), SUBSET Upto)
  <2> HIDE DEF Upto
  <2> QED BY <1>2, FS_StrictSubsetOrderingWellFounded, FS_FiniteSubsetsOfFinite
<1>4. Starts \subseteq SUBSET Upto
  OBVIOUS
<1>5. 0 .. x \in Starts
  OBVIOUS
<1> HIDE DEF Starts, Upto
<1>6. PICK s \in Starts : \A t \in Starts : ~ (<<t, s>> \in StrictSubsetOrdering(Upto))
  BY <1>3, <1>4, <1>5, WFMin
<1> USE DEF Starts, Upto
<1>7. PICK m \in S \cap Upto : s = 0 .. m
  BY <1>6
<1>8. ASSUME NEW n \in S, n < m PROVE FALSE
  <2>1. 0 .. n \in Starts
    BY <1>7, <1>8
  <2>2. <<0 .. n, s>> \in StrictSubsetOrdering(Upto)
    BY <1>7, <1>8 DEF StrictSubsetOrdering
  <2> QED BY <1>6, <2>1, <2>2
<1> QED BY <1>7, <1>8

InboxRow == [user : Recipients, key : RequestKeys \cup {NoKey}, request : 1 .. MaxRequests,
             status : {"unread", "read", "archived", "deleted"}, isDeleted : BOOLEAN]

\* UNIQUE (user_id, request_key): NULL is equal to no other key.
RowsAreUnique(rows) ==
  \A i, j \in DOMAIN rows :
    rows[i].user = rows[j].user /\ rows[i].key = rows[j].key /\ rows[i].key # NoKey => i = j

\* The inductive invariant.
InboxInv == NotificationsTypeOK /\ EachRecipientOnce /\ dispatched \subseteq DOMAIN requests

AddsRow(rows, next, n, user) ==
  /\ next \in Seq(InboxRow) /\ Len(rows) <= Len(next)
  /\ \A i \in 1 .. Len(rows) : next[i] = rows[i]
  /\ \A i \in Len(rows) + 1 .. Len(next) : next[i] = NewRow(n, user)
  /\ RowsAreUnique(next)
  /\ \E i \in DOMAIN next : next[i].user = user /\ next[i].key = requests[n].key

\* One INSERT: the rows before stay where they are, the recipient has one, and
\* the index is respected.
LEMMA InsertEffect ==
  ASSUME NEW n \in DOMAIN requests, requests[n].key \in RequestKeys \cup {NoKey},
         n \in 1 .. MaxRequests, NEW user \in Recipients, NEW rows \in Seq(InboxRow),
         RowsAreUnique(rows)
  PROVE  AddsRow(rows, Inserted(rows, n, user), n, user)
<1> DEFINE key == requests[n].key
           row == NewRow(n, user)
           next == Inserted(rows, n, user)
<1>1. row \in InboxRow /\ row.user = user /\ row.key = key
  BY DEF NewRow, InboxRow
<1>2. DOMAIN rows = 1 .. Len(rows) /\ Len(rows) \in Nat
  OBVIOUS
<1>3. CASE HasRow(rows, user, key)
  <2>1. next = rows
    BY <1>3 DEF Inserted
  <2>2. \E i \in DOMAIN rows : rows[i].user = user /\ rows[i].key = key
    BY <1>3 DEF HasRow
  <2>3. QED BY <1>2, <2>1, <2>2 DEF AddsRow
<1>4. CASE ~HasRow(rows, user, key)
  <2>1. next = Append(rows, row)
    BY <1>4 DEF Inserted
  <2> HIDE DEF row, next
  <2>2. /\ next \in Seq(InboxRow) /\ Len(next) = Len(rows) + 1 /\ DOMAIN next = 1 .. Len(rows) + 1
        /\ \A i \in 1 .. Len(rows) : next[i] = rows[i]
        /\ next[Len(rows) + 1] = row
    BY <1>1, <1>2, <2>1
  <2>3. \A i \in 1 .. Len(rows) : ~(rows[i].user = user /\ rows[i].key = key /\ key # NoKey)
    BY <1>2, <1>4 DEF HasRow
  <2>4. RowsAreUnique(next)
    <3> SUFFICES ASSUME NEW i \in DOMAIN next, NEW j \in DOMAIN next, next[i].user = next[j].user,
                        next[i].key = next[j].key, next[i].key # NoKey
                 PROVE  i = j
      BY DEF RowsAreUnique
    <3> HIDE DEF key
    <3>1. CASE i \in 1 .. Len(rows) /\ j \in 1 .. Len(rows)
      BY <1>2, <2>2, <3>1 DEF RowsAreUnique
    <3>2. CASE i = Len(rows) + 1 /\ j \in 1 .. Len(rows)
      BY <1>1, <2>2, <2>3, <3>2
    <3>3. CASE i \in 1 .. Len(rows) /\ j = Len(rows) + 1
      BY <1>1, <2>2, <2>3, <3>3
    <3>4. QED BY <1>2, <2>2, <3>1, <3>2, <3>3
  <2>5. AddsRow(rows, next, n, user)
    BY <1>1, <1>2, <2>2, <2>4 DEF AddsRow, row
  <2>6. QED BY <2>5 DEF next
<1>5. QED BY <1>3, <1>4

\* Whoever is written to in turn, everybody is written to.
LEMMA OrdersReachAll ==
  ASSUME NEW users, users \subseteq Recipients, NEW order \in Orders(users)
  PROVE  /\ order \in Seq(users) /\ Len(order) \in Nat
         /\ \A user \in users : \E i \in 1 .. Len(order) : order[i] = user
<1> DEFINE size == Cardinality(users)
<1>1. IsFiniteSet(users) /\ size \in Nat
  BY FS_Subset, FS_CardinalityType, NotificationsAssumption
<1>2. order \in [1 .. size -> users] /\ \A i, j \in 1 .. size : i # j => order[i] # order[j]
  BY DEF Orders
<1>3. Cardinality(1 .. size) = size
  BY <1>1, FS_Interval
<1> HIDE DEF size
<1>4. order \in Seq(users) /\ Len(order) = size
  BY <1>1, <1>2
<1>5. order \in Injection(1 .. size, users)
  BY <1>2 DEF Injection, IsInjective
<1>6. order \in Surjection(1 .. size, users)
  BY <1>1, <1>3, <1>5, FS_Injection DEF size
<1>7. QED BY <1>1, <1>4, <1>6 DEF Surjection

\* A delivery of the job: the rows before stay where they are, what is new is
\* this request's and unread, every recipient has a row, and the index is
\* respected.
LEMMA DispatchEffect ==
  ASSUME InboxInv, NEW n \in DOMAIN requests, NEW order \in Orders(requests[n].recipients),
         Dispatch(n, order)
  PROVE  /\ inbox' \in Seq(InboxRow) /\ Len(inbox) <= Len(inbox') /\ Len(inbox') <= MaxInboxRows
         /\ \A i \in 1 .. Len(inbox) : inbox'[i] = inbox[i]
         /\ \A i \in Len(inbox) + 1 .. Len(inbox') :
              inbox'[i].request = n /\ ~inbox'[i].isDeleted
         /\ RowsAreUnique(inbox')
         /\ \A user \in requests[n].recipients :
              \E i \in DOMAIN inbox' : inbox'[i].user = user /\ inbox'[i].key = requests[n].key
<1> DEFINE size == Len(order)
           Loops(f, k) == f = [i \in 0 .. k |-> IF i = 0 THEN inbox
                                                ELSE Inserted(f[i - 1], n, order[i])]
           Loop == CHOOSE f : Loops(f, size)
           Reaches(rows, i) ==
             /\ rows \in Seq(InboxRow) /\ Len(inbox) <= Len(rows)
             /\ \A j \in 1 .. Len(inbox) : rows[j] = inbox[j]
             /\ \A j \in Len(inbox) + 1 .. Len(rows) : rows[j].request = n /\ ~rows[j].isDeleted
             /\ RowsAreUnique(rows)
             /\ \A m \in 1 .. i : \E j \in DOMAIN rows :
                  rows[j].user = order[m] /\ rows[j].key = requests[n].key
<1>1. /\ inbox \in Seq(InboxRow) /\ RowsAreUnique(inbox)
      /\ requests[n].recipients \subseteq Recipients
      /\ requests[n].key \in RequestKeys \cup {NoKey} /\ n \in 1 .. MaxRequests
  <2>1. /\ requests \in Seq([recipients : SUBSET Recipients, key : RequestKeys \cup {NoKey}])
        /\ Len(requests) <= MaxRequests /\ MaxRequests \in Nat
    BY NotificationsAssumption DEF InboxInv, NotificationsTypeOK
  <2>2. n \in 1 .. MaxRequests
    BY <2>1
  <2>3. requests[n] \in [recipients : SUBSET Recipients, key : RequestKeys \cup {NoKey}]
    <3> DEFINE Job == [recipients : SUBSET Recipients, key : RequestKeys \cup {NoKey}]
    <3>1. requests \in Seq(Job)
      BY <2>1
    <3> HIDE DEF Job
    <3>2. requests[n] \in Job
      BY <3>1
    <3>3. QED BY <3>2 DEF Job
  <2>4. QED BY <2>2, <2>3 DEF InboxInv, NotificationsTypeOK, EachRecipientOnce, RowsAreUnique, InboxRow
<1>2. /\ order \in Seq(requests[n].recipients) /\ size \in Nat
      /\ \A user \in requests[n].recipients : \E i \in 1 .. size : order[i] = user
  BY <1>1, OrdersReachAll
<1>3. \A i \in 1 .. size : order[i] \in Recipients
  BY <1>1, <1>2
<1>4. /\ inbox' = Loop[size] /\ Len(Loop[size]) <= MaxInboxRows
  BY DEF Dispatch
<1> HIDE DEF size
<1>5. \E f : Loops(f, size)
  <2> DEFINE Endless == {k \in Nat : ~ \E f : Loops(f, k)}
  <2>1. CASE Endless = {}
    BY <1>2, <2>1
  <2>2. CASE Endless # {}
    <3>1. PICK k \in Endless : \A l \in Endless : k <= l
      <4>1. Endless \subseteq Nat
        OBVIOUS
      <4> HIDE DEF Endless
      <4> QED BY <2>2, <4>1, LeastExists
    <3>2. Loops([i \in 0 .. 0 |-> inbox], 0)
      OBVIOUS
    <3>3. k # 0 /\ k \in Nat
      BY <3>1, <3>2
    <3>4. k - 1 \in Nat /\ k - 1 \notin Endless
      <4> HIDE DEF Endless
      <4> QED BY <3>1, <3>3
    <3>5. PICK f : Loops(f, k - 1)
      BY <3>4
    <3> DEFINE g == [i \in 0 .. k |-> IF i = k THEN Inserted(f[k - 1], n, order[k]) ELSE f[i]]
    <3>6. \A i \in 0 .. k - 1 : f[i] = IF i = 0 THEN inbox ELSE Inserted(f[i - 1], n, order[i])
      BY <3>5
    <3>7. \A i \in 0 .. k : g[i] = IF i = 0 THEN inbox ELSE Inserted(g[i - 1], n, order[i])
      <4> SUFFICES ASSUME NEW i \in 0 .. k
                   PROVE  g[i] = IF i = 0 THEN inbox ELSE Inserted(g[i - 1], n, order[i])
        OBVIOUS
      <4>1. CASE i = k
        <5>1. g[i] = Inserted(f[k - 1], n, order[k]) /\ g[k - 1] = f[k - 1]
          BY <3>3, <4>1
        <5>2. QED BY <3>3, <4>1, <5>1
      <4>2. CASE i \in 1 .. k - 1
        <5>1. g[i] = f[i] /\ g[i - 1] = f[i - 1]
          BY <3>3, <4>2
        <5>2. QED BY <3>6, <4>2, <5>1
      <4>3. CASE i = 0
        <5>1. g[0] = f[0] /\ f[0] = inbox
          BY <3>3, <3>6
        <5> HIDE DEF g
        <5>2. QED BY <4>3, <5>1
      <4>4. QED BY <3>3, <4>1, <4>2, <4>3
    <3>8. g = [i \in 0 .. k |-> g[i]]
      OBVIOUS
    <3> HIDE DEF g
    <3>9. Loops(g, k)
      BY <3>7, <3>8
    <3>10. QED BY <3>1, <3>9
  <2>3. QED BY <2>1, <2>2
<1>6. Loops(Loop, size)
  <2> HIDE DEF Loops
  <2> QED BY <1>5
<1> HIDE DEF Loop
<1>7. \A i \in 0 .. size : Loop[i] = IF i = 0 THEN inbox ELSE Inserted(Loop[i - 1], n, order[i])
  BY <1>6
<1>8. Reaches(inbox, 0)
  BY <1>1
<1>9. ASSUME NEW i \in 1 .. size, Reaches(Loop[i - 1], i - 1)
      PROVE  Reaches(Loop[i], i)
  <2> DEFINE rows == Loop[i - 1]
             next == Loop[i]
  <2>1. next = Inserted(rows, n, order[i])
    BY <1>2, <1>7
  <2> HIDE DEF rows, next
  <2>2. /\ rows \in Seq(InboxRow) /\ RowsAreUnique(rows) /\ Len(inbox) <= Len(rows)
        /\ \A j \in 1 .. Len(inbox) : rows[j] = inbox[j]
        /\ \A j \in Len(inbox) + 1 .. Len(rows) : rows[j].request = n /\ ~rows[j].isDeleted
        /\ \A m \in 1 .. i - 1 : \E j \in DOMAIN rows :
             rows[j].user = order[m] /\ rows[j].key = requests[n].key
    BY <1>9 DEF rows
  <2>3. /\ next \in Seq(InboxRow) /\ Len(rows) <= Len(next)
        /\ \A j \in 1 .. Len(rows) : next[j] = rows[j]
        /\ \A j \in Len(rows) + 1 .. Len(next) : next[j] = NewRow(n, order[i])
        /\ RowsAreUnique(next)
        /\ \E j \in DOMAIN next : next[j].user = order[i] /\ next[j].key = requests[n].key
    <3>1. order[i] \in Recipients /\ requests[n].key \in RequestKeys \cup {NoKey} /\ n \in 1 .. MaxRequests
      BY <1>1, <1>3
    <3>2. AddsRow(rows, next, n, order[i])
      BY <2>1, <2>2, <3>1, InsertEffect
    <3>3. QED BY <3>2 DEF AddsRow
  <2>4. NewRow(n, order[i]).request = n /\ ~NewRow(n, order[i]).isDeleted
    BY DEF NewRow
  <2>5. /\ Len(inbox) \in Nat /\ Len(rows) \in Nat /\ Len(next) \in Nat
        /\ DOMAIN rows = 1 .. Len(rows) /\ DOMAIN next = 1 .. Len(next)
    BY <1>1, <2>2, <2>3
  <2>6. \A j \in 1 .. Len(inbox) : next[j] = inbox[j]
    BY <2>2, <2>3, <2>5
  <2>7. \A j \in Len(inbox) + 1 .. Len(next) : next[j].request = n /\ ~next[j].isDeleted
    <3> SUFFICES ASSUME NEW j \in Len(inbox) + 1 .. Len(next)
                 PROVE  next[j].request = n /\ ~next[j].isDeleted
      OBVIOUS
    <3>1. CASE j <= Len(rows)
      BY <2>2, <2>3, <2>5, <3>1
    <3>2. CASE j > Len(rows)
      BY <2>3, <2>4, <2>5, <3>2
    <3>3. QED BY <2>5, <3>1, <3>2
  <2>8. \A m \in 1 .. i : \E j \in DOMAIN next :
          next[j].user = order[m] /\ next[j].key = requests[n].key
    <3> SUFFICES ASSUME NEW m \in 1 .. i
                 PROVE  \E j \in DOMAIN next : next[j].user = order[m] /\ next[j].key = requests[n].key
      OBVIOUS
    <3>1. CASE m = i
      BY <2>3, <3>1
    <3>2. CASE m \in 1 .. i - 1
      BY <2>2, <2>3, <2>5, <3>2
    <3>3. QED BY <1>2, <3>1, <3>2
  <2>9. QED BY <2>2, <2>3, <2>5, <2>6, <2>7, <2>8 DEF next
<1> HIDE DEF Reaches
<1>10. \A i \in 0 .. size : Reaches(Loop[i], i)
  <2> DEFINE Wrong == {i \in 0 .. size : ~Reaches(Loop[i], i)}
  <2>1. CASE Wrong = {}
    BY <2>1
  <2>2. CASE Wrong # {}
    <3>1. PICK i \in Wrong : \A j \in Wrong : i <= j
      <4>1. Wrong \subseteq Nat
        BY <1>2
      <4> HIDE DEF Wrong
      <4> QED BY <2>2, <4>1, LeastExists
    <3>2. Loop[0] = inbox
      BY <1>2, <1>7
    <3>3. i # 0 /\ i \in 1 .. size
      BY <1>2, <1>8, <3>1, <3>2
    <3>4. i - 1 \in 0 .. size /\ i - 1 \notin Wrong
      <4> HIDE DEF Wrong
      <4> QED BY <1>2, <3>1, <3>3
    <3>5. Reaches(Loop[i - 1], i - 1)
      BY <3>4
    <3>6. Reaches(Loop[i], i)
      BY <1>9, <3>3, <3>5
    <3>7. QED BY <3>1, <3>6
  <2>3. QED BY <2>1, <2>2
<1>11. Reaches(inbox', size)
  BY <1>2, <1>4, <1>10
<1>12. Len(inbox') <= MaxInboxRows
  BY <1>4
<1>13. \A user \in requests[n].recipients :
         \E i \in DOMAIN inbox' : inbox'[i].user = user /\ inbox'[i].key = requests[n].key
  <2> SUFFICES ASSUME NEW user \in requests[n].recipients
               PROVE  \E i \in DOMAIN inbox' : inbox'[i].user = user /\ inbox'[i].key = requests[n].key
    OBVIOUS
  <2>1. PICK m \in 1 .. size : order[m] = user
    BY <1>2
  <2>2. PICK i \in DOMAIN inbox' : inbox'[i].user = order[m] /\ inbox'[i].key = requests[n].key
    BY <1>11 DEF Reaches
  <2>3. QED BY <2>1, <2>2
<1>14. QED BY <1>11, <1>12, <1>13 DEF Reaches

\* What a change of status does to the rows.
LEMMA StatusEffect ==
  ASSUME InboxInv, NEW i \in DOMAIN inbox, NEW status \in {"read", "archived", "deleted"},
         UpdateStatus(i, status)
  PROVE  /\ inbox' \in Seq(InboxRow) /\ Len(inbox') = Len(inbox)
         /\ \A j \in 1 .. Len(inbox) :
              /\ inbox'[j].user = inbox[j].user /\ inbox'[j].key = inbox[j].key
              /\ inbox'[j].request = inbox[j].request
              /\ inbox[j].isDeleted => inbox'[j].isDeleted
<1>1. inbox \in Seq(InboxRow)
  BY DEF InboxInv, NotificationsTypeOK, InboxRow
<1>2. DOMAIN inbox = 1 .. Len(inbox) /\ Len(inbox) \in Nat /\ inbox[i] \in InboxRow
  BY <1>1
<1>3. inbox' = [inbox EXCEPT ![i] = [inbox[i] EXCEPT !.status = status,
                                                    !.isDeleted = @ \/ status = "deleted"]]
  BY <1>2 DEF UpdateStatus, InboxRow
<1>4. PICK row : row = [inbox[i] EXCEPT !.status = status, !.isDeleted = @ \/ status = "deleted"]
  OBVIOUS
<1>5. /\ row \in InboxRow /\ row.user = inbox[i].user /\ row.key = inbox[i].key
      /\ row.request = inbox[i].request
      /\ inbox[i].isDeleted => row.isDeleted
  BY <1>2, <1>4 DEF InboxRow
<1>6. inbox' = [inbox EXCEPT ![i] = row]
  BY <1>3, <1>4
<1>7. /\ inbox' \in Seq(InboxRow) /\ Len(inbox') = Len(inbox)
      /\ \A j \in 1 .. Len(inbox) : inbox'[j] = IF j = i THEN row ELSE inbox[j]
  BY <1>1, <1>2, <1>5, <1>6
<1>8. QED BY <1>5, <1>7

\* What every step keeps of the rows there are.
LEMMA RowsStay ==
  ASSUME InboxInv, [NotificationsNext]_inboxVars
  PROVE  /\ inbox' \in Seq(InboxRow) /\ Len(inbox) <= Len(inbox') /\ Len(inbox') <= MaxInboxRows
         /\ \A j \in 1 .. Len(inbox) :
              /\ inbox'[j].user = inbox[j].user /\ inbox'[j].key = inbox[j].key
              /\ inbox'[j].request = inbox[j].request
              /\ inbox[j].isDeleted => inbox'[j].isDeleted
         /\ RowsAreUnique(inbox')
<1> DEFINE Stay ==
      /\ inbox' \in Seq(InboxRow) /\ Len(inbox) <= Len(inbox') /\ Len(inbox') <= MaxInboxRows
      /\ \A j \in 1 .. Len(inbox) :
           /\ inbox'[j].user = inbox[j].user /\ inbox'[j].key = inbox[j].key
           /\ inbox'[j].request = inbox[j].request
           /\ inbox[j].isDeleted => inbox'[j].isDeleted
      /\ RowsAreUnique(inbox')
<1>1. /\ inbox \in Seq(InboxRow) /\ RowsAreUnique(inbox) /\ Len(inbox) <= MaxInboxRows
      /\ DOMAIN inbox = 1 .. Len(inbox) /\ Len(inbox) \in Nat /\ MaxInboxRows \in Nat
  BY NotificationsAssumption
  DEF InboxInv, NotificationsTypeOK, InboxRow, EachRecipientOnce, RowsAreUnique
<1>2. CASE inbox' = inbox
  BY <1>1, <1>2
<1>3. ASSUME NEW n \in DOMAIN requests, NEW order \in Orders(requests[n].recipients),
             Dispatch(n, order)
      PROVE  Stay
  BY <1>1, <1>3, DispatchEffect
<1>4. ASSUME NEW i \in DOMAIN inbox, NEW status \in {"read", "archived", "deleted"},
             UpdateStatus(i, status)
      PROVE  Stay
  BY <1>1, <1>4, StatusEffect DEF RowsAreUnique
<1>5. QED BY <1>2, <1>3, <1>4 DEF NotificationsNext, RequestNotification, inboxVars

LEMMA InboxStep ==
  ASSUME InboxInv, [NotificationsNext]_inboxVars
  PROVE  InboxInv'
<1>1. /\ requests \in Seq([recipients : SUBSET Recipients, key : RequestKeys \cup {NoKey}])
      /\ Len(requests) <= MaxRequests /\ dispatched \subseteq DOMAIN requests
      /\ MaxRequests \in Nat /\ Len(requests) \in Nat /\ DOMAIN requests = 1 .. Len(requests)
  BY NotificationsAssumption DEF InboxInv, NotificationsTypeOK
<1>2. /\ inbox \in Seq(InboxRow) /\ DOMAIN inbox = 1 .. Len(inbox) /\ Len(inbox) \in Nat
  BY DEF InboxInv, NotificationsTypeOK, InboxRow
<1>3. /\ inbox' \in Seq(InboxRow) /\ Len(inbox) <= Len(inbox') /\ Len(inbox') <= MaxInboxRows
      /\ \A j \in 1 .. Len(inbox) :
           /\ inbox'[j].user = inbox[j].user /\ inbox'[j].key = inbox[j].key
           /\ inbox'[j].request = inbox[j].request
      /\ RowsAreUnique(inbox')
  BY RowsStay
<1>4. DOMAIN inbox' = 1 .. Len(inbox') /\ Len(inbox') \in Nat
  BY <1>3
<1>5. /\ requests' \in Seq([recipients : SUBSET Recipients, key : RequestKeys \cup {NoKey}])
      /\ Len(requests') <= MaxRequests /\ DOMAIN requests \subseteq DOMAIN requests'
      /\ \A n \in DOMAIN requests : requests'[n] = requests[n]
  <2>1. CASE UNCHANGED requests
    BY <1>1, <2>1
  <2>2. ASSUME NEW users \in SUBSET Recipients, NEW key \in RequestKeys \cup {NoKey},
               RequestNotification(users, key)
        PROVE  <1>5!:
    <3> DEFINE job == [recipients |-> users, key |-> key]
    <3>1. requests' = Append(requests, job) /\ Len(requests) < MaxRequests
      BY <2>2 DEF RequestNotification
    <3>2. job \in [recipients : SUBSET Recipients, key : RequestKeys \cup {NoKey}]
      OBVIOUS
    <3> HIDE DEF job
    <3>3. QED BY <1>1, <3>1, <3>2
  <2>3. QED BY <2>1, <2>2 DEF NotificationsNext, Dispatch, UpdateStatus, inboxVars
<1>6. \/ dispatched' = dispatched /\ Len(inbox') = Len(inbox)
      \/ \E n \in DOMAIN requests :
           /\ dispatched' = dispatched \cup {n}
           /\ \A i \in Len(inbox) + 1 .. Len(inbox') : inbox'[i].request = n
           /\ \A user \in requests[n].recipients :
                \E i \in DOMAIN inbox' : inbox'[i].user = user /\ inbox'[i].key = requests[n].key
  <2>1. ASSUME NEW n \in DOMAIN requests, NEW order \in Orders(requests[n].recipients),
               Dispatch(n, order)
        PROVE  <1>6!:
    <3>1. dispatched' = dispatched \cup {n}
      BY <2>1 DEF Dispatch
    <3>2. /\ \A i \in Len(inbox) + 1 .. Len(inbox') : inbox'[i].request = n
          /\ \A user \in requests[n].recipients :
               \E i \in DOMAIN inbox' : inbox'[i].user = user /\ inbox'[i].key = requests[n].key
      BY <2>1, DispatchEffect
    <3>3. QED BY <3>1, <3>2
  <2>2. ASSUME NEW i \in DOMAIN inbox, NEW status \in {"read", "archived", "deleted"},
               UpdateStatus(i, status)
        PROVE  <1>6!:
    BY <2>2, StatusEffect DEF UpdateStatus
  <2>3. QED BY <2>1, <2>2 DEF NotificationsNext, RequestNotification, inboxVars
<1>7. dispatched' \subseteq DOMAIN requests'
  BY <1>1, <1>5, <1>6
<1>8. \A n \in dispatched' : \A user \in requests'[n].recipients :
        \E i \in DOMAIN inbox' : inbox'[i].user = user /\ inbox'[i].key = requests'[n].key
  <2> SUFFICES ASSUME NEW n \in dispatched', NEW user \in requests'[n].recipients
               PROVE  \E i \in DOMAIN inbox' : inbox'[i].user = user /\ inbox'[i].key = requests'[n].key
    OBVIOUS
  <2>1. n \in DOMAIN requests /\ requests'[n] = requests[n]
    BY <1>1, <1>5, <1>6
  <2>2. CASE n \in dispatched
    <3>1. PICK i \in DOMAIN inbox : inbox[i].user = user /\ inbox[i].key = requests[n].key
      BY <2>1, <2>2 DEF InboxInv, EachRecipientOnce
    <3>2. i \in DOMAIN inbox' /\ inbox'[i].user = user /\ inbox'[i].key = requests[n].key
      BY <1>2, <1>3, <1>4, <3>1
    <3>3. QED BY <2>1, <3>2
  <2>3. CASE n \notin dispatched
    BY <1>6, <2>1, <2>3
  <2>4. QED BY <2>2, <2>3
<1>9. \A i \in DOMAIN inbox' : inbox'[i].request \in dispatched'
  <2> SUFFICES ASSUME NEW i \in 1 .. Len(inbox') PROVE inbox'[i].request \in dispatched'
    BY <1>4
  <2>1. CASE i <= Len(inbox)
    <3>1. inbox[i].request \in dispatched
      BY <1>2, <1>4, <2>1 DEF InboxInv, EachRecipientOnce
    <3>2. inbox'[i].request = inbox[i].request
      BY <1>2, <1>3, <1>4, <2>1
    <3>3. QED BY <1>6, <3>1, <3>2
  <2>2. CASE i > Len(inbox)
    <3>1. PICK n \in DOMAIN requests :
            /\ dispatched' = dispatched \cup {n}
            /\ \A k \in Len(inbox) + 1 .. Len(inbox') : inbox'[k].request = n
      <4>1. ASSUME Len(inbox') = Len(inbox) PROVE FALSE
        <5>1. i \in 1 .. Len(inbox)
          BY <4>1
        <5>2. Len(inbox) \in Nat
          BY <1>2
        <5>3. QED BY <2>2, <5>1, <5>2
      <4>2. QED BY <1>6, <4>1
    <3>2. i \in Len(inbox) + 1 .. Len(inbox')
      BY <1>2, <1>4, <2>2
    <3>3. QED BY <3>1, <3>2
  <2>3. QED BY <1>2, <1>4, <2>1, <2>2
<1>10. NotificationsTypeOK'
  <2>1. dispatched' \subseteq 1 .. MaxRequests
    <3>1. Len(requests') \in Nat /\ DOMAIN requests' = 1 .. Len(requests')
      BY <1>5
    <3>2. QED BY <1>1, <1>5, <1>7, <3>1
  <2>2. QED BY <1>3, <1>5, <2>1 DEF NotificationsTypeOK, InboxRow
<1>11. EachRecipientOnce'
  BY <1>3, <1>8, <1>9 DEF EachRecipientOnce, RowsAreUnique
<1>12. QED BY <1>7, <1>10, <1>11 DEF InboxInv

LEMMA InboxStarts == NotificationsInit => InboxInv
<1> SUFFICES ASSUME NotificationsInit PROVE InboxInv
  OBVIOUS
<1>1. /\ requests = <<>> /\ dispatched = {} /\ inbox = <<>>
      /\ MaxRequests \in Nat /\ MaxInboxRows \in Nat
  BY NotificationsAssumption DEF NotificationsInit
<1>2. QED BY <1>1 DEF InboxInv, NotificationsTypeOK, EachRecipientOnce

\* What was deleted is not listed again: its row stays deleted, and the index
\* lets no other one have its key.
LEMMA DeletedStep ==
  ASSUME InboxInv, [NotificationsNext]_inboxVars,
         NEW i \in DOMAIN inbox, inbox[i].isDeleted, inbox[i].key # NoKey,
         NEW j \in Listed(inbox[i].user)'
  PROVE  inbox'[j].key # inbox[i].key
<1>1. DOMAIN inbox = 1 .. Len(inbox) /\ Len(inbox) \in Nat
  BY DEF InboxInv, NotificationsTypeOK
<1>2. /\ inbox' \in Seq(InboxRow) /\ Len(inbox) <= Len(inbox') /\ RowsAreUnique(inbox')
      /\ inbox'[i].user = inbox[i].user /\ inbox'[i].key = inbox[i].key /\ inbox'[i].isDeleted
  BY <1>1, RowsStay
<1>3. i \in DOMAIN inbox'
  BY <1>1, <1>2
<1>4. j \in DOMAIN inbox' /\ inbox'[j].user = inbox'[i].user /\ ~inbox'[j].isDeleted
  BY <1>2 DEF Listed
<1>5. QED BY <1>2, <1>3, <1>4 DEF RowsAreUnique

\* Whatever the queue delivers again, whoever repeats a request, and whatever the
\* recipients do meanwhile: each has what was sent to him once, until he deletes
\* it.
THEOREM InboxHolds == NotificationsSpec => InboxIsExact
<1>1. InboxInv /\ [NotificationsNext]_inboxVars => InboxInv'
  BY InboxStep
<1>2. InboxInv => NotificationsTypeOK /\ EachRecipientOnce
  BY DEF InboxInv
<1>3. InboxInv /\ [NotificationsNext]_inboxVars
        => [\A i \in DOMAIN inbox : inbox[i].isDeleted /\ inbox[i].key # NoKey =>
              \A j \in Listed(inbox[i].user)' : inbox'[j].key # inbox[i].key]_inboxVars
  BY DeletedStep
<1>4. QED BY <1>1, <1>2, <1>3, InboxStarts, PTL DEF NotificationsSpec, InboxIsExact, DeletedStaysAway

-----------------------------------------------------------------------------
(* The core store: CoreStore, for all operations of its catalogue.         *)

LogIsComplete == \A n \in Changes : state[n] = "none" <=> n > Len(log)

\* Each creation that waits for its hash has an id of its own.
ReservedAreTaken ==
  /\ \A n \in Changes : state[n] = "hashing" =>
       log[n] = "createUser" /\ reserved[n] \in 1 .. sequences["users"]
  /\ \A m, n \in Changes :
       state[m] = "hashing" /\ state[n] = "hashing" /\ reserved[m] = reserved[n] => m = n

\* What a request has made of the memory is still there when it is saved, and
\* afterwards, so that a later save of the same tables repeats it.
ChangesAreHeld ==
  \A n \in Changes \ overwritten : state[n] \in {"waiting", "saved"} =>
    \A t \in Durable(Operation(n)) : \E i \in Ids : n \in memory[t][i]

\* Until modules are synchronized no row has an id that the store has yet to give.
SequencesLead ==
  ~applied /\ loaded = {} =>
    /\ \A t \in Tables, i \in Ids : i > sequences[t] => memory[t][i] = {}
    /\ \A n \in Changes : state[n] = "hashing" => memory["users"][reserved[n]] = {}

\* The inductive invariant.
StoreInv ==
  /\ StoreTypeOK /\ LogIsComplete /\ ReservedAreTaken
  /\ AcknowledgedSurvives /\ ChangesAreHeld /\ SequencesLead

\* The tables of each scope.
LEMMA Scopes ==
  /\ TablesOf("roles") = {"roles", "rolePermissions"}
  /\ TablesOf("permissions") = {"permissions", "apiPermissions", "rolePermissions", "menuApiBindings"}
  /\ TablesOf("menus") = {"menus", "menuApiBindings"}
  /\ TablesOf("permissionExtensions") =
       {"roleDataPermissions", "fieldPermissionRules", "userPermissionOverrides"}
  /\ TablesOf("authSessions") = {"authSessions", "refreshTokens"}
  /\ TablesOf("all") = Tables
  /\ \A t \in {"organizations", "users", "userPreferences", "userOrganizationRoles",
              "routeMetadata"} : TablesOf(t) = {t}
BY DEF TablesOf, RoleTables, PermissionTables, MenuTables, ExtensionTables, SessionTables

LEMMA AllTables ==
  Tables = {"roles", "rolePermissions", "permissions", "apiPermissions", "menuApiBindings", "menus",
            "roleDataPermissions", "fieldPermissionRules", "userPermissionOverrides",
            "authSessions", "refreshTokens", "organizations", "users", "userPreferences",
            "userOrganizationRoles", "routeMetadata", "initializationState"}
BY DEF Tables, RoleTables, PermissionTables, MenuTables, ExtensionTables, SessionTables,
       SingleTables

\* What an operation changes for good it also saves.
SavesWhatLasts(op) ==
  /\ op.adds \subseteq Tables /\ op.writes \subseteq Tables /\ op.unsaved \subseteq Tables
  /\ op.optional \in BOOLEAN /\ op.background \in BOOLEAN
  /\ Durable(op) \subseteq SavedTables(op)

\* It is enough that each table an operation changes is in one of its scopes.
LEMMA OpIsSound ==
  ASSUME NEW adds, NEW writes, NEW unsaved, NEW saves,
         adds \subseteq Tables, writes \subseteq Tables, unsaved \subseteq Tables,
         \A t \in adds \cup writes : \E s \in saves : t \in TablesOf(s)
  PROVE  LET op == Op(adds, writes, unsaved, saves) IN
         SavesWhatLasts(op) /\ SavesWhatLasts(InBackground(op)) /\ SavesWhatLasts(IfMissing(op))
BY DEF SavesWhatLasts, Durable, SavedTables, Op, InBackground, IfMissing

LEMMA SessionSaved == \A o \in DOMAIN SessionOperations : SavesWhatLasts(SessionOperations[o])
<1>1. SavesWhatLasts(SessionOperations.login)
  BY OpIsSound, Scopes, AllTables DEF SessionOperations
<1>2. SavesWhatLasts(SessionOperations.refusedLogin)
  BY OpIsSound, Scopes, AllTables DEF SessionOperations
<1>3. SavesWhatLasts(SessionOperations.authenticate)
  BY OpIsSound, Scopes, AllTables DEF SessionOperations
<1>4. SavesWhatLasts(SessionOperations.refreshAccessToken)
  BY OpIsSound, Scopes, AllTables DEF SessionOperations
<1>5. SavesWhatLasts(SessionOperations.logout)
  BY OpIsSound, Scopes, AllTables DEF SessionOperations
<1>6. SavesWhatLasts(SessionOperations.changePassword)
  BY OpIsSound, Scopes, AllTables DEF SessionOperations
<1>7. SavesWhatLasts(SessionOperations.switchCurrentOrganization)
  BY OpIsSound, Scopes, AllTables DEF SessionOperations
<1>8. SavesWhatLasts(SessionOperations.listOnlineUsers)
  BY OpIsSound, Scopes, AllTables DEF SessionOperations
<1> QED
  BY <1>1, <1>2, <1>3, <1>4, <1>5, <1>6, <1>7, <1>8 DEF SessionOperations

LEMMA ProfileSaved == \A o \in DOMAIN ProfileOperations : SavesWhatLasts(ProfileOperations[o])
<1>1. SavesWhatLasts(ProfileOperations.updateOwnProfile)
  BY OpIsSound, Scopes, AllTables DEF ProfileOperations
<1>2. SavesWhatLasts(ProfileOperations.updateOwnAvatar)
  BY OpIsSound, Scopes, AllTables DEF ProfileOperations
<1>3. SavesWhatLasts(ProfileOperations.updateOwnPreferences)
  BY OpIsSound, Scopes, AllTables DEF ProfileOperations
<1> QED
  BY <1>1, <1>2, <1>3 DEF ProfileOperations

LEMMA OrganizationSaved == \A o \in DOMAIN OrganizationOperations : SavesWhatLasts(OrganizationOperations[o])
<1>1. SavesWhatLasts(OrganizationOperations.createOrganization)
  BY OpIsSound, Scopes, AllTables DEF OrganizationOperations
<1>2. SavesWhatLasts(OrganizationOperations.updateOrganization)
  BY OpIsSound, Scopes, AllTables DEF OrganizationOperations
<1>3. SavesWhatLasts(OrganizationOperations.disableOrganization)
  BY OpIsSound, Scopes, AllTables DEF OrganizationOperations
<1>4. SavesWhatLasts(OrganizationOperations.enableOrganization)
  BY OpIsSound, Scopes, AllTables DEF OrganizationOperations
<1>5. SavesWhatLasts(OrganizationOperations.deleteOrganization)
  BY OpIsSound, Scopes, AllTables DEF OrganizationOperations
<1> QED
  BY <1>1, <1>2, <1>3, <1>4, <1>5 DEF OrganizationOperations

LEMMA UserSaved == \A o \in DOMAIN UserOperations : SavesWhatLasts(UserOperations[o])
<1>1. SavesWhatLasts(UserOperations.createUser)
  BY OpIsSound, Scopes, AllTables DEF UserOperations
<1>2. SavesWhatLasts(UserOperations.updateUser)
  BY OpIsSound, Scopes, AllTables DEF UserOperations
<1>3. SavesWhatLasts(UserOperations.setUserStatus)
  BY OpIsSound, Scopes, AllTables DEF UserOperations
<1>4. SavesWhatLasts(UserOperations.resetUserPassword)
  BY OpIsSound, Scopes, AllTables DEF UserOperations
<1>5. SavesWhatLasts(UserOperations.deleteUser)
  BY OpIsSound, Scopes, AllTables DEF UserOperations
<1>6. SavesWhatLasts(UserOperations.assignUserOrganizationRole)
  BY OpIsSound, Scopes, AllTables DEF UserOperations
<1>7. SavesWhatLasts(UserOperations.removeUserOrganizationRole)
  BY OpIsSound, Scopes, AllTables DEF UserOperations
<1> QED
  BY <1>1, <1>2, <1>3, <1>4, <1>5, <1>6, <1>7 DEF UserOperations

LEMMA RoleSaved == \A o \in DOMAIN RoleOperations : SavesWhatLasts(RoleOperations[o])
<1>1. SavesWhatLasts(RoleOperations.createRole)
  BY OpIsSound, Scopes, AllTables DEF RoleOperations
<1>2. SavesWhatLasts(RoleOperations.copyRole)
  BY OpIsSound, Scopes, AllTables DEF RoleOperations
<1>3. SavesWhatLasts(RoleOperations.updateRole)
  BY OpIsSound, Scopes, AllTables DEF RoleOperations
<1>4. SavesWhatLasts(RoleOperations.setRoleStatus)
  BY OpIsSound, Scopes, AllTables DEF RoleOperations
<1>5. SavesWhatLasts(RoleOperations.deleteRole)
  BY OpIsSound, Scopes, AllTables DEF RoleOperations
<1>6. SavesWhatLasts(RoleOperations.updateRolePermissions)
  BY OpIsSound, Scopes, AllTables DEF RoleOperations
<1> QED
  BY <1>1, <1>2, <1>3, <1>4, <1>5, <1>6 DEF RoleOperations

LEMMA ExtensionSaved == \A o \in DOMAIN ExtensionOperations : SavesWhatLasts(ExtensionOperations[o])
<1>1. SavesWhatLasts(ExtensionOperations.updateRoleDataPermissions)
  BY OpIsSound, Scopes, AllTables DEF ExtensionOperations
<1>2. SavesWhatLasts(ExtensionOperations.updateRoleFieldPermissions)
  BY OpIsSound, Scopes, AllTables DEF ExtensionOperations
<1>3. SavesWhatLasts(ExtensionOperations.updateUserPermissionOverrides)
  BY OpIsSound, Scopes, AllTables DEF ExtensionOperations
<1> QED
  BY <1>1, <1>2, <1>3 DEF ExtensionOperations

LEMMA MetadataSaved == \A o \in DOMAIN MetadataOperations : SavesWhatLasts(MetadataOperations[o])
<1>1. SavesWhatLasts(MetadataOperations.syncPermissions)
  BY OpIsSound, Scopes, AllTables DEF MetadataOperations
<1>2. SavesWhatLasts(MetadataOperations.syncRoutes)
  BY OpIsSound, Scopes, AllTables DEF MetadataOperations
<1>3. SavesWhatLasts(MetadataOperations.createMenu)
  BY OpIsSound, Scopes, AllTables DEF MetadataOperations
<1>4. SavesWhatLasts(MetadataOperations.updateMenu)
  BY OpIsSound, Scopes, AllTables DEF MetadataOperations
<1>5. SavesWhatLasts(MetadataOperations.deleteMenu)
  BY OpIsSound, Scopes, AllTables DEF MetadataOperations
<1>6. SavesWhatLasts(MetadataOperations.updateMenuApiBindings)
  BY OpIsSound, Scopes, AllTables DEF MetadataOperations
<1> QED
  BY <1>1, <1>2, <1>3, <1>4, <1>5, <1>6 DEF MetadataOperations

LEMMA SetupSaved == \A o \in DOMAIN SetupOperations : SavesWhatLasts(SetupOperations[o])
<1>1. SavesWhatLasts(SetupOperations.seedInitialization)
  BY OpIsSound, Scopes, AllTables DEF SetupOperations
<1> QED
  BY <1>1 DEF SetupOperations

LEMMA CatalogueIsSound == \A o \in DOMAIN Catalogue : SavesWhatLasts(Catalogue[o])
<1> DEFINE Sound(f) == \A o \in DOMAIN f : SavesWhatLasts(f[o])
<1>1. ASSUME NEW f, NEW g, Sound(f), Sound(g) PROVE Sound(Joined(f, g))
  BY <1>1 DEF Joined
<1>2. /\ Sound(Joined(SessionOperations, ProfileOperations))
      /\ Sound(Joined(OrganizationOperations, UserOperations))
      /\ Sound(Joined(RoleOperations, ExtensionOperations))
      /\ Sound(Joined(MetadataOperations, SetupOperations))
  BY <1>1, SessionSaved, ProfileSaved, OrganizationSaved, UserSaved, RoleSaved, ExtensionSaved,
     MetadataSaved, SetupSaved
<1> HIDE DEF Sound
<1>3. Sound(Catalogue)
  BY <1>1, <1>2 DEF Catalogue
<1> QED BY <1>3 DEF Sound

LEMMA CreatesUser == Catalogue["createUser"] = UserOperations.createUser
<1>1. /\ "createUser" \in DOMAIN UserOperations
      /\ "createUser" \notin DOMAIN SessionOperations /\ "createUser" \notin DOMAIN ProfileOperations
      /\ "createUser" \notin DOMAIN OrganizationOperations
  BY DEF UserOperations, SessionOperations, ProfileOperations, OrganizationOperations
<1> QED BY <1>1 DEF Catalogue, Joined
LEMMA CreationShape ==
  /\ Durable(Catalogue["createUser"]) = {"users", "userOrganizationRoles"}
  /\ "users" \in Tables /\ "userOrganizationRoles" \in Tables
<1>1. UserOperations.createUser = Op({"users", "userOrganizationRoles"}, {}, {},
                                     {"users", "userOrganizationRoles"})
  BY DEF UserOperations
<1>2. Durable(UserOperations.createUser) = {"users", "userOrganizationRoles"}
  BY <1>1 DEF Op, Durable
<1> QED BY <1>2, CreatesUser, AllTables

\* hydrateSequences finds the highest id of a table.
LEMMA HighestIs ==
  ASSUME NEW store \in Store, NEW t \in Tables
  PROVE  Highest(store, t) \in 0 .. MaxIds /\ \A i \in Ids : i > Highest(store, t) => store[t][i] = {}
<1> DEFINE UpperBounds == {m \in Nat : \A j \in Present(store, t) : j <= m}
           Is(i) == (i = 0 \/ store[t][i] # {}) /\ \A j \in Present(store, t) : j <= i
<1>1. MaxIds \in UpperBounds
  BY StoreAssumption DEF Present, Ids
<1>2. PICK m \in UpperBounds : \A k \in UpperBounds : m <= k
  <2> HIDE DEF UpperBounds
  <2>1. UpperBounds \subseteq Nat
    BY DEF UpperBounds
  <2> QED BY <1>1, <2>1, LeastExists
<1>3. m <= MaxIds /\ m \in Nat
  BY <1>1, <1>2
<1>4. Is(m) /\ m \in Ids \cup {0}
  <2>1. CASE m = 0
    BY <2>1, <1>2
  <2>2. CASE m # 0
    <3>1. m - 1 \in Nat /\ m - 1 \notin UpperBounds
      BY <2>2, <1>2, <1>3
    <3>2. PICK j \in Present(store, t) : ~ (j <= m - 1)
      BY <3>1
    <3>3. j = m
      BY <3>2, <1>2, <1>3 DEF Present, Ids
    <3> QED BY <3>2, <3>3, <1>2 DEF Present
  <2> QED BY <2>1, <2>2
<1>5. Highest(store, t) = CHOOSE i \in Ids \cup {0} : Is(i)
  BY DEF Highest
<1>6. Highest(store, t) \in Ids \cup {0} /\ Is(Highest(store, t))
  <2> HIDE DEF Is
  <2> QED BY <1>4, <1>5
<1>7. Highest(store, t) \in 0 .. MaxIds
  BY <1>6, StoreAssumption DEF Ids
<1>8. ASSUME NEW i \in Ids, i > Highest(store, t) PROVE store[t][i] = {}
  <2>1. store[t][i] # {} => i <= Highest(store, t)
    BY <1>6 DEF Present
  <2> QED BY <2>1, <1>7, <1>8, StoreAssumption DEF Ids
<1> QED BY <1>7, <1>8

\* An operation of the log, and what the log keeps of it.
LEMMA LoggedShape ==
  ASSUME StoreTypeOK, NEW n \in 1 .. Len(log)
  PROVE  /\ SavesWhatLasts(Operation(n))
         /\ Durable(Operation(n)) \subseteq Tables
         /\ \A o : log' = Append(log, o) => Operation(n)' = Operation(n)
<1>1. log[n] \in UsedOperations /\ log \in Seq(UsedOperations)
  BY DEF StoreTypeOK
<1>2. SavesWhatLasts(Operation(n))
  BY <1>1, StoreAssumption, CatalogueIsSound DEF Operation
<1>3. Durable(Operation(n)) \subseteq Tables
  BY <1>2 DEF SavesWhatLasts, Durable
<1>4. ASSUME NEW o, log' = Append(log, o) PROVE log'[n] = log[n]
  BY <1>1, <1>4
<1>5. ASSUME NEW o, log' = Append(log, o) PROVE Operation(n)' = Operation(n)
  BY <1>4, <1>5 DEF Operation
<1> QED BY <1>2, <1>3, <1>5

\* A step takes out of the memory only what it names as overwritten.
MemoryLosesOnlyOverwritten ==
  /\ overwritten \subseteq overwritten'
  /\ \A t \in Tables, i \in Ids : \A m \in memory[t][i] :
       m \in memory'[t][i] \/ m \in overwritten'

LEMMA HeldStays ==
  ASSUME StoreInv, MemoryLosesOnlyOverwritten,
         NEW n \in Changes, n \notin overwritten', state[n] \in {"waiting", "saved"}
  PROVE  n \in 1 .. Len(log)
         /\ \A t \in Durable(Operation(n)) : \E i \in Ids : n \in memory'[t][i]
<1>1. n \in 1 .. Len(log)
  BY DEF StoreInv, LogIsComplete, StoreTypeOK, Changes
<1>2. \A t \in Durable(Operation(n)) : t \in Tables /\ \E i \in Ids : n \in memory[t][i]
  BY <1>1, LoggedShape DEF StoreInv, ChangesAreHeld, MemoryLosesOnlyOverwritten
<1> QED BY <1>1, <1>2 DEF MemoryLosesOnlyOverwritten

\* What a request of the catalogue does to the memory.
LEMMA ChangeEffect ==
  ASSUME StoreInv, NEW o \in UsedOperations, Change(o)
  PROVE  /\ memory' \in Store /\ sequences' \in [Tables -> Nat]
         /\ \A t \in Tables : sequences[t] <= sequences'[t]
         /\ MemoryLosesOnlyOverwritten /\ overwritten' \subseteq Marks
         /\ \A t \in Durable(Catalogue[o]) : \E i \in Ids : NextChange \in memory'[t][i]
         /\ \A t \in Tables, i \in Ids : memory[t][i] = {} /\ memory'[t][i] # {} =>
              i = sequences[t] + 1 /\ i = sequences'[t]
         /\ ~applied /\ loaded = {} => \A t \in Tables, i \in Ids : memory[t][i] \subseteq memory'[t][i]
<1> DEFINE op == Catalogue[o]
           n == NextChange
           touched == op.writes \cup op.unsaved
<1>1. /\ op.adds \subseteq Tables /\ touched \subseteq Tables /\ op.optional \in BOOLEAN
      /\ Durable(op) = op.writes \cup IF op.optional THEN {} ELSE op.adds
  BY StoreAssumption, CatalogueIsSound DEF SavesWhatLasts, Durable
<1>2. n \in Changes /\ n \in Marks
  BY StoreAssumption DEF Change, Performs, NextChange, StoreInv, StoreTypeOK, Changes, Marks
<1>3. PICK added \in {op.adds} \cup (IF op.optional THEN {{}} ELSE {}) :
        /\ HasIds(added)
        /\ \E row \in [touched -> Ids] :
             /\ \A t \in touched : row[t] \in Present(memory, t)
             /\ memory' = [t \in Tables |-> [i \in Ids |->
                  (IF t \in added /\ i = sequences[t] + 1 THEN {n} ELSE memory[t][i])
                    \cup IF t \in touched /\ i = row[t] THEN {n} ELSE {}]]
        /\ sequences' = Sequenced(added)
        /\ overwritten' = overwritten \cup Replaced(added)
  BY DEF Change
<1>4. PICK row \in [touched -> Ids] :
        /\ \A t \in touched : row[t] \in Present(memory, t)
        /\ memory' = [t \in Tables |-> [i \in Ids |->
             (IF t \in added /\ i = sequences[t] + 1 THEN {n} ELSE memory[t][i])
               \cup IF t \in touched /\ i = row[t] THEN {n} ELSE {}]]
  BY <1>3
<1>5. added \subseteq Tables /\ Durable(op) \subseteq touched \cup added
  BY <1>1
<1>6. /\ memory \in Store /\ sequences \in [Tables -> Nat] /\ overwritten \subseteq Marks
      /\ \A t \in added : sequences[t] + 1 \in Ids
  BY <1>3, <1>5, StoreAssumption DEF StoreInv, StoreTypeOK, HasIds, Ids
<1> HIDE DEF op, n, touched
<1>7. \A t \in Tables, i \in Ids :
        memory'[t][i] = (IF t \in added /\ i = sequences[t] + 1 THEN {n} ELSE memory[t][i])
                          \cup IF t \in touched /\ i = row[t] THEN {n} ELSE {}
  BY <1>4
<1>8. memory' \in Store
  <2>1. \A t \in Tables, i \in Ids : memory'[t][i] \subseteq Marks
    BY <1>2, <1>6, <1>7 DEF Store
  <2>2. memory' = [t \in Tables |-> [i \in Ids |-> memory'[t][i]]]
    BY <1>4
  <2> QED BY <2>1, <2>2 DEF Store
<1>9. /\ sequences' \in [Tables -> Nat]
      /\ \A t \in Tables : sequences'[t] = sequences[t] + IF t \in added THEN 1 ELSE 0
      /\ \A t \in Tables : sequences[t] <= sequences'[t]
  BY <1>3, <1>6 DEF Sequenced
<1>10. MemoryLosesOnlyOverwritten /\ overwritten' \subseteq Marks
  <2>1. \A t \in added : memory[t][sequences[t] + 1] \subseteq Replaced(added)
    BY DEF Replaced
  <2>2. Replaced(added) \subseteq Marks
    BY <1>5, <1>6 DEF Replaced, Store
  <2> QED BY <1>3, <1>6, <1>7, <2>1, <2>2 DEF MemoryLosesOnlyOverwritten
<1>11. \A t \in Durable(op) : \E i \in Ids : n \in memory'[t][i]
  <2> SUFFICES ASSUME NEW t \in Durable(op) PROVE \E i \in Ids : n \in memory'[t][i]
    OBVIOUS
  <2>1. t \in Tables
    BY <1>1, <1>5 DEF touched
  <2>2. CASE t \in touched
    BY <2>1, <2>2, <1>4, <1>7
  <2>3. CASE t \in added
    BY <2>1, <2>3, <1>6, <1>7
  <2> QED BY <2>2, <2>3, <1>5
<1>12. ASSUME NEW t \in Tables, NEW i \in Ids, memory[t][i] = {}, memory'[t][i] # {}
       PROVE  i = sequences[t] + 1 /\ i = sequences'[t]
  <2>1. ~ (t \in touched /\ i = row[t])
    BY <1>12, <1>4 DEF Present
  <2> QED BY <2>1, <1>12, <1>7, <1>9
<1>13. ASSUME ~applied, loaded = {}, NEW t \in Tables, NEW i \in Ids
       PROVE  memory[t][i] \subseteq memory'[t][i]
  <2>1. t \in added /\ i = sequences[t] + 1 => memory[t][i] = {}
    BY <1>5, <1>6, <1>13 DEF StoreInv, SequencesLead
  <2> QED BY <2>1, <1>7
<1> QED BY <1>8, <1>9, <1>10, <1>11, <1>12, <1>13 DEF op, n

LEMMA ChangeStep ==
  ASSUME StoreInv, NEW o \in UsedOperations, Change(o)
  PROVE  StoreInv'
<1> DEFINE n == NextChange
<1>1. /\ n = Len(log) + 1 /\ n \in Changes /\ Len(log) \in Nat
      /\ log' = Append(log, o) /\ log' \in Seq(UsedOperations) /\ Len(log') = n
      /\ log'[n] = o
  BY DEF Change, Performs, NextChange, StoreInv, StoreTypeOK, Changes
<1>2. /\ state' \in [Changes -> States] /\ state \in [Changes -> States]
      /\ state'[n] \in {"refused", "waiting"}
      /\ \A m \in Changes \ {n} : state'[m] = state[m]
      /\ state[n] = "none"
  BY <1>1 DEF Change, StoreInv, StoreTypeOK, States, LogIsComplete
<1>3. UNCHANGED <<tables, serial, reserved, loaded, applied, faults>>
  BY DEF Change
<1>4. StoreTypeOK'
  BY <1>1, <1>2, <1>3, ChangeEffect DEF StoreInv, StoreTypeOK, Changes
<1>5. LogIsComplete'
  BY <1>1, <1>2 DEF StoreInv, LogIsComplete, Changes
<1>6. ReservedAreTaken'
  <2>1. \A m \in Changes : state'[m] = "hashing" =>
          state[m] = "hashing" /\ m \in 1 .. Len(log) /\ log'[m] = log[m]
    BY <1>1, <1>2 DEF StoreInv, LogIsComplete, StoreTypeOK, Changes
  <2>2. sequences["users"] \in Nat /\ sequences'["users"] \in Nat
        /\ sequences["users"] <= sequences'["users"]
    BY ChangeEffect, CreationShape DEF StoreInv, StoreTypeOK
  <2> QED BY <2>1, <2>2, <1>3 DEF StoreInv, ReservedAreTaken
<1>7. \A m \in Changes : state'[m] = "saved" =>
        state[m] = "saved" /\ m \in 1 .. Len(log) /\ Operation(m)' = Operation(m)
  <2>1. \A m \in Changes : state'[m] = "saved" => state[m] = "saved" /\ m \in 1 .. Len(log)
    BY <1>1, <1>2 DEF StoreInv, LogIsComplete, StoreTypeOK, Changes
  <2> QED BY <2>1, <1>1, LoggedShape DEF StoreInv
<1>8. AcknowledgedSurvives'
  <2>1. overwritten \subseteq overwritten'
    BY ChangeEffect DEF MemoryLosesOnlyOverwritten
  <2> QED BY <2>1, <1>3, <1>7 DEF StoreInv, AcknowledgedSurvives
<1>9. ChangesAreHeld'
  <2> SUFFICES ASSUME NEW m \in Changes, m \notin overwritten', state'[m] \in {"waiting", "saved"}
               PROVE  \A t \in Durable(Operation(m)') : \E i \in Ids : m \in memory'[t][i]
    BY DEF ChangesAreHeld
  <2>1. CASE m = n
    BY <2>1, <1>1, ChangeEffect DEF Operation
  <2>2. CASE m # n
    <3>1. state[m] \in {"waiting", "saved"}
      BY <2>2, <1>2
    <3>2. m \in 1 .. Len(log) /\ \A t \in Durable(Operation(m)) : \E i \in Ids : m \in memory'[t][i]
      BY <3>1, ChangeEffect, HeldStays
    <3>3. Operation(m)' = Operation(m)
      BY <3>2, <1>1, LoggedShape DEF StoreInv
    <3> QED BY <3>2, <3>3
  <2> QED BY <2>1, <2>2
<1>10. SequencesLead'
  <2> SUFFICES ASSUME ~applied, loaded = {}
               PROVE  /\ \A t \in Tables, i \in Ids : i > sequences'[t] => memory'[t][i] = {}
                      /\ \A m \in Changes : state'[m] = "hashing" => memory'["users"][reserved[m]] = {}
    BY <1>3 DEF SequencesLead
  <2>1. /\ \A t \in Tables, i \in Ids : i > sequences[t] => memory[t][i] = {}
        /\ \A m \in Changes : state[m] = "hashing" => memory["users"][reserved[m]] = {}
    BY DEF StoreInv, SequencesLead
  <2>2. \A t \in Tables, i \in Ids : i > sequences'[t] => memory'[t][i] = {}
    <3> SUFFICES ASSUME NEW t \in Tables, NEW i \in Ids, i > sequences'[t] PROVE memory'[t][i] = {}
      OBVIOUS
    <3>1. sequences[t] \in Nat /\ sequences'[t] \in Nat /\ sequences[t] <= sequences'[t]
      BY ChangeEffect DEF StoreInv, StoreTypeOK
    <3>2. memory[t][i] = {}
      BY <3>1, <2>1 DEF Ids
    <3> QED BY <3>1, <3>2, ChangeEffect
  <2>3. ASSUME NEW m \in Changes, state'[m] = "hashing" PROVE memory'["users"][reserved[m]] = {}
    <3>1. state[m] = "hashing" /\ reserved[m] \in 1 .. sequences["users"] /\ reserved[m] \in Ids
      BY <2>3, <1>2, StoreAssumption DEF StoreInv, ReservedAreTaken, StoreTypeOK, Ids
    <3>2. sequences["users"] \in Nat
      BY CreationShape DEF StoreInv, StoreTypeOK
    <3> QED BY <3>1, <3>2, <2>1, ChangeEffect, CreationShape
  <2> QED BY <2>2, <2>3
<1> QED BY <1>4, <1>5, <1>6, <1>8, <1>9, <1>10 DEF StoreInv

LEMMA CheckNewUserStep ==
  ASSUME StoreInv, CheckNewUser
  PROVE  StoreInv'
<1> DEFINE n == NextChange
<1>1. /\ n = Len(log) + 1 /\ n \in Changes /\ Len(log) \in Nat
      /\ "createUser" \in UsedOperations
      /\ log' = Append(log, "createUser") /\ log' \in Seq(UsedOperations) /\ Len(log') = n
      /\ log'[n] = "createUser"
  BY DEF CheckNewUser, Performs, NextChange, StoreInv, StoreTypeOK, Changes
<1>2. /\ state' \in [Changes -> States] /\ state \in [Changes -> States]
      /\ state'[n] = "hashing"
      /\ \A m \in Changes \ {n} : state'[m] = state[m]
      /\ state[n] = "none"
  BY <1>1 DEF CheckNewUser, StoreInv, StoreTypeOK, States, LogIsComplete
<1>3. UNCHANGED <<memory, tables, serial, loaded, applied, overwritten, faults>>
  BY DEF CheckNewUser
<1>4. /\ sequences \in [Tables -> Nat] /\ sequences' \in [Tables -> Nat]
      /\ sequences'["users"] = sequences["users"] + 1 /\ sequences["users"] + 1 \in Ids
      /\ \A t \in Tables : sequences[t] <= sequences'[t]
  <2>1. sequences' = Sequenced({"users"}) /\ sequences["users"] < MaxIds
    BY DEF CheckNewUser, HasIds
  <2>2. sequences \in [Tables -> Nat] /\ "users" \in Tables
    BY CreationShape DEF StoreInv, StoreTypeOK
  <2>3. \A t \in Tables : sequences'[t] = sequences[t] + IF t = "users" THEN 1 ELSE 0
    BY <2>1, <2>2 DEF Sequenced
  <2>4. sequences' \in [Tables -> Nat]
    BY <2>1, <2>2 DEF Sequenced
  <2> QED BY <2>1, <2>2, <2>3, <2>4, StoreAssumption DEF Ids
<1>5. /\ reserved \in [Changes -> 0 .. MaxIds] /\ reserved' \in [Changes -> 0 .. MaxIds]
      /\ reserved'[n] = sequences["users"] + 1
      /\ \A m \in Changes \ {n} : reserved'[m] = reserved[m]
  BY <1>1, <1>4, StoreAssumption DEF CheckNewUser, StoreInv, StoreTypeOK, Ids
<1>6. StoreTypeOK'
  BY <1>1, <1>2, <1>3, <1>4, <1>5 DEF StoreInv, StoreTypeOK, Changes
<1>7. LogIsComplete'
  BY <1>1, <1>2 DEF StoreInv, LogIsComplete, Changes
<1>8. \A m \in Changes : state'[m] = "hashing" /\ m # n =>
        /\ state[m] = "hashing" /\ reserved[m] \in 1 .. sequences["users"]
        /\ m \in 1 .. Len(log) /\ log[m] = "createUser" /\ log'[m] = log[m]
        /\ reserved'[m] = reserved[m] /\ reserved'[m] < reserved'[n]
  BY <1>1, <1>2, <1>4, <1>5, CreationShape
     DEF StoreInv, LogIsComplete, StoreTypeOK, Changes, ReservedAreTaken
<1>9. ReservedAreTaken'
  <2>1. ASSUME NEW m \in Changes, state'[m] = "hashing"
        PROVE  log'[m] = "createUser" /\ reserved'[m] \in 1 .. sequences'["users"]
    <3>1. CASE m = n
      BY <3>1, <1>1, <1>4, <1>5, CreationShape
    <3>2. CASE m # n
      BY <2>1, <3>2, <1>4, <1>8, CreationShape
    <3> QED BY <3>1, <3>2
  <2>2. ASSUME NEW m \in Changes, NEW k \in Changes, state'[m] = "hashing", state'[k] = "hashing",
               reserved'[m] = reserved'[k]
        PROVE  m = k
    <3>1. reserved'[m] \in 1 .. sequences'["users"] /\ reserved'[k] \in 1 .. sequences'["users"]
      BY <2>1, <2>2
    <3>2. m = n <=> k = n
      BY <2>2, <3>1, <1>8
    <3>3. CASE m # n /\ k # n
      BY <2>2, <3>3, <1>8 DEF StoreInv, ReservedAreTaken
    <3> QED BY <3>2, <3>3
  <2> QED BY <2>1, <2>2 DEF ReservedAreTaken
<1>10. \A m \in Changes : state'[m] \in {"waiting", "saved"} =>
         state[m] = state'[m] /\ m \in 1 .. Len(log) /\ Operation(m)' = Operation(m)
  <2>1. \A m \in Changes : state'[m] \in {"waiting", "saved"} =>
          state[m] = state'[m] /\ m \in 1 .. Len(log)
    BY <1>1, <1>2 DEF StoreInv, LogIsComplete, StoreTypeOK, Changes
  <2> QED BY <2>1, <1>1, LoggedShape DEF StoreInv
<1>11. AcknowledgedSurvives' /\ ChangesAreHeld'
  BY <1>3, <1>10 DEF StoreInv, AcknowledgedSurvives, ChangesAreHeld
<1>12. SequencesLead'
  <2> SUFFICES ASSUME ~applied, loaded = {}
               PROVE  /\ \A t \in Tables, i \in Ids : i > sequences'[t] => memory[t][i] = {}
                      /\ \A m \in Changes : state'[m] = "hashing" => memory["users"][reserved'[m]] = {}
    BY <1>3 DEF SequencesLead
  <2>1. /\ \A t \in Tables, i \in Ids : i > sequences[t] => memory[t][i] = {}
        /\ \A m \in Changes : state[m] = "hashing" => memory["users"][reserved[m]] = {}
    BY DEF StoreInv, SequencesLead
  <2>2. \A t \in Tables, i \in Ids : i > sequences'[t] => i > sequences[t]
    BY <1>4 DEF Ids
  <2>3. memory["users"][reserved'[n]] = {}
    BY <2>1, <1>4, <1>5, CreationShape DEF Ids
  <2> QED BY <2>1, <2>2, <2>3, <1>8
<1> QED BY <1>6, <1>7, <1>9, <1>11, <1>12 DEF StoreInv

\* A creation whose hash is computed: its user and its binding are in the memory.
LEMMA InsertEffectOnMemory ==
  ASSUME StoreInv, NEW n \in Changes, InsertUser(n)
  PROVE  /\ memory' \in Store /\ sequences' \in [Tables -> Nat]
         /\ sequences'["users"] = sequences["users"]
         /\ \A t \in Tables : sequences[t] <= sequences'[t]
         /\ MemoryLosesOnlyOverwritten /\ overwritten' \subseteq Marks
         /\ \A t \in Durable(Catalogue["createUser"]) : \E i \in Ids : n \in memory'[t][i]
         /\ \A t \in Tables, i \in Ids : memory[t][i] = {} /\ memory'[t][i] # {} =>
              \/ t = "users" /\ i = reserved[n]
              \/ t = "userOrganizationRoles" /\ i = sequences[t] + 1 /\ i = sequences'[t]
         /\ ~applied /\ loaded = {} => \A t \in Tables, i \in Ids : memory[t][i] \subseteq memory'[t][i]
         /\ log[n] = "createUser" /\ n \in 1 .. Len(log)
         /\ reserved[n] \in Ids /\ reserved[n] \in 1 .. sequences["users"]
<1> DEFINE binding == "userOrganizationRoles"
           id == sequences[binding] + 1
<1>1. /\ memory' = [memory EXCEPT !["users"][reserved[n]] = {n}, ![binding] = Added(binding, n)]
      /\ sequences' = Sequenced({binding}) /\ HasIds({binding})
      /\ overwritten' = overwritten \cup memory["users"][reserved[n]] \cup Replaced({binding})
      /\ state[n] = "hashing"
  BY DEF InsertUser
<1>2. /\ log[n] = "createUser" /\ n \in 1 .. Len(log)
      /\ reserved[n] \in Ids /\ reserved[n] \in 1 .. sequences["users"]
  BY <1>1, StoreAssumption
     DEF StoreInv, ReservedAreTaken, LogIsComplete, StoreTypeOK, Changes, Ids
<1>3. /\ memory \in Store /\ sequences \in [Tables -> Nat] /\ overwritten \subseteq Marks
      /\ "users" \in Tables /\ binding \in Tables /\ binding # "users" /\ id \in Ids
      /\ n \in Marks
  <2>1. /\ memory \in Store /\ sequences \in [Tables -> Nat] /\ overwritten \subseteq Marks
        /\ "users" \in Tables /\ binding \in Tables /\ binding # "users"
    BY CreationShape DEF StoreInv, StoreTypeOK
  <2>2. sequences[binding] < MaxIds /\ sequences[binding] \in Nat
    BY <1>1, <2>1 DEF HasIds
  <2>3. n \in Marks
    BY StoreAssumption DEF Changes, Marks
  <2> QED BY <2>1, <2>2, <2>3, StoreAssumption DEF Ids
<1>4. /\ memory' = [t \in Tables |->
           IF t = "users" THEN [memory[t] EXCEPT ![reserved[n]] = {n}]
           ELSE IF t = binding THEN [memory[t] EXCEPT ![id] = {n}] ELSE memory[t]]
  BY <1>1, <1>3 DEF Added, Store
<1>5. \A t \in Tables, i \in Ids :
        memory'[t][i] = 
          IF (t = "users" /\ i = reserved[n]) \/ (t = binding /\ i = id) THEN {n}
          ELSE memory[t][i]
  BY <1>2, <1>3, <1>4 DEF Store
<1>6. memory' \in Store
  <2>1. \A t \in Tables : memory'[t] \in [Ids -> SUBSET Marks]
    BY <1>2, <1>3, <1>4 DEF Store
  <2> QED BY <1>4, <2>1 DEF Store
<1>7. /\ sequences' \in [Tables -> Nat] /\ sequences'["users"] = sequences["users"]
      /\ sequences'[binding] = id
      /\ \A t \in Tables : sequences[t] <= sequences'[t]
  BY <1>1, <1>3 DEF Sequenced
<1>8. Replaced({binding}) = memory[binding][id]
  BY DEF Replaced
<1>9. MemoryLosesOnlyOverwritten /\ overwritten' \subseteq Marks
  <2>1. \A t \in Tables, i \in Ids : memory[t][i] \subseteq Marks
    BY <1>3 DEF Store
  <2>2. overwritten' = overwritten \cup memory["users"][reserved[n]] \cup memory[binding][id]
    BY <1>1, <1>8
  <2>3. overwritten' \subseteq Marks
    BY <1>2, <1>3, <2>1, <2>2
  <2>4. ASSUME NEW t \in Tables, NEW i \in Ids, NEW m \in memory[t][i]
        PROVE  m \in memory'[t][i] \/ m \in overwritten'
    BY <1>5, <2>2
  <2> QED BY <2>2, <2>3, <2>4 DEF MemoryLosesOnlyOverwritten
<1>10. \A t \in Durable(Catalogue["createUser"]) : \E i \in Ids : n \in memory'[t][i]
  BY <1>2, <1>3, <1>5, CreationShape
<1>11. ASSUME ~applied, loaded = {}, NEW t \in Tables, NEW i \in Ids
       PROVE  memory[t][i] \subseteq memory'[t][i]
  <2>1. memory["users"][reserved[n]] = {}
    BY <1>1, <1>11 DEF StoreInv, SequencesLead
  <2>2. memory[binding][id] = {}
    BY <1>3, <1>11 DEF StoreInv, SequencesLead
  <2> QED BY <1>5, <2>1, <2>2
<1>12. \A t \in Tables, i \in Ids : memory[t][i] = {} /\ memory'[t][i] # {} =>
              \/ t = "users" /\ i = reserved[n]
              \/ t = binding /\ i = sequences[t] + 1 /\ i = sequences'[t]
  BY <1>5, <1>7
<1> QED BY <1>2, <1>6, <1>7, <1>9, <1>10, <1>11, <1>12

LEMMA InsertUserStep ==
  ASSUME StoreInv, NEW n \in Changes, InsertUser(n)
  PROVE  StoreInv'
<1>1. UNCHANGED <<tables, serial, log, reserved, loaded, applied, faults>>
  BY DEF InsertUser
<1>2. /\ state' \in [Changes -> States] /\ state'[n] = "waiting" /\ state[n] = "hashing"
      /\ \A m \in Changes \ {n} : state'[m] = state[m]
  BY DEF InsertUser, StoreInv, StoreTypeOK, States
<1>3. StoreTypeOK'
  BY <1>1, <1>2, InsertEffectOnMemory DEF StoreInv, StoreTypeOK
<1>4. LogIsComplete'
  BY <1>1, <1>2 DEF StoreInv, LogIsComplete
<1>5. ReservedAreTaken'
  BY <1>1, <1>2, InsertEffectOnMemory DEF StoreInv, ReservedAreTaken
<1>6. \A m \in Changes : Operation(m)' = Operation(m)
  BY <1>1 DEF Operation
<1>7. AcknowledgedSurvives'
  BY <1>1, <1>2, <1>6, InsertEffectOnMemory
     DEF StoreInv, AcknowledgedSurvives, MemoryLosesOnlyOverwritten
<1>8. ChangesAreHeld'
  <2> SUFFICES ASSUME NEW m \in Changes, m \notin overwritten', state'[m] \in {"waiting", "saved"}
               PROVE  \A t \in Durable(Operation(m)) : \E i \in Ids : m \in memory'[t][i]
    BY <1>6 DEF ChangesAreHeld
  <2>1. CASE m = n
    BY <2>1, InsertEffectOnMemory DEF Operation
  <2>2. CASE m # n
    BY <2>2, <1>2, InsertEffectOnMemory, HeldStays
  <2> QED BY <2>1, <2>2
<1>9. SequencesLead'
  <2> SUFFICES ASSUME ~applied, loaded = {}
               PROVE  /\ \A t \in Tables, i \in Ids : i > sequences'[t] => memory'[t][i] = {}
                      /\ \A m \in Changes : state'[m] = "hashing" => memory'["users"][reserved[m]] = {}
    BY <1>1 DEF SequencesLead
  <2>1. /\ \A t \in Tables, i \in Ids : i > sequences[t] => memory[t][i] = {}
        /\ \A m \in Changes : state[m] = "hashing" => memory["users"][reserved[m]] = {}
    BY DEF StoreInv, SequencesLead
  <2>2. ASSUME NEW t \in Tables, NEW i \in Ids, i > sequences'[t] PROVE memory'[t][i] = {}
    <3>1. sequences[t] \in Nat /\ sequences'[t] \in Nat /\ sequences[t] <= sequences'[t]
      BY InsertEffectOnMemory DEF StoreInv, StoreTypeOK
    <3>2. memory[t][i] = {}
      BY <2>2, <3>1, <2>1 DEF Ids
    <3>3. ~ (t = "users" /\ i = reserved[n])
      BY <2>2, <3>1, InsertEffectOnMemory
    <3>4. i # sequences'[t]
      BY <2>2, <3>1
    <3> QED BY <3>2, <3>3, <3>4, InsertEffectOnMemory
  <2>3. ASSUME NEW m \in Changes, state'[m] = "hashing" PROVE memory'["users"][reserved[m]] = {}
    <3>1. m # n /\ state[m] = "hashing" /\ reserved[m] # reserved[n] /\ reserved[m] \in Ids
      BY <2>3, <1>2, StoreAssumption DEF StoreInv, ReservedAreTaken, StoreTypeOK, Ids
    <3>2. memory["users"][reserved[m]] = {} /\ "users" \in Tables
      BY <3>1, <2>1, CreationShape
    <3>3. "users" # "userOrganizationRoles"
      OBVIOUS
    <3> QED BY <3>1, <3>2, <3>3, InsertEffectOnMemory
  <2> QED BY <2>2, <2>3
<1> QED BY <1>3, <1>4, <1>5, <1>7, <1>8, <1>9 DEF StoreInv

LEMMA FaultsAreBounded ==
  ASSUME StoreTypeOK
  PROVE  LET Bounded(f) == f \in [applies : 0 .. MaxMetadataApplies, saves : 0 .. MaxSaveFailures,
                                  restarts : 0 .. MaxRestarts]
         IN  /\ faults.applies < MaxMetadataApplies => Bounded([faults EXCEPT !.applies = @ + 1])
             /\ faults.saves < MaxSaveFailures => Bounded([faults EXCEPT !.saves = @ + 1])
             /\ faults.restarts < MaxRestarts =>
                  /\ Bounded([faults EXCEPT !.restarts = @ + 1])
                  /\ [faults EXCEPT !.restarts = @ + 1].restarts > faults.restarts
<1>1. PICK a \in 0 .. MaxMetadataApplies, s \in 0 .. MaxSaveFailures, r \in 0 .. MaxRestarts :
        faults = [applies |-> a, saves |-> s, restarts |-> r]
  BY DEF StoreTypeOK
<1>2. MaxMetadataApplies \in Nat /\ MaxSaveFailures \in Nat /\ MaxRestarts \in Nat
  BY StoreAssumption
<1> QED BY <1>1, <1>2

LEMMA SaveCommitsStep ==
  ASSUME StoreInv, NEW n \in Changes, SaveCommits(n)
  PROVE  StoreInv'
<1> DEFINE ts == SavedTables(Operation(n))
<1>1. /\ state[n] = "waiting"
      /\ tables' = [t \in Tables |-> IF t \in ts THEN memory[t] ELSE tables[t]]
      /\ UNCHANGED <<memory, sequences, log, reserved, loaded, applied, overwritten, faults>>
  BY DEF SaveCommits
<1>2. /\ state' \in [Changes -> States] /\ state'[n] = "saved"
      /\ \A m \in Changes \ {n} : state'[m] = state[m]
  BY DEF SaveCommits, StoreInv, StoreTypeOK, States
<1>3. tables' \in Store
  BY <1>1 DEF StoreInv, StoreTypeOK, Store
<1>4. serial' \in [Tables -> Nat]
  <2>1. \A t \in Tables : Highest(memory, t) \in Nat /\ serial[t] \in Nat
    BY HighestIs, StoreAssumption DEF StoreInv, StoreTypeOK
  <2>2. serial' = SerialAfter(ts)
    BY DEF SaveCommits
  <2> QED BY <2>1, <2>2 DEF SerialAfter
<1>5. StoreTypeOK'
  BY <1>1, <1>2, <1>3, <1>4 DEF StoreInv, StoreTypeOK
<1>6. LogIsComplete' /\ ReservedAreTaken' /\ SequencesLead'
  BY <1>1, <1>2 DEF StoreInv, LogIsComplete, ReservedAreTaken, SequencesLead
<1>7. \A m \in Changes : Operation(m)' = Operation(m)
  BY <1>1 DEF Operation
<1>8. MemoryLosesOnlyOverwritten
  BY <1>1 DEF MemoryLosesOnlyOverwritten
<1>9. ASSUME NEW m \in Changes, m \notin overwritten', state'[m] \in {"waiting", "saved"}
      PROVE  /\ m \in 1 .. Len(log)
             /\ \A t \in Durable(Operation(m)) : \E i \in Ids : m \in memory[t][i]
  <2>1. state[m] \in {"waiting", "saved"}
    BY <1>1, <1>2, <1>9
  <2> QED BY <2>1, <1>1, <1>8, <1>9, HeldStays
<1>10. ChangesAreHeld'
  BY <1>1, <1>7, <1>9 DEF ChangesAreHeld
<1>11. AcknowledgedSurvives'
  <2> SUFFICES ASSUME NEW m \in Changes, m \notin overwritten', state'[m] = "saved",
                      NEW t \in Durable(Operation(m))
               PROVE  \E i \in Ids : m \in tables'[t][i]
    BY <1>7 DEF AcknowledgedSurvives
  <2>1. t \in Tables /\ Durable(Operation(m)) \subseteq SavedTables(Operation(m))
    BY <1>9, LoggedShape DEF StoreInv, SavesWhatLasts
  <2>2. CASE t \in ts
    BY <2>1, <2>2, <1>1, <1>9
  <2>3. CASE t \notin ts
    <3>1. m # n
      BY <2>1, <2>3
    <3>2. \E i \in Ids : m \in tables[t][i]
      BY <3>1, <1>1, <1>2 DEF StoreInv, AcknowledgedSurvives
    <3> QED BY <3>2, <2>1, <2>3, <1>1
  <2> QED BY <2>2, <2>3
<1> QED BY <1>5, <1>6, <1>10, <1>11 DEF StoreInv

LEMMA SaveFailsStep ==
  ASSUME StoreInv, NEW n \in Changes, SaveFails(n)
  PROVE  StoreInv'
<1>1. /\ UNCHANGED <<memory, sequences, tables, serial, log, reserved, loaded, applied,
                     overwritten>>
      /\ state[n] = "waiting"
  BY DEF SaveFails
<1>2. /\ state' \in [Changes -> States] /\ state'[n] = "failed"
      /\ \A m \in Changes \ {n} : state'[m] = state[m]
  BY DEF SaveFails, StoreInv, StoreTypeOK, States
<1>3. faults' \in [applies : 0 .. MaxMetadataApplies, saves : 0 .. MaxSaveFailures,
                   restarts : 0 .. MaxRestarts]
  BY FaultsAreBounded DEF SaveFails, StoreInv, StoreTypeOK
<1>4. StoreTypeOK'
  BY <1>1, <1>2, <1>3 DEF StoreInv, StoreTypeOK
<1>5. LogIsComplete' /\ ReservedAreTaken' /\ SequencesLead'
  BY <1>1, <1>2 DEF StoreInv, LogIsComplete, ReservedAreTaken, SequencesLead
<1>6. \A m \in Changes : Operation(m)' = Operation(m)
  BY <1>1 DEF Operation
<1>7. AcknowledgedSurvives' /\ ChangesAreHeld'
  BY <1>1, <1>2, <1>6 DEF StoreInv, AcknowledgedSurvives, ChangesAreHeld
<1> QED BY <1>4, <1>5, <1>7 DEF StoreInv

\* A synchronization takes from the tables only what it names as overwritten.
LEMMA ApplyEffect ==
  ASSUME StoreInv, Apply
  PROVE  /\ tables' \in Store /\ \A found \in loaded' : found \in Store
         /\ overwritten \subseteq overwritten' /\ overwritten' \subseteq Marks
         /\ \A t \in Tables, i \in Ids : \A m \in tables[t][i] :
              m \in tables'[t][i] \/ m \in overwritten' \/ m = ByInstall
<1>1. /\ tables \in Store /\ overwritten \subseteq Marks /\ ModuleTables \subseteq Tables
      /\ ByInstall \in Marks /\ ByModule \in Marks /\ 1 \in Ids
  <2>1. tables \in Store /\ overwritten \subseteq Marks
    BY DEF StoreInv, StoreTypeOK
  <2>2. ModuleTables \subseteq Tables
    BY AllTables DEF ModuleTables
  <2>3. ByInstall \in Marks /\ ByModule \in Marks /\ 1 \in Ids
    BY StoreAssumption DEF ByInstall, ByModule, Marks, Ids
  <2> QED BY <2>1, <2>2, <2>3
<1>2. CASE \E t \in ModuleTables : tables[t][ModuleId(t)] # {}
  <2>1. UNCHANGED <<tables, loaded, overwritten>>
    BY <1>2 DEF Apply
  <2> QED BY <2>1, <1>1 DEF StoreInv, StoreTypeOK
<1>3. CASE ~ \E t \in ModuleTables : tables[t][ModuleId(t)] # {}
  <2>1. /\ tables' = [t \in Tables |->
             IF t \in ModuleTables
               THEN [tables[t] EXCEPT ![1] = {ByInstall}, ![ModuleId(t)] = {ByModule}]
               ELSE tables[t]]
        /\ overwritten' = overwritten
             \cup ((UNION {tables[t][1] : t \in ModuleTables}) \ {ByInstall})
        /\ loaded' = {tables'}
    BY <1>3 DEF Apply
  <2>2. \A t \in Tables : tables[t] \in [Ids -> SUBSET Marks]
    BY <1>1 DEF Store
  <2>3. \A t \in Tables : tables'[t] \in [Ids -> SUBSET Marks]
    BY <1>1, <2>1, <2>2
  <2>4. tables' \in Store
    BY <2>1, <2>3 DEF Store
  <2>5. overwritten' \subseteq Marks
    BY <1>1, <2>1, <2>2
  <2>6. ASSUME NEW t \in Tables, NEW i \in Ids, NEW m \in tables[t][i]
        PROVE  m \in tables'[t][i] \/ m \in overwritten' \/ m = ByInstall
    <3>1. CASE t \notin ModuleTables
      BY <3>1, <2>1
    <3>2. CASE t \in ModuleTables /\ i = 1
      BY <3>2, <2>1
    <3>3. CASE t \in ModuleTables /\ i # 1
      <4>1. i # ModuleId(t)
        BY <3>3, <1>3
      <4>2. tables'[t][i] = tables[t][i]
        BY <3>3, <4>1, <2>1, <2>2
      <4> QED BY <4>2
    <3> QED BY <3>1, <3>2, <3>3
  <2> QED BY <2>1, <2>4, <2>5, <2>6
<1> QED BY <1>2, <1>3

LEMMA ApplyStep ==
  ASSUME StoreInv, Apply
  PROVE  StoreInv'
<1>1. /\ UNCHANGED <<memory, sequences, log, reserved, state, applied>> /\ loaded = {}
      /\ ApplyNumbers
      /\ faults.applies < MaxMetadataApplies /\ faults' = [faults EXCEPT !.applies = @ + 1]
  BY DEF Apply
<1>2. serial' \in [Tables -> Nat]
  BY <1>1 DEF ApplyNumbers, ModuleId, Taken, StoreInv, StoreTypeOK
<1>3. faults' \in [applies : 0 .. MaxMetadataApplies, saves : 0 .. MaxSaveFailures,
                   restarts : 0 .. MaxRestarts]
  BY <1>1, FaultsAreBounded DEF StoreInv, StoreTypeOK
<1>4. StoreTypeOK'
  BY <1>1, <1>2, <1>3, ApplyEffect DEF StoreInv, StoreTypeOK
<1>5. LogIsComplete' /\ ReservedAreTaken' /\ SequencesLead'
  BY <1>1 DEF StoreInv, LogIsComplete, ReservedAreTaken, SequencesLead
<1>6. \A m \in Changes : Operation(m)' = Operation(m)
  BY <1>1 DEF Operation
<1>7. ChangesAreHeld'
  BY <1>1, <1>6, ApplyEffect DEF StoreInv, ChangesAreHeld
<1>8. AcknowledgedSurvives'
  <2> SUFFICES ASSUME NEW m \in Changes, m \notin overwritten', state[m] = "saved",
                      NEW t \in Durable(Operation(m))
               PROVE  \E i \in Ids : m \in tables'[t][i]
    BY <1>1, <1>6 DEF AcknowledgedSurvives
  <2>1. m \in 1 .. Len(log)
    BY DEF StoreInv, LogIsComplete, StoreTypeOK, Changes
  <2>2. t \in Tables
    BY <2>1, LoggedShape DEF StoreInv
  <2>3. PICK i \in Ids : m \in tables[t][i]
    BY ApplyEffect DEF StoreInv, AcknowledgedSurvives
  <2>4. m # ByInstall
    BY DEF Changes, ByInstall
  <2> QED BY <2>2, <2>3, <2>4, ApplyEffect
<1> QED BY <1>4, <1>5, <1>7, <1>8 DEF StoreInv

LEMMA RefreshStep ==
  ASSUME StoreInv, Refresh
  PROVE  StoreInv'
<1>1. PICK found \in loaded :
        /\ memory' = [t \in Tables |-> IF t \in Reloaded THEN found[t] ELSE memory[t]]
        /\ overwritten' = overwritten \cup NotFound(found)
  BY DEF Refresh
<1>2. /\ UNCHANGED <<sequences, tables, serial, log, reserved, state, faults>>
      /\ applied' = TRUE /\ loaded' = {}
  BY DEF Refresh
<1>3. Reloaded \subseteq Tables
  BY AllTables DEF Reloaded, ModuleTables
<1>4. memory \in Store /\ found \in Store /\ overwritten \subseteq Marks
  BY DEF StoreInv, StoreTypeOK
<1>5. memory' \in Store
  BY <1>1, <1>4 DEF Store
<1>6. overwritten' \subseteq Marks
  BY <1>1, <1>4 DEF NotFound
<1>7. MemoryLosesOnlyOverwritten
  <2>1. ASSUME NEW t \in Reloaded, NEW i \in Ids, NEW m \in memory[t][i] \ found[t][i]
        PROVE  m \in overwritten'
    <3>1. m \in Marks
      BY <1>3, <1>4 DEF Store
    <3> QED BY <3>1, <1>1 DEF NotFound
  <2>2. \A t \in Tables, i \in Ids :
          memory'[t][i] = IF t \in Reloaded THEN found[t][i] ELSE memory[t][i]
    BY <1>1
  <2> QED BY <1>1, <2>1, <2>2 DEF MemoryLosesOnlyOverwritten
<1>8. StoreTypeOK'
  BY <1>2, <1>5, <1>6 DEF StoreInv, StoreTypeOK
<1>9. LogIsComplete' /\ ReservedAreTaken' /\ SequencesLead'
  BY <1>2 DEF StoreInv, LogIsComplete, ReservedAreTaken, SequencesLead
<1>10. \A m \in Changes : Operation(m)' = Operation(m)
  BY <1>2 DEF Operation
<1>11. AcknowledgedSurvives' /\ ChangesAreHeld'
  BY <1>2, <1>7, <1>10, HeldStays
     DEF StoreInv, AcknowledgedSurvives, ChangesAreHeld, MemoryLosesOnlyOverwritten
<1> QED BY <1>8, <1>9, <1>11 DEF StoreInv

LEMMA LoadSeesStep ==
  ASSUME StoreInv, LoadSees
  PROVE  StoreInv'
<1>1. /\ UNCHANGED <<memory, sequences, tables, serial, log, reserved, state, applied,
                     overwritten, faults>>
      /\ loaded' = {tables}
  BY DEF LoadSees
<1>2. StoreTypeOK'
  BY <1>1 DEF StoreInv, StoreTypeOK
<1>3. LogIsComplete' /\ ReservedAreTaken' /\ SequencesLead'
  BY <1>1 DEF StoreInv, LogIsComplete, ReservedAreTaken, SequencesLead
<1>4. \A m \in Changes : Operation(m)' = Operation(m)
  BY <1>1 DEF Operation
<1>5. AcknowledgedSurvives' /\ ChangesAreHeld'
  BY <1>1, <1>4 DEF StoreInv, AcknowledgedSurvives, ChangesAreHeld
<1> QED BY <1>2, <1>3, <1>5 DEF StoreInv

LEMMA RestartStep ==
  ASSUME StoreInv, Restart
  PROVE  StoreInv'
<1>1. /\ faults.restarts < MaxRestarts /\ faults' = [faults EXCEPT !.restarts = @ + 1]
      /\ memory' = tables
      /\ sequences' = [t \in Tables |-> Highest(tables, t)]
      /\ loaded' = {} /\ applied' = FALSE
      /\ UNCHANGED <<tables, serial, log, reserved, overwritten>>
  BY DEF Restart
<1>2. /\ state' \in [Changes -> States]
      /\ \A n \in Changes :
           state'[n] = IF state[n] \in {"none", "saved"} THEN state[n] ELSE "gone"
  BY DEF Restart, StoreInv, StoreTypeOK, States
<1>3. \A t \in Tables : Highest(tables, t) \in Nat
                        /\ \A i \in Ids : i > Highest(tables, t) => tables[t][i] = {}
  BY HighestIs, StoreAssumption DEF StoreInv, StoreTypeOK
<1>4. faults' \in [applies : 0 .. MaxMetadataApplies, saves : 0 .. MaxSaveFailures,
                   restarts : 0 .. MaxRestarts]
  BY <1>1, FaultsAreBounded DEF StoreInv
<1>5. StoreTypeOK'
  BY <1>1, <1>2, <1>3, <1>4 DEF StoreInv, StoreTypeOK
<1>6. \A n \in Changes : /\ state'[n] = "saved" => state[n] = "saved"
                         /\ state'[n] \notin {"hashing", "waiting"}
                         /\ state'[n] = "none" <=> state[n] = "none"
  BY <1>2
<1>7. LogIsComplete' /\ ReservedAreTaken'
  BY <1>1, <1>6 DEF StoreInv, LogIsComplete, ReservedAreTaken
<1>8. SequencesLead'
  BY <1>1, <1>3, <1>6 DEF SequencesLead
<1>9. \A m \in Changes : Operation(m)' = Operation(m)
  BY <1>1 DEF Operation
<1>10. AcknowledgedSurvives' /\ ChangesAreHeld'
  BY <1>1, <1>6, <1>9 DEF StoreInv, AcknowledgedSurvives, ChangesAreHeld
<1> QED BY <1>5, <1>7, <1>8, <1>10 DEF StoreInv

LEMMA StoreStarts == StoreInit => StoreInv
<1> SUFFICES ASSUME StoreInit PROVE StoreInv
  OBVIOUS
<1>1. Installed \in Store /\ \A t \in Tables, i \in Ids : i > 1 => Installed[t][i] = {}
  BY StoreAssumption DEF Installed, Store, Marks, ByInstall, Ids
<1>2. StoreTypeOK
  <2>1. /\ MaxMetadataApplies \in Nat /\ MaxSaveFailures \in Nat /\ MaxRestarts \in Nat
        /\ MaxChanges \in Nat /\ MaxIds \in Nat
    BY StoreAssumption
  <2>2. memory \in Store /\ tables \in Store
    BY <1>1 DEF StoreInit
  <2>3. /\ sequences \in [Tables -> Nat] /\ serial \in [Tables -> Nat]
        /\ log \in Seq(UsedOperations) /\ Len(log) <= MaxChanges
        /\ reserved \in [Changes -> 0 .. MaxIds] /\ state \in [Changes -> States]
    BY <2>1 DEF StoreInit, States
  <2>4. faults \in [applies : 0 .. MaxMetadataApplies, saves : 0 .. MaxSaveFailures,
                    restarts : 0 .. MaxRestarts]
    BY <2>1 DEF StoreInit
  <2>5. (\A found \in loaded : found \in Store) /\ applied \in BOOLEAN /\ overwritten \subseteq Marks
    BY DEF StoreInit
  <2> QED BY <2>2, <2>3, <2>4, <2>5 DEF StoreTypeOK
<1>3. LogIsComplete /\ ReservedAreTaken /\ AcknowledgedSurvives /\ ChangesAreHeld
  BY DEF StoreInit, LogIsComplete, ReservedAreTaken, AcknowledgedSurvives, ChangesAreHeld, Changes
<1>4. SequencesLead
  BY <1>1 DEF StoreInit, SequencesLead
<1> QED BY <1>2, <1>3, <1>4 DEF StoreInv

LEMMA StoreStep == StoreInv /\ [StoreNext]_storeVars => StoreInv'
<1> SUFFICES ASSUME StoreInv, [StoreNext]_storeVars PROVE StoreInv'
  OBVIOUS
<1>1. CASE UNCHANGED storeVars
  <2>1. UNCHANGED <<memory, sequences, tables, serial, log, reserved, state, loaded, applied,
                    overwritten, faults>>
    BY <1>1 DEF storeVars
  <2>2. StoreTypeOK' /\ LogIsComplete' /\ ReservedAreTaken' /\ SequencesLead'
    BY <2>1 DEF StoreInv, StoreTypeOK, LogIsComplete, ReservedAreTaken, SequencesLead
  <2>3. \A m \in Changes : Operation(m)' = Operation(m)
    BY <2>1 DEF Operation
  <2>4. AcknowledgedSurvives' /\ ChangesAreHeld'
    BY <2>1, <2>3 DEF StoreInv, AcknowledgedSurvives, ChangesAreHeld
  <2> QED BY <2>2, <2>4 DEF StoreInv
<1>2. ASSUME NEW o \in UsedOperations, Change(o) PROVE StoreInv'
  BY <1>2, ChangeStep
<1>3. CASE CheckNewUser
  BY <1>3, CheckNewUserStep
<1>4. ASSUME NEW n \in Changes, InsertUser(n) \/ SaveCommits(n) \/ SaveFails(n) PROVE StoreInv'
  BY <1>4, InsertUserStep, SaveCommitsStep, SaveFailsStep
<1>5. CASE Apply \/ LoadSees \/ Refresh
  BY <1>5, ApplyStep, LoadSeesStep, RefreshStep
<1>6. CASE Restart
  BY <1>6, RestartStep
<1> QED BY <1>1, <1>2, <1>3, <1>4, <1>5, <1>6 DEF StoreNext

\* Until modules are synchronized, a step that is no restart takes nothing out
\* of the memory.
LEMMA MemoryStep ==
  ASSUME StoreInv, [StoreNext]_storeVars, memory' # memory, ~applied, loaded = {}
  PROVE  faults'.restarts > faults.restarts \/ Held(memory) \subseteq Held(memory')
<1>1. ASSUME \A t \in Tables, i \in Ids : memory[t][i] \subseteq memory'[t][i]
      PROVE  Held(memory) \subseteq Held(memory')
  BY <1>1 DEF Held
<1>2. ASSUME NEW o \in UsedOperations, Change(o) PROVE Held(memory) \subseteq Held(memory')
  BY <1>1, <1>2, ChangeEffect
<1>3. ASSUME NEW n \in Changes, InsertUser(n) PROVE Held(memory) \subseteq Held(memory')
  BY <1>1, <1>3, InsertEffectOnMemory
<1>4. ASSUME Restart PROVE faults'.restarts > faults.restarts
  BY <1>4, FaultsAreBounded DEF Restart, StoreInv
<1>5. ~ Refresh
  BY DEF Refresh
<1>6. ~ (\/ UNCHANGED storeVars \/ CheckNewUser \/ Apply \/ LoadSees
         \/ \E n \in Changes : SaveCommits(n) \/ SaveFails(n))
  BY DEF storeVars, CheckNewUser, Apply, LoadSees, SaveCommits, SaveFails
<1> QED BY <1>2, <1>3, <1>4, <1>5, <1>6 DEF StoreNext

\* With two users of one name no user is saved until the process starts again.
LEMMA TwinsStep ==
  ASSUME StoreInv, [StoreNext]_storeVars,
         Cardinality(NameOwners(memory)) > 1, faults'.restarts = faults.restarts
  PROVE  /\ tables'["users"] = tables["users"]
         /\ \A n \in 1 .. Len(log) : "users" \in SavedTables(Operation(n)) =>
              (state'[n] = "saved" => state[n] = "saved")
<1> DEFINE Blocked == /\ tables'["users"] = tables["users"]
                      /\ \A n \in 1 .. Len(log) : "users" \in SavedTables(Operation(n)) =>
                           (state'[n] = "saved" => state[n] = "saved")
<1>1. /\ tables \in Store /\ state \in [Changes -> States] /\ "users" \in Tables
      /\ Len(log) \in Nat /\ Len(log) <= MaxChanges
      /\ 1 .. Len(log) \subseteq Changes
  BY CreationShape, StoreAssumption DEF StoreInv, StoreTypeOK, Changes
<1>2. CASE UNCHANGED storeVars
  BY <1>2 DEF storeVars
<1>3. ASSUME NEW o \in UsedOperations, Change(o) PROVE Blocked
  BY <1>1, <1>3 DEF Change
<1>4. CASE CheckNewUser
  BY <1>1, <1>4 DEF CheckNewUser
<1>5. ASSUME NEW m \in Changes, InsertUser(m) PROVE Blocked
  BY <1>1, <1>5 DEF InsertUser
<1>6. ASSUME NEW m \in Changes, SaveFails(m) PROVE Blocked
  BY <1>1, <1>6 DEF SaveFails
<1>7. ASSUME NEW m \in Changes, SaveCommits(m) PROVE Blocked
  <2>1. "users" \notin SavedTables(Operation(m))
    BY <1>7 DEF SaveCommits, Violates
  <2> QED BY <1>1, <1>7, <2>1 DEF SaveCommits
<1>8. CASE Apply
  <2>1. "users" \notin ModuleTables
    BY DEF ModuleTables
  <2> QED BY <1>1, <1>8, <2>1 DEF Apply
<1>9. CASE LoadSees \/ Refresh
  BY <1>9 DEF LoadSees, Refresh
<1>10. ~ Restart
  <2>1. faults.restarts \in Nat
    BY DEF StoreInv, StoreTypeOK
  <2> QED BY <2>1, FaultsAreBounded DEF Restart, StoreInv
<1> QED BY <1>2, <1>3, <1>4, <1>5, <1>6, <1>7, <1>8, <1>9, <1>10 DEF StoreNext

\* Whatever operations are performed, saved, refused and repeated, and however
\* modules are synchronized meanwhile: what the core tells is saved is in the
\* tables, what a request has made of the memory stays there, and two users of
\* one name block the saves of users.
THEOREM ChangesHold == StoreSpec => ChangesAreKept
<1>1. StoreInit => StoreInv
  BY StoreStarts
<1>2. StoreInv /\ [StoreNext]_storeVars => StoreInv'
  BY StoreStep
<1>3. StoreInv => StoreTypeOK /\ AcknowledgedSurvives
  BY DEF StoreInv
<1> DEFINE Kept == memory' # memory /\ ~applied /\ loaded = {}
                     => faults'.restarts > faults.restarts \/ Held(memory) \subseteq Held(memory')
           Twins == Cardinality(NameOwners(memory)) > 1 /\ faults'.restarts = faults.restarts
                      => /\ tables'.users = tables.users
                         /\ \A n \in 1 .. Len(log) : "users" \in SavedTables(Operation(n)) =>
                              (state'[n] = "saved" => state[n] = "saved")
<1>4. StoreInv /\ [StoreNext]_storeVars => [Kept]_storeVars
  BY MemoryStep
<1>5. StoreInv /\ [StoreNext]_storeVars => [Twins]_storeVars
  BY TwinsStep
<1>6. MemoryKeepsChanges <=> [][Kept]_storeVars
  BY DEF MemoryKeepsChanges
<1>7. TwinsBlockUsers <=> [][Twins]_storeVars
  BY DEF TwinsBlockUsers
<1> HIDE DEF Kept, Twins
<1> QED BY <1>1, <1>2, <1>3, <1>4, <1>5, <1>6, <1>7, PTL DEF StoreSpec, ChangesAreKept

-----------------------------------------------------------------------------
(* The catalogue of permissions and APIs: MetadataCatalog.                  *)

ApiList(r) == ApiManifests[r]
ListedCodes(r) == {ApiList(r)[n].code : n \in DOMAIN ApiList(r)}

\* The first n entries of the manifest are rows, and no other code is enabled.
HasListed(rows, r, n) ==
  /\ rows \in Seq(Row)
  /\ \A m \in 1 .. n : \E i \in DOMAIN rows : rows[i] = Listing(ApiList(r)[m])
  /\ \A i \in DOMAIN rows : rows[i].enabled => rows[i].code \in ListedCodes(r)

\* What a seed that could be saved leaves behind.
Settled(rows, r) == HasListed(rows, r, Len(ApiList(r))) /\ Unambiguous(rows)

\* The inductive invariant.
CatalogInv ==
  /\ CatalogTypeOK /\ LiveReferencesAreEnabled
  /\ Len(loadedCatalog.apis) <= Len(stored.apis)
  /\ seededBy = version => Settled(stored.apis, version)

LEMMA ManifestShape ==
  ASSUME NEW r \in Versions
  PROVE  /\ ApiList(r) \in Seq([code : ApiCodes, endpoint : Endpoints])
         /\ Len(ApiList(r)) \in Nat /\ DOMAIN ApiList(r) = 1 .. Len(ApiList(r))
         /\ \A m \in 1 .. Len(ApiList(r)) :
              /\ Listing(ApiList(r)[m]) \in Row /\ Listing(ApiList(r)[m]).enabled
              /\ Listing(ApiList(r)[m]).code = ApiList(r)[m].code
              /\ Listing(ApiList(r)[m]).endpoint = ApiList(r)[m].endpoint
              /\ ApiList(r)[m].code \in ListedCodes(r)
         /\ \A m, k \in 1 .. Len(ApiList(r)) : m # k =>
              /\ ApiList(r)[m].code # ApiList(r)[k].code
              /\ ApiList(r)[m].endpoint # ApiList(r)[k].endpoint
<1> DEFINE Endpointed == [code : ApiCodes, endpoint : Endpoints]
<1>1. ApiList(r) \in Seq(Endpointed)
  BY CatalogAssumption DEF Versions, ApiList
<1>2. \A m, k \in DOMAIN ApiList(r) : m # k =>
        /\ ApiList(r)[m].code # ApiList(r)[k].code
        /\ ApiList(r)[m].endpoint # ApiList(r)[k].endpoint
  BY CatalogAssumption DEF Versions, ApiList
<1> HIDE DEF Endpointed
<1>3. Len(ApiList(r)) \in Nat /\ DOMAIN ApiList(r) = 1 .. Len(ApiList(r))
      /\ \A m \in 1 .. Len(ApiList(r)) : ApiList(r)[m] \in Endpointed
  BY <1>1
<1>4. ASSUME NEW m \in 1 .. Len(ApiList(r))
      PROVE  /\ Listing(ApiList(r)[m]) \in Row /\ Listing(ApiList(r)[m]).enabled
             /\ Listing(ApiList(r)[m]).code = ApiList(r)[m].code
             /\ Listing(ApiList(r)[m]).endpoint = ApiList(r)[m].endpoint
             /\ ApiList(r)[m].code \in ListedCodes(r)
  BY <1>3, <1>4 DEF Listing, Row, Endpointed, ListedCodes
<1>5. ApiList(r) \in Seq([code : ApiCodes, endpoint : Endpoints])
  BY <1>1 DEF Endpointed
<1> QED BY <1>2, <1>3, <1>4, <1>5

LEMMA SomeIsOne ==
  ASSUME NEW ids, ids \subseteq Nat, ids # {}
  PROVE  Some(ids) \in ids
<1>1. \E i \in ids : \A j \in ids : i <= j
  BY LeastExists
<1> QED BY <1>1 DEF Some

\* Place changes one row, one of the ids or a new one.
PutsAt(rows, ids, row, next, k) ==
  /\ next \in Seq(Row) /\ Len(rows) <= Len(next)
  /\ DOMAIN rows \subseteq DOMAIN next /\ DOMAIN next \subseteq DOMAIN rows \cup {k}
  /\ k \in DOMAIN next /\ next[k] = row
  /\ \A i \in DOMAIN rows : i # k => next[i] = rows[i]
  /\ \/ k \in ids
     \/ ids = {} /\ next = Append(rows, row) /\ k = Len(rows) + 1

LEMMA PlaceEffect ==
  ASSUME NEW rows \in Seq(Row), NEW ids \in SUBSET DOMAIN rows, NEW row \in Row
  PROVE  \E k : PutsAt(rows, ids, row, Place(rows, ids, row), k)
<1>1. Len(rows) \in Nat /\ DOMAIN rows = 1 .. Len(rows) /\ ids \subseteq Nat
  OBVIOUS
<1>2. CASE ids = {}
  <2>1. Place(rows, ids, row) = Append(rows, row)
    BY <1>2 DEF Place
  <2>2. PutsAt(rows, ids, row, Append(rows, row), Len(rows) + 1)
    BY <1>1, <1>2 DEF PutsAt
  <2> QED BY <2>1, <2>2
<1>3. CASE ids # {}
  <2>1. Some(ids) \in ids /\ Some(ids) \in DOMAIN rows
    BY <1>1, <1>3, SomeIsOne
  <2> DEFINE one == Some(ids)
             next == [rows EXCEPT ![one] = row]
  <2>2. Place(rows, ids, row) = next
    BY <1>3 DEF Place
  <2> HIDE DEF one
  <2>3. one \in ids /\ one \in DOMAIN rows
    BY <2>1 DEF one
  <2>4. next \in Seq(Row) /\ Len(next) = Len(rows) /\ DOMAIN next = DOMAIN rows
    BY <2>3
  <2>5. next[one] = row /\ \A i \in DOMAIN rows : i # one => next[i] = rows[i]
    BY <2>3
  <2> HIDE DEF next
  <2>6. PutsAt(rows, ids, row, next, one)
    <3>1. Len(rows) <= Len(next)
      BY <1>1, <2>4
    <3>2. DOMAIN rows \subseteq DOMAIN next /\ DOMAIN next \subseteq DOMAIN rows \cup {one}
          /\ one \in DOMAIN next
      BY <2>3, <2>4
    <3> QED BY <2>3, <2>4, <2>5, <3>1, <3>2 DEF PutsAt
  <2> QED BY <2>2, <2>6
<1> QED BY <1>2, <1>3

\* An entry that is written to a row of its own code or endpoint, or to a new
\* one, leaves the rows of the entries before it alone.
LEMMA ListsOneMore ==
  ASSUME NEW r \in Versions, NEW n \in 1 .. Len(ApiList(r)), NEW rows, HasListed(rows, r, n - 1),
         NEW ids \in SUBSET DOMAIN rows,
         \A i \in ids : \/ rows[i].code = ApiList(r)[n].code
                        \/ rows[i].endpoint = ApiList(r)[n].endpoint
  PROVE  LET next == Place(rows, ids, Listing(ApiList(r)[n]))
         IN  HasListed(next, r, n) /\ Len(rows) <= Len(next)
<1> DEFINE row == Listing(ApiList(r)[n])
           next == Place(rows, ids, row)
<1>1. row \in Row /\ row.code \in ListedCodes(r)
  BY ManifestShape
<1>2. rows \in Seq(Row)
  BY DEF HasListed
<1>3. PICK k : PutsAt(rows, ids, row, next, k)
  BY <1>1, <1>2, PlaceEffect
<1>4. /\ next \in Seq(Row) /\ Len(rows) <= Len(next)
      /\ DOMAIN rows \subseteq DOMAIN next /\ DOMAIN next \subseteq DOMAIN rows \cup {k}
      /\ k \in DOMAIN next /\ next[k] = row
      /\ \A i \in DOMAIN rows : i # k => next[i] = rows[i]
      /\ k \in ids \/ k \notin DOMAIN rows
  BY <1>2, <1>3 DEF PutsAt
<1> HIDE DEF next
<1>5. ASSUME NEW m \in 1 .. n PROVE \E i \in DOMAIN next : next[i] = Listing(ApiList(r)[m])
  <2>1. CASE m = n
    BY <2>1, <1>4
  <2>2. CASE m # n
    <3>1. m \in 1 .. n - 1 /\ m \in 1 .. Len(ApiList(r)) /\ n \in 1 .. Len(ApiList(r))
      BY <2>2, ManifestShape
    <3>2. PICK i \in DOMAIN rows : rows[i] = Listing(ApiList(r)[m])
      BY <3>1 DEF HasListed
    <3>3. rows[i].code # ApiList(r)[n].code /\ rows[i].endpoint # ApiList(r)[n].endpoint
      BY <2>2, <3>1, <3>2, ManifestShape
    <3>4. i # k
      BY <3>2, <3>3, <1>4
    <3> QED BY <3>2, <3>4, <1>4
  <2> QED BY <2>1, <2>2
<1>6. ASSUME NEW i \in DOMAIN next, next[i].enabled PROVE next[i].code \in ListedCodes(r)
  <2>1. CASE i = k
    BY <2>1, <1>1, <1>4
  <2>2. CASE i # k
    BY <2>2, <1>4, <1>6 DEF HasListed
  <2> QED BY <2>1, <2>2
<1>7. HasListed(next, r, n)
  BY <1>4, <1>5, <1>6 DEF HasListed
<1> QED BY <1>4, <1>7 DEF next

LEMMA OutdatedEffect ==
  ASSUME NEW r \in Versions, NEW rows \in Seq(Row)
  PROVE  /\ HasListed(Outdated(rows, r), r, 0) /\ Len(Outdated(rows, r)) = Len(rows)
         /\ (\A i \in DOMAIN rows : rows[i].enabled => rows[i].code \in ListedCodes(r))
              => Outdated(rows, r) = rows
<1> DEFINE Off(i) == [rows[i] EXCEPT !.enabled = @ /\ rows[i].code \in ListedCodes(r)]
<1>1. Len(rows) \in Nat /\ DOMAIN rows = 1 .. Len(rows) /\ \A i \in DOMAIN rows : rows[i] \in Row
  OBVIOUS
<1>2. Outdated(rows, r) = [i \in 1 .. Len(rows) |-> Off(i)]
  BY <1>1 DEF Outdated, ListedCodes, ApiList
<1>3. ASSUME NEW i \in DOMAIN rows
      PROVE  /\ Off(i) \in Row /\ Off(i).code = rows[i].code
             /\ Off(i).enabled => rows[i].code \in ListedCodes(r)
             /\ (rows[i].enabled => rows[i].code \in ListedCodes(r)) => Off(i) = rows[i]
  <2>1. PICK c \in ApiCodes, e \in Endpoints, b \in BOOLEAN :
          rows[i] = [code |-> c, endpoint |-> e, enabled |-> b]
    BY <1>1, <1>3 DEF Row
  <2>2. Off(i) = [code |-> c, endpoint |-> e, enabled |-> b /\ c \in ListedCodes(r)]
    BY <2>1
  <2>3. (b /\ c \in ListedCodes(r)) \in BOOLEAN
    OBVIOUS
  <2> HIDE DEF Off
  <2>4. Off(i) \in Row
    BY <2>2, <2>3 DEF Row
  <2>5. Off(i).code = rows[i].code
    BY <2>1, <2>2
  <2>6. Off(i).enabled => rows[i].code \in ListedCodes(r)
    <3>1. Off(i).enabled = (b /\ c \in ListedCodes(r)) /\ rows[i].code = c
      BY <2>1, <2>2
    <3> QED BY <3>1
  <2>7. ASSUME rows[i].enabled => rows[i].code \in ListedCodes(r) PROVE Off(i) = rows[i]
    <3>1. b => c \in ListedCodes(r)
      BY <2>1, <2>7
    <3>2. (b /\ c \in ListedCodes(r)) = b
      BY <3>1
    <3> QED BY <2>1, <2>2, <3>2
  <2> QED BY <2>4, <2>5, <2>6, <2>7
<1> HIDE DEF Off
<1>4. Outdated(rows, r) \in Seq(Row) /\ Len(Outdated(rows, r)) = Len(rows)
      /\ DOMAIN Outdated(rows, r) = DOMAIN rows
      /\ \A i \in DOMAIN rows : Outdated(rows, r)[i] = Off(i)
  BY <1>1, <1>2, <1>3
<1>5. HasListed(Outdated(rows, r), r, 0)
  BY <1>3, <1>4 DEF HasListed
<1>6. ASSUME \A i \in DOMAIN rows : rows[i].enabled => rows[i].code \in ListedCodes(r)
      PROVE  Outdated(rows, r) = rows
  <2>1. \A i \in 1 .. Len(rows) : Off(i) = rows[i]
    BY <1>1, <1>3, <1>6
  <2>2. rows = [i \in 1 .. Len(rows) |-> rows[i]]
    BY <1>1
  <2> QED BY <1>2, <2>1, <2>2
<1> QED BY <1>4, <1>5, <1>6

\* A seed lists what the release's manifest lists, and enables nothing else.
LEMMA SeedLists ==
  ASSUME NEW r \in Versions, NEW rows \in Seq(Row)
  PROVE  /\ HasListed(SeededApis(rows, r), r, Len(ApiList(r)))
         /\ Len(rows) <= Len(SeededApis(rows, r))
         /\ rows = <<>> => Unambiguous(SeededApis(rows, r))
<1> DEFINE size == Len(ApiList(r))
           Next(before, n) == Place(before, Existing(before, ApiList(r)[n]), Listing(ApiList(r)[n]))
           Loops(f, k) == f = [n \in 0 .. k |-> IF n = 0 THEN Outdated(rows, r) ELSE Next(f[n - 1], n)]
           Loop == CHOOSE f : Loops(f, size)
<1>1. SeededApis(rows, r) = Loop[size]
  BY DEF SeededApis, ApiList
<1>2. size \in Nat
  BY ManifestShape
<1> HIDE DEF Next, size
<1>3. \E f : Loops(f, size)
  <2> DEFINE Endless == {k \in Nat : ~ \E f : Loops(f, k)}
  <2>1. CASE Endless = {}
    BY <1>2, <2>1
  <2>2. CASE Endless # {}
    <3>1. PICK k \in Endless : \A l \in Endless : k <= l
      <4>1. Endless \subseteq Nat
        OBVIOUS
      <4> HIDE DEF Endless
      <4> QED BY <2>2, <4>1, LeastExists
    <3>2. Loops([n \in 0 .. 0 |-> Outdated(rows, r)], 0)
      OBVIOUS
    <3>3. k # 0 /\ k \in Nat
      BY <3>1, <3>2
    <3>4. k - 1 \in Nat /\ k - 1 \notin Endless
      <4> HIDE DEF Endless
      <4> QED BY <3>1, <3>3
    <3>5. PICK f : Loops(f, k - 1)
      BY <3>4
    <3> DEFINE g == [n \in 0 .. k |-> IF n = k THEN Next(f[k - 1], k) ELSE f[n]]
    <3>6. \A n \in 0 .. k - 1 : f[n] = IF n = 0 THEN Outdated(rows, r) ELSE Next(f[n - 1], n)
      BY <3>5
    <3>7. \A n \in 0 .. k : g[n] = IF n = 0 THEN Outdated(rows, r) ELSE Next(g[n - 1], n)
      <4> SUFFICES ASSUME NEW n \in 0 .. k
                   PROVE  g[n] = IF n = 0 THEN Outdated(rows, r) ELSE Next(g[n - 1], n)
        OBVIOUS
      <4>1. CASE n = k
        <5>1. g[n] = Next(f[k - 1], k) /\ g[k - 1] = f[k - 1]
          BY <3>3, <4>1
        <5>2. QED BY <3>3, <4>1, <5>1
      <4>2. CASE n \in 1 .. k - 1
        <5>1. g[n] = f[n] /\ g[n - 1] = f[n - 1]
          BY <3>3, <4>2
        <5>2. QED BY <3>6, <4>2, <5>1
      <4>3. CASE n = 0
        <5>1. g[0] = f[0] /\ f[0] = Outdated(rows, r)
          BY <3>3, <3>6
        <5> HIDE DEF g
        <5>2. QED BY <4>3, <5>1
      <4>4. QED BY <3>3, <4>1, <4>2, <4>3
    <3>8. g = [n \in 0 .. k |-> g[n]]
      OBVIOUS
    <3> HIDE DEF g
    <3>9. Loops(g, k)
      BY <3>7, <3>8
    <3>10. QED BY <3>1, <3>9
  <2>3. QED BY <2>1, <2>2
<1>4. Loops(Loop, size)
  <2> HIDE DEF Loops
  <2> QED BY <1>3
<1> HIDE DEF Loop
<1>5. \A n \in 0 .. size : Loop[n] = IF n = 0 THEN Outdated(rows, r) ELSE Next(Loop[n - 1], n)
  BY <1>4
<1> DEFINE First(n) == [m \in 1 .. n |-> Listing(ApiList(r)[m])]
           Right(n) == /\ HasListed(Loop[n], r, n) /\ Len(rows) <= Len(Loop[n])
                       /\ rows = <<>> => Loop[n] = First(n)
<1>6. Right(0)
  <2>1. Loop[0] = Outdated(rows, r)
    BY <1>2, <1>5
  <2>2. HasListed(Loop[0], r, 0) /\ Len(Loop[0]) = Len(rows)
    BY <2>1, OutdatedEffect
  <2>3. rows = <<>> => Loop[0] = <<>>
    BY <2>2 DEF HasListed
  <2>4. First(0) = <<>>
    OBVIOUS
  <2> QED BY <2>2, <2>3, <2>4
<1>7. ASSUME NEW n \in 1 .. size, Right(n - 1) PROVE Right(n)
  <2> DEFINE before == Loop[n - 1]
             entry == ApiList(r)[n]
  <2>1. n \in 1 .. Len(ApiList(r)) /\ n - 1 \in Nat /\ n \in 0 .. size
    BY <1>2 DEF size
  <2>2. Loop[n] = Place(before, Existing(before, entry), Listing(entry))
    BY <1>5, <2>1 DEF Next
  <2>3. /\ Existing(before, entry) \subseteq DOMAIN before
        /\ \A i \in Existing(before, entry) :
             before[i].code = entry.code \/ before[i].endpoint = entry.endpoint
    BY DEF Existing, Having
  <2>4. HasListed(before, r, n - 1) /\ Len(rows) <= Len(before) /\ before \in Seq(Row)
    BY <1>7 DEF HasListed
  <2>5. HasListed(Loop[n], r, n) /\ Len(before) <= Len(Loop[n])
    <3> HIDE DEF before
    <3> QED BY <2>1, <2>2, <2>3, <2>4, ListsOneMore
  <2>6. Len(rows) <= Len(Loop[n])
    BY <2>4, <2>5 DEF HasListed
  <2>7. ASSUME rows = <<>> PROVE Loop[n] = First(n)
    <3>1. before = First(n - 1) /\ DOMAIN before = 1 .. n - 1
      BY <1>7, <2>7
    <3>2. \A m \in 1 .. n - 1 : m \in 1 .. Len(ApiList(r)) /\ m # n
      BY <2>1, ManifestShape
    <3>3. \A i \in DOMAIN before : before[i].code # entry.code /\ before[i].endpoint # entry.endpoint
      BY <2>1, <3>1, <3>2, ManifestShape
    <3>4. Existing(before, entry) = {}
      BY <3>3 DEF Existing, Having
    <3>5. Loop[n] = Append(before, Listing(entry))
      BY <2>2, <3>4 DEF Place
    <3>6. Len(before) = n - 1
      BY <2>1, <2>4, <3>1
    <3>7. Append(before, Listing(entry)) =
            [m \in 1 .. n |-> IF m = n THEN Listing(entry) ELSE before[m]]
      <4> HIDE DEF before, entry
      <4>1. before \in Seq(Row) /\ Listing(entry) \in Row /\ Len(before) = n - 1 /\ n \in Nat
        BY <2>1, <2>4, <3>6, ManifestShape DEF entry
      <4> DEFINE row == Listing(entry)
      <4> HIDE DEF row
      <4>2. /\ Append(before, row) \in Seq(Row) /\ DOMAIN Append(before, row) = 1 .. n
            /\ \A m \in 1 .. n : Append(before, row)[m] = IF m = n THEN row ELSE before[m]
        BY <4>1 DEF row
      <4> DEFINE longer == Append(before, row)
      <4>3. longer \in Seq(Row) /\ DOMAIN longer = 1 .. n
            /\ \A m \in 1 .. n : longer[m] = IF m = n THEN row ELSE before[m]
        BY <4>2
      <4> HIDE DEF longer
      <4>4. longer = [m \in 1 .. n |-> longer[m]]
        BY <4>3
      <4>5. longer = [m \in 1 .. n |-> IF m = n THEN row ELSE before[m]]
        BY <4>3, <4>4
      <4> QED BY <4>5 DEF row, longer
    <3>8. \A m \in 1 .. n : (IF m = n THEN Listing(entry) ELSE before[m]) = Listing(ApiList(r)[m])
      BY <2>1, <3>1
    <3> QED BY <3>5, <3>7, <3>8
  <2> QED BY <2>5, <2>6, <2>7
<1>8. Right(size)
  <2> HIDE DEF Right
  <2> DEFINE Wrong == {n \in 0 .. size : ~Right(n)}
  <2>1. CASE Wrong = {}
    BY <1>2, <2>1
  <2>2. CASE Wrong # {}
    <3>1. PICK n \in Wrong : \A m \in Wrong : n <= m
      <4>1. Wrong \subseteq Nat
        BY <1>2
      <4> HIDE DEF Wrong
      <4> QED BY <2>2, <4>1, LeastExists
    <3>2. n \in 1 .. size /\ n - 1 \notin Wrong /\ n - 1 \in 0 .. size
      <4>1. n \in 0 .. size /\ n # 0
        BY <1>6, <3>1
      <4>2. n - 1 \notin Wrong
        <5> HIDE DEF Wrong
        <5> QED BY <1>2, <3>1, <4>1
      <4> QED BY <1>2, <4>1, <4>2
    <3>3. Right(n)
      BY <1>7, <3>2
    <3> QED BY <3>1, <3>3
  <2> QED BY <2>1, <2>2
<1>9. ASSUME rows = <<>> PROVE Unambiguous(Loop[size])
  <2>1. Loop[size] = First(size)
    BY <1>8, <1>9
  <2>2. ASSUME NEW m \in 1 .. size, NEW k \in 1 .. size, m # k
        PROVE  First(size)[m].code # First(size)[k].code
               /\ First(size)[m].endpoint # First(size)[k].endpoint
    BY <2>2, ManifestShape DEF size
  <2> QED BY <2>1, <2>2 DEF Unambiguous
<1> QED BY <1>1, <1>8, <1>9 DEF size

\* The statements of a synchronization list the same; after a seed that could
\* be saved they find every row as it should be.
LEMMA UpsertLists ==
  ASSUME NEW r \in Versions, NEW rows \in Seq(Row)
  PROVE  /\ UpsertedApis(rows, r).rows \in Seq(Row)
         /\ Len(rows) <= Len(UpsertedApis(rows, r).rows)
         /\ Settled(rows, r) => UpsertedApis(rows, r) = [rows |-> rows, accepted |-> TRUE]
<1> DEFINE size == Len(ApiList(r))
           Own(before, n) == Having(before, "code", ApiList(r)[n].code)
           Placing(before, n) == Place(before, Own(before, n), Listing(ApiList(r)[n]))
           Next(done, n) == [rows |-> Placing(done.rows, n),
                             accepted |-> done.accepted /\ Unambiguous(Placing(done.rows, n))]
           Start == [rows |-> Outdated(rows, r), accepted |-> TRUE]
           Loops(f, k) == f = [n \in 0 .. k |-> IF n = 0 THEN Start ELSE Next(f[n - 1], n)]
           Loop == CHOOSE f : Loops(f, size)
<1>1. UpsertedApis(rows, r) = Loop[size]
  BY DEF UpsertedApis, ApiList
<1>2. size \in Nat
  BY ManifestShape
<1> HIDE DEF Next, size, Start
<1>3. \E f : Loops(f, size)
  <2> DEFINE Endless == {k \in Nat : ~ \E f : Loops(f, k)}
  <2>1. CASE Endless = {}
    BY <1>2, <2>1
  <2>2. CASE Endless # {}
    <3>1. PICK k \in Endless : \A l \in Endless : k <= l
      <4>1. Endless \subseteq Nat
        OBVIOUS
      <4> HIDE DEF Endless
      <4> QED BY <2>2, <4>1, LeastExists
    <3>2. Loops([n \in 0 .. 0 |-> Start], 0)
      OBVIOUS
    <3>3. k # 0 /\ k \in Nat
      BY <3>1, <3>2
    <3>4. k - 1 \in Nat /\ k - 1 \notin Endless
      <4> HIDE DEF Endless
      <4> QED BY <3>1, <3>3
    <3>5. PICK f : Loops(f, k - 1)
      BY <3>4
    <3> DEFINE g == [n \in 0 .. k |-> IF n = k THEN Next(f[k - 1], k) ELSE f[n]]
    <3>6. \A n \in 0 .. k - 1 : f[n] = IF n = 0 THEN Start ELSE Next(f[n - 1], n)
      BY <3>5
    <3>7. \A n \in 0 .. k : g[n] = IF n = 0 THEN Start ELSE Next(g[n - 1], n)
      <4> SUFFICES ASSUME NEW n \in 0 .. k
                   PROVE  g[n] = IF n = 0 THEN Start ELSE Next(g[n - 1], n)
        OBVIOUS
      <4>1. CASE n = k
        <5>1. g[n] = Next(f[k - 1], k) /\ g[k - 1] = f[k - 1]
          BY <3>3, <4>1
        <5>2. QED BY <3>3, <4>1, <5>1
      <4>2. CASE n \in 1 .. k - 1
        <5>1. g[n] = f[n] /\ g[n - 1] = f[n - 1]
          BY <3>3, <4>2
        <5>2. QED BY <3>6, <4>2, <5>1
      <4>3. CASE n = 0
        <5>1. g[0] = f[0] /\ f[0] = Start
          BY <3>3, <3>6
        <5> HIDE DEF g
        <5>2. QED BY <4>3, <5>1
      <4>4. QED BY <3>3, <4>1, <4>2, <4>3
    <3>8. g = [n \in 0 .. k |-> g[n]]
      OBVIOUS
    <3> HIDE DEF g
    <3>9. Loops(g, k)
      BY <3>7, <3>8
    <3>10. QED BY <3>1, <3>9
  <2>3. QED BY <2>1, <2>2
<1>4. Loops(Loop, size)
  <2> HIDE DEF Loops
  <2> QED BY <1>3
<1> HIDE DEF Loop
<1>5. \A n \in 0 .. size : Loop[n] = IF n = 0 THEN Start ELSE Next(Loop[n - 1], n)
  BY <1>4
<1> DEFINE Right(n) == /\ HasListed(Loop[n].rows, r, n) /\ Len(rows) <= Len(Loop[n].rows)
                       /\ Settled(rows, r) => Loop[n] = [rows |-> rows, accepted |-> TRUE]
<1>6. Right(0)
  <2>1. Loop[0] = Start
    BY <1>2, <1>5
  <2>2. Loop[0] = [rows |-> Outdated(rows, r), accepted |-> TRUE]
    BY <2>1 DEF Start
  <2>3. Settled(rows, r) => Outdated(rows, r) = rows
    BY OutdatedEffect DEF Settled, HasListed
  <2>4. Loop[0].rows = Outdated(rows, r)
    BY <2>2
  <2>5. HasListed(Loop[0].rows, r, 0) /\ Len(rows) <= Len(Loop[0].rows)
    BY <2>4, OutdatedEffect
  <2>6. Settled(rows, r) => Loop[0] = [rows |-> rows, accepted |-> TRUE]
    BY <2>2, <2>3
  <2> QED BY <2>5, <2>6
<1>7. ASSUME NEW n \in 1 .. size, Right(n - 1) PROVE Right(n)
  <2> DEFINE before == Loop[n - 1].rows
             entry == ApiList(r)[n]
  <2>1. n \in 1 .. Len(ApiList(r)) /\ n - 1 \in Nat /\ n \in 0 .. size
    BY <1>2 DEF size
  <2>2. Loop[n] = [rows |-> Placing(before, n),
                   accepted |-> Loop[n - 1].accepted /\ Unambiguous(Placing(before, n))]
    BY <1>5, <2>1 DEF Next
  <2>3. /\ Own(before, n) \subseteq DOMAIN before
        /\ \A i \in Own(before, n) : before[i].code = entry.code
    BY DEF Having
  <2>4. HasListed(before, r, n - 1) /\ Len(rows) <= Len(before) /\ before \in Seq(Row)
    BY <1>7 DEF HasListed
  <2>5. HasListed(Placing(before, n), r, n) /\ Len(before) <= Len(Placing(before, n))
    <3> HIDE DEF before, Own
    <3> QED BY <2>1, <2>3, <2>4, ListsOneMore
  <2>6. Loop[n].rows = Placing(before, n)
    BY <2>2
  <2>7. HasListed(Loop[n].rows, r, n) /\ Len(rows) <= Len(Loop[n].rows)
    <3> HIDE DEF before, Placing
    <3> QED BY <2>4, <2>5, <2>6 DEF HasListed
  <2>8. ASSUME Settled(rows, r) PROVE Loop[n] = [rows |-> rows, accepted |-> TRUE]
    <3>1. before = rows /\ Loop[n - 1].accepted = TRUE
      BY <1>7, <2>8
    <3>2. PICK i \in DOMAIN rows : rows[i] = Listing(entry)
      BY <2>1, <2>8 DEF Settled, HasListed
    <3>3. rows[i].code = entry.code
      BY <2>1, <3>2, ManifestShape
    <3>4. Own(rows, n) = {i}
      BY <2>8, <3>3 DEF Having, Settled, Unambiguous
    <3>5. Some({i}) = i
      <4>1. {i} \subseteq Nat /\ {i} # {}
        BY <3>2
      <4>2. Some({i}) \in {i}
        BY <4>1, SomeIsOne
      <4> QED BY <4>2
    <3>6. Placing(rows, n) = [rows EXCEPT ![i] = Listing(entry)]
      BY <3>4, <3>5 DEF Place
    <3>7. Placing(rows, n) = rows
      <4> HIDE DEF Placing, entry
      <4>1. [rows EXCEPT ![i] = rows[i]] = rows
        OBVIOUS
      <4> QED BY <3>2, <3>6, <4>1
    <3>8. Unambiguous(rows)
      BY <2>8 DEF Settled
    <3> HIDE DEF Placing, before
    <3> QED BY <2>2, <3>1, <3>7, <3>8
  <2> QED BY <2>7, <2>8
<1>8. Right(size)
  <2> HIDE DEF Right
  <2> DEFINE Wrong == {n \in 0 .. size : ~Right(n)}
  <2>1. CASE Wrong = {}
    BY <1>2, <2>1
  <2>2. CASE Wrong # {}
    <3>1. PICK n \in Wrong : \A m \in Wrong : n <= m
      <4>1. Wrong \subseteq Nat
        BY <1>2
      <4> HIDE DEF Wrong
      <4> QED BY <2>2, <4>1, LeastExists
    <3>2. n \in 1 .. size /\ n - 1 \notin Wrong /\ n - 1 \in 0 .. size
      <4>1. n \in 0 .. size /\ n # 0
        BY <1>6, <3>1
      <4>2. n - 1 \notin Wrong
        <5> HIDE DEF Wrong
        <5> QED BY <1>2, <3>1, <4>1
      <4> QED BY <1>2, <4>1, <4>2
    <3>3. Right(n)
      BY <1>7, <3>2
    <3> QED BY <3>1, <3>3
  <2> QED BY <2>1, <2>2
<1>9. HasListed(Loop[size].rows, r, size) /\ Len(rows) <= Len(Loop[size].rows)
      /\ (Settled(rows, r) => Loop[size] = [rows |-> rows, accepted |-> TRUE])
  BY <1>8
<1> QED BY <1>1, <1>9 DEF HasListed

\* A settled catalogue is what the manifest lists, and lets a synchronization through.
LEMMA SettledUnblocks ==
  ASSUME NEW r \in Versions, NEW rows \in Seq(Row), Settled(rows, r)
  PROVE  /\ UpsertedApis(rows, r).accepted /\ UpsertedApis(rows, r).rows = rows
         /\ {[code |-> row.code, endpoint |-> row.endpoint] :
               row \in {rows[i] : i \in {j \in DOMAIN rows : rows[j].enabled}}}
              = {ApiManifests[r][n] : n \in DOMAIN ApiManifests[r]}
<1>1. UpsertedApis(rows, r) = [rows |-> rows, accepted |-> TRUE]
  BY UpsertLists
<1> DEFINE Brief(row) == [code |-> row.code, endpoint |-> row.endpoint]
<1>2. \A n \in DOMAIN ApiList(r) : Brief(Listing(ApiList(r)[n])) = ApiList(r)[n]
  <2> SUFFICES ASSUME NEW n \in DOMAIN ApiList(r)
               PROVE  Brief(Listing(ApiList(r)[n])) = ApiList(r)[n]
    OBVIOUS
  <2> DEFINE Endpointed == [code : ApiCodes, endpoint : Endpoints]
  <2>1. ApiList(r) \in Seq(Endpointed)
    BY ManifestShape
  <2> HIDE DEF Endpointed
  <2>2. ApiList(r)[n] \in Endpointed
    BY <2>1
  <2> QED BY <2>2 DEF Endpointed, Listing
<1>3. ASSUME NEW i \in DOMAIN rows, rows[i].enabled
      PROVE  \E n \in DOMAIN ApiList(r) : rows[i] = Listing(ApiList(r)[n])
  <2>1. rows[i].code \in ListedCodes(r)
    BY <1>3 DEF Settled, HasListed
  <2>2. PICK n \in DOMAIN ApiList(r) : rows[i].code = ApiList(r)[n].code
    BY <2>1 DEF ListedCodes
  <2>3. n \in 1 .. Len(ApiList(r))
    BY <2>2, ManifestShape
  <2>4. PICK j \in DOMAIN rows : rows[j] = Listing(ApiList(r)[n])
    BY <2>3 DEF Settled, HasListed
  <2>5. rows[j].code = rows[i].code
    BY <2>2, <2>3, <2>4, ManifestShape
  <2>6. i = j
    BY <2>5 DEF Settled, Unambiguous
  <2> QED BY <2>2, <2>4, <2>6
<1>4. ASSUME NEW n \in DOMAIN ApiList(r)
      PROVE  \E i \in DOMAIN rows : rows[i].enabled /\ rows[i] = Listing(ApiList(r)[n])
  <2>1. n \in 1 .. Len(ApiList(r))
    BY ManifestShape
  <2>2. PICK i \in DOMAIN rows : rows[i] = Listing(ApiList(r)[n])
    BY <2>1 DEF Settled, HasListed
  <2> QED BY <2>1, <2>2, ManifestShape
<1> DEFINE Enabled == {rows[i] : i \in {j \in DOMAIN rows : rows[j].enabled}}
           Entries == {ApiList(r)[n] : n \in DOMAIN ApiList(r)}
<1>5. ASSUME NEW row \in Enabled PROVE Brief(row) \in Entries
  <2>1. PICK i \in DOMAIN rows : rows[i].enabled /\ row = rows[i]
    BY <1>5
  <2> QED BY <2>1, <1>2, <1>3
<1>6. ASSUME NEW entry \in Entries PROVE \E row \in Enabled : entry = Brief(row)
  <2>1. PICK n \in DOMAIN ApiList(r) : entry = ApiList(r)[n]
    BY <1>6
  <2>2. PICK i \in DOMAIN rows : rows[i].enabled /\ rows[i] = Listing(ApiList(r)[n])
    BY <1>4
  <2>3. rows[i] \in Enabled /\ Brief(rows[i]) = entry
    BY <1>2, <2>1, <2>2
  <2> QED BY <2>3
<1>7. {Brief(row) : row \in Enabled} = Entries
  <2> HIDE DEF Brief, Enabled, Entries
  <2> QED BY <1>5, <1>6
<1> QED BY <1>1, <1>7 DEF ApiList

\* What is pruned refers to enabled rows only.
LEMMA PrunedEffect ==
  ASSUME NEW c, IsCatalog(c)
  PROVE  /\ IsCatalog(Pruned(c)) /\ Pruned(c).apis = c.apis
         /\ \A i \in Pruned(c).bound : Pruned(c).apis[i].enabled
         /\ \A p \in Pruned(c).granted : Pruned(c).permissions[p] = "enabled"
<1>1. /\ c.apis \in Seq(Row) /\ c.bound \in SUBSET Nat /\ c.granted \in SUBSET BaseCodes
      /\ c.permissions \in [BaseCodes -> PermissionState] /\ c.bound \subseteq DOMAIN c.apis
  BY DEF IsCatalog
<1> QED BY <1>1 DEF IsCatalog, Pruned

\* A manifest never takes a row away: bindings find theirs.
LEMMA ListedCatalog ==
  ASSUME NEW c, IsCatalog(c), NEW r \in Versions, NEW rows \in Seq(Row), Len(c.apis) <= Len(rows)
  PROVE  IsCatalog(Manifested(c, rows, r)) /\ Manifested(c, rows, r).apis = rows
<1>1. /\ c.apis \in Seq(Row) /\ c.bound \in SUBSET Nat /\ c.granted \in SUBSET BaseCodes
      /\ c.permissions \in [BaseCodes -> PermissionState] /\ c.bound \subseteq DOMAIN c.apis
  BY DEF IsCatalog
<1>2. Permitted(c.permissions, r) \in [BaseCodes -> PermissionState]
  BY <1>1 DEF Permitted, PermissionState
<1>3. c.bound \subseteq DOMAIN rows
  BY <1>1
<1> QED BY <1>1, <1>2, <1>3 DEF IsCatalog, Manifested

LEMMA SeededIsCatalog ==
  ASSUME NEW c, IsCatalog(c), NEW r \in Versions
  PROVE  /\ IsCatalog(SeededCatalog(c, r)) /\ Len(c.apis) <= Len(SeededCatalog(c, r).apis)
         /\ SeededCatalog(c, r).apis = SeededApis(c.apis, r)
         /\ Unambiguous(SeededCatalog(c, r).apis) => Settled(SeededCatalog(c, r).apis, r)
         /\ c.apis = <<>> => Unambiguous(SeededCatalog(c, r).apis)
         /\ \A i \in SeededCatalog(c, r).bound : SeededCatalog(c, r).apis[i].enabled
         /\ \A p \in SeededCatalog(c, r).granted : SeededCatalog(c, r).permissions[p] = "enabled"
<1> DEFINE rows == SeededApis(c.apis, r)
           next == Manifested(c, rows, r)
<1>1. c.apis \in Seq(Row)
  BY DEF IsCatalog
<1>2. HasListed(rows, r, Len(ApiList(r))) /\ Len(c.apis) <= Len(rows)
      /\ (c.apis = <<>> => Unambiguous(rows))
  BY <1>1, SeedLists
<1>3. rows \in Seq(Row)
  BY <1>2 DEF HasListed
<1>4. IsCatalog(next) /\ next.apis = rows
  <2> HIDE DEF rows
  <2> QED BY <1>2, <1>3, ListedCatalog
<1>5. SeededCatalog(c, r) = Pruned(next)
  BY DEF SeededCatalog
<1> HIDE DEF next, rows
<1>6. /\ IsCatalog(SeededCatalog(c, r)) /\ SeededCatalog(c, r).apis = rows
      /\ \A i \in SeededCatalog(c, r).bound : SeededCatalog(c, r).apis[i].enabled
      /\ \A p \in SeededCatalog(c, r).granted : SeededCatalog(c, r).permissions[p] = "enabled"
  BY <1>4, <1>5, PrunedEffect
<1> QED BY <1>2, <1>6 DEF Settled, rows

LEMMA CatalogStarts == CatalogInit => CatalogInv
<1> SUFFICES ASSUME CatalogInit PROVE CatalogInv
  OBVIOUS
<1> DEFINE empty == [apis |-> <<>>, bound |-> {}, granted |-> {},
                     permissions |-> [p \in BaseCodes |-> "absent"]]
<1>1. /\ stored = SeededCatalog(empty, 1) /\ loadedCatalog = stored
      /\ version = 1 /\ seededBy = 1 /\ refused = {} /\ catalogEdits = 0
  BY DEF CatalogInit
<1>2. 1 \in Versions
  BY CatalogAssumption DEF Versions
<1>3. IsCatalog(empty) /\ empty.apis = <<>>
  BY DEF IsCatalog, PermissionState
<1> HIDE DEF empty
<1>4. /\ IsCatalog(stored) /\ Settled(stored.apis, 1)
      /\ \A i \in stored.bound : stored.apis[i].enabled
      /\ \A p \in stored.granted : stored.permissions[p] = "enabled"
  BY <1>1, <1>2, <1>3, SeededIsCatalog
<1>5. CatalogTypeOK
  BY <1>1, <1>2, <1>4, CatalogAssumption DEF CatalogTypeOK
<1>6. LiveReferencesAreEnabled
  BY <1>1, <1>4 DEF LiveReferencesAreEnabled
<1>7. Len(loadedCatalog.apis) <= Len(stored.apis)
  BY <1>1, <1>4 DEF IsCatalog
<1> QED BY <1>1, <1>4, <1>5, <1>6, <1>7 DEF CatalogInv

LEMMA CatalogStep == CatalogInv /\ [CatalogNext]_catalogVars => CatalogInv'
<1> SUFFICES ASSUME CatalogInv, [CatalogNext]_catalogVars PROVE CatalogInv'
  OBVIOUS
<1>1. /\ IsCatalog(stored) /\ IsCatalog(loadedCatalog)
      /\ version \in Versions /\ seededBy \in Versions \cup {0} /\ refused \subseteq Versions
      /\ catalogEdits \in 0 .. MaxCatalogEdits /\ LiveReferencesAreEnabled
      /\ stored.apis \in Seq(Row) /\ loadedCatalog.apis \in Seq(Row)
      /\ Len(stored.apis) \in Nat /\ Len(loadedCatalog.apis) \in Nat
      /\ Len(loadedCatalog.apis) <= Len(stored.apis)
      /\ seededBy = version => Settled(stored.apis, version)
      /\ version # 0
  <2>1. CatalogTypeOK /\ LiveReferencesAreEnabled
        /\ Len(loadedCatalog.apis) <= Len(stored.apis)
        /\ (seededBy = version => Settled(stored.apis, version))
    BY DEF CatalogInv
  <2>2. stored.apis \in Seq(Row) /\ loadedCatalog.apis \in Seq(Row)
    BY <2>1 DEF CatalogTypeOK, IsCatalog
  <2>3. version \in Versions /\ 0 \notin Versions
    BY <2>1, CatalogAssumption DEF CatalogTypeOK, Versions
  <2> QED BY <2>1, <2>2, <2>3 DEF CatalogTypeOK
<1>2. CASE SeedCatalog
  <2>1. /\ stored' = SeededCatalog(stored, version) /\ seededBy' = version
        /\ Unambiguous(stored'.apis)
        /\ UNCHANGED <<loadedCatalog, version, refused, catalogEdits>>
    BY <1>2 DEF SeedCatalog
  <2>2. /\ IsCatalog(stored') /\ Len(stored.apis) <= Len(stored'.apis)
        /\ Settled(stored'.apis, version)
    BY <1>1, <2>1, SeededIsCatalog
  <2>3. Len(stored'.apis) \in Nat
    BY <2>2 DEF IsCatalog
  <2> QED BY <1>1, <2>1, <2>2, <2>3 DEF CatalogInv, CatalogTypeOK, LiveReferencesAreEnabled
<1>3. CASE SynchronizeCatalog
  <2> DEFINE upserted == UpsertedApis(stored.apis, version)
  <2>1. /\ stored' = Manifested(stored, upserted.rows, version)
        /\ loadedCatalog' = Pruned(stored')
        /\ seededBy' = IF seededBy = version THEN version ELSE 0
        /\ UNCHANGED <<version, refused, catalogEdits>>
    BY <1>3 DEF SynchronizeCatalog
  <2>2. /\ upserted.rows \in Seq(Row) /\ Len(stored.apis) <= Len(upserted.rows)
        /\ Settled(stored.apis, version) => upserted.rows = stored.apis
    BY <1>1, UpsertLists
  <2>3. IsCatalog(stored') /\ stored'.apis = upserted.rows
    <3> HIDE DEF upserted
    <3> QED BY <1>1, <2>1, <2>2, ListedCatalog
  <2>4. /\ IsCatalog(loadedCatalog') /\ loadedCatalog'.apis = stored'.apis
        /\ LiveReferencesAreEnabled'
    BY <2>1, <2>3, PrunedEffect DEF LiveReferencesAreEnabled
  <2>5. seededBy' = version' => Settled(stored'.apis, version)
    BY <1>1, <2>1, <2>2, <2>3
  <2>6. Len(loadedCatalog'.apis) <= Len(stored'.apis)
    <3> HIDE DEF upserted
    <3> QED BY <2>2, <2>3, <2>4
  <2>7. seededBy' \in Versions \cup {0}
    BY <1>1, <2>1
  <2> QED BY <1>1, <2>1, <2>3, <2>4, <2>5, <2>6, <2>7 DEF CatalogInv, CatalogTypeOK
<1>4. CASE RefuseSynchronization
  <2>1. /\ refused' = refused \cup {version}
        /\ UNCHANGED <<stored, loadedCatalog, version, seededBy, catalogEdits>>
    BY <1>4 DEF RefuseSynchronization
  <2> QED BY <1>1, <2>1 DEF CatalogInv, CatalogTypeOK, LiveReferencesAreEnabled
<1>5. ASSUME NEW r \in Versions, StartCatalog(r) PROVE CatalogInv'
  <2>1. /\ version' = r
        /\ seededBy' = IF r = version THEN seededBy ELSE 0
        /\ loadedCatalog' = Pruned(stored)
        /\ UNCHANGED <<stored, refused, catalogEdits>>
    BY <1>5 DEF StartCatalog
  <2>2. 0 \notin Versions
    BY CatalogAssumption DEF Versions
  <2>3. /\ IsCatalog(loadedCatalog') /\ loadedCatalog'.apis = stored.apis
        /\ LiveReferencesAreEnabled'
    BY <1>1, <2>1, PrunedEffect DEF LiveReferencesAreEnabled
  <2>4. seededBy' = version' => Settled(stored'.apis, version')
    BY <1>1, <2>1, <2>2
  <2> QED BY <1>1, <2>1, <2>3, <2>4 DEF CatalogInv, CatalogTypeOK
<1>6. ASSUME EditsCatalog PROVE catalogEdits' \in 0 .. MaxCatalogEdits
  BY <1>1, <1>6, CatalogAssumption DEF EditsCatalog
<1>7. PICK rows \in Seq(Row), bound \in SUBSET Nat, granted \in SUBSET BaseCodes,
           permissions \in [BaseCodes -> PermissionState] :
        loadedCatalog = [apis |-> rows, bound |-> bound, granted |-> granted,
                         permissions |-> permissions]
  BY <1>1 DEF IsCatalog
<1>8. PICK own \in Seq(Row), tied \in SUBSET Nat, given \in SUBSET BaseCodes,
           states \in [BaseCodes -> PermissionState] :
        stored = [apis |-> own, bound |-> tied, granted |-> given, permissions |-> states]
  BY <1>1 DEF IsCatalog
<1>9. /\ bound \subseteq DOMAIN rows /\ tied \subseteq DOMAIN own
      /\ DOMAIN rows \subseteq DOMAIN own /\ DOMAIN own \subseteq Nat
      /\ \A i \in bound : rows[i].enabled
      /\ \A p \in granted : permissions[p] = "enabled"
  <2>1. bound \subseteq DOMAIN rows /\ tied \subseteq DOMAIN own /\ Len(rows) <= Len(own)
    BY <1>1, <1>7, <1>8 DEF IsCatalog
  <2>2. DOMAIN rows \subseteq DOMAIN own /\ DOMAIN own \subseteq Nat
    BY <2>1
  <2>3. (\A i \in bound : rows[i].enabled) /\ \A p \in granted : permissions[p] = "enabled"
    BY <1>1, <1>7 DEF LiveReferencesAreEnabled
  <2> QED BY <2>1, <2>2, <2>3
<1>10. ASSUME NEW i \in DOMAIN loadedCatalog.apis, BindApi(i) PROVE CatalogInv'
  <2>1. /\ i \in DOMAIN loadedCatalog.apis /\ loadedCatalog.apis[i].enabled
        /\ loadedCatalog' = [loadedCatalog EXCEPT !.bound = loadedCatalog.bound \cup {i}]
        /\ stored' = [stored EXCEPT !.bound = loadedCatalog'.bound]
        /\ UNCHANGED <<version, seededBy, refused>>
    BY <1>10 DEF BindApi
  <2>2. i \in DOMAIN rows /\ rows[i].enabled
    BY <1>7, <2>1
  <2>3. loadedCatalog' = [apis |-> rows, bound |-> bound \cup {i}, granted |-> granted,
                          permissions |-> permissions]
    BY <1>7, <2>1
  <2>4. stored' = [apis |-> own, bound |-> bound \cup {i}, granted |-> given,
                   permissions |-> states]
    <3>1. loadedCatalog'.bound = bound \cup {i}
      BY <2>3
    <3>2. stored' = [stored EXCEPT !.bound = bound \cup {i}]
      BY <2>1, <3>1
    <3> QED BY <1>8, <3>2
  <2>5. IsCatalog(loadedCatalog') /\ IsCatalog(stored')
    BY <1>9, <2>2, <2>3, <2>4 DEF IsCatalog
  <2>6. stored'.apis = stored.apis /\ loadedCatalog'.apis = loadedCatalog.apis
    BY <1>7, <1>8, <2>3, <2>4
  <2>7. LiveReferencesAreEnabled'
    BY <1>9, <2>2, <2>3 DEF LiveReferencesAreEnabled
  <2>8. catalogEdits' \in 0 .. MaxCatalogEdits
    BY <1>6, <1>10 DEF BindApi
  <2> QED BY <1>1, <2>1, <2>5, <2>6, <2>7, <2>8 DEF CatalogInv, CatalogTypeOK
<1>11. ASSUME NEW p \in BaseCodes, GrantPermission(p) PROVE CatalogInv'
  <2>1. /\ loadedCatalog.permissions[p] = "enabled"
        /\ loadedCatalog' = [loadedCatalog EXCEPT !.granted = loadedCatalog.granted \cup {p}]
        /\ stored' = [stored EXCEPT !.granted = loadedCatalog'.granted]
        /\ UNCHANGED <<version, seededBy, refused>>
    BY <1>11 DEF GrantPermission
  <2>2. permissions[p] = "enabled"
    BY <1>7, <2>1
  <2>3. loadedCatalog' = [apis |-> rows, bound |-> bound, granted |-> granted \cup {p},
                          permissions |-> permissions]
    BY <1>7, <2>1
  <2>4. stored' = [apis |-> own, bound |-> tied, granted |-> granted \cup {p},
                   permissions |-> states]
    <3>1. loadedCatalog'.granted = granted \cup {p}
      BY <2>3
    <3>2. stored' = [stored EXCEPT !.granted = granted \cup {p}]
      BY <2>1, <3>1
    <3> QED BY <1>8, <3>2
  <2>5. IsCatalog(loadedCatalog') /\ IsCatalog(stored')
    BY <1>9, <2>2, <2>3, <2>4 DEF IsCatalog
  <2>6. stored'.apis = stored.apis /\ loadedCatalog'.apis = loadedCatalog.apis
    BY <1>7, <1>8, <2>3, <2>4
  <2>7. LiveReferencesAreEnabled'
    BY <1>9, <2>2, <2>3 DEF LiveReferencesAreEnabled
  <2>8. catalogEdits' \in 0 .. MaxCatalogEdits
    BY <1>6, <1>11 DEF GrantPermission
  <2> QED BY <1>1, <2>1, <2>5, <2>6, <2>7, <2>8 DEF CatalogInv, CatalogTypeOK
<1>12. CASE UNCHANGED catalogVars
  BY <1>1, <1>12 DEF catalogVars, CatalogInv, CatalogTypeOK, LiveReferencesAreEnabled
<1> QED BY <1>2, <1>3, <1>4, <1>5, <1>10, <1>11, <1>12 DEF CatalogNext

\* Whatever releases rename and move, and whatever administrators bind and grant:
\* after a seed the catalogue is the manifest's and a synchronization goes
\* through, and the memory refers to what is enabled only.
THEOREM CatalogHolds == CatalogSpec => []CatalogIsSound
<1>1. CatalogInv => CatalogIsSound
  <2> SUFFICES ASSUME CatalogInv PROVE CatalogIsSound
    OBVIOUS
  <2>1. CatalogTypeOK /\ LiveReferencesAreEnabled /\ version \in Versions
        /\ stored.apis \in Seq(Row) /\ (seededBy = version => Settled(stored.apis, version))
    BY DEF CatalogInv, CatalogTypeOK, IsCatalog
  <2>2. SeedUnblocksSynchronization
    BY <2>1, SettledUnblocks DEF SeedUnblocksSynchronization
  <2> QED BY <2>1, <2>2 DEF CatalogIsSound
<1> QED BY <1>1, CatalogStarts, CatalogStep, PTL DEF CatalogSpec

-----------------------------------------------------------------------------
(* The menus: MenuTree.                                                     *)

\* Rows of menus between two statements: there may be too many of them.
MenuRow == [code : MenuCodes, path : MenuPaths, parent : Nat, enabled : BOOLEAN,
            isDeleted : BOOLEAN, source : Sources]
MenuRows(rows) ==
  rows \in Seq(MenuRow) /\ \A i \in DOMAIN rows : rows[i].parent \in 0 .. Len(rows)

\* No menus hang from each other in a circle.
Grounded(rows) ==
  \A ids \in SUBSET DOMAIN rows : ids # {} => \E i \in ids : rows[i].parent \notin ids

\* What is live hangs from what is live.
LiveHangs(rows) ==
  \A i \in DOMAIN rows : ~rows[i].isDeleted =>
    rows[i].parent = Top \/ ~rows[rows[i].parent].isDeleted

\* The inductive invariant.
MenusInv ==
  /\ MenusTypeOK /\ Unique(menus)
  /\ Grounded(menus) /\ LiveHangs(menus)
  /\ \A i \in bindings : Live(i)

\* The menus above one are a closed set, and the smallest.
LEMMA UpwardsEffect ==
  ASSUME MenusTypeOK
  PROVE  /\ Upwards(Top) = {}
         /\ \A i \in DOMAIN menus :
              /\ i \in Upwards(i) /\ Upwards(i) \subseteq DOMAIN menus
              /\ IsClosed(Upwards(i))
              /\ \A above \in SUBSET DOMAIN menus :
                   i \in above /\ IsClosed(above) => Upwards(i) \subseteq above
              /\ Upwards(i) \subseteq {i} \cup Upwards(menus[i].parent)
<1>1. DOMAIN menus \subseteq Nat \ {0} /\ \A i \in DOMAIN menus : menus[i].parent \in DOMAIN menus \cup {Top}
  <2>1. menus \in Seq(Menu) /\ \A i \in DOMAIN menus : menus[i].parent \in 0 .. Len(menus)
    BY DEF MenusTypeOK
  <2>2. DOMAIN menus = 1 .. Len(menus) /\ Len(menus) \in Nat
    BY <2>1
  <2> QED BY <2>1, <2>2 DEF Top
<1>2. Upwards(Top) = {}
  <2>1. {} \in SUBSET DOMAIN menus /\ IsClosed({}) /\ Top \in {} \cup {Top}
    BY DEF IsClosed
  <2> QED BY <2>1 DEF Upwards
<1>3. ASSUME NEW i \in DOMAIN menus
      PROVE  /\ i \in Upwards(i) /\ Upwards(i) \subseteq DOMAIN menus
             /\ IsClosed(Upwards(i))
             /\ \A above \in SUBSET DOMAIN menus :
                  i \in above /\ IsClosed(above) => Upwards(i) \subseteq above
  <2>1. i # Top
    BY <1>1 DEF Top
  <2>2. \A above \in SUBSET DOMAIN menus :
          i \in above /\ IsClosed(above) => Upwards(i) \subseteq above
    BY DEF Upwards
  <2>3. i \in Upwards(i) /\ Upwards(i) \subseteq DOMAIN menus
    BY <2>1 DEF Upwards
  <2>4. ASSUME NEW j \in Upwards(i), menus[j].parent # Top PROVE menus[j].parent \in Upwards(i)
    <3>1. menus[j].parent \in DOMAIN menus /\ j \in DOMAIN menus
      BY <1>1, <2>3, <2>4
    <3>2. ASSUME NEW above \in SUBSET DOMAIN menus, i \in above \cup {Top}, IsClosed(above)
          PROVE  menus[j].parent \in above
      <4>1. j \in above
        BY <3>2 DEF Upwards
      <4> QED BY <2>4, <3>2, <4>1 DEF IsClosed
    <3> QED BY <3>1, <3>2 DEF Upwards
  <2> QED BY <2>2, <2>3, <2>4 DEF IsClosed
<1>4. ASSUME NEW i \in DOMAIN menus PROVE Upwards(i) \subseteq {i} \cup Upwards(menus[i].parent)
  <2> DEFINE p == menus[i].parent
             above == {i} \cup Upwards(p)
  <2>1. p \in DOMAIN menus \cup {Top}
    BY <1>1
  <2>2. Upwards(p) \subseteq DOMAIN menus /\ IsClosed(Upwards(p)) /\ p \in Upwards(p) \cup {Top}
    BY <1>2, <1>3, <2>1 DEF IsClosed
  <2>3. above \in SUBSET DOMAIN menus /\ i \in above /\ IsClosed(above)
    BY <2>2 DEF IsClosed
  <2> HIDE DEF above
  <2>4. Upwards(i) \subseteq above
    BY <1>3, <2>3
  <2> QED BY <2>4 DEF above
<1> QED BY <1>2, <1>3, <1>4

\* Where no menus hang in a circle none is above itself, and no walk meets one twice.
LEMMA GroundedHaveNoCycle ==
  ASSUME MenusTypeOK, Grounded(menus), NEW i \in DOMAIN menus
  PROVE  i \notin Upwards(menus[i].parent)
<1>1. \A k \in DOMAIN menus : menus[k].parent \in DOMAIN menus \cup {Top}
  <2>1. menus \in Seq(Menu) /\ \A k \in DOMAIN menus : menus[k].parent \in 0 .. Len(menus)
    BY DEF MenusTypeOK
  <2>2. DOMAIN menus = 1 .. Len(menus) /\ Len(menus) \in Nat
    BY <2>1
  <2> QED BY <2>1, <2>2 DEF Top
<1> SUFFICES ASSUME i \in Upwards(menus[i].parent) PROVE FALSE
  OBVIOUS
<1> DEFINE A == Upwards(menus[i].parent)
           ids == {j \in A : i \in Upwards(j)}
<1>2. menus[i].parent \in DOMAIN menus
  BY <1>1, UpwardsEffect
<1>3. A \subseteq DOMAIN menus /\ IsClosed(A) /\ menus[i].parent \in A
  BY <1>2, UpwardsEffect
<1>4. i \in ids
  BY UpwardsEffect
<1>5. ASSUME NEW j \in ids PROVE menus[j].parent \in ids
  <2>1. j \in A /\ j \in DOMAIN menus /\ i \in Upwards(j)
    BY <1>3
  <2>2. i \in Upwards(menus[j].parent)
    <3>1. CASE j = i
      BY <3>1
    <3>2. CASE j # i
      BY <2>1, <3>2, UpwardsEffect
    <3> QED BY <3>1, <3>2
  <2>3. menus[j].parent # Top
    BY <2>2, UpwardsEffect
  <2>4. menus[j].parent \in A
    BY <1>3, <2>1, <2>3 DEF IsClosed
  <2> QED BY <2>2, <2>4
<1>6. ids \in SUBSET DOMAIN menus /\ ids # {}
  BY <1>3, <1>4
<1> HIDE DEF ids
<1> QED BY <1>5, <1>6 DEF Grounded

\* Whatever is written over some rows: if these do not hang in a circle, hang from
\* each other or the top and are live, and the others stay where they hung, all is
\* as it should be.
LEMMA Rehanging ==
  ASSUME NEW old, NEW new, NEW written \in SUBSET DOMAIN new,
         Grounded(old), LiveHangs(old), DOMAIN old \subseteq DOMAIN new, MenuRows(old),
         \A i \in DOMAIN new \ written :
           /\ i \in DOMAIN old
           /\ new[i].parent = old[i].parent /\ new[i].isDeleted = old[i].isDeleted,
         \A i \in written :
           ~new[i].isDeleted /\ (new[i].parent = Top \/ new[i].parent \in written),
         \A ids \in SUBSET written : ids # {} => \E i \in ids : new[i].parent \notin ids
  PROVE  Grounded(new) /\ LiveHangs(new)
<1>1. ASSUME NEW ids \in SUBSET DOMAIN new, ids # {}, \A i \in ids : new[i].parent \in ids
      PROVE  FALSE
  <2>0. DOMAIN old \subseteq Nat \ {0}
    BY DEF MenuRows
  <2>1. CASE ids \cap written = {}
    <3>1. ids \in SUBSET DOMAIN old /\ \A i \in ids : old[i].parent \in ids
      BY <1>1, <2>1
    <3> QED BY <1>1, <3>1 DEF Grounded
  <2>2. CASE ids \cap written # {}
    <3>1. PICK i \in ids \cap written : new[i].parent \notin ids \cap written
      BY <2>2
    <3>2. new[i].parent = Top /\ Top \in ids
      BY <1>1, <3>1
    <3>3. Top \in written
      BY <2>0, <3>2 DEF Top
    <3> QED BY <1>1, <3>1, <3>2, <3>3
  <2> QED BY <2>1, <2>2
<1>2. ASSUME NEW i \in DOMAIN new, ~new[i].isDeleted, new[i].parent # Top
      PROVE  ~new[new[i].parent].isDeleted
  <2>1. CASE i \in written
    BY <1>2, <2>1
  <2>2. CASE i \notin written
    <3> DEFINE p == new[i].parent
    <3>1. i \in DOMAIN old /\ old[i].parent = p /\ ~old[i].isDeleted
      BY <1>2, <2>2
    <3>2. ~old[p].isDeleted /\ p \in DOMAIN old
      <4>1. old \in Seq(MenuRow) /\ p \in 0 .. Len(old)
        BY <3>1 DEF MenuRows
      <4>2. DOMAIN old = 1 .. Len(old) /\ Len(old) \in Nat
        BY <4>1
      <4>3. p \in DOMAIN old
        BY <1>2, <4>1, <4>2 DEF Top
      <4> QED BY <1>2, <3>1, <4>3 DEF LiveHangs
    <3>3. CASE p \in written
      BY <3>3
    <3>4. CASE p \notin written
      BY <3>2, <3>4
    <3> QED BY <3>3, <3>4
  <2> QED BY <2>1, <2>2
<1> QED BY <1>1, <1>2 DEF Grounded, LiveHangs

LEMMA ListedMenuShape ==
  ASSUME NEW entry \in Manifest, NEW parent \in Nat, NEW source \in Sources
  PROVE  LET row == ListedMenu(entry, parent, source)
         IN  /\ row \in MenuRow /\ row.code = entry.code /\ row.path = entry.path
             /\ row.parent = parent /\ ~row.isDeleted /\ row.enabled /\ row.source = source
BY DEF ListedMenu, Manifest, MenuRow

LEMMA MenuListShape ==
  ASSUME NEW list \in {BaseMenus, ModuleMenus, <<>>}
  PROVE  /\ Len(list) \in Nat /\ DOMAIN list = 1 .. Len(list)
         /\ \A n \in 1 .. Len(list) :
              /\ list[n] \in Manifest /\ list[n].code \in Codes(list)
              /\ list[n].code \in MenuCodes /\ list[n].parent \in MenuCodes \cup {NoParent}
         /\ \A m, n \in 1 .. Len(list) :
              m # n => list[m].code # list[n].code /\ list[m].path # list[n].path
<1>1. list \in Seq(Manifest) /\ Distinct(list)
  <2>1. <<>> \in Seq(Manifest) /\ Distinct(<<>>)
    BY DEF Distinct
  <2> QED BY <2>1, MenusAssumption
<1>2. Len(list) \in Nat /\ DOMAIN list = 1 .. Len(list) /\ \A n \in 1 .. Len(list) : list[n] \in Manifest
  BY <1>1
<1>3. \A n \in 1 .. Len(list) :
        /\ list[n].code \in Codes(list)
        /\ list[n].code \in MenuCodes /\ list[n].parent \in MenuCodes \cup {NoParent}
  BY <1>2 DEF Codes, Manifest
<1> QED BY <1>1, <1>2, <1>3 DEF Distinct

\* Put changes one row, the one of an id or a new one.
Writes(rows, k, row, next) ==
  /\ MenuRows(next) /\ Len(rows) <= Len(next) /\ Len(next) <= Len(rows) + 1
  /\ DOMAIN rows \subseteq DOMAIN next /\ DOMAIN next \subseteq DOMAIN rows \cup {k}
  /\ k \in DOMAIN next /\ next[k] = row
  /\ \A i \in DOMAIN rows : i # k => next[i] = rows[i]

LEMMA PutEffect ==
  ASSUME NEW rows, MenuRows(rows), NEW i \in 0 .. Len(rows),
         NEW row \in MenuRow, row.parent \in 0 .. Len(rows)
  PROVE  Writes(rows, IF i = Top THEN Len(rows) + 1 ELSE i, row, Put(rows, i, row))
<1>1. /\ rows \in Seq(MenuRow) /\ Len(rows) \in Nat /\ DOMAIN rows = 1 .. Len(rows)
      /\ \A j \in DOMAIN rows : rows[j].parent \in 0 .. Len(rows)
  BY DEF MenuRows
<1>2. CASE i = Top
  <2> DEFINE next == Append(rows, row)
             k == Len(rows) + 1
  <2>1. /\ next \in Seq(MenuRow) /\ Len(next) = k /\ next[k] = row
        /\ DOMAIN next = 1 .. k /\ \A j \in DOMAIN rows : next[j] = rows[j]
    BY <1>1
  <2> HIDE DEF next
  <2>2. \A j \in DOMAIN next : next[j].parent \in 0 .. Len(next)
    BY <1>1, <2>1
  <2>3. Writes(rows, k, row, next)
    BY <1>1, <2>1, <2>2 DEF Writes, MenuRows
  <2>4. next = Put(rows, i, row)
    BY <1>2 DEF Put, next
  <2> QED BY <1>2, <2>3, <2>4
<1>3. CASE i # Top
  <2> DEFINE next == [rows EXCEPT ![i] = row]
  <2>1. i \in DOMAIN rows
    BY <1>1, <1>3 DEF Top
  <2>2. /\ next \in Seq(MenuRow) /\ Len(next) = Len(rows) /\ next[i] = row
        /\ DOMAIN next = DOMAIN rows /\ \A j \in DOMAIN rows : j # i => next[j] = rows[j]
    BY <1>1, <2>1
  <2> HIDE DEF next
  <2>3. \A j \in DOMAIN next : next[j].parent \in 0 .. Len(next)
    BY <1>1, <2>2
  <2>4. Writes(rows, i, row, next)
    BY <1>1, <2>1, <2>2, <2>3 DEF Writes, MenuRows
  <2>5. next = Put(rows, i, row)
    BY <1>3 DEF Put, next
  <2> QED BY <1>3, <2>4, <2>5
<1> QED BY <1>2, <1>3

LEMMA OnlyIsOne ==
  ASSUME NEW ids, ids # {}
  PROVE  Only(ids) \in ids
BY DEF Only

-----------------------------------------------------------------------------
(* What the seed leaves.                                                    *)

ParentIn(ids, m) ==
  LET above == {j \in 1 .. m - 1 : BaseMenus[j].code = BaseMenus[m].parent}
  IN  IF above = {} THEN Top ELSE ids[Only(above)]

\* ids are the rows of the first n entries, and the rest of the rows is as it was.
SeedWrote(old, rows, ids, n) ==
  /\ MenuRows(rows) /\ Len(old) <= Len(rows) /\ Len(rows) <= Len(old) + n
  /\ ids \in Seq(Nat) /\ Len(ids) = n
  /\ \A m \in 1 .. n :
       ids[m] \in DOMAIN rows
       /\ rows[ids[m]] = ListedMenu(BaseMenus[m], ParentIn(ids, m), "base_manifest")
  /\ \A i \in DOMAIN old : i \in DOMAIN rows
  /\ \A i \in DOMAIN rows :
       (\E m \in 1 .. n : i = ids[m]) \/ (i \in DOMAIN old /\ rows[i] = old[i])

Agree(ids, longer, n) == \A m \in 1 .. n : longer[m] = ids[m]

LEMMA ParentInKept ==
  ASSUME NEW n \in 1 .. Len(BaseMenus) + 1, NEW ids, NEW longer, Agree(ids, longer, n - 1),
         NEW m \in 1 .. n, m \in 1 .. Len(BaseMenus)
  PROVE  /\ ParentIn(longer, m) = ParentIn(ids, m)
         /\ \/ ParentIn(ids, m) = Top
            \/ \E j \in 1 .. m - 1 : ParentIn(ids, m) = ids[j] /\ BaseMenus[j].code = BaseMenus[m].parent
<1> DEFINE above == {j \in 1 .. m - 1 : BaseMenus[j].code = BaseMenus[m].parent}
<1>1. Len(BaseMenus) \in Nat
  BY MenuListShape
<1>2. CASE above = {}
  BY <1>2 DEF ParentIn
<1>3. CASE above # {}
  <2>1. Only(above) \in above
    BY <1>3, OnlyIsOne
  <2>2. ParentIn(longer, m) = longer[Only(above)] /\ ParentIn(ids, m) = ids[Only(above)]
    BY <1>3 DEF ParentIn
  <2>3. Only(above) \in 1 .. m - 1 /\ Only(above) \in 1 .. n - 1
        /\ BaseMenus[Only(above)].code = BaseMenus[m].parent
    BY <1>1, <2>1
  <2> HIDE DEF above
  <2> QED BY <2>2, <2>3 DEF Agree
<1> QED BY <1>2, <1>3

\* One entry more.
LEMMA SeedWritesOneMore ==
  ASSUME NEW old, MenuRows(old), NEW n \in 1 .. Len(BaseMenus), NEW rows, NEW ids,
         SeedWrote(old, rows, ids, n - 1),
         NEW found, found = SeededBy(rows, BaseMenus[n]),
         NEW parent, parent = ParentIn(ids, n)
  PROVE  SeedWrote(old, Put(rows, found, ListedMenu(BaseMenus[n], parent, "base_manifest")),
                   Append(ids, IF found = Top THEN Len(rows) + 1 ELSE found), n)
<1> DEFINE entry == BaseMenus[n]
           row == ListedMenu(entry, parent, "base_manifest")
           next == Put(rows, found, row)
           k == IF found = Top THEN Len(rows) + 1 ELSE found
           longer == Append(ids, k)
<1>1. /\ MenuRows(rows) /\ Len(old) <= Len(rows) /\ ids \in Seq(Nat) /\ Len(ids) = n - 1
      /\ rows \in Seq(MenuRow) /\ Len(rows) \in Nat /\ DOMAIN rows = 1 .. Len(rows)
      /\ \A m \in 1 .. n - 1 :
           ids[m] \in DOMAIN rows
           /\ rows[ids[m]] = ListedMenu(BaseMenus[m], ParentIn(ids, m), "base_manifest")
  BY DEF SeedWrote, MenuRows
<1>2. Len(BaseMenus) \in Nat /\ n \in Nat /\ entry \in Manifest
      /\ \A m \in 1 .. Len(BaseMenus) : BaseMenus[m] \in Manifest
  BY MenuListShape
<1>3. /\ found \in 0 .. Len(rows)
      /\ found # Top => rows[found].code = entry.code \/ rows[found].path = entry.path
  <2>1. \A S \in SUBSET DOMAIN rows : Only(S) \in S \cup {Top}
    BY OnlyIsOne DEF Only
  <2>2. With(rows, "code", entry.code) \in SUBSET DOMAIN rows
        /\ With(rows, "path", entry.path) \in SUBSET DOMAIN rows
        /\ (\A i \in With(rows, "code", entry.code) : rows[i].code = entry.code)
        /\ (\A i \in With(rows, "path", entry.path) : rows[i].path = entry.path)
    BY DEF With
  <2>3. found \in With(rows, "code", entry.code) \cup With(rows, "path", entry.path) \cup {Top}
    BY <2>1, <2>2 DEF SeededBy
  <2>4. found \in DOMAIN rows \cup {Top}
    BY <2>2, <2>3
  <2>5. found \in 0 .. Len(rows)
    BY <1>1, <2>4 DEF Top
  <2> QED BY <2>2, <2>3, <2>5
<1>4. parent \in 0 .. Len(rows)
  <2>1. \/ parent = Top
        \/ \E j \in 1 .. n - 1 : parent = ids[j]
    <3>1. n \in 1 .. Len(BaseMenus) + 1 /\ n \in 1 .. n
      BY <1>2
    <3>2. Agree(ids, ids, n - 1)
      BY DEF Agree
    <3> QED BY <3>1, <3>2, ParentInKept
  <2> QED BY <1>1, <2>1 DEF Top
<1>5. row \in MenuRow /\ row.parent = parent
  <2>1. parent \in Nat
    BY <1>1, <1>4
  <2> QED BY <1>2, <2>1, ListedMenuShape DEF Sources
<1> HIDE DEF row, next
<1>6. Writes(rows, k, row, next)
  BY <1>1, <1>3, <1>4, <1>5, PutEffect DEF next
<1>7. \A m \in 1 .. n - 1 : ids[m] # k
  <2> SUFFICES ASSUME NEW m \in 1 .. n - 1 PROVE ids[m] # k
    OBVIOUS
  <2>1. m \in 1 .. Len(BaseMenus) /\ m # n
    BY <1>2
  <2>2. ParentIn(ids, m) \in Nat
    <3>1. n \in 1 .. Len(BaseMenus) + 1 /\ m \in 1 .. n /\ (\A j \in 1 .. m - 1 : j \in 1 .. n - 1)
      BY <1>2
    <3>2. ParentIn(ids, m) = Top \/ \E j \in 1 .. m - 1 : ParentIn(ids, m) = ids[j]
      <4>1. Agree(ids, ids, n - 1)
        BY DEF Agree
      <4> QED BY <2>1, <3>1, <4>1, ParentInKept
    <3>3. \A j \in 1 .. n - 1 : ids[j] \in Nat
      BY <1>1
    <3> QED BY <3>1, <3>2, <3>3 DEF Top
  <2>3. rows[ids[m]].code = BaseMenus[m].code /\ rows[ids[m]].path = BaseMenus[m].path
    BY <1>1, <1>2, <2>1, <2>2, ListedMenuShape DEF Sources
  <2>4. rows[ids[m]].code # entry.code /\ rows[ids[m]].path # entry.path
    BY <2>1, <2>3, MenuListShape
  <2>5. ids[m] \in 1 .. Len(rows)
    BY <1>1
  <2> QED BY <1>1, <1>3, <2>4, <2>5
<1>8. /\ longer \in Seq(Nat) /\ Len(longer) = n /\ longer[n] = k
      /\ \A m \in 1 .. n - 1 : longer[m] = ids[m]
  <2>1. k \in Nat
    BY <1>1, <1>3
  <2> HIDE DEF k
  <2> QED BY <1>1, <1>2, <2>1
<1> HIDE DEF longer, k
<1>9. ASSUME NEW m \in 1 .. n
      PROVE  longer[m] \in DOMAIN next
             /\ next[longer[m]] = ListedMenu(BaseMenus[m], ParentIn(longer, m), "base_manifest")
  <2>1. m \in 1 .. Len(BaseMenus) /\ n \in 1 .. Len(BaseMenus) + 1
    BY <1>2
  <2>2. ParentIn(longer, m) = ParentIn(ids, m)
    <3>1. Agree(ids, longer, n - 1)
      BY <1>8 DEF Agree
    <3> QED BY <1>9, <2>1, <3>1, ParentInKept
  <2>3. CASE m = n
    BY <1>6, <1>8, <2>2, <2>3 DEF Writes, row
  <2>4. CASE m # n
    <3>1. m \in 1 .. n - 1
      BY <1>2, <2>4
    <3> QED BY <1>1, <1>6, <1>7, <1>8, <2>2, <3>1 DEF Writes
  <2> QED BY <2>3, <2>4
<1>10. ASSUME NEW i \in DOMAIN next
       PROVE  (\E m \in 1 .. n : i = longer[m]) \/ (i \in DOMAIN old /\ next[i] = old[i])
  <2>1. n \in 1 .. n /\ \A m \in 1 .. n - 1 : m \in 1 .. n
    BY <1>2
  <2>2. CASE i = k
    BY <1>8, <2>1, <2>2
  <2>3. CASE i # k
    <3>1. i \in DOMAIN rows /\ next[i] = rows[i]
      BY <1>6, <2>3 DEF Writes
    <3>2. (\E m \in 1 .. n - 1 : i = ids[m]) \/ (i \in DOMAIN old /\ rows[i] = old[i])
      BY <3>1 DEF SeedWrote
    <3> QED BY <1>8, <2>1, <3>1, <3>2
  <2> QED BY <2>2, <2>3
<1>11. /\ MenuRows(next) /\ Len(old) <= Len(next) /\ Len(next) <= Len(old) + n
       /\ \A i \in DOMAIN old : i \in DOMAIN next
  <2>1. /\ next \in Seq(MenuRow) /\ MenuRows(next) /\ Len(next) \in Nat
        /\ Len(rows) <= Len(next) /\ Len(next) <= Len(rows) + 1 /\ DOMAIN rows \subseteq DOMAIN next
    BY <1>6 DEF Writes, MenuRows
  <2>2. Len(old) \in Nat
    BY DEF MenuRows
  <2>3. Len(rows) <= Len(old) + (n - 1) /\ \A i \in DOMAIN old : i \in DOMAIN rows
    BY DEF SeedWrote
  <2> QED BY <1>1, <1>2, <2>1, <2>2, <2>3
<1>12. SeedWrote(old, next, longer, n)
  BY <1>8, <1>9, <1>10, <1>11 DEF SeedWrote
<1> QED BY <1>12 DEF next, longer, k, row

\* Rows that a seed could have left: each entry has its row, under the row of
\* its parent.
SeedLeft(rows, ids) ==
  /\ MenuRows(rows) /\ Unique(rows)
  /\ \A m \in 1 .. Len(BaseMenus) :
       ids[m] \in DOMAIN rows
       /\ rows[ids[m]] = ListedMenu(BaseMenus[m], ParentIn(ids, m), "base_manifest")

\* A seed writes every entry, and nothing where one has left the rows.
LEMMA SeedEffect ==
  ASSUME NEW rows, MenuRows(rows)
  PROVE  /\ \E ids : SeedWrote(rows, Seeded(rows), ids, Len(BaseMenus))
         /\ \A ids : SeedLeft(rows, ids) => Seeded(rows) = rows
<1> DEFINE size == Len(BaseMenus)
           Found(before, n) == SeededBy(before.rows, BaseMenus[n])
           Line(before, n) == ListedMenu(BaseMenus[n], ParentIn(before.ids, n), "base_manifest")
           Next(before, n) ==
             [rows |-> Put(before.rows, Found(before, n), Line(before, n)),
              ids |-> Append(before.ids, IF Found(before, n) = Top THEN Len(before.rows) + 1
                                         ELSE Found(before, n))]
           Start == [rows |-> rows, ids |-> <<>>]
           Loops(f, k) == f = [n \in 0 .. k |-> IF n = 0 THEN Start ELSE Next(f[n - 1], n)]
           Loop == CHOOSE f : Loops(f, size)
<1>1. Seeded(rows) = Loop[size].rows
  BY DEF Seeded, ParentIn
<1>2. size \in Nat
  BY MenuListShape
<1> HIDE DEF Next, size, Start
<1>3. \E f : Loops(f, size)
  <2> DEFINE Endless == {k \in Nat : ~ \E f : Loops(f, k)}
  <2>1. CASE Endless = {}
    BY <1>2, <2>1
  <2>2. CASE Endless # {}
    <3>1. PICK k \in Endless : \A l \in Endless : k <= l
      <4>1. Endless \subseteq Nat
        OBVIOUS
      <4> HIDE DEF Endless
      <4> QED BY <2>2, <4>1, LeastExists
    <3>2. Loops([n \in 0 .. 0 |-> Start], 0)
      OBVIOUS
    <3>3. k # 0 /\ k \in Nat
      BY <3>1, <3>2
    <3>4. k - 1 \in Nat /\ k - 1 \notin Endless
      <4> HIDE DEF Endless
      <4> QED BY <3>1, <3>3
    <3>5. PICK f : Loops(f, k - 1)
      BY <3>4
    <3> DEFINE g == [n \in 0 .. k |-> IF n = k THEN Next(f[k - 1], k) ELSE f[n]]
    <3>6. \A n \in 0 .. k - 1 : f[n] = IF n = 0 THEN Start ELSE Next(f[n - 1], n)
      BY <3>5
    <3>7. \A n \in 0 .. k : g[n] = IF n = 0 THEN Start ELSE Next(g[n - 1], n)
      <4> SUFFICES ASSUME NEW n \in 0 .. k
                   PROVE  g[n] = IF n = 0 THEN Start ELSE Next(g[n - 1], n)
        OBVIOUS
      <4>1. CASE n = k
        <5>1. g[n] = Next(f[k - 1], k) /\ g[k - 1] = f[k - 1]
          BY <3>3, <4>1
        <5>2. QED BY <3>3, <4>1, <5>1
      <4>2. CASE n \in 1 .. k - 1
        <5>1. g[n] = f[n] /\ g[n - 1] = f[n - 1]
          BY <3>3, <4>2
        <5>2. QED BY <3>6, <4>2, <5>1
      <4>3. CASE n = 0
        <5>1. g[0] = f[0] /\ f[0] = Start
          BY <3>3, <3>6
        <5> HIDE DEF g
        <5>2. QED BY <4>3, <5>1
      <4>4. QED BY <3>3, <4>1, <4>2, <4>3
    <3>8. g = [n \in 0 .. k |-> g[n]]
      OBVIOUS
    <3> HIDE DEF g
    <3>9. Loops(g, k)
      BY <3>7, <3>8
    <3>10. QED BY <3>1, <3>9
  <2>3. QED BY <2>1, <2>2
<1>4. Loops(Loop, size)
  <2> HIDE DEF Loops
  <2> QED BY <1>3
<1> HIDE DEF Loop
<1>5. \A n \in 0 .. size : Loop[n] = IF n = 0 THEN Start ELSE Next(Loop[n - 1], n)
  BY <1>4
<1> DEFINE Right(n) ==
             /\ SeedWrote(rows, Loop[n].rows, Loop[n].ids, n)
             /\ \A ids : SeedLeft(rows, ids) =>
                  Loop[n].rows = rows /\ \A m \in 1 .. n : Loop[n].ids[m] = ids[m]
<1>6. Right(0)
  <2>1. Loop[0] = Start
    BY <1>2, <1>5
  <2>2. Loop[0].rows = rows /\ Loop[0].ids = <<>>
    BY <2>1 DEF Start
  <2>3. rows \in Seq(MenuRow) /\ Len(rows) \in Nat
    BY DEF MenuRows
  <2>4. SeedWrote(rows, rows, <<>>, 0)
    BY <2>3 DEF SeedWrote
  <2> QED BY <2>2, <2>4
<1>7. ASSUME NEW n \in 1 .. size, Right(n - 1) PROVE Right(n)
  <2> DEFINE before == Loop[n - 1]
             found == Found(before, n)
             k == IF found = Top THEN Len(before.rows) + 1 ELSE found
  <2>1. n \in 1 .. Len(BaseMenus) /\ n - 1 \in Nat /\ n \in 0 .. size /\ n # 0
    BY <1>2 DEF size
  <2>2. Loop[n] = [rows |-> Put(before.rows, found, Line(before, n)), ids |-> Append(before.ids, k)]
    BY <1>5, <2>1 DEF Next
  <2>3. Loop[n].rows = Put(before.rows, found, Line(before, n)) /\ Loop[n].ids = Append(before.ids, k)
    BY <2>2
  <2>4. SeedWrote(rows, before.rows, before.ids, n - 1)
    BY <1>7
  <2>5. SeedWrote(rows, Loop[n].rows, Loop[n].ids, n)
    <3> HIDE DEF before
    <3> QED BY <2>1, <2>3, <2>4, SeedWritesOneMore
  <2>6. ASSUME NEW ids, SeedLeft(rows, ids)
        PROVE  Loop[n].rows = rows /\ \A m \in 1 .. n : Loop[n].ids[m] = ids[m]
    <3>1. before.rows = rows /\ \A m \in 1 .. n - 1 : before.ids[m] = ids[m]
      BY <1>7, <2>6
    <3> DEFINE row == ListedMenu(BaseMenus[n], ParentIn(ids, n), "base_manifest")
    <3>2. Line(before, n) = row
      <4>1. n \in 1 .. Len(BaseMenus) + 1 /\ n \in 1 .. n
        BY <2>1, MenuListShape
      <4> HIDE DEF before
      <4>2. Agree(ids, before.ids, n - 1)
        BY <3>1 DEF Agree
      <4>3. ParentIn(before.ids, n) = ParentIn(ids, n)
        BY <2>1, <4>1, <4>2, ParentInKept
      <4> QED BY <4>3
    <3>3. ids[n] \in DOMAIN rows /\ rows[ids[n]] = row /\ row.code = BaseMenus[n].code
      <4>1. ids[n] \in DOMAIN rows /\ rows[ids[n]] = row
        BY <2>1, <2>6 DEF SeedLeft
      <4>2. row.code = BaseMenus[n].code
        BY DEF ListedMenu
      <4> QED BY <4>1, <4>2
    <3>4. With(rows, "code", BaseMenus[n].code) = {ids[n]}
      BY <2>6, <3>3 DEF SeedLeft, Unique, With
    <3>5. found = ids[n]
      <4>1. Only({ids[n]}) \in {ids[n]}
        BY OnlyIsOne
      <4>2. found = Only({ids[n]})
        BY <3>1, <3>4 DEF SeededBy
      <4> QED BY <4>1, <4>2
    <3>6. ids[n] # Top /\ DOMAIN rows \subseteq Nat
      <4>1. rows \in Seq(MenuRow)
        BY DEF MenuRows
      <4> QED BY <3>3, <4>1 DEF Top
    <3>7. Loop[n].rows = rows
      <4>1. Put(rows, ids[n], row) = [rows EXCEPT ![ids[n]] = row]
        BY <3>6 DEF Put
      <4>2. [rows EXCEPT ![ids[n]] = rows[ids[n]]] = rows
        <5>1. rows \in Seq(MenuRow)
          BY DEF MenuRows
        <5> QED BY <5>1
      <4> HIDE DEF row
      <4> QED BY <2>3, <3>1, <3>2, <3>3, <3>5, <4>1, <4>2
    <3>8. k = ids[n]
      BY <3>5, <3>6
    <3>9. before.ids \in Seq(Nat) /\ Len(before.ids) = n - 1
      BY <2>4 DEF SeedWrote
    <3>10. ids[n] \in Nat
      BY <3>3, <3>6
    <3> HIDE DEF before, k, found, row
    <3>11. \A m \in 1 .. n : Append(before.ids, ids[n])[m] = IF m = n THEN ids[n] ELSE before.ids[m]
      BY <2>1, <3>9, <3>10
    <3>12. Loop[n].ids = Append(before.ids, ids[n])
      BY <2>3, <3>8
    <3>13. \A m \in 1 .. n : Loop[n].ids[m] = ids[m]
      <4> SUFFICES ASSUME NEW m \in 1 .. n PROVE Loop[n].ids[m] = ids[m]
        OBVIOUS
      <4>1. Loop[n].ids[m] = IF m = n THEN ids[n] ELSE before.ids[m]
        BY <3>11, <3>12
      <4>2. m # n => m \in 1 .. n - 1
        BY <2>1
      <4> QED BY <3>1, <4>1, <4>2
    <3> QED BY <3>7, <3>13
  <2> HIDE DEF before
  <2> QED BY <2>5, <2>6
<1>8. Right(size)
  <2> HIDE DEF Right
  <2> DEFINE Wrong == {n \in 0 .. size : ~Right(n)}
  <2>1. CASE Wrong = {}
    BY <1>2, <2>1
  <2>2. CASE Wrong # {}
    <3>1. PICK n \in Wrong : \A m \in Wrong : n <= m
      <4>1. Wrong \subseteq Nat
        BY <1>2
      <4> HIDE DEF Wrong
      <4> QED BY <2>2, <4>1, LeastExists
    <3>2. n \in 1 .. size /\ n - 1 \notin Wrong /\ n - 1 \in 0 .. size
      <4>1. n \in 0 .. size /\ n # 0
        BY <1>6, <3>1
      <4>2. n - 1 \notin Wrong
        <5> HIDE DEF Wrong
        <5> QED BY <1>2, <3>1, <4>1
      <4> QED BY <1>2, <4>1, <4>2
    <3>3. Right(n)
      BY <1>7, <3>2
    <3> QED BY <3>1, <3>3
  <2> QED BY <2>1, <2>2
<1>9. SeedWrote(rows, Loop[size].rows, Loop[size].ids, size)
      /\ \A ids : SeedLeft(rows, ids) => Loop[size].rows = rows
  BY <1>8
<1> QED BY <1>1, <1>9 DEF size

-----------------------------------------------------------------------------
(* What the statements of a synchronization leave.                          *)

\* A row of an entry, under a row that has the parent's code.
IsEntry(rows, i, entry) ==
  /\ rows[i].code = entry.code /\ ~rows[i].isDeleted
  /\ \/ rows[i].parent = Top
     \/ rows[i].parent \in DOMAIN rows /\ rows[rows[i].parent].code = entry.parent

\* The first n entries have rows, no row has another code than before, and the rows
\* of no entry are as they were, enabled or not.
UpsertWrote(old, rows, list, n) ==
  /\ MenuRows(rows) /\ Len(old) <= Len(rows)
  /\ \A i \in DOMAIN old : i \in DOMAIN rows /\ rows[i].code = old[i].code
  /\ \A m \in 1 .. n : \E i \in DOMAIN rows : IsEntry(rows, i, list[m])
  /\ \A i \in DOMAIN rows :
       \/ \E m \in 1 .. n : rows[i].code = list[m].code
       \/ i \in DOMAIN old /\ rows[i].parent = old[i].parent
                           /\ rows[i].isDeleted = old[i].isDeleted

\* The rows among which a statement looks for a parent.
Parents(rows, entry, source) ==
  {i \in With(rows, "code", entry.parent) : source = "base_manifest" \/ rows[i].enabled}

LEMMA UnlistedEffect ==
  ASSUME NEW rows, MenuRows(rows), NEW source, NEW codes
  PROVE  LET off == Unlisted(rows, source, codes)
         IN  /\ MenuRows(off) /\ Len(off) = Len(rows) /\ DOMAIN off = DOMAIN rows
             /\ \A i \in DOMAIN rows :
                  /\ off[i].code = rows[i].code /\ off[i].path = rows[i].path
                  /\ off[i].parent = rows[i].parent /\ off[i].isDeleted = rows[i].isDeleted
                  /\ rows[i].code \in codes => off[i] = rows[i]
<1> DEFINE Off(i) == IF rows[i].source = source /\ rows[i].code \notin codes
                     THEN [rows[i] EXCEPT !.enabled = FALSE] ELSE rows[i]
           off == [i \in DOMAIN rows |-> Off(i)]
<1>1. /\ rows \in Seq(MenuRow) /\ Len(rows) \in Nat /\ DOMAIN rows = 1 .. Len(rows)
      /\ \A i \in DOMAIN rows : rows[i] \in MenuRow /\ rows[i].parent \in 0 .. Len(rows)
  BY DEF MenuRows
<1>2. ASSUME NEW i \in DOMAIN rows
      PROVE  /\ Off(i) \in MenuRow /\ Off(i).code = rows[i].code /\ Off(i).path = rows[i].path
             /\ Off(i).parent = rows[i].parent /\ Off(i).isDeleted = rows[i].isDeleted
             /\ rows[i].code \in codes => Off(i) = rows[i]
  BY <1>1 DEF MenuRow
<1>3. Unlisted(rows, source, codes) = off
  BY DEF Unlisted
<1> HIDE DEF Off
<1>4. off \in Seq(MenuRow) /\ Len(off) = Len(rows) /\ DOMAIN off = DOMAIN rows
      /\ \A i \in DOMAIN rows : off[i] = Off(i)
  BY <1>1, <1>2
<1> HIDE DEF off
<1>5. MenuRows(off)
  BY <1>1, <1>2, <1>4 DEF MenuRows
<1> QED BY <1>2, <1>3, <1>4, <1>5

\* One statement more.
LEMMA UpsertWritesOneMore ==
  ASSUME NEW old, NEW list \in {BaseMenus, ModuleMenus, <<>>}, NEW source \in Sources,
         NEW n \in 1 .. Len(list), NEW rows, UpsertWrote(old, rows, list, n - 1)
  PROVE  UpsertWrote(old, Put(rows, Only(With(rows, "code", list[n].code)),
                              ListedMenu(list[n], Only(Parents(rows, list[n], source)), source)),
                     list, n)
<1> DEFINE entry == list[n]
           parent == Only(Parents(rows, entry, source))
           row == ListedMenu(entry, parent, source)
           found == Only(With(rows, "code", entry.code))
           next == Put(rows, found, row)
           k == IF found = Top THEN Len(rows) + 1 ELSE found
<1>1. /\ MenuRows(rows) /\ Len(old) <= Len(rows)
      /\ rows \in Seq(MenuRow) /\ Len(rows) \in Nat /\ DOMAIN rows = 1 .. Len(rows)
      /\ \A i \in DOMAIN rows : rows[i].parent \in 0 .. Len(rows)
  BY DEF UpsertWrote, MenuRows
<1>2. entry \in Manifest /\ Len(list) \in Nat /\ n \in Nat
  BY MenuListShape
<1>3. \A ids \in SUBSET DOMAIN rows : Only(ids) \in ids \cup {Top} /\ Only(ids) \in 0 .. Len(rows)
  <2> SUFFICES ASSUME NEW ids \in SUBSET DOMAIN rows
               PROVE  Only(ids) \in ids \cup {Top} /\ Only(ids) \in 0 .. Len(rows)
    OBVIOUS
  <2>1. Only(ids) \in ids \cup {Top}
    BY OnlyIsOne DEF Only
  <2> QED BY <1>1, <2>1 DEF Top
<1>4. found \in 0 .. Len(rows) /\ (found # Top => rows[found].code = entry.code)
  <2>1. With(rows, "code", entry.code) \in SUBSET DOMAIN rows
        /\ \A i \in With(rows, "code", entry.code) : rows[i].code = entry.code
    BY DEF With
  <2> QED BY <1>3, <2>1
<1>5. parent \in 0 .. Len(rows)
      /\ (parent # Top => parent \in DOMAIN rows /\ rows[parent].code = entry.parent)
  <2>1. Parents(rows, entry, source) \in SUBSET DOMAIN rows
        /\ \A i \in Parents(rows, entry, source) : rows[i].code = entry.parent
    BY DEF With, Parents
  <2> QED BY <1>3, <2>1
<1>6. /\ row \in MenuRow /\ row.parent = parent /\ row.code = entry.code /\ ~row.isDeleted
  <2>1. parent \in Nat
    BY <1>1, <1>5
  <2> HIDE DEF parent, entry
  <2> QED BY <1>2, <2>1, ListedMenuShape
<1> HIDE DEF row, next, parent, found
<1>7. Writes(rows, k, row, next)
  BY <1>1, <1>4, <1>5, <1>6, PutEffect DEF next
<1> HIDE DEF k
<1>8. /\ MenuRows(next) /\ Len(rows) <= Len(next) /\ DOMAIN rows \subseteq DOMAIN next
      /\ DOMAIN next \subseteq DOMAIN rows \cup {k} /\ k \in DOMAIN next /\ next[k] = row
      /\ \A i \in DOMAIN rows : i # k => next[i] = rows[i]
  BY <1>7 DEF Writes
<1>9. \A i \in DOMAIN rows : next[i].code = rows[i].code
  <2>1. k \in DOMAIN rows => rows[k].code = entry.code
    BY <1>1, <1>4 DEF k
  <2> QED BY <1>6, <1>8, <2>1
<1>10. ASSUME NEW m \in 1 .. n PROVE \E i \in DOMAIN next : IsEntry(next, i, list[m])
  <2>1. CASE m = n
    <3>1. next[k].parent = parent /\ next[k].code = entry.code /\ ~next[k].isDeleted
      BY <1>6, <1>8
    <3>2. parent = Top \/ (parent \in DOMAIN next /\ next[parent].code = entry.parent)
      BY <1>5, <1>8, <1>9
    <3>3. IsEntry(next, k, list[m])
      BY <2>1, <3>1, <3>2 DEF IsEntry
    <3> QED BY <1>8, <3>3
  <2>2. CASE m # n
    <3>1. m \in 1 .. n - 1 /\ m \in 1 .. Len(list) /\ n \in 1 .. Len(list)
      BY <1>2, <2>2
    <3>2. PICK i \in DOMAIN rows : IsEntry(rows, i, list[m])
      BY <3>1 DEF UpsertWrote
    <3>3. rows[i].code # entry.code
      BY <2>2, <3>1, <3>2, MenuListShape DEF IsEntry
    <3>4. i # k
      BY <1>6, <1>8, <1>9, <3>3
    <3>5. next[i] = rows[i] /\ i \in DOMAIN next
      BY <1>8, <3>4
    <3>6. IsEntry(next, i, list[m])
      BY <1>8, <1>9, <3>2, <3>5 DEF IsEntry
    <3> QED BY <3>5, <3>6
  <2> QED BY <2>1, <2>2
<1>11. ASSUME NEW i \in DOMAIN next
       PROVE  \/ \E m \in 1 .. n : next[i].code = list[m].code
              \/ i \in DOMAIN old /\ next[i].parent = old[i].parent
                                  /\ next[i].isDeleted = old[i].isDeleted
  <2>1. n \in 1 .. n /\ \A m \in 1 .. n - 1 : m \in 1 .. n
    BY <1>2
  <2>2. CASE i = k
    BY <1>6, <1>8, <2>1, <2>2
  <2>3. CASE i # k
    <3>1. i \in DOMAIN rows /\ next[i] = rows[i]
      BY <1>8, <2>3
    <3> QED BY <2>1, <3>1 DEF UpsertWrote
  <2> QED BY <2>2, <2>3
<1>12. \A i \in DOMAIN old : i \in DOMAIN next /\ next[i].code = old[i].code
  BY <1>8, <1>9 DEF UpsertWrote
<1>13. Len(old) <= Len(next)
  <2>1. next \in Seq(MenuRow) /\ Len(next) \in Nat
    BY <1>8 DEF MenuRows
  <2> QED BY <1>1, <1>8, <2>1
<1>14. UpsertWrote(old, next, list, n)
  BY <1>8, <1>10, <1>11, <1>12, <1>13 DEF UpsertWrote
<1> QED BY <1>14 DEF next, row, found, parent

\* The rows that the statements find as they would write them.
UpsertFinds(rows, list, source) ==
  /\ MenuRows(rows) /\ Unique(rows)
  /\ \A m \in 1 .. Len(list) : \E i \in DOMAIN rows :
       rows[i] = ListedMenu(list[m], Only(Parents(rows, list[m], source)), source)

\* The statements write every entry, or meet a unique index, and change nothing
\* where they find it all.
LEMMA UpsertEffect ==
  ASSUME NEW list \in {BaseMenus, ModuleMenus, <<>>}, NEW source \in Sources,
         NEW start, MenuRows(start.rows)
  PROVE  LET done == Upserted(start, list, source)
             off == Unlisted(start.rows, source, Codes(list))
         IN  /\ UpsertWrote(start.rows, done.rows, list, Len(list))
             /\ done.kept => start.kept
             /\ done.kept /\ Unique(start.rows) => Unique(done.rows)
             /\ start.kept /\ UpsertFinds(off, list, source) => done.kept /\ done.rows = off
<1> DEFINE size == Len(list)
           off == Unlisted(start.rows, source, Codes(list))
           Line(rows, n) == ListedMenu(list[n], Only(Parents(rows, list[n], source)), source)
           WriteLine(rows, n) == Put(rows, Only(With(rows, "code", list[n].code)), Line(rows, n))
           Next(before, n) == [rows |-> WriteLine(before.rows, n),
                               kept |-> before.kept /\ Unique(WriteLine(before.rows, n))]
           Start == [rows |-> off, kept |-> start.kept]
           Loops(f, k) == f = [n \in 0 .. k |-> IF n = 0 THEN Start ELSE Next(f[n - 1], n)]
           Loop == CHOOSE f : Loops(f, size)
<1>1. Upserted(start, list, source) = Loop[size]
  BY DEF Upserted, Parents
<1>2. size \in Nat
  BY MenuListShape
<1> HIDE DEF Next, size, Start
<1>3. \E f : Loops(f, size)
  <2> DEFINE Endless == {k \in Nat : ~ \E f : Loops(f, k)}
  <2>1. CASE Endless = {}
    BY <1>2, <2>1
  <2>2. CASE Endless # {}
    <3>1. PICK k \in Endless : \A l \in Endless : k <= l
      <4>1. Endless \subseteq Nat
        OBVIOUS
      <4> HIDE DEF Endless
      <4> QED BY <2>2, <4>1, LeastExists
    <3>2. Loops([n \in 0 .. 0 |-> Start], 0)
      OBVIOUS
    <3>3. k # 0 /\ k \in Nat
      BY <3>1, <3>2
    <3>4. k - 1 \in Nat /\ k - 1 \notin Endless
      <4> HIDE DEF Endless
      <4> QED BY <3>1, <3>3
    <3>5. PICK f : Loops(f, k - 1)
      BY <3>4
    <3> DEFINE g == [n \in 0 .. k |-> IF n = k THEN Next(f[k - 1], k) ELSE f[n]]
    <3>6. \A n \in 0 .. k - 1 : f[n] = IF n = 0 THEN Start ELSE Next(f[n - 1], n)
      BY <3>5
    <3>7. \A n \in 0 .. k : g[n] = IF n = 0 THEN Start ELSE Next(g[n - 1], n)
      <4> SUFFICES ASSUME NEW n \in 0 .. k
                   PROVE  g[n] = IF n = 0 THEN Start ELSE Next(g[n - 1], n)
        OBVIOUS
      <4>1. CASE n = k
        <5>1. g[n] = Next(f[k - 1], k) /\ g[k - 1] = f[k - 1]
          BY <3>3, <4>1
        <5>2. QED BY <3>3, <4>1, <5>1
      <4>2. CASE n \in 1 .. k - 1
        <5>1. g[n] = f[n] /\ g[n - 1] = f[n - 1]
          BY <3>3, <4>2
        <5>2. QED BY <3>6, <4>2, <5>1
      <4>3. CASE n = 0
        <5>1. g[0] = f[0] /\ f[0] = Start
          BY <3>3, <3>6
        <5> HIDE DEF g
        <5>2. QED BY <4>3, <5>1
      <4>4. QED BY <3>3, <4>1, <4>2, <4>3
    <3>8. g = [n \in 0 .. k |-> g[n]]
      OBVIOUS
    <3> HIDE DEF g
    <3>9. Loops(g, k)
      BY <3>7, <3>8
    <3>10. QED BY <3>1, <3>9
  <2>3. QED BY <2>1, <2>2
<1>4. Loops(Loop, size)
  <2> HIDE DEF Loops
  <2> QED BY <1>3
<1> HIDE DEF Loop
<1>5. \A n \in 0 .. size : Loop[n] = IF n = 0 THEN Start ELSE Next(Loop[n - 1], n)
  BY <1>4
<1> DEFINE Right(n) ==
             /\ UpsertWrote(start.rows, Loop[n].rows, list, n)
             /\ Loop[n].kept => start.kept
             /\ Loop[n].kept /\ Unique(start.rows) => Unique(Loop[n].rows)
             /\ start.kept /\ UpsertFinds(off, list, source) => Loop[n].kept /\ Loop[n].rows = off
<1>6. Right(0)
  <2>1. Loop[0] = Start
    BY <1>2, <1>5
  <2>2. Loop[0].rows = off /\ Loop[0].kept = start.kept
    BY <2>1 DEF Start
  <2>3. /\ MenuRows(off) /\ Len(off) = Len(start.rows) /\ DOMAIN off = DOMAIN start.rows
        /\ \A i \in DOMAIN start.rows :
             /\ off[i].code = start.rows[i].code /\ off[i].path = start.rows[i].path
             /\ off[i].parent = start.rows[i].parent /\ off[i].isDeleted = start.rows[i].isDeleted
    BY UnlistedEffect
  <2> HIDE DEF off
  <2>4. Len(start.rows) <= Len(off)
    <3>1. off \in Seq(MenuRow) /\ Len(off) \in Nat
      BY <2>3 DEF MenuRows
    <3> QED BY <2>3, <3>1
  <2>5. UpsertWrote(start.rows, off, list, 0)
    BY <2>3, <2>4 DEF UpsertWrote
  <2>6. Unique(start.rows) => Unique(off)
    BY <2>3 DEF Unique
  <2> QED BY <2>2, <2>5, <2>6
<1>7. ASSUME NEW n \in 1 .. size, Right(n - 1) PROVE Right(n)
  <2> DEFINE before == Loop[n - 1]
  <2>1. n \in 1 .. Len(list) /\ n - 1 \in Nat /\ n \in 0 .. size /\ n # 0
    BY <1>2 DEF size
  <2>2. Loop[n] = [rows |-> WriteLine(before.rows, n),
                   kept |-> before.kept /\ Unique(WriteLine(before.rows, n))]
    BY <1>5, <2>1 DEF Next
  <2>3. /\ Loop[n].rows = WriteLine(before.rows, n)
        /\ Loop[n].kept <=> before.kept /\ Unique(WriteLine(before.rows, n))
    <3> DEFINE rows == WriteLine(before.rows, n)
               kept == before.kept /\ Unique(rows)
    <3>1. Loop[n] = [rows |-> rows, kept |-> kept]
      BY <2>2
    <3> HIDE DEF kept, rows
    <3>2. Loop[n].rows = rows /\ Loop[n].kept = kept
      BY <3>1
    <3> QED BY <3>2 DEF kept, rows
  <2>4. UpsertWrote(start.rows, Loop[n].rows, list, n)
    <3>1. UpsertWrote(start.rows, before.rows, list, n - 1)
      BY <1>7
    <3> HIDE DEF before
    <3> QED BY <2>1, <2>3, <3>1, UpsertWritesOneMore
  <2>5. /\ Loop[n].kept => start.kept
        /\ Loop[n].kept /\ Unique(start.rows) => Unique(Loop[n].rows)
    <3> HIDE DEF WriteLine
    <3> QED BY <1>7, <2>3
  <2>6. ASSUME start.kept, UpsertFinds(off, list, source) PROVE Loop[n].kept /\ Loop[n].rows = off
    <3>1. before.kept /\ before.rows = off
      BY <1>7, <2>6
    <3> HIDE DEF off, before
    <3>2. PICK i \in DOMAIN off : off[i] = Line(off, n)
      BY <2>1, <2>6 DEF UpsertFinds
    <3>3. off[i].code = list[n].code
      BY <3>2 DEF ListedMenu
    <3>4. With(off, "code", list[n].code) = {i}
      BY <2>6, <3>3 DEF UpsertFinds, Unique, With
    <3>5. Only({i}) = i
      <4>1. Only({i}) \in {i}
        BY OnlyIsOne
      <4> QED BY <4>1
    <3>6. off \in Seq(MenuRow) /\ i # Top
      <4>1. off \in Seq(MenuRow)
        BY <2>6 DEF UpsertFinds, MenuRows
      <4> QED BY <4>1 DEF Top
    <3>7. WriteLine(off, n) = off
      <4>1. WriteLine(off, n) = [off EXCEPT ![i] = Line(off, n)]
        BY <3>4, <3>5, <3>6 DEF Put
      <4>2. [off EXCEPT ![i] = off[i]] = off
        BY <3>6
      <4> HIDE DEF Line, WriteLine
      <4> QED BY <3>2, <4>1, <4>2
    <3>8. Unique(off)
      BY <2>6 DEF UpsertFinds
    <3> HIDE DEF WriteLine
    <3> QED BY <2>3, <3>1, <3>7, <3>8
  <2> HIDE DEF off
  <2> QED BY <2>4, <2>5, <2>6
<1>8. Right(size)
  <2> HIDE DEF Right
  <2> DEFINE Wrong == {n \in 0 .. size : ~Right(n)}
  <2>1. CASE Wrong = {}
    BY <1>2, <2>1
  <2>2. CASE Wrong # {}
    <3>1. PICK n \in Wrong : \A m \in Wrong : n <= m
      <4>1. Wrong \subseteq Nat
        BY <1>2
      <4> HIDE DEF Wrong
      <4> QED BY <2>2, <4>1, LeastExists
    <3>2. n \in 1 .. size /\ n - 1 \notin Wrong /\ n - 1 \in 0 .. size
      <4>1. n \in 0 .. size /\ n # 0
        BY <1>6, <3>1
      <4>2. n - 1 \notin Wrong
        <5> HIDE DEF Wrong
        <5> QED BY <1>2, <3>1, <4>1
      <4> QED BY <1>2, <4>1, <4>2
    <3>3. Right(n)
      BY <1>7, <3>2
    <3> QED BY <3>1, <3>3
  <2> QED BY <2>1, <2>2
<1>9. /\ UpsertWrote(start.rows, Loop[size].rows, list, size)
      /\ Loop[size].kept => start.kept
      /\ Loop[size].kept /\ Unique(start.rows) => Unique(Loop[size].rows)
      /\ start.kept /\ UpsertFinds(off, list, source) => Loop[size].kept /\ Loop[size].rows = off
  <2> HIDE DEF off
  <2> QED BY <1>8
<1> HIDE DEF off
<1>10. /\ UpsertWrote(start.rows, Loop[size].rows, list, Len(list))
       /\ Loop[size].kept => start.kept
       /\ Loop[size].kept /\ Unique(start.rows) => Unique(Loop[size].rows)
       /\ start.kept /\ UpsertFinds(off, list, source) => Loop[size].kept /\ Loop[size].rows = off
  BY <1>9 DEF size
<1> QED BY <1>1, <1>10 DEF off

-----------------------------------------------------------------------------
(* No menus in a circle.                                                    *)

LEMMA MenuRowsShape ==
  ASSUME NEW rows, MenuRows(rows)
  PROVE  /\ rows \in Seq(MenuRow) /\ Len(rows) \in Nat /\ DOMAIN rows = 1 .. Len(rows)
         /\ Top \notin DOMAIN rows
         /\ \A i \in DOMAIN rows :
              /\ rows[i].parent \in DOMAIN rows \cup {Top}
              /\ rows[i].code \in MenuCodes
<1>1. rows \in Seq(MenuRow) /\ Len(rows) \in Nat /\ DOMAIN rows = 1 .. Len(rows)
      /\ \A i \in DOMAIN rows : rows[i] \in MenuRow /\ rows[i].parent \in 0 .. Len(rows)
  BY DEF MenuRows
<1> QED BY <1>1 DEF Top, MenuRow

LEMMA SeedKeepsTree ==
  ASSUME NEW old, MenuRows(old), Grounded(old), LiveHangs(old),
         NEW rows, NEW ids, SeedWrote(old, rows, ids, Len(BaseMenus))
  PROVE  Grounded(rows) /\ LiveHangs(rows)
<1> DEFINE size == Len(BaseMenus)
           written == {ids[m] : m \in 1 .. size}
<1>1. /\ MenuRows(rows) /\ ids \in Seq(Nat) /\ Len(ids) = size /\ Top \notin DOMAIN rows
      /\ \A i \in DOMAIN old : i \in DOMAIN rows
      /\ \A i \in DOMAIN rows :
           (\E m \in 1 .. size : i = ids[m]) \/ (i \in DOMAIN old /\ rows[i] = old[i])
  BY MenuRowsShape DEF SeedWrote
<1>2. size \in Nat
  BY MenuListShape
<1>3. ASSUME NEW m \in 1 .. size
      PROVE  /\ ids[m] \in DOMAIN rows /\ ~rows[ids[m]].isDeleted
             /\ \/ rows[ids[m]].parent = Top
                \/ \E j \in 1 .. m - 1 : j \in 1 .. size /\ rows[ids[m]].parent = ids[j]
  <2>1. ids[m] \in DOMAIN rows
        /\ rows[ids[m]] = ListedMenu(BaseMenus[m], ParentIn(ids, m), "base_manifest")
    BY DEF SeedWrote
  <2>2. rows[ids[m]].parent = ParentIn(ids, m) /\ ~rows[ids[m]].isDeleted
    BY <2>1 DEF ListedMenu
  <2>3. m \in 1 .. Len(BaseMenus) + 1 /\ m \in 1 .. m /\ Agree(ids, ids, m - 1)
    BY <1>2 DEF Agree
  <2>4. ParentIn(ids, m) = Top \/ \E j \in 1 .. m - 1 : ParentIn(ids, m) = ids[j]
    BY <2>3, ParentInKept
  <2>5. \A j \in 1 .. m - 1 : j \in 1 .. size
    BY <1>2
  <2> QED BY <2>1, <2>2, <2>4, <2>5
<1>4. ASSUME NEW found \in SUBSET written, found # {}
      PROVE  \E i \in found : rows[i].parent \notin found
  <2> DEFINE places == {m \in 1 .. size : ids[m] \in found}
  <2>1. places \subseteq Nat /\ places # {}
    BY <1>2, <1>4
  <2>2. PICK m \in places : \A j \in places : m <= j
    <3> HIDE DEF places
    <3> QED BY <2>1, LeastExists
  <2>3. m \in 1 .. size /\ ids[m] \in found
    BY <2>2
  <2>4. \A j \in 1 .. m - 1 : j \in 1 .. size => ids[j] \notin found
    BY <1>2, <2>2, <2>3
  <2>5. Top \notin found
    BY <1>1, <1>3
  <2>6. rows[ids[m]].parent \notin found
    BY <1>3, <2>3, <2>4, <2>5
  <2> QED BY <2>3, <2>6
<1>5. written \in SUBSET DOMAIN rows /\ DOMAIN old \subseteq DOMAIN rows
  BY <1>1, <1>3
<1>6. ASSUME NEW i \in DOMAIN rows \ written
      PROVE  /\ i \in DOMAIN old
             /\ rows[i].parent = old[i].parent /\ rows[i].isDeleted = old[i].isDeleted
  BY <1>1
<1>7. ASSUME NEW i \in written
      PROVE  ~rows[i].isDeleted /\ (rows[i].parent = Top \/ rows[i].parent \in written)
  <2>1. PICK m \in 1 .. size : i = ids[m]
    OBVIOUS
  <2> QED BY <1>3, <2>1
<1> HIDE DEF written
<1> QED BY <1>4, <1>5, <1>6, <1>7, Rehanging

\* The rows of a code that an upsert lists are an entry's.
LEMMA UpsertedAreEntries ==
  ASSUME NEW list \in {BaseMenus, ModuleMenus, <<>>}, NEW old, NEW rows,
         UpsertWrote(old, rows, list, Len(list)), Unique(rows),
         NEW i \in DOMAIN rows, NEW m \in 1 .. Len(list), rows[i].code = list[m].code
  PROVE  IsEntry(rows, i, list[m])
<1>1. PICK j \in DOMAIN rows : IsEntry(rows, j, list[m])
  BY DEF UpsertWrote
<1>2. j = i
  BY <1>1 DEF IsEntry, Unique
<1> QED BY <1>1, <1>2

LEMMA UpsertsKeepTree ==
  ASSUME NEW old, MenuRows(old), Grounded(old), LiveHangs(old),
         NEW list \in {ModuleMenus, <<>>}, NEW base, NEW rows,
         UpsertWrote(old, base, BaseMenus, Len(BaseMenus)), Unique(base),
         UpsertWrote(base, rows, list, Len(list)), Unique(rows)
  PROVE  Grounded(rows) /\ LiveHangs(rows)
<1> DEFINE written == {i \in DOMAIN rows : rows[i].code \in Codes(BaseMenus) \cup Codes(list)}
<1>1. MenuRows(base) /\ MenuRows(rows)
      /\ (\A i \in DOMAIN old : i \in DOMAIN base /\ base[i].code = old[i].code)
      /\ (\A i \in DOMAIN base : i \in DOMAIN rows /\ rows[i].code = base[i].code)
      /\ Top \notin DOMAIN rows /\ Top \notin DOMAIN base
      /\ (\A i \in DOMAIN rows : rows[i].code \in MenuCodes)
  BY MenuRowsShape DEF UpsertWrote
<1>2. /\ \A c : c \in Codes(BaseMenus) <=> \E m \in 1 .. Len(BaseMenus) : c = BaseMenus[m].code
      /\ \A c : c \in Codes(list) <=> \E m \in 1 .. Len(list) : c = list[m].code
      /\ Codes(BaseMenus) \cap Codes(list) = {} /\ Codes(list) \subseteq Codes(ModuleMenus)
  <2>1. Codes(<<>>) = {}
    BY DEF Codes
  <2>2. DOMAIN BaseMenus = 1 .. Len(BaseMenus) /\ DOMAIN list = 1 .. Len(list)
    BY MenuListShape
  <2>3. (\A c : c \in Codes(BaseMenus) <=> \E m \in 1 .. Len(BaseMenus) : c = BaseMenus[m].code)
        /\ \A c : c \in Codes(list) <=> \E m \in 1 .. Len(list) : c = list[m].code
    BY <2>2 DEF Codes
  <2>4. Codes(list) \subseteq Codes(ModuleMenus)
    BY <2>1
  <2> QED BY <2>3, <2>4, MenusAssumption
<1>3. ASSUME NEW i \in DOMAIN rows \ written
      PROVE  /\ i \in DOMAIN old
             /\ rows[i].parent = old[i].parent /\ rows[i].isDeleted = old[i].isDeleted
  <2>1. /\ i \in DOMAIN base
        /\ rows[i].parent = base[i].parent /\ rows[i].isDeleted = base[i].isDeleted
    BY <1>2 DEF UpsertWrote
  <2>2. base[i].code \notin Codes(BaseMenus)
    BY <1>1, <2>1
  <2> QED BY <1>2, <2>1, <2>2 DEF UpsertWrote
<1>4. ASSUME NEW i \in DOMAIN rows, NEW m \in 1 .. Len(list), rows[i].code = list[m].code
      PROVE  IsEntry(rows, i, list[m])
  BY <1>4, UpsertedAreEntries
<1>5. ASSUME NEW i \in DOMAIN rows, NEW m \in 1 .. Len(BaseMenus), rows[i].code = BaseMenus[m].code
      PROVE  IsEntry(rows, i, BaseMenus[m])
  <2>1. rows[i].code \in Codes(BaseMenus) /\ rows[i].code \notin Codes(list)
    BY <1>2, <1>5
  <2>2. /\ i \in DOMAIN base
        /\ rows[i].parent = base[i].parent /\ rows[i].isDeleted = base[i].isDeleted
    BY <1>2, <2>1 DEF UpsertWrote
  <2>3. base[i].code = BaseMenus[m].code
    BY <1>1, <1>5, <2>2
  <2>4. IsEntry(base, i, BaseMenus[m])
    BY <2>2, <2>3, UpsertedAreEntries
  <2> QED BY <1>1, <1>5, <2>2, <2>4 DEF IsEntry
<1>6. ASSUME NEW i \in written
      PROVE  ~rows[i].isDeleted /\ (rows[i].parent = Top \/ rows[i].parent \in written)
  <2>1. CASE rows[i].code \in Codes(list)
    <3>1. PICK m \in 1 .. Len(list) : rows[i].code = list[m].code
      BY <1>2, <2>1
    <3>2. IsEntry(rows, i, list[m])
      BY <1>4, <3>1
    <3>3. list[m].parent \in Codes(BaseMenus) \cup Codes(list) \cup {NoParent}
      <4>1. list = ModuleMenus /\ m \in DOMAIN ModuleMenus
        BY <3>1, MenuListShape
      <4> QED BY <4>1, MenusAssumption
    <3>4. NoParent \notin MenuCodes
      BY MenusAssumption
    <3> QED BY <1>1, <3>2, <3>3, <3>4 DEF IsEntry
  <2>2. CASE rows[i].code \in Codes(BaseMenus)
    <3>1. PICK m \in 1 .. Len(BaseMenus) : rows[i].code = BaseMenus[m].code
      BY <1>2, <2>2
    <3>2. IsEntry(rows, i, BaseMenus[m])
      BY <1>5, <3>1
    <3>3. BaseMenus[m].parent \in Codes(BaseMenus) \cup {NoParent}
      <4>1. m \in DOMAIN BaseMenus /\ (\A j \in 1 .. m - 1 : j \in DOMAIN BaseMenus)
        BY <3>1, MenuListShape
      <4>2. BaseMenus[m].parent \in {BaseMenus[j].code : j \in 1 .. m - 1} \cup {NoParent}
        BY <4>1, MenusAssumption
      <4> QED BY <4>1, <4>2 DEF Codes
    <3>4. NoParent \notin MenuCodes
      BY MenusAssumption
    <3> QED BY <1>1, <3>2, <3>3, <3>4 DEF IsEntry
  <2> QED BY <2>1, <2>2
<1>7. ASSUME NEW found \in SUBSET written, found # {}, \A i \in found : rows[i].parent \in found
      PROVE  FALSE
  <2> DEFINE places == {m \in 1 .. Len(BaseMenus) : \E i \in found : rows[i].code = BaseMenus[m].code}
             codes == {rows[i].code : i \in found}
  <2>1. Top \notin found /\ NoParent \notin MenuCodes
    BY <1>1, MenusAssumption
  <2>2. CASE places # {}
    <3>1. PICK m \in places : \A j \in places : m <= j
      <4>1. places \subseteq Nat
        OBVIOUS
      <4> HIDE DEF places
      <4> QED BY <2>2, <4>1, LeastExists
    <3>2. PICK i \in found : rows[i].code = BaseMenus[m].code
      BY <3>1
    <3>3. m \in 1 .. Len(BaseMenus) /\ IsEntry(rows, i, BaseMenus[m])
      BY <1>5, <3>1, <3>2
    <3>4. rows[rows[i].parent].code = BaseMenus[m].parent /\ rows[i].parent \in found
      BY <1>7, <2>1, <3>2, <3>3 DEF IsEntry
    <3>5. PICK j \in 1 .. m - 1 : BaseMenus[m].parent = BaseMenus[j].code
      <4>1. m \in DOMAIN BaseMenus
        BY <3>3, MenuListShape
      <4>2. BaseMenus[m].parent \in {BaseMenus[j].code : j \in 1 .. m - 1} \cup {NoParent}
        BY <4>1, MenusAssumption
      <4> QED BY <1>1, <2>1, <3>4, <4>2
    <3>6. j \in places /\ j < m
      BY <3>3, <3>4, <3>5, MenuListShape
    <3> HIDE DEF places
    <3>7. m \in Nat /\ j \in Nat
      BY <3>3, <3>5
    <3> QED BY <3>1, <3>6, <3>7
  <2>3. CASE places = {}
    <3>1. \A i \in found : rows[i].code \in Codes(list)
      BY <1>2, <2>3
    <3>2. codes \in SUBSET Codes(ModuleMenus) /\ codes # {} /\ list = ModuleMenus
      <4>1. list # <<>>
        BY <1>2, <1>7, <3>1
      <4> QED BY <1>2, <1>7, <3>1, <4>1
    <3>3. PICK m \in DOMAIN ModuleMenus : ModuleMenus[m].code \in codes /\ ModuleMenus[m].parent \notin codes
      <4> HIDE DEF codes
      <4> QED BY <3>2, MenusAssumption
    <3>4. PICK i \in found : rows[i].code = ModuleMenus[m].code
      BY <3>3
    <3>5. IsEntry(rows, i, ModuleMenus[m])
      BY <1>4, <3>2, <3>3, <3>4, MenuListShape
    <3>6. rows[rows[i].parent].code = ModuleMenus[m].parent /\ rows[i].parent \in found
      BY <1>7, <2>1, <3>4, <3>5 DEF IsEntry
    <3> QED BY <3>3, <3>6
  <2> QED BY <2>2, <2>3
<1>8. written \in SUBSET DOMAIN rows /\ DOMAIN old \subseteq DOMAIN rows
  BY <1>1
<1> HIDE DEF written
<1> QED BY <1>3, <1>6, <1>7, <1>8, Rehanging

-----------------------------------------------------------------------------
(* The steps.                                                               *)

LEMMA SeedSettles ==
  ASSUME MenuRows(menus)
  PROVE  SeedSettlesBaseMenus
<1> DEFINE seeded == Seeded(menus)
           off == Unlisted(seeded, "base_manifest", Codes(BaseMenus))
           start == [rows |-> seeded, kept |-> TRUE]
           done == Upserted(start, BaseMenus, "base_manifest")
<1> SUFFICES ASSUME Unique(seeded)
             PROVE  /\ Seeded(seeded) = seeded /\ done.kept
                    /\ \A i \in DOMAIN seeded : seeded[i].code \in Codes(BaseMenus)
                                                  => done.rows[i] = seeded[i]
  BY DEF SeedSettlesBaseMenus
<1> HIDE DEF seeded
<1>1. PICK ids : SeedWrote(menus, seeded, ids, Len(BaseMenus))
  BY SeedEffect DEF seeded
<1>2. MenuRows(seeded) /\ \A m \in 1 .. Len(BaseMenus) :
        ids[m] \in DOMAIN seeded
        /\ seeded[ids[m]] = ListedMenu(BaseMenus[m], ParentIn(ids, m), "base_manifest")
  BY <1>1 DEF SeedWrote
<1>3. Seeded(seeded) = seeded
  <2>1. SeedLeft(seeded, ids)
    BY <1>2 DEF SeedLeft
  <2> QED BY <1>2, <2>1, SeedEffect
<1>4. /\ MenuRows(off) /\ DOMAIN off = DOMAIN seeded
      /\ \A i \in DOMAIN seeded :
           /\ off[i].code = seeded[i].code /\ off[i].path = seeded[i].path
           /\ seeded[i].code \in Codes(BaseMenus) => off[i] = seeded[i]
  BY <1>2, UnlistedEffect
<1> HIDE DEF off
<1>5. Unique(off)
  BY <1>4 DEF Unique
<1>6. \A m \in 1 .. Len(BaseMenus) :
        /\ ids[m] \in DOMAIN off /\ off[ids[m]] = seeded[ids[m]]
        /\ off[ids[m]].code = BaseMenus[m].code
  <2> SUFFICES ASSUME NEW m \in 1 .. Len(BaseMenus)
               PROVE  /\ ids[m] \in DOMAIN off /\ off[ids[m]] = seeded[ids[m]]
                      /\ off[ids[m]].code = BaseMenus[m].code
    OBVIOUS
  <2>1. ids[m] \in DOMAIN seeded /\ seeded[ids[m]].code = BaseMenus[m].code
    <3>1. ids[m] \in DOMAIN seeded
          /\ seeded[ids[m]] = ListedMenu(BaseMenus[m], ParentIn(ids, m), "base_manifest")
      BY <1>2
    <3> QED BY <3>1 DEF ListedMenu
  <2>2. BaseMenus[m].code \in Codes(BaseMenus)
    BY MenuListShape
  <2> QED BY <1>4, <2>1, <2>2
<1>7. ASSUME NEW m \in 1 .. Len(BaseMenus)
      PROVE  Only(Parents(off, BaseMenus[m], "base_manifest")) = ParentIn(ids, m)
  <2> DEFINE above == {j \in 1 .. m - 1 : BaseMenus[j].code = BaseMenus[m].parent}
             rows == With(off, "code", BaseMenus[m].parent)
  <2>1. Parents(off, BaseMenus[m], "base_manifest") = rows
    BY DEF Parents
  <2>2. \A j \in 1 .. m - 1 : j \in 1 .. Len(BaseMenus)
    BY MenuListShape
  <2>3. BaseMenus[m].parent \in {BaseMenus[j].code : j \in 1 .. m - 1} \cup {NoParent}
    <3>1. m \in DOMAIN BaseMenus
      BY MenuListShape
    <3> QED BY <3>1, MenusAssumption
  <2>4. CASE BaseMenus[m].parent = NoParent
    <3>1. NoParent \notin MenuCodes
      BY MenusAssumption
    <3>2. above = {}
      BY <2>2, <2>4, <3>1, MenuListShape
    <3>3. rows = {}
      BY <1>4, <2>4, <3>1, MenuRowsShape DEF With
    <3> QED BY <2>1, <3>2, <3>3 DEF Only, ParentIn
  <2>5. CASE BaseMenus[m].parent # NoParent
    <3>1. PICK j \in 1 .. m - 1 : BaseMenus[m].parent = BaseMenus[j].code
      BY <2>3, <2>5
    <3>2. j \in 1 .. Len(BaseMenus)
      BY <2>2
    <3>3. above = {j}
      BY <2>2, <3>1, <3>2, MenuListShape
    <3>4. rows = {ids[j]}
      BY <1>5, <1>6, <3>1, <3>2 DEF With, Unique
    <3>5. Only({j}) = j /\ Only({ids[j]}) = ids[j]
      <4>1. Only({j}) \in {j} /\ Only({ids[j]}) \in {ids[j]}
        BY OnlyIsOne
      <4> QED BY <4>1
    <3>6. ParentIn(ids, m) = ids[Only(above)]
      BY <3>3 DEF ParentIn
    <3> QED BY <2>1, <3>3, <3>4, <3>5, <3>6
  <2> QED BY <2>4, <2>5
<1>8. UpsertFinds(off, BaseMenus, "base_manifest")
  <2>1. ASSUME NEW m \in 1 .. Len(BaseMenus)
        PROVE  \E i \in DOMAIN off :
                 off[i] = ListedMenu(BaseMenus[m], Only(Parents(off, BaseMenus[m], "base_manifest")),
                                     "base_manifest")
    BY <1>2, <1>6, <1>7
  <2> QED BY <1>4, <1>5, <2>1 DEF UpsertFinds
<1>9. done.kept /\ done.rows = off
  <2>1. start.rows = seeded /\ start.kept
    OBVIOUS
  <2> HIDE DEF start
  <2>2. "base_manifest" \in Sources /\ MenuRows(start.rows)
    BY <1>2, <2>1 DEF Sources
  <2>3. UpsertFinds(Unlisted(start.rows, "base_manifest", Codes(BaseMenus)), BaseMenus, "base_manifest")
    BY <1>8, <2>1 DEF off
  <2> QED BY <2>1, <2>2, <2>3, UpsertEffect DEF off
<1> QED BY <1>3, <1>4, <1>9

LEMMA MenuTypes ==
  ASSUME NEW rows, MenuRows(rows), Len(rows) <= MaxMenus
  PROVE  rows \in Seq(Menu) /\ \A i \in DOMAIN rows : rows[i].parent \in 0 .. Len(rows)
<1>1. /\ rows \in Seq(MenuRow) /\ Len(rows) \in Nat /\ DOMAIN rows = 1 .. Len(rows)
      /\ \A i \in DOMAIN rows : rows[i] \in MenuRow /\ rows[i].parent \in 0 .. Len(rows)
  BY DEF MenuRows
<1>2. \A i \in DOMAIN rows : rows[i] \in Menu
  <2> SUFFICES ASSUME NEW i \in DOMAIN rows PROVE rows[i] \in Menu
    OBVIOUS
  <2>1. rows[i] \in MenuRow /\ rows[i].parent \in 0 .. MaxMenus
    BY <1>1, MenusAssumption
  <2> QED BY <2>1 DEF Menu, MenuRow
<1> QED BY <1>1, <1>2

LEMMA MenusAreRows ==
  ASSUME MenusTypeOK
  PROVE  MenuRows(menus)
<1>1. /\ menus \in Seq(Menu) /\ Len(menus) \in Nat
      /\ \A i \in DOMAIN menus : menus[i] \in Menu /\ menus[i].parent \in 0 .. Len(menus)
  BY DEF MenusTypeOK
<1>2. \A i \in DOMAIN menus : menus[i] \in MenuRow
  BY <1>1 DEF Menu, MenuRow
<1> QED BY <1>1, <1>2 DEF MenuRows

LEMMA MenusStart == MenusInit => MenusInv
<1> SUFFICES ASSUME MenusInit PROVE MenusInv
  OBVIOUS
<1>1. menus = Seeded(<<>>) /\ bindings = {}
  BY DEF MenusInit
<1>2. MenuRows(<<>>) /\ Grounded(<<>>) /\ LiveHangs(<<>>) /\ Len(<<>>) = 0 /\ DOMAIN <<>> = {}
  BY DEF MenuRows, Grounded, LiveHangs
<1>3. PICK ids : SeedWrote(<<>>, menus, ids, Len(BaseMenus))
  BY <1>1, <1>2, SeedEffect
<1>4. Grounded(menus) /\ LiveHangs(menus)
  BY <1>2, <1>3, SeedKeepsTree
<1>5. /\ MenuRows(menus) /\ Len(menus) <= Len(BaseMenus)
      /\ \A m \in 1 .. Len(BaseMenus) :
           menus[ids[m]] = ListedMenu(BaseMenus[m], ParentIn(ids, m), "base_manifest")
      /\ \A i \in DOMAIN menus : \E m \in 1 .. Len(BaseMenus) : i = ids[m]
  BY <1>2, <1>3, MenuListShape DEF SeedWrote
<1>6. Unique(menus)
  <2>1. \A m \in 1 .. Len(BaseMenus) : menus[ids[m]].code = BaseMenus[m].code
                                       /\ menus[ids[m]].path = BaseMenus[m].path
    <3> SUFFICES ASSUME NEW m \in 1 .. Len(BaseMenus)
                 PROVE  menus[ids[m]].code = BaseMenus[m].code
                        /\ menus[ids[m]].path = BaseMenus[m].path
      OBVIOUS
    <3>1. menus[ids[m]] = ListedMenu(BaseMenus[m], ParentIn(ids, m), "base_manifest")
      BY <1>5
    <3> QED BY <3>1 DEF ListedMenu
  <2>2. ASSUME NEW i \in DOMAIN menus, NEW j \in DOMAIN menus, i # j
        PROVE  menus[i].code # menus[j].code /\ menus[i].path # menus[j].path
    <3>1. PICK m \in 1 .. Len(BaseMenus), n \in 1 .. Len(BaseMenus) : i = ids[m] /\ j = ids[n]
      BY <1>5
    <3>2. m # n
      BY <2>2, <3>1
    <3> QED BY <2>1, <3>1, <3>2, MenuListShape
  <2> QED BY <2>2 DEF Unique
<1>7. MenusTypeOK
  <2>1. Len(menus) <= MaxMenus
    <3>1. Len(menus) \in Nat
      BY <1>5 DEF MenuRows
    <3> QED BY <1>5, <3>1, MenuListShape, MenusAssumption
  <2> QED BY <1>1, <1>5, <2>1, MenuTypes DEF MenusTypeOK
<1> QED BY <1>1, <1>4, <1>6, <1>7 DEF MenusInv

LEMMA CreateKeepsMenus ==
  ASSUME MenusInv, NEW code \in MenuCodes, NEW path \in MenuPaths, NEW parent \in {Top} \cup MenuIds,
         CreateMenu(code, path, parent)
  PROVE  MenusInv'
<1> DEFINE row == [code |-> code, path |-> path, parent |-> parent, enabled |-> TRUE,
                   isDeleted |-> FALSE, source |-> "manual"]
           k == Len(menus) + 1
<1>1. /\ parent = Top \/ Live(parent)
      /\ With(menus, "code", code) = {} /\ With(menus, "path", path) = {}
      /\ Len(menus) < MaxMenus
      /\ menus' = Append(menus, row) /\ bindings' = bindings
  BY DEF CreateMenu
<1>2. MenuRows(menus) /\ MenusTypeOK /\ Unique(menus) /\ Grounded(menus) /\ LiveHangs(menus)
      /\ \A i \in bindings : Live(i)
  BY MenusAreRows DEF MenusInv
<1>3. /\ menus \in Seq(MenuRow) /\ Len(menus) \in Nat /\ DOMAIN menus = 1 .. Len(menus)
      /\ Top \notin DOMAIN menus
      /\ \A i \in DOMAIN menus : menus[i].parent \in DOMAIN menus \cup {Top}
  BY <1>2, MenuRowsShape
<1>4. parent \in Nat /\ parent \in DOMAIN menus \cup {Top}
  BY <1>1, <1>3 DEF Live, Top
<1>5. row \in MenuRow
  BY <1>4 DEF MenuRow, Sources
<1> HIDE DEF row
<1>6. /\ menus' \in Seq(MenuRow) /\ Len(menus') = k /\ DOMAIN menus' = 1 .. k
      /\ menus'[k] = row /\ \A i \in DOMAIN menus : menus'[i] = menus[i]
  BY <1>1, <1>3, <1>5
<1>7. /\ row.parent = parent /\ row.code = code /\ row.path = path /\ ~row.isDeleted
      /\ DOMAIN menus' = DOMAIN menus \cup {k} /\ k \notin DOMAIN menus /\ k # Top
  BY <1>3, <1>6 DEF row, Top
<1>8. MenuRows(menus')
  <2>1. \A i \in DOMAIN menus' : menus'[i].parent \in DOMAIN menus \cup {Top}
    BY <1>3, <1>4, <1>6, <1>7
  <2>2. \A j \in DOMAIN menus \cup {Top} : j \in 0 .. Len(menus')
    BY <1>3, <1>6 DEF Top
  <2> QED BY <1>6, <2>1, <2>2 DEF MenuRows
<1>9. Len(menus') <= MaxMenus
  BY <1>1, <1>3, <1>6, MenusAssumption
<1>10. Unique(menus')
  <2>1. \A i \in DOMAIN menus : menus[i].code # code /\ menus[i].path # path
    BY <1>1 DEF With
  <2> QED BY <1>2, <1>6, <1>7, <2>1 DEF Unique
<1>11. Grounded(menus')
  <2> SUFFICES ASSUME NEW ids \in SUBSET DOMAIN menus', ids # {}
               PROVE  \E i \in ids : menus'[i].parent \notin ids
    BY DEF Grounded
  <2>1. CASE ids \ {k} = {}
    BY <1>4, <1>6, <1>7, <2>1
  <2>2. CASE ids \ {k} # {}
    <3>1. ids \ {k} \in SUBSET DOMAIN menus
      BY <1>7
    <3>2. PICK i \in ids \ {k} : menus[i].parent \notin ids \ {k}
      BY <1>2, <2>2, <3>1 DEF Grounded
    <3>3. menus[i].parent # k
      BY <1>3, <1>7, <3>1, <3>2
    <3> QED BY <1>6, <3>1, <3>2, <3>3
  <2> QED BY <2>1, <2>2
<1>12. LiveHangs(menus')
  <2> SUFFICES ASSUME NEW i \in DOMAIN menus', ~menus'[i].isDeleted, menus'[i].parent # Top
               PROVE  ~menus'[menus'[i].parent].isDeleted
    BY DEF LiveHangs
  <2>1. CASE i = k
    BY <1>1, <1>4, <1>6, <1>7, <2>1 DEF Live
  <2>2. CASE i # k
    <3>1. i \in DOMAIN menus /\ menus'[i] = menus[i]
      BY <1>6, <1>7, <2>2
    <3>2. menus[i].parent \in DOMAIN menus
      BY <1>3, <3>1
    <3> QED BY <1>2, <1>6, <3>1, <3>2 DEF LiveHangs
  <2> QED BY <2>1, <2>2
<1>13. \A i \in bindings' : Live(i)'
  BY <1>1, <1>2, <1>6, <1>7 DEF Live
<1>14. MenusTypeOK'
  BY <1>1, <1>2, <1>8, <1>9, MenuTypes DEF MenusTypeOK
<1> QED BY <1>10, <1>11, <1>12, <1>13, <1>14 DEF MenusInv

LEMMA UpdateKeepsMenus ==
  ASSUME MenusInv, NEW i \in MenuIds, NEW code \in MenuCodes, NEW path \in MenuPaths,
         NEW parent \in {Top} \cup MenuIds, NEW enabled \in BOOLEAN,
         UpdateMenu(i, code, path, parent, enabled)
  PROVE  MenusInv'
<1>1. MenuRows(menus) /\ MenusTypeOK /\ Unique(menus) /\ Grounded(menus) /\ LiveHangs(menus)
      /\ \A j \in bindings : Live(j)
  BY MenusAreRows DEF MenusInv
<1>2. /\ menus \in Seq(MenuRow) /\ Len(menus) \in Nat /\ DOMAIN menus = 1 .. Len(menus)
      /\ Top \notin DOMAIN menus
      /\ \A j \in DOMAIN menus : menus[j].parent \in DOMAIN menus \cup {Top}
  BY <1>1, MenuRowsShape
<1> DEFINE row == [code |-> code, path |-> path, parent |-> parent, enabled |-> enabled,
                   isDeleted |-> menus[i].isDeleted, source |-> menus[i].source]
<1>3. /\ i \in DOMAIN menus /\ ~menus[i].isDeleted
      /\ With(menus, "code", code) \subseteq {i} /\ With(menus, "path", path) \subseteq {i}
      /\ \/ parent \in {menus[i].parent, Top}
         \/ parent # i /\ Live(parent) /\ ~IsDescendantMenu(parent, i)
      /\ menus' = [menus EXCEPT ![i] = row] /\ bindings' = bindings
  BY DEF UpdateMenu, Live
<1>4. parent \in Nat /\ parent \in DOMAIN menus \cup {Top}
  BY <1>2, <1>3 DEF Live, Top
<1>5. row \in MenuRow
  <2>1. menus[i] \in MenuRow
    BY <1>2, <1>3
  <2>2. menus[i].isDeleted \in BOOLEAN /\ menus[i].source \in Sources
    BY <2>1 DEF MenuRow
  <2> QED BY <1>4, <2>2 DEF MenuRow
<1>6. row.parent = parent /\ row.code = code /\ row.path = path /\ row.isDeleted = menus[i].isDeleted
  OBVIOUS
<1> HIDE DEF row
<1>7. /\ menus' \in Seq(MenuRow) /\ Len(menus') = Len(menus) /\ DOMAIN menus' = DOMAIN menus
      /\ menus'[i] = row /\ \A j \in DOMAIN menus : j # i => menus'[j] = menus[j]
  BY <1>2, <1>3, <1>5
<1>8. MenuRows(menus') /\ Len(menus') <= MaxMenus
  <2>1. \A j \in DOMAIN menus' : menus'[j].parent \in DOMAIN menus \cup {Top}
    BY <1>2, <1>4, <1>6, <1>7
  <2>2. \A j \in DOMAIN menus \cup {Top} : j \in 0 .. Len(menus')
    BY <1>2, <1>7 DEF Top
  <2>3. Len(menus) <= MaxMenus
    BY <1>1 DEF MenusTypeOK
  <2> QED BY <1>7, <2>1, <2>2, <2>3 DEF MenuRows
<1>9. Unique(menus')
  <2>1. \A j \in DOMAIN menus : j # i => menus[j].code # code /\ menus[j].path # path
    BY <1>3 DEF With
  <2> QED BY <1>1, <1>6, <1>7, <2>1 DEF Unique
<1>10. ASSUME NEW ids \in SUBSET DOMAIN menus, ids # {}, \A j \in ids : menus'[j].parent \in ids
       PROVE  FALSE
  <2>1. CASE i \notin ids
    <3>1. \A j \in ids : menus[j].parent \in ids
      BY <1>7, <1>10, <2>1
    <3> QED BY <1>1, <1>10, <3>1 DEF Grounded
  <2>2. CASE i \in ids /\ parent = menus[i].parent
    <3>1. \A j \in ids : menus[j].parent \in ids
      BY <1>6, <1>7, <1>10, <2>2
    <3> QED BY <1>1, <1>10, <3>1 DEF Grounded
  <2>3. CASE i \in ids /\ parent = Top
    BY <1>2, <1>6, <1>7, <1>10, <2>3
  <2>4. CASE i \in ids /\ parent # i /\ Live(parent) /\ ~IsDescendantMenu(parent, i)
    <3> DEFINE above == Upwards(parent)
    <3>1. parent \in DOMAIN menus
      BY <2>4 DEF Live
    <3>2. /\ parent \in above /\ IsClosed(above) /\ above \subseteq DOMAIN menus
          /\ above \subseteq {parent} \cup Upwards(menus[parent].parent)
      BY <1>1, <3>1, UpwardsEffect
    <3>3. i \notin above
      BY <2>4, <3>2 DEF IsDescendantMenu
    <3> HIDE DEF above
    <3>4. parent \in ids
      BY <1>6, <1>7, <1>10, <2>4
    <3>5. ASSUME NEW j \in ids \cap above PROVE menus[j].parent \in ids \cap above
      <4>1. menus[j].parent \in ids
        BY <1>7, <1>10, <3>3
      <4>2. menus[j].parent # Top
        BY <1>2, <4>1
      <4> QED BY <3>2, <4>1, <4>2 DEF IsClosed
    <3>6. ids \cap above \in SUBSET DOMAIN menus /\ ids \cap above # {}
      BY <3>2, <3>4
    <3> QED BY <1>1, <3>5, <3>6 DEF Grounded
  <2> QED BY <1>3, <2>1, <2>2, <2>3, <2>4
<1>11. LiveHangs(menus')
  <2> SUFFICES ASSUME NEW j \in DOMAIN menus', ~menus'[j].isDeleted, menus'[j].parent # Top
               PROVE  ~menus'[menus'[j].parent].isDeleted
    BY DEF LiveHangs
  <2>1. \A k \in DOMAIN menus : menus'[k].isDeleted = menus[k].isDeleted
    BY <1>6, <1>7
  <2>2. CASE j = i
    <3>1. menus'[j].parent = parent /\ parent \in DOMAIN menus
      BY <1>4, <1>6, <1>7, <2>2
    <3>2. ~menus[parent].isDeleted
      BY <1>1, <1>3, <3>1, <1>2 DEF Live, LiveHangs
    <3> QED BY <2>1, <3>1, <3>2
  <2>3. CASE j # i
    <3>1. menus'[j].parent = menus[j].parent /\ menus[j].parent \in DOMAIN menus /\ j \in DOMAIN menus
      BY <1>2, <1>7, <2>3
    <3>2. ~menus[menus[j].parent].isDeleted
      BY <1>1, <2>1, <3>1 DEF LiveHangs
    <3> QED BY <2>1, <3>1, <3>2
  <2> QED BY <2>2, <2>3
<1>12. \A j \in bindings' : Live(j)'
  BY <1>1, <1>3, <1>6, <1>7 DEF Live
<1>13. MenusTypeOK'
  BY <1>1, <1>3, <1>8, MenuTypes DEF MenusTypeOK
<1> QED BY <1>7, <1>9, <1>10, <1>11, <1>12, <1>13 DEF MenusInv, Grounded

LEMMA DeleteKeepsMenus ==
  ASSUME MenusInv, NEW i \in MenuIds, DeleteMenu(i)
  PROVE  MenusInv'
<1>1. MenuRows(menus) /\ MenusTypeOK /\ Unique(menus) /\ Grounded(menus) /\ LiveHangs(menus)
      /\ \A j \in bindings : Live(j)
  BY MenusAreRows DEF MenusInv
<1>2. /\ menus \in Seq(MenuRow) /\ Len(menus) \in Nat /\ DOMAIN menus = 1 .. Len(menus)
      /\ Top \notin DOMAIN menus
      /\ \A j \in DOMAIN menus : menus[j] \in MenuRow /\ menus[j].parent \in DOMAIN menus \cup {Top}
                                 /\ menus[j].parent \in 0 .. Len(menus)
  BY <1>1, MenuRowsShape DEF MenuRows
<1> DEFINE affected == {i} \cup {j \in DOMAIN menus : Live(j) /\ IsDescendantMenu(j, i)}
           After(j) == IF j \in affected THEN Deleted(menus[j]) ELSE menus[j]
<1>3. i \in DOMAIN menus /\ menus' = [j \in DOMAIN menus |-> After(j)] /\ bindings' = bindings \ affected
  BY DEF DeleteMenu, Live
<1> HIDE DEF affected
<1>4. ASSUME NEW j \in DOMAIN menus
      PROVE  /\ After(j) \in MenuRow /\ After(j).code = menus[j].code
             /\ After(j).path = menus[j].path /\ After(j).parent = menus[j].parent
             /\ After(j).isDeleted <=> (menus[j].isDeleted \/ j \in affected)
  <2>1. menus[j] \in MenuRow
    BY <1>2
  <2>2. CASE j \in affected
    <3>1. /\ Deleted(menus[j]) \in MenuRow /\ Deleted(menus[j]).code = menus[j].code
          /\ Deleted(menus[j]).path = menus[j].path /\ Deleted(menus[j]).parent = menus[j].parent
          /\ Deleted(menus[j]).isDeleted
      BY <2>1 DEF MenuRow, Deleted
    <3> QED BY <2>2, <3>1
  <2>3. CASE j \notin affected
    BY <2>1, <2>3
  <2> QED BY <2>2, <2>3
<1> HIDE DEF After
<1>5. /\ menus' \in Seq(MenuRow) /\ Len(menus') = Len(menus) /\ DOMAIN menus' = DOMAIN menus
      /\ \A j \in DOMAIN menus : menus'[j] = After(j)
  BY <1>2, <1>3, <1>4
<1>6. MenuRows(menus') /\ Len(menus') <= MaxMenus
  BY <1>1, <1>2, <1>4, <1>5 DEF MenuRows, MenusTypeOK
<1>7. Unique(menus') /\ Grounded(menus')
  BY <1>1, <1>4, <1>5 DEF Unique, Grounded
<1>8. LiveHangs(menus')
  <2> SUFFICES ASSUME NEW j \in DOMAIN menus, ~menus'[j].isDeleted, menus[j].parent # Top
               PROVE  ~menus'[menus[j].parent].isDeleted
    BY <1>4, <1>5 DEF LiveHangs
  <2> DEFINE p == menus[j].parent
  <2>1. ~menus[j].isDeleted /\ j \notin affected /\ p \in DOMAIN menus /\ ~menus[p].isDeleted
    BY <1>1, <1>2, <1>4, <1>5 DEF LiveHangs
  <2>2. Live(j) /\ ~IsDescendantMenu(j, i)
    BY <2>1 DEF Live, affected
  <2>3. Upwards(p) \subseteq DOMAIN menus /\ p \in Upwards(p) /\ IsClosed(Upwards(p))
    BY <1>1, <2>1, UpwardsEffect
  <2>4. p # i
    BY <2>2, <2>3 DEF IsDescendantMenu
  <2>5. ~IsDescendantMenu(p, i)
    <3>1. Upwards(menus[p].parent) \subseteq Upwards(p)
      <4>1. CASE menus[p].parent = Top
        BY <1>1, <4>1, UpwardsEffect
      <4>2. CASE menus[p].parent # Top
        <5>1. menus[p].parent \in Upwards(p) /\ menus[p].parent \in DOMAIN menus
          BY <1>2, <2>1, <2>3, <4>2 DEF IsClosed
        <5> QED BY <1>1, <2>3, <5>1, UpwardsEffect
      <4> QED BY <4>1, <4>2
    <3> QED BY <2>2, <3>1 DEF IsDescendantMenu
  <2>6. p \notin affected
    BY <2>4, <2>5 DEF affected
  <2> QED BY <1>4, <1>5, <2>1, <2>6
<1>9. \A j \in bindings' : Live(j)'
  BY <1>1, <1>3, <1>4, <1>5 DEF Live
<1>10. MenusTypeOK'
  BY <1>1, <1>3, <1>6, MenuTypes DEF MenusTypeOK
<1> QED BY <1>7, <1>8, <1>9, <1>10 DEF MenusInv

LEMMA ManifestsKeepMenus ==
  ASSUME MenusInv, Seed \/ \E shipped \in BOOLEAN : Synchronize(shipped)
  PROVE  MenusInv'
<1>1. MenuRows(menus) /\ MenusTypeOK /\ Unique(menus) /\ Grounded(menus) /\ LiveHangs(menus)
      /\ \A j \in bindings : Live(j)
  BY MenusAreRows DEF MenusInv
<1>2. /\ MenuRows(menus') /\ Len(menus') <= MaxMenus /\ Unique(menus')
      /\ Grounded(menus') /\ LiveHangs(menus')
      /\ \A j \in DOMAIN menus : j \in DOMAIN menus'
      /\ bindings' \subseteq bindings
      /\ \A j \in DOMAIN menus : ~menus[j].isDeleted => ~menus'[j].isDeleted
  <2>1. CASE Seed
    <3>1. /\ menus' = Seeded(menus) /\ Len(menus') <= MaxMenus /\ Unique(menus')
          /\ bindings' = bindings
      BY <2>1 DEF Seed
    <3>2. PICK ids : SeedWrote(menus, menus', ids, Len(BaseMenus))
      BY <1>1, <3>1, SeedEffect
    <3>3. Grounded(menus') /\ LiveHangs(menus')
      BY <1>1, <3>2, SeedKeepsTree
    <3>4. MenuRows(menus') /\ \A j \in DOMAIN menus : j \in DOMAIN menus'
      BY <3>2 DEF SeedWrote
    <3>5. ASSUME NEW j \in DOMAIN menus, ~menus[j].isDeleted PROVE ~menus'[j].isDeleted
      <4>1. CASE \E m \in 1 .. Len(BaseMenus) : j = ids[m]
        <5>1. PICK m \in 1 .. Len(BaseMenus) : j = ids[m]
          BY <4>1
        <5>2. menus'[j] = ListedMenu(BaseMenus[m], ParentIn(ids, m), "base_manifest")
          BY <3>2, <5>1 DEF SeedWrote
        <5> QED BY <5>2 DEF ListedMenu
      <4>2. CASE ~ \E m \in 1 .. Len(BaseMenus) : j = ids[m]
        BY <3>2, <3>4, <3>5, <4>2 DEF SeedWrote
      <4> QED BY <4>1, <4>2
    <3> QED BY <3>1, <3>3, <3>4, <3>5
  <2>2. CASE \E shipped \in BOOLEAN : Synchronize(shipped)
    <3>1. PICK shipped \in BOOLEAN : Synchronize(shipped)
      BY <2>2
    <3> DEFINE list == IF shipped THEN ModuleMenus ELSE <<>>
               start == [rows |-> menus, kept |-> TRUE]
               base == Upserted(start, BaseMenus, "base_manifest")
               done == Upserted(base, list, "business_module")
    <3>2. list \in {ModuleMenus, <<>>} /\ start.rows = menus /\ start.kept = TRUE
      OBVIOUS
    <3>3. /\ done.kept /\ Len(done.rows) <= MaxMenus /\ menus' = done.rows /\ bindings' \subseteq bindings
      BY <3>1 DEF Synchronize, Synchronized
    <3>4. /\ UpsertWrote(menus, base.rows, BaseMenus, Len(BaseMenus))
          /\ base.kept => Unique(base.rows)
      <4> HIDE DEF start
      <4>1. "base_manifest" \in Sources
        BY DEF Sources
      <4> QED BY <1>1, <3>2, <4>1, UpsertEffect
    <3> HIDE DEF base, list
    <3>5. MenuRows(base.rows)
      BY <3>4 DEF UpsertWrote
    <3>6. /\ UpsertWrote(base.rows, done.rows, list, Len(list))
          /\ done.kept => base.kept
          /\ done.kept /\ Unique(base.rows) => Unique(done.rows)
      <4>1. "business_module" \in Sources /\ list \in {BaseMenus, ModuleMenus, <<>>}
        BY <3>2 DEF Sources
      <4> QED BY <3>5, <4>1, UpsertEffect
    <3> HIDE DEF done
    <3>7. Unique(base.rows) /\ Unique(done.rows)
      BY <3>3, <3>4, <3>6
    <3>8. Grounded(done.rows) /\ LiveHangs(done.rows)
      BY <1>1, <3>2, <3>4, <3>6, <3>7, UpsertsKeepTree
    <3>9. \A j \in DOMAIN menus : j \in DOMAIN base.rows /\ j \in DOMAIN done.rows
      BY <3>4, <3>6 DEF UpsertWrote
    <3>10. MenuRows(done.rows)
      BY <3>6 DEF UpsertWrote
    <3>11. ASSUME NEW j \in DOMAIN menus, ~menus[j].isDeleted PROVE ~done.rows[j].isDeleted
      <4>1. ~base.rows[j].isDeleted
        <5>1. CASE \E m \in 1 .. Len(BaseMenus) : base.rows[j].code = BaseMenus[m].code
          <6>1. PICK m \in 1 .. Len(BaseMenus) : base.rows[j].code = BaseMenus[m].code
            BY <5>1
          <6> QED BY <3>4, <3>7, <3>9, <6>1, UpsertedAreEntries DEF IsEntry
        <5>2. CASE ~ \E m \in 1 .. Len(BaseMenus) : base.rows[j].code = BaseMenus[m].code
          BY <3>4, <3>9, <3>11, <5>2 DEF UpsertWrote
        <5> QED BY <5>1, <5>2
      <4>2. CASE \E m \in 1 .. Len(list) : done.rows[j].code = list[m].code
        <5>1. PICK m \in 1 .. Len(list) : done.rows[j].code = list[m].code
          BY <4>2
        <5> QED BY <3>2, <3>6, <3>7, <3>9, <5>1, UpsertedAreEntries DEF IsEntry
      <4>3. CASE ~ \E m \in 1 .. Len(list) : done.rows[j].code = list[m].code
        BY <3>6, <3>9, <4>1, <4>3 DEF UpsertWrote
      <4> QED BY <4>2, <4>3
    <3> QED BY <3>3, <3>7, <3>8, <3>9, <3>10, <3>11
  <2> QED BY <2>1, <2>2
<1>3. \A j \in bindings' : Live(j)'
  BY <1>1, <1>2 DEF Live
<1>4. MenusTypeOK'
  BY <1>1, <1>2, MenuTypes DEF MenusTypeOK
<1> QED BY <1>2, <1>3, <1>4 DEF MenusInv

LEMMA MenusStep == MenusInv /\ [MenusNext]_menuVars => MenusInv'
<1> SUFFICES ASSUME MenusInv, [MenusNext]_menuVars PROVE MenusInv'
  OBVIOUS
<1>1. ASSUME NEW i \in MenuIds, NEW bound \in BOOLEAN, UpdateApiBindings(i, bound) PROVE MenusInv'
  <2>1. menus' = menus /\ Live(i) /\ bindings' \subseteq bindings \cup {i}
    BY <1>1 DEF UpdateApiBindings
  <2> QED BY <2>1 DEF MenusInv, MenusTypeOK, Live, Unique
<1>2. CASE UNCHANGED menuVars
  BY <1>2 DEF menuVars, MenusInv, MenusTypeOK, Live, Unique
<1> QED BY <1>1, <1>2, CreateKeepsMenus, UpdateKeepsMenus, DeleteKeepsMenus, ManifestsKeepMenus
        DEF MenusNext

\* However menus are moved, deleted, seeded again and synchronized: live ones hang
\* from the top in no circle, only they are bound to APIs, and the seed restores
\* the base menus for a synchronization (MenuService, the two metadata writers).
THEOREM MenusHold == MenusSpec => []MenusAreSound
<1>1. MenusInv => MenusAreSound
  <2> SUFFICES ASSUME MenusInv PROVE MenusAreSound
    OBVIOUS
  <2>1. MenusTypeOK /\ Grounded(menus) /\ LiveHangs(menus) /\ MenuRows(menus)
        /\ \A i \in bindings : Live(i)
    BY MenusAreRows DEF MenusInv
  <2>2. /\ Top \notin DOMAIN menus
        /\ \A i \in DOMAIN menus : menus[i].parent \in DOMAIN menus \cup {Top}
    BY <2>1, MenuRowsShape
  <2>3. ASSUME NEW i \in DOMAIN menus PROVE ~IsDescendantMenu(i, i)
    <3>1. \A j \in DOMAIN menus : j \notin Upwards(menus[j].parent)
      BY <2>1, GroundedHaveNoCycle
    <3>2. Upwards(menus[i].parent) \subseteq DOMAIN menus
      BY <2>1, <2>2, UpwardsEffect
    <3> QED BY <3>1, <3>2 DEF IsDescendantMenu
  <2>4. MenusHangTogether
    BY <2>1, <2>2, <2>3 DEF MenusHangTogether, LiveHangs, Live
  <2>5. SeedSettlesBaseMenus
    BY <2>1, SeedSettles
  <2> QED BY <2>1, <2>4, <2>5 DEF MenusAreSound
<1> QED BY <1>1, MenusStart, MenusStep, PTL DEF MenusSpec

\* Both kinds of rows that manifests and administrators write are sound, whoever
\* writes when (menus, API permissions, permissions, bindings, grants).
THEOREM MetadataHolds == MenusSpec /\ CatalogSpec => []MetadataIsSound
<1>1. MenusAreSound /\ CatalogIsSound => MetadataIsSound
  BY DEF MetadataIsSound
<1>2. QED BY <1>1, MenusHold, CatalogHolds, PTL

-----------------------------------------------------------------------------
(* The organization tree and announcements, for every radix, depth and set.   *)

\* What a loop has made after each of its turns.
Turns(f, start, next, size) == f[0] = start /\ \A n \in 1 .. size : f[n] = next[n][f[n - 1]]

\* A loop that goes on from a start in D exists, for any number of turns.
LEMMA LoopExists ==
  ASSUME NEW D, NEW start \in D, NEW next \in [Nat -> [D -> D]], NEW size \in Nat
  PROVE  \E f \in [0 .. size -> D] : Turns(f, start, next, size)
<1> USE DEF Turns
<1> DEFINE Loops(f, k) == Turns(f, start, next, k)
           Endless == {k \in Nat : ~ \E f \in [0 .. k -> D] : Loops(f, k)}
<1>1. CASE Endless = {}
  BY <1>1
<1>2. CASE Endless # {}
  <2>1. PICK k \in Endless : \A l \in Endless : k <= l
    <3>1. Endless \subseteq Nat
      OBVIOUS
    <3> HIDE DEF Endless
    <3> QED BY <1>2, <3>1, LeastExists
  <2>2. [n \in 0 .. 0 |-> start] \in [0 .. 0 -> D] /\ Loops([n \in 0 .. 0 |-> start], 0)
    OBVIOUS
  <2>3. k # 0 /\ k \in Nat
    BY <2>1, <2>2
  <2>4. k - 1 \in Nat /\ k - 1 \notin Endless
    <3> HIDE DEF Endless
    <3> QED BY <2>1, <2>3
  <2>5. PICK f \in [0 .. k - 1 -> D] : Loops(f, k - 1)
    BY <2>4
  <2>6. next[k][f[k - 1]] \in D
    <3>1. f[k - 1] \in D /\ next[k] \in [D -> D]
      BY <2>3, <2>5
    <3> QED BY <3>1
  <2> DEFINE g == [n \in 0 .. k |-> IF n = k THEN next[k][f[k - 1]] ELSE f[n]]
  <2>7. g \in [0 .. k -> D]
    BY <2>3, <2>5, <2>6
  <2>8. g[0] = start
    BY <2>3, <2>5
  <2>9. ASSUME NEW n \in 1 .. k PROVE g[n] = next[n][g[n - 1]]
    <3>1. CASE n = k
      <4>1. g[n] = next[k][f[k - 1]] /\ g[n - 1] = f[k - 1]
        BY <2>3, <3>1
      <4> QED BY <3>1, <4>1
    <3>2. CASE n # k
      <4>1. g[n] = f[n] /\ g[n - 1] = f[n - 1] /\ n \in 1 .. k - 1
        BY <2>3, <3>2
      <4> QED BY <2>5, <4>1
    <3> QED BY <3>1, <3>2
  <2> HIDE DEF g
  <2> QED BY <2>1, <2>7, <2>8, <2>9
<1> QED BY <1>1, <1>2

-----------------------------------------------------------------------------
(* Paths: what numbers the segments of a path make. *)

LEMMA TreeConstants ==
  /\ Radix \in Nat /\ RootSegments \in Nat /\ ChildSegments \in Nat /\ MaxLevel \in Nat
  /\ Radix > 1 /\ RootSegments > 0 /\ ChildSegments > 0 /\ MaxLevel > 0
  /\ RootSegments <= ChildSegments /\ ChildSegments < Radix /\ 2 * (RootSegments + 1) <= Radix
BY TreeAssumption

\* A level weighs as much as the radix of the next one.
LEMMA WeightSteps ==
  /\ Weight(MaxLevel) = 1
  /\ \A l \in 0 .. MaxLevel : Weight(l) \in Nat /\ Weight(l) > 0
  /\ \A l \in 1 .. MaxLevel : Weight(l - 1) = Radix * Weight(l)
<1> DEFINE Powers(f) == f = [n \in 0 .. MaxLevel |-> IF n = 0 THEN 1 ELSE Radix * f[n - 1]]
           Power == CHOOSE f : Powers(f)
           Positive == Nat \ {0}
           next == [n \in Nat |-> [x \in Positive |-> Radix * x]]
<1>1. \A l : Weight(l) = Power[MaxLevel - l]
  BY DEF Weight
<1>2. \A h \in Positive : Radix * h \in Positive
  BY TreeConstants
<1>3. PICK f \in [0 .. MaxLevel -> Positive] :
        Turns(f, 1, next, MaxLevel)
  <2>1. 1 \in Positive /\ MaxLevel \in Nat
    BY TreeConstants
  <2> HIDE DEF Positive
  <2>2. next \in [Nat -> [Positive -> Positive]]
    BY <1>2
  <2> HIDE DEF next
  <2> QED BY <2>1, <2>2, LoopExists
<1>4. ASSUME NEW n \in 1 .. MaxLevel PROVE f[n] = Radix * f[n - 1]
  <2>1. n \in Nat /\ n - 1 \in 0 .. MaxLevel
    BY TreeConstants
  <2>2. f[n - 1] \in Positive
    BY <1>3, <2>1
  <2> QED BY <1>3, <2>1, <2>2 DEF Turns
<1>5. Powers(f)
  BY <1>3, <1>4, TreeConstants DEF Turns
<1>6. Powers(Power)
  <2> HIDE DEF Powers
  <2> QED BY <1>5
<1> HIDE DEF Power
<1>7. /\ Power[0] = 1
      /\ \A n \in 1 .. MaxLevel : Power[n] = Radix * Power[n - 1]
  BY <1>6, TreeConstants
<1>8. \A n \in 0 .. MaxLevel : Power[n] \in Nat \ {0}
  <2> DEFINE Wrong == {n \in 0 .. MaxLevel : Power[n] \notin Nat \ {0}}
  <2>1. CASE Wrong = {}
    BY <2>1
  <2>2. CASE Wrong # {}
    <3>1. PICK n \in Wrong : \A m \in Wrong : n <= m
      <4>1. Wrong \subseteq Nat
        BY TreeConstants
      <4> HIDE DEF Wrong
      <4> QED BY <2>2, <4>1, LeastExists
    <3>2. n \in 1 .. MaxLevel /\ n - 1 \in 0 .. MaxLevel
      BY <1>7, <3>1, TreeConstants
    <3>3. n - 1 \notin Wrong
      <4> HIDE DEF Wrong
      <4> QED BY <3>1, <3>2
    <3>4. Power[n - 1] \in Nat \ {0}
      BY <3>2, <3>3
    <3>5. Power[n] \in Nat \ {0}
      BY <1>2, <1>7, <3>2, <3>4
    <3> QED BY <3>1, <3>5
  <2> QED BY <2>1, <2>2
<1>9. ASSUME NEW l \in 1 .. MaxLevel PROVE Weight(l - 1) = Radix * Weight(l)
  <2>1. MaxLevel - (l - 1) \in 1 .. MaxLevel /\ (MaxLevel - (l - 1)) - 1 = MaxLevel - l
    BY TreeConstants
  <2> QED BY <1>1, <1>7, <2>1
<1>10. ASSUME NEW l \in 0 .. MaxLevel PROVE Weight(l) \in Nat /\ Weight(l) > 0
  <2>1. MaxLevel - l \in 0 .. MaxLevel
    BY TreeConstants
  <2>2. Weight(l) \in Nat \ {0}
    BY <1>1, <1>8, <2>1
  <2> QED BY <2>2
<1>11. Weight(MaxLevel) = 1
  <2>1. MaxLevel - MaxLevel = 0
    BY TreeConstants
  <2> QED BY <1>1, <1>7, <2>1
<1> QED BY <1>9, <1>10, <1>11

\* The sums an encoding goes through.
Sums(s) ==
  LET upTo[i \in 0 .. Len(s)] == IF i = 0 THEN 0 ELSE upTo[i - 1] + s[i] * Weight(i)
  IN upTo

LEMMA SumSteps ==
  ASSUME NEW s \in Seq(Nat), Len(s) <= MaxLevel
  PROVE  /\ EncodeOrgPath(s) = Sums(s)[Len(s)]
         /\ Sums(s)[0] = 0
         /\ \A i \in 1 .. Len(s) : Sums(s)[i] = Sums(s)[i - 1] + s[i] * Weight(i)
         /\ \A i \in 0 .. Len(s) : Sums(s)[i] \in Nat
<1> DEFINE size == Len(s)
           Adds(f) == f = [i \in 0 .. Len(s) |-> IF i = 0 THEN 0 ELSE f[i - 1] + s[i] * Weight(i)]
           Sum == CHOOSE f : Adds(f)
           next == [i \in Nat |-> [x \in Nat |->
                      IF i \in 1 .. Len(s) THEN x + s[i] * Weight(i) ELSE 0]]
<1>1. Sums(s) = Sum /\ EncodeOrgPath(s) = Sum[Len(s)]
  BY DEF Sums, EncodeOrgPath
<1>2. Len(s) \in Nat /\ \A i \in 1 .. Len(s) : s[i] \in Nat /\ Weight(i) \in Nat
  <2>1. \A i \in 1 .. Len(s) : i \in 0 .. MaxLevel /\ s[i] \in Nat
    BY TreeConstants
  <2> QED BY <2>1, WeightSteps
<1>3. \A i \in 1 .. Len(s) : s[i] * Weight(i) \in Nat
  BY <1>2
<1>4. next \in [Nat -> [Nat -> Nat]]
  BY <1>3
<1>5. PICK f \in [0 .. Len(s) -> Nat] :
        Turns(f, 0, next, Len(s))
  <2> HIDE DEF next
  <2> QED BY <1>2, <1>4, LoopExists
<1>6. \A n \in 1 .. Len(s) : f[n] = f[n - 1] + s[n] * Weight(n)
  <2> SUFFICES ASSUME NEW n \in 1 .. Len(s) PROVE f[n] = f[n - 1] + s[n] * Weight(n)
    OBVIOUS
  <2>1. n \in Nat /\ n - 1 \in 0 .. Len(s) /\ f[n] = next[n][f[n - 1]]
    <3> HIDE DEF next
    <3> QED BY <1>2, <1>5 DEF Turns
  <2>2. f[n - 1] \in Nat
    BY <1>5, <2>1
  <2> QED BY <2>1, <2>2
<1>7. Adds(f)
  BY <1>2, <1>5, <1>6 DEF Turns
<1>8. Adds(Sum)
  <2> HIDE DEF Adds
  <2> QED BY <1>7
<1> HIDE DEF Sum
<1>9. /\ Sum[0] = 0
      /\ \A i \in 1 .. Len(s) : Sum[i] = Sum[i - 1] + s[i] * Weight(i)
  <2>1. 0 \in 0 .. Len(s) /\ \A i \in 1 .. Len(s) : i \in 0 .. Len(s) /\ i # 0
    BY <1>2
  <2> QED BY <1>8, <2>1
<1>10. \A n \in 0 .. Len(s) : Sum[n] \in Nat
  <2> DEFINE Wrong == {n \in 0 .. Len(s) : Sum[n] \notin Nat}
  <2>1. CASE Wrong = {}
    BY <2>1
  <2>2. CASE Wrong # {}
    <3>1. PICK n \in Wrong : \A m \in Wrong : n <= m
      <4>1. Wrong \subseteq Nat
        BY <1>2
      <4> HIDE DEF Wrong
      <4> QED BY <2>2, <4>1, LeastExists
    <3>2. n \in 1 .. Len(s) /\ n - 1 \in 0 .. Len(s)
      BY <1>2, <1>9, <3>1
    <3>3. n - 1 \notin Wrong
      <4> HIDE DEF Wrong
      <4> QED BY <3>1, <3>2
    <3>4. Sum[n - 1] \in Nat
      BY <3>2, <3>3
    <3> QED BY <1>3, <1>9, <3>1, <3>2, <3>4
  <2> QED BY <2>1, <2>2
<1> QED BY <1>1, <1>9, <1>10

\* Products, for the provers.
LEMMA Products ==
  /\ \A a, b, c \in Nat : a <= b => a * c <= b * c
  /\ \A a, b, c \in Nat : (a + b) * c = a * c + b * c
  /\ \A a, b \in Nat : a * b \in Nat /\ a * b = b * a
  /\ \A a, b, c \in Nat : (a * b) * c = a * (b * c)
OBVIOUS

LEMMA Remainder ==
  ASSUME NEW q \in Nat, NEW r \in Nat, r > 0, NEW h \in Nat, NEW d \in 0 .. r - 1, q = h * r + d
  PROVE  q % r = d
OBVIOUS

\* p has the digit d at weight w, under higher digits h and over a rest t.
Packs(p, h, r, d, w, t) ==
  /\ w \in Nat /\ w > 0 /\ r \in Nat /\ r > 0 /\ h \in Nat /\ d \in 0 .. r - 1 /\ t \in 0 .. w - 1
  /\ p = (h * r + d) * w + t
Digit(p, w, r) == (p \div w) % r

\* A segment is what is left of its part of the number.
LEMMA DigitIsRead ==
  ASSUME NEW p, NEW h, NEW r, NEW d, NEW w, NEW t, Packs(p, h, r, d, w, t)
  PROVE  Digit(p, w, r) = d
<1> DEFINE q == h * r + d
<1>0. /\ w \in Nat /\ w > 0 /\ r \in Nat /\ r > 0 /\ h \in Nat
      /\ d \in 0 .. r - 1 /\ t \in 0 .. w - 1 /\ p = q * w + t
  BY DEF Packs
<1>1. h * r \in Nat /\ q \in Nat /\ q * w \in Nat /\ p \in Nat
  <2>1. h * r \in Nat
    BY <1>0, Products
  <2>2. q \in Nat
    BY <1>0, <2>1
  <2> HIDE DEF q
  <2>3. q * w \in Nat
    BY <1>0, <2>2, Products
  <2> QED BY <1>0, <2>1, <2>2, <2>3
<1>2. q % r = d
  BY <1>0, <1>1, Remainder
<1> HIDE DEF q
<1>3. \A x \in Nat : x * w <= p /\ p < (x + 1) * w => p \div w = x
  <2> SUFFICES ASSUME NEW x \in Nat, x * w <= p, p < (x + 1) * w PROVE p \div w = x
    OBVIOUS
  <2>1. p \in Nat /\ w \in Nat /\ w > 0
    BY <1>0, <1>1
  <2> QED BY <2>1
<1>4. q * w <= p /\ p < (q + 1) * w
  <2>1. (q + 1) * w = q * w + w
    BY <1>0, <1>1
  <2> QED BY <1>0, <1>1, <2>1
<1>5. p \div w = q
  BY <1>1, <1>3, <1>4
<1> QED BY <1>2, <1>5 DEF Digit

LEMMA SeqItems ==
  ASSUME NEW S, NEW s \in Seq(S)
  PROVE  /\ Len(s) \in Nat /\ \A i \in 1 .. Len(s) : s[i] \in S
         /\ \A T : S \subseteq T => s \in Seq(T)
<1>1. Len(s) \in Nat /\ s \in [1 .. Len(s) -> S]
  OBVIOUS
<1> QED BY <1>1

\* Segments as they may be, and those of a whole path.
IsSegments(s) == s \in Seq(0 .. ChildSegments) /\ Len(s) <= MaxLevel
IsPath(s) == s \in Seq(1 .. ChildSegments) /\ Len(s) \in 1 .. MaxLevel /\ s[1] <= RootSegments

LEMMA PathIsSegments ==
  ASSUME NEW s, IsPath(s)
  PROVE  IsSegments(s) /\ Len(s) \in 1 .. MaxLevel
         /\ \A i \in 1 .. Len(s) : s[i] \in Nat /\ s[i] > 0 /\ s[i] <= ChildSegments
<1>1. s \in Seq(1 .. ChildSegments) /\ Len(s) \in 1 .. MaxLevel
  BY DEF IsPath
<1>2. 1 .. ChildSegments \subseteq 0 .. ChildSegments
  BY TreeConstants
<1>3. s \in Seq(0 .. ChildSegments)
  BY <1>1, <1>2, SeqItems, Zenon
<1>4. \A i \in 1 .. Len(s) : s[i] \in 1 .. ChildSegments
  BY <1>1, SeqItems, Zenon
<1> QED BY <1>1, <1>3, <1>4, TreeConstants DEF IsSegments

\* What the sums of segments are, one after the other.
LEMMA SegmentSums ==
  ASSUME NEW s, IsSegments(s)
  PROVE  /\ Len(s) \in 0 .. MaxLevel
         /\ EncodeOrgPath(s) = Sums(s)[Len(s)]
         /\ Sums(s)[0] = 0
         /\ \A i \in 0 .. Len(s) : Sums(s)[i] \in Nat
         /\ \A i \in 1 .. Len(s) :
              /\ i \in 1 .. MaxLevel /\ i - 1 \in 0 .. Len(s) /\ i \in 0 .. Len(s)
              /\ s[i] \in Nat /\ s[i] <= ChildSegments
              /\ Weight(i) \in Nat /\ Weight(i) > 0 /\ Weight(i - 1) = Radix * Weight(i)
              /\ Sums(s)[i] = Sums(s)[i - 1] + s[i] * Weight(i)
<1>1. s \in Seq(0 .. ChildSegments) /\ Len(s) <= MaxLevel /\ Len(s) \in Nat
  BY DEF IsSegments
<1>2. 0 .. ChildSegments \subseteq Nat
  BY TreeConstants
<1>3. s \in Seq(Nat) /\ Len(s) \in 0 .. MaxLevel
  <2>1. s \in Seq(Nat)
    BY <1>1, <1>2, SeqItems, Zenon
  <2> QED BY <1>1, <2>1, TreeConstants
<1>4. \A i \in 1 .. Len(s) : s[i] \in 0 .. ChildSegments
  BY <1>1, SeqItems, Zenon
<1>5. \A i \in 1 .. Len(s) : /\ i \in 1 .. MaxLevel /\ i \in 0 .. MaxLevel
                             /\ i - 1 \in 0 .. Len(s) /\ i \in 0 .. Len(s)
                             /\ s[i] \in Nat /\ s[i] <= ChildSegments
  BY <1>1, <1>4, TreeConstants
<1>6. /\ EncodeOrgPath(s) = Sums(s)[Len(s)] /\ Sums(s)[0] = 0
      /\ \A i \in 1 .. Len(s) : Sums(s)[i] = Sums(s)[i - 1] + s[i] * Weight(i)
      /\ \A i \in 0 .. Len(s) : Sums(s)[i] \in Nat
  BY <1>1, <1>3, SumSteps
<1>7. \A i \in 1 .. Len(s) :
        Weight(i) \in Nat /\ Weight(i) > 0 /\ Weight(i - 1) = Radix * Weight(i)
  BY <1>5, WeightSteps
<1> QED BY <1>3, <1>5, <1>6, <1>7, Zenon

\* What follows a segment weighs less than the segment's level.
LEMMA TailBound ==
  ASSUME NEW s, IsSegments(s), NEW i \in 0 .. Len(s), NEW j \in i .. Len(s)
  PROVE  Sums(s)[i] <= Sums(s)[j] /\ Sums(s)[j] + Weight(j) <= Sums(s)[i] + Weight(i)
<1> DEFINE S(n) == Sums(s)[n]
           Right(n) == S(i) <= S(n) /\ S(n) + Weight(n) <= S(i) + Weight(i)
           Wrong == {n \in i .. Len(s) : ~Right(n)}
<1>1. Len(s) \in Nat /\ i \in Nat /\ j \in Nat /\ S(i) \in Nat /\ Weight(i) \in Nat
  BY SegmentSums, WeightSteps, TreeConstants
<1>2. Right(i)
  BY <1>1
<1>3. ASSUME NEW n \in i + 1 .. Len(s), Right(n - 1) PROVE Right(n)
  <2>1. n \in 1 .. Len(s)
    BY <1>1
  <2>2. /\ s[n] \in Nat /\ s[n] <= ChildSegments /\ Weight(n) \in Nat
        /\ Weight(n - 1) = Radix * Weight(n) /\ S(n) = S(n - 1) + s[n] * Weight(n)
        /\ S(n - 1) \in Nat /\ S(n) \in Nat
    BY <2>1, SegmentSums
  <2>3. s[n] + 1 \in Nat /\ s[n] + 1 <= Radix /\ Radix \in Nat
    BY <2>2, TreeConstants
  <2>4. (s[n] + 1) * Weight(n) <= Radix * Weight(n)
    BY <2>2, <2>3, Products
  <2>5. (s[n] + 1) * Weight(n) = s[n] * Weight(n) + Weight(n) /\ s[n] * Weight(n) \in Nat
    BY <2>2, Products
  <2>6. S(i) <= S(n - 1) /\ S(n - 1) + Weight(n - 1) <= S(i) + Weight(i)
    BY <1>3
  <2> DEFINE part == s[n] * Weight(n)
             whole == Radix * Weight(n)
  <2>7. /\ part \in Nat /\ whole \in Nat /\ part + Weight(n) <= whole
        /\ S(n) = S(n - 1) + part /\ Weight(n - 1) = whole
    BY <2>2, <2>3, <2>4, <2>5, Products
  <2>8. S(n - 1) \in Nat /\ S(n) \in Nat /\ Weight(n) \in Nat
    BY <2>2
  <2> HIDE DEF part, whole, S
  <2> QED BY <1>1, <2>6, <2>7, <2>8
<1> HIDE DEF Right
<1>4. CASE Wrong = {}
  <2>1. Right(j)
    BY <1>4
  <2> QED BY <2>1 DEF Right
<1>5. CASE Wrong # {}
  <2>1. PICK n \in Wrong : \A m \in Wrong : n <= m
    <3>1. Wrong \subseteq Nat
      BY <1>1
    <3> HIDE DEF Wrong
    <3> QED BY <1>5, <3>1, LeastExists
  <2>2. n \in i + 1 .. Len(s) /\ n - 1 \in i .. Len(s)
    BY <1>1, <1>2, <2>1
  <2>3. n - 1 \notin Wrong
    <3> HIDE DEF Wrong
    <3> QED BY <2>1, <2>2
  <2> QED BY <1>3, <2>1, <2>2, <2>3
<1> QED BY <1>4, <1>5

\* The sum up to a level is a multiple of the level's weight.
LEMMA SumsAreMultiples ==
  ASSUME NEW s, IsSegments(s), NEW i \in 0 .. Len(s)
  PROVE  \E h \in Nat : Sums(s)[i] = h * Weight(i)
<1> DEFINE Right(n) == \E h \in Nat : Sums(s)[n] = h * Weight(n)
           Wrong == {n \in 0 .. Len(s) : ~Right(n)}
<1>1. Len(s) \in Nat /\ i \in Nat /\ Weight(0) \in Nat
  BY SegmentSums, WeightSteps, TreeConstants
<1>2. Right(0)
  <2>1. 0 * Weight(0) = 0
    BY <1>1
  <2> QED BY <2>1, SegmentSums
<1>3. ASSUME NEW n \in 1 .. Len(s), Right(n - 1) PROVE Right(n)
  <2>1. PICK h \in Nat : Sums(s)[n - 1] = h * Weight(n - 1)
    BY <1>3
  <2>2. /\ s[n] \in Nat /\ Weight(n) \in Nat /\ Weight(n - 1) = Radix * Weight(n)
        /\ Sums(s)[n] = Sums(s)[n - 1] + s[n] * Weight(n)
    BY SegmentSums
  <2>3. h * (Radix * Weight(n)) = (h * Radix) * Weight(n) /\ h * Radix \in Nat
    BY <2>2, TreeConstants, Products
  <2>4. (h * Radix + s[n]) * Weight(n) = (h * Radix) * Weight(n) + s[n] * Weight(n)
    BY <2>2, <2>3, Products
  <2>5. h * Radix + s[n] \in Nat
    BY <2>2, <2>3
  <2> QED BY <2>1, <2>2, <2>3, <2>4, <2>5
<1> HIDE DEF Right
<1>4. CASE Wrong = {}
  <2>1. Right(i)
    BY <1>4
  <2> QED BY <2>1 DEF Right
<1>5. CASE Wrong # {}
  <2>1. PICK n \in Wrong : \A m \in Wrong : n <= m
    <3>1. Wrong \subseteq Nat
      BY <1>1
    <3> HIDE DEF Wrong
    <3> QED BY <1>5, <3>1, LeastExists
  <2>2. n \in 1 .. Len(s) /\ n - 1 \in 0 .. Len(s)
    BY <1>1, <1>2, <2>1
  <2>3. n - 1 \notin Wrong
    <3> HIDE DEF Wrong
    <3> QED BY <2>1, <2>2
  <2> QED BY <1>3, <2>1, <2>2, <2>3
<1> QED BY <1>4, <1>5

\* At each level of a path its segment is read, and nothing below the last one.
LEMMA SegmentsAreRead ==
  ASSUME NEW s, IsSegments(s)
  PROVE  /\ \A i \in 1 .. Len(s) : SegmentAt(EncodeOrgPath(s), i) = s[i]
         /\ Len(s) < MaxLevel => SegmentAt(EncodeOrgPath(s), Len(s) + 1) = 0
<1> DEFINE p == EncodeOrgPath(s)
<1>1. Len(s) \in 0 .. MaxLevel /\ p = Sums(s)[Len(s)] /\ Radix \in Nat /\ Radix > 1
  BY SegmentSums, TreeConstants
<1>2. ASSUME NEW i \in 1 .. Len(s) PROVE SegmentAt(p, i) = s[i]
  <2>1. /\ s[i] \in Nat /\ s[i] <= ChildSegments /\ Weight(i) \in Nat /\ Weight(i) > 0
        /\ Weight(i - 1) = Radix * Weight(i) /\ Sums(s)[i] = Sums(s)[i - 1] + s[i] * Weight(i)
        /\ i - 1 \in 0 .. Len(s) /\ i \in 0 .. Len(s)
    BY SegmentSums
  <2>2. PICK h \in Nat : Sums(s)[i - 1] = h * Weight(i - 1)
    BY <2>1, SumsAreMultiples
  <2>3. Sums(s)[i] = (h * Radix + s[i]) * Weight(i)
    <3>1. h * (Radix * Weight(i)) = (h * Radix) * Weight(i) /\ h * Radix \in Nat
      BY <1>1, <2>1, Products
    <3>2. (h * Radix + s[i]) * Weight(i) = (h * Radix) * Weight(i) + s[i] * Weight(i)
      BY <2>1, <3>1, Products
    <3> QED BY <2>1, <2>2, <3>1, <3>2
  <2> DEFINE t == p - Sums(s)[i]
  <2>4. t \in 0 .. Weight(i) - 1 /\ p = Sums(s)[i] + t
    <3>1. /\ Sums(s)[i] <= Sums(s)[Len(s)]
          /\ Sums(s)[Len(s)] + Weight(Len(s)) <= Sums(s)[i] + Weight(i)
      <4>1. Len(s) \in i .. Len(s)
        BY <1>1, <2>1
      <4> QED BY <2>1, <4>1, TailBound
    <3>2. Weight(Len(s)) \in Nat /\ Weight(Len(s)) > 0 /\ Weight(i) \in Nat
      BY <1>1, <2>1, WeightSteps
    <3>3. p = Sums(s)[Len(s)] /\ Sums(s)[Len(s)] \in Nat /\ Sums(s)[i] \in Nat
      BY <1>1, <2>1, SegmentSums
    <3> QED BY <3>1, <3>2, <3>3
  <2>5. s[i] \in 0 .. Radix - 1
    BY <2>1, TreeConstants
  <2>6. Radix > 0 /\ Weight(i) \in Nat /\ Weight(i) > 0 /\ t \in 0 .. Weight(i) - 1
    BY <1>1, <2>1, <2>4
  <2>7. Packs(p, h, Radix, s[i], Weight(i), t)
    BY <1>1, <2>2, <2>3, <2>4, <2>5, <2>6 DEF Packs
  <2> HIDE DEF p, t
  <2>8. Digit(p, Weight(i), Radix) = s[i]
    BY <2>7, DigitIsRead
  <2> QED BY <2>8 DEF SegmentAt, Digit
<1>3. ASSUME Len(s) < MaxLevel PROVE SegmentAt(p, Len(s) + 1) = 0
  <2> DEFINE n == Len(s)
  <2>1. n \in Nat /\ n \in 0 .. n /\ n + 1 \in 1 .. MaxLevel /\ (n + 1) - 1 = n
    BY <1>1, <1>3, TreeConstants
  <2>2. PICK h \in Nat : Sums(s)[n] = h * Weight(n)
    BY <2>1, SumsAreMultiples
  <2>3. Weight(n) = Radix * Weight(n + 1) /\ Weight(n + 1) \in Nat /\ Weight(n + 1) > 0
    <3>1. n + 1 \in 0 .. MaxLevel
      BY <2>1
    <3> HIDE DEF n
    <3> QED BY <2>1, <3>1, WeightSteps
  <2>4. p = (h * Radix + 0) * Weight(n + 1) + 0
    <3>1. h * (Radix * Weight(n + 1)) = (h * Radix) * Weight(n + 1) /\ h * Radix \in Nat
          /\ (h * Radix) * Weight(n + 1) \in Nat
      BY <1>1, <2>3, Products
    <3> QED BY <1>1, <2>2, <2>3, <3>1
  <2>5. Packs(p, h, Radix, 0, Weight(n + 1), 0)
    <3>1. 0 \in 0 .. Radix - 1 /\ 0 \in 0 .. Weight(n + 1) - 1 /\ Radix > 0
      BY <1>1, <2>3
    <3> QED BY <1>1, <2>2, <2>3, <2>4, <3>1 DEF Packs
  <2> HIDE DEF p, n
  <2>6. Digit(p, Weight(n + 1), Radix) = 0
    BY <2>5, DigitIsRead
  <2> QED BY <2>6 DEF SegmentAt, Digit, n
<1> QED BY <1>2, <1>3

\* A path fits into the number it is packed into.
LEMMA PathsFit ==
  ASSUME NEW s, IsPath(s)
  PROVE  EncodeOrgPath(s) \in PackedPaths
<1> DEFINE p == EncodeOrgPath(s)
<1>1. IsSegments(s) /\ Len(s) \in 1 .. MaxLevel /\ s[1] <= RootSegments
  BY PathIsSegments DEF IsPath
<1>2. 1 \in 1 .. Len(s) /\ 1 \in 0 .. Len(s) /\ Len(s) \in 1 .. Len(s) /\ Len(s) \in 0 .. MaxLevel
  BY <1>1, TreeConstants
<1>3. /\ s[1] \in Nat /\ Weight(1) \in Nat /\ Weight(0) = Radix * Weight(1)
      /\ Sums(s)[1] = s[1] * Weight(1) /\ p = Sums(s)[Len(s)] /\ p \in Nat
  <2>1. 1 - 1 = 0 /\ Len(s) \in 0 .. Len(s)
    BY <1>1
  <2>2. /\ s[1] \in Nat /\ Weight(1) \in Nat /\ Weight(1 - 1) = Radix * Weight(1)
        /\ Sums(s)[1] = Sums(s)[1 - 1] + s[1] * Weight(1) /\ Sums(s)[0] = 0
        /\ p = Sums(s)[Len(s)] /\ Sums(s)[Len(s)] \in Nat
    BY <1>1, <1>2, <2>1, SegmentSums
  <2>3. s[1] * Weight(1) \in Nat
    BY <2>2, Products
  <2> QED BY <2>1, <2>2, <2>3
<1>4. p + Weight(Len(s)) <= Sums(s)[1] + Weight(1) /\ Weight(Len(s)) \in Nat
  BY <1>1, <1>2, <1>3, TailBound, WeightSteps
<1>5. s[1] * Weight(1) + Weight(1) <= (RootSegments + 1) * Weight(1)
  <2>1. s[1] + 1 <= RootSegments + 1 /\ s[1] + 1 \in Nat /\ RootSegments + 1 \in Nat
    BY <1>1, <1>3, TreeConstants
  <2>2. (s[1] + 1) * Weight(1) = s[1] * Weight(1) + Weight(1)
    BY <1>3, Products
  <2> QED BY <1>3, <2>1, <2>2, Products
<1>6. 2 * ((RootSegments + 1) * Weight(1)) <= Weight(0)
  <2>1. 2 * (RootSegments + 1) \in Nat /\ 2 * (RootSegments + 1) <= Radix /\ RootSegments + 1 \in Nat
        /\ Radix \in Nat
    BY TreeConstants
  <2>2. (2 * (RootSegments + 1)) * Weight(1) <= Radix * Weight(1)
    BY <1>3, <2>1, Products
  <2>3. (2 * (RootSegments + 1)) * Weight(1) = 2 * ((RootSegments + 1) * Weight(1))
    BY <1>3, <2>1, Products
  <2> QED BY <1>3, <2>2, <2>3
<1> DEFINE half == (RootSegments + 1) * Weight(1)
           first == s[1] * Weight(1)
<1>7. half \in Nat /\ first \in Nat /\ Weight(0) \in Nat
  BY <1>3, TreeConstants, WeightSteps, Products
<1>8. p + Weight(Len(s)) <= first + Weight(1) /\ first + Weight(1) <= half /\ 2 * half <= Weight(0)
  BY <1>3, <1>4, <1>5, <1>6
<1>9. p \in Nat /\ Weight(1) \in Nat /\ Weight(Len(s)) \in Nat
  BY <1>3, <1>4
<1> HIDE DEF half, first, p
<1>10. 2 * p <= Weight(0)
  BY <1>7, <1>8, <1>9
<1> QED BY <1>7, <1>9, <1>10 DEF PackedPaths, p

\* What is decoded is what was encoded.
LEMMA PathsDecode ==
  ASSUME NEW s, IsPath(s)
  PROVE  EncodeOrgPath(s) \in DOMAIN DecodeOrgPath /\ DecodeOrgPath[EncodeOrgPath(s)] = s
<1> DEFINE p == EncodeOrgPath(s)
           IsLast(n) == /\ \A i \in 1 .. n : SegmentAt(p, i) # 0
                        /\ n = MaxLevel \/ SegmentAt(p, n + 1) = 0
           last == CHOOSE n \in 0 .. MaxLevel : IsLast(n)
<1>1. p \in PackedPaths
  BY PathsFit
<1>2. p \in DOMAIN DecodeOrgPath /\ DecodeOrgPath[p] = [i \in 1 .. last |-> SegmentAt(p, i)]
  BY <1>1 DEF DecodeOrgPath
<1>3. /\ IsSegments(s) /\ Len(s) \in 1 .. MaxLevel
      /\ \A i \in 1 .. Len(s) : s[i] \in Nat /\ s[i] > 0
  BY PathIsSegments
<1>4. /\ \A i \in 1 .. Len(s) : SegmentAt(p, i) = s[i]
      /\ Len(s) < MaxLevel => SegmentAt(p, Len(s) + 1) = 0
  BY <1>3, SegmentsAreRead
<1> HIDE DEF p
<1>5. IsLast(Len(s)) /\ Len(s) \in 0 .. MaxLevel
  <2>1. Len(s) \in 0 .. MaxLevel /\ (Len(s) = MaxLevel \/ Len(s) < MaxLevel)
    BY <1>3, TreeConstants
  <2>2. \A i \in 1 .. Len(s) : SegmentAt(p, i) # 0
    BY <1>3, <1>4
  <2> QED BY <1>4, <2>1, <2>2
<1>6. ASSUME NEW n \in 0 .. MaxLevel, IsLast(n) PROVE n = Len(s)
  <2>1. CASE n < Len(s)
    <3>1. n + 1 \in 1 .. Len(s) /\ n # MaxLevel
      BY <1>3, <2>1
    <3> QED BY <1>3, <1>4, <1>6, <3>1
  <2>2. CASE n > Len(s)
    <3>1. Len(s) + 1 \in 1 .. n /\ Len(s) < MaxLevel
      BY <1>3, <2>2, TreeConstants
    <3> QED BY <1>4, <1>6, <3>1
  <2> QED BY <1>3, <2>1, <2>2
<1>7. last = Len(s)
  <2> HIDE DEF IsLast
  <2> QED BY <1>5, <1>6
<1> HIDE DEF last
<1>8. s = [i \in 1 .. Len(s) |-> s[i]]
  BY DEF IsPath
<1>9. [i \in 1 .. last |-> SegmentAt(p, i)] = [i \in 1 .. Len(s) |-> s[i]]
  BY <1>4, <1>7
<1> QED BY <1>2, <1>8, <1>9 DEF p

-----------------------------------------------------------------------------
(* Packed paths are ordered like the sequences of their segments. *)

\* Higher segments make higher sums.
LEMMA SumsGrow ==
  ASSUME NEW s, IsSegments(s), NEW t, IsSegments(t),
         NEW n \in 0 .. Len(s), n \in 0 .. Len(t), \A j \in 1 .. n : s[j] <= t[j]
  PROVE  Sums(s)[n] <= Sums(t)[n]
<1> DEFINE Right(m) == Sums(s)[m] <= Sums(t)[m]
           Wrong == {m \in 0 .. n : ~Right(m)}
<1>1. Len(s) \in Nat /\ Len(t) \in Nat /\ n \in Nat /\ 0 \in 0 .. n
  BY SegmentSums, TreeConstants
<1>2. Right(0)
  BY SegmentSums
<1>3. ASSUME NEW m \in 1 .. n, Right(m - 1) PROVE Right(m)
  <2>1. m \in 1 .. Len(s) /\ m \in 1 .. Len(t) /\ s[m] <= t[m]
    BY <1>1
  <2>2. /\ s[m] \in Nat /\ Weight(m) \in Nat /\ Sums(s)[m] = Sums(s)[m - 1] + s[m] * Weight(m)
        /\ Sums(s)[m - 1] \in Nat /\ Sums(s)[m] \in Nat
    BY <2>1, SegmentSums
  <2>3. /\ t[m] \in Nat /\ Sums(t)[m] = Sums(t)[m - 1] + t[m] * Weight(m)
        /\ Sums(t)[m - 1] \in Nat /\ Sums(t)[m] \in Nat
    BY <2>1, SegmentSums
  <2> DEFINE low == s[m] * Weight(m)
             high == t[m] * Weight(m)
  <2>4. low \in Nat /\ high \in Nat /\ low <= high
    BY <2>1, <2>2, <2>3, Products
  <2>5. Sums(s)[m] = Sums(s)[m - 1] + low /\ Sums(t)[m] = Sums(t)[m - 1] + high
    BY <2>2, <2>3
  <2>6. Sums(s)[m - 1] <= Sums(t)[m - 1]
    BY <1>3
  <2> HIDE DEF low, high
  <2> QED BY <2>2, <2>3, <2>4, <2>5, <2>6
<1> HIDE DEF Right
<1>4. CASE Wrong = {}
  <2>1. Right(n)
    BY <1>1, <1>4
  <2> QED BY <2>1 DEF Right
<1>5. CASE Wrong # {}
  <2>1. PICK m \in Wrong : \A k \in Wrong : m <= k
    <3>1. Wrong \subseteq Nat
      BY <1>1
    <3> HIDE DEF Wrong
    <3> QED BY <1>5, <3>1, LeastExists
  <2>2. m \in 1 .. n /\ m - 1 \in 0 .. n
    BY <1>1, <1>2, <2>1
  <2>3. m - 1 \notin Wrong
    <3> HIDE DEF Wrong
    <3> QED BY <2>1, <2>2
  <2> QED BY <1>3, <2>1, <2>2, <2>3
<1> QED BY <1>4, <1>5

LEMMA SumsAgree ==
  ASSUME NEW s, IsSegments(s), NEW t, IsSegments(t),
         NEW n \in 0 .. Len(s), n \in 0 .. Len(t), \A j \in 1 .. n : s[j] = t[j]
  PROVE  Sums(s)[n] = Sums(t)[n]
<1>1. Len(s) \in 0 .. MaxLevel /\ Len(t) \in 0 .. MaxLevel
  BY SegmentSums
<1>2. \A j \in 1 .. n : j \in 1 .. Len(s) /\ j \in 1 .. Len(t)
  BY <1>1, TreeConstants
<1>3. \A j \in 1 .. n : s[j] \in Nat /\ t[j] \in Nat /\ s[j] <= t[j] /\ t[j] <= s[j]
  BY <1>2, SegmentSums
<1>4. Sums(s)[n] <= Sums(t)[n]
  BY <1>3, SumsGrow
<1>5. Sums(t)[n] <= Sums(s)[n]
  BY <1>3, SumsGrow
<1>6. Sums(s)[n] \in Nat /\ Sums(t)[n] \in Nat
  BY SegmentSums
<1> QED BY <1>4, <1>5, <1>6

\* The first segment in which two paths differ decides.
LEMMA FirstDifference ==
  ASSUME NEW s, IsSegments(s), NEW t, IsSegments(t),
         NEW i \in 1 .. Len(s), i \in 1 .. Len(t), \A j \in 1 .. i - 1 : s[j] = t[j], s[i] < t[i]
  PROVE  EncodeOrgPath(s) < EncodeOrgPath(t)
<1>1. Len(s) \in 0 .. MaxLevel /\ Len(t) \in 0 .. MaxLevel /\ MaxLevel \in Nat
  BY SegmentSums, TreeConstants
<1>2. /\ i \in 0 .. Len(s) /\ i \in 0 .. Len(t) /\ i - 1 \in 0 .. Len(s) /\ i - 1 \in 0 .. Len(t)
      /\ Len(s) \in i .. Len(s) /\ Len(t) \in i .. Len(t) /\ Len(s) \in 0 .. Len(s)
      /\ Len(t) \in 0 .. Len(t)
  BY <1>1
<1>3. Sums(s)[i - 1] = Sums(t)[i - 1]
  BY <1>2, SumsAgree
<1>4. /\ s[i] \in Nat /\ Weight(i) \in Nat /\ Sums(s)[i] = Sums(s)[i - 1] + s[i] * Weight(i)
      /\ Sums(s)[i - 1] \in Nat /\ Sums(s)[i] \in Nat
      /\ EncodeOrgPath(s) = Sums(s)[Len(s)] /\ Sums(s)[Len(s)] \in Nat
  BY <1>2, SegmentSums
<1>5. /\ t[i] \in Nat /\ Sums(t)[i] = Sums(t)[i - 1] + t[i] * Weight(i) /\ Sums(t)[i] \in Nat
      /\ EncodeOrgPath(t) = Sums(t)[Len(t)] /\ Sums(t)[Len(t)] \in Nat
  BY <1>2, SegmentSums
<1>6. Sums(s)[Len(s)] + Weight(Len(s)) <= Sums(s)[i] + Weight(i)
  BY <1>2, TailBound
<1>7. Sums(t)[i] <= Sums(t)[Len(t)]
  BY <1>2, TailBound
<1>8. Weight(Len(s)) \in Nat /\ Weight(Len(s)) > 0
  BY <1>1, WeightSteps
<1> DEFINE low == s[i] * Weight(i)
           high == t[i] * Weight(i)
<1>9. low \in Nat /\ high \in Nat /\ low + Weight(i) <= high
  <2>1. s[i] + 1 \in Nat /\ s[i] + 1 <= t[i]
    BY <1>4, <1>5
  <2>2. (s[i] + 1) * Weight(i) <= t[i] * Weight(i)
    BY <1>4, <1>5, <2>1, Products
  <2>3. (s[i] + 1) * Weight(i) = s[i] * Weight(i) + Weight(i)
    BY <1>4, Products
  <2> QED BY <1>4, <1>5, <2>2, <2>3, Products
<1>10. Sums(s)[i] = Sums(s)[i - 1] + low /\ Sums(t)[i] = Sums(t)[i - 1] + high
  BY <1>4, <1>5
<1>11. Weight(i) \in Nat /\ Sums(s)[i - 1] \in Nat
  BY <1>4
<1> DEFINE es == Sums(s)[Len(s)]
           et == Sums(t)[Len(t)]
<1>12. EncodeOrgPath(s) = es /\ EncodeOrgPath(t) = et /\ es \in Nat /\ et \in Nat
       /\ Sums(s)[i] \in Nat /\ Sums(t)[i] \in Nat
  BY <1>4, <1>5
<1>13. es + Weight(Len(s)) <= Sums(s)[i] + Weight(i) /\ Sums(t)[i] <= et
  BY <1>6, <1>7
<1> HIDE DEF low, high, es, et
<1>14. Sums(s)[i] + Weight(i) <= Sums(t)[i]
  BY <1>3, <1>9, <1>10, <1>11
<1>15. es < Sums(s)[i] + Weight(i)
  BY <1>8, <1>11, <1>12, <1>13
<1>16. es < et
  BY <1>11, <1>12, <1>13, <1>14, <1>15
<1> QED BY <1>12, <1>16

\* A longer path that begins like a shorter one comes after it.
LEMMA PrefixComesFirst ==
  ASSUME NEW s, IsSegments(s), NEW t, IsSegments(t),
         Len(s) < Len(t), \A j \in 1 .. Len(s) : s[j] = t[j], t[Len(s) + 1] > 0
  PROVE  EncodeOrgPath(s) < EncodeOrgPath(t)
<1> DEFINE n == Len(s)
<1>1. Len(s) \in 0 .. MaxLevel /\ Len(t) \in 0 .. MaxLevel /\ MaxLevel \in Nat
  BY SegmentSums, TreeConstants
<1>2. /\ n \in 0 .. Len(s) /\ n \in 0 .. Len(t) /\ n + 1 \in 1 .. Len(t) /\ n + 1 \in 0 .. Len(t)
      /\ (n + 1) - 1 = n /\ Len(t) \in n + 1 .. Len(t) /\ Len(t) \in 0 .. Len(t)
  BY <1>1
<1>3. Sums(s)[n] = Sums(t)[n]
  BY <1>2, SumsAgree
<1> HIDE DEF n
<1>4. /\ t[n + 1] \in Nat /\ Weight(n + 1) \in Nat /\ Weight(n + 1) > 0
      /\ Sums(t)[n + 1] = Sums(t)[n] + t[n + 1] * Weight(n + 1)
      /\ Sums(t)[n] \in Nat /\ Sums(t)[n + 1] \in Nat
      /\ EncodeOrgPath(t) = Sums(t)[Len(t)] /\ Sums(t)[Len(t)] \in Nat
  BY <1>2, SegmentSums
<1>5. EncodeOrgPath(s) = Sums(s)[n]
  BY SegmentSums DEF n
<1>6. Sums(t)[n + 1] <= Sums(t)[Len(t)]
  BY <1>2, TailBound
<1>7. 1 * Weight(n + 1) <= t[n + 1] * Weight(n + 1)
  <2>1. 1 <= t[n + 1]
    BY <1>4 DEF n
  <2> QED BY <1>4, <2>1, Products
<1> DEFINE part == t[n + 1] * Weight(n + 1)
<1>8. part \in Nat /\ part > 0 /\ Sums(t)[n + 1] = Sums(t)[n] + part
  BY <1>4, <1>7
<1> HIDE DEF part
<1> QED BY <1>3, <1>4, <1>5, <1>6, <1>8

\* The range of a path holds just what is under it: the test of two packed
\* numbers is the test of two sequences.
LEMMA RangesAreSubtrees ==
  ASSUME NEW a, IsPath(a), NEW c, IsPath(c)
  PROVE  IsDescendantPath(EncodeOrgPath(c), EncodeOrgPath(a), Len(a)) <=> Forest!Above(a, c)
<1> DEFINE padded == [i \in 1 .. MaxLevel |-> IF i <= Len(a) THEN a[i] ELSE ChildSegments]
           ea == EncodeOrgPath(a)
           ec == EncodeOrgPath(c)
           top == EncodeOrgPath(padded)
<1>1. /\ IsSegments(a) /\ IsSegments(c) /\ Len(a) \in 1 .. MaxLevel /\ Len(c) \in 1 .. MaxLevel
      /\ Len(a) \in Nat /\ Len(c) \in Nat
      /\ \A i \in 1 .. Len(a) : a[i] \in Nat /\ a[i] > 0 /\ a[i] <= ChildSegments
      /\ \A i \in 1 .. Len(c) : c[i] \in Nat /\ c[i] > 0 /\ c[i] <= ChildSegments
  BY PathIsSegments, TreeConstants
<1>2. IsSegments(padded) /\ Len(padded) = MaxLevel
  <2>1. \A i \in 1 .. MaxLevel : padded[i] \in 0 .. ChildSegments
    BY <1>1, TreeConstants
  <2>2. padded \in Seq(0 .. ChildSegments) /\ Len(padded) = MaxLevel
    <3>1. padded \in [1 .. MaxLevel -> 0 .. ChildSegments] /\ MaxLevel \in Nat
      BY <2>1, TreeConstants
    <3> QED BY <3>1, IsASeq
  <2> HIDE DEF padded
  <2> QED BY <2>2, TreeConstants DEF IsSegments
<1>3. \A i \in 1 .. Len(a) : padded[i] = a[i] /\ i \in 1 .. MaxLevel
  BY <1>1, TreeConstants
<1>4. \A i \in 1 .. Len(c) : i \in 1 .. MaxLevel /\ (i > Len(a) => padded[i] = ChildSegments)
  BY <1>1, TreeConstants
<1>5. ea \in PackedPaths /\ DecodeOrgPath[ea] = a /\ ea \in DOMAIN DecodeOrgPath
  BY PathsFit, PathsDecode
<1>6. SubSeq(a, 1, Len(a)) = a
  <2>1. a \in Seq(1 .. ChildSegments)
    BY DEF IsPath
  <2> QED BY <2>1
<1>7. OrgPathRange[ea][Len(a)].min = ea /\ OrgPathRange[ea][Len(a)].max = top
  <2>1. Len(a) \in 0 .. Len(a)
    BY <1>1
  <2>2. OrgPathRange[ea] =
          [level \in 0 .. Len(a) |->
             [min |-> EncodeOrgPath(SubSeq(a, 1, level)),
              max |-> EncodeOrgPath([i \in 1 .. MaxLevel |->
                                       IF i <= level THEN a[i] ELSE ChildSegments])]]
    <3> HIDE DEF ea
    <3> QED BY <1>5 DEF OrgPathRange
  <2>3. OrgPathRange[ea][Len(a)] = [min |-> EncodeOrgPath(SubSeq(a, 1, Len(a))), max |-> top]
    BY <2>1, <2>2
  <2> HIDE DEF ea, top
  <2>4. OrgPathRange[ea][Len(a)].min = EncodeOrgPath(SubSeq(a, 1, Len(a)))
        /\ OrgPathRange[ea][Len(a)].max = top
    BY <2>3
  <2> QED BY <1>6, <2>4 DEF ea
<1>8. ea \in Nat /\ ec \in Nat /\ top \in Nat
  <2>1. \A s : IsSegments(s) => EncodeOrgPath(s) \in Nat
    <3> SUFFICES ASSUME NEW s, IsSegments(s) PROVE EncodeOrgPath(s) \in Nat
      OBVIOUS
    <3>1. Len(s) \in 0 .. Len(s)
      BY SegmentSums, TreeConstants
    <3> QED BY <3>1, SegmentSums
  <2> HIDE DEF padded
  <2> QED BY <1>1, <1>2, <2>1
<1> HIDE DEF padded
<1>9. ASSUME Forest!Above(a, c) PROVE ea <= ec /\ ec <= top /\ ec # ea
  <2>1. Len(a) < Len(c) /\ \A j \in 1 .. Len(a) : a[j] = c[j]
    BY <1>9 DEF Forest!Above
  <2>2. c[Len(a) + 1] > 0
    BY <1>1, <2>1
  <2>3. ea < ec
    BY <1>1, <2>1, <2>2, PrefixComesFirst
  <2>4. \A j \in 1 .. Len(c) : c[j] <= padded[j]
    <3> SUFFICES ASSUME NEW j \in 1 .. Len(c) PROVE c[j] <= padded[j]
      OBVIOUS
    <3>1. CASE j <= Len(a)
      <4>1. j \in 1 .. Len(a)
        BY <1>1, <3>1
      <4> QED BY <1>1, <1>3, <2>1, <4>1
    <3>2. CASE j > Len(a)
      BY <1>1, <1>4, <3>2
    <3> QED BY <1>1, <3>1, <3>2
  <2>5. Len(c) \in 0 .. Len(c) /\ Len(c) \in 0 .. Len(padded) /\ Len(padded) \in Len(c) .. Len(padded)
    BY <1>1, <1>2, TreeConstants
  <2>6. Sums(c)[Len(c)] <= Sums(padded)[Len(c)]
    BY <1>1, <1>2, <2>4, <2>5, SumsGrow
  <2>7. Sums(padded)[Len(c)] <= Sums(padded)[Len(padded)]
    BY <1>2, <2>5, TailBound
  <2>8. Sums(padded)[Len(c)] \in Nat /\ ec = Sums(c)[Len(c)] /\ top = Sums(padded)[Len(padded)]
    BY <1>1, <1>2, <2>5, SegmentSums
  <2> HIDE DEF ea, ec, top
  <2> QED BY <1>8, <2>3, <2>6, <2>7, <2>8
<1>10. ASSUME ea <= ec, ec <= top, ec # ea PROVE Forest!Above(a, c)
  <2> DEFINE differ == {j \in 1 .. Len(a) : j > Len(c) \/ a[j] # c[j]}
  <2>1. CASE differ = {}
    <3>1. \A j \in 1 .. Len(a) : j <= Len(c) /\ a[j] = c[j]
      BY <1>1, <2>1
    <3>2. Len(a) <= Len(c)
      BY <1>1, <3>1
    <3>3. Len(a) # Len(c)
      <4> SUFFICES ASSUME Len(a) = Len(c) PROVE FALSE
        OBVIOUS
      <4>1. a = c
        <5>1. a \in Seq(1 .. ChildSegments) /\ c \in Seq(1 .. ChildSegments)
          BY DEF IsPath
        <5> QED BY <3>1, <5>1, SeqEqual
      <4> QED BY <1>10, <4>1
    <3> QED BY <1>1, <3>1, <3>2, <3>3 DEF Forest!Above
  <2>2. CASE differ # {}
    <3>1. PICK i \in differ : \A j \in differ : i <= j
      <4>1. differ \subseteq Nat
        BY <1>1
      <4> HIDE DEF differ
      <4> QED BY <2>2, <4>1, LeastExists
    <3>2. i \in 1 .. Len(a) /\ (i > Len(c) \/ a[i] # c[i])
      BY <3>1
    <3>3. \A j \in 1 .. i - 1 : j \in 1 .. Len(a) /\ j <= Len(c) /\ a[j] = c[j]
      <4> SUFFICES ASSUME NEW j \in 1 .. i - 1 PROVE j \in 1 .. Len(a) /\ j <= Len(c) /\ a[j] = c[j]
        OBVIOUS
      <4>1. j \in 1 .. Len(a) /\ j \in Nat /\ i \in Nat /\ ~(i <= j)
        BY <1>1, <3>2
      <4>2. j \notin differ
        <5> HIDE DEF differ
        <5> QED BY <3>1, <4>1
      <4> QED BY <1>1, <4>1, <4>2
    <3>4. CASE i > Len(c)
      <4>1. Len(c) = i - 1
        <5>1. CASE i - 1 = 0
          BY <1>1, <3>2, <3>4, <5>1
        <5>2. CASE i - 1 # 0
          <6>1. i - 1 \in 1 .. i - 1
            BY <1>1, <3>2, <5>2
          <6>2. i - 1 <= Len(c)
            BY <3>3, <6>1
          <6> QED BY <1>1, <3>2, <3>4, <6>2
        <5> QED BY <5>1, <5>2
      <4>2. Len(c) < Len(a) /\ \A j \in 1 .. Len(c) : c[j] = a[j]
        BY <1>1, <3>2, <3>3, <4>1
      <4>3. Len(c) + 1 \in 1 .. Len(a) /\ a[Len(c) + 1] > 0
        BY <1>1, <4>2
      <4>4. ec < ea
        BY <1>1, <4>2, <4>3, PrefixComesFirst
      <4> HIDE DEF ea, ec, top
      <4> QED BY <1>8, <1>10, <4>4
    <3>5. CASE i <= Len(c) /\ c[i] < a[i]
      <4>1. i \in 1 .. Len(c) /\ i \in 1 .. Len(a) /\ \A j \in 1 .. i - 1 : c[j] = a[j]
        BY <1>1, <3>2, <3>3, <3>5
      <4>2. ec < ea
        BY <1>1, <3>5, <4>1, FirstDifference
      <4> HIDE DEF ea, ec, top
      <4> QED BY <1>8, <1>10, <4>2
    <3>6. CASE i <= Len(c) /\ c[i] > a[i]
      <4>1. i \in 1 .. Len(c) /\ i \in 1 .. Len(padded)
        BY <1>1, <1>2, <3>2, <3>6, TreeConstants
      <4>2. \A j \in 1 .. i - 1 : padded[j] = c[j]
        BY <1>3, <3>3
      <4>3. padded[i] < c[i]
        BY <1>1, <1>3, <3>2, <3>6
      <4>4. top < ec
        BY <1>1, <1>2, <4>1, <4>2, <4>3, FirstDifference
      <4> HIDE DEF ea, ec, top
      <4> QED BY <1>8, <1>10, <4>4
    <3>7. i \in Nat /\ (i <= Len(c) => a[i] \in Nat /\ c[i] \in Nat)
      BY <1>1, <3>2
    <3> QED BY <1>1, <3>2, <3>4, <3>5, <3>6, <3>7
  <2> QED BY <2>1, <2>2
<1>11. IsDescendantPath(ec, ea, Len(a)) <=> ea <= ec /\ ec <= top /\ ec # ea
  <2> HIDE DEF ea, ec, top
  <2> QED BY <1>7 DEF IsDescendantPath
<1> QED BY <1>9, <1>10, <1>11

-----------------------------------------------------------------------------
(* The organizations, and the forest they are. *)

PlaceOf(o) == DecodeOrgPath[orgs[o].path]

\* A row says three times where its organization is.
IsPacked(row) ==
  LET s == DecodeOrgPath[row.path] IN
  IsPath(s) /\ row.path = EncodeOrgPath(s) /\ row.level = Len(s) /\ row.segment = s[Len(s)]

\* The inductive invariant: each row packs a path.
TreeInv == TreeTypeOK /\ \A o \in Created : IsPacked(orgs[o])

LEMMA PackedRow ==
  ASSUME NEW row, IsPacked(row)
  PROVE  row # Nowhere /\ DecodeOrgPath[row.path] # <<>>
<1>1. IsPath(DecodeOrgPath[row.path]) /\ row.level = Len(DecodeOrgPath[row.path])
  BY DEF IsPacked
<1>2. Len(DecodeOrgPath[row.path]) > 0
  <2>1. Len(DecodeOrgPath[row.path]) \in 1 .. MaxLevel
    BY <1>1 DEF IsPath
  <2> QED BY <2>1, TreeConstants
<1>3. Len(<<>>) = 0 /\ Nowhere.level = 0
  BY DEF Nowhere
<1>4. row.level # Nowhere.level
  BY <1>1, <1>2, <1>3
<1>5. DecodeOrgPath[row.path] # <<>>
  BY <1>2, <1>3
<1> QED BY <1>4, <1>5

\* What the forest sees of the rows.
LEMMA PlacesOfRows ==
  ASSUME TreeInv
  PROVE  /\ \A o \in Created : OrgPlaces[o] = PlaceOf(o) /\ IsPath(PlaceOf(o))
                               /\ orgs[o].path = EncodeOrgPath(PlaceOf(o))
                               /\ orgs[o].level = Len(PlaceOf(o))
                               /\ orgs[o].segment = PlaceOf(o)[Len(PlaceOf(o))]
         /\ Forest!Placed = Created /\ Forest!Standing = LiveOrgs
         /\ DisabledOrgs \subseteq Created /\ DeletedOrgs \subseteq Created
<1>1. ASSUME NEW o \in Created
      PROVE  OrgPlaces[o] = PlaceOf(o) /\ IsPacked(orgs[o]) /\ PlaceOf(o) # <<>>
  <2>1. IsPacked(orgs[o]) /\ o \in Organizations
    BY DEF TreeInv, Created
  <2>2. OrgPlaces[o] = PlaceOf(o)
    BY <2>1 DEF OrgPlaces, PlaceOf
  <2> QED BY <2>1, <2>2, PackedRow DEF PlaceOf
<1>2. Forest!Placed = Created
  <2>1. \A o \in Organizations \ Created : OrgPlaces[o] = <<>>
    BY DEF OrgPlaces
  <2> QED BY <1>1, <2>1 DEF Forest!Placed, Created
<1>3. Forest!Standing = LiveOrgs
  BY <1>2 DEF Forest!Standing, LiveOrgs, DeletedOrgs
<1>4. \A o \in Created : /\ IsPath(PlaceOf(o)) /\ orgs[o].path = EncodeOrgPath(PlaceOf(o))
                         /\ orgs[o].level = Len(PlaceOf(o))
                         /\ orgs[o].segment = PlaceOf(o)[Len(PlaceOf(o))]
  BY <1>1 DEF IsPacked, PlaceOf
<1> QED BY <1>1, <1>2, <1>3, <1>4 DEF DisabledOrgs, DeletedOrgs

\* The range of an organization is its subtree.
LEMMA BelowIsAbove ==
  ASSUME TreeInv, NEW o \in Created, NEW p \in Created
  PROVE  /\ p \in Below(o) <=> Forest!Above(PlaceOf(o), PlaceOf(p))
         /\ IsDescendantPath(orgs[p].path, orgs[o].path, orgs[o].level)
              <=> Forest!Above(PlaceOf(o), PlaceOf(p))
<1>1. /\ IsPath(PlaceOf(o)) /\ orgs[o].path = EncodeOrgPath(PlaceOf(o)) /\ orgs[o].level = Len(PlaceOf(o))
      /\ IsPath(PlaceOf(p)) /\ orgs[p].path = EncodeOrgPath(PlaceOf(p))
  BY PlacesOfRows
<1>2. IsDescendantPath(orgs[p].path, orgs[o].path, orgs[o].level)
        <=> Forest!Above(PlaceOf(o), PlaceOf(p))
  BY <1>1, RangesAreSubtrees
<1> QED BY <1>2 DEF Below

LEMMA SubtreesOfRows ==
  ASSUME TreeInv, NEW o \in LiveOrgs
  PROVE  Forest!Subtree(o) = LiveOrgs \cap ({o} \cup Below(o))
<1>1. o \in Created /\ LiveOrgs \subseteq Created
  BY DEF LiveOrgs
<1>2. \A p \in LiveOrgs : p \in Below(o) <=> Forest!Above(OrgPlaces[o], OrgPlaces[p])
  BY <1>1, BelowIsAbove, PlacesOfRows
<1> QED BY <1>2, PlacesOfRows DEF Forest!Subtree

\* A free segment that is not refused is found.
LEMMA NextIsFree ==
  ASSUME NEW used, NEW level \in 1 .. MaxLevel, \E s \in 1 .. MaxSegment(level) : s \notin used
  PROVE  /\ NextSegment(used, level) \in 1 .. ChildSegments /\ NextSegment(used, level) \notin used
         /\ level = 1 => NextSegment(used, level) <= RootSegments
<1> DEFINE free == {s \in 1 .. MaxSegment(level) : s \notin used}
<1>1. /\ MaxSegment(level) \in Nat /\ MaxSegment(level) <= ChildSegments
      /\ level = 1 => MaxSegment(level) = RootSegments
  BY TreeConstants DEF MaxSegment
<1>2. PICK s \in free : \A t \in free : s <= t
  <2>1. free \subseteq Nat /\ free # {}
    BY <1>1
  <2> HIDE DEF free
  <2> QED BY <2>1, LeastExists
<1>3. \A t \in 1 .. s - 1 : t \in used
  <2> SUFFICES ASSUME NEW t \in 1 .. s - 1 PROVE t \in used
    OBVIOUS
  <2>1. t \in 1 .. MaxSegment(level) /\ ~(s <= t)
    BY <1>1, <1>2
  <2> QED BY <1>2, <2>1
<1>4. /\ NextSegment(used, level) \in 1 .. MaxSegment(level)
      /\ NextSegment(used, level) \notin used
  BY <1>2, <1>3 DEF NextSegment
<1> QED BY <1>1, <1>4, TreeConstants

\* What a new row is.
LEMMA CreatedRow ==
  ASSUME TreeInv, NEW o \in Organizations, NEW prefix, NEW siblings, Create(o, prefix, siblings),
         prefix = <<>> \/ IsPath(prefix)
  PROVE  \E s \in 1 .. ChildSegments, row \in OrganizationRow :
           /\ IsPath(Append(prefix, s)) /\ s \notin UsedSegments(Len(prefix) + 1, siblings)
           /\ Len(prefix) < MaxLevel
           /\ orgs' = [orgs EXCEPT ![o] = row] /\ IsPacked(row)
           /\ DecodeOrgPath[row.path] = Append(prefix, s)
           /\ row.status = "enabled" /\ ~row.isDeleted
<1> DEFINE level == Len(prefix) + 1
           used == UsedSegments(level, siblings)
           s == NextSegment(used, level)
           where == Append(prefix, s)
           row == [path |-> EncodeOrgPath(where), level |-> level, segment |-> s,
                   status |-> "enabled", isDeleted |-> FALSE]
<1>1. /\ level <= MaxLevel /\ (\E t \in 1 .. MaxSegment(level) : t \notin used)
      /\ orgs' = [orgs EXCEPT ![o] = row]
  BY DEF Create
<1>2. prefix \in Seq(1 .. ChildSegments) /\ Len(prefix) \in Nat
  <2>1. CASE prefix = <<>>
    <3>1. <<>> \in Seq(1 .. ChildSegments) /\ Len(<<>>) \in Nat
      OBVIOUS
    <3> QED BY <2>1, <3>1, Zenon
  <2>2. CASE IsPath(prefix)
    BY <2>2, SeqItems, Zenon DEF IsPath
  <2> QED BY <2>1, <2>2
<1>3. level \in 1 .. MaxLevel
  BY <1>1, <1>2, TreeConstants
<1>4. s \in 1 .. ChildSegments /\ s \notin used /\ (level = 1 => s <= RootSegments)
  <2> HIDE DEF level, used
  <2> QED BY <1>1, <1>3, NextIsFree
<1> HIDE DEF s
<1>5. /\ where \in Seq(1 .. ChildSegments) /\ Len(where) = level
      /\ where[level] = s /\ \A i \in 1 .. Len(prefix) : where[i] = prefix[i]
  BY <1>2, <1>4
<1>6. where[1] <= RootSegments
  <2>1. CASE prefix = <<>>
    BY <1>4, <1>5, <2>1
  <2>2. CASE IsPath(prefix)
    <3>1. 1 \in 1 .. Len(prefix) /\ prefix[1] <= RootSegments
      BY <2>2, TreeConstants DEF IsPath
    <3> QED BY <1>5, <3>1
  <2> QED BY <2>1, <2>2
<1> HIDE DEF where
<1>7. IsPath(where)
  BY <1>3, <1>5, <1>6 DEF IsPath
<1>8. EncodeOrgPath(where) \in PackedPaths /\ DecodeOrgPath[EncodeOrgPath(where)] = where
  BY <1>7, PathsFit, PathsDecode
<1> HIDE DEF level
<1>9. row \in OrganizationRow
  <2>1. level \in 0 .. MaxLevel /\ s \in 0 .. Radix
    BY <1>3, <1>4, TreeConstants
  <2> QED BY <1>8, <2>1 DEF OrganizationRow, Statuses
<1>10. /\ row.path = EncodeOrgPath(where) /\ row.level = level /\ row.segment = s
       /\ row.status = "enabled" /\ ~row.isDeleted
  OBVIOUS
<1> HIDE DEF row
<1>11. IsPacked(row)
  BY <1>5, <1>7, <1>8, <1>10 DEF IsPacked
<1>12. Len(prefix) < MaxLevel
  BY <1>2, <1>3, TreeConstants DEF level
<1> QED BY <1>1, <1>4, <1>7, <1>8, <1>9, <1>10, <1>11, <1>12 DEF where, level

\* A new row in its place: nothing else moves.
LEMMA RowIsAdded ==
  ASSUME TreeInv, NEW o \in Organizations \ Created, NEW row \in OrganizationRow, IsPacked(row),
         orgs' = [orgs EXCEPT ![o] = row], row.status = "enabled", ~row.isDeleted, UNCHANGED depth
  PROVE  /\ TreeInv' /\ Created' = Created \cup {o}
         /\ OrgPlaces' = [OrgPlaces EXCEPT ![o] = DecodeOrgPath[row.path]]
         /\ UNCHANGED <<DisabledOrgs, DeletedOrgs>>
<1>1. orgs \in [Organizations -> OrganizationRow] /\ depth \in 1 .. MaxLevel
  BY DEF TreeInv, TreeTypeOK
<1>2. /\ orgs' \in [Organizations -> OrganizationRow] /\ orgs'[o] = row
      /\ \A p \in Organizations \ {o} : orgs'[p] = orgs[p]
  BY <1>1
<1>3. row # Nowhere
  BY PackedRow
<1>4. Created' = Created \cup {o}
  BY <1>2, <1>3 DEF Created
<1>5. TreeInv'
  <2>1. \A p \in Created' : IsPacked(orgs'[p])
    BY <1>2, <1>4 DEF TreeInv, Created
  <2> QED BY <1>1, <1>2, <2>1 DEF TreeInv, TreeTypeOK
<1>6. OrgPlaces' = [OrgPlaces EXCEPT ![o] = DecodeOrgPath[row.path]]
  <2>1. OrgPlaces' = [p \in Organizations |-> IF p \in Created' THEN DecodeOrgPath[orgs'[p].path] ELSE <<>>]
    BY DEF OrgPlaces
  <2>2. OrgPlaces = [p \in Organizations |-> IF p \in Created THEN DecodeOrgPath[orgs[p].path] ELSE <<>>]
    BY DEF OrgPlaces
  <2> QED BY <1>2, <1>4, <2>1, <2>2
<1>7. DisabledOrgs' = DisabledOrgs /\ DeletedOrgs' = DeletedOrgs
  BY <1>2, <1>4 DEF DisabledOrgs, DeletedOrgs, Created
<1> QED BY <1>4, <1>5, <1>6, <1>7

\* Rows that keep their paths keep their places.
LEMMA PlacesStay ==
  ASSUME TreeInv, orgs' \in [Organizations -> OrganizationRow], depth' \in 1 .. MaxLevel,
         \A p \in Organizations : /\ orgs'[p].path = orgs[p].path /\ orgs'[p].level = orgs[p].level
                                  /\ orgs'[p].segment = orgs[p].segment
                                  /\ p \notin Created => orgs'[p] = orgs[p]
  PROVE  TreeInv' /\ Created' = Created /\ OrgPlaces' = OrgPlaces
<1>1. \A p \in Created : IsPacked(orgs'[p])
  <2> SUFFICES ASSUME NEW p \in Created PROVE IsPacked(orgs'[p])
    OBVIOUS
  <2>1. IsPacked(orgs[p]) /\ p \in Organizations
    BY DEF TreeInv, Created
  <2> QED BY <2>1 DEF IsPacked
<1>2. Created' = Created
  <2>1. \A p \in Created : orgs'[p] # Nowhere
    BY <1>1, PackedRow
  <2> QED BY <2>1 DEF Created
<1>3. TreeInv'
  BY <1>1, <1>2 DEF TreeInv, TreeTypeOK
<1>4. OrgPlaces' = [p \in Organizations |-> IF p \in Created THEN DecodeOrgPath[orgs'[p].path] ELSE <<>>]
  BY <1>2 DEF OrgPlaces
<1>5. OrgPlaces' = OrgPlaces
  BY <1>4 DEF OrgPlaces
<1> QED BY <1>2, <1>3, <1>5

-----------------------------------------------------------------------------
(* Each change of the organizations is a step of the forest. *)

LEMMA CreateIsFounding ==
  ASSUME TreeInv, NEW o \in Organizations, NEW prefix, NEW siblings, Create(o, prefix, siblings),
         prefix = <<>> \/ IsPath(prefix),
         \A p \in Created : prefix = <<>> \/ Forest!Above(prefix, PlaceOf(p)) => p \in siblings
  PROVE  /\ TreeInv' /\ Created' = Created \cup {o}
         /\ o \in Organizations \ Forest!Placed
         /\ \E s \in 1 .. ChildSegments :
              Forest!Founds(o, Append(prefix, s)) /\ Len(prefix) < MaxLevel
<1>1. PICK s \in 1 .. ChildSegments, row \in OrganizationRow :
        /\ IsPath(Append(prefix, s)) /\ s \notin UsedSegments(Len(prefix) + 1, siblings)
        /\ Len(prefix) < MaxLevel
        /\ orgs' = [orgs EXCEPT ![o] = row] /\ IsPacked(row)
        /\ DecodeOrgPath[row.path] = Append(prefix, s)
        /\ row.status = "enabled" /\ ~row.isDeleted
  BY CreatedRow
<1>2. o \in Organizations \ Created /\ UNCHANGED depth
  BY DEF Create
<1>3. /\ TreeInv' /\ Created' = Created \cup {o}
      /\ OrgPlaces' = [OrgPlaces EXCEPT ![o] = DecodeOrgPath[row.path]]
      /\ UNCHANGED <<DisabledOrgs, DeletedOrgs>>
  BY <1>1, <1>2, RowIsAdded
<1>4. Forest!Placed = Created
  BY PlacesOfRows
<1>5. ASSUME NEW p \in Created, OrgPlaces[p] = Append(prefix, s) PROVE FALSE
  <2>1. /\ PlaceOf(p) = Append(prefix, s) /\ orgs[p].level = Len(PlaceOf(p))
        /\ orgs[p].segment = PlaceOf(p)[Len(PlaceOf(p))]
    BY <1>5, PlacesOfRows
  <2>2. prefix \in Seq(1 .. ChildSegments)
    <3>1. <<>> \in Seq(1 .. ChildSegments)
      OBVIOUS
    <3> QED BY <3>1 DEF IsPath
  <2>3. /\ Len(Append(prefix, s)) = Len(prefix) + 1 /\ Append(prefix, s)[Len(prefix) + 1] = s
        /\ Len(prefix) \in Nat /\ \A i \in 1 .. Len(prefix) : Append(prefix, s)[i] = prefix[i]
    BY <2>2
  <2>4. Forest!Above(prefix, PlaceOf(p))
    BY <2>1, <2>3 DEF Forest!Above
  <2>5. p \in siblings /\ orgs[p].level = Len(prefix) + 1 /\ orgs[p].segment = s
    BY <2>1, <2>3, <2>4
  <2>6. s \in UsedSegments(Len(prefix) + 1, siblings)
    BY <2>5 DEF UsedSegments
  <2> QED BY <1>1, <2>6
<1>6. Forest!Founds(o, Append(prefix, s))
  BY <1>1, <1>3, <1>4, <1>5 DEF Forest!Founds
<1> QED BY <1>1, <1>2, <1>3, <1>4, <1>6

LEMMA CreateRootIsAStep ==
  ASSUME TreeInv, NEW o \in Organizations, CreateRoot(o)
  PROVE  TreeInv' /\ Created' = Created \cup {o} /\ Forest!ForestNext
<1>1. Create(o, <<>>, Created)
  BY DEF CreateRoot
<1>2. /\ TreeInv' /\ Created' = Created \cup {o} /\ o \in Organizations \ Forest!Placed
      /\ \E s \in 1 .. ChildSegments : Forest!Founds(o, Append(<<>>, s)) /\ Len(<<>>) < MaxLevel
  BY <1>1, CreateIsFounding
<1>3. PICK s \in 1 .. ChildSegments : Forest!Founds(o, Append(<<>>, s))
  BY <1>2
<1>4. Append(<<>>, s) = <<s>>
  OBVIOUS
<1>5. Forest!FoundRoot(o, s)
  BY <1>3, <1>4 DEF Forest!FoundRoot
<1> QED BY <1>2, <1>5 DEF Forest!ForestNext

LEMMA CreateUnderIsAStep ==
  ASSUME TreeInv, NEW o \in Organizations, NEW parent \in Organizations, CreateUnder(o, parent)
  PROVE  TreeInv' /\ Created' = Created \cup {o} /\ Forest!ForestNext
<1>1. /\ parent \in LiveOrgs /\ orgs[parent].status = "enabled"
      /\ Create(o, PlaceOf(parent), Created \cap Below(parent))
  BY DEF CreateUnder, PlaceOf
<1>2. parent \in Created /\ IsPath(PlaceOf(parent)) /\ OrgPlaces[parent] = PlaceOf(parent)
  BY <1>1, PlacesOfRows DEF LiveOrgs
<1>3. PlaceOf(parent) # <<>>
  BY <1>2, PlacesOfRows, PackedRow DEF TreeInv, PlaceOf
<1>4. \A p \in Created : Forest!Above(PlaceOf(parent), PlaceOf(p)) => p \in Created \cap Below(parent)
  BY <1>2, BelowIsAbove
<1>5. /\ TreeInv' /\ Created' = Created \cup {o} /\ o \in Organizations \ Forest!Placed
      /\ \E s \in 1 .. ChildSegments :
           Forest!Founds(o, Append(PlaceOf(parent), s)) /\ Len(PlaceOf(parent)) < MaxLevel
  BY <1>1, <1>2, <1>3, <1>4, CreateIsFounding
<1>6. PICK s \in 1 .. ChildSegments :
        Forest!Founds(o, Append(PlaceOf(parent), s)) /\ Len(PlaceOf(parent)) < MaxLevel
  BY <1>5
<1>7. Forest!FoundUnder(o, parent, s)
  BY <1>2, <1>6 DEF Forest!FoundUnder
<1>8. parent \in Forest!Standing \ DisabledOrgs
  BY <1>1, PlacesOfRows DEF DisabledOrgs
<1> QED BY <1>5, <1>7, <1>8 DEF Forest!ForestNext

\* A row with another status or mark.
LEMMA MarkedRow ==
  ASSUME NEW row \in OrganizationRow, NEW st \in Statuses
  PROVE  /\ [row EXCEPT !.status = st] \in OrganizationRow
         /\ [row EXCEPT !.isDeleted = TRUE] \in OrganizationRow
         /\ [row EXCEPT !.status = st].status = st
         /\ [row EXCEPT !.status = st].isDeleted = row.isDeleted
         /\ [row EXCEPT !.isDeleted = TRUE].isDeleted
         /\ [row EXCEPT !.isDeleted = TRUE].status = row.status
         /\ \A r \in {[row EXCEPT !.status = st], [row EXCEPT !.isDeleted = TRUE]} :
              r.path = row.path /\ r.level = row.level /\ r.segment = row.segment
BY DEF OrganizationRow, Statuses

LEMMA DisableIsAStep ==
  ASSUME TreeInv, NEW o \in Organizations, Disable(o)
  PROVE  TreeInv' /\ Created' = Created /\ OrgPlaces' = OrgPlaces /\ Forest!ForestNext
<1> DEFINE reach == LiveOrgs \cap ({o} \cup Below(o))
<1>1. o \in LiveOrgs /\ depth' = depth
      /\ orgs' = [p \in Organizations |-> IF p \in reach
                                          THEN [orgs[p] EXCEPT !.status = "disabled"] ELSE orgs[p]]
  BY DEF Disable
<1>2. orgs \in [Organizations -> OrganizationRow] /\ depth \in 1 .. MaxLevel /\ "disabled" \in Statuses
  BY DEF TreeInv, TreeTypeOK, Statuses
<1>3. reach \subseteq Created /\ reach \subseteq Organizations /\ reach = Forest!Subtree(o)
  BY <1>1, SubtreesOfRows DEF LiveOrgs, Created
<1> HIDE DEF reach
<1>4. ASSUME NEW p \in Organizations
      PROVE  /\ orgs'[p] \in OrganizationRow
             /\ orgs'[p].path = orgs[p].path /\ orgs'[p].level = orgs[p].level
             /\ orgs'[p].segment = orgs[p].segment /\ orgs'[p].isDeleted = orgs[p].isDeleted
             /\ p \in reach => orgs'[p].status = "disabled"
             /\ p \notin reach => orgs'[p] = orgs[p]
  <2>1. CASE p \in reach
    <3>1. orgs[p] \in OrganizationRow /\ orgs'[p] = [orgs[p] EXCEPT !.status = "disabled"]
      BY <1>1, <1>2, <2>1
    <3>2. /\ [orgs[p] EXCEPT !.status = "disabled"] \in OrganizationRow
          /\ [orgs[p] EXCEPT !.status = "disabled"].status = "disabled"
          /\ [orgs[p] EXCEPT !.status = "disabled"].isDeleted = orgs[p].isDeleted
          /\ [orgs[p] EXCEPT !.status = "disabled"].path = orgs[p].path
          /\ [orgs[p] EXCEPT !.status = "disabled"].level = orgs[p].level
          /\ [orgs[p] EXCEPT !.status = "disabled"].segment = orgs[p].segment
      BY <1>2, <3>1, MarkedRow
    <3> QED BY <2>1, <3>1, <3>2
  <2>2. CASE p \notin reach
    BY <1>1, <1>2, <2>2
  <2> QED BY <2>1, <2>2
<1>5. orgs' \in [Organizations -> OrganizationRow]
  BY <1>1, <1>4
<1>6. TreeInv' /\ Created' = Created /\ OrgPlaces' = OrgPlaces
  BY <1>1, <1>2, <1>3, <1>4, <1>5, PlacesStay
<1>7. DisabledOrgs' = DisabledOrgs \cup reach
  BY <1>3, <1>4, <1>6 DEF DisabledOrgs, Created
<1>8. DeletedOrgs' = DeletedOrgs
  BY <1>4, <1>6 DEF DeletedOrgs, Created
<1>9. Forest!Close(o) /\ o \in Forest!Standing
  BY <1>1, <1>3, <1>6, <1>7, <1>8, PlacesOfRows DEF Forest!Close
<1> QED BY <1>6, <1>9 DEF Forest!ForestNext

LEMMA DeleteIsAStep ==
  ASSUME TreeInv, NEW o \in Organizations, Delete(o)
  PROVE  TreeInv' /\ Created' = Created /\ OrgPlaces' = OrgPlaces /\ Forest!ForestNext
<1> DEFINE reach == LiveOrgs \cap ({o} \cup Below(o))
<1>1. o \in LiveOrgs /\ depth' = depth
      /\ orgs' = [p \in Organizations |-> IF p \in reach
                                          THEN [orgs[p] EXCEPT !.isDeleted = TRUE] ELSE orgs[p]]
  BY DEF Delete
<1>2. orgs \in [Organizations -> OrganizationRow] /\ depth \in 1 .. MaxLevel /\ "disabled" \in Statuses
  BY DEF TreeInv, TreeTypeOK, Statuses
<1>3. reach \subseteq Created /\ reach \subseteq Organizations /\ reach = Forest!Subtree(o)
  BY <1>1, SubtreesOfRows DEF LiveOrgs, Created
<1> HIDE DEF reach
<1>4. ASSUME NEW p \in Organizations
      PROVE  /\ orgs'[p] \in OrganizationRow
             /\ orgs'[p].path = orgs[p].path /\ orgs'[p].level = orgs[p].level
             /\ orgs'[p].segment = orgs[p].segment /\ orgs'[p].status = orgs[p].status
             /\ p \in reach => orgs'[p].isDeleted
             /\ p \notin reach => orgs'[p] = orgs[p]
  <2>1. CASE p \in reach
    BY <1>1, <1>2, <2>1, MarkedRow
  <2>2. CASE p \notin reach
    BY <1>1, <1>2, <2>2
  <2> QED BY <2>1, <2>2
<1>5. orgs' \in [Organizations -> OrganizationRow]
  BY <1>1, <1>4
<1>6. TreeInv' /\ Created' = Created /\ OrgPlaces' = OrgPlaces
  BY <1>1, <1>2, <1>3, <1>4, <1>5, PlacesStay
<1>7. DeletedOrgs' = DeletedOrgs \cup reach
  BY <1>3, <1>4, <1>6 DEF DeletedOrgs, Created
<1>8. DisabledOrgs' = DisabledOrgs
  BY <1>4, <1>6 DEF DisabledOrgs, Created
<1>9. Forest!Remove(o) /\ o \in Forest!Standing
  BY <1>1, <1>3, <1>6, <1>7, <1>8, PlacesOfRows DEF Forest!Remove
<1> QED BY <1>6, <1>9 DEF Forest!ForestNext

LEMMA EnableIsAStep ==
  ASSUME TreeInv, NEW o \in Organizations, Enable(o)
  PROVE  TreeInv' /\ Created' = Created /\ OrgPlaces' = OrgPlaces /\ Forest!ForestNext
<1>1. /\ o \in LiveOrgs /\ ~HasDisabledAncestor(o) /\ depth' = depth
      /\ orgs' = [orgs EXCEPT ![o] = [orgs[o] EXCEPT !.status = "enabled"]]
  BY DEF Enable
<1>2. orgs \in [Organizations -> OrganizationRow] /\ depth \in 1 .. MaxLevel /\ "enabled" \in Statuses
  BY DEF TreeInv, TreeTypeOK, Statuses
<1>3. o \in Created /\ LiveOrgs \subseteq Created
  BY <1>1 DEF LiveOrgs
<1>4. ASSUME NEW p \in Organizations
      PROVE  /\ orgs'[p] \in OrganizationRow
             /\ orgs'[p].path = orgs[p].path /\ orgs'[p].level = orgs[p].level
             /\ orgs'[p].segment = orgs[p].segment /\ orgs'[p].isDeleted = orgs[p].isDeleted
             /\ p = o => orgs'[p].status = "enabled"
             /\ p # o => orgs'[p] = orgs[p]
  <2>1. CASE p = o
    <3>1. orgs[p] \in OrganizationRow /\ orgs'[p] = [orgs[p] EXCEPT !.status = "enabled"]
      BY <1>1, <1>2, <2>1
    <3>2. /\ [orgs[p] EXCEPT !.status = "enabled"] \in OrganizationRow
          /\ [orgs[p] EXCEPT !.status = "enabled"].status = "enabled"
          /\ [orgs[p] EXCEPT !.status = "enabled"].isDeleted = orgs[p].isDeleted
          /\ [orgs[p] EXCEPT !.status = "enabled"].path = orgs[p].path
          /\ [orgs[p] EXCEPT !.status = "enabled"].level = orgs[p].level
          /\ [orgs[p] EXCEPT !.status = "enabled"].segment = orgs[p].segment
      BY <1>2, <3>1, MarkedRow
    <3> QED BY <2>1, <3>1, <3>2
  <2>2. CASE p # o
    BY <1>1, <1>2, <2>2
  <2> QED BY <2>1, <2>2
<1>5. orgs' \in [Organizations -> OrganizationRow]
  BY <1>1, <1>2, <1>4
<1>6. TreeInv' /\ Created' = Created /\ OrgPlaces' = OrgPlaces
  BY <1>1, <1>2, <1>3, <1>4, <1>5, PlacesStay
<1>7. DisabledOrgs' = DisabledOrgs \ {o}
  BY <1>3, <1>4, <1>6 DEF DisabledOrgs, Created
<1>8. DeletedOrgs' = DeletedOrgs
  BY <1>4, <1>6 DEF DeletedOrgs, Created
<1>9. ASSUME NEW p \in LiveOrgs, Forest!Above(OrgPlaces[p], OrgPlaces[o]) PROVE p \notin DisabledOrgs
  <2>1. o \in Below(p)
    BY <1>3, <1>9, PlacesOfRows, BelowIsAbove
  <2> QED BY <1>1, <2>1 DEF HasDisabledAncestor, DisabledOrgs
<1>10. Forest!Open(o) /\ o \in Forest!Standing
  BY <1>1, <1>6, <1>7, <1>8, <1>9, PlacesOfRows DEF Forest!Open
<1> QED BY <1>6, <1>10 DEF Forest!ForestNext

\* A step of the tree keeps its invariant, changes no place that was given and
\* is a step of the forest.
LEMMA TreeSteps ==
  ASSUME TreeInv, [TreeNext]_treeVars
  PROVE  /\ TreeInv' /\ [Forest!ForestNext]_(Forest!forestVars)
         /\ Created \subseteq Created' /\ \A o \in Created : PlaceOf(o)' = PlaceOf(o)
         /\ orgs' = orgs \/ Forest!ForestNext
<1> DEFINE Goal == /\ TreeInv' /\ [Forest!ForestNext]_(Forest!forestVars)
                   /\ Created \subseteq Created' /\ \A o \in Created : PlaceOf(o)' = PlaceOf(o)
                   /\ orgs' = orgs \/ Forest!ForestNext
<1>1. ASSUME NEW o \in Organizations, CreateRoot(o) \/ \E p \in Organizations : CreateUnder(o, p)
      PROVE  Goal
  <2>1. TreeInv' /\ Created' = Created \cup {o} /\ Forest!ForestNext
    BY <1>1, CreateRootIsAStep, CreateUnderIsAStep, Zenon
  <2>2. o \notin Created /\ \E row : orgs' = [orgs EXCEPT ![o] = row]
    BY <1>1 DEF CreateRoot, CreateUnder, Create
  <2>3. \A p \in Created : orgs'[p] = orgs[p]
    BY <2>2 DEF TreeInv, TreeTypeOK, Created
  <2>4. \A p \in Created : PlaceOf(p)' = PlaceOf(p)
    BY <2>3 DEF PlaceOf
  <2> QED BY <2>1, <2>4
<1>2. ASSUME NEW o \in Organizations, Disable(o) \/ Enable(o) \/ Delete(o)
      PROVE  Goal
  <2>1. TreeInv' /\ Created' = Created /\ OrgPlaces' = OrgPlaces /\ Forest!ForestNext
    BY <1>2, DisableIsAStep, EnableIsAStep, DeleteIsAStep, Zenon
  <2>2. \A p \in Created : OrgPlaces[p] = PlaceOf(p)
    BY PlacesOfRows
  <2>3. \A p \in Created : OrgPlaces'[p] = PlaceOf(p)'
    <3>1. \A p \in Created : p \in Organizations /\ p \in Created'
      BY <2>1 DEF Created
    <3> QED BY <3>1 DEF OrgPlaces, PlaceOf
  <2> QED BY <2>1, <2>2, <2>3
<1>3. ASSUME orgs' = orgs, depth' \in 1 .. MaxLevel PROVE Goal
  <2>1. OrgPlaces' = OrgPlaces /\ DisabledOrgs' = DisabledOrgs /\ DeletedOrgs' = DeletedOrgs
        /\ Created' = Created /\ \A o \in Created : PlaceOf(o)' = PlaceOf(o)
    BY <1>3 DEF OrgPlaces, DisabledOrgs, DeletedOrgs, Created, PlaceOf
  <2>2. TreeInv'
    BY <1>3, <2>1 DEF TreeInv, TreeTypeOK
  <2> QED BY <1>3, <2>1, <2>2 DEF Forest!forestVars
<1>4. ASSUME UNCHANGED treeVars PROVE Goal
  BY <1>3, <1>4 DEF treeVars, TreeInv, TreeTypeOK
<1>5. ASSUME NEW d \in 1 .. MaxLevel, ConfigureDepth(d) PROVE Goal
  BY <1>3, <1>5 DEF ConfigureDepth
<1> HIDE DEF Goal
<1>6. Goal
  BY <1>1, <1>2, <1>4, <1>5, Zenon DEF TreeNext
<1> QED BY <1>6 DEF Goal

LEMMA TreeStarts == TreeInit => TreeInv /\ Forest!ForestInit /\ Created = {}
<1> SUFFICES ASSUME TreeInit PROVE TreeInv /\ Forest!ForestInit /\ Created = {}
  OBVIOUS
<1>1. orgs = [o \in Organizations |-> Nowhere] /\ depth = MaxLevel
  BY DEF TreeInit
<1>2. Created = {}
  BY <1>1 DEF Created
<1>3. Nowhere \in OrganizationRow
  <2>1. 0 \in PackedPaths
    <3>1. Weight(0) \in Nat
      BY WeightSteps, TreeConstants
    <3> QED BY <3>1 DEF PackedPaths
  <2>2. 0 \in 0 .. MaxLevel /\ 0 \in 0 .. Radix
    BY TreeConstants
  <2> QED BY <2>1, <2>2 DEF Nowhere, OrganizationRow, Statuses
<1>4. TreeInv
  BY <1>1, <1>2, <1>3, TreeConstants DEF TreeInv, TreeTypeOK
<1>5. Forest!ForestInit
  BY <1>2 DEF Forest!ForestInit, OrgPlaces, DisabledOrgs, DeletedOrgs
<1> QED BY <1>2, <1>4, <1>5

\* Rows have types and places, and the forest the paths describe is the one the
\* rows were put into.
THEOREM TreeInvHolds == TreeSpec => []TreeInv
<1>1. TreeInv /\ [TreeNext]_treeVars => TreeInv'
  BY TreeSteps
<1> QED BY <1>1, TreeStarts, PTL DEF TreeSpec

\* The organization tree implements the forest: packed paths, ranges and
\* segments that are never given twice are places, subtrees and founding.
THEOREM TreeIsAForest == TreeSpec => Forest!ForestSpec
<1>1. TreeInv /\ [TreeNext]_treeVars => [Forest!ForestNext]_(Forest!forestVars)
  BY TreeSteps
<1> QED BY <1>1, TreeStarts, TreeInvHolds, PTL DEF TreeSpec, Forest!ForestSpec

\* PathsAreAForest holds with any number of organizations, any radix and any
\* depth: ranges of packed paths are subtrees, and every change of a row is a
\* step of the forest.
THEOREM PathsHold == TreeSpec => PathsAreAForest
<1>1. TreeInv => TreeTypeOK
  BY DEF TreeInv
<1>2. TreeInv /\ [TreeNext]_treeVars
        => [orgs' # orgs => [Forest!ForestNext]_(Forest!forestVars)]_treeVars
  BY TreeSteps
<1>3. Forest!ForestSpec => []Forest!ForestIsSound
  BY Forest!ForestSound
<1> QED BY <1>1, <1>2, <1>3, TreeStarts, TreeInvHolds, TreeIsAForest, PTL DEF TreeSpec, PathsAreAForest

-----------------------------------------------------------------------------
(* Announcements. *)

\* No target is above another one.
Apart(targets) == \A t, u \in targets : t # u => ~Forest!Above(PlaceOf(t), PlaceOf(u))

\* What is said of an announcement, and of a change that waits to be written.
WellTargeted(row) ==
  /\ row.targets \subseteq Created /\ Apart(row.targets)
  /\ row.scope = "organization" <=> row.targets # {}

\* Requests whose change waits.
Waits(q) == q.step = "read" /\ Rewrites(q)

\* The inductive invariant: the targets are apart but where crossed requests wrote,
\* and so are those of any change that was read and is not written yet.
AnnouncementsInv ==
  /\ TreeInv /\ AnnouncementsTypeOK
  /\ \A a \in AnnouncementIds \ mixed : WellTargeted(announcements[a])
  /\ \A r \in AnnouncementRequests :
       Waits(pendingRequests[r]) => WellTargeted(pendingRequests[r].next)
  /\ \A p \in ApiProcesses, a \in AnnouncementIds : uncommitted[p][a] # {} => a \in mixed

\* What passes the validation is apart.
LEMMA ValidIsApart ==
  ASSUME TreeInv, NEW scope \in {"system", "organization"}, NEW targets \in SUBSET Organizations,
         ValidTargets(scope, targets),
         NEW row, row.scope = scope, row.targets = targets
  PROVE  WellTargeted(row)
<1>1. CASE scope = "system"
  BY <1>1 DEF ValidTargets, WellTargeted, Apart
<1>2. CASE scope = "organization"
  <2>1. /\ targets # {} /\ targets \subseteq Created
        /\ \A t, u \in targets : t # u => ~Covers(t, u)
    BY <1>2 DEF ValidTargets, LiveOrgs
  <2>2. \A t, u \in targets : t # u => ~Forest!Above(PlaceOf(t), PlaceOf(u))
    BY <2>1, BelowIsAbove DEF Covers
  <2> QED BY <1>2, <2>1, <2>2 DEF WellTargeted, Apart
<1> QED BY <1>1, <1>2

\* Targets stay apart while places stay where they are.
LEMMA StillApart ==
  ASSUME NEW row, WellTargeted(row), Created \subseteq Created', \A o \in Created : PlaceOf(o)' = PlaceOf(o)
  PROVE  /\ row.targets \subseteq Created'
         /\ \A t, u \in row.targets : t # u => ~Forest!Above(PlaceOf(t)', PlaceOf(u)')
         /\ row.scope = "organization" <=> row.targets # {}
BY DEF WellTargeted, Apart

\* What a request makes of a row.
LEMMA WrittenIsWell ==
  ASSUME NEW row \in Announcement, NEW q \in Request, NEW targets \in SUBSET Organizations
  PROVE  /\ Written(row, q, targets) \in Announcement
         /\ Rewrites(q) /\ WellTargeted(q.next) /\ targets = q.next.targets
              => WellTargeted(Written(row, q, targets))
         /\ ~Rewrites(q) /\ WellTargeted(row) => WellTargeted(Written(row, q, targets))
<1>1. /\ q.kind \in RequestKinds /\ q.next \in Announcement
      /\ row.status \in {"none", "draft", "published", "deleted"}
  BY DEF Request, Announcement
<1>2. CASE Rewrites(q)
  <2> DEFINE next == [status |-> IF q.kind = "create" THEN "draft" ELSE row.status,
                      scope |-> q.next.scope, targets |-> targets]
  <2>1. Written(row, q, targets) = next
    BY <1>2 DEF Written, Rewrites
  <2>2. next \in Announcement
    BY <1>1 DEF Announcement
  <2>3. next.targets = targets /\ next.scope = q.next.scope
    OBVIOUS
  <2> HIDE DEF next
  <2> QED BY <1>2, <2>1, <2>2, <2>3 DEF WellTargeted
<1>3. ASSUME NEW st \in {"published", "draft", "deleted"}
      PROVE  /\ [row EXCEPT !.status = st] \in Announcement
             /\ WellTargeted(row) => WellTargeted([row EXCEPT !.status = st])
  <2>1. /\ [row EXCEPT !.status = st] \in Announcement
        /\ [row EXCEPT !.status = st].targets = row.targets
        /\ [row EXCEPT !.status = st].scope = row.scope
    BY DEF Announcement
  <2> QED BY <2>1 DEF WellTargeted
<1>4. CASE q.kind = "publish"
  <2>1. Written(row, q, targets) = [row EXCEPT !.status = "published"] /\ ~Rewrites(q)
    BY <1>4 DEF Written, Rewrites
  <2> QED BY <1>3, <2>1
<1>5. CASE q.kind = "unpublish"
  <2>1. Written(row, q, targets) = [row EXCEPT !.status = "draft"] /\ ~Rewrites(q)
    BY <1>5 DEF Written, Rewrites
  <2> QED BY <1>3, <2>1
<1>6. CASE q.kind = "delete"
  <2>1. Written(row, q, targets) = [row EXCEPT !.status = "deleted"] /\ ~Rewrites(q)
    BY <1>6 DEF Written, Rewrites
  <2> QED BY <1>3, <2>1
<1> QED BY <1>1, <1>2, <1>4, <1>5, <1>6 DEF RequestKinds, Rewrites

\* The invariant holds after a step that leaves the tree alone when each row and
\* each change that waits is well targeted, as the organizations are before it.
LEMMA WellTargetedAfter ==
  ASSUME AnnouncementsInv, UNCHANGED treeVars, AnnouncementsTypeOK',
         \A a \in AnnouncementIds \ mixed' : WellTargeted(announcements'[a]),
         \A r \in AnnouncementRequests :
           Waits(pendingRequests'[r]) => WellTargeted(pendingRequests'[r].next),
         \A p \in ApiProcesses, a \in AnnouncementIds : uncommitted'[p][a] # {} => a \in mixed'
  PROVE  AnnouncementsInv'
<1>1. TreeInv' /\ Created' = Created /\ \A o \in Organizations : PlaceOf(o)' = PlaceOf(o)
  BY DEF AnnouncementsInv, treeVars, TreeInv, TreeTypeOK, Created, PlaceOf
<1>2. \A row : WellTargeted(row)
               => /\ row.targets \subseteq Created'
                  /\ \A t, u \in row.targets : t # u => ~Forest!Above(PlaceOf(t)', PlaceOf(u)')
                  /\ row.scope = "organization" <=> row.targets # {}
  <2>1. Created \subseteq Created' /\ \A o \in Created : PlaceOf(o)' = PlaceOf(o)
    BY <1>1 DEF Created
  <2> QED BY <2>1, StillApart
<1>3. \A a \in AnnouncementIds \ mixed' : WellTargeted(announcements[a])'
  BY <1>2 DEF WellTargeted, Apart
<1>4. \A r \in AnnouncementRequests :
        Waits(pendingRequests[r])' => WellTargeted(pendingRequests[r].next)'
  BY <1>2 DEF WellTargeted, Apart, Waits, Rewrites
<1> QED BY <1>1, <1>3, <1>4 DEF AnnouncementsInv

LEMMA NotAskedIsRequest ==
  /\ NotAsked \in Request /\ ~Waits(NotAsked) /\ NoAnnouncement \in Announcement
  /\ NotAsked.step = "no" /\ WellTargeted(NoAnnouncement)
<1>1. NoAnnouncement \in Announcement /\ NoAnnouncement.targets = {} /\ NoAnnouncement.scope = "system"
  BY DEF NoAnnouncement, Announcement
<1>2. (CHOOSE p \in ApiProcesses : TRUE) \in ApiProcesses /\ (CHOOSE a \in AnnouncementIds : TRUE) \in AnnouncementIds
  BY AnnouncementsAssumption
<1>3. NotAsked \in Request /\ NotAsked.step = "no"
  BY <1>1, <1>2 DEF NotAsked, Request, RequestKinds
<1> QED BY <1>1, <1>3 DEF WellTargeted, Apart, Waits

\* One request moves on.
LEMMA OneMoves ==
  ASSUME AnnouncementsInv, NEW r \in AnnouncementRequests, NEW x \in Request,
         Waits(x) => WellTargeted(x.next),
         pendingRequests' = [pendingRequests EXCEPT ![r] = x]
  PROVE  /\ pendingRequests' \in [AnnouncementRequests -> Request]
         /\ \A s \in AnnouncementRequests :
              Waits(pendingRequests'[s]) => WellTargeted(pendingRequests'[s].next)
<1>1. /\ pendingRequests \in [AnnouncementRequests -> Request]
      /\ \A s \in AnnouncementRequests :
           Waits(pendingRequests[s]) => WellTargeted(pendingRequests[s].next)
  BY DEF AnnouncementsInv, AnnouncementsTypeOK
<1>2. \A s \in AnnouncementRequests : pendingRequests'[s] = IF s = r THEN x ELSE pendingRequests[s]
  BY <1>1
<1> QED BY <1>1, <1>2

\* Requests move on and nothing is written.
LEMMA OnlyRequestsMove ==
  ASSUME AnnouncementsInv, UNCHANGED <<treeVars, announcements, uncommitted, mixed>>,
         pendingRequests' \in [AnnouncementRequests -> Request],
         \A s \in AnnouncementRequests :
           Waits(pendingRequests'[s]) => WellTargeted(pendingRequests'[s].next)
  PROVE  AnnouncementsInv'
BY WellTargetedAfter DEF AnnouncementsInv, AnnouncementsTypeOK

\* A statement of a crossed request.
LEMMA Executed ==
  ASSUME AnnouncementsInv, NEW q \in Request, NEW row \in Announcement, Executes(q, row)
  PROVE  /\ announcements' \in [AnnouncementIds -> Announcement] /\ mixed' \subseteq AnnouncementIds
         /\ uncommitted' \in [ApiProcesses -> [AnnouncementIds -> SUBSET Announcement]]
         /\ \A a \in AnnouncementIds \ mixed' : WellTargeted(announcements'[a])
         /\ \A p \in ApiProcesses, a \in AnnouncementIds : uncommitted'[p][a] # {} => a \in mixed'
<1>1. /\ AnnouncementsTypeOK /\ q.process \in ApiProcesses /\ q.id \in AnnouncementIds
      /\ mixed' = mixed \cup {q.id} /\ announcements' = [announcements EXCEPT ![q.id] = row]
  BY DEF AnnouncementsInv, Request, Executes
<1> DEFINE old == uncommitted[q.process][q.id]
           kept == IF old = {} THEN {announcements[q.id]} ELSE old
<1>2. kept \subseteq Announcement
  BY <1>1 DEF AnnouncementsTypeOK
<1>3. uncommitted' = [uncommitted EXCEPT ![q.process] = [uncommitted[q.process] EXCEPT ![q.id] = kept]]
  BY <1>1 DEF Executes, AnnouncementsTypeOK
<1> HIDE DEF kept
<1>4. uncommitted' \in [ApiProcesses -> [AnnouncementIds -> SUBSET Announcement]]
  <2>1. [uncommitted[q.process] EXCEPT ![q.id] = kept] \in [AnnouncementIds -> SUBSET Announcement]
    BY <1>1, <1>2 DEF AnnouncementsTypeOK
  <2> QED BY <1>1, <1>3, <2>1 DEF AnnouncementsTypeOK
<1>5. ASSUME NEW p \in ApiProcesses, NEW a \in AnnouncementIds, a # q.id
      PROVE  uncommitted'[p][a] = uncommitted[p][a]
  BY <1>1, <1>3, <1>5 DEF AnnouncementsTypeOK
<1>6. \A p \in ApiProcesses, a \in AnnouncementIds : uncommitted'[p][a] # {} => a \in mixed'
  BY <1>1, <1>5 DEF AnnouncementsInv
<1>7. /\ announcements' \in [AnnouncementIds -> Announcement]
      /\ \A a \in AnnouncementIds \ mixed' : announcements'[a] = announcements[a]
  BY <1>1 DEF AnnouncementsTypeOK
<1>8. \A a \in AnnouncementIds \ mixed' : WellTargeted(announcements'[a])
  BY <1>1, <1>7 DEF AnnouncementsInv
<1> QED BY <1>1, <1>4, <1>6, <1>7, <1>8 DEF AnnouncementsTypeOK

\* A request reads and validates.
LEMMA AskKeepsIt ==
  ASSUME AnnouncementsInv, UNCHANGED treeVars, NEW r \in AnnouncementRequests,
         NEW kind \in RequestKinds, NEW a \in AnnouncementIds, NEW next \in Announcement,
         WellTargeted(next), Ask(r, kind, a, next)
  PROVE  AnnouncementsInv'
<1> DEFINE q == pendingRequests[r]
           x == [q EXCEPT !.step = "read", !.kind = kind, !.id = a, !.next = next]
<1>1. q \in Request
  BY DEF AnnouncementsInv, AnnouncementsTypeOK
<1>2. x \in Request /\ x.next = next
  BY <1>1 DEF Request
<1>3. pendingRequests' = [pendingRequests EXCEPT ![r] = x] /\ UNCHANGED <<announcements, uncommitted, mixed>>
  BY DEF Ask
<1> HIDE DEF x
<1>4. /\ pendingRequests' \in [AnnouncementRequests -> Request]
      /\ \A s \in AnnouncementRequests :
           Waits(pendingRequests'[s]) => WellTargeted(pendingRequests'[s].next)
  BY <1>2, <1>3, OneMoves
<1> QED BY <1>3, <1>4, OnlyRequestsMove

LEMMA RequestReadsKeepIt ==
  ASSUME AnnouncementsInv, UNCHANGED treeVars, NEW r \in AnnouncementRequests, NEW a \in AnnouncementIds,
         \/ ReadForPublish(r, a) \/ ReadForUnpublish(r, a) \/ ReadForDelete(r, a)
         \/ \E scope \in {"system", "organization"}, targets \in SUBSET Organizations :
              ReadForCreate(r, a, scope, targets) \/ ReadForUpdate(r, a, scope, targets)
  PROVE  AnnouncementsInv'
<1>1. ASSUME NEW scope \in {"system", "organization"}, NEW targets \in SUBSET Organizations,
             NEW kind \in {"create", "update"}, ValidTargets(scope, targets),
             Ask(r, kind, a, [status |-> "draft", scope |-> scope, targets |-> targets])
      PROVE  AnnouncementsInv'
  <2> DEFINE next == [status |-> "draft", scope |-> scope, targets |-> targets]
  <2>1. next \in Announcement /\ next.scope = scope /\ next.targets = targets /\ kind \in RequestKinds
    BY DEF Announcement, RequestKinds
  <2>2. Ask(r, kind, a, next)
    BY <1>1
  <2> HIDE DEF next
  <2>3. WellTargeted(next)
    BY <1>1, <2>1, ValidIsApart DEF AnnouncementsInv
  <2> QED BY <2>1, <2>2, <2>3, AskKeepsIt
<1>2. ASSUME ReadForPublish(r, a) \/ ReadForUnpublish(r, a) \/ ReadForDelete(r, a) PROVE AnnouncementsInv'
  <2>1. \E kind \in RequestKinds : Ask(r, kind, a, NoAnnouncement)
    BY <1>2 DEF ReadForPublish, ReadForUnpublish, ReadForDelete, RequestKinds
  <2> QED BY <2>1, NotAskedIsRequest, AskKeepsIt
<1>3. ASSUME NEW scope \in {"system", "organization"}, NEW targets \in SUBSET Organizations,
             ReadForCreate(r, a, scope, targets)
      PROVE  AnnouncementsInv'
  BY <1>1, <1>3 DEF ReadForCreate
<1>4. ASSUME NEW scope \in {"system", "organization"}, NEW targets \in SUBSET Organizations,
             ReadForUpdate(r, a, scope, targets)
      PROVE  AnnouncementsInv'
  <2> DEFINE to == IF scope = "system" THEN {} ELSE targets
  <2>1. /\ to \in SUBSET Organizations /\ ValidTargets(scope, to)
        /\ Ask(r, "update", a, [status |-> "draft", scope |-> scope, targets |-> to])
    BY <1>4 DEF ReadForUpdate
  <2> HIDE DEF to
  <2> QED BY <1>1, <2>1
<1> QED BY <1>2, <1>3, <1>4

\* A request begins, and may cross others.
LEMMA BeginKeepsIt ==
  ASSUME AnnouncementsInv, UNCHANGED treeVars, NEW r \in AnnouncementRequests,
         NEW process \in ApiProcesses, Begin(r, process)
  PROVE  AnnouncementsInv'
<1> DEFINE others == {s \in AnnouncementRequests :
                        pendingRequests[s].step # "no" /\ pendingRequests[s].process = process}
           mine == [NotAsked EXCEPT !.step = "begun", !.process = process, !.crossed = others # {}]
<1>1. UNCHANGED <<announcements, uncommitted, mixed>>
  BY DEF Begin
<1>2. pendingRequests' = [s \in AnnouncementRequests |->
        IF s = r THEN mine ELSE IF s \in others THEN [pendingRequests[s] EXCEPT !.crossed = TRUE]
        ELSE pendingRequests[s]]
  BY DEF Begin
<1>3. mine \in Request /\ mine.step = "begun"
  BY NotAskedIsRequest DEF Request
<1> HIDE DEF mine, others
<1>4. ASSUME NEW s \in AnnouncementRequests
      PROVE  /\ pendingRequests'[s] \in Request
             /\ Waits(pendingRequests'[s]) => WellTargeted(pendingRequests'[s].next)
  <2> DEFINE q == pendingRequests[s]
             x == [q EXCEPT !.crossed = TRUE]
  <2>1. q \in Request /\ (Waits(q) => WellTargeted(q.next))
    BY DEF AnnouncementsInv, AnnouncementsTypeOK
  <2>2. x \in Request /\ x.step = q.step /\ x.kind = q.kind /\ x.next = q.next
    BY <2>1 DEF Request
  <2>3. pendingRequests'[s] \in {mine, x, q} /\ (pendingRequests'[s] = mine \/ s # r)
    BY <1>2
  <2> HIDE DEF x, q
  <2>4. Waits(x) => WellTargeted(x.next)
    BY <2>1, <2>2 DEF Waits, Rewrites
  <2>5. ~Waits(mine)
    BY <1>3 DEF Waits
  <2> QED BY <1>3, <2>1, <2>2, <2>3, <2>4, <2>5
<1>5. pendingRequests' \in [AnnouncementRequests -> Request]
  BY <1>2, <1>4
<1> QED BY <1>1, <1>4, <1>5, OnlyRequestsMove

\* A request that crosses no other writes and is done with.
LEMMA WriteKeepsIt ==
  ASSUME AnnouncementsInv, UNCHANGED treeVars, NEW r \in AnnouncementRequests, Write(r)
  PROVE  AnnouncementsInv'
<1> DEFINE q == pendingRequests[r]
           row == Written(announcements[q.id], q, q.next.targets)
<1>1. AnnouncementsTypeOK /\ q \in Request /\ (Waits(q) => WellTargeted(q.next))
  BY DEF AnnouncementsInv, AnnouncementsTypeOK
<1>2. /\ q.id \in AnnouncementIds /\ q.next.targets \in SUBSET Organizations
      /\ announcements[q.id] \in Announcement
  BY <1>1 DEF Request, Announcement, AnnouncementsTypeOK
<1>3. /\ q.step = "read" /\ announcements' = [announcements EXCEPT ![q.id] = row]
      /\ uncommitted' = [p \in ApiProcesses |-> [uncommitted[p] EXCEPT ![q.id] = {}]]
      /\ mixed' = IF Rewrites(q) THEN mixed \ {q.id} ELSE mixed
      /\ pendingRequests' = [pendingRequests EXCEPT ![r] = NotAsked]
  BY DEF Write, Ended
<1>4. /\ row \in Announcement
      /\ q.id \notin mixed' => WellTargeted(row)
  <2>1. /\ row \in Announcement
        /\ Rewrites(q) /\ WellTargeted(q.next) => WellTargeted(row)
        /\ ~Rewrites(q) /\ WellTargeted(announcements[q.id]) => WellTargeted(row)
    BY <1>1, <1>2, WrittenIsWell
  <2>2. Rewrites(q) => WellTargeted(q.next)
    BY <1>1, <1>3 DEF Waits
  <2>3. ~Rewrites(q) /\ q.id \notin mixed' => WellTargeted(announcements[q.id])
    BY <1>2, <1>3 DEF AnnouncementsInv
  <2> QED BY <2>1, <2>2, <2>3
<1> HIDE DEF row
<1>5. /\ announcements' \in [AnnouncementIds -> Announcement] /\ mixed' \subseteq AnnouncementIds
      /\ \A a \in AnnouncementIds : announcements'[a] = IF a = q.id THEN row ELSE announcements[a]
      /\ \A a \in AnnouncementIds : a \notin mixed' /\ a # q.id => a \notin mixed
  BY <1>1, <1>2, <1>3, <1>4 DEF AnnouncementsTypeOK
<1>6. \A a \in AnnouncementIds \ mixed' : WellTargeted(announcements'[a])
  BY <1>4, <1>5 DEF AnnouncementsInv
<1>7. ASSUME NEW p \in ApiProcesses
      PROVE  /\ uncommitted'[p] \in [AnnouncementIds -> SUBSET Announcement]
             /\ uncommitted'[p][q.id] = {}
             /\ \A a \in AnnouncementIds : a # q.id => uncommitted'[p][a] = uncommitted[p][a]
  BY <1>1, <1>2, <1>3 DEF AnnouncementsTypeOK
<1>8. \A p \in ApiProcesses, a \in AnnouncementIds : uncommitted'[p][a] # {} => a \in mixed'
  BY <1>3, <1>7 DEF AnnouncementsInv
<1>9. uncommitted' \in [ApiProcesses -> [AnnouncementIds -> SUBSET Announcement]]
  BY <1>3, <1>7
<1>10. /\ pendingRequests' \in [AnnouncementRequests -> Request]
       /\ \A s \in AnnouncementRequests :
            Waits(pendingRequests'[s]) => WellTargeted(pendingRequests'[s].next)
  BY <1>3, NotAskedIsRequest, OneMoves
<1>11. AnnouncementsTypeOK'
  BY <1>5, <1>9, <1>10 DEF AnnouncementsTypeOK
<1> QED BY <1>6, <1>8, <1>10, <1>11, WellTargetedAfter

\* The statements of a crossed request leave what they write mixed.
LEMMA StatementsKeepIt ==
  ASSUME AnnouncementsInv, UNCHANGED treeVars, NEW r \in AnnouncementRequests,
         WriteRow(r) \/ DeleteTargets(r) \/ InsertTarget(r)
  PROVE  AnnouncementsInv'
<1> DEFINE q == pendingRequests[r]
           old == announcements[q.id]
<1>1. AnnouncementsTypeOK /\ q \in Request
  BY DEF AnnouncementsInv, AnnouncementsTypeOK
<1>2. q.id \in AnnouncementIds /\ q.next \in Announcement /\ old \in Announcement
  BY <1>1 DEF Request, AnnouncementsTypeOK
<1>3. ASSUME NEW row \in Announcement, Executes(q, row), NEW x \in Request, ~Waits(x),
             pendingRequests' = [pendingRequests EXCEPT ![r] = x]
      PROVE  AnnouncementsInv'
  <2>1. /\ pendingRequests' \in [AnnouncementRequests -> Request]
        /\ \A s \in AnnouncementRequests :
             Waits(pendingRequests'[s]) => WellTargeted(pendingRequests'[s].next)
    BY <1>3, OneMoves
  <2>2. /\ announcements' \in [AnnouncementIds -> Announcement] /\ mixed' \subseteq AnnouncementIds
        /\ uncommitted' \in [ApiProcesses -> [AnnouncementIds -> SUBSET Announcement]]
        /\ \A a \in AnnouncementIds \ mixed' : WellTargeted(announcements'[a])
        /\ \A p \in ApiProcesses, a \in AnnouncementIds : uncommitted'[p][a] # {} => a \in mixed'
    BY <1>1, <1>3, Executed
  <2>3. AnnouncementsTypeOK'
    BY <2>1, <2>2 DEF AnnouncementsTypeOK
  <2> QED BY <2>1, <2>2, <2>3, WellTargetedAfter
<1>4. ASSUME NEW st \in {"row", "targets"}
      PROVE  [q EXCEPT !.step = st] \in Request /\ ~Waits([q EXCEPT !.step = st])
  BY <1>1 DEF Request, Waits
<1>5. CASE WriteRow(r)
  <2> DEFINE row == IF Finds(q) THEN Written(old, q, old.targets) ELSE old
  <2>1. Executes(q, row) /\ pendingRequests' = [pendingRequests EXCEPT ![r] = [q EXCEPT !.step = "row"]]
    BY <1>5, <1>1 DEF WriteRow, AnnouncementsTypeOK
  <2>2. row \in Announcement
    <3>1. old.targets \in SUBSET Organizations
      BY <1>2 DEF Announcement
    <3> QED BY <1>1, <1>2, <3>1, WrittenIsWell
  <2> HIDE DEF row, q
  <2> QED BY <1>3, <1>4, <2>1, <2>2
<1>6. CASE DeleteTargets(r)
  <2> DEFINE row == [old EXCEPT !.targets = {}]
  <2>1. Executes(q, row) /\ pendingRequests' = [pendingRequests EXCEPT ![r] = [q EXCEPT !.step = "targets"]]
    BY <1>6, <1>1 DEF DeleteTargets, AnnouncementsTypeOK
  <2>2. row \in Announcement
    BY <1>2 DEF Announcement
  <2> HIDE DEF row, q
  <2> QED BY <1>3, <1>4, <2>1, <2>2
<1>7. CASE InsertTarget(r)
  <2>1. PICK t \in q.next.targets :
          /\ Executes(q, [old EXCEPT !.targets = @ \cup {t}])
          /\ pendingRequests' = [pendingRequests EXCEPT ![r].next.targets = @ \ {t}]
    BY <1>7 DEF InsertTarget
  <2> DEFINE row == [old EXCEPT !.targets = @ \cup {t}]
             next == [q.next EXCEPT !.targets = @ \ {t}]
             x == [q EXCEPT !.next = next]
  <2>2. row \in Announcement /\ next \in Announcement
    BY <1>2 DEF Announcement
  <2>3. x \in Request /\ x.step = "targets"
    <3> HIDE DEF next
    <3> QED BY <1>1, <1>7, <2>2 DEF Request, InsertTarget
  <2>4. pendingRequests' = [pendingRequests EXCEPT ![r] = x]
    BY <1>1, <2>1 DEF AnnouncementsTypeOK, Request, Announcement
  <2>5. Executes(q, row)
    BY <2>1
  <2> HIDE DEF row, x, q
  <2>6. ~Waits(x)
    BY <2>3 DEF Waits
  <2> QED BY <1>3, <2>2, <2>3, <2>4, <2>5, <2>6
<1> QED BY <1>5, <1>6, <1>7

\* A crossed request ends, or any request fails.
LEMMA EndsKeepIt ==
  ASSUME AnnouncementsInv, UNCHANGED treeVars, NEW r \in AnnouncementRequests,
         EndCrossed(r) \/ Fail(r)
  PROVE  AnnouncementsInv'
<1> DEFINE q == pendingRequests[r]
           before == uncommitted[q.process]
           back == [a \in AnnouncementIds |->
                      IF before[a] = {} THEN announcements[a] ELSE CHOOSE row \in before[a] : TRUE]
<1>1. AnnouncementsTypeOK /\ q.process \in ApiProcesses
  BY DEF AnnouncementsInv, AnnouncementsTypeOK, Request
<1>2. /\ pendingRequests' = [pendingRequests EXCEPT ![r] = NotAsked] /\ mixed' = mixed
      /\ uncommitted' \in {uncommitted, AllCommitted(q.process)}
      /\ announcements' \in {announcements, back}
  BY DEF EndCrossed, Fail, Ended
<1>3. ASSUME NEW a \in AnnouncementIds
      PROVE  back[a] \in Announcement /\ (a \notin mixed => back[a] = announcements[a])
  BY <1>1 DEF AnnouncementsInv, AnnouncementsTypeOK
<1>4. back \in [AnnouncementIds -> Announcement]
  BY <1>3
<1> HIDE DEF back
<1>5. /\ announcements' \in [AnnouncementIds -> Announcement]
      /\ \A a \in AnnouncementIds \ mixed' : WellTargeted(announcements'[a])
  BY <1>1, <1>2, <1>3, <1>4 DEF AnnouncementsInv, AnnouncementsTypeOK
<1>6. /\ uncommitted' \in [ApiProcesses -> [AnnouncementIds -> SUBSET Announcement]]
      /\ \A p \in ApiProcesses, a \in AnnouncementIds : uncommitted'[p][a] # {} => a \in mixed'
  <2>1. Committed \in [AnnouncementIds -> SUBSET Announcement] /\ \A a \in AnnouncementIds : Committed[a] = {}
    BY DEF Committed
  <2>2. /\ AllCommitted(q.process) \in [ApiProcesses -> [AnnouncementIds -> SUBSET Announcement]]
        /\ \A p \in ApiProcesses : AllCommitted(q.process)[p] \in {uncommitted[p], Committed}
    BY <1>1, <2>1 DEF AllCommitted, AnnouncementsTypeOK
  <2> QED BY <1>1, <1>2, <2>1, <2>2 DEF AnnouncementsInv, AnnouncementsTypeOK
<1>7. /\ pendingRequests' \in [AnnouncementRequests -> Request]
      /\ \A s \in AnnouncementRequests :
           Waits(pendingRequests'[s]) => WellTargeted(pendingRequests'[s].next)
  BY <1>2, NotAskedIsRequest, OneMoves
<1>8. AnnouncementsTypeOK'
  BY <1>1, <1>2, <1>5, <1>6, <1>7 DEF AnnouncementsTypeOK
<1> QED BY <1>5, <1>6, <1>7, <1>8, WellTargetedAfter

LEMMA AnnouncementSteps ==
  ASSUME AnnouncementsInv, AnnouncementsStep, UNCHANGED treeVars
  PROVE  AnnouncementsInv'
<1>1. PICK r \in AnnouncementRequests :
        \/ Write(r) \/ WriteRow(r) \/ DeleteTargets(r) \/ InsertTarget(r) \/ EndCrossed(r) \/ Fail(r)
        \/ \E p \in ApiProcesses : Begin(r, p)
        \/ \E a \in AnnouncementIds :
             \/ ReadForPublish(r, a) \/ ReadForUnpublish(r, a) \/ ReadForDelete(r, a)
             \/ \E scope \in {"system", "organization"}, targets \in SUBSET Organizations :
                  ReadForCreate(r, a, scope, targets) \/ ReadForUpdate(r, a, scope, targets)
  BY Zenon DEF AnnouncementsStep
<1> QED BY <1>1, WriteKeepsIt, StatementsKeepIt, EndsKeepIt, BeginKeepsIt, RequestReadsKeepIt

\* The tree may change under an announcement.
LEMMA AnnouncementsUnderTree ==
  ASSUME AnnouncementsInv, [TreeNext]_treeVars, UNCHANGED announcementVars
  PROVE  AnnouncementsInv'
<1>1. /\ TreeInv' /\ Created \subseteq Created' /\ \A o \in Created : PlaceOf(o)' = PlaceOf(o)
      /\ UNCHANGED <<announcements, pendingRequests, uncommitted, mixed>>
  BY TreeSteps DEF AnnouncementsInv, announcementVars
<1>2. \A r : WellTargeted(r)
             => /\ r.targets \subseteq Created'
                /\ \A t, u \in r.targets : t # u => ~Forest!Above(PlaceOf(t)', PlaceOf(u)')
                /\ r.scope = "organization" <=> r.targets # {}
  BY <1>1, StillApart
<1>3. \A r \in AnnouncementRequests :
        Waits(pendingRequests[r])' => WellTargeted(pendingRequests[r].next)'
  BY <1>1, <1>2 DEF AnnouncementsInv, WellTargeted, Apart, Waits, Rewrites
<1>4. \A a \in AnnouncementIds \ mixed' : WellTargeted(announcements[a])'
  BY <1>1, <1>2 DEF AnnouncementsInv, WellTargeted, Apart
<1> QED BY <1>1, <1>3, <1>4 DEF AnnouncementsInv, AnnouncementsTypeOK

\* Drafts, requests and announcements name organizations of which none is above
\* another, wherever they are kept, but for what crossed requests wrote.
THEOREM AnnouncementsInvHolds == AnnouncementsSpec => []AnnouncementsInv
<1>1. TreeInit /\ AnnouncementsInit => AnnouncementsInv
  <2> SUFFICES ASSUME TreeInit, AnnouncementsInit PROVE AnnouncementsInv
    OBVIOUS
  <2>1. /\ announcements = [a \in AnnouncementIds |-> NoAnnouncement] /\ TreeInv
        /\ pendingRequests = [r \in AnnouncementRequests |-> NotAsked]
        /\ uncommitted = [p \in ApiProcesses |-> [a \in AnnouncementIds |-> {}]] /\ mixed = {}
    BY TreeStarts DEF AnnouncementsInit, NothingPending, Committed
  <2>2. AnnouncementsTypeOK
    BY <2>1, NotAskedIsRequest DEF AnnouncementsTypeOK
  <2> QED BY <2>1, <2>2, NotAskedIsRequest DEF AnnouncementsInv
<1>2. AnnouncementsInv /\ [AnnouncementsNext]_<<treeVars, announcementVars>> => AnnouncementsInv'
  <2> SUFFICES ASSUME AnnouncementsInv, [AnnouncementsNext]_<<treeVars, announcementVars>>
               PROVE  AnnouncementsInv'
    OBVIOUS
  <2>1. ASSUME AnnouncementsStep, UNCHANGED treeVars PROVE AnnouncementsInv'
    BY <2>1, AnnouncementSteps
  <2>2. ASSUME [TreeNext]_treeVars, UNCHANGED announcementVars PROVE AnnouncementsInv'
    BY <2>2, AnnouncementsUnderTree
  <2> QED BY <2>1, <2>2 DEF AnnouncementsNext
<1> QED BY <1>1, <1>2, PTL DEF AnnouncementsSpec

\* Of two places above a third, one is above the other or they are one.
LEMMA OneAboveTheOther ==
  ASSUME NEW S, NEW a \in Seq(S), NEW b \in Seq(S), NEW c \in Seq(S),
         a = c \/ Forest!Above(a, c), b = c \/ Forest!Above(b, c)
  PROVE  a = b \/ Forest!Above(a, b) \/ Forest!Above(b, a)
<1>1. Len(a) \in Nat /\ Len(b) \in Nat /\ Len(c) \in Nat
  OBVIOUS
<1>2. \A i \in 1 .. Len(a) : i \in 1 .. Len(c) /\ a[i] = c[i]
  BY <1>1 DEF Forest!Above
<1>3. \A i \in 1 .. Len(b) : i \in 1 .. Len(c) /\ b[i] = c[i]
  BY <1>1 DEF Forest!Above
<1>4. CASE Len(a) = Len(b)
  BY <1>2, <1>3, <1>4, SeqEqual
<1>5. CASE Len(a) < Len(b)
  BY <1>1, <1>2, <1>3, <1>5 DEF Forest!Above
<1>6. CASE Len(b) < Len(a)
  BY <1>1, <1>2, <1>3, <1>6 DEF Forest!Above
<1> QED BY <1>1, <1>4, <1>5, <1>6

\* An organization is reached by one target.
LEMMA CoveredOnce ==
  ASSUME AnnouncementsInv, Forest!ForestIsSound, NEW a \in AnnouncementIds \ mixed, NEW o \in Created,
         NEW t \in announcements[a].targets, NEW u \in announcements[a].targets,
         Covers(t, o), Covers(u, o)
  PROVE  t = u
<1>1. /\ TreeInv /\ t \in Created /\ u \in Created
      /\ t # u => ~Forest!Above(PlaceOf(t), PlaceOf(u)) /\ ~Forest!Above(PlaceOf(u), PlaceOf(t))
  BY DEF AnnouncementsInv, WellTargeted, Apart
<1>2. /\ PlaceOf(t) = PlaceOf(o) \/ Forest!Above(PlaceOf(t), PlaceOf(o))
      /\ PlaceOf(u) = PlaceOf(o) \/ Forest!Above(PlaceOf(u), PlaceOf(o))
  BY <1>1, BelowIsAbove DEF Covers
<1>3. PlaceOf(t) \in Seq(1 .. ChildSegments) /\ PlaceOf(u) \in Seq(1 .. ChildSegments)
      /\ PlaceOf(o) \in Seq(1 .. ChildSegments)
  BY <1>1, PlacesOfRows DEF IsPath
<1>4. t # u => PlaceOf(t) = PlaceOf(u)
  BY <1>1, <1>2, <1>3, OneAboveTheOther
<1>5. PlaceOf(t) = PlaceOf(u) => t = u
  BY <1>1, PlacesOfRows DEF Forest!ForestIsSound, Forest!PlacesAreUnique
<1> QED BY <1>4, <1>5

\* TargetsAreMinimal holds with any organizations, announcements and requests:
\* however requests write one after the other and the tree grows meanwhile, no
\* target is above another one and a user is reached by just one, but for what
\* requests that overlapped in one process wrote and no other has rewritten.
THEOREM TargetsHold == AnnouncementsSpec => []TargetsAreMinimal
<1>1. AnnouncementsSpec => Forest!ForestSpec
  <2>1. AnnouncementsInv /\ [AnnouncementsNext]_<<treeVars, announcementVars>>
          => [Forest!ForestNext]_(Forest!forestVars)
    <3> SUFFICES ASSUME AnnouncementsInv, [AnnouncementsNext]_<<treeVars, announcementVars>>
                 PROVE  [Forest!ForestNext]_(Forest!forestVars)
      OBVIOUS
    <3>1. [TreeNext]_treeVars
      BY DEF AnnouncementsNext
    <3> QED BY <3>1, TreeSteps DEF AnnouncementsInv
  <2> QED BY <2>1, TreeStarts, AnnouncementsInvHolds, PTL DEF AnnouncementsSpec, Forest!ForestSpec
<1>2. Forest!ForestSpec => []Forest!ForestIsSound
  BY Forest!ForestSound
<1>3. AnnouncementsInv /\ Forest!ForestIsSound => TargetsAreMinimal
  <2> SUFFICES ASSUME AnnouncementsInv, Forest!ForestIsSound PROVE TargetsAreMinimal
    OBVIOUS
  <2>1. AnnouncementsTypeOK
    BY DEF AnnouncementsInv
  <2>2. ASSUME NEW a \in AnnouncementIds \ mixed
        PROVE  /\ \A t \in announcements[a].targets, u \in announcements[a].targets :
                    t # u => ~Forest!Above(DecodeOrgPath[orgs[t].path], DecodeOrgPath[orgs[u].path])
               /\ announcements[a].scope = "organization" <=> announcements[a].targets # {}
    BY DEF AnnouncementsInv, WellTargeted, Apart, PlaceOf
  <2>3. ASSUME NEW a \in AnnouncementIds \ mixed, NEW o \in Organizations, Shown(a, o),
               announcements[a].targets # {}
        PROVE  Cardinality({t \in announcements[a].targets : Covers(t, o)}) = 1
    <3>1. o \in Created /\ \E t \in announcements[a].targets : Covers(t, o)
      BY <2>2, <2>3 DEF Shown, LiveOrgs
    <3>2. PICK t \in announcements[a].targets : Covers(t, o)
      BY <3>1
    <3>3. {u \in announcements[a].targets : Covers(u, o)} = {t}
      BY <3>1, <3>2, CoveredOnce
    <3> QED BY <3>3, FS_Singleton
  <2> QED BY <2>1, <2>2, <2>3 DEF TargetsAreMinimal
<1> QED BY <1>1, <1>2, <1>3, AnnouncementsInvHolds, PTL

-----------------------------------------------------------------------------
(* Conforming modules, for every set of contributions and any edits. *)

\* What is declared is one of the contributions there may be.
DeclaredOnes == declared \in [ModuleNames -> SUBSET Contributions]

LEMMA DeclaredKinds ==
  ASSUME DeclaredOnes, NEW m \in ModuleNames, NEW c \in declared[m]
  PROVE  /\ c \in Contributions /\ c.kind \in Kinds /\ c.directions \subseteq Directions
         /\ HasPlace(c) => \E ref \in c.refs : ref = <<"permission", ref[2]>>
BY ConformanceAssumption DEF DeclaredOnes

\* What conforms has in each process what each of its contributions needs there.
LEMMA HasWhatItNeeds ==
  ASSUME DeclaredOnes, Conforms, NEW m \in ModuleNames, NEW c \in declared[m],
         NEW process \in Processes
  PROVE  NeededIn(process, c) \subseteq registered[process][m]
<1>1. Needed(process, m) \subseteq registered[process][m]
  BY DEF Conforms, RegistrationsConform
<1>2. NeededIn(process, c) \subseteq Needed(process, m)
  BY DEF Needed
<1> QED BY <1>1, <1>2

\* In the API: names, operators, schemas and directions.
LEMMA HasInItsApi ==
  ASSUME DeclaredOnes, Conforms, NEW m \in ModuleNames, NEW c \in declared[m]
  PROVE  /\ c.kind \in {"attachment", "csv", "notification"} => HasInApi(m, c.kind, c.id)
         /\ \A o \in c.operators : HasInApi(m, "operator", o)
         /\ RequireSchemas(m, c)
         /\ \A d \in c.directions : HasInApi(m, d, c.id)
<1>1. NeededIn("api", c) \subseteq registered["api"][m]
  BY HasWhatItNeeds DEF Processes
<1> DEFINE own == IF c.kind = "api" THEN {<<"api", c.id, c.place>>}
                  ELSE IF c.kind \in {"attachment", "csv", "notification"}
                  THEN {Named(c.kind, c.id)} ELSE {}
<1>2. NeededIn("api", c) = own \cup {Named("operator", o) : o \in c.operators}
                             \cup SchemasOf(c) \cup DirectionsOf(c)
  BY DEF NeededIn
<1>3. c.kind \in {"attachment", "csv", "notification"} => Named(c.kind, c.id) \in own
  OBVIOUS
<1> HIDE DEF own
<1>4. \A o \in c.operators : Named("operator", o) \in NeededIn("api", c)
  BY <1>2
<1>5. \A x \in c.schemas : Named("schema", x) \in NeededIn("api", c)
  BY <1>2 DEF SchemasOf
<1>6. \A d \in c.directions : Named(d, c.id) \in NeededIn("api", c)
  BY <1>2 DEF DirectionsOf
<1>7. c.kind \in {"attachment", "csv", "notification"} => Named(c.kind, c.id) \in NeededIn("api", c)
  BY <1>2, <1>3
<1> QED BY <1>1, <1>4, <1>5, <1>6, <1>7 DEF HasInApi, RequireSchemas

\* Whatever the API is asked for finds its code.
LEMMA CallsFindCode ==
  ASSUME DeclaredOnes, Conforms, NEW m \in ModuleNames, NEW c \in declared[m]
  PROVE  CallsWork(m, c)
BY HasInItsApi DEF CallsWork, EventWorks, NotificationWorks, JobWorks, ErrorWorks, FileWorks,
                   CsvWorks, OperatorsWork

\* What is handed to the worker finds its handler.
LEMMA WorkFindsCode ==
  ASSUME DeclaredOnes, Conforms, NEW m \in ModuleNames, NEW c \in declared[m]
  PROVE  WorkArrives(m, c)
<1>1. NeededIn("worker", c) \subseteq registered["worker"][m]
  BY HasWhatItNeeds DEF Processes
<1>2. NeededIn("worker", c) = IF c.kind = "job" THEN {Named("job", c.id)} \cup SchemasOf(c)
                              ELSE DirectionsOf(c)
  BY DEF NeededIn
<1>3. c.kind = "job" => Named("job", c.id) \in registered["worker"][m]
  BY <1>1, <1>2
<1>4. c.kind = "csv" => DirectionsOf(c) \subseteq registered["worker"][m]
  BY <1>1, <1>2
<1> QED BY <1>3, <1>4 DEF WorkArrives

LEMMA NamedParts ==
  ASSUME NEW kind, NEW id PROVE Named(kind, id)[1] = kind /\ Named(kind, id)[2] = id
BY DEF Named

\* The worker starts: a job that is registered was declared, with its schemas.
LEMMA WorkerHasItsJobs ==
  ASSUME DeclaredOnes, Conforms, NEW m \in ModuleNames
  PROVE  WorkerStarts(m)
<1> SUFFICES ASSUME NEW h \in registered["worker"][m], h[1] = "job"
             PROVE  \E c \in declared[m] : /\ c.kind = "job" /\ c.id = h[2]
                                           /\ SchemasOf(c) \subseteq registered["worker"][m]
  BY DEF WorkerStarts
<1>1. h \in Tolerated("worker", m)
  BY DEF Conforms, RegistrationsConform, Processes
<1>2. h \notin {Named(d, c.id) : d \in Directions, c \in {x \in declared[m] : x.kind = "csv"}}
  <2> SUFFICES ASSUME NEW d \in Directions, NEW c \in declared[m], h = Named(d, c.id)
               PROVE  FALSE
    OBVIOUS
  <2> QED BY NamedParts DEF Directions
<1>3. h \in Needed("worker", m)
  BY <1>1, <1>2 DEF Tolerated
<1>4. PICK c \in declared[m] : h \in NeededIn("worker", c)
  BY <1>3 DEF Needed
<1>5. NeededIn("worker", c) = IF c.kind = "job" THEN {Named("job", c.id)} \cup SchemasOf(c)
                              ELSE DirectionsOf(c)
  BY DEF NeededIn
<1>6. h \notin DirectionsOf(c)
  <2> SUFFICES ASSUME NEW d \in c.directions, h = Named(d, c.id) PROVE FALSE
    BY DEF DirectionsOf
  <2>1. d \in Directions
    BY DeclaredKinds
  <2> QED BY <2>1, NamedParts DEF Directions
<1>7. c.kind = "job" /\ h \in {Named("job", c.id)} \cup SchemasOf(c)
  BY <1>4, <1>5, <1>6
<1>8. h \notin SchemasOf(c)
  <2> SUFFICES ASSUME NEW s \in c.schemas, h = Named("schema", s) PROVE FALSE
    BY DEF SchemasOf
  <2> QED BY NamedParts
<1>9. h[2] = c.id
  <2>1. h = Named("job", c.id)
    BY <1>7, <1>8
  <2> QED BY <2>1, NamedParts
<1>10. SchemasOf(c) \subseteq registered["worker"][m]
  BY <1>5, <1>7, HasWhatItNeeds DEF Processes
<1> QED BY <1>7, <1>9, <1>10

\* An endpoint and a page are of one module, which has the permission for them.
LEMMA PlacesAreOwned ==
  ASSUME DeclaredOnes, Conforms
  PROVE  RequestsAreOwned
<1> SUFFICES ASSUME NEW place \in mounted
             PROVE  \E m \in ModuleNames :
                      /\ \E c \in declared[m] : HasPlace(c) /\ c.place = place
                      /\ \A n \in ModuleNames : \A c \in declared[n] :
                           HasPlace(c) /\ c.place = place =>
                             n = m /\ \E p \in declared[m] :
                                        p.kind = "permission" /\ <<p.kind, p.id>> \in c.refs
  BY DEF RequestsAreOwned
<1>1. PICK m \in ModuleNames : \E c \in declared[m] : HasPlace(c) /\ c.place = place
  BY DEF Conforms, MountsConform, PlacesDeclared
<1>2. PICK c \in declared[m] : HasPlace(c) /\ c.place = place
  BY <1>1
<1>3. ASSUME NEW n \in ModuleNames, NEW d \in declared[n], HasPlace(d), d.place = place
      PROVE  n = m /\ \E p \in declared[m] : p.kind = "permission" /\ <<p.kind, p.id>> \in d.refs
  <2>1. c.namespace = m /\ d.namespace = n /\ c \in Contributions /\ d \in Contributions
    BY <1>2, <1>3, DeclaredKinds DEF Conforms, NamespacesConform
  <2>2. n = m
    BY <1>2, <1>3, <2>1, ConformanceAssumption
  <2>3. PICK ref \in d.refs : ref = <<"permission", ref[2]>>
    BY <1>3, DeclaredKinds
  <2>4. Resolves(n, ref)
    BY <1>3 DEF Conforms, ReferencesConform
  <2>5. ref[1] = "permission"
    BY <2>3
  <2>6. PICK p \in declared[n] : p.kind = ref[1] /\ p.id = ref[2]
    BY <2>4, <2>5 DEF Resolves
  <2>7. p.kind = "permission" /\ <<p.kind, p.id>> = ref
    BY <2>3, <2>5, <2>6
  <2> QED BY <2>2, <2>3, <2>6, <2>7
<1> QED BY <1>1, <1>3

\* ConformingWorks, whatever contributions there may be and whatever is edited: a
\* release that passes the check never lacks the code for what it declares.
THEOREM ConformingHolds == ConformanceSpec => []ConformingWorks
<1>1. ConformanceInit => DeclaredOnes
  BY DEF ConformanceInit, DeclaredOnes
<1>2. DeclaredOnes /\ [ConformanceNext]_conformanceVars => DeclaredOnes'
  <2> SUFFICES ASSUME DeclaredOnes, [ConformanceNext]_conformanceVars PROVE DeclaredOnes'
    OBVIOUS
  <2>1. ASSUME NEW m \in ModuleNames, NEW c \in Contributions, EditDefinition(m, c)
        PROVE  DeclaredOnes'
    BY <2>1 DEF DeclaredOnes, EditDefinition, Toggled
  <2>2. declared' = declared => DeclaredOnes'
    BY DEF DeclaredOnes
  <2> QED BY <2>1, <2>2 DEF ConformanceNext, EditRegistration, EditRoutes, conformanceVars
<1>3. DeclaredOnes => ConformingWorks
  BY CallsFindCode, WorkFindsCode, WorkerHasItsJobs, PlacesAreOwned DEF ConformingWorks
<1> QED BY <1>1, <1>2, <1>3, PTL DEF ConformanceSpec
=============================================================================
