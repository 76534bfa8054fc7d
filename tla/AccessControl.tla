----------------------------- MODULE AccessControl -----------------------------
(***************************************************************************)
(* Who may do what: roles, the role of a user in an organization, the      *)
(* user's own overrides, and the permission context that is computed from  *)
(* them and cached for 300 seconds.                                        *)
(*                                                                         *)
(* The handlers change the memory of one API process and run alone between *)
(* two awaits.  The cache is in that memory as well, or it is a table or   *)
(* Redis: then a read, a write and a deletion arrive there some time after *)
(* they were sent, in any order.                                           *)
(*                                                                         *)
(* A role's data and field rules are members of a set.  The tree of the    *)
(* organizations is a constant; OrganizationTree has their paths.          *)
(***************************************************************************)
EXTENDS Integers, FiniteSets

CONSTANTS
  Users, Organizations, Roles,
  Codes, BaseCodes,  \* permission codes, those of the base manifest
  Rules,             \* data and field rules
  Subtree,           \* an organization with its descendants
  Callers,           \* requests that need a permission context
  Wanted,            \* the contexts they need: entries do not affect each other
  Admins,            \* requests that change something
  SuperRole,         \* the role created with the code super_admin
  NoRole, NoEntry, NoCreation,
  MaxChanges,        \* changes made
  MaxFailures        \* calls of the cache that fail

ASSUME AccessAssumption ==
  /\ Users # {} /\ BaseCodes \subseteq Codes
  /\ Subtree \in [Organizations -> SUBSET Organizations]
  /\ \A o \in Organizations : o \in Subtree[o]
  /\ Wanted \subseteq Users \X Organizations
  /\ SuperRole \in Roles /\ NoRole \notin Roles
  /\ NoCreation \notin Organizations \X Roles
  /\ MaxChanges \in Nat /\ MaxFailures \in Nat

VARIABLES
  driver,         \* where the cache is
  enabled,        \* codes of the enabled permissions
  roles, superRole,
  organizations,
  users,
  bindings,       \* userOrganizationRoles: one per user and organization
  overrides,      \* userPermissionOverrides, the effect of each code
  creating,       \* users whose password is being hashed
  cache,
  calls,          \* of getPermissionContext
  clearing,       \* deletions a change has sent to the cache
  suspect,        \* ghost: entries written late, or whose deletion failed
  budget

directory == <<enabled, roles, superRole, organizations, users, bindings, overrides>>
vars == <<driver, directory, creating, cache, calls, clearing, suspect, budget>>

-----------------------------------------------------------------------------
Keys == Users \X Organizations
Effects == {"none", "allow", "deny"}

Role == [status : {"none", "enabled", "disabled", "deleted"},
         codes : SUBSET Codes, rules : SUBSET Rules]
User == [status : {"none", "live", "deleted"}, primary : Organizations]
Binding == [role : Roles \cup {NoRole}, live : BOOLEAN, primary : BOOLEAN]
PermissionContext == [super : BOOLEAN, codes : SUBSET Codes, rules : SUBSET Rules,
                      overrides : [Codes -> Effects]]
Call == [step : {"idle", "missed", "storing"}, key : Keys,
         context : PermissionContext \cup {NoEntry}]

TypeOK ==
  /\ driver \in {"memory", "remote"}
  /\ enabled \in SUBSET Codes
  /\ roles \in [Roles -> Role]
  /\ superRole \in Roles \cup {NoRole}
  /\ organizations \in [Organizations -> {"none", "enabled", "disabled", "deleted"}]
  /\ users \in [Users -> User]
  /\ bindings \in [Keys -> Binding]
  /\ overrides \in [Users -> [Codes -> Effects]]
  /\ creating \in [Users -> (Organizations \X Roles) \cup {NoCreation}]
  /\ cache \in [Keys -> PermissionContext \cup {NoEntry}]
  /\ calls \in [Callers -> Call]
  /\ clearing \in [Admins -> SUBSET Keys]
  /\ suspect \in SUBSET Keys
  /\ budget \in [changes : 0 .. MaxChanges, failures : 0 .. MaxFailures]

Unbound == [role |-> NoRole, live |-> FALSE, primary |-> FALSE]
NewRole == [status |-> "enabled", codes |-> {}, rules |-> {}]
Live(u) == users[u].status = "live"
LiveOrganizations == {o \in Organizations : organizations[o] \in {"enabled", "disabled"}}

\* The system has been initialized and has an administrator, organizations, and
\* the permissions of the base and of the modules that are installed.
StartsWith(root, made, admin) ==
  /\ driver \in {"memory", "remote"}
  /\ \E codes \in SUBSET Codes : enabled = BaseCodes \cup codes
  /\ roles = [r \in Roles |->
               IF r = SuperRole THEN [NewRole EXCEPT !.codes = BaseCodes]
                                ELSE [NewRole EXCEPT !.status = "none"]]
  /\ superRole = SuperRole
  /\ root \in made /\ \A o \in Organizations : root \in Subtree[o] => o = root
  /\ \A o \in made : \A p \in Organizations : o \in Subtree[p] => p \in made
  /\ organizations = [o \in Organizations |-> IF o \in made THEN "enabled" ELSE "none"]
  /\ users = [u \in Users |-> [status |-> IF u = admin THEN "live" ELSE "none",
                               primary |-> root]]
  /\ bindings = [k \in Keys |-> IF k = <<admin, root>>
                                  THEN [role |-> SuperRole, live |-> TRUE, primary |-> TRUE]
                                  ELSE Unbound]
  /\ overrides = [u \in Users |-> [c \in Codes |-> "none"]]
  /\ creating = [u \in Users |-> NoCreation]
  /\ cache = [k \in Keys |-> NoEntry]
  /\ calls = [c \in Callers |-> [step |-> "idle", key |-> <<admin, root>>,
                                 context |-> NoEntry]]
  /\ clearing = [a \in Admins |-> {}]
  /\ suspect = {}
  /\ budget = [changes |-> 0, failures |-> 0]

Init ==
  \E root \in Organizations, made \in SUBSET Organizations :
    StartsWith(root, made, CHOOSE u \in Users : TRUE)

-----------------------------------------------------------------------------
(* The permission context.                                                 *)

HasActiveSuperAdminBinding(u) ==
  \E o \in Organizations :
     LET b == bindings[<<u, o>>] IN
     b.live /\ b.role = superRole /\ superRole # NoRole /\ roles[b.role].status = "enabled"

RoleCodes(b) ==
  IF b.live /\ b.role # NoRole /\ roles[b.role].status = "enabled"
    THEN roles[b.role].codes \cap enabled ELSE {}

\* The rules are listed whatever the status of the role.
RoleRules(b) == IF b.live /\ b.role # NoRole THEN roles[b.role].rules ELSE {}

Overridden(codes, effects) ==
  {c \in codes \cup enabled :
     \/ c \in codes /\ ~(c \in enabled /\ effects[c] = "deny")
     \/ c \in enabled /\ effects[c] = "allow"}

Computed(u, o) ==
  LET super == HasActiveSuperAdminBinding(u) IN
  [super |-> super,
   codes |-> Overridden(IF super THEN enabled ELSE RoleCodes(bindings[<<u, o>>]), overrides[u]),
   rules |-> RoleRules(bindings[<<u, o>>]),
   overrides |-> overrides[u]]

Current(k) == cache[k] = NoEntry \/ cache[k] = Computed(k[1], k[2])

-----------------------------------------------------------------------------
(* getPermissionContext, for whatever organization a request names.        *)

Proceeds(c, step, k, context) ==
  calls' = [calls EXCEPT ![c] = [step |-> step, key |-> k, context |-> context]]

\* The cache is read; a hit is the answer.
LookUp(c, k) ==
  /\ calls[c].step = "idle" /\ Live(k[1])
  /\ cache[k] = NoEntry
  /\ Proceeds(c, "missed", k, NoEntry)
  /\ UNCHANGED <<driver, directory, creating, cache, clearing, suspect, budget>>

Written(k, context) ==
  /\ cache' = [cache EXCEPT ![k] = context]
  /\ suspect' = IF context = Computed(k[1], k[2]) THEN suspect \ {k} ELSE suspect \cup {k}

\* The miss has been answered: the context is computed and sent to the cache,
\* which is at once if the cache is in memory.
Derive(c) ==
  LET k == calls[c].key
      context == Computed(k[1], k[2]) IN
  /\ calls[c].step = "missed"
  /\ IF driver = "memory"
       THEN Written(k, context) /\ Proceeds(c, "idle", k, NoEntry)
       ELSE Proceeds(c, "storing", k, context) /\ UNCHANGED <<cache, suspect>>
  /\ UNCHANGED <<driver, directory, creating, clearing, budget>>

StoreEntry(c) ==
  /\ calls[c].step = "storing"
  /\ Written(calls[c].key, calls[c].context)
  /\ Proceeds(c, "idle", calls[c].key, NoEntry)
  /\ UNCHANGED <<driver, directory, creating, clearing, budget>>

Fails ==
  /\ driver = "remote" /\ budget.failures < MaxFailures
  /\ budget' = [budget EXCEPT !.failures = @ + 1]

CallFails(c) ==
  /\ calls[c].step # "idle" /\ Fails
  /\ Proceeds(c, "idle", calls[c].key, NoEntry)
  /\ UNCHANGED <<driver, directory, creating, cache, clearing, suspect>>

Gone(k) == /\ cache' = [cache EXCEPT ![k] = NoEntry]
           /\ suspect' = suspect \ {k}

\* Mutant: an entry is stored without a time to live.
ExpiresNever(k) == cache[k] # NoEntry /\ FALSE /\ UNCHANGED vars

\* The time to live runs out.
Expire(k) ==
  /\ cache[k] # NoEntry
  /\ Gone(k)
  /\ UNCHANGED <<driver, directory, creating, calls, clearing, budget>>

-----------------------------------------------------------------------------
(* Invalidation: the keys are collected from what the memory holds after   *)
(* the change, and their deletions are sent together.                      *)

OrganizationsOf(u) ==
  {o \in Organizations : bindings'[<<u, o>>].role # NoRole}
    \cup {o \in Organizations : organizations'[o] \in {"enabled", "disabled"}}

InvalidateUser(u) == {u} \X OrganizationsOf(u)

\* Mutant: bindings that were deleted with the role do not count.
InvalidateRoleLive(r) ==
  UNION {InvalidateUser(u) : u \in {v \in Users : \E o \in Organizations :
                                     bindings'[<<v, o>>].role = r /\ bindings'[<<v, o>>].live}}

\* Bindings that were deleted with the role count.
InvalidateRole(r) ==
  UNION {InvalidateUser(u) : u \in {v \in Users : \E o \in Organizations : bindings'[<<v, o>>].role = r}}

InvalidateAll ==
  LET bound == {k \in Keys : bindings'[k].live} IN
  ({u \in Users : users'[u].status = "live"} \cup {k[1] : k \in bound})
    \X ({o \in Organizations : organizations'[o] \in {"enabled", "disabled"}}
          \cup {k[2] : k \in bound})

\* A change starts, and what it deletes from the cache.
Changes(a) ==
  /\ clearing[a] = {} /\ budget.changes < MaxChanges
  /\ budget' = [budget EXCEPT !.changes = @ + 1]

Clears(a, keys) ==
  /\ IF driver = "memory"
       THEN /\ cache' = [k \in Keys |-> IF k \in keys THEN NoEntry ELSE cache[k]]
            /\ suspect' = suspect \ keys
            /\ UNCHANGED clearing
       ELSE clearing' = [clearing EXCEPT ![a] = keys] /\ UNCHANGED <<cache, suspect>>
  /\ UNCHANGED <<driver, calls>>

InvalidationLands(a, k) ==
  /\ k \in clearing[a]
  /\ Gone(k)
  /\ clearing' = [clearing EXCEPT ![a] = @ \ {k}]
  /\ UNCHANGED <<driver, directory, creating, calls, budget>>

\* The request is answered with an error; its other deletions go on.
InvalidationFails(a, k) ==
  /\ k \in clearing[a] /\ Fails
  /\ clearing' = [clearing EXCEPT ![a] = @ \ {k}]
  /\ suspect' = IF cache[k] = NoEntry THEN suspect ELSE suspect \cup {k}
  /\ UNCHANGED <<driver, directory, creating, cache, calls>>

-----------------------------------------------------------------------------
(* Users and their roles.                                                  *)

\* Mutant: the flag of the former primary organization stays.
MarkedOnly(u, o, from) ==
  [k \in Keys |-> IF k[1] = u /\ k[2] = o /\ from[k].live
                    THEN [from[k] EXCEPT !.primary = TRUE] ELSE from[k]]

\* The flags of the user's bindings after markPrimaryOrganization.
MarkedPrimary(u, o, from) ==
  [k \in Keys |-> IF k[1] = u /\ from[k].live
                    THEN [from[k] EXCEPT !.primary = (k[2] = o)] ELSE from[k]]

Bound(u, o, r, primary) ==
  LET made == [bindings EXCEPT ![<<u, o>>] = [role |-> r, live |-> TRUE, primary |-> primary]] IN
  IF primary THEN MarkedPrimary(u, o, made) ELSE made

\* Deleted bindings keep their role.
Unbind(keys) ==
  [k \in Keys |-> IF k \in keys THEN [role |-> bindings[k].role, live |-> FALSE, primary |-> FALSE]
                                ELSE bindings[k]]

\* createRecord: the checks, and after the hash the user and the binding.
\* Nothing is deleted from the cache.
CreateBegin(u, o, r) ==
  /\ users[u].status = "none" /\ creating[u] = NoCreation
  /\ organizations[o] = "enabled" /\ roles[r].status = "enabled"
  /\ creating' = [creating EXCEPT ![u] = <<o, r>>]
  /\ UNCHANGED <<driver, directory, cache, calls, clearing, suspect, budget>>

CreateEnd(u) ==
  /\ creating[u] # NoCreation
  /\ users' = [users EXCEPT ![u] = [status |-> "live", primary |-> creating[u][1]]]
  /\ bindings' = Bound(u, creating[u][1], creating[u][2], TRUE)
  /\ creating' = [creating EXCEPT ![u] = NoCreation]
  /\ UNCHANGED <<driver, enabled, roles, superRole, organizations, overrides,
                 cache, calls, clearing, suspect, budget>>

AssignRole(a, u, o, r) ==
  /\ Changes(a) /\ Live(u)
  /\ organizations[o] = "enabled" /\ roles[r].status = "enabled"
  /\ bindings' = Bound(u, o, r, users[u].primary = o)
  /\ UNCHANGED <<enabled, roles, superRole, organizations, users, overrides, creating>>
  /\ Clears(a, InvalidateUser(u))

RemoveRole(a, u, o) ==
  /\ Changes(a) /\ Live(u)
  /\ bindings[<<u, o>>].live => users[u].primary # o /\ ~bindings[<<u, o>>].primary
  /\ bindings' = IF bindings[<<u, o>>].live THEN Unbind({<<u, o>>}) ELSE bindings
  /\ UNCHANGED <<enabled, roles, superRole, organizations, users, overrides, creating>>
  /\ Clears(a, InvalidateUser(u))

\* The user's primary organization.
UpdateUser(a, u, o) ==
  /\ Changes(a) /\ Live(u)
  /\ organizations[o] = "enabled" /\ bindings[<<u, o>>].live
  /\ roles[bindings[<<u, o>>].role].status = "enabled"
  /\ users' = [users EXCEPT ![u].primary = o]
  /\ bindings' = MarkedPrimary(u, o, bindings)
  /\ UNCHANGED <<enabled, roles, superRole, organizations, overrides, creating>>
  /\ Clears(a, InvalidateUser(u))

\* Status, password, profile: nothing the context is computed from.
TouchUser(a, u) ==
  /\ Changes(a) /\ Live(u)
  /\ UNCHANGED <<directory, creating>>
  /\ Clears(a, InvalidateUser(u))

DeleteUser(a, u) ==
  /\ Changes(a) /\ Live(u)
  /\ users' = [users EXCEPT ![u].status = "deleted"]
  /\ bindings' = Unbind({k \in Keys : k[1] = u /\ bindings[k].live})
  /\ UNCHANGED <<enabled, roles, superRole, organizations, overrides, creating>>
  /\ Clears(a, InvalidateUser(u))

UpdateOverrides(a, u, effects) ==
  /\ Changes(a) /\ Live(u)
  /\ \A c \in Codes : effects[c] # "none" => c \in enabled
  /\ overrides' = [overrides EXCEPT ![u] = effects]
  /\ UNCHANGED <<enabled, roles, superRole, organizations, users, bindings, creating>>
  /\ Clears(a, InvalidateUser(u))

-----------------------------------------------------------------------------
(* Roles.                                                                  *)

Exists(r) == roles[r].status \in {"enabled", "disabled"}

NewRoleWith(r, codes) ==
  /\ roles[r].status = "none"
  /\ roles' = [roles EXCEPT ![r] = [NewRole EXCEPT !.codes = codes]]
  /\ UNCHANGED <<driver, enabled, organizations, users, bindings, overrides,
                 creating, cache, calls, clearing, suspect, budget>>

\* Nothing is deleted from the cache.
CreateRole(r) ==
  /\ NewRoleWith(r, {})
  /\ superRole' \in {superRole, r} /\ (superRole' = r => superRole = NoRole)

\* The copy has the enabled codes, not the rules, and a code of its own.
CopyRole(r, source) ==
  /\ Exists(source) /\ NewRoleWith(r, roles[source].codes \cap enabled)
  /\ UNCHANGED superRole

ChangeRole(a, r, role) ==
  /\ Changes(a) /\ Exists(r)
  /\ roles' = [roles EXCEPT ![r] = role]
  /\ bindings' = IF role.status = "deleted"
                   THEN Unbind({k \in Keys : bindings[k].role = r /\ bindings[k].live})
                   ELSE bindings
  /\ UNCHANGED <<enabled, superRole, organizations, users, overrides, creating>>
  /\ Clears(a, InvalidateRole(r))

SetRoleStatus(a, r, status) == ChangeRole(a, r, [roles[r] EXCEPT !.status = status])
UpdateRolePermissions(a, r, codes) ==
  codes \subseteq enabled /\ ChangeRole(a, r, [roles[r] EXCEPT !.codes = codes])
UpdateRoleRules(a, r, rules) == ChangeRole(a, r, [roles[r] EXCEPT !.rules = rules])
DeleteRole(a, r) ==
  ChangeRole(a, r, [status |-> "deleted", codes |-> {}, rules |-> roles[r].rules])

\* update can give a role the code super_admin, if no role has it, or another
\* code.
UpdateRoleCode(a, r, super) ==
  /\ Changes(a) /\ Exists(r)
  /\ super => superRole \in {r, NoRole}
  /\ superRole' = IF super THEN r ELSE IF superRole = r THEN NoRole ELSE superRole
  /\ UNCHANGED <<enabled, roles, organizations, users, bindings, overrides, creating>>
  /\ Clears(a, InvalidateRole(r))

-----------------------------------------------------------------------------
(* Organizations and permissions: every context is deleted.                *)

Above(o) == {p \in Organizations \ {o} : o \in Subtree[p]}

ChangeOrganizations(a, changed) ==
  /\ Changes(a)
  /\ organizations' = changed
  /\ bindings' = Unbind({k \in Keys : changed[k[2]] = "deleted" /\ bindings[k].live
                                       /\ organizations[k[2]] # "deleted"})
  /\ UNCHANGED <<enabled, roles, superRole, users, overrides, creating>>
  /\ Clears(a, InvalidateAll)

CreateOrganization(a, o) ==
  /\ organizations[o] = "none" /\ \A p \in Above(o) : organizations[p] = "enabled"
  /\ ChangeOrganizations(a, [organizations EXCEPT ![o] = "enabled"])

Under(o, status) ==
  [p \in Organizations |-> IF p \in Subtree[o] \cap LiveOrganizations THEN status
                                                                     ELSE organizations[p]]

DisableOrganization(a, o) ==
  o \in LiveOrganizations /\ ChangeOrganizations(a, Under(o, "disabled"))
EnableOrganization(a, o) ==
  /\ o \in LiveOrganizations /\ \A p \in Above(o) : organizations[p] # "disabled"
  /\ ChangeOrganizations(a, [organizations EXCEPT ![o] = "enabled"])
DeleteOrganization(a, o) ==
  o \in LiveOrganizations /\ ChangeOrganizations(a, Under(o, "deleted"))

\* The name of an organization, menus, routes.
UpdateMetadata(a) == ChangeOrganizations(a, organizations)

\* Permissions of business modules come and go, those of the base manifest
\* stay; roles lose the codes that are not enabled.
SyncPermissions(a, codes) ==
  /\ Changes(a)
  /\ enabled' = BaseCodes \cup codes
  /\ roles' = [r \in Roles |-> [roles[r] EXCEPT !.codes = @ \cap enabled']]
  /\ UNCHANGED <<superRole, organizations, users, bindings, overrides, creating>>
  /\ Clears(a, InvalidateAll)

-----------------------------------------------------------------------------
Serve(c) == Derive(c) \/ StoreEntry(c)
Land(a) == \E k \in Keys : InvalidationLands(a, k)

ChangeOfUser(a) ==
  \E u \in Users :
    \/ \E o \in Organizations, r \in Roles : AssignRole(a, u, o, r)
    \/ \E o \in Organizations : RemoveRole(a, u, o) \/ UpdateUser(a, u, o)
    \/ TouchUser(a, u) \/ DeleteUser(a, u)
    \/ \E effects \in [Codes -> Effects] : UpdateOverrides(a, u, effects)

ChangeOfRole(a) ==
  \E r \in Roles :
    \/ \E status \in {"enabled", "disabled"} : SetRoleStatus(a, r, status)
    \/ \E codes \in SUBSET Codes : UpdateRolePermissions(a, r, codes)
    \/ \E rules \in SUBSET Rules : UpdateRoleRules(a, r, rules)
    \/ DeleteRole(a, r)
    \/ \E super \in BOOLEAN : UpdateRoleCode(a, r, super)

ChangeOfAll(a) ==
  \/ \E o \in Organizations :
       \/ CreateOrganization(a, o) \/ DisableOrganization(a, o)
       \/ EnableOrganization(a, o) \/ DeleteOrganization(a, o)
  \/ UpdateMetadata(a)
  \/ \E codes \in SUBSET Codes : SyncPermissions(a, codes)

Next ==
  \/ \E c \in Callers : (\E k \in Wanted : LookUp(c, k)) \/ Serve(c) \/ CallFails(c)
  \/ \E k \in Keys : Expire(k)
  \/ \E a \in Admins : \/ Land(a) \/ \E k \in Keys : InvalidationFails(a, k)
                       \/ ChangeOfUser(a) \/ ChangeOfRole(a) \/ ChangeOfAll(a)
  \/ \E u \in Users : \/ \E o \in Organizations, r \in Roles : CreateBegin(u, o, r)
                      \/ CreateEnd(u)
  \/ \E r \in Roles : CreateRole(r) \/ \E source \in Roles : CopyRole(r, source)

Spec == Init /\ [][Next]_vars

\* Awaited calls come back, and the time to live passes.
Fairness == /\ \A c \in Callers : WF_vars(Serve(c))
            /\ \A a \in Admins : WF_vars(Land(a))
            /\ \A k \in Keys : WF_vars(Expire(k))
FairSpec == Spec /\ Fairness

-----------------------------------------------------------------------------
(* Properties.                                                              *)

\* Contexts of users and organizations that are not deleted.
LiveKeys == {k \in Keys : Live(k[1]) /\ k[2] \in LiveOrganizations}

\* Every change deletes all that it makes wrong: a cached context that differs
\* from what would be computed now is still to be deleted by a change under
\* way, or was written by a request that change has overtaken, or its deletion
\* failed.
StaleIsExplained ==
  \A k \in LiveKeys : Current(k) \/ k \in suspect \/ \E a \in Admins : k \in clearing[a]

\* With the cache in memory no request ever gets a context that is not what
\* the memory says.
MemoryIsCurrent == driver = "memory" => \A k \in LiveKeys : Current(k)

\* The two records of a user's primary organization agree, through
\* assignments, removals, deletions and changes of the primary organization.
PrimaryAgreesAt(k) ==
  /\ bindings[k].primary => bindings[k].live
  /\ bindings[k].live => Live(k[1]) /\ (bindings[k].primary <=> k[2] = users[k[1]].primary)

PrimaryAgrees == \A k \in Keys : PrimaryAgreesAt(k)

\* Contexts are computed from records that agree, and a wrong one is never
\* cached for nothing.
ContextsAreSound == StaleIsExplained /\ MemoryIsCurrent /\ PrimaryAgrees

\* Once nothing is changed any more, every context that is cached becomes and
\* stays right.
EventuallyCurrent == <>[](\A k \in LiveKeys : Current(k))
=============================================================================
