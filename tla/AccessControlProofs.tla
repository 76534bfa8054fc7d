-------------------------- MODULE AccessControlProofs --------------------------
(***************************************************************************)
(* Theorems about AccessControl, RequestHandling, DataPermissions,         *)
(* FieldPermissions, WebPages and AssignmentPanel: the records of primary  *)
(* organizations agree, and every change deletes from the cache all that   *)
(* it makes wrong; a request passes what the tables say and leaves what it *)
(* must; rules give the records and fields they say; pages show what their *)
(* user may do.                                                            *)
(***************************************************************************)
EXTENDS AccessControl, RequestHandling, FieldPermissions, WebPages, SequenceTheorems,
        FiniteSetTheorems, WellFoundedInduction, TLAPS

\* A user that has not been created yet is known nowhere.
Unborn ==
  /\ \A u \in Users : users[u].status = "none" => \A o \in Organizations : cache[<<u, o>>] = NoEntry
  /\ \A c \in Callers : calls[c].step # "idle" => users[calls[c].key[1]].status # "none"
  /\ \A u \in Users : creating[u] # NoCreation => users[u].status = "none"

\* With the cache in memory nothing is under way to it.
NothingUnderWay ==
  driver = "memory" =>
    /\ suspect = {} /\ \A a \in Admins : clearing[a] = {}
    /\ \A c \in Callers : calls[c].step # "storing"

\* Whatever has a role has one that was created.
RolesExist ==
  /\ \A k \in Keys : bindings[k].role # NoRole => roles[bindings[k].role].status # "none"
  /\ \A u \in Users : creating[u] # NoCreation => roles[creating[u][2]].status # "none"

AccessInv ==
  TypeOK /\ PrimaryAgrees /\ Unborn /\ RolesExist /\ NothingUnderWay /\ StaleIsExplained

DirectoryTyped ==
  /\ enabled \in SUBSET Codes
  /\ roles \in [Roles -> Role]
  /\ superRole \in Roles \cup {NoRole}
  /\ organizations \in [Organizations -> {"none", "enabled", "disabled", "deleted"}]
  /\ users \in [Users -> User]
  /\ bindings \in [Keys -> Binding]
  /\ overrides \in [Users -> [Codes -> Effects]]

-----------------------------------------------------------------------------
(* What the operators on bindings do to a record.                          *)

LEMMA MarkedPrimaryFacts ==
  ASSUME NEW u \in Users, NEW o \in Organizations, NEW from \in [Keys -> Binding]
  PROVE  /\ MarkedPrimary(u, o, from) \in [Keys -> Binding]
         /\ \A k \in Keys :
              /\ MarkedPrimary(u, o, from)[k].role = from[k].role
              /\ MarkedPrimary(u, o, from)[k].live = from[k].live
              /\ MarkedPrimary(u, o, from)[k].primary
                    = IF k[1] = u /\ from[k].live THEN k[2] = o ELSE from[k].primary
<1>1. ASSUME NEW k \in Keys
      PROVE  /\ MarkedPrimary(u, o, from)[k] \in Binding
             /\ MarkedPrimary(u, o, from)[k].role = from[k].role
             /\ MarkedPrimary(u, o, from)[k].live = from[k].live
             /\ MarkedPrimary(u, o, from)[k].primary
                   = IF k[1] = u /\ from[k].live THEN k[2] = o ELSE from[k].primary
  <2> DEFINE flag == k[2] = o
  <2>1. flag \in BOOLEAN
    OBVIOUS
  <2> HIDE DEF flag
  <2>2. MarkedPrimary(u, o, from)[k] = IF k[1] = u /\ from[k].live
                                         THEN [from[k] EXCEPT !.primary = flag] ELSE from[k]
    BY <1>1 DEF MarkedPrimary, flag
  <2>3. from[k] \in Binding
    BY <1>1
  <2>4. CASE k[1] = u /\ from[k].live
    <3>1. /\ MarkedPrimary(u, o, from)[k] \in Binding
          /\ MarkedPrimary(u, o, from)[k].role = from[k].role
          /\ MarkedPrimary(u, o, from)[k].live = from[k].live
          /\ MarkedPrimary(u, o, from)[k].primary = flag
      BY <2>1, <2>2, <2>3, <2>4 DEF Binding
    <3> QED
      BY <2>4, <3>1 DEF flag
  <2>5. CASE ~(k[1] = u /\ from[k].live)
    BY <2>2, <2>3, <2>5
  <2> QED
    BY <2>4, <2>5
<1>2. DOMAIN MarkedPrimary(u, o, from) = Keys
  BY DEF MarkedPrimary
<1>3. MarkedPrimary(u, o, from) = [k \in Keys |-> MarkedPrimary(u, o, from)[k]]
  BY DEF MarkedPrimary
<1> QED
  BY <1>1, <1>3

\* The user's binding to the organization is made, its other ones only lose
\* their flag.
BindsOnly(made, u, o, r, primary) ==
  /\ made \in [Keys -> Binding]
  /\ made[<<u, o>>].role = r
  /\ made[<<u, o>>].live = TRUE
  /\ made[<<u, o>>].primary = primary
  /\ \A k \in Keys : k[1] # u => made[k] = bindings[k]
  /\ \A k \in Keys :
       /\ k[1] = u /\ k[2] # o =>
            /\ made[k].role = bindings[k].role
            /\ made[k].live = bindings[k].live
            /\ made[k].primary = IF primary /\ bindings[k].live THEN FALSE ELSE bindings[k].primary

LEMMA BoundFacts ==
  ASSUME bindings \in [Keys -> Binding],
         NEW u \in Users, NEW o \in Organizations, NEW r \in Roles, NEW primary \in BOOLEAN
  PROVE  BindsOnly(Bound(u, o, r, primary), u, o, r, primary)
<1> DEFINE given == [role |-> r, live |-> TRUE, primary |-> primary]
           made == [bindings EXCEPT ![<<u, o>>] = given]
<1>1. given \in Binding /\ given.live = TRUE /\ given.primary = primary /\ given.role = r
  BY DEF Binding
<1>2. made \in [Keys -> Binding] /\ <<u, o>> \in Keys
  BY <1>1 DEF Keys
<1>3. made[<<u, o>>] = given /\ \A k \in Keys : k # <<u, o>> => made[k] = bindings[k]
  BY DEF Keys
<1>4. \A k \in Keys : k = <<u, o>> <=> k[1] = u /\ k[2] = o
  BY DEF Keys
<1>5. CASE primary
  <2>1. Bound(u, o, r, primary) = MarkedPrimary(u, o, made)
    BY <1>5 DEF Bound
  <2> HIDE DEF given, made
  <2>2. /\ MarkedPrimary(u, o, made) \in [Keys -> Binding]
        /\ \A k \in Keys :
             /\ MarkedPrimary(u, o, made)[k].role = made[k].role
             /\ MarkedPrimary(u, o, made)[k].live = made[k].live
             /\ MarkedPrimary(u, o, made)[k].primary
                   = IF k[1] = u /\ made[k].live THEN k[2] = o ELSE made[k].primary
    BY <1>2, MarkedPrimaryFacts
  <2>3. \A k \in Keys : k[1] # u => MarkedPrimary(u, o, made)[k] = made[k]
    BY DEF MarkedPrimary
  <2>4. /\ MarkedPrimary(u, o, made)[<<u, o>>].role = r
        /\ MarkedPrimary(u, o, made)[<<u, o>>].live = TRUE
        /\ MarkedPrimary(u, o, made)[<<u, o>>].primary = primary
    BY <1>1, <1>2, <1>3, <1>4, <1>5, <2>2
  <2>5. \A k \in Keys : k[1] # u => made[k] = bindings[k]
    BY <1>3, <1>4
  <2>6. ASSUME NEW k \in Keys, k[1] = u, k[2] # o
        PROVE  /\ MarkedPrimary(u, o, made)[k].role = bindings[k].role
               /\ MarkedPrimary(u, o, made)[k].live = bindings[k].live
               /\ MarkedPrimary(u, o, made)[k].primary
                    = IF primary /\ bindings[k].live THEN FALSE ELSE bindings[k].primary
    <3>1. made[k] = bindings[k]
      BY <1>3, <1>4, <2>6
    <3>2. (k[2] = o) = FALSE
      BY <2>6
    <3> QED
      BY <1>5, <2>2, <2>6, <3>1, <3>2
  <2>7. \A k \in Keys : k[1] # u => MarkedPrimary(u, o, made)[k] = bindings[k]
    BY <2>3, <2>5
  <2> DEFINE m == MarkedPrimary(u, o, made)
  <2>8. m \in [Keys -> Binding]
    BY <2>2
  <2>9. \A k \in Keys :
          k[1] = u /\ k[2] # o =>
            /\ m[k].role = bindings[k].role
            /\ m[k].live = bindings[k].live
            /\ m[k].primary = IF primary /\ bindings[k].live THEN FALSE ELSE bindings[k].primary
    BY <2>6, Zenon
  <2>10. Bound(u, o, r, primary) = m
    BY <2>1
  <2> HIDE DEF m
  <2>11. /\ m[<<u, o>>].role = r
         /\ m[<<u, o>>].live = TRUE
         /\ m[<<u, o>>].primary = primary
         /\ \A k \in Keys : k[1] # u => m[k] = bindings[k]
    BY <2>4, <2>7 DEF m
  <2> QED
    BY <2>8, <2>9, <2>10, <2>11, Zenon DEF BindsOnly
<1>6. CASE ~primary
  <2>1. Bound(u, o, r, primary) = made
    BY <1>6 DEF Bound
  <2> HIDE DEF made
  <2> QED
    BY <1>2, <1>3, <1>4, <1>6, <2>1 DEF BindsOnly
<1> QED
  BY <1>5, <1>6

LEMMA UnbindFacts ==
  ASSUME bindings \in [Keys -> Binding], NEW keys \in SUBSET Keys
  PROVE  /\ Unbind(keys) \in [Keys -> Binding]
         /\ \A k \in Keys \ keys : Unbind(keys)[k] = bindings[k]
         /\ \A k \in keys : /\ Unbind(keys)[k].role = bindings[k].role
                            /\ Unbind(keys)[k].live = FALSE
                            /\ Unbind(keys)[k].primary = FALSE
<1>1. ASSUME NEW k \in Keys
      PROVE  /\ Unbind(keys)[k] \in Binding
             /\ k \notin keys => Unbind(keys)[k] = bindings[k]
             /\ k \in keys => /\ Unbind(keys)[k].role = bindings[k].role
                              /\ Unbind(keys)[k].live = FALSE
                              /\ Unbind(keys)[k].primary = FALSE
  <2>1. Unbind(keys)[k] = IF k \in keys THEN [role |-> bindings[k].role, live |-> FALSE, primary |-> FALSE]
                                        ELSE bindings[k]
    BY DEF Unbind
  <2>3. bindings[k] \in Binding /\ bindings[k].role \in Roles \cup {NoRole}
    BY DEF Binding
  <2> QED
    BY <2>1, <2>3 DEF Binding
<1>2. Unbind(keys) = [k \in Keys |-> Unbind(keys)[k]]
  BY DEF Unbind
<1> QED
  BY <1>1, <1>2

-----------------------------------------------------------------------------
(* The permission context.                                                  *)

LEMMA ComputedType ==
  ASSUME TypeOK, NEW u \in Users, NEW o \in Organizations
  PROVE  Computed(u, o) \in PermissionContext
<1> DEFINE b == bindings[<<u, o>>]
           super == HasActiveSuperAdminBinding(u)
           codes == Overridden(IF super THEN enabled ELSE RoleCodes(b), overrides[u])
           rules == RoleRules(b)
<1>1. b \in Binding /\ enabled \in SUBSET Codes /\ overrides[u] \in [Codes -> Effects]
  BY DEF TypeOK, Keys
<1>2. b.role # NoRole => roles[b.role].codes \in SUBSET Codes /\ roles[b.role].rules \in SUBSET Rules
  BY <1>1 DEF TypeOK, Binding, Role
<1>3. super \in BOOLEAN
  BY DEF HasActiveSuperAdminBinding
<1>4. codes \in SUBSET Codes
  BY <1>1, <1>2 DEF Overridden, RoleCodes
<1>5. rules \in SUBSET Rules
  BY <1>2 DEF RoleRules
<1>6. Computed(u, o) = [super |-> super, codes |-> codes, rules |-> rules, overrides |-> overrides[u]]
  BY DEF Computed
<1> HIDE DEF b, super, codes, rules
<1> QED
  BY <1>1, <1>3, <1>4, <1>5, <1>6 DEF PermissionContext

\* A context changes only with what it is computed from.
LEMMA SameContext ==
  ASSUME NEW u \in Users, NEW o \in Organizations,
         enabled' = enabled, overrides'[u] = overrides[u],
         \A p \in Organizations :
           /\ bindings'[<<u, p>>].live = bindings[<<u, p>>].live
           /\ bindings[<<u, p>>].live =>
                /\ bindings'[<<u, p>>].role = bindings[<<u, p>>].role
                /\ bindings[<<u, p>>].role # NoRole =>
                     /\ roles'[bindings[<<u, p>>].role] = roles[bindings[<<u, p>>].role]
                     /\ bindings[<<u, p>>].role = superRole' <=> bindings[<<u, p>>].role = superRole
  PROVE  Computed(u, o)' = Computed(u, o)
<1>1. HasActiveSuperAdminBinding(u)' = HasActiveSuperAdminBinding(u)
  <2> DEFINE acts(p) == /\ bindings[<<u, p>>].live /\ bindings[<<u, p>>].role = superRole
                        /\ superRole # NoRole /\ roles[bindings[<<u, p>>].role].status = "enabled"
  <2>1. ASSUME NEW p \in Organizations
        PROVE  acts(p)' <=> acts(p)
    BY <2>1
  <2>2. HasActiveSuperAdminBinding(u) = \E p \in Organizations : acts(p)
    BY DEF HasActiveSuperAdminBinding
  <2>3. HasActiveSuperAdminBinding(u)' = \E p \in Organizations : acts(p)'
    BY DEF HasActiveSuperAdminBinding
  <2>4. (\E p \in Organizations : acts(p)') <=> (\E p \in Organizations : acts(p))
    BY <2>1
  <2> QED
    BY <2>2, <2>3, <2>4
<1>2. RoleCodes(bindings[<<u, o>>])' = RoleCodes(bindings[<<u, o>>])
  BY DEF RoleCodes
<1>3. RoleRules(bindings[<<u, o>>])' = RoleRules(bindings[<<u, o>>])
  BY DEF RoleRules
<1> QED
  BY <1>1, <1>2, <1>3 DEF Computed, Overridden

-----------------------------------------------------------------------------
(* Changes.                                                                 *)

\* What deletes the contexts it makes wrong keeps the invariant.
LEMMA ChangeKeeps ==
  ASSUME AccessInv, NEW a \in Admins, NEW keys \in SUBSET Keys,
         Changes(a), Clears(a, keys), creating' = creating,
         DirectoryTyped', PrimaryAgrees', RolesExist',
         \A u \in Users : users'[u].status = "none" <=> users[u].status = "none",
         \A k \in LiveKeys' \ keys :
           k \in LiveKeys /\ Computed(k[1], k[2])' = Computed(k[1], k[2])
  PROVE  AccessInv'
<1> USE DEF AccessInv
<1>1. /\ budget' \in [changes : 0 .. MaxChanges, failures : 0 .. MaxFailures]
      /\ clearing[a] = {} /\ driver' = driver /\ calls' = calls
  BY AccessAssumption DEF Changes, Clears, TypeOK
<1>2. CASE driver = "memory"
  <2>1. /\ clearing' = clearing /\ suspect' = suspect \ keys
        /\ cache' = [k \in Keys |-> IF k \in keys THEN NoEntry ELSE cache[k]]
    BY <1>2 DEF Clears
  <2>2. TypeOK'
    BY <1>1, <2>1 DEF TypeOK, DirectoryTyped
  <2>3. NothingUnderWay'
    BY <1>1, <1>2, <2>1 DEF NothingUnderWay
  <2>4. Unborn'
    <3>1. \A u \in Users, o \in Organizations : cache[<<u, o>>] = NoEntry => cache'[<<u, o>>] = NoEntry
      BY <2>1 DEF Keys
    <3> QED
      BY <1>1, <3>1 DEF Unborn, TypeOK, Call, Keys
  <2>5. StaleIsExplained'
    <3> SUFFICES ASSUME NEW k \in LiveKeys'
                 PROVE  Current(k)' \/ (k \in suspect)' \/ \E b \in Admins : (k \in clearing[b])'
      BY DEF StaleIsExplained
    <3>1. k \in Keys
      BY DEF LiveKeys
    <3>2. CASE k \in keys
      BY <2>1, <3>1, <3>2 DEF Current
    <3>3. CASE k \notin keys
      <4>1. Current(k) => Current(k)'
        BY <2>1, <3>1, <3>3 DEF Current
      <4> QED
        BY <2>1, <3>3, <4>1 DEF StaleIsExplained
    <3> QED
      BY <3>2, <3>3
  <2> QED
    BY <2>2, <2>3, <2>4, <2>5
<1>3. CASE driver # "memory"
  <2>1. /\ clearing' = [clearing EXCEPT ![a] = keys]
        /\ cache' = cache /\ suspect' = suspect
    BY <1>3 DEF Clears
  <2>2. TypeOK'
    BY <1>1, <2>1 DEF TypeOK, DirectoryTyped
  <2>3. NothingUnderWay'
    BY <1>1, <1>3 DEF NothingUnderWay
  <2>4. Unborn'
    BY <1>1, <2>1 DEF Unborn, TypeOK, Call, Keys
  <2>5. StaleIsExplained'
    <3> SUFFICES ASSUME NEW k \in LiveKeys'
                 PROVE  Current(k)' \/ (k \in suspect)' \/ \E b \in Admins : (k \in clearing[b])'
      BY DEF StaleIsExplained
    <3>1. clearing'[a] = keys /\ \A b \in Admins : b # a => clearing'[b] = clearing[b]
      BY <2>1 DEF TypeOK
    <3>2. CASE k \in keys
      BY <3>1, <3>2
    <3>3. CASE k \notin keys
      <4>1. Current(k) => Current(k)'
        BY <2>1, <3>3 DEF Current
      <4>2. \A b \in Admins : k \in clearing[b] => k \in clearing'[b]
        BY <1>1, <3>1
      <4> QED
        BY <2>1, <3>3, <4>1, <4>2 DEF StaleIsExplained
    <3> QED
      BY <3>2, <3>3
  <2> QED
    BY <2>2, <2>3, <2>4, <2>5
<1> QED
  BY <1>2, <1>3

\* A change of one user deletes that user's contexts.
LEMMA OneUser ==
  ASSUME AccessInv, NEW a \in Admins, NEW u \in Users,
         Changes(a), Clears(a, InvalidateUser(u)), creating' = creating,
         enabled' = enabled, roles' = roles, superRole' = superRole,
         organizations' = organizations,
         DirectoryTyped', PrimaryAgrees', RolesExist',
         users[u].status # "none", users'[u].status # "none",
         \A v \in Users \ {u} :
           /\ users'[v] = users[v] /\ overrides'[v] = overrides[v]
           /\ \A o \in Organizations : bindings'[<<v, o>>] = bindings[<<v, o>>]
  PROVE  AccessInv'
<1>1. PICK keys \in SUBSET Keys : keys = InvalidateUser(u)
  BY DEF InvalidateUser, OrganizationsOf, Keys
<1>2. \A o \in LiveOrganizations' : <<u, o>> \in keys
  BY <1>1 DEF InvalidateUser, OrganizationsOf, LiveOrganizations
<1>3. \A v \in Users : users'[v].status = "none" <=> users[v].status = "none"
  OBVIOUS
<1>4. ASSUME NEW k \in LiveKeys' \ keys
      PROVE  k \in LiveKeys /\ Computed(k[1], k[2])' = Computed(k[1], k[2])
  <2>1. k \in Keys /\ k = <<k[1], k[2]>> /\ k[1] \in Users /\ k[2] \in Organizations
    BY <1>4 DEF LiveKeys, Keys
  <2>2. users'[k[1]].status = "live" /\ k[2] \in LiveOrganizations'
    BY <1>4 DEF LiveKeys, Live
  <2>3. k[1] # u
    BY <1>2, <1>4, <2>1, <2>2
  <2>4. k \in LiveKeys
    BY <2>1, <2>2, <2>3 DEF LiveKeys, Live, LiveOrganizations
  <2>5. /\ overrides'[k[1]] = overrides[k[1]]
        /\ \A p \in Organizations : bindings'[<<k[1], p>>] = bindings[<<k[1], p>>]
    BY <2>1, <2>3
  <2>6. Computed(k[1], k[2])' = Computed(k[1], k[2])
    BY <2>1, <2>5, SameContext
  <2> QED
    BY <2>4, <2>6
<1>5. Clears(a, keys)
  BY <1>1
<1> QED
  BY <1>3, <1>4, <1>5, ChangeKeeps

\* A change of one role deletes the contexts of all who hold it or have held it.
LEMMA OneRole ==
  ASSUME AccessInv, NEW a \in Admins, NEW r \in Roles,
         Changes(a), Clears(a, InvalidateRole(r)), creating' = creating,
         enabled' = enabled, organizations' = organizations, users' = users,
         overrides' = overrides, DirectoryTyped', PrimaryAgrees', RolesExist',
         \A q \in Roles \ {r} : roles'[q] = roles[q] /\ (q = superRole' <=> q = superRole),
         \A k \in Keys : /\ bindings'[k].role = bindings[k].role
                         /\ bindings[k].role # r => bindings'[k] = bindings[k]
  PROVE  AccessInv'
<1>1. PICK keys \in SUBSET Keys : keys = InvalidateRole(r)
  <2>1. \A v \in Users : InvalidateUser(v) \in SUBSET Keys
    BY DEF InvalidateUser, OrganizationsOf, Keys
  <2>2. InvalidateRole(r) \in SUBSET Keys
    BY <2>1 DEF InvalidateRole
  <2> QED
    BY <2>2
<1>2. ASSUME NEW v \in Users, NEW o \in Organizations, NEW p \in LiveOrganizations',
             bindings[<<v, o>>].role = r
      PROVE  <<v, p>> \in keys
  <2>1. bindings'[<<v, o>>].role = r
    BY <1>2 DEF Keys
  <2>2. <<v, p>> \in InvalidateUser(v)
    BY DEF InvalidateUser, OrganizationsOf, LiveOrganizations
  <2> QED
    BY <1>1, <2>1, <2>2 DEF InvalidateRole
<1>3. ASSUME NEW k \in LiveKeys' \ keys
      PROVE  k \in LiveKeys /\ Computed(k[1], k[2])' = Computed(k[1], k[2])
  <2>1. k \in Keys /\ k = <<k[1], k[2]>> /\ k[1] \in Users /\ k[2] \in Organizations
    BY <1>3 DEF LiveKeys, Keys
  <2>2. k \in LiveKeys /\ k[2] \in LiveOrganizations'
    BY <1>3 DEF LiveKeys, Live, LiveOrganizations
  <2>3. ASSUME NEW p \in Organizations
        PROVE  /\ bindings'[<<k[1], p>>] = bindings[<<k[1], p>>]
               /\ bindings[<<k[1], p>>].role # r
               /\ bindings[<<k[1], p>>].role \in Roles \cup {NoRole}
    <3>1. bindings[<<k[1], p>>].role # r
      BY <1>2, <1>3, <2>1, <2>2
    <3> QED
      BY <2>1, <3>1 DEF AccessInv, TypeOK, Binding, Keys
  <2>4. Computed(k[1], k[2])' = Computed(k[1], k[2])
    BY <2>1, <2>3, SameContext
  <2> QED
    BY <2>2, <2>4
<1>4. Clears(a, keys)
  BY <1>1
<1> QED
  BY <1>3, <1>4, ChangeKeeps

\* A change of organizations or permissions deletes every context.
LEMMA AllUsers ==
  ASSUME AccessInv, NEW a \in Admins,
         Changes(a), Clears(a, InvalidateAll), creating' = creating, users' = users,
         DirectoryTyped', PrimaryAgrees', RolesExist'
  PROVE  AccessInv'
<1>1. PICK keys \in SUBSET Keys : keys = InvalidateAll
  BY DEF InvalidateAll, Keys
<1>2. LiveKeys' \subseteq keys
  BY <1>1 DEF LiveKeys, Live, LiveOrganizations, InvalidateAll, Keys
<1>3. Clears(a, keys)
  BY <1>1
<1> QED
  BY <1>2, <1>3, ChangeKeeps

-----------------------------------------------------------------------------
(* Changes of a user.                                                       *)

LEMMA RolesStay ==
  ASSUME AccessInv, creating' = creating, roles' = roles, bindings' \in [Keys -> Binding],
         \A k \in Keys : \/ bindings'[k].role = bindings[k].role
                         \/ roles[bindings'[k].role].status = "enabled"
  PROVE  RolesExist'
BY DEF AccessInv, RolesExist

LEMMA AssignRoleKeeps ==
  ASSUME AccessInv, NEW a \in Admins, NEW u \in Users, NEW o \in Organizations, NEW r \in Roles,
         AssignRole(a, u, o, r)
  PROVE  AccessInv'
<1> DEFINE primary == users[u].primary = o
<1>1. primary \in BOOLEAN /\ bindings \in [Keys -> Binding]
  BY DEF AccessInv, TypeOK
<1>2. /\ Changes(a) /\ users[u].status = "live" /\ roles[r].status = "enabled"
      /\ bindings' = Bound(u, o, r, primary)
      /\ enabled' = enabled /\ roles' = roles /\ superRole' = superRole
      /\ organizations' = organizations /\ users' = users /\ overrides' = overrides
      /\ creating' = creating
      /\ Clears(a, InvalidateUser(u))
  BY DEF AssignRole, Live
<1>3. \A k \in Keys : k = <<k[1], k[2]>> /\ k[1] \in Users /\ k[2] \in Organizations
  BY DEF Keys
<1>4. primary <=> users[u].primary = o
  OBVIOUS
<1> HIDE DEF primary
<1>5. BindsOnly(bindings', u, o, r, primary)
  BY <1>1, <1>2, BoundFacts
<1>6. DirectoryTyped'
  BY <1>2, <1>5 DEF AccessInv, TypeOK, DirectoryTyped, BindsOnly
<1>7. PrimaryAgrees'
  <2> SUFFICES ASSUME NEW k \in Keys
               PROVE  PrimaryAgreesAt(k)'
    BY DEF PrimaryAgrees
  <2>1. /\ bindings[k].primary => bindings[k].live
        /\ bindings[k].live => /\ users[k[1]].status = "live"
                               /\ bindings[k].primary <=> k[2] = users[k[1]].primary
    BY DEF AccessInv, PrimaryAgrees, PrimaryAgreesAt, Live
  <2>2. CASE k[1] # u
    <3>1. bindings'[k] = bindings[k]
      BY <1>5, <2>2 DEF BindsOnly
    <3>2. /\ bindings'[k].live = bindings[k].live /\ bindings'[k].primary = bindings[k].primary
          /\ users' = users
      BY <1>2, <3>1
    <3>3. PrimaryAgreesAt(k)
      BY DEF AccessInv, PrimaryAgrees
    <3> QED
      BY <3>1, <3>2, <3>3 DEF PrimaryAgreesAt, Live
  <2>3. CASE k[1] = u /\ k[2] # o
    BY <1>2, <1>4, <1>5, <2>1, <2>3 DEF BindsOnly, PrimaryAgreesAt, Live
  <2>4. CASE k[1] = u /\ k[2] = o
    BY <1>2, <1>3, <1>4, <1>5, <2>4 DEF BindsOnly, PrimaryAgreesAt, Live
  <2> QED
    BY <2>2, <2>3, <2>4
<1>8. RolesExist'
  <2>1. ASSUME NEW k \in Keys
        PROVE  bindings'[k].role = bindings[k].role \/ roles[bindings'[k].role].status = "enabled"
    <3>1. CASE k[1] = u /\ k[2] = o
      <4>1. bindings'[k].role = r
        BY <1>3, <1>5, <3>1 DEF BindsOnly
      <4> QED
        BY <1>2, <4>1
    <3>2. CASE ~(k[1] = u /\ k[2] = o)
      BY <1>5, <3>2 DEF BindsOnly
    <3> QED
      BY <3>1, <3>2
  <2> QED
    BY <1>2, <1>5, <2>1, RolesStay DEF BindsOnly
<1>9. \A v \in Users \ {u}, p \in Organizations : bindings'[<<v, p>>] = bindings[<<v, p>>]
  BY <1>5 DEF Keys, BindsOnly
<1> QED
  BY <1>2, <1>6, <1>7, <1>8, <1>9, OneUser

\* Taking bindings away leaves the others as they are.
LEMMA UnbindAgrees ==
  ASSUME AccessInv, NEW keys \in SUBSET Keys, bindings' = Unbind(keys),
         \A u \in Users : users'[u].primary = users[u].primary,
         \A k \in Keys \ keys : bindings[k].live => users'[k[1]].status = "live"
  PROVE  /\ PrimaryAgrees' /\ bindings' \in [Keys -> Binding]
         /\ \A k \in Keys : bindings'[k].role = bindings[k].role
         /\ \A k \in Keys \ keys : bindings'[k] = bindings[k]
<1>1. bindings \in [Keys -> Binding]
  BY DEF AccessInv, TypeOK
<1>2. /\ bindings' \in [Keys -> Binding]
      /\ \A k \in Keys \ keys : bindings'[k] = bindings[k]
      /\ \A k \in keys : /\ bindings'[k].role = bindings[k].role
                         /\ bindings'[k].live = FALSE
                         /\ bindings'[k].primary = FALSE
  BY <1>1, UnbindFacts
<1>3. ASSUME NEW k \in Keys
      PROVE  PrimaryAgreesAt(k)'
  <2>1. /\ bindings[k].primary => bindings[k].live
        /\ bindings[k].live => (bindings[k].primary <=> k[2] = users[k[1]].primary)
    BY DEF AccessInv, PrimaryAgrees, PrimaryAgreesAt
  <2>2. k[1] \in Users
    BY DEF Keys
  <2> QED
    BY <1>2, <2>1, <2>2 DEF PrimaryAgreesAt, Live
<1>4. PrimaryAgrees'
  BY <1>3 DEF PrimaryAgrees
<1> QED
  BY <1>2, <1>4

LEMMA RemoveRoleKeeps ==
  ASSUME AccessInv, NEW a \in Admins, NEW u \in Users, NEW o \in Organizations,
         RemoveRole(a, u, o)
  PROVE  AccessInv'
<1>1. /\ Changes(a) /\ users[u].status = "live"
      /\ bindings' = IF bindings[<<u, o>>].live THEN Unbind({<<u, o>>}) ELSE bindings
      /\ enabled' = enabled /\ roles' = roles /\ superRole' = superRole
      /\ organizations' = organizations /\ users' = users /\ overrides' = overrides
      /\ creating' = creating
      /\ Clears(a, InvalidateUser(u))
  BY DEF RemoveRole, Live
<1>2. PICK keys \in SUBSET Keys : keys = {<<u, o>>}
  <2>1. <<u, o>> \in Keys
    BY DEF Keys
  <2>2. {<<u, o>>} \in SUBSET Keys
    BY <2>1
  <2> QED
    BY <2>2
<1>3. /\ PrimaryAgrees' /\ bindings' \in [Keys -> Binding]
      /\ \A k \in Keys : bindings'[k].role = bindings[k].role
      /\ \A k \in Keys \ keys : bindings'[k] = bindings[k]
  <2>1. \A k \in Keys \ keys : bindings[k].live => users'[k[1]].status = "live"
    BY <1>1 DEF AccessInv, PrimaryAgrees, PrimaryAgreesAt, Live
  <2>2. CASE bindings[<<u, o>>].live
    <3>1. bindings' = Unbind(keys)
      BY <1>1, <1>2, <2>2
    <3> QED
      BY <1>1, <2>1, <3>1, UnbindAgrees
  <2>3. CASE ~bindings[<<u, o>>].live
    BY <1>1, <2>3 DEF AccessInv, TypeOK, PrimaryAgrees, PrimaryAgreesAt, Live
  <2> QED
    BY <2>2, <2>3
<1>4. DirectoryTyped'
  BY <1>1, <1>3 DEF AccessInv, TypeOK, DirectoryTyped
<1>5. RolesExist'
  BY <1>1, <1>3, RolesStay
<1>6. \A v \in Users \ {u}, p \in Organizations : bindings'[<<v, p>>] = bindings[<<v, p>>]
  BY <1>2, <1>3 DEF Keys
<1> QED
  BY <1>1, <1>3, <1>4, <1>5, <1>6, OneUser

LEMMA UpdateUserKeeps ==
  ASSUME AccessInv, NEW a \in Admins, NEW u \in Users, NEW o \in Organizations,
         UpdateUser(a, u, o)
  PROVE  AccessInv'
<1>1. /\ Changes(a) /\ users[u].status = "live" /\ bindings[<<u, o>>].live
      /\ users' = [users EXCEPT ![u].primary = o]
      /\ bindings' = MarkedPrimary(u, o, bindings)
      /\ enabled' = enabled /\ roles' = roles /\ superRole' = superRole
      /\ organizations' = organizations /\ overrides' = overrides
      /\ creating' = creating
      /\ Clears(a, InvalidateUser(u))
  BY DEF UpdateUser, Live
<1>2. bindings \in [Keys -> Binding] /\ users \in [Users -> User]
  BY DEF AccessInv, TypeOK
<1>3. /\ bindings' \in [Keys -> Binding]
      /\ \A k \in Keys :
           /\ bindings'[k].role = bindings[k].role
           /\ bindings'[k].live = bindings[k].live
           /\ bindings'[k].primary
                 = IF k[1] = u /\ bindings[k].live THEN k[2] = o ELSE bindings[k].primary
  BY <1>1, <1>2, MarkedPrimaryFacts
<1>4. \A k \in Keys : k[1] # u => bindings'[k] = bindings[k]
  BY <1>1 DEF MarkedPrimary
<1>5. /\ users' \in [Users -> User] /\ users'[u].status = "live" /\ users'[u].primary = o
      /\ \A v \in Users \ {u} : users'[v] = users[v]
  BY <1>1, <1>2 DEF User
<1>6. DirectoryTyped'
  BY <1>1, <1>3, <1>5 DEF AccessInv, TypeOK, DirectoryTyped
<1>7. PrimaryAgrees'
  <2> SUFFICES ASSUME NEW k \in Keys
               PROVE  PrimaryAgreesAt(k)'
    BY DEF PrimaryAgrees
  <2>1. PrimaryAgreesAt(k) /\ bindings[k] \in Binding
    BY <1>2 DEF AccessInv, PrimaryAgrees
  <2>2. k[1] \in Users
    BY DEF Keys
  <2>3. CASE k[1] # u
    <3>1. bindings'[k].live = bindings[k].live /\ bindings'[k].primary = bindings[k].primary
      BY <1>4, <2>3
    <3>2. users'[k[1]] = users[k[1]]
      BY <1>5, <2>2, <2>3
    <3> QED
      BY <2>1, <3>1, <3>2 DEF PrimaryAgreesAt, Live, Binding
  <2>4. CASE k[1] = u
    <3>1. CASE bindings[k].live
      <4>1. bindings'[k].live /\ (bindings'[k].primary <=> k[2] = o)
        BY <1>3, <2>4, <3>1
      <4> QED
        BY <1>5, <2>4, <4>1 DEF PrimaryAgreesAt, Live
    <3>2. CASE ~bindings[k].live
      <4>1. ~bindings'[k].live /\ ~bindings'[k].primary
        BY <1>3, <2>1, <3>2 DEF PrimaryAgreesAt, Binding
      <4> QED
        BY <4>1 DEF PrimaryAgreesAt
    <3> QED
      BY <3>1, <3>2
  <2> QED
    BY <2>3, <2>4
<1>8. RolesExist'
  BY <1>1, <1>3, RolesStay
<1>9. \A v \in Users \ {u}, p \in Organizations : bindings'[<<v, p>>] = bindings[<<v, p>>]
  BY <1>4 DEF Keys
<1> QED
  BY <1>1, <1>5, <1>6, <1>7, <1>8, <1>9, OneUser

LEMMA TouchUserKeeps ==
  ASSUME AccessInv, NEW a \in Admins, NEW u \in Users, TouchUser(a, u)
  PROVE  AccessInv'
<1>1. /\ Changes(a) /\ users[u].status = "live"
      /\ enabled' = enabled /\ roles' = roles /\ superRole' = superRole
      /\ organizations' = organizations /\ users' = users /\ overrides' = overrides
      /\ bindings' = bindings /\ creating' = creating
      /\ Clears(a, InvalidateUser(u))
  BY DEF TouchUser, Live, directory
<1>2. DirectoryTyped' /\ RolesExist'
  BY <1>1 DEF AccessInv, TypeOK, DirectoryTyped, RolesExist
<1>3. PrimaryAgrees'
  BY <1>1 DEF AccessInv, PrimaryAgrees, PrimaryAgreesAt, Live
<1> QED
  BY <1>1, <1>2, <1>3, OneUser

LEMMA DeleteUserKeeps ==
  ASSUME AccessInv, NEW a \in Admins, NEW u \in Users, DeleteUser(a, u)
  PROVE  AccessInv'
<1>1. PICK keys \in SUBSET Keys : keys = {k \in Keys : k[1] = u /\ bindings[k].live}
  OBVIOUS
<1>2. /\ Changes(a) /\ users[u].status = "live"
      /\ users' = [users EXCEPT ![u].status = "deleted"]
      /\ bindings' = Unbind(keys)
      /\ enabled' = enabled /\ roles' = roles /\ superRole' = superRole
      /\ organizations' = organizations /\ overrides' = overrides
      /\ creating' = creating
      /\ Clears(a, InvalidateUser(u))
  BY <1>1 DEF DeleteUser, Live
<1>3. /\ users' \in [Users -> User] /\ users'[u].status = "deleted"
      /\ \A v \in Users \ {u} : users'[v] = users[v]
      /\ \A v \in Users : users'[v].primary = users[v].primary
  BY <1>2 DEF AccessInv, TypeOK, User
<1>4. \A k \in Keys \ keys : bindings[k].live => users'[k[1]].status = "live"
  <2> SUFFICES ASSUME NEW k \in Keys, k \notin keys, bindings[k].live
               PROVE  users'[k[1]].status = "live"
    OBVIOUS
  <2>1. k[1] # u /\ k[1] \in Users
    BY <1>1 DEF Keys
  <2>2. users[k[1]].status = "live"
    BY DEF AccessInv, PrimaryAgrees, PrimaryAgreesAt, Live
  <2> QED
    BY <1>3, <2>1, <2>2
<1>5. /\ PrimaryAgrees' /\ bindings' \in [Keys -> Binding]
      /\ \A k \in Keys : bindings'[k].role = bindings[k].role
      /\ \A k \in Keys \ keys : bindings'[k] = bindings[k]
  BY <1>2, <1>3, <1>4, UnbindAgrees
<1>6. DirectoryTyped'
  BY <1>2, <1>3, <1>5 DEF AccessInv, TypeOK, DirectoryTyped
<1>7. RolesExist'
  BY <1>2, <1>5, RolesStay
<1>8. \A v \in Users \ {u}, p \in Organizations : bindings'[<<v, p>>] = bindings[<<v, p>>]
  BY <1>1, <1>5 DEF Keys
<1> QED
  BY <1>2, <1>3, <1>5, <1>6, <1>7, <1>8, OneUser

LEMMA UpdateOverridesKeeps ==
  ASSUME AccessInv, NEW a \in Admins, NEW u \in Users, NEW effects \in [Codes -> Effects],
         UpdateOverrides(a, u, effects)
  PROVE  AccessInv'
<1>1. /\ Changes(a) /\ users[u].status = "live"
      /\ overrides' = [overrides EXCEPT ![u] = effects]
      /\ enabled' = enabled /\ roles' = roles /\ superRole' = superRole
      /\ organizations' = organizations /\ users' = users
      /\ bindings' = bindings /\ creating' = creating
      /\ Clears(a, InvalidateUser(u))
  BY DEF UpdateOverrides, Live
<1>2. DirectoryTyped' /\ RolesExist'
  BY <1>1 DEF AccessInv, TypeOK, DirectoryTyped, RolesExist
<1>3. PrimaryAgrees'
  BY <1>1 DEF AccessInv, PrimaryAgrees, PrimaryAgreesAt, Live
<1>4. \A v \in Users \ {u} : overrides'[v] = overrides[v]
  BY <1>1
<1> QED
  BY <1>1, <1>2, <1>3, <1>4, OneUser

-----------------------------------------------------------------------------
(* Changes of a role, and of everything.                                    *)

LEMMA ChangeRoleKeeps ==
  ASSUME AccessInv, NEW a \in Admins, NEW r \in Roles, NEW role \in Role,
         role.status # "none", ChangeRole(a, r, role)
  PROVE  AccessInv'
<1>1. PICK keys \in SUBSET Keys : keys = {k \in Keys : bindings[k].role = r /\ bindings[k].live}
  OBVIOUS
<1>2. /\ Changes(a)
      /\ roles' = [roles EXCEPT ![r] = role]
      /\ bindings' = IF role.status = "deleted" THEN Unbind(keys) ELSE bindings
      /\ enabled' = enabled /\ superRole' = superRole
      /\ organizations' = organizations /\ users' = users /\ overrides' = overrides
      /\ creating' = creating
      /\ Clears(a, InvalidateRole(r))
  BY <1>1 DEF ChangeRole
<1>3. /\ PrimaryAgrees' /\ bindings' \in [Keys -> Binding]
      /\ \A k \in Keys : bindings'[k].role = bindings[k].role
      /\ \A k \in Keys \ keys : bindings'[k] = bindings[k]
  <2>1. \A k \in Keys \ keys : bindings[k].live => users'[k[1]].status = "live"
    BY <1>2 DEF AccessInv, PrimaryAgrees, PrimaryAgreesAt, Live
  <2>2. CASE role.status = "deleted"
    BY <1>2, <2>1, <2>2, UnbindAgrees
  <2>3. CASE role.status # "deleted"
    BY <1>2, <2>3 DEF AccessInv, TypeOK, PrimaryAgrees, PrimaryAgreesAt, Live
  <2> QED
    BY <2>2, <2>3
<1>4. /\ roles' \in [Roles -> Role] /\ roles'[r].status # "none"
      /\ \A q \in Roles \ {r} : roles'[q] = roles[q]
  BY <1>2 DEF AccessInv, TypeOK
<1>5. DirectoryTyped'
  BY <1>2, <1>3, <1>4 DEF AccessInv, TypeOK, DirectoryTyped
<1>6. RolesExist'
  <2>1. \A q \in Roles : roles[q].status # "none" => roles'[q].status # "none"
    BY <1>4
  <2>2. \A k \in Keys : bindings[k].role # NoRole => bindings[k].role \in Roles
    BY DEF AccessInv, TypeOK, Binding
  <2>3. \A u \in Users : creating[u] # NoCreation => creating[u][2] \in Roles
    BY DEF AccessInv, TypeOK
  <2> QED
    BY <1>2, <1>3, <2>1, <2>2, <2>3 DEF AccessInv, RolesExist
<1>7. \A k \in Keys : bindings[k].role # r => bindings'[k] = bindings[k]
  BY <1>1, <1>3
<1> QED
  BY <1>2, <1>3, <1>4, <1>5, <1>6, <1>7, OneRole

LEMMA ChangeOfRoleKeeps ==
  ASSUME AccessInv, NEW a \in Admins, ChangeOfRole(a)
  PROVE  AccessInv'
<1>1. PICK r \in Roles :
        \/ \E status \in {"enabled", "disabled"} : SetRoleStatus(a, r, status)
        \/ \E codes \in SUBSET Codes : UpdateRolePermissions(a, r, codes)
        \/ \E rules \in SUBSET Rules : UpdateRoleRules(a, r, rules)
        \/ DeleteRole(a, r)
        \/ \E super \in BOOLEAN : UpdateRoleCode(a, r, super)
  BY DEF ChangeOfRole
<1>2. roles[r] \in Role
  BY DEF AccessInv, TypeOK
<1>3. ASSUME NEW status \in {"enabled", "disabled"}, SetRoleStatus(a, r, status)
      PROVE  AccessInv'
  <2>1. ChangeRole(a, r, [roles[r] EXCEPT !.status = status])
    BY <1>3 DEF SetRoleStatus
  <2>2. /\ [roles[r] EXCEPT !.status = status] \in Role
        /\ [roles[r] EXCEPT !.status = status].status # "none"
    BY <1>2 DEF Role
  <2> QED
    BY <2>1, <2>2, ChangeRoleKeeps
<1>4. ASSUME NEW codes \in SUBSET Codes, UpdateRolePermissions(a, r, codes)
      PROVE  AccessInv'
  <2>1. ChangeRole(a, r, [roles[r] EXCEPT !.codes = codes]) /\ Exists(r)
    BY <1>4 DEF UpdateRolePermissions, ChangeRole
  <2>2. /\ [roles[r] EXCEPT !.codes = codes] \in Role
        /\ [roles[r] EXCEPT !.codes = codes].status # "none"
    BY <1>2, <2>1 DEF Role, Exists
  <2> QED
    BY <2>1, <2>2, ChangeRoleKeeps
<1>5. ASSUME NEW rules \in SUBSET Rules, UpdateRoleRules(a, r, rules)
      PROVE  AccessInv'
  <2>1. ChangeRole(a, r, [roles[r] EXCEPT !.rules = rules]) /\ Exists(r)
    BY <1>5 DEF UpdateRoleRules, ChangeRole
  <2>2. /\ [roles[r] EXCEPT !.rules = rules] \in Role
        /\ [roles[r] EXCEPT !.rules = rules].status # "none"
    BY <1>2, <2>1 DEF Role, Exists
  <2> QED
    BY <2>1, <2>2, ChangeRoleKeeps
<1>6. ASSUME DeleteRole(a, r)
      PROVE  AccessInv'
  <2>1. ChangeRole(a, r, [status |-> "deleted", codes |-> {}, rules |-> roles[r].rules])
    BY <1>6 DEF DeleteRole
  <2>2. [status |-> "deleted", codes |-> {}, rules |-> roles[r].rules] \in Role
    BY <1>2 DEF Role
  <2> QED
    BY <2>1, <2>2, ChangeRoleKeeps
<1>7. ASSUME NEW super \in BOOLEAN, UpdateRoleCode(a, r, super)
      PROVE  AccessInv'
  <2>1. /\ Changes(a) /\ (super => superRole \in {r, NoRole})
        /\ superRole' = IF super THEN r ELSE IF superRole = r THEN NoRole ELSE superRole
        /\ enabled' = enabled /\ roles' = roles
        /\ organizations' = organizations /\ users' = users /\ overrides' = overrides
        /\ bindings' = bindings /\ creating' = creating
        /\ Clears(a, InvalidateRole(r))
    BY <1>7 DEF UpdateRoleCode
  <2>2. /\ superRole' \in Roles \cup {NoRole}
        /\ \A q \in Roles \ {r} : q = superRole' <=> q = superRole
    BY <2>1, AccessAssumption DEF AccessInv, TypeOK
  <2>3. DirectoryTyped' /\ RolesExist'
    BY <2>1, <2>2 DEF AccessInv, TypeOK, DirectoryTyped, RolesExist
  <2>4. PrimaryAgrees'
    BY <2>1 DEF AccessInv, PrimaryAgrees, PrimaryAgreesAt, Live
  <2> QED
    BY <2>1, <2>2, <2>3, <2>4, OneRole
<1> QED
  BY <1>1, <1>3, <1>4, <1>5, <1>6, <1>7

LEMMA ChangeOrganizationsKeeps ==
  ASSUME AccessInv, NEW a \in Admins,
         NEW changed \in [Organizations -> {"none", "enabled", "disabled", "deleted"}],
         ChangeOrganizations(a, changed)
  PROVE  AccessInv'
<1>1. PICK keys \in SUBSET Keys :
        keys = {k \in Keys : changed[k[2]] = "deleted" /\ bindings[k].live
                               /\ organizations[k[2]] # "deleted"}
  OBVIOUS
<1>2. /\ Changes(a) /\ organizations' = changed /\ bindings' = Unbind(keys)
      /\ enabled' = enabled /\ roles' = roles /\ superRole' = superRole
      /\ users' = users /\ overrides' = overrides /\ creating' = creating
      /\ Clears(a, InvalidateAll)
  BY <1>1 DEF ChangeOrganizations
<1>3. \A k \in Keys \ keys : bindings[k].live => users'[k[1]].status = "live"
  BY <1>2 DEF AccessInv, PrimaryAgrees, PrimaryAgreesAt, Live
<1>4. /\ PrimaryAgrees' /\ bindings' \in [Keys -> Binding]
      /\ \A k \in Keys : bindings'[k].role = bindings[k].role
  BY <1>2, <1>3, UnbindAgrees
<1>5. DirectoryTyped'
  BY <1>2, <1>4 DEF AccessInv, TypeOK, DirectoryTyped
<1>6. RolesExist'
  BY <1>2, <1>4, RolesStay
<1> QED
  BY <1>2, <1>4, <1>5, <1>6, AllUsers

LEMMA ChangeOfAllKeeps ==
  ASSUME AccessInv, NEW a \in Admins, ChangeOfAll(a)
  PROVE  AccessInv'
<1>1. organizations \in [Organizations -> {"none", "enabled", "disabled", "deleted"}]
  BY DEF AccessInv, TypeOK
<1>2. ASSUME NEW o \in Organizations,
             \/ CreateOrganization(a, o) \/ DisableOrganization(a, o)
             \/ EnableOrganization(a, o) \/ DeleteOrganization(a, o)
      PROVE  AccessInv'
  <2>1. /\ [organizations EXCEPT ![o] = "enabled"]
             \in [Organizations -> {"none", "enabled", "disabled", "deleted"}]
        /\ \A status \in {"disabled", "deleted"} :
             Under(o, status) \in [Organizations -> {"none", "enabled", "disabled", "deleted"}]
    BY <1>1 DEF Under
  <2>2. CASE CreateOrganization(a, o) \/ EnableOrganization(a, o)
    BY <2>1, <2>2, ChangeOrganizationsKeeps DEF CreateOrganization, EnableOrganization
  <2>3. CASE DisableOrganization(a, o) \/ DeleteOrganization(a, o)
    BY <2>1, <2>3, ChangeOrganizationsKeeps DEF DisableOrganization, DeleteOrganization
  <2> QED
    BY <1>2, <2>2, <2>3
<1>3. ASSUME UpdateMetadata(a)
      PROVE  AccessInv'
  BY <1>1, <1>3, ChangeOrganizationsKeeps DEF UpdateMetadata
<1>4. ASSUME NEW codes \in SUBSET Codes, SyncPermissions(a, codes)
      PROVE  AccessInv'
  <2>1. /\ Changes(a) /\ enabled' = BaseCodes \cup codes
        /\ roles' = [r \in Roles |-> [roles[r] EXCEPT !.codes = @ \cap enabled']]
        /\ superRole' = superRole /\ organizations' = organizations
        /\ users' = users /\ overrides' = overrides
        /\ bindings' = bindings /\ creating' = creating
        /\ Clears(a, InvalidateAll)
    BY <1>4 DEF SyncPermissions
  <2>2. /\ enabled' \in SUBSET Codes /\ roles' \in [Roles -> Role]
        /\ \A r \in Roles : roles'[r].status = roles[r].status
    <3>1. enabled' \in SUBSET Codes
      BY <2>1, AccessAssumption
    <3>2. ASSUME NEW r \in Roles
          PROVE  roles'[r] \in Role /\ roles'[r].status = roles[r].status
      <4>1. roles[r] \in Role
        BY DEF AccessInv, TypeOK
      <4>2. PICK kept \in SUBSET Codes : kept = roles[r].codes \cap enabled'
        BY <3>1
      <4>3. roles'[r] = [roles[r] EXCEPT !.codes = kept]
        BY <2>1, <4>2
      <4> QED
        BY <4>1, <4>3 DEF Role
    <3>3. roles' = [r \in Roles |-> roles'[r]]
      BY <2>1
    <3> QED
      BY <3>1, <3>2, <3>3
  <2>3. DirectoryTyped'
    BY <2>1, <2>2 DEF AccessInv, TypeOK, DirectoryTyped
  <2>4. PrimaryAgrees'
    BY <2>1 DEF AccessInv, PrimaryAgrees, PrimaryAgreesAt, Live
  <2>5. RolesExist'
    BY <2>1, <2>2 DEF AccessInv, RolesExist, TypeOK, Binding
  <2> QED
    BY <2>1, <2>3, <2>4, <2>5, AllUsers
<1> QED
  BY <1>2, <1>3, <1>4 DEF ChangeOfAll

-----------------------------------------------------------------------------
(* Steps that change nothing a context is computed from.                    *)

LEMMA DirectoryStays ==
  ASSUME AccessInv, directory' = directory
  PROVE  /\ DirectoryTyped' /\ PrimaryAgrees' /\ LiveKeys' = LiveKeys
         /\ creating' = creating => RolesExist'
         /\ \A u \in Users, o \in Organizations : Computed(u, o)' = Computed(u, o)
         /\ users' = users
<1>1. /\ enabled' = enabled /\ roles' = roles /\ superRole' = superRole
      /\ organizations' = organizations /\ users' = users /\ overrides' = overrides
      /\ bindings' = bindings
  BY DEF directory
<1>2. DirectoryTyped' /\ LiveKeys' = LiveKeys
  BY <1>1 DEF AccessInv, TypeOK, DirectoryTyped, LiveKeys, Live, LiveOrganizations
<1>3. PrimaryAgrees'
  BY <1>1 DEF AccessInv, PrimaryAgrees, PrimaryAgreesAt, Live
<1>4. creating' = creating => RolesExist'
  BY <1>1 DEF AccessInv, RolesExist
<1>5. \A u \in Users, o \in Organizations : Computed(u, o)' = Computed(u, o)
  BY <1>1, SameContext
<1> QED
  BY <1>1, <1>2, <1>3, <1>4, <1>5

\* A step of the cache makes no entry worse without saying so.
LEMMA CacheStep ==
  ASSUME AccessInv, directory' = directory, creating' = creating, driver' = driver,
         TypeOK',
         \A k \in Keys : \/ Current(k) /\ cache'[k] = cache[k]
                         \/ cache'[k] = NoEntry
                         \/ cache'[k] = Computed(k[1], k[2])
                         \/ k \in suspect'
                         \/ /\ cache'[k] = cache[k] /\ (k \in suspect => k \in suspect')
                            /\ \A a \in Admins : k \in clearing[a] => k \in clearing'[a]
  PROVE  StaleIsExplained'
<1> SUFFICES ASSUME NEW k \in LiveKeys'
             PROVE  Current(k)' \/ (k \in suspect)' \/ \E a \in Admins : (k \in clearing[a])'
  BY DEF StaleIsExplained
<1>1. k \in LiveKeys /\ k \in Keys /\ Computed(k[1], k[2])' = Computed(k[1], k[2])
  BY DirectoryStays DEF LiveKeys, Keys
<1>2. Current(k) \/ k \in suspect \/ \E a \in Admins : k \in clearing[a]
  BY <1>1 DEF AccessInv, StaleIsExplained
<1>3. Current(k)' <=> cache'[k] = NoEntry \/ cache'[k] = Computed(k[1], k[2])
  BY <1>1 DEF Current
<1>4. Current(k) <=> cache[k] = NoEntry \/ cache[k] = Computed(k[1], k[2])
  BY DEF Current
<1> QED
  BY <1>1, <1>2, <1>3, <1>4

\* An entry is written for a key of a user that has been created.
LEMMA WrittenKeeps ==
  ASSUME AccessInv, NEW c \in Callers, NEW context \in PermissionContext \cup {NoEntry},
         calls[c].step # "idle", Written(calls[c].key, context),
         Proceeds(c, "idle", calls[c].key, NoEntry),
         driver = "memory" => context = Computed(calls[c].key[1], calls[c].key[2]),
         directory' = directory, creating' = creating, driver' = driver,
         clearing' = clearing, budget' = budget
  PROVE  AccessInv'
<1> DEFINE k == calls[c].key
<1>1. calls \in [Callers -> Call] /\ k \in Keys /\ k[1] \in Users
  BY DEF AccessInv, TypeOK, Call, Keys
<1>2. users[k[1]].status # "none"
  BY DEF AccessInv, Unborn
<1>3. /\ cache' = [cache EXCEPT ![k] = context]
      /\ suspect' = IF context = Computed(k[1], k[2]) THEN suspect \ {k} ELSE suspect \cup {k}
      /\ calls' = [calls EXCEPT ![c] = [step |-> "idle", key |-> k, context |-> NoEntry]]
  BY DEF Written, Proceeds
<1> HIDE DEF k
<1>4. calls' \in [Callers -> Call] /\ \A d \in Callers : d # c => calls'[d] = calls[d]
  BY <1>1, <1>3 DEF Call
<1>5. calls'[c].step = "idle"
  BY <1>1, <1>3
<1>6. TypeOK'
  <2>1. DirectoryTyped'
    BY DirectoryStays
  <2> QED
    BY <1>1, <1>3, <1>4, <2>1 DEF AccessInv, TypeOK, DirectoryTyped
<1>7. Unborn'
  <2>1. users' = users
    BY DirectoryStays
  <2>2. \A o \in Organizations, u \in Users : u # k[1] => cache'[<<u, o>>] = cache[<<u, o>>]
    BY <1>1, <1>3 DEF AccessInv, TypeOK, Keys
  <2>3. \A u \in Users : users[u].status = "none" => \A o \in Organizations : cache'[<<u, o>>] = NoEntry
    BY <1>2, <2>2 DEF AccessInv, Unborn
  <2>4. \A d \in Callers : calls'[d].step # "idle" => users[calls'[d].key[1]].status # "none"
    BY <1>4, <1>5 DEF AccessInv, Unborn
  <2> QED
    BY <2>1, <2>3, <2>4 DEF AccessInv, Unborn
<1>8. NothingUnderWay'
  BY <1>3, <1>4, <1>5 DEF AccessInv, NothingUnderWay, k
<1>9. StaleIsExplained'
  <2>1. cache'[k] = context /\ \A l \in Keys : l # k => cache'[l] = cache[l]
    BY <1>1, <1>3 DEF AccessInv, TypeOK
  <2>2. context = Computed(k[1], k[2]) \/ k \in suspect'
    BY <1>3
  <2>3. \A l \in Keys : l # k => (l \in suspect => l \in suspect')
    BY <1>3
  <2> QED
    BY <1>6, <2>1, <2>2, <2>3, CacheStep
<1>10. PrimaryAgrees' /\ RolesExist'
  BY DirectoryStays
<1> QED
  BY <1>6, <1>7, <1>8, <1>9, <1>10 DEF AccessInv

LEMMA ProceedsType ==
  ASSUME TypeOK, NEW c \in Callers, NEW step \in {"idle", "missed", "storing"}, NEW k \in Keys,
         NEW context \in PermissionContext \cup {NoEntry}, Proceeds(c, step, k, context)
  PROVE  /\ calls' \in [Callers -> Call]
         /\ calls'[c].step = step /\ calls'[c].key = k
         /\ \A d \in Callers : d # c => calls'[d] = calls[d]
<1>1. [step |-> step, key |-> k, context |-> context] \in Call
  BY DEF Call
<1> QED
  BY <1>1 DEF TypeOK, Proceeds

\* A call goes on, and the cache is as it was.
LEMMA CallKeeps ==
  ASSUME AccessInv, NEW c \in Callers, NEW step \in {"idle", "missed", "storing"}, NEW k \in Keys,
         NEW context \in PermissionContext \cup {NoEntry}, Proceeds(c, step, k, context),
         users[k[1]].status # "none", driver = "memory" => step # "storing",
         directory' = directory, creating' = creating, driver' = driver, cache' = cache,
         clearing' = clearing, suspect' = suspect,
         budget' \in [changes : 0 .. MaxChanges, failures : 0 .. MaxFailures]
  PROVE  AccessInv'
<1>1. /\ calls' \in [Callers -> Call]
      /\ calls'[c].step = step /\ calls'[c].key = k
      /\ \A d \in Callers : d # c => calls'[d] = calls[d]
  BY ProceedsType DEF AccessInv
<1>2. /\ DirectoryTyped' /\ PrimaryAgrees' /\ RolesExist' /\ users' = users
  BY DirectoryStays
<1>3. TypeOK'
  BY <1>1, <1>2 DEF AccessInv, TypeOK, DirectoryTyped
<1>4. Unborn'
  <2>1. \A d \in Callers : calls'[d].step # "idle" => users[calls'[d].key[1]].status # "none"
    BY <1>1 DEF AccessInv, Unborn
  <2> QED
    BY <1>2, <2>1 DEF AccessInv, Unborn
<1>5. NothingUnderWay'
  BY <1>1 DEF AccessInv, NothingUnderWay
<1>6. StaleIsExplained'
  BY <1>3, CacheStep
<1> QED
  BY <1>2, <1>3, <1>4, <1>5, <1>6 DEF AccessInv

LEMMA CallerKeeps ==
  ASSUME AccessInv, NEW c \in Callers,
         (\E k \in Wanted : LookUp(c, k)) \/ Serve(c) \/ CallFails(c)
  PROVE  AccessInv'
<1>1. /\ calls[c] \in Call /\ calls[c].key \in Keys
      /\ calls[c].context \in PermissionContext \cup {NoEntry}
      /\ budget \in [changes : 0 .. MaxChanges, failures : 0 .. MaxFailures]
  BY DEF AccessInv, TypeOK, Call
<1>2. calls[c].step # "idle" => users[calls[c].key[1]].status # "none"
  BY DEF AccessInv, Unborn
<1>3. Computed(calls[c].key[1], calls[c].key[2]) \in PermissionContext
  BY <1>1, ComputedType DEF AccessInv, Keys
<1>4. ASSUME NEW k \in Wanted, LookUp(c, k)
      PROVE  AccessInv'
  <2>1. k \in Keys
    BY AccessAssumption DEF Keys
  <2>2. /\ Proceeds(c, "missed", k, NoEntry) /\ users[k[1]].status # "none"
        /\ directory' = directory /\ creating' = creating /\ driver' = driver
        /\ cache' = cache /\ clearing' = clearing /\ suspect' = suspect /\ budget' = budget
    BY <1>4 DEF LookUp, Live
  <2> QED
    BY <1>1, <2>1, <2>2, CallKeeps
<1>5. CASE Derive(c)
  <2>1. /\ calls[c].step = "missed"
        /\ directory' = directory /\ creating' = creating /\ driver' = driver
        /\ clearing' = clearing /\ budget' = budget
    BY <1>5 DEF Derive
  <2>2. CASE driver = "memory"
    <3>1. /\ Written(calls[c].key, Computed(calls[c].key[1], calls[c].key[2]))
          /\ Proceeds(c, "idle", calls[c].key, NoEntry)
      BY <1>5, <2>2 DEF Derive
    <3> QED
      BY <1>3, <2>1, <3>1, WrittenKeeps
  <2>3. CASE driver # "memory"
    <3>1. /\ Proceeds(c, "storing", calls[c].key, Computed(calls[c].key[1], calls[c].key[2]))
          /\ cache' = cache /\ suspect' = suspect
      BY <1>5, <2>3 DEF Derive
    <3> QED
      BY <1>1, <1>2, <1>3, <2>1, <2>3, <3>1, CallKeeps
  <2> QED
    BY <2>2, <2>3
<1>6. CASE StoreEntry(c)
  <2>1. /\ calls[c].step = "storing"
        /\ Written(calls[c].key, calls[c].context)
        /\ Proceeds(c, "idle", calls[c].key, NoEntry)
        /\ directory' = directory /\ creating' = creating /\ driver' = driver
        /\ clearing' = clearing /\ budget' = budget
    BY <1>6 DEF StoreEntry
  <2>2. driver # "memory"
    BY <2>1 DEF AccessInv, NothingUnderWay
  <2> QED
    BY <1>1, <2>1, <2>2, WrittenKeeps
<1>7. CASE CallFails(c)
  <2>1. /\ calls[c].step # "idle" /\ Proceeds(c, "idle", calls[c].key, NoEntry)
        /\ directory' = directory /\ creating' = creating /\ driver' = driver
        /\ cache' = cache /\ clearing' = clearing /\ suspect' = suspect
        /\ budget' \in [changes : 0 .. MaxChanges, failures : 0 .. MaxFailures]
    BY <1>1, <1>7, AccessAssumption DEF CallFails, Fails
  <2> QED
    BY <1>1, <1>2, <2>1, CallKeeps
<1> QED
  BY <1>4, <1>5, <1>6, <1>7 DEF Serve

\* An entry disappears.
LEMMA GoneKeeps ==
  ASSUME AccessInv, NEW k \in Keys, Gone(k), directory' = directory, creating' = creating,
         driver' = driver, calls' = calls, budget' = budget,
         clearing' \in [Admins -> SUBSET Keys],
         \A a \in Admins, l \in Keys : l # k => (l \in clearing'[a] <=> l \in clearing[a]),
         \A a \in Admins : clearing'[a] \subseteq clearing[a]
  PROVE  AccessInv'
<1>1. /\ DirectoryTyped' /\ PrimaryAgrees' /\ RolesExist' /\ users' = users
  BY DirectoryStays
<1>2. /\ cache' \in [Keys -> PermissionContext \cup {NoEntry}]
      /\ cache'[k] = NoEntry /\ \A l \in Keys : l # k => cache'[l] = cache[l]
      /\ suspect' = suspect \ {k}
  BY DEF AccessInv, TypeOK, Gone
<1>3. TypeOK'
  BY <1>1, <1>2 DEF AccessInv, TypeOK, DirectoryTyped
<1>4. Unborn'
  <2>1. \A u \in Users, o \in Organizations : cache[<<u, o>>] = NoEntry => cache'[<<u, o>>] = NoEntry
    BY <1>2 DEF Keys
  <2> QED
    BY <1>1, <2>1 DEF AccessInv, Unborn
<1>5. NothingUnderWay'
  BY <1>2 DEF AccessInv, NothingUnderWay
<1>6. StaleIsExplained'
  BY <1>2, <1>3, CacheStep
<1> QED
  BY <1>1, <1>3, <1>4, <1>5, <1>6 DEF AccessInv

LEMMA CacheKeeps ==
  ASSUME AccessInv, NEW k \in Keys,
         \/ Expire(k)
         \/ \E a \in Admins : InvalidationLands(a, k) \/ InvalidationFails(a, k)
  PROVE  AccessInv'
<1>1. clearing \in [Admins -> SUBSET Keys]
  BY DEF AccessInv, TypeOK
<1>2. CASE Expire(k)
  BY <1>1, <1>2, GoneKeeps DEF Expire
<1>3. ASSUME NEW a \in Admins, InvalidationLands(a, k)
      PROVE  AccessInv'
  <2>1. /\ Gone(k) /\ directory' = directory /\ creating' = creating
        /\ driver' = driver /\ calls' = calls /\ budget' = budget
        /\ clearing' = [clearing EXCEPT ![a] = clearing[a] \ {k}]
    BY <1>3 DEF InvalidationLands
  <2>2. /\ clearing' \in [Admins -> SUBSET Keys]
        /\ \A b \in Admins, l \in Keys : l # k => (l \in clearing'[b] <=> l \in clearing[b])
        /\ \A b \in Admins : clearing'[b] \subseteq clearing[b]
    BY <1>1, <2>1
  <2> QED
    BY <2>1, <2>2, GoneKeeps
<1>4. ASSUME NEW a \in Admins, InvalidationFails(a, k)
      PROVE  AccessInv'
  <2>1. /\ driver = "remote" /\ directory' = directory /\ creating' = creating
        /\ driver' = driver /\ cache' = cache /\ calls' = calls
        /\ clearing' = [clearing EXCEPT ![a] = clearing[a] \ {k}]
        /\ suspect' = IF cache[k] = NoEntry THEN suspect ELSE suspect \cup {k}
        /\ budget' \in [changes : 0 .. MaxChanges, failures : 0 .. MaxFailures]
    BY <1>4, AccessAssumption DEF InvalidationFails, Fails, AccessInv, TypeOK
  <2>2. /\ clearing' \in [Admins -> SUBSET Keys]
        /\ \A b \in Admins, l \in Keys : l # k => (l \in clearing'[b] <=> l \in clearing[b])
    BY <1>1, <2>1
  <2>3. /\ DirectoryTyped' /\ PrimaryAgrees' /\ RolesExist' /\ users' = users
    BY <2>1, DirectoryStays
  <2>4. TypeOK'
    BY <2>1, <2>2, <2>3 DEF AccessInv, TypeOK, DirectoryTyped
  <2>5. Unborn' /\ NothingUnderWay'
    BY <2>1, <2>3 DEF AccessInv, Unborn, NothingUnderWay
  <2>6. StaleIsExplained'
    BY <2>1, <2>2, <2>4, CacheStep
  <2> QED
    BY <2>3, <2>4, <2>5, <2>6 DEF AccessInv
<1> QED
  BY <1>2, <1>3, <1>4

-----------------------------------------------------------------------------
(* New users and roles.                                                     *)

LEMMA CreateBeginKeeps ==
  ASSUME AccessInv, NEW u \in Users, NEW o \in Organizations, NEW r \in Roles, CreateBegin(u, o, r)
  PROVE  AccessInv'
<1>1. /\ users[u].status = "none" /\ roles[r].status = "enabled"
      /\ creating' = [creating EXCEPT ![u] = <<o, r>>]
      /\ driver' = driver /\ directory' = directory /\ cache' = cache /\ calls' = calls
      /\ clearing' = clearing /\ suspect' = suspect /\ budget' = budget
  BY DEF CreateBegin
<1>2. /\ DirectoryTyped' /\ PrimaryAgrees' /\ users' = users /\ LiveKeys' = LiveKeys
      /\ \A v \in Users, p \in Organizations : Computed(v, p)' = Computed(v, p)
  BY <1>1, DirectoryStays
<1>3. creating' \in [Users -> (Organizations \X Roles) \cup {NoCreation}]
  BY <1>1 DEF AccessInv, TypeOK
<1>4. TypeOK'
  BY <1>1, <1>2, <1>3 DEF AccessInv, TypeOK, DirectoryTyped
<1>5. \A v \in Users : v # u => creating'[v] = creating[v]
  BY <1>1 DEF AccessInv, TypeOK
<1>6. creating'[u] = <<o, r>>
  BY <1>1 DEF AccessInv, TypeOK
<1>7. RolesExist'
  <2>1. roles' = roles /\ bindings' = bindings
    BY <1>1 DEF directory
  <2>2. \A v \in Users : creating'[v] # NoCreation => roles[creating'[v][2]].status # "none"
    BY <1>1, <1>5, <1>6 DEF AccessInv, RolesExist
  <2> QED
    BY <2>1, <2>2 DEF AccessInv, RolesExist
<1>8. Unborn' /\ NothingUnderWay'
  BY <1>1, <1>2, <1>5 DEF AccessInv, Unborn, NothingUnderWay
<1>9. StaleIsExplained'
  BY <1>1, <1>2 DEF AccessInv, StaleIsExplained, Current, LiveKeys, Keys
<1> QED
  BY <1>2, <1>4, <1>7, <1>8, <1>9 DEF AccessInv

LEMMA CreateEndKeeps ==
  ASSUME AccessInv, NEW u \in Users, CreateEnd(u)
  PROVE  AccessInv'
<1>1. PICK o \in Organizations, r \in Roles : creating[u] = <<o, r>>
  BY DEF AccessInv, TypeOK, CreateEnd
<1>2. /\ users' = [users EXCEPT ![u] = [status |-> "live", primary |-> o]]
      /\ bindings' = Bound(u, o, r, TRUE)
      /\ creating' = [creating EXCEPT ![u] = NoCreation]
      /\ enabled' = enabled /\ roles' = roles /\ superRole' = superRole
      /\ organizations' = organizations /\ overrides' = overrides
      /\ driver' = driver /\ cache' = cache /\ calls' = calls
      /\ clearing' = clearing /\ suspect' = suspect /\ budget' = budget
  BY <1>1 DEF CreateEnd
<1>3. /\ bindings \in [Keys -> Binding] /\ users \in [Users -> User]
      /\ creating[u] # NoCreation /\ users[u].status = "none" /\ roles[r].status # "none"
  <2>1. creating[u] # NoCreation /\ creating[u][2] = r
    BY <1>1 DEF CreateEnd
  <2>2. roles[creating[u][2]].status # "none" /\ users[u].status = "none"
    BY <2>1 DEF AccessInv, RolesExist, Unborn
  <2> QED
    BY <2>1, <2>2 DEF AccessInv, TypeOK
<1>4. BindsOnly(bindings', u, o, r, TRUE)
  BY <1>2, <1>3, BoundFacts
<1>5. /\ users' \in [Users -> User] /\ users'[u].status = "live" /\ users'[u].primary = o
      /\ \A v \in Users \ {u} : users'[v] = users[v]
  BY <1>2, <1>3 DEF User
<1>6. /\ creating' \in [Users -> (Organizations \X Roles) \cup {NoCreation}]
      /\ \A v \in Users : creating'[v] # NoCreation => v # u /\ creating'[v] = creating[v]
  BY <1>2 DEF AccessInv, TypeOK
<1>7. \A k \in Keys : k = <<k[1], k[2]>> /\ k[1] \in Users /\ k[2] \in Organizations
  BY DEF Keys
<1>8. TypeOK'
  BY <1>2, <1>4, <1>5, <1>6 DEF AccessInv, TypeOK, BindsOnly
<1>9. PrimaryAgrees'
  <2> SUFFICES ASSUME NEW k \in Keys
               PROVE  PrimaryAgreesAt(k)'
    BY DEF PrimaryAgrees
  <2>1. PrimaryAgreesAt(k) /\ bindings[k] \in Binding
    BY <1>3 DEF AccessInv, PrimaryAgrees
  <2>2. CASE k[1] # u
    <3>1. bindings'[k].live = bindings[k].live /\ bindings'[k].primary = bindings[k].primary
      BY <1>4, <2>2 DEF BindsOnly
    <3>2. users'[k[1]] = users[k[1]]
      BY <1>5, <1>7, <2>2
    <3> QED
      BY <2>1, <3>1, <3>2 DEF PrimaryAgreesAt, Live, Binding
  <2>3. CASE k[1] = u /\ k[2] = o
    <3>1. bindings'[k].live = TRUE /\ bindings'[k].primary = TRUE
      BY <1>4, <1>7, <2>3 DEF BindsOnly
    <3> QED
      BY <1>5, <2>3, <3>1 DEF PrimaryAgreesAt, Live
  <2>4. CASE k[1] = u /\ k[2] # o
    <3>1. bindings[k].live = FALSE /\ bindings[k].primary = FALSE
      BY <1>3, <2>1, <2>4 DEF PrimaryAgreesAt, Live, Binding
    <3>2. bindings'[k].live = FALSE /\ bindings'[k].primary = FALSE
      BY <1>4, <2>4, <3>1 DEF BindsOnly
    <3> QED
      BY <3>2 DEF PrimaryAgreesAt
  <2> QED
    BY <2>2, <2>3, <2>4
<1>10. RolesExist'
  <2>1. ASSUME NEW k \in Keys, bindings'[k].role # NoRole
        PROVE  roles[bindings'[k].role].status # "none"
    <3>1. CASE k[1] = u /\ k[2] = o
      BY <1>3, <1>4, <1>7, <3>1 DEF BindsOnly
    <3>2. CASE ~(k[1] = u /\ k[2] = o)
      <4>1. bindings'[k].role = bindings[k].role
        BY <1>4, <3>2 DEF BindsOnly
      <4> QED
        BY <2>1, <4>1 DEF AccessInv, RolesExist
    <3> QED
      BY <3>1, <3>2
  <2>2. \A v \in Users : creating'[v] # NoCreation => roles[creating'[v][2]].status # "none"
    BY <1>6 DEF AccessInv, RolesExist
  <2> QED
    BY <1>2, <2>1, <2>2 DEF RolesExist
<1>11. Unborn'
  <2>1. \A v \in Users : /\ users'[v].status = "none" => users[v].status = "none"
                         /\ users[v].status # "none" => users'[v].status # "none"
                         /\ v # u => users'[v].status = users[v].status
    BY <1>3, <1>5
  <2>2. \A c \in Callers : calls[c].key[1] \in Users
    BY DEF AccessInv, TypeOK, Call, Keys
  <2> QED
    BY <1>2, <1>6, <2>1, <2>2 DEF AccessInv, Unborn
<1>12. NothingUnderWay'
  BY <1>2 DEF AccessInv, NothingUnderWay
<1>13. StaleIsExplained'
  <2> SUFFICES ASSUME NEW k \in LiveKeys'
               PROVE  Current(k)' \/ (k \in suspect)' \/ \E a \in Admins : (k \in clearing[a])'
    BY DEF StaleIsExplained
  <2>1. k \in Keys /\ users'[k[1]].status = "live" /\ k[2] \in LiveOrganizations
    BY <1>2 DEF LiveKeys, Live, LiveOrganizations
  <2>2. CASE k[1] = u
    <3>1. cache[<<u, k[2]>>] = NoEntry
      BY <1>3, <1>7, <2>1 DEF AccessInv, Unborn
    <3> QED
      BY <1>2, <1>7, <2>1, <2>2, <3>1 DEF Current
  <2>3. CASE k[1] # u
    <3>1. k \in LiveKeys
      BY <1>5, <1>7, <2>1, <2>3 DEF LiveKeys, Live
    <3>2. \A p \in Organizations : bindings'[<<k[1], p>>] = bindings[<<k[1], p>>]
      BY <1>4, <1>7, <2>1, <2>3 DEF BindsOnly, Keys
    <3>3. Computed(k[1], k[2])' = Computed(k[1], k[2])
      BY <1>2, <1>7, <2>1, <3>2, SameContext
    <3>4. Current(k)' <=> Current(k)
      BY <1>2, <3>3 DEF Current
    <3> QED
      BY <1>2, <3>1, <3>4 DEF AccessInv, StaleIsExplained
  <2> QED
    BY <2>2, <2>3
<1> QED
  BY <1>8, <1>9, <1>10, <1>11, <1>12, <1>13 DEF AccessInv

\* Nobody has a role that is only created now.
LEMMA NewRoleKeeps ==
  ASSUME AccessInv, NEW r \in Roles, NEW codes \in SUBSET Codes, NewRoleWith(r, codes),
         superRole' = superRole \/ (superRole = NoRole /\ superRole' = r)
  PROVE  AccessInv'
<1>1. /\ roles[r].status = "none" /\ roles' = [roles EXCEPT ![r] = [NewRole EXCEPT !.codes = codes]]
      /\ enabled' = enabled /\ organizations' = organizations
      /\ users' = users /\ bindings' = bindings /\ overrides' = overrides
      /\ creating' = creating /\ driver' = driver /\ cache' = cache /\ calls' = calls
      /\ clearing' = clearing /\ suspect' = suspect /\ budget' = budget
  BY DEF NewRoleWith
<1>2. [NewRole EXCEPT !.codes = codes] \in Role /\ [NewRole EXCEPT !.codes = codes].status = "enabled"
  BY DEF NewRole, Role
<1>3. /\ roles' \in [Roles -> Role] /\ roles'[r].status = "enabled"
      /\ \A q \in Roles \ {r} : roles'[q] = roles[q]
  BY <1>1, <1>2 DEF AccessInv, TypeOK
<1>4. superRole' \in Roles \cup {NoRole}
  BY DEF AccessInv, TypeOK
<1>5. TypeOK'
  BY <1>1, <1>3, <1>4 DEF AccessInv, TypeOK
<1>6. PrimaryAgrees'
  BY <1>1 DEF AccessInv, PrimaryAgrees, PrimaryAgreesAt, Live
<1>7. Unborn' /\ NothingUnderWay'
  BY <1>1 DEF AccessInv, Unborn, NothingUnderWay
<1>8. \A k \in Keys : bindings[k].role # NoRole => bindings[k].role \in Roles \ {r}
  <2>1. \A k \in Keys : bindings[k].role \in Roles \cup {NoRole}
    BY DEF AccessInv, TypeOK, Binding
  <2> QED
    BY <1>1, <2>1 DEF AccessInv, RolesExist
<1>9. RolesExist'
  <2>1. \A q \in Roles : roles[q].status # "none" => roles'[q].status # "none"
    BY <1>3
  <2>2. \A u \in Users : creating[u] # NoCreation => creating[u][2] \in Roles
    BY DEF AccessInv, TypeOK
  <2> QED
    BY <1>1, <1>8, <2>1, <2>2 DEF AccessInv, RolesExist
<1>10. StaleIsExplained'
  <2> SUFFICES ASSUME NEW k \in LiveKeys'
               PROVE  Current(k)' \/ (k \in suspect)' \/ \E a \in Admins : (k \in clearing[a])'
    BY DEF StaleIsExplained
  <2>1. k \in LiveKeys /\ k \in Keys /\ k[1] \in Users /\ k[2] \in Organizations
    BY <1>1 DEF LiveKeys, Live, LiveOrganizations, Keys
  <2>2. ASSUME NEW p \in Organizations, bindings[<<k[1], p>>].role # NoRole
        PROVE  /\ roles'[bindings[<<k[1], p>>].role] = roles[bindings[<<k[1], p>>].role]
               /\ bindings[<<k[1], p>>].role = superRole' <=> bindings[<<k[1], p>>].role = superRole
    <3>1. bindings[<<k[1], p>>].role \in Roles \ {r}
      BY <1>8, <2>1, <2>2 DEF Keys
    <3> QED
      BY <1>3, <2>2, <3>1
  <2>3. Computed(k[1], k[2])' = Computed(k[1], k[2])
    BY <1>1, <2>1, <2>2, SameContext
  <2>4. Current(k)' <=> Current(k)
    BY <1>1, <2>3 DEF Current
  <2> QED
    BY <1>1, <2>1, <2>4 DEF AccessInv, StaleIsExplained
<1> QED
  BY <1>5, <1>6, <1>7, <1>9, <1>10 DEF AccessInv

-----------------------------------------------------------------------------
(* The specification.                                                       *)

LEMMA InitHolds == Init => AccessInv
<1> SUFFICES ASSUME Init
             PROVE  AccessInv
  OBVIOUS
<1>1. PICK root \in Organizations, made \in SUBSET Organizations, admin \in Users :
        StartsWith(root, made, admin)
  <2>1. (CHOOSE u \in Users : TRUE) \in Users
    BY AccessAssumption
  <2> QED
    BY <2>1 DEF Init
<1>2. <<admin, root>> \in Keys /\ \A k \in Keys : k = <<k[1], k[2]>> /\ k[1] \in Users
  BY DEF Keys
<1>3. /\ SuperRole \in Roles /\ NoRole \notin Roles
      /\ BaseCodes \in SUBSET Codes
  BY AccessAssumption
<1>4. TypeOK
  <2>1. roles \in [Roles -> Role]
    BY <1>1, <1>3 DEF StartsWith, NewRole, Role
  <2>2. users \in [Users -> User] /\ bindings \in [Keys -> Binding]
    BY <1>1, <1>3 DEF StartsWith, User, Binding, Unbound
  <2>3. calls \in [Callers -> Call]
    BY <1>1, <1>2 DEF StartsWith, Call
  <2>4. enabled \in SUBSET Codes /\ overrides \in [Users -> [Codes -> Effects]]
    BY <1>1, <1>3 DEF StartsWith, Effects
  <2>5. budget \in [changes : 0 .. MaxChanges, failures : 0 .. MaxFailures]
    BY <1>1, AccessAssumption DEF StartsWith
  <2>6. /\ creating \in [Users -> (Organizations \X Roles) \cup {NoCreation}]
        /\ cache \in [Keys -> PermissionContext \cup {NoEntry}]
        /\ clearing \in [Admins -> SUBSET Keys] /\ suspect \in SUBSET Keys
        /\ organizations \in [Organizations -> {"none", "enabled", "disabled", "deleted"}]
    BY <1>1 DEF StartsWith
  <2> QED
    BY <1>1, <1>3, <2>1, <2>2, <2>3, <2>4, <2>5, <2>6 DEF StartsWith, TypeOK
<1>5. PrimaryAgrees
  <2> SUFFICES ASSUME NEW k \in Keys
               PROVE  PrimaryAgreesAt(k)
    BY DEF PrimaryAgrees
  <2>1. CASE k = <<admin, root>>
    <3>1. bindings[k].live = TRUE /\ bindings[k].primary = TRUE
      BY <1>1, <2>1 DEF StartsWith
    <3>2. users[k[1]].status = "live" /\ users[k[1]].primary = k[2]
      BY <1>1, <2>1 DEF StartsWith
    <3> QED
      BY <3>1, <3>2 DEF PrimaryAgreesAt, Live
  <2>2. CASE k # <<admin, root>>
    <3>1. bindings[k].live = FALSE /\ bindings[k].primary = FALSE
      BY <1>1, <2>2 DEF StartsWith, Unbound
    <3> QED
      BY <3>1 DEF PrimaryAgreesAt
  <2> QED
    BY <2>1, <2>2
<1>6. Unborn
  BY <1>1 DEF StartsWith, Unborn, Keys
<1>7. RolesExist
  <2>1. \A k \in Keys : bindings[k].role # NoRole => bindings[k].role = SuperRole
    BY <1>1 DEF StartsWith, Unbound
  <2>2. roles[SuperRole].status = "enabled"
    BY <1>1, <1>3 DEF StartsWith, NewRole
  <2> QED
    BY <1>1, <2>1, <2>2 DEF StartsWith, RolesExist
<1>8. NothingUnderWay
  BY <1>1 DEF StartsWith, NothingUnderWay
<1>9. StaleIsExplained
  BY <1>1 DEF StartsWith, StaleIsExplained, LiveKeys, Current
<1> QED
  BY <1>4, <1>5, <1>6, <1>7, <1>8, <1>9 DEF AccessInv

LEMMA UserKeeps ==
  ASSUME AccessInv, NEW a \in Admins, ChangeOfUser(a)
  PROVE  AccessInv'
BY AssignRoleKeeps, RemoveRoleKeeps, UpdateUserKeeps, TouchUserKeeps, DeleteUserKeeps,
   UpdateOverridesKeeps DEF ChangeOfUser

LEMMA RoleMade ==
  ASSUME AccessInv, NEW r \in Roles, CreateRole(r) \/ \E source \in Roles : CopyRole(r, source)
  PROVE  AccessInv'
<1>1. CASE CreateRole(r)
  <2>1. NewRoleWith(r, {}) /\ (superRole' = superRole \/ (superRole = NoRole /\ superRole' = r))
    BY <1>1 DEF CreateRole
  <2>2. {} \in SUBSET Codes
    OBVIOUS
  <2> QED
    BY <2>1, <2>2, NewRoleKeeps
<1>2. ASSUME NEW source \in Roles, CopyRole(r, source)
      PROVE  AccessInv'
  <2>1. /\ NewRoleWith(r, roles[source].codes \cap enabled) /\ superRole' = superRole
        /\ roles[source].codes \cap enabled \in SUBSET Codes
    BY <1>2 DEF CopyRole, AccessInv, TypeOK
  <2> QED
    BY <2>1, NewRoleKeeps
<1> QED
  BY <1>1, <1>2

LEMMA InvStays ==
  ASSUME AccessInv, [Next]_vars
  PROVE  AccessInv'
<1>1. ASSUME NEW c \in Callers, (\E k \in Wanted : LookUp(c, k)) \/ Serve(c) \/ CallFails(c)
      PROVE  AccessInv'
  BY <1>1, CallerKeeps
<1>2. ASSUME NEW k \in Keys, Expire(k)
      PROVE  AccessInv'
  BY <1>2, CacheKeeps
<1>3. ASSUME NEW a \in Admins,
             \/ Land(a) \/ \E k \in Keys : InvalidationFails(a, k)
             \/ ChangeOfUser(a) \/ ChangeOfRole(a) \/ ChangeOfAll(a)
      PROVE  AccessInv'
  <2>1. CASE Land(a) \/ \E k \in Keys : InvalidationFails(a, k)
    BY <2>1, CacheKeeps DEF Land
  <2>2. CASE ChangeOfUser(a)
    BY <2>2, UserKeeps
  <2>3. CASE ChangeOfRole(a)
    BY <2>3, ChangeOfRoleKeeps
  <2>4. CASE ChangeOfAll(a)
    BY <2>4, ChangeOfAllKeeps
  <2> QED
    BY <1>3, <2>1, <2>2, <2>3, <2>4
<1>4. ASSUME NEW u \in Users, \/ \E o \in Organizations, r \in Roles : CreateBegin(u, o, r)
                              \/ CreateEnd(u)
      PROVE  AccessInv'
  BY <1>4, CreateBeginKeeps, CreateEndKeeps
<1>5. ASSUME NEW r \in Roles, CreateRole(r) \/ \E source \in Roles : CopyRole(r, source)
      PROVE  AccessInv'
  BY <1>5, RoleMade
<1>6. CASE UNCHANGED vars
  <2>1. /\ directory' = directory /\ creating' = creating /\ driver' = driver /\ cache' = cache
        /\ calls' = calls /\ clearing' = clearing /\ suspect' = suspect /\ budget' = budget
    BY <1>6 DEF vars
  <2>2. /\ DirectoryTyped' /\ PrimaryAgrees' /\ RolesExist' /\ users' = users
    BY <2>1, DirectoryStays
  <2>3. TypeOK' /\ Unborn' /\ NothingUnderWay'
    BY <2>1, <2>2 DEF AccessInv, TypeOK, DirectoryTyped, Unborn, NothingUnderWay
  <2>4. StaleIsExplained'
    BY <2>1, <2>3, CacheStep
  <2> QED
    BY <2>2, <2>3, <2>4 DEF AccessInv
<1> QED
  BY <1>1, <1>2, <1>3, <1>4, <1>5, <1>6 DEF Next

\* The inductive invariant of permissions and their cache: what is cached and
\* wrong is about to be deleted, for any users, roles and callers.
THEOREM Invariance == Spec => []AccessInv
<1>1. AccessInv /\ [Next]_vars => AccessInv'
  BY InvStays
<1> QED
  BY InitHolds, <1>1, PTL DEF Spec

\* Roles, bindings, users, organizations and the cache keep their types.
THEOREM TypeCorrect == Spec => []TypeOK
<1>1. AccessInv => TypeOK
  BY DEF AccessInv
<1> QED
  BY Invariance, <1>1, PTL

\* A user and the user's bindings agree on the primary organization, for any
\* number of users, organizations and roles.
THEOREM PrimaryRecorded == Spec => []PrimaryAgrees
<1>1. AccessInv => PrimaryAgrees
  BY DEF AccessInv
<1> QED
  BY Invariance, <1>1, PTL

\* Every change deletes all the contexts it makes wrong, whatever the tree of
\* organizations and however many changes and requests overlap.
THEOREM ChangesDelete == Spec => []StaleIsExplained
<1>1. AccessInv => StaleIsExplained
  BY DEF AccessInv
<1> QED
  BY Invariance, <1>1, PTL

\* With the cache in memory no cached context is ever wrong.
THEOREM MemoryRight == Spec => []MemoryIsCurrent
<1>1. AccessInv => MemoryIsCurrent
  BY DEF AccessInv, NothingUnderWay, StaleIsExplained, MemoryIsCurrent
<1> QED
  BY Invariance, <1>1, PTL

\* All three at once: what the run of AccessControl checks.
THEOREM ContextsSound == Spec => []ContextsAreSound
<1>1. AccessInv => MemoryIsCurrent
  BY DEF AccessInv, NothingUnderWay, StaleIsExplained, MemoryIsCurrent
<1>2. AccessInv => ContextsAreSound
  BY <1>1 DEF AccessInv, ContextsAreSound
<1> QED
  BY Invariance, <1>2, PTL

-----------------------------------------------------------------------------
(* Requests: RequestHandling, for any modules and any change of the world. *)

\* A finite sequence, whatever its elements.
IsList(s) == s \in Seq({s[i] : i \in DOMAIN s})

LEMMA JoinedLists ==
  ASSUME NEW s, NEW t, IsList(s), IsList(t) PROVE IsList(s \o t)
<1> DEFINE S == {s[i] : i \in DOMAIN s} \cup {t[i] : i \in DOMAIN t}
<1>1. s \in Seq(S) /\ t \in Seq(S)
  <2>1. ASSUME NEW u, IsList(u), {u[i] : i \in DOMAIN u} \subseteq S PROVE u \in Seq(S)
    BY <2>1 DEF IsList
  <2> QED BY <2>1
<1> HIDE DEF S
<1>2. s \o t \in Seq(S)
  BY <1>1
<1> DEFINE st == s \o t
<1>3. st \in Seq({st[i] : i \in DOMAIN st})
  <2> HIDE DEF st
  <2>1. st \in Seq(S)
    BY <1>2 DEF st
  <2>2. DOMAIN st = 1 .. Len(st) /\ Len(st) \in Nat /\ \A i \in 1 .. Len(st) : st[i] \in {st[j] : j \in DOMAIN st}
    BY <2>1
  <2>3. st = [i \in 1 .. Len(st) |-> st[i]]
    BY <2>1
  <2> QED BY <2>2, <2>3, IsASeq
<1> QED BY <1>3 DEF IsList

LEMMA BaseApisAreListed == IsList(BaseApis)
<1>1. IsList(PublicApis)
  BY DEF IsList, PublicApis
<1>2. IsList(OwnApis)
  BY DEF IsList, OwnApis
<1>3. IsList(OrganizationApis)
  BY DEF IsList, OrganizationApis
<1>4. IsList(UserApis)
  BY DEF IsList, UserApis
<1>5. IsList(RoleApis)
  BY DEF IsList, RoleApis
<1>6. IsList(PermissionApis)
  BY DEF IsList, PermissionApis
<1>7. IsList(MenuApis)
  BY DEF IsList, MenuApis
<1>8. IsList(LogApis)
  BY DEF IsList, LogApis
<1>9. IsList(FileApis)
  BY DEF IsList, FileApis
<1>10. IsList(AnnouncementApis)
  BY DEF IsList, AnnouncementApis
<1>11. IsList(NotificationApis)
  BY DEF IsList, NotificationApis
<1>12. IsList(WebhookApis)
  BY DEF IsList, WebhookApis
<1>13. IsList(TaskApis)
  BY DEF IsList, TaskApis
<1> DEFINE l1 == PublicApis \o OwnApis
<1>14. IsList(l1)
  BY <1>1, <1>2, JoinedLists
<1> HIDE DEF l1
<1> DEFINE l2 == l1 \o OrganizationApis
<1>15. IsList(l2)
  BY <1>14, <1>3, JoinedLists
<1> HIDE DEF l2
<1> DEFINE l3 == l2 \o UserApis
<1>16. IsList(l3)
  BY <1>15, <1>4, JoinedLists
<1> HIDE DEF l3
<1> DEFINE l4 == l3 \o RoleApis
<1>17. IsList(l4)
  BY <1>16, <1>5, JoinedLists
<1> HIDE DEF l4
<1> DEFINE l5 == l4 \o PermissionApis
<1>18. IsList(l5)
  BY <1>17, <1>6, JoinedLists
<1> HIDE DEF l5
<1> DEFINE l6 == l5 \o MenuApis
<1>19. IsList(l6)
  BY <1>18, <1>7, JoinedLists
<1> HIDE DEF l6
<1> DEFINE l7 == l6 \o LogApis
<1>20. IsList(l7)
  BY <1>19, <1>8, JoinedLists
<1> HIDE DEF l7
<1> DEFINE l8 == l7 \o FileApis
<1>21. IsList(l8)
  BY <1>20, <1>9, JoinedLists
<1> HIDE DEF l8
<1> DEFINE l9 == l8 \o AnnouncementApis
<1>22. IsList(l9)
  BY <1>21, <1>10, JoinedLists
<1> HIDE DEF l9
<1> DEFINE l10 == l9 \o NotificationApis
<1>23. IsList(l10)
  BY <1>22, <1>11, JoinedLists
<1> HIDE DEF l10
<1> DEFINE l11 == l10 \o WebhookApis
<1>24. IsList(l11)
  BY <1>23, <1>12, JoinedLists
<1> HIDE DEF l11
<1> DEFINE l12 == l11 \o TaskApis
<1>25. IsList(l12)
  BY <1>24, <1>13, JoinedLists
<1> HIDE DEF l12
<1> QED BY <1>25 DEF BaseApis, l1, l2, l3, l4, l5, l6, l7, l8, l9, l10, l11, l12
\* A set of natural numbers that is not empty has a least element.
LEMMA LeastExists ==
  ASSUME NEW S, S \subseteq Nat, S # {}
  PROVE  \E m \in S : \A n \in S : m <= n
<1>1. PICK x \in S : TRUE
  OBVIOUS
<1> DEFINE Upto == 0 .. x
           Starts == {0 .. m : m \in S \cap Upto}
<1>2. IsFiniteSet(Upto)
  BY FS_Interval
<1>3. IsWellFoundedOn(StrictSubsetOrdering(Upto), SUBSET Upto)
  <2> HIDE DEF Upto
  <2> QED BY <1>2, FS_StrictSubsetOrderingWellFounded, FS_FiniteSubsetsOfFinite
<1>4. Starts \subseteq SUBSET Upto
  OBVIOUS
<1>5. 0 .. x \in Starts
  OBVIOUS
<1> HIDE DEF Starts, Upto
<1>6. PICK s \in Starts : \A t \in Starts : ~ (<<t, s>> \in StrictSubsetOrdering(Upto))
  BY <1>3, <1>4, <1>5, WFMin
<1> USE DEF Starts, Upto
<1>7. PICK m \in S \cap Upto : s = 0 .. m
  BY <1>6
<1>8. ASSUME NEW n \in S, n < m PROVE FALSE
  <2>1. 0 .. n \in Starts
    BY <1>7, <1>8
  <2>2. <<0 .. n, s>> \in StrictSubsetOrdering(Upto)
    BY <1>7, <1>8 DEF StrictSubsetOrdering
  <2> QED BY <1>6, <2>1, <2>2
<1> QED BY <1>7, <1>8


\* What is found is an entry that answers the request.
LEMMA FoundAnswers ==
  ASSUME NEW method, NEW path, FindApiPermission(method, path) # <<>>
  PROVE  /\ FindApiPermission(method, path)[1] \in Entries
         /\ Answers(FindApiPermission(method, path)[1], method, path)
<1> DEFINE base == FirstFor(BaseApis, method, path)
           release == {a \in ModuleEntries : Answers(a, method, path)}
           found == {i \in DOMAIN BaseApis : Answers(BaseApis[i], method, path)}
<1>1. CASE base # <<>>
  <2>1. found # {}
    BY <1>1 DEF FirstFor
  <2>2. found \subseteq Nat
    BY BaseApisAreListed DEF IsList
  <2>3. \E i \in found : \A j \in found : i <= j
    <3> HIDE DEF found
    <3> QED BY <2>1, <2>2, LeastExists
  <2>4. PICK i \in found : base = <<BaseApis[i]>>
    <3> DEFINE i == CHOOSE k \in found : \A j \in found : k <= j
    <3>1. i \in found
      BY <2>3
    <3>2. base = <<BaseApis[i]>>
      BY <2>1 DEF FirstFor
    <3> QED BY <3>1, <3>2
  <2>5. FindApiPermission(method, path)[1] = BaseApis[i]
    BY <1>1, <2>4 DEF FindApiPermission
  <2> QED BY <2>4, <2>5 DEF Entries
<1>2. CASE base = <<>>
  <2>1. release # {} /\ FindApiPermission(method, path) = <<CHOOSE a \in release : TRUE>>
    BY <1>2 DEF FindApiPermission
  <2>2. (CHOOSE a \in release : TRUE) \in release
    BY <2>1
  <2> QED BY <2>1, <2>2 DEF Entries
<1> QED BY <1>1, <1>2

-----------------------------------------------------------------------------
\* The entry of the request.
Found == FindApiPermission(request.method, request.path)

RequestTyped ==
  /\ request \in Endpoints
  /\ world \in [session : BOOLEAN, mustChange : BOOLEAN, held : SUBSET Relevant(request),
                active : SUBSET Activating(request), vouching : SUBSET Answering(request),
                references : ReferenceLists]

\* All that the database says has been seen.
WorldIsSeen ==
  /\ world.session \in seen.session /\ world.mustChange \in seen.mustChange
  /\ world.held \subseteq seen.held /\ Relevant(request) \ world.held \subseteq seen.lacked
  /\ world.active \subseteq seen.active /\ world.vouching \subseteq seen.vouching

\* A request that came past the first middleware is of an active module.
ActivationWasSeen ==
  phase \notin {"arrived", "not synchronized"} => ModuleOfPath(request.path) \subseteq seen.active

\* One that waits for an answer has a caller that is signed in and may go on.
CallerWasSeen ==
  phase \in {"permission", "content", "references", "examining", "vouching"} =>
    /\ Found # <<>> /\ TRUE \in seen.session
    /\ FALSE \in seen.mustChange \/ Found[1].code \in PasswordLifecycle

\* What it waits for is the permission of its entry.
WaitsForItsPermission ==
  phase = "permission" =>
    waiting = Found[1].permission /\ waiting \in Relevant(request) /\ ~IsFileContent(request)

\* Only a file's content has references, and they are asked only for a caller
\* without the file's permission.
ContentIsExamined ==
  /\ phase \in {"content", "references", "examining", "vouching"} =>
       IsFileContent(request) /\ HandlerOf(request) # <<>>
  /\ phase \in {"references", "examining", "vouching"} =>
       FilePermission[request.path[3]] \in seen.lacked
  /\ phase \in {"examining", "vouching"} =>
       /\ unread \in Seq(References)
       /\ \A i \in 1 .. Len(unread) : \E j \in DOMAIN world.references : unread[i] = world.references[j]
  /\ phase = "vouching" =>
       unread # <<>> /\ Head(unread).active /\ Head(unread).module \in seen.active

RequestInv ==
  /\ RequestTyped /\ WorldIsSeen /\ ActivationWasSeen /\ CallerWasSeen
  /\ WaitsForItsPermission /\ ContentIsExamined /\ RequestsAreSound

\* The tables' promise for the request.
LEMMA TablesForRequest ==
  ASSUME RequestTyped
  PROVE  /\ HandlerOf(request) # <<>> =>
              /\ Found # <<>> /\ Found[1] \in EntriesOf(HandlerOf(request)[1])
              /\ HandlerOf(request)[1].reads # NoBody =>
                   <<Found[1].code, HandlerOf(request)[1].reads>> \in RequestSchemas
              /\ HandlerOf(request)[1].reads = NoBody =>
                   \A s \in RequestSchemas : s[1] # Found[1].code
         /\ HandlerOf(request) = <<>> =>
              \A e \in {BaseApis[i] : i \in DOMAIN BaseApis} :
                ~Answers(e, request.method, request.path)
         /\ IsFileContent(request) =>
              Found # <<>> /\ Found[1].permission = FilePermission[request.path[3]]
BY TablesAgree DEF RequestTyped, Found

\* The permission of an entry that needs one matters to its request.
LEMMA FoundIsRelevant ==
  ASSUME Found # <<>>, Found[1].permission \notin {Public, SignedIn}
  PROVE  Found[1].permission \in Relevant(request)
BY FoundAnswers DEF Found, Relevant

\* A file's permission is one, and is neither of the two words.
LEMMA FileIsGuarded ==
  ASSUME RequestTyped, IsFileContent(request)
  PROVE  /\ Found[1].permission = FilePermission[request.path[3]]
         /\ FilePermission[request.path[3]] \notin {Public, SignedIn}
         /\ FilePermission[request.path[3]] \in Relevant(request)
<1>1. Found # <<>> /\ Found[1].permission = FilePermission[request.path[3]]
  BY TablesForRequest
<1>2. FilePermission[request.path[3]] \notin {Public, SignedIn}
  <2>1. request.path[3] = "download" \/ request.path[3] = "preview"
    BY DEF IsFileContent, FilePermission
  <2>2. FilePermission["download"] = "file:download" /\ FilePermission["preview"] = "file:preview"
    BY DEF FilePermission
  <2> QED BY <2>1, <2>2 DEF Public, SignedIn
<1> QED BY <1>1, <1>2, FoundIsRelevant

-----------------------------------------------------------------------------
LEMMA RequestInvInit == RequestInit => RequestInv
<1> SUFFICES ASSUME RequestInit PROVE RequestInv
  OBVIOUS
<1>1. request \in Endpoints /\ phase = "arrived" /\ seen = Seen(world)
  BY DEF RequestInit
<1>2. world.references \in ReferenceLists /\ RequestTyped
  <2>1. <<>> \in ReferenceLists
    <3>1. <<>> \in [1 .. 0 -> References] /\ 0 \in 0 .. MaxReferences
      BY RequestBounds
    <3> QED BY <3>1 DEF ReferenceLists
  <2> QED BY <2>1 DEF RequestInit, RequestTyped
<1>3. WorldIsSeen
  BY <1>1 DEF WorldIsSeen, Seen
<1> QED BY <1>1, <1>2, <1>3 DEF RequestInv, ActivationWasSeen, CallerWasSeen,
       WaitsForItsPermission, ContentIsExamined, RequestsAreSound

\* A step to the next phase: what is said of the world and of what was seen of it
\* stays true.
LEMMA MoveKeeps ==
  ASSUME RequestInv, NEW to, Moves(to)
  PROVE  /\ RequestTyped' /\ WorldIsSeen' /\ phase' = to
         /\ request' = request /\ world' = world /\ seen' = seen
BY DEF Moves, RequestInv, RequestTyped, WorldIsSeen, Relevant, Activating, Answering, Seen,
       ReferenceLists, References

\* Where the router sends a request that may be served.
LEMMA DispatchIsSound ==
  ASSUME RequestInv, NEW session \in BOOLEAN, Moves(Dispatched(session)),
         phase \in {"activated", "permission"}, ModuleOfPath(request.path) \subseteq seen.active,
         session => /\ Found # <<>> /\ TRUE \in seen.session
                    /\ FALSE \in seen.mustChange \/ Found[1].code \in PasswordLifecycle,
         session /\ ~IsFileContent(request) => Found[1].permission \in {SignedIn} \cup seen.held,
         ~session /\ Found # <<>> => Found[1].permission = Public
  PROVE  RequestInv'
<1>1. RequestTyped' /\ WorldIsSeen' /\ request' = request /\ world' = world /\ seen' = seen
      /\ phase' = Dispatched(session)
  BY MoveKeeps
<1>2. ActivationWasSeen'
  BY <1>1 DEF ActivationWasSeen
<1>3. RequestTyped
  BY DEF RequestInv
<1>4. phase' \in {"not found", "no session", "content", "handled"}
  BY <1>1 DEF Dispatched
<1>5. phase' = "not found" => HandlerOf(request) = <<>>
  BY <1>1 DEF Dispatched
<1>6. phase' = "content" => IsFileContent(request) /\ HandlerOf(request) # <<>> /\ session
  <2> SUFFICES ASSUME phase' = "content" PROVE IsFileContent(request) /\ HandlerOf(request) # <<>> /\ session
    OBVIOUS
  <2>1. IsFileContent(request) /\ HandlerOf(request) # <<>>
    BY <1>1 DEF Dispatched
  <2> QED BY <2>1, <1>3, FileIsGuarded, TablesForRequest
<1>7. phase' = "handled" =>
        /\ HandlerOf(request) # <<>> /\ ~IsFileContent(request)
        /\ HandlerOf(request)[1].own => session
  BY <1>1 DEF Dispatched
<1>8. CallerWasSeen'
  BY <1>1, <1>4, <1>6 DEF CallerWasSeen, Found
<1>9. WaitsForItsPermission' /\ ContentIsExamined'
  BY <1>1, <1>4, <1>6 DEF WaitsForItsPermission, ContentIsExamined
<1>10. RequestsAreSound'
  <2>1. phase' = "handled" =>
          LET handler == HandlerOf(request)[1]
          IN \E e \in EntriesOf(handler) :
               /\ (handler.reads # NoBody => <<e.code, handler.reads>> \in RequestSchemas)
               /\ (handler.reads = NoBody => \A s \in RequestSchemas : s[1] # e.code)
               /\ \/ e.permission = Public /\ ~handler.own
                  \/ /\ TRUE \in seen.session
                     /\ FALSE \in seen.mustChange \/ e.code \in PasswordLifecycle
                     /\ \/ e.permission \in {SignedIn} \cup seen.held
                        \/ IsFileContent(request) /\ Vouched
    <3> SUFFICES ASSUME phase' = "handled"
                 PROVE  \E e \in EntriesOf(HandlerOf(request)[1]) :
                          /\ (HandlerOf(request)[1].reads # NoBody =>
                                <<e.code, HandlerOf(request)[1].reads>> \in RequestSchemas)
                          /\ (HandlerOf(request)[1].reads = NoBody =>
                                \A s \in RequestSchemas : s[1] # e.code)
                          /\ \/ e.permission = Public /\ ~HandlerOf(request)[1].own
                             \/ /\ TRUE \in seen.session
                                /\ FALSE \in seen.mustChange \/ e.code \in PasswordLifecycle
                                /\ \/ e.permission \in {SignedIn} \cup seen.held
                                   \/ IsFileContent(request) /\ Vouched
      OBVIOUS
    <3>1. Found # <<>> /\ Found[1] \in EntriesOf(HandlerOf(request)[1])
      BY <1>3, <1>7, TablesForRequest
    <3>2. \/ Found[1].permission = Public /\ ~HandlerOf(request)[1].own
          \/ /\ TRUE \in seen.session
             /\ FALSE \in seen.mustChange \/ Found[1].code \in PasswordLifecycle
             /\ Found[1].permission \in {SignedIn} \cup seen.held
      BY <1>7, <3>1
    <3> QED BY <1>3, <1>7, <3>1, <3>2, TablesForRequest
  <2>2. phase' = "not found" =>
          \A e \in {BaseApis[i] : i \in DOMAIN BaseApis} : ~Answers(e, request.method, request.path)
    BY <1>3, <1>5, TablesForRequest
  <2> QED BY <1>1, <1>4, <2>1, <2>2 DEF RequestsAreSound, Vouched
<1> QED BY <1>1, <1>2, <1>8, <1>9, <1>10 DEF RequestInv

LEMMA CheckActivationKeeps == RequestInv /\ CheckActivation => RequestInv'
<1> SUFFICES ASSUME RequestInv, CheckActivation PROVE RequestInv'
  OBVIOUS
<1>1. RequestTyped' /\ WorldIsSeen' /\ request' = request /\ world' = world /\ seen' = seen
  BY MoveKeeps DEF CheckActivation
<1>2. phase' = IF ModuleOfPath(request.path) \subseteq world.active
               THEN "activated" ELSE "not synchronized"
  BY DEF CheckActivation, Moves
<1>3. ActivationWasSeen'
  BY <1>1, <1>2 DEF ActivationWasSeen, WorldIsSeen
<1> QED BY <1>1, <1>2, <1>3 DEF RequestInv, CallerWasSeen, WaitsForItsPermission,
       ContentIsExamined, RequestsAreSound, ActivationWasSeen

LEMMA AuthorizeKeeps == RequestInv /\ Authorize => RequestInv'
<1> SUFFICES ASSUME RequestInv, Authorize PROVE RequestInv'
  OBVIOUS
<1> DEFINE asked == IF Found = <<>> THEN SignedIn ELSE AskedFor(request, Found[1])
<1>1. phase = "activated" /\ ModuleOfPath(request.path) \subseteq seen.active
      /\ RequestTyped /\ WorldIsSeen
  BY DEF Authorize, RequestInv, ActivationWasSeen
<1>2. ASSUME Found = <<>> \/ Found[1].permission = Public, Moves(Dispatched(FALSE))
      PROVE  RequestInv'
  BY <1>1, <1>2, DispatchIsSound
<1>3. ASSUME NEW to \in {"no session", "change password"}, Moves(to)
      PROVE  RequestInv'
  BY <1>1, <1>3, MoveKeeps DEF RequestInv, ActivationWasSeen, CallerWasSeen,
       WaitsForItsPermission, ContentIsExamined, RequestsAreSound
<1>4. ASSUME Found # <<>>, Found[1].permission # Public, world.session = TRUE,
             world.mustChange = FALSE \/ Found[1].code \in PasswordLifecycle
      PROVE  TRUE \in seen.session /\ (FALSE \in seen.mustChange \/ Found[1].code \in PasswordLifecycle)
  BY <1>1, <1>4 DEF WorldIsSeen
<1>5. ASSUME Found # <<>>, Found[1].permission # Public, world.session = TRUE,
             world.mustChange = FALSE \/ Found[1].code \in PasswordLifecycle,
             asked = SignedIn, Moves(Dispatched(TRUE))
      PROVE  RequestInv'
  <2>1. ~IsFileContent(request) => Found[1].permission = SignedIn
    BY <1>5 DEF AskedFor
  <2> QED BY <1>1, <1>4, <1>5, <2>1, DispatchIsSound
<1>6. ASSUME Found # <<>>, Found[1].permission # Public, world.session = TRUE,
             world.mustChange = FALSE \/ Found[1].code \in PasswordLifecycle,
             asked # SignedIn, Moves("permission"), waiting' = asked
      PROVE  RequestInv'
  <2>1. ~IsFileContent(request) /\ asked = Found[1].permission
    BY <1>6 DEF AskedFor
  <2>2. asked \in Relevant(request)
    BY <1>6, <2>1, FoundIsRelevant
  <2>3. RequestTyped' /\ WorldIsSeen' /\ phase' = "permission" /\ request' = request
        /\ world' = world /\ seen' = seen
    BY <1>6, MoveKeeps
  <2>4. CallerWasSeen'
    BY <1>4, <1>6, <2>3 DEF CallerWasSeen, Found
  <2>5. WaitsForItsPermission'
    <3> HIDE DEF asked
    <3> QED BY <1>6, <2>1, <2>2, <2>3 DEF WaitsForItsPermission, Found
  <2> QED BY <1>1, <2>3, <2>4, <2>5 DEF RequestInv, ActivationWasSeen, ContentIsExamined,
         RequestsAreSound
<1>7. world.session \in BOOLEAN /\ world.mustChange \in BOOLEAN
  BY <1>1 DEF RequestTyped
<1>8. IF Found = <<>> \/ (Found # <<>> /\ Found[1].permission = Public)
      THEN Moves(Dispatched(FALSE))
      ELSE IF ~world.session THEN Moves("no session")
      ELSE IF world.mustChange /\ Found[1].code \notin PasswordLifecycle
      THEN Moves("change password")
      ELSE IF asked = SignedIn THEN Moves(Dispatched(TRUE))
      ELSE Moves("permission") /\ waiting' = asked
  BY DEF Authorize, Found
<1> HIDE DEF asked
<1> QED BY <1>2, <1>3, <1>5, <1>6, <1>7, <1>8

LEMMA CheckPermissionKeeps == RequestInv /\ CheckPermission => RequestInv'
<1> SUFFICES ASSUME RequestInv, CheckPermission PROVE RequestInv'
  OBVIOUS
<1>1. /\ phase = "permission" /\ RequestTyped /\ WorldIsSeen
      /\ ModuleOfPath(request.path) \subseteq seen.active
      /\ Found # <<>> /\ TRUE \in seen.session
      /\ FALSE \in seen.mustChange \/ Found[1].code \in PasswordLifecycle
      /\ waiting = Found[1].permission /\ waiting \in Relevant(request) /\ ~IsFileContent(request)
  BY DEF CheckPermission, RequestInv, ActivationWasSeen, CallerWasSeen, WaitsForItsPermission
<1>2. CASE waiting \in world.held
  <2>1. Moves(Dispatched(TRUE)) /\ Found[1].permission \in seen.held
    BY <1>1, <1>2 DEF CheckPermission, WorldIsSeen
  <2> QED BY <1>1, <2>1, DispatchIsSound
<1>3. CASE waiting \notin world.held
  <2>1. RequestTyped' /\ WorldIsSeen' /\ phase' = "denied" /\ request' = request
        /\ world' = world /\ seen' = seen
    BY <1>3, MoveKeeps DEF CheckPermission
  <2>2. Found[1].permission \in seen.lacked
    BY <1>1, <1>3 DEF WorldIsSeen
  <2>3. HandlerOf(request) # <<>> => Found[1] \in EntriesOf(HandlerOf(request)[1])
    BY <1>1, TablesForRequest
  <2>4. RequestsAreSound'
    BY <1>1, <2>1, <2>2, <2>3 DEF RequestsAreSound, Found
  <2> QED BY <1>1, <2>1, <2>4 DEF RequestInv, ActivationWasSeen, CallerWasSeen,
         WaitsForItsPermission, ContentIsExamined
<1> QED BY <1>2, <1>3

\* The end of the examination of a file's content.
LEMMA ContentIsServed ==
  ASSUME RequestInv, phase \in {"content", "vouching"}, Moves("handled"),
         FilePermission[request.path[3]] \in seen.held \/ Vouched
  PROVE  RequestInv'
<1>1. /\ RequestTyped /\ ModuleOfPath(request.path) \subseteq seen.active
      /\ IsFileContent(request) /\ HandlerOf(request) # <<>>
      /\ Found # <<>> /\ TRUE \in seen.session
      /\ FALSE \in seen.mustChange \/ Found[1].code \in PasswordLifecycle
  BY DEF RequestInv, ActivationWasSeen, CallerWasSeen, ContentIsExamined
<1>2. RequestTyped' /\ WorldIsSeen' /\ phase' = "handled" /\ request' = request
      /\ world' = world /\ seen' = seen
  BY MoveKeeps
<1>3. Found[1].permission = FilePermission[request.path[3]]
  BY <1>1, FileIsGuarded
<1>4. RequestsAreSound'
  <2> SUFFICES ASSUME TRUE
               PROVE  \E e \in EntriesOf(HandlerOf(request)[1]) :
                        /\ (HandlerOf(request)[1].reads # NoBody =>
                              <<e.code, HandlerOf(request)[1].reads>> \in RequestSchemas)
                        /\ (HandlerOf(request)[1].reads = NoBody =>
                              \A s \in RequestSchemas : s[1] # e.code)
                        /\ TRUE \in seen.session
                        /\ FALSE \in seen.mustChange \/ e.code \in PasswordLifecycle
                        /\ \/ e.permission \in {SignedIn} \cup seen.held
                           \/ IsFileContent(request) /\ Vouched
    BY <1>1, <1>2 DEF RequestsAreSound, Vouched
  <2> QED BY <1>1, <1>3, TablesForRequest
<1> QED BY <1>1, <1>2, <1>4 DEF RequestInv, ActivationWasSeen, CallerWasSeen,
       WaitsForItsPermission, ContentIsExamined

\* A step that goes on examining.
LEMMA ContentGoesOn ==
  ASSUME RequestInv, phase \in {"content", "references", "examining", "vouching"},
         NEW to \in {"references", "examining", "vouching"}, Moves(to),
         ContentIsExamined'
  PROVE  RequestInv'
BY MoveKeeps DEF RequestInv, ActivationWasSeen, CallerWasSeen, Found, WaitsForItsPermission,
     RequestsAreSound

LEMMA CheckFilePermissionKeeps == RequestInv /\ CheckFilePermission => RequestInv'
<1> SUFFICES ASSUME RequestInv, CheckFilePermission PROVE RequestInv'
  OBVIOUS
<1> DEFINE needed == FilePermission[request.path[3]]
<1>1. phase = "content" /\ RequestTyped /\ WorldIsSeen /\ IsFileContent(request)
      /\ HandlerOf(request) # <<>>
  BY DEF CheckFilePermission, RequestInv, ContentIsExamined
<1>2. needed \in Relevant(request)
  BY <1>1, FileIsGuarded
<1> HIDE DEF needed
<1>3. Moves(IF needed \in world.held THEN "handled" ELSE "references")
  BY DEF CheckFilePermission, needed
<1>4. CASE needed \in world.held
  BY <1>1, <1>3, <1>4, ContentIsServed DEF WorldIsSeen, needed
<1>5. CASE needed \notin world.held
  <2>1. Moves("references") /\ needed \in seen.lacked
    BY <1>1, <1>2, <1>3, <1>5 DEF WorldIsSeen
  <2>2. ContentIsExamined'
    BY <1>1, <2>1 DEF ContentIsExamined, Moves, needed
  <2> QED BY <1>1, <2>1, <2>2, ContentGoesOn
<1> QED BY <1>4, <1>5

LEMMA ReadReferencesKeeps == RequestInv /\ ReadReferences => RequestInv'
<1> SUFFICES ASSUME RequestInv, ReadReferences PROVE RequestInv'
  OBVIOUS
<1>1. phase = "references" /\ RequestTyped /\ ContentIsExamined /\ Moves("examining")
      /\ unread' = world.references
  BY DEF ReadReferences, RequestInv
<1>2. world.references \in Seq(References) /\ DOMAIN world.references = 1 .. Len(world.references)
  <2>1. PICK n \in 0 .. MaxReferences : world.references \in [1 .. n -> References]
    BY <1>1 DEF RequestTyped, ReferenceLists
  <2> QED BY <2>1, RequestBounds
<1>3. ContentIsExamined'
  BY <1>1, <1>2 DEF ContentIsExamined, Moves
<1> QED BY <1>1, <1>3, ContentGoesOn

\* What is left of the references, one of them read.
LEMMA RestIsUnread ==
  ASSUME unread \in Seq(References), unread # <<>>,
         \A i \in 1 .. Len(unread) : \E j \in DOMAIN world.references : unread[i] = world.references[j]
  PROVE  /\ Tail(unread) \in Seq(References)
         /\ \A i \in 1 .. Len(Tail(unread)) :
              \E j \in DOMAIN world.references : Tail(unread)[i] = world.references[j]
OBVIOUS

LEMMA AskModuleKeeps == RequestInv /\ AskModule => RequestInv'
<1> SUFFICES ASSUME RequestInv, AskModule PROVE RequestInv'
  OBVIOUS
<1>1. phase = "examining" /\ RequestTyped /\ WorldIsSeen /\ ContentIsExamined
      /\ ActivationWasSeen
  BY DEF AskModule, RequestInv
<1>2. CASE unread = <<>>
  <2>1. Moves("denied")
    BY <1>2 DEF AskModule
  <2>2. RequestTyped' /\ WorldIsSeen' /\ phase' = "denied" /\ request' = request
        /\ world' = world /\ seen' = seen
    BY <2>1, MoveKeeps
  <2>3. Found[1].permission \in seen.lacked /\ HandlerOf(request) # <<>>
    BY <1>1, FileIsGuarded DEF ContentIsExamined
  <2>4. Found[1] \in EntriesOf(HandlerOf(request)[1])
    BY <1>1, <2>3, TablesForRequest
  <2>5. RequestsAreSound'
    BY <1>1, <2>2, <2>3, <2>4 DEF RequestsAreSound, Found, ActivationWasSeen
  <2> QED BY <1>1, <2>2, <2>5 DEF RequestInv, ActivationWasSeen, CallerWasSeen,
         WaitsForItsPermission, ContentIsExamined
<1>3. CASE unread # <<>> /\ Head(unread).active /\ Head(unread).module \in world.active
  <2>1. Moves("vouching") /\ unread' = unread
    BY <1>3 DEF AskModule
  <2>2. ContentIsExamined'
    BY <1>1, <1>3, <2>1 DEF ContentIsExamined, Moves, WorldIsSeen
  <2> QED BY <1>1, <2>1, <2>2, ContentGoesOn
<1>4. CASE unread # <<>> /\ ~(Head(unread).active /\ Head(unread).module \in world.active)
  <2>1. Moves("examining") /\ unread' = Tail(unread)
    BY <1>4 DEF AskModule
  <2>2. ContentIsExamined'
    BY <1>1, <1>4, <2>1, RestIsUnread DEF ContentIsExamined, Moves
  <2> QED BY <1>1, <2>1, <2>2, ContentGoesOn
<1> QED BY <1>2, <1>3, <1>4

LEMMA AskAuthorizerKeeps == RequestInv /\ AskAuthorizer => RequestInv'
<1> SUFFICES ASSUME RequestInv, AskAuthorizer PROVE RequestInv'
  OBVIOUS
<1> DEFINE reference == Head(unread)
           answered == /\ reference.type \in Attachments[reference.module]
                       /\ reference.module \in world.vouching
<1>1. phase = "vouching" /\ RequestTyped /\ WorldIsSeen /\ ContentIsExamined
      /\ unread \in Seq(References) /\ unread # <<>>
  BY DEF AskAuthorizer, RequestInv, ContentIsExamined
<1>2. CASE answered
  <2>1. Moves("handled")
    BY <1>2 DEF AskAuthorizer
  <2>2. PICK j \in DOMAIN world.references : reference = world.references[j]
    BY <1>1 DEF ContentIsExamined
  <2>3. reference.active /\ reference.module \in seen.active /\ reference.module \in seen.vouching
    BY <1>1, <1>2 DEF ContentIsExamined, WorldIsSeen
  <2>4. Vouched
    BY <1>2, <2>2, <2>3 DEF Vouched
  <2> QED BY <1>1, <2>1, <2>4, ContentIsServed
<1>3. CASE ~answered
  <2>1. Moves("examining") /\ unread' = Tail(unread)
    BY <1>3 DEF AskAuthorizer
  <2>2. ContentIsExamined'
    BY <1>1, <2>1, RestIsUnread DEF ContentIsExamined, Moves
  <2> QED BY <1>1, <2>1, <2>2, ContentGoesOn
<1> QED BY <1>2, <1>3

\* Whatever changes, what was seen is only more.
LEMMA WorldChangesKeeps == RequestInv /\ WorldChanges => RequestInv'
<1> SUFFICES ASSUME RequestInv, WorldChanges PROVE RequestInv'
  OBVIOUS
<1>1. /\ phase \in Serving /\ UNCHANGED <<request, phase, waiting, unread>>
      /\ seen' = Remember(world') /\ RequestTyped
  BY DEF WorldChanges, RequestInv
<1>2. /\ world' \in [session : BOOLEAN, mustChange : BOOLEAN, held : SUBSET Relevant(request),
                     active : SUBSET Activating(request), vouching : SUBSET Answering(request),
                     references : ReferenceLists]
      /\ world'.references = world.references
  <2>1. CASE world' = [world EXCEPT !.session = FALSE]
    BY <1>1, <2>1 DEF RequestTyped
  <2>2. ASSUME NEW p \in Relevant(request),
               world' = [world EXCEPT !.held = IF p \in @ THEN @ \ {p} ELSE @ \cup {p}]
        PROVE  <1>2!:
    BY <1>1, <2>2 DEF RequestTyped
  <2>3. ASSUME NEW m \in Activating(request),
               world' = [world EXCEPT !.active = IF m \in @ THEN @ \ {m} ELSE @ \cup {m}]
        PROVE  <1>2!:
    BY <1>1, <2>3 DEF RequestTyped
  <2>4. ASSUME NEW m \in Answering(request),
               world' = [world EXCEPT !.vouching = IF m \in @ THEN @ \ {m} ELSE @ \cup {m}]
        PROVE  <1>2!:
    BY <1>1, <2>4 DEF RequestTyped
  <2> QED BY <2>1, <2>2, <2>3, <2>4 DEF WorldChanges
<1>3. Relevant(request)' = Relevant(request) /\ Activating(request)' = Activating(request)
      /\ Answering(request)' = Answering(request)
  BY <1>1 DEF Relevant, Activating, Answering
<1>4. /\ seen'.session = seen.session \cup {world'.session}
      /\ seen'.mustChange = seen.mustChange \cup {world'.mustChange}
      /\ seen'.held = seen.held \cup world'.held
      /\ seen'.lacked = seen.lacked \cup (Relevant(request) \ world'.held)
      /\ seen'.active = seen.active \cup world'.active
      /\ seen'.vouching = seen.vouching \cup world'.vouching
  BY <1>1 DEF Remember, Seen
<1>5. RequestTyped'
  BY <1>1, <1>2, <1>3 DEF RequestTyped, ReferenceLists, References
<1>6. WorldIsSeen'
  BY <1>3, <1>4 DEF WorldIsSeen
<1>7. ActivationWasSeen' /\ CallerWasSeen' /\ WaitsForItsPermission'
  BY <1>1, <1>3, <1>4 DEF RequestInv, ActivationWasSeen, CallerWasSeen, Found, WaitsForItsPermission
<1>8. ContentIsExamined'
  BY <1>1, <1>2, <1>4 DEF RequestInv, ContentIsExamined, References, ReferenceLists
<1>9. RequestsAreSound'
  BY <1>1, <1>7 DEF RequestsAreSound, Serving, ActivationWasSeen
<1> QED BY <1>5, <1>6, <1>7, <1>8, <1>9 DEF RequestInv

\* The invariant of a request: what it has seen, and where it may be with it.
THEOREM RequestInvHolds == RequestSpec => []RequestInv
<1>1. RequestInv /\ [RequestNext]_requestVars => RequestInv'
  <2> SUFFICES ASSUME RequestInv, [RequestNext]_requestVars PROVE RequestInv'
    OBVIOUS
  <2>1. CASE UNCHANGED requestVars
    <3>1. UNCHANGED <<request, phase, waiting, unread, world, seen>>
      BY <2>1 DEF requestVars
    <3>2. RequestTyped' /\ WorldIsSeen'
      BY <3>1 DEF RequestInv, RequestTyped, WorldIsSeen, Relevant, Activating, Answering,
           ReferenceLists, References
    <3>3. ActivationWasSeen' /\ CallerWasSeen' /\ WaitsForItsPermission'
      BY <3>1 DEF RequestInv, ActivationWasSeen, CallerWasSeen, Found, WaitsForItsPermission, Relevant
    <3>4. ContentIsExamined' /\ RequestsAreSound'
      BY <3>1 DEF RequestInv, ContentIsExamined, References, RequestsAreSound, Vouched
    <3> QED BY <3>2, <3>3, <3>4 DEF RequestInv
  <2> QED BY <2>1, CheckActivationKeeps, AuthorizeKeeps, CheckPermissionKeeps,
         CheckFilePermissionKeeps, ReadReferencesKeeps, AskModuleKeeps, AskAuthorizerKeeps,
         WorldChangesKeeps DEF RequestNext
<1> QED BY <1>1, RequestInvInit, PTL DEF RequestSpec

\* RequestsAreSound, for any modules, any references and any changes while the
\* request is served: no handler runs for a caller the manifest does not entitle.
THEOREM RequestsHold == RequestSpec => []RequestsAreSound
<1>1. RequestInv => RequestsAreSound
  BY DEF RequestInv
<1> QED BY <1>1, RequestInvHolds, PTL

-----------------------------------------------------------------------------
(* The panel of a role's permissions: AssignmentPanel, for any roles and any    *)
(* number of other administrators.                                             *)

PanelTyped ==
  /\ codesOf \in [PanelRoles -> SUBSET PanelCodes]
  /\ held \in [PanelRoles -> [known : BOOLEAN, codes : SUBSET PanelCodes, outdated : BOOLEAN]]
  /\ reading \in [PanelRoles -> [step : {"none", "asked", "answered"}, codes : SUBSET PanelCodes,
                                 outdated : BOOLEAN]]
  /\ opened \in [role : PanelRoles \cup {""}, ticked : SUBSET PanelCodes,
                 switched : SUBSET PanelCodes]
  /\ saving \in [step : {"idle", "sent", "saved", "refreshing"}, role : PanelRoles \cup {""},
                 codes : SUBSET PanelCodes, switched : SUBSET PanelCodes, informed : BOOLEAN]
  /\ saving.step = "sent" => saving.role \in PanelRoles

\* What is held, or about to arrive, and is not marked as outdated is what the
\* server has.
HeldIsTrue ==
  \A r \in PanelRoles :
    /\ held[r].known /\ ~held[r].outdated => held[r].codes = codesOf[r]
    /\ reading[r].step = "answered" /\ ~reading[r].outdated => reading[r].codes = codesOf[r]

\* The list of the panel is what is held with what was switched, and of no other role.
PanelIsOfItsRole ==
  opened.role \in PanelRoles => opened.ticked = Switch(held[opened.role].codes, opened.switched)

PanelInv == PanelTyped /\ HeldIsTrue /\ PanelIsOfItsRole /\ SavesAreMeant

LEMMA SwitchTwice ==
  ASSUME NEW a, NEW b, NEW c
  PROVE  Switch(Switch(a, b), c) = Switch(a, Switch(b, c))
BY DEF Switch

LEMMA SwitchNothing == ASSUME NEW a PROVE Switch(a, {}) = a
BY DEF Switch

LEMMA PanelInvInit == PanelInit => PanelInv
<1> SUFFICES ASSUME PanelInit PROVE PanelInv
  OBVIOUS
<1>1. PanelTyped
  BY DEF PanelInit, PanelTyped, Unread, NotReading, Closed, Idle
<1>2. HeldIsTrue /\ SavesAreMeant
  BY DEF PanelInit, HeldIsTrue, SavesAreMeant, Unread, NotReading, Idle
<1>3. PanelIsOfItsRole
  BY SwitchNothing DEF PanelInit, PanelIsOfItsRole, Unread, Closed
<1> QED BY <1>1, <1>2, <1>3 DEF PanelInv

LEMMA PanelForm ==
  ASSUME NEW role \in PanelRoles \cup {""}, NEW ticked \in SUBSET PanelCodes,
         NEW switched \in SUBSET PanelCodes
  PROVE  [role |-> role, ticked |-> ticked, switched |-> switched]
           \in [role : PanelRoles \cup {""}, ticked : SUBSET PanelCodes, switched : SUBSET PanelCodes]
OBVIOUS

\* A query that arrives, or another that is looked at, and the panel over it.
LEMMA RenderedFacts ==
  ASSUME PanelInv, NEW r \in PanelRoles,
         NEW query \in [known : BOOLEAN, codes : SUBSET PanelCodes, outdated : BOOLEAN],
         r = opened.role \/ query = held[r]
  PROVE  /\ Rendered(r, query) \in [role : PanelRoles \cup {""}, ticked : SUBSET PanelCodes,
                                    switched : SUBSET PanelCodes]
         /\ Rendered(r, query).role = r
         /\ Rendered(r, query).ticked = Switch(query.codes, Rendered(r, query).switched)
<1>1. opened \in [role : PanelRoles \cup {""}, ticked : SUBSET PanelCodes,
                  switched : SUBSET PanelCodes]
  BY DEF PanelInv, PanelTyped
<1>2. CASE opened.role # "" /\ r = opened.role /\ query.codes = held[opened.role].codes
  <2>1. Rendered(r, query) = [opened EXCEPT !.role = r]
    BY <1>2 DEF Rendered, PanelKey
  <2>2. opened.ticked = Switch(query.codes, opened.switched)
    BY <1>2 DEF PanelInv, PanelIsOfItsRole
  <2> QED BY <1>1, <1>2, <2>1, <2>2
<1>3. CASE ~(opened.role # "" /\ r = opened.role /\ query.codes = held[opened.role].codes)
  <2>1. Rendered(r, query) = [role |-> r, ticked |-> query.codes, switched |-> {}]
    BY <1>3 DEF Rendered, PanelKey
  <2>2. Switch(query.codes, {}) = query.codes /\ query.codes \in SUBSET PanelCodes
    BY SwitchNothing
  <2>3. /\ Rendered(r, query).role = r /\ Rendered(r, query).ticked = query.codes
        /\ Rendered(r, query).switched = {}
    BY <2>1
  <2>4. Rendered(r, query) \in [role : PanelRoles \cup {""}, ticked : SUBSET PanelCodes,
                               switched : SUBSET PanelCodes]
    <3>1. r \in PanelRoles \cup {""} /\ {} \in SUBSET PanelCodes
      OBVIOUS
    <3> DEFINE codes == query.codes
    <3>2. Rendered(r, query) = [role |-> r, ticked |-> codes, switched |-> {}]
          /\ codes \in SUBSET PanelCodes
      BY <2>1, <2>2
    <3> HIDE DEF codes
    <3>3. [role |-> r, ticked |-> codes, switched |-> {}]
            \in [role : PanelRoles \cup {""}, ticked : SUBSET PanelCodes, switched : SUBSET PanelCodes]
      BY <3>1, <3>2, PanelForm
    <3> QED BY <3>2, <3>3, Zenon
  <2> QED BY <2>2, <2>3, <2>4
<1> QED BY <1>2, <1>3

LEMMA SelectRoleKeeps == ASSUME PanelInv, NEW r \in PanelRoles, SelectRole(r) PROVE PanelInv'
<1>1. held[r] \in [known : BOOLEAN, codes : SUBSET PanelCodes, outdated : BOOLEAN]
  BY DEF PanelInv, PanelTyped
<1>2. /\ opened' \in [role : PanelRoles \cup {""}, ticked : SUBSET PanelCodes,
                      switched : SUBSET PanelCodes]
      /\ opened'.role = r /\ opened'.ticked = Switch(held[r].codes, opened'.switched)
  BY <1>1, RenderedFacts DEF SelectRole
<1>3. /\ reading' \in [PanelRoles -> [step : {"none", "asked", "answered"},
                                      codes : SUBSET PanelCodes, outdated : BOOLEAN]]
      /\ \A q \in PanelRoles : reading'[q].step = "answered" => reading'[q] = reading[q]
  BY DEF SelectRole, PanelInv, PanelTyped, Asking, NotReading
<1>4. UNCHANGED <<codesOf, held, saving>>
  BY DEF SelectRole
<1> QED BY <1>2, <1>3, <1>4 DEF PanelInv, PanelTyped, HeldIsTrue, PanelIsOfItsRole, SavesAreMeant

LEMMA ReadAnsweredKeeps == ASSUME PanelInv, NEW r \in PanelRoles, ReadAnswered(r) PROVE PanelInv'
<1>1. reading' = [reading EXCEPT ![r] = [step |-> "answered", codes |-> codesOf[r], outdated |-> FALSE]]
      /\ UNCHANGED <<codesOf, held, opened, saving>>
  BY DEF ReadAnswered
<1>2. reading' \in [PanelRoles -> [step : {"none", "asked", "answered"},
                                   codes : SUBSET PanelCodes, outdated : BOOLEAN]]
  BY <1>1 DEF PanelInv, PanelTyped
<1>3. HeldIsTrue'
  BY <1>1 DEF PanelInv, PanelTyped, HeldIsTrue
<1> QED BY <1>1, <1>2, <1>3 DEF PanelInv, PanelTyped, PanelIsOfItsRole, SavesAreMeant

LEMMA RefreshedFacts ==
  ASSUME PanelInv, NEW r \in PanelRoles
  PROVE  /\ Refreshed(r) \in [step : {"idle", "sent", "saved", "refreshing"},
                              role : PanelRoles \cup {""}, codes : SUBSET PanelCodes,
                              switched : SUBSET PanelCodes, informed : BOOLEAN]
         /\ Refreshed(r).step = "sent" => Refreshed(r) = saving
BY DEF PanelInv, PanelTyped, Refreshed, Idle

LEMMA ReadArrivesKeeps == ASSUME PanelInv, NEW r \in PanelRoles, ReadArrives(r) PROVE PanelInv'
<1> DEFINE query == [known |-> TRUE, codes |-> reading[r].codes, outdated |-> reading[r].outdated]
<1>1. /\ reading[r].step = "answered" /\ codesOf' = codesOf
      /\ held' = [held EXCEPT ![r] = query]
      /\ opened' = IF opened.role = r THEN Rendered(r, query) ELSE opened
      /\ reading' = [reading EXCEPT ![r] = NotReading]
      /\ saving' = Refreshed(r)
  BY DEF ReadArrives
<1>2. query \in [known : BOOLEAN, codes : SUBSET PanelCodes, outdated : BOOLEAN]
  BY DEF PanelInv, PanelTyped
<1>3. /\ held' \in [PanelRoles -> [known : BOOLEAN, codes : SUBSET PanelCodes, outdated : BOOLEAN]]
      /\ reading' \in [PanelRoles -> [step : {"none", "asked", "answered"},
                                      codes : SUBSET PanelCodes, outdated : BOOLEAN]]
  BY <1>1, <1>2 DEF PanelInv, PanelTyped, NotReading
<1>4. HeldIsTrue'
  <2>1. query.known /\ ~query.outdated => query.codes = codesOf[r]
    BY <1>1 DEF PanelInv, HeldIsTrue
  <2> QED BY <1>1, <2>1 DEF PanelInv, PanelTyped, HeldIsTrue, NotReading
<1>5. /\ opened' \in [role : PanelRoles \cup {""}, ticked : SUBSET PanelCodes,
                      switched : SUBSET PanelCodes]
      /\ PanelIsOfItsRole'
  <2>1. CASE opened.role = r
    <3>1. opened' = Rendered(r, query) /\ held'[r] = query
      BY <1>1, <2>1 DEF PanelInv, PanelTyped
    <3>2. /\ Rendered(r, query) \in [role : PanelRoles \cup {""}, ticked : SUBSET PanelCodes,
                                     switched : SUBSET PanelCodes]
          /\ Rendered(r, query).role = r
          /\ Rendered(r, query).ticked = Switch(query.codes, Rendered(r, query).switched)
      <4> HIDE DEF query
      <4> QED BY <1>2, <2>1, RenderedFacts
    <3> QED BY <3>1, <3>2 DEF PanelIsOfItsRole
  <2>2. CASE opened.role # r
    <3>1. opened' = opened /\ \A q \in PanelRoles : q # r => held'[q] = held[q]
      BY <1>1, <2>2 DEF PanelInv, PanelTyped
    <3> QED BY <2>2, <3>1 DEF PanelInv, PanelTyped, PanelIsOfItsRole
  <2> QED BY <2>1, <2>2
<1>6. SavesAreMeant'
  BY <1>1, RefreshedFacts DEF PanelInv, SavesAreMeant
<1> QED BY <1>1, <1>3, <1>4, <1>5, <1>6, RefreshedFacts DEF PanelInv, PanelTyped

LEMMA ReadFailsKeeps == ASSUME PanelInv, NEW r \in PanelRoles, ReadFails(r) PROVE PanelInv'
<1>1. /\ reading' = [reading EXCEPT ![r] = NotReading] /\ saving' = Refreshed(r)
      /\ UNCHANGED <<codesOf, held, opened>>
  BY DEF ReadFails
<1>2. HeldIsTrue'
  BY <1>1 DEF PanelInv, PanelTyped, HeldIsTrue, NotReading
<1>3. SavesAreMeant'
  BY <1>1, RefreshedFacts DEF PanelInv, SavesAreMeant
<1>4. reading' \in [PanelRoles -> [step : {"none", "asked", "answered"},
                                   codes : SUBSET PanelCodes, outdated : BOOLEAN]]
  BY <1>1 DEF PanelInv, PanelTyped, NotReading
<1> QED BY <1>1, <1>2, <1>3, <1>4, RefreshedFacts DEF PanelInv, PanelTyped, PanelIsOfItsRole

LEMMA ToggleKeeps == ASSUME PanelInv, NEW code \in PanelCodes, Toggle(code) PROVE PanelInv'
<1>1. /\ opened' = [role |-> opened.role, ticked |-> Switch(opened.ticked, {code}),
                    switched |-> Switch(opened.switched, {code})]
      /\ UNCHANGED <<codesOf, held, reading, saving>>
  BY DEF Toggle
<1>2. opened' \in [role : PanelRoles \cup {""}, ticked : SUBSET PanelCodes,
                   switched : SUBSET PanelCodes]
  BY <1>1 DEF PanelInv, PanelTyped, Switch
<1>3. PanelIsOfItsRole'
  BY <1>1, SwitchTwice DEF PanelInv, PanelIsOfItsRole
<1> QED BY <1>1, <1>2, <1>3 DEF PanelInv, PanelTyped, HeldIsTrue, SavesAreMeant

LEMMA SaveKeeps == ASSUME PanelInv, Save PROVE PanelInv'
<1> DEFINE shown == held[opened.role].known /\ ~held[opened.role].outdated
<1>1. /\ saving' = [step |-> "sent", role |-> opened.role, codes |-> opened.ticked,
                    switched |-> opened.switched, informed |-> shown]
      /\ opened.role \in PanelRoles /\ UNCHANGED <<codesOf, held, reading, opened>>
  BY DEF Save, PanelInv, PanelTyped
<1>2. PanelTyped'
  <2>1. shown \in BOOLEAN
    OBVIOUS
  <2> HIDE DEF shown
  <2> QED BY <1>1, <2>1 DEF PanelInv, PanelTyped
<1>3. SavesAreMeant'
  BY <1>1 DEF PanelInv, HeldIsTrue, PanelIsOfItsRole, SavesAreMeant
<1> QED BY <1>1, <1>2, <1>3 DEF PanelInv, HeldIsTrue, PanelIsOfItsRole

\* The server's codes of a role change, and what has been read of it is marked.
LEMMA CodesChangeKeeps ==
  ASSUME PanelInv, NEW r \in PanelRoles, NEW codes \in SUBSET PanelCodes,
         codesOf' = [codesOf EXCEPT ![r] = codes], Outdate(r), UNCHANGED opened
  PROVE  /\ codesOf' \in [PanelRoles -> SUBSET PanelCodes]
         /\ held' \in [PanelRoles -> [known : BOOLEAN, codes : SUBSET PanelCodes, outdated : BOOLEAN]]
         /\ reading' \in [PanelRoles -> [step : {"none", "asked", "answered"},
                                         codes : SUBSET PanelCodes, outdated : BOOLEAN]]
         /\ HeldIsTrue' /\ PanelIsOfItsRole'
<1> DEFINE marked == reading[r].outdated \/ reading[r].step = "answered"
<1>1. /\ held' \in [PanelRoles -> [known : BOOLEAN, codes : SUBSET PanelCodes, outdated : BOOLEAN]]
      /\ \A q \in PanelRoles : held'[q].codes = held[q].codes /\ held'[q].known = held[q].known
                               /\ (q # r => held'[q] = held[q])
      /\ held'[r].outdated
  BY DEF PanelInv, PanelTyped, Outdate
<1>2. /\ reading' \in [PanelRoles -> [step : {"none", "asked", "answered"},
                                      codes : SUBSET PanelCodes, outdated : BOOLEAN]]
      /\ \A q \in PanelRoles : q # r => reading'[q] = reading[q]
      /\ reading'[r].step = "answered" => reading'[r].outdated
  <2>1. reading' = [reading EXCEPT ![r] = [reading[r] EXCEPT !.outdated = marked]]
    BY DEF PanelInv, PanelTyped, Outdate
  <2>2. marked \in BOOLEAN /\ (reading[r].step = "answered" => marked)
    OBVIOUS
  <2> DEFINE row == [reading[r] EXCEPT !.outdated = marked]
  <2>3. reading[r] \in [step : {"none", "asked", "answered"}, codes : SUBSET PanelCodes,
                        outdated : BOOLEAN]
    BY DEF PanelInv, PanelTyped
  <2> HIDE DEF marked
  <2>4. /\ row \in [step : {"none", "asked", "answered"}, codes : SUBSET PanelCodes,
                    outdated : BOOLEAN]
        /\ row.step = reading[r].step /\ row.outdated = marked
    BY <2>2, <2>3
  <2> HIDE DEF row
  <2>5. /\ reading' \in [PanelRoles -> [step : {"none", "asked", "answered"},
                                        codes : SUBSET PanelCodes, outdated : BOOLEAN]]
        /\ \A q \in PanelRoles : q # r => reading'[q] = reading[q]
        /\ reading'[r] = row
    BY <2>1, <2>4 DEF row, PanelInv, PanelTyped
  <2> QED BY <2>2, <2>4, <2>5
<1>3. /\ codesOf' \in [PanelRoles -> SUBSET PanelCodes]
      /\ \A q \in PanelRoles : q # r => codesOf'[q] = codesOf[q]
  BY DEF PanelInv, PanelTyped
<1>4. HeldIsTrue'
  BY <1>1, <1>2, <1>3 DEF PanelInv, HeldIsTrue
<1>5. PanelIsOfItsRole'
  BY <1>1 DEF PanelInv, PanelIsOfItsRole
<1> QED BY <1>1, <1>2, <1>3, <1>4, <1>5

LEMMA ReplacedKeeps == ASSUME PanelInv, Replaced PROVE PanelInv'
<1>1. /\ saving.step = "sent" /\ codesOf' = [codesOf EXCEPT ![saving.role] = saving.codes]
      /\ Outdate(saving.role) /\ saving' = [Idle EXCEPT !.step = "saved"] /\ opened' = opened
  BY DEF Replaced
<1>2. saving.role \in PanelRoles /\ saving.codes \in SUBSET PanelCodes
  BY <1>1 DEF PanelInv, PanelTyped
<1>3. /\ saving' \in [step : {"idle", "sent", "saved", "refreshing"}, role : PanelRoles \cup {""},
                      codes : SUBSET PanelCodes, switched : SUBSET PanelCodes, informed : BOOLEAN]
      /\ saving'.step # "sent"
  BY <1>1 DEF Idle
<1> QED BY <1>1, <1>2, <1>3, CodesChangeKeeps DEF PanelInv, PanelTyped, SavesAreMeant

LEMMA SaveAnsweredKeeps == ASSUME PanelInv, SaveAnswered PROVE PanelInv'
<1>1. /\ saving' = [step |-> "refreshing", role |-> opened.role, codes |-> {}, switched |-> {},
                    informed |-> FALSE]
      /\ reading' = [reading EXCEPT ![opened.role] = Asking]
      /\ UNCHANGED <<codesOf, held, opened>>
  BY DEF SaveAnswered
<1>2. opened.role \in PanelRoles \cup {""}
  BY DEF PanelInv, PanelTyped
<1>3. /\ saving' \in [step : {"idle", "sent", "saved", "refreshing"}, role : PanelRoles \cup {""},
                      codes : SUBSET PanelCodes, switched : SUBSET PanelCodes, informed : BOOLEAN]
      /\ saving'.step # "sent"
  BY <1>1, <1>2
<1>4. /\ Asking \in [step : {"none", "asked", "answered"}, codes : SUBSET PanelCodes,
                     outdated : BOOLEAN]
      /\ Asking.step # "answered"
  BY DEF Asking, NotReading
<1>5. /\ reading' \in [PanelRoles -> [step : {"none", "asked", "answered"},
                                      codes : SUBSET PanelCodes, outdated : BOOLEAN]]
      /\ \A q \in PanelRoles : reading'[q].step = "answered" => reading'[q] = reading[q]
  BY <1>1, <1>4 DEF PanelInv, PanelTyped
<1>6. PanelTyped'
  BY <1>1, <1>3, <1>5 DEF PanelInv, PanelTyped
<1>7. HeldIsTrue'
  BY <1>1, <1>5 DEF PanelInv, HeldIsTrue
<1> QED BY <1>1, <1>3, <1>6, <1>7 DEF PanelInv, PanelIsOfItsRole, SavesAreMeant

LEMMA SaveFailsKeeps == ASSUME PanelInv, SaveFails PROVE PanelInv'
<1>1. /\ saving' \in [step : {"idle", "sent", "saved", "refreshing"}, role : PanelRoles \cup {""},
                      codes : SUBSET PanelCodes, switched : SUBSET PanelCodes, informed : BOOLEAN]
      /\ saving'.step # "sent"
  BY DEF SaveFails, Idle
<1> QED BY <1>1 DEF SaveFails, PanelInv, PanelTyped, HeldIsTrue, PanelIsOfItsRole, SavesAreMeant

LEMMA OthersChangeKeeps ==
  ASSUME PanelInv, NEW r \in PanelRoles, NEW codes \in SUBSET PanelCodes, OthersChange(r, codes)
  PROVE  PanelInv'
<1>1. /\ codesOf' = [codesOf EXCEPT ![r] = codes] /\ Outdate(r) /\ opened' = opened
      /\ saving' = IF saving.step = "sent" /\ saving.role = r
                   THEN [saving EXCEPT !.informed = FALSE] ELSE saving
  BY DEF OthersChange
<1>2. /\ saving' \in [step : {"idle", "sent", "saved", "refreshing"}, role : PanelRoles \cup {""},
                      codes : SUBSET PanelCodes, switched : SUBSET PanelCodes, informed : BOOLEAN]
      /\ saving'.step = "sent" => saving'.role \in PanelRoles
      /\ saving'.step = "sent" /\ saving'.informed => saving' = saving /\ saving.role # r
  BY <1>1 DEF PanelInv, PanelTyped
<1>3. SavesAreMeant'
  BY <1>1, <1>2 DEF PanelInv, PanelTyped, SavesAreMeant
<1> QED BY <1>1, <1>2, <1>3, CodesChangeKeeps DEF PanelInv, PanelTyped

\* The invariant of the panel.
THEOREM PanelInvHolds == PanelSpec => []PanelInv
<1>1. PanelInv /\ [PanelNext]_panelVars => PanelInv'
  <2> SUFFICES ASSUME PanelInv, [PanelNext]_panelVars PROVE PanelInv'
    OBVIOUS
  <2>1. CASE UNCHANGED panelVars
    BY <2>1 DEF panelVars, PanelInv, PanelTyped, HeldIsTrue, PanelIsOfItsRole, SavesAreMeant
  <2> QED BY <2>1, SelectRoleKeeps, ReadAnsweredKeeps, ReadArrivesKeeps, ReadFailsKeeps,
         ToggleKeeps, SaveKeeps, ReplacedKeeps, SaveAnsweredKeeps, SaveFailsKeeps, OthersChangeKeeps DEF PanelNext
<1> QED BY <1>1, PanelInvInit, PTL DEF PanelSpec

-----------------------------------------------------------------------------
(* What the pages show: WebPages, for any routes that are visited.            *)

Phases == {"asked", "answered", "shown"}
Fetch == [phase : Phases, current : BOOLEAN, loaded : BOOLEAN, missed : BOOLEAN]

WebTyped ==
  /\ view \in Views /\ chosen \in BOOLEAN /\ panel \in BOOLEAN
  /\ Mounted \subseteq DOMAIN fetches /\ DOMAIN fetches \subseteq KeysOf(AllReads)
  /\ fetches \in [DOMAIN fetches -> Fetch]
  /\ act \in [phase : {"none", "sent", "made"}, changes : {act.changes}, refreshes : {act.refreshes}]

\* The change under way is one that a page offers.
ActIsOffered ==
  act.phase # "none" =>
    \E route \in ManagementRoutes : \E a \in route[2].acts : \E call \in a.calls :
      call.method # "GET" /\ act.changes = ResourceOf(call) /\ act.refreshes = a.refreshes

\* What a fetch brings or has brought is true, unless a change has been made that
\* refreshes it when its answer arrives, or that was over without a new fetch.
Untrue(k) == ~fetches[k].current /\ ~fetches[k].missed
FetchedIsTrue ==
  \A k \in DOMAIN fetches :
    /\ fetches[k].phase = "asked" => fetches[k].current
    /\ k \notin NotRefreshed /\ Untrue(k) => act.phase = "made" /\ act.changes = ResourceOf(CallOf(k))

WebInv == WebTyped /\ ActIsOffered /\ FetchedIsTrue

\* What is mounted is read somewhere, and a key names one call.
LEMMA CallOfKey ==
  ASSUME NEW r \in AllReads
  PROVE  CallOf(r.key) = r.call
<1>1. /\ (CHOOSE q \in AllReads : q.key = r.key) \in AllReads
      /\ (CHOOSE q \in AllReads : q.key = r.key).key = r.key
  OBVIOUS
<1> QED BY <1>1, PagesAgree DEF CallOf

LEMMA MountedIsRead ==
  ASSUME NEW v \in Views, NEW c, NEW p
  PROVE  MountedBy(v, c, p) \subseteq KeysOf(AllReads)
BY DEF MountedBy, AllReads, KeysOf, Views

LEMMA AskedForm ==
  ASSUME NEW loaded \in BOOLEAN
  PROVE  Asked(loaded) \in Fetch /\ Asked(loaded).current
BY DEF Asked, Fetch, Phases

LEMMA WebInvInit == WebInit => WebInv
<1> SUFFICES ASSUME WebInit PROVE WebInv
  OBVIOUS
<1>1. view \in Views /\ chosen = FALSE /\ panel = FALSE /\ act = NoAct
      /\ fetches = [k \in Mounted |-> Asked(FALSE)]
  BY DEF WebInit, Mounted
<1>2. WebTyped
  <2>1. act \in [phase : {"none", "sent", "made"}, changes : {act.changes}, refreshes : {act.refreshes}]
    BY <1>1 DEF NoAct
  <2>2. Mounted \subseteq KeysOf(AllReads)
    BY <1>1, MountedIsRead DEF Mounted
  <2> QED BY <1>1, <2>1, <2>2, AskedForm DEF WebTyped
<1>3. ActIsOffered
  BY <1>1 DEF ActIsOffered, NoAct
<1>4. FetchedIsTrue
  BY <1>1, AskedForm DEF FetchedIsTrue, Untrue
<1> QED BY <1>2, <1>3, <1>4 DEF WebInv

\* The change stays as it is, and each fetch is asked again or stays as it is.
LEMMA MountKeeps ==
  ASSUME WebInv, NEW v \in Views, NEW c \in BOOLEAN, NEW p \in BOOLEAN, Mount(v, c, p)
  PROVE  WebInv'
<1>1. view' = v /\ chosen' = c /\ panel' = p /\ act' = act /\ Mounted' = MountedBy(v, c, p)
  BY DEF Mount, Mounted
<1>2. PICK kept \in SUBSET ((DOMAIN fetches \cap Kept) \ MountedBy(v, c, p)) :
        fetches' = [k \in MountedBy(v, c, p) \cup kept |->
          IF k \in kept \cup StayMounted(v, p) THEN fetches[k] ELSE Fetched(k)]
  BY DEF Mount
<1>3. StayMounted(v, p) \subseteq DOMAIN fetches
  BY DEF StayMounted, WebInv, WebTyped, Mounted, MountedBy
<1>4. DOMAIN fetches' = MountedBy(v, c, p) \cup kept
      /\ \A k \in DOMAIN fetches' :
           \/ k \in DOMAIN fetches /\ fetches'[k] = fetches[k]
           \/ \E loaded \in BOOLEAN : fetches'[k] = Asked(loaded)
  BY <1>2, <1>3 DEF Fetched
<1>5. \A k \in DOMAIN fetches : fetches[k] \in Fetch
  BY DEF WebInv, WebTyped
<1>6. WebTyped'
  <2>1. \A k \in DOMAIN fetches' : fetches'[k] \in Fetch
    BY <1>4, <1>5, AskedForm
  <2>2. Mounted' \subseteq DOMAIN fetches' /\ DOMAIN fetches' \subseteq KeysOf(AllReads)
    BY <1>1, <1>4, MountedIsRead DEF WebInv, WebTyped
  <2>3. fetches' \in [DOMAIN fetches' -> Fetch]
    BY <1>2, <2>1
  <2> QED BY <1>1, <2>2, <2>3 DEF WebInv, WebTyped
<1>7. ActIsOffered'
  BY <1>1 DEF WebInv, ActIsOffered
<1>8. FetchedIsTrue'
  BY <1>1, <1>4, AskedForm DEF WebInv, FetchedIsTrue, Untrue
<1> QED BY <1>6, <1>7, <1>8 DEF WebInv

\* A step that leaves what is open alone, and keeps the types.
LEMMA SameView ==
  ASSUME WebInv, UNCHANGED <<view, chosen, panel>>, DOMAIN fetches' = DOMAIN fetches,
         fetches' \in [DOMAIN fetches -> Fetch],
         act' \in [phase : {"none", "sent", "made"}, changes : {act'.changes}, refreshes : {act'.refreshes}]
  PROVE  WebTyped'
<1>1. Mounted' = Mounted
  BY DEF Mounted
<1> QED BY <1>1 DEF WebInv, WebTyped

LEMMA FetchKeeps ==
  ASSUME WebInv, NEW k \in DOMAIN fetches, ServerAnswers(k) \/ Arrives(k)
  PROVE  WebInv'
<1>1. UNCHANGED <<view, chosen, panel, act>>
  BY DEF ServerAnswers, Arrives
<1>2. fetches[k] \in Fetch /\ fetches \in [DOMAIN fetches -> Fetch]
  BY DEF WebInv, WebTyped
<1>3. PICK row : fetches' = [fetches EXCEPT ![k] = row] /\ row \in Fetch /\ row.phase # "asked"
                 /\ row.current = fetches[k].current /\ row.missed = fetches[k].missed
  <2>1. CASE ServerAnswers(k)
    <3>1. PICK row : row = [fetches[k] EXCEPT !.phase = "answered"]
      OBVIOUS
    <3>2. row \in Fetch /\ row.phase # "asked"
          /\ row.current = fetches[k].current /\ row.missed = fetches[k].missed
      BY <1>2, <3>1 DEF Fetch, Phases
    <3>3. fetches' = [fetches EXCEPT ![k] = row]
      BY <2>1, <3>1 DEF ServerAnswers
    <3> QED BY <3>2, <3>3
  <2>2. CASE Arrives(k)
    <3>1. PICK row : row = [fetches[k] EXCEPT !.phase = "shown", !.loaded = TRUE]
      OBVIOUS
    <3>2. row \in Fetch /\ row.phase # "asked"
          /\ row.current = fetches[k].current /\ row.missed = fetches[k].missed
      BY <1>2, <3>1 DEF Fetch, Phases
    <3>3. fetches' = [fetches EXCEPT ![k] = row]
      BY <2>2, <3>1 DEF Arrives
    <3> QED BY <3>2, <3>3
  <2> QED BY <2>1, <2>2
<1>4. DOMAIN fetches' = DOMAIN fetches /\ fetches' \in [DOMAIN fetches -> Fetch]
      /\ fetches'[k] = row /\ \A j \in DOMAIN fetches : j # k => fetches'[j] = fetches[j]
  BY <1>2, <1>3
<1>5. WebTyped'
  BY <1>1, <1>4, SameView DEF WebInv, WebTyped
<1>6. FetchedIsTrue'
  BY <1>1, <1>3, <1>4 DEF WebInv, FetchedIsTrue, Untrue
<1> QED BY <1>1, <1>5, <1>6 DEF WebInv, ActIsOffered

LEMMA SendKeeps == ASSUME WebInv, Send PROVE WebInv'
<1>1. /\ act = NoAct /\ act.phase = "none" /\ UNCHANGED <<view, chosen, panel, fetches>>
  BY DEF Send, NoAct
<1>2. PICK a \in view.acts : \E call \in a.calls :
        /\ call.method # "GET"
        /\ act' = [phase |-> "sent", changes |-> ResourceOf(call), refreshes |-> a.refreshes]
  BY DEF Send
<1>3. PICK call \in a.calls :
        /\ call.method # "GET"
        /\ act' = [phase |-> "sent", changes |-> ResourceOf(call), refreshes |-> a.refreshes]
  BY <1>2
<1>4. WebTyped'
  BY <1>1, <1>3, SameView DEF WebInv, WebTyped
<1>5. ActIsOffered'
  <2>1. act'.changes = ResourceOf(call) /\ act'.refreshes = a.refreshes
    BY <1>3
  <2>2. PICK route \in ManagementRoutes : view = route[2]
    BY DEF WebInv, WebTyped, Views
  <2> QED BY <1>3, <2>1, <2>2 DEF ActIsOffered
<1>6. FetchedIsTrue'
  BY <1>1 DEF WebInv, FetchedIsTrue, Untrue
<1> QED BY <1>4, <1>5, <1>6 DEF WebInv

LEMMA ServerChangesKeeps == ASSUME WebInv, ServerChanges PROVE WebInv'
<1> DEFINE row(k) == IF fetches[k].phase # "asked" /\ ResourceOf(CallOf(k)) = act.changes
                     THEN [fetches[k] EXCEPT !.current = FALSE] ELSE fetches[k]
<1>1. /\ act.phase = "sent" /\ act' = [act EXCEPT !.phase = "made"]
      /\ fetches' = [k \in DOMAIN fetches |-> row(k)]
      /\ UNCHANGED <<view, chosen, panel>>
  BY DEF ServerChanges
<1>2. \A k \in DOMAIN fetches :
        /\ row(k) \in Fetch /\ row(k).phase = fetches[k].phase
        /\ fetches[k].phase = "asked" => row(k) = fetches[k]
        /\ ResourceOf(CallOf(k)) # act.changes => row(k) = fetches[k]
  <2> SUFFICES ASSUME NEW k \in DOMAIN fetches
               PROVE  /\ row(k) \in Fetch /\ row(k).phase = fetches[k].phase
                      /\ fetches[k].phase = "asked" => row(k) = fetches[k]
                      /\ ResourceOf(CallOf(k)) # act.changes => row(k) = fetches[k]
    OBVIOUS
  <2>1. fetches[k] \in Fetch
    BY DEF WebInv, WebTyped
  <2>2. PICK changed : changed = [fetches[k] EXCEPT !.current = FALSE]
    OBVIOUS
  <2>3. changed \in Fetch /\ changed.phase = fetches[k].phase
    BY <2>1, <2>2 DEF Fetch
  <2> QED BY <2>1, <2>2, <2>3
<1> HIDE DEF row
<1>3. act' \in [phase : {"none", "sent", "made"}, changes : {act.changes}, refreshes : {act.refreshes}]
      /\ act'.phase = "made" /\ act'.changes = act.changes /\ act'.refreshes = act.refreshes
  BY <1>1 DEF WebInv, WebTyped
<1>4. WebTyped'
  BY <1>1, <1>2, <1>3, SameView
<1>5. ActIsOffered'
  BY <1>1, <1>3 DEF WebInv, ActIsOffered
<1>6. FetchedIsTrue'
  <2> SUFFICES ASSUME NEW k \in DOMAIN fetches
               PROVE  /\ fetches'[k].phase = "asked" => fetches'[k].current
                      /\ k \notin NotRefreshed /\ ~fetches'[k].current /\ ~fetches'[k].missed =>
                           act.changes = ResourceOf(CallOf(k))
    BY <1>1, <1>3 DEF FetchedIsTrue, Untrue
  <2>1. fetches'[k] = row(k) /\ act.phase # "made"
    BY <1>1
  <2> QED BY <1>2, <2>1 DEF WebInv, FetchedIsTrue, Untrue
<1> QED BY <1>4, <1>5, <1>6 DEF WebInv

\* The change is over, and nothing is left untrue that is not known to be missed.
LEMMA ActEnds ==
  ASSUME WebInv, act' = NoAct, UNCHANGED <<view, chosen, panel>>,
         DOMAIN fetches' = DOMAIN fetches, fetches' \in [DOMAIN fetches -> Fetch],
         \A k \in DOMAIN fetches :
           /\ fetches'[k].phase = "asked" => fetches'[k].current
           /\ k \notin NotRefreshed => fetches'[k].current \/ fetches'[k].missed
  PROVE  WebInv'
<1>1. act' \in [phase : {"none", "sent", "made"}, changes : {act'.changes}, refreshes : {act'.refreshes}]
  BY DEF NoAct
<1>2. WebTyped'
  BY <1>1, SameView
<1>3. ActIsOffered'
  BY DEF ActIsOffered, NoAct
<1>4. FetchedIsTrue'
  BY DEF FetchedIsTrue, Untrue
<1> QED BY <1>2, <1>3, <1>4 DEF WebInv

LEMMA RefusedKeeps == ASSUME WebInv, Refused PROVE WebInv'
<1>1. act.phase = "sent" /\ act' = NoAct /\ UNCHANGED <<view, chosen, panel, fetches>>
  BY DEF Refused
<1>2. fetches \in [DOMAIN fetches -> Fetch]
  BY DEF WebInv, WebTyped
<1>3. \A k \in DOMAIN fetches :
        /\ fetches[k].phase = "asked" => fetches[k].current
        /\ k \notin NotRefreshed => fetches[k].current \/ fetches[k].missed
  BY <1>1 DEF WebInv, FetchedIsTrue, Untrue
<1> QED BY <1>1, <1>2, <1>3, ActEnds

\* A fetch that is untrue and goes on is known to be missed.
LEMMA MissingForm ==
  ASSUME WebInv, NEW k \in DOMAIN fetches
  PROVE  /\ Missing(k) \in Fetch /\ (Missing(k).current \/ Missing(k).missed)
         /\ Missing(k).phase = "asked" => Missing(k).current
<1>1. fetches[k] \in Fetch /\ (fetches[k].phase = "asked" => fetches[k].current)
  BY DEF WebInv, WebTyped, FetchedIsTrue
<1>2. PICK u : u = [fetches[k] EXCEPT !.missed = ~fetches[k].current]
  OBVIOUS
<1>3. u \in Fetch /\ u.current = fetches[k].current /\ u.missed = ~fetches[k].current
      /\ u.phase = fetches[k].phase
  BY <1>1, <1>2 DEF Fetch
<1> QED BY <1>1, <1>2, <1>3 DEF Missing

LEMMA AnswerLostKeeps == ASSUME WebInv, AnswerLost PROVE WebInv'
<1>1. act' = NoAct /\ UNCHANGED <<view, chosen, panel>>
      /\ fetches' = [k \in DOMAIN fetches |-> Missing(k)]
  BY DEF AnswerLost
<1>2. DOMAIN fetches' = DOMAIN fetches /\ fetches' \in [DOMAIN fetches -> Fetch]
      /\ \A k \in DOMAIN fetches :
           /\ fetches'[k].current \/ fetches'[k].missed
           /\ fetches'[k].phase = "asked" => fetches'[k].current
  BY <1>1, MissingForm
<1> QED BY <1>1, <1>2, ActEnds

\* What the change has made untrue is refreshed, or goes on: its read was of the
\* resource that changed, and the change names it.
LEMMA SucceedsKeeps == ASSUME WebInv, Succeeds PROVE WebInv'
<1> DEFINE named(k) == \E n \in act.refreshes : Begins(k, n)
<1>1. /\ act.phase = "made" /\ act' = NoAct /\ UNCHANGED <<view, chosen, panel>>
      /\ fetches' = [k \in DOMAIN fetches |->
           IF ~named(k) THEN fetches[k]
           ELSE IF Restarts(k) THEN Asked(TRUE)
           ELSE IF GoesOn(k) THEN Missing(k) ELSE fetches[k]]
  BY DEF Succeeds
<1> HIDE DEF named
<1>2. \A k \in DOMAIN fetches :
        /\ ~named(k) => fetches'[k] = fetches[k]
        /\ named(k) => fetches'[k] \in {Asked(TRUE), Missing(k)}
  BY <1>1 DEF Restarts
<1>3. DOMAIN fetches \subseteq KeysOf(AllReads) /\ \A k \in DOMAIN fetches : fetches[k] \in Fetch
  BY DEF WebInv, WebTyped
<1>4. \A k \in DOMAIN fetches : fetches'[k] \in Fetch
  BY <1>2, <1>3, AskedForm, MissingForm
<1>5. DOMAIN fetches' = DOMAIN fetches /\ fetches' \in [DOMAIN fetches -> Fetch]
  BY <1>1, <1>4
<1>6. ASSUME NEW k \in DOMAIN fetches
      PROVE  /\ fetches'[k].phase = "asked" => fetches'[k].current
             /\ k \notin NotRefreshed => fetches'[k].current \/ fetches'[k].missed
  <2>1. CASE named(k)
    BY <1>2, <2>1, AskedForm, MissingForm
  <2>2. CASE ~named(k)
    <3>1. fetches'[k] = fetches[k] /\ (fetches[k].phase = "asked" => fetches[k].current)
      BY <1>2, <2>2 DEF WebInv, FetchedIsTrue
    <3>2. ASSUME k \notin NotRefreshed, ~fetches[k].current, ~fetches[k].missed PROVE FALSE
      <4>1. act.changes = ResourceOf(CallOf(k))
        BY <3>2 DEF WebInv, FetchedIsTrue, Untrue
      <4>2. PICK route \in ManagementRoutes : \E a \in route[2].acts : \E call \in a.calls :
              call.method # "GET" /\ act.changes = ResourceOf(call) /\ act.refreshes = a.refreshes
        BY <1>1 DEF WebInv, ActIsOffered
      <4>3. PICK a \in route[2].acts : \E call \in a.calls :
              call.method # "GET" /\ act.changes = ResourceOf(call) /\ act.refreshes = a.refreshes
        BY <4>2
      <4>4. PICK call \in a.calls :
              call.method # "GET" /\ act.changes = ResourceOf(call) /\ act.refreshes = a.refreshes
        BY <4>3
      <4>5. PICK r \in AllReads : r.key = k
        BY <1>3 DEF KeysOf
      <4>6. CallOf(k) = r.call
        BY <4>5, CallOfKey
      <4>7. \E n \in a.refreshes : Begins(r.key, n)
        BY <3>2, <4>1, <4>4, <4>5, <4>6, PagesAgree
      <4> QED BY <2>2, <4>4, <4>5, <4>7 DEF named
    <3> QED BY <3>1, <3>2
  <2> QED BY <2>1, <2>2
<1> QED BY <1>1, <1>5, <1>6, ActEnds

\* The invariant of the pages.
THEOREM WebInvHolds == WebSpec => []WebInv
<1>1. WebInv /\ [WebNext]_webVars => WebInv'
  <2> SUFFICES ASSUME WebInv, [WebNext]_webVars PROVE WebInv'
    OBVIOUS
  <2>1. CASE UNCHANGED webVars
    <3>1. WebTyped'
      BY <2>1, SameView DEF webVars, WebInv, WebTyped
    <3> QED BY <2>1, <3>1 DEF webVars, WebInv, ActIsOffered, FetchedIsTrue, Untrue
  <2>2. view \in Views /\ chosen \in BOOLEAN /\ panel \in BOOLEAN
    BY DEF WebInv, WebTyped
  <2>3. CASE Open \/ Choose \/ TogglePanel
    BY <2>2, <2>3, MountKeeps DEF Open, Choose, TogglePanel
  <2> QED BY <2>1, <2>3, SendKeeps, ServerChangesKeeps, RefusedKeeps, SucceedsKeeps,
         AnswerLostKeeps, FetchKeeps DEF WebNext
<1> QED BY <1>1, WebInvInit, PTL DEF WebSpec

\* PagesAreSound, for any routes that are visited, any roles and any number of other
\* administrators: what is shown is what the server has once nothing is under way,
\* but for an answer that a change could not have fetched again, and what is saved of
\* a role is what was switched in its panel.
THEOREM PagesHold == WebSpec /\ PanelSpec => []PagesAreSound
<1>1. WebInv => WebPagesAreSound
  <2> SUFFICES ASSUME WebInv PROVE WebPagesAreSound
    OBVIOUS
  <2>1. NoAct.phase = "none"
    BY DEF NoAct
  <2>2. Mounted \subseteq DOMAIN fetches
    BY DEF WebInv, WebTyped
  <2> QED BY <2>1, <2>2, PagesAgree DEF WebInv, FetchedIsTrue, Untrue, WebPagesAreSound
<1>2. PanelInv => SavesAreMeant
  BY DEF PanelInv
<1>3. WebPagesAreSound /\ SavesAreMeant => PagesAreSound
  BY DEF PagesAreSound
<1> QED BY <1>1, <1>2, <1>3, WebInvHolds, PanelInvHolds, PTL

-----------------------------------------------------------------------------
(* A recursive function over parts that are nested finitely deep.           *)

\* What the function is on some arguments and all their parts.
Solves(f, T, parts, V, step) ==
  /\ f \in [T -> V] /\ \A e \in T : parts[e] \subseteq T
  /\ \A e \in T : f[e] = step[<<e, {f[p] : p \in parts[e]}>>]

LEMMA SolutionsAgree ==
  ASSUME NEW S, NEW parts \in [S -> SUBSET S], NEW V, NEW step,
         \A T \in SUBSET S : T # {} => \E e \in T : parts[e] \cap T = {},
         NEW T1 \in SUBSET S, NEW T2 \in SUBSET S, NEW f, NEW g,
         Solves(f, T1, parts, V, step), Solves(g, T2, parts, V, step)
  PROVE  \A e \in T1 \cap T2 : f[e] = g[e]
<1> DEFINE Differ == {e \in T1 \cap T2 : f[e] # g[e]}
<1>1. SUFFICES ASSUME Differ # {} PROVE FALSE
  OBVIOUS
<1>2. PICK e \in Differ : parts[e] \cap Differ = {}
  <2>1. Differ \in SUBSET S
    OBVIOUS
  <2> HIDE DEF Differ
  <2> QED BY <1>1, <2>1
<1>3. \A p \in parts[e] : f[p] = g[p]
  BY <1>2 DEF Solves
<1>4. {f[p] : p \in parts[e]} = {g[p] : p \in parts[e]}
  BY <1>3
<1>5. f[e] = step[<<e, {f[p] : p \in parts[e]}>>] /\ g[e] = step[<<e, {g[p] : p \in parts[e]}>>]
  BY <1>2 DEF Solves
<1> QED BY <1>2, <1>4, <1>5

LEMMA RecursionExists ==
  ASSUME NEW S, NEW parts \in [S -> SUBSET S], NEW V, NEW step \in [S \X SUBSET V -> V],
         \A T \in SUBSET S : T # {} => \E e \in T : parts[e] \cap T = {}
  PROVE  \E f : Solves(f, S, parts, V, step)
<1> DEFINE IsValue(e, v) == \E T \in SUBSET S : \E f : e \in T /\ Solves(f, T, parts, V, step) /\ v = f[e]
           Solved == {e \in S : \E v \in V : IsValue(e, v)}
           h == [e \in Solved |-> CHOOSE v \in V : IsValue(e, v)]
<1>1. ASSUME NEW T \in SUBSET S, NEW f, Solves(f, T, parts, V, step), NEW e \in T
      PROVE  e \in Solved /\ h[e] = f[e]
  <2>1. IsValue(e, f[e]) /\ f[e] \in V
    BY <1>1 DEF Solves
  <2>2. e \in Solved
    BY <2>1
  <2>3. IsValue(e, h[e])
    <3> HIDE DEF IsValue
    <3> QED BY <2>1, <2>2
  <2>4. PICK U \in SUBSET S : \E g : e \in U /\ Solves(g, U, parts, V, step) /\ h[e] = g[e]
    <3> HIDE DEF h
    <3> QED BY <2>3
  <2>5. PICK g : e \in U /\ Solves(g, U, parts, V, step) /\ h[e] = g[e]
    BY <2>4
  <2> HIDE DEF h, Solved
  <2> QED BY <1>1, <2>2, <2>5, SolutionsAgree
<1>2. ASSUME NEW e \in Solved
      PROVE  /\ h[e] \in V /\ parts[e] \subseteq Solved
             /\ h[e] = step[<<e, {h[p] : p \in parts[e]}>>]
  <2>1. PICK T \in SUBSET S : \E f : e \in T /\ Solves(f, T, parts, V, step)
    BY <1>2
  <2>0. PICK f : e \in T /\ Solves(f, T, parts, V, step)
    BY <2>1
  <2>2. \A p \in T : p \in Solved /\ h[p] = f[p]
    <3> HIDE DEF h, Solved
    <3> QED BY <1>1, <2>0
  <2> HIDE DEF h, Solved
  <2>3. parts[e] \subseteq T /\ f[e] \in V /\ f[e] = step[<<e, {f[p] : p \in parts[e]}>>]
    BY <2>0 DEF Solves
  <2>4. {f[p] : p \in parts[e]} = {h[p] : p \in parts[e]}
    BY <2>2, <2>3
  <2> QED BY <2>0, <2>2, <2>3, <2>4
<1>3. Solves(h, Solved, parts, V, step)
  <2>1. h = [e \in Solved |-> h[e]]
    OBVIOUS
  <2> HIDE DEF h, Solved
  <2> QED BY <1>2, <2>1 DEF Solves
<1>4. Solved \subseteq S
  OBVIOUS
<1>5. SUFFICES ASSUME Solved # S PROVE FALSE
  <2> HIDE DEF h, Solved
  <2> QED BY <1>3, <1>5
<1>6. PICK e \in S \ Solved : parts[e] \subseteq Solved
  <2> HIDE DEF Solved
  <2>1. S \ Solved \in SUBSET S /\ S \ Solved # {}
    BY <1>4, <1>5
  <2>2. PICK e \in S \ Solved : parts[e] \cap (S \ Solved) = {}
    BY <2>1
  <2> QED BY <2>2
<1> DEFINE U == Solved \cup {e}
           last == step[<<e, {h[p] : p \in parts[e]}>>]
           g == [x \in U |-> IF x = e THEN last ELSE h[x]]
<1> HIDE DEF h, Solved
<1>7. last \in V
  <2> DEFINE before == {h[p] : p \in parts[e]}
  <2>1. \A p \in parts[e] : h[p] \in V
    BY <1>2, <1>6
  <2>0. before \in SUBSET V
    BY <2>1
  <2> HIDE DEF before
  <2>2. step[<<e, before>>] \in V
    BY <1>6, <2>0
  <2> QED BY <2>2 DEF before
<1> HIDE DEF last
<1>8. /\ g[e] = last /\ \A x \in Solved : g[x] = h[x]
      /\ \A x \in U : parts[x] \subseteq Solved
  BY <1>2, <1>6
<1>9. g \in [U -> V]
  BY <1>2, <1>6, <1>7
<1> HIDE DEF g
<1>10. ASSUME NEW x \in U PROVE g[x] = step[<<x, {g[p] : p \in parts[x]}>>]
  <2>0. \A p \in parts[x] : g[p] = h[p]
    BY <1>8
  <2>1. {g[p] : p \in parts[x]} = {h[p] : p \in parts[x]}
    BY <2>0
  <2>2. CASE x = e
    BY <1>8, <2>1, <2>2 DEF last
  <2>3. CASE x # e
    <3>1. x \in Solved
      BY <2>3
    <3> QED BY <1>2, <1>8, <2>1, <3>1
  <2> QED BY <2>2, <2>3
<1>11. Solves(g, U, parts, V, step) /\ U \in SUBSET S
  BY <1>4, <1>6, <1>8, <1>9, <1>10 DEF Solves
<1> HIDE DEF U
<1>12. e \in U
  BY DEF U
<1> QED BY <1>1, <1>6, <1>11, <1>12

-----------------------------------------------------------------------------
(* What helpers make of predicates, record by record. *)

LEMMA ConstantPredicates ==
  /\ True \in Predicates /\ False \in Predicates /\ True # False
  /\ \A record \in Records : True.truth[record] = "true" /\ False.truth[record] = "false"
BY DEF True, False, Predicate, Predicates, Truths

LEMMA Selections ==
  ASSUME NEW f \in [Records -> Truths]
  PROVE  /\ Predicate("selects", f) \in Predicates /\ Predicate("selects", f).truth = f
         /\ Predicate("selects", f) # True /\ Predicate("selects", f) # False
BY DEF True, False, Predicate, Predicates

LEMMA TruthsOfMany ==
  ASSUME NEW S \in SUBSET Truths
  PROVE  /\ AllOf(S) \in Truths /\ AnyOf(S) \in Truths
         /\ AllOf(S) = "true" <=> \A t \in S : t = "true"
         /\ AllOf(S) = "false" <=> "false" \in S
         /\ AnyOf(S) = "true" <=> "true" \in S
         /\ AnyOf(S) = "false" <=> \A t \in S : t = "false"
BY DEF AllOf, AnyOf, Truths

LEMMA AndIsExact ==
  ASSUME NEW parts \in SUBSET Predicates
  PROVE  /\ AndPredicates(parts) \in Predicates
         /\ AndPredicates(parts) = False <=> False \in parts
         /\ \A record \in Records :
              /\ AndPredicates(parts).truth[record] = "true"
                   <=> \A p \in parts : p.truth[record] = "true"
              /\ AndPredicates(parts).truth[record] = "false"
                   <=> \E p \in parts : p.truth[record] = "false"
<1> DEFINE retained == parts \ {True}
           all == [record \in Records |-> AllOf({p.truth[record] : p \in retained})]
<1>1. CASE False \in parts
  <2>1. AndPredicates(parts) = False
    BY <1>1 DEF AndPredicates
  <2> QED BY <1>1, <2>1, ConstantPredicates
<1>2. CASE False \notin parts /\ retained = {}
  <2>1. AndPredicates(parts) = True /\ parts \subseteq {True}
    BY <1>2 DEF AndPredicates
  <2> QED BY <1>2, <2>1, ConstantPredicates
<1>3. CASE False \notin parts /\ retained # {}
  <2>1. AndPredicates(parts) = Predicate("selects", all)
    BY <1>3 DEF AndPredicates
  <2>2. ASSUME NEW record \in Records
        PROVE  /\ {p.truth[record] : p \in retained} \in SUBSET Truths
               /\ all[record] = AllOf({p.truth[record] : p \in retained})
    <3>1. \A p \in Predicates : p.truth[record] \in Truths
      BY DEF Predicates
    <3>2. \A p \in retained : p.truth[record] \in Truths
      BY <3>1
    <3>3. {p.truth[record] : p \in retained} \in SUBSET Truths
      <4> HIDE DEF retained
      <4> QED BY <3>2
    <3> QED BY <3>3
  <2>3. all \in [Records -> Truths]
    <3>1. \A record \in Records : AllOf({p.truth[record] : p \in retained}) \in Truths
      <4> HIDE DEF retained
      <4> QED BY <2>2, TruthsOfMany
    <3> HIDE DEF retained
    <3> QED BY <3>1
  <2>4. AndPredicates(parts).truth = all /\ AndPredicates(parts) # False
        /\ AndPredicates(parts) \in Predicates
    <3> HIDE DEF all
    <3> QED BY <2>1, <2>3, Selections
  <2>5. ASSUME NEW record \in Records
        PROVE  /\ all[record] = "true" <=> \A p \in parts : p.truth[record] = "true"
               /\ all[record] = "false" <=> \E p \in parts : p.truth[record] = "false"
    <3> DEFINE truths == {p.truth[record] : p \in retained}
    <3>1. /\ all[record] = "true" <=> \A t \in truths : t = "true"
          /\ all[record] = "false" <=> "false" \in truths
      <4>1. truths \in SUBSET Truths /\ all[record] = AllOf(truths)
        BY <2>2
      <4> HIDE DEF truths, all
      <4> QED BY <4>1, TruthsOfMany
    <3>2. \A p \in parts : p \in retained \/ p.truth[record] = "true"
      BY ConstantPredicates
    <3> HIDE DEF all
    <3>3. (\A t \in truths : t = "true") <=> (\A p \in retained : p.truth[record] = "true")
      OBVIOUS
    <3>4. "false" \in truths <=> \E p \in retained : p.truth[record] = "false"
      OBVIOUS
    <3> HIDE DEF truths
    <3>5. \A p \in retained : p \in parts
      OBVIOUS
    <3> HIDE DEF retained
    <3> QED BY <3>1, <3>2, <3>3, <3>4, <3>5
  <2> HIDE DEF all, retained
  <2> QED BY <1>3, <2>4, <2>5
<1> QED BY <1>1, <1>2, <1>3

LEMMA OrIsExact ==
  ASSUME NEW parts \in SUBSET Predicates
  PROVE  /\ OrPredicates(parts) \in Predicates
         /\ OrPredicates(parts) = False <=> parts \subseteq {False}
         /\ \A record \in Records :
              /\ OrPredicates(parts).truth[record] = "true"
                   <=> \E p \in parts : p.truth[record] = "true"
              /\ OrPredicates(parts).truth[record] = "false"
                   <=> \A p \in parts : p.truth[record] = "false"
<1> DEFINE retained == parts \ {False}
           any == [record \in Records |-> AnyOf({p.truth[record] : p \in retained})]
<1>1. CASE True \in parts
  <2>1. OrPredicates(parts) = True
    BY <1>1 DEF OrPredicates
  <2> QED BY <1>1, <2>1, ConstantPredicates
<1>2. CASE True \notin parts /\ retained = {}
  <2>1. OrPredicates(parts) = False /\ parts \subseteq {False}
    BY <1>2 DEF OrPredicates
  <2> QED BY <1>2, <2>1, ConstantPredicates
<1>3. CASE True \notin parts /\ retained # {}
  <2>1. OrPredicates(parts) = Predicate("selects", any)
    BY <1>3 DEF OrPredicates
  <2>2. ASSUME NEW record \in Records
        PROVE  /\ {p.truth[record] : p \in retained} \in SUBSET Truths
               /\ any[record] = AnyOf({p.truth[record] : p \in retained})
    <3>1. \A p \in Predicates : p.truth[record] \in Truths
      BY DEF Predicates
    <3>2. \A p \in retained : p.truth[record] \in Truths
      BY <3>1
    <3>3. {p.truth[record] : p \in retained} \in SUBSET Truths
      <4> HIDE DEF retained
      <4> QED BY <3>2
    <3> QED BY <3>3
  <2>3. any \in [Records -> Truths]
    <3>1. \A record \in Records : AnyOf({p.truth[record] : p \in retained}) \in Truths
      <4> HIDE DEF retained
      <4> QED BY <2>2, TruthsOfMany
    <3> HIDE DEF retained
    <3> QED BY <3>1
  <2>4. OrPredicates(parts).truth = any /\ OrPredicates(parts) # False
        /\ OrPredicates(parts) \in Predicates
    <3> HIDE DEF any
    <3> QED BY <2>1, <2>3, Selections
  <2>5. ASSUME NEW record \in Records
        PROVE  /\ any[record] = "true" <=> \E p \in parts : p.truth[record] = "true"
               /\ any[record] = "false" <=> \A p \in parts : p.truth[record] = "false"
    <3> DEFINE truths == {p.truth[record] : p \in retained}
    <3>1. /\ any[record] = "true" <=> "true" \in truths
          /\ any[record] = "false" <=> \A t \in truths : t = "false"
      <4>1. truths \in SUBSET Truths /\ any[record] = AnyOf(truths)
        BY <2>2
      <4> HIDE DEF truths, any
      <4> QED BY <4>1, TruthsOfMany
    <3>2. \A p \in parts : p \in retained \/ p.truth[record] = "false"
      BY ConstantPredicates
    <3> HIDE DEF any
    <3>3. (\A t \in truths : t = "false") <=> (\A p \in retained : p.truth[record] = "false")
      OBVIOUS
    <3>4. "true" \in truths <=> \E p \in retained : p.truth[record] = "true"
      OBVIOUS
    <3> HIDE DEF truths
    <3>5. \A p \in retained : p \in parts
      OBVIOUS
    <3> HIDE DEF retained
    <3> QED BY <3>1, <3>2, <3>3, <3>4, <3>5
  <2>6. ~ (parts \subseteq {False})
    BY <1>3
  <2> HIDE DEF any, retained
  <2> QED BY <2>4, <2>5, <2>6
<1> QED BY <1>1, <1>2, <1>3

LEMMA NegationIsExact ==
  ASSUME NEW p \in Predicates
  PROVE  /\ NegatePredicate(p) \in Predicates
         /\ \A record \in Records :
              NegatePredicate(p).truth[record] = "true" <=> p.truth[record] = "false"
<1>1. CASE p = True \/ p = False
  BY <1>1, ConstantPredicates DEF NegatePredicate
<1>2. CASE p # True /\ p # False
  <2> DEFINE f == [record \in Records |-> Opposite(p.truth[record])]
  <2>1. NegatePredicate(p) = Predicate("selects", f)
    BY <1>2 DEF NegatePredicate
  <2>2. \A record \in Records : p.truth[record] \in Truths
    BY DEF Predicates
  <2>3. \A t \in Truths : Opposite(t) \in Truths /\ (Opposite(t) = "true" <=> t = "false")
    BY DEF Truths, Opposite
  <2>4. f \in [Records -> Truths]
    BY <2>2, <2>3
  <2>5. NegatePredicate(p).truth = f /\ NegatePredicate(p) \in Predicates
    <3> HIDE DEF f
    <3> QED BY <2>1, <2>4, Selections
  <2> QED BY <2>2, <2>3, <2>5
<1> QED BY <1>1, <1>2

\* What a condition on a column selects is a predicate.
LEMMA ConditionIsPredicate ==
  ASSUME NEW condition \in Conditions
  PROVE  CompiledCondition(condition) \in Predicates
<1>1. ASSUME NEW field, NEW values PROVE In(field, values) \in Predicates
  <2> DEFINE f == [record \in Records |->
                IF values = {} THEN "false"
                ELSE IF record[field] = Unset THEN "unknown"
                ELSE IF record[field] \in values THEN "true" ELSE "false"]
  <2>1. f \in [Records -> Truths]
    BY DEF Truths
  <2>2. Predicate("selects", f) \in Predicates
    <3> HIDE DEF f
    <3> QED BY <2>1, Selections
  <2>3. In(field, values) \in {False, Predicate("selects", f)}
    BY DEF In
  <2> HIDE DEF f
  <2> QED BY <2>2, <2>3, ConstantPredicates
<1>2. FromOperator \in Predicates
  BY <1>1, ConstantPredicates DEF FromOperator
<1> QED BY <1>1, <1>2 DEF CompiledCondition, Conditions

-----------------------------------------------------------------------------
(* Expressions: what they compile to, and what is within them. *)

LEMMA DocumentsAreNested ==
  /\ \A e \in Documents : e.type \in {"all", "and", "or", "condition"} /\ e.parts \subseteq Documents
  /\ \A e \in Documents : e.type \in {"and", "or"} => e.parts # {}
  /\ \A e \in Documents : e.type = "condition" => e.condition \in Conditions
  /\ \A T \in SUBSET Documents : T # {} => \E e \in T : e.parts \cap T = {}
BY DataAssumption

\* A function of expressions is defined by what it is for their parts.
FromParts(f, step) == \A e \in Documents : f[e] = step[<<e, {f[p] : p \in e.parts}>>]

LEMMA ByParts ==
  ASSUME NEW V, NEW step \in [Documents \X SUBSET V -> V]
  PROVE  \E f \in [Documents -> V] : FromParts(f, step)
<1> DEFINE parts == [e \in Documents |-> e.parts]
<1>1. parts \in [Documents -> SUBSET Documents]
  BY DocumentsAreNested
<1>2. \A T \in SUBSET Documents : T # {} => \E e \in T : parts[e] \cap T = {}
  BY DocumentsAreNested
<1>3. PICK f : Solves(f, Documents, parts, V, step)
  <2> HIDE DEF parts
  <2> QED BY <1>1, <1>2, RecursionExists
<1> QED BY <1>3 DEF Solves, FromParts

LEMMA CompiledSteps ==
  /\ Compiled \in [Documents -> Predicates]
  /\ \A e \in Documents :
       /\ e.type = "all" => Compiled[e] = True
       /\ e.type = "and" => Compiled[e] = AndPredicates({Compiled[part] : part \in e.parts})
       /\ e.type = "or" => Compiled[e] = OrPredicates({Compiled[part] : part \in e.parts})
       /\ e.type = "condition" => Compiled[e] = CompiledCondition(e.condition)
<1> DEFINE Value(e, S) == IF e.type = "all" THEN True
                          ELSE IF e.type = "and" THEN AndPredicates(S)
                          ELSE IF e.type = "or" THEN OrPredicates(S)
                          ELSE CompiledCondition(e.condition)
           Is(f) == f = [e \in Documents |-> Value(e, {f[part] : part \in e.parts})]
           step == [x \in Documents \X SUBSET Predicates |-> Value(x[1], x[2])]
<1>1. \A e \in Documents, S \in SUBSET Predicates : Value(e, S) \in Predicates
  BY DocumentsAreNested, ConstantPredicates, AndIsExact, OrIsExact, ConditionIsPredicate
<1>2. step \in [Documents \X SUBSET Predicates -> Predicates]
  <2> HIDE DEF Value
  <2> QED BY <1>1
<1>3. PICK f \in [Documents -> Predicates] : FromParts(f, step)
  <2> HIDE DEF step
  <2> QED BY <1>2, ByParts
<1>4. Is(f)
  <2>1. ASSUME NEW e \in Documents PROVE f[e] = Value(e, {f[p] : p \in e.parts})
    <3> DEFINE S == {f[p] : p \in e.parts}
    <3>1. S \in SUBSET Predicates
      BY DocumentsAreNested
    <3> HIDE DEF S, Value
    <3>2. step[<<e, S>>] = Value(e, S)
      BY <3>1
    <3> QED BY <1>3, <3>2 DEF S, FromParts
  <2> HIDE DEF Value
  <2> QED BY <2>1
<1>5. Compiled = CHOOSE g : Is(g)
  BY DEF Compiled
<1>6. Is(Compiled)
  <2> HIDE DEF Is
  <2> QED BY <1>4, <1>5
<1>7. \A e \in Documents : Compiled[e] = Value(e, {Compiled[part] : part \in e.parts})
  <2> HIDE DEF Value
  <2> QED BY <1>6
<1>8. Compiled \in [Documents -> Predicates]
  <2> DEFINE Bad == {e \in Documents : Compiled[e] \notin Predicates}
  <2>1. CASE Bad = {}
    <3>1. Compiled = [e \in Documents |-> Compiled[e]]
      <4> HIDE DEF Value
      <4> QED BY <1>6
    <3> QED BY <2>1, <3>1
  <2>2. CASE Bad # {}
    <3>1. PICK e \in Bad : e.parts \cap Bad = {}
      <4>1. Bad \in SUBSET Documents
        OBVIOUS
      <4> HIDE DEF Bad
      <4> QED BY <2>2, <4>1, DocumentsAreNested
    <3> DEFINE S == {Compiled[part] : part \in e.parts}
    <3>2. S \in SUBSET Predicates
      BY <3>1, DocumentsAreNested
    <3> HIDE DEF S, Value
    <3>3. Value(e, S) \in Predicates
      BY <1>1, <3>2
    <3> QED BY <1>7, <3>1, <3>3 DEF S
  <2> QED BY <2>1, <2>2
<1> HIDE DEF Is
<1> QED BY <1>7, <1>8

LEMMA WithinSteps ==
  \A e \in Documents :
    /\ e \in Within[e] /\ \A part \in e.parts : Within[part] \subseteq Within[e]
    /\ \A part \in e.parts : part \in Within[e]
<1> DEFINE Value(e, S) == {e} \cup UNION S
           Is(f) == f = [e \in Documents |-> Value(e, {f[part] : part \in e.parts})]
           step == [x \in Documents \X SUBSET (SUBSET Documents) |-> Value(x[1], x[2])]
<1>1. \A e \in Documents, S \in SUBSET (SUBSET Documents) : Value(e, S) \in SUBSET Documents
  OBVIOUS
<1>2. step \in [Documents \X SUBSET (SUBSET Documents) -> SUBSET Documents]
  <2> HIDE DEF Value
  <2> QED BY <1>1
<1>3. PICK f \in [Documents -> SUBSET Documents] : FromParts(f, step)
  <2> HIDE DEF step
  <2> QED BY <1>2, ByParts
<1>4. Is(f)
  <2>1. ASSUME NEW e \in Documents PROVE f[e] = Value(e, {f[p] : p \in e.parts})
    <3> DEFINE S == {f[p] : p \in e.parts}
    <3>1. S \in SUBSET (SUBSET Documents)
      BY DocumentsAreNested
    <3> HIDE DEF S, Value
    <3>2. step[<<e, S>>] = Value(e, S)
      BY <3>1
    <3> QED BY <1>3, <3>2 DEF S, FromParts
  <2> HIDE DEF Value
  <2> QED BY <2>1
<1>5. Within = CHOOSE g : Is(g)
  BY DEF Within
<1>6. Is(Within)
  <2> HIDE DEF Is
  <2> QED BY <1>4, <1>5
<1>7. \A e \in Documents : Within[e] = {e} \cup UNION {Within[part] : part \in e.parts}
  BY <1>6
<1> HIDE DEF Is
<1>8. \A e \in Documents : e \in Within[e]
  BY <1>7
<1> QED BY <1>7, <1>8, DocumentsAreNested

LEMMA PossibleSteps ==
  \A e \in Documents, record \in Records :
    /\ e.type = "all" => Possible[e][record] = {"in"}
    /\ e.type = "condition" => Possible[e][record] = Covers(e.condition, record)
    /\ e.type = "and" =>
         /\ Possible[e][record] \subseteq {"in", "out"}
         /\ "in" \in Possible[e][record] <=> \A part \in e.parts : "in" \in Possible[part][record]
         /\ "out" \in Possible[e][record] <=> \E part \in e.parts : "out" \in Possible[part][record]
    /\ e.type = "or" =>
         /\ Possible[e][record] \subseteq {"in", "out"}
         /\ "in" \in Possible[e][record] <=> \E part \in e.parts : "in" \in Possible[part][record]
         /\ "out" \in Possible[e][record] <=> \A part \in e.parts : "out" \in Possible[part][record]
<1> DEFINE Sides == {"in", "out"}
           V == [Records -> SUBSET Sides]
           Value(e, S) ==
             [record \in Records |->
               IF e.type = "all" THEN {"in"}
               ELSE IF e.type = "condition" THEN Covers(e.condition, record)
               ELSE {v \in Sides :
                       IF (e.type = "and") = (v = "in") THEN \A g \in S : v \in g[record]
                       ELSE \E g \in S : v \in g[record]}]
           Side(e, f) ==
             [record \in Records |->
               IF e.type = "all" THEN {"in"}
               ELSE IF e.type = "condition" THEN Covers(e.condition, record)
               ELSE {v \in {"in", "out"} :
                       IF (e.type = "and") = (v = "in") THEN \A part \in e.parts : v \in f[part][record]
                       ELSE \E part \in e.parts : v \in f[part][record]}]
           Is(f) == f = [e \in Documents |-> Side(e, f)]
           step == [x \in Documents \X SUBSET V |-> Value(x[1], x[2])]
<1>1. ASSUME NEW e \in Documents, NEW S PROVE Value(e, S) \in V
  <2>1. \A condition, record : Covers(condition, record) \in SUBSET Sides
    BY DEF Covers
  <2> QED BY <2>1, DocumentsAreNested
<1>2. step \in [Documents \X SUBSET V -> V]
  <2> HIDE DEF Value, V
  <2> QED BY <1>1
<1>3. PICK f \in [Documents -> V] : FromParts(f, step)
  <2> HIDE DEF step, V
  <2> QED BY <1>2, ByParts
<1>4. Is(f)
  <2>1. ASSUME NEW e \in Documents PROVE f[e] = Side(e, f)
    <3> DEFINE S == {f[p] : p \in e.parts}
    <3>1. S \in SUBSET V
      <4> HIDE DEF V
      <4> QED BY DocumentsAreNested
    <3>2. f[e] = Value(e, S)
      <4> HIDE DEF S, Value, V
      <4>2. step[<<e, S>>] = Value(e, S)
        BY <3>1
      <4> QED BY <1>3, <4>2 DEF S, FromParts
    <3>3. Value(e, S) = Side(e, f)
      OBVIOUS
    <3> QED BY <3>2, <3>3
  <2> HIDE DEF Side
  <2> QED BY <2>1
<1>5. Possible = CHOOSE g : Is(g)
  BY DEF Possible
<1>6. Is(Possible)
  <2> HIDE DEF Is
  <2> QED BY <1>4, <1>5
<1>7. \A e \in Documents : Possible[e] = Side(e, Possible)
  <2> HIDE DEF Side
  <2> QED BY <1>6
<1> HIDE DEF Is
<1>8. ASSUME NEW e \in Documents, NEW record \in Records
      PROVE  Possible[e][record] =
               IF e.type = "all" THEN {"in"}
               ELSE IF e.type = "condition" THEN Covers(e.condition, record)
               ELSE {v \in {"in", "out"} :
                       IF (e.type = "and") = (v = "in")
                       THEN \A part \in e.parts : v \in Possible[part][record]
                       ELSE \E part \in e.parts : v \in Possible[part][record]}
  BY <1>7
<1> SUFFICES ASSUME NEW e \in Documents, NEW record \in Records
             PROVE  /\ e.type = "all" => Possible[e][record] = {"in"}
                    /\ e.type = "condition" => Possible[e][record] = Covers(e.condition, record)
                    /\ e.type = "and" =>
                         /\ Possible[e][record] \subseteq {"in", "out"}
                         /\ "in" \in Possible[e][record] <=> \A part \in e.parts : "in" \in Possible[part][record]
                         /\ "out" \in Possible[e][record] <=> \E part \in e.parts : "out" \in Possible[part][record]
                    /\ e.type = "or" =>
                         /\ Possible[e][record] \subseteq {"in", "out"}
                         /\ "in" \in Possible[e][record] <=> \E part \in e.parts : "in" \in Possible[part][record]
                         /\ "out" \in Possible[e][record] <=> \A part \in e.parts : "out" \in Possible[part][record]
  OBVIOUS
<1>9. CASE e.type = "all"
  BY <1>8, <1>9
<1>10. CASE e.type = "condition"
  BY <1>8, <1>10
<1>11. CASE e.type = "and"
  <2>1. Possible[e][record] =
          {v \in {"in", "out"} :
             IF (e.type = "and") = (v = "in")
             THEN \A part \in e.parts : v \in Possible[part][record]
             ELSE \E part \in e.parts : v \in Possible[part][record]}
    BY <1>8, <1>11
  <2> QED BY <1>11, <2>1
<1>12. CASE e.type = "or"
  <2>1. Possible[e][record] =
          {v \in {"in", "out"} :
             IF (e.type = "and") = (v = "in")
             THEN \A part \in e.parts : v \in Possible[part][record]
             ELSE \E part \in e.parts : v \in Possible[part][record]}
    BY <1>8, <1>12
  <2> QED BY <1>12, <2>1
<1> QED BY <1>9, <1>10, <1>11, <1>12, DocumentsAreNested

-----------------------------------------------------------------------------
(* What the compiled expression of a record says of it. *)

LEMMA ConditionsAreCovered ==
  ASSUME NEW condition \in Conditions, NEW record \in Records
  PROVE  /\ Covers(condition, record) \subseteq {"in", "out"}
         /\ CompiledCondition(condition).truth[record] = "true" =>
              Covers(condition, record) = {"in"}
         /\ CompiledCondition(condition).truth[record] = "false" /\ CompiledCondition(condition) # False =>
              "in" \notin Covers(condition, record)
         /\ Compiles(condition) /\ "out" \notin Covers(condition, record) =>
              CompiledCondition(condition).truth[record] = "true"
         /\ Compiles(condition) /\ "in" \notin Covers(condition, record) =>
              CompiledCondition(condition).truth[record] = "false"
<1>1. CompiledCondition(condition).truth[record] \in Truths
  BY ConditionIsPredicate DEF Predicates
<1>2. CompiledCondition(condition).truth[record] = "true" => CompiledCondition(condition) # False
  BY ConstantPredicates
<1> QED BY <1>1, <1>2 DEF Covers, Compiles, Truths

LEMMA PartsCompile ==
  ASSUME NEW e \in Documents
  PROVE  /\ {Compiled[part] : part \in e.parts} \in SUBSET Predicates
         /\ \A p \in {Compiled[part] : part \in e.parts} :
              \E part \in e.parts : p = Compiled[part]
         /\ \A part \in e.parts : /\ part \in Documents /\ Compiled[part] \in Predicates
                                  /\ Compiled[part] \in {Compiled[q] : q \in e.parts}
<1>1. \A part \in e.parts : part \in Documents /\ Compiled[part] \in Predicates
  BY DocumentsAreNested, CompiledSteps
<1> QED BY <1>1

SaysAsAnd(e, record) ==
  /\ Compiled[e] = False <=> \E part \in e.parts : Compiled[part] = False
  /\ Compiled[e].truth[record] = "true"
       <=> \A part \in e.parts : Compiled[part].truth[record] = "true"
  /\ Compiled[e].truth[record] = "false"
       <=> \E part \in e.parts : Compiled[part].truth[record] = "false"

SaysAsOr(e, record) ==
  /\ Compiled[e] = False <=> \A part \in e.parts : Compiled[part] = False
  /\ Compiled[e].truth[record] = "true"
       <=> \E part \in e.parts : Compiled[part].truth[record] = "true"
  /\ Compiled[e].truth[record] = "false"
       <=> \A part \in e.parts : Compiled[part].truth[record] = "false"

LEMMA JoinedExactly ==
  ASSUME NEW e \in Documents, NEW record \in Records
  PROVE  /\ e.type = "and" => SaysAsAnd(e, record)
         /\ e.type = "or" => SaysAsOr(e, record)
<1> DEFINE made == {Compiled[part] : part \in e.parts}
<1>1. /\ made \in SUBSET Predicates
      /\ e.type = "and" => Compiled[e] = AndPredicates(made)
      /\ e.type = "or" => Compiled[e] = OrPredicates(made)
  BY PartsCompile, CompiledSteps
<1>2. /\ False \in made <=> \E part \in e.parts : Compiled[part] = False
      /\ made \subseteq {False} <=> \A part \in e.parts : Compiled[part] = False
  OBVIOUS
<1>3. ASSUME NEW t
      PROVE  /\ (\A p \in made : p.truth[record] = t)
                  <=> \A part \in e.parts : Compiled[part].truth[record] = t
             /\ (\E p \in made : p.truth[record] = t)
                  <=> \E part \in e.parts : Compiled[part].truth[record] = t
  OBVIOUS
<1> HIDE DEF made
<1>4. /\ AndPredicates(made) = False <=> False \in made
      /\ AndPredicates(made).truth[record] = "true" <=> \A p \in made : p.truth[record] = "true"
      /\ AndPredicates(made).truth[record] = "false" <=> \E p \in made : p.truth[record] = "false"
  BY <1>1, AndIsExact
<1>5. /\ OrPredicates(made) = False <=> made \subseteq {False}
      /\ OrPredicates(made).truth[record] = "true" <=> \E p \in made : p.truth[record] = "true"
      /\ OrPredicates(made).truth[record] = "false" <=> \A p \in made : p.truth[record] = "false"
  BY <1>1, OrIsExact
<1>6. ASSUME e.type = "and" PROVE SaysAsAnd(e, record)
  <2>1. Compiled[e] = AndPredicates(made)
    BY <1>1, <1>6
  <2> QED BY <1>2, <1>3, <1>4, <2>1 DEF SaysAsAnd
<1>7. ASSUME e.type = "or" PROVE SaysAsOr(e, record)
  <2>1. Compiled[e] = OrPredicates(made)
    BY <1>1, <1>7
  <2> QED BY <1>2, <1>3, <1>5, <2>1 DEF SaysAsOr
<1> QED BY <1>6, <1>7

\* A record an expression selects is surely covered; one it does not select is
\* surely not, when no alternative has been left out of the expression.
SaysWhatItMay(e, record) ==
  /\ Possible[e][record] \subseteq {"in", "out"}
  /\ Compiled[e].truth[record] = "true" => Possible[e][record] = {"in"}
  /\ Compiled[e].truth[record] = "false" /\ Compiled[e] # False /\ ~Shortened(e) =>
       "in" \notin Possible[e][record]

\* When all of it compiles, it says what it surely covers and what it surely
\* does not.
SaysWhatItMust(e, record) ==
  Whole(e) =>
    /\ Compiled[e] # False
    /\ "out" \notin Possible[e][record] => Compiled[e].truth[record] = "true"
    /\ "in" \notin Possible[e][record] => Compiled[e].truth[record] = "false"

LEMMA PartsOfParts ==
  ASSUME NEW e \in Documents, NEW part \in e.parts
  PROVE  /\ part \in Documents
         /\ Shortened(part) => Shortened(e)
         /\ Whole(e) => Whole(part)
         /\ e.type = "or" /\ Compiled[part] = False => Shortened(e)
<1>1. part \in Documents /\ Within[part] \subseteq Within[e] /\ e \in Within[e]
  BY DocumentsAreNested, WithinSteps
<1> QED BY <1>1 DEF Shortened, Whole

LEMMA ExpressionsSay ==
  ASSUME NEW record \in Records
  PROVE  \A e \in Documents : SaysWhatItMay(e, record) /\ SaysWhatItMust(e, record)
<1> DEFINE Bad == {e \in Documents : ~ (SaysWhatItMay(e, record) /\ SaysWhatItMust(e, record))}
<1>1. SUFFICES ASSUME Bad # {} PROVE FALSE
  OBVIOUS
<1>2. PICK e \in Bad : e.parts \cap Bad = {}
  <2>1. Bad \in SUBSET Documents
    OBVIOUS
  <2> HIDE DEF Bad
  <2> QED BY <1>1, <2>1, DocumentsAreNested
<1>3. e \in Documents
  BY <1>2
<1>4. ASSUME NEW part \in e.parts
      PROVE  SaysWhatItMay(part, record) /\ SaysWhatItMust(part, record)
  <2>1. part \in Documents /\ part \notin Bad
    <3> HIDE DEF Bad
    <3> QED BY <1>2, <1>3, PartsOfParts
  <2> QED BY <2>1
<1>5. ~ (SaysWhatItMay(e, record) /\ SaysWhatItMust(e, record))
  BY <1>2
<1> HIDE DEF Bad
<1>6. ASSUME e.type = "all" PROVE SaysWhatItMay(e, record) /\ SaysWhatItMust(e, record)
  <2>1. Compiled[e] = True /\ Possible[e][record] = {"in"}
    BY <1>3, <1>6, CompiledSteps, PossibleSteps
  <2>2. True.truth[record] = "true" /\ True # False
    BY ConstantPredicates
  <2> QED BY <2>1, <2>2 DEF SaysWhatItMay, SaysWhatItMust
<1>7. ASSUME e.type = "condition" PROVE SaysWhatItMay(e, record) /\ SaysWhatItMust(e, record)
  <2>1. /\ Compiled[e] = CompiledCondition(e.condition)
        /\ Possible[e][record] = Covers(e.condition, record)
        /\ e.condition \in Conditions
    BY <1>3, <1>7, CompiledSteps, PossibleSteps, DocumentsAreNested
  <2>2. Whole(e) => Compiles(e.condition)
    BY <1>3, <1>7, WithinSteps DEF Whole
  <2>3. SaysWhatItMay(e, record)
    BY <2>1, ConditionsAreCovered DEF SaysWhatItMay
  <2>4. Compiles(e.condition) => Compiled[e] # False
    BY <2>1 DEF Compiles
  <2> QED BY <2>1, <2>2, <2>3, <2>4, ConditionsAreCovered DEF SaysWhatItMust
<1>8. ASSUME e.type = "and" PROVE SaysWhatItMay(e, record) /\ SaysWhatItMust(e, record)
  <2>1. /\ Possible[e][record] \subseteq {"in", "out"}
        /\ "in" \in Possible[e][record] <=> \A part \in e.parts : "in" \in Possible[part][record]
        /\ "out" \in Possible[e][record] <=> \E part \in e.parts : "out" \in Possible[part][record]
    BY <1>3, <1>8, PossibleSteps
  <2>2. /\ Compiled[e] = False <=> \E part \in e.parts : Compiled[part] = False
        /\ Compiled[e].truth[record] = "true"
             <=> \A part \in e.parts : Compiled[part].truth[record] = "true"
        /\ Compiled[e].truth[record] = "false"
             <=> \E part \in e.parts : Compiled[part].truth[record] = "false"
    BY <1>3, <1>8, JoinedExactly DEF SaysAsAnd
  <2>3. \A part \in e.parts : /\ Shortened(part) => Shortened(e)
                              /\ Whole(e) => Whole(part)
    BY <1>3, PartsOfParts
  <2>4. SaysWhatItMay(e, record)
    BY <1>4, <2>1, <2>2, <2>3 DEF SaysWhatItMay
  <2>5. SaysWhatItMust(e, record)
    BY <1>4, <2>1, <2>2, <2>3 DEF SaysWhatItMust
  <2> QED BY <2>4, <2>5
<1>9. ASSUME e.type = "or" PROVE SaysWhatItMay(e, record) /\ SaysWhatItMust(e, record)
  <2>1. /\ Possible[e][record] \subseteq {"in", "out"}
        /\ "in" \in Possible[e][record] <=> \E part \in e.parts : "in" \in Possible[part][record]
        /\ "out" \in Possible[e][record] <=> \A part \in e.parts : "out" \in Possible[part][record]
    BY <1>3, <1>9, PossibleSteps
  <2>2. /\ Compiled[e] = False <=> \A part \in e.parts : Compiled[part] = False
        /\ Compiled[e].truth[record] = "true"
             <=> \E part \in e.parts : Compiled[part].truth[record] = "true"
        /\ Compiled[e].truth[record] = "false"
             <=> \A part \in e.parts : Compiled[part].truth[record] = "false"
    BY <1>3, <1>9, JoinedExactly DEF SaysAsOr
  <2>3. \A part \in e.parts : /\ Shortened(part) => Shortened(e)
                              /\ Whole(e) => Whole(part)
                              /\ Compiled[part] = False => Shortened(e)
    BY <1>3, <1>9, PartsOfParts
  <2>4. e.parts # {}
    BY <1>3, <1>9, DocumentsAreNested
  <2>5. SaysWhatItMay(e, record)
    BY <1>4, <2>1, <2>2, <2>3 DEF SaysWhatItMay
  <2>6. SaysWhatItMust(e, record)
    BY <1>4, <2>1, <2>2, <2>3, <2>4 DEF SaysWhatItMust
  <2> QED BY <2>5, <2>6
<1> QED BY <1>3, <1>5, <1>6, <1>7, <1>8, <1>9, DocumentsAreNested

-----------------------------------------------------------------------------
(* What the rules of a role show. *)

\* The predicates of the rules of one effect.
LEMMA RulesCompile ==
  ASSUME ruleRows \subseteq DataRules, NEW effect
  PROVE  /\ CompiledOf(effect) \in SUBSET Predicates
         /\ \A p \in CompiledOf(effect) :
              \E r \in ruleRows : r.effect = effect /\ p = Compiled[r.expression]
         /\ \A r \in ruleRows : /\ r.expression \in Documents /\ r.effect \in {"allow", "deny"}
                                /\ r.effect = effect => Compiled[r.expression] \in CompiledOf(effect)
<1>1. \A r \in ruleRows : r.expression \in Documents /\ r.effect \in {"allow", "deny"}
  BY DEF DataRules
<1>2. \A r \in ruleRows : Compiled[r.expression] \in Predicates
  BY <1>1, CompiledSteps
<1> QED BY <1>1, <1>2 DEF CompiledOf

\* What allowing rules select together and denying rules do not.
Decided ==
  AndPredicates({OrPredicates(CompiledOf("allow")), NegatePredicate(OrPredicates(CompiledOf("deny")))})

LEMMA DecidedExactly ==
  ASSUME ruleRows \subseteq DataRules, NEW record \in Records
  PROVE  Decided.truth[record] = "true" <=>
           /\ \E r \in ruleRows : r.effect = "allow" /\ Compiled[r.expression].truth[record] = "true"
           /\ \A r \in ruleRows :
                r.effect = "deny" => Compiled[r.expression].truth[record] = "false"
<1> DEFINE allow == CompiledOf("allow")
           deny == CompiledOf("deny")
           first == OrPredicates(allow)
           second == NegatePredicate(OrPredicates(deny))
<1>1. allow \in SUBSET Predicates /\ deny \in SUBSET Predicates
  BY RulesCompile
<1>2. /\ (\E p \in allow : p.truth[record] = "true") <=>
           \E r \in ruleRows : r.effect = "allow" /\ Compiled[r.expression].truth[record] = "true"
      /\ (\A p \in deny : p.truth[record] = "false") <=>
           \A r \in ruleRows : r.effect = "deny" => Compiled[r.expression].truth[record] = "false"
  <2>1. /\ \A p \in allow : \E r \in ruleRows : r.effect = "allow" /\ p = Compiled[r.expression]
        /\ \A r \in ruleRows : r.effect = "allow" => Compiled[r.expression] \in allow
        /\ \A p \in deny : \E r \in ruleRows : r.effect = "deny" /\ p = Compiled[r.expression]
        /\ \A r \in ruleRows : r.effect = "deny" => Compiled[r.expression] \in deny
    BY RulesCompile
  <2> HIDE DEF allow, deny
  <2> QED BY <2>1
<1> HIDE DEF allow, deny
<1>3. /\ OrPredicates(deny) \in Predicates /\ first \in Predicates
      /\ first.truth[record] = "true" <=> \E p \in allow : p.truth[record] = "true"
      /\ OrPredicates(deny).truth[record] = "false" <=> \A p \in deny : p.truth[record] = "false"
  BY <1>1, OrIsExact
<1>4. /\ second \in Predicates
      /\ second.truth[record] = "true" <=> OrPredicates(deny).truth[record] = "false"
  BY <1>3, NegationIsExact
<1> HIDE DEF first, second
<1>5. AndPredicates({first, second}).truth[record] = "true" <=>
        first.truth[record] = "true" /\ second.truth[record] = "true"
  <2>1. {first, second} \in SUBSET Predicates
    BY <1>3, <1>4
  <2>2. (\A p \in {first, second} : p.truth[record] = "true") <=>
           first.truth[record] = "true" /\ second.truth[record] = "true"
    OBVIOUS
  <2> QED BY <2>1, <2>2, AndIsExact
<1>6. Decided = AndPredicates({first, second})
  BY DEF Decided, first, second, allow, deny
<1> QED BY <1>2, <1>3, <1>4, <1>5, <1>6

LEMMA ShownOnlyIf ==
  ASSUME ruleRows \subseteq DataRules, NEW record \in Shown
  PROVE  /\ admitted
         /\ \/ resource.access = "global" /\ ruleRows = {}
            \/ /\ resource.access # "global"
               /\ \A r \in ruleRows : Compiled[r.expression] # False
               /\ Decided.truth[record] = "true"
<1>1. record \in Records /\ Compile.truth[record] = "true"
  BY DEF Shown
<1>2. Compile # False
  BY <1>1, ConstantPredicates
<1>3. False \notin CompiledOf("allow") \cup CompiledOf("deny") =>
        \A r \in ruleRows : Compiled[r.expression] # False
  BY RulesCompile
<1> QED BY <1>1, <1>2, <1>3 DEF Compile, Decided

LEMMA NothingWidened ==
  ASSUME DataTypeOK
  PROVE  NothingIsWidened
<1>1. ruleRows \subseteq DataRules /\ resource.access \in {"global", "policy"}
  BY DEF DataTypeOK, Resources
<1> SUFFICES ASSUME NEW record \in Shown, ~ (resource.access = "global" /\ admitted /\ ruleRows = {})
             PROVE  /\ admitted /\ resource.access = "policy" /\ Surely("allow", record)
                    /\ \A r \in ruleRows :
                         r.effect = "deny" =>
                           "in" \notin Possible[r.expression][record] \/ Shortened(r.expression)
  BY DEF NothingIsWidened
<1>2. record \in Records
  BY DEF Shown
<1>3. /\ admitted /\ resource.access # "global"
      /\ \A r \in ruleRows : Compiled[r.expression] # False
      /\ Decided.truth[record] = "true"
  BY <1>1, ShownOnlyIf
<1>4. /\ \E r \in ruleRows : r.effect = "allow" /\ Compiled[r.expression].truth[record] = "true"
      /\ \A r \in ruleRows : r.effect = "deny" => Compiled[r.expression].truth[record] = "false"
  BY <1>1, <1>2, <1>3, DecidedExactly
<1>5. \A r \in ruleRows : r.expression \in Documents /\ SaysWhatItMay(r.expression, record)
  BY <1>1, <1>2, ExpressionsSay DEF DataRules
<1>6. Surely("allow", record)
  BY <1>4, <1>5 DEF Surely, SaysWhatItMay
<1> QED BY <1>1, <1>3, <1>4, <1>5, <1>6 DEF SaysWhatItMay

LEMMA NothingLost ==
  ASSUME DataTypeOK
  PROVE  NothingIsLost
<1>1. ruleRows \subseteq DataRules
  BY DEF DataTypeOK
<1> SUFFICES ASSUME admitted, resource.access = "policy", \A r \in ruleRows : Whole(r.expression),
                    NEW record \in Records, Surely("allow", record),
                    \A r \in ruleRows :
                      r.effect = "deny" => "in" \notin Possible[r.expression][record]
             PROVE  record \in Shown
  BY DEF NothingIsLost
<1>2. \A r \in ruleRows :
        /\ r.expression \in Documents
        /\ SaysWhatItMust(r.expression, record)
  BY <1>1, ExpressionsSay DEF DataRules
<1>3. \A r \in ruleRows : Compiled[r.expression] # False
  BY <1>2 DEF SaysWhatItMust
<1>4. False \notin CompiledOf("allow") \cup CompiledOf("deny")
  BY <1>1, <1>3, RulesCompile
<1>5. PICK r \in ruleRows : r.effect = "allow" /\ Possible[r.expression][record] = {"in"}
  BY DEF Surely
<1>6. CompiledOf("allow") # {}
  BY <1>1, <1>5, RulesCompile
<1>7. Compiled[r.expression].truth[record] = "true"
  BY <1>2, <1>5 DEF SaysWhatItMust
<1>8. \A d \in ruleRows : d.effect = "deny" => Compiled[d.expression].truth[record] = "false"
  BY <1>2 DEF SaysWhatItMust
<1>9. Decided.truth[record] = "true"
  BY <1>1, <1>5, <1>7, <1>8, DecidedExactly
<1>10. Compile = Decided
  BY <1>4, <1>6 DEF Compile, Decided
<1> QED BY <1>9, <1>10 DEF Shown

LEMMA DataTypeHolds == DataSpec => []DataTypeOK
<1>1. DataInit => DataTypeOK
  <2>1. 0 \in 0 .. MaxRuleUpdates
    BY DataAssumption
  <2> QED BY <2>1 DEF DataInit, DataTypeOK, ResourceHandlers
<1>2. DataTypeOK /\ [DataNext]_dataVars => DataTypeOK'
  <2> SUFFICES ASSUME DataTypeOK, [DataNext]_dataVars PROVE DataTypeOK'
    OBVIOUS
  <2>1. ASSUME NEW a \in DataRules, NEW b \in DataRules, UpdateRoleDataPermissions({a, b})
        PROVE  DataTypeOK'
    <3>1. ruleUpdates' \in 0 .. MaxRuleUpdates
      BY <2>1, DataAssumption DEF DataTypeOK, UpdateRoleDataPermissions
    <3> QED BY <2>1, <3>1 DEF DataTypeOK, UpdateRoleDataPermissions
  <2>2. ASSUME NEW h \in ResourceHandlers, ChangeHandler(h) PROVE DataTypeOK'
    BY <2>2 DEF DataTypeOK, ChangeHandler
  <2>3. ASSUME WithdrawPermission PROVE DataTypeOK'
    BY <2>3 DEF DataTypeOK, WithdrawPermission
  <2>4. ASSUME UNCHANGED dataVars PROVE DataTypeOK'
    BY <2>4 DEF DataTypeOK, dataVars
  <2> QED BY <2>1, <2>2, <2>3, <2>4 DEF DataNext
<1> QED BY <1>1, <1>2, PTL DEF DataSpec

\* A user is shown exactly the records the rules of his role give him.
THEOREM RecordsHold == DataSpec => []RecordsAreExact
<1>1. DataTypeOK => RecordsAreExact
  BY NothingWidened, NothingLost DEF RecordsAreExact
<1> QED BY <1>1, DataTypeHolds, PTL

-----------------------------------------------------------------------------
(* The rows after a list of rules for fields. *)

FieldRule == [field : Fields, scenario : Scenarios, effect : FieldEffects]
FieldRow == [field : Fields, scenario : Scenarios, effect : FieldEffects, deleted : BOOLEAN]

UniqueRows(rows) == \A i, j \in DOMAIN rows : SameKey(rows[i], rows[j]) => i = j

\* The rows that are not deleted are those of the first n rules, each with the
\* effect of the last rule for its key.
Follow(rows, list, n) ==
  /\ \A k \in DOMAIN rows : ~rows[k].deleted => \E i \in 1 .. n : SameKey(rows[k], list[i])
  /\ \A i \in 1 .. n :
       (\A j \in i + 1 .. n : ~SameKey(list[i], list[j])) =>
         \E k \in DOMAIN rows :
           ~rows[k].deleted /\ SameKey(rows[k], list[i]) /\ rows[k].effect = list[i].effect

LEMMA RowIsFound ==
  ASSUME NEW rows \in Seq(FieldRow), NEW rule \in FieldRule
  PROVE  \/ /\ FoundRow(rows, rule) = 0
            /\ \A k \in DOMAIN rows : ~SameKey(rows[k], rule)
         \/ /\ FoundRow(rows, rule) \in DOMAIN rows
            /\ FoundRow(rows, rule) # 0
            /\ SameKey(rows[FoundRow(rows, rule)], rule)
<1> DEFINE found == {i \in 1 .. Len(rows) : SameKey(rows[i], rule)}
<1>1. FoundRow(rows, rule) = IF found # {} THEN Min(found) ELSE 0
  BY DEF FoundRow, SelectInSeq
<1>2. DOMAIN rows = 1 .. Len(rows)
  OBVIOUS
<1>3. CASE found = {}
  BY <1>1, <1>2, <1>3
<1>4. CASE found # {}
  <2>1. found \subseteq Nat
    OBVIOUS
  <2>2. \E m \in found : \A x \in found : m <= x
    <3> HIDE DEF found
    <3> QED BY <1>4, <2>1, LeastExists
  <2>3. Min(found) \in found
    <3> HIDE DEF found
    <3> QED BY <2>2 DEF Min
  <2> QED BY <1>1, <1>2, <1>4, <2>3
<1> QED BY <1>3, <1>4

LEMMA RuleIsFollowed ==
  ASSUME NEW list \in Seq(FieldRule), NEW n \in Nat, n + 1 <= Len(list),
         NEW rows \in Seq(FieldRow), UniqueRows(rows), Follow(rows, list, n)
  PROVE  /\ WithRule(list[n + 1], rows) \in Seq(FieldRow)
         /\ UniqueRows(WithRule(list[n + 1], rows))
         /\ Follow(WithRule(list[n + 1], rows), list, n + 1)
<1> DEFINE rule == list[n + 1]
           row == [field |-> rule.field, scenario |-> rule.scenario, effect |-> rule.effect,
                   deleted |-> FALSE]
           new == WithRule(rule, rows)
           same == FoundRow(rows, rule)
<1>1. rule \in FieldRule
  <2>1. n + 1 \in 1 .. Len(list)
    OBVIOUS
  <2> QED BY <2>1
<1>2. /\ row \in FieldRow /\ ~row.deleted /\ row.effect = rule.effect
      /\ SameKey(row, rule)
      /\ \A x : (SameKey(row, x) <=> SameKey(rule, x)) /\ (SameKey(x, row) <=> SameKey(x, rule))
  <2>1. rule.field \in Fields /\ rule.scenario \in Scenarios /\ rule.effect \in FieldEffects
    BY <1>1 DEF FieldRule
  <2> QED BY <2>1 DEF FieldRow, SameKey
<1>3. new = IF same = 0 THEN Append(rows, row) ELSE [rows EXCEPT ![same] = row]
  BY DEF WithRule
<1>4. /\ \A x, y : SameKey(x, y) => SameKey(y, x)
      /\ \A x, y, z : SameKey(x, y) /\ SameKey(y, z) => SameKey(x, z)
  BY DEF SameKey
<1>5. PICK at \in Nat :
        /\ at \in DOMAIN new /\ new[at] = row /\ new \in Seq(FieldRow)
        /\ DOMAIN new = DOMAIN rows \cup {at}
        /\ \A k \in DOMAIN new \ {at} : k \in DOMAIN rows /\ new[k] = rows[k] /\ ~SameKey(rows[k], rule)
  <2> HIDE DEF row, rule
  <2>1. CASE same = 0
    <3>1. new = Append(rows, row) /\ \A k \in DOMAIN rows : ~SameKey(rows[k], rule)
      BY <1>1, <1>3, <2>1, RowIsFound
    <3>2. /\ new \in Seq(FieldRow) /\ Len(rows) + 1 \in Nat
          /\ DOMAIN new = DOMAIN rows \cup {Len(rows) + 1}
          /\ new[Len(rows) + 1] = row
          /\ \A k \in DOMAIN rows : new[k] = rows[k]
      BY <1>2, <3>1
    <3> HIDE DEF new
    <3> QED BY <3>1, <3>2
  <2>2. CASE same # 0
    <3>1. same \in DOMAIN rows /\ SameKey(rows[same], rule)
      BY <1>1, <2>2, RowIsFound
    <3>2. new = [rows EXCEPT ![same] = row]
      BY <1>3, <2>2
    <3> HIDE DEF new, same
    <3>3. /\ new \in Seq(FieldRow) /\ same \in Nat
          /\ DOMAIN new = DOMAIN rows /\ new[same] = row
          /\ \A k \in DOMAIN rows \ {same} : new[k] = rows[k]
      BY <1>2, <3>1, <3>2
    <3>4. \A k \in DOMAIN rows \ {same} : ~SameKey(rows[k], rule)
      BY <1>4, <3>1 DEF UniqueRows
    <3> QED BY <3>1, <3>3, <3>4
  <2> QED BY <2>1, <2>2
<1> HIDE DEF new, row, rule
<1>6. UniqueRows(new)
  <2> SUFFICES ASSUME NEW i \in DOMAIN new, NEW j \in DOMAIN new, SameKey(new[i], new[j]) PROVE i = j
    BY DEF UniqueRows
  <2>1. CASE i = at /\ j # at
    BY <1>2, <1>4, <1>5, <2>1
  <2>2. CASE i # at /\ j = at
    BY <1>2, <1>4, <1>5, <2>2
  <2>3. CASE i # at /\ j # at
    BY <1>5, <2>3 DEF UniqueRows
  <2> QED BY <2>1, <2>2, <2>3
<1>7. ASSUME NEW k \in DOMAIN new, ~new[k].deleted
      PROVE  \E i \in 1 .. n + 1 : SameKey(new[k], list[i])
  <2>1. CASE k = at
    <3>1. n + 1 \in 1 .. n + 1 /\ SameKey(new[k], list[n + 1])
      BY <1>2, <1>5, <2>1 DEF rule
    <3> QED BY <3>1
  <2>2. CASE k # at
    <3>1. k \in DOMAIN rows /\ ~rows[k].deleted /\ new[k] = rows[k]
      BY <1>5, <1>7, <2>2
    <3>2. PICK i \in 1 .. n : SameKey(rows[k], list[i])
      BY <3>1 DEF Follow
    <3> QED BY <3>1, <3>2
  <2> QED BY <2>1, <2>2
<1>8. ASSUME NEW i \in 1 .. n + 1, \A j \in i + 1 .. n + 1 : ~SameKey(list[i], list[j])
      PROVE  \E k \in DOMAIN new :
               ~new[k].deleted /\ SameKey(new[k], list[i]) /\ new[k].effect = list[i].effect
  <2>1. CASE i = n + 1
    BY <1>2, <1>5, <2>1 DEF rule
  <2>2. CASE i # n + 1
    <3>1. i \in 1 .. n /\ n + 1 \in i + 1 .. n + 1 /\ \A j \in i + 1 .. n : j \in i + 1 .. n + 1
      BY <2>2
    <3>2. ~SameKey(list[i], rule) /\ \A j \in i + 1 .. n : ~SameKey(list[i], list[j])
      BY <1>8, <3>1 DEF rule
    <3>3. PICK k \in DOMAIN rows :
            ~rows[k].deleted /\ SameKey(rows[k], list[i]) /\ rows[k].effect = list[i].effect
      BY <3>1, <3>2 DEF Follow
    <3>4. k # at
      <4> SUFFICES ASSUME k = at PROVE FALSE
        OBVIOUS
      <4>1. CASE same = 0
        <5>1. ~SameKey(rows[k], rule) /\ Len(rows) + 1 \notin DOMAIN rows
          BY <1>1, <4>1, RowIsFound
        <5>2. DOMAIN new = DOMAIN rows \cup {Len(rows) + 1}
          BY <1>3, <4>1 DEF new
        <5> QED BY <1>5, <5>1, <5>2
      <4>2. CASE same # 0
        <5>1. /\ same \in DOMAIN rows /\ SameKey(rows[same], rule)
              /\ new = [rows EXCEPT ![same] = row]
          BY <1>1, <1>3, <4>2, RowIsFound
        <5>2. CASE same = k
          BY <1>4, <3>2, <3>3, <5>1, <5>2
        <5>3. CASE same # k
          BY <1>2, <1>5, <5>1, <5>3
        <5> QED BY <5>2, <5>3
      <4> QED BY <4>1, <4>2
    <3>5. k \in DOMAIN new /\ new[k] = rows[k]
      BY <1>5, <3>4
    <3> QED BY <3>3, <3>5
  <2> QED BY <2>1, <2>2
<1>9. Follow(new, list, n + 1)
  BY <1>7, <1>8 DEF Follow
<1> QED BY <1>5, <1>6, <1>9 DEF new, rule

\* A list of rules gives the rows of its rules, one for each key.
LEMMA RulesAreFollowed ==
  ASSUME NEW list \in Seq(FieldRule), fieldRows \in Seq(FieldRow), UniqueRows(fieldRows)
  PROVE  /\ AfterRules(list) \in Seq(FieldRow) /\ UniqueRows(AfterRules(list))
         /\ Follow(AfterRules(list), list, Len(list))
<1> DEFINE N == 0 .. Len(list)
           start == Deleted(fieldRows)
           Is(f) == f = [i \in N |-> IF i = 0 THEN start ELSE WithRule(list[i], f[i - 1])]
           parts == [i \in N |-> IF i = 0 THEN {} ELSE {i - 1}]
           last(S) == CHOOSE rows : rows \in S
           step == [x \in N \X SUBSET Seq(FieldRow) |->
                      IF x[1] = 0 \/ x[2] = {} THEN start ELSE WithRule(list[x[1]], last(x[2]))]
<1>1. Len(list) \in Nat
  OBVIOUS
<1>2. /\ start \in Seq(FieldRow) /\ DOMAIN start = DOMAIN fieldRows
      /\ \A i \in DOMAIN start :
           /\ start[i].deleted
           /\ start[i].field = fieldRows[i].field /\ start[i].scenario = fieldRows[i].scenario
  <2>1. ASSUME NEW i \in DOMAIN fieldRows
        PROVE  /\ start[i] \in FieldRow /\ start[i].deleted
               /\ start[i].field = fieldRows[i].field /\ start[i].scenario = fieldRows[i].scenario
    <3>1. fieldRows[i] \in FieldRow
      OBVIOUS
    <3>2. start[i] = [fieldRows[i] EXCEPT !.deleted = TRUE]
      BY DEF Deleted
    <3> QED BY <3>1, <3>2 DEF FieldRow
  <2>2. /\ DOMAIN start = DOMAIN fieldRows /\ start = [i \in DOMAIN fieldRows |-> start[i]]
        /\ DOMAIN fieldRows = 1 .. Len(fieldRows) /\ Len(fieldRows) \in Nat
    BY DEF Deleted
  <2> HIDE DEF start
  <2>3. start \in [1 .. Len(fieldRows) -> FieldRow]
    <3>1. \A i \in DOMAIN fieldRows : start[i] \in FieldRow
      BY <2>1
    <3> QED BY <2>2, <3>1
  <2>4. start \in Seq(FieldRow)
    BY <2>2, <2>3, SeqDef
  <2> QED BY <2>1, <2>2, <2>4
<1> HIDE DEF start
<1>3. \A T \in SUBSET N : T # {} => \E e \in T : parts[e] \cap T = {}
  <2> SUFFICES ASSUME NEW T \in SUBSET N, T # {} PROVE \E e \in T : parts[e] \cap T = {}
    OBVIOUS
  <2>1. T \subseteq Nat
    BY <1>1
  <2>2. PICK e \in T : \A x \in T : e <= x
    BY <2>1, LeastExists
  <2>3. e \in N /\ parts[e] \cap T = {}
    BY <1>1, <2>2
  <2> QED BY <2>2, <2>3
<1>4. parts \in [N -> SUBSET N]
  BY <1>1
<1>5. \A rule \in FieldRule, rows \in Seq(FieldRow) : WithRule(rule, rows) \in Seq(FieldRow)
  <2> SUFFICES ASSUME NEW rule \in FieldRule, NEW rows \in Seq(FieldRow)
               PROVE  WithRule(rule, rows) \in Seq(FieldRow)
    OBVIOUS
  <2> DEFINE row == [field |-> rule.field, scenario |-> rule.scenario, effect |-> rule.effect,
                     deleted |-> FALSE]
  <2>1. row \in FieldRow
    BY DEF FieldRule, FieldRow
  <2> DEFINE same == FoundRow(rows, rule)
  <2>2. WithRule(rule, rows) = IF same = 0 THEN Append(rows, row) ELSE [rows EXCEPT ![same] = row]
    BY DEF WithRule
  <2>3. same = 0 \/ same \in DOMAIN rows
    BY RowIsFound
  <2> HIDE DEF row, same
  <2>4. Append(rows, row) \in Seq(FieldRow)
    BY <2>1
  <2>5. same \in DOMAIN rows => [rows EXCEPT ![same] = row] \in Seq(FieldRow)
    BY <2>1
  <2> QED BY <2>2, <2>3, <2>4, <2>5
<1>6. step \in [N \X SUBSET Seq(FieldRow) -> Seq(FieldRow)]
  <2> SUFFICES ASSUME NEW i \in N, NEW S \in SUBSET Seq(FieldRow), i # 0, S # {}
               PROVE  WithRule(list[i], last(S)) \in Seq(FieldRow)
    BY <1>2
  <2>1. list[i] \in FieldRule /\ last(S) \in S
    BY <1>1
  <2> HIDE DEF last
  <2> QED BY <1>5, <2>1
<1>7. PICK f : Solves(f, N, parts, Seq(FieldRow), step)
  <2> HIDE DEF N, parts, step
  <2> QED BY <1>3, <1>4, <1>6, RecursionExists
<1>8. Is(f)
  <2>1. f = [i \in N |-> f[i]] /\ \A i \in N : f[i] \in Seq(FieldRow)
    BY <1>7 DEF Solves
  <2>2. ASSUME NEW i \in N
        PROVE  f[i] = IF i = 0 THEN start ELSE WithRule(list[i], f[i - 1])
    <3> DEFINE S == {f[p] : p \in parts[i]}
    <3>1. S \in SUBSET Seq(FieldRow)
      BY <1>4, <2>1
    <3>2. f[i] = step[<<i, S>>]
      BY <1>7 DEF Solves
    <3>3. step[<<i, S>>] = IF i = 0 \/ S = {} THEN start ELSE WithRule(list[i], last(S))
      <4> HIDE DEF S, last, N
      <4> QED BY <3>1
    <3>4. CASE i = 0
      <4> HIDE DEF S, last, step
      <4> QED BY <3>2, <3>3, <3>4
    <3>5. CASE i # 0
      <4>1. parts[i] = {i - 1}
        BY <3>5
      <4>2. S = {f[i - 1]}
        BY <4>1
      <4>3. S # {} /\ last(S) = f[i - 1]
        BY <4>2
      <4> HIDE DEF S, last, step
      <4> QED BY <3>2, <3>3, <3>5, <4>3
    <3> QED BY <3>4, <3>5
  <2> HIDE DEF N
  <2> QED BY <2>1, <2>2
<1> DEFINE upTo == CHOOSE g : Is(g)
<1>9. AfterRules(list) = upTo[Len(list)]
  BY DEF AfterRules, start
<1>10. Is(upTo)
  <2> HIDE DEF Is
  <2> QED BY <1>8
<1> HIDE DEF upTo
<1>11. upTo[0] = start /\ \A i \in 1 .. Len(list) : upTo[i] = WithRule(list[i], upTo[i - 1])
  BY <1>1, <1>10
<1> HIDE DEF Is, parts, step
<1> DEFINE Right(i) == /\ upTo[i] \in Seq(FieldRow) /\ UniqueRows(upTo[i])
                       /\ Follow(upTo[i], list, i)
           Wrong == {i \in N : ~Right(i)}
<1>12. Right(0)
  BY <1>2, <1>11 DEF UniqueRows, Follow, SameKey
<1>13. ASSUME NEW i \in N, i # 0, Right(i - 1) PROVE Right(i)
  <2>1. i - 1 \in Nat /\ (i - 1) + 1 = i /\ i \in 1 .. Len(list)
    BY <1>1, <1>13
  <2>2. /\ WithRule(list[i], upTo[i - 1]) \in Seq(FieldRow)
        /\ UniqueRows(WithRule(list[i], upTo[i - 1]))
        /\ Follow(WithRule(list[i], upTo[i - 1]), list, i)
    <3> DEFINE n == i - 1
    <3>1. n \in Nat /\ n + 1 = i /\ n + 1 <= Len(list)
      BY <2>1
    <3>2. upTo[n] \in Seq(FieldRow) /\ UniqueRows(upTo[n]) /\ Follow(upTo[n], list, n)
      BY <1>13
    <3> HIDE DEF n
    <3>3. /\ WithRule(list[n + 1], upTo[n]) \in Seq(FieldRow)
          /\ UniqueRows(WithRule(list[n + 1], upTo[n]))
          /\ Follow(WithRule(list[n + 1], upTo[n]), list, n + 1)
      BY <3>1, <3>2, RuleIsFollowed
    <3> QED BY <3>1, <3>3 DEF n
  <2> QED BY <1>11, <2>1, <2>2
<1>14. Wrong = {}
  <2> SUFFICES ASSUME Wrong # {} PROVE FALSE
    OBVIOUS
  <2>1. Wrong \subseteq Nat
    BY <1>1
  <2>2. PICK i \in Wrong : \A j \in Wrong : i <= j
    <3> HIDE DEF Wrong
    <3> QED BY <2>1, LeastExists
  <2>3. i \in N /\ i # 0 /\ i - 1 \in N /\ ~Right(i)
    <3>1. i \in N /\ ~Right(i)
      BY <2>2
    <3>2. i # 0
      <4> HIDE DEF Right
      <4> QED BY <1>12, <3>1
    <3> HIDE DEF Right
    <3> QED BY <1>1, <3>1, <3>2
  <2>4. i - 1 \notin Wrong
    <3>1. ~ (i <= i - 1)
      BY <1>1, <2>3
    <3> HIDE DEF Wrong
    <3> QED BY <2>2, <3>1
  <2>5. Right(i - 1)
    BY <2>3, <2>4
  <2> HIDE DEF Right
  <2> QED BY <1>13, <2>3, <2>5
<1>15. Len(list) \in N
  BY <1>1
<1>16. Right(Len(list))
  <2> HIDE DEF Right, N
  <2> QED BY <1>14, <1>15
<1> QED BY <1>9, <1>16

-----------------------------------------------------------------------------
(* What is enforced for a role. *)

FieldInv ==
  /\ FieldTypeOK /\ OneRowPerKey
  /\ lastList \in Seq(FieldRule) /\ Follow(fieldRows, lastList, Len(lastList))

LEMMA FieldFacts ==
  ASSUME FieldTypeOK
  PROVE  fieldRows \in Seq(FieldRow) /\ controlled \in [Fields -> SUBSET Scenarios]
BY FieldAssumption DEF FieldTypeOK, FieldRow

LEMMA FieldInvHolds == FieldSpec => []FieldInv
<1>1. FieldInit => FieldInv
  <2> SUFFICES ASSUME FieldInit PROVE FieldInv
    OBVIOUS
  <2>1. /\ controlled \in Declarations /\ fieldRows = <<>> /\ lastList = <<>> /\ fieldUpdates = 0
    BY DEF FieldInit
  <2>2. 0 \in 0 .. MaxFieldUpdates
    BY FieldAssumption
  <2>3. FieldTypeOK
    BY <2>1, <2>2 DEF FieldTypeOK
  <2> QED BY <2>1, <2>3 DEF FieldInv, OneRowPerKey, Follow
<1>2. FieldInv /\ [FieldNext]_fieldVars => FieldInv'
  <2> SUFFICES ASSUME FieldInv, [FieldNext]_fieldVars PROVE FieldInv'
    OBVIOUS
  <2>1. ASSUME NEW list \in RuleLists, UpdateRoleFieldPermissions(list) PROVE FieldInv'
    <3>1. list \in Seq(FieldRule)
      BY FieldAssumption DEF FieldRule
    <3>2. fieldRows \in Seq(FieldRow) /\ UniqueRows(fieldRows)
      BY FieldFacts DEF FieldInv, OneRowPerKey, UniqueRows
    <3>3. /\ fieldRows' \in Seq(FieldRow) /\ UniqueRows(fieldRows')
          /\ Follow(fieldRows', list, Len(list))
      BY <2>1, <3>1, <3>2, RulesAreFollowed DEF UpdateRoleFieldPermissions
    <3>4. fieldUpdates' \in 0 .. MaxFieldUpdates /\ controlled' \in Declarations /\ lastList' = list
      BY <2>1, FieldAssumption DEF UpdateRoleFieldPermissions, FieldInv, FieldTypeOK
    <3>5. FieldTypeOK'
      BY <3>3, <3>4 DEF FieldTypeOK, FieldRow
    <3>6. OneRowPerKey'
      BY <3>3 DEF OneRowPerKey, UniqueRows
    <3> QED BY <3>1, <3>3, <3>4, <3>5, <3>6 DEF FieldInv
  <2>2. ASSUME NEW declaration \in Declarations, Release(declaration) PROVE FieldInv'
    BY <2>2 DEF Release, FieldInv, FieldTypeOK, OneRowPerKey, Follow
  <2>3. ASSUME UNCHANGED fieldVars PROVE FieldInv'
    BY <2>3 DEF fieldVars, FieldInv, FieldTypeOK, OneRowPerKey, Follow
  <2> QED BY <2>1, <2>2, <2>3 DEF FieldNext
<1> QED BY <1>1, <1>2, PTL DEF FieldSpec

LEMMA GreatestExists ==
  ASSUME NEW n \in Nat, NEW S \in SUBSET (1 .. n), S # {}
  PROVE  \E m \in S : \A x \in S : m >= x
<1> DEFINE T == {n - x : x \in S}
<1>1. T \subseteq Nat /\ T # {}
  OBVIOUS
<1>2. PICK t \in T : \A u \in T : t <= u
  <2> HIDE DEF T
  <2> QED BY <1>1, LeastExists
<1>3. PICK m \in S : t = n - m
  BY <1>2
<1>4. ASSUME NEW x \in S PROVE m >= x
  <2>1. n - m <= n - x
    BY <1>2, <1>3
  <2> QED BY <2>1
<1> QED BY <1>4

LEMMA LastRuleIsEnforced ==
  ASSUME FieldInv, NEW s \in Scenarios, NEW f \in Fields
  PROVE  /\ LastEffect(s, f) \in FieldEffects
         /\ \A effect \in {"hidden", "readonly"} :
              f \in FieldsWithEffect(s, effect) <=> LastEffect(s, f) = effect
<1> DEFINE rules == {i \in 1 .. Len(lastList) : lastList[i].scenario = s /\ lastList[i].field = f}
           live == LiveRules(s, f)
<1>1. /\ fieldRows \in Seq(FieldRow) /\ lastList \in Seq(FieldRule) /\ UniqueRows(fieldRows)
      /\ Follow(fieldRows, lastList, Len(lastList)) /\ Len(lastList) \in Nat
  BY FieldFacts DEF FieldInv, OneRowPerKey, UniqueRows
<1>2. LastEffect(s, f) =
        IF rules = {} \/ s \notin controlled[f] THEN "visible" ELSE lastList[Max(rules)].effect
  <2> DEFINE i == SelectLastInSeq(lastList, LAMBDA rule : rule.scenario = s /\ rule.field = f)
  <2>1. i = IF rules # {} THEN Max(rules) ELSE 0
    BY DEF SelectLastInSeq
  <2>2. LastEffect(s, f) = IF i = 0 \/ s \notin controlled[f] THEN "visible" ELSE lastList[i].effect
    BY DEF LastEffect
  <2>3. rules # {} => Max(rules) # 0
    <3> SUFFICES ASSUME rules # {} PROVE Max(rules) # 0
      OBVIOUS
    <3>1. rules \in SUBSET (1 .. Len(lastList))
      OBVIOUS
    <3>2. Max(rules) \in rules
      <4> HIDE DEF rules
      <4> QED BY <1>1, <3>1, GreatestExists DEF Max
    <3> QED BY <3>2
  <2> HIDE DEF i, rules
  <2> QED BY <2>1, <2>2, <2>3
<1>3. \A effect : f \in FieldsWithEffect(s, effect) <=>
        /\ s \in controlled[f] /\ live # {}
        /\ Max({Strength(fieldRows[i].effect) : i \in live}) = Strength(effect)
  BY DEF FieldsWithEffect
<1>4. CASE rules = {}
  <2>1. live = {}
    <3> SUFFICES ASSUME NEW k \in live PROVE FALSE
      OBVIOUS
    <3>1. /\ k \in DOMAIN fieldRows /\ ~fieldRows[k].deleted
          /\ fieldRows[k].scenario = s /\ fieldRows[k].field = f
      BY DEF LiveRules
    <3>2. PICK i \in 1 .. Len(lastList) : SameKey(fieldRows[k], lastList[i])
      BY <1>1, <3>1 DEF Follow
    <3>3. i \in rules
      BY <3>1, <3>2 DEF SameKey
    <3> QED BY <1>4, <3>3
  <2> HIDE DEF live, rules
  <2> QED BY <1>2, <1>3, <1>4, <2>1 DEF FieldEffects
<1>5. CASE rules # {}
  <2> DEFINE m == Max(rules)
  <2>1. m \in rules /\ \A x \in rules : m >= x
    <3>1. rules \in SUBSET (1 .. Len(lastList))
      OBVIOUS
    <3> HIDE DEF rules
    <3> QED BY <1>1, <1>5, <3>1, GreatestExists DEF Max
  <2> HIDE DEF m
  <2>2. /\ m \in 1 .. Len(lastList) /\ lastList[m].scenario = s /\ lastList[m].field = f
        /\ lastList[m].effect \in FieldEffects
    <3>1. \A i \in 1 .. Len(lastList) : lastList[i] \in FieldRule
      BY <1>1
    <3> QED BY <2>1, <3>1 DEF FieldRule
  <2>3. \A j \in m + 1 .. Len(lastList) : ~SameKey(lastList[m], lastList[j])
    <3> SUFFICES ASSUME NEW j \in m + 1 .. Len(lastList), SameKey(lastList[m], lastList[j]) PROVE FALSE
      OBVIOUS
    <3>0. j \in 1 .. Len(lastList) /\ ~ (m >= j)
      <4> DEFINE n == Len(lastList)
      <4>1. n \in Nat /\ m \in 1 .. n /\ j \in m + 1 .. n
        BY <1>1, <2>2
      <4> HIDE DEF n
      <4>2. j \in 1 .. n /\ ~ (m >= j)
        BY <4>1
      <4> QED BY <4>2 DEF n
    <3>2. lastList[j].scenario = s /\ lastList[j].field = f
      BY <2>2 DEF SameKey
    <3>1. j \in rules /\ ~ (m >= j)
      BY <3>0, <3>2
    <3> HIDE DEF rules
    <3> QED BY <2>1, <3>1
  <2>4. PICK k \in DOMAIN fieldRows :
          ~fieldRows[k].deleted /\ SameKey(fieldRows[k], lastList[m])
          /\ fieldRows[k].effect = lastList[m].effect
    BY <1>1, <2>2, <2>3 DEF Follow
  <2>5. live = {k}
    <3>1. k \in live
      BY <2>2, <2>4 DEF LiveRules, SameKey
    <3>2. ASSUME NEW i \in live PROVE i = k
      <4>1. i \in DOMAIN fieldRows /\ SameKey(fieldRows[i], fieldRows[k])
        BY <2>2, <2>4, <3>2 DEF LiveRules, SameKey
      <4> QED BY <1>1, <4>1 DEF UniqueRows
    <3> HIDE DEF live
    <3> QED BY <3>1, <3>2
  <2>6. \A e \in FieldEffects : Strength(e) \in Nat
    BY DEF Strength, FieldEffects
  <2>7. Max({Strength(fieldRows[i].effect) : i \in live}) = Strength(lastList[m].effect)
    <3> DEFINE strength == Strength(lastList[m].effect)
    <3>1. {Strength(fieldRows[i].effect) : i \in live} = {strength}
      <4> HIDE DEF live
      <4> QED BY <2>4, <2>5
    <3>2. strength \in Nat
      BY <2>2, <2>6
    <3> HIDE DEF strength, live
    <3>3. Max({strength}) = strength
      BY <3>2 DEF Max
    <3> QED BY <3>1, <3>3 DEF strength
  <2>8. \A effect \in {"hidden", "readonly"} :
          Strength(lastList[m].effect) = Strength(effect) <=> lastList[m].effect = effect
    BY <2>2 DEF Strength, FieldEffects
  <2>9. LastEffect(s, f) = IF s \notin controlled[f] THEN "visible" ELSE lastList[m].effect
    <3> HIDE DEF rules
    <3> QED BY <1>2, <1>5 DEF m
  <2>10. live # {}
    BY <2>5
  <2> HIDE DEF live, rules
  <2> QED BY <1>3, <2>2, <2>7, <2>8, <2>9, <2>10 DEF FieldEffects
<1> QED BY <1>4, <1>5

LEMMA FieldsAreSoundThen ==
  ASSUME FieldInv
  PROVE  FieldsAreSound
<1>1. ASSUME NEW f \in Fields, NEW s \in ReadScenarios
      PROVE  f \in Filtered(s, Fields) <=> LastEffect(s, f) # "hidden"
  BY LastRuleIsEnforced DEF Filtered, Scenarios
<1>2. ASSUME NEW f \in Fields, NEW s \in WriteScenarios
      PROVE  f \in Rejected(s, Fields) <=> LastEffect(s, f) # "visible"
  <2>1. s \in Scenarios
    BY DEF Scenarios
  <2>2. /\ LastEffect(s, f) \in FieldEffects
        /\ f \in FieldsWithEffect(s, "hidden") <=> LastEffect(s, f) = "hidden"
        /\ f \in FieldsWithEffect(s, "readonly") <=> LastEffect(s, f) = "readonly"
    BY <2>1, LastRuleIsEnforced
  <2> QED BY <2>2 DEF Rejected, FieldEffects
<1> QED BY <1>1, <1>2 DEF FieldsAreSound, FieldsAreEnforced, FieldInv

\* The rules of a role give a user the records and the fields they say:
\* whatever compiles or does not, and whatever rows earlier updates have left.
THEOREM RulesHold == DataSpec /\ FieldSpec => []RulesAreExact
<1>1. FieldSpec => []FieldsAreSound
  BY FieldInvHolds, FieldsAreSoundThen, PTL
<1> QED BY <1>1, RecordsHold, PTL DEF RulesAreExact
=============================================================================
