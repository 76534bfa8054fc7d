--------------------------- MODULE DataPermissions ---------------------------
(***************************************************************************)
(* The records of a business module a user is shown: the rules of his      *)
(* role, compiled to a predicate, and the predicate as the database        *)
(* decides it.  A release may take away what a stored rule needs, and the  *)
(* operator of a module may fail; such a condition compiles to "false".    *)
(***************************************************************************)
EXTENDS Integers, FiniteSets

CONSTANTS
  UserIds, OrganizationIds,   \* values of the owner and organization columns
  CurrentUser, CurrentOrganization,
  Descendants,     \* of the current organization, itself included
  UsersOfRole,     \* of the role a rule may name
  MaxValues,       \* values a predicate may have: 500
  Documents,       \* expressions administrators put into rules
  MaxRules,        \* rules of a role there are
  MaxRuleUpdates   \* updates of the rules there are

Unset == "null"

VARIABLES resource,      \* the declaration of the data resource
          ownOperator,   \* what the module's own operator does
          admitted,      \* the role has the resource's permission
          ruleRows,      \* role_data_permissions of the role that are not deleted
          ruleUpdates

dataVars == <<resource, ownOperator, admitted, ruleRows, ruleUpdates>>

Records == [owner : UserIds \cup {Unset}, organization : OrganizationIds \cup {Unset}]
Conditions == {"current-user", "current-organization", "descendants", "role", "custom"}

\* The parts of an expression are expressions, one at least, nested finitely deep.
ASSUME DataAssumption ==
  /\ {MaxValues, MaxRules, MaxRuleUpdates} \subseteq Nat
  /\ Unset \notin UserIds \cup OrganizationIds
  /\ \A e \in Documents :
       /\ e.type \in {"all", "and", "or", "condition"} /\ e.parts \subseteq Documents
       /\ e.type \in {"and", "or"} => e.parts # {}
       /\ e.type = "condition" => e.condition \in Conditions /\ e.parts = {}
  /\ \A S \in SUBSET Documents : S # {} => \E e \in S : e.parts \cap S = {}

-----------------------------------------------------------------------------
(* Predicates, and what helpers make of them: one of the two constants, or    *)
(* one that selects, with what the database makes of it for each record.  SQL *)
(* knows a third truth: a comparison with NULL is neither true nor false.     *)

Truths == {"true", "false", "unknown"}
Predicate(type, truth) == [type |-> type, truth |-> truth]
Predicates == [type : {"true", "false", "selects"}, truth : [Records -> Truths]]
True == Predicate("true", [record \in Records |-> "true"])
False == Predicate("false", [record \in Records |-> "false"])

AllOf(truths) ==
  IF "false" \in truths THEN "false" ELSE IF "unknown" \in truths THEN "unknown" ELSE "true"
AnyOf(truths) ==
  IF "true" \in truths THEN "true" ELSE IF "unknown" \in truths THEN "unknown" ELSE "false"

\* The one that is left alone says what it said.
AndPredicates(parts) ==
  LET retained == parts \ {True} IN
  IF False \in parts THEN False
  ELSE IF retained = {} THEN True
  ELSE Predicate("selects", [record \in Records |-> AllOf({p.truth[record] : p \in retained})])

OrPredicates(parts) ==
  LET retained == parts \ {False} IN
  IF True \in parts THEN True
  ELSE IF retained = {} THEN False
  ELSE Predicate("selects", [record \in Records |-> AnyOf({p.truth[record] : p \in retained})])

Opposite(t) == CASE t = "true" -> "false" [] t = "false" -> "true" [] OTHER -> t
NegatePredicate(p) ==
  CASE p = True -> False [] p = False -> True
    [] OTHER -> Predicate("selects", [record \in Records |-> Opposite(p.truth[record])])

\* A condition on a column the resource declares, with values the schema admits.
In(field, values) ==
  IF ~resource[field] \/ Cardinality(values) > MaxValues THEN False
  ELSE Predicate("selects", [record \in Records |->
         IF values = {} THEN "false"
         ELSE IF record[field] = Unset THEN "unknown"
         ELSE IF record[field] \in values THEN "true" ELSE "false"])

\* The module's operator: it may throw, name a column that is not declared, or
\* be gone; and it may say that all records match, or none.
FromOperator ==
  IF ~resource.operator THEN False
  ELSE CASE ownOperator = "owner" -> In("owner", {CurrentUser})
         [] ownOperator = "all" -> True
         [] OTHER -> False

CompiledCondition(condition) ==
  CASE condition = "current-user" -> In("owner", {CurrentUser})
    [] condition = "current-organization" -> In("organization", {CurrentOrganization})
    [] condition = "descendants" -> In("organization", Descendants)
    [] condition = "role" -> In("owner", UsersOfRole)
    [] condition = "custom" -> FromOperator

Compiled[e \in Documents] ==
  IF e.type = "all" THEN True
  ELSE IF e.type = "and" THEN AndPredicates({Compiled[part] : part \in e.parts})
  ELSE IF e.type = "or" THEN OrPredicates({Compiled[part] : part \in e.parts})
  ELSE CompiledCondition(e.condition)

CompiledOf(effect) == {Compiled[r.expression] : r \in {x \in ruleRows : x.effect = effect}}

\* Mutant: denials that do not compile are passed over, as in an or.
Tolerant ==
  IF CompiledOf("allow") \subseteq {False} THEN False
  ELSE AndPredicates({OrPredicates(CompiledOf("allow")),
                      NegatePredicate(OrPredicates(CompiledOf("deny")))})

\* One rule that does not compile, of either effect, and nothing is shown.
Compile ==
  IF ~admitted THEN False
  ELSE IF resource.access = "global" THEN IF ruleRows = {} THEN True ELSE False
  ELSE IF False \in CompiledOf("allow") \cup CompiledOf("deny") THEN False
  ELSE IF CompiledOf("allow") = {} THEN False
  ELSE AndPredicates({OrPredicates(CompiledOf("allow")),
                      NegatePredicate(OrPredicates(CompiledOf("deny")))})

Shown == {record \in Records : Compile.truth[record] = "true"}

-----------------------------------------------------------------------------
Resources == [access : {"global", "policy"}, owner : BOOLEAN, organization : BOOLEAN,
              operator : BOOLEAN]
ResourceHandlers == {"owner", "all", "throws"}

DataInit == /\ resource \in {r \in Resources : r.owner \/ r.organization}
            /\ ownOperator = "owner" /\ admitted = TRUE /\ ruleRows = {} /\ ruleUpdates = 0

\* updateRoleDataPermissions: the rules there were are deleted, these are new.
UpdateRoleDataPermissions(new) ==
  /\ ruleUpdates < MaxRuleUpdates
  /\ ruleRows' = new /\ ruleUpdates' = ruleUpdates + 1
  /\ UNCHANGED <<resource, ownOperator, admitted>>

\* Another release of the module, or another state of what its operator asks.
ChangeHandler(h) ==
  /\ ownOperator' = h /\ UNCHANGED <<resource, admitted, ruleRows, ruleUpdates>>

WithdrawPermission ==
  /\ admitted' = FALSE /\ UNCHANGED <<resource, ownOperator, ruleRows, ruleUpdates>>

DataRules == [effect : {"allow", "deny"}, expression : Documents]

DataNext ==
  \/ \E a, b \in DataRules : /\ Cardinality({a, b}) <= MaxRules
                         /\ UpdateRoleDataPermissions({a, b})
  \/ \E h \in ResourceHandlers : ChangeHandler(h)
  \/ WithdrawPermission

DataSpec == DataInit /\ [][DataNext]_dataVars

-----------------------------------------------------------------------------
(* Properties.                                                              *)

\* An expression with all that is nested in it.
Within[e \in Documents] == {e} \cup UNION {Within[part] : part \in e.parts}

\* Whether an expression covers a record, when what cannot be compiled may be
\* either: what it may be.
Compiles(condition) == CompiledCondition(condition) # False
Covers(condition, record) ==
  LET t == CompiledCondition(condition).truth[record]
  IN IF ~Compiles(condition) \/ t = "unknown" THEN {"in", "out"}
     ELSE IF t = "true" THEN {"in"} ELSE {"out"}
Possible[e \in Documents] ==
  [record \in Records |->
    IF e.type = "all" THEN {"in"}
    ELSE IF e.type = "condition" THEN Covers(e.condition, record)
    ELSE {v \in {"in", "out"} :
            IF (e.type = "and") = (v = "in") THEN \A part \in e.parts : v \in Possible[part][record]
            ELSE \E part \in e.parts : v \in Possible[part][record]}]

\* An alternative that does not compile is left out of its or.
Shortened(e) ==
  \E d \in Within[e] : d.type = "or" /\ \E part \in d.parts : Compiled[part] = False

Surely(effect, record) ==
  \E r \in ruleRows : r.effect = effect /\ Possible[r.expression][record] = {"in"}

\* Only what an allowing rule surely covers and no denying rule may cover is
\* shown, whatever operators are gone, fail or return too much; except that an
\* or of a denying rule denies less when one of its alternatives is gone.
NothingIsWidened ==
  \A record \in Shown :
    \/ resource.access = "global" /\ admitted /\ ruleRows = {}
    \/ /\ admitted /\ resource.access = "policy" /\ Surely("allow", record)
       /\ \A r \in ruleRows :
            r.effect = "deny" => "in" \notin Possible[r.expression][record] \/ Shortened(r.expression)

\* And all of that is shown when everything compiles.
Whole(e) == \A d \in Within[e] : d.type = "condition" => Compiles(d.condition)
NothingIsLost ==
  admitted /\ resource.access = "policy" /\ (\A r \in ruleRows : Whole(r.expression)) =>
    \A record \in Records :
      /\ Surely("allow", record)
      /\ \A r \in ruleRows : r.effect = "deny" => "in" \notin Possible[r.expression][record]
      => record \in Shown

DataTypeOK == /\ resource \in Resources /\ ownOperator \in ResourceHandlers /\ admitted \in BOOLEAN
              /\ ruleRows \subseteq DataRules /\ ruleUpdates \in 0 .. MaxRuleUpdates

\* A user is shown exactly the records the rules of his role give him.
RecordsAreExact == DataTypeOK /\ NothingIsWidened /\ NothingIsLost
=============================================================================
