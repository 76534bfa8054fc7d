--------------------------- MODULE FieldPermissions ---------------------------
(***************************************************************************)
(* The fields of a business module's records a user sees and may write:    *)
(* the rules of his role, which an update replaces, reviving the rows      *)
(* there were, and their enforcement in a response and in a write, for     *)
(* the scenarios the module's release puts under control.                  *)
(***************************************************************************)
EXTENDS DataPermissions, Sequences, SequencesExt, FiniteSetsExt

CONSTANTS
  Fields,             \* of one resource
  Declarations,       \* the scenarios of each field, in the releases there are
  RuleLists,          \* lists of rules administrators send
  MaxFieldUpdates     \* updates there are

ReadScenarios == {"list", "detail"}
WriteScenarios == {"create", "edit"}
Scenarios == ReadScenarios \cup WriteScenarios
FieldEffects == {"visible", "readonly", "hidden"}

ASSUME FieldAssumption ==
  /\ Declarations \subseteq [Fields -> SUBSET Scenarios]
  /\ RuleLists \subseteq Seq([field : Fields, scenario : Scenarios, effect : FieldEffects])
  /\ MaxFieldUpdates \in Nat

VARIABLES controlled,    \* scenarios in which the release controls each field
          fieldRows,     \* field_permission_rules of the role, by id
          lastList,      \* the list of the last update (ghost)
          fieldUpdates

fieldVars == <<controlled, fieldRows, lastList, fieldUpdates>>

-----------------------------------------------------------------------------
(* updateRoleFieldPermissions.                                              *)

SameKey(row, rule) == row.field = rule.field /\ row.scenario = rule.scenario

\* Mutant: only rows that are not deleted are found.
LiveRow(rows, rule) == SelectInSeq(rows, LAMBDA row : SameKey(row, rule) /\ ~row.deleted)

\* findRoleFieldPermission: the first row of the key, deleted or not; 0 if none.
FoundRow(rows, rule) == SelectInSeq(rows, LAMBDA row : SameKey(row, rule))

WithRule(rule, rows) ==
  LET i == FoundRow(rows, rule)
      row == [field |-> rule.field, scenario |-> rule.scenario, effect |-> rule.effect,
              deleted |-> FALSE]
  IN IF i = 0 THEN Append(rows, row) ELSE [rows EXCEPT ![i] = row]

Deleted(rows) == [i \in DOMAIN rows |-> [rows[i] EXCEPT !.deleted = TRUE]]

\* The rows after the first rules of a list.
AfterRules(list) ==
  LET upTo[i \in 0 .. Len(list)] ==
        IF i = 0 THEN Deleted(fieldRows) ELSE WithRule(list[i], upTo[i - 1])
  IN upTo[Len(list)]

UpdateRoleFieldPermissions(list) ==
  /\ fieldUpdates < MaxFieldUpdates
  /\ fieldRows' = AfterRules(list)
  /\ lastList' = list /\ fieldUpdates' = fieldUpdates + 1
  /\ UNCHANGED controlled

Release(declaration) ==
  /\ controlled' = declaration /\ UNCHANGED <<fieldRows, lastList, fieldUpdates>>

-----------------------------------------------------------------------------
(* FieldPermissionEnforcer.                                                 *)

Strength(effect) == CASE effect = "hidden" -> 3 [] effect = "readonly" -> 2 [] OTHER -> 1

LiveRules(scenario, f) ==
  {i \in DOMAIN fieldRows :
     ~fieldRows[i].deleted /\ fieldRows[i].scenario = scenario /\ fieldRows[i].field = f}

FieldsWithEffect(scenario, effect) ==
  {f \in Fields :
     /\ scenario \in controlled[f] /\ LiveRules(scenario, f) # {}
     /\ Max({Strength(fieldRows[i].effect) : i \in LiveRules(scenario, f)}) = Strength(effect)}

\* Of the fields of a record, those a response keeps, and those a write is
\* refused for.
Filtered(scenario, fields) == fields \ FieldsWithEffect(scenario, "hidden")
Rejected(scenario, fields) ==
  fields \cap (FieldsWithEffect(scenario, "hidden") \cup FieldsWithEffect(scenario, "readonly"))

-----------------------------------------------------------------------------
FieldInit == /\ controlled \in Declarations /\ fieldRows = <<>>
             /\ lastList = <<>> /\ fieldUpdates = 0
FieldNext == \/ \E list \in RuleLists : UpdateRoleFieldPermissions(list)
             \/ \E declaration \in Declarations : Release(declaration)

FieldSpec == FieldInit /\ [][FieldNext]_fieldVars

-----------------------------------------------------------------------------
(* Properties.                                                              *)

FieldTypeOK ==
  /\ controlled \in Declarations /\ fieldUpdates \in 0 .. MaxFieldUpdates
  /\ fieldRows \in Seq([field : Fields, scenario : Scenarios, effect : FieldEffects, deleted : BOOLEAN])

\* field_permission_rules_target_field_unique: the index counts deleted rows.
OneRowPerKey ==
  \A i, j \in DOMAIN fieldRows : SameKey(fieldRows[i], fieldRows[j]) => i = j

\* The effect the last update gives a field: the last rule for it counts.
LastEffect(scenario, f) ==
  LET i == SelectLastInSeq(lastList, LAMBDA rule : rule.scenario = scenario /\ rule.field = f) IN
  IF i = 0 \/ scenario \notin controlled[f] THEN "visible" ELSE lastList[i].effect

\* What the last update says is enforced, and nothing of the updates before it,
\* whatever rows those have left and whatever the releases have controlled.
FieldsAreEnforced ==
  \A f \in Fields :
    /\ \A s \in ReadScenarios : f \in Filtered(s, Fields) <=> LastEffect(s, f) # "hidden"
    /\ \A s \in WriteScenarios : f \in Rejected(s, Fields) <=> LastEffect(s, f) # "visible"

\* Rules for fields are kept once each, and enforced as they were last sent.
FieldsAreSound == FieldTypeOK /\ OneRowPerKey /\ FieldsAreEnforced

\* The rules of a role give a user the records and the fields they say.
RulesAreExact == RecordsAreExact /\ FieldsAreSound
=============================================================================
