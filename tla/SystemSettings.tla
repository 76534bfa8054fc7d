---------------------------- MODULE SystemSettings ----------------------------
(***************************************************************************)
(* The settings an administrator may change past the memory of the API:    *)
(* configuration values, dictionary types, and the texts of the user       *)
(* interface, whose defaults the modules bring and a synchronization       *)
(* writes.  An update reads its row and writes it in two steps.            *)
(*                                                                         *)
(* A dictionary's items differ from its types in their columns alone.      *)
(***************************************************************************)
EXTENDS Integers, FiniteSets

CONSTANTS
  Managers,        \* administrators, with one request each at a time
  ConfigKeys, EditableConfigs,
  ConfigValues,
  TypeIds, TypeCodes, TypeNames,
  Texts,           \* the places of interface texts, by module, key and language
  TextsOf,         \* the texts of each release, with their defaults
  Overrides,       \* texts an administrator may write
  ListedTexts,     \* LIMIT of the list of texts
  MaxSettingEdits  \* updates there are

NoText == "null"   \* override_value IS NULL

ASSUME SettingsAssumption ==
  /\ EditableConfigs \subseteq ConfigKeys /\ ConfigValues # {}
  /\ Texts \subseteq Nat
  /\ \A r \in DOMAIN TextsOf : DOMAIN TextsOf[r] \subseteq Texts
  /\ {ListedTexts, MaxSettingEdits} \subseteq Nat

VARIABLES configs,    \* system_configs: the values
          types,      \* dictionary_types
          texts,      \* i18n_messages
          requested,  \* what each administrator's update has read
          settingEdits,
          outdated,   \* texts last written from a default that was replaced (ghost)
          sent,       \* what was last sent for each column of a type (ghost)
          replaced \* types written from a row that was replaced (ghost)

settingVars == <<configs, types, texts, requested, settingEdits, outdated, sent, replaced>>

-----------------------------------------------------------------------------
NoRequest == [table |-> "none", id |-> 0, input |-> <<>>, read |-> <<>>]
DefaultsIn == UNION {{TextsOf[r][m] : m \in DOMAIN TextsOf[r]} : r \in DOMAIN TextsOf}
IsText(t) == /\ t.default \in DefaultsIn /\ t.override \in Overrides \cup {NoText}
             /\ t.shown \in DefaultsIn \cup Overrides /\ t.enabled \in BOOLEAN

SettingsTypeOK ==
  /\ configs \in [ConfigKeys -> ConfigValues]
  /\ DOMAIN types \subseteq TypeIds
  /\ \A i \in DOMAIN types : types[i] \in [code : TypeCodes, name : TypeNames]
  /\ DOMAIN texts \subseteq Texts /\ \A m \in DOMAIN texts : IsText(texts[m])
  /\ \A a \in Managers : requested[a].table \in {"none", "types", "texts"}
  /\ settingEdits \in 0 .. MaxSettingEdits /\ outdated \subseteq DOMAIN texts
  /\ DOMAIN sent = DOMAIN types /\ replaced \subseteq DOMAIN types

Coalesced(override, default) == IF override = NoText THEN default ELSE override
TextInList(m) == /\ m \in DOMAIN texts
                 /\ Cardinality({n \in DOMAIN texts : n < m}) < ListedTexts
Begins(a, request) == /\ requested[a].table = "none" /\ settingEdits < MaxSettingEdits
                      /\ requested' = [requested EXCEPT ![a] = request]
                      /\ settingEdits' = settingEdits + 1
Finishes(a) == requested' = [requested EXCEPT ![a] = NoRequest]

-----------------------------------------------------------------------------
(* Configuration and dictionaries.                                          *)

\* Nothing changes editable, so the read before the write decides for good.
UpdateSystemConfig(k, value) ==
  /\ k \in EditableConfigs
  /\ configs' = [configs EXCEPT ![k] = value]
  /\ UNCHANGED <<types, texts, requested, settingEdits, outdated, sent, replaced>>

\* dictionary_types_code_unique
FreeCode(code, i) == \A j \in DOMAIN types \ {i} : types[j].code # code

WithType(rows, i, row) == [j \in DOMAIN rows \cup {i} |-> IF j = i THEN row ELSE rows[j]]

CreateDictionaryType(i, code, name) ==
  /\ i \notin DOMAIN types /\ FreeCode(code, i)
  /\ types' = WithType(types, i, [code |-> code, name |-> name])
  /\ sent' = WithType(sent, i, [code |-> code, name |-> name])
  /\ UNCHANGED <<configs, texts, requested, settingEdits, outdated, replaced>>

ReadDictionaryType(a, i, input) ==
  /\ i \in DOMAIN types
  /\ Begins(a, [table |-> "types", id |-> i, input |-> input, read |-> types[i]])
  /\ UNCHANGED <<configs, types, texts, outdated, sent, replaced>>

Over(row, input) == [c \in DOMAIN row |-> IF c \in DOMAIN input THEN input[c] ELSE row[c]]

\* Mutant: the row that was read wins.
WrittenValueAsRead(a) == requested[a].read

\* { ...current, ...input }: the columns that were not sent are written too.
WrittenValue(a) == Over(requested[a].read, requested[a].input)

WriteDictionaryType(a) ==
  LET i == requested[a].id IN
  /\ requested[a].table = "types" /\ FreeCode(WrittenValue(a).code, i)
  /\ types' = [types EXCEPT ![i] = WrittenValue(a)]
  /\ sent' = [sent EXCEPT ![i] = Over(@, requested[a].input)]
  /\ replaced' = IF requested[a].read # types[i] THEN replaced \cup {i} ELSE replaced
  /\ Finishes(a)
  /\ UNCHANGED <<configs, texts, settingEdits, outdated>>

\* Another type has taken the code that was read or sent.
RefuseDictionaryType(a) ==
  /\ requested[a].table = "types" /\ ~FreeCode(WrittenValue(a).code, requested[a].id)
  /\ Finishes(a)
  /\ UNCHANGED <<configs, types, texts, settingEdits, outdated, sent, replaced>>

-----------------------------------------------------------------------------
(* Texts.                                                                   *)

ReadText(a, m, override) ==
  /\ TextInList(m)
  /\ Begins(a, [table |-> "texts", id |-> m, input |-> [override |-> override],
               read |-> [default |-> texts[m].default]])
  /\ UNCHANGED <<configs, types, texts, outdated, sent, replaced>>

\* The text that is shown is made of the default that was read.
WriteText(a) ==
  LET m == requested[a].id
      override == requested[a].input.override
      default == requested[a].read.default
  IN
  /\ requested[a].table = "texts"
  /\ texts' = [texts EXCEPT ![m].override = override,
                            ![m].shown = Coalesced(override, default)]
  /\ outdated' = IF default # texts[m].default THEN outdated \cup {m} ELSE outdated \ {m}
  /\ Finishes(a)
  /\ UNCHANGED <<configs, types, settingEdits, sent, replaced>>

\* Mutant: a synchronization shows the defaults.
ShownDefault(override, default) == default

ShownText(override, default) == Coalesced(override, default)

\* The texts of the release's module: the others are disabled, these enabled.
SynchronizedText(r, m) ==
  IF m \in DOMAIN TextsOf[r]
  THEN LET override == IF m \in DOMAIN texts THEN texts[m].override ELSE NoText IN
       [default |-> TextsOf[r][m], override |-> override,
        shown |-> ShownText(override, TextsOf[r][m]), enabled |-> TRUE]
  ELSE [texts[m] EXCEPT !.enabled = FALSE]

SynchronizeTexts(r) ==
  /\ texts' = [m \in DOMAIN texts \cup DOMAIN TextsOf[r] |-> SynchronizedText(r, m)]
  /\ outdated' = outdated \ DOMAIN TextsOf[r]
  /\ UNCHANGED <<configs, types, requested, settingEdits, sent, replaced>>

-----------------------------------------------------------------------------
SettingsInit ==
  /\ configs = [k \in ConfigKeys |-> CHOOSE value \in ConfigValues : TRUE]
  /\ types = <<>> /\ texts = <<>> /\ outdated = {} /\ settingEdits = 0
  /\ sent = <<>> /\ replaced = {}
  /\ requested = [a \in Managers |-> NoRequest]

TypeInputs == {[code |-> code] : code \in TypeCodes} \cup {[name |-> name] : name \in TypeNames}

SettingsNext ==
  \/ \E k \in ConfigKeys, value \in ConfigValues : UpdateSystemConfig(k, value)
  \/ \E i \in TypeIds, code \in TypeCodes, name \in TypeNames : CreateDictionaryType(i, code, name)
  \/ \E a \in Managers :
       \/ \E i \in TypeIds, input \in TypeInputs : ReadDictionaryType(a, i, input)
       \/ WriteDictionaryType(a) \/ RefuseDictionaryType(a)
       \/ \E m \in Texts, override \in Overrides \cup {NoText} : ReadText(a, m, override)
       \/ WriteText(a)
  \/ \E r \in DOMAIN TextsOf : SynchronizeTexts(r)

SettingsSpec == SettingsInit /\ [][SettingsNext]_settingVars

-----------------------------------------------------------------------------
(* Properties.                                                              *)

\* A text an administrator has written is shown until he takes it back, and
\* then the default is, whatever synchronizations come between; only an update
\* that a synchronization has overtaken shows the default of before, until the
\* next synchronization.
TextsAreShown ==
  \A m \in DOMAIN texts :
    \/ texts[m].shown = Coalesced(texts[m].override, texts[m].default)
    \/ m \in outdated /\ texts[m].override = NoText

\* Updates of a type add up, column by column, though each writes all columns,
\* unless one has written over what another had changed since it was read.
TypesAddUp == \A i \in DOMAIN types \ replaced : types[i] = sent[i]

\* Settings keep what administrators and modules put there.
SettingsAreSound == SettingsTypeOK /\ TextsAreShown /\ TypesAddUp
=============================================================================
