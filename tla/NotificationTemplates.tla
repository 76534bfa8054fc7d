------------------------- MODULE NotificationTemplates -------------------------
(***************************************************************************)
(* The templates of notifications: editors create and update them, by      *)
(* requests that read, check and write in steps of their own, and the      *)
(* three kinds of messages are rendered from them meanwhile - the test     *)
(* mail and the mail delivery strictly, the in-app notification leniently. *)
(*                                                                         *)
(* A text is the set of the variables it has placeholders for.  A template *)
(* is known by its place in the list, which is ordered by code and locale. *)
(***************************************************************************)
EXTENDS Integers, FiniteSets, TLC

CONSTANTS
  Editors,
  TemplateKeys,      \* the places
  TemplateChannel,   \* the channel of each
  Variables,
  TemplateRows,      \* the templates editors create
  TemplateInputs,    \* the fields an update may send
  ListedTemplates,   \* LIMIT of the list
  MaxTemplateEdits   \* updates there are

TemplateRow == [titled : BOOLEAN, subject : SUBSET Variables, body : SUBSET Variables,
        declared : SUBSET Variables, enabled : BOOLEAN]

ASSUME TemplatesAssumption ==
  /\ TemplateKeys \subseteq Nat
  /\ TemplateChannel \in [TemplateKeys -> {"email", "in_app"}]
  /\ TemplateRows \subseteq TemplateRow
  /\ \A input \in TemplateInputs : \A row \in TemplateRow : (input @@ row) \in TemplateRow
  /\ {ListedTemplates, MaxTemplateEdits} \subseteq Nat

VARIABLES templates,   \* notification_templates
          drafts,      \* what each editor's update is doing
          message,     \* what was rendered last, with the placeholders left empty
          updates,     \* updates so far
          intended,    \* the rows, had the updates come one after the other (ghost)
          overlapped   \* templates two updates of which have overlapped (ghost)

templateVars == <<templates, drafts, message, updates, intended, overlapped>>

-----------------------------------------------------------------------------
BlankTemplate == [titled |-> FALSE, subject |-> {}, body |-> {}, declared |-> {}, enabled |-> FALSE]
NoDraft == [step |-> "idle", key |-> 0, input |-> <<>>, read |-> BlankTemplate]
NoMessage == [kind |-> "none", key |-> 0, missing |-> {}, undeclared |-> {}]

TemplatesTypeOK ==
  /\ DOMAIN templates \subseteq TemplateKeys /\ \A k \in DOMAIN templates : templates[k] \in TemplateRow
  /\ DOMAIN intended = DOMAIN templates /\ \A k \in DOMAIN intended : intended[k] \in TemplateRow
  /\ \A e \in Editors : /\ drafts[e].step \in {"idle", "checked", "read"}
                        /\ drafts[e].step # "idle" => drafts[e].key \in DOMAIN templates
                        /\ drafts[e].read \in TemplateRow
  /\ message.kind \in {"none", "test", "delivery", "in_app"}
  /\ updates \in 0 .. MaxTemplateEdits /\ overlapped \subseteq DOMAIN templates

TemplatesInit ==
  /\ templates = <<>> /\ intended = <<>> /\ overlapped = {} /\ updates = 0
  /\ drafts = [e \in Editors |-> NoDraft] /\ message = NoMessage

InList(k) == /\ k \in DOMAIN templates
             /\ Cardinality({j \in DOMAIN templates : j < k}) < ListedTemplates

\* assertNotificationTemplateContract
Contract(row) == row.declared = row.subject \cup row.body

\* Mutant: the row that was read wins.
MergedUnder(row, input) == row @@ input

\* { ...current, ...input }
Merged(row, input) == input @@ row

-----------------------------------------------------------------------------
(* Editors.                                                                 *)

WithTemplate(rows, k, row) == [j \in DOMAIN rows \cup {k} |-> IF j = k THEN row ELSE rows[j]]

\* The unique index is on channel, code and locale.
CreateTemplate(k, row) ==
  /\ k \in TemplateKeys \ DOMAIN templates /\ Contract(row) /\ row.enabled
  /\ templates' = WithTemplate(templates, k, row)
  /\ intended' = WithTemplate(intended, k, row)
  /\ UNCHANGED <<drafts, message, updates, overlapped>>

\* The service checks what the update would make of the row, if it finds it.
CheckUpdate(e, k, input) ==
  /\ drafts[e].step = "idle" /\ k \in DOMAIN templates /\ updates < MaxTemplateEdits
  /\ InList(k) => Contract(Merged(templates[k], input))
  /\ drafts' = [drafts EXCEPT ![e] = [NoDraft EXCEPT !.step = "checked", !.key = k, !.input = input]]
  /\ updates' = updates + 1
  /\ overlapped' = IF \E d \in Editors : drafts[d].step # "idle" /\ drafts[d].key = k
                   THEN overlapped \cup {k} ELSE overlapped
  /\ UNCHANGED <<templates, message, intended>>

\* The repository reads it again; what the list does not show is not updated.
ReadTemplate(e) ==
  LET k == drafts[e].key IN
  /\ drafts[e].step = "checked"
  /\ drafts' = [drafts EXCEPT ![e] = IF InList(k)
                                     THEN [@ EXCEPT !.step = "read", !.read = templates[k]]
                                     ELSE NoDraft]
  /\ UNCHANGED <<templates, message, updates, intended, overlapped>>

\* All columns are written.
WriteTemplate(e) ==
  LET k == drafts[e].key IN
  /\ drafts[e].step = "read"
  /\ templates' = [templates EXCEPT ![k] = Merged(drafts[e].read, drafts[e].input)]
  /\ intended' = [intended EXCEPT ![k] = drafts[e].input @@ @]
  /\ drafts' = [drafts EXCEPT ![e] = NoDraft]
  /\ UNCHANGED <<message, updates, overlapped>>

-----------------------------------------------------------------------------
(* Messages.  Each is rendered from one read of its template.               *)

Renders(kind, k, supplied) ==
  /\ LET shown == templates[k].subject \cup templates[k].body IN
     message' = [kind |-> kind, key |-> k, missing |-> shown \ supplied,
                 undeclared |-> shown \ templates[k].declared]
  /\ UNCHANGED <<templates, drafts, updates, intended, overlapped>>

\* Mutant: a mail may leave variables out.
StrictlySupplied(k, supplied) == Contract(templates[k]) /\ supplied \subseteq templates[k].declared

\* renderStrictEmailTemplate throws otherwise.
Strict(k, supplied) == Contract(templates[k]) /\ supplied = templates[k].declared
Available(k, channel) ==
  k \in DOMAIN templates /\ TemplateChannel[k] = channel /\ templates[k].enabled

SendTestEmail(k, supplied) ==
  /\ Available(k, "email") /\ InList(k) /\ Strict(k, supplied)
  /\ Renders("test", k, supplied)

\* The delivery looks for its template by itself, past the list.
RequestEmail(k, supplied) ==
  /\ Available(k, "email") /\ Strict(k, supplied)
  /\ Renders("delivery", k, supplied)

\* A variable that is missing is rendered as nothing.
RequestInApp(k, supplied) ==
  /\ Available(k, "in_app") /\ InList(k) /\ templates[k].titled
  /\ Renders("in_app", k, supplied)

TemplatesNext ==
  \/ \E k \in TemplateKeys, row \in TemplateRows : CreateTemplate(k, row)
  \/ \E e \in Editors : \/ \E k \in TemplateKeys, input \in TemplateInputs : CheckUpdate(e, k, input)
                        \/ ReadTemplate(e) \/ WriteTemplate(e)
  \/ \E k \in TemplateKeys, supplied \in SUBSET Variables :
       SendTestEmail(k, supplied) \/ RequestEmail(k, supplied) \/ RequestInApp(k, supplied)

TemplatesSpec == TemplatesInit /\ [][TemplatesNext]_templateVars

-----------------------------------------------------------------------------
(* Properties.                                                              *)

\* Updates that do not overlap add up, and leave the template's declarations
\* as its texts have them: neither the second read nor the row that is written
\* whole undoes one.  Updates that overlap may do both.
UpdatesAddUp ==
  \A k \in DOMAIN templates \ overlapped : templates[k] = intended[k] /\ Contract(templates[k])

\* No mail has a gap, whatever the editors have done to its template; an in-app
\* notification has one only where its caller left out a declared variable, or
\* overlapping updates have broken the template.
GapsAreTheCallers ==
  /\ message.kind \in {"test", "delivery"} => message.missing = {}
  /\ message.undeclared # {} => message.key \in overlapped

\* Templates are what their editors made of them, and messages are whole.
TemplatesAreSound == TemplatesTypeOK /\ UpdatesAddUp /\ GapsAreTheCallers
=============================================================================
