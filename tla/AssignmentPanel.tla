--------------------------- MODULE AssignmentPanel ---------------------------
(***************************************************************************)
(* The permissions of roles in the browser: the query that reads the codes *)
(* of the selected role, the panel that is filled with them once and then  *)
(* has a list of its own, and Save, which replaces the whole list at the   *)
(* server, beside other administrators and answers that are lost.          *)
(***************************************************************************)
EXTENDS Integers

CONSTANTS PanelRoles,      \* roles of the page
          PanelCodes,      \* permission codes offered
          MaxOtherChanges  \* changes by other administrators

ASSUME PanelAssumption == MaxOtherChanges \in Nat

VARIABLES
  codesOf,   \* the codes of each role at the server
  held,      \* the query of each role: its data, and whether the server has changed since
  reading,   \* the read of each role: none, asked, or answered with what it found
  opened,    \* the open panel: its role, its list, and what its user has switched (ghost)
  saving,    \* the mutation: idle, sent, saved (its answer is under way) or refreshing
  others     \* changes by others so far

panelVars == <<codesOf, held, reading, opened, saving, others>>

Closed == [role |-> "", ticked |-> {}, switched |-> {}]
Idle == [step |-> "idle", role |-> "", codes |-> {}, switched |-> {}, informed |-> FALSE]
Unread == [known |-> FALSE, codes |-> {}, outdated |-> FALSE]
NotReading == [step |-> "none", codes |-> {}, outdated |-> FALSE]
Asking == [NotReading EXCEPT !.step = "asked"]

\* The codes of a and not of b, or of b and not of a.
Switch(a, b) == (a \ b) \cup (b \ a)

\* The key of the panel: React makes a new one, with a new list, when it changes.
PanelKey(role, query) == <<role, query.codes>>

\* The panel after the page has rendered with the role and its query.
Rendered(role, query) ==
  IF opened.role # "" /\ PanelKey(role, query) = PanelKey(opened.role, held[opened.role])
  THEN [opened EXCEPT !.role = role]
  ELSE [role |-> role, ticked |-> query.codes, switched |-> {}]

\* A panel that is kept when the role changes: a bug the property must find.
RenderedByCodes(role, query) ==
  IF opened.role # "" /\ query.codes = held[opened.role].codes
  THEN [opened EXCEPT !.role = role, !.switched = IF role = opened.role THEN @ ELSE {}]
  ELSE [role |-> role, ticked |-> query.codes, switched |-> {}]

\* What has been read of a role is no longer what the server has.
Outdate(r) ==
  /\ held' = [held EXCEPT ![r].outdated = TRUE]
  /\ reading' = [reading EXCEPT ![r].outdated = @ \/ reading[r].step = "answered"]

PanelInit ==
  /\ codesOf \in [PanelRoles -> SUBSET PanelCodes]
  /\ held = [r \in PanelRoles |-> Unread]
  /\ reading = [r \in PanelRoles |-> NotReading]
  /\ opened = Closed /\ saving = Idle /\ others = 0

\* A role is selected: the panel shows what is held of it, and it is read again.
SelectRole(r) ==
  /\ opened.role # r
  /\ opened' = Rendered(r, held[r])
  /\ reading' = [reading EXCEPT ![r] = IF @.step = "none" THEN Asking ELSE @]
  /\ UNCHANGED <<codesOf, held, saving, others>>

ReadAnswered(r) ==
  /\ reading[r].step = "asked"
  /\ reading' = [reading EXCEPT ![r] = [step |-> "answered", codes |-> codesOf[r], outdated |-> FALSE]]
  /\ UNCHANGED <<codesOf, held, opened, saving, others>>

\* A mutation that waits for the read of its role is done with it.
Refreshed(r) == IF saving.step = "refreshing" /\ saving.role = r THEN Idle ELSE saving

ReadArrives(r) ==
  /\ reading[r].step = "answered"
  /\ LET query == [known |-> TRUE, codes |-> reading[r].codes, outdated |-> reading[r].outdated]
     IN /\ held' = [held EXCEPT ![r] = query]
        /\ opened' = IF opened.role = r THEN Rendered(r, query) ELSE opened
  /\ reading' = [reading EXCEPT ![r] = NotReading]
  /\ saving' = Refreshed(r)
  /\ UNCHANGED <<codesOf, others>>

\* The read and its retry fail: the data stays, and the panel with it.
ReadFails(r) ==
  /\ reading[r].step # "none"
  /\ reading' = [reading EXCEPT ![r] = NotReading]
  /\ saving' = Refreshed(r)
  /\ UNCHANGED <<codesOf, held, opened, others>>

Toggle(code) ==
  /\ opened.role # ""
  /\ opened' = [role |-> opened.role, ticked |-> Switch(opened.ticked, {code}),
                switched |-> Switch(opened.switched, {code})]
  /\ UNCHANGED <<codesOf, held, reading, saving, others>>

\* Save is offered whenever no mutation is pending, whether or not the codes
\* have been read.
Save ==
  /\ opened.role # "" /\ saving.step = "idle"
  /\ saving' = [step |-> "sent", role |-> opened.role, codes |-> opened.ticked,
                switched |-> opened.switched,
                informed |-> held[opened.role].known /\ ~held[opened.role].outdated]
  /\ UNCHANGED <<codesOf, held, reading, opened, others>>

\* The server replaces the list.
Replaced ==
  /\ saving.step = "sent"
  /\ codesOf' = [codesOf EXCEPT ![saving.role] = saving.codes]
  /\ Outdate(saving.role)
  /\ saving' = [Idle EXCEPT !.step = "saved"]
  /\ UNCHANGED <<opened, others>>

\* The answer: every query is stale, the one on the page is read again, from
\* the start if it is being read, and the mutation waits for it.
SaveAnswered ==
  /\ saving.step = "saved"
  /\ saving' = [step |-> "refreshing", role |-> opened.role, codes |-> {}, switched |-> {},
                informed |-> FALSE]
  /\ reading' = [reading EXCEPT ![opened.role] = Asking]
  /\ UNCHANGED <<codesOf, held, opened, others>>

\* The request or its answer is lost, or the server refuses.
SaveFails ==
  /\ saving.step \in {"sent", "saved"}
  /\ saving' = Idle
  /\ UNCHANGED <<codesOf, held, reading, opened, others>>

OthersChange(r, codes) ==
  /\ others < MaxOtherChanges /\ codes # codesOf[r]
  /\ others' = others + 1
  /\ codesOf' = [codesOf EXCEPT ![r] = codes]
  /\ Outdate(r)
  /\ saving' = IF saving.step = "sent" /\ saving.role = r THEN [saving EXCEPT !.informed = FALSE] ELSE saving
  /\ UNCHANGED opened

PanelNext ==
  \/ \E r \in PanelRoles : SelectRole(r) \/ ReadAnswered(r) \/ ReadArrives(r) \/ ReadFails(r)
  \/ \E code \in PanelCodes : Toggle(code)
  \/ Save \/ Replaced \/ SaveAnswered \/ SaveFails
  \/ \E r \in PanelRoles, codes \in SUBSET PanelCodes : OthersChange(r, codes)

PanelSpec == PanelInit /\ [][PanelNext]_panelVars

-----------------------------------------------------------------------------
\* A list that is sent by somebody whose page had the role's present codes
\* changes exactly what was switched in the panel of that role: nothing of
\* another role, of an earlier list or of a save still under way gets into
\* it.  The page lets a user save without having been shown the codes, too
\* (CoreManagementPage, CoreAssignmentPanel): such lists promise nothing.
SavesAreMeant ==
  saving.step = "sent" /\ saving.informed =>
    saving.codes = Switch(codesOf[saving.role], saving.switched)
=============================================================================
