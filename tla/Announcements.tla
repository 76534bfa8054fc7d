----------------------------- MODULE Announcements -----------------------------
(***************************************************************************)
(* Announcements: drafts are edited, published, taken back and deleted,    *)
(* and the current ones of an organization are worked out when it asks.    *)
(* A request reads and validates, then writes; between the two requests of *)
(* other processes write as well (READ COMMITTED).                         *)
(*                                                                         *)
(* Requests that overlap in one process share activeClient: they join one  *)
(* another's transaction, or run outside of any, statement by statement.   *)
(* Such requests are crossed.  The dialect is PostgreSQL.  Titles, contents *)
(* and expiry are left out: publishing what has expired fails, as any      *)
(* request may, and an expired announcement is shown to nobody.            *)
(***************************************************************************)
EXTENDS OrganizationTree

CONSTANTS AnnouncementIds,
          AnnouncementRequests,  \* requests that may be under way at once
          ApiProcesses

ASSUME AnnouncementsAssumption == ApiProcesses # {} /\ AnnouncementIds # {}

VARIABLES announcements,
          pendingRequests,
          uncommitted,  \* by process and announcement, the row before crossed requests
                        \* wrote it, while it may not be committed
          mixed         \* announcements crossed requests wrote, and no other has rewritten

announcementVars == <<announcements, pendingRequests, uncommitted, mixed>>

-----------------------------------------------------------------------------
Announcement == [status : {"none", "draft", "published", "deleted"},
                 scope : {"system", "organization"}, targets : SUBSET Organizations]
RequestKinds == {"create", "update", "publish", "unpublish", "delete"}

\* A request has begun, has read, has written the row, has deleted the targets.
Request == [step : {"no", "begun", "read", "row", "targets"}, process : ApiProcesses,
            crossed : BOOLEAN, kind : RequestKinds, id : AnnouncementIds, next : Announcement]

AnnouncementsTypeOK ==
  /\ announcements \in [AnnouncementIds -> Announcement]
  /\ pendingRequests \in [AnnouncementRequests -> Request]
  /\ uncommitted \in [ApiProcesses -> [AnnouncementIds -> SUBSET Announcement]]
  /\ mixed \subseteq AnnouncementIds

NoAnnouncement == [status |-> "none", scope |-> "system", targets |-> {}]
NotAsked == [step |-> "no", process |-> CHOOSE p \in ApiProcesses : TRUE, crossed |-> FALSE,
              kind |-> "create", id |-> CHOOSE a \in AnnouncementIds : TRUE,
              next |-> NoAnnouncement]
Committed == [a \in AnnouncementIds |-> {}]

NothingPending ==
  /\ pendingRequests = [r \in AnnouncementRequests |-> NotAsked]
  /\ uncommitted = [p \in ApiProcesses |-> Committed] /\ mixed = {}
AnnouncementsInit ==
  announcements = [a \in AnnouncementIds |-> NoAnnouncement] /\ NothingPending

Exists(a) == announcements[a].status \in {"draft", "published"}

\* organizationCovers
Covers(target, o) == target = o \/ IsDescendantPath(orgs[o].path, orgs[target].path, orgs[target].level)

\* Mutant: targets inside one another are accepted.
AnyTargets(scope, targets) ==
  IF scope = "system" THEN targets = {}
  ELSE targets # {} /\ targets \subseteq LiveOrgs /\ \A t \in targets : orgs[t].status = "enabled"

\* validateAnnouncementTargets
ValidTargets(scope, targets) ==
  IF scope = "system" THEN targets = {}
  ELSE /\ targets # {} /\ targets \subseteq LiveOrgs
       /\ \A t \in targets : orgs[t].status = "enabled"
       /\ \A t \in targets, u \in targets : t # u => ~Covers(t, u)

-----------------------------------------------------------------------------
(* A request begins its transaction, reads and validates.                   *)

\* executor.transaction: who finds another one in the process crosses it.
Begin(r, process) ==
  LET others == {s \in AnnouncementRequests :
                   pendingRequests[s].step # "no" /\ pendingRequests[s].process = process}
  IN
  /\ pendingRequests[r].step = "no"
  /\ pendingRequests' = [s \in AnnouncementRequests |->
       IF s = r THEN [NotAsked EXCEPT !.step = "begun", !.process = process, !.crossed = others # {}]
       ELSE IF s \in others THEN [pendingRequests[s] EXCEPT !.crossed = TRUE]
       ELSE pendingRequests[s]]
  /\ UNCHANGED <<announcements, uncommitted, mixed>>

Ask(r, kind, a, next) ==
  /\ pendingRequests[r].step = "begun"
  /\ pendingRequests' = [pendingRequests EXCEPT ![r] =
       [@ EXCEPT !.step = "read", !.kind = kind, !.id = a, !.next = next]]
  /\ UNCHANGED <<announcements, uncommitted, mixed>>

\* The id is the next one that is free.
ReadForCreate(r, a, scope, targets) ==
  /\ announcements[a].status = "none"
  /\ \A s \in AnnouncementRequests :
       ~(pendingRequests[s].step = "read" /\ pendingRequests[s].id = a)
  /\ ValidTargets(scope, targets)
  /\ Ask(r, "create", a, [status |-> "draft", scope |-> scope, targets |-> targets])

\* resolveAnnouncementUpdate: what the request leaves out stays as it was read.
ReadForUpdate(r, a, scope, targets) ==
  LET to == IF scope = "system" THEN {} ELSE targets IN
  /\ announcements[a].status = "draft"
  /\ ValidTargets(scope, to)
  /\ Ask(r, "update", a, [status |-> "draft", scope |-> scope, targets |-> to])

ReadForPublish(r, a) ==
  /\ announcements[a].status = "draft"
  /\ ValidTargets(announcements[a].scope, announcements[a].targets)
  /\ Ask(r, "publish", a, NoAnnouncement)

ReadForUnpublish(r, a) ==
  announcements[a].status = "published" /\ Ask(r, "unpublish", a, NoAnnouncement)

ReadForDelete(r, a) ==
  announcements[a].status = "draft" /\ Ask(r, "delete", a, NoAnnouncement)

-----------------------------------------------------------------------------
(* It writes.                                                               *)

\* The INSERT or UPDATE of a request, and the targets a whole one leaves: only a
\* deleted announcement is left alone.
Written(row, request, targets) ==
  CASE request.kind \in {"create", "update"} ->
         [status |-> IF request.kind = "create" THEN "draft" ELSE row.status,
          scope |-> request.next.scope, targets |-> targets]
    [] request.kind = "publish" -> [row EXCEPT !.status = "published"]
    [] request.kind = "unpublish" -> [row EXCEPT !.status = "draft"]
    [] request.kind = "delete" -> [row EXCEPT !.status = "deleted"]

Finds(q) == q.kind = "create" \/ Exists(q.id)
Rewrites(q) == q.kind \in {"create", "update"}
Ended(r) == [pendingRequests EXCEPT ![r] = NotAsked]

\* Alone in its process a request is a transaction: it waits for the lock of the row,
\* so that what crossed requests wrote before is committed.
Write(r) ==
  LET q == pendingRequests[r] IN
  /\ q.step = "read" /\ ~q.crossed /\ Finds(q)
  /\ announcements' = [announcements EXCEPT ![q.id] = Written(@, q, q.next.targets)]
  /\ uncommitted' = [p \in ApiProcesses |-> [uncommitted[p] EXCEPT ![q.id] = {}]]
  /\ mixed' = IF Rewrites(q) THEN mixed \ {q.id} ELSE mixed
  /\ pendingRequests' = Ended(r)

\* A statement of a crossed request.
Executes(q, row) ==
  /\ announcements' = [announcements EXCEPT ![q.id] = row]
  /\ mixed' = mixed \cup {q.id}
  /\ uncommitted' = [uncommitted EXCEPT ![q.process][q.id] =
                       IF @ = {} THEN {announcements[q.id]} ELSE @]

WriteRow(r) ==
  LET q == pendingRequests[r]
      row == announcements[q.id]
  IN /\ q.step = "read" /\ q.crossed
     /\ Executes(q, IF Finds(q) THEN Written(row, q, row.targets) ELSE row)
     /\ pendingRequests' = [pendingRequests EXCEPT ![r].step = "row"]

\* replaceTargets: the DELETE, and an INSERT for each target.
DeleteTargets(r) ==
  LET q == pendingRequests[r] IN
  /\ q.step = "row" /\ q.crossed /\ Rewrites(q)
  /\ Executes(q, [announcements[q.id] EXCEPT !.targets = {}])
  /\ pendingRequests' = [pendingRequests EXCEPT ![r].step = "targets"]

InsertTarget(r) ==
  LET q == pendingRequests[r] IN
  /\ q.step = "targets" /\ q.crossed
  /\ \E t \in q.next.targets :
       /\ Executes(q, [announcements[q.id] EXCEPT !.targets = @ \cup {t}])
       /\ pendingRequests' = [pendingRequests EXCEPT ![r].next.targets = @ \ {t}]

\* The last one in a process leaves nothing uncommitted.
LastInProcess(r) ==
  \A s \in AnnouncementRequests \ {r} :
     pendingRequests[s].step # "no" => pendingRequests[s].process # pendingRequests[r].process
AllCommitted(p) == [uncommitted EXCEPT ![p] = Committed]

\* A crossed request ends: the transaction is its own, or it has joined.
EndCrossed(r) ==
  LET q == pendingRequests[r] IN
  /\ q.crossed /\ q.step = (IF Rewrites(q) THEN "targets" ELSE "row")
  /\ Rewrites(q) => q.next.targets = {}
  /\ \/ uncommitted' = AllCommitted(q.process)
     \/ ~LastInProcess(r) /\ UNCHANGED uncommitted
  /\ pendingRequests' = Ended(r) /\ UNCHANGED <<announcements, mixed>>

\* A request that fails takes back what is not committed if the transaction is
\* its own, and nothing if it has joined or runs outside of any.
Fail(r) ==
  LET q == pendingRequests[r]
      before == uncommitted[q.process]
  IN
  /\ q.step # "no"
  /\ \/ /\ announcements' = [a \in AnnouncementIds |->
                               IF before[a] = {} THEN announcements[a] ELSE CHOOSE row \in before[a] : TRUE]
        /\ uncommitted' = AllCommitted(q.process)
     \/ UNCHANGED announcements /\ uncommitted' = AllCommitted(q.process)
     \/ ~LastInProcess(r) /\ UNCHANGED <<announcements, uncommitted>>
  /\ pendingRequests' = Ended(r) /\ UNCHANGED mixed

AnnouncementsStep ==
  \E r \in AnnouncementRequests :
     \/ Write(r) \/ WriteRow(r) \/ DeleteTargets(r) \/ InsertTarget(r) \/ EndCrossed(r) \/ Fail(r)
     \/ \E p \in ApiProcesses : Begin(r, p)
     \/ \E a \in AnnouncementIds :
          \/ ReadForPublish(r, a) \/ ReadForUnpublish(r, a) \/ ReadForDelete(r, a)
          \/ \E scope \in {"system", "organization"}, targets \in SUBSET Organizations :
               ReadForCreate(r, a, scope, targets) \/ ReadForUpdate(r, a, scope, targets)

AnnouncementsNext == \/ AnnouncementsStep /\ UNCHANGED treeVars
                     \/ TreeNext /\ UNCHANGED announcementVars

AnnouncementsSpec ==
  /\ TreeInit /\ AnnouncementsInit
  /\ [][AnnouncementsNext]_<<treeVars, announcementVars>>

\* listCurrent, for a user whose current organization is o
Shown(a, o) ==
  /\ o \in LiveOrgs /\ orgs[o].status = "enabled"
  /\ announcements[a].status = "published"
  /\ \/ announcements[a].scope = "system"
     \/ \E t \in announcements[a].targets : Covers(t, o)

-----------------------------------------------------------------------------
(* Properties.                                                              *)

\* Whatever requests write one after the other, and however the tree has grown or
\* shrunk since, no target is inside another one, a user is shown the announcement
\* because of one target, and an announcement has targets just when it is for
\* organizations.  The exception is what requests that overlapped in one process
\* have written, until another request writes it anew.
TargetsAreMinimal ==
  AnnouncementsTypeOK /\ \A a \in AnnouncementIds \ mixed :
     LET row == announcements[a] IN
     /\ \A t \in row.targets, u \in row.targets : t # u => ~Forest!Above(
          DecodeOrgPath[orgs[t].path], DecodeOrgPath[orgs[u].path])
     /\ \A o \in Organizations :
          Shown(a, o) /\ row.targets # {} => Cardinality({t \in row.targets : Covers(t, o)}) = 1
     /\ Exists(a) => (row.scope = "organization" <=> row.targets # {})
=============================================================================
