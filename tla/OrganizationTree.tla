--------------------------- MODULE OrganizationTree ---------------------------
(***************************************************************************)
(* The organizations of the backend core.  The tree is in the paths alone: *)
(* a path packs one segment per level into an integer, and a subtree is a  *)
(* range of integers.  Codes, managers and addresses are left out.         *)
(***************************************************************************)
EXTENDS Integers, Sequences, FiniteSets

CONSTANTS Organizations, \* ids
          Radix,         \* 256: the values of one segment
          RootSegments,  \* 127: so that a path fits a signed column
          ChildSegments, \* 255
          MaxLevel       \* 8

ASSUME TreeAssumption ==
  /\ {Radix, RootSegments, ChildSegments, MaxLevel} \subseteq Nat \ {0}
  /\ RootSegments <= ChildSegments /\ ChildSegments < Radix
  /\ 2 * (RootSegments + 1) <= Radix

VARIABLES orgs,   \* the organizations
          depth   \* maxOrganizationDepth, in memory only

treeVars == <<orgs, depth>>

-----------------------------------------------------------------------------
(* org-path.ts                                                              *)

\* The weight of a level's segment: the radix once for every level below it.
Weight(level) ==
  LET power[n \in 0 .. MaxLevel] == IF n = 0 THEN 1 ELSE Radix * power[n - 1]
  IN power[MaxLevel - level]
PackedPaths == 0 .. Weight(0) \div 2
MaxSegment(level) == IF level = 1 THEN RootSegments ELSE ChildSegments

EncodeOrgPath(segments) ==
  LET upTo[i \in 0 .. Len(segments)] ==
        IF i = 0 THEN 0 ELSE upTo[i - 1] + segments[i] * Weight(i)
  IN upTo[Len(segments)]

SegmentAt(path, level) == (path \div Weight(level)) % Radix

\* Decoding stops at the first level that is zero.
DecodeOrgPath ==
  [path \in PackedPaths |->
     LET last == CHOOSE n \in 0 .. MaxLevel :
                   /\ \A i \in 1 .. n : SegmentAt(path, i) # 0
                   /\ n = MaxLevel \/ SegmentAt(path, n + 1) = 0
     IN [i \in 1 .. last |-> SegmentAt(path, i)]]

\* getOrgPathRange: below the prefix, every segment at its highest.
OrgPathRange ==
  [path \in DOMAIN DecodeOrgPath |->
     LET segments == DecodeOrgPath[path] IN
     [level \in 0 .. Len(segments) |->
        [min |-> EncodeOrgPath(SubSeq(segments, 1, level)),
         max |-> EncodeOrgPath([i \in 1 .. MaxLevel |->
                                  IF i <= level THEN segments[i] ELSE ChildSegments])]]]

IsDescendantPath(candidate, ancestor, level) ==
  /\ OrgPathRange[ancestor][level].min <= candidate
  /\ candidate <= OrgPathRange[ancestor][level].max
  /\ candidate # ancestor

-----------------------------------------------------------------------------
Statuses == {"enabled", "disabled"}
OrganizationRow ==
  [path : PackedPaths, level : 0 .. MaxLevel, segment : 0 .. Radix,
   status : Statuses, isDeleted : BOOLEAN]
Nowhere == [path |-> 0, level |-> 0, segment |-> 0, status |-> "disabled", isDeleted |-> FALSE]

TreeTypeOK == orgs \in [Organizations -> OrganizationRow] /\ depth \in 1 .. MaxLevel

TreeInit == orgs = [o \in Organizations |-> Nowhere] /\ depth = MaxLevel

Created == {o \in Organizations : orgs[o] # Nowhere}
LiveOrgs == {o \in Created : ~orgs[o].isDeleted}

Below(o) == {p \in Created : IsDescendantPath(orgs[p].path, orgs[o].path, orgs[o].level)}

\* Mutant: the segment of a deleted sibling is free.
LiveSegments(level, siblings) ==
  {orgs[o].segment : o \in {p \in siblings : orgs[p].level = level /\ ~orgs[p].isDeleted}}

\* findUsedSiblingSegments: deleted siblings keep theirs.
UsedSegments(level, siblings) == {orgs[o].segment : o \in {p \in siblings : orgs[p].level = level}}

\* allocateNextOrgSegment
NextSegment(used, level) ==
  CHOOSE s \in 1 .. MaxSegment(level) : s \notin used /\ \A t \in 1 .. s - 1 : t \in used

Create(o, prefix, siblings) ==
  LET level == Len(prefix) + 1
      used == UsedSegments(level, siblings)
  IN
  /\ o \notin Created
  /\ level <= depth /\ level <= MaxLevel
  /\ \E s \in 1 .. MaxSegment(level) : s \notin used
  /\ orgs' = [orgs EXCEPT ![o] =
       [path |-> EncodeOrgPath(Append(prefix, NextSegment(used, level))), level |-> level,
        segment |-> NextSegment(used, level), status |-> "enabled", isDeleted |-> FALSE]]
  /\ UNCHANGED depth

CreateRoot(o) == Create(o, <<>>, Created)

CreateUnder(o, parent) ==
  /\ parent \in LiveOrgs /\ orgs[parent].status = "enabled"
  /\ Create(o, DecodeOrgPath[orgs[parent].path], Created \cap Below(parent))

Disable(o) ==
  /\ o \in LiveOrgs
  /\ orgs' = [p \in Organizations |-> IF p \in LiveOrgs \cap ({o} \cup Below(o))
                                      THEN [orgs[p] EXCEPT !.status = "disabled"] ELSE orgs[p]]
  /\ UNCHANGED depth

HasDisabledAncestor(o) ==
  \E p \in LiveOrgs : orgs[p].status = "disabled" /\ o \in Below(p)

Enable(o) ==
  /\ o \in LiveOrgs /\ ~HasDisabledAncestor(o)
  /\ orgs' = [orgs EXCEPT ![o].status = "enabled"]
  /\ UNCHANGED depth

Delete(o) ==
  /\ o \in LiveOrgs
  /\ orgs' = [p \in Organizations |-> IF p \in LiveOrgs \cap ({o} \cup Below(o))
                                      THEN [orgs[p] EXCEPT !.isDeleted = TRUE] ELSE orgs[p]]
  /\ UNCHANGED depth

\* updateDepthConfig; a restart reads the configuration again.
ConfigureDepth(d) == depth' = d /\ UNCHANGED orgs

TreeNext ==
  \/ \E o \in Organizations :
       CreateRoot(o) \/ Disable(o) \/ Enable(o) \/ Delete(o)
       \/ \E p \in Organizations : CreateUnder(o, p)
  \/ \E d \in 1 .. MaxLevel : ConfigureDepth(d)

TreeSpec == TreeInit /\ [][TreeNext]_treeVars

-----------------------------------------------------------------------------
(* Properties.                                                              *)

\* Where the forest has an organization, and what it says of it.
OrgPlaces ==
  [o \in Organizations |-> IF o \in Created THEN DecodeOrgPath[orgs[o].path] ELSE <<>>]
DisabledOrgs == {o \in Created : orgs[o].status = "disabled"}
DeletedOrgs == {o \in Created : orgs[o].isDeleted}

Forest == INSTANCE OrganizationForest
            WITH Segments <- 1 .. ChildSegments, Deepest <- MaxLevel,
                 place <- OrgPlaces, closed <- DisabledOrgs, removed <- DeletedOrgs

\* Ranges of packed paths behave like places in a forest: what is created under
\* an organization is in its range and in no other subtree's, segments of
\* deleted organizations are never given again, and disabling, enabling and
\* deleting reach just the subtree.  This is Forest!ForestSpec: every change of
\* the organizations is a step of the forest.
PathsAreAForest ==
  /\ [](TreeTypeOK /\ Forest!ForestIsSound)
  /\ Forest!ForestInit
  /\ [][orgs' # orgs => [Forest!ForestNext]_Forest!forestVars]_treeVars
=============================================================================
