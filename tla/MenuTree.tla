------------------------------- MODULE MenuTree -------------------------------
(***************************************************************************)
(* The menus: those an administrator makes, those of the base manifest,    *)
(* which the seed command restores, and those of the manifests of the      *)
(* base system and of a business module, which a synchronization writes    *)
(* past the menu service, with rules of its own.                           *)
(*                                                                         *)
(* A menu's id is its place in the sequence.  Titles, icons, sort orders,  *)
(* permissions and routes are left out.                                    *)
(***************************************************************************)
EXTENDS Integers, Sequences, FiniteSets

CONSTANTS
  MenuCodes, MenuPaths,  \* codes and paths an administrator uses
  BaseMenus,             \* baseMenuManifest
  ModuleMenus,           \* the menus of the business module
  MaxMenus               \* menus there can be

NoParent == ""
Top == 0
Manifest == [code : MenuCodes, path : MenuPaths, parent : MenuCodes \cup {NoParent}]
Codes(list) == {list[n].code : n \in DOMAIN list}
Distinct(list) ==
  \A i, j \in DOMAIN list : i # j => list[i].code # list[j].code /\ list[i].path # list[j].path

\* A base menu's parent comes before it, a module's is a menu of the base system or
\* of the module, and its menus do not hang from each other in a circle.
ASSUME MenusAssumption ==
  /\ NoParent \notin MenuCodes /\ MaxMenus \in Nat /\ Len(BaseMenus) <= MaxMenus
  /\ BaseMenus \in Seq(Manifest) /\ Distinct(BaseMenus)
  /\ ModuleMenus \in Seq(Manifest) /\ Distinct(ModuleMenus)
  /\ Codes(BaseMenus) \cap Codes(ModuleMenus) = {}
  /\ \A i \in DOMAIN BaseMenus :
       BaseMenus[i].parent \in {BaseMenus[j].code : j \in 1 .. i - 1} \cup {NoParent}
  /\ \A i \in DOMAIN ModuleMenus :
       ModuleMenus[i].parent \in Codes(BaseMenus) \cup Codes(ModuleMenus) \cup {NoParent}
  /\ \A codes \in SUBSET Codes(ModuleMenus) : codes # {} =>
       \E i \in DOMAIN ModuleMenus :
         ModuleMenus[i].code \in codes /\ ModuleMenus[i].parent \notin codes

VARIABLES menus,    \* every menu there was, by id
          bindings  \* the ids of the menus that have API bindings

menuVars == <<menus, bindings>>

-----------------------------------------------------------------------------
MenuIds == 1 .. MaxMenus
Sources == {"manual", "base_manifest", "business_module"}
Menu == [code : MenuCodes, path : MenuPaths, parent : 0 .. MaxMenus, enabled : BOOLEAN,
         isDeleted : BOOLEAN, source : Sources]

MenusTypeOK ==
  /\ menus \in Seq(Menu) /\ Len(menus) <= MaxMenus
  /\ \A i \in DOMAIN menus : menus[i].parent \in 0 .. Len(menus)
  /\ bindings \subseteq MenuIds

Live(i) == i \in DOMAIN menus /\ ~menus[i].isDeleted
With(rows, column, value) == {i \in DOMAIN rows : rows[i][column] = value}
Only(ids) == IF ids = {} THEN Top ELSE CHOOSE i \in ids : TRUE

\* Everything above a menu, deleted menus included, and the menu itself: what is
\* in every set of menus that holds it and the parents of its members.
IsClosed(above) == \A j \in above : menus[j].parent \in above \cup {Top}
Upwards(i) ==
  {a \in DOMAIN menus : \A above \in SUBSET DOMAIN menus :
     i \in above \cup {Top} /\ IsClosed(above) => a \in above}

\* Mutant: the descendants are the children.
IsChildMenu(i, parent) == menus[i].parent = parent

\* The walk upwards meets the ancestor, or a menu for the second time.
IsDescendantMenu(i, ancestor) ==
  \/ ancestor \in Upwards(menus[i].parent)
  \/ \E j \in Upwards(menus[i].parent) : j \in Upwards(menus[j].parent)

-----------------------------------------------------------------------------
(* Administrators.                                                          *)

CreateMenu(code, path, parent) ==
  /\ parent = Top \/ Live(parent)
  /\ With(menus, "code", code) = {} /\ With(menus, "path", path) = {}
  /\ Len(menus) < MaxMenus
  /\ menus' = Append(menus, [code |-> code, path |-> path, parent |-> parent, enabled |-> TRUE,
                             isDeleted |-> FALSE, source |-> "manual"])
  /\ UNCHANGED bindings

UpdateMenu(i, code, path, parent, enabled) ==
  /\ Live(i)
  /\ With(menus, "code", code) \subseteq {i} /\ With(menus, "path", path) \subseteq {i}
  /\ \/ parent \in {menus[i].parent, Top}
     \/ parent # i /\ Live(parent) /\ ~IsDescendantMenu(parent, i)
  /\ menus' = [menus EXCEPT ![i] =
       [code |-> code, path |-> path, parent |-> parent, enabled |-> enabled,
        isDeleted |-> @.isDeleted, source |-> @.source]]
  /\ UNCHANGED bindings

Deleted(menu) ==
  [code |-> menu.code, path |-> menu.path, parent |-> menu.parent, enabled |-> FALSE,
   isDeleted |-> TRUE, source |-> menu.source]

DeleteMenu(i) ==
  LET affected == {i} \cup {j \in DOMAIN menus : Live(j) /\ IsDescendantMenu(j, i)} IN
  /\ Live(i)
  /\ menus' = [j \in DOMAIN menus |->
                IF j \in affected THEN Deleted(menus[j]) ELSE menus[j]]
  /\ bindings' = bindings \ affected

UpdateApiBindings(i, bound) ==
  /\ Live(i)
  /\ bindings' = IF bound THEN bindings \cup {i} ELSE bindings \ {i}
  /\ UNCHANGED menus

-----------------------------------------------------------------------------
(* The manifests.                                                           *)

ListedMenu(entry, parent, source) ==
  [code |-> entry.code, path |-> entry.path, parent |-> parent, enabled |-> TRUE,
   isDeleted |-> FALSE, source |-> source]
Put(rows, i, row) == IF i = Top THEN Append(rows, row) ELSE [rows EXCEPT ![i] = row]
Unique(rows) ==
  \A i, j \in DOMAIN rows : i # j => rows[i].code # rows[j].code /\ rows[i].path # rows[j].path

\* seedBaseMenus looks for a menu by its code, then by its path; the parent is
\* the menu an earlier entry has found.
SeededBy(rows, entry) ==
  LET coded == With(rows, "code", entry.code) IN
  IF coded # {} THEN Only(coded) ELSE Only(With(rows, "path", entry.path))

Seeded(rows) ==
  LET after[n \in 0 .. Len(BaseMenus)] ==
        IF n = 0 THEN [rows |-> rows, ids |-> <<>>]
        ELSE LET entry == BaseMenus[n]
                 before == after[n - 1]
                 found == SeededBy(before.rows, entry)
                 above == {j \in 1 .. n - 1 : BaseMenus[j].code = entry.parent}
                 parent == IF above = {} THEN Top ELSE before.ids[Only(above)]
             IN [rows |-> Put(before.rows, found, ListedMenu(entry, parent, "base_manifest")),
                 ids |-> Append(before.ids,
                                IF found = Top THEN Len(before.rows) + 1 ELSE found)]
  IN after[Len(BaseMenus)].rows

\* The seed command is a process of its own: what it cannot save is gone.
Seed ==
  /\ Len(Seeded(menus)) <= MaxMenus /\ Unique(Seeded(menus))
  /\ menus' = Seeded(menus)
  /\ UNCHANGED bindings

\* The writers disable what a manifest no longer lists and write each entry by
\* its code alone.  A module's parent must be enabled at that moment.
Unlisted(rows, source, codes) ==
  [i \in DOMAIN rows |-> IF rows[i].source = source /\ rows[i].code \notin codes
                         THEN [rows[i] EXCEPT !.enabled = FALSE] ELSE rows[i]]

Upserted(start, list, source) ==
  LET after[n \in 0 .. Len(list)] ==
        IF n = 0 THEN [rows |-> Unlisted(start.rows, source, Codes(list)), kept |-> start.kept]
        ELSE LET entry == list[n]
                 rows == after[n - 1].rows
                 above == {i \in With(rows, "code", entry.parent) :
                             source = "base_manifest" \/ rows[i].enabled}
                 next == Put(rows, Only(With(rows, "code", entry.code)),
                             ListedMenu(entry, Only(above), source))
             IN [rows |-> next, kept |-> after[n - 1].kept /\ Unique(next)]
  IN after[Len(list)]

\* kept: no statement has met menus_path_unique.
Synchronized(rows, shipped) ==
  Upserted(Upserted([rows |-> rows, kept |-> TRUE], BaseMenus, "base_manifest"),
           IF shipped THEN ModuleMenus ELSE <<>>, "business_module")

\* One transaction; it also unbinds the menus of modules that are disabled.
Synchronize(shipped) ==
  LET done == Synchronized(menus, shipped) IN
  /\ done.kept /\ Len(done.rows) <= MaxMenus
  /\ menus' = done.rows
  /\ bindings' = {i \in bindings : menus'[i].enabled \/ menus'[i].source # "business_module"}

-----------------------------------------------------------------------------
MenusInit == menus = Seeded(<<>>) /\ bindings = {}

MenusNext ==
  \/ \E code \in MenuCodes, path \in MenuPaths, parent \in {Top} \cup MenuIds :
       \/ CreateMenu(code, path, parent)
       \/ \E i \in MenuIds, enabled \in BOOLEAN : UpdateMenu(i, code, path, parent, enabled)
  \/ \E i \in MenuIds : DeleteMenu(i) \/ \E bound \in BOOLEAN : UpdateApiBindings(i, bound)
  \/ Seed
  \/ \E shipped \in BOOLEAN : Synchronize(shipped)

MenusSpec == MenusInit /\ [][MenusNext]_menuVars

-----------------------------------------------------------------------------
(* Properties.                                                              *)

\* However menus are moved, deleted, seeded again and synchronized, a live menu
\* hangs from the top by live menus, in no cycle, and only live menus are bound
\* to APIs.
MenusHangTogether ==
  /\ \A i \in DOMAIN menus : Live(i) =>
       /\ menus[i].parent = Top \/ Live(menus[i].parent)
       /\ ~IsDescendantMenu(i, i)
  /\ \A i \in bindings : Live(i)

\* A seed that could be saved has nothing more to do, and leaves the menus so
\* that a synchronization goes through and finds them as its manifest says:
\* renamed base menus, which a synchronization cannot insert, are back.
SeedSettlesBaseMenus ==
  LET seeded == Seeded(menus) IN
  Unique(seeded) =>
    /\ Seeded(seeded) = seeded
    /\ LET done == Upserted([rows |-> seeded, kept |-> TRUE], BaseMenus, "base_manifest") IN
       /\ done.kept
       /\ \A i \in DOMAIN seeded : seeded[i].code \in Codes(BaseMenus)
                                     => done.rows[i] = seeded[i]

\* Menus form a tree, and the seed command is the way back to the base menus.
MenusAreSound == MenusTypeOK /\ MenusHangTogether /\ SeedSettlesBaseMenus
=============================================================================
