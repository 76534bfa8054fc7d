---------------------------- MODULE MetadataCatalog ----------------------------
(***************************************************************************)
(* The base system's API metadata and permissions, as releases change      *)
(* their manifests: what the seed command makes of the rows, in memory,    *)
(* and what a synchronization makes of them, by statements; and the API    *)
(* bindings and role grants that hang on the rows.                         *)
(*                                                                         *)
(* A row's id is its place in the sequence; an endpoint is a method with   *)
(* a path.                                                                 *)
(***************************************************************************)
EXTENDS Integers, Sequences, FiniteSets

CONSTANTS
  ApiCodes, Endpoints,
  BaseCodes,        \* base permission codes
  ApiManifests,     \* baseApiPermissionManifest of each release: [code, endpoint]
  PermManifests,    \* the codes of basePermissionManifest of each release
  MaxCatalogEdits   \* changes of bindings and grants

ASSUME CatalogAssumption ==
  /\ Len(ApiManifests) = Len(PermManifests) /\ Len(ApiManifests) > 0
  /\ \A r \in DOMAIN ApiManifests :
       /\ ApiManifests[r] \in Seq([code : ApiCodes, endpoint : Endpoints])
       /\ \A i, j \in DOMAIN ApiManifests[r] : i # j =>
            /\ ApiManifests[r][i].code # ApiManifests[r][j].code
            /\ ApiManifests[r][i].endpoint # ApiManifests[r][j].endpoint
       /\ PermManifests[r] \subseteq BaseCodes
  /\ MaxCatalogEdits \in Nat

VARIABLES stored,      \* the tables
          loadedCatalog,  \* what the API process has in memory
          version,     \* the release that is installed
          seededBy,    \* the release whose seed was the last to change the API rows, or 0
          refused,     \* releases a synchronization of which has failed on a row
          catalogEdits

catalogVars == <<stored, loadedCatalog, version, seededBy, refused, catalogEdits>>

-----------------------------------------------------------------------------
Row == [code : ApiCodes, endpoint : Endpoints, enabled : BOOLEAN]
Versions == DOMAIN ApiManifests
PermissionState == {"absent", "enabled", "disabled"}

IsCatalog(c) ==
  /\ c \in [apis : Seq(Row), bound : SUBSET Nat, granted : SUBSET BaseCodes,
            permissions : [BaseCodes -> PermissionState]]
  /\ c.bound \subseteq DOMAIN c.apis

CatalogTypeOK ==
  /\ IsCatalog(stored) /\ IsCatalog(loadedCatalog)
  /\ version \in Versions /\ seededBy \in Versions \cup {0} /\ refused \subseteq Versions
  /\ catalogEdits \in 0 .. MaxCatalogEdits

Having(rows, column, value) == {i \in DOMAIN rows : rows[i][column] = value}
Some(ids) == CHOOSE i \in ids : \A j \in ids : i <= j   \* the first in Map order
Unambiguous(rows) ==
  \A i, j \in DOMAIN rows :
    i # j => rows[i].code # rows[j].code /\ rows[i].endpoint # rows[j].endpoint
Listing(entry) == [code |-> entry.code, endpoint |-> entry.endpoint, enabled |-> TRUE]
Place(rows, ids, row) == IF ids = {} THEN Append(rows, row) ELSE [rows EXCEPT ![Some(ids)] = row]

\* Mutant: what no manifest lists any more stays enabled.
Untouched(rows, r) == rows

\* What no manifest lists any more is disabled first.
Outdated(rows, r) ==
  LET codes == {ApiManifests[r][n].code : n \in DOMAIN ApiManifests[r]} IN
  [i \in DOMAIN rows |-> [rows[i] EXCEPT !.enabled = @ /\ rows[i].code \in codes]]
Permitted(known, r) ==
  [p \in BaseCodes |-> IF p \in PermManifests[r] THEN "enabled"
                       ELSE IF known[p] = "absent" THEN "absent" ELSE "disabled"]

-----------------------------------------------------------------------------
(* The seed command.                                                        *)

\* findExistingApiPermissionForManifestEntry: by the code, then by the endpoint
Existing(rows, entry) ==
  IF Having(rows, "code", entry.code) # {} THEN Having(rows, "code", entry.code)
  ELSE Having(rows, "endpoint", entry.endpoint)

SeededApis(rows, r) ==
  LET after[n \in 0 .. Len(ApiManifests[r])] ==
        IF n = 0 THEN Outdated(rows, r)
        ELSE LET entry == ApiManifests[r][n] IN
             Place(after[n - 1], Existing(after[n - 1], entry), Listing(entry))
  IN after[Len(ApiManifests[r])]

\* Bindings and grants of what is not enabled are pruned; the super
\* administrator is granted everything.
Pruned(c) ==
  [apis |-> c.apis, permissions |-> c.permissions,
   bound |-> {i \in c.bound : c.apis[i].enabled},
   granted |-> {p \in c.granted : c.permissions[p] = "enabled"}]

\* The rows as a manifest leaves them, and what hangs on them.
Manifested(c, rows, r) ==
  [apis |-> rows, permissions |-> Permitted(c.permissions, r), bound |-> c.bound,
   granted |-> c.granted]

SeededCatalog(c, r) == Pruned(Manifested(c, SeededApis(c.apis, r), r))

\* The command is a process of its own, which loads, changes and saves
\* everything, or nothing if a unique index does not allow it.
SeedCatalog ==
  LET seeded == SeededCatalog(stored, version) IN
  /\ Unambiguous(seeded.apis)
  /\ stored' = seeded /\ seededBy' = version
  /\ UNCHANGED <<loadedCatalog, version, refused, catalogEdits>>

-----------------------------------------------------------------------------
(* The synchronization.                                                     *)

\* ON CONFLICT(code) alone: the other index makes a statement fail.
UpsertedApis(rows, r) ==
  LET after[n \in 0 .. Len(ApiManifests[r])] ==
        IF n = 0 THEN [rows |-> Outdated(rows, r), accepted |-> TRUE]
        ELSE LET entry == ApiManifests[r][n]
                 before == after[n - 1].rows
                 next == Place(before, Having(before, "code", entry.code), Listing(entry))
             IN [rows |-> next, accepted |-> after[n - 1].accepted /\ Unambiguous(next)]
  IN after[Len(ApiManifests[r])]

\* The transaction commits and the memory is loaded again and pruned; the base
\* system's bindings and grants stay in their tables.
SynchronizeCatalog ==
  LET upserted == UpsertedApis(stored.apis, version) IN
  /\ upserted.accepted
  /\ stored' = Manifested(stored, upserted.rows, version)
  /\ loadedCatalog' = Pruned(stored')
  /\ seededBy' = IF seededBy = version THEN version ELSE 0
  /\ UNCHANGED <<version, refused, catalogEdits>>

RefuseSynchronization ==
  /\ ~UpsertedApis(stored.apis, version).accepted
  /\ refused' = refused \cup {version}
  /\ UNCHANGED <<stored, loadedCatalog, version, seededBy, catalogEdits>>

-----------------------------------------------------------------------------
(* The API process.                                                         *)

\* It starts with the installed release or the next one, loads and refreshes
\* the memory.
StartCatalog(r) ==
  /\ r \in Versions /\ r \in {version, version + 1}
  /\ version' = r
  /\ seededBy' = IF r = version THEN seededBy ELSE 0
  /\ loadedCatalog' = Pruned(stored)
  /\ UNCHANGED <<stored, refused, catalogEdits>>

EditsCatalog == /\ catalogEdits < MaxCatalogEdits
                /\ catalogEdits' = catalogEdits + 1

\* An administrator binds an enabled API to a menu, or grants an enabled
\* permission to a role; the whole table is saved from memory.
BindApi(i) ==
  /\ EditsCatalog
  /\ i \in DOMAIN loadedCatalog.apis /\ loadedCatalog.apis[i].enabled
  /\ loadedCatalog' = [loadedCatalog EXCEPT !.bound = @ \cup {i}]
  /\ stored' = [stored EXCEPT !.bound = loadedCatalog'.bound]
  /\ UNCHANGED <<version, seededBy, refused>>

GrantPermission(p) ==
  /\ EditsCatalog
  /\ loadedCatalog.permissions[p] = "enabled"
  /\ loadedCatalog' = [loadedCatalog EXCEPT !.granted = @ \cup {p}]
  /\ stored' = [stored EXCEPT !.granted = loadedCatalog'.granted]
  /\ UNCHANGED <<version, seededBy, refused>>

CatalogInit ==
  LET empty == [apis |-> <<>>, bound |-> {}, granted |-> {},
                permissions |-> [p \in BaseCodes |-> "absent"]]
  IN
  /\ stored = SeededCatalog(empty, 1) /\ loadedCatalog = stored
  /\ version = 1 /\ seededBy = 1 /\ refused = {} /\ catalogEdits = 0

CatalogNext ==
  \/ SeedCatalog \/ SynchronizeCatalog \/ RefuseSynchronization
  \/ \E r \in Versions : StartCatalog(r)
  \/ \E i \in DOMAIN loadedCatalog.apis : BindApi(i)
  \/ \E p \in BaseCodes : GrantPermission(p)

CatalogSpec == CatalogInit /\ [][CatalogNext]_catalogVars

-----------------------------------------------------------------------------
(* Properties.                                                              *)

\* After a seed of the installed release its APIs are the enabled ones, each
\* once, and a synchronization goes through and changes no row of them: the
\* seed is the way out of renamed codes and moved endpoints.
SeedUnblocksSynchronization ==
  seededBy = version =>
    LET upserted == UpsertedApis(stored.apis, version) IN
    /\ upserted.accepted /\ upserted.rows = stored.apis
    /\ {[code |-> row.code, endpoint |-> row.endpoint] :
          row \in {stored.apis[i] : i \in {j \in DOMAIN stored.apis : stored.apis[j].enabled}}}
         = {ApiManifests[version][n] : n \in DOMAIN ApiManifests[version]}

\* The memory offers no menu an API, and no role a permission, that is not
\* enabled, though the tables may hold them.
LiveReferencesAreEnabled ==
  /\ \A i \in loadedCatalog.bound : loadedCatalog.apis[i].enabled
  /\ \A p \in loadedCatalog.granted : loadedCatalog.permissions[p] = "enabled"

\* The catalogue an administrator sees is the manifests', and so is, after a
\* seed, the one a synchronization finds.
CatalogIsSound == CatalogTypeOK /\ SeedUnblocksSynchronization /\ LiveReferencesAreEnabled
=============================================================================
