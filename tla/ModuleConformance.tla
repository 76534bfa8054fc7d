-------------------------- MODULE ModuleConformance --------------------------
(***************************************************************************)
(* What business modules declare, what their code registers in the API,    *)
(* the web application and the worker, and the check that lets a release   *)
(* be built: that what is declared is registered, and the reverse, so that *)
(* no use of a declared contribution fails for want of code when the       *)
(* modules run.  The steps are edits of the sources between two checks.    *)
(*                                                                         *)
(* A contribution is named by its kind and identifier.                     *)
(***************************************************************************)
EXTENDS Integers, FiniteSets

CONSTANTS
  ModuleNames,
  Contributions,   \* there may be: records of the form below
  BaseMenuCodes,
  MaxSourceEdits

Kinds == {"permission", "dataPermission", "api", "route", "menu", "resource", "event", "csv",
          "attachment", "domainEvent", "notification", "job", "error"}
Directions == {"import", "export"}

\* Endpoints and pages have a place.
HasPlace(c) == c.kind \in {"api", "route"}

\* namespace: the module whose prefix the names and the place have; refs: the
\* contributions it names, of which the schema requires a permission for what has
\* a place; within: limits and lists agree.
ASSUME ConformanceAssumption ==
  /\ \A c \in Contributions :
       /\ c.kind \in Kinds /\ c.namespace \in ModuleNames
       /\ c.directions \subseteq Directions /\ c.within \in BOOLEAN
       /\ HasPlace(c) => \E ref \in c.refs : ref = <<"permission", ref[2]>>
  /\ \A c, d \in Contributions :
       HasPlace(c) /\ HasPlace(d) /\ c.place = d.place => c.namespace = d.namespace
  /\ MaxSourceEdits \in Nat

VARIABLES declared,     \* the definition of each module
          registered,   \* what its code provides in each process
          mounted,      \* endpoints and pages in the route trees
          sourceEdits

conformanceVars == <<declared, registered, mounted, sourceEdits>>

Processes == {"api", "web", "worker"}

-----------------------------------------------------------------------------
(* What a contribution needs in each process.                               *)

Named(kind, id) == <<kind, id, "">>
SchemasOf(c) == {Named("schema", s) : s \in c.schemas}
DirectionsOf(c) == {Named(d, c.id) : d \in c.directions}

NeededIn(process, c) ==
  CASE process = "api" ->
         (IF c.kind = "api" THEN {<<"api", c.id, c.place>>}
          ELSE IF c.kind \in {"attachment", "csv", "notification"} THEN {Named(c.kind, c.id)} ELSE {})
           \cup {Named("operator", o) : o \in c.operators} \cup SchemasOf(c) \cup DirectionsOf(c)
    [] process = "web" -> IF c.kind = "route" THEN {<<"route", c.id, c.place>>} ELSE {}
    [] process = "worker" ->
         IF c.kind = "job" THEN {Named("job", c.id)} \cup SchemasOf(c) ELSE DirectionsOf(c)

Needed(process, m) == UNION {NeededIn(process, c) : c \in declared[m]}

\* A handler of a direction that is not declared is no error if the resource is.
Tolerated(process, m) ==
  Needed(process, m)
    \cup {Named(d, c.id) : d \in Directions, c \in {x \in declared[m] : x.kind = "csv"}}

-----------------------------------------------------------------------------
(* checkBusinessModuleConformance.                                          *)

\* validateOwnership: kind and identifier have one owner.
OwnersConform ==
  \A m, n \in ModuleNames : m # n =>
    \A c \in declared[m], d \in declared[n] : ~(c.kind = d.kind /\ c.id = d.id)

\* validateNamespaces.
NamespacesConform == \A m \in ModuleNames : \A c \in declared[m] : c.namespace = m

\* validateReferences: within the module, or to a menu of the base system.
Resolves(m, ref) ==
  \/ \E c \in declared[m] : c.kind = ref[1] /\ c.id = ref[2]
  \/ ref[1] = "menu" /\ ref[2] \in BaseMenuCodes
ReferencesConform ==
  \A m \in ModuleNames : \A c \in declared[m] : c.within /\ \A ref \in c.refs : Resolves(m, ref)

\* Mutant: one direction of the comparison.
OnlyDeclared ==
  \A process \in Processes, m \in ModuleNames : registered[process][m] \subseteq Tolerated(process, m)

\* validateDeclaredRuntime, validateRegisteredRuntime, validateRegistrationOwners.
RegistrationsConform ==
  \A process \in Processes, m \in ModuleNames :
    /\ Needed(process, m) \subseteq registered[process][m]
    /\ registered[process][m] \subseteq Tolerated(process, m)

\* validateMountedRuntime: places, not codes.
PlacesDeclared ==
  {c.place : c \in {x \in UNION {declared[m] : m \in ModuleNames} : HasPlace(x)}}
MountsConform == mounted = PlacesDeclared

Conforms == /\ OwnersConform /\ NamespacesConform /\ ReferencesConform
            /\ RegistrationsConform /\ MountsConform

-----------------------------------------------------------------------------
(* What the modules' code meets when it runs.                               *)

\* The capabilities of the API refuse a call that names what is declared if code
\* or a schema is missing.
HasInApi(m, kind, id) == Named(kind, id) \in registered["api"][m]
RequireSchemas(m, c) == \A s \in c.schemas : HasInApi(m, "schema", s)

EventWorks(m, c) == c.kind = "domainEvent" => RequireSchemas(m, c)
NotificationWorks(m, c) ==
  c.kind = "notification" => RequireSchemas(m, c) /\ HasInApi(m, "notification", c.id)
JobWorks(m, c) == c.kind = "job" => RequireSchemas(m, c)
ErrorWorks(m, c) == c.kind = "error" => RequireSchemas(m, c)
FileWorks(m, c) == c.kind = "attachment" => HasInApi(m, "attachment", c.id)
CsvWorks(m, c) ==
  c.kind = "csv" => /\ HasInApi(m, "csv", c.id)
                    /\ "import" \in c.directions => HasInApi(m, "import", c.id)
OperatorsWork(m, c) == c.kind = "resource" => \A o \in c.operators : HasInApi(m, "operator", o)

CallsWork(m, c) ==
  /\ EventWorks(m, c) /\ NotificationWorks(m, c) /\ JobWorks(m, c) /\ ErrorWorks(m, c)
  /\ FileWorks(m, c) /\ CsvWorks(m, c) /\ OperatorsWork(m, c)

\* createBusinessModuleJobTasks throws at the start of the worker.
WorkerStarts(m) ==
  \A h \in registered["worker"][m] : h[1] = "job" =>
    \E c \in declared[m] : /\ c.kind = "job" /\ c.id = h[2]
                           /\ SchemasOf(c) \subseteq registered["worker"][m]

\* What the API hands to the worker finds its handler there.
WorkArrives(m, c) ==
  /\ c.kind = "job" => Named("job", c.id) \in registered["worker"][m]
  /\ c.kind = "csv" => DirectionsOf(c) \subseteq registered["worker"][m]

\* A request is of one module, which declares the permission it needs.
RequestsAreOwned ==
  \A place \in mounted :
    \E m \in ModuleNames :
      /\ \E c \in declared[m] : HasPlace(c) /\ c.place = place
      /\ \A n \in ModuleNames : \A c \in declared[n] :
           HasPlace(c) /\ c.place = place =>
             n = m /\ \E p \in declared[m] : p.kind = "permission" /\ <<p.kind, p.id>> \in c.refs

-----------------------------------------------------------------------------
Everything(process, m) ==
  UNION {NeededIn(process, c) : c \in {x \in Contributions : x.namespace = m}}

\* From nothing, or from everything.
ConformanceInit ==
  /\ sourceEdits = 0
  /\ \E whole \in BOOLEAN :
       /\ declared = [m \in ModuleNames |->
                        {c \in Contributions : whole /\ c.within /\ c.namespace = m}]
       /\ registered = [process \in Processes |-> [m \in ModuleNames |->
                          IF whole THEN Needed(process, m) ELSE {}]]
       /\ mounted = PlacesDeclared

Toggled(x, S) == IF x \in S THEN S \ {x} ELSE S \cup {x}
Edit == sourceEdits < MaxSourceEdits /\ sourceEdits' = sourceEdits + 1

EditDefinition(m, c) ==
  /\ Edit /\ declared' = [declared EXCEPT ![m] = Toggled(c, @)] /\ UNCHANGED <<registered, mounted>>
EditRegistration(process, m, x) ==
  /\ Edit /\ registered' = [registered EXCEPT ![process][m] = Toggled(x, @)]
  /\ UNCHANGED <<declared, mounted>>
EditRoutes(place) ==
  /\ Edit /\ mounted' = Toggled(place, mounted) /\ UNCHANGED <<declared, registered>>

ConformanceNext ==
  \/ \E m \in ModuleNames, c \in Contributions : EditDefinition(m, c)
  \/ \E process \in Processes, m \in ModuleNames : \E x \in Everything(process, m) :
       EditRegistration(process, m, x)
  \/ \E place \in {c.place : c \in {x \in Contributions : HasPlace(x)}} : EditRoutes(place)

ConformanceSpec == ConformanceInit /\ [][ConformanceNext]_conformanceVars

-----------------------------------------------------------------------------
(* Properties.                                                              *)

\* In a release that passes the check every call of a capability that names a
\* declared contribution finds its code and its schemas, the worker starts, what
\* is handed to it arrives, and a request is of one module and guarded by a
\* permission of it.
ConformingWorks ==
  Conforms =>
    /\ \A m \in ModuleNames :
         /\ WorkerStarts(m)
         /\ \A c \in declared[m] : CallsWork(m, c) /\ WorkArrives(m, c)
    /\ RequestsAreOwned
=============================================================================
