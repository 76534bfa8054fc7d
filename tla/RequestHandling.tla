---------------------------- MODULE RequestHandling ----------------------------
(* A request through the middlewares of createApp to its handler                *)
(* (middleware/business-module-activation.ts, middleware/api-authorization.ts,   *)
(* requireApiPermission of permission.service.ts, and the file content           *)
(* authorization of business-modules/capabilities).  Between two awaits the      *)
(* session may end, roles change, and modules be synchronized.  HEAD requests,   *)
(* which the framework answers from the GET handlers, are not modelled.          *)
EXTENDS ApiManifest, FiniteSets

CONSTANTS ReleaseModules,    \* the modules of the running release
          ModuleApis,        \* module -> the APIs it contributes
          Attachments,       \* module -> the reference types it declares and authorizes
          ReferenceTypes,    \* the reference types a stored reference may have
          MaxReferences,     \* the references of the requested file
          MaxWorldChanges    \* changes of the world while the request is served

ASSUME RequestBounds == MaxReferences \in Nat /\ MaxWorldChanges \in Nat

VARIABLES request,      \* the endpoint asked for: method and path
          phase,        \* where the request is
          waiting,      \* the permission whose context is awaited
          unread,       \* the references of the file still to be examined
          world,        \* what the database says now
          seen,         \* all of it that was true at some time since the request came
          worldChanges
requestVars == <<request, phase, waiting, unread, world, seen, worldChanges>>

FilePermission == [download |-> "file:download", preview |-> "file:preview"]
PasswordLifecycle == {"api.auth.me", "api.auth.change-password", "api.auth.logout"}

\* A pattern of the manifest or of a router against a path.
Matches(pattern, path) ==
  /\ Len(pattern) = Len(path)
  /\ \A i \in 1 .. Len(path) : pattern[i] = ":" \/ pattern[i] = path[i]
Answers(entry, method, path) == entry.method = method /\ Matches(entry.path, path)

\* The first of a list that answers; <<>> when none does.
FirstFor(list, method, path) ==
  LET found == {i \in DOMAIN list : Answers(list[i], method, path)}
  IN IF found = {} THEN <<>>
     ELSE <<list[CHOOSE i \in found : \A j \in found : i <= j]>>

\* The APIs the modules of the release contribute.
ModuleEntries == UNION {{ModuleApis[m][i] : i \in DOMAIN ModuleApis[m]} : m \in ReleaseModules}
Entries == {BaseApis[i] : i \in DOMAIN BaseApis} \cup ModuleEntries

FindApiPermission(method, path) ==
  LET base == FirstFor(BaseApis, method, path)
      release == {a \in ModuleEntries : Answers(a, method, path)}
  IN IF base # <<>> THEN base
     ELSE IF release = {} THEN <<>> ELSE <<CHOOSE a \in release : TRUE>>

\* The handler the framework runs: the first registered one that answers.
HandlerOf(r) == FirstFor(Handlers, r.method, r.path)

\* The module of the release whose activation a path waits for, if any.
ModuleOfPath(path) ==
  IF Len(path) >= 3 /\ path[1] = "modules" THEN {path[2]} \cap ReleaseModules ELSE {}

IsFileContent(r) ==
  /\ r.method = "GET" /\ Len(r.path) = 3
  /\ r.path[1] = "files" /\ r.path[3] \in DOMAIN FilePermission

\* The permission the middleware itself asks for: file content is left to its handler.
AskedFor(r, entry) == IF IsFileContent(r) THEN SignedIn ELSE entry.permission

-----------------------------------------------------------------------------
\* The requests examined: every pattern, a parameter replaced by an ordinary
\* identifier or by a word another pattern of the same area has at that place.
Patterns ==
  {[method |-> Handlers[i].method, path |-> Handlers[i].path] : i \in DOMAIN Handlers}
    \cup {[method |-> e.method, path |-> e.path] : e \in Entries}
Words(pattern, i) ==
  IF pattern.path[i] # ":" THEN {pattern.path[i]}
  ELSE {"7"} \cup {q.path[i] : q \in {p \in Patterns : /\ Len(p.path) >= i
                                                        /\ p.path[1] = pattern.path[1]
                                                        /\ p.path[i] # ":"}}
PathsOf(p) ==
  {path \in [DOMAIN p.path -> UNION {Words(p, i) : i \in DOMAIN p.path}] :
     \A i \in DOMAIN p.path : path[i] \in Words(p, i)}
Endpoints == UNION {{[method |-> p.method, path |-> path] : path \in PathsOf(p)} : p \in Patterns}

\* The permissions that can matter to a request: those of every entry that answers.
Relevant(r) ==
  {e.permission : e \in {x \in Entries : Answers(x, r.method, r.path)}} \ {Public, SignedIn}
\* The modules whose answer for a file, and those whose activation, can matter to it.
Answering(r) == IF IsFileContent(r) THEN ReleaseModules ELSE {}
Activating(r) == ModuleOfPath(r.path) \cup Answering(r)
References == [module : ReleaseModules, type : ReferenceTypes, active : BOOLEAN]
ReferenceLists == UNION {[1 .. n -> References] : n \in 0 .. MaxReferences}

-----------------------------------------------------------------------------
\* What the database says, and what a request has seen of it since it came.
Seen(w) == [session |-> {w.session}, mustChange |-> {w.mustChange}, held |-> w.held,
            lacked |-> Relevant(request) \ w.held, active |-> w.active, vouching |-> w.vouching]
Remember(w) ==
  LET now == Seen(w)
  IN [session |-> seen.session \cup now.session, mustChange |-> seen.mustChange \cup now.mustChange,
      held |-> seen.held \cup now.held, lacked |-> seen.lacked \cup now.lacked,
      active |-> seen.active \cup now.active, vouching |-> seen.vouching \cup now.vouching]

RequestInit ==
  /\ request \in Endpoints
  /\ phase = "arrived" /\ waiting = SignedIn /\ unread = <<>> /\ worldChanges = 0
  /\ world \in [session : BOOLEAN, mustChange : BOOLEAN, held : SUBSET Relevant(request),
                active : SUBSET Activating(request), vouching : SUBSET Answering(request),
                references : IF IsFileContent(request) THEN ReferenceLists ELSE {<<>>}]
  \* A caller refused before the file is looked at needs no file.
  /\ \/ world.session /\ ~world.mustChange
     \/ world.references = <<>> /\ world.vouching = {}
  /\ seen = Seen(world)

Moves(to) == phase' = to /\ UNCHANGED <<request, world, seen, worldChanges>>

\* createBusinessModuleActivationMiddleware.
CheckActivation ==
  /\ phase = "arrived"
  /\ Moves(IF ModuleOfPath(request.path) \subseteq world.active
           THEN "activated" ELSE "not synchronized")
  /\ UNCHANGED <<waiting, unread>>

\* Mutant: file content that no later check protects.
DispatchedAtOnce(session) ==
  IF HandlerOf(request) = <<>> THEN "not found"
  ELSE IF HandlerOf(request)[1].own /\ ~session THEN "no session" ELSE "handled"

\* The router: the handler, or the not-found answer.  A handler of the caller's
\* own data refuses a request without a session; file content has a check of its own.
Dispatched(session) ==
  IF HandlerOf(request) = <<>> THEN "not found"
  ELSE IF HandlerOf(request)[1].own /\ ~session THEN "no session"
  ELSE IF IsFileContent(request) THEN "content" ELSE "handled"

\* createApiAuthorizationMiddleware up to its await: the entry, the session of a
\* request to an entry that is not public, and the forced change of the password.
Authorize ==
  /\ phase = "activated"
  /\ LET found == FindApiPermission(request.method, request.path)
         public == found # <<>> /\ found[1].permission = Public
         asked == IF found = <<>> THEN SignedIn ELSE AskedFor(request, found[1])
     IN IF found = <<>> \/ public
        THEN Moves(Dispatched(FALSE)) /\ UNCHANGED <<waiting, unread>>
        ELSE IF ~world.session THEN Moves("no session") /\ UNCHANGED <<waiting, unread>>
        ELSE IF world.mustChange /\ found[1].code \notin PasswordLifecycle
        THEN Moves("change password") /\ UNCHANGED <<waiting, unread>>
        ELSE IF asked = SignedIn
        THEN Moves(Dispatched(TRUE)) /\ UNCHANGED <<waiting, unread>>
        ELSE Moves("permission") /\ waiting' = asked /\ UNCHANGED unread

\* requireApiPermission after its await: the permissions the user holds by now.
CheckPermission ==
  /\ phase = "permission"
  /\ Moves(IF waiting \in world.held THEN Dispatched(TRUE) ELSE "denied")
  /\ UNCHANGED <<waiting, unread>>

\* createBusinessModuleFileContentAuthorization: the user's own file permission...
CheckFilePermission ==
  /\ phase = "content"
  /\ Moves(IF FilePermission[request.path[3]] \in world.held THEN "handled" ELSE "references")
  /\ UNCHANGED <<waiting, unread>>

\* ... or the references of the file, read once...
ReadReferences ==
  /\ phase = "references"
  /\ Moves("examining") /\ unread' = world.references /\ UNCHANGED waiting

\* ... and examined in turn: the first of an active module that answers for it is
\* enough.  Both answers are awaited.
AskModule ==
  /\ phase = "examining"
  /\ IF unread = <<>> THEN Moves("denied") /\ UNCHANGED unread
     ELSE IF Head(unread).active /\ Head(unread).module \in world.active
     THEN Moves("vouching") /\ UNCHANGED unread
     ELSE Moves("examining") /\ unread' = Tail(unread)
  /\ UNCHANGED waiting
AskAuthorizer ==
  /\ phase = "vouching"
  /\ LET reference == Head(unread)
     IN IF /\ reference.type \in Attachments[reference.module]
           /\ reference.module \in world.vouching
        THEN Moves("handled") /\ UNCHANGED unread
        ELSE Moves("examining") /\ unread' = Tail(unread)
  /\ UNCHANGED waiting

Serving == {"arrived", "activated", "permission", "content", "references", "examining", "vouching"}

\* The session ends; a role gives or takes a permission; a module is synchronized;
\* the owner of a file's record answers differently.
WorldChanges ==
  /\ phase \in Serving /\ worldChanges < MaxWorldChanges /\ worldChanges' = worldChanges + 1
  /\ \/ world.session /\ world' = [world EXCEPT !.session = FALSE]
     \/ \E p \in Relevant(request) :
          world' = [world EXCEPT !.held = IF p \in @ THEN @ \ {p} ELSE @ \cup {p}]
     \/ \E m \in Activating(request) :
          world' = [world EXCEPT !.active = IF m \in @ THEN @ \ {m} ELSE @ \cup {m}]
     \/ \E m \in Answering(request) :
          world' = [world EXCEPT !.vouching = IF m \in @ THEN @ \ {m} ELSE @ \cup {m}]
  /\ seen' = Remember(world')
  /\ UNCHANGED <<request, phase, waiting, unread>>

RequestNext ==
  \/ CheckActivation \/ Authorize \/ CheckPermission \/ CheckFilePermission
  \/ ReadReferences \/ AskModule \/ AskAuthorizer \/ WorldChanges

RequestSpec == RequestInit /\ [][RequestNext]_requestVars

-----------------------------------------------------------------------------
\* The entry the documentation gives the handler that ran: its own method and path.
EntriesOf(handler) ==
  {e \in Entries : e.method = handler.method /\ e.path = handler.path}

\* The tables agree: the first entry that answers a request is the entry of the
\* very handler that answers it, with the body that handler reads; file content
\* has an entry, of the file's own permission; what no handler answers is in no
\* table of the base system.
ASSUME TablesAgree ==
  \A r \in Endpoints :
    LET found == FindApiPermission(r.method, r.path)
        handler == HandlerOf(r)
    IN /\ handler # <<>> =>
            /\ found # <<>> /\ found[1] \in EntriesOf(handler[1])
            /\ handler[1].reads # NoBody => <<found[1].code, handler[1].reads>> \in RequestSchemas
            /\ handler[1].reads = NoBody => \A s \in RequestSchemas : s[1] # found[1].code
       /\ handler = <<>> =>
            \A e \in {BaseApis[i] : i \in DOMAIN BaseApis} : ~Answers(e, r.method, r.path)
       /\ IsFileContent(r) =>
            found # <<>> /\ found[1].permission = FilePermission[r.path[3]]

\* One reference of the file was active, of a module that was active while the
\* request was served, that declares the type and answered for it.
Vouched ==
  \E i \in DOMAIN world.references :
    LET reference == world.references[i]
    IN /\ reference.active /\ reference.module \in seen.active \cap seen.vouching
       /\ reference.type \in Attachments[reference.module]

\* Whoever reached a handler was entitled to it, by the manifest's entry for the
\* very endpoint the handler serves (another entry must not answer in its place):
\* signed in, past a forced change of the password, and with the permission at some
\* time since the request came, or, for a file's content, by one and the same
\* reference.  Whoever was denied did lack the permission of that endpoint, no
\* request for an endpoint of the manifest is lost, the document names the request
\* the handler reads, and a module that is not active serves nothing.
RequestsAreSound ==
  /\ \A m \in ModuleOfPath(request.path) :
       phase \notin {"arrived", "not synchronized"} => m \in seen.active
  /\ phase = "handled" =>
       LET handler == HandlerOf(request)[1]
       IN \E e \in EntriesOf(handler) :
            /\ (handler.reads # NoBody => <<e.code, handler.reads>> \in RequestSchemas)
            /\ (handler.reads = NoBody => \A s \in RequestSchemas : s[1] # e.code)
            /\ \/ e.permission = Public /\ ~handler.own
               \/ /\ TRUE \in seen.session
                  /\ FALSE \in seen.mustChange \/ e.code \in PasswordLifecycle
                  /\ \/ e.permission \in {SignedIn} \cup seen.held
                     \/ IsFileContent(request) /\ Vouched
  /\ phase = "denied" =>
       LET found == FindApiPermission(request.method, request.path)[1]
       IN /\ found.permission \in seen.lacked
          /\ HandlerOf(request) # <<>> => found \in EntriesOf(HandlerOf(request)[1])
  /\ phase = "not found" =>
       \A e \in {BaseApis[i] : i \in DOMAIN BaseApis} : ~Answers(e, request.method, request.path)
=============================================================================
