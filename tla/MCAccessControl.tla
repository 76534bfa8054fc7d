--------------------------- MODULE MCAccessControl ---------------------------
(* Values for model checking what decides about access, at the server and in   *)
(* the browser: contexts and their cache, requests, the rules of records and   *)
(* fields, the pages and the panel of a role's permissions.  Each behaviour is *)
(* of one part, and fairness is asked of the first.                            *)
EXTENDS AccessControl, RequestHandling, FieldPermissions, WebPages

CONSTANTS root, branch, u1, u2
CONSTANT Parts   \* the parts a run checks
VARIABLE part

\* AccessControl: branch is below root.
TwoLevels == [o \in Organizations |-> IF o = root THEN Organizations ELSE {o}]
OneContext == {<<u2, branch>>}

\* RequestHandling: two modules, of which m has an API, with one attachment type each.
MCApis == [m \in {"m", "n"} |->
  IF m = "m" THEN <<Api("GET", <<"modules", "m", "things">>, "api.m.things", "m:view")>> ELSE <<>>]
MCAttachments == [m \in {"m", "n"} |-> IF m = "m" THEN {"t"} ELSE {"u"}]

\* DataPermissions: every condition, alone, beside the module's own, and nested.
Document(type, condition, parts) == [type |-> type, condition |-> condition, parts |-> parts]
Leaf(c) == Document("condition", c, {})
MCDocuments ==
  LET custom == Leaf("custom")
      leaves == {Leaf(c) : c \in {"current-user", "current-organization", "descendants", "role", "custom"}}
      either == Document("or", "", {custom, Leaf("current-user")})
  IN leaves \cup {Document("all", "", {}), either, Document("and", "", {custom, Leaf("role")}),
                  Document("and", "", {Leaf("descendants"), either})}

\* FieldPermissions: two releases, and lists of up to two rules.
MCDeclarations ==
  {[f \in Fields |-> Scenarios],
   [f \in Fields |-> IF f = "f" THEN {"list", "create"} ELSE {}]}
MCRuleLists ==
  LET listed == [field : Fields, scenario : {"list", "create"}, effect : FieldEffects]
  IN {<<>>} \cup {<<r>> : r \in listed} \cup {<<r, q>> : r \in listed, q \in listed}

\* WebPages: the cache keeps the record that was chosen on the files page.
MCKept == {<<"files", ":">>}

-----------------------------------------------------------------------------
\* Where a part may begin in several ways, it begins in one of them while
\* another is explored.
SomeWorld == [session |-> FALSE, mustChange |-> FALSE, held |-> {}, active |-> {},
              vouching |-> {}, references |-> <<>>]
SomeEndpoint == CHOOSE e \in Endpoints : TRUE
SomeResource == [access |-> "policy", owner |-> TRUE, organization |-> TRUE, operator |-> TRUE]
SomeDeclaration == CHOOSE d \in Declarations : TRUE
SomeView == CHOOSE v \in Views : TRUE
StartsAs(p, oneWay) == part = p \/ oneWay

MCInit ==
  /\ part \in Parts
  /\ Init /\ StartsAs("contexts", driver = "memory" /\ enabled = BaseCodes /\ organizations[branch] = "none")
  /\ RequestInit /\ StartsAs("requests", request = SomeEndpoint /\ world = SomeWorld)
  /\ DataInit /\ StartsAs("records", resource = SomeResource)
  /\ FieldInit /\ StartsAs("fields", controlled = SomeDeclaration)
  /\ WebInit /\ StartsAs("pages", view = SomeView)
  /\ PanelInit /\ StartsAs("roles", \A r \in PanelRoles : codesOf[r] = {})

\* A step of one part: the other parts' variables stay as they are.
Stays(p, variables) == IF part = p THEN TRUE ELSE UNCHANGED variables
Only ==
  /\ UNCHANGED part
  /\ Stays("contexts", vars) /\ Stays("requests", requestVars) /\ Stays("records", dataVars)
  /\ Stays("fields", fieldVars) /\ Stays("pages", webVars) /\ Stays("roles", panelVars)

MCNext ==
  \/ part = "contexts" /\ Next /\ Only
  \/ part = "requests" /\ RequestNext /\ Only
  \/ part = "records" /\ DataNext /\ Only
  \/ part = "fields" /\ FieldNext /\ Only
  \/ part = "pages" /\ WebNext /\ Only
  \/ part = "roles" /\ PanelNext /\ Only

\* AccessControl's Fairness.
ContextsAre == part = "contexts"
ContextFairness ==
  /\ \A c \in Callers : WF_vars(ContextsAre /\ Serve(c))
  /\ \A a \in Admins : WF_vars(ContextsAre /\ Land(a))
  /\ \A k \in Keys : WF_vars(ContextsAre /\ Expire(k))

AccessSpec ==
  /\ MCInit
  /\ [][MCNext]_<<part, vars, requestVars, dataVars, fieldVars, webVars, panelVars>>
  /\ ContextFairness
=============================================================================
