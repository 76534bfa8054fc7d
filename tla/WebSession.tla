------------------------------ MODULE WebSession ------------------------------
(* Who the tabs of one browser take their user for (stores/auth.store.ts,         *)
(* stores/organization.store.ts, the login and password pages and the            *)
(* organization switch of the shell).  A tab keeps the token, the user, the       *)
(* permission codes, the organization and the list of organizations to choose    *)
(* from in memory; the token, the organization and the list also go to the local *)
(* storage, which all tabs share and from which requestJson takes the token of   *)
(* every request.  Answers arrive after whatever the user has done in the         *)
(* meantime.                                                                      *)
EXTENDS Integers, FiniteSets

CONSTANTS Tabs, WebUsers, WebOrganizations,
          DefaultOrganizations, \* of a browser in which no list is stored
          MaxWebSessions,  \* logins the server accepts
          MaxWebCalls      \* calls the tabs make

ASSUME WebSessionAssumption ==
  /\ {MaxWebSessions, MaxWebCalls} \subseteq Nat
  /\ DefaultOrganizations \subseteq WebOrganizations /\ DefaultOrganizations # {}

VARIABLES server,     \* per session of the server: its user and organization, the organizations
                      \* its login was answered with, and if it lives
          opened,     \* sessions opened so far
          called,     \* calls made so far
          local,      \* the local storage
          tab,        \* the stores of each tab
          waits,      \* the calls each tab waits for, one of a kind
          insync,     \* the tabs in whose stores the local storage still is
          late        \* answers that came too late, or not at all: the tabs, and the sessions;
                      \* and the sessions that another login's list has switched
sessionVars == <<server, opened, called, local, tab, waits, insync, late>>

Nobody == "nobody"
None == "none"
NoToken == [session |-> 0, org |-> None]
Tokens == [session : 1 .. MaxWebSessions, org : WebOrganizations]
UserOf(token) == server[token.session].user

\* A list of organizations is that of a login, named by its session; readOrganizations
\* takes the default for one that is not stored, and reset leaves a tab with none.
DefaultList == 0
NoList == -1
Listed(list) == IF list = NoList THEN {}
                ELSE IF list = DefaultList THEN DefaultOrganizations ELSE server[list].orgs

\* Whose codes are shown, and in which organization; after a reload, all of them.
NoCodes == [user |-> Nobody, org |-> None]
AllCodes == [user |-> "*", org |-> "*"]
CodesOf(token) == [user |-> UserOf(token), org |-> token.org]
\* The user a tab assumes when it finds a token.
Assumed == "admin"

Kinds == {"login", "password", "switch"}
NoCall == [user |-> Nobody, token |-> NoToken, org |-> None, phase |-> "none"]
Sends(t, kind, user, token, org) ==
  /\ waits[t][kind] = NoCall /\ called < MaxWebCalls /\ called' = called + 1
  /\ waits' = [waits EXCEPT ![t][kind] =
                 [user |-> user, token |-> token, org |-> org, phase |-> "sent"]]
Sent(t, kind) == waits[t][kind].phase = "sent"
Answered(t, kind) == waits[t][kind].phase = "answered"
Answers(t, kind, token) ==
  waits' = [waits EXCEPT ![t][kind] = [@ EXCEPT !.phase = "answered", !.token = token]]
AppReturns(t, kind) == waits' = [waits EXCEPT ![t][kind] = NoCall]

\* The stores of a tab that nobody has signed in to.
SignedOut(org, list) ==
  [token |-> NoToken, user |-> Nobody, codes |-> NoCodes, org |-> org, list |-> list]

SessionInit ==
  /\ server = [s \in 1 .. MaxWebSessions |->
                 [user |-> Nobody, org |-> None, orgs |-> {}, live |-> FALSE]]
  /\ opened = 0 /\ called = 0
  /\ local = [token |-> NoToken, org |-> None, list |-> DefaultList]
  /\ \E first \in DefaultOrganizations :
       tab = [t \in Tabs |-> SignedOut(first, DefaultList)]
  /\ waits = [t \in Tabs |-> [k \in Kinds |-> NoCall]]
  /\ insync = Tabs /\ late = [tabs |-> {}, sessions |-> {}, lists |-> {}]

\* A tab writes both its stores and the local storage.
Writes(t, store, storage) ==
  /\ tab' = [tab EXCEPT ![t] = store] /\ local' = storage
  /\ insync' = {t} \cup (IF storage = local THEN insync ELSE {})

-----------------------------------------------------------------------------
(* The server, for what these calls need of it.                                 *)

\* A token is accepted while its session lives and is in its organization.
Accepts(token) ==
  token # NoToken /\ server[token.session].live /\ server[token.session].org = token.org

\* The organization of a new session is one of those the user is given.
ServerLogsIn(t, o, orgs) ==
  /\ o \in orgs
  /\ Sent(t, "login") /\ opened < MaxWebSessions /\ opened' = opened + 1
  /\ server' = [server EXCEPT ![opened'] =
                  [user |-> waits[t]["login"].user, org |-> o, orgs |-> orgs, live |-> TRUE]]
  /\ Answers(t, "login", [session |-> opened', org |-> o])
  /\ UNCHANGED <<called, local, tab, insync, late>>

\* A change of password ends the sessions of the user.
ServerChangesPassword(t) ==
  /\ Sent(t, "password") /\ Accepts(waits[t]["password"].token)
  /\ server' = [s \in DOMAIN server |->
       [server[s] EXCEPT !.live = @ /\ server[s].user # UserOf(waits[t]["password"].token)]]
  /\ Answers(t, "password", NoToken)
  /\ UNCHANGED <<opened, called, local, tab, insync, late>>

ServerSwitches(t) ==
  /\ Sent(t, "switch") /\ Accepts(waits[t]["switch"].token)
  /\ LET call == waits[t]["switch"]
     IN /\ server' = [server EXCEPT ![call.token.session].org = call.org]
        /\ Answers(t, "switch", [session |-> call.token.session, org |-> call.org])
  /\ UNCHANGED <<opened, called, local, tab, insync, late>>

\* A call the server refuses, or that does not reach it: the page says so.
Fails(t, kind) ==
  /\ Sent(t, kind) /\ AppReturns(t, kind)
  /\ UNCHANGED <<server, opened, called, local, tab, insync, late>>

\* A session expires or is revoked.
Ends(s) ==
  /\ server[s].live /\ server' = [server EXCEPT ![s].live = FALSE]
  /\ UNCHANGED <<opened, called, local, tab, waits, insync, late>>

-----------------------------------------------------------------------------
(* The tabs.                                                                    *)

\* requestJson: the token of the request is that of the local storage.
SubmitLogin(t, u) ==
  /\ tab[t].token = NoToken /\ Sends(t, "login", u, NoToken, None)
  /\ UNCHANGED <<server, opened, local, tab, insync, late>>

SubmitPassword(t) ==
  /\ tab[t].token # NoToken /\ Sends(t, "password", Nobody, local.token, None)
  /\ UNCHANGED <<server, opened, local, tab, insync, late>>

\* handleOrganizationSwitch up to its await: the selector of the shell, which is
\* there for whoever has a token, offers the tab's list and waits for its own answer
\* only.
SelectOrganization(t, o) ==
  /\ tab[t].token # NoToken /\ o \in Listed(tab[t].list) \ {tab[t].org}
  /\ Sends(t, "switch", Nobody, local.token, o)
  /\ UNCHANGED <<server, opened, local, tab, insync, late>>

\* The tab's identity has changed since it asked; another tab has switched the
\* session since the server answered.
Overtaken(t, token) == tab[t].token = NoToken \/ tab[t].token.session # token.session
Superseded(token) == server[token.session].org # token.org
\* The tab chose from the list of another login than the session's.
Strays(t, token) == tab[t].list # token.session

\* signIn, setOrganizations, setCurrentOrganizationId.
LoginAnswered(t) ==
  /\ Answered(t, "login")
  /\ LET token == waits[t]["login"].token
     IN /\ Writes(t, [token |-> token, user |-> waits[t]["login"].user, codes |-> CodesOf(token),
                      org |-> token.org, list |-> token.session],
               [token |-> token, org |-> token.org, list |-> token.session])
        /\ late' = [late EXCEPT !.tabs = @ \ {t}]
  /\ AppReturns(t, "login") /\ UNCHANGED <<server, opened, called>>

\* markPasswordChanged, then signOut: the organization and the list are left as they are.
PasswordAnswered(t) ==
  /\ Answered(t, "password")
  /\ Writes(t, SignedOut(tab[t].org, tab[t].list), [local EXCEPT !.token = NoToken])
  /\ AppReturns(t, "password") /\ UNCHANGED <<server, opened, called, late>>

\* Mutant: the answer's codes are not taken over.
ReturnedWithoutCodes(t, token) ==
  [tab[t] EXCEPT !.token = token, !.org = token.org]

\* setAccessToken, setPermissionContext, switchOrganization.
SwitchReturned(t, token) ==
  [tab[t] EXCEPT !.token = token, !.codes = CodesOf(token), !.org = token.org]

SwitchAnswered(t) ==
  /\ Answered(t, "switch")
  /\ LET token == waits[t]["switch"].token
     IN /\ Writes(t, SwitchReturned(t, token), [local EXCEPT !.token = token, !.org = token.org])
        /\ late' = [tabs |-> IF Overtaken(t, token) THEN late.tabs \cup {t} ELSE late.tabs,
                    sessions |-> IF Superseded(token) THEN late.sessions \cup {token.session}
                                 ELSE late.sessions \ {token.session},
                    lists |-> IF Strays(t, token) THEN late.lists \cup {token.session}
                              ELSE late.lists]
  /\ AppReturns(t, "switch") /\ UNCHANGED <<server, opened, called>>

\* The answer to a switch the server has made is lost.
SwitchLost(t) ==
  /\ Answered(t, "switch") /\ AppReturns(t, "switch")
  /\ late' = [late EXCEPT !.sessions = @ \cup {waits[t]["switch"].token.session}]
  /\ UNCHANGED <<server, opened, called, local, tab, insync>>

\* The logout button: signOut and reset; the server is not told.
LogOut(t) ==
  /\ tab[t].token # NoToken
  /\ Writes(t, SignedOut(None, NoList), [token |-> NoToken, org |-> None, list |-> DefaultList])
  /\ late' = [late EXCEPT !.tabs = @ \ {t}]
  /\ UNCHANGED <<server, opened, called, waits>>

\* readCurrentOrganizationId: the stored organization if the stored list has it, and
\* else the first of the list.
Restores(org) ==
  IF local.org \in Listed(local.list) THEN org = local.org ELSE org \in Listed(local.list)
\* The stored list does not have the organization of the stored token: it is that of
\* another login, or removed, or another login's list has switched the session.
Unlisted == /\ local.token # NoToken /\ local.org \notin Listed(local.list)
            /\ \/ local.list # local.token.session
               \/ local.token.session \in late.lists

\* The page is loaded anew: the stores start from the local storage, and whatever
\* the tab waited for is lost.
Reload(t, org) ==
  /\ Restores(org)
  /\ tab' = [tab EXCEPT ![t] =
       IF local.token = NoToken THEN SignedOut(org, local.list)
       ELSE [token |-> local.token, user |-> Assumed, codes |-> AllCodes, org |-> org,
             list |-> local.list]]
  /\ waits' = [waits EXCEPT ![t] = [k \in Kinds |-> NoCall]]
  /\ insync' = IF Unlisted THEN insync \ {t} ELSE insync \cup {t}
  /\ late' = [late EXCEPT
       !.tabs = IF Unlisted THEN @ \cup {t} ELSE @ \ {t},
       !.sessions = IF Answered(t, "switch")
                    THEN @ \cup {waits[t]["switch"].token.session} ELSE @]
  /\ UNCHANGED <<server, opened, called, local>>

SessionNext ==
  \/ \E t \in Tabs :
       \/ SubmitPassword(t) \/ LoginAnswered(t) \/ PasswordAnswered(t) \/ SwitchAnswered(t)
       \/ SwitchLost(t) \/ LogOut(t)
       \/ ServerChangesPassword(t) \/ ServerSwitches(t) \/ \E k \in Kinds : Fails(t, k)
       \/ \E u \in WebUsers : SubmitLogin(t, u)
       \/ \E o \in WebOrganizations :
            \/ SelectOrganization(t, o) \/ Reload(t, o)
            \/ \E orgs \in SUBSET WebOrganizations : ServerLogsIn(t, o, orgs)
  \/ \E s \in 1 .. MaxWebSessions : Ends(s)

-----------------------------------------------------------------------------
\* A switch of the session is under way somewhere.
Switching(s) ==
  \E t \in Tabs : waits[t]["switch"] # NoCall /\ waits[t]["switch"].token.session = s

\* What a tab shows belongs together: the user, the codes and the organization are
\* those its token was issued for (any codes, and a stand-in for the user, after a
\* reload), unless an answer overtook a logout or another login, or the tab was
\* loaded anew while the stored list, of another login or none, did not have the
\* token's organization; a tab without a token shows no one.  As long as no other tab has written the local storage, the
\* token its requests carry is its own.  And the token in the local storage is one
\* the server accepts while its session lives, unless the answer to the session's
\* last switch was lost, or came before that to an earlier one.
TabsAreCoherent ==
  /\ \A t \in Tabs \ late.tabs :
       LET shown == tab[t]
       IN IF shown.token = NoToken THEN shown.user = Nobody /\ shown.codes = NoCodes
          ELSE /\ shown.user \in {UserOf(shown.token), Assumed}
               /\ shown.user # Assumed =>
                    shown.codes = [user |-> shown.user, org |-> shown.org]
               /\ shown.org = shown.token.org
  /\ \A t \in insync : /\ local.token = tab[t].token
                       /\ local.token # NoToken => local.org = tab[t].org
  /\ local.token # NoToken =>
       LET s == local.token.session
       IN (server[s].live /\ s \notin late.sessions /\ ~Switching(s)) => Accepts(local.token)
=============================================================================
