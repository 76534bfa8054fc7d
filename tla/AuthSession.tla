------------------------------ MODULE AuthSession ------------------------------
(***************************************************************************)
(* Users, logins and sessions in the memory of an API process.  Between    *)
(* two awaits a handler runs alone, so a step is what a call does from one *)
(* await to the next; passwords are checked and hashed by scrypt, which    *)
(* other calls overtake.                                                   *)
(*                                                                         *)
(* Times are compared with the clock only: lockedUntil is none, ahead or   *)
(* past, and a session is late once its expiresAt has passed.  Tokens are  *)
(* not kept apart from sessions: a token carries the version its session   *)
(* has.  The organization of a session, menus and profiles are left out.   *)
(***************************************************************************)
EXTENDS Integers, FiniteSets

CONSTANTS
  Users, Passwords,
  Sessions,      \* ids of sessions
  Callers,       \* calls in progress
  MaxFailed,     \* failedLoginMaxAttempts
  MaxVersion,    \* bound of tokenVersion: no call starts that might exceed it
  NoUser, NoSession, NoPassword

ASSUME AuthAssumption ==
  /\ MaxFailed \in Nat \ {0} /\ MaxVersion \in Nat
  /\ NoUser \notin Users /\ NoSession \notin Sessions /\ NoPassword \notin Passwords
  /\ IsFiniteSet(Callers)

VARIABLES
  users,     \* store.users
  sessions,  \* store.authSessions
  revoked,   \* sessions whose refresh token is revoked in the token store
  calls      \* calls in progress, between two awaits

vars == <<users, sessions, revoked, calls>>

-----------------------------------------------------------------------------
Statuses == {"enabled", "disabled", "locked"}

User == [status : Statuses, deleted : BOOLEAN,
         lockedUntil : {"none", "ahead", "past"},
         failed : 0 .. MaxFailed,       \* failedLoginAttempts, as far as compared
         version : Nat,                 \* tokenVersion
         password : Passwords]

Session == [user : Users \cup {NoUser},  \* NoUser: not created yet
            version : Nat,
            status : {"active", "revoked", "expired"}, late : BOOLEAN,
            proof : Passwords \cup {NoPassword},  \* ghost: the password of its login
            overtaken : BOOLEAN]         \* ghost: the login was overtaken

Call == [kind : {"idle", "login", "refresh", "entered", "change", "reset"},
         user : Users \cup {NoUser}, session : Sessions \cup {NoSession},
         right : BOOLEAN,                \* what was read before the await
         password : Passwords \cup {NoPassword},  \* given, or new
         overtaken : BOOLEAN]            \* ghost, of a login: the user was locked,
                                         \* switched or given a password meanwhile

TypeOK ==
  /\ users \in [Users -> User]
  /\ sessions \in [Sessions -> Session]
  /\ revoked \in SUBSET Sessions
  /\ calls \in [Callers -> Call]
  /\ \A c \in Callers :
       /\ calls[c].kind # "idle" => calls[c].user \in Users
       /\ calls[c].kind \in {"refresh", "entered"} => calls[c].session \in Sessions
       /\ calls[c].kind \in {"login", "change", "reset"} => calls[c].password \in Passwords

Idle == [kind |-> "idle", user |-> NoUser, session |-> NoSession, right |-> FALSE,
         password |-> NoPassword, overtaken |-> FALSE]
Unborn == [user |-> NoUser, version |-> 0, status |-> "active", late |-> FALSE,
           proof |-> NoPassword, overtaken |-> FALSE]
NewUser(p) == [status |-> "enabled", deleted |-> FALSE, lockedUntil |-> "none",
               failed |-> 0, version |-> 0, password |-> p]

Init ==
  /\ \E p \in Passwords : users = [u \in Users |-> NewUser(p)]
  /\ sessions = [s \in Sessions |-> Unborn]
  /\ revoked = {}
  /\ calls = [c \in Callers |-> Idle]

-----------------------------------------------------------------------------
At(c, kind) == calls[c].kind = kind
Exists(s) == sessions[s].user # NoUser
Returns(c) == calls' = [calls EXCEPT ![c] = Idle]

\* The logins of the user that are under way are overtaken; those that end return.
Overtakes(u, ending) ==
  calls' = [c \in Callers |->
              IF c \in ending THEN Idle
              ELSE [calls[c] EXCEPT !.overtaken = @ \/ (calls[c].user = u /\ At(c, "login"))]]

\* A change of the version now leaves one for each call in progress.
Room(u) == users[u].version + Cardinality({c \in Callers : calls[c].user = u}) < MaxVersion

\* Mutant: a lock without an expiration is taken for an expired one.
ClearedAnyway(user) ==
  IF user.status = "locked" /\ user.lockedUntil # "ahead"
    THEN [user EXCEPT !.status = "enabled", !.lockedUntil = "none", !.failed = 0]
    ELSE user

\* clearExpiredTimedLock
Cleared(user) ==
  IF user.status = "locked" /\ user.lockedUntil = "past"
    THEN [user EXCEPT !.status = "enabled", !.lockedUntil = "none", !.failed = 0]
    ELSE user

\* requireActiveSession and its callers: an active session that is late expires.
Seen(session) ==
  IF session.status = "active" /\ session.late THEN [session EXCEPT !.status = "expired"]
                                               ELSE session

\* What a token of the session is accepted for, here and in a refresh.
Accepted(user, session) ==
  /\ ~user.deleted /\ user.status = "enabled" /\ session.version = user.version
  /\ session.status = "active" /\ ~session.late

-----------------------------------------------------------------------------
(* Login.                                                                   *)

\* Mutant: a timed lock is not asked for.
AdmittedLocked(user) == user.status = "enabled" \/ (user.status = "locked" /\ user.lockedUntil = "ahead")

Admitted(user) == user.status = "enabled"

\* The user is found and its status checked; then the password is verified
\* against the hash of this moment.
LoginBegin(c, u, p) ==
  LET user == Cleared(users[u]) IN
  /\ At(c, "idle") /\ ~users[u].deleted
  /\ users' = [users EXCEPT ![u] = user]
  /\ calls' = IF Admitted(user) /\ Room(u)
                THEN [calls EXCEPT ![c] = [Idle EXCEPT !.kind = "login", !.user = u,
                                                       !.password = p, !.right = (p = users[u].password)]]
                ELSE calls
  /\ UNCHANGED <<sessions, revoked>>

\* recordFailedLogin
Failed(user) ==
  LET failed == IF user.failed < MaxFailed THEN user.failed + 1 ELSE MaxFailed IN
  IF failed < MaxFailed THEN [user EXCEPT !.failed = failed]
  ELSE [user EXCEPT !.failed = failed, !.status = "locked", !.lockedUntil = "ahead",
                    !.version = IF user.status = "locked" THEN @ ELSE @ + 1]

LoginFails(c) ==
  LET u == calls[c].user IN
  /\ At(c, "login") /\ ~calls[c].right
  /\ users' = [users EXCEPT ![u] = Failed(@)]
  /\ IF Failed(users[u]).status = "locked" THEN Overtakes(u, {c}) ELSE Returns(c)
  /\ UNCHANGED <<sessions, revoked>>

\* The password was right: the user is enabled, whatever it has become, and the
\* session takes its version of this moment.
LoginSucceeds(c, s) ==
  LET u == calls[c].user IN
  /\ At(c, "login") /\ calls[c].right /\ ~Exists(s)
  /\ users' = [users EXCEPT ![u] = [@ EXCEPT !.failed = 0, !.lockedUntil = "none",
                                             !.status = "enabled"]]
  /\ sessions' = [sessions EXCEPT ![s] =
       [user |-> u, version |-> users[u].version, status |-> "active", late |-> FALSE,
        proof |-> calls[c].password, overtaken |-> calls[c].overtaken]]
  /\ Returns(c) /\ UNCHANGED revoked

\* The user has no enabled organization: nothing is changed.
LoginWithoutOrganization(c) ==
  /\ At(c, "login") /\ calls[c].right
  /\ Returns(c) /\ UNCHANGED <<users, sessions, revoked>>

-----------------------------------------------------------------------------
(* Refresh, requests with an access token, logout.                          *)

\* findByHash returns a copy of the token.
RefreshBegin(c, s) ==
  /\ At(c, "idle") /\ Exists(s)
  /\ calls' = [calls EXCEPT ![c] = [@ EXCEPT !.kind = "refresh", !.user = sessions[s].user,
                                             !.session = s, !.right = (s \notin revoked)]]
  /\ UNCHANGED <<users, sessions, revoked>>

\* A revoked token ends the call; a late one expires its session before the user
\* is looked at; otherwise the lock of a user who is not deleted is cleared.
RefreshEnd(c) ==
  LET u == calls[c].user
      s == calls[c].session IN
  /\ At(c, "refresh")
  /\ sessions' = IF calls[c].right THEN [sessions EXCEPT ![s] = Seen(@)] ELSE sessions
  /\ users' = IF calls[c].right /\ ~sessions[s].late /\ ~users[u].deleted
                THEN [users EXCEPT ![u] = Cleared(@)] ELSE users
  /\ Returns(c) /\ UNCHANGED revoked

\* The middleware authenticates an access token; the handler runs later.
Enter(c, s) ==
  LET u == sessions[s].user IN
  /\ At(c, "idle") /\ Exists(s) /\ ~users[u].deleted
  /\ users' = [users EXCEPT ![u] = Cleared(@)]
  /\ sessions' = [sessions EXCEPT ![s] = Seen(@)]
  /\ calls' = IF Accepted(Cleared(users[u]), sessions[s]) /\ Room(u)
                THEN [calls EXCEPT ![c] = [@ EXCEPT !.kind = "entered", !.user = u, !.session = s]]
                ELSE calls
  /\ UNCHANGED revoked

\* A handler that looks at the session again, as the one that switches the
\* current organization does.
Handle(c) ==
  /\ At(c, "entered")
  /\ sessions' = IF users[calls[c].user].deleted THEN sessions
                 ELSE [sessions EXCEPT ![calls[c].session] = Seen(@)]
  /\ Returns(c) /\ UNCHANGED <<users, revoked>>

Logout(c) ==
  /\ At(c, "entered")
  /\ sessions' = [sessions EXCEPT ![calls[c].session].status = "revoked"]
  /\ revoked' = revoked \cup {calls[c].session}
  /\ Returns(c) /\ UNCHANGED users

\* Any session that is late is found expired.
ListOnlineUsers ==
  /\ sessions' = [s \in Sessions |-> Seen(sessions[s])]
  /\ UNCHANGED <<users, revoked, calls>>

-----------------------------------------------------------------------------
(* Passwords and administration.                                            *)

\* Mutant: the sessions of the old password are kept.
GivenQuietly(user, p) == [user EXCEPT !.password = p]

Given(user, p) == [user EXCEPT !.password = p, !.version = @ + 1]

\* changePassword: the old password is verified, the new one hashed.
ChangeBegin(c, old, new) ==
  /\ At(c, "entered") /\ ~users[calls[c].user].deleted
  /\ calls' = [calls EXCEPT ![c] = [@ EXCEPT !.kind = "change", !.password = new,
                                             !.right = (old = users[calls[c].user].password)]]
  /\ UNCHANGED <<users, sessions, revoked>>

\* resetPassword by an administrator: the new password is hashed.
ResetBegin(c, u, new) ==
  /\ At(c, "idle") /\ ~users[u].deleted /\ Room(u)
  /\ calls' = [calls EXCEPT ![c] = [Idle EXCEPT !.kind = "reset", !.user = u,
                                                 !.password = new, !.right = TRUE]]
  /\ UNCHANGED <<users, sessions, revoked>>

PasswordEnd(c) ==
  LET u == calls[c].user IN
  /\ calls[c].kind \in {"change", "reset"}
  /\ IF calls[c].right
       THEN users' = [users EXCEPT ![u] = Given(@, calls[c].password)] /\ Overtakes(u, {c})
       ELSE UNCHANGED users /\ Returns(c)
  /\ UNCHANGED <<sessions, revoked>>

\* Mutant: only a disabled user's sessions end.
SwitchedQuietly(user, status) ==
  [user EXCEPT !.status = status,
               !.version = IF status = "disabled" /\ user.status # status THEN @ + 1 ELSE @,
               !.lockedUntil = IF status = "disabled" THEN @ ELSE "none",
               !.failed = IF status = "enabled" THEN 0 ELSE @]

Switched(user, status) ==
  [user EXCEPT !.status = status,
               !.version = IF status # "enabled" /\ user.status # status THEN @ + 1 ELSE @,
               !.lockedUntil = IF status = "disabled" THEN @ ELSE "none",
               !.failed = IF status = "enabled" THEN 0 ELSE @]

SetStatus(u, status) ==
  /\ ~users[u].deleted /\ Room(u)
  /\ users' = [users EXCEPT ![u] = Switched(@, status)]
  /\ Overtakes(u, {})
  /\ UNCHANGED <<sessions, revoked>>

Removed(user) == [user EXCEPT !.deleted = TRUE, !.version = @ + 1]

Delete(u) ==
  /\ ~users[u].deleted /\ Room(u)
  /\ users' = [users EXCEPT ![u] = Removed(@)]
  /\ Overtakes(u, {})
  /\ UNCHANGED <<sessions, revoked>>

\* The clock passes lockedUntil, or the expiresAt of a session.
LockRunsOut(u) ==
  /\ users[u].lockedUntil = "ahead"
  /\ users' = [users EXCEPT ![u].lockedUntil = "past"]
  /\ UNCHANGED <<sessions, revoked, calls>>

SessionRunsOut(s) ==
  /\ Exists(s)
  /\ sessions' = [sessions EXCEPT ![s].late = TRUE]
  /\ UNCHANGED <<users, revoked, calls>>

-----------------------------------------------------------------------------
Finish(c) ==
  \/ LoginFails(c) \/ (\E s \in Sessions : LoginSucceeds(c, s)) \/ LoginWithoutOrganization(c)
  \/ RefreshEnd(c) \/ Handle(c) \/ Logout(c) \/ PasswordEnd(c)

Next ==
  \/ \E c \in Callers :
       \/ Finish(c)
       \/ \E u \in Users, p \in Passwords : LoginBegin(c, u, p) \/ ResetBegin(c, u, p)
       \/ \E s \in Sessions : RefreshBegin(c, s) \/ Enter(c, s)
       \/ \E old, new \in Passwords : ChangeBegin(c, old, new)
  \/ \E u \in Users : LockRunsOut(u) \/ Delete(u) \/ \E status \in Statuses : SetStatus(u, status)
  \/ \E s \in Sessions : SessionRunsOut(s)
  \/ ListOnlineUsers

Spec == Init /\ [][Next]_vars

-----------------------------------------------------------------------------
(* Properties.                                                              *)

Usable(s) == Exists(s) /\ Accepted(users[sessions[s].user], sessions[s])

\* A session that has ended, by logout, expiry, a new password, a lock or the
\* user's removal, never works again, whatever is unlocked, enabled or logged
\* in later, and whatever was under way.
EndedForGood == [][\A s \in Sessions : Exists(s) /\ ~Usable(s) => ~Usable(s)']_vars

\* Who works with a session has shown the password the user has now; only a
\* login that was overtaken by the change gets in with the old one.
PasswordsAreCurrent ==
  \A s \in Sessions : Usable(s) /\ ~sessions[s].overtaken
                        => sessions[s].proof = users[sessions[s].user].password

Denied(u) == users[u].status # "enabled"
Manual(u) == users[u].status = "disabled" \/ (users[u].status = "locked" /\ users[u].lockedUntil = "none")

\* An administrator's decision is undone by administrators, a timed lock also by
\* time; the only exception are logins that were under way.
Administered(u) == \E status \in Statuses : SetStatus(u, status)
Exception(u) == \E c \in Callers : /\ At(c, "login") /\ calls[c].user = u /\ calls[c].overtaken
                                   /\ LoginFails(c) \/ \E s \in Sessions : LoginSucceeds(c, s)
DecisionsHold ==
  [][\A u \in Users :
       /\ Manual(u) /\ ~Manual(u)' => Administered(u) \/ Exception(u)
       /\ Denied(u) /\ ~Denied(u)' => \/ Administered(u) \/ Exception(u)
                                      \/ ~Manual(u) /\ users[u].lockedUntil = "past"]_vars

\* What the documents say of a user whom an administrator has disabled or locked.
DeniedUntilUnlocked ==
  [][\A u \in Users : Manual(u) /\ ~Manual(u)' => Administered(u)]_vars

\* Inductive strengthenings.  A session whose version is the user's belongs to an
\* enabled user, so nothing that is not counted in the version can end it; a
\* login that was not overtaken is one of an enabled user, and right still.
SessionsAgree ==
  \A s \in Sessions : Exists(s) =>
    /\ sessions[s].version <= users[sessions[s].user].version
    /\ sessions[s].version = users[sessions[s].user].version
         => /\ users[sessions[s].user].status = "enabled"
            /\ sessions[s].overtaken \/ sessions[s].proof = users[sessions[s].user].password
LoginsAgree ==
  \A c \in Callers : At(c, "login") /\ ~calls[c].overtaken =>
    /\ users[calls[c].user].status = "enabled"
    /\ calls[c].right => calls[c].password = users[calls[c].user].password
AuthInv == TypeOK /\ SessionsAgree /\ LoginsAgree

\* The clock goes on, calls end, and the user tries again; the server takes the
\* login in the end, whatever else it does.
Fairness ==
  /\ \A u \in Users : /\ WF_vars(LockRunsOut(u))
                      /\ SF_vars(\E c \in Callers, p \in Passwords : LoginBegin(c, u, p))
  /\ \A c \in Callers : WF_vars(Finish(c))
FairSpec == Spec /\ Fairness

TimeLocked(u) == users[u].status = "locked" /\ users[u].lockedUntil # "none"

\* Failed logins lock a user out for a time only: attempts during the lock do
\* not prolong it for ever.
TimedLockEnds == \A u \in Users : TimeLocked(u) ~> ~TimeLocked(u) \/ users[u].deleted
=============================================================================
