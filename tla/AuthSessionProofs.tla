--------------------------- MODULE AuthSessionProofs ---------------------------
(* Proofs about AuthSession, how sessions end and whose decision holds, and  *)
(* about WebSession, what the tabs of a browser show.                        *)
EXTENDS AuthSession, WebSession, TLAPS

\* What a record update does to the fields.
LEMMA ClearedType ==
  ASSUME NEW user \in User
  PROVE  /\ Cleared(user) \in User
         /\ Cleared(user).version = user.version /\ Cleared(user).password = user.password
         /\ Cleared(user).deleted = user.deleted
         /\ \/ Cleared(user) = user
            \/ user.status = "locked" /\ user.lockedUntil = "past" /\ Cleared(user).status = "enabled"
<1>1. CASE user.status = "locked" /\ user.lockedUntil = "past"
  <2>1. Cleared(user) = [user EXCEPT !.status = "enabled", !.lockedUntil = "none", !.failed = 0]
    BY <1>1 DEF Cleared
  <2>2. 0 \in 0 .. MaxFailed
    BY AuthAssumption
  <2> QED
    BY <1>1, <2>1, <2>2 DEF User, Statuses
<1>2. CASE ~(user.status = "locked" /\ user.lockedUntil = "past")
  <2>1. Cleared(user) = user
    BY <1>2 DEF Cleared
  <2> QED
    BY <2>1
<1> QED
  BY <1>1, <1>2

LEMMA SeenType ==
  ASSUME NEW session \in Session
  PROVE  /\ Seen(session) \in Session
         /\ Seen(session).user = session.user /\ Seen(session).version = session.version
         /\ Seen(session).proof = session.proof /\ Seen(session).overtaken = session.overtaken
         /\ Seen(session).late = session.late
         /\ Seen(session).status = "active" => session.status = "active"
BY DEF Seen, Session

LEMMA FailedType ==
  ASSUME NEW user \in User
  PROVE  /\ Failed(user) \in User
         /\ Failed(user).password = user.password /\ Failed(user).deleted = user.deleted
         /\ \/ Failed(user).status = user.status /\ Failed(user).version = user.version
               /\ Failed(user).lockedUntil = user.lockedUntil
            \/ /\ Failed(user).status = "locked" /\ Failed(user).lockedUntil = "ahead"
               /\ Failed(user).version = IF user.status = "locked" THEN user.version
                                                                  ELSE user.version + 1
<1> DEFINE failed == IF user.failed < MaxFailed THEN user.failed + 1 ELSE MaxFailed
<1>1. failed \in 0 .. MaxFailed
  BY AuthAssumption DEF User
<1>2. CASE failed < MaxFailed
  <2>1. Failed(user) = [user EXCEPT !.failed = failed]
    BY <1>2 DEF Failed
  <2> HIDE DEF failed
  <2> QED
    BY <1>1, <2>1 DEF User
<1>3. CASE ~(failed < MaxFailed)
  <2> DEFINE version == IF user.status = "locked" THEN user.version ELSE user.version + 1
  <2>1. Failed(user) = [user EXCEPT !.failed = failed, !.status = "locked",
                                    !.lockedUntil = "ahead", !.version = version]
    BY <1>3 DEF Failed
  <2>2. version \in Nat
    BY DEF User
  <2> HIDE DEF failed, version
  <2>3. /\ Failed(user) \in User
        /\ Failed(user).password = user.password /\ Failed(user).deleted = user.deleted
        /\ Failed(user).status = "locked" /\ Failed(user).lockedUntil = "ahead"
        /\ Failed(user).version = version
    BY <1>1, <2>1, <2>2 DEF User, Statuses
  <2> QED
    BY <2>3 DEF version
<1> QED
  BY <1>2, <1>3

LEMMA SwitchedType ==
  ASSUME NEW user \in User, NEW status \in Statuses
  PROVE  /\ Switched(user, status) \in User
         /\ Switched(user, status).status = status
         /\ Switched(user, status).password = user.password
         /\ Switched(user, status).deleted = user.deleted
         /\ Switched(user, status).version = IF status # "enabled" /\ user.status # status
                                               THEN user.version + 1 ELSE user.version
<1> DEFINE version == IF status # "enabled" /\ user.status # status THEN user.version + 1
                                                                   ELSE user.version
           until == IF status = "disabled" THEN user.lockedUntil ELSE "none"
           failed == IF status = "enabled" THEN 0 ELSE user.failed
<1>1. Switched(user, status) = [user EXCEPT !.status = status, !.version = version,
                                            !.lockedUntil = until, !.failed = failed]
  BY DEF Switched
<1>2. version \in Nat
  BY DEF User
<1>3. until \in {"none", "ahead", "past"} /\ failed \in 0 .. MaxFailed
  BY AuthAssumption DEF User
<1> HIDE DEF version, until, failed
<1>4. /\ Switched(user, status) \in User
      /\ Switched(user, status).status = status
      /\ Switched(user, status).password = user.password
      /\ Switched(user, status).deleted = user.deleted
      /\ Switched(user, status).version = version
  BY <1>1, <1>2, <1>3 DEF User
<1> QED
  BY <1>4 DEF version

LEMMA GivenType ==
  ASSUME NEW user \in User, NEW p \in Passwords
  PROVE  /\ Given(user, p) \in User
         /\ Given(user, p).password = p /\ Given(user, p).deleted = user.deleted
         /\ Given(user, p).status = user.status /\ Given(user, p).version = user.version + 1
         /\ Given(user, p).lockedUntil = user.lockedUntil
<1>1. user.version + 1 \in Nat
  BY DEF User
<1>2. Given(user, p) = [user EXCEPT !.password = p, !.version = user.version + 1]
  BY DEF Given, User
<1> QED
  BY <1>1, <1>2 DEF User

LEMMA RemovedType ==
  ASSUME NEW user \in User
  PROVE  /\ Removed(user) \in User
         /\ Removed(user).deleted /\ Removed(user).version = user.version + 1
         /\ Removed(user).status = user.status /\ Removed(user).lockedUntil = user.lockedUntil
<1>1. user.version + 1 \in Nat
  BY DEF User
<1>2. Removed(user) = [user EXCEPT !.deleted = TRUE, !.version = user.version + 1]
  BY DEF Removed, User
<1> QED
  BY <1>1, <1>2 DEF User

LEMMA IdleType ==
  /\ Idle \in Call /\ Idle.kind = "idle" /\ Idle.user = NoUser
  /\ Unborn \in Session /\ Unborn.user = NoUser
BY DEF Idle, Call, Unborn, Session

-----------------------------------------------------------------------------
\* A well-formed call: what TypeOK says of each.
Sound(call) ==
  /\ call \in Call
  /\ call.kind # "idle" => call.user \in Users
  /\ call.kind \in {"refresh", "entered"} => call.session \in Sessions
  /\ call.kind \in {"login", "change", "reset"} => call.password \in Passwords

LEMMA Typed == TypeOK <=> /\ users \in [Users -> User]
                          /\ sessions \in [Sessions -> Session]
                          /\ revoked \in SUBSET Sessions
                          /\ calls \in [Callers -> Call]
                          /\ \A c \in Callers : Sound(calls[c])
BY DEF TypeOK, Sound

\* A login of which the invariant asks something.
Counts(call) == call.kind = "login" /\ ~call.overtaken
Agrees(call, user) == user.status = "enabled" /\ (call.right => call.password = user.password)

\* What a step may do to a user: as long as the version stays, an enabled user
\* stays enabled with the same password; with a new version all is possible, and
\* the logins under way are overtaken.
Kept(u) ==
  /\ users'[u].version = users[u].version /\ users'[u].password = users[u].password
  /\ users[u].status = "enabled" => users'[u].status = "enabled"
Renewed(u) ==
  /\ users'[u].version = users[u].version + 1
  /\ \A c \in Callers : Counts(calls'[c]) => calls'[c].user # u
UsersStep ==
  /\ users' \in [Users -> User]
  /\ \A u \in Users : (Kept(u) \/ Renewed(u)) /\ (users[u].deleted => users'[u].deleted)

\* A session is born with what its user has, and changes only towards its end.
Alive(session) == session.status = "active" /\ ~session.late
Ages(s) ==
  /\ sessions'[s].user = sessions[s].user /\ sessions'[s].version = sessions[s].version
  /\ sessions'[s].proof = sessions[s].proof /\ sessions'[s].overtaken = sessions[s].overtaken
  /\ Alive(sessions'[s]) => Alive(sessions[s])
Born(s) ==
  LET user == users'[sessions'[s].user] IN
  /\ ~Exists(s) /\ sessions'[s].user \in Users
  /\ sessions'[s].version = user.version /\ user.status = "enabled"
  /\ sessions'[s].overtaken \/ sessions'[s].proof = user.password
SessionsStep ==
  /\ sessions' \in [Sessions -> Session]
  /\ \A s \in Sessions : Ages(s) \/ Born(s)

\* A login that counts goes on, or begins.
CallsStep ==
  /\ calls' \in [Callers -> Call]
  /\ \A c \in Callers : Sound(calls'[c])
  /\ \A c \in Callers : Counts(calls'[c]) =>
       \/ /\ Counts(calls[c]) /\ calls'[c].user = calls[c].user
          /\ calls'[c].right = calls[c].right /\ calls'[c].password = calls[c].password
       \/ Agrees(calls'[c], users'[calls'[c].user])

Step == UsersStep /\ SessionsStep /\ CallsStep /\ revoked' \in SUBSET Sessions

\* The session s does not come back.
Ended(s) == Exists(s) /\ ~Usable(s) => ~Usable(s)'

LEMMA UserOfSession ==
  ASSUME TypeOK, NEW s \in Sessions, Exists(s)
  PROVE  sessions[s].user \in Users /\ users[sessions[s].user] \in User
                                    /\ sessions[s].version \in Nat
BY DEF TypeOK, Exists, Session

\* Such steps keep the invariant, and no session that has ended works again.
LEMMA StepKeeps ==
  ASSUME AuthInv, Step
  PROVE  AuthInv' /\ \A s \in Sessions : Ended(s)
<1> USE DEF AuthInv, Step
<1>1. TypeOK'
  BY DEF UsersStep, SessionsStep, CallsStep, Sound, TypeOK
<1>2. ASSUME NEW s \in Sessions, Exists(s), Ages(s)
      PROVE  /\ sessions'[s].version <= users'[sessions'[s].user].version
             /\ sessions'[s].version = users'[sessions'[s].user].version
                  => /\ users'[sessions'[s].user].status = "enabled"
                     /\ sessions'[s].overtaken
                          \/ sessions'[s].proof = users'[sessions'[s].user].password
             /\ Ended(s)
  <2> DEFINE u == sessions[s].user
  <2>1. u \in Users /\ users[u].version \in Nat /\ sessions[s].version \in Nat
    BY <1>2, UserOfSession DEF User
  <2>2. sessions'[s].user = u
    BY <1>2 DEF Ages
  <2>3. /\ sessions[s].version <= users[u].version
        /\ sessions[s].version = users[u].version
             => /\ users[u].status = "enabled"
                /\ sessions[s].overtaken \/ sessions[s].proof = users[u].password
    BY <1>2 DEF SessionsAgree
  <2>4. (Kept(u) \/ Renewed(u)) /\ (users[u].deleted => users'[u].deleted)
    BY <2>1 DEF UsersStep
  <2> HIDE DEF u
  <2>5. Ended(s) <=> (Usable(s)' => Usable(s))
    BY <1>2 DEF Ended
  <2>6. /\ Usable(s)' => /\ ~users'[u].deleted /\ sessions[s].version = users'[u].version
                         /\ Alive(sessions'[s])
        /\ ~users[u].deleted /\ users[u].status = "enabled"
             /\ sessions[s].version = users[u].version /\ Alive(sessions[s]) => Usable(s)
    BY <1>2, <2>2 DEF Usable, Accepted, Alive, Ages, u
  <2>7. CASE Kept(u)
    BY <1>2, <2>1, <2>2, <2>3, <2>4, <2>5, <2>6, <2>7 DEF Kept, Ages
  <2>8. CASE Renewed(u)
    BY <1>2, <2>1, <2>2, <2>3, <2>5, <2>6, <2>8 DEF Renewed, Ages
  <2> QED
    BY <2>4, <2>7, <2>8
<1>3. SessionsAgree'
  <2> SUFFICES ASSUME NEW s \in Sessions, Exists(s)'
               PROVE  /\ sessions'[s].version <= users'[sessions'[s].user].version
                      /\ sessions'[s].version = users'[sessions'[s].user].version
                           => /\ users'[sessions'[s].user].status = "enabled"
                              /\ sessions'[s].overtaken
                                   \/ sessions'[s].proof = users'[sessions'[s].user].password
    BY DEF SessionsAgree
  <2>1. CASE Ages(s)
    <3>1. Exists(s)
      BY <2>1 DEF Exists, Ages
    <3> QED
      BY <1>2, <2>1, <3>1
  <2>2. CASE Born(s)
    <3>1. users'[sessions'[s].user].version \in Nat
      BY <2>2 DEF Born, UsersStep, User
    <3> QED
      BY <2>2, <3>1 DEF Born
  <2> QED
    BY <2>1, <2>2 DEF SessionsStep
<1>4. LoginsAgree'
  <2> SUFFICES ASSUME NEW c \in Callers, Counts(calls'[c])
               PROVE  Agrees(calls'[c], users'[calls'[c].user])
    BY DEF LoginsAgree, Counts, Agrees, At
  <2> SUFFICES ASSUME Counts(calls[c]), calls'[c].user = calls[c].user,
                      calls'[c].right = calls[c].right, calls'[c].password = calls[c].password
               PROVE  Agrees(calls'[c], users'[calls'[c].user])
    BY DEF CallsStep
  <2>1. calls[c].user \in Users
    BY DEF TypeOK, Counts
  <2>2. Kept(calls[c].user)
    BY <2>1 DEF UsersStep, Renewed
  <2>3. Agrees(calls[c], users[calls[c].user])
    BY DEF LoginsAgree, Counts, Agrees, At
  <2> QED
    BY <2>2, <2>3 DEF Agrees, Kept
<1>5. ASSUME NEW s \in Sessions
      PROVE  Ended(s)
  <2>1. CASE Exists(s)
    BY <1>2, <2>1 DEF SessionsStep, Born
  <2>2. CASE ~Exists(s)
    BY <2>2 DEF Ended
  <2> QED
    BY <2>1, <2>2
<1> QED
  BY <1>1, <1>3, <1>4, <1>5

-----------------------------------------------------------------------------
(* Calls.                                                                   *)

LEMMA OneCall ==
  ASSUME TypeOK, NEW c \in Callers, NEW v, Sound(v),
         Counts(v) => Agrees(v, users'[v.user]),
         calls' = [calls EXCEPT ![c] = v]
  PROVE  CallsStep
BY Typed DEF CallsStep, Sound

LEMMA ReturnsStep ==
  ASSUME TypeOK, NEW c \in Callers, Returns(c)
  PROVE  CallsStep
<1>1. Sound(Idle) /\ ~Counts(Idle)
  BY IdleType DEF Sound, Counts
<1> QED
  BY <1>1, OneCall DEF Returns

LEMMA SameCalls ==
  ASSUME TypeOK, UNCHANGED calls
  PROVE  CallsStep
BY Typed DEF CallsStep, Sound

\* A login of the user who is overtaken does not count any more.
LEMMA OvertakesStep ==
  ASSUME TypeOK, NEW u \in Users, NEW ending \in SUBSET Callers, Overtakes(u, ending)
  PROVE  /\ CallsStep
         /\ \A c \in Callers : Counts(calls'[c]) => calls'[c].user # u
<1> DEFINE marked(c) == [calls[c] EXCEPT !.overtaken = @ \/ (calls[c].user = u /\ At(c, "login"))]
<1>1. ASSUME NEW c \in Callers
      PROVE  calls'[c] = IF c \in ending THEN Idle ELSE marked(c)
  BY <1>1 DEF Overtakes
<1>2. ASSUME NEW c \in Callers
      PROVE  /\ Sound(marked(c))
             /\ marked(c).kind = calls[c].kind /\ marked(c).user = calls[c].user
             /\ marked(c).right = calls[c].right /\ marked(c).password = calls[c].password
             /\ ~marked(c).overtaken => ~calls[c].overtaken /\ ~(calls[c].user = u /\ At(c, "login"))
  <2>1. calls[c] \in Call /\ Sound(calls[c])
    BY <1>2, Typed
  <2> QED
    BY <2>1 DEF Sound, Call, At
<1>3. Sound(Idle) /\ Idle.kind = "idle"
  BY IdleType DEF Sound
<1>4. ASSUME NEW c \in Callers
      PROVE  Sound(calls'[c])
  BY <1>1, <1>2, <1>3, <1>4
<1>5. calls' = [c \in Callers |-> IF c \in ending THEN Idle ELSE marked(c)]
  BY DEF Overtakes
<1>6. calls' \in [Callers -> Call]
  BY <1>5, <1>2, <1>3 DEF Sound
<1> HIDE DEF marked
<1> QED
  BY <1>1, <1>2, <1>3, <1>4, <1>6 DEF CallsStep, At, Counts

(* Users and sessions.                                                      *)

LEMMA OneUser ==
  ASSUME TypeOK, NEW u \in Users, NEW v \in User, users' = [users EXCEPT ![u] = v],
         users[u].deleted => v.deleted,
         \/ /\ v.version = users[u].version /\ v.password = users[u].password
            /\ users[u].status = "enabled" => v.status = "enabled"
         \/ /\ v.version = users[u].version + 1
            /\ \A c \in Callers : Counts(calls'[c]) => calls'[c].user # u
  PROVE  UsersStep /\ users'[u] = v
<1>1. users \in [Users -> User]
  BY DEF TypeOK
<1>2. users' \in [Users -> User] /\ users'[u] = v
  BY <1>1
<1>3. ASSUME NEW w \in Users, w # u
      PROVE  users'[w] = users[w]
  BY <1>1, <1>3
<1> QED
  BY <1>2, <1>3 DEF UsersStep, Kept, Renewed

LEMMA SameUsers ==
  ASSUME TypeOK, UNCHANGED users
  PROVE  UsersStep
BY DEF TypeOK, UsersStep, Kept

LEMMA ClearedStep ==
  ASSUME TypeOK, NEW u \in Users, users' = [users EXCEPT ![u] = Cleared(@)]
  PROVE  UsersStep /\ users'[u] = Cleared(users[u])
<1>1. users[u] \in User
  BY DEF TypeOK
<1>2. users' = [users EXCEPT ![u] = Cleared(users[u])]
  OBVIOUS
<1> DEFINE v == Cleared(users[u])
<1>3. /\ v \in User /\ v.version = users[u].version /\ v.password = users[u].password
      /\ v.deleted = users[u].deleted
      /\ users[u].status = "enabled" => v.status = "enabled"
  BY <1>1, ClearedType
<1> HIDE DEF v
<1> QED
  BY <1>2, <1>3, OneUser DEF v

LEMMA OneSession ==
  ASSUME TypeOK, NEW s \in Sessions, NEW v \in Session, sessions' = [sessions EXCEPT ![s] = v],
         v.user = sessions[s].user, v.version = sessions[s].version,
         v.proof = sessions[s].proof, v.overtaken = sessions[s].overtaken,
         Alive(v) => Alive(sessions[s])
  PROVE  SessionsStep
BY DEF TypeOK, SessionsStep, Ages

LEMMA SameSessions ==
  ASSUME TypeOK, UNCHANGED sessions
  PROVE  SessionsStep
BY DEF TypeOK, SessionsStep, Ages

LEMMA SeenStep ==
  ASSUME TypeOK, NEW s \in Sessions, sessions' = [sessions EXCEPT ![s] = Seen(@)]
  PROVE  SessionsStep
<1>1. sessions[s] \in Session
  BY DEF TypeOK
<1>2. sessions' = [sessions EXCEPT ![s] = Seen(sessions[s])]
  OBVIOUS
<1>3. Alive(Seen(sessions[s])) => Alive(sessions[s])
  BY <1>1, SeenType DEF Alive
<1> QED
  BY <1>1, <1>2, <1>3, SeenType, OneSession

\* What TypeOK says of a call in progress.
LEMMA CallFacts ==
  ASSUME TypeOK, NEW c \in Callers
  PROVE  /\ Sound(calls[c])
         /\ calls[c].kind # "idle" => /\ calls[c].user \in Users
                                      /\ users[calls[c].user] \in User
BY Typed DEF Sound

-----------------------------------------------------------------------------
(* Every action is such a step.                                             *)

LEMMA LoginBeginStep ==
  ASSUME AuthInv, NEW c \in Callers, NEW u \in Users, NEW p \in Passwords, LoginBegin(c, u, p)
  PROVE  Step
<1>1. TypeOK /\ users[u] \in User
  BY DEF AuthInv, TypeOK
<1>2. users' = [users EXCEPT ![u] = Cleared(@)]
  BY DEF LoginBegin
<1>3. UsersStep /\ users'[u] = Cleared(users[u])
  BY <1>1, <1>2, ClearedStep
<1> DEFINE q == p = users[u].password
           v == [Idle EXCEPT !.kind = "login", !.user = u, !.password = p, !.right = q]
<1>4. q \in BOOLEAN /\ (q => p = users[u].password)
  OBVIOUS
<1> HIDE DEF q
<1>5. Sound(v) /\ v.user = u /\ v.right = q /\ v.password = p
  BY <1>4, IdleType DEF Sound, Call
<1>6. CallsStep
  <2>1. CASE Admitted(Cleared(users[u])) /\ Room(u)
    <3>1. calls' = [calls EXCEPT ![c] = v]
      BY <2>1 DEF LoginBegin, q
    <3> HIDE DEF v
    <3>2. users'[u].status = "enabled" /\ users'[u].password = users[u].password
      BY <1>1, <1>3, <2>1, ClearedType DEF Admitted
    <3>3. Agrees(v, users'[v.user])
      BY <1>4, <1>5, <3>2 DEF Agrees
    <3> QED
      BY <1>1, <1>5, <3>1, <3>3, OneCall
  <2>2. CASE ~(Admitted(Cleared(users[u])) /\ Room(u))
    BY <1>1, <2>2, SameCalls DEF LoginBegin
  <2> QED
    BY <2>1, <2>2
<1> QED
  BY <1>1, <1>3, <1>6, SameSessions DEF Step, LoginBegin, TypeOK

LEMMA LoginFailsStep ==
  ASSUME AuthInv, NEW c \in Callers, LoginFails(c)
  PROVE  Step
<1> DEFINE u == calls[c].user
<1>1. TypeOK /\ u \in Users /\ users[u] \in User
  BY CallFacts DEF AuthInv, LoginFails, At
<1> DEFINE v == Failed(users[u])
<1>2. users' = [users EXCEPT ![u] = v]
  BY DEF LoginFails
<1>3. IF v.status = "locked" THEN Overtakes(u, {c}) ELSE Returns(c)
  BY DEF LoginFails
<1>4. /\ v \in User /\ v.password = users[u].password /\ v.deleted = users[u].deleted
      /\ \/ v.status = users[u].status /\ v.version = users[u].version
         \/ /\ v.status = "locked"
            /\ v.version = IF users[u].status = "locked" THEN users[u].version
                                                         ELSE users[u].version + 1
  BY <1>1, FailedType
<1> HIDE DEF u, v
<1>5. UsersStep /\ CallsStep
  <2>1. CASE v.status = "locked"
    <3>1. /\ CallsStep
          /\ \A d \in Callers : Counts(calls'[d]) => calls'[d].user # u
      BY <1>1, <1>3, <2>1, OvertakesStep
    <3> QED
      BY <1>1, <1>2, <1>4, <2>1, <3>1, OneUser
  <2>2. CASE v.status # "locked"
    <3>1. CallsStep
      BY <1>1, <1>3, <2>2, ReturnsStep
    <3> QED
      BY <1>1, <1>2, <1>4, <2>2, <3>1, OneUser
  <2> QED
    BY <2>1, <2>2
<1> QED
  BY <1>1, <1>5, SameSessions DEF Step, LoginFails, TypeOK

LEMMA LoginSucceedsStep ==
  ASSUME AuthInv, NEW c \in Callers, NEW s \in Sessions, LoginSucceeds(c, s)
  PROVE  Step
<1> DEFINE u == calls[c].user
<1>1. TypeOK /\ u \in Users /\ users[u] \in User /\ calls[c].password \in Passwords
      /\ calls[c].overtaken \in BOOLEAN
  BY CallFacts DEF AuthInv, LoginSucceeds, At, Sound, Call
<1> DEFINE v == [users[u] EXCEPT !.failed = 0, !.lockedUntil = "none", !.status = "enabled"]
           w == [user |-> u, version |-> users[u].version, status |-> "active", late |-> FALSE,
                 proof |-> calls[c].password, overtaken |-> calls[c].overtaken]
<1>2. users' = [users EXCEPT ![u] = v] /\ sessions' = [sessions EXCEPT ![s] = w] /\ ~Exists(s)
  BY DEF LoginSucceeds
<1>3. /\ v \in User /\ v.version = users[u].version /\ v.password = users[u].password
      /\ v.deleted = users[u].deleted /\ v.status = "enabled"
  <2>1. 0 \in 0 .. MaxFailed
    BY AuthAssumption
  <2> QED
    BY <1>1, <2>1 DEF User, Statuses
<1>4. /\ w \in Session /\ w.user = u /\ w.version = users[u].version
      /\ w.proof = calls[c].password /\ w.overtaken = calls[c].overtaken
  BY <1>1 DEF Session, User
<1>5. calls[c].overtaken \/ calls[c].password = users[u].password
  BY DEF AuthInv, LoginsAgree, LoginSucceeds
<1> HIDE DEF u, v, w
<1>6. UsersStep /\ users'[u] = v
  BY <1>1, <1>2, <1>3, OneUser
<1>7. sessions' \in [Sessions -> Session] /\ sessions'[s] = w
      /\ \A t \in Sessions : t # s => sessions'[t] = sessions[t]
  BY <1>1, <1>2, <1>4 DEF TypeOK
<1>8. Born(s)
  BY <1>1, <1>2, <1>3, <1>4, <1>5, <1>6, <1>7 DEF Born
<1>9. SessionsStep
  BY <1>7, <1>8 DEF SessionsStep, Ages
<1> QED
  BY <1>1, <1>6, <1>9, ReturnsStep DEF Step, LoginSucceeds, TypeOK

LEMMA RefreshBeginStep ==
  ASSUME AuthInv, NEW c \in Callers, NEW s \in Sessions, RefreshBegin(c, s)
  PROVE  Step
<1>1. TypeOK /\ sessions[s].user \in Users /\ calls[c] \in Call
  BY UserOfSession DEF AuthInv, RefreshBegin, TypeOK
<1> DEFINE q == s \notin revoked
           v == [calls[c] EXCEPT !.kind = "refresh", !.user = sessions[s].user,
                                 !.session = s, !.right = q]
<1>2. q \in BOOLEAN
  OBVIOUS
<1>3. calls' = [calls EXCEPT ![c] = v]
  BY DEF RefreshBegin
<1> HIDE DEF q
<1>4. Sound(v) /\ ~Counts(v)
  BY <1>1, <1>2 DEF Sound, Call, Counts
<1> HIDE DEF v
<1>5. CallsStep
  BY <1>1, <1>3, <1>4, OneCall
<1> QED
  BY <1>1, <1>5, SameUsers, SameSessions DEF Step, RefreshBegin, TypeOK

LEMMA RefreshEndStep ==
  ASSUME AuthInv, NEW c \in Callers, RefreshEnd(c)
  PROVE  Step
<1> DEFINE u == calls[c].user
           s == calls[c].session
<1>1. TypeOK /\ u \in Users /\ s \in Sessions
  BY CallFacts DEF AuthInv, RefreshEnd, At, Sound
<1>2. \/ users' = [users EXCEPT ![u] = Cleared(@)]
      \/ UNCHANGED users
  BY DEF RefreshEnd
<1>3. \/ sessions' = [sessions EXCEPT ![s] = Seen(@)]
      \/ UNCHANGED sessions
  BY DEF RefreshEnd
<1> HIDE DEF u, s
<1> QED
  BY <1>1, <1>2, <1>3, ClearedStep, SameUsers, SeenStep, SameSessions, ReturnsStep
     DEF Step, RefreshEnd, TypeOK

LEMMA EnterStep ==
  ASSUME AuthInv, NEW c \in Callers, NEW s \in Sessions, Enter(c, s)
  PROVE  Step
<1> DEFINE u == sessions[s].user
           v == [calls[c] EXCEPT !.kind = "entered", !.user = u, !.session = s]
<1>1. TypeOK /\ u \in Users /\ calls[c] \in Call
  BY UserOfSession DEF AuthInv, Enter, TypeOK
<1>2. UNCHANGED calls \/ calls' = [calls EXCEPT ![c] = v]
  BY DEF Enter
<1>3. Sound(v) /\ ~Counts(v)
  BY <1>1 DEF Sound, Call, Counts
<1> HIDE DEF v
<1>4. CallsStep
  BY <1>1, <1>2, <1>3, OneCall, SameCalls
<1>5. UsersStep
  BY <1>1, ClearedStep DEF Enter
<1>6. SessionsStep
  BY <1>1, SeenStep DEF Enter
<1> QED
  BY <1>1, <1>4, <1>5, <1>6 DEF Step, Enter, TypeOK

LEMMA HandleStep ==
  ASSUME AuthInv, NEW c \in Callers, Handle(c)
  PROVE  Step
<1>1. TypeOK /\ calls[c].session \in Sessions
  BY CallFacts DEF AuthInv, Handle, At, Sound
<1>2. \/ sessions' = [sessions EXCEPT ![calls[c].session] = Seen(@)]
      \/ UNCHANGED sessions
  BY DEF Handle
<1> QED
  BY <1>1, <1>2, SameUsers, SeenStep, SameSessions, ReturnsStep DEF Step, Handle, TypeOK

LEMMA LogoutStep ==
  ASSUME AuthInv, NEW c \in Callers, Logout(c)
  PROVE  Step
<1> DEFINE s == calls[c].session
           v == [sessions[s] EXCEPT !.status = "revoked"]
<1>1. TypeOK /\ s \in Sessions /\ sessions[s] \in Session
  BY CallFacts DEF AuthInv, Logout, At, Sound, TypeOK
<1>2. sessions' = [sessions EXCEPT ![s] = v] /\ revoked' \in SUBSET Sessions
  BY <1>1 DEF Logout, TypeOK
<1>3. /\ v \in Session /\ v.user = sessions[s].user /\ v.version = sessions[s].version
      /\ v.proof = sessions[s].proof /\ v.overtaken = sessions[s].overtaken
      /\ ~Alive(v)
  BY <1>1 DEF Session, Alive
<1> HIDE DEF v, s
<1>4. SessionsStep
  BY <1>1, <1>2, <1>3, OneSession
<1> QED
  BY <1>1, <1>2, <1>4, SameUsers, ReturnsStep DEF Step, Logout

LEMMA ListOnlineUsersStep ==
  ASSUME AuthInv, ListOnlineUsers
  PROVE  Step
<1>1. TypeOK /\ \A s \in Sessions : sessions[s] \in Session
  BY DEF AuthInv, TypeOK
<1>2. SessionsStep
  BY <1>1, SeenType DEF SessionsStep, Ages, Alive, ListOnlineUsers
<1> QED
  BY <1>1, <1>2, SameUsers, SameCalls DEF Step, ListOnlineUsers, TypeOK

LEMMA ChangeBeginStep ==
  ASSUME AuthInv, NEW c \in Callers, NEW old \in Passwords, NEW new \in Passwords,
         ChangeBegin(c, old, new)
  PROVE  Step
<1> DEFINE q == old = users[calls[c].user].password
           v == [calls[c] EXCEPT !.kind = "change", !.password = new, !.right = q]
<1>1. TypeOK /\ calls[c].user \in Users /\ calls[c] \in Call
  BY CallFacts DEF AuthInv, ChangeBegin, At, TypeOK
<1>2. calls' = [calls EXCEPT ![c] = v] /\ q \in BOOLEAN
  BY DEF ChangeBegin
<1> HIDE DEF q
<1>3. Sound(v) /\ ~Counts(v)
  BY <1>1, <1>2 DEF Sound, Call, Counts
<1> HIDE DEF v
<1>4. CallsStep
  BY <1>1, <1>2, <1>3, OneCall
<1> QED
  BY <1>1, <1>4, SameUsers, SameSessions DEF Step, ChangeBegin, TypeOK

LEMMA ResetBeginStep ==
  ASSUME AuthInv, NEW c \in Callers, NEW u \in Users, NEW new \in Passwords,
         ResetBegin(c, u, new)
  PROVE  Step
<1> DEFINE v == [Idle EXCEPT !.kind = "reset", !.user = u, !.password = new, !.right = TRUE]
<1>1. TypeOK /\ calls' = [calls EXCEPT ![c] = v]
  BY DEF AuthInv, ResetBegin
<1>2. Sound(v) /\ ~Counts(v)
  BY IdleType DEF Sound, Call, Counts
<1> HIDE DEF v
<1>3. CallsStep
  BY <1>1, <1>2, OneCall
<1> QED
  BY <1>1, <1>3, SameUsers, SameSessions DEF Step, ResetBegin, TypeOK

LEMMA PasswordEndStep ==
  ASSUME AuthInv, NEW c \in Callers, PasswordEnd(c)
  PROVE  Step
<1> DEFINE u == calls[c].user
           v == Given(users[u], calls[c].password)
<1>1. TypeOK /\ u \in Users /\ users[u] \in User /\ calls[c].password \in Passwords
  BY CallFacts DEF AuthInv, PasswordEnd, Sound
<1>2. CASE calls[c].right
  <2>1. users' = [users EXCEPT ![u] = v] /\ Overtakes(u, {c})
    BY <1>2 DEF PasswordEnd
  <2>2. CallsStep /\ \A d \in Callers : Counts(calls'[d]) => calls'[d].user # u
    BY <1>1, <2>1, OvertakesStep
  <2>3. v \in User /\ v.version = users[u].version + 1 /\ v.deleted = users[u].deleted
    BY <1>1, GivenType
  <2> HIDE DEF u, v
  <2>4. UsersStep
    BY <1>1, <2>1, <2>2, <2>3, OneUser
  <2> QED
    BY <1>1, <2>2, <2>4, SameSessions DEF Step, PasswordEnd, TypeOK
<1>3. CASE ~calls[c].right
  BY <1>1, <1>3, SameUsers, SameSessions, ReturnsStep DEF Step, PasswordEnd, TypeOK
<1> QED
  BY <1>2, <1>3

LEMMA SetStatusStep ==
  ASSUME AuthInv, NEW u \in Users, NEW status \in Statuses, SetStatus(u, status)
  PROVE  Step
<1> DEFINE v == Switched(users[u], status)
<1>1. TypeOK /\ users[u] \in User
  BY DEF AuthInv, TypeOK
<1>2. users' = [users EXCEPT ![u] = v] /\ Overtakes(u, {})
  BY DEF SetStatus
<1>3. CallsStep /\ \A d \in Callers : Counts(calls'[d]) => calls'[d].user # u
  BY <1>1, <1>2, OvertakesStep
<1>4. /\ v \in User /\ v.status = status /\ v.password = users[u].password
      /\ v.deleted = users[u].deleted
      /\ v.version = IF status # "enabled" /\ users[u].status # status
                       THEN users[u].version + 1 ELSE users[u].version
  BY <1>1, SwitchedType
<1> HIDE DEF v
<1>5. UsersStep
  BY <1>1, <1>2, <1>3, <1>4, OneUser
<1> QED
  BY <1>1, <1>3, <1>5, SameSessions DEF Step, SetStatus, TypeOK

LEMMA DeleteStep ==
  ASSUME AuthInv, NEW u \in Users, Delete(u)
  PROVE  Step
<1> DEFINE v == Removed(users[u])
<1>1. TypeOK /\ users[u] \in User
  BY DEF AuthInv, TypeOK
<1>2. users' = [users EXCEPT ![u] = v] /\ Overtakes(u, {})
  BY DEF Delete
<1>3. CallsStep /\ \A d \in Callers : Counts(calls'[d]) => calls'[d].user # u
  BY <1>1, <1>2, OvertakesStep
<1>4. v \in User /\ v.version = users[u].version + 1 /\ v.deleted
  BY <1>1, RemovedType
<1> HIDE DEF v
<1>5. UsersStep
  BY <1>1, <1>2, <1>3, <1>4, OneUser
<1> QED
  BY <1>1, <1>3, <1>5, SameSessions DEF Step, Delete, TypeOK

LEMMA LockRunsOutStep ==
  ASSUME AuthInv, NEW u \in Users, LockRunsOut(u)
  PROVE  Step
<1> DEFINE v == [users[u] EXCEPT !.lockedUntil = "past"]
<1>1. TypeOK /\ users[u] \in User
  BY DEF AuthInv, TypeOK
<1>2. users' = [users EXCEPT ![u] = v]
  BY DEF LockRunsOut
<1>3. /\ v \in User /\ v.version = users[u].version /\ v.password = users[u].password
      /\ v.status = users[u].status /\ v.deleted = users[u].deleted
  BY <1>1 DEF User
<1> HIDE DEF v
<1>4. UsersStep
  BY <1>1, <1>2, <1>3, OneUser
<1> QED
  BY <1>1, <1>4, SameSessions, SameCalls DEF Step, LockRunsOut, TypeOK

LEMMA SessionRunsOutStep ==
  ASSUME AuthInv, NEW s \in Sessions, SessionRunsOut(s)
  PROVE  Step
<1> DEFINE v == [sessions[s] EXCEPT !.late = TRUE]
<1>1. TypeOK /\ sessions[s] \in Session
  BY DEF AuthInv, TypeOK
<1>2. sessions' = [sessions EXCEPT ![s] = v]
  BY DEF SessionRunsOut
<1>3. /\ v \in Session /\ v.user = sessions[s].user /\ v.version = sessions[s].version
      /\ v.proof = sessions[s].proof /\ v.overtaken = sessions[s].overtaken /\ ~Alive(v)
  BY <1>1 DEF Session, Alive
<1> HIDE DEF v
<1>4. SessionsStep
  BY <1>1, <1>2, <1>3, OneSession
<1> QED
  BY <1>1, <1>4, SameUsers, SameCalls DEF Step, SessionRunsOut, TypeOK

LEMMA LoginWithoutOrganizationStep ==
  ASSUME AuthInv, NEW c \in Callers, LoginWithoutOrganization(c)
  PROVE  Step
<1>1. TypeOK
  BY DEF AuthInv
<1> QED
  BY <1>1, SameUsers, SameSessions, ReturnsStep DEF Step, LoginWithoutOrganization, TypeOK

LEMMA NextStep ==
  ASSUME AuthInv, Next
  PROVE  Step
<1>1. ASSUME NEW c \in Callers, Finish(c)
      PROVE  Step
  BY <1>1, LoginFailsStep, LoginSucceedsStep, LoginWithoutOrganizationStep, RefreshEndStep,
     HandleStep, LogoutStep, PasswordEndStep DEF Finish
<1>2. ASSUME NEW c \in Callers, NEW u \in Users, NEW p \in Passwords,
             LoginBegin(c, u, p) \/ ResetBegin(c, u, p)
      PROVE  Step
  BY <1>2, LoginBeginStep, ResetBeginStep
<1>3. ASSUME NEW c \in Callers, NEW s \in Sessions, RefreshBegin(c, s) \/ Enter(c, s)
      PROVE  Step
  BY <1>3, RefreshBeginStep, EnterStep
<1>4. ASSUME NEW c \in Callers, NEW old \in Passwords, NEW new \in Passwords,
             ChangeBegin(c, old, new)
      PROVE  Step
  BY <1>4, ChangeBeginStep
<1>5. ASSUME NEW u \in Users,
             LockRunsOut(u) \/ Delete(u) \/ \E status \in Statuses : SetStatus(u, status)
      PROVE  Step
  BY <1>5, LockRunsOutStep, DeleteStep, SetStatusStep
<1>6. ASSUME NEW s \in Sessions, SessionRunsOut(s)
      PROVE  Step
  BY <1>6, SessionRunsOutStep
<1>7. ASSUME ListOnlineUsers
      PROVE  Step
  BY <1>7, ListOnlineUsersStep
<1> QED
  BY <1>1, <1>2, <1>3, <1>4, <1>5, <1>6, <1>7, Zenon DEF Next

LEMMA InitInv ==
  ASSUME Init
  PROVE  AuthInv
<1>1. ASSUME NEW p \in Passwords
      PROVE  NewUser(p) \in User
  <2>1. 0 \in 0 .. MaxFailed
    BY AuthAssumption
  <2> QED
    BY <2>1 DEF NewUser, User, Statuses
<1>2. /\ Sound(Idle)
      /\ sessions = [s \in Sessions |-> Unborn] /\ calls = [c \in Callers |-> Idle]
      /\ revoked \in SUBSET Sessions
  BY IdleType DEF Init, Sound
<1>3. users \in [Users -> User]
  BY <1>1 DEF Init
<1>4. TypeOK
  BY <1>2, <1>3, IdleType, Typed DEF Sound
<1> QED
  BY <1>2, <1>4, IdleType DEF AuthInv, SessionsAgree, LoginsAgree, Exists, At

\* The inductive invariant.
LEMMA Invariance == Spec => []AuthInv
<1>1. Init => AuthInv
  BY InitInv
<1>2. AuthInv /\ [Next]_vars => AuthInv'
  <2>1. CASE Next
    BY <2>1, NextStep, StepKeeps
  <2>2. CASE UNCHANGED vars
    BY <2>2 DEF vars, AuthInv, TypeOK, SessionsAgree, LoginsAgree, Exists, At
  <2> QED
    BY <2>1, <2>2
<1> QED
  BY <1>1, <1>2, PTL DEF Spec

\* Users, sessions and calls keep their types: above all, a call that comes back
\* from scrypt still finds the user and the session it was made for.
THEOREM TypeCorrect == Spec => []TypeOK
<1>1. AuthInv => TypeOK
  BY DEF AuthInv
<1> QED
  BY <1>1, Invariance, PTL

\* Whoever works with a session has shown the password that the user has now,
\* unless the login was overtaken by its change (auth.service.ts:63).
THEOREM PasswordsHold == Spec => []PasswordsAreCurrent
<1>1. AuthInv => PasswordsAreCurrent
  BY DEF AuthInv, PasswordsAreCurrent, SessionsAgree, Usable, Accepted
<1> QED
  BY <1>1, Invariance, PTL

\* A session that has ended never works again: no unlock, no later login and no
\* refresh with a copy of a token brings it back.
THEOREM SessionsEnd == Spec => EndedForGood
<1>1. AuthInv /\ [Next]_vars
        => [\A s \in Sessions : Exists(s) /\ ~Usable(s) => ~Usable(s)']_vars
  <2>1. ASSUME AuthInv, Next
        PROVE  \A s \in Sessions : Exists(s) /\ ~Usable(s) => ~Usable(s)'
    BY <2>1, NextStep, StepKeeps DEF Ended
  <2> QED
    BY <2>1
<1> QED
  BY <1>1, Invariance, PTL DEF Spec, EndedForGood

-----------------------------------------------------------------------------
(* Whose decisions hold.                                                    *)

\* What may happen to a user without an administrator.
Quiet(u) ==
  /\ Manual(u) => Manual(u)'
  /\ Denied(u) /\ ~Denied(u)' => ~Manual(u) /\ users[u].lockedUntil = "past"
Decided(u) == Quiet(u) \/ Administered(u) \/ Exception(u)

LEMMA QuietOthers ==
  ASSUME NEW u \in Users, NEW v, users' = [users EXCEPT ![u] = v], TypeOK, Decided(u)
  PROVE  \A w \in Users : Decided(w)
<1>1. ASSUME NEW w \in Users, w # u
      PROVE  users'[w] = users[w]
  BY <1>1 DEF TypeOK
<1>2. ASSUME NEW w \in Users, w # u
      PROVE  Quiet(w)
  BY <1>1, <1>2 DEF Quiet, Manual, Denied
<1> QED
  BY <1>2 DEF Decided

LEMMA QuietUsers ==
  ASSUME UNCHANGED users
  PROVE  \A w \in Users : Decided(w)
BY DEF Decided, Quiet, Manual, Denied

\* The same status and the same expiration of the lock.
LEMMA QuietUser ==
  ASSUME TypeOK, NEW u \in Users, NEW v, users' = [users EXCEPT ![u] = v],
         v.status = users[u].status, v.lockedUntil = users[u].lockedUntil
  PROVE  \A w \in Users : Decided(w)
<1>1. users'[u] = v
  BY DEF TypeOK
<1>2. Quiet(u)
  BY <1>1 DEF Quiet, Manual, Denied
<1> QED
  BY <1>2, QuietOthers DEF Decided

LEMMA QuietCleared ==
  ASSUME TypeOK, NEW u \in Users, users' = [users EXCEPT ![u] = Cleared(@)]
  PROVE  \A w \in Users : Decided(w)
<1> DEFINE v == Cleared(users[u])
<1>1. users' = [users EXCEPT ![u] = v] /\ users'[u] = v /\ users[u] \in User
  BY DEF TypeOK
<1>2. \/ v = users[u]
      \/ users[u].status = "locked" /\ users[u].lockedUntil = "past" /\ v.status = "enabled"
  BY <1>1, ClearedType
<1> HIDE DEF v
<1>3. Quiet(u)
  BY <1>1, <1>2 DEF Quiet, Manual, Denied
<1> QED
  BY <1>1, <1>3, QuietOthers DEF Decided

\* A login that ends: if the user is denied, the login was overtaken.
LEMMA LoginDecided ==
  ASSUME AuthInv, NEW c \in Callers,
         LoginFails(c) \/ \E s \in Sessions : LoginSucceeds(c, s)
  PROVE  \A w \in Users : Decided(w)
<1> DEFINE u == calls[c].user
<1>1. TypeOK /\ At(c, "login") /\ u \in Users
  BY CallFacts DEF AuthInv, LoginFails, LoginSucceeds, At
<1>2. PICK v : users' = [users EXCEPT ![u] = v]
  BY DEF LoginFails, LoginSucceeds
<1>3. CASE calls[c].overtaken
  <2>1. Exception(u)
    BY <1>1, <1>3, Zenon DEF Exception
  <2> QED
    BY <1>1, <1>2, <2>1, QuietOthers DEF Decided
<1>4. CASE ~calls[c].overtaken
  <2>1. users[u].status = "enabled"
    BY <1>1, <1>4 DEF AuthInv, LoginsAgree
  <2>2. Quiet(u)
    BY <2>1 DEF Quiet, Manual, Denied
  <2> QED
    BY <1>1, <1>2, <2>2, QuietOthers DEF Decided
<1> QED
  BY <1>3, <1>4

LEMMA NextDecided ==
  ASSUME AuthInv, Next
  PROVE  \A w \in Users : Decided(w)
<1>0. TypeOK
  BY DEF AuthInv
<1>1. ASSUME NEW c \in Callers, Finish(c)
      PROVE  \A w \in Users : Decided(w)
  <2>1. CASE LoginFails(c) \/ \E s \in Sessions : LoginSucceeds(c, s)
    BY <2>1, LoginDecided
  <2>2. CASE LoginWithoutOrganization(c) \/ Handle(c) \/ Logout(c)
    BY <2>2, QuietUsers DEF LoginWithoutOrganization, Handle, Logout
  <2>3. CASE RefreshEnd(c)
    <3>1. calls[c].user \in Users
      BY <1>0, <2>3, CallFacts DEF RefreshEnd, At
    <3>2. \/ users' = [users EXCEPT ![calls[c].user] = Cleared(@)]
          \/ UNCHANGED users
      BY <2>3 DEF RefreshEnd
    <3> QED
      BY <1>0, <3>1, <3>2, QuietCleared, QuietUsers
  <2>4. CASE PasswordEnd(c)
    <3> DEFINE u == calls[c].user
               v == Given(users[u], calls[c].password)
    <3>1. u \in Users /\ users[u] \in User /\ calls[c].password \in Passwords
      BY <1>0, <2>4, CallFacts DEF PasswordEnd, Sound
    <3>2. v.status = users[u].status /\ v.lockedUntil = users[u].lockedUntil
      BY <3>1, GivenType
    <3>3. users' = [users EXCEPT ![u] = v] \/ UNCHANGED users
      BY <2>4 DEF PasswordEnd
    <3> HIDE DEF u, v
    <3> QED
      BY <1>0, <3>1, <3>2, <3>3, QuietUser, QuietUsers
  <2> QED
    BY <1>1, <2>1, <2>2, <2>3, <2>4 DEF Finish
<1>2. ASSUME NEW c \in Callers, NEW u \in Users, NEW p \in Passwords,
             LoginBegin(c, u, p) \/ ResetBegin(c, u, p)
      PROVE  \A w \in Users : Decided(w)
  BY <1>0, <1>2, QuietCleared, QuietUsers DEF LoginBegin, ResetBegin
<1>3. ASSUME NEW c \in Callers, NEW s \in Sessions, RefreshBegin(c, s) \/ Enter(c, s)
      PROVE  \A w \in Users : Decided(w)
  BY <1>0, <1>3, UserOfSession, QuietCleared, QuietUsers DEF RefreshBegin, Enter
<1>4. ASSUME NEW c \in Callers, NEW old \in Passwords, NEW new \in Passwords,
             ChangeBegin(c, old, new)
      PROVE  \A w \in Users : Decided(w)
  BY <1>4, QuietUsers DEF ChangeBegin
<1>5. ASSUME NEW u \in Users,
             LockRunsOut(u) \/ Delete(u) \/ \E status \in Statuses : SetStatus(u, status)
      PROVE  \A w \in Users : Decided(w)
  <2>0. users[u] \in User
    BY <1>0 DEF TypeOK
  <2>1. CASE LockRunsOut(u)
    <3> DEFINE v == [users[u] EXCEPT !.lockedUntil = "past"]
    <3>1. /\ users' = [users EXCEPT ![u] = v] /\ users[u].lockedUntil = "ahead"
          /\ v.status = users[u].status /\ v.lockedUntil = "past"
      BY <2>0, <2>1 DEF LockRunsOut, User
    <3> HIDE DEF v
    <3>2. users'[u] = v
      BY <1>0, <3>1 DEF TypeOK
    <3>3. Quiet(u)
      BY <3>1, <3>2 DEF Quiet, Manual, Denied
    <3> QED
      BY <1>0, <3>1, <3>3, QuietOthers DEF Decided
  <2>2. CASE Delete(u)
    <3>1. users' = [users EXCEPT ![u] = Removed(users[u])]
      BY <2>2 DEF Delete
    <3> QED
      BY <1>0, <2>0, <3>1, RemovedType, QuietUser
  <2>3. CASE \E status \in Statuses : SetStatus(u, status)
    <3>1. PICK v : users' = [users EXCEPT ![u] = v]
      BY <2>3 DEF SetStatus
    <3>2. Administered(u)
      BY <2>3 DEF Administered
    <3> QED
      BY <1>0, <3>1, <3>2, QuietOthers DEF Decided
  <2> QED
    BY <1>5, <2>1, <2>2, <2>3
<1>6. ASSUME NEW s \in Sessions, SessionRunsOut(s)
      PROVE  \A w \in Users : Decided(w)
  BY <1>6, QuietUsers DEF SessionRunsOut
<1>7. ASSUME ListOnlineUsers
      PROVE  \A w \in Users : Decided(w)
  BY <1>7, QuietUsers DEF ListOnlineUsers
<1> QED
  BY <1>1, <1>2, <1>3, <1>4, <1>5, <1>6, <1>7, Zenon DEF Next

\* What an administrator has decided about a user, an administrator undoes; a
\* timed lock also time; and, as the only exception, a login that was under way
\* when the decision was made (auth.service.ts:71).
THEOREM Decisions == Spec => DecisionsHold
<1> DEFINE Decide ==
      \A u \in Users :
        /\ Manual(u) /\ ~Manual(u)' => Administered(u) \/ Exception(u)
        /\ Denied(u) /\ ~Denied(u)' => \/ Administered(u) \/ Exception(u)
                                       \/ ~Manual(u) /\ users[u].lockedUntil = "past"
<1>1. AuthInv /\ [Next]_vars => [Decide]_vars
  <2>1. ASSUME AuthInv, Next
        PROVE  Decide
    BY <2>1, NextDecided DEF Decided, Quiet
  <2> QED
    BY <2>1
<1>2. DecisionsHold <=> [][Decide]_vars
  BY DEF DecisionsHold
<1> HIDE DEF Decide
<1> QED
  BY <1>1, <1>2, Invariance, PTL DEF Spec

-----------------------------------------------------------------------------
(* The tabs of a browser: WebSession.                                       *)

\* A token that was issued, or none.
WebUser == WebUsers \cup {Nobody}
WebOrganization == WebOrganizations \cup {None}
Token == Tokens \cup {NoToken}
WebCall == [user : WebUser, token : Token, org : WebOrganization, phase : {"none", "sent", "answered"}]
Issued(token) == token \in Token /\ token.session <= opened

SessionTypeOK ==
  /\ server \in [1 .. MaxWebSessions -> [user : WebUser, org : WebOrganization, orgs : SUBSET WebOrganizations, live : BOOLEAN]]
  /\ opened \in 0 .. MaxWebSessions
  /\ local \in [token : Token, org : WebOrganization, list : Int] /\ Issued(local.token)
  /\ tab \in [Tabs -> [token : Token, user : WebUser \cup {Assumed},
                       codes : [user : WebUser \cup {"*"}, org : WebOrganization \cup {"*"}],
                       org : WebOrganization, list : Int]]
  /\ \A t \in Tabs : Issued(tab[t].token)
  /\ waits \in [Tabs -> [Kinds -> WebCall]]
  /\ \A t \in Tabs, k \in Kinds : Issued(waits[t][k].token)
  /\ insync \subseteq Tabs
  /\ late \in [tabs : SUBSET Tabs, sessions : SUBSET Nat, lists : SUBSET Nat]

\* Until its login is answered, nobody knows of a session, and it stays as it was made.
LoginsAreFresh ==
  \A t \in Tabs : Answered(t, "login") =>
    LET token == waits[t]["login"].token
    IN /\ token # NoToken
       /\ server[token.session].org = token.org
       /\ server[token.session].user = waits[t]["login"].user
       /\ local.token.session # token.session
       /\ \A u \in Tabs : /\ waits[u]["switch"].token.session # token.session
                          /\ Answered(u, "login") /\ u # t
                               => waits[u]["login"].token.session # token.session

\* A switch names an organization, and is answered with a token.
SwitchesAreAnswered ==
  \A t \in Tabs : /\ Sent(t, "switch") => waits[t]["switch"].org \in WebOrganizations
                  /\ Answered(t, "switch") => waits[t]["switch"].token # NoToken

\* The local storage has the token of the session's last switch, or its answer
\* is on the way.
LocalIsCurrent ==
  /\ local.token # NoToken => local.org = local.token.org
  /\ local.token # NoToken /\ local.token.session \notin late.sessions =>
       \/ ~Superseded(local.token)
       \/ \E t \in Tabs : /\ Answered(t, "switch")
                          /\ waits[t]["switch"].token.session = local.token.session
                          /\ ~Superseded(waits[t]["switch"].token)

\* What a tab shows belongs together, and what is in step is the same.
TabsBelongTogether ==
  \A t \in Tabs \ late.tabs :
    /\ tab[t].token = NoToken => tab[t].user = Nobody /\ tab[t].codes = NoCodes
    /\ tab[t].token # NoToken =>
         /\ tab[t].user \in {UserOf(tab[t].token), Assumed}
         /\ tab[t].user # Assumed => tab[t].codes = [user |-> tab[t].user, org |-> tab[t].org]
         /\ tab[t].org = tab[t].token.org
InSyncIsEqual ==
  \A t \in insync : /\ local.token = tab[t].token
                    /\ local.token # NoToken => local.org = tab[t].org

\* The organizations a login was answered with.
OrgsOf(token) == server[token.session].orgs

\* Lists are of logins that have been answered.
ListsAreKnown ==
  /\ local.list \in 0 .. opened
  /\ \A t \in Tabs : tab[t].list \in -1 .. opened
  /\ \A t \in Tabs : Answered(t, "login") =>
       LET token == waits[t]["login"].token
       IN /\ token.org \in OrgsOf(token)
          /\ local.list # token.session /\ \A u \in Tabs : tab[u].list # token.session

\* A tab that has the list of the session it switches has chosen from that list.
SwitchesAreListed ==
  \A t \in Tabs :
    LET call == waits[t]["switch"]
    IN tab[t].list = call.token.session /\ call.token # NoToken =>
         /\ call.phase = "sent" => call.org \in OrgsOf(call.token)
         /\ call.phase = "answered" => call.token.org \in OrgsOf(call.token)

\* The stored list has the stored organization, if the token is of the same login
\* and its session was not switched from another list.
LocalIsListed ==
  /\ local.token # NoToken
  /\ local.list = local.token.session
  /\ local.token.session \notin late.lists
  => local.org \in OrgsOf(local.token)

ListsInv == ListsAreKnown /\ SwitchesAreListed /\ LocalIsListed

\* The inductive invariant, together with ListsInv.
TabsInv ==
  /\ SessionTypeOK /\ LoginsAreFresh /\ SwitchesAreAnswered /\ LocalIsCurrent
  /\ TabsBelongTogether /\ InSyncIsEqual

LEMMA TabsInvSuffices == TabsInv => TabsAreCoherent
<1> SUFFICES ASSUME TabsInv PROVE TabsAreCoherent
  OBVIOUS
<1>1. \A t \in Tabs \ late.tabs :
        IF tab[t].token = NoToken THEN tab[t].user = Nobody /\ tab[t].codes = NoCodes
        ELSE /\ tab[t].user \in {UserOf(tab[t].token), Assumed}
             /\ tab[t].user # Assumed => tab[t].codes = [user |-> tab[t].user, org |-> tab[t].org]
             /\ tab[t].org = tab[t].token.org
  BY DEF TabsInv, TabsBelongTogether
<1>2. ASSUME local.token # NoToken, server[local.token.session].live,
             local.token.session \notin late.sessions, ~Switching(local.token.session)
      PROVE  Accepts(local.token)
  <2>1. \A t \in Tabs : ~(Answered(t, "switch")
                          /\ waits[t]["switch"].token.session = local.token.session)
    BY <1>2 DEF Switching, Answered, NoCall
  <2>2. ~Superseded(local.token)
    BY <1>2, <2>1 DEF TabsInv, LocalIsCurrent
  <2>3. QED BY <1>2, <2>2 DEF Accepts, Superseded
<1>3. QED BY <1>1, <1>2 DEF TabsAreCoherent, TabsInv, InSyncIsEqual

-----------------------------------------------------------------------------
(* Its preservation.                                                        *)

\* One call of one tab changes.
LEMMA OneWait ==
  ASSUME SessionTypeOK, NEW t \in Tabs, NEW kind \in Kinds, NEW call \in WebCall,
         waits' = [waits EXCEPT ![t][kind] = call]
  PROVE  /\ waits' \in [Tabs -> [Kinds -> WebCall]] /\ waits'[t][kind] = call
         /\ \A u \in Tabs, k \in Kinds : u # t \/ k # kind => waits'[u][k] = waits[u][k]
<1>1. PICK row : row = [waits[t] EXCEPT ![kind] = call]
  OBVIOUS
<1>2. waits[t] \in [Kinds -> WebCall]
  BY DEF SessionTypeOK
<1>3. row \in [Kinds -> WebCall] /\ row[kind] = call
      /\ \A k \in Kinds : k # kind => row[k] = waits[t][k]
  BY <1>1, <1>2
<1>4. waits' = [waits EXCEPT ![t] = row]
  BY <1>1
<1>5. QED BY <1>3, <1>4 DEF SessionTypeOK

LEMMA NoCallIsACall == NoCall \in WebCall /\ NoCall.phase = "none" /\ NoCall.token = NoToken
BY DEF NoCall, WebCall, WebUser, WebOrganization, Token

\* No session is the one of no token.
LEMMA TokensHaveSessions ==
  /\ NoToken.session = 0
  /\ \A token \in Token : token # NoToken => token \in Tokens /\ token.session \in 1 .. MaxWebSessions
  /\ \A token \in Token : token.session \in 0 .. MaxWebSessions
<1>1. MaxWebSessions \in Nat
  BY WebSessionAssumption
<1>2. QED BY <1>1 DEF NoToken, Token, Tokens

\* A call that is sent, or that fails before it is answered, tells nobody of a
\* session that was unknown.
LEMMA AskingKeepsIt ==
  ASSUME TabsInv, NEW t \in Tabs, NEW kind \in Kinds, NEW call \in WebCall,
         ~Answered(t, kind), call.phase # "answered", call.token \in {NoToken, local.token},
         kind = "switch" /\ call.phase = "sent" => call.org \in WebOrganizations,
         waits' = [waits EXCEPT ![t][kind] = call],
         UNCHANGED <<server, opened, local, tab, insync, late>>
  PROVE  TabsInv'
<1>1. /\ waits' \in [Tabs -> [Kinds -> WebCall]] /\ waits'[t][kind] = call
      /\ \A u \in Tabs, k \in Kinds : u # t \/ k # kind => waits'[u][k] = waits[u][k]
  BY OneWait DEF TabsInv
<1>2. "login" \in Kinds /\ "switch" \in Kinds /\ "password" \in Kinds
  BY DEF Kinds
<1>3. Issued(NoToken) /\ Issued(local.token)
  BY TokensHaveSessions DEF TabsInv, SessionTypeOK, Issued, Token
<1>4. SessionTypeOK'
  BY <1>1, <1>3 DEF TabsInv, SessionTypeOK, Issued
<1>5. LoginsAreFresh'
  <2> SUFFICES ASSUME NEW u \in Tabs, waits'[u]["login"].phase = "answered"
               PROVE  LET token == waits'[u]["login"].token
                      IN /\ token # NoToken
                         /\ server[token.session].org = token.org
                         /\ server[token.session].user = waits'[u]["login"].user
                         /\ local.token.session # token.session
                         /\ \A v \in Tabs :
                              /\ waits'[v]["switch"].token.session # token.session
                              /\ waits'[v]["login"].phase = "answered" /\ v # u
                                   => waits'[v]["login"].token.session # token.session
    BY DEF LoginsAreFresh, Answered
  <2> DEFINE token == waits[u]["login"].token
  <2>1. waits'[u]["login"] = waits[u]["login"]
    BY <1>1, <1>2
  <2>2. /\ token # NoToken /\ server[token.session].org = token.org
        /\ server[token.session].user = waits[u]["login"].user
        /\ local.token.session # token.session
        /\ \A v \in Tabs : /\ waits[v]["switch"].token.session # token.session
                           /\ waits[v]["login"].phase = "answered" /\ v # u
                                => waits[v]["login"].token.session # token.session
    BY <2>1 DEF TabsInv, LoginsAreFresh, Answered
  <2>3. token.session # NoToken.session
    BY <1>2, <2>2, TokensHaveSessions DEF TabsInv, SessionTypeOK, Issued
  <2> HIDE DEF token
  <2>4. \A v \in Tabs : waits'[v]["switch"].token.session # token.session
    BY <1>1, <1>2, <2>2, <2>3
  <2>5. \A v \in Tabs : waits'[v]["login"].phase = "answered" => waits'[v]["login"] = waits[v]["login"]
    BY <1>1, <1>2
  <2>6. QED BY <2>1, <2>2, <2>4, <2>5 DEF token
<1>6. SwitchesAreAnswered'
  BY <1>1, <1>2 DEF TabsInv, SwitchesAreAnswered, Sent, Answered
<1>7. LocalIsCurrent'
  BY <1>1, <1>2 DEF TabsInv, LocalIsCurrent, Answered, Superseded
<1>8. TabsBelongTogether' /\ InSyncIsEqual'
  BY DEF TabsInv, TabsBelongTogether, InSyncIsEqual, UserOf
<1>9. QED BY <1>4, <1>5, <1>6, <1>7, <1>8 DEF TabsInv

\* What the tabs send, and what fails.
LEMMA CallsKeepIt ==
  ASSUME TabsInv, NEW t \in Tabs,
         \/ \E u \in WebUsers : SubmitLogin(t, u)
         \/ SubmitPassword(t)
         \/ \E o \in WebOrganizations : SelectOrganization(t, o)
         \/ \E k \in Kinds : Fails(t, k)
  PROVE  TabsInv'
<1>1. local.token \in Token /\ NoToken \in Token
  BY DEF TabsInv, SessionTypeOK, Token
<1>2. ~(NoCall.phase = "answered") /\ "login" \in Kinds /\ "switch" \in Kinds /\ "password" \in Kinds
  BY DEF NoCall, Kinds
<1>3. ASSUME NEW u \in WebUsers, SubmitLogin(t, u) PROVE TabsInv'
  <2> DEFINE call == [user |-> u, token |-> NoToken, org |-> None, phase |-> "sent"]
  <2>1. call \in WebCall /\ call.phase = "sent" /\ call.token = NoToken
    BY <1>1 DEF WebCall, WebUser, WebOrganization
  <2>2. /\ waits' = [waits EXCEPT ![t]["login"] = call] /\ ~Answered(t, "login")
        /\ UNCHANGED <<server, opened, local, tab, insync, late>>
    BY <1>2, <1>3 DEF SubmitLogin, Sends, Answered
  <2> HIDE DEF call
  <2>3. QED BY <1>2, <2>1, <2>2, AskingKeepsIt
<1>4. CASE SubmitPassword(t)
  <2> DEFINE call == [user |-> Nobody, token |-> local.token, org |-> None, phase |-> "sent"]
  <2>1. call \in WebCall /\ call.phase = "sent" /\ call.token = local.token
    BY <1>1 DEF WebCall, WebUser, WebOrganization
  <2>2. /\ waits' = [waits EXCEPT ![t]["password"] = call] /\ ~Answered(t, "password")
        /\ UNCHANGED <<server, opened, local, tab, insync, late>>
    BY <1>2, <1>4 DEF SubmitPassword, Sends, Answered
  <2> HIDE DEF call
  <2>3. QED BY <1>2, <2>1, <2>2, AskingKeepsIt
<1>5. ASSUME NEW o \in WebOrganizations, SelectOrganization(t, o) PROVE TabsInv'
  <2> DEFINE call == [user |-> Nobody, token |-> local.token, org |-> o, phase |-> "sent"]
  <2>1. call \in WebCall /\ call.phase = "sent" /\ call.token = local.token /\ call.org = o
    BY <1>1 DEF WebCall, WebUser, WebOrganization
  <2>2. /\ waits' = [waits EXCEPT ![t]["switch"] = call] /\ ~Answered(t, "switch")
        /\ UNCHANGED <<server, opened, local, tab, insync, late>>
    BY <1>2, <1>5 DEF SelectOrganization, Sends, Answered
  <2> HIDE DEF call
  <2>3. QED BY <1>2, <2>1, <2>2, AskingKeepsIt
<1>6. ASSUME NEW k \in Kinds, Fails(t, k) PROVE TabsInv'
  <2>1. /\ waits' = [waits EXCEPT ![t][k] = NoCall] /\ ~Answered(t, k)
        /\ UNCHANGED <<server, opened, local, tab, insync, late>>
    BY <1>6 DEF Fails, AppReturns, Sent, Answered
  <2>2. NoCall \in WebCall /\ NoCall.phase = "none" /\ NoCall.token = NoToken
    BY NoCallIsACall
  <2>3. QED BY <2>1, <2>2, AskingKeepsIt
<1>7. QED BY <1>3, <1>4, <1>5, <1>6

\* The server answers a call that was sent.
LEMMA OneAnswer ==
  ASSUME TabsInv, NEW t \in Tabs, NEW kind \in Kinds, NEW token \in Token,
         Answers(t, kind, token)
  PROVE  LET call == [user |-> waits[t][kind].user, token |-> token,
                      org |-> waits[t][kind].org, phase |-> "answered"]
         IN call \in WebCall /\ waits' = [waits EXCEPT ![t][kind] = call]
<1> DEFINE old == waits[t][kind]
           call == [user |-> old.user, token |-> token, org |-> old.org, phase |-> "answered"]
<1>1. old \in WebCall
  BY DEF TabsInv, SessionTypeOK
<1>2. PICK u : u = [old EXCEPT !.phase = "answered", !.token = token]
  OBVIOUS
<1>3. u = call
  BY <1>1, <1>2 DEF WebCall
<1>4. call \in WebCall
  BY <1>1 DEF WebCall
<1>5. waits' = [waits EXCEPT ![t][kind] = u]
  <2>1. waits' = [waits EXCEPT ![t][kind] = [old EXCEPT !.phase = "answered", !.token = token]]
    BY DEF Answers, SessionTypeOK, TabsInv
  <2>2. QED BY <1>2, <2>1
<1>6. QED BY <1>3, <1>4, <1>5

\* A new session is one that nobody has heard of.
LEMMA ServerLogsInKeepsIt ==
  ASSUME TabsInv, NEW t \in Tabs, NEW o \in WebOrganizations, NEW orgs \in SUBSET WebOrganizations,
         ServerLogsIn(t, o, orgs)
  PROVE  TabsInv'
<1> DEFINE s == opened + 1
           token == [session |-> s, org |-> o]
           old == waits[t]["login"]
           call == [user |-> old.user, token |-> token, org |-> old.org, phase |-> "answered"]
           row == [user |-> old.user, org |-> o, orgs |-> orgs, live |-> TRUE]
<1>1. /\ "login" \in Kinds /\ "switch" \in Kinds /\ "password" \in Kinds /\ "switch" # "login"
      /\ opened \in Nat /\ MaxWebSessions \in Nat
      /\ old \in WebCall
  BY WebSessionAssumption DEF Kinds, TabsInv, SessionTypeOK
<1>2. /\ opened' = s /\ s \in 1 .. MaxWebSessions
      /\ server' = [server EXCEPT ![s] = row]
      /\ local' = local /\ tab' = tab /\ insync' = insync /\ late' = late
  BY <1>1 DEF ServerLogsIn, TabsInv, SessionTypeOK
<1>3. token \in Token /\ token # NoToken /\ token.session = s /\ token.org = o
  BY <1>1, <1>2 DEF Token, Tokens, NoToken
<1>4. call \in WebCall /\ waits' = [waits EXCEPT ![t]["login"] = call]
  BY <1>1, <1>2, <1>3, OneAnswer DEF ServerLogsIn
<1>5. call.token = token /\ call.user = old.user /\ call.phase = "answered"
      /\ row.org = o /\ row.user = old.user
  OBVIOUS
<1> HIDE DEF call
<1>6. /\ waits' \in [Tabs -> [Kinds -> WebCall]] /\ waits'[t]["login"] = call
      /\ \A u \in Tabs, k \in Kinds : u # t \/ k # "login" => waits'[u][k] = waits[u][k]
  BY <1>1, <1>4, OneWait DEF TabsInv
<1>7. row \in [user : WebUser, org : WebOrganization, orgs : SUBSET WebOrganizations, live : BOOLEAN]
  BY <1>1 DEF WebCall, WebOrganization
<1> HIDE DEF token, row
<1>8. /\ server' \in [1 .. MaxWebSessions -> [user : WebUser, org : WebOrganization, orgs : SUBSET WebOrganizations, live : BOOLEAN]]
      /\ server'[s] = row /\ \A q \in 1 .. MaxWebSessions : q # s => server'[q] = server[q]
  BY <1>2, <1>7 DEF TabsInv, SessionTypeOK
<1>9. \A any \in Token : any.session <= opened =>
        /\ any.session # s /\ any.session <= opened'
        /\ any # NoToken => server'[any.session] = server[any.session]
  BY <1>1, <1>2, <1>8, TokensHaveSessions
<1>10. /\ local.token \in Token /\ local.token.session <= opened
       /\ \A u \in Tabs : tab[u].token \in Token /\ tab[u].token.session <= opened
       /\ \A u \in Tabs, k \in Kinds : waits[u][k].token \in Token /\ waits[u][k].token.session <= opened
  BY DEF TabsInv, SessionTypeOK, Issued
<1>11. SessionTypeOK'
  <2>1. \A u \in Tabs, k \in Kinds : waits'[u][k].token \in Token /\ waits'[u][k].token.session <= opened'
    BY <1>1, <1>2, <1>3, <1>6, <1>5, <1>9, <1>10
  <2>2. QED BY <2>1, <1>1, <1>2, <1>6, <1>8, <1>9, <1>10 DEF TabsInv, SessionTypeOK, Issued
<1>12. LoginsAreFresh'
  <2> SUFFICES ASSUME NEW u \in Tabs, NEW fresh, waits'[u]["login"].phase = "answered",
                      fresh = waits'[u]["login"].token
               PROVE  /\ fresh # NoToken
                      /\ server'[fresh.session].org = fresh.org
                      /\ server'[fresh.session].user = waits'[u]["login"].user
                      /\ local.token.session # fresh.session
                      /\ \A v \in Tabs :
                           /\ waits'[v]["switch"].token.session # fresh.session
                           /\ waits'[v]["login"].phase = "answered" /\ v # u
                                => waits'[v]["login"].token.session # fresh.session
    BY <1>2 DEF LoginsAreFresh, Answered
  <2>1. CASE u = t
    BY <2>1, <1>1, <1>3, <1>6, <1>5, <1>8, <1>9, <1>10
  <2>2. CASE u # t
    <3>1. fresh = waits[u]["login"].token /\ waits[u]["login"].phase = "answered"
          /\ waits'[u]["login"] = waits[u]["login"] /\ fresh \in Token /\ fresh.session <= opened
      BY <2>2, <1>1, <1>6, <1>10
    <3>2. /\ fresh # NoToken
          /\ server[fresh.session].org = fresh.org
          /\ server[fresh.session].user = waits[u]["login"].user
          /\ local.token.session # fresh.session
          /\ \A v \in Tabs :
               /\ waits[v]["switch"].token.session # fresh.session
               /\ waits[v]["login"].phase = "answered" /\ v # u
                    => waits[v]["login"].token.session # fresh.session
      BY <3>1 DEF TabsInv, LoginsAreFresh, Answered
    <3>3. server'[fresh.session] = server[fresh.session] /\ fresh.session # s
      BY <3>1, <3>2, <1>9
    <3>4. QED BY <3>1, <3>2, <3>3, <1>1, <1>3, <1>6, <1>5
  <2>3. QED BY <2>1, <2>2
<1>13. SwitchesAreAnswered'
  BY <1>1, <1>6 DEF TabsInv, SwitchesAreAnswered, Sent, Answered
<1>14. LocalIsCurrent'
  <2>1. ASSUME local.token # NoToken, local.token.session \notin late.sessions
        PROVE  \/ server'[local.token.session].org = local.token.org
               \/ \E u \in Tabs : /\ waits'[u]["switch"].phase = "answered"
                                  /\ waits'[u]["switch"].token.session = local.token.session
                                  /\ server'[waits'[u]["switch"].token.session].org
                                       = waits'[u]["switch"].token.org
    <3>1. server'[local.token.session] = server[local.token.session]
      BY <2>1, <1>9, <1>10
    <3>2. QED BY <2>1, <3>1, <1>1, <1>6 DEF TabsInv, LocalIsCurrent, Answered, Superseded
  <2>2. QED BY <2>1, <1>2 DEF TabsInv, LocalIsCurrent, Answered, Superseded
<1>15. TabsBelongTogether'
  <2>1. \A u \in Tabs : tab[u].token # NoToken =>
          server'[tab[u].token.session] = server[tab[u].token.session]
    BY <1>9, <1>10
  <2>2. QED BY <2>1, <1>2 DEF TabsInv, TabsBelongTogether, UserOf
<1>16. InSyncIsEqual'
  BY <1>2 DEF TabsInv, InSyncIsEqual
<1>17. QED BY <1>11, <1>12, <1>13, <1>14, <1>15, <1>16 DEF TabsInv

\* A change of password, and an end, take only the life of sessions.
LEMMA EndingsKeepIt ==
  ASSUME TabsInv,
         \/ \E t \in Tabs : ServerChangesPassword(t)
         \/ \E s \in 1 .. MaxWebSessions : Ends(s)
  PROVE  TabsInv'
<1>1. /\ "login" \in Kinds /\ "switch" \in Kinds /\ "password" \in Kinds
      /\ "switch" # "password" /\ "login" # "password" /\ NoToken \in Token
  BY DEF Kinds, Token
<1>2. /\ server' \in [1 .. MaxWebSessions -> [user : WebUser, org : WebOrganization, orgs : SUBSET WebOrganizations, live : BOOLEAN]]
      /\ \A s \in 1 .. MaxWebSessions : server'[s].user = server[s].user /\ server'[s].org = server[s].org
      /\ waits' \in [Tabs -> [Kinds -> WebCall]]
      /\ \A u \in Tabs : waits'[u]["login"] = waits[u]["login"] /\ waits'[u]["switch"] = waits[u]["switch"]
      /\ \A u \in Tabs, k \in Kinds : waits'[u][k].token \in {waits[u][k].token, NoToken}
      /\ opened' = opened /\ local' = local /\ tab' = tab /\ insync' = insync /\ late' = late
  <2>1. ASSUME NEW t \in Tabs, ServerChangesPassword(t) PROVE <1>2!:
    <3> DEFINE old == waits[t]["password"]
               call == [user |-> old.user, token |-> NoToken, org |-> old.org, phase |-> "answered"]
    <3>1. call \in WebCall /\ waits' = [waits EXCEPT ![t]["password"] = call] /\ call.token = NoToken
      BY <2>1, <1>1, OneAnswer DEF ServerChangesPassword
    <3> HIDE DEF call
    <3>2. /\ waits' \in [Tabs -> [Kinds -> WebCall]] /\ waits'[t]["password"] = call
          /\ \A u \in Tabs, k \in Kinds : u # t \/ k # "password" => waits'[u][k] = waits[u][k]
      BY <1>1, <3>1, OneWait DEF TabsInv
    <3>3. DOMAIN server = 1 .. MaxWebSessions
      BY DEF TabsInv, SessionTypeOK
    <3>4. ASSUME NEW s \in 1 .. MaxWebSessions
          PROVE  /\ server'[s] \in [user : WebUser, org : WebOrganization, orgs : SUBSET WebOrganizations, live : BOOLEAN]
                 /\ server'[s].user = server[s].user /\ server'[s].org = server[s].org
      <4>1. server[s] \in [user : WebUser, org : WebOrganization, orgs : SUBSET WebOrganizations, live : BOOLEAN]
        BY DEF TabsInv, SessionTypeOK
      <4>2. PICK live \in BOOLEAN : server'[s] = [server[s] EXCEPT !.live = live]
        <5>1. server'[s] = [server[s] EXCEPT !.live = @ /\ server[s].user
                                                # UserOf(waits[t]["password"].token)]
          BY <2>1, <3>3 DEF ServerChangesPassword
        <5>2. (server[s].live /\ server[s].user # UserOf(waits[t]["password"].token)) \in BOOLEAN
          BY <4>1
        <5>3. QED BY <5>1, <5>2
      <4>3. server'[s] = [user |-> server[s].user, org |-> server[s].org, orgs |-> server[s].orgs, live |-> live]
        BY <4>1, <4>2
      <4>4. QED BY <4>1, <4>3
    <3>5. server' \in [1 .. MaxWebSessions -> [user : WebUser, org : WebOrganization, orgs : SUBSET WebOrganizations, live : BOOLEAN]]
      <4>1. DOMAIN server' = 1 .. MaxWebSessions
            /\ server' = [s \in DOMAIN server' |-> server'[s]]
        BY <2>1, <3>3 DEF ServerChangesPassword
      <4>2. QED BY <4>1, <3>4
    <3>6. opened' = opened /\ local' = local /\ tab' = tab /\ insync' = insync /\ late' = late
      BY <2>1 DEF ServerChangesPassword
    <3>7. QED BY <1>1, <3>1, <3>2, <3>4, <3>5, <3>6
  <2>2. ASSUME NEW s \in 1 .. MaxWebSessions, Ends(s) PROVE <1>2!:
    <3>1. server[s] \in [user : WebUser, org : WebOrganization, orgs : SUBSET WebOrganizations, live : BOOLEAN]
      BY DEF TabsInv, SessionTypeOK
    <3>2. PICK u : u = [server[s] EXCEPT !.live = FALSE]
      OBVIOUS
    <3>3. u = [user |-> server[s].user, org |-> server[s].org, orgs |-> server[s].orgs, live |-> FALSE]
      BY <3>1, <3>2
    <3>4. server' = [server EXCEPT ![s] = u]
      BY <2>2, <3>2 DEF Ends
    <3>5. /\ u \in [user : WebUser, org : WebOrganization, orgs : SUBSET WebOrganizations, live : BOOLEAN]
          /\ u.user = server[s].user /\ u.org = server[s].org
      BY <3>1, <3>3
    <3>6. server \in [1 .. MaxWebSessions -> [user : WebUser, org : WebOrganization, orgs : SUBSET WebOrganizations, live : BOOLEAN]]
          /\ waits \in [Tabs -> [Kinds -> WebCall]]
      BY DEF TabsInv, SessionTypeOK
    <3>7. /\ server' \in [1 .. MaxWebSessions -> [user : WebUser, org : WebOrganization, orgs : SUBSET WebOrganizations, live : BOOLEAN]]
          /\ \A q \in 1 .. MaxWebSessions : server'[q].user = server[q].user /\ server'[q].org = server[q].org
      BY <3>4, <3>5, <3>6
    <3>8. /\ opened' = opened /\ local' = local /\ tab' = tab /\ waits' = waits
          /\ insync' = insync /\ late' = late
      BY <2>2 DEF Ends
    <3>9. QED BY <3>6, <3>7, <3>8
  <2>3. QED BY <2>1, <2>2
<1>3. SessionTypeOK'
  <2>1. Issued(NoToken)
    BY <1>1, TokensHaveSessions DEF TabsInv, SessionTypeOK, Issued
  <2>2. QED BY <2>1, <1>2 DEF TabsInv, SessionTypeOK, Issued
<1>4. \A token \in Token : token # NoToken =>
        server'[token.session].user = server[token.session].user
        /\ server'[token.session].org = server[token.session].org
  BY <1>2, TokensHaveSessions
<1>5. /\ local.token \in Token /\ \A u \in Tabs : tab[u].token \in Token
      /\ \A u \in Tabs, k \in Kinds : waits[u][k].token \in Token
  BY DEF TabsInv, SessionTypeOK, Issued
<1>6. LoginsAreFresh'
  <2> SUFFICES ASSUME NEW u \in Tabs, NEW fresh, waits'[u]["login"].phase = "answered",
                      fresh = waits'[u]["login"].token
               PROVE  /\ fresh # NoToken
                      /\ server'[fresh.session].org = fresh.org
                      /\ server'[fresh.session].user = waits'[u]["login"].user
                      /\ local.token.session # fresh.session
                      /\ \A v \in Tabs :
                           /\ waits'[v]["switch"].token.session # fresh.session
                           /\ waits'[v]["login"].phase = "answered" /\ v # u
                                => waits'[v]["login"].token.session # fresh.session
    BY <1>2 DEF LoginsAreFresh, Answered
  <2>1. \A v \in Tabs : waits'[v]["login"] = waits[v]["login"] /\ waits'[v]["switch"] = waits[v]["switch"]
    BY <1>2
  <2>2. fresh \in Token
    BY <2>1, <1>1, <1>5
  <2>3. /\ fresh # NoToken
        /\ server[fresh.session].org = fresh.org
        /\ server[fresh.session].user = waits[u]["login"].user
        /\ local.token.session # fresh.session
        /\ \A v \in Tabs :
             /\ waits[v]["switch"].token.session # fresh.session
             /\ waits[v]["login"].phase = "answered" /\ v # u
                  => waits[v]["login"].token.session # fresh.session
    BY <2>1 DEF TabsInv, LoginsAreFresh, Answered
  <2>4. server'[fresh.session].user = server[fresh.session].user
        /\ server'[fresh.session].org = server[fresh.session].org
    BY <2>2, <2>3, <1>4
  <2>5. QED BY <2>1, <2>3, <2>4
<1>7. SwitchesAreAnswered'
  BY <1>2 DEF TabsInv, SwitchesAreAnswered, Sent, Answered
<1>8. LocalIsCurrent'
  <2>1. ASSUME local.token # NoToken, local.token.session \notin late.sessions
        PROVE  \/ server'[local.token.session].org = local.token.org
               \/ \E u \in Tabs : /\ waits[u]["switch"].phase = "answered"
                                  /\ waits[u]["switch"].token.session = local.token.session
                                  /\ server'[waits[u]["switch"].token.session].org
                                       = waits[u]["switch"].token.org
    BY <2>1, <1>4, <1>5 DEF TabsInv, LocalIsCurrent, Answered, Superseded
  <2>2. QED BY <2>1, <1>2 DEF TabsInv, LocalIsCurrent, Answered, Superseded
<1>9. TabsBelongTogether' /\ InSyncIsEqual'
  BY <1>2, <1>4, <1>5 DEF TabsInv, TabsBelongTogether, InSyncIsEqual, UserOf
<1>10. QED BY <1>3, <1>6, <1>7, <1>8, <1>9 DEF TabsInv

\* A switch is of a session that is known, and its answer is the last.
LEMMA ServerSwitchesKeepsIt ==
  ASSUME TabsInv, NEW t \in Tabs, ServerSwitches(t)
  PROVE  TabsInv'
<1> DEFINE old == waits[t]["switch"]
           s == old.token.session
           o == old.org
           token == [session |-> s, org |-> o]
           call == [user |-> old.user, token |-> token, org |-> o, phase |-> "answered"]
           row == [user |-> server[s].user, org |-> o, orgs |-> server[s].orgs, live |-> server[s].live]
<1>1. /\ "login" \in Kinds /\ "switch" \in Kinds /\ "password" \in Kinds /\ "login" # "switch"
      /\ old \in WebCall /\ old.phase = "sent" /\ o \in WebOrganizations
      /\ old.token \in Token /\ old.token # NoToken
  BY DEF Kinds, TabsInv, SessionTypeOK, SwitchesAreAnswered, Sent, ServerSwitches, Accepts, Issued
<1>2. s \in 1 .. MaxWebSessions /\ s <= opened
  BY <1>1, TokensHaveSessions DEF TabsInv, SessionTypeOK, Issued
<1>3. /\ token \in Token /\ token # NoToken /\ token.session = s /\ token.org = o
      /\ call.token = token /\ call.phase = "answered" /\ row.org = o /\ row.user = server[s].user
  <2>1. token \in Tokens /\ token.session = s /\ token.org = o
    BY <1>1, <1>2 DEF Tokens
  <2>2. s # 0
    BY <1>2
  <2>3. QED BY <2>1, <2>2 DEF Token, NoToken
<1>4. /\ opened' = opened /\ local' = local /\ tab' = tab /\ insync' = insync /\ late' = late
      /\ server' = [server EXCEPT ![s] = row] /\ row \in [user : WebUser, org : WebOrganization, orgs : SUBSET WebOrganizations, live : BOOLEAN]
  <2>1. server[s] \in [user : WebUser, org : WebOrganization, orgs : SUBSET WebOrganizations, live : BOOLEAN]
    BY <1>2 DEF TabsInv, SessionTypeOK
  <2>2. PICK u : u = [server[s] EXCEPT !.org = o]
    OBVIOUS
  <2>3. u = row
    BY <2>1, <2>2
  <2>4. server' = [server EXCEPT ![s] = u]
    BY <2>2 DEF ServerSwitches
  <2>5. row \in [user : WebUser, org : WebOrganization, orgs : SUBSET WebOrganizations, live : BOOLEAN]
    BY <1>1, <2>1 DEF WebOrganization
  <2> HIDE DEF row
  <2>6. QED BY <2>3, <2>4, <2>5 DEF ServerSwitches
<1>5. call \in WebCall /\ waits' = [waits EXCEPT ![t]["switch"] = call]
  BY <1>1, <1>3, OneAnswer DEF ServerSwitches
<1> HIDE DEF token, call, row, o, s, old
<1>6. /\ waits' \in [Tabs -> [Kinds -> WebCall]] /\ waits'[t]["switch"] = call
      /\ \A u \in Tabs, k \in Kinds : u # t \/ k # "switch" => waits'[u][k] = waits[u][k]
  <2>1. /\ SessionTypeOK /\ "switch" \in Kinds /\ call \in WebCall
        /\ waits' = [waits EXCEPT ![t]["switch"] = call]
    BY <1>1, <1>5 DEF TabsInv
  <2>2. QED BY <2>1, OneWait
<1>7. /\ server' \in [1 .. MaxWebSessions -> [user : WebUser, org : WebOrganization, orgs : SUBSET WebOrganizations, live : BOOLEAN]]
      /\ server'[s] = row /\ \A q \in 1 .. MaxWebSessions : q # s => server'[q] = server[q]
  BY <1>2, <1>4 DEF TabsInv, SessionTypeOK
<1>8. \A any \in Token : any # NoToken =>
        /\ any.session # s => server'[any.session] = server[any.session]
        /\ server'[any.session].user = server[any.session].user
  BY <1>3, <1>7, TokensHaveSessions
<1>9. /\ local.token \in Token /\ \A u \in Tabs : tab[u].token \in Token
      /\ \A u \in Tabs, k \in Kinds : waits[u][k].token \in Token
  BY DEF TabsInv, SessionTypeOK, Issued
<1>10. SessionTypeOK'
  <2>1. \A u \in Tabs, k \in Kinds : waits'[u][k].token \in Token /\ waits'[u][k].token.session <= opened'
    BY <1>1, <1>2, <1>3, <1>4, <1>6 DEF TabsInv, SessionTypeOK, Issued
  <2>2. QED BY <2>1, <1>4, <1>6, <1>7 DEF TabsInv, SessionTypeOK, Issued
<1>11. LoginsAreFresh'
  <2> SUFFICES ASSUME NEW u \in Tabs, NEW fresh, waits'[u]["login"].phase = "answered",
                      fresh = waits'[u]["login"].token
               PROVE  /\ fresh # NoToken
                      /\ server'[fresh.session].org = fresh.org
                      /\ server'[fresh.session].user = waits'[u]["login"].user
                      /\ local.token.session # fresh.session
                      /\ \A v \in Tabs :
                           /\ waits'[v]["switch"].token.session # fresh.session
                           /\ waits'[v]["login"].phase = "answered" /\ v # u
                                => waits'[v]["login"].token.session # fresh.session
    BY <1>4 DEF LoginsAreFresh, Answered
  <2>1. \A v \in Tabs : waits'[v]["login"] = waits[v]["login"]
    BY <1>1, <1>6
  <2>2. /\ fresh # NoToken
        /\ server[fresh.session].org = fresh.org
        /\ server[fresh.session].user = waits[u]["login"].user
        /\ local.token.session # fresh.session
        /\ \A v \in Tabs :
             /\ waits[v]["switch"].token.session # fresh.session
             /\ waits[v]["login"].phase = "answered" /\ v # u
                  => waits[v]["login"].token.session # fresh.session
    BY <2>1 DEF TabsInv, LoginsAreFresh, Answered
  <2>3. fresh.session # s /\ fresh \in Token
    BY <2>1, <2>2, <1>1, <1>9 DEF s, old
  <2>4. QED BY <2>1, <2>2, <2>3, <1>1, <1>3, <1>6, <1>8
<1>12. SwitchesAreAnswered'
  BY <1>1, <1>3, <1>6 DEF TabsInv, SwitchesAreAnswered, Sent, Answered
<1>13. LocalIsCurrent'
  <2>1. ASSUME local.token # NoToken, local.token.session \notin late.sessions
        PROVE  \/ server'[local.token.session].org = local.token.org
               \/ \E u \in Tabs : /\ waits'[u]["switch"].phase = "answered"
                                  /\ waits'[u]["switch"].token.session = local.token.session
                                  /\ server'[waits'[u]["switch"].token.session].org
                                       = waits'[u]["switch"].token.org
    <3>1. CASE local.token.session = s
      BY <3>1, <1>3, <1>6, <1>7
    <3>2. CASE local.token.session # s
      <4>1. server'[local.token.session] = server[local.token.session]
        BY <2>1, <3>2, <1>8, <1>9
      <4>2. \A u \in Tabs : waits[u]["switch"].phase = "answered" => waits'[u]["switch"] = waits[u]["switch"]
        BY <1>1, <1>6 DEF old
      <4>3. QED BY <2>1, <4>1, <4>2 DEF TabsInv, LocalIsCurrent, Answered, Superseded
    <3>3. QED BY <3>1, <3>2
  <2>2. QED BY <2>1, <1>4 DEF TabsInv, LocalIsCurrent, Answered, Superseded
<1>14. TabsBelongTogether' /\ InSyncIsEqual'
  BY <1>4, <1>8, <1>9 DEF TabsInv, TabsBelongTogether, InSyncIsEqual, UserOf
<1>15. QED BY <1>10, <1>11, <1>12, <1>13, <1>14 DEF TabsInv

\* A tab that writes its stores and the local storage, with what becomes of the
\* call it has had answered, if that is what it does.
LEMMA OneTab ==
  ASSUME TabsInv, NEW t \in Tabs, NEW store, NEW storage, Writes(t, store, storage),
         store \in [token : Token, user : WebUser \cup {Assumed},
                    codes : [user : WebUser \cup {"*"}, org : WebOrganization \cup {"*"}],
                    org : WebOrganization, list : Int],
         storage \in [token : Token, org : WebOrganization, list : Int],
         Issued(store.token), Issued(storage.token), opened' = opened, server' = server,
         waits' \in [Tabs -> [Kinds -> WebCall]],
         \A u \in Tabs, k \in Kinds : waits'[u][k] \in {waits[u][k], NoCall},
         storage.token = store.token, storage.token # NoToken => storage.org = store.org,
         late' \in [tabs : SUBSET Tabs, sessions : SUBSET Nat, lists : SUBSET Nat]
  PROVE  /\ SessionTypeOK' /\ InSyncIsEqual' /\ SwitchesAreAnswered'
         /\ local' = storage /\ tab'[t] = store
         /\ \A u \in Tabs : u # t => tab'[u] = tab[u]
<1>1. /\ tab' = [tab EXCEPT ![t] = store] /\ local' = storage
      /\ insync' = {t} \cup (IF storage = local THEN insync ELSE {})
  BY DEF Writes
<1>2. tab'[t] = store /\ \A u \in Tabs : u # t => tab'[u] = tab[u]
  BY <1>1 DEF TabsInv, SessionTypeOK
<1>3. Issued(NoToken)
  BY TokensHaveSessions DEF TabsInv, SessionTypeOK, Issued, Token
<1>4. \A u \in Tabs, k \in Kinds : Issued(waits'[u][k].token)
  BY <1>3, NoCallIsACall DEF TabsInv, SessionTypeOK
<1>5. \A u \in Tabs : Issued(tab'[u].token)
  BY <1>2 DEF TabsInv, SessionTypeOK
<1>6. SessionTypeOK'
  BY <1>1, <1>4, <1>5 DEF TabsInv, SessionTypeOK, Issued
<1>7. InSyncIsEqual'
  BY <1>1, <1>2 DEF TabsInv, SessionTypeOK, InSyncIsEqual
<1>8. "switch" \in Kinds
  BY DEF Kinds
<1>9. SwitchesAreAnswered'
  BY <1>8, NoCallIsACall DEF TabsInv, SwitchesAreAnswered, Sent, Answered
<1>10. QED BY <1>1, <1>2, <1>6, <1>7, <1>9

\* A login that has not returned stays fresh while calls end and the local
\* storage takes a token that is not its own.
LEMMA FreshStayFresh ==
  ASSUME TabsInv, server' = server,
         \A u \in Tabs, k \in Kinds : waits'[u][k] \in {waits[u][k], NoCall},
         \A u \in Tabs : Answered(u, "login") /\ waits'[u]["login"] = waits[u]["login"]
            => local'.token.session # waits[u]["login"].token.session
  PROVE  LoginsAreFresh'
<1>1. "login" \in Kinds /\ "switch" \in Kinds
  BY DEF Kinds
<1> SUFFICES ASSUME NEW u \in Tabs, NEW fresh, waits'[u]["login"].phase = "answered",
                    fresh = waits'[u]["login"].token
             PROVE  /\ fresh # NoToken
                    /\ server[fresh.session].org = fresh.org
                    /\ server[fresh.session].user = waits'[u]["login"].user
                    /\ local'.token.session # fresh.session
                    /\ \A v \in Tabs :
                         /\ waits'[v]["switch"].token.session # fresh.session
                         /\ waits'[v]["login"].phase = "answered" /\ v # u
                              => waits'[v]["login"].token.session # fresh.session
  BY DEF LoginsAreFresh, Answered
<1>2. \A v \in Tabs : /\ waits'[v]["login"].phase = "answered" => waits'[v]["login"] = waits[v]["login"]
                      /\ waits'[v]["switch"] \in {waits[v]["switch"], NoCall}
  BY <1>1, NoCallIsACall
<1>3. /\ fresh # NoToken
      /\ server[fresh.session].org = fresh.org
      /\ server[fresh.session].user = waits[u]["login"].user
      /\ \A v \in Tabs :
           /\ waits[v]["switch"].token.session # fresh.session
           /\ waits[v]["login"].phase = "answered" /\ v # u
                => waits[v]["login"].token.session # fresh.session
  BY <1>2 DEF TabsInv, LoginsAreFresh, Answered
<1>4. fresh.session # NoToken.session
  BY <1>1, <1>2, <1>3, TokensHaveSessions DEF TabsInv, SessionTypeOK, Issued
<1>5. local'.token.session # fresh.session
  BY <1>2 DEF Answered
<1>6. QED BY <1>2, <1>3, <1>4, <1>5, NoCallIsACall

\* An answer to a login makes the tab and the local storage its own.
LEMMA LoginAnsweredKeepsIt ==
  ASSUME TabsInv, NEW t \in Tabs, LoginAnswered(t)
  PROVE  TabsInv'
<1> DEFINE old == waits[t]["login"]
           token == old.token
           store == [token |-> token, user |-> old.user, codes |-> CodesOf(token),
                     org |-> token.org, list |-> token.session]
           storage == [token |-> token, org |-> token.org, list |-> token.session]
<1>1. /\ "login" \in Kinds /\ "switch" \in Kinds /\ "login" # "switch"
      /\ old \in WebCall /\ Issued(token) /\ token # NoToken
      /\ server[token.session].org = token.org /\ server[token.session].user = old.user
  BY DEF Kinds, TabsInv, SessionTypeOK, LoginsAreFresh, LoginAnswered
<1>2. token \in Tokens /\ token \in Token /\ token.org \in WebOrganizations /\ token.session \in Int
  BY <1>1, TokensHaveSessions DEF Issued, Tokens
<1>3. /\ Writes(t, store, storage) /\ server' = server /\ opened' = opened
      /\ late'.tabs = late.tabs \ {t} /\ late'.sessions = late.sessions
      /\ waits' = [waits EXCEPT ![t]["login"] = NoCall]
  <2>1. PICK after : after = [late EXCEPT !.tabs = @ \ {t}]
    OBVIOUS
  <2>2. late' = after
    BY <2>1 DEF LoginAnswered
  <2>3. QED BY <2>1, <2>2 DEF LoginAnswered, AppReturns
<1>4. /\ store \in [token : Token, user : WebUser \cup {Assumed},
                    codes : [user : WebUser \cup {"*"}, org : WebOrganization \cup {"*"}],
                    org : WebOrganization, list : Int]
      /\ storage \in [token : Token, org : WebOrganization, list : Int]
      /\ late' \in [tabs : SUBSET Tabs, sessions : SUBSET Nat, lists : SUBSET Nat]
  <2>1. old.user \in WebUser /\ token.org \in WebOrganization
    BY <1>1, <1>2 DEF WebCall, WebOrganization
  <2>2. CodesOf(token) \in [user : WebUser, org : WebOrganization]
    BY <1>1, <2>1 DEF CodesOf, UserOf
  <2>3. late' \in [tabs : SUBSET Tabs, sessions : SUBSET Nat, lists : SUBSET Nat]
    <3>1. late \in [tabs : SUBSET Tabs, sessions : SUBSET Nat, lists : SUBSET Nat]
      BY DEF TabsInv, SessionTypeOK
    <3>2. late' = [late EXCEPT !.tabs = @ \ {t}]
      BY DEF LoginAnswered
    <3>3. QED BY <3>1, <3>2
  <2>4. QED BY <1>2, <2>1, <2>2, <2>3
<1>5. /\ waits' \in [Tabs -> [Kinds -> WebCall]] /\ waits'[t]["login"] = NoCall
      /\ \A u \in Tabs, k \in Kinds : u # t \/ k # "login" => waits'[u][k] = waits[u][k]
  BY <1>1, <1>3, OneWait, NoCallIsACall DEF TabsInv
<1>6. /\ store.token = token /\ store.user = old.user /\ store.org = token.org
      /\ store.codes = [user |-> old.user, org |-> token.org]
      /\ storage.token = token /\ storage.org = token.org
  BY <1>1 DEF CodesOf, UserOf
<1> HIDE DEF store, storage
<1>7. \A u \in Tabs, k \in Kinds : waits'[u][k] \in {waits[u][k], NoCall}
  BY <1>5
<1>8. /\ SessionTypeOK' /\ InSyncIsEqual' /\ SwitchesAreAnswered'
      /\ local' = storage /\ tab'[t] = store
      /\ \A u \in Tabs : u # t => tab'[u] = tab[u]
  BY <1>1, <1>3, <1>4, <1>5, <1>6, <1>7, OneTab
<1>9. LoginsAreFresh'
  <2>1. ASSUME NEW u \in Tabs, Answered(u, "login"), waits'[u]["login"] = waits[u]["login"]
        PROVE  local'.token.session # waits[u]["login"].token.session
    <3>1. u # t
      BY <2>1, <1>5, NoCallIsACall DEF Answered
    <3>2. QED BY <2>1, <3>1, <1>6, <1>8 DEF TabsInv, LoginsAreFresh, LoginAnswered
  <2>2. QED BY <2>1, <1>3, <1>7, FreshStayFresh
<1>10. LocalIsCurrent'
  BY <1>1, <1>3, <1>6, <1>8 DEF LocalIsCurrent, Superseded
<1>11. TabsBelongTogether'
  <2> SUFFICES ASSUME NEW u \in Tabs, u \notin late'.tabs
               PROVE  /\ tab'[u].token = NoToken => tab'[u].user = Nobody /\ tab'[u].codes = NoCodes
                      /\ tab'[u].token # NoToken =>
                           /\ tab'[u].user \in {server[tab'[u].token.session].user, Assumed}
                           /\ tab'[u].user # Assumed
                                => tab'[u].codes = [user |-> tab'[u].user, org |-> tab'[u].org]
                           /\ tab'[u].org = tab'[u].token.org
    BY <1>3 DEF TabsBelongTogether, UserOf
  <2>1. CASE u = t
    BY <2>1, <1>1, <1>6, <1>8
  <2>2. CASE u # t
    BY <2>2, <1>3, <1>8 DEF TabsInv, TabsBelongTogether, UserOf
  <2>3. QED BY <2>1, <2>2
<1>12. QED BY <1>8, <1>9, <1>10, <1>11 DEF TabsInv

\* A tab that signs out, with what is left of its organization.
LEMMA SigningOutKeepsIt ==
  ASSUME TabsInv, NEW t \in Tabs, PasswordAnswered(t) \/ LogOut(t)
  PROVE  TabsInv'
<1>1. "login" \in Kinds /\ "switch" \in Kinds /\ "password" \in Kinds
      /\ "login" # "password" /\ "switch" # "password"
  BY DEF Kinds
<1>2. /\ tab[t] \in [token : Token, user : WebUser \cup {Assumed},
                     codes : [user : WebUser \cup {"*"}, org : WebOrganization \cup {"*"}],
                     org : WebOrganization, list : Int]
      /\ local \in [token : Token, org : WebOrganization, list : Int]
      /\ late \in [tabs : SUBSET Tabs, sessions : SUBSET Nat, lists : SUBSET Nat]
      /\ waits \in [Tabs -> [Kinds -> WebCall]]
  BY DEF TabsInv, SessionTypeOK
<1>3. \E org, place \in WebOrganization, list, stored \in Int :
        /\ Writes(t, SignedOut(org, list), [token |-> NoToken, org |-> place, list |-> stored])
        /\ server' = server /\ opened' = opened
        /\ late' \in [tabs : SUBSET Tabs, sessions : SUBSET Nat, lists : SUBSET Nat]
        /\ late'.tabs \in {late.tabs, late.tabs \ {t}} /\ late'.sessions = late.sessions
        /\ waits' \in [Tabs -> [Kinds -> WebCall]]
        /\ \A u \in Tabs, k \in Kinds : waits'[u][k] \in {waits[u][k], NoCall}
        /\ \A u \in Tabs : waits'[u]["switch"] = waits[u]["switch"]
  <2>1. CASE PasswordAnswered(t)
    <3>1. [local EXCEPT !.token = NoToken] = [token |-> NoToken, org |-> local.org, list |-> local.list]
      BY <1>2
    <3>2. /\ Writes(t, SignedOut(tab[t].org, tab[t].list),
                    [token |-> NoToken, org |-> local.org, list |-> local.list])
          /\ server' = server /\ opened' = opened /\ late' = late
          /\ waits' = [waits EXCEPT ![t]["password"] = NoCall]
      BY <2>1, <3>1 DEF PasswordAnswered, AppReturns
    <3>3. /\ waits' \in [Tabs -> [Kinds -> WebCall]] /\ waits'[t]["password"] = NoCall
          /\ \A u \in Tabs, k \in Kinds : u # t \/ k # "password" => waits'[u][k] = waits[u][k]
      BY <1>1, <3>2, OneWait, NoCallIsACall DEF TabsInv
    <3>4. tab[t].org \in WebOrganization /\ local.org \in WebOrganization
          /\ tab[t].list \in Int /\ local.list \in Int
      BY <1>2
    <3>5. /\ \A u \in Tabs, k \in Kinds : waits'[u][k] \in {waits[u][k], NoCall}
          /\ \A u \in Tabs : waits'[u]["switch"] = waits[u]["switch"]
      BY <1>1, <3>3
    <3>6. QED BY <1>2, <3>2, <3>3, <3>4, <3>5
  <2>2. CASE LogOut(t)
    <3>1. None \in WebOrganization /\ NoList \in Int /\ DefaultList \in Int
      BY DEF WebOrganization, NoList, DefaultList
    <3>2. /\ late' \in [tabs : SUBSET Tabs, sessions : SUBSET Nat, lists : SUBSET Nat]
          /\ late'.tabs = late.tabs \ {t} /\ late'.sessions = late.sessions
      <4>1. late' = [late EXCEPT !.tabs = @ \ {t}]
        BY <2>2 DEF LogOut
      <4>2. QED BY <1>2, <4>1
    <3>3. /\ Writes(t, SignedOut(None, NoList),
                    [token |-> NoToken, org |-> None, list |-> DefaultList])
          /\ server' = server /\ opened' = opened /\ waits' = waits
      BY <2>2 DEF LogOut
    <3>4. QED BY <1>2, <3>1, <3>2, <3>3
  <2>3. QED BY <2>1, <2>2
<1>4. PICK org \in WebOrganization, place \in WebOrganization, list \in Int, stored \in Int :
        /\ Writes(t, SignedOut(org, list), [token |-> NoToken, org |-> place, list |-> stored])
        /\ server' = server /\ opened' = opened
        /\ late' \in [tabs : SUBSET Tabs, sessions : SUBSET Nat, lists : SUBSET Nat]
        /\ late'.tabs \in {late.tabs, late.tabs \ {t}} /\ late'.sessions = late.sessions
        /\ waits' \in [Tabs -> [Kinds -> WebCall]]
        /\ \A u \in Tabs, k \in Kinds : waits'[u][k] \in {waits[u][k], NoCall}
        /\ \A u \in Tabs : waits'[u]["switch"] = waits[u]["switch"]
  BY <1>3
<1> DEFINE store == SignedOut(org, list)
           storage == [token |-> NoToken, org |-> place, list |-> stored]
<1>5. /\ store \in [token : Token, user : WebUser \cup {Assumed},
                    codes : [user : WebUser \cup {"*"}, org : WebOrganization \cup {"*"}],
                    org : WebOrganization, list : Int]
      /\ storage \in [token : Token, org : WebOrganization, list : Int]
      /\ store.token = NoToken /\ storage.token = NoToken
      /\ store.user = Nobody /\ store.codes = NoCodes
  BY DEF Token, WebUser, WebOrganization, NoCodes, SignedOut
<1>6. Issued(NoToken)
  BY TokensHaveSessions DEF TabsInv, SessionTypeOK, Issued, Token
<1>7. Writes(t, store, storage)
  BY <1>4
<1> HIDE DEF store, storage
<1>8. /\ SessionTypeOK' /\ InSyncIsEqual' /\ SwitchesAreAnswered'
      /\ local' = storage /\ tab'[t] = store
      /\ \A u \in Tabs : u # t => tab'[u] = tab[u]
  BY <1>4, <1>5, <1>6, <1>7, OneTab
<1>9. LoginsAreFresh'
  <2>1. ASSUME NEW u \in Tabs, Answered(u, "login")
        PROVE  local'.token.session # waits[u]["login"].token.session
    <3>1. waits[u]["login"].token \in Token /\ waits[u]["login"].token # NoToken
      BY <2>1, <1>1 DEF TabsInv, LoginsAreFresh, SessionTypeOK, Issued
    <3>2. waits[u]["login"].token.session # 0
      BY <3>1, TokensHaveSessions
    <3>3. QED BY <3>2, <1>5, <1>8, TokensHaveSessions
  <2>2. QED BY <2>1, <1>4, FreshStayFresh
<1>10. LocalIsCurrent'
  BY <1>5, <1>8 DEF LocalIsCurrent
<1>11. TabsBelongTogether'
  <2> SUFFICES ASSUME NEW u \in Tabs, u \notin late'.tabs
               PROVE  /\ tab'[u].token = NoToken => tab'[u].user = Nobody /\ tab'[u].codes = NoCodes
                      /\ tab'[u].token # NoToken =>
                           /\ tab'[u].user \in {server[tab'[u].token.session].user, Assumed}
                           /\ tab'[u].user # Assumed
                                => tab'[u].codes = [user |-> tab'[u].user, org |-> tab'[u].org]
                           /\ tab'[u].org = tab'[u].token.org
    BY <1>4 DEF TabsBelongTogether, UserOf
  <2>1. CASE u = t
    BY <2>1, <1>5, <1>8
  <2>2. CASE u # t
    BY <2>2, <1>4, <1>8 DEF TabsInv, TabsBelongTogether, UserOf
  <2>3. QED BY <2>1, <2>2
<1>12. QED BY <1>8, <1>9, <1>10, <1>11 DEF TabsInv

LEMMA TwoFields ==
  ASSUME NEW place \in [token : Token, org : WebOrganization, list : Int], NEW token, NEW org
  PROVE  [place EXCEPT !.token = token, !.org = org]
           = [token |-> token, org |-> org, list |-> place.list]
<1>1. PICK u : u = [place EXCEPT !.token = token, !.org = org]
  OBVIOUS
<1>2. u = [token |-> token, org |-> org, list |-> place.list]
  BY <1>1
<1>3. QED BY <1>1, <1>2

\* An answer to a switch, the session's last or not, makes the tab and the local
\* storage its own.
LEMMA SwitchAnsweredKeepsIt ==
  ASSUME TabsInv, NEW t \in Tabs, SwitchAnswered(t)
  PROVE  TabsInv'
<1> DEFINE old == waits[t]["switch"]
           token == old.token
           store == [token |-> token, user |-> tab[t].user, codes |-> CodesOf(token),
                     org |-> token.org, list |-> tab[t].list]
           storage == [token |-> token, org |-> token.org, list |-> local.list]
<1>1. /\ "login" \in Kinds /\ "switch" \in Kinds /\ "login" # "switch"
      /\ old \in WebCall /\ Issued(token) /\ token # NoToken
      /\ tab[t] \in [token : Token, user : WebUser \cup {Assumed},
                     codes : [user : WebUser \cup {"*"}, org : WebOrganization \cup {"*"}],
                     org : WebOrganization, list : Int]
      /\ late \in [tabs : SUBSET Tabs, sessions : SUBSET Nat, lists : SUBSET Nat]
  BY DEF Kinds, TabsInv, SessionTypeOK, SwitchesAreAnswered, SwitchAnswered
<1>2. token \in Tokens /\ token \in Token /\ token.org \in WebOrganizations
      /\ token.session \in 1 .. MaxWebSessions
  BY <1>1, TokensHaveSessions DEF Issued, Tokens
<1>3. SwitchReturned(t, token) = store
  <2>1. PICK u : u = [tab[t] EXCEPT !.token = token, !.codes = CodesOf(token), !.org = token.org]
    OBVIOUS
  <2>2. u = store
    BY <1>1, <2>1
  <2>3. QED BY <2>1, <2>2 DEF SwitchReturned
<1>4. /\ Writes(t, store, storage) /\ server' = server /\ opened' = opened
      /\ waits' = [waits EXCEPT ![t]["switch"] = NoCall]
      /\ late'.tabs = IF Overtaken(t, token) THEN late.tabs \cup {t} ELSE late.tabs
      /\ late'.sessions = IF Superseded(token) THEN late.sessions \cup {token.session}
                          ELSE late.sessions \ {token.session}
      /\ late' \in [tabs : SUBSET Tabs, sessions : SUBSET Nat, lists : SUBSET Nat]
  <2>0. [local EXCEPT !.token = token, !.org = token.org] = storage
    <3>1. local \in [token : Token, org : WebOrganization, list : Int]
      BY DEF TabsInv, SessionTypeOK
    <3>2. QED BY <3>1, TwoFields
  <2>1. /\ Writes(t, SwitchReturned(t, token), storage) /\ server' = server /\ opened' = opened
        /\ waits' = [waits EXCEPT ![t]["switch"] = NoCall]
    BY <2>0 DEF SwitchAnswered, AppReturns
  <2>2. late' = [tabs |-> IF Overtaken(t, token) THEN late.tabs \cup {t} ELSE late.tabs,
                 sessions |-> IF Superseded(token) THEN late.sessions \cup {token.session}
                              ELSE late.sessions \ {token.session},
                 lists |-> IF Strays(t, token) THEN late.lists \cup {token.session}
                           ELSE late.lists]
    BY DEF SwitchAnswered
  <2> HIDE DEF store, storage
  <2>3. Writes(t, store, storage)
    BY <1>3, <2>1
  <2>4. late' \in [tabs : SUBSET Tabs, sessions : SUBSET Nat, lists : SUBSET Nat]
    BY <1>1, <1>2, <2>2
  <2>5. QED BY <2>1, <2>2, <2>3, <2>4
<1>5. /\ store \in [token : Token, user : WebUser \cup {Assumed},
                    codes : [user : WebUser \cup {"*"}, org : WebOrganization \cup {"*"}],
                    org : WebOrganization, list : Int]
      /\ storage \in [token : Token, org : WebOrganization, list : Int]
  <2>1. token.org \in WebOrganization
    BY <1>2 DEF WebOrganization
  <2>2. CodesOf(token) \in [user : WebUser, org : WebOrganization]
    <3>1. server[token.session].user \in WebUser
      BY <1>2 DEF TabsInv, SessionTypeOK
    <3>2. QED BY <2>1, <3>1 DEF CodesOf, UserOf
  <2>3. local.list \in Int
    BY DEF TabsInv, SessionTypeOK
  <2>4. QED BY <1>1, <1>2, <2>1, <2>2, <2>3
<1>6. /\ waits' \in [Tabs -> [Kinds -> WebCall]] /\ waits'[t]["switch"] = NoCall
      /\ \A u \in Tabs, k \in Kinds : u # t \/ k # "switch" => waits'[u][k] = waits[u][k]
  <2>1. NoCall \in WebCall /\ SessionTypeOK /\ waits' = [waits EXCEPT ![t]["switch"] = NoCall]
    BY <1>4, NoCallIsACall DEF TabsInv
  <2>2. QED BY <1>1, <2>1, OneWait
<1>7. /\ store.token = token /\ store.user = tab[t].user /\ store.org = token.org
      /\ store.codes = [user |-> server[token.session].user, org |-> token.org]
      /\ storage.token = token /\ storage.org = token.org
  BY DEF CodesOf, UserOf
<1> HIDE DEF store, storage
<1>8. \A u \in Tabs, k \in Kinds : waits'[u][k] \in {waits[u][k], NoCall}
  BY <1>6
<1>9. /\ SessionTypeOK' /\ InSyncIsEqual' /\ SwitchesAreAnswered'
      /\ local' = storage /\ tab'[t] = store
      /\ \A u \in Tabs : u # t => tab'[u] = tab[u]
  BY <1>1, <1>4, <1>5, <1>6, <1>7, <1>8, OneTab
<1>10. LoginsAreFresh'
  <2>1. ASSUME NEW u \in Tabs, Answered(u, "login")
        PROVE  local'.token.session # waits[u]["login"].token.session
    BY <2>1, <1>7, <1>9 DEF TabsInv, LoginsAreFresh
  <2>2. QED BY <2>1, <1>4, <1>8, FreshStayFresh
<1>11. LocalIsCurrent'
  BY <1>1, <1>4, <1>7, <1>9 DEF LocalIsCurrent, Superseded
<1>12. TabsBelongTogether'
  <2> SUFFICES ASSUME NEW u \in Tabs, u \notin late'.tabs
               PROVE  /\ tab'[u].token = NoToken => tab'[u].user = Nobody /\ tab'[u].codes = NoCodes
                      /\ tab'[u].token # NoToken =>
                           /\ tab'[u].user \in {server[tab'[u].token.session].user, Assumed}
                           /\ tab'[u].user # Assumed
                                => tab'[u].codes = [user |-> tab'[u].user, org |-> tab'[u].org]
                           /\ tab'[u].org = tab'[u].token.org
    BY <1>4 DEF TabsBelongTogether, UserOf
  <2>1. CASE u = t
    <3>1. t \notin late.tabs /\ tab[t].token # NoToken /\ tab[t].token.session = token.session
      BY <2>1, <1>4 DEF Overtaken
    <3>2. tab[t].user \in {server[token.session].user, Assumed}
      BY <3>1 DEF TabsInv, TabsBelongTogether, UserOf
    <3>3. QED BY <2>1, <3>2, <1>1, <1>7, <1>9
  <2>2. CASE u # t
    BY <2>2, <1>4, <1>9 DEF TabsInv, TabsBelongTogether, UserOf
  <2>3. QED BY <2>1, <2>2
<1>13. QED BY <1>9, <1>10, <1>11, <1>12 DEF TabsInv

\* Calls that end without an answer, after which the answers that are lost count
\* as late.
LEMMA LosingKeepsIt ==
  ASSUME TabsInv, UNCHANGED <<server, opened, local>>,
         waits' \in [Tabs -> [Kinds -> WebCall]],
         \A u \in Tabs, k \in Kinds : waits'[u][k] \in {waits[u][k], NoCall},
         late' \in [tabs : SUBSET Tabs, sessions : SUBSET Nat, lists : SUBSET Nat],
         late.sessions \subseteq late'.sessions,
         \A u \in Tabs : Answered(u, "switch") /\ waits'[u]["switch"] # waits[u]["switch"]
           => waits[u]["switch"].token.session \in late'.sessions
  PROVE  /\ \A t \in Tabs, k \in Kinds : Issued(waits'[t][k].token)
         /\ LoginsAreFresh' /\ SwitchesAreAnswered' /\ LocalIsCurrent'
<1>1. "login" \in Kinds /\ "switch" \in Kinds
  BY DEF Kinds
<1>2. Issued(NoToken)
  BY TokensHaveSessions DEF TabsInv, SessionTypeOK, Issued, Token
<1>3. \A t \in Tabs, k \in Kinds : Issued(waits'[t][k].token)
  BY <1>2, NoCallIsACall DEF TabsInv, SessionTypeOK
<1>4. LoginsAreFresh'
  <2>1. ASSUME NEW u \in Tabs, Answered(u, "login")
        PROVE  local'.token.session # waits[u]["login"].token.session
    BY <2>1 DEF TabsInv, LoginsAreFresh
  <2>2. QED BY <2>1, FreshStayFresh
<1>5. SwitchesAreAnswered'
  BY <1>1, NoCallIsACall DEF TabsInv, SwitchesAreAnswered, Sent, Answered
<1>6. LocalIsCurrent'
  BY <1>1 DEF TabsInv, LocalIsCurrent, Answered, Superseded
<1>7. QED BY <1>3, <1>4, <1>5, <1>6

LEMMA SwitchLostKeepsIt ==
  ASSUME TabsInv, NEW t \in Tabs, SwitchLost(t)
  PROVE  TabsInv'
<1> DEFINE s == waits[t]["switch"].token.session
<1>1. "switch" \in Kinds /\ late \in [tabs : SUBSET Tabs, sessions : SUBSET Nat, lists : SUBSET Nat]
  BY DEF Kinds, TabsInv, SessionTypeOK
<1>2. s \in Nat
  BY <1>1, TokensHaveSessions, WebSessionAssumption DEF TabsInv, SessionTypeOK, Issued
<1>3. /\ UNCHANGED <<server, opened, local>> /\ tab' = tab /\ insync' = insync
      /\ waits' = [waits EXCEPT ![t]["switch"] = NoCall]
      /\ late' = [late EXCEPT !.sessions = @ \cup {s}]
  BY DEF SwitchLost, AppReturns
<1>4. /\ late' \in [tabs : SUBSET Tabs, sessions : SUBSET Nat, lists : SUBSET Nat] /\ late'.tabs = late.tabs
      /\ late'.sessions = late.sessions \cup {s}
  BY <1>1, <1>2, <1>3
<1>5. /\ waits' \in [Tabs -> [Kinds -> WebCall]] /\ waits'[t]["switch"] = NoCall
      /\ \A u \in Tabs, k \in Kinds : u # t \/ k # "switch" => waits'[u][k] = waits[u][k]
  BY <1>1, <1>3, OneWait, NoCallIsACall DEF TabsInv
<1>6. \A u \in Tabs, k \in Kinds : waits'[u][k] \in {waits[u][k], NoCall}
  BY <1>5
<1>7. \A u \in Tabs : waits'[u]["switch"] # waits[u]["switch"] => u = t
  BY <1>1, <1>5
<1>8. /\ \A u \in Tabs, k \in Kinds : Issued(waits'[u][k].token)
      /\ LoginsAreFresh' /\ SwitchesAreAnswered' /\ LocalIsCurrent'
  BY <1>3, <1>4, <1>5, <1>6, <1>7, LosingKeepsIt
<1>9. SessionTypeOK' /\ TabsBelongTogether' /\ InSyncIsEqual'
  BY <1>3, <1>4, <1>5, <1>8
     DEF TabsInv, SessionTypeOK, TabsBelongTogether, InSyncIsEqual, UserOf, Issued
<1>10. QED BY <1>8, <1>9 DEF TabsInv

\* A tab that is loaded anew is what the local storage makes of it.
LEMMA ReloadKeepsIt ==
  ASSUME TabsInv, LocalIsListed, NEW t \in Tabs, NEW org \in WebOrganizations, Reload(t, org)
  PROVE  TabsInv'
<1> DEFINE s == waits[t]["switch"].token.session
           store == IF local.token = NoToken THEN SignedOut(org, local.list)
                    ELSE [token |-> local.token, user |-> Assumed, codes |-> AllCodes, org |-> org,
                          list |-> local.list]
<1>1. /\ "switch" \in Kinds
      /\ late \in [tabs : SUBSET Tabs, sessions : SUBSET Nat, lists : SUBSET Nat]
      /\ local \in [token : Token, org : WebOrganization, list : Int] /\ Issued(local.token)
      /\ waits \in [Tabs -> [Kinds -> WebCall]]
  BY DEF Kinds, TabsInv, SessionTypeOK
<1>2. s \in Nat
  BY <1>1, TokensHaveSessions, WebSessionAssumption DEF TabsInv, SessionTypeOK, Issued
<1>3. /\ UNCHANGED <<server, opened, local>>
      /\ tab' = [tab EXCEPT ![t] = store]
      /\ insync' = IF Unlisted THEN insync \ {t} ELSE insync \cup {t}
      /\ waits' = [waits EXCEPT ![t] = [k \in Kinds |-> NoCall]]
      /\ late' = [late EXCEPT
           !.tabs = IF Unlisted THEN @ \cup {t} ELSE @ \ {t},
           !.sessions = IF Answered(t, "switch") THEN @ \cup {s} ELSE @]
  BY DEF Reload
<1>4. /\ late' \in [tabs : SUBSET Tabs, sessions : SUBSET Nat, lists : SUBSET Nat]
      /\ late'.tabs = IF Unlisted THEN late.tabs \cup {t} ELSE late.tabs \ {t}
      /\ late'.sessions = IF Answered(t, "switch") THEN late.sessions \cup {s} ELSE late.sessions
  BY <1>1, <1>2, <1>3
<1>5. /\ waits' \in [Tabs -> [Kinds -> WebCall]]
      /\ \A u \in Tabs, k \in Kinds : waits'[u][k] \in {waits[u][k], NoCall}
      /\ \A u \in Tabs : waits'[u]["switch"] # waits[u]["switch"] => u = t
  BY <1>1, <1>3, NoCallIsACall
<1>6. /\ \A u \in Tabs, k \in Kinds : Issued(waits'[u][k].token)
      /\ LoginsAreFresh' /\ SwitchesAreAnswered' /\ LocalIsCurrent'
  BY <1>3, <1>4, <1>5, LosingKeepsIt
<1>7. /\ store \in [token : Token, user : WebUser \cup {Assumed},
                    codes : [user : WebUser \cup {"*"}, org : WebOrganization \cup {"*"}],
                    org : WebOrganization, list : Int]
      /\ store.token = local.token /\ store.org = org
      /\ store.token = NoToken => store.user = Nobody /\ store.codes = NoCodes
      /\ store.token # NoToken => store.user = Assumed
  BY <1>1 DEF WebUser, WebOrganization, NoCodes, AllCodes, Token, SignedOut
<1> HIDE DEF store
<1>8. tab'[t] = store /\ \A u \in Tabs : u # t => tab'[u] = tab[u]
  BY <1>3 DEF TabsInv, SessionTypeOK
<1>9. SessionTypeOK'
  <2>1. \A u \in Tabs : Issued(tab'[u].token)
    BY <1>1, <1>7, <1>8 DEF TabsInv, SessionTypeOK
  <2>2. QED BY <2>1, <1>3, <1>4, <1>5, <1>6, <1>7 DEF TabsInv, SessionTypeOK, Issued
\* The organization is the stored one, unless the list does not have it.
<1>10. ASSUME ~Unlisted, local.token # NoToken PROVE org = local.org
  <2>1. local.org \in Listed(local.list)
    <3>1. CASE local.list = local.token.session /\ local.token.session \notin late.lists
      <4>1. local.org \in server[local.token.session].orgs
        BY <1>10, <3>1 DEF LocalIsListed, OrgsOf
      <4>2. local.list \in 1 .. MaxWebSessions
        BY <1>1, <1>10, <3>1, TokensHaveSessions
      <4>3. local.list # NoList /\ local.list # DefaultList
        BY <4>2, WebSessionAssumption DEF NoList, DefaultList
      <4>4. QED BY <3>1, <4>1, <4>3 DEF Listed
    <3>2. QED BY <1>10, <3>1 DEF Unlisted
  <2>2. QED BY <2>1 DEF Reload, Restores
<1>11. InSyncIsEqual'
  <2> SUFFICES ASSUME NEW u \in insync'
               PROVE  /\ local.token = tab'[u].token
                      /\ local.token # NoToken => local.org = tab'[u].org
    BY <1>3 DEF InSyncIsEqual
  <2>1. CASE u = t
    <3>1. ~Unlisted
      BY <2>1, <1>3
    <3>2. QED BY <2>1, <3>1, <1>7, <1>8, <1>10
  <2>2. CASE u # t
    BY <2>2, <1>3, <1>8 DEF TabsInv, SessionTypeOK, InSyncIsEqual
  <2>3. QED BY <2>1, <2>2
<1>12. TabsBelongTogether'
  <2> SUFFICES ASSUME NEW u \in Tabs, u \notin late'.tabs
               PROVE  /\ tab'[u].token = NoToken => tab'[u].user = Nobody /\ tab'[u].codes = NoCodes
                      /\ tab'[u].token # NoToken =>
                           /\ tab'[u].user \in {server[tab'[u].token.session].user, Assumed}
                           /\ tab'[u].user # Assumed
                                => tab'[u].codes = [user |-> tab'[u].user, org |-> tab'[u].org]
                           /\ tab'[u].org = tab'[u].token.org
    BY <1>3 DEF TabsBelongTogether, UserOf
  <2>1. CASE u = t
    <3>1. ~Unlisted
      BY <2>1, <1>4
    <3>2. QED BY <2>1, <3>1, <1>7, <1>8, <1>10 DEF TabsInv, LocalIsCurrent
  <2>2. CASE u # t
    BY <2>2, <1>4, <1>8 DEF TabsInv, TabsBelongTogether, UserOf
  <2>3. QED BY <2>1, <2>2
<1>13. QED BY <1>6, <1>9, <1>11, <1>12 DEF TabsInv

-----------------------------------------------------------------------------
(* The lists of organizations: ListsInv.                                    *)

\* Steps that make no list and choose from none.
LEMMA ListsStay ==
  ASSUME TabsInv, ListsInv, opened' = opened, local' = local, tab' = tab,
         \A s \in 1 .. MaxWebSessions : server'[s].orgs = server[s].orgs,
         late.lists \subseteq late'.lists,
         \A u \in Tabs : Answered(u, "login")' => waits'[u]["login"] = waits[u]["login"],
         \A u \in Tabs : waits'[u]["switch"] = waits[u]["switch"] \/ waits'[u]["switch"].phase = "none"
  PROVE  ListsInv'
<1>1. \A token \in Token : token # NoToken => server'[token.session].orgs = server[token.session].orgs
  BY TokensHaveSessions
<1>2. /\ local.token \in Token
      /\ \A u \in Tabs, k \in Kinds : waits[u][k].token \in Token
      /\ "login" \in Kinds /\ "switch" \in Kinds
  BY DEF TabsInv, SessionTypeOK, Issued, Kinds
<1>3. ListsAreKnown'
  <2> SUFFICES ASSUME NEW t \in Tabs, waits'[t]["login"].phase = "answered", NEW token,
                      token = waits'[t]["login"].token
               PROVE  /\ token.org \in server'[token.session].orgs
                      /\ local.list # token.session /\ \A u \in Tabs : tab[u].list # token.session
    BY DEF ListsInv, ListsAreKnown, OrgsOf, Answered
  <2>1. waits'[t]["login"] = waits[t]["login"] /\ waits[t]["login"].phase = "answered"
    BY DEF Answered
  <2>2. token # NoToken /\ token \in Token
    BY <1>2, <2>1 DEF TabsInv, LoginsAreFresh, Answered
  <2>3. QED BY <1>1, <2>1, <2>2 DEF ListsInv, ListsAreKnown, OrgsOf, Answered
<1>4. SwitchesAreListed'
  <2> SUFFICES ASSUME NEW t \in Tabs, NEW call, call = waits'[t]["switch"],
                      tab[t].list = call.token.session, call.token # NoToken, call.phase # "none"
               PROVE  /\ call.phase = "sent" => call.org \in server'[call.token.session].orgs
                      /\ call.phase = "answered" => call.token.org \in server'[call.token.session].orgs
    BY DEF SwitchesAreListed, OrgsOf
  <2>1. call = waits[t]["switch"] /\ call.token \in Token
    BY <1>2
  <2>2. QED BY <1>1, <2>1 DEF ListsInv, SwitchesAreListed, OrgsOf
<1>5. LocalIsListed'
  BY <1>1, <1>2 DEF ListsInv, LocalIsListed, OrgsOf
<1>6. QED BY <1>3, <1>4, <1>5 DEF ListsInv

LEMMA QuietLists ==
  ASSUME TabsInv, ListsInv, NEW t \in Tabs,
         \/ \E u \in WebUsers : SubmitLogin(t, u)
         \/ SubmitPassword(t) \/ ServerChangesPassword(t) \/ SwitchLost(t)
         \/ \E k \in Kinds : Fails(t, k)
  PROVE  ListsInv'
<1>1. /\ waits \in [Tabs -> [Kinds -> WebCall]]
      /\ server \in [1 .. MaxWebSessions ->
                       [user : WebUser, org : WebOrganization, orgs : SUBSET WebOrganizations, live : BOOLEAN]]
      /\ late \in [tabs : SUBSET Tabs, sessions : SUBSET Nat, lists : SUBSET Nat]
      /\ DOMAIN server = 1 .. MaxWebSessions
      /\ "login" \in Kinds /\ "switch" \in Kinds /\ "password" \in Kinds
      /\ "switch" # "password" /\ "login" # "password" /\ "login" # "switch"
  BY DEF TabsInv, SessionTypeOK, Kinds
<1>2. opened' = opened /\ local' = local /\ tab' = tab
  BY DEF SubmitLogin, SubmitPassword, ServerChangesPassword, SwitchLost, Fails, AppReturns
<1>3. \A s \in 1 .. MaxWebSessions : server'[s].orgs = server[s].orgs
  <2>1. CASE ServerChangesPassword(t)
    BY <1>1, <2>1 DEF ServerChangesPassword
  <2>2. CASE ~ServerChangesPassword(t)
    <3>1. server' = server
      BY <2>2 DEF SubmitLogin, SubmitPassword, SwitchLost, Fails
    <3>2. QED BY <3>1
  <2>3. QED BY <2>1, <2>2
<1>4. late.lists \subseteq late'.lists
  BY <1>1 DEF SubmitLogin, SubmitPassword, ServerChangesPassword, SwitchLost, Fails
<1>5. \E k, call : /\ k \in Kinds /\ waits' = [waits EXCEPT ![t][k] = call]
                   /\ k = "login" => call.phase # "answered"
                   /\ k = "switch" => call.phase = "none"
  <2>1. CASE \E u \in WebUsers : SubmitLogin(t, u)
    <3>1. PICK u \in WebUsers : SubmitLogin(t, u)
      BY <2>1
    <3> DEFINE call == [user |-> u, token |-> NoToken, org |-> None, phase |-> "sent"]
    <3>2. waits' = [waits EXCEPT ![t]["login"] = call] /\ call.phase # "answered"
      BY <3>1 DEF SubmitLogin, Sends
    <3> HIDE DEF call
    <3>3. QED BY <1>1, <3>2
  <2>2. CASE SubmitPassword(t)
    <3> DEFINE call == [user |-> Nobody, token |-> local.token, org |-> None, phase |-> "sent"]
    <3>1. waits' = [waits EXCEPT ![t]["password"] = call]
      BY <2>2 DEF SubmitPassword, Sends
    <3> HIDE DEF call
    <3>2. QED BY <1>1, <3>1
  <2>3. CASE ServerChangesPassword(t)
    <3> DEFINE call == [waits[t]["password"] EXCEPT !.phase = "answered", !.token = NoToken]
    <3>1. waits' = [waits EXCEPT ![t]["password"] = call]
      BY <1>1, <2>3 DEF ServerChangesPassword, Answers
    <3> HIDE DEF call
    <3>2. QED BY <1>1, <3>1
  <2>4. CASE SwitchLost(t) \/ \E k \in Kinds : Fails(t, k)
    <3>1. PICK k \in Kinds : waits' = [waits EXCEPT ![t][k] = NoCall]
      BY <1>1, <2>4 DEF SwitchLost, Fails, AppReturns
    <3>2. QED BY <3>1, NoCallIsACall
  <2>5. QED BY <2>1, <2>2, <2>3, <2>4
<1>6. PICK kind, call : /\ kind \in Kinds /\ waits' = [waits EXCEPT ![t][kind] = call]
                        /\ kind = "login" => call.phase # "answered"
                        /\ kind = "switch" => call.phase = "none"
  BY <1>5
<1>7. \A u \in Tabs, k \in Kinds : waits'[u][k] = waits[u][k] \/ (k = kind /\ waits'[u][k] = call)
  <2>1. PICK row : row = [waits[t] EXCEPT ![kind] = call]
    OBVIOUS
  <2>2. waits[t] \in [Kinds -> WebCall] /\ kind \in Kinds
    BY <1>1, <1>6
  <2>3. row[kind] = call /\ \A k \in Kinds : k # kind => row[k] = waits[t][k]
    BY <2>1, <2>2
  <2>4. waits' = [waits EXCEPT ![t] = row]
    BY <1>6, <2>1
  <2>5. QED BY <1>1, <2>3, <2>4
<1>8. /\ \A u \in Tabs : Answered(u, "login")' => waits'[u]["login"] = waits[u]["login"]
      /\ \A u \in Tabs : waits'[u]["switch"] = waits[u]["switch"] \/ waits'[u]["switch"].phase = "none"
  BY <1>1, <1>6, <1>7 DEF Answered
<1>9. QED BY <1>2, <1>3, <1>4, <1>8, ListsStay

\* A choice is made from the list of the tab.
LEMMA SelectListed ==
  ASSUME TabsInv, ListsInv, NEW t \in Tabs, NEW o \in WebOrganizations, SelectOrganization(t, o)
  PROVE  ListsInv'
<1> DEFINE call == [user |-> Nobody, token |-> local.token, org |-> o, phase |-> "sent"]
<1>1. /\ call \in WebCall /\ call.token = local.token /\ call.org = o /\ call.phase = "sent"
      /\ local.token \in Token /\ "switch" \in Kinds /\ "login" \in Kinds /\ "switch" # "login"
  BY DEF TabsInv, SessionTypeOK, WebCall, WebUser, WebOrganization, Kinds
<1>2. waits' = [waits EXCEPT ![t]["switch"] = call] /\ UNCHANGED <<server, opened, local, tab, late>>
  BY DEF SelectOrganization, Sends
<1> HIDE DEF call
<1>3. /\ waits'[t]["switch"] = call
      /\ \A u \in Tabs, k \in Kinds : u # t \/ k # "switch" => waits'[u][k] = waits[u][k]
  <2>1. /\ SessionTypeOK /\ "switch" \in Kinds /\ call \in WebCall
        /\ waits' = [waits EXCEPT ![t]["switch"] = call]
    BY <1>1, <1>2 DEF TabsInv
  <2>2. QED BY <2>1, OneWait
<1>4. ListsAreKnown' /\ LocalIsListed'
  BY <1>1, <1>2, <1>3 DEF ListsInv, ListsAreKnown, LocalIsListed, OrgsOf, Answered
<1>5. SwitchesAreListed'
  <2>1. ASSUME tab[t].list = local.token.session, local.token # NoToken
        PROVE  o \in server[local.token.session].orgs
    <3>1. tab[t].list \in 1 .. MaxWebSessions
      BY <1>1, <2>1, TokensHaveSessions
    <3>2. tab[t].list # NoList /\ tab[t].list # DefaultList
      BY <3>1, WebSessionAssumption DEF NoList, DefaultList
    <3>3. o \in Listed(tab[t].list)
      BY DEF SelectOrganization
    <3>4. QED BY <2>1, <3>2, <3>3 DEF Listed
  <2> SUFFICES ASSUME NEW u \in Tabs, NEW asked, asked = waits'[u]["switch"],
                      tab[u].list = asked.token.session, asked.token # NoToken
               PROVE  /\ asked.phase = "sent" => asked.org \in server[asked.token.session].orgs
                      /\ asked.phase = "answered" => asked.token.org \in server[asked.token.session].orgs
    BY <1>2 DEF SwitchesAreListed, OrgsOf
  <2>2. CASE u = t
    BY <2>1, <2>2, <1>1, <1>3
  <2>3. CASE u # t
    BY <2>3, <1>1, <1>3 DEF ListsInv, SwitchesAreListed, OrgsOf
  <2>4. QED BY <2>2, <2>3
<1>6. QED BY <1>4, <1>5 DEF ListsInv

\* The server gives a session the organization it was asked for.
LEMMA ServerSwitchesListed ==
  ASSUME TabsInv, ListsInv, NEW t \in Tabs, ServerSwitches(t)
  PROVE  ListsInv'
<1> DEFINE old == waits[t]["switch"]
           token == [session |-> old.token.session, org |-> old.org]
           call == [user |-> old.user, token |-> token, org |-> old.org, phase |-> "answered"]
<1>1. /\ "login" \in Kinds /\ "switch" \in Kinds /\ "login" # "switch"
      /\ old \in WebCall /\ old.phase = "sent" /\ old.org \in WebOrganizations
      /\ old.token \in Token /\ old.token # NoToken
      /\ old.token.session \in 1 .. MaxWebSessions
  BY TokensHaveSessions
     DEF Kinds, TabsInv, SessionTypeOK, SwitchesAreAnswered, Sent, ServerSwitches, Accepts, Issued
<1>2. token \in Token /\ token.session = old.token.session /\ token.org = old.org
  BY <1>1 DEF Tokens, Token
<1>3. call \in WebCall /\ waits' = [waits EXCEPT ![t]["switch"] = call]
  BY <1>1, <1>2, OneAnswer DEF ServerSwitches
<1>4. call.token = token /\ call.phase = "answered"
  OBVIOUS
<1> HIDE DEF call
<1>5. /\ waits'[t]["switch"] = call
      /\ \A u \in Tabs, k \in Kinds : u # t \/ k # "switch" => waits'[u][k] = waits[u][k]
  <2>1. /\ SessionTypeOK /\ "switch" \in Kinds /\ call \in WebCall
        /\ waits' = [waits EXCEPT ![t]["switch"] = call]
    BY <1>1, <1>3 DEF TabsInv
  <2>2. QED BY <2>1, OneWait
<1>6. /\ opened' = opened /\ local' = local /\ tab' = tab /\ late' = late
      /\ \A q \in 1 .. MaxWebSessions : server'[q].orgs = server[q].orgs
  BY <1>1 DEF ServerSwitches, TabsInv, SessionTypeOK
<1>7. \A any \in Token : any # NoToken => server'[any.session].orgs = server[any.session].orgs
  BY <1>6, TokensHaveSessions
<1>8. /\ local.token \in Token
      /\ \A u \in Tabs, k \in Kinds : waits[u][k].token \in Token
  BY DEF TabsInv, SessionTypeOK, Issued
<1>9. ListsAreKnown'
  <2> SUFFICES ASSUME NEW u \in Tabs, waits'[u]["login"].phase = "answered", NEW fresh,
                      fresh = waits'[u]["login"].token
               PROVE  /\ fresh.org \in server'[fresh.session].orgs
                      /\ local.list # fresh.session /\ \A v \in Tabs : tab[v].list # fresh.session
    BY <1>6 DEF ListsInv, ListsAreKnown, OrgsOf, Answered
  <2>1. waits'[u]["login"] = waits[u]["login"] /\ waits[u]["login"].phase = "answered"
    BY <1>1, <1>5
  <2>2. fresh # NoToken /\ fresh \in Token
    BY <1>1, <1>8, <2>1 DEF TabsInv, LoginsAreFresh, Answered
  <2>3. QED BY <1>7, <2>1, <2>2 DEF ListsInv, ListsAreKnown, OrgsOf, Answered
<1>10. SwitchesAreListed'
  <2> SUFFICES ASSUME NEW u \in Tabs, NEW asked, asked = waits'[u]["switch"],
                      tab[u].list = asked.token.session, asked.token # NoToken
               PROVE  /\ asked.phase = "sent" => asked.org \in server'[asked.token.session].orgs
                      /\ asked.phase = "answered" => asked.token.org \in server'[asked.token.session].orgs
    BY <1>6 DEF SwitchesAreListed, OrgsOf
  <2>1. CASE u = t
    <3>1. asked = call /\ asked.token = token
      BY <2>1, <1>4, <1>5
    <3>2. old.org \in server[old.token.session].orgs
      BY <2>1, <3>1, <1>1, <1>2 DEF ListsInv, SwitchesAreListed, OrgsOf
    <3>3. QED BY <3>1, <3>2, <1>1, <1>2, <1>4, <1>6
  <2>2. CASE u # t
    BY <2>2, <1>1, <1>5, <1>7, <1>8 DEF ListsInv, SwitchesAreListed, OrgsOf
  <2>3. QED BY <2>1, <2>2
<1>11. LocalIsListed'
  BY <1>6, <1>7, <1>8 DEF ListsInv, LocalIsListed, OrgsOf
<1>12. QED BY <1>9, <1>10, <1>11 DEF ListsInv

\* A new session's list is one that no tab has.
LEMMA ServerLogsInListed ==
  ASSUME TabsInv, ListsInv, NEW t \in Tabs, NEW o \in WebOrganizations,
         NEW orgs \in SUBSET WebOrganizations, ServerLogsIn(t, o, orgs)
  PROVE  ListsInv'
<1> DEFINE s == opened + 1
           token == [session |-> s, org |-> o]
           old == waits[t]["login"]
           call == [user |-> old.user, token |-> token, org |-> old.org, phase |-> "answered"]
<1>1. /\ "login" \in Kinds /\ "switch" \in Kinds /\ "switch" # "login"
      /\ opened \in Nat /\ MaxWebSessions \in Nat /\ s \in 1 .. MaxWebSessions
  BY WebSessionAssumption DEF Kinds, TabsInv, SessionTypeOK, ServerLogsIn
<1>2. /\ opened' = s /\ local' = local /\ tab' = tab /\ late' = late
      /\ server'[s].orgs = orgs
      /\ \A q \in 1 .. MaxWebSessions : q # s => server'[q] = server[q]
  BY <1>1 DEF ServerLogsIn, TabsInv, SessionTypeOK
<1>3. token \in Token /\ token.session = s /\ token.org = o /\ o \in orgs
  BY <1>1 DEF Token, Tokens, ServerLogsIn
<1>4. call \in WebCall /\ waits' = [waits EXCEPT ![t]["login"] = call]
  BY <1>1, <1>2, <1>3, OneAnswer DEF ServerLogsIn
<1>5. call.token = token
  OBVIOUS
<1> HIDE DEF call
<1>6. /\ waits'[t]["login"] = call
      /\ \A u \in Tabs, k \in Kinds : u # t \/ k # "login" => waits'[u][k] = waits[u][k]
  <2>1. /\ SessionTypeOK /\ "login" \in Kinds /\ call \in WebCall
        /\ waits' = [waits EXCEPT ![t]["login"] = call]
    BY <1>1, <1>4 DEF TabsInv
  <2>2. QED BY <2>1, OneWait
<1>7. /\ Issued(local.token)
      /\ \A u \in Tabs, k \in Kinds : Issued(waits[u][k].token)
  BY DEF TabsInv, SessionTypeOK
<1>8. \A any \in Token : any # NoToken /\ any.session <= opened =>
        any.session # s /\ server'[any.session].orgs = server[any.session].orgs
  BY <1>1, <1>2, TokensHaveSessions
<1>9. ListsAreKnown'
  <2>1. local.list \in 0 .. s /\ \A u \in Tabs : tab[u].list \in -1 .. s
    BY <1>1 DEF ListsInv, ListsAreKnown
  <2>2. local.list # s /\ \A u \in Tabs : tab[u].list # s
    BY <1>1 DEF ListsInv, ListsAreKnown
  <2>3. ASSUME NEW u \in Tabs, waits'[u]["login"].phase = "answered", NEW fresh,
               fresh = waits'[u]["login"].token
        PROVE  /\ fresh.org \in server'[fresh.session].orgs
               /\ local.list # fresh.session /\ \A v \in Tabs : tab[v].list # fresh.session
    <3>1. CASE u = t
      BY <2>2, <2>3, <3>1, <1>2, <1>3, <1>5, <1>6
    <3>2. CASE u # t
      <4>1. waits'[u]["login"] = waits[u]["login"]
        BY <3>2, <1>1, <1>6
      <4>2. fresh # NoToken /\ Issued(fresh)
        BY <4>1, <2>3, <1>1, <1>7 DEF TabsInv, LoginsAreFresh, Answered
      <4>3. QED BY <4>1, <4>2, <2>3, <1>8 DEF ListsInv, ListsAreKnown, OrgsOf, Answered, Issued
    <3>3. QED BY <3>1, <3>2
  <2>4. QED BY <2>1, <2>3, <1>2 DEF ListsAreKnown, OrgsOf, Answered
<1>10. SwitchesAreListed'
  <2> SUFFICES ASSUME NEW u \in Tabs, NEW asked, asked = waits[u]["switch"],
                      tab[u].list = asked.token.session, asked.token # NoToken
               PROVE  /\ asked.phase = "sent" => asked.org \in server'[asked.token.session].orgs
                      /\ asked.phase = "answered" => asked.token.org \in server'[asked.token.session].orgs
    BY <1>1, <1>2, <1>6 DEF SwitchesAreListed, OrgsOf
  <2>1. server'[asked.token.session].orgs = server[asked.token.session].orgs
    BY <1>1, <1>7, <1>8 DEF Issued
  <2>2. QED BY <2>1 DEF ListsInv, SwitchesAreListed, OrgsOf
<1>11. LocalIsListed'
  BY <1>2, <1>7, <1>8 DEF ListsInv, LocalIsListed, OrgsOf, Issued
<1>12. QED BY <1>9, <1>10, <1>11 DEF ListsInv

\* A tab that takes an answer to one of its calls, and the list it then has and
\* stores: one that was known, or that of the login it takes the answer to.
WritesAKnownList(t, kind, store, storage) ==
  /\ Writes(t, store, storage) /\ server' = server /\ opened' = opened
  /\ waits' = [waits EXCEPT ![t][kind] = NoCall]
  /\ store.list \in -1 .. opened /\ storage.list \in 0 .. opened
  /\ \A u \in Tabs : Answered(u, "login") /\ (u # t \/ kind # "login") =>
       /\ store.list # waits[u]["login"].token.session
       /\ storage.list # waits[u]["login"].token.session
  /\ store.list = tab[t].list \/ store.list # waits[t]["switch"].token.session

\* The lists of the other tabs, and of what they wait for, are as they were.
LEMMA WritesListed ==
  ASSUME TabsInv, ListsInv, NEW t \in Tabs, NEW kind \in Kinds, NEW store, NEW storage,
         WritesAKnownList(t, kind, store, storage)
  PROVE  /\ local' = storage /\ ListsAreKnown' /\ SwitchesAreListed'
<1>0. /\ Writes(t, store, storage) /\ server' = server /\ opened' = opened
      /\ waits' = [waits EXCEPT ![t][kind] = NoCall]
      /\ store.list \in -1 .. opened /\ storage.list \in 0 .. opened
      /\ \A u \in Tabs : Answered(u, "login") /\ (u # t \/ kind # "login") =>
           /\ store.list # waits[u]["login"].token.session
           /\ storage.list # waits[u]["login"].token.session
      /\ store.list = tab[t].list \/ store.list # waits[t]["switch"].token.session
  BY DEF WritesAKnownList
<1>1. /\ tab \in [Tabs -> [token : Token, user : WebUser \cup {Assumed},
                    codes : [user : WebUser \cup {"*"}, org : WebOrganization \cup {"*"}],
                    org : WebOrganization, list : Int]]
      /\ \A u \in Tabs, k \in Kinds : waits[u][k].token \in Token
      /\ "login" \in Kinds /\ "switch" \in Kinds /\ "login" # "switch" /\ SessionTypeOK
  BY DEF TabsInv, SessionTypeOK, Issued, Kinds
<1>2. /\ local' = storage /\ tab'[t] = store /\ \A u \in Tabs : u # t => tab'[u] = tab[u]
  BY <1>0, <1>1 DEF Writes
<1>3. /\ waits'[t][kind] = NoCall
      /\ \A u \in Tabs, k \in Kinds : u # t \/ k # kind => waits'[u][k] = waits[u][k]
  <2>1. NoCall \in WebCall /\ SessionTypeOK /\ waits' = [waits EXCEPT ![t][kind] = NoCall]
    BY <1>0, <1>1, NoCallIsACall
  <2>2. QED BY <2>1, OneWait
<1>4. ListsAreKnown'
  <2>1. local'.list \in 0 .. opened' /\ \A u \in Tabs : tab'[u].list \in -1 .. opened'
    BY <1>0, <1>2 DEF ListsInv, ListsAreKnown
  <2>2. ASSUME NEW u \in Tabs, waits'[u]["login"].phase = "answered", NEW fresh,
               fresh = waits'[u]["login"].token
        PROVE  /\ fresh.org \in server[fresh.session].orgs
               /\ local'.list # fresh.session /\ \A v \in Tabs : tab'[v].list # fresh.session
    <3>1. u # t \/ kind # "login"
      BY <2>2, <1>3, NoCallIsACall
    <3>2. waits'[u]["login"] = waits[u]["login"]
      BY <3>1, <1>1, <1>3
    <3>3. /\ fresh.org \in server[fresh.session].orgs
          /\ \A v \in Tabs : tab[v].list # fresh.session
      BY <3>2, <2>2 DEF ListsInv, ListsAreKnown, OrgsOf, Answered
    <3>4. store.list # fresh.session /\ storage.list # fresh.session
      BY <3>1, <3>2, <2>2, <1>0 DEF Answered
    <3>5. QED BY <3>3, <3>4, <1>2
  <2>3. QED BY <2>1, <2>2, <1>0 DEF ListsAreKnown, OrgsOf, Answered
<1>5. SwitchesAreListed'
  <2> SUFFICES ASSUME NEW u \in Tabs, NEW asked, asked = waits'[u]["switch"],
                      tab'[u].list = asked.token.session, asked.token # NoToken
               PROVE  /\ asked.phase = "sent" => asked.org \in server[asked.token.session].orgs
                      /\ asked.phase = "answered" => asked.token.org \in server[asked.token.session].orgs
    BY <1>0 DEF SwitchesAreListed, OrgsOf
  <2>1. asked = waits[u]["switch"]
    BY <1>1, <1>3, NoCallIsACall
  <2>2. tab'[u].list = tab[u].list
    BY <2>1, <1>0, <1>1, <1>2
  <2>3. QED BY <2>1, <2>2, <1>0 DEF ListsInv, SwitchesAreListed, OrgsOf
<1>6. QED BY <1>2, <1>4, <1>5

\* An answer to a login brings its own list.
LEMMA LoginAnsweredListed ==
  ASSUME TabsInv, ListsInv, NEW t \in Tabs, LoginAnswered(t)
  PROVE  ListsInv'
<1> DEFINE token == waits[t]["login"].token
           store == [token |-> token, user |-> waits[t]["login"].user, codes |-> CodesOf(token),
                     org |-> token.org, list |-> token.session]
           storage == [token |-> token, org |-> token.org, list |-> token.session]
<1>1. /\ "login" \in Kinds /\ "switch" \in Kinds /\ Issued(token) /\ token # NoToken
      /\ token.org \in server[token.session].orgs
      /\ \A u \in Tabs : /\ waits[u]["switch"].token.session # token.session
                         /\ Answered(u, "login") /\ u # t
                              => waits[u]["login"].token.session # token.session
  BY DEF Kinds, TabsInv, SessionTypeOK, LoginsAreFresh, LoginAnswered, ListsInv, ListsAreKnown, OrgsOf
<1>2. token.session \in 1 .. opened
  BY <1>1, TokensHaveSessions DEF Issued, TabsInv, SessionTypeOK
<1>3. /\ Writes(t, store, storage) /\ server' = server /\ opened' = opened
      /\ waits' = [waits EXCEPT ![t]["login"] = NoCall]
  BY DEF LoginAnswered, AppReturns
<1>4. /\ store.list = token.session /\ storage.list = token.session
      /\ storage.token = token /\ storage.org = token.org
  OBVIOUS
<1> HIDE DEF store, storage, token
<1>5. store.list \in -1 .. opened /\ storage.list \in 0 .. opened
  BY <1>2, <1>4, WebSessionAssumption DEF TabsInv, SessionTypeOK
<1>6. local' = storage /\ ListsAreKnown' /\ SwitchesAreListed'
  <2>1. WritesAKnownList(t, "login", store, storage)
    BY <1>1, <1>3, <1>4, <1>5 DEF WritesAKnownList
  <2>2. QED BY <1>1, <2>1, WritesListed
<1>7. LocalIsListed'
  BY <1>1, <1>3, <1>4, <1>6 DEF LocalIsListed, OrgsOf
<1>8. QED BY <1>6, <1>7 DEF ListsInv

\* An answer to a switch leaves the lists as they are; where the tab's list is of
\* another login than the session's, the session is one of late.lists.
LEMMA SwitchAnsweredListed ==
  ASSUME TabsInv, ListsInv, NEW t \in Tabs, SwitchAnswered(t)
  PROVE  ListsInv'
<1> DEFINE token == waits[t]["switch"].token
           store == SwitchReturned(t, token)
           storage == [token |-> token, org |-> token.org, list |-> local.list]
<1>1. /\ "login" \in Kinds /\ "switch" \in Kinds /\ "login" # "switch"
      /\ Answered(t, "switch") /\ token # NoToken
      /\ tab[t] \in [token : Token, user : WebUser \cup {Assumed},
                     codes : [user : WebUser \cup {"*"}, org : WebOrganization \cup {"*"}],
                     org : WebOrganization, list : Int]
      /\ local \in [token : Token, org : WebOrganization, list : Int]
      /\ late \in [tabs : SUBSET Tabs, sessions : SUBSET Nat, lists : SUBSET Nat]
  BY DEF Kinds, TabsInv, SessionTypeOK, SwitchesAreAnswered, SwitchAnswered
<1>2. [local EXCEPT !.token = token, !.org = token.org] = storage
  <2>1. local \in [token : Token, org : WebOrganization, list : Int]
    BY <1>1
  <2>2. QED BY <2>1, TwoFields
<1>3. /\ Writes(t, store, storage) /\ server' = server /\ opened' = opened
      /\ waits' = [waits EXCEPT ![t]["switch"] = NoCall]
  BY <1>2 DEF SwitchAnswered, AppReturns
<1>4. late'.lists = IF Strays(t, token) THEN late.lists \cup {token.session} ELSE late.lists
  BY DEF SwitchAnswered
<1>5. store.list = tab[t].list
  BY <1>1 DEF SwitchReturned
<1>6. /\ storage.list = local.list /\ storage.token = token /\ storage.org = token.org
  OBVIOUS
<1> HIDE DEF store, storage
<1>7. /\ store.list \in -1 .. opened /\ storage.list \in 0 .. opened
      /\ \A u \in Tabs : Answered(u, "login") =>
           /\ store.list # waits[u]["login"].token.session
           /\ storage.list # waits[u]["login"].token.session
  BY <1>5, <1>6 DEF ListsInv, ListsAreKnown
<1>8. local' = storage /\ ListsAreKnown' /\ SwitchesAreListed'
  <2>1. WritesAKnownList(t, "switch", store, storage)
    BY <1>1, <1>3, <1>5, <1>7 DEF WritesAKnownList
  <2>2. QED BY <1>1, <2>1, WritesListed
<1>9. LocalIsListed'
  <2> SUFFICES ASSUME token.session \notin late'.lists
               PROVE  token.org \in server[token.session].orgs
    BY <1>3, <1>6, <1>8 DEF LocalIsListed, OrgsOf
  <2>1. tab[t].list = token.session
    BY <1>4 DEF Strays
  <2>2. QED BY <2>1, <1>1 DEF ListsInv, SwitchesAreListed, OrgsOf, Answered
<1>10. QED BY <1>8, <1>9 DEF ListsInv

\* A tab that signs out keeps its list, or has none.
LEMMA SigningOutListed ==
  ASSUME TabsInv, ListsInv, NEW t \in Tabs, PasswordAnswered(t) \/ LogOut(t)
  PROVE  ListsInv'
<1>1. /\ "login" \in Kinds /\ "switch" \in Kinds /\ "password" \in Kinds
      /\ "login" # "password" /\ "switch" # "password"
      /\ opened \in Nat
      /\ local \in [token : Token, org : WebOrganization, list : Int]
      /\ \A u \in Tabs : waits[u]["switch"].token \in Token
      /\ \A u \in Tabs : Answered(u, "login") => waits[u]["login"].token.session \in 1 .. opened
  BY TokensHaveSessions, WebSessionAssumption
     DEF Kinds, TabsInv, SessionTypeOK, Issued, LoginsAreFresh
<1>2. CASE PasswordAnswered(t)
  <2> DEFINE store == SignedOut(tab[t].org, tab[t].list)
             storage == [local EXCEPT !.token = NoToken]
  <2>1. /\ Writes(t, store, storage) /\ server' = server /\ opened' = opened
        /\ waits' = [waits EXCEPT ![t]["password"] = NoCall]
    BY <1>2 DEF PasswordAnswered, AppReturns
  <2>2. store.list = tab[t].list /\ storage.list = local.list /\ storage.token = NoToken
    BY <1>1 DEF SignedOut
  <2> HIDE DEF store, storage
  <2>3. /\ store.list \in -1 .. opened /\ storage.list \in 0 .. opened
        /\ \A u \in Tabs : Answered(u, "login") =>
             /\ store.list # waits[u]["login"].token.session
             /\ storage.list # waits[u]["login"].token.session
    BY <2>2 DEF ListsInv, ListsAreKnown
  <2>4. local' = storage /\ ListsAreKnown' /\ SwitchesAreListed'
    <3>1. WritesAKnownList(t, "password", store, storage)
      BY <1>1, <2>1, <2>2, <2>3 DEF WritesAKnownList
    <3>2. QED BY <1>1, <3>1, WritesListed
  <2>5. QED BY <2>2, <2>4 DEF ListsInv, LocalIsListed
<1>3. CASE LogOut(t)
  <2> DEFINE store == SignedOut(None, NoList)
             storage == [token |-> NoToken, org |-> None, list |-> DefaultList]
  <2>1. /\ tab' = [tab EXCEPT ![t] = store] /\ local' = storage
        /\ server' = server /\ opened' = opened /\ waits' = waits
    BY <1>3 DEF LogOut, Writes
  <2>2. store.list = -1 /\ storage.list = 0 /\ storage.token = NoToken
    BY DEF SignedOut, NoList, DefaultList
  <2> HIDE DEF store, storage
  <2>3. tab'[t] = store /\ \A u \in Tabs : u # t => tab'[u] = tab[u]
    BY <2>1 DEF TabsInv, SessionTypeOK
  <2>4. ListsAreKnown'
    <3>1. local'.list \in 0 .. opened' /\ \A u \in Tabs : tab'[u].list \in -1 .. opened'
      BY <1>1, <2>1, <2>2, <2>3 DEF ListsInv, ListsAreKnown
    <3>2. ASSUME NEW u \in Tabs, Answered(u, "login"), NEW fresh, fresh = waits[u]["login"].token
          PROVE  /\ fresh.org \in server[fresh.session].orgs
                 /\ local'.list # fresh.session /\ \A v \in Tabs : tab'[v].list # fresh.session
      <4>1. /\ fresh.org \in server[fresh.session].orgs
            /\ \A v \in Tabs : tab[v].list # fresh.session
            /\ fresh.session \in 1 .. opened
        BY <3>2, <1>1 DEF ListsInv, ListsAreKnown, OrgsOf
      <4>2. QED BY <4>1, <1>1, <2>1, <2>2, <2>3
    <3>3. QED BY <3>1, <3>2, <2>1 DEF ListsAreKnown, OrgsOf, Answered
  <2>5. SwitchesAreListed'
    <3>1. ASSUME NEW u \in Tabs, NEW asked, asked = waits[u]["switch"],
                 tab'[u].list = asked.token.session, asked.token # NoToken
          PROVE  tab'[u].list = tab[u].list
      <4>1. asked.token.session \in 0 .. MaxWebSessions
        BY <3>1, <1>1, TokensHaveSessions
      <4>2. u # t
        BY <3>1, <4>1, <2>2, <2>3
      <4>3. QED BY <4>2, <2>3
    <3>2. QED BY <3>1, <2>1 DEF ListsInv, SwitchesAreListed, OrgsOf
  <2>6. QED BY <2>1, <2>2, <2>4, <2>5 DEF ListsInv, LocalIsListed
<1>4. QED BY <1>2, <1>3

\* A tab that is loaded anew has the stored list, and waits for nothing.
LEMMA ReloadListed ==
  ASSUME TabsInv, ListsInv, NEW t \in Tabs, NEW org \in WebOrganizations, Reload(t, org)
  PROVE  ListsInv'
<1>1. /\ UNCHANGED <<server, opened, local>>
      /\ waits' = [waits EXCEPT ![t] = [k \in Kinds |-> NoCall]]
      /\ late'.lists = late.lists
      /\ tab'[t].list = local.list /\ \A u \in Tabs : u # t => tab'[u] = tab[u]
      /\ "login" \in Kinds /\ "switch" \in Kinds
  BY DEF Reload, TabsInv, SessionTypeOK, SignedOut, Kinds
<1>2. /\ \A k \in Kinds : waits'[t][k] = NoCall
      /\ \A u \in Tabs : u # t => waits'[u] = waits[u]
  BY <1>1 DEF TabsInv, SessionTypeOK
<1>3. ListsAreKnown'
  <2>1. local'.list \in 0 .. opened' /\ \A u \in Tabs : tab'[u].list \in -1 .. opened'
    BY <1>1 DEF ListsInv, ListsAreKnown
  <2>2. ASSUME NEW u \in Tabs, waits'[u]["login"].phase = "answered", NEW fresh,
               fresh = waits'[u]["login"].token
        PROVE  /\ fresh.org \in server[fresh.session].orgs
               /\ local.list # fresh.session /\ \A v \in Tabs : tab'[v].list # fresh.session
    <3>1. u # t /\ waits'[u] = waits[u]
      BY <2>2, <1>1, <1>2, NoCallIsACall
    <3>2. QED BY <3>1, <2>2, <1>1 DEF ListsInv, ListsAreKnown, OrgsOf, Answered
  <2>3. QED BY <2>1, <2>2, <1>1 DEF ListsAreKnown, OrgsOf, Answered
<1>4. SwitchesAreListed'
  <2> SUFFICES ASSUME NEW u \in Tabs, NEW asked, asked = waits'[u]["switch"],
                      tab'[u].list = asked.token.session, asked.token # NoToken
               PROVE  /\ asked.phase = "sent" => asked.org \in server[asked.token.session].orgs
                      /\ asked.phase = "answered" => asked.token.org \in server[asked.token.session].orgs
    BY <1>1 DEF SwitchesAreListed, OrgsOf
  <2>1. u # t
    BY <1>1, <1>2, NoCallIsACall
  <2>2. QED BY <2>1, <1>1, <1>2 DEF ListsInv, SwitchesAreListed, OrgsOf
<1>5. LocalIsListed'
  BY <1>1 DEF ListsInv, LocalIsListed, OrgsOf
<1>6. QED BY <1>3, <1>4, <1>5 DEF ListsInv

-----------------------------------------------------------------------------
\* What the tabs of a browser show belongs together, and the token they share is
\* one the server accepts, however many tabs, logins and switches there are,
\* but for what the answers that come too late, or not at all, leave behind.
THEOREM TabsHold == SessionInit /\ [][SessionNext]_sessionVars => []TabsAreCoherent
<1>1. SessionInit => TabsInv /\ ListsInv
  <2> SUFFICES ASSUME SessionInit PROVE TabsInv /\ ListsInv
    OBVIOUS
  <2>1. MaxWebSessions \in Nat
    BY WebSessionAssumption
  <2>2. /\ opened = 0 /\ local.token = NoToken /\ local.org = None
        /\ local \in [token : Token, org : WebOrganization, list : Int]
        /\ insync = Tabs /\ late \in [tabs : SUBSET Tabs, sessions : SUBSET Nat, lists : SUBSET Nat]
    BY DEF SessionInit, Token, WebOrganization, DefaultList
  <2>3. \A t \in Tabs : /\ tab[t].token = NoToken /\ tab[t].user = Nobody /\ tab[t].codes = NoCodes
                        /\ \A k \in Kinds : waits[t][k] = NoCall
    BY DEF SessionInit, SignedOut
  <2>4. Issued(NoToken)
    BY <2>2, TokensHaveSessions DEF Issued, Token
  <2>5. tab \in [Tabs -> [token : Token, user : WebUser \cup {Assumed},
                          codes : [user : WebUser \cup {"*"}, org : WebOrganization \cup {"*"}],
                          org : WebOrganization, list : Int]]
    BY WebSessionAssumption DEF SessionInit, SignedOut, Token, WebUser, WebOrganization, NoCodes, DefaultList
  <2>6. server \in [1 .. MaxWebSessions -> [user : WebUser, org : WebOrganization, orgs : SUBSET WebOrganizations, live : BOOLEAN]]
    BY DEF SessionInit, WebUser, WebOrganization
  <2>7. waits \in [Tabs -> [Kinds -> WebCall]]
    BY NoCallIsACall DEF SessionInit
  <2>8. SessionTypeOK
    BY <2>1, <2>2, <2>3, <2>4, <2>5, <2>6, <2>7, NoCallIsACall DEF SessionTypeOK
  <2>9. "login" \in Kinds /\ "switch" \in Kinds
    BY DEF Kinds
  <2>10. LoginsAreFresh /\ SwitchesAreAnswered
    BY <2>3, <2>9, NoCallIsACall DEF LoginsAreFresh, SwitchesAreAnswered, Sent, Answered
  <2>11. LocalIsCurrent /\ TabsBelongTogether /\ InSyncIsEqual
    BY <2>2, <2>3 DEF LocalIsCurrent, TabsBelongTogether, InSyncIsEqual
  <2>12. \A t \in Tabs : tab[t].list = DefaultList /\ local.list = DefaultList
    BY DEF SessionInit, SignedOut
  <2>13. ListsInv
    <3>1. \A t \in Tabs : tab[t].list = 0
      BY <2>12 DEF DefaultList
    <3>2. local.list = 0 /\ \A t \in Tabs : ~Answered(t, "login") /\ waits[t]["switch"].token = NoToken
      BY <2>3, <2>9, NoCallIsACall DEF Answered, SessionInit, DefaultList
    <3>3. ListsAreKnown
      BY <2>2, <3>1, <3>2 DEF ListsAreKnown
    <3>4. SwitchesAreListed /\ LocalIsListed
      BY <2>2, <3>2 DEF SwitchesAreListed, LocalIsListed
    <3>5. QED BY <3>3, <3>4 DEF ListsInv
  <2>14. QED BY <2>8, <2>10, <2>11, <2>13 DEF TabsInv
<1>2. TabsInv /\ ListsInv /\ [SessionNext]_sessionVars => TabsInv'
  <2> SUFFICES ASSUME TabsInv, ListsInv, [SessionNext]_sessionVars PROVE TabsInv'
    OBVIOUS
  <2>1. CASE UNCHANGED sessionVars
    <3>1. /\ server' = server /\ opened' = opened /\ local' = local /\ tab' = tab
          /\ waits' = waits /\ insync' = insync /\ late' = late
      BY <2>1 DEF sessionVars
    <3>2. SessionTypeOK' /\ LoginsAreFresh' /\ SwitchesAreAnswered'
      BY <3>1 DEF TabsInv, SessionTypeOK, LoginsAreFresh, SwitchesAreAnswered, Sent, Answered, Issued
    <3>3. LocalIsCurrent' /\ TabsBelongTogether' /\ InSyncIsEqual'
      BY <3>1 DEF TabsInv, LocalIsCurrent, TabsBelongTogether, InSyncIsEqual, Answered, Superseded, UserOf
    <3>4. QED BY <3>2, <3>3 DEF TabsInv
  <2>2. ASSUME NEW t \in Tabs,
               \/ \E u \in WebUsers : SubmitLogin(t, u)
               \/ SubmitPassword(t)
               \/ \E o \in WebOrganizations : SelectOrganization(t, o)
               \/ \E k \in Kinds : Fails(t, k)
        PROVE  TabsInv'
    BY <2>2, CallsKeepIt, Zenon
  <2>3. ASSUME NEW t \in Tabs, NEW o \in WebOrganizations, NEW orgs \in SUBSET WebOrganizations,
               ServerLogsIn(t, o, orgs)
        PROVE  TabsInv'
    BY <2>3, ServerLogsInKeepsIt, Zenon
  <2>4. CASE \/ \E t \in Tabs : ServerChangesPassword(t)
             \/ \E s \in 1 .. MaxWebSessions : Ends(s)
    BY <2>4, EndingsKeepIt, Zenon
  <2>5. ASSUME NEW t \in Tabs, PasswordAnswered(t) \/ LogOut(t) PROVE TabsInv'
    BY <2>5, SigningOutKeepsIt, Zenon
  <2>6. ASSUME NEW t \in Tabs,
               \/ ServerSwitches(t) \/ LoginAnswered(t) \/ SwitchAnswered(t) \/ SwitchLost(t)
               \/ \E o \in WebOrganizations : Reload(t, o)
        PROVE  TabsInv'
    BY <2>6, ServerSwitchesKeepsIt, LoginAnsweredKeepsIt, SwitchAnsweredKeepsIt, SwitchLostKeepsIt,
       ReloadKeepsIt, Zenon DEF ListsInv
  <2>7. QED BY <2>1, <2>2, <2>3, <2>4, <2>5, <2>6, Zenon DEF SessionNext
<1>3. TabsInv /\ ListsInv /\ [SessionNext]_sessionVars => ListsInv'
  <2> SUFFICES ASSUME TabsInv, ListsInv, [SessionNext]_sessionVars PROVE ListsInv'
    OBVIOUS
  <2>1. CASE UNCHANGED sessionVars
    BY <2>1, ListsStay DEF sessionVars, Answered
  <2>2. ASSUME NEW t \in Tabs,
               \/ \E u \in WebUsers : SubmitLogin(t, u)
               \/ SubmitPassword(t) \/ ServerChangesPassword(t) \/ SwitchLost(t)
               \/ \E k \in Kinds : Fails(t, k)
        PROVE  ListsInv'
    BY <2>2, QuietLists, Zenon
  <2>3. ASSUME NEW s \in 1 .. MaxWebSessions, Ends(s) PROVE ListsInv'
    <3>1. /\ opened' = opened /\ local' = local /\ tab' = tab /\ waits' = waits /\ late' = late
          /\ \A q \in 1 .. MaxWebSessions : server'[q].orgs = server[q].orgs
      BY <2>3 DEF Ends, TabsInv, SessionTypeOK
    <3>2. QED BY <3>1, ListsStay DEF Answered
  <2>4. ASSUME NEW t \in Tabs, NEW o \in WebOrganizations,
               SelectOrganization(t, o) \/ Reload(t, o)
        PROVE  ListsInv'
    BY <2>4, SelectListed, ReloadListed, Zenon
  <2>5. ASSUME NEW t \in Tabs, NEW o \in WebOrganizations, NEW orgs \in SUBSET WebOrganizations,
               ServerLogsIn(t, o, orgs)
        PROVE  ListsInv'
    BY <2>5, ServerLogsInListed, Zenon
  <2>6. ASSUME NEW t \in Tabs,
               \/ ServerSwitches(t) \/ LoginAnswered(t) \/ SwitchAnswered(t)
               \/ PasswordAnswered(t) \/ LogOut(t)
        PROVE  ListsInv'
    BY <2>6, ServerSwitchesListed, LoginAnsweredListed, SwitchAnsweredListed, SigningOutListed, Zenon
  <2>7. QED BY <2>1, <2>2, <2>3, <2>4, <2>5, <2>6, Zenon DEF SessionNext
<1>4. QED BY <1>1, <1>2, <1>3, TabsInvSuffices, PTL
====
