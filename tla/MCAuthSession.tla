---------------------------- MODULE MCAuthSession ----------------------------
(* Values for model checking sessions: at the server, and in the tabs of a     *)
(* browser.  Each behaviour is of one of them, and fairness is asked of the    *)
(* first.                                                                      *)
EXTENDS AuthSession, WebSession

CONSTANTS u1, p1, p2, s1, s2, c1, c2
CONSTANT Parts   \* the parts a run checks
VARIABLE part

MCInit == part \in Parts /\ Init /\ SessionInit

\* A bound of the second part: four calls in one session, three in two.
Few == called' + opened' <= MaxWebCalls + 1

\* Tabs are alike, and so are users: the first session is u's, from t1.
FirstOfMany ==
  opened = 0 /\ opened' = 1 =>
    server'[1].user = "u" /\ waits'["t1"]["login"].phase = "answered"

\* A step of one part: the other part's variables stay as they are.
MCNext ==
  \/ part = "server" /\ Next /\ UNCHANGED <<part, sessionVars>>
  \/ part = "tabs" /\ SessionNext /\ Few /\ FirstOfMany /\ UNCHANGED <<part, vars>>

PartsSpec == MCInit /\ [][MCNext]_<<part, vars, sessionVars>>

\* AuthSession's Fairness.
ServerIs == part = "server"
ServerFairness ==
  /\ \A u \in Users :
       /\ WF_vars(ServerIs /\ LockRunsOut(u))
       /\ SF_vars(ServerIs /\ \E c \in Callers, p \in Passwords : LoginBegin(c, u, p))
  /\ \A c \in Callers : WF_vars(ServerIs /\ Finish(c))

SessionsSpec == PartsSpec /\ ServerFairness
=============================================================================
