-------------------------- MODULE OrganizationForest --------------------------
(***************************************************************************)
(* What the organization tree promises, with places in place of packed     *)
(* paths: a place is the sequence of segments from the root.               *)
(***************************************************************************)
EXTENDS Integers, Sequences, SequenceTheorems, TLAPS

CONSTANTS Organizations,  \* ids
          Segments,       \* segments of a sibling
          Deepest         \* levels a place can have

VARIABLES place,   \* of each organization, <<>> before it is created
          closed,  \* disabled organizations
          removed  \* deleted organizations

forestVars == <<place, closed, removed>>

-----------------------------------------------------------------------------
Above(high, low) ==
  Len(high) < Len(low) /\ \A i \in 1 .. Len(high) : high[i] = low[i]

Placed == {o \in Organizations : place[o] # <<>>}
Standing == Placed \ removed
Subtree(o) == {p \in Standing : p = o \/ Above(place[o], place[p])}

ForestTypeOK ==
  /\ place \in [Organizations -> Seq(Segments)]
  /\ closed \subseteq Placed /\ removed \subseteq Placed

ForestInit == place = [o \in Organizations |-> <<>>] /\ closed = {} /\ removed = {}

Founds(o, where) ==
  /\ \A p \in Placed : place[p] # where
  /\ place' = [place EXCEPT ![o] = where]
  /\ UNCHANGED <<closed, removed>>

FoundRoot(o, s) == Founds(o, <<s>>)

FoundUnder(o, p, s) ==
  /\ Len(place[p]) < Deepest
  /\ Founds(o, Append(place[p], s))

Close(o) ==
  /\ closed' = closed \cup Subtree(o)
  /\ UNCHANGED <<place, removed>>

Open(o) ==
  /\ \A p \in Standing : Above(place[p], place[o]) => p \notin closed
  /\ closed' = closed \ {o}
  /\ UNCHANGED <<place, removed>>

Remove(o) ==
  /\ removed' = removed \cup Subtree(o)
  /\ UNCHANGED <<place, closed>>

ForestNext ==
  \/ \E o \in Organizations \ Placed, s \in Segments :
       FoundRoot(o, s) \/ \E p \in Standing \ closed : FoundUnder(o, p, s)
  \/ \E o \in Standing : Close(o) \/ Open(o) \/ Remove(o)

ForestSpec == ForestInit /\ [][ForestNext]_forestVars

-----------------------------------------------------------------------------
(* Properties.                                                              *)

\* No two organizations were ever given one place, not even after a deletion.
PlacesAreUnique ==
  \A o, p \in Placed : place[o] = place[p] => o = p

\* What is above a standing organization stands, down to the root.
SubtreesFallTogether ==
  \A o \in Standing, p \in Placed : Above(place[p], place[o]) => p \in Standing

\* Whoever can work in an organization finds every one above it enabled.
OpenUnderOpen ==
  \A o \in Standing \ closed, p \in Standing : Above(place[p], place[o]) => p \notin closed

\* Places are given once, and deletion and disablement follow the tree.
ForestIsSound == ForestTypeOK /\ PlacesAreUnique /\ SubtreesFallTogether /\ OpenUnderOpen

-----------------------------------------------------------------------------
(* Proofs, for every set of organizations and every depth.  What is proved of  *)
(* the forest holds of the organization tree, whose steps are steps of it.     *)

\* Each place hangs from the root by places that were given.
Rooted ==
  \A o \in Placed : \A n \in 1 .. Len(place[o]) - 1 :
    \E p \in Placed : Len(place[p]) = n /\ Above(place[p], place[o])

\* The inductive invariant: a new place has nothing under it because whatever
\* was under it would hang from an organization that has the place already.
ForestInv == ForestIsSound /\ Rooted

-----------------------------------------------------------------------------
(* Above is a strict order on places. *)

LEMMA AboveIsTransitive ==
  ASSUME NEW S, NEW a \in Seq(S), NEW b \in Seq(S), NEW c \in Seq(S),
         Above(a, b), Above(b, c)
  PROVE  Above(a, c)
<1>1. Len(a) \in Nat /\ Len(b) \in Nat /\ Len(c) \in Nat
  OBVIOUS
<1>2. \A i \in 1 .. Len(a) : i \in 1 .. Len(b) /\ a[i] = c[i]
  BY <1>1 DEF Above
<1>3. QED BY <1>1, <1>2 DEF Above

\* Two places of one length above a third are the same place.
LEMMA AboveIsOnePath ==
  ASSUME NEW S, NEW a \in Seq(S), NEW b \in Seq(S), NEW c \in Seq(S),
         Above(a, c), Above(b, c), Len(a) = Len(b)
  PROVE  a = b
<1>1. \A i \in 1 .. Len(a) : a[i] = b[i]
  BY DEF Above
<1>2. QED BY <1>1, SeqEqual

\* What is above a child is its parent or above its parent.
LEMMA AboveAChild ==
  ASSUME NEW S, NEW a \in Seq(S), NEW b \in Seq(S), NEW s \in S
  PROVE  /\ Append(b, s) \in Seq(S) /\ Append(b, s) # <<>>
         /\ Len(Append(b, s)) = Len(b) + 1 /\ Above(b, Append(b, s))
         /\ Above(a, b) => Above(a, Append(b, s))
         /\ Above(a, Append(b, s)) => a = b \/ Above(a, b)
<1>1. /\ Len(a) \in Nat /\ Len(b) \in Nat
      /\ Append(b, s) \in Seq(S) /\ Len(Append(b, s)) = Len(b) + 1
      /\ \A i \in 1 .. Len(b) : Append(b, s)[i] = b[i]
  OBVIOUS
<1>2. Above(b, Append(b, s)) /\ Append(b, s) # <<>>
  BY <1>1 DEF Above
<1>3. Above(a, b) => Above(a, Append(b, s))
  BY <1>1, <1>2, AboveIsTransitive
<1>4. ASSUME Above(a, Append(b, s)) PROVE a = b \/ Above(a, b)
  <2>1. Len(a) <= Len(b) /\ \A i \in 1 .. Len(a) : a[i] = b[i]
    BY <1>1, <1>4 DEF Above
  <2>2. CASE Len(a) = Len(b)
    BY <2>1, <2>2, SeqEqual
  <2>3. CASE Len(a) < Len(b)
    BY <2>1, <2>3 DEF Above
  <2>4. QED BY <1>1, <2>1, <2>2, <2>3
<1>5. QED BY <1>1, <1>2, <1>3, <1>4

-----------------------------------------------------------------------------
(* A new organization. *)

\* A place is given when it is free and everything above it stands and is enabled.
Suits(o, where) ==
  /\ o \in Organizations \ Placed
  /\ where \in Seq(Segments) /\ where # <<>>
  /\ \A n \in 1 .. Len(where) - 1 :
       \E p \in Standing \ closed : Len(place[p]) = n /\ Above(place[p], where)

\* A root has nothing above it.
LEMMA RootSuits ==
  ASSUME NEW o \in Organizations \ Placed, NEW s \in Segments
  PROVE  Suits(o, <<s>>)
<1>1. <<s>> \in Seq(Segments) /\ <<s>> # <<>> /\ Len(<<s>>) = 1
  OBVIOUS
<1>2. QED BY <1>1 DEF Suits

\* A child has above it its parent, and the parent has only what is enabled.
LEMMA ChildSuits ==
  ASSUME ForestInv, NEW o \in Organizations \ Placed, NEW s \in Segments,
         NEW p \in Standing \ closed
  PROVE  Suits(o, Append(place[p], s))
<1> DEFINE where == Append(place[p], s)
<1>1. place \in [Organizations -> Seq(Segments)] /\ p \in Organizations /\ p \in Placed
  BY DEF ForestInv, ForestIsSound, ForestTypeOK, Standing, Placed
<1>2. place[p] \in Seq(Segments)
  BY <1>1
<1>3. where \in Seq(Segments) /\ where # <<>> /\ Len(where) = Len(place[p]) + 1
      /\ Above(place[p], where) /\ Len(place[p]) \in Nat
  BY <1>2, AboveAChild
<1>4. ASSUME NEW n \in 1 .. Len(place[p])
      PROVE  \E q \in Standing \ closed : Len(place[q]) = n /\ Above(place[q], where)
  <2>1. CASE n = Len(place[p])
    BY <1>3, <2>1
  <2>2. CASE n # Len(place[p])
    <3>1. n \in 1 .. Len(place[p]) - 1
      BY <1>3, <2>2
    <3>2. PICK q \in Placed : Len(place[q]) = n /\ Above(place[q], place[p])
      BY <1>1, <3>1 DEF ForestInv, Rooted
    <3>3. q \in Standing /\ q \notin closed
      BY <1>1, <3>2 DEF ForestInv, ForestIsSound, SubtreesFallTogether, OpenUnderOpen
    <3>4. place[q] \in Seq(Segments)
      BY <1>1 DEF Placed
    <3>5. Above(place[q], where)
      BY <1>2, <3>2, <3>4, AboveAChild
    <3>6. QED BY <3>2, <3>3, <3>5
  <2>3. QED BY <2>1, <2>2
<1>5. QED BY <1>3, <1>4 DEF Suits

\* Giving such a place keeps the invariant.
LEMMA FoundsKeepsIt ==
  ASSUME ForestInv, NEW o, NEW where, Suits(o, where), Founds(o, where)
  PROVE  ForestInv'
<1>1. /\ place \in [Organizations -> Seq(Segments)] /\ o \in Organizations /\ o \notin Placed
      /\ closed \subseteq Placed /\ removed \subseteq Placed /\ Placed \subseteq Organizations
  BY DEF ForestInv, ForestIsSound, ForestTypeOK, Suits, Placed
<1>2. /\ where \in Seq(Segments) /\ where # <<>>
      /\ \A p \in Placed : place[p] # where
      /\ place' = [place EXCEPT ![o] = where] /\ closed' = closed /\ removed' = removed
  BY DEF Suits, Founds
<1>3. /\ place' \in [Organizations -> Seq(Segments)] /\ place'[o] = where
      /\ \A p \in Placed : place'[p] = place[p] /\ place[p] \in Seq(Segments) /\ p # o
  BY <1>1, <1>2
<1>4. Placed' = Placed \cup {o} /\ Standing' = Standing \cup {o} /\ Standing \subseteq Placed
  BY <1>1, <1>2, <1>3 DEF Placed, Standing
<1>5. ForestTypeOK'
  BY <1>1, <1>2, <1>3, <1>4 DEF ForestTypeOK
<1>6. PlacesAreUnique'
  BY <1>2, <1>3, <1>4 DEF PlacesAreUnique, ForestInv, ForestIsSound
<1>7. \A p \in Placed : ~Above(where, place[p])
  <2> SUFFICES ASSUME NEW p \in Placed, Above(where, place[p]) PROVE FALSE
    OBVIOUS
  <2>1. Len(where) \in 1 .. Len(place[p]) - 1
    BY <1>2, <1>3, EmptySeq DEF Above
  <2>2. PICK q \in Placed : Len(place[q]) = Len(where) /\ Above(place[q], place[p])
    BY <2>1 DEF ForestInv, Rooted
  <2>3. place[q] = where
    BY <1>2, <1>3, <2>2, AboveIsOnePath
  <2>4. QED BY <1>2, <2>3
<1>8. \A p \in Placed : Above(place[p], where) => p \in Standing \ closed
  <2> SUFFICES ASSUME NEW p \in Placed, Above(place[p], where) PROVE p \in Standing \ closed
    OBVIOUS
  <2>1. Len(place[p]) \in 1 .. Len(where) - 1
    BY <1>2, <1>3, EmptySeq DEF Above, Placed
  <2>2. PICK q \in Standing \ closed : Len(place[q]) = Len(place[p]) /\ Above(place[q], where)
    BY <2>1 DEF Suits
  <2>3. q \in Placed /\ place[q] = place[p]
    BY <1>2, <1>3, <1>4, <2>2, AboveIsOnePath
  <2>4. QED BY <2>2, <2>3 DEF PlacesAreUnique, ForestInv, ForestIsSound
<1>9. ~Above(where, where)
  BY <1>2 DEF Above
<1>10. SubtreesFallTogether'
  <2> SUFFICES ASSUME NEW a \in Standing', NEW p \in Placed', Above(place'[p], place'[a])
               PROVE  p \in Standing'
    BY DEF SubtreesFallTogether, Above
  <2>1. CASE a = o
    BY <1>3, <1>4, <1>8, <1>9, <2>1
  <2>2. CASE p = o
    BY <1>4, <2>2
  <2>3. CASE a # o /\ p # o
    BY <1>3, <1>4, <2>3 DEF SubtreesFallTogether, ForestInv, ForestIsSound
  <2>4. QED BY <2>1, <2>2, <2>3
<1>11. OpenUnderOpen'
  <2> SUFFICES ASSUME NEW a \in (Standing \ closed)', NEW p \in Standing', Above(place'[p], place'[a])
               PROVE  p \notin closed'
    BY DEF OpenUnderOpen, Above
  <2>1. CASE p = o
    BY <1>1, <1>2, <2>1
  <2>2. CASE a = o /\ p # o
    BY <1>2, <1>3, <1>4, <1>8, <2>2
  <2>3. CASE a # o /\ p # o
    BY <1>2, <1>3, <1>4, <2>3 DEF OpenUnderOpen, ForestInv, ForestIsSound
  <2>4. QED BY <2>1, <2>2, <2>3
<1>12. Rooted'
  <2> SUFFICES ASSUME NEW a \in Placed', NEW n \in 1 .. Len(place'[a]) - 1
               PROVE  \E p \in Placed' : Len(place'[p]) = n /\ Above(place'[p], place'[a])
    BY DEF Rooted, Above
  <2>1. CASE a = o
    <3>1. PICK p \in Standing \ closed : Len(place[p]) = n /\ Above(place[p], where)
      BY <1>3, <2>1 DEF Suits
    <3>2. QED BY <1>3, <1>4, <2>1, <3>1
  <2>2. CASE a # o
    <3>1. a \in Placed /\ place'[a] = place[a]
      BY <1>3, <1>4, <2>2
    <3>2. PICK p \in Placed : Len(place[p]) = n /\ Above(place[p], place[a])
      BY <3>1 DEF Rooted, ForestInv
    <3>3. QED BY <1>3, <1>4, <3>1, <3>2
  <2>3. QED BY <2>1, <2>2
<1>13. QED BY <1>5, <1>6, <1>10, <1>11, <1>12 DEF ForestInv, ForestIsSound

-----------------------------------------------------------------------------
(* Disabling, enabling and deleting. *)

\* A subtree holds all that is under any of it.
LEMMA SubtreeIsClosedDown ==
  ASSUME ForestInv, NEW o \in Standing, NEW p \in Subtree(o), NEW q \in Standing,
         Above(place[p], place[q])
  PROVE  q \in Subtree(o)
<1>1. \A a \in Standing : place[a] \in Seq(Segments)
  BY DEF ForestInv, ForestIsSound, ForestTypeOK, Standing, Placed
<1>2. p \in Standing /\ (p = o \/ Above(place[o], place[p]))
  BY DEF Subtree
<1>3. Above(place[o], place[q])
  BY <1>1, <1>2, AboveIsTransitive
<1>4. QED BY <1>3 DEF Subtree

\* Disabling takes all that is under the organization with it.
LEMMA CloseKeepsIt ==
  ASSUME ForestInv, NEW o \in Standing, Close(o)
  PROVE  ForestInv'
<1>1. place' = place /\ removed' = removed /\ closed' = closed \cup Subtree(o)
  BY DEF Close
<1>2. Placed' = Placed /\ Standing' = Standing /\ Subtree(o) \subseteq Placed
  BY <1>1 DEF Placed, Standing, Subtree
<1>3. ForestTypeOK' /\ PlacesAreUnique' /\ SubtreesFallTogether' /\ Rooted'
  BY <1>1, <1>2 DEF ForestInv, ForestIsSound, ForestTypeOK, PlacesAreUnique, SubtreesFallTogether,
                    Rooted, Above
<1>4. OpenUnderOpen'
  <2> SUFFICES ASSUME NEW a \in (Standing \ closed)', NEW p \in Standing', Above(place'[p], place'[a])
               PROVE  p \notin closed'
    BY DEF OpenUnderOpen, Above
  <2>1. a \in Standing /\ a \notin closed /\ a \notin Subtree(o) /\ p \in Standing /\ Above(place[p], place[a])
    BY <1>1, <1>2
  <2>2. p \notin closed
    BY <2>1 DEF OpenUnderOpen, ForestInv, ForestIsSound
  <2>3. p \notin Subtree(o)
    BY <2>1, SubtreeIsClosedDown
  <2>4. QED BY <1>1, <2>2, <2>3
<1>5. QED BY <1>3, <1>4 DEF ForestInv, ForestIsSound

\* Enabling needs everything above enabled.
LEMMA OpenKeepsIt ==
  ASSUME ForestInv, NEW o \in Standing, Open(o)
  PROVE  ForestInv'
<1>1. /\ place' = place /\ removed' = removed /\ closed' = closed \ {o}
      /\ \A p \in Standing : Above(place[p], place[o]) => p \notin closed
  BY DEF Open
<1>2. Placed' = Placed /\ Standing' = Standing
  BY <1>1 DEF Placed, Standing
<1>3. ForestTypeOK' /\ PlacesAreUnique' /\ SubtreesFallTogether' /\ Rooted'
  BY <1>1, <1>2 DEF ForestInv, ForestIsSound, ForestTypeOK, PlacesAreUnique, SubtreesFallTogether,
                    Rooted, Above
<1>4. OpenUnderOpen'
  BY <1>1, <1>2 DEF OpenUnderOpen, Above, ForestInv, ForestIsSound
<1>5. QED BY <1>3, <1>4 DEF ForestInv, ForestIsSound

\* Deleting takes all that is under the organization with it.
LEMMA RemoveKeepsIt ==
  ASSUME ForestInv, NEW o \in Standing, Remove(o)
  PROVE  ForestInv'
<1>1. place' = place /\ removed' = removed \cup Subtree(o) /\ closed' = closed
  BY DEF Remove
<1>2. Placed' = Placed /\ Standing' = Standing \ Subtree(o) /\ Subtree(o) \subseteq Placed
  BY <1>1 DEF Placed, Standing, Subtree
<1>3. ForestTypeOK' /\ PlacesAreUnique' /\ Rooted'
  BY <1>1, <1>2 DEF ForestInv, ForestIsSound, ForestTypeOK, PlacesAreUnique, Rooted, Above
<1>4. OpenUnderOpen'
  BY <1>1, <1>2 DEF OpenUnderOpen, Above, ForestInv, ForestIsSound
<1>5. SubtreesFallTogether'
  <2> SUFFICES ASSUME NEW a \in Standing', NEW p \in Placed', Above(place'[p], place'[a])
               PROVE  p \in Standing'
    BY DEF SubtreesFallTogether, Above
  <2>1. a \in Standing /\ a \notin Subtree(o) /\ p \in Placed /\ Above(place[p], place[a])
    BY <1>1, <1>2
  <2>2. p \in Standing
    BY <2>1 DEF SubtreesFallTogether, ForestInv, ForestIsSound
  <2>3. p \notin Subtree(o)
    BY <2>1, SubtreeIsClosedDown
  <2>4. QED BY <1>2, <2>2, <2>3
<1>6. QED BY <1>3, <1>4, <1>5 DEF ForestInv, ForestIsSound

-----------------------------------------------------------------------------
\* Places are given once, and what stands and is enabled stands on what stands
\* and is enabled, in every reachable state of the forest.
THEOREM ForestSound == ForestSpec => []ForestIsSound
<1>1. ForestInit => ForestInv
  <2>1. ForestInit => Placed = {} /\ ForestTypeOK
    BY EmptySeq DEF ForestInit, Placed, ForestTypeOK
  <2>2. QED BY <2>1 DEF ForestInit, ForestInv, ForestIsSound, PlacesAreUnique, SubtreesFallTogether,
                        OpenUnderOpen, Rooted, Standing
<1>2. ForestInv /\ [ForestNext]_forestVars => ForestInv'
  <2> SUFFICES ASSUME ForestInv, [ForestNext]_forestVars PROVE ForestInv'
    OBVIOUS
  <2>1. CASE UNCHANGED forestVars
    BY <2>1 DEF forestVars, ForestInv, ForestIsSound, ForestTypeOK, PlacesAreUnique,
                SubtreesFallTogether, OpenUnderOpen, Rooted, Standing, Placed, Above
  <2>2. ASSUME NEW o \in Organizations \ Placed, NEW s \in Segments, FoundRoot(o, s)
        PROVE  ForestInv'
    BY <2>2, RootSuits, FoundsKeepsIt, Zenon DEF FoundRoot
  <2>3. ASSUME NEW o \in Organizations \ Placed, NEW s \in Segments, NEW p \in Standing \ closed,
               FoundUnder(o, p, s)
        PROVE  ForestInv'
    BY <2>3, ChildSuits, FoundsKeepsIt, Zenon DEF FoundUnder
  <2>4. ASSUME NEW o \in Standing, Close(o) \/ Open(o) \/ Remove(o) PROVE ForestInv'
    BY <2>4, CloseKeepsIt, OpenKeepsIt, RemoveKeepsIt, Zenon
  <2>5. QED BY <2>1, <2>2, <2>3, <2>4, Zenon DEF ForestNext
<1>3. ForestInv => ForestIsSound
  BY DEF ForestInv
<1>4. QED BY <1>1, <1>2, <1>3, PTL DEF ForestSpec
=============================================================================
