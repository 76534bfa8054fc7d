------------------------------ MODULE Migrations ------------------------------
(***************************************************************************)
(* The migration command, run by several operators at once for releases    *)
(* that may differ.  A migration is one transaction: its SQL and its row   *)
(* in schema_migrations; the runner stops at the first one that differs    *)
(* from what the history says was applied.                                 *)
(***************************************************************************)
EXTENDS Integers, Sequences, FiniteSets

CONSTANTS
  Runners,        \* processes that run the migration command
  Plans,          \* of each release: the migrations in the order they are collected,
                  \* each [id, source, checksum]
  SchemaDialect,  \* "sqlite" or "postgresql"
  MaxRunnerExits  \* runs that are killed

ASSUME MigrationsAssumption ==
  /\ SchemaDialect \in {"sqlite", "postgresql"}
  /\ MaxRunnerExits \in Nat
  /\ Len(Plans) \in Nat \ {0}
  /\ \A k \in 1 .. Len(Plans) : Len(Plans[k]) \in Nat
  /\ \A k \in 1 .. Len(Plans) : \A i, j \in 1 .. Len(Plans[k]) :
       Plans[k][i].id = Plans[k][j].id => i = j

\* A source's migrations are collected by their names, and a release adds to
\* them with higher names only: whoever has a migration has those before it.
ASSUME ReleasesGrow ==
  \A k, l \in 1 .. Len(Plans) : \A i, j \in 1 .. Len(Plans[k]) : \A n \in 1 .. Len(Plans[l]) :
    i < j /\ Plans[k][i].source = Plans[k][j].source /\ Plans[l][n] = Plans[k][j]
      => \E m \in 1 .. n - 1 : Plans[l][m].id = Plans[k][i].id

VARIABLES history,   \* schema_migrations
          effects,   \* migrations whose SQL is committed, one entry per time
          runner,    \* the release a process runs and where it is
          kills      \* runs killed so far

migrationVars == <<history, effects, runner, kills>>

-----------------------------------------------------------------------------
Migration == UNION {{Plans[k][i] : i \in 1 .. Len(Plans[k])} : k \in 1 .. Len(Plans)}
Steps == {"idle", "looking", "pending", "written", "done", "failed"}

MigrationsTypeOK ==
  /\ history \subseteq Migration
  /\ effects \in Seq(Migration)
  /\ runner \in [Runners -> [plan : 1 .. Len(Plans), at : Nat \ {0}, step : Steps]]
  /\ kills \in 0 .. MaxRunnerExits

MigrationsInit ==
  /\ history = {} /\ effects = <<>>
  /\ runner = [p \in Runners |-> [plan |-> 1, at |-> 1, step |-> "idle"]]
  /\ kills = 0

\* base-system first, then the modules by their codes: the order of Plans
Plan(p) == Plans[runner[p].plan]
Current(p) == Plan(p)[runner[p].at]
Recorded(id) == {row \in history : row.id = id}

\* Mutant: the checksum of what was applied is not compared.
NamedAlike(p) == Recorded(Current(p).id) # {}

Applied(p) == Recorded(Current(p).id) = {Current(p)}
Moves(p, step) == runner' = [runner EXCEPT ![p].step = step]

-----------------------------------------------------------------------------
StartRunner(p, k) ==
  /\ runner[p].step \in {"idle", "done", "failed"}
  /\ runner' = [runner EXCEPT ![p] = [plan |-> k, at |-> 1, step |-> "looking"]]
  /\ UNCHANGED <<history, effects, kills>>

\* Everything of the release has been looked at.
Finish(p) ==
  /\ runner[p].step = "looking" /\ runner[p].at > Len(Plan(p))
  /\ Moves(p, "done")
  /\ UNCHANGED <<history, effects, kills>>

\* The migration is looked up by its id: on SQLite before its transaction
\* begins, on PostgreSQL in it, at READ COMMITTED.
Look(p) ==
  /\ runner[p].step = "looking" /\ runner[p].at <= Len(Plan(p))
  /\ IF Recorded(Current(p).id) = {} THEN Moves(p, "pending")
     ELSE IF Applied(p)
       THEN runner' = [runner EXCEPT ![p].at = @ + 1]
       ELSE Moves(p, "failed")     \* assertAppliedMigration
  /\ UNCHANGED <<history, effects, kills>>

\* The SQL runs and the row is inserted; nobody sees either before COMMIT.
\* An insert of the same name waits for the other transaction.
Holders(id) == {q \in Runners : runner[q].step = "written" /\ Current(q).id = id}

Execute(p) ==
  /\ runner[p].step = "pending" /\ Holders(Current(p).id) = {}
  /\ IF Recorded(Current(p).id) # {} THEN Moves(p, "failed")   \* a duplicate name: ROLLBACK
     ELSE Moves(p, "written")
  /\ UNCHANGED <<history, effects, kills>>

Commit(p) ==
  /\ runner[p].step = "written"
  /\ history' = history \cup {Current(p)}
  /\ effects' = Append(effects, Current(p))
  /\ runner' = [runner EXCEPT ![p].step = "looking", ![p].at = @ + 1]
  /\ UNCHANGED kills

\* SQL that fails on this database, a killed process or a lost connection: the
\* transaction is rolled back.
Abort(p) ==
  /\ runner[p].step \in {"looking", "pending", "written"} /\ kills < MaxRunnerExits
  /\ kills' = kills + 1
  /\ Moves(p, "failed")
  /\ UNCHANGED <<history, effects>>

\* One SQLite database has one writer: what it does in a transaction is atomic.
OneWriter == SchemaDialect = "sqlite" => \A q \in Runners : runner[q].step # "written"

MigrationsNext ==
  \E p \in Runners :
    \/ \E k \in 1 .. Len(Plans) : StartRunner(p, k)
    \/ Finish(p) \/ Look(p) \/ Abort(p)
    \/ Execute(p) /\ OneWriter
    \/ Commit(p)

MigrationsSpec == MigrationsInit /\ [][MigrationsNext]_migrationVars

-----------------------------------------------------------------------------
(* Properties.                                                              *)

\* However many operators run the command, the SQL of a migration takes effect
\* once, and exactly when the history says so.
EffectsAreRecordedOnce ==
  /\ \A i, j \in 1 .. Len(effects) : effects[i].id = effects[j].id => i = j
  /\ history = {effects[i] : i \in 1 .. Len(effects)}

Before(m, n, effective) ==
  \E i, j \in 1 .. Len(effective) : i < j /\ effective[i] = m /\ effective[j] = n

\* A run that ended well leaves the release's migrations applied as they are
\* written, those of one source in their order; what other releases, older or
\* newer, are applying at the same time does not disturb it.
FinishedRunsAreComplete ==
  \A p \in Runners : runner[p].step = "done" =>
    /\ \A i \in 1 .. Len(Plan(p)) : Plan(p)[i] \in history
    /\ \A i, j \in 1 .. Len(Plan(p)) :
         i < j /\ Plan(p)[i].source = Plan(p)[j].source => Before(Plan(p)[i], Plan(p)[j], effects)

\* The history can be trusted, by the operators and by the next release.
HistoryIsTrue == MigrationsTypeOK /\ EffectsAreRecordedOnce /\ FinishedRunsAreComplete
=============================================================================
