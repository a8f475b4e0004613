----------------------------- MODULE Migrations -----------------------------
(***************************************************************************)
(* runMigrations of internal/store/mysql.go, run by every process before   *)
(* it uses the database: under a lock, a database that an earlier release  *)
(* migrated with another tool (schema_migrations, one row) is first        *)
(* registered in goose's table, one insert per version, and goose then     *)
(* runs what is not registered.  goose, its lock and MySQL are external:   *)
(* statements are atomic, a migration and the row that registers it are    *)
(* two statements, the lock of a dead process expires.                     *)
(***************************************************************************)
EXTENDS Naturals

CONSTANTS
  Processes,    \* processes that start on one database
  LastVersion,  \* migrations are numbered 1..LastVersion
  UpAttempts,   \* attempts of retryWithBackoff (5)
  MaxStops,     \* bound: failing statements and crashes
  NoTable       \* a table that does not exist

Versions == 1..LastVersion

\* A table that does not exist is neither a set of versions nor a legacy row.
ASSUME MigrateAssumption ==
  /\ LastVersion \in Nat
  /\ \A S \in SUBSET Versions : S # NoTable
  /\ \A v \in Versions, d \in BOOLEAN : [version |-> v, dirty |-> d] # NoTable

VARIABLES
  goose,      \* versions in goose_db_version
  legacy,     \* the row of schema_migrations
  locked,     \* the process that holds the lock, as a set
  proc,       \* the processes
  ran,        \* how often each migration has been run
  torn,       \* an insert was left out: a crash or an error between two statements
  stops

schema == <<goose, legacy, locked, proc, ran, torn, stops>>

Starting == [pc |-> "lock", next |-> 1, tries |-> 0]

\* The database is new, or an earlier release has migrated it up to some version.
MigrateInit ==
  /\ goose = NoTable /\ locked = {} /\ torn = FALSE /\ stops = 0
  /\ proc = [p \in Processes |-> Starting]
  /\ \/ legacy = NoTable /\ ran = [v \in Versions |-> 0]
     \/ \E v \in Versions, d \in BOOLEAN :
          legacy = [version |-> v, dirty |-> d] /\ ran = [w \in Versions |-> IF w <= v THEN 1 ELSE 0]

Pc(p, c) == proc[p].pc = c
Turn(p, c) == proc' = [proc EXCEPT ![p].pc = c]
Stopping == stops < MaxStops /\ stops' = stops + 1

\* Both tools go through the versions in their order.
Oldest(S) == {v \in S : \A w \in S : v <= w}

Lock(p) ==
  /\ Pc(p, "lock") /\ locked = {}
  /\ locked' = {p} /\ Turn(p, "seed")
  /\ UNCHANGED <<goose, legacy, ran, torn, stops>>

-----------------------------------------------------------------------------
(* seedLegacyMigrations.                                                    *)

\* Nothing to seed: there is no legacy table, or goose's table has a version.
Seeded == legacy = NoTable \/ (goose # NoTable /\ goose # {})

SeedCheck(p) ==
  /\ Pc(p, "seed")
  /\ IF Seeded THEN Turn(p, "up") /\ UNCHANGED <<goose, locked>>
     ELSE IF legacy.dirty THEN Turn(p, "failed") /\ locked' = {} /\ UNCHANGED goose
     ELSE Turn(p, "insert") /\ goose' = {} /\ UNCHANGED locked
  /\ UNCHANGED <<legacy, ran, torn, stops>>

\* Variant: the version the legacy row names is left to goose.
SeedBelow == {v \in Versions : v < legacy.version}

\* Variant: every version is registered.
SeedEverything == Versions

SeedVersions == {v \in Versions : v <= legacy.version}

SeedInsert(p) ==
  /\ Pc(p, "insert")
  /\ LET left == {v \in SeedVersions : v >= proc[p].next}
     IN  IF left = {} THEN Turn(p, "up") /\ UNCHANGED goose
         ELSE \E v \in Oldest(left) :
                goose' = goose \cup {v} /\ proc' = [proc EXCEPT ![p].next = v + 1]
  /\ UNCHANGED <<legacy, locked, ran, torn, stops>>

-----------------------------------------------------------------------------
(* provider.Up.                                                             *)

Registered == IF goose = NoTable THEN {} ELSE goose

\* The oldest migration goose does not know is run, and then registered.
UpRun(p) ==
  /\ Pc(p, "up")
  /\ LET left == Versions \ Registered
     IN  IF left = {} THEN Turn(p, "ready") /\ locked' = {} /\ UNCHANGED <<goose, ran>>
         ELSE /\ goose' = Registered /\ Turn(p, "register") /\ UNCHANGED locked
              /\ \E v \in Oldest(left) : ran' = [ran EXCEPT ![v] = @ + 1]
  /\ UNCHANGED <<legacy, torn, stops>>

UpRegister(p) ==
  /\ Pc(p, "register")
  /\ \E v \in Oldest(Versions \ goose) : goose' = goose \cup {v}
  /\ Turn(p, "up")
  /\ UNCHANGED <<legacy, locked, ran, torn, stops>>

-----------------------------------------------------------------------------
(* Errors and crashes.                                                      *)

\* Where leaving loses an insert: between the inserts of the seeding, once the first
\* is made, and between a migration and its registration.
Tearing(p) ==
  \/ Pc(p, "insert") /\ goose # {} /\ ~(SeedVersions \subseteq goose)
  \/ Pc(p, "register")

\* A statement of Up fails and is tried again with the rest; the process gives up
\* after the last attempt, and at once when the seeding fails.
StatementFails(p) ==
  /\ proc[p].pc \in {"seed", "insert", "up", "register"} /\ Stopping
  /\ torn' = (torn \/ Tearing(p))
  /\ IF proc[p].pc \in {"up", "register"} /\ proc[p].tries + 1 < UpAttempts
       THEN /\ proc' = [proc EXCEPT ![p] = [@ EXCEPT !.pc = "up", !.tries = proc[p].tries + 1]]
            /\ UNCHANGED locked
       ELSE Turn(p, "failed") /\ locked' = {}
  /\ UNCHANGED <<goose, legacy, ran>>

Die(p) ==
  /\ proc[p].pc \notin {"ready", "failed"} /\ Stopping
  /\ torn' = (torn \/ Tearing(p)) /\ Turn(p, "failed")
  /\ UNCHANGED <<goose, legacy, locked, ran>>

\* The lock of a process that is gone expires, and the process is started again.
Revive(p) ==
  /\ Pc(p, "failed")
  /\ proc' = [proc EXCEPT ![p] = Starting] /\ locked' = locked \ {p}
  /\ UNCHANGED <<goose, legacy, ran, torn, stops>>

MigrateStep(p) ==
  Lock(p) \/ SeedCheck(p) \/ SeedInsert(p) \/ UpRun(p) \/ UpRegister(p)
MigrateNext == \E p \in Processes : MigrateStep(p) \/ StatementFails(p) \/ Die(p) \/ Revive(p)

MigrateSpec == MigrateInit /\ [][MigrateNext]_schema

-----------------------------------------------------------------------------
(* Properties.                                                              *)

\* A migration that has been run, by an earlier release or by any process, is not run
\* again, unless an error or a crash came between two inserts of the seeding or
\* between a migration and its registration: a database whose seeding was torn has a
\* version, so that no later start completes it.
MigratedOnce == torn \/ \A v \in Versions : ran[v] <= 1

\* A process that goes on to use the database finds every migration run, whoever ran
\* them and however many starts it took.
SchemaComplete == \A p \in Processes : Pc(p, "ready") => \A v \in Versions : ran[v] >= 1

=============================================================================
