------------------------------ MODULE SchemaOpen ------------------------------
(***************************************************************************)
(* Several processes open one database file at once (drivers/sqlite.ts,    *)
(* open and migrate): the one-time switch of the file to WAL, which SQLite *)
(* may refuse at once while a peer is at work, and the migrations, which   *)
(* an older and a newer binary may both have to apply.  Any process may    *)
(* die; what its transaction had not committed is rolled back by SQLite.   *)
(***************************************************************************)
EXTENDS Naturals, Sequences, Functions

CONSTANTS Starters,     \* processes
          NoStarter,
          Latest,       \* bound: the newest schema version of any binary
          MaxTries      \* attempts to switch to WAL before giving up (20 in the code)

ASSUME SchemaAssumption == NoStarter \notin Starters /\ Latest \in Nat /\ MaxTries \in Nat \ {0}

VARIABLES
  fileMode,   \* journal_mode in the header: delete or wal
  schema,     \* what a connection under the lock sees: see Schemas
  durableSchema, \* what a rollback returns to
  migrator,   \* the process in a write transaction
  doing,      \* doing[p]: where process p is
  knows,      \* knows[p]: latestVersion() of its binary
  pending,    \* pending[p]: migrations it has still to apply
  tries       \* tries[p]: refused attempts to switch

schemaVars == <<fileMode, schema, durableSchema, migrator, doing, knows, pending, tries>>
fileVars == <<fileMode, schema, durableSchema, migrator>>

(* The meta table, its schema_version, and the migrations applied so far.  *)
Versions == 0..Latest
Migrations == UNION {[1..k -> Versions] : k \in Versions}
Schemas == [meta : BOOLEAN, version : Versions, applied : Migrations]
NoSchema == [meta |-> FALSE, version |-> 0, applied |-> <<>>]

Doings == {"away", "opens", "switches", "rereads", "creates meta", "begins",
           "migrates", "open", "busy", "duplicate"}

SchemaTypeOK ==
  /\ fileMode \in {"delete", "wal"} /\ schema \in Schemas /\ durableSchema \in Schemas
  /\ migrator \in Starters \cup {NoStarter} /\ doing \in [Starters -> Doings]
  /\ knows \in [Starters -> Versions] /\ pending \in [Starters -> Migrations]
  /\ tries \in [Starters -> 0..MaxTries]

SchemaInit ==
  /\ fileMode = "delete" /\ schema = NoSchema /\ durableSchema = NoSchema /\ migrator = NoStarter
  /\ doing = [p \in Starters |-> "away"] /\ knows = [p \in Starters |-> 0]
  /\ pending = [p \in Starters |-> <<>>] /\ tries = [p \in Starters |-> 0]

-----------------------------------------------------------------------------
(* Waits of this long are given up: the busy timeout, and the retries.     *)
Unlocked == migrator = NoStarter
Elsewhere(p) == \E q \in Starters \ {p} : doing[q] \notin {"away", "busy", "duplicate"}

Goes(p, place) ==
  /\ doing' = [doing EXCEPT ![p] = place]
  /\ UNCHANGED <<knows, pending, tries>>

(* A process starts, with whichever binary is installed now.               *)
Start(p) ==
  /\ doing[p] \in {"away", "open", "busy", "duplicate"}
  /\ \E v \in Versions \ {0} : knows' = [knows EXCEPT ![p] = v]
  /\ doing' = [doing EXCEPT ![p] = "opens"] /\ tries' = [tries EXCEPT ![p] = 0]
  /\ UNCHANGED <<fileVars, pending>>

ReadMode(p) ==
  /\ doing[p] = "opens"
  /\ Goes(p, IF fileMode = "wal" THEN "creates meta" ELSE "switches")
  /\ UNCHANGED fileVars

SwitchToWal(p) ==
  /\ doing[p] = "switches" /\ (Unlocked \/ fileMode = "wal")
  /\ fileMode' = "wal" /\ Goes(p, "creates meta")
  /\ UNCHANGED <<schema, durableSchema, migrator>>

SwitchRefused(p) ==
  /\ doing[p] = "switches" /\ fileMode # "wal" /\ Elsewhere(p)
  /\ Goes(p, "rereads") /\ UNCHANGED fileVars

(* The re-read may itself be refused: then, too, the attempt counts.       *)
SiblingSwitched(p) ==
  /\ doing[p] = "rereads" /\ fileMode = "wal"
  /\ Goes(p, "creates meta") /\ UNCHANGED fileVars

TryAgain(p) ==
  /\ doing[p] = "rereads" /\ (fileMode # "wal" \/ Elsewhere(p))
  /\ tries' = [tries EXCEPT ![p] = @ + 1]
  /\ doing' = [doing EXCEPT ![p] = IF tries[p] + 1 >= MaxTries THEN "busy" ELSE "switches"]
  /\ UNCHANGED <<fileVars, knows, pending>>

-----------------------------------------------------------------------------
CreateMeta(p) ==
  /\ doing[p] = "creates meta" /\ Unlocked
  /\ schema' = [schema EXCEPT !.meta = TRUE] /\ durableSchema' = schema'
  /\ Goes(p, "begins") /\ UNCHANGED <<fileMode, migrator>>

GiveUpWaiting(p) ==
  /\ doing[p] \in {"creates meta", "begins"} /\ ~Unlocked
  /\ Goes(p, "busy") /\ UNCHANGED fileVars

PendingMigrations(current, latest) == [i \in 1..(IF latest > current THEN latest - current ELSE 0)
                                         |-> current + i]

(* Mutant: the version is read before the lock is held.                    *)
BeginsUnlocked(p) == doing[p] = "begins"
(* BEGIN IMMEDIATE: nobody else is in a write transaction.                 *)
Begins(p) == doing[p] = "begins" /\ Unlocked

BeginMigrate(p) ==
  /\ Begins(p)
  /\ migrator' = p /\ doing' = [doing EXCEPT ![p] = "migrates"]
  /\ pending' = [pending EXCEPT ![p] = PendingMigrations(schema.version, knows[p])]
  /\ UNCHANGED <<fileMode, schema, durableSchema, knows, tries>>

(* The DDL of a migration that is there already throws.                    *)
ApplyMigration(p) ==
  /\ doing[p] = "migrates" /\ pending[p] # <<>>
  /\ LET v == Head(pending[p])
     IN  IF v \in Range(schema.applied)
           THEN /\ schema' = durableSchema /\ migrator' = NoStarter
                /\ doing' = [doing EXCEPT ![p] = "duplicate"]
                /\ pending' = [pending EXCEPT ![p] = <<>>]
           ELSE /\ schema' = [schema EXCEPT !.version = v, !.applied = Append(@, v)]
                /\ pending' = [pending EXCEPT ![p] = Tail(@)]
                /\ UNCHANGED <<migrator, doing>>
  /\ UNCHANGED <<fileMode, durableSchema, knows, tries>>

CommitMigrate(p) ==
  /\ doing[p] = "migrates" /\ pending[p] = <<>>
  /\ durableSchema' = schema /\ migrator' = NoStarter
  /\ Goes(p, "open") /\ UNCHANGED <<fileMode, schema>>

Die(p) ==
  /\ doing[p] # "away"
  /\ IF migrator = p THEN schema' = durableSchema /\ migrator' = NoStarter
                     ELSE UNCHANGED <<schema, migrator>>
  /\ doing' = [doing EXCEPT ![p] = "away"] /\ pending' = [pending EXCEPT ![p] = <<>>]
  /\ UNCHANGED <<fileMode, durableSchema, knows, tries>>

SchemaNext ==
  \E p \in Starters :
    \/ Start(p) \/ ReadMode(p) \/ SwitchToWal(p) \/ SwitchRefused(p) \/ SiblingSwitched(p)
    \/ TryAgain(p) \/ CreateMeta(p) \/ GiveUpWaiting(p) \/ BeginMigrate(p)
    \/ ApplyMigration(p) \/ CommitMigrate(p) \/ Die(p)

SchemaSpec == SchemaInit /\ [][SchemaNext]_schemaVars

-----------------------------------------------------------------------------
(* Whoever races whom and whoever dies, no opening trips over a peer's     *)
(* tables; the migrations that are durable are a prefix of all of them,    *)
(* each applied once and in order, and schema_version says which; and an   *)
(* open store is in WAL mode and has every migration its binary knows,     *)
(* whatever a newer one has added (drivers/sqlite.ts, migrate).            *)
MigratedOnce ==
  /\ durableSchema.applied = [i \in 1..durableSchema.version |-> i]
  /\ \A p \in Starters : /\ doing[p] # "duplicate"
                         /\ doing[p] = "open" => /\ fileMode = "wal" /\ durableSchema.meta
                                              /\ knows[p] <= durableSchema.version
=============================================================================
