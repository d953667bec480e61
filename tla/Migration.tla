------------------------------ MODULE Migration ------------------------------
(***************************************************************************)
(* The start of huntarr2 on its database: internal/database/migrate.go and *)
(* the two scripts of internal/database/migrations.                        *)
(*                                                                         *)
(* The first script runs in a transaction, the second, which rebuilds the  *)
(* instances table, outside of one: a process that is killed, or a         *)
(* statement that fails, leaves the statements before it done.  The next   *)
(* start runs the script again from its beginning, as long as its version  *)
(* is not recorded.  line is the statement to run next.                    *)
(***************************************************************************)
EXTENDS Naturals

CONSTANTS
  Id,          \* instances
  AppTypes     \* application types in use before the second script

ASSUME AppTypesAssumption == AppTypes \subseteq {"sonarr", "radarr", "lidarr", "whisparr"}

VARIABLES
  tables,      \* the instances table and its new form: the rows of those that exist
  attached,    \* which of its index and its trigger the instances table has
  referring,   \* instances with rows in settings or search_cooldowns
  version,     \* the last migration recorded in goose_db_version
  foreignKeys, \* PRAGMA foreign_keys of the connection
  line,
  \* history, read by properties only
  original     \* what the database held at first

migrationVars == <<tables, attached, referring, version, foreignKeys, line, original>>

-----------------------------------------------------------------------------
NoRows == [i \in {} |-> "sonarr"]

Attachments == {"index", "trigger"}

newTypes == {"sonarr", "radarr", "lidarr", "whisparr-v2", "whisparr-v3"}

\* CASE app_type WHEN 'whisparr' THEN 'whisparr-v2' ELSE app_type END
split(table) ==
  [i \in DOMAIN table |-> IF table[i] = "whisparr" THEN "whisparr-v2" ELSE table[i]]

\* A new database, or one that the former version of the program has used.
MigrationInit ==
  /\ line = "down"
  /\ foreignKeys = FALSE
  /\ \/ /\ version = 0
        /\ tables = [n \in {} |-> NoRows]
        /\ attached = {}
        /\ original = [rows |-> NoRows, referring |-> {}]
     \/ /\ version = 1
        /\ \E ids \in SUBSET Id : \E r \in [ids -> AppTypes], refs \in SUBSET ids :
             original = [rows |-> r, referring |-> refs]
        /\ tables = [n \in {"instances"} |-> original.rows]
        /\ attached = Attachments
  /\ referring = original.referring

Run(here, there) == line = here /\ line' = there

\* Open sets the pragmas of the connection, Migrate runs what is not recorded.
Open ==
  /\ Run("down", CASE version = 0 -> "schema" [] version = 1 -> "off" [] OTHER -> "up")
  /\ foreignKeys' = TRUE
  /\ UNCHANGED <<tables, attached, referring, version, original>>

\* Script 001 and its version, in one transaction.
InitialSchema ==
  /\ Run("schema", "off")
  /\ tables' = [n \in {"instances"} |-> NoRows]
  /\ attached' = Attachments
  /\ version' = 1
  /\ UNCHANGED <<referring, foreignKeys, original>>

-----------------------------------------------------------------------------
(* Script 002 *)

\* Mutant: in a transaction, where the pragma has no effect.
ForeignKeysOffIgnored ==
  /\ Run("off", "create")
  /\ UNCHANGED <<tables, attached, referring, version, foreignKeys, original>>

ForeignKeysOff ==
  /\ Run("off", "create")
  /\ foreignKeys' = FALSE
  /\ UNCHANGED <<tables, attached, referring, version, original>>

\* Fails when an earlier start has left the new table behind.
CreateNew ==
  /\ Run("create", "copy")
  /\ "instances_new" \notin DOMAIN tables
  /\ tables' = [n \in DOMAIN tables \cup {"instances_new"} |->
                 IF n = "instances_new" THEN NoRows ELSE tables[n]]
  /\ UNCHANGED <<attached, referring, version, foreignKeys, original>>

CopyRows ==
  /\ Run("copy", "drop")
  /\ "instances" \in DOMAIN tables
  /\ LET copy == split(tables["instances"])
     IN  /\ \A i \in DOMAIN copy : copy[i] \in newTypes
         /\ tables' = [tables EXCEPT !["instances_new"] = copy]
  /\ UNCHANGED <<attached, referring, version, foreignKeys, original>>

\* With foreign keys enforced, dropping a table deletes its rows first, and what
\* refers to them goes along.
DropOld ==
  /\ Run("drop", "rename")
  /\ tables' = [n \in DOMAIN tables \ {"instances"} |-> tables[n]]
  /\ attached' = {}
  /\ referring' = IF foreignKeys THEN {} ELSE referring
  /\ UNCHANGED <<version, foreignKeys, original>>

Rename ==
  /\ Run("rename", "index")
  /\ "instances" \notin DOMAIN tables
  /\ tables' = [n \in {"instances"} |-> tables["instances_new"]]
  /\ UNCHANGED <<attached, referring, version, foreignKeys, original>>

Attach(what) ==
  /\ what \notin attached
  /\ attached' = attached \cup {what}
  /\ UNCHANGED <<tables, referring, version, foreignKeys, original>>

CreateIndex == Run("index", "trigger") /\ Attach("index")

CreateTrigger == Run("trigger", "on") /\ Attach("trigger")

ForeignKeysOn ==
  /\ Run("on", "record")
  /\ foreignKeys' = TRUE
  /\ UNCHANGED <<tables, attached, referring, version, original>>

RecordVersion ==
  /\ Run("record", "up")
  /\ version' = 2
  /\ UNCHANGED <<tables, attached, referring, foreignKeys, original>>

-----------------------------------------------------------------------------
\* A statement fails and the process ends, or it ends in any other way.
Stop ==
  /\ line # "down"
  /\ line' = "down"
  /\ foreignKeys' = FALSE
  /\ UNCHANGED <<tables, attached, referring, version, original>>

MigrationNext ==
  \/ Open \/ InitialSchema
  \/ ForeignKeysOff \/ CreateNew \/ CopyRows \/ DropOld \/ Rename
  \/ CreateIndex \/ CreateTrigger \/ ForeignKeysOn \/ RecordVersion
  \/ Stop

MigrationSpec == MigrationInit /\ [][MigrationNext]_migrationVars

-----------------------------------------------------------------------------
\* What the rest of the program relies on: one table with its index and its trigger,
\* every row with a type that this version knows, and foreign keys enforced again.
Migrated ==
  /\ DOMAIN tables = {"instances"}
  /\ tables["instances"] = split(original.rows)
  /\ attached = Attachments
  /\ foreignKeys

\* Wherever the script is interrupted, and however often it is run again, every
\* instance is in one of the two tables, as it was or as it should become, and keeps
\* its settings and cooldowns, so that what a stuck migration leaves can be repaired;
\* and no request is served on a database that is half migrated.
UpgradeLosesNothing ==
  /\ \A i \in DOMAIN original.rows : \E n \in DOMAIN tables :
       /\ i \in DOMAIN tables[n]
       /\ tables[n][i] \in {original.rows[i], split(original.rows)[i]}
  /\ referring = original.referring
  /\ line = "up" => Migrated
=============================================================================
