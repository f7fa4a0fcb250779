------------------------------ MODULE Startup ------------------------------
(***************************************************************************)
(* Servers that start on one database: create_store brings the schema up   *)
(* to date, migration by migration, in statements that commit one by one   *)
(* (src/ipam/mod.rs, the migrate functions and the migrations of the       *)
(* stores).  A server may crash between any two of them, and several may   *)
(* start at once.                                                          *)
(***************************************************************************)
EXTENDS Integers, Sequences, FiniteSets, FiniteSetsExt

CONSTANTS
    Servers,
    Objects,     \* tables, columns, indexes
    MIGRATIONS,  \* each a sequence of statements; its version is its index
    Required,    \* tables that validate_schema asks for; none for SQLite
    MaxCrashes   \* bound on the servers that crash

\* DROP and CREATE or ADD COLUMN; what it names must exist, and unless it says
\* IF NOT EXISTS what it adds must not.
Statement ==
    [on : SUBSET Objects, drop : SUBSET Objects, add : SUBSET Objects, lenient : BOOLEAN]

ASSUME MigrationsAssumption == MIGRATIONS \in Seq(Seq(Statement))
ASSUME RequiredAssumption == Required \subseteq Objects
ASSUME NobodyAssumption == "nobody" \notin Servers
ASSUME MaxCrashesAssumption == MaxCrashes \in Nat

Versions == 1 .. Len(MIGRATIONS)

VARIABLES
    objects,     \* what the database holds
    recorded,    \* schema_version: who recorded a version, or "nobody"
    executed,    \* history: the statements that have run, <<version, index>>
    pc,          \* where each server is
    at,          \* its version and the next statement of it
    crashes

schema == <<objects, recorded, executed>>
startup == <<schema, pc, at, crashes>>

Stopped == <<0, 1>>

StartupInit ==
    /\ objects = {} /\ executed = {} /\ crashes = 0
    /\ recorded = [v \in Versions |-> "nobody"]
    /\ pc = [s \in Servers |-> "down"]
    /\ at = [s \in Servers |-> Stopped]

Goto(s, where) == pc' = [pc EXCEPT ![s] = where]

\* create_store returns an error and the process ends; it is started again.
Die(s) ==
    /\ Goto(s, "down")
    /\ at' = [at EXCEPT ![s] = Stopped]

-----------------------------------------------------------------------------
(* migrate.                                                                 *)

RecordedVersions == {v \in Versions : recorded[v] # "nobody"}

current == Max({0} \cup RecordedVersions)

\* The version is read once.
ReadVersion(s) ==
    /\ pc[s] = "down"
    /\ at' = [at EXCEPT ![s] = <<current + 1, 1>>]
    /\ Goto(s, "migrating")
    /\ UNCHANGED <<schema, crashes>>

Running(s) == pc[s] = "migrating" /\ at[s][1] \in Versions
Statements(s) == MIGRATIONS[at[s][1]]

Succeeds(statement) ==
    /\ statement.on \subseteq objects
    /\ statement.lenient \/ statement.add \cap objects = {}

\* Mutant of Execute: a statement that fails is passed over.
ExecuteLax(s) ==
    /\ Running(s) /\ at[s][2] <= Len(Statements(s))
    /\ at' = [at EXCEPT ![s][2] = @ + 1]
    /\ IF Succeeds(Statements(s)[at[s][2]])
       THEN /\ objects' = (objects \ Statements(s)[at[s][2]].drop) \cup Statements(s)[at[s][2]].add
            /\ executed' = executed \cup {at[s]}
       ELSE UNCHANGED <<objects, executed>>
    /\ UNCHANGED <<recorded, pc, crashes>>

\* The next statement commits.
Execute(s) ==
    /\ Running(s) /\ at[s][2] <= Len(Statements(s))
    /\ LET statement == Statements(s)[at[s][2]] IN
        /\ Succeeds(statement)
        /\ objects' = (objects \ statement.drop) \cup statement.add
        /\ executed' = executed \cup {at[s]}
    /\ at' = [at EXCEPT ![s][2] = @ + 1]
    /\ UNCHANGED <<recorded, pc, crashes>>

Finished(s) == Running(s) /\ at[s][2] > Len(Statements(s))

NextVersion(s) ==
    /\ at' = [at EXCEPT ![s] = <<@[1] + 1, 1>>]
    /\ UNCHANGED <<objects, executed, pc, crashes>>

\* INSERT INTO schema_version; the version is its primary key.
Record(s) ==
    /\ Finished(s) /\ recorded[at[s][1]] = "nobody"
    /\ recorded' = [recorded EXCEPT ![at[s][1]] = s]
    /\ NextVersion(s)

\* A statement fails, or somebody else has recorded the version.
MigrateFails(s) ==
    /\ \/ Running(s) /\ at[s][2] <= Len(Statements(s)) /\ ~ Succeeds(Statements(s)[at[s][2]])
       \/ Finished(s) /\ recorded[at[s][1]] # "nobody"
    /\ Die(s)
    /\ UNCHANGED <<schema, crashes>>

Migrated(s) == pc[s] = "migrating" /\ at[s][1] \notin Versions

ValidateSchema(s) ==
    /\ Migrated(s)
    /\ IF Required \subseteq objects THEN Goto(s, "up") /\ UNCHANGED at ELSE Die(s)
    /\ UNCHANGED <<schema, crashes>>

\* The process is killed, or loses its database.
Crash(s) ==
    /\ pc[s] # "down" /\ crashes < MaxCrashes
    /\ crashes' = crashes + 1
    /\ Die(s)
    /\ UNCHANGED schema

StartupStep(s) ==
    \/ ReadVersion(s) \/ Execute(s) \/ Record(s) \/ MigrateFails(s) \/ ValidateSchema(s)
    \/ Crash(s)

-----------------------------------------------------------------------------
(* Properties.                                                              *)

\* The recorded versions have no gap and each of them ran to its end, whoever
\* crashed or raced on the way: MAX(version) stands for all that is below it.
RecordedInOrder ==
    \A v \in RecordedVersions :
        /\ 1 .. v \subseteq RecordedVersions
        /\ \A i \in DOMAIN MIGRATIONS[v] : <<v, i>> \in executed
=============================================================================
