----------------------------- MODULE SchemaHistory -----------------------------
(* How a deployment walks the revisions of its database. The demo stack's API     *)
(* container runs "alembic upgrade head && uvicorn"; env.py runs all revisions of *)
(* one command in one transaction. Whether the database it leaves is the one      *)
(* models/entities.py declares decides whether any other module of this project   *)
(* describes what runs.                                                           *)
(*                                                                                *)
(* A schema is what can differ between the two: how many columns a table has, the *)
(* unique keys, and how many labels an enumeration type of the database has.      *)
(* Other indexes, nullability and widths of columns are left out.                 *)
EXTENDS Integers, Sequences, FiniteSets, Functions

CONSTANTS
    Revisions,            \* one after the other, as their down_revision names them
    Declared,             \* the schema that the models declare
    MaxCommands           \* bound: commands an operator gives

VARIABLES
    version,      \* alembic_version: how many revisions have been applied
    database,     \* [columns, unique, types]
    serving,      \* the API answers
    commands      \* bound

schemaVars == <<version, database, serving, commands>>

Vacant == [columns |-> [t \in {} |-> 0], unique |-> {}, types |-> [t \in {} |-> 0]]
Latest == Len(Revisions)

-------------------------------------------------------------------------------
(* One revision's upgrade: a table or a type that exists, or a table that is not  *)
(* there, makes the database refuse. A type is created without asking unless the  *)
(* revision asks itself.                                                          *)
Applies(r, db) ==
    /\ DOMAIN r.creates \cap DOMAIN db.columns = {}
    /\ r.needs \cup DOMAIN r.adds \subseteq DOMAIN db.columns
    /\ r.checks \/ DOMAIN r.types \cap DOMAIN db.types = {}
    /\ DOMAIN r.labels \subseteq DOMAIN db.types
    /\ r.unique \cap db.unique = {}

(* One function, and another where the first has nothing.                         *)
Over(f, g) == [x \in DOMAIN f \cup DOMAIN g |-> IF x \in DOMAIN f THEN f[x] ELSE g[x]]
Grown(columns, adds) ==
    [t \in DOMAIN columns |-> columns[t] + (IF t \in DOMAIN adds THEN adds[t] ELSE 0)]
Applied(r, db) ==
    [columns |-> Over(Grown(db.columns, r.adds), r.creates),
     unique |-> db.unique \cup r.unique,
     types |-> Over(r.labels, Over(db.types, r.types))]

(* Mutant: the columns of a revision that is taken back stay.                     *)
TakenBack_ColumnsStay(r, db) ==
    [columns |-> [t \in DOMAIN db.columns \ DOMAIN r.creates |-> db.columns[t]],
     unique |-> db.unique \ r.unique,
     types |-> IF r.checks THEN Restrict(db.types, DOMAIN db.types \ DOMAIN r.types) ELSE db.types]

(* One revision's downgrade: its tables go with their keys; a type that came with *)
(* a table stays, one the revision created itself goes.                           *)
TakenBack(r, db) ==
    [columns |-> [t \in DOMAIN db.columns \ DOMAIN r.creates |->
                      db.columns[t] - (IF t \in DOMAIN r.adds THEN r.adds[t] ELSE 0)],
     unique |-> db.unique \ r.unique,
     types |-> IF r.checks THEN Restrict(db.types, DOMAIN db.types \ DOMAIN r.types) ELSE db.types]

(* What a walk from a version leaves at each later one, and whether a revision     *)
(* was refused on the way; what is left at each earlier one.                      *)
Stepped(so, r) == [done |-> so.done /\ Applies(r, so.db), db |-> Applied(r, so.db)]
Walked(db, from) ==
    LET so[v \in from..Latest] == IF v = from THEN [done |-> TRUE, db |-> db] ELSE Stepped(so[v - 1], Revisions[v])
    IN  so
WalkedBack(db, from) ==
    LET so[v \in 0..from] == IF v = from THEN db ELSE TakenBack(Revisions[v + 1], so[v + 1])
    IN  so
SchemaAt(v) == Walked(Vacant, 0)[v].db

(* The revisions fit: on a database that never went back each finds what it needs *)
(* and nothing that it makes, and the last leaves what the models declare. A type *)
(* is relabelled to what the models declare, and only the first revision creates   *)
(* types without asking.                                                          *)
ASSUME RevisionsAreTables ==
    /\ Latest \in Nat \ {0}
    /\ \A v \in 1..Latest :
        /\ Revisions[v].checks \in BOOLEAN
        /\ \A what \in {Revisions[v].creates, Revisions[v].adds, Revisions[v].types, Revisions[v].labels} :
            what \in [DOMAIN what -> Nat]
ASSUME RevisionsFit ==
    \A v \in 1..Latest :
        /\ Applies(Revisions[v], SchemaAt(v - 1))
        /\ DOMAIN Revisions[v].types \cap DOMAIN SchemaAt(v - 1).types = {}
        /\ \A t \in DOMAIN Revisions[v].labels : Revisions[v].labels[t] = Declared.types[t]
        /\ IF v = 1 THEN ~Revisions[v].checks /\ DOMAIN Revisions[v].types # {}
           ELSE Revisions[v].checks \/ DOMAIN Revisions[v].types = {}
ASSUME LastIsDeclared == SchemaAt(Latest) = Declared

-------------------------------------------------------------------------------
SchemaInit ==
    /\ version = 0
    /\ database = Vacant
    /\ serving = FALSE
    /\ commands = 0

(* alembic upgrade: everything up to the target, or nothing.                      *)
Upgrade(to) ==
    /\ ~serving /\ commands < MaxCommands
    /\ to \in (version + 1)..Latest
    /\ LET walk == Walked(database, version)[to]
       IN  IF walk.done THEN version' = to /\ database' = walk.db
           ELSE UNCHANGED <<version, database>>
    /\ commands' = commands + 1
    /\ UNCHANGED serving

Downgrade(to) ==
    /\ ~serving /\ commands < MaxCommands
    /\ to \in 0..(version - 1)
    /\ version' = to /\ database' = WalkedBack(database, version)[to]
    /\ commands' = commands + 1
    /\ UNCHANGED serving

(* The container's command: the API starts when the upgrade to head succeeded,    *)
(* and a connection that breaks in between leaves the database as it was.         *)
StartApi ==
    /\ ~serving
    /\ LET walk == Walked(database, version)[Latest]
       IN  walk.done /\ database' = walk.db
    /\ version' = Latest
    /\ serving' = TRUE
    /\ UNCHANGED commands

StopApi == serving /\ serving' = FALSE /\ UNCHANGED <<version, database, commands>>

SchemaNext ==
    \/ \E to \in 0..Latest : Upgrade(to) \/ Downgrade(to)
    \/ StartApi \/ StopApi

SchemaSpec == SchemaInit /\ [][SchemaNext]_schemaVars

-------------------------------------------------------------------------------
(* Whatever was upgraded, taken back or refused before, an API that answers finds *)
(* the database the models declare.                                               *)
ServesDeclaredSchema == serving => version = Latest /\ database = Declared

(* A version says which tables, columns and keys are there, however the database  *)
(* got there: taking a revision back leaves nothing but types.                    *)
VersionTellsSchema ==
    /\ database.columns = SchemaAt(version).columns
    /\ database.unique = SchemaAt(version).unique
    /\ DOMAIN SchemaAt(version).types \subseteq DOMAIN database.types

(* A database that was never taken back below the first revision can always be    *)
(* brought to head. (One that was cannot: the types of the first revision are     *)
(* still there, and its upgrade creates them without asking.)                     *)
LatestIsReachable ==
    version > 0 \/ database.types = Vacant.types <=> Walked(database, version)[Latest].done

(* Once a command has been given or the API has started.                          *)
SchemaIsDeclared == serving \/ commands > 0 => ServesDeclaredSchema /\ VersionTellsSchema /\ LatestIsReachable

===============================================================================
