----------------------------- MODULE StoreSchema -----------------------------
(***************************************************************************)
(* How a process opens the publish database: a database without any of the *)
(* tables is initialised, any other is accepted only with the current      *)
(* version and exactly the current schema.  The CREATE statements, the     *)
(* PRAGMA that writes the version and the checks are separate statements,  *)
(* so a crash or another opening process can come between any two.         *)
(*                                                                         *)
(* A table is the set of its traits that are as required: "exists", its    *)
(* "columns", its "primary key", and where it must have them a "foreign    *)
(* key" and a "unique index".  An absent table is the empty set.  "others" *)
(* is whether there are other tables whose names begin like theirs.        *)
(***************************************************************************)
EXTENDS Naturals, Sequences

CONSTANTS
  Procs,          \* processes that open the database
  SCHEMA_VERSION,
  OldDatabases,   \* databases of other releases the path may already hold
  MaxOpens,       \* bound on the number of opens
  MaxCrashes      \* bound on the number of crashes

Tables == {"principals", "jobs", "target_results", "target_snapshots",
           "nostr_author_cache"}
Traits == {"exists", "columns", "primary key", "foreign key", "unique index"}

(* What validate_transport_publish_schema asks of each table.              *)
Required(t) ==
  CASE t = "principals" -> Traits \ {"foreign key"}
    [] t = "jobs" -> Traits
    [] t \in {"target_results", "target_snapshots"}
         -> Traits \ {"unique index"}
    [] OTHER -> {"exists", "columns", "primary key"}

Databases == [tables : [Tables -> SUBSET Traits], others : BOOLEAN,
              version : Nat]

Fresh == [tables |-> [t \in Tables |-> {}], others |-> FALSE, version |-> 0]

ASSUME SchemaAssumption ==
  /\ SCHEMA_VERSION \in Nat \ {0}
  /\ OldDatabases \subseteq Databases
  /\ Fresh \notin OldDatabases
  /\ MaxOpens \in Nat /\ MaxCrashes \in Nat

(* The statements of TRANSPORT_PUBLISH_SCHEMA_SQL: the table, and what it  *)
(* gets.  The idempotency index is a statement of its own.                 *)
Statement ==
  <<[table |-> "principals", gets |-> Required("principals")],
    [table |-> "jobs", gets |-> Traits \ {"unique index"}],
    [table |-> "jobs", gets |-> {"unique index"}],
    [table |-> "target_results", gets |-> Required("target_results")],
    [table |-> "target_snapshots", gets |-> Required("target_snapshots")],
    [table |-> "nostr_author_cache",
     gets |-> Required("nostr_author_cache")]>>
LastStatement == 6

VARIABLES
  db,       \* the database file: its tables and its user_version
  origin,   \* history: what the database file held at first
  at,       \* what each process is doing
  next,     \* the CREATE statement an initialising process comes to
  todo,     \* tables a validating process has not checked yet
  opens,
  crashes

vars == <<db, origin, at, next, todo, opens, crashes>>

Places == {"closed", "tables", "version", "create", "setVersion",
           "checkVersion", "validate", "open"}

TypeOK ==
  /\ db \in Databases
  /\ origin \in OldDatabases \cup {Fresh}
  /\ at \in [Procs -> Places]
  /\ next \in [Procs -> 1..LastStatement]
  /\ todo \in [Procs -> SUBSET Tables]
  /\ opens \in Nat
  /\ crashes \in Nat

Init ==
  /\ origin \in OldDatabases \cup {Fresh}
  /\ db = origin
  /\ at = [p \in Procs |-> "closed"]
  /\ next = [p \in Procs |-> 1]
  /\ todo = [p \in Procs |-> {}]
  /\ opens = 0
  /\ crashes = 0

-----------------------------------------------------------------------------
Go(p, place) == at' = [at EXCEPT ![p] = place]

(* TransportPublishStore::open                                             *)
Open(p) ==
  /\ at[p] = "closed"
  /\ opens < MaxOpens
  /\ opens' = opens + 1
  /\ Go(p, "tables")
  /\ UNCHANGED <<db, origin, next, todo, crashes>>

\* Mutant: a database is taken for a new one unless it has the jobs table.
SchemaPresentByJobs == db.tables["jobs"] # {} \/ db.others

SchemaPresent == (\E t \in Tables : db.tables[t] # {}) \/ db.others

(* transport_publish_schema_state: are there any tables, of whatever       *)
(* release ...                                                             *)
ReadTables(p) ==
  /\ at[p] = "tables"
  /\ Go(p, IF SchemaPresent THEN "checkVersion" ELSE "version")
  /\ UNCHANGED <<db, origin, next, todo, opens, crashes>>

(* ... and if not, does the version confirm that the database is new.      *)
ReadVersion(p) ==
  /\ at[p] = "version"
  /\ Go(p, IF db.version = 0 THEN "create" ELSE "closed")
  /\ next' = [next EXCEPT ![p] = 1]
  /\ UNCHANGED <<db, origin, todo, opens, crashes>>

(* One statement of the schema, each committed on its own; IF NOT EXISTS   *)
(* leaves alone what another process has created meanwhile.                *)
Create(p) ==
  LET s == Statement[next[p]]
      t == db.tables[s.table]
  IN
  /\ at[p] = "create"
  /\ db' = IF "exists" \in s.gets /\ "exists" \in t THEN db
           ELSE [db EXCEPT !.tables[s.table] = t \cup s.gets]
  /\ IF next[p] = LastStatement
     THEN Go(p, "setVersion") /\ UNCHANGED next
     ELSE next' = [next EXCEPT ![p] = @ + 1] /\ UNCHANGED at
  /\ UNCHANGED <<origin, todo, opens, crashes>>

\* Mutant: the version is not written.
SetVersionForgotten(p) ==
  /\ at[p] = "setVersion"
  /\ Go(p, "validate")
  /\ todo' = [todo EXCEPT ![p] = Tables]
  /\ UNCHANGED <<db, origin, next, opens, crashes>>

(* PRAGMA user_version = SCHEMA_VERSION                                    *)
SetVersion(p) ==
  /\ at[p] = "setVersion"
  /\ db' = [db EXCEPT !.version = SCHEMA_VERSION]
  /\ Go(p, "validate")
  /\ todo' = [todo EXCEPT ![p] = Tables]
  /\ UNCHANGED <<origin, next, opens, crashes>>

(* validate_transport_publish_schema_version                               *)
CheckVersion(p) ==
  /\ at[p] = "checkVersion"
  /\ Go(p, IF db.version = SCHEMA_VERSION THEN "validate" ELSE "closed")
  /\ todo' = [todo EXCEPT ![p] = Tables]
  /\ UNCHANGED <<db, origin, next, opens, crashes>>

Has(t, trait) == trait \in Required(t) => trait \in db.tables[t]

validate_table_present(t)  == Has(t, "exists")
validate_table_columns(t)  == Has(t, "columns")
validate_primary_key(t)    == Has(t, "primary key")
validate_foreign_key(t)    == Has(t, "foreign key")

\* Mutant: only the index of the tokens is looked for.
UniqueIndexOfTokens(t) == t = "principals" => Has(t, "unique index")

validate_unique_index(t)   == Has(t, "unique index")

Sound(t) ==
  /\ validate_table_present(t)
  /\ validate_table_columns(t)
  /\ validate_primary_key(t)
  /\ validate_unique_index(t)
  /\ validate_foreign_key(t)

(* validate_transport_publish_schema, one table; an error closes the       *)
(* connection.  The order of the tables does not matter.                   *)
ValidateTable(p, t) ==
  /\ at[p] = "validate"
  /\ t \in todo[p]
  /\ IF Sound(t)
     THEN todo' = [todo EXCEPT ![p] = @ \ {t}] /\ UNCHANGED at
     ELSE Go(p, "closed") /\ UNCHANGED todo
  /\ UNCHANGED <<db, origin, next, opens, crashes>>

(* All tables are as required: the interrupted jobs are recovered, and the *)
(* store is open.                                                          *)
Validated(p) ==
  /\ at[p] = "validate"
  /\ todo[p] = {}
  /\ Go(p, "open")
  /\ UNCHANGED <<db, origin, next, todo, opens, crashes>>

Close(p) ==
  /\ at[p] = "open"
  /\ Go(p, "closed")
  /\ UNCHANGED <<db, origin, next, todo, opens, crashes>>

Crash(p) ==
  /\ at[p] \notin {"closed", "open"}
  /\ crashes < MaxCrashes
  /\ crashes' = crashes + 1
  /\ Go(p, "closed")
  /\ UNCHANGED <<db, origin, next, todo, opens>>

-----------------------------------------------------------------------------
OpeningStep(p) ==
  \/ ReadTables(p)
  \/ ReadVersion(p)
  \/ Create(p)
  \/ SetVersion(p)
  \/ CheckVersion(p)
  \/ \E t \in Tables : ValidateTable(p, t)
  \/ Validated(p)

Next == \E p \in Procs : Open(p) \/ OpeningStep(p) \/ Close(p) \/ Crash(p)

Spec == Init /\ [][Next]_vars

(* A process that is opening the store runs its statements.                *)
FairSpec == Spec /\ \A p \in Procs : WF_vars(OpeningStep(p))

-----------------------------------------------------------------------------
(* PROPERTIES                                                              *)

(* No process works on a database that lacks a table, a column, a key or   *)
(* an index, whatever the file held, whichever open was interrupted, and   *)
(* whoever else was initialising it at the same time.                      *)
OpenMeansWhole ==
  \A p \in Procs : at[p] = "open" =>
    /\ db.version = SCHEMA_VERSION
    /\ \A t \in Tables : Required(t) \subseteq db.tables[t]

(* transport_store_open_rejects_legacy_schema_version: a database of       *)
(* another release is never altered by trying to open it.                  *)
OldDatabaseUntouched == origin # Fresh => db = origin

(* The version is written last: in a database this code created it         *)
(* vouches for the whole schema, also after a crash half way.              *)
VersionVouches ==
  origin = Fresh /\ db.version = SCHEMA_VERSION =>
    \A t \in Tables : Required(t) \subseteq db.tables[t]

(* Processes that meet on a new database do not turn each other away for   *)
(* good: unless one of them crashes the database gets its version, and a   *)
(* process that starts to open it after that succeeds.                     *)
NewDatabaseOpens ==
  /\ (origin = Fresh /\ \E p \in Procs : at[p] # "closed")
       ~> (crashes > 0 \/ db.version = SCHEMA_VERSION)
  /\ \A p \in Procs :
       (origin = Fresh /\ db.version = SCHEMA_VERSION /\ at[p] = "tables")
         ~> (crashes > 0 \/ at[p] = "open")
=============================================================================
