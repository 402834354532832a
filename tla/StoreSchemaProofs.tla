-------------------------- MODULE StoreSchemaProofs --------------------------
(***************************************************************************)
(* Proofs about StoreSchema, for any number of processes, opens and        *)
(* crashes and any old databases.  That an open store is whole rests on    *)
(* three facts the code relies on without saying them: tables are only     *)
(* ever added to, a table that exists in a database this code created is   *)
(* complete but for its index, and a process that creates tables works on  *)
(* a database that was new.                                                *)
(***************************************************************************)
EXTENDS StoreSchema, TLAPS

(* The statements a process has run are in the database.                   *)
Done(i) == Statement[i].gets \subseteq db.tables[Statement[i].table]

Whole == \A t \in Tables : Required(t) \subseteq db.tables[t]

(* An old database is as it was, and nobody initialises it: who looks at   *)
(* its version has found it without tables.                                *)
OldInv ==
  origin # Fresh =>
    /\ db = origin
    /\ \A p \in Procs : at[p] \notin {"create", "setVersion"}
    /\ \A p \in Procs : at[p] = "version" => ~SchemaPresent

(* In a database this code created, CREATE TABLE happened as a whole, and  *)
(* the version comes after the statements.                                 *)
NewInv ==
  origin = Fresh =>
    /\ db.version \in {0, SCHEMA_VERSION}
    /\ db.version = SCHEMA_VERSION => Whole
    /\ \A i \in 1..LastStatement :
         /\ "exists" \in Statement[i].gets
         /\ "exists" \in db.tables[Statement[i].table]
         => Done(i)

(* How far an initialising process has come.                               *)
CreateInv ==
  \A p \in Procs :
    /\ at[p] = "create" => \A i \in 1..LastStatement : i < next[p] => Done(i)
    /\ at[p] = "setVersion" => Whole

(* How far a validating process has come.                                  *)
ValidInv ==
  \A p \in Procs :
    /\ at[p] \in {"validate", "open"} =>
         /\ db.version = SCHEMA_VERSION
         /\ \A t \in Tables \ todo[p] : Required(t) \subseteq db.tables[t]
    /\ at[p] = "open" => todo[p] = {}

IInv == TypeOK /\ OldInv /\ NewInv /\ CreateInv /\ ValidInv

-----------------------------------------------------------------------------
(* What the statements are, one by one.                                    *)
LEMMA StatementValues ==
  /\ Statement[1].table = "principals"
  /\ Statement[1].gets = Required("principals")
  /\ Statement[2].table = "jobs"
  /\ Statement[2].gets = Traits \ {"unique index"}
  /\ Statement[3].table = "jobs"
  /\ Statement[3].gets = {"unique index"}
  /\ Statement[4].table = "target_results"
  /\ Statement[4].gets = Required("target_results")
  /\ Statement[5].table = "target_snapshots"
  /\ Statement[5].gets = Required("target_snapshots")
  /\ Statement[6].table = "nostr_author_cache"
  /\ Statement[6].gets = Required("nostr_author_cache")
BY DEF Statement

(* Requirements are traits.                                                *)
LEMMA RequiredType ==
  ASSUME NEW t \in Tables
  PROVE  Required(t) \subseteq Traits
BY DEF Required, Traits, Tables

(* Every statement of the schema is about one of the tables.               *)
LEMMA StatementFacts ==
  ASSUME NEW i \in 1..LastStatement
  PROVE  /\ Statement[i].table \in Tables
         /\ Statement[i].gets \subseteq Traits
<1>1. i = 1 \/ i = 2 \/ i = 3 \/ i = 4 \/ i = 5 \/ i = 6
  BY DEF LastStatement
<1>2. Statement[i].table \in Tables
  BY <1>1, StatementValues DEF Tables
<1>3. \/ Statement[i].gets = Required(Statement[i].table)
      \/ Statement[i].gets = Traits \ {"unique index"}
      \/ Statement[i].gets = {"unique index"}
  BY <1>1, StatementValues
<1>4. "unique index" \in Traits
  BY DEF Traits
<1> QED
  BY <1>2, <1>3, <1>4, RequiredType

(* The statements of the schema provide everything the checks ask for.     *)
LEMMA StatementsSuffice ==
  ASSUME NEW D,
         \A i \in 1..LastStatement :
           Statement[i].gets \subseteq D[Statement[i].table]
  PROVE  \A t \in Tables : Required(t) \subseteq D[t]
<1> DEFINE Got(i) == Statement[i].gets \subseteq D[Statement[i].table]
<1>1. /\ Got(1) /\ Got(2) /\ Got(3) /\ Got(4) /\ Got(5) /\ Got(6)
  BY DEF LastStatement
<1>2. Required("principals") \subseteq D["principals"]
  <2>1. Statement[1].table = "principals" /\ Statement[1].gets = Required("principals")
    BY StatementValues
  <2> QED
    BY <1>1, <2>1
<1>4. Required("target_results") \subseteq D["target_results"]
  <2>1. Statement[4].table = "target_results" /\ Statement[4].gets = Required("target_results")
    BY StatementValues
  <2> QED
    BY <1>1, <2>1
<1>5. Required("target_snapshots") \subseteq D["target_snapshots"]
  <2>1. Statement[5].table = "target_snapshots" /\ Statement[5].gets = Required("target_snapshots")
    BY StatementValues
  <2> QED
    BY <1>1, <2>1
<1>6. Required("nostr_author_cache") \subseteq D["nostr_author_cache"]
  <2>1. Statement[6].table = "nostr_author_cache" /\ Statement[6].gets = Required("nostr_author_cache")
    BY StatementValues
  <2> QED
    BY <1>1, <2>1
<1>3. Required("jobs") \subseteq D["jobs"]
  <2>1. /\ Statement[2].table = "jobs" /\ Statement[3].table = "jobs"
        /\ Statement[2].gets = Traits \ {"unique index"}
        /\ Statement[3].gets = {"unique index"}
    BY StatementValues
  <2>2. Required("jobs") = Traits
    BY DEF Required
  <2> QED
    BY <1>1, <2>1, <2>2
<1> QED
  BY <1>2, <1>3, <1>4, <1>5, <1>6 DEF Tables

(* The checks of a table find everything that is required of it.           *)
LEMMA SoundIsRequired ==
  ASSUME NEW t \in Tables, Sound(t)
  PROVE  Required(t) \subseteq db.tables[t]
<1>1. Required(t) \subseteq Traits
  BY RequiredType
<1>2. \A x \in Traits : x \in Required(t) => x \in db.tables[t]
  BY DEF Sound, Has, Traits, validate_table_present, validate_table_columns,
         validate_primary_key, validate_unique_index, validate_foreign_key
<1> QED
  BY <1>1, <1>2

-----------------------------------------------------------------------------
(* The invariant holds of the file as it is found.                         *)
LEMMA InitIInv == ASSUME Init PROVE IInv
<1> USE SchemaAssumption
<1>1. Fresh \in Databases
  BY DEF Fresh, Databases
<1>2. TypeOK
  BY <1>1 DEF Init, TypeOK, Places, LastStatement
<1>3. OldInv
  BY DEF Init, OldInv
<1>4. NewInv
  <2> SUFFICES ASSUME origin = Fresh PROVE NewInv
    BY DEF NewInv
  <2>1. db.version = 0 /\ \A t \in Tables : db.tables[t] = {}
    BY DEF Init, Fresh
  <2>2. SCHEMA_VERSION # 0
    OBVIOUS
  <2> QED
    BY <2>1, <2>2, StatementFacts DEF NewInv
<1>5. CreateInv /\ ValidInv
  BY DEF Init, CreateInv, ValidInv
<1> QED
  BY <1>2, <1>3, <1>4, <1>5 DEF IInv

(* Steps that leave the database alone and move one process to a place     *)
(* where it need not know anything.                                        *)
LEMMA Elsewhere ==
  ASSUME IInv, NEW p \in Procs, NEW place \in {"closed", "tables",
                                               "checkVersion"},
         at' = [at EXCEPT ![p] = place],
         UNCHANGED <<db, origin, next, todo>>,
         opens' \in Nat, crashes' \in Nat
  PROVE  IInv'
<1>1. TypeOK'
  BY DEF IInv, TypeOK, Places
<1>2. \A q \in Procs : at'[q] = IF q = p THEN place ELSE at[q]
  BY DEF IInv, TypeOK
<1>3. OldInv' /\ CreateInv' /\ ValidInv'
  BY <1>2 DEF IInv, OldInv, SchemaPresent, CreateInv, ValidInv, Done, Whole
<1>4. NewInv'
  BY DEF IInv, NewInv, Done, Whole
<1> QED
  BY <1>1, <1>3, <1>4 DEF IInv

(* Each table is created by one statement.                                 *)
LEMMA OneCreateEach ==
  ASSUME NEW i \in 1..LastStatement, NEW j \in 1..LastStatement,
         Statement[i].table = Statement[j].table,
         "exists" \in Statement[i].gets, "exists" \in Statement[j].gets
  PROVE  i = j
<1>1. i \in {1, 2, 3, 4, 5, 6} /\ j \in {1, 2, 3, 4, 5, 6}
  BY DEF LastStatement
<1>2. i # 3 /\ j # 3
  BY StatementValues
<1> QED
  BY <1>1, <1>2, StatementValues

(* Growing tables keep what a process has established.                     *)
LEMMA Growth ==
  ASSUME IInv, \A t \in Tables : db.tables[t] \subseteq db'.tables[t]
  PROVE  /\ Whole => Whole'
         /\ \A i \in 1..LastStatement : Done(i) => Done(i)'
<1>1. Whole => Whole'
  BY DEF Whole
<1>2. \A i \in 1..LastStatement : Done(i) => Done(i)'
  BY StatementFacts DEF Done
<1> QED
  BY <1>1, <1>2

(* A CREATE statement, also one that another process has run already.      *)
LEMMA CreateStep ==
  ASSUME IInv, NEW p \in Procs, Create(p)
  PROVE  IInv'
<1>0. TypeOK /\ OldInv /\ NewInv /\ CreateInv /\ ValidInv
  BY DEF IInv
<1>a. PICK n \in 1..LastStatement : n = next[p]
  BY <1>0 DEF TypeOK
<1> DEFINE s == Statement[n]
           t == db.tables[s.table]
<1>1. n = next[p] /\ at[p] = "create" /\ p \in DOMAIN at
  BY <1>0, <1>a DEF TypeOK, Create
<1>2. s.table \in Tables /\ s.gets \subseteq Traits
  BY <1>1, StatementFacts
<1>3. origin = Fresh /\ origin' = Fresh
  BY <1>0, <1>1 DEF OldInv, Create
<1>4. /\ db' = IF "exists" \in s.gets /\ "exists" \in t THEN db
              ELSE [db EXCEPT !.tables[s.table] = t \cup s.gets]
      /\ UNCHANGED <<todo, opens, crashes>>
  BY <1>a DEF Create
<1>5. /\ db \in Databases
      /\ db' \in Databases
      /\ db'.version = db.version
      /\ \A x \in Tables : db.tables[x] \subseteq db'.tables[x]
      /\ \A x \in Tables : x # s.table => db'.tables[x] = db.tables[x]
      /\ db'.tables[s.table] \subseteq t \cup s.gets
  <2>1. CASE "exists" \in s.gets /\ "exists" \in t
    BY <1>0, <1>2, <1>4, <2>1 DEF TypeOK
  <2>2. CASE ~("exists" \in s.gets /\ "exists" \in t)
    <3>1. db' = [db EXCEPT !.tables[s.table] = t \cup s.gets]
      BY <1>4, <2>2
    <3> QED
      BY <1>0, <1>2, <3>1 DEF TypeOK, Databases
  <2> QED
    BY <2>1, <2>2
<1>6. Done(n)'
  <2>1. CASE "exists" \in s.gets /\ "exists" \in t
    BY <1>0, <1>1, <1>3, <1>4, <2>1 DEF NewInv, Done
  <2>2. CASE ~("exists" \in s.gets /\ "exists" \in t)
    <3>1. db' = [db EXCEPT !.tables[s.table] = t \cup s.gets]
      BY <1>4, <2>2
    <3> QED
      BY <1>0, <1>2, <3>1 DEF TypeOK, Databases, Done
  <2> QED
    BY <2>1, <2>2
<1>7. /\ Whole => Whole'
      /\ \A i \in 1..LastStatement : Done(i) => Done(i)'
  BY <1>5, Growth
<1>8. \/ /\ n = LastStatement
         /\ at' = [at EXCEPT ![p] = "setVersion"]
         /\ next' = next
      \/ /\ n # LastStatement
         /\ at' = at
         /\ next' = [next EXCEPT ![p] = n + 1]
  BY <1>a DEF Create, Go
<1>9. TypeOK'
  BY <1>0, <1>1, <1>3, <1>4, <1>5, <1>8 DEF TypeOK, Places, LastStatement
<1>10. OldInv'
  BY <1>3 DEF OldInv
<1>11. NewInv'
  <2>1. SUFFICES ASSUME NEW i \in 1..LastStatement,
                        "exists" \in Statement[i].gets,
                        "exists" \in db'.tables[Statement[i].table]
                 PROVE  Done(i)'
    BY <1>0, <1>3, <1>5, <1>7 DEF NewInv
  <2>2. CASE "exists" \in db.tables[Statement[i].table]
    BY <1>0, <1>3, <1>7, <2>1, <2>2 DEF NewInv
  <2>3. CASE "exists" \notin db.tables[Statement[i].table]
    <3>1. Statement[i].table = s.table /\ "exists" \in s.gets
      BY <1>5, <2>1, <2>3, StatementFacts
    <3>2. i = n
      BY <1>1, <2>1, <3>1, OneCreateEach
    <3> QED
      BY <1>6, <3>2
  <2> QED
    BY <2>2, <2>3
<1>12. CreateInv'
  <2> SUFFICES ASSUME NEW q \in Procs
               PROVE  /\ at'[q] = "create" => \A i \in 1..LastStatement :
                                              i < next'[q] => Done(i)'
                      /\ at'[q] = "setVersion" => Whole'
    BY DEF CreateInv
  <2>1. CASE q # p
    <3>1. at'[q] = at[q] /\ next'[q] = next[q]
      BY <1>0, <1>8, <2>1 DEF TypeOK
    <3> QED
      BY <1>0, <1>7, <3>1 DEF CreateInv
  <2>2. CASE q = p
    <3>1. \A i \in 1..LastStatement : i < n => Done(i)'
      BY <1>0, <1>1, <1>7 DEF CreateInv
    <3>2. \A i \in 1..LastStatement : i <= n => Done(i)'
      BY <1>1, <1>6, <3>1 DEF LastStatement
    <3>3. CASE n = LastStatement
      <4>1. at'[p] = "setVersion"
        BY <1>0, <1>8, <3>3 DEF TypeOK
      <4>2. \A i \in 1..LastStatement : Done(i)'
        BY <3>2, <3>3 DEF LastStatement
      <4>3. Whole'
        BY <4>2, StatementsSuffice DEF Done, Whole
      <4> QED
        BY <2>2, <4>1, <4>3
    <3>4. CASE n # LastStatement
      <4>1. at'[p] = "create" /\ next'[p] = n + 1
        BY <1>0, <1>1, <1>8, <3>4 DEF TypeOK
      <4> QED
        BY <1>1, <2>2, <3>2, <4>1 DEF LastStatement
    <3> QED
      BY <3>3, <3>4
  <2> QED
    BY <2>1, <2>2
<1>13. ValidInv'
  <2>1. \A q \in Procs : at'[q] \in {"validate", "open"} => at'[q] = at[q]
    BY <1>0, <1>8 DEF TypeOK
  <2> QED
    BY <1>0, <1>4, <1>5, <2>1 DEF ValidInv
<1> QED
  BY <1>9, <1>10, <1>11, <1>12, <1>13 DEF IInv

(* PRAGMA user_version comes after all statements of this process.         *)
LEMMA SetVersionStep ==
  ASSUME IInv, NEW p \in Procs, SetVersion(p)
  PROVE  IInv'
<1> USE SchemaAssumption
<1>0. TypeOK /\ OldInv /\ NewInv /\ CreateInv /\ ValidInv
  BY DEF IInv
<1>1. /\ db'.version = SCHEMA_VERSION /\ db'.tables = db.tables
      /\ db' \in Databases
      /\ \A q \in Procs : at'[q] = IF q = p THEN "validate" ELSE at[q]
      /\ \A q \in Procs : q # p => todo'[q] = todo[q]
      /\ todo'[p] = Tables
      /\ at[p] = "setVersion" /\ next' = next /\ origin' = origin
  BY <1>0 DEF SetVersion, Go, TypeOK, Databases
<1>2. origin = Fresh /\ Whole /\ Whole'
  BY <1>0, <1>1 DEF OldInv, CreateInv, Whole
<1>3. TypeOK'
  BY <1>0, <1>1 DEF SetVersion, Go, TypeOK, Places
<1>4. OldInv'
  BY <1>1, <1>2 DEF OldInv
<1>5. NewInv'
  BY <1>0, <1>1, <1>2 DEF NewInv, Done
<1>6. CreateInv'
  BY <1>0, <1>1, <1>2 DEF CreateInv, Done
<1>7. ValidInv'
  BY <1>0, <1>1 DEF ValidInv
<1> QED
  BY <1>3, <1>4, <1>5, <1>6, <1>7 DEF IInv

(* Steps of the checks: the database stays, one process goes on.           *)
LEMMA CheckStep ==
  ASSUME IInv, NEW p \in Procs, NEW place \in {"validate", "open"},
         UNCHANGED <<db, origin, next, opens, crashes>>,
         at' = [at EXCEPT ![p] = place],
         todo' \in [Procs -> SUBSET Tables],
         \A q \in Procs : q # p => todo'[q] = todo[q],
         db.version = SCHEMA_VERSION,
         \A t \in Tables \ todo'[p] : Required(t) \subseteq db.tables[t],
         place = "open" => todo'[p] = {}
  PROVE  IInv'
<1>0. TypeOK /\ OldInv /\ NewInv /\ CreateInv /\ ValidInv
  BY DEF IInv
<1>1. \A q \in Procs : at'[q] = IF q = p THEN place ELSE at[q]
  BY <1>0 DEF TypeOK
<1>2. TypeOK'
  BY <1>0 DEF TypeOK, Places
<1>3. OldInv' /\ NewInv' /\ CreateInv'
  BY <1>0, <1>1 DEF OldInv, SchemaPresent, NewInv, CreateInv, Done, Whole
<1>4. ValidInv'
  BY <1>0, <1>1 DEF ValidInv
<1> QED
  BY <1>2, <1>3, <1>4 DEF IInv

(* A database that is not new although it has no table has a version.      *)
LEMMA OldHasVersion ==
  ASSUME TypeOK, OldInv, origin # Fresh, ~SchemaPresent
  PROVE  db.version # 0
<1>1. db \in Databases /\ db \in OldDatabases
  BY DEF TypeOK, OldInv
<1>2. db.tables = [t \in Tables |-> {}] /\ db.others = FALSE
  BY <1>1 DEF SchemaPresent, Databases
<1>3. ASSUME db.version = 0 PROVE db = Fresh
  BY <1>1, <1>2, <1>3 DEF Fresh, Databases
<1> QED BY <1>1, <1>3, SchemaAssumption

(* transport_publish_schema_state, second query.                           *)
LEMMA ReadVersionStep ==
  ASSUME IInv, NEW p \in Procs, ReadVersion(p)
  PROVE  IInv'
<1>0. TypeOK /\ OldInv /\ NewInv /\ CreateInv /\ ValidInv
  BY DEF IInv
<1> DEFINE place == IF db.version = 0 THEN "create" ELSE "closed"
<1>1. /\ \A q \in Procs : at'[q] = IF q = p THEN place ELSE at[q]
      /\ \A q \in Procs : next'[q] = IF q = p THEN 1 ELSE next[q]
      /\ at[p] = "version"
      /\ UNCHANGED <<db, origin, todo>>
  BY <1>0 DEF TypeOK, ReadVersion, Go
<1>2. TypeOK'
  BY <1>0 DEF TypeOK, ReadVersion, Go, Places, LastStatement
<1>3. OldInv' /\ NewInv' /\ ValidInv'
  <2>1. origin # Fresh => place = "closed"
    BY <1>0, <1>1, OldHasVersion DEF OldInv
  <2> HIDE DEF place
  <2>2. OldInv'
    BY <1>0, <1>1, <2>1 DEF OldInv, SchemaPresent
  <2>3. place \in {"create", "closed"}
    BY DEF place
  <2>4. NewInv' /\ ValidInv'
    BY <1>0, <1>1, <2>3 DEF NewInv, ValidInv, Done, Whole
  <2> QED BY <2>2, <2>4
<1>4. CreateInv'
  BY <1>0, <1>1 DEF CreateInv, Done, Whole, LastStatement
<1> QED
  BY <1>2, <1>3, <1>4 DEF IInv

(* transport_publish_schema_state, first query.                            *)
LEMMA ReadTablesStep ==
  ASSUME IInv, NEW p \in Procs, ReadTables(p)
  PROVE  IInv'
<1>0. TypeOK /\ OldInv /\ NewInv /\ CreateInv /\ ValidInv
  BY DEF IInv
<1>1. CASE SchemaPresent
  BY <1>0, <1>1, Elsewhere DEF ReadTables, Go, TypeOK
<1>2. CASE ~SchemaPresent
  <2>2. /\ \A q \in Procs : at'[q] = IF q = p THEN "version" ELSE at[q]
        /\ UNCHANGED <<db, origin, next, todo>>
    BY <1>0, <1>2 DEF TypeOK, ReadTables, Go
  <2>3. TypeOK'
    BY <1>0, <1>2 DEF TypeOK, ReadTables, Go, Places
  <2>4. OldInv' /\ NewInv' /\ CreateInv' /\ ValidInv'
    BY <1>0, <1>2, <2>2
       DEF OldInv, SchemaPresent, NewInv, CreateInv, ValidInv, Done, Whole
  <2> QED
    BY <2>3, <2>4 DEF IInv
<1> QED
  BY <1>1, <1>2

(* validate_transport_publish_schema, one table.                           *)
LEMMA ValidateTableStep ==
  ASSUME IInv, NEW p \in Procs, NEW t \in Tables, ValidateTable(p, t)
  PROVE  IInv'
<1>0. TypeOK /\ ValidInv /\ at[p] = "validate"
  BY DEF IInv, ValidateTable
<1>1. CASE Sound(t)
  <2>1. at' = at /\ at = [at EXCEPT ![p] = "validate"]
    BY <1>0, <1>1 DEF ValidateTable, TypeOK
  <2>2. /\ todo' \in [Procs -> SUBSET Tables]
        /\ \A q \in Procs : q # p => todo'[q] = todo[q]
        /\ todo'[p] = todo[p] \ {t}
    BY <1>0, <1>1 DEF ValidateTable, TypeOK
  <2>3. /\ db.version = SCHEMA_VERSION
        /\ \A u \in Tables \ todo'[p] : Required(u) \subseteq db.tables[u]
    BY <1>0, <1>1, <2>2, SoundIsRequired DEF ValidInv
  <2>4. UNCHANGED <<db, origin, next, opens, crashes>>
    BY DEF ValidateTable
  <2> QED
    BY <2>1, <2>2, <2>3, <2>4, CheckStep
<1>2. CASE ~Sound(t)
  BY <1>0, <1>2, Elsewhere DEF ValidateTable, Go, TypeOK
<1> QED
  BY <1>1, <1>2

(* Every step of every process keeps the invariant.                        *)
LEMMA NextIInv == ASSUME IInv, [Next]_vars PROVE IInv'
<1> USE SchemaAssumption
<1>0. TypeOK /\ OldInv /\ NewInv /\ CreateInv /\ ValidInv
  BY DEF IInv
<1>1. CASE UNCHANGED vars
  BY <1>0, <1>1 DEF vars, IInv, TypeOK, OldInv, SchemaPresent, NewInv,
                    CreateInv, ValidInv, Done, Whole
<1>2. ASSUME NEW p \in Procs, Open(p) PROVE IInv'
  <2>1. /\ at' = [at EXCEPT ![p] = "tables"]
        /\ UNCHANGED <<db, origin, next, todo>>
    BY <1>2 DEF Open, Go
  <2>2. opens' \in Nat /\ crashes' \in Nat
    BY <1>0, <1>2 DEF Open, TypeOK
  <2> QED
    BY <2>1, <2>2, Elsewhere
<1>3. ASSUME NEW p \in Procs, CheckVersion(p) PROVE IInv'
  <2>1. CASE db.version = SCHEMA_VERSION
    <3>1. /\ todo' \in [Procs -> SUBSET Tables]
          /\ \A q \in Procs : q # p => todo'[q] = todo[q]
          /\ todo'[p] = Tables
      BY <1>0, <1>3 DEF CheckVersion, TypeOK
    <3>2. /\ at' = [at EXCEPT ![p] = "validate"]
          /\ UNCHANGED <<db, origin, next, opens, crashes>>
      BY <1>3, <2>1 DEF CheckVersion, Go
    <3> QED
      BY <2>1, <3>1, <3>2, CheckStep
  <2>2. CASE db.version # SCHEMA_VERSION
    <3>1. /\ \A q \in Procs : at'[q] = IF q = p THEN "closed" ELSE at[q]
          /\ \A q \in Procs : q # p => todo'[q] = todo[q]
          /\ UNCHANGED <<db, origin, next>>
      BY <1>0, <1>3, <2>2 DEF CheckVersion, Go, TypeOK
    <3>2. TypeOK'
      BY <1>0, <1>3, <2>2 DEF CheckVersion, Go, TypeOK, Places
    <3>3. OldInv' /\ NewInv' /\ CreateInv' /\ ValidInv'
      BY <1>0, <3>1 DEF OldInv, SchemaPresent, NewInv, CreateInv,
                            ValidInv, Done, Whole
    <3> QED
      BY <3>2, <3>3 DEF IInv
  <2> QED
    BY <2>1, <2>2
<1>4. ASSUME NEW p \in Procs, Validated(p) PROVE IInv'
  <2>1. /\ at' = [at EXCEPT ![p] = "open"] /\ todo' = todo /\ todo[p] = {}
        /\ at[p] = "validate"
        /\ UNCHANGED <<db, origin, next, opens, crashes>>
    BY <1>4 DEF Validated, Go
  <2>2. /\ db.version = SCHEMA_VERSION
        /\ \A u \in Tables \ todo'[p] : Required(u) \subseteq db.tables[u]
        /\ todo' \in [Procs -> SUBSET Tables]
    BY <1>0, <2>1 DEF ValidInv, TypeOK
  <2> QED
    BY <2>1, <2>2, CheckStep
<1>5. ASSUME NEW p \in Procs, Close(p) \/ Crash(p) PROVE IInv'
  BY <1>0, <1>5, Elsewhere DEF Close, Crash, Go, TypeOK
<1> QED
  BY <1>1, <1>2, <1>3, <1>4, <1>5, ReadTablesStep, ReadVersionStep,
     CreateStep, SetVersionStep, ValidateTableStep
  DEF Next, OpeningStep

(* The invariant that carries the results below.                           *)
THEOREM Invariance == Spec => []IInv
BY InitIInv, NextIInv, PTL DEF Spec

(* All variables keep their types.                                         *)
THEOREM TypeCorrect == Spec => []TypeOK
<1>1. IInv => TypeOK
  BY DEF IInv
<1> QED
  BY <1>1, Invariance, PTL

(* validate_transport_publish_schema decides once, and what it found stays *)
(* true while the store is open, whatever other processes do.              *)
THEOREM OpenIsWhole == Spec => []OpenMeansWhole
<1>1. IInv => OpenMeansWhole
  BY DEF IInv, ValidInv, OpenMeansWhole
<1> QED
  BY <1>1, Invariance, PTL

(* from_connection alters no database it did not create.                   *)
THEOREM OldIsUntouched == Spec => []OldDatabaseUntouched
<1>1. IInv => OldDatabaseUntouched
  BY DEF IInv, OldInv, OldDatabaseUntouched
<1> QED
  BY <1>1, Invariance, PTL

(* user_version is written after the tables, also for two processes that   *)
(* initialise one database together.                                       *)
THEOREM VersionIsLast == Spec => []VersionVouches
<1>1. IInv => VersionVouches
  BY DEF IInv, NewInv, Whole, VersionVouches
<1> QED
  BY <1>1, Invariance, PTL
=============================================================================
