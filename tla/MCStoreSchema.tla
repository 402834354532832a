---------------------------- MODULE MCStoreSchema ----------------------------
(***************************************************************************)
(* Values for the constants of StoreSchema: the databases of the tests of  *)
(* the store (an older version, a missing version, a missing index, a      *)
(* missing key), some of the tables only, only tables of other names, and  *)
(* no table but a version.                                                 *)
(***************************************************************************)
EXTENDS StoreSchema

CONSTANTS daemon, cli

Whole == [t \in Tables |-> Required(t)]
None == Fresh.tables
Database(tables, version) ==
  [tables |-> tables, others |-> FALSE, version |-> version]

MCOldDatabases ==
  {Database(Whole, SCHEMA_VERSION),
   Database(Whole, SCHEMA_VERSION - 1),
   Database(Whole, 0),
   Database([Whole EXCEPT !["jobs"] = @ \ {"unique index"}], SCHEMA_VERSION),
   Database([Whole EXCEPT !["target_results"] = @ \ {"primary key"}],
            SCHEMA_VERSION),
   Database([None EXCEPT !["principals"] = {"exists"}], 0),
   [Database(None, 0) EXCEPT !.others = TRUE],
   Database(None, SCHEMA_VERSION)}
=============================================================================
