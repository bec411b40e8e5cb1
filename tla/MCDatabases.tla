---------------------------- MODULE MCDatabases ----------------------------
(* The two commands for the databases of a site: a behaviour has            *)
(* comparisons or migrations, which share nothing but the database.         *)
EXTENDS DbCompare, DbMigrate, TLC

(* The columns of a critical table can be read.                             *)
Natures ==
  {[t \in Table |-> IF t \in Critical THEN "plain" ELSE n] : n \in {"plain", "opaque", "quoted"}}

Symmetry == Permutations(Row) \cup Permutations(Migrator)

(* The tables begin with one row at most (a write may bring others).  What  *)
(* an earlier comparison left has to do with no table, and the engine only  *)
(* with names that need quotes, so that neither is tried with every nature. *)
Small ==
  /\ \A db \in {live, other} : \A t \in DOMAIN db : Cardinality(db[t]) <= 1
  /\ engine = "mariadb" \/ temp # {} => nature = [t \in Table |-> "plain"]
  /\ engine = "mariadb" => temp = {}

Quiet == engine = "postgres" /\ live = <<>> /\ other = <<>> /\ temp = {}

Init ==
  /\ CompareInit /\ Small /\ MigrateInit
  /\ \/ migrates = 0 /\ table /\ runs = 0
     \/ Quiet

Comparing == migrates = 0 /\ CompareNext /\ UNCHANGED migrateVars
Migrating == runs = 0 /\ Quiet /\ MigrateNext /\ UNCHANGED compareVars

Spec == Init /\ [][Comparing \/ Migrating]_<<compareVars, migrateVars>>

=============================================================================
