----------------------------- MODULE DbMigrate -----------------------------
(***************************************************************************)
(* db-migrate: the migrations of the working directory that the table      *)
(* _sqlx_migrations of a site does not name are piped to psql, one after   *)
(* the other, and each is then written into the table.  Two commands may   *)
(* run at once, a step may fail and a command may be killed anywhere.      *)
(***************************************************************************)
EXTENDS Integers, FiniteSets, FiniteSetsExt

CONSTANTS Version,     \* of the .up.sql files of the directory, as numbers
          Digits,      \* of the versions in the names of the files
          Migrator,    \* commands that may run at once
          MaxMigrates  \* bound on the commands begun

(* The names of the files have their versions with leading zeros where     *)
(* they need them to be of one length: only then is the order of these     *)
(* texts that of the numbers.                                              *)
ASSUME MigrateAssumption ==
  /\ Version \in SUBSET Nat /\ IsFiniteSet(Version)
  /\ Digits \in Nat \ {0} /\ \A v \in Version : v < 10 ^ Digits
  /\ MaxMigrates \in Nat

VARIABLES
  table,       \* whether _sqlx_migrations exists
  registered,  \* the versions in it
  ran,         \* how often the statements of a version were sent to the database
  mig,         \* the commands
  migrates,
  passed,      \* history: versions that were taken for applied and were not sent
  unsure,      \* history: versions sent and not registered
  overlapped   \* history: a command began while another was at work

migrateVars == <<table, registered, ran, mig, migrates, passed, unsure, overlapped>>

Rest == [pc |-> "rest", dry |-> FALSE, todo |-> {}]

MigrateInit ==
  /\ table \in BOOLEAN
  /\ registered = {}
  /\ ran = [v \in Version |-> 0]
  /\ mig = [p \in Migrator |-> Rest]
  /\ migrates = 0
  /\ passed = {} /\ unsure = {}
  /\ overlapped = FALSE

MigAt(p, pc) == mig[p].pc = pc
Set(p, m) == mig' = [mig EXCEPT ![p] = m]

(* Mutant: every file is pending.                                          *)
PendingAll == Version

(* The table has numbers, and prints them without leading zeros.           *)
Printed(v) == v >= 10 ^ (Digits - 1)

(* The files whose text is none that the table prints: those whose version *)
(* it does not have and those that have leading zeros.  When the table is  *)
(* missing psql prints an error and exits with 0: all are pending.         *)
Pending == {v \in Version : v \notin registered \/ ~Printed(v)}

Detect(p) ==
  /\ MigAt(p, "rest") /\ migrates < MaxMigrates /\ migrates' = migrates + 1
  /\ overlapped' = (overlapped \/ \E q \in Migrator \ {p} : ~MigAt(q, "rest"))
  /\ \E dry \in BOOLEAN :
       Set(p, IF Pending = {} THEN Rest ELSE [pc |-> "apply", dry |-> dry, todo |-> Pending])
  /\ UNCHANGED <<table, registered, ran, passed, unsure>>

(* The first text, which is the least number when they have one length.    *)
NextOf(todo) == Min(todo)

(* A dry run is sent between BEGIN and ROLLBACK.                           *)
Simulate(p) ==
  /\ MigAt(p, "apply") /\ mig[p].dry
  /\ LET rest == mig[p].todo \ {NextOf(mig[p].todo)}
     IN Set(p, IF rest = {} THEN Rest ELSE [mig[p] EXCEPT !.todo = rest])
  /\ UNCHANGED <<table, registered, ran, migrates, passed, unsure, overlapped>>

Sent(v) == ran' = [ran EXCEPT ![v] = @ + 1]

(* psql gets the file: what its statements do, errors included, it exits   *)
(* with 0.                                                                 *)
Apply(p) ==
  /\ MigAt(p, "apply") /\ ~mig[p].dry
  /\ Sent(NextOf(mig[p].todo))
  /\ unsure' = unsure \cup {NextOf(mig[p].todo)}
  /\ Set(p, [mig[p] EXCEPT !.pc = "register"])
  /\ UNCHANGED <<table, registered, migrates, passed, overlapped>>

(* It could not: no container, no connection, and no "ERROR" in what was   *)
(* printed.  That is a warning.                                            *)
Warn(p) ==
  /\ MigAt(p, "apply") /\ ~mig[p].dry
  /\ passed' = passed \cup {NextOf(mig[p].todo)}
  /\ Set(p, [mig[p] EXCEPT !.pc = "register"])
  /\ UNCHANGED <<table, registered, ran, migrates, unsure, overlapped>>

(* Mutant: the others are tried after an error.                            *)
AfterErrorGoOn(p) ==
  LET rest == mig[p].todo \ {NextOf(mig[p].todo)}
  IN IF rest = {} THEN Rest ELSE [mig[p] EXCEPT !.todo = rest]

(* The first error ends the command.                                       *)
AfterError(p) == Rest

(* The connection is lost, before the file was sent or after; or it cannot *)
(* be read.                                                                *)
Fail(p) ==
  /\ MigAt(p, "apply") /\ ~mig[p].dry
  /\ \/ UNCHANGED <<ran, unsure>>
     \/ Sent(NextOf(mig[p].todo)) /\ unsure' = unsure \cup {NextOf(mig[p].todo)}
  /\ Set(p, AfterError(p))
  /\ UNCHANGED <<table, registered, migrates, passed, overlapped>>

(* The version is registered, if it can be: nothing tells.                 *)
Register(p) ==
  /\ MigAt(p, "register")
  /\ LET v == NextOf(mig[p].todo)
         rest == mig[p].todo \ {v}
     IN /\ \/ table /\ registered' = registered \cup {v} /\ unsure' = unsure \ {v}
           \/ UNCHANGED <<registered, unsure>>
        /\ Set(p, IF rest = {} THEN Rest ELSE [mig[p] EXCEPT !.pc = "apply", !.todo = rest])
  /\ UNCHANGED <<table, ran, migrates, passed, overlapped>>

Stop(p) ==
  /\ ~MigAt(p, "rest") /\ Set(p, Rest)
  /\ UNCHANGED <<table, registered, ran, migrates, passed, unsure, overlapped>>

MigrateNext ==
  \E p \in Migrator :
    Detect(p) \/ Simulate(p) \/ Apply(p) \/ Warn(p) \/ Fail(p) \/ Register(p) \/ Stop(p)

MigrateSpec == MigrateInit /\ [][MigrateNext]_migrateVars

-----------------------------------------------------------------------------

(* The statements of a migration whose file has no leading zeros are sent  *)
(* again only when the version was not registered after them, or when two  *)
(* commands were at work at once.  (One with leading zeros is sent by      *)
(* every run, registered or not.)                                          *)
SentAgainOnlyIfUnsure ==
  [][\A v \in Version :
       ran[v] > 0 /\ ran'[v] > ran[v] =>
         v \in unsure \/ overlapped \/ ~Printed(v)]_migrateVars

(* Whatever fails or is cut, and also with two commands at once: a version *)
(* in the table has none before it that was never sent, except those whose *)
(* failure was taken for a warning.  The versions are of one length.       *)
NoGaps ==
  \A v \in registered, w \in Version : w < v => ran[w] > 0 \/ w \in passed

=============================================================================
