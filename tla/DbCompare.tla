----------------------------- MODULE DbCompare -----------------------------
(***************************************************************************)
(* db-compare: the live database of a site against a dump, which is        *)
(* restored in a container of its own, or against another site, with the   *)
(* rows or (light) with counts and hashes, while the sites go on writing,  *)
(* another comparison sweeps the host and the command may be cut anywhere. *)
(*                                                                         *)
(* A database is a function from its tables to sets of rows: rows are      *)
(* compared as sets (a row that occurs twice counts once).                 *)
(***************************************************************************)
EXTENDS Naturals, FiniteSets

CONSTANTS Table,     \* names of tables that the schema query accepts
          Critical,  \* those a site cannot be without
          Row,
          Nature,    \* what the columns of each table may be like
          MaxRuns,   \* bound on comparisons
          MaxWrites  \* bound on the writes of the sites

ASSUME CompareAssumption ==
  /\ Critical \in SUBSET Table
  /\ Nature \subseteq [Table -> {"plain", "opaque", "quoted"}]
  /\ IsFiniteSet(Row)
  /\ MaxRuns \in Nat /\ MaxWrites \in Nat

Database == UNION {[tables -> SUBSET Row] : tables \in SUBSET Table}

VARIABLES
  engine,  \* "postgres" or "mariadb"
  nature,  \* of the columns: plain, all vector or bytes, names that need quotes
  live,    \* the database of the site
  other,   \* the dump, or the database of the other site
  temp,    \* on the host: "container" and "dump" of this comparison, "old" ones
  cmp,     \* the comparison under way, or what it ended with
  runs, writes,
  was,     \* history: contents of each table since the comparison began,
  wasOther \* of the site and of the other side

dbs == <<engine, nature, live, other>>
history == <<was, wasOther>>
compareVars == <<dbs, temp, cmp, runs, writes, history>>

Ended == {"idle", "ok", "err", "cut"}
WithDump == {"dump", "latest"}
Full == WithDump \cup {"against"}
Mode == Full \cup {"light", "lightAgainst", "lightDump"}

(* ref: the restored dump; diffs: a record per table of both sides; kept:  *)
(* what removals failed at, or the cleaning does not know of.              *)
Fresh == [pc |-> "idle", mode |-> "light", filter |-> Table, todo |-> {},
          counts |-> <<>>, ref |-> <<>>, diffs |-> <<>>,
          kept |-> {}, verdict |-> "none"]

CompareInit ==
  /\ engine \in {"postgres", "mariadb"}
  /\ nature \in Nature
  /\ live \in Database /\ other \in Database
  /\ temp \in SUBSET {"old"}  \* of comparisons that were cut
  /\ cmp = Fresh
  /\ runs = 0 /\ writes = 0
  /\ was = [t \in DOMAIN live |-> {live[t]}]
  /\ wasOther = [t \in DOMAIN other |-> {other[t]}]

At(pc) == cmp.pc = pc
Resting == cmp.pc \in Ended

-----------------------------------------------------------------------------
(* Mutant: as many rows are taken for the same rows.                       *)
ClassifyByCounts(d) ==
  IF ~d.reference THEN "noReference"
  ELSE IF d.opaque THEN "notComparable"
  ELSE IF d.vivo > 0 /\ d.otro = 0 THEN "onlyLive"
  ELSE IF d.otro > 0 /\ d.vivo = 0 THEN "onlyOther"
  ELSE IF d.vivo = d.otro THEN "identical"
  ELSE "differs"

(* otro is -1 for a table without reference; here "none".                  *)
Classify(d) ==
  IF ~d.reference THEN "noReference"
  ELSE IF d.opaque THEN "notComparable"
  ELSE IF d.vivo > 0 /\ d.otro = 0 THEN "onlyLive"
  ELSE IF d.otro > 0 /\ d.vivo = 0 THEN "onlyOther"
  ELSE IF d.same THEN "identical"
  ELSE "differs"

(* A comparison with the latest dump, or with nothing, certifies nothing.  *)
Pinned(mode) == mode \in {"dump", "against", "lightAgainst"}

Schema(db) == DOMAIN db

(* The other side: another site as it is now, or the dump as restored.     *)
Against == {"against", "lightAgainst"}
Reference(c) == IF c.mode \in Against THEN other ELSE c.ref

(* What the filter leaves of each side: all of it in the light mode, whose *)
(* filter is for the other site alone.                                     *)
LiveTables(c) == Schema(live) \cap (IF c.mode \in Full THEN c.filter ELSE Table)
OtherTables(c) == IF c.mode = "light" THEN LiveTables(c) ELSE Schema(Reference(c)) \cap c.filter

(* The tables that are read on both sides.                                 *)
Shared(c) == LiveTables(c) \cap OtherTables(c)

(* The tables that one of the sides lacks.                                 *)
OneSided(c) == (LiveTables(c) \cup OtherTables(c)) \ Shared(c)

(* The states of the diffs, the tables of one side only and a critical     *)
(* table of both sides without a row.                                      *)
Veredicto(c) ==
  LET states == {Classify(c.diffs[t]) : t \in DOMAIN c.diffs}
  IN IF \/ LiveTables(c) \cup OtherTables(c) = {}
        \/ \E t \in Critical \cap DOMAIN c.diffs : c.diffs[t].vivo = 0
     THEN "ROJO"
     ELSE IF ~Pinned(c.mode) THEN "GRIS"
     ELSE IF OneSided(c) # {} \/ {"differs", "notComparable"} \cap states # {} THEN "AMARILLO"
     ELSE "VERDE"

-----------------------------------------------------------------------------
(* What a comparison has to remove at the end, however it ends: what a     *)
(* removal comes to is not looked at, and some may fail.                   *)
Cleaned(c, guard, slipped) ==
  \E failed \in SUBSET (guard \cap temp) :
    /\ temp' = (temp \ (guard \ failed)) \cup slipped
    /\ cmp' = [c EXCEPT !.kept = @ \cup failed \cup slipped]

Aborted == [Fresh EXCEPT !.pc = "err", !.mode = cmp.mode, !.kept = cmp.kept]

(* Mutant: an error leaves what was there.                                 *)
AbortKeeps(guard) == cmp' = Aborted /\ temp' = temp

(* Any step may end in an error; the cleaning follows.                     *)
Abort(guard) == Cleaned(Aborted, guard, {})

(* A dump and a container that the cleaning does not know of yet.          *)
AbortLeaving(what, guard) == Cleaned(Aborted, guard, {what})

(* What is on the host is an earlier comparison's.                         *)
Old == IF temp = {} THEN {} ELSE {"old"}

(* The schema of the live database is read before anything else; a mode    *)
(* with rows sweeps the host of what earlier comparisons left, as far as   *)
(* that succeeds.                                                          *)
Start ==
  /\ Resting /\ runs < MaxRuns /\ runs' = runs + 1
  /\ \E mode \in Mode, filter \in {Table, Critical} :
       \E left \in IF mode \in Full THEN SUBSET Old ELSE {Old} :
         LET c == [Fresh EXCEPT !.mode = mode, !.filter = filter, !.kept = left]
         IN /\ cmp' = CASE mode = "lightDump" -> [c EXCEPT !.pc = "err"]
                        [] mode \in WithDump  -> [c EXCEPT !.pc = "create"]
                        [] OTHER -> [c EXCEPT !.pc = "read", !.todo = Shared(c)]
            /\ temp' = left
  /\ was' = [t \in DOMAIN live |-> {live[t]}]
  /\ wasOther' = [t \in DOMAIN other |-> {other[t]}]
  /\ UNCHANGED <<dbs, writes>>

(* docker run, and up to fifteen trials of the database in it: it is known *)
(* to the cleaning only when they succeed.                                 *)
Create ==
  /\ At("create")
  /\ \/ cmp' = [cmp EXCEPT !.pc = "bring"] /\ temp' = temp \cup {"container"}
     \/ Abort({})
     \/ AbortLeaving("container", {})
  /\ UNCHANGED <<dbs, runs, writes, history>>

(* The dump inside a tarball is extracted to /tmp, and the cleaning learns *)
(* of it when the file is there and not empty.                             *)
Unpack ==
  \/ cmp' = [cmp EXCEPT !.pc = "restore"] /\ temp' = temp \cup {"dump"}
  \/ AbortLeaving("dump", {"container"})

(* A dump of the host is read where it is; one of the laptop is sent to    *)
(* /tmp, which fails and succeeds like Unpack.                             *)
Bring ==
  /\ At("bring")
  /\ \/ cmp' = [cmp EXCEPT !.pc = "restore"] /\ UNCHANGED temp
     \/ Unpack
     \/ Abort({"container"})
  /\ UNCHANGED <<dbs, runs, writes, history>>

(* An error of psql leaves the table of that statement without rows.       *)
Partly(db) == {[t \in DOMAIN db |-> IF t = u THEN {} ELSE db[t]] : u \in DOMAIN db}

Both == {"container", "dump"}

(* The errors of psql are ignored, those of mariadb end the comparison. A  *)
(* dump swept away meanwhile restores nothing; so does a lost container,   *)
(* but then the schema cannot be read.                                     *)
Restore ==
  /\ At("restore")
  /\ \/ /\ "container" \in temp
        /\ \E ref \in {other, <<>>} \cup (IF engine = "postgres" THEN Partly(other) ELSE {}) :
             LET c == [cmp EXCEPT !.pc = "read", !.ref = ref]
             IN cmp' = [c EXCEPT !.todo = Shared(c)]
        /\ UNCHANGED temp
     \/ Abort(Both)
  /\ UNCHANGED <<dbs, runs, writes, history>>

Opaque(t) == nature[t] = "opaque"

(* COUNT of both sides of a table.  The sides are read one after the       *)
(* other; as they change without each other, any such reading is one of    *)
(* both at once after other writes.                                        *)
Count ==
  /\ At("read") /\ cmp.counts = <<>>
  /\ \/ /\ cmp.mode \in WithDump => "container" \in temp
        /\ \E t \in cmp.todo :
             cmp' = [cmp EXCEPT !.todo = @ \ {t}, !.counts =
                      [table |-> t, vivo |-> Cardinality(live[t]),
                       otro |-> IF cmp.mode = "light" THEN 0 ELSE Cardinality(Reference(cmp)[t])]]
        /\ UNCHANGED temp
     \/ cmp.todo # {} /\ Abort(Both)
  /\ UNCHANGED <<dbs, runs, writes, history>>

(* psql exits with 0 after an error, whose text is then the row, or the    *)
(* hash, of both sides: so it is when a column needs quotes.               *)
ErrorText(t) == engine = "postgres" /\ nature[t] = "quoted"

(* The rows of both sides, as sets.                                        *)
SameRows(t) == ErrorText(t) \/ live[t] = Reference(cmp)[t]

(* The hashes of both sides: none for a table without rows, and never one  *)
(* of MariaDB, where the shell takes the backticks for commands.           *)
SameHash(t) ==
  /\ engine = "postgres"
  /\ ErrorText(t) \/ (live[t] # {} /\ live[t] = Reference(cmp)[t])

(* Without rows: hashes of both sides that exist and are equal.            *)
SameLight(t) == ~Opaque(t) /\ SameHash(t)

Same(t) ==
  CASE cmp.mode = "light"        -> TRUE
    [] cmp.mode = "lightAgainst" -> SameLight(t)
    [] OTHER                     -> Opaque(t) \/ SameRows(t)

Diff(t) ==
  [vivo |-> cmp.counts.vivo, otro |-> cmp.counts.otro,
   reference |-> cmp.mode # "light", opaque |-> Opaque(t), same |-> Same(t)]

(* The rest of the table: its rows or its hash, a while after the count.   *)
Extract ==
  /\ At("read") /\ cmp.counts # <<>>
  /\ \/ /\ cmp.mode \in WithDump => "container" \in temp
        /\ LET t == cmp.counts.table
           IN cmp' = [cmp EXCEPT !.counts = <<>>,
                        !.diffs = [u \in DOMAIN @ \cup {t} |-> IF u = t THEN Diff(t) ELSE @[u]]]
        /\ UNCHANGED temp
     \/ Abort(Both)
  /\ UNCHANGED <<dbs, runs, writes, history>>

Report ==
  /\ At("read") /\ cmp.counts = <<>> /\ cmp.todo = {}
  /\ Cleaned([cmp EXCEPT !.pc = "ok", !.verdict = Veredicto(cmp)],
             IF cmp.mode \in WithDump THEN Both ELSE {}, {})
  /\ UNCHANGED <<dbs, runs, writes, history>>

-----------------------------------------------------------------------------
(* A site writes: the one that is compared,                                *)
WriteLive(t, rows) ==
  /\ t \in DOMAIN live /\ rows # live[t]
  /\ live' = [live EXCEPT ![t] = rows]
  /\ was' = [was EXCEPT ![t] = @ \cup {rows}]
  /\ UNCHANGED <<other, wasOther>>

(* or the one it is compared with.                                         *)
WriteOther(t, rows) ==
  /\ cmp.mode \in Against
  /\ t \in DOMAIN other /\ rows # other[t]
  /\ other' = [other EXCEPT ![t] = rows]
  /\ wasOther' = [wasOther EXCEPT ![t] = @ \cup {rows}]
  /\ UNCHANGED <<live, was>>

Write ==
  /\ ~Resting /\ writes < MaxWrites /\ writes' = writes + 1
  /\ \E t \in Table, rows \in SUBSET Row : WriteLive(t, rows) \/ WriteOther(t, rows)
  /\ UNCHANGED <<engine, nature, temp, cmp, runs>>

(* Another comparison on the host begins: its sweep is for every container *)
(* and dump with the prefix, and not only for those of cut comparisons.    *)
Sweep ==
  /\ \E left \in SUBSET temp \ {temp} : temp' = left
  /\ UNCHANGED <<dbs, cmp, runs, writes, history>>

(* The command is killed, or its connection lost: nothing is cleaned.      *)
Kill ==
  /\ ~Resting
  /\ cmp' = [Fresh EXCEPT !.pc = "cut", !.mode = cmp.mode]
  /\ UNCHANGED <<dbs, temp, runs, writes, history>>

CompareNext ==
  \/ Start \/ Create \/ Bring \/ Restore \/ Count \/ Extract \/ Report
  \/ Write \/ Sweep \/ Kill

CompareSpec == CompareInit /\ [][CompareNext]_compareVars

-----------------------------------------------------------------------------

(* The counts of the table when it was read.                               *)
ReadEmpty(t) == cmp.diffs[t].vivo = 0 \/ cmp.diffs[t].otro = 0

(* What the table held since the comparison began, and the other side too: *)
(* a table without rows on one side when it was counted is not a           *)
(* difference for the code, except a critical one of the site.             *)
Certified(t) ==
  /\ nature[t] # "opaque"
  /\ ErrorText(t) \/ ReadEmpty(t) \/ was[t] \cap wasOther[t] # {}
  /\ t \in Critical => was[t] # {{}}

(* VERDE is said only of a pinned reference, a dump or another site, whose *)
(* tables, within the filter, are those of the site and were all read; and *)
(* of each that had rows on both sides when it was counted, and whose      *)
(* columns psql can name, the site had at some moment since the comparison *)
(* began the rows that the dump has, or that the other site had at some    *)
(* moment: whatever is written meanwhile, swept away or restored in part.  *)
(* It says nothing of a table that was empty on one side, because it was   *)
(* emptied, or because the restoration failed at it.                       *)
GreenIsTrue ==
  cmp.verdict = "VERDE" =>
    /\ cmp.mode \in {"dump", "against", "lightAgainst"}
    /\ LiveTables(cmp) # {}
    /\ Schema(other) \cap cmp.filter = LiveTables(cmp) /\ DOMAIN cmp.diffs = LiveTables(cmp)
    /\ \A t \in LiveTables(cmp) : Certified(t)

(* A comparison that ends by itself, also with an error, leaves on the     *)
(* host nothing, its own or of earlier comparisons, but what it failed to  *)
(* remove, or could not know of: a database that is not ready in time, a   *)
(* dump half brought.                                                      *)
NothingLeft ==
  cmp.pc \in {"ok", "err"} /\ cmp.mode \in Full => temp \subseteq cmp.kept

=============================================================================
