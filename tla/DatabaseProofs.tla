---------------------------- MODULE DatabaseProofs ----------------------------
(***************************************************************************)
(* The three commands for the databases of sites: db-compare (DbCompare),  *)
(* db-migrate (DbMigrate) and restore-pg-data (RestorePgData), for any     *)
(* tables, rows, versions, commands, runs and writes.                      *)
(***************************************************************************)
EXTENDS DbCompare, DbMigrate, RestorePgData, FiniteSetTheorems, WellFoundedInduction, TLAPS

(* Comparisons.                                                             *)
Places == Both \cup {"old"}
Counts == {<<>>} \cup [table : Table, vivo : Nat, otro : Nat]
Diffs == [vivo : Nat, otro : Nat, reference : BOOLEAN, opaque : BOOLEAN, same : BOOLEAN]
References == {<<>>} \cup Database
Comparisons ==
  [pc : Ended \cup {"create", "bring", "restore", "read"}, mode : Mode, filter : SUBSET Table,
   todo : SUBSET Table, counts : Counts, ref : References,
   diffs : {<<>>} \cup UNION {[tables -> Diffs] : tables \in SUBSET Table},
   kept : SUBSET Places, verdict : {"none", "ROJO", "GRIS", "AMARILLO", "VERDE"}]

CompareTypeOK ==
  /\ engine \in {"postgres", "mariadb"}
  /\ nature \in [Table -> {"plain", "opaque", "quoted"}]
  /\ live \in Database /\ other \in Database
  /\ temp \subseteq Places
  /\ cmp \in Comparisons
  /\ was \in [DOMAIN live -> SUBSET (SUBSET Row)]
  /\ wasOther \in [DOMAIN other -> SUBSET (SUBSET Row)]

(* What both sides are was seen.                                            *)
Seen ==
  /\ \A t \in DOMAIN live : live[t] \in was[t]
  /\ \A t \in DOMAIN other : other[t] \in wasOther[t]

(* A restored dump is the dump but for the tables that failed, or nothing.  *)
RefOK(c) ==
  /\ c.mode # "lightDump"
  /\ c.mode \in WithDump =>
       /\ DOMAIN c.ref \in {DOMAIN other, {}}
       /\ \A t \in DOMAIN c.ref : c.ref[t] \in {other[t], {}}

(* What the counts v and o of a table stand for, w being what the tables    *)
(* held since the comparison c began.                                       *)
Counted(c, w, t, v, o) ==
  /\ \E rows \in w[t] : v = Cardinality(rows)
  /\ c.mode \in WithDump => o = Cardinality(c.ref[t])

(* What is said to be the same was so at some moment, if there was any.     *)
SameOnce(c, w, wo, t, d) ==
  c.mode # "light" /\ d.same =>
    Opaque(t) \/ ErrorText(t) \/ d.otro = 0 \/ w[t] \cap wo[t] # {}

DiffOK(c, w, wo, t, d) ==
  /\ Counted(c, w, t, d.vivo, d.otro)
  /\ d.reference <=> c.mode # "light"
  /\ d.opaque <=> Opaque(t)
  /\ SameOnce(c, w, wo, t, d)

(* Every table of both sides is still to be read, or half read, or read.    *)
ReadOK(c, w, wo, shared) ==
  /\ shared \subseteq c.todo \cup DOMAIN c.diffs \cup
                      (IF c.counts = <<>> THEN {} ELSE {c.counts.table})
  /\ c.todo \subseteq shared /\ DOMAIN c.diffs \subseteq shared
  /\ c.counts # <<>> =>
       /\ c.counts.table \in shared
       /\ Counted(c, w, c.counts.table, c.counts.vivo, c.counts.otro)
  /\ \A t \in DOMAIN c.diffs : DiffOK(c, w, wo, t, c.diffs[t])
  /\ RefOK(c)

(* What a comparison may have on the host, but for what it keeps.           *)
HostOK(c, tmp) ==
  /\ c.pc \in {"create", "bring", "restore"} =>
       c.mode \in WithDump /\ c.counts = <<>> /\ c.diffs = <<>>
  /\ c.pc = "create" => tmp \subseteq c.kept
  /\ c.pc = "bring" => tmp \subseteq c.kept \cup {"container"}
  /\ c.pc \in {"restore", "read"} /\ c.mode \in Full => tmp \subseteq c.kept \cup Both
  /\ c.pc = "read" /\ c.mode \in Full /\ c.mode \notin WithDump => tmp \subseteq c.kept
  /\ c.pc \in {"ok", "err"} /\ c.mode \in Full => tmp \subseteq c.kept

CompareInv ==
  /\ CompareTypeOK /\ Seen
  /\ HostOK(cmp, temp)
  /\ cmp.pc = "read" => ReadOK(cmp, was, wasOther, Shared(cmp))
  /\ cmp.verdict = "VERDE" => cmp.pc = "ok"
  /\ GreenIsTrue

LEMMA NoTables ==
  /\ DOMAIN <<>> = {}
  /\ \A d \in Database : DOMAIN d \in SUBSET Table /\ \A t \in DOMAIN d : d[t] \in SUBSET Row
  /\ \A d \in References : DOMAIN d \in SUBSET Table /\ \A t \in DOMAIN d : d[t] \in SUBSET Row
<1>1. DOMAIN <<>> = {}
  OBVIOUS
<1>2. ASSUME NEW d \in Database
      PROVE  DOMAIN d \in SUBSET Table /\ \A t \in DOMAIN d : d[t] \in SUBSET Row
  BY DEF Database
<1> QED BY <1>1, <1>2 DEF References

LEMMA FreshIs ==
  /\ Fresh \in Comparisons
  /\ Fresh.pc = "idle" /\ Fresh.mode = "light" /\ Fresh.filter = Table /\ Fresh.todo = {}
  /\ Fresh.counts = <<>> /\ Fresh.ref = <<>> /\ Fresh.diffs = <<>>
  /\ Fresh.kept = {} /\ Fresh.verdict = "none"
BY DEF Fresh, Comparisons, Counts, References, Mode, Ended

LEMMA CompareInitInv == CompareInit => CompareInv
<1> SUFFICES ASSUME CompareInit PROVE CompareInv
  OBVIOUS
<1>2. cmp \in Comparisons /\ cmp.pc = "idle" /\ cmp.verdict = "none"
  BY FreshIs DEF CompareInit
<1>3. CompareTypeOK /\ Seen
  <2>1. /\ was \in [DOMAIN live -> SUBSET (SUBSET Row)]
        /\ wasOther \in [DOMAIN other -> SUBSET (SUBSET Row)] /\ Seen
    BY NoTables DEF CompareInit, Seen
  <2>2. nature \in [Table -> {"plain", "opaque", "quoted"}]
    BY CompareAssumption DEF CompareInit
  <2> QED BY <1>2, <2>1, <2>2 DEF CompareInit, CompareTypeOK, Both, Places
<1> QED BY <1>2, <1>3 DEF CompareInv, HostOK, GreenIsTrue

(* The comparison goes on, with what it has on the host, or ends without a  *)
(* verdict.                                                                 *)
LEMMA GoesOn ==
  ASSUME CompareInv, UNCHANGED <<dbs, history>>, temp' \subseteq Places,
         cmp' \in Comparisons, cmp'.verdict # "VERDE", HostOK(cmp', temp'),
         cmp'.pc = "read" => ReadOK(cmp, was, wasOther, Shared(cmp))'
  PROVE  CompareInv'
<1>1. CompareTypeOK' /\ Seen'
  BY DEF CompareInv, CompareTypeOK, Seen, dbs, history
<1> QED BY <1>1 DEF CompareInv, GreenIsTrue

(* What a cleaning leaves is what it failed to remove, or cannot know of.   *)
LEMMA CleanedIs ==
  ASSUME NEW c \in Comparisons, NEW guard, NEW slipped \in SUBSET Places, temp \subseteq Places,
         Cleaned(c, guard, slipped)
  PROVE  /\ cmp' \in Comparisons /\ temp' \subseteq Places
         /\ cmp'.pc = c.pc /\ cmp'.mode = c.mode /\ cmp'.filter = c.filter /\ cmp'.ref = c.ref
         /\ cmp'.diffs = c.diffs /\ cmp'.verdict = c.verdict
         /\ temp \subseteq c.kept \cup guard => temp' \subseteq cmp'.kept
<1>1. PICK failed \in SUBSET (guard \cap temp) :
        /\ temp' = (temp \ (guard \ failed)) \cup slipped
        /\ cmp' = [c EXCEPT !.kept = @ \cup failed \cup slipped]
  BY DEF Cleaned
<1> DEFINE K == c.kept \cup failed \cup slipped
<1>2. K \in SUBSET Places
  BY DEF Comparisons
<1>3. cmp' = [c EXCEPT !.kept = K]
  BY <1>1
<1>4. /\ cmp' \in Comparisons /\ cmp'.kept = K
      /\ cmp'.pc = c.pc /\ cmp'.mode = c.mode /\ cmp'.filter = c.filter /\ cmp'.ref = c.ref
      /\ cmp'.diffs = c.diffs /\ cmp'.verdict = c.verdict
  <2> HIDE DEF K
  <2> QED BY <1>2, <1>3 DEF Comparisons
<1> QED BY <1>1, <1>4

LEMMA AbortedIs ==
  ASSUME CompareInv
  PROVE  /\ Aborted \in Comparisons /\ Aborted.pc = "err" /\ Aborted.mode = cmp.mode
         /\ Aborted.kept = cmp.kept /\ Aborted.verdict = "none"
<1>1. cmp.mode \in Mode /\ cmp.kept \in SUBSET Places /\ "err" \in Ended
  BY DEF CompareInv, CompareTypeOK, Comparisons, Ended
<1> QED BY <1>1, FreshIs DEF Aborted, Comparisons

LEMMA AbortKeepsInv ==
  ASSUME CompareInv, NEW guard, NEW slipped \in SUBSET Places, Cleaned(Aborted, guard, slipped),
         UNCHANGED <<dbs, history>>,
         cmp.mode \in Full => temp \subseteq cmp.kept \cup guard
  PROVE  CompareInv'
<1>1. /\ cmp' \in Comparisons /\ temp' \subseteq Places
      /\ cmp'.pc = "err" /\ cmp'.mode = cmp.mode /\ cmp'.verdict = "none"
      /\ cmp.mode \in Full => temp' \subseteq cmp'.kept
  BY AbortedIs, CleanedIs DEF CompareInv, CompareTypeOK
<1> QED BY <1>1, GoesOn DEF HostOK

(* A comparison that has read nothing of the references it has.             *)
LEMMA NothingRead ==
  ASSUME (cmp.todo = Shared(cmp) /\ cmp.counts = <<>> /\ cmp.diffs = <<>> /\ RefOK(cmp))'
  PROVE  ReadOK(cmp, was, wasOther, Shared(cmp))'
BY NoTables DEF ReadOK

LEMMA StartKeeps == ASSUME CompareInv, Start PROVE CompareInv'
<1>1. PICK mode \in Mode, filter \in {Table, Critical} :
        \E left \in IF mode \in Full THEN SUBSET Old ELSE {Old} :
          LET c == [Fresh EXCEPT !.mode = mode, !.filter = filter, !.kept = left]
          IN /\ cmp' = CASE mode = "lightDump" -> [c EXCEPT !.pc = "err"]
                         [] mode \in WithDump  -> [c EXCEPT !.pc = "create"]
                         [] OTHER -> [c EXCEPT !.pc = "read", !.todo = Shared(c)]
             /\ temp' = left
  BY DEF Start
<1>0. PICK left \in IF mode \in Full THEN SUBSET Old ELSE {Old} :
          LET c == [Fresh EXCEPT !.mode = mode, !.filter = filter, !.kept = left]
          IN /\ cmp' = CASE mode = "lightDump" -> [c EXCEPT !.pc = "err"]
                         [] mode \in WithDump  -> [c EXCEPT !.pc = "create"]
                         [] OTHER -> [c EXCEPT !.pc = "read", !.todo = Shared(c)]
             /\ temp' = left
  BY <1>1
<1> DEFINE c == [Fresh EXCEPT !.mode = mode, !.filter = filter, !.kept = left]
<1>2. /\ UNCHANGED dbs /\ was' = [t \in DOMAIN live |-> {live[t]}]
      /\ wasOther' = [t \in DOMAIN other |-> {other[t]}]
  BY DEF Start
<1>3. /\ was' \in [DOMAIN live' -> SUBSET (SUBSET Row)]
      /\ wasOther' \in [DOMAIN other' -> SUBSET (SUBSET Row)] /\ Seen'
  BY <1>2, NoTables DEF CompareInv, CompareTypeOK, Seen, dbs
<1>9. left \in SUBSET Places /\ temp' = left
  BY <1>0 DEF Old, Places
<1>4. ASSUME cmp' \in Comparisons, cmp'.verdict = "none", HostOK(cmp', temp'),
             cmp'.pc = "read" => ReadOK(cmp, was, wasOther, Shared(cmp))'
      PROVE  CompareInv'
  <2>1. CompareTypeOK'
    BY <1>2, <1>3, <1>4, <1>9 DEF CompareInv, CompareTypeOK, dbs
  <2> QED BY <1>3, <1>4, <2>1 DEF CompareInv, GreenIsTrue
<1>5. filter \in SUBSET Table
  BY CompareAssumption
<1>6. /\ c \in Comparisons
      /\ c.mode = mode /\ c.filter = filter /\ c.todo = {} /\ c.counts = <<>> /\ c.ref = <<>>
      /\ c.diffs = <<>> /\ c.kept = left /\ c.verdict = "none"
  BY <1>5, <1>9, FreshIs DEF Comparisons
<1>7. CASE mode = "lightDump"
  <2>1. cmp' = [c EXCEPT !.pc = "err"]
    BY <1>0, <1>7 DEF WithDump
  <2> HIDE DEF c
  <2>2. cmp' \in Comparisons /\ cmp'.pc = "err" /\ cmp'.mode = mode /\ cmp'.verdict = "none"
    BY <1>6, <2>1 DEF Comparisons, Ended
  <2> QED BY <1>4, <1>7, <2>2 DEF HostOK, Full, WithDump
<1>8. CASE mode \in WithDump
  <2>1. cmp' = [c EXCEPT !.pc = "create"]
    BY <1>0, <1>8 DEF WithDump
  <2> HIDE DEF c
  <2>2. cmp' \in Comparisons /\ cmp'.pc = "create" /\ cmp'.mode = mode /\ cmp'.verdict = "none"
        /\ cmp'.counts = <<>> /\ cmp'.diffs = <<>> /\ cmp'.kept = left
    BY <1>6, <2>1 DEF Comparisons
  <2> QED BY <1>4, <1>8, <1>9, <2>2 DEF HostOK
<1>10. CASE mode # "lightDump" /\ mode \notin WithDump
  <2>1. cmp' = [c EXCEPT !.pc = "read", !.todo = Shared(c)]
    BY <1>0, <1>10
  <2> HIDE DEF c
  <2>2. Shared(c) \in SUBSET Table
    BY NoTables DEF Shared, LiveTables, Schema, CompareInv, CompareTypeOK
  <2>3. /\ cmp' \in Comparisons /\ cmp'.pc = "read" /\ cmp'.mode = mode /\ cmp'.verdict = "none"
        /\ cmp'.filter = filter /\ cmp'.ref = <<>> /\ cmp'.todo = Shared(c)
        /\ cmp'.counts = <<>> /\ cmp'.diffs = <<>> /\ cmp'.kept = left
    BY <1>6, <2>1, <2>2 DEF Comparisons
  <2>4. Shared(cmp)' = Shared(c)
    BY <1>2, <1>6, <2>3 DEF Shared, LiveTables, OtherTables, Schema, Reference, dbs
  <2>5. HostOK(cmp', temp')
    BY <1>9, <1>10, <2>3 DEF HostOK
  <2>6. RefOK(cmp)'
    BY <1>10, <2>3 DEF RefOK
  <2> QED BY <1>4, <2>3, <2>4, <2>5, <2>6, NothingRead
<1> QED BY <1>7, <1>8, <1>10

LEMMA CreateKeeps == ASSUME CompareInv, Create PROVE CompareInv'
<1>1. /\ cmp.pc = "create" /\ temp \subseteq cmp.kept /\ cmp.mode \in WithDump
      /\ temp \subseteq Places /\ UNCHANGED <<dbs, history>>
  BY DEF Create, At, CompareInv, HostOK, CompareTypeOK
<1>2. CASE cmp' = [cmp EXCEPT !.pc = "bring"] /\ temp' = temp \cup {"container"}
  <2>1. cmp' \in Comparisons /\ cmp'.pc = "bring" /\ cmp'.mode = cmp.mode /\ cmp'.verdict = cmp.verdict
        /\ cmp'.counts = cmp.counts /\ cmp'.diffs = cmp.diffs /\ cmp'.kept = cmp.kept
    BY <1>2 DEF CompareInv, CompareTypeOK, Comparisons
  <2> QED BY <1>1, <1>2, <2>1, GoesOn DEF HostOK, Both, Places, CompareInv
<1>3. CASE Abort({})
  BY <1>1, <1>3, AbortKeepsInv DEF Abort
<1>4. CASE AbortLeaving("container", {})
  <2>1. {"container"} \in SUBSET Places
    BY DEF Places, Both
  <2> QED BY <1>1, <1>4, <2>1, AbortKeepsInv DEF AbortLeaving
<1> QED BY <1>2, <1>3, <1>4 DEF Create

LEMMA BringKeeps == ASSUME CompareInv, Bring PROVE CompareInv'
<1>1. /\ cmp.pc = "bring" /\ temp \subseteq cmp.kept \cup {"container"} /\ cmp.mode \in WithDump
      /\ temp \subseteq Places /\ UNCHANGED <<dbs, history>>
  BY DEF Bring, At, CompareInv, HostOK, CompareTypeOK
<1>2. CASE cmp' = [cmp EXCEPT !.pc = "restore"] /\ temp' \subseteq temp \cup {"dump"}
  <2>1. cmp' \in Comparisons /\ cmp'.pc = "restore" /\ cmp'.mode = cmp.mode /\ cmp'.verdict = cmp.verdict
        /\ cmp'.counts = cmp.counts /\ cmp'.diffs = cmp.diffs /\ cmp'.kept = cmp.kept
    BY <1>2 DEF CompareInv, CompareTypeOK, Comparisons
  <2> QED BY <1>1, <1>2, <2>1, GoesOn DEF HostOK, Both, Places, CompareInv
<1>3. CASE Abort({"container"})
  BY <1>1, <1>3, AbortKeepsInv DEF Abort
<1>4. CASE AbortLeaving("dump", {"container"})
  <2>1. {"dump"} \in SUBSET Places
    BY DEF Places, Both
  <2> QED BY <1>1, <1>4, <2>1, AbortKeepsInv DEF AbortLeaving
<1> QED BY <1>2, <1>3, <1>4 DEF Bring, Unpack

LEMMA RestoreKeeps == ASSUME CompareInv, Restore PROVE CompareInv'
<1>1. /\ cmp.pc = "restore" /\ cmp.mode \in WithDump /\ UNCHANGED <<dbs, history>>
      /\ temp \subseteq cmp.kept \cup Both /\ temp \subseteq Places
  BY DEF Restore, At, CompareInv, HostOK, CompareTypeOK, Full
<1>2. CASE ~ Abort(Both)
  <2>1. PICK ref \in {other, <<>>} \cup (IF engine = "postgres" THEN Partly(other) ELSE {}) :
          LET c == [cmp EXCEPT !.pc = "read", !.ref = ref]
          IN cmp' = [c EXCEPT !.todo = Shared(c)]
    BY <1>2 DEF Restore
  <2>2. /\ ref \in References
        /\ DOMAIN ref \in {DOMAIN other, {}} /\ \A t \in DOMAIN ref : ref[t] \in {other[t], {}}
    <3>1. ASSUME NEW u \in DOMAIN other
          PROVE  [t \in DOMAIN other |-> IF t = u THEN {} ELSE other[t]] \in Database
      BY NoTables DEF CompareInv, CompareTypeOK, Database
    <3>2. Partly(other) \subseteq Database
      BY <3>1 DEF Partly
    <3>3. \A d \in Partly(other) : DOMAIN d = DOMAIN other /\ \A t \in DOMAIN d : d[t] \in {other[t], {}}
      BY DEF Partly
    <3> QED BY <3>2, <3>3, NoTables DEF References, CompareInv, CompareTypeOK
  <2> DEFINE c == [cmp EXCEPT !.pc = "read", !.ref = ref]
  <2>3. c \in Comparisons /\ c.mode = cmp.mode /\ c.verdict = cmp.verdict /\ c.filter = cmp.filter
        /\ c.counts = cmp.counts /\ c.diffs = cmp.diffs /\ c.pc = "read" /\ c.ref = ref
        /\ c.kept = cmp.kept
    BY <2>2 DEF CompareInv, CompareTypeOK, Comparisons
  <2>4. cmp' = [c EXCEPT !.todo = Shared(c)]
    BY <2>1
  <2> HIDE DEF c
  <2>5. Shared(c) \in SUBSET Table
    BY NoTables DEF Shared, LiveTables, Schema, CompareInv, CompareTypeOK
  <2>6. cmp' \in Comparisons /\ cmp'.mode = c.mode /\ cmp'.verdict = c.verdict /\ cmp'.filter = c.filter
        /\ cmp'.counts = c.counts /\ cmp'.diffs = c.diffs /\ cmp'.pc = c.pc /\ cmp'.ref = c.ref
        /\ cmp'.todo = Shared(c) /\ cmp'.kept = c.kept
    BY <2>3, <2>4, <2>5 DEF Comparisons
  <2>7. Shared(cmp)' = Shared(c)
    BY <1>1, <2>3, <2>6 DEF Shared, LiveTables, OtherTables, Schema, Reference, dbs
  <2>8. RefOK(cmp)'
    BY <1>1, <2>2, <2>3, <2>6 DEF RefOK, WithDump, dbs
  <2>9. cmp.counts = <<>> /\ cmp.diffs = <<>> /\ cmp.verdict # "VERDE"
    BY <1>1 DEF CompareInv, HostOK
  <2>10. HostOK(cmp', temp')
    BY <1>1, <1>2, <2>3, <2>6 DEF HostOK, Restore
  <2>11. temp' \subseteq Places
    BY <1>1, <1>2 DEF Restore
  <2>12. ReadOK(cmp, was, wasOther, Shared(cmp))'
    BY <2>3, <2>6, <2>7, <2>8, <2>9, NothingRead
  <2> QED BY <1>1, <2>3, <2>6, <2>9, <2>10, <2>11, <2>12, GoesOn
<1>3. CASE Abort(Both)
  BY <1>1, <1>3, AbortKeepsInv DEF Abort
<1> QED BY <1>2, <1>3

(* What stays as it was while tables are read.                              *)
LEMMA ReadsOn ==
  ASSUME CompareInv, cmp.pc = "read", NEW c \in Comparisons, cmp' = c,
         UNCHANGED <<dbs, history, temp>>,
         c.pc = cmp.pc, c.mode = cmp.mode, c.filter = cmp.filter, c.ref = cmp.ref,
         c.verdict = cmp.verdict, c.kept = cmp.kept,
         ReadOK(cmp, was, wasOther, Shared(cmp)) => ReadOK(c, was, wasOther, Shared(cmp))
  PROVE  CompareInv'
<1>1. Shared(cmp)' = Shared(cmp)
  BY DEF Shared, LiveTables, OtherTables, Schema, Reference, dbs
<1>2. ReadOK(cmp, was, wasOther, Shared(cmp))'
  <2>1. ReadOK(c, was, wasOther, Shared(cmp))
    BY DEF CompareInv
  <2> QED BY <1>1, <2>1 DEF ReadOK, RefOK, DiffOK, Counted, SameOnce, Opaque, ErrorText, dbs, history
<1>3. HostOK(cmp', temp')
  BY DEF CompareInv, HostOK
<1>4. temp' \subseteq Places /\ cmp'.verdict # "VERDE"
  BY DEF CompareInv, CompareTypeOK
<1> QED BY <1>2, <1>3, <1>4, GoesOn

LEMMA AbortRead ==
  ASSUME CompareInv, cmp.pc = "read", Abort(Both), UNCHANGED <<dbs, history>>
  PROVE  CompareInv'
<1>1. cmp.mode \in Full => temp \subseteq cmp.kept \cup Both
  BY DEF CompareInv, HostOK
<1> QED BY <1>1, AbortKeepsInv DEF Abort

LEMMA CountKeeps == ASSUME CompareInv, Count PROVE CompareInv'
<1>1. cmp.pc = "read" /\ cmp.counts = <<>> /\ UNCHANGED <<dbs, history>> /\ cmp \in Comparisons
  BY DEF Count, At, CompareInv, CompareTypeOK
<1>2. CASE ~ Abort(Both)
  <2> DEFINE R == Reference(cmp)
  <2>1. PICK t \in cmp.todo :
          cmp' = [cmp EXCEPT !.todo = @ \ {t}, !.counts =
                   [table |-> t, vivo |-> Cardinality(live[t]),
                    otro |-> IF cmp.mode = "light" THEN 0 ELSE Cardinality(R[t])]]
    BY <1>2 DEF Count
  <2>2. ReadOK(cmp, was, wasOther, Shared(cmp)) /\ t \in Shared(cmp)
    BY <1>1 DEF CompareInv, ReadOK
  <2>3. t \in DOMAIN live /\ t \in Table /\ (cmp.mode # "light" => t \in DOMAIN R)
    BY <1>1, <2>2 DEF Shared, LiveTables, OtherTables, Schema, Comparisons
  <2>4. live[t] \in was[t] /\ live[t] \in SUBSET Row
    BY <2>3, NoTables DEF CompareInv, CompareTypeOK, Seen
  <2>5. Cardinality(live[t]) \in Nat
    BY <2>4, CompareAssumption, FS_Subset, FS_CardinalityType
  <2>6. cmp.mode # "light" => Cardinality(R[t]) \in Nat
    <3> SUFFICES ASSUME cmp.mode # "light" PROVE Cardinality(R[t]) \in Nat
      OBVIOUS
    <3>1. R[t] \in SUBSET Row
      <4>1. other \in References /\ cmp.ref \in References
        BY <1>1 DEF Comparisons, References, CompareInv, CompareTypeOK
      <4>2. R \in References
        BY <4>1 DEF Reference
      <4> QED BY <2>3, <4>2, NoTables
    <3> QED BY <3>1, CompareAssumption, FS_Subset, FS_CardinalityType
  <2> DEFINE n == [table |-> t, vivo |-> Cardinality(live[t]),
                   otro |-> IF cmp.mode = "light" THEN 0 ELSE Cardinality(R[t])]
             c == [cmp EXCEPT !.todo = @ \ {t}, !.counts = n]
  <2>7. n \in Counts /\ n # <<>> /\ n.table = t /\ Counted(cmp, was, t, n.vivo, n.otro)
    <3>1. n \in [table : Table, vivo : Nat, otro : Nat] /\ n.table = t
      BY <2>3, <2>5, <2>6
    <3>2. n # <<>>
      BY DOMAIN n = {"table", "vivo", "otro"}, NoTables
    <3>3. cmp.mode \in WithDump => n.otro = Cardinality(cmp.ref[t])
      BY DEF Reference, Against, WithDump
    <3> QED BY <2>4, <3>1, <3>2, <3>3 DEF Counts, Counted
  <2> HIDE DEF n
  <2>8. c \in Comparisons /\ c.todo = cmp.todo \ {t} /\ c.counts = n /\ c.diffs = cmp.diffs
        /\ c.pc = cmp.pc /\ c.mode = cmp.mode /\ c.filter = cmp.filter /\ c.ref = cmp.ref
        /\ c.verdict = cmp.verdict /\ c.kept = cmp.kept
    BY <1>1, <2>7 DEF Comparisons
  <2>9. cmp' = c /\ UNCHANGED temp
    BY <1>2, <2>1 DEF Count, n
  <2> HIDE DEF c
  <2>10. ReadOK(c, was, wasOther, Shared(cmp))
    BY <1>1, <2>2, <2>7, <2>8 DEF ReadOK, RefOK, DiffOK, Counted, SameOnce
  <2> QED BY <1>1, <2>8, <2>9, <2>10, ReadsOn
<1>3. CASE Abort(Both)
  BY <1>1, <1>3, AbortRead
<1> QED BY <1>2, <1>3

LEMMA ExtractKeeps == ASSUME CompareInv, Extract PROVE CompareInv'
<1>1. cmp.pc = "read" /\ cmp.counts # <<>> /\ UNCHANGED <<dbs, history>> /\ cmp \in Comparisons
  BY DEF Extract, At, CompareInv, CompareTypeOK
<1>2. CASE ~ Abort(Both)
  <2> DEFINE t == cmp.counts.table
             ds == [u \in DOMAIN cmp.diffs \cup {t} |-> IF u = t THEN Diff(t) ELSE cmp.diffs[u]]
             c == [cmp EXCEPT !.counts = <<>>, !.diffs = ds]
  <2>1. cmp' = c /\ UNCHANGED temp
    BY <1>2 DEF Extract
  <2>2. ReadOK(cmp, was, wasOther, Shared(cmp)) /\ t \in Shared(cmp)
        /\ Counted(cmp, was, t, cmp.counts.vivo, cmp.counts.otro)
    BY <1>1 DEF CompareInv, ReadOK
  <2>3. t \in DOMAIN live /\ t \in Table
    BY <1>1, <2>2, NoTables DEF Shared, LiveTables, Schema, CompareInv, CompareTypeOK
  <2>4. cmp.counts \in [table : Table, vivo : Nat, otro : Nat]
    BY <1>1 DEF Comparisons, Counts
  <2>5. Diff(t) \in Diffs /\ Diff(t).vivo = cmp.counts.vivo /\ Diff(t).otro = cmp.counts.otro
        /\ (Diff(t).reference <=> cmp.mode # "light") /\ (Diff(t).opaque <=> Opaque(t))
        /\ (Diff(t).same <=> Same(t))
    <3>1. Same(t) \in BOOLEAN /\ Opaque(t) \in BOOLEAN
      BY DEF Same, Opaque, SameLight, SameHash, SameRows, ErrorText
    <3> QED BY <2>4, <3>1 DEF Diff, Diffs
  <2>6. DiffOK(cmp, was, wasOther, t, Diff(t))
    <3>1. SameOnce(cmp, was, wasOther, t, Diff(t))
      <4> SUFFICES ASSUME cmp.mode # "light", Same(t), ~Opaque(t), ~ErrorText(t), Diff(t).otro # 0
                   PROVE  was[t] \cap wasOther[t] # {}
        BY <2>5 DEF SameOnce
      <4>1. live[t] = Reference(cmp)[t] /\ live[t] \in was[t]
        BY <2>3 DEF Same, SameLight, SameHash, SameRows, CompareInv, Seen
      <4>2. t \in DOMAIN Reference(cmp)
        BY <2>2 DEF Shared, OtherTables, Schema
      <4>3. CASE cmp.mode \in Against
        BY <4>1, <4>2, <4>3 DEF Reference, CompareInv, Seen
      <4>4. CASE cmp.mode \notin Against
        <5>1. cmp.mode \in WithDump
          <6>1. cmp.mode \in Mode /\ cmp.mode # "lightDump"
            BY <1>1, <2>2 DEF Comparisons, ReadOK, RefOK
          <6> QED BY <4>4, <6>1 DEF Mode, Full, Against
        <5>2. t \in DOMAIN other /\ cmp.ref[t] \in {other[t], {}} /\ live[t] = cmp.ref[t]
          BY <2>2, <4>1, <4>2, <4>4, <5>1 DEF ReadOK, RefOK, Reference
        <5>3. cmp.ref[t] # {}
          BY <2>2, <2>5, <5>1, FS_EmptySet DEF Counted
        <5> QED BY <4>1, <5>2, <5>3 DEF CompareInv, Seen
      <4> QED BY <4>3, <4>4
    <3> QED BY <2>2, <2>5, <3>1 DEF DiffOK
  <2>7. ds \in UNION {[tables -> Diffs] : tables \in SUBSET Table}
        /\ DOMAIN ds = DOMAIN cmp.diffs \cup {t} /\ ds[t] = Diff(t)
        /\ \A u \in DOMAIN cmp.diffs : u # t => ds[u] = cmp.diffs[u]
    <3>1. DOMAIN cmp.diffs \subseteq Table /\ \A u \in DOMAIN cmp.diffs : cmp.diffs[u] \in Diffs
      BY <1>1, NoTables DEF Comparisons
    <3>2. ds \in [DOMAIN cmp.diffs \cup {t} -> Diffs]
      BY <2>5, <3>1
    <3> QED BY <2>3, <3>1, <3>2
  <2> HIDE DEF ds
  <2>8. c \in Comparisons /\ c.todo = cmp.todo /\ c.counts = <<>> /\ c.diffs = ds
        /\ c.pc = cmp.pc /\ c.mode = cmp.mode /\ c.filter = cmp.filter /\ c.ref = cmp.ref
        /\ c.verdict = cmp.verdict /\ c.kept = cmp.kept
    BY <1>1, <2>7 DEF Comparisons, Counts
  <2> HIDE DEF c
  <2>9. \A u \in DOMAIN ds : DiffOK(c, was, wasOther, u, ds[u])
    <3>1. \A u \in DOMAIN ds : DiffOK(cmp, was, wasOther, u, ds[u])
      BY <2>2, <2>6, <2>7 DEF ReadOK
    <3> QED BY <2>8, <3>1 DEF DiffOK, Counted, SameOnce
  <2>10. ReadOK(c, was, wasOther, Shared(cmp))
    BY <1>1, <2>2, <2>7, <2>8, <2>9 DEF ReadOK, RefOK
  <2> QED BY <1>1, <2>1, <2>8, <2>10, ReadsOn
<1>3. CASE Abort(Both)
  BY <1>1, <1>3, AbortRead
<1> QED BY <1>2, <1>3

(* Tables that both sides have and that were compared, where the states     *)
(* say neither that they differ nor that they cannot be compared.           *)
LEMMA Green ==
  ASSUME CompareInv, cmp.pc = "read", cmp.counts = <<>>, cmp.todo = {}, Veredicto(cmp) = "VERDE"
  PROVE  /\ Pinned(cmp.mode) /\ LiveTables(cmp) # {}
         /\ Schema(other) \cap cmp.filter = LiveTables(cmp) /\ DOMAIN cmp.diffs = LiveTables(cmp)
         /\ \A t \in LiveTables(cmp) : Certified(t)
<1> DEFINE states == {Classify(cmp.diffs[t]) : t \in DOMAIN cmp.diffs}
<1>1. /\ LiveTables(cmp) \cup OtherTables(cmp) # {}
      /\ \A t \in Critical \cap DOMAIN cmp.diffs : cmp.diffs[t].vivo # 0
      /\ Pinned(cmp.mode)
      /\ OneSided(cmp) = {}
      /\ "differs" \notin states /\ "notComparable" \notin states
  <2> HIDE DEF states
  <2>1. Veredicto(cmp) =
          (IF \/ LiveTables(cmp) \cup OtherTables(cmp) = {}
              \/ \E t \in Critical \cap DOMAIN cmp.diffs : cmp.diffs[t].vivo = 0
           THEN "ROJO"
           ELSE IF ~Pinned(cmp.mode) THEN "GRIS"
           ELSE IF OneSided(cmp) # {} \/ {"differs", "notComparable"} \cap states # {} THEN "AMARILLO"
           ELSE "VERDE")
    BY DEF Veredicto, states
  <2> QED BY <2>1
<1>2. LiveTables(cmp) = OtherTables(cmp) /\ Shared(cmp) = LiveTables(cmp) /\ LiveTables(cmp) # {}
  BY <1>1 DEF OneSided, Shared
<1>3. /\ DOMAIN cmp.diffs = Shared(cmp) /\ RefOK(cmp)
      /\ \A t \in DOMAIN cmp.diffs : DiffOK(cmp, was, wasOther, t, cmp.diffs[t])
  BY DEF CompareInv, ReadOK
<1>4. ASSUME NEW t \in LiveTables(cmp) PROVE Certified(t)
  <2> DEFINE d == cmp.diffs[t]
  <2>1. /\ t \in DOMAIN cmp.diffs /\ DiffOK(cmp, was, wasOther, t, d)
        /\ Classify(d) # "differs" /\ Classify(d) # "notComparable"
    BY <1>1, <1>2, <1>3
  <2>2. cmp.mode # "light"
    BY <1>1 DEF Pinned
  <2>3. PICK rows \in was[t] : d.vivo = Cardinality(rows)
    BY <2>1 DEF DiffOK, Counted
  <2>4. d.reference /\ (d.opaque <=> Opaque(t))
    BY <2>1, <2>2 DEF DiffOK
  <2>5. d.same => Opaque(t) \/ ErrorText(t) \/ d.otro = 0 \/ was[t] \cap wasOther[t] # {}
    BY <2>1, <2>2 DEF DiffOK, SameOnce
  <2>6. rows \in SUBSET Row
    <3>1. t \in DOMAIN live
      BY DEF LiveTables, Schema
    <3> QED BY <2>3, <3>1 DEF CompareInv, CompareTypeOK
  <2>7. d \in Diffs
    BY <2>1, NoTables DEF CompareInv, CompareTypeOK, Comparisons
  <2>8. d.vivo \in Nat /\ d.otro \in Nat /\ (d.vivo = 0 <=> rows = {})
    <3>1. IsFiniteSet(rows)
      BY <2>6, CompareAssumption, FS_Subset
    <3> QED BY <2>3, <2>7, <3>1, FS_CardinalityType, FS_EmptySet DEF Diffs
  <2>13. d.vivo = cmp.diffs[t].vivo /\ d.otro = cmp.diffs[t].otro
    OBVIOUS
  <2> HIDE DEF d
  <2>9. ~d.opaque /\ (d.otro = 0 \/ d.vivo = 0 \/ d.same)
    BY <2>1, <2>4, <2>8 DEF Classify
  <2>10. nature[t] # "opaque"
    BY <2>4, <2>9 DEF Opaque
  <2>11. ErrorText(t) \/ ReadEmpty(t) \/ was[t] \cap wasOther[t] # {}
    BY <2>4, <2>5, <2>9, <2>13 DEF ReadEmpty
  <2>12. t \in Critical => was[t] # {{}}
    BY <1>1, <2>1, <2>3, <2>8, <2>13
  <2> QED BY <2>10, <2>11, <2>12 DEF Certified
<1>5. Schema(other) \cap cmp.filter = LiveTables(cmp)
  <2>1. OtherTables(cmp) = DOMAIN Reference(cmp) \cap cmp.filter
    BY <1>1 DEF OtherTables, Schema, Pinned
  <2>2. DOMAIN Reference(cmp) \in {DOMAIN other, {}}
    BY <1>1, <1>3 DEF Reference, RefOK, Pinned, Against, WithDump
  <2> QED BY <1>2, <2>1, <2>2 DEF Schema
<1> QED BY <1>1, <1>2, <1>3, <1>4, <1>5

LEMMA ReportKeeps == ASSUME CompareInv, Report PROVE CompareInv'
<1>1. cmp.pc = "read" /\ cmp.counts = <<>> /\ cmp.todo = {} /\ UNCHANGED <<dbs, history>>
      /\ temp \subseteq Places /\ cmp \in Comparisons
  BY DEF Report, At, CompareInv, CompareTypeOK
<1>2. Veredicto(cmp) \in {"ROJO", "GRIS", "AMARILLO", "VERDE"}
  BY DEF Veredicto
<1> DEFINE c == [cmp EXCEPT !.pc = "ok", !.verdict = Veredicto(cmp)]
           guard == IF cmp.mode \in WithDump THEN Both ELSE {}
<1>7. c \in Comparisons /\ c.pc = "ok" /\ c.mode = cmp.mode /\ c.filter = cmp.filter
      /\ c.ref = cmp.ref /\ c.diffs = cmp.diffs /\ c.kept = cmp.kept /\ c.verdict = Veredicto(cmp)
  BY <1>1, <1>2 DEF Comparisons, Ended
<1>8. Cleaned(c, guard, {})
  BY DEF Report
<1>9. cmp.mode \in Full => temp \subseteq cmp.kept \cup guard
  BY <1>1 DEF CompareInv, HostOK
<1> HIDE DEF c, guard
<1>3. /\ cmp' \in Comparisons /\ cmp'.pc = "ok" /\ cmp'.mode = cmp.mode /\ cmp'.filter = cmp.filter
      /\ cmp'.ref = cmp.ref /\ cmp'.diffs = cmp.diffs /\ cmp'.verdict = Veredicto(cmp)
      /\ temp' \subseteq Places /\ (cmp.mode \in Full => temp' \subseteq cmp'.kept)
  <2>1. {} \in SUBSET Places
    OBVIOUS
  <2> QED BY <1>1, <1>7, <1>8, <1>9, <2>1, CleanedIs
<1>5. GreenIsTrue'
  <2> SUFFICES ASSUME Veredicto(cmp) = "VERDE" PROVE GreenIsTrue'
    BY <1>3 DEF GreenIsTrue
  <2>1. /\ Pinned(cmp.mode) /\ LiveTables(cmp) # {}
        /\ Schema(other) \cap cmp.filter = LiveTables(cmp) /\ DOMAIN cmp.diffs = LiveTables(cmp)
        /\ \A t \in LiveTables(cmp) : Certified(t)
    BY <1>1, Green
  <2>2. LiveTables(cmp)' = LiveTables(cmp)
    BY <1>1, <1>3 DEF LiveTables, Schema, dbs
  <2>3. \A t \in LiveTables(cmp) : Certified(t)'
    BY <1>1, <1>3, <2>1 DEF Certified, ReadEmpty, ErrorText, dbs, history
  <2>4. cmp'.mode \in {"dump", "against", "lightAgainst"}
    BY <1>3, <2>1 DEF Pinned
  <2>5. (Schema(other) \cap cmp.filter = LiveTables(cmp) /\ DOMAIN cmp.diffs = LiveTables(cmp))'
    BY <1>1, <1>3, <2>1, <2>2 DEF Schema, dbs
  <2> QED BY <2>1, <2>2, <2>3, <2>4, <2>5 DEF GreenIsTrue
<1>6. CompareTypeOK' /\ Seen'
  BY <1>1, <1>3 DEF CompareInv, CompareTypeOK, Seen, dbs, history
<1> QED BY <1>3, <1>5, <1>6 DEF CompareInv, HostOK

(* What a write of one of the sites leaves of the other and of the history. *)
LEMMA WriteIs ==
  ASSUME CompareInv, Write
  PROVE  /\ live' \in Database /\ DOMAIN live' = DOMAIN live
         /\ other' \in Database /\ DOMAIN other' = DOMAIN other
         /\ was' \in [DOMAIN live -> SUBSET (SUBSET Row)]
         /\ wasOther' \in [DOMAIN other -> SUBSET (SUBSET Row)]
         /\ \A u \in DOMAIN live : was[u] \subseteq was'[u]
         /\ \A u \in DOMAIN other : wasOther[u] \subseteq wasOther'[u]
         /\ Seen'
         /\ cmp.mode \in WithDump => other' = other
<1>1. PICK t \in Table, rows \in SUBSET Row : WriteLive(t, rows) \/ WriteOther(t, rows)
  BY DEF Write
<1>2. ASSUME NEW side \in Database, NEW u \in DOMAIN side, NEW r \in SUBSET Row
      PROVE  [side EXCEPT ![u] = r] \in Database
  BY <1>2 DEF Database
<1>3. CASE WriteLive(t, rows)
  <2>1. t \in DOMAIN live /\ live' = [live EXCEPT ![t] = rows] /\ was' = [was EXCEPT ![t] = @ \cup {rows}]
        /\ UNCHANGED <<other, wasOther>>
    BY <1>3 DEF WriteLive
  <2>2. live' \in Database
    BY <1>2, <2>1 DEF CompareInv, CompareTypeOK
  <2> QED BY <2>1, <2>2 DEF CompareInv, CompareTypeOK, Seen
<1>4. CASE WriteOther(t, rows)
  <2>1. t \in DOMAIN other /\ other' = [other EXCEPT ![t] = rows]
        /\ wasOther' = [wasOther EXCEPT ![t] = @ \cup {rows}]
        /\ UNCHANGED <<live, was>> /\ cmp.mode \in Against
    BY <1>4 DEF WriteOther
  <2>2. other' \in Database
    BY <1>2, <2>1 DEF CompareInv, CompareTypeOK
  <2>3. cmp.mode \notin WithDump
    BY <2>1 DEF Against, WithDump
  <2> QED BY <2>1, <2>2, <2>3 DEF CompareInv, CompareTypeOK, Seen
<1> QED BY <1>1, <1>3, <1>4

LEMMA WriteKeeps == ASSUME CompareInv, Write PROVE CompareInv'
<1>2. UNCHANGED <<engine, nature, temp, cmp>> /\ cmp.pc \notin Ended
  BY DEF Write, Resting
<1>5. CompareTypeOK' /\ Seen'
  BY <1>2, WriteIs DEF CompareInv, CompareTypeOK
<1>6. Shared(cmp)' = Shared(cmp) /\ Shared(cmp) \subseteq DOMAIN live
  <2>1. DOMAIN Reference(cmp)' = DOMAIN Reference(cmp)
    BY <1>2, WriteIs DEF Reference
  <2> QED BY <1>2, <2>1, WriteIs DEF Shared, LiveTables, OtherTables, Schema
<1>12. cmp.mode # "light" => Shared(cmp) \subseteq DOMAIN Reference(cmp)
  BY DEF Shared, OtherTables, Schema
<1>7. ASSUME NEW u \in DOMAIN live, NEW v, NEW o, Counted(cmp, was, u, v, o)
      PROVE  Counted(cmp, was', u, v, o)
  BY <1>7, WriteIs DEF Counted
<1>8. ASSUME NEW u \in Shared(cmp), NEW d, DiffOK(cmp, was, wasOther, u, d), RefOK(cmp)
      PROVE  DiffOK(cmp, was, wasOther, u, d)'
  <2>1. Counted(cmp, was, u, d.vivo, d.otro)'
    BY <1>2, <1>6, <1>7, <1>8 DEF DiffOK, Counted
  <2>2. was[u] \subseteq was'[u]
    BY <1>6, WriteIs
  <2>3. cmp.mode # "light" => wasOther[u] \subseteq wasOther'[u]
    <3> SUFFICES ASSUME cmp.mode # "light" PROVE wasOther[u] \subseteq wasOther'[u]
      OBVIOUS
    <3>1. u \in DOMAIN other
      <4>1. u \in DOMAIN Reference(cmp) /\ cmp.mode # "lightDump" /\ cmp.mode \in Mode
        BY <1>8, <1>12 DEF RefOK, CompareInv, CompareTypeOK, Comparisons
      <4>2. cmp.mode \in Against \/ cmp.mode \in WithDump
        BY <4>1 DEF Mode, Full, Against
      <4> QED BY <1>8, <4>1, <4>2 DEF Reference, RefOK
    <3> QED BY <3>1, WriteIs
  <2>4. SameOnce(cmp, was, wasOther, u, d)'
    BY <1>2, <1>8, <2>2, <2>3 DEF DiffOK, SameOnce, Opaque, ErrorText
  <2> QED BY <1>2, <1>8, <2>1, <2>4 DEF DiffOK, Opaque
<1>9. cmp.pc = "read" => ReadOK(cmp, was, wasOther, Shared(cmp))'
  <2> SUFFICES ASSUME ReadOK(cmp, was, wasOther, Shared(cmp))
               PROVE  ReadOK(cmp, was, wasOther, Shared(cmp))'
    BY DEF CompareInv
  <2>1. \A u \in DOMAIN cmp.diffs : DiffOK(cmp, was, wasOther, u, cmp.diffs[u])'
    BY <1>2, <1>6, <1>8 DEF ReadOK
  <2>2. cmp.counts # <<>> => Counted(cmp, was, cmp.counts.table, cmp.counts.vivo, cmp.counts.otro)'
    <3>1. cmp.counts # <<>> => Counted(cmp, was', cmp.counts.table, cmp.counts.vivo, cmp.counts.otro)
      BY <1>6, <1>7 DEF ReadOK
    <3> QED BY <1>2, <3>1 DEF Counted
  <2>3. RefOK(cmp)'
    BY <1>2, WriteIs DEF ReadOK, RefOK
  <2> QED BY <1>2, <1>6, <2>1, <2>2, <2>3 DEF ReadOK
<1>10. cmp.verdict # "VERDE"
  BY <1>2 DEF CompareInv, Ended
<1> QED BY <1>2, <1>5, <1>9, <1>10 DEF CompareInv, GreenIsTrue, HostOK

LEMMA KillKeeps == ASSUME CompareInv, Kill PROVE CompareInv'
<1>1. cmp' = [Fresh EXCEPT !.pc = "cut", !.mode = cmp.mode] /\ UNCHANGED <<dbs, history, temp>>
  BY DEF Kill
<1>2. cmp.mode \in Mode /\ "cut" \in Ended
  BY DEF CompareInv, CompareTypeOK, Comparisons, Ended
<1>3. cmp' \in Comparisons /\ cmp'.pc = "cut" /\ cmp'.verdict = "none"
  BY <1>1, <1>2, FreshIs DEF Comparisons
<1> QED BY <1>1, <1>3, GoesOn DEF CompareInv, CompareTypeOK, HostOK

LEMMA SweepKeeps == ASSUME CompareInv, Sweep \/ UNCHANGED compareVars PROVE CompareInv'
<1>1. UNCHANGED <<dbs, cmp, history>> /\ temp' \subseteq temp
  BY DEF Sweep, compareVars
<1>2. CompareTypeOK' /\ Seen'
  BY <1>1 DEF CompareInv, CompareTypeOK, Seen, dbs, history
<1>3. HostOK(cmp', temp')
  BY <1>1 DEF CompareInv, HostOK
<1>4. cmp.pc = "read" => ReadOK(cmp, was, wasOther, Shared(cmp))'
  BY <1>1 DEF CompareInv, ReadOK, RefOK, DiffOK, Counted, SameOnce, Opaque, ErrorText, dbs, history,
              Shared, LiveTables, OtherTables, Schema, Reference
<1>5. GreenIsTrue'
  BY <1>1 DEF CompareInv, GreenIsTrue, Certified, ReadEmpty, ErrorText, LiveTables, Schema, dbs, history
<1> QED BY <1>1, <1>2, <1>3, <1>4, <1>5 DEF CompareInv

LEMMA CompareSpecInv == CompareSpec => []CompareInv
<1>1. CompareInv /\ [CompareNext]_compareVars => CompareInv'
  BY StartKeeps, CreateKeeps, BringKeeps, RestoreKeeps, CountKeeps, ExtractKeeps, ReportKeeps,
     WriteKeeps, SweepKeeps, KillKeeps DEF CompareNext
<1> QED BY <1>1, CompareInitInv, PTL DEF CompareSpec

(* For any tables, rows, comparisons and writes: VERDE is said only of a    *)
(* pinned reference that has the tables of the site; and each of them that  *)
(* had rows on both sides when it was counted had, since the comparison     *)
(* began, the rows of the dump, or rows that the other site had             *)
(* (compare_table, veredicto).                                              *)
THEOREM CompareGreenIsTrue == CompareSpec => []GreenIsTrue
<1>1. CompareInv => GreenIsTrue
  BY DEF CompareInv
<1> QED BY <1>1, CompareSpecInv, PTL

(* A comparison that ends by itself leaves neither a container nor a dump   *)
(* but those it failed to remove and those it could not know of (a trial of *)
(* the database, a dump half brought).                                      *)
THEOREM CompareNothingLeft == CompareSpec => []NothingLeft
<1>1. CompareInv => NothingLeft
  BY DEF CompareInv, HostOK, NothingLeft
<1> QED BY <1>1, CompareSpecInv, PTL

-----------------------------------------------------------------------------
(* Migrations are sent in order, and those without leading zeros again     *)
(* only when it is not known that they were.                               *)
Jobs == [pc : {"rest", "apply", "register"}, dry : BOOLEAN, todo : SUBSET Version]

MigrateTypeOK ==
  /\ table \in BOOLEAN /\ overlapped \in BOOLEAN
  /\ registered \in SUBSET Version
  /\ ran \in [Version -> Nat]
  /\ mig \in [Migrator -> Jobs]
  /\ passed \in SUBSET Version /\ unsure \in SUBSET Version

(* Sent, or its failure taken for a warning.                               *)
Past(v) == ran[v] > 0 \/ v \in passed

(* The versions of files without leading zeros.                            *)
Plain(S) == {v \in S : Printed(v)}

(* A command goes through what is pending from the first on, and of what it *)
(* has before it nobody has registered any without leading zeros, if it is *)
(* alone.                                                                  *)
JobOK(p) ==
  /\ ~MigAt(p, "rest") => mig[p].todo # {}
  /\ ~MigAt(p, "rest") /\ ~mig[p].dry =>
       \A t \in mig[p].todo, w \in Version \ mig[p].todo : w < t => Past(w)
  /\ MigAt(p, "register") => Past(NextOf(mig[p].todo)) /\ ~mig[p].dry
  /\ ~overlapped /\ MigAt(p, "apply") => Plain(mig[p].todo) \cap registered = {}
  /\ ~overlapped /\ MigAt(p, "register") =>
       Plain(mig[p].todo) \cap registered \subseteq {NextOf(mig[p].todo)}

InOrder == \A v \in registered, w \in Version : w <= v => Past(w)

Alone ==
  ~overlapped =>
    \A p, q \in Migrator : p # q => MigAt(p, "rest") \/ MigAt(q, "rest")

Accounted ==
  \A v \in Version : ran[v] > 0 => v \in registered \/ v \in unsure \/ overlapped

MigrateInv ==
  /\ MigrateTypeOK /\ InOrder /\ Alone /\ Accounted
  /\ \A p \in Migrator : JobOK(p)

LEMMA VersionsAreNaturals == Version \subseteq Nat
  BY MigrateAssumption

LEMMA NextIsFirst ==
  ASSUME NEW S \in SUBSET Version, S # {}
  PROVE  NextOf(S) \in S /\ \A y \in S : NextOf(S) <= y
<1>1. PICK x \in S : \A y \in S : ~ (<<y, x>> \in OpToRel(<, Nat))
  BY VersionsAreNaturals, NatLessThanWellFounded, WFMin
<1>2. \A y \in S : x <= y
  <2> SUFFICES ASSUME NEW y \in S PROVE x <= y
    OBVIOUS
  <2>1. x \in Nat /\ y \in Nat
    BY VersionsAreNaturals
  <2>2. <<y, x>> \notin OpToRel(<, Nat)
    BY <1>1
  <2>3. ~ (y < x)
    BY <2>1, <2>2 DEF OpToRel
  <2> QED BY <2>1, <2>3
<1> QED BY <1>2 DEF NextOf, Min

LEMMA MigrateInitInv == MigrateInit => MigrateInv
<1> SUFFICES ASSUME MigrateInit PROVE MigrateInv
  OBVIOUS
<1>1. Rest \in Jobs /\ \A p \in Migrator : mig[p] = Rest /\ Rest.pc = "rest"
  BY DEF MigrateInit, Rest, Jobs
<1>2. MigrateTypeOK
  BY <1>1 DEF MigrateInit, MigrateTypeOK
<1>3. InOrder /\ Alone /\ Accounted
  BY <1>1 DEF MigrateInit, InOrder, Alone, Accounted, MigAt
<1>4. \A p \in Migrator : JobOK(p)
  BY <1>1 DEF JobOK, MigAt
<1> QED BY <1>2, <1>3, <1>4 DEF MigrateInv

(* One command moves: what it has to see to, so that the rest follows.     *)
LEMMA OneMoves ==
  ASSUME MigrateInv, NEW p \in Migrator, NEW m \in Jobs, Set(p, m),
         table' \in BOOLEAN, overlapped' \in BOOLEAN,
         registered' \in SUBSET Version, ran' \in [Version -> Nat],
         passed' \in SUBSET Version, unsure' \in SUBSET Version,
         overlapped => overlapped',
         \A w \in Version : Past(w) => Past(w)',
         registered' = registered \/ ~MigAt(p, "rest"),
         \/ m.pc = "rest" \/ ~MigAt(p, "rest") \/ overlapped'
         \/ \A q \in Migrator \ {p} : MigAt(q, "rest"),
         InOrder', Accounted', JobOK(p)'
  PROVE  MigrateInv'
<1>1. /\ mig' \in [Migrator -> Jobs] /\ mig'[p] = m
      /\ \A q \in Migrator \ {p} : mig'[q] = mig[q]
  BY DEF Set, MigrateInv, MigrateTypeOK
<1>2. MigrateTypeOK'
  BY <1>1 DEF MigrateTypeOK
<1>3. Alone'
  <2> SUFFICES ASSUME ~overlapped', NEW q \in Migrator, NEW r \in Migrator, q # r
               PROVE  MigAt(q, "rest")' \/ MigAt(r, "rest")'
    BY DEF Alone
  <2>1. Alone /\ ~overlapped
    BY DEF MigrateInv
  <2> QED BY <1>1, <2>1 DEF Alone, MigAt
<1>4. ASSUME NEW q \in Migrator \ {p} PROVE JobOK(q)'
  <2>1. mig'[q] = mig[q] /\ JobOK(q) /\ mig[q] \in Jobs
    BY <1>1 DEF MigrateInv, MigrateTypeOK
  <2>2. ~overlapped' => ~overlapped /\ (registered' = registered \/ MigAt(q, "rest"))
    BY DEF MigrateInv, Alone
  <2>3. ~MigAt(q, "rest") => NextOf(mig[q].todo) \in Version
    BY <2>1, NextIsFirst DEF JobOK, Jobs
  <2>4. ~MigAt(q, "rest")' => mig'[q].todo # {}
    BY <2>1 DEF JobOK, MigAt
  <2>5. ~MigAt(q, "rest")' /\ ~mig'[q].dry =>
          \A t \in mig'[q].todo, w \in Version \ mig'[q].todo : w < t => Past(w)'
    BY <2>1 DEF JobOK, MigAt
  <2>6. MigAt(q, "register")' => Past(NextOf(mig[q].todo))' /\ ~mig'[q].dry
    <3> SUFFICES ASSUME MigAt(q, "register")' PROVE Past(NextOf(mig[q].todo))' /\ ~mig'[q].dry
      OBVIOUS
    <3>1. MigAt(q, "register") /\ ~MigAt(q, "rest")
      BY <2>1 DEF MigAt
    <3>2. Past(NextOf(mig[q].todo)) /\ NextOf(mig[q].todo) \in Version /\ ~mig[q].dry
      BY <2>1, <2>3, <3>1 DEF JobOK
    <3>3. NextOf(mig[q].todo)' = NextOf(mig[q].todo)
      BY <2>1 DEF NextOf
    <3>4. Past(NextOf(mig[q].todo))'
      BY <3>2, <3>3 DEF Past
    <3> QED BY <2>1, <3>2, <3>4
  <2>7. /\ ~overlapped' /\ MigAt(q, "apply")' => Plain(mig'[q].todo) \cap registered' = {}
        /\ ~overlapped' /\ MigAt(q, "register")' =>
             Plain(mig'[q].todo) \cap registered' \subseteq {NextOf(mig'[q].todo)}
    BY <2>1, <2>2 DEF JobOK, MigAt
  <2> QED BY <2>4, <2>5, <2>6, <2>7 DEF JobOK
<1> QED BY <1>2, <1>3, <1>4 DEF MigrateInv

(* What a command that is at work has before it.                           *)
LEMMA AtWork ==
  ASSUME MigrateInv, NEW p \in Migrator, ~MigAt(p, "rest")
  PROVE  /\ mig[p] \in Jobs /\ mig[p].todo \in SUBSET Version /\ JobOK(p)
         /\ NextOf(mig[p].todo) \in mig[p].todo /\ NextOf(mig[p].todo) \in Version
         /\ \A y \in mig[p].todo : NextOf(mig[p].todo) <= y
<1>1. mig[p] \in Jobs /\ JobOK(p)
  BY DEF MigrateInv, MigrateTypeOK
<1>2. mig[p].todo \in SUBSET Version /\ mig[p].todo # {}
  BY <1>1 DEF Jobs, JobOK
<1> QED BY <1>1, <1>2, NextIsFirst

(* A command that rests has nothing to see to.                             *)
LEMMA Rests ==
  ASSUME MigrateTypeOK, NEW p \in Migrator, Set(p, Rest)
  PROVE  Rest \in Jobs /\ Rest.pc = "rest" /\ JobOK(p)'
<1>1. mig'[p] = Rest /\ Rest.pc = "rest"
  BY DEF Set, MigrateTypeOK, Rest
<1> QED BY <1>1 DEF JobOK, MigAt, Rest, Jobs

LEMMA DetectKeeps == ASSUME MigrateInv, NEW p \in Migrator, Detect(p) PROVE MigrateInv'
<1>1. /\ UNCHANGED <<table, registered, ran, passed, unsure>>
      /\ MigAt(p, "rest")
      /\ overlapped' = (overlapped \/ \E q \in Migrator \ {p} : ~MigAt(q, "rest"))
  BY DEF Detect
<1>2. /\ overlapped' \in BOOLEAN /\ overlapped => overlapped'
      /\ overlapped' \/ \A q \in Migrator \ {p} : MigAt(q, "rest")
  BY <1>1 DEF MigrateInv, MigrateTypeOK
<1>3. /\ table' \in BOOLEAN /\ registered' \in SUBSET Version /\ ran' \in [Version -> Nat]
      /\ passed' \in SUBSET Version /\ unsure' \in SUBSET Version
      /\ \A w \in Version : Past(w) => Past(w)'
  BY <1>1 DEF MigrateInv, MigrateTypeOK, Past
<1>4. InOrder' /\ Accounted'
  BY <1>1, <1>2 DEF MigrateInv, InOrder, Accounted, Past
<1>5. PICK dry \in BOOLEAN :
        Set(p, IF Pending = {} THEN Rest ELSE [pc |-> "apply", dry |-> dry, todo |-> Pending])
  BY DEF Detect
<1>6. CASE Pending = {}
  <2>1. Set(p, Rest)
    BY <1>5, <1>6
  <2>2. Rest \in Jobs /\ Rest.pc = "rest" /\ JobOK(p)'
    BY <2>1, Rests DEF MigrateInv
  <2> QED BY <1>1, <1>2, <1>3, <1>4, <2>1, <2>2, OneMoves
<1>7. CASE Pending # {}
  <2> DEFINE m == [pc |-> "apply", dry |-> dry, todo |-> Pending]
  <2>1. Set(p, m)
    BY <1>5, <1>7
  <2>2. m \in Jobs
    BY DEF Jobs, Pending
  <2>3. mig'[p] = m
    BY <2>1 DEF Set, MigrateInv, MigrateTypeOK
  <2>4. \A w \in Version \ Pending : Past(w)'
    <3>1. ASSUME NEW w \in Version \ Pending PROVE Past(w)
      <4>1. w \in registered /\ w <= w
        BY VersionsAreNaturals DEF Pending
      <4> QED BY <4>1 DEF MigrateInv, InOrder
    <3> QED BY <1>3, <3>1
  <2>5. JobOK(p)'
    BY <1>1, <1>7, <2>3, <2>4 DEF JobOK, MigAt, Pending, Plain
  <2> HIDE DEF m
  <2> QED BY <1>1, <1>2, <1>3, <1>4, <2>1, <2>2, <2>5, OneMoves
<1> QED BY <1>6, <1>7

(* The rest of a list, once its first is past.                             *)
LEMMA Onward ==
  ASSUME MigrateInv, NEW p \in Migrator, ~MigAt(p, "rest"),
         NEW v \in Version, v = NextOf(mig[p].todo),
         NEW S, S = mig[p].todo \ {v}, S # {},
         NEW m \in Jobs, m = [mig[p] EXCEPT !.pc = "apply", !.todo = S], Set(p, m),
         \A w \in Version : Past(w) => Past(w)',
         mig[p].dry \/ Past(v)',
         overlapped' \/ Plain(S) \cap registered' = {}
  PROVE  JobOK(p)'
<1>1. mig'[p] = m /\ m.pc = "apply" /\ m.todo = S /\ m.dry = mig[p].dry
  BY DEF Set, MigrateInv, MigrateTypeOK, Jobs
<1>2. ASSUME ~mig[p].dry, NEW t \in S, NEW w \in Version \ S, w < t PROVE Past(w)'
  <2>1. CASE w = v
    BY <1>2, <2>1
  <2>2. CASE w \in Version \ mig[p].todo
    <3>1. Past(w)
      BY <1>2, <2>2, AtWork DEF JobOK
    <3> QED BY <3>1
  <2> QED BY <1>2, <2>1, <2>2
<1> QED BY <1>1, <1>2 DEF JobOK, MigAt

LEMMA SimulateKeeps == ASSUME MigrateInv, NEW p \in Migrator, Simulate(p) PROVE MigrateInv'
<1>0. MigAt(p, "apply") /\ ~MigAt(p, "rest")
  BY DEF Simulate, MigAt
<1> PICK v \in Version : v = NextOf(mig[p].todo)
  BY <1>0, AtWork
<1> PICK S \in SUBSET Version : S = mig[p].todo \ {v}
  BY <1>0, AtWork
<1> PICK m : m = [mig[p] EXCEPT !.todo = S]
  OBVIOUS
<1>1. /\ UNCHANGED <<table, registered, ran, passed, unsure, overlapped>>
      /\ MigAt(p, "apply") /\ mig[p].dry /\ ~MigAt(p, "rest")
      /\ Set(p, IF S = {} THEN Rest ELSE m)
  BY <1>0 DEF Simulate
<1>2. /\ table' \in BOOLEAN /\ registered' \in SUBSET Version /\ ran' \in [Version -> Nat]
      /\ passed' \in SUBSET Version /\ unsure' \in SUBSET Version /\ overlapped' \in BOOLEAN
      /\ \A w \in Version : Past(w) => Past(w)'
  BY <1>1 DEF MigrateInv, MigrateTypeOK, Past
<1>3. InOrder' /\ Accounted'
  BY <1>1 DEF MigrateInv, InOrder, Accounted, Past
<1>4. CASE S = {}
  <2>1. Set(p, Rest)
    BY <1>1, <1>4
  <2>2. Rest \in Jobs /\ Rest.pc = "rest" /\ JobOK(p)'
    BY <2>1, Rests DEF MigrateInv
  <2> QED BY <1>1, <1>2, <1>3, <2>1, <2>2, OneMoves
<1>5. CASE S # {}
  <2>1. Set(p, m)
    BY <1>1, <1>5
  <2>2. mig[p] \in Jobs /\ mig[p].pc = "apply" /\ JobOK(p)
    BY <1>1, AtWork DEF MigAt
  <2>3. m \in Jobs /\ m = [mig[p] EXCEPT !.pc = "apply", !.todo = S]
    BY <2>2 DEF Jobs
  <2>4. overlapped' \/ Plain(S) \cap registered' = {}
    BY <1>1, <2>2 DEF JobOK, Plain
  <2>5. JobOK(p)'
    BY <1>1, <1>2, <1>5, <2>1, <2>3, <2>4, Onward
  <2> QED BY <1>1, <1>2, <1>3, <2>1, <2>3, <2>5, OneMoves
<1> QED BY <1>4, <1>5

(* The statements of a version were sent.                                  *)
LEMMA SentOnce ==
  ASSUME MigrateTypeOK, NEW v \in Version, Sent(v)
  PROVE  /\ ran' \in [Version -> Nat] /\ ran'[v] > 0
         /\ \A w \in Version : ran'[w] >= ran[w] /\ (w # v => ran'[w] = ran[w])
  BY DEF MigrateTypeOK, Sent

LEMMA ApplyKeeps == ASSUME MigrateInv, NEW p \in Migrator, Apply(p) \/ Warn(p) PROVE MigrateInv'
<1>0. MigAt(p, "apply") /\ ~MigAt(p, "rest")
  BY DEF Apply, Warn, MigAt
<1> PICK v \in Version : v = NextOf(mig[p].todo)
  BY <1>0, AtWork
<1> PICK m : m = [mig[p] EXCEPT !.pc = "register"]
  OBVIOUS
<1>1. /\ UNCHANGED <<table, registered, overlapped>>
      /\ MigAt(p, "apply") /\ ~mig[p].dry /\ ~MigAt(p, "rest")
      /\ Set(p, m)
  BY <1>0 DEF Apply, Warn
<1>2. mig[p] \in Jobs /\ JobOK(p) /\ v \in mig[p].todo /\ v \in Version
  BY <1>1, AtWork
<1>3. /\ ran' \in [Version -> Nat] /\ \A w \in Version : ran'[w] >= ran[w]
      /\ passed' \in SUBSET Version /\ passed \subseteq passed'
      /\ unsure' \in SUBSET Version /\ unsure \subseteq unsure'
      /\ Past(v)'
      /\ \A w \in Version : w = v \/ ran'[w] = ran[w]
      /\ v \in unsure' \/ ran' = ran
  <2>1. CASE Apply(p)
    <3>1. Sent(v) /\ unsure' = unsure \cup {v} /\ passed' = passed
      BY <2>1 DEF Apply
    <3> QED BY <1>2, <3>1, SentOnce DEF MigrateInv, MigrateTypeOK, Past
  <2>2. CASE Warn(p)
    <3>1. UNCHANGED <<ran, unsure>> /\ passed' = passed \cup {v}
      BY <2>2 DEF Warn
    <3> QED BY <1>2, <3>1 DEF MigrateInv, MigrateTypeOK, Past
  <2> QED BY <2>1, <2>2
<1>4. /\ table' \in BOOLEAN /\ registered' \in SUBSET Version /\ overlapped' \in BOOLEAN
      /\ \A w \in Version : Past(w) => Past(w)'
  BY <1>1, <1>3 DEF MigrateInv, MigrateTypeOK, Past
<1>5. InOrder'
  BY <1>1, <1>4 DEF MigrateInv, MigrateTypeOK, InOrder
<1>6. Accounted'
  BY <1>1, <1>3 DEF MigrateInv, Accounted
<1>7. m \in Jobs /\ mig'[p] = m /\ m.pc = "register" /\ m.todo = mig[p].todo /\ m.dry = mig[p].dry
  BY <1>1, <1>2 DEF Jobs, Set, MigrateInv, MigrateTypeOK
<1>8. JobOK(p)'
  <2>1. \A t \in mig'[p].todo, w \in Version \ mig'[p].todo : w < t => Past(w)'
    BY <1>1, <1>2, <1>4, <1>7 DEF JobOK
  <2>2. Past(NextOf(mig[p].todo))'
    <3>1. NextOf(mig[p].todo)' = v
      BY <1>7 DEF NextOf
    <3> QED BY <1>3, <3>1 DEF Past
  <2>3. ~overlapped' => Plain(mig'[p].todo) \cap registered' = {}
    BY <1>1, <1>2, <1>7 DEF JobOK
  <2>4. mig'[p].todo # {} /\ mig'[p].dry = FALSE /\ mig'[p].pc = "register"
    BY <1>1, <1>2, <1>7 DEF Jobs
  <2> QED BY <2>1, <2>2, <2>3, <2>4 DEF JobOK, MigAt
<1> QED BY <1>1, <1>3, <1>4, <1>5, <1>6, <1>7, <1>8, OneMoves

LEMMA EndKeeps == ASSUME MigrateInv, NEW p \in Migrator, Fail(p) \/ Stop(p) PROVE MigrateInv'
<1>1. /\ UNCHANGED <<table, registered, overlapped, passed>>
      /\ ~MigAt(p, "rest") /\ Set(p, Rest)
  BY DEF Fail, Stop, MigAt, AfterError
<1>2. /\ ran' \in [Version -> Nat] /\ \A w \in Version : ran'[w] >= ran[w]
      /\ unsure' \in SUBSET Version
      /\ \A w \in Version : ran'[w] > 0 => ran[w] > 0 \/ w \in unsure'
      /\ unsure \subseteq unsure'
  <2>1. CASE UNCHANGED <<ran, unsure>>
    BY <2>1 DEF MigrateInv, MigrateTypeOK
  <2>2. CASE Sent(NextOf(mig[p].todo)) /\ unsure' = unsure \cup {NextOf(mig[p].todo)}
    <3>1. NextOf(mig[p].todo) \in Version
      BY <1>1, AtWork
    <3> QED BY <2>2, <3>1, SentOnce DEF MigrateInv, MigrateTypeOK
  <2> QED BY <2>1, <2>2 DEF Fail, Stop
<1>3. /\ table' \in BOOLEAN /\ registered' \in SUBSET Version /\ overlapped' \in BOOLEAN
      /\ passed' \in SUBSET Version
      /\ \A w \in Version : Past(w) => Past(w)'
  BY <1>1, <1>2 DEF MigrateInv, MigrateTypeOK, Past
<1>4. InOrder' /\ Accounted'
  BY <1>1, <1>2, <1>3 DEF MigrateInv, MigrateTypeOK, InOrder, Accounted
<1>5. Rest \in Jobs /\ Rest.pc = "rest" /\ JobOK(p)'
  BY <1>1, Rests DEF MigrateInv
<1> QED BY <1>1, <1>2, <1>3, <1>4, <1>5, OneMoves

LEMMA RegisterKeeps == ASSUME MigrateInv, NEW p \in Migrator, Register(p) PROVE MigrateInv'
<1>0. MigAt(p, "register") /\ ~MigAt(p, "rest")
  BY DEF Register, MigAt
<1> PICK v \in Version : v = NextOf(mig[p].todo)
  BY <1>0, AtWork
<1> PICK S \in SUBSET Version : S = mig[p].todo \ {v}
  BY <1>0, AtWork
<1> PICK m : m = [mig[p] EXCEPT !.pc = "apply", !.todo = S]
  OBVIOUS
<1>1. /\ UNCHANGED <<table, ran, passed, overlapped>>
      /\ MigAt(p, "register") /\ ~MigAt(p, "rest")
      /\ Set(p, IF S = {} THEN Rest ELSE m)
      /\ \/ registered' = registered \cup {v} /\ unsure' = unsure \ {v}
         \/ UNCHANGED <<registered, unsure>>
  BY <1>0 DEF Register
<1>2. /\ mig[p] \in Jobs /\ JobOK(p) /\ v \in mig[p].todo /\ v \in Version
      /\ mig[p].todo \in SUBSET Version /\ \A y \in mig[p].todo : v <= y
  BY <1>1, AtWork
<1>3. /\ table' \in BOOLEAN /\ registered' \in SUBSET Version /\ ran' \in [Version -> Nat]
      /\ passed' \in SUBSET Version /\ unsure' \in SUBSET Version /\ overlapped' \in BOOLEAN
      /\ \A w \in Version : Past(w) <=> Past(w)'
  BY <1>1, <1>2 DEF MigrateInv, MigrateTypeOK, Past
<1>4. Past(v) /\ ~mig[p].dry
  BY <1>1, <1>2 DEF JobOK
<1>5. \A w \in Version : w <= v => Past(w)
  <2> SUFFICES ASSUME NEW w \in Version, w <= v PROVE Past(w)
    OBVIOUS
  <2>1. w \in Nat /\ v \in Nat
    BY <1>2, VersionsAreNaturals
  <2>2. CASE w = v
    BY <1>4, <2>2
  <2>3. CASE w # v
    <3>1. w < v
      BY <2>1, <2>3
    <3>2. w \notin mig[p].todo
      BY <1>2, <2>1, <3>1
    <3> QED BY <1>1, <1>2, <1>4, <3>1, <3>2 DEF JobOK
  <2> QED BY <2>2, <2>3
<1>6. InOrder'
  BY <1>1, <1>3, <1>5 DEF MigrateInv, MigrateTypeOK, InOrder
<1>7. Accounted'
  BY <1>1 DEF MigrateInv, Accounted
<1>8. CASE S = {}
  <2>1. Set(p, Rest)
    BY <1>1, <1>8
  <2>2. Rest \in Jobs /\ Rest.pc = "rest" /\ JobOK(p)'
    BY <2>1, Rests DEF MigrateInv
  <2> QED BY <1>1, <1>3, <1>6, <1>7, <2>1, <2>2, OneMoves
<1>9. CASE S # {}
  <2>1. Set(p, m)
    BY <1>1, <1>9
  <2>2. m \in Jobs
    BY <1>2 DEF Jobs
  <2>3. overlapped' \/ Plain(S) \cap registered' = {}
    BY <1>1, <1>2 DEF JobOK, Plain
  <2>4. Past(v)'
    BY <1>3, <1>4
  <2>5. JobOK(p)'
    BY <1>1, <1>3, <1>9, <2>1, <2>2, <2>3, <2>4, Onward
  <2> QED BY <1>1, <1>3, <1>6, <1>7, <2>1, <2>2, <2>5, OneMoves
<1> QED BY <1>8, <1>9

LEMMA MigrateStepInv == MigrateInv /\ [MigrateNext]_migrateVars => MigrateInv'
<1> SUFFICES ASSUME MigrateInv, [MigrateNext]_migrateVars PROVE MigrateInv'
  OBVIOUS
<1>1. CASE UNCHANGED migrateVars
  BY <1>1 DEF migrateVars, MigrateInv, MigrateTypeOK, InOrder, Alone, Accounted, JobOK, MigAt, Past, NextOf
<1>2. CASE MigrateNext
  <2>1. PICK p \in Migrator :
          Detect(p) \/ Simulate(p) \/ Apply(p) \/ Warn(p) \/ Fail(p) \/ Register(p) \/ Stop(p)
    BY <1>2 DEF MigrateNext
  <2> QED BY <2>1, DetectKeeps, SimulateKeeps, ApplyKeeps, EndKeeps, RegisterKeeps
<1> QED BY <1>1, <1>2

LEMMA MigrateSpecInv == MigrateSpec => []MigrateInv
<1> QED BY MigrateInitInv, MigrateStepInv, PTL DEF MigrateSpec

(* However many commands run at once, fail and are cut: no version is in    *)
(* the table with one before it that was neither sent nor taken for         *)
(* applied.                                                                 *)
THEOREM MigrateNoGaps == MigrateSpec => []NoGaps
<1>1. MigrateInv => NoGaps
  <2> SUFFICES ASSUME MigrateInv, NEW v \in registered, NEW w \in Version, w < v
               PROVE  Past(w)
    BY DEF NoGaps, Past
  <2>1. w \in Nat /\ v \in Nat
    BY VersionsAreNaturals DEF MigrateInv, MigrateTypeOK
  <2>2. w <= v
    BY <2>1
  <2> QED BY <2>2 DEF MigrateInv, InOrder
<1> QED BY <1>1, MigrateSpecInv, PTL

(* The statements of a migration whose file has no leading zeros are sent   *)
(* again only after the table could not be told of them, or when two        *)
(* commands were at work at once (detectar_pendientes).                     *)
THEOREM MigrateSentAgainOnlyIfUnsure == MigrateSpec => SentAgainOnlyIfUnsure
<1>1. ASSUME MigrateInv, [MigrateNext]_migrateVars
      PROVE  [\A v \in Version :
                ran[v] > 0 /\ ran'[v] > ran[v] =>
                  v \in unsure \/ overlapped \/ ~Printed(v)]_migrateVars
  <2> SUFFICES ASSUME MigrateNext, NEW v \in Version, ran[v] > 0, ran'[v] > ran[v], ~overlapped,
                      Printed(v)
               PROVE  v \in unsure
    BY <1>1
  <2> USE <1>1
  <2>1. ran' # ran
    BY DEF MigrateInv, MigrateTypeOK
  <2>2. PICK p \in Migrator : MigAt(p, "apply") /\ Sent(NextOf(mig[p].todo))
    BY <2>1 DEF MigrateNext, Detect, Simulate, Apply, Warn, Fail, Register, Stop
  <2>3. ~MigAt(p, "rest")
    BY <2>2 DEF MigAt
  <2>4. v = NextOf(mig[p].todo)
    BY <2>2, <2>3, AtWork, SentOnce DEF MigrateInv, MigrateTypeOK
  <2>5. v \notin registered
    BY <2>2, <2>3, <2>4, AtWork DEF JobOK, Plain
  <2> QED BY <2>5 DEF MigrateInv, Accounted
<1> QED BY <1>1, MigrateSpecInv, PTL DEF MigrateSpec, SentAgainOnlyIfUnsure

-----------------------------------------------------------------------------
(* A database replaced by that of a tarball.                               *)
(* Once the snapshot phase is behind, what the run may destroy has been     *)
(* copied; before it nothing is destroyed.                                  *)
CopiedFirst ==
  phase \notin {"idle", "snapshot"} => uncopied \/ snaps \cap Own # {}

RestoreInv == TypeOK /\ CopiedFirst /\ OriginalSurvives

(* The kinds of data are apart. *)
LEMMA Kinds ==
  /\ 0 \in Own /\ Own \subseteq Nat
  /\ {New, Part, Empty, Absent, Marker, NoCopy} \cap Own = {}
  /\ Marker \notin Databases /\ Absent \notin Snapshots /\ NoCopy \notin Snapshots
BY RestoreAssumption DEF Own, New, Part, Empty, Absent, Marker, NoCopy, Databases, Snapshots

LEMMA RestoreInitInv == Init => RestoreInv
<1> SUFFICES ASSUME Init PROVE RestoreInv
  OBVIOUS
<1>1. db \in Own /\ db \in Databases
  BY Kinds DEF Init, Databases
<1>2. restores \in 0 .. MaxRestores
  BY RestoreAssumption DEF Init
<1>3. TypeOK
  BY <1>1, <1>2 DEF Init, TypeOK, Phases
<1> QED
  BY <1>1, <1>3 DEF Init, RestoreInv, CopiedFirst, OriginalSurvives

(* What the way back may leave. *)
LEMMA WayBackTypes ==
  ASSUME TypeOK, mine # NoCopy
  PROVE  Emptied \subseteq Databases /\ Restored \subseteq Databases
<1>1. IF mine = Marker THEN Empty \in Databases ELSE mine \in Databases
  BY DEF TypeOK, Snapshots, Databases
<1> QED
  BY <1>1 DEF TypeOK, Emptied, Restored, Databases

LEMMA BeginInv == RestoreInv /\ Begin => RestoreInv'
<1> SUFFICES ASSUME RestoreInv, Begin PROVE RestoreInv'
  OBVIOUS
<1>1. TypeOK'
  BY RestoreAssumption DEF RestoreInv, TypeOK, Begin, Phases
<1>2. CopiedFirst' /\ OriginalSurvives'
  BY DEF RestoreInv, Begin, CopiedFirst, OriginalSurvives
<1> QED
  BY <1>1, <1>2 DEF RestoreInv

(* The snapshot: the site's own data is copied, or noted as not copied. *)
LEMMA SnapshotInv == RestoreInv /\ Snapshot => RestoreInv'
<1> SUFFICES ASSUME RestoreInv, Snapshot PROVE RestoreInv'
  OBVIOUS
<1>1. db \in Databases /\ snaps \subseteq Snapshots /\ uncopied \in BOOLEAN
  BY DEF RestoreInv, TypeOK
<1>2. CASE Dump
  <2>1. db \in Snapshots
    BY <1>1, <1>2 DEF Dump, Databases, Snapshots
  <2>2. mine' = db /\ snaps' = snaps \cup {db} /\ uncopied' = uncopied
    BY <1>2 DEF Dump, Copied, NewFile
  <2> QED
    BY <1>1, <2>1, <2>2
    DEF RestoreInv, TypeOK, CopiedFirst, OriginalSurvives, Snapshot, Step, given, Phases
<1>3. CASE NoDump
  <2>1. mine' = Marker /\ snaps' = snaps \cup {Marker} /\ uncopied' = (uncopied \/ db \in Own)
    BY <1>3 DEF NoDump, Copied, NewFile
  <2>2. Marker \in Snapshots
    BY DEF Snapshots
  <2> QED
    BY <1>1, <2>1, <2>2
    DEF RestoreInv, TypeOK, CopiedFirst, OriginalSurvives, Snapshot, Step, given, Phases
<1>4. CASE NoFile
  BY <1>1, <1>4
  DEF NoFile, RestoreInv, TypeOK, CopiedFirst, OriginalSurvives, Snapshot, Step, given, Phases
<1> QED
  BY <1>2, <1>3, <1>4 DEF Snapshot

(* The steps that touch neither the database nor the copies. *)
LEMMA QuietKeeps ==
  ASSUME RestoreInv, Convert \/ ConvertErr \/ StopApp \/ Copy \/ CopyErr \/ Verify
              \/ StartOk \/ StartErr \/ AppStarts
  PROVE  RestoreInv'
<1>1. TypeOK'
  BY DEF RestoreInv, TypeOK, Convert, ConvertErr, StopApp, Copy, CopyErr, Verify, StartOk,
         StartErr, AppStarts, Undoes, Step, Ends, given, copies, Phases
<1>2. UNCHANGED <<db, snaps, uncopied>>
  BY DEF Convert, ConvertErr, StopApp, Copy, CopyErr, Verify, StartOk, StartErr,
         AppStarts, given, copies
<1>3. phase' \notin {"idle", "snapshot"} => phase \notin {"idle", "snapshot"}
  BY DEF Convert, ConvertErr, StopApp, Copy, CopyErr, Verify, StartOk, StartErr,
         AppStarts, Undoes, Step, Ends
<1> QED
  BY <1>1, <1>2, <1>3 DEF RestoreInv, CopiedFirst, OriginalSurvives

(* The steps that replace the database, which come after the snapshot. *)
LEMMA ReplaceInv ==
  ASSUME RestoreInv, Recreate \/ RecreateErr \/ Import \/ ImportErr \/ Undo
  PROVE  RestoreInv'
<1>1. db' \in Databases
  <2>1. CASE Undo
    BY <2>1, WayBackTypes DEF Undo, RestoreInv, TypeOK
  <2>2. CASE Recreate \/ RecreateErr \/ Import \/ ImportErr
    BY <2>2 DEF Recreate, RecreateErr, Import, ImportErr, RestoreInv, TypeOK, Databases
  <2> QED
    BY <2>1, <2>2
<1>2. TypeOK'
  BY <1>1 DEF RestoreInv, TypeOK, Recreate, RecreateErr, Import, ImportErr, Undo, Undoes,
              Step, given, copies, Phases
<1>3. UNCHANGED <<snaps, uncopied>> /\ phase \notin {"idle", "snapshot"}
  BY DEF Recreate, RecreateErr, Import, ImportErr, Undo, Undoes, Step, copies
<1> QED
  BY <1>2, <1>3 DEF RestoreInv, CopiedFirst, OriginalSurvives

LEMMA LostInv == RestoreInv /\ Lost => RestoreInv'
<1> SUFFICES ASSUME RestoreInv, Lost PROVE RestoreInv'
  OBVIOUS
<1>1. LostDb \subseteq Databases
  <2>1. CASE phase = "undo" /\ mine # NoCopy
    BY <2>1, WayBackTypes DEF LostDb, RestoreInv
  <2>2. CASE ~(phase = "undo" /\ mine # NoCopy)
    BY <2>2 DEF LostDb, Emptied, RestoreInv, TypeOK, Databases
  <2> QED
    BY <2>1, <2>2
<1>2. TypeOK'
  BY <1>1 DEF Lost, Ends, RestoreInv, TypeOK, given, copies, Phases
<1>3. CASE phase \in {"idle", "snapshot"}
  BY <1>2, <1>3 DEF Lost, LostDb, Ends, RestoreInv, copies, CopiedFirst, OriginalSurvives
<1>4. CASE phase \notin {"idle", "snapshot"}
  BY <1>2, <1>4 DEF Lost, Ends, RestoreInv, copies, CopiedFirst, OriginalSurvives
<1> QED
  BY <1>3, <1>4

LEMMA ChangeInv == RestoreInv /\ Change => RestoreInv'
<1> SUFFICES ASSUME RestoreInv, Change PROVE RestoreInv'
  OBVIOUS
<1>1. db' \in Own
  BY RestoreAssumption DEF Change, Own
<1> QED
  BY <1>1 DEF RestoreInv, TypeOK, Change, given, copies, CopiedFirst, OriginalSurvives, Databases

LEMMA RestoreNextInv == RestoreInv /\ [Next]_vars => RestoreInv'
<1> SUFFICES ASSUME RestoreInv, [Next]_vars PROVE RestoreInv'
  OBVIOUS
<1>1. CASE UNCHANGED vars
  BY <1>1 DEF vars, RestoreInv, TypeOK, CopiedFirst, OriginalSurvives
<1> QED
  BY <1>1, BeginInv, SnapshotInv, QuietKeeps, ReplaceInv, LostInv, ChangeInv DEF Next, Command

(* The type invariant of the command, for any number of runs and writes:    *)
(* what the database and the snapshots hold at each phase of restore-pg-data*)
(* and wherever a run ends.                                                 *)
THEOREM RestoreTypeOK == Spec => []TypeOK
BY RestoreInitInv, RestoreNextInv, PTL DEF Spec, RestoreInv

(* However many times restore-pg-data is run, and wherever its runs stop,   *)
(* the site's own data is in the database or in a snapshot on the host,     *)
(* unless a run went on without having copied it (fase_snapshot,            *)
(* cleanup_tmp).                                                            *)
THEOREM RestoreOriginalSurvives == Spec => []OriginalSurvives
BY RestoreInitInv, RestoreNextInv, PTL DEF Spec, RestoreInv
-----------------------------------------------------------------------------
(* Until the tarball has been converted the app runs, and a tarball that    *)
(* cannot be converted ends the run there.                                  *)
BeforeStop ==
  /\ phase \in {"snapshot", "convert"} => up
  /\ ~good => phase \in {"idle", "snapshot", "convert"}

LEMMA NextBeforeStop == RestoreInv /\ BeforeStop /\ [Next]_vars => BeforeStop'
<1> SUFFICES ASSUME RestoreInv, BeforeStop, [Next]_vars PROVE BeforeStop'
  OBVIOUS
<1>1. CASE Begin
  BY <1>1 DEF Begin, BeforeStop
<1>2. CASE Snapshot \/ Convert \/ ConvertErr \/ StopApp
  BY <1>2 DEF Snapshot, Convert, ConvertErr, StopApp, Step, Ends, given, BeforeStop
<1>3. CASE \/ Copy \/ CopyErr \/ Recreate \/ RecreateErr \/ Import \/ ImportErr
           \/ Verify \/ Undo
  BY <1>3 DEF Copy, CopyErr, Recreate, RecreateErr, Import, ImportErr, Verify, Undo,
              Undoes, Step, given, BeforeStop
<1>4. CASE StartOk \/ StartErr \/ Lost
  BY <1>4 DEF StartOk, StartErr, Lost, Ends, given, BeforeStop
<1>5. CASE Change \/ AppStarts \/ UNCHANGED vars
  BY <1>5 DEF Change, AppStarts, vars, given, BeforeStop
<1> QED
  BY <1>1, <1>2, <1>3, <1>4, <1>5 DEF Next, Command

LEMMA BeforeStopInvariant == Spec => [](RestoreInv /\ BeforeStop)
<1>1. Init => BeforeStop
  BY DEF Init, BeforeStop
<1> QED
  BY <1>1, RestoreInitInv, RestoreNextInv, NextBeforeStop, PTL DEF Spec

(* A tarball that cannot be converted costs the site neither its data nor   *)
(* its app, in any run (fase_preparar_backup, fase_convertir_sql).          *)
THEOREM RestoreBadTarballHarmless == Spec => BadTarballHarmless
<1>1. RestoreInv /\ BeforeStop /\ [Next]_vars =>
        (~good /\ phase # "idle" => (db \in Own => db' \in Own) /\ (up => up'))
  <2> SUFFICES ASSUME RestoreInv, BeforeStop, [Next]_vars, ~good, phase # "idle"
               PROVE  (db \in Own => db' \in Own) /\ (up => up')
    OBVIOUS
  <2>1. phase \in {"snapshot", "convert"}
    BY DEF BeforeStop
  <2>2. CASE Change
    BY <2>2, RestoreAssumption DEF Change, Own
  <2>3. CASE Lost
    <3>1. LostDb = {db}
      BY <2>1 DEF LostDb
    <3> QED
      BY <2>1, <2>3, <3>1 DEF Lost, Ends
  <2>4. CASE ~Change /\ ~Lost
    BY <2>1, <2>4
    DEF Next, Command, Begin, Snapshot, Convert, ConvertErr, StopApp, Copy, CopyErr,
        Recreate, RecreateErr, Import, ImportErr, Verify, Undo, StartOk, StartErr,
        Undoes, AppStarts, Step, Ends, vars, copies
  <2> QED
    BY <2>2, <2>3, <2>4
<1> QED
  BY <1>1, BeforeStopInvariant, PTL DEF Spec, BadTarballHarmless

(* Whatever fails, a run that ends with an answer of its own leaves the app *)
(* running, unless `docker start` failed (fase_restaurar, fase_finalizar).  *)
THEOREM RestoreAppRestarted == Spec => AppRestarted
<1>1. RestoreInv /\ BeforeStop /\ [Next]_vars =>
        (phase # "idle" /\ phase' = "idle" /\ answer' \in {"ok", "err"} => up')
  BY DEF BeforeStop, Next, Command, Begin, Snapshot, Convert, ConvertErr, StopApp, Copy,
         CopyErr, Recreate, RecreateErr, Import, ImportErr, Verify, Undo, StartOk,
         StartErr, Lost, Undoes, Change, AppStarts, Step, Ends, vars
<1> QED
  BY <1>1, BeforeStopInvariant, PTL DEF Spec, AppRestarted
=============================================================================
