--------------------------- MODULE RestorePgData ---------------------------
(***************************************************************************)
(* commands/restore_pg_data: the database of a running Rust site is        *)
(* replaced by what a tarball of a Postgres data directory holds: snapshot,*)
(* conversion of the tarball to SQL, stop of the app, drop and create,     *)
(* import, start of the app, and the way back from a failure.  Beside it   *)
(* the app writes, and its autoheal timer or somebody starts it again.     *)
(***************************************************************************)
EXTENDS Naturals

CONSTANTS
  MaxRestores,  \* bound on the runs of the command
  MaxChanges,   \* bound on the changes of the site's own data
  SameMachine,  \* the program runs on the host whose site it restores
  Autoheal      \* the site has its autoheal timer

ASSUME RestoreAssumption ==
  /\ MaxRestores \in Nat /\ MaxChanges \in Nat
  /\ {SameMachine, Autoheal} \subseteq BOOLEAN

(* What a database or a snapshot file may hold.                            *)
Own == 0 .. MaxChanges     \* the site's own data, after so many changes
New == MaxChanges + 1      \* what the tarball holds
Part == MaxChanges + 2     \* a part of something, or a mixture
Empty == MaxChanges + 3    \* no tables
Absent == MaxChanges + 4   \* there is no database
Marker == MaxChanges + 5   \* a snapshot that only says EMPTY_DB
NoCopy == MaxChanges + 6   \* no snapshot
Databases == Own \cup {New, Part, Empty, Absent}
Snapshots == Own \cup {New, Part, Empty, Marker}

Phases == {"idle", "snapshot", "convert", "stop", "copy", "recreate", "import",
           "verify", "finish", "undo", "restart"}

VARIABLES
  phase,     \* where the command is
  skip,      \* --skip-safety-snapshot
  good,      \* the tarball holds a data directory that Postgres starts on
  mine,      \* what the snapshot file of this run holds
  snaps,     \* what the snapshot files on the host hold, of every run
  db,        \* the database of the site
  up,        \* the app's container runs
  answer,    \* how the last run ended: "ok", "err", "lost", "nostart" or "none"
  restores,  \* runs begun so far
  uncopied   \* history: a run went on without a copy of the site's own data

vars == <<phase, skip, good, mine, snaps, db, up, answer, restores, uncopied>>
given == <<skip, good, restores>>
copies == <<mine, snaps, uncopied>>

Init ==
  /\ phase = "idle" /\ answer = "none" /\ restores = 0
  /\ skip = FALSE /\ good = TRUE
  /\ mine = NoCopy /\ snaps = {} /\ uncopied = FALSE
  /\ db = 0 /\ up = TRUE

Step(from, to) == phase = from /\ phase' = to /\ UNCHANGED answer
Ends(from, how) == phase = from /\ phase' = "idle" /\ answer' = how

(* The containers are looked for with `docker ps`: a stopped app is none.   *)
Begin ==
  /\ phase = "idle" /\ phase' = "snapshot" /\ answer' = "none"
  /\ up
  /\ restores < MaxRestores /\ restores' = restores + 1
  /\ skip' \in BOOLEAN /\ good' \in BOOLEAN
  /\ mine' = NoCopy
  /\ UNCHANGED <<snaps, uncopied, db, up>>
-----------------------------------------------------------------------------
(* fase_snapshot: what pg_dump does not dump is taken for an empty          *)
(* database, and whether `echo` wrote the file is not looked at (a dump     *)
(* longer than a command line, a full disk).                                *)
\* Mutant of the next definition: every run has the same snapshot file.
OneFile(d) == snaps' = {d}
NewFile(d) == snaps' = snaps \cup {d}
Copied(d) == mine' = d /\ NewFile(d)

Dump == db # Absent /\ Copied(db) /\ uncopied' = uncopied
NoDump == Copied(Marker) /\ uncopied' = (uncopied \/ db \in Own)
NoFile == uncopied' = (uncopied \/ db \in Own) /\ UNCHANGED <<mine, snaps>>
Snapshot ==
  /\ Step("snapshot", "convert")
  /\ \/ ~skip /\ (Dump \/ NoDump)
     \/ NoFile
  /\ UNCHANGED <<given, db, up>>

(* fase_preparar_backup and fase_convertir_sql, in a directory and a        *)
(* Postgres of their own.                                                   *)
Convert ==
  /\ Step("convert", "stop")
  /\ good
  /\ UNCHANGED <<given, copies, db, up>>

\* Mutant of the next definition: a failed conversion takes the way back, too.
ConvertUndoes == Step("convert", "undo") /\ UNCHANGED <<given, copies, db, up>>
ConvertErr == Ends("convert", "err") /\ UNCHANGED <<given, copies, db, up>>

(* docker stop, whose failure is not an error. *)
StopApp ==
  /\ Step("stop", "copy")
  /\ up' \in BOOLEAN /\ (up' => up)
  /\ UNCHANGED <<given, copies, db>>
-----------------------------------------------------------------------------
(* fase_restaurar.  Every error of it takes the way back and starts the app.*)
\* Mutant of the next definition: the app is not started after a failure.
EndsStopped(from) == Ends(from, "err")
Undoes(from) == Step(from, IF skip THEN "restart" ELSE "undo")

Copy == Step("copy", "recreate") /\ UNCHANGED <<given, copies, db, up>>
CopyErr == Undoes("copy") /\ UNCHANGED <<given, copies, db, up>>

(* psql -c DROP -c CREATE goes on after an error and answers as its last    *)
(* command: a session that came back keeps the database from being dropped  *)
(* and then created.                                                        *)
Recreate ==
  /\ Step("recreate", "import")
  /\ db' = Empty
  /\ UNCHANGED <<given, copies, up>>

RecreateErr ==
  /\ Undoes("recreate")
  /\ db' \in {db, Absent}
  /\ UNCHANGED <<given, copies, up>>

(* Without ON_ERROR_STOP psql answers success whatever its statements do;   *)
(* it fails when it loses the server.                                       *)
Import ==
  /\ Step("import", "verify")
  /\ db' \in {New, Part, Empty}
  /\ UNCHANGED <<given, copies, up>>

ImportErr ==
  /\ Undoes("import")
  /\ db' \in {Part, Empty}
  /\ UNCHANGED <<given, copies, up>>

(* The number of tables is printed; what is no number counts as 0. *)
Verify == Step("verify", "finish") /\ UNCHANGED <<given, copies, db, up>>

(* restore_safety_snapshot, none of whose errors is an error.  The snapshot *)
(* is on the host, and copy_to_container sends a file of the machine of the *)
(* program: only if that is the host does the import have something to read.*)
Emptied == {db, Absent, Empty}
\* Mutant of the next definition: a marker is taken for a database.
Restored == {Part, IF mine = Marker THEN Empty ELSE mine}
Undo ==
  /\ Step("undo", "restart")
  /\ IF mine = NoCopy THEN db' = db
     ELSE db' \in Emptied \cup (IF SameMachine THEN Restored ELSE {})
  /\ UNCHANGED <<given, copies, up>>

(* docker start; if it fails the app stays as it is, after success with a   *)
(* line that says how to start it.                                          *)
StartOk ==
  /\ \/ Ends("restart", "err")
     \/ Ends("finish", "ok")
  /\ up' = TRUE
  /\ UNCHANGED <<given, copies, db>>

StartErr ==
  /\ phase \in {"restart", "finish"}
  /\ Ends(phase, "nostart")
  /\ UNCHANGED <<given, copies, db, up>>
-----------------------------------------------------------------------------
(* The connection is lost or the process ends in the middle of a call.      *)
LostDb ==
  CASE phase = "recreate" -> Emptied
    [] phase = "import"   -> {New, Part, Empty}
    [] phase = "undo" /\ mine # NoCopy -> Emptied \cup (IF SameMachine THEN Restored ELSE {})
    [] OTHER -> {db}

Lost ==
  /\ phase # "idle"
  /\ Ends(phase, "lost")
  /\ db' \in LostDb
  /\ up' \in (IF phase = "stop" THEN {up, FALSE}
              ELSE IF phase \in {"restart", "finish"} THEN {up, TRUE} ELSE {up})
  /\ UNCHANGED <<given, copies>>

(* The users of the site. *)
Change ==
  /\ up /\ db \in Own /\ db < MaxChanges
  /\ db' = db + 1
  /\ UNCHANGED <<phase, answer, given, copies, up>>

(* The timer sees no container, or, between runs, somebody starts the app. *)
AppStarts ==
  /\ ~up /\ (Autoheal \/ phase = "idle")
  /\ up' = TRUE
  /\ UNCHANGED <<phase, answer, given, copies, db>>

Command ==
  \/ Snapshot \/ Convert \/ ConvertErr \/ StopApp
  \/ Copy \/ CopyErr \/ Recreate \/ RecreateErr \/ Import \/ ImportErr \/ Verify
  \/ Undo \/ StartOk \/ StartErr \/ Lost

Next == Begin \/ Command \/ Change \/ AppStarts

(* Every call answers or times out. *)
Spec == Init /\ [][Next]_vars /\ WF_vars(Command)
-----------------------------------------------------------------------------
TypeOK ==
  /\ phase \in Phases
  /\ skip \in BOOLEAN /\ good \in BOOLEAN
  /\ mine \in Snapshots \cup {NoCopy} /\ snaps \subseteq Snapshots
  /\ db \in Databases /\ up \in BOOLEAN
  /\ answer \in {"none", "ok", "err", "lost", "nostart"}
  /\ restores \in 0 .. MaxRestores
  /\ uncopied \in BOOLEAN

(* However often the command is run and wherever its runs stop, the site's  *)
(* own data is in its database or in a snapshot on the host, unless a run   *)
(* went on without having copied it.  A second run takes its snapshot of    *)
(* what the first left, which must not cost the copy that the first made    *)
(* (cleanup_tmp: "No eliminar snapshot", preparacion.rs:113).               *)
OriginalSurvives == db \in Own \/ uncopied \/ snaps \cap Own # {}

(* A tarball that does not open, holds no data directory or that Postgres   *)
(* does not start on costs the site nothing: its data stays and its app     *)
(* runs on (the conversion comes before the stop, mod.rs:91-95).            *)
BadTarballHarmless ==
  [][~good /\ phase # "idle" => (db \in Own => db' \in Own) /\ (up => up')]_vars

(* A run that ends with an answer of its own leaves the app running, unless *)
(* the app could not be started: also one that fails in the middle of the   *)
(* restore, or on its way back (aplicacion.rs:47-55).                       *)
AppRestarted ==
  [][phase # "idle" /\ phase' = "idle" /\ answer' \in {"ok", "err"} => up']_vars

=============================================================================
