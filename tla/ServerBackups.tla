--------------------------- MODULE ServerBackups ---------------------------
(***************************************************************************)
(* The nightly backups of a host: backup-server.sh, which cron and people  *)
(* run, dumps every database and directory it finds into one directory of  *)
(* archives per source and tier, and keeps the newest of each.  Nothing    *)
(* keeps two runs apart.  install-backups puts the script, its overrides   *)
(* and the line of cron in place, and runs it.                             *)
(*                                                                         *)
(* A source is a database, or a directory whose archive is kept when tar   *)
(* ends in an error.  Sizes and days of the week only choose the tier, so  *)
(* that any tier may be chosen.                                            *)
(***************************************************************************)
EXTENDS Integers, FiniteSets, FiniteSetsExt

CONSTANTS
  Source,     \* databases and directories found on the host
  Directory,  \* those that are directories
  Keyed,      \* those whose override is found by the name the script gives them
  Run,        \* processes that may run the script at once
  Installer,  \* the one that install-backups runs it in
  DefaultKeep, HeavyKeep, \* archives kept of a tier, and of what is heavy
  Overrides,  \* what the settings may ask to keep
  SameMinute, \* dumps that begin in the minute of the one before
  MaxDumps, MaxInstalls \* bounds

ASSUME SourceAssumption == Directory \subseteq Source /\ Keyed \subseteq Source
ASSUME RunAssumption == Installer \in Run
ASSUME KeepAssumption ==
  /\ {DefaultKeep, HeavyKeep} \subseteq Nat
  /\ Overrides \subseteq Nat
ASSUME BoundsAssumption == {MaxDumps, MaxInstalls} \cup SameMinute \subseteq Nat

Tier == {"daily", "weekly"}
Dir == Source \X Tier

VARIABLES
  dumps,     \* dumps ever ended, the clock of their modification times
  kept,      \* the archives of each source and tier
  run,       \* where each run is
  installed, \* the script is there, for people and for cron
  conf,      \* what /etc/backup-sites.conf keeps of each tier, Default where it
             \* does not say
  install,   \* what install-backups is at
  installs,
  newest,    \* history: when the newest whole archive there was dumped, or 0
  waived     \* history: directories where two rotations crossed, or a part took
             \* the name of a whole archive or of a newer one

vars == <<dumps, kept, run, installed, conf, install, installs, newest, waived>>
place == <<installed, conf, install, installs>>

Default == [t \in Tier |-> DefaultKeep]

Idle == [at |-> "idle", todo |-> {}]
RunAt(r, step) == run[r].at = step

Init ==
  /\ dumps = 0
  /\ kept = [d \in Dir |-> {}]
  /\ newest = [d \in Dir |-> 0] /\ waived = {}
  /\ run = [r \in Run |-> Idle]
  /\ installed = TRUE
  /\ conf = [s \in Keyed |-> Default]
  /\ install = "idle" /\ installs = 0
-----------------------------------------------------------------------------
(* generate_sites_config: with no override there is no content, and the     *)
(* file of before stays.                                                    *)
Written(asked) == IF \A s \in Keyed : asked[s] = Default THEN conf ELSE asked

(* The script, its overrides, chmod and the line of cron: any step may be   *)
(* the last one, and a file that is not written to its end is empty.        *)
Install ==
  /\ install = "idle" /\ installs < MaxInstalls /\ dumps < MaxDumps
  /\ installs' = installs + 1
  /\ \/ installed' \in {installed, FALSE} /\ UNCHANGED <<conf, install>>
     \/ \E asked \in [Keyed -> [Tier -> Overrides]] :
          \/ /\ conf' \in {Written(asked), [s \in Keyed |-> Default]}
             /\ UNCHANGED <<installed, install>>
          \/ conf' = Written(asked) /\ installed' = TRUE /\ install' \in {"first", "idle"}
  /\ UNCHANGED <<dumps, kept, run, newest, waived>>

(* The line of cron, the script and its overrides, each by a call of its    *)
(* own, whose failure is not looked at.  The archives stay.                 *)
Uninstall ==
  /\ install = "idle" /\ dumps < MaxDumps
  /\ installed' \in {installed, FALSE}
  /\ conf' \in {conf, [s \in Keyed |-> Default]}
  /\ UNCHANGED <<dumps, kept, run, install, installs, newest, waived>>

(* What is running with its credentials, the directories that are there, or *)
(* what of these --site names                                               *)
Found == SUBSET Source \ {{}}

(* A run has to do with what it finds; the installer runs it twice.         *)
Start(r) ==
  /\ RunAt(r, "idle") /\ installed /\ dumps < MaxDumps
  /\ r = Installer => install \in {"first", "second"}
  /\ \E found \in Found :
       run' = [run EXCEPT ![r] = [at |-> "next", todo |-> found]]
  /\ UNCHANGED <<dumps, kept, place, newest, waived>>

AfterRun == IF install = "first" THEN "second" ELSE "idle"

Finish(r) ==
  /\ RunAt(r, "next") /\ run[r].todo = {}
  /\ run' = [run EXCEPT ![r] = Idle]
  /\ install' = IF r = Installer THEN AfterRun ELSE install
  /\ UNCHANGED <<dumps, kept, installed, conf, installs, newest, waived>>

(* read_site_config *)
KeepOf(s) == IF s \in Keyed THEN conf[s] ELSE Default

Minute == dumps - Cardinality({n \in SameMinute : n <= dumps})

(* The name of the archive is the minute in which its dump begins. *)
BeginDump(r) ==
  /\ RunAt(r, "next") /\ dumps < MaxDumps
  /\ \E s \in run[r].todo :
       run' = [run EXCEPT ![r] = [at |-> "dump", todo |-> @.todo \ {s}, source |-> s,
                                  minute |-> Minute, keep |-> KeepOf(s)]]
  /\ UNCHANGED <<dumps, kept, place, newest, waived>>

(* tar may end in an error and its archive is kept, a dump may not.         *)
Whole(r) == IF run[r].source \in Directory THEN BOOLEAN ELSE {TRUE}

(* resolve_tier: a source that is heavy goes to weekly, with a keep of its  *)
(* own; a tier that was asked for or the day of the week choose for others, *)
(* with the keep of that tier.                                              *)
Resolved(r) == {[tier |-> t, keep |-> run[r].keep[t]] : t \in Tier}
                 \cup {[tier |-> "weekly", keep |-> HeavyKeep]}

Dump(r) ==
  /\ RunAt(r, "dump") /\ dumps < MaxDumps
  /\ dumps' = dumps + 1
  /\ \E c \in Resolved(r), w \in Whole(r) :
       run' = [run EXCEPT ![r] =
            [at |-> "move", todo |-> @.todo, dir |-> <<@.source, c.tier>>, keep |-> c.keep,
             file |-> [minute |-> @.minute, made |-> dumps + 1, whole |-> w]]]
  /\ UNCHANGED <<kept, place, newest, waived>>

(* The dump fails, or is shorter than 100 bytes. *)
Fail(r) ==
  /\ RunAt(r, "dump")
  /\ run' = [run EXCEPT ![r] = [at |-> "next", todo |-> @.todo]]
  /\ UNCHANGED <<dumps, kept, place, newest, waived>>

SameName(r) == {a \in kept[run[r].dir] : a.minute = run[r].file.minute}
Wholes(archives) == {a.made : a \in {b \in archives : b.whole}}
Put(r, a) ==
  LET d == run[r].dir
      wholes == Wholes((kept[d] \ SameName(r)) \cup {a}) IN
  /\ kept' = [kept EXCEPT ![d] = (@ \ SameName(r)) \cup {a}]
  /\ newest' = IF wholes = {} THEN newest ELSE [newest EXCEPT ![d] = Max(wholes)]
  /\ waived' = IF ~ a.whole /\ \E b \in SameName(r) : b.whole \/ b.made > a.made
               THEN waived \cup {d} ELSE waived

(* The archive is out of the hands of the run, which rotates the directory. *)
Moved(r) ==
  run' = [run EXCEPT ![r] = [at |-> "count", todo |-> @.todo, dir |-> @.dir, keep |-> @.keep]]

(* mv, whose result is not looked at: /tmp may be another file system, and  *)
(* the one of the archives full, which leaves nothing or a part.            *)
Move(r) ==
  /\ RunAt(r, "move")
  /\ Put(r, run[r].file)
  /\ Moved(r)
  /\ UNCHANGED <<dumps, place>>

MoveFails(r) ==
  /\ RunAt(r, "move")
  /\ UNCHANGED <<kept, newest, waived>> \/ Put(r, [run[r].file EXCEPT !.whole = FALSE])
  /\ Moved(r)
  /\ UNCHANGED <<dumps, place>>

\* Mutant of the next definition: not only when there are too many.
ExtraOffByOne(r) == Max({0, Cardinality(kept[run[r].dir]) + 1 - run[r].keep})
Extra(r) == Max({0, Cardinality(kept[run[r].dir]) - run[r].keep})

(* rotate lists the archives twice: to count those that are too many, ...   *)
Count(r) ==
  /\ RunAt(r, "count")
  /\ run' = [run EXCEPT ![r] =
       IF Extra(r) = 0 THEN [at |-> "next", todo |-> @.todo]
       ELSE [at |-> "rotate", todo |-> @.todo, dir |-> @.dir, extra |-> Extra(r),
             seen |-> Cardinality(kept[@.dir])]]
  /\ UNCHANGED <<dumps, kept, place, newest, waived>>

\* Mutant of the next definition: sort -rn.
NewestFirst(archives, n) ==
  {a \in archives : Cardinality({b \in archives : b.made > a.made}) < n}

(* The n that were written first, sort -n | head -n *)
Oldest(archives, n) ==
  {a \in archives : Cardinality({b \in archives : b.made < a.made}) < n}

(* ... and to remove as many of the oldest. *)
Rotate(r) ==
  LET d == run[r].dir IN
  /\ RunAt(r, "rotate")
  /\ kept' = [kept EXCEPT ![d] = @ \ Oldest(@, run[r].extra)]
  /\ waived' = IF Cardinality(kept[d]) < run[r].seen
               THEN waived \cup {d} ELSE waived
  /\ run' = [run EXCEPT ![r] = [at |-> "next", todo |-> @.todo]]
  /\ UNCHANGED <<dumps, place, newest>>

(* The host reboots or somebody ends it, and install-backups goes on. *)
Kill(r) ==
  /\ ~ RunAt(r, "idle")
  /\ run' = [run EXCEPT ![r] = Idle]
  /\ install' = IF r = Installer THEN AfterRun ELSE install
  /\ UNCHANGED <<dumps, kept, installed, conf, installs, newest, waived>>

Step(r) ==
  \/ Start(r) \/ Finish(r) \/ BeginDump(r) \/ Dump(r) \/ Fail(r)
  \/ Move(r) \/ MoveFails(r) \/ Count(r) \/ Rotate(r) \/ Kill(r)

Next == Install \/ Uninstall \/ \E r \in Run : Step(r)

Spec == Init /\ [][Next]_vars
-----------------------------------------------------------------------------
(* The fewest archives that a run may keep of a directory: its source may   *)
(* have any override, and what is heavy a keep of its own.                  *)
Least(d) ==
  Min({DefaultKeep} \cup (IF d[1] \in Keyed THEN Overrides ELSE {})
                    \cup (IF d[2] = "weekly" THEN {HeavyKeep} ELSE {}))

Newer(archives, made) == {a \in archives : a.made > made}

(* A source that once had a whole archive has one, whatever fails, is       *)
(* skipped, killed or rotated, until as many newer archives as are kept at  *)
(* least are there and each is only part of one (backup_files keeps what    *)
(* tar leaves, and mv is not looked at).  Of directories where rotations    *)
(* crossed, or a part took the name of a whole archive or of a newer one,   *)
(* it says nothing, nor of those where a keep may be 0.                     *)
WholeOneStays ==
  \A d \in Dir \ waived :
    newest[d] > 0 => \/ \E a \in kept[d] : a.whole
                     \/ Cardinality(Newer(kept[d], newest[d])) >= Least(d)

(* An archive goes only when as many newer ones stay as any run keeps of    *)
(* that directory at least, or for the next one of its name: rotate of      *)
(* backup-server.sh, which runs with a keep that changes with the size, the *)
(* tier and the override.  Rotations that cross are left out: they do       *)
(* remove what is new.                                                      *)
RotationKeepsNewest ==
  [][\A d \in Dir : \A a \in kept[d] \ kept'[d] :
       \/ \E b \in kept'[d] : b.minute = a.minute
       \/ Cardinality(Newer(kept'[d], a.made)) >= Least(d)
       \/ d \in waived']_vars
=============================================================================
