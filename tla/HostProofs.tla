----------------------------- MODULE HostProofs -----------------------------
(***************************************************************************)
(* A host, for any number of commands, restarts, works, sources and runs:  *)
(* the ways into it (HostAccess), its upgrades and restarts (HostWindow)   *)
(* and its nightly backups (ServerBackups).                                *)
(***************************************************************************)
EXTENDS HostAccess, HostWindow, ServerBackups, FiniteSetTheorems, TLAPS

(* The ways into the host.                                                 *)
Overs == {None, "old", "new"}
Clouds == {None, "pw", "off"}
Copies == [over : Overs, cloud : Clouds]
Laid == {None, "own", "policy"}
Walls == [rules : Laid, on : BOOLEAN, jail : Laid]
Work == {"ok", "err", "undone", "stuck", "prove", "undo"}
Tasks == [at : Work, of : {"ssh", "fw"},
          before : [ssh : Copies, fw : Walls, unproved : BOOLEAN]]

AccessTypeOK ==
  /\ login \in [password : BOOLEAN, strict : BOOLEAN]
  /\ disk \in Copies
  /\ backup \in [over : Overs \cup {Gone}, cloud : Clouds \cup {Gone}]
  /\ loaded \in Copies \cup {Down}
  /\ keyed \in BOOLEAN /\ sound \in BOOLEAN /\ unproved \in BOOLEAN
  /\ fw \in Walls
  /\ fwBackup \in [rules : Laid \cup {Gone}, jail : Laid \cup {Gone}]
  /\ task = [at |-> "idle"] \/ task \in Tasks

Undecided == task.at \in {"prove", "undo"}

(* The settings open a host with the files c.                              *)
Opens(c) == keyed \/ (login.password /\ Passwords(c))

(* What no change has put in doubt: the files open the host, now and after *)
(* a restart; and where the key does not, no hardening has left its        *)
(* override, nor a backup that an undo could bring back.                   *)
FilesProved ==
  ~ unproved =>
    /\ sound /\ loaded # Down
    /\ Opens(disk) /\ Opens(loaded)
    /\ keyed \/ (backup.cloud = Gone /\ disk.over # "new")

(* A hardening that is not decided has backups of what was there before.   *)
HardenCanUndo ==
  Undecided /\ task.of = "ssh" =>
    /\ unproved /\ sound
    /\ backup.over = IF task.before.ssh.over = None THEN Gone ELSE task.before.ssh.over
    /\ task.before.ssh.cloud # None => backup.cloud = task.before.ssh.cloud
    /\ disk.cloud = None \/ task.before.ssh.cloud # None
    /\ fw = task.before.fw
    /\ ~ task.before.unproved =>
         \/ keyed
         \/ /\ Opens(task.before.ssh) /\ task.before.ssh.over # "new"
            /\ task.before.ssh.cloud = None => backup.cloud = Gone /\ disk.cloud = None

EnforceCanUndo ==
  Undecided /\ task.of = "fw" =>
    /\ disk = task.before.ssh
    /\ fwBackup.rules = task.before.fw.rules
    /\ fwBackup.jail = IF task.before.fw.jail = None THEN Gone ELSE task.before.fw.jail

AccessInv == AccessTypeOK /\ FilesProved /\ HardenCanUndo /\ EnforceCanUndo /\ UndoneIsAsBefore

(* Whom the running sshd lets in.                                          *)
LEMMA WaysIn ==
  ASSUME keyed \in BOOLEAN, login \in [password : BOOLEAN, strict : BOOLEAN]
  PROVE  (ByKey \/ ByPassword) <=> (loaded # Down /\ Opens(loaded))
<1>1. login.password \in BOOLEAN
  OBVIOUS
<1> DEFINE up == loaded # Down
           pws == Passwords(loaded)
<1> HIDE DEF up, pws
<1>2. (up /\ keyed) \/ (up /\ login.password /\ pws) <=> up /\ (keyed \/ (login.password /\ pws))
  BY <1>1
<1> QED BY <1>2 DEF ByKey, ByPassword, Opens, up, pws

(* With no command at work there is nothing to undo.                       *)
LEMMA NothingToUndo ==
  ASSUME AccessTypeOK', FilesProved', task' = [at |-> "idle"]
  PROVE  AccessInv'
  BY DEF AccessInv, HardenCanUndo, EnforceCanUndo, UndoneIsAsBefore, Undecided, Doing

LEMMA AccessInitInv == AccessInit => AccessInv
<1> SUFFICES ASSUME AccessInit PROVE AccessInv
  OBVIOUS
<1>1. AccessTypeOK
  <2>1. disk \in Copies /\ loaded \in Copies
    BY DEF AccessInit, Copies, Overs, Clouds
  <2>2. fw \in Walls
    <3>1. CASE fw = [rules |-> None, on |-> FALSE, jail |-> None]
      BY <3>1 DEF Walls, Laid
    <3>2. CASE fw = [rules |-> "own", on |-> TRUE, jail |-> "own"]
      BY <3>2 DEF Walls, Laid
    <3> QED BY <3>1, <3>2 DEF AccessInit
  <2>3. /\ backup \in [over : Overs \cup {Gone}, cloud : Clouds \cup {Gone}]
        /\ fwBackup \in [rules : Laid \cup {Gone}, jail : Laid \cup {Gone}]
    BY DEF AccessInit
  <2>4. sound \in BOOLEAN /\ unproved \in BOOLEAN
    BY DEF AccessInit
  <2> QED BY <2>1, <2>2, <2>3, <2>4 DEF AccessInit, AccessTypeOK
<1>2. FilesProved
  <2>1. loaded # Down /\ Opens(loaded)
    BY <1>1, WaysIn DEF AccessInit, AccessTypeOK
  <2>2. Opens(disk) /\ sound /\ disk.over # "new" /\ backup.cloud = Gone
    BY <2>1 DEF AccessInit, Opens, Passwords, None
  <2> QED BY <2>1, <2>2 DEF FilesProved
<1>3. HardenCanUndo /\ EnforceCanUndo /\ UndoneIsAsBefore
  BY DEF AccessInit, HardenCanUndo, EnforceCanUndo, UndoneIsAsBefore, Undecided, Doing
<1> QED BY <1>1, <1>2, <1>3 DEF AccessInv

LEMMA HardenKeeps == ASSUME AccessInv, Harden PROVE AccessInv'
<1> USE DEF AccessInv
<1> PICK k \in 0 .. (IF sound THEN 4 ELSE 3), at \in {"prove", "err"} :
      /\ at = "prove" => k = 4
      /\ Hardened(k)
      /\ task' = [at |-> at, of |-> "ssh", before |-> Files]
  BY DEF Harden
<1>1. /\ UNCHANGED <<login, keyed, sound, fw, fwBackup>>
      /\ Between
  BY DEF Harden, Begin, settings, wall
<1>2. /\ k \in 0 .. 4 /\ k = 4 => sound
      /\ Files \in [ssh : Copies, fw : Walls, unproved : BOOLEAN]
  BY DEF AccessTypeOK, Files
<1>3. disk' \in Copies /\ backup' \in [over : Overs \cup {Gone}, cloud : Clouds \cup {Gone}]
  BY DEF AccessTypeOK, Hardened, Copies, Overs, Clouds, Gone, None
<1>4. loaded' \in Copies \cup {Down} /\ unproved' \in BOOLEAN
  BY <1>3 DEF AccessTypeOK, Hardened
<1>5. task' \in Tasks
  BY <1>2 DEF Tasks, Work
<1>6. AccessTypeOK'
  BY <1>1, <1>3, <1>4, <1>5 DEF AccessTypeOK
<1>7. FilesProved'
  <2>1. CASE k > 1
    BY <2>1 DEF Hardened, FilesProved
  <2>2. CASE ~ (k > 1)
    <3>1. disk' = disk /\ loaded' = loaded /\ unproved' = unproved /\ backup'.cloud = backup.cloud
      BY <1>2, <2>2 DEF Hardened, AccessTypeOK, Copies
    <3> QED BY <3>1, <1>1 DEF FilesProved, Opens, Passwords
  <2> QED BY <2>1, <2>2
<1>8. HardenCanUndo'
  <2> SUFFICES ASSUME at = "prove" PROVE HardenCanUndo'
    BY DEF HardenCanUndo, Undecided
  <2>1. k = 4 /\ sound
    BY <1>2
  <2>2. /\ backup' = [over |-> IF disk.over = None THEN Gone ELSE disk.over,
                      cloud |-> IF disk.cloud # None THEN disk.cloud ELSE backup.cloud]
        /\ disk' = [over |-> "new", cloud |-> IF disk.cloud # None THEN "off" ELSE disk.cloud]
    BY <2>1 DEF Hardened
  <2>3. unproved'
    <3>1. k > 1
      BY <2>1
    <3> QED BY <3>1 DEF Hardened
  <2>4. task'.before.ssh = disk /\ task'.before.fw = fw /\ task'.before.unproved = unproved
    BY DEF Files
  <2>5. ~ unproved => keyed \/ (Opens(disk) /\ backup.cloud = Gone /\ disk.over # "new")
    BY DEF FilesProved
  <2> QED BY <1>1, <2>1, <2>2, <2>3, <2>4, <2>5 DEF HardenCanUndo, Opens, Passwords
<1>9. EnforceCanUndo' /\ UndoneIsAsBefore'
  BY DEF EnforceCanUndo, UndoneIsAsBefore, Doing
<1> QED BY <1>6, <1>7, <1>8, <1>9

LEMMA EnforceKeeps == ASSUME AccessInv, Enforce PROVE AccessInv'
<1> USE DEF AccessInv
<1> PICK k \in 0 .. 5, at \in {"prove", "err"} :
      /\ at = "prove" => k = 5
      /\ Enforced(k)
      /\ task' = [at |-> at, of |-> "fw", before |-> Files]
  BY DEF Enforce
<1>1. UNCHANGED <<login, keyed, sound, disk, backup, loaded, unproved>>
  BY DEF Enforce, Begin, settings, sshd
<1>2. Files \in [ssh : Copies, fw : Walls, unproved : BOOLEAN]
  BY DEF AccessTypeOK, Files
<1>3. fw' \in Walls /\ fwBackup' \in [rules : Laid \cup {Gone}, jail : Laid \cup {Gone}]
  <2>1. fw'.rules \in Laid
    <3>1. CASE k < 2 BY <3>1 DEF Enforced, AccessTypeOK, Walls
    <3>2. CASE k = 2 BY <3>2 DEF Enforced, Laid
    <3>3. CASE k > 2 BY <3>3 DEF Enforced, Laid
    <3> QED BY <3>1, <3>2, <3>3
  <2>2. fw' = [rules |-> fw'.rules, on |-> IF k < 2 THEN fw.on ELSE k > 3,
               jail |-> IF k > 0 THEN "policy" ELSE fw.jail]
    BY DEF Enforced
  <2>3. (IF k < 2 THEN fw.on ELSE k > 3) \in BOOLEAN
    <3>1. fw.on \in BOOLEAN /\ (k > 3) \in BOOLEAN
      BY DEF AccessTypeOK, Walls
    <3>2. CASE k < 2
      BY <3>1, <3>2
    <3>3. CASE ~ (k < 2)
      BY <3>1, <3>3
    <3> QED BY <3>2, <3>3
  <2>4. (IF k > 0 THEN "policy" ELSE fw.jail) \in Laid
    BY DEF AccessTypeOK, Walls, Laid
  <2>5. fw' \in Walls
    BY <2>1, <2>2, <2>3, <2>4 DEF Walls
  <2>6. fwBackup' \in [rules : Laid \cup {Gone}, jail : Laid \cup {Gone}]
    BY DEF Enforced, AccessTypeOK, Walls
  <2> QED BY <2>5, <2>6
<1>4. task' \in Tasks
  BY <1>2 DEF Tasks, Work
<1>5. AccessTypeOK'
  BY <1>1, <1>3, <1>4 DEF AccessTypeOK
<1>6. FilesProved'
  BY <1>1 DEF FilesProved, Opens, Passwords
<1>7. HardenCanUndo' /\ UndoneIsAsBefore'
  BY DEF HardenCanUndo, UndoneIsAsBefore, Doing
<1>8. EnforceCanUndo'
  BY <1>1 DEF EnforceCanUndo, Undecided, Files, Enforced
<1> QED BY <1>5, <1>6, <1>7, <1>8

(* What became of a command that had something to decide.                  *)
LEMMA WhatBecame ==
  ASSUME AccessTypeOK, Undecided, NEW how \in Work, Ends(how)
  PROVE  /\ task' \in Tasks /\ task'.at = how
         /\ task'.of = task.of /\ task'.before = task.before
  BY DEF AccessTypeOK, Undecided, Ends, Tasks

LEMMA ProveKeeps == ASSUME AccessInv, Prove PROVE AccessInv'
<1> USE DEF AccessInv
<1>1. /\ UNCHANGED <<login, keyed, sound, disk, backup, loaded, fw, fwBackup>>
      /\ Undecided
  BY DEF Prove, settings, wall, Doing, Undecided
<1>2. CASE ByKey /\ Ends("ok") /\ unproved' = (IF task.of = "ssh" THEN FALSE ELSE unproved)
  <2>1. task' \in Tasks /\ task'.at = "ok"
    BY <1>1, <1>2, WhatBecame DEF Work
  <2>2. task.of \in {"ssh", "fw"}
    BY <1>1 DEF AccessTypeOK, Undecided, Tasks
  <2>3. AccessTypeOK'
    BY <1>1, <1>2, <2>1 DEF AccessTypeOK
  <2>4. FilesProved'
    <3>1. task.of = "ssh" => sound
      BY <1>1 DEF HardenCanUndo
    <3>2. loaded # Down /\ keyed
      BY <1>2 DEF ByKey
    <3> QED BY <1>1, <1>2, <2>2, <3>1, <3>2 DEF FilesProved, Opens
  <2>5. HardenCanUndo' /\ EnforceCanUndo' /\ UndoneIsAsBefore'
    BY <2>1 DEF HardenCanUndo, EnforceCanUndo, UndoneIsAsBefore, Undecided, Doing
  <2> QED BY <2>3, <2>4, <2>5
<1>3. CASE Ends("undo") /\ UNCHANGED unproved
  <2>1. /\ task' \in Tasks /\ task'.at = "undo"
        /\ task'.of = task.of /\ task'.before = task.before
    BY <1>1, <1>3, WhatBecame DEF Work
  <2>2. AccessTypeOK'
    BY <1>1, <1>3, <2>1 DEF AccessTypeOK
  <2>3. FilesProved'
    BY <1>1, <1>3 DEF FilesProved, Opens, Passwords
  <2>4. HardenCanUndo' /\ EnforceCanUndo'
    BY <1>1, <1>3, <2>1 DEF HardenCanUndo, EnforceCanUndo, Undecided, Opens, Passwords
  <2>5. UndoneIsAsBefore'
    BY <2>1 DEF UndoneIsAsBefore, Doing
  <2> QED BY <2>2, <2>3, <2>4, <2>5
<1> QED BY <1>2, <1>3 DEF Prove

LEMMA UndoHardenKeeps == ASSUME AccessInv, UndoHarden PROVE AccessInv'
<1> USE DEF AccessInv
<1>1. /\ UNCHANGED <<login, keyed, sound, fw, fwBackup>>
      /\ Undecided /\ task.of = "ssh" /\ task \in Tasks
  BY DEF UndoHarden, settings, wall, Doing, Undecided, AccessTypeOK
<1>2. /\ unproved /\ sound /\ fw = task.before.fw
      /\ task.before \in [ssh : Copies, fw : Walls, unproved : BOOLEAN]
  BY <1>1 DEF HardenCanUndo, Tasks
<1>3. Restored =>
        /\ disk' \in Copies
        /\ disk'.over = task.before.ssh.over
        /\ task.before.ssh.cloud # None => disk'.cloud = task.before.ssh.cloud
        /\ ~ task.before.unproved => keyed \/ disk' = task.before.ssh
        /\ backup' = [over |-> Gone, cloud |-> Gone]
  BY <1>1, <1>2 DEF Restored, HardenCanUndo, AccessTypeOK, Copies, Overs, Clouds, Gone, None
<1>4. CASE Restored /\ sound /\ loaded' = disk' /\ unproved' = task.before.unproved /\ Ends("undone")
  <2>1. /\ task' \in Tasks /\ task'.at = "undone"
        /\ task'.of = "ssh" /\ task'.before = task.before
    BY <1>1, <1>4, WhatBecame DEF Work
  <2>2. AccessTypeOK'
    BY <1>1, <1>2, <1>3, <1>4, <2>1 DEF AccessTypeOK
  <2>3. FilesProved'
    <3> SUFFICES ASSUME ~ task.before.unproved PROVE FilesProved'
      BY <1>4 DEF FilesProved
    <3>1. loaded' # Down
      BY <1>3, <1>4 DEF Copies, Overs, Down, None
    <3>2. keyed \/ Opens(task.before.ssh)
      BY <1>1 DEF HardenCanUndo
    <3>3. Opens(disk)'
      BY <1>1, <1>3, <1>4, <3>2 DEF Opens, Passwords
    <3>4. Opens(loaded)'
      BY <1>4, <3>3 DEF Opens, Passwords
    <3>5. keyed' \/ (backup.cloud = Gone /\ disk.over # "new")'
      BY <1>1, <1>3, <1>4 DEF HardenCanUndo
    <3> QED BY <1>1, <1>2, <3>1, <3>3, <3>4, <3>5 DEF FilesProved
  <2>4. HardenCanUndo' /\ EnforceCanUndo'
    BY <2>1 DEF HardenCanUndo, EnforceCanUndo, Undecided
  <2>5. UndoneIsAsBefore'
    BY <1>1, <1>2, <1>3, <1>4, <2>1 DEF UndoneIsAsBefore
  <2> QED BY <2>2, <2>3, <2>4, <2>5
<1>5. CASE /\ Ends("stuck") /\ UNCHANGED <<loaded, unproved>>
           /\ Restored \/ UNCHANGED <<disk, backup>>
  <2>1. task' \in Tasks /\ task'.at = "stuck"
    BY <1>1, <1>5, WhatBecame DEF Work
  <2>2. AccessTypeOK'
    BY <1>1, <1>2, <1>3, <1>5, <2>1 DEF AccessTypeOK
  <2>3. FilesProved'
    BY <1>2, <1>5 DEF FilesProved
  <2>4. HardenCanUndo' /\ EnforceCanUndo' /\ UndoneIsAsBefore'
    BY <2>1 DEF HardenCanUndo, EnforceCanUndo, UndoneIsAsBefore, Undecided, Doing
  <2> QED BY <2>2, <2>3, <2>4
<1> QED BY <1>4, <1>5 DEF UndoHarden, sshd

LEMMA UndoEnforceKeeps == ASSUME AccessInv, UndoEnforce PROVE AccessInv'
<1> USE DEF AccessInv
<1>1. /\ UNCHANGED <<login, keyed, sound, disk, backup, loaded, unproved>>
      /\ Undecided /\ task.of = "fw" /\ task \in Tasks
  BY DEF UndoEnforce, settings, sshd, Doing, Undecided, AccessTypeOK
<1>2. FilesProved'
  BY <1>1 DEF FilesProved, Opens, Passwords
<1>3. task.before.fw \in Walls /\ disk = task.before.ssh
  BY <1>1 DEF Tasks, EnforceCanUndo
<1>4. CASE WallRestored /\ Ends("undone")
  <2>1. /\ task' \in Tasks /\ task'.at = "undone"
        /\ task'.of = "fw" /\ task'.before = task.before
    BY <1>1, <1>4, WhatBecame DEF Work
  <2>2. fw' = task.before.fw
    BY <1>1, <1>3, <1>4 DEF WallRestored, EnforceCanUndo, Walls, Laid, Gone, None
  <2>3. fwBackup' \in [rules : Laid \cup {Gone}, jail : Laid \cup {Gone}]
    BY <1>4 DEF WallRestored, AccessTypeOK
  <2>4. AccessTypeOK'
    BY <1>1, <1>3, <2>1, <2>2, <2>3 DEF AccessTypeOK
  <2>5. HardenCanUndo' /\ EnforceCanUndo'
    BY <2>1 DEF HardenCanUndo, EnforceCanUndo, Undecided
  <2>6. UndoneIsAsBefore'
    BY <1>1, <1>3, <2>1, <2>2 DEF UndoneIsAsBefore
  <2> QED BY <1>2, <2>4, <2>5, <2>6
<1>5. CASE UNCHANGED wall /\ Ends("stuck")
  <2>1. task' \in Tasks /\ task'.at = "stuck"
    BY <1>1, <1>5, WhatBecame DEF Work
  <2>2. AccessTypeOK'
    BY <1>1, <1>5, <2>1 DEF AccessTypeOK, wall
  <2>3. HardenCanUndo' /\ EnforceCanUndo' /\ UndoneIsAsBefore'
    BY <2>1 DEF HardenCanUndo, EnforceCanUndo, UndoneIsAsBefore, Undecided, Doing
  <2> QED BY <1>2, <2>2, <2>3
<1> QED BY <1>4, <1>5 DEF UndoEnforce

LEMMA AbandonKeeps == ASSUME AccessInv, Abandon PROVE AccessInv'
<1> USE DEF AccessInv
<1>1. /\ UNCHANGED <<login, keyed, sound, disk, backup, loaded, unproved, fw, fwBackup>>
      /\ Undecided
  BY DEF Abandon, settings, sshd, wall, Undecided
<1>2. task' \in Tasks /\ task'.at = "err"
  BY <1>1, WhatBecame DEF Abandon, Work
<1>3. AccessTypeOK' /\ FilesProved'
  BY <1>1, <1>2 DEF AccessTypeOK, FilesProved, Opens, Passwords
<1>4. HardenCanUndo' /\ EnforceCanUndo' /\ UndoneIsAsBefore'
  BY <1>2 DEF HardenCanUndo, EnforceCanUndo, UndoneIsAsBefore, Undecided, Doing
<1> QED BY <1>3, <1>4

LEMMA EditKeeps == ASSUME AccessInv, Edit PROVE AccessInv'
<1> USE DEF AccessInv
<1>1. UNCHANGED <<login, backup, loaded, fw, fwBackup>> /\ task' = [at |-> "idle"]
  BY DEF Edit, wall
<1>2. CASE disk' = [disk EXCEPT !.cloud = None] /\ UNCHANGED <<keyed, sound, unproved>>
  <2>1. disk' \in Copies /\ disk'.cloud = None /\ disk'.over = disk.over
    BY <1>2 DEF AccessTypeOK, Copies, Clouds
  <2>2. AccessTypeOK'
    BY <1>1, <1>2, <2>1 DEF AccessTypeOK
  <2>3. FilesProved'
    <3> SUFFICES ASSUME ~ unproved PROVE FilesProved'
      BY <1>2 DEF FilesProved
    <3>1. Opens(disk)'
      BY <1>1, <1>2, <2>1 DEF FilesProved, Opens, Passwords
    <3>2. Opens(loaded)'
      BY <1>1, <1>2 DEF FilesProved, Opens, Passwords
    <3> QED BY <1>1, <1>2, <2>1, <3>1, <3>2 DEF FilesProved
  <2> QED BY <1>1, <2>2, <2>3, NothingToUndo
<1>3. CASE keyed' = ~ keyed /\ unproved' = TRUE /\ UNCHANGED <<disk, sound>>
  <2>1. AccessTypeOK' /\ FilesProved'
    BY <1>1, <1>3 DEF AccessTypeOK, FilesProved
  <2> QED BY <1>1, <2>1, NothingToUndo
<1>4. CASE sound' = ~ sound /\ unproved' = TRUE /\ UNCHANGED <<disk, keyed>>
  <2>1. AccessTypeOK' /\ FilesProved'
    BY <1>1, <1>4 DEF AccessTypeOK, FilesProved
  <2> QED BY <1>1, <2>1, NothingToUndo
<1> QED BY <1>2, <1>3, <1>4 DEF Edit

LEMMA RestartKeeps == ASSUME AccessInv, Restart PROVE AccessInv'
<1> USE DEF AccessInv
<1>1. UNCHANGED <<login, keyed, sound, disk, backup, unproved, fw, fwBackup>>
  BY DEF Restart, settings, wall
<1>2. loaded' = IF sound THEN disk ELSE Down
  BY DEF Restart
<1>3. AccessTypeOK'
  BY <1>1, <1>2 DEF AccessTypeOK, Restart
<1>4. FilesProved'
  <2>1. disk # Down
    BY DEF AccessTypeOK, Copies, Overs, Down, None
  <2> QED BY <1>1, <1>2, <2>1 DEF FilesProved, Opens, Passwords
<1>5. CASE Between
  <2>1. task' = [at |-> "idle"]
    BY <1>5 DEF Restart
  <2> QED BY <1>3, <1>4, <2>1, NothingToUndo
<1>6. CASE ~ Between
  <2>1. task' = task
    BY <1>6 DEF Restart
  <2>2. HardenCanUndo' /\ EnforceCanUndo'
    BY <1>1, <2>1 DEF HardenCanUndo, EnforceCanUndo, Undecided, Opens, Passwords
  <2>3. UndoneIsAsBefore'
    BY <1>6, <2>1 DEF UndoneIsAsBefore, Between, Ended, Doing
  <2> QED BY <1>3, <1>4, <2>2, <2>3
<1> QED BY <1>5, <1>6

LEMMA AccessStepInv == AccessInv /\ [AccessNext \/ Restart]_accessVars => AccessInv'
<1> SUFFICES ASSUME AccessInv, [AccessNext \/ Restart]_accessVars PROVE AccessInv'
  OBVIOUS
<1>1. CASE UNCHANGED accessVars
  BY <1>1 DEF accessVars, AccessInv, AccessTypeOK, FilesProved, HardenCanUndo, EnforceCanUndo,
     UndoneIsAsBefore, Undecided, Doing, Opens, Passwords
<1> QED BY <1>1, HardenKeeps, EnforceKeeps, ProveKeeps, UndoHardenKeeps,
     UndoEnforceKeeps, AbandonKeeps, EditKeeps, RestartKeeps DEF AccessNext

LEMMA AccessSpecInv == AccessSpec => []AccessInv
<1> QED BY AccessInitInv, AccessStepInv, PTL DEF AccessSpec

(* Whatever commands, edits and restarts: without a change that no          *)
(* connection has proved, the key or the password of the settings opens     *)
(* the host whenever no command is at work.                                 *)
THEOREM AccessNotShutOut == AccessSpec => []NotShutOut
<1>1. AccessInv => NotShutOut
  BY WaysIn DEF AccessInv, AccessTypeOK, FilesProved, NotShutOut
<1> QED BY <1>1, AccessSpecInv, PTL

(* What a command that reports an undo leaves is what it found, however     *)
(* many attempts, failures and restarts there were before.                  *)
THEOREM AccessUndoneIsAsBefore == AccessSpec => []UndoneIsAsBefore
<1>1. AccessInv => UndoneIsAsBefore
  BY DEF AccessInv
<1> QED BY <1>1, AccessSpecInv, PTL

-----------------------------------------------------------------------------
(* Upgrades, restarts, and the wait for them.                               *)
Scripts == [at : {"idle", "lock", "take", "upgrade", "end"}, restarts : BOOLEAN]
Managers ==
  [at : AtWork \cup {"idle", "err", "done", "wait", "plane", "completed", "ok"},
   restarts : BOOLEAN, waits : BOOLEAN, asked : BOOLEAN, away : BOOLEAN, boot : Nat]

WindowTypeOK ==
  /\ setup \in [policy : Policies, timer : BOOLEAN, packaged : BOOLEAN]
  /\ boot \in Nat
  /\ work \in [kind : {"none", "seen", "unseen"}, late : BOOLEAN]
  /\ restart \in SUBSET {"script", "asked", "manager"}
  /\ script = Rest \/ script \in Scripts
  /\ manager = Rest \/ manager \in Managers

(* A wait goes on from the boot_id that was read before the restart was     *)
(* said, and only a restart ends it.                                        *)
WaitsForRestart ==
  /\ manager.at = "say" => manager.boot = boot
  /\ manager.at = "wait" => manager.away \/ manager.boot = boot
  /\ manager.at \in {"plane", "completed"} => manager.away
  /\ manager.at = "done" => ~ (manager.restarts /\ manager.waits)
  /\ manager.at = "ok" /\ manager.restarts /\ manager.waits => manager.away

(* While work goes on that was seen from its start, all that is under way   *)
(* to a restart was asked for.                                              *)
SeenWorkBlocks ==
  work.kind = "seen" /\ ~ work.late =>
    /\ restart \subseteq {"asked"}
    /\ script.at \notin AtWork
    /\ manager.at \in AtWork => manager.asked

WindowInv == WindowTypeOK /\ WaitsForRestart /\ SeenWorkBlocks

LEMMA WindowInitInv == WindowInit => WindowInv
<1> SUFFICES ASSUME WindowInit PROVE WindowInv
  OBVIOUS
<1>1. setup \in [policy : Policies, timer : BOOLEAN, packaged : BOOLEAN]
  BY DEF WindowInit
<1>2. /\ boot = 1 /\ restart = {} /\ script = Rest /\ manager = Rest
      /\ work = NoWork /\ work.kind = "none"
      /\ work \in [kind : {"none", "seen", "unseen"}, late : BOOLEAN]
  BY DEF WindowInit, NoWork
<1>3. WindowTypeOK
  BY <1>1, <1>2 DEF WindowTypeOK
<1>4. WaitsForRestart /\ SeenWorkBlocks
  BY <1>2 DEF WaitsForRestart, SeenWorkBlocks, Rest
<1> QED BY <1>3, <1>4 DEF WindowInv

(* What runs there, the timer, and upgrades that nobody watches.            *)
LEMMA WorkKeeps ==
  ASSUME WindowInv, WorkBegins \/ WorkEnds \/ Rise \/ Schedule \/ Unschedule \/ LeftStep
  PROVE  WindowInv'
<1> USE DEF WindowInv, counts, host
<1>1. /\ UNCHANGED <<boot, restart, script, manager>>
      /\ setup' \in [policy : Policies, timer : BOOLEAN, packaged : BOOLEAN]
  BY DEF WorkBegins, WorkEnds, Rise, Schedule, Unschedule, LeftStep, WindowTypeOK
<1>2. work' \in [kind : {"none", "seen", "unseen"}, late : BOOLEAN]
  <2>1. CASE WorkBegins
    <3>1. Busy \in BOOLEAN
      BY DEF Busy
    <3> QED BY <2>1, <3>1 DEF WorkBegins
  <2>2. CASE WorkEnds
    BY <2>2 DEF WorkEnds, NoWork
  <2>3. CASE Rise \/ Schedule \/ Unschedule \/ LeftStep
    BY <2>3 DEF Rise, Schedule, Unschedule, LeftStep, WindowTypeOK
  <2> QED BY <2>1, <2>2, <2>3
<1>3. WindowTypeOK' /\ WaitsForRestart'
  BY <1>1, <1>2 DEF WindowTypeOK, WaitsForRestart
<1>4. SeenWorkBlocks'
  <2>1. CASE WorkBegins
    <3>1. work'.late = Busy
      BY <2>1 DEF WorkBegins
    <3>2. ~ work'.late => restart = {} /\ script.at \notin AtWork /\ manager.at \notin AtWork
      BY <3>1 DEF Busy
    <3> QED BY <1>1, <3>2 DEF SeenWorkBlocks
  <2>2. CASE WorkEnds
    BY <1>1, <2>2 DEF WorkEnds, NoWork, SeenWorkBlocks
  <2>3. CASE UNCHANGED work
    BY <1>1, <2>3 DEF SeenWorkBlocks
  <2> QED BY <2>1, <2>2, <2>3 DEF Rise, Schedule, Unschedule, LeftStep
<1> QED BY <1>3, <1>4

LEMMA BeginKeeps == ASSUME WindowInv, Fire \/ Maintain \/ Evaluate PROVE WindowInv'
<1> USE DEF WindowInv, host, counts
<1>1. UNCHANGED <<setup, boot, restart, work>>
  BY DEF Fire, Maintain, Evaluate
<1>2. \A who, policy : ShouldRestart(who, policy) \subseteq BOOLEAN
  BY DEF ShouldRestart, News, Drift
<1>3. CASE Fire
  <2>1. script' \in Scripts /\ manager' = manager /\ work.kind # "seen"
    BY <1>2, <1>3 DEF Fire, Scripts, Quiet
  <2> QED BY <1>1, <2>1 DEF WindowTypeOK, WaitsForRestart, SeenWorkBlocks
<1>4. CASE Maintain
  <2>1. /\ manager' \in Managers /\ manager'.at = "lock" /\ manager'.asked
        /\ script' = script
    BY <1>4 DEF Maintain, Begun, Managers, AtWork
  <2> QED BY <1>1, <2>1 DEF WindowTypeOK, WaitsForRestart, SeenWorkBlocks
<1>5. CASE Evaluate
  <2>1. /\ manager' \in Managers /\ manager'.at = "lock"
        /\ script' = script /\ work.kind # "seen"
    BY <1>2, <1>5 DEF Evaluate, Applied, Begun, Managers, AtWork, Quiet
  <2> QED BY <1>1, <2>1 DEF WindowTypeOK, WaitsForRestart, SeenWorkBlocks
<1> QED BY <1>3, <1>4, <1>5

(* Both upgrade in the same way, but the manager may lose sight of it.      *)
LEMMA UpgradingKeeps ==
  ASSUME WindowInv, NEW who \in {"script", "manager"},
         Upgrading(who) \/ (who = "manager" /\ (Lose \/ Misled))
  PROVE  WindowInv'
<1> USE DEF WindowInv, host, counts
<1>1. UNCHANGED <<setup, boot, restart, work>>
  BY DEF Upgrading, Unlocked, LockTimeout, Take, TakeFails, Upgrade, UpgradeFails, Stops, Lose, Misled
<1>2. PICK from \in {"lock", "take", "upgrade"}, to \in {"idle", "err", "take", "upgrade", "end"} :
        /\ At(who, from) /\ Goes(who, to)
        /\ who = "script" => to # "err"
        /\ who = "manager" => to # "idle"
  <2>1. CASE Upgrading(who)
    BY <2>1 DEF Upgrading, Unlocked, LockTimeout, Take, TakeFails, Upgrade, UpgradeFails, Stops
  <2>2. CASE who = "manager" /\ (Lose \/ Misled)
    BY <2>2 DEF Lose, Misled, OnHost, At
  <2> QED BY <2>1, <2>2
<1>3. CASE who = "script"
  <2>1. script \in Scripts /\ script.at \in AtWork
    BY <1>2, <1>3 DEF WindowTypeOK, At, Rest, AtWork
  <2>2. script' \in Scripts /\ manager' = manager
    BY <1>2, <1>3, <2>1 DEF Goes, Scripts
  <2> QED BY <1>1, <2>1, <2>2 DEF WindowTypeOK, WaitsForRestart, SeenWorkBlocks
<1>4. CASE who = "manager"
  <2>1. manager \in Managers /\ manager.at \in AtWork
    BY <1>2, <1>4 DEF WindowTypeOK, At, Rest, AtWork
  <2>2. /\ manager' \in Managers /\ script' = script
        /\ manager'.at \in {"take", "upgrade", "end", "err"} /\ manager'.asked = manager.asked
    BY <1>2, <1>4, <2>1 DEF Goes, Managers, AtWork
  <2> QED BY <1>1, <2>1, <2>2 DEF WindowTypeOK, WaitsForRestart, SeenWorkBlocks
<1> QED BY <1>3, <1>4

LEMMA EndKeeps == ASSUME WindowInv, ScriptEnd \/ ManagerEnd \/ Say PROVE WindowInv'
<1> USE DEF WindowInv, host, counts
<1>1. UNCHANGED <<setup, boot, work>>
  BY DEF ScriptEnd, ManagerEnd, Say
<1>2. CASE ScriptEnd
  <2>1. script.at \in AtWork /\ script' = Rest /\ manager' = manager
        /\ restart' \in SUBSET {"script", "asked", "manager"}
    BY <1>2 DEF ScriptEnd, AtWork, WindowTypeOK
  <2> QED BY <1>1, <2>1 DEF WindowTypeOK, WaitsForRestart, SeenWorkBlocks, Rest
<1>3. CASE ManagerEnd
  <2>1. manager \in Managers /\ manager.at \in AtWork
    BY <1>3 DEF ManagerEnd, WindowTypeOK, Rest, AtWork
  <2>2. /\ manager' \in Managers /\ script' = script /\ restart' = restart
        /\ manager'.at \in {"say", "done"} /\ manager'.asked = manager.asked
        /\ manager'.at = "say" => manager'.boot = boot
        /\ manager'.at = "done" => ~ manager'.restarts
    BY <1>3, <2>1 DEF ManagerEnd, Managers, AtWork, WindowTypeOK
  <2> QED BY <1>1, <2>1, <2>2 DEF WindowTypeOK, WaitsForRestart, SeenWorkBlocks
<1>4. CASE Say
  <2>1. manager \in Managers /\ manager.at \in AtWork /\ manager.boot = boot
    BY <1>4 DEF Say, WindowTypeOK, WaitsForRestart, Rest, AtWork
  <2>2. /\ manager' \in Managers /\ script' = script
        /\ manager'.at \in {"wait", "done"} /\ manager'.boot = boot
        /\ manager'.at = "done" => ~ manager'.waits
        /\ restart' = restart \cup {IF manager.asked THEN "asked" ELSE "manager"}
    BY <1>4, <2>1 DEF Say, Managers, AtWork
  <2>3. WindowTypeOK'
    BY <1>1, <2>2 DEF WindowTypeOK
  <2>4. SeenWorkBlocks'
    BY <1>1, <2>1, <2>2 DEF SeenWorkBlocks, AtWork
  <2> QED BY <1>1, <2>2, <2>3, <2>4 DEF WaitsForRestart
<1> QED BY <1>2, <1>3, <1>4

LEMMA WaitKeeps ==
  ASSUME WindowInv, Back \/ Plane \/ WaitTimeout \/ Checks \/ Forget
  PROVE  WindowInv'
<1> USE DEF WindowInv, host, counts
<1>1. UNCHANGED <<setup, boot, restart, work, script>>
  BY DEF Back, Plane, WaitTimeout, Checks, Forget
<1>2. CASE Forget
  BY <1>1, <1>2 DEF Forget, Rest, WindowTypeOK, WaitsForRestart, SeenWorkBlocks, AtWork
<1>3. CASE Back \/ Plane \/ WaitTimeout
  <2>1. /\ manager \in Managers /\ manager.at \in {"wait", "plane"}
        /\ Back \/ Plane => manager.away
    BY <1>3 DEF Back, Plane, WaitTimeout, Restarted, WindowTypeOK, WaitsForRestart, Rest
  <2>2. /\ manager' \in Managers /\ manager'.away = manager.away
        /\ \/ manager'.at = "err"
           \/ manager'.at \in {"plane", "completed"} /\ manager.away
    BY <1>3, <2>1 DEF Back, Plane, WaitTimeout, Managers
  <2> QED BY <1>1, <2>2 DEF WindowTypeOK, WaitsForRestart, SeenWorkBlocks, AtWork
<1>4. CASE Checks
  <2>1. manager \in Managers /\ manager.at \in {"done", "completed"}
    BY <1>4 DEF Checks, WindowTypeOK, Rest
  <2>2. /\ manager' \in Managers /\ manager'.at \in {"ok", "err"}
        /\ manager'.away = manager.away /\ manager'.restarts = manager.restarts
        /\ manager'.waits = manager.waits
    BY <1>4, <2>1 DEF Checks, Managers
  <2> QED BY <1>1, <2>1, <2>2 DEF WindowTypeOK, WaitsForRestart, SeenWorkBlocks, AtWork
<1> QED BY <1>2, <1>3, <1>4

LEMMA RebootKeeps == ASSUME WindowInv, Reboot PROVE WindowInv'
<1> USE DEF WindowInv, counts
<1>1. setup' = setup /\ restart' = {} /\ work' = NoWork /\ script' = Rest
  BY DEF Reboot
<1>2. boot' \in Nat
  <2>1. Boots \in Nat \ {0}
    BY WindowAssumption
  <2> QED BY <2>1 DEF Reboot, WindowTypeOK
<1>3. /\ manager' = Rest \/ manager' \in Managers
      /\ manager'.at \notin {"say", "plane"}
      /\ manager'.at = "wait" => manager'.away
      /\ manager'.at \in {"completed", "done", "ok"} => manager' = manager
  <2>1. CASE manager.at \in AtWork \cup {"plane"}
    <3>1. manager' = [manager EXCEPT !.at = "err"] /\ manager \in Managers
      BY <2>1 DEF Reboot, WindowTypeOK, Rest, AtWork
    <3> QED BY <3>1 DEF Managers
  <2>2. CASE manager.at = "wait"
    <3>1. manager' = [manager EXCEPT !.away = TRUE] /\ manager \in Managers
      BY <2>2 DEF Reboot, WindowTypeOK, Rest, AtWork
    <3> QED BY <2>2, <3>1 DEF Managers
  <2>3. CASE manager.at \notin AtWork \cup {"plane", "wait"}
    <3>1. manager' = manager
      BY <2>3 DEF Reboot
    <3> QED BY <2>3, <3>1 DEF WindowTypeOK, AtWork
  <2> QED BY <2>1, <2>2, <2>3
<1>4. WindowTypeOK' /\ SeenWorkBlocks'
  BY <1>1, <1>2, <1>3 DEF WindowTypeOK, SeenWorkBlocks, NoWork
<1>5. WaitsForRestart'
  BY <1>3 DEF WaitsForRestart
<1> QED BY <1>4, <1>5

LEMMA WindowStepInv == WindowInv /\ [WindowNext]_windowVars => WindowInv'
<1> SUFFICES ASSUME WindowInv, [WindowNext]_windowVars PROVE WindowInv'
  OBVIOUS
<1>1. CASE UNCHANGED windowVars
  BY <1>1 DEF windowVars, WindowInv, WindowTypeOK, WaitsForRestart, SeenWorkBlocks
<1> QED BY <1>1, WorkKeeps, BeginKeeps, UpgradingKeeps, EndKeeps, WaitKeeps, RebootKeeps
        DEF WindowNext, ScriptStep, ManagerStep

LEMMA WindowSpecInv == WindowSpec => []WindowInv
<1> QED BY WindowInitInv, WindowStepInv, PTL DEF WindowSpec

(* Whatever commands and restarts cross: "Reinicio completado" is said only  *)
(* of a host that restarted while the command waited for it, and only then  *)
(* does a command that was to restart it and wait succeed.                  *)
THEOREM WindowCompletedMeansRestarted == WindowSpec => []CompletedMeansRestarted
<1>1. WindowInv => CompletedMeansRestarted
  BY DEF WindowInv, WaitsForRestart, CompletedMeansRestarted
<1> QED BY <1>1, WindowSpecInv, PTL

(* A restart that nobody asked for spares the work that the evaluation could *)
(* have seen, for any number of commands and works.                         *)
THEOREM WindowSparesSeenWork == WindowSpec => WindowSparesWork
<1>1. ASSUME WindowInv, [WindowNext]_windowVars
      PROVE  [boot' # boot /\ "asked" \notin restart /\ work.kind = "seen" => work.late]_windowVars
  <2> SUFFICES ASSUME WindowNext, boot' # boot, "asked" \notin restart, work.kind = "seen", ~ work.late
               PROVE  FALSE
    BY <1>1 DEF WindowInv, WindowTypeOK
  <2>1. Reboot
    BY DEF WindowNext, WorkBegins, WorkEnds, Fire, Schedule, Unschedule, Maintain, Evaluate,
       ScriptStep, ManagerStep, Upgrading, Unlocked, LockTimeout, Take, TakeFails, Upgrade,
       UpgradeFails, Stops, Lose, Misled, LeftStep, ScriptEnd, ManagerEnd, Say, Back, Plane, WaitTimeout, Checks, Forget, Rise,
       host
  <2> QED BY <1>1, <2>1 DEF Reboot, WindowInv, SeenWorkBlocks
<1> QED BY <1>1, WindowSpecInv, PTL DEF WindowSpec, WindowSparesWork

-----------------------------------------------------------------------------
(* The nightly backups.                                                     *)

(* What may be kept of a directory, and its least.                          *)
KeepsOf(s) == {DefaultKeep} \cup (IF s \in Keyed THEN Overrides ELSE {})
Keeps(d) == KeepsOf(d[1]) \cup (IF d[2] = "weekly" THEN {HeavyKeep} ELSE {})
Confs == [Keyed -> [Tier -> {DefaultKeep} \cup Overrides]]

(* Archives are told apart by when they were written, also those that are   *)
(* still to be moved, and within a directory by their names.                *)
ArchiveTypeOK ==
  /\ dumps \in Nat
  /\ DOMAIN kept = Dir /\ DOMAIN run = Run /\ newest \in [Dir -> Nat]
  /\ conf \in Confs
  /\ \A d \in Dir : /\ IsFiniteSet(kept[d])
                    /\ \A a \in kept[d] : a.made \in Nat /\ a.made <= dumps

ToldApart ==
  \A d \in Dir : \A a, b \in kept[d] : a.made = b.made \/ a.minute = b.minute => a = b

MovedIsNew ==
  \A r \in Run : RunAt(r, "move") =>
    /\ run[r].file.made \in Nat /\ run[r].file.made <= dumps
    /\ \A d \in Dir : \A a \in kept[d] : a.made # run[r].file.made
    /\ \A q \in Run \ {r} : RunAt(q, "move") => run[q].file.made # run[r].file.made

(* What a run knows of what it is to keep.                                  *)
RunKnows ==
  \A r \in Run :
    /\ run[r].todo \subseteq Source /\ "at" \in DOMAIN run[r]
    /\ RunAt(r, "dump") => run[r].source \in Source /\ run[r].keep \in [Tier -> KeepsOf(run[r].source)]
    /\ run[r].at \in {"move", "count", "rotate"} => run[r].dir \in Dir
    /\ run[r].at \in {"move", "count"} => run[r].keep \in Keeps(run[r].dir)
    /\ RunAt(r, "rotate") => /\ run[r].extra \in Nat /\ run[r].seen \in Nat
                             /\ run[r].seen - run[r].extra \in Keeps(run[r].dir)

(* The newest whole archive that was ever there is, if any whole one is.   *)
NewestIsThere ==
  \A d \in Dir : LET W == Wholes(kept[d]) IN
    W # {} => newest[d] \in W /\ \A n \in W : n <= newest[d]

ArchiveInv == NewestIsThere /\ ArchiveTypeOK /\ ToldApart /\ MovedIsNew /\ RunKnows /\ WholeOneStays

(* The minimum of numbers is one of them, and the least.                    *)
LEMMA MinIsLeast ==
  ASSUME NEW S \in SUBSET Nat, S # {}
  PROVE  Min(S) \in S /\ \A n \in S : Min(S) <= n
<1>1. PICK m \in S : \A n \in S : ~ (<<n, m>> \in OpToRel(<, Nat))
  BY NatLessThanWellFounded, WFMin
<1>2. \A n \in S : m <= n
  <2> SUFFICES ASSUME NEW n \in S PROVE m <= n
    OBVIOUS
  <2>1. m \in Nat /\ n \in Nat
    OBVIOUS
  <2>2. <<n, m>> \notin OpToRel(<, Nat)
    BY <1>1
  <2>3. ~ (n < m)
    BY <2>1, <2>2 DEF OpToRel
  <2> QED BY <2>1, <2>3
<1> QED BY <1>1, <1>2 DEF Min

(* The maximum of numbers of which none is above top.                      *)
LEMMA MaxIsMost ==
  ASSUME NEW S \in SUBSET Nat, S # {}, NEW top \in Nat, \A n \in S : n <= top
  PROVE  Max(S) \in S /\ \A n \in S : n <= Max(S)
<1> DEFINE Under == {top - n : n \in S}
<1>1. Under \in SUBSET Nat /\ Under # {} /\ \A n \in S : top - n \in Under
  <2>1. \A n \in S : top - n \in Nat
    OBVIOUS
  <2> QED BY <2>1
<1>2. Min(Under) \in Under /\ \A t \in Under : Min(Under) <= t
  BY <1>1, MinIsLeast
<1>3. PICK m \in S : Min(Under) = top - m
  BY <1>2
<1> HIDE DEF Under
<1>4. \A n \in S : m >= n
  <2> TAKE n \in S
  <2>1. top - m <= top - n /\ m \in Nat /\ n \in Nat
    BY <1>1, <1>2, <1>3
  <2> QED BY <2>1
<1>5. Max(S) \in S /\ \A n \in S : Max(S) >= n
  BY <1>4 DEF Max
<1> QED BY <1>5

LEMMA KeepsLeast ==
  ASSUME NEW d
  PROVE  Least(d) \in Nat /\ \A n \in Keeps(d) : n \in Nat /\ Least(d) <= n
<1>1. Keeps(d) \in SUBSET Nat /\ Keeps(d) # {}
  BY KeepAssumption DEF Keeps, KeepsOf
<1> QED BY <1>1, MinIsLeast DEF Least, Keeps, KeepsOf

(* No more are among the n oldest than n, and what stays is newer.          *)
LEMMA OldestAreFew ==
  ASSUME NEW A, IsFiniteSet(A), NEW n \in Nat, NEW top \in Nat,
         \A a \in A : a.made \in Nat /\ a.made <= top,
         \A a, b \in A : a.made = b.made => a = b
  PROVE  /\ IsFiniteSet(A \ Oldest(A, n))
         /\ Cardinality(A \ Oldest(A, n)) >= Cardinality(A) - n
         /\ \A a \in Oldest(A, n), b \in A \ Oldest(A, n) : b.made > a.made
<1> DEFINE O == Oldest(A, n)
           Before(a) == {b \in A : b.made < a.made}
           Earlier(a) == Cardinality(Before(a))
<1>1. O \in SUBSET A /\ \A a \in A : a \in O <=> Earlier(a) < n
  BY DEF Oldest
<1>2. \A a \in A : Before(a) \in SUBSET A /\ \A b \in A : b \in Before(a) <=> b.made < a.made
  OBVIOUS
<1>3. ASSUME NEW a \in A PROVE IsFiniteSet(Before(a)) /\ Earlier(a) \in Nat
  BY FS_Subset, FS_CardinalityType
<1>4. ASSUME NEW S \in SUBSET A, NEW a \in A, S \subseteq Before(a)
      PROVE  Cardinality(S) <= Earlier(a)
  BY <1>3, <1>4, FS_Subset
<1> HIDE DEF O, Before, Earlier
<1>5. IsFiniteSet(O) /\ Cardinality(O) \in Nat
  BY <1>1, FS_Subset, FS_CardinalityType
<1>6. Cardinality(O) <= n
  <2>1. CASE O = {}
    BY <2>1, FS_EmptySet
  <2>2. CASE O # {}
    <3> DEFINE Ages == {top - a.made : a \in O}
    <3>1. \A a \in O : top - a.made \in Nat
      BY <1>1
    <3>2. Ages \in SUBSET Nat /\ Ages # {} /\ \A a \in O : top - a.made \in Ages
      BY <2>2, <3>1
    <3>3. Min(Ages) \in Ages /\ \A t \in Ages : Min(Ages) <= t
      BY <3>2, MinIsLeast
    <3>4. PICK m \in O : Min(Ages) = top - m.made
      BY <3>3
    <3> HIDE DEF Ages
    <3>5. \A a \in O : a.made <= m.made
      <4> TAKE a \in O
      <4>1. top - m.made <= top - a.made
        BY <3>2, <3>3, <3>4
      <4>2. a.made \in Nat /\ m.made \in Nat
        BY <1>1
      <4> QED BY <4>1, <4>2
    <3>6. O \ {m} \subseteq Before(m)
      <4> SUFFICES ASSUME NEW a \in O, a # m PROVE a \in Before(m)
        OBVIOUS
      <4>1. a.made # m.made /\ a.made <= m.made /\ a.made \in Nat /\ m.made \in Nat
        BY <1>1, <3>5
      <4> QED BY <1>1, <1>2, <4>1
    <3>7. Cardinality(O \ {m}) <= Earlier(m) /\ Earlier(m) < n /\ Earlier(m) \in Nat
      <4>1. m \in A /\ O \ {m} \in SUBSET A
        BY <1>1
      <4> QED BY <1>1, <1>3, <1>4, <3>6, <4>1
    <3>8. Cardinality(O \ {m}) = Cardinality(O) - 1
      BY <1>5, FS_RemoveElement
    <3> QED BY <1>5, <3>7, <3>8
  <2> QED BY <2>1, <2>2
<1>7. IsFiniteSet(A \ O) /\ Cardinality(A \ O) = Cardinality(A) - Cardinality(A \cap O)
  BY FS_Difference
<1>8. A \cap O = O /\ Cardinality(A) \in Nat
  BY <1>1, FS_CardinalityType
<1>9. \A a \in O, b \in A \ O : b.made > a.made
  <2> SUFFICES ASSUME NEW a \in O, NEW b \in A, b \notin O, ~ (b.made > a.made) PROVE FALSE
    OBVIOUS
  <2>1. a \in A /\ a.made \in Nat /\ b.made \in Nat /\ b.made <= a.made
    BY <1>1
  <2>2. Before(b) \subseteq Before(a)
    <3> SUFFICES ASSUME NEW c \in Before(b) PROVE c \in Before(a)
      OBVIOUS
    <3>1. c \in A /\ c.made < b.made /\ c.made \in Nat
      BY <1>2
    <3>2. c.made < a.made
      BY <2>1, <3>1
    <3> QED BY <1>2, <2>1, <3>1, <3>2
  <2>3. Cardinality(Before(b)) <= Earlier(a)
    BY <1>2, <1>4, <2>1, <2>2
  <2>4. Earlier(b) <= Earlier(a)
    BY <2>3 DEF Earlier
  <2> QED BY <1>1, <1>3, <2>1, <2>4
<1>10. Cardinality(A \ O) >= Cardinality(A) - n
  BY <1>5, <1>6, <1>7, <1>8
<1> QED BY <1>7, <1>9, <1>10 DEF O

LEMMA ArchiveInitInv == Init => ArchiveInv
<1> SUFFICES ASSUME Init PROVE ArchiveInv
  OBVIOUS
<1>1. ArchiveTypeOK /\ ToldApart
  BY FS_EmptySet DEF Init, ArchiveTypeOK, ToldApart, Confs, Default
<1>2. MovedIsNew /\ RunKnows
  BY DEF Init, Idle, RunAt, MovedIsNew, RunKnows
<1>3. NewestIsThere /\ WholeOneStays
  BY DEF Init, NewestIsThere, WholeOneStays, Wholes
<1> QED BY <1>1, <1>2, <1>3 DEF ArchiveInv

(* Steps that leave the archives alone, of a run that has nothing to move.  *)
LEMMA KeptAlone ==
  ASSUME ArchiveInv, NEW r \in Run, UNCHANGED <<dumps, kept, newest, waived>>,
         DOMAIN run' = Run, \A q \in Run \ {r} : run'[q] = run[q],
         run'[r].at # "move",
         conf' \in Confs, RunKnows'
  PROVE  ArchiveInv'
<1> USE DEF ArchiveInv
<1>1. ArchiveTypeOK' /\ ToldApart' /\ NewestIsThere' /\ WholeOneStays'
  BY DEF ArchiveTypeOK, ToldApart, NewestIsThere, WholeOneStays
<1>2. MovedIsNew'
  BY DEF MovedIsNew, RunAt
<1> QED BY <1>1, <1>2

LEMMA PlaceKeeps == ASSUME ArchiveInv, Install \/ Uninstall PROVE ArchiveInv'
<1> USE DEF ArchiveInv
<1>1. UNCHANGED <<dumps, kept, run, newest, waived>>
  BY DEF Install, Uninstall
<1>2. conf' \in Confs
  <2>1. [s \in Keyed |-> Default] \in Confs /\ conf \in Confs
    BY DEF Confs, Default, ArchiveTypeOK
  <2>2. \A asked \in [Keyed -> [Tier -> Overrides]] : asked \in Confs /\ Written(asked) \in Confs
    <3> TAKE asked \in [Keyed -> [Tier -> Overrides]]
    <3>1. asked \in Confs
      BY DEF Confs
    <3> QED BY <2>1, <3>1 DEF Written
  <2> QED BY <2>1, <2>2 DEF Install, Uninstall
<1>3. /\ ArchiveTypeOK' /\ ToldApart' /\ NewestIsThere' /\ WholeOneStays'
      /\ MovedIsNew' /\ RunKnows'
  BY <1>1, <1>2 DEF ArchiveTypeOK, ToldApart, NewestIsThere, WholeOneStays, MovedIsNew, RunKnows, RunAt
<1> QED BY <1>3

(* Beginning, ending, and what leaves no archive.                           *)
LEMMA TurnKeeps ==
  ASSUME ArchiveInv, NEW r \in Run,
         Start(r) \/ Finish(r) \/ Fail(r) \/ Kill(r) \/ BeginDump(r) \/ Count(r)
  PROVE  ArchiveInv'
<1> USE DEF ArchiveInv
<1>1. UNCHANGED <<dumps, kept, newest, waived, conf>>
  BY DEF Start, Finish, Fail, Kill, BeginDump, Count, place
<1>2. DOMAIN run = Run /\ conf \in Confs
  BY DEF ArchiveTypeOK
<1>3. \A q \in Run \ {r} : run'[q] = run[q]
  BY <1>2 DEF Start, Finish, Fail, Kill, BeginDump, Count
<1>4. DOMAIN run' = Run
  BY <1>2 DEF Start, Finish, Fail, Kill, BeginDump, Count
<1>5. run[r].todo \subseteq Source
  BY DEF RunKnows
<1>6. CASE \/ Start(r) \/ Finish(r) \/ Fail(r) \/ Kill(r)
           \/ (Count(r) /\ Extra(r) = 0)
  <2>1. run'[r].at \in {"next", "idle"} /\ run'[r].todo \subseteq Source /\ "at" \in DOMAIN run'[r]
    BY <1>2, <1>5, <1>6 DEF Start, Finish, Fail, Kill, Count, Found, Idle
  <2>2. RunKnows'
    BY <1>3, <2>1 DEF RunKnows, RunAt
  <2> QED BY <1>1, <1>2, <1>3, <1>4, <2>1, <2>2, KeptAlone
<1>7. CASE BeginDump(r)
  <2> PICK s \in run[r].todo :
        run' = [run EXCEPT ![r] = [at |-> "dump", todo |-> @.todo \ {s}, source |-> s,
                                   minute |-> Minute, keep |-> KeepOf(s)]]
    BY <1>7 DEF BeginDump
  <2>1. run'[r] = [at |-> "dump", todo |-> run[r].todo \ {s}, source |-> s,
                   minute |-> Minute, keep |-> KeepOf(s)]
    BY <1>2
  <2>2. KeepOf(s) \in [Tier -> KeepsOf(s)]
    BY <1>2 DEF KeepOf, KeepsOf, Confs, Default
  <2>3. RunKnows'
    BY <1>3, <1>5, <2>1, <2>2 DEF RunKnows, RunAt
  <2> QED BY <1>1, <1>2, <1>3, <1>4, <2>1, <2>3, KeptAlone
<1>8. CASE Count(r) /\ Extra(r) # 0
  <2> DEFINE d == run[r].dir
             k == run[r].keep
             c == Cardinality(kept[d])
  <2>1. run'[r] = [at |-> "rotate", todo |-> run[r].todo, dir |-> d, extra |-> Extra(r), seen |-> c]
    BY <1>2, <1>8 DEF Count
  <2>2. d \in Dir /\ k \in Keeps(d) /\ k \in Nat
    <3>1. RunAt(r, "count")
      BY <1>8 DEF Count
    <3>2. d \in Dir /\ k \in Keeps(d)
      BY <3>1 DEF RunKnows, RunAt
    <3> QED BY <3>2, KeepsLeast
  <2>3. c \in Nat
    BY <2>2, FS_CardinalityType DEF ArchiveTypeOK
  <2>4. Extra(r) = c - k /\ c - k \in Nat
    <3>1. Max({0, c - k}) \in {0, c - k} /\ \A n \in {0, c - k} : Max({0, c - k}) >= n
      <4>1. \E x \in {0, c - k} : \A y \in {0, c - k} : x >= y
        <5>1. CASE c >= k
          <6>1. \A y \in {0, c - k} : c - k >= y
            BY <2>2, <2>3, <5>1
          <6> QED BY <6>1
        <5>2. CASE ~ (c >= k)
          <6>1. \A y \in {0, c - k} : 0 >= y
            BY <2>2, <2>3, <5>2
          <6> QED BY <6>1
        <5> QED BY <5>1, <5>2
      <4> QED BY <4>1 DEF Max
    <3>2. Extra(r) = Max({0, c - k})
      BY DEF Extra
    <3> QED BY <1>8, <2>2, <2>3, <3>1, <3>2
  <2>5. RunKnows'
    <3>1. c - (c - k) = k
      BY <2>2, <2>3
    <3> QED BY <1>3, <1>5, <2>1, <2>2, <2>3, <2>4, <3>1 DEF RunKnows, RunAt
  <2> QED BY <1>1, <1>2, <1>3, <1>4, <2>1, <2>5, KeptAlone
<1> QED BY <1>6, <1>7, <1>8

LEMMA DumpKeeps == ASSUME ArchiveInv, NEW r \in Run, Dump(r) PROVE ArchiveInv'
<1> USE DEF ArchiveInv
<1>1. PICK c \in Resolved(r), w \in Whole(r) :
        run' = [run EXCEPT ![r] =
          [at |-> "move", todo |-> @.todo, dir |-> <<@.source, c.tier>>, keep |-> c.keep,
           file |-> [minute |-> @.minute, made |-> dumps + 1, whole |-> w]]]
  BY DEF Dump
<1>2. /\ UNCHANGED <<kept, conf, newest, waived>>
      /\ dumps' = dumps + 1 /\ dumps \in Nat /\ DOMAIN run = Run
  BY DEF Dump, place, ArchiveTypeOK
<1>3. /\ run'[r] = [at |-> "move", todo |-> run[r].todo, dir |-> <<run[r].source, c.tier>>,
                    keep |-> c.keep,
                    file |-> [minute |-> run[r].minute, made |-> dumps + 1, whole |-> w]]
      /\ \A q \in Run \ {r} : run'[q] = run[q]
      /\ DOMAIN run' = Run
  BY <1>1, <1>2
<1>4. /\ run[r].source \in Source /\ run[r].todo \subseteq Source
      /\ run[r].keep \in [Tier -> KeepsOf(run[r].source)]
  BY DEF Dump, RunKnows
<1>5. c.tier \in Tier /\ c.keep \in Keeps(<<run[r].source, c.tier>>)
  BY <1>4 DEF Resolved, Tier, Keeps
<1>6. \A d \in Dir : \A a \in kept[d] : a.made \in Nat /\ a.made <= dumps + 1 /\ a.made # dumps + 1
  <2> SUFFICES ASSUME NEW d \in Dir, NEW a \in kept[d]
               PROVE  a.made \in Nat /\ a.made <= dumps + 1 /\ a.made # dumps + 1
    OBVIOUS
  <2>1. a.made \in Nat /\ a.made <= dumps
    BY DEF ArchiveTypeOK
  <2> QED BY <1>2, <2>1
<1>7. ArchiveTypeOK'
  BY <1>2, <1>3, <1>6 DEF ArchiveTypeOK
<1>8. ToldApart' /\ NewestIsThere' /\ WholeOneStays'
  BY <1>2 DEF ToldApart, NewestIsThere, WholeOneStays
<1>9. MovedIsNew'
  <2>1. dumps + 1 \in Nat /\ dumps + 1 <= dumps'
    BY <1>2
  <2>2. \A q \in Run \ {r} : RunAt(q, "move") =>
           run[q].file.made # dumps + 1 /\ run[q].file.made \in Nat /\ run[q].file.made <= dumps + 1
    BY <1>2 DEF MovedIsNew
  <2>3. run'[r].file.made = dumps + 1
    BY <1>3
  <2> QED BY <1>2, <1>3, <1>6, <2>1, <2>2, <2>3 DEF MovedIsNew, RunAt
<1>10. RunKnows'
  BY <1>3, <1>4, <1>5 DEF RunKnows, RunAt, Dir
<1> QED BY <1>7, <1>8, <1>9, <1>10

(* An archive, or a part of one, takes its place.                           *)
LEMMA PutKeeps ==
  ASSUME ArchiveInv, NEW r \in Run, NEW a, RunAt(r, "move"), Put(r, a),
         a.made = run[r].file.made, a.minute = run[r].file.minute,
         Moved(r),
         UNCHANGED <<dumps, place>>
  PROVE  ArchiveInv'
<1> USE DEF ArchiveInv
<1> DEFINE d == run[r].dir
<1>1. /\ d \in Dir /\ DOMAIN kept = Dir /\ DOMAIN run = Run /\ dumps \in Nat
      /\ run[r].keep \in Keeps(d) /\ run[r].todo \subseteq Source
  BY DEF RunKnows, ArchiveTypeOK, RunAt
<1>2. /\ kept'[d] = (kept[d] \ SameName(r)) \cup {a}
      /\ \A e \in Dir \ {d} : kept'[e] = kept[e]
      /\ DOMAIN kept' = Dir
  BY <1>1 DEF Put
<1>3. /\ run'[r] = [at |-> "count", todo |-> run[r].todo, dir |-> run[r].dir, keep |-> run[r].keep]
      /\ "at" \in DOMAIN run'[r] /\ run'[r].at = "count"
      /\ \A q \in Run \ {r} : run'[q] = run[q]
      /\ DOMAIN run' = Run
  BY <1>1 DEF RunKnows, Moved
<1>4. /\ a.made \in Nat /\ a.made <= dumps
      /\ \A e \in Dir : \A b \in kept[e] : b.made # a.made
      /\ \A q \in Run \ {r} : RunAt(q, "move") => run[q].file.made # a.made
  BY DEF MovedIsNew
<1>5. IsFiniteSet(kept[d]) /\ \A e \in Dir : \A b \in kept[e] : b.made \in Nat /\ b.made <= dumps
  BY <1>1 DEF ArchiveTypeOK
<1>6. SameName(r) \in SUBSET kept[d] /\ \A b \in kept[d] : b \in SameName(r) <=> b.minute = a.minute
  BY DEF SameName
<1> DEFINE W == Wholes(kept'[d])
<1>12. W \in SUBSET Nat /\ (W # {} => Max(W) \in W /\ \A n \in W : n <= Max(W))
  <2>1. \A b \in kept'[d] : b.made \in Nat /\ b.made <= dumps
    BY <1>1, <1>2, <1>4, <1>5
  <2>2. W \in SUBSET Nat /\ \A n \in W : n <= dumps
    BY <2>1 DEF Wholes
  <2> HIDE DEF W
  <2> QED BY <1>1, <2>2, MaxIsMost
<1>13. /\ newest' \in [Dir -> Nat]
       /\ \A e \in Dir \ {d} : newest'[e] = newest[e]
       /\ newest'[d] = IF W = {} THEN newest[d] ELSE Max(W)
  <2>1. newest \in [Dir -> Nat] /\ W = Wholes((kept[d] \ SameName(r)) \cup {a})
    BY <1>2 DEF ArchiveTypeOK
  <2>2. newest' = IF W = {} THEN newest ELSE [newest EXCEPT ![d] = Max(W)]
    BY <2>1 DEF Put
  <2> HIDE DEF W
  <2> QED BY <1>1, <1>12, <2>1, <2>2
<1>14. NewestIsThere'
  <2>1. W # {} => newest'[d] \in W /\ \A n \in W : n <= newest'[d]
    BY <1>12, <1>13
  <2> HIDE DEF W
  <2>2. \A e \in Dir \ {d} : Wholes(kept'[e]) # {} =>
          newest'[e] \in Wholes(kept'[e]) /\ \A n \in Wholes(kept'[e]) : n <= newest'[e]
    BY <1>2, <1>13 DEF NewestIsThere
  <2>3. Wholes(kept'[d]) = W
    BY DEF W
  <2> QED BY <2>1, <2>2, <2>3 DEF NewestIsThere, Wholes
<1>15. waived' = IF ~ a.whole /\ (\E b \in SameName(r) : b.whole \/ b.made > a.made)
                 THEN waived \cup {d} ELSE waived
  BY DEF Put
<1>7. ArchiveTypeOK'
  <2>1. IsFiniteSet(kept'[d])
    <3>1. kept[d] \ SameName(r) \in SUBSET kept[d]
      OBVIOUS
    <3>2. IsFiniteSet(kept[d] \ SameName(r))
      BY <1>5, <3>1, FS_Subset
    <3> QED BY <1>2, <3>2, FS_AddElement
  <2>2. \A b \in kept'[d] : b.made \in Nat /\ b.made <= dumps
    BY <1>1, <1>2, <1>4, <1>5
  <2> QED BY <1>1, <1>2, <1>3, <1>5, <1>13, <2>1, <2>2 DEF ArchiveTypeOK, place
<1>8. ToldApart'
  <2>1. \A b \in kept[d] \ SameName(r) : b.made # a.made /\ b.minute # a.minute
    BY <1>1, <1>4, <1>6
  <2> QED BY <1>1, <1>2, <2>1 DEF ToldApart
<1>9. MovedIsNew'
  <2>1. \A q \in Run : (run'[q].at = "move") => q # r /\ run'[q] = run[q] /\ RunAt(q, "move")
    BY <1>3 DEF RunAt
  <2> QED BY <1>1, <1>2, <1>4, <2>1 DEF MovedIsNew, RunAt
<1>10. RunKnows'
  BY <1>1, <1>3 DEF RunKnows, RunAt
<1>11. WholeOneStays'
  <2>1. \A e \in Dir \ {d} : newest'[e] = newest[e] /\ kept'[e] = kept[e] /\ (e \in waived' <=> e \in waived)
    BY <1>2, <1>13, <1>15
  <2>2. ASSUME d \notin waived', newest'[d] > 0, ~ \E b \in kept'[d] : b.whole
        PROVE  Cardinality(Newer(kept'[d], newest'[d])) >= Least(d)
    <3> DEFINE n == newest[d]
               N == Newer(kept[d], n)
               O == Newer(kept'[d], n)
    <3>1. ~ a.whole /\ d \notin waived /\ \A b \in SameName(r) : ~ b.whole /\ ~ (b.made > a.made)
      BY <1>2, <1>15, <2>2
    <3>2. ~ \E b \in kept[d] : b.whole
      BY <1>2, <2>2, <3>1
    <3>3. newest'[d] = n /\ n > 0 /\ n \in Nat
      <4>1. W = {}
        BY <2>2 DEF Wholes
      <4> QED BY <1>1, <1>13, <2>2, <4>1 DEF ArchiveTypeOK
    <3>4. Cardinality(N) >= Least(d)
      BY <1>1, <3>1, <3>2, <3>3 DEF WholeOneStays
    <3>5. \A b \in kept[d] : b.made \in Nat
      BY <1>1, <1>5
    <3>6. IsFiniteSet(N) /\ Cardinality(N) \in Nat /\ a \notin N
      <4>1. N \in SUBSET kept[d]
        BY DEF Newer
      <4>2. IsFiniteSet(N)
        BY <1>5, <4>1, FS_Subset
      <4> QED BY <1>1, <1>4, <4>1, <4>2, FS_CardinalityType
    <3>7. IsFiniteSet(O)
      <4>1. O \in SUBSET kept'[d] /\ IsFiniteSet(kept'[d])
        BY <1>1, <1>7 DEF Newer, ArchiveTypeOK
      <4> QED BY <4>1, FS_Subset
    <3>8. CASE \E b \in SameName(r) : b \in N
      <4> PICK b \in SameName(r) : b \in N
        BY <3>8
      <4>1. \A c \in SameName(r) : c = b
        BY <1>1, <1>6 DEF ToldApart
      <4>2. a.made > n
        <5>1. b.made > n /\ b.made \in Nat /\ ~ (b.made > a.made)
          BY <1>6, <3>1, <3>5 DEF Newer
        <5> QED BY <1>4, <3>3, <5>1
      <4>3. O = (N \ {b}) \cup {a}
        BY <1>2, <1>6, <4>1, <4>2 DEF Newer
      <4>4. IsFiniteSet(N \ {b}) /\ Cardinality(N \ {b}) = Cardinality(N) - 1
        BY <3>6, FS_RemoveElement
      <4>5. Cardinality((N \ {b}) \cup {a}) = Cardinality(N \ {b}) + 1
        <5>1. a \notin N \ {b}
          BY <3>6
        <5> QED BY <4>4, <5>1, FS_AddElement
      <4>6. Cardinality(O) = Cardinality(N)
        BY <3>6, <4>3, <4>4, <4>5
      <4> QED BY <3>3, <3>4, <4>6
    <3>9. CASE ~ \E b \in SameName(r) : b \in N
      <4>1. N \in SUBSET O
        BY <1>2, <3>9 DEF Newer
      <4>2. Cardinality(O) >= Cardinality(N) /\ Cardinality(O) \in Nat
        BY <3>6, <3>7, <4>1, FS_Subset, FS_CardinalityType
      <4>3. Least(d) \in Nat
        BY KeepsLeast
      <4> QED BY <3>3, <3>4, <3>6, <4>2, <4>3
    <3> QED BY <3>8, <3>9
  <2>3. ASSUME NEW e \in Dir, e \notin waived', newest'[e] > 0, ~ \E b \in kept'[e] : b.whole
        PROVE  Cardinality(Newer(kept'[e], newest'[e])) >= Least(e)
    <3>1. CASE e = d
      BY <2>2, <2>3, <3>1
    <3>2. CASE e # d
      <4>1. newest'[e] = newest[e] /\ kept'[e] = kept[e] /\ e \notin waived
        BY <2>1, <2>3, <3>2
      <4> QED BY <2>3, <4>1 DEF WholeOneStays
    <3> QED BY <3>1, <3>2
  <2> QED BY <2>3 DEF WholeOneStays, Newer
<1> QED BY <1>7, <1>8, <1>9, <1>10, <1>11, <1>14

LEMMA MoveKeeps == ASSUME ArchiveInv, NEW r \in Run, Move(r) \/ MoveFails(r) PROVE ArchiveInv'
<1> DEFINE d == run[r].dir
           f == run[r].file
<1>1. RunAt(r, "move") /\ Moved(r) /\ UNCHANGED <<dumps, place>>
  BY DEF Move, MoveFails
<1>2. CASE Move(r)
  BY <1>1, <1>2, PutKeeps DEF Move
<1>3. CASE MoveFails(r) /\ UNCHANGED <<kept, newest, waived>>
  <2>1. DOMAIN run = Run /\ "at" \in DOMAIN run[r]
    BY DEF ArchiveInv, ArchiveTypeOK, RunKnows
  <2>2. /\ run'[r] = [at |-> "count", todo |-> run[r].todo, dir |-> run[r].dir, keep |-> run[r].keep]
        /\ "at" \in DOMAIN run'[r] /\ run'[r].at = "count"
        /\ \A q \in Run \ {r} : run'[q] = run[q]
        /\ DOMAIN run' = Run
    BY <1>1, <2>1 DEF Moved
  <2>3. RunKnows'
    BY <1>1, <2>2 DEF ArchiveInv, RunKnows, RunAt
  <2>4. conf' \in Confs
    BY <1>1, <1>3 DEF MoveFails, place, ArchiveInv, ArchiveTypeOK
  <2> QED BY <1>1, <1>3, <2>2, <2>3, <2>4, KeptAlone
<1>4. CASE MoveFails(r) /\ ~ UNCHANGED <<kept, newest, waived>>
  <2> DEFINE a == [f EXCEPT !.whole = FALSE]
  <2>1. Put(r, a)
    BY <1>4 DEF MoveFails
  <2>2. ~ a.whole /\ a.made = f.made /\ a.minute = f.minute
    OBVIOUS
  <2> HIDE DEF a
  <2> QED BY <1>1, <2>1, <2>2, PutKeeps
<1> QED BY <1>2, <1>3, <1>4

(* What a rotation leaves of its directory: no fewer than are kept, unless  *)
(* another one was there since it counted, and nothing older than what went. *)
LEMMA Rotated ==
  ASSUME ArchiveInv, NEW r \in Run, Rotate(r)
  PROVE  LET d == run[r].dir IN
         /\ d \in Dir /\ kept'[d] = kept[d] \ Oldest(kept[d], run[r].extra)
         /\ IsFiniteSet(kept'[d])
         /\ \A e \in Dir \ {d} : kept'[e] = kept[e]
         /\ d \notin waived' => Cardinality(kept'[d]) >= Least(d)
         /\ \A a \in kept[d] \ kept'[d], b \in kept'[d] : b.made > a.made
<1> USE DEF ArchiveInv
<1> DEFINE d == run[r].dir
           A == kept[d]
           n == run[r].extra
<1>1. /\ d \in Dir /\ n \in Nat /\ run[r].seen \in Nat /\ run[r].seen - n \in Keeps(d)
      /\ RunAt(r, "rotate")
  BY DEF Rotate, RunKnows, RunAt
<1>2. /\ DOMAIN kept = Dir /\ IsFiniteSet(A) /\ dumps \in Nat
      /\ \A a \in A : a.made \in Nat /\ a.made <= dumps
      /\ \A a, b \in A : a.made = b.made => a = b
  BY <1>1 DEF ArchiveTypeOK, ToldApart
<1>3. kept'[d] = A \ Oldest(A, n) /\ \A e \in Dir \ {d} : kept'[e] = kept[e]
  BY <1>1, <1>2 DEF Rotate
<1>4. /\ IsFiniteSet(A \ Oldest(A, n))
      /\ Cardinality(A \ Oldest(A, n)) >= Cardinality(A) - n
      /\ \A a \in Oldest(A, n), b \in A \ Oldest(A, n) : b.made > a.made
  BY <1>1, <1>2, OldestAreFew
<1>5. ASSUME d \notin waived' PROVE Cardinality(kept'[d]) >= Least(d)
  <2>1. ~ (Cardinality(A) < run[r].seen)
    BY <1>5 DEF Rotate
  <2>2. Cardinality(A) \in Nat /\ Cardinality(A \ Oldest(A, n)) \in Nat
    BY <1>2, <1>4, FS_CardinalityType
  <2>3. Least(d) \in Nat /\ Least(d) <= run[r].seen - n
    BY <1>1, KeepsLeast
  <2> QED BY <1>1, <1>3, <1>4, <2>1, <2>2, <2>3
<1>6. \A a \in A \ kept'[d] : a \in Oldest(A, n)
  BY <1>3
<1> QED BY <1>1, <1>3, <1>4, <1>5, <1>6

LEMMA RotateKeeps == ASSUME ArchiveInv, NEW r \in Run, Rotate(r) PROVE ArchiveInv'
<1> DEFINE d == run[r].dir
<1>1. /\ d \in Dir /\ kept'[d] \subseteq kept[d] /\ IsFiniteSet(kept'[d])
      /\ \A e \in Dir \ {d} : kept'[e] = kept[e]
      /\ d \notin waived' => Cardinality(kept'[d]) >= Least(d)
  BY Rotated
<1>10. \A a \in kept[d] \ kept'[d], b \in kept'[d] : b.made > a.made
  BY Rotated
<1> USE DEF ArchiveInv
<1>2. \A e \in Dir : kept'[e] \subseteq kept[e]
  BY <1>1
<1>3. /\ UNCHANGED <<dumps, conf, newest>> /\ waived \subseteq waived'
      /\ DOMAIN run = Run /\ DOMAIN kept = Dir
  BY DEF Rotate, place, ArchiveTypeOK
<1>4. /\ run'[r] = [at |-> "next", todo |-> run[r].todo]
      /\ \A q \in Run \ {r} : run'[q] = run[q]
      /\ DOMAIN run' = Run /\ DOMAIN kept' = Dir
  BY <1>3 DEF Rotate
<1>5. ArchiveTypeOK'
  BY <1>1, <1>2, <1>3, <1>4 DEF ArchiveTypeOK
<1>6. ToldApart'
  BY <1>2 DEF ToldApart
<1>7. MovedIsNew'
  <2>1. \A q \in Run : (run'[q].at = "move") => q # r /\ run'[q] = run[q] /\ RunAt(q, "move")
    BY <1>4 DEF RunAt
  <2> QED BY <1>2, <1>3, <2>1 DEF MovedIsNew, RunAt
<1>8. RunKnows'
  BY <1>4 DEF RunKnows, RunAt
<1>9. WholeOneStays'
  <2> SUFFICES ASSUME NEW e \in Dir, e \notin waived', newest[e] > 0, ~ \E a \in kept'[e] : a.whole
               PROVE  Cardinality(Newer(kept'[e], newest[e])) >= Least(e)
    BY <1>3 DEF WholeOneStays, Newer
  <2> DEFINE n == newest[d]
  <2>1. CASE e # d
    BY <1>1, <1>3, <2>1 DEF WholeOneStays
  <2>2. CASE e = d /\ \E a \in kept[d] : a.whole
    <3>1. n \in Wholes(kept[d])
      BY <1>1, <2>2 DEF NewestIsThere, Wholes
    <3> PICK a \in kept[d] : a.whole /\ a.made = n
      BY <3>1 DEF Wholes
    <3>2. a \notin kept'[d]
      BY <2>2
    <3>3. Newer(kept'[d], n) = kept'[d]
      BY <1>10, <3>2 DEF Newer
    <3> QED BY <1>1, <2>2, <3>3
  <2>3. CASE e = d /\ ~ \E a \in kept[d] : a.whole
    <3>1. Cardinality(Newer(kept[d], n)) >= Least(d)
      BY <1>1, <1>3, <2>3 DEF WholeOneStays
    <3>2. CASE \A b \in kept'[d] : b.made > n
      <4>1. Newer(kept'[d], n) = kept'[d]
        BY <3>2 DEF Newer
      <4> QED BY <1>1, <2>3, <4>1
    <3>3. CASE \E b \in kept'[d] : ~ (b.made > n)
      <4> PICK b \in kept'[d] : ~ (b.made > n)
        BY <3>3
      <4>1. \A a \in kept[d] \ kept'[d] : ~ (a.made > n)
        <5> TAKE a \in kept[d] \ kept'[d]
        <5>1. b.made > a.made
          BY <1>10
        <5>2. a.made \in Nat /\ b.made \in Nat /\ n \in Nat
          BY <1>1, <1>2 DEF ArchiveTypeOK
        <5> QED BY <5>1, <5>2
      <4>2. Newer(kept'[d], n) = Newer(kept[d], n)
        BY <1>1, <4>1 DEF Newer
      <4> QED BY <2>3, <3>1, <4>2
    <3> QED BY <3>2, <3>3
  <2> QED BY <2>1, <2>2, <2>3
<1>11. NewestIsThere'
  <2> SUFFICES ASSUME NEW e \in Dir, Wholes(kept'[e]) # {}
               PROVE  newest[e] \in Wholes(kept'[e]) /\ \A m \in Wholes(kept'[e]) : m <= newest[e]
    BY <1>3 DEF NewestIsThere, Wholes
  <2>1. Wholes(kept'[e]) \subseteq Wholes(kept[e])
    BY <1>2 DEF Wholes
  <2>2. newest[e] \in Wholes(kept[e]) /\ \A m \in Wholes(kept[e]) : m <= newest[e]
    BY <2>1 DEF NewestIsThere
  <2>3. CASE e # d
    BY <1>1, <2>2, <2>3
  <2>4. CASE e = d
    <3> PICK a \in kept[d] : a.whole /\ a.made = newest[d]
      BY <2>2, <2>4 DEF Wholes
    <3> PICK b \in kept'[d] : b.whole
      BY <2>4 DEF Wholes
    <3>1. b.made <= newest[d] /\ a.made \in Nat /\ b.made \in Nat
      <4>1. b \in kept[d] /\ b.made \in Wholes(kept[d])
        BY <1>1 DEF Wholes
      <4> QED BY <1>1, <2>2, <2>4, <4>1 DEF ArchiveTypeOK
    <3>2. a \in kept'[d]
      BY <1>10, <3>1
    <3>3. newest[d] \in Wholes(kept'[d])
      BY <3>2 DEF Wholes
    <3> QED BY <2>1, <2>2, <2>4, <3>3
  <2> QED BY <2>3, <2>4
<1> QED BY <1>5, <1>6, <1>7, <1>8, <1>9, <1>11

LEMMA ArchiveStepInv == ArchiveInv /\ [Next]_vars => ArchiveInv'
<1> SUFFICES ASSUME ArchiveInv, [Next]_vars PROVE ArchiveInv'
  OBVIOUS
<1>1. CASE UNCHANGED vars
  BY <1>1 DEF vars, ArchiveInv, ArchiveTypeOK, ToldApart, MovedIsNew, RunKnows, RunAt, NewestIsThere, WholeOneStays, Newer, Wholes
<1>2. CASE Install \/ Uninstall
  BY <1>2, PlaceKeeps
<1>3. ASSUME NEW r \in Run, Step(r) PROVE ArchiveInv'
  BY <1>3, TurnKeeps, DumpKeeps, MoveKeeps, RotateKeeps DEF Step
<1> QED BY <1>1, <1>2, <1>3 DEF Next

LEMMA ArchiveSpecInv == Spec => []ArchiveInv
<1> QED BY ArchiveInitInv, ArchiveStepInv, PTL DEF Spec

(* For any sources, keeps and runs at once, failing or killed anywhere: a   *)
(* source that had a whole archive has one, or newer ones that are only     *)
(* part of one, as many as any of its runs keeps at least; except where     *)
(* rotations crossed or a part took the name of a whole archive or of a     *)
(* newer one.                                                               *)
THEOREM ServerWholeOneStays == Spec => []WholeOneStays
<1>1. ArchiveInv => WholeOneStays
  BY DEF ArchiveInv
<1> QED BY <1>1, ArchiveSpecInv, PTL

(* An archive goes only for the one of its name, or where as many newer     *)
(* ones stay as any run of its directory keeps at least; except where       *)
(* rotations crossed, or a part took the name of a whole archive or of a    *)
(* newer one.                                                               *)
THEOREM ServerRotationKeepsNewest == Spec => RotationKeepsNewest
<1> DEFINE Gone1(d, a) ==
      \/ \E b \in kept'[d] : b.minute = a.minute
      \/ Cardinality(Newer(kept'[d], a.made)) >= Least(d)
      \/ d \in waived'
<1>1. ASSUME ArchiveInv, Next, NEW d \in Dir, NEW a \in kept[d] \ kept'[d]
      PROVE  Gone1(d, a)
  <2>1. PICK r \in Run : Dump(r) \/ Move(r) \/ MoveFails(r) \/ Rotate(r)
    BY <1>1 DEF Next, Step, Install, Uninstall, Start, Finish, BeginDump, Fail, Count, Kill
  <2>2. DOMAIN kept = Dir
    BY <1>1 DEF ArchiveInv, ArchiveTypeOK
  <2>3. CASE Move(r) \/ MoveFails(r)
    <3>1. PICK b : Put(r, b) /\ b.minute = run[r].file.minute
      <4>1. CASE Move(r)
        BY <4>1 DEF Move
      <4>2. CASE MoveFails(r)
        <5>1. Put(r, [run[r].file EXCEPT !.whole = FALSE])
          BY <1>1, <4>2 DEF MoveFails
        <5>2. [run[r].file EXCEPT !.whole = FALSE].minute = run[r].file.minute
          OBVIOUS
        <5> QED BY <5>1, <5>2
      <4> QED BY <2>3, <4>1, <4>2
    <3>2. d = run[r].dir /\ a \in SameName(r) /\ b \in kept'[d]
      BY <1>1, <2>2, <3>1 DEF Put
    <3> QED BY <3>1, <3>2 DEF SameName
  <2>4. CASE Rotate(r)
    <3>1. /\ \A e \in Dir \ {run[r].dir} : kept'[e] = kept[e]
          /\ run[r].dir \notin waived' => Cardinality(kept'[run[r].dir]) >= Least(run[r].dir)
          /\ \A x \in kept[run[r].dir] \ kept'[run[r].dir], y \in kept'[run[r].dir] : y.made > x.made
      BY <1>1, <2>4, Rotated
    <3>2. d = run[r].dir
      BY <1>1, <3>1
    <3>3. Newer(kept'[d], a.made) = kept'[d]
      BY <1>1, <3>1, <3>2 DEF Newer
    <3> QED BY <3>1, <3>2, <3>3
  <2>5. ~ Dump(r)
    BY <1>1 DEF Dump
  <2> QED BY <2>1, <2>3, <2>4, <2>5
<1>2. ASSUME ArchiveInv, [Next]_vars
      PROVE  [\A d \in Dir : \A a \in kept[d] \ kept'[d] : Gone1(d, a)]_vars
  BY <1>1, <1>2
<1> QED BY <1>2, ArchiveSpecInv, PTL DEF Spec, RotationKeepsNewest
=============================================================================
