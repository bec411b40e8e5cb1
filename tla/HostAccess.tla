----------------------------- MODULE HostAccess -----------------------------
(***************************************************************************)
(* The ways into a host that the manager changes while it is logged in     *)
(* there: harden-ssh writes an override for sshd and neutralises the one   *)
(* of cloud-init, enforce-host-security resets the firewall.  Both try a   *)
(* new connection with the key and undo what they did when it fails.  The  *)
(* running sshd has the files of its last reload; a restart of the host or *)
(* an upgrade loads those on disk.                                         *)
(*                                                                         *)
(* A remote script runs with set -e: it may end at any of its steps, and   *)
(* the connection may be lost after the last.                              *)
(***************************************************************************)
EXTENDS Naturals

CONSTANTS MaxTasks, MaxEdits \* bounds on commands, and on what people change
ASSUME AccessBounds == MaxTasks \in Nat /\ MaxEdits \in Nat

None == "none"
Gone == "gone"     \* no backup file
Down == [over |-> "down", cloud |-> "down"] \* sshd did not come up

VARIABLES
  login,   \* settings: a password is there, the policy disables passwords
  disk,    \* override of the manager, and cloud-init's: "pw" allows passwords
  backup,  \* the .bak of both
  loaded,  \* what the running sshd has loaded
  keyed,   \* the key is in authorized_keys
  sound,   \* the rest of the configuration of sshd is valid
  fw,      \* rules of ufw, whether it is on, and the jail of fail2ban
  fwBackup,
  task,
  tasks, edits,
  unproved \* history: the files, the key or the rest have changes that no
           \* connection has proved

accessVars == <<login, disk, backup, loaded, keyed, sound, fw, fwBackup, task, tasks, edits, unproved>>
settings == <<login, keyed, sound, edits>>
sshd == <<disk, backup, loaded, unproved>>
wall == <<fw, fwBackup>>

Ended == {"idle", "ok", "err", "undone", "stuck"}
Doing(what) == task.at = what
Between == task.at \in Ended

(* The first file that says it decides, and cloud-init's comes first. *)
Passwords(c) ==
  \/ c.cloud = "pw"
  \/ c.cloud = None /\ ~ (c.over = "new" /\ login.strict)

ByKey == loaded # Down /\ keyed
ByPassword == loaded # Down /\ login.password /\ Passwords(loaded)

(* A password in the settings is the only thing that connect tries. *)
Connects == IF login.password THEN ByPassword ELSE ByKey
AccessInit ==
  /\ login \in [password : BOOLEAN, strict : BOOLEAN]
  /\ disk \in [over : {None, "old"}, cloud : {None, "pw"}]
  /\ backup = [over |-> Gone, cloud |-> Gone]
  /\ loaded = disk
  /\ keyed \in BOOLEAN
  /\ sound = TRUE
  /\ fw \in {[rules |-> None, on |-> FALSE, jail |-> None],
             [rules |-> "own", on |-> TRUE, jail |-> "own"]}
  /\ fwBackup = [rules |-> Gone, jail |-> Gone]
  /\ task = [at |-> "idle"] /\ tasks = 0 /\ edits = 0
  /\ unproved = FALSE
  /\ ByKey \/ ByPassword

-----------------------------------------------------------------------------
Begin(what) ==
  /\ Between /\ tasks < MaxTasks /\ Connects
  /\ tasks' = tasks + 1
  /\ UNCHANGED settings

Files == [ssh |-> disk, fw |-> fw, unproved |-> unproved]
Ends(how) == task' = [task EXCEPT !.at = how]

(* Up to k of the steps of the script of harden_target: the override is     *)
(* backed up, cloud-init's is backed up and neutralised, the override is    *)
(* written and checked, sshd is reloaded.                                   *)
Hardened(k) ==
  /\ backup' = [over |-> IF k = 0 THEN backup.over ELSE IF disk.over = None THEN Gone ELSE disk.over,
                cloud |-> IF k > 1 /\ disk.cloud # None THEN disk.cloud ELSE backup.cloud]
  /\ disk' = [over |-> IF k > 2 THEN "new" ELSE disk.over,
              cloud |-> IF k > 1 /\ disk.cloud # None THEN "off" ELSE disk.cloud]
  /\ loaded' = IF k > 3 THEN disk' ELSE loaded
  /\ unproved' = (unproved \/ k > 1)

Harden ==
  /\ Begin("ssh")
  /\ \E k \in 0 .. (IF sound THEN 4 ELSE 3), at \in {"prove", "err"} :
       /\ at = "prove" => k = 4
       /\ Hardened(k)
       /\ task' = [at |-> at, of |-> "ssh", before |-> Files]
  /\ UNCHANGED wall

(* The script of aplicar_firewall_fail2ban: packages, backup of the rules,  *)
(* of the jail, the jail, reset, the rules, enable, restart of fail2ban.    *)
Enforced(k) ==
  /\ fwBackup' = [rules |-> IF k > 0 THEN fw.rules ELSE fwBackup.rules,
                  jail |-> IF k = 0 THEN fwBackup.jail ELSE IF fw.jail = None THEN Gone ELSE fw.jail]
  /\ fw' = [rules |-> CASE k < 2 -> fw.rules [] k = 2 -> None [] OTHER -> "policy",
            on |-> IF k < 2 THEN fw.on ELSE k > 3,
            jail |-> IF k > 0 THEN "policy" ELSE fw.jail]

(* The address of the manager is one of those that the policy trusts. *)
Enforce ==
  /\ Begin("fw")
  /\ \E k \in 0 .. 5, at \in {"prove", "err"} :
       /\ at = "prove" => k = 5
       /\ Enforced(k)
       /\ task' = [at |-> at, of |-> "fw", before |-> Files]
  /\ UNCHANGED sshd

\* Mutant of the next definition: the connection there is is proof enough.
ProveOld ==
  /\ Doing("prove")
  /\ Ends("ok")
  /\ unproved' = (IF task.of = "ssh" THEN FALSE ELSE unproved)
  /\ UNCHANGED <<settings, disk, backup, loaded, wall, tasks>>
(* The new connection has the key, whatever the settings say. *)
Prove ==
  /\ Doing("prove")
  /\ \/ ByKey /\ Ends("ok") /\ unproved' = (IF task.of = "ssh" THEN FALSE ELSE unproved)
     \/ Ends("undo") /\ UNCHANGED unproved
  /\ UNCHANGED <<settings, disk, backup, loaded, wall, tasks>>

\* Mutant of the next definition: the override of cloud-init is left as it is.
RestoredOverride ==
  /\ disk' = [disk EXCEPT !.over = IF backup.over = Gone THEN None ELSE backup.over]
  /\ backup' = [backup EXCEPT !.over = Gone]
Restored ==
  /\ disk' = [over |-> IF backup.over = Gone THEN None ELSE backup.over,
              cloud |-> IF backup.cloud = Gone THEN disk.cloud ELSE backup.cloud]
  /\ backup' = [over |-> Gone, cloud |-> Gone]

(* The first connection is still there, unless it is lost; then, or when    *)
(* sshd does not take the files, the host is left to people.                *)
UndoHarden ==
  /\ Doing("undo") /\ task.of = "ssh"
  /\ \/ Restored /\ sound /\ loaded' = disk' /\ unproved' = task.before.unproved /\ Ends("undone")
     \/ Restored /\ UNCHANGED <<loaded, unproved>> /\ Ends("stuck")
     \/ UNCHANGED sshd /\ Ends("stuck")
  /\ UNCHANGED <<settings, wall, tasks>>

WallRestored ==
  /\ fw' = [rules |-> fwBackup.rules, on |-> task.before.fw.on,
            jail |-> IF fwBackup.jail = Gone THEN None ELSE fwBackup.jail]
  /\ fwBackup' = [fwBackup EXCEPT !.jail = Gone]

UndoEnforce ==
  /\ Doing("undo") /\ task.of = "fw"
  /\ \/ WallRestored /\ Ends("undone")
     \/ UNCHANGED wall /\ Ends("stuck")
  /\ UNCHANGED <<settings, sshd, tasks>>

(* The command ends in the middle, and the host stays as it is. *)
Abandon ==
  /\ task.at \in {"prove", "undo"}
  /\ Ends("err")
  /\ UNCHANGED <<settings, sshd, wall, tasks>>

(* Between two commands people remove the file of cloud-init, or change     *)
(* what the manager does not touch.                                         *)
Edit ==
  /\ Between /\ edits < MaxEdits
  /\ edits' = edits + 1
  /\ \/ disk' = [disk EXCEPT !.cloud = None] /\ UNCHANGED <<keyed, sound, unproved>>
     \/ keyed' = ~ keyed /\ unproved' = TRUE /\ UNCHANGED <<disk, sound>>
     \/ sound' = ~ sound /\ unproved' = TRUE /\ UNCHANGED <<disk, keyed>>
  /\ task' = [at |-> "idle"]
  /\ UNCHANGED <<login, backup, loaded, wall, tasks>>

(* sshd starts again: the host restarted, or openssh was upgraded. *)
Restart ==
  /\ task' = IF Between THEN [at |-> "idle"] ELSE task
  /\ loaded' = IF sound THEN disk ELSE Down
  /\ UNCHANGED <<settings, disk, backup, unproved, wall, tasks>>

AccessNext == Harden \/ Enforce \/ Prove \/ UndoHarden \/ UndoEnforce \/ Abandon \/ Edit
AccessSpec == AccessInit /\ [][AccessNext \/ Restart]_accessVars
-----------------------------------------------------------------------------

(* When no command is at work, the key or the password of the settings      *)
(* opens the host: a change that shuts it is seen and undone                *)
(* (harden_target).  What shuts it are changes that no connection has       *)
(* proved: those of people, and the files of a command that failed halfway, *)
(* which wait for the next restart, or for the next command to take them    *)
(* for what was there before.                                               *)
NotShutOut == Between /\ ~ unproved => ByKey \/ ByPassword

(* "Revertido": the files and the firewall are those of before, not those   *)
(* of an earlier attempt whose backups were still there.  Only a file of    *)
(* cloud-init that was removed since may come back.                         *)
UndoneIsAsBefore ==
  Doing("undone") =>
    /\ disk.over = task.before.ssh.over
    /\ disk.cloud = task.before.ssh.cloud \/ task.before.ssh.cloud = None
    /\ loaded = disk \/ task.of = "fw"
    /\ fw = task.before.fw
=============================================================================
