----------------------------- MODULE HostWindow -----------------------------
(***************************************************************************)
(* Upgrades and restarts of a host: the script that a timer of the host    *)
(* runs in its maintenance window, and the manager, which upgrades when it *)
(* is told to (maintain-host) or after an evaluation of its own            *)
(* (check-maintenance-window --apply).  Both take the lock of apt, restart *)
(* the host three seconds after they said so, and do not know of each      *)
(* other.  The manager may wait for the host to come back.                 *)
(*                                                                         *)
(* Both ask dpkg for the kernel with a format that their shell expands to  *)
(* nothing: where the package is installed the answer is empty, which the  *)
(* manager takes for no news and the script for a new kernel.              *)
(***************************************************************************)
EXTENDS Naturals

CONSTANTS
  Boots,      \* how many restarts it takes for a boot_id to come again
  MaxCommands, MaxWork \* bounds on the commands, and on what else runs there

ASSUME WindowAssumption == {Boots, MaxCommands, MaxWork} \subseteq Nat \ {0}

VARIABLES
  setup,    \* the reboot policy of the script, whether its timer is installed,
            \* and whether the package dpkg is asked for is there
  boot,     \* boot_id of the host
  pending,  \* /var/run/reboot-required
  plane,    \* the containers of the control plane are up
  apt,      \* who has the lock of apt
  left,     \* upgrades of the manager that wait for it and that nobody watches
  broken,   \* an upgrade was interrupted
  work,     \* a build, dump or restore under way, and since when
  restart,  \* those who have said that the host restarts
  script, manager, \* where both are
  commands, works

windowVars == <<setup, boot, pending, plane, apt, left, broken, work, restart, script, manager,
                commands, works>>
host == <<setup, boot, plane, restart>>
counts == <<commands, works>>

NoWork == [kind |-> "none", late |-> FALSE]
Rest == [at |-> "idle"]

Policies == {"manual-only", "if-required", "if-drift-detected"}

WindowInit ==
  /\ setup \in [policy : Policies, timer : {TRUE}, packaged : BOOLEAN]
  /\ boot = 1 /\ pending \in BOOLEAN /\ plane = TRUE
  /\ apt = "free" /\ left \in {0, 1} /\ broken = FALSE
  /\ work = NoWork /\ restart = {}
  /\ script = Rest /\ manager = Rest
  /\ commands = 0 /\ works = 0

At(who, step) == IF who = "script" THEN script.at = step ELSE manager.at = step
Goes(who, step) ==
  IF who = "script"
  THEN script' = [script EXCEPT !.at = step] /\ UNCHANGED manager
  ELSE manager' = [manager EXCEPT !.at = step] /\ UNCHANGED script
AtWork == {"lock", "take", "upgrade", "end", "say"}
Busy == restart # {} \/ {script.at, manager.at} \cap AtWork # {}
-----------------------------------------------------------------------------
(* Work that pgrep finds by its name, and the nightly backups and others    *)
(* that it does not.                                                        *)
WorkBegins ==
  /\ work.kind = "none" /\ works < MaxWork
  /\ \E k \in {"seen", "unseen"} :
       work' = [kind |-> k, late |-> Busy]
  /\ works' = works + 1
  /\ UNCHANGED <<host, pending, apt, left, broken, script, manager, commands>>

WorkEnds ==
  /\ work.kind # "none"
  /\ work' = NoWork
  /\ UNCHANGED <<host, pending, apt, left, broken, script, manager, counts>>

\* Mutant of the next definition: critical operations are not looked for.
QuietAlways == TRUE
(* What blocks both: an upgrade is work that pgrep finds too. *)
Quiet == work.kind # "seen" /\ apt = "free"

\* Mutant of the next definition: only drift restarts the host.
NewsNever(who) == FALSE
News(who) == pending \/ (who = "script" /\ setup.packaged)

(* Load and pressure are high in every sample, and the last restart is long *)
(* ago, or not.                                                             *)
Drift == BOOLEAN

ShouldRestart(who, policy) ==
  CASE policy = "manual-only" -> {FALSE}
    [] policy = "if-required" -> {News(who)}
    [] OTHER -> {News(who) \/ d : d \in Drift}

(* The timer fires, and finds the host quiet and the sites healthy; the     *)
(* lock file keeps out a second run.                                        *)
Fire ==
  /\ setup.timer
  /\ script.at = "idle" /\ Quiet
  /\ \E r \in ShouldRestart("script", setup.policy) : script' = [at |-> "lock", restarts |-> r]
  /\ UNCHANGED <<host, pending, apt, left, broken, work, manager, counts>>

Told == manager.at = "idle" /\ commands < MaxCommands /\ commands' = commands + 1

(* schedule-maintenance with another policy: the script is replaced first,  *)
(* and later steps may fail; or --remove, which leaves alone what runs.     *)
Schedule ==
  /\ Told
  /\ \E p \in Policies, t \in {setup.timer, TRUE} :
       setup' = [setup EXCEPT !.policy = p, !.timer = t]
  /\ UNCHANGED <<boot, plane, restart, pending, apt, left, broken, work, script, manager, works>>

Unschedule ==
  /\ Told
  /\ setup' = [setup EXCEPT !.timer = FALSE]
  /\ UNCHANGED <<boot, plane, restart, pending, apt, left, broken, work, script, manager, works>>

(* maintain_vps_config begins: it is to restart the host, and to wait for it *)
Begun(r, w, asked) ==
  [at |-> "lock", restarts |-> r, waits |-> w, asked |-> asked, away |-> FALSE, boot |-> 0]

(* maintain-host restarts and waits as it is told, and looks for nothing    *)
(* that runs.                                                               *)
Maintain ==
  /\ Told
  /\ \E r, w \in BOOLEAN : manager' = Begun(r, w, TRUE)
  /\ UNCHANGED <<host, pending, apt, left, broken, work, script, works>>

(* aplicar_decision does not wait. *)
Applied(r) == Begun(r, FALSE, FALSE)

(* The policy is that of the settings, which the script may not have.       *)
Evaluate ==
  /\ Told /\ Quiet
  /\ \E p \in Policies : \E r \in ShouldRestart("manager", p) : manager' = Applied(r)
  /\ UNCHANGED <<host, pending, apt, left, broken, work, script, works>>

(* Nobody has the lock: the upgrade is to begin, ...                        *)
Unlocked(who) ==
  /\ At(who, "lock") /\ apt = "free"
  /\ Goes(who, "take")
  /\ UNCHANGED <<host, pending, apt, left, broken, work, counts>>

Stops(who) ==
  /\ Goes(who, IF who = "script" THEN "idle" ELSE "err")
  /\ UNCHANGED <<host, pending, work, counts>>

(* ... or after fifteen minutes it is not.                                  *)
LockTimeout(who) ==
  /\ At(who, "lock") /\ apt # "free"
  /\ Stops(who) /\ UNCHANGED <<apt, left, broken>>

(* dpkg --configure -a mends what was interrupted.                          *)
Take(who) ==
  /\ At(who, "take") /\ apt = "free"
  /\ apt' = who /\ broken' = FALSE
  /\ Goes(who, "upgrade")
  /\ UNCHANGED <<host, pending, left, work, counts>>

TakeFails(who) ==
  /\ At(who, "take") /\ apt # "free"
  /\ Stops(who) /\ UNCHANGED <<apt, left, broken>>

Upgrade(who) ==
  /\ At(who, "upgrade")
  /\ apt' = "free"
  /\ pending' \in {pending, TRUE}
  /\ Goes(who, "end")
  /\ UNCHANGED <<host, left, broken, work, counts>>

UpgradeFails(who) ==
  /\ At(who, "upgrade")
  /\ apt' = "free"
  /\ Stops(who) /\ UNCHANGED <<left, broken>>

(* The manager runs its upgrade with nohup and asks its log for the end: an *)
(* hour, or five lost answers, later it gives up, and the upgrade goes on,  *)
(* if it was launched at all.                                               *)
OnHost == {"lock", "take", "upgrade"}
Lose ==
  /\ manager.at \in OnHost
  /\ Goes("manager", "err")
  /\ \/ manager.at = "lock" /\ UNCHANGED <<apt, left>>
     \/ manager.at # "upgrade" /\ left' = left + 1 /\ UNCHANGED apt
     \/ manager.at = "upgrade" /\ apt' = "left" /\ UNCHANGED left
  /\ UNCHANGED <<host, pending, broken, work, counts>>

(* One that nobody watches gives up as well, or upgrades.                   *)
LeftStep ==
  /\ \/ left > 0 /\ apt = "free" /\ apt' = "left" /\ left' = left - 1
        /\ broken' = FALSE /\ UNCHANGED pending
     \/ left > 0 /\ apt # "free" /\ left' = left - 1 /\ UNCHANGED <<apt, broken, pending>>
     \/ apt = "left" /\ apt' = "free" /\ pending' \in {pending, TRUE} /\ UNCHANGED <<left, broken>>
  /\ UNCHANGED <<host, work, script, manager, counts>>

(* Its end is written to the log of its target, where the next command      *)
(* takes it for the end of its own, which then goes on unwatched.           *)
Misled ==
  /\ manager.at \in OnHost
  /\ \/ /\ apt = "left" /\ apt' = "free" /\ pending' \in {pending, TRUE}
        /\ left' = left + 1
        /\ Goes("manager", "end") \/ Goes("manager", "err")
     \/ /\ left > 0 /\ apt # "free"
        /\ IF manager.at = "upgrade" THEN apt' = "left" /\ left' = left - 1
                                     ELSE UNCHANGED <<apt, left>>
        /\ UNCHANGED pending
        /\ Goes("manager", "err")
  /\ UNCHANGED <<host, broken, work, counts>>

(* The script says that the host restarts, when it decided so before the    *)
(* upgrade.                                                                 *)
ScriptEnd ==
  /\ script.at = "end"
  /\ restart' = IF script.restarts THEN restart \cup {"script"} ELSE restart
  /\ script' = Rest
  /\ UNCHANGED <<setup, boot, plane, pending, apt, left, broken, work, manager, counts>>

(* The manager reads boot_id first.                                         *)
ManagerEnd ==
  /\ manager.at = "end"
  /\ manager' = IF manager.restarts THEN [manager EXCEPT !.at = "say", !.boot = boot]
                                    ELSE [manager EXCEPT !.at = "done"]
  /\ UNCHANGED <<host, pending, apt, left, broken, work, script, counts>>

Say ==
  /\ manager.at = "say"
  /\ restart' = restart \cup {IF manager.asked THEN "asked" ELSE "manager"}
  /\ manager' = [manager EXCEPT !.at = IF manager.waits THEN "wait" ELSE "done"]
  /\ UNCHANGED <<setup, boot, plane, pending, apt, left, broken, work, script, counts>>

\* Mutant of the next definition: any answer of the host will do.
AnyBoot == TRUE
(* reinicio_completado *)
Restarted == boot # manager.boot

Back ==
  /\ manager.at = "wait" /\ Restarted
  /\ manager' = [manager EXCEPT !.at = "plane"]
  /\ UNCHANGED <<host, pending, apt, left, broken, work, script, counts>>

(* The containers are up, and no restart is pending again. *)
Plane ==
  /\ manager.at = "plane" /\ plane
  /\ manager' = [manager EXCEPT !.at = IF pending THEN "err" ELSE "completed"]
  /\ UNCHANGED <<host, pending, apt, left, broken, work, script, counts>>

WaitTimeout ==
  /\ manager.at \in {"wait", "plane"}
  /\ manager' = [manager EXCEPT !.at = "err"]
  /\ UNCHANGED <<host, pending, apt, left, broken, work, script, counts>>

Rise ==
  /\ ~ plane
  /\ plane' = TRUE
  /\ UNCHANGED <<setup, boot, restart, pending, apt, left, broken, work, script, manager, counts>>

(* Three seconds later: all that runs on the host ends, and the manager     *)
(* loses its connection.                                                    *)
Reboot ==
  /\ restart # {}
  /\ boot' = (boot % Boots) + 1
  /\ restart' = {}
  /\ plane' = FALSE /\ pending' = FALSE
  /\ apt' = "free" /\ left' = 0 /\ broken' = (broken \/ apt # "free")
  /\ work' = NoWork
  /\ script' = Rest
  /\ manager' = CASE manager.at \in AtWork \cup {"plane"} -> [manager EXCEPT !.at = "err"]
                  [] manager.at = "wait" -> [manager EXCEPT !.away = TRUE]
                  [] OTHER -> manager
  /\ UNCHANGED <<setup, counts>>

(* A restart that nobody waits for leaves nothing to check yet; otherwise   *)
(* the control plane is looked for again, and sites, audit and measures may *)
(* fail.                                                                    *)
Passes == IF manager.restarts /\ ~ manager.waits THEN {TRUE} ELSE {plane, FALSE}

(* A check that fails is an error of maintain-host, but only a note of the  *)
(* evaluation.                                                              *)
Checks ==
  /\ manager.at \in {"done", "completed"}
  /\ \E passed \in Passes :
       manager' = [manager EXCEPT !.at = IF manager.asked /\ ~ passed THEN "err" ELSE "ok"]
  /\ UNCHANGED <<host, pending, apt, left, broken, work, script, counts>>

(* The next command of the manager *)
Forget ==
  /\ manager.at \in {"ok", "err"}
  /\ manager' = Rest
  /\ UNCHANGED <<host, pending, apt, left, broken, work, script, counts>>

Upgrading(who) ==
  \/ Unlocked(who) \/ LockTimeout(who) \/ Take(who) \/ TakeFails(who)
  \/ Upgrade(who) \/ UpgradeFails(who)

ScriptStep == Upgrading("script") \/ ScriptEnd
ManagerStep == Upgrading("manager") \/ Lose \/ Misled \/ ManagerEnd \/ Say \/ Back \/ Plane \/ WaitTimeout
               \/ Checks \/ Forget

WindowNext ==
  \/ WorkBegins \/ WorkEnds \/ Fire \/ Schedule \/ Unschedule \/ Maintain \/ Evaluate
  \/ ScriptStep \/ ManagerStep \/ LeftStep \/ Rise \/ Reboot

WindowSpec == WindowInit /\ [][WindowNext]_windowVars

(* The timer fires every night, and some night the host is quiet and its    *)
(* upgrade works; what runs there, and the restart, come to an end.         *)
WindowFairness ==
  /\ SF_windowVars(Fire) /\ SF_windowVars(Upgrade("script"))
  /\ WF_windowVars(ScriptStep) /\ WF_windowVars(ManagerStep)
  /\ WF_windowVars(LeftStep) /\ WF_windowVars(WorkEnds) /\ WF_windowVars(Reboot)
-----------------------------------------------------------------------------
(* "Reinicio completado", and the success of a command told to restart the  *)
(* host and wait for it: the host was up again since the command said that  *)
(* it restarts, and not the one of before that still answered.              *)
CompletedMeansRestarted ==
  \/ manager.at = "completed"
  \/ manager.at = "ok" /\ manager.restarts /\ manager.waits
  => manager.away

(* A restart that nobody asked for cuts no build, upgrade or restore that   *)
(* ran when the window was evaluated; what it may cut began later, while    *)
(* packages were upgraded, or has a name that is not looked for.            *)
WindowSparesWork ==
  [][boot' # boot /\ "asked" \notin restart /\ work.kind = "seen" => work.late]_windowVars

(* A restart that the packages ask for is done some night, also when the    *)
(* upgrade of the same night asked for it after the decision, unless the    *)
(* timer is removed or its policy becomes manual-only.                      *)
Automatic == setup.timer /\ setup.policy # "manual-only"
PendingEnds == pending /\ Automatic ~> ~ pending \/ ~ Automatic
=============================================================================
