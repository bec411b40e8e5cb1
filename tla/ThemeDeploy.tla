----------------------------- MODULE ThemeDeploy -----------------------------
(***************************************************************************)
(* deploy-theme: the Glory theme of a WordPress site lives inside its      *)
(* container as two git repositories (the theme, and the library Glory in  *)
(* a directory of it), with the packages that composer and npm install and *)
(* the front end that npm compiles.  An update pulls both repositories,    *)
(* brings the packages up to date when a lock file changed, compiles, runs *)
(* the migrations and asks for the health of the site; when it fails it    *)
(* goes back to the commits it found.                                      *)
(*                                                                         *)
(* A commit is its position in the branch.  0 stands for something that is *)
(* not there, or for a command whose output could not be read.             *)
(***************************************************************************)
EXTENDS Naturals, FiniteSets

CONSTANTS MaxCommit,  \* bound on the commits of the theme
          MaxLibrary, \* bound on the commits of the library
          MaxDeploys  \* bound on the commands

Commit == 1..MaxCommit

(* Some commits change the lock files: the second, the fourth...           *)
Lock(c) == IF c = 0 THEN 0 ELSE c \div 2 + 1

VARIABLES
  remote,   \* the tips of the branches of the theme and of the library
  site,     \* the theme in the container
  registered,  \* migrations that the database has registered
  cmd,      \* the command under way
  lapse,    \* history: packages whose installation failed, was skipped on
            \* demand or never came (the command stopped before it)
  deploys

vars == <<remote, site, registered, cmd, lapse, deploys>>

Packages == {"vendor", "modules"}
Ended == {"idle", "ok", "err"}

Absent == [repo |-> "none", src |-> 0, lib |-> 0, vendor |-> 0, modules |-> 0,
           dist |-> 0, node |-> FALSE, conf |-> FALSE, up |-> TRUE]

NoLocks == [p \in Packages |-> 0]

Idle == [pc |-> "idle", update |-> FALSE, react |-> TRUE, prev |-> 0, prevLib |-> 0,
         before |-> NoLocks]

Init ==
  /\ remote = [theme |-> 1, lib |-> 1]
  /\ site \in {[Absent EXCEPT !.node = n] : n \in BOOLEAN} \cup
              {[repo |-> "ok", src |-> 1, lib |-> 1, vendor |-> Lock(1),
                modules |-> Lock(1), dist |-> 1, node |-> TRUE, conf |-> TRUE,
                up |-> TRUE]}
  /\ registered = {}
  /\ cmd = Idle
  /\ lapse = {}
  /\ deploys = 0

At(pc) == cmd.pc = pc
Go(pc) == cmd' = [cmd EXCEPT !.pc = pc]

(* On with pc, where the sums of the lock files are no longer needed.      *)
Leave(pc) == cmd' = [cmd EXCEPT !.pc = pc, !.before = NoLocks]

(* An update goes back; an installation that fails stays as it is.         *)
Fail == Leave(IF cmd.update THEN "revert" ELSE "err")

Lapsed(ps) == lapse' = lapse \cup ps

(* A commit reaches one of the branches.                                   *)
Push ==
  /\ \E b \in {"theme", "lib"} :
       /\ remote[b] < (IF b = "theme" THEN MaxCommit ELSE MaxLibrary)
       /\ remote' = [remote EXCEPT ![b] = @ + 1]
  /\ UNCHANGED <<site, registered, cmd, lapse, deploys>>

(* A container created again: what is not on its volume is gone, node and  *)
(* php.ini always.                                                         *)
Recreated ==
  {Absent} \cup
  {[site EXCEPT !.node = FALSE, !.conf = FALSE, !.vendor = v, !.modules = n, !.up = TRUE] :
     v \in {0, site.vendor}, n \in {0, site.modules}}

(* Coolify, Docker or a person create the container again between          *)
(* commands, or git finds a broken repository.                             *)
Recreate ==
  /\ cmd.pc \in Ended /\ cmd' = Idle
  /\ \/ site' \in Recreated
     \/ site.repo = "ok" /\ site' = [site EXCEPT !.repo = "broken"]
  /\ UNCHANGED <<remote, registered, lapse, deploys>>

(* The backup before the deploy may fail and stop it, as may a missing     *)
(* container; the backup of an unstable container is tolerated.            *)
Start(update, react) ==
  /\ cmd.pc \in Ended /\ deploys < MaxDeploys
  /\ deploys' = deploys + 1
  /\ \E pc \in {"err"} \cup (IF site.up THEN {IF update THEN "record" ELSE "tools"} ELSE {}) :
       cmd' = [Idle EXCEPT !.pc = pc, !.update = update, !.react = react]
  /\ UNCHANGED <<remote, site, registered, lapse>>

(* git rev-parse of both repositories; nothing when it fails.              *)
Record ==
  /\ At("record")
  /\ \E p \in {0, site.src}, l \in {0, site.lib} :
       cmd' = [cmd EXCEPT !.pc = "inspect", !.prev = p, !.prevLib = l]
  /\ UNCHANGED <<remote, site, registered, lapse, deploys>>

(* rm -rf of the directory of the theme.                                   *)
Removed == [Absent EXCEPT !.node = site.node, !.conf = site.conf, !.up = site.up]

(* Without a theme, or with a repository that git rejects, everything is   *)
(* installed again; the removal of the broken one is not checked.          *)
Inspect ==
  /\ At("inspect")
  /\ \/ site.repo = "ok" /\ Go("locks") /\ UNCHANGED site
     \/ site.repo = "none" /\ Go("tools") /\ UNCHANGED site
     \/ site.repo = "broken" /\ Go("tools")
        /\ site' \in {site, Removed}
     \/ Fail /\ UNCHANGED site
  /\ UNCHANGED <<remote, registered, lapse, deploys>>

(* The sum of a lock file, or nothing when it cannot be read.              *)
LockRead == {0, Lock(site.src)}

ReadLocks ==
  /\ At("locks")
  /\ \E b \in [Packages -> LockRead] : cmd' = [cmd EXCEPT !.pc = "pull", !.before = b]
  /\ UNCHANGED <<remote, site, registered, lapse, deploys>>

(* Local changes are discarded before the pull.                            *)
PullTheme ==
  /\ At("pull")
  /\ \/ Go("pull_lib") /\ site' = [site EXCEPT !.src = remote.theme]
     \/ Fail /\ UNCHANGED site
  /\ UNCHANGED <<remote, registered, lapse, deploys>>

(* The pull of the library only warns.                                     *)
PullLibrary ==
  /\ At("pull_lib")
  /\ \/ /\ Go("composer")
        /\ site' \in {site} \cup (IF site.lib = 0 THEN {}
                                  ELSE {[site EXCEPT !.lib = remote.lib]})
     \/ Fail /\ UNCHANGED site
  /\ UNCHANGED <<remote, registered, lapse, deploys>>

(* The packages are installed when the lock file changed with this pull,   *)
(* or when they are not there.                                             *)
Outdated(p, after) == cmd.before[p] # after \/ site[p] = 0

(* Two unreadable sums are equal: the installation is skipped.             *)
Skipped(p, after) == IF after = 0 THEN Lapsed({p}) ELSE UNCHANGED lapse

Composer ==
  /\ At("composer")
  /\ \E after \in LockRead :
       IF Outdated("vendor", after)
       THEN \/ /\ Go("react")
               /\ site' = [site EXCEPT !.vendor = Lock(site.src)]
               /\ lapse' = lapse \ {"vendor"}
            \/ Go("react") /\ Lapsed({"vendor"}) /\ UNCHANGED site
       ELSE Go("react") /\ Skipped("vendor", after) /\ UNCHANGED site
  /\ UNCHANGED <<remote, registered, deploys>>

(* npm install of what is outdated, then npm run build; node is installed  *)
(* when it is missing, and without it npm fails.  --skip-react skips both. *)
React ==
  /\ At("react")
  /\ \/ ~cmd.react /\ Leave("migrate") /\ Lapsed({"modules"}) /\ UNCHANGED site
     \/ /\ cmd.react
        /\ \E after \in LockRead :
             LET installs == Outdated("modules", after)
                 ready == IF installs THEN [site EXCEPT !.node = TRUE, !.modules = Lock(site.src)]
                          ELSE [site EXCEPT !.node = TRUE]
                 noted == IF installs THEN lapse' = lapse \ {"modules"}
                          ELSE Skipped("modules", after)
             IN \/ Leave("migrate") /\ noted /\ site' = [ready EXCEPT !.dist = site.src]
                \/ Fail /\ noted /\ site' = ready
                \/ Fail /\ Lapsed({"modules"}) /\ site' \in {site, [site EXCEPT !.node = TRUE]}
  /\ UNCHANGED <<remote, registered, deploys>>

(* The files of the theme: each commit brings one.                         *)
Files == 1..site.src

(* Files that are not registered are sent to psql in order and registered. *)
(* A connection that fails leaves the file for another time, but the next  *)
(* goes on; a file that psql rejects, or that cannot be read and is sent   *)
(* empty, is registered too.  Nothing of this stops the deploy.            *)
Migrate ==
  /\ At("migrate") /\ Go("configure")
  /\ \E new \in SUBSET (Files \ registered) : registered' = registered \cup new
  /\ UNCHANGED <<remote, site, lapse, deploys>>

(* Permissions, php.ini, the SMTP plugin, wp-cron, CORS and the WebSocket  *)
(* server are written anew and Apache told: best effort, and only here.    *)
Configure ==
  /\ At("configure") /\ Go("health")
  /\ site' \in {site, [site EXCEPT !.conf = TRUE]}
  /\ UNCHANGED <<remote, registered, lapse, deploys>>

(* The route answers, with the page of the theme, and PHP loads WordPress: *)
(* not without the container, and even with it they may fail.              *)
Answers == site.up

(* The site must answer.  The other sites of the host are only reported.   *)
Health ==
  /\ At("health")
  /\ \/ Answers /\ Go("ok")
     \/ Fail
  /\ UNCHANGED <<remote, site, registered, lapse, deploys>>

(* redeploy stops the stack, whatever comes of that, and starts it; Coolify *)
(* may do it late, or find it running.  A start that fails is tried once   *)
(* more, and the command ends with an error (or panics) even if that works. *)
StartRedeploy ==
  /\ cmd.pc \in Ended /\ deploys < MaxDeploys
  /\ deploys' = deploys + 1
  /\ cmd' = [Idle EXCEPT !.pc = "stop"]
  /\ UNCHANGED <<remote, site, registered, lapse>>

StopService ==
  /\ At("stop") /\ Go("start")
  /\ site' \in {site, [site EXCEPT !.up = FALSE]}
  /\ UNCHANGED <<remote, registered, lapse, deploys>>

StartService ==
  /\ At("start")
  /\ \/ Go("settle") /\ site' \in {site} \cup Recreated
     \/ Fail /\ site' \in {site} \cup Recreated
  /\ UNCHANGED <<remote, registered, lapse, deploys>>

(* After a wait, docker compose up -d, whose result is not looked at; then *)
(* the health of the site, and its password (which can only warn).         *)
Settle ==
  /\ At("settle")
  /\ Go("health") \/ Fail
  /\ site' \in {site} \cup Recreated
  /\ UNCHANGED <<remote, registered, lapse, deploys>>

(* git, node and composer of a new container; failures only warn.          *)
InstallTools ==
  /\ At("tools")
  /\ \/ Go("clone") /\ site' \in {site, [site EXCEPT !.node = TRUE]}
     \/ Fail /\ UNCHANGED site
  /\ UNCHANGED <<remote, registered, lapse, deploys>>

(* The theme after its script: pulled, or cloned anew when it is no        *)
(* repository.  The script ends in echo: git may fail without an error.    *)
ClonedTheme ==
  IF site.repo = "ok" THEN {site, [site EXCEPT !.src = remote.theme]}
  ELSE {Removed, [Removed EXCEPT !.repo = "ok", !.src = remote.theme]}

(* The library after its script.  Without the theme its clone creates the  *)
(* directory, which is no repository then.                                 *)
WithLibrary(s) ==
  {s, [s EXCEPT !.lib = remote.lib, !.repo = IF s.repo = "ok" THEN "ok" ELSE "broken"]}

Clone ==
  /\ At("clone")
  /\ \/ Go("packages") /\ site' \in UNION {WithLibrary(s) : s \in ClonedTheme}
     \/ Fail /\ site' \in ClonedTheme
  /\ Lapsed(Packages)
  /\ UNCHANGED <<remote, registered, deploys>>

(* composer install, and npm install with build unless it is skipped:      *)
(* always, and an error when they fail.                                    *)
InstallPackages ==
  /\ At("packages")
  /\ LET done == IF cmd.react THEN Packages ELSE {"vendor"}
         installed == [site EXCEPT !.vendor = Lock(site.src),
                         !.modules = IF cmd.react THEN Lock(site.src) ELSE @,
                         !.dist = IF cmd.react THEN site.src ELSE @]
     IN \/ /\ site.repo = "ok" /\ (cmd.react => site.node)
           /\ Go(IF cmd.update THEN "health" ELSE "ok")
           /\ site' = installed /\ lapse' = lapse \ done
        \/ Fail /\ UNCHANGED <<site, lapse>>
        \/ /\ Fail /\ site.repo = "ok"
           /\ site' = [site EXCEPT !.vendor = Lock(site.src)] /\ lapse' = lapse \ {"vendor"}
  /\ UNCHANGED <<remote, registered, deploys>>

(* Mutant: the sources go back and the packages stay.                      *)
RestoredSourcesOnly(s) == s

(* The packages and the front end of the sources s.                        *)
Restored(s) == [s EXCEPT !.vendor = Lock(s.src), !.modules = Lock(s.src), !.dist = s.src]

(* git reset --hard to the commits that were recorded.                     *)
Reset ==
  [site EXCEPT !.src = IF cmd.prev # 0 THEN cmd.prev ELSE @,
               !.lib = IF cmd.prevLib # 0 THEN cmd.prevLib ELSE @]

(* Each command of the rollback is tried, and its failure only warned of.  *)
Revert ==
  /\ At("revert")
  /\ Go("err")
  /\ \/ /\ site.repo = "ok" /\ site.node
        /\ site' = Restored(Reset) /\ lapse' = {}
     \/ /\ Lapsed(Packages)
        /\ site' \in {site, Restored(site)} \cup
             (IF site.repo = "ok" THEN {Reset, [Reset EXCEPT !.vendor = Lock(Reset.src)]} ELSE {})
  /\ UNCHANGED <<remote, registered, deploys>>

(* The command is killed, or its connection lost for good.                 *)
Crash ==
  /\ cmd.pc \notin Ended
  /\ Leave("err") /\ Lapsed(Packages)
  /\ UNCHANGED <<remote, site, registered, deploys>>

Step == \/ Record \/ Inspect \/ ReadLocks \/ PullTheme \/ PullLibrary \/ Composer \/ React
        \/ StopService \/ StartService \/ Settle
        \/ Migrate \/ Configure \/ Health \/ InstallTools \/ Clone \/ InstallPackages \/ Revert

Next == \/ Push \/ Recreate \/ Step \/ Crash
        \/ StartRedeploy
        \/ \E update \in BOOLEAN, react \in BOOLEAN : Start(update, react)

Spec == Init /\ [][Next]_vars

-----------------------------------------------------------------------------

(* Between commands the packages are those of the sources in place, or are *)
(* not there: however updates, rollbacks and new containers alternate,     *)
(* "changed with this pull" is enough to keep them together.  Of packages  *)
(* whose last installation failed (composer install, which only warns:     *)
(* what this pull brought is then never installed), was skipped with       *)
(* --skip-react or for an unreadable lock file, or was cut, it says        *)
(* nothing, until one succeeds.                                            *)
DepsFollowSources ==
  cmd.pc \in Ended /\ site.repo = "ok" =>
    \A p \in Packages \ lapse : site[p] \in {0, Lock(site.src)}

=============================================================================
