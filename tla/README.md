# TLA+ of coolify-manager-rs

coolify-manager-rs is a command-line program (also an MCP server and a GUI) that
creates, deploys, backs up, moves and deletes sites on servers managed by
Coolify. It keeps almost no state of its own. What matters lives elsewhere and
is changed by others too: the compose that Coolify stores, the copy of it that a
worker of Coolify rewrites on the host, the images and containers of the host,
a store of backup archives, the DNS, and one local file, `settings.json`. A
command is a sequence of remote calls, any of which may be the last one. The
questions asked here are therefore: what is left when a command stops between
two calls, what happens when somebody else acts between them, and what the
rollbacks, retries and retentions really give back.

All paths below are relative to the repository, which lies under `src/`; the
Rust sources are `src/src/...`.

## 1. Inventory

| Component | State it keeps or changes | Operations | Talks to |
|---|---|---|---|
| deploy_service | compose in Coolify, file in the service directory, image, container, compose backups of the operator, autoheal timer | the phases of a deploy, recovery of the probe, rollback R0-R5, install of the timer | Coolify API, ssh, volume_manager, build_laptop, health_manager |
| volume_manager | the repairs of the file: bind of the uploads, variables, hostname of Postgres | ensure, merge, verify | deploy_service, redeploy, restart_site |
| build_laptop | images, bundles and directories on the laptop, the build VPS and the target | read the commit, pack, build here or there, ship, load, sweep | deploy_service, git, docker |
| docker_host_cleanup_manager | image store of the host | prune | runs beside everything |
| health_manager | none | probes of HTTP, theme, containers | deploy, failover, health-check |
| transaction (`services/rollback.rs`) | the completed steps | run, with the rollback of each step in reverse order | only its tests use it |
| backup_manager, ssh_backup | archives by site and tier in a remote store | create, upload, check of the size, retention, list, fetch | migrate, failover, deploy |
| lightweight_runtime_manager | `/srv/hosting/<site>` of the sites without Coolify, their ports, the files of one Caddy | provision, start, stop, new domain, delete, backup, restore with safety copy | ssh_backup |
| backup-server.sh, install_backups | archives made by the server itself, their tiers and keeps | dump, rotate, tiers by date and size; install, update of the overrides | cron of the host |
| config | `settings.json`: target and stack of each site | load, add, update, remove, save | every command |
| new_site, delete_site, failover, migrate | stacks in the Coolifys, entries, DNS | see SiteLifecycle below | config, Coolify, dns_manager, backup_manager |
| dns_manager | A records of each site | switch, planned deletion, deletion by identifier | failover, delete_site, switch-dns |
| redeploy, deploy_theme, restart_site, stop_site | containers and themes of WordPress sites | install, update, migrate, roll back, restart | volume_manager, theme_manager |
| restore_pg_data | the database of a stack | snapshot, replace, import, way back | ssh, docker |
| sync_env, env_toggle, set_compose, fix_db_auth | variables, password and host of a database, from the laptop to the volume | diff, push, pull, toggle, repair | Coolify API, ssh, docker |
| db_migrate | `_sqlx_migrations` and the schema | detect, simulate, apply, register | docker |
| ssh hardening, host security | sshd and firewall of a host | change, prove by a new connection, undo | ssh |
| host maintenance and its window | packages and restarts of a host, a timer | evaluate, upgrade, restart, wait | ssh, systemd |
| other host managers | reports, one-shot installations | audit, tailscale, optimize, bootstrap | ssh |
| database comparison | a temporary container and dump | create, fill, compare, judge, drop, sweep | docker |
| ssh, files, Coolify client, Drive client, CLI, MCP, GUI | connections only | transport | all |

`PROJECT.json` lists every component with its files and says of each whether it
is modelled, partly, or not, and why.

What interacts:

- **deploy_service, Coolify's worker, the autoheal timer and the prune** share
  the compose file, the image store and the container. The worker rewrites the
  file minutes after an answer of the API; the timer recreates the container
  every minute if the public URL fails; the prune of the host removes images
  that no container uses. None of them takes a lock.
- **backups and restores** of one site share the archive store. A retention
  deletes by a list that may be old. A restore removes the directory before it
  extracts the archive.
- **new, deploy, failover, migrate, delete** share `settings.json`, read whole at
  the start and written whole at the end. Coolify accepts a deletion and makes
  it later.

- **laptop, Coolify, worker, files, app and database** each have a copy of the
  password of a Rust site; sync-env, fix-db-auth and the worker move it between
  them in no agreed order.
- **the commands for one host** (lightweight sites, comparisons, sshd, windows,
  backups of the server) share its ports, its Caddy, its `/tmp`, its apt and its
  restarts.

What is hard in it, and the properties wanted of each component:

| Component | Hard behaviour | Must hold |
|---|---|---|
| deploy_service | rewrite of the file between the repair and its use; builds that go on after their deploy; images pruned; force-recreate that removes and cannot create; recovery and rollback that each recreate | the swap finds what it needs; a healthy report is of the requested program with its uploads, unless a build of another deploy ended meanwhile; the rollback undoes the sync; every deploy ends |
| autoheal | acts during deploys and after rewrites | never runs without the uploads; brings a missing container back |
| transaction | a failing rollback in the middle of a rollback | all or nothing, up to the steps that could not be undone |
| backup_manager | interleaved upload, list and delete; partial files | a ready backup stays until enough newer ones exist |
| lightweight restore | stops with the directory gone; safety copy pruned meanwhile; rollback of the rollback | the last whole version is always in the store |
| lifecycle of a site | stops between stack, entry and DNS; queued deletions; repetition | the recorded stack exists; a served site stays served; the entry goes last; a repeated deletion completes |
| restore_pg_data | the application stopped and the database dropped when a step fails; the way back; repetition | the site's data is in the database or in a snapshot; a bad tarball costs nothing; the application is started again |
| build_laptop | two builds share directories and an image file; the branch moves; a timeout that does not kill | a tag names the commit its image has |
| themes | an update fails halfway and goes back; skipped installations | packages and front end belong to the sources in place, but those whose installation failed, was skipped or was cut |
| sync_env, fix_db_auth | the worker renders whatever Coolify has by then, against a volume that keeps its password | only Coolify itself, or a push that names `DB_PASSWORD`, parts app and database; an Ok repair leaves the app the password of the database |
| database comparison | the site writes meanwhile; another comparison sweeps the host; cut commands | VERDE is said only against a pinned reference that has the tables of the site, and of a table with rows on both sides only if it had those rows; it leaves nothing on the host but what could not be removed or was not known of |
| db_migrate | sent and not registered; two at once | no gaps; sent again only in doubt |
| backup-server.sh | partial dumps, tiers by size, crossed rotations | unless rotations cross, an archive goes only when as many newer ones as the least keep stay; a source with a whole one has a whole one until then |
| lightweight sites | ports given out by who listens; scripts that stop halfway; a shared Caddy | a domain shows its own site; Ok, of a script that was heard to its end, means served |
| sshd and firewall | files that wait for the next start; a connection that proves nothing of the next | the host is not shut; undone is as before |
| maintenance window | the look comes minutes before the restart; the decision before the upgrade | work that was seen is not cut; a pending restart is made |
| uploads | files written between the merge and the swap stay in the old volume (`uploads.rs:142`) | not modelled |

## 2. Modules

### DeployService (over ComposeStack)

`ComposeStack` holds the data of one Rust stack. The same compose text exists in
Coolify (`raw`), in the state its worker materialises (`parsed`), and in the
service directory (`disk`). A compose is the record of what the properties tell
apart: the tag of the image of service `app`, the set of repairs the manager has
made to the text (`pg`, `uploads`, `envs`, `label`) and the database credentials.
`Regenerated` is what the worker writes: the label survives, the other repairs
do not.

`DeployService` is `commands/deploy_service` for one site, phase by phase.

| Code | Model |
|---|---|
| `mod.rs` (order of the phases) | `phase`: `safety … swap` up to `docker compose up --force-recreate`, `verify, health, recover, install, wrapup` after it, `restore, settle, retry` for the rollback |
| `fases_inicio.rs`, `compose_sync/`, `compose_backup.rs` | `Safety`, `SyncRead`, `SyncBackup`, `SyncPatch` (build kinds), `SyncImage`, `SyncPersisted` (image kinds), `Prepare`, `Waited`, `Database`, `Binds`, `Envs` |
| `fases_nucleo.rs` | `Build` (the launch), `BuildDone`, `BuildRetry`, `SkipBuild`, `Pull`, `Inspect`, `Pin`, `Available`, `Reapply`, `ReapplyErr`, `Swap`, `SwapErr`, `Verify` |
| `host_preflight.rs` (`wait_for_health`) | `HealthOk`, `HealthErr`, `ProbeFails`, `Recover`, `RecoverErr` |
| `rollback.rs` | `Restore` (R0), `Settle` (R1-R2), `RetryRecreate` (R3), `RetryRebuild` (R4), `RetryApi` (R5), `RetryErr`, `RollbackOk` |
| `rust_autoheal.rs` | `Install`, `HealCheck`, `HealRecreate` (the checks of the script and its `docker compose up` are two steps) |
| Coolify (external) | `Regenerate`, `CoolifyRuns`, `EditRaw` |
| the host | `ContainerExits`, `Prune`; `BuildEnds`: a build that runs under `nohup` ends, with or without an image |
| every `?` and the end of the process | `Fail` and the `…Err` actions |

A build is launched and then asked for. It runs on the host (`builds`) whatever
becomes of the deploy that launched it: one that gives up after its timeout or
five lost polls leaves it running, and when it ends, it retags
`<uuid>-app:latest` and writes to the one `log` of the site, in which a later
deploy may take that end for the end of its own build. `crossed` remembers that
the build of another deploy has ended since this one started.

A `kind` of deploy says where the image comes from: `build` on the VPS, `nobuild`
(`--skip-build`), `registry` (an imageRef that is pulled), `local` (a cm-local
image loaded before). When the others may act is a parameter: `RegenerateAt`,
`EditAt` and `PruneAt` are the sets of phases in which the worker may rewrite the
file, the UI may edit the compose, and the host may prune. This makes explicit
which races a property survives: `MCDeployService` names the sets the runs use,
and the theorems name the weakest set they need.

### Transaction and TransactionSpec

`Transaction` is `Transaction::run` turn by turn: a step may answer an error
having done nothing or something, and its rollback may answer an error.
`TransactionSpec` is what the header of the file promises: a transaction is seen
by its caller as one step that commits all, or aborts with nothing left if the
steps fail cleanly and can be undone. `ImplementsSpec` is the refinement, checked
by TLC and proved.

### SiteBackups

Commands (`Procs`) that back up or restore at the same time over one store of
archives with a retention by tier.

| Code | Model |
|---|---|
| `create_site_backup`, `create_lightweight_site_backup` | `BeginBackup`, `Capture` |
| `upload_backup_archive`, `upload_from_vps1` | `Send` (the file is listed from its first byte), `Accepted`, `Rejected` |
| `prune_retention` | `List` (a snapshot of names), `Delete` one by one, `Deleted` |
| `restore_lightweight_site_backup` | `BeginRestore` (with its safety copy, a backup of tier manual), `Fetch` |
| the script of the restore | `Wipe`, `Extract`, `StartOk`, `ScriptErr` (`Undoes`: one restore of the safety copy) |
| lost connection, killed process | `Stops`; a command stands here for the process and the script it left on the host, which may go on (then the steps above follow) or not |
| the users of the site | `Change` |

### SiteLifecycle

`settings.json`, the stacks of the Coolifys with their queue of deletions, the
hosts (`up`), the DNS, and the commands that change them.

| Code | Model |
|---|---|
| `new_site` | `BeginNew`, `Create`, `Save`, `Install` |
| `deploy_service` (as a writer of the file) | `BeginDeploy`, `DeployOk`, `DeployErr`, `Persist` |
| `failover`, `migrate_site`, `migration_manager` | `BeginMove`, `Provision`, `RestoreOk`, `RestoreErr`, `Record`, `Switch` |
| `switch_dns`, `setup-site-dns` | `BeginSwitch`, `Switch` |
| `delete_site` | `BeginDelete`, `Down`, `DeleteStack`, `VerifyGone`, `VerifyOthers`, `ReadDns`, `DeleteDns`, `DnsErr`, `Remove` |
| `delete-dns` | `BeginDeleteDns`, then the steps above |
| `Settings::load` and `save` | `cmd[p].mem`, the file as the command read it, and `Written` |
| Coolify's worker | `CoolifyDeletes` |
| errors | `Refused` (a check that says no), `Stops` (a call that fails, the end of the process) |

### RestorePgData

One site's database, the snapshot files on its host and its app, under repeated
runs of `restore-pg-data`.

| Code | Model |
|---|---|
| `execute` | `Begin` and the order of the phases |
| `fase_snapshot` | `Snapshot`: `Dump`, `NoDump` (a failing `pg_dump` writes a marker), `NoFile` (skipped, or the file is not written) |
| `fase_preparar_backup`, `fase_convertir_sql` | `Convert`, `ConvertErr` |
| `fase_parar_app` | `StopApp`, which may leave the app up |
| `fase_restaurar` | `Copy`, `Recreate`, `Import`, `Verify` and their `…Err` |
| `restore_safety_snapshot` | `Undo` |
| `fase_finalizar` | `StartOk`, `StartErr` |
| a lost connection in any call | `Lost`, with what the call may have done |
| the users; the autoheal timer, somebody by hand | `Change`; `AppStarts` |

`SameMachine` says whether the program runs on the host itself. Only there does
the way back find the file that it imports.

### BuildLaptop

`commands/build_laptop` for one site: the laptop (its image and files), the build
VPS (its directory, layer cache and images) and the target, under two commands.

| Code | Model |
|---|---|
| `mod.rs`, `contexto.rs` | `Resolve` (the commit that names the tag), `Pack`, `PackFramework`, `Preflight`, `FetchDockerfile` |
| `mod.rs`, `pipeline.rs`, on the laptop | `BuildHere`, `SaveHere`; `LateBuild` is the build that a timeout left running there |
| `builder.rs`, on the VPS | `PrepareSite`, `BuildThere`, `SaveThere`, `Measure`; `CacheKey` says what a cached layer stands for; `LateBuildThere` and `LateSave` are builds and saves (`saving`) that were given up and go on |
| the transfer | `Authorize`, `Relay`, `Download`, `Upload`, `Load` |
| developers (external) | `Push` |

### ThemeDeploy

`deploy_theme`, `theme_manager` and `theme_migrations` for one WordPress site:
sources, library, composer and npm packages, front end and registered migrations
as the versions they belong to. `Start`, `StartRedeploy`, then `Record`,
`Inspect`, `ReadLocks`, `PullTheme`, `PullLibrary`, `Composer`, `React`,
`Migrate`, `Configure`, `Health` of an update, `InstallTools`, `Clone`,
`InstallPackages` of an installation, and `Revert`. `lapse` remembers which
packages an installation failed to install, also where composer only warns.

### SiteCredentials

The environment of a Rust site and the password of its Postgres in six places.
The name of the password is one that Coolify manages (`SERVICE_PASSWORD_POSTGRES`,
never pushed: `Blocked`) or, in the older stacks, `DB_PASSWORD`, which is not on
the list but is sent when `--only` names it (`named`). Neither is for env-toggle
(`Secret`).

| Code | Model |
|---|---|
| `sync_env.rs`, `sync_env_helpers.rs` | `Push` (which variables: `Permitted`, `Exempt`, `Differing`), `PushOne` per request, `Pull` with the quoting of `Written` and `ReadBack` |
| `env_toggle.rs`, `set_compose.rs` | `Toggle`, `SetCompose` |
| `fix_db_auth.rs` | `FixRead`, `FixTest`, `FixAlter`, `FixVerify`, `FixHost`, `FixRestart`, `FixCheck` |
| Coolify (external) | `Restart`, `Render` (which may make another password), `Recreate` |
| people, lost connections | `EditLocal`, `Crash` |

### LightSites

The lightweight sites of a host. A site is a directory (`dir`: the port and the
domain in its compose and metadata), an enabled file (`caddy`), what the running
Caddy has loaded (`loaded`) and a container (`box`). Every script runs with
`set -e`, and each action that models a step has the disjuncts "done", "done in
part and ended" and "ended". A command whose connection is lost ends with Ok too
(`Ends`, `Unheard`): `execute()` takes a channel that closes without a status for
exit 0.

| Code | Model |
|---|---|
| `provision_static_site`, `allocate_http_port` | `Provision` (`FreePorts`: the answer of `ss -ltn`) |
| `build_provision_static_script` | `Files`, `Route`, `Reload`, `Up`, `Probe` |
| `control.rs` | `Start`, `Stop`, `Reconfigure`, `Rename`, `BeginDelete`, `Delete` |
| `respaldo.rs`, `build_restore_script` | `Copy`, `Restore`, `Wipe`, `Extract`, then the steps above |
| the host (external) | `HostRestart` |

`SiteBackups` has the other half of a restore: the archive, the safety copy and
the rollback. The two are not composed: they share only the directory, which
`SiteBackups` sees as a version and `LightSites` as a port and a domain.

### DbCompare and DbMigrate

`DbCompare` is `compare_manager` with `compare/`: `Start` (what is compared with
what), `Create`, `Bring`, `Restore` of the temporary database, `Count`,
`Extract` table by table on one side and then the other, `Report` with the
verdict, `Sweep` by another comparison, `Write` by the users (of either site, when
two are compared), `Kill`. What is `Cleaned` at an end may fail to go (`kept`). A
table has
a nature: `plain`, `opaque` (no comparable column) or `quoted` (a name that
needs quotes, whose query answers an error text).

`DbMigrate` is `db_migrate`: `Detect`, `Simulate`, `Apply`, `Warn`, `Fail`,
`Register`, `Stop`, by several commands. A version is a number, and the name of
its file has `Digits` digits: the table prints it without leading zeros, so that
only a version that has none in its file (`Printed`) is ever found there.

### ServerBackups

`scripts/servidor/backup-server.sh` and `install_backups`: a run (`Start`,
`Finish`) goes over the sources and for each dumps (`BeginDump`, `Dump`, `Fail`),
moves the archive to its tier (`Move`, `MoveFails`; `Resolved` and `KeepOf` say
which tier and how many) and rotates, counting (`Count`) and removing (`Rotate`)
in two steps. `Install`, `Uninstall` (each may stop or fail at any of its calls)
and `AfterRun` are install-backups. `newest` is, by directory, the newest whole
archive that was put there.

### HostAccess and HostWindow

`HostAccess` is harden-ssh and enforce-host-security: the files on disk, their
backups, what the running sshd has loaded, the key, the firewall. `Harden` and
`Enforce` do up to `k` of the steps of their script, `Prove` is the new
connection, `UndoHarden` and `UndoEnforce` what follows when it fails, `Abandon`
a lost process; people `Edit` and sshd starts again (`Restart`) at any moment.

`HostWindow` is the script that a timer of the host runs and the manager beside
it: `Fire`, `Evaluate`, `Maintain`, the lock of apt, `Upgrade`, `Say` ("the host
restarts in three seconds"), `Reboot`, and `Back`, `Plane`, `WaitTimeout` of a
manager that waits; `Checks` are those after the maintenance, which a restart that
nobody waits for skips and whose failure is an error of maintain-host only;
`WorkBegins` and `WorkEnds` are what else runs there. `Lose` is a manager that gives
up its upgrade, which goes on (`left`, `LeftStep`) with the lock of apt; `Misled`
is the next command that takes that end, in the log of the target, for its own.

### Composed for a run

`MCHost` composes `HostAccess` and `HostWindow`: a restart of the host makes sshd
load the files on disk. `MCNewCode` (`BuildLaptop`, `ThemeDeploy`), `MCDatabases`
(`DbCompare`, `DbMigrate`) and `MCSites` (`SiteCredentials`, `LightSites`) put
two components that share no state under one run: a behaviour has one of them
and the other rests, so that the state space is the sum and not the product.

### Proof modules

They extend the modules they are about and hold the inductive invariants, the
lemmas and the theorems.

| Module | About |
|---|---|
| `DeployServiceProofs`, `TransactionProofs`, `SiteBackupsProofs`, `SiteLifecycleProofs` | the module of that name |
| `DatabaseProofs` | `DbCompare`, `DbMigrate`, `RestorePgData` |
| `HostProofs` | `HostAccess`, `HostWindow`, `ServerBackups` |
| `NewCodeProofs` | `BuildLaptop`, and `ThemeDeploy` through `MCNewCode` |
| `SitesProofs` | `SiteCredentials`, and `LightSites` through `MCSites` |

Every component that shares a run has a specification of its own for the theorems
(`AccessSpec`, `WindowSpec`, `CompareSpec`, `MigrateSpec`, `Theme!Spec`,
`Light!Spec`); the composed module takes one step of one of them and leaves the
state of the other alone, or, for a restart of the host, takes a step of both.

## 3. Runs

Times are with two workers; every run finishes its whole state space.

| Run | Module | States | Time | Question |
|---|---|---|---|---|
| `deploy_build` | MCDeployService | 1.2 M | 25 s | two VPS builds (or `--skip-build`), which may outlive their deploy, with the worker, one UI edit, prunes, exits and the timer |
| `deploy_mixed` | MCDeployService | 962 k | 19 s | two deploys of any of the four kinds after one another |
| `deploy_live` | MCDeployService | 278 k | 48 s | every deploy ends; the timer brings a container back, also from a failed swap |
| `transaction` | Transaction | 409 | 1 s | six steps, any failure of steps and rollbacks; the refinement |
| `site_backups` | MCSiteBackups | 872 k | 26 s | two commands, each a backup or a restore, on a site in use |
| `lifecycle` | MCSiteLifecycle | 529 k | 132 s | two sites over two targets of one Coolify |
| `restore_pg_data` | RestorePgData | 20 k | 1 s | three runs of `restore-pg-data`, on the host itself, with every failure |
| `new_code` | MCNewCode | 3.2 M | 88 s | two build-laptop commands, or two deploys of a theme, while commits arrive |
| `sites` | MCSites | 1.2 M | 122 s | three commands for two lightweight sites, two at a time; or the credentials of a Rust site |
| `databases` | MCDatabases | 2.1 M | 57 s | a comparison in any mode; or three migrate commands, two at a time |
| `server_backups` | ServerBackups | 5.3 M | 131 s | the nightly run and install-backups, crossing |
| `host_upkeep` | MCHost | 441 k | 80 s | two hardenings; or a window, a command of the manager and other work |

All are expected to pass.

### What the properties say

- `SwapReady`: at the swap the file names an image that is on the host and is the
  one asked for, has every repair, and its credentials are those of the database
  that exists. Otherwise `--force-recreate` removes the container and cannot
  create another, or creates one that loses the uploads.
- `HealthyDeployRunsRequest`: a deploy that reports health, and since whose start
  no build of another deploy has ended (`crossed`), reports it of the version it
  was asked for, in a container with its uploads, although the
  container may have exited, been healed or been recreated since the swap.
- `OverwrittenIsBackedUp`, `RollbackUndoesTheSync`: what the PATCH overwrites is
  the latest compose backup, and the rollback gives back that one, with any
  number of older backups and with deploys that skip the sync in between.
- `HealKeepsUploads`, `AutohealRevives`, `DeployEnds`.
- `UndoesFromTheLast`, `LeavesOnlyWhatFailed`, `ImplementsSpec` of the
  transaction.
- `ReadyIsKept`: a backup reported as ready is in the store, whole, until `Keep`
  later uploads of its tier have been started. The promise is in *started*
  uploads on purpose: an interrupted upload leaves a file that the retention
  counts, so the promise in completed uploads is false (see the findings).
- `SiteRecoverable`: whenever a restore has left the directory of a site gone or
  torn, the last whole version is in the store, in a tier that is never pruned,
  unless the operator renounced the copy.
- `RollbackGivesBack`: a restore that failed and whose rollback went through
  leaves the version of before.
- `RecordedStackExists`: the stack that `settings.json` names exists, for that
  site and on that target, unless a deletion of the site was begun.
- `ServedStaysServed`: what is served where the DNS leads stays served through
  failures and stops of new, failover and migrate, and through the commands of
  other sites. `TakesDown` lists the commands that may take a site down.
- `LoneDeleteCompletes`: a repeated delete-site completes if the deletion of no
  other site is halfway.
- `OriginalSurvives`: however often `restore-pg-data` is run and wherever it
  stops, the site's own data is in the database or in a snapshot, unless a run
  went on without having copied it. `BadTarballHarmless`, `AppRestarted`.
- `TagNamesCommit`: whatever two builds of a site do to each other's files and to
  the layer cache, a tag on the target names the commit of its image (exactly for
  bundles, "not older" for a clone, see the findings).
- `DepsFollowSources`: the packages are those of the sources in place although only
  "changed with this pull" decides on installing them, through updates that fail
  and go back; but those whose installation failed, was skipped or was cut
  (`lapse`, a finding), until one succeeds.
- `OnlyCoolifyParts`: no edit, push, pull, toggle or repair, in any order with
  restarts of the stack, gives app and database different passwords; only a
  password that Coolify makes does, or a push that names `DB_PASSWORD` (`named`, a
  finding). `FixOkConnects`: a fix-db-auth that ends with Ok leaves an app that has
  the password of the database, unless Coolify works on the stack meanwhile, and
  asks the right host for it, unless this run or one before it did not change the
  host or create the app with it, which may pass for success (`cut`, a finding).
- `OkServes`: a provision or restore that no other command for its site crossed, and
  whose script was heard to its end, leaves with Ok its domain on its own container,
  although the probe asks a port that another may answer. Of the Ok after a lost
  connection (`unheard`, a finding) it says nothing.
  `OwnDomain`: a domain never shows the site of another, unless a port was given
  out that a site which did not listen has (`lent`, a finding).
- `GreenIsTrue`: VERDE is said only against a dump that was named or another site,
  with the tables of the site; and each table that had rows on both sides when it
  was counted, and whose columns psql can name, held at some moment of the
  comparison the rows of the reference (those that the other site held at some
  moment). Of a table that was empty on one side, emptied or not restored, it says
  nothing: for the code that is no difference (a finding), except in a critical
  table of the site. `NothingLeft`: neither container nor dump stays, but what was
  not removed or not known of (`kept`, a finding).
- `NoGaps` of db-migrate: a registered version has none before it that was never
  sent. `SentAgainOnlyIfUnsure`: statements are sent twice only if their version was
  not registered after them, commands overlapped, or its file has leading zeros (a
  finding).
- `RotationKeepsNewest`: an archive goes only when as many newer ones stay as the
  least keep of its source and tier, or for the next one of its name, with keeps
  and tiers that change from run to run, unless two rotations cross (`waived`).
  `WholeOneStays`: a source that had a whole archive in a tier has one until as many
  newer ones as that least keep are there, each only a part. That they may all be
  parts is a finding.
- `NotShutOut`: between commands the key or the password opens the host, unless
  there are changes on it that no connection has proved (`unproved`).
  `UndoneIsAsBefore`: "Revertido" is true.
- `CompletedMeansRestarted`: "reinicio completado" is not said of a host that still
  answers, nor does a command told to restart the host and wait succeed.
  `WindowSparesWork`: a window cuts no visible work that ran when it was evaluated.
  `PendingEnds`: a restart that the packages ask for is made some night.

The history variables named above (`crossed`, `lent`, `cut`, `named`, `unheard`,
`lapse`, `waived`, `unproved`, `kept`, `passed`, `unsure`) are set by exactly the
steps whose consequences a finding describes. Each is what the property is worth:
without it the property is false, and TLC shows how.

### Bounds, and why they are enough

- `deploy_build`: `MaxDeploys = 2`, since the interesting states of a second
  deploy are those that the first left (an old backup, an installed timer, a
  timer between its checks and its `up`). `MaxBackups = 2` (the code keeps 5):
  the oldest is dropped only if more backups are made than are kept, which two
  deploys do not do; that the retention never drops the latest is in the proof,
  for every `MaxBackups`. `MaxEdits = 1`: one edit gives Coolify credentials the
  database does not have. `FirstCreds = {"legacy"}`, the ones the image template
  does not have.
- `deploy_mixed`: the four kinds in any order of two, from both credentials,
  without edits. Every ordered pair of kinds occurs.
- `deploy_live`: two deploys, since the timer that brings a container back from a
  failed swap is one that an earlier deploy installed; a loop of the recovery or the
  rollback would lie within one.
- `transaction`: six steps. The proof covers any number.
- `site_backups`: one site (sites share nothing but the clock), two commands,
  three backups, two versions of the directory, one pruned tier that keeps one
  archive, so that each backup prunes the one before it, plus the manual tier.
- `lifecycle`: two sites and two targets (a move needs another target; the check
  of the other sites needs another site), two stacks in all, one command at a
  time that may stop anywhere, one failing call. The other ends of a command
  (`Refused`) need no failing call and are not bounded. `Overlap = FALSE` is a
  stated limit, see section 6.
- `restore_pg_data`: three runs (a third meets what two different failures left),
  two changes of the data. `SameMachine = TRUE`, as the way back then has more
  outcomes; the other value makes every way back lose its file (findings).
- `new_code`: two runs, three commits (a tag, the commit that replaces it, one
  that arrives during a build), two versions of the library, two deploys.
- `sites`: two sites, two domains, two ports and three commands by two processes for
  LightSites, beside any number of starts, stops, copies and restarts: a port that
  is given away needs two commands and a stop. Processes, sites and domains are
  interchangeable (symmetry; the run has only invariants). For SiteCredentials: the password (managed or not),
  one listed and one other variable, two edits by people or Coolify, any number of
  commands.
- `databases`: a critical table and another of two possible rows each, of which a
  table has at most one at first (`Small`; a write may bring both), one write by
  either site, one comparison after one that may have been cut, either engine (what
  was left before and MariaDB only with plain columns, on which they do not bear);
  three migrations in names of two digits, one with a leading zero (9, 10, 11), three commands.
- `server_backups`: a source whose key is found and one whose is not, keeps of two
  by default, two or three by override of either tier, one of what is heavy; three
  archives, two of which may share a minute, one installation, before the last of
  them (after it none rotates with what was installed).
- `host_upkeep`: two tasks and one edit; a boot_id that is new for two restarts, one
  command of the manager, one piece of other work.
- Where the others act: `BetweenUses` lets the worker of Coolify rewrite the file
  at any phase except from the swap to the end of the wait for health;
  `NotDuringRepair` also excludes the moment before the last repair, since a
  rewrite there may bring back the tag of a deploy of another kind, which a deploy
  without an image reference does not pin again; `NotAtPatch` and `NotAtSwap`
  exclude the instants between the backup and the PATCH, and between the look at
  the image and the swap. The excluded instants are real races: section 5 says how
  to see them.

### Fairness

- DeployService: `WF(Command)`, because every call of the program has a timeout
  and ends in an answer or an error, so that the command always takes its next
  step; `WF` of the timer's steps, because systemd starts it every minute. The
  worker, the operator and the host owe nothing.
- Transaction: `WF(Next)`, one thread without waits (needed for the refinement).
- RestorePgData: `WF(Command)`, for the same reason.
- HostWindow (`WindowFairness`): weak fairness of the steps of script and manager,
  of upgrades that nobody watches, of the end of other work and of the restart that
  was announced. `SF` of `Fire`
  and of the script's `Upgrade` say that the timer fires every night, and that some
  night the host is quiet and the upgrade works; it is strong because work, locks
  and failures come and go. A host that is never quiet is never restarted.
- SiteLifecycle: `WF(Step(p))`; `WF(CoolifyDeletes(i))`, Coolify empties its
  queue; `SF(Repeats(p, s))`, the operator whose deletion ended without success
  repeats it, as the program tells them to ("SIGUE existiendo", 4a). It is strong
  because between two repetitions other commands come and go. Failing calls are
  bounded by `MaxFaults`: a network that always fails completes nothing.

### Deadlock

All configurations say `CHECK_DEADLOCK FALSE`: the models are bounded, and a
state in which no deploy, backup or stack is left to start is a real end. That
no command gets stuck is what the liveness properties say.

## 4. Proofs

All theorems are proved by TLAPS for every value of the constants.

| Theorem | Says | Assumes |
|---|---|---|
| `DeployTypeOK` | type invariant of DeployService | |
| `DeploySwapReady` | `SwapReady` for any number of deploys of any kind | worker and prune quiet from the last look at the image to the swap |
| `DeployHealthyRunsRequest` | `HealthyDeployRunsRequest` for any number of deploys, builds that outlive them, edits and prunes, as long as no build of another deploy ends in between | no image kinds; worker quiet from the swap to the end of the wait |
| `DeployBuildsSwapReady` | `SwapReady` also when the worker rewrites the file until the last repair | no image kinds; worker quiet at the swap; prune quiet from the last look at the image to the swap |
| `DeployHealKeepsUploads` | `HealKeepsUploads` | no rewrite between the checks of the script and its `up` |
| `DeployOverwrittenIsBackedUp`, `DeployRollbackUndoesTheSync` | the two backup properties | no image kinds; no edit between backup and PATCH |
| `TransactionTypeOK`, `TransactionLeavesOnlyWhatFailed`, `TransactionUndoesFromTheLast` | the invariants of the transaction, any number of steps | |
| `TransactionImplementsSpec` | `Spec => ImplementsSpec` | |
| `BackupsTypeOK` | type invariant of SiteBackups | |
| `BackupsReadyIsKept` | `ReadyIsKept`, any sites, commands at once, tiers and keeps | |
| `BackupsSiteRecoverable`, `BackupsRollbackGivesBack` | the two properties of the restore | no two restores of one site at once |
| `LifecycleTypeOK` | type invariant of SiteLifecycle | |
| `LifecycleRecordedStackExists`, `LifecycleServedStaysServed` | the two safety properties, any sites, targets, Coolifys | one command at a time |
| `RestoreTypeOK`, `RestoreOriginalSurvives`, `RestoreBadTarballHarmless`, `RestoreAppRestarted` | the safety properties of RestorePgData, any number of runs, on the host or not | |
| `CredentialsOnlyCoolifyParts`, `CredentialsFixOkConnects` | the properties of SiteCredentials, any variables, lists and number of edits; in a stack with `DB_PASSWORD`, until a push names it; the right host, unless `cut` | only what the constants assume (`KeyAssumption`) |
| `LightOkServes`, `LightOwnDomain` | the properties of LightSites, any sites, domains, ports and scripts at once; `OkServes` of scripts that were heard to their end | ports are positive, `None` and `Bare` are no records (`LightAssumption`) |
| `ImageTagNamesCommit` | `TagNamesCommit`, any commits and commands at once | |
| `ThemeDepsFollowSources` | `DepsFollowSources`, any number of commits and deploys, but for packages whose last installation failed, was skipped or was cut | |
| `CompareGreenIsTrue`, `CompareNothingLeft` | the properties of DbCompare, any tables, natures, writes of either site and runs; nothing of tables empty on one side, nor of removals that failed | a table has finitely many rows (`CompareAssumption`) |
| `MigrateNoGaps`, `MigrateSentAgainOnlyIfUnsure` | the two properties of DbMigrate, any versions, commands at once and failures; sent again also with leading zeros | the versions fit names of one length (`MigrateAssumption`) |
| `ServerWholeOneStays`, `ServerRotationKeepsNewest` | the properties of ServerBackups, any sources, runs at once, keeps by tier and installations, where no rotations crossed; says nothing where a keep may be 0 | keeps are naturals (`KeepAssumption`) |
| `AccessNotShutOut`, `AccessUndoneIsAsBefore` | the two properties of HostAccess, any number of commands, edits and restarts of sshd | |
| `WindowCompletedMeansRestarted`, `WindowSparesSeenWork` | `CompletedMeansRestarted`, `WindowSparesWork`, any number of commands, works and restarts | |

How the arguments go:

- **DeployService.** `Inv` adds to the type that from phase `binds` on, and once
  the timer is past its checks, the file exists. `SwapInv` adds that
  at `reapply` the tag of the file is in the image store; the two lemmas
  `OneWayToSwap` and `OthersAtSwap` say that the command reaches that phase only
  through `Available`, and that nobody else disturbs it. `HealInv` carries the
  bind from the checks of the script to its `up`: each repair only adds. The
  backups need `BackupInv`: in phase `patch` the latest backup is the compose of
  Coolify, and in every later phase of a deploy that synced it is what the PATCH
  overwrote. `RunInv` is for the report of health: without image kinds every copy
  of the compose names `<uuid>-app:latest` (`OwnTags`), which holds the build of
  this deploy until its rollback, from the moment the log has its end and unless a
  build of another deploy has ended since it started (`Built`; `Building` says which
  builds there may be); from the swap on the file binds the
  uploads (`Bound`), and so whoever recreates the container, the recovery or the
  timer, makes one that has the uploads and, but for such a build, runs this one
  (`Swapped`). `BuildSwapInv`
  is `SwapInv` for those deploys: as every copy names that one tag, a rewrite
  before the last repair cannot lose the pin, and the file has to be right only
  from `swap` on.
- **Transaction.** `IInv` says that while reverting, the steps up to `i` are all
  in effect, and that above `i` only those are whose rollback failed, or the failing
  step.
- **SiteBackups.** Three layers: `Inv` (what a command knows at each step),
  `IdInv` (uploads in progress have different identifiers and the file of a
  safety copy stays in the store while its size is looked at), and `RecInv`,
  where `RestoreOK` says at each step of a restore why a wipe is harmless.
  `KeptInv` is for `ReadyIsKept`: what a command has counted in the listing of a
  tier stays true while it deletes, because uploads have different seconds
  (`ListOK`, `StoreOK`), and a name is deleted only with `Keep` newer ones of its
  tier begun, by counting an injection of archives into uploads. `BackInv` says of
  the second script that its target is the safety copy, which nothing prunes.
- **SiteLifecycle.** `Inv` has, beside the type, that at most one command is at
  work (`Alone`), that until it writes, what it read is what the file says
  (`CommandOK`; false as soon as commands overlap), and `EntryOK`: an entry never
  names the stack of another site nor one whose deletion is queued, unless the
  site is being deleted. `MovesInv` adds which commands reach which phase (`KindOK`)
  and that the copy of a failover or migrate is up where it leads before the DNS
  changes, and on no queue (`MoveOK`): every other step leaves what is served alone.

- **RestorePgData.** `CopiedFirst`: past the snapshot phase the site's data has
  been copied, or that it was not is on record; only phases past it replace the
  database, and no phase removes a snapshot. `BeforeStop`: until the conversion is
  done the app runs, and a bad tarball never gets past it.
- **SiteCredentials.** `OnePassword`: until Coolify makes another password, its
  own, that of the file on disk, of the app and of the volume are one, and a
  repair under way has the same; `NotPushed`: no push has the password among
  what is still to send, because it is in no list of keys to sync, and is blocked or
  was not named (`Spared`). `RepairInv` adds
  that outside of Coolify's work the app has what the files have
  (`AppFollowsFiles`), and what each step of a repair that Coolify left alone has
  made sure of (`RepairKnows`).
- **LightSites.** `OwnPorts`: until a port is lent, no port belongs to two sites,
  where belonging counts the directory, the routes, what Caddy has loaded, the
  container and the commands under way. `Done` is what a script that nobody crosses
  has done at each step, and `AloneOnSite` why no other undoes it.
- **BuildLaptop.** `Honest` and `Fits`: whatever a file or an image says it is, it
  holds a commit that fits its name, or is partial and does not load; each copy, on
  laptop, builder, relay and target, is such a file (`LaptopOK`, `BuilderOK`,
  `TargetOK`), and a layer of the cache stands for what was unpacked when it was
  made. A build that was given up still holds a commit that fits the tag it ends in,
  and a save that goes on writes the image of its own tag (`BuilderFine`).
- **ThemeDeploy.** Between commands the packages are those of the sources
  (`Follows`); while the sources may be ahead of them, the sum read before the pull
  is that of the packages in place (`Compared`), so that "changed" is the truth.
- **HostAccess.** `Proved` is why no one is shut out: without a change that waits
  for a proof the files open the host, now and when sshd starts again, and a host
  that the key does not open has no override of a hardening and no backup of one.
  `HardenCanUndo` and `EnforceCanUndo` say that while the new connection is tried
  the backups are those of this command; a backup of cloud-init's file from an
  earlier attempt survives only where that file is missing, which is the exception
  that `UndoneIsAsBefore` makes. Every step of `MCHost` is one of `AccessSpec`, a
  restart of the host included, or leaves this state alone.
- **DbMigrate.** `JobOK`: what is before a pending version and not pending itself is
  past, also while another command registers; `InOrder` is `NoGaps` with the version
  itself, so that a registration keeps it. `Accounted` and `Alone`: what was sent is
  in the table or on record as unsure, unless commands overlapped. Where names have
  leading zeros a version is always pending, and says nothing of what is registered.
  The first of a set of versions exists because `<` on the naturals is well-founded,
  cited from the library.
- **DbCompare.** `was` and `wasOther` have, for each table of the two sites, what it
  held since the comparison began (`Seen`). `RefOK`: a restored dump is the dump but
  for tables that are empty. `ReadOK`: every shared table is still to be read, half
  read or read, and each count and difference was true of some moment (`Counted`,
  `SameOnce`); VERDE with all of them the same is then `GreenIsTrue`. `HostOK` says
  in each phase what the comparison may have on the host, beside what it failed to
  remove.
- **ServerBackups.** A rotation removes at most as many as it counted too many, of
  the oldest: at least `Least` newer ones stay (`OldestAreFew`, a counting lemma
  over modification times). `ToldApart` and `MovedIsNew` say that times and names
  tell archives apart, `RunKnows` that the run's count is of its directory and its
  keep. `NewestIsThere`: if a whole archive is left, the newest whole one that ever
  came is. When it goes, as many newer ones stay, and all of them are parts.
- **HostWindow.** `WaitsForRestart`: a wait began with the boot_id read before the
  restart was said, and only a restart ends it. `SeenWorkBlocks`: while work goes on
  that was there when the window was evaluated, nothing on the way to a restart is
  unasked.

Every invariant and every action property that a run checks is the subject of a
theorem. Only model-checked is what stands under fairness: `DeployEnds`,
`AutohealRevives`, `LoneDeleteCompletes` and `PendingEnds` are out of the reach of
the proof system, which has neither ENABLED nor the rules of fairness.

The hypotheses of the table are those under which TLC checks the property too (the
`RegenerateAt`, `EditAt`, `PruneAt`, `Kinds` and `Overlap` of the configurations
meet them: those of `deploy_mixed` the hypothesis of `DeploySwapReady`, those of
`deploy_build` the others of DeployService). Dropping one is a finding of section
5, not a gap of the proof.

## 5. Findings

`PROJECT.json` has each with the lines it contradicts. Those a configuration shows:

| Finding | To see it |
|---|---|
| the worker rewrites the file after the last repair (`fases_nucleo.rs:129`) | `deploy_build` with `RegenerateAt <- Phases`: `SwapReady` |
| the image sync makes no compose backup | `deploy_build` with `Kinds = {"registry"}`: `OverwrittenIsBackedUp` |
| a build that outlives its deploy retags the image of the next (`fases_nucleo.rs:77`) | `deploy_build` with `HealthyDeployRunsRequest` without `crossed` |
| a healthy report of the old image | `deploy_build` with `Kinds = {"local"}`, `RegenerateAt <- Phases`: `HealthyDeployRunsRequest` |
| deletions of two sites of one Coolify block each other | `lifecycle` with `LoneDeleteCompletes` without its hypothesis on other deletions |
| two commands at once lose the entry of one | `lifecycle` under `Spec` with two `Procs`, one target, no faults and `Overlap = TRUE`: `RecordedStackExists` |
| two restores of one site at once | `site_backups` with `Overlap = TRUE`: `SiteRecoverable` |
| the way back of restore-pg-data from another machine | `restore_pg_data` with `SameMachine = FALSE`, and the invariant that a database that was whole when the way back began is not empty after it |
| ports of stopped sites are given out | `sites` with `OwnDomain` without `lent` |
| fix-db-auth after a run that was cut, or one whose own `up` or `sed` failed unseen | `sites` with `FixOkConnects` without `cut` |
| a push that names `DB_PASSWORD` | `sites` with `OnlyCoolifyParts` without `named` |
| migrations with leading zeros are sent by every run | `databases` with `SentAgainOnlyIfUnsure` without `Printed` |
| packages that are never installed | `new_code` with `DepsFollowSources` without `lapse` |
| archives lost to crossed rotations | `server_backups` with `RotationKeepsNewest` without `waived` |
| a comparison that leaves its container | `databases` with `NothingLeft` without `kept` |
| a failed hardening that waits for the next start of sshd | `host_upkeep` with `NotShutOut` without `unproved` |

Others come from reading the code while modelling it, among them: a rollback after a
build on the VPS recreates from the tag that the build overwrote; backups of stacks
cannot be restored (the archive is packed under `.staging-<id>` and looked for under
`<id>`); `upload_from_vps1` leaves a file of the wrong size, which the retention
counts; `failover` believes the stack it restores into is always empty; psql runs
without `ON_ERROR_STOP`, so that failed migrations count as applied and failed
queries as equal tables; a light site whose domain another one has stops the Caddy
of the host from taking any change; the script of the window takes a missing answer
of dpkg for a new kernel and restarts every night; an upgrade of the manager that it
gave up goes on and its end is taken for that of the next; so are the builds of the
build VPS; a table that is empty on one side does not keep a comparison from being
green; a directory of archives may come to hold only parts; a provision or restore
whose connection is lost ends with Ok (`Unheard` of LightSites keeps nothing else of
it, so that there is nothing for a configuration to show).

Remarks that are no findings: a pull before the pin pulls the image that the
file on disk names, which may be the old one (`fases_nucleo.rs:179`); the pin
puts it right. The message "{n} paso(s) revertido(s)" of the transaction counts
completed steps, also those whose rollback failed (`services/rollback.rs:83`).

Also seen, and not modelled: the option `SKIP_RESOURCE_CHECK` is never read
(`host_preflight.rs:43`); a pull of sync-env overwrites the whole `.env` of the
laptop; a comparison `--against` a site of another target ends with an error once a
shared table is read (`completo.rs:303`); a local dump `.sql.gz` is renamed to
`.sql` and sent as it is; duplicate rows are not compared.

## 6. What is left out

Within the modelled components:

- Two deploys of one site at once, and two lifecycle commands at once: nothing in
  the program prevents them. The hazards list the lines; the `Overlap` parameter
  of SiteLifecycle and SiteBackups turns them on.
- The content of compose texts, templates, reports and logs.
- The Kamples branch of the deploy (`cola_kamples_imagen`, and its images in
  build-laptop), the seed and the health of the neighbours, which change nothing of
  the site.
- The artifacts inside an archive, and a restore of a stack after the step it
  does not get through.
- Identifiers of backups are unique; in the code they are local seconds.
- The temporary Postgres and the directory of `restore-pg-data`, and the content
  of SQL: an import gives the tarball's data, a part of it, or nothing.
- One A record per site; a target given by `--target-ip` outside the settings.
- The truncation of `settings.json` while it is written.
- The users of SFTP of the lightweight sites, and other programs that listen on
  their ports.
- Which columns a comparison reads, and its row limit, which takes an arbitrary
  prefix of both sides.
- The samples of load and pressure of a window: any answer is taken.

Not modelled at all: uploads written between a merge and a swap; transport,
parsing, dispatch, the GUI, the Drive client and reports (I/O without state of
their own); import and export of a database, each one step; backup_tolerancia, a
retry whose outcome nothing reads; the host managers that report or install once
(tailscale, redis latency, control plane audit, optimization, bootstrap).
`PROJECT.json` has the reason of each.

## 7. Plan

Done: the deploy, the transaction, backups and restores, the lifecycle, and the
components of section 2. What would add most next:

1. **Uploads** (`volume_manager/uploads.rs` with its callers `deploy`, `redeploy`,
   `restart_site`, `recover`): the files of container, named volume and bind, and
   who merges before recreating.
2. **Two deploys of one site at once**, with a second copy of the phases over the
   same compose, images and timer.
3. An abstract specification of the deploy (a site that serves one version, or is
   down and said to be), which `DeployHealthyRunsRequest` and `DeploySwapReady` are
   the safety half of; and one of the archive (a set of versions that only shrinks
   by retention), which `BackupsReadyIsKept` suggests.
4. `HealthyDeployRunsRequest` for the image kinds: from the same invariant, with the
   pinned tag in the place of `OwnTags`.
