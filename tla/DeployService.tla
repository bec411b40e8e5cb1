--------------------------- MODULE DeployService ---------------------------
(***************************************************************************)
(* commands/deploy_service for one site of template Rust: the deploy       *)
(* command, phase by phase, with its rollback; the worker of Coolify that  *)
(* rewrites docker-compose.yml behind it; the autoheal timer the deploy    *)
(* installs on the host; and the host, where containers exit, images are   *)
(* pruned and somebody edits the compose in Coolify's UI.                  *)
(***************************************************************************)
EXTENDS ComposeStack

CONSTANTS
    Kinds,                  \* how deploys get their image, see Job
    FirstCreds,             \* credentials the site may have been created with
    MaxBackups,             \* compose backups kept per site (5 in the code)
    MaxEdits,               \* bound: edits of the compose in Coolify's UI
    RegenerateAt,           \* phases in which the worker may rewrite the file
    EditAt,                 \* phases in which the UI edit may happen
    PruneAt                 \* phases in which the host may prune images

\* The phases of the command, in order; the last three are the rollback's.
BeforeSwap == {"safety", "sync", "backup", "patch", "persisted", "prepare",
               "waiting", "database", "binds", "envs", "image", "building",
               "retrying", "pin", "available", "reapply", "swap"}
AfterSwap  == {"verify", "health", "recover", "install", "wrapup"}
Rollback   == {"restore", "settle", "retry"}
Phases     == {"idle"} \union BeforeSwap \union AfterSwap \union Rollback

ASSUME DeployAssumption ==
    /\ Kinds \subseteq {"build", "nobuild", "registry", "local"}
    /\ FirstCreds \subseteq Creds
    /\ MaxBackups \in Nat \ {0}
    /\ MaxEdits \in Nat
    /\ RegenerateAt \subseteq Phases \union {"healing"}
    /\ EditAt \subseteq Phases
    /\ PruneAt \subseteq Phases
    /\ NoCompose \notin Composes
    /\ NoContainer \notin Containers

\* kind: "build" builds on the VPS, "nobuild" is --skip-build, "registry" and
\* "local" are an imageRef to pull or a cm-local one loaded beforehand.
Jobs == [ver : Versions, kind : Kinds, skipSync : BOOLEAN]
ByImage(j) == j.kind \in {"registry", "local"}

\* Who waits in wait_for_health: the deploy or an attempt of the rollback.
Waiters == {"deploy", "recreate", "rebuild", "api"}

VARIABLES
    phase, job, deploys,    \* the command that runs, and how many have started
    desired,                \* the compose that sync_compose_rust will PATCH
    waiter, recovered,      \* wait_for_health: its caller, and whether it has
                            \* recreated the container already
    raw, parsed, pending,   \* Coolify: docker_compose_raw, the state its worker
                            \* materialises, and whether the worker has work
    queued,                 \* a start or a deploy asked of Coolify is to be run
    disk,                   \* docker-compose.yml in the service directory
    present, appContent,    \* tags in the host's image store; program of AppTag
    registry,               \* tags pushed to the registry
    builds, log,            \* how many builds of a version run on the host, and
                            \* what /tmp/cm-build-<uuid>.log says of their end
    crossed,                \* history: a build of another deploy has ended
                            \* since this one started
    container,              \* the running container of service app
    backups,                \* compose-backups/{site}, oldest first
    installed, healing,     \* the autoheal timer: enabled; past its checks
    edits,                  \* edits in the UI so far
    dbCreds,                \* the user and database that the Postgres has
    overwritten             \* ghost: the compose that its PATCH replaced

run     == <<job, deploys>>
wait    == <<waiter, recovered>>
coolify == <<raw, parsed, pending, queued>>
compile == <<builds, log, crossed>>
images  == <<present, appContent, registry, compile>>
timer   == <<installed, healing>>
host    == <<dbCreds, edits>>
vars    == <<phase, run, desired, wait, coolify, disk, images,
             container, backups, timer, host, overwritten>>

\* A site that runs, or a stack just created that has never been started.
Init ==
    /\ phase = "idle" /\ deploys = 0
    /\ job \in [ver : {0}, kind : Kinds, skipSync : {FALSE}]
    /\ waiter = "deploy" /\ recovered = FALSE
    /\ dbCreds \in FirstCreds
    /\ raw = [tag |-> AppTag, fixes |-> {}, creds |-> dbCreds]
    /\ parsed = raw /\ desired = raw /\ overwritten = raw
    /\ pending = FALSE /\ queued = FALSE
    /\ registry = {} /\ appContent = 0
    /\ builds = [v \in Versions |-> 0] /\ log = "none" /\ crossed = FALSE
    /\ \/ /\ disk = Fixed(raw, Fixes)
          /\ present = {AppTag}
          /\ container = Created(disk, appContent)
       \/ /\ disk = NoCompose
          /\ present = {}
          /\ container = NoContainer
    /\ backups = << >>
    /\ installed = FALSE /\ healing = FALSE /\ edits = 0

-----------------------------------------------------------------------------
(* The command, up to the swap.                                            *)

\* The command returns here, with Ok or with the Err of some `?`.
End == phase' = "idle"

\* Any ssh, API or Docker call that answers an error, any deadline that
\* passes and the death of the process, where the step has changed nothing.
Fail ==
    /\ phase # "idle"
    /\ End
    /\ UNCHANGED <<run, desired, wait, coolify, disk, images, container,
                   backups, timer, host, overwritten>>

\* The command line: where the image comes from and whether to sync.  A laptop
\* build or a push to the registry, if there is one, has happened before.
Start ==
    /\ phase = "idle" /\ deploys < MaxDeploys
    /\ deploys' = deploys + 1
    /\ \E k \in Kinds, skip \in BOOLEAN :
          /\ job' = [ver |-> deploys', kind |-> k, skipSync |-> skip]
          /\ registry' = registry \union
                             IF k = "registry" THEN {deploys'} ELSE {}
          /\ \/ present' = present
             \/ k = "local" /\ present' = present \union {deploys'}
    /\ phase' = "safety"
    /\ waiter' = "deploy" /\ recovered' = FALSE /\ crossed' = FALSE
    /\ UNCHANGED <<desired, coolify, disk, appContent, builds, log, container,
                   backups, timer, host, overwritten>>

\* pre_deploy_safety_check and the backup of the site's data only read the
\* stack; their errors are Fail.
Safety ==
    /\ phase = "safety"
    /\ phase' = IF job.skipSync THEN "prepare" ELSE "sync"
    /\ UNCHANGED <<run, desired, wait, coolify, disk, images, container,
                   backups, timer, host, overwritten>>

Patch(c) == raw' = c /\ pending' = TRUE

\* sync_compose_rust: the first GET and the rewrite, which needs the keys of
\* the build block.
SyncRead ==
    /\ phase = "sync" /\ ~ByImage(job)
    /\ raw.tag = AppTag
    /\ desired' = Fixed(raw, {"label"})
    /\ phase' = "backup"
    /\ UNCHANGED <<run, wait, coolify, disk, images, container, backups,
                   timer, host, overwritten>>

\* Mutant of the next definition: every backup is kept.
Kept(s) == IF Len(s) > MaxBackups THEN Tail(s) ELSE s

\* Mutant of the next definition: read_latest takes the first name.
Oldest == backups[1]
Latest == backups[Len(backups)]

\* Mutant of the next definition: the backup is taken of the rewritten text.
BackUpDesired == backups' = Kept(Append(backups, desired))
BackUpRaw == backups' = Kept(Append(backups, raw))

\* The second GET, its backup on the operator's machine and the validations.
SyncBackup ==
    /\ phase = "backup"
    /\ BackUpRaw
    /\ phase' = "patch"
    /\ UNCHANGED <<run, desired, wait, coolify, disk, images, container,
                   timer, host, overwritten>>

SyncPatch ==
    /\ phase = "patch"
    /\ Patch(desired) /\ overwritten' = raw
    /\ phase' = "prepare"
    /\ UNCHANGED <<run, desired, wait, parsed, queued, disk, images,
                   container, backups, timer, host>>

\* sync_compose_image renders the template, whose credentials are its own,
\* and makes no backup of what it overwrites.
SyncImage ==
    /\ phase = "sync" /\ ByImage(job)
    /\ Patch([tag |-> job.ver, fixes |-> {"label"}, creds |-> "template"])
    /\ overwritten' = raw
    /\ phase' = "persisted"
    /\ UNCHANGED <<run, desired, wait, parsed, queued, disk, images,
                   container, backups, timer, host>>

\* The GET after the PATCH finds the image in the compose.
SyncPersisted ==
    /\ phase = "persisted"
    /\ raw.tag = job.ver
    /\ phase' = "prepare"
    /\ UNCHANGED <<run, desired, wait, coolify, disk, images, container,
                   backups, timer, host, overwritten>>

\* The first deploy asks Coolify to start the stack, which writes the file.
Prepare ==
    /\ phase = "prepare"
    /\ IF disk = NoCompose /\ ~job.skipSync
         THEN queued' = TRUE /\ phase' = "waiting"
         ELSE queued' = queued /\ phase' = "database"
    /\ UNCHANGED <<run, desired, wait, raw, parsed, pending, disk,
                   images, container, backups, timer, host, overwritten>>

\* The file appears, or 30 s pass: the loop ends either way.
Waited ==
    /\ phase = "waiting"
    /\ phase' = "database"
    /\ UNCHANGED <<run, desired, wait, coolify, disk, images, container,
                   backups, timer, host, overwritten>>

\* Mutant of the next definition: no E20.
DatabaseUnchecked == disk # NoCompose

\* verify_postgres, then E20: the database the file names must exist.
DatabaseExists == disk # NoCompose /\ disk.creds = dbCreds

Step(from, to) == phase = from /\ phase' = to

Database ==
    /\ Step("database", "binds")
    /\ DatabaseExists
    /\ disk' = Fixed(disk, {"pg"})
    /\ UNCHANGED <<run, desired, wait, coolify, images, container,
                   backups, timer, host, overwritten>>

Binds ==
    /\ Step("binds", "envs")
    /\ disk' = Fixed(disk, {"uploads"})
    /\ UNCHANGED <<run, desired, wait, coolify, images, container,
                   backups, timer, host, overwritten>>

Envs ==
    /\ Step("envs", "image")
    /\ disk' = Fixed(disk, {"envs"})
    /\ UNCHANGED <<run, desired, wait, coolify, images, container,
                   backups, timer, host, overwritten>>

\* docker compose build runs under nohup: nothing that befalls the command,
\* its deadline included, ends it.  Its end goes to a log that the deploys of a
\* site share and a new build empties.  It builds nothing for a compose whose
\* service has an image and no build block.
Launched ==
    IF disk.tag = AppTag
      THEN builds' = [builds EXCEPT ![job.ver] = @ + 1] /\ log' = "none"
      ELSE builds' = builds /\ log' = "ok"

\* An answer that is lost on the way leaves a build that nobody waits for.
Build ==
    /\ phase = "image" /\ job.kind = "build"
    /\ Launched
    /\ phase' = "building" \/ End
    /\ UNCHANGED <<run, desired, wait, coolify, disk, present, appContent,
                   registry, crossed, container, backups, timer, host, overwritten>>

\* The log is asked for; once it says that a build went well it is removed.
BuildDone ==
    /\ phase \in {"building", "retrying"} /\ phase' = "available"
    /\ log = "ok" /\ log' = "none"
    /\ UNCHANGED <<run, desired, wait, coolify, disk, present, appContent,
                   registry, builds, crossed, container, backups, timer, host,
                   overwritten>>

\* A build that failed, or whose log cannot be read, is tried once more, with
\* the cache; that one then is Fail.
BuildRetry ==
    /\ phase = "building" /\ log # "none"
    /\ Launched
    /\ phase' = "retrying" \/ End
    /\ UNCHANGED <<run, desired, wait, coolify, disk, present, appContent,
                   registry, crossed, container, backups, timer, host, overwritten>>

SkipBuild ==
    /\ Step("image", "available") /\ job.kind = "nobuild"
    /\ UNCHANGED <<run, desired, wait, coolify, disk, images, container,
                   backups, timer, host, overwritten>>

\* docker compose pull asks for the image that the file names at that moment;
\* a service with a build block has nothing to pull.
Pull ==
    /\ Step("image", "pin") /\ job.kind = "registry"
    /\ disk.tag \in registry \union {AppTag}
    /\ present' = present \union ({disk.tag} \ {AppTag})
    /\ UNCHANGED <<run, desired, wait, coolify, disk, appContent, registry,
                   compile, container, backups, timer, host, overwritten>>

\* A cm-local image is never pulled, only looked for.
Inspect ==
    /\ Step("image", "pin") /\ job.kind = "local"
    /\ job.ver \in present
    /\ UNCHANGED <<run, desired, wait, coolify, disk, images, container,
                   backups, timer, host, overwritten>>

\* ensure_compose_image_ref writes the file first and checks the image after.
Pin ==
    /\ phase = "pin"
    /\ disk' = Pinned(disk, job.ver)
    /\ IF job.ver \in present
         THEN phase' = "available"
         ELSE End
    /\ UNCHANGED <<run, desired, wait, coolify, images, container,
                   backups, timer, host, overwritten>>

Available ==
    /\ Step("available", "reapply")
    /\ disk.tag \in present
    /\ UNCHANGED <<run, desired, wait, coolify, disk, images, container,
                   backups, timer, host, overwritten>>

\* Mutant of the next definition: the image is not pinned again.
RepairedText == disk
Repaired == IF ByImage(job) THEN Pinned(disk, job.ver) ELSE disk

\* The label of Traefik's network, which a sed adds when grep misses it.
Labelled(c) == Fixed(c, {"label"})

\* reaplicar_fixes_post_build: hostname and E20, image, bind, variables, label.
Reapply ==
    /\ Step("reapply", "swap")
    /\ DatabaseExists
    /\ ByImage(job) => job.ver \in present
    /\ disk' = Labelled(Fixed(Repaired, {"pg", "uploads", "envs"}))
    /\ UNCHANGED <<run, desired, wait, coolify, images, container,
                   backups, timer, host, overwritten>>

\* One of its calls fails after others have edited the file, before or after
\* the image was pinned.
ReapplyErr ==
    /\ phase = "reapply"
    /\ DatabaseExists
    /\ \/ disk' = Fixed(disk, {"pg"})
       \/ \E done \in {{"pg"}, {"pg", "uploads"}, {"pg", "uploads", "envs"}} :
             disk' = Fixed(Repaired, done)
    /\ End
    /\ UNCHANGED <<run, desired, wait, coolify, images, container,
                   backups, timer, host, overwritten>>

-----------------------------------------------------------------------------
(* The swap and what follows it.                                           *)

\* Mutant of the next definition: restart in place of force-recreate.
RestartOnly == disk.tag \in present /\ container' = IF container = NoContainer
                   THEN Created(disk, appContent) ELSE container

\* docker compose up -d --no-build --force-recreate, with the file as it is.
Recreate == /\ disk.tag \in present
            /\ container' = Created(disk, appContent)

Swap ==
    /\ Step("swap", "verify")
    /\ Recreate
    /\ UNCHANGED <<run, desired, wait, coolify, disk, images, backups,
                   timer, host, overwritten>>

\* --force-recreate removes the container and then cannot create the other.
SwapErr ==
    /\ phase = "swap"
    /\ container' = NoContainer
    /\ End
    /\ UNCHANGED <<run, desired, wait, coolify, disk, images, backups,
                   timer, host, overwritten>>

\* The container that runs was created from the image asked for.
RunsImage == container # NoContainer /\ container.content = job.ver

\* Its /app/uploads is the directory of the host.
Mounted == container # NoContainer /\ "uploads" \in container.fixes

\* Image and mount; then the proxy and Coolify join the networks.
Verify ==
    /\ Step("verify", "health")
    /\ ByImage(job) => RunsImage
    /\ Mounted
    /\ UNCHANGED <<run, desired, wait, coolify, disk, images, container,
                   backups, timer, host, overwritten>>

\* The site can answer.  Whether it does, and whether its public route does,
\* is the environment's: a probe may fail although the container runs.
Answers == /\ container # NoContainer
           /\ container.creds = dbCreds

HealthOk ==
    /\ Step("health", "install") /\ waiter = "deploy"
    /\ Answers
    /\ UNCHANGED <<run, desired, wait, coolify, disk, images, container,
                   backups, timer, host, overwritten>>

\* An attempt of the rollback ends healthy: it says so and the deploy is Err.
RollbackOk ==
    /\ phase = "health" /\ waiter # "deploy"
    /\ Answers
    /\ End
    /\ UNCHANGED <<run, desired, wait, coolify, disk, images, container,
                   backups, timer, host, overwritten>>

\* What follows a wait that ends without health, or an attempt that fails.
\* The deploy rolls back unless the domain does not resolve.
GiveUp ==
    \/ /\ waiter = "deploy"
       /\ phase' = "restore" /\ waiter' = waiter
    \/ /\ waiter = "recreate"
       /\ phase' = "retry" /\ waiter' = "rebuild"
    \/ /\ waiter = "rebuild"
       /\ phase' = "retry" /\ waiter' = "api"
    \/ /\ waiter \in {"deploy", "api"}
       /\ End /\ waiter' = waiter

HealthErr ==
    /\ phase = "health"
    /\ GiveUp
    /\ UNCHANGED <<run, desired, recovered, coolify, disk, images,
                   container, backups, timer, host, overwritten>>

\* Mutant of the next definition: the recovery has no limit.
RecoverAlways == recovered' = recovered
RecoverOnce == ~recovered /\ recovered' = TRUE

\* The probe of the container's address fails, for the first time in a wait:
\* the bind is put in the file and the image looked for.
ProbeFails ==
    /\ phase = "health" /\ container # NoContainer
    /\ RecoverOnce
    /\ disk' = Fixed(disk, {"uploads"})
    /\ IF disk.tag \in present
         THEN phase' = "recover" /\ waiter' = waiter
         ELSE GiveUp
    /\ UNCHANGED <<run, desired, coolify, images, container, backups,
                   timer, host, overwritten>>

\* The recreate greps the bind first; the mount is verified after it.
Recover ==
    /\ Step("recover", "health")
    /\ "uploads" \in disk.fixes
    /\ Recreate
    /\ UNCHANGED <<run, desired, wait, coolify, disk, images, backups,
                   timer, host, overwritten>>

RecoverErr ==
    /\ phase = "recover"
    /\ container' \in {container, NoContainer}
    /\ GiveUp
    /\ UNCHANGED <<run, desired, recovered, coolify, disk, images,
                   backups, timer, host, overwritten>>

Install ==
    /\ Step("install", "wrapup")
    /\ installed' = TRUE
    /\ UNCHANGED <<run, desired, wait, coolify, disk, images, container,
                   backups, healing, host, overwritten>>

\* cm-local tags other than the one deployed and the newest of the rest.
Rotated ==
    LET loaded == {t \in present : t # AppTag /\ t \notin registry}
        others == loaded \ {job.ver}
    IN  {t \in others : \E u \in others : u > t}

\* After a laptop build its old tags are removed from the host.
Rotates == job.kind = "local" /\ present' = present \ Rotated

\* The neighbours' health and the seed change nothing here; the rotation may
\* fail without consequence.
Finish ==
    /\ phase = "wrapup"
    /\ \/ present' = present
       \/ Rotates
    /\ End
    /\ UNCHANGED <<run, desired, wait, coolify, disk, appContent, registry,
                   compile, container, backups, timer, host, overwritten>>

-----------------------------------------------------------------------------
(* The rollback.                                                           *)

\* R0: the latest compose backup goes back to Coolify.
Restore ==
    /\ Step("restore", "settle")
    /\ backups # << >>
    /\ Patch(Fixed(Latest, {"label"}))
    /\ UNCHANGED <<run, desired, wait, parsed, queued, disk, images,
                   container, backups, timer, host, overwritten>>

\* R1-R2: ten seconds for the worker, then the hostname of Postgres, whose
\* error is only printed.
Settle ==
    /\ Step("settle", "retry")
    /\ waiter' = "recreate"
    /\ \/ DatabaseExists /\ disk' = Fixed(disk, {"pg"})
       \/ disk' = disk
    /\ UNCHANGED <<run, desired, recovered, coolify, images, container,
                   backups, timer, host, overwritten>>

\* R3.
RetryRecreate ==
    /\ Step("retry", "health") /\ waiter = "recreate"
    /\ Recreate
    /\ recovered' = FALSE
    /\ UNCHANGED <<run, desired, waiter, coolify, disk, images, backups,
                   timer, host, overwritten>>

\* docker compose up builds or pulls an image that is missing; a build takes
\* the branch as it is now, which is the version of the last deploy.
Obtain(t) ==
    \/ t \in present /\ UNCHANGED <<present, appContent>>
    \/ t \notin present /\ t = AppTag
       /\ present' = present \union {t} /\ appContent' = job.ver
    \/ t \notin present /\ t \in registry
       /\ present' = present \union {t} /\ appContent' = appContent

\* R4.
RetryRebuild ==
    /\ Step("retry", "health") /\ waiter = "rebuild"
    /\ Obtain(disk.tag)
    /\ container' = Created(disk, appContent')
    /\ recovered' = FALSE
    /\ UNCHANGED <<run, desired, waiter, coolify, disk, registry, compile,
                   backups, timer, host, overwritten>>

\* R5.
RetryApi ==
    /\ Step("retry", "health") /\ waiter = "api"
    /\ queued' = TRUE
    /\ recovered' = FALSE
    /\ UNCHANGED <<run, desired, waiter, raw, parsed, pending, disk,
                   images, container, backups, timer, host, overwritten>>

RetryErr ==
    /\ phase = "retry"
    /\ container' \in IF waiter = "api" THEN {container}
                                        ELSE {container, NoContainer}
    /\ GiveUp
    /\ UNCHANGED <<run, desired, recovered, coolify, disk, images,
                   backups, timer, host, overwritten>>

Command ==
    \/ Safety \/ SyncRead \/ SyncBackup \/ SyncPatch \/ SyncImage
    \/ SyncPersisted \/ Prepare \/ Waited \/ Database \/ Binds \/ Envs
    \/ Build \/ BuildDone \/ BuildRetry \/ SkipBuild \/ Pull \/ Inspect \/ Pin \/ Available
    \/ Reapply \/ ReapplyErr \/ Swap \/ SwapErr \/ Verify
    \/ HealthOk \/ RollbackOk \/ HealthErr \/ ProbeFails \/ Recover
    \/ RecoverErr \/ Install \/ Finish
    \/ Restore \/ Settle \/ RetryRecreate \/ RetryRebuild \/ RetryApi
    \/ RetryErr \/ Fail

-----------------------------------------------------------------------------
(* Coolify, the autoheal timer and the host.                               *)

MayRegenerate == /\ phase \in RegenerateAt
                 /\ healing => "healing" \in RegenerateAt

\* A build ends, or fails, whether its deploy waits for it or not; it retags
\* AppTag.
BuildEnds(v) ==
    /\ builds[v] > 0 /\ builds' = [builds EXCEPT ![v] = @ - 1]
    /\ crossed' = (crossed \/ v # job.ver)
    /\ \/ present' = present \union {AppTag} /\ appContent' = v /\ log' = "ok"
       \/ log' = "err" /\ UNCHANGED <<present, appContent>>
    /\ UNCHANGED <<phase, run, desired, wait, coolify, disk, registry,
                   container, backups, timer, host, overwritten>>

\* The worker rewrites the file, from the compose it was given or, being
\* behind, from the one it knew before.
Regenerate ==
    /\ pending /\ MayRegenerate /\ disk # NoCompose
    /\ \/ disk' = Regenerated(parsed) /\ UNCHANGED <<parsed, pending>>
       \/ disk' = Regenerated(raw) /\ parsed' = raw /\ pending' = FALSE
    /\ UNCHANGED <<phase, run, desired, wait, raw, queued, images,
                   container, backups, timer, host, overwritten>>

\* A start or an official deploy: the compose is materialised and run.  The
\* first one creates the database.
CoolifyRuns ==
    /\ queued /\ MayRegenerate
    /\ queued' = FALSE /\ pending' = FALSE
    /\ parsed' = raw /\ disk' = Regenerated(raw)
    /\ dbCreds' = IF disk = NoCompose THEN raw.creds ELSE dbCreds
    /\ \/ Obtain(raw.tag) /\ container' = Created(disk', appContent')
       \/ UNCHANGED <<present, appContent, container>>
    /\ UNCHANGED <<phase, run, desired, wait, raw, registry, compile, backups,
                   timer, edits, overwritten>>

\* Mutant of the next definition: the script does not look for the bind.
HealableUnbound == installed /\ disk # NoCompose /\ disk.tag \in present
Healable == /\ installed /\ disk # NoCompose
            /\ "uploads" \in disk.fixes
            /\ disk.tag \in present

\* The public URL fails and the container is missing, or answers inside.
\* Mutant of the next definition: only a container that answers is healed.
HealOnlyIfAnswers == Answers
HealWanted == container = NoContainer \/ Answers

\* The script passes its checks of the bind and of the image.
HealCheck ==
    /\ Healable /\ ~healing /\ HealWanted
    /\ healing' = TRUE
    /\ UNCHANGED <<phase, run, desired, wait, coolify, disk, images,
                   container, backups, installed, host, overwritten>>

\* Its docker compose up, which needs the image to be there still.
HealRecreate ==
    /\ healing /\ healing' = FALSE
    /\ IF disk.tag \in present
         THEN container' = Created(disk, appContent)
         ELSE container' = NoContainer
    /\ UNCHANGED <<phase, run, desired, wait, coolify, disk, images,
                   backups, installed, host, overwritten>>

ContainerExits ==
    /\ container # NoContainer /\ container' = NoContainer
    /\ UNCHANGED <<phase, run, desired, wait, coolify, disk, images,
                   backups, timer, host, overwritten>>

InUse(t) == container # NoContainer /\ container.content = Program(t, appContent)

\* docker image prune -af of the host cleanup: images no container uses.
Prune ==
    /\ phase \in PruneAt
    /\ \E t \in present : ~InUse(t) /\ present' = present \ {t}
    /\ UNCHANGED <<phase, run, desired, wait, coolify, disk, appContent,
                   registry, compile, container, backups, timer, host, overwritten>>

\* Somebody changes the credentials of the compose in Coolify.
EditRaw ==
    /\ phase \in EditAt /\ edits < MaxEdits
    /\ edits' = edits + 1
    /\ \E c \in Creds \ {raw.creds} : Patch([raw EXCEPT !.creds = c])
    /\ UNCHANGED <<phase, run, desired, wait, parsed, queued, disk,
                   images, container, backups, timer, dbCreds, overwritten>>

Environment == \/ Regenerate \/ CoolifyRuns \/ HealCheck \/ HealRecreate
               \/ ContainerExits \/ Prune \/ EditRaw
               \/ \E v \in Versions : BuildEnds(v)

Next == Start \/ Command \/ Environment

\* Every call of the command answers or times out; systemd starts the timer
\* every minute.  Coolify, the host and the operator owe nothing.
Fairness == /\ WF_vars(Command)
            /\ WF_vars(HealCheck /\ container = NoContainer)
            /\ WF_vars(HealRecreate)

Spec == Init /\ [][Next]_vars /\ Fairness
-----------------------------------------------------------------------------

TypeOK ==
    /\ phase \in Phases /\ job \in Jobs /\ deploys \in 0..MaxDeploys
    /\ desired \in Composes /\ waiter \in Waiters /\ recovered \in BOOLEAN
    /\ raw \in Composes /\ parsed \in Composes
    /\ pending \in BOOLEAN /\ queued \in BOOLEAN
    /\ disk \in Composes \union {NoCompose}
    /\ present \subseteq Tags /\ registry \subseteq Tags
    /\ appContent \in Versions
    /\ builds \in [Versions -> Nat] /\ log \in {"none", "ok", "err"}
    /\ crossed \in BOOLEAN
    /\ container \in Containers \union {NoContainer}
    /\ backups \in Seq(Composes) /\ Len(backups) <= MaxBackups
    /\ installed \in BOOLEAN /\ healing \in BOOLEAN
    /\ edits \in 0..MaxEdits
    /\ dbCreds \in Creds
    /\ overwritten \in Composes

\* What the swap is about to recreate the container from: the file names the
\* image asked for, which is on the host (else --force-recreate would remove
\* the container and fail), has every repair, and its credentials are those of
\* the database that exists.  fases_nucleo.rs:111-129 checks and re-applies
\* for this, and says that it guarantees it.
SwapReady ==
    phase = "swap" =>
        /\ disk # NoCompose
        /\ disk.tag \in present
        /\ disk.fixes = Fixes
        /\ disk.creds = dbCreds
        /\ ByImage(job) => disk.tag = job.ver

\* The deploy that reports a healthy site reports it of the version it was
\* asked for and of a container that keeps its uploads on the host, although
\* between the swap and the health check the container may have exited, been
\* healed by the timer, or been recreated by the recovery of the probe.  Not
\* so while a build that an earlier deploy gave up on goes on: it retags AppTag
\* and its end is taken for that of the build that is waited for.
HealthyDeployRunsRequest ==
    [][phase = "health" /\ phase' = "install" /\ ~crossed =>
         /\ "uploads" \in container.fixes
         /\ container.content =
                IF job.kind = "nobuild" THEN appContent ELSE job.ver]_vars

\* No PATCH of the sync loses a compose: what it overwrites in Coolify is the
\* latest backup on the operator's machine (compose_backup.rs:4, "Backup del
\* compose antes de sobrescribir").
OverwrittenIsBackedUp ==
    [][(phase = "patch" /\ phase' = "prepare")
         \/ (phase = "sync" /\ phase' = "persisted")
       => backups # << >> /\ Latest = raw]_vars

\* The rollback of a deploy that synchronised the compose gives Coolify back
\* what that deploy overwrote, and neither an older compose nor its own.
RollbackUndoesTheSync ==
    [][phase = "restore" /\ phase' = "settle" /\ ~job.skipSync
         => raw' = Fixed(overwritten, {"label"})]_vars

\* The autoheal never puts to run a container without the uploads of the host
\* (rust_autoheal.rs:143 aborts), although the worker may have rewritten the
\* file since the deploy.
HealKeepsUploads ==
    [][healing /\ ~healing' /\ container' # NoContainer
         => "uploads" \in container'.fixes]_vars

\* Every deploy ends: no wait, recovery or rollback goes round for ever.
DeployEnds == phase # "idle" ~> phase = "idle"

\* While the timer can heal, a missing container does not stay missing.
AutohealRevives == []<>(container # NoContainer \/ ~Healable)
=============================================================================
