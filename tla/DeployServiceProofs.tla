------------------------- MODULE DeployServiceProofs -------------------------
(***************************************************************************)
(* What the deploy keeps for any number of deploys, backups and edits.     *)
(***************************************************************************)
EXTENDS DeployService, TLAPS

\* The phases that only a deploy that has seen docker-compose.yml reaches.
FileNeeded == {"binds", "envs", "image", "building", "retrying", "pin",
               "available", "reapply", "swap"}
                  \union AfterSwap \union Rollback

\* Nothing removes the file once it exists.
FileExists == phase \in FileNeeded \/ healing => disk # NoCompose

Inv == TypeOK /\ FileExists

-----------------------------------------------------------------------------
(* The operators of ComposeStack stay within its types.                    *)

LEMMA FixedType ==
    ASSUME NEW c \in Composes, NEW fs \in SUBSET Fixes
    PROVE  /\ Fixed(c, fs) \in Composes
           /\ Fixed(c, fs).tag = c.tag /\ Fixed(c, fs).creds = c.creds
           /\ Fixed(c, fs).fixes = c.fixes \union fs
BY DEF Fixed, Composes

LEMMA LabelledAll ==
    ASSUME NEW c \in Composes
    PROVE  Labelled(Fixed(c, {"pg", "uploads", "envs"})) = Fixed(c, Fixes)
BY DEF Labelled, Fixed, Fixes, Composes

LEMMA PinnedType ==
    ASSUME NEW c \in Composes, NEW t \in Tags
    PROVE  /\ Pinned(c, t) \in Composes
           /\ Pinned(c, t).tag = t /\ Pinned(c, t).creds = c.creds
           /\ Pinned(c, t).fixes = c.fixes
BY DEF Pinned, Composes

LEMMA RegeneratedType ==
    ASSUME NEW c \in Composes PROVE Regenerated(c) \in Composes
BY DEF Regenerated, Composes, Fixes

LEMMA CreatedType ==
    ASSUME NEW c \in Composes, NEW v \in Versions
    PROVE  /\ Created(c, v) \in Containers
           /\ Created(c, v).fixes = c.fixes
BY DEF Created, Program, Composes, Containers, Tags, Versions

LEMMA Sentinels == NoCompose \notin Composes /\ NoContainer \notin Containers
BY DeployAssumption

LEMMA AppTagTyped == AppTag \in Tags /\ AppTag \in Versions /\ Tags = Versions
BY StackAssumption DEF AppTag, Tags, Versions

-----------------------------------------------------------------------------

LEMMA InitInv == Init => Inv
<1> SUFFICES ASSUME Init PROVE Inv
  OBVIOUS
<1>1. raw \in Composes /\ dbCreds \in Creds
  BY DeployAssumption, AppTagTyped DEF Init, Composes
<1>2. job \in Jobs
  BY AppTagTyped DEF Init, Jobs, AppTag
<1>3. disk \in Composes \union {NoCompose}
      /\ container \in Containers \union {NoContainer}
  BY <1>1, FixedType, CreatedType, AppTagTyped DEF Init, AppTag
<1>4. backups \in Seq(Composes) /\ Len(backups) <= MaxBackups
  BY DeployAssumption DEF Init
<1>5. deploys \in 0..MaxDeploys /\ edits \in 0..MaxEdits
  BY DeployAssumption, StackAssumption DEF Init
<1>6. /\ present \subseteq Tags /\ registry \subseteq Tags /\ appContent \in Versions
      /\ builds \in [Versions -> Nat]
  BY AppTagTyped DEF Init, AppTag
<1>7. TypeOK
  BY <1>1, <1>2, <1>3, <1>4, <1>5, <1>6 DEF Init, TypeOK, Phases, Waiters
<1>8. FileExists
  BY DEF Init, FileExists, FileNeeded, AfterSwap, Rollback
<1> QED
  BY <1>7, <1>8 DEF Inv

\* Steps that change neither the file nor what Coolify keeps.
LEMMA ControlInv ==
    ASSUME Inv,
           \/ Fail \/ Safety \/ SyncPersisted \/ Waited \/ SkipBuild \/ Inspect
           \/ Available \/ Verify \/ HealthOk \/ RollbackOk \/ HealthErr
           \/ RetryApi \/ Install \/ HealCheck \/ RetryErr \/ SwapErr
           \/ ContainerExits \/ Finish
    PROVE  Inv'
<1> USE DEF Inv, TypeOK, FileExists, FileNeeded, BeforeSwap, AfterSwap, Rollback,
            Phases, Waiters, run, wait, coolify, images, compile, timer, host,
            Step, End, GiveUp, Healable, Rotated
<1>1. CASE Fail
  BY <1>1 DEF Fail
<1>2. CASE Safety
  BY <1>2 DEF Safety
<1>3. CASE SyncPersisted
  BY <1>3 DEF SyncPersisted
<1>4. CASE Waited
  BY <1>4 DEF Waited
<1>5. CASE SkipBuild
  BY <1>5 DEF SkipBuild
<1>6. CASE Inspect
  BY <1>6 DEF Inspect
<1>7. CASE Available
  BY <1>7 DEF Available
<1>8. CASE Verify
  BY <1>8 DEF Verify
<1>9. CASE HealthOk
  BY <1>9 DEF HealthOk
<1>10. CASE RollbackOk
  BY <1>10 DEF RollbackOk
<1>11. CASE HealthErr
  BY <1>11 DEF HealthErr
<1>12. CASE RetryApi
  BY <1>12 DEF RetryApi
<1>13. CASE Install
  BY <1>13 DEF Install
<1>14. CASE HealCheck
  BY <1>14 DEF HealCheck
<1>15. CASE RetryErr
  BY <1>15 DEF RetryErr
<1>16. CASE SwapErr
  BY <1>16 DEF SwapErr
<1>17. CASE ContainerExits
  BY <1>17 DEF ContainerExits
<1>18. CASE Finish
  BY <1>18 DEF Finish, Rotates
<1> QED
  BY <1>1, <1>2, <1>3, <1>4, <1>5, <1>6, <1>7, <1>8, <1>9, <1>10, <1>11, <1>12,
     <1>13, <1>14, <1>15, <1>16, <1>17, <1>18

\* The repairs of the file.
LEMMA FileInv ==
    ASSUME Inv,
           \/ Database \/ Binds \/ Envs \/ Pin \/ Reapply \/ ReapplyErr
           \/ ProbeFails \/ Settle
    PROVE  Inv'
<1> USE DEF Inv, TypeOK, FileExists, FileNeeded, BeforeSwap, AfterSwap, Rollback,
            Phases, Waiters, run, wait, coolify, images, compile, timer, host,
            Step, End
<1>a. \A c \in Composes, fs \in SUBSET Fixes : Fixed(c, fs) \in Composes
  BY FixedType
<1>b. \A c \in Composes, t \in Tags : Pinned(c, t) \in Composes
  BY PinnedType
<1>c. job.ver \in Tags
  BY AppTagTyped DEF Jobs
<1>d. NoCompose \notin Composes
  BY Sentinels
<1>1. CASE Database
  BY <1>1, <1>a, <1>d
  DEF Database, DatabaseExists, Fixes
<1>2. CASE Binds
  BY <1>2, <1>a, <1>d
  DEF Binds, Fixes
<1>3. CASE Envs
  BY <1>3, <1>a, <1>d
  DEF Envs, Fixes
<1>4. CASE Pin
  BY <1>4, <1>b, <1>c, <1>d
  DEF Pin
<1>5. CASE Reapply
  BY <1>5, <1>a, <1>b, <1>c, <1>d, LabelledAll
  DEF Reapply, Repaired
<1>6. CASE ReapplyErr
  BY <1>6, <1>a, <1>b, <1>c, <1>d
  DEF ReapplyErr, Repaired, Fixes
<1>7. CASE ProbeFails
  BY <1>7, <1>a, <1>d
  DEF ProbeFails, RecoverOnce, GiveUp, Fixes
<1>8. CASE Settle
  BY <1>8, <1>a, <1>d
  DEF Settle, DatabaseExists, Fixes
<1> QED
  BY <1>1, <1>2, <1>3, <1>4, <1>5, <1>6, <1>7, <1>8

\* The images of the host, and the arrival of a command.
LEMMA ImagesInv ==
    ASSUME Inv,
           \/ Start \/ Prepare \/ Build \/ BuildDone \/ BuildRetry \/ Pull \/ Prune
           \/ \E v \in Versions : BuildEnds(v)
    PROVE  Inv'
<1> USE DEF Inv, TypeOK, FileExists, FileNeeded, BeforeSwap, AfterSwap, Rollback,
            Phases, Waiters, run, wait, coolify, images, compile, timer, host,
            Step, End
<1>a. AppTag \in Tags /\ Tags = Versions /\ Versions = 0..MaxDeploys
  BY AppTagTyped DEF Versions
<1>b. MaxDeploys \in Nat
  BY StackAssumption
<1>1. CASE Start
  <2>1. deploys' \in 0..MaxDeploys /\ deploys' \in Tags
    BY <1>1, <1>a, <1>b DEF Start
  <2>2. job' \in Jobs
    BY <1>1, <1>a, <2>1 DEF Start, Jobs
  <2>3. registry' \subseteq Tags /\ present' \subseteq Tags
    BY <1>1, <2>1 DEF Start
  <2> QED
    BY <1>1, <2>1, <2>2, <2>3 DEF Start
<1>2. CASE Prepare
  <2>1. phase' \in {"waiting", "database"} /\ queued' \in BOOLEAN
    BY <1>2 DEF Prepare
  <2> QED
    BY <1>2, <2>1 DEF Prepare
<1>3. CASE Build
  <2>1. builds' \in [Versions -> Nat] /\ log' \in {"none", "ok", "err"}
    BY <1>3, <1>a DEF Build, Launched, Jobs
  <2>2. phase = "image" /\ phase' \in {"building", "idle"}
    BY <1>3 DEF Build
  <2> QED
    BY <1>3, <2>1, <2>2 DEF Build
<1>4. CASE Pull
  <2>1. present' \subseteq Tags
    BY <1>4, <1>a DEF Pull
  <2> QED
    BY <1>4, <2>1 DEF Pull
<1>5. CASE Prune
  BY <1>5
  DEF Prune
<1>6. CASE BuildDone
  BY <1>6 DEF BuildDone
<1>7. CASE BuildRetry
  <2>1. builds' \in [Versions -> Nat] /\ log' \in {"none", "ok", "err"}
    BY <1>7, <1>a DEF BuildRetry, Launched, Jobs
  <2>2. phase = "building" /\ phase' \in {"retrying", "idle"}
    BY <1>7 DEF BuildRetry
  <2> QED
    BY <1>7, <2>1, <2>2 DEF BuildRetry
<1>8. ASSUME NEW v \in Versions, BuildEnds(v) PROVE Inv'
  <2>1. builds' \in [Versions -> Nat] /\ log' \in {"none", "ok", "err"} /\ crossed' \in BOOLEAN
    BY <1>8 DEF BuildEnds
  <2>2. present' \subseteq Tags /\ appContent' \in Versions
    BY <1>8, <1>a DEF BuildEnds
  <2> QED
    BY <1>8, <2>1, <2>2 DEF BuildEnds
<1> QED
  BY <1>1, <1>2, <1>3, <1>4, <1>5, <1>6, <1>7, <1>8

\* Whatever creates a container.
LEMMA RecreateInv ==
    ASSUME Inv,
           \/ Swap \/ Recover \/ RecoverErr \/ RetryRecreate \/ RetryRebuild
           \/ HealRecreate
    PROVE  Inv'
<1> USE DEF Inv, TypeOK, FileExists, FileNeeded, BeforeSwap, AfterSwap, Rollback,
            Phases, Waiters, run, wait, coolify, images, compile, timer, host,
            Step, End
<1>a. \A c \in Composes, v \in Versions : Created(c, v) \in Containers
  BY CreatedType
<1>b. AppTag \in Tags /\ job.ver \in Versions
  BY AppTagTyped DEF Jobs
<1>1. CASE Swap
  BY <1>1, <1>a
  DEF Swap, Recreate
<1>2. CASE Recover
  BY <1>2, <1>a
  DEF Recover, Recreate
<1>3. CASE RecoverErr
  BY <1>3
  DEF RecoverErr, GiveUp
<1>4. CASE RetryRecreate
  BY <1>4, <1>a
  DEF RetryRecreate, Recreate
<1>5. CASE RetryRebuild
  BY <1>5, <1>a, <1>b
  DEF RetryRebuild, Obtain
<1>6. CASE HealRecreate
  <2>1. container' \in Containers \union {NoContainer}
    BY <1>6, <1>a DEF HealRecreate
  <2>3. /\ healing' \in BOOLEAN /\ ~healing'
        /\ UNCHANGED <<phase, job, deploys, desired, waiter, recovered,
                       raw, parsed, pending, queued, disk, present, appContent,
                       registry, builds, log, crossed, backups, installed, dbCreds,
                       edits, overwritten>>
    BY <1>6 DEF HealRecreate
  <2>4. TypeOK'
    BY <2>1, <2>3
  <2>5. FileExists'
    BY <2>3
  <2> QED
    BY <2>4, <2>5
<1> QED
  BY <1>1, <1>2, <1>3, <1>4, <1>5, <1>6

\* What Coolify keeps, and its worker.
LEMMA CoolifyInv ==
    ASSUME Inv,
           \/ SyncRead \/ SyncBackup \/ SyncPatch \/ SyncImage \/ Restore
           \/ Regenerate \/ CoolifyRuns \/ EditRaw
    PROVE  Inv'
<1> USE DEF Inv, TypeOK, FileExists, FileNeeded, BeforeSwap, AfterSwap, Rollback,
            Phases, Waiters, run, wait, coolify, images, compile, timer, host,
            Step, End
<1>a. \A c \in Composes, fs \in SUBSET Fixes : Fixed(c, fs) \in Composes
  BY FixedType
<1>b. \A c \in Composes : Regenerated(c) \in Composes
  BY RegeneratedType
<1>c. \A c \in Composes, v \in Versions : Created(c, v) \in Containers
  BY CreatedType
<1>d. AppTag \in Tags /\ job.ver \in Versions /\ job.ver \in Tags
  BY AppTagTyped DEF Jobs
<1>e. MaxBackups \in Nat \ {0} /\ MaxEdits \in Nat
  BY DeployAssumption
<1>f. NoCompose \notin Composes
  BY Sentinels
<1>1. CASE SyncRead
  BY <1>1, <1>a
  DEF SyncRead, Fixes
<1>2. CASE SyncBackup
  BY <1>2, <1>e
  DEF SyncBackup, BackUpRaw, Kept
<1>3. CASE SyncPatch
  BY <1>3
  DEF SyncPatch, Patch
<1>4. CASE SyncImage
  BY <1>4, <1>d
  DEF SyncImage, Patch, Composes, Creds, Fixes
<1>5. CASE Restore
  BY <1>5, <1>a
  DEF Restore, Patch, Latest, Fixes
<1>6. CASE Regenerate
  <2>1. disk' \in Composes /\ parsed' \in Composes /\ pending' \in BOOLEAN
    BY <1>6, <1>b DEF Regenerate
  <2>2. UNCHANGED <<phase, run, desired, wait, raw, queued, images,
                    container, backups, timer, host, overwritten>>
    BY <1>6 DEF Regenerate
  <2>3. TypeOK'
    BY <2>1, <2>2
  <2>4. FileExists'
    BY <1>f, <2>1
  <2> QED
    BY <2>3, <2>4
<1>7. CASE CoolifyRuns
  <2>1. disk' \in Composes /\ parsed' \in Composes /\ dbCreds' \in Creds
    BY <1>7, <1>b DEF CoolifyRuns, Composes
  <2>2. present' \subseteq Tags /\ appContent' \in Versions
    BY <1>7, <1>d DEF CoolifyRuns, Obtain
  <2>3. container' \in Containers \union {NoContainer}
    BY <1>7, <1>c, <2>1, <2>2 DEF CoolifyRuns
  <2>5. /\ queued' \in BOOLEAN /\ pending' \in BOOLEAN
        /\ UNCHANGED <<phase, run, desired, wait, raw, registry, compile, backups,
                       timer, edits, overwritten>>
    BY <1>7 DEF CoolifyRuns
  <2> QED
    BY <1>f, <2>1, <2>2, <2>3, <2>5
<1>8. CASE EditRaw
  <2>1. raw' \in Composes /\ pending' = TRUE
    BY <1>8 DEF EditRaw, Patch, Composes
  <2>2. edits' \in 0..MaxEdits
    BY <1>8, <1>e DEF EditRaw
  <2> QED
    BY <1>8, <2>1, <2>2 DEF EditRaw
<1> QED
  BY <1>1, <1>2, <1>3, <1>4, <1>5, <1>6, <1>7, <1>8

LEMMA NextInv == Inv /\ [Next]_vars => Inv'
<1> SUFFICES ASSUME Inv, [Next]_vars PROVE Inv'
  OBVIOUS
<1>1. CASE UNCHANGED vars
  BY <1>1 DEF vars, run, wait, coolify, images, compile, timer, host, Inv, TypeOK,
              FileExists
<1> QED
  BY <1>1, ControlInv, FileInv, ImagesInv, RecreateInv, CoolifyInv
  DEF Next, Command, Environment

LEMMA Invariant == Spec => []Inv
BY InitInv, NextInv, PTL DEF Spec

\* TypeOK of DeployService: in particular the repairs of the file, the swap and
\* the rollback only ever work on a file that exists, and the backups kept
\* never exceed MaxBackups (compose_backup.rs:36-42).
THEOREM DeployTypeOK == Spec => []TypeOK
BY Invariant, PTL DEF Inv

-----------------------------------------------------------------------------
(* The swap.                                                               *)

\* Nobody rewrites the file or prunes images from the last look at the image
\* to the swap.
QuietAtSwap == {"reapply", "swap"} \intersect (RegenerateAt \union PruneAt) = {}

\* The image was looked for and is there.
ImageKept == phase = "reapply" => disk.tag \in present

SwapInv == Inv /\ ImageKept /\ SwapReady

\* The command comes to its last repair and to the swap one way only.
LEMMA OneWayToSwap ==
    ASSUME Start \/ Command, ~Available, ~Reapply
    PROVE  phase' \notin {"reapply", "swap"}
BY DEF Start, Command, Fail, Safety, SyncRead, SyncBackup, SyncPatch, SyncImage,
       SyncPersisted, Prepare, Waited, Database, Binds, Envs, Build, BuildDone, BuildRetry, SkipBuild,
       Pull, Inspect, Pin, ReapplyErr, Swap, SwapErr, Verify, HealthOk,
       RollbackOk, HealthErr, ProbeFails, Recover, RecoverErr, Install, Finish,
       Restore, Settle, RetryRecreate, RetryRebuild, RetryApi, RetryErr,
       Step, End, GiveUp

\* The others leave the file of a quiet phase alone and take no image away.
LEMMA OthersAtSwap ==
    ASSUME QuietAtSwap, phase \in {"reapply", "swap"}, Environment \/ UNCHANGED vars
    PROVE  /\ UNCHANGED <<phase, job, disk, dbCreds>>
           /\ present \subseteq present'
BY DEF QuietAtSwap, Environment, MayRegenerate, Regenerate, CoolifyRuns, HealCheck,
       HealRecreate, ContainerExits, Prune, EditRaw, BuildEnds, vars, run, coolify, images, compile,
       host

LEMMA OthersKeepPhase ==
    ASSUME Environment \/ UNCHANGED vars PROVE phase' = phase
BY DEF Environment, Regenerate, CoolifyRuns, HealCheck, HealRecreate,
       ContainerExits, Prune, EditRaw, BuildEnds, vars

LEMMA NextSwapInv == QuietAtSwap /\ SwapInv /\ [Next]_vars => SwapInv'
<1> SUFFICES ASSUME QuietAtSwap, SwapInv, [Next]_vars PROVE SwapInv'
  OBVIOUS
<1>1. Inv'
  BY NextInv DEF SwapInv
<1>2. CASE Available
  BY <1>1, <1>2 DEF Available, Step, SwapInv, ImageKept, SwapReady, images, compile
<1>3. CASE Reapply
  <2>1. disk \in Composes /\ job.ver \in Tags
    BY <1>3, AppTagTyped DEF Reapply, DatabaseExists, SwapInv, Inv, TypeOK, Jobs
  <2>2. /\ Repaired \in Composes /\ Repaired.creds = disk.creds
        /\ Repaired.tag = IF ByImage(job) THEN job.ver ELSE disk.tag
    BY <2>1, PinnedType DEF Repaired
  <2>3. disk' = Fixed(Repaired, Fixes) /\ Repaired.fixes \subseteq Fixes
    BY <1>3, <2>2, LabelledAll DEF Reapply, Composes
  <2>4. /\ disk' \in Composes /\ disk'.tag = Repaired.tag
        /\ disk'.creds = Repaired.creds /\ disk'.fixes = Fixes
    <3>1. /\ Fixed(Repaired, Fixes) \in Composes
          /\ Fixed(Repaired, Fixes).tag = Repaired.tag
          /\ Fixed(Repaired, Fixes).creds = Repaired.creds
          /\ Fixed(Repaired, Fixes).fixes = Repaired.fixes \union Fixes
      BY <2>2, FixedType
    <3>2. Repaired.fixes \union Fixes = Fixes
      BY <2>3
    <3> QED
      BY <2>3, <3>1, <3>2
  <2>5. SwapReady'
    BY <1>3, <2>2, <2>4, Sentinels
    DEF Reapply, Step, DatabaseExists, SwapInv, ImageKept, SwapReady, ByImage,
        run, images, compile, host
  <2> QED
    BY <1>1, <1>3, <2>5 DEF Reapply, Step, SwapInv, ImageKept
<1>4. CASE (Start \/ Command) /\ ~Available /\ ~Reapply
  BY <1>1, <1>4, OneWayToSwap DEF SwapInv, ImageKept, SwapReady
<1>5. CASE (Environment \/ UNCHANGED vars) /\ phase \in {"reapply", "swap"}
  BY <1>1, <1>5, OthersAtSwap DEF SwapInv, ImageKept, SwapReady, ByImage
<1>6. CASE (Environment \/ UNCHANGED vars) /\ phase \notin {"reapply", "swap"}
  BY <1>1, <1>6, OthersKeepPhase DEF SwapInv, ImageKept, SwapReady
<1> QED
  BY <1>2, <1>3, <1>4, <1>5, <1>6 DEF Next

\* For any number of deploys, of any kind: if the worker of Coolify and the
\* prunes leave the file and the images alone from the last look at the image
\* to the swap, --force-recreate works on a file with every repair, the image
\* that was asked for and the credentials of the database that exists
\* (fases_nucleo.rs:111-129).
THEOREM DeploySwapReady == ASSUME QuietAtSwap PROVE Spec => []SwapReady
<1>1. Init => SwapInv
  BY InitInv DEF Init, SwapInv, ImageKept, SwapReady
<1>2. SwapInv /\ [Next]_vars => SwapInv'
  BY NextSwapInv
<1> QED
  BY <1>1, <1>2, PTL DEF Spec, SwapInv

-----------------------------------------------------------------------------
(* The autoheal.                                                           *)

\* While the script is past its checks the file keeps the bind mount.
HealInv == Inv /\ (healing => "uploads" \in disk.fixes)

\* No step of the command takes a repair out of a file that exists.
LEMMA RepairsStay ==
    ASSUME Inv, disk \in Composes,
           "healing" \notin RegenerateAt, healing, [Next]_vars
    PROVE  disk' \in Composes /\ disk.fixes \subseteq disk'.fixes
<1>1. \A c \in Composes, fs \in SUBSET Fixes :
          Fixed(c, fs) \in Composes /\ c.fixes \subseteq Fixed(c, fs).fixes
  BY FixedType
<1>2. \A c \in Composes, t \in Tags :
          Pinned(c, t) \in Composes /\ Pinned(c, t).fixes = c.fixes
  BY PinnedType
<1>3. job.ver \in Tags
  BY AppTagTyped DEF Inv, TypeOK, Jobs
<1>4. Repaired \in Composes /\ disk.fixes \subseteq Repaired.fixes
  BY <1>2, <1>3 DEF Repaired
<1>5. CASE Database \/ Binds \/ Envs \/ ProbeFails \/ Settle
  BY <1>1, <1>5 DEF Database, Binds, Envs, ProbeFails, Settle, Fixes
<1>6. CASE Pin
  BY <1>2, <1>3, <1>6 DEF Pin
<1>7. CASE Reapply \/ ReapplyErr
  BY <1>1, <1>4, <1>7, LabelledAll DEF Reapply, ReapplyErr, Fixes
<1>8. ~Regenerate /\ ~CoolifyRuns
  BY DEF Regenerate, CoolifyRuns, MayRegenerate
<1>9. CASE disk' = disk
  BY <1>9
<1> QED
  BY <1>5, <1>6, <1>7, <1>8, <1>9
  DEF Next, Command, Environment, Start, Fail, Safety, SyncRead, SyncBackup,
      SyncPatch, SyncImage, SyncPersisted, Prepare, Waited, Build, BuildDone, BuildRetry, SkipBuild,
      Pull, Inspect, Available, Swap, SwapErr, Verify, HealthOk, RollbackOk,
      HealthErr, Recover, RecoverErr, Install, Finish, Restore, RetryRecreate,
      RetryRebuild, RetryApi, RetryErr, HealCheck, HealRecreate, ContainerExits,
      Prune, EditRaw, BuildEnds, vars

LEMMA NextHealInv ==
    "healing" \notin RegenerateAt /\ HealInv /\ [Next]_vars => HealInv'
<1> SUFFICES ASSUME "healing" \notin RegenerateAt, HealInv, [Next]_vars
             PROVE  HealInv'
  OBVIOUS
<1>1. Inv'
  BY NextInv DEF HealInv
<1>2. CASE healing
  <2>1. disk \in Composes
    BY <1>2 DEF HealInv, Inv, FileExists, TypeOK
  <2> QED
    BY <1>1, <1>2, <2>1, RepairsStay DEF HealInv
<1>3. CASE ~healing /\ HealCheck
  BY <1>1, <1>3 DEF HealCheck, Healable, HealInv
<1>4. CASE ~healing /\ ~HealCheck
  <2>1. ~healing'
    BY <1>4
    DEF Next, Command, Environment, Start, Fail, Safety, SyncRead, SyncBackup,
        SyncPatch, SyncImage, SyncPersisted, Prepare, Waited, Database, Binds,
        Envs, Build, BuildDone, BuildRetry, SkipBuild, Pull, Inspect, Pin, Available, Reapply,
        ReapplyErr, Swap, SwapErr, Verify, HealthOk, RollbackOk, HealthErr,
        ProbeFails, Recover, RecoverErr, Install, Finish, Restore, Settle,
        RetryRecreate, RetryRebuild, RetryApi, RetryErr, Regenerate, CoolifyRuns,
        HealRecreate, ContainerExits, Prune, EditRaw, BuildEnds, vars, timer
  <2> QED
    BY <1>1, <2>1 DEF HealInv
<1> QED
  BY <1>2, <1>3, <1>4

\* For any number of deploys: if the worker of Coolify leaves the file alone
\* between the checks of the script and its docker compose up, a heal never
\* puts to run a container without the uploads of the host
\* (rust_autoheal.rs:143-155).
THEOREM DeployHealKeepsUploads ==
    ASSUME "healing" \notin RegenerateAt PROVE Spec => HealKeepsUploads
<1>1. Init => HealInv
  BY InitInv DEF Init, HealInv
<1>2. HealInv /\ [Next]_vars => HealInv'
  BY NextHealInv
<1>3. HealInv /\ [Next]_vars =>
        (healing /\ ~healing' /\ container' # NoContainer
           => "uploads" \in container'.fixes)
  <2> SUFFICES ASSUME HealInv, [Next]_vars, healing, ~healing',
                      container' # NoContainer
               PROVE  "uploads" \in container'.fixes
    OBVIOUS
  <2>1. HealRecreate
    BY DEF Next, Command, Environment, Start, Fail, Safety, SyncRead, SyncBackup,
        SyncPatch, SyncImage, SyncPersisted, Prepare, Waited, Database, Binds,
        Envs, Build, BuildDone, BuildRetry, SkipBuild, Pull, Inspect, Pin, Available, Reapply,
        ReapplyErr, Swap, SwapErr, Verify, HealthOk, RollbackOk, HealthErr,
        ProbeFails, Recover, RecoverErr, Install, Finish, Restore, Settle,
        RetryRecreate, RetryRebuild, RetryApi, RetryErr, Regenerate, CoolifyRuns,
        HealCheck, ContainerExits, Prune, EditRaw, BuildEnds, vars, timer
  <2>2. disk \in Composes /\ appContent \in Versions /\ "uploads" \in disk.fixes
    BY DEF HealInv, Inv, FileExists, TypeOK
  <2>3. container' = Created(disk, appContent)
    BY <2>1 DEF HealRecreate
  <2> QED
    BY <2>2, <2>3, CreatedType
<1> QED
  BY <1>1, <1>2, <1>3, PTL DEF Spec, HealKeepsUploads

-----------------------------------------------------------------------------
(* The backups of the compose.                                             *)

\* Deploys that sync with sync_compose_rust, and nobody editing the compose
\* in Coolify between its backup and its PATCH.
BackedUpSync == Kinds \intersect {"registry", "local"} = {} /\ "patch" \notin EditAt

\* The phases that follow the PATCH of the sync, or that a job which skips the
\* sync enters.
Patched == (BeforeSwap \ {"safety", "sync", "backup", "patch", "persisted"})
               \union AfterSwap \union Rollback

\* What the PATCH will overwrite, and then has overwritten, is the latest backup.
BackupInv ==
    /\ Inv
    /\ phase # "persisted"
    /\ phase = "patch" => backups # << >> /\ Latest = raw
    /\ phase \in Patched /\ ~job.skipSync =>
           backups # << >> /\ Latest = overwritten

LEMMA BackedUpFrame ==
    ASSUME [Next]_vars, ~Start, ~SyncBackup, ~SyncPatch, ~SyncImage
    PROVE  UNCHANGED <<job, backups, overwritten>>
BY DEF Next, Command, Environment, Start, Fail, Safety, SyncRead, SyncBackup,
      SyncPatch, SyncImage, SyncPersisted, Prepare, Waited, Database, Binds, Envs,
      Build, BuildDone, BuildRetry, SkipBuild, Pull, Inspect, Pin, Available, Reapply, ReapplyErr, Swap,
      SwapErr, Verify, HealthOk, RollbackOk, HealthErr, ProbeFails, Recover,
      RecoverErr, Install, Finish, Restore, Settle, RetryRecreate, RetryRebuild,
      RetryApi, RetryErr, Regenerate, CoolifyRuns, HealCheck, HealRecreate,
      ContainerExits, Prune, EditRaw, BuildEnds, vars, run

\* The phases after the PATCH are entered from it, or by a job that skips it.
LEMMA OneWayToPatched ==
    ASSUME [Next]_vars, phase' \in Patched
    PROVE  \/ phase \in Patched
           \/ (Safety /\ job.skipSync) \/ SyncPatch \/ SyncPersisted
BY DEF Next, Command, Environment, Start, Fail, Safety, SyncRead, SyncBackup,
      SyncPatch, SyncImage, SyncPersisted, Prepare, Waited, Database, Binds, Envs,
      Build, BuildDone, BuildRetry, SkipBuild, Pull, Inspect, Pin, Available, Reapply, ReapplyErr, Swap,
      SwapErr, Verify, HealthOk, RollbackOk, HealthErr, ProbeFails, Recover,
      RecoverErr, Install, Finish, Restore, Settle, RetryRecreate, RetryRebuild,
      RetryApi, RetryErr, Regenerate, CoolifyRuns, HealCheck, HealRecreate,
      ContainerExits, Prune, EditRaw, BuildEnds, vars, Patched, BeforeSwap, AfterSwap,
      Rollback, Step, End, GiveUp

LEMMA OneWayToPatch ==
    ASSUME [Next]_vars, phase' \in {"patch", "persisted"}
    PROVE  phase' = phase \/ (SyncBackup /\ phase' = "patch") \/ SyncImage
BY DEF Next, Command, Environment, Start, Fail, Safety, SyncRead, SyncBackup,
      SyncPatch, SyncImage, SyncPersisted, Prepare, Waited, Database, Binds, Envs,
      Build, BuildDone, BuildRetry, SkipBuild, Pull, Inspect, Pin, Available, Reapply, ReapplyErr, Swap,
      SwapErr, Verify, HealthOk, RollbackOk, HealthErr, ProbeFails, Recover,
      RecoverErr, Install, Finish, Restore, Settle, RetryRecreate, RetryRebuild,
      RetryApi, RetryErr, Regenerate, CoolifyRuns, HealCheck, HealRecreate,
      ContainerExits, Prune, EditRaw, BuildEnds, vars, Step, End, GiveUp

\* Only the command's PATCH and a hand change docker_compose_raw.
LEMMA RawAtPatch ==
    ASSUME [Next]_vars, phase = "patch", phase' = "patch", "patch" \notin EditAt
    PROVE  raw' = raw
BY DEF Next, Command, Environment, Start, Fail, Safety, SyncRead, SyncBackup,
      SyncPatch, SyncImage, SyncPersisted, Prepare, Waited, Database, Binds, Envs,
      Build, BuildDone, BuildRetry, SkipBuild, Pull, Inspect, Pin, Available, Reapply, ReapplyErr, Swap,
      SwapErr, Verify, HealthOk, RollbackOk, HealthErr, ProbeFails, Recover,
      RecoverErr, Install, Finish, Restore, Settle, RetryRecreate, RetryRebuild,
      RetryApi, RetryErr, Regenerate, CoolifyRuns, HealCheck, HealRecreate,
      ContainerExits, Prune, EditRaw, BuildEnds, vars, Step, End, GiveUp, coolify

LEMMA NextBackupInv == BackedUpSync /\ BackupInv /\ [Next]_vars => BackupInv'
<1> SUFFICES ASSUME BackedUpSync, BackupInv, [Next]_vars PROVE BackupInv'
  OBVIOUS
<1>1. Inv'
  BY NextInv DEF BackupInv
<1>2. ~ByImage(job)
  BY DEF BackedUpSync, BackupInv, Inv, TypeOK, Jobs, ByImage
<1>3. ~SyncImage /\ ~SyncPersisted
  BY <1>2 DEF SyncImage, SyncPersisted, BackupInv
<1>4. CASE SyncBackup
  <2>1. /\ backups' = Kept(Append(backups, raw)) /\ raw' = raw
        /\ phase' = "patch"
    BY <1>4 DEF SyncBackup, BackUpRaw, coolify
  <2>2. /\ backups \in Seq(Composes) /\ raw \in Composes
        /\ MaxBackups \in Nat \ {0}
    BY DeployAssumption DEF BackupInv, Inv, TypeOK
  <2>3. Len(backups') > 0 /\ backups'[Len(backups')] = raw
    BY <2>1, <2>2 DEF Kept
  <2>4. backups' # << >> /\ Latest' = raw'
    BY <2>1, <2>3 DEF Latest
  <2>5. "patch" \notin Patched
    BY DEF Patched, BeforeSwap, AfterSwap, Rollback
  <2> QED
    BY <1>1, <2>1, <2>4, <2>5 DEF BackupInv
<1>5. CASE SyncPatch
  <2>1. /\ overwritten' = raw /\ backups' = backups /\ phase = "patch"
        /\ phase' = "prepare"
    BY <1>5 DEF SyncPatch
  <2> QED
    BY <1>1, <2>1 DEF BackupInv, Latest
<1>6. CASE Start
  BY <1>1, <1>6 DEF Start, BackupInv, Patched, BeforeSwap, AfterSwap, Rollback
<1>7. CASE ~SyncBackup /\ ~SyncPatch /\ ~Start
  <2>1. UNCHANGED <<job, backups, overwritten>>
    BY <1>3, <1>7, BackedUpFrame
  <2>2. phase' # "persisted" /\ (phase' = "patch" => phase = "patch" /\ raw' = raw)
    BY <1>3, <1>7, OneWayToPatch, RawAtPatch DEF BackedUpSync, BackupInv
  <2>3. phase' \in Patched /\ ~job'.skipSync => phase \in Patched
    BY <1>3, <1>7, <2>1, OneWayToPatched
  <2> QED
    BY <1>1, <2>1, <2>2, <2>3 DEF BackupInv, Latest
<1> QED
  BY <1>4, <1>5, <1>6, <1>7

LEMMA BackupInvariant == ASSUME BackedUpSync PROVE Spec => []BackupInv
<1>1. Init => BackupInv
  BY InitInv DEF Init, BackupInv, Patched, BeforeSwap, AfterSwap, Rollback
<1> QED
  BY <1>1, NextBackupInv, PTL DEF Spec

\* For any number of deploys and backups: no PATCH of sync_compose_rust loses
\* a compose, as long as nobody edits it between the backup and the PATCH
\* (compose_backup.rs:4, compose_sync/mod.rs:303-360).
THEOREM DeployOverwrittenIsBackedUp ==
    ASSUME BackedUpSync PROVE Spec => OverwrittenIsBackedUp
<1>1. BackupInv /\ [Next]_vars =>
        ((phase = "patch" /\ phase' = "prepare")
           \/ (phase = "sync" /\ phase' = "persisted")
         => backups # << >> /\ Latest = raw)
  <2> SUFFICES ASSUME BackupInv, [Next]_vars,
                      phase = "patch" \/ (phase = "sync" /\ phase' = "persisted")
               PROVE  backups # << >> /\ Latest = raw
    OBVIOUS
  <2>1. CASE phase = "patch"
    BY <2>1 DEF BackupInv
  <2>2. CASE phase = "sync" /\ phase' = "persisted"
    <3>1. SyncImage
      BY <2>2, OneWayToPatch DEF SyncBackup, Step
    <3> QED
      BY <3>1 DEF BackedUpSync, BackupInv, Inv, TypeOK, Jobs, ByImage, SyncImage
  <2> QED
    BY <2>1, <2>2
<1> QED
  BY <1>1, BackupInvariant, PTL DEF Spec, OverwrittenIsBackedUp

\* For any number of deploys and backups: the rollback of a deploy gives
\* Coolify what that deploy overwrote (deploy_service/rollback.rs:33-83).
THEOREM DeployRollbackUndoesTheSync ==
    ASSUME BackedUpSync PROVE Spec => RollbackUndoesTheSync
<1>1. BackupInv /\ [Next]_vars =>
        (phase = "restore" /\ phase' = "settle" /\ ~job.skipSync
           => raw' = Fixed(overwritten, {"label"}))
  <2> SUFFICES ASSUME BackupInv, [Next]_vars, phase = "restore",
                      phase' = "settle", ~job.skipSync
               PROVE  raw' = Fixed(overwritten, {"label"})
    OBVIOUS
  <2>1. Restore
    BY DEF Next, Command, Environment, Start, Fail, Safety, SyncRead, SyncBackup,
      SyncPatch, SyncImage, SyncPersisted, Prepare, Waited, Database, Binds, Envs,
      Build, BuildDone, BuildRetry, SkipBuild, Pull, Inspect, Pin, Available, Reapply, ReapplyErr, Swap,
      SwapErr, Verify, HealthOk, RollbackOk, HealthErr, ProbeFails, Recover,
      RecoverErr, Install, Finish, Restore, Settle, RetryRecreate, RetryRebuild,
      RetryApi, RetryErr, Regenerate, CoolifyRuns, HealCheck, HealRecreate,
      ContainerExits, Prune, EditRaw, BuildEnds, vars, Step, End, GiveUp
  <2>2. Latest = overwritten
    BY DEF BackupInv, Patched, Rollback
  <2> QED
    BY <2>1, <2>2 DEF Restore, Patch
<1> QED
  BY <1>1, BackupInvariant, PTL DEF Spec, RollbackUndoesTheSync

-----------------------------------------------------------------------------
(* What runs when the deploy reports health.                               *)

\* The phases from the swap to the end of the wait for the site's health, and
\* those from the build to that end.
Serving  == {"verify", "health", "recover"}
AppReady == {"available", "reapply", "swap"} \union Serving

\* Deploys whose image is <uuid>-app:latest, ...
BuildsOnly == Kinds \intersect {"registry", "local"} = {}

\* ... and a worker that leaves the file alone from the swap to the end of the
\* wait, ...
BuildsQuietly ==
    BuildsOnly /\ ({"swap"} \union Serving) \intersect RegenerateAt = {}

\* ... or only at the swap, but prunes that are quiet from the last look at the
\* image on.
BuildsQuietAtSwap == /\ BuildsOnly
                     /\ "swap" \notin RegenerateAt
                     /\ {"reapply", "swap"} \intersect PruneAt = {}

\* Then every copy of the compose names AppTag.
Own(c) == c.tag = AppTag

OwnTags ==
    /\ phase # "pin"
    /\ Own(raw) /\ Own(parsed) /\ Own(desired)
    /\ disk # NoCompose => Own(disk)
    /\ \A i \in 1..Len(backups) : Own(backups[i])

\* What AppTag holds is the build of this deploy, until its rollback, and the
\* log speaks of no other; unless a build of another deploy ends meanwhile.
Built == job.kind = "build" /\ waiter = "deploy" /\ ~crossed =>
    /\ phase \in AppReady => appContent = job.ver
    /\ phase \in {"building", "retrying"} /\ log = "ok" => appContent = job.ver

\* What runs on the host is a build of a deploy that has started.
Building == /\ job.ver \in 0..deploys
            /\ \A v \in Versions : builds[v] > 0 =>
                  v <= deploys /\ (v = job.ver => job.kind = "build")
            /\ phase \in {"building", "retrying"} => job.kind = "build"

\* The file that the swap, the recovery and the autoheal recreate from binds
\* the uploads of the host.
Bound == phase \in {"swap"} \union Serving /\ waiter = "deploy"
             => "uploads" \in disk.fixes

\* So does whatever container there is after the swap, and it runs AppTag.
Swapped == phase \in Serving /\ waiter = "deploy" /\ container # NoContainer
               => /\ "uploads" \in container.fixes
                  /\ ~crossed => container.content = appContent

RunInv == Inv /\ OwnTags /\ Building /\ Built /\ Bound /\ Swapped

\* The file is the one the swap needs, although the worker may have rewritten it
\* before the last repair.
BuildSwapInv ==
    /\ Inv /\ OwnTags /\ SwapReady
    /\ phase \in {"reapply", "swap"} => AppTag \in present

LEMMA OnlyBuilds == BuildsOnly /\ Inv => ~ByImage(job)
BY DEF BuildsOnly, Inv, TypeOK, Jobs, ByImage

\* No operation of ComposeStack but Pinned changes the tag.
LEMMA TagKept ==
    ASSUME NEW c \in Composes, NEW fs \in SUBSET Fixes, Own(c)
    PROVE  Own(Fixed(c, fs)) /\ Own(Regenerated(c))
BY DEF Own, Fixed, Regenerated, Composes

LEMMA OwnContent ==
    ASSUME NEW c \in Composes, NEW v \in Versions, Own(c)
    PROVE  Created(c, v).content = v /\ Created(c, v).fixes = c.fixes
BY DEF Own, Created, Program

\* Who writes a copy of the compose.
LEMMA ComposeFrame ==
    ASSUME [Next]_vars,
           ~SyncRead, ~SyncBackup, ~SyncPatch, ~SyncImage, ~Restore,
           ~Regenerate, ~CoolifyRuns, ~EditRaw, ~Database, ~Binds, ~Envs, ~Pin,
           ~Reapply, ~ReapplyErr, ~ProbeFails, ~Settle
    PROVE  UNCHANGED <<raw, parsed, desired, disk, backups>>
BY DEF Next, Command, Environment, Start, Fail, Safety, SyncRead, SyncBackup,
      SyncPatch, SyncImage, SyncPersisted, Prepare, Waited, Database, Binds, Envs,
      Build, BuildDone, BuildRetry, SkipBuild, Pull, Inspect, Pin, Available, Reapply, ReapplyErr, Swap,
      SwapErr, Verify, HealthOk, RollbackOk, HealthErr, ProbeFails, Recover,
      RecoverErr, Install, Finish, Restore, Settle, RetryRecreate, RetryRebuild,
      RetryApi, RetryErr, Regenerate, CoolifyRuns, HealCheck, HealRecreate,
      ContainerExits, Prune, EditRaw, BuildEnds, vars, Step, End, GiveUp, run, wait,
      coolify, images, compile

LEMMA OneWayToPin ==
    ASSUME [Next]_vars, phase' = "pin"
    PROVE  phase = "pin" \/ Pull \/ Inspect
BY DEF Next, Command, Environment, Start, Fail, Safety, SyncRead, SyncBackup,
      SyncPatch, SyncImage, SyncPersisted, Prepare, Waited, Database, Binds, Envs,
      Build, BuildDone, BuildRetry, SkipBuild, Pull, Inspect, Pin, Available, Reapply, ReapplyErr, Swap,
      SwapErr, Verify, HealthOk, RollbackOk, HealthErr, ProbeFails, Recover,
      RecoverErr, Install, Finish, Restore, Settle, RetryRecreate, RetryRebuild,
      RetryApi, RetryErr, Regenerate, CoolifyRuns, HealCheck, HealRecreate,
      ContainerExits, Prune, EditRaw, BuildEnds, vars, Step, End, GiveUp, run, wait,
      coolify, images, compile

\* Whoever writes a copy of the compose writes one that names AppTag.
LEMMA NextOwnTags ==
    ASSUME BuildsOnly, Inv, OwnTags, [Next]_vars PROVE OwnTags'
<1>a. ~ByImage(job)
  BY OnlyBuilds
<1>b. \A c \in Composes, fs \in SUBSET Fixes :
          Own(c) => Own(Fixed(c, fs)) /\ Own(Regenerated(c))
  BY TagKept
<1>c. /\ Own(raw) /\ Own(parsed) /\ Own(desired)
      /\ disk # NoCompose => Own(disk)
      /\ \A i \in 1..Len(backups) : Own(backups[i])
  BY DEF OwnTags
<1>d. /\ raw \in Composes /\ parsed \in Composes /\ desired \in Composes
      /\ disk # NoCompose => disk \in Composes
      /\ backups \in Seq(Composes)
  BY DEF Inv, TypeOK
<1>e. phase' # "pin"
  BY <1>a, OneWayToPin DEF OwnTags, Pull, Inspect, ByImage
<1>f. phase \in FileNeeded => disk # NoCompose
  BY DEF Inv, FileExists
<1>g. \A fs \in SUBSET Fixes : disk # NoCompose => Own(Fixed(disk, fs))
  BY <1>b, <1>c, <1>d
<1>1. CASE SyncRead
  BY <1>b, <1>c, <1>d, <1>e, <1>1 DEF SyncRead, OwnTags, coolify, Fixes
<1>2. CASE SyncBackup
  <2>1. \A i \in 1..Len(backups') : Own(backups'[i])
    BY <1>c, <1>d, <1>2 DEF SyncBackup, BackUpRaw, Kept
  <2> QED
    BY <1>c, <1>e, <1>2, <2>1 DEF SyncBackup, OwnTags, coolify
<1>3. CASE SyncPatch
  BY <1>c, <1>e, <1>3 DEF SyncPatch, Patch, OwnTags
<1>4. ~SyncImage /\ ~Pin
  BY <1>a DEF SyncImage, Pin, OwnTags
<1>5. CASE Restore
  <2>1. Latest \in Composes /\ Own(Latest)
    BY <1>c, <1>d, <1>5 DEF Restore, Latest
  <2>2. Own(raw')
    BY <1>b, <1>5, <2>1 DEF Restore, Patch, Fixes
  <2> QED
    BY <1>c, <1>e, <1>5, <2>2 DEF Restore, OwnTags
<1>6. CASE Regenerate
  <2>1. Own(disk') /\ Own(parsed')
    BY <1>b, <1>c, <1>d, <1>6 DEF Regenerate
  <2> QED
    BY <1>c, <1>e, <1>6, <2>1 DEF Regenerate, OwnTags
<1>7. CASE CoolifyRuns
  <2>1. Own(disk') /\ Own(parsed')
    BY <1>b, <1>c, <1>d, <1>7 DEF CoolifyRuns
  <2> QED
    BY <1>c, <1>e, <1>7, <2>1 DEF CoolifyRuns, OwnTags
<1>8. CASE EditRaw
  <2>1. Own(raw')
    BY <1>c, <1>d, <1>8 DEF EditRaw, Patch, Own, Composes
  <2> QED
    BY <1>c, <1>e, <1>8, <2>1 DEF EditRaw, OwnTags
<1>9. CASE Database \/ Binds \/ Envs \/ Reapply \/ ReapplyErr \/ ProbeFails \/ Settle
  <2>1. \E fs \in SUBSET Fixes : disk' = disk \/ (disk # NoCompose /\ disk' = Fixed(disk, fs))
    <3>1. CASE Database \/ Settle
      BY <3>1 DEF Database, Settle, DatabaseExists, Fixes
    <3>2. CASE Binds \/ Envs \/ ProbeFails
      BY <1>f, <3>2 DEF Binds, Envs, ProbeFails, Step, Fixes, FileNeeded, AfterSwap
    <3>3. CASE Reapply
      BY <1>a, <1>d, <3>3, LabelledAll DEF Reapply, Repaired, DatabaseExists
    <3>4. CASE ReapplyErr
      BY <1>a, <3>4 DEF ReapplyErr, Repaired, DatabaseExists, Fixes
    <3> QED
      BY <1>9, <3>1, <3>2, <3>3, <3>4
  <2>2. disk' # NoCompose => Own(disk')
    BY <1>c, <1>g, <2>1
  <2>3. UNCHANGED <<raw, parsed, desired, backups>>
    BY <1>9 DEF Database, Binds, Envs, Reapply, ReapplyErr, ProbeFails, Settle,
                coolify
  <2> QED
    BY <1>c, <1>e, <2>2, <2>3 DEF OwnTags
<1>10. CASE UNCHANGED <<raw, parsed, desired, disk, backups>>
  BY <1>c, <1>e, <1>10 DEF OwnTags
<1> QED
  BY <1>1, <1>2, <1>3, <1>4, <1>5, <1>6, <1>7, <1>8, <1>9, <1>10, ComposeFrame

LEMMA InitOwnTags == Init => OwnTags
<1> SUFFICES ASSUME Init PROVE OwnTags
  OBVIOUS
<1>1. /\ raw.tag = AppTag /\ parsed = raw /\ desired = raw
      /\ raw \in Composes /\ phase = "idle" /\ Len(backups) = 0
      /\ disk \in {NoCompose, Fixed(raw, Fixes)}
  BY InitInv DEF Init, Inv, TypeOK
<1>2. Own(raw) /\ Own(Fixed(raw, Fixes))
  BY <1>1, FixedType DEF Own
<1> QED
  BY <1>1, <1>2 DEF OwnTags

\* The ways into the phases of Built, Bound and Swapped while the deploy, and
\* not its rollback, waits.
LEMMA OneWayToServing ==
    ASSUME [Next]_vars, waiter' = "deploy"
    PROVE  /\ phase' \in AppReady =>
                  \/ BuildDone \/ SkipBuild \/ Pin
                  \/ ~Start /\ phase \in AppReady /\ waiter = "deploy"
           /\ phase' \in {"swap"} \union Serving =>
                  \/ Reapply
                  \/ phase \in {"swap"} \union Serving /\ waiter = "deploy"
           /\ phase' \in Serving =>
                  Swap \/ (phase \in Serving /\ waiter = "deploy")
BY DEF Next, Command, Environment, Start, Fail, Safety, SyncRead, SyncBackup,
      SyncPatch, SyncImage, SyncPersisted, Prepare, Waited, Database, Binds, Envs,
      Build, BuildDone, BuildRetry, SkipBuild, Pull, Inspect, Pin, Available, Reapply, ReapplyErr, Swap,
      SwapErr, Verify, HealthOk, RollbackOk, HealthErr, ProbeFails, Recover,
      RecoverErr, Install, Finish, Restore, Settle, RetryRecreate, RetryRebuild,
      RetryApi, RetryErr, Regenerate, CoolifyRuns, HealCheck, HealRecreate,
      ContainerExits, Prune, EditRaw, BuildEnds, vars, Step, End, GiveUp, run, wait,
      coolify, images, compile, AppReady, Serving

\* A build, whoever does it, is of the branch of the last deploy, but for one
\* that an earlier deploy left.
LEMMA ContentMoves ==
    ASSUME [Next]_vars
    PROVE  \/ appContent' \in {appContent, job.ver}
           \/ \E v \in Versions : BuildEnds(v)
BY DEF Next, Command, Environment, Start, Fail, Safety, SyncRead, SyncBackup,
      SyncPatch, SyncImage, SyncPersisted, Prepare, Waited, Database, Binds, Envs,
      Build, BuildDone, BuildRetry, SkipBuild, Pull, Inspect, Pin, Available, Reapply, ReapplyErr, Swap,
      SwapErr, Verify, HealthOk, RollbackOk, HealthErr, ProbeFails, Recover,
      RecoverErr, Install, Finish, Restore, Settle, RetryRecreate, RetryRebuild,
      RetryApi, RetryErr, Regenerate, CoolifyRuns, HealCheck, HealRecreate,
      ContainerExits, Prune, EditRaw, BuildEnds, vars, Step, End, GiveUp, run, wait,
      coolify, images, compile, Obtain

LEMMA JobKept == ASSUME [Next]_vars, ~Start PROVE job' = job /\ deploys' = deploys
BY DEF Next, Command, Environment, Start, Fail, Safety, SyncRead, SyncBackup,
      SyncPatch, SyncImage, SyncPersisted, Prepare, Waited, Database, Binds, Envs,
      Build, BuildDone, BuildRetry, SkipBuild, Pull, Inspect, Pin, Available, Reapply, ReapplyErr, Swap,
      SwapErr, Verify, HealthOk, RollbackOk, HealthErr, ProbeFails, Recover,
      RecoverErr, Install, Finish, Restore, Settle, RetryRecreate, RetryRebuild,
      RetryApi, RetryErr, Regenerate, CoolifyRuns, HealCheck, HealRecreate,
      ContainerExits, Prune, EditRaw, BuildEnds, vars, Step, End, GiveUp, run, wait,
      coolify, images, compile

LEMMA OneWayToBuilding ==
    ASSUME [Next]_vars
    PROVE  phase' \in {"building", "retrying"} =>
              Build \/ BuildRetry \/ (phase' = phase /\ waiter' = waiter)
BY DEF Next, Command, Environment, Start, Fail, Safety, SyncRead, SyncBackup,
      SyncPatch, SyncImage, SyncPersisted, Prepare, Waited, Database, Binds, Envs,
      Build, BuildDone, BuildRetry, SkipBuild, Pull, Inspect, Pin, Available, Reapply, ReapplyErr, Swap,
      SwapErr, Verify, HealthOk, RollbackOk, HealthErr, ProbeFails, Recover,
      RecoverErr, Install, Finish, Restore, Settle, RetryRecreate, RetryRebuild,
      RetryApi, RetryErr, Regenerate, CoolifyRuns, HealCheck, HealRecreate,
      ContainerExits, Prune, EditRaw, BuildEnds, vars, Step, End, GiveUp, wait

\* Who touches the builds of the host, their log and the history of crossings.
LEMMA CompileKept ==
    ASSUME [Next]_vars, ~Build, ~BuildDone, ~BuildRetry, ~(\E v \in Versions : BuildEnds(v))
    PROVE  builds' = builds /\ log' = log /\ (Start \/ crossed' = crossed)
BY DEF Next, Command, Environment, Start, Fail, Safety, SyncRead, SyncBackup,
      SyncPatch, SyncImage, SyncPersisted, Prepare, Waited, Database, Binds, Envs,
      SkipBuild, Pull, Inspect, Pin, Available, Reapply, ReapplyErr, Swap,
      SwapErr, Verify, HealthOk, RollbackOk, HealthErr, ProbeFails, Recover,
      RecoverErr, Install, Finish, Restore, Settle, RetryRecreate, RetryRebuild,
      RetryApi, RetryErr, Regenerate, CoolifyRuns, HealCheck, HealRecreate,
      ContainerExits, Prune, EditRaw, vars, coolify, images, compile

LEMMA CrossedStays == ASSUME [Next]_vars, ~Start, TypeOK, crossed PROVE crossed'
<1>1. CASE Build \/ BuildDone \/ BuildRetry \/ \E v \in Versions : BuildEnds(v)
  BY <1>1 DEF Build, BuildDone, BuildRetry, BuildEnds
<1> QED
  BY <1>1, CompileKept

\* Only a deploy that builds starts one.
LEMMA NextBuilding == ASSUME Inv, OwnTags, Building, [Next]_vars PROVE Building'
<1>1. /\ builds \in [Versions -> Nat] /\ deploys \in 0..MaxDeploys /\ job.ver \in Versions
      /\ MaxDeploys \in Nat /\ Versions = 0..MaxDeploys
  BY StackAssumption DEF Inv, TypeOK, Jobs, Versions
<1>2. CASE Start
  <2>1. /\ deploys' = deploys + 1 /\ job'.ver = deploys' /\ builds' = builds
    BY <1>2 DEF Start
  <2>2. phase' = "safety"
    BY <1>2 DEF Start
  <2> QED
    BY <1>1, <2>1, <2>2 DEF Building
<1>3. CASE ~Start
  <2>1. job' = job /\ deploys' = deploys
    BY <1>3, JobKept
  <2>2. \A v \in Versions : builds'[v] > 0 =>
          builds[v] > 0 \/ (v = job.ver /\ job.kind = "build")
    <3>1. CASE Build
      BY <1>1, <3>1 DEF Build, Launched
    <3>2. CASE BuildRetry /\ job.kind = "build"
      BY <1>1, <3>2 DEF BuildRetry, Launched
    <3>3. CASE \E v \in Versions : BuildEnds(v)
      BY <1>1, <3>3 DEF BuildEnds
    <3>4. BuildRetry => job.kind = "build"
      BY DEF BuildRetry, Building
    <3>5. CASE BuildDone
      BY <3>5 DEF BuildDone
    <3> QED
      BY <3>1, <3>2, <3>3, <3>4, <3>5, CompileKept
  <2>3. phase' \in {"building", "retrying"} => job.kind = "build"
    BY OneWayToBuilding DEF Build, BuildRetry, Building
  <2> QED
    BY <1>1, <2>1, <2>2, <2>3 DEF Building
<1> QED
  BY <1>2, <1>3

\* From the swap on only the first recovery edits the file, and every new
\* container is created from it.
LEMMA QuietFrame ==
    ASSUME BuildsQuietly, [Next]_vars, waiter = "deploy",
           phase \in {"swap"} \union Serving
    PROVE  /\ ProbeFails \/ disk' = disk
           /\ container' \in {container, NoContainer, Created(disk, appContent)}
           /\ \/ appContent' = appContent
              \/ container' = container /\ \E v \in Versions : BuildEnds(v)
<1>1. ~Regenerate /\ ~CoolifyRuns
  BY DEF BuildsQuietly, Regenerate, CoolifyRuns, MayRegenerate
<1> QED
  BY <1>1 DEF Next, Command, Environment, Start, Fail, Safety, SyncRead, SyncBackup,
      SyncPatch, SyncImage, SyncPersisted, Prepare, Waited, Database, Binds, Envs,
      Build, BuildDone, BuildRetry, SkipBuild, Pull, Inspect, Pin, Available, Reapply, ReapplyErr, Swap,
      SwapErr, Verify, HealthOk, RollbackOk, HealthErr, ProbeFails, Recover,
      RecoverErr, Install, Finish, Restore, Settle, RetryRecreate, RetryRebuild,
      RetryApi, RetryErr, Regenerate, CoolifyRuns, HealCheck, HealRecreate,
      ContainerExits, Prune, EditRaw, BuildEnds, vars, Step, End, GiveUp, run, wait,
      coolify, images, compile, Serving, Recreate

LEMMA NextRunInv == BuildsQuietly /\ RunInv /\ [Next]_vars => RunInv'
<1> SUFFICES ASSUME BuildsQuietly, RunInv, [Next]_vars PROVE RunInv'
  OBVIOUS
<1>1. Inv' /\ OwnTags' /\ Building'
  BY NextInv, NextOwnTags, NextBuilding DEF RunInv, BuildsQuietly
<1>2. Inv /\ OwnTags /\ Building /\ Built /\ Bound /\ Swapped
  BY DEF RunInv
<1>3. Built'
  <2> SUFFICES ASSUME job'.kind = "build", waiter' = "deploy", ~crossed'
               PROVE  /\ phase' \in AppReady => appContent' = job'.ver
                      /\ phase' \in {"building", "retrying"} /\ log' = "ok" => appContent' = job'.ver
    BY DEF Built
  <2>1. CASE Start
    BY <2>1 DEF Start, AppReady, Serving
  <2>2. CASE ~Start
    <3>1. job' = job /\ ~crossed
      BY <1>2, <2>2, JobKept, CrossedStays DEF Inv
    <3>2. CASE \E v \in Versions : BuildEnds(v)
      <4> PICK v \in Versions : BuildEnds(v)
        BY <3>2
      <4>1. phase' = phase /\ waiter' = waiter /\ v = job.ver
        BY DEF BuildEnds, wait
      <4>2. appContent' = v \/ (appContent' = appContent /\ log' = "err")
        BY DEF BuildEnds
      <4> QED
        BY <1>2, <3>1, <4>1, <4>2 DEF Built
    <3>3. CASE ~(\E v \in Versions : BuildEnds(v))
      <4>1. appContent' \in {appContent, job.ver}
        BY <3>3, ContentMoves
      <4>2. ~SkipBuild /\ ~Pin
        BY <1>2, <3>1 DEF SkipBuild, Pin, OwnTags
      <4>3. ASSUME phase' \in AppReady PROVE appContent' = job.ver
        <5>1. CASE BuildDone
          BY <1>2, <3>1, <4>1, <5>1 DEF BuildDone, Built, wait
        <5>2. CASE phase \in AppReady /\ waiter = "deploy"
          BY <1>2, <3>1, <4>1, <5>2 DEF Built
        <5> QED
          BY <4>2, <4>3, <5>1, <5>2, OneWayToServing
      <4>4. ASSUME phase' \in {"building", "retrying"}, log' = "ok" PROVE appContent' = job.ver
        <5>1. ~Build /\ ~BuildRetry
          <6>1. phase \in {"image", "building"} => disk # NoCompose
            BY <1>2 DEF Inv, FileExists, FileNeeded
          <6>2. phase \in {"image", "building"} => disk.tag = AppTag
            BY <1>2, <6>1 DEF OwnTags, Own
          <6> QED
            BY <4>4, <6>2 DEF Build, BuildRetry, Launched
        <5>2. phase' = phase /\ waiter' = waiter
          BY <4>4, <5>1, OneWayToBuilding
        <5>3. ~BuildDone
          BY <4>4 DEF BuildDone
        <5>4. log = "ok"
          BY <3>3, <4>4, <5>1, <5>3, CompileKept
        <5> QED
          BY <1>2, <3>1, <4>1, <4>4, <5>2, <5>4 DEF Built
      <4> QED
        BY <3>1, <4>3, <4>4
    <3> QED
      BY <3>2, <3>3
  <2> QED
    BY <2>1, <2>2
<1>4. Bound'
  <2> SUFFICES ASSUME phase' \in {"swap"} \union Serving, waiter' = "deploy"
               PROVE  "uploads" \in disk'.fixes
    BY DEF Bound
  <2>1. CASE Reapply
    <3>1. ~ByImage(job) /\ disk \in Composes
      BY <1>2, <2>1, OnlyBuilds DEF BuildsQuietly, Reapply, DatabaseExists, Inv, TypeOK
    <3>2. disk' = Fixed(disk, Fixes)
      BY <2>1, <3>1, LabelledAll DEF Reapply, Repaired
    <3>3. disk'.fixes = disk.fixes \union Fixes
      BY <3>1, <3>2, FixedType
    <3> QED
      BY <3>3 DEF Fixes
  <2>2. CASE phase \in {"swap"} \union Serving /\ waiter = "deploy"
    <3>1. "uploads" \in disk.fixes
      BY <1>2, <2>2 DEF Bound
    <3>2. disk \in Composes
      BY <1>2, <2>2
      DEF Serving, Inv, FileExists, FileNeeded, AfterSwap, TypeOK
    <3>3. CASE ProbeFails
      <4>1. disk' = Fixed(disk, {"uploads"})
        BY <3>3 DEF ProbeFails
      <4>2. disk'.fixes = disk.fixes \union {"uploads"}
        BY <3>2, <4>1, FixedType DEF Fixes
      <4> QED
        BY <4>2
    <3> QED
      BY <2>2, <3>1, <3>3, QuietFrame
  <2> QED
    BY <2>1, <2>2, OneWayToServing
<1>5. Swapped'
  <2> SUFFICES ASSUME phase' \in Serving, waiter' = "deploy", container' # NoContainer
               PROVE  /\ "uploads" \in container'.fixes
                      /\ ~crossed' => container'.content = appContent'
    BY DEF Swapped
  <2>1. Swap \/ (phase \in Serving /\ waiter = "deploy")
    BY OneWayToServing
  <2>2. phase \in {"swap"} \union Serving /\ waiter = "deploy"
    BY <2>1 DEF Swap, Step, wait
  <2>3. disk \in Composes /\ appContent \in Versions
    BY <1>2, <2>2 DEF Serving, Inv, FileExists, FileNeeded, AfterSwap, TypeOK
  <2>4. Own(disk) /\ "uploads" \in disk.fixes
    BY <1>2, <2>2, <2>3, Sentinels DEF OwnTags, Bound
  <2>5. /\ Created(disk, appContent).content = appContent
        /\ Created(disk, appContent).fixes = disk.fixes
    BY <2>3, <2>4, OwnContent
  <2>6. /\ container' \in {container, NoContainer, Created(disk, appContent)}
        /\ \/ appContent' = appContent
           \/ container' = container /\ \E v \in Versions : BuildEnds(v)
    BY <2>2, QuietFrame
  <2>7. ~crossed' => ~crossed
    BY <1>2, <2>2, CrossedStays DEF Inv, Start, Serving
  <2>8. CASE appContent' = appContent /\ container' = Created(disk, appContent)
    BY <2>4, <2>5, <2>8
  <2>9. CASE appContent' = appContent /\ container' = container /\ ~Swap
    BY <1>2, <2>1, <2>7, <2>9 DEF Swapped
  <2>10. CASE Swap
    BY <2>8, <2>10 DEF Swap, Recreate, images
  <2>11. CASE container' = container /\ \E v \in Versions : BuildEnds(v)
    <3> PICK v \in Versions : BuildEnds(v)
      BY <2>11
    <3>1. phase' = phase /\ (~crossed' => v = job.ver /\ builds[v] > 0)
      BY DEF BuildEnds
    <3>2. appContent' = appContent \/ appContent' = v
      BY DEF BuildEnds
    <3>3. ~crossed' => appContent' = appContent
      BY <1>2, <2>2, <2>7, <3>1, <3>2 DEF Building, Built, AppReady
    <3> QED
      BY <1>2, <2>2, <2>7, <2>11, <3>1, <3>3 DEF Swapped
  <2> QED
    BY <2>6, <2>8, <2>9, <2>10, <2>11
<1> QED
  BY <1>1, <1>3, <1>4, <1>5 DEF RunInv

\* For any number of deploys, backups, edits and prunes: a deploy that builds,
\* or that skips the build, reports health of a container of the program it was
\* asked for with its uploads on the host, whatever exits, heals and recovers
\* in between (fases_nucleo.rs:129-330), unless a build that another deploy left
\* running ended meanwhile.
THEOREM DeployHealthyRunsRequest ==
    ASSUME BuildsQuietly PROVE Spec => HealthyDeployRunsRequest
<1>1. Init => RunInv
  <2>1. Init => Building
    BY StackAssumption DEF Init, Building, Versions
  <2> QED
    BY <2>1, InitInv, InitOwnTags DEF Init, RunInv, Built, Bound, Swapped, AppReady, Serving
<1>2. RunInv /\ [Next]_vars => RunInv'
  BY NextRunInv
<1>3. RunInv /\ [Next]_vars =>
        (phase = "health" /\ phase' = "install" /\ ~crossed =>
           /\ "uploads" \in container.fixes
           /\ container.content =
                  IF job.kind = "nobuild" THEN appContent ELSE job.ver)
  <2> SUFFICES ASSUME RunInv, [Next]_vars, phase = "health", phase' = "install", ~crossed
               PROVE  /\ "uploads" \in container.fixes
                      /\ container.content =
                             IF job.kind = "nobuild" THEN appContent ELSE job.ver
    OBVIOUS
  <2>1. HealthOk
    BY DEF Next, Command, Environment, Start, Fail, Safety, SyncRead, SyncBackup,
      SyncPatch, SyncImage, SyncPersisted, Prepare, Waited, Database, Binds, Envs,
      Build, BuildDone, BuildRetry, SkipBuild, Pull, Inspect, Pin, Available, Reapply, ReapplyErr, Swap,
      SwapErr, Verify, HealthOk, RollbackOk, HealthErr, ProbeFails, Recover,
      RecoverErr, Install, Finish, Restore, Settle, RetryRecreate, RetryRebuild,
      RetryApi, RetryErr, Regenerate, CoolifyRuns, HealCheck, HealRecreate,
      ContainerExits, Prune, EditRaw, BuildEnds, vars, Step, End, GiveUp, run, wait,
      coolify, images, compile
  <2>2. waiter = "deploy" /\ container # NoContainer
    BY <2>1 DEF HealthOk, Answers
  <2>3. "uploads" \in container.fixes /\ container.content = appContent
    BY <2>2 DEF RunInv, Swapped, Serving
  <2>4. job.kind \in {"build", "nobuild"}
    BY DeployAssumption DEF BuildsQuietly, BuildsOnly, RunInv, Inv, TypeOK, Jobs
  <2>5. job.kind = "build" => appContent = job.ver
    BY <2>2 DEF RunInv, Built, AppReady, Serving
  <2> QED
    BY <2>3, <2>4, <2>5
<1> QED
  BY <1>1, <1>2, <1>3, PTL DEF Spec, HealthyDeployRunsRequest

\* From the last look at the image on, nobody removes it, and the worker rewrites
\* the file only before its last repair.
LEMMA OthersAtBuildSwap ==
    ASSUME BuildsQuietAtSwap, Inv, phase \in {"reapply", "swap"},
           Environment \/ UNCHANGED vars
    PROVE  /\ phase' = phase /\ present \subseteq present'
           /\ phase = "swap" => UNCHANGED <<job, disk, dbCreds>>
<1>1. phase = "swap" => ~Regenerate /\ ~CoolifyRuns
  BY DEF BuildsQuietAtSwap, Regenerate, CoolifyRuns, MayRegenerate
<1>2. ~Prune
  BY DEF BuildsQuietAtSwap, Prune
<1> QED
  BY <1>1, <1>2 DEF Environment, Regenerate, CoolifyRuns, Obtain, HealCheck,
     HealRecreate, ContainerExits, EditRaw, BuildEnds, vars, run, coolify, images, compile, host

LEMMA NextBuildSwapInv ==
    BuildsQuietAtSwap /\ BuildSwapInv /\ [Next]_vars => BuildSwapInv'
<1> SUFFICES ASSUME BuildsQuietAtSwap, BuildSwapInv, [Next]_vars
             PROVE  BuildSwapInv'
  OBVIOUS
<1>1. Inv' /\ OwnTags'
  BY NextInv, NextOwnTags DEF BuildSwapInv, BuildsQuietAtSwap
<1>2. Inv /\ OwnTags /\ ~ByImage(job)
  BY OnlyBuilds DEF BuildSwapInv, BuildsQuietAtSwap
<1>3. CASE Available
  <2>1. disk # NoCompose
    BY <1>2, <1>3 DEF Available, Step, Inv, FileExists, FileNeeded
  <2>2. AppTag \in present
    BY <1>2, <1>3, <2>1 DEF Available, OwnTags, Own
  <2> QED
    BY <1>1, <1>3, <2>2 DEF Available, Step, BuildSwapInv, SwapReady, images, compile
<1>4. CASE Reapply
  <2>1. disk \in Composes /\ disk.tag = AppTag /\ disk.creds = dbCreds
    BY <1>2, <1>4 DEF Reapply, DatabaseExists, Inv, TypeOK, OwnTags, Own
  <2>2. disk' = Fixed(disk, Fixes) /\ job' = job /\ dbCreds' = dbCreds
    BY <1>2, <1>4, <2>1, LabelledAll DEF Reapply, Repaired, run, host
  <2>3. /\ disk' \in Composes /\ disk'.tag = AppTag /\ disk'.creds = dbCreds'
        /\ disk'.fixes = disk.fixes \union Fixes
    BY <2>1, <2>2, FixedType
  <2>4. disk.fixes \subseteq Fixes
    BY <2>1 DEF Composes
  <2>5. AppTag \in present'
    BY <1>4 DEF Reapply, Step, BuildSwapInv, images, compile
  <2>6. SwapReady'
    BY <1>2, <2>2, <2>3, <2>4, <2>5, Sentinels DEF SwapReady, ByImage
  <2> QED
    BY <1>1, <2>5, <2>6 DEF BuildSwapInv
<1>5. CASE (Start \/ Command) /\ ~Available /\ ~Reapply
  BY <1>1, <1>5, OneWayToSwap DEF BuildSwapInv, SwapReady
<1>6. CASE (Environment \/ UNCHANGED vars) /\ phase \in {"reapply", "swap"}
  <2>1. /\ phase' = phase /\ present \subseteq present'
        /\ phase = "swap" => UNCHANGED <<job, disk, dbCreds>>
    BY <1>2, <1>6, OthersAtBuildSwap
  <2>2. SwapReady'
    BY <2>1 DEF BuildSwapInv, SwapReady, ByImage
  <2> QED
    BY <1>1, <1>6, <2>1, <2>2 DEF BuildSwapInv
<1>7. CASE (Environment \/ UNCHANGED vars) /\ phase \notin {"reapply", "swap"}
  BY <1>1, <1>7, OthersKeepPhase DEF BuildSwapInv, SwapReady
<1> QED
  BY <1>3, <1>4, <1>5, <1>6, <1>7 DEF Next

\* For any number of deploys that build or skip the build: also when the worker
\* rewrites the file until the last repair, --force-recreate works on a file with
\* every repair, on an image that is there and on the credentials of the database
\* that exists.  The tag needs no pin, for every copy of the compose names it.
THEOREM DeployBuildsSwapReady ==
    ASSUME BuildsQuietAtSwap PROVE Spec => []SwapReady
<1>1. Init => BuildSwapInv
  BY InitInv, InitOwnTags DEF Init, BuildSwapInv, SwapReady
<1>2. BuildSwapInv /\ [Next]_vars => BuildSwapInv'
  BY NextBuildSwapInv
<1> QED
  BY <1>1, <1>2, PTL DEF Spec, BuildSwapInv
=============================================================================
