-------------------------- MODULE MCDeployService --------------------------
(***************************************************************************)
(* DeployService for TLC: in which phases the others may act.              *)
(***************************************************************************)
EXTENDS DeployService

\* Coolify rewrites the file at any moment but those between the last repair
\* of the file and the end of the wait for the site's health.
BetweenUses == Phases \ {"swap", "verify", "health", "recover"}

\* Nor while the deploy repairs the file after the build.
NotDuringRepair == BetweenUses \ {"reapply"}

\* Compose edited by hand, but not within the instants between the backup of
\* the compose and its PATCH.
NotAtPatch == {"idle", "sync", "backup", "prepare", "database", "envs"}

\* Prunes of the host, which run while the deploy builds or nothing runs.
NotAtSwap == {"idle", "safety", "prepare", "building", "retrying", "retry"}

Never == {}
=============================================================================
