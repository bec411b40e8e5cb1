---------------------------- MODULE ComposeStack ----------------------------
(***************************************************************************)
(* The data of one Rust stack of Coolify as the deploy sees it.  The same  *)
(* docker-compose text lives in three places (Coolify's docker_compose_raw,*)
(* the state its worker materialises, the file in the service directory)   *)
(* and differs there in what this record keeps: the image of service app,  *)
(* the repairs the manager makes to the text and the database credentials. *)
(***************************************************************************)
EXTENDS Naturals, Sequences

CONSTANTS
    MaxDeploys,             \* bound: deploys of the site, each of a version
    NoCompose,              \* no docker-compose.yml in the service directory
    NoContainer             \* no running container of service app

ASSUME StackAssumption == MaxDeploys \in Nat

\* What the programs in the images were built from; 0 is what ran at first.
Versions == 0..MaxDeploys

\* The images a compose can name: AppTag is "<uuid>-app:latest", which the
\* build block of the compose overwrites; tag v is the immutable reference of
\* version v (a cm-local or a registry tag).
AppTag == 0
Tags == 0..MaxDeploys

\* pg: DATABASE_URL names postgres-{uuid} with the current password;
\* uploads: /app/uploads is the bind mount of the host; envs: the runtime
\* variables and the SSH mount; label: traefik.docker.network=coolify.
Fixes == {"pg", "uploads", "envs", "label"}

\* POSTGRES_USER/POSTGRES_DB: those of the image template or legacy ones.
Creds == {"template", "legacy"}

Composes == [tag : Tags, fixes : SUBSET Fixes, creds : Creds]

\* An exited container counts as no container: `docker compose ps -q` and the
\* probes do not see it, and the deploy removes it.
Containers == [content : Versions, fixes : SUBSET Fixes, creds : Creds]

Fixed(c, fs) == [c EXCEPT !.fixes = @ \union fs]
Pinned(c, t) == [c EXCEPT !.tag = t]

\* The worker writes the file from its own state: the bind mount becomes a
\* named volume and the edits of the file in place are lost.
Regenerated(c) == [c EXCEPT !.fixes = @ \intersect {"label"}]

\* The program behind a tag, given what <uuid>-app:latest was built from.
Program(t, appContent) == IF t = AppTag THEN appContent ELSE t

\* The container that `docker compose up` creates from the file.
Created(c, appContent) ==
    [content |-> Program(c.tag, appContent), fixes |-> c.fixes, creds |-> c.creds]
=============================================================================
