--------------------------- MODULE SiteCredentials ---------------------------
(***************************************************************************)
(* The environment of a Rust site and the password of its Postgres: the    *)
(* .env of the laptop, the variables that Coolify keeps, the files that    *)
(* its worker renders on the host, the app that was created from them and  *)
(* the hash in the volume of the database.  sync-env copies variables both *)
(* ways, env-toggle writes one, set-compose fixes the compose of Coolify,  *)
(* and fix-db-auth gives the database the password of the host.            *)
(*                                                                         *)
(* A value is a number: 1 and 2 are plain, 3 has a double quote in it and  *)
(* 4 stands for it with backslashes added; 0 is a variable that is not     *)
(* there.  The stacks made today keep the password under a name that       *)
(* Coolify manages, the older ones as DB_PASSWORD, which nothing but the   *)
(* list of what is pushed keeps apart from the rest.                       *)
(***************************************************************************)
EXTENDS Naturals, FiniteSets

CONSTANTS Key,       \* variables
          Password,  \* SERVICE_PASSWORD_POSTGRES or DB_PASSWORD, one of them
          Listed,    \* those of the list that may be pushed
          Required,  \* those that a push without filter requires
          MaxEdits   \* bound on what people and Coolify change

ASSUME KeyAssumption ==
  /\ Password \in Key
  /\ Listed \in SUBSET (Key \ {Password})
  /\ Required \in SUBSET Listed
  /\ MaxEdits \in Nat

Plain == {1, 2}

VARIABLES
  local,    \* .env of the laptop
  coolify,  \* variables, the host of DATABASE_URL in its compose, and
            \* whether the name of the password is one that it manages
  disk,     \* password and host in the files of the service
  app,      \* password and host that the app was created with
  db,       \* the password that the database takes
  worker,   \* what the worker of Coolify is doing
  cmd,      \* the command under way
  edits,
  regenerated, \* history: Coolify made another password
  named,       \* history: a push was given the password by name
  cut          \* history: the host was not changed, or the app not created
               \* with it, by a step that failed or that passed for done

vars == <<local, coolify, disk, app, db, worker, cmd, edits, regenerated, named, cut>>
site == <<disk, app, db>>

Ended == {"idle", "ok", "fixed", "err"}
Idle == [pc |-> "idle", todo |-> [k \in Key |-> 0], pw |-> 0, altered |-> FALSE, calm |-> TRUE]

Init ==
  /\ local \in [Key -> {0, 1}]
  /\ \E m \in BOOLEAN :
       coolify = [env |-> [k \in Key |-> IF k = Password THEN 1 ELSE 0],
                  host |-> "generic", managed |-> m]
  /\ disk = [pw |-> 1, host |-> "generic"]
  /\ app = disk
  /\ db = 1
  /\ worker = "idle"
  /\ cmd = Idle
  /\ edits = 0
  /\ regenerated = FALSE /\ named = FALSE
  /\ cut = FALSE

At(pc) == cmd.pc = pc
Go(pc) == cmd' = [cmd EXCEPT !.pc = pc]
End(pc) == cmd' = [Idle EXCEPT !.pc = pc, !.calm = cmd.calm]
Resting == cmd.pc \in Ended

(* The operator edits the .env of the laptop, the password included.       *)
EditLocal ==
  /\ edits < MaxEdits /\ edits' = edits + 1
  /\ \E k \in Key, v \in 0..3 : local' = [local EXCEPT ![k] = v]
  /\ UNCHANGED <<coolify, site, worker, cmd, regenerated, named, cut>>

(* A restart of the stack is asked for in Coolify.                         *)
Restart ==
  /\ worker = "idle" /\ edits < MaxEdits
  /\ worker' = "asked" /\ edits' = edits + 1
  /\ UNCHANGED <<local, coolify, site, cmd, regenerated, named, cut>>

(* The worker renders the files of the service from what Coolify keeps,    *)
(* where the compose of Coolify wins; it may have made another password.   *)
Render ==
  /\ worker = "asked" /\ worker' = "rendered"
  /\ \E pw \in {coolify.env[Password]} \cup Plain :
       /\ disk' = [pw |-> pw, host |-> coolify.host]
       /\ coolify' = [coolify EXCEPT !.env[Password] = pw]
       /\ regenerated' = (regenerated \/ pw # coolify.env[Password])
  /\ cmd' = [cmd EXCEPT !.calm = FALSE]
  /\ UNCHANGED <<local, app, db, edits, named, cut>>

(* Then it creates the app again; the database keeps its volume.           *)
Recreate ==
  /\ worker = "rendered" /\ worker' = "idle"
  /\ app' = disk /\ cut' = FALSE
  /\ cmd' = [cmd EXCEPT !.calm = FALSE]
  /\ UNCHANGED <<local, coolify, disk, db, edits, regenerated, named>>

-----------------------------------------------------------------------------
(* Mutant: what Coolify manages is pushed like the rest.                   *)
BlockedNone(k) == FALSE

(* Variables that Coolify manages (SERVICE_...) are never pushed; the      *)
(* DB_PASSWORD of an older stack is not one of them.                       *)
Blocked(k) == k = Password /\ coolify.managed

(* The list of what a Rust site may get, with the variables of any VPS.    *)
OnList(k) == k \in Listed

(* A variable that is named skips the list, not the block.                 *)
Permitted(k, only) == ~Blocked(k) /\ (OnList(k) \/ k \in only)

Present(env) == {k \in Key : env[k] # 0}

(* A push of named variables that may all be pushed needs no other.        *)
Exempt(only) == only # {} /\ \A k \in only : Permitted(k, only)

(* The .env of the project, with those of its front end on top.            *)
LocalVars == Present(local)

(* The variables that differ from Coolify, within the filter.              *)
Differing(only) ==
  {k \in LocalVars : (only = {} \/ k \in only) /\ local[k] # coolify.env[k]}

Accepted(only) ==
  /\ only \subseteq LocalVars \cup Present(coolify.env)
  /\ Required \subseteq LocalVars \/ Exempt(only)

(* Both sides are read and compared before the first request.              *)
Push(only) ==
  /\ Resting
  /\ IF Accepted(only)
     THEN cmd' = [Idle EXCEPT !.pc = "push", !.todo =
            [k \in Key |-> IF k \in Differing(only) /\ Permitted(k, only) THEN local[k] ELSE 0]]
     ELSE cmd' = [Idle EXCEPT !.pc = "err"]
  /\ named' = (named \/ Password \in only)
  /\ UNCHANGED <<local, coolify, site, worker, edits, regenerated, cut>>

(* One variable: created, or updated when it is there; the first request   *)
(* that fails ends the command.  (In alphabetical order; here in any.)     *)
PushOne ==
  /\ At("push")
  /\ IF Present(cmd.todo) = {} THEN End("ok") /\ UNCHANGED coolify
     ELSE \/ \E k \in Present(cmd.todo) :
               /\ coolify' = [coolify EXCEPT !.env[k] = cmd.todo[k]]
               /\ cmd' = [cmd EXCEPT !.todo[k] = 0]
          \/ End("err") /\ UNCHANGED coolify
  /\ UNCHANGED <<local, site, worker, edits, regenerated, named, cut>>

(* A value in quotes with backslashes before its own: the reader removes   *)
(* the outer quotes and keeps the backslashes.                             *)
ReadBack(v) == IF v \in {3, 4} THEN 4 ELSE v

(* The file as it is written, in quotes where a value needs them, and read *)
(* by the next command.                                                    *)
Written(env) == [k \in Key |-> ReadBack(env[k])]

(* The file is replaced by what Coolify has.                               *)
Pull ==
  /\ Resting
  /\ \/ End("ok") /\ local' = Written(coolify.env)
     \/ End("err") /\ UNCHANGED local
  /\ UNCHANGED <<coolify, site, worker, edits, regenerated, named, cut>>

(* env-toggle takes no secret: what has PASSWORD in its name is not for it. *)
Secret(k) == k = Password

(* It writes one variable; a stack like this one is not restarted by it.   *)
Toggle ==
  /\ Resting /\ edits < MaxEdits /\ edits' = edits + 1
  /\ \E k \in Key, v \in {1, 2} :
       /\ ~Secret(k)
       /\ End("ok") /\ coolify' = [coolify EXCEPT !.env[k] = v]
  /\ UNCHANGED <<local, site, worker, regenerated, named, cut>>

(* set-compose: the compose is valid, has no build and is read back.       *)
SetCompose ==
  /\ Resting /\ edits < MaxEdits /\ edits' = edits + 1
  /\ \E h \in {"generic", "unique"} : coolify' = [coolify EXCEPT !.host = h]
  /\ End("ok") \/ End("err")
  /\ UNCHANGED <<local, site, worker, regenerated, named, cut>>

-----------------------------------------------------------------------------
(* The password in the .env of the service, under either of its names.     *)
Credentials == disk.pw

(* fix-db-auth takes the password from the files of the service.           *)
FixRead ==
  /\ Resting
  /\ cmd' = [Idle EXCEPT !.pc = "test", !.pw = Credentials, !.calm = (worker = "idle")]
  /\ UNCHANGED <<local, coolify, site, worker, edits, regenerated, named, cut>>

(* A login over TCP from a container of the network.  What prevents the    *)
(* trial counts as a login that failed.                                    *)
FixTest ==
  /\ At("test")
  /\ \/ db = cmd.pw /\ Go("host")
     \/ Go("alter")
  /\ UNCHANGED <<local, coolify, site, worker, edits, regenerated, named, cut>>

(* ALTER USER over the socket, which asks for no password.  A command that *)
(* is cut off without a status counts as one that ended well.              *)
FixAlter ==
  /\ At("alter")
  /\ db' \in {db, cmd.pw}
  /\ \/ cmd' = [cmd EXCEPT !.pc = "verify", !.altered = TRUE]
     \/ End("err")
  /\ UNCHANGED <<local, coolify, disk, app, worker, edits, regenerated, named, cut>>

FixVerify ==
  /\ At("verify")
  /\ \/ db = cmd.pw /\ Go("host")
     \/ End("err")
  /\ UNCHANGED <<local, coolify, site, worker, edits, regenerated, named, cut>>

(* Mutant: only a repaired password needs the app anew.                    *)
NeedsAppIfAltered == cmd.altered

(* The app is created again after a repair, or with another host.          *)
NeedsApp == cmd.altered \/ disk.host = "generic"

(* DATABASE_URL gets the name of the container, which is unique on a host  *)
(* where "postgres" may be the database of Coolify; a sed that is cut off   *)
(* counts as done.                                                         *)
FixHost ==
  /\ At("host")
  /\ \/ /\ disk' = [disk EXCEPT !.host = "unique"] /\ UNCHANGED cut
        /\ IF NeedsApp THEN Go("restart") ELSE End("fixed")
     \/ /\ disk.host = "generic" /\ Go("restart")
        /\ cut' = TRUE /\ UNCHANGED disk
     \/ End("err") /\ UNCHANGED <<disk, cut>>
  /\ UNCHANGED <<local, coolify, app, db, worker, edits, regenerated, named>>

(* The app keeps the host it had.                                          *)
LeftBehind == cut' = (cut \/ app.host # disk.host) /\ UNCHANGED app

(* docker compose up -d app: created again when something changed.  It     *)
(* fails only when it neither ends well nor says that anything started: a  *)
(* database that started first hides an app that was not created.          *)
FixRestart ==
  /\ At("restart")
  /\ LET next == IF cmd.altered THEN Go("check") ELSE End("fixed")
     IN \/ next /\ app' = disk /\ cut' = (disk.host # "unique")
        \/ next /\ LeftBehind
        \/ End("err") /\ LeftBehind
  /\ UNCHANGED <<local, coolify, disk, db, worker, edits, regenerated, named>>

LogsIn == app.pw = db

(* The log and the health of the site: an app that cannot log in is down.  *)
FixCheck ==
  /\ At("check")
  /\ \/ LogsIn /\ End("fixed")
     \/ End("err")
  /\ UNCHANGED <<local, coolify, site, worker, edits, regenerated, named, cut>>

Crash ==
  /\ ~Resting /\ End("err") /\ LeftBehind
  /\ UNCHANGED <<local, coolify, disk, db, worker, edits, regenerated, named>>

Fix == FixTest \/ FixAlter \/ FixVerify \/ FixHost \/ FixRestart \/ FixCheck

Next == \/ EditLocal \/ Restart \/ Render \/ Recreate
        \/ \E only \in SUBSET Key : Push(only)
        \/ PushOne \/ Pull \/ Toggle \/ SetCompose \/ FixRead \/ Fix \/ Crash

Spec == Init /\ [][Next]_vars

-----------------------------------------------------------------------------

(* Whatever is edited, pushed, pulled, toggled or repaired, and however    *)
(* restarts fall in between, a password that is wrong in the .env of the   *)
(* laptop does not get to the site: it is parted from the database only by *)
(* another that Coolify makes or, in a stack that keeps it as DB_PASSWORD,  *)
(* after a push that names it (sync-env push --only DB_PASSWORD).          *)
OnlyCoolifyParts ==
  ~regenerated /\ (coolify.managed \/ ~named) => app.pw = db /\ disk.pw = db

(* fix-db-auth that ends with Ok, also because it found nothing to repair  *)
(* and also after repairs that failed at any step, leaves an app that has  *)
(* the password of the database, unless Coolify works on the stack         *)
(* meanwhile.  The app asks the right host for it, unless this repair did  *)
(* not change the host, or this or one before it did not create the app    *)
(* again with it ("cut"): both failures may pass for success.              *)
FixOkConnects ==
  At("fixed") /\ cmd.calm => app.pw = db /\ (cut \/ app.host = "unique")

=============================================================================
