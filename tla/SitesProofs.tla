----------------------------- MODULE SitesProofs -----------------------------
(***************************************************************************)
(* The sites without WordPress: what only Coolify can do to the password   *)
(* of a Rust site, and what its repair leaves (SiteCredentials); what the  *)
(* commands for the lightweight sites of a host do to each other           *)
(* (LightSites).  For any variables, lists, edits, sites, domains, ports   *)
(* and commands.                                                           *)
(***************************************************************************)
EXTENDS MCSites, TLAPS

(* The variables of a Rust site.                                            *)
Value == 0 .. 4
Copies == [pw : Value, host : {"generic", "unique"}]
Fixing == {"test", "alter", "verify", "host", "restart", "check"}

Commands ==
  [pc : Ended \cup Fixing \cup {"push"}, todo : [Key -> Value], pw : Value,
   altered : BOOLEAN, calm : BOOLEAN]
Kept == [env : [Key -> Value], host : {"generic", "unique"}, managed : BOOLEAN]

TypeOK ==
  /\ local \in [Key -> Value]
  /\ coolify \in Kept
  /\ disk \in Copies /\ app \in Copies /\ db \in Value
  /\ worker \in {"idle", "asked", "rendered"}
  /\ cmd \in Commands
  /\ regenerated \in BOOLEAN /\ named \in BOOLEAN /\ cut \in BOOLEAN

(* No push has the password under way, unless it was named.                *)
Spared == coolify.managed \/ ~named
NotPushed == Spared => cmd.todo[Password] = 0

(* Until Coolify makes another, or a push names it, all places have one    *)
(* password, that of a repair under way included.                          *)
OnePassword ==
  ~regenerated /\ Spared =>
    /\ coolify.env[Password] = db /\ disk.pw = db /\ app.pw = db
    /\ cmd.pc \in Fixing => cmd.pw = db

IInv == TypeOK /\ NotPushed /\ OnePassword

LEMMA IsKey == Password \in Key
  BY KeyAssumption

LEMMA IdleTyped ==
  ASSUME NEW pc \in Ended, NEW calm \in BOOLEAN
  PROVE  /\ Idle \in Commands /\ Idle.todo[Password] = 0 /\ Idle.pc = "idle"
         /\ [Idle EXCEPT !.pc = pc] \in Commands
         /\ [Idle EXCEPT !.pc = pc, !.calm = calm] \in Commands
         /\ [Idle EXCEPT !.pc = pc].todo[Password] = 0
         /\ [Idle EXCEPT !.pc = pc, !.calm = calm].todo[Password] = 0
<1>1. [k \in Key |-> 0] \in [Key -> Value] /\ [k \in Key |-> 0][Password] = 0
  BY IsKey DEF Value
<1>2. Idle \in Commands /\ Idle.todo = [k \in Key |-> 0] /\ Idle.pc = "idle"
  BY <1>1 DEF Idle, Commands, Value, Ended
<1>3. /\ [Idle EXCEPT !.pc = pc] \in Commands
      /\ [Idle EXCEPT !.pc = pc, !.calm = calm] \in Commands
  BY <1>2 DEF Commands
<1>4. /\ [Idle EXCEPT !.pc = pc].todo = Idle.todo
      /\ [Idle EXCEPT !.pc = pc, !.calm = calm].todo = Idle.todo
  BY DEF Idle
<1> QED BY <1>1, <1>2, <1>3, <1>4

LEMMA PushTyped ==
  ASSUME NEW t \in [Key -> Value], cmd' = [Idle EXCEPT !.pc = "push", !.todo = t]
  PROVE  cmd' \in Commands /\ cmd'.todo = t /\ cmd'.pc = "push"
<1>1. Idle \in Commands
  BY IdleTyped DEF Ended
<1> QED BY <1>1 DEF Commands

LEMMA ReadTyped ==
  ASSUME disk.pw \in Value, FixRead
  PROVE  cmd' \in Commands /\ cmd'.todo = Idle.todo /\ cmd'.pw = disk.pw
<1>1. Idle \in Commands
  BY IdleTyped DEF Ended
<1>2. cmd' = [Idle EXCEPT !.pc = "test", !.pw = disk.pw, !.calm = (worker = "idle")]
  BY DEF FixRead, Credentials
<1> QED BY <1>1, <1>2 DEF Commands, Fixing

(* A command that ends forgets what it had.                                *)
LEMMA EndTyped ==
  ASSUME NEW pc \in Ended, cmd \in Commands, End(pc)
  PROVE  cmd' \in Commands /\ cmd'.todo[Password] = 0 /\ cmd'.pc = pc
<1>1. cmd.calm \in BOOLEAN
  BY DEF Commands
<1>2. cmd' = [Idle EXCEPT !.pc = pc, !.calm = cmd.calm]
  BY DEF End
<1>3. cmd'.pc = pc
  BY <1>2 DEF Idle
<1> QED BY <1>1, <1>2, <1>3, IdleTyped

LEMMA GoTyped ==
  ASSUME NEW pc \in Fixing, cmd \in Commands, Go(pc)
  PROVE  cmd' \in Commands /\ cmd'.todo = cmd.todo /\ cmd'.pc = pc /\ cmd'.pw = cmd.pw
  BY DEF Go, Commands

LEMMA InitInv == Init => IInv
<1> SUFFICES ASSUME Init PROVE IInv
  OBVIOUS
<1>1. coolify \in Kept /\ coolify.env[Password] = 1
  <2>1. [k \in Key |-> IF k = Password THEN 1 ELSE 0] \in [Key -> Value]
    BY DEF Value
  <2>2. /\ coolify.env = [k \in Key |-> IF k = Password THEN 1 ELSE 0]
        /\ coolify \in Kept
    BY <2>1 DEF Init, Kept
  <2> QED BY <2>2, IsKey
<1>2. cmd \in Commands /\ cmd.todo[Password] = 0 /\ cmd.pc = "idle"
  BY IdleTyped DEF Init, Ended
<1>3. local \in [Key -> Value] /\ disk \in Copies /\ disk.pw = 1
  BY DEF Init, Copies, Value
<1>4. /\ app = disk /\ db = 1 /\ worker = "idle"
      /\ regenerated = FALSE /\ named = FALSE /\ cut = FALSE /\ app.pw = 1
  BY <1>3 DEF Init
<1>5. db \in Value
  BY <1>4 DEF Value
<1>6. TypeOK
  BY <1>1, <1>2, <1>3, <1>4, <1>5 DEF TypeOK
<1>7. OnePassword
  BY <1>1, <1>2, <1>3, <1>4 DEF OnePassword, Fixing
<1> QED BY <1>2, <1>6, <1>7 DEF IInv, NotPushed

(* What the file gives back for a value is a value.                        *)
LEMMA Quoted ==
  ASSUME NEW v \in Value PROVE ReadBack(v) \in Value
  BY DEF ReadBack, Value

LEMMA PeopleKeep ==
  ASSUME IInv, EditLocal \/ Restart \/ Toggle \/ SetCompose \/ Pull
  PROVE  IInv'
<1> USE IsKey DEF IInv, TypeOK, Spared, NotPushed, OnePassword, site
<1>1. CASE EditLocal
  <2>1. local' \in [Key -> Value]
    BY <1>1 DEF EditLocal, Value
  <2> QED BY <1>1, <2>1 DEF EditLocal
<1>2. CASE Restart
  BY <1>2 DEF Restart
<1>3. CASE Toggle
  <2>1. PICK k \in Key, v \in {1, 2} :
          k # Password /\ End("ok") /\ coolify' = [coolify EXCEPT !.env[k] = v]
    BY <1>3 DEF Toggle, Secret
  <2>2. /\ coolify' \in Kept /\ coolify'.env[Password] = coolify.env[Password]
        /\ coolify'.managed = coolify.managed
    BY <2>1 DEF Kept, Value
  <2>3. cmd' \in Commands /\ cmd'.todo[Password] = 0 /\ cmd'.pc = "ok"
    BY <2>1, EndTyped DEF Ended
  <2> QED BY <1>3, <2>2, <2>3 DEF Toggle, Fixing
<1>4. CASE SetCompose
  <2>1. coolify' \in Kept /\ coolify'.env = coolify.env /\ coolify'.managed = coolify.managed
    BY <1>4 DEF SetCompose, Kept
  <2>2. cmd' \in Commands /\ cmd'.todo[Password] = 0 /\ cmd'.pc \in {"ok", "err"}
    BY <1>4, EndTyped DEF SetCompose, Ended
  <2> QED BY <1>4, <2>1, <2>2 DEF SetCompose, Fixing
<1>5. CASE Pull
  <2>1. local' \in [Key -> Value]
    BY <1>5, Quoted DEF Pull, Written, Kept
  <2>2. cmd' \in Commands /\ cmd'.todo[Password] = 0 /\ cmd'.pc \in {"ok", "err"}
    BY <1>5, EndTyped DEF Pull, Ended
  <2> QED BY <1>5, <2>1, <2>2 DEF Pull, Fixing
<1> QED BY <1>1, <1>2, <1>3, <1>4, <1>5

LEMMA CoolifyKeeps ==
  ASSUME IInv, Render \/ Recreate
  PROVE  IInv'
<1> USE IsKey DEF IInv, TypeOK, Spared, NotPushed, OnePassword, site
<1>1. /\ [cmd EXCEPT !.calm = FALSE] \in Commands
      /\ [cmd EXCEPT !.calm = FALSE].todo = cmd.todo
      /\ [cmd EXCEPT !.calm = FALSE].pc = cmd.pc
      /\ [cmd EXCEPT !.calm = FALSE].pw = cmd.pw
  BY DEF Commands
<1>2. CASE Render
  <2>1. PICK pw \in {coolify.env[Password]} \cup Plain :
          /\ disk' = [pw |-> pw, host |-> coolify.host]
          /\ coolify' = [coolify EXCEPT !.env[Password] = pw]
          /\ regenerated' = (regenerated \/ pw # coolify.env[Password])
    BY <1>2 DEF Render
  <2>2. pw \in Value
    BY <2>1 DEF Plain, Value, Kept
  <2>3. coolify' \in Kept /\ coolify'.env[Password] = pw /\ coolify'.managed = coolify.managed
    BY <2>1, <2>2 DEF Kept
  <2>4. disk' \in Copies /\ disk'.pw = pw
    BY <2>1, <2>2 DEF Copies, Kept
  <2> QED BY <1>1, <1>2, <2>1, <2>3, <2>4 DEF Render
<1>3. CASE Recreate
  BY <1>1, <1>3 DEF Recreate
<1> QED BY <1>2, <1>3

LEMMA PushKeeps ==
  ASSUME IInv, PushOne \/ \E only \in SUBSET Key : Push(only)
  PROVE  IInv'
<1> USE IsKey DEF IInv, TypeOK, Spared, NotPushed, OnePassword, site
<1>1. CASE \E only \in SUBSET Key : Push(only)
  <2>1. PICK only \in SUBSET Key : Push(only)
    BY <1>1
  <2>2. Spared' => ~Permitted(Password, only)
    BY <2>1, KeyAssumption DEF Push, Permitted, Blocked, OnList
  <2> DEFINE todo == [k \in Key |-> IF k \in Differing(only) /\ Permitted(k, only) THEN local[k] ELSE 0]
  <2>3. todo \in [Key -> Value] /\ (Spared' => todo[Password] = 0)
    BY <2>2 DEF Value
  <2> HIDE DEF todo
  <2>4. /\ cmd' \in Commands /\ (Spared' => cmd'.todo[Password] = 0)
        /\ cmd'.pc \notin Fixing
    <3>1. CASE Accepted(only)
      <4>1. cmd' = [Idle EXCEPT !.pc = "push", !.todo = todo]
        BY <2>1, <3>1 DEF Push, todo
      <4>2. cmd' \in Commands /\ cmd'.todo = todo /\ cmd'.pc = "push"
        BY <2>3, <4>1, PushTyped
      <4> QED BY <2>3, <4>2 DEF Fixing
    <3>2. CASE ~Accepted(only)
      <4>1. cmd' = [Idle EXCEPT !.pc = "err"]
        BY <2>1, <3>2 DEF Push
      <4>2. cmd' \in Commands /\ cmd'.todo[Password] = 0 /\ cmd'.pc = "err"
        BY <4>1, IdleTyped DEF Ended, Idle
      <4> QED BY <4>2 DEF Fixing
    <3> QED BY <3>1, <3>2
  <2> QED BY <2>1, <2>4 DEF Push
<1>2. CASE PushOne
  <2>1. CASE \E k \in Present(cmd.todo) :
               /\ coolify' = [coolify EXCEPT !.env[k] = cmd.todo[k]]
               /\ cmd' = [cmd EXCEPT !.todo[k] = 0]
    <3>1. PICK k \in Key : /\ Spared => k # Password
                           /\ coolify' = [coolify EXCEPT !.env[k] = cmd.todo[k]]
                           /\ cmd' = [cmd EXCEPT !.todo[k] = 0]
      BY <2>1 DEF Present
    <3>2. /\ coolify' \in Kept /\ coolify'.managed = coolify.managed
          /\ Spared => coolify'.env[Password] = coolify.env[Password]
      BY <3>1 DEF Kept, Commands
    <3>3. /\ cmd' \in Commands /\ (Spared => cmd'.todo[Password] = 0)
          /\ cmd'.pc = cmd.pc /\ cmd'.pw = cmd.pw
      BY <3>1 DEF Commands, Value
    <3> QED BY <1>2, <3>2, <3>3 DEF PushOne
  <2>2. CASE UNCHANGED coolify /\ (End("ok") \/ End("err"))
    <3>1. cmd' \in Commands /\ cmd'.todo[Password] = 0 /\ cmd'.pc \notin Fixing
      BY <2>2, EndTyped DEF Ended, Fixing
    <3> QED BY <1>2, <2>2, <3>1 DEF PushOne
  <2> QED BY <1>2, <2>1, <2>2 DEF PushOne
<1> QED BY <1>1, <1>2

LEMMA FixKeeps ==
  ASSUME IInv, FixRead \/ Fix \/ Crash
  PROVE  IInv'
<1> USE IsKey DEF IInv, TypeOK, Spared, NotPushed, OnePassword, site
<1>1. ASSUME End("fixed") \/ End("err")
      PROVE  cmd' \in Commands /\ cmd'.todo[Password] = 0 /\ cmd'.pc \notin Fixing
  BY <1>1, EndTyped DEF Ended, Fixing
<1>2. ASSUME NEW pc \in Fixing, Go(pc)
      PROVE  cmd' \in Commands /\ cmd'.todo = cmd.todo /\ cmd'.pw = cmd.pw
  BY <1>2, GoTyped
<1>3. CASE FixRead
  <2>3. cmd' \in Commands /\ cmd'.todo = Idle.todo /\ cmd'.pw = disk.pw
    BY <1>3, ReadTyped DEF Copies
  <2>4. Idle.todo[Password] = 0
    BY IdleTyped DEF Ended
  <2> QED BY <1>3, <2>3, <2>4 DEF FixRead
<1>4. CASE FixTest
  BY <1>2, <1>4 DEF FixTest, Fixing, At
<1>5. CASE FixAlter
  <2>1. db' \in {db, cmd.pw} /\ cmd.pw \in Value /\ UNCHANGED named
    BY <1>5 DEF FixAlter, Commands
  <2>2. CASE cmd' = [cmd EXCEPT !.pc = "verify", !.altered = TRUE]
    <3>1. cmd' \in Commands /\ cmd'.todo = cmd.todo /\ cmd'.pw = cmd.pw
      BY <2>2 DEF Commands, Fixing
    <3> QED BY <1>5, <2>1, <3>1 DEF FixAlter, At, Fixing
  <2>3. CASE End("err")
    BY <1>1, <1>5, <2>1, <2>3 DEF FixAlter, At, Fixing
  <2> QED BY <1>5, <2>2, <2>3 DEF FixAlter
<1>6. CASE FixVerify
  BY <1>1, <1>2, <1>6 DEF FixVerify, Fixing, At
<1>7. CASE FixHost
  <2>1. disk' \in Copies /\ disk'.pw = disk.pw /\ cut' \in BOOLEAN
    BY <1>7 DEF FixHost, Copies
  <2> QED BY <1>1, <1>2, <1>7, <2>1 DEF FixHost, Fixing, At
<1>8. CASE FixRestart
  <2>1. app' \in {app, disk} /\ cut' \in BOOLEAN
    BY <1>8 DEF FixRestart, LeftBehind
  <2>2. Go("check") \/ End("fixed") \/ End("err")
    BY <1>8 DEF FixRestart
  <2> QED BY <1>1, <1>2, <1>8, <2>1, <2>2 DEF FixRestart, Fixing, At
<1>9. CASE FixCheck
  BY <1>1, <1>9 DEF FixCheck, Fixing, At
<1>10. CASE Crash
  <2>1. cut' \in BOOLEAN /\ app' = app
    BY <1>10 DEF Crash, LeftBehind
  <2> QED BY <1>1, <1>10, <2>1 DEF Crash
<1> QED BY <1>3, <1>4, <1>5, <1>6, <1>7, <1>8, <1>9, <1>10 DEF Fix

LEMMA StepInv == IInv /\ [Next]_vars => IInv'
<1> SUFFICES ASSUME IInv, [Next]_vars PROVE IInv'
  OBVIOUS
<1>1. CASE UNCHANGED vars
  BY <1>1 DEF vars, IInv, TypeOK, Spared, NotPushed, OnePassword
<1>2. CASE Next
  BY <1>2, PeopleKeep, CoolifyKeeps, PushKeeps, FixKeeps DEF Next
<1> QED BY <1>1, <1>2

(* Whatever is edited, pushed, pulled, toggled or repaired (sync_env,      *)
(* env_toggle, set_compose, fix_db_auth), only a password that Coolify     *)
(* makes parts the app from its database or, where the password is not a   *)
(* variable that Coolify manages, a push that names it.                    *)
THEOREM CredentialsOnlyCoolifyParts == Spec => []OnlyCoolifyParts
<1>1. IInv => OnlyCoolifyParts
  BY DEF IInv, OnePassword, Spared, OnlyCoolifyParts
<1> QED BY InitInv, StepInv, <1>1, PTL DEF Spec
-----------------------------------------------------------------------------
(* Outside of the work of Coolify the app has what the files have, except   *)
(* for a host that a repair has changed and is about to give it, or could   *)
(* not give it.                                                             *)
AppFollowsFiles ==
  worker # "rendered" =>
    app.pw = disk.pw /\ (cut \/ At("restart") \/ app.host = disk.host)

(* What a repair knows that Coolify left alone.                             *)
RepairKnows ==
  /\ cmd.pc \in {"host", "restart", "check"} => db = cmd.pw
  /\ cmd.calm /\ cmd.pc \in Fixing \cup {"fixed"} => worker # "rendered"
  /\ cmd.calm /\ cmd.pc \in Fixing => cmd.pw = disk.pw
  /\ cmd.calm /\ cmd.pc \in {"restart", "check", "fixed"} => cut \/ disk.host = "unique"
  /\ cmd.calm /\ cmd.pc = "fixed" => db = disk.pw

RepairInv == IInv /\ AppFollowsFiles /\ RepairKnows

LEMMA Moves ==
  ASSUME TypeOK
  PROVE  /\ \A pc : Go(pc) => /\ cmd'.pc = pc /\ cmd'.calm = cmd.calm /\ cmd'.pw = cmd.pw
                              /\ cmd'.altered = cmd.altered
         /\ \A pc : End(pc) => cmd'.pc = pc /\ cmd'.calm = cmd.calm
<1>1. cmd \in Commands
  BY DEF TypeOK
<1>2. /\ \A pc : [cmd EXCEPT !.pc = pc].pc = pc
      /\ \A pc : [Idle EXCEPT !.pc = pc, !.calm = cmd.calm].pc = pc
      /\ \A pc : [Idle EXCEPT !.pc = pc, !.calm = cmd.calm].calm = cmd.calm
  BY <1>1 DEF Commands, Idle
<1>3. \A pc : LET c == [cmd EXCEPT !.pc = pc]
              IN c.calm = cmd.calm /\ c.pw = cmd.pw /\ c.altered = cmd.altered
  BY <1>1 DEF Commands
<1> QED BY <1>2, <1>3 DEF Go, End

LEMMA OthersRepair ==
  ASSUME RepairInv, [Next]_vars, ~ (Fix \/ Crash \/ FixRead)
  PROVE  AppFollowsFiles' /\ RepairKnows'
<1> USE DEF RepairInv, IInv, AppFollowsFiles, RepairKnows, site
<1>1. CASE UNCHANGED vars \/ EditLocal \/ Restart
  BY <1>1 DEF vars, EditLocal, Restart, At, TypeOK
<1>2. CASE Render \/ Recreate
  <2>1. cmd'.calm = FALSE /\ cmd'.pc = cmd.pc /\ cmd'.pw = cmd.pw
    BY <1>2 DEF Render, Recreate, TypeOK, Commands
  <2>2. CASE Render
    BY <2>1, <2>2 DEF Render
  <2>3. CASE Recreate
    <3>1. app' = disk' /\ db' = db
      BY <2>3 DEF Recreate
    <3> QED BY <2>1, <3>1
  <2> QED BY <1>2, <2>2, <2>3
<1>3. CASE \/ Pull \/ Toggle \/ SetCompose \/ PushOne
           \/ \E only \in SUBSET Key : Push(only)
  <2>1. UNCHANGED <<disk, app, db, worker, cut>>
    BY <1>3 DEF Pull, Toggle, SetCompose, PushOne, Push
  <2>2. cmd.pc \notin Fixing /\ cmd'.pc \notin Fixing \cup {"fixed"}
    <3>1. CASE Pull \/ Toggle \/ SetCompose
      BY <3>1, Moves DEF Pull, Toggle, SetCompose, Resting, Ended, Fixing
    <3>2. CASE PushOne
      <4>1. CASE End("ok") \/ End("err")
        BY <3>2, <4>1, Moves DEF PushOne, At, Fixing
      <4>2. CASE \E k \in Key : cmd' = [cmd EXCEPT !.todo[k] = 0]
        BY <3>2, <4>2 DEF PushOne, At, Fixing, TypeOK, Commands
      <4> QED BY <3>2, <4>1, <4>2 DEF PushOne, Present
    <3>3. CASE \E only \in SUBSET Key : Push(only)
      <4>1. PICK only \in SUBSET Key : Push(only)
        BY <3>3
      <4>2. cmd'.pc \in {"push", "err"}
        BY <4>1 DEF Push, Idle
      <4> QED BY <4>1, <4>2 DEF Push, Resting, Ended, Fixing
    <3> QED BY <1>3, <3>1, <3>2, <3>3
  <2> QED BY <2>1, <2>2 DEF At, Fixing
<1> QED BY <1>1, <1>2, <1>3 DEF Next

LEMMA FixRepairs ==
  ASSUME RepairInv, Fix \/ Crash \/ FixRead
  PROVE  AppFollowsFiles' /\ RepairKnows'
<1> USE Moves DEF RepairInv, IInv, AppFollowsFiles, RepairKnows, site
<1>1. CASE FixRead
  <2>1. /\ cmd'.pc = "test" /\ cmd'.pw = disk.pw /\ cmd'.calm = (worker = "idle")
        /\ UNCHANGED <<disk, app, db, worker, cut>> /\ cmd.pc \notin Fixing
    BY <1>1 DEF FixRead, Credentials, Idle, Resting, Ended, Fixing
  <2> QED BY <2>1 DEF At, Fixing
<1>2. CASE FixTest
  BY <1>2 DEF FixTest, At, Fixing
<1>3. CASE FixAlter
  <2>1. UNCHANGED <<disk, app, worker, cut>> /\ cmd.pc = "alter"
    BY <1>3 DEF FixAlter, At
  <2>2. CASE cmd' = [cmd EXCEPT !.pc = "verify", !.altered = TRUE]
    <3>1. cmd'.pc = "verify" /\ cmd'.calm = cmd.calm /\ cmd'.pw = cmd.pw
      BY <2>2 DEF TypeOK, Commands
    <3> QED BY <2>1, <3>1 DEF At, Fixing
  <2>3. CASE End("err")
    BY <2>1, <2>3 DEF At, Fixing
  <2> QED BY <1>3, <2>2, <2>3 DEF FixAlter
<1>4. CASE FixVerify
  BY <1>4 DEF FixVerify, At, Fixing
<1>5. CASE FixHost
  <2>1. UNCHANGED <<app, db, worker>> /\ cmd.pc = "host"
    BY <1>5 DEF FixHost, At
  <2>2. CASE UNCHANGED cut /\ disk' = [disk EXCEPT !.host = "unique"]
             /\ IF NeedsApp THEN Go("restart") ELSE End("fixed")
    <3>1. disk'.pw = disk.pw /\ disk'.host = "unique" /\ disk.host \in {"generic", "unique"}
      BY <2>2 DEF TypeOK, Copies
    <3>2. CASE NeedsApp
      BY <2>1, <2>2, <3>1, <3>2 DEF At, Fixing
    <3>3. CASE ~ NeedsApp
      <4>1. disk'.host = disk.host
        BY <3>1, <3>3 DEF NeedsApp
      <4> QED BY <2>1, <2>2, <3>1, <3>3, <4>1 DEF At, Fixing
    <3> QED BY <3>2, <3>3
  <2>3. CASE End("err") /\ UNCHANGED <<disk, cut>>
    BY <2>1, <2>3 DEF At, Fixing
  <2>4. CASE Go("restart") /\ cut' = TRUE /\ UNCHANGED disk
    BY <2>1, <2>4 DEF At, Fixing
  <2> QED BY <1>5, <2>2, <2>3, <2>4 DEF FixHost
<1>6. CASE FixRestart
  <2>1. UNCHANGED <<disk, db, worker>> /\ cmd.pc = "restart"
    BY <1>6 DEF FixRestart, At
  <2>2. /\ cmd'.pc \in {"check", "fixed", "err"} /\ cmd'.calm = cmd.calm
        /\ cmd'.pc = "check" => cmd'.pw = cmd.pw
    BY <1>6 DEF FixRestart
  <2>3. \/ app' = disk /\ (disk.host # "unique" => cut')
        \/ app' = app /\ (cut => cut') /\ (cut' \/ app.host = disk.host)
    BY <1>6 DEF FixRestart, LeftBehind
  <2> QED BY <2>1, <2>2, <2>3 DEF At, Fixing
<1>7. CASE FixCheck
  BY <1>7 DEF FixCheck, At, Fixing
<1>8. CASE Crash
  <2>1. UNCHANGED <<disk, db, worker, app>> /\ cmd'.pc = "err"
        /\ (cut' \/ app.host = disk.host)
    BY <1>8 DEF Crash, LeftBehind
  <2> QED BY <2>1 DEF At, Fixing
<1> QED BY <1>1, <1>2, <1>3, <1>4, <1>5, <1>6, <1>7, <1>8 DEF Fix

LEMMA RepairSpecInv == Spec => []RepairInv
<1>1. Init => RepairInv
  <2> SUFFICES ASSUME Init PROVE RepairInv
    OBVIOUS
  <2>1. cmd.pc = "idle" /\ app = disk
    BY DEF Init, Idle
  <2> QED BY <2>1, InitInv DEF RepairInv, AppFollowsFiles, RepairKnows, Fixing
<1>2. RepairInv /\ [Next]_vars => RepairInv'
  BY StepInv, OthersRepair, FixRepairs DEF RepairInv
<1> QED BY <1>1, <1>2, PTL DEF Spec

(* fix-db-auth (fix_db_auth.rs) that ends with Ok, whatever edits, pushes,  *)
(* toggles and earlier repairs there were, leaves an app that logs in when  *)
(* Coolify did not work on the stack meanwhile; at the right host, unless   *)
(* it did not change the host or create the app again and took it for done, *)
(* or one before it left the app behind.                                    *)
THEOREM CredentialsFixOkConnects == Spec => []FixOkConnects
<1>1. RepairInv => FixOkConnects
  BY DEF RepairInv, AppFollowsFiles, RepairKnows, FixOkConnects, At, Fixing
<1> QED BY <1>1, RepairSpecInv, PTL

-----------------------------------------------------------------------------
(* The lightweight sites of a host.                                         *)
Writing == {"files", "route", "reload", "up", "probe", "rename", "wipe", "extract"}
Deleting == {"down", "unroute", "unload", "remove"}

Deployed == [port : Port, fqdn : Fqdn]
Containers == [port : Port, up : BOOLEAN]
Scripts ==
  [at : {"idle", "ok"} \cup Writing \cup Deleting,
   what : {None, "new", "rename", "delete", "restore"}, site : Site \cup {None},
   port : Port \cup {0}, fqdn : Fqdn \cup {None}, alone : BOOLEAN, unheard : BOOLEAN]

(* What a command of this kind has been given.                              *)
Means(c) ==
  /\ c.at \in Writing \cup {"ok"} /\ ~c.unheard =>
       /\ c.site \in Site /\ c.port \in Port /\ c.fqdn \in Fqdn
       /\ c.what = "rename" => c.at \in {"rename", "reload"}
       /\ c.at = "rename" => c.what = "rename"
  /\ c.at \in Deleting => c.site \in Site /\ c.port = 0
  /\ c.unheard => c.at = "ok" /\ ~c.alone

(* What a provision or a restore that nobody crosses has done so far.       *)
Done(c, files, routes, served, run) ==
  c.alone /\ c.what # "rename" =>
    /\ c.at \in {"route", "reload", "up", "probe"} =>
         files[c.site] = [port |-> c.port, fqdn |-> c.fqdn]
    /\ c.at \in {"reload", "up", "probe", "ok"} =>
         routes[c.site] = [port |-> c.port, fqdn |-> c.fqdn]
    /\ c.at \in {"up", "probe", "ok"} =>
         served[c.site] = [port |-> c.port, fqdn |-> c.fqdn]
    /\ c.at \in {"probe", "ok"} =>
         run[c.site] = [port |-> c.port, up |-> TRUE]

(* A command that nobody crosses is alone on its site.                      *)
AloneOnSite(scripts) ==
  \A p \in Proc : scripts[p].at # "idle" /\ scripts[p].alone =>
    \A r \in Proc \ {p} : scripts[r].at \in {"idle", "ok"} \/ scripts[r].site # scripts[p].site

LightTypeOK ==
  /\ dir \in [Site -> {None, Bare} \cup Deployed]
  /\ caddy \in [Site -> {None} \cup Deployed]
  /\ loaded \in [Site -> {None} \cup Deployed]
  /\ copy \in [Site -> {None} \cup Deployed]
  /\ box \in [Site -> {None} \cup Containers]
  /\ script \in [Proc -> Scripts]
  /\ lent \in BOOLEAN

(* No port is of two sites.                                                 *)
OwnPorts ==
  ~lent => \A s, t \in Site : \A q \in Port : Light!Has(s, q) /\ Light!Has(t, q) => s = t

LightInv ==
  /\ LightTypeOK /\ OwnPorts
  /\ AloneOnSite(script)
  /\ \A p \in Proc : Means(script[p]) /\ Done(script[p], dir, caddy, loaded, box)

LEMMA NoneIsNoRecord ==
  /\ 0 \notin Port
  /\ \A d \in Deployed \cup Containers : d # None /\ d # Bare
BY LightAssumption DEF Deployed, Containers

LEMMA RestIs == Light!Rest \in Scripts /\ Light!Rest.at = "idle" /\ Means(Light!Rest)
BY DEF Light!Rest, Scripts, Means, Writing, Deleting

(* A script that ended is forgotten, or was not heard to its end.           *)
Gone == {Light!Rest, Light!Unheard}

LEMMA GoneIs ==
  \A c \in Gone : /\ c \in Scripts /\ Means(c) /\ c.at \in {"idle", "ok"}
                  /\ c.at # "idle" => ~c.alone
                  /\ \A d, e, f, g : Done(c, d, e, f, g)
<1>1. Light!Unheard \in Scripts /\ Means(Light!Unheard) /\ Light!Unheard.at = "ok" /\ ~Light!Unheard.alone
  BY DEF Light!Unheard, Scripts, Means, Writing, Deleting
<1> QED BY <1>1, RestIs DEF Gone, Done

LEMMA LightInitInv == Light!Init => LightInv
<1> SUFFICES ASSUME Light!Init PROVE LightInv
  OBVIOUS
<1>1. LightTypeOK
  BY RestIs DEF Light!Init, LightTypeOK
<1>2. \A p \in Proc : script[p] = Light!Rest
  BY DEF Light!Init
<1>3. \A s \in Site : dir[s] = None /\ caddy[s] = None /\ loaded[s] = None /\ box[s] = None
  BY DEF Light!Init
<1>4. \A s \in Site, q \in Port : ~Light!Has(s, q)
  BY <1>2, <1>3, RestIs DEF Light!Has, Light!Ended
<1>5. \A p \in Proc : Means(script[p]) /\ Done(script[p], dir, caddy, loaded, box)
  BY <1>2, RestIs DEF Done
<1>6. AloneOnSite(script)
  BY <1>2, RestIs DEF AloneOnSite
<1> QED BY <1>1, <1>4, <1>5, <1>6 DEF LightInv, OwnPorts

(* What a site has in its files it has.                                     *)
LEMMA HasOfFiles ==
  ASSUME LightInv, NEW s \in Site
  PROVE  /\ dir[s] \notin {None, Bare} => dir[s] \in Deployed /\ Light!Has(s, dir[s].port)
         /\ caddy[s] \notin {None, Bare} => Light!Has(s, caddy[s].port)
         /\ loaded[s] \notin {None, Bare} => Light!Has(s, loaded[s].port)
         /\ box[s] \notin {None, Bare} => Light!Has(s, box[s].port)
BY DEF LightInv, LightTypeOK, Light!Has

(* The step of a script p, which is for the site s, and what it has to see  *)
(* to: c is what it does next.                                              *)
LEMMA ScriptMoves ==
  ASSUME LightInv, NEW p \in Proc, NEW s \in Site, NEW c \in Scripts,
         script[p].at \notin {"idle", "ok"}, script[p].site = s,
         script' = [script EXCEPT ![p] = c], Means(c),
         \/ c \in Gone
         \/ /\ c.at # "idle" /\ c.site = s /\ c.port = script[p].port
            /\ c.alone = script[p].alone,
         UNCHANGED <<copy, lent>>,
         dir' \in [Site -> {None, Bare} \cup Deployed],
         caddy' \in [Site -> {None} \cup Deployed],
         loaded' \in [Site -> {None} \cup Deployed],
         box' \in [Site -> {None} \cup Containers],
         \A t \in Site \ {s} : dir'[t] = dir[t] /\ caddy'[t] = caddy[t] /\ box'[t] = box[t],
         \A t \in Site : loaded'[t] \in {loaded[t], caddy[t]},
         dir'[s] \in {dir[s], None, Bare} \/ dir'[s].port = script[p].port,
         caddy'[s] \in {caddy[s], None} \/ caddy'[s].port = script[p].port,
         \/ box'[s] \in {box[s], None}
         \/ dir[s] \notin {None, Bare} /\ box'[s].port = dir[s].port,
         c \notin Gone => Done(c, dir', caddy', loaded', box')
  PROVE  LightInv'
<1>1. script' \in [Proc -> Scripts] /\ script'[p] = c
      /\ \A r \in Proc \ {p} : script'[r] = script[r]
  BY DEF LightInv, LightTypeOK
<1>2. LightTypeOK'
  BY <1>1 DEF LightInv, LightTypeOK
<1>3. OwnPorts'
  <2>1. ASSUME NEW t \in Site, NEW q \in Port, Light!Has(t, q)' PROVE Light!Has(t, q)
    <3>1. CASE \E f \in {dir'[t], caddy'[t], loaded'[t], box'[t]} \ {None, Bare} : f.port = q
      <4>1. Light!Has(s, script[p].port)
        BY DEF Light!Has, Light!Ended
      <4>2. CASE dir'[t] \notin {None, Bare} /\ dir'[t].port = q
        BY <4>1, <4>2, HasOfFiles
      <4>3. CASE caddy'[t] \notin {None, Bare} /\ caddy'[t].port = q
        BY <4>1, <4>3, HasOfFiles
      <4>4. CASE loaded'[t] \notin {None, Bare} /\ loaded'[t].port = q
        BY <4>4, HasOfFiles
      <4>5. CASE box'[t] \notin {None, Bare} /\ box'[t].port = q
        BY <4>5, HasOfFiles
      <4> QED BY <3>1, <4>2, <4>3, <4>4, <4>5
    <3>2. CASE \E r \in Proc : script'[r].site = t /\ script'[r].at \notin {"idle", "ok"} /\ script'[r].port = q
      <4>1. PICK r \in Proc : script'[r].site = t /\ script'[r].at \notin {"idle", "ok"} /\ script'[r].port = q
        BY <3>2
      <4>2. script[r].site = t /\ script[r].at \notin {"idle", "ok"} /\ script[r].port = q
        BY <1>1, <4>1, GoneIs
      <4> QED BY <4>2 DEF Light!Has, Light!Ended
    <3> QED BY <2>1, <3>1, <3>2 DEF Light!Has, Light!Ended
  <2> QED BY <2>1 DEF LightInv, OwnPorts
<1>4. AloneOnSite(script')
  <2> SUFFICES ASSUME NEW r \in Proc, NEW u \in Proc \ {r}, script'[r].at # "idle", script'[r].alone
               PROVE  script'[u].at \in {"idle", "ok"} \/ script'[u].site # script'[r].site
    BY DEF AloneOnSite
  <2>1. script[r].at # "idle" /\ script[r].alone /\ script[r].site = script'[r].site
    BY <1>1, GoneIs
  <2>2. script[u].at \in {"idle", "ok"} \/ script[u].site # script[r].site
    BY <2>1 DEF LightInv, AloneOnSite
  <2> QED BY <1>1, <2>1, <2>2, GoneIs
<1>5. ASSUME NEW r \in Proc PROVE Means(script'[r]) /\ Done(script'[r], dir', caddy', loaded', box')
  <2>1. CASE r = p
    BY <1>1, <2>1, GoneIs
  <2>2. CASE r # p
    <3>1. script'[r] = script[r] /\ Means(script[r]) /\ Done(script[r], dir, caddy, loaded, box)
      BY <1>1, <2>2 DEF LightInv
    <3>2. CASE script[r].alone /\ script[r].at # "idle"
      <4>1. script[r].site # s
        BY <2>2, <3>2 DEF LightInv, AloneOnSite
      <4>2. script[r].at \in Writing \cup {"ok"} => script[r].site \in Site
        BY <3>1, <3>2 DEF Means
      <4>3. CASE script[r].at \in Writing \cup {"ok"}
        <5> DEFINE T == script[r].site
        <5>1. dir'[T] = dir[T] /\ caddy'[T] = caddy[T] /\ box'[T] = box[T]
              /\ loaded'[T] \in {loaded[T], caddy[T]}
          BY <4>1, <4>2, <4>3
        <5>2. Done(script[r], dir', caddy', loaded', box')
          BY <3>1, <5>1 DEF Done
        <5> QED BY <3>1, <5>2
      <4>4. CASE script[r].at \notin Writing \cup {"ok"}
        BY <3>1, <4>4 DEF Done, Writing
      <4> QED BY <4>3, <4>4
    <3>3. CASE ~script[r].alone \/ script[r].at = "idle"
      BY <3>1, <3>3 DEF Done
    <3> QED BY <3>1, <3>2, <3>3
  <2> QED BY <2>1, <2>2
<1> QED BY <1>2, <1>3, <1>4, <1>5 DEF LightInv

(* The two ways for a step to end: the script ends, or goes on.             *)
LEMMA StepsOn ==
  ASSUME LightInv, NEW p \in Proc, script[p].at \notin {"idle", "ok"},
         NEW to \in {"ok"} \cup Writing \cup Deleting, Light!Goes(p, to)
  PROVE  \E c \in Scripts :
           /\ script' = [script EXCEPT ![p] = c]
           /\ c = [script[p] EXCEPT !.at = to]
           /\ c.at = to /\ c.site = script[p].site /\ c.port = script[p].port
           /\ c.fqdn = script[p].fqdn /\ c.alone = script[p].alone /\ c.what = script[p].what
           /\ c.unheard = script[p].unheard
<1> DEFINE c == [script[p] EXCEPT !.at = to]
<1>1. script[p] \in Scripts
  BY DEF LightInv, LightTypeOK
<1>2. script' = [script EXCEPT ![p] = c]
  BY DEF Light!Goes
<1>3. /\ c \in Scripts
      /\ c.at = to /\ c.site = script[p].site /\ c.port = script[p].port
      /\ c.fqdn = script[p].fqdn /\ c.alone = script[p].alone /\ c.what = script[p].what
           /\ c.unheard = script[p].unheard
  BY <1>1 DEF Scripts
<1> QED BY <1>2, <1>3

LEMMA StepEnds ==
  ASSUME NEW p \in Proc, Light!Ends(p)
  PROVE  \E c \in Gone : script' = [script EXCEPT ![p] = c]
BY DEF Light!Ends, Gone

(* What a writing script has been given, and has done.                      *)
LEMMA AtWriting ==
  ASSUME LightInv, NEW p \in Proc, script[p].at \in Writing
  PROVE  /\ script[p].site \in Site /\ script[p].port \in Port /\ script[p].fqdn \in Fqdn
         /\ script[p].at \notin {"idle", "ok"} /\ script[p].at \notin Deleting
         /\ Light!Whole(p) \in Deployed /\ Light!Whole(p).port = script[p].port
         /\ Light!Whole(p) = [port |-> script[p].port, fqdn |-> script[p].fqdn]
         /\ script[p].what = "rename" => script[p].at \in {"rename", "reload"}
         /\ script[p].at = "rename" => script[p].what = "rename"
         /\ Done(script[p], dir, caddy, loaded, box) /\ ~script[p].unheard
BY DEF LightInv, Means, Writing, Deleting, Deployed, Light!Whole

(* What a script that writes may change.                                    *)
Writes(p, s) ==
  /\ UNCHANGED <<copy, lent>>
  /\ dir' = dir \/ \E d \in {None, Bare, Light!Whole(p)} : dir' = [dir EXCEPT ![s] = d]
  /\ caddy' = caddy \/ Light!Routed(p)
  /\ loaded' \in {loaded, caddy}
  /\ \/ box' = box \/ Light!Removed(p)
     \/ Light!Composed(s) /\ \E up \in BOOLEAN : Light!Boxed(s, up)

LEMMA WhatIsWritten ==
  ASSUME LightInv, NEW p \in Proc, NEW s \in Site, s = script[p].site, script[p].at \in Writing,
         Writes(p, s)
  PROVE  /\ dir' \in [Site -> {None, Bare} \cup Deployed]
         /\ caddy' \in [Site -> {None} \cup Deployed]
         /\ loaded' \in [Site -> {None} \cup Deployed]
         /\ box' \in [Site -> {None} \cup Containers]
         /\ \A t \in Site \ {s} : dir'[t] = dir[t] /\ caddy'[t] = caddy[t] /\ box'[t] = box[t]
         /\ \A t \in Site : loaded'[t] \in {loaded[t], caddy[t]}
         /\ dir'[s] \in {dir[s], None, Bare} \/ dir'[s].port = script[p].port
         /\ caddy'[s] \in {caddy[s], None} \/ caddy'[s].port = script[p].port
         /\ \/ box'[s] \in {box[s], None}
            \/ dir[s] \notin {None, Bare} /\ box'[s].port = dir[s].port
<1>2. /\ dir' \in [Site -> {None, Bare} \cup Deployed]
      /\ \A t \in Site \ {s} : dir'[t] = dir[t]
      /\ dir'[s] \in {dir[s], None, Bare} \/ dir'[s].port = script[p].port
  BY AtWriting DEF LightInv, LightTypeOK, Writes
<1>3. /\ caddy' \in [Site -> {None} \cup Deployed]
      /\ \A t \in Site \ {s} : caddy'[t] = caddy[t]
      /\ caddy'[s] \in {caddy[s], None} \/ caddy'[s].port = script[p].port
  BY AtWriting DEF LightInv, LightTypeOK, Light!Routed, Writes
<1>4. /\ box' \in [Site -> {None} \cup Containers]
      /\ \A t \in Site \ {s} : box'[t] = box[t]
      /\ \/ box'[s] \in {box[s], None}
         \/ dir[s] \notin {None, Bare} /\ box'[s].port = dir[s].port
  <2>1. CASE box' = box \/ Light!Removed(p)
    BY <2>1, AtWriting DEF LightInv, LightTypeOK, Light!Removed
  <2>2. CASE Light!Composed(s) /\ \E up \in BOOLEAN : Light!Boxed(s, up)
    <3>1. PICK up \in BOOLEAN : box' = [box EXCEPT ![s] = [port |-> dir[s].port, up |-> up]]
      BY <2>2 DEF Light!Boxed
    <3>2. dir[s] \in Deployed /\ dir[s] \notin {None, Bare}
      BY <2>2 DEF LightInv, LightTypeOK, Light!Composed
    <3>3. [port |-> dir[s].port, up |-> up] \in Containers
      BY <3>2 DEF Deployed, Containers
    <3> QED BY <3>1, <3>2, <3>3 DEF LightInv, LightTypeOK
  <2> QED BY <2>1, <2>2 DEF Writes
<1>5. loaded' \in [Site -> {None} \cup Deployed] /\ \A t \in Site : loaded'[t] \in {loaded[t], caddy[t]}
  BY DEF LightInv, LightTypeOK, Writes
<1> QED BY <1>2, <1>3, <1>4, <1>5

(* A script that writes ends, whatever it has written.                      *)
LEMMA WritingEnds ==
  ASSUME LightInv, NEW p \in Proc, script[p].at \in Writing, Light!Ends(p), Writes(p, script[p].site)
  PROVE  LightInv'
<1> DEFINE s == script[p].site
<1>1. s \in Site /\ script[p].at \notin {"idle", "ok"}
  BY AtWriting
<1>2. PICK c \in Gone : script' = [script EXCEPT ![p] = c]
  BY StepEnds
<1>4. UNCHANGED <<copy, lent>> /\ c \in Scripts /\ Means(c)
  BY GoneIs DEF Writes
<1> HIDE DEF s
<1>3. s = script[p].site /\ Writes(p, s)
  BY DEF s
<1> QED BY <1>1, <1>2, <1>3, <1>4, WhatIsWritten, ScriptMoves

(* A script that writes goes on: what it has then done if nobody crosses it.*)
LEMMA WritingGoes ==
  ASSUME LightInv, NEW p \in Proc, script[p].at \in Writing, Writes(p, script[p].site),
         NEW to \in {"ok"} \cup Writing, Light!Goes(p, to),
         script[p].what = "rename" => to = "reload", to # "rename",
         script[p].alone /\ script[p].what # "rename" =>
           /\ to \in {"route", "reload", "up", "probe"} => dir'[script[p].site] = Light!Whole(p)
           /\ to \in {"reload", "up", "probe", "ok"} => caddy'[script[p].site] = Light!Whole(p)
           /\ to \in {"up", "probe", "ok"} => loaded'[script[p].site] = Light!Whole(p)
           /\ to \in {"probe", "ok"} =>
                box'[script[p].site] = [port |-> script[p].port, up |-> TRUE]
  PROVE  LightInv'
<1>1. PICK c \in Scripts :
           /\ script' = [script EXCEPT ![p] = c]
           /\ c.at = to /\ c.site = script[p].site /\ c.port = script[p].port
           /\ c.fqdn = script[p].fqdn /\ c.alone = script[p].alone /\ c.what = script[p].what
           /\ c.unheard = script[p].unheard
  BY AtWriting, StepsOn
<1>2. Means(c)
  BY <1>1, AtWriting DEF Means, Writing, Deleting
<1>3. Done(c, dir', caddy', loaded', box')
  BY <1>1, AtWriting DEF Done
<1> DEFINE s == script[p].site
<1>4. s \in Site /\ script[p].at \notin {"idle", "ok"} /\ c.at # "idle"
  BY <1>1, AtWriting DEF Writing
<1>5. s = script[p].site /\ Writes(p, s) /\ c.site = s /\ UNCHANGED <<copy, lent>>
  BY <1>1 DEF Writes
<1> HIDE DEF s
<1> QED BY <1>1, <1>2, <1>3, <1>4, <1>5, WhatIsWritten, ScriptMoves

LEMMA FilesKeeps == ASSUME LightInv, NEW p \in Proc, Light!Files(p) PROVE LightInv'
<1> DEFINE s == script[p].site
<1>1. script[p].at \in Writing /\ UNCHANGED <<caddy, loaded, box, copy, lent>> /\ script[p].at = "files"
  BY DEF Light!Files, Light!At, Writing
<1>2. CASE dir' = [dir EXCEPT ![s] = Light!Whole(p)] /\ Light!Goes(p, "route")
  <2>1. dir'[s] = Light!Whole(p) /\ script[p].what # "rename"
    BY <1>1, <1>2, AtWriting DEF LightInv, LightTypeOK
  <2>2. Writes(p, s) /\ "route" \in Writing
    BY <1>1, <1>2 DEF Writes, Writing
  <2> QED BY <1>1, <1>2, <2>1, <2>2, WritingGoes
<1>3. CASE dir' \in {[dir EXCEPT ![s] = d] : d \in {Bare, Light!Whole(p)}} /\ Light!Ends(p)
  BY <1>1, <1>3, WritingEnds DEF Writes
<1>4. CASE UNCHANGED dir /\ Light!Ends(p)
  BY <1>1, <1>4, WritingEnds DEF Writes
<1> QED BY <1>2, <1>3, <1>4 DEF Light!Files

LEMMA RouteKeeps == ASSUME LightInv, NEW p \in Proc, Light!Route(p) PROVE LightInv'
<1> DEFINE s == script[p].site
<1>1. script[p].at \in Writing /\ UNCHANGED <<dir, loaded, box, copy, lent>> /\ script[p].at = "route"
  BY DEF Light!Route, Light!At, Writing
<1>2. CASE Light!Routed(p) /\ Light!Goes(p, "reload")
  <2>1. caddy'[s] = Light!Whole(p)
    BY <1>1, <1>2, AtWriting DEF LightInv, LightTypeOK, Light!Routed
  <2>2. Writes(p, s) /\ "reload" \in Writing
    BY <1>1, <1>2 DEF Writes, Writing
  <2>3. script[p].alone /\ script[p].what # "rename" => dir'[s] = Light!Whole(p)
    BY <1>1, AtWriting DEF Done
  <2> QED BY <1>1, <1>2, <2>1, <2>2, <2>3, WritingGoes
<1>3. CASE (Light!Routed(p) \/ UNCHANGED caddy) /\ Light!Ends(p)
  BY <1>1, <1>3, WritingEnds DEF Writes
<1> QED BY <1>2, <1>3 DEF Light!Route

LEMMA ReloadKeeps == ASSUME LightInv, NEW p \in Proc, Light!Reload(p) PROVE LightInv'
<1> DEFINE s == script[p].site
<1>1. script[p].at \in Writing /\ UNCHANGED <<dir, caddy, box, copy, lent>> /\ script[p].at = "reload"
  BY DEF Light!Reload, Light!At, Writing
<1>2. CASE loaded' = caddy /\ script[p].what # "rename" /\ Light!Goes(p, "up")
  <2>1. script[p].alone /\ script[p].what # "rename" =>
          dir'[s] = Light!Whole(p) /\ caddy'[s] = Light!Whole(p) /\ loaded'[s] = Light!Whole(p)
    BY <1>1, <1>2, AtWriting DEF Done
  <2>2. Writes(p, s) /\ "up" \in Writing
    BY <1>1, <1>2 DEF Writes, Writing
  <2> QED BY <1>1, <1>2, <2>1, <2>2, WritingGoes
<1>3. CASE loaded' \in {loaded, caddy} /\ Light!Ends(p)
  BY <1>1, <1>3, WritingEnds DEF Writes
<1> QED BY <1>2, <1>3 DEF Light!Reload

LEMMA UpKeeps == ASSUME LightInv, NEW p \in Proc, Light!Up(p) PROVE LightInv'
<1> DEFINE s == script[p].site
<1>1. script[p].at \in Writing /\ UNCHANGED <<dir, caddy, loaded, copy, lent>> /\ script[p].at = "up"
  BY DEF Light!Up, Light!At, Writing
<1>2. CASE Light!Composed(s) /\ Light!Started(s) /\ Light!Goes(p, "probe")
  <2>1. script[p].alone /\ script[p].what # "rename" =>
          dir'[s] = Light!Whole(p) /\ caddy'[s] = Light!Whole(p) /\ loaded'[s] = Light!Whole(p)
    BY <1>1, AtWriting DEF Done
  <2>2. Light!Boxed(s, TRUE) /\ box'[s] = [port |-> dir[s].port, up |-> TRUE]
    BY <1>1, <1>2, AtWriting DEF Light!Started, Light!Boxed, LightInv, LightTypeOK
  <2>3. script[p].alone /\ script[p].what # "rename" =>
          box'[s] = [port |-> script[p].port, up |-> TRUE]
    BY <1>1, <2>1, <2>2, AtWriting
  <2>4. Writes(p, s) /\ "probe" \in Writing
    BY <1>1, <1>2, <2>2 DEF Writes, Writing
  <2>5. script[p].what # "rename"
    BY <1>1, AtWriting
  <2> QED BY <1>1, <1>2, <2>1, <2>3, <2>4, <2>5, WritingGoes
<1>3. CASE Light!Composed(s) /\ Light!Boxed(s, FALSE) /\ Light!Ends(p)
  BY <1>1, <1>3, WritingEnds DEF Writes
<1>4. CASE UNCHANGED box /\ Light!Ends(p)
  BY <1>1, <1>4, WritingEnds DEF Writes
<1> QED BY <1>2, <1>3, <1>4 DEF Light!Up

LEMMA ProbeKeeps == ASSUME LightInv, NEW p \in Proc, Light!Probe(p) PROVE LightInv'
<1> DEFINE s == script[p].site
<1>1. script[p].at \in Writing /\ UNCHANGED <<dir, caddy, loaded, box, copy, lent>>
      /\ script[p].at = "probe" /\ Writes(p, s)
  BY DEF Light!Probe, Light!At, Light!host, Writing, Writes
<1>2. CASE Light!Goes(p, "ok")
  <2>1. script[p].alone /\ script[p].what # "rename" =>
          /\ caddy'[s] = Light!Whole(p) /\ loaded'[s] = Light!Whole(p)
          /\ box'[s] = [port |-> script[p].port, up |-> TRUE]
    BY <1>1, AtWriting DEF Done
  <2>2. script[p].what # "rename"
    BY <1>1, AtWriting
  <2> QED BY <1>1, <1>2, <2>1, <2>2, WritingGoes
<1>3. CASE Light!Ends(p)
  BY <1>1, <1>3, WritingEnds
<1> QED BY <1>2, <1>3 DEF Light!Probe

LEMMA RenameKeeps == ASSUME LightInv, NEW p \in Proc, Light!Rename(p) PROVE LightInv'
<1> DEFINE s == script[p].site
<1>1. script[p].at \in Writing /\ UNCHANGED <<loaded, box, copy, lent>> /\ script[p].at = "rename"
  BY DEF Light!Rename, Light!At, Writing
<1>2. Writes(p, s)
  BY <1>1 DEF Light!Rename, Writes
<1>3. CASE Light!Goes(p, "reload")
  <2>1. script[p].what = "rename" /\ "reload" \in Writing
    BY <1>1, AtWriting DEF Writing
  <2> QED BY <1>1, <1>2, <1>3, <2>1, WritingGoes
<1>5. CASE Light!Ends(p)
  BY <1>1, <1>2, <1>5, WritingEnds
<1> QED BY <1>3, <1>5 DEF Light!Rename

LEMMA WipeKeeps == ASSUME LightInv, NEW p \in Proc, Light!Wipe(p) PROVE LightInv'
<1> DEFINE s == script[p].site
<1>1. script[p].at \in Writing /\ script[p].at = "wipe" /\ Writes(p, s)
  BY DEF Light!Wipe, Light!At, Writing, Writes
<1>2. CASE Light!Goes(p, "extract")
  <2>1. script[p].what # "rename" /\ "extract" \in Writing
    BY <1>1, AtWriting DEF Writing
  <2> QED BY <1>1, <1>2, <2>1, WritingGoes
<1>3. CASE Light!Ends(p)
  BY <1>1, <1>3, WritingEnds
<1> QED BY <1>2, <1>3 DEF Light!Wipe

LEMMA ExtractKeeps == ASSUME LightInv, NEW p \in Proc, Light!Extract(p) PROVE LightInv'
<1> DEFINE s == script[p].site
<1>1. script[p].at \in Writing /\ script[p].at = "extract" /\ Writes(p, s)
  BY DEF Light!Extract, Light!At, Writing, Writes
<1>2. CASE dir' = [dir EXCEPT ![s] = Light!Whole(p)] /\ Light!Goes(p, "route")
  <2>1. script[p].what # "rename" /\ "route" \in Writing /\ dir'[s] = Light!Whole(p)
    BY <1>1, <1>2, AtWriting DEF Writing, LightInv, LightTypeOK
  <2> QED BY <1>1, <1>2, <2>1, WritingGoes
<1>3. CASE Light!Ends(p)
  BY <1>1, <1>3, WritingEnds
<1> QED BY <1>2, <1>3 DEF Light!Extract

LEMMA DeleteKeeps == ASSUME LightInv, NEW p \in Proc, Light!Delete(p) PROVE LightInv'
<1> DEFINE s == script[p].site
<1>1. PICK from \in Deleting : script[p].at = from
  BY DEF Light!Delete, Light!At, Deleting
<1>2. /\ s \in Site /\ script[p].at \notin {"idle", "ok"} /\ script[p].port = 0
      /\ ~script[p].unheard
  BY <1>1 DEF LightInv, Means, Deleting
<1>3. UNCHANGED <<copy, lent>>
  BY DEF Light!Delete
<1>4. /\ dir' = dir \/ dir' = [dir EXCEPT ![s] = None]
      /\ caddy' = caddy \/ caddy' = [caddy EXCEPT ![s] = None]
      /\ loaded' \in {loaded, caddy}
      /\ box' = box \/ box' = [box EXCEPT ![s] = None]
  BY DEF Light!Delete, Light!Removed
<1>5. PICK c \in Scripts :
        /\ script' = [script EXCEPT ![p] = c] /\ Means(c) /\ Done(c, dir', caddy', loaded', box')
        /\ \/ c \in Gone
           \/ /\ c.at # "idle" /\ c.site = s /\ c.port = script[p].port
              /\ c.alone = script[p].alone
  <2>1. CASE Light!Ends(p)
    BY <2>1, StepEnds, GoneIs
  <2>2. CASE \E to \in Deleting : Light!Goes(p, to)
    <3>1. PICK to \in Deleting : Light!Goes(p, to)
      BY <2>2
    <3>2. PICK c \in Scripts :
            /\ script' = [script EXCEPT ![p] = c]
            /\ c.at = to /\ c.site = s /\ c.port = script[p].port /\ c.alone = script[p].alone
            /\ ~c.unheard
      BY <1>2, <3>1, StepsOn
    <3>3. Means(c) /\ Done(c, dir', caddy', loaded', box') /\ c.at # "idle"
      BY <1>2, <3>2 DEF Means, Done, Writing, Deleting
    <3> QED BY <3>2, <3>3
  <2> QED BY <2>1, <2>2 DEF Light!Delete, Deleting
<1> HIDE DEF s
<1>6. s = script[p].site
  BY DEF s
<1>7. /\ dir' \in [Site -> {None, Bare} \cup Deployed]
      /\ caddy' \in [Site -> {None} \cup Deployed]
      /\ loaded' \in [Site -> {None} \cup Deployed]
      /\ box' \in [Site -> {None} \cup Containers]
      /\ \A t \in Site \ {s} : dir'[t] = dir[t] /\ caddy'[t] = caddy[t] /\ box'[t] = box[t]
      /\ \A t \in Site : loaded'[t] \in {loaded[t], caddy[t]}
      /\ dir'[s] \in {dir[s], None, Bare} /\ caddy'[s] \in {caddy[s], None}
      /\ box'[s] \in {box[s], None}
  BY <1>2, <1>4 DEF LightInv, LightTypeOK
<1> QED BY <1>2, <1>3, <1>5, <1>6, <1>7, ScriptMoves

(* Every command for the site s that is not forgotten is crossed.           *)
LEMMA CrossedIs ==
  ASSUME LightInv, NEW s \in Site
  PROVE  /\ Light!Crossed(s) \in [Proc -> Scripts]
         /\ \A r \in Proc :
              /\ script[r].site = s => Light!Crossed(s)[r] = [script[r] EXCEPT !.alone = FALSE]
              /\ script[r].site # s => Light!Crossed(s)[r] = script[r]
              /\ Light!Crossed(s)[r].at = script[r].at /\ Light!Crossed(s)[r].site = script[r].site
              /\ Light!Crossed(s)[r].port = script[r].port /\ Light!Crossed(s)[r].fqdn = script[r].fqdn
              /\ Light!Crossed(s)[r].what = script[r].what
              /\ Light!Crossed(s)[r].unheard = script[r].unheard
              /\ Light!Crossed(s)[r].alone <=> script[r].alone /\ script[r].site # s
              /\ Means(Light!Crossed(s)[r])
<1>1. ASSUME NEW r \in Proc
      PROVE  /\ [script[r] EXCEPT !.alone = FALSE] \in Scripts
             /\ [script[r] EXCEPT !.alone = FALSE].at = script[r].at
             /\ [script[r] EXCEPT !.alone = FALSE].site = script[r].site
             /\ [script[r] EXCEPT !.alone = FALSE].port = script[r].port
             /\ [script[r] EXCEPT !.alone = FALSE].fqdn = script[r].fqdn
             /\ [script[r] EXCEPT !.alone = FALSE].what = script[r].what
             /\ [script[r] EXCEPT !.alone = FALSE].unheard = script[r].unheard
             /\ ~[script[r] EXCEPT !.alone = FALSE].alone
  BY DEF LightInv, LightTypeOK, Scripts
<1>2. script \in [Proc -> Scripts] /\ \A r \in Proc : Means(script[r])
  BY DEF LightInv, LightTypeOK
<1>3. /\ Light!Crossed(s) \in [Proc -> Scripts]
      /\ \A r \in Proc :
              /\ script[r].site = s => Light!Crossed(s)[r] = [script[r] EXCEPT !.alone = FALSE]
              /\ script[r].site # s => Light!Crossed(s)[r] = script[r]
  BY <1>1, <1>2 DEF Light!Crossed
<1>4. ASSUME NEW r \in Proc
      PROVE  /\ Light!Crossed(s)[r].at = script[r].at /\ Light!Crossed(s)[r].site = script[r].site
             /\ Light!Crossed(s)[r].port = script[r].port /\ Light!Crossed(s)[r].fqdn = script[r].fqdn
             /\ Light!Crossed(s)[r].what = script[r].what
             /\ Light!Crossed(s)[r].unheard = script[r].unheard
             /\ Light!Crossed(s)[r].alone <=> script[r].alone /\ script[r].site # s
  BY <1>1, <1>3
<1>5. \A r \in Proc : Means(Light!Crossed(s)[r])
  BY <1>2, <1>4 DEF Means
<1> QED BY <1>3, <1>4, <1>5

(* The container of a site is started or stopped, or nothing of it changes. *)
LEMMA BoxKeeps ==
  ASSUME LightInv, NEW s \in Site, Light!Start(s) \/ Light!Stop(s)
  PROVE  LightInv'
<1>1. UNCHANGED <<dir, caddy, loaded, copy, lent>> /\ script' = Light!Crossed(s) /\ Light!Composed(s)
  BY DEF Light!Start, Light!Stop
<1>2. /\ box' \in [Site -> {None} \cup Containers]
      /\ \A t \in Site \ {s} : box'[t] = box[t]
      /\ box'[s] # None => box'[s].port = dir[s].port \/ (box[s] # None /\ box'[s].port = box[s].port)
  <2>1. CASE \E up \in BOOLEAN : Light!Boxed(s, up)
    <3>1. PICK up \in BOOLEAN : box' = [box EXCEPT ![s] = [port |-> dir[s].port, up |-> up]]
      BY <2>1 DEF Light!Boxed
    <3>2. dir[s] \in Deployed
      BY <1>1 DEF LightInv, LightTypeOK, Light!Composed
    <3>3. [port |-> dir[s].port, up |-> up] \in Containers
      BY <3>2 DEF Deployed, Containers
    <3> QED BY <3>1, <3>2, <3>3 DEF LightInv, LightTypeOK
  <2>2. CASE Light!Stop(s)
    <3>1. box[s] # None /\ box[s] \in Containers /\ box' = [box EXCEPT ![s] = [box[s] EXCEPT !.up = FALSE]]
      BY <2>2 DEF Light!Stop, LightInv, LightTypeOK
    <3>2. [box[s] EXCEPT !.up = FALSE] \in Containers /\ [box[s] EXCEPT !.up = FALSE].port = box[s].port
      BY <3>1 DEF Containers
    <3> QED BY <3>1, <3>2 DEF LightInv, LightTypeOK
  <2> QED BY <2>1, <2>2 DEF Light!Start, Light!Started
<1>3. LightTypeOK'
  BY <1>1, <1>2, CrossedIs DEF LightInv, LightTypeOK
<1>4. OwnPorts'
  <2>1. ASSUME NEW t \in Site, NEW q \in Port, Light!Has(t, q)' PROVE Light!Has(t, q)
    <3>1. CASE \E f \in {dir[t], caddy[t], loaded[t], box'[t]} \ {None, Bare} : f.port = q
      <4>1. CASE \E f \in {dir[t], caddy[t], loaded[t]} \ {None, Bare} : f.port = q
        BY <4>1 DEF Light!Has
      <4>2. CASE box'[t] \notin {None, Bare} /\ box'[t].port = q
        <5>1. CASE box'[t] = box[t]
          BY <4>2, <5>1, HasOfFiles
        <5>2. CASE box'[t] # box[t]
          <6>1. t = s /\ box'[s] # None /\ dir[s] \notin {None, Bare}
            BY <1>1, <1>2, <4>2, <5>2 DEF Light!Composed
          <6>2. Light!Has(s, dir[s].port) /\ (box[s] # None => Light!Has(s, box[s].port))
            BY <6>1, HasOfFiles, NoneIsNoRecord DEF LightInv, LightTypeOK
          <6> QED BY <1>2, <4>2, <6>1, <6>2
        <5> QED BY <5>1, <5>2
      <4> QED BY <3>1, <4>1, <4>2
    <3>2. CASE \E r \in Proc : script'[r].site = t /\ script'[r].at \notin {"idle", "ok"} /\ script'[r].port = q
      <4>1. PICK r \in Proc : script'[r].site = t /\ script'[r].at \notin {"idle", "ok"} /\ script'[r].port = q
        BY <3>2
      <4>2. script[r].at = script'[r].at /\ script[r].site = script'[r].site /\ script[r].port = script'[r].port
        BY <1>1, CrossedIs
      <4> QED BY <4>1, <4>2 DEF Light!Has, Light!Ended
    <3> QED BY <1>1, <2>1, <3>1, <3>2 DEF Light!Has, Light!Ended
  <2> QED BY <1>1, <2>1 DEF LightInv, OwnPorts
<1>5. AloneOnSite(script')
  <2>1. \A r \in Proc : script'[r].at = script[r].at /\ script'[r].site = script[r].site
                        /\ (script'[r].alone => script[r].alone)
    BY <1>1, CrossedIs
  <2> QED BY <2>1 DEF LightInv, AloneOnSite
<1>6. ASSUME NEW r \in Proc PROVE Means(script'[r]) /\ Done(script'[r], dir', caddy', loaded', box')
  <2>1. Means(script'[r])
    BY <1>1, CrossedIs
  <2>2. CASE script[r].site = s
    BY <1>1, <2>2, CrossedIs DEF Done
  <2>3. CASE script[r].site # s
    <3>1. script'[r] = script[r] /\ Done(script[r], dir, caddy, loaded, box) /\ Means(script[r])
      BY <1>1, <2>3, CrossedIs DEF LightInv
    <3>2. script[r].alone /\ script[r].at \in {"probe", "ok"} =>
            box'[script[r].site] = box[script[r].site]
      BY <1>2, <2>3, <3>1 DEF Means, Writing
    <3> QED BY <1>1, <3>1, <3>2 DEF Done
  <2> QED BY <2>1, <2>2, <2>3
<1> QED BY <1>3, <1>4, <1>5, <1>6 DEF LightInv

LEMMA CopyKeeps == ASSUME LightInv, NEW s \in Site, Light!Copy(s) PROVE LightInv'
<1>1. UNCHANGED <<dir, caddy, loaded, box, script, lent>>
  BY DEF Light!Copy, Light!host
<1>2. copy' \in [Site -> {None} \cup Deployed]
  BY DEF Light!Copy, Light!Composed, LightInv, LightTypeOK
<1> QED BY <1>1, <1>2 DEF LightInv, LightTypeOK, OwnPorts, Light!Has, Light!Ended

LEMMA HostRestartKeeps == ASSUME LightInv, Light!HostRestart PROVE LightInv'
<1>1. /\ UNCHANGED <<dir, caddy, box, copy, lent>>
      /\ script' \in [Proc -> Gone]
  BY DEF Light!HostRestart, Gone
<1>2. loaded' \in [Site -> {None} \cup Deployed] /\ \A t \in Site : loaded'[t] \in {None, caddy[t]}
  BY DEF Light!HostRestart, LightInv, LightTypeOK
<1>3. script' \in [Proc -> Scripts] /\ \A p \in Proc : script'[p] \in Gone
  BY <1>1, GoneIs
<1>4. LightTypeOK'
  BY <1>1, <1>2, <1>3 DEF LightInv, LightTypeOK
<1>5. OwnPorts'
  <2>1. ASSUME NEW t \in Site, NEW q \in Port, Light!Has(t, q)' PROVE Light!Has(t, q)
    <3>1. \E f \in {dir[t], caddy[t], loaded'[t], box[t]} \ {None, Bare} : f.port = q
      BY <1>1, <1>3, <2>1, GoneIs DEF Light!Has, Light!Ended
    <3>2. \E f \in {dir[t], caddy[t], box[t]} \ {None, Bare} : f.port = q
      BY <1>2, <3>1
    <3> QED BY <3>2 DEF Light!Has
  <2> QED BY <1>1, <2>1 DEF LightInv, OwnPorts
<1>6. AloneOnSite(script') /\ \A p \in Proc : Means(script'[p]) /\ Done(script'[p], dir', caddy', loaded', box')
  BY <1>3, GoneIs DEF AloneOnSite
<1> QED BY <1>4, <1>5, <1>6 DEF LightInv

(* A command for the site s begins, with a port that no other has, or that  *)
(* it was then lent.                                                        *)
LEMMA BeginsKeeps ==
  ASSUME LightInv, NEW p \in Proc, NEW s \in Site, NEW step, NEW what, NEW q, NEW f,
         Light!Begins(p, what, s, step, q, f), UNCHANGED <<dir, caddy, loaded, box, copy>>,
         step \in {"files", "rename", "wipe"} => q \in Port /\ f \in Fqdn,
         step = "down" => q = 0 /\ f = None,
         step \in {"files", "rename", "wipe", "down"},
         what \in {"new", "rename", "delete", "restore"}, what = "rename" <=> step = "rename",
         lent' \in BOOLEAN, ~lent' => ~lent,
         ~lent' /\ q \in Port => \A t \in Site \ {s} : ~Light!Has(t, q)
  PROVE  LightInv'
<1> DEFINE c == [at |-> step, what |-> what, site |-> s, port |-> q, fqdn |-> f,
                 unheard |-> FALSE, alone |-> \A r \in Proc \ {p} : script[r].at \in Light!Ended \/ script[r].site # s]
<1>1. script[p].at \in {"idle", "ok"} /\ script' = [Light!Crossed(s) EXCEPT ![p] = c]
  BY DEF Light!Begins, Light!Ended
<1>2. c \in Scripts /\ c.at = step /\ c.site = s /\ c.port = q /\ c.what = what /\ c.fqdn = f
      /\ ~c.unheard
      /\ (c.alone <=> \A r \in Proc \ {p} : script[r].at \in {"idle", "ok"} \/ script[r].site # s)
  BY DEF Scripts, Writing, Deleting, Light!Ended
<1> HIDE DEF c
<1>3. Means(c) /\ Done(c, dir', caddy', loaded', box')
  BY <1>2 DEF Means, Done, Writing, Deleting
<1>4. /\ script' \in [Proc -> Scripts] /\ script'[p] = c
      /\ \A r \in Proc \ {p} : script'[r] = Light!Crossed(s)[r]
  BY <1>1, <1>2, CrossedIs
<1> DEFINE StillSo(r) ==
      /\ script'[r].at = script[r].at /\ script'[r].site = script[r].site
      /\ script'[r].port = script[r].port
      /\ script'[r].alone => script[r].alone /\ script[r].site # s
<1>9. ASSUME NEW r \in Proc \ {p} PROVE StillSo(r)
  <2>1. script'[r] = Light!Crossed(s)[r]
    BY <1>4
  <2>2. /\ Light!Crossed(s)[r].at = script[r].at /\ Light!Crossed(s)[r].site = script[r].site
        /\ Light!Crossed(s)[r].port = script[r].port
    BY CrossedIs
  <2>3. Light!Crossed(s)[r].alone => script[r].alone /\ script[r].site # s
    BY CrossedIs
  <2> QED BY <2>1, <2>2, <2>3
<1>5. LightTypeOK'
  BY <1>4 DEF LightInv, LightTypeOK
<1>6. OwnPorts'
  <2>1. ASSUME NEW t \in Site, NEW o \in Port, Light!Has(t, o)'
        PROVE  Light!Has(t, o) \/ (t = s /\ o = q)
    <3>1. CASE \E r \in Proc : script'[r].site = t /\ script'[r].at \notin {"idle", "ok"} /\ script'[r].port = o
      <4>1. PICK r \in Proc : script'[r].site = t /\ script'[r].at \notin {"idle", "ok"} /\ script'[r].port = o
        BY <3>1
      <4>2. CASE r = p
        BY <1>2, <1>4, <4>1, <4>2
      <4>3. CASE r # p
        BY <1>9, <4>1, <4>3 DEF Light!Has, Light!Ended
      <4> QED BY <4>2, <4>3
    <3> QED BY <2>1, <3>1 DEF Light!Has, Light!Ended
  <2> QED BY <2>1 DEF LightInv, OwnPorts
<1>7. AloneOnSite(script')
  <2> SUFFICES ASSUME NEW r \in Proc, NEW u \in Proc \ {r}, script'[r].at # "idle", script'[r].alone
               PROVE  script'[u].at \in {"idle", "ok"} \/ script'[u].site # script'[r].site
    BY DEF AloneOnSite
  <2>1. CASE r = p
    <3>1. script'[p] = c /\ (script[u].at \in {"idle", "ok"} \/ script[u].site # s)
      BY <1>2, <1>4, <2>1
    <3> QED BY <1>2, <1>9, <2>1, <3>1
  <2>2. CASE r # p
    <3>1. script[r].at # "idle" /\ script[r].alone /\ script'[r].site = script[r].site /\ script[r].site # s
      BY <1>9, <2>2
    <3>2. script[u].at \in {"idle", "ok"} \/ script[u].site # script[r].site
      BY <3>1 DEF LightInv, AloneOnSite
    <3>3. CASE u = p
      BY <1>2, <1>4, <3>1, <3>3
    <3>4. CASE u # p
      BY <1>9, <3>1, <3>2, <3>4
    <3> QED BY <3>3, <3>4
  <2> QED BY <2>1, <2>2
<1>8. ASSUME NEW r \in Proc PROVE Means(script'[r]) /\ Done(script'[r], dir', caddy', loaded', box')
  <2>1. CASE r = p
    BY <1>3, <1>4, <2>1
  <2>2. CASE r # p
    <3>1. script'[r] = Light!Crossed(s)[r] /\ Means(script'[r]) /\ Done(script[r], dir, caddy, loaded, box)
      BY <1>4, <2>2, CrossedIs DEF LightInv
    <3>2. CASE script[r].site = s
      BY <3>1, <3>2, CrossedIs DEF Done
    <3>3. CASE script[r].site # s
      BY <3>1, <3>3, CrossedIs
    <3> QED BY <3>1, <3>2, <3>3
  <2> QED BY <2>1, <2>2
<1> QED BY <1>5, <1>6, <1>7, <1>8 DEF LightInv

LEMMA GivenKeeps == ASSUME LightInv, NEW p \in Proc, NEW s \in Site, Light!Given(p, s) PROVE LightInv'
<1>1. ASSUME NEW f \in Fqdn, Light!Provision(p, s, f) PROVE LightInv'
  <2>1. PICK q \in Light!FreePorts :
          /\ Light!Begins(p, "new", s, "files", q, f)
          /\ lent' = (lent \/ \E t \in Site \ {s} : Light!Has(t, q) /\ ~Light!Listens(t, q))
    BY <1>1 DEF Light!Provision
  <2>2. q \in Port /\ \A t \in Site : ~Light!Listens(t, q)
    BY DEF Light!FreePorts
  <2>3. UNCHANGED <<dir, caddy, loaded, box, copy>>
    BY <1>1 DEF Light!Provision, Light!host
  <2>4. lent' \in BOOLEAN /\ (~lent' => ~lent) /\ (~lent' => \A t \in Site \ {s} : ~Light!Has(t, q))
    BY <2>1, <2>2 DEF LightInv, LightTypeOK
  <2> QED BY <1>1, <2>1, <2>2, <2>3, <2>4, BeginsKeeps
<1>2. ASSUME NEW f \in Fqdn, Light!Reconfigure(p, s, f) PROVE LightInv'
  <2>1. /\ Light!Begins(p, "rename", s, "rename", dir[s].port, f)
        /\ UNCHANGED <<dir, caddy, loaded, box, copy, lent>> /\ dir[s] \notin {None, Bare}
    BY <1>2 DEF Light!Reconfigure, Light!host, Light!Composed
  <2>2. dir[s] \in Deployed /\ Light!Has(s, dir[s].port) /\ dir[s].port \in Port
    BY <2>1, HasOfFiles DEF Deployed
  <2>3. lent' \in BOOLEAN /\ (~lent' => ~lent)
        /\ (~lent' => \A t \in Site \ {s} : ~Light!Has(t, dir[s].port))
    BY <2>1, <2>2 DEF LightInv, LightTypeOK, OwnPorts
  <2> DEFINE q == dir[s].port
  <2>4. Light!Begins(p, "rename", s, "rename", q, f) /\ q \in Port
    BY <2>1, <2>2
  <2> QED BY <2>1, <2>3, <2>4, BeginsKeeps
<1>3. ASSUME Light!BeginDelete(p, s) PROVE LightInv'
  <2>1. /\ Light!Begins(p, "delete", s, "down", 0, None)
        /\ UNCHANGED <<dir, caddy, loaded, box, copy, lent>> /\ lent \in BOOLEAN
    BY <1>3 DEF Light!BeginDelete, Light!host, LightInv, LightTypeOK
  <2>2. 0 \notin Port
    BY LightAssumption
  <2> QED BY <2>1, <2>2, BeginsKeeps
<1>4. ASSUME copy[s] # None, Light!Restore(p, s, copy[s]) PROVE LightInv'
  <2> DEFINE q == copy[s].port  f == copy[s].fqdn
  <2>1. q \in Port /\ f \in Fqdn
    BY <1>4 DEF LightInv, LightTypeOK, Deployed
  <2>2. /\ Light!Begins(p, "restore", s, "wipe", q, f) /\ UNCHANGED <<dir, caddy, loaded, box, copy>>
        /\ lent' = (lent \/ \E t \in Site \ {s} : Light!Has(t, q))
    BY <1>4 DEF Light!Restore, Light!host
  <2> HIDE DEF q, f
  <2>3. lent' \in BOOLEAN /\ (~lent' => ~lent) /\ (~lent' => \A t \in Site \ {s} : ~Light!Has(t, q))
    BY <2>2 DEF LightInv, LightTypeOK
  <2> QED BY <2>1, <2>2, <2>3, BeginsKeeps
<1> QED BY <1>1, <1>2, <1>3, <1>4 DEF Light!Given

LEMMA LightStepInv == LightInv /\ [Light!Next]_Light!vars => LightInv'
<1> SUFFICES ASSUME LightInv, [Light!Next]_Light!vars PROVE LightInv'
  OBVIOUS
<1>1. CASE UNCHANGED Light!vars
  BY <1>1 DEF Light!vars, LightInv, LightTypeOK, OwnPorts, Light!Has, Light!Ended
<1>2. CASE \E p \in Proc : Light!Script(p)
  BY <1>2, FilesKeeps, RouteKeeps, ReloadKeeps, UpKeeps, ProbeKeeps, RenameKeeps, DeleteKeeps,
     WipeKeeps, ExtractKeeps DEF Light!Script
<1>3. CASE \E p \in Proc : \E s \in Site : Light!Given(p, s)
  BY <1>3, GivenKeeps
<1>4. CASE \E s \in Site : Light!Start(s) \/ Light!Stop(s) \/ Light!Copy(s)
  BY <1>4, BoxKeeps, CopyKeeps
<1>5. CASE Light!HostRestart
  BY <1>5, HostRestartKeeps
<1> QED BY <1>1, <1>2, <1>3, <1>4, <1>5 DEF Light!Next

LEMMA LightSpecInv == Light!Spec => []LightInv
<1> QED BY LightInitInv, LightStepInv, PTL DEF Light!Spec

(* For any number of sites, domains, ports and commands: a provision or a   *)
(* restore that nobody crosses, whose script was heard to its end and ended *)
(* well, leaves the domain on the container of its own site, whatever       *)
(* scripts for other sites do.                                              *)
THEOREM LightOkServes == Light!Spec => []OkServes
<1>1. LightInv => OkServes
  <2> SUFFICES ASSUME LightInv, NEW p \in Proc, script[p].at = "ok", script[p].alone,
                      ~script[p].unheard
               PROVE  LET s == script[p].site
                      IN loaded[s] # None /\ loaded[s].fqdn = script[p].fqdn /\ Light!Listens(s, loaded[s].port)
    BY DEF OkServes, Light!OkServes, Light!At
  <2> DEFINE s == script[p].site
  <2>1. Means(script[p]) /\ Done(script[p], dir, caddy, loaded, box)
    BY DEF LightInv
  <2>2. script[p].port \in Port /\ script[p].fqdn \in Fqdn /\ script[p].what # "rename"
    BY <2>1 DEF Means
  <2>3. /\ loaded[s] = [port |-> script[p].port, fqdn |-> script[p].fqdn]
        /\ box[s] = [port |-> script[p].port, up |-> TRUE]
    BY <2>1, <2>2 DEF Done
  <2>4. loaded[s] # None /\ box[s] # None
    <3>1. loaded[s] \in Deployed /\ box[s] \in Containers
      BY <2>2, <2>3 DEF Deployed, Containers
    <3> QED BY <3>1, NoneIsNoRecord
  <2> QED BY <2>3, <2>4 DEF Light!Listens
<1> QED BY <1>1, LightSpecInv, PTL

(* A domain shows the site of another only after a port was given out while *)
(* the site that has it did not listen, or came back from an archive.       *)
THEOREM LightOwnDomain == Light!Spec => []OwnDomain
<1>1. LightInv => OwnDomain
  <2> SUFFICES ASSUME LightInv, ~lent, NEW s \in Site, NEW t \in Site, loaded[s] # None,
                      Light!Listens(t, loaded[s].port)
               PROVE  t = s
    BY DEF OwnDomain, Light!OwnDomain
  <2>1. loaded[s] \in Deployed /\ loaded[s].port \in Port
    BY DEF LightInv, LightTypeOK, Deployed
  <2>2. box[t] # None /\ box[t].port = loaded[s].port
    BY DEF Light!Listens
  <2>3. Light!Has(s, loaded[s].port) /\ Light!Has(t, loaded[s].port)
    <3>1. box[t] \in Containers
      BY <2>2 DEF LightInv, LightTypeOK
    <3> QED BY <2>1, <2>2, <3>1, HasOfFiles, NoneIsNoRecord
  <2> QED BY <2>1, <2>3 DEF LightInv, OwnPorts
<1> QED BY <1>1, LightSpecInv, PTL
=============================================================================
