------------------------- MODULE SiteBackupsProofs -------------------------
(* Theorems about SiteBackups, for any sites, commands, retention, number   *)
(* of backups and number of versions.                                       *)
EXTENDS SiteBackups, FiniteSetTheorems, TLAPS

(* What a command knows at each of its steps. *)
CommandOK(p) ==
  /\ cmd[p].at \in {"capture", "send", "check"} => cmd[p].id \in Ids
  /\ cmd[p].at \in {"send", "check", "wipe", "extract"} => cmd[p].body \in Bodies
  /\ cmd[p].at = "check" => NameOf(p) \in sent
  /\ cmd[p].at \in {"list", "delete"} => cmd[p].tier \in DOMAIN Keep
  /\ cmd[p].at \in RestoreSteps => cmd[p].restores
  /\ cmd[p].at \in BackupSteps /\ cmd[p].restores => cmd[p].tier = "manual"

Inv == TypeOK /\ \A p \in Procs : CommandOK(p)

(* Both kinds of sites and numbers are apart. *)
LEMMA Kinds == /\ Torn \in Nat /\ Torn \notin Versions /\ Gone \notin Bodies
               /\ Versions \subseteq Bodies /\ NoId \notin Ids /\ 1 \in Versions
BY BoundsAssumption DEF Torn, Versions, Gone, Bodies, NoId, Ids

LEMMA InitInv == Init => Inv
<1> SUFFICES ASSUME Init PROVE Inv
  OBVIOUS
<1>1. TypeOK
  BY Kinds, BoundsAssumption DEF Init, TypeOK, Idle
<1>2. \A p \in Procs : CommandOK(p)
  BY DEF Init, CommandOK, Idle, RestoreSteps, BackupSteps
<1> QED
  BY <1>1, <1>2 DEF Inv

(* A step of one command leaves what the others know. *)
LEMMA OthersKeep ==
  ASSUME Inv, NEW p \in Procs, sent \subseteq sent',
         \A q \in Procs : q # p => cmd'[q] = cmd[q],
         CommandOK(p)'
  PROVE  \A q \in Procs : CommandOK(q)'
BY DEF Inv, CommandOK, NameOf

LEMMA StepInv == Inv /\ [Next]_vars => Inv'
<1> SUFFICES ASSUME Inv, [Next]_vars PROVE Inv'
  OBVIOUS
<1> USE DEF Inv
<1>1. ASSUME NEW p \in Procs, NEW s \in Sites, NEW t \in Tiers, BeginBackup(p, s, t)
      PROVE  Inv'
  <2>1. clock + 1 \in Ids
    BY <1>1, BoundsAssumption DEF BeginBackup, TypeOK, Ids
  <2>2. NewBackup(s, t) \in Commands
    BY <2>1, <1>1 DEF NewBackup, Commands, BackupSteps, Bodies, Tiers
  <2>3. cmd' = [cmd EXCEPT ![p] = NewBackup(s, t)] /\ UNCHANGED <<data, store, sent, ready, base, waived>>
    BY <1>1 DEF BeginBackup
  <2>4. TypeOK'
    BY <2>1, <2>2, <2>3, <1>1, BoundsAssumption DEF TypeOK, BeginBackup, Ids
  <2>5. CommandOK(p)'
    BY <2>1, <2>3 DEF CommandOK, NewBackup, TypeOK, RestoreSteps, BackupSteps
  <2> QED
    BY <2>3, <2>4, <2>5, OthersKeep DEF TypeOK
<1>2. ASSUME NEW p \in Procs, NEW s \in Sites, NEW skip \in BOOLEAN,
             NEW i \in {a.id : a \in store[s]}, BeginRestore(p, s, i, skip)
      PROVE  Inv'
  <2> DEFINE new == [NewBackup(s, SafetyTier) EXCEPT !.restores = TRUE, !.target = i]
  <2>1. i \in Ids
    BY DEF TypeOK, Archives
  <2>2. CASE ~skip /\ HasDirectory(s)
    <3>1. clock < MaxId /\ clock' = clock + 1 /\ cmd' = [cmd EXCEPT ![p] = new]
      BY <1>2, <2>2 DEF BeginRestore
    <3>2. clock + 1 \in Ids /\ clock' \in 0 .. MaxId
      BY <3>1, BoundsAssumption DEF TypeOK, Ids
    <3>3. new \in Commands
      BY <3>2, <2>1 DEF NewBackup, Commands, BackupSteps, Bodies, Tiers, SafetyTier
    <3>4. UNCHANGED <<data, store, sent, ready, base, waived>>
      BY <1>2 DEF BeginRestore
    <3>5. TypeOK'
      BY <3>1, <3>2, <3>3, <3>4 DEF TypeOK
    <3>6. CommandOK(p)'
      BY <3>1, <3>2 DEF CommandOK, NewBackup, TypeOK, RestoreSteps, BackupSteps, SafetyTier
    <3> QED
      BY <3>1, <3>4, <3>5, <3>6, OthersKeep DEF TypeOK
  <2>3. CASE ~(~skip /\ HasDirectory(s))
    <3> DEFINE go == [new EXCEPT !.at = "fetch", !.id = NoId]
    <3>1. clock' = clock /\ cmd' = [cmd EXCEPT ![p] = go]
      BY <1>2, <2>3 DEF BeginRestore
    <3>3. go \in Commands
      BY <2>1 DEF NewBackup, Commands, RestoreSteps, Bodies, Tiers, SafetyTier
    <3>4. UNCHANGED <<data, store, sent, ready, base, waived>>
      BY <1>2 DEF BeginRestore
    <3>5. TypeOK'
      BY <3>1, <3>3, <3>4 DEF TypeOK
    <3>6. CommandOK(p)'
      BY <3>1 DEF CommandOK, NewBackup, TypeOK, RestoreSteps, BackupSteps
    <3> QED
      BY <3>1, <3>4, <3>5, <3>6, OthersKeep DEF TypeOK
  <2> QED
    BY <2>2, <2>3
<1>3. ASSUME NEW p \in Procs, Step(p) PROVE Inv'
  <2> DEFINE c == cmd[p]
  <2>0. c.at # "idle" => c \in Commands
    BY DEF TypeOK, Idle
  <2>1. CASE Capture(p)
    <3>1. c \in Commands /\ c.at = "capture" /\ data[c.site] \in Bodies
      BY <2>1, <2>0 DEF Capture, Contents, At, TypeOK, Bodies, HasDirectory, Commands
    <3>2. cmd' = [cmd EXCEPT ![p].at = "send", ![p].body = data[c.site]]
      BY <2>1 DEF Capture, Contents
    <3>3. cmd'[p] \in Commands
      BY <3>1, <3>2 DEF TypeOK, Commands, BackupSteps
    <3>4. UNCHANGED <<clock, data, store, sent, ready>>
      BY <2>1 DEF Capture, Contents
    <3>5. base' \in [Sites -> Versions] /\ waived' \in [Sites -> BOOLEAN]
      BY <2>1, <3>1 DEF Capture, Contents, TypeOK
    <3>6. TypeOK'
      BY <3>2, <3>3, <3>4, <3>5 DEF TypeOK
    <3>7. CommandOK(p)'
      BY <3>1, <3>2, <3>3 DEF CommandOK, TypeOK, RestoreSteps, BackupSteps, Commands
    <3> QED
      BY <3>2, <3>4, <3>6, <3>7, OthersKeep DEF TypeOK
  <2>2. CASE Send(p)
    <3>1. c \in Commands /\ c.at = "send" /\ ArchiveOf(p, FALSE) \in Archives /\ NameOf(p) \in Names
      BY <2>2, <2>0 DEF Send, At, CommandOK, ArchiveOf, NameOf, Archives, Names, Commands
    <3>2. cmd' = [cmd EXCEPT ![p] = [c EXCEPT !.at = "check"]]
      BY <2>2 DEF Send, Goes
    <3>3. cmd'[p] \in Commands /\ cmd' \in [Procs -> Commands \cup {Idle}]
      BY <3>1, <3>2 DEF TypeOK, Commands, BackupSteps
    <3>4. UNCHANGED <<clock, data, ready, base, waived>> /\ sent' = sent \cup {NameOf(p)}
      BY <2>2 DEF Send
    <3>5. store' \in [Sites -> SUBSET Archives]
      BY <2>2, <3>1 DEF Send, TypeOK
    <3>6. TypeOK'
      BY <3>1, <3>3, <3>4, <3>5 DEF TypeOK
    <3>7. CommandOK(p)'
      BY <3>1, <3>2, <3>3, <3>4 DEF CommandOK, TypeOK, RestoreSteps, BackupSteps, Commands, NameOf
    <3> QED
      BY <3>2, <3>4, <3>6, <3>7, OthersKeep DEF TypeOK
  <2>3. CASE Accepted(p)
    <3>1. c \in Commands /\ c.at = "check" /\ ArchiveOf(p, TRUE) \in Archives /\ NameOf(p) \in sent
      BY <2>3, <2>0 DEF Accepted, At, CommandOK, ArchiveOf, Archives, Commands
    <3>2. UNCHANGED <<clock, data, sent, base, waived>> /\ ready' = ready \cup {NameOf(p)}
      BY <2>3 DEF Accepted
    <3>3. store' \in [Sites -> SUBSET Archives]
      BY <2>3, <3>1 DEF Accepted, TypeOK
    <3>4. CASE c.restores
      <4>1. cmd' = [cmd EXCEPT ![p].at = "fetch", ![p].safety = c.id]
        BY <2>3, <3>4 DEF Accepted
      <4>2. cmd'[p] \in Commands /\ cmd' \in [Procs -> Commands \cup {Idle}]
        BY <4>1, <3>1, Kinds DEF TypeOK, Commands, RestoreSteps
      <4>3. CommandOK(p)'
        BY <3>1, <3>4, <4>1, <4>2 DEF CommandOK, TypeOK, RestoreSteps, BackupSteps, Commands
      <4> QED
        BY <3>1, <3>2, <3>3, <4>1, <4>2, <4>3, OthersKeep DEF TypeOK
    <3>5. CASE ~c.restores /\ c.tier \in DOMAIN Keep
      <4>1. cmd' = [cmd EXCEPT ![p] = [c EXCEPT !.at = "list"]]
        BY <2>3, <3>5 DEF Accepted, Goes
      <4>2. cmd'[p] \in Commands /\ cmd' \in [Procs -> Commands \cup {Idle}]
        BY <4>1, <3>1 DEF TypeOK, Commands, BackupSteps
      <4>3. CommandOK(p)'
        BY <3>1, <3>5, <4>1, <4>2 DEF CommandOK, TypeOK, RestoreSteps, BackupSteps, Commands
      <4> QED
        BY <3>1, <3>2, <3>3, <4>1, <4>2, <4>3, OthersKeep DEF TypeOK
    <3>6. CASE ~c.restores /\ c.tier \notin DOMAIN Keep
      <4>1. cmd' = [cmd EXCEPT ![p] = Idle]
        BY <2>3, <3>6 DEF Accepted, Goes
      <4>3. CommandOK(p)'
        BY <4>1 DEF CommandOK, TypeOK, RestoreSteps, BackupSteps, Idle
      <4> QED
        BY <3>1, <3>2, <3>3, <4>1, <4>3, OthersKeep DEF TypeOK
    <3> QED
      BY <3>4, <3>5, <3>6
  <2>4. CASE Rejected(p) \/ Deleted(p) \/ StartOk(p) \/ Stops(p)
    <3>1. cmd' = [cmd EXCEPT ![p] = Idle] /\ UNCHANGED <<clock, data, sent, ready, base, waived>>
      BY <2>4 DEF Rejected, Deleted, StartOk, Stops, Goes
    <3>2. store' \in [Sites -> SUBSET Archives]
      BY <2>4 DEF Rejected, Deleted, StartOk, Stops, TypeOK
    <3>3. CommandOK(p)'
      BY <3>1 DEF CommandOK, TypeOK, RestoreSteps, BackupSteps, Idle
    <3> QED
      BY <3>1, <3>2, <3>3, OthersKeep DEF TypeOK
  <2>5. CASE List(p)
    <3> DEFINE d == {a.id : a \in Surplus(c.site, c.tier)}
    <3>1. c \in Commands /\ c.at = "list" /\ c.site \in Sites
      BY <2>5, <2>0 DEF List, At, Commands
    <3>2. d \subseteq Ids
      BY <3>1 DEF Surplus, TypeOK, Archives
    <3>3. cmd' = [cmd EXCEPT ![p].at = "delete", ![p].doomed = d] /\ UNCHANGED <<clock, data, store, sent, ready, base, waived>>
      BY <2>5 DEF List
    <3> HIDE DEF d
    <3>4. cmd'[p] \in Commands /\ cmd' \in [Procs -> Commands \cup {Idle}]
      BY <3>1, <3>2, <3>3 DEF TypeOK, Commands, BackupSteps
    <3>5. CommandOK(p)'
      BY <3>1, <3>3, <3>4 DEF CommandOK, TypeOK, RestoreSteps, BackupSteps, Commands
    <3> QED
      BY <3>3, <3>4, <3>5, OthersKeep DEF TypeOK
  <2>6. CASE Delete(p)
    <3>1. c \in Commands /\ c.at = "delete"
      BY <2>6, <2>0 DEF Delete, At
    <3>2. PICK i \in c.doomed :
            /\ store' = [store EXCEPT ![c.site] = {a \in @ : ~(a.id = i /\ a.tier = c.tier)}]
            /\ cmd' = [cmd EXCEPT ![p].doomed = @ \ {i}]
      BY <2>6 DEF Delete
    <3>3. UNCHANGED <<clock, data, sent, ready, base, waived>>
      BY <2>6 DEF Delete
    <3>4. cmd'[p] \in Commands /\ cmd' \in [Procs -> Commands \cup {Idle}]
      BY <3>1, <3>2 DEF TypeOK, Commands, BackupSteps
    <3>5. store' \in [Sites -> SUBSET Archives]
      BY <3>2 DEF TypeOK
    <3>6. CommandOK(p)'
      BY <3>1, <3>2, <3>4 DEF CommandOK, TypeOK, RestoreSteps, BackupSteps, Commands
    <3> QED
      BY <3>2, <3>3, <3>4, <3>5, <3>6, OthersKeep DEF TypeOK
  <2>7. CASE Fetch(p)
    <3>1. c \in Commands /\ c.at = "fetch" /\ c.restores
      BY <2>7, <2>0 DEF Fetch, Intact, At, CommandOK, RestoreSteps
    <3>2. PICK a \in File(c.site, c.target) :
            cmd' = [cmd EXCEPT ![p].at = "wipe", ![p].body = a.body]
      BY <2>7 DEF Fetch, Intact
    <3>3. a.body \in Bodies /\ UNCHANGED <<clock, data, store, sent, ready, base, waived>>
      BY <2>7, <3>1 DEF Fetch, Intact, File, TypeOK, Archives, Commands
    <3>4. cmd'[p] \in Commands /\ cmd' \in [Procs -> Commands \cup {Idle}]
      BY <3>1, <3>2, <3>3 DEF TypeOK, Commands, RestoreSteps
    <3>5. CommandOK(p)'
      BY <3>1, <3>2, <3>3, <3>4 DEF CommandOK, TypeOK, RestoreSteps, BackupSteps, Commands
    <3> QED
      BY <3>2, <3>3, <3>4, <3>5, OthersKeep DEF TypeOK
  <2>8. CASE Wipe(p) \/ Extract(p)
    <3>1. c \in Commands /\ c.at \in {"wipe", "extract"} /\ c.restores /\ c.body \in Bodies
      BY <2>8, <2>0 DEF Wipe, Extract, At, CommandOK, RestoreSteps
    <3>2. PICK n \in {"extract", "start"} : cmd' = [cmd EXCEPT ![p] = [c EXCEPT !.at = n]]
      BY <2>8 DEF Wipe, Extract, Goes
    <3>3. UNCHANGED <<clock, store, sent, ready, base>>
      BY <2>8 DEF Wipe, Extract
    <3>4. data' \in [Sites -> Bodies \cup {Gone}]
      BY <2>8, <3>1 DEF Wipe, Extract, TypeOK, Bodies
    <3>5. waived' \in [Sites -> BOOLEAN]
      BY <2>8, <3>1 DEF Wipe, Extract, TypeOK
    <3>6. cmd'[p] \in Commands /\ cmd' \in [Procs -> Commands \cup {Idle}]
      BY <3>1, <3>2 DEF TypeOK, Commands, RestoreSteps
    <3>7. CommandOK(p)'
      BY <3>1, <3>2, <3>6 DEF CommandOK, TypeOK, RestoreSteps, BackupSteps, Commands
    <3> QED
      BY <3>2, <3>3, <3>4, <3>5, <3>6, <3>7, OthersKeep DEF TypeOK
  <2>9. CASE ScriptErr(p)
    <3>1. c \in Commands /\ c.at \in {"wipe", "extract", "start"} /\ c.restores
      BY <2>9, <2>0 DEF ScriptErr, At, CommandOK, RestoreSteps
    <3>2. UNCHANGED <<clock, store, sent, ready, base>>
      BY <2>9 DEF ScriptErr
    <3>3. data' \in [Sites -> Bodies \cup {Gone}] /\ waived' \in [Sites -> BOOLEAN]
      BY <2>9, <3>1 DEF ScriptErr, TypeOK, Bodies
    <3>4. CASE c.safety # NoId /\ ~c.undo
      <4>1. cmd' = [cmd EXCEPT ![p] = [c EXCEPT !.at = "fetch", !.target = c.safety, !.undo = TRUE]]
        BY <2>9, <3>4 DEF ScriptErr, Undoes
      <4>2. cmd'[p] \in Commands /\ cmd' \in [Procs -> Commands \cup {Idle}]
        BY <4>1, <3>1 DEF TypeOK, Commands, RestoreSteps
      <4>3. CommandOK(p)'
        BY <3>1, <4>1, <4>2 DEF CommandOK, TypeOK, RestoreSteps, BackupSteps, Commands
      <4> QED
        BY <3>2, <3>3, <4>1, <4>2, <4>3, OthersKeep DEF TypeOK
    <3>5. CASE ~(c.safety # NoId /\ ~c.undo)
      <4>1. cmd' = [cmd EXCEPT ![p] = Idle]
        BY <2>9, <3>5 DEF ScriptErr, Undoes
      <4>3. CommandOK(p)'
        BY <4>1 DEF CommandOK, TypeOK, RestoreSteps, BackupSteps, Idle
      <4> QED
        BY <3>2, <3>3, <4>1, <4>3, OthersKeep DEF TypeOK
    <3> QED
      BY <3>4, <3>5
  <2> QED
    BY <1>3, <2>1, <2>2, <2>3, <2>4, <2>5, <2>6, <2>7, <2>8, <2>9 DEF Step
<1>4. ASSUME NEW s \in Sites, Change(s) PROVE Inv'
  <2>1. UNCHANGED <<clock, store, cmd, sent, ready, base, waived>>
    BY <1>4 DEF Change
  <2>2. data' \in [Sites -> Bodies \cup {Gone}]
    <3>1. data[s] + 1 \in Bodies
      BY <1>4, BoundsAssumption DEF Change, Versions, Bodies
    <3> QED
      BY <1>4, <3>1 DEF Change, TypeOK
  <2> QED
    BY <2>1, <2>2 DEF TypeOK, CommandOK, NameOf
<1>5. CASE UNCHANGED vars
  BY <1>5 DEF vars, TypeOK, CommandOK, NameOf
<1> QED
  BY <1>1, <1>2, <1>3, <1>4, <1>5 DEF Next, Begin, Listed

(* The types, for any constants (create_site_backup, prune_retention,       *)
(* restore_lightweight_site_backup): no archive is of a missing directory.  *)
THEOREM BackupsTypeOK == Spec => []TypeOK
<1>1. Inv => TypeOK
  BY DEF Inv
<1> QED
  BY InitInv, StepInv, <1>1, PTL DEF Spec
-----------------------------------------------------------------------------
(* Uploads of different commands have different names, and the file of a    *)
(* safety copy is in the store while its size is looked at: the retention   *)
(* of others does not reach its tier, nor their uploads its name.           *)
Uploads == {"capture", "send", "check"}

IdOK(p) == cmd[p].at \in Uploads => cmd[p].id \in Ids /\ cmd[p].id <= clock
FileOK(p) ==
  (cmd[p].at = "check" /\ cmd[p].restores) => ArchiveOf(p, FALSE) \in store[cmd[p].site]

IdInv ==
  /\ \A p \in Procs : IdOK(p) /\ FileOK(p)
  /\ \A p, q \in Procs :
       cmd[p].at \in Uploads /\ cmd[q].at \in Uploads /\ cmd[p].id = cmd[q].id => p = q

LEMMA InitId == Init => IdInv
<1> SUFFICES ASSUME Init PROVE IdInv
  OBVIOUS
<1>1. \A p \in Procs : cmd[p].at = "idle"
  BY DEF Init, Idle
<1> QED
  BY <1>1 DEF IdInv, IdOK, FileOK, Uploads

(* A step of one command that starts no upload and takes at most its own    *)
(* file, or files of pruned tiers, out of the store.                        *)
LEMMA IdFrame ==
  ASSUME Inv, IdInv, NEW p \in Procs, clock' = clock,
         \A q \in Procs : q # p => cmd'[q] = cmd[q],
         cmd'[p].at \in Uploads => cmd[p].at \in Uploads /\ cmd'[p].id = cmd[p].id,
         \A s \in Sites : \A a \in store[s] :
            a.tier = "manual" /\ (cmd[p].at \in Uploads => a.id # cmd[p].id) => a \in store'[s],
         FileOK(p)'
  PROVE  IdInv'
<1>1. ASSUME NEW q \in Procs, q # p, cmd[q].at = "check", cmd[q].restores
      PROVE  ArchiveOf(q, FALSE) \in store'[cmd[q].site]
  <2>1. ArchiveOf(q, FALSE) \in store[cmd[q].site]
    BY <1>1 DEF IdInv, FileOK
  <2>4. cmd[q] \in Commands
    BY <1>1 DEF Inv, TypeOK, Idle
  <2>5. cmd[q].site \in Sites
    BY <2>4 DEF Commands
  <2>2. ArchiveOf(q, FALSE).tier = "manual" /\ ArchiveOf(q, FALSE).id = cmd[q].id
    BY <1>1 DEF ArchiveOf, Inv, CommandOK, BackupSteps
  <2>3. cmd[p].at \in Uploads => cmd[q].id # cmd[p].id
    BY <1>1 DEF IdInv, Uploads
  <2> QED
    BY <2>1, <2>2, <2>3, <2>5
<1>2. \A q \in Procs : q # p => FileOK(q)'
  BY <1>1 DEF FileOK, ArchiveOf
<1>3. \A q \in Procs : IdOK(q)'
  BY DEF IdInv, IdOK
<1>4. (\A q, r \in Procs :
        cmd[q].at \in Uploads /\ cmd[r].at \in Uploads /\ cmd[q].id = cmd[r].id => q = r)'
  BY DEF IdInv
<1> QED
  BY <1>2, <1>3, <1>4 DEF IdInv

(* A new upload takes a second that none has had.                           *)
LEMMA IdNew ==
  ASSUME Inv, IdInv, NEW p \in Procs, clock' = clock + 1, clock' \in Ids, store' = store,
         \A q \in Procs : q # p => cmd'[q] = cmd[q],
         cmd'[p].at = "capture", cmd'[p].id = clock + 1
  PROVE  IdInv'
<1>1. clock \in Nat
  BY DEF Inv, TypeOK
<1>2. \A q \in Procs : IdOK(q)'
  BY <1>1 DEF IdInv, IdOK, Ids, Uploads
<1>3. \A q \in Procs : FileOK(q)'
  BY DEF IdInv, FileOK, ArchiveOf
<1>4. \A q \in Procs : q # p /\ cmd[q].at \in Uploads => cmd[q].id # clock + 1
  BY <1>1 DEF IdInv, IdOK, Ids
<1>5. (\A q, r \in Procs :
        cmd[q].at \in Uploads /\ cmd[r].at \in Uploads /\ cmd[q].id = cmd[r].id => q = r)'
  BY <1>4 DEF IdInv
<1> QED
  BY <1>2, <1>3, <1>5 DEF IdInv

LEMMA StepId == Inv /\ IdInv /\ [Next]_vars => IdInv'
<1> SUFFICES ASSUME Inv, IdInv, [Next]_vars PROVE IdInv'
  OBVIOUS
<1>1. ASSUME NEW p \in Procs, NEW s \in Sites, NEW t \in Tiers, BeginBackup(p, s, t)
      PROVE  IdInv'
  <2>1. /\ store' = store /\ clock' = clock + 1 /\ cmd'[p].at = "capture" /\ cmd'[p].id = clock + 1
        /\ \A q \in Procs : q # p => cmd'[q] = cmd[q]
    BY <1>1 DEF BeginBackup, NewBackup, Inv, TypeOK
  <2>2. clock' \in Ids
    BY <1>1, BoundsAssumption DEF BeginBackup, Inv, TypeOK, Ids
  <2> QED
    BY <2>1, <2>2, IdNew
<1>2. ASSUME NEW p \in Procs, NEW s \in Sites, NEW skip \in BOOLEAN,
             NEW i \in {a.id : a \in store[s]}, BeginRestore(p, s, i, skip)
      PROVE  IdInv'
  <2>1. store' = store /\ \A q \in Procs : q # p => cmd'[q] = cmd[q]
    BY <1>2 DEF BeginRestore, Inv, TypeOK
  <2>2. CASE ~skip /\ HasDirectory(s)
    <3>1. clock < MaxId /\ clock' = clock + 1
      BY <1>2, <2>2 DEF BeginRestore
    <3>2. clock' \in Ids
      BY <3>1, BoundsAssumption DEF Inv, TypeOK, Ids
    <3>3. cmd' = [cmd EXCEPT ![p] = [NewBackup(s, SafetyTier) EXCEPT !.restores = TRUE, !.target = i]]
      BY <1>2, <2>2 DEF BeginRestore
    <3>4. cmd'[p].at = "capture" /\ cmd'[p].id = clock + 1
      BY <3>3 DEF NewBackup, Inv, TypeOK
    <3> QED
      BY <2>1, <3>1, <3>2, <3>4, IdNew
  <2>3. CASE ~(~skip /\ HasDirectory(s))
    <3>1. clock' = clock /\ cmd'[p].at = "fetch"
      BY <1>2, <2>3 DEF BeginRestore, NewBackup, Inv, TypeOK
    <3> QED
      BY <2>1, <3>1, IdFrame DEF Uploads, FileOK
  <2> QED
    BY <2>2, <2>3
<1>3. ASSUME NEW p \in Procs, Step(p) PROVE IdInv'
  <2> DEFINE c == cmd[p]
             s == cmd[p].site
  <2>0. c.at # "idle" => c \in Commands /\ s \in Sites
    BY DEF Inv, TypeOK, Idle, Commands
  <2>1. CASE Capture(p)
    <3>1. /\ c.at = "capture" /\ cmd'[p].at = "send" /\ cmd'[p].id = c.id
          /\ UNCHANGED <<clock, store>>
          /\ \A q \in Procs : q # p => cmd'[q] = cmd[q]
      BY <2>1, <2>0 DEF Capture, Contents, Inv, TypeOK, Commands, At
    <3> QED
      BY <3>1, IdFrame DEF Uploads, FileOK
  <2>2. CASE Send(p)
    <3>1. /\ c.at = "send" /\ cmd'[p].at = "check" /\ cmd'[p].id = c.id /\ s \in Sites
          /\ cmd'[p].body = c.body /\ cmd'[p].tier = c.tier /\ cmd'[p].site = s
          /\ clock' = clock /\ \A q \in Procs : q # p => cmd'[q] = cmd[q]
      BY <2>2, <2>0 DEF Send, Goes, Inv, TypeOK, Commands, At
    <3>2. store' = [store EXCEPT ![s] = @ \cup {ArchiveOf(p, FALSE)}]
      BY <2>2 DEF Send
    <3>3. FileOK(p)'
      BY <3>1, <3>2 DEF FileOK, ArchiveOf, Inv, TypeOK
    <3> QED
      BY <3>1, <3>2, <3>3, IdFrame DEF Uploads, Inv, TypeOK
  <2>3. CASE Accepted(p)
    <3> DEFINE mine == store[s] \cap {ArchiveOf(p, FALSE)}
    <3>1. c.at = "check" /\ s \in Sites /\ clock' = clock
      BY <2>3, <2>0 DEF Accepted, At
    <3>2. store' = [store EXCEPT ![s] = (@ \ mine) \cup (IF mine = {} THEN {} ELSE {ArchiveOf(p, TRUE)})]
      BY <2>3 DEF Accepted
    <3>3. /\ cmd'[p].at \in {"fetch", "list", "idle"}
          /\ \A q \in Procs : q # p => cmd'[q] = cmd[q]
      BY <2>3, <2>0 DEF Accepted, Goes, Inv, TypeOK, Commands, Idle, At
    <3>4. ArchiveOf(p, FALSE).id = c.id
      BY DEF ArchiveOf
    <3>5. \A r \in Sites : \A a \in store[r] : a.id # c.id => a \in store'[r]
      BY <3>1, <3>2, <3>4 DEF Inv, TypeOK
    <3> QED
      BY <3>1, <3>3, <3>5, IdFrame DEF Uploads, FileOK
  <2>4. CASE Rejected(p)
    <3>1. c.at = "check" /\ s \in Sites /\ clock' = clock
      BY <2>4, <2>0 DEF Rejected, At
    <3>2. store' = [store EXCEPT ![s] = @ \ {ArchiveOf(p, FALSE)}]
      BY <2>4 DEF Rejected
    <3>3. cmd'[p].at = "idle" /\ \A q \in Procs : q # p => cmd'[q] = cmd[q]
      BY <2>4 DEF Rejected, Goes, Inv, TypeOK, Idle
    <3>4. ArchiveOf(p, FALSE).id = c.id
      BY DEF ArchiveOf
    <3>5. \A r \in Sites : \A a \in store[r] : a.id # c.id => a \in store'[r]
      BY <3>1, <3>2, <3>4 DEF Inv, TypeOK
    <3> QED
      BY <3>1, <3>3, <3>5, IdFrame DEF Uploads, FileOK
  <2>5. CASE Delete(p)
    <3>1. c \in Commands /\ c.at = "delete" /\ s \in Sites /\ c.tier # "manual" /\ clock' = clock
      BY <2>5, <2>0, KeepAssumption DEF Delete, At, Inv, CommandOK
    <3>2. PICK i \in c.doomed :
            /\ store' = [store EXCEPT ![s] = {a \in @ : ~(a.id = i /\ a.tier = c.tier)}]
            /\ cmd' = [cmd EXCEPT ![p].doomed = @ \ {i}]
      BY <2>5 DEF Delete
    <3>3. cmd'[p].at = "delete" /\ \A q \in Procs : q # p => cmd'[q] = cmd[q]
      BY <3>1, <3>2 DEF Inv, TypeOK, Commands
    <3>4. \A r \in Sites : \A a \in store[r] : a.tier = "manual" => a \in store'[r]
      BY <3>1, <3>2 DEF Inv, TypeOK
    <3> QED
      BY <3>1, <3>3, <3>4, IdFrame DEF Uploads, FileOK
  <2>6. CASE List(p) \/ Deleted(p) \/ Fetch(p) \/ Wipe(p) \/ Extract(p) \/ StartOk(p)
               \/ ScriptErr(p) \/ Stops(p)
    <3>1. UNCHANGED <<clock, store>>
      BY <2>6 DEF List, Deleted, Fetch, Intact, Wipe, Extract, StartOk, ScriptErr, Stops
    <3>2. c \in Commands
      BY <2>6, <2>0 DEF List, Deleted, Fetch, Intact, Wipe, Extract, StartOk, ScriptErr, Stops, At
    <3>3. cmd'[p].at \in {"delete", "idle", "wipe", "extract", "start", "fetch"}
      <4>1. CASE List(p)
        BY <4>1, <3>2 DEF List, Inv, TypeOK, Commands
      <4>2. CASE Fetch(p)
        BY <4>2, <3>2 DEF Fetch, Intact, Inv, TypeOK, Commands
      <4>3. CASE Wipe(p) \/ Extract(p)
        BY <4>3, <3>2 DEF Wipe, Extract, Goes, Inv, TypeOK, Commands
      <4>4. CASE Deleted(p) \/ StartOk(p) \/ Stops(p)
        BY <4>4 DEF Deleted, StartOk, Stops, Goes, Inv, TypeOK, Idle
      <4>5. CASE ScriptErr(p)
        BY <4>5, <3>2 DEF ScriptErr, Undoes, Inv, TypeOK, Commands, Idle
      <4> QED
        BY <2>6, <4>1, <4>2, <4>3, <4>4, <4>5
    <3>4. \A q \in Procs : q # p => cmd'[q] = cmd[q]
      BY <2>6 DEF List, Deleted, Fetch, Intact, Wipe, Extract, StartOk, ScriptErr, Stops, Undoes,
                 Goes, Inv, TypeOK
    <3> QED
      BY <3>1, <3>3, <3>4, IdFrame DEF Uploads, FileOK
  <2> QED
    BY <1>3, <2>1, <2>2, <2>3, <2>4, <2>5, <2>6 DEF Step
<1>4. ASSUME NEW s \in Sites, Change(s) PROVE IdInv'
  BY <1>4 DEF Change, IdInv, IdOK, FileOK, ArchiveOf
<1>5. CASE UNCHANGED vars
  BY <1>5 DEF vars, IdInv, IdOK, FileOK, ArchiveOf
<1> QED
  BY <1>1, <1>2, <1>3, <1>4, <1>5 DEF Next, Begin, Listed
-----------------------------------------------------------------------------
(* The last whole version a restore found has a copy that no retention      *)
(* reaches.                                                                 *)
Copied(s) == \E a \in store[s] : a.whole /\ a.tier \notin DOMAIN Keep /\ a.body = base[s]
Safe(s) == waived[s] \/ Copied(s)

Restores(p, s) == cmd[p].at # "idle" /\ cmd[p].restores /\ cmd[p].site = s

(* What makes the wipe harmless: a restore that has its safety copy has one *)
(* of the last whole version, and before it is accepted the copy holds that *)
(* version unless the directory was not whole.                              *)
RestoreOK(p, s) ==
  Restores(p, s) =>
    /\ cmd[p].at \in {"send", "check"} => cmd[p].body = base[s] \/ Safe(s)
    /\ cmd[p].at \in {"fetch", "wipe", "start"} /\ cmd[p].safety # NoId => Safe(s)
    /\ cmd[p].at = "extract" => Safe(s)

OneRestore == \A s \in Sites, p, q \in Procs : Restores(p, s) /\ Restores(q, s) => p = q

RecInv ==
  /\ OneRestore
  /\ \A s \in Sites : data[s] \in Versions \/ Safe(s)
  /\ \A s \in Sites, p \in Procs : RestoreOK(p, s)

LEMMA InitRec == Init => RecInv
BY Kinds DEF Init, RecInv, OneRestore, Restores, RestoreOK, Idle

(* Of one site: if what is safe stays so and the directory stays whole or   *)
(* safe, only the command that steps has anything to show.                  *)
LEMMA RecFrame ==
  ASSUME RecInv, NEW p \in Procs, OneRestore',
         \A q \in Procs : q # p => cmd'[q] = cmd[q],
         \A s \in Sites : base'[s] = base[s] /\ (Safe(s) => Safe(s)'),
         \A s \in Sites : data'[s] = data[s] \/ data'[s] \in Versions \/ Safe(s)',
         \A s \in Sites : RestoreOK(p, s)'
  PROVE  RecInv'
<1>1. \A s \in Sites : (data[s] \in Versions \/ Safe(s))'
  BY DEF RecInv
<1>2. ASSUME NEW s \in Sites, NEW q \in Procs, q # p PROVE RestoreOK(q, s)'
  BY <1>2 DEF RecInv, RestoreOK, Restores
<1> QED
  BY <1>1, <1>2 DEF RecInv

(* A command that does not come to restore a site leaves one restore each.  *)
LEMMA OneRestoreKept ==
  ASSUME OneRestore, NEW p \in Procs, \A q \in Procs : q # p => cmd'[q] = cmd[q],
         \A s \in Sites : Restores(p, s)' => Restores(p, s)
  PROVE  OneRestore'
BY DEF OneRestore, Restores

(* Nothing that is safe stops being so while the store only loses what is   *)
(* not whole or belongs to a pruned tier.                                   *)
LEMMA SafeKept ==
  ASSUME UNCHANGED <<base, waived>>,
         \A s \in Sites : \A a \in store[s] :
            a.whole /\ a.tier \notin DOMAIN Keep => a \in store'[s]
  PROVE  \A s \in Sites : Safe(s) => Safe(s)'
BY DEF Safe, Copied

LEMMA StepRec ==
  ASSUME Overlap = FALSE
  PROVE  Inv /\ IdInv /\ RecInv /\ [Next]_vars => RecInv'
<1> SUFFICES ASSUME Inv, IdInv, RecInv, [Next]_vars PROVE RecInv'
  OBVIOUS
<1>1. ASSUME NEW p \in Procs, NEW s \in Sites, NEW t \in Tiers, BeginBackup(p, s, t)
      PROVE  RecInv'
  <2>1. cmd' = [cmd EXCEPT ![p] = NewBackup(s, t)] /\ UNCHANGED <<data, store, base, waived>>
    BY <1>1 DEF BeginBackup
  <2>2. cmd'[p] = NewBackup(s, t) /\ \A q \in Procs : q # p => cmd'[q] = cmd[q]
    BY <2>1 DEF Inv, TypeOK
  <2>3. \A r \in Sites : ~Restores(p, r)'
    BY <2>2 DEF NewBackup, Restores
  <2>4. OneRestore'
    BY <2>2, <2>3, OneRestoreKept DEF RecInv
  <2> QED
    BY <2>1, <2>2, <2>3, <2>4, RecFrame DEF RestoreOK, Safe, Copied
<1>2. ASSUME NEW p \in Procs, NEW s \in Sites, NEW skip \in BOOLEAN,
             NEW i \in {a.id : a \in store[s]}, BeginRestore(p, s, i, skip)
      PROVE  RecInv'
  <2>1. /\ UNCHANGED <<data, store, base, waived>>
        /\ \A q \in Procs : q # p => cmd'[q] = cmd[q]
        /\ cmd'[p].at = "capture" \/ (cmd'[p].at = "fetch" /\ cmd'[p].safety = NoId)
        /\ cmd'[p].site = s
    BY <1>2 DEF BeginRestore, NewBackup, Inv, TypeOK
  <2>2. \A q \in Procs : ~Restores(q, s)
    BY <1>2 DEF BeginRestore, Restoring, Restores, At
  <2>3. OneRestore'
    BY <2>1, <2>2 DEF OneRestore, Restores, RecInv
  <2>4. \A r \in Sites : RestoreOK(p, r)'
    BY <2>1 DEF RestoreOK, Restores
  <2> QED
    BY <2>1, <2>3, <2>4, RecFrame DEF Safe, Copied
<1>3. ASSUME NEW p \in Procs, Step(p) PROVE RecInv'
  <2> DEFINE c == cmd[p]
             s == cmd[p].site
  <2>0. c.at # "idle" => c \in Commands /\ s \in Sites
    BY DEF Inv, TypeOK, Idle, Commands
  <2>1. CASE Capture(p)
    <3>1. c.at = "capture" /\ s \in Sites /\ UNCHANGED <<data, store>>
      BY <2>1, <2>0 DEF Capture, Contents, At
    <3>2. /\ cmd'[p].at = "send" /\ cmd'[p].site = s /\ cmd'[p].body = data[s]
          /\ cmd'[p].restores = c.restores
          /\ \A q \in Procs : q # p => cmd'[q] = cmd[q]
      BY <2>1, <2>0 DEF Capture, Contents, Inv, TypeOK, Commands, At
    <3>3. OneRestore'
      BY <3>1, <3>2, OneRestoreKept DEF Restores, RecInv
    <3>4. CASE c.restores /\ data[s] \in Versions
      <4>1. base' = [base EXCEPT ![s] = data[s]] /\ waived' = [waived EXCEPT ![s] = FALSE]
        BY <2>1, <3>4 DEF Capture, Contents
      <4>2. base'[s] = data[s] /\ \A r \in Sites : r # s => base'[r] = base[r] /\ (Safe(r) <=> Safe(r)')
        BY <4>1, <3>1 DEF Inv, TypeOK, Safe, Copied
      <4>3. \A r \in Sites : (data[r] \in Versions \/ Safe(r))'
        BY <3>1, <3>4, <4>2 DEF RecInv
      <4>4. \A r \in Sites : RestoreOK(p, r)'
        BY <3>2, <4>2 DEF RestoreOK, Restores
      <4>5. ASSUME NEW r \in Sites, NEW q \in Procs, q # p PROVE RestoreOK(q, r)'
        <5>1. CASE r = s
          BY <5>1, <4>5, <3>1, <3>2, <3>4 DEF RecInv, OneRestore, Restores, RestoreOK
        <5>2. CASE r # s
          BY <5>2, <4>5, <4>2, <3>2 DEF RecInv, Restores, RestoreOK
        <5> QED
          BY <5>1, <5>2
      <4> QED
        BY <3>3, <4>3, <4>4, <4>5 DEF RecInv
    <3>5. CASE ~(c.restores /\ data[s] \in Versions)
      <4>1. UNCHANGED <<base, waived>>
        BY <2>1, <3>5 DEF Capture, Contents
      <4>2. \A r \in Sites : RestoreOK(p, r)'
        BY <3>1, <3>2, <3>5, <4>1 DEF RestoreOK, Restores, RecInv, Safe, Copied
      <4> QED
        BY <3>1, <3>2, <3>3, <4>1, <4>2, RecFrame DEF Safe, Copied
    <3> QED
      BY <3>4, <3>5
  <2>2. CASE Send(p)
    <3>1. c.at = "send" /\ s \in Sites /\ UNCHANGED <<data, base, waived>>
      BY <2>2, <2>0 DEF Send, At
    <3>2. /\ cmd'[p].at = "check" /\ cmd'[p].site = s /\ cmd'[p].body = c.body
          /\ cmd'[p].restores = c.restores
          /\ \A q \in Procs : q # p => cmd'[q] = cmd[q]
      BY <2>2, <2>0 DEF Send, Goes, Inv, TypeOK, Commands, At
    <3>3. \A r \in Sites : Safe(r) => Safe(r)'
      BY <2>2, <3>1, SafeKept DEF Send, Inv, TypeOK
    <3>4. OneRestore'
      BY <3>1, <3>2, OneRestoreKept DEF Restores, RecInv
    <3>5. \A r \in Sites : RestoreOK(p, r)'
      BY <3>1, <3>2, <3>3 DEF RestoreOK, Restores, RecInv
    <3> QED
      BY <3>1, <3>2, <3>3, <3>4, <3>5, RecFrame
  <2>3. CASE Accepted(p)
    <3> DEFINE mine == store[s] \cap {ArchiveOf(p, FALSE)}
    <3>1. c \in Commands /\ c.at = "check" /\ s \in Sites /\ UNCHANGED <<data, base, waived>>
      BY <2>3, <2>0 DEF Accepted, At
    <3>2. store' = [store EXCEPT ![s] = (@ \ mine) \cup (IF mine = {} THEN {} ELSE {ArchiveOf(p, TRUE)})]
      BY <2>3 DEF Accepted
    <3>3. \A r \in Sites : \A a \in store[r] : a.whole => a \in store'[r]
      BY <3>1, <3>2 DEF ArchiveOf, Inv, TypeOK
    <3>4. \A r \in Sites : Safe(r) => Safe(r)'
      BY <3>1, <3>3, SafeKept
    <3>5. \A q \in Procs : q # p => cmd'[q] = cmd[q]
      BY <2>3 DEF Accepted, Goes, Inv, TypeOK
    <3>6. CASE c.restores
      <4>1. cmd'[p].at = "fetch" /\ cmd'[p].site = s /\ cmd'[p].restores = c.restores
        <5>1. cmd' = [cmd EXCEPT ![p].at = "fetch", ![p].safety = c.id]
          BY <2>3, <3>6 DEF Accepted
        <5> QED
          BY <5>1, <3>1 DEF Inv, TypeOK, Commands
      <4>2. OneRestore'
        BY <3>1, <3>5, <3>6, <4>1, OneRestoreKept DEF Restores, RecInv
      <4> PICK z \in Sites : z = s
        BY <3>1
      <4>3. Safe(z)'
        <5>1. c.body = base[s] \/ Safe(s)
          BY <3>1, <3>6 DEF RecInv, RestoreOK, Restores
        <5>2. ArchiveOf(p, TRUE) \in store'[s]
          BY <3>1, <3>2, <3>6 DEF IdInv, FileOK, Inv, TypeOK
        <5>3. c.tier \notin DOMAIN Keep
          BY <3>1, <3>6, KeepAssumption DEF Inv, CommandOK, BackupSteps
        <5>4. CASE c.body = base[s]
          BY <5>2, <5>3, <5>4, <3>1 DEF Safe, Copied, ArchiveOf
        <5> QED
          BY <5>1, <5>4, <3>4, <3>1
      <4>4. \A r \in Sites : RestoreOK(p, r)'
        BY <4>1, <4>3 DEF RestoreOK, Restores
      <4> QED
        BY <3>1, <3>4, <3>5, <4>2, <4>4, RecFrame
    <3>7. CASE ~c.restores
      <4>1. \A r \in Sites : ~Restores(p, r)'
        BY <2>3, <3>1, <3>7 DEF Accepted, Goes, Inv, TypeOK, Commands, Restores, Idle
      <4>2. OneRestore'
        BY <3>5, <4>1, OneRestoreKept DEF RecInv
      <4> QED
        BY <3>1, <3>4, <3>5, <4>1, <4>2, RecFrame DEF RestoreOK
    <3> QED
      BY <3>6, <3>7
  <2>4. CASE Rejected(p) \/ Deleted(p) \/ StartOk(p) \/ Stops(p)
    <3>1. cmd' = [cmd EXCEPT ![p] = Idle] /\ UNCHANGED <<data, base, waived>>
      BY <2>4 DEF Rejected, Deleted, StartOk, Stops, Goes
    <3>2. \A r \in Sites : \A a \in store[r] : a.whole => a \in store'[r]
      BY <2>4 DEF Rejected, Deleted, StartOk, Stops, ArchiveOf, Inv, TypeOK
    <3>3. \A r \in Sites : Safe(r) => Safe(r)'
      BY <3>1, <3>2, SafeKept
    <3>4. (\A q \in Procs : q # p => cmd'[q] = cmd[q]) /\ \A r \in Sites : ~Restores(p, r)'
      BY <3>1 DEF Inv, TypeOK, Restores, Idle
    <3>5. OneRestore'
      BY <3>4, OneRestoreKept DEF RecInv
    <3> QED
      BY <3>1, <3>3, <3>4, <3>5, RecFrame DEF RestoreOK
  <2>5. CASE List(p)
    <3>1. c \in Commands /\ c.at = "list" /\ UNCHANGED <<data, store, base, waived>>
      BY <2>5, <2>0 DEF List, At
    <3>2. /\ \A q \in Procs : q # p => cmd'[q] = cmd[q]
          /\ cmd'[p].at = "delete" /\ cmd'[p].site = s /\ cmd'[p].restores = c.restores
      BY <2>5, <3>1 DEF List, Inv, TypeOK, Commands
    <3>3. OneRestore'
      BY <3>1, <3>2, OneRestoreKept DEF RecInv, Restores
    <3>4. \A r \in Sites : RestoreOK(p, r)'
      BY <3>2 DEF RestoreOK
    <3> QED
      BY <3>1, <3>2, <3>3, <3>4, RecFrame DEF Safe, Copied
  <2>6. CASE Delete(p)
    <3>1. /\ c \in Commands /\ c.at = "delete" /\ s \in Sites /\ c.tier \in DOMAIN Keep
          /\ UNCHANGED <<data, base, waived>>
      BY <2>6, <2>0 DEF Delete, At, Inv, CommandOK
    <3>2. PICK i \in c.doomed :
            /\ store' = [store EXCEPT ![s] = {a \in @ : ~(a.id = i /\ a.tier = c.tier)}]
            /\ cmd' = [cmd EXCEPT ![p].doomed = @ \ {i}]
      BY <2>6 DEF Delete
    <3>3. /\ \A q \in Procs : q # p => cmd'[q] = cmd[q]
          /\ cmd'[p].at = "delete" /\ cmd'[p].site = s /\ cmd'[p].restores = c.restores
      BY <3>1, <3>2 DEF Inv, TypeOK, Commands
    <3>4. \A r \in Sites : \A a \in store[r] : a.tier \notin DOMAIN Keep => a \in store'[r]
      BY <3>1, <3>2 DEF Inv, TypeOK
    <3>5. \A r \in Sites : Safe(r) => Safe(r)'
      BY <3>1, <3>4, SafeKept
    <3>6. OneRestore'
      BY <3>1, <3>3, OneRestoreKept DEF RecInv, Restores
    <3>7. \A r \in Sites : RestoreOK(p, r)'
      BY <3>3 DEF RestoreOK
    <3> QED
      BY <3>1, <3>3, <3>5, <3>6, <3>7, RecFrame
  <2>7. CASE Fetch(p)
    <3>1. /\ c \in Commands /\ c.at = "fetch" /\ c.restores
          /\ UNCHANGED <<data, store, base, waived>>
      BY <2>7, <2>0 DEF Fetch, Intact, At, Inv, CommandOK, RestoreSteps
    <3>2. /\ \A q \in Procs : q # p => cmd'[q] = cmd[q]
          /\ cmd'[p].at = "wipe" /\ cmd'[p].site = s /\ cmd'[p].safety = c.safety
      BY <2>7, <3>1 DEF Fetch, Intact, Inv, TypeOK, Commands
    <3>3. OneRestore'
      BY <3>1, <3>2, OneRestoreKept DEF RecInv, Restores
    <3>4. \A r \in Sites : RestoreOK(p, r)'
      BY <3>1, <3>2 DEF RestoreOK, Restores, RecInv, Safe, Copied
    <3> QED
      BY <3>1, <3>2, <3>3, <3>4, RecFrame DEF Safe, Copied
  <2>8. CASE Wipe(p)
    <3>1. /\ c \in Commands /\ c.at = "wipe" /\ c.restores /\ s \in Sites
          /\ UNCHANGED <<store, base>> /\ data' = [data EXCEPT ![s] = Gone]
      BY <2>8, <2>0 DEF Wipe, At, Inv, CommandOK, RestoreSteps
    <3> PICK z \in Sites : z = s
      BY <3>1
    <3>2. /\ \A q \in Procs : q # p => cmd'[q] = cmd[q]
          /\ cmd'[p].at = "extract" /\ cmd'[p].site = s /\ cmd'[p].restores
      BY <2>8, <3>1 DEF Wipe, Goes, Inv, TypeOK, Commands
    <3>3. OneRestore'
      BY <3>1, <3>2, OneRestoreKept DEF RecInv, Restores
    <3>4. \A r \in Sites : Safe(r) => Safe(r)'
      BY <2>8, <3>1 DEF Wipe, Safe, Copied, Inv, TypeOK
    <3>5. Safe(z)'
      <4>1. CASE c.safety = NoId /\ data[s] \in Versions
        BY <2>8, <3>1, <4>1 DEF Wipe, Safe, Inv, TypeOK
      <4>2. CASE c.safety # NoId
        BY <3>1, <3>4, <4>2 DEF RecInv, RestoreOK, Restores
      <4>3. CASE data[s] \notin Versions
        BY <3>1, <3>4, <4>3 DEF RecInv
      <4> QED
        BY <4>1, <4>2, <4>3
    <3>6. \A r \in Sites : RestoreOK(p, r)'
      BY <3>2, <3>5 DEF RestoreOK, Restores
    <3>7. \A r \in Sites : data'[r] = data[r] \/ Safe(r)'
      BY <3>1, <3>5 DEF Inv, TypeOK
    <3> QED
      BY <3>1, <3>2, <3>3, <3>4, <3>6, <3>7, RecFrame
  <2>9. CASE Extract(p)
    <3>1. /\ c \in Commands /\ c.at = "extract" /\ c.restores /\ s \in Sites
          /\ UNCHANGED <<store, base, waived>>
          /\ \A r \in Sites : r # s => data'[r] = data[r]
      BY <2>9, <2>0 DEF Extract, At, Inv, TypeOK, CommandOK, RestoreSteps
    <3> PICK z \in Sites : z = s
      BY <3>1
    <3>2. /\ \A q \in Procs : q # p => cmd'[q] = cmd[q]
          /\ cmd'[p].at = "start" /\ cmd'[p].site = s /\ cmd'[p].restores
      BY <2>9, <3>1 DEF Extract, Goes, Inv, TypeOK, Commands
    <3>3. OneRestore'
      BY <3>1, <3>2, OneRestoreKept DEF RecInv, Restores
    <3>4. Safe(s) /\ Safe(z)'
      BY <3>1 DEF RecInv, RestoreOK, Restores, Safe, Copied
    <3>5. \A r \in Sites : RestoreOK(p, r)'
      BY <3>2, <3>4 DEF RestoreOK, Restores
    <3> QED
      BY <3>1, <3>2, <3>3, <3>4, <3>5, RecFrame DEF Safe, Copied
  <2>10. CASE ScriptErr(p)
    <3>1. /\ c \in Commands /\ c.at \in {"wipe", "extract", "start"} /\ c.restores /\ s \in Sites
          /\ UNCHANGED <<store, base>>
      BY <2>10, <2>0 DEF ScriptErr, At, Inv, CommandOK, RestoreSteps
    <3> PICK z \in Sites : z = s
      BY <3>1
    <3>2. /\ \A q \in Procs : q # p => cmd'[q] = cmd[q]
          /\ \/ /\ c.safety # NoId /\ cmd'[p].at = "fetch" /\ cmd'[p].site = s
                /\ cmd'[p].restores
             \/ cmd'[p].at = "idle"
      BY <2>10, <3>1 DEF ScriptErr, Undoes, Inv, TypeOK, Commands, Idle
    <3>3. OneRestore'
      BY <3>1, <3>2, OneRestoreKept DEF RecInv, Restores
    <3>4. \A r \in Sites : Safe(r) => Safe(r)'
      BY <2>10, <3>1 DEF ScriptErr, Safe, Copied, Inv, TypeOK
    <3>5. c.at # "start" => Safe(z)'
      <4>1. CASE c.at = "wipe" /\ c.safety = NoId /\ data[s] \in Versions
        BY <2>10, <3>1, <4>1 DEF ScriptErr, At, Safe, Inv, TypeOK
      <4>2. CASE c.at = "wipe" /\ c.safety # NoId
        BY <3>1, <3>4, <4>2 DEF RecInv, RestoreOK, Restores
      <4>3. CASE data[s] \notin Versions
        BY <3>1, <3>4, <4>3 DEF RecInv
      <4>4. CASE c.at = "extract"
        BY <3>1, <3>4, <4>4 DEF RecInv, RestoreOK, Restores
      <4> QED
        BY <3>1, <4>1, <4>2, <4>3, <4>4
    <3>6. \A r \in Sites : data'[r] = data[r] \/ Safe(r)'
      BY <2>10, <3>1, <3>5 DEF ScriptErr, At, Inv, TypeOK
    <3>7. c.safety # NoId => Safe(z)'
      BY <3>1, <3>4, <3>5 DEF RecInv, RestoreOK, Restores
    <3>8. \A r \in Sites : RestoreOK(p, r)'
      BY <3>2, <3>7 DEF RestoreOK, Restores
    <3> QED
      BY <3>1, <3>2, <3>3, <3>4, <3>6, <3>8, RecFrame
  <2> QED
    BY <1>3, <2>1, <2>2, <2>3, <2>4, <2>5, <2>6, <2>7, <2>8, <2>9, <2>10 DEF Step
<1>4. ASSUME NEW s \in Sites, Change(s) PROVE RecInv'
  <2>1. UNCHANGED <<store, cmd, base, waived>> /\ \A r \in Sites : data'[r] = data[r] \/ data'[r] \in Versions
    BY <1>4, BoundsAssumption DEF Change, Inv, TypeOK, Versions
  <2> QED
    BY <2>1 DEF RecInv, OneRestore, Restores, RestoreOK, Safe, Copied
<1>5. CASE UNCHANGED vars
  BY <1>5 DEF vars, RecInv, OneRestore, Restores, RestoreOK, Safe, Copied
<1> QED
  BY <1>1, <1>2, <1>3, <1>4, <1>5 DEF Next, Begin, Listed

(* With one restore of a site at a time, whatever backups run beside it and *)
(* wherever it stops: the last whole version that a restore found is in the *)
(* store, out of reach of every retention, whenever the directory is not    *)
(* whole (restore_lightweight_site_backup, prune_retention).                *)
THEOREM BackupsSiteRecoverable ==
  ASSUME Overlap = FALSE
  PROVE  Spec => []SiteRecoverable
<1>1. RecInv => SiteRecoverable
  BY DEF RecInv, SiteRecoverable, Safe, Copied
<1>2. Inv /\ IdInv /\ RecInv /\ [Next]_vars => RecInv'
  BY StepRec
<1> QED
  BY InitInv, StepInv, InitId, StepId, InitRec, <1>1, <1>2, PTL DEF Spec
-----------------------------------------------------------------------------
(* As many uploads of a tier as it keeps were started after that of i: what *)
(* a retention may delete.                                                  *)
Later(s, t, i) == {u \in sent : u.site = s /\ u.tier = t /\ u.id > i}
Outlived(s, t, i) == t \in DOMAIN Keep /\ Cardinality(Later(s, t, i)) >= Keep[t]

(* The file of an upload whose size is looked at is there, or outlived; what *)
(* a retention has listed is outlived, also when its list is old.           *)
ListOK(p) ==
  /\ cmd[p].at \in {"capture", "send"} => \A u \in sent : u.id # cmd[p].id
  /\ cmd[p].at = "check" => \/ ArchiveOf(p, FALSE) \in store[cmd[p].site]
                            \/ Outlived(cmd[p].site, cmd[p].tier, cmd[p].id)
  /\ cmd[p].at = "delete" => \A i \in cmd[p].doomed : Outlived(cmd[p].site, cmd[p].tier, i)

(* Every archive in the store has a name that was sent, and its own.        *)
StoreOK ==
  /\ IsFiniteSet(sent)
  /\ \A u \in sent : u.id <= clock
  /\ \A s \in Sites : \A a \in store[s] : [site |-> s, tier |-> a.tier, id |-> a.id] \in sent
  /\ \A s \in Sites : \A a, b \in store[s] : a.id = b.id => a = b

Kept(r) == \/ \E a \in File(r.site, r.id) : a.whole /\ a.tier = r.tier
           \/ Outlived(r.site, r.tier, r.id)

KeptInv == StoreOK /\ (\A p \in Procs : ListOK(p)) /\ \A r \in ready : Kept(r)

LEMMA OutlivedStays ==
  ASSUME IsFiniteSet(sent'), sent \subseteq sent', NEW s, NEW t, NEW i, Outlived(s, t, i)
  PROVE  Outlived(s, t, i)'
<1>1. Later(s, t, i) \subseteq Later(s, t, i)' /\ Later(s, t, i)' \subseteq sent'
  BY DEF Later
<1>2. IsFiniteSet(Later(s, t, i)')
  BY <1>1, FS_Subset
<1>3. IsFiniteSet(Later(s, t, i)) /\ Cardinality(Later(s, t, i)) <= Cardinality(Later(s, t, i)')
  BY <1>1, <1>2, FS_Subset
<1>4. Cardinality(Later(s, t, i)) \in Nat /\ Cardinality(Later(s, t, i)') \in Nat
  BY <1>2, <1>3, FS_CardinalityType
<1>5. t \in DOMAIN Keep => Keep[t] \in Nat
  BY KeepAssumption
<1> QED
  BY <1>3, <1>4, <1>5 DEF Outlived

(* What a retention lists is outlived: each newer file in the store is a    *)
(* later upload, and no two files are the same one.                         *)
LEMMA SurplusOutlived ==
  ASSUME Inv, StoreOK, NEW s \in Sites, NEW t \in DOMAIN Keep, NEW a \in Surplus(s, t)
  PROVE  Outlived(s, t, a.id)
<1> DEFINE N == Newer(s, a)
           L == Later(s, t, a.id)
           f == [b \in N |-> [site |-> s, tier |-> b.tier, id |-> b.id]]
<1>1. a \in store[s] /\ a.tier = t /\ Cardinality(N) >= Keep[t]
  BY DEF Surplus
<1>2. N \subseteq store[s] /\ \A b \in N : b.tier = t /\ b.id > a.id
  BY <1>1 DEF Newer
<1>3. \A b \in N : f[b] \in L
  BY <1>2 DEF StoreOK, Later
<1>4. \A b, c \in N : f[b] = f[c] => b = c
  BY <1>2 DEF StoreOK
<1>5. f \in Injection(N, L)
  BY <1>3, <1>4 DEF Injection, IsInjective
<1>6. IsFiniteSet(L)
  BY FS_Subset DEF Later, StoreOK
<1> HIDE DEF N, L, f
<1>7. IsFiniteSet(N) /\ Cardinality(N) <= Cardinality(L)
  BY <1>5, <1>6, FS_Injection
<1>8. Cardinality(N) \in Nat /\ Cardinality(L) \in Nat /\ Keep[t] \in Nat
  BY <1>6, <1>7, FS_CardinalityType, KeepAssumption
<1> QED
  BY <1>1, <1>7, <1>8 DEF Outlived, L

LEMMA InitKept == Init => KeptInv
<1> SUFFICES ASSUME Init PROVE KeptInv
  OBVIOUS
<1>1. \A p \in Procs : cmd[p].at = "idle"
  BY DEF Init, Idle
<1> QED
  BY <1>1, FS_EmptySet DEF Init, KeptInv, StoreOK, ListOK

(* A step of one command that starts no upload and takes no file out of the *)
(* store but its own while it is not accepted, and what is outlived.        *)
LEMMA KeptFrame ==
  ASSUME Inv, IdInv, KeptInv, NEW p \in Procs, UNCHANGED <<clock, sent>>,
         \A q \in Procs : q # p => cmd'[q] = cmd[q],
         ready' = ready,
         \A s \in Sites : store'[s] \subseteq store[s],
         \A s \in Sites : \A a \in store[s] :
            \/ a \in store'[s]
            \/ Outlived(s, a.tier, a.id)
            \/ cmd[p].at = "check" /\ a = ArchiveOf(p, FALSE),
         ListOK(p)'
  PROVE  KeptInv'
<1>1. \A s, t, i : Outlived(s, t, i) => Outlived(s, t, i)'
  BY DEF Outlived, Later
<1>2. StoreOK'
  BY DEF KeptInv, StoreOK
<1>3. ASSUME NEW q \in Procs, q # p PROVE ListOK(q)'
  <2>1. cmd'[q] = cmd[q] /\ sent' = sent
    BY <1>3
  <2>2. cmd[q].at = "check" => \/ ArchiveOf(q, FALSE) \in store'[cmd[q].site]
                               \/ Outlived(cmd[q].site, cmd[q].tier, cmd[q].id)
    <3> SUFFICES ASSUME cmd[q].at = "check", ArchiveOf(q, FALSE) \in store[cmd[q].site]
                 PROVE  \/ ArchiveOf(q, FALSE) \in store'[cmd[q].site]
                        \/ Outlived(cmd[q].site, cmd[q].tier, cmd[q].id)
      BY DEF KeptInv, ListOK
    <3>1. cmd[q].site \in Sites
      BY DEF Inv, TypeOK, Idle, Commands
    <3>2. cmd[p].at = "check" => ArchiveOf(q, FALSE) # ArchiveOf(p, FALSE)
      BY <1>3 DEF IdInv, Uploads, ArchiveOf
    <3> QED
      BY <3>1, <3>2 DEF ArchiveOf
  <2> QED
    BY <1>1, <2>1, <2>2 DEF KeptInv, ListOK, ArchiveOf
<1>4. ASSUME NEW r \in ready PROVE Kept(r)'
  <2>1. r.site \in Sites
    BY DEF Inv, TypeOK, Names
  <2>2. CASE \E a \in File(r.site, r.id) : a.whole /\ a.tier = r.tier
    <3>1. PICK a \in store[r.site] : a.id = r.id /\ a.whole /\ a.tier = r.tier
      BY <2>2 DEF File
    <3>2. ~ArchiveOf(p, FALSE).whole
      BY DEF ArchiveOf
    <3> QED
      BY <1>1, <2>1, <3>1, <3>2 DEF Kept, File
  <2> QED
    BY <1>1, <2>2 DEF KeptInv, Kept
<1> QED
  BY <1>2, <1>3, <1>4 DEF KeptInv

(* A backup begins with a second that no upload has had.                    *)
LEMMA KeptNew ==
  ASSUME Inv, KeptInv, NEW p \in Procs, UNCHANGED <<store, sent, ready>>, clock' = clock + 1,
         cmd'[p].at = "capture", cmd'[p].id = clock + 1,
         \A q \in Procs : q # p => cmd'[q] = cmd[q]
  PROVE  KeptInv'
<1>1. clock \in Nat /\ \A u \in sent : u.id \in Nat /\ u.id <= clock
  BY DEF Inv, TypeOK, Names, Ids, KeptInv, StoreOK
<1>2. StoreOK'
  BY <1>1 DEF KeptInv, StoreOK
<1>3. ListOK(p)'
  BY <1>1 DEF ListOK
<1>4. ASSUME NEW q \in Procs, q # p PROVE ListOK(q)'
  <2>1. cmd'[q] = cmd[q] /\ ListOK(q)
    BY <1>4 DEF KeptInv
  <2> QED
    BY <2>1 DEF ListOK, ArchiveOf, Outlived, Later
<1>5. \A r \in ready : Kept(r)'
  BY DEF KeptInv, Kept, File, Outlived, Later
<1> QED
  BY <1>2, <1>3, <1>4, <1>5 DEF KeptInv

LEMMA SendKept == ASSUME Inv, IdInv, KeptInv, NEW p \in Procs, Send(p) PROVE KeptInv'
<1> DEFINE c == cmd[p]
           s == cmd[p].site
<1>1. c \in Commands /\ c.at = "send" /\ s \in Sites /\ c.id \in Ids /\ c.id <= clock
  BY DEF Send, At, Inv, TypeOK, Idle, Commands, IdInv, IdOK, Uploads
<1>2. /\ store' = [store EXCEPT ![s] = @ \cup {ArchiveOf(p, FALSE)}]
      /\ sent' = sent \cup {NameOf(p)} /\ UNCHANGED <<clock, ready>>
  BY DEF Send
<1>3. /\ cmd'[p].at = "check" /\ cmd'[p].id = c.id /\ cmd'[p].site = s
      /\ cmd'[p].body = c.body /\ cmd'[p].tier = c.tier
      /\ \A q \in Procs : q # p => cmd'[q] = cmd[q]
  BY <1>1 DEF Send, Goes, Inv, TypeOK, Commands
<1>4. IsFiniteSet(sent')
  BY <1>2, FS_AddElement DEF KeptInv, StoreOK
<1>5. \A r, t, i : Outlived(r, t, i) => Outlived(r, t, i)'
  BY <1>2, <1>4, OutlivedStays
<1>6. \A r \in Sites : store[r] \subseteq store'[r] /\ (r # s => store'[r] = store[r])
  BY <1>1, <1>2 DEF Inv, TypeOK
<1>7. store'[s] = store[s] \cup {ArchiveOf(p, FALSE)}
  BY <1>1, <1>2 DEF Inv, TypeOK
<1>8. StoreOK'
  <2>1. \A u \in sent' : u.id <= clock
    BY <1>1, <1>2 DEF KeptInv, StoreOK, NameOf
  <2>2. \A r \in Sites : \A a \in store'[r] : [site |-> r, tier |-> a.tier, id |-> a.id] \in sent'
    <3> SUFFICES ASSUME NEW r \in Sites, NEW a \in store'[r]
                 PROVE  [site |-> r, tier |-> a.tier, id |-> a.id] \in sent'
      OBVIOUS
    <3>1. CASE a \in store[r]
      BY <1>2, <3>1 DEF KeptInv, StoreOK
    <3>2. CASE a \notin store[r]
      BY <1>2, <1>6, <1>7, <3>2 DEF NameOf, ArchiveOf
    <3> QED
      BY <3>1, <3>2
  <2>3. ASSUME NEW a \in store[s] PROVE a.id # c.id
    <3>1. [site |-> s, tier |-> a.tier, id |-> a.id] \in sent
      BY <1>1 DEF KeptInv, StoreOK
    <3>2. \A u \in sent : u.id # c.id
      BY <1>1 DEF KeptInv, ListOK
    <3> QED
      BY <3>1, <3>2
  <2>4. \A r \in Sites : \A a, b \in store'[r] : a.id = b.id => a = b
    <3>1. ArchiveOf(p, FALSE).id = c.id
      BY DEF ArchiveOf
    <3> HIDE DEF c, s
    <3>2. \A a, b \in store'[s] : a.id = b.id => a = b
      BY <1>1, <1>7, <2>3, <3>1 DEF KeptInv, StoreOK
    <3> QED
      BY <1>6, <3>2 DEF KeptInv, StoreOK
  <2> QED
    BY <1>2, <1>4, <2>1, <2>2, <2>4 DEF StoreOK
<1>9. ListOK(p)'
  BY <1>3, <1>7 DEF ListOK, ArchiveOf
<1>10. ASSUME NEW q \in Procs, q # p PROVE ListOK(q)'
  <2>1. cmd[q].at \in {"capture", "send"} => cmd[q].id # c.id
    BY <1>1, <1>10 DEF IdInv, Uploads
  <2>2. cmd[q].at \in {"capture", "send"} => \A u \in sent' : u.id # cmd[q].id
    <3>1. NameOf(p).id = c.id
      BY DEF NameOf
    <3> QED
      BY <1>2, <2>1, <3>1 DEF KeptInv, ListOK
  <2>3. cmd[q].at = "check" => cmd[q].site \in Sites
    BY DEF Inv, TypeOK, Idle, Commands
  <2>4. cmd[q].at = "check" => \/ ArchiveOf(q, FALSE) \in store'[cmd[q].site]
                               \/ Outlived(cmd[q].site, cmd[q].tier, cmd[q].id)
    BY <1>6, <2>3 DEF KeptInv, ListOK
  <2> QED
    BY <1>3, <1>5, <1>10, <2>2, <2>4 DEF KeptInv, ListOK, ArchiveOf
<1>11. ASSUME NEW r \in ready PROVE Kept(r)'
  <2>1. r.site \in Sites
    BY DEF Inv, TypeOK, Names
  <2> QED
    BY <1>5, <1>6, <2>1 DEF KeptInv, Kept, File
<1> QED
  BY <1>2, <1>8, <1>9, <1>10, <1>11 DEF KeptInv

LEMMA AcceptedKept == ASSUME Inv, IdInv, KeptInv, NEW p \in Procs, Accepted(p) PROVE KeptInv'
<1> DEFINE c == cmd[p]
           s == cmd[p].site
           part == ArchiveOf(p, FALSE)
           all == ArchiveOf(p, TRUE)
<1>1. c \in Commands /\ c.at = "check" /\ s \in Sites
  BY DEF Accepted, At, Inv, TypeOK, Idle, Commands
<1>2. ready' = ready \cup {NameOf(p)} /\ UNCHANGED <<clock, sent>>
  BY DEF Accepted
<1>3. /\ \A r \in Sites : r # s => store'[r] = store[r]
      /\ part \in store[s] => store'[s] = (store[s] \ {part}) \cup {all}
      /\ part \notin store[s] => store'[s] = store[s]
  BY <1>1 DEF Accepted, Inv, TypeOK
<1>4. /\ part.id = c.id /\ all.id = c.id /\ part.tier = c.tier /\ all.tier = c.tier
      /\ all.whole /\ ~part.whole
  BY DEF ArchiveOf
<1> HIDE DEF part, all
<1>5. cmd'[p].at \in {"fetch", "list", "idle"} /\ \A q \in Procs : q # p => cmd'[q] = cmd[q]
  BY <1>1 DEF Accepted, Goes, Inv, TypeOK, Commands, Idle
<1>6. \A r, t, i : Outlived(r, t, i) => Outlived(r, t, i)'
  BY <1>2 DEF Outlived, Later
<1>7. StoreOK'
  <2>1. \A r \in Sites : \A a \in store'[r] : [site |-> r, tier |-> a.tier, id |-> a.id] \in sent'
    <3> SUFFICES ASSUME NEW r \in Sites, NEW a \in store'[r]
                 PROVE  [site |-> r, tier |-> a.tier, id |-> a.id] \in sent
      BY <1>2
    <3>1. CASE a \in store[r]
      BY <3>1 DEF KeptInv, StoreOK
    <3>2. CASE a \notin store[r]
      <4>1. r = s /\ a = all /\ part \in store[s]
        BY <1>3, <3>2
      <4> QED
        BY <1>1, <1>4, <4>1 DEF KeptInv, StoreOK
    <3> QED
      BY <3>1, <3>2
  <2>2. \A r \in Sites : \A a, b \in store'[r] : a.id = b.id => a = b
    <3>1. \A a \in store[s] : part \in store[s] /\ a.id = c.id => a = part
      BY <1>1, <1>4 DEF KeptInv, StoreOK
    <3> HIDE DEF c, s
    <3>2. \A a, b \in store'[s] : a.id = b.id => a = b
      BY <1>1, <1>3, <1>4, <3>1 DEF KeptInv, StoreOK
    <3> QED
      BY <1>3, <3>2 DEF KeptInv, StoreOK
  <2> QED
    BY <1>2, <2>1, <2>2 DEF KeptInv, StoreOK
<1>8. ListOK(p)'
  BY <1>5 DEF ListOK
<1>9. ASSUME NEW q \in Procs, q # p PROVE ListOK(q)'
  <2>1. cmd[q].at = "check" => cmd[q].site \in Sites /\ ArchiveOf(q, FALSE) # part
    BY <1>1, <1>4, <1>9 DEF Inv, TypeOK, Idle, Commands, IdInv, Uploads, ArchiveOf
  <2>2. cmd[q].at = "check" => \/ ArchiveOf(q, FALSE) \in store'[cmd[q].site]
                               \/ Outlived(cmd[q].site, cmd[q].tier, cmd[q].id)
    BY <1>3, <2>1 DEF KeptInv, ListOK
  <2> QED
    BY <1>2, <1>5, <1>6, <1>9, <2>2 DEF KeptInv, ListOK, ArchiveOf
<1>10. ASSUME NEW r \in ready PROVE Kept(r)'
  <2>1. r.site \in Sites
    BY DEF Inv, TypeOK, Names
  <2>2. \A a \in store[r.site] : a.whole => a \in store'[r.site]
    BY <1>3, <1>4, <2>1
  <2> QED
    BY <1>6, <2>2 DEF KeptInv, Kept, File
<1> PICK n \in Names : n = NameOf(p)
  BY DEF Inv, CommandOK, TypeOK, Accepted, At
<1>11. Kept(n)'
  <2>1. n.site = s /\ n.tier = c.tier /\ n.id = c.id
    BY DEF NameOf
  <2>2. CASE part \in store[s]
    <3>1. all \in store'[s]
      BY <1>3, <2>2
    <3> QED
      BY <1>4, <2>1, <3>1 DEF Kept, File
  <2>3. CASE part \notin store[s]
    <3>1. Outlived(s, c.tier, c.id)
      BY <1>1, <2>3 DEF KeptInv, ListOK, part
    <3> QED
      BY <1>6, <2>1, <3>1 DEF Kept
  <2> QED
    BY <2>2, <2>3
<1> QED
  BY <1>2, <1>7, <1>8, <1>9, <1>10, <1>11 DEF KeptInv

LEMMA StepKept == Inv /\ IdInv /\ KeptInv /\ [Next]_vars => KeptInv'
<1> SUFFICES ASSUME Inv, IdInv, KeptInv, [Next]_vars PROVE KeptInv'
  OBVIOUS
<1>1. ASSUME NEW p \in Procs, NEW s \in Sites, NEW t \in Tiers, BeginBackup(p, s, t)
      PROVE  KeptInv'
  <2>1. /\ UNCHANGED <<store, sent, ready>> /\ clock' = clock + 1
        /\ cmd'[p].at = "capture" /\ cmd'[p].id = clock + 1
        /\ \A q \in Procs : q # p => cmd'[q] = cmd[q]
    BY <1>1 DEF BeginBackup, NewBackup, Inv, TypeOK
  <2> QED
    BY <2>1, KeptNew
<1>2. ASSUME NEW p \in Procs, NEW s \in Sites, NEW skip \in BOOLEAN,
             NEW i \in {a.id : a \in store[s]}, BeginRestore(p, s, i, skip)
      PROVE  KeptInv'
  <2>1. UNCHANGED <<store, sent, ready>> /\ \A q \in Procs : q # p => cmd'[q] = cmd[q]
    BY <1>2 DEF BeginRestore, Inv, TypeOK
  <2>2. CASE ~skip /\ HasDirectory(s)
    <3>1. cmd' = [cmd EXCEPT ![p] = [NewBackup(s, SafetyTier) EXCEPT !.restores = TRUE, !.target = i]]
      BY <1>2, <2>2 DEF BeginRestore
    <3>2. clock' = clock + 1 /\ cmd'[p].at = "capture" /\ cmd'[p].id = clock + 1
      BY <1>2, <2>2, <3>1 DEF BeginRestore, NewBackup, Inv, TypeOK
    <3> QED
      BY <2>1, <3>2, KeptNew
  <2>3. CASE ~(~skip /\ HasDirectory(s))
    <3>1. clock' = clock /\ cmd'[p].at = "fetch"
      BY <1>2, <2>3 DEF BeginRestore, NewBackup, Inv, TypeOK
    <3>2. ListOK(p)'
      BY <3>1 DEF ListOK
    <3> QED
      BY <2>1, <3>1, <3>2, KeptFrame
  <2> QED
    BY <2>2, <2>3
<1>3. ASSUME NEW p \in Procs, Step(p) PROVE KeptInv'
  <2> DEFINE c == cmd[p]
             s == cmd[p].site
  <2>0. c.at # "idle" => c \in Commands /\ s \in Sites
    BY DEF Inv, TypeOK, Idle, Commands
  <2>1. CASE Capture(p)
    <3>1. /\ c.at = "capture" /\ cmd'[p].at = "send" /\ cmd'[p].id = c.id
          /\ UNCHANGED <<clock, store, sent, ready>>
          /\ \A q \in Procs : q # p => cmd'[q] = cmd[q]
      BY <2>1, <2>0 DEF Capture, Contents, Inv, TypeOK, Commands, At
    <3>2. ListOK(p)'
      BY <3>1 DEF ListOK, KeptInv
    <3> QED
      BY <3>1, <3>2, KeptFrame
  <2>2. CASE Send(p)
    BY <2>2, SendKept
  <2>3. CASE Accepted(p)
    BY <2>3, AcceptedKept
  <2>4. CASE Rejected(p)
    <3>1. c.at = "check" /\ s \in Sites /\ UNCHANGED <<clock, sent, ready>>
      BY <2>4, <2>0 DEF Rejected, At
    <3>2. store' = [store EXCEPT ![s] = @ \ {ArchiveOf(p, FALSE)}]
      BY <2>4 DEF Rejected
    <3>3. cmd'[p].at = "idle" /\ \A q \in Procs : q # p => cmd'[q] = cmd[q]
      BY <2>4 DEF Rejected, Goes, Inv, TypeOK, Idle
    <3>4. \A r \in Sites : /\ store'[r] \subseteq store[r]
                           /\ \A a \in store[r] : a \in store'[r] \/ a = ArchiveOf(p, FALSE)
      BY <3>1, <3>2 DEF Inv, TypeOK
    <3>5. ListOK(p)'
      BY <3>3 DEF ListOK
    <3> QED
      BY <3>1, <3>3, <3>4, <3>5, KeptFrame
  <2>5. CASE Delete(p)
    <3>1. c \in Commands /\ c.at = "delete" /\ s \in Sites /\ UNCHANGED <<clock, sent, ready>>
      BY <2>5, <2>0 DEF Delete, At
    <3>2. PICK i \in c.doomed :
            /\ store' = [store EXCEPT ![s] = {a \in @ : ~(a.id = i /\ a.tier = c.tier)}]
            /\ cmd' = [cmd EXCEPT ![p].doomed = @ \ {i}]
      BY <2>5 DEF Delete
    <3>3. /\ cmd'[p].at = "delete" /\ cmd'[p].site = s /\ cmd'[p].tier = c.tier
          /\ cmd'[p].doomed \subseteq c.doomed
          /\ \A q \in Procs : q # p => cmd'[q] = cmd[q]
      BY <3>1, <3>2 DEF Inv, TypeOK, Commands
    <3>4. Outlived(s, c.tier, i)
      BY <3>1, <3>2 DEF KeptInv, ListOK
    <3>5. \A r \in Sites : /\ store'[r] \subseteq store[r]
                           /\ \A a \in store[r] : a \in store'[r] \/ Outlived(r, a.tier, a.id)
      BY <3>1, <3>2, <3>4 DEF Inv, TypeOK
    <3>6. \A j \in c.doomed : Outlived(s, c.tier, j)
      BY <3>1 DEF KeptInv, ListOK
    <3>7. ListOK(p)'
      BY <3>1, <3>3, <3>6 DEF ListOK, Outlived, Later
    <3> QED
      BY <3>1, <3>3, <3>5, <3>7, KeptFrame
  <2>6. CASE List(p)
    <3>1. /\ c \in Commands /\ c.at = "list" /\ s \in Sites /\ c.tier \in DOMAIN Keep
          /\ UNCHANGED <<clock, store, sent, ready>>
      BY <2>6, <2>0 DEF List, At, Inv, CommandOK
    <3>2. cmd' = [cmd EXCEPT ![p].at = "delete", ![p].doomed = {a.id : a \in Surplus(s, c.tier)}]
      BY <2>6 DEF List
    <3>3. /\ cmd'[p].at = "delete" /\ cmd'[p].site = s /\ cmd'[p].tier = c.tier
          /\ cmd'[p].doomed = {a.id : a \in Surplus(s, c.tier)}
          /\ \A q \in Procs : q # p => cmd'[q] = cmd[q]
      BY <3>1, <3>2 DEF Inv, TypeOK, Commands
    <3>4. \A a \in Surplus(s, c.tier) : Outlived(s, c.tier, a.id)
      BY <3>1, SurplusOutlived DEF KeptInv
    <3>5. ListOK(p)'
      BY <3>1, <3>3, <3>4 DEF ListOK, Outlived, Later
    <3> QED
      BY <3>1, <3>3, <3>5, KeptFrame
  <2>7. CASE Deleted(p) \/ Fetch(p) \/ Wipe(p) \/ Extract(p) \/ StartOk(p)
               \/ ScriptErr(p) \/ Stops(p)
    <3>1. UNCHANGED <<clock, store, sent, ready>>
      BY <2>7 DEF Deleted, Fetch, Intact, Wipe, Extract, StartOk, ScriptErr, Stops
    <3>2. c \in Commands
      BY <2>7, <2>0 DEF Deleted, Fetch, Intact, Wipe, Extract, StartOk, ScriptErr, Stops, At
    <3>3. cmd'[p].at \in {"idle", "wipe", "extract", "start", "fetch"}
      <4>1. CASE Fetch(p)
        BY <4>1, <3>2 DEF Fetch, Intact, Inv, TypeOK, Commands
      <4>2. CASE Wipe(p) \/ Extract(p)
        BY <4>2, <3>2 DEF Wipe, Extract, Goes, Inv, TypeOK, Commands
      <4>3. CASE Deleted(p) \/ StartOk(p) \/ Stops(p)
        BY <4>3 DEF Deleted, StartOk, Stops, Goes, Inv, TypeOK, Idle
      <4>4. CASE ScriptErr(p)
        BY <4>4, <3>2 DEF ScriptErr, Undoes, Inv, TypeOK, Commands, Idle
      <4> QED
        BY <2>7, <4>1, <4>2, <4>3, <4>4
    <3>4. \A q \in Procs : q # p => cmd'[q] = cmd[q]
      BY <2>7 DEF Deleted, Fetch, Intact, Wipe, Extract, StartOk, ScriptErr, Stops, Undoes,
                  Goes, Inv, TypeOK
    <3>5. ListOK(p)'
      BY <3>3 DEF ListOK
    <3> QED
      BY <3>1, <3>3, <3>4, <3>5, KeptFrame
  <2> QED
    BY <1>3, <2>1, <2>2, <2>3, <2>4, <2>5, <2>6, <2>7 DEF Step
<1>4. CASE UNCHANGED <<clock, store, cmd, sent, ready>>
  <2>1. StoreOK'
    BY <1>4 DEF KeptInv, StoreOK
  <2>2. ASSUME NEW p \in Procs PROVE ListOK(p)'
    <3>1. ListOK(p)
      BY DEF KeptInv
    <3> QED
      BY <1>4, <3>1 DEF ListOK, Outlived, Later, ArchiveOf
  <2>3. \A r \in ready : Kept(r)'
    BY <1>4 DEF KeptInv, Kept, File, Outlived, Later
  <2> QED
    BY <1>4, <2>1, <2>2, <2>3 DEF KeptInv
<1> QED
  BY <1>1, <1>2, <1>3, <1>4 DEF Next, Begin, Listed, Change, vars

(* However the commands that upload, list and delete interleave, stop or    *)
(* fail, for any number of them and any retention: a backup that was        *)
(* reported ready is in the store, whole, or as many later ones of its tier *)
(* as are kept were started (create_site_backup, prune_retention).          *)
THEOREM BackupsReadyIsKept == Spec => []ReadyIsKept
<1>1. KeptInv => ReadyIsKept
  BY DEF KeptInv, Kept, Outlived, Later, ReadyIsKept
<1> QED
  BY InitInv, StepInv, InitId, StepId, InitKept, StepKept, <1>1, PTL DEF Spec
-----------------------------------------------------------------------------
(* What the second script of a failed restore works with: the safety copy,  *)
(* which stays where it is, and the directory as the first one left it.     *)
SafetyCopy(p) == {a \in store[cmd[p].site] : a.id = cmd[p].safety /\ a.whole /\ a.tier = "manual"}

BackOK(p) ==
  /\ cmd[p].at \in BackupSteps => ~cmd[p].undo
  /\ cmd[p].at \in RestoreSteps /\ cmd[p].safety # NoId => SafetyCopy(p) # {}
  /\ cmd[p].at \in RestoreSteps /\ cmd[p].undo =>
       cmd[p].safety # NoId /\ cmd[p].target = cmd[p].safety
  /\ cmd[p].at \in {"wipe", "extract", "start"} /\ cmd[p].undo =>
       \E a \in SafetyCopy(p) : a.body = cmd[p].body
  /\ cmd[p].at = "extract" => data[cmd[p].site] = Gone
  /\ cmd[p].at = "start" => \/ data[cmd[p].site] \in cmd[p].body .. MaxVersion
                            \/ data[cmd[p].site] = cmd[p].body

BackInv == \A p \in Procs : BackOK(p)

LEMMA InitBack == Init => BackInv
BY DEF Init, BackInv, BackOK, Idle, BackupSteps, RestoreSteps

(* No step takes a whole archive of the tier of the safety copies.          *)
LEMMA CopiesStay ==
  ASSUME Inv, [Next]_vars
  PROVE  \A s \in Sites : \A a \in store[s] : a.whole /\ a.tier = "manual" => a \in store'[s]
<1>1. ASSUME NEW p \in Procs, Send(p) \/ Accepted(p) \/ Rejected(p) \/ Delete(p)
      PROVE  \A s \in Sites : \A a \in store[s] : a.whole /\ a.tier = "manual" => a \in store'[s]
  <2>1. cmd[p].site \in Sites /\ (Delete(p) => cmd[p].tier # "manual")
    <3>1. cmd[p].at \in {"send", "check", "delete"} /\ (Delete(p) => cmd[p].at = "delete")
      BY <1>1 DEF Send, Accepted, Rejected, Delete, At
    <3>2. cmd[p] \in Commands
      BY <3>1 DEF Inv, TypeOK, Idle
    <3>3. cmd[p].site \in Sites
      BY <3>2 DEF Commands
    <3> QED
      BY <3>1, <3>3, KeepAssumption DEF Inv, CommandOK
  <2>2. ~ArchiveOf(p, FALSE).whole
    BY DEF ArchiveOf
  <2>3. CASE Send(p)
    BY <2>1, <2>3 DEF Send, Inv, TypeOK
  <2>4. CASE Accepted(p)
    BY <2>1, <2>2, <2>4 DEF Accepted, Inv, TypeOK
  <2>5. CASE Rejected(p)
    BY <2>1, <2>2, <2>5 DEF Rejected, Inv, TypeOK
  <2>6. CASE Delete(p)
    BY <2>1, <2>6 DEF Delete, Inv, TypeOK
  <2> QED
    BY <1>1, <2>3, <2>4, <2>5, <2>6
<1>2. ASSUME NEW p \in Procs, Begin(p) PROVE store' = store
  BY <1>2 DEF Begin, BeginBackup, BeginRestore
<1>3. ASSUME NEW p \in Procs,
             Capture(p) \/ List(p) \/ Deleted(p) \/ Fetch(p) \/ Wipe(p) \/ Extract(p)
               \/ StartOk(p) \/ ScriptErr(p) \/ Stops(p)
      PROVE  store' = store
  BY <1>3 DEF Capture, Contents, List, Deleted, Fetch, Intact, Wipe, Extract, StartOk, ScriptErr, Stops
<1>4. ASSUME NEW s \in Sites, Change(s) PROVE store' = store
  BY <1>4 DEF Change
<1> QED
  BY <1>1, <1>2, <1>3, <1>4 DEF Next, Step, vars

(* The others keep what they work with: of their sites only they remove and *)
(* extract the directory.                                                   *)
LEMMA BackFrame ==
  ASSUME Inv, RecInv, BackInv, [Next]_vars, NEW p \in Procs,
         \A q \in Procs : q # p => cmd'[q] = cmd[q],
         \A s \in Sites : data'[s] = data[s] \/ Restores(p, s),
         BackOK(p)'
  PROVE  BackInv'
<1> SUFFICES ASSUME NEW q \in Procs, q # p PROVE BackOK(q)'
  BY DEF BackInv
<1>1. CASE cmd[q].at \in RestoreSteps
  <2>1. cmd[q].site \in Sites /\ Restores(q, cmd[q].site)
    BY <1>1 DEF Inv, TypeOK, Commands, Idle, CommandOK, Restores, RestoreSteps
  <2>2. data'[cmd[q].site] = data[cmd[q].site]
    BY <2>1 DEF RecInv, OneRestore
  <2>3. SafetyCopy(q) \subseteq SafetyCopy(q)'
    BY <2>1, CopiesStay DEF SafetyCopy
  <2>4. BackOK(q) /\ cmd'[q] = cmd[q]
    BY DEF BackInv
  <2> QED
    BY <1>1, <2>2, <2>3, <2>4 DEF BackOK
<1>2. CASE cmd[q].at \notin RestoreSteps
  BY <1>2 DEF BackInv, BackOK, RestoreSteps, BackupSteps
<1> QED
  BY <1>1, <1>2

LEMMA StepBack ==
  Inv /\ IdInv /\ KeptInv /\ RecInv /\ BackInv /\ [Next]_vars => BackInv'
<1> SUFFICES ASSUME Inv, IdInv, KeptInv, RecInv, BackInv, [Next]_vars PROVE BackInv'
  OBVIOUS
<1>1. ASSUME NEW p \in Procs, NEW s \in Sites, NEW t \in Tiers, BeginBackup(p, s, t)
      PROVE  BackInv'
  <2>1. /\ data' = data /\ cmd'[p].at = "capture" /\ ~cmd'[p].undo
        /\ \A q \in Procs : q # p => cmd'[q] = cmd[q]
    BY <1>1 DEF BeginBackup, NewBackup, Inv, TypeOK
  <2>2. BackOK(p)'
    BY <2>1 DEF BackOK, RestoreSteps
  <2> QED
    BY <2>1, <2>2, BackFrame
<1>2. ASSUME NEW p \in Procs, NEW s \in Sites, NEW skip \in BOOLEAN,
             NEW i \in {a.id : a \in store[s]}, BeginRestore(p, s, i, skip)
      PROVE  BackInv'
  <2>1. /\ data' = data /\ ~cmd'[p].undo
        /\ cmd'[p].at = "capture" \/ (cmd'[p].at = "fetch" /\ cmd'[p].safety = NoId)
        /\ \A q \in Procs : q # p => cmd'[q] = cmd[q]
    <3> DEFINE new == [NewBackup(s, SafetyTier) EXCEPT !.restores = TRUE, !.target = i]
    <3>1. cmd' = [cmd EXCEPT ![p] = new] \/ cmd' = [cmd EXCEPT ![p] = [new EXCEPT !.at = "fetch", !.id = NoId]]
      BY <1>2 DEF BeginRestore
    <3>2. /\ new.at = "capture" /\ ~new.undo
          /\ [new EXCEPT !.at = "fetch", !.id = NoId].at = "fetch"
          /\ [new EXCEPT !.at = "fetch", !.id = NoId].safety = NoId
          /\ ~[new EXCEPT !.at = "fetch", !.id = NoId].undo
      BY DEF NewBackup
    <3> HIDE DEF new
    <3>3. data' = data
      BY <1>2 DEF BeginRestore
    <3> QED
      BY <3>1, <3>2, <3>3 DEF Inv, TypeOK
  <2>2. BackOK(p)'
    BY <2>1 DEF BackOK, RestoreSteps, BackupSteps
  <2> QED
    BY <2>1, <2>2, BackFrame
<1>3. ASSUME NEW p \in Procs, Step(p) PROVE BackInv'
  <2> DEFINE c == cmd[p]
             s == cmd[p].site
  <2>0. c.at # "idle" => c \in Commands /\ s \in Sites
    BY DEF Inv, TypeOK, Idle, Commands
  <2>1. CASE Capture(p) \/ Send(p) \/ List(p) \/ Delete(p)
    <3>1. c \in Commands /\ c.at \in BackupSteps /\ data' = data /\ ~c.undo
      BY <2>0, <2>1 DEF Capture, Contents, Send, List, Delete, At, BackupSteps, BackInv, BackOK
    <3>2. cmd'[p].at \in BackupSteps /\ cmd'[p].undo = c.undo
      <4>1. CASE Capture(p)
        BY <3>1, <4>1 DEF Capture, Inv, TypeOK, Commands, BackupSteps
      <4>2. CASE Send(p)
        BY <3>1, <4>2 DEF Send, Goes, Inv, TypeOK, Commands, BackupSteps
      <4>3. CASE List(p) \/ Delete(p)
        BY <3>1, <4>3 DEF List, Delete, At, Inv, TypeOK, Commands, BackupSteps
      <4> QED
        BY <2>1, <4>1, <4>2, <4>3
    <3>3. \A q \in Procs : q # p => cmd'[q] = cmd[q]
      BY <2>1 DEF Capture, Send, Goes, List, Delete, Inv, TypeOK
    <3>4. BackOK(p)'
      BY <3>1, <3>2 DEF BackOK, RestoreSteps, BackupSteps
    <3> QED
      BY <3>1, <3>3, <3>4, BackFrame
  <2>2. CASE Accepted(p)
    <3>1. c \in Commands /\ c.at = "check" /\ data' = data /\ ~c.undo /\ s \in Sites
      BY <2>0, <2>2 DEF Accepted, At, BackupSteps, BackInv, BackOK
    <3>2. \A q \in Procs : q # p => cmd'[q] = cmd[q]
      BY <2>2 DEF Accepted, Goes, Inv, TypeOK
    <3>3. CASE c.restores
      <4>1. cmd'[p] = [c EXCEPT !.at = "fetch", !.safety = c.id]
        BY <2>2, <3>3 DEF Accepted, Inv, TypeOK
      <4>2. /\ cmd'[p].at = "fetch" /\ cmd'[p].safety = c.id /\ cmd'[p].site = s
            /\ ~cmd'[p].undo
        BY <3>1, <4>1 DEF Commands
      <4>3. ArchiveOf(p, TRUE) \in store'[s]
        <5>1. ArchiveOf(p, FALSE) \in store[s]
          BY <3>1, <3>3 DEF IdInv, FileOK
        <5> QED
          BY <2>2, <3>1, <5>1 DEF Accepted, Inv, TypeOK
      <4>4. ArchiveOf(p, TRUE).id = c.id /\ ArchiveOf(p, TRUE).whole /\ ArchiveOf(p, TRUE).tier = "manual"
        BY <3>1, <3>3 DEF ArchiveOf, Inv, CommandOK, BackupSteps
      <4>5. SafetyCopy(p)' # {}
        BY <4>2, <4>3, <4>4 DEF SafetyCopy
      <4>6. BackOK(p)'
        BY <4>2, <4>5 DEF BackOK, RestoreSteps, BackupSteps
      <4> QED
        BY <3>1, <3>2, <4>6, BackFrame
    <3>4. CASE ~c.restores
      <4>1. cmd'[p].at \in {"list", "idle"} /\ (cmd'[p].at = "list" => ~cmd'[p].undo)
        BY <2>2, <3>1, <3>4 DEF Accepted, Goes, Inv, TypeOK, Commands, Idle
      <4>2. BackOK(p)'
        BY <4>1 DEF BackOK, RestoreSteps, BackupSteps
      <4> QED
        BY <3>1, <3>2, <4>2, BackFrame
    <3> QED
      BY <3>3, <3>4
  <2>3. CASE Rejected(p) \/ Deleted(p) \/ StartOk(p) \/ Stops(p)
    <3>0. data' = data /\ cmd' = [cmd EXCEPT ![p] = Idle]
      BY <2>3 DEF Rejected, Deleted, StartOk, Stops, Goes
    <3>1. /\ data' = data /\ cmd'[p].at = "idle"
          /\ \A q \in Procs : q # p => cmd'[q] = cmd[q]
      BY <3>0 DEF Inv, TypeOK, Idle
    <3>2. BackOK(p)'
      BY <3>1 DEF BackOK, RestoreSteps, BackupSteps
    <3> QED
      BY <3>1, <3>2, BackFrame
  <2>4. CASE Fetch(p)
    <3>1. /\ c \in Commands /\ s \in Sites /\ c.at = "fetch" /\ UNCHANGED <<data, store>>
          /\ BackOK(p)
      BY <2>0, <2>4 DEF Fetch, At, BackInv
    <3>2. PICK a \in File(s, c.target) :
            a.whole /\ cmd' = [cmd EXCEPT ![p].at = "wipe", ![p].body = a.body]
      BY <2>4 DEF Fetch, Intact
    <3>3. /\ cmd'[p].at = "wipe" /\ cmd'[p].body = a.body /\ cmd'[p].site = s
          /\ cmd'[p].safety = c.safety /\ cmd'[p].target = c.target /\ cmd'[p].undo = c.undo
          /\ \A q \in Procs : q # p => cmd'[q] = cmd[q]
      BY <3>1, <3>2 DEF Inv, TypeOK, Commands
    <3>4. SafetyCopy(p)' = SafetyCopy(p)
      BY <3>1, <3>3 DEF SafetyCopy
    <3>5. c.undo => a \in SafetyCopy(p)
      <4> SUFFICES ASSUME c.undo PROVE a \in SafetyCopy(p)
        OBVIOUS
      <4>1. c.target = c.safety /\ SafetyCopy(p) # {}
        BY <3>1 DEF BackOK, RestoreSteps
      <4>2. PICK b \in SafetyCopy(p) : TRUE
        BY <4>1
      <4>3. a = b
        BY <3>1, <3>2, <4>1 DEF SafetyCopy, File, KeptInv, StoreOK
      <4> QED
        BY <4>3
    <3>6. BackOK(p)'
      BY <3>1, <3>3, <3>4, <3>5 DEF BackOK, RestoreSteps, BackupSteps
    <3> QED
      BY <3>1, <3>3, <3>6, BackFrame
  <2>5. CASE Wipe(p)
    <3>1. /\ c \in Commands /\ s \in Sites /\ c.at = "wipe" /\ store' = store
          /\ data' = [data EXCEPT ![s] = Gone] /\ BackOK(p) /\ Restores(p, s)
      BY <2>0, <2>5 DEF Wipe, At, BackInv, Inv, CommandOK, RestoreSteps, Restores
    <3>2. cmd' = [cmd EXCEPT ![p] = [c EXCEPT !.at = "extract"]]
      BY <2>5 DEF Wipe, Goes
    <3>3. /\ cmd'[p].at = "extract" /\ cmd'[p].body = c.body /\ cmd'[p].site = s
          /\ cmd'[p].safety = c.safety /\ cmd'[p].target = c.target /\ cmd'[p].undo = c.undo
          /\ \A q \in Procs : q # p => cmd'[q] = cmd[q]
      BY <3>1, <3>2 DEF Inv, TypeOK, Commands
    <3>4. /\ SafetyCopy(p)' = SafetyCopy(p) /\ data'[s] = Gone
          /\ \A r \in Sites : r # s => data'[r] = data[r]
      BY <3>1, <3>3 DEF SafetyCopy, Inv, TypeOK
    <3>5. BackOK(p)'
      BY <3>1, <3>3, <3>4 DEF BackOK, RestoreSteps, BackupSteps
    <3> QED
      BY <3>1, <3>3, <3>4, <3>5, BackFrame
  <2>6. CASE Extract(p)
    <3>1. /\ c \in Commands /\ s \in Sites /\ c.at = "extract" /\ store' = store
          /\ BackOK(p) /\ Restores(p, s) /\ data[s] = Gone
      BY <2>0, <2>6 DEF Extract, At, BackInv, BackOK, Inv, CommandOK, RestoreSteps, Restores
    <3>2. /\ cmd' = [cmd EXCEPT ![p] = [c EXCEPT !.at = "start"]]
          /\ data' = [data EXCEPT ![s] = c.body]
      BY <2>6, <3>1 DEF Extract, Goes, Inv, TypeOK
    <3>3. /\ cmd'[p].at = "start" /\ cmd'[p].body = c.body /\ cmd'[p].site = s
          /\ cmd'[p].safety = c.safety /\ cmd'[p].target = c.target /\ cmd'[p].undo = c.undo
          /\ \A q \in Procs : q # p => cmd'[q] = cmd[q]
      BY <3>1, <3>2 DEF Inv, TypeOK, Commands
    <3>4. /\ SafetyCopy(p)' = SafetyCopy(p) /\ data'[s] = c.body
          /\ \A r \in Sites : r # s => data'[r] = data[r]
      BY <3>1, <3>2, <3>3 DEF SafetyCopy, Inv, TypeOK
    <3>5. BackOK(p)'
      BY <3>1, <3>3, <3>4 DEF BackOK, RestoreSteps, BackupSteps
    <3> QED
      BY <3>1, <3>3, <3>4, <3>5, BackFrame
  <2>7. CASE ScriptErr(p)
    <3>1. /\ c \in Commands /\ s \in Sites /\ c.at \in RestoreSteps /\ store' = store
          /\ BackOK(p) /\ Restores(p, s)
      BY <2>0, <2>7 DEF ScriptErr, BackInv, Inv, CommandOK, RestoreSteps, Restores
    <3>2. \A r \in Sites : data'[r] = data[r] \/ r = s
      BY <2>7, <3>1 DEF ScriptErr, Inv, TypeOK
    <3>3. \A q \in Procs : q # p => cmd'[q] = cmd[q]
      BY <2>7 DEF ScriptErr, Undoes, Inv, TypeOK
    <3>4. CASE c.safety # NoId /\ ~c.undo
      <4>1. cmd'[p] = [c EXCEPT !.at = "fetch", !.target = c.safety, !.undo = TRUE]
        BY <2>7, <3>4 DEF ScriptErr, Undoes, Inv, TypeOK
      <4>2. /\ cmd'[p].at = "fetch" /\ cmd'[p].target = c.safety /\ cmd'[p].safety = c.safety
            /\ cmd'[p].site = s
        BY <3>1, <4>1 DEF Commands
      <4>3. SafetyCopy(p)' = SafetyCopy(p)
        BY <3>1, <4>2 DEF SafetyCopy
      <4>4. BackOK(p)'
        BY <3>1, <3>4, <4>2, <4>3 DEF BackOK, RestoreSteps, BackupSteps
      <4> QED
        BY <3>1, <3>2, <3>3, <4>4, BackFrame
    <3>5. CASE ~(c.safety # NoId /\ ~c.undo)
      <4>1. cmd'[p].at = "idle"
        BY <2>7, <3>5 DEF ScriptErr, Undoes, Inv, TypeOK, Idle
      <4>2. BackOK(p)'
        BY <4>1 DEF BackOK, RestoreSteps, BackupSteps
      <4> QED
        BY <3>1, <3>2, <3>3, <4>2, BackFrame
    <3> QED
      BY <3>4, <3>5
  <2> QED
    BY <1>3, <2>1, <2>2, <2>3, <2>4, <2>5, <2>6, <2>7 DEF Step
<1>4. ASSUME NEW s \in Sites, Change(s) PROVE BackInv'
  <2>1. /\ UNCHANGED <<store, cmd>> /\ data[s] \in Versions /\ data[s] < MaxVersion
        /\ data' = [data EXCEPT ![s] = @ + 1]
    BY <1>4 DEF Change
  <2> SUFFICES ASSUME NEW p \in Procs PROVE BackOK(p)'
    BY DEF BackInv
  <2>2. BackOK(p) /\ SafetyCopy(p)' = SafetyCopy(p)
    BY <2>1 DEF BackInv, SafetyCopy
  <2>3. data[s] \in Nat /\ data[s] # Gone
    BY <2>1, BoundsAssumption DEF Versions, Gone
  <2>4. CASE cmd[p].at \in {"extract", "start"} /\ cmd[p].site = s
    <3>1. cmd[p].body \in Nat
      BY <2>4, Kinds, BoundsAssumption DEF Inv, TypeOK, Commands, Idle, Bodies, Versions, Gone
    <3>2. data'[s] = data[s] + 1
      BY <2>1 DEF Inv, TypeOK
    <3>3. cmd[p].at = "start" => data'[s] \in cmd[p].body .. MaxVersion
      BY <2>1, <2>2, <2>3, <2>4, <3>1, <3>2, BoundsAssumption DEF BackOK
    <3>4. cmd[p].at # "extract"
      BY <2>2, <2>3, <2>4 DEF BackOK
    <3> QED
      BY <2>1, <2>2, <2>4, <3>3, <3>4 DEF BackOK
  <2>5. CASE ~(cmd[p].at \in {"extract", "start"} /\ cmd[p].site = s)
    <3>1. cmd[p].at \in {"extract", "start"} => cmd[p].site \in Sites
      BY DEF Inv, TypeOK, Commands, Idle
    <3>2. cmd[p].at \in {"extract", "start"} => data'[cmd[p].site] = data[cmd[p].site]
      BY <2>1, <2>5, <3>1 DEF Inv, TypeOK
    <3> QED
      BY <2>1, <2>2, <3>2 DEF BackOK
  <2> QED
    BY <2>4, <2>5
<1>5. CASE UNCHANGED vars
  BY <1>5 DEF vars, BackInv, BackOK, SafetyCopy
<1> QED
  BY <1>1, <1>2, <1>3, <1>4, <1>5 DEF Next, Begin, Listed

(* With one restore of a site at a time: whatever stops, fails, is written  *)
(* or is pruned meanwhile, the second script of a restore that failed ends  *)
(* well only with the safety copy in the directory, or what its users made  *)
(* of it since (restore_lightweight_site_backup).                           *)
THEOREM BackupsRollbackGivesBack ==
  ASSUME Overlap = FALSE
  PROVE  Spec => RollbackGivesBack
<1> DEFINE GivesBack ==
      \A p \in Procs : (StartOk(p) /\ cmd[p].undo) =>
        \E a \in File(cmd[p].site, cmd[p].safety) :
          /\ a.whole
          /\ data[cmd[p].site] \in a.body .. MaxVersion \/ data[cmd[p].site] = a.body
<1>1. BackInv => GivesBack
  BY DEF BackInv, BackOK, SafetyCopy, File, StartOk, At
<1>2. Inv /\ IdInv /\ RecInv /\ [Next]_vars => RecInv'
  BY StepRec
<1>3. BackInv /\ [Next]_vars => [GivesBack]_vars
  BY <1>1
<1> QED
  BY InitInv, StepInv, InitId, StepId, InitRec, <1>2, InitKept, StepKept, InitBack, StepBack,
     <1>3, PTL DEF Spec, RollbackGivesBack
=============================================================================
