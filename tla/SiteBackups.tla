---------------------------- MODULE SiteBackups ----------------------------
(***************************************************************************)
(* Backups and restores of sites, as commands that run at the same time,   *)
(* over one store of archives with a retention by tier.  The backups are   *)
(* those of both engines (create_site_backup for the stacks of Coolify,    *)
(* create_lightweight_site_backup), which differ in where they stage the   *)
(* files.  The restores are restore_lightweight_site_backup: the archives  *)
(* of stacks are packed under a name that materialize_remote_backup does   *)
(* not look for, so that no restore of a stack gets past its first step.   *)
(*                                                                         *)
(* What the archive of a site holds is a version of its directory; a       *)
(* directory that was only partly removed or extracted is Torn.  Backup    *)
(* identifiers are the second a backup starts in, as a number: two backups *)
(* never start in the same second here.                                    *)
(***************************************************************************)
EXTENDS Naturals, FiniteSets

CONSTANTS
  Sites,      \* sites with a directory on a host, /srv/hosting/<site>
  Procs,      \* commands, with the scripts they left, that may be at work at once
  Keep,       \* how many archives each pruned tier keeps
  MaxVersion, \* bound on the versions of a directory
  MaxId,      \* bound on the backups started
  Overlap     \* whether a restore of a site may begin while another, or the
              \* script of one that has returned, is at work

ASSUME KeepAssumption == Keep \in [DOMAIN Keep -> Nat] /\ "manual" \notin DOMAIN Keep
ASSUME BoundsAssumption == MaxVersion \in Nat \ {0} /\ MaxId \in Nat /\ Overlap \in BOOLEAN

Tiers == DOMAIN Keep \cup {"manual"}
Versions == 1 .. MaxVersion
Ids == 1 .. MaxId
NoId == 0
Gone == 0                    \* no directory
Torn == MaxVersion + 1       \* part of one, or a mixture of two
Bodies == Versions \cup {Torn}

VARIABLES
  clock,   \* seconds used so far as identifiers
  data,    \* the directory of each site
  store,   \* the archives of each site in the remote store
  cmd,     \* the command each process is at, and where
  sent,    \* history: the uploads ever started
  ready,   \* history: the backups ever reported as ready
  base,    \* history: the last whole version a restore took a safety copy of
  waived   \* history: a restore removed a whole version of which none had taken a copy

vars == <<clock, data, store, cmd, sent, ready, base, waived>>

(* The steps of a backup, then those of a restore *)
BackupSteps == {"capture", "send", "check", "list", "delete"}
RestoreSteps == {"fetch", "wipe", "extract", "start"}

Archives == [id : Ids, tier : Tiers, body : Bodies, whole : BOOLEAN]
Names == [site : Sites, tier : Tiers, id : Ids]
Idle == [at |-> "idle"]
Commands == [at : BackupSteps \cup RestoreSteps, site : Sites,
             tier : Tiers, id : Ids \cup {NoId}, body : Bodies \cup {Gone},
             restores : BOOLEAN,           \* a restore (with the backup before it)
             target : Ids \cup {NoId},     \* the archive to restore
             safety : Ids \cup {NoId},     \* its safety copy
             undo : BOOLEAN,               \* restoring the safety copy
             doomed : SUBSET Ids]          \* archives the retention will delete

NewBackup(s, t) == [at |-> "capture", site |-> s, tier |-> t, id |-> clock + 1, body |-> Gone,
                    restores |-> FALSE, target |-> NoId, safety |-> NoId, undo |-> FALSE,
                    doomed |-> {}]

Init ==
  /\ clock = 0
  /\ data = [s \in Sites |-> 1]
  /\ store = [s \in Sites |-> {}]
  /\ cmd = [p \in Procs |-> Idle]
  /\ sent = {}
  /\ ready = {}
  /\ base = [s \in Sites |-> 1]
  /\ waived = [s \in Sites |-> FALSE]

At(p, step) == cmd[p].at = step
Goes(p, step) == cmd' = [cmd EXCEPT ![p] = IF step = "idle" THEN Idle ELSE [@ EXCEPT !.at = step]]
File(s, i) == {a \in store[s] : a.id = i}
-----------------------------------------------------------------------------
\* Mutant of the next definition: the directory is not looked for.
Assumed(s) == TRUE
HasDirectory(s) == data[s] # Gone

(* A backup of a site that has a directory (a lightweight site is looked    *)
(* up under /srv/hosting first).                                            *)
BeginBackup(p, s, t) ==
  /\ At(p, "idle")
  /\ HasDirectory(s)
  /\ clock < MaxId
  /\ clock' = clock + 1
  /\ cmd' = [cmd EXCEPT ![p] = NewBackup(s, t)]
  /\ UNCHANGED <<data, store, sent, ready, base, waived>>

(* What the files of a backup hold: of a stack, the dumps and the paths of  *)
(* its containers, collected one after the other; of a lightweight site,    *)
(* the directory.                                                           *)
Contents(s) == data[s]

(* The contents at that moment. *)
Capture(p) ==
  LET s == cmd[p].site IN
  /\ At(p, "capture")
  /\ HasDirectory(s)
  /\ cmd' = [cmd EXCEPT ![p].at = "send", ![p].body = Contents(s)]
  /\ IF cmd[p].restores /\ Contents(s) \in Versions
     THEN base' = [base EXCEPT ![s] = Contents(s)] /\ waived' = [waived EXCEPT ![s] = FALSE]
     ELSE UNCHANGED <<base, waived>>
  /\ UNCHANGED <<clock, data, store, sent, ready>>

ArchiveOf(p, whole) ==
  [id |-> cmd[p].id, tier |-> cmd[p].tier, body |-> cmd[p].body, whole |-> whole]
NameOf(p) == [site |-> cmd[p].site, tier |-> cmd[p].tier, id |-> cmd[p].id]

(* The file is in its directory of the store, and in its lists, from the    *)
(* first byte.                                                              *)
Send(p) ==
  /\ At(p, "send")
  /\ store' = [store EXCEPT ![cmd[p].site] = @ \cup {ArchiveOf(p, FALSE)}]
  /\ sent' = sent \cup {NameOf(p)}
  /\ Goes(p, "check")
  /\ UNCHANGED <<clock, data, ready, base, waived>>

(* The size is right: the backup is ready; only the tiers with a retention  *)
(* are pruned.  A restore goes on with its safety copy made.  A file that   *)
(* somebody's retention deleted during the upload has no size, and the      *)
(* upload is taken as good.                                                 *)
Accepted(p) ==
  LET mine == store[cmd[p].site] \cap {ArchiveOf(p, FALSE)} IN
  /\ At(p, "check")
  /\ store' = [store EXCEPT ![cmd[p].site] =
                 (@ \ mine) \cup (IF mine = {} THEN {} ELSE {ArchiveOf(p, TRUE)})]
  /\ ready' = ready \cup {NameOf(p)}
  /\ IF cmd[p].restores
     THEN cmd' = [cmd EXCEPT ![p].at = "fetch", ![p].safety = cmd[p].id]
     ELSE Goes(p, IF cmd[p].tier \in DOMAIN Keep THEN "list" ELSE "idle")
  /\ UNCHANGED <<clock, data, sent, base, waived>>

(* The size is wrong: the file is removed and the command ends.  The        *)
(* direct transfer between servers does not remove it (Stops).              *)
Rejected(p) ==
  /\ At(p, "check")
  /\ store' = [store EXCEPT ![cmd[p].site] = @ \ {ArchiveOf(p, FALSE)}]
  /\ Goes(p, "idle")
  /\ UNCHANGED <<clock, data, sent, ready, base, waived>>

(* Retention: the files of the tier from the newest name to the oldest; all *)
(* after the first Keep are deleted.  Whether a file is whole is unknown.   *)
Newer(s, a) == {b \in store[s] : b.tier = a.tier /\ b.id > a.id}
Surplus(s, t) == {a \in store[s] : a.tier = t /\ Cardinality(Newer(s, a)) >= Keep[t]}
\* Mutant of the next definition: the list comes from the oldest name.
Older(s, a) == {b \in store[s] : b.tier = a.tier /\ b.id < a.id}
ListOldest(p) ==
  LET s == cmd[p].site
      t == cmd[p].tier IN
  /\ At(p, "list")
  /\ cmd' = [cmd EXCEPT ![p].at = "delete",
                        ![p].doomed = {a.id : a \in {b \in store[s] : b.tier = t /\
                                         Cardinality(Older(s, b)) >= Keep[t]}}]
  /\ UNCHANGED <<clock, data, store, sent, ready, base, waived>>
List(p) ==
  /\ At(p, "list")
  /\ cmd' = [cmd EXCEPT ![p].at = "delete",
                        ![p].doomed = {a.id : a \in Surplus(cmd[p].site, cmd[p].tier)}]
  /\ UNCHANGED <<clock, data, store, sent, ready, base, waived>>

Delete(p) ==
  LET s == cmd[p].site IN
  /\ At(p, "delete")
  /\ \E i \in cmd[p].doomed :
       /\ \A j \in cmd[p].doomed : j <= i
       /\ store' = [store EXCEPT ![s] = {a \in @ : ~(a.id = i /\ a.tier = cmd[p].tier)}]
       /\ cmd' = [cmd EXCEPT ![p].doomed = @ \ {i}]
  /\ UNCHANGED <<clock, data, sent, ready, base, waived>>

Deleted(p) ==
  /\ At(p, "delete")
  /\ cmd[p].doomed = {}
  /\ Goes(p, "idle")
  /\ UNCHANGED <<clock, data, store, sent, ready, base, waived>>
-----------------------------------------------------------------------------
(* Restores.  The tier of the safety copy is one that no retention prunes.  *)
\* Mutant of the next definition: a tier that is pruned.
DailyTier == "daily"
SafetyTier == "manual"

Restoring(s) == \E p \in Procs : ~At(p, "idle") /\ cmd[p].restores /\ cmd[p].site = s

(* restore_lightweight_site_backup: a safety copy first, unless the         *)
(* operator skips it or the site has no directory.                          *)
BeginRestore(p, s, i, skip) ==
  LET copies == ~skip /\ HasDirectory(s)
      new == [NewBackup(s, SafetyTier) EXCEPT !.restores = TRUE, !.target = i] IN
  /\ At(p, "idle")
  /\ Overlap \/ ~Restoring(s)
  /\ IF copies
     THEN clock < MaxId /\ clock' = clock + 1 /\ cmd' = [cmd EXCEPT ![p] = new]
     ELSE clock' = clock /\ cmd' = [cmd EXCEPT ![p] = [new EXCEPT !.at = "fetch", !.id = NoId]]
  /\ UNCHANGED <<data, store, sent, ready, base, waived>>

(* The manifest can be read and every file of it is there, is not empty and *)
(* has the checksum it had when it was packed.                              *)
Intact(a) == a.whole

(* materialize_remote_backup, the manifest with its checksums and the copy  *)
(* to the host: a file that is not whole does not pass.                     *)
Fetch(p) ==
  LET s == cmd[p].site IN
  /\ At(p, "fetch")
  /\ \E a \in File(s, cmd[p].target) :
       /\ Intact(a)
       /\ cmd' = [cmd EXCEPT ![p].at = "wipe", ![p].body = a.body]
  /\ UNCHANGED <<clock, data, store, sent, ready, base, waived>>

(* The script of the restore, on the host: down and rm -rf, tar -x, then    *)
(* Caddy, ssh, up -d and curl.                                              *)
Wipe(p) ==
  LET s == cmd[p].site IN
  /\ At(p, "wipe")
  /\ data' = [data EXCEPT ![s] = Gone]
  /\ waived' = IF cmd[p].safety = NoId /\ data[s] \in Versions
               THEN [waived EXCEPT ![s] = TRUE] ELSE waived
  /\ Goes(p, "extract")
  /\ UNCHANGED <<clock, store, sent, ready, base>>

Extract(p) ==
  LET s == cmd[p].site IN
  /\ At(p, "extract")
  /\ data' = [data EXCEPT ![s] = IF @ \in {Gone, cmd[p].body} THEN cmd[p].body ELSE Torn]
  /\ Goes(p, "start")
  /\ UNCHANGED <<clock, store, sent, ready, base, waived>>

StartOk(p) ==
  /\ At(p, "start")
  /\ Goes(p, "idle")
  /\ UNCHANGED <<clock, data, store, sent, ready, base, waived>>

(* What a failed script does: with a safety copy, and once, a restore of    *)
(* that copy whose outcome is ignored; else the command ends.               *)
\* Mutant of Undoes: the same archive again.
SameTarget(p) ==
  cmd' = [cmd EXCEPT ![p] = IF @.safety # NoId /\ ~@.undo
                            THEN [@ EXCEPT !.at = "fetch", !.undo = TRUE]
                            ELSE Idle]
Undoes(p) ==
  cmd' = [cmd EXCEPT ![p] =
            IF @.safety # NoId /\ ~@.undo
            THEN [@ EXCEPT !.at = "fetch", !.target = cmd[p].safety, !.undo = TRUE]
            ELSE Idle]

(* The script fails: rm or tar leave the directory Torn, or a command       *)
(* before or after them fails, which leaves it as it is.                    *)
ScriptErr(p) ==
  LET s == cmd[p].site IN
  /\ cmd[p].at \in {"wipe", "extract", "start"}
  /\ \/ data' = data
     \/ ~At(p, "start") /\ data' = [data EXCEPT ![s] = Torn]
  /\ waived' = IF At(p, "wipe") /\ cmd[p].safety = NoId /\ data[s] \in Versions
               THEN [waived EXCEPT ![s] = TRUE] ELSE waived
  /\ Undoes(p)
  /\ UNCHANGED <<clock, store, sent, ready, base>>

(* Every other error, a lost connection or the end of the process: the      *)
(* command ends where it stands.  A script that is on the host by then may  *)
(* go on without its command: a process is the command and that script, so  *)
(* the script's later steps are the ones above, of a process that has not   *)
(* stopped yet, and Restoring counts it as a restore at work.               *)
Stops(p) ==
  /\ ~At(p, "idle")
  /\ Goes(p, "idle")
  /\ UNCHANGED <<clock, data, store, sent, ready, base, waived>>
-----------------------------------------------------------------------------
(* The users of a site change its files. *)
Change(s) ==
  /\ data[s] \in Versions
  /\ data[s] < MaxVersion
  /\ data' = [data EXCEPT ![s] = @ + 1]
  /\ UNCHANGED <<clock, store, cmd, sent, ready, base, waived>>

(* The backups of a site that an operator is shown, of every tier. *)
Listed(s) == {a.id : a \in store[s]}

Begin(p) ==
  \/ \E s \in Sites, t \in Tiers : BeginBackup(p, s, t)
  \/ \E s \in Sites, skip \in BOOLEAN : \E i \in Listed(s) : BeginRestore(p, s, i, skip)

Step(p) ==
  \/ Capture(p) \/ Send(p) \/ Accepted(p) \/ Rejected(p)
  \/ List(p) \/ Delete(p) \/ Deleted(p)
  \/ Fetch(p) \/ Wipe(p) \/ Extract(p) \/ StartOk(p) \/ ScriptErr(p) \/ Stops(p)

Next == (\E p \in Procs : Begin(p) \/ Step(p)) \/ (\E s \in Sites : Change(s))

Spec == Init /\ [][Next]_vars
-----------------------------------------------------------------------------
TypeOK ==
  /\ clock \in 0 .. MaxId
  /\ data \in [Sites -> Bodies \cup {Gone}]
  /\ store \in [Sites -> SUBSET Archives]
  /\ cmd \in [Procs -> Commands \cup {Idle}]
  /\ sent \subseteq Names
  /\ ready \subseteq sent
  /\ base \in [Sites -> Versions]
  /\ waived \in [Sites -> BOOLEAN]

(* A backup that was reported ready is in the store, whole, until Keep      *)
(* later uploads to its tier have been started; one of tier manual always   *)
(* is.  However the commands that upload, list and delete interleave, stop  *)
(* or fail (prune_retention works on a list that may be old).               *)
ReadyIsKept ==
  \A r \in ready :
    \/ \E a \in File(r.site, r.id) : a.whole /\ a.tier = r.tier
    \/ /\ r.tier \in DOMAIN Keep
       /\ Cardinality({u \in sent : u.site = r.site /\ u.tier = r.tier /\ u.id > r.id})
            >= Keep[r.tier]

(* Whenever the directory of a lightweight site is gone or torn because of  *)
(* a restore, the store has a whole archive of the last version of it that  *)
(* a restore found, in a tier that is never pruned, unless the operator     *)
(* renounced that copy: wherever the restore stopped, and whatever other    *)
(* backups upload and prune meanwhile.                                      *)
SiteRecoverable ==
  \A s \in Sites :
    data[s] \in Versions \/ waived[s]
      \/ \E a \in store[s] : a.whole /\ a.tier \notin DOMAIN Keep /\ a.body = base[s]

(* A restore that fails and whose second script succeeds leaves the site as *)
(* the safety copy found it, with what its users have written since (a      *)
(* later version), and never with the archive that failed.                  *)
RollbackGivesBack ==
  [][\A p \in Procs : (StartOk(p) /\ cmd[p].undo) =>
       \E a \in File(cmd[p].site, cmd[p].safety) :
         /\ a.whole
         /\ data[cmd[p].site] \in a.body .. MaxVersion \/ data[cmd[p].site] = a.body]_vars

=============================================================================
