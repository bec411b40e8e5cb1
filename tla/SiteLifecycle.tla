--------------------------- MODULE SiteLifecycle ---------------------------
(***************************************************************************)
(* The life of a site over settings.json, the Coolify of each target, the  *)
(* hosts and the DNS: new, deploy-service (as a writer of settings.json),  *)
(* failover, migrate, switch-dns, delete-dns and delete-site, each a       *)
(* sequence of remote calls that may end anywhere.  Every command reads    *)
(* settings.json whole at its start and writes what it read, changed, at   *)
(* its end; nothing locks the file.  Coolify queues its deletions.         *)
(*                                                                         *)
(* A stack is "up" when its containers hold the site and answer.  Backups  *)
(* are SiteBackups' business: here a restore may succeed only for the      *)
(* commands of Restorable (migrate always takes a new archive, and no new  *)
(* archive of a stack opens; failover may be given one packed by hand).    *)
(***************************************************************************)
EXTENDS Naturals, FiniteSets

CONSTANTS
  Sites,       \* names of sites
  Procs,       \* commands that may be at work at once
  Targets,     \* deployment targets: a host with its address and its Coolify
  Instance,    \* the Coolify that each target is managed by
  NoRecord,    \* no address in the DNS, no target in the settings
  Unset,       \* what an entry without a stack may hold: a subset of {NoStack, Empty}
  Restorable,  \* commands that may be given an archive that opens
  Overlap,     \* whether a command may start while another is at work
  MaxStacks,   \* bound on the stacks ever created
  MaxFaults    \* bound on the calls that fail

ASSUME TargetsAssumption == NoRecord \notin Targets /\ DOMAIN Instance = Targets
ASSUME LifecycleBounds == MaxStacks \in Nat /\ MaxFaults \in Nat /\ Overlap \in BOOLEAN

Stacks == 1 .. MaxStacks
NoStack == 0                  \* stackUuid missing
Empty == MaxStacks + 1        \* stackUuid ""
ASSUME UnsetAssumption == Unset \subseteq {NoStack, Empty}

Absent == [target |-> NoRecord, stack |-> NoStack]
Entries == {Absent} \cup [target : Targets, stack : Stacks \cup {NoStack, Empty}]
Files == [Sites -> Entries]

VARIABLES
  file,    \* settings.json: the entry of each site
  stacks,  \* the stacks in the Coolifies
  queued,  \* stacks whose deletion a Coolify has accepted
  up,      \* stacks whose containers hold their site and answer
  dns,     \* the target that the record of each site points to
  cmd,     \* the command of each process, and where it is
  next,    \* stacks created so far
  faults,  \* calls that have failed so far
  wanted   \* history: sites whose deletion was begun and has not been completed

vars == <<file, stacks, queued, up, dns, cmd, next, faults, wanted>>
remote == <<stacks, queued, up, dns>>

Phases == {"create", "save", "install", "deploy", "persist",
           "provision", "restore", "record", "switch",
           "down", "delete", "verify", "others", "readdns", "deletedns", "remove"}
Kinds == {"new", "deploy", "failover", "migrate", "switch", "delete-dns", "delete"}
Idle == [at |-> "idle"]
Commands == [at : Phases, kind : Kinds, site : Sites, mem : Files,
             target : Targets, stack : Stacks \cup {NoStack, Empty}]

Exists(i) == \E k \in stacks : k.id = i
On(i, t) == \E k \in stacks : k.id = i /\ k.target = t
Listed(t) == {k.id : k \in {j \in stacks : Instance[j.target] = Instance[t]}}

Init ==
  /\ file \in [Sites -> {Absent} \cup [target : Targets, stack : Unset]]
  /\ stacks = {} /\ queued = {} /\ up = {} /\ next = 0
  /\ dns = [s \in Sites |-> NoRecord]
  /\ cmd = [p \in Procs |-> Idle]
  /\ faults = 0 /\ wanted = {}

At(p, phase) == cmd[p].at = phase
Goes(p, phase) == cmd' = [cmd EXCEPT ![p] = IF phase = "idle" THEN Idle ELSE [@ EXCEPT !.at = phase]]
Begins(p, phase, kind, s, t, i) ==
  /\ At(p, "idle")
  /\ Overlap \/ \A q \in Procs : At(q, "idle")
  /\ cmd' = [cmd EXCEPT ![p] = [at |-> phase, kind |-> kind, site |-> s, mem |-> file,
                                target |-> t, stack |-> i]]
Room == next + Cardinality({p \in Procs : cmd[p].at \in {"create", "provision"}}) < MaxStacks
Fault == faults < MaxFaults /\ faults' = faults + 1
Written(p, entry) == [cmd[p].mem EXCEPT ![cmd[p].site] = entry]
Entry(p) == [target |-> cmd[p].target, stack |-> cmd[p].stack]
-----------------------------------------------------------------------------
(* new: a site with no entry, or with one that has no stack.                *)
BeginNew(p, s, t) ==
  /\ file[s].stack \in {NoStack, Empty}
  /\ Room
  /\ Begins(p, "create", "new", s, t, NoStack)
  /\ UNCHANGED <<file, remote, next, faults, wanted>>

\* Mutant of the next definition: a stack gets the identifier of one before it.
CreateSame(p, from, to) ==
  /\ At(p, from)
  /\ stacks' = stacks \cup {[id |-> next + 1, target |-> cmd[p].target, site |-> cmd[p].site]}
  /\ cmd' = [cmd EXCEPT ![p].at = to, ![p].stack = next + 1]
  /\ UNCHANGED <<file, queued, up, dns, next, faults, wanted>>
(* POST of a stack; Coolify keeps it whatever becomes of the answer. *)
CreateStack(p, from, to) ==
  /\ At(p, from)
  /\ next < MaxStacks
  /\ next' = next + 1
  /\ stacks' = stacks \cup {[id |-> next + 1, target |-> cmd[p].target, site |-> cmd[p].site]}
  /\ cmd' = [cmd EXCEPT ![p].at = to, ![p].stack = next + 1]
  /\ UNCHANGED <<file, queued, up, dns, faults, wanted>>
Create(p) == CreateStack(p, "create", "save")

(* The entry is written before the wait for the containers and the theme. *)
Save(p) ==
  /\ At(p, "save")
  /\ file' = Written(p, Entry(p))
  /\ Goes(p, "install")
  /\ UNCHANGED <<remote, next, faults, wanted>>

(* The stacks that are built answer only after their first deploy-service. *)
Install(p) ==
  /\ At(p, "install")
  /\ Exists(cmd[p].stack)
  /\ up' \in {up, up \cup {cmd[p].stack}}
  /\ Goes(p, "idle")
  /\ UNCHANGED <<file, stacks, queued, dns, next, faults, wanted>>
-----------------------------------------------------------------------------
(* deploy-service, in one step; the laptop builds write settings.json at    *)
(* the end, with what was read before the build.                            *)
BeginDeploy(p, s) ==
  /\ file[s].stack \in Stacks
  /\ Begins(p, "deploy", "deploy", s, file[s].target, file[s].stack)
  /\ UNCHANGED <<file, remote, next, faults, wanted>>

DeployOk(p) ==
  /\ At(p, "deploy")
  /\ On(cmd[p].stack, cmd[p].target)
  /\ up' = up \cup {cmd[p].stack}
  /\ \E phase \in {"persist", "idle"} : Goes(p, phase)
  /\ UNCHANGED <<file, stacks, queued, dns, next, faults, wanted>>

DeployErr(p) ==
  /\ At(p, "deploy")
  /\ On(cmd[p].stack, cmd[p].target)
  /\ Fault
  /\ up' = up \ {cmd[p].stack}
  /\ Goes(p, "idle")
  /\ UNCHANGED <<file, stacks, queued, dns, next, wanted>>

Persist(p) ==
  /\ At(p, "persist")
  /\ file' = cmd[p].mem
  /\ Goes(p, "idle")
  /\ UNCHANGED <<remote, next, faults, wanted>>
-----------------------------------------------------------------------------
(* failover and migrate: a new stack on the target, or with                 *)
(* --skip-provision the one of the entry; the restore and a health check;   *)
(* then the entry; then, if asked, the DNS.                                 *)
BeginMove(p, kind, s, t, skip) ==
  /\ file[s] # Absent
  /\ kind = "migrate" => ~skip /\ file[s].stack # NoStack
  /\ IF skip THEN file[s].stack # NoStack ELSE Room
  /\ Begins(p, IF skip THEN "restore" ELSE "provision", kind, s, t, file[s].stack)
  /\ UNCHANGED <<file, remote, next, faults, wanted>>
Provision(p) == CreateStack(p, "provision", "restore")

\* Mutant of the next definition: any stack will do.
AnyStack(p) == cmd[p].kind \in Restorable /\ cmd[p].stack \in Stacks
\* The archive opens, and the host has the containers of the stack.
CanRestore(p) == cmd[p].kind \in Restorable /\ On(cmd[p].stack, cmd[p].target)

RestoreOk(p) ==
  /\ At(p, "restore")
  /\ CanRestore(p)
  /\ up' = up \cup {cmd[p].stack}
  /\ Goes(p, "record")
  /\ UNCHANGED <<file, stacks, queued, dns, next, faults, wanted>>

\* Mutant of the next definition: the outcome of the health check is not looked at.
RestoreGoesOn(p) ==
  /\ At(p, "restore")
  /\ CanRestore(p)
  /\ Fault
  /\ up' = up \ {cmd[p].stack}
  /\ Goes(p, "record")
  /\ UNCHANGED <<file, stacks, queued, dns, next, wanted>>
(* Half restored, or not healthy. *)
RestoreErr(p) ==
  /\ At(p, "restore")
  /\ CanRestore(p)
  /\ Fault
  /\ up' = up \ {cmd[p].stack}
  /\ Goes(p, "idle")
  /\ UNCHANGED <<file, stacks, queued, dns, next, wanted>>

Record(p) ==
  /\ At(p, "record")
  /\ file' = Written(p, Entry(p))
  /\ \E phase \in {"switch", "idle"} : Goes(p, phase)
  /\ UNCHANGED <<remote, next, faults, wanted>>

(* switch-dns and setup-site-dns, to the target of the entry or to another. *)
BeginSwitch(p, s, t) ==
  /\ file[s] # Absent
  /\ Begins(p, "switch", "switch", s, t, file[s].stack)
  /\ UNCHANGED <<file, remote, next, faults, wanted>>

(* The record is created, or updated when it points elsewhere.             *)
Pointed(p) == [dns EXCEPT ![cmd[p].site] = cmd[p].target]

Switch(p) ==
  /\ At(p, "switch")
  /\ dns' = Pointed(p)
  /\ Goes(p, "idle")
  /\ UNCHANGED <<file, stacks, queued, up, next, faults, wanted>>
-----------------------------------------------------------------------------
(* delete-site: the host, Coolify, the check of Coolify, the DNS, the entry.*)
BeginDelete(p, s) ==
  /\ file[s].stack \in Stacks
  /\ Begins(p, "down", "delete", s, file[s].target, file[s].stack)
  /\ wanted' = wanted \cup {s}
  /\ UNCHANGED <<file, remote, next, faults>>

(* compose down --volumes, whose failure is not looked at, and rm -rf of    *)
(* the directory of the stack.                                              *)
Down(p) ==
  /\ At(p, "down")
  /\ up' \in {up, IF On(cmd[p].stack, cmd[p].target) THEN up \ {cmd[p].stack} ELSE up}
  /\ Goes(p, "delete")
  /\ UNCHANGED <<file, stacks, queued, dns, next, faults, wanted>>

Answer(p) == IF cmd[p].stack \in Listed(cmd[p].target) THEN "accepted" ELSE "404"

\* Mutant of the next definition: a stack that is gone is an error.
MustExist == {"accepted"}
\* 404 is the answer to a deletion that was already made.
GoodAnswers == {"accepted", "404"}

DeleteStack(p) ==
  /\ At(p, "delete")
  /\ queued' = queued \cup ({cmd[p].stack} \cap Listed(cmd[p].target))
  /\ Goes(p, IF Answer(p) \in GoodAnswers THEN "verify" ELSE "idle")
  /\ UNCHANGED <<file, stacks, up, dns, next, faults, wanted>>

(* The worker of Coolify. *)
CoolifyDeletes(i) ==
  /\ i \in queued
  /\ stacks' = {k \in stacks : k.id # i}
  /\ queued' = queued \ {i}
  /\ up' = up \ {i}
  /\ UNCHANGED <<file, dns, cmd, next, faults, wanted>>

\* Mutant of the next definition: the deletion was accepted, and that is enough.
Gone(p) == cmd[p].stack \notin Listed(cmd[p].target)
VerifyGone(p) ==
  /\ At(p, "verify")
  /\ Gone(p)
  /\ Goes(p, "others")
  /\ UNCHANGED <<file, remote, next, faults, wanted>>

(* Every other entry with a stackUuid, whatever its target and even if it   *)
(* is "", is looked for in this Coolify.                                    *)
OthersThere(p) ==
  \A s \in Sites \ {cmd[p].site} :
    cmd[p].mem[s].stack \in Listed(cmd[p].target) \cup {NoStack}
VerifyOthers(p) ==
  /\ At(p, "others")
  /\ OthersThere(p)
  /\ Goes(p, "readdns")
  /\ UNCHANGED <<file, remote, next, faults, wanted>>

(* What ends a command without a call failing: the deletion has not been    *)
(* made yet, another stack is missing, the archive does not open or there   *)
(* is nothing to restore into.                                              *)
Refused(p) ==
  /\ \/ At(p, "verify") /\ ~Gone(p)
     \/ At(p, "others") /\ ~OthersThere(p)
     \/ At(p, "restore")
     \/ At(p, "deploy") /\ ~On(cmd[p].stack, cmd[p].target)
     \/ At(p, "install") /\ ~Exists(cmd[p].stack)
  /\ Goes(p, "idle")
  /\ UNCHANGED <<file, remote, next, faults, wanted>>

(* delete-dns, of a record that is believed to point to t. *)
BeginDeleteDns(p, s, t) ==
  /\ Begins(p, "readdns", "delete-dns", s, t, NoStack)
  /\ UNCHANGED <<file, remote, next, faults, wanted>>

AfterDns(p) == Goes(p, IF cmd[p].kind = "delete" THEN "remove" ELSE "idle")

(* Only a record that points to the target is to be deleted.  Without a     *)
(* dnsConfig delete-site goes on.                                           *)
ReadDns(p) ==
  /\ At(p, "readdns")
  /\ IF dns[cmd[p].site] = cmd[p].target THEN Goes(p, "deletedns") ELSE AfterDns(p)
  /\ UNCHANGED <<file, remote, next, faults, wanted>>

(* By the identifier of the record, whatever it points to by now. *)
DeleteDns(p) ==
  /\ At(p, "deletedns")
  /\ dns' = [dns EXCEPT ![cmd[p].site] = NoRecord]
  /\ AfterDns(p)
  /\ UNCHANGED <<file, stacks, queued, up, next, faults, wanted>>

(* A failure of the DNS does not stop delete-site. *)
DnsErr(p) ==
  /\ cmd[p].at \in {"readdns", "deletedns"}
  /\ Fault
  /\ AfterDns(p)
  /\ UNCHANGED <<file, remote, next, wanted>>

Remove(p) ==
  /\ At(p, "remove")
  /\ file' = Written(p, Absent)
  /\ wanted' = wanted \ {cmd[p].site}
  /\ Goes(p, "idle")
  /\ UNCHANGED <<remote, next, faults>>
-----------------------------------------------------------------------------
(* Any call fails, or the process is stopped: the command ends there. *)
Stops(p) ==
  /\ ~At(p, "idle")
  /\ Fault
  /\ Goes(p, "idle")
  /\ UNCHANGED <<file, remote, next, wanted>>

Begin(p) ==
  \E s \in Sites :
    \/ BeginDeploy(p, s) \/ BeginDelete(p, s)
    \/ \E t \in Targets :
         \/ BeginNew(p, s, t) \/ BeginSwitch(p, s, t) \/ BeginDeleteDns(p, s, t)
         \/ \E kind \in {"failover", "migrate"}, skip \in BOOLEAN : BeginMove(p, kind, s, t, skip)

Step(p) ==
  \/ Create(p) \/ Save(p) \/ Install(p)
  \/ DeployOk(p) \/ DeployErr(p) \/ Persist(p)
  \/ Provision(p) \/ RestoreOk(p) \/ RestoreErr(p) \/ Record(p) \/ Switch(p)
  \/ Down(p) \/ DeleteStack(p) \/ VerifyGone(p) \/ VerifyOthers(p)
  \/ ReadDns(p) \/ DeleteDns(p) \/ DnsErr(p) \/ Remove(p)
  \/ Refused(p) \/ Stops(p)

Next == (\E p \in Procs : Begin(p) \/ Step(p)) \/ (\E i \in Stacks : CoolifyDeletes(i))

Spec == Init /\ [][Next]_vars

(* Commands end, Coolify empties its queue, and an operator whose deletion  *)
(* did not finish repeats it.                                               *)
Repeats(p, s) == s \in wanted /\ BeginDelete(p, s)
FairSpec ==
  /\ Spec
  /\ \A p \in Procs : WF_vars(Step(p)) /\ \A s \in Sites : SF_vars(Repeats(p, s))
  /\ \A i \in Stacks : WF_vars(CoolifyDeletes(i))
-----------------------------------------------------------------------------
TypeOK ==
  /\ file \in Files
  /\ stacks \subseteq [id : 1 .. next, target : Targets, site : Sites]
  /\ queued \subseteq 1 .. next /\ up \subseteq 1 .. next
  /\ dns \in [Sites -> Targets \cup {NoRecord}]
  /\ cmd \in [Procs -> Commands \cup {Idle}]
  /\ next \in 0 .. MaxStacks /\ faults \in 0 .. MaxFaults
  /\ wanted \subseteq Sites

(* The stack that settings.json names for a site exists, in the Coolify of  *)
(* the target it names and for that site, unless a delete-site of it was    *)
(* begun and did not finish: wherever new, failover and migrate stop.       *)
RecordedStackExists ==
  \A s \in Sites :
    file[s].stack \in Stacks /\ s \notin wanted =>
      [id |-> file[s].stack, target |-> file[s].target, site |-> s] \in stacks

(* The stacks of the site that answer where its DNS leads. *)
Serving(s) == {k.id : k \in {j \in stacks : j.site = s /\ j.target = dns[s]}} \cap up

(* A site that is being served stays served, whatever fails and wherever    *)
(* the commands stop: failover and migrate switch the DNS only to a copy    *)
(* that is up, and leave the one it came from.  What may take it down is a  *)
(* deploy, a failover --skip-provision (it restores over the stack in use), *)
(* switch-dns (it looks at no stack), delete-dns, delete-site, and a        *)
(* deletion that Coolify had accepted, however long ago.                    *)
TakesDown(p) ==
  \/ cmd[p].kind \in {"deploy", "switch", "delete", "delete-dns"}
  \/ cmd[p].kind = "failover" /\ cmd[p].mem[cmd[p].site].stack = cmd[p].stack
ServedStaysServed ==
  [][\A s \in Sites :
       Serving(s) # {} /\ Serving(s)' = {} =>
         \/ Serving(s) \subseteq queued
         \/ \E p \in Procs : ~At(p, "idle") /\ cmd[p].site = s /\ TakesDown(p)]_vars

(* A delete-site that is repeated completes, if no delete-site of another   *)
(* site is left halfway: 404 answers, a queue that is slow, an interrupted  *)
(* run and a failing DNS only delay it.                                     *)
LoneDeleteCompletes ==
  \A s \in Sites : s \in wanted ~> (s \notin wanted \/ wanted \ {s} # {})

=============================================================================
