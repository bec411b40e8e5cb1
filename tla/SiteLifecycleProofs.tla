------------------------ MODULE SiteLifecycleProofs ------------------------
(* Theorems about SiteLifecycle, for any sites, commands, targets, number   *)
(* of stacks and number of failures.                                        *)
EXTENDS SiteLifecycle, TLAPS

(* How the number of a stack and its absence are told apart. *)
LEMMA Numbers == /\ MaxStacks \in Nat /\ MaxFaults \in Nat
                 /\ NoStack = 0 /\ Empty = MaxStacks + 1 /\ Stacks = 1 .. MaxStacks
                 /\ NoStack \notin Stacks /\ Empty \notin Stacks /\ Absent \in Entries
BY LifecycleBounds DEF NoStack, Empty, Stacks, Absent, Entries

(* An entry with a stack has a target. *)
LEMMA HasTarget ==
  ASSUME TypeOK, NEW s \in Sites, file[s] # Absent
  PROVE  file[s].target \in Targets /\ file[s].stack \in Stacks \cup {NoStack, Empty}
BY DEF TypeOK, Files, Entries

LEMMA CommandAt ==
  ASSUME TypeOK, NEW p \in Procs, cmd[p].at # "idle"
  PROVE  cmd[p] \in Commands
BY DEF TypeOK, Idle

(* The step of a command from one phase to another. *)
LEMMA GoesOn ==
  ASSUME TypeOK, NEW p \in Procs, cmd[p].at # "idle",
         NEW phase \in Phases \cup {"idle"}, Goes(p, phase)
  PROVE  /\ cmd' \in [Procs -> Commands \cup {Idle}]
         /\ \A q \in Procs : q # p => cmd'[q] = cmd[q]
         /\ cmd'[p].at = phase
         /\ phase # "idle" => /\ cmd'[p].kind = cmd[p].kind /\ cmd'[p].site = cmd[p].site
                              /\ cmd'[p].mem = cmd[p].mem /\ cmd'[p].target = cmd[p].target
                              /\ cmd'[p].stack = cmd[p].stack
<1>1. cmd[p] \in Commands
  BY CommandAt
<1>2. CASE phase = "idle"
  <2>1. cmd' = [cmd EXCEPT ![p] = Idle]
    BY <1>2 DEF Goes
  <2> QED
    BY <2>1, <1>2 DEF TypeOK, Idle
<1>3. CASE phase # "idle"
  <2>1. cmd' = [cmd EXCEPT ![p] = [cmd[p] EXCEPT !.at = phase]]
    BY <1>3 DEF Goes
  <2>2. phase \in Phases
    BY <1>3
  <2>3. [cmd[p] EXCEPT !.at = phase] \in Commands
    BY <1>1, <2>2 DEF Commands
  <2> QED
    BY <2>1, <2>3, <1>1, <1>3 DEF TypeOK, Commands
<1> QED
  BY <1>2, <1>3

(* The first step of a command. *)
LEMMA Starts ==
  ASSUME TypeOK, NEW p \in Procs, NEW s \in Sites, NEW t \in Targets,
         NEW i \in Stacks \cup {NoStack, Empty}, NEW kind \in Kinds, NEW phase \in Phases,
         Begins(p, phase, kind, s, t, i)
  PROVE  /\ cmd' \in [Procs -> Commands \cup {Idle}]
         /\ \A q \in Procs : q # p => cmd'[q] = cmd[q]
         /\ cmd'[p] = [at |-> phase, kind |-> kind, site |-> s, mem |-> file,
                       target |-> t, stack |-> i]
         /\ Overlap \/ \A q \in Procs : cmd[q].at = "idle"
<1> DEFINE c == [at |-> phase, kind |-> kind, site |-> s, mem |-> file, target |-> t, stack |-> i]
<1>1. c \in Commands
  BY DEF Commands, TypeOK
<1>2. cmd' = [cmd EXCEPT ![p] = c]
  BY DEF Begins
<1> QED
  BY <1>1, <1>2 DEF TypeOK, Begins, At

LEMMA InitTypes == Init => TypeOK
<1> SUFFICES ASSUME Init PROVE TypeOK
  OBVIOUS
<1>1. file \in Files
  BY Numbers, UnsetAssumption DEF Init, Files, Entries
<1>2. cmd \in [Procs -> Commands \cup {Idle}]
  BY DEF Init
<1> QED
  BY <1>1, <1>2, Numbers DEF Init, TypeOK

(* The first steps of the commands. *)
FirstPhases == {"create", "deploy", "provision", "restore", "switch", "readdns", "down"}

LEMMA BeginFacts ==
  ASSUME TypeOK, NEW p \in Procs, Begin(p)
  PROVE  /\ \E s \in Sites, t \in Targets, i \in Stacks \cup {NoStack, Empty},
               kind \in Kinds, phase \in FirstPhases :
              /\ Begins(p, phase, kind, s, t, i)
              /\ i = NoStack \/ i = file[s].stack
              /\ phase = "down" => s \in wanted'
         /\ UNCHANGED <<file, remote, next, faults>>
         /\ wanted \subseteq wanted' /\ wanted' \subseteq Sites
<1>1. PICK s \in Sites :
        \/ BeginDeploy(p, s) \/ BeginDelete(p, s)
        \/ \E t \in Targets :
             \/ BeginNew(p, s, t) \/ BeginSwitch(p, s, t) \/ BeginDeleteDns(p, s, t)
             \/ \E kind \in {"failover", "migrate"}, skip \in BOOLEAN : BeginMove(p, kind, s, t, skip)
  BY DEF Begin
<1>2. UNCHANGED <<file, remote, next, faults>> /\ wanted \subseteq wanted' /\ wanted' \subseteq Sites
  BY <1>1 DEF BeginDeploy, BeginDelete, BeginNew, BeginSwitch, BeginDeleteDns, BeginMove, TypeOK
<1> DEFINE Goal == \E t \in Targets, i \in Stacks \cup {NoStack, Empty},
                      kind \in Kinds, phase \in FirstPhases :
                     /\ Begins(p, phase, kind, s, t, i)
                     /\ i = NoStack \/ i = file[s].stack
                     /\ phase = "down" => s \in wanted'
<1>3. file[s].stack \in Stacks =>
        file[s].target \in Targets /\ file[s].stack \in Stacks \cup {NoStack, Empty}
  BY Numbers, HasTarget DEF Absent
<1>4. ASSUME BeginDeploy(p, s) PROVE Goal
  <2>1. Begins(p, "deploy", "deploy", s, file[s].target, file[s].stack) /\ file[s].stack \in Stacks
    BY <1>4 DEF BeginDeploy
  <2>2. "deploy" \in FirstPhases /\ "deploy" \in Kinds /\ "deploy" # "down"
    BY DEF FirstPhases, Kinds
  <2>3. file[s].target \in Targets /\ file[s].stack \in Stacks \cup {NoStack, Empty}
    BY <1>3, <2>1
  <2> QED
    BY <2>1, <2>2, <2>3
<1>5. ASSUME BeginDelete(p, s) PROVE Goal
  <2>1. /\ Begins(p, "down", "delete", s, file[s].target, file[s].stack)
        /\ file[s].stack \in Stacks /\ s \in wanted'
    BY <1>5 DEF BeginDelete
  <2>2. "down" \in FirstPhases /\ "delete" \in Kinds
    BY DEF FirstPhases, Kinds
  <2>3. file[s].target \in Targets /\ file[s].stack \in Stacks \cup {NoStack, Empty}
    BY <1>3, <2>1
  <2> QED
    BY <2>1, <2>2, <2>3
<1>6. ASSUME NEW t \in Targets, BeginNew(p, s, t) PROVE Goal
  BY <1>6 DEF BeginNew, FirstPhases, Kinds
<1>7. ASSUME NEW t \in Targets, BeginSwitch(p, s, t) PROVE Goal
  BY <1>7, HasTarget DEF BeginSwitch, FirstPhases, Kinds
<1>8. ASSUME NEW t \in Targets, BeginDeleteDns(p, s, t) PROVE Goal
  BY <1>8 DEF BeginDeleteDns, FirstPhases, Kinds
<1>9. ASSUME NEW t \in Targets, NEW kind \in {"failover", "migrate"}, NEW skip \in BOOLEAN,
             BeginMove(p, kind, s, t, skip)
      PROVE  Goal
  <2>1. file[s].stack \in Stacks \cup {NoStack, Empty}
    BY <1>9, HasTarget DEF BeginMove
  <2>2. PICK phase \in {"restore", "provision"} : Begins(p, phase, kind, s, t, file[s].stack)
    BY <1>9 DEF BeginMove
  <2>3. phase \in FirstPhases /\ kind \in Kinds /\ phase # "down"
    BY DEF FirstPhases, Kinds
  <2> QED
    BY <2>1, <2>2, <2>3
<1>10. Goal
  BY <1>1, <1>4, <1>5, <1>6, <1>7, <1>8, <1>9
<1> QED
  BY <1>2, <1>10

LEMMA BeginTypes ==
  ASSUME TypeOK, NEW p \in Procs, Begin(p)
  PROVE  TypeOK'
<1>1. PICK s \in Sites, t \in Targets, i \in Stacks \cup {NoStack, Empty},
           kind \in Kinds, phase \in FirstPhases : Begins(p, phase, kind, s, t, i)
  BY BeginFacts
<1>2. phase \in Phases
  BY DEF FirstPhases, Phases
<1>3. cmd' \in [Procs -> Commands \cup {Idle}]
  BY <1>1, <1>2, Starts
<1> QED
  BY <1>3, BeginFacts DEF TypeOK, remote

(* What a command writes in settings.json. *)
LEMMA WrittenTypes ==
  ASSUME TypeOK, NEW p \in Procs, cmd[p].at # "idle"
  PROVE  /\ Written(p, Entry(p)) \in Files /\ Written(p, Absent) \in Files /\ cmd[p].mem \in Files
         /\ Written(p, Entry(p)) = [cmd[p].mem EXCEPT ![cmd[p].site] = Entry(p)]
         /\ Written(p, Absent) = [cmd[p].mem EXCEPT ![cmd[p].site] = Absent]
<1>1. /\ cmd[p].mem \in Files /\ cmd[p].site \in Sites /\ cmd[p].target \in Targets
      /\ cmd[p].stack \in Stacks \cup {NoStack, Empty}
  BY CommandAt DEF Commands
<1>2. Entry(p) \in Entries /\ Absent \in Entries
  BY <1>1, Numbers DEF Entry, Entries
<1> QED
  BY <1>1, <1>2 DEF Written, Files

(* The stacks that a Coolify lists are among those created. *)
LEMMA Created ==
  ASSUME TypeOK, NEW t, NEW i, i \in Listed(t) \/ On(i, t) \/ Exists(i)
  PROVE  i \in 1 .. next
BY DEF TypeOK, Listed, On, Exists

LEMMA CreateTypes ==
  ASSUME TypeOK, NEW p \in Procs, NEW from \in Phases, NEW to \in Phases, CreateStack(p, from, to)
  PROVE  /\ TypeOK'
         /\ cmd'[p].at = to /\ cmd'[p].kind = cmd[p].kind /\ cmd'[p].site = cmd[p].site
         /\ cmd'[p].mem = cmd[p].mem /\ cmd'[p].target = cmd[p].target
         /\ cmd'[p].stack = next + 1
         /\ \A q \in Procs : q # p => cmd'[q] = cmd[q]
<1>1. cmd[p] \in Commands
  BY CommandAt DEF CreateStack, At, Phases
<1>2. cmd' = [cmd EXCEPT ![p] = [cmd[p] EXCEPT !.at = to, !.stack = next + 1]]
  BY DEF CreateStack
<1>3. next \in Nat /\ next + 1 \in Stacks /\ next' = next + 1 /\ next' \in 0 .. MaxStacks
  BY Numbers DEF CreateStack, TypeOK
<1>4. [cmd[p] EXCEPT !.at = to, !.stack = next + 1] \in Commands
  BY <1>1, <1>3 DEF Commands
<1>5. stacks' \subseteq [id : 1 .. next', target : Targets, site : Sites]
  <2>1. [id |-> next + 1, target |-> cmd[p].target, site |-> cmd[p].site]
          \in [id : 1 .. next', target : Targets, site : Sites]
    BY <1>1, <1>3 DEF Commands
  <2>2. stacks \subseteq [id : 1 .. next', target : Targets, site : Sites]
    BY <1>3 DEF TypeOK
  <2> QED
    BY <2>1, <2>2 DEF CreateStack
<1>6. queued' \subseteq 1 .. next' /\ up' \subseteq 1 .. next'
  BY <1>3 DEF CreateStack, TypeOK
<1>7. TypeOK'
  BY <1>2, <1>3, <1>4, <1>5, <1>6 DEF CreateStack, TypeOK
<1> QED
  BY <1>1, <1>2, <1>4, <1>7 DEF TypeOK, Commands

(* The other steps of a command: it goes from a phase to another. *)
Moves(p) == Step(p) /\ ~Create(p) /\ ~Provision(p)

LEMMA MovesGo ==
  ASSUME TypeOK, NEW p \in Procs, Moves(p)
  PROVE  /\ cmd[p].at # "idle"
         /\ \E phase \in Phases \cup {"idle"} : Goes(p, phase)
         /\ next' = next /\ stacks' = stacks
<1>1. next' = next /\ stacks' = stacks /\ cmd[p].at # "idle"
  BY DEF Moves, Step, At, Phases, Save, Install, DeployOk, DeployErr, Persist, RestoreOk, RestoreErr,
     Record, Switch, Pointed, Down, DeleteStack, VerifyGone, VerifyOthers, ReadDns, DeleteDns, DnsErr, Remove,
     Refused, Stops, remote
<1>2. \E phase \in Phases \cup {"idle"} : Goes(p, phase)
  BY DEF Moves, Step, Phases, Save, Install, DeployOk, DeployErr, Persist, RestoreOk, RestoreErr,
     Record, Switch, Pointed, Down, DeleteStack, VerifyGone, VerifyOthers, ReadDns, DeleteDns, DnsErr, Remove,
     Refused, Stops, AfterDns
<1> QED
  BY <1>1, <1>2

LEMMA MovesTypes ==
  ASSUME TypeOK, NEW p \in Procs, Moves(p)
  PROVE  TypeOK'
<1>0. cmd[p].at # "idle" /\ cmd[p] \in Commands
  BY MovesGo, CommandAt
<1>1. cmd' \in [Procs -> Commands \cup {Idle}] /\ next' = next /\ stacks' = stacks
  BY MovesGo, GoesOn
<1>2. file' \in Files
  <2>1. file' \in {file, cmd[p].mem, Written(p, Entry(p)), Written(p, Absent)}
    BY DEF Moves, Step, Save, Install, DeployOk, DeployErr, Persist, RestoreOk, RestoreErr,
       Record, Switch, Pointed, Down, DeleteStack, VerifyGone, VerifyOthers, ReadDns, DeleteDns, DnsErr, Remove,
       Refused, Stops
  <2> QED
    BY <2>1, <1>0, WrittenTypes DEF TypeOK
<1>3. up' \subseteq 1 .. next
  <2>1. \/ up' \subseteq up
        \/ up' \subseteq up \cup {cmd[p].stack} /\ (Exists(cmd[p].stack) \/ On(cmd[p].stack, cmd[p].target))
    BY DEF Moves, Step, Save, Install, DeployOk, DeployErr, Persist, RestoreOk, RestoreErr, CanRestore,
       Record, Switch, Pointed, Down, DeleteStack, VerifyGone, VerifyOthers, ReadDns, DeleteDns, DnsErr, Remove,
       Refused, Stops, remote
  <2> QED
    BY <2>1, Created DEF TypeOK
<1>4. queued' \subseteq 1 .. next
  <2>1. queued' \subseteq queued \cup Listed(cmd[p].target)
    BY DEF Moves, Step, Save, Install, DeployOk, DeployErr, Persist, RestoreOk, RestoreErr,
       Record, Switch, Pointed, Down, DeleteStack, VerifyGone, VerifyOthers, ReadDns, DeleteDns, DnsErr, Remove,
       Refused, Stops, remote
  <2> QED
    BY <2>1, Created DEF TypeOK
<1>5. dns' \in [Sites -> Targets \cup {NoRecord}]
  <2>1. \/ dns' = dns \/ dns' = [dns EXCEPT ![cmd[p].site] = cmd[p].target]
        \/ dns' = [dns EXCEPT ![cmd[p].site] = NoRecord]
    BY DEF Moves, Step, Save, Install, DeployOk, DeployErr, Persist, RestoreOk, RestoreErr,
       Record, Switch, Pointed, Down, DeleteStack, VerifyGone, VerifyOthers, ReadDns, DeleteDns, DnsErr, Remove,
       Refused, Stops, remote
  <2> QED
    BY <2>1, <1>0 DEF TypeOK, Commands
<1>6. faults' \in 0 .. MaxFaults /\ wanted' \subseteq Sites
  <2>1. (faults' = faults \/ Fault) /\ wanted' \subseteq wanted
    BY DEF Moves, Step, Save, Install, DeployOk, DeployErr, Persist, RestoreOk, RestoreErr,
       Record, Switch, Pointed, Down, DeleteStack, VerifyGone, VerifyOthers, ReadDns, DeleteDns, DnsErr, Remove,
       Refused, Stops
  <2> QED
    BY <2>1, Numbers DEF TypeOK, Fault
<1> QED
  BY <1>1, <1>2, <1>3, <1>4, <1>5, <1>6 DEF TypeOK

LEMMA StepTypes == TypeOK /\ [Next]_vars => TypeOK'
<1> SUFFICES ASSUME TypeOK, [Next]_vars PROVE TypeOK'
  OBVIOUS
<1>1. ASSUME NEW p \in Procs, Begin(p) PROVE TypeOK'
  BY <1>1, BeginTypes
<1>2. ASSUME NEW p \in Procs, Step(p) PROVE TypeOK'
  <2>1. CASE Create(p) \/ Provision(p)
    BY <2>1, CreateTypes DEF Create, Provision, Phases
  <2>2. CASE ~(Create(p) \/ Provision(p))
    BY <1>2, <2>2, MovesTypes DEF Moves
  <2> QED
    BY <2>1, <2>2
<1>3. ASSUME NEW i \in Stacks, CoolifyDeletes(i) PROVE TypeOK'
  BY <1>3 DEF CoolifyDeletes, TypeOK
<1>4. CASE UNCHANGED vars
  BY <1>4 DEF vars, TypeOK
<1> QED
  BY <1>1, <1>2, <1>3, <1>4 DEF Next

(* The type invariant of SiteLifecycle, with commands that overlap or not.  *)
THEOREM LifecycleTypeOK == Spec => []TypeOK
BY InitTypes, StepTypes, PTL DEF Spec
-----------------------------------------------------------------------------
(* What a command that is alone at work knows at each of its phases: the    *)
(* file is what it read until it writes it, the stack it names is its       *)
(* site's, and the one that it is about to record exists and is not on its  *)
(* way out, unless the site is being deleted.                               *)
CommandOK(p) ==
  /\ cmd[p].at \in Phases \ {"install", "switch"} => cmd[p].mem = file
  /\ cmd[p].at \in {"down", "delete"} => cmd[p].site \in wanted
  /\ cmd[p].at \in {"save", "restore", "record"} /\ cmd[p].site \notin wanted =>
       cmd[p].stack \notin queued
  /\ cmd[p].at \in {"save", "record"} /\ cmd[p].site \notin wanted =>
       [id |-> cmd[p].stack, target |-> cmd[p].target, site |-> cmd[p].site] \in stacks
  /\ cmd[p].at # "idle" => \A k \in stacks : k.id = cmd[p].stack => k.site = cmd[p].site
  /\ cmd[p].at # "idle" => cmd[p].stack \in (0 .. next) \cup {Empty}

(* What settings.json says of a site that is not being deleted. *)
EntryOK(s) ==
  /\ file[s].stack \in (0 .. next) \cup {Empty}
  /\ \A k \in stacks : k.id = file[s].stack => k.site = s
  /\ file[s].stack \in queued => s \in wanted
  /\ file[s].stack \in Stacks /\ s \notin wanted =>
       [id |-> file[s].stack, target |-> file[s].target, site |-> s] \in stacks

Alone == \A p, q \in Procs : cmd[p].at # "idle" /\ cmd[q].at # "idle" => p = q

Inv == /\ TypeOK /\ Alone
       /\ \A p \in Procs : CommandOK(p)
       /\ \A s \in Sites : EntryOK(s)

LEMMA InitInv == Init => Inv
<1> SUFFICES ASSUME Init PROVE Inv
  OBVIOUS
<1>1. \A p \in Procs : cmd[p].at = "idle"
  BY DEF Init, Idle
<1>2. Alone /\ \A p \in Procs : CommandOK(p)
  BY <1>1 DEF Alone, CommandOK, Phases
<1>3. \A s \in Sites : file[s].stack \in {NoStack, Empty}
  BY UnsetAssumption DEF Init, Absent
<1>4. \A s \in Sites : EntryOK(s)
  BY <1>3, Numbers DEF Init, EntryOK
<1> QED
  BY <1>2, <1>4, InitTypes DEF Inv

(* A command begins when no other is at work, with the file as it is. *)
LEMMA BeginInv ==
  ASSUME ~Overlap, Inv, NEW p \in Procs, Begin(p)
  PROVE  Inv'
<1> USE DEF Inv
<1>1. PICK s \in Sites, t \in Targets, i \in Stacks \cup {NoStack, Empty},
           kind \in Kinds, phase \in FirstPhases :
        /\ Begins(p, phase, kind, s, t, i)
        /\ i = NoStack \/ i = file[s].stack
        /\ phase = "down" => s \in wanted'
  BY BeginFacts
<1>2. /\ \A q \in Procs : cmd[q].at = "idle" /\ (q # p => cmd'[q] = cmd[q])
      /\ cmd'[p] = [at |-> phase, kind |-> kind, site |-> s, mem |-> file,
                    target |-> t, stack |-> i]
  <2>1. phase \in Phases
    BY DEF FirstPhases, Phases
  <2>2. /\ \A q \in Procs : q # p => cmd'[q] = cmd[q]
        /\ cmd'[p] = [at |-> phase, kind |-> kind, site |-> s, mem |-> file,
                      target |-> t, stack |-> i]
        /\ Overlap \/ \A q \in Procs : cmd[q].at = "idle"
    BY <1>1, <2>1, Starts
  <2> QED
    BY <2>2
<1>3. UNCHANGED <<file, stacks, queued, next>> /\ wanted \subseteq wanted'
  BY BeginFacts DEF remote
<1>4. Alone'
  BY <1>2 DEF Alone
<1>5. \A r \in Sites : EntryOK(r)'
  BY <1>3 DEF EntryOK
<1>6. CommandOK(p)'
  <2>1. /\ i \in (0 .. next) \cup {Empty}
        /\ \A k \in stacks : k.id = i => k.site = s
        /\ i \in queued => s \in wanted
    <3>1. CASE i = NoStack
      <4>1. i = 0 /\ next \in Nat /\ queued \subseteq 1 .. next /\ \A k \in stacks : k.id \in 1 .. next
        BY <3>1, Numbers DEF TypeOK
      <4> QED
        BY <4>1
    <3>2. CASE i = file[s].stack
      BY <3>2 DEF EntryOK
    <3> QED
      BY <1>1, <3>1, <3>2
  <2>2. /\ cmd'[p].at = phase /\ cmd'[p].mem = file /\ cmd'[p].site = s /\ cmd'[p].stack = i
        /\ phase \notin {"delete", "save", "record"}
    BY <1>2 DEF FirstPhases
  <2> QED
    BY <1>1, <1>3, <2>1, <2>2 DEF CommandOK
<1>7. \A q \in Procs : CommandOK(q)'
  BY <1>2, <1>6 DEF CommandOK, Phases
<1> QED
  BY <1>4, <1>5, <1>7, BeginTypes

(* A new stack has a number that no entry and no queue holds. *)
LEMMA CreateInv ==
  ASSUME Inv, NEW p \in Procs, Create(p) \/ Provision(p)
  PROVE  Inv'
<1> USE DEF Inv
<1> DEFINE k == [id |-> next + 1, target |-> cmd[p].target, site |-> cmd[p].site]
<1>1. PICK from \in {"create", "provision"}, to \in {"save", "restore"} : CreateStack(p, from, to)
  BY DEF Create, Provision
<1>2. /\ TypeOK'
      /\ cmd'[p].at = to /\ cmd'[p].site = cmd[p].site
      /\ cmd'[p].mem = cmd[p].mem /\ cmd'[p].target = cmd[p].target
      /\ cmd'[p].stack = next + 1
      /\ \A q \in Procs : q # p => cmd'[q] = cmd[q]
  BY <1>1, CreateTypes DEF Phases
<1>3. /\ stacks' = stacks \cup {k} /\ next' = next + 1 /\ next < MaxStacks
      /\ UNCHANGED <<file, queued, wanted>> /\ cmd[p].at = from
  BY <1>1 DEF CreateStack, At
<1>4. /\ next \in Nat /\ next + 1 # Empty /\ next + 1 \notin queued
      /\ \A j \in stacks : j.id \in 1 .. next
  BY <1>3, Numbers DEF TypeOK
<1>5. \A q \in Procs : q # p => cmd[q].at = "idle" /\ cmd'[q].at = "idle"
  BY <1>2, <1>3 DEF Alone
<1>6. Alone'
  BY <1>5 DEF Alone
<1>7. ASSUME NEW s \in Sites PROVE EntryOK(s)'
  <2>1. EntryOK(s) /\ file[s].stack # next + 1
    BY <1>4 DEF EntryOK
  <2> QED
    BY <2>1, <1>3, <1>4 DEF EntryOK
<1>8. CommandOK(p)'
  <2>1. cmd[p].mem = file
    BY <1>3 DEF CommandOK, Phases
  <2>2. \A j \in stacks' : j.id = next + 1 => j.site = cmd[p].site
    BY <1>3, <1>4
  <2>3. next + 1 \in 0 .. next'
    BY <1>3, <1>4
  <2> QED
    BY <1>2, <1>3, <1>4, <2>1, <2>2, <2>3 DEF CommandOK
<1>9. \A q \in Procs : CommandOK(q)'
  BY <1>5, <1>8 DEF CommandOK, Phases
<1> QED
  BY <1>2, <1>6, <1>7, <1>9

(* The steps that write settings.json: what is written is the file as it    *)
(* was, but for the entry of the site of the command.                       *)
Writes(p) == Save(p) \/ Persist(p) \/ Record(p) \/ Remove(p)

(* A step keeps the invariant when it leaves the stacks and their numbers,  *)
(* and what the entries and the command hold is right.                      *)
LEMMA OthersIdle ==
  ASSUME Inv, NEW p \in Procs, cmd[p].at # "idle",
         TypeOK', CommandOK(p)', \A s \in Sites : EntryOK(s)',
         \A q \in Procs : q # p => cmd'[q] = cmd[q]
  PROVE  Inv'
<1>1. \A q \in Procs : q # p => cmd[q].at = "idle" /\ cmd'[q].at = "idle"
  BY DEF Inv, Alone
<1>2. Alone'
  BY <1>1 DEF Alone
<1>3. \A q \in Procs : CommandOK(q)'
  BY <1>1 DEF CommandOK, Phases
<1> QED
  BY <1>2, <1>3 DEF Inv

LEMMA WritesInv ==
  ASSUME Inv, NEW p \in Procs, Writes(p)
  PROVE  Inv'
<1> USE DEF Inv
<1> DEFINE c == cmd[p]
<1>1. Moves(p) /\ c.at \in {"save", "persist", "record", "remove"}
  BY DEF Writes, Moves, Step, At, Save, Persist, Record, Remove, Create, Provision, CreateStack
<1>2. /\ c \in Commands /\ c.at # "idle" /\ c.mem = file /\ c.site \in Sites
      /\ TypeOK' /\ next' = next /\ stacks' = stacks
  <2>1. c \in Commands
    BY <1>1, CommandAt
  <2>2. c.mem = file /\ c.site \in Sites
    BY <1>1, <2>1 DEF CommandOK, Phases, Commands
  <2> QED
    BY <1>1, <2>1, <2>2, MovesGo, MovesTypes
<1>3. PICK phase \in {"install", "switch", "idle"} : Goes(p, phase)
  BY DEF Writes, Save, Persist, Record, Remove
<1>4. /\ \A q \in Procs : q # p => cmd'[q] = cmd[q]
      /\ cmd'[p].at = phase
      /\ phase # "idle" => cmd'[p].site = c.site /\ cmd'[p].stack = c.stack
  BY <1>2, <1>3, GoesOn DEF Phases
<1>5. queued' = queued
  BY DEF Writes, Save, Persist, Record, Remove, remote
<1>6. CommandOK(p)'
  BY <1>2, <1>4 DEF CommandOK, Phases
<1>7. ASSUME NEW s \in Sites PROVE EntryOK(s)'
  <2>1. CASE Persist(p)
    BY <2>1, <1>2, <1>5 DEF Persist, EntryOK
  <2>2. CASE Save(p) \/ Record(p)
    <3>1. /\ file' = [file EXCEPT ![c.site] = Entry(p)] /\ wanted' = wanted
          /\ c.at \in {"save", "record"}
      BY <2>2, <1>2, WrittenTypes DEF Save, Record, At
    <3>2. CASE s = c.site
      <4>1. file'[s] = [target |-> c.target, stack |-> c.stack]
        BY <3>1, <3>2, <1>2 DEF Entry, TypeOK, Files
      <4>2. file'[s].target = c.target /\ file'[s].stack = c.stack
        BY <4>1
      <4> QED
        BY <4>2, <3>1, <3>2, <1>2, <1>5 DEF EntryOK, CommandOK
    <3>3. CASE s # c.site
      <4>1. file'[s] = file[s]
        BY <3>1, <3>3, <1>2 DEF TypeOK, Files
      <4> QED
        BY <4>1, <3>1, <1>2, <1>5 DEF EntryOK
    <3> QED
      BY <3>2, <3>3
  <2>3. CASE Remove(p)
    <3>1. file' = [file EXCEPT ![c.site] = Absent] /\ wanted' = wanted \ {c.site}
      BY <2>3, <1>2, WrittenTypes DEF Remove
    <3>2. CASE s = c.site
      <4>1. file'[s].stack = 0
        BY <3>1, <3>2, <1>2 DEF Absent, NoStack, TypeOK, Files
      <4>2. 0 \in 0 .. next /\ 0 \notin queued /\ 0 \notin Stacks /\ \A k \in stacks : k.id # 0
        BY Numbers DEF TypeOK
      <4> QED
        BY <4>1, <4>2, <1>2, <1>5 DEF EntryOK
    <3>3. CASE s # c.site
      <4>1. file'[s] = file[s]
        BY <3>1, <3>3, <1>2 DEF TypeOK, Files
      <4> QED
        BY <4>1, <3>1, <3>3, <1>2, <1>5 DEF EntryOK
    <3> QED
      BY <3>2, <3>3
  <2> QED
    BY <2>1, <2>2, <2>3 DEF Writes
<1> QED
  BY <1>2, <1>4, <1>6, <1>7, OthersIdle

(* The other steps leave the entries; only DELETE adds to a queue.          *)
LEMMA QuietInv ==
  ASSUME Inv, NEW p \in Procs, Moves(p), ~Writes(p)
  PROVE  Inv'
<1> USE DEF Inv
<1> DEFINE c == cmd[p]
<1>1. /\ c.at # "idle" /\ c \in Commands
      /\ TypeOK' /\ next' = next /\ stacks' = stacks
  BY MovesGo, MovesTypes, CommandAt
<1>2. file' = file /\ wanted' = wanted
  BY DEF Writes, Moves, Step, Install, DeployOk, DeployErr, RestoreOk, RestoreErr,
     Switch, Pointed, Down, DeleteStack, VerifyGone, VerifyOthers, ReadDns, DeleteDns, DnsErr, Refused, Stops
<1>3. \/ queued' = queued
      \/ /\ c.at = "delete"
         /\ queued' = queued \cup ({c.stack} \cap Listed(c.target))
  BY DEF Writes, Moves, Step, At, Install, DeployOk, DeployErr, RestoreOk, RestoreErr, remote,
     Switch, Pointed, Down, DeleteStack, VerifyGone, VerifyOthers, ReadDns, DeleteDns, DnsErr, Refused, Stops
<1>4. PICK phase \in Phases \cup {"idle"} :
        /\ Goes(p, phase)
        /\ phase \in {"down", "save", "restore", "switch", "install"} => FALSE
        /\ phase = "delete" => c.at = "down"
        /\ phase = "record" => /\ c.at = "restore" /\ CanRestore(p) /\ queued' = queued
        /\ phase # "idle" => c.at \in Phases \ {"install", "switch"}
  <2>1. c.at \in Phases
    BY <1>1 DEF Commands
  <2>2. CASE RestoreOk(p)
    BY <2>2 DEF RestoreOk, At, Phases
  <2>3. CASE Down(p)
    BY <2>3 DEF Down, At, Phases
  <2>4. CASE DeployOk(p)
    BY <2>4 DEF DeployOk, At, Phases
  <2>5. CASE Install(p) \/ DeployErr(p) \/ RestoreErr(p) \/ Switch(p) \/ Refused(p) \/ Stops(p)
    BY <2>5 DEF Install, DeployErr, RestoreErr, Switch, Refused, Stops
  <2>6. CASE DeleteStack(p) \/ VerifyGone(p) \/ VerifyOthers(p)
    BY <2>6 DEF DeleteStack, VerifyGone, VerifyOthers, At, Phases
  <2>7. CASE ReadDns(p) \/ DeleteDns(p) \/ DnsErr(p)
    BY <2>7 DEF ReadDns, DeleteDns, DnsErr, AfterDns, At, Phases
  <2> QED
    BY <2>2, <2>3, <2>4, <2>5, <2>6, <2>7 DEF Moves, Step, Writes
<1>5. /\ \A q \in Procs : q # p => cmd'[q] = cmd[q]
      /\ cmd'[p].at = phase
      /\ phase # "idle" => /\ cmd'[p].site = c.site /\ cmd'[p].mem = c.mem
                           /\ cmd'[p].target = c.target /\ cmd'[p].stack = c.stack
  BY <1>1, <1>4, GoesOn
<1>6. CommandOK(p)'
  <2>1. CASE phase = "record"
    <3>1. PICK k \in stacks : k.id = c.stack /\ k.target = c.target
      BY <2>1, <1>4 DEF CanRestore, On
    <3>2. k = [id |-> c.stack, target |-> c.target, site |-> c.site]
      BY <3>1, <1>1 DEF CommandOK, TypeOK
    <3>3. [id |-> c.stack, target |-> c.target, site |-> c.site] \in stacks'
      BY <3>2, <1>1
    <3> QED
      BY <2>1, <3>3, <1>1, <1>2, <1>4, <1>5 DEF CommandOK, Phases
  <2>2. CASE phase # "record"
    BY <2>2, <1>1, <1>2, <1>4, <1>5 DEF CommandOK, Phases
  <2> QED
    BY <2>1, <2>2
<1>7. ASSUME NEW s \in Sites PROVE EntryOK(s)'
  <2>1. CASE queued' = queued
    BY <2>1, <1>1, <1>2 DEF EntryOK
  <2>2. CASE c.at = "delete" /\ queued' = queued \cup ({c.stack} \cap Listed(c.target))
    <3>1. ASSUME file[s].stack = c.stack, c.stack \in Listed(c.target) PROVE s \in wanted
      <4>1. PICK k \in stacks : k.id = c.stack
        BY <3>1 DEF Listed
      <4> QED
        BY <2>2, <3>1, <4>1 DEF EntryOK, CommandOK
    <3> QED
      BY <2>2, <3>1, <1>1, <1>2 DEF EntryOK
  <2> QED
    BY <1>3, <2>1, <2>2
<1> QED
  BY <1>1, <1>5, <1>6, <1>7, OthersIdle

(* Coolify deletes no stack of a site that is not being deleted. *)
LEMMA CoolifyInv ==
  ASSUME Inv, NEW i \in Stacks, CoolifyDeletes(i)
  PROVE  Inv'
<1> USE DEF Inv
<1>1. /\ UNCHANGED <<file, cmd, next, wanted>> /\ i \in queued
      /\ stacks' = {k \in stacks : k.id # i} /\ queued' = queued \ {i}
  BY DEF CoolifyDeletes
<1>2. TypeOK'
  BY DEF CoolifyDeletes, TypeOK
<1>3. ASSUME NEW p \in Procs PROVE CommandOK(p)'
  <2> DEFINE k == [id |-> cmd[p].stack, target |-> cmd[p].target, site |-> cmd[p].site]
  <2>1. cmd[p].at \in {"save", "record"} /\ cmd[p].site \notin wanted => k \in stacks /\ k.id # i
    BY <1>1 DEF CommandOK
  <2>2. cmd[p].at \in {"save", "record"} /\ cmd[p].site \notin wanted => k \in stacks'
    BY <1>1, <2>1
  <2> QED
    BY <1>1, <2>2 DEF CommandOK
<1>4. ASSUME NEW s \in Sites PROVE EntryOK(s)'
  <2> DEFINE k == [id |-> file[s].stack, target |-> file[s].target, site |-> s]
  <2>1. file[s].stack \in Stacks /\ s \notin wanted => k \in stacks /\ k.id # i
    BY <1>1 DEF EntryOK
  <2>2. file[s].stack \in Stacks /\ s \notin wanted => k \in stacks'
    BY <1>1, <2>1
  <2> QED
    BY <1>1, <2>2 DEF EntryOK
<1> QED
  BY <1>1, <1>2, <1>3, <1>4 DEF Alone

LEMMA StepInv == ~Overlap /\ Inv /\ [Next]_vars => Inv'
<1> SUFFICES ASSUME ~Overlap, Inv, [Next]_vars PROVE Inv'
  OBVIOUS
<1>1. ASSUME NEW p \in Procs, Begin(p) PROVE Inv'
  BY <1>1, BeginInv
<1>2. ASSUME NEW p \in Procs, Step(p) PROVE Inv'
  <2>1. CASE Create(p) \/ Provision(p)
    BY <2>1, CreateInv
  <2>2. CASE Writes(p)
    BY <2>2, WritesInv
  <2>3. CASE ~(Create(p) \/ Provision(p)) /\ ~Writes(p)
    BY <1>2, <2>3, QuietInv DEF Moves
  <2> QED
    BY <2>1, <2>2, <2>3
<1>3. ASSUME NEW i \in Stacks, CoolifyDeletes(i) PROVE Inv'
  BY <1>3, CoolifyInv
<1>4. CASE UNCHANGED vars
  <2>1. TypeOK'
    BY <1>4, StepTypes DEF Inv
  <2> QED
    BY <2>1, <1>4 DEF Inv, vars, Alone, CommandOK, EntryOK
<1> QED
  BY <1>1, <1>2, <1>3, <1>4 DEF Next

(* If commands run one at a time, the stack that settings.json names for a  *)
(* site exists in the target it names, wherever new, failover, migrate,     *)
(* deploy-service and the delete-site of other sites were stopped.          *)
THEOREM LifecycleRecordedStackExists ==
  ASSUME ~Overlap PROVE Spec => []RecordedStackExists
<1>1. Inv => RecordedStackExists
  BY DEF Inv, EntryOK, RecordedStackExists
<1>2. Inv /\ [Next]_vars => Inv'
  BY StepInv
<1> QED
  BY InitInv, <1>1, <1>2, PTL DEF Spec
-----------------------------------------------------------------------------
(* Of which commands each phase is. *)
KindOK(p) ==
  /\ cmd[p].at = "deploy" => cmd[p].kind = "deploy"
  /\ cmd[p].at \in {"down", "delete", "verify", "others", "remove"} => cmd[p].kind = "delete"
  /\ cmd[p].at \in {"readdns", "deletedns"} => cmd[p].kind \in {"delete", "delete-dns"}
  /\ cmd[p].at \in {"provision", "restore", "record"} => cmd[p].kind \in {"failover", "migrate"}
  /\ cmd[p].at = "switch" => cmd[p].kind \in {"failover", "migrate", "switch"}

(* The copy of a move: new and not up while it is restored, then up where   *)
(* the move leads, and on no queue.                                         *)
MoveOK(p) ==
  cmd[p].at \in {"restore", "record", "switch"} /\ ~TakesDown(p) =>
    /\ cmd[p].stack \notin queued
    /\ cmd[p].at = "restore" => cmd[p].stack \notin up
    /\ cmd[p].at \in {"record", "switch"} =>
         /\ cmd[p].stack \in up
         /\ [id |-> cmd[p].stack, target |-> cmd[p].target, site |-> cmd[p].site] \in stacks

MovesInv == \A p \in Procs : KindOK(p) /\ MoveOK(p)

LEMMA InitMoves == Init => MovesInv
BY DEF Init, MovesInv, KindOK, MoveOK, Idle

(* The commands that are not at work have nothing to show. *)
LEMMA MovesIdle ==
  ASSUME Inv, NEW p \in Procs,
         \A q \in Procs : q # p => cmd[q].at = "idle" /\ cmd'[q] = cmd[q],
         KindOK(p)', MoveOK(p)'
  PROVE  MovesInv'
BY DEF MovesInv, KindOK, MoveOK

LEMMA BeginMoves ==
  ASSUME ~Overlap, Inv, NEW p \in Procs, Begin(p)
  PROVE  MovesInv'
<1> USE DEF Inv
<1> DEFINE New(phase, kind, s, t, i) ==
             [at |-> phase, kind |-> kind, site |-> s, mem |-> file, target |-> t, stack |-> i]
<1>0. ASSUME NEW phase, NEW kind, NEW s, NEW t, NEW i, Begins(p, phase, kind, s, t, i)
      PROVE  /\ cmd'[p] = New(phase, kind, s, t, i)
             /\ cmd'[p].at = phase /\ cmd'[p].kind = kind /\ cmd'[p].site = s
             /\ cmd'[p].mem = file /\ cmd'[p].stack = i
             /\ \A q \in Procs : q # p => cmd[q].at = "idle" /\ cmd'[q] = cmd[q]
  <2>1. cmd' = [cmd EXCEPT ![p] = New(phase, kind, s, t, i)] /\ \A q \in Procs : cmd[q].at = "idle"
    BY <1>0 DEF Begins, At
  <2> QED
    BY <2>1 DEF TypeOK
<1> HIDE DEF New
<1>1. PICK s \in Sites :
        \/ BeginDeploy(p, s) \/ BeginDelete(p, s)
        \/ \E t \in Targets :
             \/ BeginNew(p, s, t) \/ BeginSwitch(p, s, t) \/ BeginDeleteDns(p, s, t)
             \/ \E kind \in {"failover", "migrate"}, skip \in BOOLEAN : BeginMove(p, kind, s, t, skip)
  BY DEF Begin
<1>2. CASE BeginDeploy(p, s)
  <2>1. Begins(p, "deploy", "deploy", s, file[s].target, file[s].stack)
    BY <1>2 DEF BeginDeploy
  <2>2. KindOK(p)' /\ MoveOK(p)'
    BY <1>0, <2>1 DEF KindOK, MoveOK
  <2> QED
    BY <1>0, <2>1, <2>2, MovesIdle
<1>3. CASE BeginDelete(p, s)
  <2>1. Begins(p, "down", "delete", s, file[s].target, file[s].stack)
    BY <1>3 DEF BeginDelete
  <2>2. KindOK(p)' /\ MoveOK(p)'
    BY <1>0, <2>1 DEF KindOK, MoveOK
  <2> QED
    BY <1>0, <2>1, <2>2, MovesIdle
<1>4. ASSUME NEW t \in Targets, BeginNew(p, s, t) PROVE MovesInv'
  <2>1. Begins(p, "create", "new", s, t, NoStack)
    BY <1>4 DEF BeginNew
  <2>2. KindOK(p)' /\ MoveOK(p)'
    BY <1>0, <2>1 DEF KindOK, MoveOK
  <2> QED
    BY <1>0, <2>1, <2>2, MovesIdle
<1>5. ASSUME NEW t \in Targets, BeginSwitch(p, s, t) PROVE MovesInv'
  <2>1. Begins(p, "switch", "switch", s, t, file[s].stack)
    BY <1>5 DEF BeginSwitch
  <2>2. KindOK(p)' /\ MoveOK(p)'
    BY <1>0, <2>1 DEF KindOK, MoveOK, TakesDown
  <2> QED
    BY <1>0, <2>1, <2>2, MovesIdle
<1>6. ASSUME NEW t \in Targets, BeginDeleteDns(p, s, t) PROVE MovesInv'
  <2>1. Begins(p, "readdns", "delete-dns", s, t, NoStack)
    BY <1>6 DEF BeginDeleteDns
  <2>2. KindOK(p)' /\ MoveOK(p)'
    BY <1>0, <2>1 DEF KindOK, MoveOK
  <2> QED
    BY <1>0, <2>1, <2>2, MovesIdle
<1>7. ASSUME NEW t \in Targets, NEW kind \in {"failover", "migrate"}, NEW skip \in BOOLEAN,
             BeginMove(p, kind, s, t, skip)
      PROVE  MovesInv'
  <2>1. CASE skip
    <3>1. Begins(p, "restore", kind, s, t, file[s].stack) /\ kind = "failover"
      BY <1>7, <2>1 DEF BeginMove
    <3>2. TakesDown(p)'
      BY <1>0, <3>1 DEF TakesDown
    <3>3. KindOK(p)' /\ MoveOK(p)'
      BY <1>0, <3>1, <3>2 DEF KindOK, MoveOK
    <3> QED
      BY <1>0, <3>1, <3>3, MovesIdle
  <2>2. CASE ~skip
    <3>1. Begins(p, "provision", kind, s, t, file[s].stack)
      BY <1>7, <2>2 DEF BeginMove
    <3>2. KindOK(p)' /\ MoveOK(p)'
      BY <1>0, <3>1 DEF KindOK, MoveOK
    <3> QED
      BY <1>0, <3>1, <3>2, MovesIdle
  <2> QED
    BY <2>1, <2>2
<1> QED
  BY <1>1, <1>2, <1>3, <1>4, <1>5, <1>6, <1>7

LEMMA CreateMoves ==
  ASSUME Inv, MovesInv, NEW p \in Procs, Create(p) \/ Provision(p)
  PROVE  MovesInv'
<1> USE DEF Inv
<1>1. PICK from \in {"create", "provision"}, to \in {"save", "restore"} :
        CreateStack(p, from, to) /\ (to = "restore" => from = "provision")
  BY DEF Create, Provision
<1>2. /\ cmd[p].at = from /\ cmd'[p].at = to /\ cmd'[p].kind = cmd[p].kind
      /\ cmd'[p].stack = next + 1
      /\ \A q \in Procs : q # p => cmd'[q] = cmd[q]
  BY <1>1, CreateTypes DEF Phases, CreateStack, At
<1>3. next + 1 \notin queued /\ next + 1 \notin up /\ UNCHANGED <<queued, up>>
  BY <1>1, Numbers DEF TypeOK, CreateStack
<1>4. \A q \in Procs : q # p => cmd[q].at = "idle"
  BY <1>2 DEF Alone
<1>5. KindOK(p)' /\ MoveOK(p)'
  BY <1>1, <1>2, <1>3 DEF MovesInv, KindOK, MoveOK
<1> QED
  BY <1>2, <1>4, <1>5, MovesIdle

(* From which phase a command comes to each phase.                          *)
LEMMA MovesFrom ==
  ASSUME TypeOK, NEW p \in Procs, Moves(p)
  PROVE  \E phase \in Phases \cup {"idle"} :
           /\ Goes(p, phase)
           /\ phase \notin {"create", "deploy", "provision", "restore", "down"}
           /\ phase = "delete" => cmd[p].at = "down"
           /\ phase = "verify" => cmd[p].at = "delete"
           /\ phase = "others" => cmd[p].at = "verify"
           /\ phase = "readdns" => cmd[p].at = "others"
           /\ phase = "deletedns" => cmd[p].at = "readdns"
           /\ phase = "remove" => cmd[p].kind = "delete"
           /\ phase = "record" => RestoreOk(p)
           /\ phase = "switch" => Record(p)
<1>1. CASE Save(p) \/ Install(p) \/ DeployOk(p) \/ DeployErr(p) \/ Persist(p)
  BY <1>1 DEF Save, Install, DeployOk, DeployErr, Persist, Phases
<1>2. CASE RestoreErr(p) \/ Switch(p) \/ Remove(p) \/ Refused(p) \/ Stops(p)
  BY <1>2 DEF RestoreErr, Switch, Remove, Refused, Stops, Phases
<1>3. CASE RestoreOk(p)
  BY <1>3 DEF RestoreOk, Phases
<1>4. CASE Record(p)
  BY <1>4 DEF Record, Phases
<1>5. CASE Down(p) \/ DeleteStack(p) \/ VerifyGone(p) \/ VerifyOthers(p)
  BY <1>5 DEF Down, DeleteStack, VerifyGone, VerifyOthers, At, Phases
<1>6. CASE ReadDns(p) \/ DeleteDns(p) \/ DnsErr(p)
  BY <1>6 DEF ReadDns, DeleteDns, DnsErr, AfterDns, At, Phases
<1> QED
  BY <1>1, <1>2, <1>3, <1>4, <1>5, <1>6 DEF Moves, Step

LEMMA MovesMoves ==
  ASSUME Inv, MovesInv, NEW p \in Procs, Moves(p)
  PROVE  MovesInv'
<1> USE DEF Inv
<1> DEFINE c == cmd[p]
<1>1. c.at # "idle" /\ c \in Commands /\ stacks' = stacks
  BY MovesGo, CommandAt
<1>2. PICK phase \in Phases \cup {"idle"} :
           /\ Goes(p, phase)
           /\ phase \notin {"create", "deploy", "provision", "restore", "down"}
           /\ phase = "delete" => cmd[p].at = "down"
           /\ phase = "verify" => cmd[p].at = "delete"
           /\ phase = "others" => cmd[p].at = "verify"
           /\ phase = "readdns" => cmd[p].at = "others"
           /\ phase = "deletedns" => cmd[p].at = "readdns"
           /\ phase = "remove" => cmd[p].kind = "delete"
           /\ phase = "record" => RestoreOk(p)
           /\ phase = "switch" => Record(p)
  BY MovesFrom
<1>3. /\ \A q \in Procs : q # p => cmd'[q] = cmd[q]
      /\ cmd'[p].at = phase
      /\ phase # "idle" => /\ cmd'[p].kind = c.kind /\ cmd'[p].site = c.site
                           /\ cmd'[p].mem = c.mem /\ cmd'[p].target = c.target
                           /\ cmd'[p].stack = c.stack
  BY <1>1, <1>2, GoesOn
<1>4. \A q \in Procs : q # p => cmd[q].at = "idle"
  BY <1>1 DEF Alone
<1>5. KindOK(p)'
  <2>1. KindOK(p) /\ (phase = "record" => c.at = "restore") /\ (phase = "switch" => c.at = "record")
    BY <1>2 DEF MovesInv, RestoreOk, Record, At
  <2> QED
    BY <1>2, <1>3, <2>1 DEF KindOK
<1>6. MoveOK(p)'
  <2>1. CASE phase = "record"
    <3>1. c.at = "restore" /\ CanRestore(p) /\ up' = up \cup {c.stack} /\ queued' = queued
      BY <1>2, <2>1 DEF RestoreOk, At
    <3>2. TakesDown(p)' <=> TakesDown(p)
      BY <1>3, <2>1 DEF TakesDown
    <3>3. PICK k \in stacks : k.id = c.stack /\ k.target = c.target
      BY <3>1 DEF CanRestore, On
    <3>4. k = [id |-> c.stack, target |-> c.target, site |-> c.site]
      BY <1>1, <3>3 DEF CommandOK, TypeOK
    <3> QED
      BY <1>1, <1>3, <2>1, <3>1, <3>2, <3>3, <3>4 DEF MovesInv, MoveOK
  <2>2. CASE phase = "switch"
    <3>1. c.at = "record" /\ UNCHANGED <<up, queued, stacks>>
      BY <1>2, <2>2 DEF Record, At, remote
    <3>2. TakesDown(p)' <=> TakesDown(p)
      BY <1>3, <2>2 DEF TakesDown
    <3> QED
      BY <1>3, <2>2, <3>1, <3>2 DEF MovesInv, MoveOK
  <2>3. CASE phase \notin {"record", "switch"}
    BY <1>2, <1>3, <2>3 DEF MoveOK
  <2> QED
    BY <2>1, <2>2, <2>3
<1> QED
  BY <1>3, <1>4, <1>5, <1>6, MovesIdle

LEMMA StepMoves == ~Overlap /\ Inv /\ MovesInv /\ [Next]_vars => MovesInv'
<1> SUFFICES ASSUME ~Overlap, Inv, MovesInv, [Next]_vars PROVE MovesInv'
  OBVIOUS
<1>1. ASSUME NEW p \in Procs, Begin(p) PROVE MovesInv'
  BY <1>1, BeginMoves
<1>2. ASSUME NEW p \in Procs, Step(p) PROVE MovesInv'
  BY <1>2, CreateMoves, MovesMoves DEF Moves
<1>3. ASSUME NEW i \in Stacks, CoolifyDeletes(i) PROVE MovesInv'
  <2> SUFFICES ASSUME NEW p \in Procs PROVE (KindOK(p) /\ MoveOK(p))'
    BY DEF MovesInv
  <2>1. /\ cmd' = cmd /\ i \in queued /\ queued' = queued \ {i}
        /\ stacks' = {k \in stacks : k.id # i} /\ up' = up \ {i}
    BY <1>3 DEF CoolifyDeletes
  <2>2. KindOK(p)'
    BY <2>1 DEF MovesInv, KindOK
  <2>3. MoveOK(p)'
    <3>1. MoveOK(p) /\ (TakesDown(p)' <=> TakesDown(p))
      BY <2>1 DEF MovesInv, TakesDown
    <3>2. \A k \in stacks : k.id \notin queued => k \in stacks'
      BY <2>1
    <3> DEFINE k == [id |-> cmd[p].stack, target |-> cmd[p].target, site |-> cmd[p].site]
    <3>3. cmd[p].stack \notin queued /\ k \in stacks => k \in stacks'
      BY <3>2
    <3> HIDE DEF k
    <3> QED
      BY <2>1, <3>1, <3>3 DEF MoveOK, k
  <2> QED
    BY <2>2, <2>3
<1>4. CASE UNCHANGED vars
  BY <1>4 DEF vars, MovesInv, KindOK, MoveOK, TakesDown
<1> QED
  BY <1>1, <1>2, <1>3, <1>4 DEF Next
-----------------------------------------------------------------------------
(* What takes a site down is at work on it, or was accepted by Coolify. *)
Excused(s) ==
  \/ Serving(s) \subseteq queued
  \/ \E p \in Procs : ~At(p, "idle") /\ cmd[p].site = s /\ TakesDown(p)

LEMMA ServingGrows ==
  ASSUME NEW s \in Sites, stacks \subseteq stacks', up \subseteq up', dns'[s] = dns[s]
  PROVE  Serving(s) \subseteq Serving(s)'
BY DEF Serving

(* A step that only takes the stack of the command down concerns its site. *)
LEMMA OwnStack ==
  ASSUME Inv, NEW p \in Procs, cmd[p].at # "idle", NEW s \in Sites,
         stacks' = stacks, dns' = dns, up \ {cmd[p].stack} \subseteq up',
         Serving(s) # {}, Serving(s)' = {}
  PROVE  cmd[p].site = s /\ cmd[p].stack \in up
<1>1. PICK k \in stacks : k.site = s /\ k.target = dns[s] /\ k.id \in up
  BY DEF Serving
<1>2. k.id = cmd[p].stack
  BY <1>1 DEF Serving
<1> QED
  BY <1>1, <1>2 DEF Inv, CommandOK

LEMMA StepServed ==
  ASSUME Inv, MovesInv, NEW p \in Procs, Moves(p), NEW s \in Sites, Serving(s) # {}, Serving(s)' = {}
  PROVE  Excused(s)
<1> DEFINE c == cmd[p]
<1>1. c.at # "idle" /\ c \in Commands /\ stacks' = stacks
  BY MovesGo, CommandAt DEF Inv
<1>2. KindOK(p) /\ MoveOK(p)
  BY DEF MovesInv
<1>3. CASE DeployErr(p) \/ Down(p) \/ RestoreErr(p)
  <2>1. dns' = dns /\ up \ {c.stack} \subseteq up' /\ c.at \in {"deploy", "down", "restore"}
    BY <1>3 DEF DeployErr, Down, RestoreErr, At
  <2>2. c.site = s /\ c.stack \in up
    BY <1>1, <2>1, OwnStack
  <2>3. TakesDown(p)
    BY <1>2, <2>1, <2>2 DEF KindOK, MoveOK, TakesDown
  <2> QED
    BY <1>1, <2>2, <2>3 DEF Excused, At
<1>4. CASE Switch(p)
  <2>1. /\ c.at = "switch" /\ UNCHANGED <<up, stacks>> /\ c.site \in Sites /\ c.target \in Targets
        /\ dns' = [dns EXCEPT ![c.site] = c.target]
    BY <1>1, <1>4 DEF Switch, Pointed, At, Commands
  <2>2. c.site = s
    BY <2>1, ServingGrows DEF Inv, TypeOK
  <2>3. TakesDown(p)
    <3> SUFFICES ASSUME ~TakesDown(p) PROVE FALSE
      OBVIOUS
    <3>1. c.stack \in up /\ [id |-> c.stack, target |-> c.target, site |-> c.site] \in stacks
      BY <1>2, <2>1 DEF MoveOK
    <3>2. dns'[s] = c.target
      BY <2>1, <2>2 DEF Inv, TypeOK
    <3>3. c.stack \in Serving(s)'
      BY <2>1, <2>2, <3>1, <3>2 DEF Serving
    <3> QED
      BY <3>3
  <2> QED
    BY <1>1, <2>2, <2>3 DEF Excused, At
<1>5. CASE DeleteDns(p)
  <2>1. c.at = "deletedns" /\ UNCHANGED <<up, stacks>> /\ dns' = [dns EXCEPT ![c.site] = NoRecord]
    BY <1>5 DEF DeleteDns, At
  <2>2. c.site = s
    BY <2>1, ServingGrows DEF Inv, TypeOK
  <2>3. TakesDown(p)
    BY <1>2, <2>1 DEF KindOK, TakesDown
  <2> QED
    BY <1>1, <2>2, <2>3 DEF Excused, At
<1>6. CASE Save(p) \/ Install(p) \/ DeployOk(p) \/ Persist(p) \/ RestoreOk(p) \/ Record(p)
             \/ DeleteStack(p) \/ VerifyGone(p) \/ VerifyOthers(p) \/ ReadDns(p) \/ DnsErr(p)
             \/ Remove(p) \/ Refused(p) \/ Stops(p)
  <2>1. up \subseteq up' /\ dns' = dns
    BY <1>6 DEF Save, Install, DeployOk, Persist, RestoreOk, Record, DeleteStack, VerifyGone,
       VerifyOthers, ReadDns, DnsErr, Remove, Refused, Stops, remote
  <2> QED
    BY <1>1, <2>1, ServingGrows
<1> QED
  BY <1>3, <1>4, <1>5, <1>6 DEF Moves, Step

(* If commands run one at a time: what is served goes on being served,      *)
(* whatever fails and wherever the commands stop, but for the commands that *)
(* TakesDown names and a deletion that Coolify has accepted.  Failover and  *)
(* migrate lead the DNS only to a copy that is up.                          *)
THEOREM LifecycleServedStaysServed ==
  ASSUME ~Overlap PROVE Spec => ServedStaysServed
<1> DEFINE A == \A s \in Sites :
                  Serving(s) # {} /\ Serving(s)' = {} =>
                    \/ Serving(s) \subseteq queued
                    \/ \E p \in Procs : ~At(p, "idle") /\ cmd[p].site = s /\ TakesDown(p)
<1>1. Inv /\ [Next]_vars => Inv'
  BY StepInv
<1>2. Inv /\ MovesInv /\ [Next]_vars => MovesInv'
  BY StepMoves
<1>3. Inv /\ MovesInv /\ [Next]_vars => [A]_vars
  <2> SUFFICES ASSUME Inv, MovesInv, Next, NEW s \in Sites, Serving(s) # {}, Serving(s)' = {}
               PROVE  Excused(s)
    BY DEF Excused
  <2>1. ASSUME NEW p \in Procs, Begin(p) PROVE Excused(s)
    BY <2>1, BeginFacts, ServingGrows DEF Inv, remote
  <2>2. ASSUME NEW p \in Procs, Step(p) PROVE Excused(s)
    <3>1. CASE Create(p) \/ Provision(p)
      BY <3>1, ServingGrows DEF Create, Provision, CreateStack
    <3>2. CASE ~Create(p) /\ ~Provision(p)
      BY <2>2, <3>2, StepServed DEF Moves
    <3> QED
      BY <3>1, <3>2
  <2>3. ASSUME NEW i \in Stacks, CoolifyDeletes(i) PROVE Excused(s)
    <3>1. /\ dns' = dns /\ stacks' = {k \in stacks : k.id # i} /\ up' = up \ {i} /\ i \in queued
      BY <2>3 DEF CoolifyDeletes
    <3>2. Serving(s) \ {i} \subseteq Serving(s)'
      BY <3>1 DEF Serving
    <3> QED
      BY <3>1, <3>2 DEF Excused
  <2> QED
    BY <2>1, <2>2, <2>3 DEF Next
<1> QED
  BY InitInv, <1>1, InitMoves, <1>2, <1>3, PTL DEF Spec, ServedStaysServed
=============================================================================
