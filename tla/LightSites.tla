----------------------------- MODULE LightSites -----------------------------
(***************************************************************************)
(* The lightweight sites of a host: a directory under /srv/hosting with a  *)
(* compose and its metadata, a container on a port of the loopback, and a  *)
(* file that gives its domain to that port in the one Caddy of the host.   *)
(* They are provisioned, started, stopped, given another domain, deleted   *)
(* and restored by commands that may cross; each is a script with set -e,  *)
(* which may fail or be cut at any of its steps.                           *)
(*                                                                         *)
(* How archives of them are made and kept is in SiteBackups.               *)
(***************************************************************************)
EXTENDS Naturals

CONSTANTS Proc, Site, Fqdn,
          Port,        \* 21000 .. 23999
          None,        \* no directory, file or container
          Bare,        \* a directory without a compose
          MaxCommands  \* bound on the commands given

VARIABLES
  dir,      \* the directory of each site: the port and the domain in its files
  caddy,    \* the enabled file of each site
  loaded,   \* what the running Caddy has of them
  box,      \* the container of each site: its port, and whether it is up
  copy,     \* the directory in an archive of each site
  cmd,      \* what each process is doing, whether alone on its site, and
            \* whether Ok was said of a script that was not heard to its end
  commands,
  lent      \* history: a port was given to a site while another that has it
            \* did not listen there

vars == <<dir, caddy, loaded, box, copy, cmd, commands, lent>>
host == <<dir, caddy, loaded, box>>

Ended == {"idle", "ok"}
Rest == [at |-> "idle", what |-> None, site |-> None, port |-> 0, fqdn |-> None,
         alone |-> TRUE, unheard |-> FALSE]

Init ==
  /\ dir = [s \in Site |-> None]
  /\ caddy = dir /\ loaded = dir /\ box = dir
  /\ copy = dir
  /\ cmd = [p \in Proc |-> Rest]
  /\ commands = 0
  /\ lent = FALSE

At(p, step) == cmd[p].at = step
Goes(p, step) == cmd' = [cmd EXCEPT ![p].at = step]

(* A command whose script was not heard to its end: a channel that closes   *)
(* without a status counts as one that ended well.                         *)
Unheard == [at |-> "ok", what |-> None, site |-> None, port |-> 0, fqdn |-> None,
            alone |-> FALSE, unheard |-> TRUE]
Tells(p) == cmd[p].what \in {"new", "restore"}

(* The script ends: with an error or, when the connection was lost before,  *)
(* with Ok all the same.  Only what is said to be provisioned or restored   *)
(* is remembered ("ok").                                                   *)
Ends(p) ==
  \/ cmd' = [cmd EXCEPT ![p] = Rest]
  \/ Tells(p) /\ cmd' = [cmd EXCEPT ![p] = Unheard]

(* A site has a compose: the commands for an existing site look for it.    *)
Composed(s) == dir[s] \notin {None, Bare}

Listens(s, q) == box[s] # None /\ box[s].up /\ box[s].port = q

(* No domain is in two files, or Caddy takes none of them.                 *)
Valid(files) ==
  \A s, t \in Site :
    files[s] # None /\ files[t] # None /\ files[s].fqdn = files[t].fqdn => s = t

(* A command for s crosses every other that is not forgotten.              *)
Crossed(s) == [r \in Proc |-> IF cmd[r].site = s THEN [cmd[r] EXCEPT !.alone = FALSE] ELSE cmd[r]]

Begins(p, what, s, step, q, f) ==
  /\ cmd[p].at \in Ended
  /\ commands < MaxCommands /\ commands' = commands + 1
  /\ cmd' = [Crossed(s) EXCEPT ![p] =
       [at |-> step, what |-> what, site |-> s, port |-> q, fqdn |-> f,
        unheard |-> FALSE,
        alone |-> \A r \in Proc \ {p} : cmd[r].at \in Ended \/ cmd[r].site # s]]

(* The site has the port, in any of its files or as the one it is to get.  *)
Has(s, q) ==
  \/ \E f \in {dir[s], caddy[s], loaded[s], box[s]} \ {None, Bare} : f.port = q
  \/ \E p \in Proc : cmd[p].site = s /\ cmd[p].at \notin Ended /\ cmd[p].port = q

-----------------------------------------------------------------------------
(* Mutant: ports are given out whoever listens there.                      *)
AnyPort == Port

(* Ports where nobody listens (ss -ltn).                                   *)
FreePorts == {q \in Port : \A s \in Site : ~Listens(s, q)}

(* provision_static_site: the lowest free port is looked up first, and the *)
(* script with it is sent afterwards.                                      *)
Provision(p, s, f) ==
  /\ \E q \in FreePorts :
       /\ \A r \in FreePorts : q <= r
       /\ Begins(p, "new", s, "files", q, f)
       /\ lent' = (lent \/ \E t \in Site \ {s} : Has(t, q) /\ ~Listens(t, q))
  /\ UNCHANGED <<host, copy>>

Whole(p) == [port |-> cmd[p].port, fqdn |-> cmd[p].fqdn]

(* A directory that is there ends the script; then the user of SFTP, the   *)
(* compose and the metadata.                                               *)
Files(p) ==
  LET s == cmd[p].site IN
  /\ At(p, "files")
  /\ \/ dir[s] = None /\ dir' = [dir EXCEPT ![s] = Whole(p)] /\ Goes(p, "route")
     \/ dir[s] = None /\ dir' \in {[dir EXCEPT ![s] = d] : d \in {Bare, Whole(p)}} /\ Ends(p)
     \/ UNCHANGED dir /\ Ends(p)
  /\ UNCHANGED <<caddy, loaded, box, copy, commands, lent>>

(* The file for Caddy is written and enabled.                              *)
Routed(p) == caddy' = [caddy EXCEPT ![cmd[p].site] = Whole(p)]

Route(p) ==
  /\ At(p, "route")
  /\ \/ Routed(p) /\ Goes(p, "reload")
     \/ (Routed(p) \/ UNCHANGED caddy) /\ Ends(p)
  /\ UNCHANGED <<dir, loaded, box, copy, commands, lent>>

(* caddy validate and reload, of the files of every site: one that is not  *)
(* valid ends the script, and stays enabled.                               *)
Reload(p) ==
  /\ At(p, "reload")
  /\ \/ /\ Valid(caddy) /\ loaded' = caddy
        /\ IF cmd[p].what = "rename" THEN Ends(p) ELSE Goes(p, "up")
     \/ UNCHANGED loaded /\ Ends(p)
  /\ UNCHANGED <<dir, caddy, box, copy, commands, lent>>

Boxed(s, up) == box' = [box EXCEPT ![s] = [port |-> dir[s].port, up |-> up]]

(* docker compose up -d: a container whose port another has is created and *)
(* does not start.                                                         *)
Started(s) == Boxed(s, TRUE) /\ \A t \in Site \ {s} : ~Listens(t, dir[s].port)

(* Mutant: the script goes on when compose fails.                          *)
UpOrNot(p) ==
  LET s == cmd[p].site IN
  /\ At(p, "up")
  /\ \/ Composed(s) /\ (Started(s) \/ Boxed(s, FALSE)) /\ Goes(p, "probe")
     \/ UNCHANGED box /\ Ends(p)
  /\ UNCHANGED <<dir, caddy, loaded, copy, commands, lent>>
Up(p) ==
  LET s == cmd[p].site IN
  /\ At(p, "up")
  /\ \/ Composed(s) /\ Started(s) /\ Goes(p, "probe")
     \/ Composed(s) /\ Boxed(s, FALSE) /\ Ends(p)
     \/ UNCHANGED box /\ Ends(p)
  /\ UNCHANGED <<dir, caddy, loaded, copy, commands, lent>>

(* curl asks the port, where anybody may answer.                           *)
Probe(p) ==
  /\ At(p, "probe")
  /\ \/ (\E t \in Site : Listens(t, cmd[p].port)) /\ Goes(p, "ok")
     \/ Ends(p)
  /\ UNCHANGED <<host, copy, commands, lent>>

-----------------------------------------------------------------------------
(* run_compose_action                                                      *)
Start(s) ==
  /\ Composed(s) /\ (Started(s) \/ Boxed(s, FALSE))
  /\ cmd' = Crossed(s)
  /\ UNCHANGED <<dir, caddy, loaded, copy, commands, lent>>

Stop(s) ==
  /\ Composed(s) /\ box[s] # None
  /\ box' = [box EXCEPT ![s].up = FALSE]
  /\ cmd' = Crossed(s)
  /\ UNCHANGED <<dir, caddy, loaded, copy, commands, lent>>

(* reconfigure_site: another domain, for the port in the metadata.         *)
Reconfigure(p, s, f) ==
  /\ Composed(s)
  /\ Begins(p, "rename", s, "rename", dir[s].port, f)
  /\ UNCHANGED <<host, copy, lent>>

Rename(p) ==
  LET s == cmd[p].site IN
  /\ At(p, "rename")
  /\ \/ /\ Composed(s) /\ Routed(p) /\ dir' = [dir EXCEPT ![s] = Whole(p)]
        /\ Goes(p, "reload") \/ Ends(p)
     \/ Composed(s) /\ Routed(p) /\ UNCHANGED dir /\ Ends(p)
     \/ UNCHANGED <<dir, caddy>> /\ Ends(p)
  /\ UNCHANGED <<loaded, box, copy, commands, lent>>

(* delete_site: what fails of the container and of Caddy is not an error.  *)
BeginDelete(p, s) ==
  /\ Composed(s)
  /\ Begins(p, "delete", s, "down", 0, None)
  /\ UNCHANGED <<host, copy, lent>>

Removed(p) == box' = [box EXCEPT ![cmd[p].site] = None]

Delete(p) ==
  LET s == cmd[p].site IN
  /\ \/ /\ At(p, "down") /\ Goes(p, "unroute")
        /\ Removed(p) \/ UNCHANGED box
        /\ UNCHANGED <<dir, caddy, loaded>>
     \/ /\ At(p, "unroute") /\ Goes(p, "unload")
        /\ caddy' = [caddy EXCEPT ![s] = None]
        /\ UNCHANGED <<dir, loaded, box>>
     \/ /\ At(p, "unload") /\ Goes(p, "remove")
        /\ (Valid(caddy) /\ loaded' = caddy) \/ UNCHANGED loaded
        /\ UNCHANGED <<dir, caddy, box>>
     \/ /\ At(p, "remove") /\ Ends(p)
        /\ dir' = [dir EXCEPT ![s] = None] \/ UNCHANGED dir
        /\ UNCHANGED <<caddy, loaded, box>>
  /\ UNCHANGED <<copy, commands, lent>>

(* An archive of the site is made; earlier ones may be restored as well.   *)
Copy(s) ==
  /\ Composed(s)
  /\ copy' = [copy EXCEPT ![s] = dir[s]]
  /\ UNCHANGED <<host, cmd, commands, lent>>

(* build_restore_script: the site gets the port and the domain it had.     *)
Restore(p, s, w) ==
  /\ Begins(p, "restore", s, "wipe", w.port, w.fqdn)
  /\ lent' = (lent \/ \E t \in Site \ {s} : Has(t, w.port))
  /\ UNCHANGED <<host, copy>>

Wipe(p) ==
  LET s == cmd[p].site IN
  /\ At(p, "wipe")
  /\ (Composed(s) /\ Removed(p)) \/ UNCHANGED box
  /\ \/ dir' = [dir EXCEPT ![s] = None] /\ Goes(p, "extract")
     \/ dir' \in {dir, [dir EXCEPT ![s] = Bare]} /\ Ends(p)
  /\ UNCHANGED <<caddy, loaded, copy, commands, lent>>

Extract(p) ==
  LET s == cmd[p].site IN
  /\ At(p, "extract")
  /\ \/ dir' = [dir EXCEPT ![s] = Whole(p)] /\ Goes(p, "route")
     \/ dir' \in {dir, [dir EXCEPT ![s] = Bare]} /\ Ends(p)
  /\ UNCHANGED <<caddy, loaded, box, copy, commands, lent>>

-----------------------------------------------------------------------------
(* The host restarts: every script ends, some of them with Ok for the       *)
(* operator, Caddy reads its files, and what was up is up again.            *)
HostRestart ==
  /\ \E told \in SUBSET {p \in Proc : Tells(p)} :
       cmd' = [p \in Proc |-> IF p \in told THEN Unheard ELSE Rest]
  /\ loaded' = IF Valid(caddy) THEN caddy ELSE [s \in Site |-> None]
  /\ UNCHANGED <<dir, caddy, box, copy, commands, lent>>

Given(p, s) ==
  \/ \E f \in Fqdn : Provision(p, s, f) \/ Reconfigure(p, s, f)
  \/ BeginDelete(p, s)
  \/ copy[s] # None /\ Restore(p, s, copy[s])

Script(p) ==
  \/ Files(p) \/ Route(p) \/ Reload(p) \/ Up(p) \/ Probe(p)
  \/ Rename(p) \/ Delete(p) \/ Wipe(p) \/ Extract(p)

Next ==
  \/ \E p \in Proc : Script(p) \/ \E s \in Site : Given(p, s)
  \/ \E s \in Site : Start(s) \/ Stop(s) \/ Copy(s)
  \/ HostRestart

Spec == Init /\ [][Next]_vars

-----------------------------------------------------------------------------
(* A provision or a restore whose script was heard to its end and ended     *)
(* well leaves the domain on the container of its own site, although the    *)
(* probe may be answered by that of another: as long as no other command    *)
(* for the site crosses it.  (Ok alone does not say so: it is also the end  *)
(* of a command whose connection was lost.)                                 *)
OkServes ==
  \A p \in Proc :
    LET s == cmd[p].site IN
    At(p, "ok") /\ ~cmd[p].unheard /\ cmd[p].alone
      => loaded[s] # None /\ loaded[s].fqdn = cmd[p].fqdn /\ Listens(s, loaded[s].port)

(* A domain never shows the site of another, however provisions, restores,  *)
(* deletions and restarts cross or fail, unless a port was given out while  *)
(* the site that has it did not listen (stopped, being provisioned, or      *)
(* deleted without its route), or an archive brought back a port that is    *)
(* another's by now.                                                        *)
OwnDomain ==
  ~lent => \A s, t \in Site :
             loaded[s] # None /\ Listens(t, loaded[s].port) => t = s
=============================================================================
