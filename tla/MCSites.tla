------------------------------- MODULE MCSites -------------------------------
(* Two kinds of sites without WordPress: the one that Coolify runs with a   *)
(* Postgres of its own, and the lightweight ones of a host.  They share no  *)
(* state: a behaviour has one of them, and the other stays as it began.     *)
EXTENDS SiteCredentials, TLC

CONSTANTS Proc, Site, Fqdn, Port, None, Bare, MaxCommands

(* ss -ltn is asked for the ports 21000 to 23999.                           *)
ASSUME LightAssumption ==
  /\ Port \subseteq Nat \ {0}
  /\ {None, Bare} \cap ([port : Port, fqdn : Fqdn] \cup [port : Port, up : BOOLEAN]) = {}

VARIABLES kind, dir, caddy, loaded, box, copy, script, commands, lent

Light == INSTANCE LightSites WITH cmd <- script

MCInit ==
  /\ Init /\ Light!Init
  /\ \/ kind = "rust"
     \/ kind = "light" /\ local = [k \in Key |-> 0] /\ coolify.managed

Rust == /\ kind = "rust" /\ Next
        /\ UNCHANGED <<kind, dir, caddy, loaded, box, copy, script, commands, lent>>
OnHost == kind = "light" /\ Light!Next /\ UNCHANGED <<kind, vars>>

MCSpec == MCInit /\ [][Rust \/ OnHost]_<<kind, vars, Light!vars>>

Interchangeable ==
  Permutations(Proc) \cup Permutations(Site) \cup Permutations(Fqdn)

(* A provision or a restore whose script was heard to its end and ended     *)
(* well leaves the domain on the container of its own site, unless another  *)
(* command for it crosses.                                                  *)
OkServes == Light!OkServes

(* A domain shows the site of another only after one of the ways in which   *)
(* a port that is somebody's is given out.                                  *)
OwnDomain == Light!OwnDomain
=============================================================================
