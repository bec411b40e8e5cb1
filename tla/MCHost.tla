------------------------------- MODULE MCHost -------------------------------
(* What the manager does to a host as a whole: a behaviour changes the ways *)
(* into it, with restarts at any moment, or upgrades and restarts it, which *)
(* share nothing but the restart of sshd.                                   *)
EXTENDS HostAccess, HostWindow

(* Nothing of one of the two has begun. *)
AccessRests ==
  /\ tasks = 0 /\ edits = 0
  /\ login = [password |-> FALSE, strict |-> FALSE] /\ disk = [over |-> None, cloud |-> None]
  /\ ~ fw.on
WindowRests ==
  /\ setup = [policy |-> "manual-only", timer |-> TRUE, packaged |-> FALSE]
  /\ ~ pending /\ left = 0 /\ script = Rest /\ manager = Rest /\ commands = 0 /\ works = 0

Init == AccessInit /\ WindowInit /\ (AccessRests \/ WindowRests)

Accessing == WindowRests /\ (AccessNext \/ Restart) /\ UNCHANGED windowVars
Maintaining == AccessRests /\ WindowNext /\ IF boot' # boot THEN Restart ELSE UNCHANGED accessVars

Spec == Init /\ [][Accessing \/ Maintaining]_<<accessVars, windowVars>> /\ WindowFairness
=============================================================================
