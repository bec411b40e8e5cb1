------------------------------ MODULE MCNewCode ------------------------------
(* Two ways for the commits of a branch to get to a site: the image that    *)
(* build-laptop ships (a Rust site) and the theme that is updated inside    *)
(* its container (a WordPress site).  A behaviour has one of them; the      *)
(* other is in an initial state, and stays there.                           *)
EXTENDS BuildLaptop

CONSTANTS MaxLibrary, MaxDeploys

VARIABLES way, remote, site, registered, cmd, lapse, deploys

Theme == INSTANCE ThemeDeploy

MCInit ==
  /\ Init /\ Theme!Init
  /\ \/ way = "image" /\ site.repo = "ok"
     \/ way = "theme" /\ plan.host = "laptop"

Shipping == /\ way = "image" /\ Next
            /\ UNCHANGED <<way, remote, site, registered, cmd, lapse, deploys>>

Updating == way = "theme" /\ Theme!Next /\ UNCHANGED <<way, vars>>

MCSpec == MCInit /\ [][Shipping \/ Updating]_<<way, vars, Theme!vars>>

(* Between commands the packages are those of the sources in place.         *)
DepsFollowSources == Theme!DepsFollowSources
=============================================================================
