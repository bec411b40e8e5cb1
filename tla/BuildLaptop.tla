---------------------------- MODULE BuildLaptop ----------------------------
(***************************************************************************)
(* build-laptop: the image of a site is compiled away from its host (on    *)
(* the laptop, or on the build VPS) and travels as a compressed file to    *)
(* the Docker of the host that serves the site.                            *)
(*                                                                         *)
(* Several commands of the same site may be under way: nothing keeps them  *)
(* apart, and they share the tag of a commit, the work directory of the    *)
(* laptop, the directory ~/.cm-builder/<site> of the build VPS and the     *)
(* names under /tmp of the target.  The branch moves on meanwhile.  A      *)
(* commit is its position in the history of the branch.                    *)
(***************************************************************************)
EXTENDS Naturals, FiniteSets

CONSTANTS Run,        \* commands of this site
          MaxCommit,  \* bound on the commits of the branch
          None,       \* no image, no file
          Partial     \* a file whose transfer or packing stopped halfway

ASSUME MaxCommitAssumption == MaxCommit \in Nat \ {0}

Commit == 1..MaxCommit

(* An image file: the tag docker load restores, and the commit compiled.   *)
Tgz == [tag : Commit, content : Commit]

ASSUME ValuesAssumption == /\ None \notin Commit \cup Tgz
                           /\ Partial \notin Commit \cup Tgz
                           /\ None # Partial

VARIABLES
  plan,     \* where the site builds and how its image travels
  head,     \* the tip of the branch
  run,      \* the commands
  laptop,   \* images, bundle, image files and builds that were given up
  builder,  \* the same of the build VPS, its layer cache, and the file that a
            \* save that was given up is still writing (Partial: a removed one)
  target    \* images and temporary files of the target

vars == <<plan, head, run, laptop, builder, target>>

Ended == {"ok", "err"}
Files == Tgz \cup {None, Partial}

Plans == {p \in [host : {"laptop", "builder"}, bundles : BOOLEAN,
                 transfer : {"vps", "laptop"}] :
            p.host = "laptop" => ~p.bundles /\ p.transfer = "laptop"}

NoImages == [c \in Commit |-> None]
NoFiles == [c \in Commit |-> None]

Init ==
  /\ plan \in Plans
  /\ head = 1
  /\ run = [r \in Run |-> [pc |-> "resolve", sha |-> 1, sum |-> None,
                           stays |-> FALSE, keeps |-> FALSE]]
  /\ laptop = [img |-> NoImages, bundle |-> None, tgz |-> NoFiles, late |-> {}]
  /\ builder = [dir |-> FALSE, bundle |-> None, tgz |-> None,
                img |-> NoImages, cache |-> NoImages, late |-> {}, saving |-> None]
  /\ target = [img |-> NoImages, upload |-> NoFiles, relay |-> [f \in Files |-> None]]

At(r, pc) == run[r].pc = pc
Go(r, pc) == run' = [run EXCEPT ![r].pc = pc]
Fail(r) == Go(r, "err")

(* A commit reaches the branch.                                            *)
Push ==
  /\ head < MaxCommit
  /\ head' = head + 1
  /\ UNCHANGED <<plan, run, laptop, builder, target>>

(* git ls-remote, or rev-parse in the copy of the laptop.                  *)
BranchSha == head

(* The commit is read first: it names the tag and is the key of the cache. *)
(* A trial that stays on the laptop is only for the build VPS.             *)
Resolve(r) ==
  /\ At(r, "resolve")
  /\ \/ \E stays \in BOOLEAN, keeps \in BOOLEAN :
          /\ stays => plan.host = "builder"
          /\ run' = [run EXCEPT ![r] =
               [pc |-> IF plan.bundles THEN "pack"
                       ELSE IF plan.host = "laptop" THEN "preflight" ELSE "dockerfile",
                sha |-> BranchSha, sum |-> None, stays |-> stays, keeps |-> keeps]]
     \/ Fail(r)
  /\ UNCHANGED <<plan, head, laptop, builder, target>>

(* The daemon must answer and the disk of the laptop have room.            *)
Preflight(r) ==
  /\ At(r, "preflight")
  /\ Go(r, "dockerfile") \/ Fail(r)
  /\ UNCHANGED <<plan, head, laptop, builder, target>>

(* The build variables of Coolify, and a Dockerfile: the one of the        *)
(* program for bundles, else that of the service, which must exist.        *)
FetchDockerfile(r) ==
  /\ At(r, "dockerfile")
  /\ Go(r, IF plan.host = "laptop" THEN "build" ELSE "prepare") \/ Fail(r)
  /\ UNCHANGED <<plan, head, laptop, builder, target>>

(* The bundle carries the branch as it is now, which may have moved since  *)
(* rev-parse.  The file of an earlier run goes first.                      *)
Pack(r) ==
  /\ At(r, "pack")
  /\ \/ Go(r, "framework") /\ laptop' = [laptop EXCEPT !.bundle = head]
     \/ Fail(r) /\ laptop' \in {laptop, [laptop EXCEPT !.bundle = None]}
  /\ UNCHANGED <<plan, head, builder, target>>

(* The bundle of the framework holds the one tree that the program names,  *)
(* fetched once into a cache; another tree, or a git that fails, ends here.*)
PackFramework(r) ==
  /\ At(r, "framework")
  /\ Go(r, "dockerfile") \/ Fail(r)
  /\ UNCHANGED <<plan, head, laptop, builder, target>>

(* A file that is being written goes on without its name when it is removed. *)
Removed == [builder EXCEPT !.tgz = None, !.bundle = None,
                           !.saving = IF @ = None THEN None ELSE Partial]

(* What is left of an earlier run is removed from the directory of the     *)
(* site before the Dockerfile and the bundles are uploaded.                *)
PrepareSite(r) ==
  LET clean == [Removed EXCEPT !.dir = TRUE]
  IN /\ At(r, "prepare")
     /\ \/ /\ plan.bundles => laptop.bundle # None
           /\ Go(r, "build")
           /\ builder' = IF plan.bundles THEN [clean EXCEPT !.bundle = laptop.bundle]
                         ELSE clean
        \/ Fail(r) /\ builder' \in {builder, clean}
     /\ UNCHANGED <<plan, head, laptop, target>>

(* docker build --no-cache on the laptop: the Dockerfile clones the branch *)
(* as it is now.  A build that exceeds its time is given up, not killed.   *)
BuildHere(r) ==
  /\ At(r, "build") /\ plan.host = "laptop"
  /\ \/ Go(r, "save") /\ laptop' = [laptop EXCEPT !.img[run[r].sha] = head]
     \/ Fail(r) /\ laptop' \in {laptop, [laptop EXCEPT !.late = @ \cup {run[r].sha}]}
  /\ UNCHANGED <<plan, head, builder, target>>

LateBuild ==
  /\ \E c \in laptop.late :
       laptop' = [laptop EXCEPT !.late = @ \ {c}, !.img[c] = head]
  /\ UNCHANGED <<plan, head, run, builder, target>>

(* Mutant: CACHE_BUST is not passed, the clone of the first commit is reused. *)
CacheKeyNoBust(sha) == 1

(* The layer of the clone is looked up under CACHE_BUST.                   *)
CacheKey(sha) == sha

(* The commit that a build of the build VPS compiles.                      *)
Source(sha) ==
  IF plan.bundles THEN builder.bundle
  ELSE IF builder.cache[CacheKey(sha)] # None THEN builder.cache[CacheKey(sha)]
  ELSE head

(* The Dockerfile of the bundles compares the commit with CACHE_BUST.      *)
CommitMatches(sha) == plan.bundles => builder.bundle = sha

Cached(b, sha) == [b EXCEPT !.cache[CacheKey(sha)] = IF plan.bundles THEN @ ELSE Source(sha)]
Built(sha) == Cached([builder EXCEPT !.img[sha] = Source(sha)], sha)

(* The build runs under nohup and is asked for by its log.  A command that  *)
(* gives up on it leaves it there, its context sent and perhaps its clone   *)
(* made.                                                                    *)
BuildThere(r) ==
  LET sha == run[r].sha
      can == builder.dir /\ Source(sha) # None /\ CommitMatches(sha)
  IN /\ At(r, "build") /\ plan.host = "builder"
     /\ \/ can /\ Go(r, "save") /\ builder' = Built(sha)
        \/ Fail(r) /\ builder' \in {builder} \cup (IF can THEN {Built(sha)} ELSE {})
        \/ /\ can /\ Fail(r)
           /\ \E b \in {builder, Cached(builder, sha)} : builder' = [b EXCEPT !.late = @ \cup {sha}]
     /\ UNCHANGED <<plan, head, laptop, target>>

(* With bundles it was compared with its commit when it began.             *)
LateSource(sha) == IF plan.bundles THEN sha ELSE Source(sha)

(* One that was left ends, or fails.  Its end is written to the log of the  *)
(* site, where a later command takes it for the end of its own build, which *)
(* then is the one that goes on.                                            *)
LateBuildThere ==
  \E c \in builder.late :
    LET ended == [builder EXCEPT !.late = @ \ {c}]
        built == Cached([ended EXCEPT !.img[c] = LateSource(c)], c)
    IN /\ \/ run' = run /\ builder' \in {ended, built}
          \/ \E r \in Run :
               /\ At(r, "build") /\ builder.dir /\ CommitMatches(run[r].sha)
               /\ Go(r, "save")
               /\ builder' = [built EXCEPT !.late = @ \cup {run[r].sha}]
       /\ UNCHANGED <<plan, head, laptop, target>>

File(img, sha) == [tag |-> sha, content |-> img[sha]]

(* docker save into a gzip written by the program.                         *)
SaveHere(r) ==
  LET sha == run[r].sha
  IN /\ At(r, "save") /\ plan.host = "laptop"
     /\ \/ /\ Go(r, "upload")
           /\ laptop' = [laptop EXCEPT !.tgz[sha] = File(laptop.img, sha)]
        \/ Fail(r) /\ laptop' \in {laptop, [laptop EXCEPT !.tgz[sha] = Partial]}
     /\ UNCHANGED <<plan, head, builder, target>>

(* docker save | gzip under pipefail, into the directory of the site, under *)
(* nohup as the build.  Two that write the same file leave no archive.      *)
SaveThere(r) ==
  LET file == File(builder.img, run[r].sha)
      can == builder.dir /\ builder.img[run[r].sha] # None
      shared == builder.saving \in Tgz
      part == [builder EXCEPT !.tgz = Partial, !.saving = IF shared THEN None ELSE @]
      left == IF shared THEN part ELSE [part EXCEPT !.saving = file]
  IN /\ At(r, "save") /\ plan.host = "builder"
     /\ \/ /\ can /\ Go(r, "measure")
           /\ builder' = IF shared THEN part ELSE [builder EXCEPT !.tgz = file]
        \/ Fail(r) /\ builder' \in {builder} \cup (IF builder.dir THEN {part} ELSE {})
                                            \cup (IF can THEN {left} ELSE {})
        \/ \* the end of one that was left, in save.log
           can /\ builder.saving = Partial /\ Go(r, "measure") /\ builder' = left
     /\ UNCHANGED <<plan, head, laptop, target>>

LateSave ==
  /\ builder.saving # None
  /\ builder' \in {[builder EXCEPT !.saving = None]} \cup
       (IF builder.saving = Partial THEN {}
        ELSE {[builder EXCEPT !.saving = None, !.tgz = builder.saving]})
  /\ UNCHANGED <<plan, head, run, laptop, target>>

(* Which way the image travels.                                            *)
Route(r) == IF run[r].stays \/ plan.transfer = "laptop" THEN "download" ELSE "authorize"

(* The sum is that of the file that is there now.                          *)
Measure(r) ==
  /\ At(r, "measure")
  /\ \/ /\ builder.tgz # None
        /\ run' = [run EXCEPT ![r].sum = builder.tgz, ![r].pc = Route(r)]
     \/ Fail(r)
  /\ UNCHANGED <<plan, head, laptop, builder, target>>

(* The relay needs a key for both hosts, and the target among the known    *)
(* hosts of the laptop.                                                    *)
Authorize(r) ==
  /\ At(r, "authorize")
  /\ Go(r, "relay") \/ Fail(r)
  /\ UNCHANGED <<plan, head, laptop, builder, target>>

(* What the build VPS keeps of a run that is over: images and layers.      *)
Emptied == [Removed EXCEPT !.dir = FALSE]

(* The build VPS checks the sum and sends the file to the target under a   *)
(* name taken from the sum; its trap removes the directory however it ends *)
(* (a relay that never reaches the build VPS leaves it).                   *)
Relay(r) ==
  LET sum == run[r].sum
  IN /\ At(r, "relay")
     /\ \/ /\ builder.tgz = sum /\ builder' = Emptied
           /\ \/ Go(r, "load") /\ target' = [target EXCEPT !.relay[sum] = sum]
              \/ Fail(r) /\ target' \in {target, [target EXCEPT !.relay[sum] = Partial]}
        \/ Fail(r) /\ builder' \in {builder, Emptied} /\ UNCHANGED target
     /\ UNCHANGED <<plan, head, laptop>>

(* The file comes to the laptop and the build VPS is cleaned.              *)
Download(r) ==
  LET got == [laptop EXCEPT !.tgz[run[r].sha] = builder.tgz]
  IN /\ At(r, "download")
     /\ \/ /\ builder.tgz # None /\ laptop' = got /\ builder' = Emptied
           /\ Go(r, IF run[r].stays THEN "ok" ELSE "upload")
        \/ /\ Fail(r) /\ UNCHANGED builder
           /\ laptop' \in {laptop} \cup (IF builder.tgz = None THEN {} ELSE {got})
     /\ UNCHANGED <<plan, head, target>>

(* Room for file and image is asked for before the upload.                 *)
Upload(r) ==
  LET sha == run[r].sha
  IN /\ At(r, "upload")
     /\ \/ /\ laptop.tgz[sha] # None
           /\ Go(r, "load")
           /\ target' = [target EXCEPT !.upload[sha] = laptop.tgz[sha]]
        \/ Fail(r) /\ target' \in {target, [target EXCEPT !.upload[sha] = Partial]}
     /\ UNCHANGED <<plan, head, laptop, builder>>

Relayed(r) == plan.host = "builder" /\ plan.transfer = "vps"

(* The file of r on the target.                                            *)
Arrived(r) == IF Relayed(r) THEN target.relay[run[r].sum] ELSE target.upload[run[r].sha]

(* The sum is compared when it is known; a file that is cut does not load. *)
Loadable(r) == /\ Arrived(r) \in Tgz
               /\ run[r].sum # None => Arrived(r) = run[r].sum

(* docker load restores the tag the file holds.                            *)
LoadedImages(r) ==
  [target.img EXCEPT ![Arrived(r).tag] = Arrived(r).content]

Loaded(r, t) == [t EXCEPT !.img = LoadedImages(r)]

(* docker image inspect asks for the tag of the command.                   *)
Inspected(r, img) == img[run[r].sha] # None

WithoutFile(r) ==
  IF Relayed(r) THEN [target EXCEPT !.relay[run[r].sum] = None]
  ELSE [target EXCEPT !.upload[run[r].sha] = None]

(* The temporary file is removed whatever the load did; a lost connection  *)
(* may leave it, and may hide that the image was loaded.                   *)
Load(r) ==
  LET sha == run[r].sha
  IN /\ At(r, "load")
     /\ \/ /\ Loadable(r)
           /\ target' = Loaded(r, WithoutFile(r))
           /\ IF Inspected(r, LoadedImages(r))
              THEN /\ Go(r, "ok")
                   /\ laptop' = IF Relayed(r) \/ run[r].keeps THEN laptop
                                ELSE [laptop EXCEPT !.tgz[sha] = None]
              ELSE Fail(r) /\ UNCHANGED laptop
        \/ /\ Fail(r) /\ UNCHANGED laptop
           /\ \E t \in {target, WithoutFile(r)} :
                \/ target' = t
                \/ Loadable(r) /\ target' = Loaded(r, t)
     /\ UNCHANGED <<plan, head, builder>>

(* What leads to a build, the same for both hosts.                         *)
Prepares(r) ==
  Resolve(r) \/ Pack(r) \/ PackFramework(r) \/ Preflight(r) \/ FetchDockerfile(r)

(* On the laptop, ...                                                      *)
StepHere(r) == BuildHere(r) \/ SaveHere(r)

(* ... on the build VPS, ...                                               *)
StepThere(r) == PrepareSite(r) \/ BuildThere(r) \/ SaveThere(r) \/ Measure(r)

(* ... and the way of the image to the target.                             *)
Ships(r) == Authorize(r) \/ Relay(r) \/ Download(r) \/ Upload(r) \/ Load(r)

Step(r) == Prepares(r) \/ StepHere(r) \/ StepThere(r) \/ Ships(r)

Next == Push \/ LateBuild \/ LateBuildThere \/ LateSave \/ \E r \in Run : Step(r)

Spec == Init /\ [][Next]_vars

-----------------------------------------------------------------------------

(* An image that commit c may name: what the tag says with bundles (the    *)
(* build compares), and never something older than the tag with a clone    *)
(* (the branch may move between ls-remote and the clone).                  *)
Names(c, content) == IF plan.bundles THEN content = c ELSE content >= c

(* However commands of a site overlap, fail and are repeated, no host ends *)
(* with an image whose tag names a commit that the image does not have:    *)
(* with a layer cache, a shared directory and files that another command   *)
(* replaces between two steps.                                             *)
TagNamesCommit ==
  \A c \in Commit : target.img[c] # None => Names(c, target.img[c])

=============================================================================
