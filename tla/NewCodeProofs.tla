---------------------------- MODULE NewCodeProofs ----------------------------
(***************************************************************************)
(* The two ways for the commits of a branch to get to a site, for any      *)
(* number of commands and commits: the image that build-laptop ships       *)
(* (BuildLaptop) and the theme that deploy-theme updates (ThemeDeploy).    *)
(***************************************************************************)
EXTENDS MCNewCode, TLAPS

(* The image of a site and the files it travels in.                         *)
Steps == {"resolve", "pack", "framework", "preflight", "dockerfile", "prepare", "build", "save",
          "measure", "authorize", "relay", "download", "upload", "load", "ok", "err"}

Commands == [pc : Steps, sha : Commit, sum : Files, stays : BOOLEAN, keeps : BOOLEAN]

(* What the tag of a commit may stand for, and a file that is what its tag  *)
(* says, with bundles (b) or without.                                       *)
Fits(b, c, v) == IF b THEN v = c ELSE v >= c
Honest(b, f) == f \in Files /\ (f \in Tgz => Fits(b, f.tag, f.content))

Map == [Commit -> Commit \cup {None}]
Images(b, m) ==
  /\ m \in Map
  /\ \A c \in Commit : m[c] # None => Fits(b, c, m[c])
Archives(b, m, D) == m \in [D -> Files] /\ \A k \in D : Honest(b, m[k])

LaptopOK ==
  /\ laptop \in [img : Map, bundle : Commit \cup {None}, tgz : [Commit -> Files], late : SUBSET Commit]
  /\ Images(plan.bundles, laptop.img) /\ Archives(plan.bundles, laptop.tgz, Commit)
  /\ \A c \in laptop.late : c <= head /\ plan.host = "laptop"

BuilderFine(b) ==
  /\ b \in [dir : BOOLEAN, bundle : Commit \cup {None}, tgz : Files, img : Map, cache : Map,
            late : SUBSET Commit, saving : Files]
  /\ Images(plan.bundles, b.img) /\ Images(plan.bundles, b.cache)
  /\ Honest(plan.bundles, b.tgz) /\ Honest(plan.bundles, b.saving)
  /\ \A c \in b.late : c <= head /\ plan.host = "builder"

BuilderOK == BuilderFine(builder)

TargetOK ==
  /\ target \in [img : Map, upload : [Commit -> Files], relay : [Files -> Files]]
  /\ Images(plan.bundles, target.img) /\ Archives(plan.bundles, target.upload, Commit) /\ Archives(plan.bundles, target.relay, Files)

(* A commit was in the branch when it was read, and what the laptop is to   *)
(* pack was built there.                                                    *)
CommandOK(r) ==
  /\ run[r] \in Commands
  /\ run[r].sha <= head
  /\ run[r].pc = "save" /\ plan.host = "laptop" => laptop.img[run[r].sha] # None

ImageInv ==
  /\ plan \in Plans /\ head \in Commit /\ DOMAIN run = Run
  /\ LaptopOK /\ BuilderOK /\ TargetOK
  /\ \A r \in Run : CommandOK(r)

LEMMA FilesAre ==
  /\ None \in Files /\ Partial \in Files /\ (\A b : Honest(b, None) /\ Honest(b, Partial))
  /\ \A f \in Tgz : f \in Files
  /\ \A b, c, v : c \in Commit /\ v \in Commit /\ Fits(b, c, v) =>
        Honest(b, [tag |-> c, content |-> v]) /\ [tag |-> c, content |-> v] \in Tgz
  BY ValuesAssumption DEF Files, Tgz, Honest

LEMMA CommitsAre == Commit \subseteq Nat /\ 1 \in Commit /\ \A c \in Commit : 1 <= c
  BY MaxCommitAssumption DEF Commit

LEMMA WhereBuilt ==
  ASSUME plan \in Plans
  PROVE  /\ plan.host \in {"laptop", "builder"} /\ plan.bundles \in BOOLEAN
         /\ plan.host = "laptop" => ~ plan.bundles /\ plan.transfer = "laptop"
  BY DEF Plans

LEMMA ImageInitInv == Init => ImageInv
<1> SUFFICES ASSUME Init PROVE ImageInv
  OBVIOUS
<1>1. plan \in Plans /\ head \in Commit /\ DOMAIN run = Run /\ head = 1
  BY CommitsAre DEF Init
<1>2. \A b : /\ Images(b, NoImages) /\ Archives(b, NoFiles, Commit)
             /\ Archives(b, [f \in Files |-> None], Files)
  BY FilesAre DEF Map, Images, Archives, NoImages, NoFiles
<1>3. LaptopOK /\ BuilderOK /\ TargetOK
  <2>1. NoImages \in Map /\ NoFiles \in [Commit -> Files] /\ [f \in Files |-> None] \in [Files -> Files]
    BY FilesAre DEF Map, NoImages, NoFiles
  <2>2. LaptopOK
    BY <1>2, <2>1 DEF Init, LaptopOK
  <2>3. BuilderOK
    BY <1>2, <2>1, FilesAre DEF Init, BuilderOK, BuilderFine
  <2>4. TargetOK
    BY <1>2, <2>1 DEF Init, TargetOK
  <2> QED BY <2>2, <2>3, <2>4
<1>4. ASSUME NEW r \in Run PROVE CommandOK(r)
  BY <1>1, CommitsAre, FilesAre DEF Init, CommandOK, Commands, Steps
<1> QED BY <1>1, <1>3, <1>4 DEF ImageInv

(* A command that only goes on.                                             *)
LEMMA GoesOn ==
  ASSUME ImageInv, NEW r \in Run, NEW pc \in Steps, pc # "save", Go(r, pc)
  PROVE  /\ DOMAIN run' = Run
         /\ \A q \in Run : /\ run'[q] \in Commands /\ run'[q].sha = run[q].sha
                           /\ run'[q].pc = "save" => run[q].pc = "save"
  BY DEF ImageInv, CommandOK, Commands, Go

(* Nothing that a command knows changes while the laptop keeps its images.  *)
LEMMA CommandsKeep ==
  ASSUME ImageInv, plan' = plan, head' = head, DOMAIN run' = Run,
         \A q \in Run : /\ run'[q] \in Commands /\ run'[q].sha <= head
                        /\ run'[q].pc = "save" =>
                             \/ run[q].pc = "save" /\ run'[q].sha = run[q].sha
                             \/ plan.host = "laptop" => laptop'.img[run'[q].sha] # None,
         \A c \in Commit : laptop.img[c] # None => laptop'.img[c] # None,
         LaptopOK', BuilderOK', TargetOK'
  PROVE  ImageInv'
<1>1. ASSUME NEW q \in Run PROVE CommandOK(q)'
  <2>1. run'[q] \in Commands /\ run'[q].sha \in Commit
    BY DEF Commands
  <2>2. CommandOK(q)
    BY DEF ImageInv
  <2> QED BY <2>1, <2>2 DEF CommandOK
<1> QED BY <1>1 DEF ImageInv

(* What is put in a place keeps it as it should be.                         *)
LEMMA ImagePut ==
  ASSUME NEW b, NEW m, Images(b, m), NEW c \in Commit, NEW v \in Commit, Fits(b, c, v)
  PROVE  Images(b, [m EXCEPT ![c] = v])
  BY DEF Map, Images

LEMMA FilePut ==
  ASSUME NEW b, NEW D, NEW m, Archives(b, m, D), NEW k \in D, NEW f, Honest(b, f)
  PROVE  Archives(b, [m EXCEPT ![k] = f], D)
  BY DEF Archives, Honest

(* The build VPS after a change of one of its parts.                        *)
LEMMA BuilderPut ==
  ASSUME NEW b, BuilderFine(b)
  PROVE  /\ \A d \in BOOLEAN : BuilderFine([b EXCEPT !.dir = d])
         /\ \A v \in Commit \cup {None} : BuilderFine([b EXCEPT !.bundle = v])
         /\ \A f \in Files : Honest(plan.bundles, f) =>
              BuilderFine([b EXCEPT !.tgz = f]) /\ BuilderFine([b EXCEPT !.saving = f])
         /\ \A L \in SUBSET Commit : (\A c \in L : c <= head /\ plan.host = "builder") => BuilderFine([b EXCEPT !.late = L])
         /\ \A m : Images(plan.bundles, m) =>
              BuilderFine([b EXCEPT !.img = m]) /\ BuilderFine([b EXCEPT !.cache = m])
<1> DEFINE Builders == [dir : BOOLEAN, bundle : Commit \cup {None}, tgz : Files, img : Map, cache : Map,
                        late : SUBSET Commit, saving : Files]
<1>1. b \in Builders
  BY DEF BuilderFine
<1>2. \A m : Images(plan.bundles, m) => m \in Map
  BY DEF Images
<1>3. /\ \A d \in BOOLEAN : [b EXCEPT !.dir = d] \in Builders
      /\ \A v \in Commit \cup {None} : [b EXCEPT !.bundle = v] \in Builders
      /\ \A f \in Files : [b EXCEPT !.tgz = f] \in Builders /\ [b EXCEPT !.saving = f] \in Builders
      /\ \A L \in SUBSET Commit : [b EXCEPT !.late = L] \in Builders
      /\ \A m \in Map : [b EXCEPT !.img = m] \in Builders /\ [b EXCEPT !.cache = m] \in Builders
  BY <1>1
<1>4. ASSUME NEW d \in BOOLEAN PROVE BuilderFine([b EXCEPT !.dir = d])
  BY <1>1, <1>3 DEF BuilderFine
<1>5. ASSUME NEW v \in Commit \cup {None} PROVE BuilderFine([b EXCEPT !.bundle = v])
  BY <1>1, <1>3 DEF BuilderFine
<1>6. ASSUME NEW f \in Files, Honest(plan.bundles, f)
      PROVE  BuilderFine([b EXCEPT !.tgz = f]) /\ BuilderFine([b EXCEPT !.saving = f])
  BY <1>1, <1>3, <1>6 DEF BuilderFine
<1>7. ASSUME NEW L \in SUBSET Commit, \A c \in L : c <= head /\ plan.host = "builder" PROVE BuilderFine([b EXCEPT !.late = L])
  BY <1>1, <1>3, <1>7 DEF BuilderFine
<1>8. ASSUME NEW m, Images(plan.bundles, m)
      PROVE  BuilderFine([b EXCEPT !.img = m]) /\ BuilderFine([b EXCEPT !.cache = m])
  BY <1>1, <1>2, <1>3, <1>8 DEF BuilderFine
<1> QED BY <1>4, <1>5, <1>6, <1>7, <1>8

(* What the build VPS keeps when the files of a run are removed.            *)
LEMMA RemovedFine == ASSUME ImageInv PROVE BuilderFine(Removed) /\ BuilderFine(Emptied)
<1> DEFINE saving == IF builder.saving = None THEN None ELSE Partial
           one == [builder EXCEPT !.tgz = None]
           two == [one EXCEPT !.bundle = None]
<1>1. BuilderFine(builder) /\ saving \in Files /\ Honest(plan.bundles, saving)
  BY FilesAre DEF ImageInv, BuilderOK
<1>2. BuilderFine(one)
  BY <1>1, FilesAre, BuilderPut
<1>3. BuilderFine(two)
  <2> HIDE DEF one
  <2> QED BY <1>2, BuilderPut
<1>4. BuilderFine([two EXCEPT !.saving = saving])
  <2> HIDE DEF two, saving
  <2> QED BY <1>1, <1>3, BuilderPut
<1>5. Removed = [two EXCEPT !.saving = saving]
  BY <1>1 DEF Removed, BuilderFine
<1>6. BuilderFine(Removed)
  BY <1>4, <1>5
<1> QED BY <1>6, BuilderPut DEF Emptied

LEMMA PushKeeps == ASSUME ImageInv, Push PROVE ImageInv'
<1>1. UNCHANGED <<plan, run, laptop, builder, target>> /\ head' = head + 1 /\ head < MaxCommit
  BY DEF Push
<1>2. head' \in Commit /\ \A c \in Commit : c <= head => c <= head'
  BY <1>1, MaxCommitAssumption DEF ImageInv, Commit
<1>3. LaptopOK' /\ BuilderOK' /\ TargetOK'
  BY <1>1, <1>2 DEF ImageInv, LaptopOK, BuilderOK, BuilderFine, TargetOK
<1>4. ASSUME NEW r \in Run PROVE CommandOK(r)'
  BY <1>1, <1>2 DEF ImageInv, CommandOK, Commands
<1> QED BY <1>1, <1>2, <1>3, <1>4 DEF ImageInv

(* A command that fails, or goes on, and touches no host.                   *)
LEMMA TurnKeeps ==
  ASSUME ImageInv, NEW r \in Run, UNCHANGED <<plan, head, laptop, builder, target>>,
         \/ \E pc \in Steps \ {"save"} : Go(r, pc)
         \/ Resolve(r) \/ Measure(r)
  PROVE  ImageInv'
<1>1. LaptopOK' /\ BuilderOK' /\ TargetOK'
  BY DEF ImageInv, LaptopOK, BuilderOK, BuilderFine, TargetOK
<1>2. /\ DOMAIN run' = Run
      /\ \A q \in Run : /\ run'[q] \in Commands /\ run'[q].sha <= head
                        /\ run'[q].pc = "save" => run[q].pc = "save" /\ run'[q].sha = run[q].sha
  <2>1. CASE \E pc \in Steps \ {"save"} : Go(r, pc)
    BY <2>1, GoesOn DEF ImageInv, CommandOK
  <2>2. CASE Resolve(r)
    <3>1. CASE Fail(r)
      BY <3>1, GoesOn DEF ImageInv, CommandOK, Fail, Steps
    <3>2. CASE ~ Fail(r)
      <4>1. PICK stays \in BOOLEAN, keeps \in BOOLEAN :
              run' = [run EXCEPT ![r] =
                 [pc |-> IF plan.bundles THEN "pack"
                         ELSE IF plan.host = "laptop" THEN "preflight" ELSE "dockerfile",
                  sha |-> BranchSha, sum |-> None, stays |-> stays, keeps |-> keeps]]
        BY <2>2, <3>2 DEF Resolve
      <4> DEFINE pc == IF plan.bundles THEN "pack"
                       ELSE IF plan.host = "laptop" THEN "preflight" ELSE "dockerfile"
      <4>2. pc \in Steps /\ pc # "save"
        BY DEF Steps
      <4> HIDE DEF pc
      <4>3. head \in Commit /\ head <= head /\ DOMAIN run = Run
        BY CommitsAre DEF ImageInv
      <4>4. run'[r] = [pc |-> pc, sha |-> head, sum |-> None, stays |-> stays, keeps |-> keeps]
        BY <4>1, <4>3 DEF BranchSha, pc
      <4>5. run'[r] \in Commands /\ run'[r].sha <= head /\ run'[r].pc # "save"
        BY <4>2, <4>3, <4>4, FilesAre DEF Commands
      <4> QED BY <4>1, <4>3, <4>5 DEF ImageInv, CommandOK
    <3> QED BY <3>1, <3>2
  <2>3. CASE Measure(r)
    <3>1. CASE Fail(r)
      BY <3>1, GoesOn DEF ImageInv, CommandOK, Fail, Steps
    <3>2. CASE ~ Fail(r)
      <4>1. run' = [run EXCEPT ![r].sum = builder.tgz, ![r].pc = Route(r)]
        BY <2>3, <3>2 DEF Measure
      <4>2. Route(r) \in Steps \ {"save"} /\ builder.tgz \in Files
        BY DEF Route, Steps, ImageInv, BuilderOK, BuilderFine, Honest
      <4> QED BY <4>1, <4>2 DEF ImageInv, CommandOK, Commands
    <3> QED BY <3>1, <3>2
  <2> QED BY <2>1, <2>2, <2>3
<1> QED BY <1>1, <1>2, CommandsKeep

LEMMA PreparesKeep ==
  ASSUME ImageInv, NEW r \in Run,
         Resolve(r) \/ PackFramework(r) \/ Preflight(r) \/ FetchDockerfile(r) \/ Measure(r) \/ Authorize(r)
  PROVE  ImageInv'
<1>1. UNCHANGED <<plan, head, laptop, builder, target>>
  BY DEF Resolve, PackFramework, Preflight, FetchDockerfile, Measure, Authorize
<1>2. \/ \E pc \in Steps \ {"save"} : Go(r, pc)
      \/ Resolve(r) \/ Measure(r)
  BY DEF PackFramework, Preflight, FetchDockerfile, Authorize, Fail, Steps
<1> QED BY <1>1, <1>2, TurnKeeps

(* Steps that work on the laptop or the build VPS without building.         *)
LEMMA PackKeeps == ASSUME ImageInv, NEW r \in Run, Pack(r) PROVE ImageInv'
<1>1. UNCHANGED <<plan, head, builder, target>>
  BY DEF Pack
<1>2. \E pc \in Steps \ {"save"} : Go(r, pc)
  BY DEF Pack, Fail, Steps
<1>3. PICK bundle \in Commit \cup {None} : laptop' = [laptop EXCEPT !.bundle = bundle]
  BY DEF Pack, ImageInv, LaptopOK
<1>4. LaptopOK' /\ BuilderOK' /\ TargetOK' /\ laptop'.img = laptop.img
  BY <1>1, <1>3 DEF ImageInv, LaptopOK, BuilderOK, BuilderFine, TargetOK
<1> QED BY <1>1, <1>2, <1>4, GoesOn, CommandsKeep DEF ImageInv, CommandOK

(* The hosts that a step leaves as they are.                                *)
LEMMA HostsStay ==
  ASSUME ImageInv, plan' = plan, head' = head
  PROVE  /\ laptop' = laptop => LaptopOK'
         /\ builder' = builder => BuilderOK'
         /\ target' = target => TargetOK'
  BY DEF ImageInv, LaptopOK, BuilderOK, BuilderFine, TargetOK

(* A step that takes a command to pc, or to its end, and loses no image.    *)
LEMMA StepKeeps ==
  ASSUME ImageInv, plan' = plan, head' = head, NEW r \in Run,
         \E pc \in Steps \ {"save"} : Go(r, pc),
         laptop'.img = laptop.img,
         LaptopOK', BuilderOK', TargetOK'
  PROVE  ImageInv'
  BY GoesOn, CommandsKeep DEF ImageInv, CommandOK

LEMMA BuilderIs ==
  ASSUME plan' = plan, head' = head, BuilderFine(builder')
  PROVE  BuilderOK'
  BY DEF BuilderOK, BuilderFine

LEMMA PrepareSiteKeeps == ASSUME ImageInv, NEW r \in Run, PrepareSite(r) PROVE ImageInv'
<1> DEFINE clean == [Removed EXCEPT !.dir = TRUE]
<1>1. UNCHANGED <<plan, head, laptop, target>>
  BY DEF PrepareSite
<1>2. \E pc \in Steps \ {"save"} : Go(r, pc)
  BY DEF PrepareSite, Fail, Steps
<1>3. \/ builder' \in {builder, clean}
      \/ builder' = [clean EXCEPT !.bundle = laptop.bundle]
  BY DEF PrepareSite
<1>4. BuilderFine(clean)
  BY RemovedFine, BuilderPut
<1>5. BuilderFine(builder')
  <2>1. laptop.bundle \in Commit \cup {None} /\ BuilderFine(builder)
    BY DEF ImageInv, LaptopOK, BuilderOK
  <2> HIDE DEF clean
  <2> QED BY <1>3, <1>4, <2>1, BuilderPut
<1> QED BY <1>1, <1>2, <1>5, BuilderIs, HostsStay, StepKeeps

LEMMA KnowsSha ==
  ASSUME ImageInv, NEW r \in Run
  PROVE  /\ run[r].sha \in Commit /\ run[r].sha <= head /\ head \in Commit
         /\ run[r].sum \in Files
         /\ Fits(FALSE, run[r].sha, head)
  BY CommitsAre DEF ImageInv, CommandOK, Commands, Fits

(* The laptop builds the branch as it is, which is not older than the tag.  *)
LEMMA LaptopBuilds ==
  ASSUME ImageInv, plan' = plan, head' = head, UNCHANGED <<builder, target>>,
         NEW c \in Commit, c <= head, plan.host = "laptop",
         NEW late \in SUBSET laptop.late,
         laptop' = [laptop EXCEPT !.late = late, !.img[c] = head]
  PROVE  /\ LaptopOK' /\ BuilderOK' /\ TargetOK'
         /\ laptop'.img[c] # None
         /\ \A k \in Commit : laptop.img[k] # None => laptop'.img[k] # None
<1>1. head \in Commit /\ ~ plan.bundles /\ laptop.img \in Map /\ Images(FALSE, laptop.img)
  BY WhereBuilt DEF ImageInv, LaptopOK
<1>2. Fits(FALSE, c, head) /\ head # None
  BY <1>1, CommitsAre, ValuesAssumption DEF Fits
<1>3. Images(FALSE, [laptop.img EXCEPT ![c] = head])
  BY <1>1, <1>2, ImagePut
<1>4. laptop' = [laptop EXCEPT !.late = late, !.img = [laptop.img EXCEPT ![c] = head]]
  BY DEF ImageInv, LaptopOK
<1>5. /\ laptop' = [img |-> [laptop.img EXCEPT ![c] = head], bundle |-> laptop.bundle,
                    tgz |-> laptop.tgz, late |-> late]
      /\ laptop.bundle \in Commit \cup {None} /\ laptop.tgz \in [Commit -> Files]
      /\ laptop.late \in SUBSET Commit
  BY <1>4 DEF ImageInv, LaptopOK
<1>6. laptop'.img = [laptop.img EXCEPT ![c] = head]
  BY <1>5
<1>7. LaptopOK'
  <2>1. /\ [laptop.img EXCEPT ![c] = head] \in Map /\ Archives(plan.bundles, laptop.tgz, Commit)
        /\ \A k \in laptop.late : k <= head
        /\ plan.bundles = FALSE
    BY <1>1, <1>3, WhereBuilt DEF ImageInv, LaptopOK, Images
  <2>2. \A k \in late : k <= head
    BY <2>1
  <2> QED BY <1>3, <1>5, <2>1, <2>2 DEF LaptopOK
<1> QED BY <1>1, <1>2, <1>6, <1>7, HostsStay DEF Map

LEMMA BuildHereKeeps == ASSUME ImageInv, NEW r \in Run, BuildHere(r) PROVE ImageInv'
<1>1. UNCHANGED <<plan, head, builder, target>> /\ plan.host = "laptop"
  BY DEF BuildHere
<1>2. CASE Go(r, "save") /\ laptop' = [laptop EXCEPT !.img[run[r].sha] = head]
  <2>1. laptop' = [laptop EXCEPT !.late = laptop.late, !.img[run[r].sha] = head]
    BY <1>2 DEF ImageInv, LaptopOK
  <2>2. /\ LaptopOK' /\ BuilderOK' /\ TargetOK'
        /\ laptop'.img[run[r].sha] # None
        /\ \A k \in Commit : laptop.img[k] # None => laptop'.img[k] # None
    BY <1>1, <2>1, KnowsSha, LaptopBuilds
  <2>3. \A q \in Run : /\ run'[q] \in Commands /\ run'[q].sha = run[q].sha /\ run'[q].sha <= head
                       /\ run'[q].pc = "save" => run[q].pc = "save" \/ q = r
    BY <1>2 DEF ImageInv, CommandOK, Commands, Steps, Go
  <2>4. DOMAIN run' = Run
    BY <1>2 DEF Go, ImageInv
  <2> QED BY <1>1, <2>2, <2>3, <2>4, CommandsKeep
<1>3. CASE Fail(r) /\ laptop' \in {laptop, [laptop EXCEPT !.late = @ \cup {run[r].sha}]}
  <2>1. LaptopOK' /\ laptop'.img = laptop.img
    <3>1. CASE laptop' = laptop
      BY <1>1, <3>1, HostsStay
    <3>2. CASE laptop' = [laptop EXCEPT !.late = @ \cup {run[r].sha}]
      <4>1. /\ laptop' = [img |-> laptop.img, bundle |-> laptop.bundle, tgz |-> laptop.tgz,
                          late |-> laptop.late \cup {run[r].sha}]
            /\ laptop.img \in Map /\ laptop.tgz \in [Commit -> Files]
            /\ laptop.bundle \in Commit \cup {None} /\ laptop.late \in SUBSET Commit
        BY <3>2 DEF ImageInv, LaptopOK
      <4>2. \A k \in laptop.late \cup {run[r].sha} : k \in Commit /\ k <= head
        BY KnowsSha DEF ImageInv, LaptopOK
      <4>3. Images(plan.bundles, laptop.img) /\ Archives(plan.bundles, laptop.tgz, Commit)
        BY DEF ImageInv, LaptopOK
      <4> QED BY <1>1, <4>1, <4>2, <4>3 DEF LaptopOK
    <3> QED BY <1>3, <3>1, <3>2
  <2>2. \E pc \in Steps \ {"save"} : Go(r, pc)
    BY <1>3 DEF Fail, Steps
  <2> QED BY <1>1, <2>1, <2>2, HostsStay, StepKeeps
<1> QED BY <1>2, <1>3 DEF BuildHere

LEMMA LateBuildKeeps == ASSUME ImageInv, LateBuild PROVE ImageInv'
<1> PICK c \in laptop.late : laptop' = [laptop EXCEPT !.late = @ \ {c}, !.img[c] = head]
  BY DEF LateBuild
<1>1. UNCHANGED <<plan, head, run, builder, target>>
  BY DEF LateBuild
<1>2. c \in Commit /\ c <= head /\ plan.host = "laptop"
  BY DEF ImageInv, LaptopOK
<1>3. /\ LaptopOK' /\ BuilderOK' /\ TargetOK'
      /\ \A k \in Commit : laptop.img[k] # None => laptop'.img[k] # None
  <2>1. laptop' = [laptop EXCEPT !.late = laptop.late \ {c}, !.img[c] = head]
    OBVIOUS
  <2> QED BY <1>1, <1>2, <2>1, LaptopBuilds
<1>4. DOMAIN run = Run /\ \A q \in Run : run[q] \in Commands /\ run[q].sha <= head
  BY DEF ImageInv, CommandOK
<1> QED BY <1>1, <1>3, <1>4, CommandsKeep

(* The build VPS compiles what the bundle has, what the layer of the clone  *)
(* had, or the branch as it is.                                             *)
LEMMA SourceFits ==
  ASSUME ImageInv, NEW sha \in Commit, sha <= head, Source(sha) # None, CommitMatches(sha)
  PROVE  Source(sha) \in Commit /\ Fits(plan.bundles, sha, Source(sha))
<1>1. CASE plan.bundles
  <2>1. Source(sha) = sha
    BY <1>1 DEF Source, CommitMatches
  <2> QED BY <1>1, <2>1 DEF Fits
<1>2. CASE ~ plan.bundles /\ builder.cache[sha] # None
  <2>1. Source(sha) = builder.cache[sha]
    BY <1>2 DEF Source, CacheKey
  <2> QED BY <1>2, <2>1 DEF ImageInv, BuilderOK, BuilderFine, Images, Map
<1>3. CASE ~ plan.bundles /\ builder.cache[sha] = None
  <2>1. Source(sha) = head
    BY <1>3 DEF Source, CacheKey
  <2> QED BY <1>3, <2>1, CommitsAre DEF ImageInv, Fits
<1> QED BY <1>1, <1>2, <1>3

(* What a build compiles goes to its image, and its clone to the cache.     *)
LEMMA CachedFine ==
  ASSUME ImageInv, NEW sha \in Commit, sha <= head, NEW b, BuilderFine(b),
         plan.bundles \/ (Source(sha) # None /\ CommitMatches(sha))
  PROVE  BuilderFine(Cached(b, sha))
<1>1. b.cache \in Map /\ Images(plan.bundles, b.cache)
  BY DEF BuilderFine
<1>2. CASE plan.bundles
  <2>1. Cached(b, sha) = [b EXCEPT !.cache = [b.cache EXCEPT ![sha] = b.cache[sha]]]
    BY <1>2 DEF Cached, CacheKey
  <2>2. [b.cache EXCEPT ![sha] = b.cache[sha]] = b.cache
    BY <1>1 DEF Map
  <2>3. BuilderFine([b EXCEPT !.cache = b.cache])
    BY <1>1, BuilderPut
  <2> QED BY <2>1, <2>2, <2>3
<1>3. CASE ~ plan.bundles
  <2>1. PICK v : v = Source(sha)
    OBVIOUS
  <2>2. v \in Commit /\ Fits(plan.bundles, sha, v)
    BY <1>3, <2>1, SourceFits
  <2>3. Cached(b, sha) = [b EXCEPT !.cache = [b.cache EXCEPT ![sha] = v]]
    BY <1>3, <2>1 DEF Cached, CacheKey
  <2>4. PICK m : m = [b.cache EXCEPT ![sha] = v]
    OBVIOUS
  <2>5. Images(plan.bundles, m)
    BY <1>1, <2>2, <2>4, ImagePut
  <2>6. BuilderFine([b EXCEPT !.cache = m])
    BY <2>5, BuilderPut
  <2> QED BY <2>3, <2>4, <2>6
<1> QED BY <1>2, <1>3

LEMMA ImgFine ==
  ASSUME NEW sha \in Commit, NEW b, BuilderFine(b), NEW v \in Commit, Fits(plan.bundles, sha, v)
  PROVE  BuilderFine([b EXCEPT !.img[sha] = v])
<1>1. b.img \in Map /\ Images(plan.bundles, b.img)
  BY DEF BuilderFine
<1>2. [b EXCEPT !.img[sha] = v] = [b EXCEPT !.img = [b.img EXCEPT ![sha] = v]]
  OBVIOUS
<1> QED BY <1>1, <1>2, ImagePut, BuilderPut

(* A build that is given up is left there.                                  *)
LEMMA LateFine ==
  ASSUME NEW sha \in Commit, sha <= head, plan.host = "builder", NEW b, BuilderFine(b)
  PROVE  BuilderFine([b EXCEPT !.late = @ \cup {sha}])
<1>1. b.late \cup {sha} \in SUBSET Commit /\ \A c \in b.late \cup {sha} : c <= head /\ plan.host = "builder"
  BY DEF BuilderFine
<1>2. [b EXCEPT !.late = @ \cup {sha}] = [b EXCEPT !.late = b.late \cup {sha}]
  OBVIOUS
<1> QED BY <1>1, <1>2, BuilderPut

(* A step on the build VPS, wherever it takes the command.                  *)
LEMMA ThereKeeps ==
  ASSUME ImageInv, NEW r \in Run, NEW pc \in Steps, Go(r, pc), plan.host = "builder",
         UNCHANGED <<plan, head, laptop, target>>, BuilderFine(builder')
  PROVE  ImageInv'
<1>1. LaptopOK' /\ BuilderOK' /\ TargetOK'
  BY BuilderIs, HostsStay
<1>2. /\ DOMAIN run' = Run
      /\ \A q \in Run : run'[q] \in Commands /\ run'[q].sha = run[q].sha /\ run'[q].sha <= head
  BY DEF ImageInv, CommandOK, Commands, Go
<1> QED BY <1>1, <1>2, CommandsKeep

LEMMA BuildThereKeeps == ASSUME ImageInv, NEW r \in Run, BuildThere(r) PROVE ImageInv'
<1> DEFINE sha == run[r].sha
           can == builder.dir /\ Source(sha) # None /\ CommitMatches(sha)
<1>1. UNCHANGED <<plan, head, laptop, target>> /\ plan.host = "builder" /\ BuilderFine(builder)
  BY DEF BuildThere, ImageInv, BuilderOK
<1>2. sha \in Commit /\ sha <= head
  BY KnowsSha
<1>3. \E pc \in {"save", "err"} : Go(r, pc)
  BY DEF BuildThere, Fail
<1>4. ASSUME can PROVE BuilderFine(Built(sha)) /\ BuilderFine(Cached(builder, sha))
  <2>1. PICK v : v = Source(sha)
    OBVIOUS
  <2>2. v \in Commit /\ Fits(plan.bundles, sha, v)
    BY <1>2, <1>4, <2>1, SourceFits
  <2> DEFINE b == [builder EXCEPT !.img[sha] = v]
  <2>3. BuilderFine(b) /\ Built(sha) = Cached(b, sha)
    BY <1>1, <1>2, <2>1, <2>2, ImgFine DEF Built
  <2> HIDE DEF b
  <2> QED BY <1>1, <1>2, <1>4, <2>3, CachedFine
<1>5. BuilderFine(builder')
  <2>1. CASE builder' = builder \/ (can /\ builder' = Built(sha))
    BY <1>1, <1>4, <2>1
  <2>2. CASE can /\ \E b \in {builder, Cached(builder, sha)} : builder' = [b EXCEPT !.late = @ \cup {sha}]
    BY <1>1, <1>2, <1>4, <2>2, LateFine
  <2> QED BY <2>1, <2>2 DEF BuildThere
<1> QED BY <1>1, <1>3, <1>5, ThereKeeps DEF Steps

(* A build that was left ends, or a later command takes its end for that of *)
(* its own.                                                                 *)
LEMMA LateBuildThereKeeps == ASSUME ImageInv, LateBuildThere PROVE ImageInv'
<1> PICK c \in builder.late :
      LET ended == [builder EXCEPT !.late = @ \ {c}]
          built == Cached([ended EXCEPT !.img[c] = LateSource(c)], c)
      IN /\ \/ run' = run /\ builder' \in {ended, built}
            \/ \E r \in Run :
                 /\ At(r, "build") /\ builder.dir /\ CommitMatches(run[r].sha)
                 /\ Go(r, "save")
                 /\ builder' = [built EXCEPT !.late = @ \cup {run[r].sha}]
         /\ UNCHANGED <<plan, head, laptop, target>>
  BY DEF LateBuildThere
<1> DEFINE ended == [builder EXCEPT !.late = @ \ {c}]
           built == Cached([ended EXCEPT !.img[c] = LateSource(c)], c)
<1>1. UNCHANGED <<plan, head, laptop, target>> /\ BuilderFine(builder) /\ head \in Commit
  BY DEF ImageInv, BuilderOK
<1>2. c \in Commit /\ c <= head /\ plan.host = "builder" /\ BuilderFine(ended)
  <2>1. c \in Commit /\ c <= head /\ builder.late \ {c} \in SUBSET Commit
        /\ plan.host = "builder" /\ \A k \in builder.late \ {c} : k <= head
    BY <1>1 DEF BuilderFine
  <2>2. ended = [builder EXCEPT !.late = builder.late \ {c}]
    OBVIOUS
  <2> QED BY <1>1, <2>1, <2>2, BuilderPut
<1>3. BuilderFine(built)
  <2>1. PICK v : v = LateSource(c)
    OBVIOUS
  <2>2. v \in Commit /\ Fits(plan.bundles, c, v) /\ (plan.bundles \/ (Source(c) # None /\ CommitMatches(c)))
    <3>1. CASE plan.bundles
      BY <1>2, <2>1, <3>1 DEF LateSource, Fits
    <3>2. CASE ~ plan.bundles
      <4>1. Source(c) # None /\ CommitMatches(c) /\ v = Source(c)
        BY <1>1, <2>1, <3>2, ValuesAssumption DEF LateSource, Source, CommitMatches
      <4> QED BY <1>2, <4>1, SourceFits
    <3> QED BY <3>1, <3>2
  <2> DEFINE b == [ended EXCEPT !.img[c] = v]
  <2>3. BuilderFine(b)
    <3> HIDE DEF ended
    <3> QED BY <1>2, <2>2, ImgFine
  <2>4. built = Cached(b, c)
    BY <2>1
  <2> HIDE DEF b, built
  <2> QED BY <1>2, <2>2, <2>3, <2>4, CachedFine
<1>4. CASE run' = run /\ builder' \in {ended, built}
  <2>1. LaptopOK' /\ BuilderOK' /\ TargetOK'
    BY <1>1, <1>2, <1>3, <1>4, BuilderIs, HostsStay
  <2>2. DOMAIN run = Run /\ \A q \in Run : run[q] \in Commands /\ run[q].sha <= head
    BY DEF ImageInv, CommandOK
  <2> QED BY <1>1, <1>4, <2>1, <2>2, CommandsKeep
<1>5. ASSUME NEW r \in Run, At(r, "build"), Go(r, "save"), builder' = [built EXCEPT !.late = @ \cup {run[r].sha}]
      PROVE  ImageInv'
  <2>1. BuilderFine(builder')
    <3> HIDE DEF built
    <3> QED BY <1>2, <1>3, <1>5, KnowsSha, LateFine
  <2> QED BY <1>1, <1>2, <1>5, <2>1, ThereKeeps DEF Steps
<1> QED BY <1>4, <1>5

(* What a command saves is the image it built.                              *)
LEMMA SaveKeeps == ASSUME ImageInv, NEW r \in Run, SaveHere(r) \/ SaveThere(r) PROVE ImageInv'
<1> DEFINE sha == run[r].sha
<1>1. \E pc \in Steps \ {"save"} : Go(r, pc)
  BY DEF SaveHere, SaveThere, Fail, Steps
<1>2. sha \in Commit /\ At(r, "save")
  BY KnowsSha DEF SaveHere, SaveThere
<1>3. ASSUME NEW m, Images(plan.bundles, m), m[sha] # None
      PROVE  Honest(plan.bundles, File(m, sha)) /\ File(m, sha) \in Files
  BY <1>2, <1>3, FilesAre DEF Images, Map, File, Honest
<1>4. CASE SaveHere(r)
  <2>1. UNCHANGED <<plan, head, builder, target>> /\ plan.host = "laptop" /\ Images(plan.bundles, laptop.img)
    BY <1>4 DEF SaveHere, ImageInv, LaptopOK
  <2>2. laptop.img[sha] # None
    BY <1>2, <2>1 DEF ImageInv, CommandOK, At
  <2>3. PICK f : Honest(plan.bundles, f) /\ f \in Files /\ laptop' \in {laptop, [laptop EXCEPT !.tgz[sha] = f]}
    <3>1. laptop' \in {laptop, [laptop EXCEPT !.tgz[sha] = Partial],
                       [laptop EXCEPT !.tgz[sha] = File(laptop.img, sha)]}
      BY <1>4 DEF SaveHere
    <3> QED BY <3>1, <1>3, <2>1, <2>2, FilesAre
  <2>4. Archives(plan.bundles, [laptop.tgz EXCEPT ![sha] = f], Commit)
    BY <1>2, <2>3, FilePut DEF ImageInv, LaptopOK
  <2>5. LaptopOK' /\ laptop'.img = laptop.img
    BY <1>2, <2>1, <2>3, <2>4 DEF ImageInv, LaptopOK, Archives
  <2> QED BY <1>1, <2>1, <2>5, HostsStay, StepKeeps
<1>5. CASE SaveThere(r)
  <2>1. UNCHANGED <<plan, head, laptop, target>> /\ BuilderFine(builder)
    BY <1>5 DEF SaveThere, ImageInv, BuilderOK
  <2>2. CASE builder.img[sha] # None
    <3>1. PICK f : f = File(builder.img, sha) /\ f \in Files /\ Honest(plan.bundles, f)
      BY <1>3, <2>1, <2>2 DEF BuilderFine
    <3>2. \E t \in {f, Partial, builder.tgz}, g \in {f, None, builder.saving} :
             builder' = [builder EXCEPT !.tgz = t, !.saving = g]
      <4>1. builder = [builder EXCEPT !.tgz = builder.tgz, !.saving = builder.saving]
            /\ [builder EXCEPT !.tgz = f] = [builder EXCEPT !.tgz = f, !.saving = builder.saving]
        BY <2>1 DEF BuilderFine
      <4> DEFINE Some == \E t \in {f, Partial, builder.tgz}, g \in {f, None, builder.saving} :
                            builder' = [builder EXCEPT !.tgz = t, !.saving = g]
      <4>2. CASE builder' = builder
        BY <4>1, <4>2
      <4>3. CASE builder' = [builder EXCEPT !.tgz = f]
        BY <4>1, <4>3
      <4>4. CASE builder' = [builder EXCEPT !.tgz = Partial, !.saving = builder.saving]
        BY <4>4
      <4>5. CASE builder' = [builder EXCEPT !.tgz = Partial, !.saving = None]
        BY <4>5
      <4>6. CASE builder' = [[builder EXCEPT !.tgz = Partial, !.saving = builder.saving] EXCEPT !.saving = f]
        <5>1. builder' = [builder EXCEPT !.tgz = Partial, !.saving = f]
          BY <2>1, <4>6 DEF BuilderFine
        <5> QED BY <5>1
      <4>7. CASE builder.saving \in Tgz
        BY <1>5, <4>2, <4>5, <4>7 DEF SaveThere
      <4>8. CASE builder.saving \notin Tgz
        BY <1>5, <3>1, <4>2, <4>3, <4>4, <4>6, <4>8 DEF SaveThere
      <4> QED BY <4>7, <4>8
    <3>3. PICK t \in {f, Partial, builder.tgz}, g \in {f, None, builder.saving} :
             builder' = [builder EXCEPT !.tgz = t, !.saving = g]
      BY <3>2
    <3>4. t \in Files /\ Honest(plan.bundles, t) /\ g \in Files /\ Honest(plan.bundles, g)
      BY <2>1, <3>1, FilesAre DEF BuilderFine
    <3> DEFINE half == [builder EXCEPT !.tgz = t]
    <3>5. BuilderFine(half)
      BY <2>1, <3>4, BuilderPut
    <3>6. BuilderFine([half EXCEPT !.saving = g])
      <4> HIDE DEF half
      <4> QED BY <3>4, <3>5, BuilderPut
    <3>7. BuilderFine(builder')
      BY <3>3, <3>6
    <3> QED BY <1>1, <2>1, <3>7, BuilderIs, HostsStay, StepKeeps
  <2>3. CASE builder.img[sha] = None
    <3>1. \E t \in {Partial, builder.tgz}, g \in {None, builder.saving} :
             builder' = [builder EXCEPT !.tgz = t, !.saving = g]
      <4>1. builder = [builder EXCEPT !.tgz = builder.tgz, !.saving = builder.saving]
        BY <2>1 DEF BuilderFine
      <4> QED BY <1>5, <2>3, <4>1 DEF SaveThere
    <3>2. PICK t \in {Partial, builder.tgz}, g \in {None, builder.saving} :
             builder' = [builder EXCEPT !.tgz = t, !.saving = g]
      BY <3>1
    <3>3. t \in Files /\ Honest(plan.bundles, t) /\ g \in Files /\ Honest(plan.bundles, g)
      BY <2>1, FilesAre DEF BuilderFine
    <3> DEFINE half == [builder EXCEPT !.tgz = t]
    <3>4. BuilderFine(half)
      BY <2>1, <3>3, BuilderPut
    <3>5. BuilderFine([half EXCEPT !.saving = g])
      <4> HIDE DEF half
      <4> QED BY <3>3, <3>4, BuilderPut
    <3>6. BuilderFine(builder')
      BY <3>2, <3>5
    <3> QED BY <1>1, <2>1, <3>6, BuilderIs, HostsStay, StepKeeps
  <2> QED BY <2>2, <2>3
<1> QED BY <1>4, <1>5

(* A save that was left ends, with its file in place or without it.         *)
LEMMA LateSaveKeeps == ASSUME ImageInv, LateSave PROVE ImageInv'
<1>1. UNCHANGED <<plan, head, run, laptop, target>> /\ BuilderFine(builder)
  BY DEF LateSave, ImageInv, BuilderOK
<1> DEFINE over == [builder EXCEPT !.saving = None]
<1>2. BuilderFine(over) /\ builder.saving \in Files /\ Honest(plan.bundles, builder.saving)
  BY <1>1, FilesAre, BuilderPut DEF BuilderFine
<1>3. builder' = over \/ builder' = [over EXCEPT !.tgz = builder.saving]
  BY DEF LateSave
<1>4. BuilderFine(builder')
  <2> HIDE DEF over
  <2>1. BuilderFine([over EXCEPT !.tgz = builder.saving])
    BY <1>2, BuilderPut
  <2> QED BY <1>2, <1>3, <2>1
<1>5. LaptopOK' /\ BuilderOK' /\ TargetOK'
  BY <1>1, <1>4, BuilderIs, HostsStay
<1>6. DOMAIN run = Run /\ \A q \in Run : run[q] \in Commands /\ run[q].sha <= head
  BY DEF ImageInv, CommandOK
<1> QED BY <1>1, <1>5, <1>6, CommandsKeep

(* The build VPS cleaned.                                                   *)
LEMMA EmptiedOK ==
  ASSUME ImageInv, plan' = plan, head' = head, builder' \in {builder, Emptied}
  PROVE  BuilderOK'
<1>1. BuilderFine(builder')
  BY RemovedFine DEF ImageInv, BuilderOK
<1> QED BY <1>1, BuilderIs

LEMMA RelayKeeps == ASSUME ImageInv, NEW r \in Run, Relay(r) PROVE ImageInv'
<1> DEFINE sum == run[r].sum
<1>1. UNCHANGED <<plan, head, laptop>> /\ builder' \in {builder, Emptied}
  BY DEF Relay
<1>2. \E pc \in Steps \ {"save"} : Go(r, pc)
  BY DEF Relay, Fail, Steps
<1>3. PICK f : Honest(plan.bundles, f) /\ f \in Files /\ target' \in {target, [target EXCEPT !.relay[sum] = f]}
  <2>1. target' \in {target, [target EXCEPT !.relay[sum] = Partial]}
        \/ (builder.tgz = sum /\ target' = [target EXCEPT !.relay[sum] = sum])
    BY DEF Relay
  <2>2. builder.tgz \in Files /\ Honest(plan.bundles, builder.tgz)
    BY DEF ImageInv, BuilderOK, BuilderFine
  <2> QED BY <2>1, <2>2, FilesAre
<1>4. Archives(plan.bundles, [target.relay EXCEPT ![sum] = f], Files)
  BY <1>3, KnowsSha, FilePut DEF ImageInv, TargetOK
<1>5. TargetOK'
  BY <1>1, <1>3, <1>4, KnowsSha DEF ImageInv, TargetOK, Archives
<1> QED BY <1>1, <1>2, <1>5, EmptiedOK, HostsStay, StepKeeps

LEMMA DownloadKeeps == ASSUME ImageInv, NEW r \in Run, Download(r) PROVE ImageInv'
<1> DEFINE sha == run[r].sha
<1>1. /\ UNCHANGED <<plan, head, target>> /\ builder' \in {builder, Emptied}
      /\ laptop' \in {laptop, [laptop EXCEPT !.tgz[sha] = builder.tgz]}
  BY DEF Download
<1>2. \E pc \in Steps \ {"save"} : Go(r, pc)
  BY DEF Download, Fail, Steps
<1>3. builder.tgz \in Files /\ Honest(plan.bundles, builder.tgz) /\ sha \in Commit
  BY KnowsSha DEF ImageInv, BuilderOK, BuilderFine
<1>4. Archives(plan.bundles, [laptop.tgz EXCEPT ![sha] = builder.tgz], Commit)
  BY <1>3, FilePut DEF ImageInv, LaptopOK
<1>5. LaptopOK' /\ laptop'.img = laptop.img
  BY <1>1, <1>3, <1>4 DEF ImageInv, LaptopOK, Archives
<1> QED BY <1>1, <1>2, <1>5, EmptiedOK, HostsStay, StepKeeps

LEMMA UploadKeeps == ASSUME ImageInv, NEW r \in Run, Upload(r) PROVE ImageInv'
<1> DEFINE sha == run[r].sha
<1>1. UNCHANGED <<plan, head, laptop, builder>>
  BY DEF Upload
<1>2. \E pc \in Steps \ {"save"} : Go(r, pc)
  BY DEF Upload, Fail, Steps
<1>3. sha \in Commit
  BY KnowsSha
<1>4. PICK f : Honest(plan.bundles, f) /\ f \in Files /\ target' \in {target, [target EXCEPT !.upload[sha] = f]}
  <2>1. target' \in {target, [target EXCEPT !.upload[sha] = Partial],
                     [target EXCEPT !.upload[sha] = laptop.tgz[sha]]}
    BY DEF Upload
  <2>2. laptop.tgz[sha] \in Files /\ Honest(plan.bundles, laptop.tgz[sha])
    BY <1>3 DEF ImageInv, LaptopOK, Archives
  <2> QED BY <2>1, <2>2, FilesAre
<1>5. Archives(plan.bundles, [target.upload EXCEPT ![sha] = f], Commit)
  BY <1>3, <1>4, FilePut DEF ImageInv, TargetOK
<1>6. TargetOK'
  BY <1>1, <1>3, <1>4, <1>5 DEF ImageInv, TargetOK, Archives
<1> QED BY <1>1, <1>2, <1>6, HostsStay, StepKeeps

LEMMA LoadKeeps == ASSUME ImageInv, NEW r \in Run, Load(r) PROVE ImageInv'
<1> DEFINE sha == run[r].sha
           sum == run[r].sum
<1>1. /\ UNCHANGED <<plan, head, builder>>
      /\ laptop' \in {laptop, [laptop EXCEPT !.tgz[sha] = None]}
  BY DEF Load
<1>2. \E pc \in Steps \ {"save"} : Go(r, pc)
  BY DEF Load, Fail, Steps
<1>3. sha \in Commit /\ sum \in Files
  BY KnowsSha
<1>4. LaptopOK' /\ laptop'.img = laptop.img
  <2>1. Archives(plan.bundles, [laptop.tgz EXCEPT ![sha] = None], Commit)
    BY <1>3, FilePut, FilesAre DEF ImageInv, LaptopOK
  <2> QED BY <1>1, <1>3, <2>1, FilesAre DEF ImageInv, LaptopOK, Archives
<1>5. ASSUME NEW t, t \in {target, WithoutFile(r)}
      PROVE  /\ t \in [img : Map, upload : [Commit -> Files], relay : [Files -> Files]]
             /\ t.img = target.img
             /\ Archives(plan.bundles, t.upload, Commit) /\ Archives(plan.bundles, t.relay, Files)
  <2>1. Archives(plan.bundles, [target.relay EXCEPT ![sum] = None], Files)
    BY <1>3, FilePut, FilesAre DEF ImageInv, TargetOK
  <2>2. Archives(plan.bundles, [target.upload EXCEPT ![sha] = None], Commit)
    BY <1>3, FilePut, FilesAre DEF ImageInv, TargetOK
  <2>3. t \in {target, [target EXCEPT !.relay[sum] = None], [target EXCEPT !.upload[sha] = None]}
    BY <1>5 DEF WithoutFile
  <2> QED BY <1>3, <2>1, <2>2, <2>3 DEF ImageInv, TargetOK, Archives
<1>6. ASSUME Loadable(r) PROVE Images(plan.bundles, LoadedImages(r))
  <2>1. Honest(plan.bundles, Arrived(r)) /\ Arrived(r) \in Tgz
    BY <1>3, <1>6 DEF Arrived, Loadable, ImageInv, TargetOK, Archives
  <2>2. /\ Arrived(r).tag \in Commit /\ Arrived(r).content \in Commit
        /\ Fits(plan.bundles, Arrived(r).tag, Arrived(r).content)
    BY <2>1 DEF Tgz, Honest
  <2> QED BY <2>2, ImagePut DEF LoadedImages, ImageInv, TargetOK
<1>7. \E t \in {target, WithoutFile(r)} :
        target' = t \/ (Loadable(r) /\ target' = [t EXCEPT !.img = LoadedImages(r)])
  BY DEF Load, Loaded
<1>8. TargetOK'
  BY <1>1, <1>5, <1>6, <1>7 DEF ImageInv, TargetOK, Images
<1> QED BY <1>1, <1>2, <1>4, <1>8, HostsStay, StepKeeps

LEMMA ImageStepInv == ImageInv /\ [Next]_vars => ImageInv'
<1> SUFFICES ASSUME ImageInv, [Next]_vars PROVE ImageInv'
  OBVIOUS
<1>1. CASE UNCHANGED vars
  BY <1>1, HostsStay DEF vars, ImageInv, CommandOK
<1>2. CASE Push \/ LateBuild \/ LateBuildThere \/ LateSave
  BY <1>2, PushKeeps, LateBuildKeeps, LateBuildThereKeeps, LateSaveKeeps
<1>3. ASSUME NEW r \in Run, Step(r) PROVE ImageInv'
  BY <1>3, PreparesKeep, PackKeeps, PrepareSiteKeeps, BuildHereKeeps, BuildThereKeeps, SaveKeeps,
     RelayKeeps, DownloadKeeps, UploadKeeps, LoadKeeps
     DEF Step, Prepares, StepHere, StepThere, Ships
<1> QED BY <1>1, <1>2, <1>3 DEF Next

LEMMA ImageSpecInv == Spec => []ImageInv
<1> QED BY ImageInitInv, ImageStepInv, PTL DEF Spec

(* For any commands and commits: an image on the host of a site has the      *)
(* commit that its tag names.                                               *)
THEOREM ImageTagNamesCommit == Spec => []TagNamesCommit
<1>1. ImageInv => TagNamesCommit
  BY WhereBuilt DEF ImageInv, TargetOK, Images, TagNamesCommit, Names, Fits
<1> QED BY <1>1, ImageSpecInv, PTL

-----------------------------------------------------------------------------
(* The theme inside its container.                                          *)
ThemeSteps == {"idle", "ok", "err", "record", "tools", "inspect", "locks", "pull", "pull_lib",
               "composer", "react", "migrate", "configure", "health", "revert", "stop", "start",
               "settle", "clone", "packages"}

ThemeTypeOK ==
  /\ remote \in [theme : Nat, lib : Nat]
  /\ site \in [repo : {"none", "ok", "broken"}, src : Nat, lib : Nat, vendor : Nat, modules : Nat,
               dist : Nat, node : BOOLEAN, conf : BOOLEAN, up : BOOLEAN]
  /\ cmd \in [pc : ThemeSteps, update : BOOLEAN, react : BOOLEAN, prev : Nat, prevLib : Nat,
              before : [Theme!Packages -> Nat]]
  /\ lapse \subseteq Theme!Packages

(* The packages p are those of the sources in place.                        *)
Follows(p) == site.repo = "ok" /\ p \notin lapse => site[p] \in {0, Theme!Lock(site.src)}

(* While the sources are ahead of them, the sum that was read before the    *)
(* pull is that of the packages in place.                                   *)
Compared(p) ==
  site.repo = "ok" /\ p \notin lapse => site[p] = 0 \/ cmd.before[p] = 0 \/ site[p] = cmd.before[p]

(* The steps at which the sources may be ahead of the packages p.           *)
Ahead(p) ==
  {"pull_lib", "composer"} \cup (IF p = "modules" THEN {"react"} ELSE {})

ThemeInv ==
  /\ ThemeTypeOK
  /\ \A p \in Theme!Packages :
       /\ cmd.pc \notin Ahead(p) \cup {"packages", "revert"} => Follows(p)
       /\ cmd.pc \in Ahead(p) \cup {"pull"} => Compared(p)
  /\ cmd.pc = "packages" => Theme!Packages \subseteq lapse
  /\ cmd.pc \in {"record", "inspect", "locks", "pull", "pull_lib", "composer", "react"} => cmd.update

LEMMA LockIsNatural == \A c \in Nat : Theme!Lock(c) \in Nat
  BY DEF Theme!Lock

LEMMA ThemeInitInv == Theme!Init => ThemeInv
<1> SUFFICES ASSUME Theme!Init PROVE ThemeInv
  OBVIOUS
<1>0. remote = [theme |-> 1, lib |-> 1] /\ cmd = Theme!Idle /\ lapse = {}
  BY DEF Theme!Init
<1>1. /\ site \in [repo : {"none", "ok", "broken"}, src : Nat, lib : Nat, vendor : Nat, modules : Nat,
                   dist : Nat, node : BOOLEAN, conf : BOOLEAN, up : BOOLEAN]
      /\ site.repo = "ok" => site.vendor = Theme!Lock(1) /\ site.modules = Theme!Lock(1) /\ site.src = 1
  <2>1. CASE site \in {[Theme!Absent EXCEPT !.node = n] : n \in BOOLEAN}
    <3>1. Theme!Absent \in [repo : {"none", "ok", "broken"}, src : Nat, lib : Nat, vendor : Nat,
                      modules : Nat, dist : Nat, node : BOOLEAN, conf : BOOLEAN, up : BOOLEAN]
          /\ Theme!Absent.repo = "none"
      BY DEF Theme!Absent
    <3>2. /\ site.repo = "none"
          /\ site \in [repo : {"none", "ok", "broken"}, src : Nat, lib : Nat, vendor : Nat,
                       modules : Nat, dist : Nat, node : BOOLEAN, conf : BOOLEAN, up : BOOLEAN]
      BY <2>1, <3>1
    <3>3. site.repo # "ok"
      BY <3>2
    <3> QED BY <3>2, <3>3
  <2>2. CASE site = [repo |-> "ok", src |-> 1, lib |-> 1, vendor |-> Theme!Lock(1), modules |-> Theme!Lock(1),
                     dist |-> 1, node |-> TRUE, conf |-> TRUE, up |-> TRUE]
    BY <2>2, LockIsNatural DEF Theme!Init
  <2> QED BY <2>1, <2>2 DEF Theme!Init
<1>2. ThemeTypeOK
  BY <1>0, <1>1 DEF ThemeTypeOK, Theme!Idle, ThemeSteps, Theme!NoLocks
<1>3. \A p \in Theme!Packages : Follows(p)
  BY <1>1 DEF Follows, Theme!Packages
<1> QED BY <1>0, <1>2, <1>3 DEF ThemeInv, Theme!Idle, Ahead

(* A step of a command that touches neither the sources nor the packages.   *)
LEMMA ControlKeeps ==
  ASSUME ThemeInv, Theme!Push \/ Theme!Recreate \/ (\E u \in BOOLEAN, r \in BOOLEAN : Theme!Start(u, r)) \/ Theme!StartRedeploy
  PROVE  ThemeInv'
<1>1. CASE Theme!Push
  <2>1. /\ UNCHANGED <<site, registered, cmd, lapse, deploys>>
        /\ remote' \in [theme : Nat, lib : Nat]
    BY <1>1 DEF Theme!Push, ThemeInv, ThemeTypeOK
  <2> QED BY <2>1 DEF ThemeInv, ThemeTypeOK, Follows, Compared
<1>2. CASE Theme!Recreate
  <2>1. cmd' = Theme!Idle /\ UNCHANGED <<remote, lapse>> /\ cmd.pc \in Theme!Ended
    BY <1>2 DEF Theme!Recreate
  <2>2. /\ site' \in [repo : {"none", "ok", "broken"}, src : Nat, lib : Nat, vendor : Nat, modules : Nat,
                      dist : Nat, node : BOOLEAN, conf : BOOLEAN, up : BOOLEAN]
        /\ site'.repo = "ok" =>
             /\ site.repo = "ok" /\ site'.src = site.src
             /\ site'.vendor \in {0, site.vendor} /\ site'.modules \in {0, site.modules}
    <3>1. CASE site' = Theme!Absent
      BY <3>1 DEF Theme!Absent
    <3>2. CASE site.repo = "ok" /\ site' = [site EXCEPT !.repo = "broken"]
      BY <3>2 DEF ThemeInv, ThemeTypeOK
    <3>3. CASE \E v \in {0, site.vendor}, n \in {0, site.modules} :
                 site' = [site EXCEPT !.node = FALSE, !.conf = FALSE, !.vendor = v, !.modules = n,
                                      !.up = TRUE]
      <4> PICK v \in {0, site.vendor}, n \in {0, site.modules} :
                 site' = [site EXCEPT !.node = FALSE, !.conf = FALSE, !.vendor = v, !.modules = n,
                                      !.up = TRUE]
        BY <3>3
      <4>1. v \in Nat /\ n \in Nat
        BY DEF ThemeInv, ThemeTypeOK
      <4>2. site' = [repo |-> site.repo, src |-> site.src, lib |-> site.lib, vendor |-> v, modules |-> n,
                     dist |-> site.dist, node |-> FALSE, conf |-> FALSE, up |-> TRUE]
        BY DEF ThemeInv, ThemeTypeOK
      <4> QED BY <4>1, <4>2 DEF ThemeInv, ThemeTypeOK
    <3> QED BY <1>2, <3>1, <3>2, <3>3 DEF Theme!Recreate, Theme!Recreated
  <2>3. ThemeTypeOK'
    BY <2>1, <2>2 DEF ThemeInv, ThemeTypeOK, Theme!Idle, ThemeSteps, Theme!NoLocks
  <2>4. \A p \in Theme!Packages : Follows(p)
    BY <2>1 DEF ThemeInv, Ahead, Theme!Ended
  <2>5. \A p \in Theme!Packages : Follows(p)'
    BY <2>1, <2>2, <2>4 DEF Follows, Theme!Packages
  <2> QED BY <2>1, <2>3, <2>5 DEF ThemeInv, Theme!Idle, Ahead
<1>3. CASE (\E u \in BOOLEAN, r \in BOOLEAN : Theme!Start(u, r)) \/ Theme!StartRedeploy
  <2> DEFINE Given(pc, u, r) == [pc |-> pc, update |-> u, react |-> r, prev |-> 0, prevLib |-> 0,
                                 before |-> Theme!NoLocks]
  <2>1. UNCHANGED <<remote, site, lapse>> /\ cmd.pc \in Theme!Ended
    BY <1>3 DEF Theme!Start, Theme!StartRedeploy
  <2> PICK pc \in {"err", "record", "tools", "stop"}, u \in BOOLEAN, r \in BOOLEAN :
             cmd' = Given(pc, u, r) /\ (pc = "record" => u)
    <3>1. CASE Theme!StartRedeploy
      <4>1. cmd' = Given("stop", FALSE, TRUE)
        BY <3>1 DEF Theme!StartRedeploy, Theme!Idle
      <4> QED BY <4>1
    <3>2. ASSUME NEW u \in BOOLEAN, NEW r \in BOOLEAN, Theme!Start(u, r)
          PROVE  \E pc \in {"err", "record", "tools", "stop"} : cmd' = Given(pc, u, r) /\ (pc = "record" => u)
      <4> PICK pc \in {"err"} \cup (IF site.up THEN {IF u THEN "record" ELSE "tools"} ELSE {}) :
                 cmd' = [Theme!Idle EXCEPT !.pc = pc, !.update = u, !.react = r]
        BY <3>2 DEF Theme!Start
      <4>1. cmd' = Given(pc, u, r)
        BY DEF Theme!Idle
      <4>2. pc \in {"err", "record", "tools"} /\ (pc = "record" => u)
        OBVIOUS
      <4> QED BY <4>1, <4>2
    <3> QED BY <1>3, <3>1, <3>2
  <2>2. ThemeTypeOK' /\ cmd'.pc = pc /\ cmd'.update = u
    BY <2>1 DEF ThemeInv, ThemeTypeOK, ThemeSteps, Theme!NoLocks
  <2>3. \A p \in Theme!Packages : Follows(p)
    BY <2>1 DEF ThemeInv, Ahead, Theme!Ended
  <2>4. \A p \in Theme!Packages : Follows(p)'
    BY <2>1, <2>3 DEF Follows
  <2> QED BY <2>2, <2>4 DEF ThemeInv, Ahead
<1> QED BY <1>1, <1>2, <1>3

(* Where a step goes, and whether it forgets the sums.                      *)
Goes(pc) == cmd' = [cmd EXCEPT !.pc = pc] \/ cmd' = [cmd EXCEPT !.pc = pc, !.before = Theme!NoLocks]

LEMMA CommandGoes ==
  ASSUME ThemeTypeOK, NEW pc \in ThemeSteps, Goes(pc)
  PROVE  /\ cmd' \in [pc : ThemeSteps, update : BOOLEAN, react : BOOLEAN, prev : Nat, prevLib : Nat,
                      before : [Theme!Packages -> Nat]]
         /\ cmd'.pc = pc /\ cmd'.update = cmd.update
         /\ \A p \in Theme!Packages : cmd'.before[p] \in {0, cmd.before[p]}
<1>1. CASE cmd' = [cmd EXCEPT !.pc = pc]
  BY <1>1 DEF ThemeTypeOK
<1>2. CASE cmd' = [cmd EXCEPT !.pc = pc, !.before = Theme!NoLocks]
  <2>1. cmd' = [pc |-> pc, update |-> cmd.update, react |-> cmd.react, prev |-> cmd.prev,
                prevLib |-> cmd.prevLib, before |-> Theme!NoLocks]
    BY <1>2 DEF ThemeTypeOK
  <2> QED BY <2>1 DEF ThemeTypeOK, Theme!NoLocks
<1> QED BY <1>1, <1>2 DEF Goes

(* A step of a command that is not over, and what has to hold after it.     *)
LEMMA ThemeGoesOn ==
  ASSUME ThemeInv, NEW pc \in ThemeSteps, Goes(pc), cmd.pc # "err", UNCHANGED remote,
         site' \in [repo : {"none", "ok", "broken"}, src : Nat, lib : Nat, vendor : Nat, modules : Nat,
                    dist : Nat, node : BOOLEAN, conf : BOOLEAN, up : BOOLEAN],
         lapse' \subseteq Theme!Packages,
         \A p \in Theme!Packages :
            /\ pc \notin Ahead(p) \cup {"packages", "revert"} => Follows(p)'
            /\ pc \in Ahead(p) \cup {"pull"} => Compared(p)',
         pc = "packages" => Theme!Packages \subseteq lapse',
         pc \in {"record", "inspect", "locks", "pull", "pull_lib", "composer", "react"} => cmd.update
  PROVE  ThemeInv'
<1>1. cmd'.pc = pc /\ cmd'.update = cmd.update /\ ThemeTypeOK'
  BY CommandGoes DEF ThemeInv, ThemeTypeOK
<1> QED BY <1>1 DEF ThemeInv

LEMMA SiteIs ==
  ASSUME ThemeInv
  PROVE  /\ site \in [repo : {"none", "ok", "broken"}, src : Nat, lib : Nat, vendor : Nat, modules : Nat,
                      dist : Nat, node : BOOLEAN, conf : BOOLEAN, up : BOOLEAN]
         /\ remote.theme \in Nat /\ remote.lib \in Nat /\ lapse \subseteq Theme!Packages
         /\ Theme!Lock(site.src) \in Nat
  BY LockIsNatural DEF ThemeInv, ThemeTypeOK

(* Steps that leave the sources and the packages alone, in the order        *)
(* Record, Inspect, ReadLocks, and those after the packages.                *)
LEMMA AloneKeeps ==
  ASSUME ThemeInv, NEW pc \in ThemeSteps \ {"packages", "pull"}, Goes(pc), cmd.pc # "err",
         cmd.pc \notin {"pull_lib", "composer", "react", "packages", "revert"},
         pc \notin {"pull_lib", "composer", "react"},
         pc \in {"record", "inspect", "locks"} => cmd.update,
         UNCHANGED <<remote, lapse>>,
         site' \in [repo : {"none", "ok", "broken"}, src : Nat, lib : Nat, vendor : Nat, modules : Nat,
                    dist : Nat, node : BOOLEAN, conf : BOOLEAN, up : BOOLEAN],
         site'.repo = "ok" => /\ site.repo = "ok" /\ site'.src = site.src
                              /\ site'.vendor \in {0, site.vendor}
                              /\ site'.modules \in {0, site.modules}
  PROVE  ThemeInv'
<1>1. \A p \in Theme!Packages : Follows(p)
  BY DEF ThemeInv, Ahead
<1>2. \A p \in Theme!Packages : Follows(p)'
  BY <1>1 DEF Follows, Theme!Packages
<1>3. \A p \in Theme!Packages : pc \notin Ahead(p)
  BY DEF Ahead
<1> QED BY <1>2, <1>3, ThemeGoesOn DEF ThemeInv, ThemeTypeOK

(* A command that fails goes back, or ends.                                 *)
LEMMA FailGoes ==
  ASSUME ThemeInv, Theme!Fail
  PROVE  \E pc \in {"revert", "err"} : Goes(pc) /\ (cmd.update => pc = "revert")
  BY DEF Theme!Fail, Theme!Leave, Goes, ThemeInv, ThemeTypeOK

LEMMA SimpleKeeps ==
  ASSUME ThemeInv, Theme!Inspect \/ Theme!StopService \/ Theme!StartService \/ Theme!Settle \/ Theme!Configure \/ Theme!Health
         \/ Theme!InstallTools \/ Theme!Migrate
  PROVE  ThemeInv'
<1>1. UNCHANGED <<remote, lapse>>
  BY DEF Theme!Inspect, Theme!StopService, Theme!StartService, Theme!Settle, Theme!Configure,
     Theme!Health, Theme!InstallTools, Theme!Migrate
<1>2. /\ cmd.pc \in {"inspect", "stop", "start", "settle", "configure", "health", "tools", "migrate"}
      /\ cmd.pc = "inspect" => cmd.update
  BY DEF Theme!Inspect, Theme!StopService, Theme!StartService, Theme!Settle, Theme!Configure,
     Theme!Health, Theme!InstallTools, Theme!Migrate, Theme!At,
         ThemeInv
<1>3. PICK pc \in {"locks", "tools", "start", "settle", "health", "ok", "clone", "configure",
                   "revert", "err"} : Goes(pc) /\ (pc = "locks" => cmd.update)
  <2>1. CASE Theme!Fail
    BY <2>1, FailGoes
  <2>2. CASE ~ Theme!Fail
    BY <1>2, <2>2 DEF Theme!Inspect, Theme!StopService, Theme!StartService, Theme!Settle,
       Theme!Configure, Theme!Health, Theme!InstallTools,
       Theme!Migrate, Theme!At, Theme!Go, Goes
  <2> QED BY <2>1, <2>2
<1>4. /\ site' \in [repo : {"none", "ok", "broken"}, src : Nat, lib : Nat, vendor : Nat, modules : Nat,
                    dist : Nat, node : BOOLEAN, conf : BOOLEAN, up : BOOLEAN]
      /\ site'.repo = "ok" => /\ site.repo = "ok" /\ site'.src = site.src
                              /\ site'.vendor \in {0, site.vendor}
                              /\ site'.modules \in {0, site.modules}
  <2>1. CASE site' = site
    BY <2>1, SiteIs
  <2>2. CASE Theme!Inspect /\ site' = Theme!Removed
    BY <2>2, SiteIs DEF Theme!Removed, Theme!Absent
  <2>3. CASE site' \in {[site EXCEPT !.up = FALSE], [site EXCEPT !.conf = TRUE], [site EXCEPT !.node = TRUE]}
    BY <2>3, SiteIs
  <2>4. CASE site' \in Theme!Recreated
    <3>1. CASE site' = Theme!Absent
      BY <3>1 DEF Theme!Absent
    <3>2. CASE \E v \in {0, site.vendor}, n \in {0, site.modules} :
                 site' = [site EXCEPT !.node = FALSE, !.conf = FALSE, !.vendor = v, !.modules = n,
                                      !.up = TRUE]
      <4> PICK v \in {0, site.vendor}, n \in {0, site.modules} :
                 site' = [site EXCEPT !.node = FALSE, !.conf = FALSE, !.vendor = v, !.modules = n,
                                      !.up = TRUE]
        BY <3>2
      <4>1. v \in Nat /\ n \in Nat
        BY SiteIs
      <4>2. site' = [repo |-> site.repo, src |-> site.src, lib |-> site.lib, vendor |-> v, modules |-> n,
                     dist |-> site.dist, node |-> FALSE, conf |-> FALSE, up |-> TRUE]
        BY SiteIs
      <4> QED BY <4>1, <4>2, SiteIs
    <3> QED BY <2>4, <3>1, <3>2 DEF Theme!Recreated
  <2> QED BY <2>1, <2>2, <2>3, <2>4
       DEF Theme!Inspect, Theme!StopService, Theme!StartService, Theme!Settle, Theme!Configure,
       Theme!Health, Theme!InstallTools, Theme!Migrate
<1>5. pc \in ThemeSteps \ {"packages", "pull"} /\ pc \notin {"pull_lib", "composer", "react"}
      /\ (pc \in {"record", "inspect", "locks"} => cmd.update)
  BY <1>3 DEF ThemeSteps
<1> QED BY <1>1, <1>2, <1>3, <1>4, <1>5, AloneKeeps

LEMMA RecordKeeps == ASSUME ThemeInv, Theme!Record PROVE ThemeInv'
<1> PICK p \in {0, site.src}, l \in {0, site.lib} :
      cmd' = [cmd EXCEPT !.pc = "inspect", !.prev = p, !.prevLib = l]
  BY DEF Theme!Record
<1>1. UNCHANGED <<remote, site, lapse>> /\ cmd.pc = "record" /\ cmd.update
  BY DEF Theme!Record, Theme!At, ThemeInv
<1>2. p \in Nat /\ l \in Nat
  BY SiteIs
<1>3. cmd' = [pc |-> "inspect", update |-> cmd.update, react |-> cmd.react, prev |-> p, prevLib |-> l,
              before |-> cmd.before]
  BY DEF ThemeInv, ThemeTypeOK
<1>4. ThemeTypeOK' /\ cmd'.pc = "inspect" /\ cmd'.update
  BY <1>1, <1>2, <1>3 DEF ThemeInv, ThemeTypeOK, ThemeSteps
<1>5. \A q \in Theme!Packages : Follows(q)'
  BY <1>1 DEF ThemeInv, Ahead, Follows
<1> QED BY <1>4, <1>5 DEF ThemeInv, Ahead

(* The sums that are read are those of the sources whose packages are there. *)
LEMMA ReadLocksKeeps == ASSUME ThemeInv, Theme!ReadLocks PROVE ThemeInv'
<1> PICK b \in [Theme!Packages -> Theme!LockRead] : cmd' = [cmd EXCEPT !.pc = "pull", !.before = b]
  BY DEF Theme!ReadLocks
<1>1. UNCHANGED <<remote, site, lapse>> /\ cmd.pc = "locks" /\ cmd.update
  BY DEF Theme!ReadLocks, Theme!At, ThemeInv
<1>2. b \in [Theme!Packages -> Nat]
  BY SiteIs DEF Theme!LockRead
<1>3. cmd' = [pc |-> "pull", update |-> cmd.update, react |-> cmd.react, prev |-> cmd.prev,
              prevLib |-> cmd.prevLib, before |-> b]
  BY DEF ThemeInv, ThemeTypeOK
<1>4. ThemeTypeOK' /\ cmd'.pc = "pull" /\ cmd'.update
  BY <1>1, <1>2, <1>3 DEF ThemeInv, ThemeTypeOK, ThemeSteps
<1>5. \A p \in Theme!Packages : Follows(p)'
  BY <1>1 DEF ThemeInv, Ahead, Follows
<1>6. \A p \in Theme!Packages : Compared(p)'
  BY <1>1, <1>3, <1>5 DEF Compared, Follows, Theme!LockRead
<1> QED BY <1>4, <1>5, <1>6 DEF ThemeInv, Ahead

LEMMA PullKeeps == ASSUME ThemeInv, Theme!PullTheme \/ Theme!PullLibrary PROVE ThemeInv'
<1>1. UNCHANGED <<remote, lapse>> /\ cmd.pc \in {"pull", "pull_lib"} /\ cmd.update
  BY DEF Theme!PullTheme, Theme!PullLibrary, Theme!At, ThemeInv
<1>2. \A p \in Theme!Packages : Compared(p)
  BY <1>1 DEF ThemeInv, Ahead
<1>3. CASE Theme!Fail
  <2>1. Goes("revert") /\ UNCHANGED site
    BY <1>1, <1>3, FailGoes DEF Theme!PullTheme, Theme!PullLibrary, Theme!Go, Goes, Theme!Fail,
       Theme!Leave, ThemeInv, ThemeTypeOK
  <2>2. "revert" \in ThemeSteps
    BY DEF ThemeSteps
  <2> QED BY <1>1, <2>1, <2>2, SiteIs, ThemeGoesOn DEF Ahead
<1>4. CASE ~ Theme!Fail
  <2>1. PICK pc \in {"pull_lib", "composer"} : Goes(pc)
    BY <1>4 DEF Theme!PullTheme, Theme!PullLibrary, Theme!Go, Goes
  <2>2. site' \in {site, [site EXCEPT !.src = remote.theme], [site EXCEPT !.lib = remote.lib]}
    BY <1>4 DEF Theme!PullTheme, Theme!PullLibrary
  <2>3. /\ site' \in [repo : {"none", "ok", "broken"}, src : Nat, lib : Nat, vendor : Nat, modules : Nat,
                      dist : Nat, node : BOOLEAN, conf : BOOLEAN, up : BOOLEAN]
        /\ site'.repo = site.repo /\ site'.vendor = site.vendor /\ site'.modules = site.modules
    BY <2>2, SiteIs
  <2>4. pc \in ThemeSteps
    BY DEF ThemeSteps
  <2>5. \A p \in Theme!Packages : cmd'.before[p] \in {0, cmd.before[p]}
    BY <2>1, <2>4, CommandGoes DEF ThemeInv
  <2>6. \A p \in Theme!Packages : Compared(p)'
    BY <1>1, <1>2, <2>3, <2>5 DEF Compared, Theme!Packages
  <2>7. \A p \in Theme!Packages : pc \in Ahead(p)
    BY DEF Ahead
  <2> QED BY <1>1, <2>1, <2>3, <2>4, <2>6, <2>7, SiteIs, ThemeGoesOn
<1> QED BY <1>3, <1>4

(* Packages that were installed, that are not, or whose sum is the same as   *)
(* before the pull: they are those of the sources, or a lapse is noted.     *)
LEMMA BroughtUp ==
  ASSUME NEW p \in Theme!Packages, NEW after \in Theme!LockRead, Compared(p), ~ Theme!Outdated(p, after),
         site' = [site EXCEPT !.node = site'.node, !.dist = site'.dist], Theme!Skipped(p, after),
         site \in [repo : {"none", "ok", "broken"}, src : Nat, lib : Nat, vendor : Nat, modules : Nat,
                   dist : Nat, node : BOOLEAN, conf : BOOLEAN, up : BOOLEAN]
  PROVE  Follows(p)'
<1>1. site'.repo = site.repo /\ site'.src = site.src /\ site'[p] = site[p]
  BY DEF Theme!Packages
<1>2. cmd.before[p] = after /\ site[p] # 0
  BY DEF Theme!Outdated
<1>3. CASE after = 0
  BY <1>3 DEF Theme!Skipped, Theme!Lapsed, Follows
<1>4. CASE after # 0
  BY <1>1, <1>2, <1>4 DEF Theme!Skipped, Compared, Follows, Theme!LockRead
<1> QED BY <1>3, <1>4

LEMMA ComposerKeeps == ASSUME ThemeInv, Theme!Composer PROVE ThemeInv'
<1>0. PICK after \in Theme!LockRead :
       IF Theme!Outdated("vendor", after)
       THEN \/ /\ Theme!Go("react")
               /\ site' = [site EXCEPT !.vendor = Theme!Lock(site.src)]
               /\ lapse' = lapse \ {"vendor"}
            \/ Theme!Go("react") /\ Theme!Lapsed({"vendor"}) /\ UNCHANGED site
       ELSE Theme!Go("react") /\ Theme!Skipped("vendor", after) /\ UNCHANGED site
  BY DEF Theme!Composer
<1>1. /\ UNCHANGED remote /\ cmd.pc = "composer" /\ cmd.update
      /\ Compared("vendor") /\ Compared("modules")
      /\ cmd' = [cmd EXCEPT !.pc = "react"]
  BY <1>0 DEF Theme!Composer, Theme!At, Theme!Go, ThemeInv, Ahead, Theme!Packages
<1>2. /\ site' \in [repo : {"none", "ok", "broken"}, src : Nat, lib : Nat, vendor : Nat, modules : Nat,
                    dist : Nat, node : BOOLEAN, conf : BOOLEAN, up : BOOLEAN]
      /\ site'.repo = site.repo /\ site'.modules = site.modules
      /\ lapse' \subseteq Theme!Packages /\ ("modules" \in lapse' <=> "modules" \in lapse)
  BY <1>0, SiteIs DEF Theme!Lapsed, Theme!Skipped, Theme!Packages
<1>3. Follows("vendor")'
  <2>1. CASE ~ Theme!Outdated("vendor", after)
    <3>1. site' = [site EXCEPT !.node = site'.node, !.dist = site'.dist]
      BY <1>0, <2>1, SiteIs
    <3> QED BY <1>0, <1>1, <2>1, <3>1, SiteIs, BroughtUp DEF Theme!Packages
  <2>2. CASE Theme!Outdated("vendor", after)
    BY <1>0, <2>2, SiteIs DEF Follows, Theme!Lapsed
  <2> QED BY <2>1, <2>2
<1>4. Compared("modules")'
  <2>1. cmd'.before = cmd.before
    BY <1>1 DEF ThemeInv, ThemeTypeOK
  <2> QED BY <1>1, <1>2, <2>1 DEF Compared
<1>5. "react" \in ThemeSteps /\ Goes("react")
  BY <1>1 DEF ThemeSteps, Goes
<1>6. \A p \in Theme!Packages :
        /\ "react" \notin Ahead(p) => p = "vendor"
        /\ "react" \in Ahead(p) => p = "modules"
  BY DEF Ahead, Theme!Packages
<1> QED BY <1>1, <1>2, <1>3, <1>4, <1>5, <1>6, ThemeGoesOn

LEMMA ReactKeeps == ASSUME ThemeInv, Theme!React PROVE ThemeInv'
<1>1. UNCHANGED remote /\ cmd.pc = "react" /\ cmd.update /\ Follows("vendor") /\ Compared("modules")
  BY DEF Theme!React, Theme!At, ThemeInv, Ahead, Theme!Packages
<1>2. PICK pc \in {"migrate", "revert"} : Goes(pc)
  BY <1>1, FailGoes DEF Theme!React, Theme!Leave, Goes
<1> DEFINE Done ==
      /\ site' \in [repo : {"none", "ok", "broken"}, src : Nat, lib : Nat, vendor : Nat, modules : Nat,
                    dist : Nat, node : BOOLEAN, conf : BOOLEAN, up : BOOLEAN]
      /\ site'.repo = site.repo /\ site'.vendor = site.vendor /\ site'.src = site.src
      /\ lapse' \subseteq Theme!Packages /\ ("vendor" \in lapse' <=> "vendor" \in lapse)
      /\ Follows("modules")'
<1>3. Done
  <2>1. CASE Theme!Lapsed({"modules"}) /\ site' \in {site, [site EXCEPT !.node = TRUE]}
    BY <2>1, SiteIs DEF Theme!Lapsed, Theme!Packages, Follows
  <2>2. ASSUME NEW after \in Theme!LockRead, ~ Theme!Outdated("modules", after), Theme!Skipped("modules", after),
               site' \in {[site EXCEPT !.node = TRUE], [site EXCEPT !.node = TRUE, !.dist = site.src]}
        PROVE  Done
    <3>1. site' = [site EXCEPT !.node = site'.node, !.dist = site'.dist]
      BY <2>2, SiteIs
    <3>2. Follows("modules")'
      BY <1>1, <2>2, <3>1, SiteIs, BroughtUp DEF Theme!Packages
    <3>3. /\ site' \in [repo : {"none", "ok", "broken"}, src : Nat, lib : Nat, vendor : Nat,
                        modules : Nat, dist : Nat, node : BOOLEAN, conf : BOOLEAN, up : BOOLEAN]
          /\ site'.repo = site.repo /\ site'.vendor = site.vendor /\ site'.src = site.src
      BY <2>2, SiteIs
    <3>4. lapse' \subseteq Theme!Packages /\ ("vendor" \in lapse' <=> "vendor" \in lapse)
      BY <2>2, SiteIs DEF Theme!Skipped, Theme!Lapsed, Theme!Packages
    <3> QED BY <3>2, <3>3, <3>4
  <2>3. CASE /\ lapse' = lapse \ {"modules"}
             /\ site' \in {[site EXCEPT !.node = TRUE, !.modules = Theme!Lock(site.src)],
                           [site EXCEPT !.node = TRUE, !.modules = Theme!Lock(site.src), !.dist = site.src]}
    <3>1. /\ site' \in [repo : {"none", "ok", "broken"}, src : Nat, lib : Nat, vendor : Nat,
                        modules : Nat, dist : Nat, node : BOOLEAN, conf : BOOLEAN, up : BOOLEAN]
          /\ site'.repo = site.repo /\ site'.vendor = site.vendor /\ site'.src = site.src
          /\ site'.modules = Theme!Lock(site.src)
      BY <2>3, SiteIs
    <3> QED BY <2>3, <3>1, SiteIs DEF Follows, Theme!Packages
  <2>4. CASE ~ (Theme!Lapsed({"modules"}) /\ site' \in {site, [site EXCEPT !.node = TRUE]})
    <3>1. PICK after \in Theme!LockRead :
             LET installs == Theme!Outdated("modules", after)
                 ready == IF installs THEN [site EXCEPT !.node = TRUE, !.modules = Theme!Lock(site.src)]
                          ELSE [site EXCEPT !.node = TRUE]
                 noted == IF installs THEN lapse' = lapse \ {"modules"}
                          ELSE Theme!Skipped("modules", after)
             IN noted /\ site' \in {ready, [ready EXCEPT !.dist = site.src]}
      BY <2>4 DEF Theme!React
    <3>2. CASE Theme!Outdated("modules", after)
      <4>1. [[site EXCEPT !.node = TRUE, !.modules = Theme!Lock(site.src)] EXCEPT !.dist = site.src]
              = [site EXCEPT !.node = TRUE, !.modules = Theme!Lock(site.src), !.dist = site.src]
        BY SiteIs
      <4> QED BY <2>3, <3>1, <3>2, <4>1
    <3>3. CASE ~ Theme!Outdated("modules", after)
      <4>1. [[site EXCEPT !.node = TRUE] EXCEPT !.dist = site.src]
              = [site EXCEPT !.node = TRUE, !.dist = site.src]
        BY SiteIs
      <4> QED BY <2>2, <3>1, <3>3, <4>1
    <3> QED BY <3>2, <3>3
  <2> QED BY <2>1, <2>4
<1>4. Follows("vendor")'
  BY <1>1, <1>3 DEF Follows
<1>5. pc \in ThemeSteps /\ \A p \in Theme!Packages : pc \notin Ahead(p) \cup {"pull"} /\ p \in {"vendor", "modules"}
  BY DEF ThemeSteps, Ahead, Theme!Packages
<1> QED BY <1>1, <1>2, <1>3, <1>4, <1>5, ThemeGoesOn

LEMMA CloneKeeps == ASSUME ThemeInv, Theme!Clone PROVE ThemeInv'
<1>1. UNCHANGED remote /\ cmd.pc = "clone" /\ lapse' = lapse \cup Theme!Packages
  BY DEF Theme!Clone, Theme!At, Theme!Lapsed
<1>2. PICK pc \in {"packages", "revert", "err"} : Goes(pc)
  BY FailGoes DEF Theme!Clone, Theme!Go, Goes
<1> DEFINE Sites == [repo : {"none", "ok", "broken"}, src : Nat, lib : Nat, vendor : Nat, modules : Nat,
                     dist : Nat, node : BOOLEAN, conf : BOOLEAN, up : BOOLEAN]
<1>3. \A s \in Theme!ClonedTheme : s \in Sites
  <2>1. Theme!Absent \in Sites
    BY DEF Theme!Absent
  <2>2. Theme!Removed \in Sites
    BY <2>1, SiteIs DEF Theme!Removed
  <2>3. [Theme!Removed EXCEPT !.repo = "ok", !.src = remote.theme] \in Sites
    BY <2>2, SiteIs
  <2>4. [site EXCEPT !.src = remote.theme] \in Sites /\ site \in Sites
    BY SiteIs
  <2> QED BY <2>2, <2>3, <2>4 DEF Theme!ClonedTheme
<1>4. \A s \in Sites : \A t \in Theme!WithLibrary(s) : t \in Sites
  <2> SUFFICES ASSUME NEW s \in Sites PROVE \A t \in Theme!WithLibrary(s) : t \in Sites
    OBVIOUS
  <2>1. (IF s.repo = "ok" THEN "ok" ELSE "broken") \in {"none", "ok", "broken"}
    OBVIOUS
  <2>2. PICK r \in {"none", "ok", "broken"} : r = IF s.repo = "ok" THEN "ok" ELSE "broken"
    BY <2>1
  <2>3. [s EXCEPT !.lib = remote.lib, !.repo = r] \in Sites
    BY SiteIs
  <2> QED BY <2>2, <2>3 DEF Theme!WithLibrary
<1>5. site' \in Sites
  BY <1>3, <1>4 DEF Theme!Clone
<1>6. \A p \in Theme!Packages : Follows(p)'
  BY <1>1 DEF Follows
<1>7. pc \in ThemeSteps /\ \A p \in Theme!Packages : pc \notin Ahead(p) \cup {"pull"}
  BY DEF ThemeSteps, Ahead
<1> QED BY <1>1, <1>2, <1>5, <1>6, <1>7, SiteIs, ThemeGoesOn

LEMMA InstallPackagesKeeps == ASSUME ThemeInv, Theme!InstallPackages PROVE ThemeInv'
<1>1. UNCHANGED remote /\ cmd.pc = "packages" /\ lapse = Theme!Packages
  BY SiteIs DEF Theme!InstallPackages, Theme!At, ThemeInv
<1>2. PICK pc \in {"health", "ok", "revert", "err"} : Goes(pc)
  BY FailGoes DEF Theme!InstallPackages, Theme!Go, Goes
<1>3. /\ site' \in [repo : {"none", "ok", "broken"}, src : Nat, lib : Nat, vendor : Nat, modules : Nat,
                    dist : Nat, node : BOOLEAN, conf : BOOLEAN, up : BOOLEAN]
      /\ lapse' \subseteq Theme!Packages
      /\ \A p \in Theme!Packages : Follows(p)'
  <2>1. CASE UNCHANGED <<site, lapse>>
    BY <1>1, <2>1, SiteIs DEF Follows
  <2>2. CASE site' = [site EXCEPT !.vendor = Theme!Lock(site.src)] /\ lapse' = lapse \ {"vendor"}
    BY <1>1, <2>2, SiteIs DEF Follows, Theme!Packages
  <2>3. CASE /\ cmd.react /\ lapse' = lapse \ Theme!Packages
             /\ site' = [site EXCEPT !.vendor = Theme!Lock(site.src), !.modules = Theme!Lock(site.src),
                                     !.dist = site.src]
    BY <1>1, <2>3, SiteIs DEF Follows, Theme!Packages
  <2>4. [site EXCEPT !.vendor = Theme!Lock(site.src), !.modules = site.modules, !.dist = site.dist]
          = [site EXCEPT !.vendor = Theme!Lock(site.src)]
    BY SiteIs
  <2> QED BY <2>1, <2>2, <2>3, <2>4 DEF Theme!InstallPackages
<1>4. pc \in ThemeSteps \ {"packages"} /\ \A p \in Theme!Packages : pc \notin Ahead(p) \cup {"pull"}
  BY DEF ThemeSteps, Ahead
<1> QED BY <1>1, <1>2, <1>3, <1>4, ThemeGoesOn

LEMMA RevertKeeps == ASSUME ThemeInv, Theme!Revert PROVE ThemeInv'
<1> DEFINE Sites == [repo : {"none", "ok", "broken"}, src : Nat, lib : Nat, vendor : Nat, modules : Nat,
                     dist : Nat, node : BOOLEAN, conf : BOOLEAN, up : BOOLEAN]
<1>1. UNCHANGED remote /\ cmd.pc = "revert"
  BY DEF Theme!Revert, Theme!At
<1>2. /\ Theme!Reset \in Sites
      /\ Theme!Reset.src = (IF cmd.prev # 0 THEN cmd.prev ELSE site.src)
      /\ Theme!Reset.lib = (IF cmd.prevLib # 0 THEN cmd.prevLib ELSE site.lib)
  <2>1. cmd.prev \in Nat /\ cmd.prevLib \in Nat
    BY DEF ThemeInv, ThemeTypeOK
  <2> QED BY <2>1, SiteIs DEF Theme!Reset
<1>3. ASSUME NEW s \in Sites
      PROVE  /\ Theme!Restored(s) \in Sites
             /\ Theme!Restored(s).src = s.src /\ Theme!Restored(s).lib = s.lib /\ Theme!Restored(s).dist = s.src
             /\ Theme!Restored(s).vendor = Theme!Lock(s.src) /\ Theme!Restored(s).modules = Theme!Lock(s.src)
             /\ [s EXCEPT !.vendor = Theme!Lock(s.src)] \in Sites
  BY LockIsNatural DEF Theme!Restored
<1>4. "err" \in ThemeSteps /\ Goes("err") /\ \A p \in Theme!Packages : "err" \notin Ahead(p) \cup {"pull"}
  BY DEF Theme!Revert, ThemeSteps, Theme!Go, Goes, Ahead
<1>5. CASE site' = Theme!Restored(Theme!Reset) /\ lapse' = {}
  <2>1. /\ site' \in Sites /\ site'.src = Theme!Reset.src
        /\ site'.vendor = Theme!Lock(Theme!Reset.src) /\ site'.modules = Theme!Lock(Theme!Reset.src)
    BY <1>2, <1>3, <1>5
  <2>2. \A p \in Theme!Packages : Follows(p)'
    BY <2>1 DEF Follows, Theme!Packages
  <2> QED BY <1>1, <1>4, <1>5, <2>1, <2>2, ThemeGoesOn
<1>6. CASE /\ Theme!Lapsed(Theme!Packages)
           /\ site' \in {site, Theme!Restored(site)} \cup
                (IF site.repo = "ok" THEN {Theme!Reset, [Theme!Reset EXCEPT !.vendor = Theme!Lock(Theme!Reset.src)]} ELSE {})
  <2>1. site' \in Sites
    <3>1. site \in Sites
      BY SiteIs
    <3>2. Theme!Restored(site) \in Sites /\ [Theme!Reset EXCEPT !.vendor = Theme!Lock(Theme!Reset.src)] \in Sites
      BY <1>2, <1>3, <3>1
    <3> HIDE DEF Sites
    <3> QED BY <1>2, <1>6, <3>1, <3>2
  <2>2. lapse' = Theme!Packages
    BY <1>6, SiteIs DEF Theme!Lapsed
  <2>3. \A p \in Theme!Packages : Follows(p)'
    BY <2>2 DEF Follows
  <2> QED BY <1>1, <1>4, <2>1, <2>2, <2>3, ThemeGoesOn
<1> QED BY <1>5, <1>6 DEF Theme!Revert

LEMMA CrashKeeps == ASSUME ThemeInv, Theme!Crash PROVE ThemeInv'
<1>1. UNCHANGED <<remote, site>> /\ cmd.pc # "err" /\ Goes("err") /\ "err" \in ThemeSteps
  BY DEF Theme!Crash, Theme!Ended, Theme!Leave, Goes, ThemeSteps
<1>2. lapse' = Theme!Packages
  BY SiteIs DEF Theme!Crash, Theme!Lapsed
<1>3. \A p \in Theme!Packages : Follows(p)' /\ "err" \notin Ahead(p) \cup {"pull"}
  BY <1>2 DEF Follows, Ahead
<1> QED BY <1>1, <1>2, <1>3, SiteIs, ThemeGoesOn

LEMMA ThemeStepInv == ThemeInv /\ [Theme!Next]_Theme!vars => ThemeInv'
<1> SUFFICES ASSUME ThemeInv, [Theme!Next]_Theme!vars PROVE ThemeInv'
  OBVIOUS
<1>1. CASE UNCHANGED Theme!vars
  BY <1>1 DEF Theme!vars, ThemeInv, ThemeTypeOK, Follows, Compared
<1>2. CASE Theme!Next
  BY <1>2, ControlKeeps, SimpleKeeps, RecordKeeps, ReadLocksKeeps, PullKeeps, ComposerKeeps,
     ReactKeeps, CloneKeeps, InstallPackagesKeeps, RevertKeeps, CrashKeeps DEF Theme!Next, Theme!Step
<1> QED BY <1>1, <1>2

LEMMA ThemeSpecInv == Theme!Spec => []ThemeInv
<1> QED BY ThemeInitInv, ThemeStepInv, PTL DEF Theme!Spec

(* For any commits: whatever updates, rollbacks, new containers and kills,  *)
(* the packages between commands are those of the sources in place; but for *)
(* packages whose last installation failed (also when composer's failure    *)
(* was only warned of), was skipped or was cut.                             *)
THEOREM ThemeDepsFollowSources == Theme!Spec => []DepsFollowSources
<1>1. ThemeInv => DepsFollowSources
  BY DEF DepsFollowSources, ThemeInv, ThemeTypeOK, Ahead, Theme!Ended, Follows,
     Theme!DepsFollowSources
<1> QED BY <1>1, ThemeSpecInv, PTL
=============================================================================
