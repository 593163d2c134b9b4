------------------------------ MODULE UnixBuild ------------------------------
(***************************************************************************)
(* One build directory on Linux or macOS: build-main.py runs `make -j`,    *)
(* whose rules run one build.py per archive, and compresses the archive of *)
(* CPython into dist/.  Recipes fail, the build is interrupted or killed,  *)
(* sources are edited, and the build is started again in the directory.    *)
(*                                                                         *)
(* An archive is "good" when all that it derives from is current, "stale"  *)
(* when it is not, and "torn" when writing its file was cut short.  In the *)
(* place of modification times, `older` keeps what make concludes from     *)
(* them: the archives older than one of their prerequisites.               *)
(***************************************************************************)
EXTENDS BuildGraph, FiniteSets

CONSTANTS
    Jobs,           \* make -jN
    Edited,         \* Edited[t]: the sources that change; a new version of
                    \* clang has a new archive
    MaxEdits,       \* bound: edits
    MaxFaults       \* bound: failing recipes and killed builds

ASSUME UnixBuildAssumption ==
    /\ Jobs \in Nat \ {0} /\ MaxEdits \in Nat /\ MaxFaults \in Nat
    /\ Edited \in [Targets -> SUBSET ((AllNames \ {"clang"}) \cup OtherSources)]

VARIABLES
    target,     \* what the directory is used for
    make,       \* the state of build-main.py
    todo,       \* the archives make has found out of date, and not remade
    pc,         \* pc[n]: the step of the build.py that makes n
    tainted,    \* the jobs that installed an archive that was not good
    file,       \* file[n]: the archive of n
    imageId,    \* imageId[n]: the file with the id of image n
    older,      \* the archives older than one of their prerequisites
    dist,       \* the distribution in dist/, and its temporary file
    unnoticed,  \* what make cannot see: the archives that were cut short, or
                \* whose image id or whose other sources are not up to date
    edits, faults

bounds == <<edits, faults>>
vars == <<target, make, todo, pc, tainted, file, imageId, older, dist, unnoticed,
          bounds>>

Goal == "cpython"
Names == Below[target][Goal] \cup {Goal}
Active == {n \in Names : pc[n] # "off"}

Contents == {"absent", "good", "stale", "torn"}

TypeOK ==
    /\ target \in Targets
    /\ make \in {"off", "running", "failing", "compressing", "copying"}
    /\ todo \subseteq Names /\ tainted \subseteq Names /\ older \subseteq Names
    /\ pc \in [Names -> {"off", "installing", "building", "recording"}]
    /\ file \in [Names -> Contents]
    /\ imageId \in [Images \cap Names -> Contents \ {"torn"}]
    /\ dist \in [path : Contents, tmp : Contents]
    /\ unnoticed \subseteq Names
    /\ edits \in 0..MaxEdits /\ faults \in 0..MaxFaults
    /\ Cardinality(Active) <= Jobs
    /\ make \in {"off", "compressing", "copying"} => Active = {}

Init ==
    /\ target \in Targets
    /\ make = "off"
    /\ todo = {} /\ tainted = {} /\ older = {}
    /\ pc = [n \in Names |-> "off"]
    /\ file = [n \in Names |-> "absent"]
    /\ imageId = [n \in Images \cap Names |-> "absent"]
    /\ dist = [path |-> "absent", tmp |-> "absent"]
    /\ unnoticed = {}
    /\ edits = 0 /\ faults = 0

-----------------------------------------------------------------------------
(* make.                                                                   *)

\* With the static option build_musl writes musl-static-*.tar, which is what
\* the other recipes install, and the file of the rule never comes to be.
RuleFileMissing(n) == file[n] = "absent" \/ (n = "musl" /\ target.static)

OutOfDate(n) == RuleFileMissing(n) \/ n \in older

\* An archive is remade when it, or anything below it, is out of date.
Start ==
    /\ make = "off"
    /\ make' = "running"
    /\ todo' = {n \in Names : \E m \in Below[target][n] \cup {n} : OutOfDate(m)}
    /\ UNCHANGED <<target, pc, tainted, file, imageId, older, dist,
                   unnoticed, bounds>>

\* Mutant of Launch: `make -j` without a number.
LaunchUnbounded(n) ==
    /\ make = "running"
    /\ n \in todo /\ pc[n] = "off"
    /\ Ordered[target][n] \cap todo = {}
    /\ pc' = [pc EXCEPT ![n] = "installing"]
    /\ UNCHANGED <<target, make, todo, tainted, file, imageId, older, dist,
                   unnoticed, bounds>>

Launch(n) ==
    /\ make = "running"
    /\ n \in todo /\ pc[n] = "off"
    /\ Ordered[target][n] \cap todo = {}
    /\ Cardinality(Active) < Jobs
    /\ pc' = [pc EXCEPT ![n] = "installing"]
    /\ UNCHANGED <<target, make, todo, tainted, file, imageId, older, dist,
                   unnoticed, bounds>>

Finish ==
    /\ make = "running" /\ todo = {}
    /\ make' = "compressing"
    /\ UNCHANGED <<target, todo, pc, tainted, file, imageId, older, dist,
                   unnoticed, bounds>>

\* Without -k make waits for the other jobs after the first error.
GiveUp ==
    /\ make = "failing" /\ Active = {}
    /\ make' = "off"
    /\ todo' = {}
    /\ UNCHANGED <<target, pc, tainted, file, imageId, older, dist,
                   unnoticed, bounds>>

-----------------------------------------------------------------------------
(* One build.py.                                                           *)

\* What a recipe finds of m: the id file of an image, the archive otherwise.
Found(m) == IF m \in Images THEN imageId[m] ELSE file[m]

\* Everything is unpacked into a new container or directory.  tar may or may
\* not notice that an archive was cut short.
Install(n) ==
    /\ pc[n] = "installing"
    /\ \A m \in Installs[target][n] : Found(m) # "absent"
    /\ pc' = [pc EXCEPT ![n] = "building"]
    /\ tainted' = IF \A m \in Installs[target][n] : Found(m) = "good"
                  THEN tainted ELSE tainted \cup {n}
    /\ UNCHANGED <<target, make, todo, file, imageId, older, dist,
                   unnoticed, bounds>>

\* Mutant of InstallFails: the exit code of build.py is lost and make starts
\* the recipe again.
InstallFailsUnseen(n) ==
    /\ pc[n] = "installing"
    /\ \E m \in Installs[target][n] : Found(m) \in {"absent", "torn"}
    /\ pc' = [pc EXCEPT ![n] = "off"]
    /\ UNCHANGED <<target, make, todo, tainted, file, imageId, older, dist,
                   unnoticed, bounds>>

\* A file that is not there is an exception, and so is an archive that tar
\* finds cut short.
InstallFails(n) ==
    /\ pc[n] = "installing"
    /\ \E m \in Installs[target][n] : Found(m) \in {"absent", "torn"}
    /\ pc' = [pc EXCEPT ![n] = "off"]
    /\ make' = "failing"
    /\ UNCHANGED <<target, todo, tainted, file, imageId, older, dist,
                   unnoticed, bounds>>

Dependents(n) == {m \in Names : n \in Ordered[target][m] /\ ~RuleFileMissing(m)}

\* The new archive is newer than all there is.  An image is not usable yet.
\* Others see no half of it: only a failure or a kill leaves one.
Write(n) ==
    /\ pc[n] = "building"
    /\ file' = [file EXCEPT ![n] = IF n \in tainted THEN "stale" ELSE "good"]
    /\ older' = (older \ {n}) \cup Dependents(n)
    /\ tainted' = tainted \ {n}
    /\ IF n \in Images
       THEN pc' = [pc EXCEPT ![n] = "recording"] /\ UNCHANGED <<todo, unnoticed>>
       ELSE /\ pc' = [pc EXCEPT ![n] = "off"]
            /\ todo' = todo \ {n}
            /\ unnoticed' = unnoticed \ {n}
    /\ UNCHANGED <<target, make, imageId, dist, bounds>>

\* ensure_docker_image writes the id after the tar file.
Record(n) ==
    /\ pc[n] = "recording"
    /\ imageId' = [imageId EXCEPT ![n] = file[n]]
    /\ pc' = [pc EXCEPT ![n] = "off"]
    /\ todo' = todo \ {n}
    /\ unnoticed' = unnoticed \ {n}
    /\ UNCHANGED <<target, make, tainted, file, older, dist, bounds>>

\* What the jobs of ns leave when they are cut short: open(dest, "wb") has
\* truncated some archives, and not all was written; an image has no id yet.
Interrupted(ns) ==
    \E cut \in SUBSET {n \in ns : pc[n] = "building"} :
        /\ file' = [n \in Names |-> IF n \in cut THEN "torn" ELSE file[n]]
        /\ older' = (older \ cut) \cup UNION {Dependents(n) : n \in cut}
        /\ unnoticed' = unnoticed \cup cut \cup {n \in ns : pc[n] = "recording"}

\* A download, a compiler or a full disk ends the recipe.  The file stays as
\* it is: the Makefile has no .DELETE_ON_ERROR.
RecipeFails(n) ==
    /\ faults < MaxFaults
    /\ pc[n] # "off"
    /\ faults' = faults + 1
    /\ pc' = [pc EXCEPT ![n] = "off"]
    /\ make' = "failing"
    /\ Interrupted({n})
    /\ tainted' = tainted \ {n}
    /\ UNCHANGED <<target, todo, imageId, dist, edits>>

-----------------------------------------------------------------------------
(* compress_python_archive.                                                *)

\* Mutant of Compress: straight into the file in dist/.
CompressInPlace ==
    /\ make = "compressing"
    /\ make' = "copying"
    /\ dist' = [dist EXCEPT !.path = "torn"]
    /\ UNCHANGED <<target, todo, pc, tainted, file, imageId, older,
                   unnoticed, bounds>>

\* A temporary file that an earlier run left is truncated.
Compress ==
    /\ make = "compressing"
    /\ make' = "copying"
    /\ dist' = [dist EXCEPT !.tmp = "torn"]
    /\ UNCHANGED <<target, todo, pc, tainted, file, imageId, older,
                   unnoticed, bounds>>

Rename ==
    /\ make = "copying"
    /\ make' = "off"
    /\ dist' = [path |-> file[Goal], tmp |-> "absent"]
    /\ UNCHANGED <<target, todo, pc, tainted, file, imageId, older,
                   unnoticed, bounds>>

\* The finally clause removes the temporary file.
CompressFails ==
    /\ make = "copying"
    /\ faults < MaxFaults
    /\ faults' = faults + 1
    /\ make' = "off"
    /\ dist' = [dist EXCEPT !.tmp = "absent"]
    /\ UNCHANGED <<target, todo, pc, tainted, file, imageId, older, unnoticed, edits>>

-----------------------------------------------------------------------------
(* What happens to the build.                                              *)

\* SIGKILL, or a machine that goes down: everything stays as it is.  (On
\* SIGINT make removes what its running rules have changed, which leaves
\* less to go wrong.)
Kill ==
    /\ make # "off"
    /\ faults < MaxFaults
    /\ faults' = faults + 1
    /\ make' = "off"
    /\ todo' = {} /\ tainted' = {}
    /\ pc' = [n \in Names |-> "off"]
    /\ Interrupted(Names)
    /\ UNCHANGED <<target, imageId, dist, edits>>

\* A source is changed between two builds: a build script, a Dockerfile, or
\* a file that no rule names.
Edit(source) ==
    LET n == MadeFrom(source) IN
    /\ make = "off"
    /\ n \in Names
    /\ edits < MaxEdits
    /\ edits' = edits + 1
    /\ file' = [m \in Names |->
            IF n \in Derives[target][m] /\ file[m] = "good" THEN "stale" ELSE file[m]]
    /\ imageId' = [m \in Images \cap Names |->
            IF n = m /\ imageId[m] = "good" THEN "stale" ELSE imageId[m]]
    /\ older' = IF source \in Watched THEN older \cup {n} ELSE older
    /\ unnoticed' = IF source \in OtherSources /\ file[n] # "absent"
                    THEN unnoticed \cup {n} ELSE unnoticed
    /\ UNCHANGED <<target, make, todo, pc, tainted, dist, faults>>

Job(n) ==
    Install(n) \/ InstallFails(n) \/ Write(n) \/ Record(n)

Build == Finish \/ GiveUp \/ Compress \/ Rename \/ \E n \in Names : Launch(n) \/ Job(n)

Next ==
    \/ Start \/ Build \/ Kill \/ CompressFails
    \/ \E n \in Names : RecipeFails(n)
    \/ \E source \in Edited[target] : Edit(source)

\* A build that was started goes on; a recipe ends.
Spec == Init /\ [][Next]_vars /\ WF_vars(Build)

-----------------------------------------------------------------------------
\* The prerequisites in the Makefile are enough for build.py: in every order
\* that -j allows, and after every interrupted build, nobody is writing what
\* a recipe installs, and it finds all of it; but for an image of which an
\* earlier build was cut short before its id was there.
InputsReady ==
    \A n \in Names : pc[n] = "installing" =>
        \A m \in Installs[target][n] :
            /\ pc[m] = "off"
            /\ Found(m) = "absent" => m \in Images \cap unnoticed

\* A build that make calls complete reflects every script and Dockerfile, and
\* every archive below CPython was remade after the ones it installs.  What
\* does not, comes from an archive whose writing was once cut short (the
\* Makefile has no .DELETE_ON_ERROR) and that had no reason to be made again
\* since, or from a patch, licence or module that the rule does not name.
\* (A change of build.py or pythonbuild/*.py is behind every archive and is
\* noticed by no rule; it is not considered here.)
FreshBuild ==
    make \in {"compressing", "copying"} =>
        \A n \in Derives[target][Goal] :
            Found(n) # "good" => Derives[target][n] \cap unnoticed # {}

\* Wherever the build stops, the file in dist/ is the whole archive that
\* make left, or what it was before; it is never built up in place.
DistWhole == [][dist'.path # dist.path =>
                    make = "copying" /\ dist'.path = file[Goal]]_vars

\* Every build ends, in a distribution or an error.
BuildEnds == make # "off" ~> make = "off"
=============================================================================
