---------------------------- MODULE ReleasePlan ----------------------------
(***************************************************************************)
(* From the CI jobs of one commit to the files of its release: the         *)
(* workflows linux.yml, macos.yml and windows.yml, which run for a push    *)
(* and for a pull request with the same head; fetch-release-distributions  *)
(* (src/github.rs), which takes the artifacts of the push runs and makes   *)
(* install_only archives of some; and the check for missing files that     *)
(* upload-release-distributions starts with.                               *)
(*                                                                         *)
(* Three tables kept by hand must agree: ci-targets.yaml (CiMatrix),       *)
(* RELEASE_TRIPLES and the list of triples that are not built.             *)
(*                                                                         *)
(* A local file name cpython-V-TRIPLE-A-B-DATE.EXT is a record whose       *)
(* suffix is the sequence of the parts between triple and date, each a set *)
(* of words.  The date is the commit's and the same everywhere.  The       *)
(* artifacts of a run are stored one after the other; they have different  *)
(* names, and storing them is one step here.  So is converting the         *)
(* archives of one platform, which par_iter spreads over threads.          *)
(***************************************************************************)
EXTENDS CiMatrix

CONSTANTS
    Labels,     \* the sets of labels that the pull request may have
    Fragile,    \* the <<triple, options>> whose jobs may fail
    MaxFaults   \* jobs and commands that fail

ASSUME PlanAssumption == Fragile \subseteq (DOMAIN CiTargets) \X (SUBSET STRING)

VARIABLES
    labels,     \* of the pull request
    runs,       \* runs[p][event]: a workflow run
    phase,      \* of the release script
    todo,       \* platforms whose artifacts the phase has left
    dist,       \* dist[name]: the builds written to that file
    faults

vars == <<labels, runs, phase, todo, dist, faults>>

Events == {"push", "pull_request"}

(* The matrix of a workflow; a push has no labels.                         *)
Entries == [l \in Labels \cup {{}} |-> [p \in Platforms |->
                generate_python_build_matrix_entries(p, l)]]

matrix(p, event) == Entries[IF event = "push" THEN {} ELSE labels][p]

----------------------------------------------------------------------------
(* RELEASE_TRIPLES: the suffixes released, the ones added from 3.13, the   *)
(* one that install_only is made of and the one that the freethreaded      *)
(* install_only is, and the requirement on the version.                    *)
Release(options, from313, best, freethreaded, oldest) ==
    [suffixes |-> options, conditional |-> from313, install_only_suffix |-> best,
     freethreaded_install_only_suffix |-> freethreaded, oldest |-> oldest]

Apple == {"aarch64-apple-darwin", "x86_64-apple-darwin"}
Windows == {"i686-pc-windows-msvc", "x86_64-pc-windows-msvc",
            "aarch64-pc-windows-msvc"}
Gnu == {"aarch64-unknown-linux-gnu", "x86_64-unknown-linux-gnu"}
GnuLevels == {"x86_64_v2-unknown-linux-gnu", "x86_64_v3-unknown-linux-gnu",
              "x86_64_v4-unknown-linux-gnu"}
GnuNoPgo == {"ppc64le-unknown-linux-gnu", "riscv64-unknown-linux-gnu",
             "s390x-unknown-linux-gnu", "armv7-unknown-linux-gnueabi",
             "armv7-unknown-linux-gnueabihf"}
MuslLevels == {"x86_64_v2-unknown-linux-musl", "x86_64_v3-unknown-linux-musl",
               "x86_64_v4-unknown-linux-musl"}
Musl == {"x86_64-unknown-linux-musl", "aarch64-unknown-linux-musl"}

(* The static build is promoted to install_only on x86_64 musl alone.      *)
RELEASE_TRIPLES ==
    [t \in Apple \cup Windows \cup Gnu \cup GnuLevels \cup GnuNoPgo \cup Musl
             \cup MuslLevels |->
        CASE t \in Apple \cup Gnu ->
                Release(Pgo, Freethreaded(Pgo), {"pgo", "lto"},
                        {"freethreaded", "pgo", "lto"}, 0)
          [] t \in GnuLevels ->
                Release(Pgo, Freethreaded(Pgo), {"pgo", "lto"},
                        {"freethreaded", "pgo", "lto"}, 10)
          [] t \in Windows ->
                Release(WindowsPgo, Freethreaded(WindowsPgo), {"pgo"},
                        {"freethreaded", "pgo"},
                        IF t = "aarch64-pc-windows-msvc" THEN 11 ELSE 0)
          [] t \in GnuNoPgo ->
                Release(NoPgo, Freethreaded(NoPgo), {"lto"},
                        {"freethreaded", "lto"}, 10)
          [] t \in MuslLevels ->
                Release(NoPgo \cup Static(NoPgo), Freethreaded(NoPgo), {"lto"},
                        {"freethreaded", "lto"}, 0)
          [] t = "x86_64-unknown-linux-musl" ->
                Release(NoPgo \cup Static(NoPgo), Freethreaded(NoPgo),
                        {"lto", "static"}, {"freethreaded", "lto"}, 0)
          [] t = "aarch64-unknown-linux-musl" ->
                Release(NoPgo, Freethreaded(NoPgo), {"lto"},
                        {"freethreaded", "lto"}, 0)]

(* TripleRelease::suffixes, for a version and for any (None).              *)
suffixes(t, v) ==
    RELEASE_TRIPLES[t].suffixes
        \cup IF v >= 13 THEN RELEASE_TRIPLES[t].conditional ELSE {}
all_suffixes(t) ==
    RELEASE_TRIPLES[t].suffixes \cup RELEASE_TRIPLES[t].conditional

(* A mistake the checks must notice: the list was not brought up to date   *)
(* when another triple was given up.                                       *)
NotBuiltBefore ==
    {"armv7-unknown-linux-gnueabi", "armv7-unknown-linux-gnueabihf",
     "ppc64le-unknown-linux-gnu", "s390x-unknown-linux-gnu",
     "x86_64_v2-unknown-linux-gnu", "x86_64_v2-unknown-linux-musl",
     "x86_64_v3-unknown-linux-gnu", "x86_64_v3-unknown-linux-musl",
     "x86_64_v4-unknown-linux-gnu", "x86_64_v4-unknown-linux-musl"}

(* The triples whose files upload-release-distributions does not miss: the *)
(* ones that its list of patterns, kept by hand, matches.                  *)
NotBuilt ==
    {"armv7-unknown-linux-gnueabi", "armv7-unknown-linux-gnueabihf",
     "ppc64le-unknown-linux-gnu", "riscv64-unknown-linux-gnu",
     "s390x-unknown-linux-gnu",
     "x86_64_v2-unknown-linux-gnu", "x86_64_v2-unknown-linux-musl",
     "x86_64_v3-unknown-linux-gnu", "x86_64_v3-unknown-linux-musl",
     "x86_64_v4-unknown-linux-gnu", "x86_64_v4-unknown-linux-musl"}

----------------------------------------------------------------------------
(* File names.                                                             *)
Name(v, t, suffix, ext) ==
    [python |-> v, triple |-> t, suffix |-> suffix, ext |-> ext]

Archive(e) ==
    Name(e.python, e.target_triple, <<e.build_options>>, "tar.zst")

(* Whether fetch keeps the archive of a build.                             *)
Wants(n) ==
    /\ n.python >= 10
    /\ n.triple \in DOMAIN RELEASE_TRIPLES
    /\ n.ext = "tar.zst"
    /\ n.suffix[1] \in all_suffixes(n.triple)

(* A mistake the checks must notice: what makes an install_only archive is *)
(* the optimization, whether the build is static or not.                   *)
InstallOnlyByOptimization(n) ==
    LET release == RELEASE_TRIPLES[n.triple]
    IN  /\ n.ext = "tar.zst"
        /\ n.suffix[1] \ {"static"} \in
                {release.install_only_suffix \ {"static"},
                 release.freethreaded_install_only_suffix}

(* Whether install_only archives are made of it.                           *)
InstallOnlySource(n) ==
    LET release == RELEASE_TRIPLES[n.triple]
    IN  /\ n.ext = "tar.zst"
        /\ n.suffix[1] \in {release.install_only_suffix,
                            release.freethreaded_install_only_suffix}

(* The flavor is the part before the date; it is what is replaced.         *)
produce_install_only(n) ==
    LET flavor == Last(n.suffix)
        parts == IF "freethreaded" \in flavor
                 THEN <<{"freethreaded"}, {"install_only"}>>
                 ELSE <<{"install_only"}>>
    IN  Name(n.python, n.triple, Front(n.suffix) \o parts, "tar.gz")

produce_install_only_stripped(n) ==
    [n EXCEPT !.suffix = Front(@) \o <<{"install_only_stripped"}>>]

(* The local names of a release, for the versions seen in the file names.  *)
build_wanted_filenames(filenames) ==
    LET versions == {n.python : n \in filenames}
        released == {vt \in versions \X DOMAIN RELEASE_TRIPLES :
                        vt[1] >= RELEASE_TRIPLES[vt[2]].oldest}
        flavors(v) == {<<>>} \cup IF v >= 13 THEN {<<{"freethreaded"}>>} ELSE {}
    IN  UNION ({{Name(vt[1], vt[2], <<s>>, "tar.zst") :
                    s \in suffixes(vt[2], vt[1])} : vt \in released}
        \cup {{Name(vt[1], vt[2], f \o <<{only}>>, "tar.gz") :
                    f \in flavors(vt[1]),
                    only \in {"install_only", "install_only_stripped"}} :
                    vt \in released})

missing(filenames) ==
    {n \in build_wanted_filenames(filenames) :
        n.triple \notin NotBuilt /\ n \notin filenames}

----------------------------------------------------------------------------
(* lost: the builds that no job has passed for; invalid: those with an     *)
(* artifact of a job that failed.                                          *)
NewRun == [status |-> "queued", crates |-> {}, lost |-> {}, invalid |-> {},
           rerun |-> FALSE]

Init ==
    /\ labels \in Labels
    /\ runs = [p \in Platforms |-> [event \in Events |-> NewRun]]
    /\ phase = "idle"
    /\ todo = {}
    /\ dist = <<>>
    /\ faults = 0

release == <<phase, todo, dist>>

(* generate-matrix and crate-build, with --force-crate-build or not.       *)
BuildCrates(p, event) ==
    /\ runs[p][event].status = "queued"
    /\ ~TooMany(p, matrix(p, event))
    /\ \E force \in IF event = "push" THEN {TRUE} ELSE BOOLEAN :
        runs' = [runs EXCEPT ![p][event].status = "crates",
                             ![p][event].crates =
            generate_crate_build_matrix_entries(matrix(p, event), p, force)]
    /\ UNCHANGED <<labels, release, faults>>

(* The jobs that need a failed one are skipped, and the run has failed.    *)
CratesFail(p, event) ==
    /\ runs[p][event].status = "queued"
    /\ TooMany(p, matrix(p, event)) \/ faults < MaxFaults
    /\ runs' = [runs EXCEPT ![p][event].status = "failure",
                            ![p][event].lost = matrix(p, event)]
    /\ faults' = IF TooMany(p, matrix(p, event)) THEN faults ELSE faults + 1
    /\ UNCHANGED <<labels, release>>

(***************************************************************************)
(* The build jobs.  fail-fast is off, so that they all run; one that fails *)
(* to build has no artifact.  The artifact is uploaded before it is        *)
(* validated, so that one that is not valid stays with the run.  A dry run *)
(* builds nothing.                                                         *)
(***************************************************************************)
Builds(p, event) ==
    LET jobs == Jobs(p, matrix(p, event))
    IN  {e \in matrix(p, event) : e \in jobs /\ ~e.dryRun}

Build(p, event) ==
    /\ runs[p][event].status = "crates"
    /\ runs' = [runs EXCEPT ![p][event].status = "success",
                            ![p][event].lost = matrix(p, event) \ Builds(p, event)]
    /\ UNCHANGED <<labels, release, faults>>

BuildFails(p, event) ==
    /\ runs[p][event].status = "crates"
    /\ faults < MaxFaults
    /\ \E e \in Builds(p, event), uploaded \in BOOLEAN :
        /\ runs[p][event].rerun => e \in runs[p][event].lost
        /\ <<e.target_triple, e.build_options>> \in Fragile
        /\ runs' = [runs EXCEPT ![p][event].status = "failure",
                        ![p][event].lost = (matrix(p, event) \ Builds(p, event)) \cup {e},
                        ![p][event].invalid = @ \cup IF uploaded THEN {e} ELSE {}]
    /\ faults' = faults + 1
    /\ UNCHANGED <<labels, release>>

(* "Re-run failed jobs", of the same run, which keeps the artifacts of the *)
(* attempts before and can now succeed.                                    *)
Rerun(p, event) ==
    /\ runs[p][event].status = "failure"
    /\ runs' = [runs EXCEPT ![p][event].rerun = TRUE, ![p][event].status =
                    IF runs[p][event].crates = {} THEN "queued" ELSE "crates"]
    /\ UNCHANGED <<labels, release, faults>>

(* The artifacts of a run: which event's it is, the build, and whether it  *)
(* is the one that was validated or that of an attempt before.             *)
Artifacts(p, event) ==
    {<<event, e, TRUE>> : e \in matrix(p, event) \ runs[p][event].lost}
        \cup {<<event, e, FALSE>> : e \in runs[p][event].invalid}

----------------------------------------------------------------------------
(* Mistakes: list_runs without .status("success"), or without              *)
(* .event("push").                                                         *)
FoundInvalid(p) ==
    {event \in {"push"} : runs[p][event].status \in {"success", "failure"}}

FoundAnyEvent(p) == {event \in Events : runs[p][event].status = "success"}

(* The runs of a workflow that list_runs finds for the commit.             *)
Found(p) == {event \in {"push"} : runs[p][event].status = "success"}

(* fs::write replaces a file; here the artifacts written to each name are  *)
(* all kept, since they arrive in any order and any may be the last.       *)
Store(files, builds) ==
    [n \in {b[1] : b \in builds} \cup DOMAIN files |->
        {b[2] : b \in {c \in builds : c[1] = n}}
        \cup IF n \in DOMAIN files THEN files[n] ELSE {}]

(* release-run: rm -rf dist, then the runs of the commit, all or nothing.  *)
Begin ==
    /\ phase \in {"idle", "missing"}
    /\ dist' = <<>>
    /\ IF \A p \in Platforms : Found(p) # {}
       THEN phase' = "fetch" /\ todo' = Platforms
       ELSE phase' = "idle" /\ todo' = {}
    /\ UNCHANGED <<labels, runs, faults>>

(* The phase ends with its last platform.                                  *)
Proceed(p, next) ==
    IF todo = {p} THEN phase' = next /\ todo' = Platforms
                  ELSE phase' = phase /\ todo' = todo \ {p}

Fetch(p) ==
    /\ phase = "fetch" /\ p \in todo
    /\ \E event \in Found(p) :
        dist' = Store(dist, {<<Archive(a[2]), a>> :
                    a \in {b \in Artifacts(p, event) : Wants(Archive(b[2]))}})
    /\ Proceed(p, "convert")
    /\ UNCHANGED <<labels, runs, faults>>

Convert(p) ==
    LET sources == {n \in DOMAIN dist :
                        /\ CiTargets[n.triple].platform = p
                        /\ InstallOnlySource(n)}
        Made(n) == LET only == produce_install_only(n)
                   IN  {only, produce_install_only_stripped(only)}
    IN  /\ phase = "convert" /\ p \in todo
        /\ dist' = Store(dist, UNION {Made(n) \X dist[n] : n \in sources})
        /\ Proceed(p, "upload")
        /\ UNCHANGED <<labels, runs, faults>>

(* A download, a conversion or LLVM fails: what was written stays.         *)
ScriptFails ==
    /\ phase \in {"fetch", "convert"}
    /\ faults < MaxFaults
    /\ phase' = "idle" /\ todo' = {}
    /\ faults' = faults + 1
    /\ UNCHANGED <<labels, runs, dist>>

(* release-run takes the date from the name of one file.                   *)
Dated == Name(10, "x86_64-unknown-linux-gnu", <<{"install_only"}>>, "tar.gz")
            \in DOMAIN dist

Upload ==
    /\ phase = "upload"
    /\ phase' = IF ~Dated THEN "idle"
                ELSE IF missing(DOMAIN dist) = {} THEN "uploaded" ELSE "missing"
    /\ todo' = {}
    /\ UNCHANGED <<labels, runs, dist, faults>>

Next ==
    \/ \E p \in Platforms, event \in Events :
        \/ BuildCrates(p, event) \/ CratesFail(p, event)
        \/ Build(p, event) \/ BuildFails(p, event)
        \/ Rerun(p, event)
    \/ Begin
    \/ \E p \in Platforms : Fetch(p) \/ Convert(p)
    \/ ScriptFails
    \/ Upload

Spec == Init /\ [][Next]_vars

----------------------------------------------------------------------------
(* A build job downloads the pythonbuild executable by the name in its     *)
(* matrix entry: for every set of labels, and with runners of another      *)
(* architecture than the target's, the crate jobs of the same workflow     *)
(* have made the one for the runner the job is on.                         *)
CrateAvailable ==
    \A p \in Platforms, event \in Events :
        runs[p][event].status \in {"crates", "success"} =>
            \A e \in matrix(p, event) : /\ e.crate \in runs[p][event].crates
                                        /\ e.crate[3] = e.runner.arch

(* Every file that may be released, an install_only archive too, comes     *)
(* from the artifact of a build of the push workflow that passed           *)
(* validate-distribution.  It is the very artifact that passed, unless the *)
(* jobs that failed were run again: an artifact is uploaded before it is   *)
(* validated, fetch takes those of every attempt, they hold a file of the  *)
(* same name, and the one that was not valid may be the one that stays.    *)
OnlyValidated ==
    \A n \in DOMAIN dist : \A b \in dist[n] :
        LET run == runs[b[2].platform][b[1]]
        IN  b[1] = "push" /\ b[2] \notin run.lost /\ (b[3] \/ run.rerun)

(* No file of dist is replaced by one of another build that has the same   *)
(* name: what fetch renames and converts comes from one build each.        *)
NoOverwrite ==
    \A n \in DOMAIN dist : \A a, b \in dist[n] : a[1] = b[1] /\ a[2] = b[2]

(* When the runs of a commit have succeeded and all was fetched, the       *)
(* upload misses no file: RELEASE_TRIPLES wants what ci-targets.yaml       *)
(* builds, and the list of what is not built has the rest.                 *)
NothingMissing == phase # "missing"

(* An upload without missing files is complete: what is wanted is told by  *)
(* the versions among the files, and yet no build and no version of        *)
(* ci-targets.yaml is left out, and each version of each triple has its    *)
(* install_only archive.                                                   *)
Complete ==
    phase = "uploaded" =>
        LET uploaded == build_wanted_filenames(DOMAIN dist) \cap DOMAIN dist
        IN  \A t \in DOMAIN CiTargets : \A e \in EntriesOf(t, {}) :
                /\ Archive(e) \in uploaded
                /\ Name(e.python, t, <<{"install_only"}>>, "tar.gz") \in uploaded

=============================================================================
