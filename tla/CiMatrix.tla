------------------------------ MODULE CiMatrix ------------------------------
(***************************************************************************)
(* The jobs of one CI workflow: what ci-matrix.py makes of                 *)
(* ci-targets.yaml, ci-runners.yaml and the labels of a pull request.      *)
(*                                                                         *)
(* A Python version is its minor number, a build option such as            *)
(* freethreaded+pgo+lto the set of its parts, and a label c:v a pair.      *)
(* The workflows pass --free-runners, which is why only those runners      *)
(* remain.                                                                 *)
(***************************************************************************)
EXTENDS Naturals, Sequences, FiniteSets, SequencesExt

CONSTANTS
    Minors,     \* python_versions of the targets
    Limit       \* CI_MATRIX_SIZE_LIMIT

ASSUME MatrixAssumption == Minors \subseteq Nat /\ Limit \in Nat \ {0}

Platforms == {"darwin", "linux", "windows"}

(* Build options, and the ones of build_options_conditional.               *)
Pgo == {{"debug"}, {"pgo", "lto"}}
NoPgo == {{"debug"}, {"lto"}, {"noopt"}}
WindowsPgo == {{"pgo"}}
Static(options) == {o \cup {"static"} : o \in options}
Freethreaded(options) == {o \cup {"freethreaded"} : o \in options}

(***************************************************************************)
(* ci-targets.yaml: a row is the platform, the architecture, the libc, the *)
(* oldest minor version, the build options, the ones from 3.13 on, the     *)
(* value of "run" and the batch file that sets up Visual C++.  The         *)
(* override of vs_version changes only the runner's image.                 *)
(***************************************************************************)
Row(platform, arch, libc, oldest, options, from313, run, vcvars) ==
    [platform |-> platform, arch |-> arch, libc |-> libc, oldest |-> oldest,
     options |-> options, from313 |-> from313, run |-> run, vcvars |-> vcvars]

CiTargets ==
    [t \in {"aarch64-apple-darwin", "x86_64-apple-darwin",
            "aarch64-unknown-linux-gnu", "x86_64-unknown-linux-gnu",
            "x86_64-unknown-linux-musl", "aarch64-unknown-linux-musl",
            "i686-pc-windows-msvc", "x86_64-pc-windows-msvc",
            "aarch64-pc-windows-msvc"} |->
        CASE t = "aarch64-apple-darwin" ->
                Row("darwin", "aarch64", "", 10, Pgo, Freethreaded(Pgo), "", "")
          [] t = "x86_64-apple-darwin" ->
                Row("darwin", "x86_64", "", 10, Pgo, Freethreaded(Pgo), "true", "")
          [] t = "aarch64-unknown-linux-gnu" ->
                Row("linux", "aarch64", "gnu", 10, Pgo, Freethreaded(Pgo), "", "")
          [] t = "x86_64-unknown-linux-gnu" ->
                Row("linux", "x86_64", "gnu", 10, Pgo, Freethreaded(Pgo), "true", "")
          [] t = "x86_64-unknown-linux-musl" ->
                Row("linux", "x86_64", "musl", 10, NoPgo \cup Static(NoPgo),
                    Freethreaded(NoPgo), "true", "")
          [] t = "aarch64-unknown-linux-musl" ->
                Row("linux", "aarch64", "musl", 10, NoPgo, Freethreaded(NoPgo),
                    "true", "")
          [] t = "i686-pc-windows-msvc" ->
                Row("windows", "x86", "", 10, WindowsPgo, Freethreaded(WindowsPgo),
                    "", "vcvars32.bat")
          [] t = "x86_64-pc-windows-msvc" ->
                Row("windows", "x86_64", "", 10, WindowsPgo,
                    Freethreaded(WindowsPgo), "", "vcvars64.bat")
          [] t = "aarch64-pc-windows-msvc" ->
                Row("windows", "aarch64", "", 11, WindowsPgo,
                    Freethreaded(WindowsPgo), "", "vcvarsamd64_arm64.bat")]

(* The free runners of ci-runners.yaml, in the file's order.               *)
Runners == <<
    [name |-> "ubuntu-latest", platform |-> "linux", arch |-> "x86_64"],
    [name |-> "ubuntu-22.04-arm", platform |-> "linux", arch |-> "aarch64"],
    [name |-> "macos-latest", platform |-> "darwin", arch |-> "aarch64"],
    [name |-> "windows-latest", platform |-> "windows", arch |-> "x86_64"],
    [name |-> "windows-2025-vs2026", platform |-> "windows",
     arch |-> "x86_64"],
    [name |-> "windows-11-arm", platform |-> "windows", arch |-> "aarch64"]>>

(* A runner of the architecture, or else the platform's first.             *)
FirstRunner(S) == Runners[CHOOSE i \in S : \A j \in S : i <= j]
find_runner(platform, arch) ==
    LET onPlatform == {i \in DOMAIN Runners : Runners[i].platform = platform}
        onBoth == {i \in onPlatform : Runners[i].arch = arch}
    IN  FirstRunner(IF onBoth # {} THEN onBoth ELSE onPlatform)

(* parse_labels: the values wanted of each category, ci being another name *)
(* of directives, and documentation a directive of its own.                *)
parse_labels(labels) ==
    [c \in {"platform", "python", "build", "arch", "libc", "directives"} |->
        {l[2] : l \in {k \in labels : \/ k[1] = c
                                      \/ k[1] = "ci" /\ c = "directives"}}]

should_include_entry(entry, filters) ==
    LET Allows(c, value) == filters[c] = {} \/ value \in filters[c]
    IN  /\ "skip" \notin filters.directives
        /\ Allows("platform", entry.platform)
        /\ Allows("python", entry.python)
        /\ Allows("arch", entry.arch)
        /\ entry.libc = "" \/ Allows("libc", entry.libc)
        /\ filters.build \subseteq entry.build_options

crate_artifact_name(platform, arch) == <<"crate", platform, arch>>

(* create_python_build_entry: Visual Studio 2026 has a runner of its own.   *)
RunnerFor(triple, v) ==
    IF triple = "x86_64-pc-windows-msvc" /\ v >= 15
    THEN FirstRunner({i \in DOMAIN Runners : Runners[i].name = "windows-2025-vs2026"})
    ELSE find_runner(CiTargets[triple].platform, CiTargets[triple].arch)

(***************************************************************************)
(* add_python_build_entries_for_config: the entries of one triple.  The    *)
(* crate is the one for the runner's architecture, not the target's, and   *)
(* the distribution is run when the two are the same or the table says so. *)
(***************************************************************************)
EntriesOf(triple, directives) ==
    LET config == CiTargets[triple]
        runner == find_runner(config.platform, config.arch)
        Entry(v, o) ==
            [target_triple |-> triple, platform |-> config.platform,
             arch |-> config.arch, libc |-> config.libc,
             python |-> v, build_options |-> o, vcvars |-> config.vcvars,
             runner |-> RunnerFor(triple, v),
             run |-> config.run = "true" \/ runner.arch = config.arch,
             crate |-> crate_artifact_name(config.platform, runner.arch),
             dryRun |-> "dry-run" \in directives]
        versions == {v \in Minors : v >= config.oldest}
    IN  {Entry(v, o) : v \in versions, o \in config.options}
        \cup {Entry(v, o) : v \in {w \in versions : w >= 13},
                            o \in config.from313}

generate_python_build_matrix_entries(platform, labels) ==
    LET filters == parse_labels(labels)
        triples == {t \in DOMAIN CiTargets : CiTargets[t].platform = platform}
    IN  {e \in UNION {EntriesOf(t, filters.directives) : t \in triples} :
            should_include_entry(e, filters)}

(* A mistake the checks must notice: crates for the target's architecture  *)
(* and not the runner's.                                                   *)
CratesByTarget(entries, platform, force) ==
    {crate_artifact_name(platform, e.arch) : e \in entries}

(* The crates that the entries download, and with --force-crate-build the  *)
(* ones of every target that can be run.                                   *)
generate_crate_build_matrix_entries(entries, platform, force) ==
    LET native == {t \in DOMAIN CiTargets :
                       /\ force
                       /\ CiTargets[t].platform = platform
                       /\ CiTargets[t].run = "true"}
    IN  {crate_artifact_name(platform, e.runner.arch) : e \in entries}
        \cup {crate_artifact_name(platform, CiTargets[t].arch) : t \in native}

(* ci-matrix.py: with --max-shards 2, on Linux, it gives up when more are  *)
(* needed.  linux.yml has jobs for shard 0 only.                            *)
Shards(entries) == (Cardinality(entries) \div Limit) + 1

TooMany(platform, entries) == platform = "linux" /\ Shards(entries) > 2

Jobs(platform, entries) ==
    IF platform = "linux" /\ Cardinality(entries) > Limit
    THEN CHOOSE first \in kSubset(Limit, entries) : TRUE
    ELSE entries
=============================================================================
