# Formal models of python-build-pystandalone

TLA+ models of the parts of this repository whose correctness depends on order,
concurrency, failures or agreement between hand-kept lists, with TLC runs on
small instances and TLAPS proofs for every value of the constants.

    tlc -config MCDownload.cfg MCDownload      # model-check one instance
    tlapm Download_proofs.tla                  # check the proofs

`PROJECT.json` lists components, runs, mutated definitions that each property
rejects, the source lines every definition stands for, hazards and theorems.

## 1. Inventory

The repository builds self-contained CPython distributions, with an encrypting
import system added (`pystandalone/`), in CI, and publishes them.

    build-main.py ── make -jN ── one build.py per archive ──┬─ download_to_path
          │                          (Makefile)             └─ Docker / tempdir
          └─ compress into dist/ ── CI artifact ─┐
    ci-matrix.py ── jobs of linux/macos/windows.yml
                                                 │
    pythonbuild fetch-release-distributions ─────┘ ── dist/ ── upload ── draft
                                                             ── publish ── mirror
    inside the interpreter: _pystandalone.Cipher, pystandalone.c (archives)

| Part | State it keeps | Operations | Hard behaviour | What makes it correct | Module |
|---|---|---|---|---|---|
| `pythonbuild/utils.py` downloads | the file at a path, one temporary file per process | `download_to_path`, `secure_download_stream`, `download_entry` | several build processes on one path, crashes, retries, truncated or altered streams | nobody ever uses bytes other than the pinned ones; nothing is lost | `Download` |
| `cpython-unix` orchestration (`Makefile`, `build-main.py`, `build.py`, `buildenv.py`, `docker.py`) | archives, image ids, modification times, `dist/` | rules under `make -j`, `build.py` per archive, compression | parallel recipes, failing recipes, kills, edits and rebuilds in one directory | a recipe finds what it installs; a completed build reflects its sources | `BuildGraph`, `UnixBuild` |
| CI matrix (`ci-matrix.py`, `ci-targets.yaml`, `ci-runners.yaml`) | none (tables) | matrix of builds and crates for labels and event | labels, shards, runners of another architecture | each job finds its executable; each target is built | `CiMatrix` |
| CI workflows | runs, artifacts | matrix, crate jobs, build jobs | upload before validation, failing jobs, re-runs, runs of several events for a commit | only validated builds of a push are released | `ReleasePlan` |
| `fetch-release-distributions`, release naming (`github.rs`, `release.rs`) | `dist/` | list runs, download, convert, wanted names | three hand-kept tables, renames | the release is complete, no file replaces another | `ReleasePlan` |
| Release publication (`github.rs`, `Justfile`, `release.yml`) | the draft and its assets on GitHub | create, upload, check, finalize | concurrent uploads, lost answers, timeouts, late stores, overlapping and repeated runs | a release appears whole and never changes | `Release` |
| Mirror (`pythonbuild/mirror.py`) | objects of a bucket, futures of a pool | upload all, then `SHA256SUMS` | failing uploads, crashes, repeated and overlapping runs | `SHA256SUMS` means "complete" | `Mirror` |
| `_pystandalone.Cipher` | `enc`, `state`, key, OpenSSL context, mutex | encrypt, decrypt, update, digest, verify, clean and their combinations | threads, failure of every library call, long call sequences | state tells the truth, one tag over all data, combined calls are atomic | `Cipher` |
| `_pystandalone` rest (`PublicKey`, payload, bootstrap) | none between calls | encrypt, der, pem, get_library | — | — | not modelled |
| `Python/pystandalone.c` | list of embedded archives | parse the payload, install importers | 32-bit sizes, reads at the end of the payload | every well-formed payload is read back, no read outside it | not modelled (plan, 1) |
| Extension configuration (`cpython.py`, `extension-modules.yml`) | none (derived per target) | `derive_setup_local` | several lists per version and platform | what is linked is what is listed | `ExtensionTables`, `Extensions` |
| Metadata (`python_build_info`, `validate_python_json`) | `PYTHON.json` | derive, validate | agreement with the extension lists | every configured build is accepted, and what is accepted is described as it was built | `Extensions` |
| Validation (`validation.rs`, `macho.rs`) | a list of errors | extension lists, JSON, ELF, Mach-O, PE | lists per version and platform | as above | `Extensions` (the extension lists); binary formats are parsing by libraries |
| Windows build (`cpython-windows/build.py`), `static.py` | the source directory, kept OpenSSL and libffi archives | archives, edits of sources and projects, calls of MSBuild, collection, `PYTHON.json` | archives reused across builds, builds that are cut short, order of edits, optional edits, a first build that may fail | kept archives are whole and current, or known; projects are converted whole; the description is that of the executable | `StaticProjects`, `WindowsBuild` |
| Distribution tests | none | run the interpreter, compare | — | — | not modelled |
| Shell recipes | files of one container | configure, make, install | — | — | not modelled inside; `UnixBuild` models when and with what they run |
| `pystandalone/build.py` | a source tree | clone, patch, diff | interrupted clone or patch | — | not modelled (plan, 3) |
| Package and target tables (`downloads.py`, `targets.yml`) | none | — | names and licences kept apart from what links them | a bundled library is credited | `ExtensionTables`, `BuildGraph` |
| Entry points | none | arguments, virtual environment | — | — | not modelled: set-up |

Interaction. The build processes share nothing but the file system: the
download directory (`Download`) and the build directory (`UnixBuild`). A CI job
hands its archive on as an artifact, which a later command finds through the
name and the commit (`ReleasePlan`). That command's `dist/` directory is what an
upload run reads (`Release`: `Dists` is what such a directory may hold) and what
the mirror reads (`Mirror`). `Release` and `Mirror` share the abstract
specification `Publication`. What a job's archive contains is decided by
`Extensions` on Unix and by `WindowsBuild` on Windows; to the other modules an
archive is a value. The cipher is independent of the rest.

## 2. Modules

### Download

One action per step of `download_to_path` that another process can come between:
`Exists`, `Stat`, `Hash`, `Unlink`, `Open`, one action for each way a stream
ends, `Rename`; then `CallerReads` (`download_entry` opens the path it was given)
and `Crash`. A file is what the code can tell about it: absent, wrong size (of
which "at most 75 % of the bytes" is a case of its own: only that one is retried),
right size with another hash, good. `final` is the shared file,
`tmp[p]` the process's own temporary file, `attempt[p]` the loop variable.

### Publication, Release, Mirror

`Publication` is the promise: nothing is visible, then one complete set is, for
good.

`Release` models one workflow execution as `View` and `Create` (the two requests
of `just release-create`), `Download` (what arrives in `dist/`), `Snapshot` (the
draft is looked up and its assets are listed once), for each name `Start` and one
of `Uploaded`, `ResponseLost`, `Refused`, `TimedOut`, `Rejected`, then `Check`
(which looks the draft up again) and `Finalize` (which lets `gh` find one).
`Transient` is `GitHubUploadRetryStrategy` with its bounded retries; `Abort` is the
`?` that drops all futures. The server may complete a request nobody waits for any
more (`LateStore`), before or after publication. `RejectsDuplicates` (a second
asset of one name is a 422) and `Munges` (the names whose bodies may be altered,
as the comment at `github.rs:582` reports of one) are constants.

Two overlapping runs can both be told that the tag has no release and both make a
draft. So a release is named after the run that made it, and each request that
finds a release by its tag may find any (`Existing`); nothing in the code or in
GitHub's interface says which. That a tag has at most one published release, and
that publishing a second one is refused, is an assumption about GitHub.
`contested` records that a release was published while the tag had another one:
then what was checked and what was published may differ, and `PublishedChecked`
and `PublishesAtomically` say nothing (section 3, gaps).

`Mirror` models `Begin` (read `SHA256SUMS`, check, submit), `Take`, `Stored` and
`NotStored` per worker, `Collect` (the loop over `as_completed`, which keeps the
error of each future while the workers go on), `Join` and `UploadSums`.

Both are mapped to `Publication` through what a user can see: the assets of a
published release, and the objects of a bucket that has `SHA256SUMS`.

### Cipher

`self` joins the C struct with what the OpenSSL context holds. A call is
`Invoke`, `Lock`, one or two internal functions, `Unlock`. Each internal
function has an action for success, for the refusal by its own guards, and for
each library or allocation failure, which differ in what they undo. A tag is the
pair of associated data and message it authenticates, so "the right tag" is
equality. AEAD and block ciphers (with data that is not a multiple of the block)
are both initial states.

### BuildGraph, UnixBuild

`BuildGraph` translates two lists: `Prereqs` from the Makefile, `Uses` from the
`build_*` functions of `build.py`. `Below` and `Derives` are their closures.
`UnixBuild` runs them: `Start` (make decides what is out of date), `Launch`
(limited by `-j`), `Install`/`InstallFails`, `Write`, `Record` (the id file of an
image, which is a second file), `Finish` or `GiveUp`, `Compress`, `Rename`; and
`RecipeFails`, `CompressFails`, `Kill`, `Edit(source)`. Modification times are reduced to
what make concludes from them (`older`).

A file that was being written when its recipe failed or was killed is torn, and
make takes it for an archive: the Makefile has no `.DELETE_ON_ERROR`. An image
may be left without its id in the same way, and a patch, a licence file or an
entry of `disabled-modules` is a prerequisite of no rule (`OtherSources`).
`unnoticed` is a history variable with the archives to which one of the three
happened and that were not remade since. `InputsReady` and `FreshBuild` hold in
all states: they say that whatever is missing or not current in a build that
goes on traces back to an archive in `unnoticed`. These are limits of the code,
listed as hazards; the properties show that there is no other.

`TargetsAssumption` states what all targets of `targets.yml` have in common: their
needs are packages, X11 libraries come with `tk` and `libX11`, and what runs in Docker
needs `binutils` (and `libX11`, if it needs `tk`). The rest follows from the two
lists, and is proved (section 4).

### CiMatrix, ReleasePlan

`CiMatrix` holds `ci-targets.yaml`, `ci-runners.yaml` and the functions of
`ci-matrix.py` as operators: labels, options, versions, runners, crates, shards.
`ReleasePlan` is the life of a commit: on each platform a run for the push and
one for a pull request (`BuildCrates`, `Build`, and their failures, where an
artifact may exist although validation failed), `Rerun` of the failed jobs of a
run, which keeps the artifacts of its earlier attempts, then `Begin`, `Fetch`,
`Convert` and `Upload` of the release commands. `dist` maps a name to the set of
builds that were written to it, each with what validation said of it, so that
overwriting is visible. A name is a record of version, triple, options, flavor
and extension, never a string. `CiTargets`, `RELEASE_TRIPLES` and `NotBuilt` are the
three hand-kept tables, each transcribed by itself: a target, a suffix or a
version requirement that is in one of them only is found by `NothingMissing` or
`Complete`. That failed jobs can be run again within the run, and that the artifacts
of earlier attempts are then still listed, is what GitHub Actions does; only failed
runs are run again here.

### ExtensionTables, Extensions

What modules a Unix distribution has is written down several times, by hand.
`ExtensionTables` holds these lists as sets: `extension-modules.yml` with its
versions, targets and build modes, `disabled-modules`, the lists of
`validation.rs`, the needs of a target, the library names and licences of
packages. CPython's own `Setup` and `config.c` are not in the repository; they
are external and agree, at first, with the YAML file (`StockLists`).

`Extensions` follows one distribution through `Derive` (`derive_setup_local`: its
comparisons, each of which can reject the build, then the lines it writes), `Make`
(what makesetup makes of them; external), `Describe` (`python_build_info`,
`add_licenses_to_extension_entry`, `validate_python_json`) and `Validate`
(`validation.rs`). `Slip` is a maintainer, or a new CPython, who adds a name to a
list or takes one away before the build. `_new` and `_new2` are names nobody has
listed yet, the second with a digit.

### StaticProjects, WindowsBuild

`StaticProjects` translates the edits of `pythonbuild/static.py` and `hack_props`
as operators on files. A project file is the sequence of the lines that an edit or
MSBuild tells apart: a tag, or the name of a setting. Searching, replacing, copying and
inserting happen on that sequence by position, as in the code, which is where
edits can go wrong; an edit that raises gives `Failed`. Of `PC/config.c` the edits and
the compiler see how often a module is declared and how often it is in the table, so
it is a pair of counts for each module.

`WindowsBuild` is a machine that keeps its build directory: `Start`,
`build_openssl` and `build_libffi` (which may be cut short after any member of the
archive they write) or `UseArchive` when a file of the name exists, `Extract`
(which takes the members that are there: `tarfile` reports the end of an archive
only inside of one),
`hack_pystandalone_files`, `hack_project_files`, `hack_source_files` (mandatory
edits, alternatives, optional edits), `MSBuild` for each call in `Plan` and
`MSBuildTolerated` for the first one of 3.10 whose exit code is ignored, then
`package` (`collect_python_build_artifacts`, `validate_python_json`, the layout
and `PYTHON.json`). `Fail` ends a build anywhere. `Change` and `Bump` alter a list,
a source of CPython, or a pinned version, between two builds. Of the long tables
the model has the entries that the build treats differently. `src.cut`,
`src.libs` and `src.reused` record history that the properties are about. What of
an archive is missing is noticed by whoever needs it: the projects that MSBuild
builds (`Needs`) and the copies at the end of `build_cpython`.

## 3. Runs

| Run | Instance | What it shows |
|---|---|---|
| `download` | 3 processes, 2 attempts, any content found at the path | No bad bytes are ever read or installed, temporary files do not outlive success, every call ends; if nothing bad is found at the start no process disturbs another (`NothingLost`). |
| `download_race` | 2 processes | **Violation.** With a bad file at the start, a slower process removes the file the faster one has just installed and returned; see Findings. |
| `release` | 2 overlapping runs, with one draft or two, of 2 different builds, or of one whose `dist` lacks a file; 2 files, window 2, 1 retry, a server that may alter `SHA256SUMS` | `SHA256SUMS` never precedes a file it lists; a release published as the only one of its tag carries the publisher's `SHA256SUMS` and every file, and nothing changes it afterwards, late stores and the other run included (the release implements `Publication`); every run ends. |
| `release_stale` | the two builds again, no retry | **Violation.** A second run skips what a failed run of another build left; see Findings. |
| `mirror` | 2 runs, 3 files, 2 threads, whole and partial `dist` | One error stops and hides no other upload: a run that was not killed had an answer for each file and reports exactly those that failed; `SHA256SUMS` is last; runs end; the bucket implements `Publication`. |
| `cipher` | 2 threads, 2 pieces of data, any 3 calls, every failure | `enc` and `state` tell the context's state, one tag covers everything, combined calls are atomic, no data after the tag, cleaned stays cleaned, every call returns. |
| `cipher_ad` | any 2 calls | **Violation.** Associated data that was accepted is not part of the tag; see Findings. |
| `unix_build` | Linux with X11 and tk, static musl, macOS; `-j2`; two edits of scripts, an image or patches, one fault | Recipes find what they install and a completed build is fresh, but for what an interrupted write or a source without a rule explains; `dist/` changes in one step; every build ends. |
| `release_plan` | all targets, Python minors 10 and 15, three label sets, one fault anywhere, re-runs of what failed | The pythonbuild executable of every job exists; only builds of the push that passed validation are released, but for the gap of re-runs (below); no file replaces another; nothing wanted is missing and nothing built is left out. |
| `extensions` | 6 versions on an Apple, a glibc and a musl target, static and dynamic; up to 2 slips in any list | An unchanged repository is never rejected; a distribution that passes is described as it was built, but for two gaps (below); one slip leaves no bundled library without its credit. |
| `metadata_paths` | free-threaded and debug builds on each target | **Violation.** `PYTHON.json` names a `libpython` that is not installed; see Findings. |
| `windows_build` | 3.10, 3.12 and 3.14, with and without PGO and free threading; 3 events among changes of a list, new pins and builds; an archive cut short after any member | The description is that of the executable; archives, `zipimport` and credits are current; converted projects are whole; each but for the gaps named below. |

### Bounds and why they are enough

- `MaxAttempts` 2 for `range(8)`: the attempts reuse one temporary file and
  differ only in being the last or not. Three processes give a process that acts
  on an old check, one that installs and one that reads. The proofs hold for all
  values of both.
- `Window` 2 for 16, `MaxRetries` 1 for 5, two files: with two files a window of
  two leaves both in flight, and `SHA256SUMS` shows the ordering; a retry count is
  used up or not. Two runs are the fewest that overlap and that make two drafts,
  and a failed run followed by another one is among them. The altering server
  alters `SHA256SUMS` only, the one file whose bytes the code looks at again; the
  proofs are for any choice. 446,336 states.
- `UploadConcurrency` 2 for 4 with three files: one file has to wait.
- Three calls on a cipher: one to key it, one to compute a tag, one to misuse it;
  two threads to interleave. The proofs hold for any number of threads and calls.
- Three targets: the four classes of the target table that differ in their graphs
  are with or without Docker, toolchain, static and X11, and each of these occurs.
  Two edits and one fault, anywhere, with rebuilds without bound: a second edit
  can meet an archive that the first one, or a fault, left behind.
- The thresholds of the tables are 3.11, 3.13 and 3.15 (the last one the Visual
  Studio version of `ci-targets.yaml:162-164`): minor 10 is below all of them and 15
  on the other side of all. 140,997 states.
  `Fragile` names two builds that may fail, one of which has another platform;
  which build of a platform fails makes no difference to the rest. `Limit` is the
  256 entries that a matrix of GitHub Actions may have.
- Extensions: all six versions and one target of each class, so that no entry of
  the tables is out of reach. Two slips: two lists can be wrong in the same way,
  and hide each other from a comparison. `LibrariesCredited` is for one slip.
- Windows: 10, 12 and 14 lie on the two sides of each threshold of the build. Three
  events are a change and two builds, the second of which finds what the first
  one kept; `MCSlips` has a change of each kind that a list can see. 455,636
  states.

### Fairness

- `Download`: weak fairness of each process. `urlopen` has no timeout, so this
  assumes that a stalled connection is ended by the server or operating system.
- `Release`: weak fairness of each run's step: the client has a timeout of 60 s
  and a bounded number of retries. None for `LateStore` and `Crash`.
- `Mirror`: weak fairness of each run's step; boto3 bounds its own retries.
- `Cipher`: weak fairness of `Lock`, the method body and `Unlock` per thread.
  Calls are bounded by `MaxCalls`, so no thread can keep a mutex away from
  another for ever and weak fairness suffices. None for `Invoke`.
- `UnixBuild`: weak fairness of the build's own steps. None for starting, killing,
  failing or editing; an edit happens between builds only.
- `ReleasePlan`, `Extensions` and `WindowsBuild` make no liveness claim and assume
  no fairness: they are sequences of stages that may stop anywhere.

### Findings

1. `download_to_path` unlinks on the strength of an earlier check
   (`pythonbuild/utils.py:346`). The comment just below it says that a race
   costs at worst an extra download (`download_race`). `NothingLost` shows that
   the claim does hold when nothing bad is there to begin with.
2. `upload_release_artifact` skips names that are already in the draft without
   comparing content (`src/github.rs:85`), while `SHA256SUMS` is made from local
   files; the final check compares `SHA256SUMS` alone (`release_stale`).
3. Associated data given to `Cipher.update` reaches the context before the key
   does, and keying starts a new message (`_pystandalone.c:380`, `cipher_ad`).
4. `python_build_info` computes the paths of `libpython` without the suffixes of
   free-threaded and debug builds, and names a shared one for Apple, where none is
   built (`cpython-unix/build.py:485`, `metadata_paths`).

Some passing properties name gaps: places where the code does less than one would
expect. Each property says that there is no other.

- `FreshBuild`, `InputsReady`: torn archives, images without id, sources without
  a rule (above); `build.py` and `pythonbuild/*.py`, behind every archive, have no
  rule either and do not change in the model.
- `PublishedChecked`, `PublishesAtomically`: two dispatches for one tag that overlap
  between `gh release view` (`Justfile:78`) and `gh release create` (`Justfile:88`)
  make two drafts. The files may then go to one, `Check` read the other, and
  `Finalize` publish either: without `~contested` TLC finds a published release
  that was never filled.
- `OnlyValidated`: an artifact is uploaded before it is validated (`linux.yml:309`
  and 317). If the failed job is run again and passes, the run has succeeded,
  its artifacts are those of both attempts (`github.rs:287`), and both hold a file
  of the same name: the one that failed validation may be the one that stays.
- `DescribedIsBuilt`: a module whose name has a digit and that upstream enables in
  `Setup` is not read by `RE_EXTENSION_MODULE` (`cpython.py:355`); a disabled
  module that `config.c` names stays in the interpreter (`cpython.py:490`).
- `DescribedIsLinked`: `_pystandalone` is entered into `config.c` twice; disabling
  a module removes the entry of one with a longer name as well (`static.py:54`);
  a free-threaded `PYTHON.json` names `python3X.lib` and the file is
  `python3Xt.lib` (`cpython-windows/build.py:1442` and 1437).
- `ShippedIsCurrent`: a kept archive is used whatever its version, and one of
  libffi that was cut short before its headers as long as `_ctypes` is disabled; the
  `zipimport` of a 3.10 build may be upstream's when its first MSBuild call was cut
  short. In `EXTENSION_TO_LIBRARY_DOWNLOADS_ENTRY`, the row of `zlib` is never looked
  up; `_decimal` has none, although from 3.13 on it would bring a library of its
  own, `mpdecimal` (`build.py:1613`), if it were no longer in `disabled-modules`;
  nothing asks for the credit of a library without a path, so that the rows of
  `_bz2` and `_zstd` may be lost; and it is the entry of `_ssl` alone that asks for
  OpenSSL's, so that a distribution without `_ssl` and without the row of `_hashlib`
  leaves out the one that `_pystandalone` contains.
- `ProjectsConverted`: a project without definitions of its own that depends on a
  static library gets its `<ProjectReference>` one line too far (`static.py:216`).

## 4. Proofs

All leaves are checked by tlapm; nothing is assumed beyond the named
assumptions on constants.

`Download_proofs` (any set of processes, any positive `MaxAttempts`). Type
correctness, `NeverBadBytes`, `TmpRemoved`, `OnlyGoodInstalled` and `NothingLost`.
`NeverBadBytes` alone is not inductive: a process about to rename must hold good
bytes (`ReadyToRename`), one that has not opened its temporary file must have
none (`NoTmp`), and a process before or in the loop has attempts left
(`AttemptsLeft`). `NothingLost`
needs another invariant, `FreshInv`: no process is in the branch that unlinks,
and each one that has seen the file exist, or returned, still has it.

`Cipher_proofs` (any threads, data, tags and number of calls). Type correctness
with mutual exclusion (`TypeOK`), `StateMeansContext`, `OneTag`,
`CompositeIsAtomic`, and the action properties `NoDataAfterFinal` and
`NoRevival`. `OneTag` needs `TagsCover` (a returned tag is what the context was
fed, and the context is closed); `CompositeIsAtomic` needs `HalfDone` (between the
halves of a combined method the thread holds the mutex and the context ends with
its data).

`Release_proofs` (any runs, builds, files, window and retries, and any choice of
what the server does, releases in any number). `TypeOK`, `SumsLast`,
`PublishedChecked`, the last under its own condition that the tag had one release
when it was published (a draft made later is never published, as the server has
one already: `PublisherOk`). A run's task counts
as done only for a file that is present (`OkMeansPresent`), and `SHA256SUMS` is in
flight only when every task is done (`SumsAfter`); as requests outlive their run,
the same is needed of all bodies that may still be stored (`LateOk`) and of all
that were (`StoredOk`). `PublishesAtomicallyHolds` is the refinement of
`Publication`, under `Strict`: the server refuses a second asset of a name, and
runs insist on every file. With a published release every name is taken
(`AllTaken`), so that no later store is accepted.

`Mirror_proofs` (any runs, names, threads and directories). `TypeOK`, `SumsLast`,
`NoneHidden`; the last two rest on `Futures` (a future for each file of the
directory), `OkMeansThere`, `Collected` (the errors kept so far are those of the
futures seen so far) and `Tried`. The refinement `MirrorsAtomicallyHolds` is
under `OneBuild`: all whole directories are the same, as they are for one release;
without it, two builds would be mixed.

`UnixBuild_proofs` (any targets like those of `targets.yml`, any `-j`, edits and
faults). It begins with the two lists. Neither has a cycle: both go down in `Rank`.
So what is reached along them can be reasoned about by induction on the rank, which
is the induction on natural numbers of `Induction` (by the least counterexample, as
the induction theorems of the library cannot be used); `ReachEquation` shows that the
recursive closure exists, `ReachShape` that it is transitive and made of edges. Then
`ListsAgreeHolds`: whatever `build.py` installs for an archive of a target is below
it in the Makefile, and so is all that comes from. It is the condition under which
two hand-kept lists are enough for `make -j`, and `TargetsAssumption` is what it
needs. With it, and no other hypothesis, `TypeOK`, `InputsReady`, `FreshBuild` and
`DistWhole`. The invariant: running recipes are in `todo` and nothing they are
ordered after is (`Busy`); `todo` is closed upward (`Upward`); the rest is there and
not older (`UpToDate`); an image without id is being recorded or unnoticed
(`Recorded`); a recipe that installed something bad owes that to something
unnoticed that this build does not remake (`Tainted`); and whatever is not good
derives from something unnoticed or will be remade (`Explained`).

`Extensions_proofs` (any jobs, any slips, any number of them). `TypeOK` and
`DescribedIsBuilt`. The invariant goes stage by stage: after `Derive` the lists
agree (`InSync`, `Generable`), after `Make` the interpreter has what `Setup.local`
and the lists say, after `Describe` the entries are the enabled modules; then the
theorem is that the comparisons of `derive_setup_local` leave just the two gaps.
`StockPasses` and `LibrariesCredited` are about the tables themselves, and are proved
for all of their entries. Both rest on `Few`: as long as there was one slip at most,
all lists but one are the stock ones (`Near`), no unchanged repository was rejected,
and what passed is described and credited (`Accepted`). A bundled library is then
credited because one of two lists that would both have to be wrong is the stock one.

`ReleasePlan_proofs` (any versions, labels, limit, fragile builds and faults).
`OnlyValidated` and `NoOverwrite`. A run that has not failed, and of which nothing was
run again, has uploaded nothing invalid (`RunsOK`); each file of `dist/` was made from an artifact of the push that
was not lost, in a run that succeeded (`DistOK`); and version, triple, options and
flavor of a name tell the builds apart, also after the conversion.
`CrateAvailable` needs of a state only that its labels are possible ones; that each
job finds an executable is then a fact of the tables, gone through by target and
runner. `NothingMissing` and `Complete` need the converse of
`DistOK`, that nothing was dropped on the way (`Lossless`) and that each stage was
finished before the next (`Progress`). They are under `Fits`: the unlabelled Linux
matrix has at most `Limit` entries, so that one shard holds it. GitHub refuses a
larger one, and without it shards beyond those the workflow starts would be left out.

`WindowsBuild_proofs` (any versions, changes and number of events):
`ShippedIsCurrent`, `DescribedIsLinked` and `ProjectsConverted`. An archive a
build got past is of the pinned version or was there before (`ArchivesOK`), so are
the libraries extracted from it (`LibsOK`); modules are compiled only when what the
registered projects need of the archives is there (`CompiledOK`), and as
`_pystandalone` is always registered (`RegisteredOK`) that is all of OpenSSL, and
with `_ctypes` all of libffi (`PackagedMembers`); and from 3.11 on, or after a
first call that was not cut short, what is compiled is the patched `zipimport`
(`FrozenOK`). The description is compared with the executable through the counts of
`config.c` at each stage (`ConfigOK`), where an edit that finds nothing has failed the
build; what the description says is a function of the same lists (`ListsOK`,
`JobOK`). Lists that differ about a module fail an edit, the link or the lookup of its
directory, so that a packaged build converted just the extensions that have one
(`PackagedEntries`), and only the gaps named above remain.

`ProjectsConverted` rests on what the edits do to a file of any length.
A reader (`Inside`) walks the file line by line and keeps in mind the tag it is inside of;
`Reads(a, f, b, seen)` says that it enters `f` inside of `a`, leaves it inside of `b`
without an error, and saw each line of `f` inside of the tag that `seen` gives.
Reading composes (`ReadsOn`) and can be cut at any line (`ReadsSplit`), so that each
edit becomes a change of `seen`: a replacement of lines that are no tags
(`ReplacedRead`), the copy of a `<Link>` section behind it (`CopyRead`, from what has
been seen inside of `<Link>` until then, `CopyLinesRead`), an insertion
(`InsertJoined`, `SectionAfter`). Occurrence of a line, nesting and the contents of a
section are all read off `seen` (`OccursRead`, `ReadsNested`, `SectionRead`). A project is
the part before its first `<ItemGroup>`, where everything is edited, and the rest,
which stays as it is but can hold definitions for one file. With definitions for
all files the reference lands in a group that was there; without, it is the known gap
(`WithDefinitions`, `WithoutDefinitions`). The assumption that no list names a property
sheet or `pythoncore` as an extension keeps the edited files apart.

Only model-checked is liveness (`Terminates`, `RunsEnd`, `CallsReturn`,
`BuildEnds`), which is outside of what this prover does.

## 5. Not modelled, and plan

Left, in this order:

1. `EmbeddedArchive`: the payload parser of `pystandalone.c` with 32-bit sizes and
   pointers, against a reference decoder, over all short payloads; and the
   bootstrap of LLVM in `release.rs` (two processes, crashes).
2. The mirror's mapping of names and dates back, composed with `ReleasePlan`.
3. `pystandalone/build.py`.

Of the modelled components these operations are left out: the licence and
configuration variables of `build_cpython` and the reload path of the image cache;
the branch of a release for `latest-release`; the jobs of the workflows that build
images, caches and attestations; the contents of converted and stripped archives;
sources, defines and include paths of extension modules and the JSON schema of
their table; the search for Visual Studio, the object files and the profiling run
of Windows builds (whose failure is tolerated: a `pgo` build may have no profile).

Not planned: parsing of ELF, Mach-O and PE files, distribution tests, shell
recipes, entry points and the read-only methods of the extension module. They
keep no state of the project's own, or their state is that of a library.
