---------------------------- MODULE WindowsBuild ----------------------------
(***************************************************************************)
(* cpython-windows/build.py: one build of CPython with its extensions      *)
(* linked into the executable, on a machine that keeps its build directory.*)
(*                                                                         *)
(* Of CONVERT_TO_BUILTIN_EXTENSIONS and of the modules of PC/config.c the  *)
(* model has those that the build treats differently; "_new" stands for a  *)
(* module that upstream or this repository may add.                        *)
(***************************************************************************)
EXTENDS StaticProjects, Functions

CONSTANTS
    Minors,    \* the minor versions of Python 3 that are built
    Slips,     \* pairs of a list and a name: entries that may change
    MaxEvents  \* how many changes and builds are considered

\* The files that every build edits, beside those of the extensions.
Sheets == {"libffi.props", "openssl.props", "pythoncore"}

ASSUME WindowsBuildAssumption ==
    /\ Minors \subseteq 10..15
    /\ \A s \in Slips : s[2] \notin Sheets
    /\ MaxEvents \in Nat

VARIABLES
    changed,   \* for each list, the names that were added to it or taken away
    events,    \* how many changes and builds there were
    pins,      \* versions of the libraries that are built apart
    kept,      \* the archives in the build directory, by name
    job,       \* what is built
    stage,     \* the step that comes next
    src,       \* the source directory under td
    out        \* the distribution made last
vars == <<changed, events, pins, kept, job, stage, src, out>>

----------------------------------------------------------------------------
(* Tables.                                                                 *)

\* "ignore_missing", "static_depends", "static_depends_no_project",
\* "ignore_static".
IgnoreMissing == {"_msi", "_wmi", "_zstd"}
StaticDepends(e) ==
    CASE e = "_lzma" -> {"liblzma"} [] e = "_sqlite3" -> {"sqlite3"} [] OTHER -> {}
StaticNoProject(e) ==
    CASE e = "_ctypes" -> {"libffi"}
      [] e = "_ssl" -> {"libcrypto_static", "libssl_static"} [] OTHER -> {}
IgnoreStatic == {"_tkinter"}

CONVERT_TO_BUILTIN_EXTENSIONS ==
    {"_asyncio", "_bz2", "_ctypes", "_decimal", "_hashlib", "_lzma", "_msi",
     "_pystandalone", "_queue", "_socket", "_sqlite3", "_ssl", "_tkinter", "_wmi",
     "_zstd"}

DISABLED_EXTENSIONS ==
    {"_decimal", "_md5", "_msi", "_sqlite3", "_statistics", "_symtable", "_tkinter",
     "_wmi"}

\* EXTENSION_TO_LIBRARY_DOWNLOADS_ENTRY: "zlib" is no extension of the table
\* above, and its entry is never looked up; "_decimal" has none.  (Nor is that
\* of "_tkinter", which run_msbuild leaves out.)
EXTENSION_TO_LIBRARY ==
    {<<"_bz2", "bzip2">>, <<"_ctypes", "libffi">>, <<"_hashlib", "openssl">>, <<"_lzma", "xz">>,
     <<"_sqlite3", "sqlite">>, <<"_ssl", "openssl">>, <<"_zstd", "zstd">>,
     <<"zlib", "zlib">>}

(* Upstream: the modules of PC/config.c in their order, the project files  *)
(* and those that pcbuild.proj builds.                                     *)
ConfigOrder == <<"_codecs", "_io", "_md5", "_new", "_socket", "_statistics",
                 "_stat", "_symtable", "_winapi", "zlib">>
ConfigModules == ToSet(ConfigOrder) \ {"_new", "_socket"}
Projects(minor) ==
    {"_asyncio", "_bz2", "_ctypes", "_decimal", "_hashlib", "_lzma", "_queue",
     "_socket", "_sqlite3", "_ssl", "_tkinter"}
    \cup (IF minor >= 12 THEN {"_wmi"} ELSE {"_msi"})
    \cup (IF minor >= 14 THEN {"_zstd"} ELSE {})

\* The modules whose init function has a name that contains that of n, and
\* those whose entry is before that of n.
Within(n) == IF n = "_stat" THEN {"_stat", "_statistics"} ELSE {n}
Ahead(n) ==
    {ConfigOrder[i] : i \in {j \in DOMAIN ConfigOrder :
        \E k \in DOMAIN ConfigOrder : j < k /\ ConfigOrder[k] = n}}

\* Fields of a project: its definitions for all files, its <Link> section,
\* definitions for one file.
WithDefines == {"_bz2", "_ctypes", "_decimal", "_lzma"}
WithLink == {"_ctypes", "_lzma", "_pystandalone", "_socket", "_ssl"}
WithAnnotation == {"_ssl"}

(* What upstream's sources must contain: edits that end the build when     *)
(* their text is missing, alternatives, and edits that are left out then.  *)
Snippets == {"exports.h", "exports.h linkage", "pyport.h 3.9", "getpath.c",
             "dynload_win.c", "overlapped.c", "callbacks.c", "ctypes", "_msi.c",
             "winver", "layout"}
Exes(minor) == {"python", "pythonw"}
               \cup (IF minor <= 10 THEN {"_freeze_importlib"} ELSE {})

----------------------------------------------------------------------------
(* The lists after the changes made so far.                                *)
Lists == {"disabled", "convert", "config.c", "projects", "registered", "defines",
          "link", "annotation", "snippets", "exes", "credits"}
Now(list, names) == (names \ changed[list]) \cup (changed[list] \ names)

Disabled == Now("disabled", DISABLED_EXTENSIONS)
Convert == Now("convert", CONVERT_TO_BUILTIN_EXTENSIONS)
Upstream == Now("config.c", ConfigModules)
HasProject == Now("projects", Projects(job.minor)) \cup {"_pystandalone"}
Present == Now("snippets", Snippets)
openssl_entry == IF job.minor = 10 THEN "openssl-1.1" ELSE "openssl-3.5"

ProjectLines(e) ==
    (IF e \in Now("link", WithLink) \/ e \in Now("defines", WithDefines)
        \/ e = "_sqlite3"
     THEN <<"<ItemDefinitionGroup>">>
          \o (IF e \in Now("defines", WithDefines) \/ e = "_sqlite3"
              THEN <<"<ClCompile>">>
                   \o (IF e = "_sqlite3" THEN <<"includes">> ELSE <<>>)
                   \o (IF e \in Now("defines", WithDefines) THEN <<"defines">> ELSE <<>>)
                   \o <<"</ClCompile>">> ELSE <<>>)
          \o (IF e \in Now("link", WithLink)
              THEN <<"<Link>", "libraries", "</Link>">> ELSE <<>>)
          \o <<"</ItemDefinitionGroup>">>
     ELSE <<>>)
    \o <<"<ItemGroup>">>
    \o (IF e \in Now("annotation", WithAnnotation)
        THEN <<"<ClCompile Include>", "defines", "</ClCompile Include>">> ELSE <<>>)
    \o <<"</ItemGroup>">>
ProjectFile(e) == <<"DynamicLibrary", ".pyd">> \o ProjectLines(e)
DependFile(d) == IF d = "liblzma" THEN <<"StaticLibrary">>
                 ELSE <<"DynamicLibrary", ".pyd">>

libffi_props_file ==
    LET dll == IF job.minor <= 10 THEN <<"dll libffi-7">> ELSE <<"dll libffi-8">>
        lib == IF job.minor <= 10 THEN <<"libffi-7.lib">> ELSE <<"libffi-8.lib">> IN
    <<"<ItemDefinitionGroup>", "<Link>", "directories">> \o lib
    \o <<"</Link>", "</ItemDefinitionGroup>">> \o dll \o <<"copy rules">>
openssl_props_file ==
    <<"<ItemDefinitionGroup>", "<Link>", "directories", "libcrypto.lib;libssl.lib",
      "</Link>", "</ItemDefinitionGroup>",
      IF job.minor <= 10 THEN "legacy copy rules" ELSE "copy rules">>
pythoncore_file ==
    <<"DynamicLibrary", "<ItemDefinitionGroup>", "<ClCompile>", "Py_ENABLE_SHARED",
      "</ClCompile>", "<Link>", "libraries", "</Link>", "</ItemDefinitionGroup>">>

Names == ToSet(ConfigOrder) \cup CONVERT_TO_BUILTIN_EXTENSIONS \cup {s[2] : s \in Slips}
config_c_file ==
    [part \in {"externs", "entries"} |->
        [n \in Names |-> IF n \in Upstream THEN 1 ELSE 0]]

----------------------------------------------------------------------------
NoJob == [minor |-> 0, options |-> {}]
NoSrc == [config_c |-> [externs |-> <<>>, entries |-> <<>>], registered |-> {},
          files |-> <<>>, linked |-> <<>>, edits |-> {}, frozen |-> "old", compiled |-> "none", done |-> 0,
          cut |-> FALSE, libs |-> {}, reused |-> {}]
NoOut == [minor |-> 0]

Init ==
    /\ changed = [l \in Lists |-> {}]
    /\ events = 0
    /\ pins = [l \in {"openssl-1.1", "openssl-3.5", "libffi"} |-> 0]
    /\ kept = {}
    /\ job = NoJob
    /\ stage = "idle"
    /\ src = NoSrc
    /\ out = NoOut

Event == events < MaxEvents /\ events' = events + 1

\* A list of this repository or of CPython gains or loses a name.
Change(l, n) ==
    /\ stage = "idle" /\ Event
    /\ n \notin changed[l]
    /\ changed' = [changed EXCEPT ![l] = @ \cup {n}]
    /\ UNCHANGED <<pins, kept, job, stage, src, out>>

\* downloads.py, or build_libffi, pins another version.
Bump(l) ==
    /\ stage = "idle" /\ Event
    /\ pins[l] = 0
    /\ pins' = [pins EXCEPT ![l] = 1]
    /\ UNCHANGED <<changed, kept, job, stage, src, out>>

\* main: a build is started; its archives are looked up by name.
Start(minor, options) ==
    /\ stage = "idle" /\ Event
    /\ "freethreaded" \in options => minor >= 13
    /\ job' = [minor |-> minor, options |-> options]
    /\ stage' = "openssl"
    /\ src' = NoSrc
    /\ UNCHANGED <<changed, pins, kept, out>>

\* Any step may fail, an edit of text that each version has among them, and
\* the machine may stop: td is gone.
Fail ==
    /\ stage # "idle"
    /\ stage' = "idle" /\ job' = NoJob /\ src' = NoSrc
    /\ UNCHANGED <<changed, events, pins, kept, out>>

----------------------------------------------------------------------------
(* build_openssl and build_libffi write an archive in place, last of all;  *)
(* main calls them unless a file of its name exists.  Its members are in   *)
(* the order of create_tar_from_directory: the files of a directory before *)
(* its subdirectories, by name.                                            *)
OpenSSLMembers == {"openssl headers", "libcrypto_static.lib", "libssl_static.lib"}
LibffiMembers == {"libffi.lib", "ffi headers"}
Members(l) == IF l = "libffi" THEN LibffiMembers ELSE OpenSSLMembers

\* What may be read from an archive that was cut short anywhere, or not.
Readable(l) ==
    {{}, Members(l)}
    \cup (IF l = "libffi" THEN {{"libffi.lib"}}
          ELSE {{"openssl headers"}, {"openssl headers", "libcrypto_static.lib"}})

ArchiveOf(l, which) ==
    {a \in which : a.library = l /\ a.options = job.options}

\* The build ends where the archive does, if that was cut short.
BuildArchive(l, at, next, members) ==
    /\ stage = at
    /\ ArchiveOf(l, kept) = {}
    /\ kept' = kept \cup {[library |-> l, options |-> job.options,
                           pin |-> pins[l], members |-> members]}
    /\ stage' = IF members = Members(l) THEN next ELSE "idle"
    /\ job' = IF members = Members(l) THEN job ELSE NoJob
    /\ UNCHANGED <<changed, events, pins, src, out>>

UseArchive(l, at, next) ==
    /\ stage = at
    /\ ArchiveOf(l, kept) # {}
    /\ stage' = next
    /\ src' = [src EXCEPT !.reused = @ \cup {l}]
    /\ UNCHANGED <<changed, events, pins, kept, job, out>>

build_openssl(members) ==
    stage = "openssl" /\ BuildArchive(openssl_entry, "openssl", "libffi", members)
build_libffi(members) == BuildArchive("libffi", "libffi", "extract", members)

\* extract_tar_to_directory: of an archive that was cut short, tarfile reads
\* the members that are there; cut inside of a member, or empty, it raises an
\* error (Fail).
Extract ==
    /\ stage = "extract"
    /\ src' = [src EXCEPT
              !.libs = ArchiveOf(openssl_entry, kept) \cup ArchiveOf("libffi", kept),
              !.config_c = config_c_file,
              !.registered = Now("registered", HasProject \ {"_pystandalone"})]
    /\ stage' = "pystandalone"
    /\ UNCHANGED <<changed, events, pins, kept, job, out>>

----------------------------------------------------------------------------
(* hack_pystandalone_files.                                                *)
WithoutDisabled(c) ==
    remove_from_config_c(c, Disabled, [n \in Names |-> Within(n)], [n \in Names |-> Ahead(n)])

hack_pystandalone_files ==
    LET left == src.registered \ Disabled IN
    /\ stage = "pystandalone"
    /\ "_pystandalone" \in left \/ "_asyncio" \in left
    /\ src' = [src EXCEPT
                !.config_c = add_to_config_c(WithoutDisabled(@), {"_pystandalone"}),
                !.registered = left \cup {"_pystandalone"}]
    /\ stage' = "projects"
    /\ UNCHANGED <<changed, events, pins, kept, job, out>>

\* The edit of _sqlite3.vcxproj gives it a line of definitions.
EditSqlite(f) == Optionally(f, "includes", <<"includes", "defines">>)

\* Mutant of SourceProject: _sqlite3.vcxproj is left as it is.
SqliteAsItIs(e) == ProjectFile(e)
SourceProject(e) == IF e = "_sqlite3" THEN EditSqlite(ProjectFile(e)) ELSE ProjectFile(e)

ToConvert ==
    {e \in Convert \ (IgnoreStatic \cup Disabled) :
        e \in HasProject \/ e \notin IgnoreMissing}

\* link_builtin_extensions_into_executables: an executable without </Link>
\* is left without the libraries, with a warning.
link_builtin_extensions(converted) ==
    [x \in Exes(job.minor) |->
        IF x \in Now("exes", Exes(job.minor)) THEN converted ELSE {}]

Edited(f) ==
    CASE f = "libffi.props" -> libffi_props(libffi_props_file)
      [] f = "openssl.props" -> openssl_props(openssl_props_file)
      [] f = "pythoncore" -> pythoncore_proj(pythoncore_file)
      [] f \in ToConvert ->
            convert_to_static_library(SourceProject(f), StaticDepends(f) # {})
      [] OTHER -> make_project_static_library(DependFile(f))
EditedFiles ==
    Sheets \cup ToConvert \cup UNION {StaticDepends(e) : e \in ToConvert}

hack_project_files ==
    LET files == [f \in EditedFiles |-> Edited(f)] IN
    /\ stage = "projects"
    /\ ToConvert \subseteq HasProject
    /\ \A f \in DOMAIN files : files[f] # Failed
    /\ src' = [src EXCEPT !.files = files,
                !.config_c = add_to_config_c(@, ToConvert),
                !.linked = link_builtin_extensions(ToConvert)]
    /\ stage' = "source"
    /\ UNCHANGED <<changed, events, pins, kept, job, out>>

\* hack_source_files: the headers must be edited, the rest where it can be.
ExportEdits ==
    IF job.minor >= 13 THEN {{"exports.h", "exports.h linkage"}}
    ELSE {{"pyport.h 3.9"}, {"pyport.h 3.8"}, {"pyport.h 3.7"}}
OptionalEdits ==
    {"overlapped.c", "callbacks.c", "ctypes", "_msi.c", "winver", "layout"}
    \cup (IF job.minor = 11 THEN {"getpath.c"} ELSE {})
    \cup (IF job.minor >= 11 THEN {"dynload_win.c"} ELSE {})
hack_source_files ==
    /\ stage = "source"
    /\ \E edit \in ExportEdits :
        /\ edit \subseteq Present
        /\ src' = [src EXCEPT !.edits = edit \cup (OptionalEdits \cap Present)]
    /\ stage' = "msbuild"
    /\ UNCHANGED <<changed, events, pins, kept, job, out>>

----------------------------------------------------------------------------
(* The calls of run_msbuild: <<target, configuration, exit_on_failure>>.   *)

\* Mutant of Plan: nothing is built again.
PlanOnce ==
    IF "pgo" \in job.options
    THEN <<<<"Rebuild", "PGInstrument", TRUE>>, <<"Build", "PGUpdate", TRUE>>>>
    ELSE <<<<"Build", "Release", job.minor > 10>>>>

Plan ==
    IF "pgo" \in job.options
    THEN (IF job.minor <= 10 THEN <<<<"Build", "Release", FALSE>>>> ELSE <<>>)
         \o <<<<"Rebuild", "PGInstrument", TRUE>>, <<"Build", "PGUpdate", TRUE>>,
              <<"Rebuild", "PGUpdate", TRUE>>>>
    ELSE <<<<"Build", "Release", job.minor > 10>>>>
         \o (IF job.minor <= 10 THEN <<<<"Rebuild", "Release", TRUE>>>> ELSE <<>>)

(* What MSBuild needs: a project for every name that is registered, and    *)
(* what it includes and links, a library for every name that an executable *)
(* lists, and a declaration and a definition of every function that        *)
(* config.c calls.                                                         *)
Extracted == UNION {a.members : a \in src.libs}
Needs(e) == CASE e \in {"_ssl", "_hashlib", "_pystandalone"} -> OpenSSLMembers
              [] e = "_ctypes" -> LibffiMembers [] OTHER -> {}
IsStatic(e) == e \in DOMAIN src.files /\ Occurs(src.files[e], "StaticLibrary")
Linkable ==
    /\ src.registered \subseteq HasProject
    /\ \A e \in src.registered : Needs(e) \subseteq Extracted
    /\ Entries(src.config_c) \subseteq Externs(src.config_c)
    /\ \A x \in DOMAIN src.linked :
        /\ src.linked[x] \subseteq src.registered
        /\ \A n \in Entries(src.config_c) :
            n \in Upstream \/ (n \in src.linked[x] /\ IsStatic(n))

\* From 3.11 on frozen modules are generated before they are compiled; until
\* 3.10 in a Release build, by _freeze_importlib.exe, after that.
Compiled == IF job.minor >= 11 THEN "new" ELSE src.frozen
Frozen(step) == IF job.minor >= 11 \/ step[2] = "Release" THEN "new" ELSE src.frozen

MSBuild ==
    LET step == Plan[src.done + 1] IN
    /\ stage = "msbuild" /\ src.done < Len(Plan)
    /\ Linkable
    /\ src' = [src EXCEPT !.done = @ + 1, !.compiled = Compiled, !.frozen = Frozen(step)]
    /\ UNCHANGED <<changed, events, pins, kept, job, stage, out>>

\* The first build of 3.10 may fail, before it generated the modules or after.
MSBuildTolerated ==
    LET step == Plan[src.done + 1] IN
    /\ stage = "msbuild" /\ src.done < Len(Plan)
    /\ ~step[3]
    /\ \/ src' = [src EXCEPT !.done = @ + 1, !.cut = TRUE]
       \/ /\ Linkable
          /\ src' = [src EXCEPT !.done = @ + 1, !.compiled = Compiled,
                                !.frozen = Frozen(step)]
    /\ UNCHANGED <<changed, events, pins, kept, job, stage, out>>

----------------------------------------------------------------------------
(* collect_python_build_artifacts: what MSBuild left is sorted by the names*)
(* of the directories, each of which must be known.                        *)
Depends(extensions) ==
    (UNION {StaticDepends(e) : e \in extensions})
    \cup (IF job.minor >= 14 THEN {"zlib-ng"} ELSE {})

Dirs == (src.registered \ IgnoreStatic)
        \cup Depends(src.registered \cap DOMAIN src.files)

ExtensionProjects == {e \in Convert \ Disabled : e \in Dirs \/ e \notin IgnoreMissing}

\* Mutant of CoreModules: disabled modules are described.
CoreWithDisabled == Upstream
CoreModules == Upstream \ Disabled

Library(name) == IF name = "openssl" THEN openssl_entry ELSE name
Credits(e) == {Library(p[2]) : p \in {q \in EXTENSION_TO_LIBRARY :
                q[1] = e /\ e \notin changed["credits"]}}

Described ==
    [e \in ExtensionProjects \cup CoreModules |->
        IF e \in ExtensionProjects THEN [in_core |-> FALSE, credits |-> Credits(e)]
        ELSE [in_core |-> TRUE, credits |-> {}]]

\* validate_python_json: an entry with a path to a library has a licence.
validate_python_json ==
    \A e \in ExtensionProjects :
        StaticDepends(e) \cup StaticNoProject(e) # {} => Credits(e) # {}

collect_python_build_artifacts ==
    /\ ExtensionProjects \subseteq Dirs
    /\ Dirs \subseteq ExtensionProjects \cup Depends(ExtensionProjects)

\* The rest of build_cpython: the layout tool runs, the libraries of libffi and
\* OpenSSL are copied, PYTHON.json is written.
package ==
    /\ stage = "msbuild" /\ src.done = Len(Plan)
    /\ src.compiled # "none"
    /\ "layout" \in src.edits
    /\ collect_python_build_artifacts
    /\ CoreModules \cap ExtensionProjects = {}
    /\ {"libffi.lib", "libcrypto_static.lib", "libssl_static.lib"} \subseteq Extracted
    /\ validate_python_json
    /\ out' = [minor |-> job.minor, described |-> Described,
               entries |-> [n \in Entries(src.config_c) |-> src.config_c.entries[n]],
               core |-> Upstream, disabled |-> Disabled,
               frozen |-> src.compiled, cut |-> src.cut, libs |-> src.libs,
               files |-> Extracted, rowless |-> changed["credits"],
               static_lib |-> "python.lib", edits |-> src.edits, pins |-> pins,
               reused |-> src.reused,
               lib |-> IF "freethreaded" \in job.options
                       THEN "pythont.lib" ELSE "python.lib",
               options |-> job.options]
    /\ stage' = "idle" /\ job' = NoJob /\ src' = NoSrc
    /\ UNCHANGED <<changed, events, pins, kept>>

----------------------------------------------------------------------------
Next ==
    \/ \E s \in Slips : Change(s[1], s[2])
    \/ \E l \in DOMAIN pins : Bump(l)
    \/ \E minor \in Minors, options \in SUBSET {"pgo", "freethreaded"} :
        Start(minor, options)
    \/ \E members \in Readable(openssl_entry) : build_openssl(members)
    \/ \E members \in Readable("libffi") : build_libffi(members)
    \/ stage = "openssl" /\ UseArchive(openssl_entry, "openssl", "libffi")
    \/ UseArchive("libffi", "libffi", "extract")
    \/ Extract
    \/ hack_pystandalone_files
    \/ hack_project_files
    \/ hack_source_files
    \/ MSBuild
    \/ MSBuildTolerated
    \/ package
    \/ Fail

Spec == Init /\ [][Next]_vars

----------------------------------------------------------------------------
\* Modules that are not disabled, and whose entry in config.c goes with that
\* of a disabled one.
LostWithDisabled ==
    {n \in out.core \ out.disabled : \E d \in out.disabled : n \in Within(d)}

(* PYTHON.json describes the interpreter it comes with, whatever list is    *)
(* changed: the modules it names are those that PC/config.c was compiled    *)
(* with (collect_python_build_artifacts reads the pristine file and adds    *)
(* the directories that MSBuild left), each with one entry, none of them    *)
(* disabled; symbols were exported as it says, and the library it names is  *)
(* there.  Three gaps are known: _pystandalone is entered twice, by         *)
(* hack_pystandalone_files and as a converted extension; a module whose     *)
(* name begins with that of a disabled one is taken out, but described; and *)
(* the library of a free-threaded build has another name.                   *)
DescribedIsLinked ==
    out # NoOut =>
        /\ DOMAIN out.described = DOMAIN out.entries \cup LostWithDisabled
        /\ DOMAIN out.described \cap out.disabled = {}
        /\ \A n \in DOMAIN out.entries :
            /\ out.described[n].in_core = (n \in out.core)
            /\ out.entries[n] = IF n = "_pystandalone" THEN 2 ELSE 1
        /\ out.edits \cap {"exports.h linkage", "pyport.h 3.9", "pyport.h 3.8",
                          "pyport.h 3.7"} # {}
        /\ "freethreaded" \notin out.options => out.static_lib = out.lib

(* What the executable contains, by the libraries that its parts need;     *)
(* until 3.12 CPython's sources have an mpdecimal of their own.            *)
Bundled(n) ==
    CASE n \in {"_ssl", "_hashlib", "_pystandalone"} ->
            {a.library : a \in {b \in out.libs : b.library # "libffi"}}
      [] n = "_ctypes" -> {"libffi"} [] n = "_bz2" -> {"bzip2"}
      [] n = "_lzma" -> {"xz"} [] n = "_sqlite3" -> {"sqlite"}
      [] n = "_zstd" -> {"zstd"} [] n = "zlib" -> {"zlib"}
      [] n = "_decimal" -> IF out.minor >= 13 THEN {"mpdecimal"} ELSE {}
      [] OTHER -> {}

(* A distribution has OpenSSL of the series that suits the Python version  *)
(* and libffi, each of the pinned version unless an archive of its name    *)
(* was there, which is used whatever its version and however much of it    *)
(* had been written.  Nothing that is needed was missing then: what is     *)
(* extracted is all of both, but for the headers of libffi, the last in    *)
(* the archive, which only _ctypes reads.                                  *)
ArchivesCurrent ==
    out # NoOut =>
        /\ {a.library : a \in out.libs} =
            {"libffi", IF out.minor <= 10 THEN "openssl-1.1" ELSE "openssl-3.5"}
        /\ \A a \in out.libs :
            a.library \notin out.reused => a.pin = out.pins[a.library]
        /\ OpenSSLMembers \cup LibffiMembers \subseteq
            out.files \cup (IF "_ctypes" \in DOMAIN out.described \ out.core THEN {}
                           ELSE {"ffi headers"})

(* The zipimport in a distribution is the patched one, unless the first    *)
(* build of 3.10, which is allowed to fail, ended before it had generated  *)
(* the frozen module.                                                      *)
ZipimportCurrent ==
    out # NoOut => /\ ~out.cut => out.frozen = "new"
                   /\ out.minor > 10 => out.frozen = "new"

(* Every library that the extensions need is credited as what it is.  (A   *)
(* module of the core has no credit, zlib for one.)  The gaps: _decimal,   *)
(* which is disabled, has no row in the table of licences, and would bring *)
(* mpdecimal from 3.13 on; and nothing asks for the credit of a library    *)
(* without a path, so that the row of _bz2 or _zstd may be lost unseen,    *)
(* and where neither _ssl nor _hashlib has one, that of the OpenSSL that   *)
(* _pystandalone contains.                                                 *)
CreditsComplete ==
    out # NoOut =>
        LET credited == UNION {out.described[m].credits : m \in DOMAIN out.described}
            OpenSSL == {"openssl-1.1", "openssl-3.5"}
            HasRow(e) == e \in (DOMAIN out.described \ out.core) \ out.rowless IN
        \A n \in DOMAIN out.entries \ out.core :
            \/ Bundled(n) \subseteq credited
            \/ n \in {"_decimal", "zlib"}
            \/ n \in {"_bz2", "_zstd"} \cap out.rowless
            \/ Bundled(n) \subseteq OpenSSL /\ ~HasRow("_ssl") /\ ~HasRow("_hashlib")

(* A distribution is made of the libraries and sources that belong to it,  *)
(* and credits what is in it.                                              *)
ShippedIsCurrent == ArchivesCurrent /\ ZipimportCurrent /\ CreditsComplete

\* What a converted extension inherits: for both tools, the static libraries.
SheetsConverted ==
    \A tags \in {<<"<Link>", "</Link>">>, <<"<Lib>", "</Lib>">>} :
        /\ {"libffi.lib", "directories"} \subseteq
            Section(src.files["libffi.props"], tags[1], tags[2])
        /\ "libcrypto_static.lib;libssl_static.lib" \in
            Section(src.files["openssl.props"], tags[1], tags[2])

(* Every project that is linked into the executable was converted whole:   *)
(* MSBuild finds each tag where it may stand, the library is static and    *)
(* compiled as part of the core, and lib.exe gets what the linker would    *)
(* have got.  One gap is known: a project that needs a static library and  *)
(* has no definitions of its own gets its <ProjectReference> one line too  *)
(* far, inside <ClCompile>; _sqlite3 is kept out of it by an edit.  (The   *)
(* files do not change after that stage.)                                  *)
ProjectsConverted ==
    stage = "source" => \A e \in ToConvert :
        LET f == src.files[e] IN
        /\ \/ WellNested(f)
           \/ /\ StaticDepends(e) # {}
              /\ e \notin Now("defines", WithDefines) \cup {"_sqlite3"}
        /\ Occurs(f, "StaticLibrary") /\ Occurs(f, ".lib")
        /\ Occurs(f, "core;defines")
        /\ Section(f, "<Link>", "</Link>") \subseteq Section(f, "<Lib>", "</Lib>")
        /\ (StaticDepends(e) # {}) = Occurs(f, "<ProjectReference>")
        /\ StaticDepends(e) \subseteq DOMAIN src.files
        /\ SheetsConverted
=============================================================================
