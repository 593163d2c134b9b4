----------------------------- MODULE Extensions -----------------------------
(***************************************************************************)
(* How the extension modules of a Unix distribution are configured, built, *)
(* described and validated.                                                *)
(*                                                                         *)
(* What a distribution contains is written down several times, by hand:    *)
(* in extension-modules.yml, in pystandalone/disabled-modules, in          *)
(* CPython's own Setup and config.c, in the lists of validation.rs, in the *)
(* needs of a target and in the library names of downloads.py.  A build    *)
(* compares them at four places: derive_setup_local, python_build_info,    *)
(* validate_python_json, and validate-distribution afterwards.  Here a     *)
(* maintainer (or a new CPython) first makes up to MaxSlips changes, each  *)
(* the addition of a name to one of the lists or its removal, then the     *)
(* distribution is built and validated.                                    *)
(***************************************************************************)
EXTENDS ExtensionTables

CONSTANTS
    Jobs,       \* [minor, target, options] of the distributions built
    Slips,      \* the changes considered, <<list, name>>
    MaxSlips

Options == {"static", "freethreaded", "debug", "lto"}

ASSUME ExtensionsAssumption ==
    /\ Jobs \subseteq [minor : Minors, target : Targets, options : SUBSET Options]
    /\ MaxSlips \in Nat

VARIABLES
    job,
    lists,      \* lists[l]: the names in list l
    slips,      \* the changes made so far
    stage,
    enabled,    \* enabled_extensions of derive_setup_local: names
    built,      \* the modules the interpreter has, linked in or shared
    info        \* build_info of PYTHON.json

vars == <<job, lists, slips, stage, enabled, built, info>>

static == "static" \in job.options

----------------------------------------------------------------------------
(* The lists of the repository and, upstream, the names enabled in Setup   *)
(* and Setup.bootstrap.in and those in config.c.in.  CPython's files are   *)
(* not in the repository; those of the versions it builds agree with it.   *)
StockLists(j) ==
    [yaml |-> Yaml,
     setup_enabled |-> SetupEnabled(j.minor),
     config_c_only |-> ConfigCOnly(j.minor),
     disabled_modules |-> disabled_modules,
     needs |-> Needs(j.target),
     library_names |-> DOMAIN LibraryNames,
     rust_disabled |-> PYSTANDALONE_DISABLED_EXTENSIONS,
     rust_wanted |-> WantedExtensions(j.minor, j.target, "static" \in j.options),
     Setup |-> SetupEnabled(j.minor) \ Incompatible[j.minor],
     ConfigC |-> ConfigCOnly(j.minor) \ Incompatible[j.minor],
     LIBS |-> {"dl", "m", "pthread"}]

(* Upstream too: the names that Setup has in comments.                     *)
Commented == Yaml \ (Incompatible[job.minor] \cup {"_pystandalone"})

(* RE_EXTENSION_MODULE takes letters and underscores only.                 *)
WithDigit == {"_blake2", "_bz2", "_codecs_iso2022", "_md5", "_new2", "_sha1",
    "_sha2", "_sha256", "_sha3", "_sha512", "_sqlite3", "xxlimited_35"}

----------------------------------------------------------------------------
(* derive_setup_local: classification, checks, generation.                 *)

ignored == lists.yaml \cap Incompatible[job.minor]

(* build_cpython gives the names of disabled-modules the target ".*".      *)
disabled ==
    (lists.yaml \ ignored) \cap
        (DisabledTargets(job.target) \cup lists.disabled_modules
         \cup (IF static THEN SharedOrDisabled ELSE {}))

setup_enabled_wanted == (lists.yaml \ ignored) \cap lists.setup_enabled
config_c_only_wanted == (lists.yaml \ ignored) \cap lists.config_c_only

dist_modules == ((lists.Setup \cup Commented) \ WithDigit) \cup lists.ConfigC
setup_enabled_actual == lists.Setup \ WithDigit

\* Mutant of InSync: config.c is not compared.
InSyncSetup ==
    dist_modules \subseteq lists.yaml /\ setup_enabled_actual = setup_enabled_wanted

(* "missing extension modules from YAML", and the two lists both ways.     *)
InSync ==
    /\ dist_modules \subseteq lists.yaml
    /\ setup_enabled_actual = setup_enabled_wanted
    /\ lists.ConfigC = config_c_only_wanted

\* Mutant of enabled_extensions: disabled-modules is read into the YAML.
EnabledWithUnknown ==
    (lists.yaml \cup (lists.disabled_modules \ Yaml)) \ (ignored \cup disabled)
enabled_extensions == lists.yaml \ (ignored \cup disabled)

(* "found a sourceless extension with no Setup entry".                     *)
Generable ==
    (enabled_extensions \ config_c_only_wanted) \cap Sourceless \subseteq lists.Setup

(* The lines of Setup.local, by section: the modules that are disabled,    *)
(* and those with sources of their own.                                    *)
FromYaml == enabled_extensions \ (config_c_only_wanted \cup Sourceless)
SharedLines == IF static THEN {} ELSE FromYaml \cap (Shared \cup SharedOrDisabled)

Derive ==
    /\ stage = "editing"
    /\ IF InSync /\ Generable
       THEN stage' = "configured" /\ enabled' = enabled_extensions
       ELSE stage' = "rejected" /\ UNCHANGED enabled
    /\ UNCHANGED <<job, lists, slips, built, info>>

(* External: makesetup reads Setup.local first, and takes of a module the  *)
(* first line it meets; what it finds disabled it leaves out.  The entries *)
(* of config.c.in stay whatever Setup.local says.                          *)
Make ==
    /\ stage = "configured"
    /\ stage' = "made"
    /\ built' = lists.ConfigC \cup FromYaml \cup (lists.Setup \ disabled)
    /\ UNCHANGED <<job, lists, slips, enabled, info>>

----------------------------------------------------------------------------
(* python_build_info.                                                      *)

(* link_for_target, read back by parse_setup_line: ":libX.a" stays that    *)
(* on Linux and becomes X on Apple.                                        *)
ParsedLink(lib) ==
    IF lib = ":libatomic.a" /\ job.target = Apple THEN "atomic" ELSE lib
ParsedLinks(n) ==
    IF n \notin DOMAIN Links[job.target] THEN {}
    ELSE {ParsedLink(lib) : lib \in Links[job.target][n]}

(* python/build/lib/*.a of what was installed.                             *)
libraries == UNION {Archives[p] : p \in lists.needs \cap DOMAIN Archives}

(* An archive named with its file needs no annotation.                     *)
LinkEntries(n) ==
    {[name |-> lib, type |-> IF lib \in libraries THEN "static" ELSE "system"] :
        lib \in ParsedLinks(n) \ {":libatomic.a"}}
    \cup {[name |-> f, type |-> "framework"] :
        f \in IF n \in DOMAIN Frameworks(job.target)
              THEN Frameworks(job.target)[n] ELSE {}}

(* add_licenses_to_extension_entry: the packages whose licences the entry  *)
(* gets, whether they are installed or not; it raises when there is none   *)
(* for an entry with a bundled library.                                    *)
Credits(links) ==
    {p \in lists.library_names \cap DOMAIN LibraryNames :
        \E l \in links : l.name \in LibraryNames[p]}
\* Mutant of MissingLicense: an entry without licences is let pass.
NothingMissing(entry) == FALSE
MissingLicense(entry) ==
    entry.licenses = {} /\ \E l \in entry.links : l.type = "static"

Entry(n) ==
    LET links == LinkEntries(n) IN
    [links |-> links, licenses |-> Credits(links), shared |-> n \in SharedLines]

(* LIBS of the interpreter: only these libraries, and on Apple the         *)
(* frameworks of MACOS_ALLOW_FRAMEWORKS.                                   *)
AllowedLibs ==
    IF job.target = Apple THEN {"dl", "m", "pthread", "CoreFoundation"}
    ELSE {"c", "crypt", "dl", "m", "pthread", "rt", "util"}

(* The static and the shared libpython that PYTHON.json names: the suffix  *)
(* of the file, after that of its directory for the static one.            *)
CorePaths ==
    {<<"static", "", "">>}
    \cup IF job.target # Apple /\ static THEN {} ELSE {<<"shared", "">>}

NoInfo == [core |-> {}, links |-> {}, extensions |-> <<>>]

(* validate_python_json, the last thing before the archive is written.     *)
ValidJson(extensions) ==
    /\ DOMAIN extensions \subseteq lists.yaml
    /\ \A n \in DOMAIN extensions : ~MissingLicense(extensions[n])

(* python_build_info and the rest of build_cpython.                        *)
Describe ==
    /\ stage = "made"
    /\ LET extensions == [n \in enabled |-> Entry(n)] IN
       IF /\ lists.LIBS \subseteq AllowedLibs
          /\ \A n \in enabled : ~MissingLicense(extensions[n])
          /\ ValidJson(extensions)
       THEN /\ info' = [core |-> CorePaths, links |-> lists.LIBS,
                        extensions |-> extensions]
            /\ stage' = "archived"
       ELSE stage' = "rejected" /\ UNCHANGED info
    /\ UNCHANGED <<job, lists, slips, enabled, built>>

----------------------------------------------------------------------------
(* validate-distribution.                                                  *)

validate_extension_modules(have) ==
    have = lists.rust_wanted \ lists.rust_disabled

validate_json(have) ==
    /\ have \cap (GLOBALLY_BANNED_EXTENSIONS \cup lists.rust_disabled) = {}
    /\ validate_extension_modules(have)

Validate ==
    /\ stage = "archived"
    /\ stage' = IF validate_json(DOMAIN info.extensions)
                THEN "passed" ELSE "rejected"
    /\ UNCHANGED <<job, lists, slips, enabled, built, info>>

----------------------------------------------------------------------------
Init ==
    /\ job \in Jobs
    /\ lists = StockLists(job)
    /\ slips = 0
    /\ stage = "editing"
    /\ enabled = {}
    /\ built = {}
    /\ info = NoInfo

Slip ==
    /\ stage = "editing"
    /\ slips < MaxSlips
    /\ slips' = slips + 1
    /\ \E s \in Slips :
        lists' = [lists EXCEPT ![s[1]] = (@ \ {s[2]}) \cup ({s[2]} \ @)]
    /\ UNCHANGED <<job, stage, enabled, built, info>>

Next == Slip \/ Derive \/ Make \/ Describe \/ Validate

Spec == Init /\ [][Next]_vars

----------------------------------------------------------------------------
TypeOK ==
    /\ job \in Jobs
    /\ slips \in 0..MaxSlips
    /\ stage \in {"editing", "configured", "made", "archived", "passed",
                  "rejected"}
    /\ enabled \cup built \subseteq Yaml \cup {s[2] : s \in Slips}
    /\ DOMAIN info.extensions \subseteq enabled
    /\ \A n \in DOMAIN info.extensions :
        /\ info.extensions[n].licenses \subseteq DOMAIN LibraryNames
        /\ \A l \in info.extensions[n].links :
            l.type \in {"static", "system", "framework"}

(* The lists agree as they are: whatever version, target and options, the  *)
(* build of an unchanged repository is not rejected.                       *)
StockPasses == slips = 0 => stage # "rejected"

(* The PYTHON.json of a validated distribution describes the modules the   *)
(* interpreter has, no more and no fewer, whatever the slips; save for the *)
(* two gaps of derive_setup_local: a module enabled upstream whose name    *)
(* the regular expression does not read, and a module that is disabled but *)
(* compiled in by config.c.                                                *)
DescribedIsBuilt ==
    stage = "passed" =>
        /\ DOMAIN info.extensions \subseteq built
        /\ built \ DOMAIN info.extensions
               \subseteq (lists.Setup \cap WithDigit)
                    \cup (lists.ConfigC \cap disabled)

(* No single slip leaves a bundled library of a described module without a *)
(* credit under its name: the raise of add_licenses_to_extension_entry is  *)
(* for an entry that has no licence at all.                                *)
LibrariesCredited ==
    stage = "passed" /\ slips <= 1 =>
        \A n \in DOMAIN info.extensions :
            \A l \in info.extensions[n].links :
                l.type = "static" => \E p \in info.extensions[n].licenses :
                                        l.name \in LibraryNames[p]

(* The files that build-cpython.sh installs: the suffixes have t for a     *)
(* free-threaded build and d for a debug build; --enable-shared is given   *)
(* on Linux only, for builds that are not static.                          *)
Installed ==
    LET t == IF "freethreaded" \in job.options THEN "t" ELSE ""
        td == CASE "debug" \notin job.options -> t
                [] t = "t" -> "td"
                [] OTHER -> "d" IN
    {<<"static", td, td>>}
    \cup IF job.target = Apple \/ static THEN {} ELSE {<<"shared", td>>}

(* docs/distributions.rst: static_lib and shared_lib are paths to libraries*)
(* representing libpython, or not defined.                                 *)
CorePathsExist == stage = "passed" => info.core \subseteq Installed
=============================================================================
