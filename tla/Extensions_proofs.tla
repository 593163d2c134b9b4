-------------------------- MODULE Extensions_proofs --------------------------
(***************************************************************************)
(* Theorems about Extensions, for any distributions, any changes of the    *)
(* lists and any number of them.                                           *)
(***************************************************************************)
EXTENDS Extensions, TLAPS

After == {"configured", "made", "archived", "passed"}

\* The inductive invariant, stage by stage: what each one wrote follows from
\* the lists, which do not change after derive_setup_local compared them.
Configured ==
    stage \in After => InSync /\ Generable /\ enabled = enabled_extensions
Made ==
    stage \in After \ {"configured"} =>
        built = lists.ConfigC \cup FromYaml \cup (lists.Setup \ disabled)
Archived ==
    stage \in {"archived", "passed"} => DOMAIN info.extensions = enabled
IInv == Configured /\ Made /\ Archived

LEMMA InitIInv == Init => IInv
  BY DEF Init, IInv, Configured, Made, Archived, After

LEMMA NextIInv == IInv /\ [Next]_vars => IInv'
  <1> SUFFICES ASSUME IInv, [Next]_vars PROVE IInv'
    OBVIOUS
  <1> USE DEF IInv, After
  <1>1. CASE Slip
    BY <1>1 DEF Slip, Configured, Made, Archived
  <1>2. ASSUME UNCHANGED <<job, lists>>
        PROVE  /\ InSync' = InSync /\ Generable' = Generable
               /\ enabled_extensions' = enabled_extensions
               /\ FromYaml' = FromYaml /\ disabled' = disabled
    BY <1>2 DEF InSync, Generable, enabled_extensions, FromYaml, disabled, ignored,
         setup_enabled_wanted, config_c_only_wanted, dist_modules,
         setup_enabled_actual, Commented, static
  <1>3. CASE Derive
    BY <1>2, <1>3 DEF Derive, Configured, Made, Archived
  <1>4. CASE Make
    BY <1>2, <1>4 DEF Make, Configured, Made, Archived
  <1>5. CASE Describe
    <2>1. UNCHANGED <<job, lists, enabled, built>>
      BY <1>5 DEF Describe
    <2>2. stage = "made" /\ stage' \in {"archived", "rejected"}
      BY <1>5 DEF Describe
    <2>3. stage' = "archived" => DOMAIN info'.extensions = enabled
      BY <1>5 DEF Describe
    <2>4. QED
      BY <1>2, <2>1, <2>2, <2>3 DEF Configured, Made, Archived
  <1>6. CASE Validate
    BY <1>2, <1>6 DEF Validate, Configured, Made, Archived
  <1>7. CASE UNCHANGED vars
    BY <1>2, <1>7 DEF vars, Configured, Made, Archived
  <1>8. QED
    BY <1>1, <1>3, <1>4, <1>5, <1>6, <1>7 DEF Next

\* What derive_setup_local lets pass is what makesetup links in, but for a
\* name it does not read and a disabled module of config.c.
LEMMA EnabledIsBuilt ==
    ASSUME InSync, Generable
    PROVE  LET linked == lists.ConfigC \cup FromYaml \cup (lists.Setup \ disabled)
           IN  /\ enabled_extensions \subseteq linked
               /\ linked \ enabled_extensions
                    \subseteq (lists.Setup \cap WithDigit) \cup (lists.ConfigC \cap disabled)
  <1> DEFINE linked == lists.ConfigC \cup FromYaml \cup (lists.Setup \ disabled)
  <1>1. enabled_extensions \subseteq linked
    <2>1. SUFFICES ASSUME NEW n \in enabled_extensions PROVE n \in linked
      OBVIOUS
    <2>2. CASE n \in config_c_only_wanted
      BY <2>2 DEF InSync
    <2>3. CASE n \notin config_c_only_wanted /\ n \in Sourceless
      BY <2>3 DEF Generable, enabled_extensions
    <2>4. CASE n \notin config_c_only_wanted /\ n \notin Sourceless
      BY <2>4 DEF FromYaml
    <2>5. QED
      BY <2>2, <2>3, <2>4
  <1>2. linked \ enabled_extensions
            \subseteq (lists.Setup \cap WithDigit) \cup (lists.ConfigC \cap disabled)
    <2>1. lists.ConfigC \subseteq lists.yaml \ ignored
      BY DEF InSync, config_c_only_wanted
    <2>2. lists.Setup \ WithDigit \subseteq lists.yaml \ ignored
      BY DEF InSync, setup_enabled_actual, setup_enabled_wanted
    <2>3. FromYaml \subseteq enabled_extensions
      BY DEF FromYaml
    <2>4. QED
      BY <2>1, <2>2, <2>3 DEF enabled_extensions
  <1>3. QED
    BY <1>1, <1>2

-----------------------------------------------------------------------------
(* Types: every name comes from the YAML file or from a change.            *)

Known == Yaml \cup {s[2] : s \in Slips}
ListsOK(ls) ==
    /\ {"yaml", "Setup", "ConfigC"} \subseteq DOMAIN ls
    /\ ls["yaml"] \cup ls["Setup"] \cup ls["ConfigC"] \subseteq Known
InfoOK ==
    /\ DOMAIN info.extensions \subseteq enabled
    /\ \A n \in DOMAIN info.extensions :
        /\ info.extensions[n].licenses \subseteq DOMAIN LibraryNames
        /\ \A l \in info.extensions[n].links :
            l.type \in {"static", "system", "framework"}
Types ==
    /\ job \in Jobs /\ slips \in 0..MaxSlips
    /\ stage \in {"editing", "configured", "made", "archived", "passed", "rejected"}
    /\ ListsOK(lists)
    /\ enabled \subseteq Known /\ built \subseteq Known
    /\ stage \in {"editing", "configured", "made"} => info = NoInfo
    /\ InfoOK

LEMMA StockOK == ASSUME NEW j \in Jobs PROVE ListsOK(StockLists(j))
  <1>1. SetupEnabled(j.minor) \subseteq Yaml
    BY DEF SetupEnabled, Yaml, Sourceless, SetupOnly, WithSources
  <1>2. ConfigCOnly(j.minor) \subseteq Yaml
    BY DEF ConfigCOnly, Yaml, Sourceless, AlwaysConfigC, WithSources
  <1>3. QED
    BY <1>1, <1>2 DEF ListsOK, StockLists, Known

LEMMA EntryOK ==
    ASSUME NEW n
    PROVE  /\ Entry(n).licenses \subseteq DOMAIN LibraryNames
           /\ \A l \in Entry(n).links : l.type \in {"static", "system", "framework"}
  BY DEF Entry, Credits, LinkEntries

LEMMA NextTypes == Types /\ [Next]_vars => Types'
  <1> SUFFICES ASSUME Types, [Next]_vars PROVE Types'
    OBVIOUS
  <1> USE DEF Types
  <1>1. CASE Slip
    <2>1. PICK s \in Slips :
            lists' = [lists EXCEPT ![s[1]] = (@ \ {s[2]}) \cup ({s[2]} \ @)]
      BY <1>1 DEF Slip
    <2>2. s[2] \in Known
      BY DEF Known
    <2>3. ASSUME NEW l \in {"yaml", "Setup", "ConfigC"}
          PROVE  lists'[l] \subseteq lists[l] \cup {s[2]}
      BY <2>1 DEF ListsOK
    <2>4. ListsOK(lists')
      BY <2>1, <2>2, <2>3 DEF ListsOK
    <2>5. slips' \in 0..MaxSlips
      BY <1>1, ExtensionsAssumption DEF Slip
    <2>6. QED
      BY <1>1, <2>4, <2>5 DEF Slip, InfoOK, Known
  <1>2. CASE Derive
    BY <1>2 DEF Derive, InfoOK, NoInfo, ListsOK, enabled_extensions, Known
  <1>3. CASE Make
    <2>1. FromYaml \subseteq Known
      BY DEF FromYaml, enabled_extensions, ListsOK
    <2>2. built' \subseteq Known
      BY <1>3, <2>1 DEF Make, ListsOK
    <2>3. QED
      BY <1>3, <2>2 DEF Make, InfoOK, Known
  <1>4. CASE Describe
    <2>1. CASE stage' = "archived"
      <3>1. info'.extensions = [n \in enabled |-> Entry(n)]
        BY <1>4, <2>1 DEF Describe
      <3>2. InfoOK'
        BY <1>4, <3>1, EntryOK DEF Describe, InfoOK
      <3>3. QED
        BY <1>4, <2>1, <3>2 DEF Describe, Known
    <2>2. CASE stage' # "archived"
      BY <1>4, <2>2 DEF Describe, InfoOK, Known
    <2>3. QED
      BY <2>1, <2>2
  <1>5. CASE Validate
    BY <1>5 DEF Validate, InfoOK, Known
  <1>6. CASE UNCHANGED vars
    BY <1>6 DEF vars, InfoOK, Known
  <1>7. QED
    BY <1>1, <1>2, <1>3, <1>4, <1>5, <1>6 DEF Next

\* Every state is well formed: no list, module or entry has a name that comes
\* from neither the YAML file nor a change.
THEOREM TypeCorrect == Spec => []TypeOK
  <1>1. Init => Types
    BY StockOK, ExtensionsAssumption DEF Init, Types, InfoOK, NoInfo
  <1>2. Types => TypeOK
    BY DEF Types, InfoOK, Known, TypeOK
  <1>3. QED
    BY <1>1, <1>2, NextTypes, PTL DEF Spec

-----------------------------------------------------------------------------
\* The PYTHON.json of every distribution that passes describes the modules its
\* interpreter has, but for the two gaps of derive_setup_local, however the
\* lists were changed before.
THEOREM DescribedIsBuiltHolds == Spec => []DescribedIsBuilt
  <1>1. IInv => DescribedIsBuilt
    BY EnabledIsBuilt DEF IInv, Configured, Made, Archived, After, DescribedIsBuilt
  <1>2. QED
    BY <1>1, InitIInv, NextIInv, PTL DEF Spec

-----------------------------------------------------------------------------
(* The repository as it is.                                                *)

LEMMA IncompatibleNames ==
    ASSUME NEW m \in Minors, NEW n
    PROVE  n \in Incompatible[m] <=>
            \/ n \in From11 /\ m < 11
            \/ n \in From12 /\ m < 12
            \/ n \in From13 /\ m < 13
            \/ n \in From14 /\ m < 14
            \/ n \in From15 /\ m < 15
            \/ n \in To11 /\ m > 11
            \/ n \in To12 /\ m > 12
            \/ n \in To13 /\ m > 13
  <1>1. DOMAIN MinimumVersion = From11 \cup From12 \cup From13 \cup From14 \cup From15
    BY DEF MinimumVersion
  <1>2. /\ n \in From11 => n \notin From12 \cup From13 \cup From14 \cup From15
        /\ n \in From12 => n \notin From11 \cup From13 \cup From14 \cup From15
        /\ n \in From13 => n \notin From11 \cup From12 \cup From14 \cup From15
        /\ n \in From14 => n \notin From11 \cup From12 \cup From13 \cup From15
    BY DEF From11, From12, From13, From14, From15
  <1>3. /\ n \in From11 => MinimumVersion[n] = 11
        /\ n \in From12 => MinimumVersion[n] = 12
        /\ n \in From13 => MinimumVersion[n] = 13
        /\ n \in From14 => MinimumVersion[n] = 14
        /\ n \in From15 => MinimumVersion[n] = 15
    BY <1>2 DEF MinimumVersion
  <1>4. DOMAIN MaximumVersion = To11 \cup To12 \cup To13
    BY DEF MaximumVersion
  <1>5. /\ n \in To11 => n \notin To12 \cup To13
        /\ n \in To12 => n \notin To11 \cup To13
        /\ n \in To13 => n \notin To11 \cup To12
    BY DEF To11, To12, To13
  <1>6. /\ n \in To11 => MaximumVersion[n] = 11
        /\ n \in To12 => MaximumVersion[n] = 12
        /\ n \in To13 => MaximumVersion[n] = 13
    BY <1>5 DEF MaximumVersion
  <1>7. m \in Nat
    BY DEF Minors
  <1>8. n \in Incompatible[m] <=>
            \/ n \in DOMAIN MinimumVersion /\ MinimumVersion[n] > m
            \/ n \in DOMAIN MaximumVersion /\ MaximumVersion[n] < m
    BY DEF Incompatible
  <1>9. QED
    BY <1>1, <1>3, <1>4, <1>6, <1>7, <1>8

LEMMA SetupTables ==
    ASSUME NEW m \in Minors, NEW t \in Targets
    PROVE  /\ SetupEnabled(m) \cup ConfigCOnly(m) \subseteq Yaml
           /\ SetupEnabled(m) \cap WithDigit = {}
           /\ AlwaysConfigC \subseteq ConfigCOnly(m)
           /\ SetupOnly \subseteq SetupEnabled(m)
           /\ Examples \subseteq DisabledTargets(t)
  <1>1. SetupEnabled(m) \subseteq Yaml
    BY DEF SetupEnabled, Yaml, Sourceless, WithSources
  <1>2. ConfigCOnly(m) \subseteq Yaml
    BY DEF ConfigCOnly, Yaml, Sourceless, WithSources
  <1>3. SetupEnabled(m) \cap WithDigit = {}
    BY DEF SetupEnabled, SetupOnly, WithDigit
  <1>4. QED
    BY <1>1, <1>2, <1>3 DEF ConfigCOnly, SetupEnabled, DisabledTargets

StockDisabled(j) ==
    DisabledTargets(j.target) \cup disabled_modules
        \cup (IF "static" \in j.options THEN SharedOrDisabled ELSE {})

LEMMA WantedIsEnabled ==
    ASSUME NEW j \in Jobs
    PROVE  (Yaml \ Incompatible[j.minor]) \ StockDisabled(j) =
            WantedExtensions(j.minor, j.target, "static" \in j.options) \ disabled_modules
  <1> DEFINE m == j.minor
             t == j.target
             st == "static" \in j.options
  <1>1. m \in Minors /\ t \in Targets
    BY ExtensionsAssumption
  <1>2. ASSUME NEW n \in Yaml, n \notin disabled_modules
        PROVE  n \in Incompatible[m] \/ n \in StockDisabled(j)
                  <=> n \notin WantedExtensions(m, t, st)
    <2> USE <1>1, IncompatibleNames
        DEF From11, From12, From13, From14, From15, To11, To12, To13, StockDisabled,
            DisabledTargets, SharedOrDisabled, Examples, disabled_modules, WantedExtensions,
            GLOBAL_EXTENSIONS, GLOBAL_EXTENSIONS_PYTHON, GLOBAL_EXTENSIONS_POSIX, Minors, Targets
    <2>1. CASE n \in AlwaysConfigC
      BY <1>2, <2>1 DEF AlwaysConfigC
    <2>2. CASE n \in SetupOnly
      BY <1>2, <2>2 DEF SetupOnly
    <2>3. CASE n \in Examples
      BY <1>2, <2>3
    <2>4. CASE n \in WithSources
      BY <1>2, <2>4 DEF WithSources
    <2>5. QED
      BY <2>1, <2>2, <2>3, <2>4 DEF Yaml, Sourceless
  <1>3. WantedExtensions(m, t, st) \subseteq Yaml
    BY DEF WantedExtensions, GLOBAL_EXTENSIONS, GLOBAL_EXTENSIONS_PYTHON, GLOBAL_EXTENSIONS_POSIX,
      Yaml, Sourceless, AlwaysConfigC, SetupOnly, WithSources
  <1>4. QED
    BY <1>2, <1>3 DEF StockDisabled

-----------------------------------------------------------------------------
(* Libraries and the packages that name them.                              *)

\* Of the libraries that are installed only Tk's is called otherwise in the
\* table of library names.
LEMMA ArchivesNamed ==
    ASSUME NEW p \in DOMAIN Archives, NEW lib \in Archives[p], lib # "tcl9tk9.0"
    PROVE  p \in DOMAIN LibraryNames /\ lib \in LibraryNames[p]
  <1>1. p # "tk"
    BY DEF Archives
  <1>2. p \in DOMAIN LibraryNames
    BY DEF LibraryNames
  <1>3. p \notin {"tcl-8612", "tk-8612", "openssl-1.1", "zlib-ng", "readline"}
    BY DEF Archives
  <1>4. LibraryNames[p] = Archives[p]
    BY <1>1, <1>2, <1>3 DEF LibraryNames
  <1>5. QED
    BY <1>2, <1>4

\* A module links with the libraries of one package, but for two.
Curses == {"ncurses", "ncursesw", "panel", "panelw"}
OpenSSL == {"crypto", "ssl", ":libatomic.a"}
LEMMA OnePackage ==
    ASSUME NEW t \in Targets, NEW n \in WithLinks, n \notin {"_tkinter", "readline"},
           NEW a \in Links[t][n], NEW b \in Links[t][n]
    PROVE  \/ a = b \/ {a, b} = {"ffi", "dl"}
           \/ {a, b} \subseteq Curses \/ {a, b} \subseteq OpenSSL
  <1>1. Links[t] = LinksFor(t)
    BY DEF Links
  <1> DEFINE curses == IF t = Apple THEN {"ncurses"} ELSE {"ncursesw"}
  <1>2. CASE n \in {"_curses", "_curses_panel"}
    BY <1>1, <1>2 DEF LinksFor, WithLinks, Curses
  <1>3. CASE n \in {"_ssl", "_hashlib"}
    BY <1>1, <1>3 DEF LinksFor, WithLinks, OpenSSL
  <1>4. CASE n = "_ctypes"
    BY <1>1, <1>4 DEF LinksFor, WithLinks
  <1>5. CASE n \notin {"_curses", "_curses_panel", "_ssl", "_hashlib", "_ctypes"}
    BY <1>1, <1>5 DEF LinksFor, WithLinks
  <1>6. QED
    BY <1>2, <1>3, <1>4, <1>5

LEMMA TkLinks ==
    ASSUME NEW t \in Targets, NEW n \in WithLinks, "tcl9tk9.0" \in Links[t][n]
    PROVE  n = "_tkinter"
  <1>1. Links[t] = LinksFor(t)
    BY DEF Links
  <1>2. QED
    BY <1>1 DEF LinksFor, WithLinks

\* Packages name the libraries of a group all or none.
LEMMA NamedTogether ==
    ASSUME NEW p \in DOMAIN LibraryNames, NEW q \in DOMAIN Archives,
           NEW a \in LibraryNames[p], NEW b \in Archives[q],
           \/ a = b \/ {a, b} = {"ffi", "dl"}
           \/ {a, b} \subseteq Curses \/ {a, b} \subseteq OpenSSL
    PROVE  b \in LibraryNames[p]
  <1>1. a # "dl" /\ b # "dl" /\ a # ":libatomic.a" /\ b # ":libatomic.a"
    BY DEF LibraryNames, Archives
  <1>2. CASE a \in Curses /\ b \in Curses
    <2>1. p = "ncurses"
      BY <1>2 DEF LibraryNames, Archives, Curses
    <2>2. QED
      BY <1>2, <2>1 DEF LibraryNames, Archives, Curses
  <1>3. CASE a \in {"crypto", "ssl"} /\ b \in {"crypto", "ssl"}
    <2>1. p \in {"openssl-3.5", "openssl-1.1"}
      BY <1>3 DEF LibraryNames, Archives
    <2>2. QED
      BY <1>3, <2>1 DEF LibraryNames, Archives
  <1>4. QED
    BY <1>1, <1>2, <1>3 DEF OpenSSL

\* A link of type static is in the table of links, and its library in an archive.
LEMMA StaticLink ==
    ASSUME job \in Jobs, NEW n, NEW l \in Entry(n).links, l.type = "static"
    PROVE  /\ n \in WithLinks /\ l.name \in Links[job.target][n]
           /\ \E p \in DOMAIN Archives : l.name \in Archives[p]
  <1>1. /\ l.name \in ParsedLinks(n) /\ l.name \in libraries
    BY DEF Entry, LinkEntries
  <1>2. PICK p \in DOMAIN Archives : l.name \in Archives[p]
    BY <1>1 DEF libraries
  <1>3. l.name # "atomic"
    BY <1>2 DEF Archives
  <1>4. n \in DOMAIN Links[job.target] /\ l.name \in Links[job.target][n]
    BY <1>1, <1>3 DEF ParsedLinks, ParsedLink
  <1>5. DOMAIN Links[job.target] = WithLinks
    BY ExtensionsAssumption DEF Links, LinksFor
  <1>6. QED
    BY <1>2, <1>4, <1>5

\* With the library names as they are, every bundled library is credited.
LEMMA AllCredited ==
    ASSUME job \in Jobs, lists.library_names = DOMAIN LibraryNames,
           NEW n, n # "_tkinter", NEW l \in Entry(n).links, l.type = "static"
    PROVE  \E p \in Entry(n).licenses : l.name \in LibraryNames[p]
  <1>1. /\ n \in WithLinks /\ l.name \in Links[job.target][n]
        /\ \E p \in DOMAIN Archives : l.name \in Archives[p]
    BY StaticLink
  <1>2. l.name # "tcl9tk9.0"
    BY <1>1, TkLinks, ExtensionsAssumption
  <1>3. PICK p \in DOMAIN LibraryNames : l.name \in LibraryNames[p]
    BY <1>1, <1>2, ArchivesNamed
  <1>4. p \in Entry(n).licenses
    BY <1>3 DEF Entry, Credits
  <1>5. QED
    BY <1>3, <1>4

\* Whatever the library names, an entry with libraries of one package credits
\* them all or is rejected.
LEMMA AllOrNothing ==
    ASSUME job \in Jobs, NEW n, n \notin {"_tkinter", "readline"},
           ~MissingLicense(Entry(n)), NEW l \in Entry(n).links, l.type = "static"
    PROVE  \E p \in Entry(n).licenses : l.name \in LibraryNames[p]
  <1>1. /\ n \in WithLinks /\ l.name \in Links[job.target][n]
        /\ \E q \in DOMAIN Archives : l.name \in Archives[q]
    BY StaticLink
  <1>2. PICK p \in Entry(n).licenses : TRUE
    BY DEF MissingLicense
  <1>3. p \in DOMAIN LibraryNames /\ \E k \in Entry(n).links : k.name \in LibraryNames[p]
    BY DEF Entry, Credits
  <1>4. PICK k \in Entry(n).links : k.name \in LibraryNames[p]
    BY <1>3
  <1>5. k.name \in Links[job.target][n]
    <2>1. n \notin DOMAIN Frameworks(job.target)
      BY <1>1 DEF Frameworks, WithLinks
    <2>2. k.name \in ParsedLinks(n)
      BY <2>1 DEF Entry, LinkEntries
    <2>3. k.name # "atomic"
      BY <1>3, <1>4 DEF LibraryNames, Archives
    <2>4. DOMAIN Links[job.target] = WithLinks
      BY ExtensionsAssumption DEF Links, LinksFor
    <2>5. QED
      BY <2>2, <2>3 DEF ParsedLinks, ParsedLink
  <1>6. l.name \in LibraryNames[p]
    BY <1>1, <1>3, <1>4, <1>5, OnePackage, NamedTogether, ExtensionsAssumption
  <1>7. QED
    BY <1>6

-----------------------------------------------------------------------------
(* Few changes.                                                            *)

\* The inductive invariant: how far the lists are from the repository's, and
\* what Describe and Validate let pass.
Near ==
    /\ job \in Jobs /\ slips \in Nat
    /\ DOMAIN lists = DOMAIN StockLists(job)
    /\ slips = 0 => lists = StockLists(job)
    /\ slips <= 1 =>
        \E l : \A k \in DOMAIN lists \ {l} : lists[k] = StockLists(job)[k]
Accepted ==
    /\ stage \in {"archived", "passed"} =>
        /\ info.extensions = [n \in enabled |-> Entry(n)]
        /\ \A n \in enabled : ~MissingLicense(Entry(n))
    /\ stage = "passed" => validate_json(DOMAIN info.extensions)
    /\ slips = 0 => stage # "rejected"
Few == Near /\ Accepted

\* The repository's lists agree with each other: nothing is rejected.
LEMMA StockAccepted ==
    ASSUME job \in Jobs, lists = StockLists(job)
    PROVE  /\ InSync /\ Generable
           /\ enabled_extensions = lists.rust_wanted \ lists.rust_disabled
           /\ lists.LIBS \subseteq AllowedLibs
           /\ validate_json(enabled_extensions)
           /\ \A n \in enabled_extensions : ~MissingLicense(Entry(n))
  <1> DEFINE m == job.minor
             t == job.target
  <1>1. m \in Minors /\ t \in Targets
    BY ExtensionsAssumption
  <1>2. /\ lists.yaml = Yaml /\ lists.setup_enabled = SetupEnabled(m)
        /\ lists.config_c_only = ConfigCOnly(m)
        /\ lists.disabled_modules = disabled_modules
        /\ lists.library_names = DOMAIN LibraryNames
        /\ lists.rust_disabled = disabled_modules
        /\ lists.rust_wanted = WantedExtensions(m, t, static)
        /\ lists.Setup = SetupEnabled(m) \ Incompatible[m]
        /\ lists.ConfigC = ConfigCOnly(m) \ Incompatible[m]
        /\ lists.LIBS = {"dl", "m", "pthread"}
    BY DEF StockLists, static, PYSTANDALONE_DISABLED_EXTENSIONS
  <1>3. /\ ignored = Yaml \cap Incompatible[m]
        /\ setup_enabled_wanted = (Yaml \ Incompatible[m]) \cap SetupEnabled(m)
        /\ config_c_only_wanted = (Yaml \ Incompatible[m]) \cap ConfigCOnly(m)
        /\ disabled = (Yaml \ Incompatible[m]) \cap StockDisabled(job)
        /\ enabled_extensions = (Yaml \ Incompatible[m]) \ StockDisabled(job)
    BY <1>2 DEF ignored, setup_enabled_wanted, config_c_only_wanted, disabled,
       enabled_extensions, StockDisabled, static
  <1>4. InSync
    BY <1>1, <1>2, <1>3, SetupTables
    DEF InSync, dist_modules, setup_enabled_actual, Commented
  <1>5. Generable
    <2> SUFFICES ASSUME NEW n \in enabled_extensions, n \notin config_c_only_wanted,
                        n \in Sourceless
                 PROVE  n \in lists.Setup
      BY DEF Generable
    <2>1. n \notin AlwaysConfigC /\ n \notin Examples
      BY <1>1, <1>3, SetupTables DEF StockDisabled
    <2>2. n \in SetupOnly
      BY <2>1 DEF Sourceless
    <2>3. QED
      BY <1>1, <1>2, <1>3, <2>2, SetupTables
  <1>6. enabled_extensions = lists.rust_wanted \ lists.rust_disabled
    BY <1>2, <1>3, WantedIsEnabled DEF static
  <1>7. lists.LIBS \subseteq AllowedLibs
    BY <1>2 DEF AllowedLibs
  <1>8. validate_json(enabled_extensions)
    <2>1. "nis" \in disabled_modules
      BY DEF disabled_modules
    <2>2. QED
      BY <1>2, <1>6, <2>1 DEF validate_json, validate_extension_modules,
         GLOBALLY_BANNED_EXTENSIONS
  <1>9. ASSUME NEW n \in enabled_extensions
        PROVE  ~MissingLicense(Entry(n))
    <2>1. n # "_tkinter"
      BY <1>3 DEF StockDisabled, disabled_modules
    <2>2. QED
      BY <1>2, <2>1, AllCredited DEF MissingLicense
  <1>10. QED
    BY <1>4, <1>5, <1>6, <1>7, <1>8, <1>9

LEMMA NextFew == IInv /\ Few /\ [Next]_vars => Few'
  <1> SUFFICES ASSUME IInv, Few, [Next]_vars PROVE Few'
    OBVIOUS
  <1>1. CASE Slip
    <2>1. PICK s \in Slips :
            lists' = [lists EXCEPT ![s[1]] = (@ \ {s[2]}) \cup ({s[2]} \ @)]
      BY <1>1 DEF Slip
    <2>2. /\ DOMAIN lists' = DOMAIN lists
          /\ \A k \in DOMAIN lists \ {s[1]} : lists'[k] = lists[k]
      BY <2>1
    <2>3. UNCHANGED <<job, stage>> /\ stage = "editing" /\ slips' = slips + 1
      BY <1>1 DEF Slip
    <2>4. StockLists(job)' = StockLists(job)
      BY <2>3
    <2>5. slips' <= 1 => slips = 0
      BY <2>3 DEF Few, Near
    <2>6. Near'
      BY <2>2, <2>3, <2>4, <2>5 DEF Few, Near
    <2>7. QED
      BY <2>3, <2>6 DEF Few, Accepted
  <1>2. ASSUME UNCHANGED <<job, lists, slips>>
        PROVE  /\ Near' /\ validate_json(DOMAIN info.extensions)'
                            = validate_json(DOMAIN info'.extensions)
               /\ \A n : Entry(n)' = Entry(n)
               /\ \A n : MissingLicense(Entry(n))' = MissingLicense(Entry(n))
    <2>1. Near'
      <3>1. StockLists(job)' = StockLists(job)
        BY <1>2
      <3>2. QED
        BY <1>2, <3>1 DEF Few, Near
    <2>2. validate_json(DOMAIN info.extensions)' = validate_json(DOMAIN info'.extensions)
      BY <1>2 DEF validate_json, validate_extension_modules
    <2>3. SharedLines' = SharedLines
      BY <1>2 DEF SharedLines, FromYaml, enabled_extensions, ignored, disabled,
         config_c_only_wanted, static
    <2>4. \A n : LinkEntries(n)' = LinkEntries(n)
      BY <1>2 DEF LinkEntries, libraries, ParsedLinks, ParsedLink
    <2>5. \A n : Entry(n)' = Entry(n)
      BY <1>2, <2>3, <2>4 DEF Entry, Credits
    <2>6. QED
      BY <2>1, <2>2, <2>5 DEF MissingLicense
  <1>3. CASE Derive
    <2>1. slips = 0 => stage' # "rejected"
      BY <1>3, StockAccepted DEF Derive, Few, Near
    <2>2. stage' \in {"configured", "rejected"} /\ UNCHANGED <<job, lists, slips>>
      BY <1>3 DEF Derive
    <2>3. QED
      BY <1>2, <2>1, <2>2 DEF Few, Accepted
  <1>4. CASE Make
    BY <1>2, <1>4 DEF Make, Few, Accepted
  <1>5. CASE Describe
    <2>1. UNCHANGED <<job, lists, slips, enabled>> /\ stage = "made"
      BY <1>5 DEF Describe
    <2>2. enabled = enabled_extensions
      BY <2>1 DEF IInv, Configured, After
    <2>3. CASE stage' = "archived"
      <3>1. /\ info'.extensions = [n \in enabled |-> Entry(n)]
            /\ \A n \in enabled : ~MissingLicense([k \in enabled |-> Entry(k)][n])
        BY <1>5, <2>3 DEF Describe
      <3>2. \A n \in enabled : ~MissingLicense(Entry(n))
        BY <3>1
      <3>3. QED
        BY <1>2, <2>1, <2>3, <3>1, <3>2 DEF Few, Accepted
    <2>4. CASE stage' # "archived"
      <3>1. stage' = "rejected"
        BY <1>5, <2>4 DEF Describe
      <3>2. ~(/\ lists.LIBS \subseteq AllowedLibs
              /\ \A n \in enabled : ~MissingLicense(Entry(n))
              /\ enabled \subseteq lists.yaml)
        BY <1>5, <2>4 DEF Describe, ValidJson
      <3>3. slips # 0
        BY <2>2, <3>2, StockAccepted DEF Few, Near, enabled_extensions
      <3>4. QED
        BY <1>2, <2>1, <3>1, <3>3 DEF Few, Accepted
    <2>5. QED
      BY <2>3, <2>4
  <1>6. CASE Validate
    <2>1. UNCHANGED <<job, lists, slips, enabled, info>> /\ stage = "archived"
          /\ stage' = IF validate_json(DOMAIN info.extensions)
                      THEN "passed" ELSE "rejected"
      BY <1>6 DEF Validate
    <2>2. enabled = enabled_extensions /\ DOMAIN info.extensions = enabled
      BY <2>1 DEF IInv, Configured, Archived, After
    <2>3. slips = 0 => stage' = "passed"
      BY <2>1, <2>2, StockAccepted DEF Few, Near
    <2>4. /\ info'.extensions = [n \in enabled |-> Entry(n)]
          /\ \A n \in enabled : ~MissingLicense(Entry(n))
      BY <2>1 DEF Few, Accepted
    <2>5. stage' = "passed" => validate_json(DOMAIN info'.extensions)
      BY <2>1
    <2>6. QED
      BY <1>2, <2>1, <2>3, <2>4, <2>5 DEF Few, Accepted
  <1>7. CASE UNCHANGED vars
    BY <1>2, <1>7 DEF vars, Few, Accepted
  <1>8. QED
    BY <1>1, <1>3, <1>4, <1>5, <1>6, <1>7 DEF Next

LEMMA FewHolds == Spec => []Few
  <1>1. Init => Few
    BY DEF Init, Few, Near, Accepted
  <1>2. QED
    BY <1>1, InitIInv, NextIInv, NextFew, PTL DEF Spec

\* Whatever version, target and options: nothing that derive_setup_local,
\* python_build_info, validate_python_json or validate-distribution checks
\* rejects the repository as it is.
THEOREM StockPassesHolds == Spec => []StockPasses
  <1>1. Few => StockPasses
    BY DEF Few, Accepted, StockPasses
  <1>2. QED
    BY <1>1, FewHolds, PTL

\* With any one change of any list, each library that a distribution that passes
\* bundles in a module it describes is credited under its own name.
THEOREM LibrariesCreditedHolds == Spec => []LibrariesCredited
  <1>1. IInv /\ Few => LibrariesCredited
    <2> SUFFICES ASSUME IInv, Few, stage = "passed", slips <= 1,
                        NEW n \in DOMAIN info.extensions,
                        NEW l \in info.extensions[n].links, l.type = "static"
                 PROVE  \E p \in info.extensions[n].licenses : l.name \in LibraryNames[p]
      BY DEF LibrariesCredited
    <2>1. /\ n \in enabled /\ enabled = enabled_extensions
          /\ info.extensions[n] = Entry(n) /\ ~MissingLicense(Entry(n))
          /\ validate_json(enabled)
      BY DEF IInv, Configured, Archived, After, Few, Accepted
    <2>2. job \in Jobs /\ l \in Entry(n).links
      BY <2>1 DEF Few, Near
    <2>3. PICK list : \A k \in DOMAIN lists \ {list} : lists[k] = StockLists(job)[k]
      BY DEF Few, Near
    <2>4. {"library_names", "disabled_modules", "rust_disabled"} \subseteq DOMAIN lists
      BY DEF Few, Near, StockLists
    <2>5. /\ StockLists(job).library_names = DOMAIN LibraryNames
          /\ StockLists(job).disabled_modules = disabled_modules
          /\ StockLists(job).rust_disabled = disabled_modules
      BY DEF StockLists, PYSTANDALONE_DISABLED_EXTENSIONS
    <2>6. lists.disabled_modules = disabled_modules \/ lists.rust_disabled = disabled_modules
      BY <2>3, <2>4, <2>5
    <2>7. n \notin disabled_modules
      <3>1. n \notin lists.rust_disabled
        BY <2>1 DEF validate_json
      <3>2. n \notin lists.disabled_modules
        BY <2>1 DEF enabled_extensions, disabled
      <3>3. QED
        BY <2>6, <3>1, <3>2
    <2>8. n \notin {"_tkinter", "readline"}
      BY <2>7 DEF disabled_modules
    <2>9. QED
      BY <2>1, <2>2, <2>8, AllOrNothing
  <1>2. QED
    BY <1>1, InitIInv, NextIInv, FewHolds, PTL DEF Spec
=============================================================================
