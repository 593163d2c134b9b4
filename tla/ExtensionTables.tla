-------------------------- MODULE ExtensionTables --------------------------
(***************************************************************************)
(* The tables that say which extension modules a Unix distribution has,    *)
(* as they are in the repository: cpython-unix/extension-modules.yml,      *)
(* pystandalone/disabled-modules, the lists of src/validation.rs, the      *)
(* needs of cpython-unix/targets.yml and the library names and licences    *)
(* of pythonbuild/downloads.py.  A Python version 3.m is the number m.     *)
(* Source files, defines and include paths are left out: of those, only    *)
(* whether a module has sources of its own decides anything here.          *)
(***************************************************************************)
EXTENDS Naturals, FiniteSets

Minors == 10..15

(* One target per class: Apple, Linux with glibc, Linux with musl.         *)
Apple == "aarch64-apple-darwin"
Gnu == "x86_64-unknown-linux-gnu"
Musl == "x86_64-unknown-linux-musl"
Targets == {Apple, Gnu, Musl}

----------------------------------------------------------------------------
(* extension-modules.yml.                                                  *)

(* Without sources: they come from config.c or from CPython's own Setup.   *)
AlwaysConfigC == {"_ast", "_imp", "_string", "_tokenize", "_warnings",
    "builtins", "gc", "marshal", "sys"}
SetupOnly == {"_abc", "_codecs", "_collections", "_functools", "_io",
    "_locale", "_operator", "_signal", "_sre", "_stat", "_symtable",
    "_thread", "_tracemalloc", "_weakref", "atexit", "errno",
    "faulthandler", "itertools", "posix", "pwd", "time"}
Examples == {"xx", "xxlimited", "xxlimited_35"}
Sourceless == AlwaysConfigC \cup SetupOnly \cup Examples

WithSources == {"_asyncio", "_bisect", "_blake2", "_bz2", "_codecs_cn",
    "_codecs_hk", "_codecs_iso2022", "_codecs_jp", "_codecs_kr",
    "_codecs_tw", "_contextvars", "_crypt", "_csv", "_ctypes",
    "_ctypes_test", "_curses", "_curses_panel", "_datetime", "_dbm",
    "_decimal", "_elementtree", "_gdbm", "_hashlib", "_heapq", "_hmac",
    "_interpchannels", "_interpqueues", "_interpreters", "_json",
    "_lsprof", "_lzma", "_math_integer", "_md5", "_multibytecodec",
    "_multiprocessing", "_opcode", "_pickle", "_posixshmem",
    "_posixsubprocess", "_pystandalone", "_queue", "_random",
    "_remote_debugging", "_scproxy", "_sha1", "_sha2", "_sha256", "_sha3",
    "_sha512", "_socket", "_sqlite3", "_ssl", "_statistics", "_struct",
    "_suggestions", "_sysconfig", "_testbuffer", "_testcapi",
    "_testexternalinspection", "_testimportmultiple", "_testinternalcapi",
    "_testlimitedcapi", "_testmultiphase", "_testsinglephase", "_tkinter",
    "_types", "_typing", "_uuid", "_xxinterpchannels",
    "_xxsubinterpreters", "_xxtestfuzz", "_zoneinfo", "_zstd", "array",
    "audioop", "binascii", "cmath", "fcntl", "grp", "math", "mmap", "nis",
    "ossaudiodev", "pyexpat", "readline", "resource", "select", "spwd",
    "syslog", "termios", "unicodedata", "xxsubtype", "zlib"}

Yaml == Sourceless \cup WithSources

(* minimum-python-version and maximum-python-version.                      *)
From11 == {"_tokenize", "_typing", "xx"}
From12 == {"_sha2", "_testsinglephase", "_xxinterpchannels"}
From13 == {"_interpchannels", "_interpqueues", "_interpreters", "_suggestions",
    "_sysconfig", "_testexternalinspection", "_testlimitedcapi"}
From14 == {"_hmac", "_remote_debugging", "_types", "_zstd"}
From15 == {"_math_integer"}
MinimumVersion ==
    [n \in From11 \cup From12 \cup From13 \cup From14 \cup From15 |->
        CASE n \in From11 -> 11 [] n \in From12 -> 12 [] n \in From13 -> 13
          [] n \in From14 -> 14 [] n \in From15 -> 15]
To11 == {"_sha256", "_sha512"}
To12 == {"_crypt", "audioop", "nis", "ossaudiodev", "spwd", "_xxinterpchannels",
    "_xxsubinterpreters"}
To13 == {"_testexternalinspection"}
MaximumVersion ==
    [n \in To11 \cup To12 \cup To13 |->
        CASE n \in To11 -> 11 [] n \in To12 -> 12 [] n \in To13 -> 13]
Incompatible ==
    [m \in Minors |->
        {n \in DOMAIN MinimumVersion : MinimumVersion[n] > m}
        \cup {n \in DOMAIN MaximumVersion : MaximumVersion[n] < m}]

(* setup-enabled and config-c-only, with their conditional entries.        *)
SetupEnabled(m) ==
    SetupOnly \cup {"_suggestions", "_sysconfig", "_types"}
    \cup (IF m >= 14 THEN {"_datetime", "_opcode"} ELSE {})
    \cup (IF m >= 12 THEN {"_typing"} ELSE {})
    \cup (IF m <= 11 THEN {"xxsubtype"} ELSE {})
ConfigCOnly(m) ==
    AlwaysConfigC \cup (IF m >= 14 THEN {"_contextvars"} ELSE {})

(* build-mode.                                                             *)
Shared == {"_crypt", "_ctypes_test", "_dbm", "_testbuffer",
    "_testexternalinspection", "_testimportmultiple", "_testmultiphase",
    "_testsinglephase", "_tkinter"}
SharedOrDisabled == {"_testcapi", "_testlimitedcapi"}

(* disabled-targets, required-targets.                                     *)
DisabledTargets(t) ==
    Examples \cup {"_gdbm", "nis"}
    \cup (IF t = Apple THEN {"spwd"} ELSE {"_scproxy"})
    \cup (IF t = Gnu THEN {} ELSE {"ossaudiodev"})

(* links and links-conditional.  The build-mode of a conditional link is   *)
(* not looked at.                                                          *)
WithLinks == {"_bz2", "_crypt", "_ctypes", "_ctypes_test", "_curses",
    "_curses_panel", "_dbm", "_decimal", "_elementtree", "_gdbm", "_hashlib",
    "_lzma", "_posixshmem", "_pystandalone", "_sqlite3", "_ssl", "_tkinter",
    "_uuid", "_zstd", "cmath", "math", "nis", "pyexpat", "readline", "zlib"}
LinksFor(t) ==
    LET linux(libs) == IF t = Apple THEN {} ELSE libs
        curses == IF t = Apple THEN {"ncurses"} ELSE {"ncursesw"}
        atomic == IF t = Gnu THEN {":libatomic.a"} ELSE {}
    IN  [n \in WithLinks |->
            CASE n = "_bz2" -> {"bz2"}
              [] n = "_crypt" -> linux({"crypt"})
              [] n = "_ctypes" -> {"ffi", "dl"}
              [] n \in {"_ctypes_test", "cmath", "math"} -> {"m"}
              [] n = "_curses" -> curses
              [] n = "_curses_panel" ->
                    curses \cup {IF t = Apple THEN "panel" ELSE "panelw"}
              [] n = "_dbm" -> linux({"db"})
              [] n = "_decimal" -> {"mpdec"}
              [] n \in {"_elementtree", "pyexpat"} -> {"expat"}
              [] n = "_gdbm" -> {"gdbm"}
              [] n = "_hashlib" -> {"crypto"} \cup atomic
              [] n = "_lzma" -> {"lzma"}
              [] n = "_posixshmem" -> linux({"rt"})
              [] n = "_pystandalone" -> {"crypto"}
              [] n = "_sqlite3" -> {"sqlite3"}
              [] n = "_ssl" -> {"ssl", "crypto"} \cup atomic
              [] n = "_tkinter" ->
                    {"tcl9.0", "tcl9tk9.0"} \cup linux({"X11", "xcb", "Xau"})
              [] n = "_uuid" -> {"uuid"}
              [] n = "_zstd" -> {"zstd"}
              [] n = "nis" -> {"nsl"}
              [] n = "readline" -> {"edit"} \cup curses
              [] n = "zlib" -> {"z"}]
Frameworks(t) ==
    [n \in IF t = Apple THEN {"_scproxy"} ELSE {} |->
        {"CoreFoundation", "SystemConfiguration"}]
Links == [t \in Targets |-> LinksFor(t)]

----------------------------------------------------------------------------
(* pystandalone/disabled-modules.                                          *)
disabled_modules == {"_crypt", "_ctypes_test", "_curses", "_curses_panel",
    "_dbm", "_decimal", "_gdbm", "_hmac", "_interpchannels",
    "_interpqueues", "_interpreters", "_lsprof", "_md5", "_msi",
    "_multiprocessing", "_remote_debugging", "_sha1", "_sha2", "_sha3",
    "_sha256", "_sha512", "_sqlite3", "_statistics", "_suggestions",
    "_symtable", "_testbuffer", "_testcapi", "_testimportmultiple",
    "_testinternalcapi", "_testmultiphase", "_tkinter", "_wmi",
    "_xxinterpchannels", "_xxsubinterpreters", "_xxtestfuzz", "audioop",
    "cmath", "grp", "nis", "ossaudiodev", "parser", "pwd", "readline",
    "resource", "spwd", "syslog", "winsound", "xxlimited", "xxsubtype"}

(* src/validation.rs: a second copy of the same names.                     *)
PYSTANDALONE_DISABLED_EXTENSIONS == disabled_modules
GLOBALLY_BANNED_EXTENSIONS == {"nis"}

GLOBAL_EXTENSIONS == {"_abc", "_ast", "_asyncio", "_bisect", "_blake2",
    "_bz2", "_codecs", "_codecs_cn", "_codecs_hk", "_codecs_iso2022",
    "_codecs_jp", "_codecs_kr", "_codecs_tw", "_collections",
    "_contextvars", "_csv", "_ctypes", "_datetime", "_decimal",
    "_elementtree", "_functools", "_hashlib", "_heapq", "_imp", "_io",
    "_json", "_locale", "_lsprof", "_zoneinfo", "_lzma", "_md5",
    "_multibytecodec", "_multiprocessing", "_opcode", "_operator",
    "_pickle", "_pystandalone", "_queue", "_random", "_sha1", "_sha3",
    "_signal", "_socket", "_sqlite3", "_sre", "_ssl", "_stat",
    "_statistics", "_string", "_struct", "_symtable", "_thread",
    "_tkinter", "_tracemalloc", "_warnings", "_weakref", "_uuid", "array",
    "atexit", "binascii", "builtins", "cmath", "errno", "faulthandler",
    "gc", "itertools", "marshal", "math", "mmap", "pyexpat", "select",
    "sys", "time", "unicodedata", "xxsubtype", "zlib"}

(* Mutant of GLOBAL_EXTENSIONS_PYTHON: the modules of 3.14 come with 3.15. *)
GlobalExtensionsLate(m) ==
    (IF m <= 11 THEN {"_sha256", "_sha512"} ELSE {"_sha2"})
    \cup (IF m <= 12 THEN {"audioop", "_xxsubinterpreters"}
          ELSE {"_suggestions", "_sysconfig"})
    \cup (IF m >= 11 THEN {"_tokenize", "_typing"} ELSE {})
    \cup (IF m > 14 THEN {"_types", "_zstd", "_math_integer"} ELSE {})

GLOBAL_EXTENSIONS_PYTHON(m) ==
    (IF m <= 11 THEN {"_sha256", "_sha512"} ELSE {"_sha2"})
    \cup (IF m <= 12 THEN {"audioop", "_xxsubinterpreters"}
          ELSE {"_interpchannels", "_interpqueues", "_interpreters",
                "_suggestions", "_sysconfig"})
    \cup (IF m >= 11 THEN {"_tokenize", "_typing"} ELSE {})
    \cup (IF m = 12 THEN {"_xxinterpchannels"} ELSE {})
    \cup (IF m >= 14 THEN {"_remote_debugging", "_hmac", "_types", "_zstd"}
          ELSE {})
    \cup (IF m = 15 THEN {"_math_integer"} ELSE {})

GLOBAL_EXTENSIONS_POSIX == {"_ctypes_test", "_curses", "_curses_panel",
    "_dbm", "_posixshmem", "_posixsubprocess", "_testinternalcapi",
    "fcntl", "grp", "posix", "pwd", "readline", "resource", "syslog",
    "termios"}

(* validate_extension_modules: the modules a distribution must have,       *)
(* before the disabled ones are taken out.                                 *)
WantedExtensions(m, t, static) ==
    GLOBAL_EXTENSIONS \cup GLOBAL_EXTENSIONS_PYTHON(m)
    \cup GLOBAL_EXTENSIONS_POSIX
    \cup {"_testbuffer", "_testimportmultiple", "_testmultiphase",
          "_xxtestfuzz"}
    \cup (IF m <= 12 THEN {"_crypt"} ELSE {})
    \cup (IF t = Apple THEN {"_scproxy"} ELSE {})
    \cup (IF t # Apple /\ m <= 12 THEN {"spwd"} ELSE {})
    \cup (IF t = Gnu /\ m <= 12 THEN {"ossaudiodev"} ELSE {})
    \cup (IF static THEN {} ELSE {"_testcapi"})
    \cup (IF ~static /\ m >= 13 THEN {"_testlimitedcapi"} ELSE {})
    \cup (IF m = 13 THEN {"_testexternalinspection"} ELSE {})
    \cup (IF m >= 12 THEN {"_testsinglephase"} ELSE {})

----------------------------------------------------------------------------
(* targets.yml: the needs of a target that hold libraries; readline is     *)
(* taken out by target_needs and is in none.                               *)
Needs(t) ==
    {"bzip2", "expat", "mpdecimal", "openssl-3.5", "sqlite", "tcl", "tk",
     "uuid", "xz", "zstd"}
    \cup (IF t = Musl THEN {"libffi-3.3"} ELSE {"libffi"})
    \cup (IF t = Apple THEN {}
          ELSE {"bdb", "libedit", "libX11", "libXau", "libxcb", "ncurses",
                "zlib"})

(* The static libraries a package installs (its build-*.sh).               *)
Archives ==
    [p \in {"bdb", "bzip2", "expat", "libedit", "libffi", "libffi-3.3", "libX11",
            "libXau", "libxcb", "mpdecimal", "ncurses", "openssl-3.5", "sqlite",
            "tcl", "tk", "uuid", "xz", "zlib", "zstd"} |->
        CASE p = "bdb" -> {"db"}
          [] p = "bzip2" -> {"bz2"}
          [] p = "expat" -> {"expat"}
          [] p = "libedit" -> {"edit"}
          [] p \in {"libffi", "libffi-3.3"} -> {"ffi"}
          [] p = "libX11" -> {"X11", "X11-xcb"}
          [] p = "libXau" -> {"Xau"}
          [] p = "libxcb" -> {"xcb"}
          [] p = "mpdecimal" -> {"mpdec"}
          [] p = "ncurses" -> {"ncurses", "ncursesw", "panel", "panelw"}
          [] p = "openssl-3.5" -> {"crypto", "ssl"}
          [] p = "sqlite" -> {"sqlite3"}
          [] p = "tcl" -> {"tcl9.0"}
          [] p = "tk" -> {"tcl9tk9.0"}
          [] p = "uuid" -> {"uuid"}
          [] p = "xz" -> {"lzma"}
          [] p = "zlib" -> {"z"}
          [] p = "zstd" -> {"zstd"}]

(* downloads.py: the library names with which a licence is found.  Every   *)
(* package that has names has a licence, or is in the public domain        *)
(* (sqlite).                                                               *)
LibraryNames ==
    [p \in DOMAIN Archives \cup {"tcl-8612", "tk-8612", "openssl-1.1", "zlib-ng",
                                 "readline"} |->
        CASE p = "tk" -> {"tk9.0"}
          [] p = "tcl-8612" -> {"tcl8.6"}
          [] p = "tk-8612" -> {"tk8.6"}
          [] p = "openssl-1.1" -> {"crypto", "ssl"}
          [] p = "zlib-ng" -> {"z"}
          [] p = "readline" -> {"readline"}
          [] OTHER -> Archives[p]]
=============================================================================
