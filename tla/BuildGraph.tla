------------------------------ MODULE BuildGraph ------------------------------
(***************************************************************************)
(* The two lists that order a Unix build: the prerequisites of the rules   *)
(* in cpython-unix/Makefile, and the archives that the build.py run by a   *)
(* rule installs.  They are kept by hand, and nothing but their agreement  *)
(* makes the recipes of `make -j` find what they need.                     *)
(*                                                                         *)
(* An archive is named after its rule, without versions and platforms.     *)
(***************************************************************************)
EXTENDS Naturals

\* The settings of a target triple: the packages it needs and whether it
\* needs a toolchain (targets.yml), whether recipes run in Docker (always on
\* Linux, never on macOS) and whether "static" is among the options.
CONSTANT Targets

Images == {"image-gcc", "image-build"}
X11 == {"libpthread-stubs", "x11-util-macros", "xorgproto", "xtrans", "xcb-proto",
        "libXau", "libxcb", "libX11"}
Packages == X11 \cup {"binutils", "musl", "m4", "autoconf", "ncurses", "libedit",
    "zlib", "tcl", "tk", "bdb", "bzip2", "expat", "libffi-3.3", "libffi",
    "mpdecimal", "openssl-3.5", "patchelf", "sqlite", "uuid", "xz", "zstd"}
AllNames == Packages \cup Images \cup {"clang", "cpython-host", "cpython"}

\* What all targets of targets.yml have in common.
ASSUME TargetsAssumption ==
    \A t \in Targets :
        /\ t.toolchain \in BOOLEAN /\ t.docker \in BOOLEAN /\ t.static \in BOOLEAN
        /\ t.docker <=> "binutils" \in t.needs
        /\ t.needs \subseteq Packages
        /\ "musl" \in t.needs => t.docker
        /\ t.needs \cap X11 # {} => {"tk", "libX11"} \subseteq t.needs
        /\ t.docker /\ "tk" \in t.needs => "libX11" \in t.needs

-----------------------------------------------------------------------------
(* What the Makefile orders.                                               *)

If(condition, names) == IF condition THEN names ELSE {}

BASE_TOOLCHAIN_DEPENDS(t) == (t.needs \cap {"binutils"}) \cup {"clang"}
TOOLCHAIN_DEPENDS(t) == BASE_TOOLCHAIN_DEPENDS(t) \cup (t.needs \cap {"musl"})
PYTHON_DEP_DEPENDS(t) == If(t.docker, {"image-build"}) \cup TOOLCHAIN_DEPENDS(t)
PYTHON_HOST_DEPENDS(t) == PYTHON_DEP_DEPENDS(t) \cup {"autoconf", "m4"}

\* python_version_template.  NEED_m4 is never set (the settings are in upper
\* case) and $(ifNEED_AUTOCONF) has lost a blank: those two come with the
\* host Python, and the X11 libraries with tk.
PYTHON_DEPENDS(t) ==
    {"cpython-host"} \cup
    (t.needs \cap {"bdb", "bzip2", "expat", "libedit", "libffi-3.3", "libffi",
                   "mpdecimal", "ncurses", "openssl-3.5", "patchelf", "sqlite",
                   "tcl", "tk", "uuid", "xz", "zlib", "zstd"})

Rule(t, n) ==
    CASE n \in Images \cup {"clang"} -> {}
      [] n = "binutils" -> {"image-gcc"}
      [] n = "musl" -> BASE_TOOLCHAIN_DEPENDS(t)
      [] n = "autoconf" -> PYTHON_DEP_DEPENDS(t) \cup {"m4"}
      [] n = "cpython-host" -> PYTHON_HOST_DEPENDS(t)
      [] n = "libXau" -> PYTHON_DEP_DEPENDS(t) \cup {"x11-util-macros", "xorgproto"}
      [] n = "xcb-proto" -> PYTHON_DEP_DEPENDS(t) \cup {"cpython-host"}
      [] n = "libxcb" -> PYTHON_DEP_DEPENDS(t) \cup
            {"cpython-host", "xcb-proto", "libXau", "xorgproto", "libpthread-stubs"}
      [] n = "libX11" -> PYTHON_DEP_DEPENDS(t) \cup {"libxcb", "xtrans", "xorgproto"}
      [] n = "libedit" -> PYTHON_DEP_DEPENDS(t) \cup {"ncurses"}
      [] n = "tcl" -> PYTHON_DEP_DEPENDS(t) \cup {"zlib"}
      [] n = "tk" -> {"cpython-host", "tcl"} \cup (t.needs \cap {"libX11"})
      [] n = "cpython" -> PYTHON_DEP_DEPENDS(t) \cup PYTHON_DEPENDS(t)
      [] OTHER -> PYTHON_DEP_DEPENDS(t)

\* Mutant of Prereqs: AUTOCONF_DEPENDS without the m4 archive.
PrereqsWithoutM4(t, n) == IF n = "autoconf" THEN Rule(t, n) \ {"m4"} ELSE Rule(t, n)

Prereqs(t, n) == Rule(t, n)

\* Ordered[t][n]: the prerequisites, as a table.
Ordered == [t \in Targets |-> [n \in AllNames |-> Prereqs(t, n)]]

\* What can be reached from each name along edges that have no cycle.
Reach(edges) ==
    LET reach[n \in AllNames] == edges[n] \cup UNION {reach[m] : m \in edges[n]}
    IN  [n \in AllNames |-> reach[n]]

\* Below[t][n]: what make brings up to date before n.
Below == [t \in Targets |-> Reach(Ordered[t])]

\* Mutant of Watched: the host Python's rule without its script.
WatchedNotHost == AllNames \ {"clang", "cpython-host"}

\* The archives with a script or Dockerfile among their prerequisites.  The
\* version of clang is part of its archive's name.
Watched == AllNames \ {"clang"}

\* What build_cpython copies although no rule names it: patches, licences,
\* pystandalone/src, the list of disabled modules and run_tests-13.py.  (No
\* rule names build.py and pythonbuild/*.py either, which drive every recipe:
\* they stay as they are in this model.)
OtherSources == {"patches"}
MadeFrom(source) == IF source \in OtherSources THEN "cpython" ELSE source

-----------------------------------------------------------------------------
(* What build.py installs.                                                 *)

install_toolchain(t) ==
    If(t.docker, {"binutils"}) \cup {"clang"} \cup (t.needs \cap {"musl"})

simple_build(t, extra_archives) ==
    If(t.docker, {"image-build"}) \cup If(t.toolchain, install_toolchain(t))
        \cup extra_archives

Uses(t, n) ==
    CASE n \in Images \cup {"clang"} -> {}
      [] n = "binutils" -> {"image-gcc"}
      [] n = "musl" -> {"image-gcc", "binutils", "clang"}
      [] n = "autoconf" -> simple_build(t, {"m4"})
      [] n = "cpython-host" ->
            If(t.docker, {"image-build", "binutils"}) \cup {"clang", "autoconf", "m4"}
      [] n = "libXau" -> simple_build(t, {"x11-util-macros", "xorgproto"})
      [] n = "xcb-proto" -> simple_build(t, {"cpython-host"})
      [] n = "libxcb" -> simple_build(t,
            {"libpthread-stubs", "libXau", "xcb-proto", "xorgproto", "cpython-host"})
      [] n = "libX11" -> simple_build(t,
            {"libpthread-stubs", "libXau", "libxcb", "x11-util-macros", "xorgproto",
             "xtrans"})
      [] n = "libedit" -> simple_build(t, {"ncurses"})
      [] n = "tcl" -> simple_build(t, {"zlib"})
      [] n = "tk" -> simple_build(t, {"tcl", "zlib", "cpython-host"} \cup
            If(t.docker, {"libX11", "libXau", "libxcb", "xcb-proto", "xorgproto"}))
      [] n = "cpython" -> simple_build(t,
            (t.needs \ {"binutils", "musl"}) \cup {"cpython-host"})
      [] OTHER -> simple_build(t, {})

Installs == [t \in Targets |-> [n \in AllNames |-> Uses(t, n)]]

\* Derives[t][n]: everything the content of n comes from, n included.
Derives == [t \in Targets |->
    LET installed == Reach(Installs[t])
    IN  [n \in AllNames |-> {n} \cup installed[n]]]
=============================================================================
