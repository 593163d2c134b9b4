---------------------------- MODULE MCUnixBuild ----------------------------
(* Linux with tk and the X11 libraries, static musl, and macOS.            *)
EXTENDS UnixBuild, TLC

LinuxGnu == [needs |-> {"autoconf", "binutils", "libX11", "libXau", "libxcb", "m4",
                        "tcl", "tk", "xcb-proto", "xorgproto", "zlib"},
             toolchain |-> TRUE, docker |-> TRUE, static |-> FALSE]

LinuxMusl == [needs |-> {"autoconf", "binutils", "libedit", "m4", "musl", "ncurses"},
              toolchain |-> TRUE, docker |-> TRUE, static |-> TRUE]

MacOS == [needs |-> {"autoconf", "m4", "tcl", "tk"},
          toolchain |-> TRUE, docker |-> FALSE, static |-> FALSE]

Three == {LinuxGnu, LinuxMusl, MacOS}

\* An image, a package used by two others, the host Python, and the patches.
EditedNames == LinuxGnu :> {} @@ LinuxMusl :> {"image-build", "m4", "patches"}
               @@ MacOS :> {"m4", "cpython-host", "patches"}
=============================================================================
