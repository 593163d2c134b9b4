--------------------------- MODULE MCReleasePlan ---------------------------
(* All the targets, with a version below the thresholds of the tables, 11, *)
(* 13 and 15, and one that none of them leaves out.                        *)
EXTENDS ReleasePlan

MCMinors == {10, 15}
MCLabels == {{<<"python", 10>>}, {<<"arch", "x86">>, <<"build", "pgo">>},
             {<<"ci", "dry-run">>, <<"libc", "musl">>, <<"build", "static">>}}
MCFragile == {<<"x86_64-unknown-linux-musl", {"lto", "static"}>>,
              <<"i686-pc-windows-msvc", {"pgo"}>>}
=============================================================================
