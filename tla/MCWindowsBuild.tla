--------------------------- MODULE MCWindowsBuild ---------------------------
(* A version on either side of each threshold, and one change of every     *)
(* kind that the lists have seen.                                          *)
EXTENDS WindowsBuild

MCMinors == {10, 12, 14}
MCSlips ==
    {<<"disabled", n>> : n \in {"_stat", "_statistics", "_sqlite3", "_asyncio",
                                "_tkinter", "_ssl", "_ctypes", "_decimal"}}
    \cup {<<"convert", n>> : n \in {"_new", "_lzma", "_socket"}}
    \cup {<<"config.c", n>> : n \in {"_new", "_socket", "_stat"}}
    \cup {<<"projects", n>> : n \in {"_new", "_queue", "_wmi"}}
    \cup {<<"registered", n>> : n \in {"_queue", "_asyncio"}}
    \cup {<<"defines", n>> : n \in {"_lzma", "_sqlite3", "_queue"}}
    \cup {<<"link", "_lzma">>, <<"link", "_queue">>, <<"annotation", "_lzma">>}
    \cup {<<"snippets", n>> : n \in {"exports.h", "pyport.h 3.9", "pyport.h 3.8", "layout", "winver"}}
    \cup {<<"exes", n>> : n \in {"pythonw", "_freeze_importlib"}}
    \cup {<<"credits", n>> : n \in {"_bz2", "_hashlib", "_lzma", "_ssl", "_zstd"}}
=============================================================================
