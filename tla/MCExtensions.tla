--------------------------- MODULE MCExtensions ---------------------------
(* Every version on every target, with the options that the configuration  *)
(* of extension modules looks at; names of every kind in every list.       *)
EXTENDS Extensions

MCJobs ==
    {[minor |-> m, target |-> t, options |-> {}] : m \in Minors, t \in Targets}
    \cup {[minor |-> m, target |-> Musl, options |-> {"static", "lto"}] :
            m \in Minors}

MCNames == {"_new", "_new2", "_contextvars", "_heapq", "_symtable",
            "_testcapi", "sys"}
MCSlips ==
    {"yaml", "setup_enabled", "config_c_only", "Setup", "ConfigC",
     "disabled_modules", "rust_disabled", "rust_wanted"} \X MCNames
    \cup {"needs", "library_names"} \X {"openssl-3.5", "xz"}
    \cup {<<"LIBS", "rt">>}

(* Free-threaded and debug builds, for the paths in the metadata.          *)
MCSuffixJobs ==
    {[minor |-> 13, target |-> t, options |-> o] :
        t \in Targets, o \in SUBSET {"freethreaded", "debug"}}
=============================================================================
