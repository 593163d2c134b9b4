--------------------------- MODULE StaticProjects ---------------------------
(***************************************************************************)
(* The edits that pythonbuild/static.py and hack_props make so that the    *)
(* extensions of a Windows build are linked into the executable.           *)
(*                                                                         *)
(* A Visual Studio project is the sequence of its lines that matter, a tag *)
(* or the name of a setting each.  An edit that cannot be made ends the    *)
(* build: its result is Failed, and so is that of every later edit of that *)
(* file.                                                                   *)
(***************************************************************************)
EXTENDS Naturals, Sequences, SequencesExt, FiniteSets, FiniteSetsExt

Failed == <<>>

Occurs(f, line) == \E i \in DOMAIN f : f[i] = line
Positions(f, line) == {i \in DOMAIN f : f[i] = line}

(* f with each line replaced by a sequence of lines.                       *)
Rewritten(f, R(_)) == FlattenSeq([i \in DOMAIN f |-> R(i)])

InsertedAfter(f, i, lines) == SubSeq(f, 1, i) \o lines \o SubSeq(f, i + 1, Len(f))

----------------------------------------------------------------------------
(* static_replace_in_file, and the same under "except NoSearchStringError: *)
(* pass".                                                                  *)
Substituted(f, line, by) ==
    Rewritten(f, LAMBDA i : IF f[i] = line THEN by ELSE <<f[i]>>)
static_replace_in_file(f, line, by) ==
    IF Occurs(f, line) THEN Substituted(f, line, by) ELSE Failed
Optionally(f, line, by) ==
    IF Occurs(f, line) THEN Substituted(f, line, by) ELSE f

----------------------------------------------------------------------------
(* PC/config.c: how many declarations and how many entries of the table    *)
(* each module has.  All declarations come before the table.               *)
Entries(c) == {n \in DOMAIN c.entries : c.entries[n] > 0}
Externs(c) == {n \in DOMAIN c.externs : c.externs[n] > 0}

\* Each of names gets a declaration in front of the table and an entry at its
\* end, whether it has one already or not.
add_to_config_c(c, names) ==
    [part \in DOMAIN c |->
        [n \in DOMAIN c[part] |-> c[part][n] + (IF n \in names THEN 1 ELSE 0)]]

(* The entry of each of names goes, and of the lines before it all that    *)
(* contain the name of its init function: within[n] are the modules whose  *)
(* init function's name contains that of n, ahead[n] those that have their *)
(* entry before it.  (Whichever is taken first: a name that loses its entry*)
(* to another would take no line that the other does not take.)            *)
remove_from_config_c(c, names, within, ahead) ==
    LET found == names \cap Entries(c) IN
    [externs |-> [n \in DOMAIN c.externs |->
                    IF \E d \in found : n \in within[d] THEN 0 ELSE c.externs[n]],
     entries |-> [n \in DOMAIN c.entries |->
                    IF \/ n \in found
                       \/ \E d \in found : n \in within[d] \cap ahead[d]
                    THEN 0 ELSE c.entries[n]]]

----------------------------------------------------------------------------
(* Project files.                                                          *)

(* It is returned as it is when it is a static library already.            *)
make_project_static_library(f) ==
    CASE Occurs(f, "StaticLibrary") -> f
      [] ~Occurs(f, "DynamicLibrary") \/ ~Occurs(f, ".pyd") -> Failed
      [] OTHER -> Substituted(Substituted(f, "DynamicLibrary", <<"StaticLibrary">>),
                              ".pyd", <<".lib">>)

(* copy_lines: those seen so far in any <Link>.                            *)
InLink(f, i) ==
    /\ f[i] \notin {"<Link>", "</Link>"}
    /\ \E k \in 1..i : f[k] = "<Link>" /\ \A m \in k..i : f[m] # "</Link>"
CopyLines(f, i) ==
    Rewritten(SubSeq(f, 1, i), LAMBDA k : IF InLink(f, k) THEN <<f[k]>> ELSE <<>>)

copy_link_to_lib(f) ==
    Rewritten(f, LAMBDA i :
        IF f[i] # "</Link>" THEN <<f[i]>>
        ELSE LET lines == CopyLines(f, i) IN
             <<f[i], "<Lib>">> \o lines
             \o (IF Occurs(lines, "directories") THEN <<>> ELSE <<"directories">>)
             \o <<"</Lib>">>)

(* A definition for one source file follows the line of that file.         *)
GlobalDefines(f) ==
    {i \in Positions(f, "defines") : f[i - 1] # "<ClCompile Include>"}

CoreDefinition == <<"<ItemDefinitionGroup>", "<ClCompile>", "core;defines",
                    "</ClCompile>", "</ItemDefinitionGroup>">>

(* Py_BUILD_CORE_BUILTIN is added to the definitions, or with a group of   *)
(* its own in front of the first <ItemGroup>.                              *)
WithCoreDefine(f) ==
    LET global == GlobalDefines(f) IN
    IF global # {}
    THEN Rewritten(f, LAMBDA i : IF i \in global THEN <<"core;defines">> ELSE <<f[i]>>)
    ELSE InsertedAfter(f, Min(Positions(f, "<ItemGroup>")) - 1, CoreDefinition)

(* Where the reference goes: after the first <ItemDefinitionGroup>, or,    *)
(* when that group was just introduced, one line further.                  *)
ReferenceLine(f) ==
    IF GlobalDefines(f) # {} THEN Min(Positions(f, "<ItemDefinitionGroup>"))
    ELSE Min(Positions(f, "<ItemGroup>")) + 1

convert_to_static_library(f, depends) ==
    LET g == copy_link_to_lib(make_project_static_library(f)) IN
    CASE g = Failed -> Failed
      [] depends -> InsertedAfter(WithCoreDefine(g), ReferenceLine(g),
                        <<"<ProjectReference>", "LinkLibraryDependencies",
                          "</ProjectReference>">>)
      [] OTHER -> WithCoreDefine(g)

----------------------------------------------------------------------------
(* hack_props: libffi.props and openssl.props.                             *)

(* The second edit of the group is not tried when the first finds nothing. *)
Libffi8(f) ==
    IF Occurs(f, "dll libffi-7")
    THEN Optionally(Substituted(f, "dll libffi-7", <<"dll libffi-8">>),
                    "libffi-7.lib", <<"libffi-8.lib">>)
    ELSE f

(* The last edit looks for the library just before </Lib>.                 *)
WithSearchPath(f) ==
    LET last == {i \in Positions(f, "libffi.lib") : f[i + 1] = "</Lib>"} IN
    IF last = {} THEN Failed ELSE InsertedAfter(f, Min(last), <<"directories">>)

libffi_props(f) ==
    LET g == static_replace_in_file(Libffi8(copy_link_to_lib(f)),
                 "libffi-8.lib", <<"libffi.lib">>) IN
    WithSearchPath(static_replace_in_file(g, "copy rules", <<>>))

(* Either form of the rules that copy the DLLs.                            *)
openssl_props(f) ==
    LET g == IF Occurs(f, "copy rules") THEN Substituted(f, "copy rules", <<>>)
             ELSE static_replace_in_file(f, "legacy copy rules", <<>>) IN
    static_replace_in_file(copy_link_to_lib(g), "libcrypto.lib;libssl.lib",
        <<"libcrypto_static.lib;libssl_static.lib">>)

(* pythoncore.vcxproj, with which python.lib is made.                      *)
pythoncore_proj(f) ==
    LET g == static_replace_in_file(f, "Py_ENABLE_SHARED", <<"Py_NO_ENABLE_SHARED">>)
        h == static_replace_in_file(g, "DynamicLibrary", <<"StaticLibrary">>) IN
    static_replace_in_file(copy_link_to_lib(h), "</Lib>", <<"options", "</Lib>">>)

----------------------------------------------------------------------------
(* What MSBuild makes of a file: each tag may stand in its parent only.    *)
Parent(tag) ==
    CASE tag \in {"<ItemDefinitionGroup>", "<ItemGroup>"} -> "<Project>"
      [] tag = "<ClCompile Include>" -> "<ItemGroup>"
      [] OTHER -> "<ItemDefinitionGroup>"
Closed(tag) ==
    CASE tag = "</ItemDefinitionGroup>" -> "<ItemDefinitionGroup>"
      [] tag = "</ItemGroup>" -> "<ItemGroup>"
      [] tag = "</ClCompile Include>" -> "<ClCompile Include>"
      [] tag = "</ClCompile>" -> "<ClCompile>"
      [] tag = "</Link>" -> "<Link>"
      [] tag = "</Lib>" -> "<Lib>"
      [] tag = "</ProjectReference>" -> "<ProjectReference>"
      [] OTHER -> ""
Tags == {"<ItemDefinitionGroup>", "<ItemGroup>", "<ClCompile Include>",
         "<ClCompile>", "<Link>", "<Lib>", "<ProjectReference>"}

\* What the reader is inside of after a line, when it was inside of open.
Inside(open, line) ==
    CASE line \in Tags -> IF open = Parent(line) THEN line ELSE "error"
      [] Closed(line) # "" -> IF open = Closed(line) THEN Parent(open) ELSE "error"
      [] OTHER -> open

\* (A tag has one parent, so that the innermost one tells the others.)
WellNested(f) ==
    LET inside[i \in 0..Len(f)] ==
            IF i = 0 THEN "<Project>" ELSE Inside(inside[i - 1], f[i])
    IN  inside[Len(f)] = "<Project>"

(* The settings of the <Link> and of the <Lib> sections.                   *)
Section(f, open, close) ==
    {f[i] : i \in {j \in DOMAIN f :
        /\ f[j] \notin {open, close}
        /\ \E k \in 1..j : f[k] = open /\ \A m \in k..j : f[m] # close}}
=============================================================================
