------------------------- MODULE WindowsBuild_proofs -------------------------
(***************************************************************************)
(* Theorems about WindowsBuild, for any versions, changes of lists and     *)
(* number of builds on one machine.                                        *)
(***************************************************************************)
EXTENDS WindowsBuild, SequenceTheorems, WellFoundedInduction, TLAPS

\* The archive of l is of the pinned version, or was there before the build.
Pinned(l) ==
    \A a \in ArchiveOf(l, kept) : a.pin = pins[l] \/ l \in src.reused

\* The inductive invariant.  A build that gets past the lookup of an archive
\* has one with the pinned version, or one that it reuses.
JobOK ==
    /\ stage # "idle" => job.minor \in Minors
    /\ DOMAIN src = DOMAIN NoSrc
    /\ stage # "msbuild" => src.done = 0 /\ src.compiled = "none"
    /\ stage \in {"idle", "openssl", "libffi", "extract"} => src.libs = {}
ArchivesOK ==
    /\ stage \in {"libffi", "extract"} => Pinned(openssl_entry)
    /\ stage = "extract" => Pinned("libffi")
LibsOK ==
    \A a \in src.libs :
        /\ a.library \in {openssl_entry, "libffi"}
        /\ a.members \subseteq Members(a.library)
        /\ a.pin = pins[a.library] \/ a.library \in src.reused

\* Members of an archive are where their names say, however it was cut.
KeptOK == \A a \in kept : a.members \subseteq Members(a.library)

\* _pystandalone is built by every build, and needs all of OpenSSL.
RegisteredOK ==
    stage \in {"projects", "source", "msbuild"} => "_pystandalone" \in src.registered

\* Modules are compiled once the libraries are there, and from 3.11 on, or
\* after a first build that was not cut short, zipimport is fresh.
CompiledOK ==
    src.compiled # "none" => \A e \in src.registered : Needs(e) \subseteq Extracted
FrozenOK ==
    /\ src.done \in Nat
    /\ src.compiled # "none" /\ job.minor >= 11 => src.compiled = "new"
    /\ job.minor <= 10 /\ ~src.cut =>
        /\ src.done >= 1 => src.frozen = "new"
        /\ src.done >= 2 => src.compiled = "new"

IInv == JobOK /\ ArchivesOK /\ LibsOK /\ KeptOK /\ RegisteredOK /\ CompiledOK
            /\ FrozenOK /\ ArchivesCurrent /\ ZipimportCurrent

-----------------------------------------------------------------------------
\* Until 3.10 there are two calls of MSBuild or more, the first for a Release.
LEMMA PlanShape ==
    ASSUME job.minor <= 10
    PROVE  Plan[1][2] = "Release" /\ Len(Plan) >= 2
  <1>1. ASSUME NEW a, NEW b, NEW c, NEW d
        PROVE  /\ (<<a>> \o <<b, c, d>>)[1] = a /\ Len(<<a>> \o <<b, c, d>>) = 4
               /\ (<<a>> \o <<b>>)[1] = a /\ Len(<<a>> \o <<b>>) = 2
    <2> DEFINE S == {a, b, c, d}
    <2>1. <<a>> \in Seq(S) /\ <<b>> \in Seq(S) /\ <<b, c, d>> \in Seq(S)
      OBVIOUS
    <2>2. QED
      BY <2>1, ConcatProperties
  <1>2. CASE "pgo" \in job.options
    <2>1. Plan = <<<<"Build", "Release", FALSE>>>>
                 \o <<<<"Rebuild", "PGInstrument", TRUE>>, <<"Build", "PGUpdate", TRUE>>,
                      <<"Rebuild", "PGUpdate", TRUE>>>>
      BY <1>2 DEF Plan
    <2>2. QED
      BY <1>1, <2>1
  <1>3. CASE "pgo" \notin job.options
    <2>1. Plan = <<<<"Build", "Release", job.minor > 10>>>>
                 \o <<<<"Rebuild", "Release", TRUE>>>>
      BY <1>3 DEF Plan
    <2>2. QED
      BY <1>1, <2>1
  <1>4. QED
    BY <1>2, <1>3

-----------------------------------------------------------------------------
(* Every step preserves the invariant.                                     *)

LEMMA InitIInv == Init => IInv
  BY DEF Init, IInv, JobOK, ArchivesOK, LibsOK, KeptOK, RegisteredOK, CompiledOK, FrozenOK, NoSrc,
     ArchivesCurrent, ZipimportCurrent

\* No build runs when a list or a pinned version changes, and none is left
\* after a failure.
LEMMA IdleIInv ==
    ASSUME IInv,
           \/ \E s \in Slips : Change(s[1], s[2])
           \/ \E l \in DOMAIN pins : Bump(l)
           \/ \E minor \in Minors, options \in SUBSET {"pgo", "freethreaded"} :
                Start(minor, options)
           \/ Fail
    PROVE  IInv'
  <1>1. UNCHANGED out
    BY DEF Change, Bump, Start, Fail
  <1>2. stage' \in {"idle", "openssl"} /\ (stage' = "openssl" => job'.minor \in Minors)
    BY DEF Change, Bump, Start, Fail
  <1>3. /\ DOMAIN src' = DOMAIN NoSrc /\ src'.done = 0 /\ src'.compiled = "none"
        /\ src'.libs = {}
    BY DEF Change, Bump, Start, Fail, IInv, JobOK, NoSrc
  <1>4. JobOK' /\ ArchivesOK' /\ LibsOK' /\ RegisteredOK' /\ CompiledOK' /\ FrozenOK'
    BY <1>2, <1>3 DEF JobOK, ArchivesOK, LibsOK, RegisteredOK, CompiledOK, FrozenOK
  <1>5. KeptOK'
    BY DEF Change, Bump, Start, Fail, IInv, KeptOK
  <1>6. QED
    BY <1>1, <1>4, <1>5 DEF IInv, ArchivesCurrent, ZipimportCurrent

\* An archive that is built has the pinned version, and cutting it short ends
\* the build.
LEMMA ArchiveIInv ==
    ASSUME IInv, NEW l, NEW at, NEW next, NEW members \in Readable(l),
           \/ at = "openssl" /\ next = "libffi" /\ l = openssl_entry
           \/ at = "libffi" /\ next = "extract" /\ l = "libffi",
           BuildArchive(l, at, next, members) \/ UseArchive(l, at, next)
    PROVE  IInv'
  <1> USE DEF IInv
  <1>1. UNCHANGED <<pins, out>> /\ stage = at
    BY DEF BuildArchive, UseArchive
  <1>2. /\ DOMAIN src' = DOMAIN NoSrc /\ src'.done = 0 /\ src'.compiled = "none"
        /\ src'.libs = {} /\ src.reused \subseteq src'.reused
    BY DEF BuildArchive, UseArchive, JobOK, NoSrc
  <1>3. (stage' = next /\ job' = job) \/ stage' = "idle"
    BY DEF BuildArchive, UseArchive
  <1>4. JobOK' /\ LibsOK' /\ RegisteredOK' /\ CompiledOK' /\ FrozenOK'
    BY <1>1, <1>2, <1>3 DEF JobOK, LibsOK, RegisteredOK, CompiledOK, FrozenOK
  <1>5. ArchivesOK'
    <2>1. CASE stage' = "idle"
      BY <2>1 DEF ArchivesOK
    <2>2. CASE stage' = next /\ job' = job
      <3>1. Pinned(l)'
        <4>1. CASE BuildArchive(l, at, next, members)
          BY <1>1, <2>2, <4>1 DEF BuildArchive, Pinned, ArchiveOf
        <4>2. CASE UseArchive(l, at, next)
          <5>1. l \in src'.reused
            BY <4>2 DEF UseArchive, JobOK, NoSrc
          <5>2. QED
            BY <5>1 DEF Pinned
        <4>3. QED
          BY <4>1, <4>2
      <3>2. openssl_entry' = openssl_entry
        BY <2>2 DEF openssl_entry
      <3>3. CASE at = "openssl"
        <4>1. Pinned(openssl_entry)'
          BY <3>1, <3>2, <3>3 DEF Pinned
        <4>2. QED
          BY <2>2, <3>3, <4>1 DEF ArchivesOK
      <3>4. CASE at = "libffi"
        <4>1. Pinned(openssl_entry)
          BY <1>1, <3>4 DEF ArchivesOK
        <4>2. l = "libffi" /\ openssl_entry # "libffi"
          BY <3>4 DEF openssl_entry
        <4>3. Pinned(openssl_entry)'
          BY <1>1, <1>2, <2>2, <3>2, <4>1, <4>2
          DEF Pinned, ArchiveOf, BuildArchive, UseArchive
        <4>4. QED
          BY <2>2, <3>1, <3>4, <4>2, <4>3 DEF ArchivesOK
      <3>5. QED
        BY <3>3, <3>4
    <2>3. QED
      BY <1>3, <2>1, <2>2
  <1>6. KeptOK'
    <2>1. members \subseteq Members(l)
      <3>1. CASE l = "libffi"
        BY <3>1 DEF Readable, Members, LibffiMembers
      <3>2. CASE l # "libffi"
        BY <3>2 DEF Readable, Members, OpenSSLMembers
      <3>3. QED
        BY <3>1, <3>2
    <2>2. CASE BuildArchive(l, at, next, members)
      BY <2>1, <2>2 DEF BuildArchive, KeptOK, Members
    <2>3. CASE UseArchive(l, at, next)
      BY <2>3 DEF UseArchive, KeptOK, Members
    <2>4. QED
      BY <2>2, <2>3
  <1>7. QED
    BY <1>1, <1>4, <1>5, <1>6 DEF ArchivesCurrent, ZipimportCurrent

LEMMA ExtractIInv ==
    ASSUME IInv, Extract
    PROVE  IInv'
  <1> USE DEF IInv
  <1>1. /\ stage = "extract" /\ stage' = "pystandalone"
        /\ UNCHANGED <<kept, pins, job, out>>
    BY DEF Extract
  <1>2. /\ DOMAIN src' = DOMAIN NoSrc /\ src'.done = 0 /\ src'.compiled = "none"
        /\ src'.reused = src.reused
        /\ src'.libs = ArchiveOf(openssl_entry, kept) \cup ArchiveOf("libffi", kept)
    BY <1>1 DEF Extract, JobOK, NoSrc
  <1>3. LibsOK'
    <2>1. openssl_entry' = openssl_entry
      BY <1>1 DEF openssl_entry
    <2>2. ASSUME NEW a \in src'.libs
          PROVE  /\ a.library \in {openssl_entry, "libffi"}
                 /\ a.members \subseteq Members(a.library)
                 /\ a.pin = pins[a.library] \/ a.library \in src.reused
      BY <1>1, <1>2, <2>2 DEF ArchivesOK, Pinned, ArchiveOf, KeptOK
    <2>3. QED
      BY <1>1, <1>2, <2>1, <2>2 DEF LibsOK, Members
  <1>4. JobOK' /\ ArchivesOK' /\ KeptOK' /\ RegisteredOK' /\ CompiledOK' /\ FrozenOK'
    BY <1>1, <1>2 DEF JobOK, ArchivesOK, KeptOK, RegisteredOK, CompiledOK, FrozenOK, Members
  <1>5. QED
    BY <1>1, <1>3, <1>4 DEF ArchivesCurrent, ZipimportCurrent

\* The edits of sources and projects touch nothing of this.
LEMMA EditsIInv ==
    ASSUME IInv, hack_pystandalone_files \/ hack_project_files \/ hack_source_files
    PROVE  IInv'
  <1>1. /\ stage \in {"pystandalone", "projects", "source"}
        /\ stage' \in {"projects", "source", "msbuild"}
        /\ UNCHANGED <<kept, pins, job, out>>
    BY DEF hack_pystandalone_files, hack_project_files, hack_source_files
  <1>2. /\ DOMAIN src' = DOMAIN NoSrc
        /\ src'.done = src.done /\ src'.compiled = src.compiled
        /\ src'.libs = src.libs /\ src'.reused = src.reused
        /\ "_pystandalone" \in src'.registered
    <2>1. CASE hack_pystandalone_files
      BY <2>1 DEF hack_pystandalone_files, IInv, JobOK, NoSrc
    <2>2. CASE hack_project_files
      BY <2>2 DEF hack_project_files, IInv, JobOK, RegisteredOK, NoSrc
    <2>3. CASE hack_source_files
      BY <2>3 DEF hack_source_files, IInv, JobOK, RegisteredOK, NoSrc
    <2>4. QED
      BY <2>1, <2>2, <2>3
  <1>3. /\ JobOK' /\ ArchivesOK' /\ LibsOK' /\ KeptOK' /\ RegisteredOK'
        /\ CompiledOK' /\ FrozenOK'
    BY <1>1, <1>2 DEF IInv, JobOK, ArchivesOK, LibsOK, KeptOK, RegisteredOK, CompiledOK,
       FrozenOK, Members, openssl_entry
  <1>4. QED
    BY <1>1, <1>3 DEF IInv, ArchivesCurrent, ZipimportCurrent

LEMMA MSBuildIInv ==
    ASSUME IInv, MSBuild \/ MSBuildTolerated
    PROVE  IInv'
  <1> USE DEF IInv
  <1>1. stage = "msbuild" /\ job.minor \in 10..15
    BY WindowsBuildAssumption DEF MSBuild, MSBuildTolerated, JobOK
  <1>2. UNCHANGED <<kept, pins, job, stage, out>>
    BY DEF MSBuild, MSBuildTolerated
  <1> DEFINE step == Plan[src.done + 1]
  <1>3. \/ src' = [src EXCEPT !.done = @ + 1, !.cut = TRUE]
        \/ /\ Linkable
           /\ src' = [src EXCEPT !.done = @ + 1, !.compiled = Compiled,
                                 !.frozen = Frozen(step)]
    BY DEF MSBuild, MSBuildTolerated
  <1>4. CASE src' = [src EXCEPT !.done = @ + 1, !.cut = TRUE]
    <2>1. /\ DOMAIN src' = DOMAIN NoSrc /\ src'.done \in Nat /\ src'.cut
          /\ src'.compiled = src.compiled /\ src'.libs = src.libs
          /\ src'.reused = src.reused /\ src'.registered = src.registered
      BY <1>4 DEF JobOK, FrozenOK, NoSrc
    <2>2. /\ JobOK' /\ ArchivesOK' /\ LibsOK' /\ KeptOK' /\ RegisteredOK'
          /\ CompiledOK' /\ FrozenOK'
      BY <1>1, <1>2, <2>1
      DEF JobOK, ArchivesOK, LibsOK, KeptOK, RegisteredOK, CompiledOK, FrozenOK,
          openssl_entry, Members, Needs, Extracted
    <2>3. QED
      BY <1>2, <2>2 DEF ArchivesCurrent, ZipimportCurrent
  <1>5. CASE /\ Linkable
             /\ src' = [src EXCEPT !.done = @ + 1, !.compiled = Compiled,
                                   !.frozen = Frozen(step)]
    <2>1. /\ DOMAIN src' = DOMAIN NoSrc /\ src'.done = src.done + 1
          /\ src'.cut = src.cut /\ src'.libs = src.libs /\ src'.reused = src.reused
          /\ src'.compiled = Compiled /\ src'.frozen = Frozen(step)
          /\ src'.registered = src.registered
      BY <1>5 DEF JobOK, NoSrc
    <2>2. \A e \in src.registered : Needs(e) \subseteq Extracted
      BY <1>5 DEF Linkable
    <2>3. FrozenOK'
      <3>1. CASE job.minor >= 11
        BY <1>1, <1>2, <2>1, <3>1 DEF FrozenOK, Compiled
      <3>2. CASE job.minor <= 10 /\ src.done = 0
        <4>1. src'.frozen = "new"
          BY <2>1, <3>2, PlanShape DEF Frozen
        <4>2. src'.done = 1 /\ job' = job /\ ~(job.minor >= 11)
          BY <1>1, <1>2, <2>1, <3>2
        <4>3. src'.done \in Nat /\ src'.done >= 1 /\ ~(src'.done >= 2)
          BY <4>2
        <4>4. QED
          BY <4>1, <4>2, <4>3 DEF FrozenOK
      <3>3. CASE job.minor <= 10 /\ src.done # 0
        BY <1>1, <1>2, <2>1, <3>3 DEF FrozenOK, Frozen, Compiled
      <3>4. QED
        BY <1>1, <3>1, <3>2, <3>3
    <2>4. JobOK' /\ ArchivesOK' /\ LibsOK' /\ KeptOK' /\ RegisteredOK' /\ CompiledOK'
      BY <1>1, <1>2, <2>1, <2>2
      DEF JobOK, ArchivesOK, LibsOK, KeptOK, RegisteredOK, CompiledOK, openssl_entry,
          Members, Needs, Extracted
    <2>5. QED
      BY <1>2, <2>3, <2>4 DEF ArchivesCurrent, ZipimportCurrent
  <1>6. QED
    BY <1>3, <1>4, <1>5

\* What is built beside the extensions has the name of none of them.
LEMMA DependsNames ==
    \A S : Depends(S) \subseteq {"liblzma", "sqlite3", "zlib-ng"}
  <1>1. \A e : StaticDepends(e) \subseteq {"liblzma", "sqlite3"}
    <2> TAKE e
    <2>1. CASE e = "_lzma"
      BY <2>1 DEF StaticDepends
    <2>2. CASE e = "_sqlite3"
      BY <2>2 DEF StaticDepends
    <2>3. CASE e # "_lzma" /\ e # "_sqlite3"
      BY <2>3 DEF StaticDepends
    <2>4. QED
      BY <2>1, <2>2, <2>3
  <1>2. QED
    <2> TAKE S
    <2>1. UNION {StaticDepends(e) : e \in S} \subseteq {"liblzma", "sqlite3"}
      BY <1>1
    <2>2. QED
      BY <2>1 DEF Depends

\* The three libraries that are copied are those of two archives, all of
\* OpenSSL was there for _pystandalone, and all of libffi for _ctypes.
LEMMA PackagedMembers ==
    ASSUME JobOK, LibsOK, RegisteredOK, CompiledOK, package
    PROVE  /\ {a.library : a \in src.libs} = {openssl_entry, "libffi"}
           /\ OpenSSLMembers \cup {"libffi.lib"} \subseteq Extracted
           /\ "_ctypes" \in DOMAIN Described \ Upstream => "ffi headers" \in Extracted
  <1>1. /\ stage = "msbuild" /\ src.compiled # "none"
        /\ ExtensionProjects \subseteq Dirs
        /\ {"libffi.lib", "libcrypto_static.lib", "libssl_static.lib"} \subseteq Extracted
    BY DEF package, collect_python_build_artifacts
  <1>2. \A e \in src.registered : Needs(e) \subseteq Extracted
    BY <1>1 DEF CompiledOK
  <1>3. OpenSSLMembers \subseteq Extracted
    <2>1. "_pystandalone" \in src.registered
      BY <1>1 DEF RegisteredOK
    <2>2. Needs("_pystandalone") = OpenSSLMembers
      BY DEF Needs
    <2>3. QED
      BY <1>2, <2>1, <2>2
  <1>4. PICK a \in src.libs : "libffi.lib" \in a.members
    BY <1>1 DEF Extracted
  <1>5. PICK b \in src.libs : "libssl_static.lib" \in b.members
    BY <1>1 DEF Extracted
  <1>6. a.library = "libffi"
    <2>1. openssl_entry # "libffi"
      BY DEF openssl_entry
    <2>2. a.library \in {openssl_entry, "libffi"} /\ "libffi.lib" \in Members(a.library)
      BY <1>4 DEF LibsOK
    <2>3. QED
      BY <2>1, <2>2 DEF Members, OpenSSLMembers
  <1>7. b.library = openssl_entry
    <2>1. b.library \in {openssl_entry, "libffi"} /\ "libssl_static.lib" \in Members(b.library)
      BY <1>5 DEF LibsOK
    <2>2. QED
      BY <2>1 DEF Members, LibffiMembers
  <1>8. {c.library : c \in src.libs} = {openssl_entry, "libffi"}
    BY <1>4, <1>5, <1>6, <1>7 DEF LibsOK
  <1>9. ASSUME "_ctypes" \in DOMAIN Described \ Upstream
        PROVE  "ffi headers" \in Extracted
    <2>1. "_ctypes" \in ExtensionProjects
      BY <1>9 DEF Described, CoreModules
    <2>2. "_ctypes" \in src.registered
      <3>1. "_ctypes" \in Dirs
        BY <1>1, <2>1
      <3>2. "_ctypes" \notin Depends(src.registered \cap DOMAIN src.files)
        BY DependsNames
      <3>3. QED
        BY <3>1, <3>2 DEF Dirs
    <2>3. Needs("_ctypes") = LibffiMembers
      BY DEF Needs
    <2>4. QED
      BY <1>2, <2>2, <2>3 DEF LibffiMembers
  <1>10. QED
    BY <1>1, <1>3, <1>8, <1>9

LEMMA PackageIInv ==
    ASSUME IInv, package
    PROVE  IInv'
  <1> USE DEF IInv
  <1>1. /\ stage = "msbuild" /\ src.done = Len(Plan) /\ src.compiled # "none"
        /\ stage' = "idle" /\ job' = NoJob /\ src' = NoSrc
    BY DEF package
  <1>2. /\ out'.minor = job.minor /\ out'.libs = src.libs /\ out'.pins = pins
        /\ out'.reused = src.reused /\ out'.frozen = src.compiled /\ out'.cut = src.cut
        /\ out'.files = Extracted /\ out'.described = Described /\ out'.core = Upstream
        /\ UNCHANGED kept
    BY DEF package
  <1>3. job.minor \in 10..15
    BY <1>1, WindowsBuildAssumption DEF JobOK
  <1>4. /\ JobOK' /\ ArchivesOK' /\ LibsOK' /\ KeptOK' /\ RegisteredOK'
        /\ CompiledOK' /\ FrozenOK'
    BY <1>1, <1>2 DEF JobOK, ArchivesOK, LibsOK, KeptOK, RegisteredOK, CompiledOK,
       FrozenOK, NoSrc, Members
  <1>5. ArchivesCurrent'
    <2>1. {a.library : a \in out'.libs} =
            {"libffi", IF out'.minor <= 10 THEN "openssl-1.1" ELSE "openssl-3.5"}
      <3>1. {a.library : a \in out'.libs} = {openssl_entry, "libffi"}
        BY <1>2, PackagedMembers
      <3>2. openssl_entry = IF out'.minor <= 10 THEN "openssl-1.1" ELSE "openssl-3.5"
        BY <1>2, <1>3 DEF openssl_entry
      <3>3. QED
        BY <3>1, <3>2
    <2>2. \A a \in out'.libs :
            a.library \notin out'.reused => a.pin = out'.pins[a.library]
      BY <1>2 DEF LibsOK
    <2>3. OpenSSLMembers \cup LibffiMembers \subseteq
            out'.files \cup (IF "_ctypes" \in DOMAIN out'.described \ out'.core THEN {}
                            ELSE {"ffi headers"})
      BY <1>2, PackagedMembers DEF LibffiMembers
    <2>4. QED
      BY <2>1, <2>2, <2>3 DEF ArchivesCurrent
  <1>6. ZipimportCurrent'
    <2>1. CASE job.minor >= 11
      BY <1>1, <1>2, <1>3, <2>1 DEF ZipimportCurrent, FrozenOK
    <2>2. CASE job.minor <= 10
      BY <1>1, <1>2, <1>3, <2>2, PlanShape DEF ZipimportCurrent, FrozenOK
    <2>3. QED
      BY <1>3, <2>1, <2>2
  <1>7. QED
    BY <1>4, <1>5, <1>6

LEMMA NextIInv == IInv /\ [Next]_vars => IInv'
  <1> SUFFICES ASSUME IInv, [Next]_vars PROVE IInv'
    OBVIOUS
  <1>1. CASE \/ \E members \in Readable(openssl_entry) : build_openssl(members)
             \/ \E members \in Readable("libffi") : build_libffi(members)
    BY <1>1, ArchiveIInv DEF build_openssl, build_libffi
  <1>2. CASE \/ stage = "openssl" /\ UseArchive(openssl_entry, "openssl", "libffi")
             \/ UseArchive("libffi", "libffi", "extract")
    <2>1. \A l : {} \in Readable(l)
      BY DEF Readable
    <2>2. CASE stage = "openssl" /\ UseArchive(openssl_entry, "openssl", "libffi")
      BY <2>1, <2>2, ArchiveIInv
    <2>3. CASE UseArchive("libffi", "libffi", "extract")
      BY <2>1, <2>3, ArchiveIInv
    <2>4. QED
      BY <1>2, <2>2, <2>3
  <1>3. CASE UNCHANGED vars
    <2>1. ArchivesCurrent' /\ ZipimportCurrent'
      BY <1>3 DEF vars, IInv, ArchivesCurrent, ZipimportCurrent
    <2>2. JobOK' /\ KeptOK' /\ RegisteredOK' /\ FrozenOK'
      BY <1>3 DEF vars, IInv, JobOK, KeptOK, RegisteredOK, FrozenOK, Members
    <2>3. ArchivesOK' /\ LibsOK'
      BY <1>3 DEF vars, IInv, ArchivesOK, LibsOK, Pinned, ArchiveOf, openssl_entry, Members
    <2>4. CompiledOK'
      BY <1>3 DEF vars, IInv, CompiledOK, Needs, Extracted
    <2>5. QED
      BY <2>1, <2>2, <2>3, <2>4 DEF IInv
  <1>4. QED
    BY <1>1, <1>2, <1>3, IdleIInv, ExtractIInv, EditsIInv, MSBuildIInv, PackageIInv
    DEF Next

-----------------------------------------------------------------------------
\* However often builds are cut short and versions change on one machine, a
\* distribution contains all of OpenSSL and of what it uses of libffi, and a
\* version that is not the pinned one only from an archive that was there.
THEOREM ArchivesCurrentHolds == Spec => []ArchivesCurrent
  <1>1. IInv => ArchivesCurrent
    BY DEF IInv
  <1>2. QED
    BY <1>1, InitIInv, NextIInv, PTL DEF Spec

\* Whatever MSBuild leaves out, the zipimport that is shipped is the patched
\* one, but for the build of 3.10 that was allowed to fail.
THEOREM ZipimportCurrentHolds == Spec => []ZipimportCurrent
  <1>1. IInv => ZipimportCurrent
    BY DEF IInv
  <1>2. QED
    BY <1>1, InitIInv, NextIInv, PTL DEF Spec

-----------------------------------------------------------------------------
(* What the interpreter contains, and what is said about it.               *)

\* The names that a removal of the disabled modules takes out of the table.
Removed ==
    {n \in Names : \E d \in Disabled \cap Upstream :
        n = d \/ n \in Within(d) \cap Ahead(d)}
Prepared == add_to_config_c(WithoutDisabled(config_c_file), {"_pystandalone"})

\* The lists only change by the names considered.
ListsOK ==
    /\ DOMAIN changed = Lists
    /\ \A l \in Lists : changed[l] \subseteq {s[2] : s \in Slips}

\* PC/config.c is, at each stage, upstream's with the edits made until then,
\* and MSBuild linked that file.
ConfigOK ==
    /\ stage = "pystandalone" => src.config_c = config_c_file
    /\ stage = "projects" => src.config_c = Prepared
    /\ stage \in {"source", "msbuild"} =>
        /\ src.config_c = add_to_config_c(Prepared, ToConvert)
        /\ src.linked = link_builtin_extensions(ToConvert)
    /\ stage \in {"projects", "source", "msbuild"} => "_pystandalone" \in src.registered
    /\ stage = "msbuild" =>
        src.edits \cap {"exports.h linkage", "pyport.h 3.9", "pyport.h 3.8",
                       "pyport.h 3.7"} # {}
    /\ src.compiled # "none" => Linkable

Built == JobOK /\ ListsOK /\ ConfigOK

\* Every name that may be entered is counted.
LEMMA ListNames ==
    ASSUME ListsOK
    PROVE  /\ Upstream \subseteq Names
           /\ Convert \subseteq Names
           /\ "_pystandalone" \in Names
  <1>1. ConfigModules \subseteq ToSet(ConfigOrder)
    BY DEF ConfigModules
  <1>2. changed["config.c"] \subseteq Names /\ changed["convert"] \subseteq Names
    BY DEF ListsOK, Lists, Names
  <1>3. QED
    BY <1>1, <1>2 DEF Upstream, Convert, Now, Names, CONVERT_TO_BUILTIN_EXTENSIONS

\* An edit that adds names counts each once more.
LEMMA Added ==
    ASSUME NEW c, NEW names, DOMAIN c = {"externs", "entries"}
    PROVE  /\ DOMAIN add_to_config_c(c, names) = {"externs", "entries"}
           /\ DOMAIN add_to_config_c(c, names).entries = DOMAIN c.entries
           /\ \A n \in DOMAIN c.entries :
                add_to_config_c(c, names).entries[n]
                    = c.entries[n] + (IF n \in names THEN 1 ELSE 0)
  BY DEF add_to_config_c

\* The number of entries of every module in the file that is compiled.
LEMMA Counted ==
    ASSUME ListsOK
    PROVE  LET c == add_to_config_c(Prepared, ToConvert) IN
           /\ DOMAIN c.entries = Names
           /\ \A n \in Names :
                c.entries[n] = (IF n \in Upstream \ Removed THEN 1 ELSE 0)
                               + (IF n = "_pystandalone" THEN 1 ELSE 0)
                               + (IF n \in ToConvert THEN 1 ELSE 0)
  <1> DEFINE b == WithoutDisabled(config_c_file)
  <1>1. /\ config_c_file.entries = [n \in Names |-> IF n \in Upstream THEN 1 ELSE 0]
        /\ DOMAIN config_c_file.entries = Names
    BY DEF config_c_file
  <1>2. Entries(config_c_file) = Upstream
    BY <1>1, ListNames DEF Entries
  <1>3. /\ DOMAIN b = {"externs", "entries"}
        /\ DOMAIN b.entries = Names
        /\ \A n \in Names : b.entries[n] = IF n \in Upstream \ Removed THEN 1 ELSE 0
    BY <1>1, <1>2, ListNames DEF WithoutDisabled, remove_from_config_c, Removed
  <1> HIDE DEF b
  <1>4. /\ DOMAIN Prepared = {"externs", "entries"}
        /\ DOMAIN Prepared.entries = Names
        /\ \A n \in Names : Prepared.entries[n]
                = (IF n \in Upstream \ Removed THEN 1 ELSE 0)
                  + (IF n = "_pystandalone" THEN 1 ELSE 0)
    BY <1>3, Added DEF Prepared, b
  <1>5. QED
    BY <1>4, Added

\* A build that is packaged entered exactly what is described: every extension
\* that is converted has its directory, and no other directory is there.
LEMMA PackagedEntries ==
    ASSUME Built, package
    PROVE  /\ ExtensionProjects = ToConvert
           /\ "_pystandalone" \in ToConvert
           /\ Upstream \cap ToConvert = {}
           /\ Entries(src.config_c) = (Upstream \ Removed) \cup ToConvert
           /\ \A n \in Entries(src.config_c) :
                src.config_c.entries[n] = IF n = "_pystandalone" THEN 2 ELSE 1
  <1>1. /\ stage = "msbuild" /\ src.compiled # "none"
        /\ CoreModules \cap ExtensionProjects = {}
        /\ ExtensionProjects \subseteq Dirs
        /\ Dirs \subseteq ExtensionProjects \cup Depends(ExtensionProjects)
    BY DEF package, collect_python_build_artifacts
  <1>2. /\ Linkable
        /\ src.config_c = add_to_config_c(Prepared, ToConvert)
        /\ src.linked = link_builtin_extensions(ToConvert)
        /\ "_pystandalone" \in src.registered
        /\ ListsOK
    BY <1>1 DEF Built, ConfigOK
  <1>3. /\ DOMAIN src.config_c.entries = Names
        /\ \A n \in Names :
            src.config_c.entries[n] = (IF n \in Upstream \ Removed THEN 1 ELSE 0)
                                      + (IF n = "_pystandalone" THEN 1 ELSE 0)
                                      + (IF n \in ToConvert THEN 1 ELSE 0)
    BY <1>2, Counted
  <1>4. \A S : Depends(S) \subseteq {"liblzma", "sqlite3", "zlib-ng"}
    BY DependsNames
  <1>5. "_pystandalone" \in ExtensionProjects
    <2>1. "_pystandalone" \in Dirs
      BY <1>2 DEF Dirs, IgnoreStatic
    <2>2. "_pystandalone" \notin Depends(ExtensionProjects)
      BY <1>4
    <2>3. QED
      BY <1>1, <2>1, <2>2
  <1>6. "_pystandalone" \notin Upstream /\ "_pystandalone" \in ToConvert
    BY <1>1, <1>5 DEF ExtensionProjects, CoreModules, ToConvert, IgnoreStatic, IgnoreMissing
  <1>7. ToConvert \subseteq src.registered /\ src.registered \subseteq HasProject
    <2>1. "_pystandalone" \in Entries(src.config_c)
      <3>1. "_pystandalone" \in Names
        BY <1>2, ListNames
      <3>2. src.config_c.entries["_pystandalone"]
                = (IF "_pystandalone" \in Upstream \ Removed THEN 1 ELSE 0) + 1 + 1
        BY <1>3, <1>6, <3>1
      <3>3. src.config_c.entries["_pystandalone"] = 2
        BY <1>6, <3>2
      <3>4. QED
        BY <1>3, <3>1, <3>3 DEF Entries
    <2>2. "python" \in DOMAIN src.linked
      BY <1>2 DEF link_builtin_extensions, Exes
    <2>3. "_pystandalone" \in src.linked["python"]
      BY <1>2, <1>6, <2>1, <2>2 DEF Linkable
    <2>4. src.linked["python"] = ToConvert
      BY <1>2, <2>2, <2>3 DEF link_builtin_extensions
    <2>5. QED
      BY <1>2, <2>2, <2>4 DEF Linkable
  <1>8. ToConvert \subseteq ExtensionProjects
    BY <1>7 DEF ToConvert, ExtensionProjects, Dirs
  <1>9. ExtensionProjects \subseteq ToConvert
    <2> SUFFICES ASSUME NEW e \in ExtensionProjects PROVE e \in ToConvert
      OBVIOUS
    <2>1. e \in Convert \ Disabled /\ e \in Dirs
      BY <1>1 DEF ExtensionProjects
    <2>2. CASE e \in src.registered \ IgnoreStatic
      BY <1>7, <2>1, <2>2 DEF ToConvert
    <2>3. CASE e \notin src.registered \ IgnoreStatic
      <3>1. e \in {"liblzma", "sqlite3", "zlib-ng"}
        BY <1>4, <2>1, <2>3 DEF Dirs
      <3>2. QED
        BY <2>1, <3>1 DEF ToConvert, IgnoreStatic, IgnoreMissing
    <2>4. QED
      BY <2>2, <2>3
  <1>10. Upstream \cap ToConvert = {}
    BY <1>1, <1>8 DEF CoreModules, ToConvert
  <1>11. ToConvert \subseteq Names /\ Upstream \subseteq Names
    BY <1>2, ListNames DEF ToConvert
  <1>12. ASSUME NEW n \in Names
         PROVE  src.config_c.entries[n] =
                    IF n = "_pystandalone" THEN 2
                    ELSE IF n \in (Upstream \ Removed) \cup ToConvert THEN 1 ELSE 0
    BY <1>3, <1>6, <1>10
  <1>13. Entries(src.config_c) = (Upstream \ Removed) \cup ToConvert
    BY <1>3, <1>6, <1>11, <1>12 DEF Entries
  <1>14. \A n \in Entries(src.config_c) :
            src.config_c.entries[n] = IF n = "_pystandalone" THEN 2 ELSE 1
    BY <1>11, <1>12, <1>13
  <1>15. QED
    BY <1>6, <1>8, <1>9, <1>10, <1>13, <1>14

\* The description agrees with what was entered.
LEMMA PackagedDescribed ==
    ASSUME Built, package
    PROVE  DescribedIsLinked'
  <1>1. /\ out'.described = Described
        /\ out'.entries = [n \in Entries(src.config_c) |-> src.config_c.entries[n]]
        /\ out'.core = Upstream /\ out'.disabled = Disabled
        /\ out'.edits = src.edits /\ out'.static_lib = "python.lib"
        /\ out'.options = job.options
        /\ out'.lib = IF "freethreaded" \in job.options THEN "pythont.lib"
                      ELSE "python.lib"
    BY DEF package
  <1>2. DOMAIN out'.described = ToConvert \cup CoreModules
    BY <1>1, PackagedEntries DEF Described
  <1>3. DOMAIN out'.entries = (Upstream \ Removed) \cup ToConvert
    BY <1>1, PackagedEntries
  <1>4. LostWithDisabled' =
            {n \in Upstream \ Disabled : \E d \in Disabled : n \in Within(d)}
    BY <1>1 DEF LostWithDisabled
  <1>5. Upstream \subseteq Names
    BY ListNames DEF Built
  <1>6. DOMAIN out'.described = DOMAIN out'.entries \cup LostWithDisabled'
    BY <1>2, <1>3, <1>4, <1>5 DEF CoreModules, Removed
  <1>7. DOMAIN out'.described \cap out'.disabled = {}
    BY <1>1, <1>2 DEF CoreModules, ToConvert
  <1>8. ASSUME NEW n \in DOMAIN out'.entries
        PROVE  /\ out'.described[n].in_core = (n \in out'.core)
               /\ out'.entries[n] = IF n = "_pystandalone" THEN 2 ELSE 1
    <2>1. out'.entries[n] = IF n = "_pystandalone" THEN 2 ELSE 1
      BY <1>1, PackagedEntries
    <2>2. CASE n \in ToConvert
      <3>1. n \notin Upstream
        BY <2>2, PackagedEntries
      <3>2. out'.described[n].in_core = FALSE
        BY <1>1, <2>2, PackagedEntries DEF Described
      <3>3. (n \in out'.core) = FALSE
        BY <1>1, <3>1
      <3>4. QED
        BY <2>1, <3>2, <3>3
    <2>3. CASE n \notin ToConvert
      <3>1. n \in Upstream /\ n \in CoreModules
        BY <1>3, <1>5, <2>3 DEF CoreModules, Removed
      <3>2. out'.described[n].in_core = TRUE
        BY <1>1, <2>3, <3>1, PackagedEntries DEF Described
      <3>3. (n \in out'.core) = TRUE
        BY <1>1, <3>1
      <3>4. QED
        BY <2>1, <3>2, <3>3
    <2>4. QED
      BY <2>2, <2>3
  <1>9. out'.edits \cap {"exports.h linkage", "pyport.h 3.9", "pyport.h 3.8",
                        "pyport.h 3.7"} # {}
    BY <1>1 DEF Built, ConfigOK, package
  <1>10. "freethreaded" \notin out'.options => out'.static_lib = out'.lib
    BY <1>1
  <1>11. QED
    BY <1>6, <1>7, <1>8, <1>9, <1>10 DEF DescribedIsLinked

\* The library that an extension with a licensed library must be credited to.
LEMMA CreditOf ==
    ASSUME validate_python_json, NEW e \in ExtensionProjects
    PROVE  /\ e = "_ctypes" => "libffi" \in Credits(e)
           /\ e = "_lzma" => "xz" \in Credits(e)
           /\ e = "_sqlite3" => "sqlite" \in Credits(e)
           /\ e = "_ssl" => openssl_entry \in Credits(e)
           /\ e \notin changed["credits"] =>
                /\ e = "_hashlib" => openssl_entry \in Credits(e)
                /\ e = "_bz2" => "bzip2" \in Credits(e)
                /\ e = "_zstd" => "zstd" \in Credits(e)
  <1>1. e \in {"_ctypes", "_ssl"} => StaticNoProject(e) # {}
    BY DEF StaticNoProject
  <1>2. e \in {"_lzma", "_sqlite3"} => StaticDepends(e) # {}
    BY DEF StaticDepends
  <1>3. e \in {"_ctypes", "_ssl", "_lzma", "_sqlite3"} => Credits(e) # {}
    BY <1>1, <1>2 DEF validate_python_json
  <1>4. ASSUME NEW l, \A p \in EXTENSION_TO_LIBRARY : p[1] = e => p[2] = l,
               Credits(e) # {}
        PROVE  Library(l) \in Credits(e)
    BY <1>4 DEF Credits
  <1>5. CASE e = "_ctypes"
    <2>1. \A p \in EXTENSION_TO_LIBRARY : p[1] = e => p[2] = "libffi"
      BY <1>5 DEF EXTENSION_TO_LIBRARY
    <2>2. QED
      BY <1>3, <1>4, <1>5, <2>1 DEF Library
  <1>6. CASE e = "_lzma"
    <2>1. \A p \in EXTENSION_TO_LIBRARY : p[1] = e => p[2] = "xz"
      BY <1>6 DEF EXTENSION_TO_LIBRARY
    <2>2. QED
      BY <1>3, <1>4, <1>6, <2>1 DEF Library
  <1>7. CASE e = "_sqlite3"
    <2>1. \A p \in EXTENSION_TO_LIBRARY : p[1] = e => p[2] = "sqlite"
      BY <1>7 DEF EXTENSION_TO_LIBRARY
    <2>2. QED
      BY <1>3, <1>4, <1>7, <2>1 DEF Library
  <1>8. CASE e = "_ssl"
    <2>1. \A p \in EXTENSION_TO_LIBRARY : p[1] = e => p[2] = "openssl"
      BY <1>8 DEF EXTENSION_TO_LIBRARY
    <2>2. QED
      BY <1>3, <1>4, <1>8, <2>1 DEF Library
  <1>9. ASSUME NEW l, <<e, l>> \in EXTENSION_TO_LIBRARY, e \notin changed["credits"]
        PROVE  Library(l) \in Credits(e)
    <2>1. <<e, l>>[1] = e /\ <<e, l>>[2] = l
      OBVIOUS
    <2>2. QED
      BY <1>9, <2>1 DEF Credits
  <1>10. CASE e \in {"_hashlib", "_bz2", "_zstd"}
    <2>1. /\ e = "_hashlib" => <<e, "openssl">> \in EXTENSION_TO_LIBRARY
          /\ e = "_bz2" => <<e, "bzip2">> \in EXTENSION_TO_LIBRARY
          /\ e = "_zstd" => <<e, "zstd">> \in EXTENSION_TO_LIBRARY
      BY DEF EXTENSION_TO_LIBRARY
    <2>2. /\ Library("openssl") = openssl_entry
          /\ Library("bzip2") = "bzip2" /\ Library("zstd") = "zstd"
      BY DEF Library
    <2>3. QED
      BY <1>9, <1>10, <2>1, <2>2
  <1>11. QED
    BY <1>5, <1>6, <1>7, <1>8, <1>10

\* The libraries that were linked are credited by the extensions that were.
LEMMA PackagedCredits ==
    ASSUME IInv, Built, package
    PROVE  CreditsComplete'
  <1>1. /\ out'.described = Described /\ out'.core = Upstream /\ out'.libs = src.libs
        /\ out'.rowless = changed["credits"]
        /\ DOMAIN out'.entries = (Upstream \ Removed) \cup ToConvert
        /\ validate_python_json
    BY PackagedEntries DEF package
  <1>2. {a.library : a \in out'.libs} = {openssl_entry, "libffi"}
    BY <1>1, PackagedMembers DEF IInv
  <1>3. \A e \in ToConvert :
            e \in DOMAIN out'.described /\ out'.described[e].credits = Credits(e)
    BY <1>1, PackagedEntries DEF Described
  <1> DEFINE credited == UNION {out'.described[m].credits : m \in DOMAIN out'.described}
             OpenSSL == {"openssl-1.1", "openssl-3.5"}
             HasRow(e) == e \in (DOMAIN out'.described \ out'.core) \ out'.rowless
  <1>4. \A e \in ToConvert : Credits(e) \subseteq credited
    BY <1>3
  <1>5. ASSUME HasRow("_ssl") \/ HasRow("_hashlib")
        PROVE  openssl_entry \in credited
    <2>1. PICK e \in {"_ssl", "_hashlib"} : HasRow(e)
      BY <1>5
    <2>2. e \in ExtensionProjects /\ e \notin changed["credits"]
      BY <1>1, <2>1 DEF Described, CoreModules
    <2>3. openssl_entry \in Credits(e)
      BY <1>1, <2>1, <2>2, CreditOf
    <2>4. QED
      BY <1>4, <2>2, <2>3, PackagedEntries
  <1> HIDE DEF HasRow
  <1>6. ASSUME NEW n \in DOMAIN out'.entries \ out'.core
        PROVE  \/ Bundled(n)' \subseteq credited
               \/ n \in {"_decimal", "zlib"}
               \/ n \in {"_bz2", "_zstd"} \cap out'.rowless
               \/ Bundled(n)' \subseteq OpenSSL /\ ~HasRow("_ssl") /\ ~HasRow("_hashlib")
    <2>1. n \in ToConvert /\ n \in ExtensionProjects
      BY <1>1, <1>6, PackagedEntries
    <2>2. CASE n \in {"_ssl", "_hashlib", "_pystandalone"}
      <3>1. Bundled(n)' = {a.library : a \in {b \in out'.libs : b.library # "libffi"}}
        BY <2>2 DEF Bundled
      <3>2. Bundled(n)' \subseteq {openssl_entry}
        BY <1>2, <3>1
      <3>3. openssl_entry \in OpenSSL
        BY DEF openssl_entry
      <3>4. QED
        BY <1>5, <3>2, <3>3
    <2>3. CASE n \in {"_ctypes", "_lzma", "_sqlite3", "_bz2", "_zstd"}
      <3>1. /\ n = "_ctypes" => Bundled(n)' = {"libffi"}
            /\ n = "_lzma" => Bundled(n)' = {"xz"}
            /\ n = "_sqlite3" => Bundled(n)' = {"sqlite"}
            /\ n = "_bz2" => Bundled(n)' = {"bzip2"}
            /\ n = "_zstd" => Bundled(n)' = {"zstd"}
        BY DEF Bundled
      <3>2. \/ Bundled(n)' \subseteq Credits(n)
            \/ n \in {"_bz2", "_zstd"} \cap changed["credits"]
        BY <1>1, <2>1, <2>3, <3>1, CreditOf
      <3>3. QED
        BY <1>1, <1>4, <2>1, <3>2
    <2>4. CASE n \in {"_decimal", "zlib"}
      BY <2>4
    <2>5. CASE n \notin {"_ssl", "_hashlib", "_pystandalone", "_ctypes", "_lzma",
                         "_sqlite3", "_bz2", "_zstd", "_decimal", "zlib"}
      <3>1. Bundled(n)' = {}
        BY <2>5 DEF Bundled
      <3>2. QED
        BY <3>1
    <2>6. QED
      BY <2>2, <2>3, <2>4, <2>5
  <1>7. QED
    BY <1>6 DEF CreditsComplete, HasRow

-----------------------------------------------------------------------------
(* Every step preserves it.                                                *)

LEMMA InitBuilt == Init => Built
  BY DEF Init, Built, JobOK, ListsOK, ConfigOK, NoSrc

\* The lists stand still while something is built, and what is read of them.
LEMMA SameLists ==
    ASSUME UNCHANGED <<changed, job>>
    PROVE  /\ ListsOK' = ListsOK
           /\ Prepared' = Prepared /\ config_c_file' = config_c_file
           /\ ToConvert' = ToConvert
           /\ Upstream' = Upstream /\ HasProject' = HasProject
           /\ openssl_entry' = openssl_entry
           /\ link_builtin_extensions(ToConvert)' = link_builtin_extensions(ToConvert)
  BY DEF ListsOK, Prepared, WithoutDisabled, config_c_file, ToConvert, Upstream,
     HasProject, openssl_entry, link_builtin_extensions, Disabled, Convert, Now

\* A list changes by a name that is considered; before the sources are there,
\* and after a build, there is nothing to compare.
LEMMA IdleBuilt ==
    ASSUME IInv, Built,
           \/ \E s \in Slips : Change(s[1], s[2])
           \/ \E l \in DOMAIN pins : Bump(l)
           \/ \E minor \in Minors, options \in SUBSET {"pgo", "freethreaded"} :
                Start(minor, options)
           \/ Fail
           \/ package
    PROVE  ListsOK' /\ ConfigOK'
  <1>1. stage' \in {"idle", "openssl"}
    BY DEF Change, Bump, Start, Fail, package
  <1>2. src'.compiled = "none"
    BY DEF Change, Bump, Start, Fail, package, Built, JobOK, NoSrc
  <1>3. ConfigOK'
    BY <1>1, <1>2 DEF ConfigOK
  <1>4. ListsOK'
    <2>1. ASSUME NEW s \in Slips, Change(s[1], s[2])
          PROVE  ListsOK'
      <3>1. changed' = [changed EXCEPT ![s[1]] = @ \cup {s[2]}]
        BY <2>1 DEF Change
      <3>2. DOMAIN changed' = Lists
        BY <3>1 DEF Built, ListsOK
      <3>3. ASSUME NEW l \in Lists PROVE changed'[l] \subseteq {t[2] : t \in Slips}
        <4>1. changed'[l] = IF l = s[1] THEN changed[l] \cup {s[2]} ELSE changed[l]
          BY <3>1, <3>3 DEF Built, ListsOK
        <4>2. QED
          BY <4>1, <3>3 DEF Built, ListsOK
      <3>4. QED
        BY <3>2, <3>3 DEF ListsOK
    <2>2. CASE UNCHANGED changed
      BY <2>2 DEF Built, ListsOK
    <2>3. QED
      BY <2>1, <2>2 DEF Bump, Start, Fail, package
  <1>5. QED
    BY <1>3, <1>4

\* Archives are built or looked up before the sources are there.
LEMMA ArchiveBuilt ==
    ASSUME Built, NEW l, NEW at \in {"openssl", "libffi"},
           NEW next \in {"libffi", "extract"}, NEW members,
           BuildArchive(l, at, next, members) \/ UseArchive(l, at, next)
    PROVE  ListsOK' /\ ConfigOK'
  <1>1. stage' \in {"idle", "libffi", "extract"} /\ UNCHANGED changed
    BY DEF BuildArchive, UseArchive
  <1>2. src'.compiled = "none"
    BY DEF BuildArchive, UseArchive, Built, JobOK, NoSrc
  <1>3. QED
    BY <1>1, <1>2 DEF ConfigOK, Built, ListsOK

LEMMA EditsBuilt ==
    ASSUME Built,
           Extract \/ hack_pystandalone_files \/ hack_project_files \/ hack_source_files
    PROVE  ListsOK' /\ ConfigOK'
  <1>1. UNCHANGED <<changed, job>>
    BY DEF Extract, hack_pystandalone_files, hack_project_files, hack_source_files
  <1>2. /\ ListsOK' = ListsOK /\ Prepared' = Prepared
        /\ config_c_file' = config_c_file /\ ToConvert' = ToConvert
        /\ link_builtin_extensions(ToConvert)' = link_builtin_extensions(ToConvert)
    BY <1>1, SameLists
  <1>3. ListsOK'
    BY <1>2 DEF Built
  <1>4. src.compiled = "none"
    BY DEF Extract, hack_pystandalone_files, hack_project_files, hack_source_files,
       Built, JobOK
  <1>5. CASE Extract
    <2>1. /\ stage' = "pystandalone" /\ src'.config_c = config_c_file
          /\ src'.compiled = "none"
      BY <1>4, <1>5 DEF Extract, Built, JobOK, NoSrc
    <2>2. QED
      BY <1>2, <1>3, <2>1 DEF ConfigOK
  <1>6. CASE hack_pystandalone_files
    <2>1. stage = "pystandalone" /\ src.config_c = config_c_file
      BY <1>6 DEF hack_pystandalone_files, Built, ConfigOK
    <2>2. /\ stage' = "projects" /\ src'.compiled = "none"
          /\ src'.config_c = add_to_config_c(WithoutDisabled(src.config_c),
                                             {"_pystandalone"})
          /\ "_pystandalone" \in src'.registered
      BY <1>4, <1>6 DEF hack_pystandalone_files, Built, JobOK, NoSrc
    <2>3. src'.config_c = Prepared
      BY <2>1, <2>2 DEF Prepared
    <2>4. QED
      BY <1>2, <1>3, <2>2, <2>3 DEF ConfigOK
  <1>7. CASE hack_project_files
    <2>1. stage = "projects" /\ src.config_c = Prepared
      BY <1>7 DEF hack_project_files, Built, ConfigOK
    <2>2. /\ stage' = "source" /\ src'.compiled = "none"
          /\ src'.config_c = add_to_config_c(src.config_c, ToConvert)
          /\ src'.linked = link_builtin_extensions(ToConvert)
          /\ src'.registered = src.registered
      BY <1>4, <1>7 DEF hack_project_files, Built, JobOK, NoSrc
    <2>3. "_pystandalone" \in src'.registered
      BY <2>1, <2>2 DEF Built, ConfigOK
    <2>4. QED
      BY <1>2, <1>3, <2>1, <2>2, <2>3 DEF ConfigOK
  <1>8. CASE hack_source_files
    <2>1. stage = "source" /\ stage' = "msbuild"
      BY <1>8 DEF hack_source_files
    <2>2. PICK edit \in ExportEdits :
            src' = [src EXCEPT !.edits = edit \cup (OptionalEdits \cap Present)]
      BY <1>8 DEF hack_source_files
    <2>3. /\ src'.config_c = src.config_c /\ src'.linked = src.linked
          /\ src'.registered = src.registered /\ src'.compiled = "none"
          /\ src'.edits = edit \cup (OptionalEdits \cap Present)
      BY <1>4, <2>2 DEF Built, JobOK, NoSrc
    <2>4. edit \cap {"exports.h linkage", "pyport.h 3.9", "pyport.h 3.8",
                     "pyport.h 3.7"} # {}
      BY DEF ExportEdits
    <2>5. QED
      BY <1>2, <1>3, <2>1, <2>3, <2>4 DEF ConfigOK, Built
  <1>9. QED
    BY <1>5, <1>6, <1>7, <1>8

\* MSBuild changes nothing of what it reads, and compiles nothing that does
\* not fit together.
LEMMA MSBuildBuilt ==
    ASSUME Built, MSBuild \/ MSBuildTolerated
    PROVE  ListsOK' /\ ConfigOK'
  <1>1. UNCHANGED <<changed, job, stage>> /\ stage = "msbuild"
    BY DEF MSBuild, MSBuildTolerated
  <1>2. /\ src'.config_c = src.config_c /\ src'.linked = src.linked
        /\ src'.registered = src.registered /\ src'.edits = src.edits
        /\ src'.files = src.files /\ src'.libs = src.libs
    BY DEF MSBuild, MSBuildTolerated, Built, JobOK, NoSrc
  <1>3. src'.compiled = src.compiled \/ Linkable
    BY DEF MSBuild, MSBuildTolerated, Built, JobOK, NoSrc
  <1>4. /\ ListsOK' = ListsOK /\ Prepared' = Prepared /\ ToConvert' = ToConvert
        /\ Upstream' = Upstream /\ HasProject' = HasProject
        /\ openssl_entry' = openssl_entry
        /\ link_builtin_extensions(ToConvert)' = link_builtin_extensions(ToConvert)
    BY <1>1, SameLists
  <1>5. Linkable => Linkable'
    BY <1>2, <1>4 DEF Linkable, IsStatic, Needs, Extracted
  <1>6. src'.compiled # "none" => Linkable'
    BY <1>3, <1>5 DEF Built, ConfigOK
  <1>7. QED
    BY <1>1, <1>2, <1>4, <1>6 DEF Built, ConfigOK

\* Only package makes a distribution.
LEMMA NextBuilt ==
    ASSUME IInv, Built, DescribedIsLinked, CreditsComplete, [Next]_vars
    PROVE  ListsOK' /\ ConfigOK' /\ DescribedIsLinked' /\ CreditsComplete'
  <1>1. CASE package
    BY <1>1, IdleBuilt, PackagedDescribed, PackagedCredits
  <1>2. CASE ~package
    <2>1. UNCHANGED out
      BY <1>2 DEF Next, Change, Bump, Start, build_openssl, build_libffi, BuildArchive,
         UseArchive, Extract, hack_pystandalone_files, hack_project_files,
         hack_source_files, MSBuild, MSBuildTolerated, Fail, vars
    <2>2. DescribedIsLinked' /\ CreditsComplete'
      <3>1. DescribedIsLinked' = DescribedIsLinked
        BY <2>1 DEF DescribedIsLinked, LostWithDisabled
      <3>2. \A n : Bundled(n)' = Bundled(n)
        BY <2>1 DEF Bundled
      <3>3. CreditsComplete' = CreditsComplete
        BY <2>1, <3>2 DEF CreditsComplete
      <3>4. QED
        BY <3>1, <3>3
    <2>3. CASE \/ \E members \in Readable(openssl_entry) : build_openssl(members)
               \/ \E members \in Readable("libffi") : build_libffi(members)
      <3>1. CASE \E members \in Readable(openssl_entry) : build_openssl(members)
        <4>1. PICK members \in Readable(openssl_entry) : build_openssl(members)
          BY <3>1
        <4>2. BuildArchive(openssl_entry, "openssl", "libffi", members)
          BY <4>1 DEF build_openssl
        <4>3. QED
          BY <2>2, <4>2, ArchiveBuilt
      <3>2. CASE \E members \in Readable("libffi") : build_libffi(members)
        <4>1. PICK members \in Readable("libffi") : build_libffi(members)
          BY <3>2
        <4>2. BuildArchive("libffi", "libffi", "extract", members)
          BY <4>1 DEF build_libffi
        <4>3. QED
          BY <2>2, <4>2, ArchiveBuilt
      <3>3. QED
        BY <2>3, <3>1, <3>2
    <2>4. CASE \/ stage = "openssl" /\ UseArchive(openssl_entry, "openssl", "libffi")
               \/ UseArchive("libffi", "libffi", "extract")
      BY <2>2, <2>4, ArchiveBuilt
    <2>5. CASE UNCHANGED vars
      <3>1. UNCHANGED <<changed, job, stage, src>>
        BY <2>5 DEF vars
      <3>2. /\ ListsOK' = ListsOK /\ Prepared' = Prepared /\ ToConvert' = ToConvert
            /\ config_c_file' = config_c_file
            /\ Upstream' = Upstream /\ HasProject' = HasProject
            /\ openssl_entry' = openssl_entry
            /\ link_builtin_extensions(ToConvert)' = link_builtin_extensions(ToConvert)
        BY <3>1, SameLists
      <3>3. Linkable' = Linkable
        BY <3>1, <3>2 DEF Linkable, IsStatic, Needs, Extracted
      <3>4. ListsOK'
        BY <3>2 DEF Built
      <3>5. ConfigOK'
        BY <3>1, <3>2, <3>3 DEF Built, ConfigOK
      <3>6. QED
        BY <2>2, <3>4, <3>5
    <2>6. QED
      BY <1>2, <2>2, <2>3, <2>4, <2>5, IdleBuilt, EditsBuilt, MSBuildBuilt DEF Next
  <1>3. QED
    BY <1>1, <1>2

-----------------------------------------------------------------------------
\* All that is said of a distribution, with what it rests on.
Shipped == IInv /\ Built /\ DescribedIsLinked /\ CreditsComplete

LEMMA ShippedHolds == Spec => []Shipped
  <1>1. Init => Shipped
    BY InitIInv, InitBuilt DEF Shipped, Init, DescribedIsLinked, CreditsComplete
  <1>2. Shipped /\ [Next]_vars => Shipped'
    BY NextIInv, NextBuilt DEF Shipped, Built, IInv
  <1>3. QED
    BY <1>1, <1>2, PTL DEF Spec

\* Whatever lists change, in this repository or upstream, PYTHON.json names
\* exactly the modules that the interpreter was compiled with, each once, none
\* of them disabled, but for the gaps that the property states.
THEOREM DescribedIsLinkedHolds == Spec => []DescribedIsLinked
  <1>1. Shipped => DescribedIsLinked
    BY DEF Shipped
  <1>2. QED
    BY <1>1, ShippedHolds, PTL

\* A distribution is made of the libraries and sources that belong to it, and
\* credits every library in it as what it is, but for the gaps that the
\* properties state.
THEOREM ShippedIsCurrentHolds == Spec => []ShippedIsCurrent
  <1>1. Shipped => ShippedIsCurrent
    BY DEF Shipped, IInv, ShippedIsCurrent
  <1>2. QED
    BY <1>1, ShippedHolds, PTL

-----------------------------------------------------------------------------
(* What the edits of StaticProjects do to a file, for a reader that walks  *)
(* it line by line and keeps in mind what it is inside of.                 *)

\* The lines of all files, and what else a reader can be inside of.
Text ==
    {"<Project>", "error", "DynamicLibrary", "StaticLibrary", ".pyd", ".lib", "includes",
     "defines", "core;defines", "libraries", "directories", "LinkLibraryDependencies",
     "libffi-7.lib", "libffi-8.lib", "libffi.lib", "dll libffi-7", "dll libffi-8",
     "copy rules", "legacy copy rules", "libcrypto.lib;libssl.lib",
     "libcrypto_static.lib;libssl_static.lib", "</ItemDefinitionGroup>", "</ItemGroup>",
     "</ClCompile Include>", "</ClCompile>", "</Link>", "</Lib>", "</ProjectReference>"}
    \cup Tags

\* Induction, by the least counterexample.
LEMMA Least ==
    ASSUME NEW S \in SUBSET Nat, S # {}
    PROVE  \E k \in S : \A j \in S : k <= j
  <1>1. IsWellFoundedOn(OpToRel(<, Nat), Nat)
    BY NatLessThanWellFounded
  <1>2. PICK k \in S : \A j \in S : ~(<<j, k>> \in OpToRel(<, Nat))
    BY <1>1, WFMin
  <1>3. \A j \in S : ~(j < k)
    BY <1>2 DEF OpToRel
  <1>4. QED
    BY <1>3

LEMMA UpTo ==
    ASSUME NEW n \in Nat, NEW S \in SUBSET Nat, 0 \in S,
           \A k \in S : k < n => k + 1 \in S
    PROVE  0..n \subseteq S
  <1> SUFFICES ASSUME NEW m \in 0..n, m \notin S PROVE FALSE
    OBVIOUS
  <1> DEFINE T == {j \in 0..n : j \notin S}
  <1>1. PICK k \in T : \A j \in T : k <= j
    <2>1. T \subseteq Nat /\ T # {}
      OBVIOUS
    <2> HIDE DEF T
    <2>2. QED
      BY <2>1, Least
  <1>2. k - 1 \in S
    BY <1>1
  <1>3. QED
    BY <1>1, <1>2

LEMMA Through ==
    ASSUME NEW n \in Nat, NEW S \in SUBSET (1..n), 1 \in S,
           \A k \in S : k + 1 \in 1..n => k + 1 \in S
    PROVE  1..n \subseteq S
  <1> DEFINE T == {k \in Nat : k = 0 \/ k \in S}
  <1>1. \A k \in T : k < n => k + 1 \in T
    OBVIOUS
  <1>2. 0 \in T /\ T \subseteq Nat /\ \A k \in T : k = 0 \/ k \in S
    OBVIOUS
  <1> HIDE DEF T
  <1>3. 0..n \subseteq T
    BY <1>1, <1>2, UpTo
  <1>4. QED
    BY <1>2, <1>3

\* FlattenSeq joins the sequences one after the other.
Joins(s, flat) ==
    /\ flat \in [1..Len(s) -> Seq(Text)]
    /\ \A i \in 1..Len(s) : flat[i] = IF i = 1 THEN s[i] ELSE flat[i - 1] \o s[i]

LEMMA Flattened ==
    ASSUME NEW s \in Seq(Seq(Text)), s # <<>>
    PROVE  \E flat : Joins(s, flat) /\ FlattenSeq(s) = flat[Len(s)]
  <1> DEFINE n == Len(s)
             Step(g, i) == IF i = 1 THEN s[i] ELSE g[i - 1] \o s[i]
             good(k, g) == \A i \in 1..n : i <= k => g[i] = Step(g, i)
             S == {k \in Nat : \E g \in [1..n -> Seq(Text)] : good(k, g)}
  <1>0. n \in Nat \ {0} /\ \A i \in 1..n : s[i] \in Seq(Text)
    BY EmptySeq, ElementOfSeq
  <1> HIDE DEF n
  <1>1. 0 \in S
    <2>1. [i \in 1..n |-> s[i]] \in [1..n -> Seq(Text)]
      BY <1>0
    <2>2. good(0, [i \in 1..n |-> s[i]])
      OBVIOUS
    <2>3. QED
      BY <2>1, <2>2
  <1>2. ASSUME NEW k \in S, k < n PROVE k + 1 \in S
    <2>1. PICK g \in [1..n -> Seq(Text)] : good(k, g)
      OBVIOUS
    <2> DEFINE h == [i \in 1..n |-> IF i = k + 1 THEN Step(g, i) ELSE g[i]]
    <2>2. Step(g, k + 1) \in Seq(Text)
      <3>1. CASE k = 0
        BY <1>0, <3>1
      <3>2. CASE k # 0
        <4>1. g[k] \in Seq(Text) /\ s[k + 1] \in Seq(Text)
          BY <1>0, <1>2, <3>2
        <4>2. g[k] \o s[k + 1] \in Seq(Text)
          BY <4>1, ConcatProperties
        <4>3. k + 1 # 1 /\ (k + 1) - 1 = k
          BY <1>0, <1>2, <3>2
        <4>4. QED
          BY <4>2, <4>3
      <3>3. QED
        BY <3>1, <3>2
    <2>3. h \in [1..n -> Seq(Text)]
      BY <2>2
    <2>4. ASSUME NEW i \in 1..n, i <= k + 1 PROVE h[i] = Step(h, i)
      <3>1. i # 1 => i - 1 \in 1..n /\ i - 1 # k + 1
        BY <1>0, <2>4
      <3>2. Step(h, i) = Step(g, i)
        BY <3>1
      <3>3. CASE i = k + 1
        BY <3>2, <3>3
      <3>4. CASE i # k + 1
        <4>1. i <= k
          BY <1>0, <2>4, <3>4
        <4>2. h[i] = g[i] /\ g[i] = Step(g, i)
          BY <2>1, <3>4, <4>1
        <4>3. QED
          BY <3>2, <4>2
      <3>5. QED
        BY <3>3, <3>4
    <2>5. good(k + 1, h)
      BY <2>4
    <2> HIDE DEF h, good
    <2>6. QED
      BY <2>3, <2>5
  <1>3. n \in S
    <2> HIDE DEF S
    <2>1. S \subseteq Nat
      BY DEF S
    <2>2. 0..n \subseteq S
      BY <1>0, <1>1, <1>2, <2>1, UpTo
    <2>3. QED
      BY <1>0, <2>2
  <1>4. PICK g \in [1..n -> Seq(Text)] : good(n, g)
    BY <1>3
  <1>5. g = [i \in 1..n |-> Step(g, i)]
    <2> HIDE DEF Step
    <2>1. \A i \in 1..n : i <= n
      BY <1>0
    <2>2. \A i \in 1..n : g[i] = Step(g, i)
      BY <1>4, <2>1
    <2>3. QED
      BY <2>2
  <1> DEFINE flat == CHOOSE f : f = [i \in 1..n |-> Step(f, i)]
  <1>6. flat = [i \in 1..n |-> Step(flat, i)]
    BY <1>5
  <1>7. FlattenSeq(s) = flat[n]
    BY <1>0, <1>6 DEF FlattenSeq, n
  <1> HIDE DEF flat
  <1>8. \A i \in 1..n : flat[i] = Step(flat, i)
    BY <1>6
  <1>9. \A i \in 1..n : flat[i] \in Seq(Text)
    <2> DEFINE T == {k \in Nat : k \in 1..n => flat[k] \in Seq(Text)}
    <2>1. 0 \in T
      OBVIOUS
    <2>2. ASSUME NEW k \in T, k < n PROVE k + 1 \in T
      <3>1. k + 1 \in 1..n /\ flat[k + 1] = Step(flat, k + 1) /\ s[k + 1] \in Seq(Text)
        BY <1>0, <1>8, <2>2
      <3>2. k # 0 => flat[k] \in Seq(Text) /\ k + 1 # 1 /\ (k + 1) - 1 = k
        BY <1>0, <2>2
      <3>3. CASE k = 0
        BY <3>1, <3>3
      <3>4. CASE k # 0
        <4>1. flat[k] \o s[k + 1] \in Seq(Text)
          BY <3>1, <3>2, <3>4, ConcatProperties
        <4>2. flat[k + 1] = flat[k] \o s[k + 1]
          BY <3>1, <3>2, <3>4
        <4>3. k + 1 \in Nat /\ flat[k + 1] \in Seq(Text)
          BY <4>1, <4>2
        <4>4. QED
          BY <4>3
      <3>5. QED
        BY <3>3, <3>4
    <2>3. 0..n \subseteq T
      <3> HIDE DEF T
      <3>1. T \subseteq Nat
        BY DEF T
      <3>2. QED
        BY <1>0, <2>1, <2>2, <3>1, UpTo
    <2>4. QED
      BY <2>3
  <1>10. flat \in [1..n -> Seq(Text)]
    BY <1>6, <1>9
  <1>11. QED
    BY <1>7, <1>8, <1>10 DEF Joins, n

-----------------------------------------------------------------------------
(* Reading.                                                                *)

\* A reader that is inside of a comes through f without an error and is
\* inside of b; seen has each line with what the reader was inside of then.
Reading(state, a, f, b, seen) ==
    /\ state \in [0..Len(f) -> Text]
    /\ state[0] = a /\ state[Len(f)] = b
    /\ \A i \in 1..Len(f) :
        state[i] = Inside(state[i - 1], f[i]) /\ state[i] # "error"
    /\ seen = {<<state[i], f[i]>> : i \in 1..Len(f)}
Reads(a, f, b, seen) == f \in Seq(Text) /\ \E state : Reading(state, a, f, b, seen)

\* Where a line leads: a tag into itself, its end out of it, the rest nowhere.
LEMMA InsideTag ==
    ASSUME NEW a, NEW x \in Tags
    PROVE  Inside(a, x) = IF a = Parent(x) THEN x ELSE "error"
  <1>1. Closed(x) = ""
    BY DEF Closed, Tags
  <1>2. QED
    BY <1>1 DEF Inside

LEMMA InsideEnd ==
    ASSUME NEW a, NEW x, Closed(x) # ""
    PROVE  Inside(a, x) = IF a = Closed(x) THEN Parent(a) ELSE "error"
  <1>1. x \notin Tags
    BY DEF Closed, Tags
  <1>2. QED
    BY <1>1 DEF Inside

LEMMA InsidePlain ==
    ASSUME NEW a, NEW x, x \notin Tags, Closed(x) = ""
    PROVE  Inside(a, x) = a
  BY DEF Inside

LEMMA ParentIs ==
    ASSUME NEW x
    PROVE  Parent(x) \in {"<Project>", "<ItemGroup>", "<ItemDefinitionGroup>"}
  <1>1. CASE x \in {"<ItemDefinitionGroup>", "<ItemGroup>"}
    <2>1. x # "<ClCompile Include>"
      BY <1>1
    <2>2. Parent(x) = "<Project>"
      BY <1>1, <2>1 DEF Parent
    <2>3. QED
      BY <2>2
  <1>2. CASE x = "<ClCompile Include>"
    <2>1. x \notin {"<ItemDefinitionGroup>", "<ItemGroup>"}
      BY <1>2
    <2>2. Parent(x) = "<ItemGroup>"
      BY <1>2, <2>1 DEF Parent
    <2>3. QED
      BY <2>2
  <1>3. CASE x \notin {"<ItemDefinitionGroup>", "<ItemGroup>", "<ClCompile Include>"}
    BY <1>3 DEF Parent
  <1>4. QED
    BY <1>1, <1>2, <1>3

LEMMA InsideType ==
    ASSUME NEW a \in Text, NEW x \in Text PROVE Inside(a, x) \in Text
  <1>1. Parent(a) \in Text
    BY ParentIs DEF Text, Tags
  <1>2. CASE x \in Tags
    <2>1. "error" \in Text
      BY DEF Text
    <2>2. QED
      BY <1>2, <2>1, InsideTag
  <1>3. CASE x \notin Tags /\ Closed(x) = ""
    BY <1>3, InsidePlain
  <1>4. CASE Closed(x) # ""
    <2>1. "error" \in Text
      BY DEF Text
    <2>2. QED
      BY <1>1, <1>4, <2>1, InsideEnd
  <1>5. QED
    BY <1>2, <1>3, <1>4

Plain(x) == x \in Text \ Tags /\ Closed(x) = ""

LEMMA ReadsNothing ==
    ASSUME NEW a \in Text PROVE Reads(a, <<>>, a, {})
  <1>1. <<>> \in Seq(Text) /\ Len(<<>>) = 0
    BY EmptySeq
  <1> DEFINE state == [i \in 0..0 |-> a]
  <1>2. state \in [0..0 -> Text] /\ state[0] = a
    OBVIOUS
  <1> HIDE DEF state
  <1>3. Reading(state, a, <<>>, a, {})
    BY <1>1, <1>2 DEF Reading
  <1>4. QED
    BY <1>1, <1>3 DEF Reads

LEMMA ReadsLine ==
    ASSUME NEW a \in Text, NEW x \in Text, NEW b, b = Inside(a, x), b # "error"
    PROVE  Reads(a, <<x>>, b, {<<b, x>>})
  <1>1. <<x>> \in Seq(Text) /\ Len(<<x>>) = 1 /\ <<x>>[1] = x /\ b \in Text
    BY InsideType
  <1> DEFINE state == [i \in 0..1 |-> IF i = 0 THEN a ELSE b]
  <1>2. state \in [0..1 -> Text] /\ state[0] = a /\ state[1] = b
    BY <1>1
  <1> HIDE DEF state
  <1>3. Reading(state, a, <<x>>, b, {<<b, x>>})
    BY <1>1, <1>2 DEF Reading
  <1>4. QED
    BY <1>1, <1>3 DEF Reads

LEMMA ReadsOn ==
    ASSUME NEW a, NEW f, NEW b, NEW seen1, Reads(a, f, b, seen1),
           NEW g, NEW c, NEW seen2, Reads(b, g, c, seen2)
    PROVE  Reads(a, f \o g, c, seen1 \cup seen2)
  <1>1. f \in Seq(Text) /\ g \in Seq(Text)
    BY DEF Reads
  <1>2. PICK s : Reading(s, a, f, b, seen1)
    BY DEF Reads
  <1>3. PICK t : Reading(t, b, g, c, seen2)
    BY DEF Reads
  <1>4. /\ f \o g \in Seq(Text) /\ Len(f \o g) = Len(f) + Len(g)
        /\ Len(f) \in Nat /\ Len(g) \in Nat
        /\ \A i \in 1..Len(f) : (f \o g)[i] = f[i]
        /\ \A i \in 1..Len(g) : (f \o g)[Len(f) + i] = g[i]
    <2>1. Len(f) \in Nat /\ Len(g) \in Nat
      BY <1>1, LenProperties
    <2>2. QED
      BY <1>1, <2>1, ConcatProperties
  <1> DEFINE m == Len(f)
             n == Len(g)
             h == f \o g
             state == [i \in 0..m + n |-> IF i <= m THEN s[i] ELSE t[i - m]]
  <1>5. /\ s \in [0..m -> Text] /\ s[0] = a /\ s[m] = b
        /\ t \in [0..n -> Text] /\ t[0] = b /\ t[n] = c
    BY <1>2, <1>3 DEF Reading
  <1>5a. \A i \in 1..m : s[i] = Inside(s[i - 1], f[i]) /\ s[i] # "error"
    BY <1>2 DEF Reading
  <1>5b. \A i \in 1..n : t[i] = Inside(t[i - 1], g[i]) /\ t[i] # "error"
    BY <1>3 DEF Reading
  <1>6. state \in [0..m + n -> Text]
    BY <1>4, <1>5
  <1>7. (\A i \in 0..m : state[i] = s[i]) /\ \A i \in 0..n : state[m + i] = t[i]
    BY <1>4, <1>5
  <1>8. \A i \in 1..m + n : i \in 1..m \/ (i - m \in 1..n /\ m + (i - m) = i)
    BY <1>4
  <1> HIDE DEF state, m, n, h
  <1>9. ASSUME NEW i \in 1..m + n
        PROVE  state[i] = Inside(state[i - 1], h[i]) /\ state[i] # "error"
    <2>1. CASE i \in 1..m
      <3>1. i - 1 \in 0..m /\ i \in 0..m
        BY <1>4, <2>1 DEF m
      <3>2. h[i] = f[i] /\ state[i] = s[i] /\ state[i - 1] = s[i - 1]
        BY <1>4, <1>7, <2>1, <3>1 DEF m, h
      <3>3. QED
        BY <1>5a, <2>1, <3>2
    <2>2. CASE i - m \in 1..n
      <3> DEFINE j == i - m
      <3>1. j \in 1..n /\ j - 1 \in 0..n /\ j \in 0..n /\ m + j = i /\ m + (j - 1) = i - 1
        BY <1>4, <2>2 DEF m, n
      <3> HIDE DEF j
      <3>2. h[m + j] = g[j] /\ state[m + j] = t[j] /\ state[m + (j - 1)] = t[j - 1]
        BY <1>4, <1>7, <3>1 DEF m, n, h
      <3>3. QED
        BY <1>5b, <3>1, <3>2
    <2>3. QED
      BY <1>8, <2>1, <2>2
  <1>10. seen1 \cup seen2 = {<<state[i], h[i]>> : i \in 1..m + n}
    <2>1. seen1 = {<<s[i], f[i]>> : i \in 1..m} /\ seen2 = {<<t[i], g[i]>> : i \in 1..n}
      BY <1>2, <1>3 DEF Reading, m, n
    <2>2. \A i \in 1..m : state[i] = s[i] /\ h[i] = f[i] /\ i \in 1..m + n
      BY <1>4, <1>7 DEF m, n, h
    <2>3. \A i \in 1..n : state[m + i] = t[i] /\ h[m + i] = g[i] /\ m + i \in 1..m + n
      BY <1>4, <1>7 DEF m, n, h
    <2>4. seen1 \cup seen2 \subseteq {<<state[i], h[i]>> : i \in 1..m + n}
      BY <2>1, <2>2, <2>3
    <2>5. ASSUME NEW i \in 1..m + n PROVE <<state[i], h[i]>> \in seen1 \cup seen2
      <3>1. CASE i \in 1..m
        BY <2>1, <2>2, <3>1
      <3>2. CASE i - m \in 1..n /\ m + (i - m) = i
        BY <2>1, <2>3, <3>2
      <3>3. QED
        BY <1>8, <3>1, <3>2
    <2>6. QED
      BY <2>4, <2>5
  <1>11. state[0] = a /\ state[m + n] = c /\ Len(h) = m + n
    BY <1>4, <1>5, <1>7 DEF m, n, h
  <1>12. Reading(state, a, h, c, seen1 \cup seen2)
    BY <1>6, <1>9, <1>10, <1>11 DEF Reading
  <1>13. QED
    BY <1>4, <1>12 DEF Reads, h

\* f is read in two parts, and the last line of the first one was seen.
LEMMA ReadsSplit ==
    ASSUME NEW a, NEW f, NEW c, NEW seen, Reads(a, f, c, seen), NEW m \in 0..Len(f)
    PROVE  \E b, seen1, seen2 :
            /\ b \in Text
            /\ Reads(a, SubSeq(f, 1, m), b, seen1)
            /\ Reads(b, SubSeq(f, m + 1, Len(f)), c, seen2)
            /\ seen = seen1 \cup seen2
            /\ m = 0 => b = a
            /\ m # 0 => <<b, f[m]>> \in seen /\ b # "error" /\ (f[m] \in Tags => b = f[m])
  <1>1. f \in Seq(Text) /\ Len(f) \in Nat /\ m \in Nat
    BY LenProperties DEF Reads
  <1>2. PICK s : Reading(s, a, f, c, seen)
    BY DEF Reads
  <1>3. /\ s \in [0..Len(f) -> Text] /\ s[0] = a /\ s[Len(f)] = c
        /\ \A i \in 1..Len(f) : s[i] = Inside(s[i - 1], f[i]) /\ s[i] # "error"
        /\ seen = {<<s[i], f[i]>> : i \in 1..Len(f)}
    BY <1>2 DEF Reading
  <1> DEFINE g == SubSeq(f, 1, m)
             h == SubSeq(f, m + 1, Len(f))
             n == Len(f) - m
             t == [i \in 0..m |-> s[i]]
             u == [i \in 0..n |-> s[m + i]]
             seen1 == {<<s[i], f[i]>> : i \in 1..m}
             seen2 == {<<s[m + i], f[m + i]>> : i \in 1..n}
  <1>4. \A i \in 1..Len(f) : f[i] \in Text
    BY <1>1, ElementOfSeq
  <1>5. /\ g \in Seq(Text) /\ Len(g) = m
        /\ \A i \in 1..m : g[i] = f[i]
    BY <1>1, <1>4, SubSeqProperties
  <1>6. /\ h \in Seq(Text) /\ Len(h) = n
        /\ \A i \in 1..n : h[i] = f[m + i]
    <2>1. /\ h \in Seq(Text)
          /\ Len(h) = IF m + 1 <= Len(f) THEN Len(f) - (m + 1) + 1 ELSE 0
          /\ \A i \in 1..Len(f) - (m + 1) + 1 : h[i] = f[m + 1 + i - 1]
      BY <1>1, <1>4, SubSeqProperties
    <2>2. \A i \in 1..n : m + 1 + i - 1 = m + i
      BY <1>1
    <2>3. QED
      BY <1>1, <2>1, <2>2
  <1>7. n \in Nat /\ m + n = Len(f) /\ \A i \in 1..n : m + i \in 1..Len(f)
    BY <1>1
  <1>8. Reading(t, a, g, s[m], seen1)
    <2>1. t \in [0..m -> Text] /\ t[0] = a /\ t[m] = s[m]
      BY <1>1, <1>3
    <2>2. \A i \in 1..m : t[i] = s[i] /\ t[i - 1] = s[i - 1] /\ i \in 1..Len(f)
      BY <1>1
    <2> HIDE DEF t
    <2>3. \A i \in 1..m : t[i] = Inside(t[i - 1], g[i]) /\ t[i] # "error"
      BY <1>3, <1>5, <2>2
    <2>4. seen1 = {<<t[i], g[i]>> : i \in 1..m}
      BY <1>5, <2>2
    <2> HIDE DEF g, seen1
    <2>5. QED
      BY <1>5, <2>1, <2>3, <2>4 DEF Reading
  <1>9. Reading(u, s[m], h, c, seen2)
    <2>1. u \in [0..n -> Text] /\ u[0] = s[m] /\ u[n] = c
      BY <1>1, <1>3, <1>7
    <2>2. \A i \in 1..n :
            /\ u[i] = s[m + i] /\ u[i - 1] = s[m + i - 1] /\ m + i \in 1..Len(f)
      BY <1>1, <1>7
    <2> HIDE DEF u
    <2>3. \A i \in 1..n : u[i] = Inside(u[i - 1], h[i]) /\ u[i] # "error"
      BY <1>3, <1>6, <2>2
    <2>4. seen2 = {<<u[i], h[i]>> : i \in 1..n}
      BY <1>6, <2>2
    <2> HIDE DEF h, seen2, n
    <2>5. QED
      BY <1>6, <2>1, <2>3, <2>4 DEF Reading
  <1>10. seen = seen1 \cup seen2
    <2>1. \A i \in 1..Len(f) : i \in 1..m \/ (i - m \in 1..n /\ m + (i - m) = i)
      BY <1>1
    <2>2. seen1 \cup seen2 \subseteq seen
      BY <1>1, <1>3, <1>7
    <2>3. ASSUME NEW i \in 1..Len(f) PROVE <<s[i], f[i]>> \in seen1 \cup seen2
      <3>1. CASE i \in 1..m
        BY <3>1
      <3>2. CASE i - m \in 1..n /\ m + (i - m) = i
        <4>1. <<s[m + (i - m)], f[m + (i - m)]>> \in seen2
          BY <3>2
        <4>2. QED
          BY <3>2, <4>1
      <3>3. QED
        BY <2>1, <3>1, <3>2
    <2> HIDE DEF seen1, seen2
    <2>4. QED
      BY <1>3, <2>2, <2>3
  <1>11. Reads(a, g, s[m], seen1) /\ Reads(s[m], h, c, seen2)
    BY <1>5, <1>6, <1>8, <1>9 DEF Reads
  <1>12. s[m] \in Text /\ (m = 0 => s[m] = a)
    BY <1>1, <1>3
  <1>13. m # 0 => <<s[m], f[m]>> \in seen /\ s[m] # "error"
                    /\ s[m] = Inside(s[m - 1], f[m])
    BY <1>1, <1>3
  <1>14. m # 0 /\ f[m] \in Tags => s[m] = f[m]
    <2>1. ASSUME m # 0, f[m] \in Tags PROVE s[m] = f[m]
      <3>1. Inside(s[m - 1], f[m]) = IF s[m - 1] = Parent(f[m]) THEN f[m] ELSE "error"
        BY <2>1, InsideTag
      <3>2. QED
        BY <1>13, <2>1, <3>1
    <2>2. QED
      BY <2>1
  <1> HIDE DEF g, h, seen1, seen2
  <1>15. QED
    BY <1>10, <1>11, <1>12, <1>13, <1>14 DEF g, h

\* A file that is read to its end is well nested.
LEMMA ReadsNested ==
    ASSUME NEW f, NEW seen, Reads("<Project>", f, "<Project>", seen)
    PROVE  WellNested(f)
  <1>1. f \in Seq(Text) /\ Len(f) \in Nat
    BY LenProperties DEF Reads
  <1>2. PICK s : Reading(s, "<Project>", f, "<Project>", seen)
    BY DEF Reads
  <1> DEFINE n == Len(f)
             Step(g, i) == IF i = 0 THEN "<Project>" ELSE Inside(g[i - 1], f[i])
             inside == CHOOSE g : g = [i \in 0..n |-> Step(g, i)]
  <1>3. /\ s \in [0..n -> Text] /\ s[0] = "<Project>" /\ s[n] = "<Project>"
        /\ \A i \in 1..n : s[i] = Inside(s[i - 1], f[i])
    BY <1>2 DEF Reading
  <1>4. s = [i \in 0..n |-> Step(s, i)]
    <2>1. ASSUME NEW i \in 0..n PROVE s[i] = Step(s, i)
      <3>1. i # 0 => i \in 1..n
        BY <1>1
      <3>2. QED
        BY <1>3, <3>1
    <2> HIDE DEF Step
    <2>2. QED
      BY <1>3, <2>1
  <1>5. inside = [i \in 0..n |-> Step(inside, i)]
    BY <1>4
  <1>6. WellNested(f) <=> inside[n] = "<Project>"
    BY <1>5 DEF WellNested
  <1> HIDE DEF inside
  <1>7. \A i \in 0..n : inside[i] = Step(inside, i)
    BY <1>5
  <1>8. n \in {k \in Nat : k \in 0..n => inside[k] = s[k]}
    <2> DEFINE S == {k \in Nat : k \in 0..n => inside[k] = s[k]}
    <2>1. 0 \in S
      BY <1>3, <1>7
    <2>2. ASSUME NEW k \in S, k < n PROVE k + 1 \in S
      <3>1. k + 1 \in 1..n /\ k \in 0..n /\ k + 1 # 0 /\ (k + 1) - 1 = k /\ k + 1 \in 0..n
        BY <1>1, <2>2
      <3>2. inside[k + 1] = Inside(inside[k], f[k + 1])
        BY <1>7, <3>1
      <3>3. s[k + 1] = Inside(s[k], f[k + 1])
        BY <1>3, <3>1
      <3>4. QED
        BY <3>1, <3>2, <3>3
    <2>3. S \subseteq Nat
      OBVIOUS
    <2> HIDE DEF S
    <2>4. 0..n \subseteq S
      BY <1>1, <2>1, <2>2, <2>3, UpTo
    <2>5. QED
      BY <1>1, <2>4 DEF S
  <1>9. QED
    BY <1>1, <1>3, <1>6, <1>8

\* Parts that are read one after the other are read when they are joined.
LEMMA ReadsParts ==
    ASSUME NEW s \in Seq(Seq(Text)), NEW state, NEW seen, NEW all,
           state[0] \in Text,
           \A i \in 1..Len(s) : Reads(state[i - 1], s[i], state[i], seen[i]),
           \A z : z \in all <=> \E i \in 1..Len(s) : z \in seen[i]
    PROVE  Reads(state[0], FlattenSeq(s), state[Len(s)], all)
  <1>0. all = UNION {seen[i] : i \in 1..Len(s)}
    OBVIOUS
  <1>1. CASE s = <<>>
    <2>1. FlattenSeq(s) = <<>> /\ Len(s) = 0
      BY <1>1 DEF FlattenSeq
    <2>2. UNION {seen[i] : i \in 1..Len(s)} = {}
      BY <2>1
    <2>3. QED
      BY <1>0, <2>1, <2>2, ReadsNothing
  <1>2. CASE s # <<>>
    <2>1. PICK flat : Joins(s, flat) /\ FlattenSeq(s) = flat[Len(s)]
      BY <1>2, Flattened
    <2> DEFINE n == Len(s)
               upto(k) == UNION {seen[i] : i \in 1..k}
               S == {k \in Nat : k \in 1..n => Reads(state[0], flat[k], state[k], upto(k))}
    <2>2. n \in Nat \ {0}
      BY <1>2, EmptySeq
    <2>3. \A i \in 1..n : flat[i] = IF i = 1 THEN s[i] ELSE flat[i - 1] \o s[i]
      BY <2>1 DEF Joins
    <2>4. 0 \in S
      OBVIOUS
    <2>5. ASSUME NEW k \in S, k < n PROVE k + 1 \in S
      <3>1. k + 1 \in 1..n /\ (k + 1) - 1 = k
        BY <2>2, <2>5
      <3>2. Reads(state[k], s[k + 1], state[k + 1], seen[k + 1])
        BY <3>1
      <3>3. CASE k = 0
        <4>1. flat[1] = s[1] /\ upto(1) = seen[1]
          BY <2>3, <3>1, <3>3
        <4> HIDE DEF upto
        <4>2. Reads(state[0], flat[1], state[1], upto(1))
          BY <3>2, <3>3, <4>1
        <4>3. QED
          BY <3>3, <4>2
      <3>4. CASE k # 0
        <4>1. k \in 1..n /\ k + 1 # 1
          BY <3>1, <3>4
        <4>2. flat[k + 1] = flat[k] \o s[k + 1]
          BY <2>3, <3>1, <4>1
        <4>3. upto(k + 1) = upto(k) \cup seen[k + 1]
          <5>1. \A i \in 1..k + 1 : i \in 1..k \/ i = k + 1
            BY <4>1
          <5>2. \A i \in 1..k : i \in 1..k + 1
            BY <4>1
          <5>3. k + 1 \in 1..k + 1
            BY <4>1
          <5>4. QED
            BY <5>1, <5>2, <5>3
        <4> HIDE DEF upto
        <4>4. Reads(state[0], flat[k], state[k], upto(k))
          BY <4>1
        <4>5. Reads(state[0], flat[k] \o s[k + 1], state[k + 1], upto(k) \cup seen[k + 1])
          BY <3>2, <4>4, ReadsOn
        <4>6. Reads(state[0], flat[k + 1], state[k + 1], upto(k + 1))
          <5> HIDE DEF S, n
          <5>1. QED
            BY <4>2, <4>3, <4>5
        <4>7. k + 1 \in Nat
          BY <3>1
        <4>8. QED
          BY <4>6, <4>7
      <3>5. QED
        BY <3>3, <3>4
    <2>6. S \subseteq Nat
      OBVIOUS
    <2> HIDE DEF S
    <2>7. 0..n \subseteq S
      BY <2>2, <2>4, <2>5, <2>6, UpTo
    <2>8. n \in S /\ n \in 1..n
      BY <2>2, <2>7
    <2> HIDE DEF n, upto
    <2>9. Reads(state[0], flat[n], state[n], upto(n))
      BY <2>8 DEF S
    <2>10. QED
      BY <1>0, <2>1, <2>9 DEF n, upto
  <1>3. QED
    BY <1>1, <1>2

\* A sequence that is taken apart and joined again.
LEMMA FlattenLines ==
    ASSUME NEW r \in Seq(Text)
    PROVE  FlattenSeq([i \in 1..Len(r) |-> <<r[i]>>]) = r
  <1> DEFINE s == [i \in 1..Len(r) |-> <<r[i]>>]
             n == Len(r)
  <1>0. n \in Nat /\ \A i \in 1..n : r[i] \in Text
    BY LenProperties, ElementOfSeq
  <1>1. \A i \in 1..n : <<r[i]>> \in Seq(Text)
    BY <1>0
  <1>2. s \in Seq(Seq(Text)) /\ Len(s) = n /\ \A i \in 1..n : s[i] = <<r[i]>>
    BY <1>0, <1>1
  <1> HIDE DEF s
  <1>3. CASE n = 0
    <2>1. r = <<>> /\ s = <<>>
      BY <1>2, <1>3, EmptySeq
    <2>2. FlattenSeq(s) = <<>>
      BY <2>1 DEF FlattenSeq
    <2>3. QED
      BY <2>1, <2>2 DEF s
  <1>4. CASE n # 0
    <2>1. s # <<>>
      BY <1>0, <1>2, <1>4, EmptySeq
    <2>2. PICK flat : Joins(s, flat) /\ FlattenSeq(s) = flat[n]
      BY <1>2, <2>1, Flattened
    <2>3. /\ flat \in [1..n -> Seq(Text)]
          /\ \A i \in 1..n : flat[i] = IF i = 1 THEN s[i] ELSE flat[i - 1] \o s[i]
      BY <1>2, <2>2 DEF Joins
    <2> DEFINE good(k) == Len(flat[k]) = k /\ \A i \in 1..k : flat[k][i] = r[i]
               S == {k \in Nat : k \in 1..n => good(k)}
    <2> HIDE DEF n
    <2>4. 0 \in S
      BY DEF n
    <2>5. ASSUME NEW k \in S, k < n PROVE k + 1 \in S
      <3>1. n \in Nat /\ k \in Nat /\ k + 1 \in 1..n /\ (k + 1) - 1 = k
        BY <1>0, <2>5
      <3> DEFINE x == r[k + 1]
      <3>2. x \in Text /\ s[k + 1] = <<x>>
        BY <1>0, <1>2, <3>1
      <3> HIDE DEF x
      <3>3. <<x>> \in Seq(Text) /\ Len(<<x>>) = 1 /\ <<x>>[1] = x
        BY <3>2
      <3>4. good(k + 1)
        <4>1. CASE k = 0
          <5> HIDE DEF S, good
          <5>1. k + 1 = 1
            BY <4>1
          <5>2. flat[1] = s[1] /\ s[1] = <<x>>
            BY <2>3, <3>1, <3>2, <5>1
          <5>3. x = r[1]
            BY <5>1 DEF x
          <5>4. good(1)
            BY <3>3, <5>2, <5>3 DEF good
          <5>5. QED
            BY <5>1, <5>4
        <4>2. CASE k # 0
          <5>1. k \in 1..n /\ k + 1 # 1
            <6> HIDE DEF S, good
            <6>1. QED
              BY <3>1, <4>2
          <5> DEFINE g == flat[k]
          <5>2. g \in Seq(Text) /\ Len(g) = k /\ \A i \in 1..k : g[i] = r[i]
            BY <2>3, <2>5, <5>1
          <5>3. flat[k + 1] = g \o <<x>>
            BY <2>3, <3>1, <3>2, <5>1
          <5> HIDE DEF g, S
          <5>4. Len(g \o <<x>>) = k + 1
            BY <3>1, <3>2, <3>3, <5>2, ConcatProperties
          <5>5. \A i \in 1..k : (g \o <<x>>)[i] = g[i]
            BY <3>1, <3>2, <3>3, <5>2, ConcatProperties
          <5>6. (g \o <<x>>)[k + 1] = x
            BY <3>1, <3>2, <3>3, <5>2, ConcatProperties
          <5>7. \A i \in 1..k + 1 : i \in 1..k \/ i = k + 1
            BY <3>1
          <5>8. \A i \in 1..k + 1 : (g \o <<x>>)[i] = r[i]
            BY <5>2, <5>5, <5>6, <5>7 DEF x
          <5>9. QED
            BY <5>3, <5>4, <5>8
        <4>3. QED
          BY <4>1, <4>2
      <3> HIDE DEF good
      <3>5. QED
        BY <3>1, <3>4
    <2>6. S \subseteq Nat
      OBVIOUS
    <2> HIDE DEF S
    <2>7. 0..n \subseteq S
      BY <1>0, <2>4, <2>5, <2>6, UpTo
    <2>8. n \in S /\ n \in 1..n
      BY <1>0, <1>4, <2>7 DEF n
    <2> HIDE DEF good
    <2>9. good(n)
      BY <2>8 DEF S
    <2>10. Len(flat[n]) = n /\ (\A i \in 1..n : flat[n][i] = r[i]) /\ flat[n] \in Seq(Text)
      BY <2>3, <2>8, <2>9 DEF good
    <2>11. flat[n] = r
      BY <2>10, SeqEqual DEF n
    <2>12. QED
      BY <2>2, <2>11 DEF s
  <1>5. QED
    BY <1>3, <1>4

LEMMA FlattenConcat ==
    ASSUME NEW s \in Seq(Seq(Text)), NEW t \in Seq(Seq(Text))
    PROVE  /\ FlattenSeq(s \o t) = FlattenSeq(s) \o FlattenSeq(t)
           /\ FlattenSeq(s) \in Seq(Text)
  <1>0. FlattenSeq(<<>>) = <<>> /\ <<>> \in Seq(Text)
    BY EmptySeq DEF FlattenSeq
  <1>1. ASSUME NEW u \in Seq(Seq(Text)) PROVE FlattenSeq(u) \in Seq(Text)
    <2>1. CASE u = <<>>
      BY <1>0, <2>1
    <2>2. CASE u # <<>>
      <3>1. PICK flat : Joins(u, flat) /\ FlattenSeq(u) = flat[Len(u)]
        BY <2>2, Flattened
      <3>2. Len(u) \in 1..Len(u)
        BY <2>2, EmptySeq
      <3>3. QED
        BY <3>1, <3>2 DEF Joins
    <2>3. QED
      BY <2>1, <2>2
  <1>2. CASE s = <<>>
    BY <1>0, <1>1, <1>2, ConcatEmptySeq
  <1>3. CASE t = <<>>
    BY <1>0, <1>1, <1>3, ConcatEmptySeq
  <1>4. CASE s # <<>> /\ t # <<>>
    <2> DEFINE m == Len(s)
               n == Len(t)
               u == s \o t
    <2>1. m \in Nat \ {0} /\ n \in Nat \ {0}
      BY <1>4, EmptySeq
    <2>2. u \in Seq(Seq(Text)) /\ Len(u) = m + n
          /\ (\A i \in 1..m : u[i] = s[i]) /\ (\A i \in 1..n : u[m + i] = t[i])
      BY <2>1, ConcatProperties
    <2> HIDE DEF m, n, u
    <2>3. u # <<>>
      BY <2>1, <2>2, EmptySeq
    <2>4. PICK F : Joins(u, F) /\ FlattenSeq(u) = F[m + n]
      BY <2>2, <2>3, Flattened
    <2>5. PICK A : Joins(s, A) /\ FlattenSeq(s) = A[m]
      BY <1>4, Flattened DEF m
    <2>6. PICK B : Joins(t, B) /\ FlattenSeq(t) = B[n]
      BY <1>4, Flattened DEF n
    <2>7. /\ F \in [1..m + n -> Seq(Text)]
          /\ \A i \in 1..m + n : F[i] = IF i = 1 THEN u[i] ELSE F[i - 1] \o u[i]
      BY <2>2, <2>4 DEF Joins
    <2>8. /\ A \in [1..m -> Seq(Text)]
          /\ \A i \in 1..m : A[i] = IF i = 1 THEN s[i] ELSE A[i - 1] \o s[i]
      BY <2>5 DEF Joins, m
    <2>9. /\ B \in [1..n -> Seq(Text)]
          /\ \A i \in 1..n : B[i] = IF i = 1 THEN t[i] ELSE B[i - 1] \o t[i]
      BY <2>6 DEF Joins, n
    <2>10. F[m] = A[m]
      <3>1. F[1] = A[1]
        <4>1. 1 \in 1..m /\ 1 \in 1..m + n
          BY <2>1
        <4>2. F[1] = u[1] /\ A[1] = s[1] /\ u[1] = s[1]
          BY <2>2, <2>7, <2>8, <4>1
        <4>3. QED
          BY <4>2
      <3>2. ASSUME NEW k \in 1..m, k + 1 \in 1..m, F[k] = A[k] PROVE F[k + 1] = A[k + 1]
        <4>1. k + 1 \in 1..m + n /\ (k + 1) - 1 = k /\ k + 1 # 1
          BY <2>1, <3>2
        <4>2. u[k + 1] = s[k + 1]
          BY <2>2, <3>2
        <4>3. F[k + 1] = F[k] \o u[k + 1] /\ A[k + 1] = A[k] \o s[k + 1]
          BY <2>7, <2>8, <3>2, <4>1
        <4>4. QED
          BY <3>2, <4>2, <4>3
      <3> DEFINE S == {k \in 1..m : F[k] = A[k]}
      <3>3. 1 \in S /\ m \in 1..m
        BY <2>1, <3>1
      <3>4. \A k \in S : k + 1 \in 1..m => k + 1 \in S
        BY <3>2
      <3>5. S \subseteq 1..m
        OBVIOUS
      <3> HIDE DEF S
      <3>6. 1..m \subseteq S
        BY <2>1, <3>3, <3>4, <3>5, Through
      <3>7. m \in S
        BY <3>3, <3>6
      <3>8. QED
        BY <3>7 DEF S
    <2>11. F[m + n] = A[m] \o B[n]
      <3>1. F[m + 1] = A[m] \o B[1]
        <4>1. m + 1 \in 1..m + n /\ (m + 1) - 1 = m /\ m + 1 # 1 /\ 1 \in 1..n
          BY <2>1
        <4>2. F[m + 1] = F[m] \o u[m + 1] /\ u[m + 1] = t[1]
          BY <2>2, <2>7, <4>1
        <4>3. B[1] = t[1]
          BY <2>9, <4>1
        <4>4. QED
          BY <2>10, <4>2, <4>3
      <3>2. ASSUME NEW k \in 1..n, k + 1 \in 1..n, F[m + k] = A[m] \o B[k]
            PROVE  F[m + (k + 1)] = A[m] \o B[k + 1]
        <4>1. /\ m + (k + 1) \in 1..m + n /\ (k + 1) - 1 = k /\ k + 1 # 1
              /\ (m + (k + 1)) - 1 = m + k /\ m + (k + 1) # 1 /\ m \in 1..m
          BY <2>1, <3>2
        <4>2. u[m + (k + 1)] = t[k + 1]
          BY <2>2, <3>2
        <4>3. F[m + (k + 1)] = F[m + k] \o t[k + 1]
          BY <2>7, <4>1, <4>2
        <4>4. B[k + 1] = B[k] \o t[k + 1]
          BY <2>9, <3>2, <4>1
        <4>5. A[m] \in Seq(Text) /\ B[k] \in Seq(Text)
          BY <2>8, <2>9, <4>1
        <4>6. t[k + 1] \in Seq(Text)
          BY <3>2, ElementOfSeq DEF n
        <4> HIDE DEF Text
        <4>7. (A[m] \o B[k]) \o t[k + 1] = A[m] \o (B[k] \o t[k + 1])
          <5>1. \A x, y, z \in Seq(Text) : (x \o y) \o z = x \o (y \o z)
            BY ConcatAssociative
          <5>2. QED
            BY <4>5, <4>6, <5>1
        <4>8. QED
          BY <3>2, <4>3, <4>4, <4>7
      <3>0. 1 \in 1..n /\ n \in 1..n
        BY <2>1
      <3> DEFINE S == {k \in 1..n : F[m + k] = A[m] \o B[k]}
      <3>3. 1 \in S /\ n \in 1..n
        BY <3>0, <3>1
      <3>4. \A k \in S : k + 1 \in 1..n => k + 1 \in S
        BY <3>2
      <3>5. S \subseteq 1..n
        OBVIOUS
      <3> HIDE DEF S
      <3>6. 1..n \subseteq S
        BY <2>1, <3>3, <3>4, <3>5, Through
      <3>7. n \in S
        BY <3>3, <3>6
      <3>8. QED
        BY <3>7 DEF S
    <2>12. QED
      BY <1>1, <2>4, <2>5, <2>6, <2>10, <2>11 DEF u
  <1>5. QED
    BY <1>1, <1>2, <1>3, <1>4

\* A line is seen exactly if it occurs.
LEMMA OccursRead ==
    ASSUME NEW a, NEW f, NEW b, NEW seen, Reads(a, f, b, seen), NEW x
    PROVE  Occurs(f, x) <=> \E in : <<in, x>> \in seen
  <1>1. PICK s : Reading(s, a, f, b, seen)
    BY DEF Reads
  <1>2. seen = {<<s[i], f[i]>> : i \in 1..Len(f)} /\ DOMAIN f = 1..Len(f)
    BY <1>1, LenProperties DEF Reading, Reads
  <1>3. QED
    BY <1>2 DEF Occurs

\* A section is what a reader is inside of: nothing but lines stand in one.
LEMMA Leaf ==
    ASSUME NEW tag \in {"<Link>", "<Lib>"}, NEW end,
           end = IF tag = "<Link>" THEN "</Link>" ELSE "</Lib>"
    PROVE  /\ tag # "<Project>" /\ tag # "error" /\ end # tag /\ tag \in Tags
           /\ end \notin Tags /\ Closed(end) = tag /\ Parent(tag) = "<ItemDefinitionGroup>"
           /\ \A x : Parent(x) # tag
           /\ \A x : Closed(x) = tag <=> x = end
           /\ \A in : Inside(in, tag) = tag \/ Inside(in, tag) = "error"
           /\ \A in, x : Inside(in, x) = tag => x = tag \/ (in = tag /\ x # end)
           /\ \A x : Inside(tag, x) \in {tag, "error"} \/ x = end
  <1>1. tag # "<Project>" /\ tag # "error" /\ end # tag /\ tag \in Tags /\ end \notin Tags
    BY DEF Tags
  <1>2. Parent(tag) = "<ItemDefinitionGroup>" /\ Closed(end) = tag
    BY DEF Parent, Closed
  <1>3. \A x : Parent(x) # tag
    BY ParentIs
  <1>4. \A x : Closed(x) = tag <=> x = end
    BY DEF Closed
  <1>5. \A in : Inside(in, tag) = tag \/ Inside(in, tag) = "error"
    BY <1>1, InsideTag
  <1>6. ASSUME NEW in, NEW x, Inside(in, x) = tag
        PROVE  x = tag \/ (in = tag /\ x # end)
    <2>1. CASE x \in Tags
      BY <1>1, <1>6, <2>1, InsideTag
    <2>2. CASE x \notin Tags /\ Closed(x) = ""
      BY <1>2, <1>6, <2>2, InsidePlain
    <2>3. CASE Closed(x) # ""
      BY <1>1, <1>3, <1>6, <2>3, InsideEnd
    <2>4. QED
      BY <2>1, <2>2, <2>3
  <1>7. ASSUME NEW x, x # end
        PROVE  Inside(tag, x) \in {tag, "error"}
    <2>1. CASE x \in Tags
      BY <1>3, <2>1, InsideTag
    <2>2. CASE x \notin Tags /\ Closed(x) = ""
      BY <2>2, InsidePlain
    <2>3. CASE Closed(x) # ""
      BY <1>4, <1>7, <2>3, InsideEnd
    <2>4. QED
      BY <2>1, <2>2, <2>3
  <1>8. QED
    BY <1>1, <1>2, <1>3, <1>4, <1>5, <1>6, <1>7

LEMMA OpenState ==
    ASSUME NEW s, NEW f \in Seq(Text), NEW b, NEW seen,
           Reading(s, "<Project>", f, b, seen),
           NEW tag \in {"<Link>", "<Lib>"}, NEW end,
           end = IF tag = "<Link>" THEN "</Link>" ELSE "</Lib>",
           NEW j \in 1..Len(f)
    PROVE  /\ s[j] = tag <=> \E k \in 1..j : f[k] = tag /\ \A m \in k..j : f[m] # end
           /\ s[j] = tag => f[j] # end
  <1> DEFINE n == Len(f)
             open(i) == \E k \in 1..i : f[k] = tag /\ \A m \in k..i : f[m] # end
  <1>1. /\ n \in Nat /\ s[0] = "<Project>"
        /\ \A i \in 1..n : s[i] = Inside(s[i - 1], f[i]) /\ s[i] # "error"
    BY LenProperties DEF Reading
  <1>2. /\ tag # "<Project>" /\ tag # "error" /\ end # tag
        /\ \A in : Inside(in, tag) = tag \/ Inside(in, tag) = "error"
        /\ \A in, x : Inside(in, x) = tag => x = tag \/ (in = tag /\ x # end)
        /\ \A x : Inside(tag, x) \in {tag, "error"} \/ x = end
    BY Leaf
  <1> HIDE DEF n
  <1>3. ASSUME NEW i \in Nat, i + 1 \in 1..n, s[i] = tag <=> open(i)
        PROVE  s[i + 1] = tag <=> open(i + 1)
    <2>1. s[i + 1] = Inside(s[i], f[i + 1]) /\ s[i + 1] # "error"
      <3>1. (i + 1) - 1 = i
        BY <1>3
      <3>2. QED
        BY <1>1, <1>3, <3>1
    <2>2. ASSUME s[i + 1] = tag PROVE open(i + 1)
      <3>1. CASE f[i + 1] = tag
        <4>1. i + 1 \in 1..i + 1 /\ \A m \in (i + 1)..(i + 1) : m = i + 1
          BY <1>3
        <4>2. QED
          BY <1>2, <3>1, <4>1
      <3>2. CASE s[i] = tag /\ f[i + 1] # end
        <4>1. PICK k \in 1..i : f[k] = tag /\ \A m \in k..i : f[m] # end
          BY <1>3, <3>2
        <4>2. k \in 1..i + 1 /\ \A m \in k..i + 1 : m \in k..i \/ m = i + 1
          BY <1>3
        <4>3. \A m \in k..i + 1 : f[m] # end
          BY <3>2, <4>1, <4>2
        <4>4. QED
          BY <4>1, <4>2, <4>3
      <3>3. QED
        BY <1>2, <2>1, <2>2, <3>1, <3>2
    <2>3. ASSUME open(i + 1) PROVE s[i + 1] = tag
      <3>1. PICK k \in 1..i + 1 : f[k] = tag /\ \A m \in k..i + 1 : f[m] # end
        BY <2>3
      <3>2. i + 1 \in k..i + 1 /\ (k = i + 1 \/ k \in 1..i)
        BY <1>3
      <3>3. f[i + 1] # end
        BY <3>1, <3>2
      <3>4. CASE k = i + 1
        BY <1>2, <2>1, <3>1, <3>4
      <3>5. CASE k \in 1..i
        <4>1. \A m \in k..i : m \in k..i + 1
          BY <1>3, <3>5
        <4>2. open(i)
          BY <3>1, <3>5, <4>1
        <4>3. QED
          BY <1>2, <1>3, <2>1, <3>3, <4>2
      <3>6. QED
        BY <3>2, <3>4, <3>5
    <2> HIDE DEF open
    <2>4. QED
      BY <2>2, <2>3
  <1>4. s[0] = tag <=> open(0)
    <2>1. ~open(0)
      OBVIOUS
    <2>2. QED
      BY <1>1, <1>2, <2>1
  <1>5. s[j] = tag <=> open(j)
    <2> DEFINE S == {i \in Nat : i \in 0..n => (s[i] = tag <=> open(i))}
    <2> HIDE DEF open
    <2>1. 0 \in S
      BY <1>4
    <2>2. ASSUME NEW i \in S, i < n PROVE i + 1 \in S
      <3>1. i \in Nat /\ i + 1 \in 1..n /\ i \in 0..n /\ i + 1 \in Nat
        BY <1>1, <2>2
      <3>2. s[i] = tag <=> open(i)
        BY <3>1
      <3>3. s[i + 1] = tag <=> open(i + 1)
        BY <1>3, <3>1, <3>2
      <3>4. QED
        BY <3>1, <3>3
    <2>3. S \subseteq Nat
      OBVIOUS
    <2> HIDE DEF S
    <2>4. 0..n \subseteq S
      BY <1>1, <2>1, <2>2, <2>3, UpTo
    <2>5. j \in S /\ j \in 0..n
      BY <1>1, <2>4 DEF n
    <2>6. QED
      BY <2>5 DEF S
  <1>6. s[j] = tag => f[j] # end
    <2>1. s[j] = Inside(s[j - 1], f[j]) /\ j \in 1..n
      BY <1>1 DEF n
    <2>2. QED
      BY <1>2, <2>1
  <1>7. QED
    BY <1>5, <1>6

LEMMA SectionRead ==
    ASSUME NEW f, NEW b, NEW seen, Reads("<Project>", f, b, seen),
           NEW tag \in {"<Link>", "<Lib>"}, NEW end,
           end = IF tag = "<Link>" THEN "</Link>" ELSE "</Lib>"
    PROVE  \A x : x \in Section(f, tag, end) <=> x # tag /\ <<tag, x>> \in seen
  <1>1. f \in Seq(Text) /\ DOMAIN f = 1..Len(f)
    BY LenProperties DEF Reads
  <1>2. PICK s : Reading(s, "<Project>", f, b, seen)
    BY DEF Reads
  <1>3. seen = {<<s[i], f[i]>> : i \in 1..Len(f)}
    BY <1>2 DEF Reading
  <1> DEFINE open(j) == \E k \in 1..j : f[k] = tag /\ \A m \in k..j : f[m] # end
  <1>4. \A j \in 1..Len(f) : (s[j] = tag <=> open(j)) /\ (s[j] = tag => f[j] # end)
    BY <1>1, <1>2, OpenState
  <1>5. Section(f, tag, end) = {f[i] : i \in {j \in 1..Len(f) : f[j] \notin {tag, end} /\ open(j)}}
    BY <1>1 DEF Section
  <1> HIDE DEF open
  <1>6. QED
    BY <1>3, <1>4, <1>5

\* Lines that are no tags leave the reader where it is.
LEMMA PlainRead ==
    ASSUME NEW in \in Text, in # "error", NEW f \in Seq(Text),
           \A i \in 1..Len(f) : Plain(f[i])
    PROVE  Reads(in, f, in, {<<in, f[i]>> : i \in 1..Len(f)})
  <1>1. Len(f) \in Nat
    BY LenProperties
  <1> DEFINE s == [i \in 0..Len(f) |-> in]
             seen == {<<in, f[i]>> : i \in 1..Len(f)}
  <1>2. s \in [0..Len(f) -> Text] /\ s[0] = in /\ s[Len(f)] = in
    BY <1>1
  <1>3. \A i \in 1..Len(f) : s[i] = in /\ s[i - 1] = in
    BY <1>1
  <1> HIDE DEF s
  <1>4. \A i \in 1..Len(f) : s[i] = Inside(s[i - 1], f[i])
    BY <1>3, InsidePlain DEF Plain
  <1>5. seen = {<<s[i], f[i]>> : i \in 1..Len(f)}
    BY <1>3
  <1> HIDE DEF seen
  <1>6. Reading(s, in, f, in, seen)
    BY <1>2, <1>3, <1>4, <1>5 DEF Reading
  <1>7. Reads(in, f, in, seen)
    BY <1>6 DEF Reads
  <1>8. QED
    BY <1>7 DEF seen

\* Lines that take the place of a line are where that one was.
LEMMA ReplacedRead ==
    ASSUME NEW a, NEW f, NEW b, NEW seen, Reads(a, f, b, seen),
           NEW x, Plain(x), NEW by \in Seq(Text), \A k \in 1..Len(by) : Plain(by[k])
    PROVE  \E seen1 :
            /\ Reads(a, Substituted(f, x, by), b, seen1)
            /\ \A in, y : <<in, y>> \in seen1 <=>
                \/ y # x /\ <<in, y>> \in seen
                \/ <<in, x>> \in seen /\ \E k \in 1..Len(by) : y = by[k]
  <1>1. f \in Seq(Text) /\ Len(f) \in Nat /\ DOMAIN f = 1..Len(f)
    BY LenProperties DEF Reads
  <1>2. PICK s : Reading(s, a, f, b, seen)
    BY DEF Reads
  <1>3. /\ s \in [0..Len(f) -> Text] /\ s[0] = a /\ s[Len(f)] = b
        /\ \A i \in 1..Len(f) : s[i] = Inside(s[i - 1], f[i]) /\ s[i] # "error"
        /\ seen = {<<s[i], f[i]>> : i \in 1..Len(f)}
    BY <1>2 DEF Reading
  <1> DEFINE n == Len(f)
             p == [i \in 1..n |-> IF f[i] = x THEN by ELSE <<f[i]>>]
             q == [i \in 1..n |-> IF f[i] = x THEN {<<s[i], by[k]>> : k \in 1..Len(by)}
                                  ELSE {<<s[i], f[i]>>}]
             seen1 == UNION {q[i] : i \in 1..n}
  <1>4. \A i \in 1..n : f[i] \in Text
    BY <1>1, ElementOfSeq
  <1>5. p \in Seq(Seq(Text)) /\ Len(p) = n
    BY <1>1, <1>4
  <1>6. Substituted(f, x, by) = FlattenSeq(p)
    BY <1>1 DEF Substituted, Rewritten
  <1>7. ASSUME NEW i \in 1..n PROVE Reads(s[i - 1], p[i], s[i], q[i])
    <2>1. s[i - 1] \in Text /\ s[i] \in Text /\ s[i] = Inside(s[i - 1], f[i]) /\ s[i] # "error"
      BY <1>1, <1>3
    <2>2. CASE f[i] = x
      <3>1. s[i] = s[i - 1]
        BY <2>1, <2>2, InsidePlain DEF Plain
      <3>2. p[i] = by /\ q[i] = {<<s[i], by[k]>> : k \in 1..Len(by)}
        BY <2>2
      <3> HIDE DEF p, q
      <3>3. Reads(s[i], by, s[i], {<<s[i], by[k]>> : k \in 1..Len(by)})
        BY <2>1, PlainRead
      <3>4. QED
        BY <3>1, <3>2, <3>3
    <2>3. CASE f[i] # x
      <3>1. p[i] = <<f[i]>> /\ q[i] = {<<s[i], f[i]>>}
        BY <2>3
      <3> HIDE DEF p, q
      <3>2. QED
        BY <1>4, <2>1, <3>1, ReadsLine
    <2>4. QED
      BY <2>2, <2>3
  <1>8. \A in, y : <<in, y>> \in seen1 <=>
            \/ y # x /\ <<in, y>> \in seen
            \/ <<in, x>> \in seen /\ \E k \in 1..Len(by) : y = by[k]
    <2>1. \A i \in 1..n : f[i] = x => q[i] = {<<s[i], by[k]>> : k \in 1..Len(by)}
      OBVIOUS
    <2>2. \A i \in 1..n : f[i] # x => q[i] = {<<s[i], f[i]>>}
      OBVIOUS
    <2>3. \A in, y : <<in, y>> \in seen1 <=> \E i \in 1..n : <<in, y>> \in q[i]
      BY DEF seen1
    <2>4. \A in, y : <<in, y>> \in seen <=> \E i \in 1..n : in = s[i] /\ y = f[i]
      BY <1>3
    <2> HIDE DEF q, p, n, seen1
    <2>5. ASSUME NEW in, NEW y, <<in, y>> \in seen1
          PROVE  \/ y # x /\ <<in, y>> \in seen
                 \/ <<in, x>> \in seen /\ \E k \in 1..Len(by) : y = by[k]
      <3>1. PICK i \in 1..n : <<in, y>> \in q[i]
        BY <2>3, <2>5
      <3>2. CASE f[i] = x
        <4>1. PICK k \in 1..Len(by) : in = s[i] /\ y = by[k]
          BY <2>1, <3>1, <3>2
        <4>2. QED
          BY <2>4, <3>2, <4>1
      <3>3. CASE f[i] # x
        BY <2>2, <2>4, <3>1, <3>3
      <3>4. QED
        BY <3>2, <3>3
    <2>6. ASSUME NEW in, NEW y, y # x, <<in, y>> \in seen
          PROVE  <<in, y>> \in seen1
      BY <2>2, <2>3, <2>4, <2>6
    <2>7. ASSUME NEW in, NEW k \in 1..Len(by), <<in, x>> \in seen
          PROVE  <<in, by[k]>> \in seen1
      BY <2>1, <2>3, <2>4, <2>7
    <2>8. QED
      BY <2>5, <2>6, <2>7
  <1> HIDE DEF p, q
  <1>9. Reads(s[0], FlattenSeq(p), s[n], seen1)
    <2>1. s[0] \in Text /\ \A i \in 1..Len(p) : Reads(s[i - 1], p[i], s[i], q[i])
      BY <1>1, <1>3, <1>5, <1>7
    <2> HIDE DEF n, Reads, seen1, Text
    <2>2. \A z : z \in seen1 <=> \E i \in 1..Len(p) : z \in q[i]
      BY <1>5 DEF seen1, n
    <2>3. Reads(s[0], FlattenSeq(p), s[Len(p)], seen1)
      BY <1>5, <2>1, <2>2, ReadsParts
    <2>4. QED
      BY <1>5, <2>3
  <1> HIDE DEF seen1
  <1>10. Reads(a, Substituted(f, x, by), b, seen1)
    BY <1>3, <1>6, <1>9
  <1>11. QED
    BY <1>8, <1>10

\* The lines at the end that an edit leaves alone stay at the end.
LEMMA PartsTail ==
    ASSUME NEW p \in Seq(Seq(Text)), NEW t \in Seq(Text), NEW q, NEW n, n = Len(p),
           q \in [1..n + Len(t) -> Seq(Text)],
           \A i \in 1..n : q[i] = p[i],
           \A i \in 1..Len(t) : q[n + i] = <<t[i]>>
    PROVE  FlattenSeq(q) = FlattenSeq(p) \o t
  <1> DEFINE m == Len(t)
             r == [i \in 1..m |-> <<t[i]>>]
  <1>1. n \in Nat /\ m \in Nat /\ \A i \in 1..m : t[i] \in Text
    BY LenProperties, ElementOfSeq
  <1>2. r \in Seq(Seq(Text)) /\ Len(r) = m /\ \A i \in 1..m : r[i] = <<t[i]>>
    BY <1>1
  <1>3. FlattenSeq(r) = t
    BY FlattenLines
  <1> HIDE DEF r
  <1>4. q \in Seq(Seq(Text)) /\ Len(q) = n + m
    <2>1. n + m \in Nat /\ q \in [1..n + m -> Seq(Text)]
      BY <1>1
    <2>2. ASSUME NEW S, NEW l \in Nat, NEW g \in [1..l -> S]
          PROVE  g \in Seq(S) /\ Len(g) = l
      OBVIOUS
    <2>3. QED
      BY <2>1, <2>2
  <1> HIDE DEF m
  <1>5. p \o r \in Seq(Seq(Text)) /\ Len(p \o r) = n + m
        /\ \A i \in 1..n + m : (p \o r)[i] = IF i <= n THEN p[i] ELSE r[i - n]
    BY <1>1, <1>2, ConcatProperties
  <1>6. ASSUME NEW i \in 1..n + m PROVE q[i] = (p \o r)[i]
    <2>1. CASE i <= n
      <3>1. i \in 1..n
        BY <1>1, <2>1
      <3>2. QED
        BY <1>5, <2>1, <3>1
    <2>2. CASE ~(i <= n)
      <3>1. i - n \in 1..m /\ n + (i - n) = i
        BY <1>1, <2>2
      <3>2. q[n + (i - n)] = <<t[i - n]>> /\ r[i - n] = <<t[i - n]>>
        BY <1>2, <3>1 DEF m
      <3>3. QED
        BY <1>5, <2>2, <3>1, <3>2
    <2>3. QED
      BY <2>1, <2>2
  <1>7. q = p \o r
    BY <1>4, <1>5, <1>6, SeqEqual
  <1>8. FlattenSeq(p \o r) = FlattenSeq(p) \o FlattenSeq(r)
    BY <1>2, FlattenConcat
  <1>9. QED
    BY <1>3, <1>7, <1>8

LEMMA ReplacedTail ==
    ASSUME NEW h \in Seq(Text), NEW t \in Seq(Text), NEW x, ~Occurs(t, x),
           NEW by \in Seq(Text)
    PROVE  Substituted(h \o t, x, by) = Substituted(h, x, by) \o t
  <1> DEFINE n == Len(h)
             m == Len(t)
             f == h \o t
             p == [i \in 1..n |-> IF h[i] = x THEN by ELSE <<h[i]>>]
             q == [i \in 1..n + m |-> IF f[i] = x THEN by ELSE <<f[i]>>]
  <1>1. /\ n \in Nat /\ m \in Nat /\ DOMAIN h = 1..n /\ DOMAIN t = 1..m
        /\ (\A i \in 1..n : h[i] \in Text) /\ \A i \in 1..m : t[i] \in Text
    BY LenProperties, ElementOfSeq
  <1>2. /\ f \in Seq(Text) /\ Len(f) = n + m
        /\ (\A i \in 1..n : f[i] = h[i]) /\ \A i \in 1..m : f[n + i] = t[i]
    BY <1>1, ConcatProperties
  <1>3. DOMAIN f = 1..n + m /\ \A i \in 1..n + m : f[i] \in Text
    BY <1>2, LenProperties, ElementOfSeq
  <1> HIDE DEF n, m, f
  <1>4. Substituted(f, x, by) = FlattenSeq(q) /\ Substituted(h, x, by) = FlattenSeq(p)
    BY <1>1, <1>3 DEF Substituted, Rewritten
  <1>5. p \in Seq(Seq(Text)) /\ Len(p) = n
    <2>1. \A i \in 1..n : <<h[i]>> \in Seq(Text)
      BY <1>1
    <2> HIDE DEF q, Text
    <2>2. QED
      BY <1>1, <2>1
  <1>6. q \in [1..n + m -> Seq(Text)]
    BY <1>3
  <1>7. \A i \in 1..n : q[i] = p[i]
    BY <1>1, <1>2
  <1>8. \A i \in 1..m : q[n + i] = <<t[i]>>
    <2>1. \A i \in 1..m : t[i] # x /\ n + i \in 1..n + m
      BY <1>1 DEF Occurs
    <2>2. QED
      BY <1>2, <2>1
  <1> HIDE DEF p, q
  <1>9. FlattenSeq(q) = FlattenSeq(p) \o t
    BY <1>5, <1>6, <1>7, <1>8, PartsTail DEF m
  <1>10. QED
    BY <1>4, <1>9 DEF f

\* What the <Link> section of a file has up to a line.
LEMMA CopyLinesRead ==
    ASSUME NEW f \in Seq(Text), NEW i \in 1..Len(f),
           \A k \in 1..i : InLink(f, k) => Plain(f[k])
    PROVE  Reads("<Lib>", CopyLines(f, i), "<Lib>",
                 {<<"<Lib>", f[k]>> : k \in {j \in 1..i : InLink(f, j)}})
  <1> DEFINE p == [k \in 1..i |-> IF InLink(f, k) THEN <<f[k]>> ELSE <<>>]
             s == [k \in 0..i |-> "<Lib>"]
             q == [k \in 1..i |-> IF InLink(f, k) THEN {<<"<Lib>", f[k]>>} ELSE {}]
             all == {<<"<Lib>", f[k]>> : k \in {j \in 1..i : InLink(f, j)}}
  <1>1. Len(f) \in Nat /\ i \in Nat /\ \A k \in 1..i : k \in 1..Len(f)
    BY LenProperties
  <1>2. \A k \in 1..i : f[k] \in Text
    BY <1>1, ElementOfSeq
  <1>3. SubSeq(f, 1, i) \in Seq(Text) /\ Len(SubSeq(f, 1, i)) = i
        /\ DOMAIN SubSeq(f, 1, i) = 1..i
    BY <1>1, <1>2, SubSeqProperties, LenProperties
  <1>4. CopyLines(f, i) = FlattenSeq(p)
    BY <1>3 DEF CopyLines, Rewritten
  <1>5. p \in Seq(Seq(Text)) /\ Len(p) = i
    BY <1>1, <1>2
  <1>6. "<Lib>" \in Text
    BY DEF Text, Tags
  <1>7. s[0] = "<Lib>" /\ \A k \in 1..i : s[k] = "<Lib>" /\ s[k - 1] = "<Lib>"
    BY <1>1
  <1>8. ASSUME NEW k \in 1..i PROVE Reads("<Lib>", p[k], "<Lib>", q[k])
    <2>1. CASE InLink(f, k)
      <3>1. p[k] = <<f[k]>> /\ q[k] = {<<"<Lib>", f[k]>>}
        BY <2>1
      <3>2. Inside("<Lib>", f[k]) = "<Lib>"
        BY <2>1, InsidePlain DEF Plain
      <3> HIDE DEF p, q
      <3>3. QED
        BY <1>2, <1>6, <3>1, <3>2, ReadsLine
    <2>2. CASE ~InLink(f, k)
      <3>1. p[k] = <<>> /\ q[k] = {}
        BY <2>2
      <3> HIDE DEF p, q
      <3>2. QED
        BY <1>6, <3>1, ReadsNothing
    <2>3. QED
      BY <2>1, <2>2
  <1>9. \A z : z \in all <=> \E k \in 1..i : z \in q[k]
    <2>1. \A k \in 1..i : InLink(f, k) => q[k] = {<<"<Lib>", f[k]>>}
      OBVIOUS
    <2>2. \A k \in 1..i : ~InLink(f, k) => q[k] = {}
      OBVIOUS
    <2> HIDE DEF q, InLink
    <2>3. QED
      BY <2>1, <2>2
  <1> HIDE DEF p, q, s, all
  <1>10. \A k \in 1..Len(p) : Reads(s[k - 1], p[k], s[k], q[k])
    BY <1>5, <1>7, <1>8
  <1>11. i \in 1..i
    BY <1>1
  <1>12. Reads(s[0], FlattenSeq(p), s[Len(p)], all)
    BY <1>5, <1>6, <1>7, <1>9, <1>10, ReadsParts
  <1>13. QED
    BY <1>4, <1>5, <1>7, <1>11, <1>12 DEF all

LEMMA Line ==
    ASSUME NEW x \in Text, NEW f \in Seq(Text)
    PROVE  /\ <<x>> \in Seq(Text) /\ Len(<<x>>) = 1
           /\ <<x>> \o f \in Seq(Text) /\ Len(<<x>> \o f) = Len(f) + 1 /\ (<<x>> \o f)[1] = x
           /\ \A i \in 1..Len(f) : (<<x>> \o f)[i + 1] = f[i]
  <1>1. <<x>> \in Seq(Text) /\ Len(<<x>>) = 1 /\ <<x>>[1] = x /\ Len(f) \in Nat
    BY LenProperties
  <1>2. <<x>> \o f \in Seq(Text) /\ Len(<<x>> \o f) = 1 + Len(f)
        /\ \A i \in 1..1 + Len(f) : (<<x>> \o f)[i] = IF i <= 1 THEN <<x>>[i] ELSE f[i - 1]
    BY <1>1, ConcatProperties
  <1>3. \A i \in 1..Len(f) : i + 1 \in 1..1 + Len(f) /\ ~(i + 1 <= 1) /\ (i + 1) - 1 = i
    BY <1>1
  <1>4. \A i \in 1..Len(f) : (<<x>> \o f)[i + 1] = f[i]
    BY <1>2, <1>3
  <1>5. (<<x>> \o f)[1] = x
    BY <1>1, <1>2
  <1>6. QED
    BY <1>1, <1>2, <1>4, <1>5

LEMMA TwoLines ==
    ASSUME NEW x \in Text, NEW y \in Text PROVE <<x>> \o <<y>> = <<x, y>>
  <1>1. <<y>> \in Seq(Text) /\ Len(<<y>>) = 1 /\ <<y>>[1] = y
    OBVIOUS
  <1>2. <<x, y>> \in Seq(Text) /\ Len(<<x, y>>) = 2 /\ <<x, y>>[1] = x /\ <<x, y>>[2] = y
    OBVIOUS
  <1>3. \A i \in 1..2 : i = 1 \/ i = 1 + 1
    OBVIOUS
  <1>4. <<x>> \o <<y>> \in Seq(Text) /\ Len(<<x>> \o <<y>>) = 2
        /\ (<<x>> \o <<y>>)[1] = x /\ (<<x>> \o <<y>>)[1 + 1] = y
    BY <1>1, Line
  <1> DEFINE f == <<x>> \o <<y>>
             g == <<x, y>>
  <1>5. \A i \in 1..Len(f) : f[i] = g[i]
    BY <1>2, <1>3, <1>4
  <1>6. f \in Seq(Text) /\ g \in Seq(Text) /\ Len(f) = Len(g)
    BY <1>2, <1>4
  <1> HIDE DEF f, g, Text
  <1>7. f = g
    BY <1>5, <1>6, SeqEqual
  <1>8. QED
    BY <1>7 DEF f, g

\* copy_link_to_lib adds a <Lib> section with what is in the <Link> section,
\* and changes nothing else.
LEMMA CopyRead ==
    ASSUME NEW f, NEW seen, Reads("<Project>", f, "<Project>", seen)
    PROVE  \E seen1 :
            /\ Reads("<Project>", copy_link_to_lib(f), "<Project>", seen1)
            /\ seen \subseteq seen1
            /\ \A in, y : <<in, y>> \in seen1 =>
                \/ <<in, y>> \in seen
                \/ in = "<Lib>" /\ y \in {"<Lib>", "directories"}
                \/ in = "<Lib>" /\ y # "<Link>" /\ <<"<Link>", y>> \in seen
                \/ in = "<ItemDefinitionGroup>" /\ y = "</Lib>"
            /\ \A y : y # "<Link>" /\ <<"<Link>", y>> \in seen => <<"<Lib>", y>> \in seen1
  <1> DEFINE n == Len(f)
             group == "<ItemDefinitionGroup>"
             lines(i) == CopyLines(f, i)
             more(i) == IF Occurs(lines(i), "directories") THEN <<>> ELSE <<"directories">>
             p == [i \in 1..n |-> IF f[i] # "</Link>" THEN <<f[i]>>
                    ELSE <<f[i], "<Lib>">> \o lines(i) \o more(i) \o <<"</Lib>">>]
  <1>1. f \in Seq(Text) /\ n \in Nat /\ DOMAIN f = 1..n /\ \A i \in 1..n : f[i] \in Text
    BY LenProperties, ElementOfSeq DEF Reads
  <1>2. PICK s : Reading(s, "<Project>", f, "<Project>", seen)
    BY DEF Reads
  <1>3. /\ s \in [0..n -> Text] /\ s[0] = "<Project>" /\ s[n] = "<Project>"
        /\ \A i \in 1..n : s[i] = Inside(s[i - 1], f[i]) /\ s[i] # "error"
        /\ seen = {<<s[i], f[i]>> : i \in 1..n}
    BY <1>2 DEF Reading
  <1>4. copy_link_to_lib(f) = FlattenSeq(p)
    BY <1>1 DEF copy_link_to_lib, Rewritten
  <1>5. \A i \in 1..n : InLink(f, i) <=> s[i] = "<Link>" /\ f[i] # "<Link>"
    <2>1. \A j \in 1..n :
            /\ s[j] = "<Link>" <=>
                \E k \in 1..j : f[k] = "<Link>" /\ \A m \in k..j : f[m] # "</Link>"
            /\ s[j] = "<Link>" => f[j] # "</Link>"
      BY <1>1, <1>2, OpenState
    <2>2. QED
      BY <2>1 DEF InLink
  <1>6. ASSUME NEW i \in 1..n, InLink(f, i) PROVE Plain(f[i])
    <2>1. i - 1 \in 0..n /\ s[i] = "<Link>" /\ f[i] # "<Link>" /\ f[i] \in Text
          /\ s[i] = Inside(s[i - 1], f[i])
      BY <1>1, <1>3, <1>5, <1>6
    <2>2. f[i] \notin Tags
      BY <2>1, InsideTag
    <2>3. Closed(f[i]) = ""
      <3>1. Closed(f[i]) # "" => s[i] = "error" \/ s[i] = Parent(s[i - 1])
        BY <2>1, InsideEnd
      <3>2. QED
        BY <2>1, <3>1, ParentIs
    <2>4. QED
      BY <2>1, <2>2, <2>3 DEF Plain
  <1> DEFINE copied(i) == {<<"<Lib>", f[k]>> : k \in {j \in 1..i : InLink(f, j)}}
             tail(i) == IF Occurs(lines(i), "directories") THEN {}
                        ELSE {<<"<Lib>", "directories">>}
             q == [i \in 1..n |-> IF f[i] # "</Link>" THEN {<<s[i], f[i]>>}
                    ELSE {<<group, "</Link>">>, <<"<Lib>", "<Lib>">>} \cup copied(i)
                         \cup tail(i) \cup {<<group, "</Lib>">>}]
             seen1 == UNION {q[i] : i \in 1..n}
  <1>7. {"<Lib>", "directories", "</Lib>", "</Link>", "<Link>", group} \subseteq Text
    BY DEF Text, Tags
  <1>8. ASSUME NEW i \in 1..n PROVE Reads("<Lib>", lines(i), "<Lib>", copied(i))
    <2>1. \A k \in 1..i : k \in 1..n
      BY <1>1
    <2>2. \A k \in 1..i : InLink(f, k) => Plain(f[k])
      BY <1>6, <2>1
    <2> HIDE DEF InLink, Plain, Text
    <2>3. QED
      BY <1>1, <2>2, CopyLinesRead
  <1>9. ASSUME NEW i \in 1..n PROVE Reads("<Lib>", more(i), "<Lib>", tail(i))
    <2>1. Inside("<Lib>", "directories") = "<Lib>" /\ "<Lib>" \in Text /\ "directories" \in Text
      <3>1. "directories" \notin Tags /\ Closed("directories") = ""
        BY DEF Tags, Closed
      <3>2. QED
        BY <1>7, <3>1, InsidePlain
    <2>2. Reads("<Lib>", <<>>, "<Lib>", {})
      BY <2>1, ReadsNothing
    <2>3. Reads("<Lib>", <<"directories">>, "<Lib>", {<<"<Lib>", "directories">>})
      BY <2>1, ReadsLine
    <2> HIDE DEF Reads
    <2>4. QED
      BY <2>2, <2>3
  <1>10. ASSUME NEW i \in 1..n, f[i] = "</Link>"
         PROVE  /\ s[i] = group /\ s[i - 1] = "<Link>"
                /\ Reads("<Link>", <<"</Link>", "<Lib>">> \o lines(i) \o more(i) \o <<"</Lib>">>,
                         group, {<<group, "</Link>">>, <<"<Lib>", "<Lib>">>} \cup copied(i)
                                \cup tail(i) \cup {<<group, "</Lib>">>})
    <2>1. Closed("</Link>") = "<Link>" /\ Closed("</Lib>") = "<Lib>"
      BY DEF Closed
    <2>2. Parent("<Link>") = group /\ Parent("<Lib>") = group /\ "<Lib>" \in Tags
      BY DEF Parent, Tags
    <2>3. Inside("<Link>", "</Link>") = group /\ Inside("<Lib>", "</Lib>") = group
      BY <2>1, <2>2, InsideEnd
    <2>4. Inside(group, "<Lib>") = "<Lib>"
      BY <2>2, InsideTag
    <2>5. s[i - 1] = "<Link>"
      <3>1. s[i] = Inside(s[i - 1], "</Link>") /\ s[i] # "error"
        BY <1>3, <1>10
      <3>2. QED
        BY <2>1, <3>1, InsideEnd
    <2>6. s[i] = group
      BY <1>3, <1>10, <2>3, <2>5
    <2> HIDE DEF group, lines, more, copied, tail, p, q, seen1, n
    <2>6a. group # "error"
      BY DEF group
    <2>7. Reads("<Link>", <<"</Link>">>, group, {<<group, "</Link>">>})
      BY <1>7, <2>3, <2>6a, ReadsLine
    <2>8. Reads(group, <<"<Lib>">>, "<Lib>", {<<"<Lib>", "<Lib>">>})
      BY <1>7, <2>4, ReadsLine
    <2>9. Reads("<Lib>", <<"</Lib>">>, group, {<<group, "</Lib>">>})
      BY <1>7, <2>3, <2>6a, ReadsLine
    <2> HIDE DEF Reads
    <2>10. Reads("<Link>", <<"</Link>">> \o <<"<Lib>">>, "<Lib>",
                 {<<group, "</Link>">>} \cup {<<"<Lib>", "<Lib>">>})
      BY <2>7, <2>8, ReadsOn
    <2>11. <<"</Link>">> \o <<"<Lib>">> = <<"</Link>", "<Lib>">>
           /\ {<<group, "</Link>">>} \cup {<<"<Lib>", "<Lib>">>}
                = {<<group, "</Link>">>, <<"<Lib>", "<Lib>">>}
      BY <1>7, TwoLines
    <2>12. Reads("<Link>", <<"</Link>", "<Lib>">>, "<Lib>",
                 {<<group, "</Link>">>, <<"<Lib>", "<Lib>">>})
      BY <2>10, <2>11
    <2>13. Reads("<Link>", <<"</Link>", "<Lib>">> \o lines(i), "<Lib>",
                 {<<group, "</Link>">>, <<"<Lib>", "<Lib>">>} \cup copied(i))
      BY <1>8, <2>12, ReadsOn
    <2>14. Reads("<Link>", <<"</Link>", "<Lib>">> \o lines(i) \o more(i), "<Lib>",
                 {<<group, "</Link>">>, <<"<Lib>", "<Lib>">>} \cup copied(i) \cup tail(i))
      BY <1>9, <2>13, ReadsOn
    <2>15. Reads("<Link>", <<"</Link>", "<Lib>">> \o lines(i) \o more(i) \o <<"</Lib>">>,
                 group, {<<group, "</Link>">>, <<"<Lib>", "<Lib>">>} \cup copied(i)
                        \cup tail(i) \cup {<<group, "</Lib>">>})
      BY <2>9, <2>14, ReadsOn
    <2>16. QED
      BY <2>5, <2>6, <2>15
  <1>11. ASSUME NEW i \in 1..n PROVE Reads(s[i - 1], p[i], s[i], q[i])
    <2>1. CASE f[i] = "</Link>"
      <3>1. p[i] = <<"</Link>", "<Lib>">> \o lines(i) \o more(i) \o <<"</Lib>">>
        BY <2>1
      <3>2. q[i] = {<<group, "</Link>">>, <<"<Lib>", "<Lib>">>} \cup copied(i)
                   \cup tail(i) \cup {<<group, "</Lib>">>}
        BY <2>1
      <3> HIDE DEF p, q, lines, more, copied, tail, Reads, group
      <3>3. QED
        BY <1>10, <2>1, <3>1, <3>2
    <2>2. CASE f[i] # "</Link>"
      <3>1. p[i] = <<f[i]>> /\ q[i] = {<<s[i], f[i]>>}
        BY <2>2
      <3>2. s[i - 1] \in Text /\ s[i] = Inside(s[i - 1], f[i]) /\ s[i] # "error"
        BY <1>1, <1>3
      <3> HIDE DEF p, q
      <3>3. QED
        BY <1>1, <3>1, <3>2, ReadsLine
    <2>3. QED
      BY <2>1, <2>2
  <1>12. p \in Seq(Seq(Text)) /\ Len(p) = n
    <2>1. \A i \in 1..n : p[i] \in Seq(Text)
      BY <1>11 DEF Reads
    <2>2. p = [i \in 1..n |-> p[i]]
      OBVIOUS
    <2> HIDE DEF p, Text
    <2>3. QED
      BY <1>1, <2>1, <2>2
  <1>13. \A z : z \in seen1 <=> \E i \in 1..n : z \in q[i]
    OBVIOUS
  <1>14. /\ \A i \in 1..n : f[i] # "</Link>" => q[i] = {<<s[i], f[i]>>}
         /\ \A i \in 1..n : f[i] = "</Link>" =>
              q[i] = {<<group, "</Link>">>, <<"<Lib>", "<Lib>">>} \cup copied(i)
                     \cup tail(i) \cup {<<group, "</Lib>">>}
    <2> HIDE DEF copied, tail, group
    <2>1. QED
      OBVIOUS
  <1>15. Reads("<Project>", copy_link_to_lib(f), "<Project>", seen1)
    <2> HIDE DEF p, q, seen1, n, Reads, Text
    <2>1. s[0] \in Text /\ \A i \in 1..Len(p) : Reads(s[i - 1], p[i], s[i], q[i])
      BY <1>1, <1>3, <1>11, <1>12
    <2>2. \A z : z \in seen1 <=> \E i \in 1..Len(p) : z \in q[i]
      BY <1>12, <1>13
    <2>3. Reads(s[0], FlattenSeq(p), s[Len(p)], seen1)
      BY <1>12, <2>1, <2>2, ReadsParts
    <2>4. QED
      BY <1>3, <1>4, <1>12, <2>3
  <1> HIDE DEF p, q, seen1, lines, more, n
  <1>16. seen \subseteq seen1
    <2>1. ASSUME NEW i \in 1..n PROVE <<s[i], f[i]>> \in q[i]
      <3>1. CASE f[i] = "</Link>"
        BY <1>10, <1>14, <3>1
      <3>2. CASE f[i] # "</Link>"
        BY <1>14, <3>2
      <3>3. QED
        BY <3>1, <3>2
    <2>2. QED
      BY <1>3, <1>13, <2>1
  <1>17. ASSUME NEW in, NEW y, <<in, y>> \in seen1
         PROVE  \/ <<in, y>> \in seen
                \/ in = "<Lib>" /\ y \in {"<Lib>", "directories"}
                \/ in = "<Lib>" /\ y # "<Link>" /\ <<"<Link>", y>> \in seen
                \/ in = "<ItemDefinitionGroup>" /\ y = "</Lib>"
    <2>1. PICK i \in 1..n : <<in, y>> \in q[i]
      BY <1>13, <1>17
    <2>2. CASE f[i] # "</Link>"
      BY <1>3, <1>14, <2>1, <2>2
    <2>3. CASE f[i] = "</Link>"
      <3>1. <<in, y>> \in {<<group, "</Link>">>, <<"<Lib>", "<Lib>">>} \cup copied(i)
                     \cup tail(i) \cup {<<group, "</Lib>">>}
        BY <1>14, <2>1, <2>3
      <3>2. CASE <<in, y>> = <<group, "</Link>">>
        BY <1>3, <1>10, <2>3, <3>2
      <3>3. CASE <<in, y>> \in copied(i)
        <4>1. PICK k \in 1..i : InLink(f, k) /\ in = "<Lib>" /\ y = f[k]
          BY <3>3
        <4>2. k \in 1..n
          BY <1>1
        <4>3. y # "<Link>" /\ <<"<Link>", y>> \in seen
          BY <1>3, <1>5, <4>1, <4>2
        <4>4. QED
          BY <4>1, <4>3
      <3>4. QED
        BY <3>1, <3>2, <3>3
    <2>4. QED
      BY <2>2, <2>3
  <1>18. ASSUME NEW y, y # "<Link>", <<"<Link>", y>> \in seen
         PROVE  <<"<Lib>", y>> \in seen1
    <2>1. PICK i \in 1..n : s[i] = "<Link>" /\ f[i] = y
      BY <1>3, <1>18
    <2>2. \E j \in i..n : f[j] = "</Link>"
      <3> SUFFICES ASSUME \A j \in i..n : f[j] # "</Link>" PROVE FALSE
        OBVIOUS
      <3>1. n \in 1..n
        BY <1>1
      <3>2. \A j \in 1..n : s[j] = "<Link>" <=>
                \E k \in 1..j : f[k] = "<Link>" /\ \A m \in k..j : f[m] # "</Link>"
        BY <1>1, <1>2, OpenState DEF n
      <3>3. PICK k \in 1..i : f[k] = "<Link>" /\ \A m \in k..i : f[m] # "</Link>"
        BY <2>1, <3>2
      <3>4. k \in 1..n /\ \A m \in k..n : m \in k..i \/ m \in i..n
        BY <1>1
      <3>5. \A m \in k..n : f[m] # "</Link>"
        BY <3>3, <3>4
      <3>6. s[n] = "<Link>"
        BY <3>1, <3>2, <3>3, <3>4, <3>5
      <3>7. QED
        BY <1>3, <3>6
    <2>3. PICK j \in i..n : f[j] = "</Link>"
      BY <2>2
    <2>4. j \in 1..n /\ i \in 1..j
      BY <1>1
    <2>5. InLink(f, i)
      BY <1>5, <1>18, <2>1
    <2>6. <<"<Lib>", y>> \in copied(j)
      BY <2>1, <2>4, <2>5
    <2> HIDE DEF copied, tail, InLink
    <2>7. <<"<Lib>", y>> \in q[j]
      BY <1>14, <2>3, <2>4, <2>6
    <2>8. QED
      BY <1>13, <2>4, <2>7
  <1>19. QED
    BY <1>15, <1>16, <1>17, <1>18

LEMMA CopyTail ==
    ASSUME NEW h \in Seq(Text), NEW t \in Seq(Text), ~Occurs(t, "</Link>")
    PROVE  copy_link_to_lib(h \o t) = copy_link_to_lib(h) \o t
  <1> DEFINE n == Len(h)
             m == Len(t)
             f == h \o t
             part(g, i) == IF g[i] # "</Link>" THEN <<g[i]>>
                ELSE LET lines == CopyLines(g, i) IN
                     <<g[i], "<Lib>">> \o lines
                     \o (IF Occurs(lines, "directories") THEN <<>> ELSE <<"directories">>)
                     \o <<"</Lib>">>
             p == [i \in 1..n |-> part(h, i)]
             q == [i \in 1..n + m |-> part(f, i)]
  <1>1. /\ n \in Nat /\ m \in Nat /\ DOMAIN h = 1..n /\ DOMAIN t = 1..m
        /\ (\A i \in 1..n : h[i] \in Text) /\ \A i \in 1..m : t[i] \in Text
    BY LenProperties, ElementOfSeq
  <1>2. /\ f \in Seq(Text) /\ Len(f) = n + m
        /\ (\A i \in 1..n : f[i] = h[i]) /\ \A i \in 1..m : f[n + i] = t[i]
    BY <1>1, ConcatProperties
  <1>3. DOMAIN f = 1..n + m /\ \A i \in 1..n + m : f[i] \in Text
    BY <1>2, LenProperties, ElementOfSeq
  <1> HIDE DEF n, m, f
  <1>4. copy_link_to_lib(f) = FlattenSeq(q) /\ copy_link_to_lib(h) = FlattenSeq(p)
    BY <1>1, <1>3 DEF copy_link_to_lib, Rewritten
  <1>5. ASSUME NEW g \in Seq(Text), NEW i \in 1..Len(g)
        PROVE  /\ CopyLines(g, i) =
                    FlattenSeq([k \in 1..i |-> IF InLink(g, k) THEN <<g[k]>> ELSE <<>>])
               /\ CopyLines(g, i) \in Seq(Text)
               /\ part(g, i) \in Seq(Text)
    <2> DEFINE r == [k \in 1..i |-> IF InLink(g, k) THEN <<g[k]>> ELSE <<>>]
    <2>1. Len(g) \in Nat /\ i \in Nat /\ (\A k \in 1..i : k \in 1..Len(g)) /\ DOMAIN g = 1..Len(g)
      BY LenProperties
    <2>2. \A k \in 1..i : g[k] \in Text
      BY <2>1, ElementOfSeq
    <2>3. DOMAIN SubSeq(g, 1, i) = 1..i
      BY <2>1, <2>2, SubSeqProperties, LenProperties
    <2>4. CopyLines(g, i) = FlattenSeq(r)
      BY <2>3 DEF CopyLines, Rewritten
    <2>5. r \in Seq(Seq(Text))
      <3>1. \A k \in 1..i : <<g[k]>> \in Seq(Text) /\ <<>> \in Seq(Text)
        BY <2>2
      <3> HIDE DEF InLink
      <3>2. QED
        BY <2>1, <3>1
    <2> HIDE DEF r, part, f, p, q
    <2>6. FlattenSeq(r) \in Seq(Text)
      BY <2>5, FlattenConcat
    <2>7. part(g, i) \in Seq(Text)
      <3> DEFINE lines == CopyLines(g, i)
                 more == IF Occurs(lines, "directories") THEN <<>> ELSE <<"directories">>
      <3>1. {"<Lib>", "directories", "</Lib>", "</Link>"} \subseteq Text
        BY DEF Text, Tags
      <3>2. <<"</Link>", "<Lib>">> \in Seq(Text) /\ <<"</Lib>">> \in Seq(Text)
            /\ more \in Seq(Text)
        BY <3>1
      <3>3. lines \in Seq(Text)
        BY <2>4, <2>6
      <3>4. part(g, i) = IF g[i] # "</Link>" THEN <<g[i]>>
                         ELSE <<"</Link>", "<Lib>">> \o lines \o more \o <<"</Lib>">>
        BY DEF part
      <3> HIDE DEF lines, more, Text
      <3>5. <<"</Link>", "<Lib>">> \o lines \in Seq(Text)
        BY <3>2, <3>3, ConcatProperties
      <3>6. <<"</Link>", "<Lib>">> \o lines \o more \in Seq(Text)
        BY <3>2, <3>5, ConcatProperties
      <3>7. <<"</Link>", "<Lib>">> \o lines \o more \o <<"</Lib>">> \in Seq(Text)
        BY <3>2, <3>6, ConcatProperties
      <3>8. g[i] \in Text
        BY <2>1, <2>2
      <3>9. QED
        BY <3>4, <3>7, <3>8
    <2>8. QED
      BY <2>4, <2>6, <2>7 DEF r
  <1>6. p \in Seq(Seq(Text)) /\ Len(p) = n
    <2>1. \A i \in 1..n : part(h, i) \in Seq(Text)
      BY <1>5 DEF n
    <2> HIDE DEF part, q, Text
    <2>2. QED
      BY <1>1, <2>1
  <1>7. q \in [1..n + m -> Seq(Text)]
    <2>1. \A i \in 1..n + m : part(f, i) \in Seq(Text)
      BY <1>2, <1>5
    <2> HIDE DEF part, p, Text
    <2>2. QED
      BY <1>1, <2>1
  <1>8. ASSUME NEW i \in 1..n PROVE q[i] = p[i]
    <2>1. i \in 1..n + m /\ f[i] = h[i] /\ i \in 1..Len(h) /\ i \in 1..Len(f)
      BY <1>1, <1>2 DEF n
    <2>2. \A k \in 1..i : f[k] = h[k]
      BY <1>1, <1>2
    <2>3. \A k \in 1..i : InLink(f, k) = InLink(h, k)
      <3> SUFFICES ASSUME NEW k \in 1..i PROVE InLink(f, k) = InLink(h, k)
        OBVIOUS
      <3>1. f[k] = h[k] /\ \A j \in 1..k : f[j] = h[j] /\ \A l \in j..k : f[l] = h[l]
        <4>1. /\ k \in 1..i /\ \A j \in 1..k : j \in 1..i
              /\ \A j \in 1..k : \A l \in j..k : l \in 1..i
          BY <2>1
        <4>2. QED
          BY <2>2, <4>1
      <3>2. \A j \in 1..k : (f[j] = "<Link>" /\ \A l \in j..k : f[l] # "</Link>")
                        <=> (h[j] = "<Link>" /\ \A l \in j..k : h[l] # "</Link>")
        BY <3>1
      <3>3. QED
        BY <3>1, <3>2 DEF InLink
    <2>4. [k \in 1..i |-> IF InLink(f, k) THEN <<f[k]>> ELSE <<>>]
            = [k \in 1..i |-> IF InLink(h, k) THEN <<h[k]>> ELSE <<>>]
      <3> HIDE DEF InLink
      <3>1. QED
        BY <2>2, <2>3
    <2>5. CopyLines(f, i) = CopyLines(h, i)
      BY <1>2, <1>5, <2>1, <2>4
    <2>6. part(f, i) = part(h, i)
      BY <2>1, <2>5
    <2> HIDE DEF part
    <2>7. QED
      BY <2>1, <2>6
  <1>9. ASSUME NEW i \in 1..m PROVE q[n + i] = <<t[i]>>
    <2>1. t[i] # "</Link>" /\ n + i \in 1..n + m /\ f[n + i] = t[i]
      <3> HIDE DEF part, p, q
      <3>1. t[i] # "</Link>"
        BY <1>1 DEF Occurs
      <3>2. n + i \in 1..n + m
        BY <1>1
      <3>3. QED
        BY <1>2, <3>1, <3>2
    <2>2. part(f, n + i) = <<t[i]>>
      BY <2>1
    <2> HIDE DEF part
    <2>3. QED
      BY <2>1, <2>2
  <1> HIDE DEF p, q
  <1>10. FlattenSeq(q) = FlattenSeq(p) \o t
    BY <1>6, <1>7, <1>8, <1>9, PartsTail DEF m
  <1>11. QED
    BY <1>4, <1>10 DEF f

\* A sequence of lines is read if each line leads to the next of states.
LEMMA LinesRead ==
    ASSUME NEW a \in Text, NEW f \in Seq(Text), NEW states \in Seq(Text), NEW n \in Nat \ {0},
           Len(f) = n, Len(states) = n,
           \A i \in 1..n : /\ states[i] # "error"
                           /\ states[i] = Inside(IF i = 1 THEN a ELSE states[i - 1], f[i])
    PROVE  \E seen : /\ Reads(a, f, states[n], seen)
                     /\ \A z : z \in seen <=> \E i \in 1..n : z = <<states[i], f[i]>>
  <1> DEFINE s == [i \in 0..n |-> IF i = 0 THEN a ELSE states[i]]
             seen == {<<states[i], f[i]>> : i \in 1..n}
  <1>1. \A i \in 1..n : states[i] \in Text
    BY ElementOfSeq
  <1>2. s \in [0..n -> Text] /\ s[0] = a /\ s[n] = states[n]
    BY <1>1
  <1>3. \A i \in 1..n : s[i] = states[i] /\ s[i - 1] = IF i = 1 THEN a ELSE states[i - 1]
    OBVIOUS
  <1>4. seen = {<<s[i], f[i]>> : i \in 1..n}
    <2> HIDE DEF s
    <2>1. QED
      BY <1>3
  <1>5. \A i \in 1..n : s[i] = Inside(s[i - 1], f[i]) /\ s[i] # "error"
    BY <1>3
  <1>6. \A z : z \in seen <=> \E i \in 1..n : z = <<states[i], f[i]>>
    OBVIOUS
  <1> HIDE DEF s, seen
  <1>7. Reading(s, a, f, states[n], seen)
    BY <1>2, <1>4, <1>5 DEF Reading
  <1>8. Reads(a, f, states[n], seen)
    BY <1>7 DEF Reads
  <1>9. QED
    BY <1>6, <1>8

LEMMA Moves ==
    /\ Inside("<Project>", "<ItemDefinitionGroup>") = "<ItemDefinitionGroup>"
    /\ Inside("<ItemDefinitionGroup>", "</ItemDefinitionGroup>") = "<Project>"
    /\ Inside("<Project>", "<ItemGroup>") = "<ItemGroup>"
    /\ Inside("<ItemGroup>", "</ItemGroup>") = "<Project>"
    /\ Inside("<ItemGroup>", "<ClCompile Include>") = "<ClCompile Include>"
    /\ Inside("<ClCompile Include>", "</ClCompile Include>") = "<ItemGroup>"
    /\ Inside("<ItemDefinitionGroup>", "<ClCompile>") = "<ClCompile>"
    /\ Inside("<ClCompile>", "</ClCompile>") = "<ItemDefinitionGroup>"
    /\ Inside("<ItemDefinitionGroup>", "<Link>") = "<Link>"
    /\ Inside("<Link>", "</Link>") = "<ItemDefinitionGroup>"
    /\ Inside("<ItemDefinitionGroup>", "<ProjectReference>") = "<ProjectReference>"
    /\ Inside("<ProjectReference>", "</ProjectReference>") = "<ItemDefinitionGroup>"
  <1>1. /\ Parent("<ItemDefinitionGroup>") = "<Project>"
        /\ Parent("<ItemGroup>") = "<Project>"
        /\ Parent("<ClCompile Include>") = "<ItemGroup>"
        /\ Parent("<ClCompile>") = "<ItemDefinitionGroup>"
        /\ Parent("<Link>") = "<ItemDefinitionGroup>"
        /\ Parent("<ProjectReference>") = "<ItemDefinitionGroup>"
    BY DEF Parent
  <1>2. /\ Closed("</ItemDefinitionGroup>") = "<ItemDefinitionGroup>"
        /\ Closed("</ItemGroup>") = "<ItemGroup>"
        /\ Closed("</ClCompile Include>") = "<ClCompile Include>"
        /\ Closed("</ClCompile>") = "<ClCompile>"
        /\ Closed("</Link>") = "<Link>"
        /\ Closed("</ProjectReference>") = "<ProjectReference>"
    BY DEF Closed
  <1>3. {"<ItemDefinitionGroup>", "<ItemGroup>", "<ClCompile Include>", "<ClCompile>",
         "<Link>", "<ProjectReference>"} \subseteq Tags
    BY DEF Tags
  <1>4. ASSUME NEW x \in Tags PROVE Inside(Parent(x), x) = x
    BY InsideTag
  <1>5. ASSUME NEW x, Closed(x) # "" PROVE Inside(Closed(x), x) = Parent(Closed(x))
    BY <1>5, InsideEnd
  <1>6. /\ Inside("<Project>", "<ItemDefinitionGroup>") = "<ItemDefinitionGroup>"
        /\ Inside("<Project>", "<ItemGroup>") = "<ItemGroup>"
        /\ Inside("<ItemGroup>", "<ClCompile Include>") = "<ClCompile Include>"
    BY <1>1, <1>3, <1>4
  <1>7. /\ Inside("<ItemDefinitionGroup>", "<ClCompile>") = "<ClCompile>"
        /\ Inside("<ItemDefinitionGroup>", "<Link>") = "<Link>"
        /\ Inside("<ItemDefinitionGroup>", "<ProjectReference>") = "<ProjectReference>"
    BY <1>1, <1>3, <1>4
  <1>8. /\ Inside("<ItemDefinitionGroup>", "</ItemDefinitionGroup>") = "<Project>"
        /\ Inside("<ItemGroup>", "</ItemGroup>") = "<Project>"
        /\ Inside("<ClCompile Include>", "</ClCompile Include>") = "<ItemGroup>"
    BY <1>1, <1>2, <1>5
  <1>9. /\ Inside("<ClCompile>", "</ClCompile>") = "<ItemDefinitionGroup>"
        /\ Inside("<Link>", "</Link>") = "<ItemDefinitionGroup>"
        /\ Inside("<ProjectReference>", "</ProjectReference>") = "<ItemDefinitionGroup>"
    BY <1>1, <1>2, <1>5
  <1>10. QED
    BY <1>6, <1>7, <1>8, <1>9

\* The lines that are no tags.
Settings ==
    {"DynamicLibrary", "StaticLibrary", ".pyd", ".lib", "includes", "defines",
     "core;defines", "libraries", "directories", "LinkLibraryDependencies",
     "libffi-7.lib", "libffi-8.lib", "libffi.lib", "dll libffi-7", "dll libffi-8",
     "copy rules", "legacy copy rules", "libcrypto.lib;libssl.lib",
     "libcrypto_static.lib;libssl_static.lib"}

LEMMA SettingsPlain == \A x \in Settings : Plain(x)
  <1> SUFFICES ASSUME NEW x \in Settings PROVE Plain(x)
    OBVIOUS
  <1>1. x \in Text /\ x \notin Tags
    BY DEF Settings, Text, Tags
  <1>2. Closed(x) = ""
    BY DEF Settings, Closed
  <1>3. QED
    BY <1>1, <1>2 DEF Plain

\* Edits of lines that are no tags, as a set of what is seen.
LEMMA SettingsReplaced ==
    ASSUME NEW a, NEW f, NEW b, NEW seen, Reads(a, f, b, seen),
           NEW x \in Settings, NEW by \in Seq(Settings)
    PROVE  \E seen1 :
            /\ Reads(a, Substituted(f, x, by), b, seen1)
            /\ \A in, y : <<in, y>> \in seen1 <=>
                \/ y # x /\ <<in, y>> \in seen
                \/ <<in, x>> \in seen /\ \E k \in 1..Len(by) : y = by[k]
  <1>1. Settings \subseteq Text
    <2> SUFFICES ASSUME NEW z \in Settings PROVE z \in Text
      OBVIOUS
    <2>1. Plain(z)
      BY SettingsPlain
    <2>2. QED
      BY <2>1 DEF Plain
  <1>2. by \in Seq(Text) /\ \A k \in 1..Len(by) : by[k] \in Settings
    BY <1>1, SeqMonotonic, ElementOfSeq
  <1>3. Plain(x) /\ \A k \in 1..Len(by) : Plain(by[k])
    BY <1>2, SettingsPlain
  <1> HIDE DEF Settings, Text
  <1>4. QED
    BY <1>2, <1>3, ReplacedRead

\* A line that is no tag may stand anywhere.
LEMMA SettingInserted ==
    ASSUME NEW a, a # "error", NEW f, NEW b, NEW seen, Reads(a, f, b, seen),
           NEW m \in 0..Len(f), NEW x \in Settings
    PROVE  \E seen1 : /\ Reads(a, InsertedAfter(f, m, <<x>>), b, seen1)
                      /\ seen \subseteq seen1
  <1>1. PICK c, seen1, seen2 :
            /\ c \in Text
            /\ Reads(a, SubSeq(f, 1, m), c, seen1)
            /\ Reads(c, SubSeq(f, m + 1, Len(f)), b, seen2)
            /\ seen = seen1 \cup seen2
            /\ c # "error"
    <2>1. PICK c, seen1, seen2 :
            /\ c \in Text
            /\ Reads(a, SubSeq(f, 1, m), c, seen1)
            /\ Reads(c, SubSeq(f, m + 1, Len(f)), b, seen2)
            /\ seen = seen1 \cup seen2
            /\ m = 0 => c = a
            /\ m # 0 => <<c, f[m]>> \in seen /\ c # "error" /\ (f[m] \in Tags => c = f[m])
      BY ReadsSplit
    <2>2. QED
      BY <2>1
  <1>2. Plain(x) /\ x \in Text
    BY SettingsPlain DEF Plain
  <1>3. Reads(c, <<x>>, c, {<<c, x>>})
    BY <1>1, <1>2, InsidePlain, ReadsLine DEF Plain
  <1> HIDE DEF Reads
  <1>4. Reads(a, SubSeq(f, 1, m) \o <<x>>, c, seen1 \cup {<<c, x>>})
    BY <1>1, <1>3, ReadsOn
  <1>5. Reads(a, SubSeq(f, 1, m) \o <<x>> \o SubSeq(f, m + 1, Len(f)), b,
              (seen1 \cup {<<c, x>>}) \cup seen2)
    BY <1>1, <1>4, ReadsOn
  <1>6. QED
    BY <1>1, <1>5 DEF InsertedAfter

LEMMA ReadsTwo ==
    ASSUME NEW a \in Text, NEW x \in Text, NEW y \in Text, NEW b, NEW c,
           b = Inside(a, x), b # "error", c = Inside(b, y), c # "error"
    PROVE  Reads(a, <<x, y>>, c, {<<b, x>>, <<c, y>>})
  <1>1. b \in Text /\ c \in Text
    BY InsideType
  <1>2. Reads(a, <<x>>, b, {<<b, x>>}) /\ Reads(b, <<y>>, c, {<<c, y>>})
    BY <1>1, ReadsLine
  <1> HIDE DEF Reads
  <1>3. Reads(a, <<x>> \o <<y>>, c, {<<b, x>>} \cup {<<c, y>>})
    BY <1>2, ReadsOn
  <1>4. {<<b, x>>} \cup {<<c, y>>} = {<<b, x>>, <<c, y>>}
    OBVIOUS
  <1>5. QED
    BY <1>3, <1>4, TwoLines

LEMMA ThreeLines ==
    ASSUME NEW x \in Text, NEW y \in Text, NEW z \in Text
    PROVE  <<x>> \o <<y, z>> = <<x, y, z>>
  <1>1. <<y, z>> \in Seq(Text) /\ Len(<<y, z>>) = 2 /\ <<y, z>>[1] = y /\ <<y, z>>[2] = z
    OBVIOUS
  <1> DEFINE f == <<x>> \o <<y, z>>
             g == <<x, y, z>>
             t == <<y, z>>
  <1>2. g \in Seq(Text) /\ Len(g) = 3 /\ g[1] = x /\ g[2] = y /\ g[3] = z
    OBVIOUS
  <1> HIDE DEF g, t
  <1>3. <<x>> \o t \in Seq(Text) /\ Len(<<x>> \o t) = Len(t) + 1 /\ (<<x>> \o t)[1] = x
        /\ \A i \in 1..Len(t) : (<<x>> \o t)[i + 1] = t[i]
    BY <1>1, Line DEF t
  <1>4. Len(t) = 2 /\ t[1] = y /\ t[2] = z /\ f = <<x>> \o t
    BY <1>1 DEF t
  <1> HIDE DEF f
  <1>5. f \in Seq(Text) /\ Len(f) = 3 /\ f[1] = x /\ f[1 + 1] = y /\ f[2 + 1] = z
    BY <1>3, <1>4
  <1>6. \A i \in 1..3 : i = 1 \/ i = 1 + 1 \/ i = 2 + 1
    OBVIOUS
  <1>7. f[2] = y /\ f[3] = z
    BY <1>5
  <1>8. \A i \in 1..Len(f) : f[i] = g[i]
    BY <1>2, <1>5, <1>6, <1>7
  <1> HIDE DEF Text
  <1>9. f = g
    BY <1>2, <1>5, <1>8, SeqEqual
  <1>10. QED
    BY <1>9 DEF f, g

LEMMA ReadsThree ==
    ASSUME NEW a \in Text, NEW x \in Text, NEW y \in Text, NEW z \in Text,
           NEW b, NEW c, NEW d, b = Inside(a, x), b # "error",
           c = Inside(b, y), c # "error", d = Inside(c, z), d # "error"
    PROVE  Reads(a, <<x, y, z>>, d, {<<b, x>>, <<c, y>>, <<d, z>>})
  <1>1. b \in Text
    BY InsideType
  <1>2. Reads(a, <<x>>, b, {<<b, x>>}) /\ Reads(b, <<y, z>>, d, {<<c, y>>, <<d, z>>})
    BY <1>1, ReadsLine, ReadsTwo
  <1> HIDE DEF Reads
  <1>3. Reads(a, <<x>> \o <<y, z>>, d, {<<b, x>>} \cup {<<c, y>>, <<d, z>>})
    BY <1>2, ReadsOn
  <1>4. {<<b, x>>} \cup {<<c, y>>, <<d, z>>} = {<<b, x>>, <<c, y>>, <<d, z>>}
    OBVIOUS
  <1>5. QED
    BY <1>3, <1>4, ThreeLines

\* copy_link_to_lib and what it does to the sections of a sheet.
LEMMA SectionLines ==
    ASSUME NEW f, NEW seen, Reads("<Project>", f, "<Project>", seen), NEW x,
           x \notin {"<Link>", "<Lib>"}, <<"<Link>", x>> \in seen, <<"<Lib>", x>> \in seen
    PROVE  x \in Section(f, "<Link>", "</Link>") /\ x \in Section(f, "<Lib>", "</Lib>")
  <1>1. \A y : y \in Section(f, "<Link>", "</Link>") <=> y # "<Link>" /\ <<"<Link>", y>> \in seen
    BY SectionRead
  <1>2. \A y : y \in Section(f, "<Lib>", "</Lib>") <=> y # "<Lib>" /\ <<"<Lib>", y>> \in seen
    BY SectionRead
  <1>3. QED
    BY <1>1, <1>2

LEMMA MinIs ==
    ASSUME NEW S \in SUBSET Nat, S # {}
    PROVE  Min(S) \in S /\ \A x \in S : Min(S) <= x
  <1>1. \E k \in S : \A j \in S : k <= j
    BY Least
  <1>2. QED
    BY <1>1, Zenon DEF Min

-----------------------------------------------------------------------------
(* The files of a build.                                                   *)

\* In both sections of what is seen.
Linked(seen, x) == <<"<Link>", x>> \in seen /\ <<"<Lib>", x>> \in seen

\* All of seen but the line x is in seen1.
Kept(seen, seen1, x) == \A in, y : y # x /\ <<in, y>> \in seen => <<in, y>> \in seen1

LEMMA LibffiRead ==
    \E seen :
        /\ Reads("<Project>", libffi_props_file, "<Project>", seen)
        /\ <<"<Link>", "directories">> \in seen
        /\ IF job.minor <= 10
           THEN /\ <<"<Link>", "libffi-7.lib">> \in seen
                /\ <<"<Project>", "dll libffi-7">> \in seen
           ELSE <<"<Link>", "libffi-8.lib">> \in seen
  <1> DEFINE dll == IF job.minor <= 10 THEN "dll libffi-7" ELSE "dll libffi-8"
             lib == IF job.minor <= 10 THEN "libffi-7.lib" ELSE "libffi-8.lib"
             group == "<ItemDefinitionGroup>"
  <1>1. libffi_props_file = <<group, "<Link>", "directories">> \o <<lib>>
            \o <<"</Link>", "</ItemDefinitionGroup>">> \o <<dll>> \o <<"copy rules">>
    <2>1. CASE job.minor <= 10
      BY <2>1 DEF libffi_props_file
    <2>2. CASE ~(job.minor <= 10)
      BY <2>2 DEF libffi_props_file
    <2>3. QED
      BY <2>1, <2>2
  <1>2. {dll, lib, "directories", "copy rules"} \subseteq Settings
    BY DEF Settings
  <1>3. /\ {group, "<Link>", "</Link>", "</ItemDefinitionGroup>", "<Project>"} \subseteq Text
        /\ group # "error"
    BY DEF Text, Tags
  <1> HIDE DEF dll, lib, group
  <1>4. ASSUME NEW x \in {dll, lib, "directories", "copy rules"}
        PROVE  x \in Text /\ \A in : Inside(in, x) = in
    <2>1. Plain(x)
      BY <1>2, SettingsPlain
    <2>2. QED
      BY <2>1, InsidePlain DEF Plain
  <1>5. Reads("<Project>", <<group, "<Link>", "directories">>, "<Link>",
              {<<group, group>>, <<"<Link>", "<Link>">>, <<"<Link>", "directories">>})
    BY <1>3, <1>4, Moves, ReadsThree DEF group
  <1>6. Reads("<Link>", <<lib>>, "<Link>", {<<"<Link>", lib>>})
    BY <1>3, <1>4, ReadsLine
  <1>7. Reads("<Link>", <<"</Link>", "</ItemDefinitionGroup>">>, "<Project>",
              {<<group, "</Link>">>, <<"<Project>", "</ItemDefinitionGroup>">>})
    BY <1>3, Moves, ReadsTwo DEF group
  <1>8. /\ Reads("<Project>", <<dll>>, "<Project>", {<<"<Project>", dll>>})
        /\ Reads("<Project>", <<"copy rules">>, "<Project>", {<<"<Project>", "copy rules">>})
    BY <1>3, <1>4, ReadsLine
  <1> HIDE DEF Reads
  <1> DEFINE s1 == {<<group, group>>, <<"<Link>", "<Link>">>, <<"<Link>", "directories">>}
             s2 == {<<"<Link>", lib>>}
             s3 == {<<group, "</Link>">>, <<"<Project>", "</ItemDefinitionGroup>">>}
             s4 == {<<"<Project>", dll>>}
             s5 == {<<"<Project>", "copy rules">>}
             seen == s1 \cup s2 \cup s3 \cup s4 \cup s5
  <1>9. Reads("<Project>", libffi_props_file, "<Project>", seen)
    <2> HIDE DEF s1, s2, s3, s4, s5
    <2>1. Reads("<Project>", <<group, "<Link>", "directories">> \o <<lib>>, "<Link>", s1 \cup s2)
      BY <1>5, <1>6, ReadsOn DEF s1, s2
    <2>2. Reads("<Project>", <<group, "<Link>", "directories">> \o <<lib>>
                \o <<"</Link>", "</ItemDefinitionGroup>">>, "<Project>", s1 \cup s2 \cup s3)
      BY <1>7, <2>1, ReadsOn DEF s3
    <2>3. Reads("<Project>", <<group, "<Link>", "directories">> \o <<lib>>
                \o <<"</Link>", "</ItemDefinitionGroup>">> \o <<dll>>, "<Project>",
                s1 \cup s2 \cup s3 \cup s4)
      BY <1>8, <2>2, ReadsOn DEF s4
    <2>4. QED
      BY <1>1, <1>8, <2>3, ReadsOn DEF s5
  <1>10. /\ <<"<Link>", "directories">> \in seen /\ <<"<Link>", lib>> \in seen
         /\ <<"<Project>", dll>> \in seen
    OBVIOUS
  <1> HIDE DEF seen
  <1>11. QED
    BY <1>9, <1>10 DEF lib, dll

\* An edit keeps what is linked, under its new name.
LEMMA Renamed ==
    ASSUME NEW f, NEW seen, Reads("<Project>", f, "<Project>", seen),
           NEW x \in Settings, NEW y \in Settings
    PROVE  \E seen1 :
            /\ Reads("<Project>", Substituted(f, x, <<y>>), "<Project>", seen1)
            /\ \A z : z # x /\ Linked(seen, z) => Linked(seen1, z)
            /\ Linked(seen, x) => Linked(seen1, y)
  <1> DEFINE by == <<y>>
  <1>1. by \in Seq(Settings) /\ Len(by) = 1 /\ by[1] = y
    OBVIOUS
  <1> HIDE DEF by
  <1>2. PICK seen1 :
            /\ Reads("<Project>", Substituted(f, x, by), "<Project>", seen1)
            /\ \A in, z : <<in, z>> \in seen1 <=>
                \/ z # x /\ <<in, z>> \in seen
                \/ <<in, x>> \in seen /\ \E k \in 1..Len(by) : z = by[k]
    BY <1>1, SettingsReplaced
  <1>3. \E k \in 1..Len(by) : y = by[k]
    BY <1>1
  <1>4. \A z : z # x /\ Linked(seen, z) => Linked(seen1, z)
    BY <1>2 DEF Linked
  <1>5. Linked(seen, x) => Linked(seen1, y)
    BY <1>2, <1>3 DEF Linked
  <1> HIDE DEF Reads, Linked
  <1>6. QED
    BY <1>2, <1>4, <1>5, Zenon DEF by

LEMMA Deleted ==
    ASSUME NEW f, NEW seen, Reads("<Project>", f, "<Project>", seen), NEW x \in Settings
    PROVE  \E seen1 : /\ Reads("<Project>", Substituted(f, x, <<>>), "<Project>", seen1)
                      /\ Kept(seen, seen1, x)
  <1> DEFINE by == <<>>
  <1>1. by \in Seq(Settings)
    OBVIOUS
  <1> HIDE DEF by
  <1>2. PICK seen1 :
            /\ Reads("<Project>", Substituted(f, x, by), "<Project>", seen1)
            /\ \A in, z : <<in, z>> \in seen1 <=>
                \/ z # x /\ <<in, z>> \in seen
                \/ <<in, x>> \in seen /\ \E k \in 1..Len(by) : z = by[k]
    BY <1>1, SettingsReplaced
  <1>3. Kept(seen, seen1, x)
    BY <1>2 DEF Kept
  <1> HIDE DEF Reads, Kept
  <1>4. QED
    BY <1>2, <1>3, Zenon DEF by

LEMMA LibffiSheet ==
    ASSUME libffi_props(libffi_props_file) # Failed
    PROVE  \A tags \in {<<"<Link>", "</Link>">>, <<"<Lib>", "</Lib>">>} :
            {"libffi.lib", "directories"} \subseteq
                Section(libffi_props(libffi_props_file), tags[1], tags[2])
  <1> DEFINE f1 == copy_link_to_lib(libffi_props_file)
             f2 == Libffi8(f1)
             f3 == static_replace_in_file(f2, "libffi-8.lib", <<"libffi.lib">>)
             f4 == static_replace_in_file(f3, "copy rules", <<>>)
             f5 == WithSearchPath(f4)
             Read(f, seen) == Reads("<Project>", f, "<Project>", seen)
  <1>0. libffi_props(libffi_props_file) = f5
    BY DEF libffi_props
  <1>1. PICK seen0 :
            /\ Read(libffi_props_file, seen0)
            /\ <<"<Link>", "directories">> \in seen0
            /\ IF job.minor <= 10
               THEN /\ <<"<Link>", "libffi-7.lib">> \in seen0
                    /\ <<"<Project>", "dll libffi-7">> \in seen0
               ELSE <<"<Link>", "libffi-8.lib">> \in seen0
    BY LibffiRead
  <1>2. PICK seen1 :
            /\ Read(f1, seen1)
            /\ Linked(seen1, "directories")
            /\ IF job.minor <= 10
               THEN /\ Linked(seen1, "libffi-7.lib")
                    /\ <<"<Project>", "dll libffi-7">> \in seen1
               ELSE Linked(seen1, "libffi-8.lib")
    <2>1. PICK seen1 :
            /\ Reads("<Project>", copy_link_to_lib(libffi_props_file), "<Project>", seen1)
            /\ seen0 \subseteq seen1
            /\ \A in, y : <<in, y>> \in seen1 =>
                \/ <<in, y>> \in seen0
                \/ in = "<Lib>" /\ y \in {"<Lib>", "directories"}
                \/ in = "<Lib>" /\ y # "<Link>" /\ <<"<Link>", y>> \in seen0
                \/ in = "<ItemDefinitionGroup>" /\ y = "</Lib>"
            /\ \A y : y # "<Link>" /\ <<"<Link>", y>> \in seen0 => <<"<Lib>", y>> \in seen1
      BY <1>1, CopyRead
    <2> HIDE DEF Reads
    <2>2. QED
      BY <1>1, <2>1 DEF Linked
  <1>3. /\ "dll libffi-7" \in Settings /\ "dll libffi-8" \in Settings
        /\ "libffi-7.lib" \in Settings /\ "libffi-8.lib" \in Settings
        /\ "libffi.lib" \in Settings /\ "directories" \in Settings
        /\ "copy rules" \in Settings
    BY DEF Settings
  <1> HIDE DEF f1, Settings
  <1>5. PICK seen2 : Read(f2, seen2) /\ Linked(seen2, "directories")
                     /\ Linked(seen2, "libffi-8.lib")
    <2>1. CASE Occurs(f1, "dll libffi-7")
      <3> DEFINE g == Substituted(f1, "dll libffi-7", <<"dll libffi-8">>)
      <3>1. PICK seen2 :
              /\ Read(g, seen2)
              /\ \A z : z # "dll libffi-7" /\ Linked(seen1, z) => Linked(seen2, z)
        <4>1. PICK seen2 :
            /\ Reads("<Project>", Substituted(f1, "dll libffi-7", <<"dll libffi-8">>),
                     "<Project>", seen2)
            /\ \A z : z # "dll libffi-7" /\ Linked(seen1, z) => Linked(seen2, z)
            /\ Linked(seen1, "dll libffi-7") => Linked(seen2, "dll libffi-8")
          BY <1>2, <1>3, Renamed, Zenon
        <4>2. QED
          BY <4>1, Zenon
      <3>2. f2 = Optionally(g, "libffi-7.lib", <<"libffi-8.lib">>)
        BY <2>1 DEF Libffi8
      <3>3. Linked(seen2, "directories")
        BY <1>2, <3>1
      <3> HIDE DEF g
      <3>4. CASE Occurs(g, "libffi-7.lib")
        <4>1. f2 = Substituted(g, "libffi-7.lib", <<"libffi-8.lib">>)
          BY <3>2, <3>4 DEF Optionally
        <4>2. PICK seen3 :
                /\ Read(f2, seen3)
                /\ \A z : z # "libffi-7.lib" /\ Linked(seen2, z) => Linked(seen3, z)
                /\ Linked(seen2, "libffi-7.lib") => Linked(seen3, "libffi-8.lib")
          <5> HIDE DEF Reads, f2
          <5>1. PICK seen3 :
            /\ Reads("<Project>", Substituted(g, "libffi-7.lib", <<"libffi-8.lib">>),
                     "<Project>", seen3)
            /\ \A z : z # "libffi-7.lib" /\ Linked(seen2, z) => Linked(seen3, z)
            /\ Linked(seen2, "libffi-7.lib") => Linked(seen3, "libffi-8.lib")
            BY <1>3, <3>1, Renamed, Zenon
          <5>2. QED
            BY <4>1, <5>1, Zenon
        <4>3. Linked(seen3, "directories")
          BY <3>3, <4>2
        <4>4. Linked(seen2, "libffi-7.lib") \/ Linked(seen2, "libffi-8.lib")
          BY <1>2, <3>1
        <4>5. Linked(seen3, "libffi-8.lib")
          BY <4>2, <4>4
        <4> HIDE DEF Reads, f2
        <4>6. QED
          BY <4>2, <4>3, <4>5
      <3>5. CASE ~Occurs(g, "libffi-7.lib")
        <4>1. f2 = g
          BY <3>2, <3>5 DEF Optionally
        <4>2. ~Linked(seen2, "libffi-7.lib")
          BY <3>1, <3>5, OccursRead DEF Linked
        <4>3. Linked(seen2, "libffi-8.lib")
          BY <1>2, <3>1, <4>2
        <4> HIDE DEF Reads, f2
        <4>4. QED
          BY <3>1, <3>3, <4>1, <4>3
      <3>6. QED
        BY <3>4, <3>5
    <2>2. CASE ~Occurs(f1, "dll libffi-7")
      <3>1. f2 = f1
        BY <2>2 DEF Libffi8
      <3>2. ~(job.minor <= 10)
        BY <1>2, <2>2, OccursRead
      <3> HIDE DEF Reads, f2
      <3>3. QED
        BY <1>2, <3>1, <3>2
    <2>3. QED
      BY <2>1, <2>2
  <1> HIDE DEF f2
  <1>6. PICK seen3 : Read(f3, seen3) /\ Linked(seen3, "directories")
                     /\ Linked(seen3, "libffi.lib")
    <2>1. Occurs(f2, "libffi-8.lib")
      BY <1>5, OccursRead DEF Linked
    <2>2. f3 = Substituted(f2, "libffi-8.lib", <<"libffi.lib">>)
      BY <2>1 DEF static_replace_in_file
    <2> HIDE DEF f3, Reads
    <2>3. PICK seen3 :
            /\ Reads("<Project>", Substituted(f2, "libffi-8.lib", <<"libffi.lib">>),
                     "<Project>", seen3)
            /\ \A z : z # "libffi-8.lib" /\ Linked(seen2, z) => Linked(seen3, z)
            /\ Linked(seen2, "libffi-8.lib") => Linked(seen3, "libffi.lib")
      BY <1>3, <1>5, Renamed, Zenon
    <2>4. Linked(seen3, "directories") /\ Linked(seen3, "libffi.lib")
      BY <1>5, <2>3
    <2>5. Read(f3, seen3)
      BY <2>2, <2>3, Zenon
    <2> HIDE DEF Read
    <2>6. QED
      BY <2>4, <2>5
  <1> HIDE DEF f3
  <1>7. f4 # Failed
    <2> SUFFICES ASSUME f4 = Failed PROVE FALSE
      OBVIOUS
    <2>1. {i \in Positions(f4, "libffi.lib") : f4[i + 1] = "</Lib>"} = {}
      <3> HIDE DEF f4
      <3>1. QED
        BY DEF Positions, Failed
    <2> HIDE DEF f4
    <2>2. f5 = Failed
      BY <2>1 DEF WithSearchPath
    <2>3. QED
      BY <1>0, <2>2
  <1>8. PICK seen4 : Read(f4, seen4) /\ Linked(seen4, "directories")
                     /\ Linked(seen4, "libffi.lib")
    <2>1. f4 = Substituted(f3, "copy rules", <<>>)
      BY <1>7 DEF static_replace_in_file
    <2> HIDE DEF f4, Reads
    <2>2. PICK seen4 :
            /\ Reads("<Project>", Substituted(f3, "copy rules", <<>>), "<Project>", seen4)
            /\ Kept(seen3, seen4, "copy rules")
      BY <1>3, <1>6, Deleted, Zenon
    <2>3. Linked(seen4, "directories") /\ Linked(seen4, "libffi.lib")
      BY <1>6, <2>2 DEF Kept, Linked
    <2>4. Read(f4, seen4)
      BY <2>1, <2>2, Zenon
    <2> HIDE DEF Read
    <2>5. QED
      BY <2>3, <2>4
  <1> HIDE DEF f4
  <1>9. PICK seen5 : Read(f5, seen5) /\ Linked(seen5, "directories")
                     /\ Linked(seen5, "libffi.lib")
    <2> DEFINE last == {i \in Positions(f4, "libffi.lib") : f4[i + 1] = "</Lib>"}
    <2>1. last # {} /\ f5 = InsertedAfter(f4, Min(last), <<"directories">>)
      BY <1>0 DEF WithSearchPath
    <2>2. f4 \in Seq(Text) /\ DOMAIN f4 = 1..Len(f4) /\ Len(f4) \in Nat
      BY <1>8, LenProperties DEF Reads
    <2>3. last \subseteq 1..Len(f4)
      BY <2>2 DEF Positions
    <2> HIDE DEF last, f5
    <2>4. last \in SUBSET Nat
      BY <2>2, <2>3
    <2>5. Min(last) \in 0..Len(f4)
      <3>1. Min(last) \in last
        BY <2>1, <2>4, MinIs
      <3>2. Min(last) \in 1..Len(f4)
        BY <2>3, <3>1
      <3>3. \A k \in 1..Len(f4) : k \in 0..Len(f4)
        BY <2>2
      <3>4. QED
        BY <3>2, <3>3
    <2>6. "<Project>" # "error"
      OBVIOUS
    <2>7. PICK seen5 : /\ Read(InsertedAfter(f4, Min(last), <<"directories">>), seen5)
                       /\ seen4 \subseteq seen5
      BY <1>3, <1>8, <2>5, <2>6, SettingInserted
    <2> HIDE DEF Reads
    <2>8. QED
      BY <1>8, <2>1, <2>7 DEF Linked
  <1> HIDE DEF f5
  <1>10. ASSUME NEW x \in {"directories", "libffi.lib"}
         PROVE  x \in Section(f5, "<Link>", "</Link>") /\ x \in Section(f5, "<Lib>", "</Lib>")
    BY <1>9, SectionLines DEF Linked
  <1>11. QED
    BY <1>0, <1>10

LEMMA OpensslRead ==
    \E seen :
        /\ Reads("<Project>", openssl_props_file, "<Project>", seen)
        /\ <<"<Link>", "libcrypto.lib;libssl.lib">> \in seen
        /\ \/ <<"<Project>", "copy rules">> \in seen
           \/ <<"<Project>", "legacy copy rules">> \in seen
  <1> DEFINE rules == IF job.minor <= 10 THEN "legacy copy rules" ELSE "copy rules"
             group == "<ItemDefinitionGroup>"
             lib == "libcrypto.lib;libssl.lib"
  <1>1. openssl_props_file = <<group, "<Link>", "directories", lib, "</Link>",
                               "</ItemDefinitionGroup>", rules>>
    BY DEF openssl_props_file
  <1>2. {rules, lib, "directories"} \subseteq Settings
    BY DEF Settings
  <1>3. {group, "<Link>", "</Link>", "</ItemDefinitionGroup>", "<Project>"} \subseteq Text
    BY DEF Text, Tags
  <1>4. ASSUME NEW x \in {rules, lib, "directories"}
        PROVE  x \in Text /\ \A in : Inside(in, x) = in
    <2>1. Plain(x)
      BY <1>2, SettingsPlain
    <2>2. QED
      BY <2>1, InsidePlain DEF Plain
  <1>5. rules \in {"copy rules", "legacy copy rules"}
    OBVIOUS
  <1> HIDE DEF rules, lib
  <1> DEFINE f == <<group, "<Link>", "directories", lib, "</Link>",
                    "</ItemDefinitionGroup>", rules>>
             states == <<group, "<Link>", "<Link>", "<Link>", group, "<Project>", "<Project>">>
  <1>6. f \in Seq(Text) /\ states \in Seq(Text) /\ Len(f) = 7 /\ Len(states) = 7
    BY <1>3, <1>4
  <1>7. /\ f[1] = group /\ f[2] = "<Link>" /\ f[3] = "directories" /\ f[4] = lib
        /\ f[5] = "</Link>" /\ f[6] = "</ItemDefinitionGroup>" /\ f[7] = rules
    OBVIOUS
  <1>8. /\ states[1] = group /\ states[2] = "<Link>" /\ states[3] = "<Link>"
        /\ states[4] = "<Link>" /\ states[5] = group /\ states[6] = "<Project>"
        /\ states[7] = "<Project>"
    OBVIOUS
  <1>9. /\ Inside("<Project>", group) = group /\ Inside(group, "<Link>") = "<Link>"
        /\ Inside("<Link>", "</Link>") = group
        /\ Inside(group, "</ItemDefinitionGroup>") = "<Project>"
        /\ group # "error"
    BY Moves
  <1> HIDE DEF f, states, group
  <1>10. ASSUME NEW i \in 1..7
         PROVE  /\ states[i] # "error"
                /\ states[i] = Inside(IF i = 1 THEN "<Project>" ELSE states[i - 1], f[i])
    <2>1. CASE i = 1
      BY <1>7, <1>8, <1>9, <2>1
    <2>2. CASE i = 2
      <3>1. i - 1 = 1
        BY <2>2
      <3>2. QED
        BY <1>7, <1>8, <1>9, <2>2, <3>1
    <2>3. CASE i = 3
      <3>1. i - 1 = 2
        BY <2>3
      <3>2. QED
        BY <1>4, <1>7, <1>8, <2>3, <3>1
    <2>4. CASE i = 4
      <3>1. i - 1 = 3
        BY <2>4
      <3>2. QED
        BY <1>4, <1>7, <1>8, <2>4, <3>1
    <2>5. CASE i = 5
      <3>1. i - 1 = 4
        BY <2>5
      <3>2. QED
        BY <1>7, <1>8, <1>9, <2>5, <3>1
    <2>6. CASE i = 6
      <3>1. i - 1 = 5
        BY <2>6
      <3>2. QED
        BY <1>7, <1>8, <1>9, <2>6, <3>1
    <2>7. CASE i = 7
      <3>1. i - 1 = 6
        BY <2>7
      <3>2. QED
        BY <1>4, <1>7, <1>8, <2>7, <3>1
    <2>8. QED
      BY <2>1, <2>2, <2>3, <2>4, <2>5, <2>6, <2>7
  <1>11. "<Project>" \in Text /\ 7 \in Nat \ {0}
    BY <1>3
  <1>12. PICK seen : /\ Reads("<Project>", f, states[7], seen)
                     /\ \A z : z \in seen <=> \E i \in 1..7 : z = <<states[i], f[i]>>
    BY <1>6, <1>10, <1>11, LinesRead
  <1>13. <<"<Link>", lib>> \in seen /\ <<"<Project>", rules>> \in seen
    BY <1>7, <1>8, <1>12
  <1>14. Reads("<Project>", openssl_props_file, "<Project>", seen)
    BY <1>1, <1>8, <1>12 DEF f
  <1> HIDE DEF Reads
  <1>15. QED
    BY <1>5, <1>13, <1>14 DEF lib

LEMMA OpensslSheet ==
    ASSUME openssl_props(openssl_props_file) # Failed
    PROVE  \A tags \in {<<"<Link>", "</Link>">>, <<"<Lib>", "</Lib>">>} :
            "libcrypto_static.lib;libssl_static.lib" \in
                Section(openssl_props(openssl_props_file), tags[1], tags[2])
  <1> DEFINE f0 == openssl_props_file
             f1 == IF Occurs(f0, "copy rules") THEN Substituted(f0, "copy rules", <<>>)
                   ELSE static_replace_in_file(f0, "legacy copy rules", <<>>)
             f2 == copy_link_to_lib(f1)
             old == "libcrypto.lib;libssl.lib"
             new == "libcrypto_static.lib;libssl_static.lib"
             f3 == static_replace_in_file(f2, old, <<new>>)
             Read(f, seen) == Reads("<Project>", f, "<Project>", seen)
  <1>0. openssl_props(f0) = f3
    BY DEF openssl_props
  <1>1. PICK seen0 :
            /\ Read(f0, seen0)
            /\ <<"<Link>", old>> \in seen0
            /\ \/ <<"<Project>", "copy rules">> \in seen0
               \/ <<"<Project>", "legacy copy rules">> \in seen0
    BY OpensslRead
  <1>2. /\ "copy rules" \in Settings /\ "legacy copy rules" \in Settings
        /\ old \in Settings /\ new \in Settings
    BY DEF Settings
  <1> HIDE DEF f0, Settings
  <1>3. PICK seen1 : Read(f1, seen1) /\ <<"<Link>", old>> \in seen1
    <2>1. CASE Occurs(f0, "copy rules")
      <3>1. f1 = Substituted(f0, "copy rules", <<>>)
        BY <2>1
      <3> HIDE DEF f1, Reads
      <3>2. PICK seen1 :
              /\ Reads("<Project>", Substituted(f0, "copy rules", <<>>), "<Project>", seen1)
              /\ Kept(seen0, seen1, "copy rules")
        BY <1>1, <1>2, Deleted, Zenon
      <3>3. <<"<Link>", old>> \in seen1
        BY <1>1, <3>2 DEF Kept
      <3>4. Read(f1, seen1)
        BY <3>1, <3>2, Zenon
      <3> HIDE DEF Read, old
      <3>5. QED
        BY <3>3, <3>4
    <2>2. CASE ~Occurs(f0, "copy rules")
      <3>1. Occurs(f0, "legacy copy rules")
        BY <1>1, <2>2, OccursRead
      <3>2. f1 = Substituted(f0, "legacy copy rules", <<>>)
        BY <2>2, <3>1 DEF static_replace_in_file
      <3> HIDE DEF f1, Reads
      <3>3. PICK seen1 :
              /\ Reads("<Project>", Substituted(f0, "legacy copy rules", <<>>), "<Project>",
                       seen1)
              /\ Kept(seen0, seen1, "legacy copy rules")
        BY <1>1, <1>2, Deleted, Zenon
      <3>4. <<"<Link>", old>> \in seen1
        BY <1>1, <3>3 DEF Kept
      <3>5. Read(f1, seen1)
        BY <3>2, <3>3, Zenon
      <3> HIDE DEF Read, old
      <3>6. QED
        BY <3>4, <3>5
    <2>3. QED
      BY <2>1, <2>2
  <1> HIDE DEF f1
  <1>4. PICK seen2 : Read(f2, seen2) /\ Linked(seen2, old)
    <2>1. PICK seen2 :
            /\ Reads("<Project>", copy_link_to_lib(f1), "<Project>", seen2)
            /\ seen1 \subseteq seen2
            /\ \A in, y : <<in, y>> \in seen2 =>
                \/ <<in, y>> \in seen1
                \/ in = "<Lib>" /\ y \in {"<Lib>", "directories"}
                \/ in = "<Lib>" /\ y # "<Link>" /\ <<"<Link>", y>> \in seen1
                \/ in = "<ItemDefinitionGroup>" /\ y = "</Lib>"
            /\ \A y : y # "<Link>" /\ <<"<Link>", y>> \in seen1 => <<"<Lib>", y>> \in seen2
      BY <1>3, CopyRead
    <2> HIDE DEF Reads
    <2>2. QED
      BY <1>3, <2>1 DEF Linked
  <1> HIDE DEF f2
  <1>5. PICK seen3 : Read(f3, seen3) /\ Linked(seen3, new)
    <2>1. Occurs(f2, old)
      BY <1>4, OccursRead DEF Linked
    <2>2. f3 = Substituted(f2, old, <<new>>)
      BY <2>1 DEF static_replace_in_file
    <2> HIDE DEF f3, Reads, old, new
    <2>3. PICK seen3 :
            /\ Reads("<Project>", Substituted(f2, old, <<new>>), "<Project>", seen3)
            /\ \A z : z # old /\ Linked(seen2, z) => Linked(seen3, z)
            /\ Linked(seen2, old) => Linked(seen3, new)
      BY <1>2, <1>4, Renamed, Zenon
    <2>4. QED
      BY <1>4, <2>2, <2>3, Zenon
  <1> HIDE DEF f3
  <1>6. new \in Section(f3, "<Link>", "</Link>") /\ new \in Section(f3, "<Lib>", "</Lib>")
    BY <1>5, SectionLines DEF Linked
  <1>7. ASSUME NEW tags \in {<<"<Link>", "</Link>">>, <<"<Lib>", "</Lib>">>}
        PROVE  new \in Section(f3, tags[1], tags[2])
    <2>1. \/ tags[1] = "<Link>" /\ tags[2] = "</Link>"
          \/ tags[1] = "<Lib>" /\ tags[2] = "</Lib>"
      OBVIOUS
    <2> HIDE DEF new
    <2>2. QED
      BY <1>6, <2>1
  <1>8. openssl_props(openssl_props_file) = f3
    BY <1>0 DEF f0
  <1>9. QED
    BY <1>7, <1>8

-----------------------------------------------------------------------------
(* Projects.                                                               *)

\* A project in two parts: up to the first <ItemGroup>, and from there on.
HeadLines(e) ==
    <<"DynamicLibrary", ".pyd">> \o
    (IF e \in Now("link", WithLink) \/ e \in Now("defines", WithDefines)
        \/ e = "_sqlite3"
     THEN <<"<ItemDefinitionGroup>">>
          \o (IF e \in Now("defines", WithDefines) \/ e = "_sqlite3"
              THEN <<"<ClCompile>">>
                   \o (IF e = "_sqlite3" THEN <<"includes">> ELSE <<>>)
                   \o (IF e \in Now("defines", WithDefines) THEN <<"defines">> ELSE <<>>)
                   \o <<"</ClCompile>">> ELSE <<>>)
          \o (IF e \in Now("link", WithLink)
              THEN <<"<Link>", "libraries", "</Link>">> ELSE <<>>)
          \o <<"</ItemDefinitionGroup>">>
     ELSE <<>>)
TailLines(e) ==
    <<"<ItemGroup>">>
    \o ((IF e \in Now("annotation", WithAnnotation)
         THEN <<"<ClCompile Include>", "defines", "</ClCompile Include>">> ELSE <<>>)
        \o <<"</ItemGroup>">>)

\* What can be in the first part.
HeadText ==
    {"DynamicLibrary", ".pyd", "<ItemDefinitionGroup>", "<ClCompile>", "includes", "defines",
     "</ClCompile>", "<Link>", "libraries", "</Link>", "</ItemDefinitionGroup>"}
HeadSeen(seen) ==
    \A in, y : <<in, y>> \in seen =>
        y \in HeadText /\ (y \in {"defines", "includes"} => in = "<ClCompile>")

LEMMA HeadRead ==
    ASSUME NEW e
    PROVE  \E seen :
            /\ Reads("<Project>", HeadLines(e), "<Project>", seen)
            /\ HeadSeen(seen)
            /\ <<"<Project>", "DynamicLibrary">> \in seen /\ <<"<Project>", ".pyd">> \in seen
            /\ e \in Now("defines", WithDefines) => <<"<ClCompile>", "defines">> \in seen
            /\ e = "_sqlite3" => <<"<ClCompile>", "includes">> \in seen
            /\ \A y \in {"defines", "includes"} : <<"<ClCompile>", y>> \in seen =>
                    <<"<ItemDefinitionGroup>", "<ItemDefinitionGroup>">> \in seen
  <1> DEFINE sq == e = "_sqlite3"
             de == e \in Now("defines", WithDefines)
             li == e \in Now("link", WithLink)
             group == "<ItemDefinitionGroup>"
             inc == IF sq THEN <<"includes">> ELSE <<>>
             def == IF de THEN <<"defines">> ELSE <<>>
             comp == IF de \/ sq THEN <<"<ClCompile>">> \o inc \o def \o <<"</ClCompile>">>
                     ELSE <<>>
             link == IF li THEN <<"<Link>", "libraries", "</Link>">> ELSE <<>>
             all == IF li \/ de \/ sq THEN <<group>> \o comp \o link \o <<"</ItemDefinitionGroup>">>
                    ELSE <<>>
             sinc == IF sq THEN {<<"<ClCompile>", "includes">>} ELSE {}
             sdef == IF de THEN {<<"<ClCompile>", "defines">>} ELSE {}
             scomp == IF de \/ sq
                      THEN {<<"<ClCompile>", "<ClCompile>">>} \cup sinc \cup sdef
                           \cup {<<group, "</ClCompile>">>} ELSE {}
             slink == IF li THEN {<<"<Link>", "<Link>">>, <<"<Link>", "libraries">>,
                                  <<group, "</Link>">>} ELSE {}
             sall == IF li \/ de \/ sq
                     THEN {<<group, group>>} \cup scomp \cup slink
                          \cup {<<"<Project>", "</ItemDefinitionGroup>">>} ELSE {}
             start == {<<"<Project>", "DynamicLibrary">>, <<"<Project>", ".pyd">>}
             seen == start \cup sall
  <1>1. HeadLines(e) = <<"DynamicLibrary", ".pyd">> \o all
    BY DEF HeadLines
  <1>2. /\ "includes" \in Settings /\ "defines" \in Settings /\ "libraries" \in Settings
        /\ "DynamicLibrary" \in Settings /\ ".pyd" \in Settings
    BY DEF Settings
  <1>3. \A x \in Settings : x \in Text /\ \A in : Inside(in, x) = in
    <2> SUFFICES ASSUME NEW x \in Settings PROVE x \in Text /\ \A in : Inside(in, x) = in
      OBVIOUS
    <2>1. Plain(x)
      BY SettingsPlain
    <2>2. QED
      BY <2>1, InsidePlain DEF Plain
  <1>4. /\ group \in Text /\ "<Link>" \in Text /\ "</Link>" \in Text /\ "<ClCompile>" \in Text
        /\ "</ClCompile>" \in Text /\ "</ItemDefinitionGroup>" \in Text /\ "<Project>" \in Text
    BY DEF Text, Tags
  <1>5. /\ Inside("<Project>", group) = group
        /\ Inside(group, "</ItemDefinitionGroup>") = "<Project>"
        /\ Inside(group, "<ClCompile>") = "<ClCompile>"
        /\ Inside("<ClCompile>", "</ClCompile>") = group
        /\ Inside(group, "<Link>") = "<Link>" /\ Inside("<Link>", "</Link>") = group
        /\ group # "error"
    BY Moves
  <1> HIDE DEF group, Settings
  <1>6. /\ Reads("<Project>", <<"DynamicLibrary", ".pyd">>, "<Project>", start)
        /\ Reads("<Project>", <<group>>, group, {<<group, group>>})
        /\ Reads(group, <<"</ItemDefinitionGroup>">>, "<Project>",
                 {<<"<Project>", "</ItemDefinitionGroup>">>})
        /\ Reads(group, <<"<ClCompile>">>, "<ClCompile>", {<<"<ClCompile>", "<ClCompile>">>})
        /\ Reads("<ClCompile>", <<"</ClCompile>">>, group, {<<group, "</ClCompile>">>})
        /\ Reads("<ClCompile>", <<"includes">>, "<ClCompile>", {<<"<ClCompile>", "includes">>})
        /\ Reads("<ClCompile>", <<"defines">>, "<ClCompile>", {<<"<ClCompile>", "defines">>})
        /\ Reads(group, <<"<Link>", "libraries", "</Link>">>, group,
                 {<<"<Link>", "<Link>">>, <<"<Link>", "libraries">>, <<group, "</Link>">>})
    BY <1>2, <1>3, <1>4, <1>5, ReadsLine, ReadsTwo, ReadsThree
  <1>7. /\ Reads("<ClCompile>", <<>>, "<ClCompile>", {}) /\ Reads(group, <<>>, group, {})
        /\ Reads("<Project>", <<>>, "<Project>", {})
    BY <1>4, ReadsNothing
  <1> HIDE DEF Reads
  <1>8. /\ Reads("<ClCompile>", inc, "<ClCompile>", sinc)
        /\ Reads("<ClCompile>", def, "<ClCompile>", sdef)
    BY <1>6, <1>7
  <1>9. Reads(group, comp, group, scomp)
    <2> HIDE DEF inc, def, sinc, sdef
    <2>1. Reads(group, <<"<ClCompile>">> \o inc, "<ClCompile>",
                {<<"<ClCompile>", "<ClCompile>">>} \cup sinc)
      BY <1>6, <1>8, ReadsOn
    <2>2. Reads(group, <<"<ClCompile>">> \o inc \o def, "<ClCompile>",
                {<<"<ClCompile>", "<ClCompile>">>} \cup sinc \cup sdef)
      BY <1>8, <2>1, ReadsOn
    <2>3. Reads(group, <<"<ClCompile>">> \o inc \o def \o <<"</ClCompile>">>, group,
                {<<"<ClCompile>", "<ClCompile>">>} \cup sinc \cup sdef
                \cup {<<group, "</ClCompile>">>})
      BY <1>6, <2>2, ReadsOn
    <2>4. QED
      BY <1>7, <2>3
  <1>10. Reads(group, link, group, slink)
    BY <1>6, <1>7
  <1>11. Reads("<Project>", all, "<Project>", sall)
    <2> HIDE DEF comp, scomp, link, slink
    <2>1. Reads("<Project>", <<group>> \o comp, group, {<<group, group>>} \cup scomp)
      BY <1>6, <1>9, ReadsOn
    <2>2. Reads("<Project>", <<group>> \o comp \o link, group,
                {<<group, group>>} \cup scomp \cup slink)
      BY <1>10, <2>1, ReadsOn
    <2>3. Reads("<Project>", <<group>> \o comp \o link \o <<"</ItemDefinitionGroup>">>,
                "<Project>", {<<group, group>>} \cup scomp \cup slink
                \cup {<<"<Project>", "</ItemDefinitionGroup>">>})
      BY <1>6, <2>2, ReadsOn
    <2>4. QED
      BY <1>7, <2>3
  <1>12. Reads("<Project>", HeadLines(e), "<Project>", seen)
    <2> HIDE DEF all, sall, start
    <2>1. QED
      BY <1>1, <1>6, <1>11, ReadsOn
  <1>13. HeadSeen(seen)
    BY DEF HeadSeen, HeadText, group
  <1>14. /\ <<"<Project>", "DynamicLibrary">> \in seen /\ <<"<Project>", ".pyd">> \in seen
         /\ de => <<"<ClCompile>", "defines">> \in seen
         /\ sq => <<"<ClCompile>", "includes">> \in seen
         /\ \A y \in {"defines", "includes"} : <<"<ClCompile>", y>> \in seen =>
                <<group, group>> \in seen
    OBVIOUS
  <1> HIDE DEF seen
  <1>15. QED
    BY <1>12, <1>13, <1>14 DEF group

\* What is seen of the second part, and where the definitions for one file are.
TailSeen ==
    {<<"<ItemGroup>", "<ItemGroup>">>, <<"<ClCompile Include>", "<ClCompile Include>">>,
     <<"<ClCompile Include>", "defines">>, <<"<ItemGroup>", "</ClCompile Include>">>,
     <<"<Project>", "</ItemGroup>">>}
IsTail(t) ==
    /\ \E seen : Reads("<Project>", t, "<Project>", seen) /\ seen \subseteq TailSeen
    /\ Len(t) > 0 /\ t[1] = "<ItemGroup>"
    /\ \A i \in 1..Len(t) :
        t[i] = "defines" => i - 1 \in 1..Len(t) /\ t[i - 1] = "<ClCompile Include>"

LEMMA TailRead ==
    ASSUME NEW e
    PROVE  IsTail(TailLines(e))
  <1> DEFINE de == e \in Now("annotation", WithAnnotation)
             project == "<Project>"
             group == "<ItemGroup>"
             endgroup == "</ItemGroup>"
             file == "<ClCompile Include>"
             endfile == "</ClCompile Include>"
             def == "defines"
             lines == <<file, def, endfile>>
             one == IF de THEN lines ELSE <<>>
             slines == {<<file, file>>, <<file, def>>, <<group, endfile>>}
             sone == IF de THEN slines ELSE {}
             close == <<endgroup>>
             seen == {<<group, group>>} \cup (sone \cup {<<project, endgroup>>})
  <1>1. TailLines(e) = <<group>> \o (one \o close)
    BY DEF TailLines
  <1>2. "defines" \in Settings
    BY DEF Settings
  <1>3. def \in Text /\ \A in : Inside(in, def) = in
    <2>1. Plain("defines")
      BY <1>2, SettingsPlain
    <2>2. QED
      BY <2>1, InsidePlain DEF Plain
  <1>4. /\ group \in Text /\ file \in Text /\ endfile \in Text
        /\ endgroup \in Text /\ project \in Text
    BY DEF Text, Tags
  <1>5. /\ Inside(project, group) = group
        /\ Inside(group, endgroup) = project
        /\ Inside(group, file) = file
        /\ Inside(file, endfile) = group
        /\ group # "error" /\ file # "error" /\ project # "error"
        /\ def # file /\ endfile # def /\ endgroup # def /\ group # def
    BY Moves
  <1>12. seen \subseteq TailSeen
    BY DEF TailSeen
  <1> HIDE DEF group, file, endgroup, endfile, def, project, Settings, Text, de
  <1>6. Reads(project, <<group>>, group, {<<group, group>>})
    BY <1>4, <1>5, ReadsLine
  <1>7. Reads(group, <<endgroup>>, project, {<<project, endgroup>>})
    BY <1>4, <1>5, ReadsLine
  <1>8. Reads(group, lines, group, slines)
    BY <1>3, <1>4, <1>5, ReadsThree
  <1>9. Reads(group, <<>>, group, {})
    BY <1>4, ReadsNothing
  <1>10. lines \in Seq(Text) /\ Len(lines) = 3 /\ lines[1] = file /\ lines[2] = def /\ lines[3] = endfile
    BY <1>3, <1>4
  <1>11. close \in Seq(Text) /\ Len(close) = 1 /\ close[1] = endgroup /\ <<>> \in Seq(Text)
    BY <1>4
  <1> HIDE DEF Reads, lines, slines, close
  <1>13. Reads(group, one, group, sone)
    BY <1>8, <1>9
  <1>14. /\ one \in Seq(Text) /\ Len(one) \in {0, 3}
         /\ Len(one) = 3 => one[1] = file /\ one[2] = def /\ one[3] = endfile
    BY <1>10, <1>11
  <1> HIDE DEF one, sone
  <1> DEFINE r == one \o close
             sr == sone \cup {<<project, endgroup>>}
             t == TailLines(e)
  <1>15. Reads(group, r, project, sr)
    BY <1>7, <1>13, ReadsOn DEF close
  <1>17. /\ r \in Seq(Text) /\ Len(r) = Len(one) + 1
         /\ (\A i \in 1..Len(one) : r[i] = one[i]) /\ r[Len(one) + 1] = endgroup
    <2>1. r \in Seq(Text) /\ Len(r) = Len(one) + Len(close)
          /\ \A i \in 1..Len(one) + Len(close) :
                r[i] = IF i <= Len(one) THEN one[i] ELSE close[i - Len(one)]
      BY <1>11, <1>14, ConcatProperties
    <2> HIDE DEF r
    <2>2. Len(one) \in Nat /\ Len(one) + 1 \in 1..Len(one) + Len(close)
          /\ (Len(one) + 1) - Len(one) = 1 /\ ~(Len(one) + 1 <= Len(one))
          /\ \A i \in 1..Len(one) : i \in 1..Len(one) + Len(close) /\ i <= Len(one)
      BY <1>11, <1>14
    <2>3. QED
      BY <1>11, <2>1, <2>2
  <1>18. t = <<group>> \o r
    BY <1>1
  <1> HIDE DEF r, sr, t
  <1>19. Reads(project, t, project, seen)
    BY <1>6, <1>15, <1>18, ReadsOn DEF sr
  <1>20. Len(t) = Len(r) + 1 /\ t[1] = group /\ \A i \in 1..Len(r) : t[i + 1] = r[i]
    BY <1>4, <1>17, <1>18, Line
  <1>21. Len(t) > 0
    BY <1>14, <1>17, <1>20
  <1>16. ASSUME NEW i \in 1..Len(t), t[i] = def
         PROVE  i - 1 \in 1..Len(t) /\ t[i - 1] = file
    <2>1. CASE Len(one) = 0
      <3>1. Len(r) = 1 /\ Len(t) = 2 /\ i \in {1, 2}
        BY <1>17, <1>20, <2>1
      <3>2. t[2] = r[1] /\ r[1] = endgroup
        <4>1. 1 \in 1..Len(r) /\ 1 + 1 = 2 /\ Len(one) + 1 = 1
          BY <2>1, <3>1
        <4>2. QED
          BY <1>17, <1>20, <4>1
      <3>3. QED
        BY <1>5, <1>20, <1>16, <3>1, <3>2
    <2>2. CASE Len(one) = 3
      <3>1. Len(r) = 4 /\ Len(t) = 5 /\ i \in {1, 2, 3, 4, 5}
        BY <1>17, <1>20, <2>2
      <3>2. r[1] = file /\ r[2] = def /\ r[3] = endfile /\ r[4] = endgroup
        <4>1. 1 \in 1..Len(one) /\ 2 \in 1..Len(one) /\ 3 \in 1..Len(one) /\ Len(one) + 1 = 4
          BY <2>2
        <4>2. QED
          BY <1>14, <1>17, <2>2, <4>1
      <3>3. t[2] = file /\ t[3] = def /\ t[4] = endfile /\ t[5] = endgroup
        <4>1. /\ 1 \in 1..Len(r) /\ 2 \in 1..Len(r) /\ 3 \in 1..Len(r) /\ 4 \in 1..Len(r)
              /\ 1 + 1 = 2 /\ 2 + 1 = 3 /\ 3 + 1 = 4 /\ 4 + 1 = 5
          BY <3>1
        <4>2. QED
          BY <1>20, <3>2, <4>1
      <3>4. i = 3
        BY <1>5, <1>20, <1>16, <3>1, <3>3
      <3>5. i - 1 = 2 /\ 2 \in 1..Len(t)
        BY <3>1, <3>4
      <3>6. QED
        BY <3>3, <3>5
    <2>3. QED
      BY <1>14, <2>1, <2>2
  <1>22. QED
    <2>1. \E s : Reads("<Project>", t, "<Project>", s) /\ s \subseteq TailSeen
      BY <1>12, <1>19 DEF project
    <2>2. \A i \in 1..Len(t) :
            t[i] = "defines" => i - 1 \in 1..Len(t) /\ t[i - 1] = "<ClCompile Include>"
      BY <1>16, Zenon DEF file, def
    <2>3. t[1] = "<ItemGroup>"
      BY <1>20 DEF group
    <2> HIDE DEF TailSeen
    <2>4. IsTail(t)
      BY <1>21, <2>1, <2>2, <2>3, Zenon DEF IsTail
    <2>5. QED
      BY <2>4 DEF t

\* The first part is joined to the second one.
LEMMA FileSplit ==
    ASSUME NEW e
    PROVE  ProjectFile(e) = HeadLines(e) \o TailLines(e)
  <1> DEFINE library == "DynamicLibrary"
             pyd == ".pyd"
             includes == "includes"
             defines == "defines"
             libraries == "libraries"
             items == "<ItemGroup>"
             enditems == "</ItemGroup>"
             compile == "<ClCompile>"
             endcompile == "</ClCompile>"
             tolink == "<Link>"
             endlink == "</Link>"
             file == "<ClCompile Include>"
             endfile == "</ClCompile Include>"
             group == "<ItemDefinitionGroup>"
             endgroup == "</ItemDefinitionGroup>"
             sq == e = "_sqlite3"
             de == e \in Now("defines", WithDefines)
             li == e \in Now("link", WithLink)
             an == e \in Now("annotation", WithAnnotation)
             start == <<library, pyd>>
             inc == IF sq THEN <<includes>> ELSE <<>>
             def == IF de THEN <<defines>> ELSE <<>>
             comp == IF de \/ sq THEN <<compile>> \o inc \o def \o <<endcompile>> ELSE <<>>
             link == IF li THEN <<tolink, libraries, endlink>> ELSE <<>>
             all == IF li \/ de \/ sq THEN <<group>> \o comp \o link \o <<endgroup>> ELSE <<>>
             open == <<items>>
             one == IF an THEN <<file, defines, endfile>> ELSE <<>>
             close == <<enditems>>
  <1>1. /\ ProjectFile(e) = start \o (((all \o open) \o one) \o close)
        /\ HeadLines(e) = start \o all
        /\ TailLines(e) = open \o (one \o close)
    BY DEF ProjectFile, ProjectLines, HeadLines, TailLines
  <1>2. /\ library \in Text /\ pyd \in Text /\ includes \in Text /\ defines \in Text
        /\ libraries \in Text /\ items \in Text /\ enditems \in Text /\ compile \in Text
        /\ endcompile \in Text /\ tolink \in Text /\ endlink \in Text /\ file \in Text
        /\ endfile \in Text /\ group \in Text /\ endgroup \in Text
    BY DEF Text, Tags
  <1> HIDE DEF Text, library, pyd, includes, defines, libraries, items, enditems, compile,
               endcompile, tolink, endlink, file, endfile, group, endgroup, sq, de, li, an
  <1>3. /\ start \in Seq(Text) /\ open \in Seq(Text) /\ one \in Seq(Text) /\ close \in Seq(Text)
        /\ inc \in Seq(Text) /\ def \in Seq(Text) /\ link \in Seq(Text) /\ <<>> \in Seq(Text)
        /\ <<compile>> \in Seq(Text) /\ <<endcompile>> \in Seq(Text)
        /\ <<group>> \in Seq(Text) /\ <<endgroup>> \in Seq(Text)
    BY <1>2
  <1> HIDE DEF start, open, one, close, inc, def, link
  <1>4. /\ \A x, y \in Seq(Text) : x \o y \in Seq(Text)
        /\ \A x, y, z \in Seq(Text) : (x \o y) \o z = x \o (y \o z)
    BY ConcatProperties, ConcatAssociative
  <1>5. comp \in Seq(Text)
    BY <1>3, <1>4
  <1> HIDE DEF comp
  <1>6. all \in Seq(Text)
    BY <1>3, <1>4, <1>5
  <1> HIDE DEF all
  <1> DEFINE rest == open \o (one \o close)
             two == open \o one
  <1> HIDE DEF Text
  <1>14. start \in Seq(Text) /\ open \in Seq(Text) /\ one \in Seq(Text) /\ close \in Seq(Text)
    BY <1>3
  <1>7. two \in Seq(Text) /\ one \o close \in Seq(Text)
    BY <1>3, <1>4
  <1>8. rest \in Seq(Text)
    BY <1>3, <1>4, <1>7
  <1>9. (all \o open) \o one = all \o two /\ two \o close = rest
    <2>1. (all \o open) \o one = all \o two
      BY <1>4, <1>6, <1>14, Zenon
    <2>2. two \o close = rest
      BY <1>4, <1>14, Zenon
    <2>3. QED
      BY <2>1, <2>2
  <1> HIDE DEF two, rest
  <1>10. (all \o two) \o close = all \o (two \o close)
    BY <1>4, <1>6, <1>7, <1>14, Zenon
  <1>11. (start \o all) \o rest = start \o (all \o rest)
    <2>1. start \in Seq(Text)
      BY <1>3
    <2>2. \A x, y, z \in Seq(Text) : (x \o y) \o z = x \o (y \o z)
      BY <1>4
    <2>3. QED
      BY <1>6, <1>8, <2>1, <2>2, Zenon
  <1>12. ((all \o open) \o one) \o close = all \o rest
    BY <1>9, <1>10
  <1>13. QED
    BY <1>1, <1>11, <1>12, Zenon DEF rest

LEMMA OccursConcat ==
    ASSUME NEW h \in Seq(Text), NEW t \in Seq(Text), NEW x
    PROVE  Occurs(h \o t, x) <=> Occurs(h, x) \/ Occurs(t, x)
  <1> DEFINE f == h \o t
  <1>1. f \in Seq(Text) /\ Len(f) = Len(h) + Len(t)
        /\ \A i \in 1..Len(h) + Len(t) : f[i] = IF i <= Len(h) THEN h[i] ELSE t[i - Len(h)]
    BY ConcatProperties
  <1>2. /\ Len(h) \in Nat /\ Len(t) \in Nat
        /\ DOMAIN h = 1..Len(h) /\ DOMAIN t = 1..Len(t) /\ DOMAIN f = 1..Len(h) + Len(t)
    BY <1>1, LenProperties
  <1> HIDE DEF f, Text
  <1>3. ASSUME NEW i \in DOMAIN h, h[i] = x PROVE Occurs(f, x)
    BY <1>1, <1>2, <1>3 DEF Occurs
  <1>4. ASSUME NEW i \in DOMAIN t, t[i] = x PROVE Occurs(f, x)
    <2>1. Len(h) + i \in DOMAIN f /\ (Len(h) + i) - Len(h) = i /\ ~(Len(h) + i <= Len(h))
          /\ Len(h) + i \in 1..Len(h) + Len(t)
      BY <1>2
    <2>2. f[Len(h) + i] = x
      BY <1>1, <1>4, <2>1
    <2>3. QED
      BY <2>1, <2>2 DEF Occurs
  <1>5. ASSUME NEW i \in DOMAIN f, f[i] = x PROVE Occurs(h, x) \/ Occurs(t, x)
    <2>1. CASE i <= Len(h)
      BY <1>1, <1>2, <1>5, <2>1 DEF Occurs
    <2>2. CASE ~(i <= Len(h))
      <3>1. i - Len(h) \in DOMAIN t /\ t[i - Len(h)] = x
        BY <1>1, <1>2, <1>5, <2>2
      <3>2. QED
        BY <3>1 DEF Occurs
    <2>3. QED
      BY <2>1, <2>2
  <1>6. QED
    BY <1>3, <1>4, <1>5 DEF Occurs, f

LEMMA TailLacks ==
    ASSUME NEW t, IsTail(t), NEW x,
           x \notin {"<ItemGroup>", "<ClCompile Include>", "defines", "</ClCompile Include>",
                     "</ItemGroup>"}
    PROVE  t \in Seq(Text) /\ ~Occurs(t, x)
  <1>1. PICK seen : Reads("<Project>", t, "<Project>", seen) /\ seen \subseteq TailSeen
    BY DEF IsTail
  <1>2. \A in : <<in, x>> \notin seen
    BY <1>1 DEF TailSeen
  <1> HIDE DEF TailSeen
  <1>3. QED
    BY <1>1, <1>2, OccursRead DEF Reads

\* The edit of _sqlite3 gives it a line of definitions.
LEMMA SourceRead ==
    ASSUME NEW e
    PROVE  \E h, seen :
            /\ SourceProject(e) = h \o TailLines(e)
            /\ Reads("<Project>", h, "<Project>", seen)
            /\ HeadSeen(seen)
            /\ <<"<Project>", "DynamicLibrary">> \in seen /\ <<"<Project>", ".pyd">> \in seen
            /\ e \in Now("defines", WithDefines) \cup {"_sqlite3"} =>
                    <<"<ClCompile>", "defines">> \in seen
            /\ <<"<ClCompile>", "defines">> \in seen =>
                    <<"<ItemDefinitionGroup>", "<ItemDefinitionGroup>">> \in seen
  <1>1. PICK seen :
            /\ Reads("<Project>", HeadLines(e), "<Project>", seen)
            /\ HeadSeen(seen)
            /\ <<"<Project>", "DynamicLibrary">> \in seen /\ <<"<Project>", ".pyd">> \in seen
            /\ e \in Now("defines", WithDefines) => <<"<ClCompile>", "defines">> \in seen
            /\ e = "_sqlite3" => <<"<ClCompile>", "includes">> \in seen
            /\ \A y \in {"defines", "includes"} : <<"<ClCompile>", y>> \in seen =>
                    <<"<ItemDefinitionGroup>", "<ItemDefinitionGroup>">> \in seen
    BY HeadRead
  <1> DEFINE h == HeadLines(e)
             t == TailLines(e)
  <1>2. ProjectFile(e) = h \o t
    BY FileSplit
  <1>3. IsTail(t)
    BY TailRead
  <1>4. h \in Seq(Text)
    BY <1>1 DEF Reads
  <1> HIDE DEF h, t
  <1>5. CASE e # "_sqlite3"
    <2>1. SourceProject(e) = h \o t
      BY <1>2, <1>5 DEF SourceProject
    <2> HIDE DEF Reads, HeadSeen
    <2>2. QED
      BY <1>1, <1>5, <2>1 DEF h, t
  <1>6. CASE e = "_sqlite3"
    <2> DEFINE x == "includes"
               by == <<"includes", "defines">>
    <2>1. x \in Settings /\ by \in Seq(Settings) /\ by \in Seq(Text) /\ Len(by) = 2
          /\ by[1] = "includes" /\ by[2] = "defines"
      <3>1. "includes" \in Settings /\ "defines" \in Settings /\ "includes" \in Text
            /\ "defines" \in Text
        BY DEF Settings, Text
      <3>2. QED
        BY <3>1
    <2>2. t \in Seq(Text) /\ ~Occurs(t, x)
      BY <1>3, TailLacks
    <2>3. Occurs(h, x)
      BY <1>1, <1>6, OccursRead DEF h
    <2> HIDE DEF by, x
    <2>4. Substituted(h \o t, x, by) = Substituted(h, x, by) \o t
      BY <1>4, <2>1, <2>2, ReplacedTail
    <2>5. SourceProject(e) = Substituted(h, x, by) \o t
      <3>1. Occurs(h \o t, x)
        BY <1>4, <2>2, <2>3, OccursConcat
      <3>2. SourceProject(e) = Substituted(h \o t, x, by)
        BY <1>2, <1>6, <3>1, Zenon DEF SourceProject, EditSqlite, Optionally, x, by
      <3>3. QED
        BY <2>4, <3>2
    <2>6. PICK seen1 :
            /\ Reads("<Project>", Substituted(h, x, by), "<Project>", seen1)
            /\ \A in, y : <<in, y>> \in seen1 <=>
                \/ y # x /\ <<in, y>> \in seen
                \/ <<in, x>> \in seen /\ \E k \in 1..Len(by) : y = by[k]
      <3>1. Reads("<Project>", h, "<Project>", seen)
        BY <1>1 DEF h
      <3>2. x \in Settings /\ by \in Seq(Settings)
        BY <2>1
      <3> HIDE DEF Reads, Settings
      <3>3. QED
        BY <3>1, <3>2, SettingsReplaced
    <2>7. \A in, y : <<in, y>> \in seen1 <=>
                \/ y # "includes" /\ <<in, y>> \in seen
                \/ <<in, "includes">> \in seen /\ y \in {"includes", "defines"}
      <3>1. \A y : (\E k \in 1..Len(by) : y = by[k]) <=> y \in {"includes", "defines"}
        BY <2>1
      <3>2. QED
        BY <2>6, <3>1, Zenon DEF x
    <2> HIDE DEF Reads
    <2>8. HeadSeen(seen1)
      BY <1>1, <2>7 DEF HeadSeen, HeadText
    <2>9. /\ <<"<Project>", "DynamicLibrary">> \in seen1 /\ <<"<Project>", ".pyd">> \in seen1
          /\ <<"<ClCompile>", "defines">> \in seen1
          /\ <<"<ItemDefinitionGroup>", "<ItemDefinitionGroup>">> \in seen1
      BY <1>1, <1>6, <2>7
    <2>10. QED
      BY <2>5, <2>6, <2>8, <2>9 DEF t
  <1>7. QED
    BY <1>5, <1>6

LEMMA RenamedRead ==
    ASSUME NEW f, NEW seen, Reads("<Project>", f, "<Project>", seen),
           NEW x \in Settings, NEW y \in Settings
    PROVE  \E seen1 :
            /\ Reads("<Project>", Substituted(f, x, <<y>>), "<Project>", seen1)
            /\ \A in, z : <<in, z>> \in seen1 <=>
                \/ z # x /\ <<in, z>> \in seen
                \/ <<in, x>> \in seen /\ z = y
  <1> DEFINE by == <<y>>
  <1>1. by \in Seq(Settings) /\ Len(by) = 1 /\ by[1] = y
    OBVIOUS
  <1> HIDE DEF by, Reads, Settings
  <1>2. PICK seen1 :
            /\ Reads("<Project>", Substituted(f, x, by), "<Project>", seen1)
            /\ \A in, z : <<in, z>> \in seen1 <=>
                \/ z # x /\ <<in, z>> \in seen
                \/ <<in, x>> \in seen /\ \E k \in 1..Len(by) : z = by[k]
    BY <1>1, SettingsReplaced
  <1>3. \A z : (\E k \in 1..Len(by) : z = by[k]) <=> z = y
    BY <1>1
  <1>4. \A in, z : <<in, z>> \in seen1 <=>
                \/ z # x /\ <<in, z>> \in seen
                \/ <<in, x>> \in seen /\ z = y
    BY <1>2, <1>3, Zenon
  <1>5. QED
    BY <1>2, <1>4 DEF by

\* What is seen of the first part of a project that is a static library.
StaticText ==
    {"StaticLibrary", ".lib", "<ItemDefinitionGroup>", "<ClCompile>", "includes", "defines",
     "</ClCompile>", "<Link>", "libraries", "</Link>", "</ItemDefinitionGroup>", "<Lib>",
     "</Lib>", "directories"}
StaticSeen(seen) ==
    /\ \A in, y : <<in, y>> \in seen =>
        /\ y \in StaticText
        /\ y = "defines" => in = "<ClCompile>"
        /\ y = "<Lib>" => in = "<Lib>"
    /\ \A y : y # "<Link>" /\ <<"<Link>", y>> \in seen => <<"<Lib>", y>> \in seen
    /\ <<"<Project>", "StaticLibrary">> \in seen /\ <<"<Project>", ".lib">> \in seen
    /\ <<"<ClCompile>", "defines">> \in seen =>
            <<"<ItemDefinitionGroup>", "<ItemDefinitionGroup>">> \in seen

LEMMA StaticRead ==
    ASSUME NEW e
    PROVE  \E h, seen :
            /\ copy_link_to_lib(make_project_static_library(SourceProject(e)))
                    = h \o TailLines(e)
            /\ Reads("<Project>", h, "<Project>", seen)
            /\ StaticSeen(seen)
            /\ e \in Now("defines", WithDefines) \cup {"_sqlite3"} =>
                    <<"<ClCompile>", "defines">> \in seen
  <1> DEFINE t == TailLines(e)
             dynamic == "DynamicLibrary"
             static == "StaticLibrary"
             pyd == ".pyd"
             lib == ".lib"
  <1>1. PICK h, seen :
            /\ SourceProject(e) = h \o TailLines(e)
            /\ Reads("<Project>", h, "<Project>", seen)
            /\ HeadSeen(seen)
            /\ <<"<Project>", "DynamicLibrary">> \in seen /\ <<"<Project>", ".pyd">> \in seen
            /\ e \in Now("defines", WithDefines) \cup {"_sqlite3"} =>
                    <<"<ClCompile>", "defines">> \in seen
            /\ <<"<ClCompile>", "defines">> \in seen =>
                    <<"<ItemDefinitionGroup>", "<ItemDefinitionGroup>">> \in seen
    BY SourceRead
  <1>2. /\ dynamic \in Settings /\ static \in Settings /\ pyd \in Settings /\ lib \in Settings
        /\ static # dynamic /\ pyd # dynamic /\ pyd # static /\ lib # pyd /\ static # pyd
    BY DEF Settings
  <1>3. /\ t \in Seq(Text) /\ ~Occurs(t, dynamic) /\ ~Occurs(t, pyd) /\ ~Occurs(t, static)
        /\ ~Occurs(t, "</Link>")
    <2>1. IsTail(t)
      BY TailRead
    <2>2. ASSUME NEW x \in {dynamic, pyd, static, "</Link>"} PROVE t \in Seq(Text) /\ ~Occurs(t, x)
      <3>1. x \notin {"<ItemGroup>", "<ClCompile Include>", "defines", "</ClCompile Include>",
                      "</ItemGroup>"}
        OBVIOUS
      <3>2. QED
        BY <2>1, <3>1, TailLacks
    <2>3. QED
      BY <2>2, Zenon
  <1>4. Occurs(h, dynamic) /\ Occurs(h, pyd) /\ ~Occurs(h, static)
    <2>1. /\ \E in : <<in, dynamic>> \in seen
          /\ \E in : <<in, pyd>> \in seen
          /\ ~ \E in : <<in, static>> \in seen
      <3>1. ASSUME NEW in, <<in, static>> \in seen PROVE FALSE
        BY <1>1, <3>1 DEF HeadSeen, HeadText
      <3>2. QED
        BY <1>1, <3>1, Zenon
    <2> HIDE DEF Reads, HeadSeen, dynamic, pyd, static
    <2>2. QED
      BY <1>1, <2>1, OccursRead
  <1> HIDE DEF t, dynamic, static, pyd, lib
  <1>5. PICK seen1 :
            /\ Reads("<Project>", Substituted(h, dynamic, <<static>>), "<Project>", seen1)
            /\ \A in, z : <<in, z>> \in seen1 <=>
                \/ z # dynamic /\ <<in, z>> \in seen
                \/ <<in, dynamic>> \in seen /\ z = static
    BY <1>1, <1>2, RenamedRead
  <1> DEFINE h1 == Substituted(h, dynamic, <<static>>)
             h2 == Substituted(h1, pyd, <<lib>>)
  <1>6. PICK seen2 :
            /\ Reads("<Project>", Substituted(h1, pyd, <<lib>>), "<Project>", seen2)
            /\ \A in, z : <<in, z>> \in seen2 <=>
                \/ z # pyd /\ <<in, z>> \in seen1
                \/ <<in, pyd>> \in seen1 /\ z = lib
    BY <1>2, <1>5, RenamedRead
  <1>7. PICK seen3 :
            /\ Reads("<Project>", copy_link_to_lib(h2), "<Project>", seen3)
            /\ seen2 \subseteq seen3
            /\ \A in, y : <<in, y>> \in seen3 =>
                \/ <<in, y>> \in seen2
                \/ in = "<Lib>" /\ y \in {"<Lib>", "directories"}
                \/ in = "<Lib>" /\ y # "<Link>" /\ <<"<Link>", y>> \in seen2
                \/ in = "<ItemDefinitionGroup>" /\ y = "</Lib>"
            /\ \A y : y # "<Link>" /\ <<"<Link>", y>> \in seen2 => <<"<Lib>", y>> \in seen3
    BY <1>6, CopyRead
  <1>8. h \in Seq(Text) /\ h1 \in Seq(Text) /\ h2 \in Seq(Text)
    BY <1>1, <1>5, <1>6 DEF Reads
  <1> HIDE DEF Reads, h1, h2
  <1>9. copy_link_to_lib(make_project_static_library(SourceProject(e))) = copy_link_to_lib(h2) \o t
    <2> DEFINE f == h \o t
    <2>1. ~Occurs(f, static) /\ Occurs(f, dynamic) /\ Occurs(f, pyd)
      BY <1>3, <1>4, <1>8, OccursConcat
    <2>2. /\ <<static>> \in Seq(Text) /\ <<lib>> \in Seq(Text)
      <3>1. static \in Text /\ lib \in Text
        BY DEF static, lib, Text
      <3>2. QED
        BY <3>1
    <2> DEFINE by1 == <<static>>
               by2 == <<lib>>
    <2>9. by1 \in Seq(Text) /\ by2 \in Seq(Text)
      BY <2>2
    <2>10. h1 = Substituted(h, dynamic, by1) /\ h2 = Substituted(h1, pyd, by2)
      BY DEF h1, h2
    <2> HIDE DEF by1, by2
    <2>11. t \in Seq(Text) /\ ~Occurs(t, dynamic) /\ ~Occurs(t, pyd)
      BY <1>3
    <2>3. Substituted(f, dynamic, by1) = h1 \o t
      <3> HIDE DEF f
      <3>1. Substituted(h \o t, dynamic, by1) = Substituted(h, dynamic, by1) \o t
        <4>1. h \in Seq(Text) /\ by1 \in Seq(Text) /\ t \in Seq(Text) /\ ~Occurs(t, dynamic)
          BY <1>8, <2>9, <2>11
        <4>2. QED
          BY <4>1, ReplacedTail
      <3>2. QED
        BY <2>10, <3>1 DEF f
    <2>4. Substituted(h1 \o t, pyd, by2) = h2 \o t
      <3> HIDE DEF f
      <3>1. Substituted(h1 \o t, pyd, by2) = Substituted(h1, pyd, by2) \o t
        <4>1. h1 \in Seq(Text) /\ by2 \in Seq(Text) /\ t \in Seq(Text) /\ ~Occurs(t, pyd)
          BY <1>8, <2>9, <2>11
        <4>2. QED
          BY <4>1, ReplacedTail
      <3>2. QED
        BY <2>10, <3>1
    <2> HIDE DEF f
    <2>5. make_project_static_library(f) = h2 \o t
      <3>1. make_project_static_library(f) =
                Substituted(Substituted(f, dynamic, by1), pyd, by2)
        BY <2>1, Zenon DEF make_project_static_library, dynamic, static, pyd, lib, by1, by2
      <3>2. QED
        BY <2>3, <2>4, <3>1
    <2>6. copy_link_to_lib(h2 \o t) = copy_link_to_lib(h2) \o t
      BY <1>3, <1>8, CopyTail
    <2>7. SourceProject(e) = f
      BY <1>1 DEF f, t
    <2>8. QED
      BY <2>5, <2>6, <2>7
  <1>10. \A in, z : <<in, z>> \in seen2 <=>
            \/ z \notin {"DynamicLibrary", ".pyd"} /\ <<in, z>> \in seen
            \/ <<in, "DynamicLibrary">> \in seen /\ z = "StaticLibrary"
            \/ <<in, ".pyd">> \in seen /\ z = ".lib"
    <2>1. \A in, z : <<in, z>> \in seen2 <=>
            \/ (z # dynamic /\ z # pyd) /\ <<in, z>> \in seen
            \/ <<in, dynamic>> \in seen /\ z = static
            \/ <<in, pyd>> \in seen /\ z = lib
      <3> SUFFICES ASSUME NEW in, NEW z
                   PROVE  <<in, z>> \in seen2 <=>
                            \/ (z # dynamic /\ z # pyd) /\ <<in, z>> \in seen
                            \/ <<in, dynamic>> \in seen /\ z = static
                            \/ <<in, pyd>> \in seen /\ z = lib
        OBVIOUS
      <3>5. \A i1, z1 : <<i1, z1>> \in seen1 <=>
                (z1 # dynamic /\ <<i1, z1>> \in seen) \/ (<<i1, dynamic>> \in seen /\ z1 = static)
        BY <1>5
      <3>6. \A i1, z1 : <<i1, z1>> \in seen2 <=>
                (z1 # pyd /\ <<i1, z1>> \in seen1) \/ (<<i1, pyd>> \in seen1 /\ z1 = lib)
        BY <1>6
      <3>1. <<in, z>> \in seen1 <=>
            (z # dynamic /\ <<in, z>> \in seen) \/ (<<in, dynamic>> \in seen /\ z = static)
        BY <3>5
      <3>2. <<in, pyd>> \in seen1 <=> <<in, pyd>> \in seen
        <4>1. <<in, pyd>> \in seen1 <=>
            (pyd # dynamic /\ <<in, pyd>> \in seen) \/ (<<in, dynamic>> \in seen /\ pyd = static)
          BY <3>5
        <4>2. QED
          BY <1>2, <4>1
      <3>3. <<in, z>> \in seen2 <=>
            (z # pyd /\ <<in, z>> \in seen1) \/ (<<in, pyd>> \in seen1 /\ z = lib)
        BY <3>6
      <3>4. QED
        BY <1>2, <3>1, <3>2, <3>3
    <2>2. QED
      BY <2>1 DEF dynamic, static, pyd, lib
  <1>11. StaticSeen(seen3)
    <2>1. ASSUME NEW in, NEW y, <<in, y>> \in seen2
          PROVE  /\ y \in StaticText /\ y # "<Lib>"
                 /\ y = "defines" => in = "<ClCompile>"
      <3>1. \/ y \notin {"DynamicLibrary", ".pyd"} /\ <<in, y>> \in seen
            \/ y \in {"StaticLibrary", ".lib"}
        BY <1>10, <2>1, Zenon
      <3>2. CASE y \in {"StaticLibrary", ".lib"}
        BY <3>2 DEF StaticText
      <3>3. CASE y \notin {"DynamicLibrary", ".pyd"} /\ <<in, y>> \in seen
        <4>1. y \in HeadText /\ (y \in {"defines", "includes"} => in = "<ClCompile>")
          BY <1>1, <3>3, Zenon DEF HeadSeen
        <4>2. QED
          BY <3>3, <4>1 DEF HeadText, StaticText
      <3>4. QED
        BY <3>1, <3>2, <3>3
    <2>2. ASSUME NEW in, NEW y, <<in, y>> \in seen3
          PROVE  /\ y \in StaticText
                 /\ y = "defines" => in = "<ClCompile>"
                 /\ y = "<Lib>" => in = "<Lib>"
      <3>1. CASE <<in, y>> \in seen2
        BY <2>1, <3>1
      <3>2. CASE in = "<Lib>" /\ y \in {"<Lib>", "directories"}
        BY <3>2 DEF StaticText
      <3>3. CASE in = "<Lib>" /\ y # "<Link>" /\ <<"<Link>", y>> \in seen2
        BY <2>1, <3>3
      <3>4. CASE in = "<ItemDefinitionGroup>" /\ y = "</Lib>"
        BY <3>4 DEF StaticText
      <3>5. QED
        BY <1>7, <2>2, <3>1, <3>2, <3>3, <3>4
    <2>3. ASSUME NEW y, y # "<Link>", <<"<Link>", y>> \in seen3 PROVE <<"<Lib>", y>> \in seen3
      <3>1. <<"<Link>", y>> \in seen2
        BY <1>7, <2>3
      <3>2. QED
        BY <1>7, <2>3, <3>1
    <2>4. <<"<Project>", "StaticLibrary">> \in seen3 /\ <<"<Project>", ".lib">> \in seen3
      BY <1>1, <1>7, <1>10
    <2>5. ASSUME <<"<ClCompile>", "defines">> \in seen3
          PROVE  <<"<ItemDefinitionGroup>", "<ItemDefinitionGroup>">> \in seen3
      <3>1. <<"<ClCompile>", "defines">> \in seen2
        BY <1>7, <2>5
      <3>2. <<"<ClCompile>", "defines">> \in seen
        <4>1. "defines" \notin {"DynamicLibrary", ".pyd"} /\ "defines" # "StaticLibrary"
              /\ "defines" # ".lib"
          OBVIOUS
        <4>2. QED
          BY <1>10, <3>1, <4>1, Zenon
      <3>3. <<"<ItemDefinitionGroup>", "<ItemDefinitionGroup>">> \in seen2
        <4>1. <<"<ItemDefinitionGroup>", "<ItemDefinitionGroup>">> \in seen
          BY <1>1, <3>2, Zenon
        <4>2. QED
          BY <1>10, <4>1
      <3>4. QED
        BY <1>7, <3>3, Zenon
    <2>6. QED
      BY <2>2, <2>3, <2>4, <2>5 DEF StaticSeen
  <1>12. e \in Now("defines", WithDefines) \cup {"_sqlite3"} =>
            <<"<ClCompile>", "defines">> \in seen3
    BY <1>1, <1>7, <1>10
  <1>13. QED
    BY <1>7, <1>9, <1>11, <1>12 DEF t

-----------------------------------------------------------------------------
(* The definition of Py_BUILD_CORE_BUILTIN.                                *)
LEMMA Joined ==
    ASSUME NEW h \in Seq(Text), NEW t \in Seq(Text)
    PROVE  /\ h \o t \in Seq(Text) /\ Len(h \o t) = Len(h) + Len(t)
           /\ Len(h) \in Nat /\ Len(t) \in Nat
           /\ DOMAIN (h \o t) = 1..Len(h) + Len(t)
           /\ \A i \in 1..Len(h) : i \in DOMAIN (h \o t) /\ (h \o t)[i] = h[i]
           /\ \A i \in 1..Len(t) : Len(h) + i \in DOMAIN (h \o t) /\ (h \o t)[Len(h) + i] = t[i]
           /\ \A i \in DOMAIN (h \o t) :
                i \notin 1..Len(h) => i - Len(h) \in 1..Len(t) /\ i = Len(h) + (i - Len(h))
  <1> DEFINE f == h \o t
  <1>1. f \in Seq(Text) /\ Len(f) = Len(h) + Len(t)
        /\ \A i \in 1..Len(h) + Len(t) : f[i] = IF i <= Len(h) THEN h[i] ELSE t[i - Len(h)]
    BY ConcatProperties
  <1>2. Len(h) \in Nat /\ Len(t) \in Nat /\ DOMAIN f = 1..Len(h) + Len(t)
    BY <1>1, LenProperties
  <1> HIDE DEF f
  <1>3. \A i \in 1..Len(h) : i \in DOMAIN f /\ f[i] = h[i]
    BY <1>1, <1>2
  <1>4. ASSUME NEW i \in 1..Len(t) PROVE Len(h) + i \in DOMAIN f /\ f[Len(h) + i] = t[i]
    <2>1. /\ Len(h) + i \in 1..Len(h) + Len(t) /\ ~(Len(h) + i <= Len(h))
          /\ (Len(h) + i) - Len(h) = i
      BY <1>2
    <2>2. QED
      BY <1>1, <1>2, <2>1
  <1>5. \A i \in DOMAIN f : i \notin 1..Len(h) => i - Len(h) \in 1..Len(t) /\ i = Len(h) + (i - Len(h))
    BY <1>2
  <1>6. QED
    BY <1>1, <1>2, <1>3, <1>4, <1>5 DEF f

\* No definition for one file is in the first part, and none for all in the second.
LEMMA GlobalIs ==
    ASSUME NEW h, NEW seen, Reads("<Project>", h, "<Project>", seen), StaticSeen(seen),
           NEW t, IsTail(t)
    PROVE  /\ \A i : i \in GlobalDefines(h \o t) <=> i \in 1..Len(h) /\ h[i] = "defines"
           /\ GlobalDefines(h \o t) # {} <=> <<"<ClCompile>", "defines">> \in seen
  <1> DEFINE f == h \o t
             n == Len(h)
  <1>1. h \in Seq(Text) /\ t \in Seq(Text)
    BY DEF Reads, IsTail
  <1>2. PICK s : Reading(s, "<Project>", h, "<Project>", seen)
    BY DEF Reads
  <1>3. /\ f \in Seq(Text) /\ n \in Nat /\ Len(t) \in Nat
        /\ \A i \in 1..n : i \in DOMAIN f /\ f[i] = h[i]
        /\ \A i \in 1..Len(t) : n + i \in DOMAIN f /\ f[n + i] = t[i]
        /\ \A i \in DOMAIN f : i \notin 1..n => i - n \in 1..Len(t) /\ i = n + (i - n)
    BY <1>1, Joined
  <1>4. \A i \in 1..n : h[i] \notin {"<ClCompile Include>"}
    <2>1. ASSUME NEW i \in 1..n PROVE h[i] \in StaticText
      <3>1. <<s[i], h[i]>> \in seen
        BY <1>2 DEF Reading
      <3>2. QED
        BY <3>1 DEF StaticSeen
    <2>2. QED
      BY <2>1 DEF StaticText
  <1>5. ASSUME NEW i \in 1..n, h[i] = "defines"
        PROVE  i - 1 \in 1..n /\ <<"<ClCompile>", "defines">> \in seen
    <2>1. <<s[i], "defines">> \in seen /\ s[i] = Inside(s[i - 1], "defines") /\ s[0] = "<Project>"
      BY <1>2, <1>5 DEF Reading
    <2>2. s[i] = "<ClCompile>"
      BY <2>1 DEF StaticSeen
    <2>3. Inside("<Project>", "defines") = "<Project>"
      BY InsidePlain DEF Tags, Closed
    <2>4. i # 1
      <3>1. ASSUME i = 1 PROVE FALSE
        <4>1. i - 1 = 0
          BY <3>1
        <4>2. s[i] = "<Project>"
          BY <2>1, <2>3, <4>1
        <4>3. QED
          BY <2>2, <4>2
      <3>2. QED
        BY <3>1
    <2>5. i - 1 \in 1..n
      BY <1>3, <2>4
    <2>6. QED
      BY <2>1, <2>2, <2>5
  <1> HIDE DEF f, n
  <1>6. ASSUME NEW i, i \in GlobalDefines(f) PROVE i \in 1..n /\ h[i] = "defines"
    <2>1. i \in DOMAIN f /\ f[i] = "defines" /\ f[i - 1] # "<ClCompile Include>"
      BY <1>6 DEF GlobalDefines, Positions
    <2>2. CASE i \in 1..n
      BY <1>3, <2>1, <2>2
    <2>3. CASE i \notin 1..n
      <3>1. i - n \in 1..Len(t) /\ i = n + (i - n)
        BY <1>3, <2>1, <2>3
      <3>2. t[i - n] = "defines"
        BY <1>3, <2>1, <3>1
      <3>3. (i - n) - 1 \in 1..Len(t) /\ t[(i - n) - 1] = "<ClCompile Include>"
        BY <3>1, <3>2 DEF IsTail
      <3>4. n + ((i - n) - 1) = i - 1
        BY <1>3, <3>1
      <3>5. f[i - 1] = "<ClCompile Include>"
        BY <1>3, <3>3, <3>4
      <3>6. QED
        BY <2>1, <3>5
    <2>4. QED
      BY <2>2, <2>3
  <1>7. ASSUME NEW i, i \in 1..n, h[i] = "defines" PROVE i \in GlobalDefines(f)
    <2>1. i \in DOMAIN f /\ f[i] = "defines"
      BY <1>3, <1>7
    <2>2. i - 1 \in 1..n
      BY <1>5, <1>7
    <2>3. f[i - 1] # "<ClCompile Include>"
      BY <1>3, <1>4, <2>2
    <2>4. QED
      BY <2>1, <2>3 DEF GlobalDefines, Positions
  <1>8. GlobalDefines(f) # {} => <<"<ClCompile>", "defines">> \in seen
    BY <1>5, <1>6
  <1>9. <<"<ClCompile>", "defines">> \in seen => GlobalDefines(f) # {}
    <2>1. ASSUME <<"<ClCompile>", "defines">> \in seen
          PROVE  \E i \in 1..n : h[i] = "defines"
      BY <1>2, <2>1 DEF Reading, n
    <2>2. QED
      BY <1>7, <2>1
  <1>10. QED
    BY <1>6, <1>7, <1>8, <1>9 DEF f, n

LEMMA CoreInHead ==
    ASSUME NEW h, NEW seen, Reads("<Project>", h, "<Project>", seen), StaticSeen(seen),
           NEW t, IsTail(t), GlobalDefines(h \o t) # {}
    PROVE  WithCoreDefine(h \o t) = Substituted(h, "defines", <<"core;defines">>) \o t
  <1> DEFINE f == h \o t
             n == Len(h)
             m == Len(t)
             core == "core;defines"
             by == <<core>>
             global == GlobalDefines(f)
             p == [i \in 1..n |-> IF h[i] = "defines" THEN by ELSE <<h[i]>>]
             q == [i \in 1..n + m |-> IF i \in global THEN by ELSE <<f[i]>>]
  <1>1. h \in Seq(Text) /\ t \in Seq(Text)
    BY DEF Reads, IsTail
  <1>2. /\ f \in Seq(Text) /\ n \in Nat /\ m \in Nat /\ DOMAIN f = 1..n + m
        /\ \A i \in 1..n : i \in DOMAIN f /\ f[i] = h[i]
        /\ \A i \in 1..m : n + i \in DOMAIN f /\ f[n + i] = t[i]
    BY <1>1, Joined
  <1>3. \A i : i \in global <=> i \in 1..n /\ h[i] = "defines"
    BY GlobalIs
  <1>4. (\A i \in 1..n : h[i] \in Text) /\ DOMAIN h = 1..n /\ \A i \in 1..n + m : f[i] \in Text
    BY <1>1, <1>2, ElementOfSeq, LenProperties
  <1>5. core \in Text
    BY DEF Text
  <1> HIDE DEF core
  <1>6. by \in Seq(Text)
    BY <1>5
  <1>7. WithCoreDefine(f) = FlattenSeq(q)
    <2>1. WithCoreDefine(f) = FlattenSeq([i \in DOMAIN f |-> IF i \in global THEN by ELSE <<f[i]>>])
      BY Zenon DEF WithCoreDefine, Rewritten, core
    <2>2. QED
      BY <1>2, <2>1
  <1>8. Substituted(h, "defines", by) = FlattenSeq(p)
    BY <1>4 DEF Substituted, Rewritten
  <1> HIDE DEF f, n, m, by, global, Text
  <1>9. p \in Seq(Seq(Text)) /\ Len(p) = n
    <2>1. \A i \in 1..n : <<h[i]>> \in Seq(Text)
      BY <1>4
    <2> HIDE DEF q
    <2>2. QED
      BY <1>2, <1>6, <2>1
  <1>10. q \in [1..n + m -> Seq(Text)]
    <2>1. \A i \in 1..n + m : <<f[i]>> \in Seq(Text)
      BY <1>4
    <2> HIDE DEF p
    <2>2. QED
      BY <1>2, <1>6, <2>1
  <1>11. \A i \in 1..n : q[i] = p[i]
    BY <1>2, <1>3
  <1>12. \A i \in 1..m : q[n + i] = <<t[i]>>
    <2>1. \A i \in 1..m : n + i \notin 1..n /\ n + i \in 1..n + m
      BY <1>2
    <2>2. QED
      BY <1>2, <1>3, <2>1
  <1> HIDE DEF p, q
  <1>13. FlattenSeq(q) = FlattenSeq(p) \o t
    BY <1>1, <1>9, <1>10, <1>11, <1>12, PartsTail DEF m
  <1>14. WithCoreDefine(f) = Substituted(h, "defines", by) \o t
    BY <1>7, <1>8, <1>13
  <1>15. QED
    BY <1>14 DEF f, by, core

\* A line for a line.
LEMMA LineByLine ==
    ASSUME NEW h \in Seq(Text), NEW x, NEW y \in Text
    PROVE  /\ Substituted(h, x, <<y>>) \in Seq(Text)
           /\ Len(Substituted(h, x, <<y>>)) = Len(h)
           /\ \A i \in 1..Len(h) : Substituted(h, x, <<y>>)[i] = IF h[i] = x THEN y ELSE h[i]
  <1> DEFINE n == Len(h)
             r == [i \in 1..n |-> IF h[i] = x THEN y ELSE h[i]]
  <1>1. n \in Nat /\ DOMAIN h = 1..n /\ \A i \in 1..n : h[i] \in Text
    BY ElementOfSeq, LenProperties
  <1>2. Substituted(h, x, <<y>>) = FlattenSeq([i \in 1..n |-> IF h[i] = x THEN <<y>> ELSE <<h[i]>>])
    BY <1>1 DEF Substituted, Rewritten
  <1> HIDE DEF n, Text
  <1>3. r \in Seq(Text) /\ Len(r) = n /\ \A i \in 1..n : r[i] = IF h[i] = x THEN y ELSE h[i]
    BY <1>1
  <1>4. [i \in 1..n |-> IF h[i] = x THEN <<y>> ELSE <<h[i]>>] = [i \in 1..n |-> <<r[i]>>]
    BY <1>1
  <1> HIDE DEF r
  <1>5. FlattenSeq([i \in 1..n |-> <<r[i]>>]) = r
    BY <1>3, FlattenLines
  <1>6. Substituted(h, x, <<y>>) = r
    BY <1>2, <1>4, <1>5
  <1>7. QED
    BY <1>3, <1>6 DEF n

\* The first <ItemGroup> is the first line of the second part.
LEMMA FirstItem ==
    ASSUME NEW h \in Seq(Text), ~Occurs(h, "<ItemGroup>"), NEW t, IsTail(t)
    PROVE  Min(Positions(h \o t, "<ItemGroup>")) = Len(h) + 1
  <1> DEFINE f == h \o t
             S == Positions(f, "<ItemGroup>")
             n == Len(h)
  <1>1. t \in Seq(Text) /\ Len(t) > 0 /\ t[1] = "<ItemGroup>"
    BY DEF IsTail, Reads
  <1>2. /\ n \in Nat /\ Len(t) \in Nat /\ DOMAIN f = 1..n + Len(t)
        /\ \A i \in 1..n : i \in DOMAIN f /\ f[i] = h[i]
        /\ \A i \in 1..Len(t) : n + i \in DOMAIN f /\ f[n + i] = t[i]
    BY <1>1, Joined
  <1>3. DOMAIN h = 1..n
    BY LenProperties
  <1> HIDE DEF f, n
  <1>4. n + 1 \in S
    BY <1>1, <1>2 DEF Positions
  <1>5. \A i \in S : i \in Nat /\ i >= n + 1
    <2>1. ASSUME NEW i \in S PROVE i \in Nat /\ i >= n + 1
      <3>1. i \in 1..n + Len(t) /\ f[i] = "<ItemGroup>"
        BY <1>2 DEF Positions
      <3>2. i \notin 1..n
        <4>1. ASSUME i \in 1..n PROVE FALSE
          <5>1. h[i] = "<ItemGroup>"
            BY <1>2, <3>1, <4>1
          <5>2. QED
            BY <1>3, <4>1, <5>1 DEF Occurs
        <4>2. QED
          BY <4>1
      <3>3. QED
        BY <1>2, <3>1, <3>2
    <2>2. QED
      BY <2>1
  <1> HIDE DEF S
  <1>6. S \in SUBSET Nat /\ S # {}
    BY <1>4, <1>5
  <1>7. Min(S) \in S /\ \A x \in S : Min(S) <= x
    BY <1>6, MinIs
  <1>8. Min(S) = n + 1
    BY <1>2, <1>4, <1>5, <1>7
  <1>9. QED
    BY <1>8 DEF S, f, n

LEMMA SubSeqIs ==
    ASSUME NEW f \in Seq(Text), NEW a \in Nat, a # 0, NEW b \in Nat, b <= Len(f), a <= b + 1
    PROVE  /\ SubSeq(f, a, b) \in Seq(Text)
           /\ Len(SubSeq(f, a, b)) = (b + 1) - a
           /\ \A i \in 1..((b + 1) - a) :
                (i + a) - 1 \in 1..Len(f) /\ SubSeq(f, a, b)[i] = f[(i + a) - 1]
  <1>1. Len(f) \in Nat /\ DOMAIN f = 1..Len(f) /\ \A i \in 1..Len(f) : f[i] \in Text
    BY LenProperties, ElementOfSeq
  <1> HIDE DEF Text
  <1>2. \A i \in a..b : f[i] \in Text
    BY <1>1
  <1>3. /\ SubSeq(f, a, b) \in Seq(Text)
        /\ Len(SubSeq(f, a, b)) = IF a <= b THEN b - a + 1 ELSE 0
        /\ \A i \in 1..b - a + 1 : SubSeq(f, a, b)[i] = f[a + i - 1]
    BY <1>2, SubSeqProperties
  <1>4. /\ (b + 1) - a = b - a + 1
        /\ a > b => (b + 1) - a = 0
        /\ \A i \in 1..((b + 1) - a) : a + i - 1 = (i + a) - 1 /\ (i + a) - 1 \in 1..Len(f)
    BY <1>1
  <1>5. QED
    BY <1>3, <1>4

LEMMA Apart ==
    ASSUME NEW h \in Seq(Text), NEW z \in Seq(Text), NEW k \in 0..Len(z)
    PROVE  /\ SubSeq(h \o z, 1, Len(h) + k) = h \o SubSeq(z, 1, k)
           /\ SubSeq(h \o z, Len(h) + k + 1, Len(h \o z)) = SubSeq(z, k + 1, Len(z))
  <1> DEFINE f == h \o z
             n == Len(h)
             m == Len(z)
             a == SubSeq(f, 1, n + k)
             b == SubSeq(f, n + k + 1, n + m)
             c == SubSeq(z, 1, k)
             d == SubSeq(z, k + 1, m)
  <1>1. /\ f \in Seq(Text) /\ Len(f) = n + m /\ n \in Nat /\ m \in Nat
        /\ \A i \in 1..n : f[i] = h[i]
        /\ \A i \in 1..m : f[n + i] = z[i]
    BY Joined
  <1> HIDE DEF f
  <1>2. /\ c \in Seq(Text) /\ Len(c) = k /\ \A i \in 1..k : c[i] = z[i]
    <2>1. k \in Nat /\ 1 <= k + 1 /\ k <= Len(z) /\ (k + 1) - 1 = k /\ \A i \in 1..k : (i + 1) - 1 = i
      BY <1>1
    <2>2. c \in Seq(Text) /\ Len(c) = (k + 1) - 1 /\ \A i \in 1..((k + 1) - 1) : c[i] = z[(i + 1) - 1]
      BY <2>1, SubSeqIs
    <2>3. QED
      BY <2>1, <2>2
  <1>3. /\ a \in Seq(Text) /\ Len(a) = n + k /\ \A i \in 1..n + k : a[i] = f[i]
    <2>1. n + k \in Nat /\ 1 <= n + k + 1 /\ n + k <= Len(f) /\ (n + k + 1) - 1 = n + k
          /\ \A i \in 1..n + k : (i + 1) - 1 = i
      BY <1>1
    <2>2. a \in Seq(Text) /\ Len(a) = (n + k + 1) - 1
          /\ \A i \in 1..((n + k + 1) - 1) : a[i] = f[(i + 1) - 1]
      BY <1>1, <2>1, SubSeqIs
    <2>3. QED
      BY <2>1, <2>2
  <1>4. /\ d \in Seq(Text) /\ Len(d) = m - k /\ \A i \in 1..m - k : d[i] = z[i + k]
    <2>1. k + 1 \in Nat /\ k + 1 # 0 /\ k + 1 <= m + 1 /\ m <= Len(z) /\ (m + 1) - (k + 1) = m - k
          /\ \A i \in 1..m - k : (i + (k + 1)) - 1 = i + k
      BY <1>1
    <2>2. d \in Seq(Text) /\ Len(d) = (m + 1) - (k + 1)
          /\ \A i \in 1..((m + 1) - (k + 1)) : d[i] = z[(i + (k + 1)) - 1]
      BY <1>1, <2>1, SubSeqIs
    <2>3. QED
      BY <2>1, <2>2
  <1>5. /\ b \in Seq(Text) /\ Len(b) = m - k /\ \A i \in 1..m - k : b[i] = f[n + (i + k)]
    <2>1. n + k + 1 \in Nat /\ n + k + 1 # 0 /\ n + k + 1 <= n + m + 1 /\ n + m <= Len(f)
          /\ (n + m + 1) - (n + k + 1) = m - k /\ n + m \in Nat
          /\ \A i \in 1..m - k : (i + (n + k + 1)) - 1 = n + (i + k)
      BY <1>1
    <2>2. b \in Seq(Text) /\ Len(b) = (n + m + 1) - (n + k + 1)
          /\ \A i \in 1..((n + m + 1) - (n + k + 1)) : b[i] = f[(i + (n + k + 1)) - 1]
      BY <1>1, <2>1, SubSeqIs
    <2>3. QED
      BY <2>1, <2>2
  <1> HIDE DEF a, b, c, d, n, m, Text
  <1>6. b = d
    <2>1. \A i \in 1..m - k : i + k \in 1..m
      BY <1>1
    <2>2. \A i \in 1..Len(b) : b[i] = d[i]
      BY <1>1, <1>4, <1>5, <2>1
    <2>3. QED
      BY <1>4, <1>5, <2>2, SeqEqual
  <1>7. a = h \o c
    <2>1. /\ h \o c \in Seq(Text) /\ Len(h \o c) = n + k
          /\ \A i \in 1..n : (h \o c)[i] = h[i]
          /\ \A i \in 1..k : (h \o c)[n + i] = c[i]
      BY <1>2, Joined DEF n
    <2>2. ASSUME NEW i \in 1..n + k PROVE a[i] = (h \o c)[i]
      <3>1. CASE i \in 1..n
        BY <1>1, <1>3, <2>1, <3>1
      <3>2. CASE i \notin 1..n
        <4>1. i - n \in 1..k /\ i = n + (i - n) /\ i - n \in 1..m
          BY <1>1, <3>2 DEF m
        <4>2. a[i] = f[n + (i - n)] /\ f[n + (i - n)] = z[i - n]
          BY <1>1, <1>3, <4>1
        <4>3. (h \o c)[n + (i - n)] = c[i - n] /\ c[i - n] = z[i - n]
          BY <1>2, <2>1, <4>1
        <4>4. QED
          BY <4>1, <4>2, <4>3
      <3>3. QED
        BY <3>1, <3>2
    <2> DEFINE g == h \o c
    <2>3. g \in Seq(Text) /\ Len(g) = n + k /\ \A i \in 1..n + k : a[i] = g[i]
      BY <2>1, <2>2
    <2> HIDE DEF g
    <2>4. a = g
      BY <1>3, <2>3, SeqEqual
    <2>5. QED
      BY <2>4 DEF g
  <1>8. QED
    BY <1>1, <1>6, <1>7 DEF a, b, c, d, f, n, m

\* What is inserted in the second part.
LEMMA InsertJoined ==
    ASSUME NEW h \in Seq(Text), NEW z \in Seq(Text), NEW k \in 0..Len(z), NEW l \in Seq(Text)
    PROVE  InsertedAfter(h \o z, Len(h) + k, l) = h \o InsertedAfter(z, k, l)
  <1> DEFINE c == SubSeq(z, 1, k)
             d == SubSeq(z, k + 1, Len(z))
  <1>1. c \in Seq(Text) /\ d \in Seq(Text)
    <2>1. Len(z) \in Nat /\ k \in Nat
      BY LenProperties
    <2>2. 1 <= k + 1 /\ k <= Len(z) /\ k + 1 <= Len(z) + 1 /\ k + 1 \in Nat /\ k + 1 # 0
      BY <2>1
    <2>3. c \in Seq(Text)
      BY <2>1, <2>2, SubSeqIs
    <2>4. d \in Seq(Text)
      BY <2>1, <2>2, SubSeqIs
    <2>5. QED
      BY <2>3, <2>4
  <1>2. InsertedAfter(h \o z, Len(h) + k, l) = ((h \o c) \o l) \o d
    BY Apart DEF InsertedAfter
  <1>3. InsertedAfter(z, k, l) = (c \o l) \o d
    BY DEF InsertedAfter
  <1> HIDE DEF c, d, Text
  <1>4. /\ \A x, y \in Seq(Text) : x \o y \in Seq(Text)
        /\ \A x, y, w \in Seq(Text) : (x \o y) \o w = x \o (y \o w)
    BY ConcatProperties, ConcatAssociative
  <1>5. c \o l \in Seq(Text)
    BY <1>1, <1>4, Zenon
  <1>6. (h \o c) \o l = h \o (c \o l)
    BY <1>1, <1>4, Zenon
  <1>7. (h \o (c \o l)) \o d = h \o ((c \o l) \o d)
    BY <1>1, <1>4, <1>5, Zenon
  <1>8. QED
    BY <1>2, <1>3, <1>6, <1>7

LEMMA InsertOccurs ==
    ASSUME NEW f \in Seq(Text), NEW m \in 0..Len(f), NEW l \in Seq(Text)
    PROVE  /\ InsertedAfter(f, m, l) \in Seq(Text)
           /\ \A x : Occurs(InsertedAfter(f, m, l), x) <=> Occurs(f, x) \/ Occurs(l, x)
  <1> DEFINE c == SubSeq(f, 1, m)
             d == SubSeq(f, m + 1, Len(f))
  <1>1. Len(f) \in Nat /\ m \in Nat /\ DOMAIN f = 1..Len(f)
    BY LenProperties
  <1>2. c \in Seq(Text) /\ Len(c) = m /\ \A i \in 1..m : c[i] = f[i]
    <2>1. 1 <= m + 1 /\ m <= Len(f) /\ (m + 1) - 1 = m /\ \A i \in 1..m : (i + 1) - 1 = i
      BY <1>1
    <2>2. c \in Seq(Text) /\ Len(c) = (m + 1) - 1 /\ \A i \in 1..((m + 1) - 1) : c[i] = f[(i + 1) - 1]
      BY <1>1, <2>1, SubSeqIs
    <2>3. QED
      BY <2>1, <2>2
  <1>3. d \in Seq(Text) /\ Len(d) = Len(f) - m /\ \A i \in 1..Len(f) - m : d[i] = f[i + m]
    <2>1. m + 1 \in Nat /\ m + 1 # 0 /\ m + 1 <= Len(f) + 1 /\ (Len(f) + 1) - (m + 1) = Len(f) - m
          /\ \A i \in 1..Len(f) - m : (i + (m + 1)) - 1 = i + m
      BY <1>1
    <2>2. d \in Seq(Text) /\ Len(d) = (Len(f) + 1) - (m + 1)
          /\ \A i \in 1..((Len(f) + 1) - (m + 1)) : d[i] = f[(i + (m + 1)) - 1]
      BY <1>1, <2>1, SubSeqIs
    <2>3. QED
      BY <2>1, <2>2
  <1>4. DOMAIN c = 1..m /\ DOMAIN d = 1..Len(f) - m
    BY <1>2, <1>3, LenProperties
  <1>5. InsertedAfter(f, m, l) = (c \o l) \o d
    BY DEF InsertedAfter
  <1> HIDE DEF c, d, Text
  <1>6. c \o l \in Seq(Text)
    BY <1>2, ConcatProperties
  <1>7. (c \o l) \o d \in Seq(Text)
    BY <1>3, <1>6, ConcatProperties
  <1>8. ASSUME NEW x PROVE Occurs((c \o l) \o d, x) <=> Occurs(f, x) \/ Occurs(l, x)
    <2>1. Occurs((c \o l) \o d, x) <=> Occurs(c \o l, x) \/ Occurs(d, x)
      BY <1>3, <1>6, OccursConcat
    <2>2. Occurs(c \o l, x) <=> Occurs(c, x) \/ Occurs(l, x)
      BY <1>2, OccursConcat
    <2>3. Occurs(c, x) => Occurs(f, x)
      BY <1>1, <1>2, <1>4 DEF Occurs
    <2>4. Occurs(d, x) => Occurs(f, x)
      <3>1. \A i \in 1..Len(f) - m : i + m \in 1..Len(f)
        BY <1>1
      <3>2. QED
        BY <1>1, <1>3, <1>4, <3>1 DEF Occurs
    <2>5. ASSUME NEW i \in 1..Len(f), f[i] = x PROVE Occurs(c, x) \/ Occurs(d, x)
      <3>1. CASE i <= m
        <4>1. i \in 1..m
          BY <1>1, <3>1
        <4>2. QED
          BY <1>2, <1>4, <2>5, <4>1 DEF Occurs
      <3>2. CASE ~(i <= m)
        <4>1. i - m \in 1..Len(f) - m /\ (i - m) + m = i
          BY <1>1, <3>2
        <4>2. d[i - m] = x
          BY <1>3, <2>5, <4>1
        <4>3. QED
          BY <1>4, <4>1, <4>2 DEF Occurs
      <3>3. QED
        BY <3>1, <3>2
    <2>6. Occurs(f, x) => Occurs(c, x) \/ Occurs(d, x)
      BY <1>1, <2>5 DEF Occurs
    <2>7. QED
      BY <2>1, <2>2, <2>3, <2>4, <2>6
  <1>9. QED
    BY <1>5, <1>7, <1>8

\* Every section is closed at the end of the first part.
LEMMA SectionAfter ==
    ASSUME NEW h, NEW seen, Reads("<Project>", h, "<Project>", seen),
           NEW y \in Seq(Text), NEW tag \in {"<Link>", "<Lib>"}, ~Occurs(y, tag), NEW end,
           end = IF tag = "<Link>" THEN "</Link>" ELSE "</Lib>"
    PROVE  \A x : x \in Section(h \o y, tag, end) <=> x \in Section(h, tag, end)
  <1> DEFINE f == h \o y
             n == Len(h)
             Open(g, j) == \E k \in 1..j : g[k] = tag /\ \A m \in k..j : g[m] # end
  <1>1. h \in Seq(Text)
    BY DEF Reads
  <1>2. /\ f \in Seq(Text) /\ n \in Nat /\ Len(y) \in Nat /\ DOMAIN f = 1..n + Len(y)
        /\ \A i \in 1..n : i \in DOMAIN f /\ f[i] = h[i]
        /\ \A i \in 1..Len(y) : n + i \in DOMAIN f /\ f[n + i] = y[i]
        /\ \A i \in DOMAIN f : i \notin 1..n => i - n \in 1..Len(y) /\ i = n + (i - n)
    BY <1>1, Joined
  <1>3. DOMAIN h = 1..n /\ DOMAIN y = 1..Len(y)
    BY <1>1, LenProperties
  <1>4. PICK s : Reading(s, "<Project>", h, "<Project>", seen)
    BY DEF Reads
  <1>5. s[n] = "<Project>" /\ tag # "<Project>"
    BY <1>4 DEF Reading
  <1> HIDE DEF f, n
  <1>6. ASSUME NEW j \in 1..n PROVE Open(f, j) <=> Open(h, j)
    <2>1. \A k \in 1..j : k \in 1..n /\ \A m \in k..j : m \in 1..n
      BY <1>2
    <2>2. \A k \in 1..j : f[k] = h[k] /\ \A m \in k..j : f[m] = h[m]
      BY <1>2, <2>1
    <2>3. QED
      BY <2>2
  <1>7. ASSUME NEW j \in DOMAIN f, j \notin 1..n PROVE ~Open(f, j)
    <2>1. SUFFICES ASSUME NEW k \in 1..j, f[k] = tag, \A m \in k..j : f[m] # end PROVE FALSE
      BY DEF Open
    <2>2. k \in DOMAIN f /\ j \in Nat /\ j > n
      BY <1>2, <1>7
    <2>3. k \in 1..n
      <3>1. ASSUME k \notin 1..n PROVE FALSE
        <4>1. k - n \in 1..Len(y) /\ k = n + (k - n)
          BY <1>2, <2>2, <3>1
        <4>2. y[k - n] = tag
          BY <1>2, <2>1, <4>1
        <4>3. QED
          BY <1>3, <4>1, <4>2 DEF Occurs
      <3>2. QED
        BY <3>1
    <2>4. n \in 1..n /\ \A m \in k..n : m \in k..j /\ m \in 1..n
      BY <1>2, <2>2, <2>3
    <2>5. h[k] = tag /\ \A m \in k..n : h[m] # end
      BY <1>2, <2>1, <2>3, <2>4
    <2>6. s[n] = tag
      <3>1. s[n] = tag <=> \E l \in 1..n : h[l] = tag /\ \A m \in l..n : h[m] # end
        BY <1>1, <1>4, <2>4, OpenState DEF n
      <3>2. QED
        BY <2>3, <2>5, <3>1
    <2>7. QED
      BY <1>5, <2>6
  <1>8. /\ \A x : x \in Section(f, tag, end) <=>
                \E j \in DOMAIN f : x = f[j] /\ f[j] \notin {tag, end} /\ Open(f, j)
        /\ \A x : x \in Section(h, tag, end) <=>
                \E j \in DOMAIN h : x = h[j] /\ h[j] \notin {tag, end} /\ Open(h, j)
    BY DEF Section
  <1> HIDE DEF Open
  <1>9. \A x : x \in Section(f, tag, end) <=> x \in Section(h, tag, end)
    <2>1. ASSUME NEW x, x \in Section(f, tag, end) PROVE x \in Section(h, tag, end)
      <3>1. PICK j \in DOMAIN f : x = f[j] /\ f[j] \notin {tag, end} /\ Open(f, j)
        BY <1>8, <2>1
      <3>2. j \in 1..n
        BY <1>7, <3>1
      <3>3. QED
        BY <1>2, <1>3, <1>6, <1>8, <3>1, <3>2
    <2>2. ASSUME NEW x, x \in Section(h, tag, end) PROVE x \in Section(f, tag, end)
      <3>1. PICK j \in DOMAIN h : x = h[j] /\ h[j] \notin {tag, end} /\ Open(h, j)
        BY <1>8, <2>2
      <3>2. QED
        BY <1>2, <1>3, <1>6, <1>8, <3>1
    <2>3. QED
      BY <2>1, <2>2
  <1>10. QED
    BY <1>9 DEF f

\* What is linked with the first part is given to lib.exe.
LEMMA StaticSections ==
    ASSUME NEW h, NEW seen, Reads("<Project>", h, "<Project>", seen), StaticSeen(seen),
           NEW y \in Seq(Text), ~Occurs(y, "<Link>"), ~Occurs(y, "<Lib>")
    PROVE  Section(h \o y, "<Link>", "</Link>") \subseteq Section(h \o y, "<Lib>", "</Lib>")
  <1>1. ASSUME NEW x, x \in Section(h, "<Link>", "</Link>")
        PROVE  x \in Section(h, "<Lib>", "</Lib>")
    <2>1. \A z : z \in Section(h, "<Link>", "</Link>") <=> z # "<Link>" /\ <<"<Link>", z>> \in seen
      BY SectionRead
    <2>2. \A z : z \in Section(h, "<Lib>", "</Lib>") <=> z # "<Lib>" /\ <<"<Lib>", z>> \in seen
      BY SectionRead
    <2>3. x # "<Link>" /\ <<"<Link>", x>> \in seen
      BY <1>1, <2>1
    <2>4. <<"<Lib>", x>> \in seen
      BY <2>3, Zenon DEF StaticSeen
    <2>5. x # "<Lib>"
      <3>1. x = "<Lib>" => "<Link>" = "<Lib>"
        BY <2>3, Zenon DEF StaticSeen
      <3>2. QED
        BY <3>1
    <2>6. QED
      BY <2>2, <2>4, <2>5
  <1>2. \A x : x \in Section(h \o y, "<Link>", "</Link>") <=> x \in Section(h, "<Link>", "</Link>")
    BY SectionAfter
  <1>3. \A x : x \in Section(h \o y, "<Lib>", "</Lib>") <=> x \in Section(h, "<Lib>", "</Lib>")
    BY SectionAfter
  <1>4. QED
    BY <1>1, <1>2, <1>3

LEMMA StaticLacks ==
    ASSUME NEW h, NEW seen, Reads("<Project>", h, "<Project>", seen), StaticSeen(seen), NEW x,
           x \notin StaticText
    PROVE  h \in Seq(Text) /\ ~Occurs(h, x)
  <1>1. \A in : <<in, x>> \notin seen
    BY DEF StaticSeen
  <1>2. QED
    BY <1>1, OccursRead DEF Reads

Reference == <<"<ProjectReference>", "LinkLibraryDependencies", "</ProjectReference>">>

LEMMA ReferenceRead ==
    /\ Reference \in Seq(Text)
    /\ Reads("<ItemDefinitionGroup>", Reference, "<ItemDefinitionGroup>",
             {<<"<ProjectReference>", "<ProjectReference>">>,
              <<"<ProjectReference>", "LinkLibraryDependencies">>,
              <<"<ItemDefinitionGroup>", "</ProjectReference>">>})
    /\ \A x : Occurs(Reference, x) <=>
            x \in {"<ProjectReference>", "LinkLibraryDependencies", "</ProjectReference>"}
  <1> DEFINE group == "<ItemDefinitionGroup>"
             open == "<ProjectReference>"
             line == "LinkLibraryDependencies"
             close == "</ProjectReference>"
  <1>1. group \in Text /\ open \in Text /\ line \in Text /\ close \in Text
    BY DEF Text, Tags
  <1>2. line \in Settings
    BY DEF Settings
  <1>3. Inside(open, line) = open
    <2>1. Plain(line)
      BY <1>2, SettingsPlain
    <2>2. QED
      BY <2>1, InsidePlain DEF Plain
  <1>4. /\ Inside(group, open) = open /\ Inside(open, close) = group
        /\ open # "error" /\ group # "error"
    BY Moves
  <1>5. Reference = <<open, line, close>>
    BY DEF Reference
  <1>6. \A in, x : <<in, x>> \in {<<open, open>>, <<open, line>>, <<group, close>>} =>
            x \in {open, line, close}
    OBVIOUS
  <1> HIDE DEF group, open, line, close
  <1>7. Reads(group, Reference, group, {<<open, open>>, <<open, line>>, <<group, close>>})
    BY <1>1, <1>3, <1>4, <1>5, ReadsThree
  <1>8. \A x : Occurs(Reference, x) <=>
            \E in : <<in, x>> \in {<<open, open>>, <<open, line>>, <<group, close>>}
    BY <1>7, OccursRead
  <1>9. \A x : Occurs(Reference, x) <=> x \in {open, line, close}
    <2>1. ASSUME NEW x, Occurs(Reference, x) PROVE x \in {open, line, close}
      BY <1>6, <1>8, <2>1
    <2>2. Occurs(Reference, open) /\ Occurs(Reference, line) /\ Occurs(Reference, close)
      BY <1>8
    <2>3. QED
      BY <2>1, <2>2
  <1>10. Reference \in Seq(Text)
    BY <1>7 DEF Reads
  <1> HIDE DEF Reads
  <1>11. QED
    BY <1>7, <1>9, <1>10 DEF group, open, line, close

LEMMA CoreRead ==
    \E seen :
        /\ Reads("<Project>", CoreDefinition, "<Project>", seen)
        /\ \A x : Occurs(CoreDefinition, x) <=>
            x \in {"<ItemDefinitionGroup>", "<ClCompile>", "core;defines", "</ClCompile>",
                   "</ItemDefinitionGroup>"}
        /\ Len(CoreDefinition) = 5
  <1> DEFINE group == "<ItemDefinitionGroup>"
             comp == "<ClCompile>"
             core == "core;defines"
             endcomp == "</ClCompile>"
             endgroup == "</ItemDefinitionGroup>"
             project == "<Project>"
  <1>1. CoreDefinition = <<group, comp, core, endcomp, endgroup>>
    BY DEF CoreDefinition
  <1>2. core \in Settings
    BY DEF Settings
  <1>3. core \in Text /\ \A in : Inside(in, core) = in
    <2>1. Plain(core)
      BY <1>2, SettingsPlain
    <2>2. QED
      BY <2>1, InsidePlain DEF Plain
  <1>4. /\ group \in Text /\ comp \in Text /\ endcomp \in Text /\ endgroup \in Text
        /\ project \in Text
    BY DEF Text, Tags
  <1>5. /\ Inside(project, group) = group /\ Inside(group, comp) = comp
        /\ Inside(comp, endcomp) = group /\ Inside(group, endgroup) = project
        /\ group # "error" /\ comp # "error" /\ project # "error"
    BY Moves
  <1> HIDE DEF group, comp, core, endcomp, endgroup, project
  <1> DEFINE f == <<group, comp, core, endcomp, endgroup>>
             states == <<group, comp, comp, group, project>>
  <1>6. f \in Seq(Text) /\ states \in Seq(Text) /\ Len(f) = 5 /\ Len(states) = 5
    BY <1>3, <1>4
  <1>7. /\ f[1] = group /\ f[2] = comp /\ f[3] = core /\ f[4] = endcomp /\ f[5] = endgroup
        /\ states[1] = group /\ states[2] = comp /\ states[3] = comp /\ states[4] = group
        /\ states[5] = project
    OBVIOUS
  <1> HIDE DEF f, states
  <1>8. ASSUME NEW i \in 1..5
        PROVE  /\ states[i] # "error"
               /\ states[i] = Inside(IF i = 1 THEN project ELSE states[i - 1], f[i])
    <2>1. CASE i = 1
      BY <1>5, <1>7, <2>1
    <2>2. CASE i = 2
      <3>1. i - 1 = 1
        BY <2>2
      <3>2. QED
        BY <1>5, <1>7, <2>2, <3>1
    <2>3. CASE i = 3
      <3>1. i - 1 = 2
        BY <2>3
      <3>2. QED
        BY <1>3, <1>5, <1>7, <2>3, <3>1
    <2>4. CASE i = 4
      <3>1. i - 1 = 3
        BY <2>4
      <3>2. QED
        BY <1>5, <1>7, <2>4, <3>1
    <2>5. CASE i = 5
      <3>1. i - 1 = 4
        BY <2>5
      <3>2. QED
        BY <1>5, <1>7, <2>5, <3>1
    <2>6. QED
      BY <2>1, <2>2, <2>3, <2>4, <2>5
  <1>9. 5 \in Nat \ {0}
    OBVIOUS
  <1>10. PICK seen : /\ Reads(project, f, states[5], seen)
                     /\ \A z : z \in seen <=> \E i \in 1..5 : z = <<states[i], f[i]>>
    BY <1>4, <1>6, <1>8, <1>9, LinesRead
  <1>11. Reads(project, CoreDefinition, project, seen)
    BY <1>1, <1>7, <1>10 DEF f
  <1>12. DOMAIN f = 1..5
    BY <1>6, LenProperties
  <1>13. \A x : Occurs(f, x) <=> x \in {group, comp, core, endcomp, endgroup}
    <2>1. \A i \in 1..5 : i = 1 \/ i = 2 \/ i = 3 \/ i = 4 \/ i = 5
      OBVIOUS
    <2>2. ASSUME NEW x, Occurs(f, x) PROVE x \in {group, comp, core, endcomp, endgroup}
      <3>1. PICK i \in 1..5 : f[i] = x
        BY <1>12, <2>2 DEF Occurs
      <3>2. QED
        BY <1>7, <2>1, <3>1
    <2>3. ASSUME NEW x \in {group, comp, core, endcomp, endgroup} PROVE Occurs(f, x)
      <3>1. {1, 2, 3, 4, 5} \subseteq DOMAIN f
        BY <1>12
      <3>2. QED
        BY <1>7, <3>1 DEF Occurs
    <2>4. QED
      BY <2>2, <2>3
  <1> HIDE DEF Reads
  <1>14. f = CoreDefinition
    BY <1>1 DEF f
  <1>15. QED
    BY <1>6, <1>11, <1>13, <1>14 DEF group, comp, core, endcomp, endgroup, project

\* A group of its own.
LEMMA CoreApart ==
    ASSUME NEW h, NEW seen, Reads("<Project>", h, "<Project>", seen), StaticSeen(seen),
           NEW t, IsTail(t), GlobalDefines(h \o t) = {}
    PROVE  WithCoreDefine(h \o t) = h \o (CoreDefinition \o t)
  <1> DEFINE f == h \o t
  <1>1. h \in Seq(Text) /\ ~Occurs(h, "<ItemGroup>")
    BY StaticLacks DEF StaticText
  <1>2. t \in Seq(Text) /\ CoreDefinition \in Seq(Text)
    BY CoreRead DEF IsTail, Reads
  <1>3. Len(h) \in Nat /\ Len(t) \in Nat
    BY <1>1, <1>2, LenProperties
  <1>4. Min(Positions(f, "<ItemGroup>")) = Len(h) + 1
    BY <1>1, FirstItem
  <1>5. (Len(h) + 1) - 1 = Len(h) + 0 /\ 0 \in 0..Len(t)
    BY <1>3
  <1>6. WithCoreDefine(f) = InsertedAfter(f, (Len(h) + 1) - 1, CoreDefinition)
    BY <1>4, Zenon DEF WithCoreDefine
  <1>7. InsertedAfter(f, Len(h) + 0, CoreDefinition) = h \o InsertedAfter(t, 0, CoreDefinition)
    BY <1>1, <1>2, <1>5, InsertJoined
  <1>8. InsertedAfter(t, 0, CoreDefinition) = CoreDefinition \o t
    <2>1. SubSeq(t, 1, 0) = <<>> /\ SubSeq(t, 0 + 1, Len(t)) = t
      <3>1. /\ SubSeq(t, 1, 0) = <<>>
        BY <1>2, SubSeqEmpty
      <3> DEFINE u == SubSeq(t, 0 + 1, Len(t))
      <3>2. 0 + 1 \in Nat /\ 0 + 1 # 0 /\ 0 + 1 <= Len(t) + 1 /\ Len(t) <= Len(t)
            /\ (Len(t) + 1) - (0 + 1) = Len(t) /\ \A i \in 1..Len(t) : (i + (0 + 1)) - 1 = i
        BY <1>3
      <3>3. u \in Seq(Text) /\ Len(u) = (Len(t) + 1) - (0 + 1)
            /\ \A i \in 1..((Len(t) + 1) - (0 + 1)) : u[i] = t[(i + (0 + 1)) - 1]
        BY <1>2, <1>3, <3>2, SubSeqIs
      <3>4. Len(u) = Len(t) /\ \A i \in 1..Len(u) : u[i] = t[i]
        BY <3>2, <3>3
      <3> HIDE DEF u
      <3>5. u = t
        BY <1>2, <3>3, <3>4, SeqEqual
      <3>6. QED
        BY <3>1, <3>5 DEF u
    <2>2. InsertedAfter(t, 0, CoreDefinition) = (<<>> \o CoreDefinition) \o t
      BY <2>1, Zenon DEF InsertedAfter
    <2>3. <<>> \o CoreDefinition = CoreDefinition
      BY <1>2, ConcatEmptySeq
    <2>4. QED
      BY <2>2, <2>3
  <1>9. QED
    BY <1>5, <1>6, <1>7, <1>8 DEF f

-----------------------------------------------------------------------------
(* What a project is after its conversion.                                 *)
IsConverted(f, depends) ==
    /\ Occurs(f, "StaticLibrary") /\ Occurs(f, ".lib") /\ Occurs(f, "core;defines")
    /\ Section(f, "<Link>", "</Link>") \subseteq Section(f, "<Lib>", "</Lib>")
    /\ depends <=> Occurs(f, "<ProjectReference>")

LEMMA ReadConverted ==
    ASSUME NEW f, NEW seen, Reads("<Project>", f, "<Project>", seen), NEW depends,
           <<"<Project>", "StaticLibrary">> \in seen, <<"<Project>", ".lib">> \in seen,
           <<"<ClCompile>", "core;defines">> \in seen,
           \A y : y # "<Link>" /\ <<"<Link>", y>> \in seen => y # "<Lib>" /\ <<"<Lib>", y>> \in seen,
           depends <=> \E in : <<in, "<ProjectReference>">> \in seen
    PROVE  WellNested(f) /\ IsConverted(f, depends)
  <1>1. WellNested(f)
    BY ReadsNested
  <1>2. Occurs(f, "StaticLibrary") /\ Occurs(f, ".lib") /\ Occurs(f, "core;defines")
    BY OccursRead
  <1>3. depends <=> Occurs(f, "<ProjectReference>")
    BY OccursRead
  <1>4. \A z : z \in Section(f, "<Link>", "</Link>") <=> z # "<Link>" /\ <<"<Link>", z>> \in seen
    BY SectionRead
  <1>5. \A z : z \in Section(f, "<Lib>", "</Lib>") <=> z # "<Lib>" /\ <<"<Lib>", z>> \in seen
    BY SectionRead
  <1>6. Section(f, "<Link>", "</Link>") \subseteq Section(f, "<Lib>", "</Lib>")
    BY <1>4, <1>5
  <1>7. QED
    BY <1>1, <1>2, <1>3, <1>6 DEF IsConverted

\* With definitions of its own.
LEMMA WithDefinitions ==
    ASSUME NEW h, NEW seen, Reads("<Project>", h, "<Project>", seen), StaticSeen(seen),
           NEW t, IsTail(t), <<"<ClCompile>", "defines">> \in seen
    PROVE  /\ WellNested(WithCoreDefine(h \o t))
           /\ IsConverted(WithCoreDefine(h \o t), FALSE)
           /\ WellNested(InsertedAfter(WithCoreDefine(h \o t), ReferenceLine(h \o t), Reference))
           /\ IsConverted(InsertedAfter(WithCoreDefine(h \o t), ReferenceLine(h \o t), Reference),
                          TRUE)
  <1> DEFINE defines == "defines"
             core == "core;defines"
             group == "<ItemDefinitionGroup>"
             d == Substituted(h, "defines", <<"core;defines">>)
             g == d \o t
             m == ReferenceLine(h \o t)
             ref == {<<"<ProjectReference>", "<ProjectReference>">>,
                     <<"<ProjectReference>", "LinkLibraryDependencies">>,
                     <<"<ItemDefinitionGroup>", "</ProjectReference>">>}
  <1>1. GlobalDefines(h \o t) # {}
    BY GlobalIs
  <1>2. WithCoreDefine(h \o t) = g
    BY <1>1, CoreInHead
  <1>3. h \in Seq(Text) /\ t \in Seq(Text)
    BY DEF Reads, IsTail
  <1>4. defines \in Settings /\ core \in Settings /\ core \in Text
    BY DEF Settings, Text
  <1>5. PICK seen1 :
            /\ Reads("<Project>", d, "<Project>", seen1)
            /\ \A in, z : <<in, z>> \in seen1 <=>
                \/ z # "defines" /\ <<in, z>> \in seen
                \/ <<in, "defines">> \in seen /\ z = "core;defines"
    <2>1. \E s :
            /\ Reads("<Project>", Substituted(h, defines, <<core>>), "<Project>", s)
            /\ \A in, z : <<in, z>> \in s <=>
                \/ z # defines /\ <<in, z>> \in seen
                \/ <<in, defines>> \in seen /\ z = core
      <3> HIDE DEF defines, core
      <3>1. QED
        BY <1>4, RenamedRead
    <2>2. QED
      BY <2>1, Zenon DEF defines, core
  <1>6. PICK seen2 : Reads("<Project>", t, "<Project>", seen2) /\ seen2 \subseteq TailSeen
    BY DEF IsTail
  <1> DEFINE all == seen1 \cup seen2
  <1>7. Reads("<Project>", g, "<Project>", all)
    BY <1>5, <1>6, ReadsOn
  <1>8. /\ <<"<Project>", "StaticLibrary">> \in all /\ <<"<Project>", ".lib">> \in all
        /\ <<"<ClCompile>", "core;defines">> \in all
    BY <1>5 DEF StaticSeen
  <1>9. \A in, z : <<in, z>> \in seen1 =>
            \/ z \in StaticText /\ z # "defines" /\ <<in, z>> \in seen
            \/ in = "<ClCompile>" /\ z = "core;defines"
    BY <1>5 DEF StaticSeen
  <1>10. \A in, z : <<in, z>> \in seen2 => in # "<Link>" /\ z # "<ProjectReference>"
    BY <1>6 DEF TailSeen
  <1>11. ASSUME NEW y, y # "<Link>", <<"<Link>", y>> \in all
         PROVE  y # "<Lib>" /\ <<"<Lib>", y>> \in all
    <2>1. <<"<Link>", y>> \in seen1
      BY <1>10, <1>11
    <2>2. y \in StaticText /\ y # "defines" /\ <<"<Link>", y>> \in seen
      <3>1. "<Link>" # "<ClCompile>"
        OBVIOUS
      <3>2. QED
        BY <1>9, <2>1, <3>1, Zenon
    <2>3. <<"<Lib>", y>> \in seen
      BY <1>11, <2>2, Zenon DEF StaticSeen
    <2>4. y # "<Lib>"
      <3>1. y = "<Lib>" => "<Link>" = "<Lib>"
        BY <2>2, Zenon DEF StaticSeen
      <3>2. QED
        BY <3>1
    <2>5. <<"<Lib>", y>> \in seen1
      BY <1>5, <2>2, <2>3, Zenon
    <2>6. QED
      BY <2>4, <2>5
  <1>12. \A in : <<in, "<ProjectReference>">> \notin all
    <2>1. "<ProjectReference>" \notin StaticText /\ "<ProjectReference>" # "core;defines"
      BY DEF StaticText
    <2>2. QED
      BY <1>9, <1>10, <2>1
  <1> HIDE DEF all
  <1>13. WellNested(g) /\ IsConverted(g, FALSE)
    <2>1. FALSE <=> \E in : <<in, "<ProjectReference>">> \in all
      BY <1>12
    <2> HIDE DEF Reads, g
    <2>2. QED
      BY <1>7, <1>8, <1>11, <2>1, ReadConverted
  <1>14. m \in 1..Len(g) /\ g[m] = group
    <2> DEFINE S == Positions(h \o t, "<ItemDefinitionGroup>")
               n == Len(h)
    <2>1. m = Min(S)
      BY <1>1 DEF ReferenceLine
    <2>2. <<"<ItemDefinitionGroup>", "<ItemDefinitionGroup>">> \in seen
      BY DEF StaticSeen
    <2>3. Occurs(h, "<ItemDefinitionGroup>")
      BY <2>2, OccursRead
    <2>4. /\ n \in Nat /\ Len(t) \in Nat /\ DOMAIN (h \o t) = 1..n + Len(t)
          /\ \A i \in 1..n : i \in DOMAIN (h \o t) /\ (h \o t)[i] = h[i]
      BY <1>3, Joined
    <2>5. PICK k \in 1..n : h[k] = "<ItemDefinitionGroup>"
      <3>1. DOMAIN h = 1..n
        BY <1>3, LenProperties
      <3>2. QED
        BY <2>3, <3>1 DEF Occurs
    <2>6. k \in S
      BY <2>4, <2>5 DEF Positions
    <2>7. S \in SUBSET Nat /\ S # {}
      BY <2>4, <2>6 DEF Positions
    <2>8. S \subseteq DOMAIN (h \o t) /\ \A i \in S : (h \o t)[i] = "<ItemDefinitionGroup>"
      BY DEF Positions
    <2> HIDE DEF S, n, m
    <2>9. Min(S) \in S /\ \A x \in S : Min(S) <= x
      BY <2>7, MinIs
    <2>10. m \in 1..n
      <3>1. m \in S /\ m <= k /\ m \in 1..n + Len(t)
        BY <2>1, <2>4, <2>6, <2>8, <2>9
      <3>2. QED
        BY <2>4, <2>5, <3>1
    <2>11. h[m] = "<ItemDefinitionGroup>"
      <3>1. (h \o t)[m] = h[m] /\ m \in S
        BY <2>1, <2>4, <2>9, <2>10
      <3>2. QED
        BY <2>8, <3>1
    <2>12. /\ d \in Seq(Text) /\ Len(d) = n
           /\ \A i \in 1..n : d[i] = IF h[i] = "defines" THEN "core;defines" ELSE h[i]
      <3>1. /\ Substituted(h, defines, <<core>>) \in Seq(Text)
            /\ Len(Substituted(h, defines, <<core>>)) = Len(h)
            /\ \A i \in 1..Len(h) :
                Substituted(h, defines, <<core>>)[i] = IF h[i] = defines THEN core ELSE h[i]
        <4> HIDE DEF defines, core
        <4>1. QED
          BY <1>3, <1>4, LineByLine
      <3>2. QED
        BY <3>1, Zenon DEF defines, core, n
    <2>13. d[m] = "<ItemDefinitionGroup>"
      <3>1. "<ItemDefinitionGroup>" # "defines"
        OBVIOUS
      <3>2. QED
        BY <2>10, <2>11, <2>12, <3>1, Zenon
    <2> HIDE DEF d
    <2>14. Len(d \o t) = n + Len(t) /\ (d \o t)[m] = d[m]
      BY <1>3, <2>10, <2>12, Joined
    <2>15. QED
      BY <2>4, <2>10, <2>13, <2>14
  <1>15. group \in Tags
    BY DEF Tags
  <1> HIDE DEF g, m
  <1>16. PICK c, s1, s2 :
            /\ c \in Text
            /\ Reads("<Project>", SubSeq(g, 1, m), c, s1)
            /\ Reads(c, SubSeq(g, m + 1, Len(g)), "<Project>", s2)
            /\ all = s1 \cup s2
            /\ m # 0 /\ g[m] \in Tags => c = g[m]
    <2>1. g \in Seq(Text) /\ Len(g) \in Nat
      BY <1>7, LenProperties DEF Reads
    <2>2. m \in 0..Len(g)
      BY <1>14, <2>1
    <2>3. PICK b, seen3, seen4 :
            /\ b \in Text
            /\ Reads("<Project>", SubSeq(g, 1, m), b, seen3)
            /\ Reads(b, SubSeq(g, m + 1, Len(g)), "<Project>", seen4)
            /\ all = seen3 \cup seen4
            /\ m = 0 => b = "<Project>"
            /\ m # 0 => <<b, g[m]>> \in all /\ b # "error" /\ (g[m] \in Tags => b = g[m])
      <3> DEFINE project == "<Project>"
      <3>1. Reads(project, g, project, all)
        BY <1>7
      <3> HIDE DEF project
      <3>2. \E b, seen3, seen4 :
            /\ b \in Text
            /\ Reads(project, SubSeq(g, 1, m), b, seen3)
            /\ Reads(b, SubSeq(g, m + 1, Len(g)), project, seen4)
            /\ all = seen3 \cup seen4
            /\ m = 0 => b = project
            /\ m # 0 => <<b, g[m]>> \in all /\ b # "error" /\ (g[m] \in Tags => b = g[m])
        BY <2>2, <3>1, ReadsSplit
      <3>3. QED
        BY <3>2, Zenon DEF project
    <2>4. QED
      BY <2>3
  <1>17. c = group
    <2>1. m # 0
      BY <1>14
    <2>2. QED
      BY <1>14, <1>15, <1>16, <2>1
  <1> DEFINE f == InsertedAfter(g, m, Reference)
             more == (s1 \cup ref) \cup s2
  <1>18. Reads("<Project>", f, "<Project>", more)
    <2>1. Reads(group, Reference, group, ref)
      BY ReferenceRead
    <2> HIDE DEF ref, Reads, group
    <2>2. Reads("<Project>", SubSeq(g, 1, m) \o Reference, group, s1 \cup ref)
      BY <1>16, <1>17, <2>1, ReadsOn
    <2>3. Reads("<Project>", SubSeq(g, 1, m) \o Reference \o SubSeq(g, m + 1, Len(g)),
                "<Project>", more)
      BY <1>16, <1>17, <2>2, ReadsOn
    <2>4. QED
      BY <2>3 DEF InsertedAfter
  <1>19. \A z : z \in more <=> z \in all \/ z \in ref
    BY <1>16
  <1>20. /\ <<"<ProjectReference>", "<ProjectReference>">> \in ref
         /\ \A y : <<"<Link>", y>> \notin ref
    OBVIOUS
  <1> HIDE DEF f, more, ref
  <1>21. WellNested(f) /\ IsConverted(f, TRUE)
    <2>1. /\ <<"<Project>", "StaticLibrary">> \in more /\ <<"<Project>", ".lib">> \in more
          /\ <<"<ClCompile>", "core;defines">> \in more
      BY <1>8, <1>19
    <2>2. \A y : y # "<Link>" /\ <<"<Link>", y>> \in more => y # "<Lib>" /\ <<"<Lib>", y>> \in more
      BY <1>11, <1>19, <1>20, Zenon
    <2>3. TRUE <=> \E in : <<in, "<ProjectReference>">> \in more
      BY <1>19, <1>20
    <2> HIDE DEF Reads
    <2>4. QED
      BY <1>18, <2>1, <2>2, <2>3, ReadConverted
  <1>22. QED
    BY <1>2, <1>13, <1>21 DEF f, m

\* Lines that are put between the two parts, or into the second, and are no settings of a section.
LEMMA InBetween ==
    ASSUME NEW h, NEW seen, Reads("<Project>", h, "<Project>", seen), StaticSeen(seen),
           NEW y \in Seq(Text), ~Occurs(y, "<Link>"), ~Occurs(y, "<Lib>"),
           Occurs(y, "core;defines"), NEW depends, depends <=> Occurs(y, "<ProjectReference>")
    PROVE  IsConverted(h \o y, depends)
  <1>1. h \in Seq(Text) /\ ~Occurs(h, "<ProjectReference>")
    BY StaticLacks DEF StaticText
  <1>2. Occurs(h, "StaticLibrary") /\ Occurs(h, ".lib")
    <2>1. <<"<Project>", "StaticLibrary">> \in seen /\ <<"<Project>", ".lib">> \in seen
      BY DEF StaticSeen
    <2>2. QED
      BY <2>1, OccursRead
  <1>3. Section(h \o y, "<Link>", "</Link>") \subseteq Section(h \o y, "<Lib>", "</Lib>")
    BY StaticSections
  <1> HIDE DEF Text
  <1>4. Occurs(h \o y, "StaticLibrary") /\ Occurs(h \o y, ".lib")
    BY <1>1, <1>2, OccursConcat
  <1>5. Occurs(h \o y, "core;defines")
    BY <1>1, OccursConcat
  <1>6. Occurs(h \o y, "<ProjectReference>") <=> Occurs(y, "<ProjectReference>")
    BY <1>1, OccursConcat
  <1>7. QED
    BY <1>3, <1>4, <1>5, <1>6, Zenon DEF IsConverted

\* Without definitions of its own.
LEMMA WithoutDefinitions ==
    ASSUME NEW h, NEW seen, Reads("<Project>", h, "<Project>", seen), StaticSeen(seen),
           NEW t, IsTail(t), <<"<ClCompile>", "defines">> \notin seen
    PROVE  /\ WellNested(WithCoreDefine(h \o t))
           /\ IsConverted(WithCoreDefine(h \o t), FALSE)
           /\ IsConverted(InsertedAfter(WithCoreDefine(h \o t), ReferenceLine(h \o t), Reference),
                          TRUE)
  <1> DEFINE z == CoreDefinition \o t
             w == InsertedAfter(z, 2, Reference)
  <1>1. GlobalDefines(h \o t) = {}
    BY GlobalIs
  <1>2. WithCoreDefine(h \o t) = h \o z
    BY <1>1, CoreApart
  <1>3. h \in Seq(Text) /\ t \in Seq(Text) /\ Reference \in Seq(Text)
    BY ReferenceRead DEF Reads, IsTail
  <1>4. PICK seen1 :
        /\ Reads("<Project>", CoreDefinition, "<Project>", seen1)
        /\ \A x : Occurs(CoreDefinition, x) <=>
            x \in {"<ItemDefinitionGroup>", "<ClCompile>", "core;defines", "</ClCompile>",
                   "</ItemDefinitionGroup>"}
        /\ Len(CoreDefinition) = 5
    BY CoreRead
  <1>5. PICK seen2 : Reads("<Project>", t, "<Project>", seen2)
    BY DEF IsTail
  <1>6. CoreDefinition \in Seq(Text)
    BY <1>4 DEF Reads
  <1>7. z \in Seq(Text) /\ Len(z) = 5 + Len(t) /\ Len(t) \in Nat /\ Len(h) \in Nat
    <2>1. z \in Seq(Text) /\ Len(z) = Len(CoreDefinition) + Len(t)
      BY <1>3, <1>6, Joined
    <2>2. QED
      BY <1>3, <1>4, <2>1, LenProperties
  <1>8. \A x \in {"<Link>", "<Lib>", "<ProjectReference>"} :
            ~Occurs(t, x) /\ ~Occurs(CoreDefinition, x)
    <2>1. ASSUME NEW x \in {"<Link>", "<Lib>", "<ProjectReference>"} PROVE ~Occurs(t, x)
      <3>1. x \notin {"<ItemGroup>", "<ClCompile Include>", "defines", "</ClCompile Include>",
                      "</ItemGroup>"}
        OBVIOUS
      <3>2. QED
        BY <3>1, TailLacks
    <2>2. QED
      BY <1>4, <2>1
  <1>9. \A x : Occurs(z, x) <=> Occurs(CoreDefinition, x) \/ Occurs(t, x)
    BY <1>3, <1>6, OccursConcat
  <1>10. /\ ~Occurs(z, "<Link>") /\ ~Occurs(z, "<Lib>") /\ ~Occurs(z, "<ProjectReference>")
         /\ Occurs(z, "core;defines")
    BY <1>4, <1>8, <1>9
  <1>11. WellNested(h \o z)
    <2> HIDE DEF Reads
    <2>1. Reads("<Project>", z, "<Project>", seen1 \cup seen2)
      BY <1>4, <1>5, ReadsOn
    <2>2. Reads("<Project>", h \o z, "<Project>", seen \cup (seen1 \cup seen2))
      <3> HIDE DEF z
      <3>1. QED
        BY <2>1, ReadsOn
    <2>3. QED
      BY <2>2, ReadsNested
  <1> HIDE DEF z, Reads, StaticSeen, Text
  <1>12. IsConverted(h \o z, FALSE)
    <2>1. FALSE <=> Occurs(z, "<ProjectReference>")
      BY <1>10
    <2>2. QED
      BY <1>7, <1>10, <2>1, InBetween
  <1>13. ReferenceLine(h \o t) = Len(h) + 2
    <2>1. ~Occurs(h, "<ItemGroup>")
      BY StaticLacks DEF StaticText
    <2>2. Min(Positions(h \o t, "<ItemGroup>")) = Len(h) + 1
      BY <1>3, <2>1, FirstItem
    <2>3. ReferenceLine(h \o t) = (Len(h) + 1) + 1
      BY <1>1, <2>2, Zenon DEF ReferenceLine
    <2>4. QED
      BY <1>7, <2>3
  <1>14. 2 \in 0..Len(z)
    BY <1>7
  <1>15. InsertedAfter(h \o z, Len(h) + 2, Reference) = h \o w
    BY <1>3, <1>7, <1>14, InsertJoined
  <1>16. w \in Seq(Text) /\ \A x : Occurs(w, x) <=> Occurs(z, x) \/ Occurs(Reference, x)
    BY <1>3, <1>7, <1>14, InsertOccurs
  <1> HIDE DEF w
  <1>17. /\ ~Occurs(w, "<Link>") /\ ~Occurs(w, "<Lib>")
         /\ Occurs(w, "<ProjectReference>") /\ Occurs(w, "core;defines")
    <2>1. /\ ~Occurs(Reference, "<Link>") /\ ~Occurs(Reference, "<Lib>")
          /\ Occurs(Reference, "<ProjectReference>")
      BY ReferenceRead
    <2>2. QED
      BY <1>10, <1>16, <2>1
  <1>18. IsConverted(h \o w, TRUE)
    <2>1. TRUE <=> Occurs(w, "<ProjectReference>")
      BY <1>17
    <2>2. QED
      BY <1>16, <1>17, <2>1, InBetween
  <1>19. QED
    BY <1>2, <1>11, <1>12, <1>13, <1>15, <1>18

\* The result of convert_to_static_library for an extension of the build.
LEMMA ProjectConverted ==
    ASSUME NEW e, NEW depends \in BOOLEAN
    PROVE  LET f == convert_to_static_library(SourceProject(e), depends) IN
           /\ \/ WellNested(f)
              \/ depends /\ e \notin Now("defines", WithDefines) \cup {"_sqlite3"}
           /\ IsConverted(f, depends)
  <1> DEFINE t == TailLines(e)
             s == SourceProject(e)
             own == e \in Now("defines", WithDefines) \cup {"_sqlite3"}
  <1>1. PICK h, seen :
            /\ copy_link_to_lib(make_project_static_library(SourceProject(e)))
                    = h \o TailLines(e)
            /\ Reads("<Project>", h, "<Project>", seen)
            /\ StaticSeen(seen)
            /\ e \in Now("defines", WithDefines) \cup {"_sqlite3"} =>
                    <<"<ClCompile>", "defines">> \in seen
    BY StaticRead
  <1> DEFINE g == h \o t
             c == WithCoreDefine(g)
             r == InsertedAfter(c, ReferenceLine(g), Reference)
             f == convert_to_static_library(s, depends)
  <1>2. IsTail(t)
    BY TailRead
  <1>3. g # Failed
    <2>1. h \in Seq(Text) /\ t \in Seq(Text) /\ Len(t) > 0
      BY <1>1, <1>2 DEF Reads, IsTail
    <2> HIDE DEF t
    <2>2. Len(g) = Len(h) + Len(t) /\ Len(h) \in Nat /\ Len(t) \in Nat
      BY <2>1, Joined
    <2>3. Len(<<>>) = 0
      OBVIOUS
    <2> HIDE DEF g
    <2>4. QED
      BY <2>1, <2>2, <2>3 DEF Failed
  <1>4. f = IF depends THEN r ELSE c
    <2>1. copy_link_to_lib(make_project_static_library(s)) = g
      BY <1>1
    <2> HIDE DEF g, s
    <2>2. CASE depends
      BY <1>3, <2>1, <2>2, Zenon DEF convert_to_static_library, Reference
    <2>3. CASE ~depends
      BY <1>3, <2>1, <2>3, Zenon DEF convert_to_static_library, Reference
    <2>4. QED
      BY <2>2, <2>3
  <1>5. own => <<"<ClCompile>", "defines">> \in seen
    BY <1>1
  <1> HIDE DEF own
  <1>6. CASE <<"<ClCompile>", "defines">> \in seen
    <2>1. WellNested(c) /\ IsConverted(c, FALSE) /\ WellNested(r) /\ IsConverted(r, TRUE)
      <3> HIDE DEF t
      <3>1. QED
        BY <1>1, <1>2, <1>6, WithDefinitions
    <2> HIDE DEF c, r, f
    <2>2. WellNested(f) /\ IsConverted(f, depends)
      BY <1>4, <2>1
    <2>3. QED
      BY <2>2 DEF f, s
  <1>7. CASE <<"<ClCompile>", "defines">> \notin seen
    <2>1. WellNested(c) /\ IsConverted(c, FALSE) /\ IsConverted(r, TRUE)
      <3> HIDE DEF t
      <3>1. QED
        BY <1>1, <1>2, <1>7, WithoutDefinitions
    <2> HIDE DEF c, r, f
    <2>2. (WellNested(f) \/ (depends /\ ~own)) /\ IsConverted(f, depends)
      BY <1>4, <1>5, <1>7, <2>1
    <2>3. QED
      BY <2>2 DEF f, s, own
  <1>8. QED
    BY <1>6, <1>7

-----------------------------------------------------------------------------
(* What hack_project_files leaves.                                         *)

\* What the projects are that were edited: the part of ProjectsConverted that
\* is about one extension.
IsEdited(files, e) ==
    LET f == files[e] IN
    /\ \/ WellNested(f)
       \/ /\ StaticDepends(e) # {}
          /\ e \notin Now("defines", WithDefines) \cup {"_sqlite3"}
    /\ IsConverted(f, StaticDepends(e) # {})
    /\ StaticDepends(e) \subseteq DOMAIN files

\* No extension has the name of another file that is edited.
LEMMA NoSheet ==
    ASSUME ListsOK
    PROVE  ToConvert \cap Sheets = {}
  <1>1. \A e \in CONVERT_TO_BUILTIN_EXTENSIONS : e \notin Sheets
    BY DEF CONVERT_TO_BUILTIN_EXTENSIONS, Sheets
  <1>2. \A e \in changed["convert"] : e \notin Sheets
    BY WindowsBuildAssumption DEF ListsOK, Lists
  <1>3. \A e \in ToConvert : e \in CONVERT_TO_BUILTIN_EXTENSIONS \cup changed["convert"]
    BY DEF ToConvert, Convert, Now
  <1>4. QED
    BY <1>1, <1>2, <1>3

LEMMA FilesConverted ==
    ASSUME ListsOK, NEW files, files = [f \in EditedFiles |-> Edited(f)],
           \A f \in DOMAIN files : files[f] # Failed
    PROVE  /\ \A e \in ToConvert : IsEdited(files, e)
           /\ \A tags \in {<<"<Link>", "</Link>">>, <<"<Lib>", "</Lib>">>} :
                /\ {"libffi.lib", "directories"} \subseteq
                    Section(files["libffi.props"], tags[1], tags[2])
                /\ "libcrypto_static.lib;libssl_static.lib" \in
                    Section(files["openssl.props"], tags[1], tags[2])
  <1>1. DOMAIN files = EditedFiles /\ \A f \in EditedFiles : files[f] = Edited(f)
    OBVIOUS
  <1>2. files["libffi.props"] = libffi_props(libffi_props_file)
    <2>1. "libffi.props" \in EditedFiles
      BY DEF EditedFiles, Sheets
    <2>2. Edited("libffi.props") = libffi_props(libffi_props_file)
      <3>1. /\ "libffi.props" # "openssl.props" /\ "libffi.props" # "pythoncore"
            /\ "libffi.props" \notin ToConvert
        BY NoSheet DEF Sheets
      <3>2. QED
        BY <3>1, Zenon DEF Edited
    <2>3. QED
      BY <1>1, <2>1, <2>2
  <1>3. files["openssl.props"] = openssl_props(openssl_props_file)
    <2>1. "openssl.props" \in EditedFiles
      BY DEF EditedFiles, Sheets
    <2>2. Edited("openssl.props") = openssl_props(openssl_props_file)
      <3>1. /\ "openssl.props" # "libffi.props" /\ "openssl.props" # "pythoncore"
            /\ "openssl.props" \notin ToConvert
        BY NoSheet DEF Sheets
      <3>2. QED
        BY <3>1, Zenon DEF Edited
    <2>3. QED
      BY <1>1, <2>1, <2>2
  <1>4. ASSUME NEW e \in ToConvert PROVE IsEdited(files, e)
    <2> DEFINE depends == StaticDepends(e) # {}
    <2>1. e \in EditedFiles /\ StaticDepends(e) \subseteq EditedFiles
      BY DEF EditedFiles
    <2>2. Edited(e) = convert_to_static_library(SourceProject(e), StaticDepends(e) # {})
      <3>1. /\ e # "libffi.props" /\ e # "openssl.props" /\ e # "pythoncore"
        BY NoSheet DEF Sheets
      <3>2. QED
        BY <3>1, Zenon DEF Edited
    <2>3. files[e] = convert_to_static_library(SourceProject(e), depends)
      BY <1>1, <2>1, <2>2
    <2>4. depends \in BOOLEAN
      OBVIOUS
    <2> HIDE DEF depends
    <2>5. LET f == convert_to_static_library(SourceProject(e), depends) IN
          /\ \/ WellNested(f)
             \/ depends /\ e \notin Now("defines", WithDefines) \cup {"_sqlite3"}
          /\ IsConverted(f, depends)
      BY <2>4, ProjectConverted
    <2>6. /\ \/ WellNested(files[e])
             \/ depends /\ e \notin Now("defines", WithDefines) \cup {"_sqlite3"}
          /\ IsConverted(files[e], depends)
      BY <2>3, <2>5, Zenon
    <2>7. StaticDepends(e) \subseteq DOMAIN files
      BY <1>1, <2>1
    <2>8. QED
      BY <2>6, <2>7, Zenon DEF IsEdited, depends
  <1>5. libffi_props(libffi_props_file) # Failed /\ openssl_props(openssl_props_file) # Failed
    <2>1. "libffi.props" \in EditedFiles /\ "openssl.props" \in EditedFiles
      BY DEF EditedFiles, Sheets
    <2>2. files["libffi.props"] # Failed /\ files["openssl.props"] # Failed
      BY <1>1, <2>1
    <2>3. QED
      BY <1>2, <1>3, <2>2
  <1>6. \A tags \in {<<"<Link>", "</Link>">>, <<"<Lib>", "</Lib>">>} :
            {"libffi.lib", "directories"} \subseteq
                Section(files["libffi.props"], tags[1], tags[2])
    BY <1>2, <1>5, LibffiSheet
  <1>7. \A tags \in {<<"<Link>", "</Link>">>, <<"<Lib>", "</Lib>">>} :
            "libcrypto_static.lib;libssl_static.lib" \in
                Section(files["openssl.props"], tags[1], tags[2])
    BY <1>3, <1>5, OpensslSheet
  <1>8. QED
    BY <1>4, <1>6, <1>7

LEMMA SameProjects ==
    ASSUME UNCHANGED <<changed, job>>
    PROVE  /\ ToConvert' = ToConvert
           /\ Now("defines", WithDefines)' = Now("defines", WithDefines)
  BY SameLists DEF Now

LEMMA NextConverted ==
    ASSUME JobOK, ListsOK, ProjectsConverted, [Next]_vars
    PROVE  ProjectsConverted'
  <1>1. CASE hack_project_files
    <2> DEFINE files == [f \in EditedFiles |-> Edited(f)]
    <2>1. /\ UNCHANGED <<changed, job>>
          /\ \A f \in DOMAIN files : files[f] # Failed
          /\ src'.files = files
      BY <1>1 DEF hack_project_files, JobOK, NoSrc
    <2>2. ListsOK
      OBVIOUS
    <2> HIDE DEF files
    <2>3. /\ \A e \in ToConvert : IsEdited(files, e)
          /\ \A tags \in {<<"<Link>", "</Link>">>, <<"<Lib>", "</Lib>">>} :
                /\ {"libffi.lib", "directories"} \subseteq
                    Section(files["libffi.props"], tags[1], tags[2])
                /\ "libcrypto_static.lib;libssl_static.lib" \in
                    Section(files["openssl.props"], tags[1], tags[2])
      BY <2>1, FilesConverted DEF files
    <2>4. /\ ToConvert' = ToConvert
          /\ Now("defines", WithDefines)' = Now("defines", WithDefines)
      BY <2>1, SameProjects
    <2>5. SheetsConverted'
      BY <2>1, <2>3 DEF SheetsConverted
    <2>6. ASSUME NEW e \in ToConvert
          PROVE  LET f == files[e] IN
                 /\ \/ WellNested(f)
                    \/ /\ StaticDepends(e) # {}
                       /\ e \notin Now("defines", WithDefines) \cup {"_sqlite3"}
                 /\ Occurs(f, "StaticLibrary") /\ Occurs(f, ".lib")
                 /\ Occurs(f, "core;defines")
                 /\ Section(f, "<Link>", "</Link>") \subseteq Section(f, "<Lib>", "</Lib>")
                 /\ (StaticDepends(e) # {}) = Occurs(f, "<ProjectReference>")
                 /\ StaticDepends(e) \subseteq DOMAIN files
      <3> DEFINE f == files[e]
      <3>1. IsEdited(files, e)
        BY <2>3
      <3>2. (StaticDepends(e) # {}) = Occurs(f, "<ProjectReference>")
        <4>1. (StaticDepends(e) # {}) <=> Occurs(f, "<ProjectReference>")
          BY <3>1, Zenon DEF IsEdited, IsConverted
        <4>2. Occurs(f, "<ProjectReference>") \in BOOLEAN
          BY DEF Occurs
        <4>3. QED
          BY <4>1, <4>2
      <3>3. QED
        BY <3>1, <3>2, Zenon DEF IsEdited, IsConverted
    <2>7. QED
      BY <2>1, <2>4, <2>5, <2>6, Zenon DEF ProjectsConverted
  <1>2. CASE UNCHANGED vars
    <2>1. UNCHANGED <<changed, job, stage, src>>
      BY <1>2 DEF vars
    <2>2. /\ ToConvert' = ToConvert
          /\ Now("defines", WithDefines)' = Now("defines", WithDefines)
      BY <2>1, SameProjects
    <2>3. SheetsConverted' = SheetsConverted
      BY <2>1 DEF SheetsConverted
    <2>4. QED
      BY <2>1, <2>2, <2>3 DEF ProjectsConverted
  <1>3. CASE Next /\ ~hack_project_files
    <2>1. stage' # "source"
      BY <1>3 DEF Next, Change, Bump, Start, build_openssl, build_libffi, BuildArchive,
         UseArchive, Extract, hack_pystandalone_files, hack_source_files, MSBuild,
         MSBuildTolerated, package, Fail
    <2>2. QED
      BY <2>1 DEF ProjectsConverted
  <1>4. QED
    BY <1>1, <1>2, <1>3

\* Whatever lists change, of those that say what is converted and of what
\* upstream's projects contain, each extension that is linked into the
\* executable has a project that hack_project_files converted whole, but for
\* the gap that the property states.
THEOREM ProjectsConvertedHolds == Spec => []ProjectsConverted
  <1>1. Init => ProjectsConverted
    BY DEF Init, ProjectsConverted
  <1>2. Shipped /\ ProjectsConverted /\ [Next]_vars => ProjectsConverted'
    BY NextConverted DEF Shipped, Built
  <1>3. QED
    BY <1>1, <1>2, ShippedHolds, PTL DEF Spec
=============================================================================
