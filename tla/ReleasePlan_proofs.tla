------------------------- MODULE ReleasePlan_proofs -------------------------
(***************************************************************************)
(* Theorems about ReleasePlan, for any Python versions, labels, limit of   *)
(* the matrix, fragile builds and number of faults.                        *)
(***************************************************************************)
EXTENDS ReleasePlan, FiniteSetTheorems, SequenceTheorems, TLAPS

(* What a name in dist/ may have been made from.                           *)
Parts(options) ==
    IF "freethreaded" \in options THEN <<{"freethreaded"}, {"install_only"}>>
                                  ELSE <<{"install_only"}>>
StrippedParts(options) ==
    IF "freethreaded" \in options
    THEN <<{"freethreaded"}, {"install_only_stripped"}>>
    ELSE <<{"install_only_stripped"}>>
MadeOf(n, e) ==
    \/ n = Archive(e)
    \/ /\ InstallOnlySource(Archive(e))
       /\ n.python = e.python /\ n.triple = e.target_triple /\ n.ext = "tar.gz"
       /\ n.suffix \in {Parts(e.build_options), StrippedParts(e.build_options)}

PushEntries == UNION {Entries[{}][p] : p \in Platforms}

\* The inductive invariant.  A run that has not failed and was not run again has
\* uploaded nothing invalid, in one that succeeded each build passed at last,
\* and what is in dist/ was made from the artifacts of runs of the push that
\* succeeded, which change no more.
Fields == {"status", "crates", "lost", "invalid", "rerun"}
RunOK(p, event) ==
    LET run == runs[p][event]
    IN  /\ DOMAIN run = Fields
        /\ run.invalid \subseteq Builds(p, event)
        /\ run.status # "failure" /\ ~run.rerun => run.invalid = {}
        /\ run.status = "success" => run.lost = matrix(p, event) \ Builds(p, event)
RunsOK ==
    /\ DOMAIN runs = Platforms
    /\ \A p \in Platforms :
        /\ DOMAIN runs[p] = Events
        /\ \A event \in Events : RunOK(p, event)
\* A build in dist/, with the run that made it.
FromPush(b) ==
    /\ b = <<"push", b[2], b[3]>> /\ b[2] \in PushEntries
    /\ b[2].platform \in Platforms
    /\ runs[b[2].platform]["push"].status = "success"
    /\ b[2] \notin runs[b[2].platform]["push"].lost
    /\ b[3] \/ runs[b[2].platform]["push"].rerun
    /\ b[2].target_triple \in DOMAIN RELEASE_TRIPLES
DistOK ==
    \A n \in DOMAIN dist :
        /\ dist[n] # {}
        /\ \A b \in dist[n] : FromPush(b) /\ MadeOf(n, b[2])
IInv == RunsOK /\ DistOK

-----------------------------------------------------------------------------
(* The tables and the names.                                               *)

LEMMA EntryShape ==
    ASSUME NEW e \in PushEntries
    PROVE  /\ \A p \in Platforms : e \in Entries[{}][p] => e.platform = p
           /\ \A f \in PushEntries :
                /\ e.target_triple = f.target_triple
                /\ e.python = f.python
                /\ e.build_options = f.build_options
                => e = f
  <1> DEFINE none == parse_labels({}).directives
  <1>1. ASSUME NEW p \in Platforms, NEW f \in Entries[{}][p]
        PROVE  /\ f.platform = p
               /\ \E t \in DOMAIN CiTargets : f \in EntriesOf(t, none)
    BY <1>1 DEF Entries, generate_python_build_matrix_entries, EntriesOf
  <1>2. ASSUME NEW t \in DOMAIN CiTargets, NEW s \in DOMAIN CiTargets,
               NEW f \in EntriesOf(t, none), NEW g \in EntriesOf(s, none),
               f.target_triple = g.target_triple, f.python = g.python,
               f.build_options = g.build_options
        PROVE  f = g
    BY <1>2 DEF EntriesOf
  <1>3. QED
    BY <1>1, <1>2 DEF PushEntries

LEMMA ReleaseRows ==
    ASSUME NEW t
    PROVE  /\ t \in Apple \cup Gnu =>
                /\ t \in DOMAIN RELEASE_TRIPLES
                /\ RELEASE_TRIPLES[t] =
                    Release(Pgo, Freethreaded(Pgo), {"pgo", "lto"},
                            {"freethreaded", "pgo", "lto"}, 0)
           /\ t \in GnuLevels => RELEASE_TRIPLES[t] =
                Release(Pgo, Freethreaded(Pgo), {"pgo", "lto"},
                        {"freethreaded", "pgo", "lto"}, 10)
           /\ t \in Windows =>
                /\ t \in DOMAIN RELEASE_TRIPLES
                /\ RELEASE_TRIPLES[t] =
                    Release(WindowsPgo, Freethreaded(WindowsPgo), {"pgo"},
                            {"freethreaded", "pgo"},
                            IF t = "aarch64-pc-windows-msvc" THEN 11 ELSE 0)
           /\ t \in GnuNoPgo => RELEASE_TRIPLES[t] =
                Release(NoPgo, Freethreaded(NoPgo), {"lto"}, {"freethreaded", "lto"}, 10)
           /\ t \in MuslLevels => RELEASE_TRIPLES[t] =
                Release(NoPgo \cup Static(NoPgo), Freethreaded(NoPgo), {"lto"},
                        {"freethreaded", "lto"}, 0)
           /\ t = "x86_64-unknown-linux-musl" =>
                /\ t \in DOMAIN RELEASE_TRIPLES
                /\ RELEASE_TRIPLES[t] =
                    Release(NoPgo \cup Static(NoPgo), Freethreaded(NoPgo),
                            {"lto", "static"}, {"freethreaded", "lto"}, 0)
           /\ t = "aarch64-unknown-linux-musl" =>
                /\ t \in DOMAIN RELEASE_TRIPLES
                /\ RELEASE_TRIPLES[t] =
                    Release(NoPgo, Freethreaded(NoPgo), {"lto"}, {"freethreaded", "lto"}, 0)
  <1>1. t \in Apple \cup Gnu => /\ t \notin Windows \cup GnuLevels \cup GnuNoPgo \cup MuslLevels
                                /\ t \notin Musl
    BY DEF Apple, Gnu, GnuLevels, GnuNoPgo, Windows, Musl, MuslLevels
  <1>2. t \in Windows => /\ t \notin GnuLevels \cup GnuNoPgo \cup MuslLevels
                         /\ t \notin Apple \cup Gnu \cup Musl
    BY DEF Apple, Gnu, GnuLevels, GnuNoPgo, Windows, Musl, MuslLevels
  <1>3. /\ t \in GnuLevels => t \notin GnuNoPgo \cup MuslLevels \cup Musl
        /\ t \in GnuNoPgo => t \notin MuslLevels \cup Musl
        /\ t \in MuslLevels => t \notin Musl
    BY DEF GnuLevels, GnuNoPgo, Musl, MuslLevels
  <1>4. Musl = {"x86_64-unknown-linux-musl", "aarch64-unknown-linux-musl"}
    BY DEF Musl
  <1>5. QED
    BY <1>1, <1>2, <1>3, <1>4 DEF RELEASE_TRIPLES

LEMMA InstallOnlySuffix ==
    ASSUME NEW t \in DOMAIN RELEASE_TRIPLES
    PROVE  /\ "freethreaded" \notin RELEASE_TRIPLES[t].install_only_suffix
           /\ "freethreaded" \in RELEASE_TRIPLES[t].freethreaded_install_only_suffix
  <1> DEFINE Apart(best, free) == "freethreaded" \notin best /\ "freethreaded" \in free
  <1>1. /\ Apart({"pgo", "lto"}, {"freethreaded", "pgo", "lto"})
        /\ Apart({"pgo"}, {"freethreaded", "pgo"})
        /\ Apart({"lto"}, {"freethreaded", "lto"})
        /\ Apart({"lto", "static"}, {"freethreaded", "lto"})
    OBVIOUS
  <1> HIDE DEF Apart
  <1>2. ASSUME NEW options, NEW from313, NEW best, NEW free, NEW oldest, Apart(best, free),
               RELEASE_TRIPLES[t] = Release(options, from313, best, free, oldest)
        PROVE  Apart(RELEASE_TRIPLES[t].install_only_suffix,
                     RELEASE_TRIPLES[t].freethreaded_install_only_suffix)
    BY <1>2 DEF Release
  <1>3. t \in Apple \cup Gnu \/ t \in GnuLevels \/ t \in Windows \/ t \in GnuNoPgo
        \/ t \in MuslLevels \/ t = "x86_64-unknown-linux-musl"
        \/ t = "aarch64-unknown-linux-musl"
    BY DEF RELEASE_TRIPLES, Musl
  <1>4. Apart(RELEASE_TRIPLES[t].install_only_suffix,
              RELEASE_TRIPLES[t].freethreaded_install_only_suffix)
    BY <1>1, <1>2, <1>3, ReleaseRows
  <1>5. QED
    BY <1>4 DEF Apart

LEMMA PartsJoin ==
    ASSUME NEW s, NEW t
    PROVE  /\ Front(<<s, t>>) = <<s>>
           /\ <<>> \o <<s>> = <<s>> /\ <<>> \o <<s, t>> = <<s, t>>
           /\ <<s>> \o <<t>> = <<s, t>>
  <1>1. <<s>> \in Seq({s, t}) /\ <<t>> \in Seq({s, t}) /\ <<s, t>> \in Seq({s, t})
    OBVIOUS
  <1> DEFINE front == SubSeq(<<s, t>>, 1, 1)
             both == <<s>> \o <<t>>
  <1>2. Front(<<s, t>>) = <<s>>
    <2>1. front \in Seq({s, t}) /\ Len(front) = 1 /\ front[1] = s
      BY <1>1, SubSeqProperties
    <2>2. front = <<s>>
      <3> HIDE DEF front
      <3>1. QED
        BY <1>1, <2>1, SeqEqual
    <2>3. QED
      BY <2>2 DEF Front
  <1>3. <<>> \o <<s>> = <<s>> /\ <<>> \o <<s, t>> = <<s, t>>
    BY <1>1, ConcatEmptySeq
  <1>4. <<s>> \o <<t>> = <<s, t>>
    <2>1. both \in Seq({s, t}) /\ Len(both) = 2 /\ both[1] = s /\ both[2] = t
      BY <1>1, ConcatProperties
    <2>2. both = <<s, t>>
      <3> HIDE DEF both
      <3>1. QED
        BY <1>1, <2>1, SeqEqual
    <2>3. QED
      BY <2>2
  <1>5. QED
    BY <1>2, <1>3, <1>4

LEMMA InstallOnlyNames ==
    ASSUME NEW e
    PROVE  /\ produce_install_only(Archive(e)) =
                Name(e.python, e.target_triple, Parts(e.build_options), "tar.gz")
           /\ produce_install_only_stripped(produce_install_only(Archive(e))) =
                Name(e.python, e.target_triple, StrippedParts(e.build_options), "tar.gz")
  <1> DEFINE o == e.build_options
             free == {"freethreaded"}
             only == {"install_only"}
             stripped == {"install_only_stripped"}
  <1>1. \A s : /\ Last(<<s>>) = s /\ Front(<<s>>) = <<>>
               /\ <<>> \o <<s>> = <<s>>
    BY DEF Last, Front
  <1>2. \A s, t : /\ Front(<<s, t>>) = <<s>>
                  /\ <<>> \o <<s, t>> = <<s, t>> /\ <<s>> \o <<t>> = <<s, t>>
    BY PartsJoin
  <1>3. produce_install_only(Archive(e)) =
            Name(e.python, e.target_triple, Parts(o), "tar.gz")
    <2>1. Archive(e).suffix = <<o>>
      BY DEF Archive, Name
    <2>2. <<>> \o Parts(o) = Parts(o)
      BY <1>1, <1>2 DEF Parts
    <2>3. /\ Archive(e).python = e.python /\ Archive(e).triple = e.target_triple
          /\ Last(Archive(e).suffix) = o /\ Front(Archive(e).suffix) = <<>>
      BY <1>1, <2>1 DEF Archive, Name
    <2>4. QED
      BY <2>2, <2>3 DEF produce_install_only, Parts
  <1>4. Front(Parts(o)) \o <<stripped>> = StrippedParts(o)
    BY <1>1, <1>2 DEF Parts, StrippedParts
  <1>5. QED
    BY <1>3, <1>4 DEF produce_install_only_stripped, Name

\* One name is made from one build.
LEMMA NamesApart ==
    ASSUME NEW n, NEW e \in PushEntries, NEW f \in PushEntries,
           e.target_triple \in DOMAIN RELEASE_TRIPLES, MadeOf(n, e), MadeOf(n, f)
    PROVE  e = f
  <1>1. CASE n = Archive(e) /\ n = Archive(f)
    BY <1>1, EntryShape DEF Archive, Name
  <1>2. CASE n = Archive(e) /\ n # Archive(f)
    BY <1>2 DEF MadeOf, Archive, Name
  <1>3. CASE n # Archive(e) /\ n = Archive(f)
    BY <1>3 DEF MadeOf, Archive, Name
  <1>4. CASE n # Archive(e) /\ n # Archive(f)
    <2>1. e.target_triple = f.target_triple /\ e.python = f.python
      BY <1>4 DEF MadeOf
    <2>2. "freethreaded" \in e.build_options <=> "freethreaded" \in f.build_options
      BY <1>4 DEF MadeOf, Parts, StrippedParts
    <2>3. \A g \in {e, f} :
            g.build_options \in
                {RELEASE_TRIPLES[e.target_triple].install_only_suffix,
                 RELEASE_TRIPLES[e.target_triple].freethreaded_install_only_suffix}
      BY <1>4, <2>1 DEF MadeOf, InstallOnlySource, Archive, Name
    <2>4. e.build_options = f.build_options
      BY <2>2, <2>3, InstallOnlySuffix
    <2>5. QED
      BY <2>1, <2>4, EntryShape
  <1>5. QED
    BY <1>1, <1>2, <1>3, <1>4

LEMMA StoreShape ==
    ASSUME NEW files, NEW builds, NEW n \in DOMAIN Store(files, builds)
    PROVE  /\ n \in DOMAIN files \/ \E b \in builds : b[1] = n
           /\ \A x \in Store(files, builds)[n] :
                \/ n \in DOMAIN files /\ x \in files[n]
                \/ \E b \in builds : b[1] = n /\ b[2] = x
           /\ (\E b \in builds : b[1] = n) => Store(files, builds)[n] # {}
           /\ (n \in DOMAIN files /\ files[n] # {}) => Store(files, builds)[n] # {}
  BY DEF Store

-----------------------------------------------------------------------------
(* Every step preserves the invariant.                                     *)

LEMMA InitIInv == Init => IInv
  BY DEF Init, IInv, RunsOK, RunOK, Fields, DistOK, NewRun

\* The steps of a run.
RunAction(p, event) ==
    \/ BuildCrates(p, event) \/ CratesFail(p, event)
    \/ Build(p, event) \/ BuildFails(p, event) \/ Rerun(p, event)

\* Each changes the run it is of and no other, one that has not succeeded; the
\* run has failed then, or has the crates, or has succeeded.
LEMMA RunStep ==
    ASSUME RunsOK, NEW p \in Platforms, NEW event \in Events, RunAction(p, event)
    PROVE  /\ runs[p][event].status # "success" /\ UNCHANGED <<labels, release>>
           /\ DOMAIN runs' = Platforms
           /\ \A q \in Platforms : DOMAIN runs'[q] = Events
           /\ \A q \in Platforms, v \in Events :
                q # p \/ v # event => runs'[q][v] = runs[q][v]
           /\ DOMAIN runs'[p][event] = Fields
           /\ BuildCrates(p, event) =>
                /\ runs[p][event].status = "queued"
                /\ runs'[p][event].status = "crates"
                /\ runs'[p][event].invalid = runs[p][event].invalid
                /\ runs'[p][event].rerun = runs[p][event].rerun
                /\ \E force \in BOOLEAN : runs'[p][event].crates =
                     generate_crate_build_matrix_entries(matrix(p, event), p, force)
           /\ CratesFail(p, event) =>
                /\ runs'[p][event].status = "failure"
                /\ runs'[p][event].invalid = runs[p][event].invalid
                /\ runs'[p][event].crates = runs[p][event].crates
           /\ Build(p, event) =>
                /\ runs[p][event].status = "crates"
                /\ runs'[p][event].status = "success"
                /\ runs'[p][event].crates = runs[p][event].crates
                /\ runs'[p][event].invalid = runs[p][event].invalid
                /\ runs'[p][event].rerun = runs[p][event].rerun
                /\ runs'[p][event].lost = matrix(p, event) \ Builds(p, event)
           /\ BuildFails(p, event) =>
                /\ runs[p][event].status = "crates"
                /\ runs'[p][event].status = "failure"
                /\ runs'[p][event].crates = runs[p][event].crates
                /\ runs'[p][event].invalid \subseteq
                        runs[p][event].invalid \cup Builds(p, event)
           /\ Rerun(p, event) =>
                /\ runs'[p][event].status =
                        IF runs[p][event].crates = {} THEN "queued" ELSE "crates"
                /\ runs'[p][event].crates = runs[p][event].crates
                /\ runs'[p][event].invalid = runs[p][event].invalid
                /\ runs'[p][event].rerun
  <1> DEFINE Others == /\ DOMAIN runs' = Platforms
                       /\ \A q \in Platforms : DOMAIN runs'[q] = Events
                       /\ \A q \in Platforms, v \in Events :
                            q # p \/ v # event => runs'[q][v] = runs[q][v]
                       /\ DOMAIN runs'[p][event] = Fields
             old == runs[p][event]
             new == runs'[p][event]
  <1>1. DOMAIN runs = Platforms /\ (\A q \in Platforms : DOMAIN runs[q] = Events)
        /\ DOMAIN runs[p][event] = Fields
    BY DEF RunsOK, RunOK
  <1>2. ASSUME BuildCrates(p, event)
        PROVE  /\ Others /\ old.status = "queued" /\ new.status = "crates"
               /\ new.invalid = old.invalid /\ new.rerun = old.rerun
               /\ \E force \in BOOLEAN : new.crates =
                     generate_crate_build_matrix_entries(matrix(p, event), p, force)
    <2>1. PICK force \in BOOLEAN :
            runs' = [runs EXCEPT ![p][event].status = "crates",
                                 ![p][event].crates =
                generate_crate_build_matrix_entries(matrix(p, event), p, force)]
      BY <1>2 DEF BuildCrates
    <2> DEFINE made == generate_crate_build_matrix_entries(matrix(p, event), p, force)
    <2>2. runs' = [runs EXCEPT ![p][event].status = "crates", ![p][event].crates = made]
      BY <2>1
    <2> HIDE DEF made
    <2>3. /\ Others /\ new.status = "crates" /\ new.crates = made
          /\ new.invalid = old.invalid /\ new.rerun = old.rerun
      BY <1>1, <2>2 DEF Fields
    <2>4. old.status = "queued"
      BY <1>2 DEF BuildCrates
    <2>5. QED
      BY <2>3, <2>4 DEF made
  <1>3. ASSUME CratesFail(p, event)
        PROVE  /\ Others /\ old.status = "queued" /\ new.status = "failure"
               /\ new.invalid = old.invalid /\ new.crates = old.crates
    BY <1>1, <1>3 DEF CratesFail, Fields
  <1>4. ASSUME Build(p, event)
        PROVE  /\ Others /\ old.status = "crates" /\ new.status = "success"
               /\ new.crates = old.crates /\ new.invalid = old.invalid
               /\ new.rerun = old.rerun /\ new.lost = matrix(p, event) \ Builds(p, event)
    BY <1>1, <1>4 DEF Build, Fields
  <1>5. ASSUME BuildFails(p, event)
        PROVE  /\ Others /\ old.status = "crates" /\ new.status = "failure"
               /\ new.crates = old.crates
               /\ new.invalid \subseteq old.invalid \cup Builds(p, event)
    <2> DEFINE others == matrix(p, event) \ Builds(p, event)
    <2>1. PICK e \in Builds(p, event), uploaded \in BOOLEAN :
            runs' = [runs EXCEPT ![p][event].status = "failure",
                        ![p][event].lost = others \cup {e},
                        ![p][event].invalid = @ \cup IF uploaded THEN {e} ELSE {}]
      BY <1>5 DEF BuildFails
    <2> HIDE DEF others
    <2>2. /\ Others /\ new.status = "failure" /\ new.crates = old.crates
          /\ new.invalid = old.invalid \cup IF uploaded THEN {e} ELSE {}
      BY <1>1, <2>1 DEF Fields
    <2>3. QED
      BY <1>5, <2>2 DEF BuildFails
  <1>6. ASSUME Rerun(p, event)
        PROVE  /\ Others /\ old.status = "failure"
               /\ new.status = IF old.crates = {} THEN "queued" ELSE "crates"
               /\ new.crates = old.crates /\ new.invalid = old.invalid /\ new.rerun
    BY <1>1, <1>6 DEF Rerun, Fields
  <1>7. UNCHANGED <<labels, release>>
    BY DEF RunAction, BuildCrates, CratesFail, Build, BuildFails, Rerun
  <1> HIDE DEF Others
  <1>8. Others /\ old.status # "success"
    BY <1>2, <1>3, <1>4, <1>5, <1>6 DEF RunAction
  <1>9. QED
    BY <1>2, <1>3, <1>4, <1>5, <1>6, <1>7, <1>8 DEF Others

\* A run that has not succeeded moves on; those that are in dist/ have.
LEMMA RunIInv ==
    ASSUME IInv, NEW p \in Platforms, NEW event \in Events, RunAction(p, event)
    PROVE  IInv'
  <1>1. RunsOK /\ DistOK
    BY DEF IInv
  <1>2. \A q \in Platforms, v \in Events :
            Builds(q, v)' = Builds(q, v) /\ matrix(q, v)' = matrix(q, v)
    <2>1. labels' = labels
      BY <1>1, RunStep
    <2>2. QED
      BY <2>1 DEF Builds, matrix
  <1>3. RunOK(p, event)'
    <2> DEFINE old == runs[p][event]
               new == runs'[p][event]
    <2>1. /\ old.invalid \subseteq Builds(p, event)
          /\ old.status # "failure" /\ ~old.rerun => old.invalid = {}
      BY <1>1 DEF RunsOK, RunOK
    <2>2. DOMAIN new = Fields
      BY <1>1, RunStep
    <2>3. CASE BuildCrates(p, event)
      <3>1. /\ old.status = "queued" /\ new.status = "crates"
            /\ new.invalid = old.invalid /\ new.rerun = old.rerun
        BY <1>1, <2>3, RunStep
      <3>2. QED
        BY <1>2, <2>1, <2>2, <3>1 DEF RunOK
    <2>4. CASE CratesFail(p, event)
      <3>1. new.status = "failure" /\ new.invalid = old.invalid
        BY <1>1, <2>4, RunStep
      <3>2. QED
        BY <1>2, <2>1, <2>2, <3>1 DEF RunOK
    <2>5. CASE Build(p, event)
      <3>1. /\ old.status = "crates" /\ new.status = "success"
            /\ new.invalid = old.invalid /\ new.rerun = old.rerun
            /\ new.lost = matrix(p, event) \ Builds(p, event)
        BY <1>1, <2>5, RunStep
      <3>2. QED
        BY <1>2, <2>1, <2>2, <3>1 DEF RunOK
    <2>6. CASE BuildFails(p, event)
      <3>1. /\ new.status = "failure"
            /\ new.invalid \subseteq old.invalid \cup Builds(p, event)
        BY <1>1, <2>6, RunStep
      <3>2. QED
        BY <1>2, <2>1, <2>2, <3>1 DEF RunOK
    <2>7. CASE Rerun(p, event)
      <3>1. /\ new.status = IF old.crates = {} THEN "queued" ELSE "crates"
            /\ new.invalid = old.invalid /\ new.rerun
        BY <1>1, <2>7, RunStep
      <3>2. QED
        BY <1>2, <2>1, <2>2, <3>1 DEF RunOK
    <2>8. QED
      BY <2>3, <2>4, <2>5, <2>6, <2>7 DEF RunAction
  <1>4. RunsOK'
    <2>1. /\ DOMAIN runs' = Platforms
          /\ \A q \in Platforms : DOMAIN runs'[q] = Events
          /\ \A q \in Platforms, v \in Events :
                q # p \/ v # event => runs'[q][v] = runs[q][v]
      BY <1>1, RunStep
    <2>2. ASSUME NEW q \in Platforms, NEW v \in Events, q # p \/ v # event
          PROVE  RunOK(q, v)'
      BY <1>1, <1>2, <2>1, <2>2 DEF RunsOK, RunOK
    <2>3. QED
      BY <1>3, <2>1, <2>2 DEF RunsOK
  <1>5. DistOK'
    <2>1. \A q \in Platforms : runs[q]["push"].status = "success" =>
                runs'[q]["push"] = runs[q]["push"]
      BY <1>1, RunStep DEF Events
    <2>2. dist' = dist
      BY <1>1, RunStep DEF release
    <2>3. \A b : FromPush(b) => FromPush(b)'
      BY <2>1 DEF FromPush
    <2>4. QED
      BY <1>1, <2>2, <2>3 DEF DistOK
  <1>6. QED
    BY <1>4, <1>5 DEF IInv

\* Files are added to dist/, each from a build that may be there.
LEMMA StoreIInv ==
    ASSUME IInv, UNCHANGED <<labels, runs>>, NEW builds, dist' = Store(dist, builds),
           \A c \in builds : FromPush(c[2]) /\ MadeOf(c[1], c[2][2])
    PROVE  IInv'
  <1>1. RunsOK'
    BY DEF IInv, RunsOK, RunOK, Builds, matrix
  <1>2. ASSUME NEW n \in DOMAIN dist'
        PROVE  dist'[n] # {}
    BY <1>2, StoreShape DEF IInv, DistOK
  <1>3. ASSUME NEW n \in DOMAIN dist', NEW x \in dist'[n]
        PROVE  \/ n \in DOMAIN dist /\ x \in dist[n]
               \/ \E c \in builds : c[1] = n /\ c[2] = x
    BY <1>3, StoreShape
  <1>4. ASSUME NEW n \in DOMAIN dist', NEW x \in dist'[n]
        PROVE  FromPush(x) /\ MadeOf(n, x[2])
    <2>1. CASE n \in DOMAIN dist /\ x \in dist[n]
      BY <2>1 DEF IInv, DistOK
    <2>2. CASE \E c \in builds : c[1] = n /\ c[2] = x
      BY <2>2
    <2>3. QED
      BY <1>3, <2>1, <2>2
  <1>5. \A x : FromPush(x) => FromPush(x)'
    BY DEF FromPush
  <1>6. QED
    BY <1>1, <1>2, <1>4, <1>5 DEF IInv, DistOK

\* The artifacts of a run of the push that succeeded.
LEMMA PushArtifacts ==
    ASSUME RunsOK, NEW p \in Platforms, NEW a \in Artifacts(p, "push"),
           runs[p]["push"].status = "success", Wants(Archive(a[2]))
    PROVE  FromPush(a) /\ MadeOf(Archive(a[2]), a[2])
  <1> DEFINE run == runs[p]["push"]
             built == matrix(p, "push") \ run.lost
  <1>1. a = <<"push", a[2], a[3]>> /\ ((a[2] \in built /\ a[3]) \/ a[2] \in run.invalid)
    <2>1. \/ \E e \in built : a = <<"push", e, TRUE>>
          \/ \E e \in run.invalid : a = <<"push", e, FALSE>>
      BY DEF Artifacts
    <2> HIDE DEF built, run
    <2>2. CASE \E e \in built : a = <<"push", e, TRUE>>
      BY <2>2
    <2>3. CASE \E e \in run.invalid : a = <<"push", e, FALSE>>
      BY <2>3
    <2>4. QED
      BY <2>1, <2>2, <2>3
  <1>2. RunOK(p, "push")
    BY DEF RunsOK, Events
  <1>3. /\ a[2] \in matrix(p, "push") /\ a[2] \notin run.lost
        /\ a[3] \/ run.rerun
    <2>1. Builds(p, "push") \subseteq matrix(p, "push")
      BY DEF Builds
    <2>2. /\ run.invalid \subseteq Builds(p, "push")
          /\ ~run.rerun => run.invalid = {}
          /\ run.lost = matrix(p, "push") \ Builds(p, "push")
      BY <1>2 DEF RunOK
    <2>3. QED
      BY <1>1, <2>1, <2>2
  <1>4. a[2] \in Entries[{}][p]
    BY <1>3 DEF matrix
  <1>5. a[2] \in PushEntries /\ a[2].platform = p
    BY <1>4, EntryShape DEF PushEntries
  <1>6. a[2].target_triple \in DOMAIN RELEASE_TRIPLES
    BY DEF Wants, Archive, Name
  <1>7. QED
    BY <1>1, <1>3, <1>5, <1>6 DEF FromPush, MadeOf

LEMMA FetchIInv ==
    ASSUME IInv, NEW p \in Platforms, Fetch(p)
    PROVE  IInv'
  <1> DEFINE builds(event) == {<<Archive(a[2]), a>> :
                        a \in {b \in Artifacts(p, event) : Wants(Archive(b[2]))}}
  <1>1. PICK event \in Found(p) : dist' = Store(dist, builds(event))
    BY DEF Fetch
  <1>2. event = "push" /\ runs[p]["push"].status = "success"
    BY DEF Found
  <1>3. \A c \in builds("push") : \E a \in Artifacts(p, "push") :
            Wants(Archive(a[2])) /\ c[1] = Archive(a[2]) /\ c[2] = a
    OBVIOUS
  <1>4. UNCHANGED <<labels, runs>> /\ dist' = Store(dist, builds("push"))
    BY <1>1, <1>2 DEF Fetch
  <1> HIDE DEF builds
  <1>5. ASSUME NEW c \in builds("push")
        PROVE  FromPush(c[2]) /\ MadeOf(c[1], c[2][2])
    BY <1>2, <1>3, PushArtifacts DEF IInv
  <1>6. QED
    BY <1>4, <1>5, StoreIInv

LEMMA ConvertIInv ==
    ASSUME IInv, NEW p \in Platforms, Convert(p)
    PROVE  IInv'
  <1> DEFINE sources == {n \in DOMAIN dist :
                            /\ CiTargets[n.triple].platform = p
                            /\ InstallOnlySource(n)}
             only(n) == produce_install_only(n)
             files(n) == {only(n), produce_install_only_stripped(only(n))}
             builds == UNION {files(n) \X dist[n] : n \in sources}
  <1>1. UNCHANGED <<labels, runs>> /\ dist' = Store(dist, builds)
    BY DEF Convert
  <1>2. ASSUME NEW n \in sources, NEW x \in dist[n], NEW m \in files(n)
        PROVE  MadeOf(m, x[2])
    <2>1. MadeOf(n, x[2]) /\ InstallOnlySource(n) /\ n.ext = "tar.zst"
      BY DEF IInv, DistOK, InstallOnlySource
    <2>2. n = Archive(x[2])
      BY <2>1 DEF MadeOf
    <2>3. \/ m = Name(x[2].python, x[2].target_triple, Parts(x[2].build_options), "tar.gz")
          \/ m = Name(x[2].python, x[2].target_triple,
                      StrippedParts(x[2].build_options), "tar.gz")
      BY <2>2, InstallOnlyNames
    <2>4. QED
      BY <2>1, <2>2, <2>3 DEF MadeOf, Name
  <1>3. \A c \in builds : \E n \in sources :
            c[1] \in files(n) /\ c[2] \in dist[n] /\ n \in DOMAIN dist
    OBVIOUS
  <1> HIDE DEF builds, sources, files
  <1>4. ASSUME NEW c \in builds
        PROVE  FromPush(c[2]) /\ MadeOf(c[1], c[2][2])
    BY <1>2, <1>3 DEF IInv, DistOK
  <1>5. QED
    BY <1>1, <1>4, StoreIInv

LEMMA NextIInv == IInv /\ [Next]_vars => IInv'
  <1> SUFFICES ASSUME IInv, [Next]_vars PROVE IInv'
    OBVIOUS
  <1>1. ASSUME NEW p \in Platforms, NEW event \in Events, RunAction(p, event)
        PROVE  IInv'
    BY <1>1, RunIInv
  <1>2. ASSUME NEW p \in Platforms, Fetch(p) \/ Convert(p) PROVE IInv'
    BY <1>2, FetchIInv, ConvertIInv
  <1>3. CASE Begin \/ ScriptFails \/ Upload \/ UNCHANGED vars
    <2>1. UNCHANGED <<labels, runs>> /\ dist' \in {dist, <<>>}
      BY <1>3 DEF Begin, ScriptFails, Upload, vars
    <2>2. RunsOK'
      BY <2>1 DEF IInv, RunsOK, RunOK, Builds, matrix
    <2>3. \A b : FromPush(b) => FromPush(b)'
      BY <2>1 DEF FromPush
    <2>4. DistOK'
      BY <2>1, <2>3 DEF IInv, DistOK
    <2>5. QED
      BY <2>2, <2>4 DEF IInv
  <1>4. QED
    BY <1>1, <1>2, <1>3 DEF Next, RunAction

THEOREM Invariant == Spec => []IInv
  BY InitIInv, NextIInv, PTL DEF Spec

-----------------------------------------------------------------------------
(* What follows.                                                           *)

\* Whatever the versions and labels are, whichever jobs and commands fail and
\* are run again, every file that may be released comes from a build of the
\* push that passed validate-distribution, and, unless failed jobs of its run
\* were run again, from the artifact that passed.
THEOREM OnlyValidatedHolds == Spec => []OnlyValidated
  <1>1. IInv => OnlyValidated
    BY DEF IInv, DistOK, FromPush, OnlyValidated
  <1>2. QED
    BY <1>1, Invariant, PTL

\* However many versions there are, the names that fetch gives and converts
\* tell the builds apart: a file of dist/ was written from one build.
THEOREM NoOverwriteHolds == Spec => []NoOverwrite
  <1>1. IInv => NoOverwrite
    <2> SUFFICES ASSUME IInv, NEW n \in DOMAIN dist, NEW a \in dist[n], NEW b \in dist[n]
                 PROVE  a[1] = b[1] /\ a[2] = b[2]
      BY DEF NoOverwrite
    <2>1. FromPush(a) /\ FromPush(b) /\ MadeOf(n, a[2]) /\ MadeOf(n, b[2])
      BY DEF IInv, DistOK
    <2>2. a[1] = "push" /\ b[1] = "push"
      BY <2>1 DEF FromPush
    <2>3. /\ a[2] \in PushEntries /\ b[2] \in PushEntries
          /\ a[2].target_triple \in DOMAIN RELEASE_TRIPLES
      BY <2>1 DEF FromPush
    <2>4. QED
      BY <2>1, <2>2, <2>3, NamesApart
  <1>2. QED
    BY <1>1, Invariant, PTL

-----------------------------------------------------------------------------
(* Crates.                                                                 *)

\* The crate that an entry downloads is named for the runner that the target
\* would have, and the runner that the entry has is of the same architecture.
LEMMA RunnerArch ==
    ASSUME NEW t \in DOMAIN CiTargets, NEW v \in Nat
    PROVE  RunnerFor(t, v).arch =
                find_runner(CiTargets[t].platform, CiTargets[t].arch).arch
  <1>1. CASE ~(t = "x86_64-pc-windows-msvc" /\ v >= 15)
    BY <1>1 DEF RunnerFor
  <1>2. CASE t = "x86_64-pc-windows-msvc" /\ v >= 15
    <2> DEFINE least(S) == CHOOSE i \in S : \A j \in S : i <= j
               vs2026 == {i \in DOMAIN Runners : Runners[i].name = "windows-2025-vs2026"}
               onBoth == {i \in DOMAIN Runners : /\ Runners[i].platform = "windows"
                                                 /\ Runners[i].arch = "x86_64"}
    <2>1. DOMAIN Runners = 1..6
      BY DEF Runners
    <2>2. vs2026 = {5} /\ onBoth = {4, 5}
      BY <2>1 DEF Runners
    <2>3. least({5}) = 5 /\ least({4, 5}) = 4
      OBVIOUS
    <2>4. RunnerFor(t, v) = Runners[5]
      BY <1>2, <2>2, <2>3 DEF RunnerFor, FirstRunner
    <2>5. CiTargets[t].platform = "windows" /\ CiTargets[t].arch = "x86_64"
      BY <1>2 DEF CiTargets, Row
    <2>6. find_runner("windows", "x86_64") = Runners[4]
      BY <2>2, <2>3 DEF find_runner, FirstRunner
    <2>7. Runners[5].arch = "x86_64" /\ Runners[4].arch = "x86_64"
      BY DEF Runners
    <2>8. QED
      BY <2>4, <2>5, <2>6, <2>7
  <1>3. QED
    BY <1>1, <1>2

LEMMA CrateOfEntry ==
    ASSUME NEW l \in Labels \cup {{}}, NEW p \in Platforms, NEW e \in Entries[l][p]
    PROVE  e.crate = <<"crate", p, e.runner.arch>>
  <1>1. PICK t \in DOMAIN CiTargets :
            /\ CiTargets[t].platform = p
            /\ e \in EntriesOf(t, parse_labels(l).directives)
    BY DEF Entries, generate_python_build_matrix_entries
  <1>2. PICK v \in Minors :
            /\ e.runner = RunnerFor(t, v)
            /\ e.crate = crate_artifact_name(p,
                            find_runner(CiTargets[t].platform, CiTargets[t].arch).arch)
    BY <1>1 DEF EntriesOf
  <1>3. v \in Nat
    BY MatrixAssumption
  <1>4. QED
    BY <1>2, <1>3, RunnerArch DEF crate_artifact_name

\* Past its first jobs, a run has the crate of every entry of its matrix.
CrateOf(p, event, e) ==
    e.crate \in runs[p][event].crates /\ e.crate[3] = e.runner.arch
CratesOK ==
    /\ labels \in Labels
    /\ \A p \in Platforms, event \in Events :
        \/ runs[p][event].status \in {"crates", "success"}
        \/ runs[p][event].status = "failure" /\ runs[p][event].crates # {}
        => \A e \in matrix(p, event) : CrateOf(p, event, e)
    /\ \A p \in Platforms, event \in Events :
        runs[p][event].status = "queued" => runs[p][event].crates = {}

LEMMA NextCratesOK == RunsOK /\ CratesOK /\ [Next]_vars => CratesOK'
  <1> SUFFICES ASSUME RunsOK, CratesOK, [Next]_vars PROVE CratesOK'
    OBVIOUS
  <1>1. labels' = labels /\ labels \in Labels
    <2>1. labels \in Labels
      BY DEF CratesOK
    <2>2. ASSUME NEW p \in Platforms, NEW event \in Events, RunAction(p, event)
          PROVE  labels' = labels
      BY <2>2, RunStep
    <2>3. QED
      BY <2>1, <2>2
      DEF Next, RunAction, vars, Begin, Fetch, Convert, ScriptFails, Upload
  <1>2. \A p \in Platforms, event \in Events : matrix(p, event)' = matrix(p, event)
    BY <1>1 DEF matrix
  <1>3. CASE UNCHANGED runs
    BY <1>1, <1>2, <1>3 DEF CratesOK, CrateOf
  <1>4. ASSUME NEW p \in Platforms, NEW event \in Events, RunAction(p, event)
        PROVE  CratesOK'
    <2> DEFINE old == runs[p][event]
               new == runs'[p][event]
               Ready(run) == \/ run.status \in {"crates", "success"}
                             \/ run.status = "failure" /\ run.crates # {}
               All(q, v, run) == \A e \in matrix(q, v) :
                                e.crate \in run.crates /\ e.crate[3] = e.runner.arch
               Good(q, v, run) == /\ Ready(run) => All(q, v, run)
                                  /\ run.status = "queued" => run.crates = {}
    <2>1. \A q \in Platforms, v \in Events :
            q # p \/ v # event => runs'[q][v] = runs[q][v]
      BY <1>4, RunStep
    <2>2. \A q \in Platforms, v \in Events : Good(q, v, runs[q][v])
      BY DEF CratesOK, CrateOf
    <2>3. Good(p, event, new)
      <3>1. CASE BuildCrates(p, event)
        <4>1. /\ new.status = "crates"
              /\ \E force \in BOOLEAN : new.crates =
                    generate_crate_build_matrix_entries(matrix(p, event), p, force)
          BY <1>4, <3>1, RunStep
        <4>2. ASSUME NEW e \in matrix(p, event)
              PROVE  e.crate \in new.crates /\ e.crate[3] = e.runner.arch
          <5>1. e.crate = <<"crate", p, e.runner.arch>>
            BY <1>1, CrateOfEntry DEF matrix
          <5>2. QED
            BY <4>1, <5>1 DEF generate_crate_build_matrix_entries, crate_artifact_name
        <4>3. QED
          BY <4>1, <4>2
      <3>2. CASE CratesFail(p, event)
        <4>1. new.status = "failure" /\ new.crates = old.crates /\ old.status = "queued"
          BY <1>4, <3>2, RunStep DEF CratesFail
        <4>2. QED
          BY <2>2, <4>1
      <3>3. CASE Build(p, event) \/ BuildFails(p, event)
        <4>1. /\ new.status \in {"success", "failure"} /\ new.crates = old.crates
              /\ old.status = "crates"
          BY <1>4, <3>3, RunStep
        <4>2. QED
          BY <2>2, <4>1
      <3>4. CASE Rerun(p, event)
        <4>1. /\ new.status = IF old.crates = {} THEN "queued" ELSE "crates"
              /\ new.crates = old.crates /\ old.status = "failure"
          BY <1>4, <3>4, RunStep DEF Rerun
        <4>2. QED
          BY <2>2, <4>1
      <3>5. QED
        BY <1>4, <3>1, <3>2, <3>3, <3>4 DEF RunAction
    <2>4. \A q \in Platforms, v \in Events : Good(q, v, runs'[q][v])
      <3> HIDE DEF Good
      <3>1. QED
        BY <2>1, <2>2, <2>3
    <2>5. QED
      BY <1>1, <1>2, <2>4 DEF CratesOK, CrateOf
  <1>5. QED
    BY <1>3, <1>4
    DEF Next, RunAction, vars, Begin, Fetch, Convert, ScriptFails, Upload

\* With any labels and versions, each build job finds the executable it
\* downloads among those that its workflow has made, and can run it.
THEOREM CrateAvailableHolds == Spec => []CrateAvailable
  <1>1. Init => CratesOK
    BY DEF Init, CratesOK, NewRun
  <1>2. IInv => RunsOK
    BY DEF IInv
  <1>3. CratesOK => CrateAvailable
    BY DEF CratesOK, CrateOf, CrateAvailable
  <1>4. QED
    BY <1>1, <1>2, <1>3, NextCratesOK, Invariant, PTL DEF Spec

-----------------------------------------------------------------------------
(* Completeness.                                                           *)

\* linux.yml has jobs for the first shard only: the builds of a push on Linux
\* must fit it, as ci-matrix.py does not see to.
Fits == Cardinality(Entries[{}]["linux"]) \in 0..Limit

\* The inductive invariant: a successful run of the push has every artifact, and
\* what a phase has behind it is in dist/, build by build.
Fetched(p) == \A e \in Entries[{}][p] : Archive(e) \in DOMAIN dist
Converted(p) ==
    \A e \in Entries[{}][p] : InstallOnlySource(Archive(e)) =>
        \A parts \in {Parts(e.build_options), StrippedParts(e.build_options)} :
            Name(e.python, e.target_triple, parts, "tar.gz") \in DOMAIN dist
Lossless ==
    \A p \in Platforms :
        runs[p]["push"].status = "success" => runs[p]["push"].lost = {}
Progress ==
    /\ phase \in {"idle", "fetch", "convert", "upload", "uploaded"}
    /\ \A p \in Platforms :
        /\ phase = "fetch" => p \in todo \/ Fetched(p)
        /\ phase \in {"convert", "upload", "uploaded"} => Fetched(p)
        /\ phase = "convert" => p \in todo \/ Converted(p)
        /\ phase \in {"upload", "uploaded"} => Converted(p)

\* The tables agree on a target that is built.
Agreed(t) ==
    /\ t \in DOMAIN RELEASE_TRIPLES
    /\ CiTargets[t].platform \in Platforms
    /\ RELEASE_TRIPLES[t].suffixes = CiTargets[t].options
    /\ RELEASE_TRIPLES[t].conditional = CiTargets[t].from313
    /\ RELEASE_TRIPLES[t].install_only_suffix \in CiTargets[t].options
    /\ RELEASE_TRIPLES[t].freethreaded_install_only_suffix \in CiTargets[t].from313
    /\ \A v \in Nat : v >= CiTargets[t].oldest <=>
                        v >= 10 /\ v >= RELEASE_TRIPLES[t].oldest

LEMMA TablesAgree == ASSUME NEW t \in DOMAIN CiTargets PROVE Agreed(t)
  <1> DEFINE Rows(platform, arch, libc, from, options, from313, run, vcvars,
                  best, free, old) ==
                /\ CiTargets[t] = Row(platform, arch, libc, from, options,
                                      from313, run, vcvars)
                /\ t \in DOMAIN RELEASE_TRIPLES
                /\ RELEASE_TRIPLES[t] = Release(options, from313, best, free, old)
             Suited(options, from313, best, free) ==
                best \in options /\ free \in from313
  <1>1. /\ Suited(Pgo, Freethreaded(Pgo), {"pgo", "lto"}, {"freethreaded", "pgo", "lto"})
        /\ Suited(WindowsPgo, Freethreaded(WindowsPgo), {"pgo"}, {"freethreaded", "pgo"})
        /\ Suited(NoPgo, Freethreaded(NoPgo), {"lto"}, {"freethreaded", "lto"})
        /\ Suited(NoPgo \cup Static(NoPgo), Freethreaded(NoPgo),
                  {"lto", "static"}, {"freethreaded", "lto"})
    BY DEF Pgo, WindowsPgo, NoPgo, Static, Freethreaded
  <1> HIDE DEF Suited
  <1>2. ASSUME NEW platform \in Platforms, NEW arch, NEW libc, NEW from \in {10, 11},
               NEW options, NEW from313, NEW run, NEW vcvars, NEW best, NEW free,
               Suited(options, from313, best, free),
               NEW old \in {0, from}, from = 10 \/ old = from,
               Rows(platform, arch, libc, from, options, from313, run, vcvars,
                    best, free, old)
        PROVE  Agreed(t)
    <2>1. /\ CiTargets[t].platform = platform /\ CiTargets[t].oldest = from
          /\ CiTargets[t].options = options /\ CiTargets[t].from313 = from313
      BY <1>2 DEF Row
    <2>2. /\ RELEASE_TRIPLES[t].suffixes = options
          /\ RELEASE_TRIPLES[t].conditional = from313
          /\ RELEASE_TRIPLES[t].install_only_suffix = best
          /\ RELEASE_TRIPLES[t].freethreaded_install_only_suffix = free
          /\ RELEASE_TRIPLES[t].oldest = old
      BY <1>2 DEF Release
    <2>3. \A v \in Nat : v >= from <=> v >= 10 /\ v >= old
      BY <1>2
    <2>4. QED
      BY <1>2, <2>1, <2>2, <2>3 DEF Agreed, Suited
  <1>3. Platforms = {"darwin", "linux", "windows"}
    BY DEF Platforms
  <1>4. CASE t \in Apple \cup Gnu
    <2> DEFINE best == {"pgo", "lto"}
               free == {"freethreaded", "pgo", "lto"}
    <2>1. /\ t \in DOMAIN RELEASE_TRIPLES
          /\ RELEASE_TRIPLES[t] = Release(Pgo, Freethreaded(Pgo), best, free, 0)
      BY <1>4, ReleaseRows
    <2>2. CiTargets[t] \in
                {Row("darwin", "aarch64", "", 10, Pgo, Freethreaded(Pgo), "", ""),
                 Row("darwin", "x86_64", "", 10, Pgo, Freethreaded(Pgo), "true", ""),
                 Row("linux", "aarch64", "gnu", 10, Pgo, Freethreaded(Pgo), "", ""),
                 Row("linux", "x86_64", "gnu", 10, Pgo, Freethreaded(Pgo), "true", "")}
      BY <1>4 DEF CiTargets, Apple, Gnu
    <2>3. PICK platform, arch, libc, run :
            /\ platform \in Platforms
            /\ CiTargets[t] = Row(platform, arch, libc, 10, Pgo, Freethreaded(Pgo), run, "")
      BY <1>3, <2>2
    <2>4. Rows(platform, arch, libc, 10, Pgo, Freethreaded(Pgo), run, "", best, free, 0)
      BY <2>1, <2>3
    <2> HIDE DEF Rows, best, free
    <2>5. QED
      BY <1>1, <1>2, <2>3, <2>4 DEF best, free
  <1>5. CASE t \in Windows
    <2> DEFINE best == {"pgo"}
               free == {"freethreaded", "pgo"}
               old == IF t = "aarch64-pc-windows-msvc" THEN 11 ELSE 0
               from == IF t = "aarch64-pc-windows-msvc" THEN 11 ELSE 10
    <2>1. /\ t \in DOMAIN RELEASE_TRIPLES
          /\ RELEASE_TRIPLES[t] =
                Release(WindowsPgo, Freethreaded(WindowsPgo), best, free, old)
      BY <1>5, ReleaseRows
    <2>2. PICK arch, vcvars :
            CiTargets[t] = Row("windows", arch, "", from, WindowsPgo,
                               Freethreaded(WindowsPgo), "", vcvars)
      <3>1. CASE t = "aarch64-pc-windows-msvc"
        BY <3>1 DEF CiTargets
      <3>2. CASE t = "x86_64-pc-windows-msvc"
        BY <3>2 DEF CiTargets
      <3>3. CASE t = "i686-pc-windows-msvc"
        BY <3>3 DEF CiTargets
      <3>4. QED
        BY <1>5, <3>1, <3>2, <3>3 DEF Windows
    <2>3. Rows("windows", arch, "", from, WindowsPgo, Freethreaded(WindowsPgo), "", vcvars,
               best, free, old)
      BY <2>1, <2>2
    <2>4. /\ old \in {0, from} /\ (from = 10 \/ old = from) /\ from \in {10, 11}
          /\ "windows" \in Platforms
      BY <1>3
    <2> HIDE DEF Rows, best, free, old, from
    <2>5. QED
      BY <1>1, <1>2, <2>3, <2>4 DEF best, free
  <1>6. CASE t = "x86_64-unknown-linux-musl"
    <2> DEFINE options == NoPgo \cup Static(NoPgo)
               best == {"lto", "static"}
               free == {"freethreaded", "lto"}
    <2>1. CiTargets[t] = Row("linux", "x86_64", "musl", 10, options,
                             Freethreaded(NoPgo), "true", "")
      BY <1>6 DEF CiTargets
    <2>2. /\ t \in DOMAIN RELEASE_TRIPLES
          /\ RELEASE_TRIPLES[t] = Release(options, Freethreaded(NoPgo), best, free, 0)
      BY <1>6, ReleaseRows
    <2>3. Rows("linux", "x86_64", "musl", 10, options, Freethreaded(NoPgo), "true", "",
               best, free, 0)
      BY <2>1, <2>2
    <2> HIDE DEF Rows, best, free, options
    <2>4. QED
      BY <1>1, <1>2, <1>3, <2>3 DEF best, free, options
  <1>7. CASE t = "aarch64-unknown-linux-musl"
    <2> DEFINE best == {"lto"}
               free == {"freethreaded", "lto"}
    <2>1. CiTargets[t] = Row("linux", "aarch64", "musl", 10, NoPgo,
                             Freethreaded(NoPgo), "true", "")
      BY <1>7 DEF CiTargets
    <2>2. /\ t \in DOMAIN RELEASE_TRIPLES
          /\ RELEASE_TRIPLES[t] = Release(NoPgo, Freethreaded(NoPgo), best, free, 0)
      BY <1>7, ReleaseRows
    <2>3. Rows("linux", "aarch64", "musl", 10, NoPgo, Freethreaded(NoPgo), "true", "",
               best, free, 0)
      BY <2>1, <2>2
    <2> HIDE DEF Rows, best, free
    <2>4. QED
      BY <1>1, <1>2, <1>3, <2>3 DEF best, free
  <1>8. QED
    BY <1>4, <1>5, <1>6, <1>7 DEF CiTargets, Apple, Gnu, Windows

\* The targets that are released and not built are those left out.
LEMMA LeftOut ==
    ASSUME NEW t \in DOMAIN RELEASE_TRIPLES, t \notin NotBuilt
    PROVE  t \in DOMAIN CiTargets
  BY DEF RELEASE_TRIPLES, NotBuilt, CiTargets, Apple, Windows, Gnu, GnuLevels, GnuNoPgo,
     Musl, MuslLevels

\* The builds of a push: those of ci-targets.yaml.
LEMMA PushBuilds ==
    /\ \A p \in Platforms : \A e \in Entries[{}][p] :
        /\ e.target_triple \in DOMAIN CiTargets
        /\ CiTargets[e.target_triple].platform = p
        /\ e.dryRun = FALSE
        /\ e.python \in Minors /\ e.python >= CiTargets[e.target_triple].oldest
        /\ \/ e.build_options \in CiTargets[e.target_triple].options
           \/ e.python >= 13 /\ e.build_options \in CiTargets[e.target_triple].from313
    /\ \A t \in DOMAIN CiTargets, v \in Minors : \A o :
        (/\ v >= CiTargets[t].oldest
         /\ \/ o \in CiTargets[t].options
            \/ v >= 13 /\ o \in CiTargets[t].from313)
        => \E e \in Entries[{}][CiTargets[t].platform] :
            e.target_triple = t /\ e.python = v /\ e.build_options = o
    /\ \A t \in DOMAIN CiTargets :
        EntriesOf(t, {}) \subseteq Entries[{}][CiTargets[t].platform]
  <1> DEFINE none == parse_labels({})
  <1>1. \A c \in {"platform", "python", "build", "arch", "libc", "directives"} :
            none[c] = {}
    BY DEF parse_labels
  <1>2. \A e : should_include_entry(e, none)
    BY <1>1 DEF should_include_entry
  <1> HIDE DEF none
  <1>3. ASSUME NEW p \in Platforms, NEW e
        PROVE  e \in Entries[{}][p] <=>
                \E t \in DOMAIN CiTargets : CiTargets[t].platform = p /\ e \in EntriesOf(t, {})
    <2>1. Entries[{}][p] = generate_python_build_matrix_entries(p, {})
      BY DEF Entries
    <2>2. none.directives = {}
      BY <1>1
    <2>3. QED
      BY <1>2, <2>1, <2>2 DEF generate_python_build_matrix_entries, none
  <1> DEFINE Built(t, v, o) ==
                /\ v \in Minors /\ v >= CiTargets[t].oldest
                /\ \/ o \in CiTargets[t].options
                   \/ v >= 13 /\ o \in CiTargets[t].from313
             Of(e, t, v, o) == /\ e.target_triple = t /\ e.python = v
                               /\ e.build_options = o /\ e.dryRun = FALSE
  <1>4. ASSUME NEW t \in DOMAIN CiTargets
        PROVE  /\ \A e \in EntriesOf(t, {}) : \E v, o : Built(t, v, o) /\ Of(e, t, v, o)
               /\ \A v, o : Built(t, v, o) => \E e \in EntriesOf(t, {}) : Of(e, t, v, o)
    <2> DEFINE runner == find_runner(CiTargets[t].platform, CiTargets[t].arch)
               Entry(v, o) ==
                    [target_triple |-> t, platform |-> CiTargets[t].platform,
                     arch |-> CiTargets[t].arch, libc |-> CiTargets[t].libc,
                     python |-> v, build_options |-> o, vcvars |-> CiTargets[t].vcvars,
                     runner |-> RunnerFor(t, v),
                     run |-> CiTargets[t].run = "true" \/ runner.arch = CiTargets[t].arch,
                     crate |-> crate_artifact_name(CiTargets[t].platform, runner.arch),
                     dryRun |-> "dry-run" \in {}]
               versions == {v \in Minors : v >= CiTargets[t].oldest}
    <2>1. EntriesOf(t, {}) =
            {Entry(v, o) : v \in versions, o \in CiTargets[t].options}
            \cup {Entry(v, o) : v \in {w \in versions : w >= 13},
                                o \in CiTargets[t].from313}
      BY DEF EntriesOf
    <2>2. \A v, o : Of(Entry(v, o), t, v, o)
      <3>1. ("dry-run" \in {}) = FALSE
        OBVIOUS
      <3>2. QED
        BY <3>1
    <2> HIDE DEF Entry, Of
    <2>3. \A e \in EntriesOf(t, {}) : \E v, o : Built(t, v, o) /\ e = Entry(v, o)
      BY <2>1
    <2>4. \A v, o : Built(t, v, o) => Entry(v, o) \in EntriesOf(t, {})
      BY <2>1
    <2>5. QED
      BY <2>2, <2>3, <2>4
  <1>5. \A t \in DOMAIN CiTargets : CiTargets[t].platform \in Platforms
    BY TablesAgree DEF Agreed
  <1>6. /\ \A p \in Platforms : \A e \in Entries[{}][p] :
            \E t \in DOMAIN CiTargets : \E v, o :
                CiTargets[t].platform = p /\ Built(t, v, o) /\ Of(e, t, v, o)
        /\ \A t \in DOMAIN CiTargets : \A v, o : Built(t, v, o) =>
                \E e \in Entries[{}][CiTargets[t].platform] : Of(e, t, v, o)
        /\ \A t \in DOMAIN CiTargets :
            EntriesOf(t, {}) \subseteq Entries[{}][CiTargets[t].platform]
    <2> HIDE DEF Built, Of
    <2>1. QED
      BY <1>3, <1>4, <1>5
  <1>7. QED
    BY <1>6

LEMMA PushWanted ==
    ASSUME NEW p \in Platforms, NEW e \in Entries[{}][p]
    PROVE  Wants(Archive(e))
  <1>1. Agreed(e.target_triple) /\ e.python \in Nat
    BY TablesAgree, PushBuilds, MatrixAssumption
  <1>2. e.python >= 10 /\ e.target_triple \in DOMAIN RELEASE_TRIPLES
    BY <1>1, PushBuilds DEF Agreed
  <1>3. e.build_options \in all_suffixes(e.target_triple)
    BY <1>1, PushBuilds DEF Agreed, all_suffixes
  <1>4. QED
    BY <1>2, <1>3 DEF Wants, Archive, Name

LEMMA StoreDomain ==
    ASSUME NEW files, NEW builds
    PROVE  /\ DOMAIN files \subseteq DOMAIN Store(files, builds)
           /\ \A b \in builds : b[1] \in DOMAIN Store(files, builds)
  BY DEF Store

\* A successful run of the push has built all of its matrix.
LEMMA RunsLossless == Fits /\ RunsOK => Lossless
  <1> SUFFICES ASSUME Fits, RunsOK, NEW p \in Platforms, runs[p]["push"].status = "success"
               PROVE  runs[p]["push"].lost = {}
    BY DEF Lossless
  <1>1. runs[p]["push"].lost = matrix(p, "push") \ Builds(p, "push")
    BY DEF RunsOK, RunOK, Events
  <1>2. matrix(p, "push") = Entries[{}][p]
    BY DEF matrix
  <1>3. Jobs(p, Entries[{}][p]) = Entries[{}][p]
    <2>1. p = "linux" => ~(Cardinality(Entries[{}][p]) > Limit)
      BY MatrixAssumption DEF Fits
    <2>2. QED
      BY <2>1 DEF Jobs
  <1>4. \A e \in Entries[{}][p] : e.dryRun = FALSE
    BY PushBuilds
  <1>5. QED
    BY <1>1, <1>2, <1>3, <1>4 DEF Builds

\* Once fetched, the archives of a platform are there; once converted, what is
\* made of them too.
LEMMA FetchDone ==
    ASSUME Lossless, NEW p \in Platforms, Fetch(p)
    PROVE  DOMAIN dist \subseteq DOMAIN dist' /\ Fetched(p)'
  <1> DEFINE builds(event) == {<<Archive(a[2]), a>> :
                        a \in {b \in Artifacts(p, event) : Wants(Archive(b[2]))}}
  <1>1. PICK event \in Found(p) : dist' = Store(dist, builds(event))
    BY DEF Fetch
  <1>2. event = "push" /\ runs[p]["push"].lost = {}
    BY DEF Found, Lossless
  <1>3. ASSUME NEW e \in Entries[{}][p]
        PROVE  \E b \in builds("push") : b[1] = Archive(e)
    <2> DEFINE a == <<"push", e, TRUE>>
    <2>1. a \in Artifacts(p, "push") /\ a[2] = e
      BY <1>2 DEF Artifacts, matrix
    <2>2. Wants(Archive(a[2]))
      BY <2>1, PushWanted
    <2> HIDE DEF a
    <2>3. <<Archive(a[2]), a>> \in builds("push")
      BY <2>1, <2>2
    <2>4. QED
      BY <2>1, <2>3
  <1> HIDE DEF builds
  <1>4. dist' = Store(dist, builds("push"))
    BY <1>1, <1>2
  <1>5. \A e \in Entries[{}][p] : Archive(e) \in DOMAIN dist'
    BY <1>3, <1>4, StoreDomain
  <1>6. QED
    BY <1>4, <1>5, StoreDomain DEF Fetched

LEMMA ConvertDone ==
    ASSUME DistOK, NEW p \in Platforms, Convert(p), Fetched(p)
    PROVE  DOMAIN dist \subseteq DOMAIN dist' /\ Converted(p)'
  <1> DEFINE sources == {n \in DOMAIN dist :
                            /\ CiTargets[n.triple].platform = p
                            /\ InstallOnlySource(n)}
             only(n) == produce_install_only(n)
             files(n) == {only(n), produce_install_only_stripped(only(n))}
             builds == UNION {files(n) \X dist[n] : n \in sources}
             named(e, parts) == Name(e.python, e.target_triple, parts, "tar.gz")
  <1>1. dist' = Store(dist, builds)
    BY DEF Convert
  <1>2. ASSUME NEW e \in Entries[{}][p], InstallOnlySource(Archive(e)),
               NEW parts \in {Parts(e.build_options), StrippedParts(e.build_options)}
        PROVE  \E b \in builds : b[1] = named(e, parts)
    <2>1. Archive(e) \in sources
      <3>1. Archive(e) \in DOMAIN dist /\ Archive(e).triple = e.target_triple
        BY DEF Fetched, Archive, Name
      <3>2. QED
        BY <1>2, <3>1, PushBuilds
    <2>2. named(e, parts) \in files(Archive(e))
      BY <1>2, InstallOnlyNames
    <2>3. PICK x : x \in dist[Archive(e)]
      BY <2>1 DEF DistOK
    <2>4. <<named(e, parts), x>> \in files(Archive(e)) \X dist[Archive(e)]
      BY <2>2, <2>3
    <2>5. QED
      BY <2>1, <2>4
  <1> HIDE DEF builds
  <1>3. ASSUME NEW e \in Entries[{}][p], InstallOnlySource(Archive(e)),
               NEW parts \in {Parts(e.build_options), StrippedParts(e.build_options)}
        PROVE  named(e, parts) \in DOMAIN dist'
    BY <1>1, <1>2, <1>3, StoreDomain
  <1>4. QED
    BY <1>1, <1>3, StoreDomain DEF Converted

\* What upload wants of a target that is built was built, fetched and converted.
LEMMA BuiltIsThere ==
    ASSUME NEW t \in DOMAIN CiTargets, NEW v \in Minors,
           v >= 10, v >= RELEASE_TRIPLES[t].oldest,
           \A p \in Platforms : Fetched(p) /\ Converted(p)
    PROVE  /\ \A s \in suffixes(t, v) : Name(v, t, <<s>>, "tar.zst") \in DOMAIN dist
           /\ \A only \in {"install_only", "install_only_stripped"} :
                /\ Name(v, t, <<{only}>>, "tar.gz") \in DOMAIN dist
                /\ v >= 13 =>
                    Name(v, t, <<{"freethreaded"}, {only}>>, "tar.gz") \in DOMAIN dist
  <1> DEFINE best == RELEASE_TRIPLES[t].install_only_suffix
             free == RELEASE_TRIPLES[t].freethreaded_install_only_suffix
  <1>1. Agreed(t) /\ v >= CiTargets[t].oldest
    BY TablesAgree, MatrixAssumption DEF Agreed
  <1>2. t \in DOMAIN RELEASE_TRIPLES /\ CiTargets[t].platform \in Platforms
    BY <1>1 DEF Agreed
  <1>3. ASSUME NEW s \in suffixes(t, v)
        PROVE  \E e \in Entries[{}][CiTargets[t].platform] :
                    e.target_triple = t /\ e.python = v /\ e.build_options = s
    <2>1. \/ s \in CiTargets[t].options
          \/ v >= 13 /\ s \in CiTargets[t].from313
      BY <1>1 DEF suffixes, Agreed
    <2>2. QED
      BY <1>1, <2>1, PushBuilds
  <1>4. ASSUME NEW s \in suffixes(t, v)
        PROVE  Name(v, t, <<s>>, "tar.zst") \in DOMAIN dist
    BY <1>2, <1>3 DEF Fetched, Archive
  <1>5. ASSUME NEW s \in suffixes(t, v), s \in {best, free},
               NEW parts \in {Parts(s), StrippedParts(s)}
        PROVE  Name(v, t, parts, "tar.gz") \in DOMAIN dist
    <2>1. PICK e \in Entries[{}][CiTargets[t].platform] :
                e.target_triple = t /\ e.python = v /\ e.build_options = s
      BY <1>3, <1>5
    <2>2. InstallOnlySource(Archive(e))
      BY <1>5, <2>1 DEF InstallOnlySource, Archive, Name
    <2>3. QED
      BY <1>2, <1>5, <2>1, <2>2 DEF Converted
  <1>6. best \in suffixes(t, v) /\ (v >= 13 => free \in suffixes(t, v))
    BY <1>1 DEF suffixes, Agreed
  <1>7. "freethreaded" \notin best /\ "freethreaded" \in free
    BY <1>2, InstallOnlySuffix
  <1>8. QED
    BY <1>4, <1>5, <1>6, <1>7 DEF Parts, StrippedParts

\* The versions in the names of dist/ are those of builds.
LEMMA VersionsBuilt ==
    ASSUME DistOK, NEW n \in DOMAIN dist
    PROVE  n.python \in Minors /\ n.python >= 10
  <1>1. PICK b \in dist[n] : b[2] \in PushEntries /\ MadeOf(n, b[2])
    BY DEF DistOK, FromPush
  <1>2. n.python = b[2].python
    BY <1>1 DEF MadeOf, Archive, Name
  <1>3. PICK p \in Platforms : b[2] \in Entries[{}][p]
    BY <1>1 DEF PushEntries
  <1>4. Wants(Archive(b[2])) /\ b[2].python \in Minors
    BY <1>3, PushWanted, PushBuilds
  <1>5. QED
    BY <1>2, <1>4 DEF Wants, Archive, Name

LEMMA WantedNames ==
    ASSUME NEW files, NEW n
    PROVE  n \in build_wanted_filenames(files) <=>
            \E m \in files, t \in DOMAIN RELEASE_TRIPLES :
                /\ m.python >= RELEASE_TRIPLES[t].oldest
                /\ \/ \E s \in suffixes(t, m.python) :
                        n = Name(m.python, t, <<s>>, "tar.zst")
                   \/ \E only \in {"install_only", "install_only_stripped"} :
                        \/ n = Name(m.python, t, <<{only}>>, "tar.gz")
                        \/ /\ m.python >= 13
                           /\ n = Name(m.python, t, <<{"freethreaded"}, {only}>>, "tar.gz")
  <1> DEFINE versions == {m.python : m \in files}
             released == {vt \in versions \X DOMAIN RELEASE_TRIPLES :
                            vt[1] >= RELEASE_TRIPLES[vt[2]].oldest}
             flavors(v) == {<<>>} \cup IF v >= 13 THEN {<<{"freethreaded"}>>} ELSE {}
             archives(vt) == {Name(vt[1], vt[2], <<s>>, "tar.zst") :
                                s \in suffixes(vt[2], vt[1])}
             onlys(vt) == {Name(vt[1], vt[2], f \o <<{only}>>, "tar.gz") :
                            f \in flavors(vt[1]),
                            only \in {"install_only", "install_only_stripped"}}
             Wanted(v, t) ==
                \/ \E s \in suffixes(t, v) : n = Name(v, t, <<s>>, "tar.zst")
                \/ \E only \in {"install_only", "install_only_stripped"} :
                    \/ n = Name(v, t, <<{only}>>, "tar.gz")
                    \/ /\ v >= 13
                       /\ n = Name(v, t, <<{"freethreaded"}, {only}>>, "tar.gz")
  <1>1. build_wanted_filenames(files) =
            UNION ({archives(vt) : vt \in released} \cup {onlys(vt) : vt \in released})
    BY DEF build_wanted_filenames
  <1>2. \A only : /\ <<>> \o <<{only}>> = <<{only}>>
                  /\ <<{"freethreaded"}>> \o <<{only}>> = <<{"freethreaded"}, {only}>>
    BY PartsJoin
  <1>3. ASSUME NEW vt \in released
        PROVE  n \in archives(vt) \cup onlys(vt) <=> Wanted(vt[1], vt[2])
    <2> HIDE DEF released
    <2>1. n \in onlys(vt) <=> \E f \in flavors(vt[1]),
                                 only \in {"install_only", "install_only_stripped"} :
                                n = Name(vt[1], vt[2], f \o <<{only}>>, "tar.gz")
      OBVIOUS
    <2>2. n \in archives(vt) <=>
            \E s \in suffixes(vt[2], vt[1]) : n = Name(vt[1], vt[2], <<s>>, "tar.zst")
      OBVIOUS
    <2>3. \A f : f \in flavors(vt[1]) <=>
                    f = <<>> \/ (vt[1] >= 13 /\ f = <<{"freethreaded"}>>)
      OBVIOUS
    <2> HIDE DEF archives, onlys, flavors
    <2>4. QED
      BY <1>2, <2>1, <2>2, <2>3
  <1>4. n \in build_wanted_filenames(files) <=>
            \E vt \in released : n \in archives(vt) \cup onlys(vt)
    <2> HIDE DEF released, archives, onlys
    <2>1. QED
      BY <1>1
  <1> HIDE DEF archives, onlys, Wanted
  <1>5. n \in build_wanted_filenames(files) <=> \E vt \in released : Wanted(vt[1], vt[2])
    BY <1>3, <1>4
  <1>6. (\E vt \in released : Wanted(vt[1], vt[2])) <=>
            \E m \in files, t \in DOMAIN RELEASE_TRIPLES :
                m.python >= RELEASE_TRIPLES[t].oldest /\ Wanted(m.python, t)
    <2>1. ASSUME NEW m \in files, NEW t \in DOMAIN RELEASE_TRIPLES,
                 m.python >= RELEASE_TRIPLES[t].oldest
          PROVE  <<m.python, t>> \in released
      BY <2>1
    <2>2. ASSUME NEW vt \in released
          PROVE  \E m \in files : /\ vt[1] = m.python /\ vt[2] \in DOMAIN RELEASE_TRIPLES
                                  /\ m.python >= RELEASE_TRIPLES[vt[2]].oldest
      OBVIOUS
    <2> HIDE DEF released
    <2>3. QED
      BY <2>1, <2>2
  <1>7. QED
    BY <1>5, <1>6 DEF Wanted

LEMMA AllThere ==
    ASSUME DistOK, \A p \in Platforms : Fetched(p) /\ Converted(p)
    PROVE  missing(DOMAIN dist) = {}
  <1> SUFFICES ASSUME NEW n \in build_wanted_filenames(DOMAIN dist), n.triple \notin NotBuilt
               PROVE  n \in DOMAIN dist
    BY DEF missing
  <1>1. PICK m \in DOMAIN dist, t \in DOMAIN RELEASE_TRIPLES :
            /\ m.python >= RELEASE_TRIPLES[t].oldest
            /\ \/ \E s \in suffixes(t, m.python) : n = Name(m.python, t, <<s>>, "tar.zst")
               \/ \E only \in {"install_only", "install_only_stripped"} :
                    \/ n = Name(m.python, t, <<{only}>>, "tar.gz")
                    \/ /\ m.python >= 13
                       /\ n = Name(m.python, t, <<{"freethreaded"}, {only}>>, "tar.gz")
    BY WantedNames
  <1>2. n.triple = t
    BY <1>1 DEF Name
  <1>3. t \in DOMAIN CiTargets
    BY <1>2, LeftOut
  <1>4. m.python \in Minors /\ m.python >= 10
    BY VersionsBuilt
  <1>5. QED
    BY <1>1, <1>3, <1>4, BuiltIsThere

LEMMA NextProgress ==
    ASSUME DistOK, Lossless, Progress, [Next]_vars
    PROVE  Progress'
  <1>1. ASSUME NEW p \in Platforms, Fetch(p)
        PROVE  Progress'
    <2>1. DOMAIN dist \subseteq DOMAIN dist' /\ Fetched(p)'
      BY <1>1, FetchDone
    <2>2. \A q \in Platforms : Fetched(q) => Fetched(q)'
      BY <2>1 DEF Fetched
    <2>3. /\ phase = "fetch" /\ p \in todo
          /\ \/ todo = {p} /\ phase' = "convert" /\ todo' = Platforms
             \/ todo # {p} /\ phase' = "fetch" /\ todo' = todo \ {p}
      BY <1>1 DEF Fetch, Proceed
    <2>4. \A q \in Platforms : q \notin todo' \/ todo = {p} => Fetched(q)'
      BY <2>1, <2>2, <2>3 DEF Progress
    <2>5. QED
      BY <2>3, <2>4 DEF Progress
  <1>2. ASSUME NEW p \in Platforms, Convert(p)
        PROVE  Progress'
    <2>1. phase = "convert" /\ \A q \in Platforms : Fetched(q)
      BY <1>2 DEF Convert, Progress
    <2>2. DOMAIN dist \subseteq DOMAIN dist' /\ Converted(p)'
      BY <1>2, <2>1, ConvertDone
    <2>3. \A q \in Platforms : Fetched(q)' /\ (Converted(q) => Converted(q)')
      BY <2>1, <2>2 DEF Fetched, Converted
    <2>4. /\ p \in todo
          /\ \/ todo = {p} /\ phase' = "upload" /\ todo' = Platforms
             \/ todo # {p} /\ phase' = "convert" /\ todo' = todo \ {p}
      BY <1>2, <2>1 DEF Convert, Proceed
    <2>5. \A q \in Platforms : q \notin todo' \/ todo = {p} => Converted(q)'
      BY <2>1, <2>2, <2>3, <2>4 DEF Progress
    <2>6. QED
      BY <2>3, <2>4, <2>5 DEF Progress
  <1>3. CASE Upload
    <2>1. phase = "upload" /\ dist' = dist
          /\ \A q \in Platforms : Fetched(q) /\ Converted(q)
      BY <1>3 DEF Upload, Progress
    <2>2. missing(DOMAIN dist) = {}
      BY <2>1, AllThere
    <2>3. phase' \in {"idle", "uploaded"}
      BY <1>3, <2>2 DEF Upload
    <2>4. \A q \in Platforms : Fetched(q)' /\ Converted(q)'
      BY <2>1 DEF Fetched, Converted
    <2>5. QED
      BY <2>3, <2>4 DEF Progress
  <1>4. CASE Begin
    BY <1>4 DEF Begin, Progress
  <1>5. CASE ScriptFails
    BY <1>5 DEF ScriptFails, Progress
  <1>6. CASE UNCHANGED release
    BY <1>6 DEF release, Progress, Fetched, Converted
  <1>7. ASSUME NEW p \in Platforms, NEW event \in Events, RunAction(p, event)
        PROVE  UNCHANGED release
    BY <1>7 DEF RunAction, BuildCrates, CratesFail, Build, BuildFails, Rerun
  <1>8. UNCHANGED vars => UNCHANGED release
    BY DEF vars, release
  <1>9. QED
    BY <1>1, <1>2, <1>3, <1>4, <1>5, <1>6, <1>7, <1>8 DEF Next, RunAction

\* If the builds of a push on Linux fit one shard, then, whatever versions there
\* are and whichever jobs and commands fail, what a release has not failed to
\* fetch and convert is all there: the check for missing files passes.
THEOREM NothingMissingHolds == Fits /\ Spec => []NothingMissing
  <1>1. Fits => Fits'
    BY DEF Fits
  <1>2. Init => Progress
    BY DEF Init, Progress
  <1>3. Fits /\ IInv /\ Progress /\ [Next]_vars => Progress'
    BY RunsLossless, NextProgress DEF IInv
  <1>4. Progress => NothingMissing
    BY DEF Progress, NothingMissing
  <1>5. QED
    BY <1>1, <1>2, <1>3, <1>4, Invariant, PTL DEF Spec

\* Under the same condition, a release that is uploaded has each build and each
\* install_only archive of ci-targets.yaml, whatever versions there are.
THEOREM CompleteHolds == Fits /\ Spec => []Complete
  <1>1. Fits => Fits'
    BY DEF Fits
  <1>2. Init => Progress
    BY DEF Init, Progress
  <1>3. Fits /\ IInv /\ Progress /\ [Next]_vars => Progress'
    BY RunsLossless, NextProgress DEF IInv
  <1>4. Progress => Complete
    <2> SUFFICES ASSUME Progress, phase = "uploaded",
                        NEW t \in DOMAIN CiTargets, NEW e \in EntriesOf(t, {})
                 PROVE  \A n \in {Archive(e),
                                  Name(e.python, t, <<{"install_only"}>>, "tar.gz")} :
                            n \in build_wanted_filenames(DOMAIN dist) \cap DOMAIN dist
      BY DEF Complete
    <2> DEFINE p == CiTargets[t].platform
               v == e.python
    <2>1. \A q \in Platforms : Fetched(q) /\ Converted(q)
      BY DEF Progress
    <2>2. /\ Agreed(t) /\ p \in Platforms /\ e \in Entries[{}][p]
          /\ e.target_triple = t /\ v \in Minors /\ v >= CiTargets[t].oldest
      <3>1. Agreed(t) /\ p \in Platforms /\ e \in Entries[{}][p]
        BY TablesAgree, PushBuilds DEF Agreed
      <3>2. e.target_triple = t
        BY DEF EntriesOf
      <3>3. QED
        BY <3>1, <3>2, PushBuilds
    <2>3. v >= 10 /\ v >= RELEASE_TRIPLES[t].oldest /\ t \in DOMAIN RELEASE_TRIPLES
      BY <2>2, MatrixAssumption DEF Agreed
    <2>4. e.build_options \in suffixes(t, v)
      BY <2>2, PushBuilds DEF suffixes, Agreed
    <2>5. Archive(e) \in DOMAIN dist /\ Archive(e).python = v
          /\ Archive(e) = Name(v, t, <<e.build_options>>, "tar.zst")
      BY <2>1, <2>2 DEF Fetched, Archive, Name
    <2>6. Name(v, t, <<{"install_only"}>>, "tar.gz") \in DOMAIN dist
      BY <2>1, <2>2, <2>3, BuiltIsThere
    <2>7. /\ Archive(e) \in build_wanted_filenames(DOMAIN dist)
          /\ Name(v, t, <<{"install_only"}>>, "tar.gz")
                \in build_wanted_filenames(DOMAIN dist)
      BY <2>3, <2>4, <2>5, WantedNames
    <2>8. QED
      BY <2>5, <2>6, <2>7
  <1>5. QED
    BY <1>1, <1>2, <1>3, <1>4, Invariant, PTL DEF Spec
=============================================================================
