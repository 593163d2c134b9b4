--------------------------- MODULE UnixBuild_proofs ---------------------------
(***************************************************************************)
(* Theorems about UnixBuild, for any targets, number of jobs, edits and    *)
(* faults.  They rest on the agreement of the two lists of BuildGraph,     *)
(* which is proved first.                                                  *)
(***************************************************************************)
EXTENDS UnixBuild, FiniteSetTheorems, WellFoundedInduction, TLAPS

\* Whatever build.py installs is below the archive in the Makefile, and so is
\* all that it comes from.
ListsAgree ==
    \A t \in Targets : \A n \in Below[t][Goal] \cup {Goal} :
        /\ Installs[t][n] \subseteq Below[t][n]
        /\ Derives[t][n] \subseteq Below[t][n] \cup {n}

\* The archives that the next build, or the rest of this one, makes again.
Due(m) ==
    \/ file[m] = "absent" \/ m \in older \/ pc[m] = "recording"
    \/ m = "musl" /\ target.static /\ (make = "off" \/ m \in todo)
Old(n) == \E m \in Below[target][n] \cup {n} : Due(m)

\* The inductive invariant, part by part.  A recipe runs when nothing that it
\* is ordered after is left to do, and the work that is left is closed upward.
Busy ==
    \A n \in Names : pc[n] # "off" =>
        /\ make \in {"running", "failing"}
        /\ n \in todo
        /\ Ordered[target][n] \cap todo = {}
        /\ pc[n] = "recording" => n \in Images
Upward ==
    /\ make \in {"off", "compressing", "copying"} => todo = {}
    /\ \A m \in todo, n \in Names : m \in Below[target][n] => n \in todo

\* What is not left to do is there and newer than its prerequisites.
UpToDate ==
    make # "off" => \A m \in Names \ todo : file[m] # "absent" /\ m \notin older

\* An image without its id is being recorded, and then all that names it will
\* be made again, or it is one that was left behind.
Recorded ==
    \A n \in Images \cap Names :
        /\ pc[n] = "recording" =>
            /\ file[n] = "good" /\ n \notin older
            /\ \A d \in Names : n \in Ordered[target][d] => Due(d)
        /\ pc[n] # "recording" /\ file[n] # "absent" =>
            imageId[n] # "absent" \/ n \in unnoticed

\* A recipe that installed something that was not good owes that to something
\* unnoticed, which this build will not make again.
Tainted ==
    \A n \in tainted :
        /\ pc[n] = "building"
        /\ \E x \in Derives[target][n] : x \in unnoticed /\ x \in Names \ todo

\* Whatever is not good comes from something unnoticed, or will be made again.
Explained ==
    \A n \in Names :
        Found(n) = "good" \/ Derives[target][n] \cap unnoticed # {} \/ Old(n)

Types ==
    /\ target \in Targets
    /\ make \in {"off", "running", "failing", "compressing", "copying"}
    /\ todo \subseteq Names /\ tainted \subseteq Names /\ older \subseteq Names
    /\ pc \in [Names -> {"off", "installing", "building", "recording"}]
    /\ file \in [Names -> Contents]
    /\ imageId \in [Images \cap Names -> Contents \ {"torn"}]
    /\ dist \in [path : Contents, tmp : Contents]
    /\ unnoticed \subseteq Names
    /\ edits \in 0..MaxEdits /\ faults \in 0..MaxFaults
Bounded == IsFiniteSet(Active) /\ Cardinality(Active) <= Jobs

IInv == Types /\ Busy /\ Upward /\ UpToDate /\ Recorded /\ Tainted /\ Explained

-----------------------------------------------------------------------------
(* The two lists: neither has a cycle, so what is reached along them can be  *)
(* reasoned about by induction on a rank.                                    *)

LEMMA Induction ==
    ASSUME NEW S \in SUBSET Nat, 0 \in S, \A k \in S : k + 1 \in S
    PROVE  S = Nat
  <1> SUFFICES ASSUME Nat \ S # {} PROVE FALSE
    OBVIOUS
  <1>1. IsWellFoundedOn(OpToRel(<, Nat), Nat)
    BY NatLessThanWellFounded
  <1>2. PICK k \in Nat \ S : \A j \in Nat \ S : ~(<<j, k>> \in OpToRel(<, Nat))
    <2> DEFINE T == Nat \ S
    <2>1. T \subseteq Nat /\ T # {}
      OBVIOUS
    <2> HIDE DEF T
    <2>2. \E x \in T : \A y \in T : ~(<<y, x>> \in OpToRel(<, Nat))
      BY <1>1, <2>1, WFMin
    <2>3. QED
      BY <2>2 DEF T
  <1>3. \A j \in Nat \ S : ~(j < k)
    BY <1>2 DEF OpToRel
  <1>4. k - 1 \in S
    BY <1>3
  <1>5. QED
    BY <1>4

\* Edges go down in a rank of at most 10.
Ranked(edges, rank) ==
    /\ edges \in [AllNames -> SUBSET AllNames]
    /\ rank \in [AllNames -> 0..10]
    /\ \A n \in AllNames : \A m \in edges[n] : rank[m] < rank[n]

LEMMA ReachEquation ==
    ASSUME NEW edges, NEW rank, Ranked(edges, rank)
    PROVE  \A n \in AllNames :
            Reach(edges)[n] = edges[n] \cup UNION {Reach(edges)[m] : m \in edges[n]}
  <1> DEFINE Step(g, n) == edges[n] \cup UNION {g[m] : m \in edges[n]}
             upTo(k, g) == \A n \in AllNames : rank[n] < k => g[n] = Step(g, n)
             S == {k \in Nat : \E g \in [AllNames -> SUBSET AllNames] : upTo(k, g)}
  <1>1. 0 \in S
    <2>1. [n \in AllNames |-> {}] \in [AllNames -> SUBSET AllNames]
      OBVIOUS
    <2>2. upTo(0, [n \in AllNames |-> {}])
      BY DEF Ranked
    <2>3. QED
      BY <2>1, <2>2
  <1>2. ASSUME NEW k \in S PROVE k + 1 \in S
    <2>1. PICK g \in [AllNames -> SUBSET AllNames] : upTo(k, g)
      OBVIOUS
    <2> DEFINE h == [n \in AllNames |-> IF rank[n] = k THEN Step(g, n) ELSE g[n]]
    <2>2. h \in [AllNames -> SUBSET AllNames]
      BY DEF Ranked
    <2>3. ASSUME NEW n \in AllNames, rank[n] < k + 1
          PROVE  h[n] = Step(h, n)
      <3>1. \A m \in edges[n] : m \in AllNames /\ rank[m] < k
        BY <2>3 DEF Ranked
      <3>2. \A m \in edges[n] : h[m] = g[m]
        BY <3>1 DEF Ranked
      <3>3. Step(h, n) = Step(g, n)
        BY <3>2
      <3>4. h[n] = Step(g, n)
        BY <2>1, <2>3 DEF Ranked
      <3>5. QED
        BY <3>3, <3>4
    <2>4. upTo(k + 1, h)
      BY <2>3
    <2> HIDE DEF upTo, h
    <2>5. QED
      BY <2>2, <2>4
  <1>3. S = Nat
    <2> HIDE DEF S
    <2>1. S \subseteq Nat
      BY DEF S
    <2>2. QED
      BY <1>1, <1>2, <2>1, Induction
  <1>4. PICK g \in [AllNames -> SUBSET AllNames] : upTo(11, g)
    <2>1. 11 \in S
      BY <1>3
    <2> HIDE DEF upTo
    <2>2. QED
      BY <2>1
  <1>5. g = [n \in AllNames |-> Step(g, n)]
    BY <1>4 DEF Ranked
  <1> DEFINE reach == CHOOSE f : f = [n \in AllNames |-> Step(f, n)]
  <1>6. reach = [n \in AllNames |-> Step(reach, n)]
    BY <1>5
  <1>7. Reach(edges) = reach
    BY <1>6 DEF Reach
  <1> HIDE DEF reach
  <1>8. ASSUME NEW n \in AllNames PROVE reach[n] = Step(reach, n)
    BY <1>6
  <1>9. QED
    BY <1>7, <1>8

LEMMA RankInduction ==
    ASSUME NEW edges, NEW rank, Ranked(edges, rank), NEW G \in SUBSET AllNames,
           \A n \in AllNames : edges[n] \subseteq G => n \in G
    PROVE  G = AllNames
  <1> DEFINE S == {k \in Nat : \A n \in AllNames : rank[n] < k => n \in G}
  <1>1. 0 \in S
    BY DEF Ranked
  <1>2. ASSUME NEW k \in S PROVE k + 1 \in S
    BY DEF Ranked
  <1>3. S = Nat
    <2> HIDE DEF S
    <2>1. S \subseteq Nat
      BY DEF S
    <2>2. QED
      BY <1>1, <1>2, <2>1, Induction
  <1>4. 11 \in S
    BY <1>3
  <1>5. QED
    BY <1>4 DEF Ranked

\* What is reached along edges without a cycle: every way up to a name starts
\* with an edge, and ends with one.
LEMMA ReachShape ==
    ASSUME NEW edges, NEW rank, Ranked(edges, rank)
    PROVE  \A n \in AllNames :
            /\ Reach(edges)[n] \subseteq AllNames
            /\ edges[n] \subseteq Reach(edges)[n]
            /\ Reach(edges)[n] = edges[n] \cup UNION {Reach(edges)[m] : m \in edges[n]}
            /\ \A m \in Reach(edges)[n] :
                /\ Reach(edges)[m] \subseteq Reach(edges)[n]
                /\ \E d \in Reach(edges)[n] \cup {n} : m \in edges[d]
                /\ m \in edges[n] \/ \E d \in edges[n] : m \in Reach(edges)[d]
  <1> DEFINE R == Reach(edges)
             Closed(n) ==
                /\ R[n] \subseteq AllNames
                /\ \A m \in R[n] :
                    /\ R[m] \subseteq R[n]
                    /\ \E d \in R[n] \cup {n} : m \in edges[d]
             G == {n \in AllNames : Closed(n)}
  <1>1. \A n \in AllNames : R[n] = edges[n] \cup UNION {R[m] : m \in edges[n]}
    BY ReachEquation
  <1> HIDE DEF R
  <1>2. ASSUME NEW n \in AllNames, edges[n] \subseteq G
        PROVE  n \in G
    <2>1. \A m \in R[n] : m \in edges[n] \/ \E d \in edges[n] : m \in R[d]
      BY <1>1
    <2>2. edges[n] \subseteq R[n] /\ \A d \in edges[n] : R[d] \subseteq R[n]
      BY <1>1
    <2>3. \A d \in edges[n] : Closed(d)
      BY <1>2
    <2>4. R[n] \subseteq AllNames
      BY <2>1, <2>3 DEF Ranked
    <2>5. ASSUME NEW m \in R[n] PROVE R[m] \subseteq R[n]
      BY <2>1, <2>2, <2>3
    <2>6. ASSUME NEW m \in R[n] PROVE \E d \in R[n] \cup {n} : m \in edges[d]
      BY <2>1, <2>2, <2>3
    <2>7. QED
      BY <2>4, <2>5, <2>6
  <1>3. G = AllNames
    <2> HIDE DEF G
    <2>1. G \subseteq AllNames
      BY DEF G
    <2>2. QED
      BY <1>2, <2>1, RankInduction
  <1>4. \A n \in AllNames : Closed(n)
    BY <1>3
  <1>5. QED
    BY <1>1, <1>4 DEF R

\* The rank of each archive: neither list has a cycle.
Rank == [n \in AllNames |->
    CASE n \in Images \cup {"clang"} -> 0
      [] n = "binutils" -> 1
      [] n = "musl" -> 2
      [] n \in {"autoconf", "libedit", "tcl", "libXau"} -> 4
      [] n = "cpython-host" -> 5
      [] n = "xcb-proto" -> 6
      [] n = "libxcb" -> 7
      [] n = "libX11" -> 8
      [] n = "tk" -> 9
      [] n = "cpython" -> 10
      [] OTHER -> 3]

LEMMA RankType == Rank \in [AllNames -> 0..10]
  BY DEF Rank

LEMMA OrderedRanked ==
    ASSUME NEW t \in Targets PROVE Ranked(Ordered[t], Rank)
  <1>1. Ordered[t] = [n \in AllNames |-> Prereqs(t, n)]
    BY DEF Ordered
  <1>2. ASSUME NEW n \in AllNames, NEW m \in Prereqs(t, n)
        PROVE  m \in AllNames /\ Rank[m] < Rank[n]
    BY <1>2 DEF Prereqs, Rule, Rank, AllNames, Packages, X11, Images, If, PYTHON_DEPENDS,
        BASE_TOOLCHAIN_DEPENDS, TOOLCHAIN_DEPENDS, PYTHON_DEP_DEPENDS, PYTHON_HOST_DEPENDS
  <1>3. QED
    BY <1>1, <1>2, RankType DEF Ranked

LEMMA InstallsRanked ==
    ASSUME NEW t \in Targets PROVE Ranked(Installs[t], Rank)
  <1>1. Installs[t] = [n \in AllNames |-> Uses(t, n)]
    BY DEF Installs
  <1>2. ASSUME NEW n \in AllNames, NEW m \in Uses(t, n)
        PROVE  m \in AllNames /\ Rank[m] < Rank[n]
    BY <1>2, TargetsAssumption DEF Uses, Rank, AllNames, Packages, X11, Images, If,
        install_toolchain, simple_build
  <1>3. QED
    BY <1>1, <1>2, RankType DEF Ranked

LEMMA OrderedShape ==
    ASSUME NEW t \in Targets, NEW n \in AllNames
    PROVE  /\ Below[t][n] \subseteq AllNames
           /\ Ordered[t][n] \subseteq Below[t][n]
           /\ \A m \in Below[t][n] :
                /\ Below[t][m] \subseteq Below[t][n]
                /\ \E d \in Below[t][n] \cup {n} : m \in Ordered[t][d]
                /\ m \in Ordered[t][n] \/ \E d \in Ordered[t][n] : m \in Below[t][d]
  <1>1. Below[t] = Reach(Ordered[t])
    BY DEF Below
  <1>2. QED
    BY <1>1, OrderedRanked, ReachShape

LEMMA DerivesShape ==
    ASSUME NEW t \in Targets, NEW n \in AllNames
    PROVE  /\ Installs[t][n] \subseteq AllNames
           /\ Derives[t][n] = {n} \cup UNION {Derives[t][m] : m \in Installs[t][n]}
  <1> DEFINE R == Reach(Installs[t])
  <1>1. \A m \in AllNames : Derives[t][m] = {m} \cup R[m]
    BY DEF Derives
  <1>2. \A m \in AllNames :
            R[m] = Installs[t][m] \cup UNION {R[k] : k \in Installs[t][m]}
    BY InstallsRanked, ReachShape
  <1>3. \A m \in AllNames : Installs[t][m] \subseteq AllNames
    BY InstallsRanked DEF Ranked
  <1> HIDE DEF R
  <1>4. \A k \in Installs[t][n] : Derives[t][k] = {k} \cup R[k]
    BY <1>1, <1>3
  <1>5. QED
    BY <1>1, <1>2, <1>3, <1>4

\* The archives of a target are those it needs and what orders them.
LEMMA Needed ==
    ASSUME NEW t \in Targets, NEW n \in Below[t][Goal] \cup {Goal}
    PROVE  /\ n \in AllNames
           /\ n = "tk" => "tk" \in t.needs
           /\ n = "musl" => "musl" \in t.needs
  <1>1. Goal \in AllNames
    BY DEF Goal, AllNames
  <1>2. n = Goal \/ \E d \in AllNames : n \in Prereqs(t, d)
    <2>1. n = Goal \/ \E d \in Below[t][Goal] \cup {Goal} : n \in Ordered[t][d]
      BY <1>1, OrderedShape
    <2>2. \A d \in Below[t][Goal] \cup {Goal} : d \in AllNames
      BY <1>1, OrderedShape
    <2>3. QED
      BY <2>1, <2>2 DEF Ordered
  <1>3. n \in AllNames
    BY <1>1, OrderedShape
  <1>4. ASSUME NEW d \in AllNames, n \in Prereqs(t, d), n \in {"tk", "musl"}
        PROVE  n \in t.needs
    BY <1>4 DEF Prereqs, Rule, Images, If, PYTHON_DEPENDS, BASE_TOOLCHAIN_DEPENDS,
        TOOLCHAIN_DEPENDS, PYTHON_DEP_DEPENDS, PYTHON_HOST_DEPENDS
  <1>5. QED
    BY <1>2, <1>3, <1>4 DEF Goal

\* Every package is made with the toolchain, in the image.
LEMMA ToolchainBelow ==
    ASSUME NEW t \in Targets,
           NEW n \in AllNames \ (Images \cup {"clang", "binutils", "musl"})
    PROVE  PYTHON_DEP_DEPENDS(t) \subseteq Below[t][n]
  <1>1. ASSUME NEW d \in AllNames \ (Images \cup {"clang", "binutils", "musl", "tk"})
        PROVE  PYTHON_DEP_DEPENDS(t) \subseteq Below[t][d]
    <2>1. PYTHON_DEP_DEPENDS(t) \subseteq Prereqs(t, d)
      BY DEF Prereqs, Rule, PYTHON_HOST_DEPENDS
    <2>2. QED
      BY <2>1, OrderedShape DEF Ordered
  <1>2. CASE n = "tk"
    <2>1. "cpython-host" \in AllNames /\ "tk" \in AllNames
      BY DEF AllNames, Packages
    <2>2. "cpython-host" \in Ordered[t]["tk"]
      BY <2>1 DEF Ordered, Prereqs, Rule, Images
    <2>3. Below[t]["cpython-host"] \subseteq Below[t]["tk"]
      BY <2>1, <2>2, OrderedShape
    <2>4. QED
      BY <1>1, <1>2, <2>1, <2>3 DEF Images
  <1>3. QED
    BY <1>1, <1>2

\* The X11 libraries are all made for libX11.
LEMMA X11Below ==
    ASSUME NEW t \in Targets
    PROVE  X11 \subseteq Below[t]["libX11"] \cup {"libX11"}
  <1> DEFINE below(n) == Below[t][n]
  <1>1. {"libX11", "libxcb", "libXau"} \subseteq AllNames
    BY DEF AllNames, Packages, X11
  <1>2. /\ {"libxcb", "xtrans", "xorgproto"} \subseteq Prereqs(t, "libX11")
        /\ {"xcb-proto", "libXau", "libpthread-stubs"} \subseteq Prereqs(t, "libxcb")
        /\ "x11-util-macros" \in Prereqs(t, "libXau")
    BY DEF Prereqs, Rule, Images
  <1>3. /\ {"libxcb", "xtrans", "xorgproto"} \subseteq below("libX11")
        /\ {"xcb-proto", "libXau", "libpthread-stubs"} \subseteq below("libxcb")
        /\ "x11-util-macros" \in below("libXau")
    BY <1>1, <1>2, OrderedShape DEF Ordered
  <1>4. below("libXau") \subseteq below("libxcb") /\ below("libxcb") \subseteq below("libX11")
    BY <1>1, <1>3, OrderedShape
  <1>5. QED
    BY <1>3, <1>4 DEF X11

\* What build.py installs for an archive is below it.
LEMMA InstallsBelow ==
    ASSUME NEW t \in Targets, NEW n \in Below[t][Goal] \cup {Goal}
    PROVE  Installs[t][n] \subseteq Below[t][n]
  <1>1. /\ n \in AllNames
        /\ n = "tk" => "tk" \in t.needs
        /\ n = "musl" => "musl" \in t.needs
    BY Needed
  <1>2. Installs[t][n] = Uses(t, n) /\ Ordered[t][n] = Prereqs(t, n)
    BY <1>1 DEF Installs, Ordered
  <1>3. Prereqs(t, n) \subseteq Below[t][n]
    BY <1>1, <1>2, OrderedShape
  <1>4. CASE n \in Images \cup {"clang", "binutils"}
    BY <1>2, <1>3, <1>4 DEF Uses, Prereqs, Rule, Images
  <1>5. CASE n = "musl"
    <2>1. "binutils" \in t.needs /\ {"binutils", "clang"} \subseteq Below[t][n]
      BY <1>1, <1>3, <1>5, TargetsAssumption
        DEF Prereqs, Rule, Images, BASE_TOOLCHAIN_DEPENDS
    <2>2. "binutils" \in AllNames /\ "image-gcc" \in Prereqs(t, "binutils")
      BY DEF AllNames, Packages, Prereqs, Rule, Images
    <2>3. "image-gcc" \in Below[t][n]
      BY <1>1, <2>1, <2>2, OrderedShape DEF Ordered
    <2>4. QED
      BY <1>2, <1>5, <2>1, <2>3 DEF Uses, Images
  <1>6. CASE n \notin Images \cup {"clang", "binutils", "musl"}
    <2>1. simple_build(t, {}) \subseteq Below[t][n]
      <3>1. simple_build(t, {}) \subseteq PYTHON_DEP_DEPENDS(t)
        BY TargetsAssumption DEF simple_build, install_toolchain, If, PYTHON_DEP_DEPENDS,
            TOOLCHAIN_DEPENDS, BASE_TOOLCHAIN_DEPENDS
      <3>2. QED
        BY <1>1, <1>6, <3>1, ToolchainBelow
    <2>2. \A s : simple_build(t, s) = simple_build(t, {}) \cup s
      BY DEF simple_build
    <2>3. ASSUME NEW d \in Prereqs(t, n)
          PROVE  /\ d \in Below[t][n] /\ d \in AllNames
                 /\ Below[t][d] \subseteq Below[t][n]
      BY <1>1, <1>2, <1>3, OrderedShape
    <2>4. CASE n = "autoconf"
      BY <1>2, <1>3, <2>1, <2>2, <2>4 DEF Uses, Prereqs, Rule, Images
    <2>5. CASE n = "cpython-host"
      BY <1>2, <1>3, <2>5, TargetsAssumption DEF Uses, Prereqs, Rule, Images, If,
        PYTHON_HOST_DEPENDS, PYTHON_DEP_DEPENDS, TOOLCHAIN_DEPENDS, BASE_TOOLCHAIN_DEPENDS
    <2>6. CASE n \in {"libXau", "xcb-proto", "libedit", "tcl"}
      BY <1>2, <1>3, <2>1, <2>2, <2>6 DEF Uses, Prereqs, Rule, Images
    <2>7. CASE n = "libxcb"
      <3>1. {"libpthread-stubs", "libXau", "xcb-proto", "xorgproto", "cpython-host"}
                \subseteq Prereqs(t, n)
        BY <2>7 DEF Prereqs, Rule, Images
      <3>2. QED
        BY <1>2, <1>3, <2>1, <2>2, <2>7, <3>1 DEF Uses, Images
    <2>8. CASE n = "libX11"
      <3>1. {"libpthread-stubs", "libXau", "libxcb", "x11-util-macros", "xorgproto",
             "xtrans"} \subseteq Below[t][n]
        BY <2>8, X11Below DEF X11
      <3>2. QED
        BY <1>2, <2>1, <2>2, <2>8, <3>1 DEF Uses, Images
    <2>9. CASE n = "tk"
      <3>1. {"tcl", "cpython-host"} \subseteq Prereqs(t, n)
        BY <2>9 DEF Prereqs, Rule, Images
      <3>2. "zlib" \in Below[t][n]
        <4>1. "tcl" \in AllNames /\ "zlib" \in Prereqs(t, "tcl")
          BY DEF AllNames, Packages, Prereqs, Rule, Images
        <4>2. QED
          BY <2>3, <3>1, <4>1, OrderedShape DEF Ordered
      <3>3. ASSUME t.docker PROVE X11 \subseteq Below[t][n]
        <4>1. "libX11" \in Prereqs(t, n)
          BY <1>1, <2>9, <3>3, TargetsAssumption DEF Prereqs, Rule, Images
        <4>2. QED
          BY <2>3, <4>1, X11Below
      <3>4. Uses(t, n) = simple_build(t, {}) \cup {"tcl", "zlib", "cpython-host"} \cup
                If(t.docker, {"libX11", "libXau", "libxcb", "xcb-proto", "xorgproto"})
        BY <2>2, <2>9 DEF Uses, Images
      <3>5. If(t.docker, {"libX11", "libXau", "libxcb", "xcb-proto", "xorgproto"})
                \subseteq Below[t][n]
        BY <3>3 DEF If, X11
      <3>6. QED
        BY <1>2, <1>3, <2>1, <3>1, <3>2, <3>4, <3>5
    <2>10. CASE n = "cpython"
      <3>1. "cpython-host" \in Prereqs(t, n)
        BY <2>10 DEF Prereqs, Rule, Images, PYTHON_DEPENDS
      <3>2. {"autoconf", "m4"} \subseteq Below[t][n]
        <4>1. "cpython-host" \in AllNames
              /\ {"autoconf", "m4"} \subseteq Prereqs(t, "cpython-host")
          BY DEF AllNames, Prereqs, Rule, Images, PYTHON_HOST_DEPENDS
        <4>2. QED
          BY <2>3, <3>1, <4>1, OrderedShape DEF Ordered
      <3>3. t.needs \cap X11 \subseteq Below[t][n]
        <4> SUFFICES ASSUME NEW x \in t.needs \cap X11 PROVE x \in Below[t][n]
          OBVIOUS
        <4>1. {"tk", "libX11"} \subseteq t.needs
          BY TargetsAssumption
        <4>2. "tk" \in Prereqs(t, n) /\ "tk" \in AllNames
          BY <2>10, <4>1 DEF Prereqs, Rule, Images, PYTHON_DEPENDS, AllNames, Packages
        <4>3. "libX11" \in Prereqs(t, "tk")
          BY <4>1 DEF Prereqs, Rule, Images
        <4>4. "libX11" \in Below[t]["tk"] /\ Below[t]["libX11"] \subseteq Below[t]["tk"]
          BY <4>2, <4>3, OrderedShape DEF Ordered
        <4>5. QED
          BY <2>3, <4>2, <4>4, X11Below
      <3>4. t.needs \ (X11 \cup {"autoconf", "m4", "binutils", "musl"})
                \subseteq Prereqs(t, n)
        BY <2>10, TargetsAssumption DEF Packages, Prereqs, Rule, Images, PYTHON_DEPENDS
      <3>5. Uses(t, n) = simple_build(t, {})
                \cup ((t.needs \ {"binutils", "musl"}) \cup {"cpython-host"})
        BY <2>2, <2>10 DEF Uses, Images
      <3>6. QED
        BY <1>2, <1>3, <2>1, <3>1, <3>2, <3>3, <3>4, <3>5
    <2>11. CASE n \notin {"autoconf", "cpython-host", "libXau", "xcb-proto", "libedit", "tcl",
                          "libxcb", "libX11", "tk", "cpython"}
      BY <1>2, <1>6, <2>1, <2>11 DEF Uses
    <2>12. QED
      BY <2>4, <2>5, <2>6, <2>7, <2>8, <2>9, <2>10, <2>11
  <1>7. QED
    BY <1>4, <1>5, <1>6

\* The rules of the Makefile order whatever build.py installs, and all that
\* it comes from, before the archive it is installed for: the two lists, kept
\* by hand, agree for every target that is like those of targets.yml.
THEOREM ListsAgreeHolds == ListsAgree
  <1> SUFFICES ASSUME NEW t \in Targets
               PROVE  \A n \in Below[t][Goal] \cup {Goal} :
                        Derives[t][n] \subseteq Below[t][n] \cup {n}
    BY InstallsBelow DEF ListsAgree
  <1> DEFINE names == Below[t][Goal] \cup {Goal}
             G == {n \in AllNames : n \in names =>
                        Derives[t][n] \subseteq Below[t][n] \cup {n}}
  <1>1. Goal \in AllNames /\ names \subseteq AllNames
    BY OrderedShape DEF Goal, AllNames
  <1>2. ASSUME NEW n \in AllNames, Installs[t][n] \subseteq G
        PROVE  n \in G
    <2> SUFFICES ASSUME n \in names PROVE Derives[t][n] \subseteq Below[t][n] \cup {n}
      OBVIOUS
    <2>1. Installs[t][n] \subseteq Below[t][n]
      BY InstallsBelow
    <2>2. Below[t][n] \subseteq names
      BY <1>1, OrderedShape
    <2>3. \A m \in Installs[t][n] : Derives[t][m] \subseteq Below[t][m] \cup {m}
      BY <1>2, <2>1, <2>2
    <2>4. \A m \in Installs[t][n] : Below[t][m] \subseteq Below[t][n]
      BY <2>1, OrderedShape
    <2>5. QED
      BY <2>1, <2>3, <2>4, DerivesShape
  <1>3. G = AllNames
    <2> HIDE DEF G
    <2>1. G \subseteq AllNames
      BY DEF G
    <2>2. QED
      BY <1>2, <2>1, InstallsRanked, RankInduction
  <1>4. QED
    BY <1>1, <1>3

LEMMA Shape ==
    ASSUME target \in Targets
    PROVE  /\ Names \subseteq AllNames /\ Goal \in Names
           /\ \A n \in Names :
                /\ Below[target][n] \subseteq Names
                /\ Ordered[target][n] \subseteq Below[target][n]
                /\ Installs[target][n] \subseteq Below[target][n]
                /\ Derives[target][n] \subseteq Below[target][n] \cup {n}
                /\ n \in Derives[target][n]
                /\ \A m \in Installs[target][n] :
                        Derives[target][m] \subseteq Derives[target][n]
                /\ \A m \in Below[target][n] :
                    /\ Below[target][m] \subseteq Below[target][n]
                    /\ \E d \in Below[target][n] \cup {n} : m \in Ordered[target][d]
                    /\ \/ m \in Ordered[target][n]
                       \/ \E d \in Ordered[target][n] : m \in Below[target][d]
  <1>1. Goal \in AllNames
    BY DEF Goal, AllNames
  <1>2. Names \subseteq AllNames /\ Goal \in Names
    BY <1>1, OrderedShape DEF Names
  <1>3. ASSUME NEW n \in Names PROVE Below[target][n] \subseteq Names
    BY <1>1, <1>3, OrderedShape DEF Names
  <1>4. ASSUME NEW n \in Names
        PROVE  /\ Installs[target][n] \subseteq Below[target][n]
               /\ Derives[target][n] \subseteq Below[target][n] \cup {n}
    BY <1>4, ListsAgreeHolds DEF Names, ListsAgree
  <1>5. ASSUME NEW n \in Names
        PROVE  /\ n \in Derives[target][n]
               /\ \A m \in Installs[target][n] :
                        Derives[target][m] \subseteq Derives[target][n]
    BY <1>2, <1>5, DerivesShape
  <1>6. QED
    BY <1>2, <1>3, <1>4, <1>5, OrderedShape

\* An image is made from its Dockerfile alone.
LEMMA ImageShape ==
    ASSUME target \in Targets, NEW n \in Images
    PROVE  Ordered[target][n] = {} /\ Installs[target][n] = {}
  BY DEF Ordered, Installs, Prereqs, Rule, Uses, AllNames, Images

\* Nothing below a running recipe is left to do, itself included.
LEMMA NothingBelow ==
    ASSUME IInv, NEW n \in Names, pc[n] # "off"
    PROVE  /\ Below[target][n] \cap todo = {}
           /\ n \notin Below[target][n]
           /\ \A d \in Names : n \in Ordered[target][d] =>
                d # n /\ d \in todo /\ pc[d] = "off"
  <1> USE DEF IInv
  <1>1. target \in Targets /\ todo \subseteq Names /\ n \in todo
    BY DEF Types, Busy
  <1>2. Below[target][n] \cap todo = {}
    BY <1>1, Shape DEF Busy, Upward
  <1>3. QED
    BY <1>1, <1>2, Shape DEF Busy, Upward

\* The part of the invariant that says why something is not good survives a
\* step after which the dependents of the archives it changes will be made
\* again.
LEMMA ExplainedStep ==
    ASSUME target \in Targets, Explained, target' = target, NEW C,
           \A n \in C, d \in Names : n \in Ordered[target][d] => Due(d)',
           \A n \in Names \cap C :
                Found(n)' = "good" \/ n \in unnoticed' \/ Due(n)'
                    \/ Derives[target][n] \cap unnoticed' # {},
           \A m \in Names \ C :
                /\ Found(m) = "good" => Found(m)' = "good"
                /\ Due(m) => Due(m)'
                /\ m \in unnoticed => m \in unnoticed'
    PROVE  Explained'
  <1>0. Names' = Names
    BY DEF Names
  <1>1. SUFFICES ASSUME NEW m \in Names
                 PROVE  Found(m)' = "good" \/ Derives[target][m] \cap unnoticed' # {}
                            \/ \E k \in Below[target][m] \cup {m} : Due(k)'
    BY <1>0 DEF Explained, Old
  <1>2. CASE m \in C
    BY <1>2, Shape
  <1>3. ASSUME m \notin C, NEW k \in C, k \in Below[target][m]
        PROVE  \E d \in Below[target][m] \cup {m} : Due(d)'
    BY <1>3, Shape
  <1>4. CASE m \notin C /\ Found(m) = "good"
    BY <1>4
  <1>5. CASE m \notin C /\ Derives[target][m] \cap unnoticed # {}
    <2>1. PICK x \in Derives[target][m] : x \in unnoticed
      BY <1>5
    <2>2. x \in Below[target][m] \cup {m} /\ x \in Names
      BY <2>1, Shape
    <2>3. QED
      BY <1>3, <1>5, <2>1, <2>2
  <1>6. CASE m \notin C /\ Old(m)
    <2>1. PICK k \in Below[target][m] \cup {m} : Due(k)
      BY <1>6 DEF Old
    <2>2. k \in Names
      BY <2>1, Shape
    <2>3. QED
      BY <1>3, <1>6, <2>1, <2>2
  <1>7. QED
    BY <1>2, <1>4, <1>5, <1>6 DEF Explained

LEMMA ExplainedKept ==
    ASSUME target \in Targets, Explained, target' = target,
           \A m \in Names :
                /\ Found(m) = "good" => Found(m)' = "good"
                /\ Due(m) => Due(m)'
                /\ m \in unnoticed => m \in unnoticed'
    PROVE  Explained'
  <1>1. Names' = Names
    BY DEF Names
  <1>2. \A m \in Names : Below[target][m] \cup {m} \subseteq Names
    BY Shape
  <1>3. \A m \in Names : Derives[target][m] \subseteq Names
    BY <1>2, Shape
  <1>4. QED
    BY <1>1, <1>2, <1>3 DEF Explained, Old

-----------------------------------------------------------------------------
(* Every step preserves the invariant.                                     *)

LEMMA InitIInv == Init => IInv
  <1> SUFFICES ASSUME Init PROVE IInv
    OBVIOUS
  <1>1. Types
    BY UnixBuildAssumption DEF Init, Types, Contents
  <1>2. Busy /\ Upward /\ UpToDate /\ Recorded /\ Tainted
    BY DEF Init, Busy, Upward, UpToDate, Recorded, Tainted
  <1>3. Explained
    BY DEF Init, Explained, Old, Due
  <1>4. QED
    BY <1>1, <1>2, <1>3 DEF IInv

\* make's plan: all that is out of date, and all above it.
LEMMA StartIInv ==
    ASSUME IInv, Start
    PROVE  IInv'
  <1> USE DEF IInv, Start
  <1>0. Names' = Names /\ target \in Targets
    BY DEF Names, Types
  <1>1. Types'
    BY <1>0 DEF Types, bounds
  <1>2. \A n \in Names : pc[n] = "off"
    BY DEF Busy
  <1>3. Busy' /\ Tainted'
    BY <1>0, <1>2 DEF Busy, Tainted, Types
  <1>4. Upward'
    BY <1>0, Shape DEF Upward
  <1>5. UpToDate'
    BY <1>0, Shape DEF UpToDate, OutOfDate, RuleFileMissing
  <1>6. Recorded'
    BY <1>0, <1>2 DEF Recorded
  <1>7. \A m \in Names : Due(m) => Due(m)'
    BY <1>0 DEF Due, OutOfDate, RuleFileMissing
  <1>8. Explained'
    <2>1. \A m \in Names : Found(m)' = Found(m)
      BY DEF Found
    <2>2. QED
      BY <1>0, <1>7, <2>1, ExplainedKept
  <1>9. QED
    BY <1>1, <1>3, <1>4, <1>5, <1>6, <1>8

\* A step that moves at most the state of make, and jobs that stay short of
\* writing, disturbs nothing else.
LEMMA ControlIInv ==
    ASSUME IInv,
           UNCHANGED <<target, tainted, file, imageId, older, unnoticed>>,
           edits' \in 0..MaxEdits, faults' \in 0..MaxFaults,
           dist' \in [path : Contents, tmp : Contents],
           make' \in {"off", "running", "failing", "compressing", "copying"},
           make = "off" => make' = "off",
           pc' \in [Names -> {"off", "installing", "building", "recording"}],
           \A n \in Names : pc'[n] # pc[n] =>
                /\ {pc[n], pc'[n]} \subseteq {"off", "installing"}
                /\ pc'[n] # "off" => Ordered[target][n] \cap todo = {} /\ n \in todo,
           make' \notin {"running", "failing"} => \A n \in Names : pc'[n] = "off",
           \/ todo' = todo /\ (make' \in {"off", "compressing", "copying"} => todo = {})
           \/ make' = "off" /\ todo' = {}
    PROVE  IInv'
  <1> USE DEF IInv
  <1>0. Names' = Names /\ target \in Targets
    BY DEF Names, Types
  <1>1. Types'
    BY <1>0 DEF Types, bounds
  <1>2. Busy'
    BY <1>0 DEF Busy
  <1>3. Upward'
    BY <1>0 DEF Upward
  <1>4. UpToDate'
    BY <1>0 DEF UpToDate
  <1>5. \A m \in Names : Due(m) => Due(m)'
    BY <1>0 DEF Due, Types
  <1>6. Recorded'
    BY <1>0, <1>5 DEF Recorded
  <1>7. Tainted'
    BY <1>0 DEF Tainted, Types
  <1>8. Explained'
    <2>1. \A m \in Names : Found(m)' = Found(m)
      BY DEF Found
    <2>2. QED
      BY <1>0, <1>5, <2>1, ExplainedKept
  <1>9. QED
    BY <1>1, <1>2, <1>3, <1>4, <1>6, <1>7, <1>8

\* What a recipe installs is not being made, and is good unless it comes from
\* something unnoticed.
LEMMA Inputs ==
    ASSUME IInv, NEW n \in Names, pc[n] # "off",
           NEW m \in Installs[target][n]
    PROVE  /\ pc[m] = "off" /\ m \notin todo /\ m \in Names
           /\ Found(m) = "absent" => m \in Images \cap unnoticed
           /\ Found(m) # "good" => Derives[target][m] \cap unnoticed # {}
  <1> USE DEF IInv
  <1>1. target \in Targets /\ m \in Names /\ m \in Below[target][n]
    BY Shape DEF Types
  <1>2. \A k \in Below[target][m] \cup {m} : k \in Names /\ k \notin todo
    BY <1>1, NothingBelow, Shape
  <1>3. make # "off"
    BY DEF Busy
  <1>4. \A k \in Below[target][m] \cup {m} : pc[k] = "off" /\ ~Due(k)
    BY <1>2, <1>3 DEF Busy, Due, UpToDate
  <1>5. Found(m) = "absent" => m \in Images \cap unnoticed
    BY <1>1, <1>4 DEF Found, Due, Recorded
  <1>6. Found(m) # "good" => Derives[target][m] \cap unnoticed # {}
    BY <1>1, <1>4 DEF Explained, Old
  <1>7. QED
    BY <1>1, <1>2, <1>4, <1>5, <1>6

LEMMA InstallIInv ==
    ASSUME IInv, NEW n \in Names, Install(n)
    PROVE  IInv'
  <1> USE DEF IInv, Install
  <1>0. Names' = Names /\ target \in Targets
    BY DEF Names, Types
  <1>1. Types'
    BY <1>0 DEF Types, bounds
  <1>2. Busy' /\ Upward' /\ UpToDate'
    BY <1>0 DEF Busy, Upward, UpToDate, Types
  <1>3. \A m \in Names : Due(m) <=> Due(m)'
    BY <1>0 DEF Due, Types
  <1>4. Recorded'
    BY <1>0, <1>3 DEF Recorded, Types
  <1>5. Tainted'
    <2>1. ASSUME NEW m \in Installs[target][n], Found(m) # "good"
          PROVE  \E x \in Derives[target][n] : x \in unnoticed /\ x \in Names \ todo
      <3>1. PICK x \in Derives[target][m] : x \in unnoticed
        BY <2>1, Inputs
      <3>2. m \in Below[target][n] /\ m \in Names
        BY <1>0, Shape
      <3>3. x \in Below[target][m] \cup {m}
        BY <1>0, <3>1, <3>2, Shape
      <3>4. x \in Below[target][n] /\ x \in Derives[target][n]
        BY <1>0, <3>1, <3>2, <3>3, Shape
      <3>5. QED
        BY <1>0, <3>1, <3>4, NothingBelow, Shape
    <2>2. QED
      BY <1>0, <2>1 DEF Tainted, Types
  <1>6. Explained'
    <2>1. \A m \in Names : Found(m)' = Found(m)
      BY DEF Found
    <2>2. QED
      BY <1>0, <1>3, <2>1, ExplainedKept
  <1>7. QED
    BY <1>1, <1>2, <1>4, <1>5, <1>6

\* An image has nothing below it, and is never tainted.
LEMMA ImageBelow ==
    ASSUME IInv, NEW n \in Images \cap Names
    PROVE  /\ \A m \in Names : n \notin Ordered[target][m] \/ m # n
           /\ Below[target][n] = {}
           /\ pc[n] # "off" => n \notin tainted
  <1> USE DEF IInv
  <1>1. target \in Targets
    BY DEF Types
  <1>2. Below[target][n] = {}
    BY <1>1, Shape, ImageShape
  <1>3. Derives[target][n] \subseteq {n}
    BY <1>1, <1>2, Shape
  <1>4. QED
    BY <1>1, <1>2, <1>3, ImageShape DEF Tainted, Busy

\* The new archive puts all that names it behind.
LEMMA WriteIInv ==
    ASSUME IInv, NEW n \in Names, Write(n)
    PROVE  IInv'
  <1> USE DEF IInv, Write
  <1>0. Names' = Names /\ target \in Targets
    BY DEF Names, Types
  <1>1. pc[n] = "building" /\ n \in todo /\ make \in {"running", "failing"}
    BY DEF Busy
  <1>2. \A d \in Names : n \in Ordered[target][d] =>
            d # n /\ d \in todo /\ d \in todo' /\ pc[d] = "off"
    BY <1>1, NothingBelow
  <1>3. /\ n \notin Dependents(n) /\ Dependents(n) \subseteq todo
        /\ Dependents(n) \cap Images = {}
    BY <1>0, <1>2, ImageShape DEF Dependents
  <1>4. pc'[n] = IF n \in Images THEN "recording" ELSE "off"
    BY DEF Types
  <1>5. \A m \in Names : m # n => pc'[m] = pc[m] /\ file'[m] = file[m]
    BY DEF Types
  <1>6. file'[n] # "absent" /\ (n \notin tainted => file'[n] = "good")
    BY DEF Types
  <1>7. todo' \subseteq todo /\ todo \subseteq todo' \cup {n}
    OBVIOUS
  <1>8. \A m \in Names : m # n /\ Due(m) => Due(m)'
    BY <1>5, <1>7 DEF Due
  <1>9. \A d \in Names : n \in Ordered[target][d] => Due(d)'
    BY <1>1, <1>2, <1>5 DEF Due, Dependents, RuleFileMissing
  <1>10. Types'
    <2>1. file' \in [Names -> Contents] /\ older' \subseteq Names
      BY <1>3 DEF Types, Contents
    <2>2. pc' \in [Names -> {"off", "installing", "building", "recording"}]
      BY DEF Types
    <2>3. QED
      BY <1>0, <2>1, <2>2 DEF Types, bounds
  <1>11. Busy'
    BY <1>0, <1>1, <1>4, <1>5, <1>7 DEF Busy
  <1>12. Upward'
    <2>1. ASSUME NEW m \in todo', NEW k \in Names, m \in Below[target][k]
          PROVE  k \in todo'
      BY <1>1, <1>7, <2>1, NothingBelow DEF Upward
    <2>2. QED
      BY <1>0, <1>1, <2>1 DEF Upward
  <1>13. UpToDate'
    BY <1>0, <1>1, <1>3, <1>5, <1>6, <1>7 DEF UpToDate
  <1>14. Recorded'
    <2>1. ASSUME NEW m \in Images \cap Names, m # n
          PROVE  /\ pc'[m] = "recording" =>
                    /\ file'[m] = "good" /\ m \notin older'
                    /\ \A d \in Names : m \in Ordered[target][d] => Due(d)'
                 /\ pc'[m] # "recording" /\ file'[m] # "absent" =>
                    imageId'[m] # "absent" \/ m \in unnoticed'
      <3>1. pc[m] = "recording" =>
                \A d \in Names : m \in Ordered[target][d] => d # n
        BY <1>1, <2>1, NothingBelow
      <3>2. m \in unnoticed => m \in unnoticed'
        BY <2>1
      <3>3. QED
        BY <1>3, <1>5, <1>8, <2>1, <3>1, <3>2 DEF Recorded
    <2>2. CASE n \in Images
      <3>1. file'[n] = "good" /\ n \notin older'
        BY <1>1, <1>3, <1>6, <2>2, ImageBelow
      <3>2. QED
        BY <1>0, <1>4, <1>9, <2>1, <2>2, <3>1 DEF Recorded
    <2>3. CASE n \notin Images
      BY <1>0, <2>1, <2>3 DEF Recorded
    <2>4. QED
      BY <2>2, <2>3
  <1>15. Tainted'
    <2>1. \A x : x \in unnoticed /\ x \in Names \ todo => x \in unnoticed' /\ x \in Names \ todo'
      BY <1>1, <1>7
    <2>2. QED
      BY <1>0, <1>5, <2>1 DEF Tainted, Types
  <1>16. Explained'
    <2>1. Found(n)' = "good" \/ Derives[target][n] \cap unnoticed' # {} \/ Due(n)'
      <3>1. CASE n \in Images
        BY <1>4, <3>1 DEF Due
      <3>2. CASE n \notin Images /\ n \notin tainted
        BY <1>6, <3>2 DEF Found
      <3>3. CASE n \notin Images /\ n \in tainted
        BY <1>1, <3>3 DEF Tainted
      <3>4. QED
        BY <3>1, <3>2, <3>3
    <2>2. \A m \in Names : m # n => Found(m)' = Found(m)
      BY <1>5 DEF Found
    <2>3. \A m \in Names : m # n /\ m \in unnoticed => m \in unnoticed'
      OBVIOUS
    <2>4. QED
      <3> DEFINE C == {n}
      <3>1. \A k \in C, d \in Names : k \in Ordered[target][d] => Due(d)'
        BY <1>9
      <3>2. \A k \in Names \cap C :
                Found(k)' = "good" \/ k \in unnoticed' \/ Due(k)'
                    \/ Derives[target][k] \cap unnoticed' # {}
        BY <2>1
      <3>3. \A m \in Names \ C :
                /\ Found(m) = "good" => Found(m)' = "good"
                /\ Due(m) => Due(m)'
                /\ m \in unnoticed => m \in unnoticed'
        BY <1>8, <2>2, <2>3
      <3> HIDE DEF C
      <3>4. QED
        BY <1>0, <3>1, <3>2, <3>3, ExplainedStep
  <1>17. QED
    BY <1>10, <1>11, <1>12, <1>13, <1>14, <1>15, <1>16

\* The id of an image is that of a good file, and comes after all that names
\* it was put behind.
LEMMA RecordIInv ==
    ASSUME IInv, NEW n \in Names, Record(n)
    PROVE  IInv'
  <1> USE DEF IInv, Record
  <1>0. Names' = Names /\ target \in Targets
    BY DEF Names, Types
  <1>1. /\ pc[n] = "recording" /\ n \in todo /\ make \in {"running", "failing"}
        /\ n \in Images
    BY DEF Busy
  <1>2. /\ file[n] = "good" /\ n \notin older
        /\ \A d \in Names : n \in Ordered[target][d] => Due(d) /\ d # n
    BY <1>1, NothingBelow DEF Recorded
  <1>3. /\ pc'[n] = "off" /\ \A m \in Names : m # n => pc'[m] = pc[m]
        /\ imageId'[n] = "good"
        /\ \A m \in Images \cap Names : m # n => imageId'[m] = imageId[m]
    BY <1>1, <1>2 DEF Types
  <1>4. \A m \in Names : m # n /\ Due(m) => Due(m)'
    BY <1>3 DEF Due
  <1>5. Types'
    <2>1. imageId' \in [Images \cap Names -> Contents \ {"torn"}]
      BY <1>1, <1>2 DEF Types, Contents
    <2>2. pc' \in [Names -> {"off", "installing", "building", "recording"}]
      BY DEF Types
    <2>3. QED
      BY <1>0, <2>1, <2>2 DEF Types, bounds
  <1>6. Busy'
    BY <1>0, <1>1, <1>3 DEF Busy
  <1>7. Upward'
    <2>1. ASSUME NEW m \in todo', NEW k \in Names, m \in Below[target][k]
          PROVE  k \in todo'
      BY <1>1, <2>1, NothingBelow DEF Upward
    <2>2. QED
      BY <1>0, <1>1, <2>1 DEF Upward
  <1>8. UpToDate'
    BY <1>0, <1>1, <1>2 DEF UpToDate
  <1>9. Recorded'
    <2>1. ASSUME NEW m \in Images \cap Names, m # n
          PROVE  /\ pc'[m] = "recording" =>
                    /\ file'[m] = "good" /\ m \notin older'
                    /\ \A d \in Names : m \in Ordered[target][d] => Due(d)'
                 /\ pc'[m] # "recording" /\ file'[m] # "absent" =>
                    imageId'[m] # "absent" \/ m \in unnoticed'
      <3>1. pc[m] = "recording" =>
                \A d \in Names : m \in Ordered[target][d] => d # n
        BY <1>1, <2>1, NothingBelow
      <3>2. QED
        BY <1>3, <1>4, <2>1, <3>1 DEF Recorded
    <2>2. QED
      BY <1>0, <1>1, <1>3, <2>1 DEF Recorded
  <1>10. Tainted'
    <2>1. \A x : x \in unnoticed /\ x \in Names \ todo => x \in unnoticed' /\ x \in Names \ todo'
      BY <1>1
    <2>2. n \notin tainted
      BY <1>1 DEF Tainted
    <2>3. QED
      BY <1>0, <1>3, <2>1, <2>2 DEF Tainted, Types
  <1>11. Explained'
    <2> DEFINE C == {n}
    <2>1. \A k \in C, d \in Names : k \in Ordered[target][d] => Due(d)'
      BY <1>2, <1>4
    <2>2. \A k \in Names \cap C : Found(k)' = "good"
      BY <1>1, <1>3 DEF Found
    <2>3. \A m \in Names \ C :
            /\ Found(m) = "good" => Found(m)' = "good"
            /\ Due(m) => Due(m)'
            /\ m \in unnoticed => m \in unnoticed'
      BY <1>3, <1>4 DEF Found
    <2> HIDE DEF C
    <2>4. QED
      BY <1>0, <2>1, <2>2, <2>3, ExplainedStep
  <1>12. QED
    BY <1>5, <1>6, <1>7, <1>8, <1>9, <1>10, <1>11

\* Jobs are cut short while make waits for the others, or all of them at once
\* with make.  What they leave is unnoticed, but all that names it is left to
\* do.
LEMMA InterruptedIInv ==
    ASSUME IInv, NEW ns \in SUBSET Names, Interrupted(ns),
           UNCHANGED <<target, imageId, dist, edits>>,
           faults < MaxFaults, faults' = faults + 1,
           pc' = [m \in Names |-> IF m \in ns THEN "off" ELSE pc[m]],
           tainted' = tainted \ ns,
           \/ /\ make \in {"running", "failing"}
              /\ make' = "failing" /\ todo' = todo
           \/ make' = "off" /\ todo' = {} /\ ns = Names
    PROVE  IInv'
  <1> USE DEF IInv
  <1>0. Names' = Names /\ target \in Targets
    BY DEF Names, Types
  <1>1. PICK cut \in SUBSET {n \in ns : pc[n] = "building"} :
            /\ file' = [n \in Names |-> IF n \in cut THEN "torn" ELSE file[n]]
            /\ older' = (older \ cut) \cup UNION {Dependents(n) : n \in cut}
            /\ unnoticed' = unnoticed \cup cut \cup {n \in ns : pc[n] = "recording"}
    BY DEF Interrupted
  <1> DEFINE C == cut \cup {n \in ns : pc[n] = "recording"}
  <1>2. /\ C \subseteq Names /\ C \subseteq todo /\ C \subseteq unnoticed'
        /\ \A n \in C : pc[n] # "off" /\ n \in ns
    BY <1>1 DEF Busy
  <1>3. \A n \in C, d \in Names : n \in Ordered[target][d] =>
            d \notin C /\ d \in todo /\ pc[d] = "off"
    BY <1>2, NothingBelow
  <1>4. \A n \in cut : Dependents(n) \subseteq todo /\ Dependents(n) \cap Images = {}
    BY <1>0, <1>3, ImageShape DEF Dependents
  <1>5. \A m \in Names : m \notin C /\ Due(m) => Due(m)'
    BY <1>1 DEF Due, Types
  <1>6. \A n \in C, d \in Names : n \in Ordered[target][d] => Due(d)'
    <2>1. ASSUME NEW n \in cut, NEW d \in Names, n \in Ordered[target][d]
          PROVE  Due(d)'
      <3>1. d \notin cut /\ d \in todo
        BY <1>3, <2>1
      <3>2. CASE RuleFileMissing(d)
        BY <1>1, <3>1, <3>2 DEF Due, RuleFileMissing
      <3>3. CASE ~RuleFileMissing(d)
        <4>1. d \in Dependents(n)
          BY <2>1, <3>3 DEF Dependents
        <4>2. d \in older'
          BY <1>1, <4>1
        <4>3. QED
          BY <4>2 DEF Due
      <3>4. QED
        BY <3>2, <3>3
    <2>2. ASSUME NEW n \in ns, pc[n] = "recording",
                 NEW d \in Names, n \in Ordered[target][d]
          PROVE  Due(d)'
      <3>1. n \in Images \cap Names /\ n \in C
        BY <2>2 DEF Busy
      <3>2. Due(d)
        BY <2>2, <3>1 DEF Recorded
      <3>3. QED
        BY <1>3, <1>5, <2>2, <3>1, <3>2
    <2>3. QED
      BY <2>1, <2>2
  <1>7. Types'
    <2>1. file' \in [Names -> Contents]
      BY <1>1 DEF Types, Contents
    <2>2. older' \subseteq Names
      BY <1>1 DEF Types, Dependents
    <2>3. unnoticed' \subseteq Names
      BY <1>1 DEF Types
    <2>4. pc' \in [Names -> {"off", "installing", "building", "recording"}]
      BY DEF Types
    <2>5. faults' \in 0..MaxFaults
      BY UnixBuildAssumption DEF Types
    <2>6. QED
      BY <1>0, <2>1, <2>2, <2>3, <2>4, <2>5 DEF Types
  <1>8. Busy'
    BY <1>0 DEF Busy
  <1>9. Upward'
    BY <1>0 DEF Upward
  <1>10. UpToDate'
    BY <1>0, <1>1, <1>2, <1>4 DEF UpToDate
  <1>11. Recorded'
    <2>1. ASSUME NEW n \in Images \cap Names, pc'[n] = "recording"
          PROVE  /\ file'[n] = "good" /\ n \notin older'
                 /\ \A d \in Names : n \in Ordered[target][d] => Due(d)'
      <3>1. pc[n] = "recording" /\ n \notin ns
        BY <2>1
      <3>2. file'[n] = "good" /\ n \notin older'
        BY <1>1, <1>4, <3>1 DEF Recorded
      <3>3. \A d \in Names : n \in Ordered[target][d] => d \notin C /\ Due(d)
        BY <1>2, <3>1, NothingBelow DEF Recorded
      <3>4. QED
        BY <1>5, <3>2, <3>3
    <2>2. ASSUME NEW n \in Images \cap Names,
                 pc'[n] # "recording", file'[n] # "absent"
          PROVE  imageId'[n] # "absent" \/ n \in unnoticed'
      BY <1>1, <2>2 DEF Recorded
    <2>3. QED
      BY <1>0, <2>1, <2>2 DEF Recorded
  <1>12. Tainted'
    BY <1>0, <1>1 DEF Tainted, Types
  <1>13. Explained'
    <2>1. \A n \in Names \cap C : n \in unnoticed'
      BY <1>2
    <2>2. \A m \in Names \ C :
            /\ Found(m) = "good" => Found(m)' = "good"
            /\ Due(m) => Due(m)'
            /\ m \in unnoticed => m \in unnoticed'
      BY <1>1, <1>5 DEF Found
    <2> HIDE DEF C
    <2>3. QED
      BY <1>0, <1>6, <2>1, <2>2, ExplainedStep
  <1>14. QED
    BY <1>7, <1>8, <1>9, <1>10, <1>11, <1>12, <1>13

LEMMA RecipeFailsIInv ==
    ASSUME IInv, NEW n \in Names, RecipeFails(n)
    PROVE  IInv'
  <1>1. make \in {"running", "failing"}
    BY DEF IInv, Busy, RecipeFails
  <1>2. pc' = [m \in Names |-> IF m \in {n} THEN "off" ELSE pc[m]]
    BY DEF IInv, Types, RecipeFails
  <1>3. QED
    BY <1>1, <1>2, InterruptedIInv DEF RecipeFails

LEMMA KillIInv ==
    ASSUME IInv, Kill
    PROVE  IInv'
  <1>1. pc' = [m \in Names |-> IF m \in Names THEN "off" ELSE pc[m]]
    BY DEF Kill
  <1>2. tainted' = tainted \ Names
    BY DEF IInv, Types, Kill
  <1>3. QED
    BY <1>1, <1>2, InterruptedIInv DEF Kill

\* What an edit makes stale is out of date at the next start, or comes from
\* the archive that the edit leaves unnoticed.
LEMMA EditIInv ==
    ASSUME IInv, NEW source \in Edited[target], Edit(source)
    PROVE  IInv'
  <1> DEFINE n == MadeFrom(source)
  <1> USE DEF IInv
  <1>0. Names' = Names /\ target \in Targets /\ n \in Names
    BY DEF Names, Types, Edit
  <1>1. (source \in Watched /\ n = source) \/ source \in OtherSources
    BY <1>0, UnixBuildAssumption DEF Watched, MadeFrom
  <1>2. make = "off" /\ todo = {} /\ tainted = {} /\ \A m \in Names : pc[m] = "off"
    BY DEF Edit, Busy, Upward, Tainted, Types
  <1>3. UNCHANGED <<target, make, todo, pc, tainted, dist, faults>>
    BY DEF Edit
  <1>4. /\ file' = [m \in Names |->
            IF n \in Derives[target][m] /\ file[m] = "good" THEN "stale" ELSE file[m]]
        /\ imageId' = [m \in Images \cap Names |->
            IF n = m /\ imageId[m] = "good" THEN "stale" ELSE imageId[m]]
    BY DEF Edit
  <1>5. /\ older \subseteq older' /\ older' \subseteq older \cup {n}
        /\ source \in Watched => n \in older'
        /\ unnoticed \subseteq unnoticed' /\ unnoticed' \subseteq unnoticed \cup {n}
        /\ source \in OtherSources /\ file[n] # "absent" => n \in unnoticed'
    BY DEF Edit
  <1>6. Types'
    <2>1. file' \in [Names -> Contents]
      BY <1>4 DEF Types, Contents
    <2>2. imageId' \in [Images \cap Names -> Contents \ {"torn"}]
      BY <1>4 DEF Types, Contents
    <2>3. edits' \in 0..MaxEdits
      BY UnixBuildAssumption DEF Types, Edit
    <2>4. QED
      BY <1>0, <1>3, <1>5, <2>1, <2>2, <2>3 DEF Types
  <1>7. Busy' /\ Upward' /\ UpToDate' /\ Tainted'
    BY <1>0, <1>2, <1>3 DEF Busy, Upward, UpToDate, Tainted
  <1>8. Recorded'
    BY <1>0, <1>2, <1>3, <1>4, <1>5 DEF Recorded
  <1>9. \A m \in Names : Due(m) => Due(m)'
    BY <1>3, <1>4, <1>5 DEF Due
  <1>10. n \in unnoticed' \/ Due(n)'
    BY <1>0, <1>1, <1>4, <1>5 DEF Due
  <1>11. Explained'
    <2>1. SUFFICES ASSUME NEW m \in Names
                   PROVE  Found(m)' = "good" \/ Derives[target][m] \cap unnoticed' # {}
                            \/ \E k \in Below[target][m] \cup {m} : Due(k)'
      BY <1>0, <1>3 DEF Explained, Old
    <2>2. CASE n \in Derives[target][m]
      BY <1>0, <1>10, <2>2, Shape
    <2>3. CASE n \notin Derives[target][m]
      <3>1. n # m
        BY <1>0, <2>3, Shape
      <3>2. Found(m)' = Found(m)
        BY <1>4, <2>3, <3>1 DEF Found
      <3>3. \A k \in Below[target][m] \cup {m} : k \in Names
        BY <1>0, Shape
      <3>4. QED
        BY <1>5, <1>9, <3>2, <3>3 DEF Explained, Old
    <2>4. QED
      BY <2>2, <2>3
  <1>12. QED
    BY <1>6, <1>7, <1>8, <1>11

LEMMA NextIInv == IInv /\ [Next]_vars => IInv'
  <1> SUFFICES ASSUME IInv, [Next]_vars PROVE IInv'
    OBVIOUS
  <1> USE DEF IInv
  <1>1. CASE Start
    BY <1>1, StartIInv
  <1>2. CASE Finish
    BY <1>2, ControlIInv DEF Finish, Types, Busy, bounds
  <1>3. CASE GiveUp
    BY <1>3, ControlIInv DEF GiveUp, Types, Active, bounds
  <1>4. CASE Compress
    <2>1. dist' \in [path : Contents, tmp : Contents]
      BY <1>4 DEF Compress, Types, Contents
    <2>2. QED
      BY <1>4, <2>1, ControlIInv DEF Compress, Types, Busy, Upward, bounds
  <1>5. CASE Rename
    <2>1. Goal \in Names
      BY Shape DEF Types
    <2>2. dist' \in [path : Contents, tmp : Contents]
      BY <1>5, <2>1 DEF Rename, Types, Contents
    <2>3. QED
      BY <1>5, <2>2, ControlIInv DEF Rename, Types, Busy, Upward, bounds
  <1>6. CASE CompressFails
    <2>1. dist' \in [path : Contents, tmp : Contents]
      BY <1>6 DEF CompressFails, Types, Contents
    <2>2. faults' \in 0..MaxFaults
      BY <1>6, UnixBuildAssumption DEF CompressFails, Types
    <2>3. QED
      BY <1>6, <2>1, <2>2, ControlIInv DEF CompressFails, Types, Busy, Upward
  <1>7. ASSUME NEW n \in Names, Launch(n) PROVE IInv'
    BY <1>7, ControlIInv DEF Launch, Types, Upward, bounds
  <1>8. ASSUME NEW n \in Names, InstallFails(n) PROVE IInv'
    BY <1>8, ControlIInv DEF InstallFails, Types, Busy, bounds
  <1>9. ASSUME NEW n \in Names, Install(n) PROVE IInv'
    BY <1>9, InstallIInv
  <1>10. ASSUME NEW n \in Names, Write(n) PROVE IInv'
    BY <1>10, WriteIInv
  <1>11. ASSUME NEW n \in Names, Record(n) PROVE IInv'
    BY <1>11, RecordIInv
  <1>12. ASSUME NEW n \in Names, RecipeFails(n) PROVE IInv'
    BY <1>12, RecipeFailsIInv
  <1>13. CASE Kill
    BY <1>13, KillIInv
  <1>14. ASSUME NEW source \in Edited[target], Edit(source) PROVE IInv'
    BY <1>14, EditIInv
  <1>15. CASE UNCHANGED vars
    BY <1>15 DEF vars, bounds, Types, Busy, Upward, UpToDate, Recorded, Tainted,
         Explained, Names, Active, Found, Due, Old
  <1>16. QED
    BY <1>1, <1>2, <1>3, <1>4, <1>5, <1>6, <1>7, <1>8, <1>9, <1>10, <1>11, <1>12,
       <1>13, <1>14, <1>15
    DEF Next, Build, Job

\* Only Launch adds to the jobs, one at a time.
LEMMA NextBounded == IInv /\ Bounded /\ [Next]_vars => Bounded'
  <1> SUFFICES ASSUME IInv, Bounded, [Next]_vars PROVE Bounded'
    OBVIOUS
  <1>0. Jobs \in Nat \ {0} /\ pc \in [Names -> {"off", "installing", "building", "recording"}]
    BY UnixBuildAssumption DEF IInv, Types
  <1>1. CASE Active' \subseteq Active
    BY <1>0, <1>1, FS_Subset, FS_CardinalityType DEF Bounded
  <1>2. ASSUME NEW n \in Names, Launch(n) PROVE Bounded'
    <2>1. Names' = Names
      BY <1>2 DEF Launch, Names
    <2>2. Active' = Active \cup {n} /\ n \notin Active
      BY <1>0, <1>2, <2>1 DEF Launch, Active
    <2>3. IsFiniteSet(Active') /\ Cardinality(Active') = Cardinality(Active) + 1
      BY <2>2, FS_AddElement DEF Bounded
    <2>4. Cardinality(Active) \in Nat /\ Cardinality(Active) < Jobs
      BY <1>2, FS_CardinalityType DEF Launch, Bounded
    <2>5. Cardinality(Active') <= Jobs
      BY <1>0, <2>3, <2>4
    <2>6. Jobs' = Jobs
      OBVIOUS
    <2>7. QED
      BY <2>3, <2>5 DEF Bounded
  <1>3. CASE \E n \in Names : Job(n) \/ RecipeFails(n)
    <2>1. target' = target
      BY <1>3 DEF Job, Install, InstallFails, Write, Record, RecipeFails
    <2>2. \A n \in Names : pc'[n] # "off" => pc[n] # "off"
      BY <1>0, <1>3 DEF Job, Install, InstallFails, Write, Record, RecipeFails
    <2>3. QED
      BY <1>1, <2>1, <2>2 DEF Active, Names
  <1>4. CASE Kill
    BY <1>1, <1>4 DEF Kill, Active, Names
  <1>5. CASE \/ Start \/ Finish \/ GiveUp \/ Compress \/ Rename \/ CompressFails
             \/ \E source \in Edited[target] : Edit(source)
    BY <1>1, <1>5 DEF Start, Finish, GiveUp, Compress, Rename, CompressFails, Edit,
         Active, Names
  <1>6. CASE UNCHANGED vars
    BY <1>1, <1>6 DEF vars, Active, Names
  <1>7. QED
    BY <1>2, <1>3, <1>4, <1>5, <1>6 DEF Next, Build

THEOREM Invariant == Spec => [](IInv /\ Bounded)
  <1>1. Init => IInv /\ Bounded
    <2>1. Init => Active = {}
      BY DEF Init, Active
    <2>2. QED
      BY <2>1, InitIInv, FS_EmptySet, UnixBuildAssumption DEF Bounded
  <1>2. QED
    BY <1>1, NextIInv, NextBounded, PTL DEF Spec

-----------------------------------------------------------------------------
(* What follows.                                                           *)

\* Every reachable state is well formed, and `make -jN` runs at most N
\* recipes, none of them while build-main.py compresses or is not there.
THEOREM TypeCorrect == Spec => []TypeOK
  <1>1. IInv /\ Bounded => TypeOK
    BY DEF IInv, Types, Busy, Bounded, TypeOK, Active
  <1>2. QED
    BY <1>1, Invariant, PTL

\* No order of the recipes, failure or kill makes one install what is being
\* written or never was; but for the image whose id an earlier build did not
\* record.
THEOREM InputsReadyHolds == Spec => []InputsReady
  <1>1. IInv => InputsReady
    BY Inputs DEF InputsReady
  <1>2. QED
    BY <1>1, Invariant, PTL

\* A complete build is made of current archives, but for what comes from the
\* archives that were cut short, and the sources no rule names.
THEOREM FreshBuildHolds == Spec => []FreshBuild
  <1>1. IInv => FreshBuild
    <2> SUFFICES ASSUME IInv, make \in {"compressing", "copying"},
                        NEW n \in Derives[target][Goal], Found(n) # "good"
                 PROVE  Derives[target][n] \cap unnoticed # {}
      BY DEF FreshBuild
    <2> USE DEF IInv
    <2>1. target \in Targets /\ n \in Names /\ Below[target][n] \subseteq Names
      BY Shape DEF Types
    <2>2. \A m \in Names : ~Due(m)
      BY DEF Due, UpToDate, Upward, Busy
    <2>3. QED
      BY <2>1, <2>2 DEF Explained, Old
  <1>2. QED
    BY <1>1, Invariant, PTL

\* The distribution in dist/ changes only into the whole archive of CPython.
THEOREM DistWholeHolds == Spec => DistWhole
  <1>1. Types /\ [Next]_vars =>
            [dist'.path # dist.path => make = "copying" /\ dist'.path = file[Goal]]_vars
    <2> SUFFICES ASSUME Types, [Next]_vars, dist'.path # dist.path
                 PROVE  make = "copying" /\ dist'.path = file[Goal]
      OBVIOUS
    <2>1. dist' # dist
      OBVIOUS
    <2>2. ASSUME \/ Compress \/ CompressFails
                 \/ make = "copying" /\ dist' = [path |-> file[Goal], tmp |-> "absent"]
          PROVE  make = "copying" /\ dist'.path = file[Goal]
      BY <2>2 DEF Compress, CompressFails, Types
    <2>3. QED
      BY <2>1, <2>2 DEF Next, Build, Job, Start, Finish, GiveUp, Rename, Launch,
           Install, InstallFails, Write, Record, RecipeFails, Kill, Edit, vars
  <1>2. QED
    BY <1>1, Invariant, PTL DEF IInv, Spec, DistWhole
=============================================================================
