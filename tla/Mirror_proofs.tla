---------------------------- MODULE Mirror_proofs ----------------------------
(***************************************************************************)
(* Theorems about Mirror, for any number of runs, names, threads and dist  *)
(* directories.                                                            *)
(***************************************************************************)
EXTENDS Mirror, FiniteSetTheorems, TLAPS

Active == {"uploading", "sums", "done"}

\* The inductive invariant, part by part.  A run that got past its checks has
\* a dist directory it may upload from, and a future for each file in it; a
\* future that succeeded has left its object; what was collected is the errors
\* among the futures that were yielded, and behind the pool all were.
Chosen ==
    \A r \in Runs : pc[r] \in Active =>
        dist[r] \in Dists /\ (IgnoreMissing \/ There(dist[r]) = Artifacts)
Futures ==
    \A r \in Runs : pc[r] \in Active =>
        \A n \in Artifacts : future[r][n] # "none" <=> n \in There(dist[r])
OkMeansThere ==
    \A r \in Runs, n \in Artifacts : future[r][n] = "ok" => bucket[n] # Unset
Collected ==
    \A r \in Runs :
        /\ pc[r] = "idle" => \A n \in Artifacts : future[r][n] = "none"
        /\ \A n \in seen[r] : future[r][n] \in {"ok", "error"}
        /\ \A n \in Artifacts : n \in errors[r] <=> n \in seen[r] /\ future[r][n] = "error"
Tried ==
    \A r \in Runs :
        /\ pc[r] \in {"sums", "done", "failed"} =>
              \A n \in Artifacts : future[r][n] # "none" => n \in seen[r]
        /\ pc[r] \in {"sums", "done"} => errors[r] = {}

Types ==
    /\ pc \in [Runs -> {"idle", "uploading", "sums"} \cup Ended]
    /\ dist \in [Runs -> Dists \cup {Unset}]
    /\ future \in [Runs -> [Artifacts -> {"none", "pending", "running", "ok", "error"}]]
    /\ seen \in [Runs -> SUBSET Artifacts]
    /\ errors \in [Runs -> SUBSET Artifacts]
    /\ bucket \in [Names -> Bytes \cup Dists \cup {Unset}]
Pool == \A r \in Runs : Cardinality(Running(r)) <= UploadConcurrency

IInv == Types /\ Chosen /\ Futures /\ OkMeansThere /\ Collected /\ Tried /\ SumsLast

\* A file of a dist directory is one of the bytes that may be stored, and not
\* the mark of an empty name.
LEMMA FileBytes ==
    ASSUME NEW d \in Dists, NEW n \in Artifacts
    PROVE  d[n] \in Bytes /\ d[n] # Unset
  BY MirrorAssumption DEF Bytes

\* Behind the pool of a run without errors, every upload has succeeded.
LEMMA AllOk ==
    ASSUME IInv, NEW r \in Runs, pc[r] \in {"sums", "done"}
    PROVE  \A n \in There(dist[r]) : future[r][n] = "ok"
  BY DEF IInv, Types, Futures, Collected, Tried, Active, There

LEMMA InitIInv == Init => IInv
  BY MirrorAssumption
  DEF Init, IInv, Types, Chosen, Futures, OkMeansThere, Collected, Tried, SumsLast, Active,
      Ended, Names

LEMMA BeginIInv ==
    ASSUME IInv, NEW r \in Runs, Begin(r)
    PROVE  IInv'
  <1> USE MirrorAssumption DEF IInv, Begin, Goto, Ended, Active
  <1>1. PICK d \in Dists :
            /\ dist' = [dist EXCEPT ![r] = d]
            /\ IF There(d) = Artifacts \/ IgnoreMissing
               THEN /\ pc' = [pc EXCEPT ![r] = "uploading"]
                    /\ future' = [future EXCEPT ![r] =
                         [n \in Artifacts |-> IF n \in There(d) THEN "pending" ELSE "none"]]
               ELSE pc' = [pc EXCEPT ![r] = "failed"] /\ UNCHANGED future
    OBVIOUS
  <1>2. bucket' = bucket /\ seen' = seen /\ errors' = errors /\ pc[r] = "idle"
    OBVIOUS
  <1> HIDE DEF Begin, Goto
  <1>3. Types'
    <2>1. CASE There(d) = Artifacts \/ IgnoreMissing
      <3>1. [n \in Artifacts |-> IF n \in There(d) THEN "pending" ELSE "none"]
                \in [Artifacts -> {"none", "pending", "running", "ok", "error"}]
        OBVIOUS
      <3>2. future' = [future EXCEPT ![r] =
                         [n \in Artifacts |-> IF n \in There(d) THEN "pending" ELSE "none"]]
        BY <1>1, <2>1
      <3>3. future' \in [Runs -> [Artifacts -> {"none", "pending", "running", "ok", "error"}]]
        BY <3>1, <3>2 DEF Types
      <3>4. pc' = [pc EXCEPT ![r] = "uploading"] /\ dist' = [dist EXCEPT ![r] = d]
        BY <1>1, <2>1
      <3>5. QED
        BY <1>2, <3>3, <3>4 DEF Types
    <2>2. CASE ~(There(d) = Artifacts \/ IgnoreMissing)
      BY <1>1, <1>2, <2>2 DEF Types
    <2>3. QED
      BY <2>1, <2>2
  <1>4. Chosen'
    BY <1>1 DEF Types, Chosen
  <1>5. Futures'
    BY <1>1 DEF Types, Futures, There
  <1>6. OkMeansThere'
    BY <1>1, <1>2 DEF Types, OkMeansThere
  <1>7. seen[r] = {}
    BY <1>2 DEF Types, Collected
  <1>8. Collected'
    BY <1>1, <1>2, <1>7 DEF Types, Collected
  <1>9. Tried'
    BY <1>1, <1>2 DEF Types, Collected, Tried
  <1>10. SumsLast'
    BY <1>2 DEF SumsLast
  <1>11. QED
    BY <1>3, <1>4, <1>5, <1>6, <1>8, <1>9, <1>10

\* A worker's step moves one submitted future on and stores at most the
\* object of its own name.
LEMMA FutureIInv ==
    ASSUME IInv, NEW r \in Runs, NEW n \in Artifacts, NEW state,
           pc[r] = "uploading", future[r][n] \in {"pending", "running"},
           state \in {"running", "ok", "error"},
           future' = [future EXCEPT ![r][n] = state],
           UNCHANGED <<pc, dist, seen, errors>>,
           \/ bucket' = [bucket EXCEPT ![n] = dist[r][n]]
           \/ bucket' = bucket /\ state # "ok"
    PROVE  IInv'
  <1> USE MirrorAssumption DEF IInv
  <1>1. dist[r] \in Dists /\ dist[r][n] \in Bytes /\ dist[r][n] # Unset
    BY FileBytes DEF Chosen, Active
  <1>2. Types'
    BY <1>1 DEF Types, Names
  <1>3. \A m \in Names : bucket[m] # Unset => bucket'[m] # Unset
    BY <1>1 DEF Types
  <1>4. bucket'[Sums] = bucket[Sums]
    BY DEF Types, Names
  <1>5. Chosen'
    BY DEF Chosen
  <1>6. Futures'
    BY DEF Types, Futures, Active
  <1>7. OkMeansThere'
    BY <1>1, <1>3 DEF Types, OkMeansThere, Names
  <1>8. n \notin seen[r]
    BY DEF Collected
  <1>9. Collected'
    BY <1>8 DEF Types, Collected
  <1>10. Tried'
    BY DEF Types, Tried
  <1>11. SumsLast'
    BY <1>3, <1>4 DEF SumsLast, Names, There
  <1>12. QED
    BY <1>2, <1>5, <1>6, <1>7, <1>9, <1>10, <1>11

\* Collecting a future changes what the main thread knows, and nothing else.
LEMMA CollectIInv ==
    ASSUME IInv, NEW r \in Runs, NEW n \in Artifacts, Collect(r, n)
    PROVE  IInv'
  <1>1. /\ seen' = [seen EXCEPT ![r] = seen[r] \cup {n}]
        /\ errors' = [errors EXCEPT ![r] =
             IF n \in Failed(r) THEN errors[r] \cup {n} ELSE errors[r]]
        /\ UNCHANGED <<pc, dist, future, bucket>>
        /\ pc[r] = "uploading" /\ n \notin seen[r] /\ future[r][n] \in {"ok", "error"}
    BY DEF Collect, IInv, Types
  <1> USE DEF IInv
  <1>2. Types' /\ Chosen' /\ Futures' /\ OkMeansThere' /\ SumsLast'
    BY <1>1 DEF Types, Chosen, Futures, OkMeansThere, SumsLast
  <1>3. Collected'
    <2>1. ASSUME NEW q \in Runs, q # r
          PROVE  seen'[q] = seen[q] /\ errors'[q] = errors[q]
      BY <1>1, <2>1 DEF Types
    <2>2. /\ seen'[r] = seen[r] \cup {n}
          /\ \A m \in Artifacts : m \in errors'[r] <=>
                m \in errors[r] \/ (m = n /\ future[r][n] = "error")
      BY <1>1 DEF Types, Failed
    <2>3. \A m \in Artifacts :
            m \in errors'[r] <=> m \in seen'[r] /\ future[r][m] = "error"
      BY <1>1, <2>2 DEF Collected
    <2>4. QED
      BY <1>1, <2>1, <2>2, <2>3 DEF Collected
  <1>4. Tried'
    BY <1>1 DEF Types, Tried
  <1>5. QED
    BY <1>2, <1>3, <1>4

LEMMA JoinIInv ==
    ASSUME IInv, NEW r \in Runs, Join(r)
    PROVE  IInv'
  <1> USE DEF IInv, Join, Goto
  <1>1. Types' /\ Chosen' /\ Futures' /\ OkMeansThere' /\ SumsLast'
    BY DEF Types, Chosen, Futures, OkMeansThere, SumsLast, Active, Ended
  <1>2. Collected'
    BY DEF Types, Collected
  <1>3. Tried'
    BY DEF Types, Tried, Submitted
  <1>4. QED
    BY <1>1, <1>2, <1>3

LEMMA UploadSumsIInv ==
    ASSUME IInv, NEW r \in Runs, UploadSums(r)
    PROVE  IInv'
  <1> USE MirrorAssumption DEF IInv, UploadSums, Goto
  <1>1. dist[r] \in Dists
    BY DEF Chosen, Active
  <1>2. Types'
    BY <1>1 DEF Types, Names, Ended
  <1>3. \A n \in Artifacts : bucket'[n] = bucket[n]
    BY DEF Types, Names
  <1>4. Chosen' /\ Futures' /\ Collected' /\ Tried'
    <2>1. /\ UNCHANGED <<dist, future, seen, errors>> /\ pc[r] = "sums"
          /\ \E label \in {"done", "failed"} : pc' = [pc EXCEPT ![r] = label]
      OBVIOUS
    <2> HIDE DEF UploadSums, Goto
    <2>2. Chosen' /\ Futures'
      BY <2>1 DEF Types, Chosen, Futures, Active
    <2>3. Collected' /\ Tried'
      BY <2>1 DEF Types, Collected, Tried
    <2>4. QED
      BY <2>2, <2>3
  <1>5. OkMeansThere'
    BY <1>3 DEF Types, OkMeansThere
  <1>6. \A n \in There(dist[r]) : bucket[n] # Unset
    BY AllOk DEF OkMeansThere, There
  <1>7. SumsLast'
    <2>1. CASE bucket' = bucket
      BY <2>1 DEF SumsLast
    <2>2. CASE bucket' = [bucket EXCEPT ![Sums] = dist[r]]
      <3>1. bucket'[Sums] = dist[r]
        BY <2>2 DEF Types, Names
      <3>2. IgnoreMissing \/ There(dist[r]) = Artifacts
        BY DEF Chosen, Active
      <3>3. QED
        BY <1>3, <1>6, <3>1, <3>2 DEF SumsLast, There
    <2>3. QED
      BY <2>1, <2>2
  <1>8. QED
    BY <1>2, <1>4, <1>5, <1>7

LEMMA CrashIInv ==
    ASSUME IInv, NEW r \in Runs, Crash(r)
    PROVE  IInv'
  <1> USE MirrorAssumption DEF IInv, Crash, Goto
  <1>1. dist[r] \in Dists
    BY DEF Chosen, Active
  <1>2. PICK stored \in SUBSET Running(r) :
            bucket' = [n \in Names |-> IF n \in stored THEN dist[r][n] ELSE bucket[n]]
    OBVIOUS
  <1>3. \A n \in stored : n \in Artifacts /\ dist[r][n] \in Bytes /\ dist[r][n] # Unset
    BY <1>1, FileBytes DEF Running
  <1>4. Types'
    BY <1>2, <1>3 DEF Types, Ended
  <1>5. \A m \in Names : bucket[m] # Unset => bucket'[m] # Unset
    BY <1>2, <1>3
  <1>6. bucket'[Sums] = bucket[Sums]
    BY <1>2, <1>3 DEF Names
  <1>7. Chosen' /\ Futures' /\ Collected' /\ Tried'
    BY DEF Types, Chosen, Futures, Collected, Tried, Active
  <1>8. OkMeansThere'
    BY <1>5 DEF OkMeansThere, Names
  <1>9. SumsLast'
    BY <1>5, <1>6 DEF SumsLast, Names, There
  <1>10. QED
    BY <1>4, <1>7, <1>8, <1>9

LEMMA StepIInv == IInv /\ [Next]_vars => IInv'
  <1> SUFFICES ASSUME IInv, [Next]_vars PROVE IInv'
    OBVIOUS
  <1>1. ASSUME NEW r \in Runs, Begin(r) PROVE IInv'
    BY <1>1, BeginIInv
  <1>2. ASSUME NEW r \in Runs, NEW n \in Artifacts, Take(r, n) PROVE IInv'
    BY <1>2, FutureIInv DEF Take
  <1>3. ASSUME NEW r \in Runs, NEW n \in Artifacts, Stored(r, n) PROVE IInv'
    BY <1>3, FutureIInv DEF Stored, Running
  <1>4. ASSUME NEW r \in Runs, NEW n \in Artifacts, NotStored(r, n) PROVE IInv'
    BY <1>4, FutureIInv DEF NotStored, Running
  <1>5. ASSUME NEW r \in Runs, Join(r) PROVE IInv'
    BY <1>5, JoinIInv
  <1>6. ASSUME NEW r \in Runs, UploadSums(r) PROVE IInv'
    BY <1>6, UploadSumsIInv
  <1>7. ASSUME NEW r \in Runs, Crash(r) PROVE IInv'
    BY <1>7, CrashIInv
  <1>8. ASSUME NEW r \in Runs, NEW n \in Artifacts, Collect(r, n) PROVE IInv'
    BY <1>8, CollectIInv
  <1>9. CASE UNCHANGED vars
    BY <1>9
    DEF vars, IInv, Types, Chosen, Futures, OkMeansThere, Collected, Tried, SumsLast
  <1>10. QED
    BY <1>1, <1>2, <1>3, <1>4, <1>5, <1>6, <1>7, <1>8, <1>9 DEF Next, Step

LEMMA SpecIInv == Spec => []IInv
  BY InitIInv, StepIInv, PTL DEF Spec

-----------------------------------------------------------------------------
\* SHA256SUMS is in the bucket only with every distribution it lists, whatever
\* runs overlap, fail or are killed.
THEOREM SumsLastHolds == Spec => []SumsLast
  BY SpecIInv, PTL DEF IInv

\* A run that leaves the pool has had an answer for every upload and reports
\* exactly those that failed; one that goes on has stored all its files.
THEOREM NoneHiddenHolds == Spec => []NoneHidden
  <1>1. IInv => NoneHidden
    <2> SUFFICES ASSUME IInv, NEW r \in Runs, pc[r] \in {"sums", "done", "failed"}
                 PROVE  /\ \A n \in Submitted(r) : future[r][n] \in {"ok", "error"}
                        /\ \A n \in Submitted(r) \ errors[r] : bucket[n] # Unset
                        /\ errors[r] = Failed(r)
                        /\ pc[r] # "failed" =>
                              errors[r] = {} /\ Submitted(r) = There(dist[r])
      BY DEF NoneHidden
    <2>1. \A n \in Submitted(r) : n \in seen[r] /\ future[r][n] \in {"ok", "error"}
      BY DEF IInv, Tried, Collected, Submitted
    <2>2. errors[r] \subseteq Artifacts
      BY DEF IInv, Types
    <2>3. errors[r] = Failed(r)
      BY <2>1, <2>2 DEF IInv, Collected, Submitted, Failed
    <2>4. \A n \in Submitted(r) \ errors[r] : bucket[n] # Unset
      BY <2>1, <2>3 DEF IInv, OkMeansThere, Submitted, Failed
    <2>5. pc[r] # "failed" => errors[r] = {} /\ Submitted(r) = There(dist[r])
      BY DEF IInv, Tried, Futures, Active, Submitted, There
    <2>6. QED
      BY <2>1, <2>3, <2>4, <2>5
  <1>2. QED
    BY SpecIInv, <1>1, PTL

-----------------------------------------------------------------------------
(* The pool, which needs that there are finitely many files.               *)

LEMMA RunningFinite == \A r \in Runs : IsFiniteSet(Running(r))
  BY MirrorAssumption, FS_Subset DEF Running

\* A set of running uploads that loses members stays within the bound.
LEMMA FewerRun ==
    ASSUME IInv, Pool, NEW r \in Runs, Running(r)' \subseteq Running(r)
    PROVE  Cardinality(Running(r)') <= UploadConcurrency
  <1>1. IsFiniteSet(Running(r))
    BY RunningFinite
  <1>2. /\ Cardinality(Running(r)') <= Cardinality(Running(r))
        /\ Cardinality(Running(r)) \in Nat /\ Cardinality(Running(r)') \in Nat
    BY <1>1, FS_Subset, FS_CardinalityType
  <1>3. QED
    BY <1>2, MirrorAssumption DEF Pool

LEMMA StepPool == IInv /\ Pool /\ [Next]_vars => Pool'
  <1> SUFFICES ASSUME IInv, Pool, [Next]_vars, NEW q \in Runs
               PROVE  Cardinality(Running(q)') <= UploadConcurrency
    BY DEF Pool
  <1>1. ASSUME NEW r \in Runs, Begin(r) PROVE Running(q)' \subseteq Running(q)
    BY <1>1 DEF Begin, Running, IInv, Types
  <1>2. ASSUME NEW r \in Runs, NEW n \in Artifacts, Take(r, n)
        PROVE  Cardinality(Running(q)') <= UploadConcurrency
    <2>1. CASE q # r
      <3>1. Running(q)' \subseteq Running(q)
        BY <1>2, <2>1 DEF Take, Running, IInv, Types
      <3>2. QED
        BY <3>1, FewerRun
    <2>2. CASE q = r
      <3>1. Running(q)' = Running(q) \cup {n} /\ n \notin Running(q)
        BY <1>2, <2>2 DEF Take, Running, IInv, Types
      <3>2. /\ Cardinality(Running(q)') = Cardinality(Running(q)) + 1
            /\ Cardinality(Running(q)) \in Nat
        BY <3>1, RunningFinite, FS_AddElement, FS_CardinalityType
      <3>3. Cardinality(Running(q)) < UploadConcurrency
        BY <1>2, <2>2 DEF Take
      <3>4. QED
        BY <3>2, <3>3, MirrorAssumption
    <2>3. QED
      BY <2>1, <2>2
  <1>3. ASSUME NEW r \in Runs, NEW n \in Artifacts, Stored(r, n) \/ NotStored(r, n)
        PROVE  Running(q)' \subseteq Running(q)
    BY <1>3 DEF Stored, NotStored, Running, IInv, Types
  <1>4. ASSUME NEW r \in Runs, Join(r) \/ UploadSums(r) \/ Crash(r)
        PROVE  Running(q)' \subseteq Running(q)
    BY <1>4 DEF Join, UploadSums, Crash, Running
  <1>5. ASSUME NEW r \in Runs, NEW n \in Artifacts, Collect(r, n)
        PROVE  Running(q)' \subseteq Running(q)
    BY <1>5 DEF Collect, Running
  <1>6. CASE UNCHANGED vars
    <2>1. Running(q)' \subseteq Running(q)
      BY <1>6 DEF vars, Running
    <2>2. QED
      BY <2>1, FewerRun
  <1>7. QED
    BY <1>1, <1>2, <1>3, <1>4, <1>5, <1>6, FewerRun DEF Next, Step

\* The variables hold what the code can put there, and no more threads upload
\* than the pool has.
THEOREM TypeCorrect == Spec => []TypeOK
  <1>1. Init => Pool
    <2> SUFFICES ASSUME Init, NEW r \in Runs
                 PROVE  Cardinality(Running(r)) <= UploadConcurrency
      BY DEF Pool
    <2>1. Running(r) = {}
      BY DEF Init, Running
    <2>2. QED
      BY <2>1, FS_EmptySet, MirrorAssumption
  <1>2. IInv /\ Pool => TypeOK
    BY DEF IInv, Types, Pool, TypeOK
  <1>3. QED
    BY SpecIInv, StepPool, <1>1, <1>2, PTL DEF Spec

-----------------------------------------------------------------------------
(* The refinement of Publication, with one set of files to upload.         *)

Whole(d) == There(d) = Artifacts
OneBuild == ~IgnoreMissing /\ \A d, e \in Dists : Whole(d) /\ Whole(e) => d = e
Bundle(d) == [n \in Names |-> IF n = Sums THEN d ELSE d[n]]

\* Every object is what that one directory has under its name.
OnlyIt ==
    \A n \in Names :
        bucket[n] # Unset => \E d \in Dists : Whole(d) /\ bucket[n] = Bundle(d)[n]

LEMMA StepOnlyIt == OneBuild /\ IInv /\ OnlyIt /\ [Next]_vars => OnlyIt'
  <1> SUFFICES ASSUME OneBuild, IInv, OnlyIt, [Next]_vars, NEW n \in Names,
                      bucket'[n] # Unset
               PROVE  \E d \in Dists : Whole(d) /\ bucket'[n] = Bundle(d)[n]
    BY DEF OnlyIt
  <1>1. CASE bucket'[n] = bucket[n]
    BY <1>1 DEF OnlyIt
  <1>2. ASSUME NEW r \in Runs, pc[r] \in Active, bucket'[n] = Bundle(dist[r])[n]
        PROVE  \E d \in Dists : Whole(d) /\ bucket'[n] = Bundle(d)[n]
    BY <1>2 DEF IInv, Chosen, OneBuild, Whole
  <1>3. ASSUME NEW r \in Runs, NEW m \in Artifacts, Stored(r, m) \/ NotStored(r, m),
               bucket'[n] # bucket[n]
        PROVE  pc[r] \in Active /\ bucket'[n] = Bundle(dist[r])[n]
    BY <1>3, MirrorAssumption
    DEF Stored, NotStored, IInv, Types, Names, Active, Bundle
  <1>4. ASSUME NEW r \in Runs, UploadSums(r), bucket'[n] # bucket[n]
        PROVE  pc[r] \in Active /\ bucket'[n] = Bundle(dist[r])[n]
    BY <1>4 DEF UploadSums, IInv, Types, Names, Active, Bundle
  <1>5. ASSUME NEW r \in Runs, Crash(r), bucket'[n] # bucket[n]
        PROVE  pc[r] \in Active /\ bucket'[n] = Bundle(dist[r])[n]
    BY <1>5, MirrorAssumption DEF Crash, Running, Names, Active, Bundle
  <1>6. ASSUME NEW r \in Runs, NEW m \in Artifacts,
               Begin(r) \/ Take(r, m) \/ Collect(r, m) \/ Join(r)
        PROVE  bucket' = bucket
    BY <1>6 DEF Begin, Take, Collect, Join
  <1>7. QED
    <2> SUFFICES ASSUME bucket'[n] # bucket[n]
                 PROVE  \E r \in Runs : pc[r] \in Active /\ bucket'[n] = Bundle(dist[r])[n]
      BY <1>1, <1>2
    <2>1. PICK r \in Runs : Step(r) \/ Crash(r)
      BY DEF Next, vars
    <2>2. CASE Begin(r)
      BY <2>2 DEF Begin
    <2>3. CASE \E m \in Artifacts :
                   Take(r, m) \/ Stored(r, m) \/ NotStored(r, m) \/ Collect(r, m)
      BY <2>3, <1>3 DEF Take, Collect
    <2>4. CASE Join(r)
      BY <2>4 DEF Join
    <2>5. QED
      BY <2>1, <2>2, <2>3, <2>4, <1>4, <1>5 DEF Step

SomeBundle == \E d \in Dists : Whole(d) /\ bucket = Bundle(d)

\* A bucket with SHA256SUMS is the bundle of the one complete directory.
LEMMA Shown ==
    ASSUME OneBuild, IInv, OnlyIt, bucket[Sums] # Unset
    PROVE  SomeBundle
  <1>1. PICK d \in Dists : Whole(d) /\ bucket[Sums] = Bundle(d)[Sums]
    BY DEF OnlyIt, Names
  <1>2. \A n \in Names : bucket[n] # Unset
    BY DEF IInv, SumsLast, OneBuild, Names
  <1>3. \A n \in Names : bucket[n] = Bundle(d)[n]
    BY <1>1, <1>2 DEF OnlyIt, OneBuild
  <1>4. bucket = Bundle(d)
    BY <1>3 DEF IInv, Types, Bundle
  <1>5. QED
    BY <1>1, <1>4 DEF SomeBundle

\* SHA256SUMS is never removed.
LEMMA SumsStay ==
    ASSUME IInv, [Next]_vars, bucket[Sums] # Unset
    PROVE  bucket'[Sums] # Unset
  <1>1. ASSUME NEW r \in Runs, UploadSums(r) PROVE bucket'[Sums] # Unset
    BY <1>1, MirrorAssumption DEF UploadSums, IInv, Types, Chosen, Active, Names
  <1>2. ASSUME NEW r \in Runs, Crash(r) PROVE bucket'[Sums] # Unset
    BY <1>2, MirrorAssumption DEF Crash, Running, Names
  <1>3. ASSUME NEW r \in Runs, NEW n \in Artifacts, Stored(r, n) \/ NotStored(r, n)
        PROVE  bucket'[Sums] # Unset
    BY <1>3, MirrorAssumption DEF Stored, NotStored, IInv, Types, Names
  <1>4. QED
    BY <1>1, <1>2, <1>3 DEF Next, Step, Begin, Take, Collect, Join, vars

\* What a user of the bucket sees is nothing, and then the one complete set
\* of files, for good.
THEOREM MirrorsAtomicallyHolds == OneBuild /\ Spec => MirrorsAtomically
  <1> DEFINE visible == IF bucket[Sums] = Unset THEN Unset ELSE bucket
             Bundles == {Bundle(d) : d \in {e \in Dists : Whole(e)}}
             Ready == OneBuild /\ IInv /\ OnlyIt
  <1>1. Init => Pub!Init /\ OnlyIt
    BY DEF Init, Names, OnlyIt, Pub!Init
  <1>2. Ready /\ bucket[Sums] # Unset => SomeBundle
    BY Shown
  <1>3. (Ready /\ bucket[Sums] # Unset => SomeBundle)'
    BY <1>2, PTL
  <1>4. Ready /\ Ready' /\ [Next]_vars
            => (visible = Unset /\ visible' \in Bundles) \/ visible' = visible
    <2> SUFFICES ASSUME Ready, Ready', [Next]_vars
                 PROVE  (visible = Unset /\ visible' \in Bundles) \/ visible' = visible
      OBVIOUS
    <2>1. CASE bucket'[Sums] = Unset
      BY <2>1, SumsStay
    <2>2. CASE bucket'[Sums] # Unset
      <3>1. PICK d \in Dists : Whole(d) /\ bucket' = Bundle(d)
        BY <2>2, <1>3 DEF SomeBundle, Whole, There, Bundle
      <3>2. CASE bucket[Sums] = Unset
        BY <2>2, <3>1, <3>2
      <3>3. CASE bucket[Sums] # Unset
        BY <2>2, <3>1, <3>3, <1>2 DEF SomeBundle, OneBuild
      <3>4. QED
        BY <3>2, <3>3
    <2>3. QED
      BY <2>1, <2>2
  <1>5. Ready /\ Ready' /\ [Next]_vars => [Pub!Publish]_visible
    BY <1>4 DEF Pub!Publish, Bundle, Whole
  <1>6. OneBuild => OneBuild'
    BY DEF OneBuild, Whole, There
  <1>7. QED
    BY <1>1, <1>5, <1>6, SpecIInv, StepOnlyIt, PTL
    DEF Spec, MirrorsAtomically, Pub!Spec
=============================================================================
