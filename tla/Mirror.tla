------------------------------- MODULE Mirror -------------------------------
(***************************************************************************)
(* pythonbuild/mirror.py: copying a release to an S3-compatible bucket.    *)
(* A pool of threads uploads the distributions that dist/SHA256SUMS lists; *)
(* the main thread collects their results as they complete, and SHA256SUMS *)
(* is uploaded when none is an error.  The command may be run again, and   *)
(* overwrites what an earlier run stored.                                  *)
(***************************************************************************)
EXTENDS Naturals, FiniteSets

CONSTANTS
    Runs,               \* executions of the command
    Artifacts,          \* the names that SHA256SUMS lists
    Dists,              \* dist[n]: the bytes of n, or Missing
    Missing,
    Sums,               \* the name "SHA256SUMS"
    Unset,
    UploadConcurrency,  \* UPLOAD_CONCURRENCY
    IgnoreMissing       \* --ignore-missing

Names == Artifacts \cup {Sums}

ASSUME MirrorAssumption ==
    /\ Sums \notin Artifacts /\ IsFiniteSet(Artifacts)
    /\ Unset \notin Dists
    /\ \A d \in Dists : DOMAIN d = Artifacts /\ Unset \notin {d[n] : n \in Artifacts}
    /\ UploadConcurrency \in Nat \ {0}
    /\ IgnoreMissing \in BOOLEAN

VARIABLES
    pc,         \* pc[r]: the step of run r
    dist,       \* dist[r]: the dist directory the run works on
    future,     \* future[r][n]: the state of one submitted upload
    seen,       \* seen[r]: the futures that as_completed has yielded
    errors,     \* errors[r]: the uploads that run r reports as failed
    bucket      \* bucket[n]: the object stored under the prefix and n

vars == <<pc, dist, future, seen, errors, bucket>>

Ended == {"done", "failed", "killed"}
Bytes == UNION {{d[n] : n \in Artifacts} : d \in Dists}

Running(r) == {n \in Artifacts : future[r][n] = "running"}

TypeOK ==
    /\ pc \in [Runs -> {"idle", "uploading", "sums"} \cup Ended]
    /\ dist \in [Runs -> Dists \cup {Unset}]
    /\ future \in [Runs -> [Artifacts -> {"none", "pending", "running", "ok", "error"}]]
    /\ seen \in [Runs -> SUBSET Artifacts]
    /\ errors \in [Runs -> SUBSET Artifacts]
    /\ bucket \in [Names -> Bytes \cup Dists \cup {Unset}]
    /\ \A r \in Runs : Cardinality(Running(r)) <= UploadConcurrency

Init ==
    /\ pc = [r \in Runs |-> "idle"]
    /\ dist = [r \in Runs |-> Unset]
    /\ future = [r \in Runs |-> [n \in Artifacts |-> "none"]]
    /\ seen = [r \in Runs |-> {}]
    /\ errors = [r \in Runs |-> {}]
    /\ bucket = [n \in Names |-> Unset]

Goto(r, label) == pc' = [pc EXCEPT ![r] = label]
There(d) == {n \in Artifacts : d[n] # Missing}
Submitted(r) == {n \in Artifacts : future[r][n] # "none"}
Failed(r) == {n \in Artifacts : future[r][n] = "error"}

\* Mutant of Begin: the missing files are reported and that is all.
BeginAnyway(r) ==
    /\ pc[r] = "idle"
    /\ \E d \in Dists :
        /\ dist' = [dist EXCEPT ![r] = d]
        /\ Goto(r, "uploading")
        /\ future' = [future EXCEPT ![r] =
             [n \in Artifacts |-> IF n \in There(d) THEN "pending" ELSE "none"]]
    /\ UNCHANGED <<seen, errors, bucket>>

\* build_upload_entries, the check for missing files, and the submissions.
Begin(r) ==
    /\ pc[r] = "idle"
    /\ \E d \in Dists :
        /\ dist' = [dist EXCEPT ![r] = d]
        /\ IF There(d) = Artifacts \/ IgnoreMissing
           THEN /\ Goto(r, "uploading")
                /\ future' = [future EXCEPT ![r] =
                     [n \in Artifacts |-> IF n \in There(d) THEN "pending" ELSE "none"]]
           ELSE Goto(r, "failed") /\ UNCHANGED future
    /\ UNCHANGED <<seen, errors, bucket>>

\* Mutant of Take: a thread per file.
TakeUnbounded(r, n) ==
    /\ pc[r] = "uploading"
    /\ future[r][n] = "pending"
    /\ future' = [future EXCEPT ![r][n] = "running"]
    /\ UNCHANGED <<pc, dist, seen, errors, bucket>>

\* A worker of the pool takes the next upload.
Take(r, n) ==
    /\ pc[r] = "uploading"
    /\ future[r][n] = "pending"
    /\ Cardinality(Running(r)) < UploadConcurrency
    /\ future' = [future EXCEPT ![r][n] = "running"]
    /\ UNCHANGED <<pc, dist, seen, errors, bucket>>

\* client.upload_file succeeds: the object is there, over any older one.
Stored(r, n) ==
    /\ pc[r] = "uploading"
    /\ n \in Running(r)
    /\ future' = [future EXCEPT ![r][n] = "ok"]
    /\ bucket' = [bucket EXCEPT ![n] = dist[r][n]]
    /\ UNCHANGED <<pc, dist, seen, errors>>

\* It raises, and the exception becomes a MirrorError of this future only.
\* The object may have been stored all the same.
NotStored(r, n) ==
    /\ pc[r] = "uploading"
    /\ n \in Running(r)
    /\ future' = [future EXCEPT ![r][n] = "error"]
    /\ bucket' \in {bucket, [bucket EXCEPT ![n] = dist[r][n]]}
    /\ UNCHANGED <<pc, dist, seen, errors>>

\* Mutant of Collect: the first error is raised from the loop.
CollectOrRaise(r, n) ==
    /\ pc[r] = "uploading"
    /\ n \in Submitted(r) \ seen[r]
    /\ future[r][n] \in {"ok", "error"}
    /\ seen' = [seen EXCEPT ![r] = @ \cup {n}]
    /\ IF future[r][n] = "error"
       THEN errors' = [errors EXCEPT ![r] = @ \cup {n}] /\ Goto(r, "failed")
       ELSE UNCHANGED <<pc, errors>>
    /\ UNCHANGED <<dist, future, bucket>>

\* as_completed yields a finished future to the main thread, while the
\* workers go on; its error is kept.
Collect(r, n) ==
    /\ pc[r] = "uploading"
    /\ n \in Submitted(r) \ seen[r]
    /\ future[r][n] \in {"ok", "error"}
    /\ seen' = [seen EXCEPT ![r] = @ \cup {n}]
    /\ errors' = [errors EXCEPT ![r] = IF n \in Failed(r) THEN @ \cup {n} ELSE @]
    /\ UNCHANGED <<pc, dist, future, bucket>>

\* Mutant of Join: the collected errors are printed and forgotten.
JoinIgnoresErrors(r) ==
    /\ pc[r] = "uploading"
    /\ seen[r] = Submitted(r)
    /\ Goto(r, "sums")
    /\ UNCHANGED <<dist, future, seen, errors, bucket>>

\* Mutant of Join: as_completed is given the wrong futures.
JoinNever(r) ==
    /\ pc[r] = "uploading"
    /\ \A n \in Artifacts : future[r][n] = "none"
    /\ Goto(r, "sums")
    /\ UNCHANGED <<dist, future, seen, errors, bucket>>

\* Every future was yielded; any error ends the run before SHA256SUMS.
Join(r) ==
    /\ pc[r] = "uploading"
    /\ seen[r] = Submitted(r)
    /\ Goto(r, IF errors[r] = {} THEN "sums" ELSE "failed")
    /\ UNCHANGED <<dist, future, seen, errors, bucket>>

\* The last object.  An exception may again follow a successful store.
UploadSums(r) ==
    /\ pc[r] = "sums"
    /\ \/ Goto(r, "failed") /\ UNCHANGED bucket
       \/ /\ \E label \in {"done", "failed"} : Goto(r, label)
          /\ bucket' = [bucket EXCEPT ![Sums] = dist[r]]
    /\ UNCHANGED <<dist, future, seen, errors>>

Crash(r) ==
    /\ pc[r] \in {"uploading", "sums"}
    /\ Goto(r, "killed")
    /\ \E stored \in SUBSET Running(r) :
        bucket' = [n \in Names |-> IF n \in stored THEN dist[r][n] ELSE bucket[n]]
    /\ UNCHANGED <<dist, future, seen, errors>>

Step(r) ==
    \/ Begin(r)
    \/ \E n \in Artifacts :
          Take(r, n) \/ Stored(r, n) \/ NotStored(r, n) \/ Collect(r, n)
    \/ Join(r)
    \/ UploadSums(r)

Next == \E r \in Runs : Step(r) \/ Crash(r)

\* The threads of a run that was started are scheduled; boto3 bounds its own
\* retries, so an upload ends.
Spec == Init /\ [][Next]_vars /\ \A r \in Runs : WF_vars(Step(r))

-----------------------------------------------------------------------------
\* SHA256SUMS is in the bucket only with every distribution it lists, unless
\* the operator asked to ignore missing files.
SumsLast ==
    bucket[Sums] # Unset =>
        \A n \in (IF IgnoreMissing THEN There(bucket[Sums]) ELSE Artifacts) :
            bucket[n] # Unset

\* One error stops and hides no other upload.  A run that leaves the pool,
\* with errors or without and unless it is killed, has had an answer for every
\* file it submitted, has what succeeded in the bucket, and reports exactly
\* the files that failed; it goes on to SHA256SUMS only when there are none.
NoneHidden ==
    \A r \in Runs : pc[r] \in {"sums", "done", "failed"} =>
        /\ \A n \in Submitted(r) : future[r][n] \in {"ok", "error"}
        /\ \A n \in Submitted(r) \ errors[r] : bucket[n] # Unset
        /\ errors[r] = Failed(r)
        /\ pc[r] # "failed" => errors[r] = {} /\ Submitted(r) = There(dist[r])

\* With one set of files, a bucket that has SHA256SUMS shows exactly that set
\* and never changes again, as CACHE_CONTROL ("immutable") tells the caches.
Pub == INSTANCE Publication WITH
    Bundles <- {[n \in Names |-> IF n = Sums THEN d ELSE d[n]] :
                    d \in {e \in Dists : There(e) = Artifacts}},
    Unpublished <- Unset,
    visible <- IF bucket[Sums] = Unset THEN Unset ELSE bucket

MirrorsAtomically == Pub!Spec

\* The pool drains: every run ends.
RunsEnd == \A r \in Runs : <>(pc[r] \in Ended)
=============================================================================
