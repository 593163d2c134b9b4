------------------------------ MODULE Download ------------------------------
(***************************************************************************)
(* pythonbuild/utils.py: download_to_path and secure_download_stream, run  *)
(* by several build processes at once on the same destination path.        *)
(*                                                                         *)
(* `make -j` starts one build.py per archive and every one of them calls   *)
(* download_entry for the toolchain and the sources it needs, so the steps *)
(* of download_to_path (exists, stat, hash, unlink, the attempts, rename)  *)
(* interleave with those of its siblings.  A file is abstracted to what    *)
(* the code can tell about it: its size and its hash.                      *)
(***************************************************************************)
EXTENDS Naturals

CONSTANTS
    Procs,              \* the processes that want the file, one call each
    MaxAttempts,        \* range(8) in the code
    InitialContents     \* what may be at the destination before the build

ASSUME MaxAttemptsAssumption == MaxAttempts \in Nat \ {0}

VARIABLES
    pc,                 \* pc[p]: the next step of process p
    final,              \* the file at `path`
    tmp,                \* tmp[p]: the file at p's random temporary path
    attempt,            \* attempt[p]: the loop variable
    got                 \* got[p]: what p's caller read from the returned path

vars == <<pc, final, tmp, attempt, got>>

(***************************************************************************)
(* "short": at most 75% of the expected bytes; "near": more, but not the   *)
(* expected size; "corrupt": the expected size and another hash.           *)
(***************************************************************************)
WrongSize == {"short", "near"}
BadContents == WrongSize \cup {"corrupt"}
Contents == BadContents \cup {"good", "absent"}

ASSUME InitialAssumption == InitialContents \subseteq Contents

Running == {"exists", "stat", "hash", "unlink", "open", "stream", "rename"}
Succeeded == {"returned", "done"}
Failed == {"missing", "integrity", "exhausted", "error", "lost"}
Ended == {"done", "crashed"} \cup Failed

TypeOK ==
    /\ pc \in [Procs -> Running \cup Succeeded \cup Failed \cup {"crashed"}]
    /\ final \in Contents
    /\ tmp \in [Procs -> Contents]
    /\ attempt \in [Procs -> 0..MaxAttempts]
    /\ got \in [Procs -> Contents \cup {"nothing"}]

Init ==
    /\ pc = [p \in Procs |-> "exists"]
    /\ final \in InitialContents
    /\ tmp = [p \in Procs |-> "absent"]
    /\ attempt = [p \in Procs |-> 0]
    /\ got = [p \in Procs |-> "nothing"]

Goto(p, label) == pc' = [pc EXCEPT ![p] = label]

-----------------------------------------------------------------------------
(* The check of an existing file.                                          *)

Exists(p) ==
    /\ pc[p] = "exists"
    /\ Goto(p, IF final = "absent" THEN "open" ELSE "stat")
    /\ UNCHANGED <<final, tmp, attempt, got>>

\* Mutant of Stat: the expected size is taken for the expected file.
StatTrustsSize(p) ==
    /\ pc[p] = "stat"
    /\ Goto(p, CASE final = "absent" -> "missing"
                 [] final \in WrongSize -> "unlink"
                 [] OTHER -> "returned")
    /\ UNCHANGED <<final, tmp, attempt, got>>

\* path.stat(), path.open() and path.unlink() raise FileNotFoundError when a
\* sibling has removed the file since the previous step.
Stat(p) ==
    /\ pc[p] = "stat"
    /\ Goto(p, CASE final = "absent" -> "missing"
                 [] final \in WrongSize -> "unlink"
                 [] OTHER -> "hash")
    /\ UNCHANGED <<final, tmp, attempt, got>>

\* Mutant of Hash: the digest is compared with that of another file.
HashOfOther(p) ==
    /\ pc[p] = "hash"
    /\ Goto(p, IF final = "absent" THEN "missing" ELSE "unlink")
    /\ UNCHANGED <<final, tmp, attempt, got>>

Hash(p) ==
    /\ pc[p] = "hash"
    /\ Goto(p, CASE final = "absent" -> "missing"
                 [] final = "good" -> "returned"
                 [] OTHER -> "unlink")
    /\ UNCHANGED <<final, tmp, attempt, got>>

Unlink(p) ==
    /\ pc[p] = "unlink"
    /\ Goto(p, IF final = "absent" THEN "missing" ELSE "open")
    /\ final' = "absent"
    /\ UNCHANGED <<tmp, attempt, got>>

-----------------------------------------------------------------------------
(* The attempts.  The temporary name is drawn once, before the loop: every *)
(* attempt reopens, and so truncates, the same file.                       *)

\* Mutant of Open: the download is written in place.
OpenInPlace(p) ==
    /\ pc[p] = "open"
    /\ Goto(p, "stream")
    /\ tmp' = [tmp EXCEPT ![p] = "short"]
    /\ final' = "short"
    /\ UNCHANGED <<attempt, got>>

Open(p) ==
    /\ pc[p] = "open"
    /\ Goto(p, "stream")
    /\ tmp' = [tmp EXCEPT ![p] = "short"]
    /\ UNCHANGED <<final, attempt, got>>

\* Mutant of Retry: the last attempt is followed by another one.
RetryPastLast(p) ==
    /\ attempt' = [attempt EXCEPT ![p] = @ + 1]
    /\ Goto(p, IF attempt[p] = MaxAttempts THEN "exhausted" ELSE "open")

\* Mutant of Retry: the attempts are never used up.
RetryForever(p) ==
    /\ Goto(p, "open")
    /\ UNCHANGED attempt

Retry(p) ==
    /\ attempt' = [attempt EXCEPT ![p] = @ + 1]
    /\ Goto(p, IF attempt[p] + 1 = MaxAttempts THEN "exhausted" ELSE "open")

\* The stream ended and its size and hash are the expected ones.
StreamGood(p) ==
    /\ pc[p] = "stream"
    /\ tmp' = [tmp EXCEPT ![p] = "good"]
    /\ Goto(p, "rename")
    /\ UNCHANGED <<final, attempt, got>>

\* Mutant of StreamMismatch: without tmp.unlink().
StreamMismatchKeepsTmp(p) ==
    /\ pc[p] = "stream"
    /\ \E body \in BadContents :
        /\ tmp' = [tmp EXCEPT ![p] = body]
        /\ IF body = "short"
           THEN Retry(p)
           ELSE Goto(p, "integrity") /\ UNCHANGED attempt
    /\ UNCHANGED <<final, got>>

\* IntegrityError: the temporary file goes; only a body that stopped early
\* is worth another attempt.
StreamMismatch(p) ==
    /\ pc[p] = "stream"
    /\ tmp' = [tmp EXCEPT ![p] = "absent"]
    /\ \E body \in BadContents :
        IF body = "short"
        THEN Retry(p)
        ELSE Goto(p, "integrity") /\ UNCHANGED attempt
    /\ UNCHANGED <<final, got>>

\* HTTPException or URLError: what was written so far stays on disk.
StreamHttpError(p) ==
    /\ pc[p] = "stream"
    /\ \E partial \in WrongSize : tmp' = [tmp EXCEPT ![p] = partial]
    /\ Retry(p)
    /\ UNCHANGED <<final, got>>

\* Any other exception (a reset while reading, a full disk) is not caught.
StreamOtherError(p) ==
    /\ pc[p] = "stream"
    /\ \E partial \in WrongSize : tmp' = [tmp EXCEPT ![p] = partial]
    /\ Goto(p, "error")
    /\ UNCHANGED <<final, attempt, got>>

\* tmp.rename(path) replaces whatever a sibling has put there meanwhile.
Rename(p) ==
    /\ pc[p] = "rename"
    /\ final' = tmp[p]
    /\ tmp' = [tmp EXCEPT ![p] = "absent"]
    /\ Goto(p, "returned")
    /\ UNCHANGED <<attempt, got>>

-----------------------------------------------------------------------------
(* The caller of download_entry opens the path it was given.               *)

CallerReads(p) ==
    /\ pc[p] = "returned"
    /\ got' = [got EXCEPT ![p] = final]
    /\ Goto(p, IF final = "absent" THEN "lost" ELSE "done")
    /\ UNCHANGED <<final, tmp, attempt>>

\* The process is killed: files stay as they are.
Crash(p) ==
    /\ pc[p] \in Running
    /\ Goto(p, "crashed")
    /\ UNCHANGED <<final, tmp, attempt, got>>

Step(p) ==
    \/ Exists(p)
    \/ Stat(p)
    \/ Hash(p)
    \/ Unlink(p)
    \/ Open(p)
    \/ StreamGood(p)
    \/ StreamMismatch(p)
    \/ StreamHttpError(p)
    \/ StreamOtherError(p)
    \/ Rename(p)
    \/ CallerReads(p)

Next == \E p \in Procs : Step(p) \/ Crash(p)

(***************************************************************************)
(* A process keeps running until it ends.  urlopen is called without a     *)
(* timeout, so this assumes that the operating system or the server ends a *)
(* connection that stalls.                                                 *)
(***************************************************************************)
Spec == Init /\ [][Next]_vars /\ \A p \in Procs : WF_vars(Step(p))

-----------------------------------------------------------------------------
\* Once download_to_path has returned to any process the destination holds
\* the expected bytes or nothing, and no caller ever reads other bytes.
\* (utils.py:326, "no chance of the final file being partially written or
\* containing bad data", in spite of the siblings, crashes and retries.)
NeverBadBytes ==
    /\ \A p \in Procs : pc[p] \in Succeeded => final \in {"good", "absent"}
    /\ \A p \in Procs : got[p] \in {"nothing", "absent", "good"}

\* A step never puts bad bytes at the destination: it can only remove the
\* file or install the expected one, wherever a crash cuts a process short.
OnlyGoodInstalled == [][final' # final => final' \in {"absent", "good"}]_vars

\* No temporary file outlives a success or a final integrity error.
TmpRemoved ==
    \A p \in Procs :
        pc[p] \in Succeeded \cup {"lost", "integrity"} => tmp[p] = "absent"

\* The bounded retries end: every call returns, raises or is killed.
Terminates == \A p \in Procs : <>(pc[p] \in Ended)

\* When nothing bad is at the destination to begin with, the race is benign:
\* no process removes the file another one was given, and no process fails
\* because of a sibling.
Undisturbed ==
    /\ \A p \in Procs : pc[p] \notin {"lost", "missing"}
    /\ \A p \in Procs : pc[p] \in Succeeded => final = "good"

NothingLost == final \in {"absent", "good"} => []Undisturbed

\* What the comment at utils.py:349 says of any race: at worst the file is
\* downloaded more than once.  So no process fails because a sibling removed
\* the file, neither inside download_to_path nor when it opens its result.
WorstCaseIsExtraDownloads == \A p \in Procs : pc[p] \notin {"missing", "lost"}
=============================================================================
