--------------------------- MODULE Download_proofs ---------------------------
(***************************************************************************)
(* Theorems about Download, for any set of processes, any number of        *)
(* attempts and any content found at the destination.                      *)
(***************************************************************************)
EXTENDS Download, TLAPS

\* The inductive invariant, part by part.  A process that can still try has
\* attempts left; a process about to rename holds the expected bytes; before
\* the first attempt and after the last one there is no temporary file.
AttemptsLeft ==
    \A p \in Procs :
        pc[p] \in Running \ {"rename"} => attempt[p] \in 0..(MaxAttempts - 1)
ReadyToRename == \A p \in Procs : pc[p] = "rename" => tmp[p] = "good"
NoTmp ==
    \A p \in Procs :
        pc[p] \in {"exists", "stat", "hash", "unlink"} => tmp[p] = "absent"

IInv ==
    /\ TypeOK
    /\ AttemptsLeft
    /\ ReadyToRename
    /\ NoTmp
    /\ TmpRemoved
    /\ NeverBadBytes

\* The invariant holds in the states the processes start from ...
LEMMA InitIInv == Init => IInv
  BY MaxAttemptsAssumption, InitialAssumption
  DEF Init, IInv, TypeOK, AttemptsLeft, ReadyToRename, NoTmp, TmpRemoved,
      NeverBadBytes, Running, Succeeded, Failed, Contents, BadContents, WrongSize

\* ... and every step of every process keeps it.
LEMMA StepIInv == IInv /\ [Next]_vars => IInv'
  <1> SUFFICES ASSUME IInv, [Next]_vars PROVE IInv'
    OBVIOUS
  <1> USE MaxAttemptsAssumption
      DEF IInv, TypeOK, AttemptsLeft, ReadyToRename, NoTmp, TmpRemoved,
          NeverBadBytes, Running, Succeeded, Failed, Contents, BadContents,
          WrongSize, Goto
  <1>1. ASSUME NEW p \in Procs, Exists(p) PROVE IInv'
    BY <1>1 DEF Exists
  <1>2. ASSUME NEW p \in Procs, Stat(p) PROVE IInv'
    BY <1>2 DEF Stat
  <1>3. ASSUME NEW p \in Procs, Hash(p) PROVE IInv'
    BY <1>3 DEF Hash
  <1>4. ASSUME NEW p \in Procs, Unlink(p) PROVE IInv'
    BY <1>4 DEF Unlink
  <1>5. ASSUME NEW p \in Procs, Open(p) PROVE IInv'
    BY <1>5 DEF Open
  <1>6. ASSUME NEW p \in Procs, StreamGood(p) PROVE IInv'
    BY <1>6 DEF StreamGood
  <1>7. ASSUME NEW p \in Procs, StreamMismatch(p) PROVE IInv'
    BY <1>7 DEF StreamMismatch, Retry
  <1>8. ASSUME NEW p \in Procs, StreamHttpError(p) PROVE IInv'
    BY <1>8 DEF StreamHttpError, Retry
  <1>9. ASSUME NEW p \in Procs, StreamOtherError(p) PROVE IInv'
    BY <1>9 DEF StreamOtherError
  <1>10. ASSUME NEW p \in Procs, Rename(p) PROVE IInv'
    BY <1>10 DEF Rename
  <1>11. ASSUME NEW p \in Procs, CallerReads(p) PROVE IInv'
    BY <1>11 DEF CallerReads
  <1>12. ASSUME NEW p \in Procs, Crash(p) PROVE IInv'
    BY <1>12 DEF Crash
  <1>13. CASE UNCHANGED vars
    BY <1>13 DEF vars
  <1>14. QED
    BY <1>1, <1>2, <1>3, <1>4, <1>5, <1>6, <1>7,
       <1>8, <1>9, <1>10, <1>11, <1>12, <1>13 DEF Next, Step

LEMMA SpecIInv == Spec => []IInv
  BY InitIInv, StepIInv, PTL DEF Spec

\* The variables hold what the code can put there.
THEOREM TypeCorrect == Spec => []TypeOK
  BY SpecIInv, PTL DEF IInv

\* No caller of download_to_path ever reads bytes other than the expected
\* ones, whatever its siblings do and wherever any of them is killed.
THEOREM NeverBadBytesHolds == Spec => []NeverBadBytes
  BY SpecIInv, PTL DEF IInv

\* A success or a final integrity error leaves no temporary file.
THEOREM TmpRemovedHolds == Spec => []TmpRemoved
  BY SpecIInv, PTL DEF IInv

\* No step, a rename that lands on a sibling's file included, puts bad bytes
\* at the destination.
THEOREM OnlyGoodInstalledHolds == Spec => OnlyGoodInstalled
<1>1. IInv /\ [Next]_vars => [final' # final => final' \in {"absent", "good"}]_vars
  <2> SUFFICES ASSUME IInv, [Next]_vars, final' # final
               PROVE  final' \in {"absent", "good"}
    BY DEF vars
  <2>1. ASSUME NEW p \in Procs, Exists(p) PROVE final' \in {"absent", "good"}
    BY <2>1 DEF Exists
  <2>2. ASSUME NEW p \in Procs, Stat(p) PROVE final' \in {"absent", "good"}
    BY <2>2 DEF Stat
  <2>3. ASSUME NEW p \in Procs, Hash(p) PROVE final' \in {"absent", "good"}
    BY <2>3 DEF Hash
  <2>4. ASSUME NEW p \in Procs, Unlink(p) PROVE final' \in {"absent", "good"}
    BY <2>4 DEF Unlink
  <2>5. ASSUME NEW p \in Procs, Open(p) PROVE final' \in {"absent", "good"}
    BY <2>5 DEF Open
  <2>6. ASSUME NEW p \in Procs, StreamGood(p) PROVE final' \in {"absent", "good"}
    BY <2>6 DEF StreamGood
  <2>7. ASSUME NEW p \in Procs, StreamMismatch(p) PROVE final' \in {"absent", "good"}
    BY <2>7 DEF StreamMismatch, Retry
  <2>8. ASSUME NEW p \in Procs, StreamHttpError(p) PROVE final' \in {"absent", "good"}
    BY <2>8 DEF StreamHttpError, Retry
  <2>9. ASSUME NEW p \in Procs, StreamOtherError(p) PROVE final' \in {"absent", "good"}
    BY <2>9 DEF StreamOtherError
  <2>10. ASSUME NEW p \in Procs, Rename(p) PROVE final' \in {"absent", "good"}
    BY <2>10 DEF Rename, IInv, ReadyToRename
  <2>11. ASSUME NEW p \in Procs, CallerReads(p) PROVE final' \in {"absent", "good"}
    BY <2>11 DEF CallerReads
  <2>12. ASSUME NEW p \in Procs, Crash(p) PROVE final' \in {"absent", "good"}
    BY <2>12 DEF Crash
  <2>13. CASE UNCHANGED vars
    BY <2>13 DEF vars
  <2>14. QED
    BY <2>1, <2>2, <2>3, <2>4, <2>5, <2>6, <2>7,
       <2>8, <2>9, <2>10, <2>11, <2>12, <2>13 DEF Next, Step
<1>2. QED
  BY <1>1, SpecIInv, PTL DEF Spec, OnlyGoodInstalled

-----------------------------------------------------------------------------
\* Without bad bytes at the destination no process ever comes to unlink, and
\* the file stays once some process has seen or installed it.
FreshInv ==
    /\ final \in {"absent", "good"}
    /\ \A p \in Procs : pc[p] \notin {"unlink", "lost", "missing"}
    /\ \A p \in Procs :
        pc[p] \in {"stat", "hash"} \cup Succeeded => final = "good"

\* When the destination holds nothing bad to begin with, the race that
\* utils.py:349 mentions is benign.
THEOREM NothingLostHolds == Spec => NothingLost
<1>1. Init /\ final \in {"absent", "good"} => FreshInv
  BY DEF Init, FreshInv, Succeeded
<1>2. IInv /\ FreshInv /\ [Next]_vars => FreshInv'
  <2> SUFFICES ASSUME IInv, FreshInv, [Next]_vars PROVE FreshInv'
    OBVIOUS
  <2> USE DEF IInv, TypeOK, ReadyToRename, FreshInv, Succeeded, WrongSize, Goto
  <2>1. ASSUME NEW p \in Procs, Exists(p) PROVE FreshInv'
    BY <2>1 DEF Exists
  <2>2. ASSUME NEW p \in Procs, Stat(p) PROVE FreshInv'
    BY <2>2 DEF Stat
  <2>3. ASSUME NEW p \in Procs, Hash(p) PROVE FreshInv'
    BY <2>3 DEF Hash
  <2>4. ASSUME NEW p \in Procs, Unlink(p) PROVE FreshInv'
    BY <2>4 DEF Unlink
  <2>5. ASSUME NEW p \in Procs, Open(p) PROVE FreshInv'
    BY <2>5 DEF Open
  <2>6. ASSUME NEW p \in Procs, StreamGood(p) PROVE FreshInv'
    BY <2>6 DEF StreamGood
  <2>7. ASSUME NEW p \in Procs, StreamMismatch(p) PROVE FreshInv'
    BY <2>7 DEF StreamMismatch, Retry
  <2>8. ASSUME NEW p \in Procs, StreamHttpError(p) PROVE FreshInv'
    BY <2>8 DEF StreamHttpError, Retry
  <2>9. ASSUME NEW p \in Procs, StreamOtherError(p) PROVE FreshInv'
    BY <2>9 DEF StreamOtherError
  <2>10. ASSUME NEW p \in Procs, Rename(p) PROVE FreshInv'
    BY <2>10 DEF Rename
  <2>11. ASSUME NEW p \in Procs, CallerReads(p) PROVE FreshInv'
    BY <2>11 DEF CallerReads
  <2>12. ASSUME NEW p \in Procs, Crash(p) PROVE FreshInv'
    BY <2>12 DEF Crash
  <2>13. CASE UNCHANGED vars
    BY <2>13 DEF vars
  <2>14. QED
    BY <2>1, <2>2, <2>3, <2>4, <2>5, <2>6, <2>7,
       <2>8, <2>9, <2>10, <2>11, <2>12, <2>13 DEF Next, Step
<1>3. FreshInv => Undisturbed
  BY DEF FreshInv, Undisturbed
<1>4. QED
  BY <1>1, <1>2, <1>3, SpecIInv, PTL DEF Spec, NothingLost
=============================================================================
