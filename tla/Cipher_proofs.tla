---------------------------- MODULE Cipher_proofs ----------------------------
(***************************************************************************)
(* Theorems about Cipher, for any set of threads, any data, AEAD ciphers   *)
(* and others, and any number of calls.                                    *)
(***************************************************************************)
EXTENDS Cipher, TLAPS

-----------------------------------------------------------------------------
(* The records: what the updates of the actions leave well typed.          *)

LEMMA CallRes ==
  ASSUME NEW c \in Call, NEW r \in {"none", "ok", "error"}
  PROVE  [c EXCEPT !.res = r] \in Call
  BY DEF Call

LEMMA CallOut ==
  ASSUME NEW c \in Call, NEW u \in Tag
  PROVE  [c EXCEPT !.out = u] \in Call
  BY DEF Call

LEMMA ChunkExists == AnyChunk \in Chunks
  BY CipherAssumption DEF AnyChunk

LEMMA NoTagIsTag == NoTag \in Tag
  BY DEF NoTag, Tag

LEMMA FedIsTag == \A s \in Object : s.fed \in Tag
  BY DEF Object

LEMMA CleanedIsObject == \A s \in Object : Cleaned(s) \in Object
  BY NoTagIsTag DEF Cleaned, Object, Directions

LEMMA InitialisedIsObject ==
  ASSUME NEW s \in Object, NEW e \in {"ENCRYPT", "DECRYPT"}
  PROVE  Initialised(s, e) \in Object
  BY NoTagIsTag DEF Initialised, Object, Directions

LEMMA FedDataIsObject ==
  ASSUME NEW s \in Object, NEW d \in Chunks
  PROVE  [s EXCEPT !.fed.msg = Append(@, d)] \in Object
<1>1. [s.fed EXCEPT !.msg = Append(@, d)] \in Tag
  BY DEF Object, Tag
<1>2. QED
  BY <1>1 DEF Object

LEMMA FedAdIsObject ==
  ASSUME NEW s \in Object, NEW d \in Chunks
  PROVE  [s EXCEPT !.fed.ad = @ \cup {d}] \in Object
<1>1. [s.fed EXCEPT !.ad = @ \cup {d}] \in Tag
  BY DEF Object, Tag
<1>2. QED
  BY <1>1 DEF Object

LEMMA FinalIsObject ==
  ASSUME NEW s \in Object
  PROVE  [s EXCEPT !.state = "FINAL", !.closed = TRUE] \in Object
  BY DEF Object

LEMMA CallOps ==
  /\ \A op \in Ops : First(op) \in {"crypt", "ad", "tag", "verify", "clean"}
  /\ \A op : AfterCrypt(op) \in {"tag", "verify", "unlock"}
  /\ \A op : Direction(op) \in {"ENCRYPT", "DECRYPT"}
  BY DEF Ops, First, AfterCrypt, Direction

LEMMA CallKeepsOp ==
  \A c \in Call : \A r, u :
    /\ [c EXCEPT !.res = r].op = c.op
    /\ [c EXCEPT !.out = u].op = c.op
  BY DEF Call

LEMMA CallHasData == \A c \in Call : c.data \in Chunks
  BY DEF Call

LEMMA InitTypeOK == Init => TypeOK
<1> SUFFICES ASSUME Init PROVE TypeOK
  OBVIOUS
<1>1. self \in Object
  BY NoTagIsTag DEF Init, Object, Directions
<1>2. call \in [Threads -> Call]
  BY NoTagIsTag, ChunkExists DEF Init, Call
<1>3. QED
  BY <1>1, <1>2, CipherAssumption DEF Init, TypeOK

LEMMA StepTypeOK == TypeOK /\ [Next]_vars => TypeOK'
  <1> SUFFICES ASSUME TypeOK, [Next]_vars PROVE TypeOK'
    OBVIOUS
  <1> USE CipherAssumption DEF TypeOK, results, Goto
  <1>1. ASSUME NEW t \in Threads, Invoke(t) PROVE TypeOK'
    BY <1>1, NoTagIsTag, ChunkExists DEF Invoke, Call, Ops, TakesData, TakesTag
  <1>2. ASSUME NEW t \in Threads, Lock(t) PROVE TypeOK'
    BY <1>2, CallOps DEF Lock
  <1>3. ASSUME NEW t \in Threads, Unlock(t) PROVE TypeOK'
    BY <1>3 DEF Unlock
  <1>4. ASSUME NEW t \in Threads, CryptRefused(t) PROVE TypeOK'
    BY <1>4, CallRes, CallKeepsOp DEF CryptRefused, Refuse, Raise
  <1>5. ASSUME NEW t \in Threads, CryptFails(t) PROVE TypeOK'
    BY <1>5, CallRes, CallKeepsOp, CleanedIsObject DEF CryptFails, Raise
  <1>6. ASSUME NEW t \in Threads, CryptUnaligned(t) PROVE TypeOK'
    BY <1>6, CallRes, CallKeepsOp, InitialisedIsObject, CallOps DEF CryptUnaligned, Raise
  <1>7. ASSUME NEW t \in Threads, CryptNoMemory(t) PROVE TypeOK'
    BY <1>7, CallRes, CallKeepsOp, InitialisedIsObject, CallOps DEF CryptNoMemory, Raise
  <1>8. ASSUME NEW t \in Threads, CryptOk(t) PROVE TypeOK'
    <2> DEFINE s == Initialised(self, Direction(call[t].op))
    <2>1. call[t] \in Call /\ call[t].data \in Chunks
      BY CallHasData
    <2>2. s \in Object
      BY CallOps, InitialisedIsObject
    <2>3. self' \in Object
      BY <1>8, <2>1, <2>2, FedDataIsObject DEF CryptOk
    <2>4. call' \in [Threads -> Call] /\ \A u \in Threads : call'[u].op = call[u].op
      BY <1>8, <2>1, CallRes, CallKeepsOp DEF CryptOk, Continue
    <2>5. pc' = [pc EXCEPT ![t] = AfterCrypt(call[t].op)] /\ pc[t] = "crypt"
      BY <1>8 DEF CryptOk, Continue
    <2>6. processed' \in Seq(Chunks)
      BY <1>8, <2>1 DEF CryptOk
    <2>7. UNCHANGED <<mutex, calls, accepted, tags>>
      BY <1>8 DEF CryptOk, Continue
    <2>8. QED
      BY <2>3, <2>4, <2>5, <2>6, <2>7, CallOps
  <1>9. ASSUME NEW t \in Threads, UpdateRefused(t) PROVE TypeOK'
    BY <1>9, CallRes, CallKeepsOp DEF UpdateRefused, Refuse, Raise
  <1>10. ASSUME NEW t \in Threads, UpdateFails(t) PROVE TypeOK'
    BY <1>10, CallRes, CallKeepsOp DEF UpdateFails, Refuse, Raise
  <1>11. ASSUME NEW t \in Threads, UpdateOk(t) PROVE TypeOK'
    BY <1>11, CallRes, CallKeepsOp, FedAdIsObject, CallHasData DEF UpdateOk, Continue
  <1>12. ASSUME NEW t \in Threads, DigestRefused(t) PROVE TypeOK'
    BY <1>12, CallRes, CallKeepsOp DEF DigestRefused, Refuse, Raise
  <1>13. ASSUME NEW t \in Threads, DigestFails(t) PROVE TypeOK'
    BY <1>13, CallRes, CallKeepsOp, CleanedIsObject DEF DigestFails, Raise
  <1>14. ASSUME NEW t \in Threads, DigestNoMemory(t) PROVE TypeOK'
    BY <1>14, CallRes, CallKeepsOp, FinalIsObject DEF DigestNoMemory, Raise
  <1>15. ASSUME NEW t \in Threads, DigestOk(t) PROVE TypeOK'
    <2>1. call[t] \in Call /\ self.fed \in Tag
      BY FedIsTag
    <2>2. self' \in Object
      BY <1>15, FinalIsObject DEF DigestOk
    <2>3. call' \in [Threads -> Call] /\ \A u \in Threads : call'[u].op = call[u].op
      <3> DEFINE c == [call EXCEPT ![t].res = "ok"]
      <3>1. c \in [Threads -> Call] /\ \A u \in Threads : c[u].op = call[u].op
        BY <2>1, CallRes, CallKeepsOp
      <3>2. call' = [c EXCEPT ![t].out = self.fed]
        BY <1>15 DEF DigestOk
      <3> HIDE DEF c
      <3>3. QED
        BY <2>1, <3>1, <3>2, CallOut, CallKeepsOp
    <2>4. QED
      BY <1>15, <2>1, <2>2, <2>3 DEF DigestOk
  <1>16. ASSUME NEW t \in Threads, VerifyRefuses(t) PROVE TypeOK'
    BY <1>16, CallRes, CallKeepsOp DEF VerifyRefuses, Refuse, Raise
  <1>17. ASSUME NEW t \in Threads, VerifyFails(t) PROVE TypeOK'
    BY <1>17, CallRes, CallKeepsOp, CleanedIsObject DEF VerifyFails, Raise
  <1>18. ASSUME NEW t \in Threads, Verify(t) PROVE TypeOK'
    <2>1. call[t] \in Call /\ call[t].op \in Ops
      BY <1>18 DEF Verify
    <2>2. self' \in Object
      BY <1>18, FinalIsObject DEF Verify
    <2>3. PICK r \in {"ok", "error"} : call' = [call EXCEPT ![t].res = r]
      BY <1>18 DEF Verify, Continue, Raise
    <2>4. call' \in [Threads -> Call] /\ \A u \in Threads : call'[u].op = call[u].op
      BY <2>1, <2>3, CallRes, CallKeepsOp
    <2>5. pc' = [pc EXCEPT ![t] = "unlock"] /\ pc[t] = "verify"
      BY <1>18 DEF Verify, Continue, Raise
    <2>6. UNCHANGED <<mutex, calls, processed, accepted, tags>>
      BY <1>18 DEF Verify, Continue, Raise
    <2>7. QED
      BY <2>1, <2>2, <2>4, <2>5, <2>6
  <1>19. ASSUME NEW t \in Threads, Clean(t) PROVE TypeOK'
    BY <1>19, CallRes, CallKeepsOp, CleanedIsObject DEF Clean, Continue
  <1>20. CASE UNCHANGED vars
    BY <1>20 DEF vars
  <1>21. QED
    BY <1>1, <1>2, <1>3, <1>4, <1>5, <1>6, <1>7, <1>8, <1>9, <1>10,
       <1>11, <1>12, <1>13, <1>14, <1>15, <1>16, <1>17, <1>18, <1>19, <1>20 DEF Next, Method

\* The variables hold what the code can put there, and the thread inside a
\* method is the one that holds the mutex.
THEOREM TypeCorrect == Spec => []TypeOK
  BY InitTypeOK, StepTypeOK, PTL DEF Spec

-----------------------------------------------------------------------------
LEMMA StepStateMeansContext ==
  TypeOK /\ StateMeansContext /\ [Next]_vars => StateMeansContext'
  <1> SUFFICES ASSUME TypeOK, StateMeansContext, [Next]_vars
               PROVE  StateMeansContext'
    OBVIOUS
  <1> USE DEF TypeOK, Object, Directions, StateMeansContext, results
  <1>1. ASSUME NEW t \in Threads, Invoke(t) PROVE StateMeansContext'
    BY <1>1 DEF Invoke
  <1>2. ASSUME NEW t \in Threads, Lock(t) PROVE StateMeansContext'
    BY <1>2 DEF Lock, First
  <1>3. ASSUME NEW t \in Threads, Unlock(t) PROVE StateMeansContext'
    BY <1>3 DEF Unlock
  <1>4. ASSUME NEW t \in Threads, CryptRefused(t) PROVE StateMeansContext'
    BY <1>4 DEF CryptRefused, Refuse, Raise, InitRefused, Direction
  <1>5. ASSUME NEW t \in Threads, CryptFails(t) PROVE StateMeansContext'
    BY <1>5 DEF CryptFails, Raise, Cleaned, InitRefused, Direction
  <1>6. ASSUME NEW t \in Threads, CryptUnaligned(t) PROVE StateMeansContext'
    BY <1>6 DEF CryptUnaligned, Raise, Initialised, InitRefused, Direction
  <1>7. ASSUME NEW t \in Threads, CryptNoMemory(t) PROVE StateMeansContext'
    BY <1>7 DEF CryptNoMemory, Raise, Initialised, InitRefused, Direction
  <1>8. ASSUME NEW t \in Threads, CryptOk(t) PROVE StateMeansContext'
    BY <1>8 DEF CryptOk, Initialised, Continue, InitRefused, Direction, AfterCrypt
  <1>9. ASSUME NEW t \in Threads, UpdateRefused(t) PROVE StateMeansContext'
    BY <1>9 DEF UpdateRefused, Refuse, Raise, AdRefused
  <1>10. ASSUME NEW t \in Threads, UpdateFails(t) PROVE StateMeansContext'
    BY <1>10 DEF UpdateFails, Refuse, Raise, AdRefused
  <1>11. ASSUME NEW t \in Threads, UpdateOk(t) PROVE StateMeansContext'
    BY <1>11 DEF UpdateOk, Continue, AdRefused
  <1>12. ASSUME NEW t \in Threads, DigestRefused(t) PROVE StateMeansContext'
    BY <1>12 DEF DigestRefused, Refuse, Raise, TagRefused
  <1>13. ASSUME NEW t \in Threads, DigestFails(t) PROVE StateMeansContext'
    BY <1>13 DEF DigestFails, Raise, Cleaned, TagRefused
  <1>14. ASSUME NEW t \in Threads, DigestNoMemory(t) PROVE StateMeansContext'
    BY <1>14 DEF DigestNoMemory, Raise, TagRefused
  <1>15. ASSUME NEW t \in Threads, DigestOk(t) PROVE StateMeansContext'
    BY <1>15 DEF DigestOk, TagRefused
  <1>16. ASSUME NEW t \in Threads, VerifyRefuses(t) PROVE StateMeansContext'
    BY <1>16 DEF VerifyRefuses, Refuse, Raise, VerifyRefused
  <1>17. ASSUME NEW t \in Threads, VerifyFails(t) PROVE StateMeansContext'
    BY <1>17 DEF VerifyFails, Raise, Cleaned, VerifyRefused
  <1>18. ASSUME NEW t \in Threads, Verify(t) PROVE StateMeansContext'
    BY <1>18 DEF Verify, Continue, Raise, VerifyRefused
  <1>19. ASSUME NEW t \in Threads, Clean(t) PROVE StateMeansContext'
    BY <1>19 DEF Clean, Cleaned, Continue
  <1>20. CASE UNCHANGED vars
    BY <1>20 DEF vars
  <1>21. QED
    BY <1>1, <1>2, <1>3, <1>4, <1>5, <1>6, <1>7, <1>8, <1>9, <1>10,
       <1>11, <1>12, <1>13, <1>14, <1>15, <1>16, <1>17, <1>18, <1>19, <1>20 DEF Next, Method

\* The fields of the struct always tell the state of the OpenSSL context, and
\* there is never a second copy of the key.
THEOREM StateMeansContextHolds == Spec => []StateMeansContext
<1>1. Init => StateMeansContext
  BY DEF Init, StateMeansContext
<1>2. QED
  BY <1>1, StepStateMeansContext, TypeCorrect, PTL DEF Spec

\* A cleaned object stays cleaned and a finalised one can only be cleaned.
THEOREM NoRevivalHolds == Spec => NoRevival
<1> DEFINE Kept ==
      /\ self.state = "CLEAR" => self' = self
      /\ self.closed => self' = self \/ self'.state = "CLEAR"
<1>1. TypeOK /\ StateMeansContext /\ [Next]_vars => [Kept]_vars
  <2> SUFFICES ASSUME TypeOK, StateMeansContext, [Next]_vars PROVE Kept
    OBVIOUS
  <2> USE DEF TypeOK, Object, Directions, StateMeansContext, results
  <2>1. ASSUME NEW t \in Threads, Invoke(t) PROVE Kept
    BY <2>1 DEF Invoke
  <2>2. ASSUME NEW t \in Threads, Lock(t) PROVE Kept
    BY <2>2 DEF Lock, First
  <2>3. ASSUME NEW t \in Threads, Unlock(t) PROVE Kept
    BY <2>3 DEF Unlock
  <2>4. ASSUME NEW t \in Threads, CryptRefused(t) PROVE Kept
    BY <2>4 DEF CryptRefused, Refuse, Raise, InitRefused, Direction
  <2>5. ASSUME NEW t \in Threads, CryptFails(t) PROVE Kept
    BY <2>5 DEF CryptFails, Raise, Cleaned, InitRefused, Direction
  <2>6. ASSUME NEW t \in Threads, CryptUnaligned(t) PROVE Kept
    BY <2>6 DEF CryptUnaligned, Raise, Initialised, InitRefused, Direction
  <2>7. ASSUME NEW t \in Threads, CryptNoMemory(t) PROVE Kept
    BY <2>7 DEF CryptNoMemory, Raise, Initialised, InitRefused, Direction
  <2>8. ASSUME NEW t \in Threads, CryptOk(t) PROVE Kept
    BY <2>8 DEF CryptOk, Initialised, Continue, InitRefused, Direction, AfterCrypt
  <2>9. ASSUME NEW t \in Threads, UpdateRefused(t) PROVE Kept
    BY <2>9 DEF UpdateRefused, Refuse, Raise, AdRefused
  <2>10. ASSUME NEW t \in Threads, UpdateFails(t) PROVE Kept
    BY <2>10 DEF UpdateFails, Refuse, Raise, AdRefused
  <2>11. ASSUME NEW t \in Threads, UpdateOk(t) PROVE Kept
    BY <2>11 DEF UpdateOk, Continue, AdRefused
  <2>12. ASSUME NEW t \in Threads, DigestRefused(t) PROVE Kept
    BY <2>12 DEF DigestRefused, Refuse, Raise, TagRefused
  <2>13. ASSUME NEW t \in Threads, DigestFails(t) PROVE Kept
    BY <2>13 DEF DigestFails, Raise, Cleaned, TagRefused
  <2>14. ASSUME NEW t \in Threads, DigestNoMemory(t) PROVE Kept
    BY <2>14 DEF DigestNoMemory, Raise, TagRefused
  <2>15. ASSUME NEW t \in Threads, DigestOk(t) PROVE Kept
    BY <2>15 DEF DigestOk, TagRefused
  <2>16. ASSUME NEW t \in Threads, VerifyRefuses(t) PROVE Kept
    BY <2>16 DEF VerifyRefuses, Refuse, Raise, VerifyRefused
  <2>17. ASSUME NEW t \in Threads, VerifyFails(t) PROVE Kept
    BY <2>17 DEF VerifyFails, Raise, Cleaned, VerifyRefused
  <2>18. ASSUME NEW t \in Threads, Verify(t) PROVE Kept
    BY <2>18 DEF Verify, Continue, Raise, VerifyRefused
  <2>19. ASSUME NEW t \in Threads, Clean(t) PROVE Kept
    BY <2>19 DEF Clean, Cleaned, Continue
  <2>20. CASE UNCHANGED vars
    BY <2>20 DEF vars
  <2>21. QED
    BY <2>1, <2>2, <2>3, <2>4, <2>5, <2>6, <2>7, <2>8, <2>9, <2>10,
       <2>11, <2>12, <2>13, <2>14, <2>15, <2>16, <2>17, <2>18, <2>19, <2>20 DEF Next, Method
<1>2. QED
  BY <1>1, TypeCorrect, StateMeansContextHolds, PTL DEF Spec, NoRevival

-----------------------------------------------------------------------------
\* A tag ends the data: it was computed over all of it, and the object has
\* been FINAL or CLEAR ever since.
TagsCover ==
    /\ tags # {} => self.state \in {"FINAL", "CLEAR"}
    /\ self.state = "FINAL" => tags \subseteq {self.fed}
    /\ self.state \in {"INIT", "FINAL"} => self.fed.msg = processed
    /\ self.state = "NONE" => processed = <<>>
    /\ OneTag

LEMMA StepTagsCover ==
  TypeOK /\ StateMeansContext /\ TagsCover /\ [Next]_vars => TagsCover'
  <1> SUFFICES ASSUME TypeOK, StateMeansContext, TagsCover, [Next]_vars
               PROVE  TagsCover'
    OBVIOUS
  <1> USE DEF TypeOK, Object, Tag, NoTag, Directions, StateMeansContext,
              TagsCover, OneTag, results
  <1>1. ASSUME NEW t \in Threads, Invoke(t) PROVE TagsCover'
    BY <1>1 DEF Invoke
  <1>2. ASSUME NEW t \in Threads, Lock(t) PROVE TagsCover'
    BY <1>2 DEF Lock, First
  <1>3. ASSUME NEW t \in Threads, Unlock(t) PROVE TagsCover'
    BY <1>3 DEF Unlock
  <1>4. ASSUME NEW t \in Threads, CryptRefused(t) PROVE TagsCover'
    BY <1>4 DEF CryptRefused, Refuse, Raise, InitRefused, Direction
  <1>5. ASSUME NEW t \in Threads, CryptFails(t) PROVE TagsCover'
    BY <1>5 DEF CryptFails, Raise, Cleaned, InitRefused, Direction
  <1>6. ASSUME NEW t \in Threads, CryptUnaligned(t) PROVE TagsCover'
    BY <1>6 DEF CryptUnaligned, Raise, Initialised, InitRefused, Direction
  <1>7. ASSUME NEW t \in Threads, CryptNoMemory(t) PROVE TagsCover'
    BY <1>7 DEF CryptNoMemory, Raise, Initialised, InitRefused, Direction
  <1>8. ASSUME NEW t \in Threads, CryptOk(t) PROVE TagsCover'
    BY <1>8 DEF CryptOk, Initialised, Continue, InitRefused, Direction, AfterCrypt
  <1>9. ASSUME NEW t \in Threads, UpdateRefused(t) PROVE TagsCover'
    BY <1>9 DEF UpdateRefused, Refuse, Raise, AdRefused
  <1>10. ASSUME NEW t \in Threads, UpdateFails(t) PROVE TagsCover'
    BY <1>10 DEF UpdateFails, Refuse, Raise, AdRefused
  <1>11. ASSUME NEW t \in Threads, UpdateOk(t) PROVE TagsCover'
    BY <1>11 DEF UpdateOk, Continue, AdRefused
  <1>12. ASSUME NEW t \in Threads, DigestRefused(t) PROVE TagsCover'
    BY <1>12 DEF DigestRefused, Refuse, Raise, TagRefused
  <1>13. ASSUME NEW t \in Threads, DigestFails(t) PROVE TagsCover'
    BY <1>13 DEF DigestFails, Raise, Cleaned, TagRefused
  <1>14. ASSUME NEW t \in Threads, DigestNoMemory(t) PROVE TagsCover'
    BY <1>14 DEF DigestNoMemory, Raise, TagRefused
  <1>15. ASSUME NEW t \in Threads, DigestOk(t) PROVE TagsCover'
    BY <1>15 DEF DigestOk, TagRefused
  <1>16. ASSUME NEW t \in Threads, VerifyRefuses(t) PROVE TagsCover'
    BY <1>16 DEF VerifyRefuses, Refuse, Raise, VerifyRefused
  <1>17. ASSUME NEW t \in Threads, VerifyFails(t) PROVE TagsCover'
    BY <1>17 DEF VerifyFails, Raise, Cleaned, VerifyRefused
  <1>18. ASSUME NEW t \in Threads, Verify(t) PROVE TagsCover'
    BY <1>18 DEF Verify, Continue, Raise, VerifyRefused
  <1>19. ASSUME NEW t \in Threads, Clean(t) PROVE TagsCover'
    BY <1>19 DEF Clean, Cleaned, Continue
  <1>20. CASE UNCHANGED vars
    BY <1>20 DEF vars
  <1>21. QED
    BY <1>1, <1>2, <1>3, <1>4, <1>5, <1>6, <1>7, <1>8, <1>9, <1>10,
       <1>11, <1>12, <1>13, <1>14, <1>15, <1>16, <1>17, <1>18, <1>19, <1>20 DEF Next, Method

\* One object yields one tag, over all the data it encrypted.
THEOREM OneTagHolds == Spec => []OneTag
<1>1. Init => TagsCover
  BY DEF Init, TagsCover, OneTag, NoTag
<1>2. TagsCover => OneTag
  BY DEF TagsCover
<1>3. QED
  BY <1>1, <1>2, StepTagsCover, TypeCorrect, StateMeansContextHolds, PTL DEF Spec

-----------------------------------------------------------------------------
\* Between the two halves of a composite method the message ends with the
\* caller's data, because the mutex keeps the other threads out.
HalfDone ==
    \A t \in Threads :
        /\ pc[t] = "ad" => call[t].op = "update"
        /\ pc[t] = "clean" => call[t].op = "clean"
        /\ pc[t] = "tag" /\ call[t].op = "encrypt_and_digest" =>
            EndsWith(self.fed, call[t].data)
        /\ pc[t] = "verify" /\ call[t].op = "decrypt_and_verify" =>
            EndsWith(self.fed, call[t].data)
        /\ pc[t] = "tag" => call[t].op \in {"digest", "encrypt_and_digest"}
        /\ pc[t] = "verify" => call[t].op \in {"verify", "decrypt_and_verify"}
        /\ pc[t] \in {"unlock", "idle"} /\ call[t].res = "ok" =>
            /\ call[t].op = "encrypt_and_digest" => EndsWith(call[t].out, call[t].data)
            /\ call[t].op = "decrypt_and_verify" =>
                call[t].tag # Short /\ EndsWith(call[t].tag, call[t].data)

LEMMA StepHalfDone == TypeOK /\ HalfDone /\ [Next]_vars => HalfDone'
  <1> SUFFICES ASSUME TypeOK, HalfDone, [Next]_vars PROVE HalfDone'
    OBVIOUS
  <1> USE CipherAssumption DEF TypeOK, Call, HalfDone, results, Goto
  <1>1. ASSUME NEW t \in Threads, Invoke(t) PROVE HalfDone'
    BY <1>1 DEF Invoke
  <1>2. ASSUME NEW t \in Threads, Lock(t) PROVE HalfDone'
    BY <1>2 DEF Lock, First, Ops
  <1>3. ASSUME NEW t \in Threads, Unlock(t) PROVE HalfDone'
    BY <1>3 DEF Unlock
  <1>4. ASSUME NEW t \in Threads, CryptRefused(t) PROVE HalfDone'
    BY <1>4 DEF CryptRefused, Refuse, Raise, InitRefused, Direction
  <1>5. ASSUME NEW t \in Threads, CryptFails(t) PROVE HalfDone'
    BY <1>5 DEF CryptFails, Raise, Cleaned, InitRefused, Direction
  <1>6. ASSUME NEW t \in Threads, CryptUnaligned(t) PROVE HalfDone'
    BY <1>6 DEF CryptUnaligned, Raise, Initialised, InitRefused, Direction
  <1>7. ASSUME NEW t \in Threads, CryptNoMemory(t) PROVE HalfDone'
    BY <1>7 DEF CryptNoMemory, Raise, Initialised, InitRefused, Direction
  <1>8. ASSUME NEW t \in Threads, CryptOk(t) PROVE HalfDone'
    <2>1. self'.fed.msg # <<>> /\ self'.fed.msg[Len(self'.fed.msg)] = call[t].data
      <3> DEFINE s == Initialised(self, Direction(call[t].op))
      <3>1. s \in Object /\ s.fed \in Tag
        BY CallOps, InitialisedIsObject, FedIsTag
      <3>2. self' = [s EXCEPT !.fed.msg = Append(@, call[t].data)]
        BY <1>8 DEF CryptOk
      <3>3. s.fed.msg \in Seq(Chunks)
        BY <3>1 DEF Tag
      <3>4. self'.fed.msg = Append(s.fed.msg, call[t].data)
        <4> HIDE DEF s
        <4>1. QED
          BY <3>1, <3>2 DEF Object, Tag
      <3> DEFINE q == Append(s.fed.msg, call[t].data)
      <3>5. q \in Seq(Chunks) /\ Len(q) = Len(s.fed.msg) + 1
        BY <3>3, CallHasData
      <3>6. q[Len(s.fed.msg) + 1] = call[t].data
        BY <3>3, CallHasData
      <3>7. q # <<>> /\ q[Len(q)] = call[t].data
        <4>1. Len(s.fed.msg) \in Nat /\ Len(<<>>) = 0
          BY <3>3
        <4> HIDE DEF q
        <4>2. QED
          BY <3>5, <3>6, <4>1
      <3>8. QED
        BY <3>4, <3>7
    <2>2. EndsWith(self'.fed, call[t].data)
      BY <2>1 DEF EndsWith
    <2>3. pc' = [pc EXCEPT ![t] = AfterCrypt(call[t].op)] /\ pc[t] = "crypt"
      BY <1>8 DEF CryptOk, Continue
    <2>4. call' = [call EXCEPT ![t].res = "ok"] /\ mutex = t
      BY <1>8 DEF CryptOk, Continue
    <2>5. QED
      BY <2>2, <2>3, <2>4 DEF AfterCrypt
  <1>9. ASSUME NEW t \in Threads, UpdateRefused(t) PROVE HalfDone'
    BY <1>9 DEF UpdateRefused, Refuse, Raise, AdRefused
  <1>10. ASSUME NEW t \in Threads, UpdateFails(t) PROVE HalfDone'
    BY <1>10 DEF UpdateFails, Refuse, Raise, AdRefused
  <1>11. ASSUME NEW t \in Threads, UpdateOk(t) PROVE HalfDone'
    BY <1>11 DEF UpdateOk, Continue, AdRefused
  <1>12. ASSUME NEW t \in Threads, DigestRefused(t) PROVE HalfDone'
    BY <1>12 DEF DigestRefused, Refuse, Raise, TagRefused
  <1>13. ASSUME NEW t \in Threads, DigestFails(t) PROVE HalfDone'
    BY <1>13 DEF DigestFails, Raise, Cleaned, TagRefused
  <1>14. ASSUME NEW t \in Threads, DigestNoMemory(t) PROVE HalfDone'
    BY <1>14 DEF DigestNoMemory, Raise, TagRefused
  <1>15. ASSUME NEW t \in Threads, DigestOk(t) PROVE HalfDone'
    BY <1>15 DEF DigestOk, TagRefused
  <1>16. ASSUME NEW t \in Threads, VerifyRefuses(t) PROVE HalfDone'
    BY <1>16 DEF VerifyRefuses, Refuse, Raise, VerifyRefused
  <1>17. ASSUME NEW t \in Threads, VerifyFails(t) PROVE HalfDone'
    BY <1>17 DEF VerifyFails, Raise, Cleaned, VerifyRefused
  <1>18. ASSUME NEW t \in Threads, Verify(t) PROVE HalfDone'
    <2>1. pc[t] = "verify" /\ mutex = t /\ pc' = [pc EXCEPT ![t] = "unlock"]
      BY <1>18 DEF Verify, Continue, Raise
    <2>2. CASE call[t].tag = self.fed
      <3>1. call' = [call EXCEPT ![t].res = "ok"] /\ call[t].tag # Short
        BY <1>18, <2>2 DEF Verify, Continue, VerifyRefused
      <3>2. QED
        BY <2>1, <2>2, <3>1
    <2>3. CASE call[t].tag # self.fed
      <3>1. call' = [call EXCEPT ![t].res = "error"]
        BY <1>18, <2>3 DEF Verify, Raise
      <3>2. QED
        BY <2>1, <3>1
    <2>4. QED
      BY <2>2, <2>3
  <1>19. ASSUME NEW t \in Threads, Clean(t) PROVE HalfDone'
    BY <1>19 DEF Clean, Cleaned, Continue
  <1>20. CASE UNCHANGED vars
    BY <1>20 DEF vars
  <1>21. QED
    BY <1>1, <1>2, <1>3, <1>4, <1>5, <1>6, <1>7, <1>8, <1>9, <1>10,
       <1>11, <1>12, <1>13, <1>14, <1>15, <1>16, <1>17, <1>18, <1>19, <1>20 DEF Next, Method

\* encrypt_and_digest and decrypt_and_verify are one step for other threads.
THEOREM CompositeIsAtomicHolds == Spec => []CompositeIsAtomic
<1>1. Init => HalfDone
  <2> SUFFICES ASSUME Init PROVE HalfDone
    OBVIOUS
  <2>1. \A t \in Threads : pc[t] = "idle" /\ call[t].res = "none"
    BY DEF Init
  <2>2. QED
    BY <2>1 DEF HalfDone
<1>2. HalfDone => CompositeIsAtomic
  BY DEF HalfDone, CompositeIsAtomic
<1>3. QED
  BY <1>1, <1>2, StepHalfDone, TypeCorrect, PTL DEF Spec

\* No data is processed after the tag, and none in the other direction.
THEOREM NoDataAfterFinalHolds == Spec => NoDataAfterFinal
<1> DEFINE Ordered ==
      self'.fed.msg # self.fed.msg /\ self'.state # "CLEAR" =>
        /\ self.state \in {"NONE", "INIT"} /\ ~self.closed
        /\ self.state = "INIT" => self'.dir = self.dir
<1>1. TypeOK /\ StateMeansContext /\ [Next]_vars => [Ordered]_vars
  <2> SUFFICES ASSUME TypeOK, StateMeansContext, [Next]_vars PROVE Ordered
    OBVIOUS
  <2> USE DEF TypeOK, Object, Tag, NoTag, Directions, StateMeansContext, results
  <2>1. ASSUME NEW t \in Threads, Invoke(t) PROVE Ordered
    BY <2>1 DEF Invoke
  <2>2. ASSUME NEW t \in Threads, Lock(t) PROVE Ordered
    BY <2>2 DEF Lock, First
  <2>3. ASSUME NEW t \in Threads, Unlock(t) PROVE Ordered
    BY <2>3 DEF Unlock
  <2>4. ASSUME NEW t \in Threads, CryptRefused(t) PROVE Ordered
    BY <2>4 DEF CryptRefused, Refuse, Raise, InitRefused, Direction
  <2>5. ASSUME NEW t \in Threads, CryptFails(t) PROVE Ordered
    BY <2>5 DEF CryptFails, Raise, Cleaned, InitRefused, Direction
  <2>6. ASSUME NEW t \in Threads, CryptUnaligned(t) PROVE Ordered
    BY <2>6 DEF CryptUnaligned, Raise, Initialised, InitRefused, Direction
  <2>7. ASSUME NEW t \in Threads, CryptNoMemory(t) PROVE Ordered
    BY <2>7 DEF CryptNoMemory, Raise, Initialised, InitRefused, Direction
  <2>8. ASSUME NEW t \in Threads, CryptOk(t) PROVE Ordered
    BY <2>8 DEF CryptOk, Initialised, Continue, InitRefused, Direction, AfterCrypt
  <2>9. ASSUME NEW t \in Threads, UpdateRefused(t) PROVE Ordered
    BY <2>9 DEF UpdateRefused, Refuse, Raise, AdRefused
  <2>10. ASSUME NEW t \in Threads, UpdateFails(t) PROVE Ordered
    BY <2>10 DEF UpdateFails, Refuse, Raise, AdRefused
  <2>11. ASSUME NEW t \in Threads, UpdateOk(t) PROVE Ordered
    BY <2>11 DEF UpdateOk, Continue, AdRefused
  <2>12. ASSUME NEW t \in Threads, DigestRefused(t) PROVE Ordered
    BY <2>12 DEF DigestRefused, Refuse, Raise, TagRefused
  <2>13. ASSUME NEW t \in Threads, DigestFails(t) PROVE Ordered
    BY <2>13 DEF DigestFails, Raise, Cleaned, TagRefused
  <2>14. ASSUME NEW t \in Threads, DigestNoMemory(t) PROVE Ordered
    BY <2>14 DEF DigestNoMemory, Raise, TagRefused
  <2>15. ASSUME NEW t \in Threads, DigestOk(t) PROVE Ordered
    BY <2>15 DEF DigestOk, TagRefused
  <2>16. ASSUME NEW t \in Threads, VerifyRefuses(t) PROVE Ordered
    BY <2>16 DEF VerifyRefuses, Refuse, Raise, VerifyRefused
  <2>17. ASSUME NEW t \in Threads, VerifyFails(t) PROVE Ordered
    BY <2>17 DEF VerifyFails, Raise, Cleaned, VerifyRefused
  <2>18. ASSUME NEW t \in Threads, Verify(t) PROVE Ordered
    BY <2>18 DEF Verify, Continue, Raise, VerifyRefused
  <2>19. ASSUME NEW t \in Threads, Clean(t) PROVE Ordered
    BY <2>19 DEF Clean, Cleaned, Continue
  <2>20. CASE UNCHANGED vars
    BY <2>20 DEF vars
  <2>21. QED
    BY <2>1, <2>2, <2>3, <2>4, <2>5, <2>6, <2>7, <2>8, <2>9, <2>10,
       <2>11, <2>12, <2>13, <2>14, <2>15, <2>16, <2>17, <2>18, <2>19, <2>20 DEF Next, Method
<1>2. QED
  BY <1>1, TypeCorrect, StateMeansContextHolds, PTL DEF Spec, NoDataAfterFinal
=============================================================================
