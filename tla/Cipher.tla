------------------------------- MODULE Cipher -------------------------------
(***************************************************************************)
(* The Cipher object of _pystandalone.c: one cipher context, used by       *)
(* several Python threads.  Every method takes the object's mutex, runs    *)
(* one or two of the internal functions _Cipher_crypt, _Cipher_update_ad,  *)
(* _Cipher_get_tag, _Cipher_verify_tag and _Cipher_clean, and releases it; *)
(* each of these is a step here, and so is each failure of the library.    *)
(*                                                                         *)
(* `self` joins the C struct (enc, state, and whether key and iv are still *)
(* in it) with what the OpenSSL context behind self->ctx holds: the type   *)
(* of its cipher, the direction it was keyed for, the associated data and  *)
(* the data it was fed, and whether it was finalised.  A tag is the pair   *)
(* of associated data and data it authenticates.                           *)
(***************************************************************************)
EXTENDS Naturals, Sequences

CONSTANTS
    Threads,
    Chunks,             \* the data arguments
    Unaligned,          \* those that are no multiple of a block cipher's block
    TagArgs,            \* the tags of 16 bytes a caller may present
    Short,              \* a tag of another length
    MaxCalls            \* bound: calls on the object

ASSUME CipherAssumption ==
    /\ Unaligned \subseteq Chunks
    /\ TagArgs \subseteq [ad : SUBSET Chunks, msg : Seq(Chunks)]
    /\ Chunks # {} /\ Short \notin TagArgs
    /\ "free" \notin Threads
    /\ MaxCalls \in Nat

VARIABLES
    self,               \* the object and its context
    mutex,              \* the thread that holds self->mutex
    pc,                 \* pc[t]: the step of thread t
    call,               \* call[t]: its latest call
    calls,              \* how many calls were made
    processed,          \* the data the object encrypted or decrypted so far
    accepted,           \* associated data that update() accepted
    tags                \* the tags that were returned

results == <<processed, accepted, tags>>
vars == <<self, mutex, pc, call, calls, results>>

Ops == {"encrypt", "encrypt_and_digest", "decrypt", "decrypt_and_verify",
        "update", "digest", "verify", "clean"}

TakesData == Ops \ {"digest", "verify", "clean"}
TakesTag == {"decrypt_and_verify", "verify"}
AnyChunk == CHOOSE c \in Chunks : TRUE

\* The internal function a method starts with, and what follows the data.
First(op) ==
    CASE op \in {"encrypt", "encrypt_and_digest", "decrypt", "decrypt_and_verify"} -> "crypt"
      [] op = "update" -> "ad"
      [] op = "digest" -> "tag"
      [] OTHER -> op

\* Mutant of AfterCrypt: the plaintext is returned without its check.
AfterCryptUnverified(op) == IF op = "encrypt_and_digest" THEN "tag" ELSE "unlock"

AfterCrypt(op) ==
    CASE op = "encrypt_and_digest" -> "tag"
      [] op = "decrypt_and_verify" -> "verify"
      [] OTHER -> "unlock"

Direction(op) ==
    IF op \in {"encrypt", "encrypt_and_digest"} THEN "ENCRYPT" ELSE "DECRYPT"

Tag == [ad : SUBSET Chunks, msg : Seq(Chunks)]
NoTag == [ad |-> {}, msg |-> <<>>]
Directions == {"NONE", "ENCRYPT", "DECRYPT"}

Object == [enc : Directions,
           state : {"CLEAR", "NONE", "INIT", "FINAL"},
           secret : BOOLEAN,    \* key and iv are in the struct
           aead : BOOLEAN,      \* the context has an AEAD cipher
           dir : Directions,    \* the direction the context is keyed for
           fed : Tag,           \* what it was fed
           closed : BOOLEAN]    \* EVP_CipherFinal_ex was called

Call == [op : Ops \cup {"none"}, data : Chunks, tag : TagArgs \cup {Short},
         res : {"none", "ok", "error"}, out : Tag]

TypeOK ==
    /\ self \in Object
    /\ mutex \in Threads \cup {"free"}
    /\ pc \in [Threads -> {"idle", "lock", "crypt", "ad", "tag", "verify",
                          "clean", "unlock"}]
    /\ call \in [Threads -> Call]
    /\ calls \in 0..MaxCalls
    /\ processed \in Seq(Chunks)
    /\ accepted \subseteq Chunks
    /\ tags \subseteq Tag
    /\ \A t \in Threads :
        /\ pc[t] \notin {"idle", "lock"} <=> mutex = t
        /\ pc[t] # "idle" => call[t].op \in Ops

\* _Cipher_new: the context gets its cipher, AEAD or not, and the key stays
\* in the struct.
Init ==
    /\ \E aead \in BOOLEAN :
        self = [enc |-> "NONE", state |-> "NONE", secret |-> TRUE, aead |-> aead,
                dir |-> "NONE", fed |-> NoTag, closed |-> FALSE]
    /\ mutex = "free"
    /\ pc = [t \in Threads |-> "idle"]
    /\ call = [t \in Threads |-> [op |-> "none", data |-> AnyChunk, tag |-> Short,
                                  res |-> "none", out |-> NoTag]]
    /\ calls = 0
    /\ processed = <<>>
    /\ accepted = {}
    /\ tags = {}

-----------------------------------------------------------------------------
(* Entering and leaving a method.                                          *)

Goto(t, label) == pc' = [pc EXCEPT ![t] = label]

Invoke(t) ==
    /\ pc[t] = "idle"
    /\ calls < MaxCalls
    /\ calls' = calls + 1
    /\ \E op \in Ops :
        \E d \in (IF op \in TakesData THEN Chunks ELSE {AnyChunk}),
           a \in (IF op \in TakesTag THEN TagArgs ELSE {}) \cup {Short} :
            call' = [call EXCEPT ![t] =
                [op |-> op, data |-> d, tag |-> a, res |-> "none", out |-> NoTag]]
    /\ Goto(t, "lock")
    /\ UNCHANGED <<self, mutex, results>>

\* Mutant of Lock: the compatibility define of PyMutex_Lock, but no GIL.
NoLock(t) ==
    /\ pc[t] = "lock"
    /\ Goto(t, First(call[t].op))
    /\ UNCHANGED <<self, mutex, call, calls, results>>

\* PyMutex_Lock; before CPython 3.13 the GIL, which no method releases.
Lock(t) ==
    /\ pc[t] = "lock"
    /\ mutex = "free"
    /\ mutex' = t
    /\ Goto(t, First(call[t].op))
    /\ UNCHANGED <<self, call, calls, results>>

\* Mutant of Unlock: an error path returns without PyMutex_Unlock.
UnlockOnSuccess(t) ==
    /\ pc[t] = "unlock"
    /\ mutex' = IF call[t].res = "ok" THEN "free" ELSE mutex
    /\ Goto(t, "idle")
    /\ UNCHANGED <<self, call, calls, results>>

Unlock(t) ==
    /\ pc[t] = "unlock"
    /\ mutex' = "free"
    /\ Goto(t, "idle")
    /\ UNCHANGED <<self, call, calls, results>>

\* An internal function returned NULL: the method unlocks and raises.
Raise(t) ==
    /\ Goto(t, "unlock")
    /\ call' = [call EXCEPT ![t].res = "error"]
    /\ UNCHANGED <<mutex, calls>>

Refuse(t) == Raise(t) /\ UNCHANGED <<self, results>>

Continue(t, label) ==
    /\ Goto(t, label)
    /\ call' = [call EXCEPT ![t].res = "ok"]
    /\ UNCHANGED <<mutex, calls>>

-----------------------------------------------------------------------------
(* The internal functions.                                                 *)

\* Mutant of Cleaned: EVP_CIPHER_CTX_cleanup is forgotten.
CleanedStructOnly(s) ==
    [s EXCEPT !.enc = "NONE", !.state = "CLEAR", !.secret = FALSE]

\* _Cipher_clean: the context is reset and loses even the type of its
\* cipher, the struct's key and iv are wiped.
Cleaned(s) ==
    [enc |-> "NONE", state |-> "CLEAR", secret |-> FALSE, aead |-> FALSE,
     dir |-> "NONE", fed |-> NoTag, closed |-> FALSE]

\* Mutant of InitRefused: a finalised object may be used again.
InitRefusedUnlessFinal(s, e) == s.state = "CLEAR" \/ (s.state = "INIT" /\ s.enc # e)

\* _Cipher_init refuses a cleaned or finalised object and one that was
\* initialised for the other direction.
InitRefused(s, e) ==
    s.state \in {"CLEAR", "FINAL"} \/ (s.state = "INIT" /\ s.enc # e)

\* Mutant of Initialised: an initialised object is keyed again.
InitialisedAgain(s, e) ==
    [s EXCEPT !.enc = e, !.state = "INIT", !.secret = FALSE, !.dir = e,
              !.fed = NoTag]

\* _Cipher_init on success.  Keying starts a new message: what the context
\* was fed before is gone.
Initialised(s, e) ==
    IF s.state = "INIT" THEN s
    ELSE [s EXCEPT !.enc = e, !.state = "INIT", !.secret = FALSE, !.dir = e,
                   !.fed = NoTag]

\* The block size of an AEAD mode is 1.
Misaligned(s, d) == ~s.aead /\ d \in Unaligned

CryptRefused(t) ==
    /\ pc[t] = "crypt"
    /\ InitRefused(self, Direction(call[t].op))
    /\ Refuse(t)

\* EVP_CipherInit_ex or EVP_CipherUpdate fails: the object is cleaned.
CryptFails(t) ==
    /\ pc[t] = "crypt"
    /\ ~InitRefused(self, Direction(call[t].op))
    /\ self.state = "NONE" \/ ~Misaligned(self, call[t].data)
    /\ self' = Cleaned(self)
    /\ Raise(t)
    /\ UNCHANGED results

\* The block size is checked after the initialisation, which stands.
CryptUnaligned(t) ==
    /\ pc[t] = "crypt"
    /\ ~InitRefused(self, Direction(call[t].op))
    /\ Misaligned(self, call[t].data)
    /\ self' = Initialised(self, Direction(call[t].op))
    /\ Raise(t)
    /\ UNCHANGED results

\* No memory for the output: initialised, and no data was processed.
CryptNoMemory(t) ==
    /\ pc[t] = "crypt"
    /\ ~InitRefused(self, Direction(call[t].op))
    /\ ~Misaligned(self, call[t].data)
    /\ self' = Initialised(self, Direction(call[t].op))
    /\ Raise(t)
    /\ UNCHANGED results

CryptOk(t) ==
    /\ pc[t] = "crypt"
    /\ ~InitRefused(self, Direction(call[t].op))
    /\ ~Misaligned(self, call[t].data)
    /\ self' = [Initialised(self, Direction(call[t].op)) EXCEPT
                    !.fed.msg = Append(@, call[t].data)]
    /\ processed' = Append(processed, call[t].data)
    /\ Continue(t, AfterCrypt(call[t].op))
    /\ UNCHANGED <<accepted, tags>>

\* _Cipher_update_ad, with the guard as it is written: `enc` and `state`
\* must both differ from NONE to be refused.
AdRefused(s) == ~s.aead \/ (s.enc # "NONE" /\ s.state # "NONE")

UpdateRefused(t) ==
    /\ pc[t] = "ad"
    /\ AdRefused(self)
    /\ Refuse(t)

\* EVP_CipherUpdate on a context that has no key yet may be an error, which
\* does not clean the object, ...
UpdateFails(t) ==
    /\ pc[t] = "ad"
    /\ ~AdRefused(self)
    /\ Refuse(t)

\* ... or be accepted.
UpdateOk(t) ==
    /\ pc[t] = "ad"
    /\ ~AdRefused(self)
    /\ self' = [self EXCEPT !.fed.ad = @ \cup {call[t].data}]
    /\ accepted' = accepted \cup {call[t].data}
    /\ Continue(t, "unlock")
    /\ UNCHANGED <<processed, tags>>

\* _Cipher_get_tag: encrypting AEAD objects, once or more often.
TagRefused(s) ==
    ~s.aead \/ s.enc # "ENCRYPT" \/ s.state \notin {"INIT", "FINAL"}

DigestRefused(t) ==
    /\ pc[t] = "tag"
    /\ TagRefused(self)
    /\ Refuse(t)

\* EVP_CipherFinal_ex or EVP_CTRL_AEAD_GET_TAG fails.
DigestFails(t) ==
    /\ pc[t] = "tag"
    /\ ~TagRefused(self)
    /\ self' = Cleaned(self)
    /\ Raise(t)
    /\ UNCHANGED results

\* No memory for the tag: the object is finalised all the same.
DigestNoMemory(t) ==
    /\ pc[t] = "tag"
    /\ ~TagRefused(self)
    /\ self' = [self EXCEPT !.state = "FINAL", !.closed = TRUE]
    /\ Raise(t)
    /\ UNCHANGED results

\* Mutant of DigestOk: the object stays open after its tag was computed.
DigestKeepsOpen(t) ==
    /\ pc[t] = "tag"
    /\ ~TagRefused(self)
    /\ self' = [self EXCEPT !.closed = TRUE]
    /\ Goto(t, "unlock")
    /\ call' = [call EXCEPT ![t].res = "ok", ![t].out = self.fed]
    /\ tags' = tags \cup {self.fed}
    /\ UNCHANGED <<mutex, calls, processed, accepted>>

DigestOk(t) ==
    /\ pc[t] = "tag"
    /\ ~TagRefused(self)
    /\ self' = [self EXCEPT !.state = "FINAL", !.closed = TRUE]
    /\ Goto(t, "unlock")
    /\ call' = [call EXCEPT ![t].res = "ok", ![t].out = self.fed]
    /\ tags' = tags \cup {self.fed}
    /\ UNCHANGED <<mutex, calls, processed, accepted>>

\* _Cipher_verify_tag: decrypting AEAD objects, once.
VerifyRefused(s, tag) ==
    ~s.aead \/ s.enc # "DECRYPT" \/ s.state # "INIT" \/ tag = Short

VerifyRefuses(t) ==
    /\ pc[t] = "verify"
    /\ VerifyRefused(self, call[t].tag)
    /\ Refuse(t)

\* EVP_CTRL_AEAD_SET_TAG fails.
VerifyFails(t) ==
    /\ pc[t] = "verify"
    /\ ~VerifyRefused(self, call[t].tag)
    /\ self' = Cleaned(self)
    /\ Raise(t)
    /\ UNCHANGED results

\* EVP_CipherFinal_ex compares the tags; a mismatch does not clean.
Verify(t) ==
    /\ pc[t] = "verify"
    /\ ~VerifyRefused(self, call[t].tag)
    /\ self' = [self EXCEPT !.state = "FINAL", !.closed = TRUE]
    /\ IF call[t].tag = self.fed THEN Continue(t, "unlock") ELSE Raise(t)
    /\ UNCHANGED results

Clean(t) ==
    /\ pc[t] = "clean"
    /\ self' = Cleaned(self)
    /\ Continue(t, "unlock")
    /\ UNCHANGED results

Method(t) ==
    \/ CryptRefused(t) \/ CryptFails(t) \/ CryptUnaligned(t)
    \/ CryptNoMemory(t) \/ CryptOk(t)
    \/ UpdateRefused(t) \/ UpdateFails(t) \/ UpdateOk(t)
    \/ DigestRefused(t) \/ DigestFails(t) \/ DigestNoMemory(t) \/ DigestOk(t)
    \/ VerifyRefuses(t) \/ VerifyFails(t) \/ Verify(t)
    \/ Clean(t)

Next == \E t \in Threads : Invoke(t) \/ Lock(t) \/ Method(t) \/ Unlock(t)

\* A thread inside a method runs on and a waiting thread gets a mutex that
\* stays free.  With MaxCalls no thread can take it away for ever.
Spec ==
    /\ Init /\ [][Next]_vars
    /\ \A t \in Threads :
        WF_vars(Lock(t)) /\ WF_vars(Method(t)) /\ WF_vars(Unlock(t))

-----------------------------------------------------------------------------
\* `enc` and `state` say what the OpenSSL context really is, on every path
\* through the library's failures: the key is in the struct or scheduled in
\* the context, never in both, and a cleaned object has it in neither.
StateMeansContext ==
    /\ self.state = "NONE" =>
        self.secret /\ self.enc = "NONE" /\ self.dir = "NONE" /\ ~self.closed
    /\ self.state \in {"INIT", "FINAL"} =>
        /\ ~self.secret /\ self.dir # "NONE" /\ self.enc = self.dir
        /\ self.closed <=> self.state = "FINAL"
    /\ self.state = "CLEAR" =>
        /\ ~self.secret /\ self.dir = "NONE" /\ ~self.aead /\ self.enc = "NONE"
        /\ self.fed = NoTag /\ ~self.closed

\* However threads mix encrypt, digest and encrypt_and_digest, one object
\* yields one tag, and that tag covers everything the object encrypted.
OneTag ==
    /\ \A u, v \in tags : u = v
    /\ \A u \in tags : u.msg = processed

\* The two halves of encrypt_and_digest and of decrypt_and_verify are one
\* step for the other threads: the tag that was returned, or that was
\* checked, is the tag of a message that ends with the caller's data.
EndsWith(tag, d) == tag.msg # <<>> /\ tag.msg[Len(tag.msg)] = d

CompositeIsAtomic ==
    \A t \in Threads :
        pc[t] = "idle" /\ call[t].res = "ok" =>
            /\ call[t].op = "encrypt_and_digest" => EndsWith(call[t].out, call[t].data)
            /\ call[t].op = "decrypt_and_verify" =>
                call[t].tag # Short /\ EndsWith(call[t].tag, call[t].data)

\* Data is only ever processed in the direction the context was keyed for,
\* and none is after the tag was computed or the object was cleaned.
NoDataAfterFinal ==
    [][self'.fed.msg # self.fed.msg /\ self'.state # "CLEAR" =>
        /\ self.state \in {"NONE", "INIT"} /\ ~self.closed
        /\ self.state = "INIT" => self'.dir = self.dir]_vars

\* A cleaned object stays cleaned, and one whose tag was computed or checked
\* can only be cleaned.
NoRevival ==
    [][/\ self.state = "CLEAR" => self' = self
       /\ self.closed => self' = self \/ self'.state = "CLEAR"]_vars

\* Every error path releases the mutex: every call returns.
CallsReturn == \A t \in Threads : pc[t] # "idle" ~> pc[t] = "idle"

\* What the docstring of update() (line 595, "Protect associated data.")
\* says: the tag covers the associated data that update() accepted.
AdProtected == \A u \in tags : u.ad = accepted
=============================================================================
