------------------------------ MODULE MCCipher ------------------------------
(* Two threads, two pieces of data and three calls.                        *)
EXTENDS Cipher, TLC

CONSTANTS t1, t2, c1, c2

TwoThreads == {t1, t2}
TwoChunks == {c1, c2}
SecondUnaligned == {c2}

\* The tags of the messages that three calls can build.
ShortTags == [ad : {{}}, msg : {<<c1>>, <<c2>>, <<c1, c2>>, <<c2, c1>>}]
=============================================================================
