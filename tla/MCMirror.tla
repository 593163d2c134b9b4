------------------------------ MODULE MCMirror ------------------------------
(* Two runs, three files and a pool of two threads.                        *)
EXTENDS Mirror, TLC

CONSTANTS r1, r2, a, b, c, v1, v2, v3

TwoRuns == {r1, r2}
ThreeArtifacts == {a, b, c}
Whole == a :> v1 @@ b :> v2 @@ c :> v3
Partial == a :> v1 @@ b :> v2 @@ c :> Missing

WholeAndPartial == {Whole, Partial}
=============================================================================
