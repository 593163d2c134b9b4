----------------------------- MODULE MCRelease -----------------------------
(* Two runs of the workflow, two distributions and at most one retry.      *)
EXTENDS Release, TLC

CONSTANTS r1, r2, a, b, v1, v2, w1, w2

TwoRuns == {r1, r2}
TwoArtifacts == {a, b}

FirstBuild == a :> v1 @@ b :> v2
SecondBuild == a :> w1 @@ b :> w2

PartialBuild == a :> w1 @@ b :> Missing

TwoBuilds == {FirstBuild, SecondBuild}
ThreeBuilds == TwoBuilds \cup {PartialBuild}
=============================================================================
