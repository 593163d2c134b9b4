----------------------------- MODULE MCDownload -----------------------------
(* Two and three processes that want one file; two attempts instead of 8.  *)
EXTENDS Download, TLC

CONSTANTS p1, p2, p3

TwoProcs == {p1, p2}
ThreeProcs == {p1, p2, p3}

AnyContent == Contents
=============================================================================
