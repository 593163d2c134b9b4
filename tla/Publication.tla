----------------------------- MODULE Publication -----------------------------
(***************************************************************************)
(* What a release promises to its users: nothing is visible under the tag, *)
(* and then one complete and consistent set of distributions is, for good. *)
(***************************************************************************)
CONSTANTS
    Bundles,        \* the sets of distributions that may be released
    Unpublished

VARIABLE visible    \* what a user of the tag can download

Init == visible = Unpublished

Publish == visible = Unpublished /\ visible' \in Bundles

Spec == Init /\ [][Publish]_visible
=============================================================================
