----------------------------- MODULE MCPageWalk -----------------------------
(* Small instances of the page-table walk. *)
EXTENDS PageWalk
=============================================================================
