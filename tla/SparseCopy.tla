----------------------------- MODULE SparseCopy -----------------------------
(***************************************************************************)
(* What a walk promises: the present pages of a mapping are shipped in     *)
(* address order, each at most once, in runs of neighbours, and then the   *)
(* transfer is closed for good.  A run may be lost and the transfer given  *)
(* up early, but never silently: giving up is visible to the caller.       *)
(***************************************************************************)
EXTENDS Integers

VARIABLES
  present,   (* the pages of the mapping that have content               *)
  shipped,   (* pages that have reached the socket                       *)
  lost,      (* pages of runs that could not be shipped                  *)
  closed,    (* no page will follow                                      *)
  gaveUp     (* the caller will be told that pages are missing           *)

vars == <<present, shipped, lost, closed, gaveUp>>

Init ==
  /\ shipped = {}
  /\ lost = {}
  /\ closed = FALSE
  /\ gaveUp = FALSE

(* A run of neighbours above everything that was handled before. *)
IsNextRun(run) ==
  /\ run \subseteq present
  /\ \A p \in shipped \cup lost, q \in run : p < q
  /\ \A p, q \in run : p .. q \subseteq run

Ship(run) ==
  /\ IsNextRun(run)
  /\ shipped' = shipped \cup run
  /\ lost' = lost

Lose(run) ==
  /\ IsNextRun(run)
  /\ lost' = lost \cup run
  /\ shipped' = shipped

(* A run is handled; the transfer goes on, unless memory runs out. *)
HandleRun(run) ==
  /\ ~closed
  /\ Ship(run) \/ Lose(run)
  /\ gaveUp' \in {gaveUp, TRUE}
  /\ UNCHANGED <<present, closed>>

(* The last run is handled and the transfer closed. *)
Close(run) ==
  /\ ~closed
  /\ Ship(run) \/ Lose(run)
  /\ gaveUp \/ shipped' \cup lost' = present
  /\ closed' = TRUE
  /\ UNCHANGED <<present, gaveUp>>

Next == \E run \in SUBSET present : HandleRun(run) \/ Close(run)

Spec == Init /\ [][Next]_vars
=============================================================================
