---------------------------- MODULE MCHookSites ----------------------------
(***************************************************************************)
(* Instances of HookSites: two threads of one process with one analyzer,   *)
(* and two threads of which one loads BPF programs, with an analyzer that  *)
(* may die and a second one.                                               *)
(***************************************************************************)
EXTENDS HookSites, TLC

CONSTANTS t1, t2, a1, a2

OneProcess == [t \in Task |-> 1]

OneCall    == [t \in Task |-> 1]
TwoAndOne  == [t \in Task |-> IF t = t1 THEN 2 ELSE 1]

(* The analyzers are alike. *)
AnalyzerSymmetry == Permutations(Analyzer)
=============================================================================
