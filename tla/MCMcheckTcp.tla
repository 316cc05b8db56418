---------------------------- MODULE MCMcheckTcp ----------------------------
(***************************************************************************)
(* Instances of McheckTcp: two threads of the target process, a task of    *)
(* another process, and small mappings of every shape that the walk tells  *)
(* apart.                                                                  *)
(***************************************************************************)
EXTENDS McheckTcp

CONSTANTS t1, t2, b

MCCall == Task \X (1 .. MaxCalls)

(* t1 and t2 are threads of one process, b is another process. *)
OneProcess   == [t \in Task |-> IF t = b THEN 2 ELSE 1]

(* Every task is a process of its own. *)
AllProcesses == [t \in Task |-> t]

(* Nothing present, one run to the end, one run before the end, two runs. *)
Shapes == {[len |-> 2, present |-> {}], [len |-> 2, present |-> {0, 1}],
           [len |-> 3, present |-> {0, 1}], [len |-> 3, present |-> {0, 2}]}

(* Short mappings for the runs with many interleavings or faults. *)
TwoShapes == {[len |-> 2, present |-> {1}], [len |-> 2, present |-> {0}]}

(* Runs of several pages, which a failing kvrealloc splits. *)
LongRuns == {[len |-> 3, present |-> {0, 1, 2}], [len |-> 3, present |-> {0, 1}]}
=============================================================================
