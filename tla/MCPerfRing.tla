----------------------------- MODULE MCPerfRing -----------------------------
(* The configurations give PerfRing a buffer of a few bytes.              *)
EXTENDS PerfRing
=============================================================================
