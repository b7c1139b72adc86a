----------------------------- MODULE MCNodeSync -----------------------------
(***************************************************************************)
(* Instances for TLC: one node, and requests for its statistics and for    *)
(* the master's own.                                                       *)
(***************************************************************************)
EXTENDS NodeSync

CONSTANTS n1, m, default, fast

Mixed  == [s \in Stats |-> IF s = 3 THEN m ELSE n1]
=============================================================================
