---------------------------- MODULE MCClientSync ----------------------------
(***************************************************************************)
(* Instances of ClientSync for TLC.                                        *)
(***************************************************************************)
EXTENDS ClientSync

(* Every block is signed by a user the first block added.                  *)
FirstUser == [b \in 0 .. MaxHeight |-> IF b = 0 THEN {} ELSE {0}]
=============================================================================
