--------------------------- MODULE MCClientSession ---------------------------
(***************************************************************************)
(* An instance of ClientSession for TLC.                                   *)
(***************************************************************************)
EXTENDS ClientSession

(* The last block is signed by a user the one before it added.             *)
LateUser ==
  [b \in 0 .. MaxHeight |->
     IF b = 0 THEN {} ELSE IF b = MaxHeight THEN {0, b - 1} ELSE {0}]

(* Two reports of one second and two of the next; the node of the last is  *)
(* added later.                                                            *)
TwoSeconds == <<1, 1, 2, 2>>
SecondNode == <<0, 0, 0, 1>>
=============================================================================
