--------------------------- MODULE MCMasterOrders ---------------------------
(***************************************************************************)
(* Instances of MasterOrders for TLC.  Requests are natural numbers; where *)
(* a request goes and what it contains is fixed per instance.              *)
(***************************************************************************)
EXTENDS MasterOrders

CONSTANTS m1, m2, m3, a, b, g

(* Three orders to one master, two of them equal.                          *)
OneHome == [r \in 1 .. 3 |-> m1]
TwoAlike == [r \in 1 .. 3 |-> IF r = 3 THEN b ELSE a]

(* Two different orders to one master.                                     *)
TwoHere == [r \in 1 .. 2 |-> m1]

Different == [r \in 1 .. 2 |-> IF r = 1 THEN a ELSE b]

(* A single order.                                                         *)
FirstHome == [r \in {1} |-> m1]
Single == [r \in {1} |-> a]
=============================================================================
