---------------------------- MODULE MCSwarmLoop ----------------------------
(***************************************************************************)
(* An instance for TLC: a task of each kind, and two ballots of others.    *)
(***************************************************************************)
EXTENDS SwarmLoop

CONSTANTS o1, v1, v2, u1, j1
=============================================================================
