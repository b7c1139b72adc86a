---------------------------- MODULE MCOrderRules ----------------------------
(***************************************************************************)
(* Requests for TLC: what the functions of nyumt-client-core/src/order.rs  *)
(* build, one order each, and one request of two orders.                   *)
(***************************************************************************)
EXTENDS OrderRules

CONSTANTS root, ann, m0, default, fast

MCKeys    == {root, ann, m0}
MCConfigs == {default, fast}

MCMenu == {<<AddUser(ann, {"Monitor"})>>,
           <<AddUser(ann, {"Monitor"}), AddUser(ann, {"Root"})>>,
           <<[AddUser(ann, {"Monitor"}) EXCEPT !.long = TRUE]>>,
           <<EditUser(ann, {"Root", "Monitor"})>>,
           <<RemoveUser(ann)>>,
           <<AddNode(ann, FALSE)>>,
           <<RemoveNode(m0, TRUE)>>,
           <<EditNode(m0, TRUE)>>,
           <<ChangeNodeConfig(m0, fast)>>,
           <<SetConfig(fast)>>,
           <<RemoveConfig(fast)>>,
           <<Plain("UpdatePublicKey", root)>>,
           <<Plain("UpdateVoteWeight", m0)>>}
=============================================================================
