--------------------------- MODULE MCNoiseChannel ---------------------------
(***************************************************************************)
(* An instance for TLC: the dialer writes three bytes, the listener one.   *)
(* Of the ways to configure the ends, every pattern, and each deviation once. *)
(***************************************************************************)
EXTENDS NoiseChannel

Few == [p \in Sides |-> IF p = "dialer" THEN 3 ELSE 1]

Neither == [p \in Sides |-> FALSE]
Both    == [p \in Sides |-> TRUE]
Only(q) == [p \in Sides |-> p = q]

Plain(pattern) ==
    [pattern |-> pattern, expected |-> IF pattern = "IK" THEN "listener" ELSE Nobody,
     old |-> Neither, lenient |-> FALSE,
     check |-> [p \in Sides |-> Nobody], rows |-> [p \in Sides |-> {"nodes"}]]

OneDeviation ==
    {Plain("IK"), [Plain("XX") EXCEPT !.check = [p \in Sides |-> "nodes"]],
     [Plain("XX") EXCEPT !.old = Only("dialer")], [Plain("IX") EXCEPT !.old = Only("listener")],
     [Plain("IX") EXCEPT !.old = Both, !.lenient = TRUE],
     [Plain("XX") EXCEPT !.check["listener"] = "users"],
     [Plain("IX") EXCEPT !.check["dialer"] = "nodes", !.rows["listener"] = {"users"}],
     [Plain("IK") EXCEPT !.expected = "stranger"]}
=============================================================================
