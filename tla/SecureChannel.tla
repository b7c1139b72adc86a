--------------------------- MODULE SecureChannel ---------------------------
(***************************************************************************)
(* What an upgraded connection promises its two ends: nothing passes       *)
(* before an end knows whom it talks to, and then each end reads what the  *)
(* other wrote, from the first byte, in order and without gaps.            *)
(***************************************************************************)
EXTENDS Sequences, SequencesExt

CONSTANTS Sides, Nobody

VARIABLES peer,      \* whom each end knows the other to be
          written,   \* the bytes it has accepted from its application
          read       \* the bytes it has handed to its application

vars == <<peer, written, read>>

Other(p) == CHOOSE q \in Sides : q # p

Init ==
    /\ peer = [p \in Sides |-> Nobody]
    /\ written = [p \in Sides |-> <<>>]
    /\ read = [p \in Sides |-> <<>>]

Establish(p) ==
    /\ peer[p] = Nobody
    /\ peer' = [peer EXCEPT ![p] = Other(p)]
    /\ UNCHANGED <<written, read>>

Write(p) ==
    /\ peer[p] # Nobody
    /\ IsStrictPrefix(written[p], written'[p])
    /\ written'[Other(p)] = written[Other(p)]
    /\ UNCHANGED <<peer, read>>

Read(p) ==
    /\ peer[p] # Nobody
    /\ IsStrictPrefix(read[p], read'[p]) /\ IsPrefix(read'[p], written[Other(p)])
    /\ read'[Other(p)] = read[Other(p)]
    /\ UNCHANGED <<peer, written>>

Next == \E p \in Sides : Establish(p) \/ Write(p) \/ Read(p)

Spec == Init /\ [][Next]_vars
=============================================================================
