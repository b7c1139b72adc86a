------------------------------ MODULE OrderLog ------------------------------
(***************************************************************************)
(* What a master promises about the orders its clients send it, stated     *)
(* without votes, gossip, tables or tasks: every master keeps a log of     *)
(* orders which only grows, one order at a time and at its end; an order   *)
(* is answered once, and only an accepted order enters its master's log,   *)
(* at most once.  An order may be lost after it was accepted: that is what *)
(* the program does (MasterOrders), and AckedIsStored there says where.    *)
(***************************************************************************)
EXTENDS Sequences

CONSTANTS
  Masters,      (* the master nodes                          *)
  Requests,     (* the orders clients may send               *)
  Home,         (* the master each order is sent to          *)
  Body,         (* the contents of each order                *)
  GenesisBody   (* the contents of the first block           *)

VARIABLES
  log,          (* master -> its sequence of orders          *)
  fate          (* order  -> how far it got                  *)

Fates == {"new", "open", "accepted", "refused", "stored", "lost"}

Init ==
  /\ log  = [m \in Masters |-> <<GenesisBody>>]
  /\ fate = [r \in Requests |-> "new"]

Move(r, from, to) ==
  /\ fate[r] = from
  /\ fate' = [fate EXCEPT ![r] = to]

Submit(r) == Move(r, "new", "open") /\ UNCHANGED log

Answer(r) ==
  /\ Move(r, "open", "accepted") \/ Move(r, "open", "refused")
  /\ UNCHANGED log

Store(r) ==
  /\ Move(r, "accepted", "stored")
  /\ log' = [log EXCEPT ![Home[r]] = Append(@, Body[r])]

(* A write that fails loses one order, a crash all that a master had open. *)
Lose(S) ==
  /\ \A r \in S : fate[r] \in {"open", "accepted"}
  /\ fate' = [r \in Requests |-> IF r \in S THEN "lost" ELSE fate[r]]
  /\ UNCHANGED log

(* A master also stores the orders of other masters it voted for.          *)
Replicate(m, r) ==
  /\ fate[r] # "new"
  /\ log' = [log EXCEPT ![m] = Append(@, Body[r])]
  /\ UNCHANGED fate

Next ==
  \/ \E r \in Requests : Submit(r) \/ Answer(r) \/ Store(r)
  \/ \E S \in SUBSET Requests : Lose(S)
  \/ \E m \in Masters, r \in Requests : Replicate(m, r)

Spec == Init /\ [][Next]_<<log, fate>>
=============================================================================
