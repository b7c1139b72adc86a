-------------------------- MODULE ClientSync_proofs --------------------------
(***************************************************************************)
(* Proofs about ClientSync, for any chain, number of sessions, batches and *)
(* any blocks that need others.                                            *)
(*                                                                         *)
(* What the threads of a client know of a block they are about to write    *)
(* (Staged, OneWriter) makes the tables a valid history without doubles.   *)
(* That last_height stays behind the blocks stored needs a count: in every *)
(* session it started from some stored block, base, and has since grown by *)
(* one for each block above base that the session stored and counted; the  *)
(* blocks it stored and has yet to count are above base as well (Ahead).   *)
(***************************************************************************)
EXTENDS ClientSync, FiniteSetTheorems, WellFoundedInduction, TLAPS

(* Nothing is sent or worked on in a session before it was opened.         *)
Begun ==
  /\ \A s \in links : conn[s] # "none"
  /\ \A b \in net : conn[b.on] # "none" /\ b.blocks # <<>>
  /\ \A t \in tasks : conn[t.on] # "none" /\ t.blocks # <<>>

(* A handler's cursor follows its stream row by row.                       *)
InStep ==
  \A s \in Sessions : handler[s].pc = "stream" => handler[s].row = handler[s].cursor + 1

(* What a thread has found out about its block still holds.                *)
Staged ==
  \A t \in tasks : LET b == Head(t.blocks) IN
    /\ t.step \in {"apply", "count"} => b \in stored
    /\ t.step = "apply" => b \notin Applied
    /\ t.step \in {"store", "apply"} => Needs[b] \subseteq Applied

(* The thread has stored its block and not counted it.                     *)
Writes(t) == t.step \in {"apply", "count"}

OneWriter ==
  \A t, u \in tasks : Writes(t) /\ Writes(u) /\ Head(t.blocks) = Head(u.blocks) => t = u

Uncounted(s) == {Head(t.blocks) : t \in {u \in tasks : u.on = s /\ Writes(u)}}
Above(b) == {x \in stored : x > b}

(* The session's last_height started from this block, or from none.        *)
From(s, base) ==
  /\ base = -1 \/ base \in stored
  /\ base <= count[s]
  /\ \A t \in tasks : t.on = s /\ t.step \in {"verify", "store"} => base <= Head(t.blocks)
  /\ count[s] + Cardinality(Uncounted(s)) <= base + Cardinality(Above(base))

Ahead == \A s \in Sessions : \E base \in -1 .. MaxHeight : From(s, base)

SInv ==
  /\ TypeOK /\ Begun /\ InStep
  /\ OneVoice
  /\ Staged /\ OneWriter /\ Ahead
  /\ AppliedOnce /\ AppliedValidly

-----------------------------------------------------------------------------
(* Sets of blocks and their cardinalities.                                 *)

LEMMA BlocksFinite ==
  ASSUME NEW S \in SUBSET Blocks
  PROVE  IsFiniteSet(S) /\ Cardinality(S) \in Nat
<1>1. IsFiniteSet(Blocks)
  BY SyncAssumption, FS_Interval DEF Blocks
<1>2. IsFiniteSet(S)
  BY <1>1, FS_Subset
<1> QED
  BY <1>2, FS_CardinalityType

(* A set of blocks has a highest one.                                      *)
LEMMA MaxIs ==
  ASSUME NEW S \in SUBSET Blocks, S # {}
  PROVE  Max(S) \in S /\ \A b \in S : b <= Max(S)
<1> DEFINE Depths == {n \in Nat : MaxHeight - n \in S}
<1>1. Depths # {}
  <2>1. PICK b \in S : TRUE
    OBVIOUS
  <2>2. MaxHeight - b \in Nat /\ MaxHeight - (MaxHeight - b) = b
    BY SyncAssumption DEF Blocks
  <2> QED
    BY <2>1, <2>2
<1>2. PICK d \in Depths : \A n \in Depths : <<n, d>> \notin OpToRel(<, Nat)
  BY <1>1, WFMin, NatLessThanWellFounded, Zenon
<1>3. \A n \in Depths : d <= n
  <2>1. \A n \in Depths : ~(n < d)
    BY <1>2, Zenon DEF OpToRel
  <2> QED
    BY <2>1
<1>4. ASSUME NEW b \in S PROVE b <= MaxHeight - d
  <2>1. MaxHeight - b \in Nat /\ MaxHeight - (MaxHeight - b) = b
    BY SyncAssumption DEF Blocks
  <2>2. MaxHeight - b \in Depths
    BY <2>1
  <2>3. d <= MaxHeight - b
    BY <1>3, <2>2
  <2>4. b \in Int /\ d \in Int /\ MaxHeight \in Int
    BY SyncAssumption DEF Blocks
  <2> HIDE DEF Depths
  <2> QED
    BY <2>3, <2>4
<1>5. \E m \in S : \A b \in S : m >= b
  BY <1>4, SyncAssumption DEF Blocks
<1>6. Max(S) \in S /\ \A b \in S : Max(S) >= b
  BY <1>5 DEF Max
<1> QED
  BY <1>6 DEF Blocks

LEMMA HighestIs ==
  ASSUME stored \subseteq Blocks
  PROVE  /\ Highest \in -1 .. MaxHeight
         /\ Highest = -1 \/ Highest \in stored
         /\ \A b \in stored : b <= Highest
<1>1. CASE stored = {}
  BY <1>1, SyncAssumption DEF Highest
<1>2. CASE stored # {}
  <2>1. Max(stored) \in stored /\ \A b \in stored : b <= Max(stored)
    BY <1>2, MaxIs
  <2>2. Highest = Max(stored)
    BY <1>2 DEF Highest
  <2>3. Max(stored) \in 0 .. MaxHeight
    BY <2>1 DEF Blocks
  <2>4. Highest \in -1 .. MaxHeight
    BY <2>2, <2>3, SyncAssumption
  <2> QED
    BY <2>1, <2>2, <2>4
<1> QED
  BY <1>1, <1>2

LEMMA AboveFinite ==
  ASSUME stored \subseteq Blocks, NEW base \in Int
  PROVE  IsFiniteSet(Above(base)) /\ Cardinality(Above(base)) \in Nat
  BY BlocksFinite DEF Above

LEMMA UncountedFinite ==
  ASSUME TypeOK, Begun, NEW s \in Sessions
  PROVE  /\ Uncounted(s) \subseteq Blocks
         /\ IsFiniteSet(Uncounted(s)) /\ Cardinality(Uncounted(s)) \in Nat
<1>1. \A t \in tasks : Head(t.blocks) \in Blocks
  BY DEF TypeOK, Begun, Works
<1>2. Uncounted(s) \subseteq Blocks
  BY <1>1 DEF Uncounted
<1> QED
  BY <1>2, BlocksFinite

(* However much is left to count, it stays behind the highest block.       *)
LEMMA FromBound ==
  ASSUME TypeOK, Begun, NEW s \in Sessions, NEW base \in -1 .. MaxHeight, From(s, base)
  PROVE  count[s] + Cardinality(Uncounted(s)) <= Highest
<1>1. /\ Highest \in -1 .. MaxHeight
      /\ \A b \in stored : b <= Highest
  BY HighestIs DEF TypeOK
<1>2. base <= Highest
  BY <1>1, SyncAssumption DEF From
<1>3. Above(base) \subseteq (base + 1) .. Highest
  <2>1. \A b \in stored : b \in Nat
    BY DEF TypeOK, Blocks
  <2>2. \A b \in stored : b > base => b \in (base + 1) .. Highest
    BY <1>1, <2>1
  <2> QED
    BY <2>2 DEF Above
<1>4. /\ IsFiniteSet((base + 1) .. Highest)
      /\ Cardinality((base + 1) .. Highest) <= Highest - base
  <2>1. base + 1 \in Int /\ Highest \in Int
    BY <1>1
  <2>2. /\ IsFiniteSet((base + 1) .. Highest)
        /\ Cardinality((base + 1) .. Highest)
             = IF base + 1 > Highest THEN 0 ELSE Highest - (base + 1) + 1
    BY <2>1, FS_Interval
  <2> QED
    BY <1>2, <2>1, <2>2
<1>5. Cardinality(Above(base)) <= Cardinality((base + 1) .. Highest)
  BY <1>3, <1>4, FS_Subset
<1>6. /\ Cardinality(Above(base)) \in Nat
      /\ Cardinality(Uncounted(s)) \in Nat
      /\ Cardinality((base + 1) .. Highest) \in Nat
  BY <1>4, AboveFinite, UncountedFinite, FS_CardinalityType DEF TypeOK
<1> QED
  BY <1>1, <1>4, <1>5, <1>6 DEF From, TypeOK

LEMMA AheadBounds ==
  ASSUME TypeOK, Begun, Ahead
  PROVE  NewestAccepted
<1> SUFFICES ASSUME NEW s \in Sessions PROVE count[s] <= Highest
  BY DEF NewestAccepted
<1>1. PICK base \in -1 .. MaxHeight : From(s, base)
  BY DEF Ahead
<1>2. count[s] + Cardinality(Uncounted(s)) <= Highest
  BY <1>1, FromBound
<1> QED
  BY <1>2, UncountedFinite, HighestIs DEF TypeOK

-----------------------------------------------------------------------------
(* Steps of the client's threads.                                          *)

(* A session's count goes on from the same block if the session counts     *)
(* nothing and has nothing more to count.                                  *)
LEMMA FromKept ==
  ASSUME TypeOK, TypeOK', Begun, NEW s \in Sessions, NEW base \in -1 .. MaxHeight, From(s, base),
         count'[s] = count[s], stored \subseteq stored',
         Uncounted(s)' \subseteq Uncounted(s),
         \A t \in tasks' : t.on = s /\ t.step \in {"verify", "store"} => base <= Head(t.blocks)
  PROVE  From(s, base)'
<1>1. Cardinality(Uncounted(s)') <= Cardinality(Uncounted(s))
  BY UncountedFinite, FS_Subset
<1>2. /\ Cardinality(Uncounted(s)) \in Nat
      /\ Cardinality(Uncounted(s)') \in Nat
  <2>1. Uncounted(s)' \subseteq Blocks
    BY UncountedFinite
  <2> QED
    BY <2>1, UncountedFinite, BlocksFinite
<1>3. Cardinality(Above(base)) <= Cardinality(Above(base)')
  <2>1. Above(base) \subseteq Above(base)'
    BY DEF Above
  <2>2. Above(base)' \subseteq Blocks
    BY DEF Above, TypeOK
  <2>3. IsFiniteSet(Above(base)')
    BY <2>2, BlocksFinite
  <2> QED
    BY <2>1, <2>3, FS_Subset
<1>4. Cardinality(Above(base)) \in Nat /\ Cardinality(Above(base)') \in Nat
  <2>1. Above(base) \subseteq Blocks /\ Above(base)' \subseteq Blocks
    BY DEF Above, TypeOK
  <2> QED
    BY <2>1, BlocksFinite
<1>5. count'[s] + Cardinality(Uncounted(s)') <= base + Cardinality(Above(base)')
  <2>1. count[s] + Cardinality(Uncounted(s)) <= base + Cardinality(Above(base))
    BY DEF From
  <2>2. count[s] \in Int
    BY DEF TypeOK
  <2> QED
    BY <1>1, <1>2, <1>3, <1>4, <2>1, <2>2
<1> QED
  BY <1>5 DEF From

(* A thread that has not stored its block, and has checked it.             *)
Harmless(u) ==
  /\ u \in Works /\ u.blocks # <<>> /\ ~Writes(u)
  /\ u.step = "store" => Needs[Head(u.blocks)] \subseteq Applied
  /\ u.step \in {"verify", "store"} =>
       \A base \in -1 .. MaxHeight : From(u.on, base) => base <= Head(u.blocks)

LEMMA QuietKeeps ==
  ASSUME SInv, TypeOK', UNCHANGED <<count, stored, applied>>,
         \A u \in tasks' : u \in tasks \/ Harmless(u)
  PROVE  Staged' /\ OneWriter' /\ Ahead' /\ AppliedOnce' /\ AppliedValidly'
<1>1. Applied' = Applied
  BY DEF Applied
<1>2. \A u \in tasks' : Writes(u) => u \in tasks
  BY DEF Harmless
<1>3. Staged'
  BY <1>1 DEF SInv, Staged, Harmless, Writes
<1>4. OneWriter'
  BY <1>2 DEF SInv, OneWriter
<1>5. ASSUME NEW s \in Sessions PROVE \E base \in -1 .. MaxHeight : From(s, base)'
  <2>1. PICK base \in -1 .. MaxHeight : From(s, base)
    BY DEF SInv, Ahead
  <2>2. Uncounted(s)' \subseteq Uncounted(s)
    BY <1>2 DEF Uncounted
  <2>3. \A t \in tasks' : t.on = s /\ t.step \in {"verify", "store"} => base <= Head(t.blocks)
    BY <2>1 DEF Harmless, From
  <2>4. From(s, base)'
    BY <2>1, <2>2, <2>3, FromKept DEF SInv
  <2> QED
    BY <2>4
<1>6. Ahead'
  BY <1>5 DEF Ahead
<1>7. AppliedOnce' /\ AppliedValidly'
  BY DEF SInv, AppliedOnce, AppliedValidly
<1> QED
  BY <1>3, <1>4, <1>6, <1>7

LEMMA TailNotEmpty ==
  ASSUME NEW S, NEW q \in Seq(S), q # <<>>, Len(q) # 1
  PROVE  Tail(q) \in Seq(S) /\ Tail(q) # <<>>
<1>1. Len(q) \in Nat /\ Len(q) > 0
  OBVIOUS
<1>2. Tail(q) \in Seq(S) /\ Len(Tail(q)) = Len(q) - 1
  BY <1>1
<1>3. Len(Tail(q)) # 0
  BY <1>1, <1>2
<1>4. ASSUME Tail(q) = <<>> PROVE FALSE
  <2>1. Len(Tail(q)) = Len(<<>>)
    BY <1>4
  <2> QED
    BY <1>3, <2>1
<1> QED
  BY <1>2, <1>4

(* What a thread does next with its batch is harmless.                     *)
LEMMA RestIs ==
  ASSUME NEW t \in Works, t.blocks # <<>>, NEW u \in Rest(t)
  PROVE  /\ u \in Works /\ u.blocks # <<>>
         /\ u.step = "check" /\ u.on = t.on
<1>1. Len(t.blocks) # 1 /\ u = [t EXCEPT !.blocks = Tail(@), !.step = "check"]
  BY DEF Rest
<1>2. u = [on |-> t.on, by |-> t.by, blocks |-> Tail(t.blocks), step |-> "check"]
  BY <1>1 DEF Works
<1>3. t.blocks \in Seq(Blocks)
  BY DEF Works
<1>4. Tail(t.blocks) \in Seq(Blocks) /\ Tail(t.blocks) # <<>>
  BY <1>1, <1>3, TailNotEmpty
<1> QED
  BY <1>2, <1>4 DEF Works

LEMMA GoesIs ==
  ASSUME NEW t \in Works, NEW step \in {"check", "verify", "store", "apply", "count"}
  PROVE  LET u == [t EXCEPT !.step = step]
         IN  /\ u \in Works /\ u.blocks = t.blocks
             /\ u.on = t.on /\ u.step = step
  BY DEF Works

(* A connection that was opened stays so.                                  *)
ConnKept ==
  /\ conn' \in [Sessions -> {"none", "open", "closing", "closed"}]
  /\ \A s \in Sessions : conn[s] # "none" => conn'[s] # "none"

LEMMA FailIs ==
  ASSUME SInv, NEW t \in tasks, Fail(t)
  PROVE  /\ UNCHANGED <<count, stored, applied>>
         /\ ConnKept
         /\ \A u \in tasks' : u \in tasks \/ (u.on = t.on /\ Harmless(u))
<1>1. t \in Works /\ t.blocks # <<>>
  BY DEF SInv, TypeOK, Begun
<1>2. tasks' \subseteq tasks \cup Rest(t)
  BY DEF Fail, Becomes
<1>3. \A u \in Rest(t) : u.on = t.on /\ Harmless(u)
  BY <1>1, RestIs DEF Harmless, Writes
<1>4. ConnKept
  BY DEF SInv, TypeOK, Fail, ConnKept
<1> QED
  BY <1>2, <1>3, <1>4 DEF Fail

LEMMA CheckIs ==
  ASSUME SInv, NEW t \in tasks, Check(t) \/ Verify(t)
  PROVE  /\ UNCHANGED <<count, stored, applied>>
         /\ ConnKept
         /\ \A u \in tasks' : u \in tasks \/ (u.on = t.on /\ Harmless(u))
<1>1. t \in Works /\ t.blocks # <<>>
  BY DEF SInv, TypeOK, Begun
<1>2. Head(t.blocks) \in Blocks /\ t.on \in Sessions
  BY <1>1 DEF Works
<1>3. CASE Fail(t)
  BY <1>3, FailIs
<1>4. ASSUME Goes(t, "verify"), count[t.on] <= Head(t.blocks), conn' = conn,
             UNCHANGED <<count, stored, applied>>
      PROVE  /\ ConnKept
             /\ \A u \in tasks' : u \in tasks \/ (u.on = t.on /\ Harmless(u))
  <2> DEFINE v == [t EXCEPT !.step = "verify"]
  <2>1. v \in Works /\ v.blocks = t.blocks /\ v.on = t.on /\ v.step = "verify"
    BY <1>1, GoesIs
  <2>2. tasks' \subseteq tasks \cup {v}
    BY <1>4 DEF Goes, Becomes
  <2> HIDE DEF v
  <2>3. \A base \in -1 .. MaxHeight : From(t.on, base) => base <= Head(t.blocks)
    <3>1. Head(t.blocks) \in Int /\ count[t.on] \in Int
      BY <1>2 DEF SInv, TypeOK, Blocks
    <3> QED
      BY <1>4, <3>1, SyncAssumption DEF From
  <2>4. Harmless(v)
    BY <1>1, <2>1, <2>3 DEF Harmless, Writes
  <2> QED
    BY <1>4, <2>1, <2>2, <2>4 DEF ConnKept, SInv, TypeOK
<1>5. ASSUME Goes(t, "store"), Needs[Head(t.blocks)] \subseteq Applied, conn' = conn,
             UNCHANGED <<count, stored, applied>>,
             \A base \in -1 .. MaxHeight : From(t.on, base) => base <= Head(t.blocks)
      PROVE  /\ ConnKept
             /\ \A u \in tasks' : u \in tasks \/ (u.on = t.on /\ Harmless(u))
  <2> DEFINE v == [t EXCEPT !.step = "store"]
  <2>1. v \in Works /\ v.blocks = t.blocks /\ v.on = t.on /\ v.step = "store"
    BY <1>1, GoesIs
  <2>2. tasks' \subseteq tasks \cup {v}
    BY <1>5 DEF Goes, Becomes
  <2> HIDE DEF v
  <2>3. Harmless(v)
    BY <1>1, <1>5, <2>1 DEF Harmless, Writes
  <2> QED
    BY <1>5, <2>1, <2>2, <2>3 DEF ConnKept, SInv, TypeOK
<1>6. CASE Check(t) /\ ~Fail(t)
  <2>1. /\ count[t.on] <= Head(t.blocks) /\ conn' = conn
        /\ Goes(t, IF Head(t.blocks) # 0 THEN "verify" ELSE "store")
        /\ UNCHANGED <<count, stored, applied>>
    BY <1>6 DEF Check
  <2>2. CASE Head(t.blocks) # 0
    <3>1. Goes(t, "verify")
      BY <2>1, <2>2
    <3> QED
      BY <1>4, <2>1, <3>1
  <2>3. CASE Head(t.blocks) = 0
    <3>1. Goes(t, "store")
      BY <2>1, <2>3
    <3>2. Needs[Head(t.blocks)] \subseteq Applied
      <4>1. \A n \in Needs[0] : n \in Blocks /\ n < 0
        BY <1>2, <2>3, SyncAssumption
      <4> QED
        BY <2>3, <4>1 DEF Blocks
    <3>3. \A base \in -1 .. MaxHeight : From(t.on, base) => base <= Head(t.blocks)
      <4>1. Head(t.blocks) \in Int /\ count[t.on] \in Int
        BY <1>2 DEF SInv, TypeOK, Blocks
      <4> QED
        BY <2>1, <4>1, SyncAssumption DEF From
    <3> QED
      BY <1>5, <2>1, <3>1, <3>2, <3>3
  <2> QED
    BY <2>1, <2>2, <2>3
<1>7. CASE Verify(t) /\ ~Fail(t)
  <2>1. /\ t.step = "verify" /\ Needs[Head(t.blocks)] \subseteq Applied /\ conn' = conn
        /\ Goes(t, "store") /\ UNCHANGED <<count, stored, applied>>
    BY <1>7 DEF Verify, Verifies
  <2>2. \A base \in -1 .. MaxHeight : From(t.on, base) => base <= Head(t.blocks)
    BY <2>1 DEF From
  <2> QED
    BY <1>5, <2>1, <2>2
<1> QED
  BY <1>3, <1>6, <1>7

(* A thread that goes from one step to another.                            *)
LEMMA GoesTo ==
  ASSUME SInv, NEW t \in tasks, NEW step \in {"apply", "count"}, Goes(t, step)
  PROVE  \E v \in Works :
           /\ v.blocks = t.blocks /\ v.on = t.on /\ v.step = step
           /\ tasks' = (tasks \ {t}) \cup {v}
<1> DEFINE v == [t EXCEPT !.step = step]
<1>1. v \in Works /\ v.blocks = t.blocks /\ v.on = t.on /\ v.step = step
  <2>1. t \in Works /\ step \in {"check", "verify", "store", "apply", "count"}
    BY DEF SInv, TypeOK
  <2> QED
    BY <2>1, GoesIs
<1>2. tasks' = (tasks \ {t}) \cup {v}
  BY DEF Goes, Becomes
<1> QED
  BY <1>1, <1>2

(* The thread's count to come and the blocks above base grow together.     *)
LEMMA StoreKeeps ==
  ASSUME SInv, TypeOK', NEW t \in tasks, Store(t), ~Fail(t)
  PROVE  Staged' /\ OneWriter' /\ Ahead' /\ AppliedOnce' /\ AppliedValidly'
<1> DEFINE b == Head(t.blocks)
<1>1. /\ t.step = "store" /\ b \notin stored /\ stored' = stored \cup {b}
      /\ Goes(t, "apply") /\ UNCHANGED <<conn, count, applied>>
  BY DEF Store, Insertable
<1>2. PICK v \in Works :
        /\ v.blocks = t.blocks /\ v.on = t.on /\ v.step = "apply"
        /\ tasks' = (tasks \ {t}) \cup {v}
  BY <1>1, GoesTo
<1>3. b \in Blocks /\ t \in Works /\ t.on \in Sessions
  BY DEF SInv, TypeOK, Begun, Works
<1>4. Head(v.blocks) = b
  BY <1>2
<1>5. Needs[b] \subseteq Applied
  BY <1>1 DEF SInv, Staged
<1>6. b \notin Applied
  BY <1>1 DEF SInv, AppliedOnce, Applied
<1>7. Applied' = Applied
  BY <1>1 DEF Applied
<1>8. \A u \in tasks : Writes(u) => Head(u.blocks) # b
  BY <1>1 DEF SInv, Staged, Writes
<1> HIDE DEF b
<1>9. Staged'
  <2> SUFFICES ASSUME NEW u \in tasks'
               PROVE  /\ u.step \in {"apply", "count"} => Head(u.blocks) \in stored'
                      /\ u.step = "apply" => Head(u.blocks) \notin Applied'
                      /\ u.step \in {"store", "apply"} => Needs[Head(u.blocks)] \subseteq Applied'
    BY DEF Staged
  <2>1. CASE u = v
    BY <1>1, <1>2, <1>4, <1>5, <1>6, <1>7, <2>1
  <2>2. CASE u \in tasks
    BY <1>1, <1>7, <2>2 DEF SInv, Staged
  <2> QED
    BY <1>2, <2>1, <2>2
<1>10. OneWriter'
  BY <1>2, <1>4, <1>8 DEF SInv, OneWriter
<1>11. ASSUME NEW s \in Sessions, s # t.on PROVE \E base \in -1 .. MaxHeight : From(s, base)'
  <2>1. PICK base \in -1 .. MaxHeight : From(s, base)
    BY DEF SInv, Ahead
  <2>2. Uncounted(s)' \subseteq Uncounted(s)
    BY <1>2, <1>11 DEF Uncounted
  <2>3. \A u \in tasks' : u.on = s /\ u.step \in {"verify", "store"} => base <= Head(u.blocks)
    BY <1>2, <1>11, <2>1 DEF From
  <2>4. From(s, base)'
    BY <1>1, <2>1, <2>2, <2>3, FromKept DEF SInv
  <2> QED
    BY <2>4
<1>12. \E base \in -1 .. MaxHeight : From(t.on, base)'
  <2> DEFINE s == t.on
  <2>1. PICK base \in -1 .. MaxHeight : From(s, base)
    BY <1>3 DEF SInv, Ahead
  <2>2. base < b
    <3>1. base <= b
      BY <1>1, <2>1 DEF From, b
    <3>2. base # b
      BY <1>1, <1>3, <2>1 DEF From, Blocks
    <3> QED
      BY <1>3, <3>1, <3>2, SyncAssumption DEF Blocks
  <2>3. Above(base)' = Above(base) \cup {b} /\ b \notin Above(base)
    BY <1>1, <1>3, <2>2 DEF Above, Blocks
  <2>4. Cardinality(Above(base)') = Cardinality(Above(base)) + 1
    <3>1. IsFiniteSet(Above(base))
      BY AboveFinite DEF SInv, TypeOK
    <3> QED
      BY <2>3, <3>1, FS_AddElement
  <2>5. Uncounted(s)' \subseteq Uncounted(s) \cup {b}
    BY <1>2, <1>4 DEF Uncounted
  <2>6. /\ Cardinality(Uncounted(s)') <= Cardinality(Uncounted(s)) + 1
        /\ Cardinality(Uncounted(s)') \in Nat
        /\ Cardinality(Uncounted(s)) \in Nat
    <3>1. IsFiniteSet(Uncounted(s)) /\ Cardinality(Uncounted(s)) \in Nat
      BY <1>3, UncountedFinite DEF SInv
    <3>2. /\ IsFiniteSet(Uncounted(s) \cup {b})
          /\ Cardinality(Uncounted(s) \cup {b}) <= Cardinality(Uncounted(s)) + 1
      <4>1. /\ IsFiniteSet(Uncounted(s) \cup {b})
            /\ Cardinality(Uncounted(s) \cup {b})
                 = IF b \in Uncounted(s) THEN Cardinality(Uncounted(s))
                   ELSE Cardinality(Uncounted(s)) + 1
        BY <3>1, FS_AddElement
      <4> QED
        BY <3>1, <4>1
    <3>3. /\ Cardinality(Uncounted(s)') <= Cardinality(Uncounted(s) \cup {b})
          /\ IsFiniteSet(Uncounted(s)')
      BY <2>5, <3>2, FS_Subset
    <3>4. Cardinality(Uncounted(s)') \in Nat /\ Cardinality(Uncounted(s) \cup {b}) \in Nat
      BY <3>2, <3>3, FS_CardinalityType
    <3> QED
      BY <3>1, <3>2, <3>3, <3>4
  <2>7. count'[s] + Cardinality(Uncounted(s)') <= base + Cardinality(Above(base)')
    <3>1. count[s] + Cardinality(Uncounted(s)) <= base + Cardinality(Above(base))
      BY <2>1 DEF From
    <3>2. count'[s] = count[s] /\ count[s] \in Int
      BY <1>1, <1>3 DEF SInv, TypeOK
    <3>3. Cardinality(Above(base)) \in Nat
      BY AboveFinite DEF SInv, TypeOK
    <3> QED
      BY <2>4, <2>6, <3>1, <3>2, <3>3
  <2>8. \A u \in tasks' : u.on = s /\ u.step \in {"verify", "store"} => base <= Head(u.blocks)
    BY <1>2, <2>1 DEF From
  <2>9. (base = -1 \/ base \in stored') /\ base <= count'[s]
    BY <1>1, <2>1 DEF From
  <2>10. From(s, base)'
    BY <2>7, <2>8, <2>9 DEF From
  <2> QED
    BY <2>10
<1>13. Ahead'
  BY <1>11, <1>12 DEF Ahead
<1>14. AppliedOnce' /\ AppliedValidly'
  BY <1>1 DEF SInv, AppliedOnce, AppliedValidly
<1> QED
  BY <1>9, <1>10, <1>13, <1>14

(* The primary key let only this thread store its block: nobody applied it. *)
LEMMA ApplyKeeps ==
  ASSUME SInv, TypeOK', NEW t \in tasks, Apply(t)
  PROVE  Staged' /\ OneWriter' /\ Ahead' /\ AppliedOnce' /\ AppliedValidly'
<1> DEFINE b == Head(t.blocks)
           n == Len(applied)
<1>1. /\ t.step = "apply" /\ applied' = Append(applied, b)
      /\ Goes(t, "count") /\ UNCHANGED <<conn, count, stored>>
  BY DEF Apply
<1>2. PICK v \in Works :
        /\ v.blocks = t.blocks /\ v.on = t.on /\ v.step = "count"
        /\ tasks' = (tasks \ {t}) \cup {v}
  BY <1>1, GoesTo
<1>3. b \in Blocks /\ t \in Works /\ t.on \in Sessions
  BY DEF SInv, TypeOK, Begun, Works
<1>4. Head(v.blocks) = b
  BY <1>2
<1>5. b \in stored /\ b \notin Applied /\ Needs[b] \subseteq Applied
  BY <1>1 DEF SInv, Staged
<1>6. \A u \in tasks : Writes(u) /\ Head(u.blocks) = b => u = t
  BY <1>1 DEF SInv, OneWriter, Writes
<1>7. applied \in Seq(Blocks) /\ n \in Nat
  BY DEF SInv, TypeOK
<1> HIDE DEF b
<1>8. /\ DOMAIN applied = 1 .. n /\ DOMAIN applied' = 1 .. (n + 1)
      /\ \A i \in 1 .. n : applied'[i] = applied[i]
      /\ applied'[n + 1] = b
  BY <1>1, <1>3, <1>7
<1> HIDE DEF n
<1>9. \A i \in 1 .. (n + 1) : i \in 1 .. n \/ i = n + 1
  BY <1>7
<1>10. Applied' = Applied \cup {b}
  <2>1. n + 1 \in 1 .. (n + 1) /\ \A i \in 1 .. n : i \in 1 .. (n + 1)
    BY <1>7
  <2> QED
    BY <1>8, <1>9, <2>1 DEF Applied
<1>11. Staged'
  <2> SUFFICES ASSUME NEW u \in tasks'
               PROVE  /\ u.step \in {"apply", "count"} => Head(u.blocks) \in stored'
                      /\ u.step = "apply" => Head(u.blocks) \notin Applied'
                      /\ u.step \in {"store", "apply"} => Needs[Head(u.blocks)] \subseteq Applied'
    BY DEF Staged
  <2>1. CASE u = v
    BY <1>1, <1>2, <1>4, <1>5, <2>1
  <2>2. CASE u \in tasks /\ u # t
    BY <1>1, <1>6, <1>10, <2>2 DEF SInv, Staged, Writes
  <2> QED
    BY <1>2, <2>1, <2>2
<1>12. OneWriter'
  BY <1>2, <1>4, <1>6 DEF SInv, OneWriter
<1>13. ASSUME NEW s \in Sessions PROVE \E base \in -1 .. MaxHeight : From(s, base)'
  <2>1. PICK base \in -1 .. MaxHeight : From(s, base)
    BY DEF SInv, Ahead
  <2>2. Uncounted(s)' \subseteq Uncounted(s)
    BY <1>1, <1>2 DEF Uncounted, Writes
  <2>3. \A u \in tasks' : u.on = s /\ u.step \in {"verify", "store"} => base <= Head(u.blocks)
    BY <1>2, <2>1 DEF From
  <2>4. From(s, base)'
    BY <1>1, <2>1, <2>2, <2>3, FromKept DEF SInv
  <2> QED
    BY <2>4
<1>14. Ahead'
  BY <1>13 DEF Ahead
<1>15. \A i \in 1 .. n : applied[i] \in Applied
  BY <1>8 DEF Applied
<1>16. AppliedOnce'
  <2> SUFFICES ASSUME NEW i \in 1 .. (n + 1), NEW j \in 1 .. (n + 1)
               PROVE  /\ applied'[i] \in stored'
                      /\ applied'[i] = applied'[j] => i = j
    BY <1>8 DEF AppliedOnce
  <2>1. \A k \in 1 .. n : applied[k] \in stored /\ applied[k] # b
    BY <1>5, <1>8, <1>15 DEF SInv, AppliedOnce
  <2>2. \A k, l \in 1 .. n : applied[k] = applied[l] => k = l
    BY <1>8 DEF SInv, AppliedOnce
  <2> QED
    BY <1>1, <1>5, <1>8, <1>9, <2>1, <2>2
<1>17. AppliedValidly'
  <2> SUFFICES ASSUME NEW i \in 1 .. (n + 1)
               PROVE  Needs[applied'[i]] \subseteq {applied'[j] : j \in 1 .. (i - 1)}
    BY <1>8 DEF AppliedValidly
  <2>1. CASE i \in 1 .. n
    <3>1. Needs[applied[i]] \subseteq {applied[j] : j \in 1 .. (i - 1)}
      BY <1>8, <2>1 DEF SInv, AppliedValidly
    <3>2. \A j \in 1 .. (i - 1) : j \in 1 .. n
      BY <1>7, <2>1
    <3>3. {applied[j] : j \in 1 .. (i - 1)} = {applied'[j] : j \in 1 .. (i - 1)}
      BY <1>8, <3>2
    <3> QED
      BY <1>8, <2>1, <3>1, <3>3
  <2>2. CASE i = n + 1
    <3>1. i - 1 = n
      BY <1>7, <2>2
    <3>2. Applied = {applied'[j] : j \in 1 .. n}
      BY <1>8 DEF Applied
    <3> QED
      BY <1>5, <1>8, <2>2, <3>1, <3>2
  <2> QED
    BY <1>9, <2>1, <2>2
<1> QED
  BY <1>11, <1>12, <1>14, <1>16, <1>17

(* No other thread has this block to count.                                *)
LEMMA CountKeeps ==
  ASSUME SInv, TypeOK', NEW t \in tasks, Count(t)
  PROVE  Staged' /\ OneWriter' /\ Ahead' /\ AppliedOnce' /\ AppliedValidly'
<1> DEFINE b == Head(t.blocks)
<1>1. /\ t.step = "count" /\ tasks' = (tasks \ {t}) \cup Rest(t)
      /\ UNCHANGED <<conn, stored, applied>>
      /\ count' = [count EXCEPT ![t.on] = @ + 1]
  BY DEF Count, Becomes, Counted
<1>2. b \in Blocks /\ t \in Works /\ t.on \in Sessions /\ t.blocks # <<>>
  BY DEF SInv, TypeOK, Begun, Works
<1>3. \A u \in Rest(t) : u.step = "check" /\ u.on = t.on
  BY <1>2, RestIs
<1>4. \A u \in tasks : Writes(u) /\ Head(u.blocks) = b => u = t
  BY <1>1 DEF SInv, OneWriter, Writes
<1>5. \A u \in tasks' : u.step # "check" => u \in tasks /\ u # t
  BY <1>1, <1>3
<1>6. Applied' = Applied
  BY <1>1 DEF Applied
<1> HIDE DEF b
<1>7. Staged'
  BY <1>1, <1>5, <1>6 DEF SInv, Staged
<1>8. OneWriter'
  BY <1>5 DEF SInv, OneWriter, Writes
<1>9. ASSUME NEW s \in Sessions, s # t.on PROVE \E base \in -1 .. MaxHeight : From(s, base)'
  <2>1. PICK base \in -1 .. MaxHeight : From(s, base)
    BY DEF SInv, Ahead
  <2>2. Uncounted(s)' \subseteq Uncounted(s)
    BY <1>5 DEF Uncounted, Writes
  <2>3. \A u \in tasks' : u.on = s /\ u.step \in {"verify", "store"} => base <= Head(u.blocks)
    BY <1>5, <2>1 DEF From
  <2>4. count'[s] = count[s]
    BY <1>1, <1>9 DEF SInv, TypeOK
  <2>5. From(s, base)'
    BY <1>1, <2>1, <2>2, <2>3, <2>4, FromKept DEF SInv
  <2> QED
    BY <2>5
<1>10. \E base \in -1 .. MaxHeight : From(t.on, base)'
  <2> DEFINE s == t.on
  <2>1. PICK base \in -1 .. MaxHeight : From(s, base)
    BY <1>2 DEF SInv, Ahead
  <2>2. Uncounted(s)' \subseteq Uncounted(s) \ {b}
    BY <1>4, <1>5 DEF Uncounted, Writes
  <2>3. b \in Uncounted(s)
    BY <1>1 DEF Uncounted, Writes, b
  <2>4. /\ Cardinality(Uncounted(s)') + 1 <= Cardinality(Uncounted(s))
        /\ Cardinality(Uncounted(s)') \in Nat
        /\ Cardinality(Uncounted(s)) \in Nat
    <3>1. IsFiniteSet(Uncounted(s)) /\ Cardinality(Uncounted(s)) \in Nat
      BY <1>2, UncountedFinite DEF SInv
    <3>2. /\ IsFiniteSet(Uncounted(s) \ {b})
          /\ Cardinality(Uncounted(s) \ {b}) = Cardinality(Uncounted(s)) - 1
      BY <2>3, <3>1, FS_RemoveElement
    <3>3. /\ Cardinality(Uncounted(s)') <= Cardinality(Uncounted(s) \ {b})
          /\ IsFiniteSet(Uncounted(s)')
      BY <2>2, <3>2, FS_Subset
    <3>4. Cardinality(Uncounted(s)') \in Nat
      BY <3>3, FS_CardinalityType
    <3> QED
      BY <3>1, <3>2, <3>3, <3>4
  <2>5. count'[s] = count[s] + 1 /\ count[s] \in Int
    BY <1>1, <1>2 DEF SInv, TypeOK
  <2>6. Above(base)' = Above(base) /\ Cardinality(Above(base)) \in Nat
    <3>1. Above(base)' = Above(base)
      BY <1>1 DEF Above
    <3>2. stored \subseteq Blocks /\ base \in Int
      BY <2>1 DEF SInv, TypeOK
    <3> QED
      BY <3>1, <3>2, AboveFinite
  <2>7. count'[s] + Cardinality(Uncounted(s)') <= base + Cardinality(Above(base)')
    <3>1. count[s] + Cardinality(Uncounted(s)) <= base + Cardinality(Above(base))
      BY <2>1 DEF From
    <3> QED
      BY <2>4, <2>5, <2>6, <3>1
  <2>8. \A u \in tasks' : u.on = s /\ u.step \in {"verify", "store"} => base <= Head(u.blocks)
    BY <1>5, <2>1 DEF From
  <2>9. (base = -1 \/ base \in stored') /\ base <= count'[s]
    BY <1>1, <2>1, <2>5 DEF From
  <2>10. From(s, base)'
    BY <2>7, <2>8, <2>9 DEF From
  <2> QED
    BY <2>10
<1>11. Ahead'
  BY <1>9, <1>10 DEF Ahead
<1>12. AppliedOnce' /\ AppliedValidly'
  BY <1>1 DEF SInv, AppliedOnce, AppliedValidly
<1> QED
  BY <1>7, <1>8, <1>11, <1>12

(* A session begins at the highest block, and nothing is worked on in it.  *)
LEMMA OpenKeeps ==
  ASSUME SInv, TypeOK', NEW s \in Sessions, Open(s)
  PROVE  Staged' /\ OneWriter' /\ Ahead' /\ AppliedOnce' /\ AppliedValidly'
<1>1. /\ conn[s] = "none" /\ count' = [count EXCEPT ![s] = Highest]
      /\ UNCHANGED <<tasks, stored, applied>>
  BY DEF Open
<1>2. Applied' = Applied
  BY <1>1 DEF Applied
<1>3. Staged' /\ OneWriter'
  BY <1>1, <1>2 DEF SInv, Staged, OneWriter
<1>4. \A t \in tasks : t.on # s
  BY <1>1 DEF SInv, Begun
<1>5. ASSUME NEW r \in Sessions, r # s PROVE \E base \in -1 .. MaxHeight : From(r, base)'
  <2>1. PICK base \in -1 .. MaxHeight : From(r, base)
    BY DEF SInv, Ahead
  <2>2. Uncounted(r)' \subseteq Uncounted(r) /\ count'[r] = count[r]
    BY <1>1, <1>5 DEF Uncounted, SInv, TypeOK
  <2>3. \A u \in tasks' : u.on = r /\ u.step \in {"verify", "store"} => base <= Head(u.blocks)
    BY <1>1, <2>1 DEF From
  <2>4. From(r, base)'
    BY <1>1, <2>1, <2>2, <2>3, FromKept DEF SInv
  <2> QED
    BY <2>4
<1>6. \E base \in -1 .. MaxHeight : From(s, base)'
  <2>1. /\ Highest \in -1 .. MaxHeight
        /\ Highest = -1 \/ Highest \in stored
    BY HighestIs DEF SInv, TypeOK
  <2>2. PICK base \in -1 .. MaxHeight : base = Highest
    BY <2>1
  <2>3. count'[s] = base
    BY <1>1, <2>2 DEF SInv, TypeOK
  <2>4. Cardinality(Uncounted(s)') = 0
    <3>1. Uncounted(s)' = {}
      BY <1>1, <1>4 DEF Uncounted
    <3> QED
      BY <3>1, FS_EmptySet
  <2>5. Cardinality(Above(base)') \in Nat
    <3>1. Above(base)' \subseteq Blocks
      BY DEF Above, TypeOK
    <3> QED
      BY <3>1, BlocksFinite
  <2>6. count'[s] + Cardinality(Uncounted(s)') <= base + Cardinality(Above(base)')
    <3>1. base \in Int
      OBVIOUS
    <3> QED
      BY <2>3, <2>4, <2>5, <3>1
  <2>7. From(s, base)'
    <3>1. base \in Int
      OBVIOUS
    <3> QED
      BY <1>1, <1>4, <2>1, <2>2, <2>3, <2>6, <3>1 DEF From
  <2> QED
    BY <2>7
<1>7. Ahead'
  BY <1>5, <1>6 DEF Ahead
<1> QED
  BY <1>1, <1>3, <1>7 DEF SInv, AppliedOnce, AppliedValidly

-----------------------------------------------------------------------------
(* Types and order.                                                        *)

(* Only what a handler's own steps may do to it and to auth.               *)
LEMMA HandlerTypes ==
  ASSUME TypeOK, InStep, NEW s \in Sessions, Hello(s) \/ HandlerStep(s)
  PROVE  handler' \in [Sessions -> Handlers] /\ InStep'
<1> DEFINE h == handler[s]
<1>1. h \in Handlers /\ count[s] \in -1 .. MaxHeight /\ height \in Blocks
  BY DEF TypeOK
<1>0. /\ <<>> \in Seq(Blocks)
      /\ 0 \in Blocks /\ -1 \in -1 .. MaxHeight
  BY SyncAssumption DEF Blocks
<1>2. NoHandler \in Handlers /\ Gone \in Handlers
  <2>1. Gone = [pc |-> "gone", cursor |-> -1, last |-> 0, row |-> 0, end |-> 0, blocks |-> <<>>]
    BY DEF NoHandler, Gone
  <2> QED
    BY <1>0, <2>1 DEF NoHandler, Handlers
<1>3. ASSUME NEW g \in Handlers, handler' = [handler EXCEPT ![s] = g],
             g.pc = "stream" => g.row = g.cursor + 1
      PROVE  handler' \in [Sessions -> Handlers] /\ InStep'
  BY <1>3 DEF TypeOK, InStep
<1>4. CASE Hello(s)
  <2> DEFINE g == [h EXCEPT !.pc = "hello", !.cursor = count[s]]
  <2>1. handler' = [handler EXCEPT ![s] = g]
    BY <1>4 DEF Hello
  <2>2. g \in Handlers /\ g.pc = "hello"
    BY <1>1 DEF Handlers
  <2> QED
    BY <1>3, <2>1, <2>2
<1>5. CASE Register(s)
  <2> DEFINE g == [h EXCEPT !.pc = "wait"]
  <2>1. handler' = [handler EXCEPT ![s] = g]
    BY <1>5 DEF Register
  <2>2. g \in Handlers /\ g.pc = "wait"
    BY <1>1 DEF Handlers
  <2> QED
    BY <1>3, <2>1, <2>2
<1>6. CASE RegisterFails(s) \/ Stop(s)
  <2>1. Gone.pc = "gone"
    BY DEF Gone, NoHandler
  <2> QED
    BY <1>2, <1>3, <1>6, <2>1 DEF RegisterFails, Stop
<1>7. CASE Poll(s)
  <2> DEFINE g == [h EXCEPT !.pc = "found", !.last = height]
  <2>1. handler' = [handler EXCEPT ![s] = g]
    BY <1>7 DEF Poll
  <2>2. g \in Handlers /\ g.pc = "found"
    BY <1>1 DEF Handlers
  <2> QED
    BY <1>3, <2>1, <2>2
<1>8. CASE OpenStream(s)
  <2> DEFINE g == [h EXCEPT !.pc = "stream", !.row = h.cursor + 1, !.end = height, !.blocks = <<>>]
  <2>1. handler' = [handler EXCEPT ![s] = g]
    BY <1>8 DEF OpenStream
  <2>2. h.cursor \in -1 .. MaxHeight
    BY <1>1 DEF Handlers
  <2>3. h.cursor + 1 \in Nat
    BY <2>2, SyncAssumption
  <2>4. g \in Handlers /\ g.row = g.cursor + 1
    <3>1. \A e \in Seq(Blocks), i \in Nat, k \in Blocks :
            LET f == [h EXCEPT !.pc = "stream", !.row = i, !.end = k, !.blocks = e]
            IN  f \in Handlers /\ f.row = i /\ f.cursor = h.cursor
      BY <1>1 DEF Handlers
    <3> QED
      <4>1. g \in Handlers /\ g.row = h.cursor + 1 /\ g.cursor = h.cursor
        BY <1>0, <1>1, <2>3, <3>1, Zenon
      <4> QED
        BY <4>1
  <2> QED
    BY <1>3, <2>1, <2>4
<1>9. CASE TakeRow(s)
  <2>1. h.pc = "stream" /\ h.row <= h.end /\ h.row = h.cursor + 1
    BY <1>9 DEF TakeRow, InStep
  <2>2. PICK blocks \in Seq(Blocks) : Advance(s, blocks)
    <3>1. h.row \in Blocks /\ h.blocks \in Seq(Blocks)
      BY <1>1, <2>1, SyncAssumption DEF Handlers, Blocks
    <3>2. Append(h.blocks, h.row) \in Seq(Blocks) /\ <<>> \in Seq(Blocks)
      BY <3>1
    <3> QED
      BY <1>9, <3>2 DEF TakeRow
  <2> DEFINE g == [h EXCEPT !.row = @ + 1, !.cursor = @ + 1, !.blocks = blocks]
  <2>3. handler' = [handler EXCEPT ![s] = g]
    BY <2>2 DEF Advance
  <2>4. h.row + 1 \in Nat /\ h.cursor + 1 \in -1 .. MaxHeight
    BY <1>1, <2>1, SyncAssumption DEF Handlers, Blocks
  <2>5. g \in Handlers /\ g.row = g.cursor + 1
    BY <1>1, <2>1, <2>4 DEF Handlers
  <2> QED
    BY <1>3, <2>3, <2>5
<1>10. CASE EndStream(s)
  <2> DEFINE g == [NoHandler EXCEPT !.pc = "wait", !.cursor = h.cursor]
  <2>1. handler' = [handler EXCEPT ![s] = g]
    BY <1>10 DEF EndStream
  <2>2. \A f \in Handlers, c \in -1 .. MaxHeight :
          LET f2 == [f EXCEPT !.pc = "wait", !.cursor = c]
          IN  f2 \in Handlers /\ f2.pc = "wait"
    BY DEF Handlers
  <2>3. h.cursor \in -1 .. MaxHeight
    BY <1>1 DEF Handlers
  <2>4. g \in Handlers /\ g.pc = "wait"
    BY <1>2, <2>2, <2>3
  <2> QED
    BY <1>3, <2>1, <2>4
<1> QED
  BY <1>4, <1>5, <1>6, <1>7, <1>8, <1>9, <1>10 DEF HandlerStep

LEMMA TakeRowSends ==
  ASSUME TypeOK, Begun, NEW s \in Sessions, TakeRow(s)
  PROVE  /\ sent' \in [Sessions -> SUBSET Blocks]
         /\ \A b \in net' : b \in net \/ (b \in Batches /\ b.on \in links /\ b.blocks # <<>>)
<1> DEFINE h == handler[s]
           blocks == Append(h.blocks, h.row)
<1>1. h.row \in Nat /\ h.end \in Blocks /\ h.blocks \in Seq(Blocks)
  BY DEF TypeOK, Handlers
<1>2. h.row \in Blocks
  BY <1>1, SyncAssumption DEF TakeRow, Blocks
<1>3. blocks \in Seq(Blocks) /\ blocks # <<>>
  <2>1. blocks \in Seq(Blocks) /\ Len(blocks) = Len(h.blocks) + 1 /\ Len(h.blocks) \in Nat
    BY <1>1, <1>2
  <2>2. ASSUME blocks = <<>> PROVE FALSE
    <3>1. Len(blocks) = Len(<<>>)
      BY <2>2
    <3> QED
      BY <2>1, <3>1
  <2> QED
    BY <2>1, <2>2
<1>4. UNCHANGED <<net, sent>> \/ Send(s, blocks)
  BY DEF TakeRow
<1> HIDE DEF blocks
<1>5. CASE Send(s, blocks)
  <2>1. sent' \in [Sessions -> SUBSET Blocks]
    BY <1>3, <1>5 DEF Send, TypeOK
  <2>2. CASE links = {}
    BY <1>5, <2>1, <2>2 DEF Send
  <2>3. CASE links # {}
    <3>1. PICK c \in links : net' = net \cup {[on |-> c, by |-> s, blocks |-> blocks]}
      BY <1>5, <2>3 DEF Send
    <3>2. [on |-> c, by |-> s, blocks |-> blocks] \in Batches
      BY <1>3 DEF Batches, TypeOK
    <3> QED
      BY <1>3, <2>1, <3>1, <3>2
  <2> QED
    BY <2>2, <2>3
<1> QED
  BY <1>4, <1>5 DEF TypeOK

LEMMA WorkTypes ==
  ASSUME SInv, NEW t \in tasks, Work(t)
  PROVE  TypeOK' /\ Begun' /\ InStep' /\ OneVoice'
<1> DEFINE Kept ==
      /\ ConnKept
      /\ \A u \in tasks' :
           u \in tasks \/ (u.on = t.on /\ u \in Works /\ u.blocks # <<>>)
      /\ count' \in [Sessions -> -1 .. MaxHeight]
      /\ stored' \subseteq Blocks /\ applied' \in Seq(Blocks)
<1>1. t \in Works /\ t.blocks # <<>> /\ t.on \in Sessions /\ Head(t.blocks) \in Blocks
  BY DEF SInv, TypeOK, Begun, Works
<1>2. ASSUME Check(t) \/ Verify(t) \/ Fail(t) PROVE Kept
  BY <1>2, CheckIs, FailIs DEF Harmless, SInv, TypeOK
<1>3. ASSUME Store(t), ~Fail(t) PROVE Kept
  <2>1. /\ stored' = stored \cup {Head(t.blocks)}
        /\ Goes(t, "apply") /\ UNCHANGED <<conn, count, applied>>
    BY <1>3 DEF Store
  <2> QED
    BY <1>1, <2>1, GoesTo DEF ConnKept, SInv, TypeOK
<1>4. ASSUME Apply(t) PROVE Kept
  <2>1. /\ applied' = Append(applied, Head(t.blocks))
        /\ Goes(t, "count") /\ UNCHANGED <<conn, count, stored>>
    BY <1>4 DEF Apply
  <2>2. applied' \in Seq(Blocks)
    BY <1>1, <2>1 DEF SInv, TypeOK
  <2> QED
    BY <1>1, <2>1, <2>2, GoesTo DEF ConnKept, SInv, TypeOK
<1>5. ASSUME Count(t) PROVE Kept
  <2>1. /\ t.step = "count" /\ tasks' = (tasks \ {t}) \cup Rest(t)
        /\ UNCHANGED <<conn, stored, applied>>
        /\ count' = [count EXCEPT ![t.on] = @ + 1]
    BY <1>5 DEF Count, Becomes, Counted
  <2>2. count[t.on] + 1 \in -1 .. MaxHeight
    <3>1. PICK base \in -1 .. MaxHeight : From(t.on, base)
      BY <1>1 DEF SInv, Ahead
    <3>2. count[t.on] + Cardinality(Uncounted(t.on)) <= Highest
      BY <1>1, <3>1, FromBound DEF SInv
    <3>3. /\ IsFiniteSet(Uncounted(t.on)) /\ Cardinality(Uncounted(t.on)) \in Nat
      BY <1>1, UncountedFinite DEF SInv
    <3>4. Uncounted(t.on) # {}
      BY <2>1 DEF Uncounted, Writes
    <3>5. Cardinality(Uncounted(t.on)) # 0
      BY <3>3, <3>4, FS_EmptySet
    <3>6. Highest \in -1 .. MaxHeight /\ count[t.on] \in -1 .. MaxHeight
      BY <1>1, HighestIs DEF SInv, TypeOK
    <3> QED
      BY <3>2, <3>3, <3>5, <3>6, SyncAssumption
  <2>3. count' \in [Sessions -> -1 .. MaxHeight]
    BY <1>1, <2>1, <2>2 DEF SInv, TypeOK
  <2>4. \A u \in Rest(t) : u.on = t.on /\ u \in Works /\ u.blocks # <<>>
    BY <1>1, RestIs
  <2> QED
    BY <2>1, <2>3, <2>4 DEF ConnKept, SInv, TypeOK
<1>6. Kept
  BY <1>2, <1>3, <1>4, <1>5 DEF Work, DbFails
<1>7. UNCHANGED <<masterVars, net>>
  BY DEF Work
<1>8. TypeOK'
  BY <1>6, <1>7 DEF SInv, TypeOK, masterVars, ConnKept
<1>9. Begun'
  <2>1. \A s \in links \cup {b.on : b \in net} \cup {u.on : u \in tasks} : s \in Sessions
    BY DEF SInv, TypeOK, Batches, Works
  <2>2. \A s \in links' : conn'[s] # "none"
    BY <1>6, <1>7, <2>1 DEF SInv, Begun, ConnKept, masterVars
  <2>3. \A b \in net' : conn'[b.on] # "none" /\ b.blocks # <<>>
    BY <1>6, <1>7, <2>1 DEF SInv, Begun, ConnKept, masterVars
  <2>4. \A u \in tasks' : conn'[u.on] # "none" /\ u.blocks # <<>>
    BY <1>6, <1>7, <2>1 DEF SInv, Begun, ConnKept, masterVars
  <2> QED
    BY <2>2, <2>3, <2>4 DEF Begun
<1>10. InStep' /\ OneVoice'
  BY <1>7 DEF SInv, InStep, OneVoice, masterVars
<1> QED
  BY <1>8, <1>9, <1>10

(* Steps of the master and of the network.                                 *)
Elsewhere ==
  \/ AddBlock \/ Quit
  \/ \E s \in Sessions : Hello(s) \/ HandlerStep(s) \/ SeesClose(s) \/ Disconnect(s)
  \/ \E b \in net : Deliver(b)

LEMMA ElsewhereHarmless ==
  ASSUME SInv, Elsewhere
  PROVE  /\ UNCHANGED <<count, stored, applied>>
         /\ ConnKept
         /\ \A u \in tasks' : u \in tasks \/ (Harmless(u) /\ \E b \in net : u.on = b.on)
<1>1. CASE AddBlock
  BY <1>1 DEF AddBlock, clientVars, ConnKept, SInv, TypeOK
<1>2. CASE Quit
  BY <1>2 DEF Quit, ConnKept, SInv, TypeOK
<1>3. ASSUME NEW s \in Sessions, Hello(s) \/ HandlerStep(s)
      PROVE  /\ UNCHANGED <<count, stored, applied, tasks>>
             /\ ConnKept
  <2>1. CASE RegisterFails(s)
    BY <2>1 DEF RegisterFails, ConnKept, SInv, TypeOK
  <2>2. CASE ~RegisterFails(s)
    <3>1. UNCHANGED clientVars
      BY <1>3, <2>2
         DEF HandlerStep, Hello, Register, Stop, Poll, OpenStream, TakeRow, EndStream
    <3> QED
      BY <3>1 DEF clientVars, ConnKept, SInv, TypeOK
  <2> QED
    BY <2>1, <2>2
<1>4. ASSUME NEW s \in Sessions, SeesClose(s) \/ Disconnect(s)
      PROVE  /\ UNCHANGED <<count, stored, applied, tasks>>
             /\ ConnKept
  BY <1>4 DEF SeesClose, Disconnect, clientVars, ConnKept, SInv, TypeOK
<1>5. ASSUME NEW b \in net, Deliver(b)
      PROVE  /\ UNCHANGED <<count, stored, applied>>
             /\ ConnKept
             /\ \A u \in tasks' : u \in tasks \/ (Harmless(u) /\ u.on = b.on)
  <2> DEFINE v == [on |-> b.on, by |-> b.by, blocks |-> b.blocks, step |-> "check"]
  <2>1. v \in Works /\ v.blocks # <<>>
    BY DEF SInv, TypeOK, Begun, Batches, Works
  <2>2. Harmless(v)
    BY <2>1 DEF Harmless, Writes
  <2>3. tasks' \subseteq tasks \cup {v}
    BY <1>5 DEF Deliver
  <2>4. v.on = b.on
    OBVIOUS
  <2> HIDE DEF v
  <2> QED
    BY <1>5, <2>2, <2>3, <2>4 DEF Deliver, ConnKept, SInv, TypeOK
<1> QED
  BY <1>1, <1>2, <1>3, <1>4, <1>5 DEF Elsewhere

LEMMA ElsewhereTypes ==
  ASSUME SInv, Elsewhere
  PROVE  TypeOK' /\ Begun' /\ InStep' /\ OneVoice'
<1>1. /\ UNCHANGED <<count, stored, applied>>
      /\ ConnKept
      /\ \A u \in tasks' : u \in tasks \/ (Harmless(u) /\ \E b \in net : u.on = b.on)
  BY ElsewhereHarmless
<1>2. /\ height' \in Blocks
      /\ auth' \in Sessions \cup {0} /\ told' \subseteq Sessions
      /\ links' \subseteq links
  <2>1. CASE AddBlock
    <3>1. height' \in Blocks
      BY <2>1, SyncAssumption DEF AddBlock, SInv, TypeOK, Blocks
    <3> QED
      BY <2>1, <3>1 DEF AddBlock, SInv, TypeOK
  <2>2. CASE Quit \/ (\E b \in net : Deliver(b)) \/ (\E s \in Sessions : Disconnect(s))
    BY <2>2 DEF Quit, Deliver, Disconnect, masterVars, SInv, TypeOK
  <2>3. ASSUME NEW s \in Sessions, Register(s) \/ SeesClose(s)
        PROVE  /\ height' = height /\ links' \subseteq links
               /\ auth' \in Sessions \cup {0} /\ told' \subseteq Sessions
    BY <2>3 DEF Register, SeesClose, Replaced, SInv, TypeOK
  <2>4. ASSUME NEW s \in Sessions, Hello(s) \/ HandlerStep(s), ~Register(s)
        PROVE  UNCHANGED <<height, auth, told, links>>
    BY <2>4 DEF Hello, HandlerStep, RegisterFails, Stop, Poll, OpenStream, TakeRow, EndStream
  <2>5. TypeOK
    BY DEF SInv
  <2> QED
    BY <2>1, <2>2, <2>3, <2>4, <2>5 DEF Elsewhere, TypeOK
<1>3. handler' \in [Sessions -> Handlers] /\ InStep'
  <2>1. CASE \E s \in Sessions : Hello(s) \/ HandlerStep(s)
    BY <2>1, HandlerTypes DEF SInv
  <2>2. CASE ~\E s \in Sessions : Hello(s) \/ HandlerStep(s)
    <3>1. handler' = handler
      BY <2>2 DEF Elsewhere, masterVars, AddBlock, Quit, SeesClose, Disconnect, Deliver
    <3> QED
      BY <3>1 DEF SInv, TypeOK, InStep
  <2> QED
    BY <2>1, <2>2
<1>4. /\ sent' \in [Sessions -> SUBSET Blocks]
      /\ \A b \in net' : b \in net \/ (b \in Batches /\ b.on \in links /\ b.blocks # <<>>)
  <2>1. CASE \E s \in Sessions : TakeRow(s)
    BY <2>1, TakeRowSends DEF SInv
  <2>2. CASE ~\E s \in Sessions : TakeRow(s)
    <3>1. sent' = sent /\ net' \subseteq net
      BY <2>2
         DEF Elsewhere, masterVars, AddBlock, Quit, Hello, HandlerStep, Register, RegisterFails,
             Stop, Poll, OpenStream, EndStream, SeesClose, Disconnect, Deliver
    <3> QED
      BY <3>1 DEF SInv, TypeOK
  <2> QED
    BY <2>1, <2>2
<1>5. TypeOK'
  BY <1>1, <1>2, <1>3, <1>4 DEF SInv, TypeOK, ConnKept, Harmless
<1>6. Begun'
  <2>1. \A s \in links \cup {b.on : b \in net} \cup {u.on : u \in tasks} : s \in Sessions
    BY DEF SInv, TypeOK, Batches, Works
  <2>2. \A s \in links' : conn'[s] # "none"
    BY <1>1, <1>2, <2>1 DEF SInv, Begun, ConnKept
  <2>3. \A b \in net' : conn'[b.on] # "none" /\ b.blocks # <<>>
    BY <1>1, <1>4, <2>1 DEF SInv, Begun, ConnKept
  <2>4. \A u \in tasks' : conn'[u.on] # "none" /\ u.blocks # <<>>
    BY <1>1, <2>1 DEF SInv, Begun, ConnKept, Harmless
  <2> QED
    BY <2>2, <2>3, <2>4 DEF Begun
<1>7. OneVoice'
  <2>1. ASSUME NEW s \in Sessions, Hello(s) \/ RegisterFails(s) \/ Stop(s) \/ Poll(s)
                 \/ OpenStream(s) \/ TakeRow(s) \/ EndStream(s)
        PROVE  OneVoice'
    <3>1. /\ UNCHANGED <<auth, told>>
          /\ \A r \in Sessions \ {s} : handler'[r] = handler[r]
      BY <2>1 DEF SInv, TypeOK, Hello, RegisterFails, Stop, Poll, OpenStream, TakeRow, Advance,
                  EndStream
    <3>2. handler'[s].pc \in {"wait", "found", "stream"} =>
            handler[s].pc \in {"wait", "found", "stream"}
      BY <2>1 DEF SInv, TypeOK, Handlers, Hello, RegisterFails, Stop, Poll, OpenStream, TakeRow,
                  Advance, EndStream, Gone, NoHandler
    <3> QED
      BY <3>1, <3>2 DEF SInv, OneVoice
  <2>2. ASSUME NEW s \in Sessions, Register(s) PROVE OneVoice'
    <3>1. 0 \notin Sessions
      BY DEF Sessions
    <3>2. \A r \in Sessions \ {s} : handler'[r] = handler[r]
      BY <2>2 DEF SInv, TypeOK, Register
    <3>3. auth # 0 => auth \in told'
      BY <2>2 DEF Register, Replaced
    <3>4. told \subseteq told' /\ auth' = s
      BY <2>2 DEF Register
    <3> QED
      BY <3>1, <3>2, <3>3, <3>4 DEF SInv, OneVoice
  <2>3. ASSUME NEW s \in Sessions, SeesClose(s) PROVE OneVoice'
    BY <2>3 DEF SInv, TypeOK, OneVoice, SeesClose, Replaced
  <2>4. CASE UNCHANGED <<handler, auth, told>>
    BY <2>4 DEF SInv, OneVoice
  <2> QED
    BY <2>1, <2>2, <2>3, <2>4
       DEF Elsewhere, HandlerStep, masterVars, AddBlock, Quit, Disconnect, Deliver
<1> QED
  BY <1>3, <1>5, <1>6, <1>7

LEMMA OpenTypes ==
  ASSUME SInv, NEW s \in Sessions, Open(s)
  PROVE  TypeOK' /\ Begun' /\ InStep' /\ OneVoice'
<1>1. Highest \in -1 .. MaxHeight
  BY HighestIs DEF SInv, TypeOK
<1>2. TypeOK'
  BY <1>1 DEF SInv, TypeOK, Open
<1>3. Begun'
  BY DEF SInv, TypeOK, Begun, Open, Batches, Works
<1> QED
  BY <1>2, <1>3 DEF SInv, InStep, OneVoice, Open

-----------------------------------------------------------------------------
(* Theorems.                                                               *)

LEMMA InitInvariant == Init => SInv
<1> SUFFICES ASSUME Init PROVE SInv
  OBVIOUS
<1>1. <<>> \in Seq(Blocks) /\ 0 \in Blocks /\ -1 \in -1 .. MaxHeight
  BY SyncAssumption DEF Blocks
<1>2. NoHandler \in Handlers /\ NoHandler.pc = "none"
  BY <1>1 DEF NoHandler, Handlers
<1>3. TypeOK
  BY <1>1, <1>2 DEF Init, TypeOK
<1>4. Begun /\ InStep /\ OneVoice /\ Staged /\ OneWriter
  BY <1>2 DEF Init, Begun, InStep, OneVoice, Staged, OneWriter
<1>5. AppliedOnce /\ AppliedValidly
  <2>1. DOMAIN applied = {}
    BY DEF Init
  <2> QED
    BY <2>1 DEF AppliedOnce, AppliedValidly
<1>6. Ahead
  <2>1. \A s \in Sessions : Uncounted(s) = {} /\ count[s] = -1
    BY DEF Init, Uncounted
  <2>2. Above(-1) = {}
    BY DEF Init, Above
  <2>3. Cardinality({}) = 0
    BY FS_EmptySet
  <2>4. \A s \in Sessions : From(s, -1)
    <3> SUFFICES ASSUME NEW s \in Sessions PROVE From(s, -1)
      OBVIOUS
    <3>1. count[s] + Cardinality(Uncounted(s)) <= -1 + Cardinality(Above(-1))
      BY <2>1, <2>2, <2>3
    <3>2. tasks = {} /\ -1 <= count[s]
      BY <2>1 DEF Init
    <3> QED
      BY <3>1, <3>2 DEF From
  <2> QED
    BY <1>1, <2>4 DEF Ahead
<1> QED
  BY <1>3, <1>4, <1>5, <1>6 DEF SInv

LEMMA StepInvariant == SInv /\ [Next]_vars => SInv'
<1> SUFFICES ASSUME SInv, [Next]_vars PROVE SInv'
  OBVIOUS
<1>1. CASE Elsewhere
  <2>1. TypeOK' /\ Begun' /\ InStep' /\ OneVoice'
    BY <1>1, ElsewhereTypes
  <2>2. Staged' /\ OneWriter' /\ Ahead' /\ AppliedOnce' /\ AppliedValidly'
    BY <1>1, <2>1, ElsewhereHarmless, QuietKeeps
  <2> QED
    BY <2>1, <2>2 DEF SInv
<1>2. ASSUME NEW s \in Sessions, Open(s) PROVE SInv'
  BY <1>2, OpenTypes, OpenKeeps DEF SInv
<1>3. ASSUME NEW t \in tasks, Work(t) PROVE SInv'
  <2>1. TypeOK' /\ Begun' /\ InStep' /\ OneVoice'
    BY <1>3, WorkTypes
  <2>2. CASE Check(t) \/ Verify(t) \/ Fail(t)
    <3>1. /\ UNCHANGED <<count, stored, applied>>
          /\ \A u \in tasks' : u \in tasks \/ Harmless(u)
      BY <2>2, CheckIs, FailIs
    <3> QED
      BY <2>1, <3>1, QuietKeeps DEF SInv
  <2>3. CASE Store(t) /\ ~Fail(t)
    BY <2>1, <2>3, StoreKeeps DEF SInv
  <2>4. CASE Apply(t)
    BY <2>1, <2>4, ApplyKeeps DEF SInv
  <2>5. CASE Count(t)
    BY <2>1, <2>5, CountKeeps DEF SInv
  <2> QED
    BY <1>3, <2>2, <2>3, <2>4, <2>5 DEF Work, DbFails
<1>4. CASE UNCHANGED vars
  <2>1. UNCHANGED <<height, handler, auth, told, links, sent, net, conn, count, tasks, stored, applied>>
    BY <1>4 DEF vars, masterVars, clientVars
  <2> USE <2>1
  <2>2. TypeOK' /\ Begun' /\ InStep' /\ OneVoice'
    BY DEF SInv, TypeOK, Begun, InStep, OneVoice
  <2>3. Staged' /\ OneWriter' /\ Ahead' /\ AppliedOnce' /\ AppliedValidly'
    BY <2>2, QuietKeeps
  <2> QED
    BY <2>2, <2>3 DEF SInv
<1> QED
  BY <1>1, <1>2, <1>3, <1>4 DEF Next, Elsewhere

(***************************************************************************)
(* The inductive invariant of the synchronisation of clients.              *)
(***************************************************************************)
THEOREM SyncInvariant == Spec => []SInv
  BY InitInvariant, StepInvariant, PTL DEF Spec

(***************************************************************************)
(* The shape of handlers, batches, threads and counts                      *)
(* (master_serve/activity.rs, client/activity.rs).                         *)
(***************************************************************************)
THEOREM SyncTypes == Spec => []TypeOK
<1>1. SInv => TypeOK
  BY DEF SInv
<1> QED
  BY <1>1, SyncInvariant, PTL

(***************************************************************************)
(* Whatever batches overlap, a client applies a block at most once, and    *)
(* only one it has stored (client/req_resp.rs: the primary key decides).   *)
(***************************************************************************)
THEOREM ClientAppliesOnce == Spec => []AppliedOnce
<1>1. SInv => AppliedOnce
  BY DEF SInv
<1> QED
  BY <1>1, SyncInvariant, PTL

(***************************************************************************)
(* Whatever order blocks come in, a client's tables are the result of a    *)
(* history in which each block found what it needs (client/req_resp.rs).   *)
(***************************************************************************)
THEOREM ClientAppliesValidly == Spec => []AppliedValidly
<1>1. SInv => AppliedValidly
  BY DEF SInv
<1> QED
  BY <1>1, SyncInvariant, PTL

(***************************************************************************)
(* last_height is never above what the client stored: a new block is not   *)
(* taken for a rewrite of an older one (client/req_resp.rs).               *)
(***************************************************************************)
THEOREM NewestIsAccepted == Spec => []NewestAccepted
<1>1. SInv => NewestAccepted
  BY AheadBounds DEF SInv
<1> QED
  BY <1>1, SyncInvariant, PTL

(***************************************************************************)
(* A handler that still sends was told to stop or is the one registered    *)
(* (master_serve/activity.rs).                                             *)
(***************************************************************************)
THEOREM OneHandlerSends == Spec => []OneVoice
<1>1. SInv => OneVoice
  BY DEF SInv
<1> QED
  BY <1>1, SyncInvariant, PTL

=============================================================================
