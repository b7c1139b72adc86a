-------------------------- MODULE SwarmLoop_proofs --------------------------
(***************************************************************************)
(* Proofs about SwarmLoop, for any tasks and bounds, and for the circles   *)
(* for any number of threads but one.                                      *)
(*                                                                         *)
(* Every path drops each lock it takes, and what it waits for in between   *)
(* is fixed by the lock (While): the ballot for conf, conf for             *)
(* approved_blocks, answers for subscribed_nodes.  So who holds a lock     *)
(* waits for one further on in this order (Held), and a circle of waits    *)
(* would have to run through the loop and the handler.                     *)
(***************************************************************************)
EXTENDS SwarmLoop, FiniteSetTheorems, SequenceTheorems, WellFoundedInduction, TLAPS

Modes    == {"read", "write"}
Timeouts == {"PendingBlockTimeout", "ApprovedBlockTimeout"}
Blocks   == {"NewBlock", "ArchiveBlock"}
LockRows == [held : SUBSET (Actors \X Modes), wait : Seq(Actors \X Modes)]

(* What an actor waits for while it holds l.                               *)
While(l) == IF l = "conf" THEN {Vote}
            ELSE IF l = "approved_blocks" THEN {Read("conf"), Drop("conf")}
            ELSE {Call}

(* From i + 1 on, q waits for such things only until it drops l.           *)
Rest(l, q, i) ==
  \E k \in i + 1 .. Len(q) : q[k] = Drop(l) /\ \A j \in i + 1 .. k - 1 : q[j] \in While(l)

Path(q) ==
  /\ q # <<>> => q[1].do # "drop"
  /\ \A i \in 1 .. Len(q) : q[i].do \in Modes => Rest(q[i].what, q, i)

(* What an actor of a kind may have to wait for.                           *)
Kinds(a) ==
  IF a = Loop THEN {"read", "drop", "send"}
  ELSE IF a = Handler THEN Modes \cup {"drop", "call", "spawn"}
  ELSE Modes \cup {"drop", "call"} \cup {k \in {"vote"} : a \in Orders \cup Voters}
         \cup {k \in {"send"} : a \in Voters}
OpsOf(a) ==
  {op \in Op : /\ op.do \in Kinds(a)
               /\ op.do \in {"send", "spawn"} /\ a # Loop => op.what \in Timeouts
               /\ op.do \in Modes /\ a = Loop => op.what = "conf"
               /\ op.do \in Modes /\ a = Handler => op.what = "approved_blocks"}

SendsLast(q)   == \A i \in 1 .. Len(q) : q[i].do = "send" => i = Len(q)
SpawnsFirst(q) == \A i \in 1 .. Len(q) :
                    q[i].do = "spawn" => i = 1 /\ \A j \in 2 .. Len(q) : q[j] = Call

Fits(a, q) ==
  /\ q \in Seq(OpsOf(a)) /\ Path(q)
  /\ a = Loop => SendsLast(q)
  /\ a = Handler => SpawnsFirst(q)

Typed ==
  /\ todo \in [Actors -> Seq(Op)]
  /\ lock \in [Locks -> LockRows]
  /\ started \subseteq Tasks /\ gossiped \in 0 .. MaxGossip
  /\ queue \in Seq(Events) /\ Len(queue) <= QueueCap
  /\ calls \in Seq(Actors \cup {"nobody"}) /\ Len(calls) <= CallCap

Fitting == \A a \in Actors : Fits(a, todo[a])
Idle    == \A a \in Tasks \ started : todo[a] = <<>>

HeldIn(L)   == \A l \in Locks : \A h \in L[l].held : Rest(l, todo[h[1]], 0)
SharedIn(L) == \A l \in Locks : \A g, h \in L[l].held : g # h => g[2] = "read" /\ h[2] = "read"

(* Who stands in a line waits for that lock, and stands there once.        *)
Stands(L, l) ==
  \A i \in 1 .. Len(L[l].wait) :
    /\ At(L[l].wait[i][1], L[l].wait[i][2]) /\ What(L[l].wait[i][1]) = l
    /\ \A j \in 1 .. Len(L[l].wait) : i # j => L[l].wait[i][1] # L[l].wait[j][1]
LinesIn(L) == \A l \in Locks : Stands(L, l)

(* There are no more ballots of others than messages of other masters.     *)
BlocksIn(q) == {i \in 1 .. Len(q) : q[i] \in Blocks}
Passing     == IF Busy(Loop) THEN 1 ELSE 0
Spawning    == IF At(Handler, "spawn") THEN 1 ELSE 0
Counted ==
  Cardinality(BlocksIn(queue)) + Passing + Spawning + Cardinality(started \cap Voters) <= gossiped

Inv == /\ Typed /\ Fitting /\ Idle
       /\ HeldIn(lock) /\ SharedIn(lock) /\ LinesIn(lock)
       /\ Counted

-----------------------------------------------------------------------------
(* Paths.                                                                  *)

LEMMA Smallest ==
  ASSUME NEW T \in SUBSET Nat, T # {}
  PROVE  \E m \in T : \A n \in T : m <= n
<1>1. PICK m \in T : \A n \in T : <<n, m>> \notin OpToRel(<, Nat)
  BY WFMin, NatLessThanWellFounded, Zenon
<1>2. \A n \in T : ~(n < m)
  BY <1>1, Zenon DEF OpToRel
<1> QED
  BY <1>2

(* What is left of a path: the rest of a lock that was taken.              *)
LEMMA ShiftedRest ==
  ASSUME NEW l, NEW p \in Seq(Op), NEW q \in Seq(Op), NEW d \in Nat,
         Len(q) = d + Len(p), \A i \in 1 .. Len(p) : p[i] = q[i + d],
         NEW i \in Nat, Rest(l, q, i)
  PROVE  /\ i >= d => Rest(l, p, i - d)
         /\ i < d => (\E j \in i + 1 .. d : q[j] = Drop(l)) \/ Rest(l, p, 0)
<1>1. PICK k \in i + 1 .. Len(q) : q[k] = Drop(l) /\ \A j \in i + 1 .. k - 1 : q[j] \in While(l)
  BY DEF Rest
<1>2. Len(p) \in Nat /\ Len(q) \in Nat
  BY LenProperties
<1>3. ASSUME k > d PROVE p[k - d] = Drop(l) /\ k - d \in 1 .. Len(p)
  BY <1>1, <1>2, <1>3
<1>4. ASSUME i >= d PROVE Rest(l, p, i - d)
  <2>1. k - d \in (i - d) + 1 .. Len(p)
    BY <1>1, <1>2, <1>4
  <2>2. ASSUME NEW j \in (i - d) + 1 .. (k - d) - 1 PROVE p[j] \in While(l)
    <3>1. p[j] = q[j + d] /\ j + d \in i + 1 .. k - 1
      BY <1>2, <1>4, <2>1, <2>2
    <3> QED
      BY <1>1, <3>1
  <2> QED
    BY <1>1, <1>3, <1>4, <2>1, <2>2 DEF Rest
<1>5. ASSUME i < d, k <= d PROVE \E j \in i + 1 .. d : q[j] = Drop(l)
  BY <1>1, <1>2, <1>5
<1>6. ASSUME i < d, k > d PROVE Rest(l, p, 0)
  <2>1. k - d \in 0 + 1 .. Len(p)
    BY <1>3, <1>6
  <2>2. ASSUME NEW j \in 0 + 1 .. (k - d) - 1 PROVE p[j] \in While(l)
    <3>1. p[j] = q[j + d] /\ j + d \in i + 1 .. k - 1
      BY <1>2, <1>6, <2>1, <2>2
    <3> QED
      BY <1>1, <3>1
  <2> QED
    BY <1>3, <1>6, <2>1, <2>2 DEF Rest
<1> QED
  BY <1>1, <1>2, <1>4, <1>5, <1>6

(* Dropping the locks that are no longer needed leads to the next wait.    *)
LEMMA DropsIs ==
  ASSUME NEW a, todo[a] \in Seq(Op), todo[a] # <<>>
  PROVE  /\ Drops(a) \in 0 .. Len(todo[a]) - 1
         /\ \A i \in 2 .. Drops(a) + 1 : todo[a][i].do = "drop"
         /\ Drops(a) + 2 <= Len(todo[a]) => todo[a][Drops(a) + 2].do # "drop"
<1> DEFINE path == Tail(todo[a])
           Stop(n) == n = Len(path) \/ path[n + 1].do # "drop"
           S == {n \in 0 .. Len(path) : Stop(n)}
           P(n) == (\A i \in 1 .. n : path[i].do = "drop") /\ Stop(n)
<1>1. /\ path \in Seq(Op) /\ Len(path) = Len(todo[a]) - 1 /\ Len(todo[a]) \in Nat /\ Len(path) \in Nat
      /\ \A i \in 1 .. Len(path) : path[i] = todo[a][i + 1]
  BY HeadTailProperties, LenProperties
<1>2. \E n \in 0 .. Len(path) : P(n)
  <2>1. S \in SUBSET Nat /\ S # {}
    <3>1. Len(path) \in S
      BY <1>1
    <3>2. S \subseteq 0 .. Len(path)
      OBVIOUS
    <3>3. 0 .. Len(path) \subseteq Nat
      BY <1>1
    <3> QED
      BY <3>1, <3>2, <3>3, Zenon
  <2>2. PICK m \in S : \A n \in S : m <= n
    BY <2>1, Smallest
  <2>3. ASSUME NEW i \in 1 .. m PROVE path[i].do = "drop"
    <3>1. m \in 0 .. Len(path) /\ i - 1 < m /\ i - 1 \in 0 .. Len(path) /\ (i - 1) + 1 = i
      BY <1>1, <2>2, <2>3
    <3>2. i - 1 \notin S
      <4> HIDE DEF S
      <4>1. i - 1 \in S => m <= i - 1
        BY <2>2, Zenon
      <4> QED
        BY <1>1, <3>1, <4>1
    <3> QED
      BY <3>1, <3>2
  <2> QED
    BY <2>2, <2>3
<1>3. Drops(a) = CHOOSE n \in 0 .. Len(path) : P(n)
  BY DEF Drops
<1> HIDE DEF P
<1>4. Drops(a) \in 0 .. Len(path) /\ P(Drops(a))
  BY <1>2, <1>3
<1> USE DEF P
<1>5. ASSUME NEW i \in 2 .. Drops(a) + 1 PROVE todo[a][i].do = "drop"
  <2>1. i - 1 \in 1 .. Drops(a) /\ i - 1 \in 1 .. Len(path) /\ (i - 1) + 1 = i
    BY <1>1, <1>4, <1>5
  <2> QED
    BY <1>1, <1>4, <2>1
<1>6. ASSUME Drops(a) + 2 <= Len(todo[a]) PROVE todo[a][Drops(a) + 2].do # "drop"
  <2>1. Drops(a) # Len(path) /\ Drops(a) + 1 \in 1 .. Len(path) /\ (Drops(a) + 1) + 1 = Drops(a) + 2
    BY <1>1, <1>4, <1>6
  <2> QED
    BY <1>1, <1>4, <2>1
<1> QED
  BY <1>1, <1>4, <1>5, <1>6

LEMMA AfterIs ==
  ASSUME NEW a, NEW S, S \subseteq Op, todo[a] \in Seq(S), todo[a] # <<>>
  PROVE  /\ After(a) \in Seq(S) /\ Len(todo[a]) = (Drops(a) + 1) + Len(After(a))
         /\ Len(After(a)) \in Nat /\ Drops(a) \in Nat
         /\ \A i \in 1 .. Len(After(a)) : After(a)[i] = todo[a][i + (Drops(a) + 1)]
<1>1. todo[a] \in Seq(Op) /\ Len(todo[a]) \in Nat
  BY SeqMonotonic, LenProperties
<1>2. Drops(a) \in 0 .. Len(todo[a]) - 1
  BY <1>1, DropsIs
<1>3. \A i \in Drops(a) + 2 .. Len(todo[a]) : todo[a][i] \in S
  BY <1>1, <1>2, ElementOfSeq
<1>4. /\ After(a) \in Seq(S)
      /\ Len(After(a)) = IF Drops(a) + 2 <= Len(todo[a]) THEN Len(todo[a]) - (Drops(a) + 2) + 1 ELSE 0
      /\ \A i \in 1 .. Len(todo[a]) - (Drops(a) + 2) + 1 :
            After(a)[i] = todo[a][(Drops(a) + 2) + i - 1]
  <2> DEFINE m == Drops(a) + 2  n == Len(todo[a])
  <2>1. m \in Int /\ n \in Int /\ \A i \in m .. n : todo[a][i] \in S
    BY <1>1, <1>2, <1>3
  <2>2. After(a) = SubSeq(todo[a], m, n)
    BY DEF After
  <2> HIDE DEF m, n
  <2>3. /\ SubSeq(todo[a], m, n) \in Seq(S) /\ Len(SubSeq(todo[a], m, n)) = IF m <= n THEN n - m + 1 ELSE 0
        /\ \A i \in 1 .. n - m + 1 : SubSeq(todo[a], m, n)[i] = todo[a][m + i - 1]
    BY <2>1, SubSeqProperties
  <2> QED
    BY <2>2, <2>3 DEF m, n
<1>5. Len(After(a)) = Len(todo[a]) - (Drops(a) + 1)
  BY <1>1, <1>2, <1>4
<1>6. ASSUME NEW i \in 1 .. Len(After(a)) PROVE After(a)[i] = todo[a][i + (Drops(a) + 1)]
  <2>1. \A n, m, d, k \in Int :
          m = n - (d + 1) /\ k \in 1 .. m => (d + 2) + k - 1 = k + (d + 1) /\ k \in 1 .. n - (d + 2) + 1
    OBVIOUS
  <2>2. (Drops(a) + 2) + i - 1 = i + (Drops(a) + 1) /\ i \in 1 .. Len(todo[a]) - (Drops(a) + 2) + 1
    <3>1. Len(todo[a]) \in Int /\ Drops(a) \in Int
      BY <1>1, <1>2
    <3>2. Len(After(a)) \in Int /\ i \in Int
      BY <1>5, <3>1
    <3> QED
      BY <1>5, <2>1, <3>1, <3>2
  <2> QED
    BY <1>4, <2>2
<1> QED
  BY <1>1, <1>2, <1>4, <1>5, <1>6

(* An actor that goes on has a path of its kind left, ...                  *)
LEMMA AfterFits ==
  ASSUME NEW a, Fits(a, todo[a]), Busy(a)
  PROVE  Fits(a, After(a))
<1> DEFINE q == todo[a]  p == After(a)  d == Drops(a) + 1
<1>1. q \in Seq(OpsOf(a)) /\ OpsOf(a) \subseteq Op /\ q # <<>> /\ Path(q)
  BY DEF Fits, OpsOf, Busy
<1>2. /\ p \in Seq(OpsOf(a)) /\ Len(q) = d + Len(p) /\ Len(p) \in Nat /\ Drops(a) \in Nat
      /\ \A i \in 1 .. Len(p) : p[i] = q[i + d]
  BY <1>1, AfterIs
<1>3. p \in Seq(Op) /\ q \in Seq(Op)
  BY <1>1, <1>2, SeqMonotonic
<1>4. p # <<>> => p[1].do # "drop"
  <2>1. d + 1 <= Len(q) => q[d + 1].do # "drop"
    BY <1>1, <1>2, <1>3, DropsIs
  <2>2. p # <<>> => 1 \in 1 .. Len(p) /\ p[1] = q[1 + d]
    BY <1>2, EmptySeq
  <2> QED
    BY <1>2, <2>1, <2>2
<1>5. ASSUME NEW i \in 1 .. Len(p), p[i].do \in Modes PROVE Rest(p[i].what, p, i)
  <2>1. p[i] = q[i + d] /\ i + d \in 1 .. Len(q) /\ (i + d) - d = i /\ i + d \in Nat /\ i + d >= d
    BY <1>2, <1>5
  <2>2. Rest(p[i].what, q, i + d)
    BY <1>1, <1>5, <2>1 DEF Path
  <2>3. d \in Nat
    BY <1>2
  <2> HIDE DEF p, q, d
  <2> QED
    BY <1>2, <1>3, <2>1, <2>2, <2>3, ShiftedRest
<1>6. ASSUME SendsLast(q) PROVE SendsLast(p)
  <2> SUFFICES ASSUME NEW i \in 1 .. Len(p), p[i].do = "send" PROVE i = Len(p)
    BY DEF SendsLast
  <2>1. p[i] = q[i + d] /\ i + d \in 1 .. Len(q) /\ (i + d = Len(q) => i = Len(p))
    BY <1>2
  <2> QED
    BY <1>6, <2>1 DEF SendsLast
<1>7. ASSUME SpawnsFirst(q) PROVE SpawnsFirst(p)
  <2> SUFFICES ASSUME NEW i \in 1 .. Len(p) PROVE p[i].do # "spawn"
    BY DEF SpawnsFirst
  <2>1. p[i] = q[i + d] /\ i + d \in 1 .. Len(q) /\ i + d # 1
    BY <1>2
  <2> QED
    BY <1>7, <2>1 DEF SpawnsFirst
<1> QED
  <2>1. Path(p)
    BY <1>4, <1>5 DEF Path
  <2>2. (a = Loop => SendsLast(q)) /\ (a = Handler => SpawnsFirst(q))
    BY DEF Fits
  <2> HIDE DEF p, q
  <2> QED
    BY <1>2, <1>6, <1>7, <2>1, <2>2 DEF Fits, p

(* ... and has dropped a lock it held or drops it further on.              *)
LEMMA AfterRest ==
  ASSUME NEW a, Fits(a, todo[a]), Busy(a), NEW l, NEW i \in {0, 1}, Rest(l, todo[a], i)
  PROVE  l \in {todo[a][j].what : j \in 2 .. Drops(a) + 1} \/ Rest(l, After(a), 0)
<1> DEFINE q == todo[a]  p == After(a)  d == Drops(a) + 1
<1>1. q \in Seq(OpsOf(a)) /\ OpsOf(a) \subseteq Op /\ q # <<>> /\ q[1].do # "drop"
  BY DEF Fits, OpsOf, Busy, Path
<1>2. /\ p \in Seq(OpsOf(a)) /\ Len(q) = d + Len(p) /\ Len(p) \in Nat /\ Drops(a) \in Nat
      /\ \A j \in 1 .. Len(p) : p[j] = q[j + d]
  BY <1>1, AfterIs
<1>3. p \in Seq(Op) /\ q \in Seq(Op) /\ d \in Nat /\ i \in Nat
  BY <1>1, <1>2, SeqMonotonic
<1>4. (i >= d => Rest(l, p, i - d)) /\ (i < d => (\E j \in i + 1 .. d : q[j] = Drop(l)) \/ Rest(l, p, 0))
  <2> HIDE DEF p, q, d
  <2> QED
    BY <1>2, <1>3, ShiftedRest DEF q
<1>5. ASSUME NEW j \in i + 1 .. d, q[j] = Drop(l) PROVE l \in {todo[a][m].what : m \in 2 .. Drops(a) + 1}
  <2>1. j # 1
    BY <1>1, <1>5 DEF Drop
  <2>2. j \in 2 .. Drops(a) + 1 /\ q[j].what = l
    BY <1>2, <1>5, <2>1 DEF Drop
  <2> QED
    BY <2>2
<1>6. i >= d => i - d = 0
  BY <1>2
<1> QED
  BY <1>3, <1>4, <1>5, <1>6
-----------------------------------------------------------------------------
(* Locks.                                                                  *)

LEMMA OpTypes ==
  ASSUME NEW a \in Actors, Typed, Busy(a)
  PROVE  /\ todo[a] \in Seq(Op) /\ todo[a] # <<>> /\ Len(todo[a]) \in Nat \ {0}
         /\ Head(todo[a]) = todo[a][1] /\ Head(todo[a]) \in Op /\ What(a) \in Locks \cup Events \cup {"-"}
         /\ What(a) = todo[a][1].what
<1>1. todo[a] \in Seq(Op) /\ todo[a] # <<>>
  BY DEF Typed, Busy
<1>2. Len(todo[a]) \in Nat \ {0} /\ Head(todo[a]) = todo[a][1] /\ Head(todo[a]) \in Op
  BY <1>1, EmptySeq, HeadTailProperties
<1> QED
  BY <1>1, <1>2 DEF What, Op

LEMMA LockTypes ==
  ASSUME NEW L \in [Locks -> LockRows], NEW l \in Locks
  PROVE  /\ L[l] = [held |-> L[l].held, wait |-> L[l].wait]
         /\ L[l].held \in SUBSET (Actors \X Modes) /\ L[l].wait \in Seq(Actors \X Modes)
         /\ Len(L[l].wait) \in Nat /\ DOMAIN L[l].wait = 1 .. Len(L[l].wait)
         /\ \A i \in 1 .. Len(L[l].wait) : L[l].wait[i] \in Actors \X Modes
<1>1. L[l] \in LockRows
  OBVIOUS
<1>2. L[l].held \in SUBSET (Actors \X Modes) /\ L[l].wait \in Seq(Actors \X Modes)
      /\ L[l] = [held |-> L[l].held, wait |-> L[l].wait]
  BY <1>1 DEF LockRows
<1> QED
  BY <1>2, LenProperties, ElementOfSeq

(* Dropping only takes a's own holds, and leaves the lines as they are.    *)
LEMMA FreeIs ==
  ASSUME NEW a, NEW L \in [Locks -> LockRows]
  PROVE  /\ Free(a, L) \in [Locks -> LockRows]
         /\ \A l \in Locks : /\ Free(a, L)[l].wait = L[l].wait
                             /\ Free(a, L)[l].held \subseteq L[l].held
                             /\ l \in {todo[a][j].what : j \in 2 .. Drops(a) + 1} =>
                                    \A h \in Free(a, L)[l].held : h[1] # a
<1> DEFINE D == {todo[a][j].what : j \in 2 .. Drops(a) + 1}
           Row(l) == [L[l] EXCEPT !.held = {h \in @ : h[1] # a}]
<1>1. Free(a, L) = [l \in Locks |-> IF l \in D THEN Row(l) ELSE L[l]]
  BY DEF Free
<1> HIDE DEF D
<1>2. ASSUME NEW l \in Locks
      PROVE  /\ Row(l) \in LockRows /\ Row(l).wait = L[l].wait /\ L[l] \in LockRows
             /\ Row(l).held = {h \in L[l].held : h[1] # a}
  BY LockTypes DEF LockRows
<1> HIDE DEF Row
<1> QED
  BY <1>1, <1>2 DEF D

(* Whoever holds a lock has a wait before him; whoever stands in a line    *)
(* waits for that lock.                                                    *)
LEMMA HolderIs ==
  ASSUME Inv, NEW l \in Locks, NEW h \in lock[l].held
  PROVE  /\ h[1] \in Actors /\ h[2] \in Modes /\ Busy(h[1])
         /\ l = "conf" => At(h[1], "vote")
         /\ l = "approved_blocks" => At(h[1], "read") /\ What(h[1]) = "conf"
         /\ l = "subscribed_nodes" => At(h[1], "call")
<1> DEFINE a == h[1]
<1>1. a \in Actors /\ h[2] \in Modes /\ lock \in [Locks -> LockRows]
  <2>1. lock \in [Locks -> LockRows]
    BY DEF Inv, Typed
  <2>2. lock[l].held \in SUBSET (Actors \X Modes)
    BY <2>1, LockTypes
  <2> QED
    BY <2>1, <2>2
<1>2. Rest(l, todo[a], 0) /\ Fits(a, todo[a])
  BY <1>1 DEF Inv, HeldIn, Fitting
<1> HIDE DEF a
<1>3. PICK k \in 1 .. Len(todo[a]) : todo[a][k] = Drop(l) /\ \A j \in 1 .. k - 1 : todo[a][j] \in While(l)
  BY <1>2 DEF Rest
<1>4. todo[a] \in Seq(Op)
  BY <1>1 DEF Inv, Typed
<1>5. Busy(a) /\ Len(todo[a]) \in Nat
  BY <1>3, <1>4, EmptySeq, LenProperties DEF Busy
<1>6. todo[a][1].do # "drop" /\ Head(todo[a]) = todo[a][1]
  BY <1>1, <1>2, <1>5, OpTypes DEF Inv, Fits, Path, Busy
<1>7. todo[a][1] \in While(l)
  <2>1. k # 1
    BY <1>3, <1>6 DEF Drop
  <2> QED
    BY <1>3, <1>5, <2>1
<1>8. At(a, todo[a][1].do) /\ What(a) = todo[a][1].what
  BY <1>5, <1>6 DEF At, What
<1>9. l = "conf" => todo[a][1].do = "vote"
  BY <1>7 DEF While, Vote
<1>10. l = "approved_blocks" => todo[a][1].do = "read" /\ todo[a][1].what = "conf"
  BY <1>6, <1>7 DEF While, Read, Drop
<1>11. l = "subscribed_nodes" => todo[a][1].do = "call"
  BY <1>7 DEF While, Call
<1> QED
  BY <1>1, <1>5, <1>8, <1>9, <1>10, <1>11 DEF a

LEMMA StanderIs ==
  ASSUME Inv, NEW l \in Locks, NEW i \in 1 .. Len(lock[l].wait)
  PROVE  /\ lock[l].wait[i][1] \in Actors /\ lock[l].wait[i][2] \in Modes
         /\ At(lock[l].wait[i][1], lock[l].wait[i][2]) /\ What(lock[l].wait[i][1]) = l
         /\ Busy(lock[l].wait[i][1])
         /\ \A j \in 1 .. Len(lock[l].wait) : i # j => lock[l].wait[i][1] # lock[l].wait[j][1]
<1>1. lock \in [Locks -> LockRows]
  BY DEF Inv, Typed
<1>2. lock[l].wait[i] \in Actors \X Modes
  BY <1>1, LockTypes
<1>3. Stands(lock, l)
  BY DEF Inv, LinesIn
<1> QED
  BY <1>2, <1>3 DEF Stands, At

-----------------------------------------------------------------------------
(* Steps.                                                                  *)

(* Who gets a path had none, or was not held up by a lock.                 *)
LEMMA LocksKept ==
  ASSUME Inv, lock' = lock, todo' \in [Actors -> Seq(Op)], \A b \in Actors : Fits(b, todo'[b]),
         \A b \in Actors : todo'[b] = todo[b] \/ ~Busy(b) \/ At(b, "spawn")
  PROVE  Fitting' /\ HeldIn(lock)' /\ SharedIn(lock)' /\ LinesIn(lock)' /\ lock' \in [Locks -> LockRows]
<1>1. lock' \in [Locks -> LockRows] /\ SharedIn(lock)'
  BY DEF Inv, Typed, SharedIn
<1>2. Fitting'
  BY DEF Fitting
<1>3. ASSUME NEW l \in Locks, NEW h \in lock[l].held PROVE Rest(l, todo'[h[1]], 0)
  <2>1. h[1] \in Actors /\ Busy(h[1]) /\ ~At(h[1], "spawn")
    BY HolderIs DEF At, Locks
  <2>2. Rest(l, todo[h[1]], 0)
    BY DEF Inv, HeldIn
  <2> QED
    BY <2>1, <2>2
<1>4. HeldIn(lock)'
  BY <1>3 DEF HeldIn
<1>5. ASSUME NEW l \in Locks, NEW i \in 1 .. Len(lock[l].wait)
      PROVE  /\ At(lock[l].wait[i][1], lock[l].wait[i][2])' /\ What(lock[l].wait[i][1])' = l
             /\ \A j \in 1 .. Len(lock[l].wait) : i # j => lock[l].wait[i][1] # lock[l].wait[j][1]
  <2> DEFINE b == lock[l].wait[i][1]  m == lock[l].wait[i][2]
  <2>1. b \in Actors /\ m \in Modes /\ At(b, m) /\ What(b) = l /\ Busy(b)
    BY StanderIs
  <2>2. ~At(b, "spawn")
    BY <2>1 DEF At, Modes
  <2>3. todo'[b] = todo[b]
    BY <2>1, <2>2
  <2>4. At(b, m)' /\ What(b)' = l
    BY <2>1, <2>3 DEF At, Busy, What
  <2> QED
    BY <2>4, StanderIs
<1>6. LinesIn(lock)'
  BY <1>5 DEF LinesIn, Stands
<1> QED
  BY <1>1, <1>2, <1>4, <1>6

(* a goes on, with the lock it may have waited for in L.                   *)
LEMMA Advanced ==
  ASSUME Inv, NEW a \in Actors, Busy(a), NEW L \in [Locks -> LockRows], Advance(a, L),
         SharedIn(L), LinesIn(L),
         \A l \in Locks : \A i \in 1 .. Len(L[l].wait) : L[l].wait[i][1] # a,
         \A l \in Locks : \A h \in L[l].held :
            Rest(l, todo[h[1]], 0) \/ (h[1] = a /\ Rest(l, todo[a], 1))
  PROVE  /\ todo' \in [Actors -> Seq(Op)] /\ lock' \in [Locks -> LockRows]
         /\ todo'[a] = After(a) /\ \A b \in Actors : b # a => todo'[b] = todo[b]
         /\ Fitting' /\ HeldIn(lock)' /\ SharedIn(lock)' /\ LinesIn(lock)'
<1>1. Fits(a, todo[a]) /\ todo \in [Actors -> Seq(Op)]
  BY DEF Inv, Fitting, Typed
<1>2. Fits(a, After(a)) /\ After(a) \in Seq(Op)
  <2>1. Fits(a, After(a))
    BY <1>1, AfterFits
  <2>2. After(a) \in Seq(OpsOf(a)) /\ OpsOf(a) \subseteq Op
    BY <2>1 DEF Fits, OpsOf
  <2> QED
    BY <2>1, <2>2, SeqMonotonic
<1>3. todo' \in [Actors -> Seq(Op)] /\ todo'[a] = After(a) /\ \A b \in Actors : b # a => todo'[b] = todo[b]
  BY <1>1, <1>2 DEF Advance
<1>4. /\ lock' \in [Locks -> LockRows]
      /\ \A l \in Locks : /\ lock'[l].wait = L[l].wait /\ lock'[l].held \subseteq L[l].held
                          /\ l \in {todo[a][j].what : j \in 2 .. Drops(a) + 1} =>
                                 \A h \in lock'[l].held : h[1] # a
  BY FreeIs DEF Advance
<1>5. Fitting'
  BY <1>2, <1>3 DEF Fitting, Inv
<1>6. SharedIn(lock)'
  BY <1>4 DEF SharedIn
<1>7. ASSUME NEW l \in Locks, NEW h \in lock'[l].held PROVE Rest(l, todo'[h[1]], 0)
  <2>1. h \in L[l].held /\ h[1] \in Actors
    <3>1. h \in L[l].held
      BY <1>4, <1>7
    <3>2. L[l].held \in SUBSET (Actors \X Modes)
      BY LockTypes
    <3> QED
      BY <3>1, <3>2
  <2>2. CASE h[1] = a
    <3>1. Rest(l, todo[a], 0) \/ Rest(l, todo[a], 1)
      BY <2>1, <2>2
    <3>2. l \in {todo[a][j].what : j \in 2 .. Drops(a) + 1} \/ Rest(l, After(a), 0)
      BY <1>1, <3>1, AfterRest
    <3>3. l \notin {todo[a][j].what : j \in 2 .. Drops(a) + 1}
      BY <1>4, <1>7, <2>2
    <3> QED
      BY <1>3, <2>2, <3>2, <3>3
  <2>3. CASE h[1] # a
    BY <1>3, <2>1, <2>3
  <2> QED
    BY <2>2, <2>3
<1>8. HeldIn(lock)'
  BY <1>7 DEF HeldIn
<1>9. ASSUME NEW l \in Locks, NEW i \in 1 .. Len(lock'[l].wait)
      PROVE  /\ todo'[lock'[l].wait[i][1]] # <<>>
             /\ Head(todo'[lock'[l].wait[i][1]]).do = lock'[l].wait[i][2]
             /\ Head(todo'[lock'[l].wait[i][1]]).what = l
             /\ \A j \in 1 .. Len(lock'[l].wait) : i # j => lock'[l].wait[i][1] # lock'[l].wait[j][1]
  <2> DEFINE b == L[l].wait[i][1]  m == L[l].wait[i][2]
  <2>1. lock'[l].wait = L[l].wait /\ i \in 1 .. Len(L[l].wait) /\ b \in Actors
    BY <1>4, LockTypes
  <2>2. /\ At(b, m) /\ What(b) = l
        /\ \A j \in 1 .. Len(L[l].wait) : i # j => b # L[l].wait[j][1]
    BY <2>1 DEF LinesIn, Stands
  <2>3. todo'[b] = todo[b]
    BY <1>3, <2>1
  <2>4. todo'[b] # <<>> /\ Head(todo'[b]).do = m /\ Head(todo'[b]).what = l
    BY <2>2, <2>3 DEF At, Busy, What
  <2> QED
    BY <2>1, <2>2, <2>4
<1>10. LinesIn(lock)'
  BY <1>9 DEF LinesIn, Stands, At, Busy, What
<1> QED
  BY <1>3, <1>4, <1>5, <1>6, <1>8, <1>10

(* Who goes on is not the loop that begins, nor the handler at a spawn.    *)
LEMMA AdvancedCounts ==
  ASSUME Inv, NEW a \in Actors, Busy(a), ~At(a, "spawn"), todo'[a] = After(a),
         \A b \in Actors : b # a => todo'[b] = todo[b]
  PROVE  Passing' <= Passing /\ Spawning' <= Spawning
         /\ (a # Loop => Passing' = Passing) /\ (a # Handler => Spawning' = Spawning)
<1>1. Loop \in Actors /\ Handler \in Actors
  BY DEF Actors
<1>2. a # Loop => Passing' = Passing
  BY <1>1 DEF Passing, Busy
<1>3. a # Handler => Spawning' = Spawning
  BY <1>1 DEF Spawning, At, Busy
<1>4. a = Loop => Passing' <= Passing
  BY DEF Passing
<1>5. a = Handler => Spawning' <= Spawning
  <2> SUFFICES ASSUME a = Handler, At(a, "spawn")' PROVE FALSE
    BY DEF Spawning
  <2>1. /\ todo[a] \in Seq(OpsOf(a)) /\ OpsOf(a) \subseteq Op /\ todo[a] # <<>>
        /\ Fits(a, After(a)) /\ SpawnsFirst(todo[a])
    <3>1. Fits(a, todo[a])
      BY DEF Inv, Fitting
    <3> QED
      BY <3>1, AfterFits DEF Fits, OpsOf, Busy
  <2>2. /\ After(a) \in Seq(OpsOf(a)) /\ Len(After(a)) \in Nat /\ Drops(a) \in Nat
        /\ Len(todo[a]) = (Drops(a) + 1) + Len(After(a))
        /\ \A i \in 1 .. Len(After(a)) : After(a)[i] = todo[a][i + (Drops(a) + 1)]
    BY <2>1, AfterIs
  <2>3. After(a) # <<>> /\ Head(After(a)).do = "spawn"
    BY DEF At, Busy
  <2>4. 1 \in 1 .. Len(After(a)) /\ Head(After(a)) = After(a)[1]
    BY <2>2, <2>3, EmptySeq
  <2>5. 1 + (Drops(a) + 1) \in 1 .. Len(todo[a]) /\ 1 + (Drops(a) + 1) # 1
    BY <2>2, <2>4
  <2> QED
    BY <2>1, <2>2, <2>3, <2>4, <2>5 DEF SpawnsFirst
<1> QED
  BY <1>2, <1>3, <1>4, <1>5 DEF Passing, Spawning

(* a waits neither for a lock nor in a line.                               *)
LEMMA PlainlyAdvanced ==
  ASSUME Inv, NEW a \in Actors, Busy(a), ~At(a, "read"), ~At(a, "write"), ~At(a, "spawn"), Advance(a, lock)
  PROVE  /\ todo' \in [Actors -> Seq(Op)] /\ lock' \in [Locks -> LockRows]
         /\ todo'[a] = After(a) /\ \A b \in Actors : b # a => todo'[b] = todo[b]
         /\ Fitting' /\ HeldIn(lock)' /\ SharedIn(lock)' /\ LinesIn(lock)'
         /\ Passing' <= Passing /\ Spawning' <= Spawning
         /\ (a # Loop => Passing' = Passing) /\ (a # Handler => Spawning' = Spawning)
<1>1. lock \in [Locks -> LockRows] /\ SharedIn(lock) /\ LinesIn(lock) /\ HeldIn(lock)
  BY DEF Inv, Typed
<1>2. ASSUME NEW l \in Locks, NEW i \in 1 .. Len(lock[l].wait) PROVE lock[l].wait[i][1] # a
  BY StanderIs DEF Modes
<1>3. \A l \in Locks : \A h \in lock[l].held : Rest(l, todo[h[1]], 0)
  BY <1>1 DEF HeldIn
<1>4. /\ todo' \in [Actors -> Seq(Op)] /\ lock' \in [Locks -> LockRows]
      /\ todo'[a] = After(a) /\ \A b \in Actors : b # a => todo'[b] = todo[b]
      /\ Fitting' /\ HeldIn(lock)' /\ SharedIn(lock)' /\ LinesIn(lock)'
  BY <1>1, <1>2, <1>3, Advanced
<1> QED
  BY <1>4, AdvancedCounts

-----------------------------------------------------------------------------
(* The paths of the code.                                                  *)

(* The waits of a task, and those of one that no ballot is part of.        *)
Waits == {op \in Op : op.do \in Modes \cup {"drop", "call", "vote"}}
Plain == {op \in Op : op.do \in Modes \cup {"drop", "call"}}

IsPath(q, S) == q \in Seq(S) /\ Path(q)

LEMMA OpsAre ==
  /\ \A l \in Locks : Read(l) \in Plain /\ Write(l) \in Plain /\ Drop(l) \in Plain
  /\ Call \in Plain /\ Vote \in Waits /\ Plain \subseteq Waits /\ Waits \subseteq Op
  /\ \A e \in Events : Send(e) \in Op /\ Spawn(e) \in Op
  BY DEF Plain, Waits, Op, Read, Write, Drop, Call, Vote, Send, Spawn, Modes

LEMMA Joined ==
  ASSUME NEW S \in SUBSET Op, NEW p, NEW q, IsPath(p, S), IsPath(q, S)
  PROVE  IsPath(p \o q, S)
<1> DEFINE r == p \o q
<1>1. /\ p \in Seq(S) /\ q \in Seq(S) /\ Path(p) /\ Path(q)
      /\ Len(p) \in Nat /\ Len(q) \in Nat
  BY LenProperties DEF IsPath
<1>2. /\ r \in Seq(S) /\ Len(r) = Len(p) + Len(q)
      /\ \A i \in 1 .. Len(p) + Len(q) : r[i] = IF i <= Len(p) THEN p[i] ELSE q[i - Len(p)]
  BY <1>1, ConcatProperties
<1>3. \A i \in 1 .. Len(p) : r[i] = p[i]
  BY <1>1, <1>2
<1>4. \A i \in 1 .. Len(q) : r[Len(p) + i] = q[i]
  BY <1>1, <1>2
<1> HIDE DEF r
<1>5. r # <<>> => r[1].do # "drop"
  <2>1. CASE p # <<>>
    <3>1. 1 \in 1 .. Len(p)
      BY <1>1, <2>1, EmptySeq
    <3> QED
      BY <1>1, <1>3, <2>1, <3>1 DEF Path
  <2>2. CASE p = <<>>
    <3>1. r = q
      BY <1>1, <2>2, ConcatEmptySeq DEF r
    <3> QED
      BY <1>1, <3>1 DEF Path
  <2> QED
    BY <2>1, <2>2
<1>6. ASSUME NEW i \in 1 .. Len(p), p[i].do \in Modes PROVE Rest(r[i].what, r, i)
  <2>1. PICK k \in i + 1 .. Len(p) :
           p[k] = Drop(p[i].what) /\ \A j \in i + 1 .. k - 1 : p[j] \in While(p[i].what)
    BY <1>1, <1>6 DEF Path, Rest
  <2>2. k \in i + 1 .. Len(r) /\ r[k] = p[k] /\ r[i] = p[i]
    BY <1>1, <1>2, <1>3
  <2>3. ASSUME NEW j \in i + 1 .. k - 1 PROVE r[j] = p[j]
    BY <1>1, <1>3
  <2> QED
    BY <2>1, <2>2, <2>3 DEF Rest
<1>7. ASSUME NEW i \in 1 .. Len(q), q[i].do \in Modes PROVE Rest(q[i].what, r, Len(p) + i)
  <2>1. PICK k \in i + 1 .. Len(q) :
           q[k] = Drop(q[i].what) /\ \A j \in i + 1 .. k - 1 : q[j] \in While(q[i].what)
    BY <1>1, <1>7 DEF Path, Rest
  <2>2. Len(p) + k \in (Len(p) + i) + 1 .. Len(r) /\ r[Len(p) + k] = q[k]
    BY <1>1, <1>2, <1>4
  <2>3. ASSUME NEW j \in (Len(p) + i) + 1 .. (Len(p) + k) - 1 PROVE r[j] \in While(q[i].what)
    <3>1. j - Len(p) \in i + 1 .. k - 1 /\ j - Len(p) \in 1 .. Len(q) /\ Len(p) + (j - Len(p)) = j
      BY <1>1, <2>3
    <3>2. r[Len(p) + (j - Len(p))] = q[j - Len(p)]
      BY <1>4, <3>1
    <3> QED
      BY <2>1, <3>1, <3>2
  <2> QED
    BY <2>1, <2>2, <2>3 DEF Rest
<1>8. ASSUME NEW i \in 1 .. Len(r), r[i].do \in Modes PROVE Rest(r[i].what, r, i)
  <2>1. CASE i <= Len(p)
    <3>1. i \in 1 .. Len(p) /\ r[i] = p[i]
      BY <1>1, <1>3, <2>1
    <3> QED
      BY <1>6, <1>8, <3>1
  <2>2. CASE i > Len(p)
    <3>1. i - Len(p) \in 1 .. Len(q) /\ Len(p) + (i - Len(p)) = i
      BY <1>1, <1>2, <2>2
    <3>2. r[i] = q[i - Len(p)]
      BY <1>4, <3>1
    <3> QED
      BY <1>7, <1>8, <3>1, <3>2
  <2> QED
    BY <1>1, <1>2, <2>1, <2>2
<1> QED
  BY <1>2, <1>5, <1>8 DEF IsPath, Path, r

LEMMA Empty ==
  ASSUME NEW S
  PROVE  IsPath(<<>>, S)
  BY DEF IsPath, Path

LEMMA Single ==
  ASSUME NEW S \in SUBSET Op, NEW op \in S, op.do \notin Modes \cup {"drop"}
  PROVE  IsPath(<<op>>, S)
  BY DEF IsPath, Path

LEMMA BriefIs ==
  ASSUME NEW S \in SUBSET Op, NEW op \in S, op.do \in Modes, Drop(op.what) \in S
  PROVE  IsPath(Briefly(op), S)
<1> DEFINE q == Briefly(op)  l == op.what
<1>1. q \in Seq(S) /\ Len(q) = 2 /\ q[1] = op /\ q[2] = Drop(l)
  BY DEF Briefly
<1> HIDE DEF q
<1>2. Rest(l, q, 1)
  BY <1>1 DEF Rest
<1>3. q[2].do \notin Modes
  BY <1>1 DEF Drop, Modes
<1>4. q[1].do # "drop"
  BY <1>1 DEF Modes
<1>5. Path(q)
  BY <1>1, <1>2, <1>3, <1>4 DEF Path
<1> QED
  BY <1>1, <1>5 DEF IsPath, q

LEMMA Brief ==
  ASSUME NEW S \in SUBSET Op, Plain \subseteq S, NEW l \in Locks
  PROVE  IsPath(Briefly(Read(l)), S) /\ IsPath(Briefly(Write(l)), S)
<1>1. Read(l) \in S /\ Write(l) \in S /\ Drop(l) \in S
  BY OpsAre
<1>2. Read(l).do \in Modes /\ Write(l).do \in Modes /\ Read(l).what = l /\ Write(l).what = l
  BY DEF Read, Write, Modes
<1> QED
  BY <1>1, <1>2, BriefIs

LEMMA AwaitsVotes ==
  IsPath(AwaitVotes, Waits)
<1> DEFINE q == AwaitVotes
<1>1. q \in Seq(Waits) /\ Len(q) = 3 /\ q[1] = Read("conf") /\ q[2] = Vote /\ q[3] = Drop("conf")
  BY OpsAre DEF AwaitVotes, Locks
<1> HIDE DEF q
<1>2. Rest("conf", q, 1)
  <2>1. 3 \in 1 + 1 .. Len(q) /\ \A j \in 1 + 1 .. 3 - 1 : j = 2
    BY <1>1
  <2> QED
    BY <1>1, <2>1 DEF Rest, While
<1>3. q[1].what = "conf" /\ q[1].do # "drop" /\ q[2].do \notin Modes /\ q[3].do \notin Modes
  BY <1>1 DEF Read, Vote, Drop, Modes
<1>4. Path(q)
  BY <1>1, <1>2, <1>3 DEF Path
<1> QED
  BY <1>1, <1>4 DEF IsPath, q

LEMMA VotedDownIs ==
  IsPath(VotedDown, Waits)
<1> DEFINE q == VotedDown
<1>1. /\ q \in Seq(Waits) /\ Len(q) = 4
      /\ q[1] = Read("approved_blocks") /\ q[2] = Read("conf") /\ q[3] = Drop("conf")
      /\ q[4] = Drop("approved_blocks")
  BY OpsAre DEF VotedDown, Briefly, Read, Locks
<1> HIDE DEF q
<1>2. Rest("approved_blocks", q, 1)
  <2>1. 4 \in 1 + 1 .. Len(q) /\ \A j \in 1 + 1 .. 4 - 1 : j = 2 \/ j = 3
    BY <1>1
  <2> QED
    BY <1>1, <2>1 DEF Rest, While
<1>3. Rest("conf", q, 2)
  BY <1>1 DEF Rest
<1>4. /\ q[1].what = "approved_blocks" /\ q[2].what = "conf" /\ q[1].do # "drop"
      /\ q[3].do \notin Modes /\ q[4].do \notin Modes
  BY <1>1 DEF Read, Drop, Modes
<1>5. Path(q)
  BY <1>1, <1>2, <1>3, <1>4 DEF Path
<1> QED
  BY <1>1, <1>5 DEF IsPath, q

LEMMA TaskIs ==
  ASSUME NEW a \in Tasks
  PROVE  a \in Actors /\ a # Loop /\ a # Handler
  BY ConstantsAssumption DEF Actors

LEMMA TaskFits ==
  ASSUME NEW a \in Tasks, NEW q,
         \/ IsPath(q, Plain)
         \/ a \in Orders \cup Voters /\ IsPath(q, Waits)
         \/ a \in Voters /\ \E e \in Timeouts : IsPath(q, Waits \cup {Send(e)})
  PROVE  Fits(a, q)
<1>1. a # Loop /\ a # Handler
  BY TaskIs
<1>2. ASSUME NEW S, S \subseteq OpsOf(a), IsPath(q, S) PROVE Fits(a, q)
  BY <1>1, <1>2, SeqMonotonic DEF Fits, IsPath
<1>3. Plain \subseteq OpsOf(a)
  BY <1>1 DEF Plain, OpsOf, Kinds, Modes
<1>4. a \in Orders \cup Voters => Waits \subseteq OpsOf(a)
  BY <1>1 DEF Waits, OpsOf, Kinds, Modes
<1>5. ASSUME a \in Voters, NEW e \in Timeouts PROVE Waits \cup {Send(e)} \subseteq OpsOf(a)
  <2>1. Send(e) \in Op /\ Send(e).do = "send" /\ Send(e).what = e
    BY DEF Send, Op, Timeouts, Events
  <2>2. Send(e) \in OpsOf(a)
    BY <1>1, <1>5, <2>1 DEF OpsOf, Kinds
  <2> QED
    BY <1>4, <1>5, <2>2
<1> QED
  BY <1>2, <1>3, <1>4, <1>5

LEMMA PublishPaths ==
  ASSUME NEW path \in Publish
  PROVE  IsPath(path, Waits)
<1> DEFINE W(q) == IsPath(q, Waits)
<1>1. /\ Waits \in SUBSET Op /\ Plain \subseteq Waits /\ Call \in Waits
      /\ Call.do \notin Modes \cup {"drop"}
  BY OpsAre DEF Call, Modes
<1>2. ASSUME NEW p, NEW q, W(p), W(q) PROVE W(p \o q)
  BY <1>1, <1>2, Joined
<1>3. W(<<Call>>) /\ W(AwaitVotes) /\ W(VotedDown)
  BY <1>1, Single, AwaitsVotes, VotedDownIs
<1>4. ASSUME NEW l \in Locks PROVE W(Briefly(Read(l))) /\ W(Briefly(Write(l)))
  BY <1>1, Brief
<1>5. W(Passed) /\ W(Removed) /\ W(Briefly(Read("conf"))) /\ W(Briefly(Write("approved_blocks")))
  BY <1>4 DEF Passed, Removed, Locks
<1> HIDE DEF W
<1>6. W(Entered)
  BY <1>2, <1>3, <1>5 DEF Entered
<1>7. W(Unreached)
  BY <1>2, <1>3, <1>5 DEF Unreached
<1>8. \A p \in BlockOrderVote : W(p)
  <2>1. W(Entered \o Passed \o Removed)
    BY <1>2, <1>5, <1>6
  <2>2. W(Entered \o VotedDown \o Removed)
    BY <1>2, <1>3, <1>5, <1>6
  <2> QED
    BY <1>7, <2>1, <2>2 DEF BlockOrderVote
<1>9. W(<<Call>> \o AwaitVotes)
  BY <1>2, <1>3
<1>10. \A p \in BlockOrderVote : W(<<Call>> \o AwaitVotes \o p)
  BY <1>2, <1>8, <1>9
<1>11. W(path)
  BY <1>3, <1>7, <1>9, <1>10 DEF Publish
<1> QED
  BY <1>11 DEF W

LEMMA TimerPath ==
  ASSUME NEW e \in Timeouts
  PROVE  IsPath(Timer(e), Waits \cup {Send(e)})
<1>1. Waits \cup {Send(e)} \in SUBSET Op
  BY OpsAre DEF Timeouts, Events
<1>2. Send(e) \in Waits \cup {Send(e)} /\ Send(e).do \notin Modes \cup {"drop"}
  BY DEF Send, Modes
<1>3. IsPath(<<Send(e)>>, Waits \cup {Send(e)})
  BY <1>1, <1>2, Single
<1>4. IsPath(AwaitVotes, Waits \cup {Send(e)})
  BY AwaitsVotes, SeqMonotonic DEF IsPath
<1> QED
  BY <1>1, <1>3, <1>4, Joined DEF Timer

LEMMA TellPaths ==
  ASSUME NEW t \in Tell
  PROVE  IsPath(t, Plain)
<1>1. PICK n \in 0 .. 2 :
        t = <<Read("subscribed_nodes")>> \o [i \in 1 .. n |-> Call] \o <<Drop("subscribed_nodes")>>
  BY DEF Tell
<1>2. Read("subscribed_nodes") \in Plain /\ Drop("subscribed_nodes") \in Plain /\ Call \in Plain
  BY OpsAre DEF Locks
<1>3. /\ t \in Seq(Plain) /\ Len(t) = n + 2
      /\ t[1] = Read("subscribed_nodes") /\ t[n + 2] = Drop("subscribed_nodes")
      /\ \A i \in 2 .. n + 1 : t[i] = Call
  <2> DEFINE r == <<Read("subscribed_nodes")>>  c == [i \in 1 .. n |-> Call]
             w == <<Drop("subscribed_nodes")>>
  <2>1. r \in Seq(Plain) /\ Len(r) = 1 /\ w \in Seq(Plain) /\ Len(w) = 1
    BY <1>2
  <2>2. c \in Seq(Plain) /\ Len(c) = n /\ \A i \in 1 .. n : c[i] = Call
    BY <1>2
  <2>3. r[1] = Read("subscribed_nodes") /\ w[1] = Drop("subscribed_nodes")
    OBVIOUS
  <2> HIDE DEF r, c, w
  <2> DEFINE rc == r \o c
  <2>4. /\ rc \in Seq(Plain) /\ Len(rc) = 1 + n
        /\ \A i \in 1 .. 1 + n : rc[i] = IF i <= 1 THEN r[i] ELSE c[i - 1]
    BY <2>1, <2>2, ConcatProperties
  <2>6. t = rc \o w
    BY <1>1 DEF r, c, w
  <2> HIDE DEF rc
  <2>5. /\ rc \o w \in Seq(Plain) /\ Len(rc \o w) = (1 + n) + 1
        /\ \A i \in 1 .. (1 + n) + 1 : (rc \o w)[i] = IF i <= 1 + n THEN rc[i] ELSE w[i - (1 + n)]
    <3>1. /\ rc \o w \in Seq(Plain) /\ Len(rc \o w) = Len(rc) + Len(w)
          /\ \A i \in 1 .. Len(rc) + Len(w) :
                (rc \o w)[i] = IF i <= Len(rc) THEN rc[i] ELSE w[i - Len(rc)]
      BY <2>1, <2>4, ConcatProperties
    <3> QED
      BY <2>1, <2>4, <3>1
  <2>7. t[1] = r[1] /\ t[n + 2] = w[1]
    <3>1. /\ 1 \in 1 .. 1 + n /\ 1 \in 1 .. (1 + n) + 1 /\ 1 <= 1 + n
          /\ n + 2 \in 1 .. (1 + n) + 1 /\ ~(n + 2 <= 1 + n) /\ (n + 2) - (1 + n) = 1
      OBVIOUS
    <3>2. t[1] = rc[1] /\ rc[1] = r[1]
      BY <2>4, <2>5, <2>6, <3>1
    <3>3. t[n + 2] = w[(n + 2) - (1 + n)]
      BY <2>5, <2>6, <3>1
    <3> QED
      BY <3>1, <3>2, <3>3
  <2>8. ASSUME NEW i \in 2 .. n + 1 PROVE t[i] = Call
    <3>1. t[i] = c[i - 1] /\ i - 1 \in 1 .. n
      BY <2>4, <2>5, <2>6
    <3> QED
      BY <2>2, <3>1
  <2> QED
    BY <2>3, <2>5, <2>6, <2>7, <2>8
<1>4. /\ t[1].what = "subscribed_nodes" /\ t[1].do # "drop" /\ t[n + 2].do \notin Modes
      /\ \A i \in 2 .. n + 1 : t[i].do \notin Modes
  BY <1>3 DEF Read, Drop, Call, Modes
<1>5. Rest("subscribed_nodes", t, 1)
  <2>1. n + 2 \in 1 + 1 .. Len(t) /\ \A j \in 1 + 1 .. (n + 2) - 1 : t[j] = Call
    BY <1>3
  <2> QED
    BY <1>3, <2>1 DEF Rest, While
<1>6. Path(t)
  BY <1>3, <1>4, <1>5 DEF Path
<1> QED
  BY <1>3, <1>6 DEF IsPath

LEMMA UpdatePaths ==
  ASSUME NEW path \in SendUpdate
  PROVE  IsPath(path, Plain)
<1> DEFINE W(q) == IsPath(q, Plain)
<1>1. Plain \in SUBSET Op /\ Call \in Plain /\ Call.do \notin Modes \cup {"drop"}
  BY OpsAre DEF Call, Modes
<1>2. ASSUME NEW p, NEW q, W(p), W(q) PROVE W(p \o q)
  BY <1>1, <1>2, Joined
<1>3. W(<<Call>>) /\ W(Briefly(Write("conf"))) /\ \A t \in Tell \cup {<<>>} : W(t)
  BY <1>1, Single, Brief, TellPaths, Empty DEF Locks
<1> HIDE DEF W
<1>4. W(path)
  BY <1>2, <1>3 DEF SendUpdate
<1> QED
  BY <1>4 DEF W

LEMMA JoinPaths ==
  ASSUME NEW path \in HelloSubscribe
  PROVE  IsPath(path, Plain)
<1>1. /\ path \in Seq(Plain) /\ Len(path) = 3
      /\ path[1] = Write("subscribed_nodes") /\ path[2] = Call /\ path[3] = Drop("subscribed_nodes")
  <2>1. path = <<Write("subscribed_nodes"), Call, Drop("subscribed_nodes")>>
    BY DEF HelloSubscribe
  <2>2. Write("subscribed_nodes") \in Plain /\ Call \in Plain /\ Drop("subscribed_nodes") \in Plain
    BY OpsAre DEF Locks
  <2> QED
    BY <2>1, <2>2
<1>2. Rest("subscribed_nodes", path, 1)
  <2>1. 3 \in 1 + 1 .. Len(path) /\ \A j \in 1 + 1 .. 3 - 1 : j = 2
    BY <1>1
  <2> QED
    BY <1>1, <2>1 DEF Rest, While
<1>3. /\ path[1].what = "subscribed_nodes" /\ path[1].do # "drop"
      /\ path[2].do \notin Modes /\ path[3].do \notin Modes
  BY <1>1 DEF Write, Call, Drop, Modes
<1>4. Path(path)
  BY <1>1, <1>2, <1>3 DEF Path
<1> QED
  BY <1>1, <1>4 DEF IsPath

LEMMA GossipPaths ==
  ASSUME NEW path \in Gossip
  PROVE  Fits(Loop, path)
<1> DEFINE S == OpsOf(Loop)  R == Briefly(Read("conf"))
<1>1. S \in SUBSET Op /\ Read("conf") \in S /\ Drop("conf") \in S
  BY OpsAre DEF OpsOf, Kinds, Modes, Read, Drop, Locks, Handler, Loop
<1>2. ASSUME NEW e \in Events PROVE Send(e) \in S /\ Send(e).do = "send"
  BY OpsAre DEF OpsOf, Kinds, Modes, Send, Handler, Loop
<1>3. ASSUME NEW e \in Events PROVE IsPath(<<Send(e)>>, S)
  BY <1>1, <1>2, Single DEF Modes
<1>4. IsPath(R, S)
  BY <1>1, BriefIs DEF Read, Modes
<1>5. IsPath(R \o <<Send("NewBlock")>>, S)
  BY <1>1, <1>3, <1>4, Joined DEF Events
<1>6. ASSUME NEW e \in Events PROVE SendsLast(<<Send(e)>>)
  BY DEF SendsLast
<1>7. R \in Seq(S) /\ Len(R) = 2 /\ R[1].do # "send" /\ R[2].do # "send"
  BY <1>1 DEF Briefly, Read, Drop
<1>8. SendsLast(R)
  BY <1>7 DEF SendsLast
<1>9. SendsLast(R \o <<Send("NewBlock")>>)
  <2> DEFINE w == <<Send("NewBlock")>>
  <2>1. w \in Seq(S) /\ Len(w) = 1
    BY <1>2 DEF Events
  <2> HIDE DEF w, R, S
  <2>2. Len(R \o w) = 2 + 1 /\ \A i \in 1 .. 2 + 1 : (R \o w)[i] = IF i <= 2 THEN R[i] ELSE w[i - 2]
    BY <1>7, <2>1, ConcatProperties
  <2>3. (R \o w)[1] = R[1] /\ (R \o w)[2] = R[2]
    BY <2>2
  <2>4. SendsLast(R \o w)
    BY <1>7, <2>2, <2>3 DEF SendsLast
  <2> QED
    BY <2>4 DEF w
<1> HIDE DEF S, R
<1>10. \/ path = R \/ path = R \o <<Send("NewBlock")>>
       \/ \E e \in Events : path = <<Send(e)>>
  BY DEF Gossip, Events, R
<1>11. IsPath(path, S) /\ SendsLast(path)
  BY <1>3, <1>4, <1>5, <1>6, <1>8, <1>9, <1>10
<1> QED
  BY <1>11 DEF Fits, IsPath, S, Handler, Loop

(* The handler's waits but for its spawns.                                 *)
Handled == {op \in Plain : op.do \in Modes => op.what = "approved_blocks"}

LEMMA PlainHandled ==
  ASSUME NEW q, IsPath(q, Handled)
  PROVE  Fits(Handler, q) /\ (q # <<>> => Head(q).do # "spawn")
<1>1. Handled \subseteq OpsOf(Handler)
  BY DEF Handled, Plain, OpsOf, Kinds, Modes, Handler, Loop
<1>2. q \in Seq(Handled) /\ q \in Seq(OpsOf(Handler)) /\ Path(q)
  BY <1>1, SeqMonotonic DEF IsPath
<1>3. \A i \in 1 .. Len(q) : q[i].do # "spawn"
  BY <1>2, ElementOfSeq DEF Handled, Plain, Modes
<1>4. SpawnsFirst(q)
  BY <1>3 DEF SpawnsFirst
<1>5. q # <<>> => 1 \in 1 .. Len(q) /\ Head(q) = q[1]
  BY <1>2, EmptySeq
<1> QED
  BY <1>2, <1>3, <1>4, <1>5 DEF Fits, Handler, Loop

LEMMA HandlingPaths ==
  ASSUME NEW e \in Events, NEW path \in Handling(e)
  PROVE  Fits(Handler, path) /\ (path # <<>> /\ Head(path).do = "spawn" => e \in Blocks)
<1> DEFINE RB == Briefly(Read("approved_blocks"))  WB == Briefly(Write("approved_blocks"))
           Pend == <<Spawn("PendingBlockTimeout")>>
           Appr == <<Spawn("ApprovedBlockTimeout"), Call, Call>>
<1>1. Handled \in SUBSET Op /\ Call \in Handled /\ Call.do \notin Modes \cup {"drop"}
  BY OpsAre DEF Call, Handled, Modes
<1>2. IsPath(<<>>, Handled) /\ IsPath(<<Call>>, Handled) /\ IsPath(RB, Handled) /\ IsPath(WB, Handled)
  <2>1. \A m \in Modes : [do |-> m, what |-> "approved_blocks"] \in Handled
    BY DEF Handled, Plain, Op, Locks, Modes
  <2>2. Drop("approved_blocks") \in Handled
    BY OpsAre DEF Handled, Drop, Modes, Locks
  <2>3. Read("approved_blocks") \in Handled /\ Write("approved_blocks") \in Handled
    BY <2>1 DEF Read, Write, Modes
  <2>4. /\ Read("approved_blocks").do \in Modes /\ Read("approved_blocks").what = "approved_blocks"
        /\ Write("approved_blocks").do \in Modes /\ Write("approved_blocks").what = "approved_blocks"
    BY DEF Read, Write, Modes
  <2> QED
    BY <1>1, <2>2, <2>3, <2>4, Empty, Single, BriefIs
<1>3. IsPath(RB \o WB, Handled)
  BY <1>1, <1>2, Joined
<1>4. ASSUME NEW x \in Timeouts
      PROVE  Spawn(x) \in OpsOf(Handler) /\ Spawn(x).do = "spawn"
  BY OpsAre DEF OpsOf, Kinds, Modes, Spawn, Timeouts, Events, Handler, Loop
<1>5. Fits(Handler, Pend)
  <2>1. IsPath(Pend, OpsOf(Handler))
    <3>1. OpsOf(Handler) \in SUBSET Op
      BY DEF OpsOf
    <3> QED
      BY <1>4, <3>1, Single DEF Timeouts, Modes
  <2>2. SpawnsFirst(Pend)
    BY DEF SpawnsFirst
  <2> QED
    BY <2>1, <2>2 DEF Fits, IsPath, Handler, Loop
<1>6. Fits(Handler, Appr)
  <2>1. Call \in OpsOf(Handler)
    BY OpsAre DEF OpsOf, Kinds, Modes, Call, Handler, Loop
  <2>2. /\ Appr \in Seq(OpsOf(Handler)) /\ Len(Appr) = 3
        /\ Appr[1] = Spawn("ApprovedBlockTimeout") /\ Appr[2] = Call /\ Appr[3] = Call
    BY <1>4, <2>1 DEF Timeouts
  <2> HIDE DEF Appr
  <2>3. Appr[1].do = "spawn"
    BY <1>4, <2>2 DEF Timeouts
  <2>4. Path(Appr)
    BY <1>1, <2>2, <2>3 DEF Path, Modes
  <2>5. SpawnsFirst(Appr)
    BY <2>2 DEF SpawnsFirst, Call
  <2> QED
    BY <2>2, <2>4, <2>5 DEF Fits, Handler, Loop
<1>7. \/ path \in {<<>>, <<Call>>, RB, WB, RB \o WB}
      \/ e \in Blocks /\ (path = Pend \/ path = Appr)
  BY DEF Handling, Events, Blocks
<1> HIDE DEF RB, WB, Pend, Appr
<1>8. IsPath(path, Handled) \/ (e \in Blocks /\ Fits(Handler, path))
  BY <1>2, <1>3, <1>5, <1>6, <1>7
<1> QED
  BY <1>8, PlainHandled

-----------------------------------------------------------------------------
(* Counting.                                                               *)

LEMMA BlocksFinite ==
  ASSUME NEW q \in Seq(Events)
  PROVE  IsFiniteSet(BlocksIn(q)) /\ Cardinality(BlocksIn(q)) \in Nat
<1>1. IsFiniteSet(1 .. Len(q)) /\ BlocksIn(q) \in SUBSET (1 .. Len(q))
  <2>1. Len(q) \in Int
    BY LenProperties
  <2> QED
    BY <2>1, FS_Interval DEF BlocksIn
<1> QED
  BY <1>1, FS_Subset, FS_CardinalityType

LEMMA BlocksAppended ==
  ASSUME NEW q \in Seq(Events), NEW e \in Events
  PROVE  Cardinality(BlocksIn(Append(q, e))) <= Cardinality(BlocksIn(q)) + (IF e \in Blocks THEN 1 ELSE 0)
<1> DEFINE r == Append(q, e)  n == Len(q) + 1
<1>1. /\ r \in Seq(Events) /\ Len(r) = n /\ r[n] = e /\ \A i \in 1 .. Len(q) : r[i] = q[i]
      /\ Len(q) \in Nat
  BY AppendProperties, LenProperties
<1> HIDE DEF r
<1>2. IsFiniteSet(BlocksIn(q)) /\ Cardinality(BlocksIn(q)) \in Nat
  BY BlocksFinite
<1>3. CASE e \in Blocks
  <2>1. BlocksIn(r) = BlocksIn(q) \cup {n}
    BY <1>1, <1>3 DEF BlocksIn
  <2>2. Cardinality(BlocksIn(r)) <= Cardinality(BlocksIn(q)) + 1
    <3>1. Cardinality(BlocksIn(q) \cup {n}) =
            IF n \in BlocksIn(q) THEN Cardinality(BlocksIn(q)) ELSE Cardinality(BlocksIn(q)) + 1
      BY <1>2, FS_AddElement
    <3> QED
      BY <1>2, <2>1, <3>1
  <2> QED
    BY <1>3, <2>2 DEF r
<1>4. CASE e \notin Blocks
  <2>1. BlocksIn(r) = BlocksIn(q)
    BY <1>1, <1>4 DEF BlocksIn
  <2> QED
    BY <1>2, <1>4, <2>1 DEF r
<1> QED
  BY <1>3, <1>4

LEMMA BlocksTaken ==
  ASSUME NEW q \in Seq(Events), q # <<>>
  PROVE  Cardinality(BlocksIn(Tail(q))) + (IF Head(q) \in Blocks THEN 1 ELSE 0) <= Cardinality(BlocksIn(q))
<1> DEFINE r == Tail(q)  S == BlocksIn(q) \ {1}  f == [i \in S |-> i - 1]
<1>1. /\ r \in Seq(Events) /\ Len(r) = Len(q) - 1 /\ \A i \in 1 .. Len(r) : r[i] = q[i + 1]
      /\ Len(q) \in Nat \ {0} /\ Head(q) = q[1]
  BY HeadTailProperties, EmptySeq
<1> HIDE DEF r
<1>2. IsFiniteSet(BlocksIn(q)) /\ Cardinality(BlocksIn(q)) \in Nat
  BY BlocksFinite
<1>3. /\ IsFiniteSet(S)
      /\ Cardinality(S) = IF 1 \in BlocksIn(q) THEN Cardinality(BlocksIn(q)) - 1 ELSE Cardinality(BlocksIn(q))
  BY <1>2, FS_RemoveElement
<1>4. 1 \in BlocksIn(q) <=> Head(q) \in Blocks
  BY <1>1 DEF BlocksIn
<1>5. f \in Surjection(S, BlocksIn(r))
  <2>1. ASSUME NEW i \in S PROVE i - 1 \in BlocksIn(r)
    <3>1. i \in 1 .. Len(q) /\ i # 1 /\ q[i] \in Blocks
      BY DEF BlocksIn
    <3>2. i - 1 \in 1 .. Len(r) /\ (i - 1) + 1 = i
      BY <1>1, <3>1
    <3> QED
      BY <1>1, <3>1, <3>2 DEF BlocksIn
  <2>2. ASSUME NEW j \in BlocksIn(r) PROVE \E i \in S : f[i] = j
    <3>1. j \in 1 .. Len(r) /\ r[j] \in Blocks
      BY DEF BlocksIn
    <3>2. j + 1 \in 1 .. Len(q) /\ j + 1 # 1 /\ q[j + 1] \in Blocks /\ (j + 1) - 1 = j
      BY <1>1, <3>1
    <3>3. j + 1 \in S
      BY <3>2 DEF BlocksIn
    <3> QED
      BY <3>2, <3>3
  <2>3. f \in [S -> BlocksIn(r)]
    BY <2>1
  <2> HIDE DEF f, S
  <2> QED
    BY <2>2, <2>3 DEF Surjection
<1>6. Cardinality(BlocksIn(r)) <= Cardinality(S)
  <2> HIDE DEF f, S
  <2> QED
    BY <1>3, <1>5, FS_Surjection
<1>7. Cardinality(BlocksIn(r)) \in Nat
  BY <1>1, BlocksFinite
<1> HIDE DEF S
<1> QED
  BY <1>2, <1>3, <1>4, <1>6, <1>7 DEF r

(* What is counted, in numbers.                                            *)
LEMMA Counts ==
  ASSUME Inv
  PROVE  /\ Cardinality(BlocksIn(queue)) \in Nat /\ Passing \in Nat /\ Spawning \in Nat
         /\ IsFiniteSet(started \cap Voters) /\ Cardinality(started \cap Voters) \in Nat
         /\ gossiped \in Nat
<1>1. queue \in Seq(Events) /\ gossiped \in Nat /\ IsFiniteSet(Voters)
  BY ConstantsAssumption DEF Inv, Typed
<1>2. IsFiniteSet(started \cap Voters) /\ Cardinality(started \cap Voters) \in Nat
  BY <1>1, FS_Subset, FS_CardinalityType
<1> QED
  BY <1>1, <1>2, BlocksFinite DEF Passing, Spawning

-----------------------------------------------------------------------------
(* Init and the actions.                                                   *)

LEMMA InitInv ==
  Init => Inv
<1> SUFFICES ASSUME Init PROVE Inv
  OBVIOUS
<1>1. \A S : Fits(S, <<>>)
  <2>1. \A S : IsPath(<<>>, OpsOf(S))
    BY Empty
  <2> QED
    BY <2>1 DEF Fits, IsPath, SendsLast, SpawnsFirst
<1>2. Typed
  <2>1. lock \in [Locks -> LockRows]
    BY DEF Init, LockRows
  <2>2. QueueCap \in Nat /\ CallCap \in Nat /\ 0 \in 0 .. MaxGossip
    <3>1. MaxGossip \in Nat
      BY ConstantsAssumption, FS_CardinalityType
    <3> QED
      BY <3>1, ConstantsAssumption
  <2> QED
    BY <2>1, <2>2 DEF Init, Typed
<1>3. Fitting /\ Idle
  <2>1. \A a \in Tasks : a \in Actors
    BY DEF Actors
  <2> QED
    BY <1>1, <2>1 DEF Init, Fitting, Idle
<1>4. HeldIn(lock) /\ SharedIn(lock) /\ LinesIn(lock)
  BY DEF Init, HeldIn, SharedIn, LinesIn, Stands
<1>5. Counted
  <2>1. BlocksIn(queue) = {} /\ started \cap Voters = {} /\ gossiped = 0
    BY DEF Init, BlocksIn
  <2>2. Passing = 0 /\ Spawning = 0
    BY DEF Init, Passing, Spawning, At, Busy, Actors
  <2> QED
    BY <2>1, <2>2, FS_EmptySet DEF Counted
<1> QED
  BY <1>2, <1>3, <1>4, <1>5 DEF Inv

(* Nothing new is counted when somebody goes on, and nothing is sent.      *)
LEMMA StillCounted ==
  ASSUME Inv, UNCHANGED <<started, queue, gossiped>>,
         Passing' <= Passing, Passing' \in Nat, Spawning' <= Spawning, Spawning' \in Nat
  PROVE  Counted'
  BY Counts DEF Inv, Counted

LEMMA CountsTyped ==
  Passing' \in Nat /\ Spawning' \in Nat
  BY DEF Passing, Spawning

(* Somebody had begun who goes on.                                         *)
LEMMA StillIdle ==
  ASSUME Inv, NEW a \in Actors, Busy(a), \A b \in Actors : b # a => todo'[b] = todo[b],
         started' = started
  PROVE  Idle'
<1>1. ASSUME NEW b \in Tasks \ started PROVE todo'[b] = <<>>
  <2>1. b \in Actors /\ todo[b] = <<>>
    BY TaskIs DEF Inv, Idle
  <2> QED
    BY <2>1 DEF Busy
<1> QED
  BY <1>1 DEF Idle

LEMMA EnteringInv ==
  ASSUME Inv, NEW a \in Actors, NEW l \in Locks, At(a, "read") \/ At(a, "write"), What(a) = l,
         NEW wait \in Seq(Actors \X Modes), Compatible(Head(todo[a]).do, lock[l].held),
         \A i \in 1 .. Len(wait) : wait[i][1] # a,
         \A i \in 1 .. Len(wait) : At(wait[i][1], wait[i][2]) /\ What(wait[i][1]) = l,
         \A i, j \in 1 .. Len(wait) : i # j => wait[i][1] # wait[j][1],
         \A k \in Locks : k # l => \A i \in 1 .. Len(lock[k].wait) : lock[k].wait[i][1] # a,
         Entering(a, l, wait), UNCHANGED <<started, queue, calls, gossiped>>
  PROVE  Inv'
<1> DEFINE mode == Head(todo[a]).do
           Row  == [held |-> lock[l].held \cup {<<a, mode>>}, wait |-> wait]
           L    == [lock EXCEPT ![l] = Row]
<1>1. Busy(a) /\ mode \in Modes /\ ~At(a, "spawn") /\ Head(todo[a]) = todo[a][1]
  BY OpTypes DEF At, Modes, Inv
<1>2. lock \in [Locks -> LockRows] /\ lock[l].held \in SUBSET (Actors \X Modes)
  BY LockTypes DEF Inv, Typed
<1>3. Advance(a, L)
  BY DEF Entering
<1>4. /\ L \in [Locks -> LockRows] /\ L[l].held = lock[l].held \cup {<<a, mode>>} /\ L[l].wait = wait
      /\ \A k \in Locks : k # l => L[k] = lock[k]
  BY <1>1, <1>2 DEF LockRows
<1> HIDE DEF L, mode
<1>5. SharedIn(L)
  <2> SUFFICES ASSUME NEW k \in Locks, NEW g \in L[k].held, NEW h \in L[k].held, g # h
               PROVE  g[2] = "read" /\ h[2] = "read"
    BY DEF SharedIn
  <2>1. SharedIn(lock)
    BY DEF Inv
  <2>2. CASE k # l
    BY <1>4, <2>1, <2>2 DEF SharedIn
  <2>3. CASE k = l
    <3>1. g \in lock[l].held \cup {<<a, mode>>} /\ h \in lock[l].held \cup {<<a, mode>>}
      BY <1>4, <2>3
    <3>2. lock[l].held = {} \/ (mode = "read" /\ \A x \in lock[l].held : x[2] = "read")
      BY DEF Compatible, mode
    <3> QED
      BY <3>1, <3>2
  <2> QED
    BY <2>2, <2>3
<1>6. LinesIn(L)
  <2>1. Stands(L, l)
    BY <1>4 DEF Stands
  <2>2. ASSUME NEW k \in Locks, k # l PROVE Stands(L, k)
    <3>1. Stands(lock, k) /\ L[k] = lock[k]
      BY <1>4, <2>2 DEF Inv, LinesIn
    <3> QED
      BY <3>1 DEF Stands
  <2> QED
    BY <2>1, <2>2 DEF LinesIn
<1>7. ASSUME NEW k \in Locks, NEW i \in 1 .. Len(L[k].wait) PROVE L[k].wait[i][1] # a
  BY <1>4, <1>7
<1>8. Rest(l, todo[a], 1)
  <2>1. 1 \in 1 .. Len(todo[a]) /\ todo[a][1].do \in Modes /\ todo[a][1].what = l
    BY <1>1, OpTypes DEF Inv, mode
  <2>2. Path(todo[a])
    BY DEF Inv, Fitting, Fits
  <2> QED
    BY <2>1, <2>2 DEF Path
<1>9. ASSUME NEW k \in Locks, NEW h \in L[k].held
      PROVE  Rest(k, todo[h[1]], 0) \/ (h[1] = a /\ Rest(k, todo[a], 1))
  <2>1. HeldIn(lock)
    BY DEF Inv
  <2>2. CASE k # l
    BY <1>4, <1>9, <2>1, <2>2 DEF HeldIn
  <2>3. CASE k = l
    BY <1>4, <1>8, <1>9, <2>1, <2>3 DEF HeldIn
  <2> QED
    BY <2>2, <2>3
<1>10. /\ todo' \in [Actors -> Seq(Op)] /\ lock' \in [Locks -> LockRows]
       /\ todo'[a] = After(a) /\ \A b \in Actors : b # a => todo'[b] = todo[b]
       /\ Fitting' /\ HeldIn(lock)' /\ SharedIn(lock)' /\ LinesIn(lock)'
  BY <1>1, <1>3, <1>4, <1>5, <1>6, <1>7, <1>9, Advanced
<1>11. Passing' <= Passing /\ Spawning' <= Spawning
  BY <1>1, <1>10, AdvancedCounts
<1>12. Counted' /\ Idle'
  BY <1>1, <1>10, <1>11, CountsTyped, StillCounted, StillIdle
<1>13. Typed'
  BY <1>10 DEF Inv, Typed
<1> QED
  BY <1>10, <1>12, <1>13 DEF Inv

LEMMA LockInv ==
  ASSUME Inv, NEW a \in Actors, Lock(a)
  PROVE  Inv'
<1>0. PICK l, mode : l = What(a) /\ mode = Head(todo[a]).do
  OBVIOUS
<1>1. /\ At(a, "read") \/ At(a, "write")
      /\ ~InLine(a, l) /\ UNCHANGED <<started, queue, calls, gossiped>>
  BY <1>0 DEF Lock, CanLock
<1>2. Busy(a) /\ mode \in Modes /\ At(a, mode)
  BY <1>0, <1>1 DEF At, Modes
<1>3. l \in Locks
  <2>1. Head(todo[a]) \in Op
    BY <1>2, OpTypes DEF Inv
  <2> QED
    BY <1>0, <1>2, <2>1 DEF Op, Modes, What
<1>4. lock \in [Locks -> LockRows]
  BY DEF Inv, Typed
<1>5. ASSUME NEW k \in Locks, NEW i \in 1 .. Len(lock[k].wait) PROVE lock[k].wait[i][1] # a
  <2> SUFFICES ASSUME lock[k].wait[i][1] = a PROVE FALSE
    OBVIOUS
  <2>1. k = l
    BY <1>0, StanderIs
  <2>2. i \in DOMAIN lock[k].wait
    BY <1>4, LockTypes
  <2> QED
    BY <1>1, <2>1, <2>2 DEF InLine
<1>6. CASE lock[l].wait = <<>> /\ Compatible(mode, lock[l].held)
  <2>1. Entering(a, l, <<>>)
    BY <1>0, <1>6 DEF Lock
  <2>2. <<>> \in Seq(Actors \X Modes) /\ \A i \in 1 .. Len(<<>>) : FALSE
    OBVIOUS
  <2> QED
    BY <1>0, <1>1, <1>3, <1>5, <1>6, <2>1, <2>2, EnteringInv
<1>7. CASE ~(lock[l].wait = <<>> /\ Compatible(mode, lock[l].held))
  <2> DEFINE w == lock[l].wait  v == Append(w, <<a, mode>>)
  <2>1. lock' = [lock EXCEPT ![l].wait = v] /\ todo' = todo
    BY <1>0, <1>7 DEF Lock
  <2>2. /\ v \in Seq(Actors \X Modes) /\ Len(v) = Len(w) + 1 /\ Len(w) \in Nat
        /\ v[Len(w) + 1] = <<a, mode>> /\ \A i \in 1 .. Len(w) : v[i] = w[i]
    <3>1. w \in Seq(Actors \X Modes) /\ Len(w) \in Nat /\ <<a, mode>> \in Actors \X Modes
      BY <1>2, <1>3, <1>4, LockTypes
    <3> HIDE DEF w
    <3> QED
      BY <3>1, AppendProperties
  <2> HIDE DEF v
  <2>3. /\ lock' \in [Locks -> LockRows] /\ lock'[l].wait = v
        /\ \A k \in Locks : lock'[k].held = lock[k].held /\ (k # l => lock'[k].wait = lock[k].wait)
    <3>1. lock[l] \in LockRows
      BY <1>3, <1>4
    <3>2. [lock[l] EXCEPT !.wait = v] \in LockRows /\ [lock[l] EXCEPT !.wait = v].wait = v
          /\ [lock[l] EXCEPT !.wait = v].held = lock[l].held
      BY <2>2, <3>1 DEF LockRows
    <3> QED
      BY <1>3, <1>4, <2>1, <3>2
  <2>4. HeldIn(lock)' /\ SharedIn(lock)'
    BY <2>1, <2>3 DEF Inv, HeldIn, SharedIn
  <2>5. Stands(lock, l)'
    <3> SUFFICES ASSUME NEW i \in 1 .. Len(v)
                 PROVE  /\ At(v[i][1], v[i][2]) /\ What(v[i][1]) = l
                        /\ \A j \in 1 .. Len(v) : i # j => v[i][1] # v[j][1]
      BY <2>1, <2>3 DEF Stands, At, Busy, What
    <3>1. CASE i = Len(w) + 1
      <4>1. v[i][1] = a /\ v[i][2] = mode
        BY <2>2, <3>1
      <4>2. ASSUME NEW j \in 1 .. Len(v), i # j PROVE v[j][1] # a
        <5>1. j \in 1 .. Len(w) /\ v[j] = w[j]
          BY <2>2, <3>1, <4>2
        <5> QED
          BY <1>3, <1>5, <5>1
      <4> QED
        BY <1>0, <1>2, <4>1, <4>2
    <3>2. CASE i # Len(w) + 1
      <4>1. i \in 1 .. Len(w) /\ v[i] = w[i]
        BY <2>2, <3>2
      <4>2. /\ At(w[i][1], w[i][2]) /\ What(w[i][1]) = l /\ w[i][1] # a
            /\ \A j \in 1 .. Len(w) : i # j => w[i][1] # w[j][1]
        BY <1>3, <1>5, <4>1, StanderIs
      <4>3. ASSUME NEW j \in 1 .. Len(v), i # j PROVE v[i][1] # v[j][1]
        <5>1. CASE j = Len(w) + 1
          BY <2>2, <4>1, <4>2, <5>1
        <5>2. CASE j # Len(w) + 1
          <6>1. j \in 1 .. Len(w) /\ v[j] = w[j]
            BY <2>2, <5>2
          <6> QED
            BY <4>1, <4>2, <4>3, <6>1
        <5> QED
          BY <5>1, <5>2
      <4> QED
        BY <4>1, <4>2, <4>3
    <3> QED
      BY <3>1, <3>2
  <2>6. ASSUME NEW k \in Locks, k # l PROVE Stands(lock, k)'
    <3>1. Stands(lock, k) /\ lock'[k].wait = lock[k].wait
      BY <2>3, <2>6 DEF Inv, LinesIn
    <3> QED
      BY <2>1, <3>1 DEF Stands, At, Busy, What
  <2>7. LinesIn(lock)'
    BY <2>5, <2>6 DEF LinesIn
  <2>8. Fitting' /\ Idle' /\ Counted' /\ Typed'
    <3>1. UNCHANGED <<todo, started, queue, calls, gossiped>>
      BY <1>1, <2>1
    <3> QED
      BY <2>3, <3>1 DEF Inv, Fitting, Idle, Counted, Typed, Passing, Spawning, At, Busy
  <2> QED
    BY <2>4, <2>7, <2>8 DEF Inv
<1> QED
  BY <1>6, <1>7

LEMMA GrantInv ==
  ASSUME Inv, NEW l \in Locks, Grant(l)
  PROVE  Inv'
<1> DEFINE w == lock[l].wait
<1>0. PICK a, mode : a = Head(w)[1] /\ mode = Head(w)[2]
  OBVIOUS
<1>1. /\ w # <<>> /\ Compatible(mode, lock[l].held) /\ Entering(a, l, Tail(w))
      /\ UNCHANGED <<started, queue, calls, gossiped>>
  BY <1>0 DEF Grant, CanGrant
<1>2. w \in Seq(Actors \X Modes)
  BY LockTypes DEF Inv, Typed
<1>3. ASSUME NEW k \in Locks, NEW i \in 1 .. Len(lock[k].wait)
      PROVE  /\ lock[k].wait[i][1] \in Actors /\ lock[k].wait[i][2] \in Modes
             /\ At(lock[k].wait[i][1], lock[k].wait[i][2]) /\ What(lock[k].wait[i][1]) = k
             /\ \A j \in 1 .. Len(lock[k].wait) : i # j => lock[k].wait[i][1] # lock[k].wait[j][1]
  BY StanderIs
<1>4. /\ Tail(w) \in Seq(Actors \X Modes) /\ Len(Tail(w)) = Len(w) - 1 /\ Len(w) \in Nat \ {0}
      /\ \A i \in 1 .. Len(Tail(w)) : Tail(w)[i] = w[i + 1]
      /\ Head(w) = w[1] /\ 1 \in 1 .. Len(w)
  <2> HIDE DEF w
  <2> QED
    BY <1>1, <1>2, HeadTailProperties, EmptySeq
<1>5. a \in Actors /\ mode \in Modes /\ At(a, mode) /\ What(a) = l /\ Head(todo[a]).do = mode
  BY <1>0, <1>3, <1>4 DEF At
<1>6. ASSUME NEW i \in 1 .. Len(Tail(w))
      PROVE  /\ Tail(w)[i][1] # a /\ At(Tail(w)[i][1], Tail(w)[i][2]) /\ What(Tail(w)[i][1]) = l
             /\ \A j \in 1 .. Len(Tail(w)) : i # j => Tail(w)[i][1] # Tail(w)[j][1]
  <2>1. i + 1 \in 1 .. Len(w) /\ i + 1 # 1 /\ Tail(w)[i] = w[i + 1]
    BY <1>4
  <2>2. Tail(w)[i][1] # a /\ At(Tail(w)[i][1], Tail(w)[i][2]) /\ What(Tail(w)[i][1]) = l
    BY <1>0, <1>3, <1>4, <2>1
  <2>3. ASSUME NEW j \in 1 .. Len(Tail(w)), i # j PROVE Tail(w)[i][1] # Tail(w)[j][1]
    <3>1. j + 1 \in 1 .. Len(w) /\ i + 1 # j + 1 /\ Tail(w)[j] = w[j + 1]
      BY <1>4, <2>3
    <3> QED
      BY <1>3, <2>1, <3>1
  <2> QED
    BY <2>2, <2>3
<1>7. ASSUME NEW k \in Locks, k # l, NEW i \in 1 .. Len(lock[k].wait) PROVE lock[k].wait[i][1] # a
  BY <1>3, <1>5, <1>7
<1>8. At(a, "read") \/ At(a, "write")
  BY <1>5 DEF Modes
<1>9. PICK v : v = Tail(w)
  OBVIOUS
<1>10. v \in Seq(Actors \X Modes) /\ Entering(a, l, v) /\ Compatible(Head(todo[a]).do, lock[l].held)
  BY <1>1, <1>4, <1>5, <1>9
<1>11. \A i \in 1 .. Len(v) : v[i][1] # a
  BY <1>6, <1>9
<1>12. \A i \in 1 .. Len(v) : At(v[i][1], v[i][2]) /\ What(v[i][1]) = l
  BY <1>6, <1>9
<1>13. \A i, j \in 1 .. Len(v) : i # j => v[i][1] # v[j][1]
  BY <1>6, <1>9
<1> QED
  BY <1>1, <1>5, <1>7, <1>8, <1>10, <1>11, <1>12, <1>13, EnteringInv

LEMMA AskInv ==
  ASSUME Inv, NEW a \in Actors, AskLoop(a)
  PROVE  Inv'
<1>1. /\ Len(calls) < CallCap /\ calls' = Append(calls, a)
      /\ UNCHANGED <<todo, started, lock, queue, gossiped>>
  BY DEF AskLoop, CanAsk
<1>2. calls' \in Seq(Actors \cup {"nobody"}) /\ Len(calls') <= CallCap
  <2>1. calls \in Seq(Actors \cup {"nobody"}) /\ Len(calls) \in Nat /\ CallCap \in Nat
    BY LenProperties, ConstantsAssumption DEF Inv, Typed
  <2> QED
    BY <1>1, <2>1, AppendProperties
<1>3. Typed'
  BY <1>1, <1>2 DEF Inv, Typed
<1>4. Fitting' /\ Idle' /\ Counted' /\ HeldIn(lock)' /\ SharedIn(lock)' /\ LinesIn(lock)'
  BY <1>1 DEF Inv, Fitting, Idle, Counted, Passing, Spawning, HeldIn, SharedIn, LinesIn, Stands,
              At, Busy, What
<1> QED
  BY <1>3, <1>4 DEF Inv

LEMMA VoteOverInv ==
  ASSUME Inv, NEW a \in Actors, VoteOver(a)
  PROVE  Inv'
<1>1. /\ At(a, "vote") /\ Advance(a, lock) /\ UNCHANGED <<started, queue, gossiped>>
      /\ calls' = [i \in DOMAIN calls |-> IF calls[i] = a THEN "nobody" ELSE calls[i]]
  BY DEF VoteOver, CanEnd
<1>2. Busy(a) /\ ~At(a, "read") /\ ~At(a, "write") /\ ~At(a, "spawn")
  BY <1>1 DEF At
<1>3. /\ todo' \in [Actors -> Seq(Op)] /\ lock' \in [Locks -> LockRows]
      /\ \A b \in Actors : b # a => todo'[b] = todo[b]
      /\ Fitting' /\ HeldIn(lock)' /\ SharedIn(lock)' /\ LinesIn(lock)'
      /\ Passing' <= Passing /\ Spawning' <= Spawning
  BY <1>1, <1>2, PlainlyAdvanced
<1>4. calls' \in Seq(Actors \cup {"nobody"}) /\ Len(calls') <= CallCap
  <2> DEFINE S == Actors \cup {"nobody"}
  <2>1. calls \in Seq(S) /\ Len(calls) <= CallCap
    BY DEF Inv, Typed
  <2> HIDE DEF S
  <2>2. Len(calls) \in Nat /\ DOMAIN calls = 1 .. Len(calls) /\ \A i \in 1 .. Len(calls) : calls[i] \in S
    BY <2>1, LenProperties, ElementOfSeq
  <2>3. "nobody" \in S
    BY DEF S
  <2>4. calls' \in [1 .. Len(calls) -> S]
    BY <1>1, <2>2, <2>3
  <2>5. calls' \in Seq(S) /\ Len(calls') = Len(calls)
    BY <2>2, <2>4
  <2> QED
    BY <2>1, <2>5 DEF S
<1>5. Typed'
  BY <1>1, <1>3, <1>4 DEF Inv, Typed
<1>6. Counted' /\ Idle'
  BY <1>1, <1>2, <1>3, CountsTyped, StillCounted, StillIdle
<1> QED
  BY <1>3, <1>5, <1>6 DEF Inv

LEMMA AnswerInv ==
  ASSUME Inv, Answer
  PROVE  Inv'
<1>1. calls # <<>> /\ calls' = Tail(calls) /\ UNCHANGED <<started, queue, gossiped>>
  BY DEF Answer, CanAnswer
<1>2. calls' \in Seq(Actors \cup {"nobody"}) /\ Len(calls') <= CallCap
  <2>1. calls \in Seq(Actors \cup {"nobody"}) /\ Len(calls) <= CallCap /\ CallCap \in Nat
    BY ConstantsAssumption DEF Inv, Typed
  <2>2. Tail(calls) \in Seq(Actors \cup {"nobody"}) /\ Len(Tail(calls)) = Len(calls) - 1 /\ Len(calls) \in Nat
    BY <1>1, <2>1, HeadTailProperties, LenProperties
  <2> QED
    BY <1>1, <2>1, <2>2
<1>3. CASE Head(calls) \in Actors /\ At(Head(calls), "call")
  <2>0. PICK a : a = Head(calls)
    OBVIOUS
  <2>1. a \in Actors /\ At(a, "call") /\ Advance(a, lock)
    BY <1>3, <2>0 DEF Answer
  <2>2. Busy(a) /\ ~At(a, "read") /\ ~At(a, "write") /\ ~At(a, "spawn")
    BY <2>1 DEF At
  <2>3. /\ todo' \in [Actors -> Seq(Op)] /\ lock' \in [Locks -> LockRows]
        /\ \A b \in Actors : b # a => todo'[b] = todo[b]
        /\ Fitting' /\ HeldIn(lock)' /\ SharedIn(lock)' /\ LinesIn(lock)'
        /\ Passing' <= Passing /\ Spawning' <= Spawning
    BY <2>1, <2>2, PlainlyAdvanced
  <2>4. Typed'
    BY <1>1, <1>2, <2>3 DEF Inv, Typed
  <2>5. Counted' /\ Idle'
    BY <1>1, <2>1, <2>2, <2>3, CountsTyped, StillCounted, StillIdle
  <2> QED
    BY <2>3, <2>4, <2>5 DEF Inv
<1>4. CASE ~(Head(calls) \in Actors /\ At(Head(calls), "call"))
  <2>1. UNCHANGED <<todo, lock>>
    BY <1>4 DEF Answer
  <2>2. Typed'
    BY <1>1, <1>2, <2>1 DEF Inv, Typed
  <2>3. Fitting' /\ Idle' /\ Counted' /\ HeldIn(lock)' /\ SharedIn(lock)' /\ LinesIn(lock)'
    BY <1>1, <2>1 DEF Inv, Fitting, Idle, Counted, Passing, Spawning, HeldIn, SharedIn, LinesIn,
                      Stands, At, Busy, What
  <2> QED
    BY <2>2, <2>3 DEF Inv
<1> QED
  BY <1>3, <1>4

(* What is sent is no block unless the loop sends it, and then it is done. *)
LEMMA SendInv ==
  ASSUME Inv, NEW a \in Actors, SendEvent(a)
  PROVE  Inv'
<1>0. PICK e : e = What(a)
  OBVIOUS
<1>1. /\ At(a, "send") /\ Advance(a, lock) /\ Len(queue) < QueueCap /\ queue' = Append(queue, e)
      /\ UNCHANGED <<started, calls, gossiped>>
  BY <1>0 DEF SendEvent, CanSend
<1>2. Busy(a) /\ ~At(a, "read") /\ ~At(a, "write") /\ ~At(a, "spawn")
  BY <1>1 DEF At
<1>3. /\ todo' \in [Actors -> Seq(Op)] /\ lock' \in [Locks -> LockRows] /\ todo'[a] = After(a)
      /\ \A b \in Actors : b # a => todo'[b] = todo[b]
      /\ Fitting' /\ HeldIn(lock)' /\ SharedIn(lock)' /\ LinesIn(lock)'
      /\ Passing' <= Passing /\ Spawning' <= Spawning
  BY <1>1, <1>2, PlainlyAdvanced
<1>4. /\ Fits(a, todo[a]) /\ todo[a] \in Seq(OpsOf(a)) /\ OpsOf(a) \subseteq Op /\ todo[a] # <<>>
      /\ 1 \in 1 .. Len(todo[a]) /\ Head(todo[a]) = todo[a][1]
      /\ todo[a][1] \in OpsOf(a) /\ todo[a][1].do = "send" /\ todo[a][1].what = e
  <2>1. Fits(a, todo[a]) /\ todo[a] \in Seq(OpsOf(a)) /\ OpsOf(a) \subseteq Op /\ todo[a] # <<>>
    BY <1>2 DEF Inv, Fitting, Fits, OpsOf, Busy
  <2>2. 1 \in 1 .. Len(todo[a]) /\ Head(todo[a]) = todo[a][1]
    BY <1>2, OpTypes DEF Inv
  <2> QED
    BY <1>0, <1>1, <2>1, <2>2, ElementOfSeq DEF At, What
<1>5. e \in Events /\ (a # Loop => e \notin Blocks)
  <2>1. todo[a][1] \in Op /\ (a # Loop => e \in Timeouts)
    BY <1>4 DEF OpsOf
  <2> QED
    BY <1>4, <2>1 DEF Op, Timeouts, Blocks
<1>6. queue \in Seq(Events)
  BY DEF Inv, Typed
<1>7. queue' \in Seq(Events) /\ Len(queue') <= QueueCap
  <2>1. Len(queue) \in Nat /\ QueueCap \in Nat
    BY <1>6, LenProperties, ConstantsAssumption
  <2> QED
    BY <1>1, <1>5, <1>6, <2>1, AppendProperties
<1>8. Cardinality(BlocksIn(queue')) <= Cardinality(BlocksIn(queue)) + (IF e \in Blocks THEN 1 ELSE 0)
  BY <1>1, <1>5, <1>6, BlocksAppended
<1>9. a = Loop => Passing = 1 /\ Passing' = 0
  <2> SUFFICES ASSUME a = Loop PROVE Passing = 1 /\ Passing' = 0
    OBVIOUS
  <2>1. SendsLast(todo[a])
    BY <1>4 DEF Fits
  <2>2. Len(todo[a]) = 1
    BY <1>4, <2>1 DEF SendsLast
  <2>3. Len(todo[a]) = (Drops(a) + 1) + Len(After(a)) /\ Len(After(a)) \in Nat /\ Drops(a) \in Nat
    BY <1>4, AfterIs
  <2>4. After(a) = <<>>
    <3>1. \A x, y \in Nat : 1 = (x + 1) + y => y = 0
      OBVIOUS
    <3>2. Len(After(a)) = 0
      BY <2>2, <2>3, <3>1
    <3>3. After(a) \in Seq(OpsOf(a))
      BY <1>4, AfterIs
    <3> QED
      BY <3>2, <3>3, EmptySeq
  <2> QED
    BY <1>2, <1>3, <2>4 DEF Passing, Busy
<1>10. Counted'
  <2>1. Cardinality(BlocksIn(queue')) \in Nat
    BY <1>7, BlocksFinite
  <2>2. Cardinality(BlocksIn(queue')) + Passing' <= Cardinality(BlocksIn(queue)) + Passing
    BY <1>3, <1>5, <1>8, <1>9, <2>1, Counts, CountsTyped
  <2>3. Cardinality(BlocksIn(queue)) + Passing + Spawning + Cardinality(started \cap Voters) <= gossiped
    BY DEF Inv, Counted
  <2>4. Cardinality(BlocksIn(queue')) + Passing' + Spawning' + Cardinality(started \cap Voters) <= gossiped
    <3>1. \A b, c, p, q, t, u, v, g \in Int :
            b + p <= c + q /\ t <= u /\ c + q + u + v <= g => b + p + t + v <= g
      OBVIOUS
    <3>2. /\ {Passing', Spawning', Passing, Spawning, gossiped} \subseteq Int
          /\ Cardinality(BlocksIn(queue)) \in Int /\ Cardinality(started \cap Voters) \in Int
      BY Counts, CountsTyped
    <3> QED
      BY <1>3, <2>1, <2>2, <2>3, <3>1, <3>2
  <2> QED
    BY <1>1, <2>4 DEF Counted
<1>11. Idle'
  BY <1>1, <1>2, <1>3, StillIdle
<1>12. Typed'
  BY <1>1, <1>3, <1>7 DEF Inv, Typed
<1> QED
  BY <1>3, <1>10, <1>11, <1>12 DEF Inv

(* Who is given a path that fits when it has none.                         *)
LEMMA Given ==
  ASSUME Inv, NEW a \in Actors, NEW path, Fits(a, path), ~Busy(a),
         todo' = [todo EXCEPT ![a] = path], lock' = lock
  PROVE  /\ todo' \in [Actors -> Seq(Op)] /\ lock' \in [Locks -> LockRows]
         /\ todo'[a] = path /\ \A b \in Actors : b # a => todo'[b] = todo[b]
         /\ Fitting' /\ HeldIn(lock)' /\ SharedIn(lock)' /\ LinesIn(lock)'
<1>1. path \in Seq(Op)
  BY SeqMonotonic DEF Fits, OpsOf
<1>2. todo \in [Actors -> Seq(Op)] /\ \A b \in Actors : Fits(b, todo[b])
  BY DEF Inv, Typed, Fitting
<1>3. /\ todo' \in [Actors -> Seq(Op)] /\ todo'[a] = path
      /\ \A b \in Actors : b # a => todo'[b] = todo[b]
  BY <1>1, <1>2
<1>4. /\ \A b \in Actors : Fits(b, todo'[b])
      /\ \A b \in Actors : todo'[b] = todo[b] \/ ~Busy(b) \/ At(b, "spawn")
  BY <1>2, <1>3
<1> QED
  BY <1>3, <1>4, LocksKept

LEMMA ReceiveInv ==
  ASSUME Inv, NEW path \in Gossip, Receive(path)
  PROVE  Inv'
<1>1. /\ ~Busy(Loop) /\ gossiped < MaxGossip /\ gossiped' = gossiped + 1
      /\ todo' = [todo EXCEPT ![Loop] = path] /\ UNCHANGED <<started, lock, queue, calls>>
  BY DEF Receive
<1>2. Loop \in Actors /\ Handler \in Actors /\ Loop # Handler /\ Loop \notin Tasks
  BY ConstantsAssumption DEF Actors, Loop, Handler
<1>3. /\ todo' \in [Actors -> Seq(Op)] /\ lock' \in [Locks -> LockRows]
      /\ \A b \in Actors : b # Loop => todo'[b] = todo[b]
      /\ Fitting' /\ HeldIn(lock)' /\ SharedIn(lock)' /\ LinesIn(lock)'
  BY <1>1, <1>2, GossipPaths, Given
<1>4. Passing = 0 /\ Passing' \in {0, 1} /\ Spawning' = Spawning
  BY <1>1, <1>2, <1>3 DEF Passing, Spawning, At, Busy
<1>5. Counted'
  <2>1. Cardinality(BlocksIn(queue)) + Passing + Spawning + Cardinality(started \cap Voters) <= gossiped
    BY DEF Inv, Counted
  <2>2. Cardinality(BlocksIn(queue)) + Passing' + Spawning' + Cardinality(started \cap Voters) <= gossiped + 1
    BY <1>4, <2>1, Counts
  <2> QED
    BY <1>1, <2>2 DEF Counted
<1>6. Idle'
  <2>1. \A b \in Tasks : b \in Actors /\ b # Loop
    BY TaskIs
  <2> QED
    BY <1>1, <1>3, <2>1 DEF Inv, Idle
<1>7. Typed'
  <2>1. gossiped' \in 0 .. MaxGossip
    <3>1. MaxGossip \in Nat
      BY ConstantsAssumption, FS_CardinalityType
    <3> QED
      BY <1>1, <3>1 DEF Inv, Typed
  <2> QED
    BY <1>1, <1>3, <2>1 DEF Inv, Typed
<1> QED
  BY <1>3, <1>5, <1>6, <1>7 DEF Inv

LEMMA HandleEventInv ==
  ASSUME Inv, HandleEvent
  PROVE  Inv'
<1>1. /\ ~Busy(Handler) /\ queue # <<>> /\ queue' = Tail(queue)
      /\ UNCHANGED <<started, lock, calls, gossiped>>
  BY DEF HandleEvent, CanHandle
<1>2. PICK path \in Handling(Head(queue)) : todo' = [todo EXCEPT ![Handler] = path]
  BY DEF HandleEvent
<1>3. Loop \in Actors /\ Handler \in Actors /\ Loop # Handler
  BY DEF Actors, Loop, Handler
<1>4. queue \in Seq(Events) /\ Head(queue) \in Events
  <2>1. queue \in Seq(Events)
    BY DEF Inv, Typed
  <2> QED
    BY <1>1, <2>1, HeadTailProperties
<1>5. Fits(Handler, path) /\ (path # <<>> /\ Head(path).do = "spawn" => Head(queue) \in Blocks)
  BY <1>2, <1>4, HandlingPaths
<1>6. /\ todo' \in [Actors -> Seq(Op)] /\ lock' \in [Locks -> LockRows] /\ todo'[Handler] = path
      /\ \A b \in Actors : b # Handler => todo'[b] = todo[b]
      /\ Fitting' /\ HeldIn(lock)' /\ SharedIn(lock)' /\ LinesIn(lock)'
  BY <1>1, <1>2, <1>3, <1>5, Given
<1>7. Passing' = Passing /\ Spawning = 0 /\ Spawning' <= (IF Head(queue) \in Blocks THEN 1 ELSE 0)
  <2>1. Passing' = Passing
    BY <1>3, <1>6 DEF Passing, Busy
  <2>2. Spawning = 0
    BY <1>1 DEF Spawning, At
  <2>3. At(Handler, "spawn")' => Head(queue) \in Blocks
    BY <1>5, <1>6 DEF At, Busy
  <2> QED
    BY <2>1, <2>2, <2>3 DEF Spawning
<1>8. queue' \in Seq(Events) /\ Len(queue') <= QueueCap
  <2>1. Len(queue) <= QueueCap /\ QueueCap \in Nat
    BY ConstantsAssumption DEF Inv, Typed
  <2>2. Tail(queue) \in Seq(Events) /\ Len(Tail(queue)) = Len(queue) - 1 /\ Len(queue) \in Nat
    BY <1>1, <1>4, HeadTailProperties, LenProperties
  <2> QED
    BY <1>1, <2>1, <2>2
<1>9. Counted'
  <2>1. Cardinality(BlocksIn(queue)) + Passing + Spawning + Cardinality(started \cap Voters) <= gossiped
    BY DEF Inv, Counted
  <2>2. Cardinality(BlocksIn(queue')) + (IF Head(queue) \in Blocks THEN 1 ELSE 0) <= Cardinality(BlocksIn(queue))
    BY <1>1, <1>4, BlocksTaken
  <2>3. Cardinality(BlocksIn(queue')) \in Nat
    BY <1>8, BlocksFinite
  <2>4. Cardinality(BlocksIn(queue')) + Passing' + Spawning' + Cardinality(started \cap Voters) <= gossiped
    BY <1>7, <2>1, <2>2, <2>3, Counts, CountsTyped
  <2> QED
    BY <1>1, <2>4 DEF Counted
<1>10. Idle'
  <2>1. \A b \in Tasks : b \in Actors /\ b # Handler
    BY TaskIs
  <2> QED
    BY <1>1, <1>6, <2>1 DEF Inv, Idle
<1>11. Typed'
  BY <1>1, <1>6, <1>8 DEF Inv, Typed
<1> QED
  BY <1>6, <1>9, <1>10, <1>11 DEF Inv

(* There is always a name left for a ballot on another's block.            *)
LEMMA VoterIsThere ==
  ASSUME Inv, At(Handler, "spawn")
  PROVE  \E v \in Voters : v \notin started
<1> SUFFICES ASSUME Voters \subseteq started PROVE FALSE
  OBVIOUS
<1>1. started \cap Voters = Voters
  OBVIOUS
<1>2. Spawning = 1
  BY DEF Spawning
<1>3. Cardinality(BlocksIn(queue)) + Passing + Spawning + Cardinality(started \cap Voters) <= gossiped
  BY DEF Inv, Counted
<1>4. gossiped <= Cardinality(Voters) /\ Cardinality(Voters) \in Nat
  <2>1. Cardinality(Voters) \in Nat /\ MaxGossip \in 0 .. Cardinality(Voters) /\ gossiped \in 0 .. MaxGossip
    BY ConstantsAssumption, FS_CardinalityType DEF Inv, Typed
  <2> QED
    BY <2>1
<1>5. Cardinality(BlocksIn(queue)) \in Nat /\ Passing \in Nat /\ gossiped \in Nat
  BY Counts
<1>6. Cardinality(started \cap Voters) = Cardinality(Voters)
  BY <1>1
<1> QED
  BY <1>2, <1>3, <1>4, <1>5, <1>6

LEMMA SpawnVoterInv ==
  ASSUME Inv, SpawnVoter
  PROVE  Inv'
<1>0. PICK v, e : v = (CHOOSE x \in Voters : x \notin started) /\ e = What(Handler)
  OBVIOUS
<1>1. /\ At(Handler, "spawn") /\ started' = started \cup {v}
      /\ todo' = [todo EXCEPT ![Handler] = Tail(@), ![v] = Timer(e)]
      /\ UNCHANGED <<lock, queue, calls, gossiped>>
  BY <1>0 DEF SpawnVoter
<1>2. v \in Voters /\ v \notin started
  BY <1>0, <1>1, VoterIsThere
<1>3. v \in Tasks /\ v \in Actors /\ v # Handler /\ v # Loop /\ todo[v] = <<>> /\ ~Busy(v)
  <2>1. v \in Tasks
    BY <1>2 DEF Tasks
  <2> QED
    BY <1>2, <2>1, TaskIs DEF Inv, Idle, Busy
<1>4. Handler \in Actors /\ Handler # Loop /\ Loop \in Actors
  BY DEF Actors, Loop, Handler
<1>5. /\ Fits(Handler, todo[Handler]) /\ Busy(Handler) /\ todo[Handler] \in Seq(OpsOf(Handler))
      /\ todo[Handler] # <<>> /\ SpawnsFirst(todo[Handler])
      /\ 1 \in 1 .. Len(todo[Handler]) /\ Head(todo[Handler]) = todo[Handler][1]
      /\ todo[Handler][1].do = "spawn" /\ todo[Handler][1].what = e
  <2>1. Fits(Handler, todo[Handler]) /\ Busy(Handler)
    BY <1>1, <1>4 DEF Inv, Fitting, At
  <2>2. 1 \in 1 .. Len(todo[Handler]) /\ Head(todo[Handler]) = todo[Handler][1]
    BY <1>4, <2>1, OpTypes DEF Inv
  <2> QED
    BY <1>0, <1>1, <2>1, <2>2 DEF Fits, At, What, Busy
<1>6. e \in Timeouts
  <2>1. todo[Handler][1] \in OpsOf(Handler)
    BY <1>5, ElementOfSeq
  <2> QED
    BY <1>5, <2>1 DEF OpsOf, Handler, Loop
<1>7. Fits(v, Timer(e))
  BY <1>2, <1>3, <1>6, TimerPath, TaskFits
<1> DEFINE p == Tail(todo[Handler])
<1>8. /\ p \in Seq(OpsOf(Handler)) /\ Len(p) = Len(todo[Handler]) - 1
      /\ \A i \in 1 .. Len(p) : p[i] = todo[Handler][i + 1]
  BY <1>5, HeadTailProperties
<1>9. \A i \in 1 .. Len(p) : p[i] = Call
  <2> SUFFICES ASSUME NEW i \in 1 .. Len(p) PROVE p[i] = Call
    OBVIOUS
  <2>1. Len(todo[Handler]) \in Nat
    BY <1>5, LenProperties
  <2>2. p[i] = todo[Handler][i + 1] /\ i + 1 \in 2 .. Len(todo[Handler])
    BY <1>8, <2>1
  <2> QED
    BY <1>5, <2>2 DEF SpawnsFirst
<1> HIDE DEF p
<1>10. Fits(Handler, p) /\ (p # <<>> => Head(p).do # "spawn")
  <2>1. p \in Seq(Handled)
    <3>1. Len(p) \in Nat /\ p \in [1 .. Len(p) -> OpsOf(Handler)]
      BY <1>8, LenProperties
    <3>2. p \in [1 .. Len(p) -> Handled]
      <4>1. Call \in Handled
        BY OpsAre DEF Handled, Call, Modes
      <4> QED
        BY <1>9, <3>1, <4>1
    <3> QED
      BY <3>1, <3>2
  <2>2. p # <<>> => 1 \in 1 .. Len(p)
    BY <1>8, EmptySeq
  <2>3. Call.do = "call"
    BY DEF Call
  <2>4. Path(p)
    BY <1>9, <2>2, <2>3 DEF Path, Modes
  <2> QED
    BY <2>1, <2>4, PlainHandled DEF IsPath
<1>11. /\ todo' \in [Actors -> Seq(Op)] /\ todo'[Handler] = p /\ todo'[v] = Timer(e)
       /\ \A b \in Actors : b # Handler /\ b # v => todo'[b] = todo[b]
  <2>1. todo \in [Actors -> Seq(Op)]
    BY DEF Inv, Typed
  <2>2. p \in Seq(Op) /\ Timer(e) \in Seq(Op)
    BY <1>7, <1>10, SeqMonotonic DEF Fits, OpsOf
  <2> QED
    BY <1>1, <1>3, <1>4, <2>1, <2>2 DEF p
<1>12. Fitting' /\ HeldIn(lock)' /\ SharedIn(lock)' /\ LinesIn(lock)' /\ lock' \in [Locks -> LockRows]
  <2>1. \A b \in Actors : Fits(b, todo'[b])
    BY <1>7, <1>10, <1>11 DEF Inv, Fitting
  <2>2. \A b \in Actors : todo'[b] = todo[b] \/ ~Busy(b) \/ At(b, "spawn")
    BY <1>1, <1>3, <1>11
  <2> QED
    BY <1>1, <1>11, <2>1, <2>2, LocksKept
<1>13. Passing' = Passing /\ Spawning = 1 /\ Spawning' = 0
  BY <1>1, <1>3, <1>4, <1>10, <1>11 DEF Passing, Spawning, At, Busy
<1>14. Counted'
  <2>1. Cardinality(BlocksIn(queue)) + Passing + Spawning + Cardinality(started \cap Voters) <= gossiped
    BY DEF Inv, Counted
  <2>2. started' \cap Voters = (started \cap Voters) \cup {v} /\ v \notin started \cap Voters
    BY <1>1, <1>2
  <2>3. Cardinality(started' \cap Voters) = Cardinality(started \cap Voters) + 1
    BY <2>2, Counts, FS_AddElement
  <2>4. Cardinality(BlocksIn(queue)) + Passing' + Spawning' + Cardinality(started' \cap Voters) <= gossiped
    BY <1>13, <2>1, <2>3, Counts
  <2> QED
    BY <1>1, <2>4 DEF Counted
<1>15. Idle'
  <2>1. ASSUME NEW b \in Tasks \ started' PROVE todo'[b] = <<>>
    <3>1. b \in Actors /\ b # Handler /\ b # v /\ b \in Tasks \ started
      BY <1>1, <2>1, TaskIs
    <3> QED
      BY <1>11, <3>1 DEF Inv, Idle
  <2> QED
    BY <2>1 DEF Idle
<1>16. Typed'
  BY <1>1, <1>3, <1>11, <1>12 DEF Inv, Typed
<1> QED
  BY <1>12, <1>14, <1>15, <1>16 DEF Inv

LEMMA StartInv ==
  ASSUME Inv, NEW a \in Tasks \ Voters, NEW path, Fits(a, path), Start(a, path)
  PROVE  Inv'
<1>1. /\ a \notin started /\ started' = started \cup {a} /\ todo' = [todo EXCEPT ![a] = path]
      /\ UNCHANGED <<lock, queue, calls, gossiped>>
  BY DEF Start
<1>2. a \in Actors /\ a # Loop /\ a # Handler /\ ~Busy(a)
  BY <1>1, TaskIs DEF Inv, Idle, Busy
<1>3. /\ todo' \in [Actors -> Seq(Op)] /\ lock' \in [Locks -> LockRows]
      /\ \A b \in Actors : b # a => todo'[b] = todo[b]
      /\ Fitting' /\ HeldIn(lock)' /\ SharedIn(lock)' /\ LinesIn(lock)'
  BY <1>1, <1>2, Given
<1>4. Passing' = Passing /\ Spawning' = Spawning
  BY <1>2, <1>3 DEF Passing, Spawning, At, Busy, Actors
<1>5. started' \cap Voters = started \cap Voters
  BY <1>1
<1>6. Counted'
  BY <1>1, <1>4, <1>5 DEF Inv, Counted
<1>7. Idle'
  <2>1. ASSUME NEW b \in Tasks \ started' PROVE todo'[b] = <<>>
    <3>1. b \in Actors /\ b # a /\ b \in Tasks \ started
      BY <1>1, <2>1, TaskIs
    <3> QED
      BY <1>3, <3>1 DEF Inv, Idle
  <2> QED
    BY <2>1 DEF Idle
<1>8. Typed'
  BY <1>1, <1>3 DEF Inv, Typed
<1> QED
  BY <1>3, <1>6, <1>7, <1>8 DEF Inv

LEMMA NextInv ==
  Inv /\ [Next]_vars => Inv'
<1> SUFFICES ASSUME Inv, [Next]_vars PROVE Inv'
  OBVIOUS
<1>1. ASSUME NEW a \in Orders, NEW path \in Publish, Start(a, path) PROVE Inv'
  <2>1. a \in Tasks \ Voters
    BY ConstantsAssumption DEF Tasks
  <2> QED
    BY <1>1, <2>1, PublishPaths, TaskFits, StartInv
<1>2. ASSUME NEW a \in Updates, NEW path \in SendUpdate, Start(a, path) PROVE Inv'
  <2>1. a \in Tasks \ Voters
    BY ConstantsAssumption DEF Tasks
  <2> QED
    BY <1>2, <2>1, UpdatePaths, TaskFits, StartInv
<1>3. ASSUME NEW a \in Joins, NEW path \in HelloSubscribe, Start(a, path) PROVE Inv'
  <2>1. a \in Tasks \ Voters
    BY ConstantsAssumption DEF Tasks
  <2> QED
    BY <1>3, <2>1, JoinPaths, TaskFits, StartInv
<1>4. ASSUME NEW path \in Gossip, Receive(path) PROVE Inv'
  BY <1>4, ReceiveInv
<1>5. ASSUME NEW a \in Actors, Work(a) PROVE Inv'
  BY <1>5, LockInv, AskInv, SendInv DEF Work
<1>6. ASSUME NEW l \in Locks, Grant(l) PROVE Inv'
  BY <1>6, GrantInv
<1>7. ASSUME Answer \/ HandleEvent \/ SpawnVoter PROVE Inv'
  BY <1>7, AnswerInv, HandleEventInv, SpawnVoterInv
<1>8. ASSUME NEW a \in Orders \cup Voters, VoteOver(a) PROVE Inv'
  <2>1. a \in Actors
    BY DEF Actors, Tasks
  <2> QED
    BY <1>8, <2>1, VoteOverInv
<1>9. ASSUME UNCHANGED vars PROVE Inv'
  BY <1>9 DEF vars, Inv, Typed, Fitting, Idle, Counted, Passing, Spawning, HeldIn, SharedIn, LinesIn,
              Stands, At, Busy, What
<1> QED
  BY <1>1, <1>2, <1>3, <1>4, <1>5, <1>6, <1>7, <1>8, <1>9 DEF Next, Begin, Progress, Handle, TimerEnds

(* Spec keeps the invariant: paths fit who takes them (activity.rs 117-272, *)
(* 278-413, 774-882), who holds a lock has in front of him what While says, *)
(* lines are of those that wait, and a ballot has a name.                   *)
THEOREM SwarmInvariant == Spec => []Inv
<1>1. Init => Inv
  BY InitInv
<1>2. Inv /\ [Next]_vars => Inv'
  BY NextInv
<1> QED
  BY <1>1, <1>2, PTL DEF Spec

-----------------------------------------------------------------------------
(* Types.                                                                  *)

LEMMA InvTypes ==
  Inv => TypeOK
<1> SUFFICES ASSUME Inv PROVE TypeOK
  OBVIOUS
<1>1. ASSUME NEW l \in Locks, NEW a \in Actors, NEW h \in lock[l].held, h[1] = a
      PROVE  Contains(todo[a], Drop(l))
  <2>1. Rest(l, todo[a], 0)
    BY <1>1 DEF Inv, HeldIn
  <2>2. Len(todo[a]) \in Nat
    BY LenProperties DEF Inv, Typed
  <2> QED
    BY <2>1, <2>2 DEF Rest, Contains
<1>2. SharedIn(lock) /\ Typed
  BY DEF Inv
<1> QED
  BY <1>1, <1>2 DEF TypeOK, Typed, SharedIn

(* The types of the model, the bounds of the channels to the loop and to    *)
(* the handler (node/master/mod.rs 102-143), and that a lock has readers or *)
(* one writer, who have it to drop.                                         *)
THEOREM SwarmTypes == Spec => []TypeOK
<1>1. Inv => TypeOK
  BY InvTypes
<1> QED
  BY <1>1, SwarmInvariant, PTL

-----------------------------------------------------------------------------
(* Circles.                                                                *)

LEMMA RunsAll ==
  ASSUME Workers > 1, NEW a
  PROVE  Runs(a)
  BY DEF Runs

LEMMA WaitsWhere ==
  ASSUME Inv, Workers > 1, NEW a, NEW b, WaitsFor(a, b)
  PROVE  \/ \E l \in Locks : \E i \in 1 .. Len(lock[l].wait) :
              /\ lock[l].wait[i][1] = a
              /\ (\E h \in lock[l].held : h[1] = b) \/ \E j \in 1 .. i - 1 : lock[l].wait[j][1] = b
         \/ b = Loop /\ Busy(Loop) /\ At(a, "call")
         \/ b = Handler /\ Busy(Handler) /\ At(a, "send") /\ Len(queue) = QueueCap
<1>1. \A l \in Locks : DOMAIN lock[l].wait = 1 .. Len(lock[l].wait)
  BY LockTypes DEF Inv, Typed
<1> QED
  BY <1>1, RunsAll DEF WaitsFor

(* In line at a lock whose holders are not in D somebody waits for nobody  *)
(* in D.                                                                   *)
LEMMA NoneInLine ==
  ASSUME Inv, Workers > 1, NEW D \in SUBSET Actors, ~Opens(D), NEW l \in Locks,
         \A h \in lock[l].held : h[1] \notin D, NEW i \in 1 .. Len(lock[l].wait)
  PROVE  lock[l].wait[i][1] \notin D
<1> SUFFICES ASSUME lock[l].wait[i][1] \in D PROVE FALSE
  OBVIOUS
<1> DEFINE w == lock[l].wait  T == {n \in 1 .. Len(w) : w[n][1] \in D}
<1>1. T \in SUBSET Nat /\ T # {}
  <2>1. i \in T /\ T \subseteq 1 .. Len(w) /\ 1 .. Len(w) \subseteq Nat
    BY LockTypes DEF Inv, Typed
  <2> QED
    BY <2>1, Zenon
<1>2. PICK m \in T : \A n \in T : m <= n
  BY <1>1, Smallest
<1>3. m \in 1 .. Len(w) /\ w[m][1] \in D /\ m \in Nat
  BY <1>1, <1>2
<1> HIDE DEF T
<1>4. PICK b : b = w[m][1]
  OBVIOUS
<1>5. PICK c \in D : WaitsFor(b, c)
  BY <1>3, <1>4 DEF Opens
<1>6. /\ b \in Actors /\ ~At(b, "call") /\ ~At(b, "send") /\ What(b) = l
      /\ \A j \in 1 .. Len(w) : m # j => b # w[j][1]
  BY <1>3, <1>4, StanderIs DEF At, Modes
<1>7. PICK k \in Locks : \E n \in 1 .. Len(lock[k].wait) :
              /\ lock[k].wait[n][1] = b
              /\ (\E h \in lock[k].held : h[1] = c) \/ \E j \in 1 .. n - 1 : lock[k].wait[j][1] = c
  BY <1>5, <1>6, WaitsWhere
<1>8. k = l
  BY <1>6, <1>7, StanderIs
<1>9. (\E h \in lock[l].held : h[1] = c) \/ \E j \in 1 .. m - 1 : w[j][1] = c
  BY <1>6, <1>7, <1>8
<1>10. PICK j \in 1 .. m - 1 : w[j][1] = c
  BY <1>5, <1>9
<1>11. j \in T /\ ~(m <= j)
  BY <1>3, <1>5, <1>10, LockTypes DEF T, Inv, Typed
<1> QED
  BY <1>2, <1>11

(* What the loop and the handler can wait for.                             *)
LEMMA LoopWaits ==
  ASSUME Inv, NEW a \in Actors, Busy(a)
  PROVE  /\ Head(todo[a]).do \in Kinds(a) \ {"drop"} /\ Head(todo[a]) \in Op
         /\ a = Loop /\ Head(todo[a]).do \in Modes => What(a) = "conf"
         /\ a = Handler /\ Head(todo[a]).do \in Modes => What(a) = "approved_blocks"
<1>1. Fits(a, todo[a]) /\ todo[a] # <<>>
  BY DEF Inv, Fitting, Busy
<1>2. 1 \in 1 .. Len(todo[a]) /\ Head(todo[a]) = todo[a][1]
  BY OpTypes DEF Inv
<1>3. Head(todo[a]) \in OpsOf(a) /\ Head(todo[a]).do # "drop"
  BY <1>1, <1>2, ElementOfSeq DEF Fits, Path
<1> QED
  BY <1>3 DEF OpsOf, What

LEMMA OnlyTheJam ==
  ASSUME Inv, Workers > 1, NEW D \in SUBSET Actors, D # {}, ~Opens(D)
  PROVE  Jam /\ {Loop, Handler} \subseteq D
<1> DEFINE Stood(a) == \E l \in Locks : \E i \in 1 .. Len(lock[l].wait) : lock[l].wait[i][1] = a
<1>1. ASSUME NEW a \in D
      PROVE  \/ Stood(a) /\ Head(todo[a]).do \in Modes /\ \E i \in 1 .. Len(lock[What(a)].wait) :
                                                            What(a) \in Locks /\ lock[What(a)].wait[i][1] = a
             \/ Loop \in D /\ Busy(Loop) /\ At(a, "call")
             \/ Handler \in D /\ Busy(Handler) /\ At(a, "send") /\ Len(queue) = QueueCap
  <2>1. PICK b \in D : WaitsFor(a, b)
    BY <1>1 DEF Opens
  <2>2. CASE b = Loop /\ Busy(Loop) /\ At(a, "call")
    BY <2>1, <2>2
  <2>3. CASE b = Handler /\ Busy(Handler) /\ At(a, "send") /\ Len(queue) = QueueCap
    BY <2>1, <2>3
  <2>4. CASE \E l \in Locks : \E i \in 1 .. Len(lock[l].wait) : lock[l].wait[i][1] = a
    <3>1. PICK l \in Locks : \E i \in 1 .. Len(lock[l].wait) : lock[l].wait[i][1] = a
      BY <2>4
    <3>2. At(a, Head(todo[a]).do) /\ Head(todo[a]).do \in Modes /\ What(a) = l
      <4>1. PICK i \in 1 .. Len(lock[l].wait) : lock[l].wait[i][1] = a
        BY <3>1
      <4>2. /\ lock[l].wait[i][2] \in Modes /\ At(a, lock[l].wait[i][2]) /\ What(a) = l
        BY <4>1, StanderIs
      <4> QED
        BY <4>2 DEF At
    <3> QED
      BY <2>4, <3>1, <3>2
  <2> QED
    BY <2>1, <2>2, <2>3, <2>4, WaitsWhere
<1> HIDE DEF Stood
<1>2. ASSUME NEW h \in lock["conf"].held PROVE h[1] \notin D
  BY <1>1, HolderIs DEF Locks, At, Modes
<1>3. ASSUME NEW a \in D, Head(todo[a]).do \in Modes PROVE What(a) # "conf"
  <2>1. \A i \in 1 .. Len(lock["conf"].wait) : lock["conf"].wait[i][1] \notin D
    BY <1>2, NoneInLine DEF Locks
  <2> QED
    BY <1>1, <1>3, <2>1 DEF At, Modes
<1>4. ASSUME NEW h \in lock["approved_blocks"].held PROVE h[1] \notin D
  BY <1>3, HolderIs DEF Locks, At, Modes
<1>5. ASSUME NEW a \in D, Head(todo[a]).do \in Modes PROVE What(a) # "approved_blocks"
  <2>1. \A i \in 1 .. Len(lock["approved_blocks"].wait) : lock["approved_blocks"].wait[i][1] \notin D
    BY <1>4, NoneInLine DEF Locks
  <2> QED
    BY <1>1, <1>5, <2>1 DEF At, Modes
<1>6. Handler \in D => At(Handler, "call") /\ Loop \in D
  <2> SUFFICES ASSUME Handler \in D PROVE At(Handler, "call") /\ Loop \in D
    OBVIOUS
  <2>1. Busy(Handler)
    <3>1. Stood(Handler) => Busy(Handler)
      BY StanderIs DEF Stood
    <3> QED
      BY <1>1, <3>1 DEF At
  <2>2. Head(todo[Handler]).do # "send" /\ Head(todo[Handler]).do \notin Modes
    BY <1>5, <2>1, LoopWaits DEF Kinds, Handler, Loop, Modes
  <2> QED
    BY <1>1, <2>2 DEF At
<1>7. Loop \in D => Jam /\ {Loop, Handler} \subseteq D
  <2> SUFFICES ASSUME Loop \in D PROVE Jam /\ Handler \in D
    OBVIOUS
  <2>1. Busy(Loop)
    <3>1. Stood(Loop) => Busy(Loop)
      BY StanderIs DEF Stood
    <3> QED
      BY <1>1, <3>1 DEF At
  <2>2. Head(todo[Loop]).do # "call" /\ Head(todo[Loop]).do \notin Modes
    BY <1>3, <2>1, LoopWaits DEF Kinds, Modes
  <2>3. Handler \in D /\ At(Loop, "send") /\ Len(queue) = QueueCap
    BY <1>1, <2>2 DEF At
  <2> QED
    BY <1>6, <2>3 DEF Jam
<1>8. Loop \in D
  <2> SUFFICES ASSUME Loop \notin D PROVE FALSE
    OBVIOUS
  <2>1. Handler \notin D
    BY <1>6
  <2>2. ASSUME NEW h \in lock["subscribed_nodes"].held PROVE h[1] \notin D
    BY <1>1, HolderIs DEF Locks, At, Modes
  <2>3. \A i \in 1 .. Len(lock["subscribed_nodes"].wait) : lock["subscribed_nodes"].wait[i][1] \notin D
    BY <2>2, NoneInLine DEF Locks
  <2>4. PICK a \in D : TRUE
    OBVIOUS
  <2>5. Head(todo[a]).do \in Modes /\ \E i \in 1 .. Len(lock[What(a)].wait) :
                                        What(a) \in Locks /\ lock[What(a)].wait[i][1] = a
    BY <1>1, <2>1
  <2>6. What(a) # "conf" /\ What(a) # "approved_blocks"
    BY <1>3, <1>5, <2>5
  <2> QED
    BY <2>3, <2>5, <2>6 DEF Locks
<1> QED
  BY <1>7, <1>8

LEMMA SomebodyServes ==
  ASSUME Inv, Workers > 1, NEW a \in Actors, Busy(a)
  PROVE  Goes(a) \/ \E b \in Actors : WaitsFor(a, b)
<1> SUFFICES ASSUME \A b \in Actors : ~WaitsFor(a, b) PROVE Goes(a)
  OBVIOUS
<1>1. Runs(a)
  BY RunsAll
<1>2. Loop \in Actors /\ Handler \in Actors
  BY DEF Actors
<1>3. PICK do : do = Head(todo[a]).do
  OBVIOUS
<1>4. At(a, do) /\ do \in Kinds(a) \ {"drop"} /\ do \in Modes \cup {"call", "vote", "send", "spawn"}
  <2>1. do \in Kinds(a) \ {"drop"}
    BY <1>3, LoopWaits
  <2> QED
    BY <1>3, <2>1 DEF At, Kinds, Modes
<1>5. CASE do \in Modes
  <2>1. At(a, "read") \/ At(a, "write")
    BY <1>4, <1>5 DEF Modes
  <2>2. CASE ~InLine(a, What(a))
    BY <1>1, <2>1, <2>2 DEF Goes, CanLock
  <2>3. CASE InLine(a, What(a))
    <3>0. PICK l : l = What(a)
      OBVIOUS
    <3>1. l \in Locks /\ lock \in [Locks -> LockRows]
      <4>1. Head(todo[a]) \in Op
        BY LoopWaits
      <4> QED
        BY <1>3, <1>5, <3>0, <4>1 DEF Op, Modes, What, Inv, Typed
    <3>2. /\ Len(lock[l].wait) \in Nat /\ DOMAIN lock[l].wait = 1 .. Len(lock[l].wait)
          /\ lock[l].held \in SUBSET (Actors \X Modes) /\ lock[l].wait \in Seq(Actors \X Modes)
      BY <3>1, LockTypes
    <3>3. PICK i \in 1 .. Len(lock[l].wait) : lock[l].wait[i][1] = a
      BY <2>3, <3>0, <3>2 DEF InLine
    <3>4. 1 \in 1 .. Len(lock[l].wait) /\ lock[l].wait # <<>> /\ Head(lock[l].wait) = lock[l].wait[1]
      BY <3>2, <3>3
    <3>5. i = 1
      <4> SUFFICES ASSUME i # 1 PROVE FALSE
        OBVIOUS
      <4>1. 1 \in 1 .. i - 1 /\ lock[l].wait[1][1] \in Actors
        BY <3>1, <3>2, <3>4, StanderIs
      <4>2. i \in DOMAIN lock[l].wait
        BY <3>2
      <4>3. WaitsFor(a, lock[l].wait[1][1])
        BY <3>1, <3>3, <4>1, <4>2 DEF WaitsFor
      <4> QED
        BY <4>1, <4>3
    <3>6. PICK m : m = lock[l].wait[1][2]
      OBVIOUS
    <3>7. ASSUME NEW h \in lock[l].held PROVE Compatible(m, {h})
      <4> SUFFICES ASSUME ~Compatible(m, {h}) PROVE FALSE
        OBVIOUS
      <4>1. WaitsFor(a, h[1])
        BY <3>1, <3>2, <3>3, <3>4, <3>5, <3>6 DEF WaitsFor
      <4>2. h[1] \in Actors
        BY <3>2
      <4> QED
        BY <4>1, <4>2
    <3>8. Compatible(m, lock[l].held)
      BY <3>7 DEF Compatible
    <3>9. CanGrant(l) /\ Head(lock[l].wait)[1] = a
      BY <3>3, <3>4, <3>5, <3>6, <3>8 DEF CanGrant
    <3> QED
      BY <3>1, <3>9 DEF Goes
  <2> QED
    BY <2>2, <2>3
<1>6. CASE do = "call"
  <2>1. ~Busy(Loop)
    BY <1>2, <1>4, <1>6 DEF WaitsFor
  <2>2. CallCap \in Nat \ {0} /\ calls \in Seq(Actors \cup {"nobody"}) /\ Len(calls) \in Nat
    BY ConstantsAssumption, LenProperties DEF Inv, Typed
  <2>3. CASE calls = <<>>
    <3>1. ~Contains(calls, a) /\ Len(calls) < CallCap
      BY <2>2, <2>3 DEF Contains
    <3> QED
      BY <1>1, <1>4, <1>6, <3>1 DEF Goes, CanAsk
  <2>4. CASE calls # <<>>
    BY <1>4, <1>6, <2>1, <2>4 DEF Goes, CanAnswer
  <2> QED
    BY <2>3, <2>4
<1>7. CASE do = "vote"
  <2>1. a \in Orders \cup Voters
    BY <1>4, <1>7 DEF Kinds, Modes
  <2> QED
    BY <1>1, <1>4, <1>7, <2>1 DEF Goes, CanEnd
<1>8. CASE do = "send"
  <2>1. QueueCap \in Nat \ {0} /\ queue \in Seq(Events) /\ Len(queue) \in Nat /\ Len(queue) <= QueueCap
    BY ConstantsAssumption, LenProperties DEF Inv, Typed
  <2>2. CASE Len(queue) < QueueCap
    BY <1>1, <1>4, <1>8, <2>2 DEF Goes, CanSend
  <2>3. CASE ~(Len(queue) < QueueCap)
    <3>1. Len(queue) = QueueCap /\ queue # <<>>
      BY <2>1, <2>3
    <3>2. ~Busy(Handler)
      BY <1>2, <1>4, <1>8, <3>1 DEF WaitsFor
    <3> QED
      BY <1>4, <1>8, <3>1, <3>2 DEF Goes, CanHandle
  <2> QED
    BY <2>2, <2>3
<1>9. CASE do = "spawn"
  <2>1. a = Handler
    BY <1>4, <1>9 DEF Kinds, Modes
  <2>2. Voters \ started # {}
    BY <1>4, <1>9, <2>1, VoterIsThere
  <2> QED
    BY <1>4, <1>9, <2>1, <2>2 DEF Goes
<1> QED
  BY <1>4, <1>5, <1>6, <1>7, <1>8, <1>9

LEMMA InvNoCircle ==
  ASSUME Workers > 1
  PROVE  Inv => NoCircle
<1> SUFFICES ASSUME Inv PROVE NoCircle
  OBVIOUS
<1>1. \A D \in (SUBSET Actors) \ {{}} : Opens(D) \/ (Jam /\ {Loop, Handler} \subseteq D)
  BY OnlyTheJam
<1>2. \A a \in Actors : Busy(a) => Goes(a) \/ \E b \in Actors : WaitsFor(a, b)
  BY SomebodyServes
<1> QED
  BY <1>1, <1>2 DEF NoCircle

(* No circle of waits but the jam: neither the guard of conf that lives     *)
(* through a ballot (activity.rs 195), nor the loop that blocks on conf     *)
(* (net_behavior.rs 190), nor requests under the lock of subscribers        *)
(* (activity.rs 787), and who waits for nobody can be served.  With one     *)
(* thread this is false: the ballot then waits for the blocked loop.        *)
THEOREM NoCircles ==
  ASSUME Workers > 1
  PROVE  Spec => []NoCircle
<1>1. Inv => NoCircle
  BY InvNoCircle
<1> QED
  BY <1>1, SwarmInvariant, PTL

(* The jam (net_behavior.rs 137, activity.rs 336) is for ever: no timer and *)
(* no other task opens it.                                                  *)
JamStays == [][Jam => Jam']_vars

THEOREM JamIsForEver == Spec => JamStays
<1>1. Inv /\ [Next]_vars => (Jam => Jam')
  <2> SUFFICES ASSUME Inv, Jam, [Next]_vars PROVE Jam'
    OBVIOUS
  <2>1. /\ Busy(Loop) /\ Head(todo[Loop]).do = "send" /\ Len(queue) = QueueCap
        /\ Busy(Handler) /\ Head(todo[Handler]).do = "call"
    BY DEF Jam, At
  <2>2. todo \in [Actors -> Seq(Op)] /\ Loop \in Actors /\ Handler \in Actors
    BY DEF Inv, Typed, Actors
  <2>3. ASSUME todo'[Loop] = todo[Loop], todo'[Handler] = todo[Handler], queue' = queue PROVE Jam'
    BY <2>1, <2>3 DEF Jam, At, Busy
  <2>4. ASSUME NEW a, a # Loop, a # Handler, NEW L, Advance(a, L), queue' = queue PROVE Jam'
    BY <2>2, <2>3, <2>4 DEF Advance
  <2>5. ASSUME NEW a, NEW path, Start(a, path), a \in Tasks PROVE Jam'
    BY <2>2, <2>3, <2>5, TaskIs DEF Start
  <2>6. ASSUME NEW path, Receive(path) PROVE Jam'
    BY <2>1, <2>6 DEF Receive
  <2>7. ASSUME NEW a \in Actors, Lock(a) PROVE Jam'
    <3>1. a # Loop /\ a # Handler /\ queue' = queue
      BY <2>1, <2>7 DEF Lock, CanLock, At
    <3> QED
      BY <2>2, <2>3, <2>4, <2>7, <3>1 DEF Lock, Entering
  <2>8. ASSUME NEW a \in Actors, AskLoop(a) PROVE Jam'
    BY <2>3, <2>8 DEF AskLoop
  <2>9. ASSUME NEW a \in Actors, SendEvent(a) PROVE Jam'
    BY <2>1, <2>9, ConstantsAssumption DEF SendEvent, CanSend
  <2>10. ASSUME NEW l \in Locks, Grant(l) PROVE Jam'
    <3>1. /\ 1 \in 1 .. Len(lock[l].wait) /\ Head(lock[l].wait) = lock[l].wait[1] /\ queue' = queue
          /\ Entering(Head(lock[l].wait)[1], l, Tail(lock[l].wait))
      <4>1. lock[l].wait \in Seq(Actors \X Modes) /\ lock[l].wait # <<>>
        <5>1. lock \in [Locks -> LockRows] /\ lock[l].wait # <<>>
          BY <2>10 DEF Grant, CanGrant, Inv, Typed
        <5> QED
          BY <5>1, LockTypes
      <4> QED
        BY <2>10, <4>1, EmptySeq DEF Grant
    <3>2. Head(lock[l].wait)[1] # Loop /\ Head(lock[l].wait)[1] # Handler
      BY <2>1, <3>1, StanderIs DEF At, Modes
    <3> QED
      BY <2>4, <3>1, <3>2 DEF Entering
  <2>11. ASSUME Answer \/ HandleEvent \/ SpawnVoter PROVE Jam'
    BY <2>1, <2>11 DEF Answer, CanAnswer, HandleEvent, CanHandle, SpawnVoter, At
  <2>12. ASSUME NEW a, VoteOver(a) PROVE Jam'
    <3>1. a # Loop /\ a # Handler
      BY <2>1, <2>12 DEF VoteOver, CanEnd, At
    <3> QED
      BY <2>4, <2>12, <3>1 DEF VoteOver
  <2>13. ASSUME UNCHANGED vars PROVE Jam'
    BY <2>3, <2>13 DEF vars
  <2>14. Orders \subseteq Tasks /\ Updates \subseteq Tasks /\ Joins \subseteq Tasks
    BY DEF Tasks
  <2> QED
    BY <2>5, <2>6, <2>7, <2>8, <2>9, <2>10, <2>11, <2>12, <2>13, <2>14
       DEF Next, Begin, Progress, Handle, Work, TimerEnds
<1> QED
  BY <1>1, SwarmInvariant, PTL DEF Spec, JamStays

=============================================================================
