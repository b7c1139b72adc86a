------------------------- MODULE ClientSession_proofs -------------------------
(***************************************************************************)
(* Proofs about ClientSession, for any reports, sizes of batches, numbers  *)
(* of sessions and bounds.                                                 *)
(*                                                                         *)
(* To the chain the rest of a session does not exist: every step of a      *)
(* session is one of ClientSync or leaves its variables as they are.       *)
(* last_timestamp stands for all reports a handler has passed.  What is    *)
(* not in the stream although it is newer came after everything that is    *)
(* (Missed), so that it is overtaken as soon as the stream is sent.        *)
(***************************************************************************)
EXTENDS ClientSession, ClientSync_proofs, SequenceTheorems

Streams == [open : BOOLEAN, from : Nat, cursor : Nat, rows : Seq(Reports)]

Arriving == way \subseteq made /\ made \subseteq Reports /\ table \in Seq(Reports)

Shaped ==
  /\ stream \in [Sessions -> Streams]
  /\ streamed \in [Sessions -> SUBSET Reports]
  /\ \A s \in Sessions : stream[s].from <= stream[s].cursor
  /\ breaks \in 0 .. MaxBreaks

Carrying ==
  /\ kept \subseteq Reports /\ IsFiniteSet(kept)
  /\ \A b \in carried \cup storing : b \in ToClient /\ b.rows # <<>>

Prompting ==
  /\ prompt \in [Sessions -> {"none", "ready", "busy", "gone"}]
  /\ call \in [Sessions -> Pending \cup {"none"}]
  /\ \A s \in Sessions : prompt[s] = "busy" <=> call[s] \in Pending
  /\ typed \in Nat

(* A handler reads reports while it waits for blocks.                      *)
Between(s) == stream[s].open => handler[s].pc = "wait"

(* Nothing of a session is there before its connection.                    *)
Entered(s) == handler[s].pc # "none" \/ prompt[s] # "none" => conn[s] # "none"

(* What is left of the stream: stored rows from the cursor on, in order.   *)
Queued(s) ==
  LET rows == stream[s].rows IN
  /\ ~stream[s].open => rows = <<>>
  /\ \A i \in DOMAIN rows : rows[i] \in ToSet(table) /\ stream[s].cursor <= Stamp[rows[i]]
  /\ \A i, j \in DOMAIN rows : i <= j => Stamp[rows[i]] <= Stamp[rows[j]]

(* The cursor is where it began, or at a report that was sent.             *)
Marked(s) ==
  /\ streamed[s] \subseteq ToSet(table)
  /\ stream[s].from < stream[s].cursor => \E q \in streamed[s] : Stamp[q] = stream[s].cursor

(* A newer report that is not in the stream came after all that is.        *)
Missed(s) ==
  LET rows == stream[s].rows IN
  \A r \in ToSet(table) :
    stream[s].cursor < Stamp[r] /\ r \notin ToSet(rows) => \A i \in DOMAIN rows : Came(rows[i], r)

Passed(s) ==
  \A r \in ToSet(table) :
    (stream[s].from < Stamp[r] /\ Stamp[r] <= stream[s].cursor /\ r \notin ToSet(stream[s].rows))
      => Overtaken(s, r)

Streaming(s) == Queued(s) /\ Marked(s) /\ Missed(s) /\ Passed(s)

Steady ==
  /\ Arriving /\ Shaped /\ Carrying /\ Prompting
  /\ \A s \in Sessions : Between(s) /\ Streaming(s)

CInv == SInv /\ Steady /\ \A s \in Sessions : Entered(s)

-----------------------------------------------------------------------------
(* Reports in order.                                                       *)

LEMMA StampIs ==
  ASSUME NEW r \in Reports
  PROVE  r \in Nat /\ Stamp[r] \in Nat /\ Stamp[r] >= 1 /\ Home[r] \in Blocks
  BY SessionAssumption

LEMMA Smallest ==
  ASSUME NEW T \in SUBSET Nat, T # {}
  PROVE  \E m \in T : \A n \in T : m <= n
<1>1. PICK m \in T : \A n \in T : <<n, m>> \notin OpToRel(<, Nat)
  BY WFMin, NatLessThanWellFounded, Zenon
<1>2. \A n \in T : ~(n < m)
  BY <1>1, Zenon DEF OpToRel
<1> QED
  BY <1>2

LEMMA First ==
  ASSUME NEW S \in SUBSET Reports, S # {}
  PROVE  \E x \in S : \A y \in S : y = x \/ Before(x, y)
<1>1. \A y \in S : y \in Nat /\ Stamp[y] \in Nat
  BY StampIs
<1>2. PICK m \in {Stamp[y] : y \in S} : \A n \in {Stamp[y] : y \in S} : m <= n
  <2>1. {Stamp[y] : y \in S} \in SUBSET Nat /\ {Stamp[y] : y \in S} # {}
    BY <1>1
  <2> QED
    BY <2>1, Smallest
<1>3. PICK x \in {y \in S : Stamp[y] = m} : \A n \in {y \in S : Stamp[y] = m} : x <= n
  <2>1. {y \in S : Stamp[y] = m} \in SUBSET Nat /\ {y \in S : Stamp[y] = m} # {}
    BY <1>1, <1>2
  <2> QED
    BY <2>1, Smallest
<1>4. ASSUME NEW y \in S PROVE y = x \/ Before(x, y)
  <2>1. m <= Stamp[y] /\ Stamp[x] = m /\ m \in Nat
    BY <1>1, <1>2, <1>3
  <2>2. CASE Stamp[y] = m
    <3>1. x <= y
      BY <1>3, <2>2
    <3> QED
      BY <1>1, <1>3, <2>1, <2>2, <3>1 DEF Before
  <2>3. CASE Stamp[y] # m
    BY <1>1, <2>1, <2>3 DEF Before
  <2> QED
    BY <2>2, <2>3
<1> QED
  BY <1>3, <1>4

Ordered(seq, S) ==
  /\ seq \in [1 .. Cardinality(S) -> S] /\ ToSet(seq) = S
  /\ \A i, j \in DOMAIN seq : i < j => Before(seq[i], seq[j])

(* A report before all others goes before them.                            *)
LEMMA OrderedOneMore ==
  ASSUME NEW S, NEW x \in S, \A y \in S : y = x \/ Before(x, y),
         NEW n \in Nat, Cardinality(S) = n + 1, Cardinality(S \ {x}) = n,
         NEW f, Ordered(f, S \ {x})
  PROVE  \E g : Ordered(g, S)
<1> DEFINE g == [i \in 1 .. n + 1 |-> IF i = 1 THEN x ELSE f[i - 1]]
<1>1. /\ f \in [1 .. n -> S \ {x}] /\ ToSet(f) = S \ {x} /\ DOMAIN f = 1 .. n
      /\ \A i, j \in 1 .. n : i < j => Before(f[i], f[j])
  BY DEF Ordered
<1>2. \A i \in 1 .. n + 1 : i = 1 \/ i - 1 \in 1 .. n
  OBVIOUS
<1>3. \A i \in 1 .. n : i + 1 \in 1 .. n + 1 /\ i + 1 # 1 /\ (i + 1) - 1 = i
  OBVIOUS
<1>4. g \in [1 .. n + 1 -> S] /\ DOMAIN g = 1 .. n + 1
  BY <1>1, <1>2
<1>5. ToSet(g) = S
  <2>1. ASSUME NEW y \in S PROVE \E i \in 1 .. n + 1 : g[i] = y
    <3>1. CASE y = x
      BY <3>1
    <3>2. CASE y # x
      <4>1. PICK i \in 1 .. n : f[i] = y
        BY <1>1, <3>2 DEF ToSet
      <4>2. g[i + 1] = y
        BY <1>3, <4>1
      <4> QED
        BY <1>3, <4>1, <4>2
    <3> QED
      BY <3>1, <3>2
  <2> QED
    BY <1>4, <2>1 DEF ToSet
<1>6. ASSUME NEW i \in 1 .. n + 1, NEW j \in 1 .. n + 1, i < j PROVE Before(g[i], g[j])
  <2>1. j # 1 /\ j - 1 \in 1 .. n
    BY <1>6
  <2>2. g[j] = f[j - 1] /\ f[j - 1] \in S \ {x}
    BY <1>1, <2>1
  <2>3. CASE i = 1
    BY <2>2, <2>3
  <2>4. CASE i # 1
    <3>1. i - 1 \in 1 .. n /\ i - 1 < j - 1
      BY <1>6, <2>4
    <3>2. g[i] = f[i - 1]
      BY <2>4
    <3> QED
      BY <1>1, <2>1, <2>2, <3>1, <3>2
  <2> QED
    BY <2>3, <2>4
<1> HIDE DEF g
<1>7. Ordered(g, S)
  BY <1>4, <1>5, <1>6 DEF Ordered
<1> QED
  BY <1>7

(* There is such an order for any finite number of reports: a smallest set *)
(* without one would have a first report, and the others an order.         *)
LEMMA OrderExists ==
  ASSUME NEW S \in SUBSET Reports, IsFiniteSet(S)
  PROVE  \E seq : Ordered(seq, S)
<1> DEFINE Failing == {n \in Nat : \E R \in SUBSET Reports :
                          IsFiniteSet(R) /\ Cardinality(R) = n /\ ~\E seq : Ordered(seq, R)}
<1> SUFFICES ASSUME ~\E seq : Ordered(seq, S) PROVE FALSE
  OBVIOUS
<1>1. Cardinality(S) \in Failing
  BY FS_CardinalityType
<1>2. PICK n \in Failing : \A k \in Failing : n <= k
  <2>1. Failing \in SUBSET Nat /\ Failing # {}
    BY <1>1
  <2> HIDE DEF Failing
  <2> QED
    BY <2>1, Smallest
<1>3. PICK R \in SUBSET Reports :
        IsFiniteSet(R) /\ Cardinality(R) = n /\ ~\E seq : Ordered(seq, R)
  BY <1>2
<1>4. n \in Nat
  BY <1>2
<1>5. CASE R = {}
  <2>1. Cardinality(R) = 0
    BY <1>5, FS_EmptySet
  <2>2. Ordered([i \in 1 .. 0 |-> i], R)
    BY <1>5, <2>1 DEF Ordered, ToSet
  <2> QED
    BY <1>3, <2>2
<1>6. CASE R # {}
  <2>1. PICK x \in R : \A y \in R : y = x \/ Before(x, y)
    BY <1>6, First
  <2>2. IsFiniteSet(R \ {x}) /\ Cardinality(R \ {x}) = n - 1
    BY <1>3, <2>1, FS_RemoveElement
  <2>3. n - 1 \in Nat
    BY <2>2, FS_CardinalityType
  <2>4. n - 1 \notin Failing
    BY <1>2, <1>4, <2>3
  <2>5. R \ {x} \in SUBSET Reports
    OBVIOUS
  <2>6. PICK f : Ordered(f, R \ {x})
    BY <2>2, <2>3, <2>4, <2>5
  <2>7. n = (n - 1) + 1
    BY <1>4
  <2>8. \E g : Ordered(g, R)
    BY <1>3, <2>1, <2>2, <2>3, <2>6, <2>7, OrderedOneMore
  <2> QED
    BY <1>3, <2>8
<1> QED
  BY <1>5, <1>6

LEMMA InOrderIs ==
  ASSUME NEW S \in SUBSET Reports, IsFiniteSet(S)
  PROVE  Ordered(InOrder(S), S)
<1>1. \E seq \in [1 .. Cardinality(S) -> S] :
         ToSet(seq) = S /\ \A i, j \in DOMAIN seq : i < j => Before(seq[i], seq[j])
  BY OrderExists DEF Ordered
<1> QED
  BY <1>1 DEF InOrder, Ordered

(* What a handler finds when it looks for reports.                         *)
LEMMA NewerIs ==
  ASSUME table \in Seq(Reports), NEW second \in Nat, NEW rows, rows = Newer(second)
  PROVE  /\ rows \in Seq(Reports)
         /\ ToSet(rows) = {r \in ToSet(table) : Stamp[r] > second}
         /\ \A i \in DOMAIN rows : rows[i] \in ToSet(table) /\ Stamp[rows[i]] > second
         /\ \A i, j \in DOMAIN rows : i <= j => Stamp[rows[i]] <= Stamp[rows[j]]
<1> DEFINE S == {r \in ToSet(table) : Stamp[r] > second}
<1>1. ToSet(table) \subseteq Reports /\ IsFiniteSet(ToSet(table))
  <2>1. DOMAIN table = 1 .. Len(table) /\ Len(table) \in Nat /\ \A i \in DOMAIN table : table[i] \in Reports
    OBVIOUS
  <2>2. IsFiniteSet(DOMAIN table)
    BY <2>1, FS_Interval
  <2>3. table \in Surjection(DOMAIN table, ToSet(table))
    BY <2>1 DEF Surjection, ToSet
  <2>4. IsFiniteSet(ToSet(table))
    BY <2>2, <2>3, FS_Surjection
  <2> QED
    BY <2>1, <2>4 DEF ToSet
<1>2. S \in SUBSET Reports /\ IsFiniteSet(S)
  BY <1>1, FS_Subset
<1> HIDE DEF S
<1>3. Ordered(rows, S)
  BY <1>2, InOrderIs DEF Newer, S
<1>4. PICK n : n = Cardinality(S)
  OBVIOUS
<1>5. n \in Nat /\ rows \in [1 .. n -> S] /\ ToSet(rows) = S /\ DOMAIN rows = 1 .. n
  BY <1>2, <1>3, <1>4, FS_CardinalityType DEF Ordered
<1>6. rows \in Seq(Reports)
  BY <1>2, <1>5
<1>7. ASSUME NEW i \in DOMAIN rows, NEW j \in DOMAIN rows, i <= j PROVE Stamp[rows[i]] <= Stamp[rows[j]]
  <2>1. rows[i] \in Reports /\ rows[j] \in Reports
    BY <1>6
  <2>2. Stamp[rows[i]] \in Nat /\ Stamp[rows[j]] \in Nat
    BY <2>1, StampIs
  <2>3. i = j \/ i < j
    BY <1>5, <1>7
  <2>4. i < j => Before(rows[i], rows[j])
    BY <1>3 DEF Ordered
  <2> QED
    BY <2>2, <2>3, <2>4 DEF Before
<1>8. \A i \in DOMAIN rows : rows[i] \in S
  BY <1>5
<1> QED
  BY <1>5, <1>6, <1>7, <1>8 DEF S

(* The newest of the client's reports.                                     *)
LEMMA NewestIs ==
  ASSUME NEW S \in SUBSET Reports, IsFiniteSet(S)
  PROVE  Max({Stamp[r] : r \in S} \cup {0}) \in Nat
<1> DEFINE T == {Stamp[r] : r \in S} \cup {0}
<1>1. T \subseteq Nat
  BY StampIs
<1>2. \E m \in T : \A x \in T : m >= x
  <2>1. PICK seq : Ordered(seq, S)
    BY OrderExists
  <2>2. PICK n : n = Cardinality(S)
    OBVIOUS
  <2>3. n \in Nat /\ seq \in [1 .. n -> S] /\ ToSet(seq) = S /\ DOMAIN seq = 1 .. n
    BY <2>1, <2>2, FS_CardinalityType DEF Ordered
  <2>4. \A r \in S : \E i \in 1 .. n : r = seq[i]
    BY <2>3 DEF ToSet
  <2>5. CASE n = 0
    <3>1. S = {}
      BY <2>4, <2>5
    <3> QED
      BY <3>1
  <2>6. CASE n # 0
    <3>1. n \in 1 .. n /\ seq[n] \in S
      BY <2>3, <2>6
    <3>2. ASSUME NEW r \in S PROVE Stamp[r] <= Stamp[seq[n]]
      <4>1. PICK i \in 1 .. n : r = seq[i]
        BY <2>4
      <4>2. i = n \/ Before(seq[i], seq[n])
        BY <2>1, <2>3, <3>1 DEF Ordered
      <4> QED
        BY <3>1, <4>1, <4>2, StampIs DEF Before
    <3>3. Stamp[seq[n]] \in T /\ Stamp[seq[n]] \in Nat
      BY <3>1, StampIs
    <3>4. \A x \in T : Stamp[seq[n]] >= x
      BY <1>1, <3>2, <3>3
    <3> QED
      BY <3>3, <3>4
  <2> QED
    BY <2>5, <2>6
<1> HIDE DEF T
<1>3. Max(T) \in T
  BY <1>2 DEF Max
<1> QED
  BY <1>1, <1>3 DEF T

-----------------------------------------------------------------------------
(* Streams.                                                                *)

LEMMA StreamIs ==
  ASSUME Shaped, NEW s \in Sessions
  PROVE  /\ stream[s] \in Streams /\ stream[s].open \in BOOLEAN
         /\ stream[s].from \in Nat /\ stream[s].cursor \in Nat /\ stream[s].rows \in Seq(Reports)
         /\ streamed[s] \subseteq Reports
  BY DEF Shaped, Streams

LEMMA StreamKept ==
  ASSUME NEW s \in Sessions, Streaming(s),
         stream'[s] = stream[s], streamed'[s] = streamed[s], table' = table
  PROVE  Streaming(s)'
  BY DEF Streaming, Queued, Marked, Missed, Passed, Overtaken, Came

(* A report that comes is overtaken if the handler has passed its second.  *)
LEMMA ReportComes ==
  ASSUME Shaped, table \in Seq(Reports), NEW s \in Sessions, Streaming(s),
         NEW r \in Reports, table' = Append(table, r),
         stream'[s] = stream[s], streamed'[s] = streamed[s]
  PROVE  Streaming(s)'
<1>1. PICK n : n = Len(table)
  OBVIOUS
<1>2. /\ n \in Nat /\ DOMAIN table = 1 .. n /\ DOMAIN table' = 1 .. n + 1
      /\ \A i \in 1 .. n : table'[i] = table[i] /\ i \in 1 .. n + 1 /\ i < n + 1
      /\ table'[n + 1] = r /\ n + 1 \in 1 .. n + 1
  BY <1>1
<1>3. ToSet(table') = ToSet(table) \cup {r}
  <2>1. \A i \in 1 .. n + 1 : i \in 1 .. n \/ i = n + 1
    BY <1>2
  <2> QED
    BY <1>2, <2>1 DEF ToSet
<1>4. \A q, x : Came(q, x) => Came(q, x)'
  BY <1>2 DEF Came
<1>5. \A q \in ToSet(table) : Came(q, r)'
  BY <1>2 DEF Came, ToSet
<1>6. \A x : Overtaken(s, x) => Overtaken(s, x)'
  BY <1>4 DEF Overtaken
<1>7. Queued(s)' /\ Marked(s)'
  BY <1>3 DEF Streaming, Queued, Marked
<1>8. Missed(s)'
  <2> SUFFICES ASSUME NEW x \in ToSet(table'), stream[s].cursor < Stamp[x],
                      x \notin ToSet(stream[s].rows), NEW i \in DOMAIN stream[s].rows
               PROVE  Came(stream[s].rows[i], x)'
    BY DEF Missed
  <2>1. CASE x \in ToSet(table)
    BY <1>4, <2>1 DEF Streaming, Missed
  <2>2. CASE x = r
    BY <1>5, <2>2 DEF Streaming, Queued
  <2> QED
    BY <1>3, <2>1, <2>2
<1>9. Passed(s)'
  <2> SUFFICES ASSUME NEW x \in ToSet(table'), stream[s].from < Stamp[x],
                      Stamp[x] <= stream[s].cursor, x \notin ToSet(stream[s].rows)
               PROVE  Overtaken(s, x)'
    BY DEF Passed
  <2>1. CASE x \in ToSet(table)
    BY <1>6, <2>1 DEF Streaming, Passed
  <2>2. CASE x = r
    <3>1. stream[s].from \in Nat /\ stream[s].cursor \in Nat /\ Stamp[x] \in Nat
      BY <2>2, StreamIs, StampIs
    <3>2. PICK q \in streamed[s] : Stamp[q] = stream[s].cursor
      BY <3>1 DEF Streaming, Marked
    <3>3. Came(q, x)'
      BY <1>5, <2>2, <3>2 DEF Streaming, Marked
    <3>4. Stamp[q] = Stamp[x] \/ Stamp[q] > Stamp[x]
      BY <3>1, <3>2
    <3> QED
      BY <3>2, <3>3, <3>4 DEF Overtaken
  <2> QED
    BY <1>3, <2>1, <2>2
<1> QED
  BY <1>7, <1>8, <1>9 DEF Streaming

(* The handler finds all that is newer than its cursor.                    *)
LEMMA StreamOpens ==
  ASSUME Shaped, table \in Seq(Reports), NEW s \in Sessions, Streaming(s), ~stream[s].open,
         NEW rows, rows = Newer(stream[s].cursor),
         stream'[s] = [stream[s] EXCEPT !.open = TRUE, !.rows = rows],
         streamed'[s] = streamed[s], table' = table
  PROVE  Streaming(s)' /\ stream'[s] \in Streams
<1>1. stream[s] \in Streams /\ stream[s].cursor \in Nat
  BY StreamIs
<1>2. /\ rows \in Seq(Reports)
      /\ ToSet(rows) = {r \in ToSet(table) : Stamp[r] > stream[s].cursor}
      /\ \A i \in DOMAIN rows : rows[i] \in ToSet(table) /\ Stamp[rows[i]] > stream[s].cursor
      /\ \A i, j \in DOMAIN rows : i <= j => Stamp[rows[i]] <= Stamp[rows[j]]
  BY <1>1, NewerIs
<1>3. /\ stream'[s] \in Streams /\ stream'[s].open /\ stream'[s].rows = rows
      /\ stream'[s].from = stream[s].from /\ stream'[s].cursor = stream[s].cursor
  BY <1>1, <1>2 DEF Streams
<1>4. \A i \in DOMAIN rows : stream[s].cursor <= Stamp[rows[i]]
  <2>1. \A i \in DOMAIN rows : rows[i] \in Reports
    BY <1>2
  <2> QED
    BY <1>1, <1>2, <2>1, StampIs
<1>5. Queued(s)'
  BY <1>2, <1>3, <1>4 DEF Queued
<1>6. Marked(s)'
  BY <1>3 DEF Streaming, Marked
<1>7. Missed(s)'
  BY <1>2, <1>3 DEF Missed
<1>8. Passed(s)'
  <2>1. ToSet(stream[s].rows) = {}
    BY DEF Streaming, Queued, ToSet
  <2> QED
    BY <1>3, <2>1 DEF Streaming, Passed, Overtaken, Came
<1> QED
  BY <1>3, <1>5, <1>6, <1>7, <1>8 DEF Streaming

(* What is dropped has been passed only if it is of the cursor's second.   *)
LEMMA StreamEnds ==
  ASSUME Shaped, table \in Seq(Reports), NEW s \in Sessions, Streaming(s),
         stream'[s] = [stream[s] EXCEPT !.open = FALSE, !.rows = <<>>],
         streamed'[s] = streamed[s], table' = table
  PROVE  Streaming(s)' /\ stream'[s] \in Streams
<1>1. /\ stream[s] \in Streams /\ stream[s].cursor \in Nat /\ stream[s].from \in Nat
      /\ <<>> \in Seq(Reports)
  BY StreamIs
<1>2. /\ stream'[s] \in Streams /\ ~stream'[s].open /\ stream'[s].rows = <<>>
      /\ stream'[s].from = stream[s].from /\ stream'[s].cursor = stream[s].cursor
  BY <1>1 DEF Streams
<1>3. DOMAIN <<>> = {}
  OBVIOUS
<1>4. Queued(s)' /\ Marked(s)' /\ Missed(s)'
  BY <1>2, <1>3 DEF Streaming, Queued, Marked, Missed
<1>5. ASSUME NEW r \in ToSet(table), stream[s].from < Stamp[r], Stamp[r] <= stream[s].cursor
      PROVE  Overtaken(s, r)
  <2>1. CASE r \in ToSet(stream[s].rows)
    <3>1. stream[s].cursor <= Stamp[r]
      BY <2>1 DEF Streaming, Queued, ToSet
    <3>2. Stamp[r] \in Nat
      BY StampIs DEF ToSet
    <3>3. Stamp[r] = stream[s].cursor /\ stream[s].from < stream[s].cursor
      BY <1>1, <1>5, <3>1, <3>2
    <3> QED
      BY <3>3 DEF Streaming, Marked, Overtaken
  <2>2. CASE r \notin ToSet(stream[s].rows)
    BY <1>5, <2>2 DEF Streaming, Passed
  <2> QED
    BY <2>1, <2>2
<1>6. Passed(s)'
  BY <1>2, <1>5 DEF Passed, Overtaken, Came
<1> QED
  BY <1>2, <1>4, <1>6 DEF Streaming

(* A batch, and what is left of the rows behind it.                        *)
Splits(rows, n, gone, rest) ==
  /\ gone \in Seq(Reports) /\ Len(gone) = n /\ \A i \in 1 .. n : gone[i] = rows[i]
  /\ rest \in Seq(Reports) /\ Len(rest) = Len(rows) - n
  /\ \A i \in 1 .. Len(rows) - n : rest[i] = rows[n + i]

LEMMA SplitsIs ==
  ASSUME NEW rows \in Seq(Reports), NEW n \in 1 .. Len(rows)
  PROVE  Splits(rows, n, SubSeq(rows, 1, n), SubSeq(rows, n + 1, Len(rows)))
<1>1. PICK b, m : b = n + 1 /\ m = Len(rows)
  OBVIOUS
<1>2. m \in Nat /\ n \in Nat /\ n >= 1 /\ n <= m /\ b \in Int /\ \A i \in 1 .. m : rows[i] \in Reports
  BY <1>1
<1>3. /\ SubSeq(rows, 1, n) \in Seq(Reports) /\ Len(SubSeq(rows, 1, n)) = n
      /\ \A i \in 1 .. n : SubSeq(rows, 1, n)[i] = rows[i]
  <2>1. \A i \in 1 .. n : rows[i] \in Reports
    BY <1>2
  <2>2. /\ SubSeq(rows, 1, n) \in Seq(Reports)
        /\ Len(SubSeq(rows, 1, n)) = IF 1 <= n THEN n - 1 + 1 ELSE 0
        /\ \A i \in 1 .. n - 1 + 1 : SubSeq(rows, 1, n)[i] = rows[1 + i - 1]
    BY <1>2, <2>1, SubSeqProperties
  <2> QED
    BY <1>2, <2>2
<1>4. /\ SubSeq(rows, b, m) \in Seq(Reports) /\ Len(SubSeq(rows, b, m)) = m - n
      /\ \A i \in 1 .. m - n : SubSeq(rows, b, m)[i] = rows[n + i]
  <2>1. \A i \in b .. m : rows[i] \in Reports
    BY <1>1, <1>2
  <2>2. /\ SubSeq(rows, b, m) \in Seq(Reports)
        /\ Len(SubSeq(rows, b, m)) = IF b <= m THEN m - b + 1 ELSE 0
        /\ \A i \in 1 .. m - b + 1 : SubSeq(rows, b, m)[i] = rows[b + i - 1]
    BY <1>2, <2>1, SubSeqProperties
  <2>3. m - b + 1 = m - n /\ \A i \in 1 .. m - n : b + i - 1 = n + i
    BY <1>1, <1>2
  <2> QED
    BY <1>1, <1>2, <2>2, <2>3
<1> QED
  BY <1>1, <1>3, <1>4 DEF Splits

(* What is sent is passed, and overtakes what came after it.               *)
LEMMA StreamSends ==
  ASSUME Shaped, table \in Seq(Reports), NEW s \in Sessions, Streaming(s), stream[s].open,
         NEW rows, rows = stream[s].rows, NEW n, n \in 1 .. Len(rows),
         NEW gone, NEW rest, Splits(rows, n, gone, rest),
         stream'[s] = [stream[s] EXCEPT !.rows = rest, !.cursor = Stamp[rows[n]]],
         streamed'[s] = streamed[s] \cup ToSet(gone), table' = table
  PROVE  /\ Streaming(s)' /\ stream'[s] \in Streams /\ stream[s].cursor <= stream'[s].cursor
         /\ gone \in Seq(Reports) /\ gone # <<>> /\ ToSet(gone) \subseteq Reports
<1>1. /\ stream[s] \in Streams /\ stream[s].cursor \in Nat /\ stream[s].from \in Nat
      /\ rows \in Seq(Reports)
  BY StreamIs
<1>2. PICK m : m = Len(rows)
  OBVIOUS
<1>3. /\ m \in Nat /\ n \in Nat /\ n >= 1 /\ n <= m /\ DOMAIN rows = 1 .. m
      /\ \A i \in 1 .. m : rows[i] \in Reports /\ Stamp[rows[i]] \in Nat
  BY <1>1, <1>2, StampIs
<1>4. /\ gone \in Seq(Reports) /\ Len(gone) = n /\ DOMAIN gone = 1 .. n
      /\ \A i \in 1 .. n : gone[i] = rows[i]
  BY DEF Splits
<1>5. /\ rest \in Seq(Reports) /\ Len(rest) = m - n /\ DOMAIN rest = 1 .. m - n
      /\ \A i \in 1 .. m - n : rest[i] = rows[n + i] /\ n + i \in 1 .. m
  <2>1. \A i \in 1 .. m - n : n + i \in 1 .. m
    BY <1>3
  <2> QED
    BY <1>2, <2>1 DEF Splits
<1>6. /\ stream[s].cursor <= Stamp[rows[n]] /\ Stamp[rows[n]] \in Nat
      /\ \A i \in 1 .. m : rows[i] \in ToSet(table)
      /\ \A i, j \in 1 .. m : i <= j => Stamp[rows[i]] <= Stamp[rows[j]]
  BY <1>3 DEF Streaming, Queued
<1>7. /\ stream'[s] \in Streams /\ stream'[s].open /\ stream'[s].rows = rest
      /\ stream'[s].from = stream[s].from /\ stream'[s].cursor = Stamp[rows[n]]
  BY <1>1, <1>5, <1>6 DEF Streams
<1>8. gone # <<>> /\ ToSet(gone) \subseteq Reports
  <2>1. \A i \in 1 .. n : gone[i] \in Reports
    BY <1>4
  <2> QED
    BY <1>3, <1>4, <2>1 DEF ToSet
<1>9. \A r : r \in ToSet(rows) /\ r \notin ToSet(rest) =>
               \E i \in 1 .. n : r = rows[i] /\ r \in ToSet(gone)
  <2> SUFFICES ASSUME NEW r \in ToSet(rows), r \notin ToSet(rest)
               PROVE  \E i \in 1 .. n : r = rows[i] /\ r \in ToSet(gone)
    OBVIOUS
  <2>1. PICK i \in 1 .. m : r = rows[i]
    BY <1>3 DEF ToSet
  <2>2. ~(i - n \in 1 .. m - n)
    <3>1. ASSUME i - n \in 1 .. m - n PROVE FALSE
      <4>1. n + (i - n) = i
        BY <1>3
      <4>2. rest[i - n] = rows[i]
        BY <1>5, <3>1, <4>1
      <4> QED
        BY <1>5, <2>1, <3>1, <4>2 DEF ToSet
    <3> QED
      BY <3>1
  <2>3. i \in 1 .. n
    BY <1>3, <2>2
  <2> QED
    BY <1>4, <2>1, <2>3 DEF ToSet
<1>10. Queued(s)'
  <2>1. ASSUME NEW i \in 1 .. m - n
        PROVE  rest[i] \in ToSet(table) /\ Stamp[rows[n]] <= Stamp[rest[i]]
    <3>1. n \in 1 .. m /\ n <= n + i
      BY <1>3
    <3> QED
      BY <1>5, <1>6, <3>1
  <2>2. ASSUME NEW i \in 1 .. m - n, NEW j \in 1 .. m - n, i <= j
        PROVE  Stamp[rest[i]] <= Stamp[rest[j]]
    <3>1. n + i <= n + j
      BY <1>3, <2>2
    <3>2. rest[i] = rows[n + i] /\ rest[j] = rows[n + j] /\ n + i \in 1 .. m /\ n + j \in 1 .. m
      BY <1>5
    <3> QED
      BY <1>6, <3>1, <3>2
  <2> QED
    BY <1>5, <1>7, <2>1, <2>2 DEF Queued
<1>11. rows[n] \in ToSet(gone) /\ ToSet(gone) \subseteq ToSet(table)
  <2>1. n \in 1 .. n /\ \A i \in 1 .. n : i \in 1 .. m
    BY <1>3
  <2>2. \A i \in 1 .. n : gone[i] \in ToSet(table)
    BY <1>4, <1>6, <2>1
  <2>3. ToSet(gone) = {gone[i] : i \in 1 .. n}
    BY <1>4 DEF ToSet
  <2> QED
    BY <1>4, <2>1, <2>2, <2>3
<1>12. Marked(s)'
  BY <1>7, <1>11 DEF Streaming, Marked
<1>13. ASSUME NEW r \in ToSet(table), r \notin ToSet(rows), stream[s].cursor < Stamp[r]
       PROVE  \A i \in 1 .. m : Came(rows[i], r)
  BY <1>3, <1>13 DEF Streaming, Missed
<1>14. \A r \in ToSet(table) : Stamp[r] \in Nat
  BY StampIs DEF ToSet
<1>15. Missed(s)'
  <2> SUFFICES ASSUME NEW r \in ToSet(table), Stamp[rows[n]] < Stamp[r], r \notin ToSet(rest),
                      NEW i \in 1 .. m - n
               PROVE  Came(rest[i], r)
    <3>1. \A q, r : Came(q, r)' = Came(q, r)
      BY DEF Came
    <3> QED
      BY <1>5, <1>7, <3>1 DEF Missed
  <2>1. CASE r \in ToSet(rows)
    <3>1. PICK k \in 1 .. n : r = rows[k]
      BY <1>9, <2>1
    <3>2. k \in 1 .. m /\ n \in 1 .. m /\ k <= n
      BY <1>3
    <3>3. Stamp[r] <= Stamp[rows[n]]
      BY <1>6, <3>1, <3>2
    <3> QED
      BY <1>6, <1>14, <3>3
  <2>2. CASE r \notin ToSet(rows)
    <3>1. stream[s].cursor < Stamp[r]
      BY <1>1, <1>6, <1>14
    <3> QED
      BY <1>5, <1>13, <2>2, <3>1
  <2> QED
    BY <2>1, <2>2
<1>16. Passed(s)'
  <2> SUFFICES ASSUME NEW r \in ToSet(table), stream[s].from < Stamp[r],
                      Stamp[r] <= Stamp[rows[n]], r \notin ToSet(rest)
               PROVE  Overtaken(s, r)'
    BY <1>7 DEF Passed
  <2>1. CASE r \in ToSet(rows)
    BY <1>9, <2>1 DEF Overtaken
  <2>2. CASE r \notin ToSet(rows) /\ Stamp[r] <= stream[s].cursor
    <3>1. Overtaken(s, r)
      BY <2>2 DEF Streaming, Passed
    <3> QED
      BY <3>1 DEF Overtaken, Came
  <2>3. CASE r \notin ToSet(rows) /\ ~(Stamp[r] <= stream[s].cursor)
    <3>1. stream[s].cursor < Stamp[r] /\ n \in 1 .. m
      BY <1>1, <1>3, <1>14, <2>3
    <3>2. Came(rows[n], r)
      BY <1>13, <2>3, <3>1
    <3>3. rows[n] \in streamed'[s] /\ (Stamp[rows[n]] = Stamp[r] \/ Stamp[rows[n]] > Stamp[r])
      BY <1>6, <1>11, <1>14
    <3> QED
      BY <3>2, <3>3 DEF Overtaken, Came
  <2> QED
    BY <2>1, <2>2, <2>3
<1> QED
  BY <1>4, <1>6, <1>7, <1>8, <1>10, <1>12, <1>15, <1>16 DEF Streaming

(* A new session starts from the newest report its client has.             *)
LEMMA StreamBegins ==
  ASSUME Shaped, table \in Seq(Reports), NEW s \in Sessions, Streaming(s), ~stream[s].open,
         NEW newest \in Nat,
         stream'[s] = [stream[s] EXCEPT !.from = newest, !.cursor = newest],
         streamed'[s] = streamed[s], table' = table
  PROVE  Streaming(s)' /\ stream'[s] \in Streams
<1>1. stream[s] \in Streams
  BY StreamIs
<1>2. /\ stream'[s] \in Streams /\ ~stream'[s].open
      /\ stream'[s].from = newest /\ stream'[s].cursor = newest
      /\ stream'[s].rows = <<>>
  BY <1>1 DEF Streams, Streaming, Queued
<1>3. DOMAIN <<>> = {} /\ ~(newest < newest)
  OBVIOUS
<1>4. \A r \in Reports : ~(newest < Stamp[r] /\ Stamp[r] <= newest)
  BY StampIs
<1>5. Queued(s)' /\ Marked(s)' /\ Missed(s)'
  BY <1>2, <1>3 DEF Streaming, Queued, Marked, Missed
<1>6. Passed(s)'
  <2>1. \A r \in ToSet(table) : r \in Reports
    BY DEF ToSet
  <2> QED
    BY <1>2, <1>4, <2>1 DEF Passed
<1> QED
  BY <1>2, <1>5, <1>6 DEF Streaming

-----------------------------------------------------------------------------
(* Steps.                                                                  *)

(* What all sessions keep if one of them at most has another stream.       *)
LEMMA OthersKept ==
  ASSUME Steady, NEW s \in Sessions, table' = table,
         \A r \in Sessions \ {s} :
           stream'[r] = stream[r] /\ streamed'[r] = streamed[r] /\ handler'[r] = handler[r],
         Between(s)', Streaming(s)'
  PROVE  \A r \in Sessions : Between(r)' /\ Streaming(r)'
<1> SUFFICES ASSUME NEW r \in Sessions, r # s PROVE Between(r)' /\ Streaming(r)'
  OBVIOUS
<1>1. stream'[r] = stream[r] /\ streamed'[r] = streamed[r] /\ handler'[r] = handler[r]
  OBVIOUS
<1>2. Streaming(r)'
  BY <1>1, StreamKept DEF Steady
<1> QED
  BY <1>1, <1>2 DEF Steady, Between

LEMMA AllKept ==
  ASSUME Steady, UNCHANGED <<handler, table, stream, streamed, breaks>>
  PROVE  /\ \A s \in Sessions : Between(s)' /\ Streaming(s)'
         /\ Shaped'
<1>1. ASSUME NEW s \in Sessions PROVE Streaming(s)'
  BY StreamKept DEF Steady
<1> QED
  BY <1>1 DEF Steady, Shaped, Between

LEMMA PublishKeeps ==
  ASSUME Steady, NEW r \in Reports, Publish(r)
  PROVE  Steady'
<1>1. UNCHANGED <<handler, table, stream, streamed, breaks, kept, carried, storing, prompt, call, typed>>
  BY DEF Publish, vars, masterVars, promptVars
<1>2. Arriving'
  BY <1>1 DEF Steady, Arriving, Publish
<1>3. Carrying' /\ Prompting'
  BY <1>1 DEF Steady, Carrying, Prompting
<1> QED
  BY <1>1, <1>2, <1>3, AllKept DEF Steady

LEMMA StoreReportKeeps ==
  ASSUME Steady, NEW r \in Reports, StoreReport(r)
  PROVE  Steady'
<1>1. UNCHANGED <<handler, made, stream, streamed, breaks, kept, carried, storing, prompt, call, typed>>
  BY DEF StoreReport, vars, masterVars, promptVars
<1>2. way' = way \ {r} /\ (table' = Append(table, r) \/ table' = table)
  BY DEF StoreReport
<1>3. Arriving'
  BY <1>1, <1>2 DEF Steady, Arriving
<1>4. Carrying' /\ Prompting' /\ Shaped'
  BY <1>1 DEF Steady, Carrying, Prompting, Shaped
<1>5. ASSUME NEW s \in Sessions PROVE Streaming(s)'
  BY <1>1, <1>2, ReportComes, StreamKept DEF Steady, Arriving
<1>6. \A s \in Sessions : Between(s)'
  BY <1>1 DEF Steady, Between
<1> QED
  BY <1>3, <1>4, <1>5, <1>6 DEF Steady

(* A handler's own steps with reports.                                     *)
LEMMA ReadingKeeps ==
  ASSUME Steady, NEW s \in Sessions, NEW str, NEW out,
         UNCHANGED <<handler, made, way, table, storing, kept, prompt, call, typed>>,
         stream' = [stream EXCEPT ![s] = str], streamed' = [streamed EXCEPT ![s] = out],
         str \in Streams, out \subseteq Reports, str.from <= str.cursor, breaks' \in 0 .. MaxBreaks,
         str.open => handler[s].pc = "wait",
         Streaming(s)',
         \A b \in carried' : b \in carried \/ (b \in ToClient /\ b.rows # <<>>)
  PROVE  Steady'
<1>1. /\ \A r \in Sessions : r # s => stream'[r] = stream[r] /\ streamed'[r] = streamed[r]
      /\ stream'[s] = str /\ streamed'[s] = out
  BY DEF Steady, Shaped
<1>2. Shaped'
  <2>1. stream' \in [Sessions -> Streams] /\ streamed' \in [Sessions -> SUBSET Reports]
    BY DEF Steady, Shaped
  <2>2. \A r \in Sessions : stream'[r].from <= stream'[r].cursor
    BY <1>1 DEF Steady, Shaped
  <2> QED
    BY <2>1, <2>2 DEF Shaped
<1>3. Between(s)'
  BY <1>1 DEF Between
<1>4. \A r \in Sessions : Between(r)' /\ Streaming(r)'
  BY <1>1, <1>3, OthersKept
<1>5. Arriving' /\ Prompting' /\ Carrying'
  BY DEF Steady, Arriving, Prompting, Carrying
<1> QED
  BY <1>2, <1>4, <1>5 DEF Steady

LEMMA PollStatsKeeps ==
  ASSUME Steady, NEW s \in Sessions, PollStats(s)
  PROVE  Steady'
<1> DEFINE rows == Newer(stream[s].cursor)
           str == [stream[s] EXCEPT !.open = TRUE, !.rows = rows]
<1>1. UNCHANGED <<handler, made, way, table, streamed, carried, storing, kept, breaks, prompt, call, typed>>
  BY DEF PollStats, vars, masterVars, promptVars
<1>2. handler[s].pc = "wait" /\ ~stream[s].open /\ stream' = [stream EXCEPT ![s] = str]
  BY DEF PollStats
<1> HIDE DEF str
<1>3. Shaped /\ table \in Seq(Reports) /\ Streaming(s) /\ breaks \in 0 .. MaxBreaks
  BY DEF Steady, Arriving, Shaped
<1>4. stream'[s] = str /\ streamed'[s] = streamed[s]
  BY <1>1, <1>2, <1>3 DEF Shaped
<1>5. str \in Streams /\ Streaming(s)' /\ str.from <= str.cursor
  <2>1. str = [stream[s] EXCEPT !.open = TRUE, !.rows = rows]
    BY DEF str
  <2>2. str \in Streams /\ Streaming(s)'
    BY <1>1, <1>2, <1>3, <1>4, <2>1, StreamOpens
  <2>3. str.from = stream[s].from /\ str.cursor = stream[s].cursor
    BY <1>3, <2>1, StreamIs DEF Streams
  <2> QED
    BY <1>3, <2>2, <2>3 DEF Shaped
<1>6. streamed' = [streamed EXCEPT ![s] = streamed[s]] /\ streamed[s] \subseteq Reports
  BY <1>1, <1>3 DEF Shaped
<1> QED
  BY <1>1, <1>2, <1>3, <1>5, <1>6, ReadingKeeps

LEMMA StopsReading ==
  ASSUME Steady, NEW s \in Sessions, EndStats(s) \/ BreakStats(s)
  PROVE  Steady'
<1> DEFINE str == [stream[s] EXCEPT !.open = FALSE, !.rows = <<>>]
<1>1. UNCHANGED <<handler, made, way, table, streamed, carried, storing, kept, prompt, call, typed>>
  BY DEF EndStats, BreakStats, vars, masterVars, promptVars
<1>2. stream' = [stream EXCEPT ![s] = str]
  BY DEF EndStats, BreakStats
<1> HIDE DEF str
<1>3. Shaped /\ table \in Seq(Reports) /\ Streaming(s)
  BY DEF Steady, Arriving
<1>4. breaks' \in 0 .. MaxBreaks
  BY <1>3, SessionAssumption DEF Shaped, EndStats, BreakStats
<1>5. stream'[s] = str /\ streamed'[s] = streamed[s]
  BY <1>1, <1>2, <1>3 DEF Shaped
<1>6. str \in Streams /\ Streaming(s)' /\ str.from <= str.cursor /\ ~str.open
  <2>1. str = [stream[s] EXCEPT !.open = FALSE, !.rows = <<>>]
    BY DEF str
  <2>2. str \in Streams /\ Streaming(s)'
    BY <1>1, <1>3, <1>5, <2>1, StreamEnds
  <2>3. str.from = stream[s].from /\ str.cursor = stream[s].cursor /\ ~str.open
    BY <1>3, <2>1, StreamIs DEF Streams
  <2> QED
    BY <1>3, <2>2, <2>3 DEF Shaped
<1>7. streamed' = [streamed EXCEPT ![s] = streamed[s]] /\ streamed[s] \subseteq Reports
  BY <1>1, <1>3 DEF Shaped
<1> QED
  BY <1>1, <1>2, <1>4, <1>6, <1>7, ReadingKeeps

LEMMA SendStatsKeeps ==
  ASSUME SInv, Steady, NEW s \in Sessions, SendStats(s)
  PROVE  Steady'
<1>1. PICK rows, n, gone, rest :
        /\ rows = stream[s].rows
        /\ n = IF Len(rows) < StatBatch THEN Len(rows) ELSE StatBatch
        /\ gone = SubSeq(rows, 1, n) /\ rest = SubSeq(rows, n + 1, Len(rows))
  OBVIOUS
<1> DEFINE str == [stream[s] EXCEPT !.rows = rest, !.cursor = Stamp[rows[n]]]
           out == streamed[s] \cup ToSet(gone)
<1>2. UNCHANGED <<handler, made, way, table, storing, kept, breaks, prompt, call, typed>>
  BY DEF SendStats, vars, masterVars, promptVars
<1>3. /\ stream[s].open /\ rows # <<>> /\ SendReports(s, gone)
      /\ stream' = [stream EXCEPT ![s] = str]
  BY <1>1 DEF SendStats, Reached
<1>4. streamed' = [streamed EXCEPT ![s] = out]
  BY <1>3 DEF SendReports
<1> HIDE DEF str, out
<1>5. Shaped /\ table \in Seq(Reports) /\ Streaming(s) /\ breaks \in 0 .. MaxBreaks /\ Between(s)
  BY DEF Steady, Arriving, Shaped
<1>6. rows \in Seq(Reports) /\ n \in 1 .. Len(rows)
  <2>1. rows \in Seq(Reports)
    BY <1>1, <1>5, StreamIs
  <2>2. PICK m : m = Len(rows)
    OBVIOUS
  <2>3. m \in Nat /\ m # 0
    BY <1>3, <2>1, <2>2
  <2>4. n = IF m < StatBatch THEN m ELSE StatBatch
    BY <1>1, <2>2
  <2>5. n \in 1 .. m
    BY <2>3, <2>4, SessionAssumption
  <2> QED
    BY <2>1, <2>2, <2>5
<1>7. Splits(rows, n, gone, rest)
  BY <1>1, <1>6, SplitsIs
<1>8. stream'[s] = str /\ streamed'[s] = out
  BY <1>3, <1>4, <1>5 DEF Shaped
<1>9. /\ Streaming(s)' /\ str \in Streams /\ stream[s].cursor <= str.cursor
      /\ gone \in Seq(Reports) /\ gone # <<>> /\ ToSet(gone) \subseteq Reports
  <2>1. stream'[s] = [stream[s] EXCEPT !.rows = rest, !.cursor = Stamp[rows[n]]]
    BY <1>8 DEF str
  <2>2. streamed'[s] = streamed[s] \cup ToSet(gone)
    BY <1>8 DEF out
  <2>3. /\ Streaming(s)' /\ stream'[s] \in Streams /\ stream[s].cursor <= stream'[s].cursor
        /\ gone \in Seq(Reports) /\ gone # <<>> /\ ToSet(gone) \subseteq Reports
    <3>1. /\ rows = stream[s].rows /\ stream[s].open /\ n \in 1 .. Len(rows)
          /\ table' = table /\ Shaped /\ table \in Seq(Reports) /\ Streaming(s)
      BY <1>1, <1>2, <1>3, <1>5, <1>6
    <3> QED
      BY <1>7, <2>1, <2>2, <3>1, StreamSends
  <2> QED
    BY <1>8, <2>3
<1>10. str.from <= str.cursor
  <2>1. str.from = stream[s].from /\ str.from \in Nat /\ str.cursor \in Nat
    BY <1>5, <1>9, StreamIs DEF str, Streams
  <2>2. stream[s].from <= stream[s].cursor /\ stream[s].cursor \in Nat
    BY <1>5, StreamIs DEF Shaped
  <2> QED
    BY <1>9, <2>1, <2>2
<1>11. out \subseteq Reports
  BY <1>5, <1>9, StreamIs DEF out
<1>12. \A b \in carried' : b \in carried \/ (b \in ToClient /\ b.rows # <<>>)
  <2>1. CASE links = {}
    BY <1>3, <2>1 DEF SendReports
  <2>2. CASE links # {}
    <3>1. PICK c \in links : carried' = carried \cup {[on |-> c, rows |-> gone]}
      BY <1>3, <2>2 DEF SendReports
    <3>2. c \in Sessions
      BY <3>1 DEF SInv, TypeOK
    <3> QED
      BY <1>9, <3>1, <3>2 DEF ToClient
  <2> QED
    BY <2>1, <2>2
<1>13. handler[s].pc = "wait"
  BY <1>3, <1>5 DEF Between
<1> QED
  BY <1>2, <1>3, <1>4, <1>5, <1>9, <1>10, <1>11, <1>12, <1>13, ReadingKeeps

(* Batches under way, and the client's threads.                            *)
LEMMA DeliverReportsKeeps ==
  ASSUME Steady, NEW b \in carried, DeliverReports(b)
  PROVE  Steady'
<1>1. UNCHANGED <<handler, made, way, table, stream, streamed, kept, breaks, prompt, call, typed>>
  BY DEF DeliverReports, vars, masterVars, promptVars
<1>2. carried' = carried \ {b} /\ storing' \subseteq storing \cup {b}
  BY DEF DeliverReports
<1>3. Arriving' /\ Prompting' /\ Carrying'
  BY <1>1, <1>2 DEF Steady, Arriving, Prompting, Carrying
<1> QED
  BY <1>1, <1>3, AllKept DEF Steady

LEMMA StoreStatKeeps ==
  ASSUME Steady, NEW t \in storing, StoreStat(t)
  PROVE  Steady'
<1>1. UNCHANGED <<handler, made, way, table, stream, streamed, carried, breaks, prompt, call, typed>>
  BY DEF StoreStat, vars, masterVars, promptVars
<1>2. t \in ToClient /\ t.rows # <<>>
  BY DEF Steady, Carrying
<1>3. t.rows \in Seq(Reports) /\ Head(t.rows) \in Reports
  BY <1>2 DEF ToClient
<1>4. kept' \subseteq Reports /\ IsFiniteSet(kept')
  <2>1. kept \subseteq Reports /\ IsFiniteSet(kept)
    BY DEF Steady, Carrying
  <2>2. IsFiniteSet(kept \cup {Head(t.rows)})
    BY <2>1, FS_AddElement
  <2>3. kept' = kept \/ kept' = kept \cup {Head(t.rows)}
    BY DEF StoreStat
  <2> QED
    BY <1>3, <2>1, <2>2, <2>3
<1>5. \A b \in storing' : b \in storing \/ (b \in ToClient /\ b.rows # <<>>)
  <2>1. CASE Len(t.rows) = 1
    BY <2>1 DEF StoreStat
  <2>2. CASE Len(t.rows) # 1
    <3> DEFINE v == [t EXCEPT !.rows = Tail(@)]
    <3>1. storing' = (storing \ {t}) \cup {v}
      BY <2>2 DEF StoreStat
    <3>2. Tail(t.rows) \in Seq(Reports) /\ Tail(t.rows) # <<>>
      BY <1>2, <1>3, <2>2, TailNotEmpty
    <3>3. v \in ToClient /\ v.rows # <<>>
      BY <1>2, <3>2 DEF ToClient
    <3> HIDE DEF v
    <3> QED
      BY <3>1, <3>3
  <2> QED
    BY <2>1, <2>2
<1>6. Arriving' /\ Prompting'
  BY <1>1 DEF Steady, Arriving, Prompting
<1>7. Carrying'
  BY <1>1, <1>4, <1>5 DEF Steady, Carrying
<1> QED
  BY <1>1, <1>6, <1>7, AllKept DEF Steady

(* Commands.                                                               *)
LEMMA AskedIs == Asked \subseteq Pending
<1>1. \A c \in DOMAIN UserAsks : UserAsks[c] \in Pending \cup {"nothing"}
  BY DEF UserAsks, Pending
<1>2. \A c \in DOMAIN NodeAsks : NodeAsks[c] \in Pending \cup {"nothing"}
  BY DEF NodeAsks, Pending
<1>3. \A c \in DOMAIN TemplateAsks : TemplateAsks[c] \in Pending \cup {"nothing"}
  BY DEF TemplateAsks, Pending
<1>4. ASSUME NEW f \in {UserAsks, NodeAsks, TemplateAsks}, NEW c \in DOMAIN f
      PROVE  f[c] \in Pending \cup {"nothing"}
  BY <1>1, <1>2, <1>3, <1>4
<1>5. ASSUME NEW a \in Asked PROVE a \in Pending
  <2>1. PICK f \in {UserAsks, NodeAsks, TemplateAsks} : a \in {f[c] : c \in DOMAIN f}
    BY <1>5, Zenon DEF Asked
  <2>2. a # "nothing"
    BY DEF Asked
  <2>3. PICK c \in DOMAIN f : a = f[c]
    BY <2>1
  <2> QED
    BY <1>4, <2>1, <2>2, <2>3
<1> QED
  BY <1>5

LEMMA CommandKeeps ==
  ASSUME Steady, NEW s \in Sessions, CommandStep(s)
  PROVE  /\ Steady' /\ UNCHANGED <<reportVars, handler>>
         /\ \A r \in Sessions : prompt'[r] # "none" => prompt[r] # "none"
<1>1. UNCHANGED <<reportVars, handler>>
  BY DEF CommandStep, Type, Hear, Answer, TimeOut, TakeAnswer, Cut, Leave, Return, vars, masterVars
<1>2. UNCHANGED <<made, way, table, stream, streamed, carried, storing, kept, breaks>>
  BY <1>1 DEF reportVars
<1>3. Arriving' /\ Carrying'
  BY <1>2 DEF Steady, Arriving, Carrying
<1>4. Prompting
  BY DEF Steady
<1>5. ASSUME NEW p \in {"ready", "busy", "gone"}, NEW c \in Pending \cup {"none"},
             prompt[s] # "none", p = "busy" <=> c \in Pending,
             prompt' = [prompt EXCEPT ![s] = p], call' = [call EXCEPT ![s] = c], typed' \in Nat
      PROVE  /\ Prompting'
             /\ \A r \in Sessions : prompt'[r] # "none" => prompt[r] # "none"
  <2>1. /\ prompt' \in [Sessions -> {"none", "ready", "busy", "gone"}]
        /\ call' \in [Sessions -> Pending \cup {"none"}]
    BY <1>4, <1>5 DEF Prompting
  <2>2. \A r \in Sessions : /\ prompt'[r] = IF r = s THEN p ELSE prompt[r]
                            /\ call'[r] = IF r = s THEN c ELSE call[r]
    BY <1>4, <1>5 DEF Prompting
  <2> QED
    BY <1>4, <1>5, <2>1, <2>2 DEF Prompting
<1>6. /\ prompt[s] \in {"none", "ready", "busy", "gone"} /\ call[s] \in Pending \cup {"none"}
      /\ prompt[s] = "busy" <=> call[s] \in Pending
      /\ prompt = [prompt EXCEPT ![s] = prompt[s]] /\ call = [call EXCEPT ![s] = call[s]]
      /\ typed \in Nat
  BY <1>4 DEF Prompting
<1>7. ASSUME Type(s)
      PROVE  /\ Prompting'
             /\ \A r \in Sessions : prompt'[r] # "none" => prompt[r] # "none"
  <2>1. prompt[s] = "ready" /\ typed' \in Nat
    BY <1>6, <1>7 DEF Type
  <2>2. CASE conn[s] = "closed"
    <3>1. prompt' = [prompt EXCEPT ![s] = "gone"] /\ call' = call
      BY <1>7, <2>2 DEF Type
    <3>2. call[s] \notin Pending /\ call' = [call EXCEPT ![s] = call[s]]
      BY <1>6, <2>1, <3>1
    <3> QED
      BY <1>5, <1>6, <2>1, <3>1, <3>2
  <2>3. CASE conn[s] # "closed"
    <3>1. prompt' = [prompt EXCEPT ![s] = "busy"]
      BY <1>7, <2>3 DEF Type
    <3>2. PICK what \in Asked : call' = [call EXCEPT ![s] = what]
      BY <1>7, <2>3 DEF Type
    <3>3. what \in Pending
      BY AskedIs
    <3> QED
      BY <1>5, <2>1, <3>1, <3>2, <3>3
  <2> QED
    BY <2>2, <2>3
<1>8. ASSUME Hear(s) \/ Answer(s) \/ TimeOut(s)
      PROVE  /\ Prompting'
             /\ \A r \in Sessions : prompt'[r] # "none" => prompt[r] # "none"
  <2>1. /\ call[s] \in Pending /\ prompt' = prompt /\ typed' = typed
        /\ \E c \in Pending : call' = [call EXCEPT ![s] = c]
    BY <1>8 DEF Hear, Answer, TimeOut, Becoming, Pending
  <2>2. PICK c \in Pending : call' = [call EXCEPT ![s] = c]
    BY <2>1
  <2>3. prompt[s] = "busy" /\ prompt' = [prompt EXCEPT ![s] = "busy"]
    BY <1>6, <2>1
  <2> QED
    BY <1>5, <1>6, <2>1, <2>2, <2>3
<1>9. ASSUME TakeAnswer(s) \/ Cut(s)
      PROVE  /\ Prompting'
             /\ \A r \in Sessions : prompt'[r] # "none" => prompt[r] # "none"
  <2>1. /\ call[s] \in Pending /\ typed' = typed
        /\ prompt' = [prompt EXCEPT ![s] = "ready"] /\ call' = [call EXCEPT ![s] = "none"]
    BY <1>9 DEF TakeAnswer, Cut, Return, Becoming, Pending
  <2>2. "none" \notin Pending
    BY DEF Pending
  <2> QED
    BY <1>5, <1>6, <2>1, <2>2
<1>10. ASSUME Leave(s)
       PROVE  /\ Prompting'
              /\ \A r \in Sessions : prompt'[r] # "none" => prompt[r] # "none"
  <2>1. /\ prompt[s] = "ready" /\ typed' = typed
        /\ prompt' = [prompt EXCEPT ![s] = "gone"] /\ call' = call
    BY <1>10 DEF Leave
  <2>2. call[s] \notin Pending /\ call' = [call EXCEPT ![s] = call[s]]
    BY <1>6, <2>1
  <2> QED
    BY <1>5, <1>6, <2>1, <2>2
<1>11. /\ Prompting'
       /\ \A r \in Sessions : prompt'[r] # "none" => prompt[r] # "none"
  BY <1>7, <1>8, <1>9, <1>10 DEF CommandStep
<1>12. \A r \in Sessions : Between(r)' /\ Streaming(r)'
  BY <1>1, <1>2, AllKept
<1>13. Shaped'
  BY <1>1, <1>2, AllKept
<1> QED
  BY <1>1, <1>3, <1>11, <1>12, <1>13 DEF Steady

LEMMA QuitAllKeeps ==
  ASSUME Steady, QuitAll
  PROVE  /\ Steady' /\ UNCHANGED <<stream, handler>>
         /\ \A s \in Sessions : prompt'[s] # "none" => prompt[s] # "none"
<1>1. UNCHANGED <<handler, made, way, table, stream, streamed, carried, kept, breaks, typed>>
  BY DEF QuitAll, Quit, masterVars
<1>2. /\ storing' = {} /\ call' = [s \in Sessions |-> "none"]
      /\ prompt' = [s \in Sessions |-> IF prompt[s] = "none" THEN "none" ELSE "gone"]
  BY DEF QuitAll
<1>3. Arriving' /\ Carrying'
  BY <1>1, <1>2 DEF Steady, Arriving, Carrying
<1>4. Prompting'
  BY <1>1, <1>2 DEF Steady, Prompting, Pending
<1> QED
  BY <1>1, <1>2, <1>3, <1>4, AllKept DEF Steady

LEMMA OpenSessionKeeps ==
  ASSUME CInv, NEW s \in Sessions, OpenSession(s)
  PROVE  /\ Steady' /\ handler' = handler
         /\ \A r \in Sessions : r # s => prompt'[r] = prompt[r]
<1>1. PICK newest : newest = Max({Stamp[r] : r \in kept} \cup {0})
  OBVIOUS
<1> DEFINE str == [stream[s] EXCEPT !.from = newest, !.cursor = newest]
<1>2. /\ UNCHANGED <<handler, made, way, table, streamed, carried, storing, kept, breaks, call, typed>>
      /\ conn[s] = "none" /\ prompt' = [prompt EXCEPT ![s] = "ready"]
  BY DEF OpenSession, Open
<1>3. stream' = [stream EXCEPT ![s] = str]
  BY <1>1 DEF OpenSession
<1> HIDE DEF str
<1>4. newest \in Nat
  BY <1>1, NewestIs DEF CInv, Steady, Carrying
<1>5. /\ Shaped /\ table \in Seq(Reports) /\ Streaming(s) /\ Between(s) /\ Prompting
      /\ breaks \in 0 .. MaxBreaks
  BY DEF CInv, Steady, Arriving, Shaped
<1>6. ~stream[s].open /\ prompt[s] = "none"
  <2>1. handler[s].pc = "none" /\ prompt[s] = "none"
    BY <1>2 DEF CInv, Entered
  <2> QED
    BY <1>5, <2>1 DEF Between
<1>7. stream'[s] = str /\ streamed'[s] = streamed[s]
  BY <1>2, <1>3, <1>5 DEF Shaped
<1>8. str \in Streams /\ Streaming(s)' /\ str.from <= str.cursor /\ ~str.open
  <2>1. str = [stream[s] EXCEPT !.from = newest, !.cursor = newest]
    BY DEF str
  <2>2. str \in Streams /\ Streaming(s)'
    BY <1>2, <1>4, <1>5, <1>6, <1>7, <2>1, StreamBegins
  <2>3. str.from = newest /\ str.cursor = newest /\ ~str.open
    BY <1>5, <1>6, <2>1, StreamIs DEF Streams
  <2> QED
    BY <1>4, <2>2, <2>3
<1>9. Shaped'
  <2>1. stream' \in [Sessions -> Streams] /\ streamed' \in [Sessions -> SUBSET Reports]
    BY <1>2, <1>3, <1>5, <1>8 DEF Shaped
  <2>2. \A r \in Sessions : r # s => stream'[r] = stream[r]
    BY <1>3, <1>5 DEF Shaped
  <2>3. \A r \in Sessions : stream'[r].from <= stream'[r].cursor
    BY <1>5, <1>7, <1>8, <2>2 DEF Shaped
  <2> QED
    BY <1>2, <1>5, <2>1, <2>3 DEF Shaped
<1>10. \A r \in Sessions : Between(r)' /\ Streaming(r)'
  <2>1. Between(s)'
    BY <1>7, <1>8 DEF Between
  <2>2. \A r \in Sessions : r # s => stream'[r] = stream[r] /\ streamed'[r] = streamed[r]
    BY <1>2, <1>3, <1>5 DEF Shaped
  <2> QED
    BY <1>2, <1>8, <2>1, <2>2, OthersKept DEF CInv
<1>11. Arriving' /\ Carrying'
  BY <1>2 DEF CInv, Steady, Arriving, Carrying
<1>12. Prompting' /\ \A r \in Sessions : r # s => prompt'[r] = prompt[r]
  <2>1. prompt' \in [Sessions -> {"none", "ready", "busy", "gone"}]
    BY <1>2, <1>5 DEF Prompting
  <2>2. \A r \in Sessions : prompt'[r] = IF r = s THEN "ready" ELSE prompt[r]
    BY <1>2, <1>5 DEF Prompting
  <2>3. call[s] \notin Pending
    BY <1>5, <1>6 DEF Prompting
  <2> QED
    BY <1>2, <1>5, <2>1, <2>2, <2>3 DEF Prompting
<1> QED
  BY <1>2, <1>9, <1>10, <1>11, <1>12 DEF Steady

(* To a handler that reads reports nothing of the chain happens.           *)
LEMMA ChainKeeps ==
  ASSUME Steady, UNCHANGED <<reportVars, promptVars>>,
         \A s \in Sessions : stream[s].open => handler'[s].pc = handler[s].pc
  PROVE  Steady'
<1>1. UNCHANGED <<made, way, table, stream, streamed, carried, storing, kept, breaks, prompt, call, typed>>
  BY DEF reportVars, promptVars
<1>2. ASSUME NEW s \in Sessions PROVE Streaming(s)'
  BY <1>1, StreamKept DEF Steady
<1>3. \A s \in Sessions : Between(s)'
  BY <1>1 DEF Steady, Between
<1>4. Arriving' /\ Shaped' /\ Carrying' /\ Prompting'
  BY <1>1 DEF Steady, Arriving, Shaped, Carrying, Prompting
<1> QED
  BY <1>2, <1>3, <1>4 DEF Steady

(* A step of a handler with blocks is a step of this handler.              *)
LEMMA HandlerIsOne ==
  ASSUME TypeOK, NEW s \in Sessions, Hello(s) \/ HandlerStep(s)
  PROVE  /\ \A r \in Sessions : r # s => handler'[r] = handler[r]
         /\ HandlerStep(s) => handler[s].pc # "none"
<1>1. handler \in [Sessions -> Handlers]
  BY DEF TypeOK
<1>2. \E h : handler' = [handler EXCEPT ![s] = h]
  BY DEF Hello, HandlerStep, Register, RegisterFails, Stop, Poll, OpenStream, TakeRow, Advance, EndStream
<1>3. \A r \in Sessions : r # s => handler'[r] = handler[r]
  BY <1>1, <1>2
<1>4. HandlerStep(s) => handler[s].pc # "none"
  BY DEF HandlerStep, Register, RegisterFails, Stop, Poll, OpenStream, TakeRow, EndStream
<1> QED
  BY <1>3, <1>4

LEMMA HelloStep ==
  ASSUME CInv, NEW s \in Sessions, UNCHANGED <<reportVars, promptVars>>,
         Hello(s) \/ (~stream[s].open /\ HandlerStep(s))
  PROVE  Steady'
<1>1. ~stream[s].open
  BY DEF Hello, CInv, Steady, Between
<1>2. \A r \in Sessions : r # s => handler'[r] = handler[r]
  BY HandlerIsOne DEF CInv, SInv
<1> QED
  BY <1>1, <1>2, ChainKeeps DEF CInv

LEMMA WorkStep ==
  ASSUME CInv, UNCHANGED <<reportVars, promptVars>>,
         AddBlock \/ (\E s \in Sessions : SeesClose(s) \/ Disconnect(s))
           \/ (\E b \in net : Deliver(b)) \/ (\E t \in tasks : Work(t))
  PROVE  Steady' /\ handler' = handler
<1>1. handler' = handler
  BY DEF AddBlock, SeesClose, Disconnect, Deliver, Work, masterVars
<1> QED
  BY <1>1, ChainKeeps DEF CInv

-----------------------------------------------------------------------------
(* To the chain a session is one of ClientSync.                            *)

LEMMA LeaveIsDisconnect ==
  ASSUME CInv, NEW s \in Sessions, Leave(s)
  PROVE  Disconnect(s) \/ UNCHANGED vars
<1>1. /\ conn' = [conn EXCEPT ![s] = "closed"]
      /\ UNCHANGED <<masterVars, net, count, tasks, stored, applied>>
  BY DEF Leave
<1>2. conn \in [Sessions -> {"none", "open", "closing", "closed"}] /\ conn[s] # "none"
  BY DEF CInv, SInv, TypeOK, Entered, Leave
<1>3. CASE conn[s] = "closed"
  <2>1. conn' = conn
    BY <1>1, <1>2, <1>3
  <2> QED
    BY <1>1, <2>1 DEF vars, clientVars
<1>4. CASE conn[s] # "closed"
  <2>1. conn[s] \in {"open", "closing"}
    BY <1>2, <1>4
  <2> QED
    BY <1>1, <2>1 DEF Disconnect
<1> QED
  BY <1>3, <1>4

LEMMA SessionStepIsSync ==
  ASSUME CInv, [SessionNext]_sessionVars
  PROVE  [Next]_vars
<1>1. CASE ChainStep
  BY <1>1 DEF ChainStep, Next
<1>2. CASE QuitAll
  BY <1>2 DEF QuitAll, Next
<1>3. ASSUME NEW r \in Reports, Publish(r) \/ StoreReport(r) PROVE UNCHANGED vars
  BY <1>3 DEF Publish, StoreReport
<1>4. ASSUME NEW b \in carried, DeliverReports(b) PROVE UNCHANGED vars
  BY <1>4 DEF DeliverReports
<1>5. ASSUME NEW s \in Sessions, OpenSession(s) PROVE Next
  BY <1>5 DEF OpenSession, Next
<1>6. ASSUME NEW s \in Sessions, LoopStep(s) PROVE [Next]_vars
  <2>1. CASE HandlerStep(s)
    BY <2>1 DEF Next
  <2>2. CASE StatsStep(s)
    BY <2>2 DEF StatsStep, PollStats, SendStats, EndStats, BreakStats
  <2> QED
    BY <1>6, <2>1, <2>2 DEF LoopStep
<1>7. ASSUME NEW s \in Sessions, ThreadStep(s) PROVE [Next]_vars
  <2>1. CASE \E t \in tasks : Work(t)
    BY <2>1 DEF Next
  <2>2. CASE \E t \in storing : StoreStat(t)
    BY <2>2 DEF StoreStat
  <2> QED
    BY <1>7, <2>1, <2>2 DEF ThreadStep
<1>8. ASSUME NEW s \in Sessions, CommandStep(s) PROVE [Next]_vars
  <2>1. CASE Leave(s)
    BY <2>1, LeaveIsDisconnect DEF Next
  <2>2. CASE ~Leave(s)
    BY <1>8, <2>2 DEF CommandStep, Type, Hear, Answer, TimeOut, TakeAnswer, Cut, Return
  <2> QED
    BY <2>1, <2>2
<1>9. CASE UNCHANGED sessionVars
  BY <1>9 DEF sessionVars
<1> QED
  BY <1>1, <1>2, <1>3, <1>4, <1>5, <1>6, <1>7, <1>8, <1>9 DEF SessionNext

LEMMA ConnStays ==
  ASSUME SInv, [Next]_vars, NEW s \in Sessions, conn[s] # "none"
  PROVE  conn'[s] # "none"
<1>1. CASE Elsewhere
  BY <1>1, ElsewhereHarmless DEF ConnKept
<1>2. ASSUME NEW r \in Sessions, Open(r) PROVE conn'[s] # "none"
  BY <1>2 DEF Open, SInv, TypeOK
<1>3. ASSUME NEW t \in tasks, Work(t) PROVE conn'[s] # "none"
  <2>1. CASE Check(t) \/ Verify(t) \/ Fail(t)
    BY <2>1, CheckIs, FailIs DEF ConnKept
  <2>2. CASE (Store(t) /\ ~Fail(t)) \/ Apply(t) \/ Count(t)
    BY <2>2 DEF Store, Apply, Count
  <2> QED
    BY <1>3, <2>1, <2>2 DEF Work, DbFails
<1>4. CASE UNCHANGED vars
  BY <1>4 DEF vars, clientVars
<1> QED
  BY <1>1, <1>2, <1>3, <1>4 DEF Next, Elsewhere

-----------------------------------------------------------------------------
(* Theorems.                                                               *)

LEMMA InitSession == SessionInit => CInv
<1> SUFFICES ASSUME SessionInit PROVE CInv
  OBVIOUS
<1>1. SInv
  BY InitInvariant DEF SessionInit
<1>2. /\ <<>> \in Seq(Reports) /\ DOMAIN <<>> = {} /\ NoStream \in Streams
      /\ NoStream.from <= NoStream.cursor /\ NoStream.rows = <<>> /\ ~NoStream.open
      /\ NoStream.from = NoStream.cursor /\ NoStream.cursor = 0
  BY DEF NoStream, Streams
<1>3. \A s \in Sessions : stream[s] = NoStream /\ streamed[s] = {}
  BY DEF SessionInit
<1>4. Arriving
  BY <1>2 DEF SessionInit, Arriving
<1>5. Shaped
  <2>1. stream \in [Sessions -> Streams] /\ streamed \in [Sessions -> SUBSET Reports]
    BY <1>2 DEF SessionInit
  <2> QED
    BY <1>2, <1>3, <2>1, SessionAssumption DEF SessionInit, Shaped
<1>6. Carrying /\ Prompting
  BY FS_EmptySet DEF SessionInit, Carrying, Prompting, Pending
<1>7. ToSet(table) = {}
  BY <1>2 DEF SessionInit, ToSet
<1>8. ASSUME NEW s \in Sessions PROVE Between(s) /\ Streaming(s)
  <2>1. Queued(s) /\ Between(s)
    BY <1>2, <1>3 DEF Queued, Between
  <2>2. Marked(s)
    BY <1>2, <1>3 DEF Marked
  <2> QED
    BY <1>7, <2>1, <2>2 DEF Streaming, Missed, Passed
<1>9. ASSUME NEW s \in Sessions PROVE Entered(s)
  BY DEF SessionInit, Init, NoHandler, Entered
<1> QED
  BY <1>1, <1>4, <1>5, <1>6, <1>8, <1>9 DEF CInv, Steady

(* What a handler or a prompt of a session comes from.                     *)
LEMMA SessionKeeps ==
  ASSUME CInv, [SessionNext]_sessionVars
  PROVE  /\ Steady'
         /\ \A s \in Sessions :
              \/ handler'[s] = handler[s] \/ handler[s].pc # "none"
              \/ s \in links
         /\ \A s \in Sessions :
              prompt'[s] = "none" \/ prompt[s] # "none" \/ conn'[s] # "none"
<1> DEFINE Fine == /\ Steady'
                   /\ \A s \in Sessions :
                        \/ handler'[s] = handler[s] \/ handler[s].pc # "none"
                        \/ s \in links
                   /\ \A s \in Sessions :
                        prompt'[s] = "none" \/ prompt[s] # "none" \/ conn'[s] # "none"
<1> SUFFICES Fine
  OBVIOUS
<1>0. Steady /\ SInv
  BY DEF CInv
<1>a. ASSUME Steady', handler' = handler, prompt' = prompt PROVE Fine
  BY <1>a
<1>1. CASE ChainStep
  <2>1. UNCHANGED <<reportVars, promptVars>> /\ prompt' = prompt
    BY <1>1 DEF ChainStep, promptVars
  <2>2. ASSUME NEW s \in Sessions, Hello(s) PROVE Fine
    <3>1. Steady'
      BY <2>1, <2>2, HelloStep
    <3>2. s \in links /\ \A r \in Sessions : r # s => handler'[r] = handler[r]
      BY <2>2, HandlerIsOne DEF Hello, CInv, SInv
    <3> QED
      BY <2>1, <3>1, <3>2
  <2>3. CASE AddBlock \/ (\E s \in Sessions : SeesClose(s) \/ Disconnect(s))
               \/ (\E b \in net : Deliver(b))
    BY <2>1, <2>3, <1>a, WorkStep
  <2> QED
    BY <1>1, <2>2, <2>3 DEF ChainStep
<1>2. CASE QuitAll
  BY <1>0, <1>2, QuitAllKeeps
<1>3. ASSUME NEW r \in Reports, Publish(r) \/ StoreReport(r) PROVE Fine
  <2>1. handler' = handler /\ prompt' = prompt
    BY <1>3 DEF Publish, StoreReport, vars, masterVars, promptVars
  <2> QED
    BY <1>0, <1>3, <1>a, <2>1, PublishKeeps, StoreReportKeeps
<1>4. ASSUME NEW b \in carried, DeliverReports(b) PROVE Fine
  <2>1. handler' = handler /\ prompt' = prompt
    BY <1>4 DEF DeliverReports, vars, masterVars, promptVars
  <2> QED
    BY <1>0, <1>4, <1>a, <2>1, DeliverReportsKeeps
<1>5. ASSUME NEW s \in Sessions, OpenSession(s) PROVE Fine
  <2>1. conn'[s] # "none"
    BY <1>0, <1>5 DEF OpenSession, Open, SInv, TypeOK
  <2>2. /\ Steady' /\ handler' = handler
        /\ \A r \in Sessions : r # s => prompt'[r] = prompt[r]
    BY <1>5, OpenSessionKeeps
  <2> QED
    BY <2>1, <2>2
<1>6. ASSUME NEW s \in Sessions, LoopStep(s) PROVE Fine
  <2>1. CASE ~stream[s].open /\ HandlerStep(s) /\ UNCHANGED <<reportVars, promptVars>>
    <3>1. Steady' /\ prompt' = prompt
      BY <2>1, HelloStep DEF promptVars
    <3>2. handler[s].pc # "none" /\ \A r \in Sessions : r # s => handler'[r] = handler[r]
      BY <1>0, <2>1, HandlerIsOne DEF SInv
    <3> QED
      BY <3>1, <3>2
  <2>2. CASE StatsStep(s)
    <3>1. handler' = handler /\ prompt' = prompt
      BY <2>2 DEF StatsStep, PollStats, SendStats, EndStats, BreakStats, vars, masterVars, promptVars
    <3>2. Steady'
      BY <1>0, <2>2, PollStatsKeeps, SendStatsKeeps, StopsReading DEF StatsStep
    <3> QED
      BY <1>a, <3>1, <3>2
  <2> QED
    BY <1>6, <2>1, <2>2 DEF LoopStep
<1>7. ASSUME NEW s \in Sessions, ThreadStep(s) PROVE Fine
  <2>1. CASE (\E t \in tasks : Work(t)) /\ UNCHANGED <<reportVars, promptVars>>
    <3>1. Steady' /\ handler' = handler /\ prompt' = prompt
      BY <2>1, WorkStep DEF promptVars
    <3> QED
      BY <1>a, <3>1
  <2>2. ASSUME NEW t \in storing, StoreStat(t) PROVE Fine
    <3>1. handler' = handler /\ prompt' = prompt
      BY <2>2 DEF StoreStat, vars, masterVars, promptVars
    <3> QED
      BY <1>0, <1>a, <2>2, <3>1, StoreStatKeeps
  <2> QED
    BY <1>7, <2>1, <2>2 DEF ThreadStep
<1>8. ASSUME NEW s \in Sessions, CommandStep(s) PROVE Fine
  BY <1>0, <1>8, CommandKeeps
<1>9. CASE UNCHANGED sessionVars
  <2>1. UNCHANGED <<reportVars, promptVars, handler>>
    BY <1>9 DEF sessionVars, vars, masterVars
  <2>2. Steady' /\ prompt' = prompt
    BY <1>0, <2>1, ChainKeeps DEF promptVars
  <2> QED
    BY <1>a, <2>1, <2>2
<1> HIDE DEF Fine
<1> QED
  BY <1>1, <1>2, <1>3, <1>4, <1>5, <1>6, <1>7, <1>8, <1>9 DEF SessionNext

LEMMA StepSession ==
  ASSUME CInv, [SessionNext]_sessionVars
  PROVE  CInv'
<1>1. [Next]_vars
  BY SessionStepIsSync
<1>2. SInv /\ SInv'
  BY <1>1, StepInvariant DEF CInv
<1>3. ASSUME NEW s \in Sessions PROVE Entered(s)'
  <2>1. conn[s] # "none" => conn'[s] # "none"
    BY <1>1, <1>2, ConnStays
  <2>2. Entered(s)
    BY DEF CInv
  <2>3. s \in links => conn[s] # "none"
    BY <1>2 DEF SInv, Begun
  <2>4. /\ handler'[s] = handler[s] \/ handler[s].pc # "none" \/ s \in links
        /\ prompt'[s] = "none" \/ prompt[s] # "none" \/ conn'[s] # "none"
    BY SessionKeeps
  <2> QED
    BY <2>1, <2>2, <2>3, <2>4 DEF Entered
<1> QED
  BY <1>2, <1>3, SessionKeeps DEF CInv

(***************************************************************************)
(* The inductive invariant of a client's sessions.                         *)
(***************************************************************************)
THEOREM SessionInvariant == SessionSpec => []CInv
<1>1. CInv /\ [SessionNext]_sessionVars => CInv'
  BY StepSession
<1> QED
  BY <1>1, InitSession, PTL DEF SessionSpec

(***************************************************************************)
(* Neither reports nor commands disturb how the client follows the chain:  *)
(* what is proved of ClientSync holds of whole sessions                    *)
(* (master_serve/activity.rs 196-330: one loop for blocks and reports;     *)
(* session.rs: the prompt works on another thread).                        *)
(***************************************************************************)
THEOREM SessionFollowsChain == SessionSpec => Spec
<1>1. SessionInit => Init
  BY DEF SessionInit
<1>2. CInv /\ [SessionNext]_sessionVars => [Next]_vars
  BY SessionStepIsSync
<1> QED
  BY <1>1, <1>2, SessionInvariant, PTL DEF SessionSpec, Spec

(***************************************************************************)
(* The shape of streams, batches, prompts and commands: a prompt is busy   *)
(* exactly while a command is not over (session.rs).                       *)
(***************************************************************************)
THEOREM SessionTypes == SessionSpec => []SessionTypeOK
<1>1. ASSUME CInv PROVE SessionTypeOK
  <2>1. Arriving /\ Shaped /\ Carrying /\ Prompting
    BY <1>1 DEF CInv, Steady
  <2>2. ASSUME NEW s \in Sessions
        PROVE  /\ stream[s].open \in BOOLEAN /\ stream[s].rows \in Seq(Reports)
               /\ 0 <= stream[s].from /\ stream[s].from <= stream[s].cursor
               /\ streamed[s] \subseteq Reports
               /\ prompt[s] \in {"none", "ready", "busy", "gone"}
               /\ call[s] \in Pending \cup {"none"}
               /\ prompt[s] = "busy" <=> call[s] \in Pending
    <3>1. stream[s].from \in Nat
      BY <2>1, StreamIs
    <3>2. 0 <= stream[s].from
      BY <3>1
    <3> QED
      BY <2>1, <3>2, StreamIs DEF Shaped, Prompting
  <2> QED
    BY <2>1, <2>2 DEF SessionTypeOK, Arriving, Carrying, Shaped, Prompting
<1>2. CInv => SessionTypeOK
  BY <1>1
<1> QED
  BY <1>2, SessionInvariant, PTL

(***************************************************************************)
(* However reports come, streams fail and blocks come in between, a report *)
(* that a handler passes over was overtaken by one it sent                 *)
(* (master_serve/activity.rs 266-317: last_timestamp is all it remembers). *)
(***************************************************************************)
THEOREM OnlyLateSkipped == SessionSpec => []SkippedOnlyLate
<1>1. CInv => SkippedOnlyLate
  BY DEF CInv, Steady, Streaming, Passed, SkippedOnlyLate
<1> QED
  BY <1>1, SessionInvariant, PTL

=============================================================================
