--------------------------- MODULE OrderLog_proofs ---------------------------
(***************************************************************************)
(* Proofs that the masters keep the promise of OrderLog, and of the safety *)
(* properties it rests on, for any masters, orders and bounds.             *)
(*                                                                         *)
(* PInv extends IInv of MasterOrders_proofs by what ties the tasks to the  *)
(* rows they wrote and the voters' ballots to the orders they are about:   *)
(* every row has at most one task that stored it, and an entry of          *)
(* approved_blocks ends in an order of its own master.  The serial hash a  *)
(* voter finds there spells out the order it is about, so the row a voter  *)
(* inserts after a vote holds an order of its own clients as well.         *)
(***************************************************************************)
EXTENDS MasterOrders_proofs

Last(h) == h[Len(h)]

(* The task has written its block.                                         *)
Stored == {"interpret", "done"}

TasksStored ==
  \A r \in Requests : task[r].pc \in Stored =>
    /\ task[r].id \in DOMAIN chain[Home[r]] \ {0}
    /\ chain[Home[r]][task[r].id] = Row(task[r].fin, Body[r])

OneTaskPerRow ==
  \A r, s \in Requests :
    (/\ Home[r] = Home[s] /\ task[r].id = task[s].id
     /\ task[r].pc \in Stored /\ task[s].pc \in Stored) => r = s

OwnBallots ==
  \A m \in Masters : \A e \in approved[m] :
    /\ Len(e.hash) > 1
    /\ \E r \in Requests : Home[r] = m /\ task[r].pc # "idle" /\ Last(e.hash) = Body[r]

(* A request to place a block and a vote against it name the block by the  *)
(* raw hash of an order.                                                   *)
Against(d) == d.type = "SerialVote" /\ d.vote = "No"

OfOrder(d) ==
  d.type = "ArchiveBlock" \/ Against(d) => \E b \in Bodies : d.hash = RawHash(b)

ArchivesOfOrders ==
  /\ \A c \in net : OfOrder(c.data)
  /\ \A m \in Masters : \A i \in DOMAIN events[m] : OfOrder(events[m][i])

PInv ==
  /\ IInv
  /\ TasksStored /\ OneTaskPerRow /\ AppliedOnce
  /\ OwnBallots /\ OnlyOwnOrders
  /\ ArchivesOfOrders /\ SerialVotesOwnChain

-----------------------------------------------------------------------------
(* How far tasks move.                                                     *)

(* Only an insert makes a task one that has stored its block.              *)
Settled(s) ==
  task'[s].pc \in Stored =>
    /\ task[s].pc \in Stored
    /\ task'[s].id = task[s].id /\ task'[s].fin = task[s].fin

(* No order is forgotten, and a task that is done is left alone.           *)
Taken(s) ==
  /\ task[s].pc # "idle" => task'[s].pc # "idle"
  /\ task[s].pc = "done" => task'[s] = task[s]

LEMMA MoveSettles ==
  ASSUME TaskOK, NEW r \in Requests, NEW pc,
         pc \in Stored => task[r].pc \in Stored, pc # "idle", task[r].pc # "done"
  PROVE  /\ Goto(r, pc) => \A s \in Requests : Settled(s) /\ Taken(s)
         /\ Retry(r, pc) => \A s \in Requests : Settled(s) /\ Taken(s)
         /\ \A status : Answer(r, status, pc) => \A s \in Requests : Settled(s) /\ Taken(s)
<1>1. Goto(r, pc) => \A s \in Requests : Settled(s) /\ Taken(s)
  BY DEF TaskOK, Goto, Settled, Taken
<1>2. Retry(r, pc) => \A s \in Requests : Settled(s) /\ Taken(s)
  BY DEF TaskOK, Retry, Settled, Taken
<1> QED
  BY <1>1, <1>2 DEF Answer

LEMMA NextBlockSettles ==
  ASSUME TaskOK, NEW r \in Requests, NEW pc, NextBlock(r, pc),
         pc \notin Stored, pc # "idle", task[r].pc # "done"
  PROVE  \A s \in Requests : Settled(s) /\ Taken(s)
  BY DEF TaskOK, NextBlock, Settled, Taken

(* The insert of a task's own block.                                       *)
Stores(r) ==
  /\ task[r].pc = "add"
  /\ Follows(Home[r], task[r].id, task[r].fin, Body[r])
  /\ AddNew(Home[r], task[r].id, Row(task[r].fin, Body[r]))
  /\ Goto(r, "interpret")

(* The insert of a voter: one more block with an order of its clients.     *)
Repeats(m, r, id, h) ==
  /\ Home[r] = m /\ task[r].pc # "idle"
  /\ Follows(m, id, h, Body[r])
  /\ AddNew(m, id, Row(h, Body[r]))

(* A step of a task inserts its block or leaves the chain alone, and then  *)
(* nothing is newly stored.                                                *)
LEMMA TaskStores ==
  ASSUME IInv, NEW r \in Requests, Submit(r) \/ TaskStep(r)
  PROVE  /\ Stores(r) \/ (UNCHANGED chain /\ \A s \in Requests : Settled(s))
         /\ \A s \in Requests : Taken(s)
<1> USE DEF Stored
<1>1. TaskOK
  BY DEF IInv, TypeOK
<1>2. CASE Submit(r)
  BY <1>1, <1>2, MoveSettles DEF Submit
<1>3. CASE ReadTip(r)
  BY <1>1, <1>3, MoveSettles, NextBlockSettles DEF ReadTip
<1>4. CASE Publish(r)
  BY <1>1, <1>4, MoveSettles DEF Publish
<1>5. CASE PushPending(r)
  BY <1>1, <1>5, MoveSettles DEF PushPending
<1>6. CASE EndVote(r)
  <2>1. CASE Answer(r, "Rejected", "refused")
    BY <1>1, <1>6, <2>1, MoveSettles DEF EndVote, VoteOver
  <2>2. CASE task' = [task EXCEPT ![r].pc = "order", ![r].retry = 0]
    BY <1>1, <1>6, <2>2 DEF TaskOK, Settled, Taken, EndVote, VoteOver
  <2> QED
    BY <1>6, <2>1, <2>2 DEF EndVote
<1>7. CASE OrderVote(r)
  BY <1>1, <1>7, MoveSettles, NextBlockSettles DEF OrderVote
<1>8. CASE PushApproved(r)
  BY <1>1, <1>8, MoveSettles DEF PushApproved
<1>9. CASE EndBallot(r)
  BY <1>1, <1>9, MoveSettles DEF EndBallot
<1>10. CASE AddBlock(r)
  <2>1. Follows(Home[r], task[r].id, task[r].fin, Body[r])
    BY <1>10 DEF IInv, InFlightLinked, TasksLinked, Announced, AddBlock
  <2>2. CASE AddNewFails(Home[r], task[r].id) /\ Goto(r, "lost")
    BY <1>1, <1>10, <2>2, MoveSettles DEF AddBlock, AddNewFails
  <2>3. CASE AddNew(Home[r], task[r].id, Row(task[r].fin, Body[r])) /\ Goto(r, "interpret")
    BY <1>1, <1>10, <2>1, <2>3 DEF TaskOK, AddBlock, Stores, Goto, Taken
  <2> QED
    BY <1>10, <2>2, <2>3 DEF AddBlock
<1>11. CASE Interpret(r)
  BY <1>1, <1>11, MoveSettles DEF Interpret
<1> QED
  BY <1>2, <1>3, <1>4, <1>5, <1>6, <1>7, <1>8, <1>9, <1>10, <1>11 DEF TaskStep

(* The last element of a serial hash is the order it is about.             *)
LEMMA LastOfSerial ==
  ASSUME NEW h \in Hashes, NEW b \in AllBodies
  PROVE  Last(SerialHash(h, b)) = b /\ Len(SerialHash(h, b)) > 1
<1>1. h \in Seq(AllBodies) /\ h # <<>>
  BY DEF Hashes, AllBodies
<1>2. Len(h) \in Nat \ {0}
  BY <1>1
<1> QED
  BY <1>1, <1>2 DEF Last, SerialHash

(* What follows a stored block ends in its order.                          *)
LEMMA LastFollows ==
  ASSUME IInv, NEW m \in Masters, NEW id, NEW h, NEW b \in AllBodies, Follows(m, id, h, b)
  PROVE  Last(h) = b /\ Len(h) > 1
<1>1. chain[m][id - 1].hash \in Hashes
  BY DEF IInv, TypeOK, StoreOK, Follows
<1> QED
  BY <1>1, LastOfSerial DEF Follows

(* A voter inserts nothing, or an order one of its own tasks put to vote:  *)
(* the entry it found a quorum in carries the hash its timer announced.    *)
LEMMA VoterRepeats ==
  ASSUME IInv, OwnBallots, NEW m \in Masters, Handle(m)
  PROVE  \/ UNCHANGED chain
         \/ \E r \in Requests : \E id \in Nat, h \in Hashes : Repeats(m, r, id, h)
<1> DEFINE e == Head(events[m])
<1>1. CASE HandleApprovedTimeout(m)
  <2>1. CASE UNCHANGED chain
    BY <2>1
  <2>2. CASE ~UNCHANGED chain
    <3>1. /\ Quorum(OfHash(approved[m], e.hash))
          /\ AddNew(m, e.id, Row(e.hash, e.raw[1]))
      BY <1>1, <2>2 DEF HandleApprovedTimeout, AddNewFails
    <3>2. Arrived(m, "ApprovedBlockTimeout")
      BY <1>1 DEF HandleApprovedTimeout
    <3>3. e \in Event /\ e.type = "ApprovedBlockTimeout"
      BY <3>2, ChannelType DEF IInv, TypeOK
    <3>4. e.id \in Nat /\ e.hash \in Hashes /\ e.raw[1] \in AllBodies
      BY <3>3, EventFields, HashTypes
    <3>5. Follows(m, e.id, e.hash, e.raw[1])
      <4>1. events[m] \in Seq(Event) /\ events[m] # <<>>
        BY <3>2 DEF IInv, TypeOK, VotesOK, Arrived
      <4>2. 1 \in DOMAIN events[m] /\ e = events[m][1]
        BY <4>1
      <4> QED
        BY <3>3, <4>2 DEF IInv, InFlightLinked, TimersLinked, Upcoming
    <3>6. PICK a \in approved[m] : a.hash = e.hash
      BY <3>1 DEF Quorum, OfHash
    <3>7. PICK r \in Requests :
            Home[r] = m /\ task[r].pc # "idle" /\ Last(a.hash) = Body[r]
      BY DEF OwnBallots
    <3>8. e.raw[1] = Body[r]
      BY <3>4, <3>5, <3>6, <3>7, LastFollows
    <3>9. Repeats(m, r, e.id, e.hash)
      BY <3>1, <3>5, <3>7, <3>8 DEF Repeats
    <3> QED
      BY <3>4, <3>9
  <2> QED
    BY <2>1, <2>2
<1>2. CASE ~HandleApprovedTimeout(m)
  BY <1>2 DEF Handle, HandleVote, HandleSerialVote, HandleNewBlock, HandleArchiveBlock,
              HandlePendingTimeout
<1> QED
  BY <1>1, <1>2

(* Only tasks' own steps and a crash move tasks.                           *)
LEMMA OthersSettle ==
  ASSUME TypeOK, UNCHANGED task \/ \E m \in Masters : Crash(m)
  PROVE  \A s \in Requests : Settled(s) /\ Taken(s)
<1>1. CASE UNCHANGED task
  BY <1>1 DEF Settled, Taken
<1>2. ASSUME NEW m \in Masters, Crash(m)
      PROVE  \A s \in Requests : Settled(s) /\ Taken(s)
  <2> SUFFICES ASSUME NEW s \in Requests
               PROVE  Settled(s) /\ Taken(s)
    OBVIOUS
  <2>1. \/ task'[s] = task[s]
        \/ task[s].pc \in Running /\ task'[s] = [task[s] EXCEPT !.pc = "dead"]
        \/ task[s].pc = "interpret" /\ task'[s] = [task[s] EXCEPT !.pc = "done"]
    BY <1>2 DEF Crash
  <2> QED
    BY <2>1 DEF TypeOK, TaskOK, Settled, Taken, Stored, Running
<1> QED
  BY <1>1, <1>2

(* The ways a table of blocks grows: a task inserts the block it put to    *)
(* vote, or a voter one with an order of its own clients.                  *)
ChainStep ==
  \/ UNCHANGED chain /\ \A s \in Requests : Settled(s)
  \/ \E r \in Requests : Stores(r)
  \/ /\ UNCHANGED task
     /\ \E r \in Requests : \E id \in Nat, h \in Hashes : Repeats(Home[r], r, id, h)

LEMMA StepOfChain ==
  ASSUME IInv, OwnBallots, [Next]_vars
  PROVE  ChainStep /\ \A s \in Requests : Taken(s)
<1>1. ASSUME NEW r \in Requests, Submit(r) \/ TaskStep(r)
      PROVE  ChainStep /\ \A s \in Requests : Taken(s)
  BY <1>1, TaskStores DEF ChainStep
<1>2. ASSUME NEW m \in Masters, Handle(m)
      PROVE  ChainStep /\ \A s \in Requests : Taken(s)
  <2>1. UNCHANGED task
    BY <1>2 DEF Handle, HandleVote, HandleSerialVote, HandleNewBlock, HandleArchiveBlock,
                HandlePendingTimeout, HandleApprovedTimeout
  <2> QED
    BY <1>2, <2>1, VoterRepeats, OthersSettle DEF IInv, ChainStep, Repeats
<1>3. ASSUME NEW m \in Masters, TimerFires(m) \/ Crash(m)
      PROVE  ChainStep /\ \A s \in Requests : Taken(s)
  <2>1. UNCHANGED chain /\ (UNCHANGED task \/ Crash(m))
    BY <1>3 DEF TimerFires, Crash
  <2> QED
    BY <2>1, OthersSettle DEF IInv, ChainStep
<1>4. ASSUME NEW c \in net, Receive(c)
      PROVE  ChainStep /\ \A s \in Requests : Taken(s)
  <2>1. UNCHANGED <<chain, task>>
    BY <1>4 DEF Receive, ReceiveIgnored, ReceiveNotice, ReceiveValidBlock, ReceiveBadBlock
  <2> QED
    BY <2>1, OthersSettle DEF IInv, ChainStep
<1>5. CASE UNCHANGED vars
  BY <1>5, OthersSettle DEF IInv, ChainStep, vars
<1> QED
  BY <1>1, <1>2, <1>3, <1>4, <1>5 DEF Next

-----------------------------------------------------------------------------
(* What stored rows and applied orders owe to tasks.                       *)
LEMMA AddedRow ==
  ASSUME TypeOK, NEW m \in Masters, NEW id, NEW row, AddNew(m, id, row)
  PROVE  /\ id \notin DOMAIN chain[m]
         /\ DOMAIN chain'[m] = DOMAIN chain[m] \cup {id}
         /\ chain'[m][id] = row
         /\ \A k \in DOMAIN chain[m] : chain'[m][k] = chain[m][k]
         /\ \A o \in Masters : o # m => chain'[o] = chain[o]
<1>1. DOMAIN chain = Masters
  BY DEF TypeOK, StoreOK
<1>2. chain'[m] = [k \in DOMAIN chain[m] \cup {id} |-> IF k = id THEN row ELSE chain[m][k]]
  BY <1>1 DEF AddNew
<1> QED
  BY <1>1, <1>2 DEF AddNew

LEMMA StepExtends ==
  ASSUME IInv, ChainStep
  PROVE  Extends
<1>1. CASE UNCHANGED chain
  BY <1>1, ChainUntouched DEF IInv
<1>2. ASSUME NEW r \in Requests, Stores(r)
      PROVE  Extends
  <2>1. Home[r] \in Masters /\ task[r].id \in Nat
    BY ConstantsAssumption DEF IInv, TypeOK, TaskOK
  <2> QED
    BY <1>2, <2>1, AddLinks DEF IInv, Stores
<1>3. ASSUME NEW r \in Requests, NEW id \in Nat, NEW h \in Hashes, Repeats(Home[r], r, id, h)
      PROVE  Extends
  <2>1. Home[r] \in Masters
    BY ConstantsAssumption
  <2> QED
    BY <1>3, <2>1, AddLinks DEF IInv, Repeats
<1> QED
  BY <1>1, <1>2, <1>3 DEF ChainStep

(* The row a task inserts is new: it is not the first one, and no other    *)
(* task of its master stored a block under its id.                         *)
LEMMA NewRow ==
  ASSUME IInv, TasksStored, NEW r \in Requests, Stores(r)
  PROVE  /\ task[r].id # 0
         /\ task[r].id \in DOMAIN chain'[Home[r]]
         /\ chain'[Home[r]][task[r].id] = Row(task[r].fin, Body[r])
         /\ task'[r].pc = "interpret" /\ task'[r].id = task[r].id /\ task'[r].fin = task[r].fin
         /\ \A s \in Requests \ {r} : task'[s] = task[s]
         /\ \A s \in Requests : Home[s] = Home[r] /\ task[s].pc \in Stored => task[s].id # task[r].id
<1>1. Home[r] \in Masters
  BY ConstantsAssumption
<1>2. task[r].id \notin DOMAIN chain[Home[r]]
  BY DEF Stores, AddNew
<1>3. 0 \in DOMAIN chain[Home[r]]
  BY <1>1 DEF IInv, ChainLinked
<1>4. /\ task'[r].pc = "interpret" /\ task'[r].id = task[r].id /\ task'[r].fin = task[r].fin
      /\ \A s \in Requests \ {r} : task'[s] = task[s]
  BY DEF IInv, TypeOK, TaskOK, Stores, Goto
<1>5. \A s \in Requests : Home[s] = Home[r] /\ task[s].pc \in Stored => task[s].id # task[r].id
  BY <1>2 DEF TasksStored
<1> QED
  BY <1>1, <1>2, <1>3, <1>4, <1>5, AddedRow DEF IInv, Stores

LEMMA StoredKept ==
  ASSUME IInv, TasksStored, OneTaskPerRow, ChainStep
  PROVE  TasksStored' /\ OneTaskPerRow'
<1>1. Extends
  BY StepExtends
<1>2. CASE \A s \in Requests : Settled(s)
  <2>1. TasksStored'
    BY <1>1, <1>2, ConstantsAssumption DEF TasksStored, Settled, Extends
  <2>2. OneTaskPerRow'
    BY <1>2 DEF OneTaskPerRow, Settled
  <2> QED
    BY <2>1, <2>2
<1>3. ASSUME NEW r \in Requests, Stores(r)
      PROVE  TasksStored' /\ OneTaskPerRow'
  <2>1. TasksStored'
    <3> SUFFICES ASSUME NEW s \in Requests, task'[s].pc \in Stored
                 PROVE  /\ task'[s].id \in DOMAIN chain'[Home[s]] \ {0}
                        /\ chain'[Home[s]][task'[s].id] = Row(task'[s].fin, Body[s])
      BY DEF TasksStored
    <3>1. CASE s = r
      BY <1>3, <3>1, NewRow
    <3>2. CASE s # r
      BY <1>1, <1>3, <3>2, NewRow, ConstantsAssumption DEF TasksStored, Extends
    <3> QED
      BY <3>1, <3>2
  <2>2. OneTaskPerRow'
    BY <1>3, NewRow DEF OneTaskPerRow
  <2> QED
    BY <2>1, <2>2
<1>4. CASE UNCHANGED task
  BY <1>2, <1>4 DEF Settled
<1> QED
  BY <1>2, <1>3, <1>4 DEF ChainStep

(* The tables change when a task applies the block it stored.              *)
LEMMA StepOfTables ==
  ASSUME [Next]_vars
  PROVE  \/ UNCHANGED tables
         \/ \E r \in Requests :
              /\ task[r].pc = "interpret" /\ Goto(r, "done")
              /\ tables' = [tables EXCEPT ![Home[r]] = Append(@, task[r].id)]
              /\ UNCHANGED chain
  BY DEF Next, Submit, TaskStep, ReadTip, Publish, PushPending, EndVote, OrderVote,
         PushApproved, EndBallot, AddBlock, Interpret, Receive, ReceiveIgnored, ReceiveNotice,
         ReceiveValidBlock, ReceiveBadBlock, Handle, HandleVote, HandleSerialVote,
         HandleNewBlock, HandleArchiveBlock, HandlePendingTimeout, HandleApprovedTimeout,
         TimerFires, Crash, vars

(* The task that applied block id of master m, and after a step.           *)
AppliedBy(r, m, id) ==
  /\ Home[r] = m /\ task[r].pc = "done" /\ task[r].id = id
  /\ id \in DOMAIN chain[m] /\ chain[m][id] = Row(task[r].fin, Body[r])

HasApplied(r, m, id) ==
  /\ Home[r] = m /\ task'[r].pc = "done" /\ task'[r].id = id
  /\ id \in DOMAIN chain'[m] /\ chain'[m][id] = Row(task'[r].fin, Body[r])

LEMMA AppliedKept ==
  ASSUME IInv, TasksStored, OneTaskPerRow, AppliedOnce, ChainStep, [Next]_vars,
         \A s \in Requests : Taken(s)
  PROVE  AppliedOnce'
<1>1. Extends
  BY StepExtends
<1>2. ASSUME NEW m \in Masters, NEW i \in DOMAIN tables[m], tables[m][i] # 0
      PROVE  \E r \in Requests : HasApplied(r, m, tables[m][i])
  <2>1. PICK r \in Requests : AppliedBy(r, m, tables[m][i])
    BY <1>2 DEF AppliedOnce, AppliedBy
  <2>2. /\ task'[r] = task[r] /\ tables[m][i] \in DOMAIN chain'[m]
        /\ chain'[m][tables[m][i]] = chain[m][tables[m][i]]
    BY <1>1, <2>1 DEF AppliedBy, Taken, Extends
  <2>3. /\ Home[r] = m /\ task'[r].pc = "done" /\ task'[r].id = tables[m][i]
        /\ chain'[m][tables[m][i]] = Row(task'[r].fin, Body[r])
    BY <2>1, <2>2 DEF AppliedBy
  <2> QED
    BY <2>2, <2>3 DEF HasApplied
<1>3. ASSUME NEW m \in Masters, NEW i \in DOMAIN tables[m], NEW j \in DOMAIN tables[m],
             tables[m][i] = tables[m][j]
      PROVE  i = j
  BY <1>3 DEF AppliedOnce
<1>4. CASE UNCHANGED tables
  <2> SUFFICES ASSUME NEW m \in Masters, NEW i \in DOMAIN tables'[m], NEW j \in DOMAIN tables'[m]
               PROVE  /\ tables'[m][j] = tables'[m][i] => i = j
                      /\ tables'[m][i] = 0 \/ \E r \in Requests : HasApplied(r, m, tables'[m][i])
    BY DEF AppliedOnce, HasApplied
  <2> QED
    BY <1>2, <1>3, <1>4
<1>5. ASSUME NEW r \in Requests,
             task[r].pc = "interpret", Goto(r, "done"),
             tables' = [tables EXCEPT ![Home[r]] = Append(@, task[r].id)],
             UNCHANGED chain
      PROVE  AppliedOnce'
  <2> DEFINE id == task[r].id
             n  == Len(tables[Home[r]])
  <2>1. Home[r] \in Masters /\ tables[Home[r]] \in Seq(Nat) /\ id \in Nat
    BY ConstantsAssumption DEF IInv, TypeOK, TaskOK, StoreOK
  <2>2. HasApplied(r, Home[r], id) /\ id # 0
    BY <1>5 DEF IInv, TypeOK, TaskOK, Goto, HasApplied, TasksStored, Stored
  <2>3. \A i \in DOMAIN tables[Home[r]] : tables[Home[r]][i] # id
    <3> SUFFICES ASSUME NEW i \in DOMAIN tables[Home[r]], tables[Home[r]][i] = id
                 PROVE  FALSE
      OBVIOUS
    <3>1. PICK s \in Requests : AppliedBy(s, Home[r], id)
      BY <2>1, <2>2 DEF AppliedOnce, AppliedBy
    <3> QED
      BY <1>5, <3>1 DEF OneTaskPerRow, AppliedBy, Stored
  <2>4. /\ DOMAIN tables'[Home[r]] = 1 .. n + 1
        /\ tables'[Home[r]][n + 1] = id
        /\ \A i \in 1 .. n : tables'[Home[r]][i] = tables[Home[r]][i]
        /\ DOMAIN tables[Home[r]] = 1 .. n /\ n \in Nat
        /\ \A o \in Masters : o # Home[r] => tables'[o] = tables[o]
    BY <1>5, <2>1 DEF IInv, TypeOK, StoreOK
  <2> SUFFICES ASSUME NEW m \in Masters, NEW i \in DOMAIN tables'[m], NEW j \in DOMAIN tables'[m]
               PROVE  /\ tables'[m][j] = tables'[m][i] => i = j
                      /\ tables'[m][i] = 0 \/ \E s \in Requests : HasApplied(s, m, tables'[m][i])
    BY DEF AppliedOnce, HasApplied
  <2>5. CASE m # Home[r]
    BY <1>2, <1>3, <2>4, <2>5
  <2>6. CASE m = Home[r]
    <3>1. tables'[m][i] = 0 \/ \E s \in Requests : HasApplied(s, m, tables'[m][i])
      <4>1. CASE i = n + 1
        BY <2>2, <2>4, <2>6, <4>1
      <4>2. CASE i \in 1 .. n
        BY <1>2, <2>4, <2>6, <4>2
      <4> QED
        BY <2>4, <2>6, <4>1, <4>2
    <3>2. tables'[m][j] = tables'[m][i] => i = j
      <4>1. CASE i \in 1 .. n /\ j \in 1 .. n
        BY <1>3, <2>4, <2>6, <4>1
      <4>2. \A k \in 1 .. n : tables'[m][k] # id
        BY <2>3, <2>4, <2>6
      <4>3. tables'[m][n + 1] = id /\ DOMAIN tables'[m] = 1 .. n + 1 /\ n \in Nat
        BY <2>4, <2>6
      <4> HIDE DEF id, n
      <4>4. \A k \in 1 .. n + 1 : k \in 1 .. n \/ k = n + 1
        BY <4>3
      <4> QED
        BY <4>1, <4>2, <4>3, <4>4
    <3> QED
      BY <3>1, <3>2
  <2> QED
    BY <2>5, <2>6
<1> QED
  BY <1>4, <1>5, StepOfTables

-----------------------------------------------------------------------------
(* The ballots of a voter are about orders of its own clients.             *)
LEMMA StepOfBallots ==
  ASSUME IInv, [Next]_vars
  PROVE  \A m \in Masters : \A e \in approved'[m] :
           \/ \E a \in approved[m] : a.hash = e.hash
           \/ /\ Len(e.hash) > 1
              /\ \E r \in Requests : Home[r] = m /\ task[r].pc # "idle" /\ Last(e.hash) = Body[r]
<1> DEFINE Same == \A m \in Masters : \A e \in approved'[m] : \E a \in approved[m] : a.hash = e.hash
           Mine(m, e) == /\ Len(e.hash) > 1
                         /\ \E r \in Requests :
                              Home[r] = m /\ task[r].pc # "idle" /\ Last(e.hash) = Body[r]
<1>1. approved \in [Masters -> SUBSET ApprovedEntry]
  BY DEF IInv, TypeOK, VotesOK
<1>2. UNCHANGED approved => Same
  OBVIOUS
<1>3. ASSUME NEW r \in Requests, EndBallot(r)
      PROVE  Same
  BY <1>1, <1>3 DEF EndBallot
<1>4. ASSUME NEW m \in Masters, HandleApprovedTimeout(m) \/ Crash(m)
      PROVE  Same
  BY <1>1, <1>4 DEF HandleApprovedTimeout, Crash
<1>5. ASSUME NEW m \in Masters, HandleSerialVote(m)
      PROVE  Same
  <2> DEFINE d == Head(events[m])
             ballot == {a \in OfHash(approved[m], d.hash) : a.id = d.id}
  <2>1. approved' = [approved EXCEPT ![m] = Voted(@, ballot, d.vote)]
    BY <1>5 DEF HandleSerialVote
  <2>2. \A a \in ApprovedEntry : Count(a, d.vote).hash = a.hash
    BY DEF Count, ApprovedEntry
  <2>3. \A e \in Voted(approved[m], ballot, d.vote) : \E a \in approved[m] : a.hash = e.hash
    BY <1>1, <2>2 DEF Voted
  <2> HIDE DEF ballot, d
  <2> QED
    BY <1>1, <2>1, <2>3
<1>6. ASSUME NEW r \in Requests, PushApproved(r)
      PROVE  \A m \in Masters : \A e \in approved'[m] :
               (\E a \in approved[m] : a.hash = e.hash) \/ Mine(m, e)
  <2> DEFINE new == [id |-> task[r].id, hash |-> task[r].fin, ok |-> 1, no |-> 0]
  <2>1. approved' = [approved EXCEPT ![Home[r]] = @ \cup {new}] /\ task[r].pc = "record"
    BY <1>6 DEF PushApproved
  <2>2. Home[r] \in Masters /\ Body[r] \in AllBodies
    BY ConstantsAssumption, HashTypes
  <2>3. Follows(Home[r], task[r].id, task[r].fin, Body[r])
    BY <2>1 DEF IInv, InFlightLinked, TasksLinked, Announced
  <2>4. Mine(Home[r], new)
    BY <2>1, <2>2, <2>3, LastFollows
  <2> HIDE DEF new, Mine
  <2> QED
    BY <1>1, <2>1, <2>4
<1>7. \/ UNCHANGED approved
      \/ \E r \in Requests : EndBallot(r) \/ PushApproved(r)
      \/ \E m \in Masters : HandleApprovedTimeout(m) \/ Crash(m) \/ HandleSerialVote(m)
  BY DEF Next, Submit, TaskStep, ReadTip, Publish, PushPending, EndVote, OrderVote,
         AddBlock, Interpret, Receive, ReceiveIgnored, ReceiveNotice,
         ReceiveValidBlock, ReceiveBadBlock, Handle, HandleVote,
         HandleNewBlock, HandleArchiveBlock, HandlePendingTimeout, TimerFires, vars, voteVars
<1> QED
  BY <1>2, <1>3, <1>4, <1>5, <1>6, <1>7

LEMMA BallotsKept ==
  ASSUME IInv, OwnBallots, [Next]_vars, \A s \in Requests : Taken(s)
  PROVE  OwnBallots'
<1> SUFFICES ASSUME NEW m \in Masters, NEW e \in approved'[m]
             PROVE  /\ Len(e.hash) > 1
                    /\ \E r \in Requests :
                         Home[r] = m /\ task'[r].pc # "idle" /\ Last(e.hash) = Body[r]
  BY DEF OwnBallots, Last
<1>1. /\ Len(e.hash) > 1
      /\ \E r \in Requests : Home[r] = m /\ task[r].pc # "idle" /\ Last(e.hash) = Body[r]
  BY StepOfBallots DEF OwnBallots
<1> QED
  BY <1>1 DEF Taken

(* A new row holds an order of its master's clients, from a task or from a *)
(* voter.                                                                  *)
LEMMA OrdersKept ==
  ASSUME IInv, OnlyOwnOrders, ChainStep, \A s \in Requests : Taken(s)
  PROVE  OnlyOwnOrders'
<1> DEFINE Mine(m, b) == \E r \in Requests : Home[r] = m /\ Body[r] = b /\ task[r].pc # "idle"
<1>1. Home \in [Requests -> Masters]
  BY ConstantsAssumption
<1>2. ASSUME NEW r \in Requests, NEW id, NEW h, task[r].pc # "idle",
             AddNew(Home[r], id, Row(h, Body[r]))
      PROVE  \A m \in Masters : \A k \in DOMAIN chain'[m] \ {0} : Mine(m, chain'[m][k].body)
  <2>1. Row(h, Body[r]).body = Body[r]
    BY DEF Row
  <2> SUFFICES ASSUME NEW m \in Masters, NEW k \in DOMAIN chain'[m] \ {0}
               PROVE  Mine(m, chain'[m][k].body)
    OBVIOUS
  <2>2. CASE m = Home[r] /\ k = id
    BY <1>1, <1>2, <2>1, <2>2, AddedRow DEF IInv
  <2>3. CASE ~(m = Home[r] /\ k = id)
    <3>1. k \in DOMAIN chain[m] /\ chain'[m][k] = chain[m][k]
      BY <1>1, <1>2, <2>3, AddedRow DEF IInv
    <3> QED
      BY <3>1 DEF OnlyOwnOrders
  <2> QED
    BY <2>2, <2>3
<1>3. \A m \in Masters : \A k \in DOMAIN chain'[m] \ {0} : Mine(m, chain'[m][k].body)
  <2>1. CASE UNCHANGED chain
    BY <2>1 DEF OnlyOwnOrders
  <2>2. ASSUME NEW r \in Requests, Stores(r)
        PROVE  \A m \in Masters : \A k \in DOMAIN chain'[m] \ {0} : Mine(m, chain'[m][k].body)
    BY <1>2, <2>2 DEF Stores
  <2>3. ASSUME NEW r \in Requests, NEW id \in Nat, NEW h \in Hashes, Repeats(Home[r], r, id, h)
        PROVE  \A m \in Masters : \A k \in DOMAIN chain'[m] \ {0} : Mine(m, chain'[m][k].body)
    BY <1>2, <2>3 DEF Repeats
  <2> QED
    BY <2>1, <2>2, <2>3 DEF ChainStep
<1> QED
  BY <1>3 DEF OnlyOwnOrders, Taken

-----------------------------------------------------------------------------
(* Requests to place a block and the votes for its place.                  *)

(* What a message of master m must say, whenever it was published.         *)
Honest(m, d) ==
  /\ OfOrder(d)
  /\ d.type = "SerialVote" /\ d.vote = "Ok" => \E b \in Bodies : Follows(m, d.id, d.hash, b)

(* Every copy under way was there before, or a master has just published   *)
(* it, and it is true of that master's chain.                              *)
LEMMA GossipHonest ==
  ASSUME NEW m \in Masters, NEW msgs, \A d \in msgs : Honest(m, d)
  PROVE  /\ Gossip(m, msgs) => \A c \in net' : c \in net \/ Honest(c.from, c.data)
         /\ GossipSome(m, msgs) => \A c \in net' : c \in net \/ Honest(c.from, c.data)
         /\ \A c : c.to = m /\ Take(c, msgs) => \A k \in net' : k \in net \/ Honest(k.from, k.data)
<1>1. \A d : \A c \in Copies(m, d) : c.from = m /\ c.data = d
  BY DEF Copies
<1>2. \A copies, cache : Underway(copies, cache) \subseteq copies
  BY DEF Underway
<1>3. \A taken \in SUBSET msgs :
        \A c \in UNION {Copies(m, d) : d \in taken} : Honest(c.from, c.data)
  BY <1>1
<1>4. \A taken \in SUBSET msgs :
        Gossip(m, taken) => \A c \in net' : c \in net \/ Honest(c.from, c.data)
  BY <1>2, <1>3 DEF Gossip
<1>5. GossipSome(m, msgs) => \A c \in net' : c \in net \/ Honest(c.from, c.data)
  BY <1>4 DEF GossipSome
<1>6. \A c : c.to = m /\ Take(c, msgs) => \A k \in net' : k \in net \/ Honest(k.from, k.data)
  BY <1>2, <1>3 DEF Take
<1> QED
  BY <1>4, <1>5, <1>6

LEMMA StepOfNet ==
  ASSUME IInv, ArchivesOfOrders, [Next]_vars
  PROVE  \A c \in net' : c \in net \/ Honest(c.from, c.data)
<1>1. CASE UNCHANGED net
  BY <1>1
<1>2. ASSUME NEW r \in Requests, Publish(r)
      PROVE  \A c \in net' : c \in net \/ Honest(c.from, c.data)
  <2>1. \A d \in {BlockMsg(Body[r])} : Honest(Home[r], d)
    BY DEF BlockMsg, Honest, OfOrder, Against
  <2> QED
    BY <1>1, <1>2, <2>1, GossipHonest, ConstantsAssumption DEF Publish, gossipVars
<1>3. ASSUME NEW r \in Requests, OrderVote(r)
      PROVE  \A c \in net' : c \in net \/ Honest(c.from, c.data)
  <2> DEFINE archive == ArchiveMsg(RawHash(Body[r]), NextHash(Home[r], Body[r]), NextId(Home[r]))
  <2>1. \A d \in {archive} : Honest(Home[r], d)
    BY DEF ArchiveMsg, RawHash, Honest, OfOrder, Against, RawHash, Bodies
  <2> HIDE DEF archive
  <2>2. UNCHANGED net \/ Gossip(Home[r], {archive})
    BY <1>3 DEF OrderVote, gossipVars, archive
  <2> QED
    BY <1>1, <2>1, <2>2, GossipHonest, ConstantsAssumption
<1>4. ASSUME NEW c \in net, Receive(c)
      PROVE  \A k \in net' : k \in net \/ Honest(k.from, k.data)
  <2>1. \A h, v : Honest(c.to, VoteMsg(h, v))
    BY DEF VoteMsg, Honest, OfOrder, Against
  <2>2. c.to \in Masters
    BY CopyType DEF IInv, TypeOK
  <2>3. \E votes : Take(c, votes) /\ \A d \in votes : Honest(c.to, d)
    <3>1. CASE ReceiveIgnored(c) \/ ReceiveNotice(c)
      <4>1. Take(c, {})
        BY <3>1 DEF ReceiveIgnored, ReceiveNotice
      <4>2. \A d \in {} : Honest(c.to, d)
        OBVIOUS
      <4> QED
        BY <4>1, <4>2
    <3>2. CASE ReceiveValidBlock(c)
      BY <2>1, <3>2 DEF ReceiveValidBlock
    <3>3. CASE ReceiveBadBlock(c)
      <4> DEFINE vote == VoteMsg(c.data.hash, "No")
      <4>1. \E votes \in SUBSET {vote} : Take(c, votes)
        BY <3>3 DEF ReceiveBadBlock
      <4>2. Honest(c.to, vote)
        BY <2>1
      <4> HIDE DEF vote
      <4> QED
        BY <4>1, <4>2
    <3> QED
      BY <1>4, <3>1, <3>2, <3>3 DEF Receive
  <2> QED
    BY <2>2, <2>3, GossipHonest
<1>5. ASSUME NEW m \in Masters, HandleArchiveBlock(m)
      PROVE  \A c \in net' : c \in net \/ Honest(c.from, c.data)
  <2> DEFINE e       == Head(events[m])
             for     == SerialMsg(e.id, e.serial, "Ok")
             against == SerialMsg(e.id, e.hash, "No")
  <2>1. \E b \in Bodies : e.hash = RawHash(b)
    <3>1. Arrived(m, "ArchiveBlock") /\ events[m] \in Seq(Event)
      BY <1>5 DEF HandleArchiveBlock, IInv, TypeOK, VotesOK
    <3>2. 1 \in DOMAIN events[m] /\ e = events[m][1] /\ e.type = "ArchiveBlock"
      BY <3>1 DEF Arrived
    <3> QED
      BY <3>2 DEF ArchivesOfOrders, OfOrder
  <2>2. Honest(m, against)
    BY <2>1 DEF SerialMsg, Honest, OfOrder, Against
  <2>3. Agrees(m, e) => Honest(m, for)
    <3>1. e.hash[1] \in Bodies
      BY <2>1 DEF RawHash
    <3>2. Agrees(m, e) => Follows(m, e.id, e.serial, e.hash[1])
      BY <3>1, NextFollows DEF IInv, Agrees, AllBodies
    <3> QED
      BY <3>1, <3>2 DEF SerialMsg, Honest, OfOrder, Against
  <2>4. \/ Agrees(m, e) /\ GossipSome(m, {for, against})
        \/ GossipSome(m, {against})
        \/ UNCHANGED net
    BY <1>5 DEF HandleArchiveBlock, gossipVars
  <2> HIDE DEF for, against, e
  <2> QED
    BY <1>1, <2>2, <2>3, <2>4, GossipHonest
<1>6. \/ UNCHANGED net
      \/ \E r \in Requests : Publish(r) \/ OrderVote(r)
      \/ \E c \in net : Receive(c)
      \/ \E m \in Masters : HandleArchiveBlock(m)
  BY DEF Next, Submit, TaskStep, ReadTip, PushPending, EndVote, PushApproved, EndBallot,
         AddBlock, Interpret, Handle, HandleVote, HandleSerialVote, HandleNewBlock,
         HandlePendingTimeout, HandleApprovedTimeout, TimerFires, Crash, vars, gossipVars
<1> QED
  BY <1>1, <1>2, <1>3, <1>4, <1>5, <1>6

(* What is put into a channel came from the network, or is a timeout.      *)
LEMMA StepOfEvents ==
  ASSUME IInv, ArchivesOfOrders, [Next]_vars
  PROVE  \A m \in Masters : \A i \in DOMAIN events'[m] : OfOrder(events'[m][i])
<1> DEFINE Good == \A m \in Masters : \A i \in DOMAIN events'[m] : OfOrder(events'[m][i])
<1>1. \A m \in Masters : \A i \in DOMAIN events[m] : OfOrder(events[m][i])
  BY DEF ArchivesOfOrders
<1>2. VotesOK
  BY DEF IInv, TypeOK
<1>3. UNCHANGED events => Good
  BY <1>1
<1>4. ASSUME NEW m \in Masters, Handle(m)
      PROVE  Good
  <2>1. events[m] # <<>> /\ Consume(m)
    BY <1>4 DEF Handle, HandleVote, HandleSerialVote, HandleNewBlock, HandleArchiveBlock,
                HandlePendingTimeout, HandleApprovedTimeout, Arrived
  <2> QED
    BY <1>1, <1>2, <2>1, UpcomingConsume
<1>5. ASSUME NEW m \in Masters, NEW e, Notify(m, e), OfOrder(e)
      PROVE  Good
  BY <1>1, <1>2, <1>5, UpcomingNotify
<1>6. ASSUME NEW m \in Masters, TimerFires(m)
      PROVE  Good
  <2>1. PICK t \in timers[m] : Notify(m, t)
    BY <1>6 DEF TimerFires
  <2>2. OfOrder(t)
    BY <1>2, <2>1 DEF VotesOK, Timeout, OfOrder, Against
  <2> QED
    BY <1>5, <2>1, <2>2
<1>7. ASSUME NEW c \in net, Receive(c)
      PROVE  Good
  <2>1. c.to \in Masters /\ OfOrder(c.data)
    BY CopyType DEF IInv, TypeOK, ArchivesOfOrders
  <2>2. OfOrder(NewBlock(c.data.hash))
    BY DEF NewBlock, OfOrder, Against
  <2>3. UNCHANGED events \/ Notify(c.to, c.data) \/ Notify(c.to, NewBlock(c.data.hash))
    BY <1>7 DEF Receive, ReceiveIgnored, ReceiveNotice, ReceiveValidBlock, ReceiveBadBlock, voteVars
  <2> QED
    BY <1>3, <1>5, <2>1, <2>2, <2>3
<1>8. ASSUME NEW m \in Masters, Crash(m)
      PROVE  Good
  BY <1>1, <1>2, <1>8 DEF Crash, VotesOK
<1>9. \/ UNCHANGED events
      \/ \E m \in Masters : Handle(m) \/ TimerFires(m) \/ Crash(m)
      \/ \E c \in net : Receive(c)
  BY DEF Next, Submit, TaskStep, ReadTip, Publish, PushPending, EndVote, OrderVote, PushApproved,
         EndBallot, AddBlock, Interpret, vars, voteVars
<1> QED
  BY <1>3, <1>4, <1>6, <1>7, <1>8, <1>9

LEMMA VotesKept ==
  ASSUME IInv, ArchivesOfOrders, SerialVotesOwnChain, Extends, [Next]_vars
  PROVE  ArchivesOfOrders' /\ SerialVotesOwnChain'
<1>1. \A c \in net' : c \in net \/ Honest(c.from, c.data)
  BY StepOfNet
<1>2. \A c \in net : Honest(c.from, c.data)
  BY DEF Honest, ArchivesOfOrders, SerialVotesOwnChain
<1>3. ArchivesOfOrders'
  BY <1>1, <1>2, StepOfEvents DEF ArchivesOfOrders, Honest
<1>4. SerialVotesOwnChain'
  <2> SUFFICES ASSUME NEW c \in net', c.data.type = "SerialVote", c.data.vote = "Ok"
               PROVE  \E b \in Bodies : /\ c.data.id - 1 \in DOMAIN chain'[c.from]
                                        /\ c.data.hash = SerialHash(chain'[c.from][c.data.id - 1].hash, b)
    BY DEF SerialVotesOwnChain, Follows
  <2>1. PICK b \in Bodies : Follows(c.from, c.data.id, c.data.hash, b)
    BY <1>1, <1>2 DEF Honest
  <2>2. c.from \in Masters
    <3>1. GossipOK'
      BY NextInv DEF IInv, TypeOK
    <3>2. c \in [from : Masters, to : Masters, data : Message]
      BY <3>1 DEF GossipOK
    <3> QED
      BY <3>2
  <2> QED
    BY <2>1, <2>2, FollowsStable
<1> QED
  BY <1>3, <1>4

-----------------------------------------------------------------------------
(* The inductive invariant.                                                *)
LEMMA InitPInv ==
  ASSUME Init
  PROVE  PInv
<1>1. IInv
  BY InitInv
<1>2. TasksStored /\ OneTaskPerRow
  BY DEF Init, NewTask, TasksStored, OneTaskPerRow, Stored
<1>3. AppliedOnce
  BY DEF Init, AppliedOnce
<1>4. OwnBallots /\ ArchivesOfOrders /\ SerialVotesOwnChain
  BY DEF Init, OwnBallots, ArchivesOfOrders, SerialVotesOwnChain
<1>5. OnlyOwnOrders
  BY DEF Init, OnlyOwnOrders
<1> QED
  BY <1>1, <1>2, <1>3, <1>4, <1>5 DEF PInv

LEMMA NextPInv ==
  ASSUME PInv, [Next]_vars
  PROVE  PInv'
<1>1. IInv'
  BY NextInv DEF PInv
<1>2. ChainStep /\ \A s \in Requests : Taken(s)
  BY StepOfChain DEF PInv
<1>3. Extends
  BY <1>2, StepExtends DEF PInv
<1>4. TasksStored' /\ OneTaskPerRow'
  BY <1>2, StoredKept DEF PInv
<1>5. AppliedOnce'
  BY <1>2, AppliedKept DEF PInv
<1>6. OwnBallots' /\ OnlyOwnOrders'
  BY <1>2, BallotsKept, OrdersKept DEF PInv
<1>7. ArchivesOfOrders' /\ SerialVotesOwnChain'
  BY <1>3, VotesKept DEF PInv
<1> QED
  BY <1>1, <1>4, <1>5, <1>6, <1>7 DEF PInv

(***************************************************************************)
(* PInv, which says which task wrote which row and what ballots and votes  *)
(* under way are about, holds for any masters, orders and bounds.          *)
(***************************************************************************)
THEOREM PromiseInvariant == Spec => []PInv
<1>1. Init => PInv
  BY InitPInv
<1>2. PInv /\ [Next]_vars => PInv'
  BY NextPInv
<1> QED
  BY <1>1, <1>2, PTL DEF Spec

(***************************************************************************)
(* An order is applied to a master's tables at most once and only by the   *)
(* task that stored its block (activity.rs 690-708), however many tasks    *)
(* race for an id and whenever the master crashes.                         *)
(***************************************************************************)
THEOREM AppliedOnlyOnce == Spec => []AppliedOnce
<1>1. PInv => AppliedOnce
  BY DEF PInv
<1> QED
  BY <1>1, PromiseInvariant, PTL

(***************************************************************************)
(* A master never stores an order that its own clients did not send:       *)
(* handle_incoming_data finds a quorum only in ballots of its own          *)
(* (activity.rs 379-391), with any number of masters and votes.            *)
(***************************************************************************)
THEOREM OnlyOwnOrdersStored == Spec => []OnlyOwnOrders
<1>1. PInv => OnlyOwnOrders
  BY DEF PInv
<1> QED
  BY <1>1, PromiseInvariant, PTL

(***************************************************************************)
(* Every vote for the place of a block that is under way names a block     *)
(* which continues its sender's chain, whatever was inserted since it was  *)
(* cast (activity.rs 316-344).                                             *)
(***************************************************************************)
THEOREM VotesMatchChain == Spec => []SerialVotesOwnChain
<1>1. PInv => SerialVotesOwnChain
  BY DEF PInv
<1> QED
  BY <1>1, PromiseInvariant, PTL

-----------------------------------------------------------------------------
(* Step by step, MasterOrders implements OrderLog.                         *)
log  == [m \in Masters |-> chain[m][Tip(m)].hash]
fate == [r \in Requests |-> FateOf(task[r].pc)]

(* The fates of the steps of a task.                                       *)
LEMMA Fated ==
  /\ FateOf("idle") = "new" /\ FateOf("add") = "accepted" /\ FateOf("refused") = "refused"
  /\ \A pc \in {"read", "publish", "push", "vote", "order", "record", "ballot"} :
       FateOf(pc) = "open"
  /\ FateOf("interpret") = "stored" /\ FateOf("done") = "stored"
  /\ FateOf("lost") = "lost" /\ FateOf("dead") = "lost"
  BY DEF FateOf

(* Moving one task moves its order's fate, and no other.                   *)
LEMMA MoveFate ==
  ASSUME TaskOK, NEW r \in Requests, NEW pc
  PROVE  /\ Goto(r, pc) => fate' = [fate EXCEPT ![r] = FateOf(pc)]
         /\ Retry(r, pc) => fate' = [fate EXCEPT ![r] = FateOf(pc)]
         /\ \A status : Answer(r, status, pc) => fate' = [fate EXCEPT ![r] = FateOf(pc)]
         /\ NextBlock(r, pc) => fate' = [fate EXCEPT ![r] = FateOf(pc)]
<1>1. ASSUME \/ task' = [task EXCEPT ![r].pc = pc]
             \/ task' = [task EXCEPT ![r].pc = pc, ![r].retry = @ + 1]
             \/ NextBlock(r, pc)
      PROVE  fate' = [fate EXCEPT ![r] = FateOf(pc)]
  <2>1. \A s \in Requests : task'[s].pc = IF s = r THEN pc ELSE task[s].pc
    BY <1>1 DEF TaskOK, NextBlock
  <2> QED
    BY <2>1 DEF fate
<1> QED
  BY <1>1 DEF Goto, Retry, Answer

(* A step that leaves the chain alone leaves the log alone.                *)
LEMMA LogUntouched ==
  ASSUME UNCHANGED chain
  PROVE  log' = log
  BY DEF log, Tip

(* An insert at the end of a chain appends its order to the log.           *)
LEMMA LogGrows ==
  ASSUME IInv, NEW m \in Masters, NEW id \in Nat, NEW h, NEW b,
         Follows(m, id, h, b), AddNew(m, id, Row(h, b))
  PROVE  log' = [log EXCEPT ![m] = Append(@, b)]
<1>1. PICK n \in Nat : n = Tip(m) /\ DOMAIN chain[m] = 0 .. n
  BY DEF IInv, ChainLinked
<1>2. id = n + 1
  BY <1>1 DEF Follows, AddNew
<1>3. DOMAIN chain'[m] = 0 .. n + 1 /\ chain'[m][n + 1] = Row(h, b)
  <2>1. (0 .. n) \cup {n + 1} = 0 .. n + 1
    OBVIOUS
  <2> QED
    BY <1>1, <1>2, <2>1, AddedRow DEF IInv
<1>4. Tip(m)' = n + 1
  BY <1>3, LastIdIs DEF Tip
<1>5. h = Append(chain[m][n].hash, b)
  BY <1>2 DEF Follows, SerialHash
<1>6. chain'[m][Tip(m)'].hash = Append(chain[m][Tip(m)].hash, b)
  BY <1>1, <1>3, <1>4, <1>5 DEF Row
<1>7. \A o \in Masters : o # m => chain'[o] = chain[o]
  BY AddedRow DEF IInv
<1> QED
  BY <1>6, <1>7 DEF log, Tip

LEMMA InitRefines ==
  ASSUME Init
  PROVE  Log!Init
<1>1. \A m \in Masters : DOMAIN chain[m] = 0 .. 0 /\ chain[m][0].hash = <<GenesisBody>>
  BY DEF Init, Row, RawHash
<1>2. \A m \in Masters : Tip(m) = 0
  BY <1>1, LastIdIs DEF Tip
<1>3. log = [m \in Masters |-> <<GenesisBody>>]
  BY <1>1, <1>2 DEF log
<1>4. fate = [r \in Requests |-> "new"]
  BY Fated DEF fate, Init, NewTask
<1> QED
  BY <1>3, <1>4 DEF Log!Init, log, fate

(* What a step may look like from OrderLog: nothing happens, or one of its *)
(* operations.                                                             *)
Refined == Log!Next \/ UNCHANGED <<log, fate>>

LEMMA StutterRefines ==
  ASSUME log' = log, fate' = fate
  PROVE  Refined
  BY DEF Refined

LEMMA SameFateRefines ==
  ASSUME NEW r \in Requests, log' = log, fate' = [fate EXCEPT ![r] = fate[r]]
  PROVE  Refined
<1>1. fate' = fate
  BY DEF fate
<1> QED
  BY <1>1, StutterRefines

LEMMA SubmitRefines ==
  ASSUME NEW r \in Requests, log' = log, fate[r] = "new", fate' = [fate EXCEPT ![r] = "open"]
  PROVE  Refined
<1>1. Log!Submit(r)
  BY DEF Log!Submit, Log!Move, log, fate
<1> QED
  BY <1>1 DEF Log!Next, Refined

LEMMA AnswerRefines ==
  ASSUME NEW r \in Requests, NEW to \in {"accepted", "refused"},
         log' = log, fate[r] = "open", fate' = [fate EXCEPT ![r] = to]
  PROVE  Refined
<1>1. Log!Answer(r)
  BY DEF Log!Answer, Log!Move, log, fate
<1> QED
  BY <1>1 DEF Log!Next, Refined

LEMMA StoreRefines ==
  ASSUME NEW r \in Requests, fate[r] = "accepted", fate' = [fate EXCEPT ![r] = "stored"],
         log' = [log EXCEPT ![Home[r]] = Append(@, Body[r])]
  PROVE  Refined
<1>1. Log!Store(r)
  BY DEF Log!Store, Log!Move, log, fate
<1> QED
  BY <1>1 DEF Log!Next, Refined

LEMMA LoseRefines ==
  ASSUME NEW S \in SUBSET Requests, log' = log,
         \A r \in S : fate[r] \in {"open", "accepted"},
         fate' = [r \in Requests |-> IF r \in S THEN "lost" ELSE fate[r]]
  PROVE  Refined
<1>1. Log!Lose(S)
  BY DEF Log!Lose, log, fate
<1> QED
  BY <1>1 DEF Log!Next, Refined

LEMMA ReplicateRefines ==
  ASSUME NEW m \in Masters, NEW r \in Requests, fate[r] # "new", fate' = fate,
         log' = [log EXCEPT ![m] = Append(@, Body[r])]
  PROVE  Refined
<1>1. Log!Replicate(m, r)
  BY DEF Log!Replicate, log, fate
<1> QED
  BY <1>1 DEF Log!Next, Refined

(* A task's step answers its order, writes or loses its block, or is       *)
(* nothing OrderLog sees.                                                  *)
LEMMA TaskRefines ==
  ASSUME IInv, NEW r \in Requests, Submit(r) \/ TaskStep(r)
  PROVE  Refined
<1> USE Fated
<1>1. TaskOK /\ fate[r] = FateOf(task[r].pc) /\ Home[r] \in Masters /\ task[r].id \in Nat
  BY ConstantsAssumption DEF IInv, TypeOK, TaskOK, fate
<1>2. CASE AddBlock(r)
  <2>1. fate[r] = "accepted"
    BY <1>1, <1>2 DEF AddBlock
  <2>2. CASE AddNew(Home[r], task[r].id, Row(task[r].fin, Body[r])) /\ Goto(r, "interpret")
    <3>1. Follows(Home[r], task[r].id, task[r].fin, Body[r])
      BY <1>2 DEF IInv, InFlightLinked, TasksLinked, Announced, AddBlock
    <3>2. log' = [log EXCEPT ![Home[r]] = Append(@, Body[r])]
      BY <1>1, <2>2, <3>1, LogGrows
    <3>3. fate' = [fate EXCEPT ![r] = "stored"]
      BY <1>1, <2>2, MoveFate
    <3> QED
      BY <2>1, <3>2, <3>3, StoreRefines
  <2>3. CASE AddNewFails(Home[r], task[r].id) /\ Goto(r, "lost")
    <3>1. log' = log
      BY <2>3, LogUntouched DEF AddNewFails
    <3>2. fate' = [fate EXCEPT ![r] = "lost"]
      BY <1>1, <2>3, MoveFate
    <3>3. fate' = [s \in Requests |-> IF s \in {r} THEN "lost" ELSE fate[s]]
      BY <3>2 DEF fate
    <3> QED
      BY <2>1, <3>1, <3>3, LoseRefines
  <2> QED
    BY <1>2, <2>2, <2>3 DEF AddBlock
<1>3. CASE ~AddBlock(r)
  <2>1. log' = log
    <3>1. UNCHANGED chain
      BY <1>3 DEF Submit, TaskStep, ReadTip, Publish, PushPending, EndVote, OrderVote,
                  PushApproved, EndBallot, Interpret
    <3> QED
      BY <3>1, LogUntouched
  <2>2. \/ /\ fate[r] = "new" /\ fate' = [fate EXCEPT ![r] = "open"]
        \/ /\ fate[r] = "open"
           /\ \E to \in {"open", "accepted", "refused"} : fate' = [fate EXCEPT ![r] = to]
        \/ /\ fate[r] = "stored" /\ fate' = [fate EXCEPT ![r] = "stored"]
    <3>1. CASE Submit(r)
      BY <1>1, <3>1, MoveFate DEF Submit
    <3>2. CASE ReadTip(r)
      BY <1>1, <3>2, MoveFate DEF ReadTip
    <3>3. CASE Publish(r)
      BY <1>1, <3>3, MoveFate DEF Publish
    <3>4. CASE PushPending(r)
      BY <1>1, <3>4, MoveFate DEF PushPending
    <3>5. CASE EndVote(r)
      <4>1. fate[r] = "open"
        BY <1>1, <3>5 DEF EndVote, VoteOver
      <4>2. CASE Answer(r, "Rejected", "refused")
        BY <1>1, <4>1, <4>2, MoveFate
      <4>3. CASE task' = [task EXCEPT ![r].pc = "order", ![r].retry = 0]
        <5>1. \A s \in Requests : task'[s].pc = IF s = r THEN "order" ELSE task[s].pc
          BY <1>1, <4>3 DEF TaskOK
        <5>2. fate' = [fate EXCEPT ![r] = "open"]
          BY <5>1 DEF fate
        <5> QED
          BY <4>1, <5>2
      <4> QED
        BY <3>5, <4>2, <4>3 DEF EndVote
    <3>6. CASE OrderVote(r)
      BY <1>1, <3>6, MoveFate DEF OrderVote
    <3>7. CASE PushApproved(r)
      BY <1>1, <3>7, MoveFate DEF PushApproved
    <3>8. CASE EndBallot(r)
      BY <1>1, <3>8, MoveFate DEF EndBallot
    <3>9. CASE Interpret(r)
      BY <1>1, <3>9, MoveFate DEF Interpret
    <3> QED
      BY <1>3, <3>1, <3>2, <3>3, <3>4, <3>5, <3>6, <3>7, <3>8, <3>9 DEF TaskStep
  <2> QED
    BY <2>1, <2>2, SubmitRefines, AnswerRefines, SameFateRefines
<1> QED
  BY <1>2, <1>3

(* A crash loses every order of a master that was not stored yet.          *)
LEMMA CrashRefines ==
  ASSUME IInv, NEW m \in Masters, Crash(m)
  PROVE  Refined
<1> USE Fated
<1> DEFINE S == {r \in Requests : Home[r] = m /\ task[r].pc \in Running}
<1>1. log' = log
  BY LogUntouched DEF Crash
<1>2. \A r \in S : fate[r] \in {"open", "accepted"}
  BY DEF fate, Running
<1>3. \A r \in Requests :
        FateOf(task'[r].pc) = IF r \in S THEN "lost" ELSE FateOf(task[r].pc)
  <2> SUFFICES ASSUME NEW r \in Requests
               PROVE  FateOf(task'[r].pc) = IF r \in S THEN "lost" ELSE FateOf(task[r].pc)
    OBVIOUS
  <2>1. task[r] \in [pc : Steps, retry : 0 .. MaxRetries, id : Nat, fin : Hashes]
    BY DEF IInv, TypeOK, TaskOK
  <2>2. CASE r \in S
    BY <2>1, <2>2 DEF Crash
  <2>3. CASE r \notin S /\ Home[r] = m /\ task[r].pc = "interpret"
    BY <2>1, <2>3 DEF Crash, Running
  <2>4. CASE r \notin S /\ ~(Home[r] = m /\ task[r].pc = "interpret")
    BY <2>1, <2>4 DEF Crash
  <2> QED
    BY <2>2, <2>3, <2>4
<1>4. fate' = [r \in Requests |-> IF r \in S THEN "lost" ELSE fate[r]]
  BY <1>3 DEF fate
<1> QED
  BY <1>1, <1>2, <1>4, LoseRefines

(* A voter's insert is a repetition of an order that was sent.             *)
LEMMA HandleRefines ==
  ASSUME IInv, OwnBallots, NEW m \in Masters, Handle(m)
  PROVE  Refined
<1>1. fate' = fate
  BY DEF fate, Handle, HandleVote, HandleSerialVote, HandleNewBlock, HandleArchiveBlock,
         HandlePendingTimeout, HandleApprovedTimeout
<1>2. CASE UNCHANGED chain
  BY <1>1, <1>2, LogUntouched, StutterRefines
<1>3. ASSUME NEW r \in Requests, NEW id \in Nat, NEW h \in Hashes, Repeats(m, r, id, h)
      PROVE  Refined
  <2>1. log' = [log EXCEPT ![m] = Append(@, Body[r])]
    BY <1>3, LogGrows DEF Repeats
  <2>2. fate[r] # "new"
    BY <1>3 DEF fate, Repeats, FateOf, IInv, TypeOK, TaskOK, Steps
  <2> QED
    BY <1>1, <2>1, <2>2, ReplicateRefines
<1> QED
  BY <1>2, <1>3, VoterRepeats

LEMMA NextRefines ==
  ASSUME PInv, [Next]_vars
  PROVE  Refined
<1>1. IInv /\ OwnBallots
  BY DEF PInv
<1>2. ASSUME UNCHANGED <<task, chain>>
      PROVE  Refined
  BY <1>2, LogUntouched, StutterRefines DEF fate
<1>3. \/ \E r \in Requests : Submit(r) \/ TaskStep(r)
      \/ \E m \in Masters : Handle(m) \/ Crash(m)
      \/ UNCHANGED <<task, chain>>
  BY DEF Next, Receive, ReceiveIgnored, ReceiveNotice, ReceiveValidBlock, ReceiveBadBlock,
         TimerFires, vars
<1> QED
  BY <1>1, <1>2, <1>3, TaskRefines, HandleRefines, CrashRefines

(***************************************************************************)
(* The masters keep OrderLog's promise: with every step of tasks, voters,  *)
(* timers, crashes and gossip, each master's log only grows at its end, an *)
(* order is answered once, and only an accepted one enters its master's    *)
(* log by its task, at most once.                                          *)
(***************************************************************************)
THEOREM KeepsOrderLog == Spec => RefinesOrderLog
<1>1. Init => Log!Init
  BY InitRefines
<1>2. PInv /\ [Next]_vars => [Log!Next]_<<log, fate>>
  BY NextRefines DEF Refined
<1> QED
  BY <1>1, <1>2, PromiseInvariant, PTL DEF Spec, RefinesOrderLog, Log!Spec, log, fate

-----------------------------------------------------------------------------
(***************************************************************************)
(* What a ballot can count, for any number of masters, while gossipsub     *)
(* remembers a message for longer than a vote takes.                       *)
(*                                                                         *)
(* Votes of different masters on one block are one message.  A vote a      *)
(* master has seen or sent, and which no longer waits in its channel, is   *)
(* spent: it cannot come again.  Whatever an entry counts beyond its       *)
(* owner's vote was counted from a vote that is spent, so it is counted    *)
(* once (VotesInv, together with PInv).                                    *)
(***************************************************************************)

VoteTypes == {"Vote", "SerialVote"}

Waiting(m) == {events[m][i] : i \in DOMAIN events[m]}
Spent(m, d) == d \in seen[m] /\ d \notin Waiting(m)

(* A vote waits at most once, and was seen when it came.                   *)
VotesSeen ==
  \A m \in Masters : \A i \in DOMAIN events[m] : events[m][i].type \in VoteTypes =>
    /\ events[m][i] \in seen[m]
    /\ \A j \in DOMAIN events[m] : events[m][i] = events[m][j] => i = j

PendingCount(m, e) ==
  /\ e.ok \in 1 .. 2 /\ e.no \in 0 .. 1
  /\ e.ok = 2 => Spent(m, VoteMsg(e.hash, "Ok"))
  /\ e.no = 1 => Spent(m, VoteMsg(e.hash, "No"))

ApprovedCount(m, e) ==
  /\ e.ok \in 1 .. 2 /\ e.no = 0
  /\ e.ok = 2 => Spent(m, SerialMsg(e.id, e.hash, "Ok"))

Counts ==
  \A m \in Masters :
    /\ \A e \in pending[m] : PendingCount(m, e)
    /\ \A e \in approved[m] : ApprovedCount(m, e)

VotesInv == PInv /\ VotesSeen /\ Counts

-----------------------------------------------------------------------------
(* How a channel changes: the handler takes its first event, or an event   *)
(* is added, and a vote only if it is new to the duplicate cache.          *)
ChannelStep(m) ==
  /\ seen[m] \subseteq seen'[m]
  /\ \/ events'[m] = events[m]
     \/ events[m] # <<>> /\ events'[m] = Tail(events[m])
     \/ \E e : /\ events'[m] = Append(events[m], e)
               /\ e.type \in VoteTypes => e \notin seen[m] /\ e \in seen'[m]

(* A crash takes the channel and the ballots along with the cache.         *)
Forgets(m) == events'[m] = <<>> /\ pending'[m] = {} /\ approved'[m] = {}

LEMMA SeenGrows ==
  ASSUME TypeOK, NEW n \in Masters, NEW msgs
  PROVE  /\ Gossip(n, msgs) => \A m \in Masters : seen[m] \subseteq seen'[m]
         /\ GossipSome(n, msgs) => \A m \in Masters : seen[m] \subseteq seen'[m]
         /\ \A c : c.to = n /\ Take(c, msgs) =>
              /\ \A m \in Masters : seen[m] \subseteq seen'[m]
              /\ c.data \in seen'[n] /\ msgs \subseteq seen'[n]
<1>1. seen \in [Masters -> SUBSET Message]
  BY DEF TypeOK, GossipOK
<1>2. \A some : Gossip(n, some) => \A m \in Masters : seen[m] \subseteq seen'[m]
  BY <1>1 DEF Gossip
<1> QED
  BY <1>1, <1>2 DEF GossipSome, Take

LEMMA StepOfChannel ==
  ASSUME TypeOK, CacheOutlivesVote, [Next]_vars, NEW m \in Masters
  PROVE  ChannelStep(m) \/ Forgets(m)
<1>1. /\ events \in [Masters -> Seq(Event)] /\ seen \in [Masters -> SUBSET Message]
      /\ pending \in [Masters -> SUBSET Entry] /\ approved \in [Masters -> SUBSET ApprovedEntry]
  BY DEF TypeOK, VotesOK, GossipOK
<1>2. ASSUME NEW r \in Requests, Submit(r) \/ TaskStep(r)
      PROVE  ChannelStep(m)
  <2>1. UNCHANGED events
    BY <1>2 DEF Submit, TaskStep, ReadTip, Publish, PushPending, EndVote, OrderVote,
                PushApproved, EndBallot, AddBlock, Interpret, voteVars
  <2>2. UNCHANGED seen \/ \E msgs : Gossip(Home[r], msgs)
    BY <1>2 DEF Submit, TaskStep, ReadTip, Publish, PushPending, EndVote, OrderVote,
                PushApproved, EndBallot, AddBlock, Interpret, gossipVars
  <2> QED
    BY <2>1, <2>2, SeenGrows, ConstantsAssumption DEF ChannelStep
<1>3. ASSUME NEW n \in Masters, Handle(n)
      PROVE  ChannelStep(m)
  <2>1. events[n] # <<>> /\ Consume(n)
    BY <1>3 DEF Handle, HandleVote, HandleSerialVote, HandleNewBlock, HandleArchiveBlock,
                HandlePendingTimeout, HandleApprovedTimeout, Arrived
  <2>2. UNCHANGED seen \/ \E msgs : GossipSome(n, msgs)
    BY <1>3 DEF Handle, HandleVote, HandleSerialVote, HandleNewBlock, HandleArchiveBlock,
                HandlePendingTimeout, HandleApprovedTimeout, gossipVars
  <2>3. events'[m] = events[m] \/ (events[m] # <<>> /\ events'[m] = Tail(events[m]))
    BY <1>1, <2>1 DEF Consume
  <2> QED
    BY <2>2, <2>3, SeenGrows DEF ChannelStep
<1>4. ASSUME NEW n \in Masters, TimerFires(n)
      PROVE  ChannelStep(m)
  <2>1. PICK t \in timers[n] : Notify(n, t) /\ UNCHANGED seen
    BY <1>4 DEF TimerFires, gossipVars
  <2>2. t.type \notin VoteTypes
    BY <2>1 DEF TypeOK, VotesOK, Timeout, VoteTypes
  <2> QED
    BY <1>1, <2>1, <2>2 DEF Notify, ChannelStep
<1>5. ASSUME NEW n \in Masters, Crash(n)
      PROVE  ChannelStep(m) \/ Forgets(m)
  BY <1>1, <1>5 DEF Crash, ChannelStep, Forgets
<1>6. ASSUME NEW c \in net, Receive(c)
      PROVE  ChannelStep(m)
  <2>1. c.to \in Masters
    BY CopyType DEF TypeOK
  <2>2. \A o \in Masters : seen[o] \subseteq seen'[o]
    <3>1. \E votes : Take(c, votes)
      BY <1>6 DEF Receive, ReceiveIgnored, ReceiveNotice, ReceiveValidBlock, ReceiveBadBlock
    <3> QED
      BY <2>1, <3>1, SeenGrows
  <2>3. CASE ReceiveIgnored(c) \/ ReceiveBadBlock(c)
    BY <2>2, <2>3 DEF ReceiveIgnored, ReceiveBadBlock, ChannelStep, voteVars
  <2>4. CASE ReceiveNotice(c)
    <3>1. c.data \notin seen[c.to] /\ c.data \in seen'[c.to]
      BY <2>1, <2>4, SeenGrows DEF ReceiveNotice, Fresh, Dropped
    <3>2. Notify(c.to, c.data)
      BY <2>4 DEF ReceiveNotice
    <3> QED
      BY <1>1, <2>1, <2>2, <3>1, <3>2 DEF Notify, ChannelStep
  <2>5. CASE ReceiveValidBlock(c)
    <3>1. Notify(c.to, NewBlock(c.data.hash))
      BY <2>5 DEF ReceiveValidBlock
    <3>2. NewBlock(c.data.hash).type \notin VoteTypes
      BY DEF NewBlock, VoteTypes
    <3> QED
      BY <1>1, <2>1, <2>2, <3>1, <3>2 DEF Notify, ChannelStep
  <2> QED
    BY <1>6, <2>3, <2>4, <2>5 DEF Receive
<1>7. CASE UNCHANGED vars
  BY <1>7 DEF ChannelStep, vars, voteVars, gossipVars
<1> QED
  BY <1>2, <1>3, <1>4, <1>5, <1>6, <1>7 DEF Next

(* A vote goes on waiting at most once.                                    *)
LEMMA SeenKept ==
  ASSUME TypeOK, VotesSeen, \A m \in Masters : ChannelStep(m) \/ Forgets(m)
  PROVE  VotesSeen'
<1> SUFFICES ASSUME NEW m \in Masters
             PROVE  \A i \in DOMAIN events'[m] : events'[m][i].type \in VoteTypes =>
                      /\ events'[m][i] \in seen'[m]
                      /\ \A j \in DOMAIN events'[m] : events'[m][i] = events'[m][j] => i = j
  BY DEF VotesSeen
<1>1. events[m] \in Seq(Event)
  BY DEF TypeOK, VotesOK
<1>2. \A i \in DOMAIN events[m] : events[m][i].type \in VoteTypes =>
        /\ events[m][i] \in seen[m]
        /\ \A j \in DOMAIN events[m] : events[m][i] = events[m][j] => i = j
  BY DEF VotesSeen
<1>3. CASE Forgets(m)
  BY <1>3 DEF Forgets
<1>4. CASE ChannelStep(m)
  <2>1. seen[m] \subseteq seen'[m]
    BY <1>4 DEF ChannelStep
  <2>2. CASE events'[m] = events[m]
    BY <1>2, <2>1, <2>2
  <2>3. CASE events[m] # <<>> /\ events'[m] = Tail(events[m])
    <3>1. \A i \in DOMAIN events'[m] :
            i \in Nat /\ i + 1 \in DOMAIN events[m] /\ events'[m][i] = events[m][i + 1]
      BY <1>1, <2>3
    <3> QED
      BY <1>2, <2>1, <3>1
  <2>4. ASSUME NEW e, events'[m] = Append(events[m], e),
               e.type \in VoteTypes => e \notin seen[m] /\ e \in seen'[m]
        PROVE  \A i \in DOMAIN events'[m] : events'[m][i].type \in VoteTypes =>
                 /\ events'[m][i] \in seen'[m]
                 /\ \A j \in DOMAIN events'[m] : events'[m][i] = events'[m][j] => i = j
    <3> DEFINE n == Len(events[m])
    <3>1. /\ n \in Nat /\ DOMAIN events[m] = 1 .. n /\ DOMAIN events'[m] = 1 .. n + 1
          /\ \A i \in 1 .. n : events'[m][i] = events[m][i]
          /\ events'[m][n + 1] = e
      BY <1>1, <2>4
    <3> HIDE DEF n
    <3> SUFFICES ASSUME NEW i \in 1 .. n + 1, events'[m][i].type \in VoteTypes
                 PROVE  /\ events'[m][i] \in seen'[m]
                        /\ \A j \in 1 .. n + 1 : events'[m][i] = events'[m][j] => i = j
      BY <3>1
    <3>2. \A j \in 1 .. n + 1 : j \in 1 .. n \/ j = n + 1
      BY <3>1
    <3>3. \A j \in 1 .. n : events[m][j].type \in VoteTypes => events[m][j] \in seen[m]
      BY <1>2, <3>1
    <3>4. CASE i \in 1 .. n
      <4>1. events[m][i] \in seen[m] /\ events'[m][i] = events[m][i]
        BY <3>1, <3>3, <3>4
      <4>2. events'[m][n + 1] # events'[m][i]
        BY <2>4, <3>1, <4>1
      <4> QED
        BY <1>2, <2>1, <3>1, <3>2, <3>4, <4>1, <4>2
    <3>5. CASE i = n + 1
      <4>1. e \notin seen[m] /\ e \in seen'[m]
        BY <2>4, <3>1, <3>5
      <4>2. \A j \in 1 .. n : events'[m][j] # e
        BY <3>1, <3>3, <3>5, <4>1
      <4> QED
        BY <3>1, <3>2, <3>5, <4>1, <4>2
    <3> QED
      BY <3>2, <3>4, <3>5
  <2> QED
    BY <1>4, <2>2, <2>3, <2>4 DEF ChannelStep
<1> QED
  BY <1>3, <1>4

(* A spent vote stays spent: it is a duplicate for good.                   *)
SpentNext(m, d) == d \in seen'[m] /\ \A i \in DOMAIN events'[m] : events'[m][i] # d

LEMMA SpentStays ==
  ASSUME TypeOK, NEW m \in Masters, ChannelStep(m), NEW d, d.type \in VoteTypes, Spent(m, d)
  PROVE  SpentNext(m, d)
<1>1. events[m] \in Seq(Event)
  BY DEF TypeOK, VotesOK
<1>2. d \in seen[m] /\ \A i \in DOMAIN events[m] : events[m][i] # d
  BY DEF Spent, Waiting
<1>3. CASE events'[m] = events[m]
  BY <1>2, <1>3 DEF ChannelStep, SpentNext
<1>4. CASE events[m] # <<>> /\ events'[m] = Tail(events[m])
  <2>1. \A i \in DOMAIN events'[m] : i + 1 \in DOMAIN events[m] /\ events'[m][i] = events[m][i + 1]
    BY <1>1, <1>4
  <2> QED
    BY <1>2, <2>1 DEF ChannelStep, SpentNext
<1>5. ASSUME NEW e, events'[m] = Append(events[m], e),
             e.type \in VoteTypes => e \notin seen[m] /\ e \in seen'[m]
      PROVE  \A i \in DOMAIN events'[m] : events'[m][i] # d
  <2>1. \A i \in DOMAIN events'[m] :
          events'[m][i] = e \/ (i \in DOMAIN events[m] /\ events'[m][i] = events[m][i])
    BY <1>1, <1>5
  <2> QED
    BY <1>2, <1>5, <2>1
<1> QED
  BY <1>2, <1>3, <1>4, <1>5 DEF ChannelStep, SpentNext

-----------------------------------------------------------------------------
(* What entries count, after a step.                                       *)
PendingNext(m, e) ==
  /\ e.ok \in 1 .. 2 /\ e.no \in 0 .. 1
  /\ e.ok = 2 => SpentNext(m, VoteMsg(e.hash, "Ok"))
  /\ e.no = 1 => SpentNext(m, VoteMsg(e.hash, "No"))

ApprovedNext(m, e) ==
  /\ e.ok \in 1 .. 2 /\ e.no = 0
  /\ e.ok = 2 => SpentNext(m, SerialMsg(e.id, e.hash, "Ok"))

(* An entry a step leaves as it is counts what it may count.               *)
LEMMA EntryStays ==
  ASSUME TypeOK, Counts, NEW m \in Masters, ChannelStep(m)
  PROVE  /\ \A e \in pending[m] : PendingNext(m, e)
         /\ \A e \in approved[m] : ApprovedNext(m, e)
<1>1. \A h, v : VoteMsg(h, v).type \in VoteTypes
  BY DEF VoteMsg, VoteTypes
<1>2. \A id, h, v : SerialMsg(id, h, v).type \in VoteTypes
  BY DEF SerialMsg, VoteTypes
<1> QED
  BY <1>1, <1>2, SpentStays DEF Counts, PendingCount, ApprovedCount, PendingNext, ApprovedNext

(* A vote the handler takes from its channel was not spent, and is now.    *)
LEMMA VoteTaken ==
  ASSUME TypeOK, VotesSeen, NEW m \in Masters, NEW type \in VoteTypes,
         Arrived(m, type), Consume(m), ChannelStep(m)
  PROVE  ~Spent(m, Head(events[m])) /\ SpentNext(m, Head(events[m]))
<1> DEFINE d == Head(events[m])
<1>1. events[m] \in Seq(Event) /\ events[m] # <<>> /\ d.type \in VoteTypes
  BY DEF TypeOK, VotesOK, Arrived
<1>2. 1 \in DOMAIN events[m] /\ events[m][1] = d
  BY <1>1
<1>3. d \in seen[m] /\ \A j \in DOMAIN events[m] : events[m][j] = d => j = 1
  BY <1>1, <1>2 DEF VotesSeen
<1>4. events'[m] = Tail(events[m])
  BY DEF TypeOK, VotesOK, Consume
<1>5. \A i \in DOMAIN events'[m] :
        i \in Nat \ {0} /\ i + 1 \in DOMAIN events[m] /\ events'[m][i] = events[m][i + 1]
  BY <1>1, <1>4
<1> HIDE DEF d
<1>6. \A i \in DOMAIN events'[m] : events'[m][i] # d
  <2> SUFFICES ASSUME NEW i \in DOMAIN events'[m], events'[m][i] = d
               PROVE  FALSE
    OBVIOUS
  <2>1. i + 1 = 1
    BY <1>3, <1>5
  <2> QED
    BY <1>5, <2>1
<1> QED
  BY <1>2, <1>3, <1>6 DEF ChannelStep, Spent, SpentNext, Waiting, d

(* Votes and serial votes are what their constructors make.                *)
LEMMA VoteShapes ==
  ASSUME NEW e \in Event
  PROVE  /\ e.type = "Vote" =>
              e.vote \in Votes /\ e.hash \in Hashes /\ e = VoteMsg(e.hash, e.vote)
         /\ e.type = "SerialVote" =>
              /\ e.vote \in Votes /\ e.hash \in Hashes /\ e.id \in Nat
              /\ e = SerialMsg(e.id, e.hash, e.vote)
<1>1. e.type = "Vote" => e \in [type : {"Vote"}, hash : Hashes, vote : Votes]
  BY DEF Event, Message, Timeout
<1>2. e.type = "SerialVote" => e \in [type : {"SerialVote"}, id : Nat, hash : Hashes, vote : Votes]
  BY DEF Event, Message, Timeout
<1> QED
  BY <1>1, <1>2 DEF VoteMsg, SerialMsg

LEMMA VoteCounted ==
  ASSUME TypeOK, VotesSeen, Counts, NEW m \in Masters, HandleVote(m), ChannelStep(m)
  PROVE  \A e \in pending'[m] : PendingNext(m, e)
<1> DEFINE d == Head(events[m])
           ballot == OfHash(pending[m], d.hash)
<1>1. Arrived(m, "Vote") /\ Consume(m) /\ pending \in [Masters -> SUBSET Entry]
  BY DEF HandleVote, TypeOK, VotesOK
<1>2. pending'[m] = Voted(pending[m], ballot, d.vote)
  BY <1>1 DEF HandleVote
<1>3. ~Spent(m, d) /\ SpentNext(m, d)
  BY <1>1, VoteTaken DEF VoteTypes
<1>4. d.vote \in Votes /\ d = VoteMsg(d.hash, d.vote)
  <2>1. d \in Event /\ d.type = "Vote"
    BY <1>1, ChannelType DEF TypeOK
  <2> QED
    BY <2>1, VoteShapes
<1> HIDE DEF d
<1>5. ASSUME NEW a \in pending[m], a.hash = d.hash
      PROVE  PendingNext(m, Count(a, d.vote))
  <2>1. a \in Entry /\ PendingCount(m, a) /\ PendingNext(m, a)
    BY <1>1, EntryStays DEF Counts
  <2>2. CASE d.vote = "Ok"
    <3>1. a.ok = 1
      BY <1>3, <1>4, <1>5, <2>1, <2>2 DEF PendingCount
    <3>2. Count(a, "Ok") = [a EXCEPT !.ok = a.ok + 1]
      BY DEF Count
    <3>3. /\ Count(a, "Ok").ok = 2 /\ Count(a, "Ok").no = a.no
          /\ Count(a, "Ok").hash = a.hash
      BY <2>1, <3>1, <3>2 DEF Entry
    <3> QED
      BY <1>3, <1>4, <1>5, <2>1, <2>2, <3>3 DEF PendingNext
  <2>3. CASE d.vote = "No"
    <3>1. a.no = 0
      BY <1>3, <1>4, <1>5, <2>1, <2>3 DEF PendingCount
    <3>2. Count(a, "No") = [a EXCEPT !.no = a.no + 1]
      BY DEF Count
    <3>3. /\ Count(a, "No").no = 1 /\ Count(a, "No").ok = a.ok
          /\ Count(a, "No").hash = a.hash
      BY <2>1, <3>1, <3>2 DEF Entry
    <3> QED
      BY <1>3, <1>4, <1>5, <2>1, <2>3, <3>3 DEF PendingNext
  <2> QED
    BY <1>4, <2>2, <2>3 DEF Votes
<1> QED
  BY <1>2, <1>5, EntryStays DEF Voted, OfHash

(* The raw hash in a vote against is no serial hash: no entry counts it.   *)
LEMMA SerialVoteCounted ==
  ASSUME PInv, VotesSeen, Counts, NEW m \in Masters, HandleSerialVote(m), ChannelStep(m)
  PROVE  \A e \in approved'[m] : ApprovedNext(m, e)
<1> DEFINE d == Head(events[m])
           ballot == {a \in OfHash(approved[m], d.hash) : a.id = d.id}
<1>1. /\ TypeOK /\ Arrived(m, "SerialVote") /\ Consume(m)
      /\ approved \in [Masters -> SUBSET ApprovedEntry]
  BY DEF HandleSerialVote, PInv, IInv, TypeOK, VotesOK
<1>2. approved'[m] = Voted(approved[m], ballot, d.vote)
  BY <1>1 DEF HandleSerialVote
<1>3. ~Spent(m, d) /\ SpentNext(m, d)
  BY <1>1, VoteTaken DEF VoteTypes
<1>4. d.vote \in Votes /\ d = SerialMsg(d.id, d.hash, d.vote) /\ d.type = "SerialVote" /\ OfOrder(d)
  <2>1. d \in Event /\ d.type = "SerialVote"
    BY <1>1, ChannelType DEF TypeOK
  <2>2. 1 \in DOMAIN events[m] /\ events[m][1] = d
    BY <1>1 DEF TypeOK, VotesOK, Arrived
  <2> QED
    BY <2>1, <2>2, VoteShapes DEF PInv, ArchivesOfOrders
<1> HIDE DEF d
<1>5. ASSUME NEW a \in approved[m], a.hash = d.hash, a.id = d.id
      PROVE  ApprovedNext(m, Count(a, d.vote))
  <2>1. a \in ApprovedEntry /\ ApprovedCount(m, a) /\ Len(a.hash) > 1
    BY <1>1 DEF Counts, PInv, OwnBallots
  <2>2. CASE d.vote = "Ok"
    <3>1. a.ok = 1
      BY <1>3, <1>4, <1>5, <2>1, <2>2 DEF ApprovedCount
    <3>2. Count(a, "Ok") = [a EXCEPT !.ok = a.ok + 1]
      BY DEF Count
    <3>3. /\ Count(a, "Ok").ok = 2 /\ Count(a, "Ok").no = a.no
          /\ Count(a, "Ok").hash = a.hash /\ Count(a, "Ok").id = a.id
      BY <2>1, <3>1, <3>2 DEF ApprovedEntry
    <3> QED
      BY <1>3, <1>4, <1>5, <2>1, <2>2, <3>3 DEF ApprovedNext, ApprovedCount
  <2>3. CASE d.vote = "No"
    <3>1. \E b \in Bodies : d.hash = <<b>>
      BY <1>4, <2>3 DEF OfOrder, Against, RawHash
    <3>2. Len(d.hash) = 1
      BY <3>1
    <3> QED
      BY <1>5, <2>1, <3>2
  <2> QED
    BY <1>4, <2>2, <2>3 DEF Votes
<1> QED
  BY <1>1, <1>2, <1>5, EntryStays DEF Voted, OfHash

(* A voter's own Ok counts on top of a proposer's entry of the same block  *)
(* only if no such vote was heard: publishing it would be refused.         *)
LEMMA OwnVoteCounted ==
  ASSUME TypeOK, VotesSeen, Counts, CacheOutlivesVote, NEW c \in net, ReceiveValidBlock(c),
         ChannelStep(c.to)
  PROVE  \A e \in pending'[c.to] : PendingNext(c.to, e)
<1> DEFINE m    == c.to
           h    == c.data.hash
           d    == VoteMsg(h, "Ok")
           new  == [hash |-> h, ok |-> 0, no |-> 0]
           with == pending[m] \cup {new}
<1>1. m \in Masters /\ h \in Hashes /\ pending \in [Masters -> SUBSET Entry]
  BY CopyType DEF TypeOK, VotesOK
<1>2. pending'[m] = Voted(with, OfHash(with, h), "Ok")
  BY <1>1 DEF ReceiveValidBlock
<1>3. d \notin seen[m]
  BY DEF ReceiveValidBlock, CanPublish
<1>4. SpentNext(m, d)
  <2>1. d \in seen'[m]
    BY <1>1, SeenGrows DEF ReceiveValidBlock
  <2>2. events'[m] = Append(events[m], NewBlock(h)) /\ events[m] \in Seq(Event)
    BY <1>1 DEF ReceiveValidBlock, Notify, TypeOK, VotesOK
  <2>3. d.type = "Vote" /\ NewBlock(h).type = "NewBlock"
    BY DEF VoteMsg, NewBlock
  <2> HIDE DEF d
  <2>4. \A i \in DOMAIN events[m] : events[m][i] # d
    BY <1>1, <1>3, <2>3 DEF VotesSeen, VoteTypes
  <2>5. \A i \in DOMAIN events'[m] :
          events'[m][i] = NewBlock(h) \/ (i \in DOMAIN events[m] /\ events'[m][i] = events[m][i])
    BY <2>2
  <2> QED
    BY <2>1, <2>3, <2>4, <2>5 DEF SpentNext
<1>5. Count(new, "Ok") = [hash |-> h, ok |-> 1, no |-> 0]
  BY DEF Count
<1>6. PendingNext(m, Count(new, "Ok"))
  BY <1>5 DEF PendingNext
<1>7. ASSUME NEW a \in pending[m], a.hash = h
      PROVE  PendingNext(m, Count(a, "Ok"))
  <2>1. a \in Entry /\ PendingCount(m, a) /\ PendingNext(m, a)
    BY <1>1, EntryStays DEF Counts
  <2>2. a.ok = 1
    BY <1>3, <1>7, <2>1 DEF PendingCount, Spent
  <2>3. Count(a, "Ok") = [a EXCEPT !.ok = a.ok + 1]
    BY DEF Count
  <2>4. /\ Count(a, "Ok").ok = 2 /\ Count(a, "Ok").no = a.no
        /\ Count(a, "Ok").hash = a.hash
    BY <2>1, <2>2, <2>3 DEF Entry
  <2> QED
    BY <1>4, <1>7, <2>1, <2>4 DEF PendingNext
<1>8. \A a \in pending[m] : PendingNext(m, a)
  BY <1>1, EntryStays
<1>9. new.hash = h
  OBVIOUS
<1> HIDE DEF new, h, m, d
<1> QED
  BY <1>2, <1>6, <1>7, <1>8, <1>9 DEF Voted, OfHash, m

LEMMA StepOfPending ==
  ASSUME VotesInv, CacheOutlivesVote, [Next]_vars, NEW m \in Masters, ChannelStep(m)
  PROVE  \A e \in pending'[m] : PendingNext(m, e)
<1>1. TypeOK /\ VotesSeen /\ Counts
  BY DEF VotesInv, PInv, IInv
<1>2. pending \in [Masters -> SUBSET Entry]
  BY <1>1 DEF TypeOK, VotesOK
<1>3. CASE pending'[m] \subseteq pending[m]
  BY <1>1, <1>3, EntryStays
<1>4. ASSUME NEW r \in Requests, PushPending(r)
      PROVE  \A e \in pending'[m] : PendingNext(m, e)
  <2> DEFINE new == [hash |-> RawHash(Body[r]), ok |-> 1, no |-> 0]
  <2>1. \A e \in pending'[m] : e \in pending[m] \/ e = new
    BY <1>2, <1>4 DEF PushPending
  <2>2. PendingNext(m, new)
    BY DEF PendingNext
  <2> HIDE DEF new
  <2> QED
    BY <1>1, <2>1, <2>2, EntryStays
<1>5. ASSUME NEW r \in Requests, EndVote(r)
      PROVE  pending'[m] \subseteq pending[m]
  BY <1>2, <1>5 DEF EndVote
<1>6. ASSUME NEW c \in net, ReceiveBadBlock(c)
      PROVE  pending'[m] \subseteq pending[m]
  BY <1>2, <1>6 DEF ReceiveBadBlock
<1>7. ASSUME NEW n \in Masters, HandlePendingTimeout(n) \/ Crash(n)
      PROVE  pending'[m] \subseteq pending[m]
  BY <1>2, <1>7 DEF HandlePendingTimeout, Crash
<1>8. ASSUME NEW n \in Masters, HandleVote(n)
      PROVE  \A e \in pending'[m] : PendingNext(m, e)
  <2>1. CASE n = m
    BY <1>1, <1>8, <2>1, VoteCounted
  <2>2. CASE n # m
    BY <1>2, <1>3, <1>8, <2>2 DEF HandleVote
  <2> QED
    BY <2>1, <2>2
<1>9. ASSUME NEW c \in net, ReceiveValidBlock(c)
      PROVE  \A e \in pending'[m] : PendingNext(m, e)
  <2>1. CASE c.to = m
    BY <1>1, <1>9, <2>1, OwnVoteCounted
  <2>2. CASE c.to # m
    BY <1>2, <1>3, <1>9, <2>2 DEF ReceiveValidBlock
  <2> QED
    BY <2>1, <2>2
<1>10. \/ UNCHANGED pending
       \/ \E r \in Requests : PushPending(r) \/ EndVote(r)
       \/ \E c \in net : ReceiveBadBlock(c) \/ ReceiveValidBlock(c)
       \/ \E n \in Masters : HandlePendingTimeout(n) \/ Crash(n) \/ HandleVote(n)
  BY DEF Next, Submit, TaskStep, ReadTip, Publish, OrderVote, PushApproved, EndBallot,
         AddBlock, Interpret, Receive, ReceiveIgnored, ReceiveNotice, Handle, HandleSerialVote,
         HandleNewBlock, HandleArchiveBlock, HandleApprovedTimeout, TimerFires, vars, voteVars
<1> QED
  BY <1>3, <1>4, <1>5, <1>6, <1>7, <1>8, <1>9, <1>10

LEMMA StepOfApproved ==
  ASSUME VotesInv, CacheOutlivesVote, [Next]_vars, NEW m \in Masters, ChannelStep(m)
  PROVE  \A e \in approved'[m] : ApprovedNext(m, e)
<1>1. TypeOK /\ VotesSeen /\ Counts /\ PInv
  BY DEF VotesInv, PInv, IInv
<1>2. approved \in [Masters -> SUBSET ApprovedEntry]
  BY <1>1 DEF TypeOK, VotesOK
<1>3. CASE approved'[m] \subseteq approved[m]
  BY <1>1, <1>3, EntryStays
<1>4. ASSUME NEW r \in Requests, PushApproved(r)
      PROVE  \A e \in approved'[m] : ApprovedNext(m, e)
  <2> DEFINE new == [id |-> task[r].id, hash |-> task[r].fin, ok |-> 1, no |-> 0]
  <2>1. \A e \in approved'[m] : e \in approved[m] \/ e = new
    BY <1>2, <1>4 DEF PushApproved
  <2>2. ApprovedNext(m, new)
    BY DEF ApprovedNext
  <2> HIDE DEF new
  <2> QED
    BY <1>1, <2>1, <2>2, EntryStays
<1>5. ASSUME NEW r \in Requests, EndBallot(r)
      PROVE  approved'[m] \subseteq approved[m]
  BY <1>2, <1>5 DEF EndBallot
<1>6. ASSUME NEW n \in Masters, HandleApprovedTimeout(n) \/ Crash(n)
      PROVE  approved'[m] \subseteq approved[m]
  BY <1>2, <1>6 DEF HandleApprovedTimeout, Crash
<1>7. ASSUME NEW n \in Masters, HandleSerialVote(n)
      PROVE  \A e \in approved'[m] : ApprovedNext(m, e)
  <2>1. CASE n = m
    BY <1>1, <1>7, <2>1, SerialVoteCounted
  <2>2. CASE n # m
    BY <1>2, <1>3, <1>7, <2>2 DEF HandleSerialVote
  <2> QED
    BY <2>1, <2>2
<1>8. \/ UNCHANGED approved
      \/ \E r \in Requests : PushApproved(r) \/ EndBallot(r)
      \/ \E n \in Masters : HandleApprovedTimeout(n) \/ Crash(n) \/ HandleSerialVote(n)
  BY DEF Next, Submit, TaskStep, ReadTip, Publish, PushPending, EndVote, OrderVote,
         AddBlock, Interpret, Receive, ReceiveIgnored, ReceiveNotice,
         ReceiveValidBlock, ReceiveBadBlock, Handle, HandleVote,
         HandleNewBlock, HandleArchiveBlock, HandlePendingTimeout, TimerFires, vars, voteVars
<1> QED
  BY <1>3, <1>4, <1>5, <1>6, <1>7, <1>8

LEMMA NextVotesInv ==
  ASSUME VotesInv, CacheOutlivesVote, [Next]_vars
  PROVE  VotesInv'
<1>1. PInv'
  BY NextPInv DEF VotesInv
<1>2. \A m \in Masters : ChannelStep(m) \/ Forgets(m)
  BY StepOfChannel DEF VotesInv, PInv, IInv
<1>3. VotesSeen'
  BY <1>2, SeenKept DEF VotesInv, PInv, IInv
<1>4. ASSUME NEW m \in Masters
      PROVE  /\ \A e \in pending'[m] : PendingNext(m, e)
             /\ \A e \in approved'[m] : ApprovedNext(m, e)
  <2>1. CASE ChannelStep(m)
    BY <2>1, StepOfPending, StepOfApproved
  <2>2. CASE Forgets(m)
    BY <2>2 DEF Forgets
  <2> QED
    BY <1>2, <2>1, <2>2
<1>5. Counts'
  BY <1>4 DEF Counts, PendingCount, ApprovedCount, PendingNext, ApprovedNext,
              Spent, SpentNext, Waiting
<1> QED
  BY <1>1, <1>3, <1>5 DEF VotesInv

(***************************************************************************)
(* While the duplicate cache outlives a vote, an entry of a ballot counts  *)
(* at most one vote of each kind besides its owner's and a serial ballot   *)
(* none against, with any number of masters (message_id_fn, master/mod.rs *)
(* 164-174; activity.rs 256-297).                                          *)
(***************************************************************************)
THEOREM VotesAlwaysCollapse == CacheOutlivesVote /\ Spec => []VotesCollapse
<1> SUFFICES ASSUME CacheOutlivesVote
             PROVE  Spec => []VotesCollapse
  OBVIOUS
<1>1. Init => VotesInv
  <2>1. Init => VotesSeen /\ Counts
    BY DEF Init, VotesSeen, Counts
  <2> QED
    BY <2>1, InitPInv DEF VotesInv
<1>2. VotesInv /\ [Next]_vars => VotesInv'
  BY NextVotesInv
<1>3. VotesInv => VotesCollapse
  BY DEF VotesInv, Counts, PendingCount, ApprovedCount, VotesCollapse
<1> QED
  BY <1>1, <1>2, <1>3, PTL DEF Spec
=============================================================================
