------------------------- MODULE MasterOrders_proofs -------------------------
(***************************************************************************)
(* Proofs about MasterOrders, for any masters, orders and bounds.          *)
(*                                                                         *)
(* The inductive invariant is IInv: the type invariant, the chain itself,  *)
(* and that everything still to be inserted continues a stored block.  A   *)
(* task or timer holds an id and a hash computed from a tip that may since *)
(* have been built upon; since rows are never changed or removed the block *)
(* it continues is still there, and since its id is a primary key the      *)
(* insert succeeds only when that block is still the last one.             *)
(***************************************************************************)
EXTENDS MasterOrders, TLAPS

AllBodies == Bodies \cup {GenesisBody}

IInv == TypeOK /\ ChainLinked /\ InFlightLinked

-----------------------------------------------------------------------------
(* Hashes and tables.                                                      *)

(* A raw hash and a serial hash are hashes, and the first element of one   *)
(* is an order.                                                            *)
LEMMA HashTypes ==
  /\ \A b \in AllBodies : RawHash(b) \in Hashes
  /\ \A h \in Hashes, b \in AllBodies : SerialHash(h, b) \in Hashes
  /\ \A h \in Hashes : h[1] \in AllBodies
  /\ \A r \in Requests : Body[r] \in AllBodies
  BY DEF RawHash, SerialHash, Hashes, AllBodies, Bodies

(* The highest id of a table whose ids are 0 .. n is n.                    *)
LEMMA LastIdIs ==
  ASSUME NEW table, NEW n \in Nat, DOMAIN table = 0 .. n
  PROVE  LastId(table) = n
<1>1. n \in DOMAIN table /\ \A k \in DOMAIN table : k <= n
  OBVIOUS
<1>2. \A id \in DOMAIN table : (\A k \in DOMAIN table : k <= id) => id = n
  OBVIOUS
<1> QED
  BY <1>1, <1>2 DEF LastId

(* The next block of a master, as sync and block_order_vote compute it,    *)
(* continues its chain.                                                    *)
LEMMA NextFollows ==
  ASSUME TypeOK, ChainLinked, NEW m \in Masters, NEW b \in AllBodies
  PROVE  /\ NextId(m) \in Nat /\ NextHash(m, b) \in Hashes
         /\ Follows(m, NextId(m), NextHash(m, b), b)
<1>1. Tip(m) \in Nat /\ Tip(m) \in DOMAIN chain[m]
  BY DEF ChainLinked
<1>2. chain[m][Tip(m)].hash \in Hashes
  BY <1>1 DEF TypeOK, StoreOK
<1>3. NextId(m) - 1 = Tip(m)
  BY <1>1 DEF NextId
<1> QED
  BY <1>1, <1>2, <1>3, HashTypes DEF NextId, NextHash, Follows

-----------------------------------------------------------------------------
(* Type correctness, operation by operation.                               *)
Tasks == [Requests -> [pc : Steps, retry : 0 .. MaxRetries, id : Nat, fin : Hashes]]

(* Moving a task, with or without an answer or a retry, keeps its type.    *)
LEMMA MoveType ==
  ASSUME TaskOK, NEW r \in Requests, NEW pc \in Steps
  PROVE  /\ Goto(r, pc) => task' \in Tasks
         /\ Retry(r, pc) => task' \in Tasks
         /\ \A status \in Replies : Answer(r, status, pc) => TaskOK'
<1>1. Goto(r, pc) => task' \in Tasks
  BY DEF TaskOK, Goto, Tasks
<1>2. Retry(r, pc) => task' \in Tasks
  <2> SUFFICES ASSUME Retry(r, pc) PROVE task' \in Tasks
    OBVIOUS
  <2>1. task[r].retry + 1 \in 0 .. MaxRetries
    BY ConstantsAssumption DEF TaskOK, Retry
  <2> QED
    BY <2>1 DEF TaskOK, Retry, Tasks
<1>3. \A status \in Replies : Answer(r, status, pc) => TaskOK'
  BY <1>1 DEF TaskOK, Answer, Tasks
<1> QED
  BY <1>1, <1>2, <1>3

(* What an action does not touch keeps its type.                           *)
LEMMA UntouchedType ==
  /\ TaskOK /\ UNCHANGED <<task, reply>> => TaskOK'
  /\ StoreOK /\ UNCHANGED <<chain, tables>> => StoreOK'
  /\ VotesOK /\ UNCHANGED voteVars => VotesOK'
  /\ GossipOK /\ UNCHANGED gossipVars => GossipOK'
  BY DEF TaskOK, StoreOK, VotesOK, GossipOK, voteVars, gossipVars

(* What a master publishes are messages, and so are the copies.            *)
LEMMA GossipType ==
  ASSUME GossipOK, NEW m \in Masters, NEW msgs \in SUBSET Message
  PROVE  /\ Gossip(m, msgs) => GossipOK'
         /\ GossipSome(m, msgs) => GossipOK'
<1>1. \A taken \in SUBSET Message : Gossip(m, taken) => GossipOK'
  BY DEF GossipOK, Gossip, Underway, Copies
<1> QED
  BY <1>1 DEF GossipSome

LEMMA TakeType ==
  ASSUME GossipOK, NEW c \in net, NEW votes \in SUBSET Message, Take(c, votes)
  PROVE  GossipOK'
  BY ConstantsAssumption DEF GossipOK, Take, Underway, Copies

(* A row added to a table has a type if its parts have.                    *)
LEMMA AddType ==
  ASSUME StoreOK, UNCHANGED tables, NEW m \in Masters, NEW id \in Nat,
         NEW h \in Hashes, NEW b \in AllBodies
  PROVE  /\ AddNew(m, id, Row(h, b)) => StoreOK'
         /\ AddNewFails(m, id) => StoreOK'
<1>1. Row(h, b) \in [hash : Hashes, body : Bodies \cup {GenesisBody}]
  BY DEF Row, AllBodies
<1>2. AddNew(m, id, Row(h, b)) => StoreOK'
  BY <1>1 DEF StoreOK, AddNew
<1>3. AddNewFails(m, id) => StoreOK'
  BY DEF StoreOK, AddNewFails
<1> QED
  BY <1>2, <1>3

(* Counting a vote keeps entries entries.                                  *)
LEMMA VotedType ==
  ASSUME NEW ballot, NEW v
  PROVE  /\ \A S \in SUBSET Entry : Voted(S, ballot, v) \in SUBSET Entry
         /\ \A S \in SUBSET ApprovedEntry : Voted(S, ballot, v) \in SUBSET ApprovedEntry
<1>1. \A e \in Entry : Count(e, v) \in Entry
  BY DEF Entry, Count
<1>2. \A e \in ApprovedEntry : Count(e, v) \in ApprovedEntry
  BY DEF ApprovedEntry, Count
<1> QED
  BY <1>1, <1>2 DEF Voted

-----------------------------------------------------------------------------
(* The steps of a task keep the types.                                     *)
LEMMA SubmitType ==
  ASSUME TypeOK, NEW r \in Requests, Submit(r)
  PROVE  TypeOK'
<1>1. TaskOK'
  BY MoveType DEF TypeOK, TaskOK, Submit, Tasks, Steps
<1> QED
  BY <1>1, UntouchedType DEF TypeOK, Submit

LEMMA ReadTipType ==
  ASSUME TypeOK, ChainLinked, NEW r \in Requests, ReadTip(r)
  PROVE  TypeOK'
<1>1. Home[r] \in Masters /\ Body[r] \in AllBodies
  BY ConstantsAssumption, HashTypes
<1>2. NextId(Home[r]) \in Nat /\ NextHash(Home[r], Body[r]) \in Hashes
  BY <1>1, NextFollows
<1>3. NextBlock(r, "publish") => task' \in Tasks
  BY <1>2 DEF TypeOK, TaskOK, NextBlock, Steps, Tasks
<1>4. Answer(r, "NodeError", "refused") => TaskOK'
  BY MoveType DEF TypeOK, Replies, Steps
<1>5. TaskOK'
  BY <1>3, <1>4 DEF TypeOK, ReadTip, TaskOK, Tasks
<1> QED
  BY <1>5, UntouchedType DEF TypeOK, ReadTip

LEMMA PublishType ==
  ASSUME TypeOK, NEW r \in Requests, Publish(r)
  PROVE  TypeOK'
<1>1. Home[r] \in Masters /\ {BlockMsg(Body[r])} \in SUBSET Message
  BY ConstantsAssumption, HashTypes DEF BlockMsg, Message
<1>2. GossipOK'
  BY <1>1, GossipType, UntouchedType DEF TypeOK, Publish
<1>3. /\ Goto(r, "push") => task' \in Tasks
      /\ Retry(r, "publish") => task' \in Tasks
      /\ Answer(r, "Ok", "add") => TaskOK'
      /\ Answer(r, "ReqError", "refused") => TaskOK'
  BY MoveType DEF TypeOK, Steps, Replies
<1>4. TaskOK'
  BY <1>3 DEF TypeOK, Publish, TaskOK, Tasks
<1> QED
  BY <1>2, <1>4, UntouchedType DEF TypeOK, Publish

LEMMA PushPendingType ==
  ASSUME TypeOK, NEW r \in Requests, PushPending(r)
  PROVE  TypeOK'
<1>1. TaskOK'
  BY MoveType DEF TypeOK, TaskOK, PushPending, Tasks, Steps
<1>2. [hash |-> RawHash(Body[r]), ok |-> 1, no |-> 0] \in Entry
  BY HashTypes DEF Entry
<1>3. VotesOK'
  BY <1>2 DEF TypeOK, VotesOK, PushPending
<1> QED
  BY <1>1, <1>3, UntouchedType DEF TypeOK, PushPending

LEMMA EndVoteType ==
  ASSUME TypeOK, NEW r \in Requests, EndVote(r)
  PROVE  TypeOK'
<1>1. [task EXCEPT ![r].pc = "order", ![r].retry = 0] \in Tasks
  <2>1. task[r] \in [pc : Steps, retry : 0 .. MaxRetries, id : Nat, fin : Hashes]
    BY DEF TypeOK, TaskOK
  <2>2. 0 \in 0 .. MaxRetries /\ "order" \in Steps
    BY ConstantsAssumption DEF Steps
  <2>3. [task EXCEPT ![r].pc = "order"] \in Tasks
    BY <2>1, <2>2 DEF TypeOK, TaskOK, Tasks
  <2> QED
    BY <2>2, <2>3 DEF Tasks
<1>2. Answer(r, "Rejected", "refused") => TaskOK'
  BY MoveType DEF TypeOK, Steps, Replies
<1>3. TaskOK'
  BY <1>1, <1>2 DEF TypeOK, EndVote, TaskOK, Tasks
<1>4. VotesOK'
  BY DEF TypeOK, VotesOK, EndVote
<1> QED
  BY <1>3, <1>4, UntouchedType DEF TypeOK, EndVote

LEMMA OrderVoteType ==
  ASSUME TypeOK, ChainLinked, NEW r \in Requests, OrderVote(r)
  PROVE  TypeOK'
<1> DEFINE archive == ArchiveMsg(RawHash(Body[r]), NextHash(Home[r], Body[r]), NextId(Home[r]))
<1>1. Home[r] \in Masters /\ Body[r] \in AllBodies /\ RawHash(Body[r]) \in Hashes
  BY ConstantsAssumption, HashTypes
<1>2. NextId(Home[r]) \in Nat /\ NextHash(Home[r], Body[r]) \in Hashes
  BY <1>1, NextFollows
<1>3. {archive} \in SUBSET Message
  BY <1>1, <1>2 DEF ArchiveMsg, Message
<1>4. GossipOK'
  BY <1>1, <1>3, GossipType, UntouchedType DEF TypeOK, OrderVote
<1>5. NextBlock(r, "record") => task' \in Tasks
  BY <1>2 DEF TypeOK, TaskOK, NextBlock, Steps, Tasks
<1>6. /\ Retry(r, "order") => task' \in Tasks
      /\ Answer(r, "Rejected", "refused") => TaskOK'
      /\ Answer(r, "ReqError", "refused") => TaskOK'
  BY MoveType DEF TypeOK, Steps, Replies
<1>7. TaskOK'
  BY <1>5, <1>6 DEF TypeOK, OrderVote, TaskOK, Tasks
<1> QED
  BY <1>4, <1>7, UntouchedType DEF TypeOK, OrderVote

LEMMA PushApprovedType ==
  ASSUME TypeOK, NEW r \in Requests, PushApproved(r)
  PROVE  TypeOK'
<1>1. TaskOK'
  BY MoveType DEF TypeOK, TaskOK, PushApproved, Tasks, Steps
<1>2. [id |-> task[r].id, hash |-> task[r].fin, ok |-> 1, no |-> 0] \in ApprovedEntry
  BY DEF TypeOK, TaskOK, ApprovedEntry
<1>3. VotesOK'
  BY <1>2 DEF TypeOK, VotesOK, PushApproved
<1> QED
  BY <1>1, <1>3, UntouchedType DEF TypeOK, PushApproved

LEMMA EndBallotType ==
  ASSUME TypeOK, NEW r \in Requests, EndBallot(r)
  PROVE  TypeOK'
<1>1. /\ Retry(r, "order") => task' \in Tasks
      /\ Answer(r, "Ok", "add") => TaskOK'
      /\ Answer(r, "Rejected", "refused") => TaskOK'
      /\ Answer(r, "ReqError", "refused") => TaskOK'
  BY MoveType DEF TypeOK, Steps, Replies
<1>2. TaskOK'
  BY <1>1 DEF TypeOK, EndBallot, TaskOK, Tasks
<1>3. VotesOK'
  BY DEF TypeOK, VotesOK, EndBallot
<1> QED
  BY <1>2, <1>3, UntouchedType DEF TypeOK, EndBallot

LEMMA AddBlockType ==
  ASSUME TypeOK, NEW r \in Requests, AddBlock(r)
  PROVE  TypeOK'
<1>1. TaskOK'
  BY MoveType DEF TypeOK, TaskOK, AddBlock, Tasks, Steps
<1>2. Home[r] \in Masters /\ Body[r] \in AllBodies
  BY ConstantsAssumption, HashTypes
<1>3. task[r].id \in Nat /\ task[r].fin \in Hashes
  BY DEF TypeOK, TaskOK
<1>4. StoreOK'
  BY <1>2, <1>3, AddType DEF TypeOK, AddBlock
<1> QED
  BY <1>1, <1>4, UntouchedType DEF TypeOK, AddBlock

LEMMA InterpretType ==
  ASSUME TypeOK, NEW r \in Requests, Interpret(r)
  PROVE  TypeOK'
<1>1. TaskOK'
  BY MoveType DEF TypeOK, TaskOK, Interpret, Tasks, Steps
<1>2. Home[r] \in Masters /\ task[r].id \in Nat
  BY ConstantsAssumption DEF TypeOK, TaskOK
<1>3. Append(tables[Home[r]], task[r].id) \in Seq(Nat)
  BY <1>2 DEF TypeOK, StoreOK
<1>4. tables' \in [Masters -> Seq(Nat)]
  BY <1>2, <1>3 DEF TypeOK, StoreOK, Interpret
<1>5. StoreOK'
  BY <1>4 DEF TypeOK, StoreOK, Interpret
<1> QED
  BY <1>1, <1>5, UntouchedType DEF TypeOK, Interpret

-----------------------------------------------------------------------------
(* Messages and events, constructor by constructor and field by field.     *)
LEMMA MessageTypes ==
  ASSUME NEW h \in Hashes, NEW s \in Hashes, NEW id \in Nat, NEW v \in Votes
  PROVE  /\ VoteMsg(h, v) \in Message
         /\ SerialMsg(id, h, v) \in Message
         /\ NewBlock(h) \in Event
         /\ PendingBlockTimeout(h) \in Timeout
         /\ ApprovedBlockTimeout(id, h, s) \in Timeout
  BY DEF Message, Event, Timeout, VoteMsg, SerialMsg, NewBlock, PendingBlockTimeout,
         ApprovedBlockTimeout

LEMMA EventFields ==
  ASSUME NEW e \in Event
  PROVE  /\ e.hash \in Hashes
         /\ e.type \in {"Vote", "SerialVote"} => e.vote \in Votes
         /\ e.type \in {"ArchiveBlock", "SerialVote", "ApprovedBlockTimeout"} => e.id \in Nat
         /\ e.type = "ArchiveBlock" => e.serial \in Hashes
         /\ e.type = "ApprovedBlockTimeout" => e.raw \in Hashes
  BY DEF Event, Message, Timeout

(* The event at the head of a channel is an event, the rest stay, and an   *)
(* event added keeps the channel a sequence of events.                     *)
LEMMA ChannelType ==
  ASSUME VotesOK, NEW m \in Masters
  PROVE  /\ \A type : Arrived(m, type) =>
              /\ Head(events[m]) \in Event /\ Head(events[m]).type = type
         /\ Arrived(m, Head(events[m]).type) /\ Consume(m) =>
              events' \in [Masters -> Seq(Event)]
         /\ \A e \in Event : Notify(m, e) => events' \in [Masters -> Seq(Event)]
<1>1. events[m] \in Seq(Event)
  BY DEF VotesOK
<1>2. \A type : Arrived(m, type) => Head(events[m]) \in Event
  BY <1>1 DEF Arrived
<1>3. ASSUME Arrived(m, Head(events[m]).type), Consume(m)
      PROVE  events' \in [Masters -> Seq(Event)]
  <2>1. Tail(events[m]) \in Seq(Event)
    BY <1>1, <1>3 DEF Arrived
  <2> QED
    BY <2>1, <1>3 DEF VotesOK, Consume
<1>4. ASSUME NEW e \in Event, Notify(m, e)
      PROVE  events' \in [Masters -> Seq(Event)]
  <2>1. Append(events[m], e) \in Seq(Event)
    BY <1>1
  <2> QED
    BY <2>1, <1>4 DEF VotesOK, Notify
<1> QED
  BY <1>2, <1>3, <1>4 DEF Arrived

-----------------------------------------------------------------------------
(* Receiving keeps the types.                                              *)
LEMMA CopyType ==
  ASSUME GossipOK, NEW c \in net
  PROVE  /\ c.to \in Masters /\ c.from \in Masters /\ c.data \in Message
         /\ c.data.hash \in Hashes
<1>1. c \in [from : Masters, to : Masters, data : Message]
  BY DEF GossipOK
<1> QED
  BY <1>1 DEF Message

LEMMA ReceiveType ==
  ASSUME TypeOK, NEW c \in net, Receive(c)
  PROVE  TypeOK'
<1>1. c.to \in Masters /\ c.data \in Message /\ c.data.hash \in Hashes
  BY CopyType DEF TypeOK
<1>2. CASE ReceiveIgnored(c)
  <2>1. GossipOK'
    BY <1>2, TakeType DEF TypeOK, ReceiveIgnored
  <2> QED
    BY <2>1, <1>2, UntouchedType DEF TypeOK, ReceiveIgnored
<1>3. CASE ReceiveNotice(c)
  <2>1. GossipOK'
    BY <1>3, TakeType DEF TypeOK, ReceiveNotice
  <2>2. events' \in [Masters -> Seq(Event)]
    BY <1>1, <1>3, ChannelType DEF TypeOK, ReceiveNotice, Event
  <2>3. VotesOK'
    BY <2>2, <1>3 DEF TypeOK, VotesOK, ReceiveNotice
  <2> QED
    BY <2>1, <2>3, <1>3, UntouchedType DEF TypeOK, ReceiveNotice
<1>4. CASE ReceiveValidBlock(c)
  <2> DEFINE h == c.data.hash
             with == pending[c.to] \cup {[hash |-> h, ok |-> 0, no |-> 0]}
  <2>1. VoteMsg(h, "Ok") \in Message /\ NewBlock(h) \in Event
    BY <1>1, MessageTypes DEF Votes
  <2>2. GossipOK'
    BY <2>1, <1>4, TakeType DEF TypeOK, ReceiveValidBlock
  <2>3. events' \in [Masters -> Seq(Event)]
    BY <1>1, <2>1, <1>4, ChannelType DEF TypeOK, ReceiveValidBlock
  <2>4. with \in SUBSET Entry
    BY <1>1 DEF TypeOK, VotesOK, Entry
  <2>5. Voted(with, OfHash(with, h), "Ok") \in SUBSET Entry
    BY <2>4, VotedType
  <2>6. VotesOK'
    BY <1>1, <2>3, <2>5, <1>4 DEF TypeOK, VotesOK, ReceiveValidBlock
  <2> QED
    BY <2>2, <2>6, <1>4, UntouchedType DEF TypeOK, ReceiveValidBlock
<1>5. CASE ReceiveBadBlock(c)
  <2>1. VoteMsg(c.data.hash, "No") \in Message
    BY <1>1, MessageTypes DEF Votes
  <2>2. GossipOK'
    BY <2>1, <1>5, TakeType DEF TypeOK, ReceiveBadBlock
  <2>3. VotesOK'
    BY <1>5 DEF TypeOK, VotesOK, ReceiveBadBlock
  <2> QED
    BY <2>2, <2>3, <1>5, UntouchedType DEF TypeOK, ReceiveBadBlock
<1> QED
  BY <1>2, <1>3, <1>4, <1>5 DEF Receive

-----------------------------------------------------------------------------
(* Handling an event keeps the types.                                      *)
LEMMA HandleType ==
  ASSUME TypeOK, ChainLinked, NEW m \in Masters, Handle(m)
  PROVE  TypeOK'
<1> DEFINE e == Head(events[m])
<1>1. /\ e \in Event /\ e.hash \in Hashes
      /\ e.type \in {"Vote", "SerialVote"} => e.vote \in Votes
      /\ e.type \in {"ArchiveBlock", "SerialVote", "ApprovedBlockTimeout"} => e.id \in Nat
      /\ e.type = "ArchiveBlock" => e.serial \in Hashes
      /\ e.type = "ApprovedBlockTimeout" => e.raw \in Hashes
  BY ChannelType, EventFields
     DEF TypeOK, Handle, HandleVote, HandleSerialVote, HandleNewBlock, HandleArchiveBlock,
         HandlePendingTimeout, HandleApprovedTimeout
<1>2. events' \in [Masters -> Seq(Event)]
  BY ChannelType
     DEF TypeOK, Handle, HandleVote, HandleSerialVote, HandleNewBlock, HandleArchiveBlock,
         HandlePendingTimeout, HandleApprovedTimeout
<1>3. CASE HandleVote(m)
  <2>1. Voted(pending[m], OfHash(pending[m], e.hash), e.vote) \in SUBSET Entry
    BY VotedType DEF TypeOK, VotesOK
  <2>2. VotesOK'
    BY <2>1, <1>2, <1>3 DEF TypeOK, VotesOK, HandleVote
  <2> QED
    BY <2>2, <1>3, UntouchedType DEF TypeOK, HandleVote
<1>4. CASE HandleSerialVote(m)
  <2>1. \A ballot : Voted(approved[m], ballot, e.vote) \in SUBSET ApprovedEntry
    BY VotedType DEF TypeOK, VotesOK
  <2>2. VotesOK'
    BY <2>1, <1>2, <1>4 DEF TypeOK, VotesOK, HandleSerialVote
  <2> QED
    BY <2>2, <1>4, UntouchedType DEF TypeOK, HandleSerialVote
<1>5. CASE HandleNewBlock(m)
  <2>1. PendingBlockTimeout(e.hash) \in Timeout
    BY <1>1 DEF PendingBlockTimeout, Timeout
  <2>2. VotesOK'
    BY <2>1, <1>1, <1>2, <1>5 DEF TypeOK, VotesOK, HandleNewBlock, StartTimer
  <2> QED
    BY <2>2, <1>5, UntouchedType DEF TypeOK, HandleNewBlock
<1>6. CASE HandleArchiveBlock(m)
  <2>1. e.type = "ArchiveBlock"
    BY <1>6 DEF HandleArchiveBlock, Arrived
  <2>2. /\ SerialMsg(e.id, e.serial, "Ok") \in Message
        /\ SerialMsg(e.id, e.hash, "No") \in Message
        /\ ApprovedBlockTimeout(e.id, e.serial, e.hash) \in Timeout
    BY <1>1, <2>1, MessageTypes DEF Votes
  <2>3. GossipOK'
    BY <2>2, <1>6, GossipType, UntouchedType DEF TypeOK, HandleArchiveBlock, gossipVars
  <2>4. timers' \in [Masters -> SUBSET Timeout]
    BY <2>2, <1>6 DEF TypeOK, VotesOK, HandleArchiveBlock, StartTimer
  <2>5. VotesOK'
    BY <2>4, <1>2, <1>6 DEF TypeOK, VotesOK, HandleArchiveBlock
  <2> QED
    BY <2>3, <2>5, <1>6, UntouchedType DEF TypeOK, HandleArchiveBlock
<1>7. CASE HandlePendingTimeout(m)
  <2>1. VotesOK'
    BY <1>2, <1>7 DEF TypeOK, VotesOK, HandlePendingTimeout
  <2> QED
    BY <2>1, <1>7, UntouchedType DEF TypeOK, HandlePendingTimeout
<1>8. CASE HandleApprovedTimeout(m)
  <2>1. e.id \in Nat /\ e.raw[1] \in AllBodies
    BY <1>1, <1>8, HashTypes DEF HandleApprovedTimeout, Arrived
  <2>2. StoreOK'
    BY <1>1, <2>1, <1>8, AddType, UntouchedType DEF TypeOK, HandleApprovedTimeout
  <2>3. VotesOK'
    BY <1>2, <1>8 DEF TypeOK, VotesOK, HandleApprovedTimeout
  <2> QED
    BY <2>2, <2>3, <1>8, UntouchedType DEF TypeOK, HandleApprovedTimeout
<1> QED
  BY <1>3, <1>4, <1>5, <1>6, <1>7, <1>8 DEF Handle

LEMMA TimerFiresType ==
  ASSUME TypeOK, NEW m \in Masters, TimerFires(m)
  PROVE  TypeOK'
<1>1. \A timeout \in timers[m] : timeout \in Event
  BY DEF TypeOK, VotesOK, Event
<1>2. events' \in [Masters -> Seq(Event)]
  BY <1>1, ChannelType DEF TypeOK, TimerFires
<1>3. VotesOK'
  BY <1>2 DEF TypeOK, VotesOK, TimerFires
<1> QED
  BY <1>3, UntouchedType DEF TypeOK, TimerFires

LEMMA CrashType ==
  ASSUME TypeOK, NEW m \in Masters, Crash(m)
  PROVE  TypeOK'
<1>1. \A r \in Requests :
        /\ [task[r] EXCEPT !.pc = "dead"] \in [pc : Steps, retry : 0 .. MaxRetries, id : Nat, fin : Hashes]
        /\ [task[r] EXCEPT !.pc = "done"] \in [pc : Steps, retry : 0 .. MaxRetries, id : Nat, fin : Hashes]
  BY DEF TypeOK, TaskOK, Steps
<1>2. TaskOK'
  BY <1>1 DEF TypeOK, TaskOK, Crash
<1>3. VotesOK'
  BY DEF TypeOK, VotesOK, Crash
<1>4. GossipOK'
  BY DEF TypeOK, GossipOK, Crash
<1>5. crashes' \in 0 .. MaxCrashes
  BY ConstantsAssumption DEF TypeOK, Crash
<1> QED
  BY <1>2, <1>3, <1>4, <1>5, UntouchedType DEF TypeOK, Crash

-----------------------------------------------------------------------------
(* The tables only grow: no row changes or goes.                           *)
Extends ==
  \A m \in Masters : \A id \in DOMAIN chain[m] :
    id \in DOMAIN chain'[m] /\ chain'[m][id] = chain[m][id]

(* What followed a stored block still does after any such step.            *)
LEMMA FollowsStable ==
  ASSUME Extends, NEW m \in Masters, NEW id, NEW h, NEW b, Follows(m, id, h, b)
  PROVE  /\ id - 1 \in DOMAIN chain'[m]
         /\ h = SerialHash(chain'[m][id - 1].hash, b)
  BY DEF Extends, Follows

(* An insert of a row that follows a stored block succeeds only at the end *)
(* of the chain, and leaves a chain.                                       *)
LEMMA AddLinks ==
  ASSUME TypeOK, ChainLinked, NEW m \in Masters, NEW id \in Nat, NEW h, NEW b,
         Follows(m, id, h, b), AddNew(m, id, Row(h, b))
  PROVE  ChainLinked' /\ Extends
<1>1. PICK n \in Nat : n = Tip(m) /\ DOMAIN chain[m] = 0 .. n
  BY DEF ChainLinked
<1>2. id = n + 1
  BY <1>1 DEF Follows, AddNew
<1>3. /\ DOMAIN chain'[m] = 0 .. n + 1
      /\ chain'[m][n + 1] = Row(h, b)
      /\ \A k \in 0 .. n : chain'[m][k] = chain[m][k]
      /\ \A o \in Masters : o # m => chain'[o] = chain[o]
  <2>1. DOMAIN chain = Masters
    BY DEF TypeOK, StoreOK
  <2>2. chain'[m] = [k \in 0 .. n + 1 |-> IF k = n + 1 THEN Row(h, b) ELSE chain[m][k]]
    BY <1>1, <1>2, <2>1 DEF AddNew
  <2>3. \A o \in Masters : o # m => chain'[o] = chain[o]
    BY <2>1 DEF AddNew
  <2> QED
    BY <1>1, <2>2, <2>3
<1>4. Extends
  <2> SUFFICES ASSUME NEW o \in Masters, NEW k \in DOMAIN chain[o]
               PROVE  k \in DOMAIN chain'[o] /\ chain'[o][k] = chain[o][k]
    BY DEF Extends
  <2>1. CASE o # m
    BY <1>3, <2>1
  <2>2. CASE o = m
    <3>1. k \in 0 .. n /\ k \in 0 .. n + 1
      BY <1>1, <2>2
    <3> QED
      BY <1>3, <2>2, <3>1
  <2> QED
    BY <2>1, <2>2
<1>5. ASSUME NEW o \in Masters
      PROVE  \E t \in Nat :
               /\ DOMAIN chain'[o] = 0 .. t
               /\ chain'[o][0] = Row(RawHash(GenesisBody), GenesisBody)
               /\ \A k \in 1 .. t :
                    chain'[o][k].hash = SerialHash(chain'[o][k - 1].hash, chain'[o][k].body)
  <2>1. CASE o # m
    <3>1. chain'[o] = chain[o]
      BY <1>3, <2>1
    <3> QED
      BY <3>1 DEF ChainLinked, Follows
  <2>2. CASE o = m
    <3>1. chain'[m][0] = Row(RawHash(GenesisBody), GenesisBody)
      BY <1>1, <1>3 DEF ChainLinked
    <3>2. ASSUME NEW k \in 1 .. n + 1
          PROVE  chain'[m][k].hash = SerialHash(chain'[m][k - 1].hash, chain'[m][k].body)
      <4>1. CASE k = n + 1
        <5>1. chain'[m][k].hash = h /\ chain'[m][k].body = b
          BY <1>3, <4>1 DEF Row
        <5>2. k - 1 = n /\ chain'[m][n] = chain[m][n]
          BY <1>1, <1>3, <4>1
        <5>3. h = SerialHash(chain[m][n].hash, b)
          BY <1>1, <1>2 DEF Follows
        <5> QED
          BY <5>1, <5>2, <5>3
      <4>2. CASE k # n + 1
        <5>1. k \in 1 .. n /\ k \in 0 .. n /\ k - 1 \in 0 .. n
          BY <1>1, <4>2
        <5>2. chain[m][k].hash = SerialHash(chain[m][k - 1].hash, chain[m][k].body)
          BY <1>1, <5>1 DEF ChainLinked, Follows
        <5> QED
          BY <1>3, <5>1, <5>2
      <4> QED
        BY <4>1, <4>2
    <3> QED
      BY <1>1, <1>3, <2>2, <3>1, <3>2
  <2> QED
    BY <2>1, <2>2
<1>6. ASSUME NEW o \in Masters
      PROVE  /\ Tip(o)' \in Nat /\ DOMAIN chain'[o] = 0 .. Tip(o)'
             /\ chain'[o][0] = Row(RawHash(GenesisBody), GenesisBody)
             /\ \A k \in 1 .. Tip(o)' :
                  /\ k - 1 \in DOMAIN chain'[o]
                  /\ chain'[o][k].hash = SerialHash(chain'[o][k - 1].hash, chain'[o][k].body)
  <2>1. PICK t \in Nat :
          /\ DOMAIN chain'[o] = 0 .. t
          /\ chain'[o][0] = Row(RawHash(GenesisBody), GenesisBody)
          /\ \A k \in 1 .. t :
               chain'[o][k].hash = SerialHash(chain'[o][k - 1].hash, chain'[o][k].body)
    BY <1>5
  <2>2. Tip(o)' = t
    BY <2>1, LastIdIs DEF Tip
  <2> QED
    BY <2>1, <2>2
<1>7. ChainLinked'
  BY <1>6 DEF ChainLinked, Follows
<1> QED
  BY <1>4, <1>7

(* A step that leaves the tables alone keeps them chains.                  *)
LEMMA ChainUntouched ==
  ASSUME ChainLinked, UNCHANGED chain
  PROVE  ChainLinked' /\ Extends
  BY DEF ChainLinked, Follows, Tip, Extends

-----------------------------------------------------------------------------
(* What tasks and timers still have to insert.                             *)

(* Task r announces what it announced before, or nothing ...               *)
Kept(r) ==
  task'[r].pc \in Announced =>
    /\ task[r].pc \in Announced
    /\ task'[r].id = task[r].id /\ task'[r].fin = task[r].fin

(* ... or the block that would be its master's next one.                   *)
Renewed(r) ==
  task'[r].id = NextId(Home[r]) /\ task'[r].fin = NextHash(Home[r], Body[r])

LEMMA TasksStable ==
  ASSUME TypeOK, ChainLinked, TasksLinked, Extends,
         \A r \in Requests : Kept(r) \/ Renewed(r)
  PROVE  TasksLinked'
<1> SUFFICES ASSUME NEW r \in Requests, task'[r].pc \in Announced
             PROVE  /\ task'[r].id - 1 \in DOMAIN chain'[Home[r]]
                    /\ task'[r].fin = SerialHash(chain'[Home[r]][task'[r].id - 1].hash, Body[r])
  BY DEF TasksLinked, Follows
<1>1. Home[r] \in Masters /\ Body[r] \in AllBodies
  BY ConstantsAssumption, HashTypes
<1>2. Follows(Home[r], task'[r].id, task'[r].fin, Body[r])
  <2>1. CASE Kept(r)
    BY <2>1 DEF Kept, TasksLinked
  <2>2. CASE Renewed(r)
    BY <1>1, <2>2, NextFollows DEF Renewed
  <2> QED
    BY <2>1, <2>2
<1> QED
  BY <1>1, <1>2, FollowsStable

(* A step of one task, with an answer or a retry, keeps what all announce. *)
LEMMA MoveKeeps ==
  ASSUME TaskOK, NEW r \in Requests, NEW pc,
         pc \in Announced => task[r].pc \in Announced
  PROVE  /\ Goto(r, pc) => \A s \in Requests : Kept(s)
         /\ Retry(r, pc) => \A s \in Requests : Kept(s)
         /\ \A status : Answer(r, status, pc) => \A s \in Requests : Kept(s)
<1>1. Goto(r, pc) => \A s \in Requests : Kept(s)
  BY DEF TaskOK, Goto, Kept
<1>2. Retry(r, pc) => \A s \in Requests : Kept(s)
  BY DEF TaskOK, Retry, Kept
<1> QED
  BY <1>1, <1>2 DEF Answer

LEMMA NextBlockRenews ==
  ASSUME TaskOK, NEW r \in Requests, NEW pc, NextBlock(r, pc)
  PROVE  \A s \in Requests : Kept(s) \/ Renewed(s)
  BY DEF TaskOK, NextBlock, Kept, Renewed

LEMMA TaskUntouched ==
  ASSUME UNCHANGED task
  PROVE  \A s \in Requests : Kept(s)
  BY DEF Kept

(* Every timeout under way or in a channel was there before or fits.       *)
Fits(m, e) == e.type = "ApprovedBlockTimeout" => Follows(m, e.id, e.hash, e.raw[1])

LEMMA TimersStable ==
  ASSUME TimersLinked, Extends,
         \A m \in Masters : \A e \in Upcoming(m)' : e \in Upcoming(m) \/ Fits(m, e)
  PROVE  TimersLinked'
<1> SUFFICES ASSUME NEW m \in Masters, NEW e \in Upcoming(m)', e.type = "ApprovedBlockTimeout"
             PROVE  /\ e.id - 1 \in DOMAIN chain'[m]
                    /\ e.hash = SerialHash(chain'[m][e.id - 1].hash, e.raw[1])
  BY DEF TimersLinked, Follows
<1>1. Follows(m, e.id, e.hash, e.raw[1])
  BY DEF TimersLinked, Fits
<1> QED
  BY <1>1, FollowsStable

LEMMA UpcomingUntouched ==
  ASSUME NEW m \in Masters, events'[m] = events[m], timers'[m] = timers[m]
  PROVE  \A e \in Upcoming(m)' : e \in Upcoming(m)
  BY DEF Upcoming

(* Consuming an event adds none, announcing one adds that one.             *)
LEMMA UpcomingConsume ==
  ASSUME VotesOK, NEW m \in Masters, events[m] # <<>>, Consume(m)
  PROVE  \A o \in Masters : \A i \in DOMAIN events'[o] :
           \E j \in DOMAIN events[o] : events'[o][i] = events[o][j]
<1> SUFFICES ASSUME NEW o \in Masters, NEW i \in DOMAIN events'[o]
             PROVE  \E j \in DOMAIN events[o] : events'[o][i] = events[o][j]
  OBVIOUS
<1>1. CASE o # m
  BY <1>1 DEF VotesOK, Consume
<1>2. CASE o = m
  <2>1. events[m] \in Seq(Event) /\ events'[m] = Tail(events[m])
    BY DEF VotesOK, Consume
  <2>2. i + 1 \in DOMAIN events[m] /\ events'[m][i] = events[m][i + 1]
    BY <1>2, <2>1
  <2> QED
    BY <1>2, <2>2
<1> QED
  BY <1>1, <1>2

LEMMA UpcomingNotify ==
  ASSUME VotesOK, NEW m \in Masters, NEW e, Notify(m, e)
  PROVE  \A o \in Masters : \A i \in DOMAIN events'[o] :
           \/ \E j \in DOMAIN events[o] : events'[o][i] = events[o][j]
           \/ o = m /\ events'[o][i] = e
<1> SUFFICES ASSUME NEW o \in Masters, NEW i \in DOMAIN events'[o]
             PROVE  \/ \E j \in DOMAIN events[o] : events'[o][i] = events[o][j]
                    \/ o = m /\ events'[o][i] = e
  OBVIOUS
<1>1. CASE o # m
  BY <1>1 DEF VotesOK, Notify
<1>2. CASE o = m
  <2>1. events[m] \in Seq(Event) /\ events'[m] = Append(events[m], e)
    BY DEF VotesOK, Notify
  <2>2. CASE i = Len(events[m]) + 1
    BY <1>2, <2>1, <2>2
  <2>3. CASE i # Len(events[m]) + 1
    <3>1. i \in DOMAIN events[m] /\ events'[m][i] = events[m][i]
      BY <1>2, <2>1, <2>3
    <3> QED
      BY <1>2, <3>1
  <2> QED
    BY <2>2, <2>3
<1> QED
  BY <1>1, <1>2

-----------------------------------------------------------------------------
(* Every action keeps the chain and what is in flight.                     *)
Linked == ChainLinked /\ InFlightLinked

(* An action on one task that touches neither votes nor channels.          *)
LEMMA TaskLinked ==
  ASSUME IInv, NEW r \in Requests, Submit(r) \/ TaskStep(r)
  PROVE  Linked'
<1>1. ChainLinked' /\ Extends
  <2>1. CASE AddBlock(r)
    <3>1. Home[r] \in Masters /\ task[r].id \in Nat
      BY ConstantsAssumption DEF IInv, TypeOK, TaskOK
    <3>2. Follows(Home[r], task[r].id, task[r].fin, Body[r])
      BY <2>1 DEF IInv, InFlightLinked, TasksLinked, Announced, AddBlock
    <3>3. CASE AddNew(Home[r], task[r].id, Row(task[r].fin, Body[r]))
      BY <3>1, <3>2, <3>3, AddLinks DEF IInv
    <3>4. CASE UNCHANGED chain
      BY <3>4, ChainUntouched DEF IInv
    <3> QED
      BY <2>1, <3>3, <3>4 DEF AddBlock, AddNewFails
  <2>2. CASE ~AddBlock(r)
    <3>1. UNCHANGED chain
      BY <2>2 DEF Submit, TaskStep, ReadTip, Publish, PushPending, EndVote, OrderVote,
                  PushApproved, EndBallot, Interpret
    <3> QED
      BY <3>1, ChainUntouched DEF IInv
  <2> QED
    BY <2>1, <2>2
<1>2. \A s \in Requests : Kept(s) \/ Renewed(s)
  <2> USE DEF Announced
  <2>1. TaskOK
    BY DEF IInv, TypeOK
  <2>2. CASE Submit(r)
    BY <2>1, <2>2, MoveKeeps DEF Submit
  <2>3. CASE ReadTip(r)
    BY <2>1, <2>3, MoveKeeps, NextBlockRenews DEF ReadTip
  <2>4. CASE Publish(r)
    BY <2>1, <2>4, MoveKeeps DEF Publish
  <2>5. CASE PushPending(r)
    BY <2>1, <2>5, MoveKeeps DEF PushPending
  <2>6. CASE EndVote(r)
    <3>1. CASE Answer(r, "Rejected", "refused")
      BY <2>1, <3>1, MoveKeeps
    <3>2. CASE task' = [task EXCEPT ![r].pc = "order", ![r].retry = 0]
      BY <2>1, <3>2 DEF TaskOK, Kept
    <3> QED
      BY <2>6, <3>1, <3>2 DEF EndVote
  <2>7. CASE OrderVote(r)
    BY <2>1, <2>7, MoveKeeps, NextBlockRenews DEF OrderVote
  <2>8. CASE PushApproved(r)
    BY <2>1, <2>8, MoveKeeps DEF PushApproved
  <2>9. CASE EndBallot(r)
    BY <2>1, <2>9, MoveKeeps DEF EndBallot
  <2>10. CASE AddBlock(r)
    BY <2>1, <2>10, MoveKeeps DEF AddBlock
  <2>11. CASE Interpret(r)
    BY <2>1, <2>11, MoveKeeps DEF Interpret
  <2> QED
    BY <2>2, <2>3, <2>4, <2>5, <2>6, <2>7, <2>8, <2>9, <2>10, <2>11 DEF TaskStep
<1>3. TasksLinked'
  BY <1>1, <1>2, TasksStable DEF IInv, InFlightLinked
<1>4. UNCHANGED <<events, timers>>
  BY DEF Submit, TaskStep, ReadTip, Publish, PushPending, EndVote, OrderVote,
         PushApproved, EndBallot, AddBlock, Interpret, voteVars
<1>5. \A m \in Masters : \A e \in Upcoming(m)' : e \in Upcoming(m)
  BY <1>4 DEF Upcoming
<1>6. TimersLinked'
  BY <1>1, <1>5, TimersStable DEF IInv, InFlightLinked
<1> QED
  BY <1>1, <1>3, <1>6 DEF Linked, InFlightLinked

(* Receiving puts no timeout into a channel: gossip carries none.          *)
LEMMA ReceiveLinked ==
  ASSUME IInv, NEW c \in net, Receive(c)
  PROVE  Linked'
<1>1. UNCHANGED <<task, chain, timers>>
  BY DEF Receive, ReceiveIgnored, ReceiveNotice, ReceiveValidBlock, ReceiveBadBlock, voteVars
<1>2. ChainLinked' /\ Extends
  BY <1>1, ChainUntouched DEF IInv
<1>3. TasksLinked'
  BY <1>1, <1>2, TaskUntouched, TasksStable DEF IInv, InFlightLinked
<1>4. \/ UNCHANGED events
      \/ \E e : Notify(c.to, e) /\ e.type # "ApprovedBlockTimeout"
  <2>1. c.data \in Message
    BY CopyType DEF IInv, TypeOK
  <2>2. c.data.type # "ApprovedBlockTimeout"
    BY <2>1 DEF Message
  <2>3. NewBlock(c.data.hash).type # "ApprovedBlockTimeout"
    BY DEF NewBlock
  <2>4. UNCHANGED events \/ Notify(c.to, c.data) \/ Notify(c.to, NewBlock(c.data.hash))
    BY DEF Receive, ReceiveIgnored, ReceiveNotice, ReceiveValidBlock, ReceiveBadBlock, voteVars
  <2> QED
    BY <2>2, <2>3, <2>4
<1>5. \A m \in Masters : \A e \in Upcoming(m)' : e \in Upcoming(m) \/ Fits(m, e)
  <2>1. CASE UNCHANGED events
    BY <1>1, <2>1 DEF Upcoming
  <2>2. CASE \E e : Notify(c.to, e) /\ e.type # "ApprovedBlockTimeout"
    <3>1. PICK n : Notify(c.to, n) /\ n.type # "ApprovedBlockTimeout"
      BY <2>2
    <3>2. c.to \in Masters
      BY CopyType DEF IInv, TypeOK
    <3>3. \A m \in Masters : \A i \in DOMAIN events'[m] :
            events'[m][i] \in Upcoming(m) \/ events'[m][i] = n
      BY <3>1, <3>2, UpcomingNotify DEF IInv, TypeOK, Upcoming
    <3> QED
      BY <1>1, <3>1, <3>3 DEF Upcoming, Fits
  <2> QED
    BY <1>4, <2>1, <2>2
<1>6. TimersLinked'
  BY <1>2, <1>5, TimersStable DEF IInv, InFlightLinked
<1> QED
  BY <1>2, <1>3, <1>6 DEF Linked, InFlightLinked

(* A timer starts only for a block that would be the master's next, and    *)
(* only what such a timer announced is inserted.                           *)
LEMMA HandleLinked ==
  ASSUME IInv, NEW m \in Masters, Handle(m)
  PROVE  Linked'
<1> DEFINE e == Head(events[m])
<1> USE DEF Handle
<1>1. /\ events[m] # <<>> /\ Consume(m) /\ UNCHANGED task
      /\ e \in Event /\ e \in Upcoming(m)
  <2>1. events[m] # <<>> /\ Consume(m) /\ UNCHANGED task
    BY DEF HandleVote, HandleSerialVote, HandleNewBlock, HandleArchiveBlock,
           HandlePendingTimeout, HandleApprovedTimeout, Arrived
  <2>2. events[m] \in Seq(Event)
    BY DEF IInv, TypeOK, VotesOK
  <2>3. 1 \in DOMAIN events[m] /\ e = events[m][1] /\ e \in Event
    BY <2>1, <2>2
  <2> QED
    BY <2>1, <2>3 DEF Upcoming
<1>2. ChainLinked' /\ Extends
  <2>1. CASE HandleApprovedTimeout(m)
    <3>1. e.type = "ApprovedBlockTimeout"
      BY <2>1 DEF HandleApprovedTimeout, Arrived
    <3>2. e.id \in Nat
      BY <1>1, <3>1, EventFields
    <3>3. Follows(m, e.id, e.hash, e.raw[1])
      BY <1>1, <3>1 DEF IInv, InFlightLinked, TimersLinked
    <3>4. CASE AddNew(m, e.id, Row(e.hash, e.raw[1]))
      BY <3>2, <3>3, <3>4, AddLinks DEF IInv
    <3>5. CASE UNCHANGED chain
      BY <3>5, ChainUntouched DEF IInv
    <3> QED
      BY <2>1, <3>4, <3>5 DEF HandleApprovedTimeout, AddNewFails
  <2>2. CASE ~HandleApprovedTimeout(m)
    <3>1. UNCHANGED chain
      BY <2>2 DEF HandleVote, HandleSerialVote, HandleNewBlock, HandleArchiveBlock,
                  HandlePendingTimeout
    <3> QED
      BY <3>1, ChainUntouched DEF IInv
  <2> QED
    BY <2>1, <2>2
<1>3. TasksLinked'
  BY <1>1, <1>2, TaskUntouched, TasksStable DEF IInv, InFlightLinked
<1>4. \A o \in Masters : \A t \in timers'[o] : t \in timers[o] \/ Fits(o, t)
  <2>1. CASE HandleNewBlock(m)
    <3>1. PendingBlockTimeout(e.hash).type # "ApprovedBlockTimeout"
      BY DEF PendingBlockTimeout
    <3> QED
      BY <2>1, <3>1 DEF IInv, TypeOK, VotesOK, HandleNewBlock, StartTimer, Fits
  <2>2. CASE HandleArchiveBlock(m)
    <3> DEFINE t == ApprovedBlockTimeout(e.id, e.serial, e.hash)
    <3>1. e.hash[1] \in AllBodies
      BY <1>1, EventFields, HashTypes
    <3>2. Agrees(m, e) => Fits(m, t)
      BY <3>1, NextFollows DEF IInv, Agrees, Fits, ApprovedBlockTimeout
    <3>3. UNCHANGED timers \/ (Agrees(m, e) /\ StartTimer(m, t))
      BY <2>2 DEF HandleArchiveBlock
    <3> HIDE DEF t
    <3> QED
      BY <3>2, <3>3 DEF IInv, TypeOK, VotesOK, StartTimer
  <2>3. CASE UNCHANGED timers
    BY <2>3
  <2> QED
    BY <2>1, <2>2, <2>3 DEF HandleVote, HandleSerialVote, HandlePendingTimeout,
                            HandleApprovedTimeout
<1>5. \A o \in Masters : \A t \in Upcoming(o)' : t \in Upcoming(o) \/ Fits(o, t)
  <2>1. \A o \in Masters : \A i \in DOMAIN events'[o] : events'[o][i] \in Upcoming(o)
    BY <1>1, UpcomingConsume DEF IInv, TypeOK, Upcoming
  <2> QED
    BY <1>4, <2>1 DEF Upcoming
<1>6. TimersLinked'
  BY <1>2, <1>5, TimersStable DEF IInv, InFlightLinked
<1> QED
  BY <1>2, <1>3, <1>6 DEF Linked, InFlightLinked

LEMMA TimerFiresLinked ==
  ASSUME IInv, NEW m \in Masters, TimerFires(m)
  PROVE  Linked'
<1>1. UNCHANGED <<task, chain>>
  BY DEF TimerFires
<1>2. ChainLinked' /\ Extends
  BY <1>1, ChainUntouched DEF IInv
<1>3. TasksLinked'
  BY <1>1, <1>2, TaskUntouched, TasksStable DEF IInv, InFlightLinked
<1>4. PICK t \in timers[m] : timers' = [timers EXCEPT ![m] = @ \ {t}] /\ Notify(m, t)
  BY DEF TimerFires
<1>5. \A o \in Masters : \A i \in DOMAIN events'[o] : events'[o][i] \in Upcoming(o)
  BY <1>4, UpcomingNotify DEF IInv, TypeOK, Upcoming
<1>6. \A o \in Masters : timers'[o] \subseteq timers[o]
  BY <1>4 DEF IInv, TypeOK, VotesOK
<1>7. \A o \in Masters : \A e \in Upcoming(o)' : e \in Upcoming(o)
  BY <1>5, <1>6 DEF Upcoming
<1>8. TimersLinked'
  BY <1>2, <1>7, TimersStable DEF IInv, InFlightLinked
<1> QED
  BY <1>2, <1>3, <1>8 DEF Linked, InFlightLinked

(* A crash takes tasks, timers and channels, never a row.                  *)
LEMMA CrashLinked ==
  ASSUME IInv, NEW m \in Masters, Crash(m)
  PROVE  Linked'
<1>1. ChainLinked' /\ Extends
  BY ChainUntouched DEF IInv, Crash
<1>2. \A r \in Requests : Kept(r)
  BY DEF IInv, TypeOK, TaskOK, Crash, Kept, Announced, Running
<1>3. TasksLinked'
  BY <1>1, <1>2, TasksStable DEF IInv, InFlightLinked
<1>4. \A o \in Masters : \A e \in Upcoming(o)' : e \in Upcoming(o)
  BY DEF IInv, TypeOK, VotesOK, Crash, Upcoming
<1>5. TimersLinked'
  BY <1>1, <1>4, TimersStable DEF IInv, InFlightLinked
<1> QED
  BY <1>1, <1>3, <1>5 DEF Linked, InFlightLinked

-----------------------------------------------------------------------------
(* The inductive invariant.                                                *)
LEMMA InitInv ==
  ASSUME Init
  PROVE  IInv
<1>1. RawHash(GenesisBody) \in Hashes
  BY HashTypes DEF AllBodies
<1>2. TaskOK
  BY <1>1, ConstantsAssumption DEF Init, TaskOK, NewTask, Steps, Replies
<1>3. \A m \in Masters : /\ DOMAIN chain[m] = 0 .. 0
                         /\ chain[m][0] = Row(RawHash(GenesisBody), GenesisBody)
  BY DEF Init
<1>4. StoreOK
  <2>1. Row(RawHash(GenesisBody), GenesisBody) \in [hash : Hashes, body : Bodies \cup {GenesisBody}]
    BY <1>1 DEF Row
  <2>2. <<0>> \in Seq(Nat)
    OBVIOUS
  <2>3. tables \in [Masters -> Seq(Nat)]
    BY <2>2 DEF Init
  <2>4. DOMAIN chain = Masters
    BY DEF Init
  <2> QED
    BY <1>3, <2>1, <2>3, <2>4 DEF StoreOK
<1>5. VotesOK
  BY DEF Init, VotesOK
<1>6. GossipOK
  BY ConstantsAssumption DEF Init, GossipOK
<1>7. crashes \in 0 .. MaxCrashes
  BY ConstantsAssumption DEF Init
<1>8. \A m \in Masters : Tip(m) = 0
  BY <1>3, LastIdIs DEF Tip
<1>9. ChainLinked
  <2> SUFFICES ASSUME NEW m \in Masters
               PROVE  /\ Tip(m) \in Nat /\ DOMAIN chain[m] = 0 .. Tip(m)
                      /\ chain[m][0] = Row(RawHash(GenesisBody), GenesisBody)
                      /\ \A id \in 1 .. Tip(m) :
                           Follows(m, id, chain[m][id].hash, chain[m][id].body)
    BY DEF ChainLinked
  <2>1. Tip(m) = 0
    BY <1>8
  <2>2. 1 .. 0 = {}
    OBVIOUS
  <2> QED
    BY <1>3, <2>1, <2>2
<1>10. TasksLinked
  BY DEF Init, NewTask, TasksLinked, Announced
<1>11. TimersLinked
  BY DEF Init, TimersLinked, Upcoming
<1> QED
  BY <1>2, <1>4, <1>5, <1>6, <1>7, <1>9, <1>10, <1>11 DEF IInv, TypeOK, InFlightLinked

LEMMA NextInv ==
  ASSUME IInv, [Next]_vars
  PROVE  IInv'
<1>1. TypeOK /\ ChainLinked
  BY DEF IInv
<1>2. ASSUME NEW r \in Requests, Submit(r) \/ TaskStep(r)
      PROVE  IInv'
  <2>1. TypeOK'
    BY <1>1, <1>2, SubmitType, ReadTipType, PublishType, PushPendingType, EndVoteType,
       OrderVoteType, PushApprovedType, EndBallotType, AddBlockType, InterpretType
       DEF TaskStep
  <2> QED
    BY <1>2, <2>1, TaskLinked DEF IInv, Linked
<1>3. ASSUME NEW c \in net, Receive(c)
      PROVE  IInv'
  BY <1>1, <1>3, ReceiveType, ReceiveLinked DEF IInv, Linked
<1>4. ASSUME NEW m \in Masters, Handle(m)
      PROVE  IInv'
  BY <1>1, <1>4, HandleType, HandleLinked DEF IInv, Linked
<1>5. ASSUME NEW m \in Masters, TimerFires(m)
      PROVE  IInv'
  BY <1>1, <1>5, TimerFiresType, TimerFiresLinked DEF IInv, Linked
<1>6. ASSUME NEW m \in Masters, Crash(m)
      PROVE  IInv'
  BY <1>1, <1>6, CrashType, CrashLinked DEF IInv, Linked
<1>7. CASE UNCHANGED vars
  <2>1. UNCHANGED <<task, reply>> /\ UNCHANGED <<chain, tables>> /\ UNCHANGED voteVars
        /\ UNCHANGED gossipVars /\ UNCHANGED crashes
    BY <1>7 DEF vars
  <2>2. TypeOK'
    BY <1>1, <2>1, UntouchedType DEF TypeOK
  <2>3. ChainLinked' /\ Extends
    BY <1>1, <2>1, ChainUntouched
  <2>4. TasksLinked'
    BY <1>1, <2>1, <2>3, TaskUntouched, TasksStable DEF IInv, InFlightLinked
  <2>5. \A m \in Masters : \A e \in Upcoming(m)' : e \in Upcoming(m)
    BY <2>1 DEF Upcoming, voteVars
  <2>6. TimersLinked'
    BY <2>3, <2>5, TimersStable DEF IInv, InFlightLinked
  <2> QED
    BY <2>2, <2>3, <2>4, <2>6 DEF IInv, InFlightLinked
<1> QED
  BY <1>2, <1>3, <1>4, <1>5, <1>6, <1>7 DEF Next

THEOREM Invariant == Spec => []IInv
<1>1. Init => IInv
  BY InitInv
<1>2. IInv /\ [Next]_vars => IInv'
  BY NextInv
<1> QED
  BY <1>1, <1>2, PTL DEF Spec

(***************************************************************************)
(* Every part of a master's state has its type, whatever the votes, peers, *)
(* crashes and database failures.                                          *)
(***************************************************************************)
THEOREM TypeCorrect == Spec => []TypeOK
<1>1. IInv => TypeOK
  BY DEF IInv
<1> QED
  BY <1>1, Invariant, PTL

(***************************************************************************)
(* The table of blocks of every master is a chain without gaps in which    *)
(* every serial hash is that of the block before and the block's order     *)
(* (activity.rs 647-690 and 398-402), for any number of masters and of     *)
(* concurrent orders.                                                      *)
(***************************************************************************)
THEOREM ChainAlwaysLinked == Spec => []ChainLinked
<1>1. IInv => ChainLinked
  BY DEF IInv
<1> QED
  BY <1>1, Invariant, PTL

(***************************************************************************)
(* What a task or a voter's timer will try to insert always continues a    *)
(* block its master has stored, although both computed it from a tip read  *)
(* before the votes were awaited.                                          *)
(***************************************************************************)
THEOREM InFlightAlwaysLinked == Spec => []InFlightLinked
<1>1. IInv => InFlightLinked
  BY DEF IInv
<1> QED
  BY <1>1, Invariant, PTL
=============================================================================
