---------------------------- MODULE MasterOrders ----------------------------
(***************************************************************************)
(* The path of an order through the master nodes                           *)
(* (nyumt-node/src/master/activity.rs and net_behavior.rs): the task the   *)
(* sync loop spawns for every client request, the two ballots it holds     *)
(* over gossipsub, the table of blocks it ends in, and what the other      *)
(* masters do with the blocks and votes they hear of.                      *)
(*                                                                         *)
(* A hash is the sequence of what was hashed: the raw hash of an order is  *)
(* <<b>>, and the serial hash H(previous hash, order) is the previous hash *)
(* with the order appended.  Two hashes are equal exactly when their       *)
(* inputs are, which is what the code relies on SHA-256 for.               *)
(*                                                                         *)
(* The vectors pending_blocks and approved_blocks are sets of entries: the *)
(* code adds to them, updates all entries of a hash and removes all of a   *)
(* hash or an id; where it takes the first entry of a hash the model takes *)
(* any.  The voter count of an entry is left out: the loop that reads it   *)
(* (await_votes) breaks out of the inner for only, so nothing depends on   *)
(* it.  Time is left out: a ballot may end at any moment.                  *)
(***************************************************************************)
EXTENDS Naturals, Sequences, FiniteSets

CONSTANTS
  Masters,            (* the master nodes, all of them in every node table *)
  Requests,           (* the orders clients may send                       *)
  Home,               (* Home[r]: the master whose client sends r          *)
  Body,               (* Body[r]: its contents (requests, signature, time) *)
  GenesisBody,        (* contents of the block every chain starts with     *)
  MaxRetries,         (* block_push_retries                                *)
  Authentic,          (* outcomes of the check of a gossip message's id    *)
  Valid,              (* outcomes of a voter's check of a block            *)
  CacheOutlivesVote,  (* gossipsub remembers a message past the vote time  *)
  DbFaults,           (* reads and writes of the database may fail         *)
  MaxCrashes,         (* bound on the crashes of all masters together      *)
  MaxReceipts         (* bound on the gossip messages that arrive at all   *)

ASSUME ConstantsAssumption ==
  /\ Home \in [Requests -> Masters]
  /\ GenesisBody \notin {Body[r] : r \in Requests}
  /\ MaxRetries \in Nat /\ MaxCrashes \in Nat /\ MaxReceipts \in Nat
  /\ Authentic \subseteq BOOLEAN /\ Valid \subseteq BOOLEAN
  /\ CacheOutlivesVote \in BOOLEAN /\ DbFaults \in BOOLEAN

VARIABLES
  task,       (* request -> the task sync spawned for it                   *)
  reply,      (* request -> the RequestStatus sent on its oneshot channel  *)
  chain,      (* master  -> table `order`: block id -> its hash and order  *)
  tables,     (* master  -> ids of the blocks interpret_block has applied  *)
  pending,    (* master  -> SwarmSettings.pending_blocks                   *)
  approved,   (* master  -> SwarmSettings.approved_blocks                  *)
  known,      (* master  -> keys of handle_incoming_data's approved_blocks *)
  events,     (* master  -> the NetEvent channel                           *)
  timers,     (* master  -> events its await_votes_tx tasks will send      *)
  net,        (* copies of gossip messages under way                       *)
  seen,       (* master  -> gossipsub's duplicate cache                    *)
  receipts,   (* gossip messages that arrived so far                       *)
  crashes     (* crashes so far                                            *)

voteVars == <<pending, approved, known, events, timers>>
gossipVars == <<net, seen, receipts>>
vars == <<task, reply, chain, tables, voteVars, gossipVars, crashes>>

Bodies == {Body[r] : r \in Requests}
Hashes == Seq(Bodies \cup {GenesisBody}) \ {<<>>}

RawHash(b) == <<b>>
SerialHash(h, b) == Append(h, b)

Replies == {"none", "Ok", "Rejected", "ReqError", "NodeError"}
Steps == {"idle", "read", "publish", "push", "vote", "order", "record", "ballot",
          "add", "interpret", "done", "refused", "lost", "dead"}
Votes == {"Ok", "No"}

(* NetData, the messages masters gossip.                                   *)
BlockMsg(b)           == [type |-> "Block", hash |-> RawHash(b)]
VoteMsg(h, v)         == [type |-> "Vote", hash |-> h, vote |-> v]
ArchiveMsg(h, s, id)  == [type |-> "ArchiveBlock", hash |-> h, serial |-> s, id |-> id]
SerialMsg(id, h, v)   == [type |-> "SerialVote", id |-> id, hash |-> h, vote |-> v]

Message ==
  [type : {"Block"}, hash : Hashes]
    \cup [type : {"Vote"}, hash : Hashes, vote : Votes]
    \cup [type : {"ArchiveBlock"}, hash : Hashes, serial : Hashes, id : Nat]
    \cup [type : {"SerialVote"}, id : Nat, hash : Hashes, vote : Votes]

(* NetEvent, what the handler of incoming data consumes besides messages.  *)
NewBlock(h)                  == [type |-> "NewBlock", hash |-> h]
PendingBlockTimeout(h)       == [type |-> "PendingBlockTimeout", hash |-> h]
ApprovedBlockTimeout(id, h, raw) ==
  [type |-> "ApprovedBlockTimeout", id |-> id, hash |-> h, raw |-> raw]

Timeout ==
  [type : {"PendingBlockTimeout"}, hash : Hashes]
    \cup [type : {"ApprovedBlockTimeout"}, id : Nat, hash : Hashes, raw : Hashes]
Event == Message \cup [type : {"NewBlock"}, hash : Hashes] \cup Timeout

Entry         == [hash : Hashes, ok : Nat, no : Nat]
ApprovedEntry == [id : Nat, hash : Hashes, ok : Nat, no : Nat]

(***************************************************************************)
(* Type invariant TypeOK: every part of the state has the shape the Rust   *)
(* types give it (SwarmSettings, NetEvent, NetData and the tables).        *)
(***************************************************************************)
TaskOK ==
  /\ task \in [Requests -> [pc : Steps, retry : 0 .. MaxRetries, id : Nat, fin : Hashes]]
  /\ reply \in [Requests -> Replies]

StoreOK ==
  /\ DOMAIN chain = Masters
  /\ \A m \in Masters : \A id \in DOMAIN chain[m] :
       id \in Nat /\ chain[m][id] \in [hash : Hashes, body : Bodies \cup {GenesisBody}]
  /\ tables \in [Masters -> Seq(Nat)]

VotesOK ==
  /\ pending \in [Masters -> SUBSET Entry]
  /\ approved \in [Masters -> SUBSET ApprovedEntry]
  /\ known \in [Masters -> SUBSET Hashes]
  /\ events \in [Masters -> Seq(Event)]
  /\ timers \in [Masters -> SUBSET Timeout]

GossipOK ==
  /\ net \subseteq [from : Masters, to : Masters, data : Message]
  /\ seen \in [Masters -> SUBSET Message]
  /\ receipts \in 0 .. MaxReceipts

TypeOK == TaskOK /\ StoreOK /\ VotesOK /\ GossipOK /\ crashes \in 0 .. MaxCrashes

-----------------------------------------------------------------------------
(* The table `order` of a master.  Its id is the primary key, so a second  *)
(* row with an id is refused; get_last_block returns the highest id.       *)
LastId(table) == CHOOSE id \in DOMAIN table : \A k \in DOMAIN table : k <= id
Tip(m) == LastId(chain[m])

NextId(m) == Tip(m) + 1

NextHash_Raw(m, b) == RawHash(b)                                  \* mutant
NextHash_Unchained(m, b) == SerialHash(RawHash(GenesisBody), b)   \* mutant
NextHash(m, b) == SerialHash(chain[m][Tip(m)].hash, b)

Row(h, b) == [hash |-> h, body |-> b]

(* mutant: an upsert instead of an insert                                  *)
AddNew_Replaces(m, id, row) ==
  chain' = [chain EXCEPT ![m] =
              [k \in DOMAIN @ \cup {id} |-> IF k = id THEN row ELSE @[k]]]

AddNew(m, id, row) ==
  /\ id \notin DOMAIN chain[m]
  /\ chain' = [chain EXCEPT ![m] =
                 [k \in DOMAIN @ \cup {id} |-> IF k = id THEN row ELSE @[k]]]

AddNewFails(m, id) ==
  /\ id \in DOMAIN chain[m] \/ DbFaults
  /\ UNCHANGED chain

-----------------------------------------------------------------------------
(* gossipsub.publish.  A message is its contents (message_id_fn), so what  *)
(* was published or received before is a duplicate, unless the cache has   *)
(* forgotten it.  Without a reachable peer nothing is sent, and any other  *)
(* error (a duplicate, a message over max_transmit_size) is final.         *)
Copies(m, data) == {[from |-> m, to |-> n, data |-> data] : n \in Masters \ {m}}

(* A receiver drops what it has seen: only copies that may still have an   *)
(* effect are kept under way.                                              *)
Dropped_BySource(c, cache) == FALSE   \* mutant: the sender is part of the id
Dropped(c, cache) == c.data \in cache[c.to] /\ CacheOutlivesVote

Underway(copies, cache) == {c \in copies : ~Dropped(c, cache)}

CanPublish(m, data) ==
  /\ Masters # {m}
  /\ data \notin seen[m] \/ ~CacheOutlivesVote

InsufficientPeers(m, data) == data \notin seen[m] \/ ~CacheOutlivesVote

Gossip(m, msgs) ==
  /\ seen' = [seen EXCEPT ![m] = @ \cup msgs]
  /\ net'  = Underway(net \cup UNION {Copies(m, d) : d \in msgs}, seen')
  /\ UNCHANGED receipts

(* Whatever of msgs the network takes: errors are logged and dropped.      *)
GossipSome(m, msgs) ==
  \E taken \in SUBSET {d \in msgs : CanPublish(m, d)} : Gossip(m, taken)

-----------------------------------------------------------------------------
(* Ballots.                                                                *)
Count(e, v) == IF v = "Ok" THEN [e EXCEPT !.ok = @ + 1] ELSE [e EXCEPT !.no = @ + 1]

OfHash(entries, h) == {e \in entries : e.hash = h}

Voted(entries, ballot, v) ==
  {IF e \in ballot THEN Count(e, v) ELSE e : e \in entries}

(* The tests for a majority of a proposer's ballot and of a voter's.       *)
Outvoted(e) == e.no > e.ok

Quorum_Unopposed(ballot) == \A e \in ballot : e.no < e.ok   \* mutant
Quorum(ballot) == \E e \in ballot : e.no < e.ok

-----------------------------------------------------------------------------
(* The task of request r: its step and what it remembers.  id and fin are  *)
(* the height and the serial hash its block would get: height + 1 and      *)
(* H(last hash, order), from the last block as it was when it was read.    *)
Goto(r, pc) == task' = [task EXCEPT ![r].pc = pc]

Retry_Forever(r, pc) == task' = [task EXCEPT ![r].pc = pc, ![r].retry = @ + 1]   \* mutant
Retry(r, pc) ==
  /\ task[r].retry < MaxRetries
  /\ task' = [task EXCEPT ![r].pc = pc, ![r].retry = @ + 1]

GiveUp(r) == task[r].retry >= MaxRetries

Answer(r, status, pc) ==
  /\ reply' = [reply EXCEPT ![r] = status]
  /\ Goto(r, pc)

NextBlock(r, pc) ==
  task' = [task EXCEPT ![r] = [pc |-> pc, retry |-> @.retry, id |-> NextId(Home[r]),
                               fin |-> NextHash(Home[r], Body[r])]]

(* A client's order, verified by master_serve, enters the request channel  *)
(* and sync spawns a task for it.                                          *)
Submit(r) ==
  /\ task[r].pc = "idle"
  /\ Goto(r, "read")
  /\ UNCHANGED <<reply, chain, tables, voteVars, gossipVars, crashes>>

ReadTip(r) ==
  /\ task[r].pc = "read"
  /\ \/ NextBlock(r, "publish") /\ UNCHANGED reply
     \/ DbFaults /\ Answer(r, "NodeError", "refused")
  /\ UNCHANGED <<chain, tables, voteVars, gossipVars, crashes>>

(* publish: the block goes out; or no peer is reachable, which a lone      *)
(* master takes for consent and others retry; or the publication fails.    *)
Publish(r) ==
  LET m == Home[r]
      block == BlockMsg(Body[r])
  IN /\ task[r].pc = "publish"
     /\ \/ /\ CanPublish(m, block)
           /\ Gossip(m, {block})
           /\ Goto(r, "push")
           /\ UNCHANGED reply
        \/ /\ InsufficientPeers(m, block)
           /\ IF Masters = {m}
              THEN Answer(r, "Ok", "add")
              ELSE \/ Retry(r, "publish") /\ UNCHANGED reply
                   \/ GiveUp(r) /\ Answer(r, "ReqError", "refused")
           /\ UNCHANGED gossipVars
        \/ Answer(r, "ReqError", "refused") /\ UNCHANGED gossipVars
     /\ UNCHANGED <<chain, tables, voteVars, crashes>>

(* Only then is the block entered as pending: votes that came before are   *)
(* counted nowhere.                                                        *)
PushPending(r) ==
  LET m == Home[r] IN
  /\ task[r].pc = "push"
  /\ pending' = [pending EXCEPT ![m] =
                   @ \cup {[hash |-> RawHash(Body[r]), ok |-> 1, no |-> 0]}]
  /\ Goto(r, "vote")
  /\ UNCHANGED <<reply, chain, tables, approved, known, events, timers, gossipVars, crashes>>

(* await_votes returns when the vote time is over, whoever has voted.      *)
VoteOver_AllHeard(r) ==   \* mutant: no timeout around the loop
  /\ task[r].pc = "vote"
  /\ \E e \in OfHash(pending[Home[r]], RawHash(Body[r])) :
       e.ok + e.no >= Cardinality(Masters)
VoteOver(r) == task[r].pc = "vote"

(* A rejected block stays in pending_blocks.                               *)
EndVote(r) ==
  LET m == Home[r]
      ballot == OfHash(pending[m], RawHash(Body[r]))
  IN /\ VoteOver(r)
     /\ IF \E e \in ballot : Outvoted(e)
        THEN Answer(r, "Rejected", "refused") /\ UNCHANGED pending
        ELSE /\ pending' = [pending EXCEPT ![m] = @ \ ballot]
             /\ task' = [task EXCEPT ![r].pc = "order", ![r].retry = 0]
             /\ UNCHANGED reply
     /\ UNCHANGED <<chain, tables, approved, known, events, timers, gossipVars, crashes>>

(* block_order_vote: the tip is read anew and its successor put to vote.   *)
OrderVote(r) ==
  LET m == Home[r]
      archive == ArchiveMsg(RawHash(Body[r]), NextHash(m, Body[r]), NextId(m))
  IN /\ task[r].pc = "order"
     /\ \/ /\ CanPublish(m, archive)
           /\ Gossip(m, {archive})
           /\ NextBlock(r, "record")
           /\ UNCHANGED reply
        \/ /\ InsufficientPeers(m, archive)
           /\ \/ Retry(r, "order") /\ UNCHANGED reply
              \/ GiveUp(r) /\ Answer(r, "ReqError", "refused")
           /\ UNCHANGED gossipVars
        \/ /\ \/ Answer(r, "ReqError", "refused")
              \/ DbFaults /\ Answer(r, "Rejected", "refused")
           /\ UNCHANGED gossipVars
     /\ UNCHANGED <<chain, tables, voteVars, crashes>>

PushApproved(r) ==
  LET m == Home[r] IN
  /\ task[r].pc = "record"
  /\ approved' = [approved EXCEPT ![m] =
        @ \cup {[id |-> task[r].id, hash |-> task[r].fin, ok |-> 1, no |-> 0]}]
  /\ Goto(r, "ballot")
  /\ UNCHANGED <<reply, chain, tables, pending, known, events, timers, gossipVars, crashes>>

(* The vote time is over.  Every way out but the retry removes whatever is *)
(* recorded for this id, the entries of other tasks included; a task that  *)
(* finds its entry gone reports an error.                                  *)
EndBallot(r) ==
  LET m == Home[r]
      ballot == OfHash(approved[m], task[r].fin)
      Settle(status, pc) ==
        /\ Answer(r, status, pc)
        /\ approved' = [approved EXCEPT ![m] = {e \in @ : e.id # task[r].id}]
  IN /\ task[r].pc = "ballot"
     /\ \/ ballot = {} /\ Settle("ReqError", "refused")
        \/ \E e \in ballot :
             \/ ~Outvoted(e) /\ Settle("Ok", "add")
             \/ Outvoted(e) /\ GiveUp(r) /\ Settle("Rejected", "refused")
             \/ Outvoted(e) /\ Retry(r, "order") /\ UNCHANGED <<reply, approved>>
     /\ UNCHANGED <<chain, tables, pending, known, events, timers, gossipVars, crashes>>

(* The client has its Ok; now the block is written, or lost.               *)
AddBlock(r) ==
  LET m == Home[r] IN
  /\ task[r].pc = "add"
  /\ \/ AddNew(m, task[r].id, Row(task[r].fin, Body[r])) /\ Goto(r, "interpret")
     \/ AddNewFails(m, task[r].id) /\ Goto(r, "lost")
  /\ UNCHANGED <<reply, tables, voteVars, gossipVars, crashes>>

(* interpret_block applies the order in one transaction, or rolls it back. *)
Interpret(r) ==
  LET m == Home[r] IN
  /\ task[r].pc = "interpret"
  /\ \/ tables' = [tables EXCEPT ![m] = Append(@, task[r].id)]
     \/ UNCHANGED tables
  /\ Goto(r, "done")
  /\ UNCHANGED <<reply, chain, voteVars, gossipVars, crashes>>

TaskStep(r) ==
  \/ ReadTip(r) \/ Publish(r) \/ PushPending(r) \/ EndVote(r)
  \/ OrderVote(r) \/ PushApproved(r) \/ EndBallot(r)
  \/ AddBlock(r) \/ Interpret(r)

-----------------------------------------------------------------------------
(* What the swarm loop does with a copy of a gossip message.               *)
Fresh(c) == ~Dropped(c, seen)

Take(c, votes) ==
  /\ receipts < MaxReceipts
  /\ receipts' = receipts + 1
  /\ seen' = [seen EXCEPT ![c.to] = @ \cup {c.data} \cup votes]
  /\ net'  = Underway((net \ {c}) \cup UNION {Copies(c.to, v) : v \in votes}, seen')

Notify(m, event) == events' = [events EXCEPT ![m] = Append(@, event)]

(* A duplicate, or a message whose id does not pass as its signature.      *)
ReceiveIgnored(c) ==
  /\ c.data \in seen[c.to] \/ FALSE \in Authentic
  /\ Take(c, {})
  /\ UNCHANGED <<task, reply, chain, tables, voteVars, crashes>>

(* Votes and requests for a serial vote go to the handler's channel.       *)
ReceiveNotice(c) ==
  /\ c.data.type # "Block"
  /\ Fresh(c) /\ TRUE \in Authentic
  /\ Notify(c.to, c.data)
  /\ Take(c, {})
  /\ UNCHANGED <<task, reply, chain, tables, pending, approved, known, timers, crashes>>

(* A block found valid: entered with this master's vote, voted for, and    *)
(* passed to the handler.  It takes a published vote to get there.         *)
ReceiveValidBlock(c) ==
  LET m    == c.to
      h    == c.data.hash
      with == pending[m] \cup {[hash |-> h, ok |-> 0, no |-> 0]}
      vote == VoteMsg(h, "Ok")
  IN /\ c.data.type = "Block"
     /\ Fresh(c) /\ TRUE \in Authentic /\ TRUE \in Valid
     /\ CanPublish(m, vote)
     /\ pending' = [pending EXCEPT ![m] = Voted(with, OfHash(with, h), "Ok")]
     /\ Notify(m, NewBlock(h))
     /\ Take(c, {vote})
     /\ UNCHANGED <<task, reply, chain, tables, approved, known, timers, crashes>>

(* A block found invalid, or one whose Ok vote could not be published (all *)
(* of vote_push_retries attempts run without a pause): the master votes No *)
(* and drops every pending entry of the hash.                              *)
ReceiveBadBlock(c) ==
  LET m == c.to
      h == c.data.hash
      vote == VoteMsg(h, "No")
  IN /\ c.data.type = "Block"
     /\ Fresh(c) /\ TRUE \in Authentic
     /\ pending' = [pending EXCEPT ![m] = @ \ OfHash(@, h)]
     /\ \E votes \in SUBSET {vote} :
          /\ \A v \in votes : CanPublish(m, v)
          /\ Take(c, votes)
     /\ UNCHANGED <<task, reply, chain, tables, approved, known, events, timers, crashes>>

Receive(c) ==
  ReceiveIgnored(c) \/ ReceiveNotice(c) \/ ReceiveValidBlock(c) \/ ReceiveBadBlock(c)

-----------------------------------------------------------------------------
(* handle_incoming_data, one event at a time.                              *)
Arrived(m, type) == events[m] # <<>> /\ Head(events[m]).type = type

Consume(m) == events' = [events EXCEPT ![m] = Tail(@)]

StartTimer_Never(m, timeout) == UNCHANGED timers   \* mutant
StartTimer(m, timeout) == timers' = [timers EXCEPT ![m] = @ \cup {timeout}]

HandleVote(m) ==
  LET e == Head(events[m]) IN
  /\ Arrived(m, "Vote")
  /\ Consume(m)
  /\ pending' = [pending EXCEPT ![m] = Voted(@, OfHash(@, e.hash), e.vote)]
  /\ UNCHANGED <<task, reply, chain, tables, approved, known, timers, gossipVars, crashes>>

HandleSerialVote(m) ==
  LET e == Head(events[m])
      ballot == {a \in OfHash(approved[m], e.hash) : a.id = e.id}
  IN /\ Arrived(m, "SerialVote")
     /\ Consume(m)
     /\ approved' = [approved EXCEPT ![m] = Voted(@, ballot, e.vote)]
     /\ UNCHANGED <<task, reply, chain, tables, pending, known, timers, gossipVars, crashes>>

HandleNewBlock(m) ==
  LET e == Head(events[m]) IN
  /\ Arrived(m, "NewBlock")
  /\ Consume(m)
  /\ StartTimer(m, PendingBlockTimeout(e.hash))
  /\ known' = [known EXCEPT ![m] = @ \cup {e.hash}]
  /\ UNCHANGED <<task, reply, chain, tables, pending, approved, gossipVars, crashes>>

Agrees_Blindly(m, e) == e.hash \in known[m]   \* mutant
Agrees(m, e) ==
  /\ e.hash \in known[m]
  /\ e.serial = NextHash(m, e.hash[1])
  /\ e.id = NextId(m)

(* A request to place a known block: voted for when it would be this       *)
(* master's next block too.  Either way the handler goes on to vote No,    *)
(* and it names the raw hash there, which no ballot is held under.         *)
HandleArchiveBlock(m) ==
  LET e       == Head(events[m])
      against == SerialMsg(e.id, e.hash, "No")
  IN /\ Arrived(m, "ArchiveBlock")
     /\ Consume(m)
     /\ \/ /\ Agrees(m, e)
           /\ StartTimer(m, ApprovedBlockTimeout(e.id, e.serial, e.hash))
           /\ GossipSome(m, {SerialMsg(e.id, e.serial, "Ok"), against})
        \/ /\ ~Agrees(m, e)
           /\ UNCHANGED timers
           /\ GossipSome(m, {against})
        \/ /\ DbFaults /\ e.hash \in known[m]
           /\ UNCHANGED <<timers, gossipVars>>
     /\ UNCHANGED <<task, reply, chain, tables, pending, approved, known, crashes>>

HandlePendingTimeout(m) ==
  LET h == Head(events[m]).hash
      ballot == OfHash(pending[m], h)
  IN /\ Arrived(m, "PendingBlockTimeout")
     /\ Consume(m)
     /\ \/ /\ \E e \in ballot : Outvoted(e)
           /\ known' = [known EXCEPT ![m] = @ \ {h}]
        \/ /\ ballot = {} \/ \E e \in ballot : ~Outvoted(e)
           /\ UNCHANGED known
     /\ pending' = [pending EXCEPT ![m] = @ \ ballot]
     /\ UNCHANGED <<task, reply, chain, tables, approved, timers, gossipVars, crashes>>

(* A voter stores the block if it finds an entry of its serial hash with a *)
(* majority for it.  It looks in the entries only EndBallot's owner adds,  *)
(* and it then keeps those whose hash differs from the raw hash: all.      *)
HandleApprovedTimeout(m) ==
  LET e == Head(events[m])
      ballot == OfHash(approved[m], e.hash)
  IN /\ Arrived(m, "ApprovedBlockTimeout")
     /\ Consume(m)
     /\ \/ /\ e.raw \in known[m]
           /\ Quorum(ballot)
           /\ approved' = [approved EXCEPT ![m] = @ \ OfHash(@, e.raw)]
           /\ known' = [known EXCEPT ![m] = @ \ {e.raw}]
           /\ AddNew(m, e.id, Row(e.hash, e.raw[1])) \/ AddNewFails(m, e.id)
        \/ /\ e.raw \notin known[m] \/ ballot = {} \/ \E a \in ballot : a.no >= a.ok
           /\ UNCHANGED <<approved, known, chain>>
     /\ UNCHANGED <<task, reply, tables, pending, timers, gossipVars, crashes>>

Handle(m) ==
  \/ HandleVote(m) \/ HandleSerialVote(m) \/ HandleNewBlock(m)
  \/ HandleArchiveBlock(m) \/ HandlePendingTimeout(m) \/ HandleApprovedTimeout(m)

(* An await_votes_tx task's vote time is over.                             *)
TimerFires(m) ==
  \E timeout \in timers[m] :
    /\ timers' = [timers EXCEPT ![m] = @ \ {timeout}]
    /\ Notify(m, timeout)
    /\ UNCHANGED <<task, reply, chain, tables, pending, approved, known, gossipVars, crashes>>

-----------------------------------------------------------------------------
(* A master's process stops and is started again: what is in its database  *)
(* stays, its tasks, ballots, channels and caches are gone.  A block whose *)
(* order was stored but not yet applied is never applied.                  *)
Running == {"read", "publish", "push", "vote", "order", "record", "ballot", "add"}

Crash(m) ==
  /\ crashes < MaxCrashes
  /\ crashes' = crashes + 1
  /\ task' = [r \in Requests |->
                IF Home[r] # m THEN task[r]
                ELSE IF task[r].pc \in Running THEN [task[r] EXCEPT !.pc = "dead"]
                ELSE IF task[r].pc = "interpret" THEN [task[r] EXCEPT !.pc = "done"]
                ELSE task[r]]
  /\ pending'  = [pending EXCEPT ![m] = {}]
  /\ approved' = [approved EXCEPT ![m] = {}]
  /\ known'    = [known EXCEPT ![m] = {}]
  /\ events'   = [events EXCEPT ![m] = <<>>]
  /\ timers'   = [timers EXCEPT ![m] = {}]
  /\ seen'     = [seen EXCEPT ![m] = {}]
  /\ UNCHANGED <<reply, chain, tables, net, receipts>>

-----------------------------------------------------------------------------
NewTask == [pc |-> "idle", retry |-> 0, id |-> 0, fin |-> RawHash(GenesisBody)]

(* first::create wrote the genesis block and applied it; the other masters *)
(* were set up with a copy of that database.                               *)
Init ==
  /\ task     = [r \in Requests |-> NewTask]
  /\ reply    = [r \in Requests |-> "none"]
  /\ chain    = [m \in Masters |-> [id \in {0} |-> Row(RawHash(GenesisBody), GenesisBody)]]
  /\ tables   = [m \in Masters |-> <<0>>]
  /\ pending  = [m \in Masters |-> {}]
  /\ approved = [m \in Masters |-> {}]
  /\ known    = [m \in Masters |-> {}]
  /\ events   = [m \in Masters |-> <<>>]
  /\ timers   = [m \in Masters |-> {}]
  /\ net      = {}
  /\ seen     = [m \in Masters |-> {}]
  /\ receipts = 0
  /\ crashes  = 0

Next ==
  \/ \E r \in Requests : Submit(r) \/ TaskStep(r)
  \/ \E c \in net : Receive(c)
  \/ \E m \in Masters : Handle(m) \/ TimerFires(m) \/ Crash(m)

Spec == Init /\ [][Next]_vars

(***************************************************************************)
(* The runtime runs every task, the handler and every timer; messages have *)
(* no fairness, they may be lost.                                          *)
(***************************************************************************)
Fairness ==
  /\ \A r \in Requests : WF_vars(TaskStep(r))
  /\ \A m \in Masters : WF_vars(Handle(m)) /\ WF_vars(TimerFires(m))

FairSpec == Spec /\ Fairness

-----------------------------------------------------------------------------
(***************************************************************************)
(* The block an id and a hash announce is the successor of a stored block  *)
(* of m: what ReadTip and block_order_vote compute stays true of m's       *)
(* table while votes are awaited.                                          *)
(***************************************************************************)
Follows(m, id, h, b) ==
  /\ id - 1 \in DOMAIN chain[m]
  /\ h = SerialHash(chain[m][id - 1].hash, b)

(***************************************************************************)
(* The table of blocks is a chain: its ids have no gap, it starts with the *)
(* genesis block, and every hash is that of its predecessor and its order, *)
(* although sync and handle_incoming_data compute id and hash from a tip   *)
(* they read a whole vote time before they insert (activity.rs 647, 119,   *)
(* 321), and any number of tasks and the handler insert concurrently.      *)
(***************************************************************************)
ChainLinked ==
  \A m \in Masters :
    /\ Tip(m) \in Nat /\ DOMAIN chain[m] = 0 .. Tip(m)
    /\ chain[m][0] = Row(RawHash(GenesisBody), GenesisBody)
    /\ \A id \in 1 .. Tip(m) : Follows(m, id, chain[m][id].hash, chain[m][id].body)

(***************************************************************************)
(* Whatever is still to be inserted, by a task or after a voter's timeout, *)
(* continues a block that is stored: this is what makes ChainLinked        *)
(* inductive.                                                              *)
(***************************************************************************)
Announced == {"publish", "push", "vote", "record", "ballot", "add"}

TasksLinked ==
  \A r \in Requests : task[r].pc \in Announced =>
    Follows(Home[r], task[r].id, task[r].fin, Body[r])

Upcoming(m) == timers[m] \cup {events[m][i] : i \in DOMAIN events[m]}

TimersLinked ==
  \A m \in Masters : \A e \in Upcoming(m) :
    e.type = "ApprovedBlockTimeout" => Follows(m, e.id, e.hash, e.raw[1])

InFlightLinked == TasksLinked /\ TimersLinked

(***************************************************************************)
(* An order is applied to the tables at most once, and only by the task    *)
(* that stored its block: a task that lost the race for an id must not     *)
(* apply its order (the return after a failed add_new, activity.rs 692).   *)
(***************************************************************************)
AppliedOnce ==
  \A m \in Masters : \A i, j \in DOMAIN tables[m] :
    LET id == tables[m][i] IN
    /\ tables[m][j] = id => i = j
    /\ id = 0 \/ \E r \in Requests :
         /\ Home[r] = m /\ task[r].pc = "done" /\ task[r].id = id
         /\ id \in DOMAIN chain[m] /\ chain[m][id] = Row(task[r].fin, Body[r])

(***************************************************************************)
(* A master only ever stores orders its own clients sent it.  Voters ask   *)
(* approved_blocks for a quorum (activity.rs 379-391), and nothing but a   *)
(* master's own ballots is ever entered there: no block is replicated.     *)
(***************************************************************************)
OnlyOwnOrders ==
  \A m \in Masters : \A id \in DOMAIN chain[m] \ {0} :
    \E r \in Requests :
      Home[r] = m /\ Body[r] = chain[m][id].body /\ task[r].pc # "idle"

(***************************************************************************)
(* Equal votes of different masters are one message to gossipsub, so a     *)
(* ballot counts at most one vote of each kind besides its owner's, be     *)
(* there any number of masters, and a serial ballot no vote against at     *)
(* all: the test "no > ok" is out of reach of both.                        *)
(***************************************************************************)
VotesCollapse ==
  \A m \in Masters :
    /\ \A e \in pending[m] : e.ok \in 1 .. 2 /\ e.no <= 1
    /\ \A e \in approved[m] : e.ok \in 1 .. 2 /\ e.no = 0

(***************************************************************************)
(* A master votes for the place of a block only if that place is the next  *)
(* one of its own chain, and its chain still agrees when the vote arrives. *)
(***************************************************************************)
SerialVotesOwnChain ==
  \A c \in net : (c.data.type = "SerialVote" /\ c.data.vote = "Ok") =>
    \E b \in Bodies : Follows(c.from, c.data.id, c.data.hash, b)

(***************************************************************************)
(* The promise of OrderLog: the log of a master is the hash of its last    *)
(* block, which spells out all orders before it.                           *)
(***************************************************************************)
FateOf(pc) ==
  CASE pc = "idle" -> "new"
    [] pc = "add" -> "accepted"
    [] pc \in {"interpret", "done"} -> "stored"
    [] pc = "refused" -> "refused"
    [] pc \in {"lost", "dead"} -> "lost"
    [] OTHER -> "open"

Log == INSTANCE OrderLog WITH
         log  <- [m \in Masters |-> chain[m][Tip(m)].hash],
         fate <- [r \in Requests |-> FateOf(task[r].pc)]

RefinesOrderLog == Log!Spec

(***************************************************************************)
(* Every order a task takes up is settled, whatever happens to votes and   *)
(* peers: the retries of both publications are bounded and no wait needs   *)
(* another master.                                                         *)
(***************************************************************************)
EveryOrderSettles ==
  \A r \in Requests :
    task[r].pc = "read" ~> task[r].pc \in {"done", "refused", "lost", "dead"}

(***************************************************************************)
(* A voter forgets every block it voted on: whatever a master enters in    *)
(* pending_blocks for another master's order is removed in the end.        *)
(***************************************************************************)
PendingFor(m, r) == OfHash(pending[m], RawHash(Body[r])) # {}

VotersForget ==
  \A m \in Masters : \A r \in Requests :
    (\A s \in Requests : Home[s] = m => Body[s] # Body[r]) =>
      (PendingFor(m, r) ~> ~PendingFor(m, r))

(***************************************************************************)
(* What RequestStatus says of Ok, "All good": an order that was answered   *)
(* Ok is stored as soon as its task is past the write.                     *)
(***************************************************************************)
AckedIsStored ==
  \A r \in Requests : (reply[r] = "Ok" /\ task[r].pc # "add") =>
    \E id \in DOMAIN chain[Home[r]] : chain[Home[r]][id].body = Body[r]

(***************************************************************************)
(* What the comments at both ballots say, "We need to always have majority *)
(* vote": an order goes on to its serial ballot with the votes of more     *)
(* than half of the masters.                                               *)
(***************************************************************************)
MajorityDecides ==
  [][\A r \in Requests :
       (task[r].pc = "vote" /\ task'[r].pc = "order") =>
         \E e \in OfHash(pending[Home[r]], RawHash(Body[r])) :
           2 * e.ok > Cardinality(Masters)]_vars
=============================================================================
