----------------------------- MODULE ClientSync -----------------------------
(***************************************************************************)
(* How a client's copy of the chain follows its master's: the handler a    *)
(* master runs for every client that said Hello                            *)
(* (nyumt-node/src/master_serve/activity.rs and req_resp.rs), and what the *)
(* client does with the batches of blocks it is sent                       *)
(* (nyumt-client-core/src/client/req_resp.rs and activity.rs).             *)
(*                                                                         *)
(* There is one client, identified by its key: its sessions follow one     *)
(* another but what they leave behind overlaps.  Every batch is a request  *)
(* of its own and the client spawns a thread for each, so batches are      *)
(* neither ordered nor kept apart.                                         *)
(*                                                                         *)
(* A block is its id.  What the client finds when it verifies one, the     *)
(* user who signed it and the keys and names its orders are about, is in   *)
(* its tables once the blocks in Needs are applied.  Statistics and the    *)
(* polls that find nothing are left out.                                   *)
(***************************************************************************)
EXTENDS Integers, Sequences, FiniteSets, FiniteSetsExt

CONSTANTS
  MaxHeight,      (* the highest id the chain reaches                      *)
  MaxSessions,    (* bound on the client's sessions                        *)
  Batch,          (* blocks that fill a batch: 9                           *)
  Needs,          (* block -> the earlier blocks its verification needs    *)
  DbFaults        (* calls to the master's and the client's database fail  *)

Sessions == 1 .. MaxSessions
Blocks == 0 .. MaxHeight

ASSUME SyncAssumption ==
  /\ MaxHeight \in Nat /\ MaxSessions \in Nat /\ Batch \in Nat \ {0}
  /\ Needs \in [Blocks -> SUBSET Blocks]
  /\ \A b \in Blocks : \A n \in Needs[b] : n < b
  /\ DbFaults \in BOOLEAN

VARIABLES
  height,    (* id of the last block of the master                         *)
  handler,   (* session -> the event_handler its Hello started             *)
  auth,      (* the session whose User is in SwarmSettings.auth, or 0      *)
  told,      (* sessions whose handler's `disconnected` channel fired      *)
  links,     (* connections to the client the master's swarm has           *)
  net,       (* batches under way                                          *)
  sent,      (* session -> blocks its handler sent (history)               *)
  conn,      (* session -> its connection, as its client sees it           *)
  count,     (* session -> last_height of its client                       *)
  tasks,     (* batches the client's threads are working on                *)
  stored,    (* ids in the client's table `order`                          *)
  applied    (* ids the client applied to its tables, in order             *)

masterVars == <<height, handler, auth, told, links, sent>>
clientVars == <<conn, count, tasks, stored, applied>>
vars == <<masterVars, net, clientVars>>

Batches == [on : Sessions, by : Sessions, blocks : Seq(Blocks)]
Works == [on : Sessions, by : Sessions, blocks : Seq(Blocks),
          step : {"check", "verify", "store", "apply", "count"}]

Handlers ==
  [pc : {"none", "hello", "wait", "found", "stream", "gone"},
   cursor : -1 .. MaxHeight,     (* client_settings.last_request_height    *)
   last   : Blocks,              (* the height the poll read               *)
   row    : Nat,                 (* next row of the stream of blocks ...   *)
   end    : Blocks,              (* ... and its last                       *)
   blocks : Seq(Blocks)]

(***************************************************************************)
(* Type invariant: handlers, batches and the client's work have the shape  *)
(* their Rust types give them, and last_height is the id of a block or -1. *)
(***************************************************************************)
TypeOK ==
  /\ height \in Blocks
  /\ handler \in [Sessions -> Handlers]
  /\ auth \in Sessions \cup {0}
  /\ told \subseteq Sessions /\ links \subseteq Sessions
  /\ sent \in [Sessions -> SUBSET Blocks]
  /\ net \subseteq Batches
  /\ conn \in [Sessions -> {"none", "open", "closing", "closed"}]
  /\ count \in [Sessions -> -1 .. MaxHeight]
  /\ tasks \subseteq Works
  /\ stored \subseteq Blocks
  /\ applied \in Seq(Blocks)

-----------------------------------------------------------------------------
(* The master stores a block (MasterOrders).                               *)
AddBlock ==
  /\ height < MaxHeight
  /\ height' = height + 1
  /\ UNCHANGED <<handler, auth, told, links, sent, net, clientVars>>

NoHandler == [pc |-> "none", cursor |-> -1, last |-> 0, row |-> 0, end |-> 0, blocks |-> <<>>]
Gone == [NoHandler EXCEPT !.pc = "gone"]

(* get_last_block_height of the client's own database                      *)
Highest == IF stored = {} THEN -1 ELSE Max(stored)

(* Client::new: the height is read, then the master dialled.               *)
Open(s) ==
  /\ conn[s] = "none"
  /\ \A r \in Sessions : (r < s) = (conn[r] = "closed")
  /\ conn' = [conn EXCEPT ![s] = "open"]
  /\ count' = [count EXCEPT ![s] = Highest]
  /\ links' = links \cup {s}
  /\ UNCHANGED <<height, handler, auth, told, sent, net, tasks, stored, applied>>

(* The Hello of a session arrives and a handler is spawned for it.         *)
Hello(s) ==
  /\ s \in links /\ handler[s].pc = "none"
  /\ handler' = [handler EXCEPT ![s].pc = "hello", ![s].cursor = count[s]]
  /\ UNCHANGED <<height, auth, told, links, sent, net, clientVars>>

(* The handler enters its user in auth, a map by peer: the entry it takes  *)
(* the place of is dropped, and with it the sender that tells its handler  *)
(* to stop.                                                                *)
Replaced(entry) == IF entry = 0 THEN {} ELSE {entry}

Register_KeepsOld(s) ==   \* mutant: the old entry's sender lives on
  /\ handler[s].pc = "hello"
  /\ auth' = s
  /\ handler' = [handler EXCEPT ![s].pc = "wait"]
  /\ UNCHANGED <<height, told, links, sent, net, clientVars>>
Register(s) ==
  /\ handler[s].pc = "hello"
  /\ auth' = s
  /\ told' = told \cup Replaced(auth)
  /\ handler' = [handler EXCEPT ![s].pc = "wait"]
  /\ UNCHANGED <<height, links, sent, net, clientVars>>

(* Its user cannot be read: the connection is closed.                      *)
RegisterFails(s) ==
  /\ handler[s].pc = "hello" /\ DbFaults
  /\ handler' = [handler EXCEPT ![s] = Gone]
  /\ conn' = [r \in Sessions |-> IF r \in links /\ conn[r] = "open" THEN "closing" ELSE conn[r]]
  /\ UNCHANGED <<height, auth, told, links, sent, net, count, tasks, stored, applied>>

Stop(s) ==
  /\ handler[s].pc = "wait" /\ s \in told
  /\ handler' = [handler EXCEPT ![s] = Gone]
  /\ UNCHANGED <<height, auth, told, links, sent, net, clientVars>>

-----------------------------------------------------------------------------
(* The handler's poll: the last height, then a stream of all blocks above  *)
(* the cursor, which may by then include higher ones.                      *)
Poll(s) ==
  /\ handler[s].pc = "wait" /\ height > handler[s].cursor
  /\ handler' = [handler EXCEPT ![s].pc = "found", ![s].last = height]
  /\ UNCHANGED <<height, auth, told, links, sent, net, clientVars>>

OpenStream(s) ==
  /\ handler[s].pc = "found"
  /\ handler' = [handler EXCEPT ![s].pc = "stream", ![s].row = handler[s].cursor + 1,
                                ![s].end = height, ![s].blocks = <<>>]
  /\ UNCHANGED <<height, auth, told, links, sent, net, clientVars>>

(* A batch goes out when it is full or holds the block the poll saw.       *)
Complete_Full(s, blocks) == Len(blocks) >= Batch   \* mutant
Complete(s, blocks) ==
  blocks[Len(blocks)] = handler[s].last \/ Len(blocks) >= Batch

(* send_request goes to the peer, over whichever connection there is.      *)
Send(s, blocks) ==
  /\ IF links = {}
     THEN UNCHANGED net
     ELSE \E c \in links : net' = net \cup {[on |-> c, by |-> s, blocks |-> blocks]}
  /\ sent' = [sent EXCEPT ![s] = @ \cup {blocks[i] : i \in DOMAIN blocks}]

Advance(s, blocks) ==
  handler' = [handler EXCEPT ![s].row = @ + 1, ![s].cursor = @ + 1, ![s].blocks = blocks]

TakeRow(s) ==
  LET h == handler[s]
      blocks == Append(h.blocks, h.row)
  IN /\ h.pc = "stream" /\ h.row <= h.end
     /\ \/ /\ Complete(s, blocks)
           /\ Send(s, blocks)
           /\ Advance(s, <<>>)
        \/ /\ ~Complete(s, blocks)
           /\ Advance(s, blocks)
           /\ UNCHANGED <<net, sent>>
     /\ UNCHANGED <<height, auth, told, links, clientVars>>

(* The stream is read up, or fails; what is left in the batch is dropped.  *)
EndStream(s) ==
  LET h == handler[s] IN
  /\ h.pc = "stream"
  /\ h.row > h.end \/ DbFaults
  /\ handler' = [handler EXCEPT ![s] = [NoHandler EXCEPT !.pc = "wait", !.cursor = h.cursor]]
  /\ UNCHANGED <<height, auth, told, links, sent, net, clientVars>>

HandlerStep(s) ==
  Register(s) \/ RegisterFails(s) \/ Stop(s) \/ Poll(s) \/ OpenStream(s) \/ TakeRow(s) \/ EndStream(s)

(* ConnectionClosed removes the peer's entry, whichever connection it was  *)
(* that closed and whoever is registered.                                  *)
SeesClose(s) ==
  /\ s \in links /\ conn[s] = "closed"
  /\ links' = links \ {s}
  /\ told' = told \cup Replaced(auth)
  /\ auth' = 0
  /\ UNCHANGED <<height, handler, sent, net, clientVars>>

-----------------------------------------------------------------------------
(* The client: a thread per batch, which works through it block by block;  *)
(* a batch that comes while the connection closes may be lost.             *)
Deliver(b) ==
  /\ net' = net \ {b}
  /\ \/ /\ conn[b.on] # "closed"
        /\ tasks' = tasks \cup {[on |-> b.on, by |-> b.by, blocks |-> b.blocks, step |-> "check"]}
     \/ conn[b.on] # "open" /\ UNCHANGED tasks
  /\ UNCHANGED <<masterVars, conn, count, stored, applied>>

Becomes(t, next) == tasks' = (tasks \ {t}) \cup next

(* The thread goes on with the batch's next block, if there is one.        *)
Rest(t) ==
  IF Len(t.blocks) = 1 THEN {}
  ELSE {[t EXCEPT !.blocks = Tail(@), !.step = "check"]}

(* handle_block failed: the connection is closed, and the thread goes on   *)
(* with the next block, unless the swarm's loop has ended: then the call   *)
(* to disconnect panics, and the thread with it.                           *)
Fail(t) ==
  /\ IF conn[t.on] = "closed"
     THEN Becomes(t, {}) /\ UNCHANGED conn
     ELSE Becomes(t, Rest(t)) /\ conn' = [conn EXCEPT ![t.on] = "closing"]
  /\ UNCHANGED <<count, stored, applied>>

Goes(t, step) == Becomes(t, {[t EXCEPT !.step = step]})

(* A block below last_height is taken for a rewrite; the first block needs *)
(* no verification.                                                        *)
Check(t) ==
  LET b == Head(t.blocks) IN
  /\ t.step = "check"
  /\ \/ count[t.on] > b /\ Fail(t)
     \/ /\ count[t.on] <= b
        /\ Goes(t, IF b # 0 THEN "verify" ELSE "store")
        /\ UNCHANGED <<conn, count, stored, applied>>

Applied == {applied[i] : i \in DOMAIN applied}

Verifies_Never(b) == TRUE   \* mutant
Verifies(b) == Needs[b] \subseteq Applied

Verify(t) ==
  LET b == Head(t.blocks) IN
  /\ t.step = "verify"
  /\ \/ ~Verifies(b) /\ Fail(t)
     \/ Verifies(b) /\ Goes(t, "store") /\ UNCHANGED <<conn, count, stored, applied>>

(* Its id is a primary key.                                                *)
Insertable_Replaces(b) == TRUE   \* mutant: insert or replace
Insertable(b) == b \notin stored

Store(t) ==
  LET b == Head(t.blocks) IN
  /\ t.step = "store"
  /\ \/ ~Insertable(b) /\ Fail(t)
     \/ /\ Insertable(b)
        /\ stored' = stored \cup {b}
        /\ Goes(t, "apply")
        /\ UNCHANGED <<conn, count, applied>>

Apply(t) ==
  LET b == Head(t.blocks) IN
  /\ t.step = "apply"
  /\ applied' = Append(applied, b)
  /\ Goes(t, "count")
  /\ UNCHANGED <<conn, count, stored>>

Counted_Twice(s) == [count EXCEPT ![s] = @ + 2]   \* mutant
Counted(s) == [count EXCEPT ![s] = @ + 1]

Count(t) ==
  /\ t.step = "count"
  /\ count' = Counted(t.on)
  /\ Becomes(t, Rest(t))
  /\ UNCHANGED <<conn, stored, applied>>

(* Verifying, inserting and interpreting a block read or write the client's *)
(* database.                                                                *)
DbFails(t) ==
  /\ DbFaults /\ t.step \in {"verify", "store", "apply"}
  /\ Fail(t)

Work(t) ==
  /\ Check(t) \/ Verify(t) \/ Store(t) \/ Apply(t) \/ Count(t) \/ DbFails(t)
  /\ UNCHANGED <<masterVars, net>>

(* The connection breaks, or the client has closed it; the swarm's loop    *)
(* ends, the threads live on.                                              *)
Disconnect(s) ==
  /\ conn[s] \in {"open", "closing"}
  /\ conn' = [conn EXCEPT ![s] = "closed"]
  /\ UNCHANGED <<masterVars, net, count, tasks, stored, applied>>

(* The client's process ends.                                              *)
Quit ==
  /\ \E s \in Sessions : conn[s] = "open"
  /\ conn' = [s \in Sessions |-> IF conn[s] = "none" THEN "none" ELSE "closed"]
  /\ tasks' = {}
  /\ UNCHANGED <<masterVars, net, count, stored, applied>>

-----------------------------------------------------------------------------
(* The master has its first block, the client nothing.                     *)
Init ==
  /\ height = 0
  /\ handler = [s \in Sessions |-> NoHandler]
  /\ auth = 0 /\ told = {} /\ links = {}
  /\ sent = [s \in Sessions |-> {}]
  /\ net = {}
  /\ conn = [s \in Sessions |-> "none"]
  /\ count = [s \in Sessions |-> -1]
  /\ tasks = {}
  /\ stored = {}
  /\ applied = <<>>

Next ==
  \/ AddBlock \/ Quit
  \/ \E s \in Sessions : Open(s) \/ Hello(s) \/ HandlerStep(s) \/ SeesClose(s) \/ Disconnect(s)
  \/ \E b \in net : Deliver(b)
  \/ \E t \in tasks : Work(t)

Spec == Init /\ [][Next]_vars

(* The runtime runs every handler.                                         *)
FairSpec == Spec /\ \A s \in Sessions : WF_vars(HandlerStep(s))

-----------------------------------------------------------------------------
(***************************************************************************)
(* The client applies a block at most once and only one it has stored,     *)
(* although threads of several batches, sessions and handlers work on      *)
(* overlapping batches at the same time: the primary key decides.          *)
(***************************************************************************)
AppliedOnce ==
  \A i, j \in DOMAIN applied :
    /\ applied[i] \in stored
    /\ applied[i] = applied[j] => i = j

(***************************************************************************)
(* The client's tables are the result of a valid history: when a block was *)
(* applied, all that its verification had looked for was there, even if    *)
(* the blocks came out of order.                                           *)
(***************************************************************************)
AppliedValidly ==
  \A i \in DOMAIN applied :
    Needs[applied[i]] \subseteq {applied[j] : j \in 1 .. (i - 1)}

(***************************************************************************)
(* last_height never runs ahead of what the client has stored: a block     *)
(* higher than all it has is never refused as a rewrite, whatever order    *)
(* the threads finish in and whichever sessions they belong to.            *)
(***************************************************************************)
NewestAccepted == \A s \in Sessions : count[s] <= Highest

(***************************************************************************)
(* Of all handlers of the client only the one registered in auth was not   *)
(* told to stop, so at most one goes on sending.                           *)
(***************************************************************************)
OneVoice ==
  \A s \in Sessions :
    handler[s].pc \in {"wait", "found", "stream"} => s \in told \/ auth = s

(***************************************************************************)
(* A handler sends all that is stored when it next polls: what comes       *)
(* between its reading of the height and of the blocks may stay behind in  *)
(* an incomplete batch, but nothing older.                                 *)
(***************************************************************************)
PolledIsSent ==
  \A s \in Sessions, b \in Blocks :
    (handler[s].pc = "wait" /\ handler[s].cursor < b /\ b <= height) ~>
      (b \in sent[s] \/ handler[s].pc = "gone")

(***************************************************************************)
(* What the client's error says of a master, "trying to rewrite older      *)
(* blocks", never happens to a master whose chain only grows.              *)
(***************************************************************************)
MasterNeverRewrites ==
  \A t \in tasks : t.step = "check" => count[t.on] <= Head(t.blocks)
=============================================================================
