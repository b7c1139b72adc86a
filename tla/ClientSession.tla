---------------------------- MODULE ClientSession ----------------------------
(***************************************************************************)
(* What a client's sessions do besides following the chain (ClientSync):   *)
(* the reports of nodes that its handler streams to it, between two looks  *)
(* at the chain, and the commands its user types, each a request that      *)
(* waits for the master's answer                                           *)
(* (nyumt-node/src/master_serve/activity.rs and req_resp.rs,               *)
(* nyumt-client-core/src/client, nyumt-client-cli/src/session.rs).         *)
(*                                                                         *)
(* A report is its place in Stamp.  Its row is refused where the node it   *)
(* is from is not yet known: a foreign key of the table of reports.  What  *)
(* a command orders is left to OrderRules and MasterOrders: here it is     *)
(* asked, and answered or not.                                             *)
(***************************************************************************)
EXTENDS ClientSync, SequencesExt

CONSTANTS
  Stamp,        (* report -> the second its node made it in                *)
  Home,         (* report -> the block that adds its node                  *)
  StatBatch,    (* reports that fill a batch: 9                            *)
  MaxLoad,      (* bound on blocks, reports and commands together          *)
  MaxBreaks     (* bound on streams of reports that fail                   *)

Reports == DOMAIN Stamp

ASSUME SessionAssumption ==
  /\ Reports \subseteq Nat
  /\ Stamp \in [Reports -> Nat \ {0}] /\ Home \in [Reports -> Blocks]
  /\ StatBatch \in Nat \ {0} /\ MaxLoad \in Nat /\ MaxBreaks \in Nat

VARIABLES
  made,      (* reports their nodes have made                              *)
  way,       (* reports on their way to the master                         *)
  table,     (* reports in the master's table, in the order they came      *)
  stream,    (* session -> the handler's stream of reports                 *)
  streamed,  (* session -> reports its handler sent (history)              *)
  carried,   (* batches of reports under way to the client                 *)
  storing,   (* batches the client's threads are storing                   *)
  kept,      (* reports in the client's table                              *)
  prompt,    (* session -> its prompt                                      *)
  call,      (* session -> the command its prompt waits for                *)
  typed,     (* number of commands                                         *)
  breaks     (* number of streams that failed                              *)

reportVars == <<made, way, table, stream, streamed, carried, storing, kept, breaks>>
promptVars == <<prompt, call, typed>>
sessionVars == <<vars, reportVars, promptVars>>

ToClient == [on : Sessions, rows : Seq(Reports)]
Pending == {"order", "stats", "taken", "answered", "unheard"}

(***************************************************************************)
(* Type invariant: streams, batches, prompts and commands have the shape   *)
(* of their types, and only a busy prompt has a command that is not over.  *)
(***************************************************************************)
SessionTypeOK ==
  /\ way \subseteq made /\ made \subseteq Reports /\ kept \subseteq Reports
  /\ table \in Seq(Reports)
  /\ \A s \in Sessions :
       /\ stream[s].open \in BOOLEAN /\ stream[s].rows \in Seq(Reports)
       /\ 0 <= stream[s].from /\ stream[s].from <= stream[s].cursor
       /\ streamed[s] \subseteq Reports
       /\ prompt[s] \in {"none", "ready", "busy", "gone"}
       /\ call[s] \in Pending \cup {"none"}
       /\ prompt[s] = "busy" <=> call[s] \in Pending
  /\ carried \subseteq ToClient /\ storing \subseteq ToClient
  /\ typed \in Nat /\ breaks \in 0 .. MaxBreaks

Load == height + Cardinality(made) + typed

-----------------------------------------------------------------------------
(* Reports: from a node to the master.                                     *)

(* The collector makes a report and sends it to the default master, if the *)
(* node has one.                                                           *)
Publish(r) ==
  /\ r \notin made /\ Load < MaxLoad
  /\ made' = made \cup {r}
  /\ \/ way' = way \cup {r}
     \/ UNCHANGED way
  /\ UNCHANGED <<vars, table, stream, streamed, carried, storing, kept, breaks, promptVars>>

(* A master stores the report of a peer it finds in its tables.            *)
StoreReport(r) ==
  /\ r \in way
  /\ way' = way \ {r}
  /\ table' = IF Home[r] <= height THEN Append(table, r) ELSE table
  /\ UNCHANGED <<vars, made, stream, streamed, carried, storing, kept, breaks, promptVars>>

-----------------------------------------------------------------------------
(* Reports: from the master to its client.                                 *)

NoStream == [open |-> FALSE, from |-> 0, cursor |-> 0, rows |-> <<>>]

(* By the primary key of stats: the second, then the node.                 *)
Before(a, b) == Stamp[a] < Stamp[b] \/ (Stamp[a] = Stamp[b] /\ a < b)

InOrder(rows) ==
  CHOOSE seq \in [1 .. Cardinality(rows) -> rows] :
    /\ ToSet(seq) = rows
    /\ \A i, j \in DOMAIN seq : i < j => Before(seq[i], seq[j])

(* The rows after a second, in the order of the index they are found by.   *)
Newer(second) == InOrder({r \in ToSet(table) : Stamp[r] > second})

(* The loop looks for reports when it is not reading blocks.               *)
PollStats(s) ==
  /\ handler[s].pc = "wait" /\ ~stream[s].open
  /\ Newer(stream[s].cursor) # <<>>
  /\ stream' = [stream EXCEPT ![s].open = TRUE, ![s].rows = Newer(stream[s].cursor)]
  /\ UNCHANGED <<vars, made, way, table, streamed, carried, storing, kept, breaks, promptVars>>

SendReports(s, rows) ==
  /\ IF links = {}
     THEN UNCHANGED carried
     ELSE \E c \in links : carried' = carried \cup {[on |-> c, rows |-> rows]}
  /\ streamed' = [streamed EXCEPT ![s] = @ \cup ToSet(rows)]

(* last_timestamp when the first n rows are sent: that of the last of them.*)
Reached_Newest(rows, n) == Stamp[rows[Len(rows)]]   \* mutant: that of all
Reached(rows, n) == Stamp[rows[n]]

(* A batch goes out when it is full and there is another row, or at the    *)
(* end of the stream.                                                      *)
SendStats(s) ==
  LET rows == stream[s].rows
      n == IF Len(rows) < StatBatch THEN Len(rows) ELSE StatBatch
  IN /\ stream[s].open /\ rows # <<>>
     /\ SendReports(s, SubSeq(rows, 1, n))
     /\ stream' = [stream EXCEPT ![s].rows = SubSeq(rows, n + 1, Len(rows)),
                                 ![s].cursor = Reached(rows, n)]
     /\ UNCHANGED <<vars, made, way, table, storing, kept, breaks, promptVars>>

EndStats(s) ==
  /\ stream[s].open /\ stream[s].rows = <<>>
  /\ stream' = [stream EXCEPT ![s].open = FALSE, ![s].rows = <<>>]
  /\ UNCHANGED <<vars, made, way, table, streamed, carried, storing, kept, breaks, promptVars>>

(* A row cannot be read: the batch it was for is dropped.                  *)
BreakStats(s) ==
  /\ stream[s].open /\ stream[s].rows # <<>> /\ breaks < MaxBreaks
  /\ breaks' = breaks + 1
  /\ stream' = [stream EXCEPT ![s].open = FALSE, ![s].rows = <<>>]
  /\ UNCHANGED <<vars, made, way, table, streamed, carried, storing, kept, promptVars>>

(* Each batch is a request, and a thread of the client.                    *)
DeliverReports(b) ==
  /\ carried' = carried \ {b}
  /\ \/ conn[b.on] # "closed" /\ storing' = storing \cup {b}
     \/ conn[b.on] # "open" /\ UNCHANGED storing
  /\ UNCHANGED <<vars, made, way, table, stream, streamed, kept, breaks, promptVars>>

(* A row that is refused is passed over.                                   *)
StoreStat(t) ==
  LET r == Head(t.rows) IN
  /\ kept' = IF Home[r] \in Applied THEN kept \cup {r} ELSE kept
  /\ storing' = (storing \ {t}) \cup (IF Len(t.rows) = 1 THEN {} ELSE {[t EXCEPT !.rows = Tail(@)]})
  /\ UNCHANGED <<vars, made, way, table, stream, streamed, carried, breaks, promptVars>>

-----------------------------------------------------------------------------
(* Commands.                                                               *)

(* What the commands of a prompt ask of the master: to give an order, for  *)
(* live statistics, or nothing.                                            *)
UserAsks == [list |-> "nothing", add |-> "order", edit |-> "order", remove |-> "order"]
NodeAsks == [list |-> "nothing", add |-> "order", edit |-> "order", remove |-> "order",
             template |-> "order", get |-> "stats", plot |-> "nothing"]
TemplateAsks == [generate |-> "nothing", list |-> "nothing", show |-> "nothing",
                 set |-> "order", remove |-> "order"]

Asked == (UNION {{f[c] : c \in DOMAIN f} : f \in {UserAsks, NodeAsks, TemplateAsks}}) \ {"nothing"}

(* A session has a prompt once its Hello is sent.                          *)
OpenSession(s) ==
  /\ Open(s)
  /\ stream' = LET newest == Max({Stamp[r] : r \in kept} \cup {0})
               IN [stream EXCEPT ![s].from = newest, ![s].cursor = newest]
  /\ prompt' = [prompt EXCEPT ![s] = "ready"]
  /\ UNCHANGED <<made, way, table, streamed, carried, storing, kept, breaks, call, typed>>

(* A command is sent by the swarm's loop; where it has ended the call      *)
(* panics, and the prompt with it.                                         *)
Type(s) ==
  /\ prompt[s] = "ready" /\ Load < MaxLoad
  /\ typed' = typed + 1
  /\ IF conn[s] = "closed"
     THEN prompt' = [prompt EXCEPT ![s] = "gone"] /\ UNCHANGED call
     ELSE /\ prompt' = [prompt EXCEPT ![s] = "busy"]
          /\ \E what \in Asked : call' = [call EXCEPT ![s] = what]
  /\ UNCHANGED <<vars, reportVars>>

Becoming(s, what) == call' = [call EXCEPT ![s] = what]

(* The order of a user who is not in auth is not answered.                 *)
Hear(s) ==
  /\ s \in links
  /\ \/ call[s] = "order" /\ Becoming(s, IF auth = 0 THEN "unheard" ELSE "taken")
     \/ call[s] = "stats" /\ Becoming(s, "taken")
  /\ UNCHANGED <<vars, reportVars, prompt, typed>>

Answer(s) ==
  /\ call[s] = "taken" /\ s \in links
  /\ Becoming(s, "answered")
  /\ UNCHANGED <<vars, reportVars, prompt, typed>>

(* A request that is not answered in time, or with what cannot be read,    *)
(* fails: no one takes note of it.                                         *)
TimeOut(s) ==
  /\ call[s] \in {"order", "stats", "taken", "answered"}
  /\ Becoming(s, "unheard")
  /\ UNCHANGED <<vars, reportVars, prompt, typed>>

Return_NoPrompt(s) ==   \* mutant: its user is not asked again
  Becoming(s, "none") /\ UNCHANGED <<vars, reportVars, prompt, typed>>
Return(s) ==
  /\ Becoming(s, "none")
  /\ prompt' = [prompt EXCEPT ![s] = "ready"]
  /\ UNCHANGED <<vars, reportVars, typed>>

TakeAnswer(s) == call[s] = "answered" /\ conn[s] # "closed" /\ Return(s)

(* The senders of answers are in the settings of the swarm, which threads  *)
(* that work for it share: with the last of them the command fails.        *)
Released_Never(s) == FALSE   \* mutant: the client holds them as well
Released(s) ==
  conn[s] = "closed" /\ \A t \in tasks \cup storing : t.on # s

Cut(s) == call[s] \in Pending /\ Released(s) /\ Return(s)

(* The user ends the session at its prompt.                                *)
Leave(s) ==
  /\ prompt[s] = "ready"
  /\ prompt' = [prompt EXCEPT ![s] = "gone"]
  /\ conn' = [conn EXCEPT ![s] = "closed"]
  /\ UNCHANGED <<masterVars, net, count, tasks, stored, applied, reportVars, call, typed>>

QuitAll ==
  /\ Quit
  /\ storing' = {}
  /\ prompt' = [s \in Sessions |-> IF prompt[s] = "none" THEN "none" ELSE "gone"]
  /\ call' = [s \in Sessions |-> "none"]
  /\ UNCHANGED <<made, way, table, stream, streamed, carried, kept, breaks, typed>>

-----------------------------------------------------------------------------
SessionInit ==
  /\ Init
  /\ made = {} /\ way = {} /\ table = <<>>
  /\ stream = [s \in Sessions |-> NoStream] /\ streamed = [s \in Sessions |-> {}]
  /\ carried = {} /\ storing = {} /\ kept = {} /\ breaks = 0
  /\ prompt = [s \in Sessions |-> "none"] /\ call = [s \in Sessions |-> "none"] /\ typed = 0

StatsStep(s) == PollStats(s) \/ SendStats(s) \/ EndStats(s) \/ BreakStats(s)

(* The handler's loop: one thing at a time.                                *)
LoopStep(s) ==
  \/ ~stream[s].open /\ HandlerStep(s) /\ UNCHANGED <<reportVars, promptVars>>
  \/ StatsStep(s)

(* What follows the chain as in ClientSync.                                *)
ChainStep ==
  /\ \/ AddBlock /\ Load < MaxLoad
     \/ \E s \in Sessions : Hello(s) \/ SeesClose(s) \/ Disconnect(s)
     \/ \E b \in net : Deliver(b)
  /\ UNCHANGED <<reportVars, promptVars>>

ThreadStep(s) ==
  \/ \E t \in tasks : t.on = s /\ Work(t) /\ UNCHANGED <<reportVars, promptVars>>
  \/ \E t \in storing : t.on = s /\ StoreStat(t)

CommandStep(s) == Type(s) \/ Hear(s) \/ Answer(s) \/ TimeOut(s) \/ TakeAnswer(s) \/ Cut(s) \/ Leave(s)

SessionNext ==
  \/ ChainStep \/ QuitAll
  \/ \E r \in Reports : Publish(r) \/ StoreReport(r)
  \/ \E b \in carried : DeliverReports(b)
  \/ \E s \in Sessions : OpenSession(s) \/ LoopStep(s) \/ ThreadStep(s) \/ CommandStep(s)

SessionSpec == SessionInit /\ [][SessionNext]_sessionVars

(* The runtimes run every handler and every thread, and wake who waits.    *)
(* In each round of its loop a handler asks for the height and for new     *)
(* reports, and goes by what is answered first: neither is always first.   *)
SessionFairness ==
  \A s \in Sessions :
    WF_sessionVars(LoopStep(s)) /\ WF_sessionVars(ThreadStep(s)) /\ WF_sessionVars(Cut(s))

FairSessionSpec == SessionSpec /\ SessionFairness

-----------------------------------------------------------------------------
Came(q, r) == \E i, j \in DOMAIN table : i < j /\ table[i] = q /\ table[j] = r

(* A newer report had come before it and was sent, or one of its second.   *)
Overtaken(s, r) ==
  \E q \in streamed[s] : Stamp[q] = Stamp[r] \/ (Stamp[q] > Stamp[r] /\ Came(q, r))

(***************************************************************************)
(* A handler passes a report over only if a newer one had come before it,  *)
(* or one of the same second was sent when the stream failed               *)
(* (activity.rs 266-317: last_timestamp is all it remembers).              *)
(***************************************************************************)
SkippedOnlyLate ==
  \A s \in Sessions, r \in ToSet(table) :
    (stream[s].from < Stamp[r] /\ Stamp[r] <= stream[s].cursor /\ r \notin ToSet(stream[s].rows))
      => Overtaken(s, r)

(***************************************************************************)
(* What a waiting handler has not passed is sent in the end, unless newer  *)
(* reports overtook it, whichever streams fail and whatever blocks come in *)
(* between: no batch is left lying because it is not full.                 *)
(***************************************************************************)
NewReportsSent ==
  \A s \in Sessions, r \in Reports :
    (handler[s].pc = "wait" /\ r \in ToSet(table) /\ stream[s].cursor < Stamp[r]) ~>
      (handler[s].pc = "gone" \/ Overtaken(s, r))

(***************************************************************************)
(* A command never outlives its connection: although nobody is told that   *)
(* its request failed, the prompt is back when the connection is closed    *)
(* and the threads that work for it have ended.                            *)
(***************************************************************************)
CallsReturn ==
  \A s \in Sessions :
    (call[s] \in Pending /\ conn[s] = "closed") ~> call[s] \notin Pending
=============================================================================
