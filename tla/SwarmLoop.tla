----------------------------- MODULE SwarmLoop -----------------------------
(***************************************************************************)
(* Who waits for whom inside a master (nyumt-node/src/master): the loop of *)
(* its swarm, the handler of network events, and the tasks of orders,      *)
(* ballots, updates and subscriptions.  They wait in the two bounded       *)
(* channels, for each other's answers, and for three fair locks, some of   *)
(* which they keep while they wait for something else.                     *)
(*                                                                         *)
(* Abstraction: what is done between two waits is MasterOrders and         *)
(* NodeSync; here an actor is the sequence of what it still waits for, its *)
(* `todo', one of the paths its code may take.  Locks that are never kept  *)
(* across a wait are left out, and who only calls, without a lock, waits   *)
(* as a subscription does.                                                 *)
(***************************************************************************)
EXTENDS Naturals, Sequences, FiniteSets, SequencesExt

CONSTANTS Orders,     \* tasks that sync spawns
          Voters,     \* tasks that the handler spawns
          Updates,    \* threads of send_update
          Joins,      \* tasks that handle HelloSubscribe
          QueueCap,   \* room in the channel to the handler: 200
          CallCap,    \* room in the channel to the loop: 100
          Workers,    \* threads of the runtime
          MaxGossip,  \* bound: messages from other masters
          MaxLoad     \* bound: these, orders, updates and subscriptions together

Loop    == "loop"
Handler == "handler"
Tasks   == Orders \cup Voters \cup Updates \cup Joins
Actors  == Tasks \cup {Loop, Handler}

ASSUME ConstantsAssumption ==
    /\ {QueueCap, CallCap, Workers} \subseteq Nat \ {0}
    /\ IsFiniteSet(Voters) /\ MaxGossip \in 0 .. Cardinality(Voters)
    /\ MaxLoad \in Nat
    /\ {Loop, Handler} \cap Tasks = {}
    /\ Voters \cap (Orders \cup Updates \cup Joins) = {}

VARIABLES todo,      \* todo[a]: what a will wait for, in order
          started,   \* the tasks there have been
          lock,      \* lock[l]: who holds it, and who waits for it
          queue,     \* events on their way to the handler
          calls,     \* requests on their way to the loop
          gossiped   \* number of messages from other masters

vars == <<todo, started, lock, queue, calls, gossiped>>

-----------------------------------------------------------------------------
(* What there is to wait for.                                              *)

Locks  == {"conf", "approved_blocks", "subscribed_nodes"}
Events == {"Vote", "SerialVote", "NewBlock", "ArchiveBlock", "PendingBlockTimeout",
           "ApprovedBlockTimeout"}

Op == [do : {"read", "write", "drop"}, what : Locks] \cup [do : {"call", "vote"}, what : {"-"}]
        \cup [do : {"send", "spawn"}, what : Events]

Read(l)  == [do |-> "read", what |-> l]
Write(l) == [do |-> "write", what |-> l]
Drop(l)  == [do |-> "drop", what |-> l]
Call     == [do |-> "call", what |-> "-"]
Vote     == [do |-> "vote", what |-> "-"]
Send(e)  == [do |-> "send", what |-> e]
Spawn(e) == [do |-> "spawn", what |-> e]

Briefly(op) == <<op, Drop(op.what)>>

-----------------------------------------------------------------------------
(* The paths.                                                              *)

\* await_votes: the guard of conf lives as long as the ballot.
AwaitVotes == <<Read("conf"), Vote, Drop("conf")>>

\* block_order_vote: published, entered, voted on; the entries are looked through, and if
\* it is voted down conf is read meanwhile.  (Once more is nothing new to wait for.)
Entered   == <<Call>> \o Briefly(Write("approved_blocks")) \o AwaitVotes
Passed    == Briefly(Read("approved_blocks"))
VotedDown == <<Read("approved_blocks")>> \o Briefly(Read("conf")) \o <<Drop("approved_blocks")>>
Removed   == Briefly(Write("approved_blocks"))
\* mutant: the guard of conf is kept while the loop is asked for its peers
Unreached_Kept == <<Read("conf"), Call, Drop("conf")>>
Unreached == <<Call>> \o Briefly(Read("conf"))
BlockOrderVote == {Unreached, Entered \o Passed \o Removed, Entered \o VotedDown \o Removed}

\* publish: no peers, voted down, or on to the ballot on its place.
Publish == {<<Call>>, Unreached, <<Call>> \o AwaitVotes}
            \cup {<<Call>> \o AwaitVotes \o p : p \in BlockOrderVote}

\* await_votes_tx.
Timer(e) == AwaitVotes \o <<Send(e)>>

\* send_update: a request to each of some subscribers.
Tell == {<<Read("subscribed_nodes")>> \o [i \in 1 .. n |-> Call] \o <<Drop("subscribed_nodes")>> :
            n \in 0 .. 2}

\* Of the master's own configuration, that of others, and the list of masters, where the
\* call for its address may panic.
SendUpdate ==
    {Briefly(Write("conf")) \o t : t \in Tell \cup {<<>>}} \cup Tell
        \cup {<<Call>> \o t : t \in Tell \cup {<<>>}}

HelloSubscribe == {<<Write("subscribed_nodes"), Call, Drop("subscribed_nodes")>>}

\* A message of gossip to the loop: passed on, or a valid block, which is voted for.
Gossip == {<<Send(e)>> : e \in {"Vote", "SerialVote", "ArchiveBlock"}}
            \cup {Briefly(Read("conf")), Briefly(Read("conf")) \o <<Send("NewBlock")>>}

\* handle_incoming_data, by event.
Handling(e) ==
    CASE e = "SerialVote"   -> {Briefly(Write("approved_blocks"))}
      [] e = "NewBlock"     -> {<<Spawn("PendingBlockTimeout")>>}
      [] e = "ArchiveBlock" -> {<<Call>>, <<Spawn("ApprovedBlockTimeout"), Call, Call>>}
      [] e = "ApprovedBlockTimeout" ->
            {<<>>, Briefly(Read("approved_blocks")),
             Briefly(Read("approved_blocks")) \o Briefly(Write("approved_blocks"))}
      [] OTHER -> {<<>>}

-----------------------------------------------------------------------------
(* Waiting.                                                                *)

Busy(a)   == todo[a] # <<>>
At(a, do) == Busy(a) /\ Head(todo[a]).do = do
What(a)   == Head(todo[a]).what

\* The loop blocks the thread it runs on; the handler and send_update have threads.  (With
\* one worker WaitsEnd is false: a ballot whose guard the loop waits behind cannot end.)
OwnThread == Updates \cup {Loop, Handler}
Runs(a)   == a \in OwnThread \/ ~Busy(Loop) \/ Workers > 1

\* What a drops before it waits again; Free is what becomes of the locks.
Drops(a) ==
    LET path == Tail(todo[a])
    IN  CHOOSE n \in 0 .. Len(path) :
            /\ \A i \in 1 .. n : path[i].do = "drop"
            /\ n = Len(path) \/ path[n + 1].do # "drop"
After(a)  == SubSeq(todo[a], Drops(a) + 2, Len(todo[a]))
Free(a, locks) ==
    LET dropped == {todo[a][i].what : i \in 2 .. Drops(a) + 1}
    IN  [l \in Locks |-> IF l \in dropped
                         THEN [locks[l] EXCEPT !.held = {h \in @ : h[1] # a}] ELSE locks[l]]

\* a need no longer wait for the first of its todo.
Advance(a, locks) ==
    /\ todo' = [todo EXCEPT ![a] = After(a)]
    /\ lock' = Free(a, locks)

\* mutant: a writer only waits for writers
Compatible_Readers(mode, held) == \A h \in held : h[2] # "write"
Compatible(mode, held) == held = {} \/ (mode = "read" /\ \A h \in held : h[2] = "read")

Entering(a, l, wait) ==
    Advance(a, [lock EXCEPT ![l] = [held |-> @.held \cup {<<a, Head(todo[a]).do>>}, wait |-> wait]])

InLine(a, l) == \E i \in DOMAIN lock[l].wait : lock[l].wait[i][1] = a

\* Tokio's locks serve who waits in the order they came, whoever could pass.
CanLock(a) == Runs(a) /\ (At(a, "read") \/ At(a, "write")) /\ ~InLine(a, What(a))
Lock(a) ==
    /\ CanLock(a)
    /\ LET l == What(a)
           mode == Head(todo[a]).do
       IN  IF lock[l].wait = <<>> /\ Compatible(mode, lock[l].held)
           THEN Entering(a, l, <<>>)
           ELSE /\ lock' = [lock EXCEPT ![l].wait = Append(@, <<a, mode>>)]
                /\ UNCHANGED todo
    /\ UNCHANGED <<started, queue, calls, gossiped>>

CanGrant(l) == lock[l].wait # <<>> /\ Compatible(Head(lock[l].wait)[2], lock[l].held)
Grant(l) ==
    /\ CanGrant(l)
    /\ Entering(Head(lock[l].wait)[1], l, Tail(lock[l].wait))
    /\ UNCHANGED <<started, queue, calls, gossiped>>

\* A call, and the question how many peers there are that a ballot asks again and again.
CanAsk(a) ==
    /\ Runs(a) /\ (At(a, "call") \/ At(a, "vote"))
    /\ ~Contains(calls, a) /\ Len(calls) < CallCap
AskLoop(a) ==
    /\ CanAsk(a)
    /\ calls' = Append(calls, a)
    /\ UNCHANGED <<todo, started, lock, queue, gossiped>>

\* mutant: the time is only looked at between two questions
VoteOver_Patient(a) ==
    /\ Runs(a) /\ At(a, "vote") /\ ~Contains(calls, a)
    /\ Advance(a, lock)
    /\ UNCHANGED <<started, queue, calls, gossiped>>
\* The time is over, whatever the ballot waits for: its question stays in the channel,
\* and is answered to nobody.
CanEnd(a) == Runs(a) /\ At(a, "vote")
VoteOver(a) ==
    /\ CanEnd(a)
    /\ Advance(a, lock)
    /\ calls' = [i \in DOMAIN calls |-> IF calls[i] = a THEN "nobody" ELSE calls[i]]
    /\ UNCHANGED <<started, queue, gossiped>>

CanSend(a) == Runs(a) /\ At(a, "send") /\ Len(queue) < QueueCap
SendEvent(a) ==
    /\ CanSend(a)
    /\ queue' = Append(queue, What(a))
    /\ Advance(a, lock)
    /\ UNCHANGED <<started, calls, gossiped>>

-----------------------------------------------------------------------------
(* Loop, handler and the tasks they begin.                                 *)

CanAnswer == ~Busy(Loop) /\ calls # <<>>
Answer ==
    /\ CanAnswer
    /\ calls' = Tail(calls)
    /\ IF Head(calls) \in Actors /\ At(Head(calls), "call")
       THEN Advance(Head(calls), lock) ELSE UNCHANGED <<todo, lock>>
    /\ UNCHANGED <<started, queue, gossiped>>

Room == gossiped + Cardinality(started \ Voters) < MaxLoad

Receive(path) ==
    /\ ~Busy(Loop) /\ gossiped < MaxGossip /\ Room
    /\ gossiped' = gossiped + 1
    /\ todo' = [todo EXCEPT ![Loop] = path]
    /\ UNCHANGED <<started, lock, queue, calls>>

CanHandle == ~Busy(Handler) /\ queue # <<>>
HandleEvent ==
    /\ CanHandle
    /\ queue' = Tail(queue)
    /\ \E path \in Handling(Head(queue)) : todo' = [todo EXCEPT ![Handler] = path]
    /\ UNCHANGED <<started, lock, calls, gossiped>>

\* Which of the idle ones a new task is called does not matter.
SpawnVoter ==
    /\ At(Handler, "spawn")
    /\ LET v == CHOOSE x \in Voters : x \notin started
       IN  /\ started' = started \cup {v}
           /\ todo' = [todo EXCEPT ![Handler] = Tail(@), ![v] = Timer(What(Handler))]
    /\ UNCHANGED <<lock, queue, calls, gossiped>>

Start(a, path) ==
    /\ a \notin started /\ Runs(a) /\ Room
    /\ started' = started \cup {a}
    /\ todo' = [todo EXCEPT ![a] = path]
    /\ UNCHANGED <<lock, queue, calls, gossiped>>

-----------------------------------------------------------------------------
Init ==
    /\ todo = [a \in Actors |-> <<>>]
    /\ started = {}
    /\ lock = [l \in Locks |-> [held |-> {}, wait |-> <<>>]]
    /\ queue = <<>> /\ calls = <<>>
    /\ gossiped = 0

Begin ==
    \/ \E a \in Orders, path \in Publish : Start(a, path)
    \/ \E a \in Updates, path \in SendUpdate : Start(a, path)
    \/ \E a \in Joins, path \in HelloSubscribe : Start(a, path)
    \/ \E path \in Gossip : Receive(path)

Work(a)  == Lock(a) \/ AskLoop(a) \/ SendEvent(a)
Handle   == HandleEvent \/ SpawnVoter
Progress == Answer \/ Handle \/ (\E a \in Actors : Work(a)) \/ \E l \in Locks : Grant(l)
TimerEnds == \E a \in Orders \cup Voters : VoteOver(a)

Next == Begin \/ Progress \/ TimerEnds

Spec == Init /\ [][Next]_vars

\* The runtime goes on as long as anyone can, and timers end.  Nobody has to send an
\* order or a message.
Fairness == WF_vars(Progress) /\ WF_vars(TimerEnds)

FairSpec == Spec /\ Fairness

-----------------------------------------------------------------------------
(* Properties.                                                             *)

\* Actors wait for what there is to wait for, channels keep their bounds, and a lock is
\* held by readers or by one writer, who have it to drop.
TypeOK ==
    /\ todo \in [Actors -> Seq(Op)]
    /\ started \subseteq Tasks /\ gossiped \in 0 .. MaxGossip
    /\ queue \in Seq(Events) /\ Len(queue) <= QueueCap
    /\ calls \in Seq(Actors \cup {"nobody"}) /\ Len(calls) <= CallCap
    /\ \A l \in Locks :
        /\ \A g, h \in lock[l].held : g # h => g[2] = "read" /\ h[2] = "read"
        /\ \A a \in Actors : Contains(todo[a], Drop(l)) \/ \A h \in lock[l].held : h[1] # a

\* The one circle that does not open again: the loop sends into a full channel whose
\* receiver waits for the loop's answer (net_behavior.rs 137, activity.rs 336).
Jam == At(Loop, "send") /\ Len(queue) = QueueCap /\ At(Handler, "call")

\* b has to do something before a can go on: it has the lock a waits for, or comes before a
\* in line; it has to answer, to make room, or to leave the only thread.
WaitsFor(a, b) ==
    \/ \E l \in Locks : \E i \in DOMAIN lock[l].wait :
        /\ lock[l].wait[i][1] = a
        /\ \/ \E h \in lock[l].held : h[1] = b /\ ~Compatible(lock[l].wait[i][2], {h})
           \/ \E j \in 1 .. i - 1 : lock[l].wait[j][1] = b
    \/ b = Loop /\ Busy(Loop) /\ (At(a, "call") \/ (Busy(a) /\ ~Runs(a)))
    \/ b = Handler /\ Busy(Handler) /\ At(a, "send") /\ Len(queue) = QueueCap

\* Whatever a waits for, there is a step that serves it, or the line it stands in.
Goes(a) ==
    \/ CanLock(a) \/ CanSend(a) \/ (a \in Orders \cup Voters /\ CanEnd(a))
    \/ At(a, "call") /\ (CanAsk(a) \/ CanAnswer)
    \/ At(a, "send") /\ CanHandle
    \/ a = Handler /\ At(a, "spawn") /\ Voters \ started # {}
    \/ \E l \in Locks : CanGrant(l) /\ Head(lock[l].wait)[1] = a

Opens(D) == \E a \in D : \A b \in D : ~WaitsFor(a, b)

\* No actors wait for each other in a circle but in a jam, and who waits for nobody can go
\* on: the locks of a master, three of them kept across waits, are taken in an order.
NoCircle ==
    /\ \A D \in (SUBSET Actors) \ {{}} : Opens(D) \/ (Jam /\ {Loop, Handler} \subseteq D)
    /\ \A a \in Actors : Busy(a) => Goes(a) \/ \E b \in Actors : WaitsFor(a, b)

\* No other wait is for ever (the guard that lives through a ballot, activity.rs 195; the
\* blocked loop, net_behavior.rs 190; requests under the lock of subscribers,
\* activity.rs 787): a writer of conf may hold up the loop, and with it the questions of
\* the ballots it waits for, but these end by their timers.
WaitsEnd == \A a \in Actors : Busy(a) ~> (~Busy(a) \/ Jam)
=============================================================================
