------------------------------ MODULE NodeSync ------------------------------
(***************************************************************************)
(* A master and its normal nodes: how a node fetches its configuration and *)
(* subscribes, how a master pushes configurations and the list of masters, *)
(* and how it asks a node for statistics on behalf of a client.            *)
(*                                                                         *)
(* Every request travels on a substream of its own, so messages overtake   *)
(* each other.  Each side keeps a map from the id of a request to the      *)
(* receiver that waits for the answer, and enters the receiver after the   *)
(* request has been sent.                                                  *)
(*                                                                         *)
(* Abstractions: what a configuration says is the change that wrote it;    *)
(* the pool of connections is one connection per node; lists of masters    *)
(* travel without their contents; reports are stored without effect on     *)
(* what is modelled here and are left out.                                 *)
(***************************************************************************)
EXTENDS Naturals, Sequences, SequencesExt, FiniteSets

CONSTANTS Nodes,        \* normal nodes
          Self,         \* the master, which has a configuration too
          Configs,      \* names of configurations
          DefaultName,  \* the one every node starts with
          Stats,        \* requests for statistics
          Target,       \* the node each of them asks about, or Self
          MaxEvents,    \* bound: orders and requests for statistics, together
          MaxFaults     \* bound: connections and programs that end, together

ASSUME ConstantsAssumption ==
    /\ Self \notin Nodes /\ DefaultName \in Configs
    /\ Target \in [Stats -> Nodes \cup {Self}]
    /\ {MaxEvents, MaxFaults} \subseteq Nat

VARIABLES tables,   \* [conf, content]: the master's tables node and config
          known,    \* nodes in node_peerid
          subs,     \* subscribed_nodes: per configuration, a list of nodes
          own,      \* [name, held]: conf_name and conf of the master
          pushes,   \* running tasks of send_update
          mresp,    \* ids of requests for statistics with a receiver in resp
          stat,     \* stat[s]: the task of get_stats
          node,     \* node[n]: see Off
          net,      \* messages under way
          count,    \* how often what is bounded has happened
          cause     \* history: why a node may hold an old configuration

vars == <<tables, known, subs, own, pushes, mresp, stat, node, net, count, cause>>
master == <<tables, known, subs, own, pushes>>

-----------------------------------------------------------------------------
(* Data.                                                                   *)

Members == Nodes \cup {Self}
Changes == 0 .. MaxEvents
Value   == [name : Configs, rev : Changes]

\* NodeConfig::default, which is also what the first block writes.
DefaultValue == [name |-> DefaultName, rev |-> 0]

Content(c) == [name |-> c, rev |-> tables.content[c]]
Current(n) == Content(tables.conf[n])

\* A message to or from node n.  id tells requests of one kind apart, copy the
\* copies a node gets that is subscribed more than once.
Msg(kind, n, id, copy, value) ==
    [kind |-> kind, node |-> n, id |-> id, copy |-> copy, value |-> value]

ToMaster == {"Hello", "MasterNodeList", "NodeConfig", "HelloSubscribe", "Subscribing",
             "GetStatsIs", "ErrorIs"}
ToNode   == {"MasterNodeListIs", "NodeConfigIs", "UpdateConfig", "UpdateMasterNodeList", "GetStats"}
Carriers == {"NodeConfigIs", "UpdateConfig"}     \* those that carry a configuration

Pcs == {"off", "dead", "wait", "choose", "ask", "register", "both", "await", "store", "adopt",
        "subscribe", "synced"}

\* A node: its synchronisation task, the receivers in its map resp, the answers
\* they got, its table of the configuration (cache), its configuration, and its tasks
\* between the two writes of an update.
Off == [pc |-> "off", up |-> FALSE, resp |-> {}, got |-> {}, cache |-> DefaultValue,
        held |-> DefaultValue, updating |-> {}]

Running(n) == node[n].pc \notin {"off", "dead"}

\* The receiver an answer is for.  (Mutant: whichever waits for that peer.)
Slot_AnyOfPeer(waiting, id) == waiting
Slot(waiting, id) == waiting \cap {id}


-----------------------------------------------------------------------------
(* What is on its way to a node: an answer or a push that holds a          *)
(* configuration and has not been taken over yet.                          *)

PushTo(p, n) ==
    CASE p.kind = "config" -> \/ tables.conf[n] = p.name
                              \/ n \in Nodes /\ Contains(subs[p.name], n)
                              \/ n = Self /\ (own.name = p.name \/ p.at = "write")
      [] p.kind = "move"   -> p.node = n
      [] OTHER             -> FALSE

OnTheWay(n) ==
    \/ \E p \in pushes : PushTo(p, n)
    \/ \E m \in net : m.node = n /\ m.kind \in Carriers
    \/ n \in Nodes /\ (node[n].updating # {} \/ node[n].pc \in {"store", "adopt"}
                       \/ \E g \in node[n].got : g.id = "NodeConfig")

\* The cause recorded for a node to which one called c sets out as well.
Crossing(n, c) ==
    IF OnTheWay(n) \/ \E p \in pushes : p.kind = "config" /\ p.name = c THEN {"overlap"} ELSE {}

-----------------------------------------------------------------------------
(* Orders, once they are applied (OrderRules): each starts a task.  What    *)
(* the environment asks for is bounded, and numbers the orders.            *)

Event == count.events < MaxEvents /\ count' = [count EXCEPT !.events = @ + 1]
Fault == count.faults < MaxFaults /\ count' = [count EXCEPT !.faults = @ + 1]

Task(k, kind, n, c) ==
    [id |-> k, kind |-> kind, node |-> n, name |-> c,
     value |-> IF kind = "config" THEN [name |-> c, rev |-> k] ELSE DefaultValue,
     at |-> IF kind = "config" THEN "own" ELSE "read"]

Order(kind, n, c) ==
    /\ Event
    /\ LET k == count.events + 1
       IN  /\ pushes' = pushes \cup {Task(k, kind, n, c)}
           /\ tables' = CASE kind = "config" -> [tables EXCEPT !.content[c] = k]
                          [] kind = "move"   -> [tables EXCEPT !.conf[n] = c]
                          [] OTHER           -> tables
           /\ cause' = [m \in Members |->
                            IF kind # "list" /\ PushTo(Task(k, kind, n, c), m)
                            THEN cause[m] \cup Crossing(m, c) ELSE cause[m]]
    /\ UNCHANGED <<known, subs, own, mresp, stat, node, net>>

SetConfig(c)           == Order("config", Self, c)
ChangeNodeConfig(n, c) == tables.conf[n] # c /\ Order("move", n, c)
ChangeMasters          == Order("list", Self, DefaultName)

-----------------------------------------------------------------------------
(* send_update.                                                            *)

Step(p, at) == pushes' = (pushes \ {p}) \cup {[p EXCEPT !.at = at]}
Finish(p)   == pushes' = pushes \ {p}

\* A configuration of the master's own: compare the name, then take the lock.
CompareName(p) ==
    /\ p.at = "own" /\ p.kind = "config"
    /\ Step(p, IF own.name = p.name THEN "write" ELSE "send")
    /\ UNCHANGED <<tables, known, subs, own, mresp, stat, node, net, count, cause>>

WriteOwn(p) ==
    /\ p.at = "write"
    /\ own' = IF p.kind = "move" THEN [name |-> p.name, held |-> p.value]
                                 ELSE [own EXCEPT !.held = p.value]
    /\ IF p.kind = "move" THEN Finish(p) ELSE Step(p, "send")
    /\ UNCHANGED <<tables, known, subs, mresp, stat, node, net, count, cause>>

\* A change of a node's configuration, or of the masters, reads the tables.
ReadTables(p) ==
    /\ p.at = "read"
    /\ pushes' = (pushes \ {p}) \cup
            {[p EXCEPT !.at = IF p.kind = "move" /\ p.node = Self THEN "write" ELSE "send",
                       !.value = IF p.kind = "move" THEN Content(p.name) ELSE @]}
    /\ UNCHANGED <<tables, known, subs, own, mresp, stat, node, net, count, cause>>

Subscribed(n) == \E c \in Configs : Contains(subs[c], n)

\* mutant: a moved node is looked for where it will be
GroupsOf_New(p) == {p.name}
GroupsOf(p)     == Configs

Sent(p) ==
    CASE p.kind = "config" ->
            {Msg("UpdateConfig", subs[p.name][i], p.id, i, p.value) : i \in DOMAIN subs[p.name]}
      [] p.kind = "move" ->
            {Msg("UpdateConfig", n, p.id, 1, p.value) :
                n \in {x \in {p.node} : \E c \in GroupsOf(p) : Contains(subs[c], x)}}
      [] OTHER ->
            UNION {{Msg("UpdateMasterNodeList", subs[c][i], p.id, i, p.value) : i \in DOMAIN subs[c]}
                        : c \in Configs}

\* A request to a node without a connection fails; nobody looks at the failure.
Reaching(msgs) == {m \in msgs : node[m.node].up}

Missed(p, n) ==
    CASE p.kind = "config" ->
            (IF tables.conf[n] = p.name /\ ~Contains(subs[p.name], n) THEN {"gap"} ELSE {})
            \cup (IF tables.conf[n] # p.name /\ Contains(subs[p.name], n) THEN {"stranger"} ELSE {})
      [] p.kind = "move" -> IF p.node = n /\ ~Subscribed(n) THEN {"gap"} ELSE {}
      [] OTHER -> {}

\* The lock of subscribed_nodes is held from the lookup to the last request.
SendUpdates(p) ==
    /\ p.at = "send"
    /\ net' = net \cup Reaching(Sent(p))
    /\ Finish(p)
    /\ cause' = [n \in Members |->
                    IF n = Self THEN cause[n]
                    ELSE cause[n] \cup Missed(p, n)
                         \cup (IF \E m \in Sent(p) : m.node = n /\ m.kind \in Carriers /\ ~node[n].up
                               THEN {"lost"} ELSE {})]
    /\ UNCHANGED <<tables, known, subs, own, mresp, stat, node, count>>

\* The swarm has no external address to answer with: the task ends in a panic.
AddressPanics(p) ==
    /\ p.kind = "list" /\ p.at = "send"
    /\ Finish(p)
    /\ UNCHANGED <<tables, known, subs, own, mresp, stat, node, net, count, cause>>

-----------------------------------------------------------------------------
(* Requests of nodes at the master; each runs in a task of its own.        *)

\* A node is known by its peer id once its Hello has been handled.
HandleHello(m) ==
    /\ m.kind = "Hello"
    /\ known' = known \cup {m.node}
    /\ net' = net \ {m}
    /\ UNCHANGED <<tables, subs, own, pushes, mresp, stat, node, count, cause>>

HandleMasterNodeList(m) ==
    /\ m.kind = "MasterNodeList"
    /\ net' = (net \ {m}) \cup
            {Msg("MasterNodeListIs", m.node, m.id, 1, DefaultValue)}
    /\ UNCHANGED <<master, mresp, stat, node, count, cause>>

\* An unknown peer is answered Error, which a node does not hand to its receiver.
HandleNodeConfig(m) ==
    /\ m.kind = "NodeConfig"
    /\ \/ /\ m.node \in known
          /\ net' = (net \ {m}) \cup {Msg("NodeConfigIs", m.node, m.id, 1, Current(m.node))}
          /\ cause' = [cause EXCEPT ![m.node] = Crossing(m.node, tables.conf[m.node])]
       \/ /\ m.node \notin known
          /\ net' = net \ {m}
          /\ UNCHANGED cause
    /\ UNCHANGED <<master, mresp, stat, node, count>>

\* The name of the group is read before the lock on the groups is taken.
HandleSubscribe(m) ==
    /\ m.kind = "HelloSubscribe"
    /\ net' = (net \ {m}) \cup
            (IF m.node \in known THEN {[m EXCEPT !.kind = "Subscribing", !.value = Current(m.node)]}
                                 ELSE {})
    /\ UNCHANGED <<master, mresp, stat, node, count, cause>>

EnterGroup(m) ==
    /\ m.kind = "Subscribing"
    /\ subs' = [subs EXCEPT ![m.value.name] = Append(@, m.node)]
    /\ net' = net \ {m}
    /\ UNCHANGED <<tables, known, own, pushes, mresp, stat, node, count, cause>>

-----------------------------------------------------------------------------
(* Statistics for a client.                                                *)

Answers == [kind : {"none", "GetStats", "ReqError", "NodeInactive", "RequestTimeout"},
            of : Stats \cup {0}]
Answer(kind, s) == [kind |-> kind, of |-> s]
Unasked == [at |-> "idle", answer |-> Answer("none", 0)]

Settle(s, a) == stat' = [stat EXCEPT ![s] = [at |-> "answered", answer |-> a]]

AskStats(s) ==
    /\ stat[s].at = "idle"
    /\ Event
    /\ stat' = [stat EXCEPT ![s].at = "asked"]
    /\ UNCHANGED <<master, mresp, node, net, cause>>

\* The master itself, or a peer that is not there, needs no request.
LookUp(s) ==
    /\ stat[s].at = "asked"
    /\ \/ /\ Target[s] = Self
          /\ \E a \in {Answer("GetStats", s), Answer("ReqError", 0)} : Settle(s, a)
       \/ /\ Target[s] # Self /\ node[Target[s]].up
          /\ stat' = [stat EXCEPT ![s].at = "present"]
       \/ /\ Target[s] # Self /\ ~node[Target[s]].up
          /\ Settle(s, Answer("NodeInactive", 0))
    /\ UNCHANGED <<master, mresp, node, net, count, cause>>

SendGetStats(s) ==
    /\ stat[s].at = "present"
    /\ net' = net \cup Reaching({Msg("GetStats", Target[s], s, 1, DefaultValue)})
    /\ stat' = [stat EXCEPT ![s].at = "sent"]
    /\ UNCHANGED <<master, mresp, node, count, cause>>

AwaitStats(s) ==
    /\ stat[s].at = "sent"
    /\ mresp' = mresp \cup {s}
    /\ stat' = [stat EXCEPT ![s].at = "waiting"]
    /\ UNCHANGED <<master, node, net, count, cause>>

\* mutant: a request that is never given up
Timeout_Never(s) == FALSE /\ UNCHANGED vars
\* The receiver stays in the map.
Timeout(s) ==
    /\ stat[s].at = "waiting"
    /\ Settle(s, Answer("RequestTimeout", 0))
    /\ UNCHANGED <<master, mresp, node, net, count, cause>>

\* An answer that nobody waits for, or that came before the receiver, is dropped.
HandleStats(m) ==
    /\ m.kind \in {"GetStatsIs", "ErrorIs"}
    /\ LET waiting == Slot(mresp, m.id)
       IN  /\ mresp' = mresp \ waiting
           /\ stat' = [s \in Stats |->
                        IF s \in waiting /\ stat[s].at = "waiting"
                        THEN [at |-> "answered",
                              answer |-> IF m.kind = "GetStatsIs" THEN Answer("GetStats", m.id)
                                                                  ELSE Answer("ReqError", 0)]
                        ELSE stat[s]]
    /\ net' = net \ {m}
    /\ UNCHANGED <<master, node, count, cause>>

-----------------------------------------------------------------------------
(* A node's life: start, synchronise, subscribe.                           *)

Set(n, new) == node' = [node EXCEPT ![n] = new]

Start(n) ==
    /\ ~Running(n)
    /\ count' = [count EXCEPT !.lives[n] = @ + 1]
    /\ Set(n, [Off EXCEPT !.pc = "wait", !.cache = node[n].cache, !.held = node[n].cache])
    /\ UNCHANGED <<master, mresp, stat, net, cause>>

\* Every new connection is greeted.
Connect(n) ==
    /\ Running(n) /\ ~node[n].up
    /\ Set(n, [node[n] EXCEPT !.up = TRUE])
    /\ net' = net \cup {Msg("Hello", n, count.lives[n], 1, DefaultValue)}
    /\ UNCHANGED <<master, mresp, stat, count, cause>>

SeePeer(n) ==
    /\ node[n].pc = "wait" /\ node[n].up
    /\ Set(n, [node[n] EXCEPT !.pc = "choose"])
    /\ UNCHANGED <<master, mresp, stat, net, count, cause>>

Ask(n, kind) == Reaching({Msg(kind, n, count.lives[n], 1, DefaultValue)})

Choose(n) ==
    /\ node[n].pc = "choose" /\ node[n].up
    /\ net' = net \cup Ask(n, "MasterNodeList")
    /\ Set(n, [node[n] EXCEPT !.pc = "register"])
    /\ UNCHANGED <<master, mresp, stat, count, cause>>

\* The peer has gone in the meantime: soft restart.
ChooseNobody(n) ==
    /\ node[n].pc = "choose" /\ ~node[n].up
    /\ Set(n, [node[n] EXCEPT !.pc = "off"])
    /\ UNCHANGED <<master, mresp, stat, net, count, cause>>

Register(n) ==
    /\ node[n].pc = "register"
    /\ net' = net \cup Ask(n, "NodeConfig")
    /\ Set(n, [node[n] EXCEPT !.pc = "both", !.resp = @ \cup {"MasterNodeList"}])
    /\ UNCHANGED <<master, mresp, stat, count, cause>>

\* mutant: one slot for a peer instead of one for a request
RegisterBoth_Overwrites(n) ==
    /\ node[n].pc = "both"
    /\ Set(n, [node[n] EXCEPT !.pc = "await", !.resp = {"NodeConfig"}])
    /\ UNCHANGED <<master, mresp, stat, net, count, cause>>
RegisterBoth(n) ==
    /\ node[n].pc = "both"
    /\ Set(n, [node[n] EXCEPT !.pc = "await", !.resp = @ \cup {"NodeConfig"}])
    /\ UNCHANGED <<master, mresp, stat, net, count, cause>>

Reply == [MasterNodeList |-> "MasterNodeListIs", NodeConfig |-> "NodeConfigIs"]

HandleReply(n, m) ==
    /\ Running(n) /\ m.node = n /\ m.kind \in {"MasterNodeListIs", "NodeConfigIs"}
    /\ LET asked   == CHOOSE k \in DOMAIN Reply : Reply[k] = m.kind
           waiting == Slot(node[n].resp, asked)
       IN  Set(n, [node[n] EXCEPT !.resp = @ \ waiting,
                                  !.got = @ \cup {[id |-> k, kind |-> m.kind, value |-> m.value] : k \in waiting}])
    /\ net' = net \ {m}
    /\ UNCHANGED <<master, mresp, stat, count, cause>>

Got(n, k) == CHOOSE g \in node[n].got : g.id = k

\* Both answers are there; one of the wrong kind ends the program.
TakeAnswers(n) ==
    /\ node[n].pc = "await"
    /\ {g.id : g \in node[n].got} = {"MasterNodeList", "NodeConfig"}
    /\ Set(n, [node[n] EXCEPT !.pc = IF \A k \in DOMAIN Reply : Got(n, k).kind = Reply[k]
                                     THEN "store" ELSE "dead"])
    /\ UNCHANGED <<master, mresp, stat, net, count, cause>>

Store(n) ==
    /\ node[n].pc = "store"
    /\ Set(n, [node[n] EXCEPT !.pc = "adopt", !.cache = Got(n, "NodeConfig").value])
    /\ UNCHANGED <<master, mresp, stat, net, count, cause>>

Adopt(n) ==
    /\ node[n].pc = "adopt"
    /\ Set(n, [node[n] EXCEPT !.pc = "subscribe", !.held = Got(n, "NodeConfig").value, !.got = {}])
    /\ UNCHANGED <<master, mresp, stat, net, count, cause>>

Subscribe(n) ==
    /\ node[n].pc = "subscribe"
    /\ net' = net \cup Ask(n, "HelloSubscribe")
    /\ Set(n, [node[n] EXCEPT !.pc = "synced"])
    /\ UNCHANGED <<master, mresp, stat, count, cause>>

-----------------------------------------------------------------------------
(* Requests of the master at a node.                                       *)

UpdateCache(n, m) ==
    /\ Running(n) /\ m.node = n /\ m.kind = "UpdateConfig"
    /\ Set(n, [node[n] EXCEPT !.cache = m.value, !.updating = @ \cup {m}])
    /\ net' = net \ {m}
    /\ UNCHANGED <<master, mresp, stat, count, cause>>

UpdateHeld(n, m) ==
    /\ m \in node[n].updating
    /\ Set(n, [node[n] EXCEPT !.held = m.value, !.updating = @ \ {m}])
    /\ UNCHANGED <<master, mresp, stat, net, count, cause>>

UpdateMasters(n, m) ==
    /\ Running(n) /\ m.node = n /\ m.kind = "UpdateMasterNodeList"
    /\ net' = net \ {m}
    /\ UNCHANGED <<master, mresp, stat, node, count, cause>>

MakeStats(n, m) ==
    /\ Running(n) /\ m.node = n /\ m.kind = "GetStats"
    /\ \E kind \in {"GetStatsIs", "ErrorIs"} : net' = (net \ {m}) \cup {[m EXCEPT !.kind = kind]}
    /\ UNCHANGED <<master, mresp, stat, node, count, cause>>

-----------------------------------------------------------------------------
(* What goes wrong around them.                                            *)

Carried(n) == \E m \in net : m.node = n /\ m.kind \in Carriers

\* The connection closes, and with it every message of the node; the handler of
\* the master that removes subscribers is empty.
Lost(n)    == {m \in net : m.node = n /\ m.kind # "Subscribing"}
Disconnect(n) ==
    /\ node[n].up
    /\ Fault
    /\ Set(n, [node[n] EXCEPT !.up = FALSE])
    /\ net' = net \ Lost(n)
    /\ cause' = [cause EXCEPT ![n] = @ \cup IF Carried(n) THEN {"lost"} ELSE {}]
    /\ UNCHANGED <<master, mresp, stat>>

\* The node's process ends; its tables stay.
Crash(n) ==
    /\ Running(n)
    /\ Fault
    /\ Set(n, [node[n] EXCEPT !.pc = "off", !.up = FALSE, !.resp = {}, !.got = {}, !.updating = {}])
    /\ net' = net \ Lost(n)
    /\ cause' = [cause EXCEPT ![n] = @ \cup {"lost"}]
    /\ UNCHANGED <<master, mresp, stat>>

\* The master stops and starts: what is in memory goes, its own configuration is
\* read from the tables.
Restart ==
    /\ Fault
    /\ subs' = [c \in Configs |-> <<>>]
    /\ own' = [name |-> tables.conf[Self], held |-> Current(Self)]
    /\ cause' = [n \in Members |->
                    IF n = Self THEN {}
                    ELSE cause[n] \cup IF \E p \in pushes : PushTo(p, n) THEN {"lost"}
                                       ELSE IF Carried(n) THEN {"lost"} ELSE {}]
    /\ pushes' = {} /\ mresp' = {} /\ net' = {}
    /\ node' = [n \in Nodes |-> [node[n] EXCEPT !.up = FALSE]]
    /\ stat' = [s \in Stats |-> IF stat[s].at \in {"idle", "answered"} THEN stat[s]
                                ELSE [stat[s] EXCEPT !.at = "lost"]]
    /\ UNCHANGED <<tables, known>>

-----------------------------------------------------------------------------
Init ==
    /\ tables = [conf |-> [n \in Members |-> DefaultName], content |-> [c \in Configs |-> 0]]
    /\ known = {} /\ subs = [c \in Configs |-> <<>>]
    /\ own = [name |-> DefaultName, held |-> DefaultValue]
    /\ pushes = {} /\ mresp = {} /\ net = {}
    /\ stat = [s \in Stats |-> Unasked]
    /\ node = [n \in Nodes |-> Off]
    /\ count = [events |-> 0, faults |-> 0, lives |-> [n \in Nodes |-> 0]]
    /\ cause = [n \in Members |-> {}]

Orders     == (\E c \in Configs : SetConfig(c) \/ \E n \in Members : ChangeNodeConfig(n, c)) \/ ChangeMasters
Push(p)    == CompareName(p) \/ WriteOwn(p) \/ ReadTables(p) \/ SendUpdates(p) \/ AddressPanics(p)
AtMaster(m) == HandleHello(m) \/ HandleMasterNodeList(m) \/ HandleNodeConfig(m) \/ HandleSubscribe(m)
                \/ EnterGroup(m) \/ HandleStats(m)
StatsStep(s) == LookUp(s) \/ SendGetStats(s) \/ AwaitStats(s) \/ Timeout(s)
SyncStep(n) == SeePeer(n) \/ Choose(n) \/ ChooseNobody(n) \/ Register(n) \/ RegisterBoth(n)
                \/ TakeAnswers(n) \/ Store(n) \/ Adopt(n) \/ Subscribe(n)
AtNode(n, m) == HandleReply(n, m) \/ UpdateCache(n, m) \/ UpdateMasters(n, m) \/ MakeStats(n, m)
Faults     == (\E n \in Nodes : Disconnect(n) \/ Crash(n)) \/ Restart

Next ==
    \/ Orders
    \/ \E p \in pushes : Push(p)
    \/ \E m \in net : AtMaster(m) \/ \E n \in Nodes : AtNode(n, m)
    \/ \E s \in Stats : AskStats(s) \/ StatsStep(s)
    \/ \E n \in Nodes : Start(n) \/ Connect(n) \/ SyncStep(n) \/ \E m \in node[n].updating : UpdateHeld(n, m)
    \/ Faults

Spec == Init /\ [][Next]_vars

\* The master's tasks run and a timer ends.  Messages may be lost, and nobody has
\* to start a node or a request.
Fairness == \A s \in Stats : WF_vars(StatsStep(s))

FairSpec == Spec /\ Fairness

-----------------------------------------------------------------------------
(* Properties.                                                             *)

\* Tables, tasks, maps, nodes and messages have their types; who waits (async_sync
\* 264-300, get_stats 723-772) has a receiver in its map for every answer it lacks.
TypeOK ==
    /\ tables \in [conf : [Members -> Configs], content : [Configs -> Changes]]
    /\ known \subseteq Nodes /\ subs \in [Configs -> Seq(Nodes)]
    /\ own \in [name : Configs, held : Value]
    /\ mresp \subseteq Stats
    /\ \A s \in Stats : /\ stat[s].answer \in Answers
                        /\ stat[s].at = "waiting" => s \in mresp
    /\ \A n \in Nodes : /\ node[n].pc \in Pcs
                        /\ {node[n].cache, node[n].held} \subseteq Value
                        /\ node[n].pc = "await" =>
                                node[n].resp \cup {g.id : g \in node[n].got} = DOMAIN Reply
    /\ \A m \in net : m.kind \in ToMaster \cup ToNode /\ m.node \in Nodes /\ m.value \in Value
    /\ \A p \in pushes : p.value \in Value /\ p.at \in {"own", "write", "read", "send"}

\* Why a configuration can be out of date (node/activity.rs 302-313, send_update):
\* a node that has synchronised and to which nothing is on its way holds its
\* current configuration, unless since it last asked for it a push was lost, two
\* crossed, it was not in the group of its configuration when that changed, or it
\* was in the group of another.  For the master itself only crossing remains.
StaleHasCause ==
    /\ \A n \in Nodes :
        node[n].pc = "synced" /\ ~OnTheWay(n) /\ cause[n] = {} => node[n].held = Current(n)
    /\ ~OnTheWay(Self) /\ cause[Self] = {} =>
            own = [name |-> tables.conf[Self], held |-> Current(Self)]

\* A node that stops because "Master node sending wrong response" (node/activity.rs
\* 274, 290) got one: answers reach the receivers of the requests they answer.
RightAnswers == \A n \in Nodes : node[n].pc # "dead"

\* Late answers and answers to others (get_stats, handle_response): the report a
\* client gets was made for its own request.
OwnStats == \A s \in Stats : stat[s].answer.kind = "GetStats" => stat[s].answer.of = s

\* A client that asks for statistics is answered, by the timeout if by nothing else,
\* unless the master restarts: the bounded requests all end, and stay so (get_stats,
\* SwarmHandlerCall::get_stats).
StatsAnswered == <>[](\A s \in Stats : stat[s].at \in {"idle", "answered", "lost"})
=============================================================================
