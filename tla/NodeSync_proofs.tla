--------------------------- MODULE NodeSync_proofs ---------------------------
(***************************************************************************)
(* Proofs about NodeSync, for any nodes, configurations, requests and      *)
(* bounds.                                                                 *)
(*                                                                         *)
(* A node's wait for its two answers is a matter of its own state (Waits)  *)
(* and of there being one request for a configuration at a time            *)
(* (OneAnswer).  Why a configuration may be old is one of what is on its   *)
(* way: as long as no cause is recorded for a member, whatever may still   *)
(* reach it carries its current configuration (Carry), and it holds that   *)
(* one or something is still to reach it (Holds).                          *)
(***************************************************************************)
EXTENDS NodeSync, TLAPS

Asked  == {"MasterNodeList", "NodeConfig"}
Kinds  == ToMaster \cup ToNode
MsgIds == Nat \cup Stats
Msgs   == [kind : Kinds, node : Nodes, id : MsgIds, copy : Nat, value : Value]
Gots   == [id : Asked, kind : Kinds, value : Value]
Pushes == [id : Nat, kind : {"config", "move", "list"}, node : Members, name : Configs,
           value : Value, at : {"own", "write", "read", "send"}]
States == [pc : Pcs, up : BOOLEAN, resp : SUBSET Asked, got : SUBSET Gots, cache : Value,
           held : Value, updating : SUBSET Msgs]
Requests == [at : {"idle", "asked", "present", "sent", "waiting", "answered", "lost"},
             answer : Answers]
Causes == {"overlap", "gap", "stranger", "lost"}

MasterTyped ==
    /\ tables \in [conf : [Members -> Configs], content : [Configs -> Changes]]
    /\ known \subseteq Nodes /\ subs \in [Configs -> Seq(Nodes)]
    /\ own \in [name : Configs, held : Value]
    /\ pushes \subseteq Pushes
StatTyped  == mresp \subseteq Stats /\ stat \in [Stats -> Requests]
NodeTyped  == node \in [Nodes -> States]
NetTyped   == net \subseteq Msgs
CountTyped ==
    /\ count \in [events : Changes, faults : Nat, lives : [Nodes -> Nat]]
    /\ cause \in [Members -> SUBSET Causes]

Typed == MasterTyped /\ StatTyped /\ NodeTyped /\ NetTyped /\ CountTyped

-----------------------------------------------------------------------------
(* A node's wait.                                                          *)

Ids(n) == {g.id : g \in node[n].got}

Waits(n) ==
    /\ node[n].pc \in {"wait", "choose", "register", "subscribe", "synced"}
            => node[n].resp = {} /\ node[n].got = {}
    /\ node[n].pc = "both" => node[n].resp \cup Ids(n) = {"MasterNodeList"}
    /\ node[n].pc = "await" => node[n].resp \cup Ids(n) = Asked
    /\ node[n].pc \in {"store", "adopt"} => node[n].resp = {} /\ Ids(n) = Asked
    /\ node[n].resp \cap Ids(n) = {}
    /\ \A g, h \in node[n].got : g.id = h.id => g = h
    /\ \A g \in node[n].got : g.kind = Reply[g.id]
    /\ node[n].pc # "dead" /\ (node[n].pc = "off" => ~node[n].up)

Sync == {"NodeConfig", "NodeConfigIs"}

\* What travels needs a connection, and a life of a node asks for its configuration once.
OneAnswer ==
    /\ \A m \in net : m.kind # "Subscribing" => node[m.node].up
    /\ \A m \in net : m.kind \in Sync =>
            node[m.node].pc \in {"both", "await"} /\ "NodeConfig" \notin Ids(m.node)
    /\ \A m, w \in net : m.kind \in Sync /\ w.kind \in Sync /\ m.node = w.node => m = w

\* A request for statistics goes to a node, and who waits has a receiver.
Waiting ==
    \A s \in Stats :
        /\ stat[s].at = "present" => Target[s] \in Nodes
        /\ stat[s].at = "waiting" => s \in mresp

-----------------------------------------------------------------------------
(* What is on its way.                                                     *)

PushesOK ==
    \A p \in pushes :
        /\ p.kind = "config" => p.at \in {"own", "write", "send"}
        /\ p.kind = "move" => p.at \in {"read", IF p.node = Self THEN "write" ELSE "send"}
        /\ p.kind = "list" => p.at \in {"read", "send"}

\* The task is to bring n's configuration to it.
For(p, n) ==
    \/ p.kind = "config" /\ p.name = tables.conf[n]
    \/ p.kind = "move" /\ p.node = n

Fresh(n) ==
    \A p \in pushes : For(p, n) =>
        p.name = tables.conf[n] /\ (p.at # "read" => p.value = Current(n))

Carry(n) ==
    /\ Fresh(n)
    /\ \A m \in net : m.node = n /\ m.kind \in Carriers => m.value = Current(n)
    /\ \A m \in node[n].updating : m.value = Current(n)
    /\ \A g \in node[n].got : g.id = "NodeConfig" => g.value = Current(n)

Coming(n) ==
    \/ \E p \in pushes : For(p, n)
    \/ \E m \in net : m.node = n /\ m.kind = "UpdateConfig"
    \/ node[n].updating # {}

Holds(n) ==
    node[n].pc \in {"subscribe", "synced"} => node[n].held = Current(n) \/ Coming(n)

Explained(n) == cause[n] = {} => Carry(n) /\ Holds(n)

\* A task that writes the master's own configuration, or will when it gets to it.
Writing(p) ==
    p.kind = "config" /\ (p.at = "write" \/ p.name = own.name \/ p.name = tables.conf[Self])

OwnRight == own = [name |-> tables.conf[Self], held |-> Current(Self)]

OwnExplained ==
    cause[Self] = {} =>
        /\ Fresh(Self)
        /\ \A p \in pushes : Writing(p) => p.name = tables.conf[Self] /\ own.name = p.name
        /\ \A p, q \in pushes : p.kind = "move" /\ p.node = Self => ~Writing(q)
        /\ \/ OwnRight
           \/ \E p \in pushes : For(p, Self) /\ (p.kind = "config" => p.at # "send")

-----------------------------------------------------------------------------
NInv ==
    /\ Typed
    /\ (\A n \in Nodes : Waits(n)) /\ OneAnswer
    /\ OwnStats /\ Waiting
    /\ PushesOK
    /\ \A n \in Nodes : Explained(n)
    /\ OwnExplained

-----------------------------------------------------------------------------
(* Types.                                                                  *)

LEMMA ReplyIs ==
    /\ DOMAIN Reply = Asked
    /\ Reply["MasterNodeList"] = "MasterNodeListIs" /\ Reply["NodeConfig"] = "NodeConfigIs"
  BY DEF Reply, Asked

LEMMA DefaultTyped == DefaultValue \in Value
<1>1. 0 \in Changes
  BY ConstantsAssumption DEF Changes
<1> QED
  BY <1>1, ConstantsAssumption DEF DefaultValue, Value

LEMMA OffTyped == Off \in States
  BY DefaultTyped DEF Off, States, Pcs

LEMMA ContentTyped ==
  ASSUME MasterTyped
  PROVE  /\ \A c \in Configs : Content(c) \in Value
         /\ \A n \in Members : tables.conf[n] \in Configs /\ Current(n) \in Value
<1>1. \A c \in Configs : Content(c) \in Value
  BY DEF MasterTyped, Content, Value
<1>2. \A n \in Members : tables.conf[n] \in Configs
  BY DEF MasterTyped
<1> QED
  BY <1>1, <1>2 DEF Current

LEMMA MsgIs ==
  ASSUME NEW kind \in Kinds, NEW n \in Nodes, NEW id \in MsgIds, NEW copy \in Nat,
         NEW value \in Value
  PROVE  /\ Msg(kind, n, id, copy, value) \in Msgs
         /\ Msg(kind, n, id, copy, value).kind = kind
         /\ Msg(kind, n, id, copy, value).node = n
         /\ Msg(kind, n, id, copy, value).value = value
  BY DEF Msg, Msgs

LEMMA TaskIs ==
  ASSUME NEW k \in Changes, NEW kind \in {"config", "move", "list"}, NEW n \in Members,
         NEW c \in Configs
  PROVE  LET u == Task(k, kind, n, c)
         IN  /\ u \in Pushes
             /\ u.kind = kind /\ u.node = n /\ u.name = c
             /\ u.at = IF kind = "config" THEN "own" ELSE "read"
             /\ kind = "config" => u.value = [name |-> c, rev |-> k]
<1>1. [name |-> c, rev |-> k] \in Value
  BY DEF Value
<1>2. k \in Nat
  BY ConstantsAssumption DEF Changes
<1> QED
  BY <1>1, <1>2, DefaultTyped DEF Task, Pushes

-----------------------------------------------------------------------------
(* Steps that leave a member's configuration alone.                        *)

\* What carries a configuration to n stays as it was, and so does what n holds.
Quiet(n) ==
    /\ UNCHANGED <<tables, pushes>> /\ cause[n] \subseteq cause'[n]
    /\ \A m \in net' : m.node = n /\ m.kind \in Carriers => m \in net
    /\ \A m \in net : m.node = n /\ m.kind \in Carriers => m \in net'
    /\ node'[n].updating = node[n].updating
    /\ node'[n].got = node[n].got
    /\ node'[n].held = node[n].held
    /\ node'[n].pc \in {"subscribe", "synced"} => node[n].pc \in {"subscribe", "synced"}

LEMMA QuietExplained ==
  ASSUME NEW n \in Nodes, Explained(n), Quiet(n)
  PROVE  Explained(n)'
<1>1. Current(n)' = Current(n) /\ \A p : For(p, n)' = For(p, n)
  BY DEF Quiet, Current, Content, For
<1>2. Carry(n) => Carry(n)'
  <2>1. Fresh(n) => Fresh(n)'
    BY <1>1 DEF Quiet, Fresh
  <2> QED
    BY <1>1, <2>1 DEF Quiet, Carry
<1>3. Holds(n) => Holds(n)'
  <2>1. Coming(n) => Coming(n)'
    BY <1>1 DEF Quiet, Coming, Carriers
  <2> QED
    BY <1>1, <2>1 DEF Quiet, Holds
<1> QED
  BY <1>2, <1>3 DEF Explained, Quiet

LEMMA OwnKept ==
  ASSUME OwnExplained, PushesOK, UNCHANGED <<tables, pushes, own>>, cause'[Self] = cause[Self]
  PROVE  OwnExplained' /\ PushesOK'
<1>1. Current(Self)' = Current(Self) /\ \A p : For(p, Self)' = For(p, Self)
  BY DEF Current, Content, For
<1>2. \A p : Writing(p)' = Writing(p)
  BY DEF Writing
<1>3. Fresh(Self) => Fresh(Self)'
  BY <1>1 DEF Fresh
<1>4. OwnRight' = OwnRight
  BY <1>1 DEF OwnRight
<1>5. OwnExplained'
  BY <1>1, <1>2, <1>3, <1>4 DEF OwnExplained
<1>6. PushesOK'
  BY DEF PushesOK
<1> QED
  BY <1>5, <1>6

\* A message that neither carries a configuration nor asks for one.
Plain(m) ==
    /\ m \in Msgs /\ m.kind \notin Sync \cup Carriers
    /\ m.kind = "Subscribing" \/ node[m.node].up

Settled ==
    /\ Typed'
    /\ (\A n \in Nodes : Waits(n)') /\ OneAnswer'
    /\ PushesOK'
    /\ (\A n \in Nodes : Explained(n)')
    /\ OwnExplained'

LEMMA PlainSettled ==
  ASSUME NInv, UNCHANGED <<tables, own, pushes, node, cause>>,
         known' \subseteq Nodes, subs' \in [Configs -> Seq(Nodes)], StatTyped', CountTyped',
         \A m \in net' : m \in net \/ Plain(m),
         \A m \in net : m.kind \in Carriers => m \in net'
  PROVE  Settled
<1>1. Typed'
  <2>1. MasterTyped' /\ NodeTyped'
    BY DEF NInv, Typed, MasterTyped, NodeTyped
  <2>2. NetTyped'
    BY DEF NInv, Typed, NetTyped, Plain
  <2> QED
    BY <2>1, <2>2 DEF Typed
<1>2. \A n \in Nodes : Waits(n)'
  BY DEF NInv, Waits, Ids
<1>3. OneAnswer'
  BY DEF NInv, OneAnswer, Plain, Ids
<1>4. \A n \in Nodes : Quiet(n)
  BY DEF Quiet, Plain
<1>5. \A n \in Nodes : Explained(n)'
  BY <1>4, QuietExplained DEF NInv
<1> QED
  BY <1>1, <1>2, <1>3, <1>5, OwnKept DEF Settled, NInv

Stated == OwnStats' /\ Waiting'

LEMMA SettledStated ==
  ASSUME Settled, Stated
  PROVE  NInv'
  BY DEF Settled, Stated, NInv

-----------------------------------------------------------------------------
(* Statistics.                                                             *)

LEMMA EventTyped ==
  ASSUME Typed, Event \/ Fault, cause' \in [Members -> SUBSET Causes]
  PROVE  CountTyped'
<1>1. CASE Event
  <2>1. count.events + 1 \in Changes
    BY <1>1, ConstantsAssumption DEF Typed, CountTyped, Event, Changes
  <2> QED
    BY <1>1, <2>1 DEF Typed, CountTyped, Event
<1>2. CASE Fault
  BY <1>2 DEF Typed, CountTyped, Fault
<1> QED
  BY <1>1, <1>2

LEMMA SettleIs ==
  ASSUME NInv, NEW s \in Stats, NEW a \in Answers, Settle(s, a), mresp' = mresp,
         a.kind = "GetStats" => a.of = s
  PROVE  StatTyped' /\ Stated
  BY DEF NInv, Typed, StatTyped, Settle, Requests, Stated, OwnStats, Waiting

LEMMA StatsKeep ==
  ASSUME NInv, NEW s \in Stats, AskStats(s) \/ StatsStep(s)
  PROVE  NInv'
<1>1. CASE AskStats(s)
  <2>1. StatTyped' /\ Stated
    BY <1>1 DEF AskStats, NInv, Typed, StatTyped, Requests, Stated, OwnStats, Waiting
  <2>2. CountTyped'
    BY <1>1, EventTyped DEF AskStats, NInv, Typed, CountTyped
  <2>3. Settled
    BY <1>1, <2>1, <2>2, PlainSettled DEF AskStats, master, NInv, Typed, MasterTyped
  <2> QED
    BY <2>1, <2>3, SettledStated
<1>2. CASE LookUp(s)
  <2>1. StatTyped' /\ Stated
    <3>1. /\ Answer("GetStats", s) \in Answers /\ Answer("ReqError", 0) \in Answers
          /\ Answer("NodeInactive", 0) \in Answers
          /\ Answer("GetStats", s).of = s /\ Answer("ReqError", 0).kind # "GetStats"
          /\ Answer("NodeInactive", 0).kind # "GetStats"
      BY DEF Answer, Answers
    <3>2. CASE \E a \in Answers : Settle(s, a) /\ mresp' = mresp /\ (a.kind = "GetStats" => a.of = s)
      BY <3>2, SettleIs
    <3>3. CASE /\ Target[s] # Self /\ mresp' = mresp
               /\ stat' = [stat EXCEPT ![s].at = "present"]
      BY <3>3, ConstantsAssumption DEF NInv, Typed, StatTyped, Requests, Stated, OwnStats, Waiting
    <3> QED
      BY <1>2, <3>1, <3>2, <3>3 DEF LookUp
  <2>2. Settled
    BY <1>2, <2>1, PlainSettled DEF LookUp, master, NInv, Typed, MasterTyped, CountTyped
  <2> QED
    BY <2>1, <2>2, SettledStated
<1>3. CASE SendGetStats(s)
  <2>1. StatTyped' /\ Stated
    BY <1>3 DEF SendGetStats, NInv, Typed, StatTyped, Requests, Stated, OwnStats, Waiting
  <2>2. \A m \in net' : m \in net \/ Plain(m)
    <3> DEFINE g == Msg("GetStats", Target[s], s, 1, DefaultValue)
    <3>1. net' = net \cup Reaching({g})
      BY <1>3 DEF SendGetStats
    <3>2. ASSUME g \in Reaching({g}) PROVE Plain(g)
      <4>1. g.node = Target[s] /\ node[g.node].up
        BY <3>2 DEF Reaching, Msg
      <4>2. Target[s] \in Nodes /\ s \in MsgIds
        BY <1>3 DEF SendGetStats, NInv, Waiting, MsgIds
      <4>3. g \in Msgs /\ g.kind = "GetStats"
        BY <4>2, DefaultTyped DEF Msg, Msgs, Kinds, ToNode
      <4> QED
        BY <4>1, <4>3 DEF Plain, Sync, Carriers
    <3> QED
      BY <3>1, <3>2 DEF Reaching
  <2>3. Settled
    BY <1>3, <2>1, <2>2, PlainSettled DEF SendGetStats, master, NInv, Typed, MasterTyped, CountTyped
  <2> QED
    BY <2>1, <2>3, SettledStated
<1>4. CASE AwaitStats(s)
  <2>1. StatTyped' /\ Stated
    BY <1>4 DEF AwaitStats, NInv, Typed, StatTyped, Requests, Stated, OwnStats, Waiting
  <2>2. Settled
    BY <1>4, <2>1, PlainSettled DEF AwaitStats, master, NInv, Typed, MasterTyped, CountTyped
  <2> QED
    BY <2>1, <2>2, SettledStated
<1>5. CASE Timeout(s)
  <2>1. StatTyped' /\ Stated
    <3>1. Answer("RequestTimeout", 0) \in Answers /\ Answer("RequestTimeout", 0).kind # "GetStats"
      BY DEF Answer, Answers
    <3> QED
      BY <1>5, <3>1, SettleIs DEF Timeout
  <2>2. Settled
    BY <1>5, <2>1, PlainSettled DEF Timeout, master, NInv, Typed, MasterTyped, CountTyped
  <2> QED
    BY <2>1, <2>2, SettledStated
<1> QED
  BY <1>1, <1>2, <1>3, <1>4, <1>5 DEF StatsStep

-----------------------------------------------------------------------------
(* The master's answers.                                                   *)

LEMMA StatsHandled ==
  ASSUME NInv, NEW m \in net, HandleStats(m)
  PROVE  NInv'
<1> DEFINE waiting == Slot(mresp, m.id)
           answer == IF m.kind = "GetStatsIs" THEN Answer("GetStats", m.id)
                                              ELSE Answer("ReqError", 0)
<1>1. /\ mresp' = mresp \ waiting
      /\ stat' = [s \in Stats |-> IF s \in waiting /\ stat[s].at = "waiting"
                                  THEN [at |-> "answered", answer |-> answer] ELSE stat[s]]
      /\ net' = net \ {m}
      /\ UNCHANGED <<tables, known, subs, own, pushes, node, count, cause>>
  BY DEF HandleStats, master
<1>2. m.kind \in {"GetStatsIs", "ErrorIs"}
  BY DEF HandleStats
<1>3. \A s \in Stats : s \in waiting => s = m.id
  BY DEF Slot
<1>4. m.id \in Stats => answer \in Answers /\ (answer.kind = "GetStats" => answer.of = m.id)
  BY DEF Answer, Answers
<1> HIDE DEF answer, waiting
<1>5. StatTyped'
  BY <1>1, <1>3, <1>4 DEF NInv, Typed, StatTyped, Requests
<1>6. Stated
  BY <1>1, <1>3, <1>4 DEF NInv, Typed, StatTyped, Stated, OwnStats, Waiting
<1>7. CountTyped'
  BY <1>1 DEF NInv, Typed, CountTyped
<1>8. Settled
  BY <1>1, <1>2, <1>5, <1>7, PlainSettled DEF NInv, Typed, MasterTyped, Carriers
<1> QED
  BY <1>6, <1>8, SettledStated

\* Nothing of the requests for statistics changes.
LEMMA StatsAlone ==
  ASSUME NInv, UNCHANGED <<mresp, stat>>
  PROVE  StatTyped' /\ Stated
  BY DEF NInv, Typed, StatTyped, Stated, OwnStats, Waiting

LEMMA PlainAtMaster ==
  ASSUME NInv, NEW m \in net,
         HandleHello(m) \/ HandleMasterNodeList(m) \/ HandleSubscribe(m) \/ EnterGroup(m)
  PROVE  NInv'
<1>1. /\ UNCHANGED <<tables, own, pushes, node, cause, mresp, stat, count>>
      /\ m.kind \notin Carriers
  BY DEF HandleHello, HandleMasterNodeList, HandleSubscribe, EnterGroup, master, Carriers
<1>2. m \in Msgs /\ (m.kind # "Subscribing" => node[m.node].up)
  BY DEF NInv, Typed, NetTyped, OneAnswer
<1>3. m.node \in Nodes /\ m.id \in MsgIds /\ m.value \in Value
  BY <1>2 DEF Msgs
<1>4. known' \subseteq Nodes
  BY <1>3 DEF HandleHello, HandleMasterNodeList, HandleSubscribe, EnterGroup, master, NInv, Typed,
              MasterTyped
<1>5. subs' \in [Configs -> Seq(Nodes)]
  <2>1. CASE EnterGroup(m)
    <3>1. m.value.name \in Configs
      BY <1>3 DEF Value
    <3>2. Append(subs[m.value.name], m.node) \in Seq(Nodes)
      BY <1>3, <3>1 DEF NInv, Typed, MasterTyped
    <3> QED
      BY <2>1, <3>1, <3>2 DEF EnterGroup, NInv, Typed, MasterTyped
  <2>2. CASE ~EnterGroup(m)
    BY <2>2 DEF HandleHello, HandleMasterNodeList, HandleSubscribe, master, NInv, Typed, MasterTyped
  <2> QED
    BY <2>1, <2>2
<1>6. \A w \in net' : w \in net \/ Plain(w)
  <2>1. CASE HandleHello(m) \/ EnterGroup(m)
    BY <2>1 DEF HandleHello, EnterGroup
  <2>2. CASE HandleMasterNodeList(m)
    <3> DEFINE w == Msg("MasterNodeListIs", m.node, m.id, 1, DefaultValue)
    <3>1. w \in Msgs /\ w.kind = "MasterNodeListIs" /\ w.node = m.node
      BY <1>3, DefaultTyped DEF Msg, Msgs, Kinds, ToNode
    <3>2. Plain(w)
      BY <1>2, <2>2, <3>1 DEF Plain, Sync, Carriers, HandleMasterNodeList
    <3>3. net' = (net \ {m}) \cup {w}
      BY <2>2 DEF HandleMasterNodeList
    <3> HIDE DEF w
    <3> QED
      BY <3>2, <3>3
  <2>3. CASE HandleSubscribe(m)
    <3> DEFINE w == [m EXCEPT !.kind = "Subscribing", !.value = Current(m.node)]
    <3>1. Current(m.node) \in Value
      BY <1>3, ContentTyped DEF NInv, Typed, Members
    <3>2. \A v \in Value :
            LET x == [m EXCEPT !.kind = "Subscribing", !.value = v]
            IN  x \in Msgs /\ x.kind = "Subscribing"
      BY <1>2 DEF Msgs, Kinds, ToMaster
    <3>3. w \in Msgs /\ w.kind = "Subscribing"
      BY <3>1, <3>2
    <3> HIDE DEF w
    <3>4. Plain(w)
      BY <3>3 DEF Plain, Sync, Carriers
    <3>5. net' \subseteq (net \ {m}) \cup {w}
      BY <2>3 DEF HandleSubscribe, w
    <3> QED
      BY <3>4, <3>5
  <2> QED
    BY <2>1, <2>2, <2>3
<1>7. \A w \in net : w.kind \in Carriers => w \in net'
  BY <1>1 DEF HandleHello, HandleMasterNodeList, HandleSubscribe, EnterGroup
<1>8. StatTyped' /\ Stated /\ CountTyped'
  BY <1>1, StatsAlone DEF NInv, Typed, CountTyped
<1>9. Settled
  BY <1>1, <1>4, <1>5, <1>6, <1>7, <1>8, PlainSettled
<1> QED
  BY <1>8, <1>9, SettledStated

\* A known peer that asks gets its current configuration; whatever else was on its way to
\* it is recorded.
LEMMA NodeConfigHandled ==
  ASSUME NInv, NEW m \in net, HandleNodeConfig(m)
  PROVE  NInv'
<1> DEFINE x == m.node
           w == Msg("NodeConfigIs", x, m.id, 1, Current(x))
<1>1. /\ m.kind = "NodeConfig" /\ UNCHANGED <<tables, known, subs, own, pushes, mresp, stat, node, count>>
      /\ \/ net' = (net \ {m}) \cup {w} /\ cause' = [cause EXCEPT ![x] = Crossing(x, tables.conf[x])]
         \/ net' = net \ {m} /\ cause' = cause
  BY DEF HandleNodeConfig, master
<1>2. m \in Msgs /\ x \in Nodes /\ m.id \in MsgIds /\ Current(x) \in Value
  BY ContentTyped DEF NInv, Typed, NetTyped, Msgs, Members
<1>3. w \in Msgs /\ w.kind = "NodeConfigIs" /\ w.node = x /\ w.value = Current(x)
  BY <1>2 DEF Msg, Msgs, Kinds, ToNode
<1>4. /\ node[x].up /\ node[x].pc \in {"both", "await"} /\ "NodeConfig" \notin Ids(x)
      /\ \A v \in net : v.kind \in Sync /\ v.node = x => v = m
  BY <1>1 DEF NInv, OneAnswer, Sync
<1> HIDE DEF w
<1>5. Typed'
  <2>1. MasterTyped' /\ NodeTyped'
    BY <1>1 DEF NInv, Typed, MasterTyped, NodeTyped
  <2>2. NetTyped'
    BY <1>1, <1>3 DEF NInv, Typed, NetTyped
  <2>3. CountTyped'
    <3>1. Crossing(x, tables.conf[x]) \in SUBSET Causes
      BY DEF Crossing, Causes
    <3> QED
      BY <1>1, <3>1 DEF NInv, Typed, CountTyped
  <2> QED
    BY <1>1, <2>1, <2>2, <2>3, StatsAlone DEF Typed
<1>6. \A n \in Nodes : Waits(n)'
  BY <1>1 DEF NInv, Waits, Ids
<1>7. OneAnswer'
  <2>1. \A n \in Nodes : Ids(n)' = Ids(n)
    BY <1>1 DEF Ids
  <2>2. \A v \in net : v.node \in Nodes
    BY DEF NInv, Typed, NetTyped, Msgs
  <2>3. \A v \in net' : v \in net \ {m} \/ v = w
    BY <1>1
  <2>4. \A v \in net' : v.kind # "Subscribing" => node'[v.node].up
    BY <1>1, <1>3, <1>4, <2>3 DEF NInv, OneAnswer
  <2>5. \A v \in net' : v.kind \in Sync =>
          node'[v.node].pc \in {"both", "await"} /\ "NodeConfig" \notin Ids(v.node)'
    <3> SUFFICES ASSUME NEW v \in net', v.kind \in Sync
                 PROVE  node'[v.node].pc \in {"both", "await"} /\ "NodeConfig" \notin Ids(v.node)'
      OBVIOUS
    <3>1. CASE v = w
      BY <1>1, <1>2, <1>3, <1>4, <2>1, <3>1
    <3>2. CASE v \in net
      BY <1>1, <2>1, <2>2, <3>2 DEF NInv, OneAnswer
    <3> QED
      BY <2>3, <3>1, <3>2
  <2>6. \A v, u \in net' : v.kind \in Sync /\ u.kind \in Sync /\ v.node = u.node => v = u
    BY <1>3, <1>4, <2>3 DEF NInv, OneAnswer
  <2> QED
    BY <2>4, <2>5, <2>6 DEF OneAnswer
<1>8. \A n \in Nodes \ {x} : Explained(n)'
  <2> TAKE n \in Nodes \ {x}
  <2>1. Quiet(n)
    BY <1>1, <1>2, <1>3 DEF Quiet, NInv, Typed, CountTyped, Members, Carriers
  <2> QED
    BY <2>1, QuietExplained DEF NInv
<1>9. Explained(x)'
  <2>1. CASE net' = net \ {m} /\ cause' = cause
    <3>1. Quiet(x)
      BY <1>1, <1>2, <2>1 DEF Quiet, Carriers
    <3> QED
      BY <1>2, <3>1, QuietExplained DEF NInv
  <2>2. CASE /\ net' = (net \ {m}) \cup {w}
             /\ cause' = [cause EXCEPT ![x] = Crossing(x, tables.conf[x])]
    <3> SUFFICES ASSUME cause'[x] = {} PROVE Carry(x)' /\ Holds(x)'
      BY DEF Explained
    <3>1. Crossing(x, tables.conf[x]) = {}
      BY <1>2, <2>2 DEF NInv, Typed, CountTyped, Members
    <3>2. ~OnTheWay(x)
      BY <3>1 DEF Crossing
    <3>3. \A p \in pushes : ~For(p, x)
      BY <3>2 DEF OnTheWay, PushTo, For
    <3>4. /\ \A v \in net : v.node = x => v.kind \notin Carriers
          /\ node[x].updating = {}
          /\ \A g \in node[x].got : g.id # "NodeConfig"
      BY <1>2, <3>2 DEF OnTheWay
    <3>5. Current(x)' = Current(x) /\ \A p : For(p, x)' = For(p, x)
      BY <1>1 DEF Current, Content, For
    <3>6. Fresh(x)'
      BY <1>1, <3>3, <3>5 DEF Fresh
    <3>7. Carry(x)'
      BY <1>1, <1>3, <2>2, <3>4, <3>5, <3>6 DEF Carry
    <3>8. Holds(x)'
      BY <1>1, <1>4 DEF Holds
    <3> QED
      BY <3>7, <3>8
  <2> QED
    BY <1>1, <2>1, <2>2
<1>10. OwnExplained' /\ PushesOK'
  <2>1. cause'[Self] = cause[Self]
    BY <1>1, <1>2, ConstantsAssumption DEF NInv, Typed, CountTyped, Members
  <2> QED
    BY <1>1, <2>1, OwnKept DEF NInv
<1>11. Settled
  BY <1>5, <1>6, <1>7, <1>8, <1>9, <1>10 DEF Settled
<1> QED
  BY <1>1, <1>11, StatsAlone, SettledStated

-----------------------------------------------------------------------------
(* Steps of one node.                                                      *)

\* Nothing but this node and its messages changes.
Alone(n, new) ==
    /\ new \in States /\ Set(n, new)
    /\ UNCHANGED <<tables, known, subs, own, pushes, mresp, stat>>
    /\ CountTyped'
    /\ \A x \in Members \ {n} : cause'[x] = cause[x]
    /\ \A m \in net' : m \in net \/ (m \in Msgs /\ m.node = n /\ m.kind \notin Carriers)
    /\ \A m \in net : m.node # n => m \in net'

\* OneAnswer for the node.
Answered(n, new) ==
    /\ \A m \in net' : m.node = n /\ m.kind # "Subscribing" => new.up
    /\ \A m \in net' : m.node = n /\ m.kind \in Sync =>
            new.pc \in {"both", "await"} /\ "NodeConfig" \notin {g.id : g \in new.got}
    /\ \A m, w \in net' : m.node = n /\ w.node = n /\ m.kind \in Sync /\ w.kind \in Sync => m = w

LEMMA NodeStep ==
  ASSUME NInv, NEW n \in Nodes, NEW new, Alone(n, new), Answered(n, new),
         Waits(n)', Explained(n)'
  PROVE  NInv'
<1>1. node'[n] = new /\ \A x \in Nodes \ {n} : node'[x] = node[x]
  BY DEF Alone, Set, NInv, Typed, NodeTyped
<1>2. Typed'
  <2>1. MasterTyped'
    BY DEF Alone, NInv, Typed, MasterTyped
  <2>2. NodeTyped'
    BY DEF Alone, Set, NInv, Typed, NodeTyped
  <2>3. NetTyped'
    BY DEF Alone, NInv, Typed, NetTyped
  <2>4. StatTyped'
    BY StatsAlone DEF Alone
  <2> QED
    BY <2>1, <2>2, <2>3, <2>4 DEF Typed, Alone
<1>3. \A x \in Nodes : Waits(x)'
  BY <1>1 DEF NInv, Waits, Ids
<1>4. OneAnswer'
  <2>1. \A m \in net' : m.node \in Nodes
    BY <1>2 DEF Typed, NetTyped, Msgs
  <2>2. \A m \in net' : m.node # n => m \in net
    BY DEF Alone
  <2>3. \A m \in net' : m.kind # "Subscribing" => node'[m.node].up
    BY <1>1, <2>1, <2>2 DEF Answered, NInv, OneAnswer
  <2>4. \A m \in net' : m.kind \in Sync =>
          node'[m.node].pc \in {"both", "await"} /\ "NodeConfig" \notin Ids(m.node)'
    BY <1>1, <2>1, <2>2 DEF Answered, NInv, OneAnswer, Ids
  <2>5. \A m, w \in net' : m.kind \in Sync /\ w.kind \in Sync /\ m.node = w.node => m = w
    BY <2>2 DEF Answered, NInv, OneAnswer
  <2> QED
    BY <2>3, <2>4, <2>5 DEF OneAnswer
<1>5. ASSUME NEW x \in Nodes \ {n} PROVE Explained(x)'
  <2>1. Quiet(x)
    BY <1>1 DEF Alone, Quiet, Members
  <2> QED
    BY <2>1, QuietExplained DEF NInv
<1>6. OwnExplained' /\ PushesOK'
  <2>1. cause'[Self] = cause[Self]
    BY ConstantsAssumption DEF Alone, Members
  <2> QED
    BY <2>1, OwnKept DEF NInv, Alone
<1>7. Stated
  BY StatsAlone DEF Alone
<1>8. Settled
  BY <1>2, <1>3, <1>4, <1>5, <1>6 DEF Settled
<1> QED
  BY <1>7, <1>8, SettledStated

\* The node asks for something, or for nothing.
LEMMA Asks ==
  ASSUME NInv, NEW n \in Nodes, NEW kind \in {"Hello", "MasterNodeList", "NodeConfig", "HelloSubscribe"},
         NEW m \in Ask(n, kind) \cup {Msg(kind, n, count.lives[n], 1, DefaultValue)}
  PROVE  /\ m = Msg(kind, n, count.lives[n], 1, DefaultValue)
         /\ m \in Msgs /\ m.node = n /\ m.kind = kind
         /\ m \in Ask(n, kind) => node[n].up
<1>1. count.lives[n] \in MsgIds
  BY DEF NInv, Typed, CountTyped, MsgIds
<1>2. m = Msg(kind, n, count.lives[n], 1, DefaultValue)
  BY DEF Ask, Reaching
<1>3. m \in Msgs /\ m.node = n /\ m.kind = kind
  BY <1>1, <1>2, DefaultTyped DEF Msg, Msgs, Kinds, ToMaster
<1> QED
  BY <1>2, <1>3 DEF Ask, Reaching

\* The steps of a node that do not touch what it holds or what is on its way.
LEMMA PlainNodeStep ==
  ASSUME NInv, NEW n \in Nodes, NEW new \in States, Set(n, new),
         UNCHANGED <<tables, known, subs, own, pushes, mresp, stat, count, cause>>,
         new.updating = node[n].updating, new.got = node[n].got, new.held = node[n].held,
         new.pc \in {"subscribe", "synced"} => node[n].pc \in {"subscribe", "synced"},
         node[n].up => new.up,
         node[n].pc \in {"both", "await"} => new.pc \in {"both", "await"}
            \/ "NodeConfig" \in Ids(n),
         \A m \in net' : \/ m \in net
                         \/ /\ m \in Msgs /\ m.node = n /\ new.up
                            /\ m.kind \in {"Hello", "MasterNodeList", "NodeConfig", "HelloSubscribe"}
                            /\ m.kind = "NodeConfig" =>
                                 /\ node[n].pc = "register" /\ new.pc = "both" /\ new.got = {}
                                 /\ \A w \in net' \ {m} : w \in net,
         net \subseteq net',
         Waits(n)'
  PROVE  NInv'
<1>1. Alone(n, new)
  BY DEF Alone, NInv, Typed, CountTyped, Carriers
<1>2. node'[n] = new
  BY DEF Set, NInv, Typed, NodeTyped
<1>3. Quiet(n)
  BY <1>2 DEF Quiet, Carriers
<1>4. Explained(n)'
  BY <1>3, QuietExplained DEF NInv
<1>5. Answered(n, new)
  <2>1. \A m \in net' : m.node = n /\ m.kind # "Subscribing" => new.up
    BY DEF NInv, OneAnswer
  <2>2. \A m \in net' : m.node = n /\ m.kind \in Sync =>
            new.pc \in {"both", "await"} /\ "NodeConfig" \notin {g.id : g \in new.got}
    <3> SUFFICES ASSUME NEW m \in net', m.node = n, m.kind \in Sync
                 PROVE  new.pc \in {"both", "await"} /\ "NodeConfig" \notin {g.id : g \in new.got}
      OBVIOUS
    <3>1. CASE m \in net
      BY <3>1 DEF NInv, OneAnswer, Ids
    <3>2. CASE m \notin net
      BY <3>2 DEF Sync
    <3> QED
      BY <3>1, <3>2
  <2>3. \A m, w \in net' : m.node = n /\ w.node = n /\ m.kind \in Sync /\ w.kind \in Sync => m = w
    BY DEF NInv, OneAnswer, Sync
  <2> QED
    BY <2>1, <2>2, <2>3 DEF Answered
<1> QED
  BY <1>1, <1>4, <1>5, NodeStep

LEMMA SyncKeeps ==
  ASSUME NInv, NEW n \in Nodes,
         Connect(n) \/ SeePeer(n) \/ Choose(n) \/ ChooseNobody(n) \/ Register(n)
           \/ RegisterBoth(n) \/ Subscribe(n)
  PROVE  NInv'
<1> DEFINE st == node[n]
<1>1. st \in States /\ Waits(n)
  BY DEF NInv, Typed, NodeTyped
<1>2. ASSUME NEW new \in States, Set(n, new)
      PROVE  node'[n] = new
  BY <1>2 DEF Set, NInv, Typed, NodeTyped
<1>3. CASE Connect(n)
  <2> DEFINE new == [st EXCEPT !.up = TRUE]
             m == Msg("Hello", n, count.lives[n], 1, DefaultValue)
  <2>1. /\ new \in States /\ new.updating = st.updating /\ new.got = st.got /\ new.held = st.held
        /\ new.pc = st.pc /\ new.up /\ new.resp = st.resp
    BY <1>1 DEF States
  <2>2. Set(n, new) /\ net' = net \cup {m} /\ Running(n)
    BY <1>3 DEF Connect
  <2>3. m \in Msgs /\ m.node = n /\ m.kind = "Hello"
    BY Asks
  <2> HIDE DEF new, m
  <2>4. Waits(n)'
    BY <1>1, <1>2, <2>1, <2>2 DEF Waits, Ids, Running
  <2> QED
    BY <1>3, <2>1, <2>2, <2>3, <2>4, PlainNodeStep DEF Connect, master
<1>4. CASE SeePeer(n) \/ ChooseNobody(n)
  <2>1. PICK pc \in {"choose", "off"} :
           /\ Set(n, [st EXCEPT !.pc = pc]) /\ net' = net
           /\ st.pc \in {"wait", "choose"} /\ (pc = "off" => ~st.up)
    BY <1>4 DEF SeePeer, ChooseNobody
  <2> DEFINE new == [st EXCEPT !.pc = pc]
  <2>2. /\ new \in States /\ new.updating = st.updating /\ new.got = st.got /\ new.held = st.held
        /\ new.pc = pc /\ new.up = st.up /\ new.resp = st.resp
    BY <1>1 DEF States, Pcs
  <2> HIDE DEF new
  <2>3. Waits(n)'
    BY <1>1, <1>2, <2>1, <2>2 DEF Waits, Ids, new
  <2> QED
    BY <1>4, <2>1, <2>2, <2>3, PlainNodeStep DEF SeePeer, ChooseNobody, master, new
<1>5. CASE Choose(n)
  <2> DEFINE new == [st EXCEPT !.pc = "register"]
  <2>1. /\ new \in States /\ new.updating = st.updating /\ new.got = st.got /\ new.held = st.held
        /\ new.pc = "register" /\ new.up = st.up /\ new.resp = st.resp
    BY <1>1 DEF States, Pcs
  <2>2. Set(n, new) /\ net' = net \cup Ask(n, "MasterNodeList") /\ st.pc = "choose"
    BY <1>5 DEF Choose
  <2>3. \A m \in Ask(n, "MasterNodeList") :
           m \in Msgs /\ m.node = n /\ m.kind = "MasterNodeList" /\ st.up
    BY Asks
  <2> HIDE DEF new
  <2>4. Waits(n)'
    BY <1>1, <1>2, <2>1, <2>2 DEF Waits, Ids
  <2> QED
    BY <1>5, <2>1, <2>2, <2>3, <2>4, PlainNodeStep DEF Choose, master
<1>6. CASE Register(n)
  <2> DEFINE new == [st EXCEPT !.pc = "both", !.resp = @ \cup {"MasterNodeList"}]
             m == Msg("NodeConfig", n, count.lives[n], 1, DefaultValue)
  <2>1. /\ new \in States /\ new.updating = st.updating /\ new.got = st.got /\ new.held = st.held
        /\ new.pc = "both" /\ new.up = st.up /\ new.resp = st.resp \cup {"MasterNodeList"}
    BY <1>1 DEF States, Pcs, Asked
  <2>2. Set(n, new) /\ net' = net \cup Ask(n, "NodeConfig") /\ st.pc = "register"
    BY <1>6 DEF Register
  <2>3. \A w \in Ask(n, "NodeConfig") :
           w = m /\ w \in Msgs /\ w.node = n /\ w.kind = "NodeConfig" /\ st.up
    BY Asks
  <2> HIDE DEF new, m
  <2>4. st.resp = {} /\ st.got = {}
    BY <1>1, <2>2 DEF Waits
  <2>5. Waits(n)'
    BY <1>1, <1>2, <2>1, <2>2, <2>4 DEF Waits, Ids, Asked
  <2>6. \A w \in net' : w \in net \/ (w \in Ask(n, "NodeConfig") /\ \A v \in net' \ {w} : v \in net)
    BY <2>2, <2>3
  <2>7. \A w \in net' : \/ w \in net
                         \/ /\ w \in Msgs /\ w.node = n /\ new.up
                            /\ w.kind = "NodeConfig"
                            /\ st.pc = "register" /\ new.pc = "both" /\ new.got = {}
                            /\ \A v \in net' \ {w} : v \in net
    BY <2>1, <2>2, <2>3, <2>4, <2>6
  <2>8. /\ UNCHANGED <<tables, known, subs, own, pushes, mresp, stat, count, cause>>
        /\ net \subseteq net'
    BY <1>6, <2>2 DEF Register, master
  <2> QED
    BY <2>1, <2>2, <2>5, <2>7, <2>8, PlainNodeStep
<1>7. CASE RegisterBoth(n)
  <2> DEFINE new == [st EXCEPT !.pc = "await", !.resp = @ \cup {"NodeConfig"}]
  <2>1. /\ new \in States /\ new.updating = st.updating /\ new.got = st.got /\ new.held = st.held
        /\ new.pc = "await" /\ new.up = st.up /\ new.resp = st.resp \cup {"NodeConfig"}
    BY <1>1 DEF States, Pcs, Asked
  <2>2. Set(n, new) /\ net' = net /\ st.pc = "both"
    BY <1>7 DEF RegisterBoth
  <2> HIDE DEF new
  <2>3. Waits(n)'
    BY <1>1, <1>2, <2>1, <2>2 DEF Waits, Ids, Asked
  <2> QED
    BY <1>7, <2>1, <2>2, <2>3, PlainNodeStep DEF RegisterBoth, master
<1>8. CASE Subscribe(n)
  <2> DEFINE new == [st EXCEPT !.pc = "synced"]
  <2>1. /\ new \in States /\ new.updating = st.updating /\ new.got = st.got /\ new.held = st.held
        /\ new.pc = "synced" /\ new.up = st.up /\ new.resp = st.resp
    BY <1>1 DEF States, Pcs
  <2>2. Set(n, new) /\ net' = net \cup Ask(n, "HelloSubscribe") /\ st.pc = "subscribe"
    BY <1>8 DEF Subscribe
  <2>3. \A m \in Ask(n, "HelloSubscribe") :
           m \in Msgs /\ m.node = n /\ m.kind = "HelloSubscribe" /\ st.up
    BY Asks
  <2> HIDE DEF new
  <2>4. Waits(n)'
    BY <1>1, <1>2, <2>1, <2>2 DEF Waits, Ids
  <2> QED
    BY <1>8, <2>1, <2>2, <2>3, <2>4, PlainNodeStep DEF Subscribe, master
<1> QED
  BY <1>3, <1>4, <1>5, <1>6, <1>7, <1>8

\* Both answers are there, each for its own request.
LEMMA GotIs ==
  ASSUME NInv, NEW n \in Nodes, NEW k \in Asked, Asked \subseteq Ids(n)
  PROVE  Got(n, k) \in node[n].got /\ Got(n, k).id = k /\ Got(n, k).kind = Reply[k]
           /\ Got(n, k).value \in Value
<1>1. \E g \in node[n].got : g.id = k
  BY DEF Ids
<1>2. Got(n, k) \in node[n].got /\ Got(n, k).id = k
  BY <1>1 DEF Got
<1>3. node[n].got \subseteq Gots
  BY DEF NInv, Typed, NodeTyped, States
<1> QED
  BY <1>2, <1>3 DEF NInv, Waits, Gots

LEMMA TakeKeeps ==
  ASSUME NInv, NEW n \in Nodes, TakeAnswers(n) \/ Store(n)
  PROVE  NInv'
<1> DEFINE st == node[n]
<1>1. st \in States /\ Waits(n)
  BY DEF NInv, Typed, NodeTyped
<1>2. ASSUME NEW new \in States, Set(n, new)
      PROVE  node'[n] = new
  BY <1>2 DEF Set, NInv, Typed, NodeTyped
<1>3. CASE TakeAnswers(n)
  <2> DEFINE new == [st EXCEPT !.pc = "store"]
  <2>1. st.pc = "await" /\ Ids(n) = Asked /\ net' = net
    BY <1>3 DEF TakeAnswers, Ids, Asked
  <2>2. \A k \in DOMAIN Reply : Got(n, k).kind = Reply[k]
    BY <2>1, GotIs, ReplyIs
  <2>3. Set(n, new)
    BY <1>3, <2>2 DEF TakeAnswers
  <2>4. /\ new \in States /\ new.updating = st.updating /\ new.got = st.got /\ new.held = st.held
        /\ new.pc = "store" /\ new.up = st.up /\ new.resp = st.resp
    BY <1>1 DEF States, Pcs
  <2> HIDE DEF new
  <2>5. st.resp = {}
    BY <1>1, <2>1 DEF Waits, States
  <2>6. Waits(n)'
    BY <1>1, <1>2, <2>1, <2>3, <2>4, <2>5 DEF Waits, Ids
  <2>7. "NodeConfig" \in Ids(n)
    BY <2>1 DEF Asked
  <2>8. UNCHANGED <<tables, known, subs, own, pushes, mresp, stat, count, cause>>
    BY <1>3 DEF TakeAnswers, master
  <2> QED
    BY <2>1, <2>3, <2>4, <2>6, <2>7, <2>8, PlainNodeStep
<1>4. CASE Store(n)
  <2> DEFINE v == Got(n, "NodeConfig").value
             new == [st EXCEPT !.pc = "adopt", !.cache = v]
  <2>1. st.pc = "store" /\ Set(n, new) /\ net' = net
    BY <1>4 DEF Store
  <2>2. Ids(n) = Asked /\ "NodeConfig" \in Asked
    BY <1>1, <2>1 DEF Waits, Asked
  <2>3. v \in Value
    BY <2>2, GotIs
  <2> HIDE DEF v
  <2>4. /\ new \in States /\ new.updating = st.updating /\ new.got = st.got /\ new.held = st.held
        /\ new.pc = "adopt" /\ new.up = st.up /\ new.resp = st.resp
    BY <1>1, <2>3 DEF States, Pcs
  <2> HIDE DEF new
  <2>5. Waits(n)'
    BY <1>1, <1>2, <2>1, <2>4 DEF Waits, Ids
  <2>6. UNCHANGED <<tables, known, subs, own, pushes, mresp, stat, count, cause>>
    BY <1>4 DEF Store, master
  <2> QED
    BY <2>1, <2>4, <2>5, <2>6, PlainNodeStep
<1> QED
  BY <1>3, <1>4

LEMMA AdoptKeeps ==
  ASSUME NInv, NEW n \in Nodes, Adopt(n)
  PROVE  NInv'
<1> DEFINE st == node[n]
           v == Got(n, "NodeConfig").value
           new == [st EXCEPT !.pc = "subscribe", !.held = v, !.got = {}]
<1>1. st \in States /\ Waits(n)
  BY DEF NInv, Typed, NodeTyped
<1>2. /\ st.pc = "adopt" /\ Set(n, new)
      /\ UNCHANGED <<tables, known, subs, own, pushes, mresp, stat, net, count, cause>>
  BY DEF Adopt, master
<1>3. st.resp = {} /\ Ids(n) = Asked /\ "NodeConfig" \in Asked
  BY <1>1, <1>2 DEF Waits, Asked
<1>4. v \in Value /\ (cause[n] = {} => v = Current(n))
  <2>1. Got(n, "NodeConfig") \in st.got /\ Got(n, "NodeConfig").id = "NodeConfig" /\ v \in Value
    BY <1>3, GotIs
  <2> QED
    BY <2>1 DEF NInv, Explained, Carry
<1> HIDE DEF v
<1>5. /\ new \in States /\ new.updating = st.updating /\ new.got = {} /\ new.held = v
      /\ new.pc = "subscribe" /\ new.up = st.up /\ new.resp = st.resp
  BY <1>1, <1>4 DEF States, Pcs
<1> HIDE DEF new
<1>6. node'[n] = new
  BY <1>2 DEF Set, NInv, Typed, NodeTyped
<1>7. Waits(n)'
  BY <1>1, <1>3, <1>5, <1>6 DEF Waits, Ids
<1>8. Explained(n)'
  <2>1. Current(n)' = Current(n) /\ \A p : For(p, n)' = For(p, n)
    BY <1>2 DEF Current, Content, For
  <2>2. Fresh(n) => Fresh(n)'
    BY <1>2, <2>1 DEF Fresh
  <2>3. Carry(n) => Carry(n)'
    BY <1>2, <1>5, <1>6, <2>1, <2>2 DEF Carry
  <2>4. cause[n] = {} => Holds(n)'
    BY <1>4, <1>5, <1>6, <2>1 DEF Holds
  <2> QED
    BY <1>2, <2>3, <2>4 DEF NInv, Explained
<1>9. Alone(n, new)
  BY <1>2, <1>5 DEF Alone, NInv, Typed, CountTyped
<1>10. Answered(n, new)
  <2>1. \A m \in net : m.node = n => m.kind \notin Sync
    BY <1>2 DEF NInv, OneAnswer
  <2> QED
    BY <1>2, <1>5, <2>1 DEF Answered, NInv, OneAnswer
<1> QED
  BY <1>7, <1>8, <1>9, <1>10, NodeStep

LEMMA StartKeeps ==
  ASSUME NInv, NEW n \in Nodes, Start(n)
  PROVE  NInv'
<1> DEFINE st == node[n]
           new == [Off EXCEPT !.pc = "wait", !.cache = st.cache, !.held = st.cache]
<1>1. st \in States /\ Waits(n)
  BY DEF NInv, Typed, NodeTyped
<1>2. /\ st.pc \in {"off", "dead"} /\ Set(n, new)
      /\ UNCHANGED <<tables, known, subs, own, pushes, mresp, stat, net, cause>>
      /\ count' = [count EXCEPT !.lives[n] = @ + 1]
  BY DEF Start, Running, master
<1>3. ~st.up
  BY <1>1, <1>2 DEF Waits
<1>4. /\ new \in States /\ new.updating = {} /\ new.got = {} /\ new.resp = {}
      /\ new.pc = "wait"
  <2>1. st.cache \in Value
    BY <1>1 DEF States
  <2>2. \A f \in States, v \in Value :
          LET g == [f EXCEPT !.pc = "wait", !.cache = v, !.held = v]
          IN  /\ g \in States /\ g.updating = f.updating /\ g.got = f.got /\ g.resp = f.resp
              /\ g.pc = "wait"
    BY DEF States, Pcs
  <2>3. Off \in States /\ Off.updating = {} /\ Off.got = {} /\ Off.resp = {}
    BY OffTyped DEF Off
  <2> QED
    BY <2>1, <2>2, <2>3, Zenon
<1> HIDE DEF new
<1>5. node'[n] = new
  BY <1>2 DEF Set, NInv, Typed, NodeTyped
<1>6. Waits(n)'
  BY <1>4, <1>5 DEF Waits, Ids
<1>7. Explained(n)'
  <2>1. Current(n)' = Current(n) /\ \A p : For(p, n)' = For(p, n)
    BY <1>2 DEF Current, Content, For
  <2>2. Fresh(n) => Fresh(n)'
    BY <1>2, <2>1 DEF Fresh
  <2>3. Carry(n) => Carry(n)'
    BY <1>2, <1>4, <1>5, <2>1, <2>2 DEF Carry
  <2>4. Holds(n)'
    BY <1>4, <1>5 DEF Holds
  <2> QED
    BY <1>2, <2>3, <2>4 DEF NInv, Explained
<1>8. Alone(n, new)
  BY <1>2, <1>4 DEF Alone, NInv, Typed, CountTyped
<1>9. Answered(n, new)
  <2>1. \A m \in net : m.node = n => m.kind = "Subscribing"
    BY <1>3 DEF NInv, OneAnswer
  <2> QED
    BY <1>2, <2>1 DEF Answered, Sync
<1> QED
  BY <1>6, <1>7, <1>8, <1>9, NodeStep

\* An answer reaches the receiver of the request it answers, if that one still waits.
LEMMA ReplyKeeps ==
  ASSUME NInv, NEW n \in Nodes, NEW m \in net, HandleReply(n, m)
  PROVE  NInv'
<1> DEFINE st      == node[n]
           asked   == CHOOSE k \in DOMAIN Reply : Reply[k] = m.kind
           waiting == Slot(st.resp, asked)
           news    == {[id |-> k, kind |-> m.kind, value |-> m.value] : k \in waiting}
           new     == [st EXCEPT !.resp = @ \ waiting, !.got = @ \cup news]
<1>1. st \in States /\ Waits(n) /\ m \in Msgs
  BY DEF NInv, Typed, NodeTyped, NetTyped
<1>2. /\ Running(n) /\ m.node = n /\ m.kind \in {"MasterNodeListIs", "NodeConfigIs"}
      /\ Set(n, new) /\ net' = net \ {m}
      /\ UNCHANGED <<tables, known, subs, own, pushes, mresp, stat, count, cause>>
  BY DEF HandleReply, master
<1>3. asked \in Asked /\ Reply[asked] = m.kind
  BY <1>2, ReplyIs DEF Asked
<1>4. m.kind = "NodeConfigIs" <=> asked = "NodeConfig"
  BY <1>2, <1>3, ReplyIs DEF Asked
<1> HIDE DEF asked
<1>5. waiting = {} \/ (waiting = {asked} /\ asked \in st.resp)
  BY DEF Slot
<1>6. \A g \in news : g.id = asked /\ g.kind = Reply[g.id] /\ g.value = m.value /\ asked \in waiting
  BY <1>3, <1>5
<1>7. news \subseteq Gots
  BY <1>1, <1>3, <1>5 DEF Gots, Msgs
<1>8. waiting # {} => \E g \in news : g.id = asked
  <2>1. waiting # {} => [id |-> asked, kind |-> m.kind, value |-> m.value] \in news
    BY <1>5
  <2> QED
    BY <2>1
<1>9. \A g, h \in news : g = h
  BY <1>5
<1>10. {g.id : g \in news} = waiting
  BY <1>5, <1>6, <1>8
<1> HIDE DEF waiting, news
<1>11. /\ new \in States /\ new.updating = st.updating /\ new.got = st.got \cup news
       /\ new.held = st.held /\ new.pc = st.pc /\ new.up = st.up /\ new.resp = st.resp \ waiting
  BY <1>1, <1>7 DEF States
<1> HIDE DEF new
<1>12. node'[n] = new
  BY <1>2, <1>11 DEF Set, NInv, Typed, NodeTyped
<1>13. Ids(n)' = Ids(n) \cup waiting
  BY <1>10, <1>11, <1>12 DEF Ids
<1>14. Waits(n)'
  <2>1. st.resp = {} => waiting = {} /\ news = {}
    BY <1>5, <1>6
  <2>2. waiting \subseteq st.resp /\ waiting \cap Ids(n) = {}
    BY <1>1, <1>5 DEF Waits
  <2>3. \A g, h \in st.got \cup news : g.id = h.id => g = h
    <3>1. \A g \in st.got : g.id \in Ids(n)
      BY DEF Ids
    <3>2. \A g \in news : g.id \in waiting
      BY <1>6
    <3> QED
      BY <1>1, <1>9, <2>2, <3>1, <3>2 DEF Waits
  <2>4. \A g \in st.got \cup news : g.kind = Reply[g.id]
    BY <1>1, <1>6 DEF Waits
  <2>5. new.resp \cup Ids(n)' = st.resp \cup Ids(n) /\ new.resp \cap Ids(n)' = {}
    BY <1>1, <1>11, <1>13, <2>2 DEF Waits
  <2>6. st.pc \in {"wait", "choose", "register", "subscribe", "synced"} =>
          new.resp = {} /\ new.got = {}
    BY <1>1, <1>11, <2>1 DEF Waits
  <2>7. st.pc \in {"store", "adopt"} => new.resp = {} /\ Ids(n)' = Asked
    BY <1>1, <1>11, <1>13, <2>1 DEF Waits
  <2> QED
    BY <1>1, <1>11, <1>12, <2>3, <2>4, <2>5, <2>6, <2>7 DEF Waits
<1>15. st.pc \in {"subscribe", "synced"} => m.kind # "NodeConfigIs"
  BY <1>2 DEF NInv, OneAnswer, Sync
<1>16. Explained(n)'
  <2>1. Current(n)' = Current(n) /\ \A p : For(p, n)' = For(p, n)
    BY <1>2 DEF Current, Content, For
  <2>2. Fresh(n) => Fresh(n)'
    BY <1>2, <2>1 DEF Fresh
  <2>3. Carry(n) => Carry(n)'
    <3> SUFFICES ASSUME Carry(n) PROVE Carry(n)'
      OBVIOUS
    <3>1. \A g \in news : g.id = "NodeConfig" => g.value = Current(n)
      <4>1. m.kind = "NodeConfigIs" => m.value = Current(n)
        BY <1>2 DEF Carry, Carriers
      <4> QED
        BY <1>4, <1>6, <4>1
    <3>2. \A g \in new.got : g.id = "NodeConfig" => g.value = Current(n)
      BY <1>11, <3>1 DEF Carry
    <3> QED
      BY <1>2, <1>11, <1>12, <2>1, <2>2, <3>2 DEF Carry
  <2>4. Coming(n) => Coming(n)'
    BY <1>2, <1>11, <1>12, <2>1 DEF Coming
  <2>5. Holds(n) => Holds(n)'
    BY <1>11, <1>12, <2>1, <2>4 DEF Holds
  <2> QED
    BY <1>2, <2>3, <2>5 DEF NInv, Explained
<1>17. Alone(n, new)
  BY <1>2, <1>11 DEF Alone, NInv, Typed, CountTyped
<1>18. Answered(n, new)
  <2>1. \A w \in net' : w.node = n /\ w.kind \in Sync => m.kind # "NodeConfigIs"
    BY <1>2 DEF NInv, OneAnswer, Sync
  <2>2. \A w \in net' : w.node = n /\ w.kind \in Sync => "NodeConfig" \notin Ids(n)'
    <3> SUFFICES ASSUME NEW w \in net', w.node = n, w.kind \in Sync PROVE "NodeConfig" \notin Ids(n)'
      OBVIOUS
    <3>1. "NodeConfig" \notin Ids(n)
      BY <1>2 DEF NInv, OneAnswer
    <3>2. "NodeConfig" \notin waiting
      BY <1>4, <1>5, <2>1
    <3> QED
      BY <1>13, <3>1, <3>2
  <2>3. {g.id : g \in new.got} = Ids(n)'
    BY <1>12 DEF Ids
  <2>4. \A w \in net' : w.node = n /\ w.kind # "Subscribing" => new.up
    BY <1>2, <1>11 DEF NInv, OneAnswer
  <2>5. \A w \in net' : w.node = n /\ w.kind \in Sync => new.pc \in {"both", "await"}
    BY <1>2, <1>11 DEF NInv, OneAnswer
  <2>6. \A v, w \in net' : v.node = n /\ w.node = n /\ v.kind \in Sync /\ w.kind \in Sync => v = w
    BY <1>2 DEF NInv, OneAnswer
  <2> QED
    BY <2>2, <2>3, <2>4, <2>5, <2>6 DEF Answered
<1> QED
  BY <1>14, <1>16, <1>17, <1>18, NodeStep

\* The two halves of an update.
LEMMA UpdateKeeps ==
  ASSUME NInv, NEW n \in Nodes, NEW m \in net \cup node[n].updating,
         (m \in net /\ UpdateCache(n, m)) \/ UpdateHeld(n, m)
  PROVE  NInv'
<1> DEFINE st == node[n]
<1>1. st \in States /\ Waits(n) /\ m \in Msgs /\ m.value \in Value
  BY DEF NInv, Typed, NodeTyped, NetTyped, States, Msgs
<1>2. PICK new \in States :
        /\ Set(n, new)
        /\ new.pc = st.pc /\ new.up = st.up /\ new.resp = st.resp /\ new.got = st.got
        /\ \/ /\ m \in net /\ m.kind = "UpdateConfig" /\ m.node = n
              /\ new.held = st.held /\ new.updating = st.updating \cup {m} /\ net' = net \ {m}
           \/ /\ m \in st.updating
              /\ new.held = m.value /\ new.updating = st.updating \ {m} /\ net' = net
  <2>1. CASE m \in net /\ UpdateCache(n, m)
    <3> DEFINE new == [st EXCEPT !.cache = m.value, !.updating = @ \cup {m}]
    <3>1. /\ new \in States /\ new.pc = st.pc /\ new.up = st.up /\ new.resp = st.resp
          /\ new.got = st.got /\ new.held = st.held /\ new.updating = st.updating \cup {m}
      BY <1>1 DEF States
    <3> QED
      BY <2>1, <3>1 DEF UpdateCache
  <2>2. CASE UpdateHeld(n, m)
    <3> DEFINE new == [st EXCEPT !.held = m.value, !.updating = @ \ {m}]
    <3>1. /\ new \in States /\ new.pc = st.pc /\ new.up = st.up /\ new.resp = st.resp
          /\ new.got = st.got /\ new.held = m.value /\ new.updating = st.updating \ {m}
      BY <1>1 DEF States
    <3> QED
      BY <2>2, <3>1 DEF UpdateHeld
  <2> QED
    BY <2>1, <2>2
<1>3. UNCHANGED <<tables, known, subs, own, pushes, mresp, stat, count, cause>>
  BY DEF UpdateCache, UpdateHeld, master
<1>4. node'[n] = new
  BY <1>2 DEF Set, NInv, Typed, NodeTyped
<1>5. Waits(n)'
  BY <1>1, <1>2, <1>4 DEF Waits, Ids
<1>6. Explained(n)'
  <2>1. Current(n)' = Current(n) /\ \A p : For(p, n)' = For(p, n)
    BY <1>3 DEF Current, Content, For
  <2>2. Fresh(n) => Fresh(n)'
    BY <1>3, <2>1 DEF Fresh
  <2>3. Carry(n) => m.value = Current(n)
    BY <1>2 DEF Carry, Carriers
  <2>4. Carry(n) => Carry(n)'
    BY <1>2, <1>4, <2>1, <2>2, <2>3 DEF Carry
  <2>5. Carry(n) /\ Holds(n) => Holds(n)'
    <3> SUFFICES ASSUME Carry(n), Holds(n), node'[n].pc \in {"subscribe", "synced"},
                        node'[n].held # Current(n)
                 PROVE  Coming(n)'
      BY <2>1 DEF Holds
    <3>1. m \in net /\ new.updating = st.updating \cup {m}
      BY <1>2, <1>4, <2>3
    <3> QED
      BY <1>4, <3>1 DEF Coming
  <2> QED
    BY <1>3, <2>4, <2>5 DEF NInv, Explained
<1>7. Alone(n, new)
  BY <1>2, <1>3 DEF Alone, NInv, Typed, CountTyped
<1>8. Answered(n, new)
  BY <1>2 DEF Answered, NInv, OneAnswer, Ids
<1> QED
  BY <1>5, <1>6, <1>7, <1>8, NodeStep

\* What the node does with the other requests of the master.
LEMMA PlainAtNode ==
  ASSUME NInv, NEW n \in Nodes, NEW m \in net, UpdateMasters(n, m) \/ MakeStats(n, m)
  PROVE  NInv'
<1>1. /\ m.node = n /\ m.kind \in {"UpdateMasterNodeList", "GetStats"}
      /\ UNCHANGED <<tables, known, subs, own, pushes, mresp, stat, node, count, cause>>
  BY DEF UpdateMasters, MakeStats, master
<1>2. m \in Msgs /\ node[m.node].up
  BY <1>1 DEF NInv, Typed, NetTyped, OneAnswer
<1>3. \A w \in net' : w \in net \/ Plain(w)
  <2>1. CASE UpdateMasters(n, m)
    BY <2>1 DEF UpdateMasters
  <2>2. CASE MakeStats(n, m)
    <3>1. PICK kind \in {"GetStatsIs", "ErrorIs"} :
            net' = (net \ {m}) \cup {[m EXCEPT !.kind = kind]}
      BY <2>2 DEF MakeStats
    <3> DEFINE w == [m EXCEPT !.kind = kind]
    <3>2. w \in Msgs /\ w.node = m.node /\ w.kind = kind
      BY <1>2 DEF Msgs, Kinds, ToMaster
    <3> HIDE DEF w
    <3>3. Plain(w)
      BY <1>2, <3>2 DEF Plain, Sync, Carriers
    <3> QED
      BY <3>1, <3>3 DEF w
  <2> QED
    BY <2>1, <2>2
<1>4. \A w \in net : w.kind \in Carriers => w \in net'
  BY <1>1 DEF UpdateMasters, MakeStats, Carriers
<1>5. StatTyped' /\ Stated
  BY <1>1, StatsAlone
<1>6. Settled
  BY <1>1, <1>3, <1>4, <1>5, PlainSettled DEF NInv, Typed, MasterTyped, CountTyped
<1> QED
  BY <1>5, <1>6, SettledStated

-----------------------------------------------------------------------------
(* Faults.                                                                 *)

LEMMA LeavesKeep ==
  ASSUME NInv, NEW n \in Nodes, Disconnect(n) \/ Crash(n)
  PROVE  NInv'
<1> DEFINE st == node[n]
<1>1. st \in States /\ Waits(n)
  BY DEF NInv, Typed, NodeTyped
<1>2. PICK new \in States :
        /\ Set(n, new) /\ ~new.up
        /\ \/ /\ Disconnect(n)
              /\ new.pc = st.pc /\ new.resp = st.resp /\ new.got = st.got /\ new.held = st.held
              /\ new.updating = st.updating
           \/ Crash(n) /\ new.pc = "off" /\ new.resp = {} /\ new.got = {}
  <2>1. CASE Disconnect(n)
    <3> DEFINE new == [st EXCEPT !.up = FALSE]
    <3>1. /\ new \in States /\ ~new.up
          /\ new.pc = st.pc /\ new.resp = st.resp /\ new.got = st.got /\ new.held = st.held
          /\ new.updating = st.updating
      BY <1>1 DEF States
    <3> QED
      BY <2>1, <3>1 DEF Disconnect
  <2>2. CASE Crash(n)
    <3> DEFINE new == [st EXCEPT !.pc = "off", !.up = FALSE, !.resp = {}, !.got = {},
                                 !.updating = {}]
    <3>1. new \in States /\ ~new.up /\ new.pc = "off" /\ new.resp = {} /\ new.got = {}
      BY <1>1 DEF States, Pcs
    <3> QED
      BY <2>2, <3>1 DEF Crash
  <2> QED
    BY <2>1, <2>2
<1>3. /\ UNCHANGED <<tables, known, subs, own, pushes, mresp, stat>>
      /\ Fault /\ net' = net \ Lost(n)
  BY DEF Disconnect, Crash, master
<1>4. /\ cause' \in [Members -> SUBSET Causes]
      /\ \A x \in Members \ {n} : cause'[x] = cause[x]
      /\ cause[n] \subseteq cause'[n]
      /\ Crash(n) \/ Carried(n) => cause'[n] # {}
  <2>1. CASE Disconnect(n)
    <3>1. cause' = [cause EXCEPT ![n] = @ \cup IF Carried(n) THEN {"lost"} ELSE {}]
      BY <2>1 DEF Disconnect
    <3>2. ~Crash(n) \/ cause' = [cause EXCEPT ![n] = @ \cup {"lost"}]
      BY DEF Crash
    <3> QED
      BY <3>1, <3>2 DEF NInv, Typed, CountTyped, Members, Causes
  <2>2. CASE Crash(n)
    <3>1. cause' = [cause EXCEPT ![n] = @ \cup {"lost"}]
      BY <2>2 DEF Crash
    <3> QED
      BY <3>1 DEF NInv, Typed, CountTyped, Members, Causes
  <2> QED
    BY <2>1, <2>2
<1>5. CountTyped'
  BY <1>3, <1>4, EventTyped DEF NInv
<1>6. node'[n] = new
  BY <1>2 DEF Set, NInv, Typed, NodeTyped
<1>7. Waits(n)'
  BY <1>1, <1>2, <1>6 DEF Waits, Ids
<1>8. Explained(n)'
  <2> SUFFICES ASSUME cause'[n] = {} PROVE Carry(n)' /\ Holds(n)'
    BY DEF Explained
  <2>1. ~Crash(n) /\ ~Carried(n) /\ cause[n] = {}
    BY <1>4
  <2>2. /\ new.pc = st.pc /\ new.got = st.got /\ new.held = st.held
        /\ new.updating = st.updating
    BY <1>2, <2>1
  <2>3. \A m \in net : m.node = n => m.kind \notin Carriers
    BY <2>1 DEF Carried
  <2>4. Current(n)' = Current(n) /\ \A p : For(p, n)' = For(p, n)
    BY <1>3 DEF Current, Content, For
  <2>5. Carry(n) /\ Holds(n)
    BY <2>1 DEF NInv, Explained
  <2>6. Fresh(n)'
    BY <1>3, <2>4, <2>5 DEF Fresh, Carry
  <2>7. Carry(n)'
    BY <1>3, <1>6, <2>2, <2>3, <2>4, <2>5, <2>6 DEF Carry, Lost
  <2>8. Coming(n) => Coming(n)'
    BY <1>3, <1>6, <2>2, <2>3, <2>4 DEF Coming, Carriers
  <2>9. Holds(n)'
    BY <1>6, <2>2, <2>4, <2>5, <2>8 DEF Holds
  <2> QED
    BY <2>7, <2>9
<1>9. Alone(n, new)
  BY <1>2, <1>3, <1>4, <1>5 DEF Alone, Lost
<1>10. Answered(n, new)
  <2>1. \A m \in net' : m.node = n => m.kind = "Subscribing"
    BY <1>3 DEF Lost
  <2> QED
    BY <2>1 DEF Answered, Sync
<1> QED
  BY <1>7, <1>8, <1>9, <1>10, NodeStep

\* The master starts again: it knows its own configuration from its tables.
LEMMA RestartKeeps ==
  ASSUME NInv, Restart
  PROVE  NInv'
<1>1. /\ subs' = [c \in Configs |-> <<>>]
      /\ own' = [name |-> tables.conf[Self], held |-> Current(Self)]
      /\ pushes' = {} /\ mresp' = {} /\ net' = {}
      /\ node' = [n \in Nodes |-> [node[n] EXCEPT !.up = FALSE]]
      /\ UNCHANGED <<tables, known>> /\ Fault
  BY DEF Restart
<1>2. \A n \in Nodes : Current(n)' = Current(n)
  BY <1>1 DEF Current, Content
<1>3. \A n \in Nodes :
        /\ node'[n].pc = node[n].pc /\ node'[n].resp = node[n].resp /\ node'[n].got = node[n].got
        /\ node'[n].held = node[n].held /\ node'[n].updating = node[n].updating
        /\ node'[n] \in States /\ ~node'[n].up
  BY <1>1 DEF NInv, Typed, NodeTyped, States
<1>4. /\ cause' \in [Members -> SUBSET Causes]
      /\ \A n \in Nodes : cause'[n] = {} =>
            cause[n] = {} /\ ~Carried(n) /\ ~\E p \in pushes : PushTo(p, n)
  <2>1. cause' = [n \in Members |->
                    IF n = Self THEN {}
                    ELSE cause[n] \cup IF \E p \in pushes : PushTo(p, n) THEN {"lost"}
                                       ELSE IF Carried(n) THEN {"lost"} ELSE {}]
    BY DEF Restart
  <2> QED
    BY <2>1, ConstantsAssumption DEF NInv, Typed, CountTyped, Members, Causes
<1>5. Typed'
  <2>1. MasterTyped'
    BY <1>1, ContentTyped DEF NInv, Typed, MasterTyped, Members
  <2>2. NodeTyped' /\ NetTyped'
    BY <1>1, <1>3 DEF NodeTyped, NetTyped
  <2>3. StatTyped'
    BY <1>1 DEF Restart, NInv, Typed, StatTyped, Requests
  <2>4. CountTyped'
    BY <1>1, <1>4, EventTyped DEF NInv
  <2> QED
    BY <2>1, <2>2, <2>3, <2>4 DEF Typed
<1>6. \A n \in Nodes : Waits(n)'
  BY <1>3 DEF NInv, Waits, Ids
<1>7. OneAnswer'
  BY <1>1 DEF OneAnswer
<1>8. Stated
  BY <1>1 DEF Restart, NInv, Typed, StatTyped, Requests, Stated, OwnStats, Waiting
<1>9. ASSUME NEW n \in Nodes, cause'[n] = {} PROVE Carry(n)' /\ Holds(n)'
  <2>1. /\ Carry(n) /\ Holds(n)
        /\ \A m \in net : m.node = n => m.kind \notin Carriers
        /\ \A p \in pushes : ~For(p, n)
    BY <1>4, <1>9 DEF NInv, Explained, Carried, PushTo, For
  <2>2. Carry(n)'
    BY <1>1, <1>2, <1>3, <2>1 DEF Carry, Fresh
  <2>3. Coming(n) => Coming(n)'
    BY <1>1, <1>3, <2>1 DEF Coming, Carriers
  <2>4. Holds(n)'
    BY <1>2, <1>3, <2>1, <2>3 DEF Holds
  <2> QED
    BY <2>2, <2>4
<1>10. OwnExplained' /\ PushesOK'
  <2>1. OwnRight'
    BY <1>1 DEF OwnRight, Current, Content
  <2> QED
    BY <1>1, <2>1 DEF OwnExplained, PushesOK, Fresh
<1>11. Settled
  BY <1>5, <1>6, <1>7, <1>9, <1>10 DEF Settled, Explained
<1> QED
  BY <1>8, <1>11, SettledStated

-----------------------------------------------------------------------------
(* Orders.                                                                 *)

\* What a task is for is, in the terms of the model, on its way.
LEMMA ForIsPushed ==
  ASSUME PushesOK, NEW x \in Members, NEW p \in pushes
  PROVE  /\ For(p, x) => PushTo(p, x)
         /\ x = Self /\ Writing(p) => PushTo(p, x)
  BY DEF For, PushTo, Writing

\* A new task is for the members whose configuration the order changes.  If no cause is
\* recorded for one of them, nothing else was or comes to be on its way.
LEMMA OrderReaches ==
  ASSUME NInv, NEW kind \in {"config", "move", "list"}, NEW n \in Members, NEW c \in Configs,
         Order(kind, n, c), NEW t, t = Task(count.events + 1, kind, n, c), NEW x \in Members
  PROVE  /\ cause'[x] = {} => cause[x] = {}
         /\ ~For(t, x)' => /\ Current(x)' = Current(x) /\ tables'.conf[x] = tables.conf[x]
                           /\ \A p \in pushes : For(p, x)' = For(p, x)
         /\ For(t, x)' => /\ kind # "list" /\ PushTo(t, x)
                          /\ t.name = tables'.conf[x]
                          /\ t.at # "read" => t.value = Current(x)'
         /\ kind # "list" /\ PushTo(t, x) /\ cause'[x] = {} =>
                ~OnTheWay(x) /\ \A p \in pushes : ~(p.kind = "config" /\ p.name = c)
<1> DEFINE k == count.events + 1
<1>1. k \in Changes
  BY ConstantsAssumption DEF Order, Event, NInv, Typed, CountTyped, Changes
<1>2. /\ t.kind = kind /\ t.node = n /\ t.name = c
      /\ t.at = IF kind = "config" THEN "own" ELSE "read"
      /\ kind = "config" => t.value = [name |-> c, rev |-> k]
  BY <1>1, TaskIs
<1>3. cause'[x] = IF kind # "list" /\ PushTo(t, x) THEN cause[x] \cup Crossing(x, c) ELSE cause[x]
  BY DEF Order
<1>4. tables' = CASE kind = "config" -> [tables EXCEPT !.content[c] = k]
                  [] kind = "move"   -> [tables EXCEPT !.conf[n] = c]
                  [] OTHER           -> tables
  BY DEF Order
<1>5. kind = "config" => /\ tables'.conf = tables.conf
                         /\ \A d \in Configs : tables'.content[d] = IF d = c THEN k ELSE tables.content[d]
  BY <1>4 DEF NInv, Typed, MasterTyped
<1>6. kind = "move" => /\ tables'.content = tables.content
                       /\ \A y \in Members : tables'.conf[y] = IF y = n THEN c ELSE tables.conf[y]
  BY <1>4 DEF NInv, Typed, MasterTyped
<1>7. kind = "list" => tables' = tables
  BY <1>4
<1>8. tables.conf[x] \in Configs
  BY DEF NInv, Typed, MasterTyped
<1>9. ASSUME ~For(t, x)'
      PROVE  /\ Current(x)' = Current(x) /\ tables'.conf[x] = tables.conf[x]
             /\ \A p \in pushes : For(p, x)' = For(p, x)
  <2>1. (kind = "config" => c # tables'.conf[x]) /\ (kind = "move" => x # n)
    BY <1>2, <1>9 DEF For
  <2>2. tables'.conf[x] = tables.conf[x] /\ tables'.content[tables.conf[x]] = tables.content[tables.conf[x]]
    BY <1>5, <1>6, <1>7, <1>8, <2>1
  <2> QED
    BY <2>2 DEF Current, Content, For
<1>10. ASSUME For(t, x)'
       PROVE  /\ kind # "list" /\ PushTo(t, x)
              /\ t.name = tables'.conf[x]
              /\ t.at # "read" => t.value = Current(x)'
  <2>1. CASE kind = "config"
    <3>1. c = tables'.conf[x] /\ tables'.conf[x] = tables.conf[x] /\ tables'.content[c] = k
      BY <1>2, <1>5, <1>10, <2>1 DEF For
    <3>2. PushTo(t, x)
      BY <1>2, <2>1, <3>1 DEF PushTo
    <3> QED
      BY <1>2, <2>1, <3>1, <3>2 DEF Current, Content
  <2>2. CASE kind = "move"
    <3>1. x = n
      BY <1>2, <1>10, <2>2 DEF For
    <3> QED
      BY <1>2, <1>6, <2>2, <3>1 DEF PushTo
  <2>3. CASE kind = "list"
    BY <1>2, <1>10, <2>3 DEF For
  <2> QED
    BY <2>1, <2>2, <2>3
<1>11. cause'[x] = {} => cause[x] = {}
  BY <1>3
<1>12. kind # "list" /\ PushTo(t, x) /\ cause'[x] = {} =>
           ~OnTheWay(x) /\ \A p \in pushes : ~(p.kind = "config" /\ p.name = c)
  BY <1>3 DEF Crossing
<1> QED
  BY <1>9, <1>10, <1>11, <1>12

LEMMA OrderKeeps ==
  ASSUME NInv, NEW kind \in {"config", "move", "list"}, NEW n \in Members, NEW c \in Configs,
         Order(kind, n, c)
  PROVE  NInv'
<1>1. PICK t : t = Task(count.events + 1, kind, n, c)
  OBVIOUS
<1>2. count.events + 1 \in Changes
  BY ConstantsAssumption DEF Order, Event, NInv, Typed, CountTyped, Changes
<1>3. /\ t \in Pushes /\ t.kind = kind /\ t.node = n /\ t.name = c
      /\ t.at = IF kind = "config" THEN "own" ELSE "read"
  <2>1. PICK k \in Changes : t = Task(k, kind, n, c)
    BY <1>1, <1>2
  <2>2. Task(k, kind, n, c) \in Pushes
    BY TaskIs
  <2>3. /\ Task(k, kind, n, c).kind = kind
        /\ Task(k, kind, n, c).node = n /\ Task(k, kind, n, c).name = c
        /\ Task(k, kind, n, c).at = IF kind = "config" THEN "own" ELSE "read"
    BY DEF Task
  <2> QED
    BY <2>1, <2>2, <2>3
<1>4. /\ pushes' = pushes \cup {t}
      /\ UNCHANGED <<known, subs, own, mresp, stat, node, net>> /\ Event
  BY <1>1 DEF Order
<1>5. PushesOK'
  BY <1>3, <1>4 DEF NInv, PushesOK
<1>6. Typed'
  <2>1. tables' \in [conf : [Members -> Configs], content : [Configs -> Changes]]
    <3>1. \A f \in [conf : [Members -> Configs], content : [Configs -> Changes]], k \in Changes :
             /\ [f EXCEPT !.content[c] = k] \in [conf : [Members -> Configs], content : [Configs -> Changes]]
             /\ [f EXCEPT !.conf[n] = c] \in [conf : [Members -> Configs], content : [Configs -> Changes]]
      OBVIOUS
    <3>2. tables \in [conf : [Members -> Configs], content : [Configs -> Changes]]
      BY DEF NInv, Typed, MasterTyped
    <3>3. \/ tables' = [tables EXCEPT !.content[c] = count.events + 1]
          \/ tables' = [tables EXCEPT !.conf[n] = c]
          \/ tables' = tables
      BY DEF Order
    <3> QED
      BY <1>2, <3>1, <3>2, <3>3
  <2>2. MasterTyped'
    BY <1>3, <1>4, <2>1 DEF NInv, Typed, MasterTyped
  <2>3. cause' \in [Members -> SUBSET Causes]
    <3>1. \A x \in Members : cause[x] \subseteq Causes /\ Crossing(x, c) \subseteq Causes
      BY DEF NInv, Typed, CountTyped, Crossing, Causes
    <3> QED
      BY <3>1 DEF Order
  <2>4. CountTyped'
    BY <1>4, <2>3, EventTyped DEF NInv
  <2> QED
    BY <1>4, <2>2, <2>4 DEF NInv, Typed, StatTyped, NodeTyped, NetTyped
<1>7. (\A x \in Nodes : Waits(x)') /\ OneAnswer'
  BY <1>4 DEF NInv, Waits, OneAnswer, Ids
<1>8. ASSUME NEW x \in Members, cause'[x] = {}, x # Self \/ Fresh(Self)
      PROVE  (cause[x] = {} /\ Fresh(x)) => Fresh(x)'
  <2>1. CASE For(t, x)'
    <3>1. ~OnTheWay(x) /\ \A p \in pushes : ~(p.kind = "config" /\ p.name = c)
      BY <1>1, <1>8, <2>1, OrderReaches
    <3>2. \A p \in pushes : p.kind = "move" => p.node # x
      BY <3>1 DEF OnTheWay, PushTo
    <3>3. t.name = tables'.conf[x] /\ (t.at # "read" => t.value = Current(x)')
      BY <1>1, <2>1, OrderReaches
    <3>4. \A p \in pushes : ~For(p, x)'
      <4>1. c = tables'.conf[x]
        BY <1>3, <3>3
      <4> QED
        BY <3>1, <3>2, <4>1 DEF For
    <3> QED
      BY <1>4, <3>3, <3>4 DEF Fresh
  <2>2. CASE ~For(t, x)'
    <3>1. /\ Current(x)' = Current(x) /\ tables'.conf[x] = tables.conf[x]
          /\ \A p \in pushes : For(p, x)' = For(p, x)
      BY <1>1, <2>2, OrderReaches
    <3> QED
      BY <1>4, <2>2, <3>1 DEF Fresh
  <2> QED
    BY <2>1, <2>2
<1>9. ASSUME NEW x \in Nodes, cause'[x] = {} PROVE Carry(x)' /\ Holds(x)'
  <2>1. x \in Members /\ x # Self
    BY ConstantsAssumption DEF Members
  <2>2. cause[x] = {} /\ Carry(x) /\ Holds(x)
    BY <1>1, <1>9, <2>1, OrderReaches DEF NInv, Explained
  <2>3. Fresh(x)'
    BY <1>8, <1>9, <2>1, <2>2 DEF Carry
  <2>4. CASE For(t, x)'
    <3>1. ~OnTheWay(x)
      BY <1>1, <1>9, <2>1, <2>4, OrderReaches
    <3>2. Carry(x)'
      BY <1>4, <2>3, <3>1 DEF Carry, OnTheWay
    <3>3. Coming(x)'
      BY <1>4, <2>4 DEF Coming
    <3> QED
      BY <3>2, <3>3 DEF Holds
  <2>5. CASE ~For(t, x)'
    <3>1. Current(x)' = Current(x) /\ \A p \in pushes : For(p, x)' = For(p, x)
      BY <1>1, <2>1, <2>5, OrderReaches
    <3>2. Carry(x)'
      BY <1>4, <2>2, <2>3, <3>1 DEF Carry
    <3>3. Coming(x) => Coming(x)'
      BY <1>4, <3>1 DEF Coming
    <3>4. Holds(x)'
      BY <1>4, <2>2, <3>1, <3>3 DEF Holds
    <3> QED
      BY <3>2, <3>4
  <2> QED
    BY <2>4, <2>5
<1>10. OwnExplained'
  <2> SUFFICES ASSUME cause'[Self] = {}
               PROVE  /\ Fresh(Self)'
                      /\ \A p \in pushes' : Writing(p)' => p.name = tables'.conf[Self] /\ own'.name = p.name
                      /\ \A p, q \in pushes' : p.kind = "move" /\ p.node = Self => ~Writing(q)'
                      /\ \/ OwnRight'
                         \/ \E p \in pushes' : For(p, Self)' /\ (p.kind = "config" => p.at # "send")
    BY DEF OwnExplained
  <2>1. Self \in Members
    BY DEF Members
  <2>2. cause[Self] = {}
    BY <1>1, <2>1, OrderReaches
  <2>3. /\ Fresh(Self)
        /\ \A p \in pushes : Writing(p) => p.name = tables.conf[Self] /\ own.name = p.name
        /\ \A p, q \in pushes : p.kind = "move" /\ p.node = Self => ~Writing(q)
        /\ \/ OwnRight
           \/ \E p \in pushes : For(p, Self) /\ (p.kind = "config" => p.at # "send")
    BY <2>2 DEF NInv, OwnExplained
  <2>4. Fresh(Self)'
    BY <1>8, <2>1, <2>2, <2>3
  <2>5. CASE kind # "list" /\ PushTo(t, Self)
    <3>1. ~OnTheWay(Self) /\ \A p \in pushes : ~(p.kind = "config" /\ p.name = c)
      BY <1>1, <2>1, <2>5, OrderReaches
    <3>2. \A p \in pushes : ~For(p, Self) /\ ~Writing(p)
      BY <2>1, <3>1, ForIsPushed DEF OnTheWay, NInv
    <3>3. OwnRight /\ own.name = tables.conf[Self]
      BY <2>3, <3>2 DEF OwnRight
    <3>4. /\ kind = "config" => tables'.conf[Self] = tables.conf[Self] /\ c = tables.conf[Self]
          /\ kind = "move" => n = Self /\ tables'.conf[Self] = c
      <4>1. kind = "config" => c = tables.conf[Self]
        BY <1>3, <2>5, <3>3, ConstantsAssumption DEF PushTo
      <4>2. kind = "move" => n = Self
        BY <1>3, <2>5 DEF PushTo
      <4>3. kind = "config" => tables' = [tables EXCEPT !.content[c] = count.events + 1]
        BY DEF Order
      <4>4. kind = "move" => tables' = [tables EXCEPT !.conf[n] = c]
        BY DEF Order
      <4> QED
        BY <2>1, <4>1, <4>2, <4>3, <4>4 DEF NInv, Typed, MasterTyped
    <3>5. For(t, Self)'
      BY <1>3, <2>5, <3>4 DEF For
    <3>6. \A p \in pushes : ~Writing(p)'
      <4>1. \A p \in pushes : p.kind = "config" => p.at # "write" /\ p.name # own.name
                                                   /\ p.name # tables'.conf[Self]
        BY <2>5, <3>1, <3>2, <3>4 DEF Writing
      <4> QED
        BY <1>4, <4>1 DEF Writing
    <3>7. Writing(t)' => kind = "config" /\ t.name = tables'.conf[Self] /\ own'.name = t.name
      BY <1>3, <1>4, <3>3, <3>4 DEF Writing
    <3>8. \A p \in pushes : p.kind = "move" => p.node # Self
      BY <3>2 DEF For
    <3>9. For(t, Self)' /\ (t.kind = "config" => t.at # "send")
      BY <1>3, <3>5
    <3> QED
      BY <1>3, <1>4, <2>4, <3>6, <3>7, <3>8, <3>9
  <2>6. CASE kind = "list" \/ ~PushTo(t, Self)
    <3>1. ~For(t, Self)'
      BY <1>1, <2>1, <2>6, OrderReaches
    <3>2. /\ Current(Self)' = Current(Self) /\ tables'.conf[Self] = tables.conf[Self]
          /\ \A p \in pushes : For(p, Self)' = For(p, Self)
      BY <1>1, <2>1, <3>1, OrderReaches
    <3>3. OwnRight' = OwnRight
      BY <1>4, <3>2 DEF OwnRight
    <3>4. \A p : Writing(p)' = Writing(p)
      BY <1>4, <3>2 DEF Writing
    <3>5. ~Writing(t)
      BY <1>3, <2>6 DEF Writing, PushTo
    <3>6. t.kind = "move" => t.node # Self
      BY <1>3, <3>1 DEF For
    <3> QED
      BY <1>4, <2>3, <2>4, <3>2, <3>3, <3>4, <3>5, <3>6
  <2> QED
    BY <2>5, <2>6
<1>11. StatTyped' /\ Stated
  BY <1>4, StatsAlone
<1>12. Settled
  BY <1>5, <1>6, <1>7, <1>9, <1>10 DEF Settled, Explained
<1> QED
  BY <1>11, <1>12, SettledStated

-----------------------------------------------------------------------------
(* Tasks of send_update.                                                   *)

\* A task is replaced by new ones, or by none, that are for the same members.
LEMMA ReplacedExplained ==
  ASSUME NEW x \in Nodes, Explained(x), UNCHANGED <<tables, node, net, cause>>,
         NEW p \in pushes, NEW new, pushes' = (pushes \ {p}) \cup new,
         \A q \in new : For(q, x) =>
            q.name = tables.conf[x] /\ (q.at # "read" => q.value = Current(x)),
         For(p, x) => \E q \in new : For(q, x)
  PROVE  Explained(x)'
<1>1. Current(x)' = Current(x) /\ \A q : For(q, x)' = For(q, x)
  BY DEF Current, Content, For
<1>2. Fresh(x) => Fresh(x)'
  BY <1>1 DEF Fresh
<1>3. Carry(x) => Carry(x)'
  BY <1>1, <1>2 DEF Carry
<1>4. Coming(x) => Coming(x)'
  BY <1>1 DEF Coming
<1>5. Holds(x) => Holds(x)'
  BY <1>1, <1>4 DEF Holds
<1> QED
  BY <1>3, <1>5 DEF Explained

\* What a step of a task leaves to show.
LEMMA PushStep ==
  ASSUME NInv, UNCHANGED <<tables, known, subs, mresp, stat, node, net, count, cause>>,
         own' \in [name : Configs, held : Value], pushes' \subseteq Pushes, PushesOK',
         \A x \in Nodes : Explained(x)', OwnExplained'
  PROVE  NInv'
<1>1. Typed'
  BY DEF NInv, Typed, MasterTyped, StatTyped, NodeTyped, NetTyped, CountTyped
<1>2. (\A x \in Nodes : Waits(x)') /\ OneAnswer'
  BY DEF NInv, Waits, OneAnswer, Ids
<1>3. Settled
  BY <1>1, <1>2 DEF Settled
<1> QED
  BY <1>3, StatsAlone, SettledStated


LEMMA CompareKeeps ==
  ASSUME NInv, NEW p \in pushes, CompareName(p)
  PROVE  NInv'
<1>1. p \in Pushes /\ p.kind = "config" /\ p.at = "own"
  BY DEF NInv, Typed, MasterTyped, CompareName
<1>2. PICK q \in Pushes :
        /\ q.kind = "config" /\ q.name = p.name /\ q.node = p.node /\ q.value = p.value
        /\ q.at = IF own.name = p.name THEN "write" ELSE "send"
        /\ pushes' = (pushes \ {p}) \cup {q}
  <2>1. PICK at \in {"write", "send"} :
          /\ at = IF own.name = p.name THEN "write" ELSE "send"
          /\ pushes' = (pushes \ {p}) \cup {[p EXCEPT !.at = at]}
    BY DEF CompareName, Step
  <2> DEFINE q == [p EXCEPT !.at = at]
  <2>2. q \in Pushes /\ q.at = at /\ q.kind = p.kind /\ q.name = p.name /\ q.node = p.node
        /\ q.value = p.value
    BY <1>1 DEF Pushes
  <2> QED
    BY <1>1, <2>1, <2>2
<1>3. UNCHANGED <<tables, known, subs, own, mresp, stat, node, net, count, cause>>
  BY DEF CompareName
<1>4. PushesOK'
  BY <1>2 DEF NInv, PushesOK
<1>5. \A x \in Members : For(q, x) = For(p, x)
  BY <1>1, <1>2 DEF For
<1>6. \A x \in Nodes : Explained(x)'
  <2> SUFFICES ASSUME NEW x \in Nodes PROVE Explained(x)'
    OBVIOUS
  <2>1. x \in Members /\ Explained(x)
    BY DEF Members, NInv
  <2>2. CASE cause[x] = {}
    <3>1. For(p, x) => p.name = tables.conf[x] /\ p.value = Current(x)
      BY <1>1, <2>1, <2>2 DEF Explained, Carry, Fresh
    <3>2. \A r \in {q} : For(r, x) =>
             r.name = tables.conf[x] /\ (r.at # "read" => r.value = Current(x))
      BY <1>2, <1>5, <2>1, <3>1
    <3>3. For(p, x) => \E r \in {q} : For(r, x)
      BY <1>5, <2>1
    <3>4. UNCHANGED <<tables, node, net, cause>> /\ pushes' = (pushes \ {p}) \cup {q}
      BY <1>2, <1>3
    <3> DEFINE new == {q}
    <3> HIDE DEF new
    <3> QED
      BY <2>1, <3>2, <3>3, <3>4, ReplacedExplained DEF new
  <2>3. CASE cause[x] # {}
    BY <1>3, <2>3 DEF Explained
  <2> QED
    BY <2>2, <2>3
<1>7. OwnExplained'
  <2> SUFFICES ASSUME cause[Self] = {}
               PROVE  /\ Fresh(Self)'
                      /\ \A r \in pushes' : Writing(r)' => r.name = tables.conf[Self] /\ own.name = r.name
                      /\ \A r, s \in pushes' : r.kind = "move" /\ r.node = Self => ~Writing(s)'
                      /\ \/ OwnRight'
                         \/ \E r \in pushes' : For(r, Self)' /\ (r.kind = "config" => r.at # "send")
    BY <1>3 DEF OwnExplained
  <2>1. /\ Fresh(Self)
        /\ \A r \in pushes : Writing(r) => r.name = tables.conf[Self] /\ own.name = r.name
        /\ \A r, s \in pushes : r.kind = "move" /\ r.node = Self => ~Writing(s)
        /\ \/ OwnRight
           \/ \E r \in pushes : For(r, Self) /\ (r.kind = "config" => r.at # "send")
    BY DEF NInv, OwnExplained
  <2>2. /\ Current(Self)' = Current(Self) /\ OwnRight' = OwnRight
        /\ (\A r : For(r, Self)' = For(r, Self)) /\ \A r : Writing(r)' = Writing(r)
    BY <1>3 DEF Current, Content, For, Writing, OwnRight
  <2>3. Self \in Members /\ For(q, Self) = For(p, Self)
    BY <1>5 DEF Members
  <2>4. Fresh(Self)'
    BY <1>1, <1>2, <1>3, <2>1, <2>2, <2>3 DEF Fresh
  <2>5. Writing(q) => Writing(p)
    BY <1>1, <1>2 DEF Writing
  <2>6. For(p, Self) => q.at # "send"
    BY <1>1, <1>2, <2>1 DEF For, Writing
  <2> QED
    BY <1>2, <2>1, <2>2, <2>3, <2>4, <2>5, <2>6
<1> QED
  BY <1>2, <1>3, <1>4, <1>6, <1>7, PushStep DEF NInv, Typed, MasterTyped

\* The tables are read late, for the configuration the member has now.
LEMMA ReadKeeps ==
  ASSUME NInv, NEW p \in pushes, ReadTables(p)
  PROVE  NInv'
<1>1. p \in Pushes /\ p.kind # "config" /\ p.at = "read"
  BY DEF NInv, Typed, MasterTyped, ReadTables, PushesOK
<1>2. PICK q \in Pushes :
        /\ q.kind = p.kind /\ q.name = p.name /\ q.node = p.node
        /\ p.kind = "move" => q.value = Content(p.name)
        /\ q.at = IF p.kind = "move" /\ p.node = Self THEN "write" ELSE "send"
        /\ pushes' = (pushes \ {p}) \cup {q}
  <2>1. PICK at \in {"write", "send"}, v \in Value :
          /\ at = IF p.kind = "move" /\ p.node = Self THEN "write" ELSE "send"
          /\ p.kind = "move" => v = Content(p.name)
          /\ pushes' = (pushes \ {p}) \cup {[p EXCEPT !.at = at, !.value = v]}
    <3>1. Content(p.name) \in Value /\ p.value \in Value
      BY <1>1, ContentTyped DEF NInv, Typed, Pushes
    <3>2. pushes' = (pushes \ {p}) \cup
            {[p EXCEPT !.at = IF p.kind = "move" /\ p.node = Self THEN "write" ELSE "send",
                       !.value = IF p.kind = "move" THEN Content(p.name) ELSE p.value]}
      BY <1>1 DEF ReadTables, Pushes
    <3>3. CASE p.kind = "move"
      BY <3>1, <3>2, <3>3
    <3>4. CASE p.kind # "move"
      BY <3>1, <3>2, <3>4
    <3> QED
      BY <3>3, <3>4
  <2> DEFINE q == [p EXCEPT !.at = at, !.value = v]
  <2>2. q \in Pushes /\ q.at = at /\ q.kind = p.kind /\ q.name = p.name /\ q.node = p.node
        /\ q.value = v
    BY <1>1 DEF Pushes
  <2> QED
    BY <1>1, <2>1, <2>2
<1>3. UNCHANGED <<tables, known, subs, own, mresp, stat, node, net, count, cause>>
  BY DEF ReadTables
<1>4. PushesOK'
  BY <1>1, <1>2 DEF NInv, PushesOK
<1>5. \A x \in Members : For(q, x) = For(p, x)
  BY <1>1, <1>2 DEF For
<1>6. \A x : For(q, x) => q.kind = "move" /\ q.value = Content(q.name)
  BY <1>1, <1>2 DEF For
<1>7. \A x \in Nodes : Explained(x)'
  <2> SUFFICES ASSUME NEW x \in Nodes PROVE Explained(x)'
    OBVIOUS
  <2>1. x \in Members /\ Explained(x)
    BY DEF Members, NInv
  <2>2. CASE cause[x] = {}
    <3>1. For(p, x) => p.name = tables.conf[x]
      BY <2>1, <2>2 DEF Explained, Carry, Fresh
    <3>2. \A r \in {q} : For(r, x) =>
             r.name = tables.conf[x] /\ (r.at # "read" => r.value = Current(x))
      BY <1>2, <1>5, <1>6, <2>1, <3>1 DEF Current
    <3>3. For(p, x) => \E r \in {q} : For(r, x)
      BY <1>5, <2>1
    <3>4. UNCHANGED <<tables, node, net, cause>> /\ pushes' = (pushes \ {p}) \cup {q}
      BY <1>2, <1>3
    <3> DEFINE new == {q}
    <3> HIDE DEF new
    <3> QED
      BY <2>1, <3>2, <3>3, <3>4, ReplacedExplained DEF new
  <2>3. CASE cause[x] # {}
    BY <1>3, <2>3 DEF Explained
  <2> QED
    BY <2>2, <2>3
<1>8. OwnExplained'
  <2> SUFFICES ASSUME cause[Self] = {}
               PROVE  /\ Fresh(Self)'
                      /\ \A r \in pushes' : Writing(r)' => r.name = tables.conf[Self] /\ own.name = r.name
                      /\ \A r, s \in pushes' : r.kind = "move" /\ r.node = Self => ~Writing(s)'
                      /\ \/ OwnRight'
                         \/ \E r \in pushes' : For(r, Self)' /\ (r.kind = "config" => r.at # "send")
    BY <1>3 DEF OwnExplained
  <2>1. /\ Fresh(Self)
        /\ \A r \in pushes : Writing(r) => r.name = tables.conf[Self] /\ own.name = r.name
        /\ \A r, s \in pushes : r.kind = "move" /\ r.node = Self => ~Writing(s)
        /\ \/ OwnRight
           \/ \E r \in pushes : For(r, Self) /\ (r.kind = "config" => r.at # "send")
    BY DEF NInv, OwnExplained
  <2>2. /\ Current(Self)' = Current(Self) /\ OwnRight' = OwnRight
        /\ (\A r : For(r, Self)' = For(r, Self)) /\ \A r : Writing(r)' = Writing(r)
    BY <1>3 DEF Current, Content, For, Writing, OwnRight
  <2>3. Self \in Members /\ For(q, Self) = For(p, Self)
    BY <1>5 DEF Members
  <2>4. Fresh(Self)'
    BY <1>2, <1>3, <1>6, <2>1, <2>2, <2>3 DEF Fresh, Current
  <2>5. ~Writing(q)
    BY <1>1, <1>2 DEF Writing
  <2>6. q.kind # "config"
    BY <1>1, <1>2
  <2> QED
    BY <1>2, <2>1, <2>2, <2>3, <2>4, <2>5, <2>6
<1> QED
  BY <1>2, <1>3, <1>4, <1>7, <1>8, PushStep DEF NInv, Typed, MasterTyped

\* The master takes its own configuration over.
LEMMA WriteKeeps ==
  ASSUME NInv, NEW p \in pushes, WriteOwn(p)
  PROVE  NInv'
<1>1. p \in Pushes /\ p.at = "write" /\ p.name \in Configs /\ p.value \in Value
  BY DEF NInv, Typed, MasterTyped, WriteOwn, Pushes
<1>2. p.kind = "config" \/ (p.kind = "move" /\ p.node = Self)
  BY <1>1 DEF NInv, PushesOK, Pushes
<1>3. UNCHANGED <<tables, known, subs, mresp, stat, node, net, count, cause>>
  BY DEF WriteOwn
<1>4. PICK new \in SUBSET Pushes :
        /\ pushes' = (pushes \ {p}) \cup new
        /\ p.kind = "move" => new = {}
        /\ p.kind = "config" => \E r \in new : r.name = p.name
        /\ \A r \in new : /\ r.kind = "config" /\ r.name = p.name /\ r.value = p.value
                          /\ r.at = "send" /\ p.kind = "config"
  <2>1. CASE p.kind = "move"
    <3>1. pushes' = (pushes \ {p}) \cup {}
      BY <2>1 DEF WriteOwn, Finish
    <3>2. {} \in SUBSET Pushes /\ \A r \in {} : FALSE
      OBVIOUS
    <3> DEFINE new == {}
    <3> HIDE DEF new
    <3>3. new \in SUBSET Pushes /\ pushes' = (pushes \ {p}) \cup new /\ new = {}
      BY <3>1, <3>2 DEF new
    <3> QED
      BY <2>1, <3>3
  <2>2. CASE p.kind = "config"
    <3> DEFINE q == [p EXCEPT !.at = "send"]
    <3>1. q \in Pushes /\ q.at = "send" /\ q.kind = p.kind /\ q.name = p.name /\ q.value = p.value
      BY <1>1 DEF Pushes
    <3>2. pushes' = (pushes \ {p}) \cup {q}
      BY <2>2 DEF WriteOwn, Step
    <3> HIDE DEF q
    <3>3. /\ {q} \in SUBSET Pushes
          /\ \E r \in {q} : r.name = p.name
          /\ \A r \in {q} : /\ r.kind = "config" /\ r.name = p.name /\ r.value = p.value
                            /\ r.at = "send" /\ p.kind = "config"
      BY <2>2, <3>1
    <3> QED
      BY <2>2, <3>2, <3>3
  <2> QED
    BY <1>2, <2>1, <2>2
<1>5. own' \in [name : Configs, held : Value]
      /\ own' = IF p.kind = "move" THEN [name |-> p.name, held |-> p.value]
                                   ELSE [name |-> own.name, held |-> p.value]
  BY <1>1 DEF WriteOwn, NInv, Typed, MasterTyped
<1>6. PushesOK'
  BY <1>4 DEF NInv, PushesOK
<1>7. \A x \in Members : p.kind = "config" => \A r \in new : For(r, x) = For(p, x)
  BY <1>4 DEF For
<1>8. \A x \in Nodes : Explained(x)'
  <2> SUFFICES ASSUME NEW x \in Nodes PROVE Explained(x)'
    OBVIOUS
  <2>1. x \in Members /\ Explained(x) /\ x # Self
    BY ConstantsAssumption DEF Members, NInv
  <2>2. CASE cause[x] = {}
    <3>1. For(p, x) => p.kind = "config" /\ p.name = tables.conf[x] /\ p.value = Current(x)
      BY <1>1, <1>2, <2>1, <2>2 DEF Explained, Carry, Fresh, For
    <3>2. \A r \in new : For(r, x) =>
             r.name = tables.conf[x] /\ (r.at # "read" => r.value = Current(x))
      BY <1>4, <1>7, <2>1, <3>1
    <3>3. For(p, x) => \E r \in new : For(r, x)
      BY <1>4, <1>7, <2>1, <3>1
    <3>4. UNCHANGED <<tables, node, net, cause>> /\ pushes' = (pushes \ {p}) \cup new
      BY <1>3, <1>4
    <3> QED
      BY <2>1, <3>2, <3>3, <3>4, ReplacedExplained
  <2>3. CASE cause[x] # {}
    BY <1>3, <2>3 DEF Explained
  <2> QED
    BY <2>2, <2>3
<1>9. OwnExplained'
  <2> SUFFICES ASSUME cause[Self] = {}
               PROVE  /\ Fresh(Self)'
                      /\ \A r \in pushes' : Writing(r)' => r.name = tables.conf[Self] /\ own'.name = r.name
                      /\ \A r, s \in pushes' : r.kind = "move" /\ r.node = Self => ~Writing(s)'
                      /\ OwnRight'
    BY <1>3 DEF OwnExplained
  <2>1. /\ Fresh(Self)
        /\ \A r \in pushes : Writing(r) => r.name = tables.conf[Self] /\ own.name = r.name
        /\ \A r, s \in pushes : r.kind = "move" /\ r.node = Self => ~Writing(s)
    BY DEF NInv, OwnExplained
  <2>2. /\ Current(Self)' = Current(Self) /\ \A r : For(r, Self)' = For(r, Self)
    BY <1>3 DEF Current, Content, For
  <2>3. p.kind = "config" => Writing(p)
    BY <1>1 DEF Writing
  <2>4. For(p, Self) /\ p.name = tables.conf[Self] /\ p.value = Current(Self)
    <3>1. For(p, Self)
      BY <1>2, <2>1, <2>3 DEF For
    <3> QED
      BY <1>1, <2>1, <3>1 DEF Fresh
  <2>5. own'.name = tables.conf[Self] /\ OwnRight'
    <3>1. p.kind = "config" => own.name = p.name
      BY <2>1, <2>3
    <3>2. own' = [name |-> p.name, held |-> p.value]
      BY <1>2, <1>5, <3>1
    <3>3. OwnRight'
      BY <1>3, <2>2, <2>4, <3>2 DEF OwnRight
    <3> QED
      BY <2>4, <3>2, <3>3
  <2>6. Fresh(Self)'
    <3>1. Self \in Members
      BY DEF Members
    <3>2. \A r \in new : For(r, Self) => r.name = tables.conf[Self] /\ r.value = Current(Self)
      BY <1>4, <2>4
    <3> QED
      BY <1>3, <1>4, <2>1, <2>2, <3>2 DEF Fresh
  <2>7. CASE p.kind = "config"
    <3>1. own'.name = own.name
      BY <1>5, <2>7
    <3>2. \A r : Writing(r)' = Writing(r)
      BY <1>3, <3>1 DEF Writing
    <3>3. \A r \in pushes : ~(r.kind = "move" /\ r.node = Self)
      BY <2>1, <2>3, <2>7
    <3>4. \A r \in new : r.kind # "move" /\ r.name = tables.conf[Self]
      BY <1>4, <2>4
    <3>5. \A r \in pushes' : Writing(r)' => r.name = tables.conf[Self] /\ own'.name = r.name
      BY <1>4, <2>1, <2>5, <3>1, <3>2, <3>4
    <3>6. \A r, s \in pushes' : r.kind = "move" /\ r.node = Self => ~Writing(s)'
      BY <1>4, <3>3, <3>4
    <3> QED
      BY <2>5, <2>6, <3>5, <3>6
  <2>8. CASE p.kind = "move"
    <3>1. pushes' \subseteq pushes
      BY <1>4, <2>8
    <3>2. \A r \in pushes : ~Writing(r)
      BY <1>2, <2>1, <2>8
    <3>3. \A r \in pushes : ~Writing(r)'
      BY <1>3, <2>5, <3>2 DEF Writing
    <3> QED
      BY <2>5, <2>6, <3>1, <3>3
  <2> QED
    BY <1>2, <2>7, <2>8
<1>10. pushes' \subseteq Pushes
  BY <1>4 DEF NInv, Typed, MasterTyped
<1> QED
  BY <1>3, <1>5, <1>6, <1>8, <1>9, <1>10, PushStep

\* A task about the masters ends: it was for nobody's configuration.
LEMMA PanicKeeps ==
  ASSUME NInv, NEW p \in pushes, AddressPanics(p)
  PROVE  NInv'
<1>1. /\ p.kind = "list" /\ pushes' = (pushes \ {p}) \cup {}
      /\ UNCHANGED <<tables, known, subs, own, mresp, stat, node, net, count, cause>>
  BY DEF AddressPanics, Finish
<1>2. \A x : ~For(p, x)
  BY <1>1 DEF For
<1>3. \A x \in Nodes : Explained(x)'
  <2> DEFINE new == {}
  <2>1. (\A q \in new : FALSE) /\ pushes' = (pushes \ {p}) \cup new
    BY <1>1
  <2> HIDE DEF new
  <2>2. UNCHANGED <<tables, node, net, cause>>
    BY <1>1
  <2> QED
    BY <1>2, <2>1, <2>2, ReplacedExplained DEF NInv
<1>4. OwnExplained'
  <2>1. /\ Current(Self)' = Current(Self) /\ OwnRight' = OwnRight
        /\ (\A r : For(r, Self)' = For(r, Self)) /\ \A r : Writing(r)' = Writing(r)
    BY <1>1 DEF Current, Content, For, Writing, OwnRight
  <2>2. Fresh(Self) => Fresh(Self)'
    BY <1>1, <2>1 DEF Fresh
  <2> QED
    BY <1>1, <1>2, <2>1, <2>2 DEF NInv, OwnExplained
<1>5. PushesOK' /\ pushes' \subseteq Pushes /\ own' \in [name : Configs, held : Value]
  BY <1>1 DEF NInv, PushesOK, Typed, MasterTyped
<1> QED
  BY <1>1, <1>3, <1>4, <1>5, PushStep

\* What a task sends has the types of messages, goes to nodes, and never belongs to an
\* exchange of configurations.
LEMMA SentTyped ==
  ASSUME NInv, NEW p \in pushes, NEW m \in Sent(p)
  PROVE  /\ m \in Msgs /\ m.kind \in {"UpdateConfig", "UpdateMasterNodeList"}
         /\ m.kind = "UpdateConfig" => p.kind \in {"config", "move"} /\ m.value = p.value
         /\ p.kind = "config" => Contains(subs[p.name], m.node)
         /\ p.kind = "move" => m.node = p.node
<1>1. p \in Pushes /\ p.id \in MsgIds /\ p.value \in Value /\ p.name \in Configs
  BY DEF NInv, Typed, MasterTyped, Pushes, MsgIds
<1>2. \A c \in Configs : subs[c] \in Seq(Nodes)
  BY DEF NInv, Typed, MasterTyped
<1>3. \A c \in Configs : \A i \in DOMAIN subs[c] :
        i \in Nat /\ subs[c][i] \in Nodes /\ Contains(subs[c], subs[c][i])
  BY <1>2 DEF Contains
<1>4. \A c \in Configs : \A x : Contains(subs[c], x) => x \in Nodes
  BY <1>2 DEF Contains
<1>5. "UpdateConfig" \in Kinds /\ "UpdateMasterNodeList" \in Kinds
  BY DEF Kinds, ToNode
<1>6. CASE p.kind = "config"
  <2>1. PICK i \in DOMAIN subs[p.name] : m = Msg("UpdateConfig", subs[p.name][i], p.id, i, p.value)
    BY <1>6 DEF Sent
  <2>2. i \in Nat /\ subs[p.name][i] \in Nodes /\ Contains(subs[p.name], subs[p.name][i])
    BY <1>1, <1>3
  <2> QED
    BY <1>1, <1>5, <1>6, <2>1, <2>2, MsgIs
<1>7. CASE p.kind = "move"
  <2>1. m = Msg("UpdateConfig", p.node, p.id, 1, p.value)
        /\ \E c \in GroupsOf(p) : Contains(subs[c], p.node)
    BY <1>7 DEF Sent
  <2>2. p.node \in Nodes /\ 1 \in Nat
    BY <1>4, <2>1 DEF GroupsOf
  <2> QED
    BY <1>1, <1>5, <1>7, <2>1, <2>2, MsgIs
<1>8. CASE p.kind = "list"
  <2>1. m \in UNION {{Msg("UpdateMasterNodeList", subs[c][i], p.id, i, p.value) : i \in DOMAIN subs[c]}
                        : c \in Configs}
    BY <1>8 DEF Sent
  <2>2. PICK c \in Configs :
          m \in {Msg("UpdateMasterNodeList", subs[c][i], p.id, i, p.value) : i \in DOMAIN subs[c]}
    BY <2>1
  <2>3. PICK i \in DOMAIN subs[c] : m = Msg("UpdateMasterNodeList", subs[c][i], p.id, i, p.value)
    BY <2>2
  <2>4. i \in Nat /\ subs[c][i] \in Nodes
    BY <1>3
  <2> QED
    BY <1>1, <1>5, <1>8, <2>3, <2>4, MsgIs
<1> QED
  BY <1>1, <1>6, <1>7, <1>8 DEF Pushes

\* Who the task is for and is in its group is sent the task's value.
LEMMA SentFor ==
  ASSUME NInv, NEW p \in pushes, p.at = "send", NEW x \in Nodes, For(p, x), Missed(p, x) = {}
  PROVE  \E m \in Sent(p) : m.node = x /\ m.kind = "UpdateConfig"
<1>1. p.name \in Configs
  BY DEF NInv, Typed, MasterTyped, Pushes
<1>2. CASE p.kind = "config"
  <2>1. p.name = tables.conf[x]
    BY <1>2 DEF For
  <2>2. Contains(subs[p.name], x)
    BY <1>2, <2>1 DEF Missed
  <2>3. PICK i \in DOMAIN subs[p.name] : subs[p.name][i] = x
    <3>1. subs[p.name] \in Seq(Nodes)
      BY <1>1 DEF NInv, Typed, MasterTyped
    <3>2. PICK i \in 1..Len(subs[p.name]) : subs[p.name][i] = x
      BY <2>2 DEF Contains
    <3> QED
      BY <3>1, <3>2
  <2>4. Msg("UpdateConfig", subs[p.name][i], p.id, i, p.value) \in Sent(p)
    BY <1>2, <2>3 DEF Sent
  <2>5. /\ Msg("UpdateConfig", subs[p.name][i], p.id, i, p.value).node = x
        /\ Msg("UpdateConfig", subs[p.name][i], p.id, i, p.value).kind = "UpdateConfig"
    BY <2>3 DEF Msg
  <2> QED
    BY <2>4, <2>5
<1>3. CASE p.kind = "move"
  <2>1. p.node = x
    BY <1>3 DEF For
  <2>2. Subscribed(x)
    BY <1>3, <2>1 DEF Missed
  <2>3. x \in {y \in {p.node} : \E c \in GroupsOf(p) : Contains(subs[c], y)}
    BY <2>1, <2>2 DEF Subscribed, GroupsOf
  <2>4. Msg("UpdateConfig", x, p.id, 1, p.value) \in Sent(p)
    BY <1>3, <2>3 DEF Sent
  <2>5. /\ Msg("UpdateConfig", x, p.id, 1, p.value).node = x
        /\ Msg("UpdateConfig", x, p.id, 1, p.value).kind = "UpdateConfig"
    BY DEF Msg
  <2> QED
    BY <2>4, <2>5
<1> QED
  BY <1>2, <1>3 DEF For

LEMMA SendKeeps ==
  ASSUME NInv, NEW p \in pushes, SendUpdates(p)
  PROVE  NInv'
<1> DEFINE LostTo(x) == \E m \in Sent(p) : m.node = x /\ m.kind \in Carriers /\ ~node[x].up
<1>1. /\ p.at = "send" /\ net' = net \cup Reaching(Sent(p)) /\ pushes' = pushes \ {p}
      /\ UNCHANGED <<tables, known, subs, own, mresp, stat, node, count>>
  BY DEF SendUpdates, Finish
<1>2. cause' = [x \in Members |-> IF x = Self THEN cause[x]
                                  ELSE cause[x] \cup Missed(p, x)
                                       \cup (IF LostTo(x) THEN {"lost"} ELSE {})]
  BY DEF SendUpdates
<1>3. cause' \in [Members -> SUBSET Causes] /\ cause'[Self] = cause[Self]
  <2>1. \A x \in Members : cause[x] \subseteq Causes /\ Missed(p, x) \subseteq Causes
    BY DEF NInv, Typed, CountTyped, Missed, Causes
  <2>2. Self \in Members /\ "lost" \in Causes
    BY DEF Members, Causes
  <2> HIDE DEF LostTo
  <2> QED
    BY <1>2, <2>1, <2>2
<1>4. \A x \in Nodes : cause'[x] = {} => cause[x] = {} /\ Missed(p, x) = {} /\ ~LostTo(x)
  <2> HIDE DEF LostTo
  <2>1. \A x \in Nodes : x \in Members /\ x # Self
    BY ConstantsAssumption DEF Members
  <2> QED
    BY <1>2, <2>1
<1>5. \A m \in net' : m \in net \/ (m \in Sent(p) /\ node[m.node].up)
  BY <1>1 DEF Reaching
<1>6. \A m \in Sent(p) : m \in Msgs /\ m.kind \in {"UpdateConfig", "UpdateMasterNodeList"}
  BY SentTyped
<1>7. Typed'
  <2>1. NetTyped'
    BY <1>5, <1>6 DEF NInv, Typed, NetTyped
  <2>2. CountTyped'
    BY <1>1, <1>3 DEF NInv, Typed, CountTyped
  <2> QED
    BY <1>1, <2>1, <2>2 DEF NInv, Typed, MasterTyped, StatTyped, NodeTyped
<1>8. OneAnswer'
  <2>1. \A m \in net' : m.kind \in Sync => m \in net
    BY <1>5, <1>6 DEF Sync
  <2> QED
    BY <1>1, <1>5, <2>1 DEF NInv, OneAnswer, Ids
<1>9. \A x \in Nodes : Waits(x)'
  BY <1>1 DEF NInv, Waits, Ids
<1>10. PushesOK'
  BY <1>1 DEF NInv, PushesOK
<1>11. \A x : Current(x)' = Current(x) /\ \A q : For(q, x)' = For(q, x)
  BY <1>1 DEF Current, Content, For
<1>12. ASSUME NEW x \in Nodes, cause'[x] = {} PROVE Carry(x)' /\ Holds(x)'
  <2>1. cause[x] = {} /\ Missed(p, x) = {} /\ ~LostTo(x)
    BY <1>4, <1>12
  <2>2. Carry(x) /\ Holds(x)
    BY <2>1 DEF NInv, Explained
  <2>3. Fresh(x)'
    BY <1>1, <1>11, <2>2 DEF Carry, Fresh
  <2>4. \A m \in Sent(p) : m.node = x /\ m.kind \in Carriers => m.value = Current(x)
    <3> SUFFICES ASSUME NEW m \in Sent(p), m.node = x, m.kind \in Carriers
                 PROVE  m.value = Current(x)
      OBVIOUS
    <3>1. m.kind = "UpdateConfig" /\ m.value = p.value /\ p.kind \in {"config", "move"}
      BY SentTyped DEF Carriers
    <3>2. For(p, x)
      <4>1. CASE p.kind = "config"
        <5>1. Contains(subs[p.name], x)
          BY <4>1, SentTyped
        <5>2. tables.conf[x] = p.name
          BY <2>1, <4>1, <5>1 DEF Missed
        <5> QED
          BY <4>1, <5>2 DEF For
      <4>2. CASE p.kind = "move"
        BY <4>2, SentTyped DEF For
      <4> QED
        BY <3>1, <4>1, <4>2
    <3> QED
      BY <1>1, <2>2, <3>1, <3>2 DEF Carry, Fresh
  <2>5. \A m \in net' : m.node = x /\ m.kind \in Carriers => m.value = Current(x)
    BY <1>5, <2>2, <2>4 DEF Carry
  <2>6. Carry(x)'
    BY <1>1, <1>11, <2>2, <2>3, <2>5 DEF Carry
  <2>7. For(p, x) => \E m \in net' : m.node = x /\ m.kind = "UpdateConfig"
    <3> SUFFICES ASSUME For(p, x) PROVE \E m \in net' : m.node = x /\ m.kind = "UpdateConfig"
      OBVIOUS
    <3>1. PICK m \in Sent(p) : m.node = x /\ m.kind = "UpdateConfig"
      BY <1>1, <2>1, SentFor
    <3>2. node[m.node].up
      BY <2>1, <3>1 DEF Carriers
    <3> QED
      BY <1>1, <3>1, <3>2 DEF Reaching
  <2>8. Coming(x) => Coming(x)'
    BY <1>1, <1>11, <2>7 DEF Coming
  <2>9. Holds(x)'
    BY <1>1, <1>11, <2>2, <2>8 DEF Holds
  <2> QED
    BY <2>6, <2>9
<1>13. OwnExplained'
  <2> SUFFICES ASSUME cause[Self] = {}
               PROVE  /\ Fresh(Self)'
                      /\ \A r \in pushes' : Writing(r)' => r.name = tables.conf[Self] /\ own.name = r.name
                      /\ \A r, s \in pushes' : r.kind = "move" /\ r.node = Self => ~Writing(s)'
                      /\ \/ OwnRight'
                         \/ \E r \in pushes' : For(r, Self)' /\ (r.kind = "config" => r.at # "send")
    BY <1>1, <1>3 DEF OwnExplained
  <2>1. /\ Fresh(Self)
        /\ \A r \in pushes : Writing(r) => r.name = tables.conf[Self] /\ own.name = r.name
        /\ \A r, s \in pushes : r.kind = "move" /\ r.node = Self => ~Writing(s)
        /\ \/ OwnRight
           \/ \E r \in pushes : For(r, Self) /\ (r.kind = "config" => r.at # "send")
    BY DEF NInv, OwnExplained
  <2>2. OwnRight' = OwnRight /\ \A r : Writing(r)' = Writing(r)
    BY <1>1, <1>11 DEF Writing, OwnRight
  <2>3. Fresh(Self)'
    BY <1>1, <1>11, <2>1 DEF Fresh
  <2>4. For(p, Self) => p.kind = "config"
    BY <1>1 DEF NInv, PushesOK, For
  <2> QED
    BY <1>1, <1>11, <2>1, <2>2, <2>3, <2>4
<1>14. StatTyped' /\ Stated
  BY <1>1, StatsAlone
<1>15. Settled
  BY <1>7, <1>8, <1>9, <1>10, <1>12, <1>13 DEF Settled, Explained
<1> QED
  BY <1>14, <1>15, SettledStated

-----------------------------------------------------------------------------
(* The specification.                                                      *)

LEMMA StartsRight ==
  ASSUME Init
  PROVE  NInv
<1>1. tables = [conf |-> [n \in Members |-> DefaultName], content |-> [c \in Configs |-> 0]]
      /\ known = {} /\ subs = [c \in Configs |-> <<>>]
      /\ own = [name |-> DefaultName, held |-> DefaultValue]
      /\ pushes = {} /\ mresp = {} /\ net = {}
      /\ stat = [s \in Stats |-> Unasked]
      /\ node = [n \in Nodes |-> Off]
      /\ count = [events |-> 0, faults |-> 0, lives |-> [n \in Nodes |-> 0]]
      /\ cause = [n \in Members |-> {}]
  BY DEF Init
<1>2. 0 \in Changes /\ DefaultName \in Configs
  BY ConstantsAssumption DEF Changes
<1>3. Typed
  <2>1. MasterTyped
    BY <1>1, <1>2, DefaultTyped DEF MasterTyped
  <2>2. StatTyped
    <3>1. Unasked \in Requests
      BY DEF Unasked, Requests, Answer, Answers
    <3> QED
      BY <1>1, <3>1 DEF StatTyped
  <2>3. NodeTyped /\ NetTyped
    BY <1>1, OffTyped DEF NodeTyped, NetTyped
  <2>4. CountTyped
    BY <1>1, <1>2 DEF CountTyped
  <2> QED
    BY <2>1, <2>2, <2>3, <2>4 DEF Typed
<1>4. \A n \in Nodes : Waits(n)
  BY <1>1 DEF Waits, Ids, Off
<1>5. OneAnswer /\ PushesOK
  BY <1>1 DEF OneAnswer, PushesOK
<1>6. OwnStats /\ Waiting
  BY <1>1 DEF OwnStats, Waiting, Unasked, Answer
<1>7. \A n \in Nodes : Explained(n)
  BY <1>1 DEF Explained, Carry, Fresh, Holds, Off
<1>8. OwnExplained
  <2>1. OwnRight
    <3>1. Self \in Members
      BY DEF Members
    <3> QED
      BY <1>1, <1>2, <3>1 DEF OwnRight, Current, Content, DefaultValue
  <2> QED
    BY <1>1, <2>1 DEF OwnExplained, Fresh
<1> QED
  BY <1>3, <1>4, <1>5, <1>6, <1>7, <1>8 DEF NInv

LEMMA StepKeeps ==
  ASSUME NInv, Next
  PROVE  NInv'
<1>1. CASE Orders
  <2>1. DefaultName \in Configs /\ Self \in Members
    BY ConstantsAssumption DEF Members
  <2>2. ASSUME NEW c \in Configs, SetConfig(c) PROVE NInv'
    BY <2>1, <2>2, OrderKeeps DEF SetConfig
  <2>3. ASSUME NEW c \in Configs, NEW n \in Members, ChangeNodeConfig(n, c) PROVE NInv'
    BY <2>3, OrderKeeps DEF ChangeNodeConfig
  <2>4. ASSUME ChangeMasters PROVE NInv'
    BY <2>1, <2>4, OrderKeeps DEF ChangeMasters
  <2> QED
    BY <1>1, <2>2, <2>3, <2>4 DEF Orders
<1>2. ASSUME NEW p \in pushes, Push(p) PROVE NInv'
  BY <1>2, CompareKeeps, WriteKeeps, ReadKeeps, SendKeeps, PanicKeeps DEF Push
<1>3. ASSUME NEW m \in net, AtMaster(m) PROVE NInv'
  BY <1>3, PlainAtMaster, NodeConfigHandled, StatsHandled DEF AtMaster
<1>4. ASSUME NEW m \in net, NEW n \in Nodes, AtNode(n, m) PROVE NInv'
  <2>1. m \in net \cup node[n].updating
    OBVIOUS
  <2>2. CASE UpdateCache(n, m)
    BY <2>1, <2>2, UpdateKeeps
  <2> QED
    BY <1>4, <2>2, ReplyKeeps, PlainAtNode DEF AtNode
<1>5. ASSUME NEW s \in Stats, AskStats(s) \/ StatsStep(s) PROVE NInv'
  BY <1>5, StatsKeep
<1>6. ASSUME NEW n \in Nodes, Start(n) \/ Connect(n) \/ SyncStep(n) PROVE NInv'
  BY <1>6, StartKeeps, SyncKeeps, TakeKeeps, AdoptKeeps DEF SyncStep
<1>7. ASSUME NEW n \in Nodes, NEW m \in node[n].updating, UpdateHeld(n, m) PROVE NInv'
  <2>1. m \in net \cup node[n].updating
    OBVIOUS
  <2> QED
    BY <1>7, <2>1, UpdateKeeps
<1>8. CASE Faults
  BY <1>8, LeavesKeep, RestartKeeps DEF Faults
<1> QED
  BY <1>1, <1>2, <1>3, <1>4, <1>5, <1>6, <1>7, <1>8 DEF Next

LEMMA StutterKeeps ==
  ASSUME NInv, UNCHANGED vars
  PROVE  NInv'
<1>1. UNCHANGED <<tables, known, subs, own, pushes, mresp, stat, node, net, count, cause>>
  BY DEF vars
<1>2. StatTyped' /\ Stated
  BY <1>1, StatsAlone
<1>3. Settled
  BY <1>1, <1>2, PlainSettled DEF NInv, Typed, MasterTyped, CountTyped
<1> QED
  BY <1>2, <1>3, SettledStated

\* What the synchronisation of nodes keeps true (async_sync and send_update of
\* node/activity.rs and master/activity.rs): the types, that a node waits with a receiver for
\* every answer it lacks and gets at most one of each, and that as long as no cause is recorded
\* for a member all that may still reach it carries its current configuration.
THEOREM NodeInvariant == Spec => []NInv
<1>1. Init => NInv
  BY StartsRight
<1>2. NInv /\ [Next]_vars => NInv'
  BY StepKeeps, StutterKeeps
<1> QED
  BY <1>1, <1>2, PTL DEF Spec

\* Tables, tasks, maps, nodes and messages have their types; who waits for an answer has a
\* receiver in its map (async_sync 264-300, get_stats 723-772).
THEOREM NodeTypes == Spec => []TypeOK
<1>1. NInv => TypeOK
  <2> SUFFICES ASSUME NInv PROVE TypeOK
    OBVIOUS
  <2>1. \A s \in Stats : stat[s].answer \in Answers /\ (stat[s].at = "waiting" => s \in mresp)
    BY DEF NInv, Typed, StatTyped, Requests, Waiting
  <2>2. \A n \in Nodes : /\ node[n].pc \in Pcs
                         /\ {node[n].cache, node[n].held} \subseteq Value
    BY DEF NInv, Typed, NodeTyped, States
  <2>3. \A n \in Nodes : node[n].pc = "await" =>
            node[n].resp \cup {g.id : g \in node[n].got} = DOMAIN Reply
    BY ReplyIs DEF NInv, Waits, Ids
  <2>4. \A m \in net : m.kind \in ToMaster \cup ToNode /\ m.node \in Nodes /\ m.value \in Value
    BY DEF NInv, Typed, NetTyped, Msgs, Kinds
  <2>5. \A p \in pushes : p.value \in Value /\ p.at \in {"own", "write", "read", "send"}
    BY DEF NInv, Typed, MasterTyped, Pushes
  <2>6. /\ tables \in [conf : [Members -> Configs], content : [Configs -> Changes]]
        /\ known \subseteq Nodes /\ subs \in [Configs -> Seq(Nodes)]
        /\ own \in [name : Configs, held : Value]
        /\ mresp \subseteq Stats
    BY DEF NInv, Typed, MasterTyped, StatTyped
  <2> QED
    BY <2>1, <2>2, <2>3, <2>4, <2>5, <2>6 DEF TypeOK
<1> QED
  BY <1>1, NodeInvariant, PTL

\* Why a configuration can be out of date (node/activity.rs 302-313, send_update): there is no
\* other reason than those recorded, however many changes, nodes, copies and restarts there are.
THEOREM OnlyKnownCauses == Spec => []StaleHasCause
<1>1. NInv => StaleHasCause
  <2> SUFFICES ASSUME NInv PROVE StaleHasCause
    OBVIOUS
  <2>1. ASSUME NEW n \in Nodes, node[n].pc = "synced", ~OnTheWay(n), cause[n] = {}
        PROVE  node[n].held = Current(n)
    <3>1. n \in Members
      BY DEF Members
    <3>2. \A p \in pushes : ~For(p, n)
      BY <2>1, <3>1, ForIsPushed DEF NInv, OnTheWay
    <3>3. ~Coming(n)
      BY <2>1, <3>2 DEF OnTheWay, Coming, Carriers
    <3> QED
      BY <2>1, <3>3 DEF NInv, Explained, Holds
  <2>2. ASSUME ~OnTheWay(Self), cause[Self] = {} PROVE OwnRight
    <3>1. Self \in Members
      BY DEF Members
    <3>2. \A p \in pushes : ~For(p, Self)
      BY <2>2, <3>1, ForIsPushed DEF NInv, OnTheWay
    <3> QED
      BY <2>2, <3>2 DEF NInv, OwnExplained
  <2> QED
    BY <2>1, <2>2 DEF StaleHasCause, OwnRight
<1> QED
  BY <1>1, NodeInvariant, PTL

\* "Master node sending wrong response" (node/activity.rs 274, 290) is never reached: the
\* answers that a node takes are those of the requests it made.
THEOREM AnswersAreRight == Spec => []RightAnswers
<1>1. NInv => RightAnswers
  BY DEF NInv, Waits, RightAnswers
<1> QED
  BY <1>1, NodeInvariant, PTL

\* Late answers and answers to others (get_stats, handle_response): a client's report was
\* made for its own request.
THEOREM StatsAreOwn == Spec => []OwnStats
<1>1. NInv => OwnStats
  BY DEF NInv
<1> QED
  BY <1>1, NodeInvariant, PTL

=============================================================================
