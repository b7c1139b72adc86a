-------------------------- MODULE OrderRules_proofs --------------------------
(***************************************************************************)
(* Proofs about OrderRules, for any keys, configurations and requests.     *)
(*                                                                         *)
(* The inductive invariant is IInv.  What the tables say when a request is *)
(* committed follows from what verification found, at some earlier moment: *)
(* Verified keeps the part of it that other requests cannot undo.  Draft   *)
(* says how the tables of the open transaction may differ from the         *)
(* committed ones, and Founded that nobody is there before the first block.*)
(***************************************************************************)
EXTENDS OrderRules, TLAPS

Ids    == Requests \cup {First}
Bodies == {<<>>, Genesis} \cup Menu

\* What the two halves of the verification have found of an order o of request r,
\* and what still holds later.
EntityChecked(r, o) ==
    /\ o.op # "RemoveConfig"
    /\ o.op \in Adds => \A a \in Entities(tables) : a.key = o.key => a.by[1] \notin req[r].seen
RightsChecked(r, o) ==
    /\ Entitled(req[r].by, req[r].perms, o)
    /\ o.op = "ChangeNodeConfig" => o.name \in tables.configs

VerifiedAt(r) ==
    /\ \A i \in DOMAIN req[r].body : i < req[r].next =>
            EntityChecked(r, req[r].body[i]) /\ RightsChecked(r, req[r].body[i])
    /\ req[r].at = "rights" => req[r].next \in DOMAIN req[r].body /\ EntityChecked(r, Current(r))
    /\ req[r].at \in {"accepted", "applying"} => req[r].next > Len(req[r].body)

Verified == \A r \in Requests : VerifiedAt(r)

\* Who added an entity, and what a request has seen, has been applied.
History ==
    /\ req[First].body = Genesis /\ req[First].seen = {}
    /\ \A r \in Ids : req[r].seen \subseteq Applied
    /\ \A a \in Entities(tables) : a.by[1] \in Applied

Founded ==
    \/ DefaultName \in tables.configs
    \/ /\ tables.users = {} /\ tables.nodes = {}
       /\ \A k \in Keys : ~auth[k].user
       /\ \A r \in Requests : req[r].at = "idle"

\* Where the tables of the open transaction come from.
RootKept ==
    \A u \in tx.t.users : "Root" \in u.perm =>
        \/ tx.req = First \/ "Root" \in req[tx.req].perms
        \/ \E v \in tables.users : v.by = u.by /\ "Root" \in v.perm
Kept(a)  == \E b \in Entities(tables) : b.by = a.by /\ b.key = a.key
Added(a) == LET body == req[tx.req].body
                i == a.by[2]
            IN  a.by[1] = tx.req /\ i \in DOMAIN body /\ body[i].op \in Adds /\ body[i].key = a.key

Draft ==
    tx.open =>
        /\ tables.configs \subseteq tx.t.configs
        /\ \A n \in tx.t.nodes : n.conf \in tx.t.configs \cup {DefaultName}
        /\ tx.req = First /\ tx.next > 3 => DefaultName \in tx.t.configs
        /\ RootKept
        /\ \A a \in Entities(tx.t) : Kept(a) \/ Added(a)

IInv == /\ TypeOK /\ NodesConfigured /\ DuplicatesOverlap
        /\ History /\ Founded /\ Verified /\ Draft

-----------------------------------------------------------------------------
(* Orders and tables.                                                      *)

(* The orders of the first block are orders.                               *)
LEMMA GenesisOrders ==
  /\ Genesis \in Seq(Order) /\ Len(Genesis) = 3
  /\ \A i \in 1 .. 3 : Genesis[i].op \in Adds \cup {"SetConfig"}
  /\ Genesis[3].op = "SetConfig" /\ Genesis[3].name = DefaultName
<1> DEFINE a == AddUser(RootKey, {"Root"})
           b == AddNode(MasterKey, TRUE)
           c == SetConfig(DefaultName)
<1>1. a \in Order /\ b \in Order /\ c \in Order
  BY ConstantsAssumption DEF AddUser, AddNode, SetConfig, Plain, Order, Ops, Adds, Known, Permission
<1>2. /\ a.op \in Adds /\ b.op \in Adds
      /\ c.op = "SetConfig" /\ c.name = DefaultName
  BY DEF AddUser, AddNode, SetConfig, Plain, Adds
<1>3. Genesis = <<a, b, c>>
  BY DEF Genesis
<1> HIDE DEF a, b, c
<1>4. /\ <<a, b, c>> \in Seq(Order) /\ Len(<<a, b, c>>) = 3
      /\ <<a, b, c>>[1] = a /\ <<a, b, c>>[2] = b /\ <<a, b, c>>[3] = c
  BY <1>1
<1>5. \A i \in 1 .. 3 : i = 1 \/ i = 2 \/ i = 3
  OBVIOUS
<1> QED
  BY <1>2, <1>3, <1>4, <1>5

(* Whatever a request holds is a sequence of orders.                       *)
LEMMA BodyOrders ==
  ASSUME NEW b \in Bodies
  PROVE  b \in Seq(Order)
<1>1. CASE b = <<>>
  BY <1>1
<1>2. CASE b \in {Genesis} \cup Menu
  BY <1>2, GenesisOrders, MenuAssumption
<1> QED
  BY <1>1, <1>2 DEF Bodies

(* An order changes tables to tables.                                      *)
LEMMA ExecutedTypes ==
  ASSUME NEW t \in Tables, NEW o \in Order, NEW p \in Places
  PROVE  Executed(t, o, p) \in Tables
<1>1. \A us \in SUBSET User, ns \in SUBSET Node, cs \in SUBSET Configs :
         /\ [t EXCEPT !.users = us] \in Tables
         /\ [t EXCEPT !.nodes = ns] \in Tables
         /\ [t EXCEPT !.configs = cs] \in Tables
  BY DEF Tables
<1>2. /\ t.users \in SUBSET User /\ t.nodes \in SUBSET Node /\ t.configs \in SUBSET Configs
      /\ o.key \in Keys /\ o.perm \in SUBSET Permission /\ o.name \in Configs
  BY DEF Tables, Order
<1>3. CASE o.op = "AddUser"
  <2>1. [by |-> p, key |-> o.key, perm |-> o.perm, active |-> TRUE] \in User
    BY <1>2 DEF User
  <2> QED
    BY <1>1, <1>2, <1>3, <2>1 DEF Executed
<1>4. CASE o.op \in {"AddNode", "AddMasterNode"}
  <2>1. [by |-> p, key |-> o.key, master |-> o.op = "AddMasterNode", conf |-> DefaultName] \in Node
    BY <1>2, ConstantsAssumption DEF Node
  <2> QED
    BY <1>1, <1>2, <1>4, <2>1 DEF Executed
<1>5. CASE o.op = "EditUser"
  <2>1. Changed(t.users, o.key, "perm", o.perm) \in SUBSET User
    BY <1>2 DEF Changed, User
  <2> QED
    BY <1>1, <1>5, <2>1 DEF Executed
<1>6. CASE o.op = "RemoveUser"
  <2>1. Changed(t.users, o.key, "active", FALSE) \in SUBSET User
    BY <1>2 DEF Changed, User
  <2> QED
    BY <1>1, <1>6, <2>1 DEF Executed
<1>7. CASE o.op = "ChangeNodeConfig"
  <2>1. Changed(t.nodes, o.key, "conf", o.name) \in SUBSET Node
    BY <1>2 DEF Changed, Node
  <2> QED
    BY <1>1, <1>7, <2>1 DEF Executed
<1>8. CASE o.op \in {"RemoveNode", "RemoveMasterNode", "SetConfig", "RemoveConfig"}
  BY <1>1, <1>2, <1>8 DEF Executed
<1>9. CASE o.op \notin {"AddUser", "AddNode", "AddMasterNode", "EditUser", "RemoveUser",
                        "ChangeNodeConfig", "RemoveNode", "RemoveMasterNode", "SetConfig",
                        "RemoveConfig"}
  BY <1>9 DEF Executed
<1> QED
  BY <1>3, <1>4, <1>5, <1>6, <1>7, <1>8, <1>9

-----------------------------------------------------------------------------
(* Type correctness, operation by operation.                               *)

(* TypeOK without the condition that relates the transaction and req.      *)
TxType == [req : Ids, open : BOOLEAN, next : Nat \ {0}, t : Tables]
AuthType == [Keys -> [user : BOOLEAN, perms : SUBSET Permission]]
InTurn == \A r \in Ids : req[r].at = "applying" <=> tx.open /\ tx.req = r

LEMMA TypeOKIs ==
  TypeOK <=> /\ tables \in Tables /\ tx \in TxType /\ auth \in AuthType
             /\ req \in [Ids -> Request] /\ InTurn
BY DEF TypeOK, TxType, AuthType, Ids, InTurn

(* The tables at the beginning, and the transaction when there is none.    *)
LEMMA NoTxType == NoTx \in TxType /\ NoTx.t \in Tables /\ ~NoTx.open
<1>1. [users |-> {}, nodes |-> {}, configs |-> {}] \in Tables
  BY DEF Tables
<1> QED
  BY <1>1 DEF NoTx, TxType, Ids

(* First is not a place of a request that clients send.                    *)
LEMMA FirstIsNone == First \notin Requests /\ First \in Ids /\ Requests \subseteq Ids
BY ConstantsAssumption DEF First, Requests, Ids

(* The initial state has the types.                                        *)
LEMMA InitTypes == Init => TypeOK
<1> SUFFICES ASSUME Init PROVE TypeOK
  OBVIOUS
<1> USE FirstIsNone
<1>1. Idle \in Request /\ Idle.at = "idle"
  BY ConstantsAssumption DEF Idle, Request, Stages, Permission
<1>2. [Idle EXCEPT !.at = "accepted", !.body = Genesis, !.next = 4] \in Request
  <2>1. \A x \in Request, b \in Bodies, n \in Nat \ {0} :
            [x EXCEPT !.at = "accepted", !.body = b, !.next = n] \in Request
    BY DEF Request, Stages, Bodies
  <2>2. Genesis \in Bodies /\ 4 \in Nat \ {0}
    BY DEF Bodies
  <2> QED
    BY <1>1, <2>1, <2>2
<1>3. req \in [Ids -> Request]
  BY <1>1, <1>2 DEF Init, Ids
<1>4. \A r \in Ids : req[r].at \in {"idle", "accepted"}
  BY <1>1 DEF Init, Ids, Idle
<1>5. auth \in AuthType
  BY DEF Init, AuthType, NoSession
<1>6. tables \in Tables /\ tx \in TxType /\ ~tx.open
  BY NoTxType DEF Init
<1> QED
  BY <1>3, <1>4, <1>5, <1>6, TypeOKIs DEF InTurn

(* A session begins or ends.                                               *)
LEMMA SessionTypes ==
  ASSUME TypeOK, NEW k \in Keys, Hello(k) \/ Leave(k)
  PROVE  TypeOK'
<1>1. auth' \in AuthType
  <2>1. NoSession \in [user : BOOLEAN, perms : SUBSET Permission]
    BY DEF NoSession
  <2>2. \A u \in tables.users : Session(u.perm) \in [user : BOOLEAN, perms : SUBSET Permission]
    BY DEF TypeOK, Tables, User, Session
  <2> QED
    BY <2>1, <2>2 DEF Hello, Leave, TypeOK, AuthType
<1>2. UNCHANGED <<tables, tx, req>>
  BY DEF Hello, Leave
<1> QED
  BY <1>1, <1>2 DEF TypeOK, AuthType

(* A step of one request outside of its transaction.                       *)
LEMMA RequestTypes ==
  ASSUME TypeOK, UNCHANGED <<tables, tx, auth>>,
         NEW r \in Ids, NEW new \in Request, req[r].at # "applying", new.at # "applying",
         req' = [req EXCEPT ![r] = new]
  PROVE  TypeOK'
BY DEF TypeOK, Ids

(* Every way a request changes outside of its transaction.                 *)
RequestStep(r) ==
    \/ \E k \in Keys, body \in Menu : Ask(r, k, body)
    \/ VerifyEntity(r) \/ VerifyRights(r) \/ Accept(r)

LEMMA RequestStepTypes ==
  ASSUME TypeOK, NEW r \in Requests, RequestStep(r)
  PROVE  TypeOK'
<1> USE FirstIsNone
<1>1. UNCHANGED <<tables, tx, auth>>
  BY DEF RequestStep, Ask, VerifyEntity, VerifyRights, Accept
<1>2. req \in [Ids -> Request] /\ Idle \in Request
  BY ConstantsAssumption DEF TypeOK, Ids, Idle, Request, Stages
<1>3. CASE \E k \in Keys, body \in Menu : Ask(r, k, body)
  <2>1. PICK k \in Keys, body \in Menu : Ask(r, k, body)
    BY <1>3
  <2> DEFINE new == [Idle EXCEPT !.at = "entity", !.body = body, !.by = k,
                                 !.perms = auth[k].perms, !.seen = Applied]
  <2>2. new \in Request
    <3>1. auth[k].perms \in SUBSET Permission /\ Applied \in SUBSET (Requests \cup {First})
      BY <1>2 DEF TypeOK, Applied, Ids
    <3>2. \A P \in SUBSET Permission, S \in SUBSET (Requests \cup {First}) :
              [Idle EXCEPT !.at = "entity", !.body = body, !.by = k, !.perms = P, !.seen = S]
                  \in Request
      BY <1>2 DEF Request, Stages
    <3> QED
      BY <3>1, <3>2
  <2>3. new.at = "entity" /\ req[r].at = "idle" /\ req' = [req EXCEPT ![r] = new]
    BY <2>1, <1>2 DEF Ask, Request
  <2> HIDE DEF new
  <2> QED
    BY <2>2, <2>3, <1>1, RequestTypes
<1>4. CASE VerifyEntity(r) \/ VerifyRights(r) \/ Accept(r)
  <2>1. req[r] \in Request /\ req[r].next + 1 \in Nat \ {0}
    BY <1>2 DEF Request
  <2>2. req[r].at # "applying"
    BY <1>4 DEF VerifyEntity, VerifyRights, Accept
  <2>3. CASE \E a \in {"lost", "rights", "accepted"} : req' = [req EXCEPT ![r].at = a]
    <3>1. \A x \in Request, a \in {"lost", "rights", "accepted"} :
              [x EXCEPT !.at = a] \in Request /\ [x EXCEPT !.at = a].at = a
      BY DEF Request, Stages
    <3> QED
      BY <1>1, <2>1, <2>2, <2>3, <3>1, RequestTypes
  <2>4. CASE req' = [req EXCEPT ![r].at = "entity", ![r].next = @ + 1]
    <3> DEFINE new == [req[r] EXCEPT !.at = "entity", !.next = @ + 1]
    <3>1. \A x \in Request, n \in Nat \ {0} :
              /\ [x EXCEPT !.at = "entity", !.next = n] \in Request
              /\ [x EXCEPT !.at = "entity", !.next = n].at = "entity"
      BY DEF Request, Stages
    <3>2. new \in Request /\ new.at # "applying"
      BY <2>1, <3>1
    <3>3. req' = [req EXCEPT ![r] = new]
      BY <1>2, <2>4
    <3> HIDE DEF new
    <3> QED
      BY <1>1, <2>2, <3>2, <3>3, RequestTypes
  <2> QED
    BY <1>4, <2>3, <2>4 DEF VerifyEntity, VerifyRights, Accept, Refuse
<1> QED
  BY <1>3, <1>4 DEF RequestStep

LEMMA LoseTypes ==
  ASSUME TypeOK, NEW r \in Ids, Lose(r)
  PROVE  TypeOK'
<1>1. [req[r] EXCEPT !.at = "lost"] \in Request /\ [req[r] EXCEPT !.at = "lost"].at = "lost"
  BY DEF TypeOK, Ids, Request, Stages
<1>2. /\ req' = [req EXCEPT ![r] = [req[r] EXCEPT !.at = "lost"]]
      /\ req[r].at # "applying" /\ UNCHANGED <<tables, tx, auth>>
  BY DEF Lose, Refuse
<1> QED
  BY <1>1, <1>2, RequestTypes

-----------------------------------------------------------------------------
(* The transaction.                                                        *)

(* The request of an open transaction, and the order it executes next.     *)
LEMMA OpenRequest ==
  ASSUME TypeOK, tx.open
  PROVE  /\ tx.req \in Ids /\ req[tx.req] \in Request /\ req[tx.req].at = "applying"
         /\ req[tx.req].body \in Seq(Order) /\ tx.next \in Nat \ {0} /\ tx.t \in Tables
         /\ \A i \in Nat \ {0} : i <= Len(req[tx.req].body) =>
                i \in DOMAIN req[tx.req].body /\ req[tx.req].body[i] \in Order
         /\ <<tx.req, tx.next>> \in Places
<1>1. tx.req \in Ids /\ req[tx.req] \in Request /\ tx.next \in Nat \ {0} /\ tx.t \in Tables
  BY DEF TypeOK, Ids
<1>2. req[tx.req].body \in Bodies
  BY <1>1 DEF Request, Bodies
<1>3. req[tx.req].body \in Seq(Order)
  BY <1>2, BodyOrders
<1>4. req[tx.req].at = "applying"
  BY <1>1 DEF TypeOK, Ids
<1>5. <<tx.req, tx.next>> \in Places
  BY <1>1 DEF Places, Ids
<1> QED
  BY <1>1, <1>3, <1>4, <1>5

LEMMA BeginTypes ==
  ASSUME TypeOK, NEW r \in Ids, Begin(r)
  PROVE  TypeOK'
<1>1. tables' \in Tables /\ auth' \in AuthType /\ tx' \in TxType
  BY DEF TypeOK, Begin, AuthType, TxType, Ids
<1>2. req' \in [Ids -> Request]
  BY DEF TypeOK, Begin, Ids, Request, Stages
<1>3. \A q \in Ids : req'[q].at = "applying" <=> q = r
  BY DEF TypeOK, Begin, Ids, Request
<1>4. tx'.open /\ tx'.req = r
  BY DEF Begin
<1> QED
  BY <1>1, <1>2, <1>3, <1>4 DEF TypeOK, Ids, AuthType, TxType

LEMMA ExecuteTypes ==
  ASSUME TypeOK, Execute
  PROVE  TypeOK'
<1> DEFINE o == req[tx.req].body[tx.next]
<1>1. /\ tx.open /\ tx.next <= Len(req[tx.req].body) /\ UNCHANGED <<tables, auth, req>>
      /\ tx' = [tx EXCEPT !.next = @ + 1, !.t = Executed(@, o, <<tx.req, tx.next>>)]
  BY DEF Execute
<1>2. Executed(tx.t, o, <<tx.req, tx.next>>) \in Tables
  BY <1>1, OpenRequest, ExecutedTypes
<1> HIDE DEF o
<1>3. tx' \in TxType /\ tx'.open /\ tx'.req = tx.req
  <2>1. \A y \in TxType, n \in Nat \ {0}, T \in Tables :
            /\ [y EXCEPT !.next = n, !.t = T] \in TxType
            /\ [y EXCEPT !.next = n, !.t = T].open = y.open
            /\ [y EXCEPT !.next = n, !.t = T].req = y.req
    BY DEF TxType
  <2>2. tx \in TxType /\ tx.next + 1 \in Nat \ {0}
    BY DEF TypeOK, TxType, Ids
  <2> QED
    BY <1>1, <1>2, <2>1, <2>2
<1> QED
  BY <1>1, <1>3 DEF TypeOK, TxType, Ids

LEMMA EndTypes ==
  ASSUME TypeOK, Rollback \/ Commit
  PROVE  TypeOK'
<1> USE OpenRequest
<1>1. tx.open /\ tx' = NoTx /\ UNCHANGED auth
  BY DEF Rollback, Commit
<1>2. tables' \in Tables
  BY <1>1 DEF Rollback, Commit, TypeOK
<1>3. PICK a \in {"lost", "applied"} : req' = [req EXCEPT ![tx.req].at = a]
  BY DEF Rollback, Commit, Refuse
<1>4. req' \in [Ids -> Request]
  BY <1>1, <1>3 DEF TypeOK, Ids, Request, Stages
<1>5. \A q \in Ids : req'[q].at # "applying"
  BY <1>1, <1>3 DEF TypeOK, Ids, Request
<1>6. tx' \in TxType /\ ~tx'.open
  BY <1>1, NoTxType
<1> QED
  BY <1>1, <1>2, <1>4, <1>5, <1>6 DEF TypeOK, TxType, Ids

-----------------------------------------------------------------------------
(* What an order does to rows, for any tables t and any place p.           *)

NewUser(o, p) == [by |-> p, key |-> o.key, perm |-> o.perm, active |-> TRUE]
NewNode(o, p) == [by |-> p, key |-> o.key, master |-> o.op = "AddMasterNode", conf |-> DefaultName]

(* Which of the three tables an order changes, and how.                    *)
Effect(t, o, p, new) ==
    /\ o.op = "AddUser" => new.users = t.users \cup {NewUser(o, p)}
    /\ o.op = "EditUser" => new.users = Changed(t.users, o.key, "perm", o.perm)
    /\ o.op = "RemoveUser" => new.users = Changed(t.users, o.key, "active", FALSE)
    /\ o.op \notin {"AddUser", "EditUser", "RemoveUser"} => new.users = t.users
    /\ o.op \in {"AddNode", "AddMasterNode"} => new.nodes = t.nodes \cup {NewNode(o, p)}
    /\ o.op = "ChangeNodeConfig" => new.nodes = Changed(t.nodes, o.key, "conf", o.name)
    /\ o.op \notin {"AddNode", "AddMasterNode", "ChangeNodeConfig"} => new.nodes \subseteq t.nodes
    /\ o.op = "SetConfig" => new.configs = t.configs \cup {o.name}
    /\ o.op \notin {"SetConfig", "RemoveConfig"} => new.configs = t.configs

(* Executing an order has the effect of its kind.                          *)
LEMMA ExecutedIs ==
  ASSUME NEW t \in Tables, NEW o \in Order, NEW p
  PROVE  Effect(t, o, p, Executed(t, o, p))
<1> USE DEF Tables, NewUser, NewNode, Effect
<1>1. CASE o.op = "AddUser"
  BY <1>1 DEF Executed
<1>2. CASE o.op \in {"AddNode", "AddMasterNode"}
  BY <1>2 DEF Executed
<1>3. CASE o.op = "EditUser"
  BY <1>3 DEF Executed
<1>4. CASE o.op = "RemoveUser"
  BY <1>4 DEF Executed
<1>5. CASE o.op \in {"RemoveNode", "RemoveMasterNode"}
  BY <1>5 DEF Executed
<1>6. CASE o.op = "ChangeNodeConfig"
  BY <1>6 DEF Executed
<1>7. CASE o.op = "SetConfig"
  BY <1>7 DEF Executed
<1>8. CASE o.op = "RemoveConfig"
  BY <1>8 DEF Executed
<1>9. CASE o.op \notin {"AddUser", "AddNode", "AddMasterNode", "EditUser", "RemoveUser",
                        "RemoveNode", "RemoveMasterNode", "ChangeNodeConfig", "SetConfig",
                        "RemoveConfig"}
  BY <1>9 DEF Executed
<1> QED
  BY <1>1, <1>2, <1>3, <1>4, <1>5, <1>6, <1>7, <1>8, <1>9

(* Configurations only go by RemoveConfig, and come by SetConfig.          *)
LEMMA ExecutedConfigs ==
  ASSUME NEW t \in Tables, NEW o \in Order, NEW p, o.op # "RemoveConfig"
  PROVE  /\ t.configs \subseteq Executed(t, o, p).configs
         /\ o.op = "SetConfig" => o.name \in Executed(t, o, p).configs
<1>0. Effect(t, o, p, Executed(t, o, p))
  BY ExecutedIs
<1> QED
  BY <1>0 DEF Effect

(* A node's configuration is an earlier one, the default, or the order's.  *)
LEMMA ExecutedNodes ==
  ASSUME NEW t \in Tables, NEW o \in Order, NEW p, NEW n \in Executed(t, o, p).nodes
  PROVE  \/ n.conf = DefaultName
         \/ o.op = "ChangeNodeConfig" /\ n.conf = o.name
         \/ \E m \in t.nodes : m.conf = n.conf
<1>0. Effect(t, o, p, Executed(t, o, p))
  BY ExecutedIs
<1>1. CASE o.op = "ChangeNodeConfig"
  <2>1. n \in Changed(t.nodes, o.key, "conf", o.name)
    BY <1>1, <1>0 DEF Effect
  <2> QED
    BY <1>1, <2>1 DEF Changed, Tables, Node
<1>2. CASE o.op \in {"AddNode", "AddMasterNode"}
  BY <1>2, <1>0 DEF Effect, NewNode
<1>3. CASE o.op \notin {"AddNode", "AddMasterNode", "ChangeNodeConfig"}
  BY <1>3, <1>0 DEF Effect
<1> QED
  BY <1>1, <1>2, <1>3

(* A row with Root had it, or gets it from the order.                      *)
LEMMA ExecutedRoot ==
  ASSUME NEW t \in Tables, NEW o \in Order, NEW p, NEW u \in Executed(t, o, p).users,
         "Root" \in u.perm
  PROVE  \/ o.op \in {"AddUser", "EditUser"} /\ "Root" \in o.perm
         \/ \E v \in t.users : v.by = u.by /\ "Root" \in v.perm
<1>0. Effect(t, o, p, Executed(t, o, p))
  BY ExecutedIs
<1>1. CASE o.op = "EditUser"
  <2>1. u \in Changed(t.users, o.key, "perm", o.perm)
    BY <1>1, <1>0 DEF Effect
  <2> QED
    BY <1>1, <2>1 DEF Changed, Tables, User
<1>2. CASE o.op = "RemoveUser"
  <2>1. u \in Changed(t.users, o.key, "active", FALSE)
    BY <1>2, <1>0 DEF Effect
  <2> QED
    BY <2>1 DEF Changed, Tables, User
<1>3. CASE o.op = "AddUser"
  BY <1>3, <1>0 DEF Effect, NewUser
<1>4. CASE o.op \notin {"AddUser", "EditUser", "RemoveUser"}
  BY <1>4, <1>0 DEF Effect
<1> QED
  BY <1>1, <1>2, <1>3, <1>4

(* An entity was there before, or the order adds it: none comes back.      *)
LEMMA ExecutedEntities ==
  ASSUME NEW t \in Tables, NEW o \in Order, NEW p, NEW a \in Entities(Executed(t, o, p))
  PROVE  \/ o.op \in Adds /\ a.by = p /\ a.key = o.key
         \/ \E b \in Entities(t) : b.by = a.by /\ b.key = a.key
<1>0. Effect(t, o, p, Executed(t, o, p))
  BY ExecutedIs
<1> DEFINE new == Executed(t, o, p)
<1>1. CASE a \in new.users /\ a.active
  <2>1. CASE o.op \in {"EditUser", "RemoveUser"}
    <3>1. PICK u \in t.users : /\ u.by = a.by /\ u.key = a.key
                               /\ a.active => u.active
      <4>1. CASE o.op = "EditUser"
        <5>1. a \in Changed(t.users, o.key, "perm", o.perm)
          BY <1>1, <4>1, <1>0 DEF Effect
        <5> QED
          BY <5>1 DEF Changed, Tables, User
      <4>2. CASE o.op = "RemoveUser"
        <5>1. a \in Changed(t.users, o.key, "active", FALSE)
          BY <1>1, <4>2, <1>0 DEF Effect
        <5> QED
          BY <5>1, <1>1 DEF Changed, Tables, User
      <4> QED
        BY <2>1, <4>1, <4>2
    <3> QED
      BY <1>1, <3>1 DEF Entities
  <2>2. CASE o.op = "AddUser"
    <3>1. a \in t.users \/ a = NewUser(o, p)
      BY <1>1, <2>2, <1>0 DEF Effect
    <3>2. CASE a \in t.users
      BY <1>1, <3>2 DEF Entities
    <3>3. CASE a = NewUser(o, p)
      BY <2>2, <3>3 DEF NewUser, Adds
    <3> QED
      BY <3>1, <3>2, <3>3
  <2>3. CASE o.op \notin {"AddUser", "EditUser", "RemoveUser"}
    <3>1. a \in t.users
      BY <1>1, <2>3, <1>0 DEF Effect
    <3> QED
      BY <1>1, <3>1 DEF Entities
  <2> QED
    BY <2>1, <2>2, <2>3
<1>2. CASE a \in new.nodes
  <2>1. CASE o.op = "ChangeNodeConfig"
    <3>1. a \in Changed(t.nodes, o.key, "conf", o.name)
      BY <1>2, <2>1, <1>0 DEF Effect
    <3>2. PICK n \in t.nodes : n.by = a.by /\ n.key = a.key
      BY <3>1 DEF Changed, Tables, Node
    <3> QED
      BY <3>2 DEF Entities
  <2>2. CASE o.op \in {"AddNode", "AddMasterNode"}
    <3>1. a \in t.nodes \/ a = NewNode(o, p)
      BY <1>2, <2>2, <1>0 DEF Effect
    <3>2. CASE a \in t.nodes
      BY <3>2 DEF Entities
    <3>3. CASE a = NewNode(o, p)
      BY <2>2, <3>3 DEF NewNode, Adds
    <3> QED
      BY <3>1, <3>2, <3>3
  <2>3. CASE o.op \notin {"AddNode", "AddMasterNode", "ChangeNodeConfig"}
    <3>1. a \in t.nodes
      BY <1>2, <2>3, <1>0 DEF Effect
    <3> QED
      BY <3>1 DEF Entities
  <2> QED
    BY <2>1, <2>2, <2>3
<1> QED
  BY <1>1, <1>2 DEF Entities

-----------------------------------------------------------------------------
(* What has been verified stays so.                                        *)

\* Tables that others may leave behind, and a request nothing was verified of since.
Grown ==
    /\ tables.configs \subseteq tables'.configs
    /\ \A a \in Entities(tables') : Kept(a) \/ a.by[1] \notin Applied
Same(s) ==
    /\ req'[s].body = req[s].body /\ req'[s].by = req[s].by /\ req'[s].perms = req[s].perms
    /\ req'[s].next = req[s].next /\ req'[s].seen = req[s].seen
    /\ req'[s].at = "rights" => req[s].at = "rights"
    /\ req'[s].at \in {"accepted", "applying"} => req[s].at \in {"accepted", "applying"}

LEMMA NotGrown == ASSUME UNCHANGED tables PROVE Grown
BY DEF Grown, Kept

(* The checks of one order survive what others do to the tables.           *)
LEMMA ChecksStay ==
  ASSUME Grown, NEW s, req[s].seen \subseteq Applied, NEW o,
         req'[s].by = req[s].by, req'[s].perms = req[s].perms, req'[s].seen = req[s].seen
  PROVE  /\ EntityChecked(s, o) => EntityChecked(s, o)'
         /\ RightsChecked(s, o) => RightsChecked(s, o)'
<1>1. ASSUME EntityChecked(s, o), o.op \in Adds, NEW a \in Entities(tables'), a.key = o.key
      PROVE  a.by[1] \notin req'[s].seen
  BY <1>1 DEF Grown, Kept, EntityChecked
<1>2. EntityChecked(s, o) => EntityChecked(s, o)'
  BY <1>1 DEF EntityChecked
<1>3. RightsChecked(s, o) => RightsChecked(s, o)'
  BY DEF RightsChecked, Grown
<1> QED
  BY <1>2, <1>3

LEMMA VerifiedStays ==
  ASSUME TypeOK, History, Grown, NEW s \in Requests, VerifiedAt(s), Same(s)
  PROVE  VerifiedAt(s)'
<1>1. req[s].seen \subseteq Applied
  BY DEF History, Ids
<1>2. \A o : /\ EntityChecked(s, o) => EntityChecked(s, o)'
             /\ RightsChecked(s, o) => RightsChecked(s, o)'
  BY <1>1, ChecksStay DEF Same
<1>3. /\ req'[s].body = req[s].body /\ req'[s].next = req[s].next /\ Current(s)' = Current(s)
      /\ req'[s].at = "rights" => req[s].at = "rights"
      /\ req'[s].at \in {"accepted", "applying"} => req[s].at \in {"accepted", "applying"}
  BY DEF Same, Current
<1> QED
  BY <1>2, <1>3 DEF VerifiedAt

-----------------------------------------------------------------------------
(* The invariant, for steps of sessions and of requests.                   *)

Safe == NodesConfigured /\ DuplicatesOverlap

(* The initial state satisfies it.                                         *)
LEMMA InitInv == Init => IInv
<1> SUFFICES ASSUME Init PROVE IInv
  OBVIOUS
<1> USE FirstIsNone
<1>1. TypeOK
  BY InitTypes
<1>2. tables.users = {} /\ tables.nodes = {} /\ ~tx.open
  BY DEF Init, NoTx
<1>3. \A r \in Requests : req[r] = Idle
  BY DEF Init
<1>4. req[First].body = Genesis /\ req[First].seen = {}
  BY DEF Init, Idle
<1>5. Entities(tables) = {}
  BY <1>2 DEF Entities
<1>6. NodesConfigured /\ DuplicatesOverlap /\ Draft
  BY <1>2, <1>5 DEF NodesConfigured, DuplicatesOverlap, Draft
<1>7. History
  BY <1>3, <1>4, <1>5 DEF History, Ids, Idle
<1>8. Founded
  <2>1. \A k \in Keys : ~auth[k].user
    BY DEF Init, NoSession
  <2> QED
    BY <1>2, <1>3, <2>1 DEF Founded, Idle
<1>9. Verified
  BY <1>3 DEF Verified, VerifiedAt, Idle
<1> QED
  BY <1>1, <1>6, <1>7, <1>8, <1>9 DEF IInv

(* Steps that leave the tables and the transaction alone, and what matters *)
(* of the requests they speak of.                                          *)
LEMMA SafeStays ==
  ASSUME IInv, TypeOK', UNCHANGED <<tables, tx>>, Applied' = Applied,
         \A q \in Applied : req'[q] = req[q],
         tx.open => req'[tx.req].body = req[tx.req].body /\ req'[tx.req].perms = req[tx.req].perms
  PROVE  Safe' /\ Draft'
<1>1. NodesConfigured'
  BY DEF IInv, NodesConfigured
<1>2. DuplicatesOverlap'
  BY DEF IInv, DuplicatesOverlap, History
<1>3. ASSUME tx.open PROVE RootKept'
  BY <1>3 DEF IInv, Draft, RootKept
<1>4. ASSUME tx.open, NEW a PROVE (Kept(a) \/ Added(a)) => (Kept(a) \/ Added(a))'
  BY <1>4 DEF Kept, Added
<1>5. Draft'
  BY <1>3, <1>4 DEF IInv, Draft
<1> QED
  BY <1>1, <1>2, <1>5 DEF Safe

(* Sessions.                                                               *)
LEMMA SessionInv ==
  ASSUME IInv, NEW k \in Keys, Hello(k) \/ Leave(k)
  PROVE  IInv'
<1> USE FirstIsNone
<1>1. TypeOK /\ TypeOK'
  BY SessionTypes DEF IInv
<1>2. UNCHANGED <<tables, tx, req>> /\ Applied' = Applied
  BY DEF Hello, Leave, Applied
<1>3. Safe' /\ Draft'
  BY <1>1, <1>2, SafeStays
<1>4. History'
  BY <1>2 DEF IInv, History
<1>5. Founded'
  <2>1. CASE DefaultName \in tables.configs
    BY <1>2, <2>1 DEF Founded
  <2>2. CASE DefaultName \notin tables.configs
    <3>1. tables.users = {} /\ \A j \in Keys : ~auth[j].user
      BY <2>2 DEF IInv, Founded
    <3> QED
      BY <3>1 DEF Hello, Leave
  <2> QED
    BY <2>1, <2>2
<1>6. Verified'
  BY <1>2, <1>1, VerifiedStays, NotGrown DEF IInv, Verified, Same
<1> QED
  BY <1>1, <1>3, <1>4, <1>5, <1>6 DEF IInv, Safe

(* What the two halves of the verification establish.                      *)
LEMMA EntityFound ==
  ASSUME NEW r, NEW o \in Order, EntityError(tables, o) = "None"
  PROVE  EntityChecked(r, o)
<1>1. o.op # "RemoveConfig"
  BY DEF EntityError, UnusedConfig, NoRow, Adds, Known
<1>2. o.op \in Adds => ~EntityExists(tables, o.key)
  BY DEF EntityError, Adds, Known
<1>3. \A a \in Entities(tables) : a.key = o.key => EntityExists(tables, o.key)
  BY DEF Entities, EntityExists, UserHas, NodeHas
<1> QED
  BY <1>1, <1>2, <1>3 DEF EntityChecked

LEMMA RightsFound ==
  ASSUME NEW r, NEW o \in Order, RightsError(tables, o, req[r].by, req[r].perms) = "None"
  PROVE  RightsChecked(r, o)
<1>1. Entitled(req[r].by, req[r].perms, o)
  BY DEF RightsError
<1>2. o.op = "ChangeNodeConfig" => ConfigExists(tables, o.name)
  BY DEF RightsError, NoRow, Named, Adds
<1> QED
  BY <1>1, <1>2 DEF RightsChecked, ConfigExists

(* A request is asked or verified.                                         *)
LEMMA RequestStepInv ==
  ASSUME IInv, NEW r \in Requests, RequestStep(r)
  PROVE  IInv'
<1> USE FirstIsNone
<1>1. TypeOK /\ TypeOK'
  BY RequestStepTypes DEF IInv
<1>2. /\ UNCHANGED <<tables, tx, auth>>
      /\ req \in [Ids -> Request] /\ req' \in [Ids -> Request]
      /\ \A s \in Ids \ {r} : req'[s] = req[s]
      /\ req[r].at \notin {"applying", "applied"} /\ req'[r].at \notin {"applying", "applied"}
  <2>1. req \in [Ids -> Request] /\ req' \in [Ids -> Request]
    BY <1>1 DEF TypeOK, Ids
  <2>2. CASE \E k \in Keys, body \in Menu : Ask(r, k, body)
    BY <2>1, <2>2 DEF Ask, Idle
  <2>3. CASE VerifyEntity(r) \/ VerifyRights(r) \/ Accept(r)
    BY <2>1, <2>3 DEF VerifyEntity, VerifyRights, Accept, Refuse, Request
  <2> QED
    BY <2>1, <2>2, <2>3 DEF RequestStep, Ask, VerifyEntity, VerifyRights, Accept
<1>3. Applied' = Applied /\ r \notin Applied /\ \A q \in Applied : req'[q] = req[q]
  BY <1>2 DEF Applied
<1>4. tx.open => tx.req # r /\ tx.req \in Ids
  BY <1>1, <1>2, OpenRequest
<1>5. Safe' /\ Draft'
  <2>1. tx.open => req'[tx.req] = req[tx.req]
    BY <1>2, <1>4
  <2> QED
    BY <1>1, <1>2, <1>3, <2>1, SafeStays
<1>6. req'[r].seen \subseteq Applied
  <2>1. CASE \E k \in Keys, body \in Menu : Ask(r, k, body)
    BY <1>2, <2>1 DEF Ask, Idle
  <2>2. CASE VerifyEntity(r) \/ VerifyRights(r) \/ Accept(r)
    <3>1. req'[r].seen = req[r].seen
      BY <1>2, <2>2 DEF VerifyEntity, VerifyRights, Accept, Refuse, Request
    <3> QED
      BY <3>1 DEF IInv, History
  <2> QED
    BY <2>1, <2>2 DEF RequestStep
<1>7. History'
  BY <1>2, <1>3, <1>6 DEF IInv, History
<1>8. Founded'
  <2>1. DefaultName \in tables.configs
    BY DEF IInv, Founded, RequestStep, Ask, VerifyEntity, VerifyRights, Accept
  <2> QED
    BY <1>2, <2>1 DEF Founded
<1>9. VerifiedAt(r)'
  <2>1. VerifiedAt(r) /\ req[r] \in Request /\ req[r].body \in Seq(Order)
    BY <1>2, BodyOrders DEF IInv, Verified, Request, Bodies
  <2>2. Grown /\ req[r].seen \subseteq Applied
    BY <1>2, NotGrown DEF IInv, History
  <2>3. CASE \E k \in Keys, body \in Menu : Ask(r, k, body)
    <3>1. req'[r].next = 1 /\ req'[r].at = "entity" /\ req'[r].body \in Seq(Order)
      BY <1>2, <2>3, MenuAssumption DEF Ask, Idle
    <3> QED
      BY <3>1 DEF VerifiedAt
  <2>4. CASE req' = [req EXCEPT ![r].at = "lost"]
    BY <1>1, <1>2, <2>1, <2>2, <2>4, VerifiedStays DEF IInv, Same, Request
  <2>5. CASE /\ EntityError(tables, Current(r)) = "None" /\ req[r].next <= Len(req[r].body)
             /\ req' = [req EXCEPT ![r].at = "rights"]
    <3>1. req[r].next \in DOMAIN req[r].body /\ Current(r) \in Order
      BY <2>1, <2>5 DEF Request, Current
    <3>2. /\ req'[r].body = req[r].body /\ req'[r].by = req[r].by /\ req'[r].perms = req[r].perms
          /\ req'[r].next = req[r].next /\ req'[r].seen = req[r].seen /\ req'[r].at = "rights"
          /\ Current(r)' = Current(r)
      BY <1>2, <2>1, <2>5 DEF Request, Current
    <3>3. EntityChecked(r, Current(r))
      BY <2>5, <3>1, EntityFound
    <3>4. \A o : /\ EntityChecked(r, o) => EntityChecked(r, o)'
                 /\ RightsChecked(r, o) => RightsChecked(r, o)'
      BY <2>2, <3>2, ChecksStay
    <3> QED
      BY <2>1, <3>1, <3>2, <3>3, <3>4 DEF VerifiedAt
  <2>6. CASE /\ RightsError(tables, Current(r), req[r].by, req[r].perms) = "None"
             /\ req[r].at = "rights"
             /\ req' = [req EXCEPT ![r].at = "entity", ![r].next = @ + 1]
    <3>1. /\ req[r].next \in DOMAIN req[r].body /\ Current(r) \in Order
          /\ EntityChecked(r, Current(r))
      BY <2>1, <2>6 DEF VerifiedAt, Current
    <3>2. /\ req'[r].body = req[r].body /\ req'[r].by = req[r].by /\ req'[r].perms = req[r].perms
          /\ req'[r].next = req[r].next + 1 /\ req'[r].seen = req[r].seen /\ req'[r].at = "entity"
      BY <1>2, <2>1, <2>6 DEF Request
    <3>3. RightsChecked(r, Current(r))
      BY <2>6, <3>1, RightsFound
    <3>4. \A o : /\ EntityChecked(r, o) => EntityChecked(r, o)'
                 /\ RightsChecked(r, o) => RightsChecked(r, o)'
      BY <2>2, <3>2, ChecksStay
    <3>5. \A i \in DOMAIN req[r].body : i < req[r].next + 1 => i < req[r].next \/ i = req[r].next
      BY <2>1 DEF Request
    <3> QED
      BY <2>1, <3>1, <3>2, <3>3, <3>4, <3>5 DEF VerifiedAt, Current
  <2>7. CASE Accept(r)
    <3>1. /\ req'[r].body = req[r].body /\ req'[r].by = req[r].by /\ req'[r].perms = req[r].perms
          /\ req'[r].next = req[r].next /\ req'[r].seen = req[r].seen /\ req'[r].at = "accepted"
          /\ req[r].next > Len(req[r].body)
      BY <1>2, <2>1, <2>7 DEF Accept, Request
    <3>2. \A o : /\ EntityChecked(r, o) => EntityChecked(r, o)'
                 /\ RightsChecked(r, o) => RightsChecked(r, o)'
      BY <2>2, <3>1, ChecksStay
    <3> QED
      BY <2>1, <3>1, <3>2 DEF VerifiedAt
  <2> QED
    BY <2>3, <2>4, <2>5, <2>6, <2>7 DEF RequestStep, VerifyEntity, VerifyRights, Refuse
<1>10. \A s \in Requests \ {r} : VerifiedAt(s)'
  BY <1>1, <1>2, VerifiedStays, NotGrown DEF IInv, Verified, Same
<1> QED
  BY <1>1, <1>5, <1>7, <1>8, <1>9, <1>10 DEF IInv, Safe, Verified

(* An accepted request is lost.                                            *)
LEMMA LoseInv ==
  ASSUME IInv, NEW r \in Ids, Lose(r)
  PROVE  IInv'
<1> USE FirstIsNone
<1>1. TypeOK /\ TypeOK'
  BY LoseTypes DEF IInv
<1>2. /\ UNCHANGED <<tables, tx, auth>> /\ req[r].at = "accepted"
      /\ req \in [Ids -> Request] /\ req' = [req EXCEPT ![r].at = "lost"]
  BY <1>1 DEF Lose, Refuse, TypeOK, Ids
<1>3. \A s \in Ids :
        /\ req'[s].body = req[s].body /\ req'[s].by = req[s].by /\ req'[s].perms = req[s].perms
        /\ req'[s].next = req[s].next /\ req'[s].seen = req[s].seen
        /\ req'[s].at = req[s].at \/ (s = r /\ req'[s].at = "lost")
        /\ req[s].at = "applied" => req'[s] = req[s]
  BY <1>2 DEF Request
<1>4. DOMAIN req = Ids /\ DOMAIN req' = Ids
  BY <1>2
<1>5. Applied' = Applied /\ \A q \in Applied : req'[q] = req[q]
  BY <1>2, <1>3, <1>4 DEF Applied
<1>6. Safe' /\ Draft'
  <2>1. tx.open => tx.req \in Ids
    BY <1>1, OpenRequest
  <2> QED
    BY <1>1, <1>2, <1>3, <1>5, <2>1, SafeStays
<1>7. History'
  BY <1>2, <1>3, <1>5 DEF IInv, History
<1>8. Founded'
  BY <1>2, <1>3 DEF IInv, Founded
<1>9. \A s \in Requests : VerifiedAt(s)'
  BY <1>1, <1>2, <1>3, VerifiedStays, NotGrown DEF IInv, Verified, Same
<1> QED
  BY <1>1, <1>6, <1>7, <1>8, <1>9 DEF IInv, Safe, Verified

-----------------------------------------------------------------------------
(* The invariant, for the steps of a transaction.                          *)

(* What was verified, or the first block, allows the next order.           *)
LEMMA NextOrder ==
  ASSUME IInv, tx.open, tx.next <= Len(req[tx.req].body)
  PROVE  LET o == req[tx.req].body[tx.next]
         IN  /\ o \in Order /\ o.op # "RemoveConfig"
             /\ o.op = "ChangeNodeConfig" => o.name \in tables.configs
             /\ tx.req # First => RightsChecked(tx.req, o)
<1> DEFINE o == req[tx.req].body[tx.next]
<1>1. /\ tx.req \in Ids /\ tx.next \in Nat \ {0} /\ req[tx.req].at = "applying"
      /\ tx.next \in DOMAIN req[tx.req].body /\ o \in Order
  BY OpenRequest DEF IInv
<1>2. CASE tx.req = First
  <2>1. o = Genesis[tx.next] /\ tx.next \in 1 .. 3
    BY <1>1, <1>2, GenesisOrders DEF IInv, History
  <2> QED
    BY <1>1, <1>2, <2>1, GenesisOrders DEF Adds
<1>3. CASE tx.req # First
  <2>1. tx.req \in Requests /\ VerifiedAt(tx.req)
    BY <1>1, <1>3 DEF Ids, IInv, Verified
  <2>2. tx.next < req[tx.req].next
    <3>1. req[tx.req].next > Len(req[tx.req].body) /\ req[tx.req].next \in Nat
      BY <1>1, <2>1, OpenRequest DEF VerifiedAt, IInv, Request
    <3>2. Len(req[tx.req].body) \in Nat
      BY OpenRequest DEF IInv
    <3> QED
      BY <1>1, <3>1, <3>2
  <2>3. EntityChecked(tx.req, o) /\ RightsChecked(tx.req, o)
    BY <1>1, <2>1, <2>2 DEF VerifiedAt
  <2> QED
    BY <1>1, <2>3 DEF EntityChecked, RightsChecked
<1> QED
  BY <1>2, <1>3

(* A transaction begins: its tables are the committed ones.                *)
LEMMA BeginInv ==
  ASSUME IInv, NEW r \in Ids, Begin(r)
  PROVE  IInv'
<1> USE FirstIsNone
<1>1. TypeOK /\ TypeOK'
  BY BeginTypes DEF IInv
<1>2. /\ UNCHANGED <<tables, auth>> /\ req[r].at = "accepted" /\ ~tx.open
      /\ req \in [Ids -> Request] /\ req' = [req EXCEPT ![r].at = "applying"]
      /\ tx' = [req |-> r, open |-> TRUE, next |-> 1, t |-> tables]
  BY <1>1 DEF Begin, TypeOK, Ids
<1>3. \A s \in Ids :
        /\ req'[s].body = req[s].body /\ req'[s].by = req[s].by /\ req'[s].perms = req[s].perms
        /\ req'[s].next = req[s].next /\ req'[s].seen = req[s].seen
        /\ req'[s].at = req[s].at \/ (s = r /\ req'[s].at = "applying")
        /\ req[s].at = "applied" => req'[s] = req[s]
  BY <1>2 DEF Request
<1>4. Applied' = Applied /\ \A q \in Applied : req'[q] = req[q]
  <2>1. DOMAIN req = Ids /\ DOMAIN req' = Ids
    BY <1>2
  <2> QED
    BY <1>2, <1>3, <2>1 DEF Applied
<1>5. NodesConfigured' /\ DuplicatesOverlap'
  BY <1>2, <1>4 DEF IInv, NodesConfigured, DuplicatesOverlap, History
<1>6. Draft'
  <2>1. \A a \in Entities(tx'.t) : Kept(a)'
    BY <1>2 DEF Kept
  <2>2. RootKept'
    BY <1>2 DEF RootKept
  <2> QED
    BY <1>2, <2>1, <2>2 DEF IInv, Draft, NodesConfigured
<1>7. History'
  BY <1>2, <1>3, <1>4 DEF IInv, History
<1>8. Founded'
  BY <1>2, <1>3 DEF IInv, Founded
<1>9. \A s \in Requests : VerifiedAt(s)'
  <2>1. \A s \in Requests : Same(s)
    BY <1>2, <1>3 DEF Same
  <2> QED
    BY <1>1, <1>2, <2>1, VerifiedStays, NotGrown DEF IInv, Verified
<1> QED
  BY <1>1, <1>5, <1>6, <1>7, <1>8, <1>9 DEF IInv, Verified

(* An order is executed on the tables of the transaction.                  *)
LEMMA ExecuteInv ==
  ASSUME IInv, Execute
  PROVE  IInv'
<1> USE FirstIsNone
<1> DEFINE r == tx.req
           o == req[r].body[tx.next]
           p == <<r, tx.next>>
           new == Executed(tx.t, o, p)
<1>1. TypeOK /\ TypeOK'
  BY ExecuteTypes DEF IInv
<1>2. /\ tx.open /\ tx.next <= Len(req[r].body) /\ UNCHANGED <<tables, auth, req>>
      /\ tx'.req = r /\ tx'.next = tx.next + 1 /\ tx'.t = new
  BY <1>1 DEF Execute, TypeOK
<1>3. /\ r \in Ids /\ tx.next \in Nat \ {0} /\ tx.next \in DOMAIN req[r].body /\ tx.t \in Tables
  BY <1>1, <1>2, OpenRequest
<1>4. /\ o \in Order /\ o.op # "RemoveConfig"
      /\ o.op = "ChangeNodeConfig" => o.name \in tables.configs
      /\ r # First => RightsChecked(r, o)
  BY <1>2, NextOrder
<1>5. Draft /\ Applied' = Applied
  BY <1>2 DEF IInv, Applied
<1> HIDE DEF o, new
<1>6. tables.configs \subseteq new.configs /\ tx.t.configs \subseteq new.configs
  BY <1>2, <1>3, <1>4, <1>5, ExecutedConfigs DEF Draft, new
<1>7. ASSUME NEW n \in new.nodes PROVE n.conf \in new.configs \cup {DefaultName}
  <2>1. \/ n.conf = DefaultName
        \/ o.op = "ChangeNodeConfig" /\ n.conf = o.name
        \/ \E m \in tx.t.nodes : m.conf = n.conf
    BY <1>3, <1>4, ExecutedNodes DEF new
  <2> QED
    BY <1>2, <1>4, <1>5, <1>6, <2>1 DEF Draft
<1>8. r = First /\ tx.next + 1 > 3 => DefaultName \in new.configs
  <2>1. SUFFICES ASSUME r = First, tx.next + 1 > 3 PROVE DefaultName \in new.configs
    OBVIOUS
  <2>2. tx.next = 3 /\ o = Genesis[3]
    BY <1>2, <1>3, <2>1, GenesisOrders DEF IInv, History, o
  <2> QED
    BY <1>3, <1>4, <2>2, GenesisOrders, ExecutedConfigs DEF new
<1>9. RootKept'
  <2> SUFFICES ASSUME NEW u \in new.users, "Root" \in u.perm, r # First, "Root" \notin req[r].perms
               PROVE  \E v \in tables.users : v.by = u.by /\ "Root" \in v.perm
    BY <1>2 DEF RootKept
  <2>1. ~(o.op \in {"AddUser", "EditUser"} /\ "Root" \in o.perm)
    BY <1>4 DEF RightsChecked, Entitled, MayEdit
  <2>2. PICK v \in tx.t.users : v.by = u.by /\ "Root" \in v.perm
    BY <1>3, <1>4, <2>1, ExecutedRoot DEF new
  <2> QED
    BY <1>2, <1>5, <2>2 DEF Draft, RootKept
<1>10. ASSUME NEW a \in Entities(new) PROVE (Kept(a) \/ Added(a))'
  <2>1. \/ o.op \in Adds /\ a.by = p /\ a.key = o.key
        \/ \E b \in Entities(tx.t) : b.by = a.by /\ b.key = a.key
    BY <1>3, <1>4, ExecutedEntities DEF new
  <2>2. CASE o.op \in Adds /\ a.by = p /\ a.key = o.key
    BY <1>2, <1>3, <2>2 DEF Added, o
  <2>3. CASE \E b \in Entities(tx.t) : b.by = a.by /\ b.key = a.key
    <3>1. PICK b \in Entities(tx.t) : b.by = a.by /\ b.key = a.key
      BY <2>3
    <3>2. Kept(b) \/ Added(b)
      BY <1>2, <1>5 DEF Draft
    <3> QED
      BY <1>2, <3>1, <3>2 DEF Kept, Added
  <2> QED
    BY <2>1, <2>2, <2>3
<1>11. Draft'
  BY <1>2, <1>6, <1>7, <1>8, <1>9, <1>10 DEF Draft
<1>12. (NodesConfigured /\ DuplicatesOverlap /\ History /\ Founded)'
  BY <1>2, <1>5 DEF IInv, NodesConfigured, DuplicatesOverlap, History, Founded
<1>13. \A s \in Requests : VerifiedAt(s)'
  BY <1>1, <1>2, VerifiedStays, NotGrown DEF IInv, Verified, Same
<1> QED
  BY <1>1, <1>11, <1>12, <1>13 DEF IInv, Verified

(* The transaction is given up, and its request lost.                      *)
LEMMA RollbackInv ==
  ASSUME IInv, Rollback
  PROVE  IInv'
<1> USE FirstIsNone
<1>1. TypeOK /\ TypeOK'
  BY EndTypes DEF IInv
<1>2. /\ UNCHANGED <<tables, auth>> /\ tx.open /\ tx.req \in Ids /\ req[tx.req].at = "applying"
      /\ req \in [Ids -> Request] /\ req' = [req EXCEPT ![tx.req].at = "lost"] /\ ~tx'.open
  BY <1>1, OpenRequest, NoTxType DEF Rollback, Refuse, TypeOK, Ids
<1>3. \A s \in Ids :
        /\ req'[s].body = req[s].body /\ req'[s].by = req[s].by /\ req'[s].perms = req[s].perms
        /\ req'[s].next = req[s].next /\ req'[s].seen = req[s].seen
        /\ req'[s].at = req[s].at \/ (s = tx.req /\ req'[s].at = "lost")
        /\ req[s].at = "applied" => req'[s] = req[s]
  BY <1>2 DEF Request
<1>4. Applied' = Applied /\ \A q \in Applied : req'[q] = req[q]
  <2>1. DOMAIN req = Ids /\ DOMAIN req' = Ids
    BY <1>2
  <2> QED
    BY <1>2, <1>3, <2>1 DEF Applied
<1>5. NodesConfigured' /\ DuplicatesOverlap' /\ Draft'
  BY <1>2, <1>4 DEF IInv, NodesConfigured, DuplicatesOverlap, History, Draft
<1>6. History'
  BY <1>2, <1>3, <1>4 DEF IInv, History
<1>7. Founded'
  BY <1>2, <1>3 DEF IInv, Founded
<1>8. \A s \in Requests : VerifiedAt(s)'
  <2>1. \A s \in Requests : Same(s)
    BY <1>2, <1>3 DEF Same
  <2> QED
    BY <1>1, <1>2, <2>1, VerifiedStays, NotGrown DEF IInv, Verified
<1> QED
  BY <1>1, <1>5, <1>6, <1>7, <1>8 DEF IInv, Verified

(* What a commit does to the requests and to what has been applied.        *)
LEMMA CommitStep ==
  ASSUME IInv, Commit
  PROVE  /\ tx.open /\ tx.req \in Ids /\ tx.req \notin Applied /\ Applied' = Applied \cup {tx.req}
         /\ tx.next > Len(req[tx.req].body) /\ req[tx.req].body \in Seq(Order)
         /\ req[tx.req].at = "applying" /\ tx.next \in Nat
         /\ tables' = tx.t /\ tx.t \in Tables /\ UNCHANGED auth /\ ~tx'.open
         /\ \A s \in Ids :
              /\ req'[s].body = req[s].body /\ req'[s].by = req[s].by
              /\ req'[s].perms = req[s].perms /\ req'[s].next = req[s].next
              /\ req'[s].seen = req[s].seen
              /\ req'[s].at = req[s].at \/ (s = tx.req /\ req'[s].at = "applied")
         /\ Draft
<1>1. TypeOK /\ Draft
  BY DEF IInv
<1>2. /\ tx.open /\ tables' = tx.t /\ UNCHANGED auth /\ tx.next > Len(req[tx.req].body)
      /\ req' = [req EXCEPT ![tx.req].at = "applied"] /\ req \in [Ids -> Request] /\ ~tx'.open
  BY <1>1, NoTxType DEF Commit, TypeOK, Ids
<1>3. /\ tx.req \in Ids /\ req[tx.req].at = "applying" /\ req[tx.req].body \in Seq(Order)
      /\ tx.next \in Nat /\ tx.t \in Tables
  BY <1>1, <1>2, OpenRequest
<1>4. DOMAIN req = Ids /\ DOMAIN req' = Ids
  BY <1>2
<1>5. \A s \in Ids :
        /\ req'[s].body = req[s].body /\ req'[s].by = req[s].by /\ req'[s].perms = req[s].perms
        /\ req'[s].next = req[s].next /\ req'[s].seen = req[s].seen
        /\ req'[s].at = IF s = tx.req THEN "applied" ELSE req[s].at
  BY <1>2 DEF Request
<1>6. tx.req \notin Applied /\ Applied' = Applied \cup {tx.req}
  BY <1>3, <1>4, <1>5 DEF Applied
<1> QED
  BY <1>1, <1>2, <1>3, <1>5, <1>6

(* The tables of the transaction become the committed ones.                *)
LEMMA CommitInv ==
  ASSUME IInv, Commit
  PROVE  IInv'
<1> USE FirstIsNone, CommitStep
<1> DEFINE r == tx.req
<1>1. TypeOK /\ TypeOK'
  BY EndTypes DEF IInv
<1>2. DefaultName \in tx.t.configs
  <2>1. CASE r = First
    <3>1. Len(req[r].body) = 3
      BY <2>1, GenesisOrders DEF IInv, History
    <3> QED
      BY <2>1, <3>1 DEF Draft
  <2>2. CASE r # First
    <3>1. r \in Requests /\ req[r].at # "idle"
      BY <2>2 DEF Ids
    <3> QED
      BY <3>1 DEF IInv, Founded, Draft
  <2> QED
    BY <2>1, <2>2
<1>3. NodesConfigured'
  BY <1>2 DEF NodesConfigured, Draft
<1>4. \A a \in Entities(tx.t) : Kept(a) \/ Added(a)
  BY DEF Draft
<1>5. \A a \in Entities(tx.t) : Kept(a) => a.by[1] \in Applied
  BY DEF Kept, IInv, History
<1>6. ASSUME NEW a \in Entities(tx.t), NEW b \in Entities(tx.t), a.key = b.key, Kept(a), Added(b)
      PROVE  a.by[1] \notin req[r].seen
  <2>1. CASE r = First
    BY <2>1 DEF IInv, History
  <2>2. CASE r # First
    <3> DEFINE i == b.by[2]
    <3>1. r \in Requests /\ VerifiedAt(r)
      BY <2>2 DEF Ids, IInv, Verified
    <3>2. i \in DOMAIN req[r].body /\ req[r].body[i].op \in Adds /\ req[r].body[i].key = a.key
      BY <1>6 DEF Added
    <3>3. i < req[r].next
      <4>1. req[r].next > Len(req[r].body) /\ req[r].next \in Nat
        BY <3>1, <1>1 DEF VerifiedAt, TypeOK, Request
      <4>2. i \in Nat /\ i <= Len(req[r].body) /\ Len(req[r].body) \in Nat
        BY <3>2
      <4> QED
        BY <4>1, <4>2
    <3>4. EntityChecked(r, req[r].body[i])
      BY <3>1, <3>2, <3>3 DEF VerifiedAt
    <3> QED
      BY <1>6, <3>2, <3>4 DEF EntityChecked, Kept
  <2> QED
    BY <2>1, <2>2
<1>7. ASSUME NEW q \in Applied PROVE r \notin req[q].seen
  <2>1. q \in Ids
    BY <1>1 DEF Applied, TypeOK, Ids
  <2> QED
    BY <2>1 DEF IInv, History
<1>8. DuplicatesOverlap'
  <2> SUFFICES ASSUME NEW a \in Entities(tx.t), NEW b \in Entities(tx.t), a.key = b.key
               PROVE  \/ a.by[1] = b.by[1]
                      \/ a.by[1] \notin req'[b.by[1]].seen /\ b.by[1] \notin req'[a.by[1]].seen
    BY DEF DuplicatesOverlap
  <2>1. CASE Added(a) /\ Added(b)
    BY <2>1 DEF Added
  <2>2. CASE Kept(a) /\ Kept(b)
    <3>1. PICK x \in Entities(tables) : x.by = a.by /\ x.key = a.key
      BY <2>2 DEF Kept
    <3>2. PICK y \in Entities(tables) : y.by = b.by /\ y.key = b.key
      BY <2>2 DEF Kept
    <3>3. \/ a.by[1] = b.by[1]
          \/ a.by[1] \notin req[b.by[1]].seen /\ b.by[1] \notin req[a.by[1]].seen
      BY <3>1, <3>2 DEF IInv, DuplicatesOverlap
    <3>4. a.by[1] \in Ids /\ b.by[1] \in Ids
      BY <1>1, <1>5, <2>2 DEF Applied, TypeOK, Ids
    <3> QED
      BY <3>3, <3>4
  <2>3. CASE Kept(a) /\ Added(b)
    <3>1. b.by[1] = r /\ a.by[1] \in Applied /\ a.by[1] \in Ids
      BY <1>1, <1>5, <2>3 DEF Added, Applied, TypeOK, Ids
    <3> QED
      BY <1>6, <1>7, <2>3, <3>1
  <2>4. CASE Added(a) /\ Kept(b)
    <3>1. a.by[1] = r /\ b.by[1] \in Applied /\ b.by[1] \in Ids
      BY <1>1, <1>5, <2>4 DEF Added, Applied, TypeOK, Ids
    <3> QED
      BY <1>6, <1>7, <2>4, <3>1
  <2> QED
    BY <1>4, <2>1, <2>2, <2>3, <2>4
<1>9. History'
  <2>1. \A a \in Entities(tx.t) : a.by[1] \in Applied'
    BY <1>4, <1>5 DEF Added
  <2> QED
    BY <2>1 DEF IInv, History
<1>10. Founded'
  BY <1>2 DEF Founded
<1>11. Draft'
  BY DEF Draft
<1>12. Grown
  BY <1>4 DEF Grown, Added, Draft
<1>13. \A s \in Requests : VerifiedAt(s)'
  <2>1. \A s \in Requests : Same(s)
    BY DEF Same
  <2> QED
    BY <1>1, <1>12, <2>1, VerifiedStays DEF IInv, Verified
<1> QED
  BY <1>1, <1>3, <1>8, <1>9, <1>10, <1>11, <1>13 DEF IInv, Verified

-----------------------------------------------------------------------------
(* Theorems.                                                               *)

(* Root comes from Root: rows change by a commit only.                     *)
LEMMA RootStep ==
  ASSUME IInv, [Next]_vars, NEW u \in tables'.users, "Root" \in u.perm,
         \A v \in tables.users : v.by = u.by => "Root" \notin v.perm
  PROVE  tx.req = First \/ "Root" \in req[tx.req].perms
<1>1. CASE Commit
  <2>1. u \in tx.t.users /\ RootKept
    BY <1>1, CommitStep DEF Draft
  <2> QED
    BY <2>1 DEF RootKept
<1>2. CASE UNCHANGED tables
  BY <1>2
<1> QED
  BY <1>1, <1>2 DEF Next, vars, Hello, Leave, Ask, VerifyEntity, VerifyRights, Accept, Lose,
                    Begin, Execute, Rollback

(* Every step keeps the invariant.                                         *)
LEMMA NextInv ==
  ASSUME IInv, [Next]_vars
  PROVE  IInv'
<1>1. CASE \E k \in Keys : Hello(k) \/ Leave(k)
  BY <1>1, SessionInv
<1>2. CASE \E r \in Requests : RequestStep(r)
  BY <1>2, RequestStepInv
<1>3. CASE \E r \in Ids : Lose(r)
  BY <1>3, LoseInv
<1>4. CASE \E r \in Ids : Begin(r)
  BY <1>4, BeginInv
<1>5. CASE Execute
  BY <1>5, ExecuteInv
<1>6. CASE Rollback
  BY <1>6, RollbackInv
<1>7. CASE Commit
  BY <1>7, CommitInv
<1>8. CASE UNCHANGED vars
  BY <1>8 DEF vars, IInv, TypeOK, NodesConfigured, DuplicatesOverlap, History, Founded, Verified,
              VerifiedAt, EntityChecked, RightsChecked, Current, Draft, RootKept, Kept, Added, Applied
<1> QED
  BY <1>1, <1>2, <1>3, <1>4, <1>5, <1>6, <1>7, <1>8 DEF Next, RequestStep, Ids

(* The strengthening is an invariant of every instance.                    *)
THEOREM RulesInvariant == Spec => []IInv
<1>1. Init => IInv
  BY InitInv
<1>2. IInv /\ [Next]_vars => IInv'
  BY NextInv
<1> QED
  BY <1>1, <1>2, PTL DEF Spec

(* Rows, sessions, requests and the transaction keep their types.          *)
THEOREM RulesTypeCorrect == Spec => []TypeOK
<1>1. IInv => TypeOK
  BY DEF IInv
<1> QED
  BY <1>1, RulesInvariant, PTL

(* No node ever refers to a configuration that is gone (db_calls.rs        *)
(* config_exists, config_used), however verification and execution of      *)
(* different requests interleave.                                          *)
THEOREM NodesAlwaysConfigured == Spec => []NodesConfigured
<1>1. IInv => NodesConfigured
  BY DEF IInv
<1> QED
  BY <1>1, RulesInvariant, PTL

(* Entities share a key only when one request added both, or when neither  *)
(* had been applied when the verification of the other began (block.rs     *)
(* verify_order, DuplicateEntity).                                         *)
THEOREM DuplicatesAlwaysOverlap == Spec => []DuplicatesOverlap
<1>1. IInv => DuplicatesOverlap
  BY DEF IInv
<1> QED
  BY <1>1, RulesInvariant, PTL

(* After the first block only a request of a holder of Root gives Root     *)
(* (block.rs verify_order, AddUser and EditUser).                          *)
THEOREM RootOnlyFromRoot == Spec => RootFromRoot
<1> DEFINE Step == \A u \in tables'.users :
                     "Root" \in u.perm /\ (\A v \in tables.users : v.by = u.by => "Root" \notin v.perm)
                         => tx.req = First \/ "Root" \in req[tx.req].perms
<1>1. IInv /\ [Next]_vars => Step
  BY RootStep
<1>2. Spec => [][Step]_vars
  BY <1>1, RulesInvariant, PTL DEF Spec
<1> QED
  BY <1>2 DEF RootFromRoot
=============================================================================
