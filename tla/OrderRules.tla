----------------------------- MODULE OrderRules -----------------------------
(***************************************************************************)
(* What the orders of a request mean: how a master verifies them against   *)
(* its tables users, node and config before the votes, and how it changes  *)
(* those tables after them.  The votes, and the tasks that carry them, are *)
(* MasterOrders; here an accepted request is applied at some later moment, *)
(* or never.                                                               *)
(*                                                                         *)
(* Abstractions: a name is only whether it is too long, what a             *)
(* configuration says is left to NodeSync, a vote weight is never read.    *)
(***************************************************************************)
EXTENDS Naturals, Sequences

CONSTANTS Keys,         \* public keys of users and of nodes
          RootKey,      \* the key the master was created for
          MasterKey,    \* the key of that master
          Configs,      \* names of configurations
          DefaultName,  \* the one called "default"
          Menu,         \* bound: the requests clients may send
          MaxRequests   \* bound: how many requests are sent

ASSUME ConstantsAssumption ==
    /\ RootKey \in Keys /\ MasterKey \in Keys
    /\ DefaultName \in Configs
    /\ MaxRequests \in Nat

VARIABLES tables,   \* the committed tables: [users, nodes, configs]
          tx,       \* the open write transaction, or NoTx
          auth,     \* auth[k]: the permissions read at k's Hello, or NoSession
          req       \* req[r]: request r, see Idle

vars == <<tables, tx, auth, req>>

-----------------------------------------------------------------------------
(* Orders.                                                                 *)

Permission == {"Root", "Monitor"}

Adds  == {"AddUser", "AddMasterNode", "AddNode"}
Known == {"EditUser", "RemoveUser", "EditMasterNode", "RemoveMasterNode", "EditNode",
          "RemoveNode", "UpdatePublicKey", "ChangeNodeConfig"}
Ops   == Adds \cup Known \cup {"UpdateVoteWeight", "SetConfig", "RemoveConfig"}

Order == [op : Ops, key : Keys, perm : SUBSET Permission, name : Configs, long : BOOLEAN]

ASSUME MenuAssumption == Menu \subseteq Seq(Order)

Plain(op, k) == [op |-> op, key |-> k, perm |-> {}, name |-> DefaultName, long |-> FALSE]

AddUser(k, P)          == [Plain("AddUser", k) EXCEPT !.perm = P]
EditUser(k, P)         == [Plain("EditUser", k) EXCEPT !.perm = P]
RemoveUser(k)          == Plain("RemoveUser", k)
AddNode(k, master)     == Plain(IF master THEN "AddMasterNode" ELSE "AddNode", k)
EditNode(k, master)    == Plain(IF master THEN "EditMasterNode" ELSE "EditNode", k)
RemoveNode(k, master)  == Plain(IF master THEN "RemoveMasterNode" ELSE "RemoveNode", k)
ChangeNodeConfig(k, c) == [Plain("ChangeNodeConfig", k) EXCEPT !.name = c]
SetConfig(c)           == [Plain("SetConfig", RootKey) EXCEPT !.name = c]
RemoveConfig(c)        == [Plain("RemoveConfig", RootKey) EXCEPT !.name = c]

\* The first block: three orders that are applied without being verified.
Genesis == <<AddUser(RootKey, {"Root"}), AddNode(MasterKey, TRUE), SetConfig(DefaultName)>>

-----------------------------------------------------------------------------
(* Tables.  No key is unique: a row is told from others by the order that  *)
(* added it, which stands for its id.                                      *)

First    == 0
Requests == 1 .. MaxRequests
Places   == (Requests \cup {First}) \X Nat

User   == [by : Places, key : Keys, perm : SUBSET Permission, active : BOOLEAN]
Node   == [by : Places, key : Keys, master : BOOLEAN, conf : Configs]
Tables == [users : SUBSET User, nodes : SUBSET Node, configs : SUBSET Configs]

UserHas(t, k)   == \E u \in t.users : u.key = k /\ u.active
NodeHas(t, k)   == \E n \in t.nodes : n.key = k

\* mutant: the query looks at the nodes only
EntityExists_Nodes(t, k) == NodeHas(t, k)
EntityExists(t, k) == UserHas(t, k) \/ NodeHas(t, k)

MasterExists(t, k) == \E n \in t.nodes : n.key = k /\ n.master
ConfigExists(t, c) == c \in t.configs
ConfigUsed(t, c)   == \E n \in t.nodes : n.conf = c

\* A query for one row that finds none is an error, and the answer NodeError:
\* a configuration nobody uses can therefore not be removed.
NoRow == "NodeError"

\* mutant: no row is no error
UnusedConfig_Optional == "None"
UnusedConfig == NoRow

\* The first half of the verification of an order: what it names.
EntityError(t, o) ==
    CASE o.op \in Adds  -> IF EntityExists(t, o.key) THEN "DuplicateEntity" ELSE "None"
      [] o.op \in Known -> IF EntityExists(t, o.key) THEN "None" ELSE "InvalidEntity"
      [] o.op = "UpdateVoteWeight" -> IF MasterExists(t, o.key) THEN "None" ELSE NoRow
      [] o.op = "SetConfig"    -> IF o.long THEN "LongParameter" ELSE "None"
      [] o.op = "RemoveConfig" -> IF ConfigUsed(t, o.name) THEN "ConfigUsed" ELSE UnusedConfig

\* mutant: a user may give itself any permission
MayEdit_Self(k, perms, o) == "Root" \in perms \/ k = o.key

\* Who may edit a user: Root, and the user itself within its permissions.
MayEdit(k, perms, o) == "Root" \in perms \/ (k = o.key /\ o.perm \subseteq perms)

Named == Adds \cup {"EditUser", "EditMasterNode", "EditNode"}

\* Whether its signer k, with these permissions, may give an order.
Entitled(k, perms, o) ==
    CASE o.op = "EditUser"        -> MayEdit(k, perms, o)
      [] o.op = "UpdatePublicKey" -> "Root" \in perms /\ k = o.key
      [] OTHER                    -> "Root" \in perms

\* The second half.
RightsError(t, o, k, perms) ==
    IF o.op \in Named /\ o.long THEN "LongParameter"
    ELSE IF ~Entitled(k, perms, o) THEN "PermissionError"
    ELSE IF o.op = "AddUser" /\ o.perm = {} THEN "NoPermission"
    ELSE IF o.op = "ChangeNodeConfig" /\ ~ConfigExists(t, o.name) THEN NoRow
    ELSE "None"

-----------------------------------------------------------------------------
(* What an order does to the tables.  UpdatePublicKey names a column that  *)
(* does not exist: it fails, and its request with it.                      *)

Fails(o) == o.op = "UpdatePublicKey"

Changed(rows, k, column, value) == {IF x.key = k THEN [x EXCEPT ![column] = value] ELSE x : x \in rows}

\* The tables after the order at place p.
Executed(t, o, p) ==
    CASE o.op = "AddUser" ->
            [t EXCEPT !.users = @ \cup {[by |-> p, key |-> o.key, perm |-> o.perm, active |-> TRUE]}]
      [] o.op \in {"AddNode", "AddMasterNode"} ->
            [t EXCEPT !.nodes = @ \cup {[by |-> p, key |-> o.key, master |-> o.op = "AddMasterNode",
                                         conf |-> DefaultName]}]
      [] o.op = "EditUser" ->
            [t EXCEPT !.users = Changed(@, o.key, "perm", o.perm)]
      [] o.op = "RemoveUser" ->
            [t EXCEPT !.users = Changed(@, o.key, "active", FALSE)]
      [] o.op \in {"RemoveNode", "RemoveMasterNode"} ->
            [t EXCEPT !.nodes = {n \in @ : n.key # o.key}]
      [] o.op = "ChangeNodeConfig" ->
            [t EXCEPT !.nodes = Changed(@, o.key, "conf", o.name)]
      [] o.op = "SetConfig"    -> [t EXCEPT !.configs = @ \cup {o.name}]
      [] o.op = "RemoveConfig" -> [t EXCEPT !.configs = @ \ {o.name}]
      [] OTHER -> t      \* names and vote weights

-----------------------------------------------------------------------------
(* Requests.  seen is a history: the requests that had been applied when   *)
(* the verification of this one began.                                     *)

Stages == {"idle", "entity", "rights", "accepted", "applying", "applied", "lost"}

Idle == [at |-> "idle", body |-> <<>>, by |-> RootKey, perms |-> {}, next |-> 1, seen |-> {}]

Request == [at : Stages, body : {<<>>, Genesis} \cup Menu, by : Keys, perms : SUBSET Permission,
            next : Nat \ {0}, seen : SUBSET (Requests \cup {First})]

NoSession == [user |-> FALSE, perms |-> {}]
Session(P) == [user |-> TRUE, perms |-> P]

NoTx == [req |-> First, open |-> FALSE, next |-> 1, t |-> [users |-> {}, nodes |-> {}, configs |-> {}]]

Applied == {q \in DOMAIN req : req[q].at = "applied"}

-----------------------------------------------------------------------------
(* Sessions and the verification of a request.                             *)

\* The permissions are read once, from any active row of the key.
Hello(k) ==
    /\ ~auth[k].user
    /\ \E u \in tables.users :
          /\ u.key = k /\ u.active
          /\ auth' = [auth EXCEPT ![k] = Session(u.perm)]
    /\ UNCHANGED <<tables, tx, req>>

\* Connection closed, or the master restarted.
Leave(k) ==
    /\ auth[k].user
    /\ auth' = [auth EXCEPT ![k] = NoSession]
    /\ UNCHANGED <<tables, tx, req>>

\* A signed request of a client with a session, which copies its permissions.
\* A request without a valid signature changes nothing and is left out.
Ask(r, k, body) ==
    /\ req[r].at = "idle"
    /\ \A q \in Requests : q < r => req[q].at # "idle"
    /\ auth[k].user
    /\ req' = [req EXCEPT ![r] = [Idle EXCEPT !.at = "entity", !.body = body, !.by = k,
                                              !.perms = auth[k].perms, !.seen = Applied]]
    /\ UNCHANGED <<tables, tx, auth>>

\* Refused, whatever the error is called; also when a query fails.
Refuse(r) == req' = [req EXCEPT ![r].at = "lost"]

\* Where the verification of r is: the order it looks at.
Current(r) == req[r].body[req[r].next]

VerifyEntity(r) ==
    /\ req[r].at = "entity" /\ req[r].next <= Len(req[r].body)
    /\ \/ Refuse(r)
       \/ /\ EntityError(tables, Current(r)) = "None"
          /\ req' = [req EXCEPT ![r].at = "rights"]
    /\ UNCHANGED <<tables, tx, auth>>

VerifyRights(r) ==
    /\ req[r].at = "rights"
    /\ \/ Refuse(r)
       \/ /\ RightsError(tables, Current(r), req[r].by, req[r].perms) = "None"
          /\ req' = [req EXCEPT ![r].at = "entity", ![r].next = @ + 1]
    /\ UNCHANGED <<tables, tx, auth>>

\* Every order has been verified; the votes decide what becomes of it.
Accept(r) ==
    /\ req[r].at = "entity" /\ req[r].next > Len(req[r].body)
    /\ req' = [req EXCEPT ![r].at = "accepted"]
    /\ UNCHANGED <<tables, tx, auth>>

\* Voted down, not inserted, or the master stopped in between.
Lose(r) ==
    /\ req[r].at = "accepted"
    /\ Refuse(r)
    /\ UNCHANGED <<tables, tx, auth>>

-----------------------------------------------------------------------------
(* Applying a request: one transaction, and one writer at a time.          *)

\* mutant: a second writer does not wait for the first
Begin_Overlaps(r) ==
    /\ req[r].at = "accepted"
    /\ tx' = [req |-> r, open |-> TRUE, next |-> 1, t |-> tables]
    /\ req' = [req EXCEPT ![r].at = "applying"]
    /\ UNCHANGED <<tables, auth>>

Begin(r) ==
    /\ req[r].at = "accepted" /\ ~tx.open
    /\ tx' = [req |-> r, open |-> TRUE, next |-> 1, t |-> tables]
    /\ req' = [req EXCEPT ![r].at = "applying"]
    /\ UNCHANGED <<tables, auth>>

Execute ==
    /\ tx.open /\ tx.next <= Len(req[tx.req].body)
    /\ LET o == req[tx.req].body[tx.next]
       IN  /\ ~Fails(o)
           /\ tx' = [tx EXCEPT !.next = @ + 1, !.t = Executed(@, o, <<tx.req, tx.next>>)]
    /\ UNCHANGED <<tables, auth, req>>

\* An order failed, the database did, or the master stopped.
Rollback ==
    /\ tx.open
    /\ Refuse(tx.req)
    /\ tx' = NoTx
    /\ UNCHANGED <<tables, auth>>

Commit ==
    /\ tx.open /\ tx.next > Len(req[tx.req].body)
    /\ tables' = tx.t
    /\ req' = [req EXCEPT ![tx.req].at = "applied"]
    /\ tx' = NoTx
    /\ UNCHANGED auth

-----------------------------------------------------------------------------
Init ==
    /\ tables = NoTx.t
    /\ tx = NoTx
    /\ auth = [k \in Keys |-> NoSession]
    /\ req = [r \in Requests \cup {First} |->
                IF r = First THEN [Idle EXCEPT !.at = "accepted", !.body = Genesis, !.next = 4]
                             ELSE Idle]

Next ==
    \/ \E k \in Keys : Hello(k) \/ Leave(k)
    \/ \E r \in Requests, k \in Keys, body \in Menu : Ask(r, k, body)
    \/ \E r \in Requests : VerifyEntity(r) \/ VerifyRights(r) \/ Accept(r)
    \/ \E r \in Requests \cup {First} : Lose(r) \/ Begin(r)
    \/ Execute \/ Rollback \/ Commit

Spec == Init /\ [][Next]_vars

-----------------------------------------------------------------------------
(* Properties.                                                             *)

\* Rows, sessions, requests and the transaction have their types; an open
\* transaction is that of the one request being applied.
TypeOK ==
    /\ tables \in Tables
    /\ tx \in [req : Requests \cup {First}, open : BOOLEAN, next : Nat \ {0}, t : Tables]
    /\ auth \in [Keys -> [user : BOOLEAN, perms : SUBSET Permission]]
    /\ req \in [Requests \cup {First} -> Request]
    /\ \A r \in DOMAIN req : req[r].at = "applying" <=> tx.open /\ tx.req = r

\* The configuration of every node exists (db_calls.rs config_used,
\* config_exists): whatever requests were verified against tables that others
\* then changed, a node finds its configuration when it asks for it.
NodesConfigured == \A n \in tables.nodes : n.conf \in tables.configs

\* Root comes from Root (block.rs, EditUser and AddUser): after the first block a
\* row of users only ever gains Root by a request whose signer had a session with Root.
RootFromRoot ==
    [][ \A u \in tables'.users :
            "Root" \in u.perm /\ (\A v \in tables.users : v.by = u.by => "Root" \notin v.perm)
                => tx.req = First \/ "Root" \in req[tx.req].perms ]_vars

Entities(t) == {u \in t.users : u.active} \cup t.nodes

\* "Duplicate entity, happens when adding duplicate user/node" (types.rs): two
\* entities share a key only when one request added both, or when neither of the
\* two requests had been applied when the other's verification began.
DuplicatesOverlap ==
    \A a, b \in Entities(tables) :
        a.key = b.key => LET q == a.by[1]
                             r == b.by[1]
                         IN  q = r \/ (q \notin req[r].seen /\ r \notin req[q].seen)
=============================================================================
