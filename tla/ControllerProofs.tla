-------------------------- MODULE ControllerProofs --------------------------
(***************************************************************************)
(* The transactions of the Controller, for any number of connections,      *)
(* nodes, tokens and addresses: they implement the store, whose addresses  *)
(* are never shared and never change hands in their cooldown; no token     *)
(* enrolls more nodes than it may; and only advertisements wait in cycles. *)
(***************************************************************************)
EXTENDS Controller, FiniteSetTheorems, TLAPS

(* The store. *)

\* The rows keep their types: what the operations on them rely on.
Typed == db \in Database

\* The inductive invariant: the rows of nodes and leases mirror each other.
StoreInv == Typed /\ AddressesLeased

\* The empty network satisfies it.
LEMMA InitInv == StoreInit => StoreInv
  BY StoreAssumption DEF StoreInit, StoreInv, Typed, AddressesLeased, EmptyDatabase, Database, NodeRow,
     LeaseRow, TokenRow, Policy, NoAddress, Channels, RouteStates, Active, Holds

\* Operations that touch neither the leases nor the state or address of a node.
LEMMA SameAddresses ==
  ASSUME StoreInv, db' \in Database, db'.lease = db.lease,
         \A n \in Nodes : /\ db'.node[n].state = db.node[n].state
                          /\ db'.node[n].address = db.node[n].address
  PROVE  StoreInv'
  BY DEF StoreInv, Typed, AddressesLeased, Active, Holds

\* The tables of a typed database.
LEMMA Tables ==
  ASSUME Typed
  PROVE  /\ db.node \in [Nodes -> NodeRow] /\ db.lease \in [Addresses -> LeaseRow]
         /\ db.token \in [Tokens -> TokenRow] /\ db.routes \in [Nodes -> RouteStates]
         /\ db.policy \in Policy
         /\ db = [node |-> db.node, lease |-> db.lease, token |-> db.token,
                  routes |-> db.routes, policy |-> db.policy]
  BY DEF Typed, Database

\* The tables of a database put together from typed ones.
LEMMA Rebuilt ==
  ASSUME NEW N \in [Nodes -> NodeRow], NEW L \in [Addresses -> LeaseRow],
         NEW T \in [Tokens -> TokenRow], NEW R \in [Nodes -> RouteStates], NEW P \in Policy,
         db' = [node |-> N, lease |-> L, token |-> T, routes |-> R, policy |-> P]
  PROVE  /\ db' \in Database
         /\ db'.node = N /\ db'.lease = L
  BY DEF Database

\* An enrollment takes a free address, which no active node has.
LEMMA EnrollInv == ASSUME StoreInv, EnrollNode PROVE StoreInv'
  <1>1. PICK n \in Nodes, t \in Tokens, a \in Addresses :
          /\ db.node[n].state = "unknown"
          /\ db.token[t].use_count < db.token[t].max_uses
          /\ Free(db, a)
          /\ db' = Enrolled(db, n, t, a)
    BY DEF EnrollNode, Publish
  <1> DEFINE N == [db.node EXCEPT ![n] = [@ EXCEPT !.state = "active", !.address = a]]
             L == [db.lease EXCEPT ![a] = [state |-> "active", node |-> {n}]]
             T == [db.token EXCEPT ![t].use_count = @ + 1]
  <1>2. Typed BY DEF StoreInv
  <1>3. db' = [node |-> N, lease |-> L, token |-> T, routes |-> db.routes, policy |-> db.policy]
    BY <1>1, <1>2, Tables DEF Enrolled
  <1>4. N \in [Nodes -> NodeRow]
    BY <1>2, Tables DEF NodeRow
  <1>5. L \in [Addresses -> LeaseRow]
    BY <1>2, Tables DEF LeaseRow
  <1>6. T \in [Tokens -> TokenRow]
    BY <1>1, <1>2, Tables, StoreAssumption DEF TokenRow
  <1>7. db' \in Database /\ db'.node = N /\ db'.lease = L
    BY <1>2, <1>3, <1>4, <1>5, <1>6, Tables, Rebuilt
  <1>8. \A m \in Active(db) : m # n /\ db.node[m].address # a
    BY <1>1 DEF StoreInv, AddressesLeased, Active, Free, Holds
  <1>9. /\ Active(db') = Active(db) \cup {n} /\ Active(db) \subseteq Nodes
        /\ N[n].address = a /\ \A m \in Nodes \ {n} : N[m] = db.node[m]
        /\ L[a].state = "active" /\ L[a].node = {n}
        /\ \A b \in Addresses \ {a} : L[b] = db.lease[b]
    BY <1>2, <1>4, <1>7, Tables DEF Active, NodeRow
  <1> HIDE DEF N, L
  <1>10. ASSUME NEW m \in Active(db')
         PROVE  db'.node[m].address \in Addresses /\ Holds(db', m, db'.node[m].address)
    <2>1. CASE m = n
      BY <1>7, <1>9, <2>1 DEF Holds
    <2>2. CASE m # n
      <3>1. m \in Active(db) /\ m \in Nodes \ {n}
        BY <1>9, <2>2
      <3>2. db.node[m].address \in Addresses \ {a} /\ Holds(db, m, db.node[m].address)
        BY <1>8, <3>1 DEF StoreInv, AddressesLeased
      <3> QED BY <1>7, <1>9, <3>1, <3>2 DEF Holds
    <2> QED BY <2>1, <2>2
  <1>11. ASSUME NEW b \in Addresses, db'.lease[b].state = "active"
         PROVE  \E m \in Active(db') : db'.node[m].address = b /\ Holds(db', m, b)
    <2>1. CASE b = a
      BY <1>7, <1>9, <2>1 DEF Holds
    <2>2. CASE b # a
      <3>1. db'.lease[b] = db.lease[b]
        BY <1>7, <1>9, <2>2
      <3>2. PICK m \in Active(db) : db.node[m].address = b /\ Holds(db, m, b)
        BY <1>11, <3>1 DEF StoreInv, AddressesLeased
      <3> QED BY <1>7, <1>8, <1>9, <3>1, <3>2 DEF Holds
    <2> QED BY <2>1, <2>2
  <1>12. AddressesLeased'
    BY <1>10, <1>11 DEF AddressesLeased
  <1> QED BY <1>7, <1>12 DEF StoreInv, Typed

\* A revocation ends the lease of its node and of no other.
LEMMA RevokeInv == ASSUME StoreInv, RevokeNode PROVE StoreInv'
  <1>1. PICK n \in Nodes : n \in Active(db) /\ db' = Revoked(db, n)
    BY DEF RevokeNode, Publish, Active
  <1> DEFINE N == [db.node EXCEPT ![n].state = "revoked"]
             L == [a \in Addresses |-> IF Holds(db, n, a) THEN [db.lease[a] EXCEPT !.state = "cooling"]
                                       ELSE db.lease[a]]
  <1>2. Typed BY DEF StoreInv
  <1>3. db' = [node |-> N, lease |-> L, token |-> db.token, routes |-> db.routes, policy |-> db.policy]
    BY <1>1, <1>2, Tables DEF Revoked
  <1>4. N \in [Nodes -> NodeRow]
    BY <1>2, Tables DEF NodeRow
  <1>5. L \in [Addresses -> LeaseRow]
    BY <1>2, Tables DEF LeaseRow
  <1>6. db' \in Database /\ db'.node = N /\ db'.lease = L
    BY <1>2, <1>3, <1>4, <1>5, Tables, Rebuilt
  <1>7. /\ Active(db') = Active(db) \ {n} /\ Active(db) \subseteq Nodes
        /\ \A m \in Nodes \ {n} : N[m] = db.node[m]
        /\ \A a \in Addresses : ~Holds(db, n, a) => L[a] = db.lease[a]
        /\ \A a \in Addresses : Holds(db, n, a) => L[a].state = "cooling"
    BY <1>2, <1>4, <1>6, Tables DEF Active, NodeRow, LeaseRow
  <1> HIDE DEF N, L
  <1>8. ASSUME NEW m \in Active(db')
        PROVE  db'.node[m].address \in Addresses /\ Holds(db', m, db'.node[m].address)
    <2>1. m \in Active(db) /\ m \in Nodes \ {n} /\ Holds(db, m, db.node[m].address)
          /\ db.node[m].address \in Addresses
      BY <1>7 DEF StoreInv, AddressesLeased
    <2>2. ~Holds(db, n, db.node[m].address)
      BY <2>1 DEF Holds
    <2> QED BY <1>6, <1>7, <2>1, <2>2 DEF Holds
  <1>9. ASSUME NEW b \in Addresses, db'.lease[b].state = "active"
        PROVE  \E m \in Active(db') : db'.node[m].address = b /\ Holds(db', m, b)
    <2>1. ~Holds(db, n, b) /\ db'.lease[b] = db.lease[b]
      BY <1>6, <1>7, <1>9
    <2>2. PICK m \in Active(db) : db.node[m].address = b /\ Holds(db, m, b)
      BY <1>9, <2>1 DEF StoreInv, AddressesLeased
    <2>3. m \in Nodes \ {n}
      BY <1>7, <2>1, <2>2
    <2> QED BY <1>6, <1>7, <2>1, <2>2, <2>3 DEF Holds
  <1>10. AddressesLeased'
    BY <1>8, <1>9 DEF AddressesLeased
  <1> QED BY <1>6, <1>10 DEF StoreInv, Typed

\* The clock touches no active lease.
LEMMA TimeInv == ASSUME StoreInv, TimePasses PROVE StoreInv'
  <1>0. Typed BY DEF StoreInv
  <1>1. CASE \E a \in Addresses : db.lease[a].state = "cooling" /\ Keep(Cooled(db, a))
    <2>1. PICK a \in Addresses : db.lease[a].state = "cooling" /\ db' = Cooled(db, a)
      BY <1>1 DEF Keep
    <2> DEFINE L == [db.lease EXCEPT ![a].state = "cooled"]
    <2>2. db' = [node |-> db.node, lease |-> L, token |-> db.token, routes |-> db.routes,
                 policy |-> db.policy]
      BY <1>0, <2>1, Tables DEF Cooled
    <2>3. L \in [Addresses -> LeaseRow]
      BY <1>0, Tables DEF LeaseRow
    <2>4. db' \in Database /\ db'.node = db.node /\ db'.lease = L
      BY <1>0, <2>2, <2>3, Tables, Rebuilt
    <2>5. L[a].state = "cooled" /\ \A b \in Addresses \ {a} : L[b] = db.lease[b]
      BY <1>0, Tables DEF LeaseRow
    <2>6. AddressesLeased'
      BY <2>1, <2>4, <2>5 DEF StoreInv, AddressesLeased, Holds, Active
    <2> QED BY <2>4, <2>6 DEF StoreInv, Typed
  <1>2. CASE \E t \in Tokens : db.token[t].max_uses > 0 /\ Keep(Expired(db, t))
    <2>1. PICK t \in Tokens : db' = Expired(db, t)
      BY <1>2 DEF Keep
    <2> DEFINE T == [db.token EXCEPT ![t].expired = TRUE]
    <2>2. db' = [node |-> db.node, lease |-> db.lease, token |-> T, routes |-> db.routes,
                 policy |-> db.policy]
      BY <1>0, <2>1, Tables DEF Expired
    <2>3. T \in [Tokens -> TokenRow]
      BY <1>0, Tables DEF TokenRow
    <2> QED BY <1>0, <2>2, <2>3, Tables, Rebuilt, SameAddresses
  <1> QED BY <1>1, <1>2 DEF TimePasses

\* The other operations concern no address.
LEMMA OtherInv ==
  ASSUME StoreInv,
         \/ CreateToken \/ ReplaceChannel \/ ReplaceRoutes
         \/ ReplacePolicy \/ AdvertiseCandidates \/ SuggestRoutes
  PROVE  StoreInv'
  <1>0. Typed BY DEF StoreInv
  <1>1. CASE CreateToken
    <2>1. PICK t \in Tokens, uses \in 1..MaxUses, a \in Addresses \cup {NoAddress} :
            db' = TokenCreated(db, t, uses, a)
      BY <1>1 DEF CreateToken, Keep
    <2> DEFINE T == [db.token EXCEPT ![t] = [max_uses |-> uses, use_count |-> 0, expired |-> FALSE,
                                             requested |-> a]]
    <2>2. db' = [node |-> db.node, lease |-> db.lease, token |-> T, routes |-> db.routes,
                 policy |-> db.policy]
      BY <1>0, <2>1, Tables DEF TokenCreated
    <2>3. T \in [Tokens -> TokenRow]
      BY <1>0, <2>1, Tables, StoreAssumption DEF TokenRow
    <2> QED BY <1>0, <2>2, <2>3, Tables, Rebuilt, SameAddresses
  <1>2. CASE ReplaceChannel
    <2>1. PICK n \in Nodes, v \in Channels : db' = ChannelReplaced(db, n, v)
      BY <1>2 DEF ReplaceChannel, Publish, Active
    <2> DEFINE N == [db.node EXCEPT ![n].channel = v]
    <2>2. db' = [node |-> N, lease |-> db.lease, token |-> db.token, routes |-> db.routes,
                 policy |-> db.policy]
      BY <1>0, <2>1, Tables DEF ChannelReplaced
    <2>3. N \in [Nodes -> NodeRow]
      BY <1>0, <2>1, Tables, StoreAssumption DEF NodeRow
    <2>4. \A m \in Nodes : N[m].state = db.node[m].state /\ N[m].address = db.node[m].address
      BY <1>0, Tables DEF NodeRow
    <2> QED BY <1>0, <2>2, <2>3, <2>4, Tables, Rebuilt, SameAddresses
  <1>3. CASE ReplaceRoutes
    <2>1. PICK routes \in [Nodes -> RouteStates] : db' = RoutesReplaced(db, routes)
      BY <1>3 DEF ReplaceRoutes, Publish
    <2>2. db' = [node |-> db.node, lease |-> db.lease, token |-> db.token, routes |-> routes,
                 policy |-> db.policy]
      BY <1>0, <2>1, Tables DEF RoutesReplaced
    <2> QED BY <1>0, <2>2, Tables, Rebuilt, SameAddresses
  <1>4. CASE ReplacePolicy
    <2>1. PICK members \in SUBSET Active(db), subnet \in BOOLEAN : db' = PolicyReplaced(db, members, subnet)
      BY <1>4 DEF ReplacePolicy, Publish
    <2> DEFINE P == [version |-> db.policy.version + 1, members |-> members, subnet |-> subnet]
    <2>2. db' = [node |-> db.node, lease |-> db.lease, token |-> db.token, routes |-> db.routes,
                 policy |-> P]
      BY <1>0, <2>1, Tables DEF PolicyReplaced
    <2>3. P \in Policy
      BY <1>0, <2>1, Tables DEF Policy, Active
    <2> QED BY <1>0, <2>2, <2>3, Tables, Rebuilt, SameAddresses
  <1>5. CASE AdvertiseCandidates
    <2>1. PICK n \in Nodes, v \in 1..MaxGeneration : db' = CandidatesAdvertised(db, n, v)
      BY <1>5 DEF AdvertiseCandidates, Publish, Active
    <2> DEFINE N == [db.node EXCEPT ![n].generation = v]
    <2>2. db' = [node |-> N, lease |-> db.lease, token |-> db.token, routes |-> db.routes,
                 policy |-> db.policy]
      BY <1>0, <2>1, Tables DEF CandidatesAdvertised
    <2>3. N \in [Nodes -> NodeRow]
      BY <1>0, <2>1, Tables, StoreAssumption DEF NodeRow
    <2>4. \A m \in Nodes : N[m].state = db.node[m].state /\ N[m].address = db.node[m].address
      BY <1>0, Tables DEF NodeRow
    <2> QED BY <1>0, <2>2, <2>3, <2>4, Tables, Rebuilt, SameAddresses
  <1>6. CASE SuggestRoutes
    <2>1. PICK n \in Nodes, v \in 1..MaxGeneration : db' = RoutesSuggested(db, n, v)
      BY <1>6 DEF SuggestRoutes, Keep, Active
    <2> DEFINE N == [db.node EXCEPT ![n].suggestion = v]
    <2>2. db' = [node |-> N, lease |-> db.lease, token |-> db.token, routes |-> db.routes,
                 policy |-> db.policy]
      BY <1>0, <2>1, Tables DEF RoutesSuggested
    <2>3. N \in [Nodes -> NodeRow]
      BY <1>0, <2>1, Tables, StoreAssumption DEF NodeRow
    <2>4. \A m \in Nodes : N[m].state = db.node[m].state /\ N[m].address = db.node[m].address
      BY <1>0, Tables DEF NodeRow
    <2> QED BY <1>0, <2>2, <2>3, <2>4, Tables, Rebuilt, SameAddresses
  <1> QED BY <1>1, <1>2, <1>3, <1>4, <1>5, <1>6

\* Every operation preserves the invariant.
LEMMA NextInv == ASSUME StoreInv, [StoreNext]_storeVars PROVE StoreInv'
  <1>1. CASE UNCHANGED storeVars
    BY <1>1 DEF storeVars, StoreInv, Typed, AddressesLeased, Active, Holds
  <1> QED BY <1>1, EnrollInv, RevokeInv, TimeInv, OtherInv DEF StoreNext

\* A step leaves a cooling address with the node that had it.
LEMMA CoolingKept ==
  ASSUME StoreInv, [StoreNext]_storeVars,
         NEW b \in Addresses, db.lease[b].state = "cooling"
  PROVE  db'.lease[b].node = db.lease[b].node
  <1>0. /\ db.lease \in [Addresses -> LeaseRow]
        /\ db = [node |-> db.node, lease |-> db.lease, token |-> db.token,
                 routes |-> db.routes, policy |-> db.policy]
    BY Tables DEF StoreInv
  <1>1. CASE EnrollNode
    <2>1. PICK n \in Nodes, t \in Tokens, a \in Addresses :
            Free(db, a) /\ db' = Enrolled(db, n, t, a)
      BY <1>1 DEF EnrollNode, Publish
    <2>2. a # b
      BY <2>1 DEF Free
    <2> QED BY <1>0, <2>1, <2>2 DEF Enrolled
  <1>2. CASE RevokeNode
    <2>1. PICK n \in Nodes : db' = Revoked(db, n)
      BY <1>2 DEF RevokeNode, Publish, Active
    <2>2. ~Holds(db, n, b)
      BY DEF Holds
    <2>3. db'.lease = [a \in Addresses |-> IF Holds(db, n, a)
                                           THEN [db.lease[a] EXCEPT !.state = "cooling"] ELSE db.lease[a]]
      BY <1>0, <2>1 DEF Revoked
    <2> QED BY <2>2, <2>3
  <1>3. CASE TimePasses
    <2>1. CASE \E a \in Addresses : db.lease[a].state = "cooling" /\ Keep(Cooled(db, a))
      <3>1. PICK a \in Addresses : db' = Cooled(db, a)
        BY <2>1 DEF Keep
      <3> QED BY <1>0, <3>1 DEF Cooled, LeaseRow
    <2>2. CASE \E t \in Tokens : db.token[t].max_uses > 0 /\ Keep(Expired(db, t))
      <3>1. PICK t \in Tokens : db' = Expired(db, t)
        BY <2>2 DEF Keep
      <3> QED BY <1>0, <3>1 DEF Expired
    <2> QED BY <1>3, <2>1, <2>2 DEF TimePasses
  <1>4. CASE CreateToken
    BY <1>0, <1>4 DEF CreateToken, Keep, TokenCreated
  <1>5. CASE ReplaceChannel
    BY <1>0, <1>5 DEF ReplaceChannel, Publish, ChannelReplaced
  <1>6. CASE ReplaceRoutes
    BY <1>0, <1>6 DEF ReplaceRoutes, Publish, RoutesReplaced
  <1>7. CASE ReplacePolicy
    BY <1>0, <1>7 DEF ReplacePolicy, Publish, PolicyReplaced
  <1>8. CASE AdvertiseCandidates
    BY <1>0, <1>8 DEF AdvertiseCandidates, Publish, CandidatesAdvertised
  <1>9. CASE SuggestRoutes
    BY <1>0, <1>9 DEF SuggestRoutes, Keep, RoutesSuggested
  <1>10. CASE UNCHANGED storeVars
    BY <1>10 DEF storeVars
  <1> QED BY <1>1, <1>2, <1>3, <1>4, <1>5, <1>6, <1>7, <1>8, <1>9, <1>10 DEF StoreNext

-----------------------------------------------------------------------------
(* The inductive invariant of the transactions. *)

\* The operations.
Ops == {"token", "enroll", "revoke", "channel", "routes", "policy", "candidates", "suggest"}

\* The record of a transaction.
Tx(op, args, cooled, at, held, address, view) ==
    [op |-> op, args |-> args, cooled |-> cooled, at |-> at, held |-> held, address |-> address,
     view |-> view]

\* A transaction has these fields and no others.
Shaped(x) ==
    /\ x = Tx(x.op, x.args, x.cooled, x.at, x.held, x.address, x.view)
    /\ x.op \in Ops \cup {"none"} /\ x.at \in Nat
    /\ x.op = "none" => x = Idle

\* What each operation was asked for.
Asked(x) ==
    /\ x.op = "token" => /\ x.args.token \in Tokens /\ x.args.uses \in 1..MaxUses
                         /\ x.args.requested \in Addresses \cup {NoAddress}
    /\ x.op = "enroll" => x.args.node \in Nodes /\ x.args.token \in Tokens
    /\ x.op = "revoke" => x.args.node \in Nodes
    /\ x.op = "channel" => x.args.node \in Nodes /\ x.args.channel \in Channels
    /\ x.op = "routes" => x.args.routes \in [Nodes -> RouteStates]
    /\ x.op = "policy" => x.args.members \subseteq Nodes /\ x.args.subnet \in BOOLEAN
    /\ x.op \in {"candidates", "suggest"} =>
          x.args.node \in Nodes /\ x.args.generation \in 1..MaxGeneration

\* The last lock is held, all checks are made.
Ready(x) == x.at = IF x.op \in {"token", "candidates", "suggest"} THEN 2 ELSE 3

\* The locks a transaction has at its place.
Locked(x) ==
    /\ x.op \in {"token", "revoke", "channel", "routes", "policy"} /\ x.at >= 1 =>
          Advisory \in x.held
    /\ x.op \in {"channel", "routes", "policy"} /\ x.at >= 2 => Network("update") \in x.held
    /\ x.op = "enroll" => /\ x.at >= 1 => TokenLock(x.args.token) \in x.held
                          /\ x.at >= 2 => Advisory \in x.held
                          /\ x.at >= 3 => PublishLock \in x.held
    /\ x.op = "revoke" => /\ x.at >= 2 => NodeLock(x.args.node, "update") \in x.held
                          /\ x.at >= 3 => PublishLock \in x.held
    /\ x.op \in {"candidates", "suggest"} /\ x.at >= 1 =>
          NodeLock(x.args.node, "update") \in x.held
    /\ x.op = "candidates" /\ x.at >= 2 => PublishLock \in x.held

\* A transaction that waits holds no other lock.
Holding(x) ==
    /\ x.at = 0 => x.held = {}
    /\ x.op \in {"token", "revoke", "channel", "routes", "policy"} /\ x.at = 1 => x.held = {Advisory}
    /\ x.op \in {"channel", "routes", "policy"} /\ x.at = 2 => x.held = {Advisory, Network("update")}
    /\ x.op = "enroll" => /\ x.at = 1 => x.held = {TokenLock(x.args.token)}
                          /\ x.at = 2 => x.held = {TokenLock(x.args.token), Advisory}
    /\ x.op = "revoke" /\ x.at = 2 => x.held = {Advisory, NodeLock(x.args.node, "update")}
    /\ x.op \in {"candidates", "suggest"} /\ x.at = 1 => x.held = {NodeLock(x.args.node, "update")}

\* It is in its script, and what it has published is within the bound.
Placed(x) ==
    /\ x.at <= IF x.op \in {"token", "candidates", "suggest"} THEN 2 ELSE 3
    /\ \A c \in x.view : c.version \in 2..MaxVersion

\* What it has checked is still so.
Checked(x, d) ==
    /\ x.op = "token" =>
          /\ d.token[x.args.token].max_uses = 0
          /\ x.at >= 1 /\ x.args.requested # NoAddress => Free(d, x.args.requested)
    /\ x.op = "enroll" =>
          /\ d.token[x.args.token].max_uses > 0
          /\ x.at >= 2 => /\ d.node[x.args.node].state = "unknown"
                          /\ x.address \in Addresses /\ Free(d, x.address)
                          /\ d.token[x.args.token].requested \in {NoAddress, x.address}
          /\ x.at >= 3 => d.token[x.args.token].use_count < d.token[x.args.token].max_uses
    /\ x.op = "revoke" /\ x.at >= 2 => x.args.node \in Active(d)
    /\ x.op = "channel" /\ x.at >= 3 => x.args.node \in Active(d)
    /\ x.op = "routes" /\ x.at >= 3 =>
          \A n \in Nodes : x.args.routes[n] # "revoked" => n \in Active(d) /\ d.node[n].suggestion > 0
    /\ x.op = "policy" /\ x.at >= 2 => x.args.members \subseteq Active(d)
    /\ x.op = "candidates" /\ x.at >= 1 =>
          x.args.node \in Active(d) /\ x.args.generation > d.node[x.args.node].generation
    /\ x.op = "suggest" /\ x.at >= 1 =>
          x.args.node \in Active(d) /\ x.args.generation > d.node[x.args.node].suggestion

\* A lease whose cooldown was over when the transaction began is still as it
\* was, or another node has it: its own node cannot have come back.
StillCooled(x, d) ==
    \A a \in Addresses : \A N \in SUBSET Nodes : <<a, N>> \in x.cooled =>
        /\ \E n \in N : d.node[n].state # "unknown"
        /\ d.lease[a].node = N => d.lease[a].state = "cooled"

\* What it has published is what it will commit.
ViewCurrent(x, d, version) ==
    /\ x.view # {} => Publishes(x) /\ Ready(x)
    /\ \A c \in x.view : c = Published(Written(x, d), version + 1) /\ Compiles(c.view)

TransactionInv(x, d, version) ==
    x.op # "none" => /\ Asked(x) /\ Locked(x) /\ Holding(x) /\ Placed(x)
                     /\ Checked(x, d) /\ StillCooled(x, d) /\ ViewCurrent(x, d, version)

\* Nobody holds what another one holds, and no two create the same token.
Apart(x, y) ==
    /\ \A l \in x.held, m \in y.held : ~Conflict(l, m)
    /\ x.op = "token" /\ y.op = "token" => x.args.token # y.args.token

\* A lease that was ever given names a node that was enrolled.
LeasesNamed(d) ==
    \A a \in Addresses : d.lease[a].state # "free" =>
        \E n \in Nodes : d.lease[a].node = {n} /\ d.node[n].state # "unknown"

-----------------------------------------------------------------------------

\* FOR UPDATE keeps everybody else out, and two writers keep each other out.
LEMMA Conflicts ==
  ASSUME NEW resource
  PROVE  /\ \A mode : Conflict(Lock(resource, "update"), Lock(resource, mode))
         /\ \A mode : Conflict(Lock(resource, mode), Lock(resource, "update"))
         /\ Conflict(Lock(resource, "write"), Lock(resource, "write"))
  <1>1. \A mode : {"update", mode} \notin CompatibleModes
    BY DEF CompatibleModes
  <1>2. \A mode : {mode, "update"} \notin CompatibleModes
    BY DEF CompatibleModes
  <1>3. {"write", "write"} \notin CompatibleModes
    BY DEF CompatibleModes
  <1> QED BY <1>1, <1>2, <1>3 DEF Conflict, Lock

\* Two transactions that hold locks for themselves hold different ones.
LEMMA Excluded ==
  ASSUME NEW x, NEW y, Apart(x, y)
  PROVE  /\ ~(Advisory \in x.held /\ Advisory \in y.held)
         /\ \A n : ~(NodeLock(n, "update") \in x.held /\ NodeLock(n, "update") \in y.held)
         /\ \A t : ~(TokenLock(t) \in x.held /\ TokenLock(t) \in y.held)
         /\ \A m, k \in {"write", "update"} : ~(Network(m) \in x.held /\ Network(k) \in y.held)
  <1>1. \A m, k \in {"write", "update"} : Conflict(Network(m), Network(k))
    BY Conflicts DEF Network
  <1>2. Conflict(Advisory, Advisory)
    BY Conflicts DEF Advisory
  <1>3. \A n : Conflict(NodeLock(n, "update"), NodeLock(n, "update"))
    BY Conflicts DEF NodeLock
  <1>4. \A t : Conflict(TokenLock(t), TokenLock(t))
    BY Conflicts DEF TokenLock
  <1> QED BY <1>1, <1>2, <1>3, <1>4 DEF Apart

\* The row an enrollment and a new token leave behind.
NewToken(x) == [max_uses |-> x.args.uses, use_count |-> 0, expired |-> FALSE,
                requested |-> x.args.requested]

\* x is an operation of that kind on the node.
On(x, op, n) == x.op = op /\ x.args.node = n

\* What the operation x makes of the rows d.
NodesWritten(x, d, w) ==
    \A n \in Nodes :
       /\ w.node[n].state = IF On(x, "enroll", n) THEN "active"
                            ELSE IF On(x, "revoke", n) THEN "revoked" ELSE d.node[n].state
       /\ w.node[n].address = IF On(x, "enroll", n) THEN x.address ELSE d.node[n].address
       /\ w.node[n].generation = IF On(x, "candidates", n) THEN x.args.generation
                                 ELSE d.node[n].generation
       /\ w.node[n].suggestion = IF On(x, "suggest", n) THEN x.args.generation
                                 ELSE d.node[n].suggestion
       /\ w.node[n].channel = IF On(x, "channel", n) THEN x.args.channel ELSE d.node[n].channel
LeasesWritten(x, d, w) ==
    \A a \in Addresses :
       w.lease[a] = IF x.op = "enroll" /\ a = x.address
                    THEN [state |-> "active", node |-> {x.args.node}]
                    ELSE IF x.op = "revoke" /\ Holds(d, x.args.node, a)
                    THEN [state |-> "cooling", node |-> d.lease[a].node] ELSE d.lease[a]
TokensWritten(x, d, w) ==
    \A t \in Tokens :
       w.token[t] = IF x.op = "token" /\ t = x.args.token THEN NewToken(x)
                    ELSE IF x.op = "enroll" /\ t = x.args.token
                    THEN [d.token[t] EXCEPT !.use_count = d.token[t].use_count + 1]
                    ELSE d.token[t]
PolicyWritten(x, d, w) ==
    /\ w.routes = IF x.op = "routes" THEN x.args.routes ELSE d.routes
    /\ w.policy = IF x.op = "policy"
                  THEN [version |-> d.policy.version + 1, members |-> x.args.members,
                        subnet |-> x.args.subnet]
                  ELSE d.policy

\* Each operation writes what its predicates say, and nothing else.
LEMMA Effects ==
  ASSUME NEW d \in Database, NEW x, x.op \in Ops, Asked(x),
         x.op = "enroll" => x.address \in Addresses
  PROVE  /\ NodesWritten(x, d, Written(x, d)) /\ LeasesWritten(x, d, Written(x, d))
         /\ TokensWritten(x, d, Written(x, d)) /\ PolicyWritten(x, d, Written(x, d))
  <1> USE DEF NodesWritten, LeasesWritten, TokensWritten, PolicyWritten
  <1> DEFINE w == Written(x, d)
  <1>t. /\ d.node \in [Nodes -> NodeRow] /\ d.lease \in [Addresses -> LeaseRow]
        /\ d.token \in [Tokens -> TokenRow] /\ d.routes \in [Nodes -> RouteStates]
        /\ d = [node |-> d.node, lease |-> d.lease, token |-> d.token,
                routes |-> d.routes, policy |-> d.policy]
    BY DEF Database
  <1>1. CASE x.op = "token"
    <2>1. w = [d EXCEPT !.token = [d.token EXCEPT ![x.args.token] = NewToken(x)]]
      BY <1>1 DEF Written, TokenCreated, NewToken
    <2> HIDE DEF w
    <2>2. /\ w.node = d.node /\ w.lease = d.lease /\ w.routes = d.routes /\ w.policy = d.policy
          /\ w.token = [d.token EXCEPT ![x.args.token] = NewToken(x)]
      BY <1>t, <2>1
    <2> QED BY <1>1, <1>t, <2>2 DEF w, On, Asked
  <1>2. CASE x.op = "enroll"
    <2> DEFINE n == x.args.node
               t == x.args.token
    <2>1. /\ w.node = [d.node EXCEPT ![n] = [[d.node[n] EXCEPT !.state = "active"]
                                                EXCEPT !.address = x.address]]
          /\ w.lease = [d.lease EXCEPT ![x.address] = [state |-> "active", node |-> {n}]]
          /\ w.token = [d.token EXCEPT ![t] = [d.token[t] EXCEPT
                                                 !.use_count = d.token[t].use_count + 1]]
          /\ w.routes = d.routes /\ w.policy = d.policy
      BY <1>2, <1>t DEF Written, Enrolled, Asked
    <2> HIDE DEF w
    <2>2. d.node[n] \in NodeRow /\ n \in Nodes /\ t \in Tokens /\ x.address \in Addresses
      BY <1>2, <1>t DEF Asked
    <2> QED BY <1>2, <1>t, <2>1, <2>2 DEF w, On, NodeRow
  <1>3. CASE x.op = "revoke"
    <2> DEFINE n == x.args.node
    <2>1. /\ w.node = [d.node EXCEPT ![n].state = "revoked"]
          /\ w.lease = [a \in Addresses |-> IF Holds(d, n, a)
                                            THEN [d.lease[a] EXCEPT !.state = "cooling"]
                                            ELSE d.lease[a]]
          /\ w.token = d.token /\ w.routes = d.routes /\ w.policy = d.policy
      BY <1>3, <1>t DEF Written, Revoked, Asked
    <2> HIDE DEF w
    <2>2. d.node[n] \in NodeRow /\ n \in Nodes
      BY <1>3, <1>t DEF Asked
    <2>3. \A a \in Addresses : [d.lease[a] EXCEPT !.state = "cooling"]
                                  = [state |-> "cooling", node |-> d.lease[a].node]
      BY <1>t DEF LeaseRow
    <2> QED BY <1>3, <1>t, <2>1, <2>2, <2>3 DEF w, On, NodeRow
  <1>4. CASE x.op = "channel"
    <2>1. /\ w.node = [d.node EXCEPT ![x.args.node].channel = x.args.channel]
          /\ w.lease = d.lease /\ w.token = d.token /\ w.routes = d.routes /\ w.policy = d.policy
      BY <1>4, <1>t DEF Written, ChannelReplaced, Asked
    <2> HIDE DEF w
    <2> QED BY <1>4, <1>t, <2>1 DEF w, On, NodeRow
  <1>5. CASE x.op = "routes"
    <2>1. /\ w.node = d.node /\ w.lease = d.lease /\ w.token = d.token /\ w.policy = d.policy
          /\ w.routes = x.args.routes
      BY <1>5, <1>t DEF Written, RoutesReplaced
    <2> HIDE DEF w
    <2> QED BY <1>5, <1>t, <2>1 DEF w, On
  <1>6. CASE x.op = "policy"
    <2>1. /\ w.node = d.node /\ w.lease = d.lease /\ w.token = d.token /\ w.routes = d.routes
          /\ w.policy = [version |-> d.policy.version + 1, members |-> x.args.members,
                         subnet |-> x.args.subnet]
      BY <1>6, <1>t DEF Written, PolicyReplaced
    <2> HIDE DEF w
    <2> QED BY <1>6, <1>t, <2>1 DEF w, On
  <1>7. CASE x.op = "candidates"
    <2>1. /\ w.node = [d.node EXCEPT ![x.args.node].generation = x.args.generation]
          /\ w.lease = d.lease /\ w.token = d.token /\ w.routes = d.routes /\ w.policy = d.policy
      BY <1>7, <1>t DEF Written, CandidatesAdvertised, Asked
    <2> HIDE DEF w
    <2> QED BY <1>7, <1>t, <2>1 DEF w, On, NodeRow
  <1>8. CASE x.op = "suggest"
    <2>1. /\ w.node = [d.node EXCEPT ![x.args.node].suggestion = x.args.generation]
          /\ w.lease = d.lease /\ w.token = d.token /\ w.routes = d.routes /\ w.policy = d.policy
      BY <1>8, <1>t DEF Written, RoutesSuggested, Asked
    <2> HIDE DEF w
    <2> QED BY <1>8, <1>t, <2>1 DEF w, On, NodeRow
  <1> QED BY <1>1, <1>2, <1>3, <1>4, <1>5, <1>6, <1>7, <1>8 DEF Ops
\* A transaction that has made all its checks holds the lock it publishes under,
\* and those that keep two of its kind apart.
LEMMA ReadyHolds ==
  ASSUME NEW x, x.op \in Ops, Locked(x), Ready(x)
  PROVE  /\ x.op \in {"token", "enroll", "revoke", "channel", "routes", "policy"} => Advisory \in x.held
         /\ x.op \in {"revoke", "candidates", "suggest"} => NodeLock(x.args.node, "update") \in x.held
         /\ Publishes(x) => Network("write") \in x.held \/ Network("update") \in x.held
  BY DEF Locked, Ready, Publishes, Ops, PublishLock

\* What one transaction has checked, another one's commit leaves as it is.
LEMMA CheckedKept ==
  ASSUME NEW d \in Database, NEW x, NEW y, x.op \in Ops, y.op \in Ops, x.at \in Nat,
         Asked(x), Asked(y), Locked(x), Locked(y), Checked(x, d), Checked(y, d), Ready(y),
         Apart(x, y)
  PROVE  Checked(x, Written(y, d))
  <1> DEFINE w == Written(y, d)
  <1>1. y.op = "enroll" => y.address \in Addresses
    BY DEF Checked, Ready
  <1>2. NodesWritten(y, d, w) /\ LeasesWritten(y, d, w) /\ TokensWritten(y, d, w)
    BY <1>1, Effects
  <1>3. /\ y.op \in {"token", "enroll", "revoke", "channel", "routes", "policy"} => Advisory \in y.held
        /\ y.op \in {"revoke", "candidates", "suggest"} => NodeLock(y.args.node, "update") \in y.held
    BY ReadyHolds
  <1>4. Advisory \in x.held => y.op \in {"candidates", "suggest"}
    BY <1>3, Excluded DEF Ops
  <1>5. \A n : NodeLock(n, "update") \in x.held =>
                  ~On(y, "revoke", n) /\ ~On(y, "candidates", n) /\ ~On(y, "suggest", n)
    BY <1>3, Excluded DEF On
  <1>t. d.token \in [Tokens -> TokenRow] /\ \A n \in Nodes : d.node[n].suggestion \in Nat
    BY StoreAssumption DEF Database, NodeRow
  <1> HIDE DEF w
  <1>l. y.op \notin {"enroll", "revoke"} => \A a \in Addresses : w.lease[a] = d.lease[a]
    BY <1>2 DEF LeasesWritten
  <1>6. ASSUME x.op = "token"
        PROVE  /\ w.token[x.args.token].max_uses = 0
               /\ x.at >= 1 /\ x.args.requested # NoAddress => Free(w, x.args.requested)
    <2>1. x.args.token \in Tokens /\ d.token[x.args.token].max_uses = 0
      BY <1>6 DEF Asked, Checked
    <2>2. y.op = "token" \/ y.op = "enroll" => y.args.token # x.args.token
      BY <1>6, <2>1 DEF Apart, Checked
    <2>3. w.token[x.args.token] = d.token[x.args.token]
      BY <1>2, <2>1, <2>2 DEF TokensWritten
    <2>4. x.at >= 1 /\ x.args.requested # NoAddress => Free(w, x.args.requested)
      BY <1>l, <1>4, <1>6 DEF Locked, Checked, Asked, Free
    <2> QED BY <2>1, <2>3, <2>4
  <1>7. ASSUME x.op = "enroll"
        PROVE  /\ w.token[x.args.token].max_uses > 0
               /\ x.at >= 2 => /\ w.node[x.args.node].state = "unknown"
                               /\ x.address \in Addresses /\ Free(w, x.address)
                               /\ w.token[x.args.token].requested \in {NoAddress, x.address}
               /\ x.at >= 3 => w.token[x.args.token].use_count < w.token[x.args.token].max_uses
    <2>1. /\ x.args.token \in Tokens /\ x.args.node \in Nodes
          /\ d.token[x.args.token].max_uses > 0 /\ d.token[x.args.token] \in TokenRow
      BY <1>7, <1>t DEF Asked, Checked
    <2>2. y.op = "token" => y.args.token # x.args.token
      <3>1. y.op = "token" => d.token[y.args.token].max_uses = 0
        BY DEF Checked
      <3> QED BY <2>1, <3>1
    <2>3. [d.token[x.args.token] EXCEPT !.use_count = d.token[x.args.token].use_count + 1].max_uses
             = d.token[x.args.token].max_uses
      BY <2>1 DEF TokenRow
    <2>4. w.token[x.args.token].max_uses = d.token[x.args.token].max_uses
      BY <1>2, <2>1, <2>2, <2>3 DEF TokensWritten
    <2>5. CASE x.at >= 2
      <3>1. y.op \in {"candidates", "suggest"}
        BY <1>4, <1>7, <2>5 DEF Locked
      <3>2. w.token[x.args.token] = d.token[x.args.token]
        BY <1>2, <2>1, <3>1 DEF TokensWritten
      <3>3. w.node[x.args.node].state = d.node[x.args.node].state
        BY <1>2, <2>1, <3>1 DEF NodesWritten, On
      <3>4. x.address \in Addresses /\ Free(w, x.address)
        BY <1>l, <1>7, <2>5, <3>1 DEF Checked, Free
      <3> QED BY <1>7, <2>5, <3>2, <3>3, <3>4 DEF Checked
    <2> QED BY <2>1, <2>4, <2>5
  <1>8. \A n \in Nodes : y.op \in {"candidates", "suggest"} => w.node[n].state = d.node[n].state
    BY <1>2 DEF NodesWritten, On
  <1>9. /\ x.op = "revoke" /\ x.at >= 2 => x.args.node \in Active(w)
        /\ x.op = "channel" /\ x.at >= 3 => x.args.node \in Active(w)
        /\ x.op = "policy" /\ x.at >= 2 => x.args.members \subseteq Active(w)
    BY <1>4, <1>8 DEF Locked, Checked, Active
  <1>10. x.op = "routes" /\ x.at >= 3 =>
            \A n \in Nodes : x.args.routes[n] # "revoked" => n \in Active(w) /\ w.node[n].suggestion > 0
    <2>1. y.op = "suggest" => y.args.generation > 0
      BY StoreAssumption DEF Asked
    <2>2. ASSUME x.op = "routes", x.at >= 3, NEW n \in Nodes, x.args.routes[n] # "revoked"
          PROVE  n \in Active(w) /\ w.node[n].suggestion > 0
      <3>1. y.op \in {"candidates", "suggest"}
        BY <1>4, <2>2 DEF Locked
      <3>2. n \in Active(d) /\ d.node[n].suggestion > 0
        BY <2>2 DEF Checked
      <3>3. n \in Active(w)
        BY <1>8, <3>1, <3>2 DEF Active
      <3>4. w.node[n].suggestion = IF On(y, "suggest", n) THEN y.args.generation
                                   ELSE d.node[n].suggestion
        BY <1>2 DEF NodesWritten
      <3> QED BY <2>1, <3>2, <3>3, <3>4 DEF On
    <2> QED BY <2>2
  <1>11. ASSUME x.op \in {"candidates", "suggest"}, x.at >= 1
         PROVE  /\ x.args.node \in Active(w)
                /\ w.node[x.args.node].generation = d.node[x.args.node].generation
                /\ w.node[x.args.node].suggestion = d.node[x.args.node].suggestion
    <2>1. x.args.node \in Nodes /\ d.node[x.args.node].state = "active"
      BY <1>11 DEF Checked, Active, Asked
    <2>2. ~On(y, "enroll", x.args.node)
      BY <2>1 DEF On, Checked, Ready
    <2>3. NodeLock(x.args.node, "update") \in x.held
      BY <1>11 DEF Locked
    <2> QED BY <1>2, <1>5, <2>1, <2>2, <2>3 DEF NodesWritten, Active
  <1> QED BY <1>6, <1>7, <1>9, <1>10, <1>11 DEF Checked, w

\* A cooldown that was over stays over, unless the address is given away.
LEMMA CooledKept ==
  ASSUME NEW d \in Database, NEW x, NEW y, y.op \in Ops, Asked(y), Checked(y, d), Ready(y),
         StillCooled(x, d)
  PROVE  StillCooled(x, Written(y, d))
  <1> DEFINE w == Written(y, d)
  <1>1. y.op = "enroll" => y.address \in Addresses /\ d.node[y.args.node].state = "unknown"
    BY DEF Checked, Ready
  <1>2. NodesWritten(y, d, w) /\ LeasesWritten(y, d, w)
    BY <1>1, Effects
  <1> HIDE DEF w
  <1>3. ASSUME NEW a \in Addresses, NEW N \in SUBSET Nodes, <<a, N>> \in x.cooled
        PROVE  /\ \E n \in N : w.node[n].state # "unknown"
               /\ w.lease[a].node = N => w.lease[a].state = "cooled"
    <2>1. PICK n \in N : d.node[n].state # "unknown"
      BY <1>3 DEF StillCooled
    <2>2. w.node[n].state # "unknown"
      BY <1>2, <2>1 DEF NodesWritten
    <2>3. d.lease[a].node = N => d.lease[a].state = "cooled"
      BY <1>3 DEF StillCooled
    <2>4. CASE y.op = "enroll" /\ a = y.address
      <3>1. w.lease[a].node = {y.args.node}
        BY <1>2, <2>4 DEF LeasesWritten
      <3>2. w.lease[a].node # N
        BY <1>1, <2>1, <2>4, <3>1
      <3> QED BY <2>1, <2>2, <3>2
    <2>5. CASE ~(y.op = "enroll" /\ a = y.address)
      <3>1. CASE y.op = "revoke" /\ Holds(d, y.args.node, a)
        <4>0. w.lease[a] = [state |-> "cooling", node |-> d.lease[a].node]
          BY <1>2, <2>5, <3>1 DEF LeasesWritten
        <4>1. w.lease[a].node = d.lease[a].node
          BY <4>0
        <4> QED BY <2>1, <2>2, <2>3, <3>1, <4>1 DEF Holds
      <3>2. CASE ~(y.op = "revoke" /\ Holds(d, y.args.node, a))
        BY <1>2, <2>1, <2>2, <2>3, <2>5, <3>2 DEF LeasesWritten
      <3> QED BY <3>1, <3>2
    <2> QED BY <2>4, <2>5
  <1> QED BY <1>3 DEF StillCooled, w

\* Two databases that an agent cannot tell apart.
SameView(d, e) ==
    /\ \A n \in Nodes : /\ d.node[n].state = e.node[n].state
                        /\ d.node[n].address = e.node[n].address
                        /\ d.node[n].generation = e.node[n].generation
                        /\ d.node[n].channel = e.node[n].channel
    /\ d.routes = e.routes /\ d.policy = e.policy

\* They publish the same configuration.
LEMMA SameViews == ASSUME NEW d, NEW e, SameView(d, e) PROVE View(d) = View(e)
  <1>1. Active(d) = Active(e)
    BY DEF Active, SameView
  <1>2. EnabledRoutes(d) = EnabledRoutes(e)
    BY <1>1 DEF EnabledRoutes, SameView
  <1>3. \A n \in Active(d) :
           [address |-> d.node[n].address, generation |-> d.node[n].generation,
            channel |-> d.node[n].channel, grouped |-> n \in d.policy.members]
           = [address |-> e.node[n].address, generation |-> e.node[n].generation,
              channel |-> e.node[n].channel, grouped |-> n \in e.policy.members]
    BY DEF Active, SameView
  <1> QED BY <1>1, <1>2, <1>3 DEF View, SameView

\* A transaction's writes show in the same way in both.
LEMMA SameWritten ==
  ASSUME NEW d \in Database, NEW e \in Database, SameView(d, e), NEW x, x.op \in Ops, Asked(x),
         x.op = "enroll" => x.address \in Addresses
  PROVE  View(Written(x, d)) = View(Written(x, e))
  <1> DEFINE v == Written(x, d)
             w == Written(x, e)
  <1>1. /\ NodesWritten(x, d, v) /\ PolicyWritten(x, d, v)
        /\ NodesWritten(x, e, w) /\ PolicyWritten(x, e, w)
    BY Effects
  <1> HIDE DEF v, w
  <1>2. SameView(v, w)
    BY <1>1 DEF SameView, NodesWritten, PolicyWritten
  <1> QED BY <1>2, SameViews DEF v, w

\* A transaction that another one's commit does not pass keeps its configuration:
\* only one of them can hold the row of the network.
LEMMA ViewKept ==
  ASSUME NEW d \in Database, NEW x, NEW y, x.op \in Ops, y.op \in Ops, Asked(x), Asked(y),
         Locked(x), Locked(y), Checked(x, d), Checked(y, d), Ready(y), Apart(x, y),
         Written(y, d) \in Database, NEW old, NEW new, ~Publishes(y) => new = old,
         ViewCurrent(x, d, old)
  PROVE  ViewCurrent(x, Written(y, d), new)
  <1>1. CASE x.view = {}
    BY <1>1 DEF ViewCurrent
  <1>2. CASE x.view # {}
    <2> DEFINE w == Written(y, d)
    <2>1. Publishes(x) /\ Ready(x)
      BY <1>2 DEF ViewCurrent
    <2>2. ~Publishes(y)
      BY <2>1, ReadyHolds, Excluded
    <2>3. y.op \in {"token", "suggest"}
      BY <2>2 DEF Publishes
    <2>4. NodesWritten(y, d, w) /\ PolicyWritten(y, d, w)
      BY <2>3, Effects
    <2>5. x.op = "enroll" => x.address \in Addresses
      BY <2>1 DEF Checked, Ready
    <2> HIDE DEF w
    <2>6. SameView(d, w)
      BY <2>3, <2>4 DEF NodesWritten, PolicyWritten, On, SameView
    <2>7. View(Written(x, d)) = View(Written(x, w))
      BY <2>5, <2>6, SameWritten DEF w
    <2> QED BY <2>1, <2>2, <2>7 DEF ViewCurrent, Published, w
  <1> QED BY <1>1, <1>2

\* The clock ends cooldowns and tokens and changes nothing else.
Later(d, e) ==
    /\ d.node = e.node /\ d.routes = e.routes /\ d.policy = e.policy
    /\ \A t \in Tokens : /\ d.token[t].max_uses = e.token[t].max_uses
                         /\ d.token[t].use_count = e.token[t].use_count
                         /\ d.token[t].requested = e.token[t].requested
    /\ \A a \in Addresses : /\ d.lease[a].node = e.lease[a].node
                            /\ \/ d.lease[a].state = e.lease[a].state
                               \/ d.lease[a].state = "cooling" /\ e.lease[a].state = "cooled"

\* The clock does no more than that.
LEMMA TimeLater == ASSUME db \in Database, TimePasses PROVE Later(db, db')
  <1>t. /\ db.lease \in [Addresses -> LeaseRow] /\ db.token \in [Tokens -> TokenRow]
        /\ db = [node |-> db.node, lease |-> db.lease, token |-> db.token,
                 routes |-> db.routes, policy |-> db.policy]
    BY DEF Database
  <1>1. CASE \E a \in Addresses : db.lease[a].state = "cooling" /\ Keep(Cooled(db, a))
    <2>1. PICK a \in Addresses : db.lease[a].state = "cooling" /\ db' = Cooled(db, a)
      BY <1>1 DEF Keep
    <2>2. /\ db'.node = db.node /\ db'.token = db.token /\ db'.routes = db.routes
          /\ db'.policy = db.policy /\ db'.lease = [db.lease EXCEPT ![a].state = "cooled"]
      BY <1>t, <2>1 DEF Cooled
    <2> QED BY <1>t, <2>1, <2>2 DEF Later, LeaseRow
  <1>2. CASE \E t \in Tokens : db.token[t].max_uses > 0 /\ Keep(Expired(db, t))
    <2>1. PICK t \in Tokens : db' = Expired(db, t)
      BY <1>2 DEF Keep
    <2>2. /\ db'.node = db.node /\ db'.lease = db.lease /\ db'.routes = db.routes
          /\ db'.policy = db.policy /\ db'.token = [db.token EXCEPT ![t].expired = TRUE]
      BY <1>t, <2>1 DEF Expired
    <2> QED BY <1>t, <2>2 DEF Later, TokenRow
  <1> QED BY <1>1, <1>2 DEF TimePasses

\* It disturbs no transaction.
LEMMA LaterKeeps ==
  ASSUME NEW d \in Database, NEW e \in Database, Later(d, e), NEW x, NEW version,
         x.op # "none" => x.op \in Ops, TransactionInv(x, d, version)
  PROVE  TransactionInv(x, e, version)
  <1> SUFFICES ASSUME x.op # "none" PROVE TransactionInv(x, e, version)
    BY DEF TransactionInv
  <1>1. /\ Asked(x) /\ Locked(x) /\ Holding(x) /\ Placed(x) /\ Checked(x, d)
        /\ StillCooled(x, d) /\ ViewCurrent(x, d, version)
    BY DEF TransactionInv
  <1>2. \A a \in Addresses : Free(d, a) => Free(e, a)
    BY DEF Free, Later
  <1>3. Active(d) = Active(e)
    BY DEF Active, Later
  <1>4. Checked(x, e)
    <2>1. x.op = "token" => Checked(x, e)
      BY <1>1, <1>2 DEF Checked, Asked, Later
    <2>2. x.op = "enroll" => Checked(x, e)
      BY <1>1, <1>2 DEF Checked, Asked, Later
    <2>3. x.op \notin {"token", "enroll"} => Checked(x, e)
      BY <1>1, <1>3 DEF Checked, Asked, Later
    <2> QED BY <2>1, <2>2, <2>3
  <1>5. StillCooled(x, e)
    BY <1>1 DEF StillCooled, Later
  <1>6. ViewCurrent(x, e, version)
    <2>1. CASE x.view = {}
      BY <2>1 DEF ViewCurrent
    <2>2. CASE x.view # {}
      <3>1. Publishes(x) /\ Ready(x)
        BY <1>1, <2>2 DEF ViewCurrent
      <3>2. x.op = "enroll" => x.address \in Addresses
        BY <1>1, <3>1 DEF Checked, Ready
      <3>3. SameView(d, e)
        BY DEF SameView, Later
      <3>4. View(Written(x, d)) = View(Written(x, e))
        BY <1>1, <3>2, <3>3, SameWritten
      <3> QED BY <1>1, <3>1, <3>4 DEF ViewCurrent, Published
    <2> QED BY <2>1, <2>2
  <1> QED BY <1>1, <1>4, <1>5, <1>6 DEF TransactionInv

\* A transaction is at the end of its script when it has made all its checks.
LEMMA Lengths ==
  ASSUME NEW x, NEW d, x.op \in Ops
  PROVE  Len(Script(x, d)) = IF x.op \in {"token", "candidates", "suggest"} THEN 2 ELSE 3
  <1>1. CASE x.op = "token"
    BY <1>1 DEF Script, TokenScript
  <1>2. CASE x.op = "enroll"
    BY <1>2 DEF Script, EnrollScript
  <1>3. CASE x.op = "revoke"
    BY <1>3 DEF Script, RevokeScript
  <1>4. CASE x.op = "channel"
    BY <1>4 DEF Script, ChannelScript
  <1>5. CASE x.op = "routes"
    BY <1>5 DEF Script, RoutesScript
  <1>6. CASE x.op = "policy"
    BY <1>6 DEF Script, PolicyScript
  <1>7. CASE x.op = "candidates"
    BY <1>7 DEF Script, CandidatesScript
  <1>8. CASE x.op = "suggest"
    BY <1>8 DEF Script, SuggestScript
  <1> QED BY <1>1, <1>2, <1>3, <1>4, <1>5, <1>6, <1>7, <1>8 DEF Ops

\* The whole invariant.
ControllerInv ==
    /\ StoreInv /\ LeasesNamed(db) /\ configuration.version \in 1..MaxVersion
    /\ tx = [r \in Requests |-> tx[r]]
    /\ \A r \in Requests : Shaped(tx[r]) /\ TransactionInv(tx[r], db, configuration.version)
    /\ \A r, s \in Requests : r # s => Apart(tx[r], tx[s])

\* A transaction that is ready to commit does what the store does in one step.
LEMMA WholeOperation ==
  ASSUME NEW x, x.op \in Ops, Asked(x), Checked(x, db), Ready(x),
         db' = Written(x, db),
         IF Publishes(x) THEN /\ configuration' = Published(Written(x, db), configuration.version + 1)
                              /\ Compiles(View(Written(x, db)))
         ELSE UNCHANGED configuration
  PROVE  StoreNext
  <1>p. Publishes(x) => Publish(Written(x, db))
    BY DEF Publish
  <1>k. ~Publishes(x) => Keep(Written(x, db))
    BY DEF Keep
  <1>1. CASE x.op = "token"
    <2>1. Keep(TokenCreated(db, x.args.token, x.args.uses, x.args.requested))
      BY <1>1, <1>k DEF Publishes, Written
    <2>2. CreateToken
      BY <1>1, <2>1 DEF Asked, Checked, Ready, CreateToken
    <2> QED BY <2>2 DEF StoreNext
  <1>2. CASE x.op = "enroll"
    <2>1. Publish(Enrolled(db, x.args.node, x.args.token, x.address))
      BY <1>2, <1>p DEF Publishes, Written
    <2>2. EnrollNode
      BY <1>2, <2>1 DEF Asked, Checked, Ready, EnrollNode
    <2> QED BY <2>2 DEF StoreNext
  <1>3. CASE x.op = "revoke"
    <2>1. Publish(Revoked(db, x.args.node))
      BY <1>3, <1>p DEF Publishes, Written
    <2>2. RevokeNode
      BY <1>3, <2>1 DEF Asked, Checked, Ready, RevokeNode
    <2> QED BY <2>2 DEF StoreNext
  <1>4. CASE x.op = "channel"
    <2>1. Publish(ChannelReplaced(db, x.args.node, x.args.channel))
      BY <1>4, <1>p DEF Publishes, Written
    <2>2. ReplaceChannel
      BY <1>4, <2>1 DEF Asked, Checked, Ready, ReplaceChannel
    <2> QED BY <2>2 DEF StoreNext
  <1>5. CASE x.op = "routes"
    <2>1. Publish(RoutesReplaced(db, x.args.routes))
      BY <1>5, <1>p DEF Publishes, Written
    <2>2. ReplaceRoutes
      BY <1>5, <2>1 DEF Asked, Checked, Ready, ReplaceRoutes
    <2> QED BY <2>2 DEF StoreNext
  <1>6. CASE x.op = "policy"
    <2>1. Publish(PolicyReplaced(db, x.args.members, x.args.subnet))
      BY <1>6, <1>p DEF Publishes, Written
    <2>2. ReplacePolicy
      BY <1>6, <2>1 DEF Asked, Checked, Ready, ReplacePolicy
    <2> QED BY <2>2 DEF StoreNext
  <1>7. CASE x.op = "candidates"
    <2>1. Publish(CandidatesAdvertised(db, x.args.node, x.args.generation))
      BY <1>7, <1>p DEF Publishes, Written
    <2>2. AdvertiseCandidates
      BY <1>7, <2>1 DEF Asked, Checked, Ready, AdvertiseCandidates
    <2> QED BY <2>2 DEF StoreNext
  <1>8. CASE x.op = "suggest"
    <2>1. Keep(RoutesSuggested(db, x.args.node, x.args.generation))
      BY <1>8, <1>k DEF Publishes, Written
    <2>2. SuggestRoutes
      BY <1>8, <2>1 DEF Asked, Checked, Ready, SuggestRoutes
    <2> QED BY <2>2 DEF StoreNext
  <1> QED BY <1>1, <1>2, <1>3, <1>4, <1>5, <1>6, <1>7, <1>8 DEF Ops

\* What the invariant says of a running transaction.
LEMMA Runs ==
  ASSUME ControllerInv, NEW r \in Requests, Running(r)
  PROVE  /\ tx[r].op \in Ops /\ tx[r].at \in Nat
         /\ Asked(tx[r]) /\ Locked(tx[r]) /\ Holding(tx[r]) /\ Placed(tx[r])
         /\ Checked(tx[r], db) /\ StillCooled(tx[r], db)
         /\ ViewCurrent(tx[r], db, configuration.version)
         /\ AtEnd(r) <=> Ready(tx[r])
  <1>1. Shaped(tx[r]) /\ TransactionInv(tx[r], db, configuration.version) /\ tx[r].op # "none"
    BY DEF ControllerInv, Running
  <1>2. tx[r].op \in Ops /\ tx[r].at \in Nat
    BY <1>1 DEF Shaped
  <1>3. AtEnd(r) <=> Ready(tx[r])
    BY <1>2, Lengths DEF AtEnd, Ready
  <1> QED BY <1>1, <1>2, <1>3 DEF TransactionInv

\* A commit is a step of the store.
LEMMA CommitStep ==
  ASSUME ControllerInv, NEW r \in Requests, Commit(r)
  PROVE  StoreNext
  <1> DEFINE x == tx[r]
  <1>1. /\ x.op \in Ops /\ Asked(x) /\ Checked(x, db) /\ Ready(x)
        /\ ViewCurrent(x, db, configuration.version)
    BY Runs DEF Commit
  <1>2. db' = Written(x, db) /\ (Publishes(x) => x.view # {})
        /\ configuration' = IF Publishes(x) THEN CHOOSE c \in x.view : TRUE ELSE configuration
    BY DEF Commit
  <1> HIDE DEF x
  <1>3. IF Publishes(x) THEN /\ configuration' = Published(Written(x, db), configuration.version + 1)
                             /\ Compiles(View(Written(x, db)))
        ELSE UNCHANGED configuration
    <2>1. CASE Publishes(x)
      <3> DEFINE c == CHOOSE c \in x.view : TRUE
      <3>1. c \in x.view
        BY <1>2, <2>1
      <3>2. c = Published(Written(x, db), configuration.version + 1) /\ Compiles(c.view)
        BY <1>1, <3>1 DEF ViewCurrent
      <3>3. configuration' = c
        BY <1>2, <2>1
      <3> HIDE DEF c
      <3>4. c.view = View(Written(x, db))
        BY <3>2 DEF Published
      <3> QED BY <2>1, <3>2, <3>3, <3>4
    <2> QED BY <1>2, <2>1
  <1> QED BY <1>1, <1>2, <1>3, WholeOperation

\* A committed operation leaves the leases of nodes that were enrolled.
LEMMA NamedKept ==
  ASSUME NEW d \in Database, LeasesNamed(d), NEW y, y.op \in Ops, Asked(y), Checked(y, d), Ready(y)
  PROVE  LeasesNamed(Written(y, d))
  <1> DEFINE w == Written(y, d)
  <1>1. y.op = "enroll" => y.address \in Addresses
    BY DEF Checked, Ready
  <1>2. NodesWritten(y, d, w) /\ LeasesWritten(y, d, w)
    BY <1>1, Effects
  <1> HIDE DEF w
  <1>3. ASSUME NEW a \in Addresses, w.lease[a].state # "free"
        PROVE  \E n \in Nodes : w.lease[a].node = {n} /\ w.node[n].state # "unknown"
    <2>1. CASE y.op = "enroll" /\ a = y.address
      <3>1. w.lease[a].node = {y.args.node} /\ y.args.node \in Nodes
        BY <1>2, <2>1 DEF LeasesWritten, Asked
      <3>2. w.node[y.args.node].state = "active"
        BY <1>2, <2>1, <3>1 DEF NodesWritten, On
      <3> QED BY <3>1, <3>2
    <2>2. CASE ~(y.op = "enroll" /\ a = y.address)
      <3>1. w.lease[a] = IF y.op = "revoke" /\ Holds(d, y.args.node, a)
                         THEN [state |-> "cooling", node |-> d.lease[a].node] ELSE d.lease[a]
        BY <1>2, <2>2 DEF LeasesWritten
      <3>2. w.lease[a].node = d.lease[a].node /\ d.lease[a].state # "free"
        BY <1>3, <3>1 DEF Holds
      <3>3. PICK n \in Nodes : d.lease[a].node = {n} /\ d.node[n].state # "unknown"
        BY <3>2 DEF LeasesNamed
      <3>4. w.node[n].state # "unknown"
        BY <1>2, <3>3 DEF NodesWritten
      <3> QED BY <3>2, <3>3, <3>4
    <2> QED BY <2>1, <2>2
  <1> QED BY <1>3 DEF LeasesNamed, w

\* Steps that leave the rows alone: they change one transaction.
LEMMA OneChanges ==
  ASSUME ControllerInv, UNCHANGED storeVars, NEW r \in Requests, NEW y,
         tx' = [tx EXCEPT ![r] = y], Shaped(y), TransactionInv(y, db, configuration.version),
         \A s \in Requests \ {r} : Apart(y, tx[s]) /\ Apart(tx[s], y)
  PROVE  ControllerInv'
  <1>1. db' = db /\ configuration' = configuration
    BY DEF storeVars
  <1>2. StoreInv'
    BY NextInv DEF ControllerInv
  <1>3. tx'[r] = y /\ \A s \in Requests \ {r} : tx'[s] = tx[s]
    BY DEF ControllerInv
  <1>4. tx' = [s \in Requests |-> tx'[s]]
    BY DEF ControllerInv
  <1>5. \A s \in Requests : Shaped(tx'[s]) /\ TransactionInv(tx'[s], db, configuration.version)
    BY <1>3 DEF ControllerInv
  <1>6. \A q, s \in Requests : q # s => Apart(tx'[q], tx'[s])
    BY <1>3 DEF ControllerInv
  <1> QED BY <1>1, <1>2, <1>4, <1>5, <1>6 DEF ControllerInv

\* A connection without a transaction disturbs nobody.
LEMMA IdleApart ==
  /\ Shaped(Idle) /\ \A d, version : TransactionInv(Idle, d, version)
  /\ \A y : Apart(Idle, y) /\ Apart(y, Idle)
  <1>1. Idle = Tx("none", <<>>, {}, 0, {}, NoAddress, {})
    BY DEF Idle, Tx
  <1>2. /\ Idle.op = "none" /\ Idle.args = <<>> /\ Idle.cooled = {} /\ Idle.at = 0 /\ Idle.held = {}
        /\ Idle.address = NoAddress /\ Idle.view = {}
    BY DEF Idle
  <1>3. Idle = Tx(Idle.op, Idle.args, Idle.cooled, Idle.at, Idle.held, Idle.address, Idle.view)
    BY <1>1, <1>2
  <1> QED BY <1>2, <1>3 DEF Shaped, TransactionInv, Apart

\* A transaction that is given up leaves nothing behind.
LEMMA RollbackInv == ASSUME ControllerInv, NEW r \in Requests, Rollback(r) PROVE ControllerInv'
  BY OneChanges, IdleApart DEF Rollback

\* The fields of a transaction.
LEMMA Fields ==
  ASSUME NEW op, NEW args, NEW cooled, NEW at, NEW held, NEW address, NEW view, NEW x,
         x = Tx(op, args, cooled, at, held, address, view)
  PROVE  /\ x.op = op /\ x.args = args /\ x.cooled = cooled /\ x.at = at /\ x.held = held
         /\ x.address = address /\ x.view = view
  BY DEF Tx

\* A transaction begins with nothing checked and nothing locked.
LEMMA BeginInv ==
  ASSUME ControllerInv, NEW r \in Requests, NEW op \in Ops, NEW args, NEW cooled,
         Begin(r, op, args, cooled), cooled \in {{}, CooledLeases(db)},
         \A x : x.op = op /\ x.args = args => Asked(x),
         op = "token" => /\ db.token[args.token].max_uses = 0
                         /\ \A s \in Requests : tx[s].op = "token" => tx[s].args.token # args.token,
         op = "enroll" => db.token[args.token].max_uses > 0
  PROVE  ControllerInv'
  <1> DEFINE y == [Idle EXCEPT !.op = op, !.args = args, !.cooled = cooled]
             asked == [Idle EXCEPT !.op = op]
             named == [asked EXCEPT !.args = args]
  <1>1. tx' = [tx EXCEPT ![r] = y] /\ UNCHANGED storeVars
    BY DEF Begin
  <1> DEFINE nothing == <<>>
  <1>i. Idle = Tx("none", nothing, {}, 0, {}, NoAddress, {})
    BY DEF Idle, Tx
  <1> HIDE DEF nothing
  <1>a. asked = Tx(op, nothing, {}, 0, {}, NoAddress, {})
    BY <1>i DEF Tx
  <1>b. y = [named EXCEPT !.cooled = cooled]
    OBVIOUS
  <1> HIDE DEF asked
  <1>c. named = Tx(op, args, {}, 0, {}, NoAddress, {})
    BY <1>a DEF Tx
  <1> HIDE DEF named, y
  <1>d. y = Tx(op, args, cooled, 0, {}, NoAddress, {})
    BY <1>b, <1>c DEF Tx
  <1>2. /\ y.op = op /\ y.args = args /\ y.cooled = cooled /\ y.at = 0 /\ y.held = {}
        /\ y.address = NoAddress /\ y.view = {}
    BY <1>d, Fields
  <1>3. Shaped(y)
    BY <1>d, <1>2 DEF Shaped, Ops
  <1>4. /\ Asked(y) /\ Locked(y) /\ Holding(y) /\ Placed(y) /\ Checked(y, db)
        /\ ViewCurrent(y, db, configuration.version)
    <2>1. Locked(y) /\ Holding(y) /\ Placed(y)
      BY <1>2 DEF Locked, Holding, Placed
    <2>2. Checked(y, db)
      BY <1>2 DEF Checked
    <2>3. ViewCurrent(y, db, configuration.version)
      BY <1>2 DEF ViewCurrent
    <2> QED BY <1>2, <2>1, <2>2, <2>3
  <1>5. StillCooled(y, db)
    <2>1. ASSUME NEW a \in Addresses, NEW N \in SUBSET Nodes, <<a, N>> \in cooled
          PROVE  /\ \E n \in N : db.node[n].state # "unknown"
                 /\ db.lease[a].node = N => db.lease[a].state = "cooled"
      <3>1. N = db.lease[a].node /\ db.lease[a].state = "cooled"
        BY <2>1 DEF CooledLeases
      <3> QED BY <3>1 DEF ControllerInv, LeasesNamed
    <2> QED BY <1>2, <2>1 DEF StillCooled
  <1>6. \A s \in Requests \ {r} : Apart(y, tx[s]) /\ Apart(tx[s], y)
    BY <1>2 DEF Apart
  <1>7. TransactionInv(y, db, configuration.version)
    BY <1>4, <1>5 DEF TransactionInv
  <1> QED BY <1>1, <1>3, <1>6, <1>7, OneChanges

\* Every operation begins with arguments of its kind.
LEMMA BeginsInv ==
  ASSUME ControllerInv, NEW r \in Requests,
         \/ BeginToken(r) \/ BeginEnroll(r) \/ BeginRevoke(r) \/ BeginChannel(r)
         \/ BeginRoutes(r) \/ BeginPolicy(r) \/ BeginCandidates(r) \/ BeginSuggest(r)
  PROVE  ControllerInv'
  <1>1. CASE BeginToken(r)
    <2>1. PICK t \in Tokens, token \in TokenRequests :
            /\ db.token[t].max_uses = 0
            /\ \A s \in Requests : tx[s].op = "token" => tx[s].args.token # t
            /\ Begin(r, "token", [token |-> t, uses |-> token.uses, requested |-> token.address],
                     CooledLeases(db))
      BY <1>1 DEF BeginToken
    <2>2. token.uses \in 1..MaxUses /\ token.address \in Addresses \cup {NoAddress}
      BY RequestsAssumption
    <2>3. \A x : x.op = "token" /\ x.args = [token |-> t, uses |-> token.uses,
                                            requested |-> token.address] => Asked(x)
      BY <2>2 DEF Asked
    <2> QED BY <2>1, <2>3, BeginInv DEF Ops
  <1>2. CASE BeginEnroll(r)
    <2>1. PICK n \in Nodes, t \in Tokens :
            /\ db.token[t].max_uses > 0
            /\ Begin(r, "enroll", [node |-> n, token |-> t], CooledLeases(db))
      BY <1>2 DEF BeginEnroll
    <2>2. \A x : x.op = "enroll" /\ x.args = [node |-> n, token |-> t] => Asked(x)
      BY DEF Asked
    <2> QED BY <2>1, <2>2, BeginInv DEF Ops
  <1>3. CASE BeginRevoke(r)
    <2>1. PICK n \in Nodes : Begin(r, "revoke", [node |-> n], {})
      BY <1>3 DEF BeginRevoke, Known
    <2>2. \A x : x.op = "revoke" /\ x.args = [node |-> n] => Asked(x)
      BY DEF Asked
    <2> QED BY <2>1, <2>2, BeginInv DEF Ops
  <1>4. CASE BeginChannel(r)
    <2>1. PICK n \in Nodes, channel \in Channels :
            Begin(r, "channel", [node |-> n, channel |-> channel, expected |-> configuration.version], {})
      BY <1>4 DEF BeginChannel, Known
    <2>2. \A x : x.op = "channel" /\ x.args = [node |-> n, channel |-> channel,
                                              expected |-> configuration.version] => Asked(x)
      BY DEF Asked
    <2> QED BY <2>1, <2>2, BeginInv DEF Ops
  <1>5. CASE BeginRoutes(r)
    <2>1. PICK routes \in RouteRequests :
            Begin(r, "routes", [routes |-> routes, expected |-> configuration.version], {})
      BY <1>5 DEF BeginRoutes
    <2>2. \A x : x.op = "routes" /\ x.args = [routes |-> routes, expected |-> configuration.version]
                   => Asked(x)
      BY RequestsAssumption DEF Asked
    <2> QED BY <2>1, <2>2, BeginInv DEF Ops
  <1>6. CASE BeginPolicy(r)
    <2>1. PICK policy \in PolicyRequests :
            Begin(r, "policy", [members |-> policy.members, subnet |-> policy.subnet,
                                expected |-> db.policy.version], {})
      BY <1>6 DEF BeginPolicy
    <2>2. policy.members \subseteq Nodes /\ policy.subnet \in BOOLEAN
      BY RequestsAssumption
    <2>3. \A x : x.op = "policy" /\ x.args = [members |-> policy.members, subnet |-> policy.subnet,
                                             expected |-> db.policy.version] => Asked(x)
      BY <2>2 DEF Asked
    <2> QED BY <2>1, <2>3, BeginInv DEF Ops
  <1>7. CASE BeginCandidates(r)
    <2>1. PICK n \in Nodes, generation \in 1..MaxGeneration :
            Begin(r, "candidates", [node |-> n, generation |-> generation], {})
      BY <1>7 DEF BeginCandidates, Known
    <2>2. \A x : x.op = "candidates" /\ x.args = [node |-> n, generation |-> generation] => Asked(x)
      BY DEF Asked
    <2> QED BY <2>1, <2>2, BeginInv DEF Ops
  <1>8. CASE BeginSuggest(r)
    <2>1. PICK n \in Nodes, generation \in 1..MaxGeneration :
            Begin(r, "suggest", [node |-> n, generation |-> generation], {})
      BY <1>8 DEF BeginSuggest, Known
    <2>2. \A x : x.op = "suggest" /\ x.args = [node |-> n, generation |-> generation] => Asked(x)
      BY DEF Asked
    <2> QED BY <2>1, <2>2, BeginInv DEF Ops
  <1> QED BY <1>1, <1>2, <1>3, <1>4, <1>5, <1>6, <1>7, <1>8

\* The next lock of a transaction.
LEMMA Wants ==
  ASSUME NEW x, NEW d
  PROVE  /\ x.op \in {"token", "revoke", "channel", "routes", "policy"} => Script(x, d)[1] = {Advisory}
         /\ x.op \in {"channel", "routes", "policy"} => Script(x, d)[2] = {Network("update")}
         /\ x.op = "enroll" => /\ Script(x, d)[1] = {TokenLock(x.args.token)}
                               /\ Script(x, d)[2] = {Advisory}
                               /\ Script(x, d)[3] = {PublishLock}
         /\ x.op = "revoke" => /\ Script(x, d)[2] = {NodeLock(x.args.node, "update")}
                               /\ Script(x, d)[3] = {PublishLock}
         /\ x.op \in {"candidates", "suggest"} => Script(x, d)[1] = {NodeLock(x.args.node, "update")}
         /\ x.op = "candidates" => Script(x, d)[2] = {PublishLock}
  BY DEF Script, TokenScript, EnrollScript, RevokeScript, ChannelScript, RoutesScript, PolicyScript,
     CandidatesScript, SuggestScript

\* The address allocate_virtual_ip finds is free, though the query goes by the time
\* the transaction began.
LEMMA NotOccupied ==
  ASSUME NEW d \in Database, NEW x, StillCooled(x, d), NEW a \in Addresses, a \notin Occupied(x, d)
  PROVE  Free(d, a)
  <1>1. d.lease[a].node \in SUBSET Nodes
    BY DEF Database, LeaseRow
  <1> QED BY <1>1 DEF Occupied, Free, StillCooled

\* A granted lock is the one the next place asks for.
LEMMA AcquiredLocked ==
  ASSUME NEW x, NEW d, x.op \in Ops, x.at \in Nat, Locked(x), NEW y, y.op = x.op, y.args = x.args,
         y.at = x.at + 1, y.held = x.held \cup Script(x, d)[x.at + 1]
  PROVE  Locked(y)
  <1>1. CASE x.op = "token"
    BY <1>1, Wants DEF Locked
  <1>2. CASE x.op = "enroll"
    BY <1>2, Wants DEF Locked
  <1>3. CASE x.op = "revoke"
    BY <1>3, Wants DEF Locked
  <1>4. CASE x.op \in {"channel", "routes", "policy"}
    BY <1>4, Wants DEF Locked
  <1>5. CASE x.op \in {"candidates", "suggest"}
    BY <1>5, Wants DEF Locked
  <1> QED BY <1>1, <1>2, <1>3, <1>4, <1>5 DEF Ops

\* Until its last lock, a transaction holds exactly those of its script.
LEMMA AcquiredHolding ==
  ASSUME NEW x, NEW d, x.op \in Ops, x.at \in Nat, Holding(x), NEW y, y.op = x.op, y.args = x.args,
         y.at = x.at + 1, y.held = x.held \cup Script(x, d)[x.at + 1]
  PROVE  Holding(y)
  <1>0. y.at # 0 /\ (y.at = 1 <=> x.at = 0) /\ (y.at = 2 <=> x.at = 1)
    OBVIOUS
  <1>1. CASE x.op = "token"
    BY <1>0, <1>1, Wants DEF Holding
  <1>2. CASE x.op = "enroll"
    BY <1>0, <1>2, Wants DEF Holding
  <1>3. CASE x.op = "revoke"
    BY <1>0, <1>3, Wants DEF Holding
  <1>4. CASE x.op \in {"channel", "routes", "policy"}
    BY <1>0, <1>4, Wants DEF Holding
  <1>5. CASE x.op \in {"candidates", "suggest"}
    BY <1>0, <1>5, Wants DEF Holding
  <1> QED BY <1>1, <1>2, <1>3, <1>4, <1>5 DEF Ops

\* A transaction that goes on has checked what its next place asks for.
LEMMA AcquiredChecked ==
  ASSUME ControllerInv, NEW x, x.op \in Ops, x.at \in Nat, Asked(x), Checked(x, db),
         StillCooled(x, db), NEW y, y.op = x.op, y.args = x.args, y.cooled = x.cooled,
         y.address = x.address, y.at = x.at + 1, Passes(y, db),
         NEW z, z.op = y.op, z.args = y.args, z.at = y.at,
         z.address = IF y.op = "enroll" /\ y.at = 2 THEN CHOOSE a \in Allocatable(y, db) : TRUE
                     ELSE y.address
  PROVE  Checked(z, db)
  <1>0. db \in Database /\ StillCooled(y, db)
    BY DEF ControllerInv, StoreInv, Typed, StillCooled
  <1>1. CASE x.op = "token"
    <2>1. y.at = 1 => x.args.requested \notin Occupied(y, db)
      BY <1>1 DEF Passes, TokenPasses
    <2>2. y.at = 1 /\ x.args.requested # NoAddress => Free(db, x.args.requested)
      BY <1>0, <1>1, <2>1, NotOccupied DEF Asked
    <2> QED BY <1>1, <2>2 DEF Checked
  <1>2. CASE x.op = "enroll"
    <2>1. EnrollPasses(y, db)
      BY <1>2 DEF Passes
    <2>2. ASSUME y.at = 2
          PROVE  /\ db.node[x.args.node].state = "unknown"
                 /\ z.address \in Addresses /\ Free(db, z.address)
                 /\ db.token[x.args.token].requested \in {NoAddress, z.address}
      <3>1. db.node[x.args.node].state = "unknown" /\ Allocatable(y, db) # {}
        BY <2>1, <2>2 DEF EnrollPasses
      <3>2. z.address \in Allocatable(y, db)
        BY <1>2, <2>2, <3>1
      <3>3. /\ z.address \in Addresses \ Occupied(y, db)
            /\ db.token[x.args.token].requested \in {NoAddress, z.address}
        BY <3>2 DEF Allocatable
      <3> QED BY <1>0, <3>1, <3>3, NotOccupied
    <2>3. y.at = 3 => db.token[x.args.token].use_count < db.token[x.args.token].max_uses
      BY <2>1 DEF EnrollPasses
    <2>4. /\ db.token[x.args.token].max_uses > 0
          /\ x.at >= 2 => /\ db.node[x.args.node].state = "unknown"
                          /\ x.address \in Addresses /\ Free(db, x.address)
                          /\ db.token[x.args.token].requested \in {NoAddress, x.address}
          /\ x.at >= 3 => db.token[x.args.token].use_count < db.token[x.args.token].max_uses
      BY <1>2 DEF Checked
    <2>5. y.at # 2 => z.address = x.address
      OBVIOUS
    <2> QED BY <1>2, <2>2, <2>3, <2>4, <2>5 DEF Checked
  <1>3. CASE x.op = "revoke"
    BY <1>3 DEF Checked, Passes, RevokePasses
  <1>4. CASE x.op = "channel"
    BY <1>4 DEF Checked, Passes, ChannelPasses
  <1>5. CASE x.op = "routes"
    BY <1>5 DEF Checked, Passes, RoutesPasses, Suggesting
  <1>6. CASE x.op = "policy"
    BY <1>6 DEF Checked, Passes, PolicyPasses
  <1>7. CASE x.op = "candidates"
    BY <1>7 DEF Checked, Passes, CandidatesPasses, Newer
  <1>8. CASE x.op = "suggest"
    BY <1>8 DEF Checked, Passes, SuggestPasses, Newer
  <1> QED BY <1>1, <1>2, <1>3, <1>4, <1>5, <1>6, <1>7, <1>8 DEF Ops

\* Who conflicts is conflicted with.
LEMMA Symmetric == \A l, m : Conflict(l, m) <=> Conflict(m, l)
  <1>1. \A l, m : {l.mode, m.mode} = {m.mode, l.mode}
    OBVIOUS
  <1> QED BY <1>1 DEF Conflict

\* A granted lock conflicts with nobody's, and what was read under it is so.
LEMMA AcquireInv == ASSUME ControllerInv, NEW r \in Requests, Acquire(r) PROVE ControllerInv'
  <1> DEFINE x == tx[r]
             y == Granted(r)
             z == Chosen(y)
  <1>0. Running(r) /\ ~AtEnd(r) /\ UNCHANGED storeVars
    BY DEF Acquire
  <1>1. /\ x.op \in Ops /\ x.at \in Nat /\ Asked(x) /\ Locked(x) /\ Checked(x, db)
        /\ StillCooled(x, db) /\ ViewCurrent(x, db, configuration.version) /\ ~Ready(x)
        /\ Holding(x) /\ Placed(x)
    BY <1>0, Runs
  <1> DEFINE counted == [x EXCEPT !.at = x.at + 1]
             held == x.held \cup Wanted(r)
  <1>2. x = Tx(x.op, x.args, x.cooled, x.at, x.held, x.address, x.view)
    BY DEF ControllerInv, Shaped
  <1>a. y = [counted EXCEPT !.held = held]
    BY DEF Granted
  <1> HIDE DEF x, held, y
  <1>b. counted = Tx(x.op, x.args, x.cooled, x.at + 1, x.held, x.address, x.view)
    BY <1>2 DEF Tx
  <1> HIDE DEF counted
  <1>3. y = Tx(x.op, x.args, x.cooled, x.at + 1, held, x.address, x.view)
    BY <1>a, <1>b DEF Tx
  <1>4. /\ y.op = x.op /\ y.args = x.args /\ y.cooled = x.cooled /\ y.at = x.at + 1
        /\ y.held = held /\ y.address = x.address /\ y.view = x.view
    BY <1>3, Fields
  <1>5. CASE ~Passes(y, db)
    <2>1. tx' = [tx EXCEPT ![r] = Idle]
      BY <1>5 DEF Acquire, y
    <2> QED BY <1>0, <2>1, OneChanges, IdleApart
  <1>6. CASE Passes(y, db)
    <2>1. tx' = [tx EXCEPT ![r] = z]
      BY <1>6 DEF Acquire, y
    <2> DEFINE address == IF y.op = "enroll" /\ y.at = 2 THEN CHOOSE a \in Allocatable(y, db) : TRUE
                          ELSE y.address
    <2>2. z = Tx(x.op, x.args, x.cooled, x.at + 1, held, address, x.view)
      <3>1. CASE y.op = "enroll" /\ y.at = 2
        <4>1. z = [y EXCEPT !.address = CHOOSE a \in Allocatable(y, db) : TRUE]
          BY <3>1 DEF Chosen
        <4>2. address = CHOOSE a \in Allocatable(y, db) : TRUE
          BY <3>1
        <4> HIDE DEF address, z
        <4>3. z = [y EXCEPT !.address = address]
          BY <4>1, <4>2
        <4> QED BY <1>3, <4>3 DEF Tx
      <3>2. CASE ~(y.op = "enroll" /\ y.at = 2)
        <4>1. z = y /\ address = y.address
          BY <3>2 DEF Chosen
        <4> QED BY <1>3, <1>4, <4>1
      <3> QED BY <3>1, <3>2
    <2> HIDE DEF address, z
    <2>3. /\ z.op = x.op /\ z.args = x.args /\ z.cooled = x.cooled /\ z.at = x.at + 1
          /\ z.held = held /\ z.address = address /\ z.view = x.view
      BY <2>2, Fields
    <2>4. Shaped(z)
      BY <1>1, <2>2, <2>3 DEF Shaped, Ops
    <2>5. Asked(z)
      BY <1>1, <2>3 DEF Asked
    <2>6. Locked(z)
      BY <1>1, <2>3, AcquiredLocked DEF Wanted, x, held
    <2>h. Holding(z)
      BY <1>1, <2>3, AcquiredHolding DEF Wanted, x, held
    <2>p. Placed(z)
      BY <1>1, <2>3 DEF Placed, Ready
    <2>7. Checked(z, db)
      BY <1>1, <1>4, <1>6, <2>3, AcquiredChecked DEF address
    <2>8. StillCooled(z, db)
      BY <1>1, <2>3 DEF StillCooled
    <2>9. ViewCurrent(z, db, configuration.version)
      BY <1>1, <2>3 DEF ViewCurrent
    <2>10. TransactionInv(z, db, configuration.version)
      BY <2>5, <2>6, <2>h, <2>p, <2>7, <2>8, <2>9 DEF TransactionInv
    <2>11. ASSUME NEW s \in Requests \ {r}
           PROVE  Apart(z, tx[s]) /\ Apart(tx[s], z)
      <3>1. Apart(x, tx[s]) /\ Apart(tx[s], x)
        BY DEF ControllerInv, x
      <3>2. \A l \in Wanted(r), m \in tx[s].held : ~Conflict(l, m)
        <4>1. CASE Running(s)
          <5>1. ~WaitsFor(r, s)
            BY DEF Acquire
          <5> QED BY <1>0, <4>1, <5>1 DEF WaitsFor
        <4>2. CASE ~Running(s)
          <5>1. tx[s] = Idle
            BY <4>2 DEF Running, ControllerInv, Shaped
          <5> QED BY <5>1 DEF Idle
        <4> QED BY <4>1, <4>2
      <3> QED BY <2>3, <3>1, <3>2, Symmetric DEF Apart, held
    <2> QED BY <1>0, <2>1, <2>4, <2>10, <2>11, OneChanges
  <1> QED BY <1>5, <1>6

\* What a transaction publishes is what it would commit.
LEMMA PublishInv ==
  ASSUME ControllerInv, NEW r \in Requests, PublishConfiguration(r) PROVE ControllerInv'
  <1> DEFINE x == tx[r]
             next == Published(Written(x, db), configuration.version + 1)
             y == [x EXCEPT !.view = {next}]
  <1>0. Running(r) /\ AtEnd(r) /\ Publishes(x) /\ UNCHANGED storeVars
    BY DEF PublishConfiguration
  <1>1. /\ x.op \in Ops /\ x.at \in Nat /\ Asked(x) /\ Locked(x) /\ Checked(x, db)
        /\ StillCooled(x, db) /\ Ready(x) /\ Holding(x) /\ Placed(x)
    BY <1>0, Runs
  <1>2. tx' = [tx EXCEPT ![r] = IF Compiles(next.view) THEN y ELSE Idle]
    BY DEF PublishConfiguration
  <1>3. CASE ~Compiles(next.view)
    BY <1>0, <1>2, <1>3, OneChanges, IdleApart
  <1>4. CASE Compiles(next.view)
    <2>1. x = Tx(x.op, x.args, x.cooled, x.at, x.held, x.address, x.view)
      BY DEF ControllerInv, Shaped
    <2>2. \A s \in Requests \ {r} : Apart(x, tx[s]) /\ Apart(tx[s], x)
      BY DEF ControllerInv
    <2>3. tx' = [tx EXCEPT ![r] = y]
      BY <1>2, <1>4
    <2> HIDE DEF x, next
    <2>4. y = Tx(x.op, x.args, x.cooled, x.at, x.held, x.address, {next})
      BY <2>1 DEF Tx
    <2> HIDE DEF y
    <2>5. /\ y.op = x.op /\ y.args = x.args /\ y.cooled = x.cooled /\ y.at = x.at
          /\ y.held = x.held /\ y.address = x.address /\ y.view = {next}
      BY <2>4, Fields
    <2>6. Shaped(y)
      BY <1>1, <2>4, <2>5 DEF Shaped, Ops
    <2>7. Asked(y) /\ Locked(y) /\ Holding(y) /\ Placed(y) /\ Checked(y, db) /\ StillCooled(y, db)
      <3>1. Asked(y)
        BY <1>1, <2>5 DEF Asked
      <3>2. Locked(y)
        BY <1>1, <2>5 DEF Locked
      <3>3. Checked(y, db)
        BY <1>1, <2>5 DEF Checked
      <3>4. StillCooled(y, db)
        BY <1>1, <2>5 DEF StillCooled
      <3>5. Holding(y)
        BY <1>1, <2>5 DEF Holding
      <3>6. next.version \in 2..MaxVersion
        <4>1. configuration.version \in 1..MaxVersion /\ configuration.version < MaxVersion
          BY DEF ControllerInv, PublishConfiguration
        <4> QED BY <4>1, RequestsAssumption DEF next, Published
      <3>7. Placed(y)
        BY <1>1, <2>5, <3>6 DEF Placed
      <3> QED BY <3>1, <3>2, <3>3, <3>4, <3>5, <3>7
    <2>8. Written(y, db) = Written(x, db)
      BY <2>5 DEF Written
    <2>9. ViewCurrent(y, db, configuration.version)
      BY <1>0, <1>1, <1>4, <2>5, <2>8 DEF ViewCurrent, Publishes, Ready, next
    <2>10. \A s \in Requests \ {r} : Apart(y, tx[s]) /\ Apart(tx[s], y)
      BY <2>2, <2>5 DEF Apart
    <2>11. TransactionInv(y, db, configuration.version)
      BY <2>7, <2>9 DEF TransactionInv
    <2> QED BY <1>0, <2>3, <2>6, <2>10, <2>11, OneChanges
  <1> QED BY <1>3, <1>4

\* A commit leaves the others what they checked and published.
LEMMA CommitInv == ASSUME ControllerInv, NEW r \in Requests, Commit(r) PROVE ControllerInv'
  <1> DEFINE y == tx[r]
  <1>1. StoreInv' /\ db \in Database /\ db' \in Database
    BY CommitStep, NextInv DEF ControllerInv, StoreInv, Typed
  <1>2. /\ y.op \in Ops /\ y.at \in Nat /\ Asked(y) /\ Locked(y) /\ Checked(y, db) /\ Ready(y)
    BY Runs DEF Commit
  <1>3. /\ db' = Written(y, db)
        /\ ~Publishes(y) => configuration' = configuration
        /\ tx' = [tx EXCEPT ![r] = Idle]
    BY DEF Commit
  <1>v. configuration'.version \in 1..MaxVersion
    <2>1. CASE Publishes(y)
      <3>1. y.view # {} /\ Placed(y) /\ configuration' = CHOOSE c \in y.view : TRUE
        BY <2>1, Runs DEF Commit
      <3>2. configuration' \in y.view
        BY <3>1
      <3> QED BY <3>1, <3>2, RequestsAssumption DEF Placed
    <2>2. CASE ~Publishes(y)
      BY <1>3, <2>2 DEF ControllerInv
    <2> QED BY <2>1, <2>2
  <1>4. LeasesNamed(db')
    BY <1>1, <1>2, <1>3, NamedKept DEF ControllerInv
  <1>5. tx'[r] = Idle /\ \A s \in Requests \ {r} : tx'[s] = tx[s]
    BY <1>3 DEF ControllerInv
  <1>6. tx' = [s \in Requests |-> tx'[s]]
    BY <1>3 DEF ControllerInv
  <1>7. ASSUME NEW s \in Requests
        PROVE  Shaped(tx'[s]) /\ TransactionInv(tx'[s], db', configuration'.version)
    <2>1. CASE s = r
      BY <1>5, <2>1, IdleApart
    <2>2. CASE s # r
      <3> DEFINE x == tx[s]
      <3>1. tx'[s] = x /\ Shaped(x) /\ Apart(x, y)
        BY <1>5, <2>2 DEF ControllerInv
      <3>2. CASE x.op = "none"
        BY <3>1, <3>2 DEF TransactionInv
      <3>3. CASE x.op # "none"
        <4>1. /\ x.op \in Ops /\ x.at \in Nat /\ Asked(x) /\ Locked(x) /\ Checked(x, db)
              /\ StillCooled(x, db) /\ ViewCurrent(x, db, configuration.version)
              /\ Holding(x) /\ Placed(x)
          BY <3>3, Runs DEF Running
        <4> DEFINE old == configuration.version
                   new == configuration'.version
        <4>2. ~Publishes(y) => new = old
          BY <1>3
        <4> HIDE DEF x, y, old, new
        <4>3. Checked(x, Written(y, db))
          BY <1>1, <1>2, <3>1, <4>1, CheckedKept
        <4>4. StillCooled(x, Written(y, db))
          BY <1>1, <1>2, <4>1, CooledKept
        <4>5. ViewCurrent(x, Written(y, db), new)
          <5>1. ViewCurrent(x, db, old)
            BY <4>1 DEF old
          <5>2. Written(y, db) \in Database
            BY <1>1, <1>3
          <5> QED BY <1>1, <1>2, <3>1, <4>1, <4>2, <5>1, <5>2, ViewKept
        <4> QED BY <1>3, <3>1, <4>1, <4>3, <4>4, <4>5 DEF TransactionInv, new
      <3> QED BY <3>2, <3>3
    <2> QED BY <2>1, <2>2
  <1>8. \A q, s \in Requests : q # s => Apart(tx'[q], tx'[s])
    BY <1>5, IdleApart DEF ControllerInv
  <1> QED BY <1>1, <1>v, <1>4, <1>6, <1>7, <1>8 DEF ControllerInv

\* Time keeps the invariant.
LEMMA ClockInv == ASSUME ControllerInv, Clock PROVE ControllerInv'
  <1>1. StoreNext
    BY DEF Clock, StoreNext
  <1>2. StoreInv' /\ db \in Database /\ db' \in Database
    BY <1>1, NextInv DEF ControllerInv, StoreInv, Typed
  <1>3. Later(db, db')
    BY <1>2, TimeLater DEF Clock
  <1>4. tx' = tx /\ configuration' = configuration
    BY DEF Clock, TimePasses, Keep
  <1>5. LeasesNamed(db')
    BY <1>3 DEF ControllerInv, LeasesNamed, Later
  <1>6. \A r \in Requests : TransactionInv(tx[r], db', configuration.version)
    <2> TAKE r \in Requests
    <2>1. Shaped(tx[r]) /\ TransactionInv(tx[r], db, configuration.version)
      BY DEF ControllerInv
    <2>2. tx[r].op # "none" => tx[r].op \in Ops
      BY <2>1 DEF Shaped
    <2> QED BY <1>2, <1>3, <2>1, <2>2, LaterKeeps
  <1> QED BY <1>2, <1>4, <1>5, <1>6 DEF ControllerInv

\* It holds of the network create_network leaves.
LEMMA ControllerInit == Init => ControllerInv
  <1> SUFFICES ASSUME Init PROVE ControllerInv
    OBVIOUS
  <1>1. StoreInv
    BY InitInv DEF Init
  <1>2. LeasesNamed(db)
    BY DEF Init, StoreInit, EmptyDatabase, LeasesNamed
  <1>v. configuration.version \in 1..MaxVersion
    BY RequestsAssumption DEF Init, StoreInit, Published
  <1>3. tx = [r \in Requests |-> Idle]
    BY DEF Init
  <1>4. tx = [r \in Requests |-> tx[r]] /\ \A r \in Requests : tx[r] = Idle
    BY <1>3
  <1> QED BY <1>1, <1>2, <1>v, <1>4, IdleApart DEF ControllerInv

\* Every step keeps the invariant.
LEMMA ControllerNext == ASSUME ControllerInv, [Next]_vars PROVE ControllerInv'
  <1>1. CASE UNCHANGED vars
    <2>1. db' = db /\ configuration' = configuration /\ tx' = tx
      BY <1>1 DEF vars
    <2>2. StoreInv'
      BY <2>1, NextInv DEF ControllerInv, storeVars
    <2> QED BY <2>1, <2>2 DEF ControllerInv
  <1>2. CASE Next
    BY <1>2, BeginsInv, AcquireInv, PublishInv, CommitInv, RollbackInv, ClockInv DEF Next
  <1> QED BY <1>1, <1>2

\* Every step is one of the store, or commits nothing.
LEMMA Simulation == ASSUME ControllerInv, [Next]_vars PROVE UNCHANGED storeVars \/ StoreNext
  <1>1. CASE UNCHANGED vars
    BY <1>1 DEF vars, storeVars
  <1>2. CASE Clock
    BY <1>2 DEF Clock, StoreNext
  <1>3. ASSUME NEW r \in Requests,
               \/ BeginToken(r) \/ BeginEnroll(r) \/ BeginRevoke(r) \/ BeginChannel(r)
               \/ BeginRoutes(r) \/ BeginPolicy(r) \/ BeginCandidates(r) \/ BeginSuggest(r)
        PROVE  UNCHANGED storeVars
    BY <1>3 DEF BeginToken, BeginEnroll, BeginRevoke, BeginChannel, BeginRoutes, BeginPolicy,
       BeginCandidates, BeginSuggest, Begin
  <1>4. ASSUME NEW r \in Requests, Acquire(r) \/ PublishConfiguration(r) \/ Rollback(r)
        PROVE  UNCHANGED storeVars
    BY <1>4 DEF Acquire, PublishConfiguration, Rollback
  <1>5. ASSUME NEW r \in Requests, Commit(r) PROVE StoreNext
    BY <1>5, CommitStep
  <1> QED BY <1>1, <1>2, <1>3, <1>4, <1>5 DEF Next

\* The transactions of service.rs, however they interleave, commit what whole
\* operations one after the other would, each with the configuration of exactly
\* the rows it leaves.
THEOREM TransactionsAtomic == Spec => ImplementsStore
  <1>1. Init => StoreInit
    BY DEF Init
  <1>2. ControllerInv /\ [Next]_vars => [UNCHANGED storeVars \/ StoreNext]_storeVars
    BY Simulation
  <1> QED BY <1>1, <1>2, ControllerInit, ControllerNext, PTL DEF Spec, ImplementsStore

\* No interleaving of enrollments and revocations gives two nodes one address.
THEOREM AddressesNeverShared == Spec => []AddressesLeased
  <1>1. ControllerInv => AddressesLeased
    BY DEF ControllerInv, StoreInv
  <1> QED BY <1>1, ControllerInit, ControllerNext, PTL DEF Spec

\* No interleaving gives an address away in its cooldown.
THEOREM CooldownHonoured == Spec => CooldownKept
  <1>1. ControllerInv /\ [Next]_vars =>
          [\A a \in Addresses : db.lease[a].state = "cooling" =>
              db'.lease[a].node = db.lease[a].node]_storeVars
    <2> SUFFICES ASSUME ControllerInv, [Next]_vars, NEW a \in Addresses, db.lease[a].state = "cooling"
                 PROVE  db'.lease[a].node = db.lease[a].node
      OBVIOUS
    <2>1. StoreInv /\ [StoreNext]_storeVars
      BY Simulation DEF ControllerInv
    <2> QED BY <2>1, CoolingKept
  <1> QED BY <1>1, ControllerInit, ControllerNext, PTL DEF Spec, CooldownKept

-----------------------------------------------------------------------------
(* Waiting. *)

\* The resources are different ones.
LEMMA Resources ==
  \A mode, n, t : /\ Advisory.resource = <<"advisory">>
                  /\ Network(mode).resource = <<"network">>
                  /\ NodeLock(n, mode).resource = <<"node", n>>
                  /\ TokenLock(t).resource = <<"token", t>>
                  /\ <<"advisory">> # <<"network">>
                  /\ <<"node", n>> # <<"token", t>>
                  /\ <<"node", n>> \notin {<<"advisory">>, <<"network">>}
                  /\ <<"token", t>> \notin {<<"advisory">>, <<"network">>}
  BY DEF Advisory, Network, NodeLock, TokenLock, Lock

\* What the last lock of an operation is on.
LEMMA WantsLast ==
  ASSUME NEW x, NEW d
  PROVE  /\ x.op \in {"token", "suggest"} => Script(x, d)[2] = {Network("key")}
         /\ x.op \in {"channel", "routes", "policy"} =>
               \A l \in Script(x, d)[3] : \E n, mode : l = NodeLock(n, mode)
  BY DEF Script, TokenScript, ChannelScript, RoutesScript, PolicyScript, SuggestScript

\* What a transaction that holds a lock may wait for.
LEMMA WaitsOn ==
  ASSUME ControllerInv, NEW r \in Requests, Running(r), ~AtEnd(r), tx[r].at >= 1, NEW l \in Wanted(r)
  PROVE  /\ \A t : l.resource # <<"token", t>>
         /\ l.resource = <<"advisory">> => tx[r].op = "enroll" /\ tx[r].at = 1
         /\ \A n : l.resource = <<"node", n>> =>
               \/ tx[r].op = "revoke" /\ tx[r].at = 1
               \/ tx[r].op \in {"channel", "routes", "policy"} /\ tx[r].at = 2
  <1> DEFINE x == tx[r]
  <1>1. x.op \in Ops /\ x.at \in Nat /\ Placed(x) /\ ~Ready(x)
    BY Runs
  <1>2. l \in Script(x, db)[x.at + 1] /\ x.at >= 1
    BY DEF Wanted
  <1> HIDE DEF x
  <1>3. x.at = 1 \/ (x.at = 2 /\ x.op \notin {"token", "candidates", "suggest"})
    BY <1>1, <1>2 DEF Placed, Ready
  <1>4. CASE x.op = "token"
    <2>1. l = Network("key")
      BY <1>2, <1>3, <1>4, WantsLast
    <2> QED BY <2>1, Resources
  <1>5. CASE x.op = "enroll"
    <2>1. IF x.at = 1 THEN l = Advisory ELSE l = PublishLock
      BY <1>2, <1>3, <1>5, Wants
    <2> QED BY <1>5, <2>1, Resources DEF PublishLock, x
  <1>6. CASE x.op = "revoke"
    <2>1. IF x.at = 1 THEN l = NodeLock(x.args.node, "update") ELSE l = PublishLock
      BY <1>2, <1>3, <1>6, Wants
    <2> QED BY <1>6, <2>1, Resources DEF PublishLock, x
  <1>7. CASE x.op \in {"channel", "routes", "policy"}
    <2>1. CASE x.at = 1
      <3>1. l = Network("update")
        BY <1>2, <1>7, <2>1, Wants
      <3> QED BY <3>1, Resources
    <2>2. CASE x.at = 2
      <3>1. \E n, mode : l = NodeLock(n, mode)
        BY <1>2, <1>7, <2>2, WantsLast
      <3> QED BY <1>7, <2>2, <3>1, Resources DEF x
    <2> QED BY <1>3, <2>1, <2>2
  <1>8. CASE x.op \in {"candidates", "suggest"}
    <2>1. \E mode : l = Network(mode)
      BY <1>2, <1>3, <1>8, Wants, WantsLast DEF PublishLock
    <2> QED BY <2>1, Resources
  <1> QED BY <1>1, <1>4, <1>5, <1>6, <1>7, <1>8 DEF Ops

\* An enrollment and a revocation that wait hold what nobody waits for who holds a
\* lock; the advisory lock keeps the others apart but for the advertisements.
LEMMA CyclesOfAdvertisements == ControllerInv => WaitCycles
  <1> SUFFICES ASSUME ControllerInv, NEW S \in SUBSET Requests, WaitCycle(S)
               PROVE  /\ \A r \in S : tx[r].op \notin {"token", "enroll", "revoke"}
                      /\ \E r \in S : tx[r].op \in {"candidates", "suggest"}
    BY DEF WaitCycles
  <1>1. \A r \in S : Running(r) /\ ~AtEnd(r) /\ tx[r].at \in Nat /\ tx[r].op \in Ops
                    /\ Holding(tx[r]) /\ Placed(tx[r]) /\ ~Ready(tx[r])
    <2> TAKE r \in S
    <2>1. Running(r) /\ ~AtEnd(r)
      BY DEF WaitCycle, WaitsFor
    <2> QED BY <2>1, Runs
  <1>2. \A r \in S : \E s \in S \ {r} : \E l \in Wanted(s), m \in tx[r].held : l.resource = m.resource
    <2> TAKE r \in S
    <2>1. PICK s \in S : WaitsFor(s, r)
      BY DEF WaitCycle
    <2> QED BY <2>1 DEF WaitsFor, Conflict
  <1>3. \A r \in S : tx[r].at >= 1
    <2> TAKE r \in S
    <2>1. tx[r].held # {}
      BY <1>2
    <2> QED BY <1>1, <2>1 DEF Holding
  <1>4. \A r \in S : tx[r].at = 1 \/ (tx[r].at = 2 /\ tx[r].op \notin {"token", "candidates", "suggest"})
    BY <1>1, <1>3 DEF Placed, Ready
  <1>5. \A r \in S : \A l \in Wanted(r) : \A t : l.resource # <<"token", t>>
    BY <1>1, <1>3, WaitsOn
  <1>6. \A r \in S : ~(tx[r].op = "enroll" /\ tx[r].at = 1)
    <2> SUFFICES ASSUME NEW r \in S, tx[r].op = "enroll", tx[r].at = 1 PROVE FALSE
      OBVIOUS
    <2>1. tx[r].held = {TokenLock(tx[r].args.token)}
      BY <1>1 DEF Holding
    <2> QED BY <1>2, <1>5, <2>1, Resources
  <1>7. \A r \in S : \A l \in Wanted(r) : l.resource # <<"advisory">>
    BY <1>1, <1>3, <1>6, WaitsOn
  <1>8. \A r \in S : \E m \in tx[r].held : \A t : m \notin {Advisory, TokenLock(t)}
    BY <1>2, <1>5, <1>7, Resources
  <1>9. \A r \in S : /\ tx[r].op \notin {"token", "enroll"}
                     /\ tx[r].op \in {"revoke", "channel", "routes", "policy"} =>
                          tx[r].at = 2 /\ Advisory \in tx[r].held
    <2> TAKE r \in S
    <2>1. tx[r].op # "token"
      BY <1>1, <1>4, <1>8 DEF Holding
    <2>2. tx[r].op # "enroll"
      BY <1>1, <1>4, <1>8 DEF Holding
    <2>3. tx[r].op \in {"revoke", "channel", "routes", "policy"} => tx[r].at = 2
      BY <1>1, <1>4, <1>8 DEF Holding
    <2>4. tx[r].op \in {"revoke", "channel", "routes", "policy"} => Advisory \in tx[r].held
      BY <1>1, <2>3 DEF Holding
    <2> QED BY <2>1, <2>2, <2>3, <2>4
  <1>10. \A r, s \in S : Advisory \in tx[r].held /\ Advisory \in tx[s].held => r = s
    BY Excluded DEF ControllerInv
  <1>11. \A r \in S : tx[r].op # "revoke"
    <2> SUFFICES ASSUME NEW r \in S, tx[r].op = "revoke" PROVE FALSE
      OBVIOUS
    <2>1. tx[r].held = {Advisory, NodeLock(tx[r].args.node, "update")} /\ Advisory \in tx[r].held
      BY <1>1, <1>9 DEF Holding
    <2>2. PICK s \in S \ {r} : \E l \in Wanted(s), m \in tx[r].held : l.resource = m.resource
      BY <1>2
    <2>3. PICK l \in Wanted(s) : l.resource = <<"node", tx[r].args.node>>
      BY <1>7, <2>1, <2>2, Resources
    <2>4. tx[s].op \in {"revoke", "channel", "routes", "policy"}
      BY <1>1, <1>3, <2>3, WaitsOn
    <2> QED BY <1>9, <1>10, <2>1, <2>4
  <1>12. \E r \in S : tx[r].op \in {"candidates", "suggest"}
    <2> SUFFICES ASSUME \A r \in S : tx[r].op \notin {"candidates", "suggest"} PROVE FALSE
      OBVIOUS
    <2>1. \A r \in S : Advisory \in tx[r].held
      <3> TAKE r \in S
      <3>1. tx[r].op \in Ops
        BY <1>1
      <3>2. tx[r].op \in {"revoke", "channel", "routes", "policy"}
        BY <1>9, <3>1 DEF Ops
      <3> QED BY <1>9, <3>2
    <2>2. PICK r \in S : TRUE
      BY DEF WaitCycle
    <2>3. PICK s \in S : s # r
      BY <1>2
    <2> QED BY <1>10, <2>1, <2>3
  <1>13. \A r \in S : tx[r].op \notin {"token", "enroll", "revoke"}
    BY <1>9, <1>11
  <1> QED BY <1>12, <1>13

\* Enrollment and revocation never wait in a cycle, and management operations
\* alone never do: the advisory lock is taken before any other but the token's.
THEOREM WaitCyclesKnown == Spec => []WaitCycles
  BY CyclesOfAdvertisements, ControllerInit, ControllerNext, PTL DEF Spec

\* The rows keep their types, a transaction its place, the version its bound.
THEOREM ControllerTypes == Spec => []TypeOK
  <1>1. ControllerInv => TypeOK
    <2> SUFFICES ASSUME ControllerInv PROVE TypeOK
      OBVIOUS
    <2>1. ASSUME NEW r \in Requests PROVE Transaction(r)
      <3>1. CASE ~Running(r)
        BY <3>1 DEF Running, ControllerInv, Shaped, Transaction
      <3>2. CASE Running(r)
        <4>1. tx[r].op \in Ops /\ tx[r].at \in Nat /\ Placed(tx[r])
          BY <3>2, Runs
        <4> DEFINE end == IF tx[r].op \in {"token", "candidates", "suggest"} THEN 2 ELSE 3
        <4>a. Len(Script(tx[r], db)) = end
          BY <4>1, Lengths
        <4>b. tx[r].at <= end /\ end \in Nat
          BY <4>1 DEF Placed
        <4> HIDE DEF end
        <4>2. tx[r].at \in 0..Len(Script(tx[r], db))
          BY <4>1, <4>a, <4>b
        <4> QED BY <4>1, <4>2 DEF Placed, Transaction
      <3> QED BY <3>1, <3>2
    <2> QED BY <2>1 DEF TypeOK, ControllerInv, StoreInv, Typed
  <1> QED BY <1>1, ControllerInit, ControllerNext, PTL DEF Spec

-----------------------------------------------------------------------------
(* The uses of the tokens. *)

EnrolledIn(d) == {n \in Nodes : d.node[n].state # "unknown"}

\* Each enrolled node is one use of one token: the nodes a token enrolled are as
\* many as it has uses.
UsesOf(d, by) == \A t \in Tokens : d.token[t].use_count = Cardinality({n \in EnrolledIn(d) : by[n] = t})

Counted(d) ==
    /\ IsFiniteSet(EnrolledIn(d))
    /\ \A t \in Tokens : d.token[t].use_count <= d.token[t].max_uses
    /\ \E by \in [EnrolledIn(d) -> Tokens] : UsesOf(d, by)

\* Operations that enroll no node and count no use.
LEMMA SameCount ==
  ASSUME NEW d, NEW e, Counted(d), EnrolledIn(e) = EnrolledIn(d),
         \A t \in Tokens : /\ e.token[t].use_count = d.token[t].use_count
                           /\ e.token[t].use_count <= e.token[t].max_uses
  PROVE  Counted(e)
  <1>1. PICK by \in [EnrolledIn(d) -> Tokens] : UsesOf(d, by)
    BY DEF Counted
  <1>2. UsesOf(e, by)
    BY <1>1 DEF UsesOf
  <1> QED BY <1>1, <1>2 DEF Counted

\* An enrollment is a new node and one more use of its token.
LEMMA OneMore ==
  ASSUME NEW d, NEW e, Counted(d), NEW n \in Nodes, n \notin EnrolledIn(d), NEW t \in Tokens,
         EnrolledIn(e) = EnrolledIn(d) \cup {n},
         \A u \in Tokens : /\ e.token[u].use_count = IF u = t THEN d.token[u].use_count + 1
                                                       ELSE d.token[u].use_count
                           /\ e.token[u].use_count <= e.token[u].max_uses
  PROVE  Counted(e)
  <1> DEFINE D == EnrolledIn(d)
             E == EnrolledIn(e)
  <1>1. PICK by \in [D -> Tokens] : UsesOf(d, by)
    BY DEF Counted
  <1> DEFINE new == [m \in E |-> IF m = n THEN t ELSE by[m]]
             of(u) == {m \in D : by[m] = u}
  <1>2. new \in [E -> Tokens] /\ \A m \in E : new[m] = IF m = n THEN t ELSE by[m]
    OBVIOUS
  <1>3. IsFiniteSet(D) /\ IsFiniteSet(E)
    BY FS_AddElement DEF Counted
  <1> HIDE DEF D, E, new
  <1>4. ASSUME NEW u \in Tokens
        PROVE  e.token[u].use_count = Cardinality({m \in E : new[m] = u})
    <2>1. d.token[u].use_count = Cardinality(of(u))
      BY <1>1 DEF UsesOf, D
    <2>2. CASE u = t
      <3>1. {m \in E : new[m] = u} = of(u) \cup {n}
        BY <1>2, <2>2 DEF D, E
      <3>2. n \notin of(u) /\ IsFiniteSet(of(u))
        BY <1>3, FS_Subset DEF D
      <3>3. Cardinality(of(u) \cup {n}) = Cardinality(of(u)) + 1
        BY <3>2, FS_AddElement
      <3> QED BY <2>1, <2>2, <3>1, <3>3
    <2>3. CASE u # t
      <3>1. {m \in E : new[m] = u} = of(u)
        BY <1>2, <2>3 DEF D, E
      <3> QED BY <2>1, <2>3, <3>1
    <2> QED BY <2>2, <2>3
  <1>5. UsesOf(e, new)
    BY <1>4 DEF UsesOf, E
  <1> QED BY <1>2, <1>3, <1>5 DEF Counted, E

\* A committed operation keeps the count.
LEMMA CountKept ==
  ASSUME NEW d \in Database, Counted(d), NEW y, y.op \in Ops, Asked(y), Checked(y, d), Ready(y)
  PROVE  Counted(Written(y, d))
  <1> DEFINE w == Written(y, d)
  <1>1. y.op = "enroll" => y.address \in Addresses
    BY DEF Checked, Ready
  <1>2. NodesWritten(y, d, w) /\ TokensWritten(y, d, w)
    BY <1>1, Effects
  <1>3. \A t \in Tokens : d.token[t] \in TokenRow /\ d.token[t].use_count <= d.token[t].max_uses
    BY DEF Database, Counted
  <1> HIDE DEF w
  <1>4. CASE y.op = "enroll"
    <2> DEFINE n == y.args.node
               t == y.args.token
    <2>1. /\ n \in Nodes /\ t \in Tokens /\ d.node[n].state = "unknown"
          /\ d.token[t].use_count < d.token[t].max_uses
      BY <1>4 DEF Asked, Checked, Ready
    <2>2. EnrolledIn(w) = EnrolledIn(d) \cup {n} /\ n \notin EnrolledIn(d)
      BY <1>2, <1>4, <2>1 DEF NodesWritten, On, EnrolledIn
    <2>3. \A u \in Tokens \ {t} : w.token[u] = d.token[u]
      BY <1>2, <1>4 DEF TokensWritten
    <2>4. w.token[t].use_count = d.token[t].use_count + 1 /\ w.token[t].max_uses = d.token[t].max_uses
      <3>1. w.token[t] = [d.token[t] EXCEPT !.use_count = d.token[t].use_count + 1]
        BY <1>2, <1>4, <2>1 DEF TokensWritten
      <3> QED BY <1>3, <2>1, <3>1 DEF TokenRow
    <2>5. d.token[t].use_count + 1 <= d.token[t].max_uses
      BY <1>3, <2>1, StoreAssumption DEF TokenRow
    <2> HIDE DEF n, t
    <2>6. Counted(w)
      BY <1>3, <2>1, <2>2, <2>3, <2>4, <2>5, OneMore
    <2> QED BY <2>6 DEF w
  <1>5. CASE y.op # "enroll"
    <2>1. EnrolledIn(w) = EnrolledIn(d)
      <3>1. y.op = "revoke" => y.args.node \in Active(d)
        BY DEF Checked, Ready
      <3> QED BY <1>2, <1>5, <3>1 DEF NodesWritten, On, EnrolledIn, Active
    <2>2. ASSUME NEW t \in Tokens
          PROVE  w.token[t].use_count = d.token[t].use_count /\ w.token[t].use_count <= w.token[t].max_uses
      <3>1. CASE y.op = "token" /\ t = y.args.token
        <4>1. w.token[t] = NewToken(y)
          BY <1>2, <3>1 DEF TokensWritten
        <4>2. d.token[t].max_uses = 0 /\ y.args.uses \in 1..MaxUses
          BY <3>1 DEF Checked, Asked
        <4>3. d.token[t].use_count = 0
          BY <1>3, <4>2, StoreAssumption DEF TokenRow
        <4> QED BY <4>1, <4>2, <4>3, StoreAssumption DEF NewToken
      <3>2. CASE ~(y.op = "token" /\ t = y.args.token)
        BY <1>2, <1>3, <1>5, <3>2 DEF TokensWritten
      <3> QED BY <3>1, <3>2
    <2>3. Counted(w)
      BY <2>1, <2>2, SameCount
    <2> QED BY <2>3 DEF w
  <1> QED BY <1>4, <1>5

\* Every step keeps the count.
LEMMA CountedNext == ASSUME ControllerInv, Counted(db), [Next]_vars PROVE Counted(db')
  <1>1. db \in Database
    BY DEF ControllerInv, StoreInv, Typed
  <1>2. CASE \E r \in Requests : Commit(r)
    <2>1. PICK r \in Requests : Commit(r)
      BY <1>2
    <2>2. /\ tx[r].op \in Ops /\ Asked(tx[r]) /\ Checked(tx[r], db) /\ Ready(tx[r])
          /\ db' = Written(tx[r], db)
      BY <2>1, Runs DEF Commit
    <2> QED BY <1>1, <2>2, CountKept
  <1>3. CASE Clock
    <2>1. Later(db, db')
      BY <1>1, <1>3, TimeLater DEF Clock
    <2>2. EnrolledIn(db') = EnrolledIn(db)
      BY <2>1 DEF Later, EnrolledIn
    <2>3. \A t \in Tokens : /\ db'.token[t].use_count = db.token[t].use_count
                            /\ db'.token[t].use_count <= db'.token[t].max_uses
      BY <2>1 DEF Later, Counted
    <2> QED BY <2>2, <2>3, SameCount
  <1>4. CASE UNCHANGED storeVars
    BY <1>4 DEF storeVars
  <1>5. ASSUME NEW r \in Requests,
               \/ BeginToken(r) \/ BeginEnroll(r) \/ BeginRevoke(r) \/ BeginChannel(r)
               \/ BeginRoutes(r) \/ BeginPolicy(r) \/ BeginCandidates(r) \/ BeginSuggest(r)
               \/ Acquire(r) \/ PublishConfiguration(r) \/ Rollback(r)
        PROVE  UNCHANGED storeVars
    BY <1>5 DEF BeginToken, BeginEnroll, BeginRevoke, BeginChannel, BeginRoutes, BeginPolicy,
       BeginCandidates, BeginSuggest, Begin, Acquire, PublishConfiguration, Rollback
  <1>6. CASE UNCHANGED vars
    BY <1>4, <1>6 DEF vars, storeVars
  <1> QED BY <1>2, <1>3, <1>4, <1>5, <1>6 DEF Next

\* No token enrolls more nodes than it may, and no enrollment goes uncounted.
THEOREM TokensCounted == Spec => []EnrollmentsCounted
  <1>1. Init => Counted(db)
    <2> SUFFICES ASSUME Init PROVE Counted(db)
      OBVIOUS
    <2>1. /\ EnrolledIn(db) = {}
          /\ \A t \in Tokens : db.token[t].use_count = 0 /\ db.token[t].max_uses = 0
      BY DEF Init, StoreInit, EmptyDatabase, EnrolledIn
    <2> DEFINE by == [n \in EnrolledIn(db) |-> CHOOSE t \in Tokens : TRUE]
    <2>2. by \in [EnrolledIn(db) -> Tokens]
      BY <2>1
    <2>3. UsesOf(db, by)
      <3>1. \A t \in Tokens : {n \in EnrolledIn(db) : by[n] = t} = {}
        BY <2>1
      <3> QED BY <2>1, <3>1, FS_EmptySet DEF UsesOf
    <2>4. IsFiniteSet(EnrolledIn(db))
      BY <2>1, FS_EmptySet
    <2>5. \A t \in Tokens : db.token[t].use_count <= db.token[t].max_uses
      BY <2>1
    <2> HIDE DEF by
    <2> QED BY <2>2, <2>3, <2>4, <2>5 DEF Counted
  <1>2. Counted(db) => EnrollmentsCounted
    BY DEF Counted, UsesOf, EnrolledIn, EnrollmentsCounted
  <1>3. ControllerInv /\ Counted(db) /\ [Next]_vars => Counted(db)'
    BY CountedNext
  <1> QED BY <1>1, <1>2, <1>3, ControllerInit, ControllerNext, PTL DEF Spec
=============================================================================
