----------------------------- MODULE Controller -----------------------------
(***************************************************************************)
(* The transactions of apps/controller/src/service.rs on the rows of one   *)
(* network, under PostgreSQL's READ COMMITTED: a statement sees what was   *)
(* committed when it runs, and a transaction's own writes.  A transaction  *)
(* takes its locks one after the other, reads and checks after each,       *)
(* publishes the configuration, and commits.  HTTP requests and the        *)
(* sessions of the agents run any of them at the same time.                *)
(***************************************************************************)
EXTENDS ConfigurationStore, Sequences

CONSTANTS
    Requests,       \* the connections of the pool
    TokenRequests,  \* the tokens an operator asks for: max_uses and address
    RouteRequests,  \* the states of the routes an operator asks for
    PolicyRequests, \* the members and the rules an operator asks for
    MaxVersion      \* the largest configuration version (named bound)

ASSUME RequestsAssumption ==
    /\ TokenRequests \subseteq [uses : 1..MaxUses, address : Addresses \cup {NoAddress}]
    /\ RouteRequests \subseteq [Nodes -> RouteStates]
    /\ PolicyRequests \subseteq [members : SUBSET Nodes, subnet : BOOLEAN]
    /\ MaxVersion \in Nat \ {0}

VARIABLE tx     \* tx[r]: the transaction on connection r

vars == <<db, configuration, tx>>

-----------------------------------------------------------------------------
(* Locks: a resource and the mode it is held in.  FOR UPDATE is "update",  *)
(* an UPDATE of columns no key refers to "write", FOR SHARE "share", and   *)
(* the check of a foreign key "key".  Only a transaction's end releases.   *)

Lock(resource, mode) == [resource |-> resource, mode |-> mode]
Advisory == Lock(<<"advisory">>, "update")
Network(mode) == Lock(<<"network">>, mode)
NodeLock(n, mode) == Lock(<<"node", n>>, mode)
TokenLock(t) == Lock(<<"token", t>>, "update")

CompatibleModes == {{"key"}, {"key", "share"}, {"key", "write"}, {"share"}}

Conflict(l, m) == l.resource = m.resource /\ {l.mode, m.mode} \notin CompatibleModes

\* The nodes whose rows load_valid_subnet_suggestions locks.
Suggesting(d) == {n \in Active(d) : d.node[n].suggestion > 0}

\* Mutant: the version is only read, under the lock of a reader.
PublishLockOfReader == Network("key")

\* next_configuration_metadata updates the network's row before anything is read.
PublishLock == Network("write")

\* The lock statements of a transaction, in the order it runs them.  A foreign
\* key is checked when a row that refers to another is written; the check is left
\* out where the transaction locks the same row more strongly.
TokenScript(x) == <<{Advisory}, {Network("key")}>>
EnrollScript(x) == <<{TokenLock(x.args.token)}, {Advisory}, {PublishLock}>>

\* Mutant: the revocation relies on the locks of the rows alone.
RevokeScriptWithoutAdvisory(x) == <<{NodeLock(x.args.node, "update")}, {PublishLock}>>

RevokeScript(x) == <<{Advisory}, {NodeLock(x.args.node, "update")}, {PublishLock}>>
ChannelScript(x) == <<{Advisory}, {Network("update")}, {NodeLock(x.args.node, "update")}>>
RoutesScript(x, d) == <<{Advisory}, {Network("update")},
                        {NodeLock(n, "share") : n \in Suggesting(d)}>>
PolicyScript(x) == <<{Advisory}, {Network("update")}, {NodeLock(n, "key") : n \in x.args.members}>>
CandidatesScript(x) == <<{NodeLock(x.args.node, "update")}, {PublishLock}>>
SuggestScript(x) == <<{NodeLock(x.args.node, "update")}, {Network("key")}>>

Script(x, d) ==
    CASE x.op = "token" -> TokenScript(x)
      [] x.op = "enroll" -> EnrollScript(x)
      [] x.op = "revoke" -> RevokeScript(x)
      [] x.op = "channel" -> ChannelScript(x)
      [] x.op = "routes" -> RoutesScript(x, d)
      [] x.op = "policy" -> PolicyScript(x)
      [] x.op = "candidates" -> CandidatesScript(x)
      [] x.op = "suggest" -> SuggestScript(x)

\* args is what was asked for; address, the one an enrollment goes on with; view,
\* the configuration it has published; cooled, the cooldowns over when it began.
Idle == [op |-> "none", args |-> <<>>, cooled |-> {}, at |-> 0, held |-> {}, address |-> NoAddress,
         view |-> {}]
Running(r) == tx[r].op # "none"

AtEnd(r) == tx[r].at = Len(Script(tx[r], db))
Wanted(r) == Script(tx[r], db)[tx[r].at + 1]

WaitsFor(r, s) == /\ Running(r) /\ Running(s) /\ r # s /\ ~AtEnd(r)
                  /\ \E l \in Wanted(r), m \in tx[s].held : Conflict(l, m)

-----------------------------------------------------------------------------
(* What a transaction reads after its at-th lock. *)

\* now() is the start of the transaction: the cooldowns that had ended by then.
CooledLeases(d) == {<<a, d.lease[a].node>> : a \in {b \in Addresses : d.lease[b].state = "cooled"}}

\* Mutant: only the active leases count as occupied.
OccupiedByActive(x, d) == {a \in Addresses : d.lease[a].state = "active"}

Occupied(x, d) == {a \in Addresses : d.lease[a].state # "free" /\ <<a, d.lease[a].node>> \notin x.cooled}

\* The addresses allocate_virtual_ip may return: the requested one, or the first.
Allocatable(x, d) ==
    LET requested == d.token[x.args.token].requested
        free == Addresses \ Occupied(x, d)
    IN IF requested # NoAddress THEN {requested} \cap free
       ELSE {a \in free : \A b \in free : a <= b}

TokenUsable(d, t) == /\ d.token[t].max_uses > 0 /\ ~d.token[t].expired
                     /\ d.token[t].use_count < d.token[t].max_uses

\* An equal generation is a duplicate, a lower one a conflict: both end the transaction.
Newer(generation, current) == generation > current

TokenPasses(x, d) == x.at = 1 => x.args.requested \notin Occupied(x, d)
EnrollPasses(x, d) ==
    /\ x.at = 1 => TokenUsable(d, x.args.token)
    /\ x.at = 2 => d.node[x.args.node].state = "unknown" /\ Allocatable(x, d) # {}
    /\ x.at = 3 => d.token[x.args.token].use_count < d.token[x.args.token].max_uses
RevokePasses(x, d) == x.at = 2 => x.args.node \in Active(d)
ChannelPasses(x, d) == /\ x.at = 2 => configuration.version = x.args.expected
                       /\ x.at = 3 => x.args.node \in Active(d)
RoutesPasses(x, d) ==
    /\ x.at = 2 => configuration.version = x.args.expected
    /\ x.at = 3 => /\ \A n \in Nodes : x.args.routes[n] # "revoked" => n \in Suggesting(d)
                   /\ Compiles(View(RoutesReplaced(d, x.args.routes)))
PolicyPasses(x, d) == x.at = 2 => /\ d.policy.version = x.args.expected
                                  /\ x.args.members \subseteq Active(d)
                                  /\ Compiles(View(PolicyReplaced(d, x.args.members, x.args.subnet)))
CandidatesPasses(x, d) == x.at = 1 => /\ x.args.node \in Active(d)
                                      /\ Newer(x.args.generation, d.node[x.args.node].generation)
SuggestPasses(x, d) == x.at = 1 => /\ x.args.node \in Active(d)
                                   /\ Newer(x.args.generation, d.node[x.args.node].suggestion)

Passes(x, d) ==
    CASE x.op = "token" -> TokenPasses(x, d)
      [] x.op = "enroll" -> EnrollPasses(x, d)
      [] x.op = "revoke" -> RevokePasses(x, d)
      [] x.op = "channel" -> ChannelPasses(x, d)
      [] x.op = "routes" -> RoutesPasses(x, d)
      [] x.op = "policy" -> PolicyPasses(x, d)
      [] x.op = "candidates" -> CandidatesPasses(x, d)
      [] x.op = "suggest" -> SuggestPasses(x, d)

\* The database with a transaction's writes.
Written(x, d) ==
    CASE x.op = "token" -> TokenCreated(d, x.args.token, x.args.uses, x.args.requested)
      [] x.op = "enroll" -> Enrolled(d, x.args.node, x.args.token, x.address)
      [] x.op = "revoke" -> Revoked(d, x.args.node)
      [] x.op = "channel" -> ChannelReplaced(d, x.args.node, x.args.channel)
      [] x.op = "routes" -> RoutesReplaced(d, x.args.routes)
      [] x.op = "policy" -> PolicyReplaced(d, x.args.members, x.args.subnet)
      [] x.op = "candidates" -> CandidatesAdvertised(d, x.args.node, x.args.generation)
      [] x.op = "suggest" -> RoutesSuggested(d, x.args.node, x.args.generation)

Publishes(x) == x.op \notin {"token", "suggest"}

-----------------------------------------------------------------------------
(* The steps. *)

Begin(r, op, args, cooled) ==
    /\ ~Running(r)
    /\ tx' = [tx EXCEPT ![r] = [Idle EXCEPT !.op = op, !.args = args, !.cooled = cooled]]
    /\ UNCHANGED storeVars

\* The token is drawn at random: no other transaction has drawn it.
BeginToken(r) == \E t \in Tokens, token \in TokenRequests :
    /\ db.token[t].max_uses = 0
    /\ \A s \in Requests : tx[s].op = "token" => tx[s].args.token # t
    /\ Begin(r, "token", [token |-> t, uses |-> token.uses, requested |-> token.address],
             CooledLeases(db))

BeginEnroll(r) == \E n \in Nodes, t \in Tokens :
    /\ db.token[t].max_uses > 0
    /\ Begin(r, "enroll", [node |-> n, token |-> t], CooledLeases(db))

\* An operator and an agent know the nodes that were enrolled, revoked ones too.
Known == {n \in Nodes : db.node[n].state # "unknown"}

BeginRevoke(r) == \E n \in Known : Begin(r, "revoke", [node |-> n], {})

BeginChannel(r) == \E n \in Known, channel \in Channels :
    Begin(r, "channel", [node |-> n, channel |-> channel, expected |-> configuration.version], {})

BeginRoutes(r) == \E routes \in RouteRequests :
    /\ \A n \in Nodes \ Known : routes[n] = "revoked"
    /\ Begin(r, "routes", [routes |-> routes, expected |-> configuration.version], {})

BeginPolicy(r) == \E policy \in PolicyRequests :
    /\ policy.members \subseteq Known
    /\ Begin(r, "policy", [members |-> policy.members, subnet |-> policy.subnet,
                           expected |-> db.policy.version], {})

BeginCandidates(r) == \E n \in Known, generation \in 1..MaxGeneration :
    Begin(r, "candidates", [node |-> n, generation |-> generation], {})

BeginSuggest(r) == \E n \in Known, generation \in 1..MaxGeneration :
    Begin(r, "suggest", [node |-> n, generation |-> generation], {})

\* A lock is granted once no other transaction holds one in conflict with it.
Granted(r) == LET x == tx[r] IN [x EXCEPT !.at = @ + 1, !.held = @ \cup Wanted(r)]

\* The address an enrollment goes on with.
Chosen(x) == IF x.op = "enroll" /\ x.at = 2
             THEN [x EXCEPT !.address = CHOOSE a \in Allocatable(x, db) : TRUE] ELSE x

Acquire(r) == /\ Running(r) /\ ~AtEnd(r)
              /\ \A s \in Requests : ~WaitsFor(r, s)
              /\ LET x == Granted(r)
                 IN tx' = [tx EXCEPT ![r] = IF Passes(x, db) THEN Chosen(x) ELSE Idle]
              /\ UNCHANGED storeVars

\* publish_configuration reads the whole network with the version it has just taken.
PublishConfiguration(r) ==
    /\ Running(r) /\ AtEnd(r) /\ Publishes(tx[r]) /\ tx[r].view = {}
    /\ configuration.version < MaxVersion
    /\ LET next == Published(Written(tx[r], db), configuration.version + 1)
       IN tx' = [tx EXCEPT ![r] = IF Compiles(next.view) THEN [@ EXCEPT !.view = {next}] ELSE Idle]
    /\ UNCHANGED storeVars

Commit(r) == /\ Running(r) /\ AtEnd(r)
             /\ Publishes(tx[r]) => tx[r].view # {}
             /\ db' = Written(tx[r], db)
             /\ configuration' = IF Publishes(tx[r]) THEN CHOOSE c \in tx[r].view : TRUE
                                 ELSE configuration
             /\ tx' = [tx EXCEPT ![r] = Idle]

\* The victim of a wait cycle, a request its client gave up, a lost connection.
Rollback(r) == /\ Running(r)
               /\ tx' = [tx EXCEPT ![r] = Idle]
               /\ UNCHANGED storeVars

Clock == /\ TimePasses
         /\ UNCHANGED tx

Init == /\ StoreInit
        /\ tx = [r \in Requests |-> Idle]

Next == \/ \E r \in Requests :
             \/ BeginToken(r) \/ BeginEnroll(r) \/ BeginRevoke(r) \/ BeginChannel(r)
             \/ BeginRoutes(r) \/ BeginPolicy(r) \/ BeginCandidates(r) \/ BeginSuggest(r)
             \/ Acquire(r) \/ PublishConfiguration(r) \/ Commit(r) \/ Rollback(r)
        \/ Clock

Spec == Init /\ [][Next]_vars
-----------------------------------------------------------------------------
(* Properties. *)

Transaction(r) ==
    \/ tx[r] = Idle
    \/ /\ tx[r].at \in 0..Len(Script(tx[r], db))
       /\ \A c \in tx[r].view : c.version \in 2..MaxVersion

\* The rows keep their types, and a transaction its place in its script.
TypeOK == /\ db \in Database
          /\ configuration.version \in 1..MaxVersion
          /\ \A r \in Requests : Transaction(r)

\* No token enrolls more nodes than its max_uses, and every enrolled node was
\* counted (locked_token, consume_token).
EnrollmentsCounted ==
    LET used(t) == db.token[t].use_count
        enrolled == {n \in Nodes : db.node[n].state # "unknown"}
    IN /\ \A t \in Tokens : used(t) <= db.token[t].max_uses
       /\ \E by \in [enrolled -> Tokens] :
             \A t \in Tokens : used(t) = Cardinality({n \in enrolled : by[n] = t})

\* A set of transactions each of which waits for another of the set, and is waited for.
WaitCycle(S) == S # {} /\ \A r \in S : /\ \E s \in S : WaitsFor(r, s)
                                       /\ \E s \in S : WaitsFor(s, r)

\* replace_node_update_channel, replace_subnet_routes and replace_acl_policy lock
\* the network before a node, an advertisement the node before the network: these
\* can wait for each other until PostgreSQL ends one.  Enrollment and revocation
\* are never among them, and management operations alone never wait in a cycle.
WaitCycles ==
    \A S \in SUBSET Requests : WaitCycle(S) =>
        /\ \A r \in S : tx[r].op \notin {"token", "enroll", "revoke"}
        /\ \E r \in S : tx[r].op \in {"candidates", "suggest"}

\* Whatever the interleaving, the transactions have the effect of whole
\* operations one after the other, and the newest configuration is exactly that
\* of the committed rows (publish_configuration takes the network's row first).
\* This is StoreSpec, with the steps that commit nothing named first.
ImplementsStore == StoreInit /\ [][UNCHANGED storeVars \/ StoreNext]_storeVars

\* An active node can always be revoked: the configuration without it compiles.
RevocationPublishes ==
    \A r \in Requests : Running(r) /\ tx[r].op = "revoke" /\ AtEnd(r) =>
        Compiles(View(Written(tx[r], db)))
=============================================================================
