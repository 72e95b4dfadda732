------------------------- MODULE ConfigurationStore -------------------------
(***************************************************************************)
(* What the Controller promises about one network: every management       *)
(* operation and every advertisement of a node takes effect at once on     *)
(* the whole database, and each one that concerns the agents publishes the *)
(* configuration of exactly the database it leaves behind.                 *)
(* apps/controller/src/service.rs keeps that promise with the row and      *)
(* advisory locks that module Controller adds.                             *)
(*                                                                         *)
(* The network routes one subnet, which any of its nodes may offer as a    *)
(* gateway.  An advertisement is its generation: an agent gives a new      *)
(* payload a new generation.  Advertisements do not expire here.           *)
(***************************************************************************)
EXTENDS Integers, FiniteSets

CONSTANTS
    Nodes,      \* the identities that enroll
    Tokens,     \* the enrollment tokens
    Addresses,  \* the addresses of the pool that are not reserved
    MaxUses,    \* the largest max_uses of a token (named bound)
    MaxGeneration   \* the largest generation of an advertisement (named bound)

ASSUME StoreAssumption ==
    /\ Addresses \subseteq Nat \ {0}
    /\ MaxUses \in Nat \ {0}
    /\ MaxGeneration \in Nat

VARIABLES
    db,             \* the rows of the network, as last committed
    configuration   \* the newest row of configuration_versions

storeVars == <<db, configuration>>

NoAddress == 0
Channels == {"stable", "testing"}
RouteStates == {"revoked", "paused", "enabled"}

NodeRow == [state : {"unknown", "active", "revoked"}, address : Addresses \cup {NoAddress},
            generation : 0..MaxGeneration, suggestion : 0..MaxGeneration, channel : Channels]

\* A cooling lease is "cooled" once cooldown_until is past.
LeaseRow == [state : {"free", "active", "cooling", "cooled"}, node : SUBSET Nodes]

\* A token with no uses left to begin with is not created yet.
TokenRow == [max_uses : 0..MaxUses, use_count : 0..MaxUses, expired : BOOLEAN,
             requested : Addresses \cup {NoAddress}]

\* The members of the one group, and whether a rule selects the subnet.
Policy == [version : Nat, members : SUBSET Nodes, subnet : BOOLEAN]

Database == [node : [Nodes -> NodeRow], lease : [Addresses -> LeaseRow],
             token : [Tokens -> TokenRow], routes : [Nodes -> RouteStates], policy : Policy]

-----------------------------------------------------------------------------
(* What the queries read. *)

Active(d) == {n \in Nodes : d.node[n].state = "active"}

EnabledRoutes(d) == {n \in Active(d) : d.routes[n] = "enabled"}

\* The payload publish_configuration signs.
View(d) == [nodes |-> [n \in Active(d) |->
                         [address |-> d.node[n].address, generation |-> d.node[n].generation,
                          channel |-> d.node[n].channel, grouped |-> n \in d.policy.members]],
            routes |-> EnabledRoutes(d), policy |-> d.policy.version, subnet |-> d.policy.subnet]

\* AclPolicy::compile refuses a rule that selects a subnet no route leads to.
Compiles(view) == view.subnet => view.routes # {}

Published(d, version) == [version |-> version, view |-> View(d)]

Holds(d, n, a) == d.lease[a].state = "active" /\ d.lease[a].node = {n}

Free(d, a) == d.lease[a].state \in {"free", "cooled"}

-----------------------------------------------------------------------------
(* The rows each operation leaves behind.                                  *)

TokenCreated(d, t, uses, a) ==
    [d EXCEPT !.token[t] = [max_uses |-> uses, use_count |-> 0, expired |-> FALSE, requested |-> a]]

\* Mutant: the use of the token is not counted.
EnrolledUncounted(d, n, t, a) ==
    [d EXCEPT !.node[n] = [@ EXCEPT !.state = "active", !.address = a],
              !.lease[a] = [state |-> "active", node |-> {n}]]

Enrolled(d, n, t, a) ==
    [d EXCEPT !.node[n] = [@ EXCEPT !.state = "active", !.address = a],
              !.lease[a] = [state |-> "active", node |-> {n}],
              !.token[t].use_count = @ + 1]

\* Mutant: the lease of the revoked node stays active.
RevokedKeepingLease(d, n) == [d EXCEPT !.node[n].state = "revoked"]

Revoked(d, n) ==
    [d EXCEPT !.node[n].state = "revoked",
              !.lease = [a \in Addresses |-> IF Holds(d, n, a) THEN [@[a] EXCEPT !.state = "cooling"]
                                             ELSE @[a]]]

ChannelReplaced(d, n, channel) == [d EXCEPT !.node[n].channel = channel]

RoutesReplaced(d, routes) == [d EXCEPT !.routes = routes]

PolicyReplaced(d, members, subnet) ==
    [d EXCEPT !.policy = [version |-> @.version + 1, members |-> members, subnet |-> subnet]]

CandidatesAdvertised(d, n, generation) == [d EXCEPT !.node[n].generation = generation]

RoutesSuggested(d, n, generation) == [d EXCEPT !.node[n].suggestion = generation]

Cooled(d, a) == [d EXCEPT !.lease[a].state = "cooled"]

Expired(d, t) == [d EXCEPT !.token[t].expired = TRUE]

-----------------------------------------------------------------------------
(* The operations, each in one step. *)

\* The database create_network leaves: an empty network, its version 1 published.
EmptyDatabase ==
    [node |-> [n \in Nodes |-> [state |-> "unknown", address |-> NoAddress, generation |-> 0,
                                suggestion |-> 0, channel |-> "stable"]],
     lease |-> [a \in Addresses |-> [state |-> "free", node |-> {}]],
     token |-> [t \in Tokens |-> [max_uses |-> 0, use_count |-> 0, expired |-> FALSE,
                                  requested |-> NoAddress]],
     routes |-> [n \in Nodes |-> "revoked"],
     policy |-> [version |-> 1, members |-> {}, subnet |-> FALSE]]

StoreInit == /\ db = EmptyDatabase
             /\ configuration = Published(EmptyDatabase, 1)

Keep(d) == db' = d /\ UNCHANGED configuration

Publish(d) == /\ Compiles(View(d))
              /\ db' = d
              /\ configuration' = Published(d, configuration.version + 1)

CreateToken == \E t \in Tokens, uses \in 1..MaxUses, a \in Addresses \cup {NoAddress} :
    /\ db.token[t].max_uses = 0
    /\ a # NoAddress => Free(db, a)
    /\ Keep(TokenCreated(db, t, uses, a))

\* The address is any free one: which of them is not promised.
EnrollNode == \E n \in Nodes, t \in Tokens, a \in Addresses :
    /\ db.node[n].state = "unknown"
    /\ db.token[t].use_count < db.token[t].max_uses
    /\ db.token[t].requested \in {NoAddress, a}
    /\ Free(db, a)
    /\ Publish(Enrolled(db, n, t, a))

RevokeNode == \E n \in Active(db) : Publish(Revoked(db, n))

ReplaceChannel == \E n \in Active(db), channel \in Channels : Publish(ChannelReplaced(db, n, channel))

ReplaceRoutes == \E routes \in [Nodes -> RouteStates] :
    /\ \A n \in Nodes : routes[n] # "revoked" => n \in Active(db) /\ db.node[n].suggestion > 0
    /\ Publish(RoutesReplaced(db, routes))

ReplacePolicy == \E members \in SUBSET Active(db), subnet \in BOOLEAN :
    Publish(PolicyReplaced(db, members, subnet))

AdvertiseCandidates == \E n \in Active(db) :
    \E generation \in 1..MaxGeneration : /\ generation > db.node[n].generation
                            /\ Publish(CandidatesAdvertised(db, n, generation))

SuggestRoutes == \E n \in Active(db) :
    \E generation \in 1..MaxGeneration : /\ generation > db.node[n].suggestion
                            /\ Keep(RoutesSuggested(db, n, generation))

\* The clock passes a cooldown_until or an expires_at.
TimePasses == \/ \E a \in Addresses : db.lease[a].state = "cooling" /\ Keep(Cooled(db, a))
              \/ \E t \in Tokens : db.token[t].max_uses > 0 /\ Keep(Expired(db, t))

StoreNext == \/ CreateToken \/ EnrollNode \/ RevokeNode \/ ReplaceChannel \/ ReplaceRoutes
             \/ ReplacePolicy \/ AdvertiseCandidates \/ SuggestRoutes \/ TimePasses

StoreSpec == StoreInit /\ [][StoreNext]_storeVars

-----------------------------------------------------------------------------
(* Properties. *)

\* An address belongs to at most one node: the active leases are exactly the
\* addresses of the active nodes, whatever the enrollments and revocations that
\* run at the same time (persist_node, revoke_node).
AddressesLeased ==
    /\ \A n \in Active(db) : db.node[n].address \in Addresses /\ Holds(db, n, db.node[n].address)
    /\ \A a \in Addresses : db.lease[a].state = "active" =>
          \E n \in Active(db) : db.node[n].address = a /\ Holds(db, n, a)

\* An address changes hands only after its cooldown, though an enrollment
\* judges the cooldown by the time its transaction began (allocate_virtual_ip).
CooldownKept ==
    [][\A a \in Addresses : db.lease[a].state = "cooling" => db'.lease[a].node = db.lease[a].node]_storeVars
=============================================================================
