---------------------------- MODULE MCController ----------------------------
(* Small instances of Controller. *)
EXTENDS Controller, TLC

MCTokenRequests == {[uses |-> 2, address |-> NoAddress], [uses |-> 1, address |-> 1]}
MCRouteRequests == {[n \in Nodes |-> IF n = gateway THEN s ELSE "revoked"] :
                       gateway \in Nodes, s \in RouteStates}
MCPolicyRequests == {[members |-> {}, subnet |-> TRUE], [members |-> Nodes, subnet |-> FALSE]}

Symmetries == Permutations(Requests) \cup Permutations(Nodes)
=============================================================================
