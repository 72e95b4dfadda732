--------------------------------- MODULE MCPaths ---------------------------------
(***************************************************************************)
(* Two agents, "a" and "b", each with a direct endpoint, and two relays.   *)
(***************************************************************************)
EXTENDS Paths

TwoRelays == <<"r", "s">>

\* Each is reached where its configuration says.
OneEach == [a |-> <<"p">>, b |-> <<"q">>]

\* The first has a second endpoint in front of the one it is reached at.
Another == [a |-> <<"x", "p">>, b |-> <<"q">>]
SmallDirectories == {OneEach, Another}
===============================================================================
