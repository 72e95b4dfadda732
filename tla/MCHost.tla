--------------------------------- MODULE MCHost ---------------------------------
(***************************************************************************)
(* The parts of a node that share no state with one another, each checked  *)
(* on its own in one run: a behaviour picks a part and only that part      *)
(* moves, the others stay in an initial state.                             *)
(***************************************************************************)
EXTENDS LinuxNetwork, WindowsNetwork, XsnetDriver, Updates, ReplayWindowWords

VARIABLE part

hostVars == <<networkVars, windowsVars, driverVars, updateVars, vars, part>>

\* Two interfaces, one of them a gateway with and without masquerading.
SmallGateway == {[interface |-> "eth0", nat |-> TRUE], [interface |-> "eth0", nat |-> FALSE],
                 [interface |-> "eth1", nat |-> FALSE]}

\* A long queue of short packets, or a short one of long packets.
SmallLimits == {[mtu |-> 1, depth |-> 2], [mtu |-> 2, depth |-> 1]}

\* A plan without routes, as TunNetwork makes it, and one with two.
SmallPlans == {{}, {1, 2}}
SmallForeign == {{2}}

HostInit ==
    /\ part \in {"network", "windows", "driver", "updates", "replay"}
    /\ NetworkInit /\ WindowsInit /\ DriverInit /\ UpdatesInit /\ Init
    /\ part # "network" => \A d \in Devices : forwarding[d] = 0
    /\ part # "windows" => foreign = {}

HostNext ==
    /\ UNCHANGED part
    /\ \/ /\ part = "network" /\ NetworkNext
          /\ UNCHANGED <<windowsVars, driverVars, updateVars, vars>>
       \/ /\ part = "windows" /\ WindowsNext
          /\ UNCHANGED <<networkVars, driverVars, updateVars, vars>>
       \/ /\ part = "driver" /\ DriverNext
          /\ UNCHANGED <<networkVars, windowsVars, updateVars, vars>>
       \/ /\ part = "updates" /\ UpdatesNext
          /\ UNCHANGED <<networkVars, windowsVars, driverVars, vars>>
       \/ /\ part = "replay" /\ Next
          /\ UNCHANGED <<networkVars, windowsVars, driverVars, updateVars>>

HostSpec == HostInit /\ [][HostNext]_hostVars

-------------------------------------------------------------------------------
\* The words implement the set of bits: every verdict of precheck and every
\* commit, with its shifts and carries across word boundaries, is the one
\* ReplayReceiver makes, so what is proved of the set of bits (no sequence
\* accepted twice, no late one turned away) holds of the array.
ImplementsReceiver ==
    Receiver!Init /\ [][part = "replay" => Receiver!Next]_vars
===============================================================================
