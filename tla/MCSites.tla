------------------------------- MODULE MCSites ------------------------------
(***************************************************************************)
(* The network of the simulator, host a and port r1 on one link, hosts b   *)
(* and c and port r2 on another, and the one of lab7: a behaviour is       *)
(* either of the one or of the other.                                      *)
(***************************************************************************)
EXTENDS Lab7

AllIp == [a |-> 1, r1 |-> 0, b |-> 5, c |-> 6, r2 |-> 4,
          hc |-> 9, ci |-> 8, cx |-> 12, hs |-> 11, si |-> 10, sx |-> 13]
AllLinks == [a |-> 1, r1 |-> 1, b |-> 2, c |-> 2, r2 |-> 2,
             hc |-> 3, ci |-> 3, cx |-> 4, sx |-> 4, hs |-> 5, si |-> 5]
TwoNetworks == {{"a", "b", "c", "r1", "r2"}, {"hc", "ci", "cx", "hs", "si", "sx"}}
GatewayOf == [a |-> 0, b |-> 4, c |-> 4, hc |-> 8, hs |-> 10]
ThreeRouters == [r |-> <<"r1", "r2">>, client |-> <<"ci", "cx">>, server |-> <<"si", "sx">>]
TwoSides == [client |-> [host |-> "hc", inner |-> "ci", outer |-> "cx"],
             server |-> [host |-> "hs", inner |-> "si", outer |-> "sx"]]

To(prefix, prefix_length, next_hop, interface) ==
    [prefix |-> prefix, prefix_length |-> prefix_length, next_hop |-> next_hop,
     interface |-> interface]

DefaultAndDirect == {To(0, 0, 1, "r1"), To(5, 2, Direct, "r2")}

(* The simulator's router starts with a route that a later one of the same *)
(* length replaces; lab7's as in program_body: the own network, the        *)
(* Internet, and the other one.                                            *)
FirstRoutes ==
    [r |-> <<To(4, 2, Direct, "r1")>>,
     client |-> <<To(8, 3, Direct, "ci"), To(12, 2, Direct, "cx"), To(10, 3, 13, "cx")>>,
     server |-> <<To(10, 3, Direct, "si"), To(12, 2, Direct, "sx"), To(8, 3, 12, "sx")>>]

SitesInit == Init /\ Lab7Init

SitesNext ==
    \/ ~IsLab7 /\ Next /\ UNCHANGED lab7_vars
    \/ Lab7Next

SitesSpec ==
    /\ SitesInit /\ [][SitesNext]_<<vars, lab7_vars>>
    /\ (~IsLab7 /\ Fairness) \/ (IsLab7 /\ Lab7Fairness)
=============================================================================
