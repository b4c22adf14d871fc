------------------------------ MODULE MCNetwork -----------------------------
(* Network with values for its constants: host a and port r1 on one link,  *)
(* hosts b and c and port r2 on the other.                                 *)
EXTENDS Network

OneRouter == [r |-> <<"r1", "r2">>]
NoRoutes == [r |-> <<>>]
FiveIp == [a |-> 1, r1 |-> 0, b |-> 5, c |-> 6, r2 |-> 4]
TwoLinks == [a |-> 1, r1 |-> 1, b |-> 2, c |-> 2, r2 |-> 2]
OneNetwork == {DOMAIN FiveIp}
GatewayOf == [a |-> 0, b |-> 4, c |-> 4]

DefaultAndDirect ==
    {[prefix |-> 0, prefix_length |-> 0, next_hop |-> 1, interface |-> "r1"],
     [prefix |-> 5, prefix_length |-> 1, next_hop |-> Direct, interface |-> "r2"]}
=============================================================================
