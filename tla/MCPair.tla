------------------------------- MODULE MCPair -------------------------------
(* TCPPair with values for its constants. *)
EXTENDS TCPPair

TwoAndNone == [e \in End |-> IF e = "client" THEN 2 ELSE 0]
OneAndNone == [e \in End |-> IF e = "client" THEN 1 ELSE 0]
WrappingIsn == [e \in End |-> IF e = "client" THEN 14 ELSE 3]
=============================================================================
