------------------------------ MODULE MCSocket ------------------------------
(* SocketSystem with values for its constants. *)
EXTENDS SocketSystem

ThreeAndNone == [e \in End |-> IF e = "client" THEN 3 ELSE 0]
WrappingIsn == [e \in End |-> IF e = "client" THEN 14 ELSE 3]
=============================================================================
