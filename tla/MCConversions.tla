---------------------------- MODULE MCConversions ---------------------------
(***************************************************************************)
(* Sequence numbers (WrappingSpec) and wire formats (WireSpec) in one run: *)
(* a behaviour is either of the one or of the other.                       *)
(***************************************************************************)
EXTENDS WrappingSpec, WireSpec

Client == [ip |-> <<2560, 5>>, port |-> 5001]
Server == [ip |-> <<44032, 258>>, port |-> 144]

(* The SYN has a TCP option, the data an odd length and a zero at its end. *)
Segment(flags, doff, payload) ==
    [header |-> [TCPHeader EXCEPT !.seqno = <<65535, 65534>>, !.ackno = <<0, 769>>,
                                  !.doff = doff, !.flags = flags, !.win = 64000],
     payload |-> payload]

SomeSegments ==
    {Segment({"syn"}, 6, <<>>), Segment({"syn", "ack"}, 5, <<>>), Segment({"ack"}, 5, <<255, 7, 0>>),
     Segment({"fin", "psh", "ack"}, 5, <<1, 0>>), Segment({"rst", "syn"}, 5, <<>>)}

(* Every bit of a byte flipped alone, and some more; any length up to six  *)
(* bytes too many.                                                         *)
ByteDeltas == {1, 2, 4, 8, 16, 32, 64, 128, 254, 255}
LengthDeltas == (-62 .. 6) \ {0}

ConversionsInit == Init /\ WireInit

ConversionsNext ==
    \/ frames = 0 /\ device = "tap" /\ Advance /\ UNCHANGED wire_vars
    \/ isn = 0 /\ seqno = 0 /\ checkpoint = 0 /\ WireNext /\ UNCHANGED vars

ConversionsSpec == ConversionsInit /\ [][ConversionsNext]_<<vars, wire_vars>>
=============================================================================
