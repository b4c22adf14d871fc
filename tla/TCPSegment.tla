----------------------------- MODULE TCPSegment -----------------------------
(***************************************************************************)
(* The parts of a TCP segment the endpoints look at (tcp_helpers/          *)
(* tcp_header.hh, tcp_segment.{hh,cc}), and std::optional as `none'.       *)
(***************************************************************************)
EXTENDS WrappingIntegers, Sequences

none == -1

(* A default-constructed TCPSegment. *)
EmptySegment ==
    [seqno |-> 0, ackno |-> 0, ack |-> FALSE, rst |-> FALSE, syn |-> FALSE,
     fin |-> FALSE, win |-> 0, payload |-> <<>>]

(* SYN and FIN count for one byte each. *)
length_in_sequence_space(seg) ==
    Len(seg.payload) + (IF seg.syn THEN 1 ELSE 0) + (IF seg.fin THEN 1 ELSE 0)
=============================================================================
