------------------------------- MODULE Adapter ------------------------------
(***************************************************************************)
(* The filters between a TCPConnection and its datagrams: FdAdapterBase    *)
(* and TCPOverUDPSocketAdapter (tcp_helpers/fd_adapter.{hh,cc}), and       *)
(* LossyFdAdapter.                                                         *)
(*                                                                         *)
(* An address is a record of ip and port.  A payload is a sequence: the    *)
(* TCP segment in it with its ports, or nothing if it does not parse.      *)
(* Reading yields the adapter and the segment, or no segment.              *)
(***************************************************************************)
EXTENDS Naturals, Sequences

NewAdapter(source, destination, listening) ==
    [source |-> source, destination |-> destination, listening |-> listening]

no_segment(a) == [adapter |-> a, segment |-> <<>>]

(* A listening adapter settles on the sender of the first SYN. *)
opens(seg) == seg.syn /\ ~seg.rst
settle(a, source, destination) ==
    [a EXCEPT !.source = source, !.destination = destination, !.listening = FALSE]

udp_read(a, dgram) ==
    LET seg == dgram.payload[1]
        stranger == ~a.listening /\ dgram.from # a.destination
    IN  IF stranger \/ dgram.payload = <<>> \/ (a.listening /\ ~opens(seg))
        THEN no_segment(a)
        ELSE [adapter |-> IF a.listening THEN settle(a, a.source, dgram.from) ELSE a,
              segment |-> <<seg>>]

(* LossyFdAdapter decides to drop after the adapter has read. *)
lossy(got, drop) == IF drop THEN no_segment(got.adapter) ELSE got
=============================================================================
