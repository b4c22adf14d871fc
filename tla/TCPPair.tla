------------------------------- MODULE TCPPair ------------------------------
(***************************************************************************)
(* Two TCPConnections, the applications on top of them and the network     *)
(* between them.                                                           *)
(*                                                                         *)
(* The client connects; each endpoint writes Bytes[e] bytes, ends its      *)
(* stream and reads what arrives.  Byte k of an endpoint's stream is k.    *)
(* Mishaps says what may go wrong:                                         *)
(*   "lose", "duplicate", "reorder"    what the network does to segments   *)
(*   "late SYN"    a SYN, too, may be overtaken                            *)
(*   "delay"    timers run while segments are still travelling             *)
(*   "abort"    an application destroys its connection                     *)
(***************************************************************************)
EXTENDS TCPConnection

CONSTANTS Bytes,           \* how many bytes each endpoint has to send
          RecvCapacity, SendCapacity,
          Isn,             \* the initial sequence number of each endpoint
          Ticks,           \* intervals between calls of tick
          Mishaps,
          MaxInFlight,     \* bound: segments travelling to one endpoint
          MaxFaults        \* bound: segments lost, duplicated or overtaken

End == {"client", "server"}

peer(e) == CHOOSE p \in End : p # e

ASSUME PairAssumption ==
    /\ Bytes \in [End -> Nat] /\ Isn \in [End -> WrappingInt32]
    /\ RecvCapacity \in Nat /\ SendCapacity \in Nat
    /\ Ticks \subseteq Nat \ {0} /\ MaxInFlight \in Nat /\ MaxFaults \in Nat

VARIABLES conn,     \* the TCPConnection of each endpoint
          net,      \* the segments travelling to each endpoint
          faults    \* how many faults the network has made

vars == <<conn, net, faults>>

Init ==
    /\ conn = [e \in End |-> NewTCPConnection(RecvCapacity, SendCapacity, Isn[e])]
    /\ net = [e \in End |-> <<>>]
    /\ faults = 0

outbound(e) == conn[e].sender.stream

(* Endpoint e has become c, and what c wants sent is put on the network.   *)
Becomes(e, c, arriving) ==
    /\ conn' = [conn EXCEPT ![e] = [c EXCEPT !.segments_out = <<>>]]
    /\ net' = [net EXCEPT ![e] = arriving, ![peer(e)] = @ \o c.segments_out]
    /\ Len(net'[peer(e)]) <= MaxInFlight

Connect ==
    /\ conn["client"].sender.next_seqno = 0
    /\ Becomes("client", connect(conn["client"]), net["client"])
    /\ UNCHANGED faults

Running(e) == active(conn[e]) /\ conn[e].sender.next_seqno > 0

Write(e) ==
    /\ Running(e)
    /\ outbound(e).bytes_written < Bytes[e]
    /\ remaining_capacity(outbound(e)) > 0
    /\ Becomes(e, connection_write(conn[e], <<outbound(e).bytes_written + 1>>), net[e])
    /\ UNCHANGED faults

EndInputStream(e) ==
    /\ Running(e)
    /\ outbound(e).bytes_written = Bytes[e] /\ ~outbound(e).input_end
    /\ Becomes(e, end_input_stream(conn[e]), net[e])
    /\ UNCHANGED faults

Read(e) ==
    /\ buffer_size(inbound(conn[e])) > 0
    /\ conn' = [conn EXCEPT ![e].receiver.reassembler.output =
                    stream_read(@, buffer_size(@))]
    /\ UNCHANGED <<net, faults>>

Tick(e, ms) ==
    /\ Running(e)
    /\ "delay" \in Mishaps \/ \A d \in End : net[d] = <<>>
    /\ Becomes(e, connection_tick(conn[e], ms), net[e])
    /\ UNCHANGED faults

(* The destructor queues its RST in the connection that is going away, so  *)
(* nothing is sent.                                                        *)
Abort(e) ==
    /\ "abort" \in Mishaps /\ Running(e)
    /\ conn' = [conn EXCEPT ![e] = [destroy(@) EXCEPT !.segments_out = <<>>]]
    /\ UNCHANGED <<net, faults>>

Without(q, i) == SubSeq(q, 1, i - 1) \o SubSeq(q, i + 1, Len(q))

Deliver(e) ==
    /\ net[e] # <<>>
    /\ Becomes(e, segment_received(conn[e], Head(net[e])), Tail(net[e]))
    /\ UNCHANGED faults

Overtake(e, i) ==
    /\ "reorder" \in Mishaps /\ i > 1 /\ faults < MaxFaults
    /\ "late SYN" \in Mishaps \/ \A k \in 1 .. i - 1 : ~net[e][k].syn
    /\ Becomes(e, segment_received(conn[e], net[e][i]), Without(net[e], i))
    /\ faults' = faults + 1

Duplicate(e) ==
    /\ "duplicate" \in Mishaps /\ net[e] # <<>> /\ faults < MaxFaults
    /\ Becomes(e, segment_received(conn[e], Head(net[e])), net[e])
    /\ faults' = faults + 1

Lose(e) ==
    /\ "lose" \in Mishaps /\ net[e] # <<>> /\ faults < MaxFaults
    /\ net' = [net EXCEPT ![e] = Tail(@)]
    /\ faults' = faults + 1
    /\ UNCHANGED conn

Next ==
    \/ Connect
    \/ \E e \in End :
          \/ Write(e) \/ EndInputStream(e) \/ Read(e) \/ Abort(e)
          \/ \E ms \in Ticks : Tick(e, ms)
          \/ Deliver(e) \/ Duplicate(e) \/ Lose(e)
          \/ \E i \in DOMAIN net[e] : Overtake(e, i)

Spec == Init /\ [][Next]_vars

-----------------------------------------------------------------------------
(* What e's application has been given is the first part of what its peer  *)
(* wrote, in order; the stream ends only at its real end.                  *)
StreamsAreFaithful ==
    \A e \in End :
        LET in == inbound(conn[e])
        IN  /\ in.bytes_written <= outbound(peer(e)).bytes_read
            /\ in.buffers = [i \in 1 .. in.bytes_written - in.bytes_read |-> in.bytes_read + i]
            /\ in.input_end => outbound(peer(e)).input_end
                               /\ in.bytes_written = Bytes[peer(e)]

(* An acknowledgment is never false: once e believes that its whole stream *)
(* was received, it was.                                                   *)
AckedIsReceived ==
    \A e \in End :
        LET s == conn[e].sender
            in == inbound(conn[peer(e)])
        IN  /\ s.next_seqno > s.bytes_in_flight =>
                  conn[peer(e)].receiver.isn = s.isn
            /\ s.next_seqno - s.bytes_in_flight <=
                  in.bytes_written + 1 + FlagBit(in.input_end)

(* A connection that is over without a reset has delivered both streams    *)
(* completely.                                                             *)
CleanCloseIsComplete ==
    \A e \in End :
        ~active(conn[e]) /\ ~conn[e].is_rst =>
            /\ inbound(conn[e]).bytes_read = Bytes[peer(e)]
            /\ inbound(conn[peer(e)]).input_end
            /\ inbound(conn[peer(e)]).bytes_written = Bytes[e]

(* tcp_connection.hh, of _linger_after_streams_finish: stay active `for    *)
(* 10 * _cfg.rt_timeout milliseconds after both streams have ended, in     *)
(* case the remote TCPConnection doesn't know we've received its whole     *)
(* stream'.  An endpoint closes when its peer knows or when it has heard   *)
(* nothing for that long.                                                  *)
PeerKnowsBeforeClose ==
    [][\A e \in End :
          active(conn[e]) /\ ~active(conn'[e]) /\ ~conn'[e].is_rst =>
              \/ conn'[e].last_received_time = LingerTime
              \/ conn[peer(e)].sender.is_fin_received
              \/ conn[peer(e)].is_rst]_vars
=============================================================================
