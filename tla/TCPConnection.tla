---------------------------- MODULE TCPConnection ---------------------------
(***************************************************************************)
(* libsponge/tcp_connection.{hh,cc}: a sender and a receiver joined into   *)
(* one endpoint, as operators on a record.                                 *)
(*                                                                         *)
(* _last_received_time is only compared with the linger time, so it is     *)
(* kept no further than that.                                              *)
(***************************************************************************)
EXTENDS TCPReceiver, TCPSender

CONSTANTS MaxRetxAttempts,    \* TCPConfig::MAX_RETX_ATTEMPTS
          MaxWindow           \* the largest uint16_t

ASSUME ConnectionConfigAssumption == MaxRetxAttempts \in Nat /\ MaxWindow \in Nat

LingerTime == 10 * InitialRto

NewTCPConnection(recv_capacity, send_capacity, isn) ==
    [sender |-> NewTCPSender(send_capacity, isn),
     receiver |-> NewTCPReceiver(recv_capacity),
     segments_out |-> <<>>, linger_after_streams_finish |-> TRUE, is_rst |-> FALSE,
     last_received_time |-> 0, send_fin_first |-> TRUE]

inbound(c) == stream_out(c.receiver)

active_FinUnacked(c) ==    \* mutant
    /\ ~c.is_rst
    /\ ~(eof(inbound(c)) /\ ~c.linger_after_streams_finish)
active(c) ==
    /\ ~c.is_rst
    /\ ~(c.sender.is_fin_received /\ eof(inbound(c)) /\ ~c.linger_after_streams_finish)

(* _send_ack_if_need: what the sender queued leaves with the receiver's    *)
(* acknowledgment and window.                                              *)
send_ack_if_need(c) ==
    LET ack == ackno(c.receiver)
        stamped(seg) ==
            [seg EXCEPT !.ack = (ack # none),
                        !.ackno = IF ack # none THEN ack ELSE @,
                        !.win = Smaller(MaxWindow, window_size(c.receiver))]
        out == c.sender.segments_out
    IN  [c EXCEPT !.sender.segments_out = <<>>,
                  !.segments_out = @ \o [i \in DOMAIN out |-> stamped(out[i])]]

set_rst(c) ==
    [c EXCEPT !.is_rst = TRUE,
              !.sender.stream = set_error(@),
              !.receiver.reassembler.output = set_error(@)]

send_rst_to_peer(c) ==
    set_rst([c EXCEPT
        !.sender.segments_out = <<>>,
        !.segments_out = Append(@, [EmptySegment EXCEPT !.seqno = next_seqno(c.sender),
                                                        !.rst = TRUE])])

(* The two halves take the segment in, and the connection learns who ends  *)
(* its stream first and whether it has to linger.                          *)
passive_close(sender, receiver, fin_first) ==
    sender.is_syn_received /\ eof(stream_out(receiver)) /\ ~fin_first

take_in(c, seg) ==
    LET sender == IF seg.ack THEN ack_received(c.sender, seg.ackno, seg.win) ELSE c.sender
        receiver == receiver_segment_received(c.receiver, seg)
        fin_first == c.send_fin_first /\ (receiver.fsn = none \/ eof(sender.stream))
    IN  [c EXCEPT !.sender = sender, !.receiver = receiver,
                  !.send_fin_first = fin_first,
                  !.linger_after_streams_finish =
                      @ /\ ~passive_close(sender, receiver, fin_first)]

(* What the connection answers: a keep-alive gets an empty segment; data,  *)
(* SYN and FIN get at least one.                                           *)
must_ack(seg) == length_in_sequence_space(seg) > 0

reply(c, seg) ==
    LET keep_alive == /\ ackno(c.receiver) # none
                      /\ length_in_sequence_space(seg) = 0
                      /\ seg.seqno = (ackno(c.receiver) - 1) % Modulus
        filled == IF c.sender.is_syn_received \/ seg.syn THEN fill_window(c.sender) ELSE c.sender
        answered == IF filled.segments_out = <<>> /\ must_ack(seg)
                    THEN send_empty_segment(filled) ELSE filled
    IN  send_ack_if_need([c EXCEPT !.sender = IF keep_alive
                                              THEN send_empty_segment(@)
                                              ELSE answered])

segment_received(c, seg) ==
    LET heard == [c EXCEPT !.last_received_time = 0]
        only_fin_matters == c.sender.is_fin_received /\ eof(inbound(c)) /\ c.send_fin_first
    IN  IF seg.rst THEN set_rst(heard)
        ELSE IF ~active(c) \/ (only_fin_matters /\ ~seg.fin) THEN heard
        ELSE reply(take_in(heard, seg), seg)

connection_write(c, data) ==
    send_ack_if_need([c EXCEPT !.sender =
        fill_window([@ EXCEPT !.stream = stream_write(@, data)])])

end_input_stream(c) ==
    send_ack_if_need([c EXCEPT !.sender =
        fill_window([@ EXCEPT !.stream = end_input(@)])])

connect(c) == send_ack_if_need([c EXCEPT !.sender = fill_window(@)])

(* Too many retransmissions abort the connection; otherwise the linger     *)
(* time may be over, and the sender's timer runs.                          *)
later(c, ms) == Smaller(c.last_received_time + ms, LingerTime)

connection_tick(c, ms) ==
    LET waited == c.last_received_time + ms >= LingerTime
        lingering == c.sender.is_syn_received /\ eof(inbound(c))
    IN  IF c.sender.consecutive_retrans >= MaxRetxAttempts
        THEN send_rst_to_peer(c)
        ELSE send_ack_if_need(
                [c EXCEPT !.sender = sender_tick(@, ms),
                          !.linger_after_streams_finish = @ /\ ~(lingering /\ waited),
                          !.last_received_time = later(c, ms)])

(* The destructor of a connection that is still open. *)
destroy(c) == IF active(c) THEN send_rst_to_peer(c) ELSE c
=============================================================================
