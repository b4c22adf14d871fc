------------------------------ MODULE TCPSender -----------------------------
(***************************************************************************)
(* libsponge/tcp_sender.{hh,cc}, as operators on a record.                 *)
(*                                                                         *)
(* Each queued segment of the code carries a timeout and a start time, but *)
(* they are only read for the front one and are set afresh whenever a      *)
(* segment becomes the front: `rto' is the front's timeout and `age' the   *)
(* time since its timer started.                                           *)
(***************************************************************************)
EXTENDS ByteStream, TCPSegment

CONSTANTS InitialRto,        \* _initial_retransmission_timeout
          MaxPayloadSize     \* TCPConfig::MAX_PAYLOAD_SIZE

ASSUME SenderConfigAssumption ==
    InitialRto \in Nat \ {0} /\ MaxPayloadSize \in Nat \ {0}

NewTCPSender(capacity, isn) ==
    [isn |-> isn, stream |-> NewByteStream(capacity), segments_out |-> <<>>,
     is_syn_received |-> FALSE, is_fin_received |-> FALSE,
     consecutive_retrans |-> 0, window_size |-> 1, is_window_zero |-> FALSE,
     bytes_in_flight |-> 0, seg_queue |-> <<>>, next_seqno |-> 0,
     rto |-> InitialRto, age |-> 0]

next_seqno(s) == wrap(s.next_seqno, s.isn)

FlagBit(b) == IF b THEN 1 ELSE 0

(* The segments for `data', cut at MaxPayloadSize.  SYN, set before the    *)
(* loop, stays set on every piece; FIN is moved to the last one.           *)
piece_seqno_Same(s, i, syn) == wrap(s.next_seqno, s.isn)    \* mutant
piece_seqno(s, i, syn) ==
    wrap(s.next_seqno + (i - 1) * (MaxPayloadSize + FlagBit(syn)), s.isn)

needs_syn(s) == ~s.is_syn_received

make_segments(s, data, fin) ==
    LET pieces == IF data = <<>> THEN 1 ELSE (Len(data) + MaxPayloadSize - 1) \div MaxPayloadSize
        from(i) == (i - 1) * MaxPayloadSize
    IN  [i \in 1 .. pieces |->
            [EmptySegment EXCEPT
                !.seqno = piece_seqno(s, i, needs_syn(s)),
                !.syn = needs_syn(s),
                !.fin = fin /\ i = pieces,
                !.payload = SubSeq(data, from(i) + 1,
                                   Smaller(from(i) + MaxPayloadSize, Len(data)))]]

(* Sequence numbers the first n segments of q take up. *)
length_of_first(q, n) ==
    LET total[i \in 0 .. n] ==
            IF i = 0 THEN 0 ELSE total[i - 1] + length_in_sequence_space(q[i])
    IN  total[n]

(* A segment that becomes the front of the queue has a fresh timer. *)
restart_timer(s) == [s EXCEPT !.rto = InitialRto, !.age = 0]

(* The segments go out and to the back of the retransmission queue. *)
send(s, stream, segs) ==
    LET length == length_of_first(segs, Len(segs))
        started == IF s.seg_queue = <<>> THEN restart_timer(s) ELSE s
    IN  [started EXCEPT !.stream = stream,
                        !.next_seqno = @ + length,
                        !.bytes_in_flight = @ + length,
                        !.segments_out = @ \o segs,
                        !.seg_queue = @ \o segs]

remaining_size_NoProbe(s) ==    \* mutant
    IF s.window_size > s.bytes_in_flight /\ ~s.is_window_zero
    THEN s.window_size - s.bytes_in_flight ELSE 0
remaining_size_Underflows(s) == (s.window_size - s.bytes_in_flight) % Wide    \* mutant
remaining_size(s) ==
    IF s.window_size > s.bytes_in_flight THEN s.window_size - s.bytes_in_flight ELSE 0

fin_queued_Forgotten(s) == FALSE    \* mutant
fin_queued(s) == s.seg_queue # <<>> /\ s.seg_queue[Len(s.seg_queue)].fin

(* The window has a sequence number left for the FIN. *)
fin_fits_OneMore(s, readable_size) == remaining_size(s) > readable_size + 1    \* mutant
fin_fits(s, readable_size) == remaining_size(s) >= readable_size + 1

fill_window(s) ==
    LET readable_size == Smaller(remaining_size(s), buffer_size(s.stream))
        data == peek_output(s.stream, readable_size)
        stream == stream_read(s.stream, readable_size)
        at_end == eof(stream) /\ ~s.is_fin_received
        fin == at_end /\ fin_fits(s, readable_size)
    IN  IF remaining_size(s) = 0 \/ (~s.is_syn_received /\ s.seg_queue # <<>>)
        THEN s
        ELSE IF \/ at_end /\ fin_queued(s)
                \/ readable_size = 0 /\ s.is_syn_received /\ ~fin
        THEN [s EXCEPT !.stream = stream]
        ELSE send(s, stream, make_segments(s, data, fin))

(* fill_window throws when the queue holds something before the SYN. *)
fill_window_throws(s) ==
    /\ s.window_size > s.bytes_in_flight
    /\ ~s.is_syn_received /\ s.seg_queue # <<>> /\ ~s.seg_queue[1].syn

(* Absolute sequence number just past a queued segment. *)
segment_end(s, seg) ==
    unwrap(seg.seqno, s.isn, s.next_seqno) + length_in_sequence_space(seg)

(* The first n segments of the queue are acknowledged. *)
released_Nothing(q, n) == 0    \* mutant
released(q, n) == length_of_first(q, n)

pop_acked(s, n) ==
    LET q == s.seg_queue
    IN  [s EXCEPT !.seg_queue = SubSeq(q, n + 1, Len(q)),
                  !.bytes_in_flight = @ - released(q, n),
                  !.is_syn_received = @ \/ \E i \in 1 .. n : q[i].syn,
                  !.is_fin_received = @ \/ \E i \in 1 .. n : q[i].fin,
                  !.consecutive_retrans = 0]

ack_received(s, ackno, win) ==
    LET ack_seqno == unwrap(ackno, s.isn, s.next_seqno)
        q == s.seg_queue
        opened == [s EXCEPT !.window_size = IF win = 0 THEN 1 ELSE win,
                            !.is_window_zero = (win = 0)]
        acked == CHOOSE n \in 0 .. Len(q) :
                    /\ \A i \in 1 .. n : segment_end(s, q[i]) <= ack_seqno
                    /\ n < Len(q) => segment_end(s, q[n + 1]) > ack_seqno
    IN  IF ack_seqno > s.next_seqno
        THEN s
        ELSE IF acked = 0
        THEN opened
        ELSE restart_timer(pop_acked(opened, acked))

(* Only the front segment is ever resent; its timeout doubles unless the   *)
(* peer's window is closed.                                                *)
resent_Last(q) == q[Len(q)]    \* mutant
resent(q) == q[1]

sender_tick(s, ms) ==
    IF s.seg_queue = <<>>
    THEN s
    ELSE IF s.age + ms < s.rto
    THEN [s EXCEPT !.age = @ + ms]
    ELSE [s EXCEPT !.age = 0,
                   !.rto = IF s.is_window_zero THEN @ ELSE 2 * @,
                   !.consecutive_retrans = @ + 1,
                   !.segments_out = Append(@, resent(s.seg_queue))]

send_empty_segment(s) ==
    [s EXCEPT !.segments_out = Append(@, [EmptySegment EXCEPT !.seqno = next_seqno(s)])]
=============================================================================
