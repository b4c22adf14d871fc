----------------------------- MODULE TCPReceiver ----------------------------
(***************************************************************************)
(* libsponge/tcp_receiver.{hh,cc}, as operators on a record: the peer's    *)
(* initial sequence number, the sequence number of the first segment that  *)
(* carried FIN, and the reassembler.  The reassembler's index space here   *)
(* is the absolute sequence number: 0 is the SYN, 1 the first byte.        *)
(***************************************************************************)
EXTENDS StreamReassembler, TCPSegment

NewTCPReceiver(capacity) ==
    [reassembler |-> NewStreamReassembler(capacity), isn |-> none, fsn |-> none]

stream_out(r) == r.reassembler.output

(* A SYN without data moves the reassembler's pointer past itself. *)
push_back_wrap_string(reassembler, seg, isn, eof_flag) ==
    LET index == unwrap(seg.seqno, isn, reassembler.top_pointer)
        pushed == push_substring(reassembler, seg.payload, index, eof_flag)
    IN  IF seg.syn /\ seg.payload = <<>>
        THEN [pushed EXCEPT !.top_pointer = index + 1]
        ELSE pushed

(* The segment is pushed with eof if it carries FIN itself, whatever FIN   *)
(* has been seen before.                                                   *)
reassemble_EndsAtFin(r, seg) ==    \* mutant
    LET pushed == push_back_wrap_string(r.reassembler, seg, r.isn, FALSE)
    IN  [r EXCEPT !.reassembler = IF seg.fin
                                  THEN [pushed EXCEPT !.output = end_input(@)] ELSE pushed]
reassemble_DropsAfterFin(r, seg) ==    \* mutant
    IF r.fsn # none /\ ~seg.fin
    THEN r
    ELSE [r EXCEPT !.reassembler = push_back_wrap_string(@, seg, r.isn, seg.fin)]
reassemble(r, seg) ==
    [r EXCEPT !.reassembler = push_back_wrap_string(@, seg, r.isn, seg.fin)]

receiver_segment_received(r, seg) ==
    IF r.isn = none /\ ~seg.syn
    THEN r
    ELSE reassemble([r EXCEPT !.isn = IF seg.syn /\ @ = none THEN seg.seqno ELSE @,
                              !.fsn = IF seg.fin /\ @ = none THEN seg.seqno ELSE @],
                    seg)

ackno_CountsAnyFin(r) ==    \* mutant
    IF r.isn = none
    THEN none
    ELSE plus(wrap(stream_out(r).bytes_written, r.isn), IF r.fsn # none THEN 2 ELSE 1)
ackno(r) ==
    IF r.isn = none
    THEN none
    ELSE plus(wrap(stream_out(r).bytes_written, r.isn),
              IF stream_out(r).input_end THEN 2 ELSE 1)

window_size_Fixed(r) == r.reassembler.capacity    \* mutant
window_size_LessStored(r) ==    \* mutant
    current_capacity(r.reassembler) - Len(r.reassembler.buffer_list)
window_size(r) == current_capacity(r.reassembler)
=============================================================================
