----------------------------- MODULE SenderSpec -----------------------------
(***************************************************************************)
(* A TCPSender, the application that writes to it, the timer, and a peer   *)
(* whose acknowledgments may be late, repeated, out of order or of the     *)
(* middle of a segment, with any window.  The byte with absolute sequence  *)
(* number a is a itself.                                                   *)
(*                                                                         *)
(* ClientMay = {"write before connect"} lets the application write or end  *)
(* its stream before the SYN has been sent.                                *)
(***************************************************************************)
EXTENDS TCPSender

CONSTANTS Capacity, Isn, ClientMay,
          Windows,      \* the window sizes the peer advertises
          Ticks,        \* the intervals between calls of tick
          MaxBytes,     \* bound: how many bytes the application has
          MaxRetx       \* bound: retransmissions in a row before the
                        \* connection gives up (MAX_RETX_ATTEMPTS)

ASSUME SenderAssumption ==
    /\ Capacity \in Nat /\ MaxBytes \in Nat /\ MaxRetx \in Nat
    /\ Isn \in WrappingInt32 /\ MaxBytes + 2 \in AbsoluteSeqno
    /\ Windows \subseteq 0 .. Half - 1 /\ 1 < Half    \* windows are 16-bit
    /\ Ticks \subseteq Nat

VARIABLE sender

vars == sender

stream == sender.stream
queue == sender.seg_queue

Init == sender = NewTCPSender(Capacity, Isn)

(* What is queued for sending is taken away before the next call, as every *)
(* method of TCPConnection does.                                           *)
drained == [sender EXCEPT !.segments_out = <<>>]

Connected == sender.next_seqno > 0 \/ "write before connect" \in ClientMay

Write(k) ==
    /\ Connected
    /\ ~stream.input_end /\ remaining_capacity(stream) > 0
    /\ stream.bytes_written + k <= MaxBytes
    /\ sender' = [drained EXCEPT !.stream =
                    stream_write(@, [i \in 1 .. k |-> stream.bytes_written + i])]

EndInput ==
    /\ Connected
    /\ sender' = [drained EXCEPT !.stream = end_input(@)]

FillWindow == sender' = fill_window(drained)

AckReceived(ack_seqno, win) ==
    sender' = ack_received(drained, wrap(ack_seqno, Isn), win)

Tick(ms) ==
    /\ sender.consecutive_retrans < MaxRetx
    /\ sender' = sender_tick(drained, ms)

SendEmptySegment == sender' = send_empty_segment(drained)

Next ==
    \/ \E k \in 1 .. MaxBytes : Write(k)
    \/ EndInput
    \/ FillWindow
    \/ \E ack_seqno \in 0 .. sender.next_seqno + 1, win \in Windows :
          AckReceived(ack_seqno, win)
    \/ \E ms \in Ticks : Tick(ms)
    \/ SendEmptySegment

Spec == Init /\ [][Next]_vars
-----------------------------------------------------------------------------
(* Absolute sequence number of a segment. *)
start(seg) == segment_end(sender, seg) - length_in_sequence_space(seg)

(* The retransmission queue is the unacknowledged end of what was sent,    *)
(* without gap or overlap, and bytes_in_flight counts exactly that,        *)
(* however acknowledgments cut, repeat or skip; before the SYN is          *)
(* acknowledged it is at the front, so that fill_window does not throw.    *)
QueueIsInFlight ==
    /\ ~fill_window_throws(sender)
    /\ \A i \in 1 .. Len(queue) - 1 : segment_end(sender, queue[i]) = start(queue[i + 1])
    /\ queue = <<>> => sender.bytes_in_flight = 0
    /\ queue # <<>> => /\ segment_end(sender, queue[Len(queue)]) = sender.next_seqno
                       /\ start(queue[1]) + sender.bytes_in_flight = sender.next_seqno

(* Every segment that is sent, resent or kept holds the stream's bytes for *)
(* its sequence number; SYN is the first sequence number and FIN the one   *)
(* after the last byte of an ended stream.                                 *)
SegmentsCarryStream ==
    \A i \in DOMAIN queue \cup DOMAIN sender.segments_out :
        \A seg \in {q[i] : q \in {r \in {queue, sender.segments_out} : i \in DOMAIN r}} :
            /\ \A k \in DOMAIN seg.payload :
                  seg.payload[k] = start(seg) + FlagBit(seg.syn) + k - 1
            /\ length_in_sequence_space(seg) > 0 => (seg.syn <=> start(seg) = 0)
            /\ seg.fin => /\ stream.input_end
                          /\ segment_end(sender, seg) = stream.bytes_written + 2

(* The next sequence number accounts for the SYN, every byte taken from    *)
(* the stream and the FIN, each once; nothing follows the FIN.             *)
NothingIsSkipped ==
    LET fin_sent == sender.is_fin_received \/ \E i \in DOMAIN queue : queue[i].fin
    IN  sender.next_seqno =
            IF sender.next_seqno = 0 THEN 0
            ELSE 1 + stream.bytes_read + FlagBit(fin_sent)

(* Something new goes out only if it fits the window the peer advertised   *)
(* last (a closed window counts as 1).                                     *)
WindowRespected ==
    [][sender'.next_seqno > sender.next_seqno =>
          sender'.bytes_in_flight <= sender'.window_size]_vars

(* The initial timeout, doubled k times. *)
backoff(k) ==
    LET doubled[i \in 0 .. k] == IF i = 0 THEN InitialRto ELSE 2 * doubled[i - 1]
    IN  doubled[k]

(* The timeout is the initial one doubled at most once per retransmission  *)
(* counted, and both start over when something new is acknowledged.        *)
BackoffMatchesCount ==
    /\ \E k \in 0 .. sender.consecutive_retrans : sender.rto = backoff(k)
    /\ sender.age < sender.rto
    /\ queue = <<>> => sender.consecutive_retrans = 0

(* A retransmission is always of the oldest unacknowledged segment, and is *)
(* never sent before its timeout has passed, which grows by doubling and   *)
(* starts over with every acknowledgment of something new.                 *)
OnlyTimeoutResends ==
    [][/\ BackoffMatchesCount'
       /\ \A i \in DOMAIN sender'.segments_out :
             LET seg == sender'.segments_out[i]
             IN  length_in_sequence_space(seg) > 0 /\ seg \in {queue[j] : j \in DOMAIN queue}
                 => seg = queue[1] /\ \E ms \in Ticks : sender.age + ms >= sender.rto]_vars

(* The peer acknowledges everything sent, with an open window, and         *)
(* TCPConnection calls fill_window after each such segment.                *)
FairSpec ==
    /\ Spec
    /\ WF_vars(FillWindow)
    /\ WF_vars(\E win \in Windows \ {0} : AckReceived(sender.next_seqno, win))

(* Everything the application wrote, and the end of it, is acknowledged.   *)
EverythingIsAcked ==
    (stream.input_end ~> sender.is_fin_received /\ buffer_empty(stream))
=============================================================================
