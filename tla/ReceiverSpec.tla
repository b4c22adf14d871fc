---------------------------- MODULE ReceiverSpec ----------------------------
(***************************************************************************)
(* A TCPReceiver on a network that loses, repeats, reorders and re-cuts    *)
(* the segments of one peer, and the application that reads its stream.    *)
(*                                                                         *)
(* The peer has StreamLength bytes; the byte with absolute sequence number *)
(* a is a itself, the SYN has 0 and the FIN StreamLength + 1.  PeerMay     *)
(* names the segments left out unless it holds them:                       *)
(*   "repeat SYN"       a SYN that arrives after data has been assembled   *)
(*   "SYN with data"    a SYN that carries the first bytes                 *)
(***************************************************************************)
EXTENDS TCPReceiver

CONSTANTS Capacity, StreamLength, PeerIsn, PeerMay

ASSUME ReceiverAssumption ==
    /\ Capacity \in Nat /\ Capacity < Half    \* windows are 16-bit
    /\ StreamLength \in Nat /\ StreamLength + 2 \in AbsoluteSeqno
    /\ PeerIsn \in WrappingInt32

VARIABLES receiver,
          arrived    \* the sequence numbers that reached segment_received
                     \* since the first SYN (not part of the code)

vars == <<receiver, arrived>>

output == stream_out(receiver)

Init ==
    /\ receiver = NewTCPReceiver(Capacity)
    /\ arrived = {}

FinSeqno == StreamLength + 1

(* The peer's segment for the sequence numbers from .. to - 1; one that    *)
(* has none is an acknowledgment only, also after the FIN.                 *)
PeerSegment(from, to) ==
    LET first == IF from = 0 THEN 1 ELSE from
        last == IF to > FinSeqno THEN StreamLength ELSE to - 1
    IN  [EmptySegment EXCEPT
            !.seqno = wrap(from, PeerIsn),
            !.syn = (from = 0),
            !.fin = (from <= FinSeqno /\ to > FinSeqno),
            !.payload = [i \in 1 .. last - first + 1 |-> first + i - 1]]

(* No segment is as old, or as far ahead, as half the circle of sequence   *)
(* numbers: none lives that long in the network.                           *)
SegmentReceived(from, to) ==
    /\ from <= to
    /\ Distance(from, receiver.reassembler.top_pointer) < Half
    /\ from = 0 => /\ to > 0
                   /\ output.bytes_written = 0 \/ "repeat SYN" \in PeerMay
                   /\ to = 1 \/ "SYN with data" \in PeerMay
    /\ receiver' = receiver_segment_received(receiver, PeerSegment(from, to))
    /\ arrived' = IF receiver'.isn = none THEN {} ELSE arrived \cup from .. to - 1

Read(len) ==
    /\ len <= buffer_size(output)
    /\ receiver' = [receiver EXCEPT !.reassembler.output = stream_read(@, len)]
    /\ UNCHANGED arrived

Next ==
    \/ \E from, to \in 0 .. StreamLength + 2 : SegmentReceived(from, to)
    \/ \E len \in 1 .. Capacity : Read(len)

Spec == Init /\ [][Next]_vars

(* The absolute sequence number ackno() stands for. *)
Acked == output.bytes_written + (IF output.input_end THEN 2 ELSE 1)

(* The oldest sequence number the peer has no acknowledgment for. *)
Oldest == IF receiver.isn = none THEN 0 ELSE Acked

Retransmit == Oldest <= FinSeqno /\ SegmentReceived(Oldest, Oldest + 1)

(* The retransmission would change something: ENABLED <<Retransmit>>_vars  *)
(* written out.                                                            *)
RetransmitIsUseful ==
    /\ Oldest <= FinSeqno
    /\ \/ receiver_segment_received(receiver, PeerSegment(Oldest, Oldest + 1)) # receiver
       \/ receiver.isn # none /\ Oldest \notin arrived

(* The peer retransmits the oldest unacknowledged sequence number when its *)
(* timer expires, and the application reads: weak fairness of both.        *)
FairSpec ==
    /\ Spec
    /\ []<><<Retransmit>>_vars \/ []<>~RetransmitIsUseful
    /\ WF_vars(\E len \in 1 .. Capacity : Read(len))

-----------------------------------------------------------------------------
(* The application gets the peer's bytes in order, each once, however the  *)
(* network loses, repeats, reorders and re-cuts the segments, a SYN after  *)
(* data excepted, and wherever the sequence numbers wrap.                  *)
InOrder ==
    /\ output.buffers = [i \in 1 .. output.bytes_written - output.bytes_read
                            |-> output.bytes_read + i]
    /\ output.input_end => output.bytes_written = StreamLength

(* ackno() acknowledges only what has arrived: every sequence number below *)
(* it, the SYN and the FIN included.                                       *)
AckIsHonest ==
    receiver.isn # none =>
        /\ ackno(receiver) = wrap(Acked, PeerIsn)
        /\ 0 .. Acked - 1 \subseteq arrived

(* The acknowledgment number and the right edge of the advertised window   *)
(* never move back: what the peer was allowed to send stays allowed.       *)
WindowNeverShrinks ==
    [][receiver.isn # none =>
          /\ Acked' >= Acked
          /\ (Acked + window_size(receiver))' >= Acked + window_size(receiver)]_vars

(* The bytes a peer sends inside the advertised window are stored and not  *)
(* asked for again: each is assembled or held after it arrives.            *)
WindowIsAccepted ==
    receiver.isn # none =>
        \A a \in Acked .. Acked + window_size(receiver) - 1 :
            LET after == receiver_segment_received(receiver, PeerSegment(a, a + 1))
            IN  a <= StreamLength =>
                   a \in held(after.reassembler) \/ a <= stream_out(after).bytes_written

(* With a peer that keeps retransmitting and an application that keeps     *)
(* reading, the whole stream and its end come out.                         *)
StreamIsDelivered == <>(eof(output) /\ output.bytes_read = StreamLength)
=============================================================================
