-------------------------- MODULE ReceiverProofs ----------------------------
(***************************************************************************)
(* Proofs about ReceiverSpec: a TCPReceiver of any capacity below half the *)
(* circle of sequence numbers, whose peer sends a stream of any length.    *)
(* The reassembler is dealt with by ReassemblerLemmas, the sequence        *)
(* numbers by WrappingLemmas.                                              *)
(***************************************************************************)
EXTENDS ReceiverSpec, ReassemblerLemmas, WrappingLemmas

USE SMTT(180)

(* The state of a TCPReceiver. *)
ReceiverRecord == [reassembler : ReassemblerRecord, isn : Int, fsn : Int]

(* Where the bytes of the segment for from .. to - 1 end. *)
Upto(from, to) ==
    IF from > FinSeqno THEN from ELSE IF to > FinSeqno THEN FinSeqno ELSE to

(* Whether that segment carries the FIN. *)
HasFin(from, to) == from <= FinSeqno /\ to > FinSeqno

(* What the assumptions say of the constants. *)
LEMMA Constants ==
    /\ Capacity \in Nat /\ StreamLength \in Nat /\ FinSeqno \in Nat
    /\ FinSeqno = StreamLength + 1 /\ Half \in Nat /\ Half > Capacity
    /\ PeerIsn \in WrappingInt32 /\ PeerIsn \in Nat /\ PeerIsn # none
    /\ \A n \in Nat : n <= StreamLength + 2 => n \in AbsoluteSeqno
    /\ none \in Int /\ none < 0
  <1>1. Modulus \in Nat /\ Half \in Nat
    BY Widths
  <1>2. PeerIsn \in 0 .. Modulus - 1
    BY ReceiverAssumption DEF WrappingInt32
  <1>3. PeerIsn \in Nat /\ PeerIsn # none
    BY <1>1, <1>2 DEF none
  <1>4. ASSUME NEW n \in Nat, n <= StreamLength + 2 PROVE n \in AbsoluteSeqno
    <2>1. PICK w : w = Wide - 1
      OBVIOUS
    <2>2. Wide \in Int
      BY <1>1 DEF Wide
    <2> QED
      BY <1>4, <2>1, <2>2, ReceiverAssumption DEF AbsoluteSeqno
  <1> QED
    BY <1>1, <1>3, <1>4, ReceiverAssumption DEF FinSeqno, none

(* A wrapped number is a WrappingInt32. *)
LEMMA WrapType ==
    ASSUME NEW n \in Nat
    PROVE  wrap(n, PeerIsn) \in WrappingInt32 /\ wrap(n, PeerIsn) \in Int
  <1>1. Modulus \in Nat \ {0} /\ PeerIsn + n \in Int
    BY Widths, Constants
  <1>2. (PeerIsn + n) % Modulus \in 0 .. Modulus - 1
    BY <1>1, DivMod, ZenonT(180)
  <1> QED
    BY <1>2, Widths DEF wrap, WrappingInt32

(* A segment that is not a SYN, as segment_received looks at it. *)
IsData(seg, from, to) ==
    /\ seg.seqno = wrap(from, PeerIsn) /\ seg.syn = FALSE
    /\ seg.payload = Bytes(from, Upto(from, to)) /\ seg.fin = HasFin(from, to)

(* The segment of the peer for any numbers after the SYN is such a         *)
(* segment: its payload is an excerpt of the stream.                       *)
LEMMA DataSegment ==
    ASSUME NEW from \in Nat, NEW to \in Nat, 1 <= from, from <= to, to <= StreamLength + 2
    PROVE  IsData(PeerSegment(from, to), from, to)
  <1>1. PICK u \in Nat : u = Upto(from, to) /\ from <= u
    BY Constants DEF Upto
  <1>2. PICK last \in Int : last = IF to > FinSeqno THEN StreamLength ELSE to - 1
    BY Constants
  <1>3. [i \in 1 .. last - from + 1 |-> from + i - 1] = Bytes(from, u)
    <2>1. 1 .. last - from + 1 = 1 .. u - from
      BY <1>1, <1>2, Constants DEF Upto
    <2> QED
      BY <2>1 DEF Bytes
  <1>4. PICK p : p = [i \in 1 .. last - from + 1 |-> from + i - 1]
    BY ZenonT(180)
  <1>5. /\ PeerSegment(from, to).seqno = wrap(from, PeerIsn)
        /\ PeerSegment(from, to).syn = (from = 0)
        /\ PeerSegment(from, to).fin = (from <= FinSeqno /\ to > FinSeqno)
    BY DEF PeerSegment, EmptySegment
  <1>6. PeerSegment(from, to).payload = p
    <2>1. PICK first : first = IF from = 0 THEN 1 ELSE from
      OBVIOUS
    <2>2. PeerSegment(from, to).payload = [i \in 1 .. last - first + 1 |-> first + i - 1]
      BY <1>2, <2>1 DEF PeerSegment, EmptySegment
    <2>3. first = from
      BY <2>1
    <2> QED
      BY <1>4, <2>2, <2>3
  <1>7. (from = 0) = FALSE
    OBVIOUS
  <1> QED
    BY <1>1, <1>3, <1>4, <1>5, <1>6, <1>7, ZenonT(180) DEF IsData, HasFin

(* The SYN, as segment_received looks at it. *)
IsSyn(seg) ==
    /\ seg.seqno = wrap(0, PeerIsn) /\ seg.syn = TRUE /\ seg.payload = <<>> /\ seg.fin = FALSE

(* The segment of the peer for number 0 is the SYN. *)
LEMMA SynSegment == IsSyn(PeerSegment(0, 1))
  <1>1. PICK p : p = [i \in 1 .. 0 |-> 1 + i - 1]
    OBVIOUS
  <1>2. p = <<>>
    BY <1>1
  <1>3. ~(1 > FinSeqno)
    BY Constants
  <1>4. /\ PeerSegment(0, 1).seqno = wrap(0, PeerIsn)
        /\ PeerSegment(0, 1).syn = (0 = 0)
        /\ PeerSegment(0, 1).fin = (0 <= FinSeqno /\ 1 > FinSeqno)
    BY DEF PeerSegment, EmptySegment
  <1>5. PeerSegment(0, 1).payload = p
    BY <1>1, <1>3 DEF PeerSegment, EmptySegment
  <1> QED
    BY <1>2, <1>3, <1>4, <1>5, ZenonT(180) DEF IsSyn

(* A receiver that has had the SYN: its reassembler is in its invariant,   *)
(* on a stream that starts at index 1 and ends at the number of the FIN.   *)
Synced(r, rd, top) ==
    /\ rd \in Nat /\ top \in Nat
    /\ r \in ReceiverRecord /\ r.isn = PeerIsn
    /\ AssemblesAt(r.reassembler, 1, Capacity, FinSeqno, rd, top)

(* A segment after the SYN arrives, less than half the circle from the     *)
(* next expected number.                                                   *)
CanReceive(r, rd, top, from, to) ==
    /\ Synced(r, rd, top)
    /\ from \in Nat /\ to \in Nat /\ 1 <= from /\ from <= to /\ to <= StreamLength + 2
    /\ Distance(from, top) < Half

(* TCPReceiver::segment_received hands the payload to the reassembler at   *)
(* its own absolute sequence number, wherever the 32-bit numbers wrap, and *)
(* with eof exactly when it carries the FIN.                               *)
LEMMA ReceiveData ==
    ASSUME NEW r, NEW rd, NEW top, NEW from, NEW to, CanReceive(r, rd, top, from, to)
    PROVE  \E ntop \in Nat :
              LET new == receiver_segment_received(r, PeerSegment(from, to))
              IN  /\ Synced(new, rd, ntop)
                  /\ Pushed(r.reassembler, new.reassembler, top, rd + Capacity,
                            from, Upto(from, to), HasFin(from, to), ntop)
  <1>1. PICK R \in Nat, T \in Nat, F \in Nat, G \in Nat : R = rd /\ T = top /\ F = from /\ G = to
    BY DEF CanReceive, Synced
  <1>2. /\ Synced(r, R, T) /\ 1 <= F /\ F <= G /\ G <= StreamLength + 2 /\ Distance(F, T) < Half
    BY <1>1 DEF CanReceive
  <1>3. PICK rs, seg, u : rs = r.reassembler /\ seg = PeerSegment(F, G) /\ u = Upto(F, G)
    OBVIOUS
  <1>4. IsData(seg, F, G)
    BY <1>2, <1>3, DataSegment
  <1>5. /\ r \in ReceiverRecord /\ r.isn = PeerIsn /\ rs.top_pointer = T /\ T <= FinSeqno
        /\ AssemblesAt(rs, 1, Capacity, FinSeqno, R, T)
    BY <1>2, <1>3 DEF Synced, AssemblesAt
  <1>6. unwrap(seg.seqno, PeerIsn, T) = F
    <2>1. T \in AbsoluteSeqno /\ F \in AbsoluteSeqno /\ PeerIsn \in WrappingInt32
      BY <1>2, <1>5, Constants
    <2> QED
      BY <1>2, <1>4, <2>1, UnwrapWrap DEF IsData
  <1>7. PICK new : new = push_substring(rs, Bytes(F, u), F, HasFin(F, G))
    OBVIOUS
  <1>8. CanPush(rs, 1, Capacity, FinSeqno, R, T, F, u, HasFin(F, G))
    <2>1. /\ u \in Nat /\ F <= u /\ Inside(F, u, FinSeqno) /\ (HasFin(F, G) => u = FinSeqno)
      BY <1>2, <1>3, Constants DEF Upto, HasFin, Inside
    <2> QED
      BY <1>5, <2>1, Constants, SMTT(180) DEF CanPush
  <1>9. PICK N \in Nat :
           /\ AssemblesAt(new, 1, Capacity, FinSeqno, R, N)
           /\ Pushed(rs, new, T, R + Capacity, F, u, HasFin(F, G), N)
    BY <1>7, <1>8, PushSubstringStep
  <1>10. PICK after : after = receiver_segment_received(r, seg)
    OBVIOUS
  <1>11. push_back_wrap_string(rs, seg, PeerIsn, seg.fin) = new
    BY <1>3, <1>4, <1>5, <1>6, <1>7 DEF push_back_wrap_string, IsData
  <1>12. after \in ReceiverRecord /\ after.isn = PeerIsn /\ after.reassembler = new
    <2>1. PICK q \in Int : q = IF seg.fin /\ r.fsn = none THEN seg.seqno ELSE r.fsn
      <3>1. r.fsn \in Int
        BY <1>5 DEF ReceiverRecord
      <3>2. seg.seqno \in Int
        BY <1>4, Constants, WrapType DEF IsData, WrappingInt32
      <3> QED
        BY <3>1, <3>2
    <2>2. PICK r2 : r2 = [r EXCEPT !.isn = PeerIsn, !.fsn = q]
      BY SMTT(180)
    <2>3. after = [r2 EXCEPT !.reassembler = push_back_wrap_string(@, seg, r2.isn, seg.fin)]
      BY <1>4, <1>5, <1>10, <2>1, <2>2, Constants
         DEF receiver_segment_received, reassemble, IsData, ReceiverRecord
    <2>4. r2.reassembler = rs /\ r2.isn = PeerIsn /\ r2 \in ReceiverRecord
      BY <1>3, <1>5, <2>2, Constants, ZenonT(180) DEF ReceiverRecord
    <2>5. after = [r2 EXCEPT !.reassembler = new]
      BY <1>11, <2>3, <2>4 DEF ReceiverRecord
    <2>6. new \in ReassemblerRecord
      BY <1>9 DEF AssemblesAt
    <2> QED
      BY <2>4, <2>5, <2>6 DEF ReceiverRecord
  <1>13. Synced(after, R, N)
    BY <1>9, <1>12 DEF Synced
  <1>14. Pushed(rs, after.reassembler, T, R + Capacity, F, u, HasFin(F, G), N)
    BY <1>9, <1>12
  <1> QED
    BY <1>1, <1>3, <1>10, <1>13, <1>14

(* The reassembler after the SYN: nothing held, index 1 expected. *)
Opened(rs) ==
    /\ AssemblesAt(rs, 1, Capacity, FinSeqno, 1, 1)
    /\ rs.buffer_list = <<>> /\ rs.output.input_end = FALSE

(* Moving the pointer of an empty reassembler to 1 opens it. *)
LEMMA OpenedIf ==
    ASSUME NEW rs, NEW top \in Nat, NEW out, NEW list,
           rs = [top_pointer |-> top, output |-> out, capacity |-> Capacity, buffer_list |-> list],
           Holds(out, Capacity, 0, 0, 1, 1), out.input_end = FALSE, list = <<>>
    PROVE  Opened([rs EXCEPT !.top_pointer = 1])
  <1>1. PICK new : new = [rs EXCEPT !.top_pointer = 1]
    BY ZenonT(180)
  <1>2. PICK l \in Seq(BufferStringRecord(Nat)) : l = list /\ Len(l) = 0
    <2>1. <<>> \in Seq(BufferStringRecord(Nat)) /\ Len(<<>>) = 0
      OBVIOUS
    <2> QED
      BY <2>1, ZenonT(180)
  <1>3. new = [top_pointer |-> 1, output |-> out, capacity |-> Capacity, buffer_list |-> l]
    BY <1>1, <1>2
  <1>4. new.top_pointer = 1 /\ new.output = out /\ new.capacity = Capacity /\ new.buffer_list = l
    BY <1>3
  <1>5. out \in ByteStreamRecord(Nat)
    BY DEF Holds
  <1>6. new \in ReassemblerRecord
    BY <1>3, <1>5, Constants DEF ReassemblerRecord
  <1>7. PICK edge, far : edge = 1 + Capacity /\ far = 1 + Capacity + Capacity
    OBVIOUS
  <1>8. Stored(l, 1, edge, far, FinSeqno)
    BY <1>2 DEF Stored, Ordered
  <1>9. Holds(out, Capacity, 1 - 1, 1 - 1, 1, 1)
    OBVIOUS
  <1>10. 1 <= 1 + Capacity /\ 1 <= FinSeqno
    BY Constants
  <1>11. AssemblesAt(new, 1, Capacity, FinSeqno, 1, 1)
    BY <1>4, <1>6, <1>7, <1>8, <1>9, <1>10 DEF AssemblesAt
  <1> QED
    BY <1>1, <1>2, <1>4, <1>11 DEF Opened

(* The empty payload of the first SYN leaves nothing in the list, and      *)
(* push_back_wrap_string moves the pointer past the SYN.                   *)
LEMMA SynOpens ==
    Opened([push_substring(NewStreamReassembler(Capacity), <<>>, 0, FALSE) EXCEPT !.top_pointer = 1])
  <1>1. PICK s : s = NewByteStream(Capacity)
    OBVIOUS
  <1>2. /\ s.capacity = Capacity /\ s.bytes_read = 0 /\ s.bytes_written = 0 /\ s.buffers = <<>>
        /\ s.input_end = FALSE
    BY <1>1 DEF NewByteStream
  <1>3. Holds(s, Capacity, 0, 0, 1, 1)
    <2>1. Bytes(1, 1) = <<>>
      BY BytesEmpty
    <2>2. PICK e \in Seq(Nat) : e = <<>>
      <3>1. <<>> \in Seq(Nat)
        OBVIOUS
      <3> QED
        BY <3>1, ZenonT(180)
    <2>3. s \in ByteStreamRecord(Nat)
      BY <1>1, <2>2, Constants DEF NewByteStream, ByteStreamRecord
    <2> QED
      BY <1>2, <2>1, <2>3 DEF Holds
  <1>4. PICK rs : rs = NewStreamReassembler(Capacity)
    OBVIOUS
  <1>5. rs = [top_pointer |-> 0, output |-> s, capacity |-> Capacity, buffer_list |-> <<>>]
    BY <1>1, <1>4 DEF NewStreamReassembler
  <1>6. /\ rs.top_pointer = 0 /\ rs.output = s /\ rs.capacity = Capacity /\ rs.buffer_list = <<>>
    BY <1>5
  <1>7. PICK cap \in Nat : cap = Capacity
    BY Constants
  <1>8. Len(<<>>) = 0 /\ SubSeq(<<>>, 1, 0) = <<>>
    OBVIOUS
  <1>9. duplicate(rs, 0) = 0 /\ current_capacity(rs) = cap
    BY <1>2, <1>6, <1>7, <1>8 DEF duplicate, current_capacity, buffer_size
  <1>10. beyond_window(rs, 0) <=> cap = 0
    BY <1>6, <1>7, <1>9 DEF beyond_window
  <1>11. PICK new : new = push_substring(rs, <<>>, 0, FALSE)
    BY ZenonT(180)
  <1>12. CASE cap = 0
    <2>1. new = rs
      <3>1. beyond_window(rs, 0) /\ 0 + 0 = 0
        BY <1>10, <1>12
      <3> QED
        BY <1>9, <1>11, <3>1, ZenonT(180) DEF push_substring
    <2> QED
      BY <1>2, <1>3, <1>4, <1>5, <1>11, <2>1, OpenedIf, ZenonT(180)
  <1>13. CASE cap # 0
    <2>1. cut(<<>>, cap) = <<>> /\ cut_eof(<<>>, FALSE, cap) = FALSE
      BY <1>8 DEF cut, cut_eof
    <2>2. PICK b : b = [first |-> 0, str |-> <<>>, eof |-> FALSE]
      BY ZenonT(180)
    <2>3. push_back(<<>>, <<>>, 0, FALSE) = <<b>>
      <3>1. PICK l \in Seq(BufferStringRecord(Nat)) : l = <<>> /\ Len(l) = 0
        <4>1. <<>> \in Seq(BufferStringRecord(Nat)) /\ Len(<<>>) = 0
          OBVIOUS
        <4> QED
          BY <4>1, ZenonT(180)
      <3>2. second(b) = 0
        BY <1>8, <2>2 DEF second
      <3>3. lower_bound(l, 0) = 1 /\ upper_bound(l, 0) = 1
        <4>1. lower_bound(l, 0) \in 1 .. 0 + 1 /\ upper_bound(l, 0) \in 1 .. 0 + 1
          BY <3>1, LowerBound, UpperBound, ZenonT(180)
        <4> QED
          BY <4>1
      <3>4. push_back(l, <<>>, 0, FALSE) = SubSeq(l, 1, 0) \o <<b>> \o SubSeq(l, 1, Len(l))
        BY <2>2, <3>2, <3>3 DEF push_back
      <3>5. SubSeq(l, 1, 0) = l /\ SubSeq(l, 1, Len(l)) = l
        BY <1>8, <3>1
      <3>6. l \o <<b>> \o l = <<b>>
        BY <3>1, SMTT(180)
      <3> QED
        BY <3>1, <3>4, <3>5, <3>6, ZenonT(180)
    <2>4. new = assemble(rs, <<b>>)
      <3>1. ~(0 > 0) /\ ~beyond_window(rs, 0) /\ 0 + 0 = 0 /\ 0 + 1 = 1
        BY <1>10, <1>13
      <3> QED
        BY <1>6, <1>8, <1>9, <1>11, <2>1, <2>3, <3>1, ZenonT(180) DEF push_substring
    <2>5. top_index(<<b>>) = 0 /\ popped(<<b>>, cap) = b /\ after_pop(<<b>>, cap) = <<>>
      BY <1>8, <2>2 DEF top_index, popped, after_pop
    <2>6. remaining_capacity(s) = cap
      BY <1>2, <1>7, <1>8 DEF remaining_capacity, buffer_size
    <2>7. PICK out : out = stream_write(s, <<>>)
      OBVIOUS
    <2>8. advance(rs, b) = 0
      BY <1>6, <1>8, <2>2, SMTT(180) DEF advance
    <2>9. new = [rs EXCEPT !.buffer_list = <<>>, !.top_pointer = 0, !.output = out]
      <3>1. b.eof = FALSE /\ b.str = <<>>
        BY <2>2
      <3> QED
        BY <1>6, <1>7, <2>4, <2>5, <2>6, <2>7, <2>8, <3>1, ZenonT(180) DEF assemble
    <2>10. new = [top_pointer |-> 0, output |-> out, capacity |-> Capacity, buffer_list |-> <<>>]
      BY <1>5, <2>9, ZenonT(180)
    <2>11. Holds(out, Capacity, 0, 0, 1, 1) /\ out.input_end = FALSE
      <3>1. Bytes(1, 1) = <<>>
        BY BytesEmpty
      <3>2. /\ Holds(stream_write(s, Bytes(1, 1)), cap, 0, 0 + (1 - 1), 1, 1)
            /\ stream_write(s, Bytes(1, 1)).input_end = s.input_end
        BY <1>3, <1>7, WriteBytes
      <3> QED
        BY <1>2, <1>7, <2>7, <3>1, <3>2
    <2> QED
      BY <1>4, <1>11, <2>10, <2>11, OpenedIf, ZenonT(180)
  <1> QED
    BY <1>12, <1>13

(* The first SYN synchronises the receiver. *)
LEMMA ReceiveSyn ==
    LET new == receiver_segment_received(NewTCPReceiver(Capacity), PeerSegment(0, 1))
    IN  Synced(new, 1, 1) /\ Opened(new.reassembler)
  <1>1. PICK r, seg, rs : /\ r = NewTCPReceiver(Capacity) /\ seg = PeerSegment(0, 1)
                          /\ rs = NewStreamReassembler(Capacity)
    OBVIOUS
  <1>2. IsSyn(seg)
    BY <1>1, SynSegment
  <1>3. r = [reassembler |-> rs, isn |-> none, fsn |-> none]
    BY <1>1 DEF NewTCPReceiver
  <1>4. rs.top_pointer = 0
    BY <1>1 DEF NewStreamReassembler
  <1>5. seg.seqno = PeerIsn
    <2>1. PeerIsn \in 0 .. Modulus - 1 /\ Modulus \in Nat \ {0}
      BY Widths, Constants DEF WrappingInt32
    <2>2. (PeerIsn + 0) % Modulus = PeerIsn
      BY <2>1
    <2> QED
      BY <1>2, <2>2 DEF IsSyn, wrap
  <1>6. unwrap(seg.seqno, PeerIsn, 0) = 0
    <2>1. 0 \in AbsoluteSeqno /\ PeerIsn \in WrappingInt32 /\ Distance(0, 0) < Half
      BY Constants, Widths DEF Distance
    <2>2. unwrap(wrap(0, PeerIsn), PeerIsn, 0) = 0
      BY <2>1, UnwrapWrap
    <2> QED
      BY <1>2, <2>2 DEF IsSyn
  <1>7. PICK new : new = [push_substring(rs, <<>>, 0, FALSE) EXCEPT !.top_pointer = 1]
    BY ZenonT(180)
  <1>8. push_back_wrap_string(rs, seg, PeerIsn, FALSE) = new
    <2>1. 0 + 1 = 1
      OBVIOUS
    <2> QED
      BY <1>2, <1>4, <1>6, <1>7, <2>1, ZenonT(180) DEF push_back_wrap_string, IsSyn
  <1>9. PICK after : after = receiver_segment_received(r, seg)
    OBVIOUS
  <1>10. after = [reassembler |-> new, isn |-> PeerIsn, fsn |-> none]
    <2>1. PICK r2 : r2 = [r EXCEPT !.isn = PeerIsn, !.fsn = none]
      OBVIOUS
    <2>2. r2 = [reassembler |-> rs, isn |-> PeerIsn, fsn |-> none]
      BY <1>3, <2>1, ZenonT(180)
    <2>3. after = [r2 EXCEPT !.reassembler = push_back_wrap_string(@, seg, r2.isn, seg.fin)]
      BY <1>2, <1>3, <1>5, <1>9, <2>1, ZenonT(180) DEF receiver_segment_received, reassemble, IsSyn
    <2> QED
      BY <1>2, <1>8, <2>2, <2>3, ZenonT(180) DEF IsSyn
  <1>11. Opened(new)
    BY <1>1, <1>7, SynOpens
  <1>12. new \in ReassemblerRecord
    BY <1>11 DEF Opened, AssemblesAt
  <1>13. after \in ReceiverRecord /\ after.reassembler = new /\ after.isn = PeerIsn
    BY <1>10, <1>12, Constants DEF ReceiverRecord
  <1>14. Synced(after, 1, 1)
    BY <1>11, <1>13 DEF Synced, Opened
  <1> QED
    BY <1>1, <1>9, <1>11, <1>13, <1>14

(* A SYN that arrives again before any data changes nothing. *)
LEMMA RepeatedSyn ==
    ASSUME NEW r, NEW rd, Synced(r, rd, 1), 1 < Half
    PROVE  receiver_segment_received(r, PeerSegment(0, 1)) = r
  <1>1. PICK rs, seg : rs = r.reassembler /\ seg = PeerSegment(0, 1)
    OBVIOUS
  <1>2. IsSyn(seg)
    BY <1>1, SynSegment
  <1>3. r \in ReceiverRecord /\ r.isn = PeerIsn /\ rs.top_pointer = 1 /\ rs \in ReassemblerRecord
    BY <1>1 DEF Synced, AssemblesAt
  <1>4. unwrap(seg.seqno, PeerIsn, 1) = 0
    <2>1. 0 \in AbsoluteSeqno /\ 1 \in AbsoluteSeqno /\ PeerIsn \in WrappingInt32 /\ Distance(0, 1) < Half
      BY Constants DEF Distance
    <2>2. unwrap(wrap(0, PeerIsn), PeerIsn, 1) = 0
      BY <2>1, UnwrapWrap
    <2> QED
      BY <1>2, <2>2 DEF IsSyn
  <1>5. push_substring(rs, <<>>, 0, FALSE) = rs
    <2>1. duplicate(rs, 0) = 1 /\ Len(<<>>) = 0
      BY <1>3 DEF duplicate
    <2>2. duplicate(rs, 0) > Len(<<>>)
      BY <2>1
    <2> QED
      BY <2>2, ZenonT(180) DEF push_substring
  <1>6. push_back_wrap_string(rs, seg, PeerIsn, FALSE) = rs
    <2>1. [rs EXCEPT !.top_pointer = 1] = rs
      BY <1>3 DEF ReassemblerRecord
    <2>2. 0 + 1 = 1
      OBVIOUS
    <2> QED
      BY <1>2, <1>3, <1>4, <1>5, <2>1, <2>2, ZenonT(180) DEF push_back_wrap_string, IsSyn
  <1>7. [r EXCEPT !.isn = PeerIsn, !.fsn = r.fsn] = r /\ [r EXCEPT !.reassembler = rs] = r
    BY <1>1, <1>3, ZenonT(180) DEF ReceiverRecord
  <1>8. receiver_segment_received(r, seg) = reassemble(r, seg)
    BY <1>2, <1>3, <1>7, Constants, ZenonT(180) DEF receiver_segment_received, IsSyn
  <1>9. reassemble(r, seg) = [r EXCEPT !.reassembler = rs]
    BY <1>1, <1>2, <1>3, <1>6, ZenonT(180) DEF reassemble, IsSyn, ReceiverRecord
  <1> QED
    BY <1>1, <1>7, <1>8, <1>9

-----------------------------------------------------------------------------
(* The invariant. *)

(* What can be read off a synchronised receiver. *)
LEMMA SyncedParts ==
    ASSUME NEW r, NEW rd \in Nat, NEW top \in Nat, Synced(r, rd, top)
    PROVE  /\ 1 <= rd /\ rd <= top /\ top <= FinSeqno /\ top <= rd + Capacity
           /\ r.reassembler.top_pointer = top
           /\ stream_out(r).bytes_read = rd - 1 /\ stream_out(r).bytes_written = top - 1
           /\ stream_out(r).buffers = Bytes(rd, top)
           /\ stream_out(r).input_end \in BOOLEAN /\ (stream_out(r).input_end => top = FinSeqno)
           /\ window_size(r) = Capacity - (top - rd)
           /\ r.isn = PeerIsn /\ r.isn # none
  <1>1. PICK rs : rs = r.reassembler
    OBVIOUS
  <1>2. AssemblesAt(rs, 1, Capacity, FinSeqno, rd, top)
    BY <1>1 DEF Synced
  <1>3. /\ 1 <= rd /\ rd <= top /\ top <= FinSeqno /\ top <= rd + Capacity /\ rs.top_pointer = top
        /\ rs.capacity = Capacity /\ rs.output.input_end => top = FinSeqno
    BY <1>2 DEF AssemblesAt
  <1>4. /\ rs.output.bytes_read = rd - 1 /\ rs.output.bytes_written = top - 1
        /\ rs.output.buffers = Bytes(rd, top) /\ rs.output.input_end \in BOOLEAN
    BY <1>2 DEF AssemblesAt, Holds, ByteStreamRecord
  <1>5. Len(Bytes(rd, top)) = top - rd
    BY <1>3, BytesType
  <1>6. rs.capacity = Capacity
    BY <1>2, SMTT(180) DEF AssemblesAt
  <1>7. window_size(r) = Capacity - (top - rd)
    BY <1>1, <1>4, <1>5, <1>6 DEF window_size, current_capacity, buffer_size
  <1>8. rs.output.input_end => top = FinSeqno
    BY <1>2 DEF AssemblesAt
  <1>9. r.isn = PeerIsn /\ r.isn # none
    BY Constants DEF Synced
  <1> QED
    BY <1>1, <1>3, <1>4, <1>7, <1>8, <1>9 DEF stream_out

(* set holds every sequence number that the receiver knows of: the SYN,    *)
(* the bytes assembled or held, and the FIN once the end is known.         *)
Honest(rs, set, top) ==
    /\ 0 \in set
    /\ \A k \in Nat : 1 <= k /\ (k < top \/ Covers(rs.buffer_list, k)) => k \in set
    /\ Ends(rs, rs.buffer_list) => FinSeqno \in set

(* The inductive invariant: the receiver listens and nothing has arrived,  *)
(* or it is synchronised and honest. AckIsHonest by itself is not          *)
(* inductive: what is held ahead of the acknowledgment number has to have  *)
(* arrived too, since a later segment may close the gap.                   *)
IInv ==
    \/ receiver = NewTCPReceiver(Capacity) /\ arrived = {}
    \/ /\ Synced(receiver, output.bytes_read + 1, output.bytes_written + 1)
       /\ Honest(receiver.reassembler, arrived, output.bytes_written + 1)

(* The invariant of a receiver that has had the SYN. *)
LEMMA IInvSynced ==
    ASSUME IInv, receiver.isn # none
    PROVE  \E rd \in Nat, top \in Nat :
              Synced(receiver, rd, top) /\ Honest(receiver.reassembler, arrived, top)
  <1>1. receiver # NewTCPReceiver(Capacity)
    BY DEF NewTCPReceiver
  <1>2. PICK rd, top : rd = output.bytes_read + 1 /\ top = output.bytes_written + 1
    OBVIOUS
  <1>3. Synced(receiver, rd, top) /\ Honest(receiver.reassembler, arrived, top)
    BY <1>1, <1>2 DEF IInv
  <1>4. rd \in Nat /\ top \in Nat
    BY <1>3 DEF Synced
  <1> QED
    BY <1>3, <1>4

(* Synchronised and honest. *)
Good(r, set, rd, top) == Synced(r, rd, top) /\ Honest(r.reassembler, set, top)

(* A synchronised and honest receiver is in the invariant. *)
LEMMA IInvIf ==
    ASSUME NEW rd \in Nat, NEW top \in Nat, Good(receiver', arrived', rd, top)
    PROVE  IInv'
  <1>1. PICK r, set : r = receiver' /\ set = arrived'
    OBVIOUS
  <1>2. Synced(r, rd, top) /\ Honest(r.reassembler, set, top)
    BY <1>1 DEF Good
  <1>3. stream_out(r).bytes_read = rd - 1 /\ stream_out(r).bytes_written = top - 1
    BY <1>2, SyncedParts
  <1>4. stream_out(r).bytes_read + 1 = rd /\ stream_out(r).bytes_written + 1 = top
    BY <1>3
  <1> QED
    BY <1>1, <1>2, <1>4 DEF IInv, output

(* What a step may not take back. *)
Grows(r, new, rd, top, nrd, ntop) ==
    /\ rd <= nrd /\ top <= ntop
    /\ stream_out(r).input_end => stream_out(new).input_end

(* A segment keeps a receiver synchronised and honest, and takes nothing   *)
(* back.                                                                   *)
LEMMA ReceiveKeeps ==
    ASSUME NEW rd \in Nat, NEW top \in Nat, Good(receiver, arrived, rd, top), PeerMay = {},
           NEW from \in 0 .. StreamLength + 2, NEW to \in 0 .. StreamLength + 2,
           SegmentReceived(from, to)
    PROVE  \E ntop \in Nat : Good(receiver', arrived', rd, ntop) /\ Grows(receiver, receiver', rd, top, rd, ntop)
  <1>1. PICK r, new, set, nset : r = receiver /\ new = receiver' /\ set = arrived /\ nset = arrived'
    OBVIOUS
  <1>2. Synced(r, rd, top) /\ Honest(r.reassembler, set, top)
    BY <1>1 DEF Good
  <1>3. PICK F \in Nat, G \in Nat : F = from /\ G = to /\ G <= StreamLength + 2
    BY Constants
  <1>4. /\ F <= G /\ Distance(F, top) < Half
        /\ new = receiver_segment_received(r, PeerSegment(F, G))
        /\ nset = IF new.isn = none THEN {} ELSE set \cup (F .. G - 1)
    BY <1>1, <1>2, <1>3, SyncedParts, ZenonT(180) DEF SegmentReceived
  <1>5. CASE F = 0
    <2>1. G = 1 /\ stream_out(r).bytes_written = 0
      BY <1>1, <1>3, <1>5 DEF SegmentReceived, output
    <2>2. top = 1
      BY <1>2, <2>1, SyncedParts
    <2>3. 1 < Half
      BY <1>4, <1>5, <2>2 DEF Distance
    <2>4. new = r
      BY <1>2, <1>4, <1>5, <2>1, <2>2, <2>3, RepeatedSyn
    <2>5. \A k \in set : k \in nset
      BY <1>2, <1>4, <2>4, SyncedParts, ZenonT(180)
    <2>6. Honest(r.reassembler, nset, top)
      BY <1>2, <2>5 DEF Honest
    <2> QED
      BY <1>1, <1>2, <2>4, <2>6 DEF Good, Grows
  <1>6. CASE F # 0
    <2>1. CanReceive(r, rd, top, F, G)
      BY <1>2, <1>3, <1>4, <1>6 DEF CanReceive
    <2>2. PICK N \in Nat :
             /\ Synced(new, rd, N)
             /\ Pushed(r.reassembler, new.reassembler, top, rd + Capacity,
                       F, Upto(F, G), HasFin(F, G), N)
      BY <1>4, <2>1, ReceiveData, SMTT(180)
    <2>3. nset = set \cup (F .. G - 1)
      BY <1>4, <2>2, SyncedParts, ZenonT(180)
    <2>4. Honest(new.reassembler, nset, N)
      <3>1. PICK rs, ns : rs = r.reassembler /\ ns = new.reassembler
        OBVIOUS
      <3>2. 0 \in nset
        BY <1>2, <2>3 DEF Honest
      <3>3. ASSUME NEW k \in Nat, 1 <= k, k < N \/ Covers(ns.buffer_list, k) PROVE k \in nset
        <4>1. k < top \/ Covers(rs.buffer_list, k) \/ (F <= k /\ k < Upto(F, G))
          BY <2>2, <3>1, <3>3 DEF Pushed
        <4>2. Upto(F, G) \in Nat /\ Upto(F, G) <= G
          BY <1>3, <1>4, Constants DEF Upto
        <4>3. F <= k /\ k < Upto(F, G) => k \in F .. G - 1
          BY <4>2, SMTT(180)
        <4>4. k < top \/ Covers(rs.buffer_list, k) => k \in set
          BY <1>2, <3>1, <3>3 DEF Honest
        <4> QED
          BY <2>3, <4>1, <4>3, <4>4
      <3>4. ASSUME Ends(ns, ns.buffer_list) PROVE FinSeqno \in nset
        <4>1. Ends(rs, rs.buffer_list) \/ HasFin(F, G)
          BY <2>2, <3>1, <3>4, SMTT(180) DEF Pushed
        <4>2. HasFin(F, G) => FinSeqno \in F .. G - 1
          BY Constants DEF HasFin
        <4>3. Ends(rs, rs.buffer_list) => FinSeqno \in set
          BY <1>2, <3>1 DEF Honest
        <4> QED
          BY <2>3, <4>1, <4>2, <4>3
      <3> QED
        BY <3>1, <3>2, <3>3, <3>4 DEF Honest
    <2>5. Grows(r, new, rd, top, rd, N)
      BY <2>2 DEF Grows, Pushed, stream_out
    <2> QED
      BY <1>1, <2>2, <2>4, <2>5 DEF Good
  <1> QED
    BY <1>5, <1>6

(* Reading keeps a receiver synchronised and honest, and takes nothing     *)
(* back.                                                                   *)
LEMMA ReadKeeps ==
    ASSUME NEW rd \in Nat, NEW top \in Nat, Good(receiver, arrived, rd, top),
           NEW len \in 1 .. Capacity, Read(len)
    PROVE  \E nrd \in Nat : Good(receiver', arrived', nrd, top) /\ Grows(receiver, receiver', rd, top, nrd, top)
  <1>1. PICK r, new : r = receiver /\ new = receiver'
    OBVIOUS
  <1>2. Synced(r, rd, top) /\ Honest(r.reassembler, arrived, top)
    BY <1>1 DEF Good
  <1>3. PICK cap \in Nat, end \in Nat, n \in Nat : cap = Capacity /\ end = FinSeqno /\ n = len
    BY Constants
  <1>4. PICK rs, s, l : rs = r.reassembler /\ s = rs.output /\ l = rs.buffer_list
    OBVIOUS
  <1>5. /\ r \in ReceiverRecord /\ r.isn = PeerIsn
        /\ AssemblesAt(rs, 1, cap, end, rd, top)
    BY <1>2, <1>3, <1>4, SMTT(180) DEF Synced
  <1>6. /\ rs \in ReassemblerRecord
        /\ rs.top_pointer = top /\ rs.capacity = cap
        /\ 1 <= rd /\ rd <= top /\ top <= rd + cap /\ top <= end
        /\ Holds(s, cap, rd - 1, top - 1, rd, top)
        /\ s.input_end => top = end
        /\ Stored(l, top, rd + cap, rd + cap + cap, end)
    BY <1>4, <1>5 DEF AssemblesAt
  <1>7. n <= buffer_size(s)
    BY <1>1, <1>3, <1>4 DEF Read, output, stream_out
  <1>8. PICK out : out = stream_read(s, n)
    BY SMTT(180)
  <1>9. PICK a \in Nat, b \in Nat : a = rd - 1 /\ b = top - 1
    BY <1>6
  <1>10. /\ rd + n <= top
         /\ Holds(out, cap, a + n, b, rd + n, top)
         /\ out.input_end = s.input_end
    <2>1. Holds(s, cap, a, b, rd, top) /\ rd <= top
      BY <1>6, <1>9
    <2> QED
      BY <1>7, <1>8, <2>1, ReadBytes, SMTT(180)
  <1>11. PICK nrd \in Nat : nrd = rd + n
    OBVIOUS
  <1>12. PICK nrs : nrs = [rs EXCEPT !.output = out]
    BY ZenonT(180)
  <1>13. /\ nrs \in ReassemblerRecord
         /\ nrs.top_pointer = top /\ nrs.capacity = cap
         /\ nrs.output = out /\ nrs.buffer_list = l
    <2>1. out \in ByteStreamRecord(Nat)
      BY <1>10 DEF Holds
    <2> QED
      BY <1>4, <1>6, <1>12, <2>1, ZenonT(180) DEF ReassemblerRecord
  <1>14. Stored(l, top, nrd + cap, nrd + cap + cap, end)
    <2>1. PICK edge \in Nat, far \in Nat, nedge \in Nat, nfar \in Nat :
             /\ edge = rd + cap /\ far = rd + cap + cap /\ nedge = nrd + cap /\ nfar = nrd + cap + cap
             /\ edge <= nedge /\ far <= nfar
      BY <1>11
    <2>2. Stored(l, top, edge, far, end)
      BY <1>6, <2>1
    <2>3. Stored(l, top, nedge, nfar, end)
      BY <2>1, <2>2, StoredWider, ZenonT(180)
    <2> QED
      BY <2>1, <2>3
  <1>15. AssemblesAt(nrs, 1, cap, end, nrd, top)
    <2>1. Holds(out, cap, nrd - 1, top - 1, nrd, top)
      BY <1>9, <1>10, <1>11
    <2>2. 1 <= nrd /\ nrd <= top /\ top <= nrd + cap
      BY <1>6, <1>10, <1>11, SMTT(180)
    <2> QED
      BY <1>6, <1>10, <1>13, <1>14, <2>1, <2>2 DEF AssemblesAt
  <1>16. new.reassembler = nrs /\ new.isn = PeerIsn /\ new \in ReceiverRecord
    <2>1. new = [r EXCEPT !.reassembler.output = stream_read(@, n)]
      BY <1>1, <1>3, SMTT(180) DEF Read
    <2>2. new = [r EXCEPT !.reassembler = nrs]
      BY <1>4, <1>5, <1>6, <1>8, <1>12, <2>1 DEF ReceiverRecord, ReassemblerRecord
    <2> QED
      BY <1>5, <1>13, <2>2 DEF ReceiverRecord
  <1>17. Synced(new, nrd, top)
    BY <1>3, <1>15, <1>16, SMTT(180) DEF Synced
  <1>18. Honest(new.reassembler, arrived', top)
    BY <1>1, <1>2, <1>4, <1>10, <1>13, <1>16 DEF Honest, Ends, Read
  <1>19. Grows(r, new, rd, top, nrd, top)
    BY <1>4, <1>10, <1>11, <1>13, <1>16, SMTT(180) DEF Grows, stream_out
  <1> QED
    BY <1>1, <1>17, <1>18, <1>19 DEF Good

(* A receiver that listens ignores all but the SYN. *)
LEMMA ListenKeeps ==
    ASSUME receiver = NewTCPReceiver(Capacity), arrived = {}, PeerMay = {}, Next
    PROVE  IInv'
  <1>1. receiver.isn = none /\ output = NewByteStream(Capacity)
    BY DEF NewTCPReceiver, output, stream_out, NewStreamReassembler
  <1>2. ASSUME NEW from \in 0 .. StreamLength + 2, NEW to \in 0 .. StreamLength + 2,
               SegmentReceived(from, to)
        PROVE  IInv'
    <2>1. PICK F \in Nat, G \in Nat : F = from /\ G = to /\ F <= G /\ G <= StreamLength + 2
      BY <1>2, Constants DEF SegmentReceived
    <2>2. PICK seg : seg = PeerSegment(F, G)
      OBVIOUS
    <2>3. /\ receiver' = receiver_segment_received(receiver, seg)
          /\ arrived' = IF receiver'.isn = none THEN {} ELSE arrived \cup (F .. G - 1)
      BY <1>2, <2>1, <2>2, SMTT(180) DEF SegmentReceived
    <2>4. CASE F = 0
      <3>1. G = 1
        BY <1>2, <2>1, <2>4 DEF SegmentReceived
      <3>2. PICK new : new = receiver_segment_received(NewTCPReceiver(Capacity), PeerSegment(0, 1))
        BY SMTT(180)
      <3>3. receiver' = new /\ Synced(new, 1, 1) /\ Opened(new.reassembler)
        BY <2>2, <2>3, <2>4, <3>1, <3>2, ReceiveSyn
      <3>4. arrived' = {0}
        <4>1. new.isn # none
          BY <3>3, Constants DEF Synced
        <4>2. 0 .. 1 - 1 = {0}
          OBVIOUS
        <4> QED
          BY <2>3, <2>4, <3>1, <3>3, <4>1, <4>2
      <3>5. Honest(new.reassembler, {0}, 1)
        <4>1. PICK l : l = new.reassembler.buffer_list
          OBVIOUS
        <4>2. l = <<>> /\ Len(l) = 0
          BY <3>3, <4>1 DEF Opened
        <4>3. \A k \in Nat : ~Covers(l, k)
          BY <4>2 DEF Covers
        <4>4. ~Ends(new.reassembler, l)
          BY <3>3, <4>2, SMTT(180) DEF Opened, Ends, Marked
        <4> QED
          BY <4>1, <4>3, <4>4 DEF Honest
      <3>6. Good(receiver', arrived', 1, 1)
        BY <3>3, <3>4, <3>5 DEF Good
      <3> QED
        BY <3>6, IInvIf
    <2>5. CASE F # 0
      <3>1. seg.syn = FALSE
        <4>1. 1 <= F
          BY <2>5
        <4>2. IsData(seg, F, G)
          BY <2>1, <2>2, <4>1, DataSegment
        <4> QED
          BY <4>2 DEF IsData
      <3>2. receiver' = receiver
        BY <1>1, <2>3, <3>1, SMTT(180) DEF receiver_segment_received
      <3>3. arrived' = {}
        BY <1>1, <2>3, <3>2
      <3> QED
        BY <3>2, <3>3 DEF IInv
    <2> QED
      BY <2>4, <2>5
  <1>3. ASSUME NEW len \in 1 .. Capacity, Read(len)
        PROVE  IInv'
    <2>1. buffer_size(output) = 0
      BY <1>1 DEF NewByteStream, buffer_size
    <2>2. len <= 0
      BY <1>3, <2>1 DEF Read
    <2> QED
      BY <2>2, Constants
  <1> QED
    BY <1>2, <1>3 DEF Next

(* A step of a synchronised receiver: what it keeps and what it cannot     *)
(* take back.                                                              *)
Steps ==
    \E rd, top, nrd, ntop \in Nat :
        /\ Good(receiver, arrived, rd, top) /\ Good(receiver', arrived', nrd, ntop)
        /\ Grows(receiver, receiver', rd, top, nrd, ntop)

(* Every step from a state after the SYN is such a step. *)
LEMMA SyncedStep ==
    ASSUME IInv, receiver.isn # none, PeerMay = {}, [Next]_vars
    PROVE  Steps
  <1>1. PICK rd \in Nat, top \in Nat : Good(receiver, arrived, rd, top)
    BY IInvSynced, SMTT(180) DEF Good
  <1>2. ASSUME NEW from \in 0 .. StreamLength + 2, NEW to \in 0 .. StreamLength + 2,
               SegmentReceived(from, to)
        PROVE  Steps
    <2>1. PICK ntop \in Nat : /\ Good(receiver', arrived', rd, ntop)
                              /\ Grows(receiver, receiver', rd, top, rd, ntop)
      BY <1>1, <1>2, ReceiveKeeps
    <2> QED
      BY <1>1, <2>1 DEF Steps
  <1>3. ASSUME NEW len \in 1 .. Capacity, Read(len)
        PROVE  Steps
    <2>1. PICK nrd \in Nat : /\ Good(receiver', arrived', nrd, top)
                             /\ Grows(receiver, receiver', rd, top, nrd, top)
      BY <1>1, <1>3, ReadKeeps
    <2> QED
      BY <1>1, <2>1, SMTT(180) DEF Steps
  <1>4. CASE UNCHANGED vars
    <2>1. receiver' = receiver /\ arrived' = arrived
      BY <1>4 DEF vars
    <2>2. Good(receiver', arrived', rd, top) /\ Grows(receiver, receiver', rd, top, rd, top)
      BY <1>1, <2>1 DEF Grows
    <2> QED
      BY <1>1, <2>2 DEF Steps
  <1> QED
    BY <1>2, <1>3, <1>4 DEF Next

(* Every step keeps the invariant. *)
LEMMA IInvNext == PeerMay = {} /\ IInv /\ [Next]_vars => IInv'
  <1> SUFFICES ASSUME PeerMay = {}, IInv, [Next]_vars PROVE IInv'
    OBVIOUS
  <1>1. CASE receiver.isn # none
    BY <1>1, SyncedStep, IInvIf DEF Steps
  <1>2. CASE receiver.isn = none
    <2>1. receiver = NewTCPReceiver(Capacity) /\ arrived = {}
      BY <1>2, Constants, SMTT(180) DEF IInv, Synced
    <2>2. CASE Next
      BY <2>1, <2>2, ListenKeeps
    <2>3. CASE UNCHANGED vars
      BY <2>1, <2>3 DEF vars, IInv
    <2> QED
      BY <2>2, <2>3
  <1> QED
    BY <1>1, <1>2

(* The invariant holds at all times, for a peer whose SYN carries no data  *)
(* and does not arrive again once data has been assembled.                 *)
THEOREM InvariantTheorem ==
    ASSUME PeerMay = {}
    PROVE  Spec => []IInv
  <1>1. Init => IInv
    BY DEF Init, IInv
  <1>2. IInv /\ [Next]_vars => IInv'
    BY IInvNext
  <1> QED
    BY <1>1, <1>2, PTL DEF Spec

-----------------------------------------------------------------------------
(* What the invariant implies. *)

(* The invariant implies InOrder. *)
LEMMA IInvInOrder == IInv => InOrder
  <1> SUFFICES ASSUME IInv PROVE InOrder
    OBVIOUS
  <1>1. CASE receiver.isn # none
    <2>1. PICK rd \in Nat, top \in Nat : Synced(receiver, rd, top)
      BY <1>1, IInvSynced, SMTT(180)
    <2>2. /\ rd <= top /\ output.bytes_read = rd - 1 /\ output.bytes_written = top - 1
          /\ output.buffers = Bytes(rd, top) /\ (output.input_end => top = FinSeqno)
      BY <2>1, SyncedParts DEF output
    <2>3. Bytes(rd, top) = [i \in 1 .. (top - 1) - (rd - 1) |-> (rd - 1) + i]
      BY DEF Bytes
    <2> QED
      BY <2>2, <2>3, Constants DEF InOrder
  <1>2. CASE receiver.isn = none
    <2>1. receiver = NewTCPReceiver(Capacity)
      BY <1>2, Constants DEF IInv, Synced
    <2>2. /\ output.buffers = <<>> /\ output.bytes_written = 0 /\ output.bytes_read = 0
          /\ output.input_end = FALSE
      BY <2>1 DEF NewTCPReceiver, NewStreamReassembler, NewByteStream, output, stream_out
    <2>3. <<>> = [i \in 1 .. 0 - 0 |-> 0 + i]
      BY SMTT(180)
    <2> QED
      BY <2>2, <2>3, SMTT(180) DEF InOrder
  <1> QED
    BY <1>1, <1>2

(* Adding 1 or 2 on the circle after wrapping, as ackno does, is wrapping  *)
(* the sum.                                                                *)
LEMMA WrapAdds ==
    ASSUME NEW n \in Nat, NEW d \in {1, 2}
    PROVE  plus(wrap(n, PeerIsn), d) = wrap(n + d, PeerIsn)
  <1>1. PICK m \in Nat \ {0} : m = Modulus
    BY Widths
  <1>2. PICK x \in Nat, e \in Nat : x = PeerIsn + n /\ e = d /\ x + e = PeerIsn + (n + d)
    BY Constants
  <1>3. PICK q \in Int, y \in 0 .. m - 1 : y = x % m /\ x = (q * m) + y
    <2>1. x % m \in 0 .. m - 1 /\ x \div m \in Int /\ x = ((x \div m) * m) + (x % m)
      BY DivMod
    <2> QED
      BY <2>1, ZenonT(180)
  <1>4. PICK p \in Int, z \in 0 .. m - 1 : z = (y + e) % m /\ y + e = (p * m) + z
    <2>1. PICK w \in Int : w = y + e
      OBVIOUS
    <2>2. w % m \in 0 .. m - 1 /\ w \div m \in Int /\ w = ((w \div m) * m) + (w % m)
      BY DivMod
    <2> QED
      BY <2>1, <2>2
  <1>5. x + e = ((q + p) * m) + z
    <2>1. (q + p) * m = (q * m) + (p * m)
      BY Z3
    <2>2. q * m \in Int /\ p * m \in Int
      BY Multiples
    <2> QED
      BY <1>3, <1>4, <2>1, <2>2
  <1>6. PICK k \in Int, s \in Int : k = q + p /\ s = x + e
    BY SMTT(180)
  <1>7. s = (k * m) + z
    BY <1>5, <1>6
  <1>8. s % m = z
    BY <1>7, DivModUnique
  <1> QED
    BY <1>1, <1>2, <1>3, <1>4, <1>6, <1>8 DEF plus, wrap

(* The invariant implies AckIsHonest. *)
LEMMA IInvAckIsHonest == IInv => AckIsHonest
  <1> SUFFICES ASSUME IInv, receiver.isn # none
               PROVE  ackno(receiver) = wrap(Acked, PeerIsn) /\ 0 .. Acked - 1 \subseteq arrived
    BY DEF AckIsHonest
  <1>1. PICK rd \in Nat, top \in Nat :
           Synced(receiver, rd, top) /\ Honest(receiver.reassembler, arrived, top)
    BY IInvSynced
  <1>2. /\ 1 <= rd /\ rd <= top /\ output.bytes_written = top - 1 /\ output.input_end \in BOOLEAN
        /\ (output.input_end => top = FinSeqno) /\ receiver.isn = PeerIsn
    BY <1>1, SyncedParts, SMTT(180) DEF output
  <1>3. PICK n \in Nat, d \in {1, 2} : n = top - 1 /\ d = IF output.input_end THEN 2 ELSE 1
    BY <1>2
  <1>4. Acked = n + d
    BY <1>2, <1>3 DEF Acked
  <1>5. ackno(receiver) = plus(wrap(n, PeerIsn), d)
    BY <1>2, <1>3, SMTT(180) DEF ackno, output
  <1>6. ASSUME NEW k \in 0 .. Acked - 1 PROVE k \in arrived
    <2>1. k \in Nat /\ (k = 0 \/ (1 <= k /\ k < top) \/ (output.input_end /\ k = FinSeqno))
      BY <1>2, <1>3, <1>4
    <2>2. output.input_end => Ends(receiver.reassembler, receiver.reassembler.buffer_list)
      BY SMTT(180) DEF Ends, output, stream_out
    <2> QED
      BY <1>1, <2>1, <2>2 DEF Honest
  <1> QED
    BY <1>4, <1>5, <1>6, WrapAdds, SMTT(180)

(* The invariant implies WindowIsAccepted. *)
LEMMA IInvWindowIsAccepted == IInv => WindowIsAccepted
  <1> SUFFICES ASSUME IInv, receiver.isn # none,
                      NEW a \in Acked .. Acked + window_size(receiver) - 1, a <= StreamLength
               PROVE  LET after == receiver_segment_received(receiver, PeerSegment(a, a + 1))
                      IN  a \in held(after.reassembler) \/ a <= stream_out(after).bytes_written
    BY SMTT(180) DEF WindowIsAccepted
  <1>1. PICK rd \in Nat, top \in Nat : Synced(receiver, rd, top)
    BY IInvSynced
  <1>2. /\ 1 <= rd /\ rd <= top /\ output.bytes_written = top - 1 /\ output.input_end \in BOOLEAN
        /\ (output.input_end => top = FinSeqno) /\ window_size(receiver) = Capacity - (top - rd)
        /\ top <= rd + Capacity
    BY <1>1, SyncedParts DEF output
  <1>3. ~output.input_end
    <2> SUFFICES ASSUME output.input_end PROVE FALSE
      OBVIOUS
    <2>1. Acked = StreamLength + 2
      BY <1>2, Constants DEF Acked
    <2> QED
      BY <1>2, <2>1, Constants, SMTT(180)
  <1>4. PICK A \in Nat : A = a /\ top <= A /\ A < rd + Capacity /\ A <= StreamLength
    <2>1. Acked = top
      BY <1>2, <1>3 DEF Acked
    <2> QED
      BY <1>2, <2>1, Constants, SMTT(180)
  <1>5. PICK after : after = receiver_segment_received(receiver, PeerSegment(A, A + 1))
    OBVIOUS
  <1>6. CanReceive(receiver, rd, top, A, A + 1)
    <2>1. Distance(A, top) < Half
      BY <1>2, <1>4, Constants DEF Distance
    <2> QED
      BY <1>1, <1>2, <1>4, <2>1, Constants, SMTT(180) DEF CanReceive
  <1>7. PICK N \in Nat :
           /\ Synced(after, rd, N)
           /\ Pushed(receiver.reassembler, after.reassembler, top, rd + Capacity,
                     A, Upto(A, A + 1), HasFin(A, A + 1), N)
    BY <1>5, <1>6, ReceiveData, SMTT(180)
  <1>8. Upto(A, A + 1) = A + 1
    BY <1>4, Constants DEF Upto
  <1>9. A < N \/ Covers(after.reassembler.buffer_list, A)
    BY <1>4, <1>7, <1>8, SMTT(180) DEF Pushed
  <1>10. after.reassembler.buffer_list \in Seq(BufferStringRecord(Nat))
    BY <1>7 DEF Synced, AssemblesAt, Stored
  <1>11. Covers(after.reassembler.buffer_list, A) => A \in held(after.reassembler)
    BY <1>10, HeldIsCovered, SMTT(180)
  <1>12. A < N => A <= stream_out(after).bytes_written
    BY <1>7, SyncedParts
  <1> QED
    BY <1>4, <1>5, <1>9, <1>11, <1>12

(* The application gets the bytes of the peer in order, each once,         *)
(* whatever segments reach segment_received, in whatever order; for every  *)
(* capacity, every length of the stream, every initial sequence number and *)
(* every width of the sequence numbers.                                    *)
THEOREM OrderTheorem ==
    ASSUME PeerMay = {}
    PROVE  Spec => []InOrder
  BY InvariantTheorem, IInvInOrder, PTL

(* ackno() is the wrapped number of the next byte (or of what follows the  *)
(* FIN), and everything below it has arrived.                              *)
THEOREM AckTheorem ==
    ASSUME PeerMay = {}
    PROVE  Spec => []AckIsHonest
  BY InvariantTheorem, IInvAckIsHonest, PTL

(* A byte sent inside the window that window_size() advertises is          *)
(* assembled or held when it arrives: the peer need not send it again.     *)
THEOREM AcceptTheorem ==
    ASSUME PeerMay = {}
    PROVE  Spec => []WindowIsAccepted
  BY InvariantTheorem, IInvWindowIsAccepted, PTL

(* Neither ackno() nor the right edge of the window ever moves back. *)
THEOREM WindowTheorem ==
    ASSUME PeerMay = {}
    PROVE  Spec => WindowNeverShrinks
  <1> DEFINE A == receiver.isn # none =>
                     /\ Acked' >= Acked
                     /\ (Acked + window_size(receiver))' >= Acked + window_size(receiver)
  <1>1. IInv /\ [Next]_vars => [A]_vars
    <2> SUFFICES ASSUME IInv, [Next]_vars, receiver.isn # none PROVE A
      OBVIOUS
    <2>1. PICK rd \in Nat, top \in Nat, nrd \in Nat, ntop \in Nat :
             /\ Good(receiver, arrived, rd, top) /\ Good(receiver', arrived', nrd, ntop)
             /\ Grows(receiver, receiver', rd, top, nrd, ntop)
      BY SyncedStep, SMTT(180) DEF Steps
    <2>2. /\ rd <= nrd /\ top <= ntop
          /\ stream_out(receiver).input_end => stream_out(receiver').input_end
      BY <2>1 DEF Grows
    <2>3. /\ stream_out(receiver).bytes_written = top - 1
          /\ stream_out(receiver).input_end \in BOOLEAN
          /\ window_size(receiver) = Capacity - (top - rd)
      BY <2>1, SyncedParts DEF Good
    <2>4. /\ stream_out(receiver').bytes_written = ntop - 1
          /\ stream_out(receiver').input_end \in BOOLEAN
          /\ window_size(receiver') = Capacity - (ntop - nrd)
      BY <2>1, SyncedParts, SMTT(180) DEF Good
    <2>5. PICK e \in {1, 2}, ne \in {1, 2} :
             /\ e = IF stream_out(receiver).input_end THEN 2 ELSE 1
             /\ ne = IF stream_out(receiver').input_end THEN 2 ELSE 1
             /\ e <= ne
      BY <2>2, <2>3, <2>4
    <2>6. Acked = (top - 1) + e /\ Acked' = (ntop - 1) + ne
      BY <2>3, <2>4, <2>5 DEF Acked, output
    <2>7. (Acked + window_size(receiver))' = Acked' + window_size(receiver')
      OBVIOUS
    <2>8. PICK c \in Nat : c = Capacity
      BY Constants
    <2>9. /\ Acked + window_size(receiver) = c + rd + e - 1
          /\ Acked' + window_size(receiver') = c + nrd + ne - 1
      BY <2>3, <2>4, <2>6, <2>8, SMTT(180)
    <2>10. /\ Acked' >= Acked
           /\ Acked' + window_size(receiver') >= Acked + window_size(receiver)
      BY <2>2, <2>5, <2>6, <2>9
    <2> QED
      BY <2>7, <2>10
  <1> HIDE DEF A
  <1>2. Spec => [][A]_vars
    BY <1>1, InvariantTheorem, PTL DEF Spec
  <1> QED
    BY <1>2 DEF A, WindowNeverShrinks
=============================================================================
