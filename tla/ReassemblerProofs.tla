------------------------- MODULE ReassemblerProofs --------------------------
(***************************************************************************)
(* Proofs about ReassemblerSpec: a StreamReassembler of any capacity that  *)
(* is given excerpts of a stream of any length, in any order. The work is  *)
(* done in ReassemblerLemmas; here its invariant is carried through the    *)
(* steps of the specification.                                             *)
(***************************************************************************)
EXTENDS ReassemblerSpec, ReassemblerLemmas

USE SMTT(180)

(* The inductive invariant: AssemblesAt, for a stream that starts at index *)
(* 0. InOrder, ListWellFormed, EndsAtEnd and TwiceTheCapacity are parts of *)
(* it; none is inductive by itself, since what goes to the output comes    *)
(* from the list, and the list is searched on the assumption that it is    *)
(* ordered.                                                                *)
IInv ==
    AssemblesAt(reassembler, 0, Capacity, StreamLength, output.bytes_read, reassembler.top_pointer)

(* The counters of a reassembler in the invariant are numbers. *)
LEMMA IInvParts ==
    ASSUME IInv
    PROVE  \E rd \in Nat, top \in Nat :
              /\ AssemblesAt(reassembler, 0, Capacity, StreamLength, rd, top)
              /\ rd = output.bytes_read /\ top = reassembler.top_pointer
  <1>1. output.bytes_read \in Nat /\ reassembler.top_pointer \in Nat
    BY DEF IInv, AssemblesAt, ReassemblerRecord, ByteStreamRecord, output
  <1> QED
    BY <1>1 DEF IInv

(* A reassembler in the invariant has the counters it is said to have.     *)
LEMMA IInvIf ==
    ASSUME NEW r, NEW rd \in Nat, NEW top \in Nat,
           AssemblesAt(r, 0, Capacity, StreamLength, rd, top)
    PROVE  r.output.bytes_read = rd /\ r.top_pointer = top
  BY DEF AssemblesAt, Holds

(* The constructor establishes the invariant. *)
LEMMA IInvInit == Init => IInv
  <1> SUFFICES ASSUME Init PROVE IInv
    OBVIOUS
  <1>1. PICK b : b = Bytes(0, 0)
    OBVIOUS
  <1>2. b = <<>>
    BY <1>1, BytesEmpty
  <1>3. PICK s : s = NewByteStream(Capacity)
    OBVIOUS
  <1>4. /\ s.capacity = Capacity /\ s.bytes_read = 0 /\ s.bytes_written = 0 /\ s.buffers = <<>>
        /\ s.input_end = FALSE
    BY <1>3 DEF NewByteStream
  <1>5. s \in ByteStreamRecord(Nat)
    <2>1. <<>> \in Seq(Nat)
      OBVIOUS
    <2>2. PICK e \in Seq(Nat) : e = <<>>
      BY <2>1, ZenonT(180)
    <2>3. Capacity \in Nat
      BY ReassemblerAssumption
    <2> QED
      BY <1>3, <2>2, <2>3 DEF NewByteStream, ByteStreamRecord
  <1>6. Holds(s, Capacity, 0, 0, 0, 0)
    BY <1>1, <1>2, <1>4, <1>5 DEF Holds
  <1>7. PICK l \in Seq(BufferStringRecord(Nat)) : l = <<>> /\ Len(l) = 0
    <2>1. <<>> \in Seq(BufferStringRecord(Nat)) /\ Len(<<>>) = 0
      OBVIOUS
    <2> QED
      BY <2>1, ZenonT(180)
  <1>8. Stored(l, 0, 0 + Capacity, 0 + Capacity + Capacity, StreamLength)
    BY <1>7 DEF Stored, Ordered
  <1>9. reassembler = [top_pointer |-> 0, output |-> s, capacity |-> Capacity, buffer_list |-> l]
    BY <1>3, <1>7 DEF Init, NewStreamReassembler
  <1>10. reassembler \in ReassemblerRecord
    BY <1>5, <1>9, ReassemblerAssumption DEF ReassemblerRecord
  <1>11. /\ reassembler.top_pointer = 0 /\ reassembler.capacity = Capacity
         /\ reassembler.output = s /\ reassembler.buffer_list = l
    BY <1>9
  <1>12. AssemblesAt(reassembler, 0, Capacity, StreamLength, 0, 0)
    BY <1>4, <1>6, <1>8, <1>10, <1>11, ReassemblerAssumption DEF AssemblesAt
  <1> QED
    BY <1>4, <1>11, <1>12 DEF IInv, output

(* What a step of the reassembler may not lose: a held byte stays held or  *)
(* is assembled.                                                           *)
Kept(r, new) ==
    /\ \A k \in Nat : Covers(r.buffer_list, k) => Covers(new.buffer_list, k) \/ k < new.top_pointer

(* push_substring keeps the invariant, and every byte that was held. *)
LEMMA PushKeepsIInv ==
    ASSUME IInv, NEW from \in 0 .. StreamLength, NEW to \in 0 .. StreamLength,
           NEW eof_flag \in BOOLEAN, PushSubstring(from, to, eof_flag)
    PROVE  IInv' /\ Kept(reassembler, reassembler')
  <1>1. PICK rd \in Nat, top \in Nat :
           AssemblesAt(reassembler, 0, Capacity, StreamLength, rd, top)
    BY IInvParts
  <1>2. CanPush(reassembler, 0, Capacity, StreamLength, rd, top, from, to, eof_flag)
    BY <1>1, ReassemblerAssumption DEF CanPush, PushSubstring, Inside
  <1>3. PICK new : new = push_substring(reassembler, Bytes(from, to), from, eof_flag)
    OBVIOUS
  <1>4. PICK ntop \in Nat :
           /\ AssemblesAt(new, 0, Capacity, StreamLength, rd, ntop)
           /\ Pushed(reassembler, new, top, rd + Capacity, from, to, eof_flag, ntop)
    BY <1>2, <1>3, PushSubstringStep
  <1>5. reassembler' = new
    BY <1>3 DEF PushSubstring, Excerpt, Bytes
  <1>6. new.output.bytes_read = rd /\ new.top_pointer = ntop
    BY <1>4, IInvIf, ZenonT(180)
  <1>7. IInv'
    BY <1>4, <1>5, <1>6 DEF IInv, output
  <1>8. Kept(reassembler, new)
    BY <1>4, <1>6 DEF Pushed, Kept
  <1> QED
    BY <1>5, <1>7, <1>8

(* Reading the output keeps the invariant: the window moves on, so that    *)
(* what is stored stays within its limits.                                 *)
LEMMA ReadKeepsIInv ==
    ASSUME IInv, NEW len \in 1 .. Capacity, Read(len)
    PROVE  IInv' /\ Kept(reassembler, reassembler')
  <1>1. PICK rd \in Nat, top \in Nat :
           AssemblesAt(reassembler, 0, Capacity, StreamLength, rd, top)
    BY IInvParts
  <1>2. PICK cap \in Nat, end \in Nat, n \in Nat : cap = Capacity /\ end = StreamLength /\ n = len
    BY ReassemblerAssumption
  <1>3. PICK s, l : s = output /\ l = reassembler.buffer_list
    OBVIOUS
  <1>4. /\ reassembler \in ReassemblerRecord
        /\ reassembler.top_pointer = top /\ reassembler.capacity = cap
        /\ rd <= top /\ top <= rd + cap /\ top <= end
        /\ Holds(s, cap, rd, top, rd, top)
        /\ s.input_end => top = end
        /\ Stored(l, top, rd + cap, rd + cap + cap, end)
    BY <1>1, <1>2, <1>3 DEF AssemblesAt, output
  <1>5. n <= buffer_size(s)
    BY <1>2, <1>3 DEF Read
  <1>6. PICK out : out = stream_read(s, n)
    OBVIOUS
  <1>7. /\ rd + n <= top
        /\ Holds(out, cap, rd + n, top, rd + n, top)
        /\ out.input_end = s.input_end
    BY <1>4, <1>5, <1>6, ReadBytes
  <1>8. PICK nrd \in Nat : nrd = rd + n
    OBVIOUS
  <1>9. /\ reassembler' \in ReassemblerRecord
        /\ reassembler'.top_pointer = top /\ reassembler'.capacity = cap
        /\ reassembler'.output = out /\ reassembler'.buffer_list = l
    <2>1. out \in ByteStreamRecord(Nat)
      BY <1>7 DEF Holds
    <2>2. reassembler' = [reassembler EXCEPT !.output = out]
      BY <1>2, <1>3, <1>6 DEF Read, output
    <2> QED
      BY <1>3, <1>4, <2>1, <2>2, SMTT(180) DEF ReassemblerRecord
  <1>10. Stored(l, top, nrd + cap, nrd + cap + cap, end)
    <2>1. PICK edge \in Nat, far \in Nat, nedge \in Nat, nfar \in Nat :
             /\ edge = rd + cap /\ far = rd + cap + cap /\ nedge = nrd + cap /\ nfar = nrd + cap + cap
             /\ edge <= nedge /\ far <= nfar
      BY <1>8
    <2>2. Stored(l, top, edge, far, end)
      BY <1>4, <2>1
    <2>3. Stored(l, top, nedge, nfar, end)
      BY <2>1, <2>2, StoredWider, SMTT(180)
    <2> QED
      BY <2>1, <2>3
  <1>11. AssemblesAt(reassembler', 0, cap, end, nrd, top)
    <2>1. Holds(out, cap, nrd - 0, top - 0, nrd, top)
      BY <1>7, <1>8
    <2>2. 0 <= nrd /\ nrd <= top /\ top <= nrd + cap
      BY <1>4, <1>7, <1>8
    <2> QED
      BY <1>4, <1>7, <1>9, <1>10, <2>1, <2>2 DEF AssemblesAt
  <1>12. out.bytes_read = nrd
    BY <1>7, <1>8, SMTT(180) DEF Holds
  <1>13. IInv'
    BY <1>2, <1>9, <1>11, <1>12 DEF IInv, output
  <1> QED
    BY <1>3, <1>9, <1>13 DEF Kept

(* Every step keeps the invariant and every byte that was held. *)
LEMMA IInvNext == IInv /\ [Next]_vars => IInv' /\ Kept(reassembler, reassembler')
  <1> SUFFICES ASSUME IInv, [Next]_vars PROVE IInv' /\ Kept(reassembler, reassembler')
    OBVIOUS
  <1>1. ASSUME NEW from \in 0 .. StreamLength, NEW to \in 0 .. StreamLength,
               NEW eof_flag \in BOOLEAN, PushSubstring(from, to, eof_flag)
        PROVE  IInv' /\ Kept(reassembler, reassembler')
    BY <1>1, PushKeepsIInv
  <1>2. ASSUME NEW len \in 1 .. Capacity, Read(len)
        PROVE  IInv' /\ Kept(reassembler, reassembler')
    BY <1>2, ReadKeepsIInv
  <1>3. CASE UNCHANGED vars
    BY <1>3 DEF vars, IInv, output, Kept
  <1> QED
    BY <1>1, <1>2, <1>3 DEF Next

(* The invariant holds at all times, whatever excerpts push_substring is   *)
(* given and however the output is read.                                   *)
THEOREM InvariantTheorem == Spec => []IInv
  <1>1. IInv /\ [Next]_vars => IInv'
    BY IInvNext
  <1> QED
    BY <1>1, IInvInit, PTL DEF Spec

-----------------------------------------------------------------------------
(* What the invariant implies. *)

(* The invariant implies InOrder. *)
LEMMA IInvInOrder == IInv => InOrder
  <1> SUFFICES ASSUME IInv PROVE InOrder
    OBVIOUS
  <1>1. PICK rd \in Nat, top \in Nat :
           /\ AssemblesAt(reassembler, 0, Capacity, StreamLength, rd, top)
           /\ rd = output.bytes_read /\ top = reassembler.top_pointer
    BY IInvParts
  <1>2. /\ rd <= top /\ top <= rd + Capacity
        /\ output.bytes_written = top /\ output.buffers = Bytes(rd, top)
    BY <1>1 DEF AssemblesAt, Holds, output
  <1>3. Len(Bytes(rd, top)) = top - rd
    BY <1>2, BytesType
  <1>4. Len(output.buffers) <= Capacity
    BY <1>2, <1>3, ReassemblerAssumption
  <1>5. output.bytes_read + Len(output.buffers) = output.bytes_written
    BY <1>1, <1>2, <1>3, SMTT(180)
  <1>6. output.buffers = Excerpt(output.bytes_read, output.bytes_written)
    BY <1>1, <1>2 DEF Excerpt, Bytes
  <1> QED
    BY <1>1, <1>2, <1>4, <1>5, <1>6 DEF InOrder

(* The limits of the list, as numbers. *)
LEMMA IInvList ==
    ASSUME IInv
    PROVE  \E rd \in Nat, top \in Nat, edge \in Nat, far \in Nat, end \in Nat :
              /\ rd = output.bytes_read /\ top = reassembler.top_pointer
              /\ edge = output.bytes_read + Capacity /\ far = output.bytes_read + 2 * Capacity
              /\ end = StreamLength
              /\ Stored(list, top, edge, far, end)
  <1>1. PICK rd \in Nat, top \in Nat :
           /\ AssemblesAt(reassembler, 0, Capacity, StreamLength, rd, top)
           /\ rd = output.bytes_read /\ top = reassembler.top_pointer
    BY IInvParts
  <1>2. PICK edge \in Nat, far \in Nat, end \in Nat :
           /\ edge = rd + Capacity /\ far = rd + Capacity + Capacity /\ far = rd + 2 * Capacity
           /\ end = StreamLength
    BY ReassemblerAssumption
  <1>3. Stored(list, top, edge, far, end)
    BY <1>1, <1>2 DEF AssemblesAt, list
  <1> QED
    BY <1>1, <1>2, <1>3

(* The invariant implies ListWellFormed. *)
LEMMA IInvListWellFormed == IInv => ListWellFormed
  <1> SUFFICES ASSUME IInv PROVE ListWellFormed
    OBVIOUS
  <1>1. PICK rd \in Nat, top \in Nat, edge \in Nat, far \in Nat, end \in Nat :
           /\ rd = output.bytes_read /\ top = reassembler.top_pointer
           /\ edge = output.bytes_read + Capacity
           /\ Stored(list, top, edge, far, end)
    BY IInvList
  <1>2. PICK l : l = list
    OBVIOUS
  <1>3. l \in Seq(BufferStringRecord(Nat)) /\ Ordered(l)
    BY <1>1, <1>2 DEF Stored
  <1>4. DOMAIN l = 1 .. Len(l)
    BY <1>3
  <1>5. \A i, j \in DOMAIN list : i < j => second(list[i]) < list[j].first
    BY <1>2, <1>3, <1>4 DEF Ordered
  <1>6. ASSUME NEW i \in DOMAIN list
        PROVE  /\ list[i].first >= reassembler.top_pointer
               /\ list[i].first <= output.bytes_read + Capacity
               /\ list[i].str = Excerpt(list[i].first, second(list[i]))
    <2>1. Fits(list[i], top, edge, far, end)
      BY <1>1, <1>2, <1>4 DEF Stored
    <2>2. PICK f \in Nat, t \in Nat : Within(list[i], f, t, top, edge, far, end)
      BY <2>1, FitsParts
    <2>3. /\ list[i].first = f /\ second(list[i]) = t /\ list[i].str = Bytes(f, t)
          /\ top <= f /\ f <= edge
      BY <2>2 DEF Within, Spans
    <2>4. list[i].str = Excerpt(list[i].first, second(list[i]))
      BY <2>3 DEF Excerpt, Bytes
    <2> QED
      BY <1>1, <2>3, <2>4
  <1> QED
    BY <1>5, <1>6 DEF ListWellFormed

(* The invariant implies EndsAtEnd. *)
LEMMA IInvEndsAtEnd == IInv => EndsAtEnd
  <1> SUFFICES ASSUME IInv PROVE EndsAtEnd
    OBVIOUS
  <1>1. PICK rd \in Nat, top \in Nat, edge \in Nat, far \in Nat, end \in Nat :
           /\ rd = output.bytes_read /\ top = reassembler.top_pointer
           /\ end = StreamLength
           /\ Stored(list, top, edge, far, end)
    BY IInvList
  <1>2. output.input_end => top = StreamLength
    BY <1>1 DEF IInv, AssemblesAt, output
  <1>3. output.bytes_written = top
    BY <1>1, IInvInOrder DEF InOrder
  <1>4. ASSUME NEW i \in DOMAIN list, list[i].eof PROVE second(list[i]) = StreamLength
    <2>1. DOMAIN list = 1 .. Len(list)
      BY <1>1 DEF Stored
    <2> QED
      BY <1>1, <1>4, <2>1 DEF Stored, Fits
  <1> QED
    BY <1>2, <1>3, <1>4 DEF EndsAtEnd

(* The invariant implies TwiceTheCapacity. *)
LEMMA IInvTwiceTheCapacity == IInv => TwiceTheCapacity
  <1> SUFFICES ASSUME IInv, NEW k \in held(reassembler)
               PROVE  k < output.bytes_read + 2 * Capacity
    BY DEF TwiceTheCapacity
  <1>1. PICK rd \in Nat, top \in Nat, edge \in Nat, far \in Nat, end \in Nat :
           /\ far = output.bytes_read + 2 * Capacity
           /\ Stored(list, top, edge, far, end)
    BY IInvList
  <1>2. list \in Seq(BufferStringRecord(Nat))
    BY <1>1 DEF Stored
  <1>3. k \in Nat /\ Covers(list, k)
    BY <1>2, HeldIsCovered DEF list
  <1>4. PICK i \in 1 .. Len(list) : k < second(list[i])
    BY <1>3 DEF Covers
  <1>5. PICK t \in Nat : t = second(list[i]) /\ t <= far
    BY <1>1, <1>2, ElementType DEF Stored, Fits
  <1> QED
    BY <1>1, <1>3, <1>4, <1>5

(* Whatever the order, overlap, repetition and cut of the excerpts given   *)
(* to push_substring, the output is the stream, from its first byte on,    *)
(* and never more than the capacity. For every capacity and every length   *)
(* of the stream.                                                          *)
THEOREM OrderTheorem == Spec => []InOrder
  BY InvariantTheorem, IInvInOrder, PTL

(* The excerpts that push_back keeps are always in ascending order with    *)
(* gaps between them, hold the bytes of the stream, and start inside the   *)
(* window: its binary searches are always entitled to their assumption.    *)
THEOREM WellFormedTheorem == Spec => []ListWellFormed
  BY InvariantTheorem, IInvListWellFormed, PTL

(* The output ends exactly at the end of the stream, and only an excerpt   *)
(* that reaches it is marked eof.                                          *)
THEOREM EndTheorem == Spec => []EndsAtEnd
  BY InvariantTheorem, IInvEndsAtEnd, PTL

(* No byte is held that lies twice the capacity or more beyond the next    *)
(* byte to be read.                                                        *)
THEOREM BoundTheorem == Spec => []TwiceTheCapacity
  BY InvariantTheorem, IInvTwiceTheCapacity, PTL

(* No step of push_substring or of the reader drops a byte that was held:  *)
(* it stays held until it is assembled.                                    *)
THEOREM RetentionTheorem == Spec => AcceptedIsKept
  <1> DEFINE A == \A k \in held(reassembler) :
                     k \in held(reassembler') \/ k < reassembler'.top_pointer
  <1>1. IInv /\ [Next]_vars => [A]_vars
    <2> SUFFICES ASSUME IInv, [Next]_vars PROVE A
      OBVIOUS
    <2>1. Kept(reassembler, reassembler') /\ IInv'
      BY IInvNext
    <2>2. /\ reassembler.buffer_list \in Seq(BufferStringRecord(Nat))
          /\ reassembler'.buffer_list \in Seq(BufferStringRecord(Nat))
      BY <2>1 DEF IInv, AssemblesAt, Stored
    <2> SUFFICES ASSUME NEW k \in held(reassembler)
                 PROVE  k \in held(reassembler') \/ k < reassembler'.top_pointer
      OBVIOUS
    <2>3. k \in Nat /\ Covers(reassembler.buffer_list, k)
      BY <2>2, HeldIsCovered
    <2>4. Covers(reassembler'.buffer_list, k) \/ k < reassembler'.top_pointer
      BY <2>1, <2>3 DEF Kept
    <2> QED
      BY <2>2, <2>3, <2>4, HeldIsCovered
  <1> HIDE DEF A
  <1>2. Spec => [][A]_vars
    BY <1>1, InvariantTheorem, PTL DEF Spec
  <1> QED
    BY <1>2 DEF A, AcceptedIsKept
=============================================================================
