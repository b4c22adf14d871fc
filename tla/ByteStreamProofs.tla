-------------------------- MODULE ByteStreamProofs --------------------------
(***************************************************************************)
(* Proofs about ByteStreamSpec: for every capacity, every length of string *)
(* and whatever the clients are allowed to do, the stream is a FIFO.       *)
(***************************************************************************)
EXTENDS ByteStreamSpec, TLAPS

USE SMTT(180)

(* The n bytes of the writer that follow the first lo. *)
Run(lo, n) == [i \in 1 .. n |-> lo + i]

(* Runs are sequences of bytes, of the length they seem to have.           *)
LEMMA RunType ==
    ASSUME NEW lo \in Nat, NEW n \in Nat
    PROVE  Run(lo, n) \in Seq(Nat) /\ Len(Run(lo, n)) = n
  BY DEF Run

(* A prefix of a run is a run, as when write accepts part of a string.     *)
LEMMA RunPrefix ==
    ASSUME NEW lo \in Nat, NEW n \in Nat, NEW j \in 0 .. n
    PROVE  SubSeq(Run(lo, n), 1, j) = Run(lo, j)
  BY DEF Run

(* What is left of a run after a prefix, as remove_prefix leaves it.       *)
LEMMA RunRest ==
    ASSUME NEW lo \in Nat, NEW n \in Nat, NEW j \in 0 .. n
    PROVE  SubSeq(Run(lo, n), j + 1, n) = Run(lo + j, n - j)
  BY DEF Run

(* Two runs that meet are one, as when write appends to the buffer.        *)
LEMMA RunConcat ==
    ASSUME NEW lo \in Nat, NEW a \in Nat, NEW b \in Nat
    PROVE  Run(lo, a) \o Run(lo + a, b) = Run(lo, a + b)
  BY DEF Run

(* FifoOrder is inductive together with the types: the buffer is the run   *)
(* of bytes between the two counters.                                      *)
IInv ==
    /\ TypeOK
    /\ FifoOrder

(* The members an empty stream starts from.                                *)
LEMMA EmptyBuffer == \E b \in Seq(Nat) : b = <<>>
  <1>1. <<>> \in Seq(Nat)
    OBVIOUS
  <1> QED
    BY <1>1, ZenonT(180)

(* Between calls the buffer is the run from bytes_read to bytes_written.   *)
LEMMA BufferIsRun ==
    ASSUME IInv, ~failed
    PROVE  \E lo, n \in Nat :
              /\ n <= Capacity
              /\ stream.bytes_read = lo /\ stream.bytes_written = lo + n
              /\ stream.buffers = Run(lo, n) /\ buffer_size(stream) = n
  <1>1. PICK lo \in Nat, hi \in Nat : stream.bytes_read = lo /\ stream.bytes_written = hi
    BY DEF IInv, TypeOK, ByteStreamRecord
  <1>2. hi - lo \in 0 .. Capacity /\ stream.buffers = Run(lo, hi - lo)
    BY <1>1 DEF IInv, FifoOrder, Run
  <1>3. PICK n \in Nat : n = hi - lo /\ n <= Capacity
    BY <1>1, <1>2, ByteStreamAssumption
  <1>4. Len(Run(lo, n)) = n
    BY RunType
  <1> QED
    BY <1>1, <1>2, <1>3, <1>4 DEF buffer_size

(* A write appends the run that fits.                                      *)
LEMMA WritePreserves ==
    ASSUME IInv, NEW k \in 0 .. MaxWrite, Write(k)
    PROVE  IInv'
  <1>1. PICK lo \in Nat, n \in Nat :
           /\ n <= Capacity
           /\ stream.bytes_read = lo /\ stream.bytes_written = lo + n
           /\ stream.buffers = Run(lo, n) /\ buffer_size(stream) = n
    BY BufferIsRun, ZenonT(180) DEF Write
  <1> DEFINE data == NextBytes(k)
             size == Smaller(k, Capacity - n)
  <1>2. k \in Nat /\ Capacity \in Nat /\ stream.capacity = Capacity
    BY ByteStreamAssumption DEF IInv, TypeOK
  <1>3. data = Run(lo + n, k) /\ Len(data) = k
    BY <1>1, <1>2, RunType DEF NextBytes, Run
  <1>4. size \in 0 .. k /\ size \in Nat /\ n + size \in 0 .. Capacity
    BY <1>1, <1>2 DEF Smaller
  <1> HIDE DEF data, size
  <1>5. CASE data = <<>>
    <2>1. stream' = stream /\ failed' = failed
      BY <1>5, ZenonT(180) DEF Write, stream_write, data
    <2> QED
      BY <2>1 DEF IInv, TypeOK, FifoOrder
  <1>6. CASE data # <<>>
    <2>1. Smaller(Len(data), remaining_capacity(stream)) = size
      BY <1>1, <1>2, <1>3 DEF remaining_capacity, size
    <2>2. stream' = accept(stream, SubSeq(data, 1, size)) /\ failed' = failed
      BY <1>6, <2>1, ZenonT(180) DEF Write, stream_write, data
    <2>3. /\ SubSeq(data, 1, size) = Run(lo + n, size)
          /\ Len(SubSeq(data, 1, size)) = size
      <3>1. PICK hi \in Nat : hi = lo + n
        OBVIOUS
      <3>2. SubSeq(Run(hi, k), 1, size) = Run(hi, size)
        BY <1>2, <1>4, RunPrefix
      <3>3. Len(Run(hi, size)) = size
        BY <1>4, RunType
      <3> QED
        BY <1>3, <3>1, <3>2, <3>3
    <2>4. Run(lo, n) \o Run(lo + n, size) = Run(lo, n + size)
      BY <1>1, <1>4, RunConcat, ZenonT(180)
    <2>5. PICK m \in Nat : m = n + size /\ Run(lo, m) \in Seq(Nat)
      BY <1>4, RunType
    <2>6. PICK h \in BOOLEAN, w \in Nat :
             /\ w = (lo + n) + size
             /\ stream' = [stream EXCEPT !.buffers = Run(lo, m), !.hollow = h, !.bytes_written = w]
      <3>1. PICK h \in BOOLEAN : h = (SubSeq(data, 1, size) = <<>>)
        BY ZenonT(180)
      <3>2. PICK w \in Nat : w = (lo + n) + size
        BY <1>4
      <3>3. stream.buffers \o SubSeq(data, 1, size) = Run(lo, m)
        BY <1>1, <2>3, <2>4, <2>5, ZenonT(180)
      <3>4. stream.bytes_written + Len(SubSeq(data, 1, size)) = w
        BY <1>1, <2>3, <3>2, ZenonT(180)
      <3> QED
        BY <2>2, <3>1, <3>2, <3>3, <3>4, ZenonT(180) DEF accept
    <2>7. TypeOK' /\ stream'.buffers = Run(lo, m) /\ stream'.bytes_written = w /\ stream'.bytes_read = lo
      BY <1>1, <2>2, <2>5, <2>6, ZenonT(180) DEF IInv, TypeOK, ByteStreamRecord
    <2>8. FifoOrder'
      <3>1. w - lo = m /\ m \in 0 .. Capacity
        BY <1>2, <1>4, <2>5, <2>6
      <3> QED
        BY <2>7, <3>1 DEF FifoOrder, Run
    <2> QED
      BY <2>7, <2>8 DEF IInv
  <1> QED
    BY <1>5, <1>6

(* A read or a pop of no more than there is drops that many bytes of the   *)
(* run; one of more raises an exception.                                   *)
LEMMA ReadPreserves ==
    ASSUME IInv, NEW len \in 0 .. Capacity + 1, Read(len) \/ PopOutput(len)
    PROVE  IInv'
  <1>1. PICK lo \in Nat, n \in Nat :
           /\ n <= Capacity
           /\ stream.bytes_read = lo /\ stream.bytes_written = lo + n
           /\ stream.buffers = Run(lo, n) /\ buffer_size(stream) = n /\ Len(stream.buffers) = n
    BY BufferIsRun DEF Read, PopOutput, buffer_size
  <1>2. len \in Nat /\ Capacity \in Nat
    BY ByteStreamAssumption
  <1>3. CASE len <= n
    <2>1. ~remove_prefix_throws(stream, len)
      BY <1>1, <1>2, <1>3 DEF remove_prefix_throws
    <2>2. remove_prefix(stream, len) = [stream EXCEPT !.buffers = SubSeq(stream.buffers, len + 1, n)]
      BY <1>1, <2>1 DEF remove_prefix
    <2>3. SubSeq(stream.buffers, len + 1, n) = Run(lo + len, n - len)
      BY <1>1, <1>2, <1>3, RunRest
    <2>4. Len(peek_output(stream, len)) = len
      <3>1. peek_output(stream, len) = SubSeq(Run(lo, n), 1, len)
        BY <1>1, <1>2, <1>3 DEF peek_output, Smaller
      <3>2. SubSeq(Run(lo, n), 1, len) = Run(lo, len)
        BY <1>1, <1>2, <1>3, RunPrefix
      <3> QED
        BY <1>1, <1>2, <3>1, <3>2, RunType
    <2>5. /\ stream' = [stream EXCEPT !.buffers = Run(lo + len, n - len), !.bytes_read = lo + len]
          /\ failed' = FALSE
      <3>1. stream \in ByteStreamRecord(Nat)
        BY DEF IInv, TypeOK
      <3>2. stream' = [remove_prefix(stream, len) EXCEPT !.bytes_read = @ + len]
        BY <2>1, <2>4 DEF Read, PopOutput, stream_read, pop_output
      <3>3. stream' = [[stream EXCEPT !.buffers = Run(lo + len, n - len)] EXCEPT !.bytes_read = @ + len]
        BY <2>2, <2>3, <3>2, ZenonT(180)
      <3>4. failed' = FALSE
        BY <2>1 DEF Read, PopOutput
      <3> QED
        BY <1>1, <3>1, <3>3, <3>4, ZenonT(180) DEF ByteStreamRecord
    <2>6. Run(lo + len, n - len) \in Seq(Nat)
      BY <1>1, <1>2, <1>3, RunType
    <2>7. TypeOK'
      <3>1. stream \in ByteStreamRecord(Nat) /\ stream.capacity = Capacity /\ lo + len \in Nat
        BY <1>2 DEF IInv, TypeOK
      <3> QED
        BY <2>5, <2>6, <3>1, ZenonT(180) DEF TypeOK, ByteStreamRecord
    <2>8. /\ stream'.buffers = Run(lo + len, n - len)
          /\ stream'.bytes_written = lo + n /\ stream'.bytes_read = lo + len
      BY <1>1, <2>5 DEF IInv, TypeOK, ByteStreamRecord
    <2>9. FifoOrder'
      BY <1>1, <1>2, <1>3, <2>8 DEF FifoOrder, Run
    <2> QED
      BY <2>7, <2>9 DEF IInv
  <1>4. CASE ~(len <= n)
    <2>1. remove_prefix_throws(stream, len)
      BY <1>1, <1>2, <1>4 DEF remove_prefix_throws
    <2>2. failed' = TRUE
      BY <2>1, ZenonT(180) DEF Read, PopOutput
    <2>3. stream' \in ByteStreamRecord(Nat) /\ stream'.capacity = Capacity
      <3>1. Len(peek_output(stream, len)) \in Nat
        <4>1. peek_output(stream, len) = SubSeq(Run(lo, n), 1, n)
          BY <1>1, <1>2, <1>4 DEF peek_output, Smaller
        <4>2. SubSeq(Run(lo, n), 1, n) = Run(lo, n)
          BY <1>1, RunPrefix
        <4> QED
          BY <1>1, <4>1, <4>2, RunType
      <3>2. remove_prefix(stream, len) = [stream EXCEPT !.buffers = <<>>, !.hollow = FALSE]
        BY <2>1 DEF remove_prefix
      <3>3. stream \in ByteStreamRecord(Nat) /\ stream.capacity = Capacity
        BY DEF IInv, TypeOK
      <3>4. /\ remove_prefix(stream, len) \in ByteStreamRecord(Nat)
            /\ remove_prefix(stream, len).capacity = Capacity
            /\ remove_prefix(stream, len).bytes_read = lo
        <4>0. PICK b \in Seq(Nat) : b = <<>>
          BY EmptyBuffer, ZenonT(180)
        <4>1. PICK h \in BOOLEAN : h = FALSE
          BY ZenonT(180)
        <4>2. remove_prefix(stream, len) = [stream EXCEPT !.buffers = b, !.hollow = h]
          BY <3>2, <4>0, <4>1, ZenonT(180)
        <4> QED
          BY <1>1, <3>3, <4>2, ZenonT(180) DEF ByteStreamRecord
      <3>5. CASE Read(len)
        <4>1. PICK r \in Nat : r = lo + Len(peek_output(stream, len))
          BY <3>1
        <4>2. stream' = [remove_prefix(stream, len) EXCEPT !.bytes_read = r]
          BY <3>4, <3>5, <4>1 DEF Read, stream_read
        <4> QED
          BY <3>4, <4>2 DEF ByteStreamRecord
      <3>6. CASE PopOutput(len)
        BY <2>1, <3>4, <3>6 DEF PopOutput, pop_output
      <3> QED
        BY <3>5, <3>6
    <2> QED
      BY <2>2, <2>3 DEF IInv, TypeOK, FifoOrder
  <1> QED
    BY <1>3, <1>4

(* ByteStream keeps the types of its members and, whatever its clients do, *)
(* delivers what was accepted once and in order, within its capacity.      *)
THEOREM InvariantTheorem == Spec => []IInv
  <1>1. Init => IInv
    <2> SUFFICES ASSUME Init PROVE IInv
      OBVIOUS
    <2>1. TypeOK
      <3>0. PICK b \in Seq(Nat) : b = <<>>
        BY EmptyBuffer, ZenonT(180)
      <3>1. PICK h \in BOOLEAN : h = FALSE
        BY ZenonT(180)
      <3>2. /\ stream = [buffers |-> b, hollow |-> h, capacity |-> Capacity,
                         bytes_read |-> 0, bytes_written |-> 0, input_end |-> h, error |-> h]
            /\ failed = h
        BY <3>0, <3>1, ZenonT(180) DEF Init, NewByteStream
      <3> QED
        BY <3>2, ByteStreamAssumption DEF TypeOK, ByteStreamRecord
    <2>2. FifoOrder
      BY ByteStreamAssumption DEF Init, FifoOrder, NewByteStream
    <2> QED
      BY <2>1, <2>2 DEF IInv
  <1>2. IInv /\ [Next]_vars => IInv'
    <2> SUFFICES ASSUME IInv, [Next]_vars PROVE IInv'
      OBVIOUS
    <2>1. ASSUME NEW k \in 0 .. MaxWrite, Write(k) PROVE IInv'
      BY <2>1, WritePreserves
    <2>2. ASSUME NEW len \in 0 .. Capacity + 1, Read(len) \/ PopOutput(len) PROVE IInv'
      BY <2>2, ReadPreserves
    <2>3. CASE EndInput
      BY <2>3, ZenonT(180) DEF EndInput, end_input, IInv, TypeOK, FifoOrder, ByteStreamRecord
    <2>4. CASE SetError
      BY <2>4, ZenonT(180) DEF SetError, set_error, IInv, TypeOK, FifoOrder, ByteStreamRecord
    <2>5. CASE UNCHANGED vars
      BY <2>5 DEF vars, IInv, TypeOK, FifoOrder
    <2> QED
      BY <2>1, <2>2, <2>3, <2>4, <2>5 DEF Next
  <1> QED
    BY <1>1, <1>2, PTL DEF Spec

(* The types of ByteStream's members, for every capacity.                  *)
THEOREM TypeCorrect == Spec => []TypeOK
  <1>1. IInv => TypeOK
    BY DEF IInv
  <1> QED
    BY <1>1, InvariantTheorem, PTL

(* The reader gets the bytes accepted, once each and in order, for every   *)
(* capacity and every sequence of calls.                                   *)
THEOREM FifoTheorem == Spec => []FifoOrder
  <1>1. IInv => FifoOrder
    BY DEF IInv
  <1> QED
    BY <1>1, InvariantTheorem, PTL

(* Reading from an empty stream, even too much, changes no counter and     *)
(* leaves it empty.                                                        *)
LEMMA ReadAtEof ==
    ASSUME TypeOK, eof(stream), NEW len \in 0 .. Capacity + 1, Read(len) \/ PopOutput(len)
    PROVE  eof(stream)' /\ stream'.bytes_read = stream.bytes_read
  <1>0. stream \in ByteStreamRecord(Nat) /\ len \in Nat
    BY ByteStreamAssumption DEF TypeOK
  <1>1. stream.buffers = <<>> /\ ~stream.hollow /\ stream.input_end
    BY DEF eof, buffer_empty
  <1>2. PICK r \in Nat : stream.bytes_read = r
    BY <1>0 DEF ByteStreamRecord
  <1>3. PICK b \in Seq(Nat) : b = <<>>
    BY EmptyBuffer, ZenonT(180)
  <1>4. PICK t : t = remove_prefix(stream, len)
    OBVIOUS
  <1>5. /\ t.buffers = <<>> /\ t.bytes_read = r /\ t.input_end = stream.input_end /\ ~t.hollow
        /\ DOMAIN t = DOMAIN stream /\ t \in ByteStreamRecord(Nat)
    <2>1. CASE remove_prefix_throws(stream, len)
      <3>1. PICK h \in BOOLEAN : h = FALSE
        BY ZenonT(180)
      <3>2. t = [stream EXCEPT !.buffers = b, !.hollow = h]
        BY <1>3, <1>4, <2>1, <3>1, ZenonT(180) DEF remove_prefix
      <3>3. t.hollow = h /\ ~h
        BY <1>0, <3>1, <3>2 DEF ByteStreamRecord
      <3> QED
        BY <1>0, <1>2, <1>3, <3>2, <3>3, ZenonT(180) DEF ByteStreamRecord
    <2>2. CASE ~remove_prefix_throws(stream, len)
      <3>1. SubSeq(stream.buffers, len + 1, Len(stream.buffers)) = b
        <4>1. len = 0
          BY <1>0, <1>1, <2>2 DEF remove_prefix_throws, buffer_size
        <4> QED
          BY <1>1, <1>3, <4>1
      <3>2. t = [stream EXCEPT !.buffers = b]
        BY <1>4, <2>2, <3>1, ZenonT(180) DEF remove_prefix
      <3>3. t.hollow = stream.hollow
        BY <1>0, <3>2 DEF ByteStreamRecord
      <3> QED
        BY <1>0, <1>1, <1>2, <1>3, <3>2, <3>3, ZenonT(180) DEF ByteStreamRecord
    <2> QED
      BY <2>1, <2>2
  <1>6. Len(peek_output(stream, len)) = 0
    <2>1. Smaller(len, buffer_size(stream)) = 0
      BY <1>0, <1>1 DEF Smaller, buffer_size
    <2> QED
      BY <1>1, <2>1 DEF peek_output
  <1>7. stream' = t \/ stream' = [t EXCEPT !.bytes_read = r]
    <2>1. CASE Read(len)
      BY <1>4, <1>5, <1>6, <2>1 DEF Read, stream_read
    <2>2. CASE PopOutput(len)
      <3>1. CASE remove_prefix_throws(stream, len)
        BY <1>4, <2>2, <3>1 DEF PopOutput, pop_output
      <3>2. CASE ~remove_prefix_throws(stream, len)
        <4>1. len = 0
          BY <1>0, <1>1, <3>2 DEF remove_prefix_throws, buffer_size
        <4> QED
          BY <1>4, <1>5, <2>2, <3>2, <4>1 DEF PopOutput, pop_output
      <3> QED
        BY <3>1, <3>2
    <2> QED
      BY <2>1, <2>2
  <1>8. /\ stream'.buffers = <<>> /\ stream'.bytes_read = r
        /\ stream'.input_end = stream.input_end /\ ~stream'.hollow
    <2>1. CASE stream' = t
      BY <1>5, <2>1
    <2>2. CASE stream' = [t EXCEPT !.bytes_read = r]
      <3>1. stream'.hollow = t.hollow
        BY <1>5, <2>2 DEF ByteStreamRecord
      <3> QED
        BY <1>5, <2>2, <3>1 DEF ByteStreamRecord
    <2> QED
      BY <1>7, <2>1, <2>2
  <1> QED
    BY <1>1, <1>2, <1>8, ZenonT(180) DEF eof, buffer_empty

(* A writer that obeys remaining_capacity and end_input.                   *)
CarefulWriter == "write when full" \notin ClientMay /\ "write after end" \notin ClientMay

(* No zero-length chunk follows the last byte.                             *)
NotHollow == ~stream.hollow

(* What fits of a string written while there is room is not empty.         *)
LEMMA WriteNotHollow ==
    ASSUME TypeOK, NotHollow, CarefulWriter,
           NEW k \in 0 .. MaxWrite, Write(k)
    PROVE  NotHollow'
  <1>1. CASE NextBytes(k) = <<>>
    BY <1>1, ZenonT(180) DEF Write, stream_write, NotHollow
  <1>2. CASE NextBytes(k) # <<>>
    <2>1. PICK room, w : room = remaining_capacity(stream) /\ w = stream.bytes_written
      OBVIOUS
    <2>2. stream \in ByteStreamRecord(Nat) /\ k \in Nat /\ w \in Nat
      BY <2>1, ByteStreamAssumption DEF TypeOK, ByteStreamRecord
    <2>3. NextBytes(k) = Run(w, k)
      BY <2>1 DEF NextBytes, Run
    <2>4. Run(w, k) \in Seq(Nat) /\ Len(Run(w, k)) = k
      BY <2>2, RunType
    <2>5. k > 0
      <3>1. k = 0 => Run(w, k) = <<>>
        BY <2>4
      <3> QED
        BY <1>2, <2>2, <2>3, <3>1
    <2>6. room \in Int /\ room > 0
      <3>1. stream.capacity \in Nat /\ stream.buffers \in Seq(Nat)
        BY <2>2 DEF ByteStreamRecord
      <3>2. room \in Int
        BY <2>1, <3>1 DEF remaining_capacity, buffer_size
      <3>3. room > 0
        BY <2>1, ZenonT(180) DEF Write, CarefulWriter
      <3> QED
        BY <3>2, <3>3
    <2>7. PICK size \in 1 .. k : size = Smaller(k, room)
      BY <2>2, <2>5, <2>6 DEF Smaller
    <2>8. SubSeq(Run(w, k), 1, size) = Run(w, size) /\ Len(Run(w, size)) = size
      <3>1. size \in 0 .. k /\ size \in Nat
        BY <2>2, <2>7
      <3>2. SubSeq(Run(w, k), 1, size) = Run(w, size)
        BY <2>2, <3>1, RunPrefix
      <3>3. Len(Run(w, size)) = size
        BY <2>2, <3>1, RunType
      <3> QED
        BY <3>2, <3>3
    <2>9. Run(w, size) # <<>>
      BY <2>7, <2>8
    <2>10. stream' = accept(stream, Run(w, size))
      BY <1>2, <2>1, <2>3, <2>4, <2>7, <2>8, ZenonT(180) DEF Write, stream_write
    <2>11. PICK h \in BOOLEAN : h = (Run(w, size) = <<>>)
      BY ZenonT(180)
    <2>12. stream' = [stream EXCEPT !.buffers = @ \o Run(w, size), !.hollow = h,
                                    !.bytes_written = @ + Len(Run(w, size))]
      BY <2>10, <2>11, ZenonT(180) DEF accept
    <2>13. stream'.hollow = h
      BY <2>2, <2>12 DEF ByteStreamRecord
    <2> QED
      BY <2>9, <2>11, <2>13, ZenonT(180) DEF NotHollow
  <1> QED
    BY <1>1, <1>2

(* Neither read nor pop_output leaves an empty chunk behind.               *)
LEMMA ReadNotHollow ==
    ASSUME TypeOK, NotHollow, NEW len \in 0 .. Capacity + 1, Read(len) \/ PopOutput(len)
    PROVE  NotHollow'
  <1>1. stream \in ByteStreamRecord(Nat)
    BY DEF TypeOK
  <1>2. PICK t : t = remove_prefix(stream, len)
    OBVIOUS
  <1>3. PICK h \in BOOLEAN : h = FALSE
    BY ZenonT(180)
  <1>4. (t.hollow = stream.hollow \/ t.hollow = h) /\ DOMAIN t = DOMAIN stream
    <2>1. CASE remove_prefix_throws(stream, len)
      <3>1. t = [stream EXCEPT !.buffers = <<>>, !.hollow = h]
        BY <1>2, <1>3, <2>1, ZenonT(180) DEF remove_prefix
      <3> QED
        BY <1>1, <3>1 DEF ByteStreamRecord
    <2>2. CASE ~remove_prefix_throws(stream, len)
      <3>1. t = [stream EXCEPT !.buffers = SubSeq(@, len + 1, Len(@))]
        BY <1>2, <2>2, ZenonT(180) DEF remove_prefix
      <3> QED
        BY <1>1, <3>1 DEF ByteStreamRecord
    <2> QED
      BY <2>1, <2>2
  <1>5. stream' = t \/ \E r : stream' = [t EXCEPT !.bytes_read = r]
    BY <1>2, ZenonT(180) DEF Read, PopOutput, stream_read, pop_output
  <1>6. stream'.hollow = t.hollow
    <2>1. "hollow" \in DOMAIN t
      BY <1>1, <1>4 DEF ByteStreamRecord
    <2> QED
      BY <1>5, <2>1
  <1> QED
    BY <1>3, <1>4, <1>6, ZenonT(180) DEF NotHollow

(* A writer that writes only while there is room leaves no empty chunk.    *)
LEMMA NeverHollow ==
    ASSUME CarefulWriter
    PROVE  Spec => []NotHollow
  <1>1. Init => NotHollow
    <2> SUFFICES ASSUME Init PROVE NotHollow
      OBVIOUS
    <2>1. PICK h \in BOOLEAN : h = FALSE
      BY ZenonT(180)
    <2>2. stream = [buffers |-> <<>>, hollow |-> h, capacity |-> Capacity,
                    bytes_read |-> 0, bytes_written |-> 0, input_end |-> h, error |-> h]
      BY <2>1, ZenonT(180) DEF Init, NewByteStream
    <2>3. stream.hollow = h
      BY <2>2
    <2> QED
      BY <2>1, <2>3, ZenonT(180) DEF NotHollow
  <1>2. TypeOK /\ NotHollow /\ [Next]_vars => NotHollow'
    <2> SUFFICES ASSUME TypeOK, NotHollow, [Next]_vars
                 PROVE  NotHollow'
      OBVIOUS
    <2>1. ASSUME NEW k \in 0 .. MaxWrite, Write(k) PROVE NotHollow'
      BY <2>1, WriteNotHollow
    <2>2. ASSUME NEW len \in 0 .. Capacity + 1, Read(len) \/ PopOutput(len)
          PROVE  NotHollow'
      BY <2>2, ReadNotHollow
    <2>3. ASSUME EndInput \/ SetError PROVE stream'.hollow = stream.hollow
      <3>1. stream \in ByteStreamRecord(Nat)
        BY DEF TypeOK
      <3>2. PICK h \in BOOLEAN : h = TRUE
        BY ZenonT(180)
      <3>3. stream' = [stream EXCEPT !.input_end = h] \/ stream' = [stream EXCEPT !.error = h]
        BY <2>3, <3>2, ZenonT(180) DEF EndInput, SetError, end_input, set_error
      <3> QED
        BY <3>1, <3>3 DEF ByteStreamRecord
    <2>4. CASE EndInput \/ SetError
      BY <2>3, <2>4, ZenonT(180) DEF NotHollow
    <2>5. CASE UNCHANGED vars
      BY <2>5, ZenonT(180) DEF vars, NotHollow
    <2> QED
      BY <2>1, <2>2, <2>4, <2>5 DEF Next
  <1> QED
    BY <1>1, <1>2, TypeCorrect, PTL DEF Spec

(* eof() is true as soon as the input has ended and all of it is read, and *)
(* then stays so: neither read nor pop_output counts another byte, even    *)
(* when they throw.  For a writer that obeys end_input and                 *)
(* remaining_capacity.                                                     *)
THEOREM EofTheorem ==
    ASSUME CarefulWriter
    PROVE  Spec => EofIsFinal
  <1> DEFINE A == eof(stream) => eof(stream)' /\ UNCHANGED stream.bytes_read
             B == /\ DrainedMeansEof'
                  /\ eof(stream) => eof(stream)' /\ UNCHANGED stream.bytes_read
  <1>1. TypeOK /\ [Next]_vars => [A]_vars
    <2> SUFFICES ASSUME TypeOK, Next, eof(stream)
                 PROVE  eof(stream)' /\ stream'.bytes_read = stream.bytes_read
      OBVIOUS
    <2>1. ASSUME NEW k \in 0 .. MaxWrite, Write(k) PROVE FALSE
      BY <2>1, ZenonT(180) DEF Write, eof, CarefulWriter
    <2>2. ASSUME NEW len \in 0 .. Capacity + 1, Read(len) \/ PopOutput(len)
          PROVE  eof(stream)' /\ stream'.bytes_read = stream.bytes_read
      BY <2>2, ReadAtEof
    <2>3. stream \in ByteStreamRecord(Nat)
      BY DEF TypeOK
    <2>4. CASE EndInput
      <3>1. PICK h \in BOOLEAN : h = TRUE
        BY ZenonT(180)
      <3>2. stream' = [stream EXCEPT !.input_end = h]
        BY <2>4, <3>1 DEF EndInput, end_input
      <3>3. /\ stream'.input_end = h /\ stream'.buffers = stream.buffers
            /\ stream'.hollow = stream.hollow /\ stream'.bytes_read = stream.bytes_read
        BY <2>3, <3>2 DEF ByteStreamRecord
      <3> QED
        BY <3>1, <3>3, ZenonT(180) DEF eof, buffer_empty
    <2>5. CASE SetError
      <3>1. PICK h \in BOOLEAN : h = TRUE
        BY ZenonT(180)
      <3>2. stream' = [stream EXCEPT !.error = h]
        BY <2>5, <3>1 DEF SetError, set_error
      <3>3. /\ stream'.input_end = stream.input_end /\ stream'.buffers = stream.buffers
            /\ stream'.hollow = stream.hollow /\ stream'.bytes_read = stream.bytes_read
        BY <2>3, <3>2 DEF ByteStreamRecord
      <3> QED
        BY <3>3, ZenonT(180) DEF eof, buffer_empty
    <2> QED
      BY <2>1, <2>2, <2>4, <2>5 DEF Next
  <1>2. IInv /\ NotHollow => DrainedMeansEof
    <2>1. ASSUME IInv, ~failed, stream.bytes_read = stream.bytes_written
          PROVE  stream.buffers = <<>>
      <3>1. PICK lo \in Nat, n \in Nat :
               /\ stream.bytes_read = lo /\ stream.bytes_written = lo + n
               /\ stream.buffers = Run(lo, n)
        BY <2>1, BufferIsRun
      <3>2. n = 0
        <4>1. lo = lo + n
          BY <2>1, <3>1, ZenonT(180)
        <4> QED
          BY <4>1
      <3>3. Run(lo, n) \in Seq(Nat) /\ Len(Run(lo, n)) = 0
        BY <3>2, RunType
      <3> QED
        BY <3>1, <3>3
    <2> QED
      BY <2>1, ZenonT(180) DEF DrainedMeansEof, eof, buffer_empty, NotHollow
  <1>3. (IInv /\ NotHollow)' => DrainedMeansEof'
    BY <1>2, PTL
  <1>4. [A]_vars /\ DrainedMeansEof' => [B]_vars
    OBVIOUS
  <1>5. EofIsFinal <=> [][B]_vars
    BY DEF EofIsFinal
  <1> HIDE DEF A, B
  <1> QED
    BY <1>1, <1>3, <1>4, <1>5, InvariantTheorem, TypeCorrect, NeverHollow, PTL DEF Spec
=============================================================================
