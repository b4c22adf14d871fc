--------------------------- MODULE ByteStreamSpec ---------------------------
(***************************************************************************)
(* A ByteStream and its two clients, the writer and the reader.            *)
(*                                                                         *)
(* A byte is the position at which the writer put it, so the stream's      *)
(* content says which bytes were lost, repeated or reordered.  ClientMay   *)
(* names the calls the class accepts although a careful client makes none: *)
(*   "write when full"    write() with remaining_capacity() = 0            *)
(*   "write after end"    write() after end_input()                        *)
(*   "read too much"      read() or pop_output() past buffer_size()        *)
(***************************************************************************)
EXTENDS ByteStream

CONSTANTS Capacity,    \* the constructor's argument
          MaxWrite,    \* bound: the longest string passed to write()
          MaxBytes,    \* bound: how many bytes the writer has
          ClientMay

ASSUME ByteStreamAssumption ==
    /\ Capacity \in Nat
    /\ MaxWrite \in Nat
    /\ MaxBytes \in Nat

VARIABLES stream,   \* the ByteStream
          failed    \* an exception has left the stream

vars == <<stream, failed>>

Init ==
    /\ stream = NewByteStream(Capacity)
    /\ failed = FALSE

(* The writer's next k bytes. *)
NextBytes(k) == [i \in 1 .. k |-> stream.bytes_written + i]

Write(k) ==
    /\ ~failed
    /\ stream.bytes_written + k <= MaxBytes
    /\ remaining_capacity(stream) > 0 \/ "write when full" \in ClientMay
    /\ ~stream.input_end \/ "write after end" \in ClientMay
    /\ stream' = stream_write(stream, NextBytes(k))
    /\ UNCHANGED failed

MayRead(len) == len <= buffer_size(stream) \/ "read too much" \in ClientMay

Read(len) ==
    /\ ~failed
    /\ MayRead(len)
    /\ stream' = stream_read(stream, len)
    /\ failed' = remove_prefix_throws(stream, len)

PopOutput(len) ==
    /\ ~failed
    /\ MayRead(len)
    /\ stream' = pop_output(stream, len)
    /\ failed' = remove_prefix_throws(stream, len)

EndInput ==
    /\ ~failed
    /\ stream' = end_input(stream)
    /\ UNCHANGED failed

SetError ==
    /\ ~failed
    /\ stream' = set_error(stream)
    /\ UNCHANGED failed

Next ==
    \/ \E k \in 0 .. MaxWrite : Write(k)
    \/ \E len \in 0 .. Capacity + 1 : Read(len) \/ PopOutput(len)
    \/ EndInput
    \/ SetError

Spec == Init /\ [][Next]_vars

-----------------------------------------------------------------------------
TypeOK ==
    /\ stream \in ByteStreamRecord(Nat)
    /\ stream.capacity = Capacity
    /\ failed \in BOOLEAN

(* What the reader can still get is exactly the bytes accepted and not yet *)
(* read, each once and in the order written, and it fits the capacity:     *)
(* partial writes, short reads and pops never lose, repeat or reorder one. *)
FifoOrder ==
    ~failed =>
        /\ stream.bytes_written - stream.bytes_read \in 0 .. Capacity
        /\ stream.buffers = [i \in 1 .. stream.bytes_written - stream.bytes_read
                                |-> stream.bytes_read + i]

(* byte_stream.hh: eof() is true `if the output has reached the ending'.   *)
DrainedMeansEof ==
    ~failed /\ stream.input_end /\ stream.bytes_read = stream.bytes_written => eof(stream)

(* eof() is returned as soon as the input has ended and everything written *)
(* has been read, whichever comes last, and once it has been returned it   *)
(* stays so and the reader gets nothing more.                              *)
EofIsFinal ==
    [][/\ DrainedMeansEof'
       /\ eof(stream) => eof(stream)' /\ UNCHANGED stream.bytes_read]_vars

(* byte_stream.hh: `the writer can end the input, and then no more bytes   *)
(* can be written'.                                                        *)
NoWriteAfterEnd == [][stream.input_end => UNCHANGED stream.bytes_written]_vars
=============================================================================
