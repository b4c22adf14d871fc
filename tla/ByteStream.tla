----------------------------- MODULE ByteStream -----------------------------
(***************************************************************************)
(* The bounded in-memory byte stream: libsponge/byte_stream.{hh,cc}, as    *)
(* operators on a record, for the components that own one (the sender, the *)
(* reassembler) and for ByteStreamSpec.                                    *)
(*                                                                         *)
(* The deque of chunks is seen through the bytes it holds, plus one bit:   *)
(* `hollow' says that a zero-length chunk follows the last byte.  The      *)
(* module ChunkedStream keeps the chunks and refines this view.            *)
(***************************************************************************)
EXTENDS Integers, Sequences

Smaller(a, b) == IF a <= b THEN a ELSE b

ByteStreamRecord(Byte) ==
    [buffers : Seq(Byte), hollow : BOOLEAN, capacity : Nat,
     bytes_read : Nat, bytes_written : Nat,
     input_end : BOOLEAN, error : BOOLEAN]

NewByteStream(capacity) ==
    [buffers |-> <<>>, hollow |-> FALSE, capacity |-> capacity,
     bytes_read |-> 0, bytes_written |-> 0,
     input_end |-> FALSE, error |-> FALSE]

buffer_size(s) == Len(s.buffers)

remaining_capacity(s) == s.capacity - buffer_size(s)

buffer_empty(s) == s.buffers = <<>> /\ ~s.hollow

eof_Early(s) == s.input_end    \* mutant
eof(s) == s.input_end /\ buffer_empty(s)

(* Accepts the prefix of data that fits.  With no room at all it still     *)
(* appends a chunk, of length zero.                                        *)
accept(s, chunk) ==
    [s EXCEPT !.buffers = @ \o chunk,
              !.hollow = (chunk = <<>>),
              !.bytes_written = @ + Len(chunk)]

stream_write_CountsAll(s, data) ==    \* mutant
    IF data = <<>>
    THEN s
    ELSE [accept(s, SubSeq(data, 1, Smaller(Len(data), remaining_capacity(s))))
             EXCEPT !.bytes_written = s.bytes_written + Len(data)]
stream_write(s, data) ==
    IF data = <<>>
    THEN s
    ELSE accept(s, SubSeq(data, 1, Smaller(Len(data), remaining_capacity(s))))

peek_output(s, len) == SubSeq(s.buffers, 1, Smaller(len, buffer_size(s)))

(* Dropping more than there is empties the list and then throws. *)
remove_prefix_throws(s, len) == len > buffer_size(s)

remove_prefix(s, len) ==
    IF remove_prefix_throws(s, len)
    THEN [s EXCEPT !.buffers = <<>>, !.hollow = FALSE]
    ELSE [s EXCEPT !.buffers = SubSeq(@, len + 1, Len(@))]

(* The exception of remove_prefix leaves pop_output before _bytes_read is  *)
(* updated, but read() after it.                                           *)
pop_output(s, len) ==
    LET dropped == remove_prefix(s, len)
    IN  IF remove_prefix_throws(s, len)
        THEN dropped
        ELSE [dropped EXCEPT !.bytes_read = @ + len]

stream_read(s, len) ==
    [remove_prefix(s, len) EXCEPT !.bytes_read = @ + Len(peek_output(s, len))]

end_input(s) == [s EXCEPT !.input_end = TRUE]

set_error(s) == [s EXCEPT !.error = TRUE]
=============================================================================
