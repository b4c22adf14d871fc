---------------------------- MODULE ChunkedStream ---------------------------
(***************************************************************************)
(* The ByteStream as it is stored: a deque of Buffers, each a shared       *)
(* string with a prefix pointer (libsponge/buffer.{hh,cc}).  A Buffer is   *)
(* the part of its string past the pointer.  Every step is shown to be a   *)
(* step of ByteStreamSpec.                                                 *)
(***************************************************************************)
EXTENDS Integers, Sequences, SequencesExt

CONSTANTS Capacity, MaxWrite, MaxBytes, ClientMay,
          MaxChunks    \* bound: writing to a full stream adds a chunk each time

VARIABLES bufferList, bytes_read, bytes_written, input_end, error, failed

vars == <<bufferList, bytes_read, bytes_written, input_end, error, failed>>

size(list) == Len(FlattenSeq(list))

(* Buffer::remove_prefix never empties a Buffer: it keeps the last byte. *)
Buffer_remove_prefix_OffByOne(buffer, n) ==    \* mutant
    SubSeq(buffer, n, Len(buffer))
Buffer_remove_prefix(buffer, n) ==
    IF n >= Len(buffer)
    THEN SubSeq(buffer, Len(buffer), Len(buffer))
    ELSE SubSeq(buffer, n + 1, Len(buffer))

(* BufferList::remove_prefix as its loop: the list and the count that is   *)
(* left when it ends, with n > 0 when it ends in the exception.            *)
RECURSIVE BufferList_remove_prefix(_, _)
BufferList_remove_prefix(list, n) ==
    IF n = 0 \/ list = <<>>
    THEN [list |-> list, left |-> n]
    ELSE IF Len(Head(list)) <= n
         THEN BufferList_remove_prefix(Tail(list), n - Len(Head(list)))
         ELSE [list |-> <<Buffer_remove_prefix(Head(list), n)>> \o Tail(list), left |-> 0]

(* BufferList::peek_output as its loop. *)
RECURSIVE BufferList_peek_output(_, _)
BufferList_peek_output(list, n) ==
    IF list = <<>>
    THEN <<>>
    ELSE IF Len(Head(list)) < n
         THEN Head(list) \o BufferList_peek_output(Tail(list), n - Len(Head(list)))
         ELSE SubSeq(Head(list), 1, n)

Init ==
    /\ bufferList = <<>>
    /\ bytes_read = 0 /\ bytes_written = 0
    /\ input_end = FALSE /\ error = FALSE
    /\ failed = FALSE

Room == Capacity - size(bufferList)

Accept_Unbounded(data) ==    \* mutant
    /\ bytes_written' = bytes_written + Len(data)
    /\ bufferList' = Append(bufferList, data)
Accept(data) ==
    LET written_size == IF Len(data) > Room THEN Room ELSE Len(data)
    IN  /\ bytes_written' = bytes_written + written_size
        /\ bufferList' = Append(bufferList, SubSeq(data, 1, written_size))

Write(k) ==
    /\ ~failed
    /\ bytes_written + k <= MaxBytes
    /\ Len(bufferList) < MaxChunks
    /\ Room > 0 \/ "write when full" \in ClientMay
    /\ ~input_end \/ "write after end" \in ClientMay
    /\ IF k = 0
       THEN UNCHANGED <<bufferList, bytes_written>>
       ELSE Accept([i \in 1 .. k |-> bytes_written + i])
    /\ UNCHANGED <<bytes_read, input_end, error, failed>>

MayRead(len) == len <= size(bufferList) \/ "read too much" \in ClientMay

RemovePrefix(len) ==
    LET removed == BufferList_remove_prefix(bufferList, len)
    IN  /\ bufferList' = removed.list
        /\ failed' = (removed.left > 0)

Read(len) ==
    /\ ~failed /\ MayRead(len)
    /\ bytes_read' = bytes_read + Len(BufferList_peek_output(bufferList, len))
    /\ RemovePrefix(len)
    /\ UNCHANGED <<bytes_written, input_end, error>>

PopOutput(len) ==
    /\ ~failed /\ MayRead(len)
    /\ RemovePrefix(len)
    /\ bytes_read' = IF failed' THEN bytes_read ELSE bytes_read + len
    /\ UNCHANGED <<bytes_written, input_end, error>>

EndInput ==
    /\ ~failed
    /\ input_end' = TRUE
    /\ UNCHANGED <<bufferList, bytes_read, bytes_written, error, failed>>

SetError ==
    /\ ~failed
    /\ error' = TRUE
    /\ UNCHANGED <<bufferList, bytes_read, bytes_written, input_end, failed>>

Next ==
    \/ \E k \in 0 .. MaxWrite : Write(k)
    \/ \E len \in 0 .. Capacity + 1 : Read(len) \/ PopOutput(len)
    \/ EndInput
    \/ SetError

Spec == Init /\ [][Next]_vars

-----------------------------------------------------------------------------
(* What a caller of peek_output(len) sees for every len: the first bytes   *)
(* of the stream, whatever chunks they lie in.                             *)
PeekIsPrefix ==
    ~failed =>
        \A len \in 0 .. Capacity :
            BufferList_peek_output(bufferList, len) =
                [i \in 1 .. (IF len < size(bufferList) THEN len ELSE size(bufferList))
                    |-> bytes_read + i]

Whole == INSTANCE ByteStreamSpec WITH
    stream <- [buffers |-> FlattenSeq(bufferList),
               hollow |-> bufferList # <<>> /\ Last(bufferList) = <<>>,
               capacity |-> Capacity,
               bytes_read |-> bytes_read, bytes_written |-> bytes_written,
               input_end |-> input_end, error |-> error]

(* The chunks are invisible: what the deque of Buffers does is what the    *)
(* ByteStream of ByteStreamSpec does, exceptions included.                 *)
ImplementsByteStream == Whole!Spec
=============================================================================
