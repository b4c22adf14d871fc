-------------------------- MODULE StreamReassembler -------------------------
(***************************************************************************)
(* libsponge/stream_reassembler.{hh,cc}, as operators on a record: the     *)
(* index of the next byte to assemble (top_pointer), the excerpts that     *)
(* arrived ahead of it, and the output ByteStream.                         *)
(***************************************************************************)
EXTENDS ByteStream, BufferString

NewStreamReassembler(capacity) ==
    [top_pointer |-> 0, output |-> NewByteStream(capacity),
     capacity |-> capacity, buffer_list |-> <<>>]

current_capacity(r) == r.capacity - buffer_size(r.output)

(* The part of push_substring that follows BufferStringList::push_back:    *)
(* when the front of the list is the next byte, as much of it as fits goes *)
(* to the output.                                                          *)
advance(r, front) == r.top_pointer + Len(front.str)

assemble_CountsAll(r, list) ==    \* mutant
    IF r.top_pointer # top_index(list)
    THEN [r EXCEPT !.buffer_list = list]
    ELSE [r EXCEPT !.buffer_list = Tail(list), !.top_pointer = advance(r, list[1]),
                   !.output = stream_write(@, list[1].str)]
assemble(r, list) ==
    IF r.top_pointer # top_index(list)
    THEN [r EXCEPT !.buffer_list = list]
    ELSE LET room == remaining_capacity(r.output)
             front == popped(list, room)
             out == stream_write(r.output, front.str)
         IN  [r EXCEPT !.buffer_list = after_pop(list, room),
                       !.top_pointer = advance(r, front),
                       !.output = IF front.eof THEN end_input(out) ELSE out]

(* How many bytes of an excerpt at index have been assembled already. *)
duplicate_NotChecked(r, index) == 0    \* mutant
duplicate(r, index) == IF index < r.top_pointer THEN r.top_pointer - index ELSE 0

beyond_window(r, index) == index - r.top_pointer + 1 > current_capacity(r)

(* What is left of the excerpt, and of its eof, when it is cut to size. *)
cut_NotAtAll(data, room) == data    \* mutant
cut(data, room) == IF Len(data) > room THEN SubSeq(data, 1, room) ELSE data

cut_eof_Kept(data, eof_flag, room) == eof_flag    \* mutant
cut_eof(data, eof_flag, room) == eof_flag /\ Len(data) <= room

push_substring(r, data, index, eof_flag) ==
    LET known == duplicate(r, index)
        data_ref == SubSeq(data, known + 1, Len(data))
        index_ref == index + known
        room == current_capacity(r)
    IN  IF known > Len(data) \/ beyond_window(r, index_ref)
        THEN r
        ELSE assemble(r, push_back(r.buffer_list, cut(data_ref, room), index_ref,
                                   cut_eof(data_ref, eof_flag, room)))

(* The indices of the bytes held but not assembled. *)
held(r) ==
    UNION {r.buffer_list[i].first .. second(r.buffer_list[i]) - 1 : i \in DOMAIN r.buffer_list}
=============================================================================
