--------------------------- MODULE ReassemblerSpec --------------------------
(***************************************************************************)
(* A StreamReassembler that is given excerpts of one stream in any order,  *)
(* overlapping, repeated and cut anywhere, while a reader drains it.  The  *)
(* byte at index i of the stream is i itself.                              *)
(***************************************************************************)
EXTENDS StreamReassembler, FiniteSets

CONSTANTS Capacity,       \* the constructor's argument
          StreamLength    \* how many bytes the stream has

ASSUME ReassemblerAssumption == Capacity \in Nat /\ StreamLength \in Nat

VARIABLE reassembler

vars == reassembler

output == reassembler.output
list == reassembler.buffer_list

Init == reassembler = NewStreamReassembler(Capacity)

(* Bytes [from, to) of the stream. *)
Excerpt(from, to) == [i \in 1 .. to - from |-> from + i - 1]

(* An excerpt arrives.  Only one that ends the stream carries eof, but     *)
(* one that ends it need not: the end may be announced later.              *)
PushSubstring(from, to, eof_flag) ==
    /\ from <= to
    /\ eof_flag => to = StreamLength
    /\ reassembler' = push_substring(reassembler, Excerpt(from, to), from, eof_flag)

Read(len) ==
    /\ len <= buffer_size(output)
    /\ reassembler' = [reassembler EXCEPT !.output = stream_read(@, len)]

Next ==
    \/ \E from, to \in 0 .. StreamLength, eof_flag \in BOOLEAN :
          PushSubstring(from, to, eof_flag)
    \/ \E len \in 1 .. Capacity : Read(len)

Spec == Init /\ [][Next]_vars

-----------------------------------------------------------------------------
Index == 0 .. StreamLength

(* Whatever the order, overlap and cut of the excerpts, the output is the  *)
(* stream from its first byte on, with nothing missing, repeated or        *)
(* swapped, and never more than the capacity.                              *)
InOrder ==
    /\ reassembler.top_pointer = output.bytes_written
    /\ output.bytes_read + Len(output.buffers) = output.bytes_written
    /\ output.buffers = Excerpt(output.bytes_read, output.bytes_written)
    /\ Len(output.buffers) <= Capacity

(* push_back's binary searches need the excerpts in ascending order with a *)
(* gap between neighbours, each holding the stream's own bytes, none of    *)
(* them already assembled -- also after the rest of a cut excerpt went to  *)
(* the back of the deque: none starts past the window's edge, so a front   *)
(* excerpt that has to be cut is the only one.                             *)
ListWellFormed ==
    /\ \A i, j \in DOMAIN list : i < j => second(list[i]) < list[j].first
    /\ \A i \in DOMAIN list :
          /\ list[i].first >= reassembler.top_pointer
          /\ list[i].first <= output.bytes_read + Capacity
          /\ list[i].str = Excerpt(list[i].first, second(list[i]))

(* The output ends exactly at the end of the stream. *)
EndsAtEnd ==
    /\ output.input_end => output.bytes_written = StreamLength
    /\ \A i \in DOMAIN list : list[i].eof => second(list[i]) = StreamLength

(* A byte once accepted is never forgotten: it stays held until it is      *)
(* assembled.                                                              *)
AcceptedIsKept ==
    [][\A k \in held(reassembler) :
          k \in held(reassembler') \/ k < reassembler'.top_pointer]_vars

(* What the code guarantees about memory: an excerpt starts inside the     *)
(* window and is no longer than it.                                        *)
TwiceTheCapacity ==
    \A k \in held(reassembler) : k < output.bytes_read + 2 * Capacity

(* stream_reassembler.hh: `This capacity limits both the bytes that have   *)
(* been reassembled, and those that have not yet been reassembled.'        *)
CapacityLimitsBoth ==
    Cardinality(held(reassembler)) + buffer_size(output) <= Capacity

(* stream_reassembler.hh: eof means that `the last byte of `data` will be  *)
(* the last byte in the entire stream'.  Pushed with bytes that fit the    *)
(* window, that is known afterwards: the output has ended, or a stored     *)
(* excerpt is marked.                                                      *)
AnnouncedEndIsKept ==
    \A from \in Index :
        LET after == push_substring(reassembler, Excerpt(from, StreamLength), from, TRUE)
        IN  /\ from >= output.bytes_written
            /\ StreamLength < output.bytes_read + Capacity
            => \/ after.output.input_end
               \/ \E i \in DOMAIN after.buffer_list : after.buffer_list[i].eof
=============================================================================
