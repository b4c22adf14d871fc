---------------------------- MODULE BufferString ----------------------------
(***************************************************************************)
(* The out-of-order store of the reassembler: libsponge/buffer_string      *)
(* .{hh,cc}.  A BufferString is an excerpt of the stream with its index    *)
(* range [first, second); a BufferStringList is a sequence of them.        *)
(***************************************************************************)
EXTENDS Integers, Sequences

BufferStringRecord(Byte) == [first : Nat, str : Seq(Byte), eof : BOOLEAN]

second(b) == b.first + Len(b.str)

Larger(a, b) == IF a >= b THEN a ELSE b

(* std::lower_bound: the first element whose end reaches key, or end(). *)
lower_bound(list, key) ==
    CHOOSE i \in 1 .. Len(list) + 1 :
        /\ \A j \in 1 .. i - 1 : second(list[j]) < key
        /\ i <= Len(list) => second(list[i]) >= key

(* std::upper_bound: the first element that starts past key, or end(). *)
upper_bound(list, key) ==
    CHOOSE i \in 1 .. Len(list) + 1 :
        /\ \A j \in 1 .. i - 1 : list[j].first <= key
        /\ i <= Len(list) => list[i].first > key

(* Bytes [from, to) of the excerpt b. *)
excerpt(b, from, to) == SubSeq(b.str, from - b.first + 1, to - b.first)

(* The elements lo .. hi - 1 of the list touch or overlap the buffer: what *)
(* they hold outside it is joined to it.                                   *)
merged(list, lo, hi, buffer) ==
    LET is_list_end == hi = Len(list) + 1
        upper_right == IF is_list_end THEN hi - 1 ELSE hi
        left_index == IF list[lo].first < buffer.first THEN list[lo].first ELSE buffer.first
        right_index == IF is_list_end
                       THEN Larger(second(list[upper_right]), second(buffer))
                       ELSE second(buffer)
        longer == {i \in lo .. upper_right - 1 : second(list[i]) > right_index}
    IN  [first |-> left_index,
         str |-> (IF buffer.first > left_index
                  THEN excerpt(list[lo], left_index, buffer.first) ELSE <<>>)
                 \o buffer.str
                 \o (IF longer # {}
                     THEN LET b == list[CHOOSE i \in longer : TRUE]
                          IN  excerpt(b, right_index, second(b))
                     ELSE <<>>)
                 \o (IF is_list_end /\ second(buffer) < right_index
                     THEN excerpt(list[upper_right], second(buffer), right_index)
                     ELSE <<>>),
         eof |-> buffer.eof \/ (is_list_end /\ list[upper_right].eof)]

push_back(list, str, index, eof) ==
    LET buffer == [first |-> index, str |-> str, eof |-> eof]
        lower_left == lower_bound(list, index)
        upper_right == upper_bound(list, second(buffer))
    IN  IF lower_left = upper_right
        THEN SubSeq(list, 1, lower_left - 1) \o <<buffer>>
             \o SubSeq(list, lower_left, Len(list))
        ELSE IF /\ list[lower_left].first <= index
                /\ second(list[lower_left]) >= second(buffer)
        THEN list
        ELSE SubSeq(list, 1, lower_left - 1)
             \o <<merged(list, lower_left, upper_right, buffer)>>
             \o SubSeq(list, upper_right, Len(list))

top_index(list) == IF list = <<>> THEN 0 ELSE list[1].first

(* pop_up_buffer_string: the front excerpt, cut to `size' bytes.  What is  *)
(* cut off goes to the back of the list.                                   *)
popped(list, size) ==
    IF size >= Len(list[1].str)
    THEN list[1]
    ELSE [first |-> list[1].first, str |-> SubSeq(list[1].str, 1, size), eof |-> FALSE]

after_pop_DropsRest(list, size) == SubSeq(list, 2, Len(list))    \* mutant
after_pop(list, size) ==
    IF size >= Len(list[1].str)
    THEN SubSeq(list, 2, Len(list))
    ELSE SubSeq(list, 2, Len(list))
         \o <<[first |-> list[1].first + size,
               str |-> SubSeq(list[1].str, size + 1, Len(list[1].str)),
               eof |-> list[1].eof]>>
=============================================================================
