------------------------------ MODULE NetParser -----------------------------
(***************************************************************************)
(* libsponge/util/parser.{hh,cc} and the InternetChecksum of util/util.cc: *)
(* bytes to numbers and back, in network byte order, and the checksum that *)
(* protects them.                                                          *)
(*                                                                         *)
(* TLC's integers have 32 bits and a sign: a uint32_t is a pair of its     *)
(* halves.  An Ethernet address is a sequence of six bytes.                *)
(***************************************************************************)
EXTENDS Integers, SequencesExt

NewNetParser(buffer) == [buffer |-> buffer, error |-> "NoError"]

from(s, n) == SubSeq(s, n + 1, Len(s))

(* Both set the error for good when there is too little left, and take     *)
(* nothing then.                                                           *)
check_size(p, n) == IF n > Len(p.buffer) THEN [p EXCEPT !.error = "PacketTooShort"] ELSE p

remove_bytes(p, n) ==
    LET c == check_size(p, n)
    IN  IF c.error = "NoError" THEN [c EXCEPT !.buffer = from(@, n)] ELSE c

next_bytes(p, n) ==
    IF check_size(p, n).error = "NoError" THEN SubSeq(p.buffer, 1, n) ELSE [i \in 1 .. n |-> 0]

(* _parse_int and _unparse_int, by the type of the field. *)
Width == [u8 |-> 1, u16 |-> 2, u32 |-> 4, mac |-> 6]

u16(hi, lo) == hi * 256 + lo

parse_int(bytes, type) ==
    CASE type = "u8" -> bytes[1]
      [] type = "u16" -> u16(bytes[1], bytes[2])
      [] type = "u32" -> <<u16(bytes[1], bytes[2]), u16(bytes[3], bytes[4])>>
      [] type = "mac" -> bytes

unparse_u16(val) == <<val \div 256, val % 256>>

unparse_int(val, type) ==
    CASE type = "u8" -> <<val>>
      [] type = "u16" -> unparse_u16(val)
      [] type = "u32" -> unparse_u16(val[1]) \o unparse_u16(val[2])
      [] type = "mac" -> val

(* A header is parsed and serialised field by field; `fields' lists their  *)
(* names and types.                                                        *)
parse_fields(p, fields) ==
    LET parse_field(r, f) ==
            [parser |-> remove_bytes(r.parser, Width[f[2]]),
             header |-> r.header @@ (f[1] :> parse_int(next_bytes(r.parser, Width[f[2]]), f[2]))]
    IN  FoldLeft(parse_field, [parser |-> p, header |-> <<>>], fields)

serialize_fields(h, fields) ==
    FlattenSeq([i \in DOMAIN fields |-> unparse_int(h[fields[i][1]], fields[i][2])])

(* std::string::resize: up to n bytes with zeros, or down to n. *)
resize(s, n) == [i \in 1 .. n |-> IF i <= Len(s) THEN s[i] ELSE 0]

-----------------------------------------------------------------------------
(* The parity is kept between the pieces that are added. *)
InternetChecksum(initial_sum) == [sum |-> initial_sum, parity |-> FALSE]

add(check, data) ==
    LET add_byte(c, b) ==
            [sum |-> c.sum + (IF c.parity THEN b ELSE u16(b, 0)), parity |-> ~c.parity]
    IN  FoldLeft(add_byte, check, data)

(* Two rounds of the loop bring every sum below 2^31 down to 16 bits. *)
value(check) ==
    LET fold(x) == (x \div 65536) + (x % 65536)
    IN  65535 - fold(fold(check.sum))
=============================================================================
