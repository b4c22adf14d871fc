------------------------------ MODULE Headers -------------------------------
(***************************************************************************)
(* TCP segments, IPv4 datagrams, Ethernet frames and ARP messages as bytes *)
(* (libsponge/tcp_helpers/: tcp_header, tcp_segment, ipv4_header,          *)
(* ipv4_datagram, ethernet_header, ethernet_frame, arp_message).           *)
(*                                                                         *)
(* Each parse() yields its result, the header, and the payload or what the *)
(* parser has left.  The parse() of a message ignores the result of its    *)
(* header's and returns the error of the parser, as the code does.         *)
(***************************************************************************)
EXTENDS NetParser, FiniteSetsExt

Parsed(result, header, payload) == [result |-> result, header |-> header, payload |-> payload]

TCPFields ==
    <<<<"sport", "u16">>, <<"dport", "u16">>, <<"seqno", "u32">>, <<"ackno", "u32">>,
      <<"doff", "u8">>, <<"flags", "u8">>, <<"win", "u16">>, <<"cksum", "u16">>,
      <<"uptr", "u16">>>>

FlagBits == [urg |-> 32, ack |-> 16, psh |-> 8, rst |-> 4, syn |-> 2, fin |-> 1]

flags_in(fl_b) == {f \in DOMAIN FlagBits : (fl_b \div FlagBits[f]) % 2 = 1}
flag_byte(flags) == MapThenSumSet(LAMBDA f : FlagBits[f], flags)

TCPHeader_parse_KeepsOptions(p) ==  \* mutant
    LET r == parse_fields(p, TCPFields)
        header == [r.header EXCEPT !.doff = @ \div 16, !.flags = flags_in(@)]
    IN  IF header.doff < 5 THEN Parsed("HeaderTooShort", header, r.parser)
        ELSE Parsed(r.parser.error, header, r.parser)
TCPHeader_parse(p) ==
    LET r == parse_fields(p, TCPFields)
        header == [r.header EXCEPT !.doff = @ \div 16, !.flags = flags_in(@)]
        rest == remove_bytes(r.parser, header.doff * 4 - 20)
    IN  IF header.doff < 5 THEN Parsed("HeaderTooShort", header, r.parser)
        ELSE Parsed(rest.error, header, rest)

TCPHeader_serialize(h) ==
    resize(serialize_fields([h EXCEPT !.doff = @ * 16, !.flags = flag_byte(@)], TCPFields),
           4 * h.doff)

TCPSegment_parse(buffer, pseudo_sum) ==
    LET r == TCPHeader_parse(NewNetParser(buffer))
    IN  IF value(add(InternetChecksum(pseudo_sum), buffer)) # 0
        THEN Parsed("BadChecksum", <<>>, <<>>)
        ELSE Parsed(r.payload.error, r.header, r.payload.buffer)

TCPSegment_serialize(seg, pseudo_sum) ==
    LET unsummed == TCPHeader_serialize([seg.header EXCEPT !.cksum = 0])
        cksum == value(add(add(InternetChecksum(pseudo_sum), unsummed), seg.payload))
    IN  TCPHeader_serialize([seg.header EXCEPT !.cksum = cksum]) \o seg.payload

-----------------------------------------------------------------------------
IPv4Fields ==
    <<<<"first", "u8">>, <<"tos", "u8">>, <<"len", "u16">>, <<"id", "u16">>, <<"fo", "u16">>,
      <<"ttl", "u8">>, <<"proto", "u8">>, <<"cksum", "u16">>, <<"src", "u32">>, <<"dst", "u32">>>>

PROTO_TCP == 6

IPv4Header ==
    [ver |-> 4, hlen |-> 5, tos |-> 0, len |-> 0, id |-> 0, df |-> TRUE, mf |-> FALSE,
     offset |-> 0, ttl |-> 128, proto |-> PROTO_TCP, cksum |-> 0, src |-> <<0, 0>>,
     dst |-> <<0, 0>>]

payload_length(h) == (h.len - 4 * h.hlen) % 65536

sum_of_halves(addr) == addr[1] + addr[2]
pseudo_cksum_NoSource(h) == sum_of_halves(h.dst) + h.proto + payload_length(h)  \* mutant
pseudo_cksum(h) == sum_of_halves(h.src) + sum_of_halves(h.dst) + h.proto + payload_length(h)

IPv4Header_parse(p) ==
    LET size == Len(p.buffer)
        r == parse_fields(p, IPv4Fields)
        raw == r.header
        header == [f \in DOMAIN IPv4Header |->
                      CASE f = "ver" -> raw.first \div 16
                        [] f = "hlen" -> raw.first % 16
                        [] f = "df" -> (raw.fo \div 16384) % 2 = 1
                        [] f = "mf" -> (raw.fo \div 8192) % 2 = 1
                        [] f = "offset" -> raw.fo % 8192
                        [] OTHER -> raw[f]]
        rest == remove_bytes(r.parser, header.hlen * 4 - 20)
        refused(why) == Parsed(why, header, r.parser)
    IN  IF size < 20 THEN Parsed("PacketTooShort", IPv4Header, p)
        ELSE IF size < 4 * header.hlen THEN refused("PacketTooShort")
        ELSE IF header.ver # 4 THEN refused("WrongIPVersion")
        ELSE IF header.hlen < 5 THEN refused("HeaderTooShort")
        ELSE IF size # header.len THEN refused("TruncatedPacket")
        ELSE IF value(add(InternetChecksum(0), SubSeq(p.buffer, 1, 4 * header.hlen))) # 0
             THEN Parsed("BadChecksum", header, rest)
        ELSE Parsed("NoError", header, rest)

IPv4Header_serialize(h) ==
    LET raw == h @@ ("first" :> h.ver * 16 + h.hlen)
                 @@ ("fo" :> (IF h.df THEN 16384 ELSE 0) + (IF h.mf THEN 8192 ELSE 0) + h.offset)
    IN  resize(serialize_fields(raw, IPv4Fields), 4 * h.hlen)

IPv4Datagram_parse_AnyLength(buffer) ==  \* mutant
    LET r == IPv4Header_parse(NewNetParser(buffer))
    IN  Parsed(r.payload.error, r.header, r.payload.buffer)
IPv4Datagram_parse(buffer) ==
    LET r == IPv4Header_parse(NewNetParser(buffer))
        payload == r.payload.buffer
    IN  Parsed(IF Len(payload) # payload_length(r.header) THEN "PacketTooShort"
               ELSE r.payload.error, r.header, payload)

IPv4Datagram_serialize(dgram) ==
    LET unsummed == IPv4Header_serialize([dgram.header EXCEPT !.cksum = 0])
        cksum == value(add(InternetChecksum(0), unsummed))
    IN  IPv4Header_serialize([dgram.header EXCEPT !.cksum = cksum]) \o dgram.payload

-----------------------------------------------------------------------------
EthernetFields == <<<<"dst", "mac">>, <<"src", "mac">>, <<"type", "u16">>>>

TYPE_IPv4 == 2048
TYPE_ARP == 2054

NoAddress == <<0, 0, 0, 0, 0, 0>>

(* A frame shorter than its header parses, as an empty header and a        *)
(* payload.                                                                *)
EthernetFrame_parse(buffer) ==
    LET r == parse_fields(NewNetParser(buffer), EthernetFields)
    IN  IF Len(buffer) < 14
        THEN Parsed("NoError", [dst |-> NoAddress, src |-> NoAddress, type |-> 0], buffer)
        ELSE Parsed(r.parser.error, r.header, r.parser.buffer)

EthernetFrame_serialize(frame) == serialize_fields(frame.header, EthernetFields) \o frame.payload

ARPKind == <<<<"hardware_type", "u16">>, <<"protocol_type", "u16">>,
             <<"hardware_address_size", "u8">>, <<"protocol_address_size", "u8">>,
             <<"opcode", "u16">>>>
ARPAddresses == <<<<"sender_ethernet_address", "mac">>, <<"sender_ip_address", "u32">>,
                  <<"target_ethernet_address", "mac">>, <<"target_ip_address", "u32">>>>

supported(m) ==
    /\ m.hardware_type = 1 /\ m.protocol_type = TYPE_IPv4
    /\ m.hardware_address_size = 6 /\ m.protocol_address_size = 4
    /\ m.opcode \in {1, 2}

ARPMessage_parse(buffer) ==
    LET kind == parse_fields(NewNetParser(buffer), ARPKind)
        addresses == parse_fields(kind.parser, ARPAddresses)
    IN  IF Len(buffer) < 28 THEN Parsed("PacketTooShort", <<>>, <<>>)
        ELSE IF ~supported(kind.header) THEN Parsed("Unsupported", kind.header, <<>>)
        ELSE Parsed(addresses.parser.error, kind.header @@ addresses.header, <<>>)

ARPMessage_serialize(m) == serialize_fields(m, ARPKind \o ARPAddresses)
=============================================================================
