------------------------------ MODULE IPAdapter -----------------------------
(***************************************************************************)
(* TCP over IPv4 over a TUN device, or over Ethernet (tcp_helpers/         *)
(* tcp_over_ip.cc and tuntap_adapter.hh), down to the bytes.               *)
(***************************************************************************)
EXTENDS Adapter, Headers

TCPHeader == [sport |-> 0, dport |-> 0, seqno |-> <<0, 0>>, ackno |-> <<0, 0>>, doff |-> 5,
              flags |-> {}, win |-> 0, cksum |-> 0, uptr |-> 0]

(* `tcp' is what the payload of the datagram was parsed to. *)
unwrap_tcp_in_ip(a, dgram, tcp) ==
    LET src == dgram.header.src
        dst == dgram.header.dst
        seg == [header |-> tcp.header, payload |-> tcp.payload]
        for_us == /\ a.listening \/ (dst = a.source.ip /\ src = a.destination.ip)
                  /\ dgram.header.proto = PROTO_TCP
                  /\ tcp.result = "NoError"
                  /\ seg.header.dport = a.source.port
        opening == "syn" \in seg.header.flags /\ "rst" \notin seg.header.flags
        peer == IF a.listening
                THEN settle(a, [ip |-> dst, port |-> a.source.port],
                            [ip |-> src, port |-> seg.header.sport])
                ELSE a
    IN  IF ~for_us \/ (a.listening /\ ~opening) THEN no_segment(a)
        ELSE IF seg.header.sport # peer.destination.port THEN no_segment(peer)
        ELSE [adapter |-> peer, segment |-> <<seg>>]

wrap_tcp_in_ip(a, seg) ==
    LET out == [seg EXCEPT !.header.sport = a.source.port, !.header.dport = a.destination.port]
        header == [IPv4Header EXCEPT !.src = a.source.ip, !.dst = a.destination.ip,
                                     !.len = 20 + out.header.doff * 4 + Len(out.payload)]
    IN  [header |-> header, payload |-> TCPSegment_serialize(out, pseudo_cksum(header))]

(* TCPOverIPv4OverTunFdAdapter, given what the datagram was parsed to. *)
tun_read(a, dgram, tcp) ==
    IF dgram.result # "NoError" THEN no_segment(a) ELSE unwrap_tcp_in_ip(a, dgram, tcp)
=============================================================================
