------------------------------ MODULE WireSpec ------------------------------
(***************************************************************************)
(* Two TCP-over-IPv4 adapters, one of them listening, on an Ethernet (TAP  *)
(* devices) or a line for datagrams (TUN devices) that may alter a byte of *)
(* what is written or change its length.  The ends take turns to write a   *)
(* TCP segment or an ARP message.                                          *)
(***************************************************************************)
EXTENDS IPAdapter

CONSTANTS
    Segments,      \* the segments an end may be given to write
    ClientSocket,  \* the address and port the client connects from
    ServerSocket,  \* the ones the server listens on
    Deltas,        \* what may be added to a byte on the way
    Resizes,       \* how many bytes may be missing (< 0) or padded (> 0)
    MaxFrames

VARIABLES
    device,   \* "tun" or "tap"
    adapter,  \* the client's and the server's
    sent,     \* what has been written last, by whom; <<>> before that
    wire,     \* the frame or datagram on its way, as bytes; <<>> if there is none
    harm,     \* what has happened to it
    got,      \* what the reader has made of it: <<>> before that
    frames,   \* how many have been written
    ended     \* the ends whose thread an exception has ended

wire_vars == <<device, adapter, sent, wire, harm, got, frames, ended>>

Ends == {"client", "server"}
other(e) == IF e = "client" THEN "server" ELSE "client"
Broadcast == <<255, 255, 255, 255, 255, 255>>
Mac(e) == IF e = "client" THEN <<2, 0, 0, 0, 0, 1>> ELSE <<2, 0, 0, 0, 0, 2>>

NoSocket == [ip |-> <<0, 0>>, port |-> 0]

WireInit ==
    /\ device \in {"tun", "tap"}
    /\ adapter = [client |-> NewAdapter(ClientSocket, ServerSocket, FALSE),
                  server |-> NewAdapter([NoSocket EXCEPT !.port = ServerSocket.port], NoSocket,
                                        TRUE)]
    /\ sent = <<>> /\ wire = <<>> /\ harm = "none" /\ got = <<>> /\ frames = 0 /\ ended = {}

(* An end writes to an address it knows, while someone reads. *)
CanWrite(e) == wire = <<>> /\ frames < MaxFrames /\ ~adapter[e].listening /\ ended = {}

Put(e, dst, what, type, payload) ==
    LET frame == [header |-> [dst |-> dst, src |-> Mac(e), type |-> type], payload |-> payload]
    IN  /\ sent' = <<what>>
        /\ wire' = IF device = "tun" THEN payload ELSE EthernetFrame_serialize(frame)
        /\ harm' = "none" /\ got' = <<>> /\ frames' = frames + 1
        /\ UNCHANGED <<device, adapter, ended>>

(* A peer that is not this code may send IPv4 options, a longer hlen. *)
WriteSegment(e, seg, hlen) ==
    /\ CanWrite(e)
    /\ \E dgram \in {wrap_tcp_in_ip(adapter[e], seg)} :
       \E with_options \in {[dgram EXCEPT !.header.hlen = hlen,
                                         !.header.len = @ + 4 * (hlen - 5)]} :
          Put(e, Mac(other(e)), [by |-> e, segment |-> seg], TYPE_IPv4,
              IPv4Datagram_serialize(with_options))

(* A request goes to everyone, and has no target Ethernet address yet. *)
ARPOf(e, opcode) ==
    [hardware_type |-> 1, protocol_type |-> TYPE_IPv4, hardware_address_size |-> 6,
     protocol_address_size |-> 4, opcode |-> opcode, sender_ethernet_address |-> Mac(e),
     sender_ip_address |-> adapter[e].source.ip,
     target_ethernet_address |-> IF opcode = 1 THEN NoAddress ELSE Mac(other(e)),
     target_ip_address |-> adapter[e].destination.ip]

WriteARP(e, opcode) ==
    /\ CanWrite(e) /\ device = "tap"
    /\ Put(e, IF opcode = 1 THEN Broadcast ELSE Mac(other(e)), [by |-> e, arp |-> ARPOf(e, opcode)],
           TYPE_ARP, ARPMessage_serialize(ARPOf(e, opcode)))

(* One byte of the datagram arrives as another one.  Left out: the frame's *)
(* own header and ARP, which nothing protects, and the byte with the       *)
(* length of the IPv4 header, which the TCP checksum does not cover.       *)
Alter(i, d) ==
    /\ wire # <<>> /\ harm = "none" /\ "segment" \in DOMAIN sent[1]
    /\ i > IF device = "tap" THEN 15 ELSE 1
    /\ wire' = [wire EXCEPT ![i] = (@ + d) % 256]
    /\ harm' = "altered"
    /\ UNCHANGED <<device, adapter, sent, got, frames, ended>>

Resize(n) ==
    /\ wire # <<>> /\ harm = "none" /\ Len(wire) + n >= 0
    /\ wire' = resize(wire, Len(wire) + n)
    /\ harm' = "resized"
    /\ UNCHANGED <<device, adapter, sent, got, frames, ended>>

(* What end e makes of a frame: read() of the Ethernet adapter, with the   *)
(* filter and the parsing of recv_frame, which throws when the payload is  *)
(* not what the type says.  What recv_frame does with an ARP message is in *)
(* NetworkInterface.                                                       *)
nothing_read(e) == no_segment(adapter[e]) @@ [arp |-> <<>>, threw |-> FALSE]
exception(e) == [nothing_read(e) EXCEPT !.threw = TRUE]

tap_read(e, frame, dgram, tcp, arp) ==
    LET is_ipv4 == frame.header.type = TYPE_IPv4 /\ frame.header.dst = Mac(e)
        is_arp == frame.header.type = TYPE_ARP
    IN  CASE frame.result # "NoError" \/ ~(is_ipv4 \/ is_arp) -> nothing_read(e)
          [] (is_ipv4 /\ dgram.result # "NoError") \/ (is_arp /\ arp.result # "NoError") ->
                exception(e)
          [] is_ipv4 -> unwrap_tcp_in_ip(adapter[e], dgram, tcp) @@ [arp |-> <<>>, threw |-> FALSE]
          [] OTHER -> [nothing_read(e) EXCEPT !.arp = <<arp.header>>]

reader == other(sent[1].by)

UnwrapFrame ==
    IF device = "tap" THEN EthernetFrame_parse(wire) ELSE Parsed("NoError", <<>>, wire)

Read ==
    /\ wire # <<>>
    /\ \E frame \in {UnwrapFrame} :
       \E dgram \in {IPv4Datagram_parse(frame.payload)}, arp \in {ARPMessage_parse(frame.payload)} :
       \E tcp \in {TCPSegment_parse(dgram.payload, pseudo_cksum(dgram.header))} :
       \E u \in {IF device = "tap" THEN tap_read(reader, frame, dgram, tcp, arp)
                 ELSE tun_read(adapter[reader], dgram, tcp) @@ [arp |-> <<>>, threw |-> FALSE]} :
          /\ got' = <<[segment |-> u.segment, arp |-> u.arp]>>
          /\ adapter' = [adapter EXCEPT ![reader] = u.adapter]
          /\ ended' = IF u.threw THEN ended \cup {reader} ELSE ended
    /\ wire' = <<>>
    /\ UNCHANGED <<device, sent, harm, frames>>

WireNext ==
    \/ \E e \in Ends, seg \in Segments, hlen \in {5, 6} : WriteSegment(e, seg, hlen)
    \/ \E e \in Ends, opcode \in {1, 2} : WriteARP(e, opcode)
    \/ \E i \in DOMAIN wire, d \in Deltas : Alter(i, d)
    \/ \E n \in Resizes : Resize(n)
    \/ Read

-----------------------------------------------------------------------------
Written ==
    LET a == adapter[sent[1].by]
    IN  [sent[1].segment EXCEPT !.header.sport = a.source.port, !.header.dport = a.destination.port]

Unsummed(seg) == [seg EXCEPT !.header.cksum = 0]

Faithful ==
    LET u == got[1]
    IN  IF "arp" \in DOMAIN sent[1] THEN u.segment = <<>> /\ u.arp \in {<<>>, <<sent[1].arp>>}
        ELSE u.arp = <<>> /\ \A i \in DOMAIN u.segment : Unsummed(u.segment[i]) = Written

(* What one end writes the other reads, whatever its flags, options and    *)
(* payload, through TCP, IPv4, Ethernet and ARP headers and back; only a   *)
(* listening adapter waits for a SYN.                                      *)
SentIsRead ==
    LET opening == "syn" \in Written.header.flags /\ "rst" \notin Written.header.flags
        nothing == got[1].segment = <<>> /\ got[1].arp = <<>>
    IN  got # <<>> /\ harm = "none" =>
            /\ Faithful
            /\ nothing <=> /\ "segment" \in DOMAIN sent[1]
                           /\ adapter[reader].listening /\ ~opening

(* A frame that arrives with one byte changed, cut short or padded is read *)
(* as nothing or as what was sent, never as something else, although the   *)
(* parse() of a message ignores what the parse() of its header finds.      *)
HarmedIsNotMistaken == got # <<>> /\ harm # "none" => Faithful

(* A listening adapter settles on the end that wrote to it and on the      *)
(* address that end wrote to, whatever frames were harmed before: the two  *)
(* adapters mirror each other for the rest of the connection.              *)
SettlesOnTheSender ==
    LET a == adapter.server
    IN  ~a.listening => a.source = ServerSocket /\ a.destination = ClientSocket
=============================================================================
