-------------------------- MODULE NetworkInterface --------------------------
(***************************************************************************)
(* libsponge/network_interface.{hh,cc} and the AsyncNetworkInterface of    *)
(* router.hh: IP datagrams to Ethernet frames and back, with ARP, as       *)
(* operators on a record.                                                  *)
(*                                                                         *)
(* The code stores points in time; here `left' is how far away one is, and *)
(* a waiting datagram's is kept no further below zero than -1, since only  *)
(* its sign is looked at.                                                  *)
(***************************************************************************)
EXTENDS Integers, SequencesExt

CONSTANTS RequestTime,    \* 5 s: no second ARP request within this time
          ExpireTime      \* 30 s: how long a mapping is cached

ASSUME InterfaceAssumption == RequestTime \in Nat /\ ExpireTime \in Nat

ETHERNET_BROADCAST == "broadcast"
ZeroAddress == "zero"    \* EthernetAddress{}

Frame(src, dst, type, payload) ==
    [src |-> src, dst |-> dst, type |-> type, payload |-> payload]

ARPMessage(opcode, sender_eth, sender_ip, target_eth, target_ip) ==
    [opcode |-> opcode, sender_eth |-> sender_eth, sender_ip |-> sender_ip,
     target_eth |-> target_eth, target_ip |-> target_ip]

NewInterface(eth, ip) ==
    [eth |-> eth, ip |-> ip, frames_out |-> <<>>, datagrams_out |-> <<>>,
     arp_ip_queue |-> <<>>, cache |-> <<>>, expire_queue |-> <<>>]

-----------------------------------------------------------------------------
(* IP2EthernetCache::set_cache *)
set_cache_KeepsOld(n, ip, eth) ==    \* mutant
    [n EXCEPT !.cache = (ip :> eth) @@ @,
              !.expire_queue = Append(@, [left |-> ExpireTime, ip |-> ip])]
set_cache(n, ip, eth) ==
    LET others == IF ip \in DOMAIN n.cache
                  THEN RemoveFirstMatch(n.expire_queue, LAMBDA e : e.ip = ip)
                  ELSE n.expire_queue
    IN  [n EXCEPT !.cache = (ip :> eth) @@ @,
                  !.expire_queue = Append(others, [left |-> ExpireTime, ip |-> ip])]

(* _try_set_cache_if_need *)
try_set_cache_if_need(n, ip, eth) ==
    IF eth \in {ETHERNET_BROADCAST, ZeroAddress} THEN n ELSE set_cache(n, ip, eth)

(* Both of a message's mappings are cached, the sender's first. *)
learn(n, msg) ==
    try_set_cache_if_need(try_set_cache_if_need(n, msg.sender_ip, msg.sender_eth),
                          msg.target_ip, msg.target_eth)

(* try_clean_expire_cache drops entries from the front, up to the first    *)
(* that is still good.                                                     *)
try_clean_expire_cache(n) ==
    LET q == n.expire_queue
        good == SelectInSeq(q, LAMBDA e : e.left >= 0)
        kept == IF good = 0 THEN <<>> ELSE SubSeq(q, good, Len(q))
        dropped == {q[i].ip : i \in 1 .. Len(q) - Len(kept)}
    IN  [n EXCEPT !.cache = [ip \in DOMAIN @ \ dropped |-> @[ip]],
                  !.expire_queue = kept]

interface_tick(n, ms) ==
    try_clean_expire_cache(
        [n EXCEPT
            !.expire_queue = [i \in DOMAIN @ |-> [@[i] EXCEPT !.left = @ - ms]],
            !.arp_ip_queue = [ip \in DOMAIN @ |->
                                [@[ip] EXCEPT !.left = IF @ >= ms THEN @ - ms ELSE -1]]])

-----------------------------------------------------------------------------
(* Waiting datagrams are kept under the interface's own address, so there  *)
(* is at most one, for whichever next hop.                                 *)
asked_recently(n) == n.ip \in DOMAIN n.arp_ip_queue /\ n.arp_ip_queue[n.ip].left >= 0

send_datagram(n, dgram, next_hop) ==
    IF next_hop \in DOMAIN n.cache
    THEN [n EXCEPT !.frames_out = Append(@, Frame(n.eth, n.cache[next_hop], "IPv4", dgram))]
    ELSE IF asked_recently(n) THEN n
    ELSE [n EXCEPT
            !.frames_out = Append(@, Frame(n.eth, ETHERNET_BROADCAST, "ARP",
                    ARPMessage("request", n.eth, n.ip, ZeroAddress, next_hop))),
            !.arp_ip_queue = (n.ip :> [left |-> RequestTime, dgram |-> dgram]) @@ @]

(* A request is answered for every address that is known, its own or not.  *)
answer_SwapsAddresses(n, msg) ==    \* mutant
    IF msg.target_ip # n.ip THEN n
    ELSE [n EXCEPT !.frames_out = Append(@, Frame(n.eth, msg.sender_eth, "ARP",
             ARPMessage("reply", n.eth, msg.sender_ip, msg.sender_eth, msg.target_ip)))]
answer(n, msg) ==
    LET known == n.cache @@ (n.ip :> n.eth)
    IN  IF msg.target_ip \notin DOMAIN known THEN n
        ELSE [n EXCEPT !.frames_out = Append(@, Frame(n.eth, msg.sender_eth, "ARP",
                 ARPMessage("reply", known[msg.target_ip], msg.target_ip,
                            msg.sender_eth, msg.sender_ip)))]

(* A reply to this interface releases the waiting datagram. *)
release_Never(n, msg) == n    \* mutant
release_SwapsAddresses(n, msg) ==    \* mutant
    IF msg.target_ip \notin DOMAIN n.arp_ip_queue THEN n
    ELSE [n EXCEPT
            !.frames_out = Append(@, Frame(msg.sender_eth, msg.target_eth, "IPv4",
                                           n.arp_ip_queue[msg.target_ip].dgram)),
            !.arp_ip_queue = [ip \in DOMAIN @ \ {msg.target_ip} |-> @[ip]]]
release(n, msg) ==
    IF msg.target_ip \notin DOMAIN n.arp_ip_queue THEN n
    ELSE [n EXCEPT
            !.frames_out = Append(@, Frame(msg.target_eth, msg.sender_eth, "IPv4",
                                           n.arp_ip_queue[msg.target_ip].dgram)),
            !.arp_ip_queue = [ip \in DOMAIN @ \ {msg.target_ip} |-> @[ip]]]

(* recv_frame, with the datagram queued for the owner. *)
recv_frame(n, frame) ==
    IF frame.type = "IPv4"
    THEN IF frame.dst = n.eth THEN [n EXCEPT !.datagrams_out = Append(@, frame.payload)] ELSE n
    ELSE IF frame.payload.opcode = "request" THEN learn(answer(n, frame.payload), frame.payload)
    ELSE learn(release(n, frame.payload), frame.payload)
=============================================================================
