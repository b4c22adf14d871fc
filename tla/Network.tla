------------------------------- MODULE Network ------------------------------
(***************************************************************************)
(* Hosts and routers joined by Ethernet links, as in                       *)
(* apps/network_simulator.cc: hosts hand datagrams to their gateway, every *)
(* frame reaches all other interfaces of its link, and a router moves      *)
(* datagrams between its interfaces.  An interface's Ethernet address is   *)
(* its name.                                                               *)
(***************************************************************************)
EXTENDS Router, FiniteSets

CONSTANTS Ip,              \* the IP address of each interface, by name
          Link,            \* the link of each interface
          Networks,        \* the sets of interfaces that make a network
          Gateway,         \* the next hop of each host
          Routers,         \* the ports of each router
          FixedRoutes,     \* the routes each router starts with
          Routes,          \* the routes that may be added
          Senders,         \* the hosts that send
          Destinations,    \* where they send to
          Ttls,            \* the time to live they use
          TableSize,       \* how many are
          MaxSends,        \* bound: how many datagrams are sent
          MaxLosses        \* bound: how many frames are lost

Interfaces == DOMAIN Ip
Hosts == DOMAIN Gateway
PortsOf(router) == ToSet(Routers[router])
Ports == UNION {PortsOf(router) : router \in DOMAIN Routers}
RouterOf(p) == CHOOSE router \in DOMAIN Routers : p \in PortsOf(router)
Addresses == 0 .. 2 ^ AddressBits - 1

ASSUME NetworkAssumption ==
    /\ Ip \in [Interfaces -> Addresses] /\ Link \in [Interfaces -> Nat]
    /\ Gateway \in [Hosts -> Addresses] /\ Hosts = Interfaces \ Ports
    /\ \A r \in Routes : r.interface \in Ports /\ r.prefix_length \in 0 .. AddressBits
    /\ \A x, y \in Interfaces : Ip[x] = Ip[y] => x = y

VARIABLES net,         \* the interface of each name
          routes,      \* _router_list of each router
          sent,        \* the datagrams hosts have sent
          delivered,   \* who has been given which datagram
          losses       \* how many frames have been lost

Here == {router \in DOMAIN Routers : PortsOf(router) \subseteq DOMAIN net}

vars == <<net, routes, sent, delivered, losses>>

Init ==
    /\ net \in {[x \in xs |-> NewInterface(x, Ip[x])] : xs \in Networks}
    /\ routes = FixedRoutes /\ sent = <<>> /\ delivered = {} /\ losses = 0

(* Routes are added while the network is set up. *)
Added == Cardinality(Routes \cap UNION {ToSet(routes[router]) : router \in DOMAIN Routers})

AddRoute(r) ==
    /\ Added < TableSize /\ r \notin ToSet(routes[RouterOf(r.interface)])
    /\ routes' = [routes EXCEPT ![RouterOf(r.interface)] = add_route(@, r)]
    /\ UNCHANGED <<net, sent, delivered, losses>>

SendTo(h, dst, ttl) ==
    LET dgram == [id |-> Len(sent) + 1, dst |-> dst, ttl |-> ttl]
    IN  /\ h \in DOMAIN net /\ Added = TableSize /\ Len(sent) < MaxSends
        /\ net' = [net EXCEPT ![h] = send_datagram(@, dgram, Gateway[h])]
        /\ sent' = Append(sent, dgram)
        /\ UNCHANGED <<routes, delivered, losses>>

(* The first frame of x leaves, and is heard by the interfaces in ys. *)
Leaves(x, ys) ==
    /\ net[x].frames_out # <<>>
    /\ net' = [y \in DOMAIN net |->
                  IF y = x THEN [net[x] EXCEPT !.frames_out = Tail(@)]
                  ELSE IF y \in ys THEN recv_frame(net[y], Head(net[x].frames_out))
                  ELSE net[y]]
    /\ UNCHANGED <<routes, sent, delivered>>

Transmit(x) ==
    /\ Leaves(x, {y \in DOMAIN net : Link[y] = Link[x]})
    /\ UNCHANGED losses

Lose(x) ==
    /\ losses < MaxLosses
    /\ Leaves(x, {})
    /\ losses' = losses + 1

(* Time passes for every interface. *)
Tick ==
    /\ net' = [x \in DOMAIN net |-> interface_tick(net[x], 1)]
    /\ UNCHANGED <<routes, sent, delivered, losses>>

Route(router) ==
    /\ net' = route_all(net, Routers[router], routes[router])
    /\ UNCHANGED <<routes, sent, delivered, losses>>

(* The host takes what has arrived. *)
Check(h) ==
    /\ net' = [net EXCEPT ![h].datagrams_out = <<>>]
    /\ delivered' = delivered \cup ({h} \X ToSet(net[h].datagrams_out))
    /\ UNCHANGED <<routes, sent, losses>>

Next ==
    \/ \E r \in Routes : AddRoute(r)
    \/ \E h \in Senders, dst \in Destinations, ttl \in Ttls : SendTo(h, dst, ttl)
    \/ \E h \in Hosts \cap DOMAIN net : Check(h)
    \/ \E x \in DOMAIN net : Transmit(x) \/ Lose(x)
    \/ Tick
    \/ \E router \in Here : Route(router)

Spec == Init /\ [][Next]_vars

(* Frames travel, routers route and hosts look at what has arrived until   *)
(* nothing is left to do, as simulate() goes round until no frame moves.   *)
(* Weak fairness of all steps together is enough: each uses up something   *)
(* of which there is finitely much, ticks included, since one that changes *)
(* no timer is no step.                                                    *)
Quiet == \A x \in DOMAIN net : net[x].frames_out = <<>> /\ net[x].datagrams_out = <<>>

Fairness == []<><<TRUE>>_vars \/ []<>Quiet

-----------------------------------------------------------------------------
NextHop(x, dst) ==
    IF x \in Hosts THEN Gateway[x] ELSE hop(best_route(routes[RouterOf(x)], dst)[1], dst)

(* Every mapping in a cache is true, whether it was learnt from a request, *)
(* from a reply, or from a third interface's answer out of its own cache.  *)
CacheIsTrue ==
    \A x \in DOMAIN net : \A ip \in DOMAIN net[x].cache :
        LET y == net[x].cache[ip]
        IN  y \in DOMAIN net /\ Ip[y] = ip /\ Link[y] = Link[x]

(* Every cached mapping has exactly one expiry, the queue is in the order  *)
(* of time, so that cleaning it from the front is enough, and none that is *)
(* overdue survives a tick.                                                *)
EveryMappingExpires ==
    \A x \in DOMAIN net :
        LET q == net[x].expire_queue
        IN  /\ Cardinality(DOMAIN net[x].cache) = Len(q)
            /\ {q[i].ip : i \in DOMAIN q} = DOMAIN net[x].cache
            /\ \A i \in DOMAIN q : q[i].left >= 0 /\ (i > 1 => q[i - 1].left <= q[i].left)

(* The first prefix_length bits of an address are those of the prefix. *)
InPrefix(dst, route) ==
    \A b \in AddressBits - route.prefix_length .. AddressBits - 1 :
        (dst \div 2 ^ b) % 2 = (route.prefix \div 2 ^ b) % 2

(* The route used is the last of the longest ones whose prefix the address *)
(* is in, bit by bit: a prefix of length zero holds every address, and of  *)
(* two routes of one length the one added later is used.                   *)
LongestPrefix ==
    \A router \in Here, dst \in Addresses :
        LET table == routes[router]
            matching == {i \in DOMAIN table : InPrefix(dst, table[i])}
            best == {i \in matching : \A j \in matching :
                        \/ table[j].prefix_length < table[i].prefix_length
                        \/ table[j].prefix_length = table[i].prefix_length /\ j <= i}
        IN  ToSet(best_route(table, dst)) = {table[i] : i \in best}

(* network_interface.hh: `it looks up the Ethernet address of the next IP  *)
(* hop of each datagram'.  A datagram leaves in a frame for its next hop.  *)
FramesGoToNextHop ==
    \A x \in DOMAIN net : \A i \in DOMAIN net[x].frames_out :
        LET f == net[x].frames_out[i]
        IN  f.type = "IPv4" => f.src = x /\ Ip[f.dst] = NextHop(x, f.payload.dst)

(* A host is given only what some host sent and a router passed on to it   *)
(* by its table, with one taken off its time to live by every router on    *)
(* the way and some left.                                                  *)
DeliveredAsRouted ==
    \A del \in delivered :
        LET h == del[1]
            d == del[2]
        IN  /\ \E hops \in 1 .. Cardinality(DOMAIN Routers) :
                  [d EXCEPT !.ttl = @ + hops] \in ToSet(sent)
            /\ d.ttl > 0
            /\ \E p \in Ports \cap DOMAIN net : Link[p] = Link[h] /\ NextHop(p, d.dst) = Ip[h]

(* Without loss something arrives, if every datagram has a route and the   *)
(* time to live to follow it: address resolution drops and replaces        *)
(* datagrams, but never all of them, and never gets stuck.                 *)
SomethingArrives ==
    (/\ Len(sent) = MaxSends
     /\ \A d \in ToSet(sent), router \in Here :
           d.ttl > 1 /\ best_route(routes[router], d.dst) # <<>>)
        ~> delivered # {} \/ losses > 0
=============================================================================
