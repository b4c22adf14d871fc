------------------------------- MODULE Router -------------------------------
(***************************************************************************)
(* libsponge/router.{hh,cc}: longest-prefix-match routing between the      *)
(* router's interfaces.                                                    *)
(*                                                                         *)
(* A network is a function from names to interfaces; `ports' lists a       *)
(* router's in the order they were added, and a route names one instead of *)
(* giving its index.                                                       *)
(***************************************************************************)
EXTENDS NetworkInterface

CONSTANT AddressBits    \* 32

ASSUME RouterAssumption == AddressBits \in Nat

Direct == -1    \* a route without next hop

(* add_route *)
add_route(routes, route) == Append(routes, route)

matches_NarrowShift(dst, route) ==    \* mutant
    LET low == 2 ^ ((AddressBits - route.prefix_length) % AddressBits)
    IN  dst \div low = route.prefix \div low
matches(dst, route) ==
    LET low == 2 ^ (AddressBits - route.prefix_length)
    IN  dst \div low = route.prefix \div low

(* The loop of route_one_datagram: <<>> or the route found. *)
best_route(routes, dst) ==
    LET better(best, route) ==
            IF matches(dst, route) /\ (best = <<>> \/ best[1].prefix_length <= route.prefix_length)
            THEN <<route>> ELSE best
    IN  FoldLeft(better, <<>>, routes)

hop(route, dst) == IF route.next_hop = Direct THEN dst ELSE route.next_hop

expired_AtZero(dgram) == dgram.ttl = 0    \* mutant
expired(dgram) == dgram.ttl <= 1

route_one_datagram(net, routes, dgram) ==
    LET best == best_route(routes, dgram.dst)
    IN  IF expired(dgram) \/ best = <<>> THEN net
        ELSE [net EXCEPT ![best[1].interface] =
                send_datagram(@, [dgram EXCEPT !.ttl = @ - 1], hop(best[1], dgram.dst))]

(* route: every datagram of every interface, in order. *)
route_all(net, ports, routes) ==
    LET route_port(n, p) ==
            [FoldLeft(LAMBDA m, d : route_one_datagram(m, routes, d), n, n[p].datagrams_out)
                EXCEPT ![p].datagrams_out = <<>>]
    IN  FoldLeft(route_port, net, ports)
=============================================================================
