-------------------------------- MODULE Lab7 --------------------------------
(***************************************************************************)
(* apps/lab7.cc and apps/bouncer.cc: two programs, each a host and a       *)
(* router with a port to the host and one to the Internet, joined by a     *)
(* bouncer that copies UDP datagrams from the one to the other.            *)
(*                                                                         *)
(* A TCP segment is a datagram that its host sends again and again.  The   *)
(* frames_out of a host stand for its end of the socket pair too, into     *)
(* which send_pending() empties them at once, and those of a router's      *)
(* inner port for the other direction.                                     *)
(***************************************************************************)
EXTENDS Network

CONSTANTS
    Side,    \* of each program: its host, inner and outer interfaces
    Ttl      \* the time to live of a host's datagrams

VARIABLES
    due,        \* the hosts whose segment is to be sent (again)
    peers,      \* the programs whose address the bouncer has learnt
    internet,   \* what the bouncer has sent to each: <<>> or a frame
    deaf        \* the programs that no longer read from the Internet

lab7_vars == <<due, peers, internet, deaf>>

Sides == DOMAIN Side
opposite(s) == CHOOSE t \in Sides : t # s

Lab7Init == due = Sides /\ peers = {} /\ internet = [s \in Sides |-> <<>>] /\ deaf = {}

(* The bouncer's callback: it learns the address, and passes on what is    *)
(* not empty if it knows to whom.  What would never be read is left out.   *)
bounced_Empty(s, payload) == opposite(s) \in peers    \* mutant
bounced(s, payload) == payload # <<>> /\ opposite(s) \in peers

Bounce(s, payload) ==
    /\ peers' = peers \cup {s}
    /\ internet' = IF bounced(s, payload) /\ opposite(s) \notin deaf
                   THEN [internet EXCEPT ![opposite(s)] = Append(@, payload)]
                   ELSE internet

(* One of the empty datagrams a program starts with. *)
Register(s) ==
    /\ s \notin peers
    /\ Bounce(s, <<>>)
    /\ UNCHANGED <<vars, due, deaf>>

(* NetworkInterfaceAdapter::write, for a segment that is retransmitted. *)
HostWrite(s) ==
    LET h == Side[s].host
        dgram == [id |-> s, dst |-> Ip[Side[opposite(s)].host], ttl |-> Ttl]
    IN  /\ s \in due
        /\ due' = due \ {s}
        /\ net' = [net EXCEPT ![h] = send_datagram(@, dgram, Gateway[h])]
        /\ sent' = IF dgram \in ToSet(sent) THEN sent ELSE Append(sent, dgram)
        /\ UNCHANGED <<routes, delivered, losses, peers, internet, deaf>>

(* A router takes a frame at one of its ports, and routes. *)
RouterTakes(p, frame, rest) ==
    LET router == RouterOf(p)
    IN  net' = route_all([rest EXCEPT ![p] = recv_frame(@, frame)], Routers[router],
                         routes[router])

Sends(x) == net[x].frames_out # <<>>
Without(x) == [net EXCEPT ![x].frames_out = Tail(@)]

HostToRouter(s) ==
    LET h == Side[s].host
    IN  /\ Sends(h)
        /\ RouterTakes(Side[s].inner, Head(net[h].frames_out), Without(h))
        /\ UNCHANGED <<routes, sent, delivered, losses, lab7_vars>>

(* NetworkInterfaceAdapter::read; the datagram goes to unwrap_tcp_in_ip,   *)
(* which IPAdapter has.                                                    *)
RouterToHost(s) ==
    LET h == Side[s].host
        p == Side[s].inner
        read == recv_frame(net[h], Head(net[p].frames_out))
    IN  /\ Sends(p)
        /\ net' = [Without(p) EXCEPT ![h] = [read EXCEPT !.datagrams_out = <<>>]]
        /\ delivered' = delivered \cup ({h} \X ToSet(read.datagrams_out))
        /\ UNCHANGED <<routes, sent, losses, lab7_vars>>

RouterToInternet(s) ==
    LET q == Side[s].outer
    IN  /\ Sends(q)
        /\ net' = Without(q)
        /\ Bounce(s, <<Head(net[q].frames_out)>>)
        /\ UNCHANGED <<routes, sent, delivered, losses, due, deaf>>

(* A datagram without payload looks like the end of a file: the rule that  *)
(* reads from the Internet would be cancelled.                             *)
InternetToRouter(s) ==
    LET payload == Head(internet[s])
    IN  /\ internet[s] # <<>> /\ s \notin deaf
        /\ IF payload = <<>> THEN net' = net ELSE RouterTakes(Side[s].outer, payload[1], net)
        /\ deaf' = IF payload = <<>> THEN deaf \cup {s} ELSE deaf
        /\ internet' = [internet EXCEPT ![s] = Tail(@)]
        /\ UNCHANGED <<routes, sent, delivered, losses, due, peers>>

(* UDP loses a frame.  Registrations may be lost by never happening. *)
InternetLoses(s) ==
    LET q == Side[s].outer
    IN  /\ losses < MaxLosses /\ Sends(q)
        /\ net' = Without(q)
        /\ losses' = losses + 1
        /\ UNCHANGED <<routes, sent, delivered, lab7_vars>>

ticked(xs) == [x \in DOMAIN net |-> IF x \in xs THEN interface_tick(net[x], 1) ELSE net[x]]
RouterPorts(s) == {Side[s].inner, Side[s].outer}

(* The network thread ticks its ports by 50 ms after every event, however  *)
(* soon it came: their time may run ahead.                                 *)
EarlyTick(s) ==
    /\ losses < MaxLosses
    /\ net' = ticked(RouterPorts(s))
    /\ losses' = losses + 1
    /\ UNCHANGED <<routes, sent, delivered, lab7_vars>>

NothingTravels ==
    /\ \A s \in Sides : internet[s] = <<>> \/ s \in deaf
    /\ \A s \in Sides : \A x \in RouterPorts(s) \cup {Side[s].host} : ~Sends(x)

(* Time that counts in seconds passes for all; segments are due again. *)
Elapse ==
    /\ NothingTravels /\ due = {}
    /\ net' = ticked(DOMAIN net)
    /\ due' = Sides
    /\ UNCHANGED <<routes, sent, delivered, losses, peers, internet, deaf>>

IsLab7 == \A s \in Sides : Side[s].host \in DOMAIN net

Lab7Next ==
    /\ IsLab7
    /\ \/ Elapse
       \/ \E s \in Sides :
             \/ HostWrite(s) \/ HostToRouter(s) \/ RouterToHost(s)
             \/ RouterToInternet(s) \/ InternetToRouter(s)
             \/ Register(s) \/ InternetLoses(s) \/ EarlyTick(s)

(* The event loops go on and TCP retransmits: there is always a next step. *)
(* That is enough, for frames move between two steps of Elapse.            *)
Lab7Fairness == []<><<TRUE>>_<<vars, lab7_vars>>

-----------------------------------------------------------------------------
Got(s) == \E del \in delivered : del[1] = Side[s].host

(* A segment that its host keeps sending reaches the other host, in both   *)
(* directions: four rounds of address resolution, each of which keeps one  *)
(* datagram only, a bouncer that starts out knowing nobody, a lost frame   *)
(* and clocks that run ahead do not stop it.                               *)
SegmentsGetThrough == due = {} ~> \A s \in Sides : Got(s)
=============================================================================
