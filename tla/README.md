# A TLA+ model of the Sponge TCP stack

Sponge (`src/libsponge`) is a user-space TCP: a byte stream, a reassembler, a
receiver, a sender, the connection that joins them, and below it a network
interface with ARP and a router. Around them, `TCPSpongeSocket` gives a program
a socket: a second thread runs the connection in an event loop, over UDP, IPv4
or Ethernet. This directory models the TCP core, the network layer, the socket
with its threads, the wire formats and two of the programs in `src/apps`; it
checks them with TLC on small instances and proves what the TCP core's classes
promise, from sequence numbers up to receiver and sender, with TLAPS for all
instances.

## The system and its parts

| part | source | state | operations | what is hard about it |
|---|---|---|---|---|
| `WrappingInt32` | `wrapping_integers.*` | none | `wrap`, `unwrap` | the nearest of several candidates, at both ends of the 64-bit range |
| `ByteStream` | `byte_stream.*` | buffered bytes, two counters, ended, error | `write`, `read`, `pop_output`, `peek_output`, `end_input`, `set_error` | full and empty streams, exceptions, when `eof()` is true |
| `sponge::BufferList` | `buffer.*` | a deque of chunks | append, `peek_output`, `remove_prefix` | chunk boundaries, partly read chunks, empty chunks |
| `BufferStringList` | `buffer_string.*` | sorted excerpts | `push_back`, `top_index`, pop | merging with what overlaps left, right and inside |
| `StreamReassembler` | `stream_reassembler.*` | excerpts, output, first unassembled index, eof | `push_substring` | any order, overlap and cut; the capacity; the end |
| `TCPReceiver` | `tcp_receiver.*` | ISN, FIN's number, reassembler | `segment_received`, `ackno`, `window_size` | lost, repeated and early segments; SYN and FIN take numbers |
| `TCPSender` | `tcp_sender.*` | outgoing stream, retransmission queue, window, timer | `fill_window`, `ack_received`, `tick`, `send_empty_segment` | window arithmetic, partial and old acknowledgments, backoff |
| `TCPConnection` | `tcp_connection.*` | sender, receiver, linger, last arrival, reset | `segment_received`, `write`, `end_input_stream`, `connect`, `tick`, destructor | both ends close on their own, over a network that fails |
| `NetworkInterface` | `network_interface.*` | ARP cache, waiting datagram | `send_datagram`, `recv_frame`, `tick` | expiry, retries, replies that race them |
| `Router` | `router.*` | routes | `add_route`, `route` | longest prefix, TTL |
| `TCPState` | `tcp_helpers/tcp_state.*` | none | `state_summary`, the named states | a handshake waits for a state to be left |
| `EventLoop` | `util/eventloop.*` | the rules not cancelled | `add_rule`, `wait_next_event` | readiness is stale when a callback runs; busy waiting throws |
| `TCPSpongeSocket` | `tcp_helpers/tcp_sponge_socket.*` | four rules, a socket pair, three flags | `connect`, `listen_and_accept`, `wait_until_closed`, destructor | two threads, partial writes, who shuts what and when |
| adapters | `tcp_helpers/*adapter*`, `tcp_over_ip.*` | the two addresses, listening | `read`, `write` | what is taken for a segment of this connection |
| headers and messages | `tcp_helpers/*header*`, `*segment*`, `*datagram*`, `*frame*`, `arp_message.*`, `util/parser.*`, `util/util.cc` | none | `parse`, `serialize`, the checksum | options, odd lengths, short and padded input |
| `bidirectional_stream_copy`, `tcp_udp` | `src/apps` | two streams between terminal and socket | four rules, `main` | ends of files in both directions |
| `network_simulator`, `lab7`, `bouncer` | `src/apps` | hosts, routers, UDP sockets | loops over interfaces | address resolution at every hop |

The application's bytes go through `TCPConnection::write` into the sender's
`ByteStream`; `fill_window` cuts them into segments, which the connection
stamps with the receiver's `ackno()` and `window_size()`. An arriving segment
goes to both halves: its acknowledgment to the sender, the rest to the
receiver, whose reassembler writes the inbound `ByteStream` that the
application reads. `tick` drives retransmission, the linger time and the
decision to give up.

Below, `NetworkInterface` puts an IP datagram into an Ethernet frame for its
next hop, asking for the hop's Ethernet address by ARP when it is not cached,
and `Router` moves datagrams between its interfaces by the longest matching
prefix.

Above, the owner of a `TCPSpongeSocket` holds one end of a socket pair and the
TCP thread the other. The thread's event loop moves datagrams into the
connection, bytes from the pair into the outbound stream and from the inbound
stream into the pair, and segments out. `tcp_udp` copies between the terminal
and the owner's end with an event loop of its own. In `lab7` the adapter below
the socket is a `NetworkInterface`, whose frames go to a router in the same
program and from there, by UDP and a bouncer, to the router of another one.

## Modules

Each class is a module of operators on a record, with the class's method
names; a second module makes a state machine of it (variables, `Init`, one
action per method, `Next`, `Spec`) together with the clients that call it, and
states the properties. A larger class uses the operators of the smaller ones,
as the code does. Operators marked `\* mutant` are wrong variants of the one
that follows; nothing uses them, they serve to show that the properties notice
such a mistake.

| class as operators | state machine | proofs |
|---|---|---|
| `WrappingIntegers` | `WrappingSpec` | `WrappingLemmas`, `WrappingProofs` |
| `ByteStream` | `ByteStreamSpec` | `ByteStreamProofs` |
| | `ChunkedStream` (implements `ByteStreamSpec`) | |
| `BufferString`, `StreamReassembler` | `ReassemblerSpec` | `ReassemblerLemmas`, `ReassemblerProofs` |
| `TCPSegment`, `TCPReceiver` | `ReceiverSpec` | `ReceiverProofs` |
| `TCPSender` | `SenderSpec` | `SenderProofs` |
| `TCPConnection` | `TCPPair`, `MCPair` | |
| `NetworkInterface`, `Router` | `Network`, `MCNetwork` | |
| | `Lab7` (extends `Network`), `MCSites` | |
| `TCPState`, `EventLoop`, `WaitNextEvent`, `LocalStreamSocket`, `Adapter`, `SpongeSocket`, `StreamCopy` | `SocketSystem` (extends `TCPPair`), `MCSocket` | |
| `NetParser`, `Headers`, `IPAdapter` | `WireSpec`, `MCConversions` | |

`MCPair`, `MCNetwork` and `MCSocket` only give values to constants. `MCSites`
puts the simulator's network and the one of `lab7` into one run, and
`MCConversions` sequence numbers and wire formats: a behaviour is either of the
one or of the other, so their state spaces add and do not multiply.

How the state of the newer modules corresponds to the code:

* `WaitNextEvent` is `wait_next_event` in two parts, `set_up` with `poll`, and
  `look_at_next` for one rule of the round. Between them anything else may run.
  It is instantiated with the rules of the TCP thread (`Tcp`) and of the
  owner (`Copy`). `loop.todo` holds the rules with the readiness `poll` found. A callback that
  does not count as a read or a write while its rule stays interested throws.
* `LocalStreamSocket` is the socket pair: bytes and "no more to come" in each
  direction. A write takes what fits, and fails (SIGPIPE) on a shut direction.
* `SpongeSocket` is the TCP thread: the four rules, `_tcp_loop` (`loop_top`,
  `loop_end`), `_tcp_main`'s end (`leave`). `connect` and `listen_and_accept`
  run the same loop in the owner's thread until the handshake's state is left.
* `SocketSystem` runs the thread, the owner and a peer, an endpoint of `TCPPair`.
  A step of a thread is the return of its `poll` or one callback. The program
  is the client in some behaviours and the server in others.
* `Headers` has `parse` and `serialize` of the four formats over sequences of
  bytes, with `NetParser`'s error that sticks and the Internet checksum.
* `Lab7` has one action per rule of the network thread, and the bouncer's
  callback. Its TCP connection is a segment that is sent until it arrives.

Abstractions, in every module:

* A byte is its position in the stream it belongs to. A stream's content then
  shows every loss, repetition and exchange.
* The sequence circle has `2 * Half` values and an absolute number
  `(2 * Half)^2`; the code has `Half = 2^31`. Header fields wrap as in the code.
* `std::optional` without a value is `none`.
* Logging is left out. Segments and datagrams are records, except in `WireSpec`,
  where they are bytes: there a 32-bit field is two numbers of 16 bits, and an
  IPv4 option is a word of zeros.
* `TCPConnection::_send_ack_if_need` copies the front of the sender's queue
  through a reference after `pop()`, which is undefined behaviour. The model
  passes the segment on unchanged. That is what was observed: with g++ 12.2 at
  `-O0`, `-O2` and `-O3`, all of 21289 segments sent by one thread came out
  unchanged, while the address sanitizer reports a use after free at
  `tcp_connection.cc:183`. Results about `TCPPair` hold for builds that behave
  so; other libraries and allocators, and several threads, were not measured.
* `_last_received_time` is kept no further than the linger time, which is all
  it is compared with. A sender's timer runs in whole ticks. The points in time
  an interface stores are kept as distances from now.
* Standard output takes what `bidirectional_stream_copy` has for it in one write.
  Its buffer is one byte in the run, which a partial write or `max_copy_length`
  cannot cut.
* An Ethernet address is the name of its interface; an IP address is a number
  of `AddressBits` bits; a datagram is its destination, its time to live and
  the number of the send.

What the environment may do is a set of strings (`ClientMay`, `PeerMay`,
`Mishaps`) in the state machine's constants, described at the head of each
module. A property that needs a restriction is checked with the string absent,
and the sections below say what happens when it is present.

## Runs

| run | instance | what it shows |
|---|---|---|
| `conversions` | circle of 8, all 4096 inputs; 5 segments, with and without options, and ARP; TUN and TAP; 3 frames, each byte changed in 10 ways, each length up to 6 too many | `unwrap` returns a nearest candidate and inverts `wrap` within half a circle; what is written is read, what is harmed is not mistaken for something else, a listening adapter settles on the end that wrote to it |
| `byte_stream` | capacity 4, 8 bytes, writes of up to 5 | FIFO within the capacity; the end is reported as soon as it is reached, and is final |
| `chunked_stream` | capacity 3, 6 bytes, 4 chunks, careless clients | the deque of chunks implements the byte stream, exceptions included |
| `reassembler` | capacity 4, 10 bytes | every order, overlap and cut: in-order output, well-formed list, bounded store, accepted bytes are kept |
| `receiver` | capacity 3, 8 bytes, circle of 8, ISN 6 | acknowledgments are honest, the window never shrinks and is honoured, the stream comes out |
| `sender` | capacity 3, 4 bytes, payload 2, windows 0, 1, 4 | queue = in flight, segments carry the stream, window respected, only a timeout resends and backs off, everything is acknowledged |
| `pair` | 2 bytes one way, window of 2, one fault | both streams faithful, acknowledged means received, a clean close is complete, under loss, duplication, reordering, late timers and destroyed connections |
| `socket` | 3 bytes from client to server, window of 2, the program at either end, pipe and buffer of 1 byte, payload 1, 2 retransmissions, one mishap (a lost segment, a destroyed peer, an owner that quits) | bytes are copied faithfully, no thread throws without a reset, summaries of the state move forward, a reset has a cause, the program ends with everything delivered |
| `network` | the simulator: two links, five interfaces, two routes added in either order to one that ties with the second, two sends; lab7: two hosts, two routers, a bouncer; one lost frame or early tick | caches hold only true mappings and each expires; longest prefix; frames go to the next hop; time to live; something arrives; segments get through in both directions |
| `pair_late_syn`, `pair_linger`, `network_two_hops` | | the three violations below |

The bounds are chosen so that what is hard happens. In `byte_stream`,
`reassembler`, `receiver`, `sender` and `socket` the stream is longer than the
capacity: windows close and move, and writes to the pipe are partial. In `pair`
it fills the window, so that only the FIN meets a closed one, and its two bytes
can arrive in either order. The initial sequence numbers lie just
before the wrap, payloads are split, retransmission limits are reached.
`MaxBytes`, `MaxWrite`, `MaxChunks`, `MaxRetx`, `MaxInFlight`, `MaxFaults`,
`MaxFrames`, `MaxSends` and `MaxLosses` are bounds of the model; the other constants
are the code's parameters. The largest runs are `pair` with about 2,450,000
states, `socket` with 620,000 and `network` with 365,000. A frame lost and
an early tick of `lab7` share one bound (`MaxLosses = 1`): in a behaviour there
is one of them, once.

`ResetsHaveACause`: as long as no program has deserted its connection, a sender
counts no more failed retransmissions than segments were lost or refused, and
an endpoint is reset only after `MAX_RETX_ATTEMPTS` of them. A refused segment
is one with data, a SYN or a FIN that comes while the program's window is closed;
`refused` in `SocketSystem` is a history variable that counts them.
`ProgramEnds` asks that everything is delivered and both threads end. It excepts
a peer that is destroyed, one that has given up and whose RST was lost, and the
delivery after a reset.

### Fairness

* `ReceiverSpec`: the peer's timer resends the oldest unacknowledged number.
* `SenderSpec`: `TCPConnection` calls `fill_window` after every segment, and the
  peer acknowledges what was sent with an open window now and then.
* `SocketSystem`: both threads keep running. A `poll` returns when something is
  ready or after 10 ms, and standard input always has something, if only its
  end. The network delivers what it does not lose; the peer's program runs.
  Time passes at both ends together, when nothing travels and the TCP thread
  is idle: processors and network are faster than the timers.
* `Network`: links carry the frames they do not lose, the router is called and
  hosts look at what has arrived, as the simulator's loop does.
* `Lab7`: there is always a next step. Frames move before time passes, and a
  segment is sent again after each lapse, as `TCPSender` does.

Fairness of the larger actions is written as "infinitely often taken or
infinitely often impossible", with the enabling condition spelled out.

## What the code does otherwise than its comments say

* `pair_late_syn`: a SYN that arrives after data sets the reassembler's
  pointer back (`tcp_receiver.cc:22`), and bytes are delivered twice. Runs with
  `"late SYN"` absent show that nothing else breaks the streams.
* `pair_linger`: a FIN that overtakes lost data makes the endpoint the passive
  closer (`tcp_connection.cc:52`), although the FIN it then sends cannot
  acknowledge the peer's whole stream. When the data has come and been read, and
  the acknowledgment of its own FIN arrives, it goes inactive without lingering,
  and its acknowledgment of the peer's FIN may be lost.
* `network_two_hops`: the datagram that waits for an ARP reply is kept under
  the interface's own address, so that the reply of one next hop releases the
  datagram for another (`network_interface.cc:66`, `:122`). With one next hop
  behind each interface, `FramesGoToNextHop` holds (run `network`).

Probes of a closed window count as failed retransmissions although the peer
answers them (`tcp_sender.cc:156`): after `MAX_RETX_ATTEMPTS` of them the
connection is reset (`tcp_connection.cc:120`). This happens in the run `socket`. A
FIN is refused by a closed window as data is (`stream_reassembler.cc:32`), and a window that has
opened again, and is known to be open, does not save a connection whose count
is reached before something new is acknowledged. No comment promises otherwise; `ResetsHaveACause`
states what does hold.

More is visible when the environment is allowed what the runs withhold.

* A write to a full stream leaves an empty chunk, and a drained and ended
  stream does not report `eof()`: `DrainedMeansEof`, and with it `EofIsFinal`, fails with
  `ClientMay = {"write when full"}`.
* `write` accepts bytes after `end_input`: `NoWriteAfterEnd` fails with
  `ClientMay = {"write after end"}`.
* A SYN that carries data shifts the stream by one number: `AckIsHonest` fails
  with `PeerMay = {"SYN with data"}`. A sender makes one when something is
  written before `connect`, and does not count the SYN against the window:
  `WindowRespected` fails with `ClientMay = {"write before connect"}`.
* The reassembler cuts an excerpt to the window's size and not to its edge:
  `CapacityLimitsBoth` fails, and `TwiceTheCapacity` is the bound that holds.
  An end announced by an excerpt whose bytes are stored already is dropped:
  `AnnouncedEndIsKept` fails for a stream of 3 bytes and a capacity of 4.

Seen while modelling the socket, and the reason why its properties are stated
as they are:

* `tcp_sponge_socket.hh:75` says that a connected socket sends a RST when it is
  destroyed. The connection's destructor queues one when `_tcp` is reset, after
  the loop that would send it has ended. The peer finds out by its timer, or
  never if it has nothing to send; `ProgramEnds` therefore excepts a peer that
  is destroyed, and one that gives up and whose RST is lost.
* `connect` reports success whatever ended the loop, a reset included, and the
  owner cannot tell a reset from the end of the stream. `NothingThrows` excepts
  a reset: the pipe is shut while the owner may be about to write to it.
* `wait_until_closed` before the end of the inbound stream shuts the direction
  the TCP thread writes to.
* `EventLoop` says "make no further calls" after `Exit` (`eventloop.hh:46`);
  `_tcp_main` makes one when `connect`'s loop has ended that way, and gets
  `Exit` again. `_tcp_main` calls the public `shutdown`, although "only the owner
  thread calls public methods" (`tcp_sponge_socket.hh:111`).
* `lab7` tells its router's interfaces that 50 ms have passed after every event,
  however soon it came (`EarlyTick`).

And in the wire formats:

* `parse` of a segment, datagram or frame drops the result of its header's
  `parse`, so a wrong version or a bad IPv4 checksum is accepted as long as
  nothing fails later, and a frame of fewer than 14 bytes is parsed without an
  error. For a TCP segment `HarmedIsNotMistaken` holds
  nevertheless, by TCP's own checksum; the byte with the IPv4 header's length
  is not covered by it and `Alter` leaves it alone.
* A datagram in a frame padded to Ethernet's minimum is refused, since its
  length does not match. `recv_frame` throws on it, as on every payload that does
  not parse, and the exception ends the TCP thread; the TUN adapter ignores
  such a datagram. In `WireSpec` nothing is written after an end has gone so.

## Proofs

A lemma module holds what is true of a class's operators, a proof module the
theorems about its state machine. The theorems hold for every value of the
constants that satisfies the module's `ASSUME`.

`WrappingProofs`. For every `Half` greater than 0: `NearestTheorem`
(`UnwrapIsNearest`) and `RoundTripTheorem` (`RoundTrip`). The
state machine only chooses inputs, so the content is arithmetic, in
`WrappingLemmas`: `Candidates` shows that the code's two candidates are the
multiples of the circle on both sides of the checkpoint, `OneIsClosest` that
no other number with the same wrapped value is nearer than both. Division is
reduced to multiplication once, in `DivMod` and `DivModUnique`.

`ByteStreamProofs`. For every capacity, every bound and every `ClientMay`:
`TypeCorrect` and `FifoTheorem` (`FifoOrder`). The inductive
invariant is `TypeOK /\ FifoOrder`: alone, `FifoOrder` does not bound the
counters, nor `TypeOK` the length of the buffer. `Run(lo, n)`, the bytes
`lo + 1 .. lo + n`, is closed under prefix, rest and concatenation; each method
is one of the three. `EofTheorem` (`EofIsFinal`) assumes a writer that writes
neither when the stream is full nor after its end (`CarefulWriter`); with either in
`ClientMay` the property is false. It needs besides that no empty chunk is ever
stored (`NeverHollow`).

`ReassemblerProofs`. For every capacity and length of the stream: `OrderTheorem`
(`InOrder`), `WellFormedTheorem` (`ListWellFormed`), `EndTheorem` (`EndsAtEnd`),
`BoundTheorem` (`TwiceTheCapacity`) and `RetentionTheorem` (the action property
`AcceptedIsKept`). The inductive invariant `AssemblesAt` joins the four
invariants: what `pop_front` moves to the output comes from the list, so
`InOrder` needs `ListWellFormed`, and the other way round a new excerpt is cut
at the first unassembled byte. `ReassemblerLemmas` follows the code: each binary
search of `push_back` ends at the place that splits the sorted list, merging
with everything between the two places yields the union of the bytes, the cut to the
window keeps the excerpt a part of the stream.

`ReceiverProofs`, with `PeerMay = {}` (the two things it may allow break
the properties, see above). `OrderTheorem` (`InOrder`), `AckTheorem`
(`AckIsHonest`), `AcceptTheorem` (`WindowIsAccepted`), `WindowTheorem`
(`WindowNeverShrinks`). The assumptions on the constants are the code's widths:
windows are smaller than half the circle (16 bits against 2^31), the
stream's numbers fit in 64 bits, and a segment that arrives is less than
half a circle from the acknowledgment. The reassembler is
used through its lemmas, with the stream moved up by one for the SYN. The
invariant has two cases, before and after the SYN; it says besides that every byte *held* has
arrived, without which `AckIsHonest` is lost as soon as a gap is filled.

`SenderProofs`, with `ClientMay = {}` (no write before `connect`). `QueueTheorem`
(`QueueIsInFlight`), `CarryTheorem` (`SegmentsCarryStream`), `SkipTheorem`
(`NothingIsSkipped`), and the action properties `WindowTheorem`
(`WindowRespected`) and `ResendTheorem` (`OnlyTimeoutResends`). Windows are below
half the circle, numbers below the 64-bit range. The inductive invariant: the queue is a chain
of segments, each starting where the one before ended, from the first
unacknowledged number to `next_seqno`; less than half the circle is in flight,
so that each wrapped number decodes to the right one; the stream holds
the bytes from `next_seqno` on; `next_seqno` is the sum of SYN, bytes and FIN;
the timer runs exactly while something is in flight. The loops of
`fill_window` and `ack_received` are recursive functions of the number of rounds.

The provers have no induction over data of their own. Facts about
recursive functions and about all elements of a list are proved from the least
counterexample, which exists because the natural numbers are well founded
(`LeastElement`, `LeastNumber`). The invariants of receiver and sender quantify
over numbers without a bound, so TLC checks the properties and not
these invariants.

Checked by TLC only:

* liveness, and with it everything the programs must do in the end;
* the connection, the socket, `Lab7` and the programs: their invariants span
  two endpoints and every segment on its way, and no inductive form of them has
  been found yet;
* the wire formats, whose operators on bytes are recursive; in a module that
  reaches a `RECURSIVE` operator arithmetic is out of the provers' reach;
* the network layer and the refinement of the byte stream by its chunks, which use
  folds and recursive operators on sequences.

## Not modelled

* Addresses, kernel TCP sockets, socket options and tun devices: wrappers of
  system calls. `Buffer` and `BufferList` of `util/buffer.*` share storage, which
  a model of values does not show.
* `to_string`, `summary` and debug output.
* `webget`, `tcp_ipv4`, `tcp_ip_ethernet`, `tcp_native`, `tcp_benchmark`,
  `udp_tcpdump`, `tun`: command lines, dumps and measurements around the parts
  that are modelled.
* A `poll` interrupted by a signal, which `EventLoop` takes for `Exit`, and errors
  of system calls.
* The use of a popped queue element in `_send_ack_if_need`
  (`tcp_connection.cc:176-183`) is modelled by the value the element had.

## Plan

1. Proofs: `EveryMappingExpires` and `CacheIsTrue` for any network; that
   `ChunkedStream` implements `ByteStreamSpec`; `SettlesOnTheSender`; an inductive
   invariant of `TCPPair` on top of those of receiver and sender.
2. A socket at both ends, and two mishaps at once, if the state space allows.
