---------------------------- MODULE SocketSystem ----------------------------
(***************************************************************************)
(* A program of apps/ (tcp_udp.cc) at one end of a connection: its main    *)
(* thread runs bidirectional_stream_copy on a TCPOverUDPSpongeSocket and   *)
(* then waits until it is closed, while the TCP thread runs the event loop *)
(* of the connection.  The peer is an endpoint of TCPPair.  The program is *)
(* the client or the server.  More mishaps than in TCPPair:                *)
(*   "lossy"   the adapter is a LossyFdAdapter                             *)
(*   "quit"    the owner destroys the socket while the connection is open  *)
(*                                                                         *)
(* Steps of a thread are the returns of its poll and its callbacks; both   *)
(* threads, the peer and the network interleave between them.              *)
(***************************************************************************)
EXTENDS TCPPair, SpongeSocket, StreamCopy

VARIABLES me,       \* the end the program is at
          sock, copy, pipe,
          loops,    \* the event loops of the TCP thread and of the owner
          deserted, \* the peer, or the owner, has destroyed its connection
          refused   \* how many segments came while the program's window was closed

own == <<me, sock, copy, pipe, loops, deserted, refused>>
all == <<conn, net, faults, me, sock, copy, pipe, loops, deserted, refused>>

you == peer(me)

SocketInit ==
    /\ Init
    /\ me \in End
    /\ sock = NewSock("idle", NewAdapter(me, you, me = "server"))
    /\ copy = NewCopy([i \in 1 .. Bytes[me] |-> i])
    /\ pipe = NewSocketPair
    /\ loops = [thread |-> NewEventLoop(TcpRules), owner |-> NewEventLoop(CopyRules)]
    /\ deserted = FALSE /\ refused = 0

(* Bound: segments lost and connections destroyed, together. *)
MishapsLeft == faults + FlagBit(deserted) < MaxFaults

(* A process that got SIGPIPE, or in which an exception left a thread. *)
Died == loops.thread.threw \/ loops.owner.threw

Thread ==
    [loop |-> loops.thread, pipe |-> pipe, tcp |-> conn[me], sock |-> sock,
     leaving |-> <<>>, drop |-> FALSE,
     arriving |-> [i \in DOMAIN net[me] |-> [from |-> you, payload |-> <<net[me][i]>>]]]

OwnStateBecomes(w) ==
    /\ sock' = w.sock /\ pipe' = w.pipe /\ loops' = [loops EXCEPT !.thread = w.loop]
    /\ UNCHANGED <<me, copy, deserted>>

ThreadBecomes(w) ==
    /\ conn' = [conn EXCEPT ![me] = w.tcp]
    /\ net' = [net EXCEPT ![me] = [i \in DOMAIN w.arriving |-> w.arriving[i].payload[1]],
                          ![you] = @ \o w.leaving]
    /\ OwnStateBecomes(w)

(* connect() or listen_and_accept(), up to the first poll. *)
Start ==
    /\ sock.at = "idle"
    /\ ThreadBecomes(loop_top(
            IF me = "client"
            THEN [Thread EXCEPT !.tcp = connect(@), !.sock.at = "connect"]
            ELSE [Thread EXCEPT !.sock.at = "accept"]))
    /\ UNCHANGED <<faults, refused>>

InLoop == sock.at \in {"connect", "accept", "main"} /\ ~Died

Turn ==
    /\ InLoop /\ loops.thread.todo = <<>>
    /\ ThreadBecomes(loop_end(Thread, 0))
    /\ UNCHANGED <<faults, refused>>

(* The next callback is given data, or a FIN, for which the window has no  *)
(* room (counted no further than the attempts a sender makes).             *)
Refuses(drop) ==
    /\ ~drop /\ Head(loops.thread.todo).rule = "receive"
    /\ net[me] # <<>> /\ must_ack(Head(net[me])) /\ window_size(conn[me].receiver) = 0

Callback(drop) ==
    /\ InLoop /\ loops.thread.todo # <<>>
    /\ drop => /\ "lossy" \in Mishaps /\ MishapsLeft
               /\ Head(loops.thread.todo).rule \in {"receive", "send"}
    /\ ThreadBecomes(Tcp!look_at_next([Thread EXCEPT !.drop = drop]))
    /\ faults' = faults + FlagBit(drop)
    /\ refused' = Smaller(refused + FlagBit(Refuses(drop)), MaxRetxAttempts)

-----------------------------------------------------------------------------
Owner(typed) == [loop |-> loops.owner, pipe |-> pipe, copy |-> copy, typed |-> typed]

OwnerBecomes(w) ==
    /\ copy' = w.copy /\ pipe' = w.pipe /\ loops' = [loops EXCEPT !.owner = w.loop]
    /\ UNCHANGED <<conn, net, faults, me, sock, deserted, refused>>

(* connect() or listen_and_accept() has returned. *)
Copying == copy.at = "copying" /\ sock.at \in {"main", "gone"} /\ ~Died

(* wait_next_event(-1) up to the return of poll.  When it returns Exit,    *)
(* main calls wait_until_closed.                                           *)
OwnerTurn(typed) ==
    LET set == Copy!set_up(Owner(typed))
    IN  /\ Copying /\ loops.owner.todo = <<>>
        /\ OwnerBecomes(IF Copy!something_to_poll(set)
                        THEN Copy!poll(set)
                        ELSE [set EXCEPT !.pipe = shutdown_rdwr(@), !.copy.at = "closing"])

OwnerCallback ==
    /\ Copying /\ loops.owner.todo # <<>>
    /\ OwnerBecomes(Copy!look_at_next(Owner(FALSE)))

(* ~TCPSpongeSocket of a socket that was not closed: it raises _abort and  *)
(* joins the thread.                                                       *)
Quit ==
    /\ "quit" \in Mishaps /\ MishapsLeft /\ Copying /\ loops.owner.todo = <<>>
    /\ copy' = [copy EXCEPT !.at = "quitting"]
    /\ sock' = [sock EXCEPT !.abort = TRUE]
    /\ deserted' = TRUE
    /\ UNCHANGED <<conn, net, faults, me, pipe, loops, refused>>

-----------------------------------------------------------------------------
(* The peer's application reads at once, and writes what it has in one     *)
(* call (one that takes its time is in TCPPair).                           *)
drained(c) ==
    [c EXCEPT !.receiver.reassembler.output = stream_read(@, buffer_size(@))]

DeliverToPeer ==
    /\ net[you] # <<>>
    /\ Becomes(you, drained(segment_received(conn[you], Head(net[you]))), Tail(net[you]))
    /\ UNCHANGED faults

WriteAll(e) ==
    LET written == outbound(e).bytes_written
        rest == [i \in 1 .. Bytes[e] - written |-> written + i]
    IN  /\ Running(e) /\ rest # <<>> /\ remaining_capacity(outbound(e)) > 0
        /\ Becomes(e, connection_write(conn[e], rest), net[e])
        /\ UNCHANGED faults

PeerStep ==
    /\ \/ Connect /\ me # "client"
       \/ WriteAll(you) \/ EndInputStream(you) \/ DeliverToPeer
    /\ UNCHANGED own

PeerAborts ==
    /\ Abort(you) /\ MishapsLeft /\ deserted' = TRUE
    /\ UNCHANGED <<me, sock, copy, pipe, loops, refused>>

(* Time passes at both ends, when no segment travels and the TCP thread    *)
(* has nothing left to do: the network and the processors are faster than  *)
(* the timers.  What is sent to a program whose thread is gone is lost.  A *)
(* poll that times out does the same as one that does not, with the time   *)
(* that has passed.                                                        *)
NothingTravels ==
    /\ net[you] = <<>> /\ (net[me] = <<>> \/ sock.at = "gone")
    /\ conn[me].segments_out = <<>> /\ loops.thread.todo = <<>>

elapsed(ms) == IF InLoop THEN loop_end(Thread, ms) ELSE Thread
peer_elapsed(ms) == IF Running(you) THEN connection_tick(conn[you], ms) ELSE conn[you]

Elapse(ms) ==
    /\ NothingTravels
    /\ conn' = [conn EXCEPT ![me] = elapsed(ms).tcp,
                            ![you] = [peer_elapsed(ms) EXCEPT !.segments_out = <<>>]]
    /\ net' = [net EXCEPT ![me] = peer_elapsed(ms).segments_out]
    /\ OwnStateBecomes(elapsed(ms))
    /\ UNCHANGED <<faults, refused>>

SocketNext ==
    \/ Start \/ Turn \/ \E ms \in Ticks : Elapse(ms)
    \/ \E drop \in BOOLEAN : Callback(drop)
    \/ OwnerCallback \/ Quit \/ \E typed \in BOOLEAN : OwnerTurn(typed)
    \/ PeerStep \/ PeerAborts

SocketSpec == SocketInit /\ [][SocketNext]_all

(* Both threads keep running: a poll returns when something is ready or    *)
(* the 10 ms are over, and there is always something on standard input, if *)
(* only its end.  The network delivers, and the peer's event loop runs.    *)
ThreadMoves == <<conn[me], sock, loops.thread>>' # <<conn[me], sock, loops.thread>>

CanThreadMove ==
    \/ sock.at = "idle"
    \/ InLoop /\ (loops.thread.todo # <<>> \/ loop_end(Thread, 0) # Thread)
    \/ NothingTravels /\ \E ms \in Ticks : elapsed(ms) # Thread

OwnerMoves == <<copy, loops.owner>>' # <<copy, loops.owner>>

CanOwnerMove ==
    Copying /\ (\/ loops.owner.todo # <<>>
                \/ LET set == Copy!set_up(Owner(TRUE))
                   IN  \/ ~Copy!something_to_poll(set)
                       \/ Copy!poll(set) # Owner(TRUE))

PeerMoves == conn'[you] # conn[you] \/ Len(net'[you]) < Len(net[you])

CanPeerMove ==
    \/ me # "client" /\ conn[you].sender.next_seqno = 0
    \/ net[you] # <<>>
    \/ NothingTravels /\ \E ms \in Ticks : peer_elapsed(ms) # conn[you]
    \/ /\ Running(you)
       /\ \/ outbound(you).bytes_written < Bytes[you] /\ remaining_capacity(outbound(you)) > 0
          \/ outbound(you).bytes_written = Bytes[you] /\ ~outbound(you).input_end

SocketFairSpec ==
    /\ SocketSpec
    /\ []<><<ThreadMoves>>_all \/ []<>~CanThreadMove
    /\ []<><<OwnerMoves>>_all \/ []<>~CanOwnerMove
    /\ []<><<PeerMoves>>_all \/ []<>~CanPeerMove

-----------------------------------------------------------------------------
(* What is printed is what the peer wrote, in order, and what the peer is  *)
(* given is what was typed; either side sees an end only at the real end,  *)
(* unless the connection was reset.                                        *)
CopiedFaithfully ==
    LET taken == inbound(conn[you])
    IN  /\ copy.stdout = [i \in 1 .. Len(copy.stdout) |-> i]
        /\ copy.stdout_closed /\ ~conn[me].is_rst =>
              outbound(you).input_end /\ Len(copy.stdout) = Bytes[you]
        /\ taken.bytes_written + Len(copy.stdin) <= Bytes[me]
        /\ taken.input_end => copy.stdin_eof /\ taken.bytes_written = Bytes[me]

(* Without a reset, no thread is left by an exception, and none writes to  *)
(* a pipe that is shut: the TCP thread shuts the owner's socket only when  *)
(* nothing more will be written to it.                                     *)
NothingThrows == Died => conn[me].is_rst

(* The summaries on which connect() and listen_and_accept() wait only move *)
(* forward, so that a state they wait to leave is left for good.           *)
SenderOrder == <<"CLOSED", "SYN_SENT", "SYN_ACKED", "FIN_SENT", "FIN_ACKED", "ERROR">>
ReceiverOrder == <<"LISTEN", "SYN_RECV", "FIN_RECV", "ERROR">>

NoLaterThan(order, a, b) ==
    \E i \in DOMAIN order : \E j \in i .. Len(order) : order[i] = a /\ order[j] = b

StatesMoveForward ==
    [][\A e \in End :
          LET was == state(conn[e])
              is == state(conn'[e])
          IN  /\ NoLaterThan(SenderOrder, was.sender, is.sender)
              /\ NoLaterThan(ReceiverOrder, was.receiver, is.receiver)
              /\ is.active => was.active]_conn

(* A connection is reset only when an end destroys its own without closing *)
(* it, or when as many segments as a sender makes attempts were lost or    *)
(* refused: each attempt it counts as failed was lost on the way, or came  *)
(* when the program's window was closed.  However the two threads and the  *)
(* peer are scheduled, there is no other cause.                            *)
ResetsHaveACause ==
    deserted \/ \A e \in End :
        /\ conn[e].sender.consecutive_retrans <= faults + refused
        /\ conn[e].is_rst => faults + refused >= MaxRetxAttempts

(* The peer has given up, and its RST was lost. *)
PeerGaveUpUnheard == conn[you].is_rst /\ active(conn[me]) /\ net[me] = <<>>

Arrived == \A e \in End : ~active(conn[e]) /\ inbound(conn[e]).bytes_read = Bytes[peer(e)]

(* The program ends, unless the peer is destroyed or has given up unheard  *)
(* (nothing more may ever arrive then).  The owner's join returns, both in *)
(* the destructor and in wait_until_closed; after the latter both          *)
(* connections are over and everything typed at either end has arrived,    *)
(* unless the program learnt of a reset, which may also kill it            *)
(* (NothingThrows).  In particular a window that has closed is probed, so  *)
(* that the two ends do not wait for each other for ever.                  *)
ProgramEnds ==
    <>(\/ deserted /\ copy.at # "quitting"
       \/ PeerGaveUpUnheard
       \/ Died
       \/ sock.at = "gone" /\ copy.at = "quitting"
       \/ sock.at = "gone" /\ copy.at = "closing" /\ (conn[me].is_rst \/ Arrived))
=============================================================================
