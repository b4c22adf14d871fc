---------------------------- MODULE SpongeSocket ----------------------------
(***************************************************************************)
(* libsponge/tcp_helpers/tcp_sponge_socket.{hh,cc}: the TCP thread of a    *)
(* TCPSpongeSocket over UDP, as operators on a record w of                 *)
(*   loop    its EventLoop, over the rules TcpRules                        *)
(*   pipe    the socket pair between the owner and the thread              *)
(*   tcp     the TCPConnection                                             *)
(*   arriving, leaving    the UDP datagrams of the datagram adapter        *)
(*   drop    a LossyFdAdapter drops the next segment it reads or writes    *)
(*   sock    the adapter, the flags, and where the thread is:              *)
(*             connect, accept    inside the owner's call                  *)
(*             main               in _tcp_main                             *)
(*             gone               _tcp_main has returned                   *)
(***************************************************************************)
EXTENDS TCPState, EventLoop, LocalStreamSocket, Adapter

TcpRules == <<"receive", "from owner", "to owner", "send">>

NewSock(at, adapter) ==
    [at |-> at, adapter |-> adapter, abort |-> FALSE, eof |-> FALSE,
     inbound_shutdown |-> FALSE, outbound_shutdown |-> FALSE]

tcp_at_end(w, r) == r = "from owner" /\ w.sock.eof

is_over(stream) == eof(stream) \/ stream.error

tcp_interest_DeafAfterEof(w, r) == \* mutant
    CASE r = "receive" -> active(w.tcp) /\ ~w.sock.inbound_shutdown
      [] r = "from owner" -> /\ active(w.tcp) /\ ~w.sock.outbound_shutdown
                             /\ remaining_capacity(w.tcp.sender.stream) > 0
      [] r = "to owner" -> \/ ~buffer_empty(inbound(w.tcp))
                           \/ is_over(inbound(w.tcp)) /\ ~w.sock.inbound_shutdown
      [] r = "send" -> w.tcp.segments_out # <<>>

tcp_interest(w, r) ==
    CASE r = "receive" -> active(w.tcp)
      [] r = "from owner" -> /\ active(w.tcp) /\ ~w.sock.outbound_shutdown
                             /\ remaining_capacity(w.tcp.sender.stream) > 0
      [] r = "to owner" -> \/ ~buffer_empty(inbound(w.tcp))
                           \/ is_over(inbound(w.tcp)) /\ ~w.sock.inbound_shutdown
      [] r = "send" -> w.tcp.segments_out # <<>>

end_outbound(w) ==
    [w EXCEPT !.tcp = end_input_stream(@), !.sock.outbound_shutdown = TRUE]

tcp_cancel(w, r) == IF r = "from owner" THEN end_outbound(w) ELSE w

(* Rule 1: a datagram is taken in, if it is for this connection. *)
receive_CountsOnlySegments(w) == \* mutant
    LET got == lossy(udp_read(w.sock.adapter, Head(w.arriving)), w.drop)
        read == [w EXCEPT !.arriving = Tail(@), !.sock.adapter = got.adapter]
    IN  IF got.segment = <<>> THEN read
        ELSE serviced([read EXCEPT !.tcp = segment_received(@, got.segment[1])])

receive(w) ==
    LET got == lossy(udp_read(w.sock.adapter, Head(w.arriving)), w.drop)
        read == [w EXCEPT !.arriving = Tail(@), !.sock.adapter = got.adapter]
    IN  serviced(IF got.segment = <<>> THEN read
                 ELSE [read EXCEPT !.tcp = segment_received(@, got.segment[1])])

(* Rule 2: what the owner wrote goes to the outbound stream. *)
from_owner(w) ==
    LET limit == remaining_capacity(w.tcp.sender.stream)
        data == fd_read(w.pipe["thread"], limit)
        tcp == connection_write(w.tcp, data)
        at_eof == reaches_eof(w.pipe["thread"], limit)
        accepted == tcp.sender.stream.bytes_written - w.tcp.sender.stream.bytes_written
        read == [w EXCEPT !.tcp = tcp, !.sock.eof = @ \/ at_eof,
                          !.pipe["thread"] = after_read(@, limit)]
    IN  IF accepted # Len(data) THEN throws(read)
        ELSE serviced(IF at_eof THEN end_outbound(read) ELSE read)

(* Rule 3: what was reassembled goes to the owner, as far as it fits. *)
to_owner_PopsAll(w) == \* mutant
    LET data == inbound(w.tcp).buffers
        left == pop_output(inbound(w.tcp), Len(data))
        pipe == [w.pipe EXCEPT !["owner"] = after_write(@, data)]
    IN  IF write_fails(w.pipe["owner"], data)
        THEN throws(w)
        ELSE serviced([w EXCEPT
                !.tcp.receiver.reassembler.output = left,
                !.pipe = IF is_over(left) THEN shutdown_wr(pipe, "thread") ELSE pipe,
                !.sock.inbound_shutdown = @ \/ is_over(left)])

to_owner(w) ==
    LET data == inbound(w.tcp).buffers
        left == pop_output(inbound(w.tcp), bytes_written(w.pipe["owner"], data))
        pipe == [w.pipe EXCEPT !["owner"] = after_write(@, data)]
    IN  IF write_fails(w.pipe["owner"], data)
        THEN throws(w)
        ELSE serviced([w EXCEPT
                !.tcp.receiver.reassembler.output = left,
                !.pipe = IF is_over(left) THEN shutdown_wr(pipe, "thread") ELSE pipe,
                !.sock.inbound_shutdown = @ \/ is_over(left)])

(* Rule 4: every segment the connection wants sent becomes a datagram to   *)
(* whatever the adapter's destination is.                                  *)
send_out(w) ==
    LET out == IF w.drop THEN Tail(w.tcp.segments_out) ELSE w.tcp.segments_out
        sent == [w EXCEPT !.leaving = @ \o out, !.tcp.segments_out = <<>>]
    IN  IF out = <<>> THEN sent ELSE serviced(sent)

tcp_callback(w, r) ==
    CASE r = "receive" -> receive(w)
      [] r = "from owner" -> from_owner(w)
      [] r = "to owner" -> to_owner(w)
      [] r = "send" -> send_out(w)

tcp_ready(w, r) ==
    CASE r = "receive" -> w.arriving # <<>>
      [] r = "from owner" -> readable(w.pipe, "thread")
      [] r = "to owner" -> writable(w.pipe, "thread")
      [] r = "send" -> TRUE

tcp_hung_up(w, r) == r \in {"from owner", "to owner"} /\ hangup(w.pipe)

Tcp == INSTANCE WaitNextEvent WITH
    at_end <- tcp_at_end, interest <- tcp_interest, cancel <- tcp_cancel,
    callback <- tcp_callback, ready <- tcp_ready, hung_up <- tcp_hung_up

-----------------------------------------------------------------------------
(* _tcp_main ends: the owner's socket is shut in both directions, and the  *)
(* connection is destroyed.  The RST that its destructor queues is never   *)
(* sent.                                                                   *)
leave(w) ==
    [w EXCEPT !.sock.at = "gone", !.loop.todo = <<>>, !.loop.rules = <<>>,
              !.pipe = shutdown_rdwr(@),
              !.tcp = [destroy(@) EXCEPT !.segments_out = <<>>]]

(* The condition of the owner's _tcp_loop: the handshake is not over. *)
handshaking(w) ==
    \/ w.sock.at = "connect" /\ state(w.tcp) = State.SYN_SENT
    \/ w.sock.at = "accept" /\ state(w.tcp) \in {State.LISTEN, State.SYN_RCVD, State.SYN_SENT}

(* The top of the while loop of _tcp_loop, up to the return of poll.  When *)
(* the owner's loop ends, the thread starts with its own.                  *)
loop_top(w) ==
    LET here == IF handshaking(w) THEN w ELSE [w EXCEPT !.sock.at = "main"]
        set == Tcp!set_up(here)
    IN  IF Tcp!something_to_poll(set) THEN Tcp!poll(set) ELSE leave(set)

(* The rest of the body: the timers run, ms after the last time. *)
loop_end(w, ms) ==
    IF w.sock.abort THEN leave(w)
    ELSE loop_top(IF active(w.tcp) THEN [w EXCEPT !.tcp = connection_tick(@, ms)] ELSE w)
=============================================================================
