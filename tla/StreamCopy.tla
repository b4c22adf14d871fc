----------------------------- MODULE StreamCopy -----------------------------
(***************************************************************************)
(* apps/bidirectional_stream_copy.cc, the owner of a socket: an event loop *)
(* that copies standard input to the socket and the socket to standard     *)
(* output.  The program is a record w of                                   *)
(*   loop    its EventLoop, over the rules CopyRules                       *)
(*   pipe    the socket pair that the owner's socket is one side of        *)
(*   typed   whether there is something to read on standard input          *)
(*   copy    where the owner is (copying, closing in wait_until_closed, or *)
(*           quitting in the destructor), the two ByteStreams, the flags,  *)
(*           what is left of standard input and what has been output       *)
(***************************************************************************)
EXTENDS ByteStream, EventLoop, LocalStreamSocket

CONSTANT BufferSize    \* buffer_size, the capacity of the two ByteStreams

ASSUME BufferSizeAssumption == BufferSize \in Nat \ {0}

CopyRules == <<"stdin", "to socket", "from socket", "stdout">>

NewCopy(input) ==
    [at |-> "copying", stdin |-> input, stdin_eof |-> FALSE, stdout |-> <<>>, stdout_closed |-> FALSE,
     outbound |-> NewByteStream(BufferSize), inbound |-> NewByteStream(BufferSize),
     socket_eof |-> FALSE, outbound_shutdown |-> FALSE, inbound_shutdown |-> FALSE]

copy_at_end(w, r) ==
    \/ r = "stdin" /\ w.copy.stdin_eof
    \/ r = "from socket" /\ w.copy.socket_eof
    \/ r = "stdout" /\ w.copy.stdout_closed

has_output(stream, was_shut) == ~buffer_empty(stream) \/ (eof(stream) /\ ~was_shut)

copy_interest(w, r) ==
    LET c == w.copy
        sound == ~c.outbound.error /\ ~c.inbound.error
    IN  CASE r = "stdin" -> sound /\ remaining_capacity(c.outbound) > 0
          [] r = "to socket" -> has_output(c.outbound, c.outbound_shutdown)
          [] r = "from socket" -> sound /\ remaining_capacity(c.inbound) > 0
          [] r = "stdout" -> has_output(c.inbound, c.inbound_shutdown)

copy_cancel(w, r) ==
    IF r \in {"stdin", "to socket"}
    THEN [w EXCEPT !.copy.outbound = end_input(@)]
    ELSE [w EXCEPT !.copy.inbound = end_input(@)]

(* Rule 1. *)
read_stdin(w) ==
    LET c == w.copy
        data == SubSeq(c.stdin, 1, upto(remaining_capacity(c.outbound), c.stdin))
        out == stream_write(c.outbound, data)
    IN  serviced([w EXCEPT !.copy =
            [c EXCEPT !.stdin = SubSeq(@, Len(data) + 1, Len(@)),
                      !.stdin_eof = (data = <<>>),
                      !.outbound = IF data = <<>> THEN end_input(out) ELSE out]])

(* Rule 2. *)
write_socket(w) ==
    LET c == w.copy
        data == c.outbound.buffers
        out == pop_output(c.outbound, bytes_written(w.pipe["thread"], data))
        pipe == [w.pipe EXCEPT !["thread"] = after_write(@, data)]
    IN  IF write_fails(w.pipe["thread"], data)
        THEN throws(w)
        ELSE serviced([w EXCEPT
                !.pipe = IF eof(out) THEN shutdown_wr(pipe, "owner") ELSE pipe,
                !.copy.outbound = out,
                !.copy.outbound_shutdown = @ \/ eof(out)])

(* Rule 3. *)
read_socket(w) ==
    LET c == w.copy
        limit == remaining_capacity(c.inbound)
        at_eof == reaches_eof(w.pipe["owner"], limit)
        in == stream_write(c.inbound, fd_read(w.pipe["owner"], limit))
    IN  serviced([w EXCEPT
            !.pipe["owner"] = after_read(@, limit),
            !.copy.socket_eof = @ \/ at_eof,
            !.copy.inbound = IF at_eof THEN end_input(in) ELSE in])

(* Rule 4.  Standard output takes everything the stream holds: with a      *)
(* buffer of one byte neither max_copy_length nor a partial write can cut  *)
(* it.                                                                     *)
write_stdout(w) ==
    LET c == w.copy
        in == pop_output(c.inbound, buffer_size(c.inbound))
    IN  serviced([w EXCEPT !.copy =
            [c EXCEPT !.stdout = @ \o c.inbound.buffers, !.inbound = in,
                      !.stdout_closed = @ \/ eof(in), !.inbound_shutdown = @ \/ eof(in)]])

copy_ready(w, r) ==
    CASE r = "stdin" -> w.typed
      [] r = "to socket" -> writable(w.pipe, "owner")
      [] r = "from socket" -> readable(w.pipe, "owner")
      [] r = "stdout" -> TRUE

copy_hung_up(w, r) == r \in {"to socket", "from socket"} /\ hangup(w.pipe)

copy_callback(w, r) ==
    CASE r = "stdin" -> read_stdin(w)
      [] r = "to socket" -> write_socket(w)
      [] r = "from socket" -> read_socket(w)
      [] r = "stdout" -> write_stdout(w)

Copy == INSTANCE WaitNextEvent WITH
    at_end <- copy_at_end, interest <- copy_interest, cancel <- copy_cancel,
    callback <- copy_callback, ready <- copy_ready, hung_up <- copy_hung_up
=============================================================================
