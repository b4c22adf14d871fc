------------------------------ MODULE TCPState ------------------------------
(***************************************************************************)
(* libsponge/tcp_helpers/tcp_state.{hh,cc}: a connection summarised by     *)
(* what its two halves look like from outside.  The socket decides on this *)
(* summary when connect() and listen_and_accept() return.                  *)
(***************************************************************************)
EXTENDS TCPConnection

receiver_summary(r) ==
    IF stream_out(r).error THEN "ERROR"
    ELSE IF ackno(r) = none THEN "LISTEN"
    ELSE IF stream_out(r).input_end THEN "FIN_RECV"
    ELSE "SYN_RECV"

fin_was_sent(s) == eof(s.stream) /\ s.next_seqno >= s.stream.bytes_written + 2

sender_summary_AnythingInFlight(s) == \* mutant
    IF s.stream.error THEN "ERROR"
    ELSE IF s.next_seqno = 0 THEN "CLOSED"
    ELSE IF s.bytes_in_flight > 0 THEN "SYN_SENT"
    ELSE IF ~fin_was_sent(s) THEN "SYN_ACKED"
    ELSE IF s.bytes_in_flight > 0 THEN "FIN_SENT"
    ELSE "FIN_ACKED"

sender_summary(s) ==
    IF s.stream.error THEN "ERROR"
    ELSE IF s.next_seqno = 0 THEN "CLOSED"
    ELSE IF s.next_seqno = s.bytes_in_flight THEN "SYN_SENT"
    ELSE IF ~fin_was_sent(s) THEN "SYN_ACKED"
    ELSE IF s.bytes_in_flight > 0 THEN "FIN_SENT"
    ELSE "FIN_ACKED"

(* TCPState(sender, receiver, active, linger) of a connection. *)
state(c) ==
    [sender |-> sender_summary(c.sender), receiver |-> receiver_summary(c.receiver),
     active |-> active(c), linger |-> active(c) /\ c.linger_after_streams_finish]

(* TCPState(State): the states of the TCP specification. *)
open(sender, receiver) ==
    [sender |-> sender, receiver |-> receiver, active |-> TRUE, linger |-> TRUE]
passive(s) == [s EXCEPT !.linger = FALSE]
ended(s) == [s EXCEPT !.linger = FALSE, !.active = FALSE]

State ==
    [LISTEN |-> open("CLOSED", "LISTEN"),
     SYN_SENT |-> open("SYN_SENT", "LISTEN"),
     SYN_RCVD |-> open("SYN_SENT", "SYN_RECV"),
     ESTABLISHED |-> open("SYN_ACKED", "SYN_RECV"),
     CLOSE_WAIT |-> passive(open("SYN_ACKED", "FIN_RECV")),
     LAST_ACK |-> passive(open("FIN_SENT", "FIN_RECV")),
     CLOSING |-> open("FIN_SENT", "FIN_RECV"),
     FIN_WAIT_1 |-> open("FIN_SENT", "SYN_RECV"),
     FIN_WAIT_2 |-> open("FIN_ACKED", "SYN_RECV"),
     TIME_WAIT |-> open("FIN_ACKED", "FIN_RECV"),
     CLOSED |-> ended(open("FIN_ACKED", "FIN_RECV")),
     RESET |-> ended(open("ERROR", "ERROR"))]
=============================================================================
