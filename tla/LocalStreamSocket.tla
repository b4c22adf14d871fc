------------------------- MODULE LocalStreamSocket --------------------------
(***************************************************************************)
(* What the program uses of its file descriptors (util/file_descriptor.cc, *)
(* util/socket.cc), for the two connected AF_UNIX stream sockets between   *)
(* the owner of a TCPSpongeSocket and its TCP thread.                      *)
(*                                                                         *)
(* The kernel's part: each direction holds at most PipeSize bytes and is   *)
(* shut by its writer's SHUT_WR or its reader's SHUT_RD.  Bytes that are   *)
(* inside stay readable.  A socket hangs up when both directions are shut, *)
(* and is writable as long as there is room, shut or not.                  *)
(***************************************************************************)
EXTENDS Naturals, Sequences

CONSTANT PipeSize

ASSUME PipeAssumption == PipeSize \in Nat \ {0}

Side == {"owner", "thread"}

other(s) == CHOOSE x \in Side : x # s

(* pipe[s] is the direction that side s reads. *)
NewSocketPair == [s \in Side |-> [data |-> <<>>, shut |-> FALSE]]

room(d) == PipeSize - Len(d.data)

readable(pipe, s) == pipe[s].data # <<>> \/ pipe[s].shut
writable(pipe, s) == room(pipe[other(s)]) > 0
hangup(pipe) == \A s \in Side : pipe[s].shut

(* FileDescriptor::read: what it returns, what it leaves, and whether it   *)
(* sets the end-of-file flag (of a descriptor that was readable).          *)
upto(limit, data) == IF limit < Len(data) THEN limit ELSE Len(data)
fd_read(d, limit) == SubSeq(d.data, 1, upto(limit, d.data))
after_read(d, limit) == [d EXCEPT !.data = SubSeq(@, upto(limit, @) + 1, Len(@))]
reaches_eof(d, limit) == limit > 0 /\ d.data = <<>>

(* FileDescriptor::write(data, false): the bytes that fit are taken.  With *)
(* the direction shut the kernel sends SIGPIPE, which ends the process;    *)
(* with no room writev fails, and SystemCall throws.                       *)
bytes_written(d, data) == upto(room(d), data)
write_fails(d, data) == data # <<>> /\ (d.shut \/ room(d) = 0)
after_write(d, data) == [d EXCEPT !.data = @ \o SubSeq(data, 1, bytes_written(d, data))]

(* Socket::shutdown by side s. *)
shutdown_wr(pipe, s) == [pipe EXCEPT ![other(s)].shut = TRUE]
shutdown_rdwr(pipe) == [x \in Side |-> [pipe[x] EXCEPT !.shut = TRUE]]
=============================================================================
