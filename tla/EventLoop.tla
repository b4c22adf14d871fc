------------------------------ MODULE EventLoop -----------------------------
(***************************************************************************)
(* libsponge/util/eventloop.{hh,cc}: the state of an EventLoop, and what   *)
(* callbacks do to it; wait_next_event is in WaitNextEvent.  A program     *)
(* that runs an event loop is a record w with a field loop: the rules that *)
(* are left, in their order, and what the last poll found for the rules    *)
(* still to be looked at.                                                  *)
(*                                                                         *)
(* Between the poll and a callback other callbacks run: what the poll      *)
(* found is kept in `todo', not looked up again.                           *)
(***************************************************************************)
EXTENDS Naturals, Sequences

(* `served': the running callback has read or written its descriptor.      *)
NewEventLoop(rules) ==
    [rules |-> rules, polled |-> {}, todo |-> <<>>, served |-> FALSE, threw |-> FALSE]

(* For the callbacks: it has read or written; it has thrown. *)
serviced(w) == [w EXCEPT !.loop.served = TRUE]
throws(w) == [w EXCEPT !.loop.threw = TRUE]

erase(w, r) == [w EXCEPT !.loop.rules = SelectSeq(@, LAMBDA x : x # r)]
=============================================================================
