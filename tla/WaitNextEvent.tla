---------------------------- MODULE WaitNextEvent ---------------------------
(***************************************************************************)
(* EventLoop::wait_next_event, for a program w (see EventLoop) with these  *)
(* operators on w and a rule:                                              *)
(***************************************************************************)
EXTENDS EventLoop
LOCAL INSTANCE SequencesExt

CONSTANTS
    at_end(_, _),     \* its descriptor is closed, or is read and at end of file
    interest(_, _), cancel(_, _), callback(_, _),    \* as given to add_rule
    ready(_, _), hung_up(_, _)    \* what poll(2) says of its descriptor now

(* The first part of wait_next_event, up to the question whether there is  *)
(* something to poll (otherwise it returns Exit).                          *)
set_up(w) ==
    LET visit(v, r) ==
            IF at_end(v, r) THEN erase(cancel(v, r), r)
            ELSE IF interest(v, r) THEN [v EXCEPT !.loop.polled = @ \cup {r}]
            ELSE v
    IN  FoldLeft(visit, [w EXCEPT !.loop.polled = {}], w.loop.rules)

something_to_poll(w) == w.loop.polled # {}

(* poll(2).  Nothing to do afterwards is a timeout; rules that were not    *)
(* polled can wake it up with a hangup, and nothing is done about it.      *)
poll(w) ==
    LET found == SelectSeq(w.loop.rules,
                    LAMBDA r : r \in w.loop.polled /\ (ready(w, r) \/ hung_up(w, r)))
    IN  [w EXCEPT !.loop.polled = {},
                  !.loop.todo = [i \in DOMAIN found |->
                                    [rule |-> found[i], ready |-> ready(w, found[i])]]]

(* One round of the loop over the results.  A rule that only hung up is    *)
(* cancelled; a callback has to read or write, or to lose its interest.    *)
look_at_next(w) ==
    LET e == Head(w.loop.todo)
        rest == [w EXCEPT !.loop.todo = Tail(@), !.loop.served = FALSE]
        after == callback(rest, e.rule)
    IN  IF e.ready
        THEN [after EXCEPT !.loop.threw =
                 @ \/ (~after.loop.served /\ interest(after, e.rule)),
                           !.loop.served = FALSE]
        ELSE erase(cancel(rest, e.rule), e.rule)
=============================================================================
