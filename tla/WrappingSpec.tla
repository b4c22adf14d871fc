---------------------------- MODULE WrappingSpec ----------------------------
(***************************************************************************)
(* Every use of wrap and unwrap the two ends of a stream can make: an      *)
(* initial sequence number, an absolute sequence number and a checkpoint   *)
(* that moves through the whole 64-bit range.                              *)
(***************************************************************************)
EXTENDS WrappingIntegers

VARIABLES isn, seqno, checkpoint

vars == <<isn, seqno, checkpoint>>

Init ==
    /\ isn \in WrappingInt32
    /\ seqno \in WrappingInt32
    /\ checkpoint = 0

(* The reader of the header has moved on by one byte. *)
Advance ==
    /\ checkpoint + 1 \in AbsoluteSeqno
    /\ checkpoint' = checkpoint + 1
    /\ UNCHANGED <<isn, seqno>>

Spec == Init /\ [][Advance]_vars

TypeOK ==
    /\ isn \in WrappingInt32
    /\ seqno \in WrappingInt32
    /\ checkpoint \in AbsoluteSeqno

Decoded == unwrap(seqno, isn, checkpoint)

(* unwrap returns the 64-bit sequence number that wraps to the header's    *)
(* seqno and is closest to the checkpoint, at both ends of the range too   *)
(* (the `closest to `checkpoint'' of wrapping_integers.hh).                *)
UnwrapIsNearest ==
    /\ Decoded \in AbsoluteSeqno
    /\ wrap(Decoded, isn) = seqno
    /\ \A n \in AbsoluteSeqno :
          wrap(n, isn) = seqno => Distance(Decoded, checkpoint) <= Distance(n, checkpoint)

(* A sequence number less than half the circle away from the checkpoint    *)
(* survives being sent: wrap then unwrap gives it back.  Window sizes are  *)
(* 16-bit, so everything the two ends exchange is that close.              *)
RoundTrip ==
    \A n \in AbsoluteSeqno :
        Distance(n, checkpoint) < Half => unwrap(wrap(n, isn), isn, checkpoint) = n
=============================================================================
