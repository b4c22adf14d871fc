---------------------------- MODULE WrappingProofs --------------------------
(***************************************************************************)
(* Proofs about WrappingSpec: wrap and unwrap                              *)
(* (libsponge/wrapping_integers.cc) at every checkpoint.                   *)
(***************************************************************************)
EXTENDS WrappingSpec, WrappingLemmas

USE SMTT(180)

(* The inputs are words of their widths: isn and seqno are never written,  *)
(* and the checkpoint stops at the last 64-bit number.                     *)
LEMMA TypeCorrect == Spec => []TypeOK
  <1>1. Init => TypeOK
    BY Widths DEF Init, TypeOK, AbsoluteSeqno
  <1>2. TypeOK /\ [Advance]_vars => TypeOK'
    BY DEF TypeOK, Advance, vars
  <1> QED
    BY <1>1, <1>2, PTL DEF Spec

(* unwrap (wrapping_integers.cc) returns, for words of any width, the      *)
(* nearest absolute sequence number that wraps to the header's.            *)
THEOREM NearestTheorem == Spec => []UnwrapIsNearest
  <1>1. TypeOK => UnwrapIsNearest
    BY UnwrapNearest DEF TypeOK, UnwrapIsNearest, Decoded
  <1> QED
    BY <1>1, TypeCorrect, PTL

(* wrap followed by unwrap is the identity on the sequence numbers less    *)
(* than half the circle away from the checkpoint.                          *)
THEOREM RoundTripTheorem == Spec => []RoundTrip
  <1>1. TypeOK => RoundTrip
    BY UnwrapWrap DEF TypeOK, RoundTrip
  <1> QED
    BY <1>1, TypeCorrect, PTL
=============================================================================
