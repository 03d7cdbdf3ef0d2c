------------------------------ MODULE Sequencer ------------------------------
(***************************************************************************)
(* Sequencer<T> of kyproto: sequence numbers travel as u8/u16/u32 values   *)
(* that wrap around, and the receiver unrolls them to u64 numbers, taking  *)
(* each one to be the number closest to the newest one seen so far.        *)
(*                                                                         *)
(* `range' is RANGE (2^SIZE_BITS): every definition takes it as a          *)
(* parameter, so that the checks can use a small circular space.           *)
(***************************************************************************)
EXTENDS Integers

HalfRange(range) == range \div 2

(***************************************************************************)
(* What the sender puts on the wire: a counter advanced by wrapping_add.   *)
(***************************************************************************)
Raw(seq, range) == seq % range

\* Mutant of Unroll: a late number from before the wrap is taken for a new one.
UnrollForward(newest, value, range) ==
    LET seq == (newest - (newest % range)) + value
    IN  IF newest >= seq + HalfRange(range) THEN seq + range ELSE seq

(***************************************************************************)
(* Sequencer::seq, its result.  The first IF is the branch that looks      *)
(* ahead across the wrap, the second the one that looks back, which is     *)
(* not taken below RANGE because no number is negative.                    *)
(***************************************************************************)
Unroll(newest, value, range) ==
    LET seq == (newest - (newest % range)) + value
    IN  IF newest >= seq + HalfRange(range)
        THEN seq + range
        ELSE IF seq > newest + HalfRange(range) /\ seq >= range
             THEN seq - range
             ELSE seq

(***************************************************************************)
(* Sequencer::seq, its effect on newest_seq.                               *)
(***************************************************************************)
Newest(newest, seq) == IF seq > newest THEN seq ELSE newest

(***************************************************************************)
(* The numbers the circular space can tell apart around newest_seq: the    *)
(* open end is in the past, the closed end in the future.                  *)
(***************************************************************************)
InWindow(newest, seq, range) ==
    /\ newest < seq + HalfRange(range)
    /\ seq <= newest + HalfRange(range)
=============================================================================
