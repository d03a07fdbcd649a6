------------------------------ MODULE Sequencing ------------------------------
(***************************************************************************)
(* The vocabulary every sequencer of the ring buffer shares: sequence      *)
(* numbers, the slot of a sequence, and the two arithmetic helpers that    *)
(* Util.h and AbstractSequencer.h supply.                                  *)
(*                                                                         *)
(* A sequence is an int64_t that starts at -1 and only grows.  The model   *)
(* stops claiming at MaxSequence, which stands for the largest int64_t:    *)
(* the code has no handling of a sequence that overflows.                  *)
(***************************************************************************)
EXTENDS Integers

CONSTANTS
    BufferSize,     \* slots of the ring
    MaxSequence     \* bound: no sequence above this one is ever claimed

\* The constructor of AbstractSequencer refuses every other buffer size.
ASSUME BufferSizeAssumption ==
    /\ BufferSize \in Nat \ {0}
    /\ \E k \in 0..BufferSize : 2^k = BufferSize

ASSUME MaxSequenceAssumption == MaxSequence \in Nat

-----------------------------------------------------------------------------

INITIAL_CURSOR_VALUE == -1

SequenceValue == INITIAL_CURSOR_VALUE..MaxSequence

Slots == 0..(BufferSize - 1)

\* sequence & indexMask_; the mask is BufferSize - 1, a power of two less one.
calculateIndex(s) == s % BufferSize

\* A slip in Least: std::max for std::min.
Greatest(a, b) == IF a >= b THEN a ELSE b

\* std::min on two sequences
Least(a, b) == IF a <= b THEN a ELSE b

=============================================================================
