----------------------------- MODULE Positions -----------------------------
(***************************************************************************)
(* A part of a sequence in its order, as a loop leaves it that appends     *)
(* some of what it walks over.                                             *)
(***************************************************************************)
EXTENDS Integers, FiniteSets

(* What a sequence has at some of its positions: a position comes k-th     *)
(* when k of those kept are not after it.                                  *)
Kept(seq, positions) ==
  [k \in 1 .. Cardinality(positions) |->
     seq[CHOOSE i \in positions : Cardinality({j \in positions : j <= i}) = k]]
=============================================================================
