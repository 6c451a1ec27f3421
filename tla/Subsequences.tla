---------------------------- MODULE Subsequences ----------------------------
(***************************************************************************)
(* [x for x in s if x in T]: the elements of a list that belong to a set,  *)
(* in their order.  The set is a value and the recursion is a function, so *)
(* that lemmas about it can be proved (SubsequencesProofs).                *)
(***************************************************************************)
EXTENDS Naturals, Sequences

\* What the first n elements of s contribute, for every n.
KeptUpTo(s, T) ==
  LET F[n \in 0 .. Len(s)] ==
        IF n = 0 THEN <<>> ELSE IF s[n] \in T THEN Append(F[n - 1], s[n]) ELSE F[n - 1]
  IN  F

Kept(s, T) == KeptUpTo(s, T)[Len(s)]
=============================================================================
