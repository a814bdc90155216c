------------------------------ MODULE Filtering -----------------------------
(***************************************************************************)
(* What a loop keeps that goes over a sequence and skips some elements of  *)
(* it.  Written as a recursive function, which can be reasoned about.      *)
(***************************************************************************)
EXTENDS Integers, Sequences

\* The elements of a sequence that are in a set, in their order.
Kept(s, T) ==
  LET k[i \in 0 .. Len(s)] ==
        IF i = 0 THEN << >>
        ELSE IF s[i] \in T THEN Append(k[i - 1], s[i]) ELSE k[i - 1]
  IN  k[Len(s)]
=============================================================================
