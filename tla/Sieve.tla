-------------------------------- MODULE Sieve --------------------------------
(***************************************************************************)
(* The elements of a sequence that belong to a set, in their order: what   *)
(* Rust's retain and filter leave.                                         *)
(***************************************************************************)
EXTENDS Naturals, Sequences

(* What is left of the first n elements, for each n.                       *)
Sieve(s, keep) ==
  LET left[n \in 0..Len(s)] ==
        IF n = 0 THEN <<>>
        ELSE IF s[n] \in keep THEN Append(left[n - 1], s[n])
        ELSE left[n - 1]
  IN  left

Sifted(s, keep) == Sieve(s, keep)[Len(s)]

===============================================================================
