------------------------------ MODULE Selection ------------------------------
(***************************************************************************)
(* Parts of a sequence, written as recursive functions of the place so     *)
(* that what they are can be proved step by step.                          *)
(***************************************************************************)
EXTENDS Naturals, Sequences

\* The sequences s[k] of the places k among 1..n, one after the other.
Joined(n, places, s) ==
    LET upto[k \in 0..n] ==
          IF k = 0 THEN <<>>
          ELSE IF k \in places THEN upto[k - 1] \o s[k] ELSE upto[k - 1]
    IN  upto[n]

\* The elements v[k] of the places k among 1..n, in their order.
Selected(n, places, v) == Joined(n, places, [k \in places |-> <<v[k]>>])
=============================================================================
