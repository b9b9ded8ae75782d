-------------------------------- MODULE Loops --------------------------------
(***************************************************************************)
(* What loops of the code compute: a sum, and a selection in order.        *)
(***************************************************************************)
EXTENDS Naturals, Sequences

\* x[1] + ... + x[n].
SumTo(x, n) ==
    LET sum[k \in 0..n] == IF k = 0 THEN 0 ELSE sum[k - 1] + x[k]
    IN  sum[n]

\* The members of S among 1, ..., n, in ascending order.
InOrder(S, n) ==
    LET upTo[k \in 0..n] ==
            IF k = 0 THEN << >>
            ELSE IF k \in S THEN Append(upTo[k - 1], k) ELSE upTo[k - 1]
    IN  upTo[n]
=============================================================================
