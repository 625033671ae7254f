------------------------------- MODULE Totals -------------------------------
(***************************************************************************)
(* The running total of the loops that add up lengths: of the hits of a    *)
(* search and of the lines of a chunk.                                     *)
(***************************************************************************)
EXTENDS Integers

(* f[1] + ... + f[n] *)
Total(f, n) ==
    LET to[k \in 0..n] == IF k = 0 THEN 0 ELSE to[k - 1] + f[k]
    IN  to[n]
=============================================================================
