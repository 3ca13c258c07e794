------------------------------- MODULE SeqSum -------------------------------
(* The sum of a sequence of numbers, by the sums of its prefixes.          *)
EXTENDS Integers, Sequences

SeqSum(s) ==
    LET sum[i \in 0 .. Len(s)] == IF i = 0 THEN 0 ELSE sum[i - 1] + s[i]
    IN  sum[Len(s)]

=============================================================================
