------------------------------ MODULE MCVdhRtp ------------------------------
(* VdhRtp for TLC.                                                         *)
EXTENDS VdhRtp

(* What the host sends; the imp sends no more than its NOPs.               *)
One == [n \in Node |-> IF n = "host" THEN <<1>> ELSE <<>>]
TwoOne == [n \in Node |-> IF n = "host" THEN <<2, 1>> ELSE <<>>]
Three == [n \in Node |-> IF n = "host" THEN <<3>> ELSE <<>>]

=============================================================================
