------------------------------ MODULE BytePipe ------------------------------
(***************************************************************************)
(* What a network connection promises its users in one direction: a pipe   *)
(* of bytes.  The bytes are numbered, so that one that is lost, repeated   *)
(* or out of its place can be seen.  Bytes come out in the order in which  *)
(* they went in; no more than Capacity are inside; and the reader is told  *)
(* that the pipe has ended only after the writer has closed it and         *)
(* everything has been read, or after the connection broke.                *)
(***************************************************************************)
EXTENDS Integers, Sequences

CONSTANT Capacity

VARIABLES
    in,         \* the number of bytes put in
    out,        \* the bytes that came out
    closed,     \* the writer has closed its end
    broken,     \* the connection was given up
    ended       \* the reader was told that it is at the end

pipeVars == <<in, out, closed, broken, ended>>

Init ==
    /\ in = 0
    /\ out = <<>>
    /\ closed = FALSE
    /\ broken = FALSE
    /\ ended = FALSE

Put(n) ==
    /\ ~closed
    /\ in + n - Len(out) <= Capacity
    /\ in' = in + n
    /\ UNCHANGED <<out, closed, broken, ended>>

Get(n) ==
    /\ Len(out) + n <= in
    /\ out' = out \o [i \in 1 .. n |-> Len(out) + i]
    /\ UNCHANGED <<in, closed, broken, ended>>

Close ==
    /\ closed' = TRUE
    /\ UNCHANGED <<in, out, broken, ended>>

Break ==
    /\ broken' = TRUE
    /\ UNCHANGED <<in, out, closed, ended>>

End ==
    /\ broken \/ (closed /\ Len(out) = in)
    /\ ended' = TRUE
    /\ UNCHANGED <<in, out, closed, broken>>

Next ==
    \/ \E n \in 1 .. Capacity : Put(n) \/ Get(n)
    \/ Close
    \/ Break
    \/ End

Spec == Init /\ [][Next]_pipeVars

=============================================================================
