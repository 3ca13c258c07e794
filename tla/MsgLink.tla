------------------------------- MODULE MsgLink -------------------------------
(***************************************************************************)
(* What a host interface promises in one direction.  Messages are numbered *)
(* in the order in which they are given to it, and are handed over at the  *)
(* other end in that order and once.  A message may be lost only if it had *)
(* been given to the interface before the line was last initialised.       *)
(***************************************************************************)
EXTENDS Integers

VARIABLES
    in,         \* the number of messages given to the interface
    newest,     \* the last message handed over
    init        \* the messages given before the last initialisation

linkVars == <<in, newest, init>>

Init == in \in Nat /\ newest = 0 /\ init = 0

Put ==
    /\ in' = in + 1
    /\ UNCHANGED <<newest, init>>

(* m is handed over; the messages that it overtakes are lost.              *)
Get(m) ==
    /\ newest < m
    /\ m = newest + 1 \/ m - 1 <= init
    /\ newest' = m
    /\ UNCHANGED <<in, init>>

(* The line is initialised at one end, which may itself send messages.     *)
Reset ==
    /\ in' >= in
    /\ init' = in
    /\ UNCHANGED newest

Next == Put \/ (\E m \in 1 .. in : Get(m)) \/ Reset

Spec == Init /\ [][Next]_linkVars

=============================================================================
