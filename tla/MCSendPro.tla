----------------------------- MODULE MCSendPro -----------------------------
(* SendPro for TLC: two hosts, both of them listed as known.               *)
EXTENDS SendPro

MCKnown == {1, 2}

=============================================================================
