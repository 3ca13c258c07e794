-------------------------- MODULE MCKerBufRestart --------------------------
(* KerBufRestart for TLC, on the pool of MCKerBuf.                         *)
EXTENDS KerBufRestart

CONSTANTS d, p1, p2

MCProc == {d, p1, p2}

=============================================================================
