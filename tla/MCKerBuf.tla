----------------------------- MODULE MCKerBuf ------------------------------
(* KerBuf for TLC: the daemon and two more processes, a pool of at most    *)
(* three kernel buffers of two pieces each.                                *)
EXTENDS KerBuf

CONSTANTS d, p1, p2

MCProc == {d, p1, p2}

=============================================================================
