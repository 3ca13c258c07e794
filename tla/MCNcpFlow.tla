----------------------------- MODULE MCNcpFlow -----------------------------
(* NcpFlow for TLC.                                                        *)
EXTENDS NcpFlow

=============================================================================
