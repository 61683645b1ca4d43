--------------------------- MODULE MCUpstreamSend ---------------------------
(* UpstreamSend for TLC: two public authorities and one of the intranet.     *)
EXTENDS UpstreamSend
=============================================================================
