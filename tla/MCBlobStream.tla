---------------------------- MODULE MCBlobStream ----------------------------
(* BlobStream for TLC: bodies below, at and above limits of 1, 2 and 3.      *)
EXTENDS BlobStream
=============================================================================
