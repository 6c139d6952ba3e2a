----------------------------- MODULE MCGenerate -----------------------------
(* Three pages at most, one line of noise.                                   *)
EXTENDS Generate
=============================================================================
