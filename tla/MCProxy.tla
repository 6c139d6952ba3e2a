------------------------------ MODULE MCProxy ------------------------------
(* Proxy on small instances; the bounds are given in the .cfg files.        *)
EXTENDS Proxy
=============================================================================
