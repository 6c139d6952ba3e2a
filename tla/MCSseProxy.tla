----------------------------- MODULE MCSseProxy -----------------------------
(* SseProxy on small instances; the bounds are given in the .cfg files.     *)
EXTENDS SseProxy
=============================================================================
