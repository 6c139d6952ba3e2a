--------------------------- MODULE MCActiveAudit ----------------------------
(* Two tools with two canaries each; the ids of the canaries begin at 101.   *)
EXTENDS ActiveAudit
=============================================================================
