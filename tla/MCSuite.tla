------------------------------ MODULE MCSuite -------------------------------
(* Two directories and two names; the first suite has two transcripts.       *)
EXTENDS Suite
MCTranscripts == [d \in Dirs |-> IF d = 1 THEN 2 ELSE 1]
=============================================================================
