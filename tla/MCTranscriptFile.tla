-------------------------- MODULE MCTranscriptFile --------------------------
(* TranscriptFile on small instances; Format and bounds are in the .cfg     *)
(* files.                                                                   *)
EXTENDS TranscriptFile
=============================================================================
