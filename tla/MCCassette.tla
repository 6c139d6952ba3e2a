---------------------------- MODULE MCCassette ------------------------------
(* Three messages of the client, and one of the server that answers nothing. *)
EXTENDS Cassette
=============================================================================
