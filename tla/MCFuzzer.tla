------------------------------ MODULE MCFuzzer ------------------------------
(* Fuzzer on small instances; the bounds are given in the .cfg files.       *)
EXTENDS Fuzzer
=============================================================================
