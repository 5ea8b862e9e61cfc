---------------------------- MODULE MCClientFraming ---------------------------
(* A small instance of ClientFraming for TLC: the constants are plain numbers. *)
EXTENDS ClientFraming
=============================================================================
