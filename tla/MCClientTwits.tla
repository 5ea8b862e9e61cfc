---------------------------- MODULE MCClientTwits ---------------------------
(* A small instance of ClientTwits; names are only compared with each      *)
(* other, so they are interchangeable.                                     *)
EXTENDS ClientTwits
Symmetry == Permutations(Names)
=============================================================================
