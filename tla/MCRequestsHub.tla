--------------------------- MODULE MCRequestsHub ---------------------------
(***************************************************************************)
(* Instances of RequestsHub for TLC; requests are interchangeable.         *)
(***************************************************************************)
EXTENDS RequestsHub, TLC

Symmetry == Permutations(Requests)
=============================================================================
