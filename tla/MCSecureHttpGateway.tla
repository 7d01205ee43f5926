------------------------ MODULE MCSecureHttpGateway -------------------------
(* Small instances of SecureHttpGateway.                                   *)
EXTENDS SecureHttpGateway, TLC

Symmetry == Permutations(Download) \cup Permutations(Origin)
=============================================================================
