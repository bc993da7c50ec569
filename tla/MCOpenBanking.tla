--------------------------- MODULE MCOpenBanking ---------------------------
(* Small instances of OpenBanking for TLC.                                 *)
EXTENDS OpenBanking, TLC

(* Request slots are interchangeable; used in safety runs only.            *)
ReqSymmetry == Permutations(Reqs)
=============================================================================
