---------------------------- MODULE MCCloudSync ----------------------------
(* Small instances of CloudSync for TLC.                                   *)
EXTENDS CloudSync, TLC

(* Call slots are interchangeable; used in safety runs only.               *)
CallSymmetry == Permutations(Calls)
=============================================================================
