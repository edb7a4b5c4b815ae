----------------------------- MODULE SoftwareMC -----------------------------
(* An instance of Software for TLC.                                        *)
EXTENDS Software, TLC

AllFull == [u \in Users |-> "full"]
Symmetry == Permutations(Users) \cup Permutations(Workers)
================================================================================
