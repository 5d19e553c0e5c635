--------------------------- MODULE MCAnchorWorker ---------------------------
(* A small instance of AnchorWorker for TLC. *)
EXTENDS AnchorWorker, TLC

Symmetry == Permutations(Workers)
=============================================================================
