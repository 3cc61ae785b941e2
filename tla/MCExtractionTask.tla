--------------------------- MODULE MCExtractionTask ---------------------------
(* Instances of ExtractionTask for TLC. *)
EXTENDS ExtractionTask, TLC

MCSymmetry == Permutations(Archives) \cup Permutations(Workers) \cup Permutations(Results)
=============================================================================
