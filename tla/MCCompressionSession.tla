------------------------ MODULE MCCompressionSession ------------------------
(* Instances of CompressionSession for TLC. *)
EXTENDS CompressionSession, TLC

MCSymmetry == Permutations(Proc)

\* Message sizes 1, 1, 1, 1, ...
MCUnit == [i \in 0..MaxMessages |-> i]

\* Message sizes 1, 2, 1, 2, ...
MCMixed == [i \in 0..MaxMessages |-> i + (i \div 2)]
=============================================================================
