--------------------------- MODULE MCLookupCache ---------------------------
(* Symmetry and boot rows for the model-checking runs of LookupCache. *)
EXTENDS LookupCache, TLC

RequestSymmetry == Permutations(Requests)

\* An earlier process left a row this build can decode, or one it cannot.
MCBootRows == [size : {1}, decodes : BOOLEAN]
=============================================================================
