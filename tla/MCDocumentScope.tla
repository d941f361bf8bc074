-------------------------- MODULE MCDocumentScope --------------------------
(* Instances of DocumentScope for TLC: three replacements that overlap.    *)
EXTENDS DocumentScope, TLC

CONSTANTS a, b, n, c1, c2
=============================================================================
