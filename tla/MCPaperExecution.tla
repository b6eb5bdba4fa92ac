--------------------------- MODULE MCPaperExecution ---------------------------
(* Small instances of PaperExecution for TLC. *)
EXTENDS PaperExecution, TLC

\* Nothing orders the members of these sets.
Symmetry == Permutations(Callers) \cup Permutations(Symbols)
=============================================================================
