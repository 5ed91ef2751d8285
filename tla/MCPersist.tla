----------------------------- MODULE MCPersist -----------------------------
EXTENDS Persist, TLC

\* The protocol compares batches and tasks only for equality.
Symmetry == Permutations(Batch) \cup Permutations(Task)
=============================================================================
