----------------------------- MODULE MCReindex -----------------------------
EXTENDS Reindex, TLC

\* Files, requests and contents of one kind are compared only for equality.
Symmetry == Permutations(File) \cup Permutations(Run) \cup
            Permutations(Content \ Minified)
=============================================================================
