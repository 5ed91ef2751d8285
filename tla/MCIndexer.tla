----------------------------- MODULE MCIndexer -----------------------------
EXTENDS Indexer, TLC

CONSTANTS a, b, c, f, g
const_FileOf == a :> f @@ b :> f @@ c :> g

\* Writers are compared only for equality.
Symmetry == Permutations(Writer)
=============================================================================
