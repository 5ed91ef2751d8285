--------------------------- MODULE MCVectorStore ---------------------------
EXTENDS VectorStore, TLC

\* Chunk ids and the callers of one role are compared only for equality.
Symmetry == Permutations(Id) \cup Permutations(Writer)

\* One half of the run: writers and searchers race, under the lower of the two caps,
\* which a batch passes, and nothing is saved.
Unsaved ==
    /\ files = <<{}, {}, {}, {}>> /\ restarts = 0 /\ maxElem = 1
    /\ \A c \in Saver : pc[c] = "idle"

Race ==
    /\ Unsaved
    /\ (\E c \in Writer : Write(c)) \/ (\E c \in Searcher : Search(c))

\* The other half: one writer at a time beside two saves that may overlap, up to a
\* restart with the same cap or another, after which one writer goes on (where the kill
\* left no temporary file, which nobody reads).
OneWriter ==
    /\ Cardinality({c \in Writer : pc[c] # "idle"}) <= 1
    /\ \A c \in Searcher : pc[c] = "idle" /\ hits[c] = {}

SaveAndDie ==
    /\ restarts = 0 /\ nextKey <= 3 /\ OneWriter
    /\ Next
    /\ nextKey' <= 3 /\ OneWriter'

AfterDeath ==
    /\ restarts = 1 /\ OneWriter /\ hnswTmp = {} /\ keysTmp = {}
    /\ \E c \in Writer : Write(c)
    /\ OneWriter'

MCNext == Race \/ SaveAndDie \/ AfterDeath
MCSpec == Init /\ [][MCNext]_vars
=============================================================================
