-------------------------- MODULE MCSnapshotFiles --------------------------
EXTENDS SnapshotFiles, TLC

\* Inodes are compared only for equality.
Symmetry == Permutations(Inode)
=============================================================================
