---------------------------- MODULE MCRegistry ----------------------------
EXTENDS Registry, TLC

CONSTANTS x, y, dx, dy
const_DirOf == x :> dx @@ y :> dy
\* Two ids that sanitize_id maps to one directory, "a/b" and "a_b".
const_DirCollide == x :> dx @@ y :> dx

\* Handlers and roots are compared only for equality.
Symmetry == Permutations(Handler) \cup Permutations(Root)
=============================================================================
