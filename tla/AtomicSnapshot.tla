--------------------------- MODULE AtomicSnapshot ---------------------------
(***************************************************************************)
(* What `save_chunks_to_disk' promises of one index's chunks.json: the     *)
(* file always holds one complete snapshot of the corpus, each save makes  *)
(* it newer, and a boot resumes from it.                                   *)
(***************************************************************************)
EXTENDS Naturals

CONSTANT MaxVersion   \* bound on the changes of the corpus

VARIABLES
    corpus,   \* how many changes the in-memory corpus has seen
    saved     \* the corpus the file holds

TypeOK == corpus \in 0..MaxVersion /\ saved \in 0..MaxVersion

Init == corpus = 0 /\ saved = 0

Change ==
    /\ corpus < MaxVersion
    /\ corpus' = corpus + 1
    /\ UNCHANGED saved

\* A save publishes a snapshot taken some time ago, never before the last one.
Save ==
    /\ saved' \in saved..corpus
    /\ UNCHANGED corpus

Boot ==
    /\ corpus' = saved
    /\ UNCHANGED saved

Next == Change \/ Save \/ Boot

Spec == Init /\ [][Next]_<<corpus, saved>>
=============================================================================
