--------------------------- MODULE MCReindexClient ---------------------------
EXTENDS ReindexClient

\* Two batches and a skip in a row, so that replay and channel can both give a batch.
const_Batches == {2, 3, 5}
=============================================================================
