--------------------------- MODULE MCLocalHandle ---------------------------
EXTENDS LocalHandle, TLC

Opt(ro, mode, identity, vector_only, text, images, discarding) ==
  [ro |-> ro, mode |-> mode, identity |-> identity, vector_only |-> vector_only,
   text |-> text, images |-> images, discard_at_exit |-> discarding]

\* A text index written in either mode, a reader of it, and a vector-only
\* handle that is another index.
MCOptions ==
  {Opt(FALSE, "wal", "minilm", FALSE, TRUE, TRUE, FALSE),
   Opt(FALSE, "generation", "minilm", FALSE, TRUE, FALSE, TRUE),
   Opt(TRUE, "wal", "minilm", FALSE, FALSE, FALSE, FALSE),
   Opt(FALSE, "wal", "vectors", TRUE, TRUE, FALSE, FALSE)}

Symmetry == Permutations(Handles) \cup Permutations(Threads)

=============================================================================
