----------------------------- MODULE MCGenStore -----------------------------
(* The generation store for TLC. *)
EXTENDS GenStore

Symmetry == Permutations(Docs)

\* The search stops at a slip: every property is about the behaviour before one.
BeforeSlips == slips = {}

=============================================================================
