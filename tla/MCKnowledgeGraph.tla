-------------------------- MODULE MCKnowledgeGraph --------------------------
(* Instances of KnowledgeGraph: node ids are numbers, so that an edge id can *)
(* be written.                                                             *)
EXTENDS KnowledgeGraph

MCEdges == {<<1, 2>>}
MCPoints == 0 .. 2

=============================================================================
