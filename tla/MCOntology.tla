------------------------------ MODULE MCOntology ------------------------------
\* Ontology for TLC.
EXTENDS Ontology, TLC

\* Names and ingesters differ in nothing; for safety only.
Alike == Permutations(Names) \cup Permutations(Ingesters)
=============================================================================
