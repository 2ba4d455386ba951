----------------------------- MODULE MCEnrichment -----------------------------
\* Enrichment for TLC.
EXTENDS Enrichment
=============================================================================
