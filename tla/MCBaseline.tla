----------------------------- MODULE MCBaseline -----------------------------
EXTENDS Baseline

=============================================================================
