---------------------------- MODULE MCComparison ----------------------------
EXTENDS Comparison
============================================================================
