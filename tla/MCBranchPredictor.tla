-------------------------- MODULE MCBranchPredictor --------------------------
EXTENDS BranchPredictor
=============================================================================
