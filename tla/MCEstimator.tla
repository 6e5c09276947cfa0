---------------------------- MODULE MCEstimator ----------------------------
EXTENDS Estimator
=============================================================================
