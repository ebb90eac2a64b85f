----------------------------- MODULE MCSampling ------------------------------
EXTENDS Sampling

MCTimes == 0..MaxTime
=============================================================================
