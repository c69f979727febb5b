---------------------------- MODULE MCBpannStore ----------------------------
(* Instances of BpannStore for TLC.                                        *)
EXTENDS BpannStore, TLC

ScaledMetrics == Permutations(Metrics \ {Unscaled})
=============================================================================
