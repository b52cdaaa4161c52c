---------------------------- MODULE MCMetricsBatch ----------------------------
(* The run of MetricsBatch.  A temporal property is checked: no symmetry.  *)
EXTENDS MetricsBatch, TLC
=============================================================================
