-------------------------- MODULE MCMetricsPipeline --------------------------
(* A TLC instance of MetricsPipeline: two workers, and a channel that can be  *)
(* full.                                                                      *)
EXTENDS MetricsPipeline
=============================================================================
