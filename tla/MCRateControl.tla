--------------------------- MODULE MCRateControl ---------------------------
(* TLC instances of RateControl on a machine with 8 cores.                  *)
EXTENDS RateControl

Custom(e) == [profile |-> "custom", eps |-> e]

\* A regulated predefined profile (the other two give a worker the same share), and
\* custom rates: a small one that does not divide evenly, and one that the number of
\* cores leaves with too few workers.
MCRequests == {[profile |-> "4m", eps |-> 0], Custom(25999), Custom(4000000)}

\* A rate in the range the web form accepts: 80 workers with 650 logs to a batch.
LargeBatchRequests == {Custom(5200000)}
=============================================================================
