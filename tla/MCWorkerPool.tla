---------------------------- MODULE MCWorkerPool ----------------------------
(* TLC instances of WorkerPool: two workers, and one mode of each class.   *)
EXTENDS WorkerPool

\* "high" behaves as "default" and "performance" as "medium" for everything the
\* module says, so one of each pair is enough.
MCModes == {"high", "medium", "ultra"}
=============================================================================
