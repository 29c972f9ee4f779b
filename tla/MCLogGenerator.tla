--------------------------- MODULE MCLogGenerator ---------------------------
(* A TLC instance of LogGenerator: one worker, the three command lines that  *)
(* are rejected, and two that run, with every part on and with none.         *)
EXTENDS LogGenerator

MCWorkers == {"worker"}

CommandLine(p, e, d, o, t) ==
  [profile |-> p, eps |-> e, dashboard |-> d, optimize |-> o, duration |-> t]
MCCommandLines ==
  {CommandLine("custom", 0, TRUE, TRUE, 0), CommandLine("unknown", 0, TRUE, TRUE, 0),
   CommandLine("custom", -1, TRUE, TRUE, 0),
   CommandLine("known", 0, TRUE, TRUE, 0), CommandLine("custom", 1, FALSE, FALSE, 1)}
=============================================================================
