--------------------------- MODULE MCControlServer ---------------------------
(* A TLC instance of ControlServer: two profiles, a custom rate, a name no   *)
(* profile has, and three generations of pools.                              *)
EXTENDS ControlServer, TLC

Profile(e, w) == [eps |-> e, workers |-> w]
MCProfileTable == "4m" :> Profile(4000000, 160) @@ "100k" :> Profile(100000, 10)
MCCustomWorkers == 30000 :> 3 @@ 100000 :> 10 @@ 4000000 :> 160

Posted(p, h, e, w, o) ==
  [profile |-> p, host |-> h, eps |-> e, workers |-> w, optimize |-> o]
MCDefault == Posted("4m", "local", 4000000, 40, TRUE)

\* A known profile; a custom rate with optimisation off; an unknown profile name with
\* figures in range; figures out of range.
MCPosted == {Posted("100k", "local", 0, 0, TRUE), Posted("custom", "siem", 30000, 50, FALSE),
             Posted("7m", "local", 30000, 50, TRUE), Posted("", "local", 30000, 0, TRUE)}

\* A bare start, and one that names a profile and a host.
MCRequests == {[profile |-> "", host |-> "", eps |-> 0],
               [profile |-> "custom", host |-> "siem", eps |-> 30000]}
=============================================================================
