-------------------------- MODULE ServiceLifecycle --------------------------
(***************************************************************************)
(* What a background service of the program (worker pool, dashboard,       *)
(* memory optimizer) promises its owner, without saying how: Start brings  *)
(* goroutines to life, Stop lets no new one appear, and Stop returns only  *)
(* once every one of them is gone.  WorkerPool and DashboardHub are        *)
(* checked, and in their safety part proved, to implement this under the   *)
(* mappings at their ends; LogGenerator composes services it knows by this *)
(* promise alone.                                                          *)
(***************************************************************************)
EXTENDS Naturals

CONSTANT Goroutines     \* whatever the service may run on the owner's behalf

VARIABLES phase,        \* how far the owner has taken the service
          live          \* the goroutines that exist

vars == <<phase, live>>

Phases == {"created", "ready", "running", "stopping", "stopped"}

\* Some services have to be initialised first, others can be started at once.
Init == phase \in {"created", "ready"} /\ live = {}

\* Initialize succeeded: there is something to start.
Prepare == phase = "created" /\ phase' = "ready" /\ UNCHANGED live

\* Start: the first goroutine appears with the phase change ...
Begin(g) == phase = "ready" /\ phase' = "running" /\ live' = {g}

\* ... and the others one by one while the service is running.
Spawn(g) == phase = "running" /\ live' = live \cup {g} /\ UNCHANGED phase

\* The owner asks for the end.
Halt == phase = "running" /\ phase' = "stopping" /\ UNCHANGED live

\* A goroutine ends, which it does only because the owner asked.
Retire(g) == /\ phase = "stopping" /\ g \in live
             /\ live' = live \ {g}
             /\ UNCHANGED phase

\* Stop returns.
Finish == phase = "stopping" /\ live = {} /\ phase' = "stopped" /\ UNCHANGED live

Next == \/ Prepare \/ Halt \/ Finish
        \/ \E g \in Goroutines : Begin(g) \/ Spawn(g) \/ Retire(g)

\* A service that was not started, or whose Stop has returned, runs nothing.
Quiet == phase \notin {"running", "stopping"} => live = {}

Safety == Init /\ [][Next]_vars

Spec == /\ Safety
        /\ WF_vars(Finish)
        /\ \A g \in Goroutines : WF_vars(Retire(g))
=============================================================================
