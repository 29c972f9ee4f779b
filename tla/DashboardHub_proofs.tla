------------------------- MODULE DashboardHub_proofs -------------------------
(***************************************************************************)
(* Theorems about DashboardHub, for every set of connections and every     *)
(* capacity of the broadcast channel.                                      *)
(***************************************************************************)
EXTENDS DashboardHub, TLAPS

\* The inductive invariant of the hub: at the start,
LEMMA HubInit == Init => HubInv
  BY QueueAssumption
  DEF Init, HubInv, TypeOK, RegisteredAreHandled, RegisteredAreOpen, WalkVisitsClients,
      SweepIsAlone, LoopsFollowServer, StopSignalled

\* in every step,
LEMMA HubStep == HubInv /\ [Next]_vars => HubInv'
<1> SUFFICES ASSUME HubInv, [Next]_vars PROVE HubInv'
  OBVIOUS
<1> USE QueueAssumption, ConnsAssumption
    DEF HubInv, TypeOK, RegisteredAreHandled, RegisteredAreOpen, WalkVisitsClients,
        SweepIsAlone, LoopsFollowServer, StopSignalled, connVars, loopVars
<1>1. ASSUME NEW c \in Conns, Stalls(c) PROVE HubInv'
  BY <1>1 DEF Stalls, Moves
<1>2. ASSUME NEW c \in Conns, Resumes(c) PROVE HubInv'
  BY <1>2 DEF Resumes, Moves
<1>3. ASSUME NEW c \in Conns, Leaves(c) PROVE HubInv'
  BY <1>3 DEF Leaves
<1>4. ASSUME NEW c \in Conns, Upgrade(c) PROVE HubInv'
  BY <1>4 DEF Upgrade, Moves
<1>5. ASSUME NEW c \in Conns, Register(c) PROVE HubInv'
  BY <1>5 DEF Register, Moves, RLocked
<1>6. ASSUME NEW c \in Conns, Greet(c) PROVE HubInv'
  BY <1>6 DEF Greet, Moves
<1>7. ASSUME NEW c \in Conns, ReadFails(c) PROVE HubInv'
  BY <1>7 DEF ReadFails, Moves
\* The handler takes its client out between two walks, so that no walk has it pending.
<1>8. ASSUME NEW c \in Conns, Unregister(c) PROVE HubInv'
  BY <1>8 DEF Unregister, Moves, RLocked
<1>9. CASE StreamerTicks
  BY <1>9 DEF StreamerTicks
<1>10. CASE StreamerOffers
  BY <1>10 DEF StreamerOffers
<1>11. CASE StreamerReturns
  BY <1>11 DEF StreamerReturns
<1>12. CASE BroadcastReceives
  BY <1>12 DEF BroadcastReceives
<1>13. CASE BroadcastWrites
  BY <1>13 DEF BroadcastWrites
<1>14. CASE BroadcastSucceeds
  BY <1>14 DEF BroadcastSucceeds
\* The target is not pending any more, so that what is pending stays registered.
<1>15. CASE BroadcastFails
  BY <1>15 DEF BroadcastFails
<1>16. CASE BroadcastEnds
  BY <1>16 DEF BroadcastEnds
<1>17. CASE BroadcastReturns
  BY <1>17 DEF BroadcastReturns
<1>18. CASE StopListening
  BY <1>18 DEF StopListening
<1>19. CASE SignalStop
  BY <1>19 DEF SignalStop
<1>20. CASE Join
  BY <1>20 DEF Join
<1>21. CASE Sweep
  BY <1>21 DEF Sweep, RLocked
<1>22. CASE StartBroadcast
  BY <1>22 DEF StartBroadcast
<1>23. CASE StartStreamer
  BY <1>23 DEF StartStreamer
<1>24. CASE UNCHANGED vars
  BY <1>24 DEF vars
<1> QED
  BY <1>1, <1>2, <1>3, <1>4, <1>5, <1>6, <1>7, <1>8, <1>9, <1>10, <1>11, <1>12,
     <1>13, <1>14, <1>15, <1>16, <1>17, <1>18, <1>19, <1>20, <1>21, <1>22,
     <1>23, <1>24
  DEF Next, HandlerSteps, WriteSteps, WalkSteps, StartSteps, StopSteps, Finished

\* and so always.
LEMMA HubAlways == Safety => []HubInv
  BY HubInit, HubStep, PTL DEF Safety

\* The state of the hub keeps its type: the broadcast channel never holds more than its
\* capacity, and only connections are registered or visited.
THEOREM HubTypeCorrect == Safety => []TypeOK
<1>1. HubInv => TypeOK
  BY DEF HubInv
<1> QED
  BY <1>1, HubAlways, PTL

\* broadcastLoop never writes to a connection that its handler or Stop has taken away,
\* however many clients come and go: the walk holds the read lock, and Stop's sweep comes
\* after the loop is joined.
THEOREM WritesGoToRegistered == Safety => []WritesToRegistered
<1>1. HubInv => WritesToRegistered
  BY DEF HubInv, TypeOK, RegisteredAreOpen, WalkVisitsClients, WritesToRegistered
<1> QED
  BY <1>1, HubAlways, PTL

\* Every registered client has a handler that has still to take it out.
THEOREM ClientsAreHandled == Safety => []RegisteredAreHandled
<1>1. HubInv => RegisteredAreHandled
  BY DEF HubInv
<1> QED
  BY <1>1, HubAlways, PTL

-----------------------------------------------------------------------------
(* The dashboard implements the safety part of ServiceLifecycle.            *)

\* A step that leaves the server's phase and the loops' lives alone stutters.
LEMMA HubStutter ==
  ASSUME phaseOfServer' = phaseOfServer,
         broadcaster' \in {"none", "done"} <=> broadcaster \in {"none", "done"},
         streamer' \in {"none", "done"} <=> streamer \in {"none", "done"}
  PROVE  UNCHANGED Lifecycle!vars
  BY DEF Lifecycle!vars, liveLoops

\* Every step of the hub is one of the life cycle, or none.
LEMMA HubLifecycleStep == HubInv /\ [Next]_vars => [Lifecycle!Next]_(Lifecycle!vars)
<1> SUFFICES ASSUME HubInv, [Next]_vars PROVE [Lifecycle!Next]_(Lifecycle!vars)
  OBVIOUS
<1> USE DEF HubInv, TypeOK, LoopsFollowServer, StopSignalled, loopVars
<1>1. ASSUME NEW c \in Conns,
             Stalls(c) \/ Resumes(c) \/ Leaves(c) \/ Upgrade(c) \/ HandlerSteps(c)
               \/ ReadFails(c)
      PROVE  UNCHANGED Lifecycle!vars
  BY <1>1, HubStutter
  DEF Stalls, Resumes, Leaves, Upgrade, HandlerSteps, Register, Greet, Unregister,
      ReadFails, phaseOfServer
<1>2. CASE StreamerTicks \/ StreamerOffers
  BY <1>2, HubStutter DEF StreamerTicks, StreamerOffers, phaseOfServer
<1>3. CASE BroadcastReceives \/ WalkSteps \/ WriteSteps
  BY <1>3, HubStutter
  DEF BroadcastReceives, WalkSteps, BroadcastWrites, BroadcastEnds, WriteSteps,
      BroadcastSucceeds, BroadcastFails, phaseOfServer
<1>4. CASE StreamerReturns
  <2>1. phaseOfServer = "stopping" /\ UNCHANGED phaseOfServer
    BY <1>4 DEF StreamerReturns, phaseOfServer
  <2>2. "streamer" \in liveLoops /\ liveLoops' = liveLoops \ {"streamer"}
    BY <1>4 DEF StreamerReturns, liveLoops, HubGoroutines
  <2> QED
    BY <2>1, <2>2 DEF Lifecycle!Next, Lifecycle!Retire, HubGoroutines
<1>5. CASE BroadcastReturns
  <2>1. phaseOfServer = "stopping" /\ UNCHANGED phaseOfServer
    BY <1>5 DEF BroadcastReturns, SweepIsAlone, phaseOfServer
  <2>2. "broadcaster" \in liveLoops /\ liveLoops' = liveLoops \ {"broadcaster"}
    BY <1>5 DEF BroadcastReturns, liveLoops, HubGoroutines
  <2> QED
    BY <2>1, <2>2 DEF Lifecycle!Next, Lifecycle!Retire, HubGoroutines
<1>6. CASE StartBroadcast
  <2>1. phaseOfServer = "ready" /\ phaseOfServer' = "running"
    BY <1>6 DEF StartBroadcast, phaseOfServer
  <2>2. liveLoops' = {"broadcaster"}
    BY <1>6 DEF StartBroadcast, liveLoops, HubGoroutines
  <2> QED
    BY <2>1, <2>2 DEF Lifecycle!Next, Lifecycle!Begin, HubGoroutines
<1>7. CASE StartStreamer
  <2>1. phaseOfServer = "running" /\ UNCHANGED phaseOfServer
    BY <1>7 DEF StartStreamer, phaseOfServer
  <2>2. liveLoops' = liveLoops \cup {"streamer"}
    BY <1>7 DEF StartStreamer, liveLoops, HubGoroutines
  <2> QED
    BY <2>1, <2>2 DEF Lifecycle!Next, Lifecycle!Spawn, HubGoroutines
<1>8. CASE StopListening
  <2>1. phaseOfServer = "running" /\ phaseOfServer' = "stopping"
    BY <1>8 DEF StopListening, phaseOfServer
  <2>2. UNCHANGED liveLoops
    BY <1>8 DEF StopListening, liveLoops
  <2> QED
    BY <2>1, <2>2 DEF Lifecycle!Next, Lifecycle!Halt
<1>9. CASE SignalStop \/ Join
  BY <1>9, HubStutter DEF SignalStop, Join, phaseOfServer
<1>10. CASE Sweep
  <2>1. phaseOfServer = "stopping" /\ phaseOfServer' = "stopped"
    BY <1>10 DEF Sweep, phaseOfServer
  <2>2. liveLoops = {} /\ UNCHANGED liveLoops
    BY <1>10 DEF Sweep, SweepIsAlone, liveLoops, HubGoroutines
  <2> QED
    BY <2>1, <2>2 DEF Lifecycle!Next, Lifecycle!Finish
<1>11. CASE UNCHANGED vars
  BY <1>11, HubStutter DEF vars, phaseOfServer
<1> QED
  BY <1>1, <1>2, <1>3, <1>4, <1>5, <1>6, <1>7, <1>8, <1>9, <1>10, <1>11
  DEF Next, StartSteps, StopSteps, Finished

\* The dashboard implements ServiceLifecycle for every number of clients: its two loops
\* end only because Stop was called, and Stop returns when neither is left.
THEOREM HubLifecycleImplemented == Safety => ImplementsLifecycleSafety
<1>1. Init => Lifecycle!Init
  BY DEF Init, Lifecycle!Init, phaseOfServer, liveLoops, HubGoroutines
<1> QED
  BY <1>1, HubAlways, HubLifecycleStep, PTL
  DEF Safety, ImplementsLifecycleSafety, Lifecycle!Safety
=============================================================================
