---------------------------- MODULE DashboardHub ----------------------------
(***************************************************************************)
(* The WebSocket side of the dashboard (internal/monitor/dashboard.go):    *)
(* Start, the handler of each connection, broadcastLoop, metricsStreamer   *)
(* and Stop, around the registry `clients' and its clientsMutex.  The      *)
(* control server has the same handler and loops, but nobody stops them.   *)
(*                                                                         *)
(* A connection is used once, and messages are only counted.  Writing to a *)
(* peer that does not read blocks; a peer that is gone makes it fail       *)
(* sooner or later.                                                        *)
(***************************************************************************)
EXTENDS Naturals, FiniteSets

CONSTANTS
  Conns,       \* the WebSocket connections clients make
  QueueCap     \* capacity of ds.broadcast

ASSUME QueueAssumption == QueueCap \in Nat \ {0}

NoConn == 0      \* the broadcaster writes to nobody
ASSUME ConnsAssumption == NoConn \notin Conns

VARIABLES
  server,      \* how far the owner is: new, starting (Start launches the loops), running,
               \* then Stop: closing, joining, sweeping, stopped
  clients,     \* ds.clients
  conn,        \* of each connection: none, open, closed
  peer,        \* its other end: reading, stalled, gone
  handler,     \* handleWebSocket: none, upgraded, greeting, reading, leaving, done
  queue,       \* messages in ds.broadcast
  streamer,    \* metricsStreamer: none, wait, offer, done
  broadcaster, \* broadcastLoop: none, select, walk, write, done
  todo,        \* the clients its walk has still to visit
  target       \* the client it writes to

connVars == <<conn, peer, handler>>
loopVars == <<queue, streamer, broadcaster, todo, target>>
vars == <<server, clients, connVars, loopVars>>

StopSignalled == server \in {"joining", "sweeping", "stopped"}      \* stopChan is closed

\* broadcastLoop holds clientsMutex.RLock during its walk.
RLocked == broadcaster \in {"walk", "write"}

TypeOK ==
  /\ server \in {"new", "starting", "running", "closing", "joining", "sweeping",
                 "stopped"}
  /\ clients \in SUBSET Conns
  /\ conn \in [Conns -> {"none", "open", "closed"}]
  /\ peer \in [Conns -> {"reading", "stalled", "gone"}]
  /\ handler \in [Conns -> {"none", "upgraded", "greeting", "reading", "leaving", "done"}]
  /\ queue \in 0..QueueCap
  /\ streamer \in {"none", "wait", "offer", "done"}
  /\ broadcaster \in {"none", "select", "walk", "write", "done"}
  /\ todo \in SUBSET Conns
  /\ target \in Conns \cup {NoConn}

Init ==
  /\ server = "new"
  /\ clients = {}
  /\ conn = [c \in Conns |-> "none"]
  /\ peer = [c \in Conns |-> "reading"]
  /\ handler = [c \in Conns |-> "none"]
  /\ queue = 0
  /\ streamer = "none" /\ broadcaster = "none"
  /\ todo = {} /\ target = NoConn

Moves(pcs, c, from, to) == pcs[c] = from /\ pcs' = [pcs EXCEPT ![c] = to]

-----------------------------------------------------------------------------
(* The peers.                                                              *)

Stalls(c) ==
  /\ conn[c] = "open" /\ Moves(peer, c, "reading", "stalled")
  /\ UNCHANGED <<server, clients, conn, handler, loopVars>>

Resumes(c) ==
  /\ Moves(peer, c, "stalled", "reading")
  /\ UNCHANGED <<server, clients, conn, handler, loopVars>>

Leaves(c) ==
  /\ conn[c] # "none" /\ peer[c] # "gone"
  /\ peer' = [peer EXCEPT ![c] = "gone"]
  /\ UNCHANGED <<server, clients, conn, handler, loopVars>>

-----------------------------------------------------------------------------
(* handleWebSocket of connection c.                                        *)

\* The HTTP server accepts no more requests once it is closed.
Upgrade(c) ==
  /\ server = "running"
  /\ Moves(handler, c, "none", "upgraded")
  /\ conn' = [conn EXCEPT ![c] = "open"]
  /\ UNCHANGED <<server, clients, peer, loopVars>>

\* Registration under clientsMutex.Lock.
Register(c) ==
  /\ ~RLocked
  /\ Moves(handler, c, "upgraded", "greeting")
  /\ clients' = clients \cup {c}
  /\ UNCHANGED <<server, conn, peer, loopVars>>

\* The first metrics are written; whether that succeeds makes no difference.
Greet(c) ==
  /\ peer[c] # "stalled" \/ conn[c] = "closed"
  /\ Moves(handler, c, "greeting", "reading")
  /\ UNCHANGED <<server, clients, conn, peer, loopVars>>

\* As if the handler did not read, and waited for the server to close the connection.
ReadFailsWhenClosed(c) ==
  /\ conn[c] = "closed"
  /\ Moves(handler, c, "reading", "leaving")
  /\ UNCHANGED <<server, clients, conn, peer, loopVars>>

\* ReadMessage returns an error.
ReadFails(c) ==
  /\ peer[c] = "gone" \/ conn[c] = "closed"
  /\ Moves(handler, c, "reading", "leaving")
  /\ UNCHANGED <<server, clients, conn, peer, loopVars>>

\* As if the handler did not take clientsMutex.
UnregisterUnlocked(c) ==
  /\ Moves(handler, c, "leaving", "done")
  /\ clients' = clients \ {c}
  /\ conn' = [conn EXCEPT ![c] = "closed"]
  /\ UNCHANGED <<server, peer, loopVars>>

\* As if the handler only closed the connection.
UnregisterForgets(c) ==
  /\ ~RLocked
  /\ Moves(handler, c, "leaving", "done")
  /\ conn' = [conn EXCEPT ![c] = "closed"]
  /\ UNCHANGED <<server, clients, peer, loopVars>>

\* The deferred function: delete under clientsMutex.Lock, then Close.
Unregister(c) ==
  /\ ~RLocked
  /\ Moves(handler, c, "leaving", "done")
  /\ clients' = clients \ {c}
  /\ conn' = [conn EXCEPT ![c] = "closed"]
  /\ UNCHANGED <<server, peer, loopVars>>

-----------------------------------------------------------------------------
(* metricsStreamer                                                         *)

StreamerTicks ==
  /\ streamer = "wait" /\ streamer' = "offer"
  /\ UNCHANGED <<server, clients, connVars, queue, broadcaster, todo, target>>

\* As if the channel had no limit.
StreamerOffersUnbounded ==
  /\ streamer = "offer" /\ streamer' = "wait"
  /\ queue <= QueueCap /\ queue' = queue + 1
  /\ UNCHANGED <<server, clients, connVars, broadcaster, todo, target>>

\* As if there were no default branch.
StreamerOffersBlocking ==
  /\ streamer = "offer" /\ streamer' = "wait"
  /\ queue < QueueCap /\ queue' = queue + 1
  /\ UNCHANGED <<server, clients, connVars, broadcaster, todo, target>>

\* A full channel drops the message.
StreamerOffers ==
  /\ streamer = "offer" /\ streamer' = "wait"
  /\ queue' = IF queue < QueueCap THEN queue + 1 ELSE queue
  /\ UNCHANGED <<server, clients, connVars, broadcaster, todo, target>>

StreamerReturns ==
  /\ streamer = "wait" /\ StopSignalled
  /\ streamer' = "done"
  /\ UNCHANGED <<server, clients, connVars, queue, broadcaster, todo, target>>

-----------------------------------------------------------------------------
(* broadcastLoop                                                           *)

\* A message is received and the walk over the clients begins, under RLock.
BroadcastReceives ==
  /\ broadcaster = "select" /\ queue > 0
  /\ broadcaster' = "walk"
  /\ queue' = queue - 1
  /\ todo' = clients
  /\ UNCHANGED <<server, clients, connVars, streamer, target>>

BroadcastWrites ==
  /\ broadcaster = "walk" /\ broadcaster' = "write"
  /\ \E c \in todo : target' = c /\ todo' = todo \ {c}
  /\ UNCHANGED <<server, clients, connVars, queue, streamer>>

BroadcastSucceeds ==
  /\ broadcaster = "write" /\ peer[target] # "stalled" /\ conn[target] = "open"
  /\ broadcaster' = "walk" /\ target' = NoConn
  /\ UNCHANGED <<server, clients, connVars, queue, streamer, todo>>

\* A failed write removes and closes the client, still under RLock.
BroadcastFails ==
  /\ broadcaster = "write" /\ (peer[target] = "gone" \/ conn[target] = "closed")
  /\ broadcaster' = "walk" /\ target' = NoConn
  /\ clients' = clients \ {target}
  /\ conn' = [conn EXCEPT ![target] = "closed"]
  /\ UNCHANGED <<server, peer, handler, queue, streamer, todo>>

BroadcastEnds ==
  /\ broadcaster = "walk" /\ todo = {}
  /\ broadcaster' = "select"
  /\ UNCHANGED <<server, clients, connVars, queue, streamer, todo, target>>

BroadcastReturns ==
  /\ broadcaster = "select" /\ StopSignalled
  /\ broadcaster' = "done"
  /\ UNCHANGED <<server, clients, connVars, queue, streamer, todo, target>>

-----------------------------------------------------------------------------
(* Start                                                                   *)

StartBroadcast ==
  /\ server = "new" /\ server' = "starting"
  /\ broadcaster' = "select"
  /\ UNCHANGED <<clients, connVars, queue, streamer, todo, target>>

\* The HTTP server listens in a goroutine of its own; that it fails to is only printed.
StartStreamer ==
  /\ server = "starting" /\ server' = "running"
  /\ streamer' = "wait"
  /\ UNCHANGED <<clients, connVars, queue, broadcaster, todo, target>>

-----------------------------------------------------------------------------
(* Stop                                                                    *)

\* isRunning = false and httpServer.Close(), which leaves the hijacked connections.
StopListening ==
  /\ server = "running" /\ server' = "closing"
  /\ UNCHANGED <<clients, connVars, loopVars>>

SignalStop ==
  /\ server = "closing" /\ server' = "joining"
  /\ UNCHANGED <<clients, connVars, loopVars>>

\* As if Stop did not wait for the loops.
JoinNobody ==
  /\ server = "joining" /\ server' = "sweeping"
  /\ UNCHANGED <<clients, connVars, loopVars>>

\* wg.Wait()
Join ==
  /\ server = "joining" /\ broadcaster = "done" /\ streamer = "done"
  /\ server' = "sweeping"
  /\ UNCHANGED <<clients, connVars, loopVars>>

\* Every registered connection is closed, under Lock.
Sweep ==
  /\ server = "sweeping" /\ ~RLocked
  /\ server' = "stopped"
  /\ conn' = [c \in Conns |-> IF c \in clients THEN "closed" ELSE conn[c]]
  /\ clients' = {}
  /\ UNCHANGED <<peer, handler, loopVars>>

-----------------------------------------------------------------------------
HandlerSteps(c) == Register(c) \/ Greet(c) \/ Unregister(c)
WriteSteps == BroadcastSucceeds \/ BroadcastFails
WalkSteps == BroadcastWrites \/ BroadcastEnds
StartSteps == StartBroadcast \/ StartStreamer
StopSteps == SignalStop \/ Join \/ Sweep

\* Nothing is left to do: every connection was used up and Stop has returned.
Finished ==
  /\ server = "stopped" /\ \A c \in Conns : handler[c] \in {"none", "done"}
  /\ UNCHANGED vars

Next == \/ \E c \in Conns : \/ Stalls(c) \/ Resumes(c) \/ Leaves(c)
                            \/ Upgrade(c) \/ HandlerSteps(c) \/ ReadFails(c)
        \/ StreamerTicks \/ StreamerOffers \/ StreamerReturns
        \/ BroadcastReceives \/ WalkSteps \/ WriteSteps \/ BroadcastReturns
        \/ StartSteps \/ StopListening \/ StopSteps \/ Finished

\* Code that can go on does.  Strong fairness where it may be held up again and again: a
\* goroutine waiting for clientsMutex.Lock gets it between two walks, since a waiting
\* Lock keeps new readers out; a write completes when its peer reads; a select takes a
\* case that stays ready.  Of the peers it is assumed that a stalled one reads again or
\* goes away in the end: the code sets no write deadline.
Fairness ==
  /\ \A c \in Conns : /\ SF_vars(HandlerSteps(c)) /\ WF_vars(ReadFails(c))
                      /\ WF_vars(peer[c] = "stalled" /\ (Resumes(c) \/ Leaves(c)))
  /\ WF_vars(StreamerOffers) /\ SF_vars(StreamerReturns)
  /\ WF_vars(WalkSteps) /\ SF_vars(WriteSteps) /\ SF_vars(BroadcastReturns)
  /\ WF_vars(StartStreamer) /\ WF_vars(StopSteps)

Safety == Init /\ [][Next]_vars
Spec == Safety /\ Fairness

-----------------------------------------------------------------------------
(* Properties *)

\* broadcastLoop writes only to clients that are registered and not closed: nobody takes
\* one away under its hands, neither its handler nor Stop.
WritesToRegistered ==
  broadcaster = "write" => target \in clients /\ conn[target] = "open"

\* Every registered client has a handler that will take it out again.
RegisteredAreHandled ==
  \A c \in clients : handler[c] \in {"greeting", "reading", "leaving"}

\* A client that is gone leaves the registry, whether its handler or a broadcast notices.
GoneClientsLeave ==
  \A c \in Conns : (peer[c] = "gone" /\ c \in clients) ~> c \notin clients

\* Stop returns: the walk under way ends, the full channel blocks nobody.
StopTerminates == server = "closing" ~> server = "stopped"

-----------------------------------------------------------------------------
(* The inductive invariant behind the safety properties.                    *)

\* A connection is open from its upgrade until it is taken out of the registry.
RegisteredAreOpen ==
  \A c \in Conns : c \in clients \/ handler[c] = "upgraded" => conn[c] = "open"

\* The broadcast visits registered clients, each once, and has none left between walks.
WalkVisitsClients ==
  /\ todo \subseteq clients
  /\ broadcaster \notin {"walk", "write"} => todo = {}
  /\ broadcaster = "write" => target \in clients \ todo

\* Stop sweeps the registry only when no broadcast can be under way.
SweepIsAlone == server \in {"sweeping", "stopped"} => broadcaster = "done"

\* The loops exist from Start on and end only in Stop.
LoopsFollowServer ==
  /\ broadcaster = "none" <=> server = "new"
  /\ streamer = "none" <=> server \in {"new", "starting"}
  /\ "done" \in {broadcaster, streamer} => StopSignalled
  /\ server \in {"sweeping", "stopped"} => streamer = "done"

HubInv == TypeOK /\ RegisteredAreHandled /\ RegisteredAreOpen
          /\ WalkVisitsClients /\ SweepIsAlone /\ LoopsFollowServer

-----------------------------------------------------------------------------
(* Refinement *)

phaseOfServer ==
  CASE server = "new" -> "ready"
    [] server \in {"starting", "running"} -> "running"
    [] server \in {"closing", "joining", "sweeping"} -> "stopping"
    [] server = "stopped" -> "stopped"

HubGoroutines == {"broadcaster", "streamer"}

liveLoops == {g \in HubGoroutines :
                IF g = "broadcaster" THEN broadcaster \notin {"none", "done"}
                                     ELSE streamer \notin {"none", "done"}}

Lifecycle == INSTANCE ServiceLifecycle
               WITH Goroutines <- HubGoroutines,
                    phase <- phaseOfServer, live <- liveLoops

\* The dashboard keeps the promise of ServiceLifecycle to the application: its loops end
\* when, and only when, Stop asks them to, and Stop returns when both are gone.
ImplementsLifecycle == Lifecycle!Spec

\* Its safety part, the part that is also proved.
ImplementsLifecycleSafety == Lifecycle!Safety
=============================================================================
