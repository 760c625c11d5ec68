------------------------------- MODULE Server -------------------------------
(***************************************************************************)
(* The life of the process from `serve` (src/server.rs) to its end: the    *)
(* connections with their socket, admission and health permits             *)
(* (src/http.rs), the lookup tasks they leave behind, the maintenance      *)
(* task, the availability flag every storage operation sets (`bounded` of  *)
(* src/storage.rs), and the order of the shutdown.                         *)
(*                                                                         *)
(* What a lookup does is module SharedLookup's business; here it is a task *)
(* of module LookupTasks, which SharedLookup implements, that uses the     *)
(* storage and outlives its callers. A place of Clients stands for one     *)
(* connection at a time.                                                   *)
(***************************************************************************)
EXTENDS Integers, FiniteSets

CONSTANTS
  Clients,                \* places a connection may come from
  Lookups,                \* max_shared_lookups places for a lookup task
  MaxConcurrentRequests,  \* config.max_concurrent_requests
  HealthLimit             \* the 2 of HttpState::new

ASSUME LimitsAssumption ==
  MaxConcurrentRequests \in Nat \ {0} /\ HealthLimit \in Nat \ {0}
ASSUME PlacesAssumption == IsFiniteSet(Clients) /\ IsFiniteSet(Lookups)

SocketCapacity == 2 * MaxConcurrentRequests + 2

VARIABLES
  serve,        \* where `serve` is
  firstDrain,   \* the drain that is joined with connections.wait()
  grace,        \* the shutdown deadline has passed
  stopping, cancelled, stopConnections,  \* the three tokens
  conn,         \* the connections
  sockets, admission, health,            \* the permits not taken
  running,      \* the tasks of the tracker
  maintenance,
  available,    \* Storage::available
  broken,       \* SQLite fails, or does not answer in time
  observed      \* history: it worked when it was last used

shutdownVars == <<serve, firstDrain, grace, stopping, cancelled, stopConnections>>
permitVars == <<sockets, admission, health>>
storageVars == <<available, broken, observed>>
vars == <<shutdownVars, conn, permitVars, running, maintenance, storageVars>>

ConnType ==
  [phase : {"none", "headers", "checking", "body", "lookups", "writing"},
   work : {"none", "enrich", "health"},  \* what it was admitted for
   permit : BOOLEAN]                     \* its permit is not yet given back

NoConn == [phase |-> "none", work |-> "none", permit |-> FALSE]

TypeOK ==
  /\ serve \in {"accepting", "draining", "connections", "drain again",
                "maintenance", "closed"}
  /\ firstDrain \in {"waiting", "cancelled", "done"}
  /\ {grace, stopping, cancelled, stopConnections} \subseteq BOOLEAN
  /\ conn \in [Clients -> ConnType]
  /\ {sockets, admission, health} \subseteq Nat
  /\ running \subseteq Lookups
  /\ maintenance \in {"idle", "cleaning", "ended"}
  /\ {available, broken, observed} \subseteq BOOLEAN

Open == {c \in Clients : conn[c].phase # "none"}

(* The tasks of the tracker. *)
Tracker == INSTANCE LookupTasks WITH
  Tasks <- Lookups, MaxRunning <- Cardinality(Lookups)

-----------------------------------------------------------------------------
Init ==
  /\ serve = "accepting" /\ firstDrain = "waiting" /\ grace = FALSE
  /\ stopping = FALSE /\ cancelled = FALSE /\ stopConnections = FALSE
  /\ conn = [c \in Clients |-> NoConn]
  /\ sockets = SocketCapacity
  /\ admission = MaxConcurrentRequests
  /\ health = HealthLimit
  /\ running = {}
  /\ maintenance = "idle"
  /\ available = TRUE /\ broken = FALSE /\ observed = TRUE

(* The database is locked by another process, the disk is full, or well    *)
(* again.                                                                  *)
StorageChanges ==
  /\ broken' = ~broken
  /\ UNCHANGED <<shutdownVars, conn, permitVars, running, maintenance,
                 available, observed>>

(* The end of an operation in `bounded`. *)
UseStorage ==
  /\ available' = ~broken
  /\ observed' = ~broken
  /\ UNCHANGED broken

(* The deadline of the caller ends the operation, whatever the storage does. *)
UseStorageTooLate ==
  /\ available' = FALSE
  /\ observed' = ~broken
  /\ UNCHANGED broken

-----------------------------------------------------------------------------
(* Connections: serve and handle. *)

ConnOnly == UNCHANGED <<shutdownVars, running, maintenance>>

(* Fault: every connection is served. *)
AcceptAlways(c) ==
  /\ serve = "accepting"
  /\ conn[c].phase = "none"
  /\ sockets' = sockets - 1
  /\ conn' = [conn EXCEPT ![c].phase = "headers"]
  /\ ConnOnly /\ UNCHANGED <<admission, health, storageVars>>

(* A connection beyond the capacity is answered and closed at once. *)
Accept(c) ==
  /\ serve = "accepting"
  /\ conn[c].phase = "none"
  /\ sockets > 0
  /\ sockets' = sockets - 1
  /\ conn' = [conn EXCEPT ![c].phase = "headers"]
  /\ ConnOnly /\ UNCHANGED <<admission, health, storageVars>>

(* An unknown route, a wrong method or token; or enrich or health refuse.  *)
RefuseRequest(c) ==
  /\ conn[c].phase = "headers"
  /\ conn' = [conn EXCEPT ![c].phase = "writing"]
  /\ ConnOnly /\ UNCHANGED <<permitVars, storageVars>>

Probe(c) ==
  /\ conn[c].phase = "headers"
  /\ health > 0
  /\ health' = health - 1
  /\ \E p \in {"checking", "writing"} :   \* readiness, or liveness
       /\ p = "checking" => ~stopping
       /\ conn' = [conn EXCEPT ![c] = [phase |-> p, work |-> "health",
                                       permit |-> TRUE]]
  /\ ConnOnly /\ UNCHANGED <<sockets, admission, storageVars>>

Checked(c) ==
  /\ conn[c].phase = "checking"
  /\ UseStorage
  /\ conn' = [conn EXCEPT ![c].phase = "writing"]
  /\ ConnOnly /\ UNCHANGED permitVars

Admit(c) ==
  /\ conn[c].phase = "headers"
  /\ ~stopping /\ available
  /\ admission > 0
  /\ admission' = admission - 1
  /\ conn' = [conn EXCEPT ![c] = [phase |-> "body", work |-> "enrich",
                                  permit |-> TRUE]]
  /\ ConnOnly /\ UNCHANGED <<sockets, health, storageVars>>

(* enrich_admitted: the body is read and valid, or refused. *)
ReadBody(c) ==
  /\ conn[c].phase = "body"
  /\ \E p \in {"lookups", "writing"} : conn' = [conn EXCEPT ![c].phase = p]
  /\ ConnOnly /\ UNCHANGED <<permitVars, storageVars>>

(* subscribe: the look at the cache, under the deadline of the request. *)
ReadCache(c) ==
  /\ conn[c].phase = "lookups"
  /\ UseStorage \/ UseStorageTooLate
  /\ ConnOnly /\ UNCHANGED <<conn, permitVars>>

(* subscribe: a task is spawned; the tracker takes it though it is closed.  *)
Spawn(c) ==
  /\ conn[c].phase = "lookups"
  /\ \E l \in Lookups : Tracker!Spawn(l)
  /\ UNCHANGED <<shutdownVars, conn, permitVars, maintenance, storageVars>>

(* Fault: the request is over when its response is handed to hyper. *)
RespondAndRelease(c) ==
  /\ conn[c].phase = "lookups"
  /\ conn' = [conn EXCEPT ![c].phase = "writing", ![c].permit = FALSE]
  /\ admission' = admission + 1
  /\ ConnOnly /\ UNCHANGED <<sockets, health, storageVars>>

(* Every lookup has answered or the deadline has; the permit stays with    *)
(* the connection until the bytes are written (attach_permit).             *)
Respond(c) ==
  /\ conn[c].phase = "lookups"
  /\ conn' = [conn EXCEPT ![c].phase = "writing"]
  /\ ConnOnly /\ UNCHANGED <<permitVars, storageVars>>

GiveBack(c, work) == IF conn[c].permit /\ conn[c].work = work THEN 1 ELSE 0

(* Fault: only a written response gives its permit back. *)
CloseLeaking(c) ==
  /\ c \in Open
  /\ conn' = [conn EXCEPT ![c] = NoConn]
  /\ sockets' = sockets + 1
  /\ LET done == conn[c].phase = "writing"
     IN /\ admission' = admission + IF done THEN GiveBack(c, "enrich") ELSE 0
        /\ health' = health + IF done THEN GiveBack(c, "health") ELSE 0
  /\ ConnOnly /\ UNCHANGED storageVars

(* The response is flushed, the client goes away, the timer of the          *)
(* connection fires, or stop_connections is cancelled: in any phase.        *)
Close(c) ==
  /\ c \in Open
  /\ conn' = [conn EXCEPT ![c] = NoConn]
  /\ sockets' = sockets + 1
  /\ admission' = admission + GiveBack(c, "enrich")
  /\ health' = health + GiveBack(c, "health")
  /\ ConnOnly /\ UNCHANGED storageVars

-----------------------------------------------------------------------------
(* The lookup tasks and the maintenance task. *)

LookupUsesStorage(l) ==
  /\ l \in running
  /\ UseStorage \/ UseStorageTooLate
  /\ UNCHANGED <<shutdownVars, conn, permitVars, running, maintenance>>

LookupEnds(l) ==
  /\ Tracker!End(l)
  /\ UNCHANGED <<shutdownVars, conn, permitVars, maintenance, storageVars>>

(* The tick of the interval; it may be taken when stopping is also ready.   *)
StartCleanup ==
  /\ maintenance = "idle"
  /\ maintenance' = "cleaning"
  /\ UNCHANGED <<shutdownVars, conn, permitVars, running, storageVars>>

(* Fault: the outcome of the cleanup is not recorded. *)
FinishCleanupSilently ==
  /\ maintenance = "cleaning"
  /\ maintenance' = "idle"
  /\ UNCHANGED <<shutdownVars, conn, permitVars, running, storageVars>>

FinishCleanup ==
  /\ maintenance = "cleaning"
  /\ UseStorage
  /\ maintenance' = "idle"
  /\ UNCHANGED <<shutdownVars, conn, permitVars, running>>

EndMaintenance ==
  /\ maintenance = "idle"
  /\ stopping
  /\ maintenance' = "ended"
  /\ UNCHANGED <<shutdownVars, conn, permitVars, running, storageVars>>

-----------------------------------------------------------------------------
(* The shutdown of serve. *)

ServeOnly == UNCHANGED <<conn, permitVars, running, maintenance>>

(* A signal, or the listener fails: begin_shutdown, connections.close.     *)
BeginShutdown ==
  /\ serve = "accepting"
  /\ serve' = "draining"
  /\ stopping' = TRUE
  /\ ServeOnly
  /\ UNCHANGED <<firstDrain, grace, cancelled, stopConnections, storageVars>>

GracePasses ==
  /\ serve # "accepting" /\ ~grace
  /\ grace' = TRUE
  /\ ServeOnly
  /\ UNCHANGED <<serve, firstDrain, stopping, cancelled, stopConnections,
                 storageVars>>

(* drain(deadline), as it is joined with the wait for the connections.      *)
DrainCancels ==
  /\ serve = "draining" /\ firstDrain = "waiting"
  /\ grace
  /\ firstDrain' = "cancelled"
  /\ cancelled' = TRUE
  /\ ServeOnly
  /\ UNCHANGED <<serve, grace, stopping, stopConnections, storageVars>>

(* The closed tracker is empty: done, whatever is spawned later. *)
DrainEnds ==
  /\ serve = "draining" /\ firstDrain \in {"waiting", "cancelled"}
  /\ running = {}
  /\ firstDrain' = "done"
  /\ ServeOnly
  /\ UNCHANGED <<serve, grace, stopping, cancelled, stopConnections, storageVars>>

JoinEnds ==
  /\ serve = "draining"
  /\ firstDrain = "done" /\ Open = {}
  /\ serve' = "connections"
  /\ ServeOnly
  /\ UNCHANGED <<firstDrain, grace, stopping, cancelled, stopConnections,
                 storageVars>>

(* Fault: the connections are not told. *)
JoinTimesOutQuietly ==
  /\ serve = "draining" /\ grace
  /\ serve' = "connections"
  /\ cancelled' = TRUE
  /\ ServeOnly
  /\ UNCHANGED <<firstDrain, grace, stopping, stopConnections, storageVars>>

JoinTimesOut ==
  /\ serve = "draining" /\ grace
  /\ serve' = "connections"
  /\ cancelled' = TRUE
  /\ stopConnections' = TRUE
  /\ ServeOnly
  /\ UNCHANGED <<firstDrain, grace, stopping, storageVars>>

(* Fault: the lookups are drained only once. *)
SkipSecondDrain ==
  /\ serve = "connections"
  /\ Open = {}
  /\ serve' = "maintenance"
  /\ ServeOnly
  /\ UNCHANGED <<firstDrain, grace, stopping, cancelled, stopConnections,
                 storageVars>>

ConnectionsGone ==
  /\ serve = "connections"
  /\ Open = {}
  /\ serve' = "drain again"
  /\ ServeOnly
  /\ UNCHANGED <<firstDrain, grace, stopping, cancelled, stopConnections,
                 storageVars>>

SecondDrainCancels ==
  /\ serve = "drain again" /\ grace /\ ~cancelled
  /\ cancelled' = TRUE
  /\ ServeOnly
  /\ UNCHANGED <<serve, firstDrain, grace, stopping, stopConnections, storageVars>>

SecondDrainEnds ==
  /\ serve = "drain again"
  /\ running = {}
  /\ serve' = "maintenance"
  /\ ServeOnly
  /\ UNCHANGED <<firstDrain, grace, stopping, cancelled, stopConnections,
                 storageVars>>

(* The maintenance task is joined, and the storage closed. *)
CloseStorage ==
  /\ serve = "maintenance"
  /\ maintenance = "ended"
  /\ serve' = "closed"
  /\ available' = FALSE
  /\ ServeOnly
  /\ UNCHANGED <<firstDrain, grace, stopping, cancelled, stopConnections,
                 broken, observed>>

-----------------------------------------------------------------------------
Connection(c) ==
  \/ Accept(c) \/ RefuseRequest(c) \/ Probe(c) \/ Checked(c) \/ Admit(c)
  \/ ReadBody(c) \/ ReadCache(c) \/ Spawn(c) \/ Respond(c) \/ Close(c)

Lookup(l) == LookupUsesStorage(l) \/ LookupEnds(l)

Maintenance == StartCleanup \/ FinishCleanup \/ EndMaintenance

Shutdown ==
  \/ DrainCancels \/ DrainEnds \/ JoinEnds \/ JoinTimesOut \/ ConnectionsGone
  \/ SecondDrainCancels \/ SecondDrainEnds \/ CloseStorage

Next ==
  \/ StorageChanges \/ BeginShutdown \/ GracePasses
  \/ Shutdown \/ Maintenance
  \/ \E c \in Clients : Connection(c)
  \/ \E l \in Lookups : Lookup(l)

Spec == Init /\ [][Next]_vars

(* `serve` is polled and its deadline passes; a cancelled task or a stopped *)
(* connection ends. Nothing is assumed of a client or of a provider before  *)
(* that. The select! of the maintenance task takes a ready branch at        *)
(* random, so never one of two for ever; its operations are bounded.        *)
Fairness ==
  /\ WF_vars(Shutdown) /\ WF_vars(GracePasses)
  /\ \A l \in Lookups : WF_vars(cancelled /\ LookupEnds(l))
  /\ \A c \in Clients : WF_vars(stopConnections /\ Close(c))
  /\ WF_vars(StartCleanup) /\ WF_vars(FinishCleanup) /\ SF_vars(EndMaintenance)

FairSpec == Spec /\ Fairness

-----------------------------------------------------------------------------
(* Properties. *)

(* When the storage is closed no connection, lookup or cleanup can still    *)
(* use it, although a request that was admitted before the shutdown may     *)
(* spawn a lookup after the first drain has ended (serve, drain).           *)
StorageClosesLast ==
  serve \in {"maintenance", "closed"} =>
    /\ Open = {} /\ running = {}
    /\ serve = "closed" => maintenance = "ended"

(* Every permit is free or with one connection, through refusals, cut       *)
(* connections, timers and the shutdown (attach_permit, the end of the      *)
(* connection's task).                                                      *)
PermitsAccounted ==
  /\ sockets + Cardinality(Open) = SocketCapacity
  /\ admission + Cardinality({c \in Open : GiveBack(c, "enrich") = 1})
       = MaxConcurrentRequests
  /\ health + Cardinality({c \in Open : GiveBack(c, "health") = 1})
       = HealthLimit

(* No more requests than were configured are read, looked up or written at  *)
(* a time: a slow reader keeps its place until its bytes are gone           *)
(* (ConnectionContext, the permit of a request).                            *)
RequestsBounded ==
  Cardinality({c \in Open : conn[c].work = "enrich"}) =< MaxConcurrentRequests

(* Once the shutdown has begun it ends, even if no client ever goes away    *)
(* and no provider ever answers (serve).                                    *)
ShutdownEnds == serve = "draining" ~> serve = "closed"

(* A storage that works again is found to be working, without any request:  *)
(* no 503 lasts for ever (maintenance, bounded, is_healthy).                *)
AvailabilityReturns ==
  <>[](~broken /\ ~stopping) => []<>available

(* SPEC.md 2.7 gives service_unavailable for known unavailable storage: the *)
(* flag is only down if the storage had failed when it was last used        *)
(* (enrich, bounded).                                                       *)
NoFalseAlarm == serve # "closed" => (available \/ ~observed)
=============================================================================
