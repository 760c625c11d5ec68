------------------------------ MODULE Process ------------------------------
(***************************************************************************)
(* The whole process (src/main.rs): it opens the database, serves, closes  *)
(* it and ends, or is killed at any point, and is started again. It        *)
(* composes Server, the part between, with Database, whose other processes *)
(* are given the same path.                                                *)
(***************************************************************************)
EXTENDS Server, Database

CONSTANT Us

ASSUME UsAssumption == Us \in Processes

processVars == <<vars, dbVars>>

ProcessInit == Init /\ DbInit

(* `run` up to the database. *)
Start ==
  /\ Opens(Us)
  /\ UNCHANGED vars

(* The provider client or the listener cannot be made: the Storage is       *)
(* dropped, and the server was never begun.                                 *)
StartFails ==
  /\ Init
  /\ Drop(Us)
  /\ UNCHANGED vars

(* Fault: the database is closed when the shutdown begins. *)
CloseEarly ==
  \/ proc[Us] = "open" /\ Next /\ stopping' = stopping /\ UNCHANGED dbVars
  \/ /\ BeginShutdown
     /\ Step(Us, "open", "leaving") /\ Release(Us) /\ UNCHANGED <<disk, late>>
  \/ stopping /\ Next /\ UNCHANGED dbVars

(* server::serve. Its last step is Storage::close; what it should have left *)
(* running would run on.                                                    *)
Serve ==
  \/ proc[Us] = "open" /\ Next /\ serve' # "closed" /\ UNCHANGED dbVars
  \/ CloseStorage /\ ClosePool(Us)
  \/ serve = "closed" /\ Next /\ UNCHANGED dbVars

AfterServe ==
  /\ serve = "closed"
  /\ ReleaseLock(Us)
  /\ UNCHANGED vars

(* The end of `main`, or of the process at any other point. The state of    *)
(* the server goes with it.                                                 *)
End ==
  /\ Exit(Us)
  /\ serve' = "accepting" /\ firstDrain' = "waiting" /\ grace' = FALSE
  /\ stopping' = FALSE /\ cancelled' = FALSE /\ stopConnections' = FALSE
  /\ conn' = [c \in Clients |-> NoConn]
  /\ sockets' = SocketCapacity
  /\ admission' = MaxConcurrentRequests /\ health' = HealthLimit
  /\ running' = {} /\ maintenance' = "idle"
  /\ available' = TRUE /\ broken' = FALSE /\ observed' = TRUE

OtherProcess ==
  /\ \E p \in Processes \ {Us} : DbStep(p)
  /\ UNCHANGED vars

ProcessNext ==
  \/ Start \/ StartFails \/ Serve \/ AfterServe \/ End \/ OtherProcess

ProcessSpec == ProcessInit /\ [][ProcessNext]_processVars

-----------------------------------------------------------------------------
(* Properties. *)

(* The variables of both parts keep their types, and the lock and an        *)
(* abandoned creation belong to processes that can have them.               *)
ProcessTypeOK == TypeOK /\ DbTypeOK

(* Something of the server can use the database. *)
Busy == Open # {} \/ running # {} \/ maintenance = "cleaning"

(* While anything of the server can use the database, the process has its   *)
(* lock and the database is whole, so two servers never work on one quota   *)
(* ledger: through failed starts, the shutdown with the requests it leaves  *)
(* to finish, and kills (run, serve, Storage::close).                       *)
UsersHaveTheLock == Busy => lock = Us /\ disk = Created
=============================================================================
