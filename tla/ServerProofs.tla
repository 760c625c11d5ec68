---------------------------- MODULE ServerProofs ----------------------------
(***************************************************************************)
(* Proofs about Server, for every set of clients and lookups and every     *)
(* capacity: of its steps, so that Process, which takes the same steps     *)
(* between a start and an end, can rest on them.                           *)
(*                                                                         *)
(* EveryPermitAccounted and NoMoreRequests rest on ServerTyped: beside the *)
(* counts, a request has a permit from its admission to the end of its     *)
(* connection. A step of a connection is brought to the form ConnBecomes:  *)
(* one connection changes, and of each permit as much is taken or given    *)
(* back as that connection has gained or lost.                             *)
(***************************************************************************)
EXTENDS Server, FiniteSetTheorems, TLAPS

-----------------------------------------------------------------------------
(* The invariant *)

(* The permit of a request belongs to its work.                            *)
ConnShape(r) ==
  /\ r.permit <=> r.work # "none"
  /\ r.phase \in {"none", "headers"} => r.work = "none"

(* What does not concern the connections.                                  *)
RestTypes ==
  /\ serve \in {"accepting", "draining", "connections", "drain again",
                "maintenance", "closed"}
  /\ firstDrain \in {"waiting", "cancelled", "done"}
  /\ {grace, stopping, cancelled, stopConnections} \subseteq BOOLEAN
  /\ running \subseteq Lookups
  /\ maintenance \in {"idle", "cleaning", "ended"}
  /\ {available, broken, observed} \subseteq BOOLEAN

ConnInv ==
  /\ conn \in [Clients -> ConnType]
  /\ {sockets, admission, health} \subseteq Nat
  /\ \A c \in Clients : ConnShape(conn[c])
  /\ PermitsAccounted

ServerTyped == RestTypes /\ ConnInv

(* The invariant includes the types.                                       *)
LEMMA TypedParts == ServerTyped => TypeOK
BY DEF ServerTyped, RestTypes, ConnInv, TypeOK

-----------------------------------------------------------------------------
(* The connections *)

(* What a connection has of each permit.                                   *)
Socket(r) == IF r.phase # "none" THEN 1 ELSE 0

Share(r, work) == IF r.permit /\ r.work = work THEN 1 ELSE 0

(* Connection c is now r, and the permits know it.                         *)
ConnBecomes(c, r) ==
  /\ r \in ConnType /\ ConnShape(r)
  /\ conn' = [conn EXCEPT ![c] = r]
  /\ {sockets', admission', health'} \subseteq Nat
  /\ sockets' + Socket(r) = sockets + Socket(conn[c])
  /\ admission' + Share(r, "enrich") = admission + Share(conn[c], "enrich")
  /\ health' + Share(r, "health") = health + Share(conn[c], "health")

(* The free permits and those who hold one are as many as ever when x, that *)
(* had old of them and has new of them now, gave back the difference.      *)
LEMMA PermitsMoved ==
  ASSUME NEW S, IsFiniteSet(S), NEW T, NEW x,
         NEW old \in {0, 1}, NEW new \in {0, 1},
         x \in S <=> old = 1,
         new = 1 => T = S \cup {x}, new = 0 => T = S \ {x},
         NEW before \in Nat, NEW after \in Nat, NEW total \in Nat,
         before + Cardinality(S) = total,
         after + new = before + old
  PROVE  after + Cardinality(T) = total
<1>1. Cardinality(S) \in Nat
  BY FS_CardinalityType
<1>2. CASE new = 1
  <2>1. Cardinality(T) = Cardinality(S) + 1 - old
    BY <1>1, <1>2, FS_AddElement
  <2>2. QED
    BY <1>1, <1>2, <2>1
<1>3. CASE new = 0
  <2>1. Cardinality(T) = Cardinality(S) - old
    BY <1>1, <1>3, FS_RemoveElement
  <2>2. QED
    BY <1>1, <1>3, <2>1
<1>4. QED
  BY <1>2, <1>3

(* The counts of all the permits.                                          *)
LEMMA ConnBecomesInv ==
  ASSUME ConnInv, NEW c \in Clients, NEW r, ConnBecomes(c, r)
  PROVE  ConnInv'
<1> DEFINE With(work) == {d \in Open : GiveBack(d, work) = 1}
<1>1. /\ conn \in [Clients -> ConnType] /\ conn' \in [Clients -> ConnType]
      /\ conn'[c] = r /\ \A d \in Clients \ {c} : conn'[d] = conn[d]
      /\ {sockets, admission, health, sockets', admission', health'} \subseteq Nat
  BY DEF ConnInv, ConnBecomes
<1>2. \A d \in Clients : ConnShape(conn'[d])
  BY <1>1 DEF ConnInv, ConnBecomes
<1>3. /\ Open \subseteq Clients /\ IsFiniteSet(Open)
      /\ \A work : IsFiniteSet(With(work))
  BY PlacesAssumption, FS_Subset DEF Open
<1>4. SocketCapacity \in Nat /\ MaxConcurrentRequests \in Nat /\ HealthLimit \in Nat
  BY LimitsAssumption DEF SocketCapacity
<1>5. sockets' + Cardinality(Open') = SocketCapacity
  <2>1. PICK S : S = Open
    OBVIOUS
  <2>2. PICK T : T = Open'
    OBVIOUS
  <2>3. /\ c \in S <=> Socket(conn[c]) = 1
        /\ Socket(r) = 1 => T = S \cup {c}
        /\ Socket(r) = 0 => T = S \ {c}
    BY <1>1, <2>1, <2>2 DEF Open, Socket
  <2>4. Socket(r) \in {0, 1} /\ Socket(conn[c]) \in {0, 1}
    BY DEF Socket
  <2>5. sockets + Cardinality(S) = SocketCapacity /\ IsFiniteSet(S)
    BY <1>3, <2>1 DEF ConnInv, PermitsAccounted
  <2>6. sockets' + Socket(r) = sockets + Socket(conn[c])
    BY DEF ConnBecomes
  <2>7. sockets' + Cardinality(T) = SocketCapacity
    BY <1>1, <1>4, <2>3, <2>4, <2>5, <2>6, PermitsMoved
  <2>8. QED
    BY <2>2, <2>7
<1>6. ASSUME NEW work \in {"enrich", "health"}, NEW S, NEW T,
             S = With(work), T = With(work)'
      PROVE  /\ c \in S <=> Share(conn[c], work) = 1
             /\ Share(r, work) = 1 => T = S \cup {c}
             /\ Share(r, work) = 0 => T = S \ {c}
             /\ Share(r, work) \in {0, 1} /\ Share(conn[c], work) \in {0, 1}
             /\ IsFiniteSet(S)
  <2>1. \A d \in Clients : /\ d \in S <=> Share(conn[d], work) = 1
                           /\ d \in T <=> Share(conn'[d], work) = 1
    <3>1. ConnShape(NoConn) /\ \A d \in Clients : ConnShape(conn[d])
      BY DEF ConnInv, ConnShape, NoConn
    <3>2. \A d \in Clients :
            /\ Share(conn[d], work) = 1 => conn[d].phase # "none"
            /\ Share(conn'[d], work) = 1 => conn'[d].phase # "none"
      BY <1>2, <3>1 DEF Share, ConnShape
    <3>3. QED
      BY <1>6, <3>2 DEF Open, GiveBack, Share
  <2>2. S \subseteq Clients /\ T \subseteq Clients
    BY <1>6 DEF Open
  <2>3. Share(r, work) \in {0, 1} /\ Share(conn[c], work) \in {0, 1}
    BY DEF Share
  <2>4. \A d \in Clients \ {c} : d \in T <=> d \in S
    BY <1>1, <2>1
  <2>5. c \in T <=> Share(r, work) = 1
    BY <1>1, <2>1
  <2>6. IsFiniteSet(S)
    BY <1>3, <1>6
  <2>7. Share(r, work) = 1 => T = S \cup {c}
    BY <2>2, <2>4, <2>5
  <2>8. Share(r, work) = 0 => T = S \ {c}
    BY <2>2, <2>4, <2>5
  <2>9. QED
    BY <2>1, <2>3, <2>6, <2>7, <2>8
<1>7. admission' + Cardinality(With("enrich")') = MaxConcurrentRequests
  <2>1. PICK S : S = With("enrich")
    OBVIOUS
  <2>2. PICK T : T = With("enrich")'
    OBVIOUS
  <2>3. admission + Cardinality(S) = MaxConcurrentRequests
    BY <2>1 DEF ConnInv, PermitsAccounted
  <2>4. admission' + Share(r, "enrich") = admission + Share(conn[c], "enrich")
    BY DEF ConnBecomes
  <2> HIDE DEF With
  <2>5. admission' + Cardinality(T) = MaxConcurrentRequests
    BY <1>1, <1>4, <1>6, <2>1, <2>2, <2>3, <2>4, PermitsMoved
  <2>6. QED
    BY <2>2, <2>5
<1>8. health' + Cardinality(With("health")') = HealthLimit
  <2>1. PICK S : S = With("health")
    OBVIOUS
  <2>2. PICK T : T = With("health")'
    OBVIOUS
  <2>3. health + Cardinality(S) = HealthLimit
    BY <2>1 DEF ConnInv, PermitsAccounted
  <2>4. health' + Share(r, "health") = health + Share(conn[c], "health")
    BY DEF ConnBecomes
  <2> HIDE DEF With
  <2>5. health' + Cardinality(T) = HealthLimit
    BY <1>1, <1>4, <1>6, <2>1, <2>2, <2>3, <2>4, PermitsMoved
  <2>6. QED
    BY <2>2, <2>5
<1>9. QED
  BY <1>1, <1>2, <1>5, <1>7, <1>8 DEF ConnInv, PermitsAccounted

(* Each step of a connection has that form, or leaves the connections      *)
(* alone: the rest of a connection and of the storage is not told here.    *)
LEMMA ConnectionForm ==
  ASSUME ConnInv, NEW c \in Clients, Connection(c)
  PROVE  \/ UNCHANGED <<conn, permitVars>>
         \/ \E r : ConnBecomes(c, r)
<1> DEFINE k == conn[c]
<1>0. /\ k \in ConnType /\ ConnShape(k) /\ conn \in [Clients -> ConnType]
      /\ sockets \in Nat /\ admission \in Nat /\ health \in Nat
  BY DEF ConnInv
<1>1. CASE Accept(c)
  <2> DEFINE r == [k EXCEPT !.phase = "headers"]
  <2>1. r \in ConnType /\ ConnShape(r)
    BY <1>0, <1>1 DEF Accept, ConnType, ConnShape
  <2>2. /\ Socket(k) = 0 /\ Socket(r) = 1
        /\ \A work : Share(r, work) = Share(k, work)
    BY <1>0, <1>1 DEF Accept, ConnType, Socket, Share
  <2>3. /\ sockets' = sockets - 1 /\ sockets > 0 /\ conn' = [conn EXCEPT ![c] = r]
        /\ UNCHANGED <<admission, health>>
    BY <1>1 DEF Accept
  <2> HIDE DEF r
  <2>4. Share(k, "enrich") \in Nat /\ Share(k, "health") \in Nat
    BY DEF Share
  <2>5. /\ {sockets', admission', health'} \subseteq Nat
        /\ sockets' + Socket(r) = sockets + Socket(k)
        /\ admission' + Share(r, "enrich") = admission + Share(k, "enrich")
        /\ health' + Share(r, "health") = health + Share(k, "health")
    BY <1>0, <2>2, <2>3, <2>4
  <2>6. QED
    BY <2>1, <2>3, <2>5 DEF ConnBecomes
<1>2. CASE RefuseRequest(c) \/ Checked(c) \/ ReadBody(c) \/ Respond(c)
  <2>1. PICK phase \in {"lookups", "writing"} :
          conn' = [conn EXCEPT ![c] = [k EXCEPT !.phase = phase]]
    BY <1>2 DEF RefuseRequest, Checked, ReadBody, Respond
  <2> DEFINE r == [k EXCEPT !.phase = phase]
  <2>2. k.phase # "none" /\ UNCHANGED permitVars
    BY <1>2 DEF RefuseRequest, Checked, ReadBody, Respond
  <2>3. r \in ConnType /\ r.phase = phase /\ r.work = k.work /\ r.permit = k.permit
    BY <1>0 DEF ConnType
  <2>4. ConnShape(r)
    BY <1>0, <2>3 DEF ConnShape
  <2> HIDE DEF r
  <2>5. Socket(r) = Socket(k) /\ \A work : Share(r, work) = Share(k, work)
    BY <2>2, <2>3 DEF Socket, Share
  <2>6. conn' = [conn EXCEPT ![c] = r]
    BY <2>1 DEF r
  <2>7. QED
    BY <1>0, <2>2, <2>3, <2>4, <2>5, <2>6 DEF ConnBecomes, permitVars
<1>3. CASE Probe(c) \/ Admit(c)
  <2>1. PICK phase \in {"checking", "writing", "body"}, work \in {"enrich", "health"} :
          /\ conn' = [conn EXCEPT ![c] =
               [phase |-> phase, work |-> work, permit |-> TRUE]]
          /\ \/ /\ work = "health" /\ health > 0 /\ health' = health - 1
                /\ UNCHANGED <<sockets, admission>>
             \/ /\ work = "enrich" /\ admission > 0 /\ admission' = admission - 1
                /\ UNCHANGED <<sockets, health>>
    BY <1>3 DEF Probe, Admit
  <2> DEFINE r == [phase |-> phase, work |-> work, permit |-> TRUE]
  <2>2. r \in ConnType /\ ConnShape(r)
    BY DEF ConnType, ConnShape
  <2>3. k.phase = "headers" /\ ~k.permit
    BY <1>0, <1>3 DEF Probe, Admit, ConnShape
  <2>4. /\ Socket(r) = Socket(k) /\ Share(r, work) = 1
        /\ \A w : Share(k, w) = 0
        /\ \A w : w # work => Share(r, w) = 0
    BY <2>3 DEF Socket, Share
  <2>5. conn' = [conn EXCEPT ![c] = r]
    BY <2>1
  <2> HIDE DEF r
  <2>6. /\ {sockets', admission', health'} \subseteq Nat
        /\ sockets' + Socket(r) = sockets + Socket(k)
        /\ admission' + Share(r, "enrich") = admission + Share(k, "enrich")
        /\ health' + Share(r, "health") = health + Share(k, "health")
    <3>1. Socket(k) \in Nat
      BY DEF Socket
    <3>2. CASE work = "health"
      BY <1>0, <2>1, <2>4, <3>1, <3>2
    <3>3. CASE work = "enrich"
      BY <1>0, <2>1, <2>4, <3>1, <3>3
    <3>4. QED
      BY <3>2, <3>3
  <2>7. QED
    BY <2>2, <2>5, <2>6 DEF ConnBecomes
<1>4. CASE Close(c)
  <2>1. /\ conn' = [conn EXCEPT ![c] = NoConn] /\ k.phase # "none"
        /\ sockets' = sockets + 1
        /\ admission' = admission + Share(k, "enrich")
        /\ health' = health + Share(k, "health")
    BY <1>4 DEF Close, GiveBack, Share, Open
  <2>2. NoConn \in ConnType /\ ConnShape(NoConn)
    BY DEF NoConn, ConnType, ConnShape
  <2>3. /\ Socket(NoConn) = 0 /\ Socket(k) = 1
        /\ \A work : Share(NoConn, work) = 0 /\ Share(k, work) \in Nat
    BY <2>1 DEF NoConn, Socket, Share
  <2>4. /\ {sockets', admission', health'} \subseteq Nat
        /\ sockets' + Socket(NoConn) = sockets + Socket(k)
        /\ admission' + Share(NoConn, "enrich") = admission + Share(k, "enrich")
        /\ health' + Share(NoConn, "health") = health + Share(k, "health")
    BY <1>0, <2>1, <2>3
  <2>5. QED
    BY <2>1, <2>2, <2>4 DEF ConnBecomes
<1>5. CASE ReadCache(c) \/ Spawn(c)
  BY <1>5 DEF ReadCache, Spawn
<1>6. QED
  BY <1>1, <1>2, <1>3, <1>4, <1>5 DEF Connection

-----------------------------------------------------------------------------
(* The rest *)

(* An operation of the storage leaves the flags flags.                     *)
LEMMA StorageTypes ==
  ASSUME broken \in BOOLEAN, UseStorage \/ UseStorageTooLate
  PROVE  {available', broken', observed'} \subseteq BOOLEAN
BY DEF UseStorage, UseStorageTooLate

(* A connection's step keeps the types of all that is not a connection's.  *)
LEMMA ConnectionKeepsRest ==
  ASSUME RestTypes, NEW c \in Clients, Connection(c)
  PROVE  RestTypes'
<1>1. UNCHANGED <<shutdownVars, maintenance>> /\ running' \subseteq Lookups
  BY DEF Connection, Accept, RefuseRequest, Probe, Checked, Admit, ReadBody,
         ReadCache, Spawn, Tracker!Spawn, Respond, Close, ConnOnly, RestTypes
<1>2. UNCHANGED storageVars \/ UseStorage \/ UseStorageTooLate
  BY DEF Connection, Accept, RefuseRequest, Probe, Checked, Admit, ReadBody,
         ReadCache, Spawn, Respond, Close
<1>3. {available', broken', observed'} \subseteq BOOLEAN
  BY <1>2, StorageTypes DEF storageVars, RestTypes
<1>4. QED
  BY <1>1, <1>3 DEF RestTypes, shutdownVars

(* The tasks and the shutdown do not touch a connection or its permits.    *)
LEMMA OthersKeepRest ==
  ASSUME RestTypes,
         \/ StorageChanges \/ BeginShutdown \/ GracePasses \/ Shutdown
         \/ Maintenance \/ \E l \in Lookups : Lookup(l)
  PROVE  RestTypes' /\ UNCHANGED <<conn, permitVars>>
<1>1. CASE StorageChanges
  BY <1>1 DEF StorageChanges, RestTypes, shutdownVars
<1>2. CASE BeginShutdown \/ GracePasses
  BY <1>2 DEF BeginShutdown, GracePasses, ServeOnly, RestTypes, storageVars
<1>3. CASE DrainCancels \/ DrainEnds \/ JoinEnds \/ JoinTimesOut
  BY <1>3 DEF DrainCancels, DrainEnds, JoinEnds, JoinTimesOut, ServeOnly,
              RestTypes, storageVars
<1>4. CASE ConnectionsGone \/ SecondDrainCancels \/ SecondDrainEnds \/ CloseStorage
  BY <1>4 DEF ConnectionsGone, SecondDrainCancels, SecondDrainEnds, CloseStorage,
              ServeOnly, RestTypes, storageVars
<1>5. CASE Maintenance
  <2>1. /\ UNCHANGED <<shutdownVars, conn, permitVars, running>>
        /\ maintenance' \in {"idle", "cleaning", "ended"}
        /\ UNCHANGED storageVars \/ UseStorage
    BY <1>5 DEF Maintenance, StartCleanup, FinishCleanup, EndMaintenance
  <2>2. {available', broken', observed'} \subseteq BOOLEAN
    BY <2>1, StorageTypes DEF storageVars, RestTypes
  <2>3. QED
    BY <2>1, <2>2 DEF RestTypes, shutdownVars
<1>6. ASSUME NEW l \in Lookups, Lookup(l)
      PROVE  RestTypes' /\ UNCHANGED <<conn, permitVars>>
  <2>1. /\ UNCHANGED <<shutdownVars, conn, permitVars, maintenance>>
        /\ running' \subseteq running
        /\ UNCHANGED storageVars \/ UseStorage \/ UseStorageTooLate
    BY <1>6 DEF Lookup, LookupUsesStorage, LookupEnds, Tracker!End
  <2>2. {available', broken', observed'} \subseteq BOOLEAN
    BY <2>1, StorageTypes DEF storageVars, RestTypes
  <2>3. QED
    BY <2>1, <2>2 DEF RestTypes, shutdownVars
<1>7. QED
  BY <1>1, <1>2, <1>3, <1>4, <1>5, <1>6 DEF Shutdown

(* A step that leaves connections and permits alone keeps what relates     *)
(* them.                                                                   *)
LEMMA SameConnections ==
  ASSUME ConnInv, UNCHANGED <<conn, permitVars>>
  PROVE  ConnInv'
BY DEF ConnInv, permitVars, PermitsAccounted, Open, GiveBack

(* Every step of the server keeps the invariant.                           *)
LEMMA NextKeepsTyped ==
  ASSUME ServerTyped, [Next]_vars
  PROVE  ServerTyped'
<1>1. ASSUME NEW c \in Clients, Connection(c)
      PROVE  ServerTyped'
  BY <1>1, ConnectionKeepsRest, ConnectionForm, ConnBecomesInv, SameConnections
  DEF ServerTyped
<1>2. CASE \/ StorageChanges \/ BeginShutdown \/ GracePasses \/ Shutdown
           \/ Maintenance \/ \E l \in Lookups : Lookup(l)
  BY <1>2, OthersKeepRest, SameConnections DEF ServerTyped
<1>3. CASE UNCHANGED vars
  BY <1>3, SameConnections
  DEF vars, shutdownVars, storageVars, ServerTyped, RestTypes
<1>4. QED
  BY <1>1, <1>2, <1>3 DEF Next

(* So it begins, and so it is after every end of the process.              *)
LEMMA BeginsTyped ==
  ASSUME Init
  PROVE  ServerTyped
<1>1. Open = {}
  BY DEF Init, Open, NoConn
<1>2. RestTypes
  BY DEF Init, RestTypes
<1>3. SocketCapacity \in Nat /\ MaxConcurrentRequests \in Nat /\ HealthLimit \in Nat
  BY LimitsAssumption DEF SocketCapacity
<1>4. PermitsAccounted
  <2>1. \A work : {c \in Open : GiveBack(c, work) = 1} = {}
    BY <1>1
  <2>2. sockets = SocketCapacity /\ admission = MaxConcurrentRequests
        /\ health = HealthLimit
    BY DEF Init
  <2>3. QED
    BY <1>1, <1>3, <2>1, <2>2, FS_EmptySet DEF PermitsAccounted
<1>5. ConnInv
  <2>1. NoConn \in ConnType /\ ConnShape(NoConn)
    BY DEF NoConn, ConnType, ConnShape
  <2>2. QED
    BY <1>3, <1>4, <2>1 DEF Init, ConnInv
<1>6. QED
  BY <1>2, <1>5 DEF ServerTyped

(* No request without its permit, and no more permits than configured.     *)
LEMMA TypedBounds == ServerTyped => RequestsBounded
<1> SUFFICES ASSUME ServerTyped PROVE RequestsBounded
  OBVIOUS
<1> DEFINE R == {c \in Open : conn[c].work = "enrich"}
           H == {c \in Open : GiveBack(c, "enrich") = 1}
<1>1. R = H
  BY DEF ServerTyped, ConnInv, ConnShape, GiveBack, Open
<1>2. IsFiniteSet(H)
  BY PlacesAssumption, FS_Subset DEF Open
<1>3. admission \in Nat /\ admission + Cardinality(H) = MaxConcurrentRequests
  BY DEF ServerTyped, ConnInv, PermitsAccounted
<1> HIDE DEF H, R
<1>4. Cardinality(H) =< MaxConcurrentRequests
  BY <1>2, <1>3, FS_CardinalityType
<1>5. QED
  BY <1>1, <1>4 DEF RequestsBounded, R

(* So it holds throughout.                                                 *)
LEMMA TypedHolds == Spec => []ServerTyped
  BY BeginsTyped, NextKeepsTyped, PTL DEF Spec

(* Every permit is free or with one connection, through refusals, cut      *)
(* connections, timers and the shutdown (attach_permit, ConnectionContext).*)
THEOREM EveryPermitAccounted == Spec => []PermitsAccounted
<1>1. ServerTyped => PermitsAccounted
  BY DEF ServerTyped, ConnInv
<1>2. QED
  BY <1>1, TypedHolds, PTL

(* No more requests than were configured are read, looked up or written at *)
(* a time, for a request has its permit until its bytes are gone (enrich,  *)
(* attach_permit).                                                         *)
THEOREM NoMoreRequests == Spec => []RequestsBounded
  BY TypedHolds, TypedBounds, PTL
=============================================================================
