---------------------------- MODULE ReportCache ----------------------------
(***************************************************************************)
(* The report cache of struct Storage (src/storage.rs): cache_get,         *)
(* cache_put, cleanup and what `initialize` does to the table              *)
(* cache_entries. The gate makes an operation one step, from its reading   *)
(* of the clock to its commit. An operation that is dropped on the way has *)
(* at most raised the mark (Observe), or has committed and is not told.    *)
(*                                                                         *)
(* The payload of a report is its serial number, its kind and status are   *)
(* the class that decides on its time to live, and a key is a pair of      *)
(* provider and cache_key, in their order.                                 *)
(***************************************************************************)
EXTENDS Integers, FiniteSets, FiniteSetsExt

CONSTANTS
  Keys,      \* a set of numbers, for their order
  Classes,   \* what Storage::ttl tells apart
  Sizes,     \* payload_bytes
  Configs,   \* what the process may be configured with
  Chunk,     \* CLEANUP_CHUNK
  MaxTime,   \* bound: the wall clock stops here
  MaxReports,  \* bound: reports decoded
  None

ConfigType == [ttl : [Classes -> Nat], entries : Nat, bytes : Nat]

ASSUME KeysAssumption == Keys \subseteq Nat /\ IsFiniteSet(Keys)
ASSUME ConfigsAssumption == Configs # {} /\ Configs \subseteq ConfigType
ASSUME SizesAssumption == Sizes \subseteq Nat /\ Chunk \in Nat \ {0}
ASSUME BoundsAssumption == MaxTime \in Nat /\ MaxReports \in Nat
ASSUME NoneAssumption == None \notin [id : Nat, until : Nat]

VARIABLES
  wall,         \* Clock::now, in ticks; it may be set back
  rows,         \* durable: the table cache_entries
  durableMark,  \* durable: storage_metadata
  mark,         \* RuntimeState::high_water
  config,       \* time to live and limits of this process
  hand,         \* the report a flight has decoded for a key, not yet put
  told,         \* what a cache_put that ends in this step answers
  reports,      \* history: how many reports there were
  dead          \* history: reports found to have expired by a cache_get

vars == <<wall, rows, durableMark, mark, config, hand, told, reports, dead>>

Clock == 0 .. MaxTime
Ids == 1 .. MaxReports

ReportType == [key : Keys, id : Ids, class : Classes, fetched : Clock, bytes : Sizes]

RowType == [key : Keys, id : Ids, class : Classes, fetched : Clock,
            bytes : Sizes, expires : Nat]

TypeOK ==
  /\ wall \in Clock /\ durableMark \in Clock /\ mark \in Clock
  /\ rows \subseteq RowType
  /\ \A r, s \in rows : r.key = s.key => r = s   \* PRIMARY KEY
  /\ config \in Configs
  /\ \A k \in Keys : hand[k] = None \/ (hand[k] \in ReportType /\ hand[k].key = k)
  /\ told = None \/ told \in [id : Ids, until : Nat]
  /\ reports \in 0 .. MaxReports
  /\ dead \subseteq Ids

-----------------------------------------------------------------------------
(* Pure parts, over a set S of rows and a configuration cfg.               *)

Later(a, b) == IF a >= b THEN a ELSE b

(* effective_expiry: a shorter time to live counts for saved rows as well. *)
Expiry(r, cfg) ==
  LET own == r.fetched + cfg.ttl[r.class]
  IN IF r.expires =< own THEN r.expires ELSE own

Bytes(S) == MapThenSumSet(LAMBDA r : r.bytes, S)

Within(S, cfg) == Cardinality(S) =< cfg.entries /\ Bytes(S) =< cfg.bytes

(* ORDER BY fetched_at, cache_key, provider *)
Older(r, s) == r.fetched < s.fetched \/ (r.fetched = s.fetched /\ r.key < s.key)

Oldest(S, n) == {r \in S : Cardinality({s \in S : Older(s, r)}) < n}

(* How many rows a round of the loop removes: as few of the chunk as bring  *)
(* the rest within the limits, or the chunk.                                *)
Round(S, cfg) ==
  LET most == IF Cardinality(S) < Chunk THEN Cardinality(S) ELSE Chunk
      enough == {n \in 0 .. most : Within(S \ Oldest(S, n), cfg)}
  IN IF enough = {} THEN most ELSE CHOOSE n \in enough : \A m \in enough : n =< m

Evict(S, cfg) ==
  LET after[n \in Nat] ==
        IF n = 0 THEN S
        ELSE IF Within(after[n - 1], cfg) THEN after[n - 1]
        ELSE after[n - 1] \ Oldest(after[n - 1], Round(after[n - 1], cfg))
  IN after[Cardinality(S)]

(* The WHERE of delete_expired. *)
Expired(S, now, cfg) ==
  {r \in S : \/ r.expires =< now
             \/ r.fetched > wall
             \/ r.fetched =< now - cfg.ttl[r.class]}

(* ORDER BY expires_at, cache_key, provider LIMIT CLEANUP_CHUNK *)
DeleteExpired(S, now, cfg) ==
  LET gone == Expired(S, now, cfg)
      Sooner(r, s) == \/ r.expires < s.expires
                      \/ r.expires = s.expires /\ r.key < s.key
  IN S \ {r \in gone : Cardinality({s \in gone : Sooner(s, r)}) < Chunk}

RowOf(k) == {r \in rows : r.key = k}

-----------------------------------------------------------------------------
Init ==
  /\ wall \in Clock
  /\ rows = {}
  /\ durableMark = wall /\ mark = wall
  /\ config \in Configs
  /\ hand = [k \in Keys |-> None]
  /\ told = None
  /\ reports = 0
  /\ dead = {}

Tick ==
  /\ wall < MaxTime
  /\ wall' = wall + 1
  /\ told' = None
  /\ UNCHANGED <<rows, durableMark, mark, config, hand, reports, dead>>

(* The clock of the machine is set back. *)
Rollback ==
  /\ \E w \in Clock : w < wall /\ wall' = w
  /\ told' = None
  /\ UNCHANGED <<rows, durableMark, mark, config, hand, reports, dead>>

(* An operation under the gate that finds nothing, fails or is dropped. *)
Observe ==
  /\ mark' = Later(mark, wall)
  /\ told' = None
  /\ UNCHANGED <<wall, rows, durableMark, config, hand, reports, dead>>

(* A reservation or feedback commits: only they save the mark. *)
QuotaCommit ==
  /\ mark' = Later(mark, wall)
  /\ durableMark' = Later(durableMark, mark')
  /\ told' = None
  /\ UNCHANGED <<wall, rows, config, hand, reports, dead>>

(* Fault: tighter limits wait for the next cache_put. *)
RestartWithoutEviction ==
  /\ config' \in Configs
  /\ mark' = Later(durableMark, wall)
  /\ rows' = rows \ Expired(rows, mark', config')
  /\ hand' = [k \in Keys |-> None]
  /\ told' = None
  /\ UNCHANGED <<wall, durableMark, reports, dead>>

(* The process stops and opens the database again, perhaps with another     *)
(* configuration: all that has expired is deleted, then the limits hold.    *)
Restart ==
  /\ config' \in Configs
  /\ mark' = Later(durableMark, wall)
  /\ rows' = Evict(rows \ Expired(rows, mark', config'), config')
  /\ hand' = [k \in Keys |-> None]
  /\ told' = None
  /\ UNCHANGED <<wall, durableMark, reports, dead>>

(* send has decoded a report: fetched_at is read from the clock. *)
Decode(k) ==
  /\ hand[k] = None
  /\ reports < MaxReports
  /\ reports' = reports + 1
  /\ \E c \in Classes, b \in Sizes :
       hand' = [hand EXCEPT ![k] = [key |-> k, id |-> reports', class |-> c,
                                    fetched |-> wall, bytes |-> b]]
  /\ told' = None
  /\ UNCHANGED <<wall, rows, durableMark, mark, config, dead>>

-----------------------------------------------------------------------------
(* cache_get *)

(* The row that cache_get finds is one it may return. *)
Servable(r, now) ==
  /\ config.ttl[r.class] > 0
  /\ now < Expiry(r, config)
  /\ r.fetched =< wall

(* Fault: the row is left to the next cleanup. *)
MissOnly(k) ==
  /\ mark' = Later(mark, wall)
  /\ \E r \in RowOf(k) :
       /\ config.ttl[r.class] > 0 /\ mark' >= Expiry(r, config)
       /\ dead' = dead \cup {r.id}
  /\ told' = None
  /\ UNCHANGED <<wall, rows, durableMark, config, hand, reports>>

(* A miss because the report has expired, which is made durable: the row is *)
(* deleted before the caller knows. A time to live of 0 is a miss that      *)
(* looks no further. A hit, and any other miss, is Observe.                 *)
MissExpired(k) ==
  /\ mark' = Later(mark, wall)
  /\ \E r \in RowOf(k) :
       /\ config.ttl[r.class] > 0 /\ mark' >= Expiry(r, config)
       /\ rows' = rows \ {r}
       /\ dead' = dead \cup {r.id}
  /\ told' = None
  /\ UNCHANGED <<wall, durableMark, config, hand, reports>>

-----------------------------------------------------------------------------
(* cache_put *)

Saved(r) == [key |-> r.key, id |-> r.id, class |-> r.class, fetched |-> r.fetched,
             bytes |-> r.bytes, expires |-> r.fetched + config.ttl[r.class]]

(* Not to be cached, or not saved in time: before or after the clock is    *)
(* read.                                                                   *)
Discard(k) ==
  /\ hand[k] # None
  /\ hand' = [hand EXCEPT ![k] = None]
  /\ told' = None
  /\ mark' \in {mark, Later(mark, wall)}
  /\ UNCHANGED <<wall, rows, durableMark, config, reports, dead>>

(* Fault: the expiry is told without a look at what the eviction has left. *)
TellAlways(k, r) == told' = [id |-> r.id, until |-> Saved(r).expires]

(* The answer: the expiry if the row is retained - which the count by key   *)
(* tells, for the row that was just written. A caller whose deadline has    *)
(* passed by then is told nothing.                                          *)
Tell(k, r) ==
  \/ told' = IF \E s \in rows' : s.key = k
               THEN [id |-> r.id, until |-> Saved(r).expires] ELSE None
  \/ told' = None

(* Fault: an INSERT where the code has INSERT OR REPLACE. *)
PutBeside(k) ==
  /\ hand[k] # None
  /\ mark' = Later(mark, wall)
  /\ LET r == hand[k]
     IN /\ config.ttl[r.class] > 0 /\ r.bytes =< config.bytes
        /\ r.fetched =< wall /\ mark' < Saved(r).expires
        /\ rows' = Evict(DeleteExpired(rows, mark', config) \cup {Saved(r)}, config)
        /\ Tell(k, r)
  /\ hand' = [hand EXCEPT ![k] = None]
  /\ UNCHANGED <<wall, durableMark, config, reports, dead>>

(* Fault: room is made before the row of the key is replaced. *)
PutMakesRoomFirst(k) ==
  /\ hand[k] # None
  /\ mark' = Later(mark, wall)
  /\ LET r == hand[k]
         room == [config EXCEPT !.entries = @ - 1, !.bytes = @ - r.bytes]
     IN /\ config.ttl[r.class] > 0 /\ r.bytes =< config.bytes
        /\ r.fetched =< wall /\ mark' < Saved(r).expires
        /\ rows' = (Evict(DeleteExpired(rows, mark', config), room) \ RowOf(k))
                     \cup {Saved(r)}
        /\ Tell(k, r)
  /\ hand' = [hand EXCEPT ![k] = None]
  /\ UNCHANGED <<wall, durableMark, config, reports, dead>>

Put(k) ==
  /\ hand[k] # None
  /\ mark' = Later(mark, wall)
  /\ LET r == hand[k]
     IN /\ config.ttl[r.class] > 0 /\ r.bytes =< config.bytes
        /\ r.fetched =< wall /\ mark' < Saved(r).expires
        /\ rows' = Evict((DeleteExpired(rows, mark', config) \ RowOf(k))
                           \cup {Saved(r)}, config)
        /\ Tell(k, r)
  /\ hand' = [hand EXCEPT ![k] = None]
  /\ UNCHANGED <<wall, durableMark, config, reports, dead>>

(* cleanup, every 60 seconds *)
Cleanup ==
  /\ mark' = Later(mark, wall)
  /\ rows' = DeleteExpired(rows, mark', config)
  /\ told' = None
  /\ UNCHANGED <<wall, durableMark, config, hand, reports, dead>>

-----------------------------------------------------------------------------
Next ==
  \/ Tick \/ Rollback \/ Observe \/ QuotaCommit \/ Restart \/ Cleanup
  \/ \E k \in Keys : Decode(k) \/ MissExpired(k) \/ Discard(k) \/ Put(k)

Spec == Init /\ [][Next]_vars

-----------------------------------------------------------------------------
(* Properties. *)

(* The table never holds more rows or bytes than this process allows, also  *)
(* after a restart with tighter limits (evict in cache_put, initialize).    *)
CacheBounded == Within(rows, config)

(* A report that a caller has once been refused because it had expired is   *)
(* never served again: not after a restart that has lost the clock's mark,  *)
(* a clock set back or a longer time to live (cache_get, the comment at its *)
(* DELETE).                                                                 *)
NoResurrection ==
  \A r \in rows : r.id \in dead => ~Servable(r, Later(mark, wall))

(* A row that cache_get would still return, with the clock, the mark and    *)
(* the configuration after the step, is only lost because a newer report of *)
(* its key replaces it, or because with the rows younger than itself it     *)
(* exceeds the limits; and never while an older one is kept                 *)
(* (delete_expired, evict, initialize).                                     *)
Alive(r) ==
  /\ config'.ttl[r.class] > 0
  /\ mark' < Expiry(r, config')
  /\ r.fetched =< wall'

LostInOrder(before) ==
  \A r \in before \ rows' : Alive(r) =>
    /\ ~Within({s \in before : s = r \/ Older(r, s)}, config')
    /\ \A s \in rows' : Older(r, s)

Putting(k) == hand[k] # None /\ hand'[k] = None /\ Put(k)

EvictionStep ==
  /\ \A k \in Keys :
       Putting(k) => LostInOrder((rows \ RowOf(k)) \cup {Saved(hand[k])})
  /\ rows' # rows => LostInOrder(rows) \/ \E k \in Keys : Putting(k)

NothingLostEarly == [][EvictionStep]_vars

(* An expiry that is told belongs to a report that is in the table and will *)
(* be returned at once (cache_put, `retained`).                             *)
ToldIsServable ==
  [][told' # None =>
       \E r \in rows' : r.id = told'.id /\ told'.until = Expiry(r, config)
                        /\ Servable(r, mark')]_vars
=============================================================================
