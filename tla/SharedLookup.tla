---------------------------- MODULE SharedLookup ----------------------------
(***************************************************************************)
(* The shared lookups of struct Enrichment (src/enrichment.rs): callers    *)
(* that ask for the same key join one flight, a task that outlives them.   *)
(* The task looks at the cache once more, takes a provider permit, a       *)
(* global permit and a reservation for each attempt (at most two), saves   *)
(* its report and publishes its result in one step with leaving the map.   *)
(*                                                                         *)
(* A step runs from one await of the code to the next; the map of flights  *)
(* is only touched under its mutex. Time is abstract: the deadline of a    *)
(* lookup may pass at any of its awaits (TimeOut), and the branches that   *)
(* ask for time left are choices. Permits are counters that every way out  *)
(* of an attempt must give back: its end, the deadline, cancellation, a    *)
(* panic. What a caller is told is left to the code: a property asks when  *)
(* it is answered and by which flight, and what its flight ended with.     *)
(***************************************************************************)
EXTENDS ProviderAnswers, FiniteSets

CONSTANTS
  Callers,           \* calls of `lookup`
  MaxSharedLookups,  \* config.max_shared_lookups
  MaxConcurrency,    \* the permits of each provider
  MaxOutbound        \* config.max_outbound_requests

ASSUME PermitsAssumption ==
  MaxConcurrency \in [Providers -> Nat \ {0}] /\ MaxOutbound \in Nat \ {0}
ASSUME LookupsAssumption ==
  MaxSharedLookups \in Nat \ {0}
ASSUME CallersAssumption == IsFiniteSet(Callers)

VARIABLES
  cache,      \* the reports `cache_get` would return, of the keys that have one
  flights,    \* Enrichment::flights: the flight of a key, 0 for none
  flight,     \* the task and the watch channel of every flight ever spawned
  free,       \* Provider::permits: those not taken
  outbound,   \* Enrichment::outbound: those not taken
  cancelled,  \* Enrichment::cancel
  caller      \* the calls of `lookup`

vars == <<cache, flights, flight, free, outbound, cancelled, caller>>

(* A call registers at most one flight. *)
MaxFlights == Cardinality(Callers)

Flights == 1 .. MaxFlights

(* What a flight can end with: "failed" stands for the codes of the        *)
(* provider, the quota and the storage but one.                            *)
Results == {"report", "hit", "failed", "provider_timeout", "internal_error"}

Told(code) == IF code = "provider_timeout" THEN code ELSE "failed"

(* A report by what the properties tell: for which key it was received, and *)
(* the indicator it names; None, if the provider has no report.             *)
ReportType == [asked : Keys, about : Keys \cup {None}]

(* What an attempt for key k may bring. *)
Received(k) == {[asked |-> k, about |-> about] : about \in ReportsAbout[k]}

(* Past both permits; the awaits of fetch; those of perform.               *)
Attempting == {"reserve", "send"}
Fetching == {"provider", "outbound", "backoff"} \cup Attempting
Working == {"recheck", "save"} \cup Fetching
FlightPhases == {"unborn", "done", "gone"} \cup Working

FlightType ==
  [key : Keys \cup {None}, phase : FlightPhases, attempt : 0 .. 1,
   permits : SUBSET {"provider", "outbound"},
   report : ReportType \cup {None}, \* to be saved, to be published, published
   result : Results \cup {None}, \* what the task is about to publish
   missed : BOOLEAN,             \* history: its own look at the cache missed
   sends : 0 .. 2]               \* history: attempts dispatched

(* A flight that makes no attempt, and whose attempts are forgotten.       *)
AtRest(key, phase, report, result) ==
  [key |-> key, phase |-> phase, attempt |-> 0, permits |-> {},
   report |-> report, result |-> result, missed |-> FALSE, sends |-> 0]

Unborn == AtRest(None, "unborn", None, None)

CallerType ==
  [phase : {"reading", "registering", "waiting", "answered"},
   key : Keys \cup {None}, on : 0 .. MaxFlights,
   told : ReportType \cup {None}]   \* history: the report in its answer

cached == DOMAIN cache

TypeOK ==
  /\ cached \subseteq Keys /\ \A k \in cached : cache[k] \in ReportType
  /\ flights \in [Keys -> 0 .. MaxFlights]
  /\ flight \in [Flights -> FlightType]
  /\ free \in [Providers -> Nat] /\ outbound \in Nat
  /\ cancelled \in BOOLEAN
  /\ caller \in [Callers -> CallerType]

Born == {f \in Flights : flight[f].phase # "unborn"}

Live == {f \in Born : flight[f].phase # "gone"}

KeyOf(f) == flight[f].key

ProviderOfFlight(f) == ProviderOf[KeyOf(f)]

Registered == {k \in Keys : flights[k] # 0}

-----------------------------------------------------------------------------
Init ==
  /\ \E K \in SUBSET Keys :
       /\ cache \in [K -> UNION {Received(k) : k \in K}]
       /\ \A k \in K : cache[k] \in Received(k)
  /\ flights = [k \in Keys |-> 0]
  /\ flight = [f \in Flights |-> Unborn]
  /\ free = MaxConcurrency
  /\ outbound = MaxOutbound
  /\ cancelled = FALSE
  /\ caller \in [Callers -> [phase : {"reading"}, key : Keys, on : {0},
                             told : {None}]]

(* A report expires, or is evicted for one of a key not modelled here. *)
Forget ==
  /\ \E k \in cached : cache' = [j \in cached \ {k} |-> cache[j]]
  /\ UNCHANGED <<flights, flight, free, outbound, cancelled, caller>>

(* Enrichment::cancel, or `drain` when its deadline has passed. *)
Cancel ==
  /\ ~cancelled
  /\ cancelled' = TRUE
  /\ UNCHANGED <<cache, flights, flight, free, outbound, caller>>

-----------------------------------------------------------------------------
(* lookup and subscribe *)

CallerOnly == UNCHANGED <<cache, flights, flight, free, outbound, cancelled>>

(* Of a caller that is answered without a report nothing is kept. *)
Answer(c, report) ==
  caller' = [caller EXCEPT ![c] =
    [phase |-> "answered", on |-> 0, told |-> report,
     key |-> IF report = None THEN None ELSE caller[c].key]]

ReadHit(c) ==
  /\ caller[c].phase = "reading"
  /\ caller[c].key \in cached
  /\ Answer(c, cache[caller[c].key])
  /\ CallerOnly

(* A miss, or a failed read that is taken for one. *)
ReadMiss(c) ==
  /\ caller[c].phase = "reading"
  /\ caller' = [caller EXCEPT ![c].phase = "registering"]
  /\ CallerOnly

(* Under the mutex of `flights`, in the order of the code. *)
Join(c) ==
  /\ caller[c].phase = "registering"
  /\ flights[caller[c].key] # 0
  /\ caller' = [caller EXCEPT ![c].phase = "waiting",
                              ![c].on = flights[caller[c].key]]
  /\ CallerOnly

Refuse(c) ==
  /\ caller[c].phase = "registering"
  /\ flights[caller[c].key] = 0
  /\ \/ Cardinality(Registered) >= MaxSharedLookups   \* provider_busy
     \/ cancelled                                     \* service_unavailable
  /\ Answer(c, None)
  /\ CallerOnly

(* Fault: the map is not looked at. *)
RegisterAlways(c) ==
  /\ caller[c].phase = "registering"
  /\ \E f \in Flights :
       /\ f \notin Born /\ \A g \in Flights : g < f => g \in Born
       /\ flights' = [flights EXCEPT ![caller[c].key] = f]
       /\ flight' = [flight EXCEPT ![f].key = caller[c].key,
                                   ![f].phase = "recheck"]
       /\ caller' = [caller EXCEPT ![c].phase = "waiting", ![c].on = f]
  /\ UNCHANGED <<cache, free, outbound, cancelled>>

(* Fault: the cancellation is not looked at. *)
RegisterThoughCancelled(c) ==
  /\ caller[c].phase = "registering"
  /\ flights[caller[c].key] = 0
  /\ Cardinality(Registered) < MaxSharedLookups
  /\ RegisterAlways(c)

Register(c) ==
  /\ caller[c].phase = "registering"
  /\ flights[caller[c].key] = 0
  /\ Cardinality(Registered) < MaxSharedLookups
  /\ ~cancelled
  /\ \E f \in Flights :
       /\ f \notin Born /\ \A g \in Flights : g < f => g \in Born
       /\ flights' = [flights EXCEPT ![caller[c].key] = f]
       /\ flight' = [flight EXCEPT ![f].key = caller[c].key,
                                   ![f].phase = "recheck"]
       /\ caller' = [caller EXCEPT ![c].phase = "waiting", ![c].on = f]
  /\ UNCHANGED <<cache, free, outbound, cancelled>>

Receive(c) ==
  /\ caller[c].phase = "waiting"
  /\ flight[caller[c].on].phase = "gone"
  /\ Answer(c, flight[caller[c].on].report)
  /\ CallerOnly

(* The deadline of the caller, or its connection is cut; the flight stays. *)
GiveUp(c) ==
  /\ caller[c].phase \in {"reading", "waiting"}
  /\ Answer(c, None)
  /\ CallerOnly

-----------------------------------------------------------------------------
(* The task: perform, fetch and what of send matters here. *)

Move(f, phase) == flight' = [flight EXCEPT ![f].phase = phase]

(* The work is over, with all it holds, and its result is to be published.  *)
Complete(f, result, report) ==
  flight' = [flight EXCEPT ![f] = AtRest(KeyOf(f), "done", report, result)]

Fail(f, result) == Complete(f, result, None)

(* Fault: the permits are lost with the attempt. *)
ForgetPermits(f) == UNCHANGED <<free, outbound>>

(* Drop of both permits at the end of an attempt, in whatever way. *)
GiveBack(f) ==
  /\ free' = [free EXCEPT ![ProviderOfFlight(f)] =
                @ + IF "provider" \in flight[f].permits THEN 1 ELSE 0]
  /\ outbound' = outbound + IF "outbound" \in flight[f].permits THEN 1 ELSE 0

(* cache_put on the way of a task that ends here: nothing is saved, or the  *)
(* report is, others are evicted for it, and it may itself be the oldest.  *)
MaybeSaved(f) ==
  IF flight[f].phase = "save"
    THEN \E kept \in SUBSET cached, new \in SUBSET {KeyOf(f)} :
           cache' = [k \in kept \cup new |->
                       IF k \in new THEN flight[f].report ELSE cache[k]]
    ELSE UNCHANGED cache

RecheckHit(f) ==
  /\ flight[f].phase = "recheck"
  /\ KeyOf(f) \in cached
  /\ Complete(f, "hit", cache[KeyOf(f)])
  /\ UNCHANGED <<cache, flights, free, outbound, cancelled, caller>>

(* Fault: the cache is not looked at again. *)
SkipRecheck(f) ==
  /\ flight[f].phase = "recheck"
  /\ flight' = [flight EXCEPT ![f].phase = "provider", ![f].missed = TRUE]
  /\ UNCHANGED <<cache, flights, free, outbound, cancelled, caller>>

RecheckMiss(f) ==
  /\ flight[f].phase = "recheck"
  /\ \/ /\ KeyOf(f) \notin cached
        /\ flight' = [flight EXCEPT ![f].phase = "provider", ![f].missed = TRUE]
     \/ Move(f, "provider")   \* the cache could not be read
  /\ UNCHANGED <<cache, flights, free, outbound, cancelled, caller>>

AcquireProvider(f) ==
  /\ flight[f].phase = "provider"
  /\ free[ProviderOfFlight(f)] > 0
  /\ free' = [free EXCEPT ![ProviderOfFlight(f)] = @ - 1]
  /\ flight' = [flight EXCEPT ![f].phase = "outbound",
                              ![f].permits = @ \cup {"provider"}]
  /\ UNCHANGED <<cache, flights, outbound, cancelled, caller>>

AcquireOutbound(f) ==
  /\ flight[f].phase = "outbound"
  /\ outbound > 0
  /\ outbound' = outbound - 1
  /\ flight' = [flight EXCEPT ![f].phase = "reserve",
                              ![f].permits = @ \cup {"outbound"}]
  /\ UNCHANGED <<cache, flights, free, cancelled, caller>>

(* A reservation is made, and the deadline is still ahead. *)
Dispatch(f) ==
  /\ flight[f].phase = "reserve"
  /\ flight' = [flight EXCEPT ![f].phase = "send", ![f].sends = @ + 1]
  /\ UNCHANGED <<cache, flights, free, outbound, cancelled, caller>>

ReserveFails(f) ==
  /\ flight[f].phase = "reserve"
  /\ \/ Fail(f, "failed")   \* quota_exhausted or storage_unavailable
     \/ Fail(f, "provider_timeout")   \* reserved, but too late to send
  /\ GiveBack(f)
  /\ UNCHANGED <<cache, flights, cancelled, caller>>

(* The attempt is over: of the flight, its report is kept. *)
Report(f) ==
  /\ flight[f].phase = "send"
  /\ \E report \in Received(KeyOf(f)) :
       flight' = [flight EXCEPT ![f] = AtRest(KeyOf(f), "save", report, None)]
  /\ GiveBack(f)
  /\ UNCHANGED <<cache, flights, cancelled, caller>>

(* A failure that is not to be retried, the second one, the attempt        *)
(* deadline, or too little time left for another attempt.                  *)
SendFails(f) ==
  /\ flight[f].phase = "send"
  /\ \E code \in Failures[KeyOf(f)] : Fail(f, Told(code))
  /\ GiveBack(f)
  /\ UNCHANGED <<cache, flights, cancelled, caller>>

(* Fault: as often as there is time. *)
RetryAgain(f) ==
  /\ flight[f].phase = "send"
  /\ flight' = [flight EXCEPT ![f].phase = "backoff", ![f].permits = {}]
  /\ GiveBack(f)
  /\ UNCHANGED <<cache, flights, cancelled, caller>>

(* 502, 503, 504 or a connection that could not be made or was reset, and   *)
(* time for another attempt.                                                *)
Retry(f) ==
  /\ flight[f].phase = "send"
  /\ flight[f].attempt = 0
  /\ Retryable[KeyOf(f)]
  /\ flight' = [flight EXCEPT ![f].phase = "backoff", ![f].permits = {}]
  /\ GiveBack(f)
  /\ UNCHANGED <<cache, flights, cancelled, caller>>

Wake(f) ==
  /\ flight[f].phase = "backoff"
  /\ flight' = [flight EXCEPT ![f].phase = "provider", ![f].attempt = 1]
  /\ UNCHANGED <<cache, flights, free, outbound, cancelled, caller>>

(* cache_put: the report is retained, evicted at once, or not saved.       *)
(* Whatever comes of it, and if the deadline has passed, it is the result. *)
Save(f) ==
  /\ flight[f].phase = "save"
  /\ MaybeSaved(f)
  /\ Complete(f, "report", flight[f].report)
  /\ UNCHANGED <<flights, free, outbound, cancelled, caller>>

(* Fault: a request that was sent is waited for, whatever the deadline. *)
TimeOutUnlessSent(f) ==
  /\ flight[f].phase \in Fetching \ {"send"}
  /\ Fail(f, "provider_timeout")
  /\ GiveBack(f)
  /\ UNCHANGED <<cache, flights, cancelled, caller>>

(* Fault: the save is given up with the report when the deadline passes. *)
TimeOutSave(f) ==
  /\ flight[f].phase \in Fetching \cup {"save"}
  /\ Fail(f, "provider_timeout")
  /\ GiveBack(f)
  /\ UNCHANGED <<cache, flights, cancelled, caller>>

(* timeout_at(deadline, fetch) *)
TimeOut(f) ==
  /\ flight[f].phase \in Fetching
  /\ Fail(f, "provider_timeout")
  /\ GiveBack(f)
  /\ UNCHANGED <<cache, flights, cancelled, caller>>

(* catch_unwind *)
Panic(f) ==
  /\ flight[f].phase \in Working
  /\ Fail(f, "internal_error")
  /\ GiveBack(f)
  /\ MaybeSaved(f)
  /\ UNCHANGED <<flights, cancelled, caller>>

CancelTask(f) ==
  /\ flight[f].phase \in Working
  /\ cancelled
  /\ Fail(f, "provider_timeout")
  /\ GiveBack(f)
  /\ MaybeSaved(f)
  /\ UNCHANGED <<flights, cancelled, caller>>

(* Fault: the flight is left in the map. *)
PublishOnly(f) ==
  /\ flight[f].phase = "done"
  /\ Move(f, "gone")
  /\ UNCHANGED <<cache, flights, free, outbound, cancelled, caller>>

(* send_replace and remove, under one hold of the mutex. Of a flight that   *)
(* has published only its report is kept.                                   *)
Publish(f) ==
  /\ flight[f].phase = "done"
  /\ flights' = [flights EXCEPT ![KeyOf(f)] = 0]
  /\ flight' = [flight EXCEPT ![f] = AtRest(None, "gone", flight[f].report, None)]
  /\ UNCHANGED <<cache, free, outbound, cancelled, caller>>

-----------------------------------------------------------------------------
CallerStep(c) ==
  \/ ReadHit(c) \/ ReadMiss(c) \/ Join(c) \/ Refuse(c)
  \/ Register(c) \/ Receive(c) \/ GiveUp(c)

(* What a task does by itself once it is scheduled. *)
Progress(f) ==
  \/ RecheckHit(f) \/ RecheckMiss(f) \/ AcquireProvider(f) \/ AcquireOutbound(f)
  \/ Dispatch(f) \/ ReserveFails(f) \/ Wake(f) \/ Save(f)
  \/ TimeOut(f) \/ CancelTask(f) \/ Publish(f)

(* What the provider answers, or a panic. *)
Outcome(f) == Report(f) \/ SendFails(f) \/ Retry(f) \/ Panic(f)

TaskStep(f) == Progress(f) \/ Outcome(f)

Next ==
  \/ Forget \/ Cancel
  \/ \E c \in Callers : CallerStep(c)
  \/ \E f \in Flights : TaskStep(f)

Spec == Init /\ [][Next]_vars

(* The runtime polls every task and fires every timer; a provider may      *)
(* never answer, and a caller need not give up.                            *)
Fairness ==
  /\ \A f \in Flights : WF_vars(Progress(f))
  /\ \A c \in Callers :
       WF_vars(ReadMiss(c)) /\ WF_vars(Join(c) \/ Refuse(c) \/ Register(c))
       /\ WF_vars(Receive(c))

FairSpec == Spec /\ Fairness

-----------------------------------------------------------------------------
(* Properties. *)

(* A key has at most one live flight, the one in the map, and there are no  *)
(* more of them than the service allows: the end of a flight, its removal   *)
(* and the registration of the next one never overlap (subscribe).          *)
SingleFlight ==
  /\ \A f \in Live : flights[KeyOf(f)] = f
  /\ \A k \in Registered : flights[k] \in Live
  /\ Cardinality(Live) =< MaxSharedLookups

(* No attempt is spent on a report that is in the cache, unless the cache   *)
(* could not be read: what another flight saved between the caller's look   *)
(* and the registration is found by the flight's own look (perform).        *)
FetchOnlyWhatIsMissing ==
  \A f \in Live : flight[f].phase \in Fetching /\ flight[f].missed
                    => KeyOf(f) \notin cached

(* Whoever asks for a key, of whatever flight or from the cache, is told a  *)
(* report that a provider has sent for that very key; and the report names  *)
(* the indicator, or says that there is none, whatever the provider sends.  *)
(* The latter does not hold of a URL: its report names a digest, which is   *)
(* not compared with the URL. So is every report in the cache (decode,      *)
(* perform, subscribe, lookup).                                             *)
IsOwn(k, report) ==
  /\ report.asked = k
  /\ KindOf[k] # "url" => report.about \in {k, None}

OwnReport ==
  /\ \A c \in Callers :
       caller[c].told # None => IsOwn(caller[c].key, caller[c].told)
  /\ \A k \in cached : IsOwn(k, cache[k])

(* Every permit is free or with one flight, through timeouts, cancellation  *)
(* and panics; a flight that waits to retry, saves or publishes has none;   *)
(* and no flight has a global permit while it waits for its provider, so a  *)
(* saturated provider does not keep the others from sending (fetch).        *)
Holding(permit, S) == Cardinality({f \in S : permit \in flight[f].permits})

PermitsAccounted ==
  /\ outbound + Holding("outbound", Live) = MaxOutbound
  /\ \A p \in Providers :
       free[p] + Holding("provider", {f \in Live : ProviderOfFlight(f) = p})
         = MaxConcurrency[p]
  /\ \A f \in Live :
       /\ "outbound" \in flight[f].permits => flight[f].phase \in Attempting
       /\ "provider" \in flight[f].permits =>
            flight[f].phase \in Attempting \cup {"outbound"}

(* A lookup is dispatched at most twice, and a provider never has more      *)
(* attempts under way than its concurrency, nor the service more than its   *)
(* own: what the quota allows for unobserved attempts (fetch).              *)
Sending(p) == {f \in Live : flight[f].phase = "send" /\ ProviderOfFlight(f) = p}

AttemptsBounded ==
  /\ \A p \in Providers : Cardinality(Sending(p)) =< MaxConcurrency[p]
  /\ Cardinality(UNION {Sending(p) : p \in Providers}) =< MaxOutbound
  /\ \A f \in Live : flight[f].sends =< 2

(* A report that was fully decoded is the result of its flight, whatever    *)
(* becomes of the cache write, unless the flight is cancelled or panics     *)
(* (perform, the comment at cache_put).                                     *)
ReportStep ==
  \A f \in Flights :
    flight[f].phase = "save" /\ flight'[f].phase = "done" =>
      \/ flight'[f].result = "report"
      \/ flight'[f].result = "internal_error"
      \/ cancelled /\ flight'[f].result = "provider_timeout"

KeptReport == [][ReportStep]_vars

(* A caller never joins a flight that has published, so it is never told a  *)
(* result older than its own question (subscribe, the comment at publish).  *)
NoStaleJoin ==
  [][\A c \in Callers : caller'[c].on \notin {0, caller[c].on} =>
       flight'[caller'[c].on].phase # "gone"]_vars

(* Every flight ends and makes room for another one of its key, although    *)
(* the provider may never answer.                                           *)
FlightsEnd ==
  \A f \in Flights :
    f \in Live ~> f \notin Live /\ \A k \in Keys : flights[k] # f

(* The rest of the service may take the flights for the tasks of module     *)
(* LookupTasks: there are never more than the map has places for, none is   *)
(* spawned after the cancellation, and that ends each of them (subscribe,   *)
(* cancel, the select! of the flight).                                      *)
Tracked == INSTANCE LookupTasks WITH
  Tasks <- Flights, MaxRunning <- MaxSharedLookups, running <- Live

FlightsAreLookupTasks == Tracked!Spec

(* Every call of lookup that was begun is answered even if the caller's own *)
(* deadline never passes.                                                   *)
CallersAnswered ==
  \A c \in Callers : caller[c].phase = "reading" ~> caller[c].phase = "answered"
=============================================================================
