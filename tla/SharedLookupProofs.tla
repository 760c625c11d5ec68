------------------------- MODULE SharedLookupProofs -------------------------
(***************************************************************************)
(* Proofs about SharedLookup, for every set of callers, keys and providers *)
(* and every number of permits and places.                                 *)
(***************************************************************************)
EXTENDS SharedLookup, FiniteSetTheorems, TLAPS

-----------------------------------------------------------------------------
(* What a provider's answer may be about *)

(* Only a report is about something.                                       *)
LEMMA BodyFacts ==
  /\ \A b \in Bodies \cup {NoBody} : b.about \in Keys \cup {None}
  /\ \A b \in Bodies : b.form # "report" => b.about = None
<1>1. ASSUME NEW b \in [form : {"malformed", "NotFoundError", "other error"},
                       about : {None}, fields : {"sound"}]
      PROVE  b.about = None
  OBVIOUS
<1>2. ASSUME NEW b \in [form : {"report"}, about : Keys \cup {None},
                       fields : {"sound", "invalid", "long"}]
      PROVE  b.about \in Keys \cup {None} /\ b.form = "report"
  OBVIOUS
<1>3. NoBody.about = None
  BY DEF NoBody
<1>4. QED
  BY <1>1, <1>2, <1>3 DEF Bodies

(* Of an address or a hash, whatever is answered: only a report that names *)
(* it passes for one, or there is none.                                    *)
LEMMA ReportsAreOwn ==
  ASSUME NEW k \in Keys, KindOf[k] # "url"
  PROVE  ReportsAbout[k] \subseteq {k, None}
<1> SUFFICES ASSUME NEW a \in Answers, Attempt(k, a).result \in Reports
             PROVE  a.body.about \in {k, None}
  BY DEF ReportsAbout
<1>1. CASE a.end = "whole"
  <2>1. Decode(k, a.status, a.body) \in Reports
    BY <1>1 DEF Attempt
  <2>2. CASE a.status \in 200 .. 299
    <3>1. Decode(k, a.status, a.body) = DecodeReport(k, a.body)
      BY <2>2 DEF Decode
    <3>2. QED
      BY <2>1, <3>1 DEF DecodeReport, NamesTheIndicator, Reports
  <2>3. CASE a.status \notin 200 .. 299
    <3>1. a.body.form = "NotFoundError"
      BY <2>1, <2>3 DEF Decode, Reports
    <3>2. a.body \in Bodies
      BY <1>1 DEF Answers
    <3>3. QED
      BY <3>1, <3>2, BodyFacts
  <2>4. QED
    BY <2>2, <2>3
<1>2. CASE a.end # "whole"
  <2>1. a.end \in {"tls", "timeout", "connect", "reset", "network", "broken",
                   "oversized"}
    BY <1>2 DEF Answers
  <2>2. QED
    BY <1>2, <2>1 DEF Attempt, Reports
<1>3. QED
  BY <1>1, <1>2

-----------------------------------------------------------------------------
(* The record of a flight *)

(* The permits that belong to a phase, and the attempts dispatched by then.*)
Needed(phase) ==
  IF phase \in Attempting THEN {"provider", "outbound"}
  ELSE IF phase = "outbound" THEN {"provider"}
  ELSE {}

Shape(r) ==
  /\ r.phase = "unborn" => r = Unborn
  /\ r.phase \notin {"unborn", "gone"} => r.key \in Keys
  /\ r.permits = Needed(r.phase)
  /\ r.phase = "backoff" => r.attempt = 0
  /\ r.sends = IF r.phase \in {"send", "backoff"} THEN r.attempt + 1
               ELSE IF r.phase \in Fetching THEN r.attempt
               ELSE 0
  /\ r.phase = "recheck" => r.attempt = 0 /\ ~r.missed
  /\ r.phase \notin {"unborn", "gone"} => r.report \in Received(r.key) \cup {None}
  /\ r.phase = "save" => r.report \in Received(r.key)

(* What the cache has was received for the key it is under.                *)
CacheIsOwn == \A k \in cached : cache[k] \in Received(k)

Fetched(r) == r.phase \in Fetching /\ r.missed

Has(r, permit) == IF permit \in r.permits THEN 1 ELSE 0

(* A step of task f, seen from the rest: its flight goes on under its key, *)
(* or leaves the map; permits are taken or given back by it; what is       *)
(* new in the cache it has fetched itself.                                 *)
Becomes(f, r) ==
  /\ f \in Live
  /\ r \in FlightType /\ Shape(r)
  /\ flight' = [flight EXCEPT ![f] = r]
  /\ \/ /\ r.phase = "gone"
        /\ flight[f].phase = "done"
        /\ r.report = flight[f].report
        /\ flights' = [flights EXCEPT ![KeyOf(f)] = 0]
     \/ /\ r.phase \notin {"unborn", "gone"} /\ r.key = KeyOf(f)
        /\ flights' = flights
  /\ outbound' \in Nat
  /\ outbound' + Has(r, "outbound") = outbound + Has(flight[f], "outbound")
  /\ free' \in [Providers -> Nat]
  /\ \A p \in Providers \ {ProviderOfFlight(f)} : free'[p] = free[p]
  /\ free'[ProviderOfFlight(f)] + Has(r, "provider")
       = free[ProviderOfFlight(f)] + Has(flight[f], "provider")
  /\ cached' \subseteq cached \cup IF flight[f].phase = "save" THEN {KeyOf(f)} ELSE {}
  /\ CacheIsOwn'
  /\ Fetched(r) => Fetched(flight[f]) \/ KeyOf(f) \notin cached'
  /\ UNCHANGED <<cancelled, caller>>

(* What is received for a key is a report.                                 *)
LEMMA ReceivedType == \A k \in Keys : Received(k) \subseteq ReportType
<1>1. \A a \in Answers : a.body \in Bodies \cup {NoBody}
  BY DEF Answers
<1>2. \A k \in Keys : ReportsAbout[k] \subseteq Keys \cup {None}
  BY <1>1, BodyFacts DEF ReportsAbout
<1>3. ASSUME NEW k \in Keys, NEW about \in ReportsAbout[k]
      PROVE  [asked |-> k, about |-> about] \in ReportType
  BY <1>2 DEF ReportType
<1>4. QED
  BY <1>3 DEF Received

-----------------------------------------------------------------------------
(* The inductive invariant *)

CallerShape == \A c \in Callers :
  /\ caller[c].phase # "answered" => caller[c].key \in Keys /\ caller[c].told = None
  /\ caller[c].told # None =>
       caller[c].key \in Keys /\ caller[c].told \in Received(caller[c].key)

(* A caller waits for a flight of its own key; of one that has published    *)
(* the key is forgotten, but not for which it has received its report.      *)
Serves(f, k) ==
  /\ f \in Born
  /\ f \in Live => KeyOf(f) = k
  /\ f \notin Live => flight[f].report \in Received(k) \cup {None}

OnItsFlight == \A c \in Callers :
  caller[c].phase = "waiting" => Serves(caller[c].on, caller[c].key)

(* The map names a flight under no key but its own.                        *)
MapIsExact == \A k \in Registered : KeyOf(flights[k]) = k

Inv ==
  /\ TypeOK
  /\ \A f \in Flights : Shape(flight[f])
  /\ CacheIsOwn
  /\ CallerShape
  /\ OnItsFlight
  /\ SingleFlight
  /\ MapIsExact
  /\ PermitsAccounted
  /\ FetchOnlyWhatIsMissing

(* Of a flight at rest only the key and the report matter.                 *)
LEMMA AtRestFacts ==
  ASSUME NEW k \in Keys \cup {None}, NEW phase \in {"recheck", "gone", "done", "save"},
         NEW report \in ReportType \cup {None}, NEW result \in Results \cup {None},
         phase # "gone" => k \in Keys /\ report \in Received(k) \cup {None},
         phase = "save" => report \in Received(k)
  PROVE  LET r == AtRest(k, phase, report, result)
         IN  /\ r \in FlightType /\ Shape(r) /\ ~Fetched(r)
             /\ r.key = k /\ r.phase = phase /\ r.permits = {}
             /\ r.report = report
BY DEF AtRest, FlightType, FlightPhases, Working, Fetching, Attempting, Shape,
       Needed, Fetched

-----------------------------------------------------------------------------
(* Each step of a task has the form Becomes *)

(* What every proof about a task begins with.                              *)
LEMMA WorkingFlight ==
  ASSUME Inv, NEW f \in Flights, flight[f].phase \notin {"unborn", "gone"}
  PROVE  /\ f \in Live /\ flight[f] \in FlightType /\ Shape(flight[f])
         /\ KeyOf(f) \in Keys /\ ProviderOfFlight(f) \in Providers
         /\ free \in [Providers -> Nat] /\ outbound \in Nat
BY KeysAssumption
DEF Inv, TypeOK, Shape, Live, Born, KeyOf, ProviderOfFlight

(* The end of an attempt gives back what the flight has.                   *)
LEMMA GivenBack ==
  ASSUME Inv, NEW f \in Flights, flight[f].phase \notin {"unborn", "gone"},
         GiveBack(f), NEW r, r.permits = {}
  PROVE  /\ outbound' \in Nat
         /\ outbound' + Has(r, "outbound") = outbound + Has(flight[f], "outbound")
         /\ free' \in [Providers -> Nat]
         /\ \A p \in Providers \ {ProviderOfFlight(f)} : free'[p] = free[p]
         /\ free'[ProviderOfFlight(f)] + Has(r, "provider")
              = free[ProviderOfFlight(f)] + Has(flight[f], "provider")
<1> DEFINE p == ProviderOfFlight(f)
           more == IF "provider" \in flight[f].permits THEN 1 ELSE 0
<1>1. p \in Providers /\ free \in [Providers -> Nat] /\ outbound \in Nat
  BY WorkingFlight
<1>2. free' = [free EXCEPT ![p] = free[p] + more]
  BY <1>1 DEF GiveBack
<1>3. more \in Nat /\ free[p] \in Nat
  BY <1>1
<1> HIDE DEF p, more
<1>4. free' \in [Providers -> Nat] /\ free'[p] = free[p] + more
      /\ \A q \in Providers \ {p} : free'[q] = free[q]
  BY <1>1, <1>2, <1>3
<1>5. outbound' = outbound + IF "outbound" \in flight[f].permits THEN 1 ELSE 0
  BY DEF GiveBack
<1>6. Has(r, "provider") = 0 /\ Has(r, "outbound") = 0
      /\ Has(flight[f], "provider") = more
  BY DEF Has, more
<1>7. QED
  BY <1>1, <1>3, <1>4, <1>5, <1>6 DEF Has, p

(* A task that completes its work, and gives back what it has.             *)
LEMMA CompletedForm ==
  ASSUME Inv, NEW f \in Flights, flight[f].phase \notin {"unborn", "gone"},
         NEW result \in Results, NEW report, Complete(f, result, report),
         report \in Received(KeyOf(f)) \cup {None}, GiveBack(f), CacheIsOwn',
         cached' \subseteq cached
           \cup IF flight[f].phase = "save" THEN {KeyOf(f)} ELSE {},
         UNCHANGED <<flights, cancelled, caller>>
  PROVE  \E r : Becomes(f, r)
<1> DEFINE r == AtRest(KeyOf(f), "done", report, result)
<1>1. f \in Live /\ KeyOf(f) \in Keys /\ report \in ReportType \cup {None}
  BY WorkingFlight, ReceivedType
<1>2. r \in FlightType /\ Shape(r) /\ ~Fetched(r)
      /\ r.key = KeyOf(f) /\ r.phase = "done" /\ r.permits = {}
  BY <1>1, AtRestFacts
<1>3. flight' = [flight EXCEPT ![f] = r]
  BY DEF Complete
<1> HIDE DEF r
<1>4. QED
  BY <1>1, <1>2, <1>3, GivenBack DEF Becomes

(* The cache keeps what was received when it is left alone, ...            *)
LEMMA CacheLeft ==
  ASSUME Inv, UNCHANGED cache
  PROVE  cached' = cached /\ CacheIsOwn'
BY DEF Inv, CacheIsOwn, cached

(* ... and whatever phase a task is saved in, only its own key is new.      *)
LEMMA SavedOwn ==
  ASSUME Inv, NEW f \in Flights, flight[f].phase \notin {"unborn", "gone"},
         MaybeSaved(f)
  PROVE  /\ cached' \subseteq cached
              \cup IF flight[f].phase = "save" THEN {KeyOf(f)} ELSE {}
         /\ CacheIsOwn'
<1>1. CASE flight[f].phase = "save"
  <2>1. PICK kept \in SUBSET cached, new \in SUBSET {KeyOf(f)} :
          cache' = [k \in kept \cup new |->
                      IF k \in new THEN flight[f].report ELSE cache[k]]
    BY <1>1 DEF MaybeSaved
  <2>2. cached' = kept \cup new
    BY <2>1 DEF cached
  <2>3. flight[f].report \in Received(KeyOf(f))
    BY <1>1, WorkingFlight DEF Shape, KeyOf
  <2>4. \A k \in cached : cache[k] \in Received(k)
    BY DEF Inv, CacheIsOwn
  <2>5. \A k \in cached' : cache'[k] \in Received(k)
    BY <2>1, <2>2, <2>3, <2>4
  <2>6. QED
    BY <1>1, <2>2, <2>5 DEF CacheIsOwn
<1>2. CASE flight[f].phase # "save"
  BY <1>2, CacheLeft DEF MaybeSaved
<1>3. QED
  BY <1>1, <1>2

(* Which phases belong to which group.                                     *)
LEMMA PhaseFacts ==
  /\ "unborn" \notin Working /\ "gone" \notin Working /\ "done" \notin Working
  /\ "save" \notin Fetching /\ "recheck" \notin Fetching
  /\ Fetching \subseteq Working /\ Attempting \subseteq Fetching
BY DEF Working, Fetching, Attempting

(* The ways to end that need a word each.                                  *)
LEMMA EndingForm ==
  ASSUME Inv, NEW f \in Flights,
         \/ ReserveFails(f) \/ SendFails(f) \/ TimeOut(f) \/ Panic(f)
         \/ CancelTask(f)
  PROVE  \E r : Becomes(f, r)
<1>1. CASE ReserveFails(f)
  BY <1>1, CompletedForm, CacheLeft DEF ReserveFails, Fail, Results
<1>2. CASE SendFails(f)
  <2>1. PICK code \in Failures[KeyOf(f)] : Complete(f, Told(code), None)
    BY <1>2 DEF SendFails, Fail
  <2>2. Told(code) \in Results
    BY DEF Told, Results
  <2>3. QED
    BY <1>2, <2>1, <2>2, CompletedForm, CacheLeft DEF SendFails
<1>3. CASE TimeOut(f)
  BY <1>3, CompletedForm, CacheLeft, PhaseFacts DEF TimeOut, Fail, Results
<1>4. CASE Panic(f)
  BY <1>4, CompletedForm, PhaseFacts, SavedOwn DEF Panic, Fail, Results
<1>5. CASE CancelTask(f)
  BY <1>5, CompletedForm, PhaseFacts, SavedOwn DEF CancelTask, Fail, Results
<1>6. QED
  BY <1>1, <1>2, <1>3, <1>4, <1>5

(* A task that keeps its permits, or has none.                             *)
LEMMA SamePermits ==
  ASSUME Inv, NEW f \in Flights, flight[f].phase \notin {"unborn", "gone"},
         UNCHANGED <<free, outbound>>, NEW r, r.permits = flight[f].permits
  PROVE  /\ outbound' \in Nat
         /\ outbound' + Has(r, "outbound") = outbound + Has(flight[f], "outbound")
         /\ free' \in [Providers -> Nat]
         /\ \A p \in Providers \ {ProviderOfFlight(f)} : free'[p] = free[p]
         /\ free'[ProviderOfFlight(f)] + Has(r, "provider")
              = free[ProviderOfFlight(f)] + Has(flight[f], "provider")
BY WorkingFlight DEF Has

(* The tasks that only move on.                                            *)
LEMMA GoingOnForm ==
  ASSUME Inv, NEW f \in Flights,
         RecheckHit(f) \/ RecheckMiss(f) \/ Dispatch(f) \/ Wake(f) \/ Save(f)
         \/ Publish(f)
  PROVE  \E r : Becomes(f, r)
<1>0. /\ flight[f].phase \notin {"unborn", "gone"}
      /\ UNCHANGED <<free, outbound, cancelled, caller>>
  BY DEF RecheckHit, RecheckMiss, Dispatch, Wake, Save, Publish
<1>1. /\ f \in Live /\ flight[f] \in FlightType /\ Shape(flight[f])
      /\ KeyOf(f) \in Keys
  BY <1>0, WorkingFlight
<1>2. CASE RecheckHit(f) \/ Save(f)
  <2>1. PICK result \in {"hit", "report"}, report \in Received(KeyOf(f)) :
          Complete(f, result, report)
    <3>1. CASE RecheckHit(f)
      BY <3>1 DEF RecheckHit, Inv, CacheIsOwn
    <3>2. CASE Save(f)
      BY <1>1, <3>2 DEF Save, Shape, KeyOf
    <3>3. QED
      BY <1>2, <3>1, <3>2
  <2> DEFINE r == AtRest(KeyOf(f), "done", report, result)
  <2>2. r \in FlightType /\ Shape(r) /\ ~Fetched(r)
        /\ r.key = KeyOf(f) /\ r.phase = "done" /\ r.permits = {}
    BY <1>1, <2>1, ReceivedType, AtRestFacts DEF Results
  <2>3. flight' = [flight EXCEPT ![f] = r]
    BY <2>1 DEF Complete
  <2>4. flight[f].permits = {}
    BY <1>1, <1>2 DEF Shape, Needed, RecheckHit, Save, Attempting
  <2>5. /\ cached' \subseteq cached
              \cup IF flight[f].phase = "save" THEN {KeyOf(f)} ELSE {}
        /\ CacheIsOwn'
    BY <1>0, <1>2, SavedOwn, CacheLeft DEF RecheckHit, Save
  <2>6. flights' = flights
    BY <1>2 DEF RecheckHit, Save
  <2> HIDE DEF r
  <2>7. QED
    BY <1>0, <1>1, <2>2, <2>3, <2>4, <2>5, <2>6, SamePermits DEF Becomes
<1>3. CASE RecheckMiss(f)
  <2>1. PICK missed \in BOOLEAN :
          /\ flight' = [flight EXCEPT ![f] =
               [flight[f] EXCEPT !.phase = "provider", !.missed = missed]]
          /\ missed => KeyOf(f) \notin cached
    <3>1. CASE /\ KeyOf(f) \notin cached
               /\ flight' = [flight EXCEPT ![f].phase = "provider",
                                           ![f].missed = TRUE]
      BY <3>1, <1>1
    <3>2. CASE Move(f, "provider")
      <4>1. flight[f].missed = FALSE
        BY <1>1, <1>3 DEF FlightType, Shape, RecheckMiss
      <4>2. [flight[f] EXCEPT !.phase = "provider"]
              = [flight[f] EXCEPT !.phase = "provider", !.missed = FALSE]
        BY <1>1, <4>1 DEF FlightType
      <4>3. QED
        BY <1>1, <3>2, <4>2 DEF Move
    <3>3. QED
      BY <1>3, <3>1, <3>2 DEF RecheckMiss
  <2> DEFINE r == [flight[f] EXCEPT !.phase = "provider", !.missed = missed]
  <2>2. /\ flight[f].phase = "recheck" /\ flights' = flights /\ cached' = cached /\ CacheIsOwn'
        /\ flight' = [flight EXCEPT ![f] = r]
    BY <1>3, <2>1, CacheLeft DEF RecheckMiss
  <2>3. r \in FlightType /\ r.phase = "provider" /\ r.key = KeyOf(f)
        /\ r.permits = flight[f].permits /\ r.missed = missed
    BY <1>1 DEF FlightType, FlightPhases, Working, Fetching, KeyOf
  <2>4. Shape(r)
    BY <1>1, <2>2 DEF FlightType, Shape, Needed, Fetching, Attempting
  <2>5. Fetched(r) => KeyOf(f) \notin cached
    BY <2>1, <2>3 DEF Fetched
  <2> HIDE DEF r
  <2>6. QED
    BY <1>0, <1>1, <2>2, <2>3, <2>4, <2>5, SamePermits DEF Becomes
<1>4. CASE Dispatch(f)
  <2> DEFINE r == [flight[f] EXCEPT !.phase = "send", !.sends = flight[f].sends + 1]
  <2>1. /\ flight[f].phase = "reserve" /\ flights' = flights /\ cached' = cached /\ CacheIsOwn'
        /\ flight' = [flight EXCEPT ![f] = r]
    BY <1>4, CacheLeft DEF Dispatch
  <2>2. flight[f].sends = flight[f].attempt /\ flight[f].attempt \in 0 .. 1
    BY <1>1, <2>1 DEF Shape, FlightType, Fetching, Attempting
  <2>7. flight[f].sends + 1 \in 0 .. 2
    BY <2>2
  <2>3. r \in FlightType /\ r.phase = "send" /\ r.key = KeyOf(f)
        /\ r.permits = flight[f].permits /\ r.missed = flight[f].missed
    BY <1>1, <2>7 DEF FlightType, FlightPhases, Working, Fetching, Attempting, KeyOf
  <2>4. Shape(r)
    BY <1>1, <2>1, <2>2 DEF FlightType, Shape, Needed, Fetching, Attempting
  <2>5. Fetched(r) => Fetched(flight[f])
    BY <2>1, <2>3 DEF Fetched, Fetching, Attempting
  <2> HIDE DEF r
  <2>6. QED
    BY <1>0, <1>1, <2>1, <2>3, <2>4, <2>5, SamePermits DEF Becomes
<1>5. CASE Wake(f)
  <2> DEFINE r == [flight[f] EXCEPT !.phase = "provider", !.attempt = 1]
  <2>1. /\ flight[f].phase = "backoff" /\ flights' = flights /\ cached' = cached /\ CacheIsOwn'
        /\ flight' = [flight EXCEPT ![f] = r]
    BY <1>5, CacheLeft DEF Wake
  <2>2. flight[f].sends = 1
    BY <1>1, <2>1 DEF Shape, FlightType
  <2>7. 1 \in 0 .. 1
    OBVIOUS
  <2>3. r \in FlightType /\ r.phase = "provider" /\ r.key = KeyOf(f)
        /\ r.permits = flight[f].permits /\ r.missed = flight[f].missed
    BY <1>1, <2>7 DEF FlightType, FlightPhases, Working, Fetching, KeyOf
  <2>4. Shape(r)
    BY <1>1, <2>1, <2>2 DEF FlightType, Shape, Needed, Fetching, Attempting
  <2>5. Fetched(r) => Fetched(flight[f])
    BY <2>1, <2>3 DEF Fetched, Fetching
  <2> HIDE DEF r
  <2>6. QED
    BY <1>0, <1>1, <2>1, <2>3, <2>4, <2>5, SamePermits DEF Becomes
<1>6. CASE Publish(f)
  <2>0. PICK report \in ReportType \cup {None} : report = flight[f].report
    BY <1>1 DEF FlightType
  <2> DEFINE r == AtRest(None, "gone", report, None)
  <2>1. /\ flight[f].phase = "done" /\ flights' = [flights EXCEPT ![KeyOf(f)] = 0]
        /\ cached' = cached /\ CacheIsOwn' /\ flight' = [flight EXCEPT ![f] = r]
    BY <1>6, <2>0, CacheLeft DEF Publish
  <2>2. r \in FlightType /\ Shape(r) /\ ~Fetched(r) /\ r.phase = "gone"
        /\ r.permits = {} /\ r.report = flight[f].report
    BY <2>0, AtRestFacts
  <2>3. flight[f].permits = {}
    BY <1>1, <2>1 DEF Shape, Needed, Attempting
  <2> HIDE DEF r
  <2>4. QED
    BY <1>0, <1>1, <2>1, <2>2, <2>3, SamePermits DEF Becomes
<1>7. QED
  BY <1>2, <1>3, <1>4, <1>5, <1>6

(* The tasks that take a permit.                                           *)
LEMMA AcquireForm ==
  ASSUME Inv, NEW f \in Flights, AcquireProvider(f) \/ AcquireOutbound(f)
  PROVE  \E r : Becomes(f, r)
<1>0. /\ flight[f].phase \notin {"unborn", "gone"}
      /\ UNCHANGED <<flights, cancelled, caller>>
      /\ cached' = cached /\ CacheIsOwn'
  BY CacheLeft DEF AcquireProvider, AcquireOutbound
<1>1. /\ f \in Live /\ flight[f] \in FlightType /\ Shape(flight[f])
      /\ KeyOf(f) \in Keys /\ ProviderOfFlight(f) \in Providers
      /\ free \in [Providers -> Nat] /\ outbound \in Nat
  BY <1>0, WorkingFlight
<1>2. CASE AcquireProvider(f)
  <2> DEFINE r == [flight[f] EXCEPT !.phase = "outbound",
                     !.permits = flight[f].permits \cup {"provider"}]
             p == ProviderOfFlight(f)
  <2>1. /\ flight[f].phase = "provider" /\ flight' = [flight EXCEPT ![f] = r]
        /\ free[p] > 0 /\ free' = [free EXCEPT ![p] = free[p] - 1]
        /\ outbound' = outbound
    BY <1>2 DEF AcquireProvider
  <2>2. flight[f].permits = {}
    BY <1>1, <2>1 DEF Shape, Needed, Attempting
  <2>3. r \in FlightType /\ r.phase = "outbound" /\ r.key = KeyOf(f)
        /\ r.permits = {"provider"} /\ r.missed = flight[f].missed
    BY <1>1, <2>2 DEF FlightType, FlightPhases, Working, Fetching, KeyOf
  <2>4. Shape(r)
    BY <1>1, <2>1, <2>3 DEF FlightType, Shape, Needed, Fetching, Attempting
  <2>5. Fetched(r) => Fetched(flight[f])
    BY <2>1, <2>3 DEF Fetched, Fetching
  <2>6. Has(r, "provider") = 1 /\ Has(flight[f], "provider") = 0
        /\ Has(r, "outbound") = 0 /\ Has(flight[f], "outbound") = 0
    BY <2>2, <2>3 DEF Has
  <2>7. free' \in [Providers -> Nat] /\ free'[p] + 1 = free[p]
        /\ \A q \in Providers \ {p} : free'[q] = free[q]
    <3> HIDE DEF p, r
    <3>1. free[p] - 1 \in Nat /\ free[p] \in Nat
      BY <1>1, <2>1 DEF p
    <3>2. QED
      BY <1>1, <2>1, <3>1 DEF p
  <2> HIDE DEF r
  <2>8. outbound' + Has(r, "outbound") = outbound + Has(flight[f], "outbound")
    BY <2>1, <2>6
  <2>9. free'[p] + Has(r, "provider") = free[p] + Has(flight[f], "provider")
    BY <1>1, <2>6, <2>7
  <2>10. QED
    BY <1>0, <1>1, <2>1, <2>3, <2>4, <2>5, <2>7, <2>8, <2>9 DEF Becomes
<1>3. CASE AcquireOutbound(f)
  <2> DEFINE r == [flight[f] EXCEPT !.phase = "reserve",
                     !.permits = flight[f].permits \cup {"outbound"}]
  <2>1. /\ flight[f].phase = "outbound" /\ flight' = [flight EXCEPT ![f] = r]
        /\ outbound > 0 /\ outbound' = outbound - 1
        /\ free' = free
    BY <1>3 DEF AcquireOutbound
  <2>2. flight[f].permits = {"provider"}
    BY <1>1, <2>1 DEF Shape, Needed, Attempting
  <2>3. r \in FlightType /\ r.phase = "reserve" /\ r.key = KeyOf(f)
        /\ r.permits = {"provider", "outbound"} /\ r.missed = flight[f].missed
    BY <1>1, <2>2
    DEF FlightType, FlightPhases, Working, Fetching, Attempting, KeyOf
  <2>4. Shape(r)
    BY <1>1, <2>1, <2>3 DEF FlightType, Shape, Needed, Fetching, Attempting
  <2>5. Fetched(r) => Fetched(flight[f])
    BY <2>1, <2>3 DEF Fetched, Fetching
  <2>6. Has(r, "provider") = 1 /\ Has(flight[f], "provider") = 1
        /\ Has(r, "outbound") = 1 /\ Has(flight[f], "outbound") = 0
    BY <2>2, <2>3 DEF Has
  <2> HIDE DEF r
  <2>7. /\ outbound' \in Nat
        /\ outbound' + Has(r, "outbound") = outbound + Has(flight[f], "outbound")
    BY <1>1, <2>1, <2>6
  <2>8. free'[ProviderOfFlight(f)] + Has(r, "provider")
          = free[ProviderOfFlight(f)] + Has(flight[f], "provider")
    BY <2>1, <2>6
  <2>9. QED
    BY <1>0, <1>1, <2>1, <2>3, <2>4, <2>5, <2>7, <2>8 DEF Becomes
<1>4. QED
  BY <1>2, <1>3

(* The attempts that end with a report, or are made once more.             *)
LEMMA AttemptForm ==
  ASSUME Inv, NEW f \in Flights, Report(f) \/ Retry(f)
  PROVE  \E r : Becomes(f, r)
<1>0. /\ flight[f].phase = "send" /\ GiveBack(f)
      /\ UNCHANGED <<flights, cancelled, caller>>
      /\ cached' = cached /\ CacheIsOwn'
  BY CacheLeft DEF Report, Retry
<1>1. /\ f \in Live /\ flight[f] \in FlightType /\ Shape(flight[f])
      /\ KeyOf(f) \in Keys
  BY <1>0, WorkingFlight
<1>2. CASE Report(f)
  <2>1. PICK report \in Received(KeyOf(f)) :
          flight' = [flight EXCEPT ![f] = AtRest(KeyOf(f), "save", report, None)]
    BY <1>2 DEF Report
  <2> DEFINE r == AtRest(KeyOf(f), "save", report, None)
  <2>2. r \in FlightType /\ Shape(r) /\ ~Fetched(r)
        /\ r.key = KeyOf(f) /\ r.phase = "save" /\ r.permits = {}
    BY <1>1, ReceivedType, AtRestFacts
  <2> HIDE DEF r
  <2>3. QED
    BY <1>0, <1>1, <2>1, <2>2, GivenBack DEF Becomes, r
<1>3. CASE Retry(f)
  <2> DEFINE r == [flight[f] EXCEPT !.phase = "backoff", !.permits = {}]
  <2>1. flight[f].attempt = 0 /\ flight' = [flight EXCEPT ![f] = r]
    BY <1>3 DEF Retry
  <2>2. flight[f].sends = 1
    BY <1>0, <1>1, <2>1 DEF Shape, FlightType
  <2>3. r \in FlightType /\ r.phase = "backoff" /\ r.key = KeyOf(f)
        /\ r.permits = {} /\ r.missed = flight[f].missed
    BY <1>1 DEF FlightType, FlightPhases, Working, Fetching, KeyOf
  <2>4. Shape(r)
    BY <1>1, <2>1, <2>2, <2>3 DEF FlightType, Shape, Needed, Fetching, Attempting
  <2>5. Fetched(r) => Fetched(flight[f])
    BY <1>0, <2>3 DEF Fetched, Fetching, Attempting
  <2> HIDE DEF r
  <2>6. QED
    BY <1>0, <1>1, <2>1, <2>3, <2>4, <2>5, GivenBack DEF Becomes
<1>4. QED
  BY <1>2, <1>3

(* Every step of a flight has the form.                                    *)
LEMMA TaskForm ==
  ASSUME Inv, NEW f \in Flights, TaskStep(f)
  PROVE  \E r : Becomes(f, r)
BY EndingForm, GoingOnForm, AcquireForm, AttemptForm
DEF TaskStep, Progress, Outcome

-----------------------------------------------------------------------------
(* What the form Becomes keeps *)

(* There are finitely many flights, and so are those counted.              *)
LEMMA FlightsFinite ==
  /\ MaxFlights \in Nat /\ IsFiniteSet(Flights)
  /\ Cardinality(Flights) = MaxFlights
<1>1. MaxFlights \in Nat
  BY CallersAssumption, FS_CardinalityType DEF MaxFlights
<1>2. QED
  BY <1>1, FS_Interval DEF Flights

(* The free permits and those who hold one are as many as ever when the    *)
(* holder x takes or gives back what has changed of them.                  *)
LEMMA PermitsMoved ==
  ASSUME NEW S, IsFiniteSet(S), NEW T, NEW x, NEW permit, NEW old, NEW new,
         x \in S <=> permit \in old.permits,
         permit \in new.permits => T = S \cup {x},
         permit \notin new.permits => T = S \ {x},
         NEW before \in Nat, NEW after \in Nat, NEW total \in Nat,
         before + Cardinality(S) = total,
         after + Has(new, permit) = before + Has(old, permit)
  PROVE  after + Cardinality(T) = total
<1>1. Cardinality(S) \in Nat
  BY FS_CardinalityType
<1>2. CASE permit \in new.permits
  <2>1. Cardinality(T) = Cardinality(S) + IF permit \in old.permits THEN 0 ELSE 1
    BY <1>1, <1>2, FS_AddElement
  <2>2. after + 1 = before + IF permit \in old.permits THEN 1 ELSE 0
    BY <1>2 DEF Has
  <2>3. QED
    BY <1>1, <2>1, <2>2
<1>3. CASE permit \notin new.permits
  <2>1. Cardinality(T) = Cardinality(S) - IF permit \in old.permits THEN 1 ELSE 0
    BY <1>1, <1>3, FS_RemoveElement
  <2>2. after + 0 = before + IF permit \in old.permits THEN 1 ELSE 0
    BY <1>3 DEF Has
  <2>3. QED
    BY <1>1, <2>1, <2>2
<1>4. QED
  BY <1>2, <1>3

(* The flights after a step of task f.                                     *)
LEMMA LiveAfter ==
  ASSUME Inv, NEW f \in Flights, NEW r, Becomes(f, r)
  PROVE  /\ f \in Live /\ KeyOf(f) \in Keys /\ ProviderOfFlight(f) \in Providers
         /\ flight' \in [Flights -> FlightType] /\ flight'[f] = r
         /\ \A g \in Flights \ {f} : flight'[g] = flight[g]
         /\ Live' = IF r.phase = "gone" THEN Live \ {f} ELSE Live
         /\ \A g \in Live' : KeyOf(g)' = KeyOf(g)
         /\ r.phase = "gone" => r.permits = {}
<1>1. f \in Live /\ flight \in [Flights -> FlightType] /\ r \in FlightType
      /\ flight' = [flight EXCEPT ![f] = r]
  BY DEF Becomes, Inv, TypeOK
<1>2. flight[f].phase \notin {"unborn", "gone"}
  BY <1>1 DEF Live, Born
<1>3. KeyOf(f) \in Keys /\ ProviderOfFlight(f) \in Providers
  BY <1>2, WorkingFlight
<1>4. flight' \in [Flights -> FlightType] /\ flight'[f] = r
      /\ \A g \in Flights \ {f} : flight'[g] = flight[g]
  BY <1>1
<1>5. r.phase # "unborn" /\ (r.phase # "gone" => r.key = KeyOf(f))
  BY DEF Becomes
<1>6. \A g \in Flights : g \in Live' <=> flight'[g].phase \notin {"unborn", "gone"}
  BY DEF Live, Born
<1>7. \A g \in Flights : g \in Live <=> flight[g].phase \notin {"unborn", "gone"}
  BY DEF Live, Born
<1>8. Live \subseteq Flights /\ Live' \subseteq Flights
  BY DEF Live, Born
<1>9. Live' = IF r.phase = "gone" THEN Live \ {f} ELSE Live
  BY <1>1, <1>4, <1>5, <1>6, <1>7, <1>8
<1>10. \A g \in Live' : KeyOf(g)' = KeyOf(g)
  BY <1>4, <1>5, <1>6, <1>8 DEF KeyOf
<1>11. r.phase = "gone" => r.permits = {}
  BY DEF Becomes, Shape, Needed, Attempting
<1>12. QED
  BY <1>1, <1>3, <1>4, <1>9, <1>10, <1>11

(* No two live flights are of one key.                                     *)
LEMMA OneOfAKey ==
  ASSUME Inv, NEW f \in Live, NEW g \in Live, f # g
  PROVE  KeyOf(f) # KeyOf(g)
BY DEF Inv, SingleFlight

(* Types and shapes.                                                       *)
LEMMA TaskKeepsTypes ==
  ASSUME Inv, NEW f \in Flights, NEW r, Becomes(f, r)
  PROVE  /\ TypeOK' /\ CallerShape'
         /\ \A g \in Flights : Shape(flight'[g])
<1>1. TypeOK'
  <2>1. flight' \in [Flights -> FlightType] /\ KeyOf(f) \in Keys
    BY LiveAfter
  <2>2. cached' \subseteq Keys /\ \A k \in cached' : cache'[k] \in ReportType
    <3>1. cached' \subseteq Keys
      BY <2>1 DEF Becomes, Inv, TypeOK
    <3>2. QED
      BY <3>1, ReceivedType DEF Becomes, CacheIsOwn
  <2>3. flights' \in [Keys -> 0 .. MaxFlights]
    <3>1. 0 \in 0 .. MaxFlights
      BY FlightsFinite
    <3>2. QED
      BY <2>1, <3>1 DEF Becomes, Inv, TypeOK
  <2>4. QED
    BY <2>1, <2>2, <2>3 DEF Becomes, Inv, TypeOK
<1>2. CallerShape'
  BY DEF Becomes, Inv, CallerShape
<1>3. \A g \in Flights : Shape(flight'[g])
  BY LiveAfter DEF Becomes, Inv
<1>4. QED
  BY <1>1, <1>2, <1>3

(* The callers that wait for it.                                           *)
LEMMA TaskKeepsOnItsFlight ==
  ASSUME Inv, NEW f \in Flights, NEW r, Becomes(f, r)
  PROVE  OnItsFlight'
<1> SUFFICES ASSUME NEW c \in Callers, caller'[c].phase = "waiting"
             PROVE  Serves(caller[c].on, caller[c].key)'
  BY DEF OnItsFlight
<1>1. PICK g, k : g = caller[c].on /\ k = caller[c].key
  OBVIOUS
<1>2. caller' = caller /\ Serves(g, k)
  BY <1>1 DEF Becomes, Inv, OnItsFlight
<1>3. /\ f \in Live /\ flight'[f] = r /\ r.phase # "unborn"
      /\ \A h \in Flights \ {f} : flight'[h] = flight[h]
      /\ Live' = IF r.phase = "gone" THEN Live \ {f} ELSE Live
      /\ \A h \in Live' : KeyOf(h)' = KeyOf(h)
  BY LiveAfter DEF Becomes
<1>4. g \in Flights /\ Live \subseteq Born /\ Born \subseteq Flights
      /\ \A h \in Flights : h \in Born' <=> flight'[h].phase # "unborn"
  BY <1>2 DEF Serves, Live, Born
<1>5. g \in Born'
  BY <1>2, <1>3, <1>4 DEF Serves, Born
<1>6. ASSUME g \in Live' PROVE KeyOf(g)' = k
  BY <1>2, <1>3, <1>6 DEF Serves
<1>7. ASSUME g \notin Live' PROVE flight'[g].report \in Received(k) \cup {None}
  <2>1. CASE g = f
    <3>1. r.phase = "gone" /\ r.report = flight[f].report /\ KeyOf(f) = k
      BY <1>2, <1>3, <1>7, <2>1 DEF Serves, Becomes
    <3>2. flight[f].report \in Received(KeyOf(f)) \cup {None}
      BY <1>3, WorkingFlight DEF Shape, KeyOf, Live, Born
    <3>3. QED
      BY <1>3, <2>1, <3>1, <3>2
  <2>2. CASE g # f
    BY <1>2, <1>3, <1>4, <1>7, <2>2 DEF Serves
  <2>3. QED
    BY <2>1, <2>2
<1>8. QED
  BY <1>1, <1>2, <1>5, <1>6, <1>7 DEF Serves

(* The flight of a key.                                                    *)
LEMMA TaskKeepsSingleFlight ==
  ASSUME Inv, NEW f \in Flights, NEW r, Becomes(f, r)
  PROVE  SingleFlight' /\ MapIsExact'
<1>1. /\ flights \in [Keys -> 0 .. MaxFlights]
      /\ \A g \in Live : flights[KeyOf(g)] = g /\ KeyOf(g) \in Keys
      /\ \A k \in Keys : flights[k] # 0 => flights[k] \in Live /\ KeyOf(flights[k]) = k
  <2>1. \A g \in Live : KeyOf(g) \in Keys
    BY WorkingFlight DEF Live, Born
  <2>2. QED
    BY <2>1 DEF Inv, TypeOK, SingleFlight, MapIsExact, Registered
<1>2. /\ f \in Live /\ Live' = IF r.phase = "gone" THEN Live \ {f} ELSE Live
      /\ \A g \in Live' : KeyOf(g)' = KeyOf(g)
  BY LiveAfter
<1>3. \/ r.phase = "gone" /\ flights' = [flights EXCEPT ![KeyOf(f)] = 0]
      \/ r.phase # "gone" /\ flights' = flights
  BY DEF Becomes
<1>4. \A g \in Live' : flights'[KeyOf(g)] = g
  BY <1>1, <1>2, <1>3
<1>5. \A k \in Keys : flights'[k] # 0 =>
        flights'[k] = flights[k] /\ flights[k] # 0 /\ flights[k] \in Live'
  BY <1>1, <1>2, <1>3
<1>6. Cardinality(Live') =< MaxSharedLookups
  <2>1. IsFiniteSet(Live) /\ Live' \subseteq Live
    BY <1>2, FlightsFinite, FS_Subset DEF Live, Born
  <2>2. Cardinality(Live') \in Nat /\ Cardinality(Live) \in Nat
        /\ Cardinality(Live') =< Cardinality(Live)
    BY <2>1, FS_Subset, FS_CardinalityType
  <2>3. QED
    BY <2>2, LookupsAssumption DEF Inv, SingleFlight
<1>7. QED
  BY <1>1, <1>2, <1>4, <1>5, <1>6 DEF SingleFlight, MapIsExact, Registered

(* What is fetched is missing.                                             *)
LEMMA TaskKeepsFetches ==
  ASSUME Inv, NEW f \in Flights, NEW r, Becomes(f, r)
  PROVE  FetchOnlyWhatIsMissing'
<1> SUFFICES ASSUME NEW g \in Live', Fetched(flight'[g])
             PROVE  KeyOf(g)' \notin cached'
  BY DEF FetchOnlyWhatIsMissing, Fetched
<1>1. /\ f \in Live /\ g \in Live /\ g \in Flights /\ KeyOf(g)' = KeyOf(g)
      /\ flight'[f] = r /\ (g # f => flight'[g] = flight[g])
  BY LiveAfter DEF Live, Born
<1>2. Fetched(flight[g]) => KeyOf(g) \notin cached
  BY <1>1 DEF Inv, FetchOnlyWhatIsMissing, Fetched
<1>3. cached' \subseteq cached \cup IF flight[f].phase = "save" THEN {KeyOf(f)} ELSE {}
  BY DEF Becomes
<1>4. CASE g = f
  <2>1. Fetched(flight[f]) \/ KeyOf(f) \notin cached'
    BY <1>1, <1>4 DEF Becomes
  <2>2. Fetched(flight[f]) => flight[f].phase # "save"
    BY PhaseFacts DEF Fetched
  <2>3. QED
    BY <1>1, <1>2, <1>3, <1>4, <2>1, <2>2
<1>5. CASE g # f
  BY <1>1, <1>2, <1>3, <1>5, OneOfAKey
<1>6. QED
  BY <1>4, <1>5

(* The permits.                                                            *)
LEMMA TaskKeepsPermits ==
  ASSUME Inv, NEW f \in Flights, NEW r, Becomes(f, r)
  PROVE  PermitsAccounted'
<1> DEFINE Holders(permit) == {g \in Live : permit \in flight[g].permits}
           Those(p) == {g \in Live : ProviderOfFlight(g) = p}
           HoldersOf(p) == {g \in Those(p) : "provider" \in flight[g].permits}
           q == ProviderOfFlight(f)
<1>1. /\ f \in Live /\ q \in Providers /\ flight'[f] = r
      /\ Live \subseteq Flights /\ Live' \subseteq Flights
      /\ \A g \in Flights \ {f} : flight'[g] = flight[g]
      /\ Live' = IF r.phase = "gone" THEN Live \ {f} ELSE Live
      /\ \A g \in Live' : ProviderOfFlight(g)' = ProviderOfFlight(g)
      /\ r.phase = "gone" => r.permits = {}
  BY LiveAfter DEF Live, Born, ProviderOfFlight
<1>2. IsFiniteSet(Holders("outbound")) /\ \A p : IsFiniteSet(HoldersOf(p))
  BY <1>1, FlightsFinite, FS_Subset
<1>3. outbound' + Cardinality(Holders("outbound")') = MaxOutbound
  <2>1. Holders("outbound")' = IF "outbound" \in r.permits
                                 THEN Holders("outbound") \cup {f}
                                 ELSE Holders("outbound") \ {f}
    BY <1>1
  <2>2. f \in Holders("outbound") <=> "outbound" \in flight[f].permits
    BY <1>1
  <2>3. outbound + Cardinality(Holders("outbound")) = MaxOutbound
        /\ outbound \in Nat /\ outbound' \in Nat
    BY DEF Inv, TypeOK, PermitsAccounted, Holding, Becomes
  <2>4. outbound' + Has(r, "outbound") = outbound + Has(flight[f], "outbound")
    BY DEF Becomes
  <2>5. PICK S : S = Holders("outbound")
    OBVIOUS
  <2>6. PICK T : T = Holders("outbound")'
    OBVIOUS
  <2>7. outbound' + Cardinality(T) = MaxOutbound
    <3> HIDE DEF Holders
    <3>1. IsFiniteSet(S) /\ (f \in S <=> "outbound" \in flight[f].permits)
          /\ ("outbound" \in r.permits => T = S \cup {f})
          /\ ("outbound" \notin r.permits => T = S \ {f})
          /\ outbound + Cardinality(S) = MaxOutbound
      BY <1>2, <2>1, <2>2, <2>3, <2>5, <2>6
    <3>2. QED
      BY <2>3, <2>4, <3>1, PermitsMoved, PermitsAssumption
  <2>8. QED
    BY <2>6, <2>7
<1>4. ASSUME NEW p \in Providers
      PROVE  free'[p] + Cardinality(HoldersOf(p)') = MaxConcurrency[p]
  <2>1. free[p] + Cardinality(HoldersOf(p)) = MaxConcurrency[p]
        /\ free[p] \in Nat /\ free'[p] \in Nat
    BY DEF Inv, TypeOK, PermitsAccounted, Holding, Becomes
  <2>2. CASE p # q
    <3>1. free'[p] = free[p]
      BY <2>2 DEF Becomes
    <3>2. HoldersOf(p)' = HoldersOf(p)
      BY <1>1, <2>2
    <3>3. QED
      BY <2>1, <3>1, <3>2
  <2>3. CASE p = q
    <3>1. HoldersOf(p)' = IF "provider" \in r.permits
                            THEN HoldersOf(p) \cup {f} ELSE HoldersOf(p) \ {f}
      BY <1>1, <2>3
    <3>2. f \in HoldersOf(p) <=> "provider" \in flight[f].permits
      BY <1>1, <2>3
    <3>3. free'[p] + Has(r, "provider") = free[p] + Has(flight[f], "provider")
      BY <2>3 DEF Becomes
    <3>4. PICK S : S = HoldersOf(p)
      OBVIOUS
    <3>5. PICK T : T = HoldersOf(p)'
      OBVIOUS
    <3>6. free'[p] + Cardinality(T) = MaxConcurrency[p]
      <4> HIDE DEF HoldersOf
      <4>1. IsFiniteSet(S) /\ (f \in S <=> "provider" \in flight[f].permits)
            /\ ("provider" \in r.permits => T = S \cup {f})
            /\ ("provider" \notin r.permits => T = S \ {f})
            /\ free[p] + Cardinality(S) = MaxConcurrency[p]
        BY <1>2, <2>1, <3>1, <3>2, <3>4, <3>5
      <4>2. QED
        BY <2>1, <3>3, <4>1, PermitsMoved, PermitsAssumption
    <3>7. QED
      BY <3>5, <3>6
  <2>4. QED
    BY <2>2, <2>3
<1>5. ASSUME NEW g \in Live'
      PROVE  /\ "outbound" \in flight'[g].permits => flight'[g].phase \in Attempting
             /\ "provider" \in flight'[g].permits =>
                  flight'[g].phase \in Attempting \cup {"outbound"}
  <2>1. Shape(flight'[g])
    BY <1>1, TaskKeepsTypes
  <2>2. QED
    BY <2>1 DEF Shape, Needed
<1>6. QED
  BY <1>3, <1>4, <1>5 DEF PermitsAccounted, Holding

(* So a step of a task keeps the invariant.                                *)
LEMMA TaskKeepsInv ==
  ASSUME Inv, NEW f \in Flights, TaskStep(f)
  PROVE  Inv'
<1>1. PICK r : Becomes(f, r)
  BY TaskForm
<1>2. QED
  BY <1>1, TaskKeepsTypes, TaskKeepsOnItsFlight, TaskKeepsSingleFlight, TaskKeepsFetches,
     TaskKeepsPermits DEF Inv, Becomes

-----------------------------------------------------------------------------
(* The rest of the steps *)

(* What only touches the callers or the cancellation, or takes a report    *)
(* out of the cache.                                                       *)
LEMMA RestKeepsInv ==
  ASSUME Inv, UNCHANGED <<flights, flight, free, outbound>>,
         cached' \subseteq cached, CacheIsOwn', cancelled' \in BOOLEAN,
         caller' \in [Callers -> CallerType], CallerShape', OnItsFlight'
  PROVE  Inv'
<1>1. Live' = Live /\ Registered' = Registered
      /\ \A f : KeyOf(f)' = KeyOf(f) /\ ProviderOfFlight(f)' = ProviderOfFlight(f)
  BY DEF Live, Born, Registered, KeyOf, ProviderOfFlight
<1>2. TypeOK'
  <2>1. cached' \subseteq Keys
    BY DEF Inv, TypeOK
  <2>2. \A k \in cached' : cache'[k] \in ReportType
    BY <2>1, ReceivedType DEF CacheIsOwn
  <2>3. QED
    BY <2>1, <2>2 DEF Inv, TypeOK
<1>3. SingleFlight' /\ MapIsExact'
  BY <1>1 DEF Inv, SingleFlight, MapIsExact
<1>4. PermitsAccounted'
  BY <1>1 DEF Inv, PermitsAccounted, Holding
<1>5. FetchOnlyWhatIsMissing'
  BY <1>1 DEF Inv, FetchOnlyWhatIsMissing
<1>6. QED
  BY <1>2, <1>3, <1>4, <1>5 DEF Inv

(* As many keys are registered as there are live flights.                  *)
LEMMA LiveCount ==
  ASSUME Inv
  PROVE  Cardinality(Live) = Cardinality(Registered)
<1> DEFINE b == [f \in Live |-> KeyOf(f)]
<1>1. IsFiniteSet(Live)
  BY FlightsFinite, FS_Subset DEF Live, Born
<1>2. \A f \in Live : KeyOf(f) \in Keys /\ flights[KeyOf(f)] = f /\ f # 0
  BY WorkingFlight DEF Inv, SingleFlight, Live, Born, Flights
<1>3. \A k \in Registered : flights[k] \in Live /\ KeyOf(flights[k]) = k
  BY DEF Inv, SingleFlight, MapIsExact
<1>4. b \in [Live -> Registered]
  BY <1>2 DEF Registered
<1>5. \A f, g \in Live : b[f] = b[g] => f = g
  BY <1>2
<1>6. \A k \in Registered : \E f \in Live : b[f] = k
  BY <1>3
<1> HIDE DEF b
<1>7. b \in Bijection(Live, Registered)
  BY <1>4, <1>5, <1>6 DEF Bijection, Injection, Surjection, IsInjective
<1>8. QED
  BY <1>1, <1>7, FS_Bijection DEF ExistsBijection

(* A flight is registered.                                                 *)
LEMMA RegisterKeepsInv ==
  ASSUME Inv, NEW c \in Callers, Register(c)
  PROVE  Inv'
<1> DEFINE k == caller[c].key
<1>1. /\ caller[c].phase = "registering" /\ flights[k] = 0
      /\ Cardinality(Registered) < MaxSharedLookups
      /\ UNCHANGED <<cache, free, outbound, cancelled>>
      /\ k \in Keys /\ caller[c] \in CallerType /\ caller[c].told = None
      /\ cached' = cached /\ CacheIsOwn'
  BY CacheLeft DEF Register, Inv, CallerShape, TypeOK
<1>2. PICK f \in Flights :
        /\ f \notin Born
        /\ flights' = [flights EXCEPT ![k] = f]
        /\ flight' = [flight EXCEPT ![f].key = k, ![f].phase = "recheck"]
        /\ caller' = [caller EXCEPT ![c].phase = "waiting", ![c].on = f]
  BY DEF Register
<1> DEFINE r == AtRest(k, "recheck", None, None)
<1>3. r \in FlightType /\ Shape(r) /\ ~Fetched(r)
      /\ r.key = k /\ r.phase = "recheck" /\ r.permits = {}
  <2>1. PICK key \in Keys : key = k
    BY <1>1
  <2>2. QED
    BY <2>1, AtRestFacts
<1>4. flight' = [flight EXCEPT ![f] = r]
  <2>1. flight[f] = Unborn
    BY <1>2 DEF Inv, Shape, Born
  <2>3. flight \in [Flights -> FlightType]
    BY DEF Inv, TypeOK
  <2>2. [flight[f] EXCEPT !.key = k, !.phase = "recheck"] = r
    <3>1. flight[f].attempt = 0 /\ flight[f].permits = {}
          /\ flight[f].report = None /\ flight[f].result = None
          /\ flight[f].missed = FALSE /\ flight[f].sends = 0
      BY <2>1 DEF Unborn, AtRest
    <3>2. /\ r.attempt = 0 /\ r.report = None /\ r.result = None
          /\ r.missed = FALSE /\ r.sends = 0
      BY DEF AtRest
    <3>3. flight[f] \in FlightType
      BY <2>3
    <3>4. QED
      BY <1>3, <3>1, <3>2, <3>3 DEF FlightType
  <2> HIDE DEF r, k
  <2>4. flight' = [flight EXCEPT ![f] =
                     [flight[f] EXCEPT !.key = k, !.phase = "recheck"]]
    BY <1>2, <2>3
  <2>5. QED
    BY <2>2, <2>4
<1> HIDE DEF r, k
<1>5. /\ flight \in [Flights -> FlightType] /\ flight' \in [Flights -> FlightType]
      /\ flight'[f] = r /\ \A g \in Flights \ {f} : flight'[g] = flight[g]
  BY <1>3, <1>4 DEF Inv, TypeOK
<1>6. /\ f \notin Live /\ Live' = Live \cup {f} /\ Live \subseteq Flights
      /\ KeyOf(f)' = k
      /\ \A g \in Live : KeyOf(g)' = KeyOf(g)
                        /\ ProviderOfFlight(g)' = ProviderOfFlight(g)
  BY <1>2, <1>3, <1>5 DEF Live, Born, KeyOf, ProviderOfFlight
<1>7. f # 0 /\ f \in 0 .. MaxFlights /\ flights \in [Keys -> 0 .. MaxFlights]
  BY FlightsFinite DEF Inv, TypeOK, Flights
<1>8. TypeOK'
  <2>1. caller'[c] \in CallerType /\ caller' \in [Callers -> CallerType]
    BY <1>1, <1>2, <1>7 DEF Inv, TypeOK, CallerType
  <2>2. QED
    BY <1>1, <1>2, <1>5, <1>7, <2>1 DEF Inv, TypeOK
<1>9. CallerShape'
  BY <1>1, <1>2 DEF Inv, TypeOK, CallerShape, CallerType, k
<1>10. \A g \in Flights : Shape(flight'[g])
  BY <1>3, <1>5 DEF Inv
<1>11. SingleFlight' /\ MapIsExact'
  <2>1. \A g \in Live : flights[KeyOf(g)] = g /\ g # 0 /\ KeyOf(g) \in Keys
    BY WorkingFlight DEF Inv, SingleFlight, Live, Born, Flights
  <2>2. \A g \in Live' : flights'[KeyOf(g)'] = g
    BY <1>1, <1>2, <1>6, <1>7, <2>1
  <2>3. \A h \in Keys : flights'[h] # 0 =>
          flights'[h] \in Live' /\ KeyOf(flights[h])' = h
    <3>1. \A h \in Keys : flights[h] # 0 => flights[h] \in Live /\ KeyOf(flights[h]) = h
      BY DEF Inv, SingleFlight, MapIsExact, Registered
    <3>2. QED
      BY <1>2, <1>6, <1>7, <3>1
  <2>4. Cardinality(Live') =< MaxSharedLookups
    <3>1. IsFiniteSet(Live)
      BY <1>6, FlightsFinite, FS_Subset
    <3>2. Cardinality(Live) \in Nat /\ Cardinality(Live') = Cardinality(Live) + 1
      BY <1>6, <3>1, FS_AddElement, FS_CardinalityType
    <3>3. QED
      BY <1>1, <3>2, LiveCount, LookupsAssumption
  <2>5. QED
    BY <2>2, <2>3, <2>4 DEF SingleFlight, MapIsExact, Registered
<1>12. PermitsAccounted'
  <2>1. {g \in Live' : "outbound" \in flight'[g].permits}
          = {g \in Live : "outbound" \in flight[g].permits}
    BY <1>3, <1>5, <1>6
  <2>2. ASSUME NEW p \in Providers
        PROVE  {h \in {g \in Live' : ProviderOfFlight(g)' = p} :
                  "provider" \in flight'[h].permits}
                 = {h \in {g \in Live : ProviderOfFlight(g) = p} :
                      "provider" \in flight[h].permits}
    BY <1>3, <1>5, <1>6
  <2>3. \A g \in Live' :
          /\ "outbound" \in flight'[g].permits => flight'[g].phase \in Attempting
          /\ "provider" \in flight'[g].permits =>
               flight'[g].phase \in Attempting \cup {"outbound"}
    BY <1>3, <1>5, <1>6 DEF Inv, PermitsAccounted
  <2>4. QED
    BY <1>1, <2>1, <2>2, <2>3 DEF Inv, PermitsAccounted, Holding
<1>13. FetchOnlyWhatIsMissing'
  BY <1>1, <1>3, <1>5, <1>6 DEF Inv, FetchOnlyWhatIsMissing, Fetched
<1>14. OnItsFlight'
  <2> SUFFICES ASSUME NEW d \in Callers, caller'[d].phase = "waiting"
               PROVE  Serves(caller[d].on, caller[d].key)'
    BY DEF OnItsFlight
  <2>1. CASE d = c
    <3>1. caller'[d].on = f /\ caller'[d].key = k
      BY <1>2, <2>1 DEF Inv, TypeOK, CallerType, k
    <3>2. f \in Live' /\ f \in Born'
      BY <1>6 DEF Live
    <3>3. QED
      BY <1>6, <3>1, <3>2 DEF Serves
  <2>2. CASE d # c
    <3>1. caller'[d] = caller[d]
      BY <1>2, <2>2 DEF Inv, TypeOK
    <3>2. PICK g, h : g = caller[d].on /\ h = caller[d].key
      OBVIOUS
    <3>3. Serves(g, h)
      BY <3>1, <3>2 DEF Inv, OnItsFlight
    <3>4. g # f /\ g \in Flights /\ flight[g].phase # "unborn"
      BY <1>2, <3>3 DEF Serves, Born
    <3>5. flight'[g] = flight[g] /\ g \in Born'
      BY <1>5, <3>4 DEF Born
    <3>6. (g \in Live' <=> g \in Live) /\ KeyOf(g)' = KeyOf(g)
      BY <1>6, <3>4, <3>5 DEF KeyOf
    <3>7. QED
      BY <3>1, <3>2, <3>3, <3>5, <3>6 DEF Serves
  <2>3. QED
    BY <2>1, <2>2
<1>15. QED
  BY <1>1, <1>8, <1>9, <1>10, <1>11, <1>12, <1>13, <1>14 DEF Inv

(* The flights serve as before who waits as before, or has found its own.  *)
LEMMA ServedAsBefore ==
  ASSUME UNCHANGED flight,
         \A d \in Callers :
           caller'[d].phase = "waiting" => Serves(caller'[d].on, caller'[d].key)
  PROVE  OnItsFlight'
<1> SUFFICES ASSUME NEW d \in Callers, caller'[d].phase = "waiting"
             PROVE  Serves(caller[d].on, caller[d].key)'
  BY DEF OnItsFlight
<1>1. Serves(caller'[d].on, caller'[d].key)
  OBVIOUS
<1>2. Born' = Born /\ Live' = Live
  BY DEF Born, Live
<1>3. QED
  BY <1>1, <1>2 DEF Serves, KeyOf

(* A caller is answered with a report that was received for its key, if    *)
(* with any.                                                               *)
LEMMA AnswerKeepsInv ==
  ASSUME Inv, NEW c \in Callers, NEW report, Answer(c, report), CallerOnly,
         report # None => caller[c].key \in Keys /\ report \in Received(caller[c].key)
  PROVE  Inv'
<1> DEFINE answered ==
      [phase |-> "answered", on |-> 0, told |-> report,
       key |-> IF report = None THEN None ELSE caller[c].key]
<1>1. answered \in CallerType
  <2>1. report \in ReportType \cup {None}
    BY ReceivedType
  <2>2. 0 \in 0 .. MaxFlights
    BY FlightsFinite
  <2>3. QED
    BY <2>1, <2>2 DEF CallerType
<1>2. /\ answered.phase = "answered" /\ answered.told = report
      /\ report # None => answered.key = caller[c].key
  OBVIOUS
<1>3. caller' = [caller EXCEPT ![c] = answered]
  BY DEF Answer
<1> HIDE DEF answered
<1>4. /\ caller' \in [Callers -> CallerType] /\ caller'[c] = answered
      /\ \A d \in Callers \ {c} : caller'[d] = caller[d]
  BY <1>1, <1>3 DEF Inv, TypeOK
<1>5. CallerShape'
  BY <1>2, <1>4 DEF Inv, CallerShape
<1>6. \A d \in Callers :
        caller'[d].phase = "waiting" => Serves(caller'[d].on, caller'[d].key)
  BY <1>2, <1>4 DEF Inv, OnItsFlight
<1>7. OnItsFlight'
  BY <1>6, ServedAsBefore DEF CallerOnly
<1>8. QED
  BY <1>4, <1>5, <1>7, RestKeepsInv, CacheLeft DEF CallerOnly, Inv, TypeOK

(* What the callers do.                                                    *)
LEMMA CallerKeepsInv ==
  ASSUME Inv, NEW c \in Callers, CallerStep(c)
  PROVE  Inv'
<1>1. CASE Register(c)
  BY <1>1, RegisterKeepsInv
<1>2. CASE ReadHit(c)
  <2>1. /\ caller[c].key \in cached /\ caller[c].key \in Keys
        /\ Answer(c, cache[caller[c].key]) /\ CallerOnly
    BY <1>2 DEF ReadHit, Inv, CallerShape
  <2>2. cache[caller[c].key] \in Received(caller[c].key)
    BY <2>1 DEF Inv, CacheIsOwn
  <2>3. QED
    BY <2>1, <2>2, AnswerKeepsInv
<1>3. CASE Refuse(c) \/ GiveUp(c)
  <2>1. Answer(c, None) /\ CallerOnly
    BY <1>3 DEF Refuse, GiveUp
  <2>2. QED
    BY <2>1, AnswerKeepsInv
<1>4. CASE Receive(c)
  <2>1. /\ caller[c].phase = "waiting" /\ flight[caller[c].on].phase = "gone"
        /\ Answer(c, flight[caller[c].on].report) /\ CallerOnly
        /\ caller[c].key \in Keys
    BY <1>4 DEF Receive, Inv, CallerShape
  <2>2. flight[caller[c].on].report \in Received(caller[c].key) \cup {None}
    BY <2>1 DEF Inv, OnItsFlight, Serves, Live
  <2>3. QED
    BY <2>1, <2>2, AnswerKeepsInv
<1>5. CASE ReadMiss(c)
  <2>1. /\ caller' \in [Callers -> CallerType] /\ CallerShape'
        /\ \A d \in Callers :
             caller'[d].phase = "waiting" => Serves(caller'[d].on, caller'[d].key)
    BY <1>5 DEF ReadMiss, Inv, TypeOK, CallerShape, CallerType, OnItsFlight
  <2>2. OnItsFlight'
    BY <1>5, <2>1, ServedAsBefore DEF ReadMiss, CallerOnly
  <2>3. QED
    BY <1>5, <2>1, <2>2, RestKeepsInv, CacheLeft
    DEF ReadMiss, CallerOnly, Inv, TypeOK
<1>6. CASE Join(c)
  <2>1. caller[c].key \in Keys /\ caller[c] \in CallerType
    BY <1>6 DEF Join, Inv, CallerShape, TypeOK
  <2>2. flights[caller[c].key] \in 0 .. MaxFlights
    BY <2>1 DEF Inv, TypeOK
  <2>3. caller' \in [Callers -> CallerType] /\ CallerShape'
    BY <1>6, <2>1, <2>2 DEF Join, Inv, TypeOK, CallerShape, CallerType
  <2>4. Serves(flights[caller[c].key], caller[c].key)
    BY <1>6, <2>1 DEF Join, Inv, SingleFlight, MapIsExact, Registered, Serves, Live
  <2>5. \A d \in Callers :
          caller'[d].phase = "waiting" => Serves(caller'[d].on, caller'[d].key)
    <3>1. /\ caller'[c].on = flights[caller[c].key] /\ caller'[c].key = caller[c].key
          /\ \A d \in Callers \ {c} : caller'[d] = caller[d]
      BY <1>6 DEF Join, Inv, TypeOK, CallerType
    <3>2. QED
      BY <2>4, <3>1 DEF Inv, OnItsFlight
  <2>6. OnItsFlight'
    BY <1>6, <2>5, ServedAsBefore DEF Join, CallerOnly
  <2>7. QED
    BY <1>6, <2>3, <2>6, RestKeepsInv, CacheLeft DEF Join, CallerOnly, Inv, TypeOK
<1>7. QED
  BY <1>1, <1>2, <1>3, <1>4, <1>5, <1>6 DEF CallerStep

(* Every step keeps the invariant, ...                                     *)
LEMMA StepKeepsInv ==
  ASSUME Inv, [Next]_vars
  PROVE  Inv'
<1>1. ASSUME NEW c \in Callers, CallerStep(c) PROVE Inv'
  BY <1>1, CallerKeepsInv
<1>2. ASSUME NEW f \in Flights, TaskStep(f) PROVE Inv'
  BY <1>2, TaskKeepsInv
<1>3. CASE Forget \/ Cancel \/ UNCHANGED vars
  <2>1. /\ UNCHANGED <<flights, flight, free, outbound, caller>>
        /\ cancelled' \in BOOLEAN
    BY <1>3 DEF Forget, Cancel, vars, Inv, TypeOK
  <2>2. cached' \subseteq cached /\ CacheIsOwn'
    <3>1. CASE Forget
      BY <3>1 DEF Forget, Inv, CacheIsOwn, cached
    <3>2. CASE UNCHANGED cache
      BY <3>2, CacheLeft
    <3>3. QED
      BY <1>3, <3>1, <3>2 DEF Cancel, vars
  <2>3. caller' \in [Callers -> CallerType] /\ CallerShape'
    BY <2>1 DEF Inv, TypeOK, CallerShape
  <2>4. OnItsFlight'
    BY <2>1, ServedAsBefore DEF Inv, OnItsFlight
  <2>5. QED
    BY <2>1, <2>2, <2>3, <2>4, RestKeepsInv
<1>4. QED
  BY <1>1, <1>2, <1>3 DEF Next

(* ... which holds before the first flight, ...                            *)
LEMMA InitialInv ==
  ASSUME Init
  PROVE  Inv
<1>1. Unborn \in FlightType /\ Shape(Unborn)
  BY DEF Unborn, AtRest, FlightType, FlightPhases, Working, Fetching, Attempting,
         Shape, Needed
<1>2. \A f \in Flights : flight[f] = Unborn /\ flight[f].phase = "unborn"
  BY DEF Init, Unborn, AtRest
<1>3. Live = {} /\ Registered = {}
  BY <1>2 DEF Live, Born, Registered, Init
<1>10. cached \subseteq Keys /\ CacheIsOwn /\ \A k \in cached : cache[k] \in ReportType
  <2>1. PICK K \in SUBSET Keys :
          /\ cache \in [K -> UNION {Received(k) : k \in K}]
          /\ \A k \in K : cache[k] \in Received(k)
    BY DEF Init
  <2>2. cached = K
    BY <2>1 DEF cached
  <2>3. QED
    BY <2>1, <2>2, ReceivedType DEF CacheIsOwn
<1>11. OnItsFlight
  BY DEF Init, OnItsFlight
<1>4. TypeOK
  <2>1. flight \in [Flights -> FlightType]
    BY <1>1 DEF Init
  <2>2. flights \in [Keys -> 0 .. MaxFlights]
    BY FlightsFinite DEF Init
  <2>3. caller \in [Callers -> CallerType]
    BY FlightsFinite DEF Init, CallerType
  <2>4. QED
    BY <1>10, <2>1, <2>2, <2>3, PermitsAssumption DEF Init, TypeOK
<1>5. CallerShape
  BY DEF Init, CallerShape
<1>6. SingleFlight /\ MapIsExact
  BY <1>3, FS_EmptySet, LookupsAssumption DEF SingleFlight, MapIsExact
<1>7. PermitsAccounted
  <2>1. Holding("outbound", {}) = 0 /\ Holding("provider", {}) = 0
    BY FS_EmptySet DEF Holding
  <2>2. \A p \in Providers : {f \in Live : ProviderOfFlight(f) = p} = {}
    BY <1>3
  <2>3. \A p \in Providers : free[p] + 0 = MaxConcurrency[p]
    BY PermitsAssumption DEF Init
  <2>4. outbound + 0 = MaxOutbound
    BY PermitsAssumption DEF Init
  <2>5. QED
    BY <1>3, <2>1, <2>2, <2>3, <2>4 DEF PermitsAccounted
<1>8. FetchOnlyWhatIsMissing
  BY <1>3 DEF FetchOnlyWhatIsMissing
<1>9. QED
  BY <1>1, <1>2, <1>4, <1>5, <1>6, <1>7, <1>8, <1>10, <1>11 DEF Inv

(* ... and so throughout.                                                  *)
LEMMA Inductive == Spec => []Inv
  BY InitialInv, StepKeepsInv, PTL DEF Spec

-----------------------------------------------------------------------------
(* Every value of the variables is one they are declared with.             *)
THEOREM TypeCorrect == Spec => []TypeOK
<1>1. Inv => TypeOK
  BY DEF Inv
<1>2. QED
  BY <1>1, Inductive, PTL

(* Whatever the callers and the tasks do, a key has at most one live       *)
(* flight, the one in the map, and there are no more than the service      *)
(* allows (subscribe, the end of the task).                                *)
THEOREM OneFlightPerKey == Spec => []SingleFlight
<1>1. Inv => SingleFlight
  BY DEF Inv
<1>2. QED
  BY <1>1, Inductive, PTL

(* No attempt is spent on a report that is in the cache, unless the cache  *)
(* could not be read (perform).                                            *)
THEOREM NothingFetchedTwice == Spec => []FetchOnlyWhatIsMissing
<1>1. Inv => FetchOnlyWhatIsMissing
  BY DEF Inv
<1>2. QED
  BY <1>1, Inductive, PTL

(* Whatever a caller is told, from the cache or by a flight, was received  *)
(* for the key it asked for, and so was what the cache has; unless the key  *)
(* is a URL's, it names the key's indicator or says that there is no        *)
(* report, whatever the providers send (decode, perform, subscribe, lookup). *)
THEOREM ReportsAreForTheirKey == Spec => []OwnReport
<1>1. ASSUME NEW k \in Keys, NEW report \in Received(k)
      PROVE  IsOwn(k, report)
  <2>1. PICK about \in ReportsAbout[k] : report = [asked |-> k, about |-> about]
    BY DEF Received
  <2>2. KindOf[k] # "url" => about \in {k, None}
    BY ReportsAreOwn
  <2>3. QED
    BY <2>1, <2>2 DEF IsOwn
<1>2. ASSUME Inv PROVE OwnReport
  <2>1. \A c \in Callers : caller[c].told # None =>
          caller[c].key \in Keys /\ caller[c].told \in Received(caller[c].key)
    BY <1>2 DEF Inv, CallerShape
  <2>2. \A k \in cached : k \in Keys /\ cache[k] \in Received(k)
    BY <1>2 DEF Inv, TypeOK, CacheIsOwn
  <2>3. QED
    BY <1>1, <2>1, <2>2 DEF OwnReport
<1>3. QED
  BY <1>2, Inductive, PTL

(* Every permit is free or with one flight, through every end of an        *)
(* attempt (fetch).                                                        *)
THEOREM PermitsNeverLost == Spec => []PermitsAccounted
<1>1. Inv => PermitsAccounted
  BY DEF Inv
<1>2. QED
  BY <1>1, Inductive, PTL

(* So no provider has more attempts under way than it may, nor the service *)
(* more than its own; and a lookup makes at most two (fetch).              *)
THEOREM AttemptsNeverExceed == Spec => []AttemptsBounded
<1>1. ASSUME Inv PROVE AttemptsBounded
  <2> DEFINE Holders == {f \in Live : "outbound" \in flight[f].permits}
             Of(p) == {f \in {g \in Live : ProviderOfFlight(g) = p} :
                         "provider" \in flight[f].permits}
  <2>1. IsFiniteSet(Live) /\ Live \subseteq Flights
    BY FlightsFinite, FS_Subset DEF Live, Born
  <2>2. \A f \in Live : flight[f].phase = "send"
          => flight[f].permits = {"provider", "outbound"}
    BY <1>1, <2>1 DEF Inv, Shape, Needed, Attempting
  <2>3. ASSUME NEW p \in Providers
        PROVE  Cardinality(Sending(p)) =< MaxConcurrency[p]
    <3>1. Sending(p) \subseteq Of(p)
      BY <2>2 DEF Sending
    <3>2. IsFiniteSet(Of(p))
      BY <2>1, FS_Subset
    <3>3. free[p] \in Nat /\ free[p] + Cardinality(Of(p)) = MaxConcurrency[p]
      BY <1>1 DEF Inv, TypeOK, PermitsAccounted, Holding
    <3> HIDE DEF Of
    <3>4. /\ Cardinality(Of(p)) \in Nat /\ Cardinality(Sending(p)) \in Nat
          /\ Cardinality(Sending(p)) =< Cardinality(Of(p))
      BY <3>1, <3>2, FS_Subset, FS_CardinalityType
    <3>5. QED
      BY <3>3, <3>4
  <2>4. Cardinality(UNION {Sending(p) : p \in Providers}) =< MaxOutbound
    <3> DEFINE All == UNION {Sending(p) : p \in Providers}
    <3>1. All \subseteq Holders
      BY <2>2 DEF Sending
    <3>2. IsFiniteSet(Holders)
      BY <2>1, FS_Subset
    <3>3. outbound \in Nat /\ outbound + Cardinality(Holders) = MaxOutbound
      BY <1>1 DEF Inv, TypeOK, PermitsAccounted, Holding
    <3> HIDE DEF Holders, All
    <3>4. /\ Cardinality(Holders) \in Nat /\ Cardinality(All) \in Nat
          /\ Cardinality(All) =< Cardinality(Holders)
      BY <3>1, <3>2, FS_Subset, FS_CardinalityType
    <3>5. Cardinality(All) =< MaxOutbound
      BY <3>3, <3>4
    <3>6. QED
      BY <3>5 DEF All
  <2>5. \A f \in Live : flight[f].sends =< 2
    BY <1>1, <2>1 DEF Inv, TypeOK, FlightType
  <2>6. QED
    BY <2>3, <2>4, <2>5 DEF AttemptsBounded
<1>2. QED
  BY <1>1, Inductive, PTL

-----------------------------------------------------------------------------
(* What a step may never do *)

(* No caller joins a flight that has published, so none is told a result   *)
(* older than its own question (subscribe).                                *)
THEOREM NothingStaleIsJoined == Spec => NoStaleJoin
<1> DEFINE Fresh == \A c \in Callers : caller'[c].on \notin {0, caller[c].on} =>
                      flight'[caller'[c].on].phase # "gone"
<1>1. ASSUME Inv, [Next]_vars PROVE Fresh
  <2>1. CASE UNCHANGED caller
    BY <2>1
  <2>2. ASSUME NEW c \in Callers, CallerStep(c) PROVE Fresh
    <3>1. caller \in [Callers -> CallerType]
      BY <1>1 DEF Inv, TypeOK
    <3>2. CASE ReadHit(c) \/ Refuse(c) \/ Receive(c) \/ GiveUp(c)
      BY <3>1, <3>2 DEF ReadHit, Refuse, Receive, GiveUp, Answer, CallerType
    <3>3. CASE ReadMiss(c)
      BY <3>1, <3>3 DEF ReadMiss, CallerType
    <3>4. CASE Join(c)
      <4>1. caller[c].key \in Registered
        BY <1>1, <3>4 DEF Join, Registered, Inv, CallerShape
      <4>2. flight'[flights[caller[c].key]].phase # "gone"
        BY <1>1, <3>4, <4>1 DEF Join, CallerOnly, Inv, SingleFlight, Live
      <4>3. QED
        BY <3>1, <3>4, <4>2 DEF Join, CallerType
    <3>5. CASE Register(c)
      <4>1. PICK f \in Flights :
              /\ flight' = [flight EXCEPT ![f].key = caller[c].key,
                                         ![f].phase = "recheck"]
              /\ caller' = [caller EXCEPT ![c].phase = "waiting", ![c].on = f]
        BY <3>5 DEF Register
      <4>2. flight'[f].phase = "recheck"
        BY <1>1, <4>1 DEF Inv, TypeOK, FlightType
      <4>3. QED
        BY <3>1, <4>1, <4>2 DEF CallerType
    <3>6. QED
      BY <2>2, <3>2, <3>3, <3>4, <3>5 DEF CallerStep
  <2>3. ASSUME NEW f \in Flights, TaskStep(f) PROVE Fresh
    BY <1>1, <2>1, <2>3, TaskForm DEF Becomes
  <2>4. QED
    BY <1>1, <2>1, <2>2, <2>3 DEF Next, Forget, Cancel, vars
<1>2. QED
  BY <1>1, Inductive, PTL DEF Spec, NoStaleJoin

(* A report that was fully decoded is the result of its flight, unless the *)
(* flight is cancelled or panics (perform).                                *)
THEOREM ReportsAreKept == Spec => KeptReport
<1>1. ASSUME Inv, [Next]_vars PROVE ReportStep
  <2> SUFFICES ASSUME NEW f \in Flights, flight[f].phase = "save",
                      flight'[f].phase = "done"
               PROVE  \/ flight'[f].result \in {"report", "internal_error"}
                      \/ cancelled /\ flight'[f].result = "provider_timeout"
    BY DEF ReportStep
  <2>1. flight \in [Flights -> FlightType]
    BY <1>1 DEF Inv, TypeOK
  <2>2. flight'[f] # flight[f]
    OBVIOUS
  <2>3. ASSUME NEW c \in Callers, CallerStep(c) PROVE FALSE
    <3>1. CASE Register(c)
      <4>1. PICK g \in Flights :
              g \notin Born /\ flight' = [flight EXCEPT ![g].key = caller[c].key,
                                                      ![g].phase = "recheck"]
        BY <3>1 DEF Register
      <4>2. QED
        BY <2>1, <2>2, <4>1 DEF Born
    <3>2. CASE CallerOnly
      BY <2>2, <3>2 DEF CallerOnly
    <3>3. QED
      BY <2>3, <3>1, <3>2
      DEF CallerStep, ReadHit, ReadMiss, Join, Refuse, Receive, GiveUp
  <2>4. ASSUME NEW g \in Flights, TaskStep(g)
        PROVE  \/ flight'[f].result \in {"report", "internal_error"}
               \/ cancelled /\ flight'[f].result = "provider_timeout"
    <3>1. g = f
      BY <1>1, <2>2, <2>4, TaskForm, LiveAfter
    <3>2. Save(f) \/ Panic(f) \/ CancelTask(f)
      BY <2>4, <3>1
      DEF TaskStep, Progress, Outcome, RecheckHit, RecheckMiss, AcquireProvider,
          AcquireOutbound, Dispatch, ReserveFails, Wake, TimeOut, Publish, Report,
          SendFails, Retry, Fetching, Attempting
    <3>3. ASSUME NEW result, NEW report, Complete(f, result, report)
          PROVE  flight'[f].result = result
      BY <2>1, <3>3 DEF Complete, AtRest
    <3>4. QED
      BY <3>2, <3>3 DEF Save, Panic, CancelTask, Fail
  <2>5. CASE Forget \/ Cancel \/ UNCHANGED vars
    BY <2>2, <2>5 DEF Forget, Cancel, vars
  <2>6. QED
    BY <1>1, <2>3, <2>4, <2>5 DEF Next
<1>2. QED
  BY <1>1, Inductive, PTL DEF Spec, KeptReport

-----------------------------------------------------------------------------
(* The flights are the tasks of LookupTasks, but for the fairness: never   *)
(* more than the map has places for, none spawned after the cancellation.  *)
FlightsBehaveAsTasks == Tracked!SafeSpec

(* The abstract specification counts as this module does.                  *)
LEMMA TrackedCardinality == \A S : Tracked!Cardinality(S) = Cardinality(S)
BY DEF Tracked!Cardinality, Cardinality

(* Each step of the flights is one of the tasks, or none.                  *)
LEMMA StepIsTaskStep ==
  ASSUME Inv, [Next]_vars
  PROVE  [Tracked!Next]_<<Live, cancelled>>
<1>1. ASSUME NEW c \in Callers, CallerStep(c)
      PROVE  [Tracked!Next]_<<Live, cancelled>>
  <2>1. CASE Register(c)
    <3>1. PICK f \in Flights :
            f \notin Born /\ flight' = [flight EXCEPT ![f].key = caller[c].key,
                                                    ![f].phase = "recheck"]
      BY <2>1 DEF Register
    <3>2. flight \in [Flights -> FlightType]
      BY <1>1 DEF Inv, TypeOK
    <3>3. f \notin Live /\ Live' = Live \cup {f}
      BY <3>1, <3>2 DEF Live, Born, FlightType
    <3>4. ~cancelled /\ cancelled' = cancelled
          /\ Cardinality(Live) < MaxSharedLookups
      BY <2>1, LiveCount DEF Register
    <3>5. Tracked!Spawn(f)
      BY <3>3, <3>4, TrackedCardinality DEF Tracked!Spawn
    <3>6. QED
      BY <3>5 DEF Tracked!Next
  <2>2. CASE CallerOnly
    BY <2>2 DEF CallerOnly, Live, Born
  <2>3. QED
    BY <1>1, <2>1, <2>2
    DEF CallerStep, ReadHit, ReadMiss, Join, Refuse, Receive, GiveUp
<1>2. ASSUME NEW f \in Flights, TaskStep(f)
      PROVE  [Tracked!Next]_<<Live, cancelled>>
  <2>1. PICK r : Becomes(f, r)
    BY <1>2, TaskForm
  <2>2. cancelled' = cancelled /\ f \in Live
        /\ Live' = IF r.phase = "gone" THEN Live \ {f} ELSE Live
    BY <2>1, LiveAfter DEF Becomes
  <2>3. CASE r.phase = "gone"
    <3>1. Tracked!End(f)
      BY <2>2, <2>3 DEF Tracked!End
    <3>2. QED
      BY <3>1 DEF Tracked!Next
  <2>4. CASE r.phase # "gone"
    BY <2>2, <2>4
  <2>5. QED
    BY <2>3, <2>4
<1>3. CASE Cancel
  <2>1. Tracked!Cancel
    BY <1>3 DEF Cancel, Live, Born, Tracked!Cancel
  <2>2. QED
    BY <2>1 DEF Tracked!Next
<1>4. CASE Forget \/ UNCHANGED vars
  BY <1>4 DEF Forget, vars, Live, Born
<1>5. QED
  BY <1>1, <1>2, <1>3, <1>4 DEF Next

(* Whatever Server assumes of the tasks but their end, SharedLookup's      *)
(* flights do (Enrichment::tasks, flights and cancel).                     *)
THEOREM FlightsImplementTasks == Spec => FlightsBehaveAsTasks
<1>1. Init => Tracked!Init
  BY DEF Init, Tracked!Init, Live, Born, Unborn, AtRest
<1>2. QED
  BY <1>1, StepIsTaskStep, Inductive, PTL
  DEF Spec, FlightsBehaveAsTasks, Tracked!SafeSpec
=============================================================================
