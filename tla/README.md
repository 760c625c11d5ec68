# Verification of rustEnrich in TLA+

rustEnrich is an HTTP service that answers batches of indicators (addresses,
URLs, file hashes) with reports of threat-intelligence providers. It keeps
reports and quota accounting in one SQLite database, joins equal questions into
shared lookups, limits what it sends to a provider, and drains itself when it
is stopped. This directory holds the models of those parts, the TLC
configurations that check them, and TLAPS proofs about the quota accounting,
the shared lookups, the report cache, the batches, the permits of the server and
the life of the process with its database.
Source references are relative to the root of the repository (`src/src/*.rs`
are the Rust sources, `src/SPEC.md` their specification).

## The system

| Part | State it keeps | Operations | What is hard |
| --- | --- | --- | --- |
| Quota of a provider group (`storage.rs`) | tables `quota_state`, `quota_attempts`, `storage_metadata`; in memory the high-water mark, `pending` feedback with its generation | `reserve`, `feedback`, `retry_after`, `initialize` | the operation can be dropped at every await, also after SQLite has committed; feedback arrives while a transaction is under way; the process stops at any step; the wall clock may be set back |
| Report cache (`storage.rs`) | table `cache_entries` | `cache_get`, `cache_put`, `cleanup`, `initialize` | two clocks (wall and mark), time to live and limits that change with a restart, eviction in chunks |
| Shared lookups (`enrichment.rs`) | the map of flights, a watch channel per flight, two levels of semaphores, a cancellation token | `lookup`, `subscribe`, `perform`, `fetch`, `send`, `drain`, `cancel` | joins, registrations and ends of flights interleave; every await can be ended by a deadline, a cancellation or a panic |
| Server (`server.rs`, `http.rs`) | connection tasks, socket, admission and health permits, three cancellation tokens, the flag `available` of the storage | accept loop, `handle`, `health`, `enrich`, maintenance task, shutdown | a permit belongs to a connection until its bytes are written; requests admitted before the shutdown spawn lookups during it |
| Opening and closing the database, process entry (`storage.rs`, `main.rs`) | the file with its tables and `user_version`; the operating system's lock beside it | `open`, `initialize`, `close`, `run` | a second process on the same path; kills and deadlines between any two steps; a commit that outlives the process's interest in it |
| Batch assembly and request validation (`http.rs`, `domain.rs`, `serialization.rs`) | the bytes of the body, slots, pairs and their answers, for one request | `enrich_admitted`, `validate_request`, `project` | lookups of one request end in any order; size budgets over shared raw reports; a client that stalls |
| Answers of the providers (`enrichment.rs`, `providers.rs`) | none | `send`, `decode` | an answer can break off, be about something else or be of any status |
| Configuration, clock | none that changes | reading the environment, the time | sequential and covered by unit tests |

How they interact. The process opens the database, serves, and closes it when
the server has ended; another process on the same path finds it locked. A
connection task calls `enrich`, which takes an admission
permit, reads and validates the body, calls `lookup` for every different pair
and puts the answers into the slots of the response. A lookup reads the cache
and joins or registers a flight. The flight is a task of the service: it reads
the cache again, takes a permit of its provider, then a global one, calls
`reserve`, sends, hands the response's headers to `feedback`, and saves the
report with `cache_put`. All storage operations run one at a time behind the
async mutex `gate` and inside `bounded`, which drops them at a deadline and
writes the flag `available` that `enrich` reads. Only the pending feedback,
behind a mutex of its own, changes while another task has the gate.

What makes each part correct, in a sentence each: the quota never gives more
than its budgets and never sends before a told cooldown has ended; a told delay
is worth waiting for; a key has one flight, which ends, and permits are not
lost; the cache keeps its limits, keeps what it may and does not bring back
what has expired; the server neither loses nor exceeds its permits and its
shutdown ends with nothing left running when the storage closes; a database is
whole and in use by one process; a request is answered as a whole, each slot by
its own lookup, within its size limits.

## The modules

| Module | Models |
| --- | --- |
| `QuotaRules` | pure operators: `QuotaState` (`advance_day`, `expire_feedback`, `apply_feedback`, `ensure_unknown_cooldown`), `merge_feedback`, `feedback_from_headers`, `quota_decision` |
| `Quota` | `reserve` and `feedback` of one group, split at the points where the code can be interrupted (begin, commit, finish), with restarts and both clocks; its properties and the invariants of the proofs |
| `QuotaLedger` | the abstract specification: a list of reservations that keeps the budgets. `Quota` implements it (`BudgetsRespected`, the list being the history variable `log`) |
| `QuotaPromises` | `Quota` composed with the delays told by refusals and by `retry_after` |
| `ProviderAnswers` | pure operators: `decode` and the classification of `send`, over everything a provider may answer |
| `SharedLookup` | `lookup`, `subscribe`, `perform`, `fetch`, with the outcomes of `send` that `ProviderAnswers` gives: one step from await to await |
| `LookupTasks` | the abstract specification of the tasks of the tracker. `SharedLookup` implements it (`FlightsAreLookupTasks`), and `Server` spawns and ends its lookups with its actions |
| `ReportCache` | `cache_get`, `cache_put`, `cleanup`, `evict`, `delete_expired` and their share of `initialize` |
| `Server` | `serve`, the connection task, `handle`, `health`, `enrich`, the maintenance task, the flag `available`, `drain` and the shutdown |
| `Database` | `Storage::open`, `initialize` and `close` for several processes on one path |
| `Process` | `run` of `main.rs`: `Server` composed with `Database`, over restarts and kills |
| `BatchRules` | pure operators: `supported_media_type`, `validate_request`, the identity of pairs and the positions of slots, `project` and the writers of `serialization.rs` |
| `Batch` | `enrich_admitted`: the body chunk by chunk, validation, the concurrent lookups, the response |
| `QuotaProofs` | the theorems about `Quota` |
| `QuotaPromiseProofs` | the theorem about the delays told by `QuotaPromises` |
| `SharedLookupProofs` | the theorems about `SharedLookup`, with its refinement of `LookupTasks` |
| `ReportCacheProofs` | the theorems about `ReportCache` and about what `Evict` comes to |
| `BatchProofs` | the theorems about `Batch` and about the rules of `BatchRules` |
| `RecursionLemmas` | lemmas about smallest sets, recursive functions, sums over finite sets and left folds, on which the proofs about `Evict` and about `Batch` rest |
| `ServerProofs` | the theorems about the permits of `Server` |
| `ProcessProofs` | the theorems about `Process`, and so about `Database` and the shutdown of `Server`; it uses those of `ServerProofs` |
| `MC...` | instances of these for TLC |

### Correspondence to the code

*Quota.* `row`, `attempts` and `durableMark` are the tables and change only in
the three commit actions (and `OtherGroupCommit`); `mark`, `pending` and
`generation` are `RuntimeState`. `tx` is the operation that has the gate with
the time and the snapshot it has read. `BeginReserve` is the code up to the
opened transaction, `CommitRefusal` and `CommitReservation` everything to
`tx.commit()`, `FinishReserve` what follows (`clear_pending`, the second look
at `pending`). A drop before the commit is `Fail` in phase `reserving`, a drop
after it `Fail` in phase `charged`; a crash is `Restart` in either. The other
quota group and the cache share the gate and the mark: `OtherGroupCommit` and
`Observe`. The early return of `reserve` while the clock is behind the mark
changes nothing in `Quota`; its delay is in `QuotaPromises`.
History variables: `log` (reservations ever made), `heard` and `kept` (the
longest cooldown told to this process, and saved by any).

*QuotaPromises.* `promise` is the last delay told that nothing has overtaken:
another reservation, a newer response, changed limits, or a clock set back.
`Refusing` is `CommitRefusal` with the delay of its verdict; a refusal that finds
newer feedback at its end is an error and tells nothing (`Untold`,
`storage.rs:548-560`). A delay that `retry_after` tells while feedback waits to be
saved is marked `unsaved` and `PromiseKept` does not speak of it, for the code
does not keep it: `unobserved_attempts` is taken off a told allowance only where the
row had none, so the same feedback comes to less when it is saved after the
row's own window has ended; and an allowance that is exhausted without an end
starts its fallback cooldown when it is saved, not when the delay was told.

*SharedLookup.* `flights` is the map, `flight[f]` the task and its channel.
The critical sections under the mutex of the map are the actions `Join`,
`Refuse`, `Register` and `Publish`. Time is abstract: a deadline may pass at any
await (`TimeOut`, `GiveUp`), and where the code asks how much time is left both
branches are possible. What the cache and the quota answer is a choice; what
the provider answers is one of `Answers`, and what it comes to is computed. A
reset while the body is read is retried whatever the status was, as in the
code (`enrichment.rs:467`), also for a 401 or 429; a second attempt after a 429
meets the cooldown of the first. Each call begins with its look at the cache and
ends when it is answered; a flight that has published, or that only saves, is
reduced to what can still be seen of it.
`cache` has the reports `cache_get` would serve. A report is told by the key it was
received for (`asked`) and the indicator it names (`about`), and is followed from
`Report` over the save, the flight's result and the cache to the callers (`told`),
so `OwnReport` speaks of what callers get. Of a URL it claims only the former:
the report of a URL names a digest, which `decode` does not compare with the URL.
The wall clock is taken not to be set back inside this module, for a clock set back makes an
entry unreadable and then readable again, which `ReportCache` is about.

*ReportCache.* The gate makes each operation one step. `told` is the answer of
a `cache_put` that ends in the step, `dead` the reports `cache_get` has found
expired. Classes stand for the pairs of kind and status that `Storage::ttl`
tells apart.

*Server.* A place of `Clients` stands for one connection at a time, with the
permit it holds in `conn[c].permit` (`ConnectionContext::permit`). `firstDrain`
is the drain that is joined with `connections.wait()`. `UseStorage` is the end
of an operation in `bounded`, `UseStorageTooLate` one that its caller's deadline
ended. `Lookups` are the places of the map of flights, their tasks those of
`LookupTasks`.

*Database and Process.* `proc[p]` is where a process is, `disk` what a later
opening would find. `initialize` reads version and integrity outside of any
transaction (`Check`), creates the schema in one transaction that counts the
tables itself (`Create`), and reads the rows in a second one (`Load`). `GiveUp`
is the drop of the Storage on an error or at the deadline: the lock goes with
it, while what was handed to SQLite may still be committed (`late`,
`CommitLate`). `Process` runs `Server` while the database is open; its last step,
`CloseStorage`, begins `Storage::close`. A start that fails after the database was
opened drops the Storage (`StartFails`, `Drop`). What the server should have left running
would run on, so `UsersHaveTheLock` is a statement about the shutdown.

*Batch.* One request. Fields of a body are `Missing`, of an `OtherType`, or have
contents; `LookupOf` stands for the parsers. `answers[n]` is what the lookup of
pair `n` has returned, `collected` what `buffered` has yielded, and
`Results` the slots. Sizes are numbers of bytes of the instance; the code's
constants are the parameters `EnvelopeLimit`, `Buffered` and `DetailLimit`.

## What the runs check

Every property is stated in words where it is defined, with the code it is
about, and each has a mutant of a mapped definition (the definitions marked
*Fault*) under which it fails.

| Run | Shows | Bounds |
| --- | --- | --- |
| `budgets` | budgets of day and minute over all reservations ever made (`BudgetsRespected`), the tables against that list (`LedgerInv`), every dispatch paid for by a reservation of its own (`DispatchIsPaidFor`) | 2 tasks, 4 reservations, clock 0..6 with minute 3 and day 4, so both boundaries come in either order and twice; three configurations that raise, lower and switch off the limits |
| `feedback` | `CooldownHonoured`, `NoResurrectedAllowance`, and what they rest on (`CooldownInv`, `TypeOK`) | 2 tasks, 2 responses per process of four kinds, 3 reservations, clock 0..3 |
| `promises_kept` | `PromiseKept`: a delay told by the database's refusal, or by `retry_after` when no feedback waits, is long enough | 2 tasks, 2 reservations, one response per process of three kinds (an allowance in its window, an exhausted one without an end, a 429), clock 0..4 with minute 3, day 4 and seconds of 2 ticks so that rounding shows |
| `flights` | `SingleFlight`, `NoStaleJoin`, `FetchOnlyWhatIsMissing`, `KeptReport`, `PermitsAccounted` | 3 callers (an owner, one that joins, one that comes after), 3 keys of one provider, 2 flights at a time, every semaphore with 1 permit, so that each is contended and the map is full |
| `lookups_end` | `FlightsEnd`, `CallersAnswered`, `OwnReport`, `AttemptsBounded`, and the refinement `FlightsAreLookupTasks` | 2 callers, 2 keys of two providers (an address and a URL) that share the one global permit |
| `lifetime` | `StorageClosesLast`, `PermitsAccounted`, `RequestsBounded`, `OneWholeDatabase`, `CreateFromEmpty`, `UsersHaveTheLock` | 5 places for 4 sockets, 1 request, 2 health probes, 1 lookup; 2 processes, 7 kinds of database file, any number of starts |
| `shutdown_ends` | `ShutdownEnds`, `AvailabilityReturns` | 2 places, 1 lookup |
| `cache` | `CacheBounded`, `NothingLostEarly`, `NoResurrection`, `ToldIsServable` | 3 keys, 3 reports of 2 sizes, chunks of 2, two configurations, clock 0..2 |
| `batch` | `WholeBatch`, `EachLookedUpOnce`, `OwnAnswers`, `RawWithinBudget`, `NoLateOverflow`, `RequestAnswered` | up to 2 valid items (two spellings of a hash, an address) of 2 providers, so 4 slots with 1 to 4 pairs, which may all be under way at once (`Buffered` is 4 = 2 items * 2 providers, as 40 = 20 * 2 in the code); every way in which an item or a field can be wrong; outcomes of 3 sizes, so that both size limits are reached from either side |

The run `cache` also evaluates the assumption `EvictIsLeast` of `MCReportCache`:
the loop of `evict`, in rounds of a chunk, leaves exactly the rows that fit
together with all younger ones, over all tables of 4 rows with two ages and two
sizes, limits of 0 to 4 rows and 0 to 6 bytes.

Bounds stop what would not end: the wall clock (`MaxTime`), reservations
(`MaxGrants`), responses per process (`MaxFeedbacks`), reports (`MaxReports`). A
call of `lookup` is made once and `Batch` is one request, so these runs stop when
all are answered and deadlock is not checked there; in the other models some
step is always possible. Symmetry is used among tasks, callers, places and -
where one provider has all keys - keys, and never in a run with a liveness
property. Servers and databases are restarted without bound.

### Where code and documents disagree

Three runs end in a counterexample. Each checks a sentence of the repository
against what the code does.

* `clock_promise` (`ClockPromiseKept`). While the clock is behind the mark,
  `reserve` tells the time the clock needs and nothing else
  (`src/src/storage.rs:503`). `src/SPEC.md:497` asks for the longest known
  applicable delay. A cooldown or a full day that outlasts it is known to the
  database, and `retry_after` would tell it.
* `paced_probes` (`PacedProbes`). After the fallback cooldown of an exhausted
  allowance, `expire_feedback` forgets the allowance (`storage.rs:757`), so
  everything is let through until a response is heard. The comment at
  `storage.rs:815`, `SPEC.md:497` and the test at `storage.rs:1471` speak of
  paced probes.
* `false_alarm` (`NoFalseAlarm`). `bounded` marks the storage unavailable also
  when only its caller's deadline has passed (`storage.rs:305-308`), and `enrich`
  then answers 503, which `SPEC.md:325` reserves for known unavailable storage.

## Fairness

`SharedLookup`, `LookupTasks`, `Server` and `Batch` state liveness. The runtime polls every ready
task and fires every timer: weak fairness on each task's own steps, on the
passing of deadlines and on the steps of `serve`. Nothing is assumed of a
provider (its answer is outside the fair steps), of a client, or of callers
giving up. `LookupTasks` promises that a cancelled task ends and nothing else, and
`SharedLookup` keeps that promise under its own fairness. In `Batch` a lookup ends,
which is `CallersAnswered` of `SharedLookup` together with the caller's deadline.
`EndMaintenance` has strong fairness since `tokio::select!` takes
one of the ready branches at random, and so not the same one for ever.
`AvailabilityReturns` assumes that from some time on the storage works and the
service is not being stopped.

## What is proved

`QuotaProofs` proves for every set of tasks, every set of limits and headers,
all lengths of minute, day and second, and all bounds:

1. `TypeCorrect`: `TypeOK` and the gate (`GateInv`): at most one operation is
   past its first await, and the time it has read is the mark.
2. `LedgerIsExact`: `LedgerInv`. This is the inductive strengthening of the
   budgets: the count in the row is the number of reservations of its day, no
   reservation is later than the durable mark, and each one the rolling minute
   can still reach has its row in `attempts`. It needs `GateInv`, for the mark
   that is saved must be the time at which attempts were trimmed.
3. `QuotaImplementsLedger`: `BudgetsRespected`, the refinement. An allowed
   reservation of `Quota` is one of `QuotaLedger`, since the reservations of the
   minute map one to one into attempt rows (`MinuteIsCovered`) and the reading of
   the row counts those of today (`ReadingCounts`).
4. `CooldownsAreHonoured`: `CooldownHonoured`, from `CooldownInv` (itself the
   theorem `CooldownsAreKept`): a told cooldown
   is pending in memory or covered by the row until the durable clock has passed
   it. The lemmas `...Covers` show that nothing done to a row uncovers it.
5. `EveryDispatchIsPaidFor`: `DispatchIsPaidFor`, from `HeldInv`: a serial number
   is new when it is given, is given once, and is let go on every way that does
   not lead to the dispatch.
6. `AllowanceNeverResurrected`: `NoResurrectedAllowance`. An allowance whose
   window goes on (`Lasting`) stays one and falls or keeps its value under each
   rule; two rules are applied in one commit, so the lemmas say of each that the
   window is not ended by it, too (`NotEndedLasts`).

`QuotaPromiseProofs` proves `DelaysAreKept` (`PromiseKept`) for all limits, headers,
units and clocks. Three arguments meet in it:

1. The window (`WindowHasRoom`). The attempts are strictly ordered, so every place
   in a full window is taken (`PlacesTaken`: the place of an attempt is an injection
   into as many numbers as there are attempts), the attempt that `LIMIT 1 OFFSET`
   looks for exists, and when it has aged out fewer than the limit are left.
2. The row (`RefusalClears`, `StatusClears`, `ClearIsOpen`). `ToldCovers`: what is told
   reaches past every hold, rounded up. A row clears at a time (`RowClears`) if its
   cooldown and its exhausted window are over by then, and its day, too, if the
   budget is spent; such a row, aged to any later time, does not refuse. Here the
   positive day budget is needed (`LimitsType`; `config.rs:371`).
3. The steps. `PromiseInv`: while a delay is in force the row and the attempts clear
   at its end, the mark is not beyond it but for the wall clock, and no feedback
   waits in memory or in a transaction, unless the refusal is still on its way.
   The last part is what `PromiseKept` lacks to be inductive: feedback that waits
   could be saved into the row without overtaking the delay. It was found by the
   attempt to prove it, and so was the error that `Untold` stands for. The types,
   the gate and the ledger come from `Quota`, whose steps the steps of
   `QuotaPromises` are (`StepOfQuota`).

`SharedLookupProofs` proves for every set of callers, keys and providers and
every number of permits and places, from one inductive invariant, `Inv`: the
types; what a flight, a caller and the cache hold (`Shape`, `CallerShape`,
`CacheIsOwn`), and that a caller waits on a flight of its key (`OnItsFlight`);
that the map names exactly the living flights (`SingleFlight` and its converse,
`MapIsExact`); the permits; and `FetchOnlyWhatIsMissing`.

1. `TypeCorrect`, `OneFlightPerKey`, `PermitsNeverLost`, `NothingFetchedTwice`: parts
   of `Inv`. `FetchOnlyWhatIsMissing` needs `SingleFlight`, for only a second
   flight of the key could save a report behind the back of the first.
2. `ReportsAreForTheirKey` (`OwnReport`): whatever a caller is told, by a flight or
   from the cache, was received for its key: the parts of `Inv` follow the report
   from the flight to the cache and to the callers. That it also names the
   indicator comes from the facts about `ProviderAnswers`. The theorem claims this of
   every kind of key but URLs, of which the code does not compare it.
3. `AttemptsNeverExceed` (`AttemptsBounded`): counting the permits of `Inv`.
4. `NothingStaleIsJoined` and `ReportsAreKept` (`NoStaleJoin`, `KeptReport`): of each
   step of a state in which `Inv` holds.
5. `FlightsImplementTasks`: `SharedLookup` implements `LookupTasks!SafeSpec`, so what
   `Server` is built on is what the lookups keep. The fairness half of
   `FlightsAreLookupTasks` stays with TLC.

`ReportCacheProofs` proves for every limit, time to live, report and chunk of
the eviction:

1. `EvictFacts`: the rounds of `evict` end, within the limits, and what is left
   (`LeftOf`) is younger than all that is gone, of which nothing fitted together
   with its youngers. The argument is over ranks (the number of a row's
   elders), so a round cuts the table at one rank (`RoundLeaves`), and cutting
   twice is cutting once (`LeftOfLeft`).
2. `TypeCorrect`, `TableWithinLimits` (`CacheBounded`), `NothingIsLostEarly`
   (`NothingLostEarly`), `ToldReportsAreServable` (`ToldIsServable`), from types and
   `EvictFacts`. A row counts as lost if `cache_get` would still have returned it
   (`Alive`); that the WHERE of `delete_expired` spares all such rows is the lemma
   `ExpiredIsDead`.
3. `ExpiredStaysDead` (`NoResurrection`), from `PlaceInv`: each report is to
   come, in a hand, in the table or gone, and never in two of these, so one that
   was found expired and deleted cannot come back.

`Evict` and `Bytes` are written with recursive functions and folds. The
library's induction takes an operator as a parameter, which the provers cannot
instantiate, so `RecursionLemmas` argues by the least counterexample instead:
a set of numbers or of subsets has a smallest member (`LeastNumber`,
`SmallestSet`). From these follow that iterations and sums over a finite set
exist, are unique and are monotone.

`BatchProofs` proves for all bodies, providers, sizes and limits:

1. The rules. `ValidBody`: the number of details is a sum of what is wrong with
   each part, so a body without details has only valid items, and different known
   providers. `AssembleFacts`: after the first `i` slots (`Placed`), each has a
   position, its pair has the slot's identity, no identity has two pairs;
   `PlaceKeeps` is the step of the loop. `EntriesFacts`: as long as raw reports are
   asked for, what was taken so far and what is left (`LeftForRaw`) are together
   the budget, so what is written with its raw reports is at most `EnvelopeLimit +
   RawBudget`.
2. `AnswersAreOwn`, `BatchIsWhole`, `LookedUpOnce`, `RawKeepsBudget`,
   `WriterNeverOverflows` and `TypeCorrect` (`OwnAnswers`, `WholeBatch`,
   `EachLookedUpOnce`, `RawWithinBudget`, `NoLateOverflow`, `TypeOK`), from `BatchInv`:
   a request is what its submitted body says and its batch is assembled from it
   (`TakenOver`), an answer bears the identity of its pair (`AnswersInv`), and the
   `n`th answer collected is that of pair `n` (`CollectedInv`). Without the last, the
   positions of the slots would be those of other answers. That all lookups are
   under way at once is counted: a batch has no more pairs than items times
   providers, and `BufferedAssumption` allows as many (`buffered(40)`,
   `http.rs:331`; at most 20 items, `config.rs:237`; two providers).

The loops of the code are left folds over sequences (`Push`, `Place`); the lemmas
`FoldSteps` and `LeftFold` of `RecursionLemmas` give their intermediate values.
Of the bodies it is assumed (`BodiesAssumption`, `MarksAssumption`) that an array is
a sequence, that unknown members are counted, and that the marks `Missing`,
`OtherType` and `None` are told from contents.

`ServerProofs` proves for any number of connections and lookups that no permit is
lost (`EveryPermitAccounted`) and no more requests are in work than are admitted
(`NoMoreRequests`), from `ConnInv`: which permit a connection holds in each of its
phases.

`ProcessProofs` proves for every set of processes, connections and lookups and
every capacity:

1. `ProcessRunsDatabase`: each step of `Process` is a step of `Database` or leaves
   the file and its lock alone. What follows about the file is therefore proved
   from the steps of `Database`.
2. `DatabaseIsWhole` (`OneWholeDatabase`) and `CreatedFromEmpty` (`CreateFromEmpty`),
   from `DbInv`. `OneWholeDatabase` speaks of processes that are open; the
   induction needs what each knows on its way there (`Known`: it has the lock, and
   what it has read of the file still holds) and what others left behind: a
   creation that was cut off can still be committed only while the file is new
   (`late # {} => disk = NewFile`), because a commit ends every older snapshot.
3. `NothingRunsAtTheEnd` (`StorageClosesLast`), from `ServerInv`: from the second
   drain on no connection is open, and without one nothing spawns a lookup.
4. `UsersAreLocked` (`UsersHaveTheLock`), from `ProcessInv`: the two invariants
   above and that the server is at work only while `proc[Us] = "open"`. This is
   where the shutdown and the opening meet: without `ServerInv` the step
   `CloseStorage` would leave users behind.
5. `ProcessTypeCorrect` (`ProcessTypeOK`) and `PermitsInEveryStart`: types and
   permits of the server, over failed starts, kills and restarts.

All of them rest on the assumptions the modules name (units are positive, limits
are natural numbers and the one of the day is positive, tasks and places are finite, `None` is not a number, a record
or a process, `Us` is a process), which TLC evaluates in its runs.

Only model-checked: the operators of `ProviderAnswers` beyond what `OwnReport`
needs, and liveness with the fairness half of the refinements, which is out of
the prover's reach.

## What is not modelled

* The text of addresses, URLs and hashes, JSON syntax, the order and wording of
  validation details, the summaries of reports, configuration: sequential
  conversions; their results are tables, choices or constants here.
* SQLite, the lock of the operating system and the runtime are taken to do what
  they promise. Pragmas, paths and the lock file's creation are left out. A
  database whose rows another program changed is not a state of the models; the
  `InvalidData` returns it leads to are left out (a file that is damaged or of
  another program or release is in `InitialDisks`).
* 64-bit overflow of times and counters: the code uses checked or saturating
  arithmetic and its times are those of a calendar. The generation wraps after
  2^64 responses.
* HTTP framing, header syntax, logging, the wording of errors.
* The size limit of error bodies (`json_response`).

## Plan

Done: quota (rules, ledger, detailed model, promises, proofs), shared lookups
with the answers of the providers and the abstract lookup tasks (with proofs),
report cache, server, database and process, batch (all with proofs).

Next, in this order:

1. A composition of `SharedLookup` with `Quota` for the reservations of a flight's
   two attempts and the delays a response tells them.
2. The provider's own window: whether `unobserved_attempts` is enough when
   responses are lost, with the allowance the provider would count.
