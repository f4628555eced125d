# TLA+ models of the prometheus client_cpp library

This directory holds TLA+ specifications of the metrics library in
`src/prometheus` and of its libmicrohttpd integration in `src/integrations`, the
TLC configurations that check them on small instances, and TLAPS proofs of the
most important results for every size of instance.

- `tlc -config X.cfg M` runs one of the configurations listed under *Runs*.
- `tlapm M.tla` checks the proofs in one of the `*Proofs` modules and in
  `DataLemmas`.
- `PROJECT.json` says which definition models which lines of the source, which
  hazards the properties are aimed at, and, for each property, a plausible bug
  that makes TLC report it (the definitions marked *mutant*).

## The system

A program declares metrics (`Counter<2> c("name", "help", {"x", "y"})`),
updates them from any thread, and a scrape by a Prometheus server walks all of
them to build an exposition.

```
 client threads ──inc/set/observe──► values ◄──collect_value──┐
       │                               ▲                      │
       └────labels()/remove()──► LabeledMetric ◄──collect(mf)─┤
                                       ▲                      │
        constructors ──register_metric─┴► global_collector ◄──┤ collect()
                                                  │           │
        clients ──register_collector──► global_registry ──────┴─► OutputFormatter
                                                  ▲                     │
                           ProcessCollector ──────┘         HTTP reply ◄┘
```

| Component | State | Operations | Other parts it touches |
|---|---|---|---|
| `CollectorRegistry` (`registry.cc`) | vector of raw collector pointers, shared mutex | `register_collector`, `unregister_collector`, `collect` | calls `ICollector::collect` with the mutex held; counts failures in `collection_errors` |
| `Collector` (`collector.cc`) | vector of raw metric pointers, shared mutex | `register_metric`, `collect` | registered in `global_registry`; calls every metric's `collect` |
| Metrics (`metrics.cc`, `metrics.hh`) | name, help, labels, a value or a map of values | construction, `collect` | register in `global_collector` from the base constructor |
| `LabeledMetric` (`metrics.hh`) | map from label values to values, mutex | `labels`, `remove`, `clear`, `collect` | hands out references into the map |
| `CounterValue`, `IncDecGaugeValue`, `SetGaugeValue` (`values.cc`) | one `std::atomic<double>` | `inc`, `dec`, `set`, `value`, `collect_value` | — |
| `HistogramValue` (`values.cc`) | levels, cumulative counts, sum, mutex | construction, `observe`, `value`, `collect_value` | — |
| `histogram_levels*` (`values.cc`) | — | build lists of levels | passed to histograms |
| `shared_lock` (`mutex.hh`) | — | shared where the platform has it, exclusive on Apple | used by both collections |
| Output formatter (`output_formatter.cc`) | — | `render` as text or delimited protobuf | reads what `collect` returned |
| Process exports (`standard_exports.cc`) | — | `install_process_exports`, `collect` | opens four files under /proc on each scrape |
| libmicrohttpd integration | two counters | the access handler, the two recorders | scrapes `global_registry` on `/metrics` |
| `InProgress`, interval measures (`utils.hh`) | — | RAII around `inc`/`dec`, `set`, `observe` | values |
| Global objects | `global_registry`, `global_collector`, `collection_errors` | static initialisation | all of the above |

### What is hard, and what makes each part correct

- **Registry.** It calls foreign code while it holds a lock, and that code
  may return, throw `CollectionException` (swallowed and counted), or throw
  anything else (which leaves `collect`). It keeps raw pointers to objects with a
  lifetime of their own. The callee may even call back into the registry. Correct means: one
  collector's failure costs exactly its own families; all exits release the lock;
  a scrape sees the collectors of one instant; after `unregister_collector`
  returns nobody uses the collector; who waits for the lock gets it, as far as
  the mutex promises that.
- **Collector and construction.** Registration happens in the base
  constructor, cannot be undone, and the derived constructor may still throw.
  Correct means: each metric appears exactly once, for ever, and scrapes only
  call `collect` on complete, living objects. The last is *not* so; see *Findings*.
- **Static storage.** The registry, the collector, the default levels and most
  metrics are globals of different files. Correct means: every metric of static
  storage is exposed, whichever file declares it. That depends on the build; see
  *Findings*.
- **Scalar values.** A load and a compare-exchange loop over doubles with
  rounding, infinities and NaN. Correct means: no addition lost or doubled,
  counters never decrease, the loop is lock-free, and a gauge that `InProgress`
  objects change shows the sum of those that exist.
- **Histogram.** Each observation writes several buckets and a sum; each
  scrape reads them all. Correct means: cumulative buckets of one moment, every
  observation counted once.
- **Levels.** Rounding, overflow and NaN in computed lists of levels. Correct
  means: what the constructor accepts is strictly increasing and ends in +Inf.
- **LabeledMetric.** References escape the mutex; series are created, removed
  and created again. Correct means: a reference is the series that is exposed, and
  a scrape includes all increments made before it.
- **Formatter.** User-chosen strings in a line format; exceptions in the
  middle of output. Correct means: a reader gets back what was rendered.
- **Server and process exports.** Descriptors run out between two readers, an
  exception that is no `CollectionException` ends the process, two counters are
  read at different moments. Correct means: nothing leaks, and what is exposed
  is consistent from one scrape to the next.

## The modules

| Module | Models | Extends or instantiates |
|---|---|---|
| `SnapshotCollection` | what a collection of sources promises to scrapes (abstract) | |
| `Registry` | `registry.cc` | implements `SnapshotCollection` |
| `RegistryWaiting` | the threads that wait for the registry's mutex, collectors that call back | extends `Registry` |
| `Collector` | `collector.cc`, construction in `metrics.cc`/`.hh` | implements `SnapshotCollection` |
| `Program` | static initialisation, then `main()` and its threads | extends `Collector` |
| `LabeledMetric` | `LabeledMetric` in `metrics.hh` | implements `SnapshotCollection` |
| `AtomicScalar` | a scalar whose calls are one step (abstract) | |
| `ScalarValue` | counters and gauges of `values.cc` | implements `AtomicScalar` |
| `Utils` | `InProgress` of `utils.cc` | extends `ScalarValue` |
| `AtomicHistogram` | a histogram whose calls are one step (abstract) | |
| `Histogram` | `HistogramValue::observe`, `collect_value` | implements `AtomicHistogram` |
| `HistogramLevels` | construction and `value()` of histograms, the level builders | |
| `OutputFormatter` | `output_formatter.cc` | |
| `ProcessExports` | `ProcessCollector::collect` | |
| `Microhttpd` | the access handler and its counters | extends `ProcessExports` |
| `MC*` | values of the constants for TLC | each extends its module |
| `RegistryProofs`, `CollectorProofs`, `ScalarValueProofs`, `HistogramProofs`, `LabeledMetricProofs`, `MicrohttpdProofs` | theorems about the module of that name and those that extend it | each extends what it is about |
| `ExpositionProofs` | theorems about `HistogramLevels` and `OutputFormatter` | extends both |
| `DataLemmas` | lemmas about lists, induction, folds, sums, recursion | |

How state and actions correspond to the code:

- **`Registry`.** `collectors_` is the vector. `owners` are the shared owners of
  `mutex_`; the two exclusive functions run entirely under it, so each is one
  step that needs `owners = {}`. `collect` is a step to begin (lock and fresh list),
  one per virtual call, one per way in which the call may end
  (`CollectorReturns`, `CollectorFails`, `CollectorThrows`), and one to return.
  `alive` gives collectors a lifetime: clients create them, and destroy them once
  they are unregistered, as `collector.hh:47-50` asks. `CanLockShared` is
  `mutex.hh`: `Apple` makes a shared lock exclusive. A call that throws
  `CollectorManagementException` changes nothing. `CollectorFails` is the `catch` of
  `registry.cc:46`, which no code of this commit can reach (see *Findings*); the model has it
  because `collector.hh:32-35` invites collectors to throw.
- **`RegistryWaiting`.** In `Registry` an exclusive call happens when the mutex
  is free. Here it may also find the mutex taken (`CallWaits`), be remembered in
  `waiting`, and be `Granted` the mutex later. The standard leaves open whether a
  shared owner is let in while a writer waits; `writersFirst`, chosen at the
  beginning, is that choice (libstdc++ over glibc prefers readers, libc++ prefers
  writers). `CallsBack` is a collector that registers or unregisters from its
  own `collect()`, whose thread then waits for itself.
- **`Collector`.** `ConstructBase` is `AbstractMetric`'s constructor: it checks
  the name and then registers the object. `ConstructDerived` and
  `ConstructDerivedThrows` are what follows it. `phase` records how far each object's
  life has come. `collect()` on an object that is not `"live"` is undefined
  behaviour and takes the thread to `"undefined"`, from which it does nothing more.
- **`Program`.** `built` is the set of objects of static storage whose
  constructors have run; `Ready` lets one run when those before it have, where
  *before* is the order of definition within `collector.cc` and what the build
  adds (`BuildOrder`). A metric built before `global_collector` lands in a vector
  of zeros that `ConstructCollector` then sets to empty; a histogram built before
  the default levels reads the last element of an empty vector, which is
  `"undefined"`. `main()` begins when everything is built.
- **`ScalarValue`.** `Load` is the `value_.load()` with which `inc` starts; a
  `CompareExchange…` step is one turn of its loop. A weak compare-exchange that
  fails spuriously re-reads what it had: a stuttering step. `Plus`, `Neg` and
  `Less` are the double arithmetic.
- **`Utils`.** `scopes[t]` is the stack of `InProgress` objects of a thread:
  `Enter` is the constructor and the start of its `inc`, `Leave` the destructor of
  the innermost and the start of its `dec`, with the amount that the object holds.
  The turns of the loop are those of `ScalarValue`, between them other threads
  enter, leave and update.
- **`Histogram`.** Every bucket that a loop visits is a step; `Lock` and
  `Unlock` are the `lock_guard`. `Fresh` is the set of values that `samples_sum_` may have
  after construction, because no constructor sets it.
- **`LabeledMetric`.** A value is a numbered node, so that a series created
  again is a different value. `labels()` takes two steps under the mutex (look
  up, link a copy); `Increment` is a client's `inc()` through its reference, without the mutex.
  Clients forget the references that `remove()` and `clear()` invalidate, as
  `metrics.hh:111-123` asks; `before` and `exposed` record what a scrape found at its
  beginning and what it read.
- **`HistogramLevels`.** `levels` is the list a client wrote or a builder
  returned; `Construct` is the constructor, `add_inf` included; `value` is
  `value(double)`.
- **`OutputFormatter`.** One step per line or per message, in the order of the
  code, with each exception. Strings that users choose are sequences of
  characters, since escaping is the point; names and numbers are single
  characters. `PercentG` rounds a number, of either sign, to a multiple of its `Unit`, what the
  last digit that `%g` keeps counts. Numbers are integers; a fraction is an integer
  of a smaller unit, and `%g` treats it alike. `Serialize` stands for protobuf. The reader that a text is
  checked against (`ReadChar`, `ReadOn`, `AsRead`) goes through the stream a character at
  a time; `Meaning` says what it should find, from the messages themselves.
- **`ProcessExports`, `Microhttpd`.** Each reader takes a step to open its file and one
  to read and close it; `open` counts the descriptors of the process. `process` is what the
  kernel shows of it: the limit, whether its name has a space, and which of the two texts that
  `std::stoi` is given are those of an `int` (`fits`); for the others `ReadBtimeThrows` and
  `ReadLimitsThrows` leave `collect()`. The handler of
  `example.c` is called twice for a page (headers, then body), once for a scrape. Reading
  one series of a counter is a step (`CollectSeries`), so other connections count on between two
  series and between the two counters.

## Runs

| Run | Config | Distinct states | What it shows |
|---|---|---|---|
| `registry` | `MCRegistry` | 476 872 | scrapes deliver the collectors of one instant except those that failed, newest first; never call a destroyed collector; end and release the lock unless a collector calls back; which waiting calls end |
| `collector` | `MCProgram` | 16 495 | each constructed metric is listed exactly once and for ever, a refused one never; a scrape collects the list as it was, in order, and every metric of static storage is in it |
| `static_order` | `MCProgram_anyorder` | violation | see *Findings* |
| `construct_while_scraping` | `MCCollector_late` | violation | see *Findings* |
| `throwing_constructor` | `MCCollector_throwing` | violation | see *Findings* |
| `scalar` | `MCUtils` | 465 307 | additions are atomic, counters never decrease, a gauge of `InProgress` objects is the sum of those that exist, every call returns |
| `histogram` | `MCHistogram` | 25 257 | exposed buckets are cumulative and of one moment; the mutex is released |
| `histogram_fresh_copy` | `MCHistogram_labelled` | violation | see *Findings* |
| `histogram_levels` | `MCHistogramLevels` | 10 070 | accepted levels increase strictly up to +Inf; the builders do what `values.hh` says; `value()` counts observations, all of them at +Inf, unless one is NaN |
| `labels` | `MCLabeledMetric` | 1 810 602 | references stay those of the exposed series; a scrape exposes the series of one instant with every earlier increment |
| `formatter` | `MCOutputFormatter` | 35 452 | a reader of either format finds the collection that was rendered; exactly the malformed families are refused |
| `server` | `MCMicrohttpd` | 971 496 | no descriptor is lost; successive expositions are consistent; no process gauge shows what was never read, given descriptors enough; every request ends |

### Bounds, and why they are enough

- **registry**: 2 threads, so that a scrape overlaps another scrape, a registration,
  or a destruction; 3 collectors (the global one and two that come and go), so
  that removal from the front, middle and end of the vector occurs and so that
  a failure occurs before, between and after successes; `MaxErrors` 1: a second failure adds 1 to a counter that nothing else reads. One
  of the collectors unregisters itself in its own `collect()`; two threads
  are enough for one that waits and one that it waits for, or for one that waits for itself. `Apple` is FALSE: TRUE only strengthens
  a guard, so every behaviour of that build is one of these, and the theorems leave it open.
- **collector**: 2 threads; two metrics of static storage, one of the library's
  (`collection_errors`) and a histogram of the client's; one metric for each way a
  later construction may go (it succeeds, is scoped, has a bad name, throws).
  `BuildOrder` is what the shared library of `prometheus/CMakeLists.txt` gives.
  `static_order` gives none, and no histogram of default levels, so
  that what it finds is the lost metric and not the undefined read.
- **scalar**: 2 threads, one object of each class, at most 4 calls, amounts
  -1, 1, 4 and NaN over a float format of two significand bits: integers to 4,
  then 6 and 8, then infinity. With 4 calls, additions reach the value
  where adding 1 has no effect, and overflow. `InProgress` amounts are
  1 and -1, at most 2 objects at once: nested, or in two threads, and of opposite
  sign, so that a wrong amount or order shows; these sums are exact.
- **histogram**: 2 threads, levels 1, 2 and +Inf, observations in each bucket
  and NaN, 3 observations: one before, one during and one after a scrape. In
  `MCHistogram_labelled` `Fresh` also holds an indeterminate value.
- **labels**: 2 threads, 2 keys, at most 3 nodes, so that a key is created again
  after its removal while the other key's node lives; contents up to 2.
- **histogram_levels**: numbers n/2, exact up to 8/2, in coarser steps up to
  32/2, infinite beyond; written lists of up to 3 levels that include
  infinities and NaN; counts from -3 (where `count + 2` is negative) to 4, which is enough for
  both a stall through rounding and an overflow; 2 observations.
- **formatter**: all pairs of strings of at most 2 characters out of six
  (backslash, quote, newline, the letter n, comma, an invalid byte), since every
  escape is one or two characters; single families and pairs from a pool of 14
  shapes with each malformation; histograms with every pair of successive levels from -41
  to 41, where `%g` keeps 2 digits of base 3; varints of base 4, so that the length of a message needs one
  byte or two.
- **server**: 2 connections, 3 requests, 4 kinds of request, and four processes:
  exactly the descriptors that two simultaneous scrapes need; one fewer, with a space in the name; and
  two fewer, so that the readers of two scrapes exclude each other, with a boot time or with a
  limit that does not fit an `int` (the text of the limit is independent of when opens fail, which
  may also be a limit of the whole system).

Deadlock is checked except where the system does stop: in `registry` (a
collector that unregisters itself waits for itself for ever), in the collector runs
(all metrics built and a thread in undefined behaviour), the level and formatter runs (one
computation that ends) and the server (the process may end, and requests are bounded).

### Fairness

Only four runs assume any, and each has a liveness property that needs it.

- `RegistryWaiting`: weak fairness of `ScrapeStep` and of `Granted` per thread.
  Once `collect` holds its lock it waits for nothing but a call back; each collector's
  `collect` is assumed to come back, normally or not. A waiting call is granted a
  mutex that *stays* free: `std::shared_timed_mutex` promises writers no more, so
  the fairness is weak, not strong. `WaitingEnds` therefore says that a call
  ends for ever on a mutex that prefers writers, and elsewhere once scrapes stop
  coming; on a mutex that prefers readers TLC finds the call that starves.
- `ScalarValue`: weak fairness of `IncStep` per thread. A thread within `inc` keeps
  running and a weak compare-exchange does not fail spuriously for ever. A
  thread retries only because another call completed; since a run has at most `MaxCalls` calls,
  every call returns (`CallsReturn`). With endless calls
  by others the loop is lock-free, not wait-free, and no property claims more.
- `Histogram`: weak fairness of `LockedStep`: a holder of the mutex runs on.
- `Microhttpd`: weak fairness of `HandlerStep`: libmicrohttpd's connection
  threads keep running. Clients are not assumed to send anything.

## Proofs

All are for arbitrary sets of threads, objects, collectors, metrics and keys, any
number of levels, both values of `Apple`, any calls back, any build order, any
limit on descriptors and any collection of families. The bounds (`MaxErrors`,
`MaxCalls`, `MaxNodes`, `MaxCount`, `MaxOpen`, `MaxObservations`, `MaxRequests`) are
arbitrary natural numbers. The assumptions are the named `ASSUME`s of the
modules, all of which TLC evaluates in the runs. Most say what kind of thing a constant
is, and that markers (`Nothing`, `Garbage`) are none of the values they mark; where
something is counted (`Microhttpd`, `Utils`) the set of threads is finite. The others are
about arithmetic:

- `DoubleAssumption` of `ScalarValue`: adding what is not negative never takes a
  double below a number that it was not below.
- `ExactAssumption` of `Utils`: there are doubles `Whole[n]`, one for each integer `n`
  in a range, that add as the integers do while sums stay in it; amounts
  of scopes are among them. The range is the largest amount times the number of
  objects and calls that can exist at once. Doubles satisfy it for amounts that are multiples of
  one power of two, up to 2^53 of them. Without it the theorem would be false: 0.1
  added and taken off again among other additions does not leave 0.
- `DoubleAssumption` of `HistogramLevels`: all doubles but NaN are ordered, up to
  +Inf; adding a positive number takes none below itself; the powers of a base
  above 1 are not negative and do not fall when the exponent grows. The last
  is the C library's part: the C standard does not promise a monotonic `pow`, the
  comment at `values.hh:24` ("increasing exponentially") relies on it.

Two assumptions are about the collections that `OutputFormatter` is given:

- `TextAssumption`: the characters of the format differ from each other; names, types and
  numbers are none of those that a reader acts on. The code relies on it for names ("Assume metric names don't
  need escaping as they are restricted to only a few characters",
  `output_formatter.cc:250` and `264`); numbers are made of digits. Help texts and label
  values may be any strings. The rest is about the model: a string, being a
  sequence, is not the character `=`, by which the reader finds the pairs of a line.
- `HistogramsAssumption`: within a histogram the levels increase and the counts are
  cumulative, as `values.cc:101-110` and `131-144` hand them out (`LevelsIncrease` and
  `ExpositionIsCoherent` prove it of them); no label has the level's name, which `metrics.hh`
  reserves; two neighbours in a family differ in their labels. They come from a map
  with the values as its key, so they do, except for two values that differ only in bytes that
  are not UTF-8: those become the same text, and the two histograms one.

Each module proves `Init => Inv`, `Inv /\ [Next]_vars => Inv'`, then derives each property from
`Spec => []Inv`. What the invariant adds to the properties, and why:

- **`RegistryProofs`** (`TypeCorrect`, `LockFollowsScrapes`,
  `NoDoubleRegistration`, `NoUseAfterDestruction`, `ResponseOrder`,
  `RegistryImplementsSnapshot`). `IndexInRange` keeps a scrape's index
  inside the vector; it survives registrations by others only because
  `OwnersAreScraping` says that the lock is held by exactly those who scrape.
  `RegisteredAreAlive` is inductive only together with `RegisteredOnce`: were a
  collector listed twice, one unregistration would leave a pointer behind.
  `FamiliesArePassed` says that each family collected came from a collector that the
  loop has passed. `ResponseOrder` is inductive relative to `Inv`. The
  refinement then maps `CollectorFails` to `Fail` and the three exits to `Deliver`
  or `Abort`; it rests on the lemma that what a scrape has called so far grows by exactly
  one collector per step (`CalledNext`), and is the whole list at the end
  (`CalledAtEnd`). For the registry with waiting threads, `WaitingIsRegistry`
  shows that each of its steps is a step of `Registry` or changes only who waits, so that
  safety and refinement carry over (`WaitingIsSafe`,
  `WaitingImplementsSnapshot`), calls back included. `SelfWaitIsForEver` is what they do not
  exclude: a thread whose collector calls back waits for a mutex of which it is itself an
  owner (`OwnersAreScraping`), so `CanLock` never holds again; that thread waits for ever, and
  the list of collectors is frozen for everybody.
- **`CollectorProofs`** (`TypeCorrect`, `EveryLiveMetricIsListed`,
  `ScrapesFollowTheList`, `RegistrationsAreForever`,
  `CollectorImplementsSnapshot`). `BaseIsListed` covers the objects between their two
  constructors, `ListedWereBuilt` says that nothing absent is in the
  list: without it a construction could list an object again. That no refused metric is listed is
  inductive by itself.
  `QuietScrapesAreSafe` proves `OnlyLiveMetricsAreCollected` where no constructor
  throws after registration, no metric is destroyed and none is built during a
  scrape; its invariant `ListedAreSound` says that what is listed is alive unless its
  constructor is running, and that none is while a scrape runs. For `Program`,
  `StaticMetricsAreExposed` proves `GlobalMetricsAreExposed` for every build order
  that puts `global_collector` before the metrics of static storage and the
  default levels before their histograms (`OrderIsSafe`): `BeforeMain` says that
  nothing is listed that the collector's constructor could lose, `BuiltAreListed` that what is
  built is where it belongs. `ProgramIsCollector` carries the theorems about `Collector`
  over to whole programs.
- **`ScalarValueProofs`** (`TypeCorrect`, `ExposedIsNotAhead`,
  `CountersAreMonotonic`, `LoopIsAtomicAddition`). `AmountsAreChecked`: an
  addition under way on a counter is not negative. Of floating point only
  `DoubleAssumption` is used, which holds for IEEE 754 addition, NaN included.
  `ScopesAreCalls` shows that programs with
  `InProgress` objects take only steps of `ScalarValue`. `ScopesAreCounted` proves
  `InProgressCounts` for any number of threads and any depth. As it stands the property is not
  inductive: it adds doubles in an order of its own, and says nothing of whether their
  sums are exact. `UInv` therefore says what a gauge holds as a number:
  `Whole[n]`, where `n` is the sum of the scopes less the sum of what is being added;
  and it bounds both sums, through the number of objects (`AllOpen`) and the
  one call that each thread can have (`IsExactCall`).
- **`HistogramProofs`** (`TypeCorrect`, `BucketsAreLocked`,
  `ExpositionIsCoherent`, `LoopsAreAtomic`). `BucketsAreCumulative`: the
  counts *minus what the observation under way has added so far* are cumulative
  at every moment; `CopyIsFaithful`: what a scrape has copied is what the
  buckets hold. The refinement takes effect at the step that releases the mutex.
- **`LabeledMetricProofs`** (`TypeCorrect`, `ReferencesStayCurrent`,
  `NoEarlierIncrementIsMissed`, `LabeledMetricImplementsSnapshot`). `NodesAreMade`,
  `NodesAreNotShared` and `LookupIsCurrent` make a reference current;
  `LoopInvariant` splits the series present into those read and those still to
  read, so that an increment by others never takes away what `before` holds.
- **`MicrohttpdProofs`** (`TypeCorrect`, `DescriptorsAreAccounted`,
  `ResponsesNeverOutnumber`, `ScrapesAreMonotonic`, `GaugesAreRead`).
  `ReadersAreCalled` says that a connection is among the readers of /proc exactly during
  that part of its scrape, without which a descriptor could be counted for a connection
  that has gone on. `NothingIsAhead`: no exposition, finished or not, and nothing that earlier
  ones have shown, is ahead of the counters, and a finished one whose
  response is counted is behind; so the next request finds both counters
  larger. `OwnRequestShows` is `ScrapesSeeEarlierOnes` for scrapes under way, from
  the count of the request on, series by series: for what is `left` to read, by the counter, for the
  rest, by what was read. `ReadersHaveRead` is `GaugesAreReal` from reader
  to reader; `Roomy` with `DescriptorsAccounted` says that an open cannot fail, for
  at most one descriptor per connection and one per reader are in use.
  `CompleteIsOver` says that a scrape is not complete while it still runs.
- **`ExpositionProofs`**, for `HistogramLevels` (`LevelsIncrease`,
  `BuildersAreDocumented`, `ValuesAreCounts`). `CallsReturnLists`: the levels are the
  result of the call, so that lemmas about the builders apply;
  `BucketsCount`: each bucket holds the number of observations up to its level,
  which is what `value()` hands out; the last level is +Inf, which every observation but
  NaN reaches. `RepeatedSteps` unfolds the builders' loops, whose stalls
  are what makes a histogram refuse their lists (`PowersStall`, `LinearStall`).
  For `OutputFormatter` (`RefusedIffMalformed`): `Passed` says that whatever the
  iterators have passed, in each of the three nested loops, was well formed.
  For the delimited protobuf (`MessagesReadBack`): `FramesInv` says that the stream
  holds the frames of the families passed, end to end and each where the lengths before it
  put it (`InFrames`), and that its length is their sum (`Written`), which at the end is
  the size reserved (`ReservedExactly`). The reader runs forward through the bytes and its
  result is built from the end, so it is induction backwards over the frames that shows what it finds
  (`StreamReadBack`); that a varint of any number of digits reads back is
  `NumberReadBack`.
  For the text (`TextIsReadBack`): `TextInv` says that the stream *says* what the three
  loops have passed (`FamiliesTold`, `MetricsTold`, `BucketsTold`). A stream says some lines if a
  reader goes through it from between two lines to between two lines and reads those,
  after whatever it had read (`Says`); so saying is closed under concatenation
  (`SaysJoined`), and each line can be looked at alone. That the reader undoes escaping is
  shown one character of the original at a time: replacing backslashes, then quotes, then newlines in
  the whole string comes to replacing each character by what `Escape` gives
  (`HelpBodyNext`, `QuotedBodyNext`), and a reader makes that character of it again
  (`ReadEscape`, then `ReadBody` for a string). With the order of the replacements
  swapped the first of these fails. `ReadLabels` goes through the labels of a sample,
  `SampleSays` and `BucketSays` through its line, `HeaderSays` through the two lines of a header. What an
  exception leaves in the stream says a beginning of the collection (`Begins`).
  For the order of buckets (`BucketsAreOrdered`): of two numbers the greater has the same
  unit or one at least `Base` times that of the other (`UnitGrows`); rounding to
  one unit keeps order (`RoundedKeepsOrder`); and rounding goes no further than the next multiple,
  which a number of a smaller unit cannot pass, since every number is less than
  `Base * Leading` of its units and at least `Leading` of them (`UnitBounds`). So `%g` keeps order
  for any base and any number of digits, also of negative numbers, whose sign it
  copies (`PercentGKeepsOrder`), and levels may become equal but
  never change places. `CollectionInOrder` carries it to the text: the
  lines of a histogram are neighbours, and no others of the same name and labels are
  (`MetricFollows`). Levels are integers here, of any size, or infinite.
- **`DataLemmas`**: members, repetition and prefixes of `Append`, `RemoveAt` and
  concatenation; then induction over numbers and over finite sets. The theorems of the
  library take the statement as an operator, which the provers cannot
  instantiate; `NumberInduction` and `SubsetInduction` take the *set* of what satisfies it,
  and follow from well-foundedness. With them: folds exist and are unique (`FoldExists`), and
  so do functions defined by recursion on an argument that goes down in some measure
  (`DescentExists`, with `DescentInduction` to reason about them), such as the digits of a
  number or what is left of a stream (`RecursionExists` for plain counting); and sums of functions grow with their
  terms, change with one of them, are bounded by them (`SumUpdate`, `SumMonotonic`, `SumBounded`).

Only model-checked: the liveness properties (`ScrapeEnds`, `WaitingEnds`,
`CallsReturn`, `MutexIsReleased`, `RequestsEnd`), since the prover does not handle
liveness under fairness. Every safety property that a passing run checks is proved.

## Findings

Each is a run that TLC reports as violated.

1. `construct_while_scraping` (`metrics.cc:22`). A metric registers before its
   derived part exists. A scrape by another thread between the two
   constructors calls a pure virtual function or reads unbuilt members,
   although `collector.hh:32` says "This method must be thread-safe."
2. `throwing_constructor` (`metrics.hh:98`). If the derived constructor throws
   (a reserved label name, unsorted levels), the object is gone and stays
   registered: the next scrape uses a dangling pointer, with a single thread. `client_test.cc:198`
   does just that to `global_collector`.
3. `histogram_fresh_copy` (`values.cc:112`). No constructor sets
   `samples_sum_`. In static storage it starts at zero; in a series that `labels()` creates
   it is indeterminate.

4. `static_order` (`collector.cc:13`). `registry.hh:44` offers the global registry
   "to collect all metrics". A metric of static storage in another file, like the one of
   `tests/without_bazel.cpp`, is lost if its file is initialised first. The CMake
   build makes the library a shared one, which is initialised before
   the program; a static link gives no such order.

Disagreements between the code and its words that the models follow (they do
what the code does) without a run of their own:

- `values.hh:115-116` promises that `value()` returns "the total count of observed values";
  `observe(NaN)` makes the sum NaN for good and enters no bucket, not even +Inf, so it is missing
  from that total. `ValueCountsObservations` is about observations without NaN.
- The check of the levels lets a NaN pass (all comparisons are false).
  `AcceptedLevelsIncrease` and `HistogramAssumption` exclude it.
- `collection_errors` has the help text "Count of exceptions raised by
  collectors", but only `CollectionException` is counted; another exception ends
  the whole collection.
- `requests_total`, "Number of processed HTTP requests.", is incremented per
  handler call, twice for a page (`prometheus_microhttpd.cc:44-46`). An exposition may
  show more responses than requests, because requests are read first.
- `CollectionException` (`collector.hh:41`), which collectors "may throw", has no
  constructor that anyone could call: it declares none, `std::runtime_error` has no default
  one, and with virtual functions it is not an aggregate. As the code stands the `catch` at
  `registry.cc:46` cannot be entered and `collection_errors` stays zero.
- `process_open_fds`, "Number of open file descriptors." (`standard_exports.cc:136`), also counts
  `.`, `..` and the descriptor of the directory that is being read, and so may
  exceed `process_max_fds` by two. No property is about the number.
- The TYPE line is guarded by `has_help` (`output_formatter.cc:239`): a family
  without help loses its type.
- The text of a histogram has no `_bucket`, `_sum` and `_count` lines; `%g` keeps
  six digits, so that a counter beyond a million stands still in the text.

## Not modelled, and why

- **Static destruction** at exit: objects go in the reverse order, and the
  library neither joins threads nor unregisters metrics; a program whose threads
  outlive `main()` is outside what the code handles.
- **Interval measures, `set_to_current_time`, `make_metric_name`**: one call of
  `set` or `observe` with a difference of two clock readings, and a
  concatenation. Two reporters on one gauge may store in the order opposite to
  the one in which they measured; it is listed as a hazard without a property.
- **`InProgress` on a series that is removed** before its scope ends: in
  `LabeledMetric` clients forget the references that `remove()` invalidates.
- **Container helpers** (`util/`): pure; keys are compared by value in the model.
- **Client templates, protobuf schema and stubs**: aliases and generated code.
- **Process exports**: the arithmetic on the values read, and installing the
  collector twice.
- **Overflow of `count + 2`** near `INT_MAX` in the level builders, and clients
  that hang up in the middle of a request.
- Benchmarks, demos and tests, which have no logic of their own.

## Plan

Done, in this order: `SnapshotCollection`, `Registry`, `Collector`; the
values (`AtomicScalar`, `ScalarValue`, `AtomicHistogram`, `Histogram`);
`LabeledMetric`; proofs of these five; `HistogramLevels`, `OutputFormatter`,
`ProcessExports` with `Microhttpd`.

Then `RegistryWaiting`, `Program` and `Utils` with their theorems; then the proofs
about `Microhttpd`, `HistogramLevels`, `OutputFormatter` (exceptions, protobuf frames,
the text, the order of buckets), and `InProgressCounts`.

Next:

1. Label values that differ only in bytes that are not UTF-8, as metrics of their own.
2. An exposition as a whole: `Registry` over `Collector` over
   labelled values, with `collection_errors` itself a metric that the scrape
   exposes while it is incremented.
3. The interval measures, with a clock.
