# A verification development of State Index

State Index is a C++17 index of *state records*: which worker incarnation
published which generation of a piece of state, where replicas of it lie, what
was invalidated or tombstoned since, and which record is *current*. A
coordinator process owns one engine, serves worker processes over TCP, and
keeps the engine in one file across restarts.

This directory holds TLA+ modules of that program, the TLC runs that check them
on small instances, and theorems that the TLAPS proof system checks for every
value of the constants. Line numbers are those of `src/` in the repository.

## 1. Inventory

| Component | Code | State | Operations | What makes it correct |
|---|---|---|---|---|
| Authority registry | `authority.hpp`, `authority.cpp` | epoch, live boots, worker incarnations, tombstone floors, claims (generation, boot) per state | register, unregister, advance epoch, validate a publication, setters | agrees with the engine's own current records; a fence once raised holds |
| Engine: publication and withdrawal | `engine.cpp` 59-206, 275-379 | records, current, history, tombstones, invalidation log | register_state, invalidate, tombstone | the current record is servable and the highest in service; history is never rewritten; nothing refused comes back |
| Engine: locations | `engine.cpp` 209-272, 950-971 | locations of each record, their freshness | add_location, remove_location, revalidation | only the current record's locations move; memory that is gone is not offered as fresh |
| Secondary indexes | `index.hpp`, `index.cpp` | key to record ids, placement owners | insert, remove, rebuild, verify | a lookup misses no record |
| Accounting | `accounting.hpp` | counters | counted by the engine, saved and loaded | no counter is decremented below zero, also after a recovery |
| Query planner | `engine.cpp` 405-826, `query.hpp`, `result.hpp` | none | candidates, filters, ranking, outcome | answers agree with the registry; the outcome is true; the ranking is an order |
| Persistence | `engine.cpp` 24-34, 381-403, 835-973 | one file | save, load, recompute_current | what was saved is in force after any number of crashes |
| Coordinator process | `coordinator_main.cpp` | the served connection, its boot, the listen queue | accept, receive, handle, answer, hang up, terminate | authority ends with the connection; every waiting worker is heard; nothing is lost at termination |
| Worker process | `worker_main.cpp` | its position in the script | connect, HELLO, send, wait, finish | comes to an end |
| Protocol and transport | `protocol.hpp`, `tcp.hpp`, `msgs.hpp` | the byte stream | encode, decode, send_frame, recv_frame | frames arrive whole, in turn and within the limit, or the connection ends |
| Records, references, values | `record.hpp`, `refs.hpp`, `strong.hpp`, `enums.hpp`, `cost.hpp`, `limits.hpp` | none | validation, comparison | generation 0 is "unset" |
| Digests and byte buffers | `digest.hpp`, `bytebuf.hpp` | none | pure encoders | |
| Command line, examples, benchmarks, tests | `cli_main.cpp`, `examples/`, `benchmarks/`, `tests/` | none of their own | | |

How they interact. A worker sends one framed request at a time and waits for
the answer. The coordinator serves one connection to its end, so every request
is one call of an engine operation, made under the engine's mutex. The engine asks the
registry whether a publication is stale and tells it, by hand in each
operation, who is current now; it updates records, indexes and counters in the
same call. HELLO makes a boot live, the end of its connection makes it dead,
and `load` kills all of them. `save` writes the record set with its locations
and the counters, but without `current_`, `is_historical` and the indexes;
`load` computes those again and takes the counters as they are written.

Where it is hard:

- *Late, repeated and reordered requests.* An envelope quotes an epoch and a
  boot; anything that was ever sent may arrive again.
- *Redundant state.* Claim and current record, registry floor and tombstone,
  lifecycle and index keys, locations and their count are copies kept in step
  by hand.
- *Crash and restart.* Recovery recomputes what the file does not hold, loads
  over a serving engine, and may fail half way.
- *Partial failure.* A write that fails unnoticed, an answer that cannot be
  sent or is sent in part, a start on a file that is refused half way.
- *Values nobody checks.* A tombstone brings a flag, a location its costs; both
  are taken from the request as they are.
- *Limits.* A reader refuses a frame or a record beyond a limit; the writers of
  both do not know the limit.
- *Waiting.* One worker's connection is served while the others queue up, and
  each side of a connection waits for bytes of the other.

`PROJECT.json` lists each hazard with the line where it bites and the
properties that would show it.

## 2. Modules

```
AbstractIndex   <-- refinement --  StateIndexEngine  (EXTENDS Authority)
                                     |-- Locations     records with locations, indexes, count
                                     |       `------------.
                                     |-- Persistence ------ LocationRecovery
                                     |       |              both, with what the file says
                                     |       |              of locations
                                     |       `-- Coordinator   the process with its connections
                                     `-- Query         what queries answer in every state

Exchange        <-- refinement --  Framing   one connection, byte by byte: what
                                             Coordinator takes for granted
```

| Module | Models | Variables and the code's fields | Actions and the code's operations |
|---|---|---|---|
| `Authority` | AuthorityRegistry | `epoch`, `liveBoots`, `workerIncarnation`, `tombstoneFloor`, `currentAuthority`: the fields of those names | partial actions the engine completes; `ValidateStatePublication` is the verdict function |
| `StateIndexEngine` | record set of the engine | `records`, `current`, `history`, `tombstones`, `invalidations` | `RegisterState` (with `set_current`), `Invalidate`, `Tombstone`, `RegisterWorker`, `UnregisterWorker`, `AdvanceEpoch` |
| `AbstractIndex` | the promise about authority over a state | `holder`, `fence` | `Publish`, `Withdraw`, `Fence` |
| `Locations` | locations, indexes, count | `locations`, `indexes`, `locationCount` | `Publish` (register_state with locations), `Withdraw`, `AddLocation`, `RemoveLocation` |
| `Query` | planner | `payload`, `offers` (what records carry, and their locations) | publication with a payload (`PublishWith`), locations that come and go (`Relocate`); answers are operators of the state and the query: `LookedAt`, `Rejection`, `BestPlacement`, `Factors`, `Less`, `Outcome` |
| `Persistence` | save, load, process | `process`, `disk`, `halfLoaded` | `Startup`, `Crash`, `Save`, `LoadRequest`, `Serve` |
| `LocationRecovery` | `Locations` with `Persistence` | `fresh` (locations not marked REVALIDATION_REQUIRED), `diskLocations` (locations, freshness and count in the file), `reported` (history variable) | `ServeLocations`, `SaveLocations`, `StartupLocations`, `LoadRequestLocations`, `CrashLocations`; load is `RecoverLocations` or `RecoverLocationsHalf` |
| `Coordinator` | connection loop and workers | `worker`, `asked`, `request`, `backlog`, `served`, `connBoot`, `answering` | workers: `Connect`, `Send`, `Finish`, `LoseConnection`, `Die`; coordinator: `Accept`, `Hello`, `UseEngine`, `SaveFile`, `LoadFile`, `Terminate`, `TerminateFails`, `Answer`, `AnswerAndExit`, `AnswerFails`, `HangUp`; `Killed`, `Start` |
| `Framing` | the byte stream of one connection | `phase`, `unsent`, `wire`, `partly`, `announced`, `delivered` of each side; `started`, `failed` (history variables) | `Ask`, `Answer` (send_frame), `SendBytes`, `SendVanishes`, `SendFails` (one send of send_all), `RecvBytes`, `RecvEnds` (one recv of recv_exact), `ReadHeader`, `Deliver` (recv_frame), `Die` |
| `Exchange` | the promise of a connection to the two programs | `begun`, `taken` (frames of each side), `over` | `Ask`, `Answer`, `AnswerTwice` (the error after a result that failed), `Take`, `GiveUp` |

Every engine operation is one action because it holds the mutex from its first
test to its last assignment. The epoch and the boot of a request are
quantified over everything ever issued, so an action is also the late or
repeated delivery of an old request; a rejected request changes nothing and is
a stutter. Record ids of a publication, generations (with 0 for "unset") and
locations are quantified likewise.

A tombstone comes with a flag, `TombstoneRecord::current`, which the requester
sets and `covers` asks for (`invalidation.hpp:111`, 116). With the flag unset
everything up to the floor is retired and the registry refuses publications up
to it, but the current record and its claim stay, queries and recovery do not
see the tombstone, and after a restart nothing is left of the floor.
`TombstoneFlags` says which flags requests have. A tombstone in force gives way
to a higher one that is not, as in the code (`engine.cpp:351-355`).

In `Coordinator`, one request is handled by one action and answered by another,
so that a worker may die between the two. `Die` leaves open whether the last
request of the dead process is still delivered. Receiving fails only once the
worker is gone and has left nothing to be read (`HangUp`); sending to a worker
that is gone may pass unnoticed (`Answer`) or throw (`AnswerFails`). Every mutation of
the engine goes through an action of `StateIndexEngine` or `Persistence`, and
`LoopRunsPersistence` proves that.

In `Persistence` the file may hold records that `load` refuses: `Repeated`, by
the image itself, and `outgrown`, any records of `MayOutgrow`, because that
module has no locations. `LocationRecovery` says which those are: records with
more than `LocationLimit` locations. Its `VolatileNodes` stand for the domains
HOST_MEMORY, HOST_PINNED and CUDA_DEVICE.

`Save` has three outcomes (`WriteOutcomes`): the image; a short file, since the
write is never tested; and no file, since a refused rename makes it remove the
old one first (`engine.cpp:872-876`). A death before the rename leaves the old
file and is `Crash`; one between the removal and the second rename is `Save`
with the outcome "lost" and then `Crash`. In `Coordinator` a save that leaves no
file is answered with the error that `save` throws (`SaveThrows`), and one that
leaves an image, short or not, with its result (`SaveReturns`).

In `Query` a location is a record of what filters and factors read of it. A
double is a natural number or `NaN`, which compares as IEEE 754 has it: it differs
from everything, itself included, and exceeds nothing. `inv` turns a cost into
its negative, since only the order of factors counts, and `rank_of`, a sum whose
last term lies between 0 and 1, compares lexicographically.

In `Framing` a byte is the frame it was encoded from and its place there, and
bytes decode if they are those of one encoded frame: that is what magic,
version, length and checksum are taken to establish together. A header made of
bytes of two frames may announce any length.

`MC*` modules hold the small instances; `DocumentedClaims` and
`PersistenceClaims` hold statements of the
repository that the code does not keep; `*Proofs` hold theorems. Definitions
marked `mutant` are plausible bugs, each beside the definition it would
replace. `PROJECT.json` says which property tells which of them from the code.

## 3. Runs

Passing runs (distinct states, with the bounds of the cfg):

| Run | Question | Instance | States |
|---|---|---|---|
| `engine_safety` | Do claim, current record, history and tombstones stay in step under every order of publications, restarts, invalidations and tombstones? | one state, three records, two boots of one worker, generations 0..3, two epochs, two invalidations, tombstones with the flag set or not | 818,754 |
| `location_index` | Do lookups miss nothing, is every location counted, do only current records move? | two records, two placements, two nodes, one location generation, at most 4 locations counted | 791,010 |
| `query_answers` | Is what ten queries, and two about each record, answer right in every state? | two states of which `s2` may depend on `s1`, three records, two payloads, up to two locations of a record, one of them with a bandwidth that is not a number, two boots | 23,861 |
| `location_recovery` | What becomes of locations, indexes and count when the engine is saved, killed, recovered, or loads while it serves? | two records, two placements, one node in machine-local memory and one not, `load` accepts one location of a record, at most 2 locations counted, short writes and lost files | 1,165,862 |
| `persist_recovery` | Does what was saved hold through crashes, restarts, loads, short writes, lost and refused files? | one state, two records of which one may outgrow the limit, one boot, two epochs, one invalidation, both flags | 4,610,694 |
| `coordinator_loop` | Does authority end with its connection, is everybody heard, is nothing lost at termination, does every worker end? | three processes, two of them with one boot id, HELLO and two requests each (HELLO again among them), one record, lost files | 632,140 |
| `framing` | Is the connection a dialogue of whole frames, as they were sent, in turn and within the limit, whose two sides never wait for each other, and does every request end? | three requests, two bytes of header, a limit of two bytes, payloads of 0, 2 and 3 bytes, two bytes each way on the connection, a send may fail | 306,547 |

Runs that refute a statement of the repository:

| Run | Statement | What the code does |
|---|---|---|
| `claim_readd` | `README.md:127`, a stale re-add never resurrects invalidated authority | `invalidate` erases the claim and raises no floor: the same generation is accepted again |
| `claim_fresh_boot` | `README.md:52`, an old boot's larger generation never fences a fresh incarnation | the registry accepts the fresh boot's record, `set_current` leaves it behind the dead boot's |
| `claim_current_terminal` | `engine.cpp:358`, 994-996, a record that a tombstone marks is not current; a current one with a terminal lifecycle is an error | a tombstone with its flag unset marks the current record TOMBSTONED and leaves it current |
| `claim_saved_image` | `tests/test_persistence.cpp:86`, a saved index loads to the same | two record ids with one generation are accepted, saved, and refused by `load` |
| `claim_atomic_write` | `README.md:163`, writes are atomic | a failed write is never noticed and is renamed over the good image |

Why the bounds are enough. Operations of one state never read another state's
records, except through a query's dependencies, so one state suffices for the
engine, for recovery and for the loop, and two for queries. Three records give
a current one with a loser below it and a publication on top; two give a repeated
generation. Generations 0..2 contain "unset", a bound below, at and above a
record; `engine_safety` has a third so that a tombstone or an invalidation can
fall strictly between two records. Two boots give a dead holder and its
successor. In `persist_recovery` and
`location_recovery` record ids are ordered numbers, because `load` reads the
file in their order; two records are one before the refused record and the
refused one. `location_recovery` has no invalidations (a tombstone withdraws
as well there) and one epoch; both are in `persist_recovery`. Its constraint
`NotHalfLoaded` ends a behaviour where a load has failed half way: such an
engine stays one until its process dies, its files are marked, and each of the
four properties says nothing of either. Two locations counted are enough to
exceed the limit of one, to replace, and to remove after a recovery.

`Query.cfg` has four constraints. `OnlyS1Withdrawn`: only `s1` is withdrawn,
with bounds above 0 and not by an invalidation and a tombstone in one behaviour,
because `s2` is there as the dependent and nothing depends on it, and
`engine_safety` mixes the two. `OnlyS1Ages`: `s2` has one generation; what is
superseded is of `s1`. `OnlyFirstMoves`: only the first record's
locations are added to, replaced and removed, which gives each number of usable
locations. `ThirdOnlyRanks`: a third record, which is there because a
contradiction in the ranking takes three, is one more of `s1` and comes only
while nothing has been withdrawn or moved. Payloads and queries were chosen so that each
rejection reason and each outcome of the module occurs, three candidates are
ranked, and a candidate has a factor that is not a number. In `coordinator_loop` two
processes share a boot id (a restart under the old id) and one has another; two
requests after HELLO let a worker be refused or answered and go on, or change
something and then save or terminate. Invalidations, short writes and tombstones with the flag unset
are left to the persistence runs. In `framing` the longest frame is larger than the
connection, a header may be cut in two, a payload can be empty, at the limit
and beyond it, and the third request meets what the first two left behind. Symmetry is
used for boots, workers and placements where no liveness property is checked,
and never for record ids that are compared.

`CHECK_DEADLOCK` is switched off in `Framing.cfg` only, where a connection that
has ended stays so: elsewhere a request may always arrive again, and a
coordinator may always be killed or started.

Fairness. `CoordSpec` and `FramingSpec` have some. `WF(Serving)`: the coordinator's loop is one
thread with nothing else to do, so it accepts, handles, answers and hangs up
when it can. `WF(Working(p))`: a worker's script is a finite file, so it sends
the next request, closes its connection, or notices that the connection is
gone. No fairness is assumed for a worker's start or death, nor for
the coordinator's death or restart. `EveryWorkerEnds` needs the second
assumption: `recv` has no timeout (`coordinator_main.cpp:50-51`), so a worker that
stays connected and silent keeps all others waiting for ever.
In `FramingSpec`, `WF(Step(side))` says that a process that lives goes on in
`send_all` and `recv_exact` and that the network moves bytes, `WF(Answer)` that
the coordinator answers what it has received. Nothing is assumed of `Ask`,
of failures or of deaths.

Two properties say without fairness what `RequestsEnd` rests on. `NeverBothWait`:
as long as no send has failed, the worker may ask, the coordinator has something
to answer, or one of the two can move a byte, look at what it has read, or see
that the other is gone. `WorkRunsOut`: the bytes on the wire, four for each byte
not yet handed over, and two or one for a header or a frame still to be read,
become fewer with every step.

## 4. Theorems

The theorems hold for any sets of states, workers, boots, records, placements,
nodes, payloads, queries and processes, and any value of the bounds. They
assume the named assumptions only: `AuthorityAssumption` and
`EngineAssumption` (bounds are naturals, `None` is none of the values it is
told from, records are published with a lifecycle in service),
`PersistenceAssumption` (record ids are numbers), `LocationRecoveryAssumption`
(any record may outgrow the limit), `LocationAssumption` and `QueryAssumption` (placements, nodes and record ids
are finite, record ids are numbers, payloads and queries are well formed),
`CoordinatorAssumption` (a process has a worker id and a boot id) and
`FramingAssumption` (a header has a byte, a connection holds one, lengths and
limits are naturals).

- `EngineProofs`. No safety property of the engine is inductive alone: that a
  newcomer does not hide a higher record needs that the current one is the
  highest, which after an invalidation needs that the history misses no
  record, which needs that the current record is stored. The invariant has three
  layers, each inductive. `Coherent` holds of any engine, also of one that a
  failed load left half filled: histories and current entries name stored
  records of their state, the current record is servable, nothing listed
  outranks it, and (`LeftBehind`) while a tombstone with its flag unset has left
  a retired record current, nothing listed is in service beside it and the
  registry lets nothing in at or below that floor; without this part a
  publication could be lost behind the retired record. `Sound` adds that the
  histories miss no record and nothing in service lies under a tombstone in
  force: it is what survives a load that succeeds, which leaves the
  registry's claims and floors behind. `IInv` adds the registry's copies:
  `AuthorityMirrorsCurrent` and `FloorHolds`. Each operation has a lemma about
  its effect and one for each layer. From `IInv` follow the six
  invariants, `HistoryNotRewritten`, `OnlyFreshBecomesCurrent` (the promotion
  branch of `invalidate` never finds a candidate: `InvalidateErases`), and
  `EngineImplementsAbstract`: each step of the engine is a `Publish`,
  `Withdraw`, `Fence` or stutter of `AbstractIndex` under `holder <-
  currentAuthority`, `fence <- tombstoneFloor`.
- `RecoveryProofs`. `PersistInv` says of the engine `Coherent`, and `Sound` unless
  it descends from a load that failed half way; and of the image on disk what `Sound`
  says of the engine that wrote it: that is what makes the recovered engine
  sound and `recompute_current` arrive at what was served and in service. An
  image of a half-loaded engine says less, and the engine recovered from it is
  `Coherent` all the same (`RecoverLemma`), because the highest of the eligible
  generations exists (`Bounded`, `HighestExists`) and is made current. The rest of it
  relates the two: what the file holds is stored, and as far withdrawn, in every
  engine that serves. `RecoverySound`, `CurrentIsRecovered`, `SavedIsKept` and
  `PersistTypeCorrect` follow.
- `LocationProofs`. `LocationsRunEngine` (every behaviour is one of the
  engine, so `IInv` holds), then `IndexesComplete` from an invariant that says
  which entries are there and that entries of `by_state_` are true,
  `WithdrawnKeepLocations`, `LocationsCounted` (a cardinality argument
  over all records) and `LocTypeCorrect`. The lemmas ask for `Sound` only, so
  that they can be used after a load.
- `LocationRecoveryProofs`. `LocationsRecoverRecords` (every behaviour is one of
  `PersistSpec`, so `PersistInv` holds). `LocRecInv` adds the invariants of
  `LocationProofs`, `FreshInv`, and of the file that its count covers its
  locations and that records not current when it was written are not current
  now and have its locations. `FreshIsReported`, `IndexesRecovered`,
  `LocationsStayCounted` and `SavedLocationsKept` follow.
- `QueryProofs`. `QueriesRunEngine`, then the six properties of answers from
  `IInv`, `PayloadInv` (a stored record has a payload) and `CoveredGone` (what a tombstone in
  force covers is tombstoned or invalidated, also what was superseded before). `RefusalsAreFinal` is about steps: lifecycles leave
  service only, a record under a tombstone in force is out whatever becomes of the
  tombstone (`FloorStep`), a record that is not current never becomes
  current. `RankingTotal` shows that `candidate_less` is a strict total order on
  candidates whose factors are numbers, from the first position at which two
  differ (`FirstPosition`); it says nothing of a candidate with a NaN. `QueryTypeCorrect` is the type invariant.
- `CoordinatorProofs`. `LoopInv` is `LinkType` with `OnlyServedIsLive` and
  `WaitersAreHeard`. `AuthorityEndsWithConnection`, `NobodyWaitsUnheard` and
  `NothingLostAtTermination` hold for any number of processes and requests.
  `LoopRunsPersistence` carries every invariant of `PersistSpec` over to the
  coordinator with its connections: `CoordinatorServesSoundly` and
  `CoordinatorKeepsSaved` are the theorems of `RecoveryProofs` for it, and
  `CoordTypeCorrect` rests on them too.

- `FramingProofs`. What arrives depends on all that is still to come to a
  side: the bytes it has read of a frame, those on the wire, those the sender
  still holds (`Coming`). `FramingInv` says that they are nothing or begin with
  the first byte of a frame, that a whole frame, if one comes first, is all that
  comes, and whose turn it is. What has been delivered says none of this, so
  neither `DeliveredIsSent` nor `AnswersInTurn` is inductive: that a frame which decodes
  is the one begun last must be traced back through any number of portions of it, and
  of the error spliced into it. A splice never completes a frame because its own first
  byte stands where the next of the other should be (`SplicedIsNotWhole`).
  `FramesArriveAsSent`, `AnswersComeInTurn`, `ReadsStayBounded` and
  `FramingImplementsExchange` follow: each step is a step of `Exchange` under
  `begun <- started`, `taken <- delivered`, or invisible there.
  `SidesNeverBothWait` needs `MovingInv` besides: while no send has failed, all
  that comes to a side is the rest of one frame with the length its header
  announced, so that nobody asks for more bytes than the other still has for it.
  `StepsRunOut` follows from the types alone.

Only model-checked: `EveryWorkerEnds` and `RequestsEnd`. Liveness under
fairness and `ENABLED` are out of the prover's reach; of `RequestsEnd` the two
theorems above prove that nothing is stuck and that nothing goes on for ever, and
what is left to TLC is that fairness turns this into an end. Recursive
operators and induction over data with the library's theorems are out of reach
too; no module uses recursion.

## 5. What is left out

- Data that operations only carry: digests, sizes, the metadata of an answer,
  wording. In `Query` one field stands for those that are filtered in the same
  way: `kind` for namespace and content digest, `owner` for the producer, `node`
  for domain and device.
- The arithmetic of doubles. `inv` is 1/(x+1) in the code: costs so close that
  their inverses round to one number are told apart in the model and tied in the
  code, and for costs below 0 the order is another, with a pole at -1 and, since
  nothing is validated, infinities. `rank_of` adds up what the model compares in
  turn, and a latency below 0 may outweigh the rest there. A generation is cast
  to a double, which is exact below 2^53. A tie that rounding makes is broken as any
  tie is, so the order stays one; of NaN see section 6.
- Records that are published with a lifecycle that is already out of service.
- Data races: `register_worker`, `unregister_worker`, `advance_epoch` and the
  inspection calls do not take the mutex (`engine.hpp:117`). The coordinator is
  one thread, and of the four threads of `tests/test_concurrency.cpp` none calls
  them; what two that did would do to the maps is undefined and would be a
  model of the standard library.
- The byte layout and checksums of the file, and the digests of records. The
  file is whole, short or absent. The temporary file beside it is read by nobody.
- That `Coordinator` may take `Exchange` for its connections is argued, not
  proved: in both one request is on its way at a time and is answered once. A send
  that fails half way on a connection that stands (`AnswerTwice`) has no counterpart
  in `Coordinator`, which has `AnswerFails` for a worker that is gone.
- The other counters of `accounting.hpp`, which nothing decrements and nothing
  but `summary` reads; `location_owner_`, which only `verify` reads.
- A machine crash (the file system keeps what was renamed), SAVE and LOAD of
  files other than the coordinator's own, a coordinator without a file.
- A HELLO with another boot on the same connection (`coordinator_main.cpp:60`),
  which would leave the first boot live for good. `worker_main` says HELLO once;
  said again with the same boot, as after a LOAD that has killed it, it is in
  the model.
- A LOAD of an older file of the client's choice, which would take the epoch
  back, and with it the fence on requests that quote it.
- `can_transition` of `record.hpp`, which no operation calls; `invariant_check`,
  which is a diagnostic (its "highest eligible generation" is
  `CurrentIsHighest`).
- Digests, byte buffers, the command line, examples and benchmarks.

## 6. Other disagreements found while reading

The model follows the code in each of these; no run is spent on them.

- `tests/test_invalidation.cpp:84` expects a repeated generation to be refused.
  It is accepted under another record id once the claim is gone.
- `authority.hpp:148-149`: registering a worker again supersedes its older
  boot. `register_worker` leaves that boot live.
- `invalidation.hpp:77-78` and `README.md:136-137`: nothing at or below a
  tombstone's generation is published again as current. A tombstone with its
  flag unset keeps that only until the coordinator restarts: the floor of the
  registry is not in the file, and `is_tombstoned` looks away. When it has
  replaced a lower tombstone that was in force, that one is lost too.
- `engine.cpp:808-809` tells the caller of a historical query without
  `include_invalidated` that superseded records are excluded, and `README.md:141`
  speaks of a flag to include them. They are found all the same: the test of
  the flag at `engine.cpp:489` applies to queries that are not historical.
  `tests/test_query.cpp:72-78` relies on it, and `HistoryReachable` states it for
  both values of the flag.
- `README.md:96` calls tie-breaking deterministic, `enums.hpp:166-167` the
  comparator. Costs and bandwidths come from requests (`cost.hpp:69-74`) and are
  validated nowhere. With a NaN among the factors (`engine.cpp:657`) two
  candidates differ, neither is less, and generation and id are not asked (690);
  three may then contradict each other, which `std::sort` does not allow for. The
  model has the NaN and `RankingIsTotal` is about the other candidates.
- `engine.cpp:745`: "only" outcomes require their category to be alone. Only
  `INVALIDATED_ONLY` tests that: a superseded record beside an incompatible
  current one answers STALE_ONLY (752), and INCOMPATIBLE_ONLY is given beside
  records refused for their locations (750).
- `engine.cpp:870` calls the replacement of the file atomic. It is where
  the rename succeeds; where it is refused the old file is removed first.
- `engine.cpp:218`: an older location does not replace a newer one. It does
  when the envelope carries no location generation (221), and after a removal
  there is no generation to compare with.
- `README.md:183` speaks of a rejected location replay. After the placement was
  removed there is nothing to compare with.
- The counters of `accounting.hpp` drift upwards: a replaced location is
  counted again, nothing is taken off for a record that is superseded, and
  `save` and `load` carry the drift on.
- `accounting.hpp:13-17` says that a decrement of zero is reported.
  `remove_location` uses `--` (`engine.cpp:270`), not `dec`. After a load that
  failed half way the count is 0 beside stored locations; saved and loaded from
  there, the next removal wraps it. Short of that it cannot
  (`RecoveredLocationsCounted`).
- `index.hpp:54-55`: `remove` takes a record out of every index when its keys
  change. Every caller hands it the record as it will be (`engine.cpp:150`, 238,
  267, 308, 367): entries under the old lifecycle and the old node stay. Lookups
  return too much, never too little (`IndexMissesNothing`).
- `location_owner_` (`index.hpp:48`) follows the last record inserted.
  Superseding a record inserts the old one again after the new one, so that a
  placement both have goes back to the old one; `verify` (`index.cpp:83-85`) then
  reports a mismatch for one of the two whichever is right. After
  `remove_location` the entry stays.
- `tests/test_persistence.cpp:83-84` expects a loaded index to verify; with a
  placement shared by two records it does not.
- `record.hpp:22-23`: an AVAILABLE record has a location. None is asked for,
  and removing the last one leaves the lifecycle alone.
- `record.hpp:27`: TOMBSTONED and RETIRED are final. A later invalidation
  rewrites them; the record is refused either way (`RefusalIsFinal`), except one
  that a tombstone not in force has left current: superseded later, it is history
  and found by historical queries.
- `include_invalidated` shows no invalidated or tombstoned record:
  `engine.cpp:487` refuses them whatever the query says.
- `query.hpp:114` calls an option historical-only that only matters in
  non-historical queries (`engine.cpp:489`); `historical_only` is read by
  nothing.
- `tests/test_adversarial.cpp:111` expects only current records from ordinary
  queries. With rule EXACT, MINIMUM or ANY they return records that were accepted and are
  not current.
- When the records of a state are partly invalidated and partly incompatible
  the outcome is NOT_FOUND, although candidates were looked at.
- A wildcard query that names a state looks only at that state.
- A required dependency is not followed further: what the other state itself
  requires is not asked.
- `tests/test_multiprocess.cpp` treats a dead boot as dead for good. A process
  that says HELLO with its id makes it live again.
- `coordinator_main.cpp:33` reports "starting fresh" when its file is refused.
  When `load` fails at a repeated generation, the engine already holds the
  records before it, with no history and no current entry (`RecoverHalf`).
- `coordinator_main.cpp:53` speaks of one incarnation that dies. When its
  answer cannot be sent, the handler at 133-136 throws once more and the
  coordinator ends (`AnswerFails`).
- A result that cannot be sent is answered with an error
  (`coordinator_main.cpp:133-135`), although the request has been carried out.
  When the result went out in part, the error is spliced into it. The receiver
  then reports a frame that does not decode, or, when the result announced more
  than what follows, waits for the rest while the coordinator waits for the next
  request: without `failed`, `RequestsEnd` does not hold. `DeliveredIsSent` says
  that nothing of the splice is ever delivered.
- `encode_frame` has no limit and `recv_frame` has (`tcp.hpp:167`): a request or
  an answer beyond 64 MiB is sent and ends the connection at the other side.
- `save` has no limit and `load` has (`record.hpp:140`, 143): a record with more
  than 4096 locations or dependencies is acknowledged, saved over the last good
  file, and refused half way by the next start (`Outgrown`).
- `send` is called without `MSG_NOSIGNAL` and no program ignores SIGPIPE: where
  the model has a send throw after the other side has closed, a POSIX process
  may be killed. In the model that is `Killed` or `Die`.

## 7. What remains

The modules above are the plan carried out: the engine and its abstract index,
persistence, locations and indexes, queries, the connection loop, locations
through recovery, the byte stream, and proofs about all of them. What a
continuation could add:

1. Files other than the coordinator's own: a second file in `Persistence`, SAVE
   and LOAD to either, and the epoch that then goes back.
2. A client of its own design in `Coordinator`: HELLO with another boot, silence.
3. A machine crash as an outcome of `Save`.
4. `Query` over the locations of `Locations`, whose freshness a recovery changes.
