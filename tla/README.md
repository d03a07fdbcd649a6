# A TLA+ model of disruptor-cpp

disruptor-cpp is a C++ port of the LMAX Disruptor: producer threads pass events
to consumer threads through a preallocated ring of slots, without locks on the
hot path. The modules in this directory model the library from the headers under
`src/include/disruptor/`, and the two other ring buffers the repository keeps under
`src/reference/` (tbus and the Unity interop layer). TLC checks them on small
instances, and TLAPS proves the central safety properties for every size.

## 1. The system

| Component | State | Operations | Works with |
|---|---|---|---|
| `Sequence` | one padded atomic `int64_t` | get, set, setVolatile, compareAndSet, getAndAdd | everything below |
| `MultiProducerSequencer` | `cursor_` (highest **claimed** sequence), `gatingSequenceCache_`, one availability flag per slot | next, tryNext, hasAvailableCapacity, remainingCapacity, claim, publish, isAvailable, getHighestPublishedSequence | consumers' sequences gate the producers; the wait strategy is signalled on publish |
| `SingleProducerSequencer` | `nextValue_`, `cachedValue_` (thread-private), `cursor_` (highest **published** sequence), a raw pointer to the gating vector | the same | the same |
| `SequenceGroups`, `AtomicSharedPtr`, `AbstractSequencer` | the vector of gating sequences behind an atomic `shared_ptr` | addSequences, removeSequence, minimumSequence | any thread changes it while producers read it |
| `FixedSequenceGroup`, `SequenceGroup`, `Util` | arrays of sequences | minimum over a set of sequences, read one at a time | barriers, sequencers |
| `RingBuffer` | `entries_` | get, publishEvent(s), tryPublishEvent(s) | sequencer, translators |
| `ProcessingSequenceBarrier` | `alerted_`, the dependent sequence | waitFor, alert, clearAlert, checkAlert | wait strategy, sequencer, processor |
| Wait strategies (eight) | mutex, condition variable, `signalNeeded_` | waitFor, signalAllWhenBlocking | barrier, publisher |
| `BatchEventProcessor` | `running_` (IDLE, HALTED, RUNNING), `sequence_`, rewind attempts | run, halt, processEvents, exceptions, rewinds | barrier, event handler, exception handler, rewind strategy |
| `EventPoller` | its own sequence | poll | sequencer, gating sequence |
| `tbus` (reference) | `head_offset`, `tail_offset`, bytes in shared memory | tbus_init, send_begin, send_end, read_begin, read_end | one sender and one reader process |
| Unity interop (reference) | a battle context with two byte rings, the last error | the `HGameBattle_*` exports, Update, the rings' reads and writes | a host that reads and writes the rings' memory itself |
| DSL (`Disruptor`, `ConsumerRepository`, `EventHandlerGroup`, ...) | processors and their barriers, end-of-chain marks, `started_` | handleEventsWith, then, start, shutdown, halt, publishEvent | builds topologies of all of the above |

A producer claims a range of sequences, writes the slots `sequence % bufferSize`
and publishes the range. A consumer waits on its barrier for `sequence + 1`,
takes everything published as one batch, hands the events to its handler and
then moves its sequence past the batch. Consumers depend on other consumers
(pipelines, diamonds); only the ends of the chains gate the producers.

**What is hard.** With several producers `next()` claims *before* it looks for
room, through a cache of the consumers' minimum that all producers overwrite;
`tryNext()` claims with a CAS on a cursor read earlier. Minima are read one
sequence at a time while the sequences move. Publication is out of order and
announced by flags that store the lap number truncated to an `int`. The set of
gating sequences changes under the producer, which holds it by raw pointer.
Around this core sit wake-ups that can be lost, alerts that can be lost or come
late, batches that fail in the middle or are rewound, translators that throw
with a claim in hand, and a shutdown that races the start of the threads. The two
byte rings know the other side only by an offset that may be old. `PROJECT.json`
lists each hazard at its line.

**What makes the parts correct.**

* Sequencers: no slot is overwritten before every consumer is done with it; no
  sequence is claimed twice or lost; a consumer sees only written events; a
  consumer never passes one it depends on; whoever waits for room gets it when
  consumers progress; the gating vector in use is never freed.
* Barrier and wait strategies: a waiter never returns below what it asked for,
  and never sleeps while its sequence is available or its barrier alerted.
* Processor: each event is delivered, in order, and either handled or reported;
  halt ends the run.
* Publishing with translators: what is claimed is published, whatever the translator
  does (of one method this is not true, see the findings); nobody is given an event
  of another sequence; a poller misses nothing.
* DSL: chained handlers keep their order; shutdown drains what was published.
* Byte rings: a channel, and a message is lost only for a known reason.

## 2. The modules

| Module | Models |
|---|---|
| `Sequencing` | what both sequencers share: `BufferSize`, sequence numbers from -1 to `MaxSequence`, slot indices, the minimum of two sequences |
| `SequencingProofs` | lemmas about slots, laps, minima and maxima, for all proofs |
| `MulticastBuffer` | the promise: a set of published sequences, and for each consumer the end of the prefix it has handled, never ahead of publication, with a bounded lag |
| `MultiProducerSequencer` | `MultiProducerSequencer.h`, with producers, barrier and batch consumers around it |
| `MCMultiProducerSequencer` | a topology for TLC |
| `MultiProducerSequencerProofs` | types, overrun, order of consumers; on top of them claims, flags, contents of batches, refinement of `MulticastBuffer` |
| `SingleProducerSequencer` | `SingleProducerSequencer.h`, `SequenceGroups.h`, `AtomicSharedPtr.h`, consumers that join and leave |
| `MCSingleProducerSequencer` | model values for TLC |
| `SingleProducerSequencerProofs` | the inductive invariant and the theorems |
| `BatchEventProcessor` | `BatchEventProcessor.h` with its rewind strategies and exception handler, the alert of `ProcessingSequenceBarrier.h` |
| `BatchEventProcessorProofs` | the inductive invariant and the theorems |
| `WaitStrategies` | the eight wait strategies, the barrier's `waitFor` and `alert` |
| `WaitStrategiesProofs` | the inductive invariant and the theorems |
| `Disruptor` | `dsl/Disruptor.h`, `ConsumerRepository.h`, `EventProcessorInfo.h`, `EventHandlerGroup.h` |
| `DisruptorProofs` | the inductive invariant and the theorems |
| `EventPublishing` | the translator methods of `RingBuffer.h` over either sequencer, `EventPoller.h`, the pollers of two examples |
| `EventPublishingProofs` | the inductive invariant, the theorems, refinement of `MulticastBuffer` |
| `FifoChannel` | the promise of a byte ring: what is received is a prefix of what was sent |
| `Tbus` | `tbus.c`, `tbus.h` and the loops that call them |
| `UnityInterop` | `UnityExport.cpp`, `UnityBattleContext.cpp`, `RingBuffer.cpp`, the host and the battle |
| `ByteRingProofs` | the inductive invariants and the theorems about both, refinement of `FifoChannel` |
| `MCBatchEventProcessor`, `MCWaitStrategies`, `MCDisruptor`, `MCEventPublishing`, `MCTbus`, `MCUnityInterop` | model values for TLC |

The sequencer modules look into claiming and publishing and keep the consumers
simple; `BatchEventProcessor` looks into one consumer and keeps the publisher
simple; `WaitStrategies` looks into the wait that the other two take as a test
repeated until it succeeds; `Disruptor` composes processors and a publisher, each
operation of the modules below it being one step. `EventPublishing` puts the ring
buffer's methods on top of both sequencers, whose calls are one or two steps.
`MulticastBuffer` is implemented by `MultiProducerSequencer` and by `EventPublishing`,
`FifoChannel` by `Tbus` and by each ring of `UnityInterop`.

### Conventions

Each access to an atomic that some other thread writes is one step; purely local
computation belongs to the step before it. A spin loop is represented by the
step that leaves it and by each re-read that can change a local variable. A
thread is a program counter (`ppc` for producers, `cpc` for consumers) and its
locals, which are reset when the call that owns them returns, so that equal
situations are equal states. Memory is sequentially consistent, with one
exception: in `WaitStrategies` the release store of `signalNeeded_` can be delayed.
The code uses acquire/release operations and explicit fences; which other
reorderings they allow is not explored. Slot contents are abstracted to the
sequence whose event was written there last, which is all the properties need
to tell one event from another.

### `MultiProducerSequencer`

`cursor`, `gatingSequenceCache`, `availableBuffer` and `entries` are the fields
of the same name; `published` is a history variable.

* `NextClaim` is `getAndAdd` in `next(n)`; `ReadCursor` begins `tryNext(n)` and
  `hasAvailableCapacity(n)`. `CacheHit` and `StartMinimum` are the two outcomes
  of the test of the cache; `ReadGating` is one iteration of
  `Util::getMinimumSequence`. `SpinForRoom`, `FoundRoom` and
  `InsufficientCapacity` are what follows the loop, `CasClaim` and `CasRetry` the
  weak CAS, which may fail spuriously. `WriteEntry` is the caller filling one
  slot, `Publish` one round of `publish(lo, hi)`.
* A consumer is `WaitForCursor` or `ReadDependent` (the barrier's `waitFor` with a
  spinning wait strategy), `ScanFlag` and `ScanEnd` (`getHighestPublishedSequence`),
  `OnEvent` and `EndBatch` (`BatchEventProcessor::processEvents`).
* The topology is constant: `DependsOn` is what a consumer's barrier tracks,
  `GatingConsumers` the ends of the chains, `Upstream` the transitive dependencies.
  `TopologyAssumption` says what the DSL guarantees: every consumer gates or is
  upstream of one that does, and what is depended on is upstream.
* `FlagModulus` is 2^32 in the code. `FlagModulus = 2` in the runs makes the
  flags wrap around as early as two laps in, which is the sharpest case.

### `SingleProducerSequencer`

`vectors` is the history of the gating vectors, so that a pointer is an index
into it. A vector is alive while `gatingSequences_`, the producer's `snap` or an
updating thread's `held` refers to it; the raw pointer `gatingSequencesCache_`
keeps nothing alive. Joining and leaving are the steps of
`SequenceGroups::addSequences` and `removeSequence`, failed exchanges included,
followed by the reset of the raw pointer in the sequencer's own methods.
`QuiescentUpdates` chooses between consumers that join and leave only while the
producer is between two claims and consumers that do so at any time.

### `BatchEventProcessor`

`running`, `alerted`, `sequence` and `retriesAttempted` are the fields of the same
name (`alerted_` is the barrier's); `rpc` and the locals belong to the threads in
`run()`, `hpc` to those in `halt()`. `outcome` is a history variable: what became
of each event.

* `Run` is the exchange in `run()`; `EarlyExit`, `ClearAlert`, `NotifyStart`,
  `CheckRunning`, `NotifyShutdown` and `SetIdle` follow it. An exception that
  leaves `run()` (from `notifyStart` or `notifyShutdown`) ends the thread at
  `escaped`, with `running_` as it was.
* `CheckAlert`, `HandleAlert`, `Available`, `NotAvailable`, `NotifyTimeout`,
  `OnBatchStart`, `OnEvent`, `EarlyRelease`, `EndBatch`, `AttemptRewind`,
  `HandleEventException` and `Skip` are the loop. Each callback may return or throw a
  `std::exception`, a `RewindableException` or something else; `Caught` says which handler
  gets it.
* `EarlyRelease` is the middle of an `onEvent` whose handler moves the sequence itself,
  through the callback `BatchEventProcessorBuilder` gives it. The event is then `released`;
  the handler goes on and may still throw, after which the event is reported or, when
  no handler catches what was thrown, `lost`.
* `CountAttempt` counts rewinds as `EventuallyGiveUpOnBatchEventRewindStrategy` does. It
  gives up when the count is equal to the limit, which may be any integer, so the
  model keeps one value for all counts beyond the limit: a count that stepped over it
  would stay there.
* An exception handler that throws makes the processor halt itself: `HaltSelf` and
  `AlertSelf`, the same two stores as `Halt` and `Alert` of another thread.
* `anyTime`, fixed by `Init`, chooses between `run()` calls that overlap `halt()` and exception
  handlers set at any time, and a use that avoids both.

### `WaitStrategies`

`kind` is the strategy of a behaviour and `phased` says whether it is the
fallback of a `PhasedBackoffWaitStrategy`. BusySpin, Yielding and Sleeping are one
kind: they differ in how they pass the time. A waiter takes the mutex (`Lock`), sets
`signalNeeded_` (`SetFlag`, before or after the test of the cursor as its strategy
does), tests the cursor and the alert (`TestCursor`, `CheckAlert`), falls asleep
(`Sleep`), wakes up (`NotifyAll`, `Expire`, `WakeSpuriously`) and ends with the loop on
the dependent sequence (`Return`, `SpinOnce`, `SpinCheckAlert`). The publisher and an
alerting thread store and then signal (`Exchange`, `NotifyAll`). For the kinds in
`DelayedStores` the store of the flag stays in a buffer until `Drain` or until the
mutex is given up.

### `Disruptor`

`consumerInfos`, `started` and `halted` are the fields of the same name; `dependsOn`,
`endOfChain` and `gating` are the topology as barriers, marks and gating sequences
record it. One thread owns the disruptor: `pc`, `args`, `at` and `seen` are where it
is, what it was asked, its index in the loop over `consumerInfos_` and the cursor
`hasBacklog()` was given. `args` also keeps, for the properties, the situation in
which `shutdown()` was called.

* `CreateEventProcessors`, `AddGatingSequences` and `UpdateGatingSequences` build
  chains. Handlers are added behind handlers that are at the cursor, and not
  while events are published, nor after `halt()`: a handler chained behind a
  laggard starts ahead of it, and one added after `halt()` is not halted by the
  destructor (the hazards at `dsl/Disruptor.h:270` and `:54`).
* `HandleEventsWithProcessors` adds the caller's own processors, with barriers from
  `asSequenceBarrier`; the group they follow keeps gating the ring. The method has no
  `checkNotStarted` (`dsl/Disruptor.h:109` to `:120`); calls of it after `start()` or `halt()`
  are left out, as nobody would start, or halt, those processors. Processors of one
  call that depend on each other are what one call for each builds.
* `Start`, `StartNext` and `StartFails`; `Shutdown`, `ReadCursor`, `IsRunning`,
  `CompareSequence`, `WaitForBacklog` and `Drained`; `Halt`, `HaltNext`; `Join`,
  `JoinNext`; `Destroy`.
* A processor's thread is created, enters `run()`, and then goes round `Loop`, `Wait`
  and `EndBatch`, or `FailBatch` when the handler's exception meets an exception
  handler that throws. With one that returns the batch goes on behind the event,
  which is `Skip` of `BatchEventProcessor`.

### `EventPublishing`

`producerType` is the sequencer of a behaviour. `claimed` is the multi-producer cursor
or the single-producer `nextValue_`, `published` the sequences a consumer may see;
`untranslated` and `thrown` are history. A producer goes through `publishEvent` or one
of its variants, `nextMulti` or `nextSingle`, `nextReturns`, the translators
(`translateTo`, `NoTranslator`, `TranslatorThrows`, `TranslatorOfBatchThrows`) and `publish`.

* A claim is one step with the test for room as a second one; what the
  sequencers do in between is the business of their modules. The multi-producer
  gating cache is left out: it never exceeds the minimum (`NeverOverruns`), so it
  can only delay. The single-producer `cachedValue` stays, because a miss also stores
  the cursor, and with it shows consumers what an exception left unpublished.
* `poll` reads its gating sequence and scans the flags in one step: both only grow,
  so an earlier scan would have found a part of what this one finds, and a later
  poll the rest.
* A poller in `Batched` is inside the `BatchedPoller` of the example: `addDataItem` is its
  handler, `pollMessage` its other end.

### `Tbus`

Each load and each store of the other side's offset is a step: `tbus_send_begin`
(with `Rewind` when it stores the tail), `Fill`, `tbus_send_end` and `Publish`;
`tbus_read_begin`, `peek`, `PeekReturns`, `Consume` and `tbus_read_end`. `peek` is one
iteration of the loop that found a packet and has an iovec for it; `PeekReturns` is the
end of the loop, after which `tbus_read_begin` peeks once more from the start of the ring
or returns. Stores take effect in program
order: the offsets are volatile and the target is x86. A cell is a unit of memory;
a header is `HeaderSize` cells, of which the first says what it is. The callers are the
loops of `TBusSingleProducerSingleConsumer.cpp`, which leaves out `tbus_read_end` when
it was shown nothing (`ReadNothing` allows both). The benchmark sends one length and
looks into the first iovec only, although `tbus_read_end` gives all of them back; the
model's sender chooses among `Lengths`, and its reader looks at all it was shown. `NumberAssumption` asks for room for
two packets: with one, a sender that has rewound waits for just that call. `posted`,
`places` (the offset at which each packet was put), `loaded` (how many of them the tail
that the reader loaded covers) and `delivered` are history.

### `UnityInterop`

The frame thread (`frame`) calls the exports one after the other, and Update goes
through `ReadAll`, `ReadCopy`, `ReadStore`, the loop over the data
(`parseAndDispatchMessage` is an iteration it goes on after, `ProcessIncomingMessages` its
end: no more data, something that is not a message, or an exception) and the battle's own
update, which may write to the output (`OutputPrepare` to `OutputCommit`, or `Write` for a
message at once) or throw. The host fills the input and drains the output at the
same time. A message is two header cells and a body; `handled`, `empty` and `fatal`
are what becomes of it: dispatched or refused, without a body, or its handler
throws. Error codes are abstracted to SUCCESS and ERROR; null pointers and null
out-parameters, which are refused, are left out. A context ends with its rings, and
the channel begins anew (`ReopenedSpec`). The history is in cells (`sent`, `received`) and
in messages (`messages` with the cell each starts at, `committed`, `unread`, and in
`outcomes` and `log` what became of the messages of each `ReadAll`).

### Bounds

`MaxSequence` ends a behaviour: no claim goes beyond it. Runs therefore end in
states where every producer is idle and every consumer waits, and do not check
for deadlock; the liveness properties say that everything which was claimed gets
there. Everything else is bounded by it. `vectors` grows by one for each join
and each leave, which happen once for each consumer.

## 3. The runs

| Run | Instance | Checks |
|---|---|---|
| `mps_pipeline` | two producers, requests of 1 and 2, two slots, sequences 0..4 (into a third lap), c1 before c2, batches of at most 2, fairness | `TypeOK`, `NoOverrun`, `BatchIntact`, `ClaimsPartition`, `FlagsAreTruthful`, `DependencyOrder`, `ClaimedIsHandled`, `ImplementsMulticast` |
| `sps_quiescent` | c1 from the start, c2 joins, both may leave, between claims; requests of 1 to 3 on two slots | `TypeOK`, `NoDanglingRead`, `NoOverrun`, `BatchIntact`, `LookingForRoomEnds`, `PublishedIsHandled` |
| `sps_concurrent` | the same, at any time | `NoDanglingRead`, which is **violated** |
| `publishing` | both sequencers, two producers, single events and batches of 2 on two slots, sequences 0..2; pollers c1 and c2 with batches of 1 and 2, c3 behind both; one handler that throws; fairness | `HandledIsTranslated`, `HolesAreThrows`, `TryWaitsOnlyWhenOvertaken`, `BatchedIsComplete`, `ImplementsMulticast` |
| `publishing_throw` | the same, sequences 0..1, safety only | `PublishesInFinally`, which is **violated** |
| `processor` | two threads in `run()`, two in `halt()`, both values of `anyTime`; three events, batches of 2, give up at the second rewind; fairness | `TypeOK`, `OneRunner`, `Accounted`, `SettledIsFinal`, `HaltEndsRun`, `Progress` |
| `wait` | two waiters, one sequence, every strategy bare and phased; delayed stores for LiteTimeoutBlocking; fairness | `TypeOK`, `NoLostWakeup`, `Delivered`, `AlertEndsWait` |
| `wait_store_buffer` | one waiter, LiteBlocking with delayed stores | `NoLostWakeup`, which is **violated** |
| `disruptor_life` | two handlers in every topology, one slot, three events, fairness | `TypeOK`, `ChainsHold`, `ShutdownDrains`, `ShutdownReturns`, `DestructionEnds` |
| `disruptor_startup` | the same, two events | `ShutdownDrainsStarted`, which is **violated** |
| `tbus` | 8 cells (two packets of 2 + 2), lengths 1 to 4, five packets, two iovecs, fairness | `NoOverwrite`, `ImplementsChannel`, `AllArrive` |
| `unity` | rings of 8 cells, three messages in of any kind, two out, contexts that come and go, fairness | `LossIsExplained`, `RingsAreChannels`, `InputIsRead` |

*Why the bounds are enough to be interesting.* Two slots and requests of two mean
that a claim can fill the ring, straddle its end, and be one lap ahead of a slow
consumer; the third lap makes slot 0 come back twice, and its flag (modulo 2) equal to
that of the first. Two
producers are enough for a lost CAS, for claims published out of order and for a
stale minimum put back into the cache. Requests of three, larger than the ring,
exercise `tryNext` and `hasAvailableCapacity`, which do not refuse them up front.
The pipeline has a consumer that does not gate, and each minimum in it is over one
sequence. Minima over several are read in `publishing` at once, and one by one in the
proofs of `NeverOverruns` and `KeepsDependencyOrder`, which have no bound. As claims end
with `MaxSequence`, `ClaimedIsHandled` says that every consumer comes to the cursor and
stays there.

For the processor two runners are what a mix-up of runs needs, and two batches of
different length, one rewound and one failing in the middle, fit into three
events. For the wait strategies one notification has to reach two sleepers, and
liveness is about one publication; that the safety properties hold over any number
of publications is proved. For the DSL one slot
makes every event wait for the slowest chain, and two handlers are enough for a
chain, for two parallel handlers, and for a processor that fails under another.

For publishing a batch fills the ring, so that a third sequence has to wait for
the slowest poller, a hole is in front of the others or behind them, and the next
claim of a single producer covers it; c3 has a minimum over two sequences that
move in steps of different length. For tbus five packets of length 1 to 4 take
the sender round a ring of eight cells at least once, with a rest of the ring that
holds an ignore header, one that does not, and none. A Unity ring of eight
cells holds two or three messages; the third one in and the second one out can lie
across the end, and one batch can be all three.

*Fairness.* `WF` of `Continue(p)` and `Consume(c)`: a thread inside a library call,
and a consumer thread, keeps being scheduled. Starting an operation is the
application's choice and has no fairness. In `SingleProducerSequencer` an update
that has begun goes on, too. No strong fairness is assumed of them; the CAS loop of
`tryNext` can retry forever, and nothing is claimed about it (`ClaimedIsHandled`
speaks of sequences that were claimed). In `BatchEventProcessor` threads inside
`run()` and `halt()` go on, so callbacks return. In `WaitStrategies` waiters run and
timeouts expire (`WF`), and a mutex that is free again and again is acquired (`SF`:
what a `std::mutex` gives in practice; under weak fairness the others could take
it forever). Nothing makes a notification or a spurious wake-up happen except
the code that sends it. In `Disruptor` the processors' threads run and the owner
finishes a call it has begun; calling and publishing are free. In `EventPublishing`
pollers poll in a loop (`WF` of `Pull`) and producers owe nothing. In `Tbus` both loops
run (`WF`), and a caller that is given room again and again does send (`SF` of `Fill`;
`SendNothing` is its choice, but not for ever). In `UnityInterop` the host keeps calling
Update, an Update goes on (`WF`), and a battle that could end its update again and
again does (`SF` of `UpdateDone`); the host owes the rings nothing.

*What the properties leave out.* `Progress` is checked without exception handlers
that are set while the processor runs and without a `halt()` that overlaps the next
`run()`: an alert that hits a RUNNING processor is never cleared, and the loop then
spins without progress. It leaves out the rewind strategy that never gives up, and the
one with a limit below 1, which a count that starts at 1 never meets. `HaltEndsRun` has
the first of these conditions, too. No property says that a processor can run again
after an exception has left `run()`: `running_` stays RUNNING then.
`NoLostWakeup` leaves out LiteTimeoutBlocking, which sets its flag after the test and
relies on the timeout; `Delivered` includes it. `HolesAreThrows` says that nothing
but a throw in `publishEvent` or `tryPublishEvent` leaves a sequence that nobody publishes; that this one does
is the finding of `publishing_throw`. With several producers such a hole stops every
poller for good, which `ImplementsMulticast` allows: `MulticastBuffer` promises nothing
for a sequence behind one that is not published. `NoOverrun` and `PublishedIsHandled` of
`sps_quiescent` say nothing of a consumer that joins in the middle of a claim. `ChainsHold`
leaves out a handler chained behind one that lags. `LossIsExplained` permits the losses of a batch behind
a message without a body or one that throws. `InputIsRead` says that a message is
taken out, not that it is handled. `ShutdownReturns` leaves out
processors that have failed: one that others depend on leaves a backlog for ever.

### The findings

`sps_concurrent` refutes a comment. `SingleProducerSequencer.h:190` says of the
raw pointer `gatingSequencesCache_`: "This is safe because gatingSequences_ is only
updated during add/remove (not on hot path), and we refresh the cache when it's
null." The counterexample: the producer reads the pointer and starts to iterate
over the vector; another thread's `removeGatingSequence` exchanges the vector,
whose last reference goes away, and only then resets the pointer. The
`DynamicallyAddHandler` example removes a handler while a producer could be
running. `sps_quiescent` shows that the cache is right when updates and claims do
not overlap.

`publishing_throw` is about `publishEvent`. `RingBuffer.h:157` to `:161` claims, translates
and publishes one after the other, without a try: when the translator throws, the claimed
sequence is never published by this call. `tryPublishEvent` does the same. `publishEvents` (`:245` to `:256`) catches,
publishes the whole batch and throws again. `RingBuffer.h:2` calls the class a "1:1 port" of
the Java one, and the example `HandleExceptionOnTranslate.cpp:62` says what that one does:
"Java publishEvent always publishes in finally; do the same here." With several producers
the hole stops every consumer for good; a single producer's next cursor store covers it,
and consumers get the event that was never translated. `HolesAreThrows` in `publishing` is
what holds: no other call leaves a hole.

`wait_store_buffer` is about `LiteBlockingWaitStrategy.h:29`. The waiter stores
`signalNeeded_` with release order and reads the cursor again. With the store delayed
past the read, the publisher's exchange sees no need to signal, and the waiter
sleeps with its event published. `LiteBlockingWaitStrategy.h:2` calls the class a "1:1
port" of the Java one, whose `AtomicBoolean` orders the two. `wait` shows, and
`NoWakeupIsLost` proves, that with the store in order the strategy loses no wake-up.

`disruptor_startup` is about `shutdown()`, of which `dsl/Disruptor.h:206` says "Java waits
for backlog to drain, then halts. We keep same logic." `hasBacklog()` passes over
processors that are IDLE, and a processor is IDLE until its new thread has entered
`run()`. A `shutdown()` soon after `start()` finds no backlog, halts the processors, and
what was published is handled by nobody. `ShutdownDrains` in `disruptor_life` is what
holds: once all processors are RUNNING, `shutdown()` drains.

## 4. The proofs

`MultiProducerSequencerProofs` proves, for any set of producers and consumers,
any topology that satisfies `TopologyAssumption`, any buffer size, request
sizes, batch size and `MaxSequence`:

* `TypeCorrect`: `SafeSpec => []TypeOK`
* `NeverOverruns`: `SafeSpec => []NoOverrun`
* `KeepsDependencyOrder`: `SafeSpec => []DependencyOrder`

They rest on one inductive invariant, `Safe`, in four layers.

1. `TypeOK`.
2. `Bounds` relates locals to each other and to what is claimed: a producer's
   range lies below the cursor once claimed, `at` stays inside the range, a
   consumer's `position` and `available` are at least its sequence and at most
   what it waited for. Without it `TypeOK` is not inductive.
3. `Gated`: whatever a producer has read as a minimum, and whatever any producer
   has left in `gatingSequenceCache`, is at most the sequence of every gating
   consumer it has read. Sequences only grow (`ConsumersAdvance`), so a stale
   minimum errs on the safe side; this is why the unlocked cache, and the minimum
   that was never the minimum at any one instant, do no harm. `NoOverrun` for the
   gating consumers follows at the test of `wrapPoint`.
4. `Ordered`: the batch a consumer has accepted, and the partial minimum it is
   computing, is at most the sequence of each consumer it depends on that was
   read. With transitivity along `Upstream` this yields `DependencyOrder` and
   carries `NoOverrun` from the gating consumers to all others.

Each layer has a lemma for the steps of a producer and one for the steps of a
consumer, with one case per action; `SafeInductive` combines them.

`BatchEventProcessorProofs` proves, for any number of threads in `run()` and `halt()`,
any batch size, number of attempts and events, and either value of `anyTime`:

* `TypeCorrect`: `SafeSpec => []TypeOK`
* `RunsAlone`: `SafeSpec => []OneRunner`
* `SkipsNothing`: `SafeSpec => []Accounted`
* `SettlesForGood`: `SafeSpec => SettledIsFinal`

Its invariant `Safe` joins `TypeOK` with three parts.

1. `Exclusive`: one thread at most is inside, and while one is, `running_` is not
   IDLE, so that the next exchange fails. `OneRunner` alone is not inductive: it does
   not say why a second thread cannot get in, or that an early exit and a halt
   leave `running_` to the thread inside.
2. `Placed`: the locals of the thread inside are tied to `sequence`: `nextSequence` lies
   in the batch or just behind, and what lies between is settled; the batch starts
   right after `sequence` unless a handler has released a part of it, and such a
   handler cannot rewind. When the two are equal, the handler of that event has
   released it and is still at work, or has failed after that. Only one thread moves `sequence` (part 1), so the locals stay
   valid while halters and publishers act.
3. `Accounted`: every event up to `sequence` was handled, reported or released by its own
   handler. A batch ends
   when each of its events was handled; a failing event was reported before `Skip`
   moves past it; a rewind goes back to the start of the batch, above `sequence`; an
   early release covers the event at hand and what was settled before it.

`SettledIsFinal` follows step by step: what becomes of an event changes only above
`sequence` or while it is released and no more, and `sequence` never moves back. `TypeOK`
also says that the count of rewinds never steps over a limit of at least 1, and the
theorem has it for any integer as the limit.

`WaitStrategiesProofs` proves, for any number of waiters and sequences and any choice
of strategies:

* `TypeCorrect`: `Spec => []TypeOK`, which includes that the mutex is held by exactly
  the waiter that is in its scope
* `NoWakeupIsLost`: `Spec => []NoLostWakeup`, if LiteBlocking's store is not delayed
  (`ImmediateFlag`; the counterexample of `wait_store_buffer` needs the delay)

The invariant `IInv` adds three parts to `TypeOK`.

1. `PlacesFit`: the spinning strategies never come to the mutex, and only the Lite ones
   to the flag.
2. `Flagged`: a LiteBlocking waiter that has set the flag and has not returned finds it
   still set, or somebody took it and will notify. This is what lets the publisher
   skip the notification when the exchange gives false.
3. `Pending`: `NoLostWakeup` said of the earlier places, too. A waiter that sleeps with its
   sequence published must have tested before the publication, so the publisher is
   still on its way to `NotifyAll`. The test and the sleep are in the mutex, and
   `NotifyAll` takes it: nobody can notify in between.

`SequencingProofs` holds what the proofs share: `std::min` is a minimum, a non-empty set
of integers with a bound has a least and a greatest element (`MinIsLeast`, `MaxIsGreatest`,
both from the least-number principle `LeastNumber`), and two sequences less than a lap
apart have different slots while those a lap apart share one (`NearSlotsDiffer`,
`LapSharesSlot`).

`MultiProducerSequencerProofs` continues with what the consumers are given, under the
same assumptions:

* `PartitionsClaims`: `SafeSpec => []ClaimsPartition`
* `FlagsTellTheTruth`: `SafeSpec => []FlagsAreTruthful`
* `BatchesStayIntact`: `SafeSpec => []BatchIntact`
* `RefinesMulticast`: `SafeSpec => Multicast!SafeSpec`, the safety part of
  `ImplementsMulticast`

Its invariant `Delivery` stands on `Safe` and has to be carried through as a whole.

1. `ClaimsPartition`: `getAndAdd`, or a CAS that succeeds, claims what lies above the cursor,
   so claims never meet; publishing moves one sequence from its producer to `published`.
2. `Window`: all that a consumer has passed is published, and nothing more than a lap ahead
   of it. The second half is `NoOverrun` at the moment of a publication.
3. `FlagsAreTruthful` needs `Window`: a flag is written in the lap ahead of every
   consumer, where no other sequence has the same slot, and when a consumer moves on,
   the slots that enter its window hold the flag of the lap before, which differs from the
   expected one as `FlagModulus` is at least 2.
4. `Scanned`: a scan that trusts the flags has passed published sequences only.
5. `EntriesHold`: a slot in the lap ahead that was filled, published or not, holds its
   event. A producer fills a slot of another lap, or one nobody else has claimed.

A step of the implementation is then a stutter, the publication of a new sequence with
bounded lag, or the step of one consumer over published sequences.

`SingleProducerSequencerProofs` proves, for any consumers that come and go, any ring and
any requests:

* `TypeCorrect`: `SafeSpec => []TypeOK`, updates at any time
* `NoVectorIsReadFreed`: `SafeSpec => []NoDanglingRead`
* `NoConsumerIsOverrun`: `SafeSpec => []NoOverrun`
* `BatchesStayIntact`: `SafeSpec => []BatchIntact`

The last three assume `QuiescentUpdates`: gating sequences change only while the producer
is between two claims. The hypothesis is needed: without it `sps_concurrent` violates
`NoDanglingRead`. The invariant is built in layers.

1. `Typed` adds to `TypeOK` where the producer's `at` and `nextValue` lie and that a batch ends
   at the cursor.
2. `Quiet`: no update is under way inside a claim, and the raw pointer is null or that of
   the installed vector, unless an updating thread is about to reset it.
3. `GatedBy`: the installed vector holds exactly the consumers that are in; a newcomer
   is at the cursor, which is why it is covered by a `cachedValue` from before it came;
   no minimum, cached or under way, is above the sequence of a member.
4. `EntriesHold`: the slots of the lap that ends with the claim hold their events.

`DisruptorProofs` proves, for any finite set of handlers, any topology that the calls
of the DSL can build from them and any ring:

* `TypeCorrect`: `SafeSpec => []TypeOK`
* `ChainsAreKept`: `SafeSpec => []ChainsHold`
* `ShutdownLeavesNoBacklog`: `SafeSpec => []ShutdownDrains`

1. `Registered`: a handler is in the repository once, and if it is not an end of a chain,
   one that was added later depends on it. Following those leads to an end of a chain
   that is at most as far (`LastIsSlowest`: among the later handlers that are no further,
   take the last). So the publisher, gated by the ends, is gated by all.
2. `Placed` and `Exchange`: in `createEventProcessors` the new sequences are added before those
   they are behind are removed, and in between the gating sequences are a superset
   of the ends. A handler is added before the start only, behind handlers that are at
   the cursor (the guards of `CreateEventProcessors`), and starts at the cursor itself.
3. `Threads` and `Flow`: a batch ends where the handlers in front are at most, so a handler
   that moves to its end keeps the order.
4. `Draining`: while `hasBacklog()` goes through the repository, the ends it has passed
   have reached `seen`, which it read after the call. Processors that are RUNNING
   stay so until `halt()`; so none is passed over. `LastIsSlowest` extends what the ends
   have done to all handlers.

`EventPublishingProofs` proves, for both sequencers, any producers, pollers and
topology of pollers, batches of any size up to the ring's, and exceptions in any
translator or handler:

* `HandlersSeeTheirEvents`: `SafeSpec => []HandledIsTranslated`
* `OnlyThrowsLeaveHoles`: `SafeSpec => []HolesAreThrows`
* `TriesSeldomWait`: `SafeSpec => []TryWaitsOnlyWhenOvertaken`
* `BatchesAreComplete`: `SafeSpec => []BatchedIsComplete`
* `RefinesMulticast`: `SafeSpec => Multicast!SafeSpec`

Its invariant `Inv` has these parts.

1. `Typed` and `Placed`: types, and that a call's range lies below `claimed` once it is owned.
2. `Claims`: each claimed sequence is published, held by a producer or thrown (`Covered`), and
   what is held is held once and not published (`HeldApart`, `Unpublished`). What was thrown
   is not translated (`ThrownIsUntranslated`), but with a single producer it may be
   published: its cursor publishes all before it (`Closed`).
3. `Room`: who translates or publishes has seen every poller finish the lap before.
4. `Pulls`: a poller handles only what is published and what those in front of it have
   let go, wherever its handler throws.
5. `EntriesHold`: what somebody has still to handle is in its slot, or was never translated.
6. `TryHasRoom`: the room a try was told of is there until another producer claims.
7. `Batches`: a `BatchedPoller`'s batch continues what it has returned without a gap.

The actions share most of what they do. Each is first shown to be of one of fifteen
kinds (a claim, a translation, a throw, a publication of one sequence or of all up to one,
a poll, a handled event and so on), which say what becomes of the state the
invariant is about; each part is then shown for the kinds that can disturb it.

`ByteRingProofs` proves, for `Tbus` with any header size, payload size, number (two or more) of packets
in the ring, lengths and number of iovecs, and for `UnityInterop` with any capacity that
is a power of two, however many messages go through:

* `TbusNoOverwrite`: `TbusSafeSpec => []NoOverwrite`
* `TbusIsAChannel`: `TbusSafeSpec => ImplementsChannel`
* `InteropLossIsExplained`: `SafeSpec => []LossIsExplained`
* `InteropRingsAreChannels`: `SafeSpec => RingsAreChannels`

Neither says anything of what lies in the ring, so neither is inductive. What a ring
holds is the sequence of packets or messages in flight, one behind the other. The history
keeps the place of each, so that "one behind the other" is a relation of neighbours and
not a sum. `TbusInv` consists of

1. `TbusTyped` and `Histories`: the reader has received a prefix of what was sent.
2. `Layout`: a packet in flight lies whole in the ring, behind the head or before the
   tail; of two, the earlier one ends before the later one begins, unless the later one
   is below the head already; and the end of each leads to the next (`Leads`): it is its
   place, or the next is at 0 and nothing fits here or an ignore header stands here
   (`Gap`). The mark has to survive what the sender writes later: a grant never reaches
   the head from below, and the mark is not below it.
3. `Contents`: the header and payload of each packet in flight are in their cells.
4. `Grants`: what `tbus_send_begin` granted lies in the ring and, below the head, ends
   before it. The head has only moved on since it was loaded, away from the grant; but
   `newTail` was chosen with an old head, so it is the end of the packet, or 0 when that
   end is the end of the ring and the reader has left 0.
5. `Reads`: the iovecs are the next packets, the offset of `peek` is where the next one
   begins or an offset that leads there, and the tail that was loaded covers the packets
   sent up to then, although the sender has moved on and may have gone round since.

From `Reads` and `Contents` it follows that `peek` meets headers and never NULL, and that
`Consume` sees what was sent; from `Grants` and `Layout` that no write meets a packet in
flight, which is `NoOverwrite`. Every step is then a stutter, the sending of one packet, or
the receipt of those the reader was shown.

`InteropInv` consists of

1. `InteropTyped`.
2. `RingOK(r)` of each ring: the cells from the head on are what was written and not given
   back, committed or not (`Holds`); an old head or tail only makes the room or the data
   look smaller (`DataSize` of the old position is a bound). Positions are equal modulo
   the capacity only; the lemmas on `CopyIn` and `CopyOut` do that arithmetic once.
3. `Batch`: `data` is the next stretch of what was committed.
4. `Framing`: each message starts where the one before ends, its cells are those of
   its frame, and what is committed ends with a message. That is why no `ReadAll` takes
   half a message out, and no batch leaves a part to the next.
5. `Dispatching`: the loop's offset is where the next message that had no turn starts.
6. `Explained`: `LossIsExplained`, with the bounds that make its terms defined.

`LossIsExplained` needs all of them: an outcome is that of a message only because the
offset is at its start and its cells went through the ring unharmed.

The assumptions used are the named `ASSUME`s of `Sequencing`, `MultiProducerSequencer`,
`SingleProducerSequencer`, `BatchEventProcessor`, `WaitStrategies`, `Disruptor`,
`EventPublishing`, `Tbus` and `UnityInterop`; the runs evaluate them on their instances.

**Only model-checked:** liveness, as fairness and `ENABLED` are beyond this prover:
`ClaimedIsHandled`, `LookingForRoomEnds`, `PublishedIsHandled`, `HaltEndsRun`, `Progress`,
`Delivered`, `AlertEndsWait`, `ShutdownReturns`, `DestructionEnds`, `AllArrive`,
`InputIsRead`, and the fairness part of `ImplementsMulticast`. Every invariant and every
action property of a passing run is also a theorem.

## 5. What is not modelled

* `claim(sequence)` (sets the cursor of an unused sequencer), `remainingCapacity` and
  `getMinimumGatingSequence` (which read and answer), `newBarrier` (construction).
* `SequenceGroup`: nothing in the library or the examples uses it. Its `add` sets the
  new member to the minimum of the group; the steps of adding and removing are those
  of `SingleProducerSequencer`.
* Weak memory beyond the delayed flag of the Lite strategies, false sharing, time.
* `MultiProducerSequencer`'s own copy of `gatingSequencesCache_`: its topology is constant
  in the model. What `sps_concurrent` shows holds for it, and its producers share it.
* The event pointer that a failing `onBatchStart` hands to the exception handler, and
  callbacks that throw the library's own `AlertException` or `TimeoutException`.
* Custom processors given to `and_`, which adds them to the repository and not to
  the gating sequences; handlers registered twice; which exception handler a
  processor reports to. `handleExceptionsWith` destroys the default wrapper, to which
  handlers added before still refer; the tests call it first before they add handlers.
* Handlers added between `halt()` and `start()` (`dsl/Disruptor.h:54`): no caller in the
  repository does this, and the destructor would wait for them. `handleEventsWith` of
  the caller's own processors after `start()` or `halt()`, which is not refused.
* A producer that claims again before it has published the claim before, other
  than after an exception (which `EventPublishing` has), and a consumer that joins
  between a claim and its publication when there was no gating sequence and
  `hasAvailableCapacity` was asked in between (`SingleProducerSequencer.h:210`).
* `AggregateEventHandler` (a loop over handlers), `NoOpEventProcessor`, interfaces,
  factories, error types, TSAN annotations: no state that others depend on.
* tbus: attaching and detaching the memory (`tbus_at`, `tbus_dt`).
* Unity interop: statistics counters, the log callback, the getters of the version and
  of the last error. The host calls `Initialize` without a context only, `Resume`, which
  does not check it, with one only, and `Shutdown` when it is not using the rings. One
  thread at a time writes a ring, although `RingBuffer.h` calls `Write` thread-safe. The
  catch of `Shutdown` (`UnityExport.cpp:99` to `:106`): only the log callback could throw there.
* The other examples and benchmarks, which put the library together.

## 6. Plan

The modules came in the order of section 2, the proofs in that of section 4. What could
follow:

1. `SequenceGroup`, once something uses it.
2. The gating vectors of the multi-producer sequencer as a variable, as in
   `SingleProducerSequencer`, with a pointer that producers share.
3. The liveness properties, when the prover can reason about `ENABLED`.
