------------------------ MODULE MultiProducerSequencer ------------------------
(***************************************************************************)
(* MultiProducerSequencer.h with the threads around it: producers that     *)
(* claim with next(n) or tryNext(n), write their slots and publish them,   *)
(* and batch consumers that wait on a ProcessingSequenceBarrier.           *)
(*                                                                         *)
(* Each access to an atomic that another thread writes is a step of its    *)
(* own; what a thread computes from its locals joins the access before it. *)
(* A spin loop is the step that leaves it: an iteration that finds nothing *)
(* new changes nothing.  Memory is sequentially consistent.                *)
(*                                                                         *)
(* The gating sequences are fixed before the first claim, as they are      *)
(* after Disruptor::start(); module SingleProducerSequencer changes them.  *)
(***************************************************************************)
EXTENDS Sequencing, FiniteSets

CONSTANTS
    Producers,
    Consumers,
    DependsOn,          \* the consumers whose sequences a consumer's barrier tracks
    GatingConsumers,    \* the consumers whose sequences gate the producers
    Upstream,           \* DependsOn followed any number of times
    RequestSizes,       \* the n of next(n), tryNext(n), hasAvailableCapacity(n)
    MaxBatchSize,       \* BatchEventProcessor's maxBatchSize
    FlagModulus         \* 2^32: an availability flag is truncated to an int

\* The topology the DSL builds: only ends of chains gate the ring buffer
\* (ConsumerRepository), and everyone else is upstream of one of them.
ASSUME TopologyAssumption ==
    /\ DependsOn \in [Consumers -> SUBSET Consumers]
    /\ GatingConsumers \subseteq Consumers
    /\ Upstream \in [Consumers -> SUBSET Consumers]
    /\ \A c \in Consumers : DependsOn[c] \subseteq Upstream[c]
    /\ \A c \in Consumers : \A u \in Upstream[c] :
          \E d \in DependsOn[c] : u = d \/ u \in Upstream[d]
    /\ \A c \in Consumers \ GatingConsumers : \E g \in GatingConsumers : c \in Upstream[g]

ASSUME RequestAssumption == RequestSizes \subseteq Nat \ {0}

\* BatchEventProcessor's constructor refuses a batch size below 1.
ASSUME BatchAssumption == MaxBatchSize \in Nat \ {0}

ASSUME FlagAssumption == FlagModulus \in Nat \ {0, 1}

VARIABLES
    cursor,                 \* cursor_, the highest claimed sequence
    gatingSequenceCache,    \* gatingSequenceCache_
    availableBuffer,        \* availableBuffer_, one flag per slot
    entries,                \* RingBuffer::entries_: the sequence written to each slot last
    published,              \* history: every sequence made available
    \* producers
    ppc,                    \* where the thread is
    call,                   \* the operation it is in
    n,                      \* its argument
    current,                \* the cursor value the operation started from
    unread,                 \* gating sequences getMinimumSequence has still to read
    minSequence,            \* the minimum of those it has read
    at,                     \* the sequence it writes or publishes next
    \* consumers
    sequence,               \* sequence_ of the consumer's BatchEventProcessor
    cpc,                    \* where the thread is
    untracked,              \* tracked sequences FixedSequenceGroup::get has still to read
    available,              \* availableSequence, later endOfBatchSequence
    position                \* the sequence it tests or handles next

shared == <<cursor, gatingSequenceCache, availableBuffer, entries, published>>
producerVars == <<ppc, call, n, current, unread, minSequence, at>>
consumerVars == <<sequence, cpc, untracked, available, position>>
vars == <<shared, producerVars, consumerVars>>

Operations == {"next", "tryNext", "hasAvailableCapacity"}

-----------------------------------------------------------------------------
(* Availability flags                                                      *)

\* Slips in calculateAvailabilityFlag: a flag that outgrows an int, and one
\* that does not tell the laps apart.
UntruncatedFlag(s) == s \div BufferSize
LaplessFlag(s) == IF s < 0 THEN 1 ELSE 0

\* (int)(sequence >> indexShift_).  The initial flag -1 is that of the lap
\* before the first one.
calculateAvailabilityFlag(s) == (s \div BufferSize) % FlagModulus

\* A slip in isAvailable: what is claimed is taken for published.
ClaimedIsAvailable(s) == s <= cursor

isAvailable(s) == availableBuffer[calculateIndex(s)] = calculateAvailabilityFlag(s)

setAvailable(s) ==
    availableBuffer' =
        [availableBuffer EXCEPT ![calculateIndex(s)] = calculateAvailabilityFlag(s)]

-----------------------------------------------------------------------------
(* Producers                                                               *)

\* The locals of a call die with it.
Return(p) ==
    /\ ppc' = [ppc EXCEPT ![p] = "idle"]
    /\ call' = [call EXCEPT ![p] = "next"]
    /\ n' = [n EXCEPT ![p] = 0]
    /\ current' = [current EXCEPT ![p] = INITIAL_CURSOR_VALUE]
    /\ at' = [at EXCEPT ![p] = 0]

\* The call returns the sequences current+1 .. current+n; the caller fills them.
ReturnClaimed(p) ==
    /\ ppc' = [ppc EXCEPT ![p] = "write"]
    /\ call' = [call EXCEPT ![p] = "next"]
    /\ at' = [at EXCEPT ![p] = current[p] + 1]
    /\ UNCHANGED <<n, current>>

\* next(n): the claim comes first, whether there is room or not.
NextClaim(p, k) ==
    /\ ppc[p] = "idle"
    /\ k <= BufferSize
    /\ cursor + k <= MaxSequence
    /\ cursor' = cursor + k
    /\ ppc' = [ppc EXCEPT ![p] = "check"]
    /\ call' = [call EXCEPT ![p] = "next"]
    /\ n' = [n EXCEPT ![p] = k]
    /\ current' = [current EXCEPT ![p] = cursor]
    /\ UNCHANGED <<gatingSequenceCache, availableBuffer, entries, published,
                   unread, minSequence, at, consumerVars>>

\* tryNext(n) and hasAvailableCapacity(n) start by reading the cursor.
ReadCursor(p, operation, k) ==
    /\ ppc[p] = "idle"
    /\ operation \in Operations \ {"next"}
    /\ cursor + k <= MaxSequence
    /\ ppc' = [ppc EXCEPT ![p] = "check"]
    /\ call' = [call EXCEPT ![p] = operation]
    /\ n' = [n EXCEPT ![p] = k]
    /\ current' = [current EXCEPT ![p] = cursor]
    /\ UNCHANGED <<shared, unread, minSequence, at, consumerVars>>

\* A slip in wrapPoint: one sequence too few.
WrapPointTooLow(p) == current[p] + n[p] - BufferSize - 1

wrapPoint(p) == current[p] + n[p] - BufferSize

\* The cached minimum does not answer the question.
CacheMiss(p) ==
    \/ wrapPoint(p) > gatingSequenceCache
    \/ gatingSequenceCache > current[p]

\* What a call that has found room does next.
Granted(p) ==
    \/ /\ call[p] = "next"
       /\ ReturnClaimed(p)
    \/ /\ call[p] = "tryNext"
       /\ ppc' = [ppc EXCEPT ![p] = "cas"]
       /\ UNCHANGED <<call, n, current, at>>
    \/ /\ call[p] = "hasAvailableCapacity"
       /\ Return(p)

CacheHit(p) ==
    /\ ppc[p] = "check"
    /\ ~CacheMiss(p)
    /\ Granted(p)
    /\ UNCHANGED <<shared, unread, minSequence, consumerVars>>

\* getMinimumSequence(gatingSequences, current): the minimum starts at current.
StartMinimum(p) ==
    /\ ppc[p] = "check"
    /\ CacheMiss(p)
    /\ ppc' = [ppc EXCEPT ![p] = "minimum"]
    /\ unread' = [unread EXCEPT ![p] = GatingConsumers]
    /\ minSequence' = [minSequence EXCEPT ![p] = current[p]]
    /\ UNCHANGED <<shared, call, n, current, at, consumerVars>>

\* One gating sequence is read; the order of the vector does not matter.
ReadGating(p, g) ==
    /\ ppc[p] = "minimum"
    /\ g \in unread[p]
    /\ unread' = [unread EXCEPT ![p] = @ \ {g}]
    /\ minSequence' = [minSequence EXCEPT ![p] = Least(@, sequence[g])]
    /\ UNCHANGED <<shared, ppc, call, n, current, at, consumerVars>>

\* A slip in SpinForRoom: the loop tests the minimum it has over and over.
SpinWithoutReading(p) ==
    /\ ppc[p] = "minimum"
    /\ unread[p] = {}
    /\ call[p] = "next"
    /\ wrapPoint(p) > minSequence[p]
    /\ UNCHANGED vars

\* next() tries again until there is room.
SpinForRoom(p) ==
    /\ ppc[p] = "minimum"
    /\ unread[p] = {}
    /\ call[p] = "next"
    /\ wrapPoint(p) > minSequence[p]
    /\ unread' = [unread EXCEPT ![p] = GatingConsumers]
    /\ minSequence' = [minSequence EXCEPT ![p] = current[p]]
    /\ UNCHANGED <<shared, ppc, call, n, current, at, consumerVars>>

ForgetMinimum(p) == minSequence' = [minSequence EXCEPT ![p] = INITIAL_CURSOR_VALUE]

\* The minimum leaves room: it is cached and the call goes on.
FoundRoom(p) ==
    /\ ppc[p] = "minimum"
    /\ unread[p] = {}
    /\ wrapPoint(p) <= minSequence[p]
    /\ gatingSequenceCache' = minSequence[p]
    /\ ForgetMinimum(p)
    /\ Granted(p)
    /\ UNCHANGED <<cursor, availableBuffer, entries, published, unread, consumerVars>>

\* The minimum leaves no room: tryNext and hasAvailableCapacity cache it and give up.
InsufficientCapacity(p) ==
    /\ ppc[p] = "minimum"
    /\ unread[p] = {}
    /\ call[p] # "next"
    /\ wrapPoint(p) > minSequence[p]
    /\ gatingSequenceCache' = minSequence[p]
    /\ ForgetMinimum(p)
    /\ Return(p)
    /\ UNCHANGED <<cursor, availableBuffer, entries, published, unread, consumerVars>>

\* A slip in CasClaim: the new cursor is stored without comparing.
StoreClaim(p) ==
    /\ ppc[p] = "cas"
    /\ cursor' = current[p] + n[p]
    /\ ReturnClaimed(p)
    /\ UNCHANGED <<gatingSequenceCache, availableBuffer, entries, published,
                   unread, minSequence, consumerVars>>

\* compare_exchange_weak succeeds: nobody has moved the cursor since it was read.
CasClaim(p) ==
    /\ ppc[p] = "cas"
    /\ cursor = current[p]
    /\ cursor' = current[p] + n[p]
    /\ ReturnClaimed(p)
    /\ UNCHANGED <<gatingSequenceCache, availableBuffer, entries, published,
                   unread, minSequence, consumerVars>>

\* compare_exchange_weak fails, spuriously perhaps, and the loop reads the cursor again.
CasRetry(p) ==
    /\ ppc[p] = "cas"
    /\ cursor + n[p] <= MaxSequence
    /\ ppc' = [ppc EXCEPT ![p] = "check"]
    /\ current' = [current EXCEPT ![p] = cursor]
    /\ UNCHANGED <<shared, call, n, unread, minSequence, at, consumerVars>>

\* The caller fills the slots it was given (RingBuffer::get and a translator).
WriteEntry(p) ==
    /\ ppc[p] = "write"
    /\ entries' = [entries EXCEPT ![calculateIndex(at[p])] = at[p]]
    /\ IF at[p] = current[p] + n[p]
         THEN /\ ppc' = [ppc EXCEPT ![p] = "publish"]
              /\ at' = [at EXCEPT ![p] = current[p] + 1]
         ELSE /\ at' = [at EXCEPT ![p] = @ + 1]
              /\ UNCHANGED ppc
    /\ UNCHANGED <<cursor, gatingSequenceCache, availableBuffer, published,
                   call, n, current, unread, minSequence, consumerVars>>

\* One round of the loop of publish(lo, hi).
Publish(p) ==
    /\ ppc[p] = "publish"
    /\ setAvailable(at[p])
    /\ published' = published \cup {at[p]}
    /\ IF at[p] = current[p] + n[p]
         THEN Return(p)
         ELSE /\ at' = [at EXCEPT ![p] = @ + 1]
              /\ UNCHANGED <<ppc, call, n, current>>
    /\ UNCHANGED <<cursor, gatingSequenceCache, entries,
                   unread, minSequence, consumerVars>>

-----------------------------------------------------------------------------
(* Consumers                                                               *)

nextSequence(c) == sequence[c] + 1

\* The wait strategy has an answer; getHighestPublishedSequence starts at
\* the sequence that was asked for.
Waited(c) ==
    /\ cpc' = [cpc EXCEPT ![c] = "scan"]
    /\ position' = [position EXCEPT ![c] = nextSequence(c)]

\* A barrier without dependent sequences waits for the cursor.
WaitForCursor(c) ==
    /\ cpc[c] = "wait"
    /\ DependsOn[c] = {}
    /\ cursor >= nextSequence(c)
    /\ available' = [available EXCEPT ![c] = cursor]
    /\ Waited(c)
    /\ UNCHANGED <<shared, producerVars, sequence, untracked>>

\* Any other waits for the minimum of the tracked sequences, which
\* FixedSequenceGroup::get reads one after the other, from the largest int64_t down.
ReadDependent(c, d) ==
    /\ cpc[c] = "wait"
    /\ d \in untracked[c]
    /\ LET minimum == Least(available[c], sequence[d]) IN
         IF untracked[c] # {d}
           THEN /\ untracked' = [untracked EXCEPT ![c] = @ \ {d}]
                /\ available' = [available EXCEPT ![c] = minimum]
                /\ UNCHANGED <<cpc, position>>
           ELSE /\ untracked' = [untracked EXCEPT ![c] = DependsOn[c]]
                /\ IF minimum >= nextSequence(c)
                     THEN /\ available' = [available EXCEPT ![c] = minimum]
                          /\ Waited(c)
                     ELSE /\ available' = [available EXCEPT ![c] = MaxSequence]
                          /\ UNCHANGED <<cpc, position>>
    /\ UNCHANGED <<shared, producerVars, sequence>>

\* getHighestPublishedSequence goes past one more published sequence.
ScanFlag(c) ==
    /\ cpc[c] = "scan"
    /\ position[c] <= available[c]
    /\ isAvailable(position[c])
    /\ position' = [position EXCEPT ![c] = @ + 1]
    /\ UNCHANGED <<shared, producerVars, sequence, cpc, untracked, available>>

\* It is at the end, or at the first sequence that is not published yet; the
\* consumer turns to a batch of at most MaxBatchSize events, or waits again.
ScanEnd(c) ==
    /\ cpc[c] = "scan"
    /\ position[c] > available[c] \/ ~isAvailable(position[c])
    /\ IF position[c] = nextSequence(c)
         THEN /\ cpc' = [cpc EXCEPT ![c] = "wait"]
              /\ available' = [available EXCEPT ![c] = MaxSequence]
         ELSE /\ cpc' = [cpc EXCEPT ![c] = "handle"]
              /\ available' = [available EXCEPT ![c] =
                                  Least(sequence[c] + MaxBatchSize, position[c] - 1)]
    /\ position' = [position EXCEPT ![c] = nextSequence(c)]
    /\ UNCHANGED <<shared, producerVars, sequence, untracked>>

\* eventHandler_->onEvent on the event in the slot.
OnEvent(c) ==
    /\ cpc[c] = "handle"
    /\ position[c] <= available[c]
    /\ position' = [position EXCEPT ![c] = @ + 1]
    /\ UNCHANGED <<shared, producerVars, sequence, cpc, untracked, available>>

\* The batch is done: sequence_.set(endOfBatchSequence).
EndBatch(c) ==
    /\ cpc[c] = "handle"
    /\ position[c] > available[c]
    /\ sequence' = [sequence EXCEPT ![c] = available[c]]
    /\ cpc' = [cpc EXCEPT ![c] = "wait"]
    /\ available' = [available EXCEPT ![c] = MaxSequence]
    /\ UNCHANGED <<shared, producerVars, untracked, position>>

-----------------------------------------------------------------------------

Init ==
    /\ cursor = INITIAL_CURSOR_VALUE
    /\ gatingSequenceCache = INITIAL_CURSOR_VALUE
    /\ availableBuffer = [i \in Slots |-> calculateAvailabilityFlag(-1)]
    /\ entries = [i \in Slots |-> INITIAL_CURSOR_VALUE]
    /\ published = {}
    /\ ppc = [p \in Producers |-> "idle"]
    /\ call = [p \in Producers |-> "next"]
    /\ n = [p \in Producers |-> 0]
    /\ current = [p \in Producers |-> INITIAL_CURSOR_VALUE]
    /\ unread = [p \in Producers |-> {}]
    /\ minSequence = [p \in Producers |-> INITIAL_CURSOR_VALUE]
    /\ at = [p \in Producers |-> 0]
    /\ sequence = [c \in Consumers |-> INITIAL_CURSOR_VALUE]
    /\ cpc = [c \in Consumers |-> "wait"]
    /\ untracked = DependsOn
    /\ available = [c \in Consumers |-> MaxSequence]
    /\ position = [c \in Consumers |-> 0]

\* A producer starts an operation: whether it does is up to the application.
Begin(p) ==
    \E k \in RequestSizes :
        \/ NextClaim(p, k)
        \/ \E operation \in Operations : ReadCursor(p, operation, k)

\* A producer inside an operation goes on.
Continue(p) ==
    \/ CacheHit(p)
    \/ StartMinimum(p)
    \/ \E g \in GatingConsumers : ReadGating(p, g)
    \/ SpinForRoom(p)
    \/ FoundRoom(p)
    \/ InsufficientCapacity(p)
    \/ CasClaim(p)
    \/ CasRetry(p)
    \/ WriteEntry(p)
    \/ Publish(p)

Consume(c) ==
    \/ WaitForCursor(c)
    \/ \E d \in Consumers : ReadDependent(c, d)
    \/ ScanFlag(c)
    \/ ScanEnd(c)
    \/ OnEvent(c)
    \/ EndBatch(c)

Next ==
    \/ \E p \in Producers : Begin(p) \/ Continue(p)
    \/ \E c \in Consumers : Consume(c)

SafeSpec == Init /\ [][Next]_vars

\* Every thread keeps running; nobody has to start an operation.
Fairness ==
    /\ \A p \in Producers : WF_vars(Continue(p))
    /\ \A c \in Consumers : WF_vars(Consume(c))

Spec == SafeSpec /\ Fairness

-----------------------------------------------------------------------------
(* Properties                                                              *)

Flags == 0..(FlagModulus - 1)

\* Every variable keeps its type: what the threads count with stays a sequence
\* and a slot only ever holds a flag or a sequence.
TypeOK ==
    /\ cursor \in SequenceValue
    /\ gatingSequenceCache \in SequenceValue
    /\ availableBuffer \in [Slots -> Flags]
    /\ entries \in [Slots -> SequenceValue]
    /\ published \subseteq 0..MaxSequence
    /\ ppc \in [Producers -> {"idle", "check", "minimum", "cas", "write", "publish"}]
    /\ call \in [Producers -> Operations]
    /\ n \in [Producers -> Nat]
    /\ current \in [Producers -> SequenceValue]
    /\ unread \in [Producers -> SUBSET GatingConsumers]
    /\ minSequence \in [Producers -> SequenceValue]
    /\ at \in [Producers -> 0..MaxSequence]
    /\ sequence \in [Consumers -> SequenceValue]
    /\ cpc \in [Consumers -> {"wait", "scan", "handle"}]
    /\ untracked \in [Consumers -> SUBSET Consumers]
    /\ available \in [Consumers -> SequenceValue]
    /\ position \in [Consumers -> 0..(MaxSequence + 1)]

\* The producer's call has returned and its sequences are being filled and published.
Owns(p) == ppc[p] \in {"write", "publish"}

\* The producer has claimed sequences, with or without room for them.
HasClaim(p) ==
    \/ Owns(p)
    \/ call[p] = "next" /\ ppc[p] \in {"check", "minimum"}

\* The sequences a producer has claimed and not published yet.
Pending(p) ==
    IF ~HasClaim(p) THEN {}
    ELSE (IF ppc[p] = "publish" THEN at[p] ELSE current[p] + 1)..(current[p] + n[p])

\* A producer fills a slot only when every consumer, upstream ones included,
\* is done with the event one lap before, although next() claims before it
\* looks, through a cache that other producers write (next, tryNext).
NoOverrun ==
    \A p \in Producers : Owns(p) =>
        \A c \in Consumers : current[p] + n[p] - BufferSize <= sequence[c]

\* From the moment a consumer has accepted a batch to the moment it moves its
\* sequence, every slot of the batch holds the published event of that
\* sequence (getHighestPublishedSequence, onEvent).
BatchIntact ==
    \A c \in Consumers : cpc[c] = "handle" =>
        \A s \in nextSequence(c)..available[c] :
            /\ s \in published
            /\ entries[calculateIndex(s)] = s

\* Claims are neither lost nor given twice: every sequence up to the cursor
\* is published or pending at exactly one producer (getAndAdd against the CAS).
ClaimsPartition ==
    /\ 0..cursor = published \cup UNION {Pending(p) : p \in Producers}
    /\ \A p \in Producers :
          /\ Pending(p) \cap published = {}
          /\ \A q \in Producers \ {p} : Pending(p) \cap Pending(q) = {}

\* In the lap ahead of any consumer an availability flag says exactly whether
\* the sequence is published, however often the flags have wrapped around.
FlagsAreTruthful ==
    \A c \in Consumers : \A s \in nextSequence(c)..(sequence[c] + BufferSize) :
        isAvailable(s) <=> s \in published

\* A consumer never overtakes a consumer it depends on, directly or through others.
DependencyOrder ==
    \A c \in Consumers : \A u \in Upstream[c] : sequence[c] <= sequence[u]

\* Every claimed sequence is eventually handled by every consumer: no producer
\* waits forever for room and no consumer for a sequence below one it can see.
\* Claims end, at the latest with MaxSequence, so the consumers stay there.
ClaimedIsHandled == <>[](\A c \in Consumers : sequence[c] = cursor)

\* The sequencer and its consumers implement the multicast buffer.
Multicast == INSTANCE MulticastBuffer WITH handled <- sequence

\* Safety and liveness of the abstract specification, for the code's steps.
ImplementsMulticast == Multicast!Spec

=============================================================================
