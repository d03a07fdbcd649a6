----------------------- MODULE SingleProducerSequencer -----------------------
(***************************************************************************)
(* SingleProducerSequencer.h with consumers that come and go while events  *)
(* are published: addGatingSequences and removeGatingSequence replace the  *)
(* vector of gating sequences (SequenceGroups.h over AtomicSharedPtr.h),   *)
(* and the producer keeps a raw pointer to the vector it saw last.         *)
(*                                                                         *)
(* A vector is an object: it is identified by its place in `vectors`, and  *)
(* it is alive as long as gatingSequences_ or a local shared_ptr refers to *)
(* it.  The raw pointer gatingSequencesCache_ keeps nothing alive.         *)
(*                                                                         *)
(* Granularity and memory as in MultiProducerSequencer.  nextValue_ and    *)
(* cachedValue_ belong to the producer's thread alone, so reading them is  *)
(* no step.  The producer publishes one claim before it makes the next.    *)
(***************************************************************************)
EXTENDS Sequencing, Sequences

CONSTANTS
    Consumers,          \* every consumer that takes part at some time
    InitialConsumers,   \* those that gate from the start; the others join later
    RequestSizes,       \* the n of next(n), tryNext(n), hasAvailableCapacity(n)
    QuiescentUpdates    \* TRUE: consumers join and leave, several at once perhaps, between
                        \* two claims of the producer; FALSE: at any time

ASSUME ConsumersAssumption == InitialConsumers \subseteq Consumers
ASSUME RequestAssumption == RequestSizes \subseteq Nat \ {0}
ASSUME QuiescentAssumption == QuiescentUpdates \in BOOLEAN

\* nullptr, and a shared_ptr that is not held
NULL == 0

VARIABLES
    cursor,                 \* cursor_
    nextValue,              \* nextValue_, the highest claimed sequence
    cachedValue,            \* cachedValue_
    entries,                \* RingBuffer::entries_: the sequence written to each slot last
    \* gating sequences
    vectors,                \* every vector ever installed, as the set of its sequences
    gatingSequences,        \* gatingSequences_: the vector installed now
    gatingSequencesCache,   \* gatingSequencesCache_: a vector or NULL
    \* the producer
    ppc, call, n,           \* where it is, in which operation, with which argument
    vector,                 \* the vector getMinimumSequence iterates over
    snap,                   \* the shared_ptr minimumSequence holds, or NULL
    unread,                 \* the sequences of the vector it has still to read
    minSequence,            \* the minimum of those it has read
    at,                     \* the sequence it writes next
    \* consumers, and the threads that add and remove them
    sequence,               \* the consumer's Sequence
    cpc,                    \* where it is
    held,                   \* the shared_ptr SequenceGroups holds for it, or NULL
    available,              \* the end of its batch
    position                \* the sequence it handles next

producerVars == <<nextValue, cachedValue, ppc, call, n, vector, snap, unread, minSequence, at>>
consumerVars == <<sequence, cpc, held, available, position>>
gatingVars == <<vectors, gatingSequences, gatingSequencesCache>>
vars == <<cursor, entries, gatingVars, producerVars, consumerVars>>

\* The states of a consumer that are part of joining or leaving.
Updating == {"set", "install", "reset", "joined", "exchange", "removed"}

\* A consumer between a completed join and the beginning of a leave.
Active(c) == cpc[c] \in {"wait", "handle"}

Alive(v) ==
    \/ v = gatingSequences
    \/ v = snap
    \/ \E c \in Consumers : held[c] = v

\* The producer may call into the sequencer.
MayRun == QuiescentUpdates => \A c \in Consumers : cpc[c] \notin Updating

\* A consumer may start to join or to leave.
MayUpdate == QuiescentUpdates => ppc = "idle"

-----------------------------------------------------------------------------
(* The producer                                                            *)

\* A slip in wrapPoint: one sequence too few.
WrapPointTooLow(k) == nextValue + k - BufferSize - 1

wrapPoint(k) == nextValue + k - BufferSize

CacheMiss(k) == wrapPoint(k) > cachedValue \/ cachedValue > nextValue

\* A slip in StoreLoadFence: the sequence about to be claimed is stored.
StoreNextSequence == cursor' = nextValue + 1

\* setVolatile(nextValue): no other thread may take the producer for further
\* back than it is while the producer looks for room.
StoreLoadFence == cursor' = nextValue

\* The call returns with the sequences up to nextValue_ + k.
Claim(k) ==
    /\ nextValue' = nextValue + k
    /\ at' = nextValue + 1
    /\ ppc' = "write"

\* hasAvailableCapacity returns to where it was called.
GoBack == ppc' = IF nextValue > cursor THEN "write" ELSE "idle"

\* next(n) and tryNext(n), answered by the cached minimum.  A request for more
\* than BufferSize, which next refuses and tryNext does not, never is.
\* hasAvailableCapacity(n) so answered changes nothing.
ClaimFromCache(k) ==
    /\ ppc = "idle" /\ MayRun
    /\ k <= BufferSize
    /\ nextValue + k <= MaxSequence
    /\ ~CacheMiss(k)
    /\ Claim(k)
    /\ UNCHANGED <<cursor, entries, gatingVars, consumerVars,
                   cachedValue, call, n, vector, snap, unread, minSequence>>

\* next(n) and tryNext(n), when the cached minimum is no answer.
ClaimSlowly(operation, k) ==
    /\ ppc = "idle" /\ MayRun
    /\ operation = "next" => k <= BufferSize
    /\ nextValue + k <= MaxSequence
    /\ CacheMiss(k)
    /\ StoreLoadFence
    /\ ppc' = "pointer"
    /\ call' = operation
    /\ n' = k
    /\ UNCHANGED <<entries, gatingVars, consumerVars,
                   nextValue, cachedValue, vector, snap, unread, minSequence, at>>

\* hasAvailableCapacity(n) does not store the cursor, even with a claim at hand.
AskCapacity(k) ==
    /\ ppc \in {"idle", "write"} /\ MayRun
    /\ nextValue + k <= MaxSequence
    /\ CacheMiss(k)
    /\ ppc' = "pointer"
    /\ call' = "hasAvailableCapacity"
    /\ n' = k
    /\ UNCHANGED <<cursor, entries, gatingVars, consumerVars,
                   nextValue, cachedValue, vector, snap, unread, minSequence, at>>

\* getMinimumSequence(vectors[v], nextValue_)
Iterate(v) ==
    /\ ppc' = "minimum"
    /\ vector' = v
    /\ unread' = vectors[v]
    /\ minSequence' = nextValue

\* minimumSequence looks at the raw pointer first.
ReadCachePointer ==
    /\ ppc = "pointer"
    /\ IF gatingSequencesCache = NULL
         THEN ppc' = "load" /\ UNCHANGED <<vector, unread, minSequence>>
         ELSE Iterate(gatingSequencesCache)
    /\ UNCHANGED <<cursor, entries, gatingVars, consumerVars,
                   nextValue, cachedValue, call, n, snap, at>>

LoadSnapshot ==
    /\ ppc = "load"
    /\ snap' = gatingSequences
    /\ ppc' = "cache"
    /\ UNCHANGED <<cursor, entries, gatingVars, consumerVars,
                   nextValue, cachedValue, call, n, vector, unread, minSequence, at>>

StoreCachePointer ==
    /\ ppc = "cache"
    /\ gatingSequencesCache' = snap
    /\ Iterate(snap)
    /\ UNCHANGED <<cursor, entries, vectors, gatingSequences, consumerVars,
                   nextValue, cachedValue, call, n, snap, at>>

\* A vector that is no longer alive is read with the contents it had.
ReadGating(g) ==
    /\ ppc = "minimum"
    /\ g \in unread
    /\ unread' = unread \ {g}
    /\ minSequence' = Least(minSequence, sequence[g])
    /\ UNCHANGED <<cursor, entries, gatingVars, consumerVars,
                   nextValue, cachedValue, ppc, call, n, vector, snap, at>>

\* The locals of minimumSequence die with it.
LeaveMinimum ==
    /\ ppc = "minimum"
    /\ unread = {}
    /\ snap' = NULL
    /\ vector' = NULL
    /\ minSequence' = INITIAL_CURSOR_VALUE

\* A slip in SpinForRoom: the loop tests the minimum it has over and over.
SpinWithoutReading ==
    /\ ppc = "minimum"
    /\ unread = {}
    /\ call = "next"
    /\ wrapPoint(n) > minSequence
    /\ UNCHANGED vars

SpinForRoom ==
    /\ LeaveMinimum
    /\ call = "next"
    /\ wrapPoint(n) > minSequence
    /\ ppc' = "pointer"
    /\ UNCHANGED <<cursor, entries, gatingVars, consumerVars,
                   nextValue, cachedValue, call, n, unread, at>>

FoundRoom ==
    /\ LeaveMinimum
    /\ wrapPoint(n) <= minSequence
    /\ cachedValue' = minSequence
    /\ IF call = "hasAvailableCapacity"
         THEN GoBack /\ UNCHANGED <<nextValue, at>>
         ELSE Claim(n)
    /\ UNCHANGED <<cursor, entries, gatingVars, consumerVars, call, n, unread>>

InsufficientCapacity ==
    /\ LeaveMinimum
    /\ call # "next"
    /\ wrapPoint(n) > minSequence
    /\ cachedValue' = minSequence
    /\ GoBack
    /\ UNCHANGED <<cursor, entries, gatingVars, consumerVars, nextValue, call, n, unread, at>>

\* A slip in WriteEntry: the loop runs past the claim.
WriteEntryPastEnd ==
    /\ ppc = "write"
    /\ entries' = [entries EXCEPT ![calculateIndex(at)] = at]
    /\ at' = at + 1
    /\ UNCHANGED <<cursor, gatingVars, consumerVars,
                   nextValue, cachedValue, ppc, call, n, vector, snap, unread, minSequence>>

\* The caller fills the slots it was given.
WriteEntry ==
    /\ ppc = "write"
    /\ at <= nextValue
    /\ entries' = [entries EXCEPT ![calculateIndex(at)] = at]
    /\ at' = at + 1
    /\ UNCHANGED <<cursor, gatingVars, consumerVars,
                   nextValue, cachedValue, ppc, call, n, vector, snap, unread, minSequence>>

\* publish(lo, hi): the cursor is all there is to set.
Publish ==
    /\ ppc = "write"
    /\ at > nextValue
    /\ cursor' = nextValue
    /\ ppc' = "idle"
    /\ UNCHANGED <<entries, gatingVars, consumerVars,
                   nextValue, cachedValue, call, n, vector, snap, unread, minSequence, at>>

-----------------------------------------------------------------------------
(* Joining: addGatingSequences, then the consumer runs                     *)

\* A slip in InvalidateCache: the raw pointer is left as it is.
KeepCache == UNCHANGED gatingSequencesCache

InvalidateCache == gatingSequencesCache' = NULL

LoadForAdd(c) ==
    /\ \/ cpc[c] = "out" /\ MayUpdate
       \/ cpc[c] = "install" /\ held[c] # gatingSequences   \* the exchange fails
    /\ held' = [held EXCEPT ![c] = gatingSequences]
    /\ cpc' = [cpc EXCEPT ![c] = "set"]
    /\ UNCHANGED <<cursor, entries, gatingVars, producerVars, sequence, available, position>>

SetToCursor(c) ==
    /\ cpc[c] = "set"
    /\ sequence' = [sequence EXCEPT ![c] = cursor]
    /\ cpc' = [cpc EXCEPT ![c] = "install"]
    /\ UNCHANGED <<cursor, entries, gatingVars, producerVars, held, available, position>>

\* A new vector takes the place of the one that was read.
Install(members) ==
    /\ vectors' = Append(vectors, members)
    /\ gatingSequences' = Len(vectors) + 1
    /\ UNCHANGED gatingSequencesCache

InstallAdded(c) ==
    /\ cpc[c] = "install"
    /\ held[c] = gatingSequences
    /\ Install(vectors[held[c]] \cup {c})
    /\ cpc' = [cpc EXCEPT ![c] = "reset"]
    /\ UNCHANGED <<cursor, entries, producerVars, sequence, held, available, position>>

\* addSequences reads the cursor once more and returns.
ResetToCursor(c) ==
    /\ cpc[c] = "reset"
    /\ sequence' = [sequence EXCEPT ![c] = cursor]
    /\ held' = [held EXCEPT ![c] = NULL]
    /\ cpc' = [cpc EXCEPT ![c] = "joined"]
    /\ UNCHANGED <<cursor, entries, gatingVars, producerVars, available, position>>

FinishAdd(c) ==
    /\ cpc[c] = "joined"
    /\ InvalidateCache
    /\ cpc' = [cpc EXCEPT ![c] = "wait"]
    /\ UNCHANGED <<cursor, entries, vectors, gatingSequences, producerVars,
                   sequence, held, available, position>>

-----------------------------------------------------------------------------
(* Leaving: the consumer has stopped, then removeGatingSequence            *)

LoadForRemove(c) ==
    /\ \/ cpc[c] = "wait" /\ MayUpdate
       \/ cpc[c] = "exchange" /\ held[c] # gatingSequences  \* the exchange fails
    /\ held' = [held EXCEPT ![c] = gatingSequences]
    /\ cpc' = [cpc EXCEPT ![c] = "exchange"]
    /\ UNCHANGED <<cursor, entries, gatingVars, producerVars, sequence, available, position>>

InstallRemoved(c) ==
    /\ cpc[c] = "exchange"
    /\ held[c] = gatingSequences
    /\ Install(vectors[held[c]] \ {c})
    /\ held' = [held EXCEPT ![c] = NULL]
    /\ cpc' = [cpc EXCEPT ![c] = "removed"]
    /\ UNCHANGED <<cursor, entries, producerVars, sequence, available, position>>

FinishRemove(c) ==
    /\ cpc[c] = "removed"
    /\ InvalidateCache
    /\ cpc' = [cpc EXCEPT ![c] = "left"]
    /\ UNCHANGED <<cursor, entries, vectors, gatingSequences, producerVars,
                   sequence, held, available, position>>

-----------------------------------------------------------------------------
(* Consuming                                                               *)

\* getHighestPublishedSequence returns the cursor it was given: every
\* sequence up to the cursor is published.
WaitForCursor(c) ==
    /\ cpc[c] = "wait"
    /\ cursor >= sequence[c] + 1
    /\ available' = [available EXCEPT ![c] = cursor]
    /\ position' = [position EXCEPT ![c] = sequence[c] + 1]
    /\ cpc' = [cpc EXCEPT ![c] = "handle"]
    /\ UNCHANGED <<cursor, entries, gatingVars, producerVars, sequence, held>>

OnEvent(c) ==
    /\ cpc[c] = "handle"
    /\ position[c] <= available[c]
    /\ position' = [position EXCEPT ![c] = @ + 1]
    /\ UNCHANGED <<cursor, entries, gatingVars, producerVars, sequence, cpc, held, available>>

\* A slip in EndBatch: the consumer's sequence is not set.
EndBatchSilently(c) ==
    /\ cpc[c] = "handle"
    /\ position[c] > available[c]
    /\ cpc' = [cpc EXCEPT ![c] = "wait"]
    /\ UNCHANGED <<cursor, entries, gatingVars, producerVars, sequence, held, available, position>>

EndBatch(c) ==
    /\ cpc[c] = "handle"
    /\ position[c] > available[c]
    /\ sequence' = [sequence EXCEPT ![c] = available[c]]
    /\ cpc' = [cpc EXCEPT ![c] = "wait"]
    /\ UNCHANGED <<cursor, entries, gatingVars, producerVars, held, available, position>>

-----------------------------------------------------------------------------

Init ==
    /\ cursor = INITIAL_CURSOR_VALUE
    /\ nextValue = INITIAL_CURSOR_VALUE
    /\ cachedValue = INITIAL_CURSOR_VALUE
    /\ entries = [i \in Slots |-> INITIAL_CURSOR_VALUE]
    /\ vectors = <<InitialConsumers>>
    /\ gatingSequences = 1
    /\ gatingSequencesCache = NULL
    /\ ppc = "idle" /\ call = "next" /\ n = 0
    /\ vector = NULL /\ snap = NULL
    /\ unread = {}
    /\ minSequence = INITIAL_CURSOR_VALUE
    /\ at = 0
    /\ sequence = [c \in Consumers |-> INITIAL_CURSOR_VALUE]
    /\ cpc = [c \in Consumers |-> IF c \in InitialConsumers THEN "wait" ELSE "out"]
    /\ held = [c \in Consumers |-> NULL]
    /\ available = [c \in Consumers |-> INITIAL_CURSOR_VALUE]
    /\ position = [c \in Consumers |-> 0]

Begin ==
    \E k \in RequestSizes :
        \/ ClaimFromCache(k)
        \/ \E operation \in {"next", "tryNext"} : ClaimSlowly(operation, k)
        \/ AskCapacity(k)

Continue ==
    \/ ReadCachePointer
    \/ LoadSnapshot
    \/ StoreCachePointer
    \/ \E g \in Consumers : ReadGating(g)
    \/ SpinForRoom
    \/ FoundRoom
    \/ InsufficientCapacity
    \/ WriteEntry
    \/ Publish

Update(c) ==
    \/ LoadForAdd(c)
    \/ SetToCursor(c)
    \/ InstallAdded(c)
    \/ ResetToCursor(c)
    \/ FinishAdd(c)
    \/ LoadForRemove(c)
    \/ InstallRemoved(c)
    \/ FinishRemove(c)

Consume(c) ==
    \/ WaitForCursor(c)
    \/ OnEvent(c)
    \/ EndBatch(c)

Next ==
    \/ Begin
    \/ Continue
    \/ \E c \in Consumers : Update(c) \/ Consume(c)

SafeSpec == Init /\ [][Next]_vars

\* Every thread that is inside an operation goes on; starting one is optional.
Fairness ==
    /\ WF_vars(Continue)
    /\ \A c \in Consumers : WF_vars(Consume(c))
    /\ \A c \in Consumers : WF_vars(cpc[c] \in Updating /\ Update(c))

Spec == SafeSpec /\ Fairness

-----------------------------------------------------------------------------
(* Properties                                                              *)

\* Every variable keeps its type; a vector pointer is NULL or a vector that exists.
TypeOK ==
    /\ cursor \in SequenceValue
    /\ nextValue \in SequenceValue
    /\ cachedValue \in SequenceValue
    /\ entries \in [Slots -> SequenceValue]
    /\ vectors \in Seq(SUBSET Consumers)
    /\ gatingSequences \in 1..Len(vectors)
    /\ gatingSequencesCache \in 0..Len(vectors)
    /\ ppc \in {"idle", "pointer", "load", "cache", "minimum", "write"}
    /\ call \in {"next", "tryNext", "hasAvailableCapacity"}
    /\ n \in Nat
    /\ vector \in 0..Len(vectors)
    /\ snap \in 0..Len(vectors)
    /\ unread \subseteq Consumers
    /\ minSequence \in SequenceValue
    /\ at \in 0..(MaxSequence + 1)
    /\ sequence \in [Consumers -> SequenceValue]
    /\ cpc \in [Consumers -> Updating \cup {"out", "wait", "handle", "left"}]
    /\ held \in [Consumers -> 0..Len(vectors)]
    /\ available \in [Consumers -> SequenceValue]
    /\ position \in [Consumers -> 0..(MaxSequence + 1)]

\* The producer never iterates over a vector that has been freed: the raw
\* pointer gatingSequencesCache_ is invalidated in time (minimumSequence).
NoDanglingRead == ppc = "minimum" /\ unread # {} => Alive(vector)

\* A claim never reaches the lap of an event that a consumer which has joined
\* and not left has still to handle, whenever it joined (addSequences, next).
NoOverrun == \A c \in Consumers : Active(c) => nextValue - BufferSize <= sequence[c]

\* Every slot of an accepted batch holds the event of its sequence until the
\* consumer is done with it, although the cursor is stored before publish too.
BatchIntact ==
    \A c \in Consumers : cpc[c] = "handle" =>
        \A s \in (sequence[c] + 1)..available[c] : entries[calculateIndex(s)] = s

\* A call that looks for room comes to an end, also when consumers join or leave.
LookingForRoomEnds ==
    ppc \in {"pointer", "load", "cache", "minimum"} ~> ppc \in {"idle", "write"}

\* Every published event is handled by every consumer that has joined and does not leave.
PublishedIsHandled ==
    \A c \in Consumers : \A s \in 0..MaxSequence :
        (Active(c) /\ cursor >= s) ~> (sequence[c] >= s \/ ~Active(c))

=============================================================================
