--------------------------- MODULE EventPublishing ---------------------------
(***************************************************************************)
(* The translator methods of RingBuffer.h (publishEvent, publishEvents and *)
(* their try variants) over either sequencer, and consumers that pull with *)
(* EventPoller::poll, some of them through the BatchedPoller of the        *)
(* examples.  A translator may throw, or be missing from a batch; a        *)
(* handler may throw, ask to stop, or go on.                               *)
(*                                                                         *)
(* A call of the sequencer is one step here, or two where it waits; the    *)
(* modules of the sequencers take it apart.                                *)
(***************************************************************************)
EXTENDS Sequencing, Sequences, FiniteSetsExt

CONSTANTS
    Producers,
    TheProducer,        \* the one that publishes with a single-producer sequencer
    Pollers,
    GatedBy,            \* the pollers whose sequences newPoller was given
    Batched,            \* the pollers inside a BatchedPoller
    BatchSize,          \* their batchSizes
    RequestSizes,       \* numbers of translators given to publishEvents
    MaxThrows           \* bound: exceptions of handlers

ASSUME PollerAssumption ==
    /\ TheProducer \in Producers
    /\ GatedBy \in [Pollers -> SUBSET Pollers]
    /\ Batched \subseteq Pollers
    /\ BatchSize \in [Batched -> Nat \ {0}]
    /\ RequestSizes \subseteq 1..BufferSize
    /\ MaxThrows \in Nat

VARIABLES
    producerType,       \* SINGLE or MULTI
    claimed,            \* the highest claimed sequence: cursor_ (MULTI), nextValue_ (SINGLE)
    cachedValue,        \* cachedValue_ (SINGLE)
    published,          \* the sequences that are available
    entries,            \* the sequence whose translator wrote each slot last
    producer,           \* a producer: where it is, what it called, its claim, its position
    sequence,           \* sequence_ of each poller, a gating sequence of the ring
    poller,             \* a poller: where poll() is, and its locals
    batch,              \* data_ of each BatchedPoller
    throws,             \* handlers that threw
    taken,              \* history: how many events each BatchedPoller has returned
    untranslated,       \* history: the sequences whose slots their translator did not write
    thrown              \* history: the claims that publishEvent left with an exception

ring == <<producerType, claimed, cachedValue, published, entries>>
pulling == <<sequence, poller, batch, throws, taken>>
history == <<untranslated, thrown>>
vars == <<ring, producer, pulling, history>>

Idle == [pc |-> "out", single |-> TRUE, try |-> FALSE, overtaken |-> FALSE, n |-> 0, lo |-> 0, at |-> 0]
NotPolling == [pc |-> "out", next |-> 0, available |-> 0, processed |-> 0]

Init ==
    /\ producerType \in {"SINGLE", "MULTI"}
    /\ claimed = INITIAL_CURSOR_VALUE
    /\ cachedValue = INITIAL_CURSOR_VALUE
    /\ published = {}
    /\ entries = [i \in Slots |-> INITIAL_CURSOR_VALUE]
    /\ producer = [p \in Producers |-> Idle]
    /\ sequence = [c \in Pollers |-> INITIAL_CURSOR_VALUE]
    /\ poller = [c \in Pollers |-> NotPolling]
    /\ batch = [c \in Pollers |-> <<>>]
    /\ throws = 0
    /\ taken = [c \in Pollers |-> 0]
    /\ untranslated = {}
    /\ thrown = {}

-----------------------------------------------------------------------------
(* The sequencer                                                           *)

minimumSequence == Min({sequence[c] : c \in Pollers} \cup {claimed})

wrapPoint(last) == last - BufferSize

\* What getCursor returns: the single-producer cursor moves with publish.
Cursor == IF producerType = "MULTI" THEN claimed
          ELSE Max(published \cup {INITIAL_CURSOR_VALUE})

CacheMiss(n) == wrapPoint(claimed + n) > cachedValue \/ cachedValue > claimed

\* A slip in getHighestPublishedSequence: what is claimed is taken for published.
HighestClaimed(lowerBound, available) == available

\* The flags of MULTI must be there; SINGLE takes the cursor's word.
getHighestPublishedSequence(lowerBound, available) ==
    IF producerType = "SINGLE" THEN available
    ELSE Max({lowerBound - 1} \cup {s \in lowerBound..available : lowerBound..s \subseteq published})

-----------------------------------------------------------------------------
(* Producers                                                               *)

Call(p, try, single, n) ==
    producer' = [producer EXCEPT ![p] =
        [Idle EXCEPT !.pc = "next", !.single = single, !.try = try, !.n = n]]

CanCall(p, n) ==
    /\ producer[p].pc = "out"
    /\ producerType = "SINGLE" => p = TheProducer
    /\ claimed + n <= MaxSequence

lastOf(p) == producer[p].lo + producer[p].n - 1

publishEvent(p) ==
    /\ CanCall(p, 1)
    /\ Call(p, FALSE, TRUE, 1)
    /\ UNCHANGED <<ring, pulling, history>>

\* A batch of no translators returns at once.
publishEvents(p, batchSize) ==
    /\ CanCall(p, batchSize)
    /\ Call(p, FALSE, FALSE, batchSize)
    /\ UNCHANGED <<ring, pulling, history>>

\* A slip in HasRoom: one sequence too many.
HasAlmostRoom(p, single, n) ==
    /\ IF wrapPoint(claimed + n) - 1 <= minimumSequence
       THEN Call(p, TRUE, single, n)
       ELSE UNCHANGED producer
    /\ cachedValue' = IF producerType = "SINGLE" /\ CacheMiss(n) THEN minimumSequence ELSE cachedValue
    /\ UNCHANGED <<producerType, claimed, published, entries, pulling, history>>

\* hasAvailableCapacity: without room the try is over, and only the cache has changed.
HasRoom(p, single, n) ==
    /\ IF wrapPoint(claimed + n) <= minimumSequence
       THEN Call(p, TRUE, single, n)
       ELSE UNCHANGED producer
    /\ cachedValue' = IF producerType = "SINGLE" /\ CacheMiss(n) THEN minimumSequence ELSE cachedValue
    /\ UNCHANGED <<producerType, claimed, published, entries, pulling, history>>

tryPublishEvent(p) == CanCall(p, 1) /\ HasRoom(p, TRUE, 1)

tryPublishEvents(p, batchSize) == CanCall(p, batchSize) /\ HasRoom(p, FALSE, batchSize)

\* next(n) of MULTI claims first; whoever is still before its claim is overtaken.
nextMulti(p) ==
    /\ producer[p].pc = "next"
    /\ producerType = "MULTI"
    /\ claimed + producer[p].n <= MaxSequence
    /\ claimed' = claimed + producer[p].n
    /\ producer' = [q \in Producers |->
            IF q = p
            THEN [producer[q] EXCEPT !.pc = "wait", !.lo = claimed + 1, !.at = claimed + 1]
            ELSE [producer[q] EXCEPT !.overtaken = producer[q].pc = "next" \/ @]]
    /\ UNCHANGED <<producerType, cachedValue, published, entries, pulling, history>>

\* next(n) of SINGLE: a cache that does not answer costs a store of the cursor,
\* which shows consumers everything claimed so far.
nextSingle(p) ==
    /\ producer[p].pc = "next"
    /\ producerType = "SINGLE"
    /\ published' = IF CacheMiss(producer[p].n) THEN 0..claimed ELSE published
    /\ producer' = [producer EXCEPT ![p].pc = "wait", ![p].lo = claimed + 1, ![p].at = claimed + 1]
    /\ UNCHANGED <<producerType, claimed, cachedValue, entries, pulling, history>>

\* There is room; SINGLE claims only now.
nextReturns(p) ==
    /\ producer[p].pc = "wait"
    /\ wrapPoint(lastOf(p)) <= minimumSequence
    /\ producer' = [producer EXCEPT ![p].pc = "translate"]
    /\ IF producerType = "MULTI" THEN UNCHANGED <<claimed, cachedValue>>
       ELSE /\ claimed' = lastOf(p)
            /\ cachedValue' = IF CacheMiss(producer[p].n) THEN minimumSequence ELSE cachedValue
    /\ UNCHANGED <<producerType, published, entries, pulling, history>>

\* A translator has returned, or the batch has none at this place; after the
\* last one the claim is published.
Translated(p) ==
    producer' = [producer EXCEPT ![p] =
        IF @.at = lastOf(p) THEN [@ EXCEPT !.pc = "publish", !.at = producer[p].lo]
                            ELSE [@ EXCEPT !.at = producer[p].at + 1]]

translateTo(p) ==
    /\ producer[p].pc = "translate"
    /\ entries' = [entries EXCEPT ![calculateIndex(producer[p].at)] = producer[p].at]
    /\ Translated(p)
    /\ UNCHANGED <<producerType, claimed, cachedValue, published, pulling, history>>

NoTranslator(p) ==
    /\ producer[p].pc = "translate"
    /\ ~producer[p].single
    /\ untranslated' = untranslated \cup {producer[p].at}
    /\ Translated(p)
    /\ UNCHANGED <<ring, pulling, thrown>>

\* publishEvent does not publish what it claimed.
TranslatorThrows(p) ==
    /\ producer[p].pc = "translate"
    /\ producer[p].single
    /\ producer' = [producer EXCEPT ![p] = Idle]
    /\ untranslated' = untranslated \cup {producer[p].at}
    /\ thrown' = thrown \cup {producer[p].at}
    /\ UNCHANGED <<ring, pulling>>

\* A slip in TranslatorOfBatchThrows: the batch is not published.
LeaveBatch(p) ==
    /\ producer[p].pc = "translate"
    /\ ~producer[p].single
    /\ producer' = [producer EXCEPT ![p] = Idle]
    /\ untranslated' = untranslated \cup producer[p].at..lastOf(p)
    /\ UNCHANGED <<ring, pulling, thrown>>

\* publishEvents does, the sequences it has not translated too.
TranslatorOfBatchThrows(p) ==
    /\ producer[p].pc = "translate"
    /\ ~producer[p].single
    /\ producer' = [producer EXCEPT ![p].pc = "publish", ![p].at = producer[p].lo]
    /\ untranslated' = untranslated \cup producer[p].at..lastOf(p)
    /\ UNCHANGED <<ring, pulling, thrown>>

\* One flag after the other (MULTI), or the cursor once (SINGLE).
publish(p) ==
    /\ producer[p].pc = "publish"
    /\ IF producerType = "MULTI"
       THEN /\ published' = published \cup {producer[p].at}
            /\ producer' = [producer EXCEPT ![p] =
                    IF @.at = lastOf(p) THEN Idle ELSE [@ EXCEPT !.at = producer[p].at + 1]]
       ELSE /\ published' = 0..lastOf(p)
            /\ producer' = [producer EXCEPT ![p] = Idle]
    /\ UNCHANGED <<producerType, claimed, cachedValue, entries, pulling, history>>

-----------------------------------------------------------------------------
(* Pollers                                                                 *)

\* A slip in gatingSequence: the group is not used.
GatedByCursor(c) == Cursor

\* gatingSequence_: the cursor, a sequence, or the minimum of a FixedSequenceGroup.
gatingSequence(c) == IF GatedBy[c] = {} THEN Cursor ELSE Min({sequence[d] : d \in GatedBy[c]})

\* PROCESSING, or with nothing to do GATING or IDLE.  A BatchedPoller polls
\* when its batch is used up.
poll(c) ==
    LET next == sequence[c] + 1
        available == getHighestPublishedSequence(next, gatingSequence(c))
    IN  /\ poller[c].pc = "out"
        /\ batch[c] = <<>>
        /\ next <= available
        /\ poller' = [poller EXCEPT ![c] = [pc |-> "handle", next |-> next, available |-> available,
                                            processed |-> sequence[c]]]
        /\ UNCHANGED <<ring, producer, sequence, batch, throws, taken, history>>

\* The loop goes on when the handler wants more and there is more.
Handled(c, processNextEvent) ==
    poller' = [poller EXCEPT ![c] =
        [@ EXCEPT !.processed = poller[c].next, !.next = poller[c].next + 1,
                  !.pc = IF processNextEvent /\ poller[c].next < poller[c].available THEN "handle" ELSE "set"]]

onEvent(c) ==
    /\ poller[c].pc = "handle"
    /\ c \notin Batched
    /\ \E processNextEvent \in BOOLEAN : Handled(c, processNextEvent)
    /\ UNCHANGED <<ring, producer, sequence, batch, throws, taken, history>>

onEventThrows(c) ==
    /\ poller[c].pc = "handle"
    /\ c \notin Batched
    /\ throws < MaxThrows
    /\ throws' = throws + 1
    /\ poller' = [poller EXCEPT ![c].pc = "set"]
    /\ UNCHANGED <<ring, producer, sequence, batch, taken, history>>

\* BatchedData copies the event, and wants more until it is full.
addDataItem(c) ==
    /\ poller[c].pc = "handle"
    /\ c \in Batched
    /\ Len(batch[c]) < BatchSize[c]
    /\ batch' = [batch EXCEPT ![c] = Append(@, poller[c].next)]
    /\ Handled(c, Len(batch[c]) + 1 < BatchSize[c])
    /\ UNCHANGED <<ring, producer, sequence, throws, taken, history>>

\* A slip in SetSequence: a handler that asked to stop misses the rest.
SetToAvailable(c) ==
    /\ poller[c].pc = "set"
    /\ sequence' = [sequence EXCEPT ![c] = poller[c].available]
    /\ poller' = [poller EXCEPT ![c] = NotPolling]
    /\ UNCHANGED <<ring, producer, batch, throws, taken, history>>

\* Only now may a producer use the slots again; an exception comes this way too.
SetSequence(c) ==
    /\ poller[c].pc = "set"
    /\ sequence' = [sequence EXCEPT ![c] = poller[c].processed]
    /\ poller' = [poller EXCEPT ![c] = NotPolling]
    /\ UNCHANGED <<ring, producer, batch, throws, taken, history>>

pollMessage(c) ==
    /\ poller[c].pc = "out"
    /\ batch[c] # <<>>
    /\ batch' = [batch EXCEPT ![c] = Tail(@)]
    /\ taken' = [taken EXCEPT ![c] = @ + 1]
    /\ UNCHANGED <<ring, producer, sequence, poller, throws, history>>

-----------------------------------------------------------------------------

Produce(p) ==
    \/ publishEvent(p) \/ tryPublishEvent(p)
    \/ \E n \in RequestSizes : publishEvents(p, n) \/ tryPublishEvents(p, n)
    \/ nextMulti(p) \/ nextSingle(p) \/ nextReturns(p)
    \/ translateTo(p) \/ NoTranslator(p) \/ TranslatorThrows(p) \/ TranslatorOfBatchThrows(p)
    \/ publish(p)

Pull(c) == \/ poll(c) \/ onEvent(c) \/ onEventThrows(c) \/ addDataItem(c)
           \/ SetSequence(c) \/ pollMessage(c)

Next == (\E p \in Producers : Produce(p)) \/ (\E c \in Pollers : Pull(c))

SafeSpec == Init /\ [][Next]_vars

\* Consumers poll in a loop; a producer owes nothing.
Spec == SafeSpec /\ \A c \in Pollers : WF_vars(Pull(c))

-----------------------------------------------------------------------------
(* Properties                                                              *)

\* A handler is given the event that the translator of its sequence wrote,
\* unless that translator threw or was missing: then it sees what the slot
\* held before.  No producer writes a slot that a poller has not let go.
HandledIsTranslated ==
    \A c \in Pollers : poller[c].pc = "handle" =>
        LET s == poller[c].next IN entries[calculateIndex(s)] = s \/ s \in untranslated

\* What a producer has claimed, or waits to claim, and not published yet.
Held(p) == IF producer[p].pc \in {"wait", "translate", "publish"}
           THEN producer[p].lo..lastOf(p) ELSE {}

\* The sequences that were claimed and that nobody is going to publish.
Holes == (0..claimed) \ (published \cup UNION {Held(p) : p \in Producers})

\* Only a translator that throws in publishEvent, or in its try, leaves a sequence
\* that nobody will publish: no batch does, thrown or with translators missing.
HolesAreThrows == Holes \subseteq thrown

\* Whatever its translator does, publishEvent publishes the sequence it claimed,
\* as the Java method of which it is a port does in a finally.
PublishesInFinally == Holes = {}

\* A tryPublishEvent waits for room, after it was told that there is some, only
\* when another producer claimed in between.
TryWaitsOnlyWhenOvertaken ==
    \A p \in Producers :
        (producer[p].pc = "wait" /\ producer[p].try /\ ~producer[p].overtaken)
            => wrapPoint(lastOf(p)) <= minimumSequence

\* A BatchedPoller returns every event that its poller let go exactly once and
\* in order: what is not returned yet is in its batch.
BatchedIsComplete ==
    \A c \in Batched : poller[c].pc = "out" =>
        /\ batch[c] = [k \in 1..Len(batch[c]) |-> taken[c] + k - 1]
        /\ taken[c] + Len(batch[c]) - 1 = sequence[c]

Multicast == INSTANCE MulticastBuffer
    WITH Consumers <- Pollers, DependsOn <- GatedBy, handled <- sequence

\* Publishing with translators and pulling is a multicast buffer, whatever
\* throws: order, dependencies and slots are kept, a hole stops every poller,
\* and a poller with an event it may handle handles it.
ImplementsMulticast == Multicast!Spec
=============================================================================
