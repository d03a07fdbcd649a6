--------------------- MODULE SingleProducerSequencerProofs ---------------------
(***************************************************************************)
(* Theorems about SingleProducerSequencer, for every set of consumers that *)
(* come and go and every size of the ring.                                 *)
(*                                                                         *)
(* Types hold however the gating sequences are updated.  The rest needs    *)
(* what the code relies on, that consumers join and leave while the        *)
(* producer is between two claims (QuiescentUpdates): Quiet says that the  *)
(* raw pointer to the vector is then up to date whenever it is used,       *)
(* GatedBy that no minimum exceeds the sequence of a consumer that is in   *)
(* the vector, and EntriesHold what the slots hold.                        *)
(***************************************************************************)
EXTENDS SingleProducerSequencer, SequencingProofs

\* minimumSequence is under way.
Searching == ppc \in {"pointer", "load", "cache", "minimum"}

\* Where the producer is bounds what it counts with.
ProducerBound ==
    /\ cursor <= nextValue
    /\ cursor < nextValue => cursor < at /\ at <= nextValue + 1
    /\ ppc = "idle" => cursor = nextValue
    /\ ppc = "write" => cursor < nextValue
    /\ Searching /\ call # "hasAvailableCapacity" =>
          cursor = nextValue /\ n \in RequestSizes /\ nextValue + n <= MaxSequence
    /\ ppc = "cache" => snap # NULL

\* A batch ends at the cursor at most.
ConsumerBound ==
    \A c \in Consumers :
        /\ sequence[c] <= cursor
        /\ cpc[c] = "handle" => sequence[c] < available[c] /\ available[c] <= cursor

\* No update is under way while the producer is, and what it iterates over is
\* the vector that is installed.
Quiet ==
    /\ ppc # "idle" => \A c \in Consumers : cpc[c] \notin Updating
    /\ \/ gatingSequencesCache \in {NULL, gatingSequences}
       \/ \E c \in Consumers : cpc[c] \in {"reset", "joined", "removed"}
    /\ ppc = "cache" => snap = gatingSequences
    /\ ppc = "minimum" => vector = gatingSequences

\* A consumer in these states is in the vector that is installed.
Member(c) == cpc[c] \in {"reset", "joined", "wait", "handle", "exchange"}

\* The vector holds the members, a newcomer is at the cursor, and neither the
\* claim nor a minimum is too far ahead of any member.
GatedBy ==
    /\ vectors[gatingSequences] = {c \in Consumers : Member(c)}
    /\ cachedValue <= nextValue
    /\ ppc = "minimum" => minSequence <= nextValue
    /\ \A c \in Consumers :
          /\ cpc[c] \in {"install", "reset", "joined"} => sequence[c] = cursor
          /\ Member(c) =>
                /\ cachedValue <= sequence[c]
                /\ nextValue - BufferSize <= sequence[c]
                /\ ppc = "minimum" /\ c \notin unread => minSequence <= sequence[c]

\* The last sequence whose slot is filled.
LastFilled == IF cursor < nextValue THEN at - 1 ELSE nextValue

\* The slots of the lap that ends with the claim hold their events.
EntriesHold ==
    \A s \in Nat : nextValue - BufferSize < s /\ s <= LastFilled => entries[calculateIndex(s)] = s

Typed == TypeOK /\ ProducerBound /\ ConsumerBound

USE BufferSizeNat, MaxSequenceAssumption DEF SequenceValue, INITIAL_CURSOR_VALUE, NULL

\* A request asks for at least one sequence.
LEMMA RequestNat == \A k \in RequestSizes : k \in Nat /\ k >= 1
  BY RequestAssumption

-----------------------------------------------------------------------------
(* Types and bounds                                                        *)

LEMMA InitTyped == Init => Typed
  BY ConsumersAssumption DEF Init, Typed, TypeOK, ProducerBound, ConsumerBound, Searching, Updating

\* Who leaves what alone.
LEMMA ProducerLeaves ==
  ASSUME Begin \/ Continue
  PROVE  UNCHANGED <<vectors, gatingSequences, consumerVars>>
  BY DEF Begin, Continue, ClaimFromCache, ClaimSlowly, AskCapacity, ReadCachePointer, LoadSnapshot,
         StoreCachePointer, ReadGating, SpinForRoom, FoundRoom, InsufficientCapacity, WriteEntry,
         Publish, gatingVars, consumerVars

LEMMA ConsumerLeaves ==
  ASSUME NEW c \in Consumers, Update(c) \/ Consume(c)
  PROVE  UNCHANGED <<cursor, entries, producerVars>>
  BY DEF Update, Consume, LoadForAdd, SetToCursor, InstallAdded, ResetToCursor, FinishAdd,
         LoadForRemove, InstallRemoved, FinishRemove, WaitForCursor, OnEvent, EndBatch

\* Claiming after a call that found room.
LEMMA ClaimTyped ==
  ASSUME Typed, NEW k \in RequestSizes, nextValue + k <= MaxSequence, cursor = nextValue, Claim(k),
         UNCHANGED cursor
  PROVE  /\ nextValue' \in SequenceValue /\ nextValue' = nextValue + k /\ cursor < nextValue'
         /\ at' \in 0..(MaxSequence + 1) /\ cursor' < at' /\ at' <= nextValue' + 1
         /\ ppc' = "write" /\ cursor' = cursor
  BY RequestNat DEF Typed, TypeOK, Claim

\* What a step of the producer has to keep.
ProducerState ==
    /\ cursor \in SequenceValue /\ nextValue \in SequenceValue /\ cachedValue \in SequenceValue
    /\ entries \in [Slots -> SequenceValue]
    /\ gatingSequencesCache \in 0..Len(vectors)
    /\ ppc \in {"idle", "pointer", "load", "cache", "minimum", "write"}
    /\ call \in {"next", "tryNext", "hasAvailableCapacity"}
    /\ n \in Nat
    /\ vector \in 0..Len(vectors)
    /\ snap \in 0..Len(vectors)
    /\ unread \subseteq Consumers
    /\ minSequence \in SequenceValue
    /\ at \in 0..(MaxSequence + 1)
    /\ ProducerBound

\* A step of the producer keeps types and bounds.
LEMMA ProducerTyped ==
  ASSUME Typed, Begin \/ Continue
  PROVE  Typed' /\ cursor <= cursor'
  <1>0. /\ TypeOK /\ ProducerBound /\ ConsumerBound
        /\ vectors \in Seq(SUBSET Consumers)
        /\ sequence \in [Consumers -> SequenceValue]
    BY DEF Typed, TypeOK
  <1>c. UNCHANGED <<vectors, gatingSequences, sequence, cpc, held, available, position>>
    BY ProducerLeaves DEF consumerVars
  <1>s. ASSUME ProducerState', cursor <= cursor' PROVE Typed' /\ cursor <= cursor'
    <2>0. /\ vectors' \in Seq(SUBSET Consumers) /\ gatingSequences' \in 1..Len(vectors')
          /\ sequence' \in [Consumers -> SequenceValue]
          /\ cpc' \in [Consumers -> Updating \cup {"out", "wait", "handle", "left"}]
          /\ held' \in [Consumers -> 0..Len(vectors')]
          /\ available' \in [Consumers -> SequenceValue]
          /\ position' \in [Consumers -> 0..(MaxSequence + 1)]
      BY <1>0, <1>c DEF TypeOK
    <2>1. TypeOK'
      BY <2>0, <1>s DEF TypeOK, ProducerState, Updating
    <2>a. /\ \A c \in Consumers : sequence[c] \in Int /\ available[c] \in Int
          /\ cursor \in Int /\ cursor' \in Int
      BY <1>0, <1>s DEF TypeOK, ProducerState
    <2>2. ConsumerBound'
      BY <1>0, <1>c, <1>s, <2>a DEF ConsumerBound
    <2> QED
      BY <1>s, <2>1, <2>2 DEF Typed, ProducerState
  <1>p. ProducerState
    BY <1>0 DEF ProducerState, TypeOK
  <1> SUFFICES ProducerState' /\ cursor <= cursor'
    BY <1>s
  <1> USE <1>0, <1>p, <1>c DEF ProducerState, ProducerBound, Searching
  <1>1. ASSUME NEW k \in RequestSizes, ClaimFromCache(k)
        PROVE  ProducerState' /\ cursor <= cursor'
    <2>1. cursor = nextValue /\ nextValue + k <= MaxSequence /\ Claim(k) /\ UNCHANGED cursor
      BY <1>1 DEF ClaimFromCache
    <2> QED
      BY <1>1, <2>1, ClaimTyped DEF ClaimFromCache, gatingVars
  <1>2. ASSUME NEW k \in RequestSizes, NEW operation \in {"next", "tryNext"}, ClaimSlowly(operation, k)
        PROVE  ProducerState' /\ cursor <= cursor'
    BY <1>2, RequestNat DEF ClaimSlowly, StoreLoadFence, gatingVars
  <1>3. ASSUME NEW k \in RequestSizes, AskCapacity(k)
        PROVE  ProducerState' /\ cursor <= cursor'
    BY <1>3, RequestNat DEF AskCapacity, gatingVars
  <1>i. ASSUME NEW v \in 1..Len(vectors) PROVE vectors[v] \subseteq Consumers
    BY <1>i
  <1>4. CASE ReadCachePointer
    <2>1. CASE gatingSequencesCache = NULL
      BY <1>4, <2>1 DEF ReadCachePointer, gatingVars
    <2>2. CASE gatingSequencesCache # NULL
      <3>1. gatingSequencesCache \in 1..Len(vectors)
        BY <2>2
      <3> QED
        BY <1>4, <1>i, <2>2, <3>1 DEF ReadCachePointer, Iterate, gatingVars
    <2> QED
      BY <2>1, <2>2
  <1>5. CASE LoadSnapshot
    <2>1. gatingSequences \in 1..Len(vectors)
      BY DEF TypeOK
    <2> QED
      BY <1>5, <2>1 DEF LoadSnapshot, gatingVars
  <1>6. CASE StoreCachePointer
    <2>1. snap \in 1..Len(vectors)
      BY <1>6 DEF StoreCachePointer
    <2> QED
      BY <1>6, <1>i, <2>1 DEF StoreCachePointer, Iterate
  <1>7. ASSUME NEW g \in Consumers, ReadGating(g)
        PROVE  ProducerState' /\ cursor <= cursor'
    <2>1. Least(minSequence, sequence[g]) \in SequenceValue
      BY DEF Least
    <2> QED
      BY <1>7, <2>1 DEF ReadGating, gatingVars
  <1>8. CASE SpinForRoom
    BY <1>8 DEF SpinForRoom, LeaveMinimum, gatingVars
  <1>9. CASE FoundRoom
    <2>1. CASE call = "hasAvailableCapacity"
      BY <1>9, <2>1 DEF FoundRoom, LeaveMinimum, GoBack, gatingVars
    <2>2. CASE call # "hasAvailableCapacity"
      <3>1. /\ cursor = nextValue /\ n \in RequestSizes /\ nextValue + n <= MaxSequence
            /\ Claim(n) /\ UNCHANGED cursor
        BY <1>9, <2>2 DEF FoundRoom, LeaveMinimum
      <3> QED
        BY <1>9, <3>1, ClaimTyped DEF FoundRoom, LeaveMinimum, gatingVars
    <2> QED
      BY <2>1, <2>2
  <1>10. CASE InsufficientCapacity
    BY <1>10 DEF InsufficientCapacity, LeaveMinimum, GoBack, gatingVars
  <1>11. CASE WriteEntry
    <2>0. at \in SequenceValue
      BY <1>11 DEF WriteEntry
    <2>1. at \in SequenceValue /\ entries' \in [Slots -> SequenceValue]
      BY <1>11, <2>0, IndexType DEF WriteEntry
    <2> QED
      BY <1>11, <2>1 DEF WriteEntry, gatingVars
  <1>12. CASE Publish
    BY <1>12 DEF Publish, gatingVars
  <1> QED
    BY <1>1, <1>2, <1>3, <1>4, <1>5, <1>6, <1>7, <1>8, <1>9, <1>10, <1>11, <1>12
       DEF Begin, Continue

\* A step of a consumer, or of the thread that adds or removes it, keeps them.
LEMMA ConsumerTyped ==
  ASSUME Typed, NEW c \in Consumers, Update(c) \/ Consume(c)
  PROVE  Typed'
  <1>0. /\ TypeOK /\ ProducerBound /\ ConsumerBound
        /\ UNCHANGED <<cursor, entries, nextValue, cachedValue, ppc, call, n, vector, snap, unread,
                       minSequence, at>>
    BY ConsumerLeaves DEF Typed, producerVars
  <1>1. ProducerBound'
    BY <1>0 DEF ProducerBound, Searching
  <1> USE <1>0, <1>1 DEF Typed, TypeOK, ConsumerBound, gatingVars, Updating
  <1>l. Len(vectors) \in Nat /\ 0 \in 0..Len(vectors)
    OBVIOUS
  <1>2. CASE LoadForAdd(c)
    BY <1>2 DEF LoadForAdd
  <1>3. CASE SetToCursor(c)
    BY <1>3 DEF SetToCursor
  <1>4. ASSUME NEW members \in SUBSET Consumers, Install(members)
        PROVE  /\ vectors' \in Seq(SUBSET Consumers) /\ Len(vectors') = Len(vectors) + 1
               /\ gatingSequences' \in 1..Len(vectors') /\ gatingSequencesCache' \in 0..Len(vectors')
               /\ vector' \in 0..Len(vectors') /\ snap' \in 0..Len(vectors')
               /\ \A h \in 0..Len(vectors) : h \in 0..Len(vectors')
    BY <1>4 DEF Install
  <1>5. CASE InstallAdded(c)
    <2>1. vectors[held[c]] \cup {c} \in SUBSET Consumers
      BY <1>5 DEF InstallAdded
    <2> QED
      BY <1>4, <1>5, <2>1 DEF InstallAdded
  <1>6. CASE ResetToCursor(c)
    <2>1. held' \in [Consumers -> 0..Len(vectors)] /\ sequence' \in [Consumers -> SequenceValue]
      BY <1>6, <1>l DEF ResetToCursor
    <2> QED
      BY <1>6, <2>1 DEF ResetToCursor
  <1>7. CASE FinishAdd(c)
    BY <1>7 DEF FinishAdd, InvalidateCache
  <1>8. CASE LoadForRemove(c)
    BY <1>8 DEF LoadForRemove
  <1>9. CASE InstallRemoved(c)
    <2>1. vectors[held[c]] \ {c} \in SUBSET Consumers
      BY <1>9 DEF InstallRemoved
    <2>2. held' \in [Consumers -> 0..Len(vectors)]
      BY <1>9, <1>l DEF InstallRemoved
    <2>3. held' \in [Consumers -> 0..Len(vectors')]
      BY <1>4, <1>9, <2>1, <2>2 DEF InstallRemoved
    <2> QED
      BY <1>4, <1>9, <2>1, <2>3 DEF InstallRemoved
  <1>10. CASE FinishRemove(c)
    BY <1>10 DEF FinishRemove, InvalidateCache
  <1>11. CASE WaitForCursor(c)
    BY <1>11 DEF WaitForCursor
  <1>12. CASE OnEvent(c)
    <2>1. position[c] + 1 \in 0..(MaxSequence + 1)
      BY <1>12 DEF OnEvent
    <2> QED
      BY <1>12, <2>1 DEF OnEvent
  <1>13. CASE EndBatch(c)
    BY <1>13 DEF EndBatch
  <1> QED
    BY <1>2, <1>3, <1>5, <1>6, <1>7, <1>8, <1>9, <1>10, <1>11, <1>12, <1>13 DEF Update, Consume

\* Typed is inductive, however the gating sequences are updated.
LEMMA TypedInductive == Typed /\ [Next]_vars => Typed'
  <1> SUFFICES ASSUME Typed, [Next]_vars PROVE Typed'
    OBVIOUS
  <1>1. CASE UNCHANGED vars
    BY <1>1 DEF vars, gatingVars, producerVars, consumerVars, Typed, TypeOK, ProducerBound,
                ConsumerBound, Searching
  <1> QED
    BY <1>1, ProducerTyped, ConsumerTyped DEF Next

\* Every variable keeps its type, and a vector pointer is NULL or a vector that
\* exists, however consumers join and leave while next and publish are under way.
THEOREM TypeCorrect == SafeSpec => []TypeOK
  <1>1. Typed => TypeOK
    BY DEF Typed
  <1> QED
    BY InitTyped, TypedInductive, <1>1, PTL DEF SafeSpec

-----------------------------------------------------------------------------
(* The raw pointer is up to date when it is used                           *)

LEMMA InitQuiet == Init => Quiet
  BY DEF Init, Quiet

\* Updates and the producer exclude each other, as Quiet says.
LEMMA UpdateIsAlone ==
  ASSUME QuiescentUpdates, Typed, Quiet, NEW c \in Consumers, Update(c)
  PROVE  ppc = "idle"
  BY DEF Quiet, Update, LoadForAdd, SetToCursor, InstallAdded, ResetToCursor, FinishAdd,
         LoadForRemove, InstallRemoved, FinishRemove, MayUpdate, Updating

LEMMA ProducerIsAlone ==
  ASSUME QuiescentUpdates, Quiet, Begin \/ Continue
  PROVE  \A c \in Consumers : cpc[c] \notin Updating
  <1>1. CASE Begin
    BY <1>1 DEF Begin, ClaimFromCache, ClaimSlowly, AskCapacity, MayRun
  <1>2. CASE Continue
    BY <1>2 DEF Continue, ReadCachePointer, LoadSnapshot, StoreCachePointer, ReadGating, SpinForRoom,
                FoundRoom, InsufficientCapacity, LeaveMinimum, WriteEntry, Publish, Quiet
  <1> QED
    BY <1>1, <1>2

\* A step of the producer keeps Quiet.
LEMMA ProducerQuiet ==
  ASSUME QuiescentUpdates, Typed, Quiet, Begin \/ Continue
  PROVE  Quiet'
  <1>0. UNCHANGED <<gatingSequences, cpc>>
    BY ProducerLeaves DEF consumerVars
  <1>1. \A c \in Consumers : cpc[c] \notin Updating
    BY ProducerIsAlone
  <1>2. gatingSequencesCache \in {NULL, gatingSequences}
    BY <1>1 DEF Quiet, Updating
  <1> SUFFICES /\ gatingSequencesCache' \in {NULL, gatingSequences}
               /\ ppc' = "cache" => snap' = gatingSequences
               /\ ppc' = "minimum" => vector' = gatingSequences
    BY <1>0, <1>1 DEF Quiet
  <1> USE <1>2 DEF Quiet, gatingVars
  <1>3. CASE Begin
    BY <1>3 DEF Begin, ClaimFromCache, ClaimSlowly, AskCapacity, Claim
  <1>4. CASE ReadCachePointer
    BY <1>4 DEF ReadCachePointer, Iterate
  <1>5. CASE LoadSnapshot
    BY <1>5 DEF LoadSnapshot
  <1>6. CASE StoreCachePointer
    BY <1>6 DEF StoreCachePointer, Iterate
  <1>7. CASE \E g \in Consumers : ReadGating(g)
    BY <1>7 DEF ReadGating
  <1>8. CASE SpinForRoom \/ FoundRoom \/ InsufficientCapacity
    BY <1>8 DEF SpinForRoom, FoundRoom, InsufficientCapacity, Claim, GoBack
  <1>9. CASE WriteEntry \/ Publish
    BY <1>9 DEF WriteEntry, Publish
  <1> QED
    BY <1>3, <1>4, <1>5, <1>6, <1>7, <1>8, <1>9 DEF Continue

\* So does a step of a consumer, or of the thread that adds or removes it.
LEMMA ConsumerQuiet ==
  ASSUME QuiescentUpdates, Typed, Quiet, NEW c \in Consumers, Update(c) \/ Consume(c)
  PROVE  Quiet'
  <1>0. /\ UNCHANGED <<ppc, vector, snap>>
        /\ cpc \in [Consumers -> Updating \cup {"out", "wait", "handle", "left"}]
    BY ConsumerLeaves DEF producerVars, Typed, TypeOK
  <1> DEFINE Stale == \E d \in Consumers : cpc[d] \in {"reset", "joined", "removed"}
  <1>1. CASE Consume(c)
    <2>1. /\ UNCHANGED <<gatingSequences, gatingSequencesCache>>
          /\ cpc[c] \in {"wait", "handle"}
          /\ cpc'[c] \in {"wait", "handle"}
          /\ \A d \in Consumers \ {c} : cpc'[d] = cpc[d]
      BY <1>0, <1>1 DEF Consume, WaitForCursor, OnEvent, EndBatch, gatingVars
    <2>2. Stale => Stale'
      BY <2>1
    <2> QED
      BY <1>0, <2>1, <2>2 DEF Quiet, Updating
  <1>2. CASE Update(c)
    <2>0. ppc = "idle" /\ ppc' = "idle"
      BY <1>0, <1>2, UpdateIsAlone
    <2>1. \A d \in Consumers \ {c} : cpc'[d] = cpc[d]
      BY <1>0, <1>2 DEF Update, LoadForAdd, SetToCursor, InstallAdded, ResetToCursor, FinishAdd,
                        LoadForRemove, InstallRemoved, FinishRemove
    <2> SUFFICES gatingSequencesCache' \in {NULL, gatingSequences'} \/ Stale'
      BY <2>0 DEF Quiet
    <2>2. CASE LoadForAdd(c) \/ SetToCursor(c) \/ LoadForRemove(c)
      <3>1. /\ cpc[c] \notin {"reset", "joined", "removed"}
            /\ UNCHANGED <<gatingSequences, gatingSequencesCache>>
        BY <2>2 DEF LoadForAdd, SetToCursor, LoadForRemove, gatingVars
      <3> QED
        BY <2>1, <3>1 DEF Quiet
    <2>3. CASE InstallAdded(c) \/ ResetToCursor(c) \/ InstallRemoved(c)
      <3>1. cpc'[c] \in {"reset", "joined", "removed"}
        BY <1>0, <2>3 DEF InstallAdded, ResetToCursor, InstallRemoved
      <3> QED
        BY <3>1
    <2>4. CASE FinishAdd(c) \/ FinishRemove(c)
      BY <2>4 DEF FinishAdd, FinishRemove, InvalidateCache
    <2> QED
      BY <1>2, <2>2, <2>3, <2>4 DEF Update
  <1> QED
    BY <1>1, <1>2

\* With quiescent updates, Quiet is inductive on top of Typed.
LEMMA QuietInductive ==
  ASSUME QuiescentUpdates
  PROVE  Typed /\ Quiet /\ [Next]_vars => Quiet'
  <1> SUFFICES ASSUME Typed, Quiet, [Next]_vars PROVE Quiet'
    OBVIOUS
  <1>1. CASE UNCHANGED vars
    BY <1>1 DEF vars, gatingVars, producerVars, consumerVars, Quiet
  <1> QED
    BY <1>1, ProducerQuiet, ConsumerQuiet DEF Next

\* The producer never iterates over a vector that has been freed: an update
\* invalidates the raw pointer gatingSequencesCache_ before the producer,
\* between two claims until then, looks for room again.
THEOREM NoVectorIsReadFreed ==
  ASSUME QuiescentUpdates
  PROVE  SafeSpec => []NoDanglingRead
  <1>1. Init => Typed /\ Quiet
    BY InitTyped, InitQuiet
  <1>2. Typed /\ Quiet /\ [Next]_vars => (Typed /\ Quiet)'
    BY QuietInductive, TypedInductive
  <1>3. Quiet => NoDanglingRead
    BY DEF Quiet, NoDanglingRead, Alive
  <1> QED
    BY <1>1, <1>2, <1>3, PTL DEF SafeSpec

-----------------------------------------------------------------------------
(* No minimum and no claim is too far ahead of a member                    *)

LEMMA InitGatedBy == Init => GatedBy
  <1> SUFFICES ASSUME Init PROVE GatedBy
    OBVIOUS
  <1>1. \A c \in Consumers : Member(c) <=> c \in InitialConsumers
    BY DEF Init, Member
  <1>2. vectors[gatingSequences] = {c \in Consumers : Member(c)}
    BY <1>1, ConsumersAssumption DEF Init
  <1> QED
    BY <1>2 DEF Init, GatedBy

\* A step of the producer keeps GatedBy.
LEMMA ProducerGated ==
  ASSUME QuiescentUpdates, Typed, Quiet, GatedBy, Begin \/ Continue
  PROVE  GatedBy'
  <1>0. /\ UNCHANGED <<vectors, gatingSequences, sequence, cpc>>
        /\ TypeOK /\ ProducerBound /\ ConsumerBound
        /\ \A c \in Consumers : sequence[c] \in SequenceValue
        /\ cursor \in SequenceValue /\ nextValue \in SequenceValue /\ cachedValue \in SequenceValue
        /\ minSequence \in SequenceValue /\ n \in Nat
    BY ProducerLeaves DEF consumerVars, Typed, TypeOK
  <1>a. \A c \in Consumers : cpc[c] \notin Updating
    BY ProducerIsAlone
  <1>b. vectors'[gatingSequences'] = {c \in Consumers : Member(c)}'
    BY <1>0 DEF GatedBy, Member
  <1>c. \A c \in Consumers : cpc'[c] \notin {"install", "reset", "joined"}
    BY <1>0, <1>a DEF Updating
  <1> DEFINE Kept ==
                  /\ cachedValue' <= nextValue'
                  /\ ppc' = "minimum" => minSequence' <= nextValue'
                  /\ \A c \in Consumers : Member(c) =>
                        /\ cachedValue' <= sequence[c]
                        /\ nextValue' - BufferSize <= sequence[c]
                        /\ ppc' = "minimum" /\ c \notin unread' => minSequence' <= sequence[c]
  <1> SUFFICES Kept
    BY <1>0, <1>b, <1>c DEF GatedBy, Member
  <1>g. /\ cachedValue <= nextValue
        /\ ppc = "minimum" => minSequence <= nextValue
        /\ \A c \in Consumers : Member(c) =>
                     /\ cachedValue <= sequence[c]
                     /\ nextValue - BufferSize <= sequence[c]
                     /\ ppc = "minimum" /\ c \notin unread => minSequence <= sequence[c]
    BY DEF GatedBy
  <1>i. ASSUME NEW v, v = gatingSequences, Iterate(v), UNCHANGED <<nextValue, cachedValue>>
        PROVE  Kept
    <2>1. \A c \in Consumers : Member(c) => c \in unread'
      BY <1>i DEF GatedBy, Iterate
    <2> QED
      BY <1>0, <1>g, <1>i, <2>1 DEF Iterate
  <1> USE <1>0, <1>g
  <1>1. ASSUME NEW k \in RequestSizes, ClaimFromCache(k)
        PROVE  /\ cachedValue' = cachedValue /\ nextValue' >= nextValue
               /\ nextValue' - BufferSize <= cachedValue /\ ppc' # "minimum" /\ nextValue' \in Int
    BY <1>1, RequestNat DEF ClaimFromCache, CacheMiss, wrapPoint, Claim
  <1>2. CASE Begin
    <2>1. CASE \E k \in RequestSizes : ClaimFromCache(k)
      BY <1>1, <2>1
    <2>2. CASE \E k \in RequestSizes : AskCapacity(k) \/ \E o \in {"next", "tryNext"} : ClaimSlowly(o, k)
      BY <2>2 DEF AskCapacity, ClaimSlowly
    <2> QED
      BY <1>2, <2>1, <2>2 DEF Begin
  <1>3. CASE ReadCachePointer
    <2>1. CASE gatingSequencesCache = NULL
      BY <1>3, <2>1 DEF ReadCachePointer
    <2>2. CASE gatingSequencesCache # NULL
      <3>1. gatingSequencesCache = gatingSequences
        BY <1>a, <2>2 DEF Quiet, Updating
      <3> QED
        BY <1>i, <1>3, <2>2, <3>1 DEF ReadCachePointer
    <2> QED
      BY <2>1, <2>2
  <1>4. CASE LoadSnapshot
    BY <1>4 DEF LoadSnapshot
  <1>5. CASE StoreCachePointer
    <2>1. snap = gatingSequences
      BY <1>5 DEF StoreCachePointer, Quiet
    <2> QED
      BY <1>i, <1>5, <2>1 DEF StoreCachePointer
  <1>6. ASSUME NEW g \in Consumers, ReadGating(g)
        PROVE  Kept
    <2>1. /\ minSequence' <= minSequence /\ minSequence' <= sequence[g] /\ minSequence' \in Int
          /\ \A c \in Consumers : c \notin unread' => c = g \/ c \notin unread
      <3>1. /\ minSequence' = Least(minSequence, sequence[g]) /\ unread' = unread \ {g}
            /\ minSequence \in Int /\ sequence[g] \in Int
        BY <1>6 DEF ReadGating
      <3> QED
        BY <3>1, LeastIsMin
    <2>2. UNCHANGED <<nextValue, cachedValue, ppc>> /\ ppc = "minimum"
      BY <1>6 DEF ReadGating
    <2> QED
      BY <2>1, <2>2
  <1>7. CASE SpinForRoom
    BY <1>7 DEF SpinForRoom
  <1>8. CASE FoundRoom
    <2>1. /\ cachedValue' = minSequence /\ ppc = "minimum" /\ unread = {}
          /\ ppc' # "minimum"
      BY <1>8 DEF FoundRoom, LeaveMinimum, Claim, GoBack
    <2>2. nextValue' = nextValue \/ (nextValue' = nextValue + n /\ nextValue' - BufferSize <= minSequence)
      BY <1>8 DEF FoundRoom, wrapPoint, Claim
    <2> QED
      BY <2>1, <2>2
  <1>9. CASE InsufficientCapacity
    <2>1. /\ cachedValue' = minSequence /\ ppc = "minimum" /\ unread = {}
          /\ ppc' # "minimum" /\ nextValue' = nextValue
      BY <1>9 DEF InsufficientCapacity, LeaveMinimum, GoBack
    <2> QED
      BY <2>1
  <1>10. CASE WriteEntry \/ Publish
    BY <1>10 DEF WriteEntry, Publish
  <1> QED
    BY <1>2, <1>3, <1>4, <1>5, <1>6, <1>7, <1>8, <1>9, <1>10 DEF Continue

\* So does a step of a consumer, or of the thread that adds or removes it.
LEMMA ConsumerGated ==
  ASSUME QuiescentUpdates, Typed, Quiet, GatedBy, NEW c \in Consumers, Update(c) \/ Consume(c)
  PROVE  GatedBy'
  <1>0. /\ UNCHANGED <<cursor, nextValue, cachedValue, ppc, unread, minSequence>>
        /\ vectors \in Seq(SUBSET Consumers) /\ gatingSequences \in 1..Len(vectors)
        /\ cpc \in [Consumers -> Updating \cup {"out", "wait", "handle", "left"}]
        /\ sequence \in [Consumers -> SequenceValue] /\ available \in [Consumers -> SequenceValue]
        /\ cursor \in SequenceValue /\ nextValue \in SequenceValue /\ cachedValue \in SequenceValue
        /\ minSequence \in SequenceValue
        /\ cursor <= nextValue /\ (ppc = "idle" => cursor = nextValue)
        /\ ConsumerBound
    BY ConsumerLeaves DEF producerVars, Typed, TypeOK, ProducerBound
  <1>1. \A d \in Consumers \ {c} : cpc'[d] = cpc[d] /\ sequence'[d] = sequence[d]
    BY <1>0 DEF Update, LoadForAdd, SetToCursor, InstallAdded, ResetToCursor, FinishAdd, LoadForRemove,
                InstallRemoved, FinishRemove, Consume, WaitForCursor, OnEvent, EndBatch
  <1>2. ASSUME vectors'[gatingSequences'] = {d \in Consumers : Member(d)}',
               sequence'[c] \in Int,
               cpc'[c] \in {"install", "reset", "joined"} => sequence'[c] = cursor,
               Member(c)' => \/ Member(c) /\ sequence[c] <= sequence'[c]
                             \/ ppc = "idle" /\ sequence'[c] = cursor
        PROVE  GatedBy'
    <2>1. \A d \in Consumers : cpc'[d] \in {"install", "reset", "joined"} => sequence'[d] = cursor
      BY <1>1, <1>2 DEF GatedBy
    <2>2. ASSUME NEW d \in Consumers, Member(d)'
          PROVE  /\ cachedValue <= sequence'[d]
                 /\ nextValue - BufferSize <= sequence'[d]
                 /\ ppc = "minimum" /\ d \notin unread => minSequence <= sequence'[d]
      <3>1. CASE d # c
        BY <1>0, <1>1, <2>2, <3>1 DEF GatedBy, Member
      <3>2. CASE d = c
        BY <1>0, <1>2, <2>2, <3>2 DEF GatedBy
      <3> QED
        BY <3>1, <3>2
    <2> QED
      BY <1>0, <1>2, <2>1, <2>2 DEF GatedBy
  <1>3. ASSUME UNCHANGED <<vectors, gatingSequences>>, Member(c)' <=> Member(c)
        PROVE  vectors'[gatingSequences'] = {d \in Consumers : Member(d)}'
    <2>1. \A d \in Consumers : Member(d)' <=> Member(d)
      BY <1>1, <1>3 DEF Member
    <2> QED
      BY <1>3, <2>1 DEF GatedBy
  <1>4. ASSUME NEW members, Install(members)
        PROVE  vectors'[gatingSequences'] = members
    BY <1>0, <1>4 DEF Install
  <1>5. CASE Update(c)
    <2>0. ppc = "idle"
      BY <1>5, UpdateIsAlone
    <2>1. CASE LoadForAdd(c) \/ SetToCursor(c) \/ ResetToCursor(c) \/ FinishAdd(c)
               \/ LoadForRemove(c) \/ FinishRemove(c)
      <3>1. UNCHANGED <<vectors, gatingSequences>>
        BY <2>1 DEF LoadForAdd, SetToCursor, ResetToCursor, FinishAdd, LoadForRemove, FinishRemove, gatingVars
      <3>2. Member(c)' <=> Member(c)
        BY <1>0, <2>1 DEF LoadForAdd, SetToCursor, ResetToCursor, FinishAdd, LoadForRemove, FinishRemove, Member
      <3>3. /\ sequence'[c] = sequence[c] \/ sequence'[c] = cursor
            /\ cpc'[c] \in {"install", "reset", "joined"} => sequence'[c] = cursor
        BY <1>0, <2>1 DEF LoadForAdd, SetToCursor, ResetToCursor, FinishAdd, LoadForRemove, FinishRemove
      <3> QED
        BY <1>0, <1>2, <1>3, <2>0, <3>1, <3>2, <3>3
    <2>2. CASE InstallAdded(c)
      <3>1. cpc'[c] = "reset" /\ cpc[c] = "install" /\ sequence' = sequence /\ sequence[c] = cursor
        BY <1>0, <2>2 DEF InstallAdded, GatedBy
      <3>2. vectors'[gatingSequences'] = vectors[gatingSequences] \cup {c}
        BY <1>4, <2>2 DEF InstallAdded
      <3>3. vectors'[gatingSequences'] = {d \in Consumers : Member(d)}'
        BY <1>1, <3>1, <3>2 DEF GatedBy, Member
      <3> QED
        BY <1>0, <1>2, <2>0, <3>1, <3>3
    <2>3. CASE InstallRemoved(c)
      <3>1. cpc'[c] = "removed" /\ sequence' = sequence
        BY <1>0, <2>3 DEF InstallRemoved
      <3>2. vectors'[gatingSequences'] = vectors[gatingSequences] \ {c}
        BY <1>4, <2>3 DEF InstallRemoved
      <3>3. vectors'[gatingSequences'] = {d \in Consumers : Member(d)}'
        BY <1>1, <3>1, <3>2 DEF GatedBy, Member
      <3>4. ~Member(c)'
        BY <3>1 DEF Member
      <3> QED
        BY <1>0, <1>2, <3>1, <3>3, <3>4
    <2> QED
      BY <1>5, <2>1, <2>2, <2>3 DEF Update
  <1>6. CASE Consume(c)
    <2>1. UNCHANGED <<vectors, gatingSequences>>
      BY <1>6 DEF Consume, WaitForCursor, OnEvent, EndBatch, gatingVars
    <2>2. /\ cpc[c] \in {"wait", "handle"} /\ cpc'[c] \in {"wait", "handle"}
          /\ \/ sequence'[c] = sequence[c]
             \/ sequence'[c] = available[c] /\ cpc[c] = "handle"
      BY <1>0, <1>6 DEF Consume, WaitForCursor, OnEvent, EndBatch
    <2>3. Member(c) /\ Member(c)'
      BY <2>2 DEF Member
    <2>4. sequence[c] <= sequence'[c] /\ sequence'[c] \in Int
      BY <1>0, <2>2 DEF ConsumerBound
    <2> QED
      BY <1>2, <1>3, <2>1, <2>2, <2>3, <2>4
  <1> QED
    BY <1>5, <1>6

\* With quiescent updates, GatedBy is inductive on top of Typed and Quiet.
LEMMA GatedInductive ==
  ASSUME QuiescentUpdates
  PROVE  Typed /\ Quiet /\ GatedBy /\ [Next]_vars => GatedBy'
  <1> SUFFICES ASSUME Typed, Quiet, GatedBy, [Next]_vars PROVE GatedBy'
    OBVIOUS
  <1>1. CASE UNCHANGED vars
    BY <1>1 DEF vars, gatingVars, producerVars, consumerVars, GatedBy, Member
  <1> QED
    BY <1>1, ProducerGated, ConsumerGated DEF Next

\* A claim never reaches the lap of an event that a consumer which has joined
\* and not left has still to handle, whenever it joined (addSequences, next),
\* provided consumers join and leave between two claims.
THEOREM NoConsumerIsOverrun ==
  ASSUME QuiescentUpdates
  PROVE  SafeSpec => []NoOverrun
  <1>1. Init => Typed /\ Quiet /\ GatedBy
    BY InitTyped, InitQuiet, InitGatedBy
  <1>2. Typed /\ Quiet /\ GatedBy /\ [Next]_vars => (Typed /\ Quiet /\ GatedBy)'
    BY QuietInductive, TypedInductive, GatedInductive
  <1>3. GatedBy => NoOverrun
    BY DEF GatedBy, NoOverrun, Active, Member
  <1> QED
    BY <1>1, <1>2, <1>3, PTL DEF SafeSpec

-----------------------------------------------------------------------------
(* What the slots hold                                                     *)

LEMMA InitEntries == Init => EntriesHold
  BY DEF Init, EntriesHold, LastFilled

\* Filling a slot spares the others of the lap, claiming gives up the oldest.
LEMMA EntriesInductive == Typed /\ EntriesHold /\ [Next]_vars => EntriesHold'
  <1> SUFFICES ASSUME Typed, EntriesHold, [Next]_vars PROVE EntriesHold'
    OBVIOUS
  <1>0. /\ entries \in [Slots -> SequenceValue] /\ at \in Int
        /\ cursor \in Int /\ nextValue \in Int /\ cursor' \in Int /\ nextValue' \in Int /\ at' \in Int
        /\ ProducerBound
    BY TypedInductive DEF Typed, TypeOK
  <1>1. ASSUME entries' = entries, nextValue <= nextValue', LastFilled' <= LastFilled
        PROVE  EntriesHold'
    <2>1. LastFilled \in Int /\ LastFilled' \in Int
      BY <1>0 DEF LastFilled
    <2>2. ASSUME NEW s \in Nat, nextValue' - BufferSize < s, s <= LastFilled'
          PROVE  entries[calculateIndex(s)] = s
      <3>a. \A u, v, b \in Int : u <= v /\ v - b < s => u - b < s
        OBVIOUS
      <3>b. nextValue \in Int /\ nextValue' \in Int /\ BufferSize \in Int
        BY <1>0
      <3>c. nextValue - BufferSize < s
        BY <1>1, <2>2, <3>a, <3>b, Zenon
      <3>d. s <= LastFilled
        BY <1>1, <2>1, <2>2
      <3>1. nextValue - BufferSize < s /\ s <= LastFilled
        BY <3>c, <3>d
      <3> QED
        BY <3>1 DEF EntriesHold
    <2> QED
      BY <1>1, <2>2 DEF EntriesHold, calculateIndex
  <1>2. CASE UNCHANGED <<entries, cursor, nextValue, at>>
    BY <1>0, <1>1, <1>2 DEF LastFilled
  <1>3. CASE Begin
    <2>1. ASSUME NEW k \in RequestSizes, ClaimFromCache(k) PROVE EntriesHold'
      BY <1>0, <1>1, <2>1, RequestNat DEF ClaimFromCache, Claim, LastFilled, ProducerBound
    <2>2. ASSUME NEW k \in RequestSizes, NEW o \in {"next", "tryNext"}, ClaimSlowly(o, k) PROVE EntriesHold'
      BY <1>0, <1>1, <2>2 DEF ClaimSlowly, StoreLoadFence, LastFilled, ProducerBound
    <2>3. ASSUME NEW k \in RequestSizes, AskCapacity(k) PROVE EntriesHold'
      BY <1>2, <2>3 DEF AskCapacity
    <2> QED
      BY <1>3, <2>1, <2>2, <2>3 DEF Begin
  <1>4. CASE ReadCachePointer \/ LoadSnapshot \/ StoreCachePointer \/ SpinForRoom \/ InsufficientCapacity
             \/ \E g \in Consumers : ReadGating(g)
    BY <1>2, <1>4 DEF ReadCachePointer, LoadSnapshot, StoreCachePointer, ReadGating, SpinForRoom,
                      InsufficientCapacity
  <1>5. CASE FoundRoom
    <2>1. CASE call = "hasAvailableCapacity"
      BY <1>2, <1>5, <2>1 DEF FoundRoom
    <2>2. CASE call # "hasAvailableCapacity"
      <3>1. cursor = nextValue /\ n \in RequestSizes /\ UNCHANGED <<cursor, entries>> /\ Claim(n)
        BY <1>0, <1>5, <2>2 DEF FoundRoom, LeaveMinimum, ProducerBound, Searching
      <3> QED
        BY <1>0, <1>1, <3>1, RequestNat DEF Claim, LastFilled
    <2> QED
      BY <2>1, <2>2
  <1>6. CASE WriteEntry
    <2>1. /\ at <= nextValue /\ entries' = [entries EXCEPT ![calculateIndex(at)] = at]
          /\ at' = at + 1 /\ UNCHANGED <<cursor, nextValue>> /\ cursor < nextValue /\ at \in Nat
      BY <1>0, <1>6 DEF WriteEntry, ProducerBound, Typed, TypeOK
    <2> SUFFICES ASSUME NEW s \in Nat, nextValue - BufferSize < s, s <= at
                 PROVE  entries'[calculateIndex(s)] = s
      BY <1>0, <2>1 DEF EntriesHold, LastFilled
    <2>2. CASE s = at
      BY <1>0, <2>1, <2>2, IndexType
    <2>3. CASE s # at
      <3>1. calculateIndex(s) # calculateIndex(at)
        BY <1>0, <2>1, <2>3, NearSlotsDiffer
      <3>2. entries[calculateIndex(s)] = s
        BY <1>0, <2>1, <2>3 DEF EntriesHold, LastFilled
      <3> QED
        BY <1>0, <2>1, <3>1, <3>2, IndexType
    <2> QED
      BY <2>2, <2>3
  <1>7. CASE Publish
    <2>1. cursor < nextValue /\ at = nextValue + 1
      BY <1>0, <1>7 DEF Publish, ProducerBound
    <2> QED
      BY <1>0, <1>1, <1>7, <2>1 DEF Publish, LastFilled
  <1>8. CASE \E c \in Consumers : Update(c) \/ Consume(c)
    BY <1>2, <1>8, ConsumerLeaves DEF producerVars
  <1>9. CASE UNCHANGED vars
    BY <1>2, <1>9 DEF vars, producerVars
  <1> QED
    BY <1>3, <1>4, <1>5, <1>6, <1>7, <1>8, <1>9 DEF Next, Continue

\* Every slot of an accepted batch holds the event of its sequence until the
\* consumer is done with it, although the cursor is stored before publish too,
\* provided consumers join and leave between two claims.
THEOREM BatchesStayIntact ==
  ASSUME QuiescentUpdates
  PROVE  SafeSpec => []BatchIntact
  <1> DEFINE Inv == Typed /\ Quiet /\ GatedBy /\ EntriesHold
  <1>1. Init => Inv
    BY InitTyped, InitQuiet, InitGatedBy, InitEntries
  <1>2. Inv /\ [Next]_vars => Inv'
    BY QuietInductive, TypedInductive, GatedInductive, EntriesInductive
  <1>3. Inv => BatchIntact
    <2> SUFFICES ASSUME Inv, NEW c \in Consumers, cpc[c] = "handle",
                        NEW s \in (sequence[c] + 1)..available[c]
                 PROVE  entries[calculateIndex(s)] = s
      BY DEF BatchIntact
    <2>1. /\ cursor \in Int /\ nextValue \in Int /\ at \in Int
          /\ sequence[c] \in SequenceValue /\ available[c] \in Int
      BY DEF Typed, TypeOK
    <2>2. nextValue - BufferSize <= sequence[c] /\ available[c] <= cursor
      BY DEF GatedBy, Member, Typed, ConsumerBound
    <2>3. cursor <= LastFilled /\ LastFilled \in Int
      BY <2>1 DEF Typed, ProducerBound, LastFilled
    <2> QED
      BY <2>1, <2>2, <2>3 DEF EntriesHold
  <1> QED
    BY <1>1, <1>2, <1>3, PTL DEF SafeSpec

=============================================================================
