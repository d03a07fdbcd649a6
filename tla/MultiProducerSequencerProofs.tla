--------------------- MODULE MultiProducerSequencerProofs ---------------------
(***************************************************************************)
(* Theorems about MultiProducerSequencer, for every number of producers    *)
(* and consumers, every topology, buffer size, batch size and bound.       *)
(*                                                                         *)
(* The inductive invariant comes in layers: TypeOK and Bounds say where    *)
(* every counter is, Gated that no cached or half-computed minimum exceeds *)
(* a gating sequence, Ordered that nobody overtakes an upstream consumer.  *)
(* Together they are Safe, and give NoOverrun.                             *)
(*                                                                         *)
(* Delivery, the second half, is inductive on top of Safe: claims are      *)
(* neither lost nor given twice, the availability flags tell the truth in  *)
(* the lap ahead of every consumer, every event of a batch is the one that *)
(* was published, and the whole implements a multicast buffer.             *)
(* FlagsAreTruthful alone is not inductive: it needs that what is          *)
(* published lies within a lap of every consumer (Window) and that a scan  *)
(* never runs past that lap (Scanned); the entries need what has been      *)
(* filled and not published yet (EntriesHold).                             *)
(***************************************************************************)
EXTENDS MultiProducerSequencer, SequencingProofs

\* Where a producer is in its call bounds its locals.
ProducerBound(p) ==
    /\ ppc[p] # "idle" => n[p] \in RequestSizes /\ current[p] + n[p] <= MaxSequence
    /\ ppc[p] # "idle" => current[p] <= cursor
    /\ HasClaim(p) => current[p] + n[p] <= cursor
    /\ ppc[p] = "cas" => call[p] = "tryNext"
    /\ Owns(p) => at[p] \in (current[p] + 1)..(current[p] + n[p])

ProducerBounds == \A p \in Producers : ProducerBound(p)

\* Where a consumer is in its loop bounds its locals.
ConsumerBounds ==
    \A c \in Consumers :
        /\ untracked[c] \subseteq DependsOn[c]
        /\ DependsOn[c] # {} => untracked[c] # {}
        /\ cpc[c] = "wait" => position[c] = sequence[c] + 1
        /\ cpc[c] \in {"scan", "handle"} =>
              position[c] \in (sequence[c] + 1)..(available[c] + 1)
        /\ cpc[c] \in {"scan", "handle"} =>
              sequence[c] < available[c] /\ untracked[c] = DependsOn[c]

Bounds == ProducerBounds /\ ConsumerBounds

\* No minimum that a decision is based on exceeds a gating sequence.
Gated ==
    /\ \A g \in GatingConsumers : gatingSequenceCache <= sequence[g]
    /\ \A p \in Producers :
          /\ ppc[p] = "minimum" =>
                \A g \in GatingConsumers \ unread[p] : minSequence[p] <= sequence[g]
          /\ ppc[p] \in {"cas", "write", "publish"} =>
                \A g \in GatingConsumers : wrapPoint(p) <= sequence[g]

\* No consumer is, or has seen room to go, past one it depends on.
Ordered ==
    \A c \in Consumers :
        /\ cpc[c] = "wait" =>
              \A d \in DependsOn[c] \ untracked[c] : available[c] <= sequence[d]
        /\ cpc[c] \in {"scan", "handle"} =>
              \A u \in Upstream[c] : available[c] <= sequence[u]
        /\ \A u \in Upstream[c] : sequence[c] <= sequence[u]

Safe == TypeOK /\ Bounds /\ Gated /\ Ordered

-----------------------------------------------------------------------------
(* Facts about flags and constants                                         *)

\* The flag of a sequence is a flag.
LEMMA FlagType == \A s \in Int : calculateAvailabilityFlag(s) \in Flags
  <1> SUFFICES ASSUME NEW s \in Int PROVE calculateAvailabilityFlag(s) \in Flags
    OBVIOUS
  <1>1. s \div BufferSize \in Int
    BY BufferSizeAssumption
  <1> QED
    BY <1>1, FlagAssumption DEF calculateAvailabilityFlag, Flags

\* What the topology says of the constants' types.
LEMMA TopologyTypes ==
  /\ DependsOn \in [Consumers -> SUBSET Consumers]
  /\ GatingConsumers \subseteq Consumers
  /\ Upstream \in [Consumers -> SUBSET Consumers]
  BY TopologyAssumption

\* A request asks for at least one sequence.
LEMMA RequestNat == \A k \in RequestSizes : k \in Nat /\ k >= 1
  BY RequestAssumption

\* A batch holds at least one event.
LEMMA BatchNat == MaxBatchSize \in Nat /\ MaxBatchSize >= 1
  BY BatchAssumption

USE BufferSizeNat, MaxSequenceAssumption, RequestNat, BatchNat DEF SequenceValue, INITIAL_CURSOR_VALUE

-----------------------------------------------------------------------------
(* Types and bounds                                                        *)

LEMMA InitSafe == Init => Safe
  <1> SUFFICES ASSUME Init PROVE Safe
    OBVIOUS
  <1> USE DEF Init
  <1>1. TypeOK
    BY FlagType, TopologyTypes DEF TypeOK, Operations
  <1>2. Bounds
    BY DEF Bounds, ProducerBounds, ProducerBound, ConsumerBounds, HasClaim, Owns
  <1>3. Gated
    BY TopologyTypes DEF Gated
  <1>4. Ordered
    BY TopologyTypes DEF Ordered
  <1> QED
    BY <1>1, <1>2, <1>3, <1>4 DEF Safe

\* A producer's step keeps the types.
LEMMA ProducerTypeOK ==
  ASSUME TypeOK, ProducerBounds, NEW p \in Producers, Begin(p) \/ Continue(p)
  PROVE  TypeOK'
  <1> USE DEF TypeOK, shared, producerVars, consumerVars
  <1>0. /\ ppc[p] # "idle" => /\ n[p] \in Nat /\ n[p] >= 1
                              /\ current[p] + n[p] \in 0..MaxSequence
                              /\ current[p] + 1 \in 0..MaxSequence
        /\ Owns(p) => at[p] \in (current[p] + 1)..(current[p] + n[p])
    BY DEF ProducerBounds, ProducerBound
  <1>1. ASSUME NEW k \in RequestSizes, NextClaim(p, k) PROVE TypeOK'
    BY <1>1 DEF NextClaim, Operations
  <1>2. ASSUME NEW k \in RequestSizes, NEW operation \in Operations, ReadCursor(p, operation, k)
        PROVE TypeOK'
    BY <1>2 DEF ReadCursor, Operations
  <1>a. ASSUME ReturnClaimed(p), ppc[p] # "idle"
        PROVE  /\ ppc' \in [Producers -> {"idle", "check", "minimum", "cas", "write", "publish"}]
               /\ call' \in [Producers -> Operations]
               /\ at' \in [Producers -> 0..MaxSequence]
               /\ n' = n /\ current' = current
    BY <1>a, <1>0 DEF ReturnClaimed, Operations
  <1>b. ASSUME Return(p)
        PROVE  /\ ppc' \in [Producers -> {"idle", "check", "minimum", "cas", "write", "publish"}]
               /\ call' \in [Producers -> Operations]
               /\ at' \in [Producers -> 0..MaxSequence]
               /\ n' \in [Producers -> Nat]
               /\ current' \in [Producers -> SequenceValue]
    BY <1>b DEF Return, Operations
  <1>c. ASSUME Granted(p), ppc[p] # "idle"
        PROVE  /\ ppc' \in [Producers -> {"idle", "check", "minimum", "cas", "write", "publish"}]
               /\ call' \in [Producers -> Operations]
               /\ at' \in [Producers -> 0..MaxSequence]
               /\ n' \in [Producers -> Nat]
               /\ current' \in [Producers -> SequenceValue]
    BY <1>a, <1>b, <1>c DEF Granted
  <1>3. CASE CacheHit(p)
    BY <1>3, <1>c DEF CacheHit
  <1>4. CASE StartMinimum(p)
    BY <1>4 DEF StartMinimum
  <1>5. ASSUME NEW g \in GatingConsumers, ReadGating(p, g) PROVE TypeOK'
    <2>1. sequence[g] \in SequenceValue
      BY TopologyTypes
    <2>2. Least(minSequence[p], sequence[g]) \in SequenceValue
      BY <2>1 DEF Least
    <2> QED
      BY <1>5, <2>2 DEF ReadGating
  <1>6. CASE SpinForRoom(p)
    BY <1>6 DEF SpinForRoom
  <1>7. CASE FoundRoom(p)
    <2>1. ppc[p] # "idle" /\ Granted(p)
      BY <1>7 DEF FoundRoom
    <2>2. gatingSequenceCache' \in SequenceValue /\ minSequence' \in [Producers -> SequenceValue]
      BY <1>7 DEF FoundRoom, ForgetMinimum
    <2> QED
      BY <1>7, <1>c, <2>1, <2>2 DEF FoundRoom
  <1>8. CASE InsufficientCapacity(p)
    <2>1. gatingSequenceCache' \in SequenceValue /\ minSequence' \in [Producers -> SequenceValue]
      BY <1>8 DEF InsufficientCapacity, ForgetMinimum
    <2> QED
      BY <1>8, <1>b, <2>1 DEF InsufficientCapacity
  <1>9. CASE CasClaim(p)
    BY <1>9, <1>a, <1>0 DEF CasClaim
  <1>10. CASE CasRetry(p)
    BY <1>10 DEF CasRetry
  <1>11. CASE WriteEntry(p)
    <2> USE <1>11 DEF WriteEntry
    <2>1. entries' \in [Slots -> SequenceValue]
      BY IndexType
    <2>2. at' \in [Producers -> 0..MaxSequence]
      BY <1>0 DEF Owns
    <2>3. ppc' \in [Producers -> {"idle", "check", "minimum", "cas", "write", "publish"}]
      OBVIOUS
    <2> QED
      BY <2>1, <2>2, <2>3
  <1>12. CASE Publish(p)
    <2> USE <1>12 DEF Publish
    <2>1. availableBuffer' \in [Slots -> Flags]
      BY IndexType, FlagType DEF setAvailable
    <2>2. published' \subseteq 0..MaxSequence
      OBVIOUS
    <2>3. CASE at[p] = current[p] + n[p]
      BY <2>1, <2>2, <2>3, <1>b
    <2>4. CASE at[p] # current[p] + n[p]
      <3>1. at[p] + 1 \in 0..MaxSequence
        BY <2>4, <1>0 DEF Owns
      <3>2. at' \in [Producers -> 0..MaxSequence]
        BY <2>4, <3>1
      <3> QED
        BY <2>1, <2>2, <2>4, <3>2
    <2> QED
      BY <2>3, <2>4
  <1> QED
    BY <1>1, <1>2, <1>3, <1>4, <1>5, <1>6, <1>7, <1>8, <1>9, <1>10, <1>11, <1>12
       DEF Begin, Continue

\* A step of another producer keeps a producer's bounds: the cursor only grows.
LEMMA OtherProducerBound ==
  ASSUME TypeOK, NEW q \in Producers, ProducerBound(q),
         NEW p \in Producers \ {q}, Begin(p) \/ Continue(p)
  PROVE  ProducerBound(q)'
  <1> USE DEF TypeOK, shared, producerVars, consumerVars
  <1>1. /\ ppc'[q] = ppc[q] /\ call'[q] = call[q] /\ n'[q] = n[q]
        /\ current'[q] = current[q] /\ at'[q] = at[q]
    BY DEF Begin, Continue, NextClaim, ReadCursor, CacheHit, Granted, Return, ReturnClaimed,
           StartMinimum, ReadGating, SpinForRoom, FoundRoom, ForgetMinimum,
           InsufficientCapacity, CasClaim, CasRetry, WriteEntry, Publish
  <1>2. cursor' \in Int /\ cursor' >= cursor
    BY DEF Begin, Continue, NextClaim, ReadCursor, CacheHit, StartMinimum, ReadGating,
           SpinForRoom, FoundRoom, InsufficientCapacity, CasClaim, CasRetry, WriteEntry, Publish
  <1>3. (HasClaim(q) <=> HasClaim(q)') /\ (Owns(q) <=> Owns(q)')
    BY <1>1 DEF HasClaim, Owns
  <1> QED
    BY <1>1, <1>2, <1>3 DEF ProducerBound

\* The successor of a sequence inside a claim that is not its last is inside it too.
LEMMA NextInRange ==
  ASSUME NEW lo \in Int, NEW hi \in Int, NEW i \in lo..hi
  PROVE  /\ lo \in lo..hi
         /\ i # hi => i + 1 \in lo..hi
  OBVIOUS

\* A producer that goes on writing or publishing inside its claim keeps its bounds.
LEMMA OwnerKeepsBound ==
  ASSUME NEW p \in Producers, ProducerBound(p), Owns(p), UNCHANGED <<cursor, n, current>>,
         ppc'[p] \in {"write", "publish"},
         at'[p] \in (current[p] + 1)..(current[p] + n[p])
  PROVE  ProducerBound(p)'
  <1>1. ppc[p] # "idle" /\ HasClaim(p) /\ ppc'[p] # "cas"
    BY DEF Owns, HasClaim
  <1>2. /\ n[p] \in RequestSizes /\ current[p] + n[p] <= MaxSequence
        /\ current[p] <= cursor /\ current[p] + n[p] <= cursor
    BY <1>1 DEF ProducerBound
  <1>3. n'[p] = n[p] /\ current'[p] = current[p] /\ cursor' = cursor
    OBVIOUS
  <1> QED
    BY <1>1, <1>2, <1>3 DEF ProducerBound

\* A producer's step keeps its own bounds.
LEMMA OwnProducerBound ==
  ASSUME TypeOK, NEW p \in Producers, ProducerBound(p), Begin(p) \/ Continue(p)
  PROVE  ProducerBound(p)'
  <1> USE DEF TypeOK, ProducerBound, HasClaim, Owns, shared, producerVars, consumerVars
  <1>0. ASSUME Owns(p)
        PROVE  /\ current[p] + 1 \in (current[p] + 1)..(current[p] + n[p])
               /\ at[p] # current[p] + n[p] =>
                     at[p] + 1 \in (current[p] + 1)..(current[p] + n[p])
    <2>1. current[p] + 1 \in Int /\ current[p] + n[p] \in Int
      OBVIOUS
    <2>2. at[p] \in (current[p] + 1)..(current[p] + n[p])
      BY <1>0
    <2> HIDE DEF TypeOK, ProducerBound
    <2> QED
      BY <2>1, <2>2, NextInRange
  <1>1. ASSUME NEW k \in RequestSizes, NextClaim(p, k) PROVE ProducerBound(p)'
    BY <1>1 DEF NextClaim
  <1>2. ASSUME NEW k \in RequestSizes, NEW operation \in Operations, ReadCursor(p, operation, k)
        PROVE ProducerBound(p)'
    BY <1>2 DEF ReadCursor, Operations
  <1>c. ASSUME Granted(p), cursor' = cursor, ppc[p] \in {"check", "minimum"}
        PROVE  ProducerBound(p)'
    <2>1. CASE call[p] = "next"
      BY <1>c, <2>1 DEF Granted, ReturnClaimed
    <2>2. CASE call[p] = "tryNext"
      BY <1>c, <2>2 DEF Granted
    <2>3. CASE call[p] = "hasAvailableCapacity"
      BY <1>c, <2>3 DEF Granted, Return
    <2> QED
      BY <2>1, <2>2, <2>3 DEF Operations
  <1>3. CASE CacheHit(p)
    BY <1>3, <1>c DEF CacheHit
  <1>4. CASE StartMinimum(p)
    BY <1>4 DEF StartMinimum
  <1>5. ASSUME NEW g \in GatingConsumers, ReadGating(p, g) PROVE ProducerBound(p)'
    BY <1>5 DEF ReadGating
  <1>6. CASE SpinForRoom(p)
    BY <1>6 DEF SpinForRoom
  <1>7. CASE FoundRoom(p)
    BY <1>7, <1>c DEF FoundRoom
  <1>8. CASE InsufficientCapacity(p)
    BY <1>8 DEF InsufficientCapacity, Return
  <1>9. CASE CasClaim(p)
    BY <1>9 DEF CasClaim, ReturnClaimed
  <1>10. CASE CasRetry(p)
    BY <1>10 DEF CasRetry
  <1>11. CASE WriteEntry(p)
    <2>1. ppc[p] = "write" /\ UNCHANGED <<cursor, n, current>>
      BY <1>11 DEF WriteEntry
    <2>2. CASE at[p] = current[p] + n[p]
      <3>1. ppc'[p] = "publish" /\ at'[p] = current[p] + 1
        BY <1>11, <2>2 DEF WriteEntry
      <3>2. current[p] + 1 \in (current[p] + 1)..(current[p] + n[p])
        BY <1>0, <2>1
      <3> QED
        BY <2>1, <3>1, <3>2, OwnerKeepsBound
    <2>3. CASE at[p] # current[p] + n[p]
      <3>1. ppc'[p] = "write" /\ at'[p] = at[p] + 1
        BY <1>11, <2>3 DEF WriteEntry
      <3>2. at[p] + 1 \in (current[p] + 1)..(current[p] + n[p])
        BY <1>0, <2>1, <2>3
      <3> QED
        BY <2>1, <3>1, <3>2, OwnerKeepsBound
    <2> QED
      BY <2>2, <2>3
  <1>12. CASE Publish(p)
    <2>1. ppc[p] = "publish" /\ cursor' = cursor
      BY <1>12 DEF Publish
    <2>2. CASE at[p] = current[p] + n[p]
      BY <1>12, <2>1, <2>2 DEF Publish, Return
    <2>3. CASE at[p] # current[p] + n[p]
      <3>1. ppc'[p] = "publish" /\ at'[p] = at[p] + 1 /\ UNCHANGED <<n, current>>
        BY <1>12, <2>3 DEF Publish
      <3>2. at[p] + 1 \in (current[p] + 1)..(current[p] + n[p])
        BY <1>0, <2>1, <2>3
      <3> QED
        BY <2>1, <3>1, <3>2, OwnerKeepsBound
    <2> QED
      BY <2>2, <2>3
  <1> QED
    BY <1>1, <1>2, <1>3, <1>4, <1>5, <1>6, <1>7, <1>8, <1>9, <1>10, <1>11, <1>12
       DEF Begin, Continue

\* A consumer's step keeps the types.
LEMMA ConsumerTypeOK ==
  ASSUME TypeOK, ConsumerBounds, NEW c \in Consumers, Consume(c)
  PROVE  TypeOK'
  <1> USE DEF TypeOK, ConsumerBounds, nextSequence, shared, producerVars, consumerVars
  <1>1. CASE WaitForCursor(c)
    BY <1>1 DEF WaitForCursor, Waited
  <1>2. ASSUME NEW d \in Consumers, ReadDependent(c, d) PROVE TypeOK'
    <2>1. Least(available[c], sequence[d]) \in SequenceValue
      BY DEF Least
    <2>2. untracked' \in [Consumers -> SUBSET Consumers]
      BY <1>2, TopologyTypes DEF ReadDependent
    <2>3. /\ available' \in [Consumers -> SequenceValue]
          /\ cpc' \in [Consumers -> {"wait", "scan", "handle"}]
          /\ position' \in [Consumers -> 0..(MaxSequence + 1)]
      BY <1>2, <2>1 DEF ReadDependent, Waited
    <2> QED
      BY <1>2, <2>2, <2>3 DEF ReadDependent
  <1>3. CASE ScanFlag(c)
    BY <1>3 DEF ScanFlag
  <1>4. CASE ScanEnd(c)
    <2>1. /\ position[c] # nextSequence(c) =>
               Least(sequence[c] + MaxBatchSize, position[c] - 1) \in SequenceValue
          /\ nextSequence(c) \in 0..(MaxSequence + 1)
      BY <1>4 DEF ScanEnd, Least
    <2> QED
      BY <1>4, <2>1 DEF ScanEnd
  <1>5. CASE OnEvent(c)
    BY <1>5 DEF OnEvent
  <1>6. CASE EndBatch(c)
    BY <1>6 DEF EndBatch
  <1> QED
    BY <1>1, <1>2, <1>3, <1>4, <1>5, <1>6 DEF Consume

\* A consumer's step keeps the consumers' bounds.
LEMMA ConsumerConsumerBounds ==
  ASSUME TypeOK, ConsumerBounds, NEW c \in Consumers, Consume(c)
  PROVE  ConsumerBounds'
  <1> USE DEF TypeOK, ConsumerBounds, nextSequence, shared, producerVars, consumerVars
  <1>1. CASE WaitForCursor(c)
    <2>1. untracked[c] = DependsOn[c] /\ untracked' = untracked
      BY <1>1 DEF WaitForCursor
    <2> QED
      <3> SUFFICES ASSUME NEW d \in Consumers
                   PROVE  /\ untracked[d] \subseteq DependsOn[d]
                          /\ DependsOn[d] # {} => untracked[d] # {}
                          /\ cpc'[d] = "wait" => position'[d] = sequence[d] + 1
                          /\ cpc'[d] \in {"scan", "handle"} =>
                                /\ position'[d] \in (sequence[d] + 1)..(available'[d] + 1)
                                /\ sequence[d] < available'[d]
                                /\ untracked[d] = DependsOn[d]
        BY <1>1, <2>1 DEF WaitForCursor
      <3>1. CASE d = c
        <4>1. /\ cpc'[c] = "scan" /\ position'[c] = sequence[c] + 1
              /\ available'[c] = cursor /\ cursor >= sequence[c] + 1
              /\ cursor \in Int /\ sequence[c] \in Int
          BY <1>1 DEF WaitForCursor, Waited
        <4>2. DependsOn[c] = {}
          BY <1>1 DEF WaitForCursor
        <4>3. /\ position'[c] \in (sequence[c] + 1)..(available'[c] + 1)
              /\ sequence[c] < available'[c]
          BY <4>1
        <4>4. untracked[c] \subseteq DependsOn[c]
          BY <2>1
        <4> QED
          BY <4>1, <4>2, <4>3, <4>4, <2>1, <3>1, Zenon
      <3>2. CASE d # c
        BY <1>1, <2>1, <3>2 DEF WaitForCursor, Waited
      <3> QED
        BY <3>1, <3>2
  <1>2. ASSUME NEW d \in Consumers, ReadDependent(c, d) PROVE ConsumerBounds'
    BY <1>2 DEF ReadDependent, Waited, Least
  <1>3. CASE ScanFlag(c)
    BY <1>3 DEF ScanFlag
  <1>4. CASE ScanEnd(c)
    <2>0. position[c] \in (sequence[c] + 1)..(available[c] + 1) /\ sequence[c] \in Int
      BY <1>4 DEF ScanEnd
    <2>1. position[c] # sequence[c] + 1 =>
            /\ Least(sequence[c] + MaxBatchSize, position[c] - 1) \in Int
            /\ sequence[c] < Least(sequence[c] + MaxBatchSize, position[c] - 1)
      BY <2>0 DEF Least
    <2> QED
      BY <1>4, <2>1 DEF ScanEnd
  <1>5. CASE OnEvent(c)
    BY <1>5 DEF OnEvent
  <1>6. CASE EndBatch(c)
    BY <1>6 DEF EndBatch
  <1> QED
    BY <1>1, <1>2, <1>3, <1>4, <1>5, <1>6 DEF Consume

\* A producer's step moves no consumer's sequence.
LEMMA ProducersLeaveConsumers ==
  ASSUME NEW p \in Producers, Begin(p) \/ Continue(p)
  PROVE  UNCHANGED consumerVars
  BY DEF Begin, Continue, NextClaim, ReadCursor, CacheHit, StartMinimum, ReadGating,
         SpinForRoom, FoundRoom, InsufficientCapacity, CasClaim, CasRetry, WriteEntry,
         Publish, consumerVars

\* Every step keeps the types and the bounds.
LEMMA TypesInductive ==
  ASSUME TypeOK, Bounds, Next
  PROVE  TypeOK' /\ Bounds'
  <1>1. ASSUME NEW p \in Producers, Begin(p) \/ Continue(p) PROVE TypeOK' /\ Bounds'
    <2>1. TypeOK'
      BY <1>1, ProducerTypeOK DEF Bounds
    <2>2. ASSUME NEW q \in Producers PROVE ProducerBound(q)'
      BY <1>1, OwnProducerBound, OtherProducerBound DEF Bounds, ProducerBounds
    <2>3. UNCHANGED consumerVars
      BY <1>1, ProducersLeaveConsumers
    <2>4. ConsumerBounds'
      BY <2>3 DEF Bounds, ConsumerBounds, consumerVars
    <2> QED
      BY <2>1, <2>2, <2>4 DEF Bounds, ProducerBounds
  <1>2. ASSUME NEW c \in Consumers, Consume(c) PROVE TypeOK' /\ Bounds'
    <2>1. TypeOK' /\ ConsumerBounds'
      BY <1>2, ConsumerTypeOK, ConsumerConsumerBounds DEF Bounds
    <2>2. UNCHANGED <<shared, producerVars>>
      BY <1>2 DEF Consume, WaitForCursor, ReadDependent, ScanFlag, ScanEnd, OnEvent, EndBatch
    <2>3. ProducerBounds'
      BY <2>2 DEF Bounds, ProducerBounds, ProducerBound, HasClaim, Owns, shared, producerVars
    <2> QED
      BY <2>1, <2>3 DEF Bounds
  <1> QED
    BY <1>1, <1>2 DEF Next

-----------------------------------------------------------------------------
(* Minima and gating sequences                                             *)

\* A consumer's step moves sequences forward only, and nothing of the producers.
LEMMA ConsumersAdvance ==
  ASSUME TypeOK, Bounds, NEW c \in Consumers, Consume(c)
  PROVE  /\ UNCHANGED <<shared, producerVars>>
         /\ \A d \in Consumers : sequence'[d] \in Int /\ sequence[d] <= sequence'[d]
  <1>1. UNCHANGED <<shared, producerVars>>
    BY DEF Consume, WaitForCursor, ReadDependent, ScanFlag, ScanEnd, OnEvent, EndBatch
  <1>2. CASE sequence' = sequence
    BY <1>1, <1>2 DEF TypeOK
  <1>3. CASE EndBatch(c)
    BY <1>1, <1>3 DEF EndBatch, TypeOK, Bounds, ConsumerBounds
  <1> QED
    BY <1>1, <1>2, <1>3 DEF Consume, WaitForCursor, ReadDependent, ScanFlag, ScanEnd, OnEvent

\* What Gated says of one producer.
GatedProducer(p) ==
    /\ ppc[p] = "minimum" =>
          \A g \in GatingConsumers \ unread[p] : minSequence[p] <= sequence[g]
    /\ ppc[p] \in {"cas", "write", "publish"} =>
          \A g \in GatingConsumers : wrapPoint(p) <= sequence[g]

\* A producer decides on minima that no gating sequence is below.
LEMMA ProducerGated ==
  ASSUME TypeOK, Bounds, Gated, NEW p \in Producers, Begin(p) \/ Continue(p)
  PROVE  Gated'
  <1> USE DEF TypeOK, shared, producerVars
  <1>1. UNCHANGED sequence
    BY ProducersLeaveConsumers DEF consumerVars
  <1>2. \A g \in GatingConsumers : sequence[g] \in Int
    BY TopologyTypes
  <1>3. \A q \in Producers : GatedProducer(q)
    BY DEF Gated, GatedProducer
  <1>4. \A g \in GatingConsumers : gatingSequenceCache' <= sequence[g]
    <2>1. CASE UNCHANGED gatingSequenceCache
      BY <2>1 DEF Gated
    <2>2. CASE /\ ppc[p] = "minimum" /\ unread[p] = {}
               /\ gatingSequenceCache' = minSequence[p]
      BY <2>2, <1>3 DEF GatedProducer
    <2> QED
      BY <2>1, <2>2
         DEF Begin, Continue, NextClaim, ReadCursor, CacheHit, StartMinimum, ReadGating,
             SpinForRoom, FoundRoom, InsufficientCapacity, CasClaim, CasRetry, WriteEntry, Publish
  <1>5. ASSUME NEW q \in Producers, q # p PROVE GatedProducer(q)'
    <2>1. /\ ppc'[q] = ppc[q] /\ n'[q] = n[q] /\ current'[q] = current[q]
          /\ unread'[q] = unread[q] /\ minSequence'[q] = minSequence[q]
      BY <1>5 DEF Begin, Continue, NextClaim, ReadCursor, CacheHit, Granted, Return,
           ReturnClaimed, StartMinimum, ReadGating, SpinForRoom, FoundRoom, ForgetMinimum,
           InsufficientCapacity, CasClaim, CasRetry, WriteEntry, Publish
    <2> QED
      BY <2>1, <1>1, <1>3 DEF GatedProducer, wrapPoint
  <1>6. GatedProducer(p)'
    <2> USE <1>1, <1>2, <1>3 DEF GatedProducer, wrapPoint
    <2>0. n[p] \in Nat /\ current[p] \in Int /\ minSequence[p] \in Int
      OBVIOUS
    <2>1. ASSUME NEW k \in RequestSizes, NextClaim(p, k) PROVE GatedProducer(p)'
      BY <2>1 DEF NextClaim
    <2>2. ASSUME NEW k \in RequestSizes, NEW operation \in Operations, ReadCursor(p, operation, k)
          PROVE GatedProducer(p)'
      BY <2>2 DEF ReadCursor
    <2>3. ASSUME Granted(p), \A g \in GatingConsumers : wrapPoint(p) <= sequence[g]
          PROVE  GatedProducer(p)'
      BY <2>3 DEF Granted, Return, ReturnClaimed
    <2>4. CASE CacheHit(p)
      <3>1. wrapPoint(p) <= gatingSequenceCache
        BY <2>4, <2>0 DEF CacheHit, CacheMiss
      <3>2. \A g \in GatingConsumers : wrapPoint(p) <= sequence[g]
        BY <3>1, <2>0 DEF Gated
      <3> QED
        BY <2>3, <2>4, <3>2 DEF CacheHit
    <2>5. CASE StartMinimum(p)
      BY <2>5 DEF StartMinimum
    <2>6. ASSUME NEW h \in GatingConsumers, ReadGating(p, h) PROVE GatedProducer(p)'
      BY <2>6, <2>0 DEF ReadGating, Least
    <2>7. CASE SpinForRoom(p)
      BY <2>7 DEF SpinForRoom
    <2>8. CASE FoundRoom(p)
      <3>1. \A g \in GatingConsumers : wrapPoint(p) <= sequence[g]
        BY <2>8, <2>0 DEF FoundRoom
      <3> QED
        BY <2>3, <2>8, <3>1 DEF FoundRoom
    <2>9. CASE InsufficientCapacity(p)
      BY <2>9 DEF InsufficientCapacity, Return
    <2>10. CASE CasClaim(p)
      BY <2>10 DEF CasClaim, ReturnClaimed
    <2>11. CASE CasRetry(p)
      BY <2>11 DEF CasRetry
    <2>12. CASE WriteEntry(p)
      BY <2>12 DEF WriteEntry
    <2>13. CASE Publish(p)
      BY <2>13 DEF Publish, Return
    <2> QED
      BY <2>1, <2>2, <2>4, <2>5, <2>6, <2>7, <2>8, <2>9, <2>10, <2>11, <2>12, <2>13
         DEF Begin, Continue
  <1> QED
    BY <1>1, <1>4, <1>5, <1>6 DEF Gated, GatedProducer

\* Consumers only move away from the minima.
LEMMA ConsumerGated ==
  ASSUME TypeOK, Bounds, Gated, NEW c \in Consumers, Consume(c)
  PROVE  Gated'
  <1>1. UNCHANGED <<gatingSequenceCache, ppc, n, current, unread, minSequence>>
    BY ConsumersAdvance DEF shared, producerVars
  <1>2. \A g \in GatingConsumers : /\ sequence[g] \in Int /\ sequence'[g] \in Int
                                   /\ sequence[g] <= sequence'[g]
    BY ConsumersAdvance, TopologyTypes DEF TypeOK
  <1>3. gatingSequenceCache \in Int
    BY DEF TypeOK
  <1>4. \A p \in Producers : minSequence[p] \in Int /\ wrapPoint(p) \in Int
    BY DEF TypeOK, wrapPoint
  <1>5. \A p \in Producers : wrapPoint(p)' = wrapPoint(p)
    BY <1>1 DEF wrapPoint
  <1> QED
    BY <1>1, <1>2, <1>3, <1>4, <1>5 DEF Gated

-----------------------------------------------------------------------------
(* The order of dependent consumers                                        *)

\* What Ordered says of one consumer.
OrderedConsumer(c) ==
    /\ cpc[c] = "wait" =>
          \A d \in DependsOn[c] \ untracked[c] : available[c] <= sequence[d]
    /\ cpc[c] \in {"scan", "handle"} =>
          \A u \in Upstream[c] : available[c] <= sequence[u]
    /\ \A u \in Upstream[c] : sequence[c] <= sequence[u]

\* A consumer's step keeps it, and everyone else, behind the consumers upstream.
LEMMA ConsumerOrdered ==
  ASSUME TypeOK, Bounds, Ordered, NEW c \in Consumers, Consume(c)
  PROVE  Ordered'
  <1>1. \A d \in Consumers : /\ sequence[d] \in Int /\ available[d] \in Int
                             /\ sequence'[d] \in Int /\ sequence[d] <= sequence'[d]
    BY ConsumersAdvance DEF TypeOK
  <1>2. \A d \in Consumers : OrderedConsumer(d)
    BY DEF Ordered, OrderedConsumer
  <1>3. \A d \in Consumers : DependsOn[d] \subseteq Consumers /\ Upstream[d] \subseteq Consumers
    BY TopologyTypes
  <1>4. ASSUME NEW e \in Consumers, e # c PROVE OrderedConsumer(e)'
    <2>1. /\ cpc'[e] = cpc[e] /\ untracked'[e] = untracked[e]
          /\ available'[e] = available[e] /\ sequence'[e] = sequence[e]
      BY <1>4 DEF Consume, WaitForCursor, Waited, ReadDependent, ScanFlag, ScanEnd, OnEvent,
                  EndBatch, TypeOK
    <2> QED
      BY <1>1, <1>2, <1>3, <2>1 DEF OrderedConsumer
  <1>5. OrderedConsumer(c)'
    <2> USE DEF TypeOK
    <2>0. /\ untracked[c] \subseteq DependsOn[c]
          /\ \A u \in Upstream[c] : \E d \in DependsOn[c] : u = d \/ u \in Upstream[d]
      BY TopologyAssumption DEF Bounds, ConsumerBounds
    <2>1. CASE WaitForCursor(c)
      BY <2>0, <2>1, <1>2 DEF WaitForCursor, Waited, OrderedConsumer
    <2>2. ASSUME NEW d \in Consumers, ReadDependent(c, d) PROVE OrderedConsumer(c)'
      <3> DEFINE minimum == Least(available[c], sequence[d])
      <3>1. /\ minimum \in Int /\ minimum <= available[c] /\ minimum <= sequence[d]
            /\ sequence' = sequence
        BY <2>2, <1>1 DEF Least, ReadDependent
      <3>2. \A x \in DependsOn[c] \ (untracked[c] \ {d}) : minimum <= sequence[x]
        BY <2>2, <3>1, <1>1, <1>2, <1>3 DEF ReadDependent, OrderedConsumer
      <3> HIDE DEF minimum
      <3>3. CASE untracked[c] # {d}
        <4>1. /\ untracked'[c] = untracked[c] \ {d} /\ available'[c] = minimum
              /\ cpc' = cpc /\ cpc[c] = "wait"
          BY <2>2, <3>3 DEF ReadDependent, minimum
        <4> QED
          BY <4>1, <3>1, <3>2, <1>2 DEF OrderedConsumer
      <3>4. CASE untracked[c] = {d}
        <4>1. \A x \in DependsOn[c] : minimum <= sequence[x]
          BY <3>2, <3>4
        <4>2. \A u \in Upstream[c] : minimum <= sequence[u]
          <5> SUFFICES ASSUME NEW u \in Upstream[c] PROVE minimum <= sequence[u]
            OBVIOUS
          <5>1. PICK x \in DependsOn[c] : u = x \/ u \in Upstream[x]
            BY <2>0
          <5>2. CASE u = x
            BY <4>1, <5>2
          <5>3. CASE u \in Upstream[x]
            <6>1. sequence[x] <= sequence[u] /\ minimum <= sequence[x]
              BY <5>3, <4>1, <1>2, <1>3 DEF OrderedConsumer
            <6> QED
              BY <6>1, <3>1, <1>1, <1>3
          <5> QED
            BY <5>1, <5>2, <5>3
        <4>3. untracked'[c] = DependsOn[c]
          BY <2>2, <3>4 DEF ReadDependent
        <4>4. \/ cpc'[c] = "wait"
              \/ cpc'[c] = "scan" /\ available'[c] = minimum
          BY <2>2, <3>4 DEF ReadDependent, Waited, minimum
        <4> QED
          BY <4>2, <4>3, <4>4, <3>1, <1>2 DEF OrderedConsumer
      <3> QED
        BY <3>3, <3>4
    <2>3. CASE ScanFlag(c)
      BY <2>3, <1>2 DEF ScanFlag, OrderedConsumer
    <2>4. CASE ScanEnd(c)
      <3>1. /\ sequence' = sequence /\ untracked' = untracked /\ cpc[c] = "scan"
            /\ \A u \in Upstream[c] : available[c] <= sequence[u]
        BY <2>4, <1>2 DEF ScanEnd, OrderedConsumer
      <3>2. CASE cpc'[c] = "wait"
        <4>1. untracked[c] = DependsOn[c]
          BY <3>1 DEF Bounds, ConsumerBounds
        <4> QED
          BY <3>1, <3>2, <4>1, <1>2 DEF OrderedConsumer
      <3>3. CASE cpc'[c] = "handle"
        <4>1. available'[c] \in Int /\ available'[c] <= available[c]
          BY <2>4, <3>3 DEF ScanEnd, Bounds, ConsumerBounds, Least
        <4> QED
          BY <3>1, <3>3, <4>1, <1>1, <1>2, <1>3 DEF OrderedConsumer
      <3> QED
        BY <2>4, <3>2, <3>3 DEF ScanEnd
    <2>5. CASE OnEvent(c)
      BY <2>5, <1>2 DEF OnEvent, OrderedConsumer
    <2>6. CASE EndBatch(c)
      <3>1. /\ cpc[c] = "handle" /\ cpc'[c] = "wait"
            /\ sequence'[c] = available[c] /\ untracked' = untracked
        BY <2>6 DEF EndBatch
      <3>2. untracked[c] = DependsOn[c]
        BY <3>1 DEF Bounds, ConsumerBounds
      <3>3. \A u \in Upstream[c] : sequence'[c] <= sequence'[u]
        BY <3>1, <1>1, <1>2, <1>3 DEF OrderedConsumer
      <3> QED
        BY <3>1, <3>2, <3>3 DEF OrderedConsumer
    <2> QED
      BY <2>1, <2>2, <2>3, <2>4, <2>5, <2>6 DEF Consume
  <1> QED
    BY <1>4, <1>5 DEF Ordered, OrderedConsumer

-----------------------------------------------------------------------------
(* The theorems                                                            *)

\* Safe is inductive.
LEMMA SafeInductive == Safe /\ [Next]_vars => Safe'
  <1> SUFFICES ASSUME Safe, [Next]_vars PROVE Safe'
    OBVIOUS
  <1> USE DEF Safe
  <1>1. ASSUME NEW p \in Producers, Begin(p) \/ Continue(p) PROVE Safe'
    <2>1. UNCHANGED consumerVars
      BY <1>1, ProducersLeaveConsumers
    <2>2. Ordered'
      BY <2>1 DEF Ordered, consumerVars
    <2>3. TypeOK' /\ Bounds'
      BY <1>1, TypesInductive DEF Next
    <2> QED
      BY <1>1, <2>2, <2>3, ProducerGated
  <1>2. ASSUME NEW c \in Consumers, Consume(c) PROVE Safe'
    <2>1. TypeOK' /\ Bounds'
      BY <1>2, TypesInductive DEF Next
    <2> QED
      BY <1>2, <2>1, ConsumerGated, ConsumerOrdered
  <1>3. CASE UNCHANGED vars
    BY <1>3 DEF vars, shared, producerVars, consumerVars, TypeOK, Bounds, ProducerBounds,
                ProducerBound, ConsumerBounds, HasClaim, Owns, Gated, wrapPoint, Ordered
  <1> QED
    BY <1>1, <1>2, <1>3 DEF Next

\* The invariant gives the two properties: every consumer gates or is upstream
\* of one that does.
LEMMA SafeImplies == Safe => NoOverrun /\ DependencyOrder
  <1> SUFFICES ASSUME Safe PROVE NoOverrun /\ DependencyOrder
    OBVIOUS
  <1>1. DependencyOrder
    BY DEF Safe, Ordered, DependencyOrder
  <1>2. ASSUME NEW p \in Producers, Owns(p), NEW c \in Consumers
        PROVE  current[p] + n[p] - BufferSize <= sequence[c]
    <2>1. \A g \in GatingConsumers : wrapPoint(p) <= sequence[g]
      BY <1>2 DEF Safe, Gated, Owns
    <2>2. wrapPoint(p) \in Int
      BY DEF Safe, TypeOK, wrapPoint
    <2>3. CASE c \in GatingConsumers
      BY <2>1, <2>3 DEF wrapPoint
    <2>4. CASE c \notin GatingConsumers
      <3>1. PICK g \in GatingConsumers : c \in Upstream[g]
        BY <2>4, TopologyAssumption
      <3>2. /\ g \in Consumers /\ sequence[g] \in Int /\ sequence[c] \in Int
            /\ sequence[g] <= sequence[c] /\ wrapPoint(p) <= sequence[g]
        BY <3>1, <2>1, <1>1, TopologyTypes DEF DependencyOrder, Safe, TypeOK
      <3>3. wrapPoint(p) <= sequence[c]
        BY <3>2, <2>2
      <3> QED
        BY <3>3 DEF wrapPoint
    <2> QED
      BY <2>3, <2>4
  <1> QED
    BY <1>1, <1>2 DEF NoOverrun

\* Every variable of the sequencer and of its threads keeps its type.
THEOREM TypeCorrect == SafeSpec => []TypeOK
  <1>1. Safe => TypeOK
    BY DEF Safe
  <1> QED
    BY <1>1, InitSafe, SafeInductive, PTL DEF SafeSpec

\* No producer of next() or tryNext() fills a slot that any consumer, gating
\* or upstream, has still to handle.
THEOREM NeverOverruns == SafeSpec => []NoOverrun
  <1>1. Safe => NoOverrun
    BY SafeImplies
  <1> QED
    BY <1>1, InitSafe, SafeInductive, PTL DEF SafeSpec

\* No consumer overtakes a consumer upstream of it, whatever the barriers read.
THEOREM KeepsDependencyOrder == SafeSpec => []DependencyOrder
  <1>1. Safe => DependencyOrder
    BY SafeImplies
  <1> QED
    BY <1>1, InitSafe, SafeInductive, PTL DEF SafeSpec

-----------------------------------------------------------------------------
(* Delivery                                                                *)

\* The sequences a producer has filled and not published yet.
Filled(p) ==
    {s \in Int :
        \/ ppc[p] = "write" /\ current[p] < s /\ s < at[p]
        \/ ppc[p] = "publish" /\ at[p] <= s /\ s <= current[p] + n[p]}

\* Everything up to a consumer's sequence is published, and nothing more than
\* a lap ahead of it.
Window ==
    \A c \in Consumers :
        /\ \A s \in Nat : s <= sequence[c] => s \in published
        /\ \A s \in published : s <= sequence[c] + BufferSize

\* What a scan has passed, and what a batch consists of, is published; a scan
\* ends within the lap ahead.
Scanned ==
    \A c \in Consumers :
        /\ cpc[c] = "scan" =>
              /\ position[c] <= sequence[c] + BufferSize + 1
              /\ \A s \in Int : sequence[c] < s /\ s < position[c] => s \in published
        /\ cpc[c] = "handle" =>
              \A s \in Int : sequence[c] < s /\ s <= available[c] => s \in published

\* In the lap ahead of a consumer the slots that are filled, published or not,
\* hold their events.
EntriesHold ==
    \A c \in Consumers : \A s \in nextSequence(c)..(sequence[c] + BufferSize) :
        s \in published \/ (\E p \in Producers : s \in Filled(p)) =>
            entries[calculateIndex(s)] = s

Delivery == ClaimsPartition /\ Window /\ Scanned /\ FlagsAreTruthful /\ EntriesHold

-----------------------------------------------------------------------------
(* Claims                                                                  *)

\* What a producer has claimed it has claimed up to the cursor.
LEMMA PendingBelowCursor ==
  ASSUME Safe, NEW p \in Producers
  PROVE  Pending(p) \subseteq 0..cursor
  BY DEF Safe, TypeOK, Bounds, ProducerBounds, ProducerBound, Pending, HasClaim, Owns

\* A producer's step changes nothing of another's claim.
LEMMA OthersKeepClaims ==
  ASSUME Safe, NEW p \in Producers, Begin(p) \/ Continue(p), NEW q \in Producers \ {p}
  PROVE  /\ ppc'[q] = ppc[q] /\ call'[q] = call[q] /\ n'[q] = n[q]
         /\ current'[q] = current[q] /\ at'[q] = at[q]
         /\ Pending(q)' = Pending(q) /\ Filled(q)' = Filled(q)
  <1>1. /\ ppc'[q] = ppc[q] /\ call'[q] = call[q] /\ n'[q] = n[q]
        /\ current'[q] = current[q] /\ at'[q] = at[q]
    BY DEF Safe, TypeOK, shared, producerVars, Begin, Continue, NextClaim, ReadCursor, CacheHit,
           Granted, Return, ReturnClaimed, StartMinimum, ReadGating, SpinForRoom, FoundRoom,
           ForgetMinimum, InsufficientCapacity, CasClaim, CasRetry, WriteEntry, Publish
  <1>2. Pending(q)' = Pending(q)
    BY <1>1 DEF Pending, HasClaim, Owns
  <1>3. Filled(q)' = Filled(q)
    BY <1>1 DEF Filled
  <1> QED
    BY <1>1, <1>2, <1>3

\* What a producer's step may do to the claims: nothing, make one at the
\* cursor, or publish the next sequence of one.
KeepsClaim(p) ==
    /\ cursor' = cursor /\ published' = published
    /\ Pending(p)' = Pending(p)

MakesClaim(p) ==
    /\ cursor' \in Int /\ cursor' > cursor /\ published' = published
    /\ Pending(p) = {}
    /\ Pending(p)' = (cursor + 1)..cursor'

PublishesNext(p) ==
    /\ cursor' = cursor /\ published' = published \cup {at[p]}
    /\ at[p] \in Pending(p)
    /\ Pending(p)' = Pending(p) \ {at[p]}

LEMMA ClaimSteps ==
  ASSUME Safe, NEW p \in Producers, Begin(p) \/ Continue(p)
  PROVE  KeepsClaim(p) \/ MakesClaim(p) \/ PublishesNext(p)
  <1> USE DEF TypeOK, shared, producerVars, consumerVars
  <1>t. TypeOK
    BY DEF Safe
  <1> USE <1>t
  <1>0. /\ ppc[p] \in {"idle", "check", "minimum", "cas", "write", "publish"}
        /\ call[p] \in Operations /\ n[p] \in Int /\ current[p] \in Int /\ at[p] \in Int
        /\ cursor \in Int
        /\ ppc[p] = "cas" => call[p] = "tryNext"
        /\ ppc[p] # "idle" => n[p] >= 1
        /\ Owns(p) => current[p] < at[p] /\ at[p] <= current[p] + n[p]
    BY DEF Safe, Bounds, ProducerBounds, ProducerBound
  <1>1. ASSUME NEW k \in RequestSizes, NextClaim(p, k) PROVE MakesClaim(p)
    <2>1. /\ cursor' = cursor + k /\ published' = published /\ ppc[p] = "idle"
          /\ ppc'[p] = "check" /\ call'[p] = "next" /\ n'[p] = k /\ current'[p] = cursor
      BY <1>1 DEF NextClaim
    <2>2. Pending(p) = {} /\ Pending(p)' = (cursor + 1)..(cursor + k)
      BY <2>1 DEF Pending, HasClaim, Owns
    <2> QED
      BY <1>0, <2>1, <2>2 DEF MakesClaim
  <1>2. ASSUME NEW k \in RequestSizes, NEW operation \in Operations, ReadCursor(p, operation, k)
        PROVE KeepsClaim(p)
    <2>1. /\ UNCHANGED <<cursor, published>> /\ ppc[p] = "idle"
          /\ ppc'[p] = "check" /\ call'[p] # "next"
      BY <1>2 DEF ReadCursor
    <2> QED
      BY <2>1 DEF KeepsClaim, Pending, HasClaim, Owns
  <1>3. ASSUME Granted(p), UNCHANGED <<cursor, published>>, ppc[p] \in {"check", "minimum"}
        PROVE  KeepsClaim(p)
    <2>1. CASE call[p] = "next"
      <3>1. ppc'[p] = "write" /\ UNCHANGED <<n, current>>
        BY <1>3, <2>1 DEF Granted, ReturnClaimed
      <3> QED
        BY <1>3, <2>1, <3>1 DEF KeepsClaim, Pending, HasClaim, Owns
    <2>2. CASE call[p] # "next"
      <3>1. ppc'[p] \in {"cas", "idle"}
        BY <1>3, <2>2 DEF Granted, Return
      <3> QED
        BY <1>3, <2>2, <3>1 DEF KeepsClaim, Pending, HasClaim, Owns
    <2> QED
      BY <2>1, <2>2
  <1>4. CASE CacheHit(p)
    BY <1>3, <1>4 DEF CacheHit
  <1>5. CASE StartMinimum(p)
    BY <1>5 DEF StartMinimum, KeepsClaim, Pending, HasClaim, Owns
  <1>6. ASSUME NEW g \in GatingConsumers, ReadGating(p, g) PROVE KeepsClaim(p)
    BY <1>6 DEF ReadGating, KeepsClaim, Pending, HasClaim, Owns
  <1>7. CASE SpinForRoom(p)
    BY <1>7 DEF SpinForRoom, KeepsClaim, Pending, HasClaim, Owns
  <1>8. CASE FoundRoom(p)
    BY <1>3, <1>8 DEF FoundRoom
  <1>9. CASE InsufficientCapacity(p)
    BY <1>9 DEF InsufficientCapacity, Return, KeepsClaim, Pending, HasClaim, Owns
  <1>10. CASE CasClaim(p)
    <2>1. /\ cursor = current[p] /\ cursor' = current[p] + n[p] /\ published' = published
          /\ ppc[p] = "cas" /\ ppc'[p] = "write" /\ UNCHANGED <<n, current>>
      BY <1>10 DEF CasClaim, ReturnClaimed
    <2>2. Pending(p) = {} /\ Pending(p)' = (cursor + 1)..cursor'
      BY <2>1 DEF Pending, HasClaim, Owns
    <2> QED
      BY <1>0, <2>1, <2>2 DEF MakesClaim
  <1>11. CASE CasRetry(p)
    <2>1. /\ UNCHANGED <<cursor, published>> /\ ppc[p] = "cas" /\ ppc'[p] = "check"
          /\ call'[p] = "tryNext"
      BY <1>0, <1>11 DEF CasRetry
    <2> QED
      BY <2>1 DEF KeepsClaim, Pending, HasClaim, Owns
  <1>12. CASE WriteEntry(p)
    <2>1. UNCHANGED <<cursor, published, n, current>> /\ ppc[p] = "write"
      BY <1>12 DEF WriteEntry
    <2>2. ppc'[p] = "write" \/ (ppc'[p] = "publish" /\ at'[p] = current[p] + 1)
      BY <1>12 DEF WriteEntry
    <2> QED
      BY <2>1, <2>2 DEF KeepsClaim, Pending, HasClaim, Owns
  <1>13. CASE Publish(p)
    <2>1. /\ cursor' = cursor /\ published' = published \cup {at[p]} /\ ppc[p] = "publish"
      BY <1>13 DEF Publish
    <2>2. Pending(p) = at[p]..(current[p] + n[p]) /\ at[p] \in Pending(p)
      BY <1>0, <2>1 DEF Pending, HasClaim, Owns
    <2>3. CASE at[p] = current[p] + n[p]
      <3>1. ppc'[p] = "idle"
        BY <1>13, <2>3 DEF Publish, Return
      <3>2. Pending(p)' = {}
        BY <3>1 DEF Pending, HasClaim, Owns
      <3>3. Pending(p) \ {at[p]} = {}
        BY <1>0, <2>2, <2>3
      <3> QED
        BY <2>1, <2>2, <3>2, <3>3 DEF PublishesNext
    <2>4. CASE at[p] # current[p] + n[p]
      <3>1. ppc'[p] = "publish" /\ at'[p] = at[p] + 1 /\ UNCHANGED <<n, current>>
        BY <1>13, <2>1, <2>4 DEF Publish
      <3>2. Pending(p)' = (at[p] + 1)..(current[p] + n[p])
        BY <3>1 DEF Pending, HasClaim, Owns
      <3>3. Pending(p) \ {at[p]} = (at[p] + 1)..(current[p] + n[p])
        BY <1>0, <2>2, <2>4
      <3> QED
        BY <2>1, <2>2, <3>2, <3>3 DEF PublishesNext
    <2> QED
      BY <2>3, <2>4
  <1> QED
    BY <1>1, <1>2, <1>4, <1>5, <1>6, <1>7, <1>8, <1>9, <1>10, <1>11, <1>12, <1>13
       DEF Begin, Continue

\* A producer's step keeps the claims apart, and none is lost.
LEMMA ProducerPartition ==
  ASSUME Safe, ClaimsPartition, NEW p \in Producers, Begin(p) \/ Continue(p)
  PROVE  ClaimsPartition'
  <1>1. cursor \in Int /\ cursor >= -1 /\ published \subseteq 0..cursor
    BY DEF Safe, TypeOK, ClaimsPartition
  <1>2. \A q \in Producers : Pending(q) \subseteq 0..cursor
    BY PendingBelowCursor
  <1>3. \A q \in Producers \ {p} : Pending(q)' = Pending(q)
    BY OthersKeepClaims
  <1>4. CASE KeepsClaim(p)
    BY <1>3, <1>4 DEF KeepsClaim, ClaimsPartition
  <1>5. CASE MakesClaim(p)
    <2>1. 0..cursor' = (0..cursor) \cup ((cursor + 1)..cursor')
      BY <1>1, <1>5 DEF MakesClaim
    <2>2. (0..cursor) \cap ((cursor + 1)..cursor') = {}
      BY <1>1, <1>5 DEF MakesClaim
    <2>3. published' = published /\ Pending(p) = {} /\ Pending(p)' = (cursor + 1)..cursor'
      BY <1>5 DEF MakesClaim
    <2> DEFINE new == (cursor + 1)..cursor'
    <2> HIDE DEF new
    <2>4. UNION {Pending(q)' : q \in Producers} = new \cup UNION {Pending(q) : q \in Producers}
      BY <1>3, <2>3 DEF new
    <2>5. 0..cursor' = published' \cup UNION {Pending(q)' : q \in Producers}
      BY <2>1, <2>3, <2>4 DEF new, ClaimsPartition
    <2>6. ASSUME NEW q \in Producers
          PROVE  /\ Pending(q)' \cap published' = {}
                 /\ \A r \in Producers \ {q} : Pending(q)' \cap Pending(r)' = {}
      <3>1. /\ Pending(p)' = new
            /\ \A r \in Producers : new \cap Pending(r) = {}
            /\ new \cap published = {}
        BY <1>1, <1>2, <2>2, <2>3 DEF new
      <3> QED
        BY <1>3, <2>3, <3>1 DEF ClaimsPartition
    <2> QED
      BY <2>5, <2>6 DEF ClaimsPartition
  <1>6. CASE PublishesNext(p)
    <2> DEFINE s == at[p]
    <2>1. /\ cursor' = cursor /\ published' = published \cup {s} /\ s \in Pending(p)
          /\ Pending(p)' = Pending(p) \ {s}
      BY <1>6 DEF PublishesNext
    <2> HIDE DEF s
    <2>2. published' \cup UNION {Pending(q)' : q \in Producers}
            = published \cup UNION {Pending(q) : q \in Producers}
      BY <1>3, <2>1
    <2>3. ASSUME NEW q \in Producers
          PROVE  /\ Pending(q)' \cap published' = {}
                 /\ \A r \in Producers \ {q} : Pending(q)' \cap Pending(r)' = {}
      BY <1>3, <2>1 DEF ClaimsPartition
    <2> QED
      BY <2>1, <2>2, <2>3 DEF ClaimsPartition
  <1> QED
    BY <1>4, <1>5, <1>6, ClaimSteps

-----------------------------------------------------------------------------
(* Slots and flags in the lap ahead of a consumer                          *)

\* The availability flags of two laps in a row differ, wrapped around or not.
LEMMA NextFlagDiffers ==
  ASSUME NEW s \in Int
  PROVE  calculateAvailabilityFlag(s + BufferSize) # calculateAvailabilityFlag(s)
  <1> DEFINE q == s \div BufferSize
  <1>1. BufferSize \in Nat \ {0} /\ FlagModulus \in Nat \ {0} /\ FlagModulus > 1
    BY BufferSizeAssumption, FlagAssumption
  <1>2. q \in Int /\ (s + BufferSize) \div BufferSize = q + 1
    BY <1>1, Division, NextLap
  <1> HIDE DEF q
  <1>3. q % FlagModulus # (q + 1) % FlagModulus
    <2>1. q + 1 \in Int /\ q < q + 1 /\ (q + 1) - q < FlagModulus
      BY <1>1, <1>2
    <2> QED
      BY <1>1, <1>2, <2>1, NearRemaindersDiffer
  <1> QED
    BY <1>2, <1>3 DEF calculateAvailabilityFlag, q

\* What a producer that owns its claim has still to publish lies in the lap
\* ahead of every consumer.
LEMMA OwnedIsAhead ==
  ASSUME Safe, ClaimsPartition, Window, NEW p \in Producers, Owns(p),
         NEW s \in Pending(p), NEW c \in Consumers
  PROVE  s \in Int /\ sequence[c] < s /\ s <= sequence[c] + BufferSize
  <1>1. s \in 0..cursor /\ s \notin published
    BY PendingBelowCursor DEF ClaimsPartition
  <1>2. /\ sequence[c] \in Int /\ cursor \in Int
        /\ current[p] \in Int /\ n[p] \in Int /\ at[p] \in Int
    BY DEF Safe, TypeOK
  <1>3. s <= current[p] + n[p]
    BY <1>1, <1>2 DEF Pending, HasClaim
  <1>4. current[p] + n[p] - BufferSize <= sequence[c]
    BY SafeImplies DEF NoOverrun
  <1>5. ~(s <= sequence[c])
    BY <1>1, <1>2 DEF Window
  <1> QED
    BY <1>1, <1>2, <1>3, <1>4, <1>5

\* A producer owns what it is about to fill or to publish, and what it has filled.
LEMMA AtIsPending ==
  ASSUME Safe, NEW p \in Producers, Owns(p)
  PROVE  /\ at[p] \in Pending(p)
         /\ Filled(p) \subseteq Pending(p)
  BY DEF Safe, TypeOK, Bounds, ProducerBounds, ProducerBound, Pending, HasClaim, Owns, Filled

\* Who has filled something owns it.
LEMMA FilledIsOwned ==
  ASSUME NEW p \in Producers, NEW s \in Filled(p)
  PROVE  Owns(p)
  BY DEF Filled, Owns

\* Two sequences of the lap ahead of a consumer have different slots.
LEMMA LapSlotsDiffer ==
  ASSUME Safe, NEW c \in Consumers, NEW s \in Int, NEW t \in Int, s # t,
         sequence[c] < s, s <= sequence[c] + BufferSize,
         sequence[c] < t, t <= sequence[c] + BufferSize
  PROVE  calculateIndex(s) # calculateIndex(t)
  <1>1. sequence[c] \in Int
    BY DEF Safe, TypeOK
  <1>2. s - t < BufferSize /\ t - s < BufferSize
    BY <1>1
  <1> QED
    BY <1>2, NearSlotsDiffer

-----------------------------------------------------------------------------
(* Producers                                                               *)

\* A step of a producer that does not publish leaves the flags alone, and one
\* that does not fill leaves the entries and what is filled alone.
LEMMA OnlyPublishSetsFlags ==
  ASSUME NEW p \in Producers, Begin(p) \/ Continue(p), ~Publish(p)
  PROVE  UNCHANGED <<availableBuffer, published>>
  BY DEF shared, Begin, Continue, NextClaim, ReadCursor, CacheHit, StartMinimum, ReadGating,
         SpinForRoom, FoundRoom, InsufficientCapacity, CasClaim, CasRetry, WriteEntry

LEMMA OnlyWriteFills ==
  ASSUME Safe, NEW p \in Producers, Begin(p) \/ Continue(p), ~WriteEntry(p)
  PROVE  UNCHANGED entries /\ Filled(p)' \subseteq Filled(p)
  <1>0. TypeOK
    BY DEF Safe
  <1> USE <1>0 DEF TypeOK, shared, producerVars
  <1>1. UNCHANGED entries
    BY DEF Begin, Continue, NextClaim, ReadCursor, CacheHit, StartMinimum, ReadGating,
           SpinForRoom, FoundRoom, InsufficientCapacity, CasClaim, CasRetry, Publish
  <1> SUFFICES Filled(p)' \subseteq Filled(p)
    BY <1>1
  <1>2. CASE Publish(p)
    <2>1. ppc[p] = "publish"
      BY <1>2 DEF Publish
    <2>2. CASE at[p] = current[p] + n[p]
      BY <1>2, <2>2 DEF Publish, Return, Filled
    <2>3. CASE at[p] # current[p] + n[p]
      <3>1. ppc'[p] = "publish" /\ at'[p] = at[p] + 1 /\ UNCHANGED <<n, current>>
        BY <1>2, <2>1, <2>3 DEF Publish
      <3>2. at[p] \in Int /\ current[p] + n[p] \in Int
        OBVIOUS
      <3> QED
        BY <2>1, <3>1, <3>2 DEF Filled
    <2> QED
      BY <2>2, <2>3
  <1>3. CASE ppc'[p] \notin {"write", "publish"}
    BY <1>3 DEF Filled
  <1>4. CASE ReturnClaimed(p)
    <2>1. ppc'[p] = "write" /\ at'[p] = current[p] + 1 /\ current'[p] = current[p]
      BY <1>4 DEF ReturnClaimed
    <2>2. current[p] \in Int
      OBVIOUS
    <2> QED
      BY <2>1, <2>2 DEF Filled
  <1>5. \/ Publish(p) \/ ReturnClaimed(p)
        \/ ppc'[p] \notin {"write", "publish"}
    BY DEF Begin, Continue, NextClaim, ReadCursor, CacheHit, Granted, Return, StartMinimum,
           ReadGating, SpinForRoom, FoundRoom, InsufficientCapacity, CasClaim, CasRetry
  <1> QED
    BY <1>2, <1>3, <1>4, <1>5

\* Publishing keeps within a lap of every consumer.
LEMMA ProducerWindow ==
  ASSUME Safe, ClaimsPartition, Window, NEW p \in Producers, Begin(p) \/ Continue(p)
  PROVE  Window'
  <1>1. UNCHANGED sequence
    BY ProducersLeaveConsumers DEF consumerVars
  <1>2. CASE ~Publish(p)
    BY <1>1, <1>2, OnlyPublishSetsFlags DEF Window
  <1>3. CASE Publish(p)
    <2>1. published' = published \cup {at[p]} /\ Owns(p)
      BY <1>3 DEF Publish, Owns
    <2>2. \A c \in Consumers : at[p] <= sequence[c] + BufferSize
      BY <2>1, AtIsPending, OwnedIsAhead
    <2> QED
      BY <1>1, <2>1, <2>2 DEF Window
  <1> QED
    BY <1>2, <1>3

\* What a consumer has scanned stays published.
LEMMA ProducerScanned ==
  ASSUME Safe, Scanned, NEW p \in Producers, Begin(p) \/ Continue(p)
  PROVE  Scanned'
  <1>1. UNCHANGED consumerVars
    BY ProducersLeaveConsumers
  <1>2. published \subseteq published'
    BY OnlyPublishSetsFlags DEF Publish
  <1> QED
    BY <1>1, <1>2 DEF Scanned, consumerVars

\* Setting a flag makes the sequence available and changes nothing else that a
\* consumer may ask for.
LEMMA ProducerFlags ==
  ASSUME Safe, ClaimsPartition, Window, FlagsAreTruthful,
         NEW p \in Producers, Begin(p) \/ Continue(p)
  PROVE  FlagsAreTruthful'
  <1>1. UNCHANGED sequence
    BY ProducersLeaveConsumers DEF consumerVars
  <1>2. CASE ~Publish(p)
    BY <1>1, <1>2, OnlyPublishSetsFlags DEF FlagsAreTruthful, isAvailable, nextSequence
  <1>3. CASE Publish(p)
    <2>1. /\ published' = published \cup {at[p]} /\ Owns(p) /\ at[p] \in Int
          /\ availableBuffer' = [availableBuffer EXCEPT ![calculateIndex(at[p])]
                                    = calculateAvailabilityFlag(at[p])]
      BY <1>3 DEF Publish, Owns, setAvailable, Safe, TypeOK
    <2>2. availableBuffer \in [Slots -> Flags] /\ calculateIndex(at[p]) \in Slots
      BY <2>1, IndexType DEF Safe, TypeOK
    <2> SUFFICES ASSUME NEW c \in Consumers,
                        NEW s \in nextSequence(c)..(sequence[c] + BufferSize)
                 PROVE  isAvailable(s)' <=> s \in published'
      BY <1>1 DEF FlagsAreTruthful, nextSequence
    <2>3. sequence[c] \in Int /\ s \in Int /\ sequence[c] < s /\ s <= sequence[c] + BufferSize
      BY DEF Safe, TypeOK, nextSequence
    <2>4. isAvailable(s) <=> s \in published
      BY DEF FlagsAreTruthful
    <2>5. CASE s = at[p]
      <3>1. availableBuffer'[calculateIndex(s)] = calculateAvailabilityFlag(s)
        BY <2>1, <2>2, <2>5
      <3> QED
        BY <2>1, <2>5, <3>1 DEF isAvailable
    <2>6. CASE s # at[p]
      <3>1. sequence[c] < at[p] /\ at[p] <= sequence[c] + BufferSize
        BY <2>1, AtIsPending, OwnedIsAhead
      <3>2. calculateIndex(s) # calculateIndex(at[p])
        BY <2>1, <2>3, <2>6, <3>1, LapSlotsDiffer
      <3>3. availableBuffer'[calculateIndex(s)] = availableBuffer[calculateIndex(s)]
        BY <2>1, <2>2, <2>3, <3>2, IndexType
      <3> QED
        BY <2>1, <2>4, <2>6, <3>3 DEF isAvailable
    <2> QED
      BY <2>5, <2>6
  <1> QED
    BY <1>2, <1>3

\* Filling a slot leaves every other slot that a consumer may read alone.
LEMMA ProducerEntries ==
  ASSUME Safe, ClaimsPartition, Window, EntriesHold,
         NEW p \in Producers, Begin(p) \/ Continue(p)
  PROVE  EntriesHold'
  <1>1. UNCHANGED sequence
    BY ProducersLeaveConsumers DEF consumerVars
  <1>2. \A q \in Producers \ {p} : Filled(q)' = Filled(q)
    BY OthersKeepClaims
  <1> SUFFICES ASSUME NEW c \in Consumers,
                      NEW s \in nextSequence(c)..(sequence[c] + BufferSize),
                      s \in published' \/ \E q \in Producers : s \in Filled(q)'
               PROVE  entries'[calculateIndex(s)] = s
    BY <1>1 DEF EntriesHold, nextSequence
  <1>3. sequence[c] \in Int /\ s \in Int /\ sequence[c] < s /\ s <= sequence[c] + BufferSize
    BY DEF Safe, TypeOK, nextSequence
  <1>4. CASE WriteEntry(p)
    <2>1. /\ published' = published /\ Owns(p) /\ at[p] \in Int /\ ppc[p] = "write"
          /\ entries' = [entries EXCEPT ![calculateIndex(at[p])] = at[p]]
      BY <1>4 DEF WriteEntry, Owns, Safe, TypeOK
    <2>2. entries \in [Slots -> SequenceValue] /\ calculateIndex(at[p]) \in Slots
      BY <2>1, IndexType DEF Safe, TypeOK
    <2>3. CASE s = at[p]
      BY <2>1, <2>2, <2>3
    <2>4. CASE s # at[p]
      <3>1. sequence[c] < at[p] /\ at[p] <= sequence[c] + BufferSize
        BY <2>1, AtIsPending, OwnedIsAhead
      <3>2. calculateIndex(s) # calculateIndex(at[p])
        BY <1>3, <2>1, <2>4, <3>1, LapSlotsDiffer
      <3>3. entries'[calculateIndex(s)] = entries[calculateIndex(s)]
        BY <1>3, <2>1, <2>2, <3>2, IndexType
      <3>4. s \in Filled(p)' => s \in Filled(p)
        <4>1. /\ current[p] \in Int /\ n[p] \in Int /\ UNCHANGED <<current, n>>
              /\ current[p] < at[p] /\ at[p] <= current[p] + n[p]
          BY <1>4, <2>1 DEF WriteEntry, Safe, TypeOK, Bounds, ProducerBounds, ProducerBound
        <4>2. CASE at[p] = current[p] + n[p]
          <5>1. ppc'[p] = "publish" /\ at'[p] = current[p] + 1
            BY <1>4, <4>2 DEF WriteEntry, Safe, TypeOK
          <5> QED
            BY <1>3, <2>1, <2>4, <4>1, <4>2, <5>1 DEF Filled
        <4>3. CASE at[p] # current[p] + n[p]
          <5>1. ppc'[p] = "write" /\ at'[p] = at[p] + 1
            BY <1>4, <4>3, <2>1 DEF WriteEntry, Safe, TypeOK
          <5> QED
            BY <1>3, <2>1, <2>4, <4>1, <5>1 DEF Filled
        <4> QED
          BY <4>2, <4>3
      <3>5. s \in published \/ \E q \in Producers : s \in Filled(q)
        BY <1>2, <2>1, <3>4
      <3> QED
        BY <3>3, <3>5 DEF EntriesHold
    <2> QED
      BY <2>3, <2>4
  <1>5. CASE ~WriteEntry(p)
    <2>1. UNCHANGED entries /\ Filled(p)' \subseteq Filled(p)
      BY <1>5, OnlyWriteFills
    <2>2. s \in published \/ \E q \in Producers : s \in Filled(q)
      <3>1. CASE s \in published'
        <4>1. CASE Publish(p)
          <5>1. published' = published \cup {at[p]} /\ at[p] \in Filled(p)
            BY <4>1 DEF Publish, Filled, Safe, TypeOK, Bounds, ProducerBounds, ProducerBound, Owns
          <5> QED
            BY <3>1, <5>1
        <4>2. CASE ~Publish(p)
          BY <3>1, <4>2, OnlyPublishSetsFlags
        <4> QED
          BY <4>1, <4>2
      <3>2. CASE \E q \in Producers : s \in Filled(q)'
        BY <1>2, <2>1, <3>2
      <3> QED
        BY <3>1, <3>2
    <2> QED
      BY <2>1, <2>2 DEF EntriesHold
  <1> QED
    BY <1>4, <1>5

-----------------------------------------------------------------------------
(* Consumers                                                               *)

\* What a step of a consumer leaves alone in the others.
LEMMA OthersKeepScanning ==
  ASSUME Safe, NEW c \in Consumers, Consume(c), NEW d \in Consumers \ {c}
  PROVE  /\ cpc'[d] = cpc[d] /\ sequence'[d] = sequence[d]
         /\ available'[d] = available[d] /\ position'[d] = position[d]
  BY DEF Safe, TypeOK, Consume, WaitForCursor, Waited, ReadDependent, ScanFlag, ScanEnd, OnEvent,
         EndBatch

\* A scan stops at the end of the lap ahead: the flag there is that of the lap before.
LEMMA ScanStaysInLap ==
  ASSUME Safe, Scanned, FlagsAreTruthful, NEW c \in Consumers, ScanFlag(c)
  PROVE  /\ position[c] \in nextSequence(c)..(sequence[c] + BufferSize)
         /\ position[c] \in published
  <1>1. /\ sequence[c] \in Int /\ position[c] \in Int /\ cpc[c] = "scan"
        /\ nextSequence(c) <= position[c] /\ position[c] <= sequence[c] + BufferSize + 1
        /\ isAvailable(position[c])
    BY DEF ScanFlag, Safe, TypeOK, Bounds, ConsumerBounds, Scanned, nextSequence
  <1>2. ASSUME position[c] = sequence[c] + BufferSize + 1 PROVE FALSE
    <2> DEFINE s == sequence[c] + 1
    <2>1. s \in Int /\ sequence[c] < s /\ s < position[c] /\ s + BufferSize = position[c]
      BY <1>1, <1>2
    <2>2. s \in published
      BY <1>1, <2>1 DEF Scanned
    <2>3. s \in nextSequence(c)..(sequence[c] + BufferSize)
      BY <1>1 DEF nextSequence
    <2> HIDE DEF s
    <2>4. availableBuffer[calculateIndex(s)] = calculateAvailabilityFlag(s)
      BY <2>2, <2>3 DEF FlagsAreTruthful, isAvailable
    <2>5. availableBuffer[calculateIndex(s)] = calculateAvailabilityFlag(s + BufferSize)
      BY <1>1, <2>1, LapSharesSlot DEF isAvailable
    <2> QED
      BY <2>1, <2>4, <2>5, NextFlagDiffers
  <1>3. position[c] \in nextSequence(c)..(sequence[c] + BufferSize)
    BY <1>1, <1>2 DEF nextSequence
  <1> QED
    BY <1>1, <1>3 DEF FlagsAreTruthful

\* A consumer scans and hands on only what is published.
LEMMA ConsumerScanned ==
  ASSUME Safe, Scanned, FlagsAreTruthful, NEW c \in Consumers, Consume(c)
  PROVE  Scanned'
  <1>1. UNCHANGED published
    BY ConsumersAdvance DEF Safe, shared
  <1> SUFFICES ASSUME NEW d \in Consumers
               PROVE  /\ cpc'[d] = "scan" =>
                            /\ position'[d] <= sequence'[d] + BufferSize + 1
                            /\ \A s \in Int : sequence'[d] < s /\ s < position'[d] => s \in published
                      /\ cpc'[d] = "handle" =>
                            \A s \in Int : sequence'[d] < s /\ s <= available'[d] => s \in published
    BY <1>1 DEF Scanned
  <1>2. CASE d # c
    BY <1>2, OthersKeepScanning DEF Scanned
  <1>3. CASE d = c
    <2>0. /\ sequence[c] \in Int /\ available[c] \in Int /\ position[c] \in Int
          /\ cpc \in [Consumers -> {"wait", "scan", "handle"}]
          /\ position \in [Consumers -> 0..(MaxSequence + 1)]
          /\ available \in [Consumers -> SequenceValue]
      BY DEF Safe, TypeOK
    <2>1. ASSUME Waited(c), UNCHANGED sequence
          PROVE  /\ cpc'[c] = "scan" /\ position'[c] = sequence[c] + 1
                 /\ sequence'[c] = sequence[c]
      BY <2>0, <2>1 DEF Waited, nextSequence
    <2>2. CASE WaitForCursor(c)
      BY <1>3, <2>0, <2>1, <2>2 DEF WaitForCursor
    <2>3. ASSUME NEW e \in Consumers, ReadDependent(c, e)
          PROVE  cpc'[c] = "wait" \/ Waited(c)
      BY <2>0, <2>3 DEF ReadDependent
    <2>4. ASSUME NEW e \in Consumers, ReadDependent(c, e)
          PROVE  \/ cpc'[c] = "wait"
                 \/ /\ cpc'[c] = "scan" /\ position'[c] = sequence[c] + 1
                    /\ sequence'[c] = sequence[c]
      BY <2>1, <2>3, <2>4 DEF ReadDependent
    <2>5. CASE ScanFlag(c)
      <3>1. /\ sequence'[c] = sequence[c] /\ position'[c] = position[c] + 1
            /\ cpc[c] = "scan" /\ cpc'[c] = "scan"
        BY <2>0, <2>5 DEF ScanFlag
      <3>2. position[c] <= sequence[c] + BufferSize /\ position[c] \in published
        BY <2>0, <2>5, ScanStaysInLap
      <3>3. \A s \in Int : sequence[c] < s /\ s < position[c] => s \in published
        BY <3>1 DEF Scanned
      <3> QED
        BY <1>3, <2>0, <3>1, <3>2, <3>3
    <2>6. CASE ScanEnd(c)
      <3>1. /\ sequence'[c] = sequence[c] /\ cpc[c] = "scan"
            /\ \A s \in Int : sequence[c] < s /\ s < position[c] => s \in published
        BY <2>6 DEF ScanEnd, Scanned
      <3>2. \/ cpc'[c] = "wait"
            \/ /\ cpc'[c] = "handle"
               /\ available'[c] = Least(sequence[c] + MaxBatchSize, position[c] - 1)
        BY <2>0, <2>6 DEF ScanEnd
      <3>3. /\ Least(sequence[c] + MaxBatchSize, position[c] - 1) \in Int
            /\ Least(sequence[c] + MaxBatchSize, position[c] - 1) < position[c]
        <4>1. sequence[c] + MaxBatchSize \in Int /\ position[c] - 1 \in Int
          BY <2>0, BatchNat
        <4> QED
          BY <2>0, <4>1 DEF Least
      <3> QED
        BY <1>3, <2>0, <3>1, <3>2, <3>3
    <2>7. CASE OnEvent(c)
      <3>1. UNCHANGED <<cpc, sequence, available>> /\ cpc[c] = "handle"
        BY <2>7 DEF OnEvent
      <3> QED
        BY <1>3, <3>1 DEF Scanned
    <2>8. CASE EndBatch(c)
      BY <1>3, <2>0, <2>8 DEF EndBatch
    <2>9. CASE cpc'[c] = "wait"
      BY <1>3, <2>9
    <2>10. CASE cpc'[c] = "scan" /\ position'[c] = sequence[c] + 1 /\ sequence'[c] = sequence[c]
      BY <1>3, <2>0, <2>10
    <2> QED
      BY <2>2, <2>4, <2>5, <2>6, <2>7, <2>8, <2>9, <2>10 DEF Consume
  <1> QED
    BY <1>2, <1>3

\* What a finished batch moves a consumer's lap over is published, what it
\* moves it into is neither published nor owned, and nothing else changes.
LEMMA LapMoves ==
  ASSUME Safe, ClaimsPartition, Window, Scanned, NEW c \in Consumers, Consume(c), NEW d \in Consumers
  PROVE  /\ sequence[d] \in Int /\ sequence'[d] \in Int /\ sequence[d] <= sequence'[d]
         /\ \A s \in Int : sequence[d] < s /\ s <= sequence'[d] => s \in published
         /\ \A s \in published : s <= sequence[d] + BufferSize
         /\ \A p \in Producers : \A s \in Filled(p) : s <= sequence[d] + BufferSize
  <1>1. sequence[d] \in Int /\ sequence'[d] \in Int /\ sequence[d] <= sequence'[d]
    BY ConsumersAdvance DEF Safe, TypeOK
  <1>2. \A s \in Int : sequence[d] < s /\ s <= sequence'[d] => s \in published
    <2>1. CASE EndBatch(c) /\ d = c
      BY <2>1 DEF EndBatch, Scanned, Safe, TypeOK
    <2>2. CASE sequence'[d] = sequence[d]
      BY <1>1, <2>2
    <2> QED
      BY <2>1, <2>2, OthersKeepScanning
         DEF Consume, WaitForCursor, ReadDependent, ScanFlag, ScanEnd, OnEvent
  <1>3. \A s \in published : s <= sequence[d] + BufferSize
    BY DEF Window
  <1>4. ASSUME NEW p \in Producers, NEW s \in Filled(p) PROVE s <= sequence[d] + BufferSize
    BY FilledIsOwned, AtIsPending, OwnedIsAhead
  <1> QED
    BY <1>1, <1>2, <1>3, <1>4

\* A consumer's sequence passes published events only.
LEMMA ConsumerWindow ==
  ASSUME Safe, ClaimsPartition, Window, Scanned, NEW c \in Consumers, Consume(c)
  PROVE  Window'
  <1>1. UNCHANGED published /\ published \subseteq Int
    BY ConsumersAdvance DEF Safe, TypeOK, shared
  <1> SUFFICES ASSUME NEW d \in Consumers
               PROVE  /\ \A s \in Nat : s <= sequence'[d] => s \in published
                      /\ \A s \in published : s <= sequence'[d] + BufferSize
    BY <1>1 DEF Window
  <1>2. /\ sequence[d] \in Int /\ sequence'[d] \in Int /\ sequence[d] <= sequence'[d]
        /\ \A s \in Int : sequence[d] < s /\ s <= sequence'[d] => s \in published
        /\ \A s \in published : s <= sequence[d] + BufferSize
    BY LapMoves
  <1>3. \A s \in Nat : s <= sequence[d] => s \in published
    BY DEF Window
  <1>4. ASSUME NEW s \in Nat, s <= sequence'[d] PROVE s \in published
    BY <1>2, <1>3, <1>4
  <1>5. ASSUME NEW s \in published PROVE s <= sequence'[d] + BufferSize
    <2>1. s \in Int /\ s <= sequence[d] + BufferSize
      BY <1>1, <1>2
    <2> QED
      BY <1>2, <2>1
  <1> QED
    BY <1>4, <1>5

\* The flags tell the truth of the lap a consumer moves into: each slot there
\* still has the flag of the event that the consumer is done with.
LEMMA ConsumerFlags ==
  ASSUME Safe, ClaimsPartition, Window, Scanned, FlagsAreTruthful, NEW c \in Consumers, Consume(c)
  PROVE  FlagsAreTruthful'
  <1>1. UNCHANGED <<published, availableBuffer>>
    BY ConsumersAdvance DEF Safe, shared
  <1> SUFFICES ASSUME NEW d \in Consumers,
                      NEW s \in (sequence'[d] + 1)..(sequence'[d] + BufferSize)
               PROVE  isAvailable(s) <=> s \in published
    BY <1>1 DEF FlagsAreTruthful, nextSequence, isAvailable
  <1>2. /\ sequence[d] \in Int /\ sequence'[d] \in Int /\ sequence[d] <= sequence'[d]
        /\ \A t \in Int : sequence[d] < t /\ t <= sequence'[d] => t \in published
        /\ \A t \in published : t <= sequence[d] + BufferSize
    BY LapMoves
  <1>3. s \in Int /\ sequence'[d] < s /\ s <= sequence'[d] + BufferSize
    BY <1>2
  <1>4. CASE s <= sequence[d] + BufferSize
    BY <1>2, <1>3, <1>4 DEF FlagsAreTruthful, nextSequence
  <1>5. CASE s > sequence[d] + BufferSize
    <2> DEFINE t == s - BufferSize
    <2>1. /\ t \in Int /\ s = t + BufferSize
          /\ sequence[d] < t /\ t <= sequence'[d]
      BY <1>2, <1>3, <1>5
    <2>2. t \in published /\ s \notin published
      BY <1>2, <1>3, <1>5, <2>1
    <2>3. t <= sequence[d] + BufferSize
      BY <1>2, <2>2
    <2> HIDE DEF t
    <2>4. t \in nextSequence(d)..(sequence[d] + BufferSize)
      BY <1>2, <2>1, <2>3 DEF nextSequence
    <2>5. availableBuffer[calculateIndex(t)] = calculateAvailabilityFlag(t)
      BY <2>2, <2>4 DEF FlagsAreTruthful, isAvailable
    <2>6. availableBuffer[calculateIndex(s)] # calculateAvailabilityFlag(s)
      BY <2>1, <2>5, LapSharesSlot, NextFlagDiffers
    <2> QED
      BY <2>2, <2>6 DEF isAvailable
  <1> QED
    BY <1>2, <1>3, <1>4, <1>5

\* Nothing is filled yet in the lap a consumer moves into.
LEMMA ConsumerEntries ==
  ASSUME Safe, ClaimsPartition, Window, Scanned, EntriesHold, NEW c \in Consumers, Consume(c)
  PROVE  EntriesHold'
  <1>1. UNCHANGED <<published, entries, ppc, current, n, at>>
    BY ConsumersAdvance DEF Safe, shared, producerVars
  <1>2. \A p \in Producers : Filled(p)' = Filled(p)
    BY <1>1 DEF Filled
  <1> SUFFICES ASSUME NEW d \in Consumers,
                      NEW s \in (sequence'[d] + 1)..(sequence'[d] + BufferSize),
                      s \in published \/ \E p \in Producers : s \in Filled(p)
               PROVE  entries[calculateIndex(s)] = s
    BY <1>1, <1>2 DEF EntriesHold, nextSequence
  <1>3. /\ sequence[d] \in Int /\ sequence'[d] \in Int /\ sequence[d] <= sequence'[d]
        /\ s <= sequence[d] + BufferSize
    BY LapMoves
  <1>4. s \in nextSequence(d)..(sequence[d] + BufferSize)
    BY <1>3 DEF nextSequence
  <1> QED
    BY <1>4 DEF EntriesHold

-----------------------------------------------------------------------------
(* The theorems                                                            *)

\* A finished call that found nothing to do changes none of this.
LEMMA StutterDelivery == Delivery /\ UNCHANGED vars => Delivery'
  BY DEF vars, shared, producerVars, consumerVars, Delivery, ClaimsPartition, Pending, HasClaim, Owns,
         Window, Scanned, FlagsAreTruthful, isAvailable, nextSequence, EntriesHold, Filled

LEMMA InitDelivery == Init => Delivery
  <1> SUFFICES ASSUME Init PROVE Delivery
    OBVIOUS
  <1>1. ClaimsPartition
    BY DEF Init, ClaimsPartition, Pending, HasClaim, Owns
  <1>2. Window /\ Scanned
    BY DEF Init, Window, Scanned
  <1>3. EntriesHold
    BY DEF Init, EntriesHold, Filled
  <1>4. FlagsAreTruthful
    <2> SUFFICES ASSUME NEW c \in Consumers, NEW s \in nextSequence(c)..(sequence[c] + BufferSize)
                 PROVE  ~isAvailable(s)
      BY DEF FlagsAreTruthful, Init
    <2>1. s \in 0..(BufferSize - 1)
      BY DEF Init, nextSequence
    <2>2. calculateIndex(s) \in Slots
      BY <2>1, IndexType
    <2>3. availableBuffer[calculateIndex(s)] = calculateAvailabilityFlag(-1)
      BY <2>2 DEF Init
    <2>4. calculateAvailabilityFlag(s - BufferSize) = calculateAvailabilityFlag(-1)
      <3>1. (s - BufferSize) \div BufferSize = -1 /\ (-1) \div BufferSize = -1
        BY <2>1
      <3> QED
        BY <3>1 DEF calculateAvailabilityFlag
    <2>5. calculateAvailabilityFlag((s - BufferSize) + BufferSize)
            # calculateAvailabilityFlag(s - BufferSize)
      BY <2>1, NextFlagDiffers
    <2>6. (s - BufferSize) + BufferSize = s
      BY <2>1
    <2> QED
      BY <2>3, <2>4, <2>5, <2>6 DEF isAvailable
  <1> QED
    BY <1>1, <1>2, <1>3, <1>4 DEF Delivery

\* Delivery is inductive on top of Safe.
LEMMA DeliveryInductive == Safe /\ Delivery /\ [Next]_vars => Delivery'
  <1> SUFFICES ASSUME Safe, Delivery, [Next]_vars PROVE Delivery'
    OBVIOUS
  <1>1. ASSUME NEW p \in Producers, Begin(p) \/ Continue(p) PROVE Delivery'
    BY <1>1, ProducerPartition, ProducerWindow, ProducerScanned, ProducerFlags, ProducerEntries
       DEF Delivery
  <1>2. ASSUME NEW c \in Consumers, Consume(c) PROVE Delivery'
    <2>1. ClaimsPartition'
      <3>1. UNCHANGED <<cursor, published, ppc, call, n, current, at>>
        BY <1>2, ConsumersAdvance DEF Safe, shared, producerVars
      <3> QED
        BY <3>1 DEF Delivery, ClaimsPartition, Pending, HasClaim, Owns
    <2> QED
      BY <1>2, <2>1, ConsumerWindow, ConsumerScanned, ConsumerFlags, ConsumerEntries DEF Delivery
  <1> QED
    BY <1>1, <1>2, StutterDelivery DEF Next

\* The invariant gives that a batch is intact: it lies within the lap ahead.
LEMMA DeliveryImplies == Safe /\ Delivery => BatchIntact
  <1> SUFFICES ASSUME Safe, Delivery, NEW c \in Consumers, cpc[c] = "handle",
                      NEW s \in nextSequence(c)..available[c]
               PROVE  s \in published /\ entries[calculateIndex(s)] = s
    BY DEF BatchIntact
  <1>1. sequence[c] \in Int /\ available[c] \in Int /\ s \in Int /\ sequence[c] < s /\ s <= available[c]
    BY DEF Safe, TypeOK, nextSequence
  <1>2. s \in published
    BY <1>1 DEF Delivery, Scanned
  <1>3. s <= sequence[c] + BufferSize
    BY <1>2 DEF Delivery, Window
  <1>4. s \in nextSequence(c)..(sequence[c] + BufferSize)
    BY <1>1, <1>3 DEF nextSequence
  <1> QED
    BY <1>2, <1>4 DEF Delivery, EntriesHold

\* In every reachable state both invariants hold.
LEMMA AlwaysDelivery == SafeSpec => [](Safe /\ Delivery)
  BY InitSafe, SafeInductive, InitDelivery, DeliveryInductive, PTL DEF SafeSpec

\* However next(), with its getAndAdd, and tryNext(), with its CAS, interleave,
\* every sequence up to the cursor is published or pending at one producer.
THEOREM PartitionsClaims == SafeSpec => []ClaimsPartition
  <1>1. Delivery => ClaimsPartition
    BY DEF Delivery
  <1> QED
    BY <1>1, AlwaysDelivery, PTL

\* In the lap ahead of every consumer isAvailable() answers exactly whether the
\* sequence is published, although a flag keeps only the low bits of the lap.
THEOREM FlagsTellTheTruth == SafeSpec => []FlagsAreTruthful
  <1>1. Delivery => FlagsAreTruthful
    BY DEF Delivery
  <1> QED
    BY <1>1, AlwaysDelivery, PTL

\* Every slot of a batch that a consumer handles holds the published event of
\* its sequence, until the consumer moves its own sequence.
THEOREM BatchesStayIntact == SafeSpec => []BatchIntact
  BY AlwaysDelivery, DeliveryImplies, PTL

\* A step of the sequencer, its producers and consumers is a step of the
\* multicast buffer, or none.
LEMMA StepImplementsMulticast ==
  Safe /\ Delivery /\ [Next]_vars => [Multicast!Next]_(Multicast!vars)
  <1> SUFFICES ASSUME Safe, Delivery, [Next]_vars,
                      ~UNCHANGED <<published, sequence>>
               PROVE  Multicast!Next
    BY DEF Multicast!vars
  <1>1. ASSUME NEW p \in Producers, Begin(p) \/ Continue(p) PROVE Multicast!Next
    <2>1. UNCHANGED sequence
      BY <1>1, ProducersLeaveConsumers DEF consumerVars
    <2>2. Publish(p)
      BY <1>1, <2>1, OnlyPublishSetsFlags
    <2>3. published' = published \cup {at[p]} /\ Owns(p)
      BY <2>2 DEF Publish, Owns
    <2>4. \A c \in Consumers : at[p] \in Int /\ sequence[c] \in Int /\ at[p] <= sequence[c] + BufferSize
      BY <2>3, AtIsPending, OwnedIsAhead DEF Delivery, Safe, TypeOK
    <2>5. published' \subseteq 0..MaxSequence
      BY <2>3 DEF Safe, TypeOK
    <2>6. Multicast!Publish
      BY <2>1, <2>3, <2>4, <2>5 DEF Multicast!Publish
    <2> QED
      BY <2>6 DEF Multicast!Next
  <1>2. ASSUME NEW c \in Consumers, Consume(c) PROVE Multicast!Next
    <2>1. UNCHANGED published
      BY <1>2, ConsumersAdvance DEF Safe, shared
    <2>2. EndBatch(c)
      BY <1>2, <2>1 DEF Consume, WaitForCursor, ReadDependent, ScanFlag, ScanEnd, OnEvent
    <2> DEFINE e == available[c]
    <2>3. /\ cpc[c] = "handle" /\ e \in Int /\ sequence[c] \in Int /\ sequence[c] < e
          /\ e \in 0..MaxSequence
          /\ sequence' = [sequence EXCEPT ![c] = e]
      BY <2>2 DEF EndBatch, Safe, TypeOK, Bounds, ConsumerBounds
    <2>4. (sequence[c] + 1)..e \subseteq published
      BY <2>3 DEF Delivery, Scanned
    <2>5. \A d \in DependsOn[c] : e <= sequence[d]
      BY <2>3, TopologyAssumption DEF Safe, Ordered
    <2> HIDE DEF e
    <2>6. Multicast!Handle(c, e)
      BY <2>1, <2>3, <2>4, <2>5 DEF Multicast!Handle
    <2> QED
      BY <2>3, <2>6 DEF Multicast!Next, Multicast!HandleSome
  <1> QED
    BY <1>1, <1>2 DEF Next, vars, shared, consumerVars

\* The multi-producer sequencer with its threads implements the multicast
\* buffer: order, dependencies and slots are kept in every behaviour.
THEOREM RefinesMulticast == SafeSpec => Multicast!SafeSpec
  <1>1. Init => Multicast!Init
    BY DEF Init, Multicast!Init, Multicast!INITIAL_CURSOR_VALUE
  <1> QED
    BY <1>1, AlwaysDelivery, StepImplementsMulticast, PTL DEF SafeSpec, Multicast!SafeSpec
=============================================================================
