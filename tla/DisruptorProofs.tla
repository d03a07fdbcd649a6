---------------------------- MODULE DisruptorProofs ----------------------------
(***************************************************************************)
(* Theorems about Disruptor, for every set of handlers, every topology     *)
(* that handleEventsWith, then and and_ can build from them, every size of *)
(* the ring and any number of events.                                      *)
(*                                                                         *)
(* Only the ends of the chains gate the publisher, and only they are asked *)
(* by hasBacklog.  Registered says why that is enough: a handler that is   *)
(* not at the end of a chain has one behind it that was added later, so    *)
(* going on from handler to handler comes to an end, and Flow that nobody  *)
(* on the way is ahead of the one before.  LastIsSlowest puts them         *)
(* together, by the least-number principle.                                *)
(***************************************************************************)
EXTENDS Disruptor, SequencingProofs, FiniteSetTheorems, FunctionTheorems, SequenceTheorems

Positions == 1..Len(consumerInfos)

\* Handlers are registered once each, and one that is not at the end of a
\* chain has one behind it that was registered later.
Registered ==
    /\ consumerInfos \in Seq(Handlers)
    /\ \A i, j \in Positions : consumerInfos[i] = consumerInfos[j] => i = j
    /\ dependsOn \in [Handlers -> SUBSET Handlers]
    /\ endOfChain \subseteq Added
    /\ gating \subseteq Added
    /\ \A i \in Positions :
          \/ consumerInfos[i] \in endOfChain
          \/ \E j \in Positions : i < j /\ consumerInfos[i] \in dependsOn[consumerInfos[j]]

Exchanging == pc \in {"addGating", "removeGating"}
Shutting == pc \in {"backlog", "isRunning", "compare", "wait"}

\* The owner's loops stay within consumerInfos_, and args belong to the call.
Placed ==
    /\ at \in 1..(Len(consumerInfos) + 1)
    /\ pc = "compare" => at \in Positions
    /\ args.name = "create" => Exchanging
    /\ pc = "out" => at = 1
    /\ Exchanging => args.name = "create" /\ at = 1
    /\ Shutting => args.name = "shutdown"
    /\ args.name = "shutdown" => Shutting \/ pc = "halt"

\* The gating sequences are those at the ends of the chains, but for the
\* exchange that is under way.
Exchange ==
    /\ ~Exchanging => gating = endOfChain
    /\ Exchanging =>
          /\ ~started
          /\ args.new \subseteq Added
          /\ args.new \cap args.behind = {}
          /\ endOfChain = (gating \ args.behind) \cup args.new
    /\ pc = "addGating" =>
          \A h \in args.new : \A d \in dependsOn[h] : sequence[d] = cursor /\ d \notin args.new
    /\ pc = "removeGating" => args.new \subseteq gating

\* Processors, and the events they have taken.
Threads ==
    /\ cursor \in -1..MaxSequence
    /\ started \in BOOLEAN
    /\ halted \in BOOLEAN
    /\ seen \in -1..cursor
    /\ running \in [Handlers -> {"IDLE", "HALTED", "RUNNING"}]
    /\ sequence \in [Handlers -> -1..MaxSequence]
    /\ tpc \in [Handlers -> {"none", "created", "loop", "wait", "batch", "ended"}]
    /\ batchEnd \in [Handlers -> -1..MaxSequence]
    /\ failed \subseteq Added
    /\ pc = "start" => started
    /\ \A h \in Handlers :
          /\ tpc[h] # "none" => h \in Added /\ started
          /\ sequence[h] <= cursor

\* A batch ends where those before it are at most.
Flow ==
    /\ ChainsHold
    /\ \A h \in Handlers : tpc[h] = "batch" =>
          /\ sequence[h] < batchEnd[h]
          /\ batchEnd[h] <= cursor
          /\ \A d \in dependsOn[h] : batchEnd[h] <= sequence[d]

\* What shutdown() has found out so far.
Draining ==
    args.name = "shutdown" /\ args.ready /\ failed = {} =>
        /\ args.cursor \in -1..cursor
        /\ Shutting => \A h \in Added : running[h] = "RUNNING"
        /\ pc \in {"isRunning", "compare"} =>
              /\ args.cursor <= seen
              /\ \A i \in 1..(at - 1) :
                    consumerInfos[i] \in endOfChain => args.cursor <= sequence[consumerInfos[i]]
        /\ pc = "halt" => \A h \in Added : args.cursor <= sequence[h]

-----------------------------------------------------------------------------
(* Operators                                                               *)

\* SetToSeq lists a finite set, each element once.
LEMMA SetToSeqLists ==
  ASSUME NEW S, IsFiniteSet(S)
  PROVE  /\ Cardinality(S) \in Nat
         /\ SetToSeq(S) \in Seq(S)
         /\ Len(SetToSeq(S)) = Cardinality(S)
         /\ \A i, j \in 1..Cardinality(S) : SetToSeq(S)[i] = SetToSeq(S)[j] => i = j
         /\ \A x \in S : \E i \in 1..Cardinality(S) : SetToSeq(S)[i] = x
  <1> DEFINE D == 1..Cardinality(S)
  <1>1. Cardinality(S) \in Nat /\ ExistsBijection(D, S)
    BY FS_CardinalityType
  <1>2. \E f \in [D -> S] : IsInjective(f)
    BY <1>1, Zenon DEF ExistsBijection, Bijection, Injection
  <1>3. SetToSeq(S) \in [D -> S] /\ IsInjective(SetToSeq(S))
    BY <1>2, Zenon DEF SetToSeq
  <1>4. SetToSeq(S) \in Injection(D, S)
    BY <1>3, Zenon DEF Injection
  <1>5. Cardinality(D) = Cardinality(S)
    BY <1>1, FS_Interval
  <1>6. SetToSeq(S) \in Surjection(D, S)
    BY <1>4, <1>5, FS_Injection, Zenon
  <1>7. \A x \in S : \E i \in D : SetToSeq(S)[i] = x
    BY <1>6, Zenon DEF Surjection
  <1>8. \A i, j \in D : SetToSeq(S)[i] = SetToSeq(S)[j] => i = j
    BY <1>3, Zenon DEF IsInjective
  <1>9. SetToSeq(S) \in Seq(S) /\ Len(SetToSeq(S)) = Cardinality(S)
    BY <1>1, <1>3
  <1> QED
    BY <1>1, <1>7, <1>8, <1>9

\* consumerInfos_ has room for every handler once.
LEMMA InfosFit ==
  ASSUME Registered
  PROVE  /\ Len(consumerInfos) \in Nat
         /\ Cardinality(Handlers) \in Nat
         /\ Len(consumerInfos) <= Cardinality(Handlers)
         /\ consumerInfos \in SeqOf(Handlers, Cardinality(Handlers))
  <1>1. Len(consumerInfos) \in Nat /\ consumerInfos \in [Positions -> Handlers]
    BY DEF Registered, Positions
  <1>2. consumerInfos \in Injection(Positions, Handlers)
    BY <1>1, Fun_IsInj DEF Registered
  <1>3. Cardinality(Positions) <= Cardinality(Handlers) /\ Cardinality(Handlers) \in Nat
    BY <1>2, FS_Injection, FS_CardinalityType, HandlersAssumption, Zenon
  <1>4. Cardinality(Positions) = Len(consumerInfos)
    BY <1>1, FS_Interval DEF Positions
  <1>5. consumerInfos \in SeqOf(Handlers, Cardinality(Handlers))
    <2>1. Len(consumerInfos) \in 0..Cardinality(Handlers)
      BY <1>1, <1>3, <1>4
    <2> QED
      BY <1>1, <2>1 DEF SeqOf, Positions
  <1> QED
    BY <1>1, <1>3, <1>4, <1>5

\* Whatever bounds the sequences at the ends of the chains from below bounds
\* those of all handlers.
LEMMA LastIsSlowest ==
  ASSUME Registered, sequence \in [Handlers -> Int], NEW v \in Int,
         \A e \in endOfChain : v <= sequence[e],
         \A h \in Added : \A d \in dependsOn[h] : sequence[h] <= sequence[d]
  PROVE  \A h \in Added : v <= sequence[h]
  <1>0. /\ Len(consumerInfos) \in Nat
        /\ \A i \in Positions : consumerInfos[i] \in Handlers /\ consumerInfos[i] \in Added
        /\ \A h \in Added : \E i \in Positions : consumerInfos[i] = h
    BY DEF Registered, Positions, Added, Range
  <1> DEFINE Behind == {k \in Nat : \E i \in Positions : k = Len(consumerInfos) - i /\ sequence[consumerInfos[i]] < v}
  <1> SUFFICES ASSUME Behind # {} PROVE FALSE
    <2>1. \A i \in Positions : sequence[consumerInfos[i]] < v => Len(consumerInfos) - i \in Behind
      BY <1>0 DEF Positions
    <2>2. \A i \in Positions : v <= sequence[consumerInfos[i]]
      BY <1>0, <2>1
    <2> QED
      BY <1>0, <2>2
  <1>1. PICK k \in Behind : \A l \in Behind : k <= l
    BY LeastNumber
  <1>2. PICK i \in Positions : k = Len(consumerInfos) - i /\ sequence[consumerInfos[i]] < v
    BY <1>1
  <1>3. consumerInfos[i] \notin endOfChain
    BY <1>0, <1>2
  <1>4. PICK j \in Positions : i < j /\ consumerInfos[i] \in dependsOn[consumerInfos[j]]
    BY <1>3 DEF Registered
  <1>5. sequence[consumerInfos[j]] <= sequence[consumerInfos[i]]
    BY <1>0, <1>4
  <1>6. sequence[consumerInfos[j]] < v
    BY <1>0, <1>2, <1>5
  <1>7. Len(consumerInfos) - j \in Behind
    BY <1>0, <1>6 DEF Positions
  <1>8. k <= Len(consumerInfos) - j
    BY <1>1, <1>7
  <1> QED
    BY <1>0, <1>2, <1>4, <1>8 DEF Positions

-----------------------------------------------------------------------------
(* The topology                                                            *)

\* A call of handleEventsWith, for handlers or for processors, or of then.
Build ==
    \E new \in (SUBSET (Handlers \ Added)) \ {{}} : \E behind \in Groups :
        CreateEventProcessors(new, behind) \/ HandleEventsWithProcessors(new, behind)

\* What Create appends.
LEMMA CreateAppends ==
  ASSUME Registered, NEW new \in SUBSET (Handlers \ Added), NEW behind \in SUBSET Added,
         Create(new, behind)
  PROVE  /\ consumerInfos' \in Seq(Handlers)
         /\ Len(consumerInfos) \in Nat /\ Len(consumerInfos') \in Nat
         /\ Len(consumerInfos) <= Len(consumerInfos')
         /\ \A i \in Positions : i \in Positions' /\ consumerInfos'[i] = consumerInfos[i]
         /\ \A i \in Positions' : i \notin Positions => consumerInfos'[i] \in new
         /\ \A i, j \in Positions' : consumerInfos'[i] = consumerInfos'[j] => i = j
         /\ \A h \in new : \E i \in Positions' : i > Len(consumerInfos) /\ consumerInfos'[i] = h
         /\ Added' = Added \cup new
         /\ dependsOn' \in [Handlers -> SUBSET Handlers]
         /\ \A h \in Handlers : dependsOn'[h] = IF h \in new THEN behind ELSE dependsOn[h]
  <1> DEFINE m == Len(consumerInfos)
             k == Cardinality(new)
             order == SetToSeq(new)
  <1>1. IsFiniteSet(new)
    BY HandlersAssumption, FS_Subset
  <1>2. /\ k \in Nat /\ order \in Seq(new) /\ Len(order) = k
        /\ \A i, j \in 1..k : order[i] = order[j] => i = j
        /\ \A x \in new : \E i \in 1..k : order[i] = x
    BY <1>1, SetToSeqLists
  <1>3. order \in Seq(Handlers)
    BY <1>2
  <1>4. /\ consumerInfos' = consumerInfos \o order
        /\ consumerInfos \in Seq(Handlers) /\ m \in Nat
    BY DEF Create, Registered
  <1> HIDE DEF order
  <1>5. /\ consumerInfos' \in Seq(Handlers) /\ Len(consumerInfos') = m + k
        /\ \A i \in 1..m : consumerInfos'[i] = consumerInfos[i]
        /\ \A i \in 1..k : consumerInfos'[m + i] = order[i]
    <2>1. /\ consumerInfos' \in Seq(Handlers) /\ Len(consumerInfos') = m + k
          /\ \A i \in 1..(m + k) : consumerInfos'[i] = IF i <= m THEN consumerInfos[i] ELSE order[i - m]
      BY <1>2, <1>3, <1>4, ConcatProperties
    <2>2. \A i \in 1..m : i \in 1..(m + k) /\ i <= m
      BY <1>2, <1>4
    <2>3. \A i \in 1..k : m + i \in 1..(m + k) /\ ~(m + i <= m) /\ (m + i) - m = i
      BY <1>2, <1>4
    <2> QED
      BY <2>1, <2>2, <2>3
  <1>6. \A i \in Positions' : i \notin Positions => i - m \in 1..k /\ consumerInfos'[i] = order[i - m]
    <2> SUFFICES ASSUME NEW i \in Positions', i \notin Positions
                 PROVE  i - m \in 1..k /\ consumerInfos'[i] = order[i - m]
      OBVIOUS
    <2>1. i \in Int /\ m < i /\ i <= m + k
      BY <1>2, <1>4, <1>5 DEF Positions
    <2>2. i - m \in 1..k /\ i = m + (i - m)
      BY <1>2, <1>4, <2>1
    <2> QED
      BY <1>5, <2>2
  <1>7. \A i \in Positions : i \in Positions' /\ consumerInfos'[i] = consumerInfos[i] /\ consumerInfos[i] \in Added
    BY <1>2, <1>4, <1>5 DEF Positions, Added, Range
  <1>8. \A i \in Positions' : i \notin Positions => consumerInfos'[i] \in new
    BY <1>2, <1>6
  <1>9. \A h \in new : \E i \in Positions' : i > m /\ consumerInfos'[i] = h
    <2> SUFFICES ASSUME NEW h \in new PROVE \E i \in Positions' : i > m /\ consumerInfos'[i] = h
      OBVIOUS
    <2>1. PICK i \in 1..k : order[i] = h
      BY <1>2
    <2>2. m + i \in Positions' /\ m + i > m /\ consumerInfos'[m + i] = h
      BY <1>2, <1>4, <1>5, <2>1 DEF Positions
    <2> QED
      BY <2>2
  <1>10. \A i, j \in Positions' : consumerInfos'[i] = consumerInfos'[j] => i = j
    <2> SUFFICES ASSUME NEW i \in Positions', NEW j \in Positions', consumerInfos'[i] = consumerInfos'[j]
                 PROVE  i = j
      OBVIOUS
    <2>0. i \in Int /\ j \in Int
      BY DEF Positions
    <2>1. CASE i \in Positions /\ j \in Positions
      BY <1>7, <2>1 DEF Registered
    <2>2. CASE i \in Positions /\ j \notin Positions
      BY <1>7, <1>8, <2>2
    <2>3. CASE i \notin Positions /\ j \in Positions
      BY <1>7, <1>8, <2>3
    <2>4. CASE i \notin Positions /\ j \notin Positions
      <3>1. i - m = j - m
        BY <1>2, <1>6, <2>4
      <3> QED
        BY <1>4, <2>0, <3>1
    <2> QED
      BY <2>1, <2>2, <2>3, <2>4
  <1>11. Added' = Added \cup new
    <2>1. Added = {consumerInfos[i] : i \in Positions} /\ Added' = {consumerInfos'[i] : i \in Positions'}
      <3>1. DOMAIN consumerInfos = Positions /\ DOMAIN consumerInfos' = Positions'
        BY <1>4, <1>5, LenProperties DEF Positions
      <3> QED
        BY <3>1, Zenon DEF Added, Range
    <2>2. \A h \in Added' : h \in Added \cup new
      BY <1>7, <1>8, <2>1
    <2>3. \A h \in Added \cup new : h \in Added'
      BY <1>7, <1>9, <2>1
    <2> QED
      BY <2>2, <2>3
  <1>12. behind \subseteq Handlers
    BY <1>4 DEF Added, Range
  <1>13. /\ dependsOn' \in [Handlers -> SUBSET Handlers]
         /\ \A h \in Handlers : dependsOn'[h] = IF h \in new THEN behind ELSE dependsOn[h]
    BY <1>12 DEF Create, Registered
  <1>14. Len(consumerInfos') \in Nat /\ m <= Len(consumerInfos')
    BY <1>2, <1>4, <1>5
  <1> QED
    BY <1>4, <1>5, <1>7, <1>8, <1>9, <1>10, <1>11, <1>13, <1>14

\* Only building, and the exchange of gating sequences, touch the topology.
LEMMA TopologyStays ==
  ASSUME [Next]_vars, ~Build, ~AddGatingSequences, ~UpdateGatingSequences
  PROVE  UNCHANGED <<consumerInfos, dependsOn, endOfChain, gating>>
  <1>1. CASE Begin
    BY <1>1 DEF Begin, Build, Start, Shutdown, Halt, Join, Destroy, topology
  <1>2. CASE Continue
    BY <1>2 DEF Continue, StartNext, StartFails, ReadCursor, IsRunning, CompareSequence, WaitForBacklog,
                Drained, HaltNext, JoinNext, topology
  <1>3. CASE Publish \/ \E h \in Handlers : Process(h)
    BY <1>3 DEF Publish, Process, Run, Loop, Wait, EndBatch, FailBatch, topology
  <1>4. CASE UNCHANGED vars
    BY <1>4 DEF vars, topology
  <1> QED
    BY <1>1, <1>2, <1>3, <1>4 DEF Next

\* What the two ways to build have in common.
LEMMA BuildSteps ==
  ASSUME Build
  PROVE  \E new \in SUBSET (Handlers \ Added) : \E behind \in SUBSET Added : \E unmarked \in SUBSET behind :
            /\ new # {}
            /\ pc = "out" /\ ~started
            /\ \A b \in behind : sequence[b] = cursor
            /\ Create(new, behind) /\ Mark(new, unmarked)
            /\ pc' = "addGating"
            /\ args' = [name |-> "create", new |-> new, behind |-> unmarked]
            /\ UNCHANGED <<gating, cursor, started, halted, at, seen, processors>>
  <1>1. PICK new \in (SUBSET (Handlers \ Added)) \ {{}} : \E behind \in Groups :
           CreateEventProcessors(new, behind) \/ HandleEventsWithProcessors(new, behind)
    BY DEF Build
  <1>2. PICK behind \in Groups : CreateEventProcessors(new, behind) \/ HandleEventsWithProcessors(new, behind)
    BY <1>1
  <1>3. new \in SUBSET (Handlers \ Added) /\ new # {} /\ behind \in SUBSET Added
    BY <1>1, <1>2 DEF Groups
  <1>4. CASE CreateEventProcessors(new, behind)
    <2>1. behind \in SUBSET behind
      OBVIOUS
    <2> QED
      BY <1>3, <1>4, <2>1 DEF CreateEventProcessors
  <1>5. CASE HandleEventsWithProcessors(new, behind)
    <2>1. {} \in SUBSET behind
      OBVIOUS
    <2> QED
      BY <1>3, <1>5, <2>1 DEF HandleEventsWithProcessors
  <1> QED
    BY <1>2, <1>4, <1>5

LEMMA AddedAre ==
  ASSUME Registered
  PROVE  /\ Len(consumerInfos) \in Nat
         /\ \A i \in Positions : consumerInfos[i] \in Handlers /\ consumerInfos[i] \in Added
         /\ \A h \in Added : h \in Handlers /\ \E i \in Positions : consumerInfos[i] = h
  BY DEF Registered, Positions, Added, Range

\* A group of new handlers behind others, marked as the ends of their chains.
LEMMA CreateRegisters ==
  ASSUME Registered, NEW new \in SUBSET (Handlers \ Added), new # {}, NEW behind \in SUBSET Added,
         Create(new, behind), NEW unmarked \in SUBSET behind, Mark(new, unmarked), gating' = gating
  PROVE  Registered'
  <1>0. /\ consumerInfos' \in Seq(Handlers)
        /\ Len(consumerInfos) \in Nat
        /\ \A i \in Positions : i \in Positions' /\ consumerInfos'[i] = consumerInfos[i]
        /\ \A i \in Positions' : i \notin Positions => consumerInfos'[i] \in new
        /\ \A i, j \in Positions' : consumerInfos'[i] = consumerInfos'[j] => i = j
        /\ \A h \in new : \E i \in Positions' : i > Len(consumerInfos) /\ consumerInfos'[i] = h
        /\ Added' = Added \cup new
        /\ dependsOn' \in [Handlers -> SUBSET Handlers]
        /\ \A h \in Handlers : dependsOn'[h] = IF h \in new THEN behind ELSE dependsOn[h]
    BY CreateAppends
  <1>1. endOfChain' = (endOfChain \ unmarked) \cup new
    BY DEF Mark
  <1>2. endOfChain' \subseteq Added' /\ gating' \subseteq Added'
    BY <1>0, <1>1 DEF Registered
  <1>3. ASSUME NEW i \in Positions', consumerInfos'[i] \notin endOfChain'
        PROVE  \E j \in Positions' : i < j /\ consumerInfos'[i] \in dependsOn'[consumerInfos'[j]]
    <2>1. i \in Positions /\ consumerInfos'[i] = consumerInfos[i]
      BY <1>0, <1>1, <1>3
    <2>2. CASE consumerInfos[i] \in unmarked
      <3>1. PICK h \in new : TRUE
        OBVIOUS
      <3>2. PICK j \in Positions' : j > Len(consumerInfos) /\ consumerInfos'[j] = h
        BY <1>0, <3>1
      <3>3. i < j
        BY <1>0, <2>1, <3>2 DEF Positions
      <3>4. consumerInfos'[i] \in dependsOn'[consumerInfos'[j]]
        BY <1>0, <2>1, <2>2, <3>1, <3>2
      <3> QED
        BY <3>3, <3>4
    <2>3. CASE consumerInfos[i] \notin unmarked
      <3>1. PICK j \in Positions : i < j /\ consumerInfos[i] \in dependsOn[consumerInfos[j]]
        BY <1>1, <1>3, <2>1, <2>3 DEF Registered
      <3>2. j \in Positions' /\ consumerInfos'[j] = consumerInfos[j]
        BY <1>0, <3>1
      <3>3. consumerInfos[j] \in Handlers /\ consumerInfos[j] \notin new
        BY <3>1, AddedAre
      <3> QED
        BY <1>0, <2>1, <3>1, <3>2, <3>3
    <2> QED
      BY <2>2, <2>3
  <1> QED
    BY <1>0, <1>2, <1>3 DEF Registered

LEMMA RegisteredStep ==
  ASSUME Registered, Exchange, [Next]_vars
  PROVE  Registered'
  <1>1. CASE Build
    BY <1>1, BuildSteps, CreateRegisters
  <1>2. CASE AddGatingSequences
    <2>1. args.new \subseteq Added /\ gating' = gating \cup args.new /\ UNCHANGED <<consumerInfos, dependsOn, endOfChain>>
      BY <1>2 DEF AddGatingSequences, Exchange, Exchanging
    <2> QED
      BY <2>1 DEF Registered, Positions, Added
  <1>3. CASE UpdateGatingSequences
    <2>1. gating' \subseteq gating /\ UNCHANGED <<consumerInfos, dependsOn, endOfChain>>
      BY <1>3 DEF UpdateGatingSequences
    <2> QED
      BY <2>1 DEF Registered, Positions, Added
  <1>4. CASE UNCHANGED <<consumerInfos, dependsOn, endOfChain, gating>>
    BY <1>4 DEF Registered, Positions, Added
  <1> QED
    BY <1>1, <1>2, <1>3, <1>4, TopologyStays

\* The owner's loops.
LEMMA PlacedStep ==
  ASSUME Registered, Placed, [Next]_vars
  PROVE  Placed'
  <1>0. Len(consumerInfos) \in Nat /\ at \in Nat \ {0} /\ at <= Len(consumerInfos) + 1
    BY AddedAre DEF Placed
  <1> USE <1>0 DEF Exchanging, Shutting
  <1>1. CASE Build
    <2>1. PICK new \in SUBSET (Handlers \ Added), behind \in SUBSET Added :
             /\ Create(new, behind) /\ pc = "out" /\ pc' = "addGating" /\ UNCHANGED at
             /\ args'.name = "create"
      BY <1>1, BuildSteps
    <2>2. Len(consumerInfos') \in Nat /\ Len(consumerInfos) <= Len(consumerInfos')
      BY <2>1, CreateAppends
    <2>3. pc' = "addGating" /\ args'.name = "create" /\ at' = 1
      BY <2>1 DEF Placed
    <2> QED
      BY <2>2, <2>3 DEF Placed
  <1>2. CASE AddGatingSequences
    BY <1>2 DEF AddGatingSequences, Placed
  <1>3. CASE UpdateGatingSequences
    BY <1>3 DEF UpdateGatingSequences, Return, NoCall, Placed
  <1>c. ASSUME NEW name \in {"start", "halt", "destroy", "join"}, NEW place \in {"start", "halt", "join"},
               Call(name, place), UNCHANGED consumerInfos
        PROVE  Placed'
    <2>1. args'.name = name /\ pc' = place /\ at' = 1
      BY <1>c DEF Call
    <2> QED
      BY <1>c, <2>1 DEF Placed
  <1>4. CASE Start \/ Halt \/ Destroy \/ Join
    <2>1. UNCHANGED consumerInfos
      BY <1>4 DEF Start, Halt, Destroy, Join, topology
    <2> QED
      BY <1>c, <1>4, <2>1 DEF Start, Halt, Destroy, Join
  <1>5. CASE Shutdown
    <2>1. args'.name = "shutdown" /\ pc' = "backlog" /\ UNCHANGED <<consumerInfos, at>>
      BY <1>5 DEF Shutdown, topology
    <2> QED
      BY <2>1 DEF Placed
  <1>r. ASSUME Return, UNCHANGED consumerInfos PROVE Placed'
    BY <1>r DEF Return, NoCall, Placed
  <1> USE DEF topology, Positions, AtEnd
  <1>6. CASE StartNext \/ StartFails
    <2>1. CASE Return
      BY <1>r, <1>6, <2>1 DEF StartNext, StartFails
    <2>2. CASE ~Return
      BY <1>6, <2>2 DEF StartNext, StartFails, Placed
    <2> QED
      BY <2>1, <2>2
  <1>7. CASE ReadCursor
    BY <1>7 DEF ReadCursor, Placed
  <1>8. CASE IsRunning
    BY <1>8 DEF IsRunning, Placed
  <1>9. CASE CompareSequence
    BY <1>9 DEF CompareSequence, Placed
  <1>10. CASE WaitForBacklog
    BY <1>r, <1>10 DEF WaitForBacklog, Placed
  <1>11. CASE Drained
    BY <1>11 DEF Drained, Placed
  <1>12. CASE HaltNext
    BY <1>r, <1>12 DEF HaltNext, Placed
  <1>13. CASE JoinNext
    BY <1>r, <1>13 DEF JoinNext, Placed
  <1>14. CASE UNCHANGED <<consumerInfos, owner>>
    BY <1>14 DEF owner, Placed
  <1>15. CASE Publish \/ (\E h \in Handlers : Process(h)) \/ UNCHANGED vars
    BY <1>14, <1>15 DEF Publish, Process, Run, Loop, Wait, EndBatch, FailBatch, vars
  <1> QED
    BY <1>1, <1>2, <1>3, <1>4, <1>5, <1>6, <1>7, <1>8, <1>9, <1>10, <1>11, <1>12, <1>13, <1>15
       DEF Next, Begin, Continue, Build

-----------------------------------------------------------------------------
(* The processors                                                          *)

\* What a barrier shows is neither ahead of the cursor nor of a dependency.
LEMMA AvailableIs ==
  ASSUME Registered, Threads, NEW h \in Handlers
  PROVE  /\ Available(h) \in -1..MaxSequence
         /\ Available(h) <= cursor
         /\ \A d \in dependsOn[h] : Available(h) <= sequence[d]
  <1> DEFINE S == {cursor} \cup {sequence[d] : d \in dependsOn[h]}
  <1>1. \A d \in dependsOn[h] : d \in Handlers /\ sequence[d] \in -1..MaxSequence
    BY DEF Registered, Threads
  <1>2. cursor \in -1..MaxSequence /\ S \subseteq -1..MaxSequence
    BY <1>1 DEF Threads
  <1>3. S \in SUBSET Int /\ S # {} /\ \A x \in S : -1 <= x
    BY <1>2, MaxSequenceAssumption
  <1>4. Min(S) \in S /\ \A y \in S : Min(S) <= y
    <2> HIDE DEF S
    <2>1. -1 \in Int
      OBVIOUS
    <2> QED
      BY <1>3, <2>1, MinIsLeast
  <1> QED
    BY <1>2, <1>4 DEF Available

\* While gating sequences are exchanged nothing else happens.
LEMMA ExchangeIsAlone ==
  ASSUME Threads, Exchange, [Next]_vars, ~Build, ~AddGatingSequences, ~UpdateGatingSequences
  PROVE  UNCHANGED vars \/ (~Exchanging /\ ~Exchanging')
  <1> USE DEF Exchanging
  <1>1. CASE Begin
    BY <1>1 DEF Begin, Build, Start, Shutdown, Halt, Join, Destroy, Call
  <1>2. CASE StartNext \/ StartFails \/ HaltNext \/ JoinNext
    BY <1>2 DEF StartNext, StartFails, HaltNext, JoinNext, Return
  <1>3. CASE ReadCursor \/ IsRunning \/ CompareSequence \/ WaitForBacklog \/ Drained
    BY <1>3 DEF ReadCursor, IsRunning, CompareSequence, WaitForBacklog, Drained, Return
  <1>4. CASE Publish
    BY <1>4 DEF Publish, owner
  <1>5. ASSUME NEW h \in Handlers, Process(h) PROVE ~Exchanging /\ ~Exchanging'
    <2>1. tpc[h] # "none" /\ UNCHANGED pc
      BY <1>5 DEF Process, Run, Loop, Wait, EndBatch, FailBatch, owner
    <2>2. started
      BY <2>1 DEF Threads
    <2> QED
      BY <2>1, <2>2 DEF Exchange
  <1> QED
    BY <1>1, <1>2, <1>3, <1>4, <1>5 DEF Next, Continue

LEMMA ExchangeStep ==
  ASSUME Registered, Placed, Exchange, Threads, [Next]_vars
  PROVE  Exchange'
  <1>1. CASE Build
    <2>0. PICK new \in SUBSET (Handlers \ Added), behind \in SUBSET Added : \E unmarked \in SUBSET behind :
            /\ pc = "out" /\ ~started
            /\ \A b \in behind : sequence[b] = cursor
            /\ Create(new, behind) /\ Mark(new, unmarked)
            /\ pc' = "addGating"
            /\ args' = [name |-> "create", new |-> new, behind |-> unmarked]
            /\ UNCHANGED <<gating, cursor, started, halted, at, seen, processors>>
      BY <1>1, BuildSteps
    <2>1. PICK unmarked \in SUBSET behind :
            /\ pc = "out" /\ ~started
            /\ \A b \in behind : sequence[b] = cursor
            /\ Create(new, behind) /\ Mark(new, unmarked)
            /\ pc' = "addGating"
            /\ args' = [name |-> "create", new |-> new, behind |-> unmarked]
            /\ UNCHANGED <<gating, cursor, started, halted, at, seen, processors>>
      BY <2>0
    <2>2. /\ Added' = Added \cup new
          /\ \A h \in Handlers : dependsOn'[h] = IF h \in new THEN behind ELSE dependsOn[h]
      BY <2>1, CreateAppends
    <2>3. args'.new = new /\ args'.behind = unmarked
      BY <2>1
    <2>4. endOfChain' = (gating' \ unmarked) \cup new /\ gating = endOfChain
      BY <2>1 DEF Mark, Exchange, Exchanging
    <2>5. \A h \in new : \A d \in dependsOn'[h] : sequence'[d] = cursor' /\ d \notin new
      BY <2>1, <2>2 DEF processors
    <2> QED
      BY <2>1, <2>2, <2>3, <2>4, <2>5 DEF Exchange, Exchanging
  <1>2. CASE AddGatingSequences
    BY <1>2 DEF AddGatingSequences, Exchange, Exchanging, Added
  <1>3. CASE UpdateGatingSequences
    BY <1>3 DEF UpdateGatingSequences, Return, Exchange, Exchanging, Added
  <1>4. CASE ~Build /\ ~AddGatingSequences /\ ~UpdateGatingSequences
    <2>1. CASE UNCHANGED vars
      BY <2>1 DEF vars, topology, owner, processors, Exchange, Exchanging, Added
    <2>2. CASE ~Exchanging /\ ~Exchanging'
      BY <1>4, <2>2, TopologyStays DEF Exchange, Exchanging
    <2> QED
      BY <1>4, <2>1, <2>2, ExchangeIsAlone
  <1> QED
    BY <1>1, <1>2, <1>3, <1>4

LEMMA ThreadsStep ==
  ASSUME Registered, Placed, Exchange, Threads, Flow, [Next]_vars
  PROVE  Threads'
  <1> USE MaxSequenceAssumption
  <1>0. /\ cursor \in -1..MaxSequence
        /\ \A h \in Handlers : sequence[h] \in -1..MaxSequence /\ sequence[h] <= cursor
    BY DEF Threads
  <1>1. CASE Build
    <2>1. PICK new \in SUBSET (Handlers \ Added), behind \in SUBSET Added :
            /\ Create(new, behind) /\ pc' = "addGating"
            /\ UNCHANGED <<gating, cursor, started, halted, at, seen, processors>>
      BY <1>1, BuildSteps
    <2>2. Added' = Added \cup new
      BY <2>1, CreateAppends
    <2> QED
      BY <2>1, <2>2 DEF Threads, processors
  <1>a. ASSUME UNCHANGED consumerInfos PROVE Added' = Added
    BY <1>a DEF Added
  <1>2. CASE AddGatingSequences
    <2>1. sequence' \in [Handlers -> -1..MaxSequence] /\ \A h \in Handlers : sequence'[h] <= cursor
      BY <1>0, <1>2 DEF AddGatingSequences
    <2> QED
      BY <1>a, <1>2, <2>1 DEF AddGatingSequences, Threads
  <1>b. ASSUME UNCHANGED <<consumerInfos, cursor, processors>>, started' \in BOOLEAN, started => started',
               halted' \in BOOLEAN, seen' \in -1..cursor, pc' = "start" => started'
        PROVE  Threads'
    BY <1>a, <1>b DEF Threads, processors
  <1>3. CASE UpdateGatingSequences
    BY <1>0, <1>b, <1>3 DEF UpdateGatingSequences, Return, Threads
  <1>4. CASE ~Build /\ Begin
    <2>1. CASE Start
      BY <1>b, <2>1 DEF Start, Threads, topology
    <2>2. CASE Shutdown
      BY <1>b, <2>2 DEF Shutdown, Threads, topology
    <2>3. CASE Halt \/ Join \/ Destroy
      BY <1>b, <2>3 DEF Halt, Join, Destroy, Call, Threads, topology
    <2> QED
      BY <1>4, <2>1, <2>2, <2>3 DEF Build, Begin
  <1>5. CASE StartNext
    <2>1. CASE AtEnd
      BY <1>a, <1>5, <2>1 DEF StartNext, Return, Threads, topology
    <2>2. CASE ~AtEnd
      <3>1. consumerInfos[at] \in Handlers /\ consumerInfos[at] \in Added
        BY <2>2, AddedAre DEF AtEnd, Placed, Positions
      <3> QED
        BY <1>a, <1>5, <2>2, <3>1 DEF StartNext, Threads, topology
    <2> QED
      BY <2>1, <2>2
  <1>6. CASE StartFails \/ WaitForBacklog \/ JoinNext
    BY <1>0, <1>b, <1>6 DEF StartFails, WaitForBacklog, JoinNext, Return, Threads, topology
  <1>7. CASE ReadCursor \/ IsRunning \/ CompareSequence \/ Drained
    <2>0. CASE ReadCursor
      <3>1. cursor \in -1..cursor
        BY <1>0
      <3> QED
        BY <1>b, <2>0, <3>1 DEF ReadCursor, Threads, topology
    <2>1. CASE Drained
      BY <1>b, <2>1 DEF Drained, Threads, topology
    <2>2. CASE IsRunning \/ CompareSequence
      BY <1>b, <2>2 DEF IsRunning, CompareSequence, Threads, topology
    <2> QED
      BY <1>7, <2>0, <2>1, <2>2
  <1>8. CASE HaltNext
    BY <1>a, <1>8 DEF HaltNext, Return, Threads, topology
  <1>9. CASE Publish
    BY <1>a, <1>0, <1>9 DEF Publish, Threads, processors, topology, owner
  <1>10. ASSUME NEW h \in Handlers, Process(h) PROVE Threads'
    <2>0. h \in Added /\ started
      BY <1>10 DEF Process, Run, Loop, Wait, EndBatch, FailBatch, Threads
    <2>1. CASE Run(h) \/ Loop(h)
      BY <1>a, <2>0, <2>1 DEF Run, Loop, ThreadGoto, Threads, topology, owner
    <2>2. CASE Wait(h)
      BY <1>a, <2>0, <2>2, AvailableIs DEF Wait, ThreadGoto, Threads, topology, owner
    <2>3. CASE EndBatch(h) \/ FailBatch(h)
      <3>1. PICK s \in Int : sequence[h] < s /\ s <= batchEnd[h] /\ sequence' = [sequence EXCEPT ![h] = s]
        BY <1>0, <2>3 DEF EndBatch, FailBatch, Flow, Threads
      <3>2. s \in -1..MaxSequence /\ s <= cursor
        BY <1>0, <2>3, <3>1 DEF EndBatch, FailBatch, Flow, Threads
      <3>3. sequence' \in [Handlers -> -1..MaxSequence] /\ \A g \in Handlers : sequence'[g] <= cursor
        BY <1>0, <3>1, <3>2 DEF Threads
      <3>4. CASE EndBatch(h)
        BY <1>a, <2>0, <3>3, <3>4 DEF EndBatch, ThreadGoto, Threads, topology, owner
      <3>5. CASE FailBatch(h)
        BY <1>a, <2>0, <3>3, <3>5 DEF FailBatch, ThreadGoto, Threads, topology, owner
      <3> QED
        BY <2>3, <3>4, <3>5
    <2> QED
      BY <1>10, <2>1, <2>2, <2>3 DEF Process
  <1>11. CASE UNCHANGED vars
    BY <1>a, <1>11 DEF vars, topology, owner, processors, Threads
  <1> QED
    BY <1>1, <1>2, <1>3, <1>4, <1>5, <1>6, <1>7, <1>8, <1>9, <1>10, <1>11 DEF Next, Continue

\* What ChainsHold says of a handler.
Chained(h) ==
    /\ \A d \in dependsOn[h] : sequence[h] <= sequence[d]
    /\ cursor - sequence[h] <= BufferSize

LEMMA FlowStep ==
  ASSUME Registered, Placed, Exchange, Threads, Flow, [Next]_vars
  PROVE  Flow'
  <1>0. /\ cursor \in Int /\ sequence \in [Handlers -> -1..MaxSequence]
        /\ \A h \in Handlers : sequence[h] \in Int /\ sequence[h] <= cursor
        /\ dependsOn \in [Handlers -> SUBSET Handlers]
        /\ \A h \in Added : h \in Handlers
        /\ batchEnd \in [Handlers -> -1..MaxSequence] /\ \A h \in Handlers : batchEnd[h] \in Int
        /\ tpc \in [Handlers -> {"none", "created", "loop", "wait", "batch", "ended"}]
    BY AddedAre, MaxSequenceAssumption DEF Threads, Registered
  <1>1. CASE Build
    <2>1. PICK new \in SUBSET (Handlers \ Added), behind \in SUBSET Added :
            /\ pc = "out" /\ ~started
            /\ Create(new, behind) /\ pc' = "addGating" /\ args'.new = new
            /\ UNCHANGED <<gating, cursor, started, halted, at, seen, processors>>
      BY <1>1, BuildSteps
    <2>2. /\ Added' = Added \cup new
          /\ \A h \in Handlers : dependsOn'[h] = IF h \in new THEN behind ELSE dependsOn[h]
      BY <2>1, CreateAppends
    <2>3. \A h \in Added : Chained(h)
      BY <2>1 DEF Flow, ChainsHold, Chained
    <2>4. ASSUME NEW h \in Added', ~(pc' = "addGating" /\ h \in args'.new)
          PROVE  Chained(h)'
      <3>1. h \in Added /\ h \notin new
        BY <2>1, <2>2, <2>4
      <3> QED
        BY <1>0, <2>1, <2>2, <2>3, <3>1 DEF Chained, processors
    <2>5. \A h \in Handlers : tpc'[h] = "none"
      BY <2>1 DEF Threads, processors
    <2> QED
      BY <2>4, <2>5 DEF Flow, ChainsHold, Chained
  <1> USE BufferSizeNat, MaxSequenceAssumption
  <1>2. CASE AddGatingSequences
    <2>1. /\ UNCHANGED <<consumerInfos, dependsOn, cursor, tpc>> /\ pc' = "removeGating" /\ Added' = Added
          /\ \A h \in Handlers : sequence'[h] = IF h \in args.new THEN cursor ELSE sequence[h]
      BY <1>2 DEF AddGatingSequences, Added
    <2>2. \A h \in args.new : \A d \in dependsOn[h] : sequence[d] = cursor /\ d \notin args.new
      BY <1>2 DEF AddGatingSequences, Exchange
    <2>3. ASSUME NEW h \in Added PROVE Chained(h)'
      <3>0. h \in Handlers
        BY <1>0
      <3>1. CASE h \in args.new
        BY <1>0, <2>1, <2>2, <3>0, <3>1 DEF Chained
      <3>2. CASE h \notin args.new
        BY <1>0, <2>1, <3>0, <3>2 DEF Chained, Flow, ChainsHold
      <3> QED
        BY <3>1, <3>2
    <2>4. \A h \in Handlers : tpc'[h] = "none"
      BY <1>2, <2>1 DEF AddGatingSequences, Exchange, Exchanging, Threads
    <2> QED
      BY <2>1, <2>3, <2>4 DEF Flow, ChainsHold, Chained
  <1>3. CASE UpdateGatingSequences
    BY <1>3 DEF UpdateGatingSequences, Return, Flow, ChainsHold, Added, processors
  <1>4. CASE ~Build /\ ~AddGatingSequences /\ ~UpdateGatingSequences
    <2>1. CASE UNCHANGED vars
      BY <2>1 DEF vars, topology, owner, processors, Flow, ChainsHold, Added
    <2> SUFFICES ASSUME ~Exchanging, ~Exchanging' PROVE Flow'
      BY <1>4, <2>1, ExchangeIsAlone
    <2>2. UNCHANGED <<consumerInfos, dependsOn, endOfChain, gating>> /\ Added' = Added
      BY <1>4, TopologyStays DEF Added
    <2>3. \A h \in Added : Chained(h)
      BY DEF Flow, ChainsHold, Exchanging, Chained
    <2>4. ASSUME \A h \in Added : Chained(h)',
                 \A h \in Handlers : tpc'[h] = "batch" =>
                     /\ sequence'[h] < batchEnd'[h]
                     /\ batchEnd'[h] <= cursor'
                     /\ \A d \in dependsOn[h] : batchEnd'[h] <= sequence'[d]
          PROVE  Flow'
      BY <2>2, <2>4 DEF Flow, ChainsHold, Chained
    <2>5. CASE UNCHANGED <<cursor, sequence>> /\ (\A h \in Handlers : tpc'[h] = "batch" => tpc[h] = "batch")
               /\ UNCHANGED batchEnd
      <3>1. \A h \in Added : Chained(h)'
        BY <2>2, <2>3, <2>5 DEF Chained
      <3> QED
        BY <2>4, <2>5, <3>1 DEF Flow
    <2>6. CASE Begin \/ Continue
      <3>1. UNCHANGED <<cursor, sequence, batchEnd>>
        BY <1>4, <2>6 DEF Begin, Build, Continue, Start, Shutdown, Halt, Join, Destroy, StartNext, StartFails,
              ReadCursor, IsRunning, CompareSequence, WaitForBacklog, Drained, HaltNext, JoinNext, processors
      <3>2. CASE ~StartNext
        <4>1. UNCHANGED tpc
          BY <1>4, <2>6, <3>2 DEF Begin, Build, Continue, Start, Shutdown, Halt, Join, Destroy, StartFails,
              ReadCursor, IsRunning, CompareSequence, WaitForBacklog, Drained, HaltNext, JoinNext, processors
        <4> QED
          BY <2>5, <3>1, <4>1
      <3>3. CASE StartNext
        <4>1. UNCHANGED tpc \/ tpc' = [tpc EXCEPT ![consumerInfos[at]] = "created"]
          BY <3>3 DEF StartNext
        <4> QED
          BY <1>0, <2>5, <3>1, <4>1
      <3> QED
        BY <3>2, <3>3
    <2>7. CASE Publish
      <3>1. /\ cursor' = cursor + 1 /\ UNCHANGED <<sequence, tpc, batchEnd>>
            /\ \A h \in gating : cursor + 1 - BufferSize <= sequence[h]
        BY <2>7 DEF Publish, processors
      <3>2. gating = endOfChain
        BY DEF Exchange
      <3>3. sequence \in [Handlers -> Int] /\ cursor + 1 - BufferSize \in Int
        BY <1>0
      <3>4. \A h \in Added : cursor + 1 - BufferSize <= sequence[h]
        BY <2>3, <3>1, <3>2, <3>3, LastIsSlowest DEF Chained
      <3>5. \A h \in Added : Chained(h)'
        BY <1>0, <2>2, <2>3, <3>1, <3>4 DEF Chained
      <3> QED
        BY <1>0, <2>4, <3>1, <3>5 DEF Flow
    <2>8. ASSUME NEW h \in Handlers, Process(h) PROVE Flow'
      <3>0. h \in Added /\ Chained(h)
        BY <2>3, <2>8 DEF Process, Run, Loop, Wait, EndBatch, FailBatch, Threads
      <3>1. CASE Run(h) \/ Loop(h)
        BY <1>0, <2>5, <3>1 DEF Run, Loop, ThreadGoto
      <3>2. CASE Wait(h)
        <4>1. UNCHANGED <<cursor, sequence>>
          BY <3>2 DEF Wait
        <4>2. \A g \in Added : Chained(g)'
          BY <2>2, <2>3, <4>1 DEF Chained
        <4>3. CASE Available(h) > sequence[h]
          <5>1. tpc' = [tpc EXCEPT ![h] = "batch"] /\ batchEnd' = [batchEnd EXCEPT ![h] = Available(h)]
            BY <3>2, <4>3 DEF Wait, ThreadGoto
          <5>2. /\ Available(h) \in Int /\ Available(h) <= cursor
                /\ \A d \in dependsOn[h] : Available(h) <= sequence[d]
            BY AvailableIs
          <5>3. sequence[h] < batchEnd'[h] /\ batchEnd'[h] <= cursor
                /\ \A d \in dependsOn[h] : batchEnd'[h] <= sequence[d]
            BY <1>0, <4>3, <5>1, <5>2
          <5>4. \A g \in Handlers \ {h} : tpc'[g] = tpc[g] /\ batchEnd'[g] = batchEnd[g]
            BY <1>0, <5>1
          <5> QED
            BY <2>4, <4>1, <4>2, <5>3, <5>4 DEF Flow
        <4>4. CASE ~(Available(h) > sequence[h])
          BY <1>0, <2>5, <3>2, <4>4 DEF Wait, ThreadGoto
        <4> QED
          BY <4>3, <4>4
      <3>3. CASE EndBatch(h) \/ FailBatch(h)
        <4>1. PICK s \in Int : sequence[h] < s /\ s <= batchEnd[h] /\ sequence' = [sequence EXCEPT ![h] = s]
          BY <1>0, <3>3 DEF EndBatch, FailBatch, Flow
        <4>2. /\ s <= cursor /\ (\A d \in dependsOn[h] : s <= sequence[d])
              /\ UNCHANGED cursor
          BY <1>0, <3>3, <4>1 DEF EndBatch, FailBatch, Flow
        <4>3. \A g \in Handlers : sequence'[g] \in Int /\ sequence[g] <= sequence'[g] /\ (g # h => sequence'[g] = sequence[g])
          BY <1>0, <4>1
        <4>4. ASSUME NEW g \in Added PROVE Chained(g)'
          <5>1. CASE g = h
            BY <1>0, <2>2, <3>0, <4>1, <4>2, <4>3, <5>1 DEF Chained
          <5>2. CASE g # h
            BY <1>0, <2>2, <2>3, <4>2, <4>3, <5>2 DEF Chained
          <5> QED
            BY <5>1, <5>2
        <4>5. \A g \in Handlers \ {h} : tpc'[g] = tpc[g] /\ batchEnd'[g] = batchEnd[g]
          BY <1>0, <3>3 DEF EndBatch, FailBatch, ThreadGoto
        <4>6. tpc'[h] = "loop"
          BY <1>0, <3>3 DEF EndBatch, FailBatch, ThreadGoto
        <4>7. ASSUME NEW g \in Handlers, tpc'[g] = "batch"
              PROVE  /\ sequence'[g] < batchEnd'[g]
                     /\ batchEnd'[g] <= cursor'
                     /\ \A d \in dependsOn[g] : batchEnd'[g] <= sequence'[d]
          <5>1. g # h
            BY <4>6, <4>7
          <5>2. /\ sequence[g] < batchEnd[g] /\ batchEnd[g] <= cursor
                /\ \A d \in dependsOn[g] : batchEnd[g] <= sequence[d]
            BY <4>5, <4>7, <5>1 DEF Flow
          <5> QED
            BY <1>0, <4>2, <4>3, <4>5, <5>1, <5>2
        <4> QED
          BY <2>4, <4>4, <4>7
      <3> QED
        BY <2>8, <3>1, <3>2, <3>3 DEF Process
    <2> QED
      BY <2>1, <2>6, <2>7, <2>8 DEF Next
  <1> QED
    BY <1>1, <1>2, <1>3, <1>4

-----------------------------------------------------------------------------
(* Shutting down                                                           *)

LEMMA DrainingStep ==
  ASSUME Registered, Placed, Exchange, Threads, Flow, Draining, [Next]_vars
  PROVE  Draining'
  <1> USE MaxSequenceAssumption
  <1>0. /\ cursor \in Int /\ seen \in Int /\ Len(consumerInfos) \in Nat
        /\ \A h \in Handlers : sequence[h] \in Int
        /\ \A i \in Positions : consumerInfos[i] \in Handlers /\ consumerInfos[i] \in Added
        /\ \A h \in Added : h \in Handlers
        /\ at \in Nat \ {0} /\ at <= Len(consumerInfos) + 1
        /\ failed \subseteq Handlers
    BY AddedAre DEF Threads, Placed
  <1> DEFINE Ready == args.name = "shutdown" /\ args.ready /\ failed = {}
  <1>1. ASSUME args'.name # "shutdown" PROVE Draining'
    BY <1>1 DEF Draining
  <1>2. CASE Build
    BY <1>1, <1>2, BuildSteps
  <1>3. CASE AddGatingSequences
    BY <1>1, <1>3 DEF AddGatingSequences, Placed, Exchanging
  <1>4. CASE UpdateGatingSequences \/ StartFails
    BY <1>1, <1>4 DEF UpdateGatingSequences, StartFails, Return, NoCall
  <1>5. CASE Start \/ Halt \/ Join \/ Destroy
    BY <1>1, <1>5 DEF Start, Halt, Join, Destroy, Call
  <1>6. CASE StartNext \/ JoinNext
    <2>1. args.name # "shutdown"
      BY <1>6 DEF StartNext, JoinNext, Placed, Shutting
    <2> QED
      BY <1>1, <1>6, <2>1 DEF StartNext, JoinNext, Return, NoCall
  <1>7. CASE Shutdown
    <2>1. /\ args'.name = "shutdown" /\ args'.cursor = cursor /\ pc' = "backlog"
          /\ args'.ready <=> \A h \in Added : running[h] = "RUNNING"
      BY <1>7 DEF Shutdown
    <2>2. UNCHANGED <<cursor, consumerInfos, running>> /\ Added' = Added
      BY <1>7 DEF Shutdown, topology, processors, Added
    <2>3. cursor \in -1..cursor
      BY DEF Threads
    <2> QED
      BY <2>1, <2>2, <2>3 DEF Draining, Shutting
  <1>a. ASSUME UNCHANGED <<args, consumerInfos, endOfChain, failed>>, args.name = "shutdown", args.ready, failed = {},
               cursor' \in Int, cursor <= cursor',
               Shutting' => Shutting /\ UNCHANGED running,
               pc' \in {"isRunning", "compare"} =>
                  /\ args.cursor <= seen'
                  /\ \A i \in 1..(at' - 1) :
                        consumerInfos[i] \in endOfChain => args.cursor <= sequence'[consumerInfos[i]],
               pc' = "halt" => \A h \in Added : args.cursor <= sequence'[h]
        PROVE  Draining'
    <2>1. Added' = Added
      BY <1>a DEF Added
    <2>2. args.cursor \in -1..cursor'
      BY <1>0, <1>a DEF Draining
    <2>3. Shutting' => \A h \in Added : running'[h] = "RUNNING"
      BY <1>a DEF Draining
    <2> QED
      BY <1>a, <2>1, <2>2, <2>3 DEF Draining
  <1>b. ASSUME ~Ready, args' = args, failed \subseteq failed' PROVE Draining'
    BY <1>b DEF Draining
  <1>d. ASSUME Ready, Shutting
        PROVE  args.cursor \in -1..cursor /\ \A h \in Added : running[h] = "RUNNING"
    BY <1>d DEF Draining
  <1>8. CASE ReadCursor
    <2>0. CASE ~Ready
      BY <1>b, <1>8, <2>0 DEF ReadCursor, processors
    <2>1. CASE Ready
      <3>1. args.cursor <= cursor /\ Shutting
        BY <1>d, <1>8, <2>1 DEF ReadCursor, Shutting
      <3> QED
        BY <1>0, <1>a, <1>8, <2>1, <3>1 DEF ReadCursor, topology, processors
    <2> QED
      BY <2>0, <2>1
  <1>9. CASE IsRunning \/ CompareSequence
    <2>0. UNCHANGED <<args, consumerInfos, endOfChain, failed, cursor, running, sequence, seen>>
      BY <1>9 DEF IsRunning, CompareSequence, topology, processors
    <2>1. CASE ~Ready
      BY <1>b, <2>0, <2>1
    <2>2. CASE Ready
      <3>0. pc \in {"isRunning", "compare"} /\ Shutting /\ at \in Positions
        BY <1>0, <1>9 DEF IsRunning, CompareSequence, Shutting, AtEnd, Placed, Positions
      <3>1. /\ args.cursor \in Int /\ args.cursor <= seen
            /\ \A i \in 1..(at - 1) : consumerInfos[i] \in endOfChain => args.cursor <= sequence[consumerInfos[i]]
        BY <2>2, <3>0 DEF Draining
      <3>2. CASE at' = at
        BY <1>0, <1>a, <1>9, <2>0, <2>2, <3>0, <3>1, <3>2 DEF IsRunning, CompareSequence
      <3>3. CASE at' = at + 1
        <4>1. consumerInfos[at] \in endOfChain => args.cursor <= sequence[consumerInfos[at]]
          <5>1. CASE IsRunning
            <6>1. running[consumerInfos[at]] = "RUNNING"
              BY <1>0, <1>d, <2>2, <3>0
            <6>2. consumerInfos[at] \notin endOfChain
              BY <1>0, <3>3, <5>1, <6>1 DEF IsRunning
            <6> QED
              BY <6>2
          <5>2. CASE CompareSequence
            <6>1. ~(seen > sequence[consumerInfos[at]])
              BY <1>0, <3>3, <5>2 DEF CompareSequence
            <6> QED
              BY <1>0, <3>0, <3>1, <6>1
          <5> QED
            BY <1>9, <5>1, <5>2
        <4>2. \A i \in 1..(at' - 1) : i \in 1..(at - 1) \/ i = at
          BY <1>0, <3>3
        <4>3. \A i \in 1..(at' - 1) : consumerInfos[i] \in endOfChain => args.cursor <= sequence[consumerInfos[i]]
          BY <3>1, <4>1, <4>2
        <4>4. pc' # "halt"
          BY <1>9, <3>0 DEF IsRunning, CompareSequence
        <4> QED
          BY <1>0, <1>a, <2>0, <2>2, <3>0, <3>1, <4>3, <4>4
      <3> QED
        BY <1>9, <3>2, <3>3 DEF IsRunning, CompareSequence
    <2> QED
      BY <2>1, <2>2
  <1>10. CASE WaitForBacklog
    <2>1. CASE Return
      BY <1>1, <2>1 DEF Return, NoCall
    <2>2. CASE ~Return
      <3>1. /\ UNCHANGED <<args, consumerInfos, endOfChain, failed, cursor, running, sequence>>
            /\ pc = "wait" /\ pc' = "backlog"
        BY <1>10, <2>2 DEF WaitForBacklog, topology, processors
      <3> QED
        BY <1>0, <1>a, <1>b, <3>1 DEF Shutting
    <2> QED
      BY <2>1, <2>2
  <1>11. CASE Drained
    <2>0. /\ UNCHANGED <<args, consumerInfos, endOfChain, failed, cursor, running, sequence>>
          /\ pc = "isRunning" /\ pc' = "halt" /\ AtEnd
      BY <1>11 DEF Drained, topology, processors
    <2>1. CASE ~Ready
      BY <1>b, <2>0, <2>1
    <2>2. CASE Ready
      <3>1. /\ args.cursor \in Int
            /\ \A i \in 1..(at - 1) : consumerInfos[i] \in endOfChain => args.cursor <= sequence[consumerInfos[i]]
        BY <1>d, <2>0, <2>2 DEF Draining, Shutting
      <3>2. \A i \in Positions : i \in 1..(at - 1)
        BY <1>0, <2>0 DEF AtEnd, Positions
      <3>3. \A e \in endOfChain : \E i \in Positions : consumerInfos[i] = e
        BY AddedAre DEF Registered
      <3>4. \A e \in endOfChain : args.cursor <= sequence[e]
        BY <3>1, <3>2, <3>3
      <3>5. \A h \in Added : \A d \in dependsOn[h] : sequence[h] <= sequence[d]
        BY <2>0 DEF Flow, ChainsHold
      <3>6. sequence \in [Handlers -> Int]
        BY DEF Threads
      <3>7. \A h \in Added : args.cursor <= sequence[h]
        BY <3>1, <3>4, <3>5, <3>6, LastIsSlowest
      <3> QED
        BY <1>0, <1>a, <2>0, <2>2, <3>7 DEF Shutting
    <2> QED
      BY <2>1, <2>2
  <1>12. CASE HaltNext
    <2>0. UNCHANGED <<consumerInfos, endOfChain, failed, cursor, sequence>> /\ pc = "halt"
      BY <1>12 DEF HaltNext, topology
    <2>1. CASE Return
      BY <1>1, <2>1 DEF Return, NoCall
    <2>2. CASE ~Return /\ ~Ready
      <3>1. args' = args
        BY <1>12, <2>2 DEF HaltNext
      <3> QED
        BY <1>b, <2>0, <2>2, <3>1
    <2>3. CASE ~Return /\ Ready
      <3>1. args' = args /\ pc' = "halt"
        BY <1>12, <2>3 DEF HaltNext
      <3>2. \A h \in Added : args.cursor <= sequence[h]
        BY <2>0, <2>3 DEF Draining
      <3> QED
        BY <1>0, <1>a, <2>0, <2>3, <3>1, <3>2 DEF Shutting
    <2> QED
      BY <2>1, <2>2, <2>3
  <1>c. ASSUME UNCHANGED <<args, consumerInfos, endOfChain, pc, at, seen>>, Ready /\ failed' = {} => UNCHANGED failed,
               failed \subseteq failed',
               cursor' \in Int, cursor <= cursor',
               Ready /\ Shutting /\ failed' = {} => UNCHANGED running,
               \A h \in Handlers : sequence'[h] \in Int /\ sequence[h] <= sequence'[h]
        PROVE  Draining'
    <2>1. CASE ~Ready
      BY <1>b, <1>c, <2>1
    <2>2. CASE Ready /\ failed' # {}
      BY <1>c, <2>2 DEF Draining
    <2>3. CASE Ready /\ failed' = {}
      <3>0. args.cursor \in Int /\ (Shutting' <=> Shutting)
        BY <1>c, <2>3 DEF Draining, Shutting
      <3>1. ASSUME pc \in {"isRunning", "compare"}
            PROVE  /\ args.cursor <= seen
                   /\ \A i \in 1..(at - 1) : consumerInfos[i] \in endOfChain => args.cursor <= sequence'[consumerInfos[i]]
        <4>1. \A i \in 1..(at - 1) : i \in Positions
          BY <1>0 DEF Positions
        <4> QED
          BY <1>0, <1>c, <2>3, <3>0, <3>1, <4>1 DEF Draining
      <3>2. pc = "halt" => \A h \in Added : args.cursor <= sequence'[h]
        BY <1>0, <1>c, <2>3, <3>0 DEF Draining
      <3> QED
        BY <1>a, <1>c, <2>3, <3>0, <3>1, <3>2
    <2> QED
      BY <2>1, <2>2, <2>3
  <1>13. CASE Publish
    BY <1>0, <1>c, <1>13 DEF Publish, topology, owner, processors
  <1>14. ASSUME NEW h \in Handlers, Process(h) PROVE Draining'
    <2>0. /\ UNCHANGED <<args, consumerInfos, endOfChain, pc, at, seen, cursor>>
          /\ h \in Added
      BY <1>14 DEF Process, Run, Loop, Wait, EndBatch, FailBatch, topology, owner, Threads
    <2>1. \A g \in Handlers : sequence'[g] \in Int /\ sequence[g] <= sequence'[g]
      <3>1. CASE Run(h) \/ Loop(h) \/ Wait(h)
        BY <1>0, <3>1 DEF Run, Loop, Wait
      <3>2. CASE EndBatch(h) \/ FailBatch(h)
        <4>1. PICK s \in Int : sequence[h] < s /\ sequence' = [sequence EXCEPT ![h] = s]
          BY <3>2 DEF EndBatch, FailBatch, Flow, Threads
        <4> QED
          BY <1>0, <4>1 DEF Threads
      <3> QED
        BY <1>14, <3>1, <3>2 DEF Process
    <2>2. failed \subseteq failed' /\ (failed' = {} => failed' = failed)
      BY <1>14 DEF Process, Run, Loop, Wait, EndBatch, FailBatch
    <2>3. ASSUME Ready, Shutting, failed' = {} PROVE UNCHANGED running
      <3>1. running[h] = "RUNNING"
        BY <1>d, <2>0, <2>3
      <3>2. ~FailBatch(h)
        BY <2>3 DEF FailBatch
      <3> QED
        BY <1>14, <3>1, <3>2 DEF Process, Run, Loop, Wait, EndBatch
    <2> QED
      BY <1>0, <1>c, <2>0, <2>1, <2>2, <2>3
  <1>15. CASE UNCHANGED vars
    BY <1>0, <1>c, <1>15 DEF vars, topology, owner, processors
  <1> QED
    BY <1>2, <1>3, <1>4, <1>5, <1>6, <1>7, <1>8, <1>9, <1>10, <1>11, <1>12, <1>13, <1>14, <1>15
       DEF Next, Begin, Continue, Build

-----------------------------------------------------------------------------

Inv == Registered /\ Placed /\ Exchange /\ Threads /\ Flow /\ Draining

LEMMA InitInv == Init => Inv
  <1> SUFFICES ASSUME Init PROVE Inv
    OBVIOUS
  <1> USE MaxSequenceAssumption DEF Init
  <1>1. consumerInfos \in Seq(Handlers) /\ Len(consumerInfos) = 0 /\ Positions = {} /\ Added = {}
    BY DEF Positions, Added, Range
  <1>2. args.name = "none"
    BY DEF NoCall
  <1>3. Registered
    BY <1>1 DEF Registered
  <1>4. Placed
    BY <1>1, <1>2 DEF Placed, Exchanging, Shutting
  <1>5. Exchange
    BY DEF Exchange, Exchanging
  <1>6. Threads
    <2>1. /\ cursor \in -1..MaxSequence /\ seen \in -1..cursor
          /\ sequence \in [Handlers -> -1..MaxSequence] /\ batchEnd \in [Handlers -> -1..MaxSequence]
          /\ \A h \in Handlers : tpc[h] = "none" /\ sequence[h] <= cursor
      OBVIOUS
    <2>2. /\ started \in BOOLEAN /\ halted \in BOOLEAN /\ pc # "start"
          /\ running \in [Handlers -> {"IDLE", "HALTED", "RUNNING"}]
          /\ tpc \in [Handlers -> {"none", "created", "loop", "wait", "batch", "ended"}]
          /\ failed \subseteq Added
      OBVIOUS
    <2> QED
      BY <2>1, <2>2 DEF Threads
  <1>7. Flow
    BY <1>1 DEF Flow, ChainsHold
  <1>8. Draining
    BY <1>2 DEF Draining
  <1> QED
    BY <1>3, <1>4, <1>5, <1>6, <1>7, <1>8 DEF Inv

LEMMA InvInductive == Inv /\ [Next]_vars => Inv'
  BY RegisteredStep, PlacedStep, ExchangeStep, ThreadsStep, FlowStep, DrainingStep DEF Inv

LEMMA InvHolds == SafeSpec => []Inv
  BY InitInv, InvInductive, PTL DEF SafeSpec

\* Every variable keeps its type; in particular no handler is registered twice
\* (ConsumerRepository::add), and the owner's loops stay within consumerInfos_.
THEOREM TypeCorrect == SafeSpec => []TypeOK
  <1>1. Inv => TypeOK
    <2> SUFFICES ASSUME Inv PROVE TypeOK
      OBVIOUS
    <2>1. /\ consumerInfos \in SeqOf(Handlers, Cardinality(Handlers))
          /\ Len(consumerInfos) \in Nat /\ Cardinality(Handlers) \in Nat
          /\ Len(consumerInfos) <= Cardinality(Handlers)
      BY InfosFit DEF Inv
    <2>2. at \in 1..(Cardinality(Handlers) + 1)
      BY <2>1 DEF Inv, Placed
    <2> QED
      BY <2>1, <2>2 DEF Inv, Registered, Threads, TypeOK
  <1> QED
    BY <1>1, InvHolds, PTL

\* A handler never gets ahead of those it was added behind, and the publisher
\* never gets more than a lap ahead of any handler of any topology, though
\* only the ends of the chains gate it and updateGatingSequencesForNextInChain
\* exchanges the gating sequences link by link.
THEOREM ChainsAreKept == SafeSpec => []ChainsHold
  <1>1. Inv => ChainsHold
    BY DEF Inv, Flow
  <1> QED
    BY <1>1, InvHolds, PTL

\* shutdown() lets no handler of any topology miss an event that was published
\* before the call, when all processors were RUNNING then and none has failed,
\* though hasBacklog asks only the ends of the chains, one after the other,
\* while events are published.
THEOREM ShutdownLeavesNoBacklog == SafeSpec => []ShutdownDrains
  <1>1. Inv => ShutdownDrains
    <2> SUFFICES ASSUME Inv, ShutdownHalts, args.ready, failed = {}, NEW h \in Added
                 PROVE  sequence[h] >= args.cursor
      BY DEF ShutdownDrains
    <2>1. args.cursor \in Int /\ args.cursor <= sequence[h] /\ sequence[h] \in Int
      BY AddedAre, MaxSequenceAssumption DEF Inv, Draining, ShutdownHalts, Threads
    <2> QED
      BY <2>1
  <1> QED
    BY <1>1, InvHolds, PTL

=============================================================================
