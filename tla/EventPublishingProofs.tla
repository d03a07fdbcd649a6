------------------------- MODULE EventPublishingProofs -------------------------
(***************************************************************************)
(* Theorems about EventPublishing, for both sequencers, every number of    *)
(* producers and pollers, every graph of gating sequences, every batch     *)
(* size, and translators and handlers that throw at any place.             *)
(*                                                                         *)
(* Claims says whose a sequence is: published, held by one producer, or    *)
(* left by a translator that threw.  Room and Pulls say that every slot    *)
(* is free of its last lap when it is written, hence EntriesHold: what a   *)
(* poller has still to handle is what its translator wrote.                *)
(***************************************************************************)
EXTENDS EventPublishing, SequencingProofs, SequenceTheorems

ProducerState ==
    [pc : {"out", "next", "wait", "translate", "publish"}, single : BOOLEAN, try : BOOLEAN,
     overtaken : BOOLEAN, n : 0..BufferSize, lo : 0..(MaxSequence + 1), at : 0..(MaxSequence + 1)]

PollerState ==
    [pc : {"out", "handle", "set"}, next : 0..(MaxSequence + 1), available : SequenceValue,
     processed : SequenceValue]

Typed ==
    /\ producerType \in {"SINGLE", "MULTI"}
    /\ claimed \in SequenceValue
    /\ cachedValue \in SequenceValue
    /\ published \subseteq 0..claimed
    /\ entries \in [Slots -> SequenceValue]
    /\ producer \in [Producers -> ProducerState]
    /\ sequence \in [Pollers -> SequenceValue]
    /\ poller \in [Pollers -> PollerState]
    /\ batch \in [Pollers -> Seq(Nat)]
    /\ taken \in [Pollers -> Nat]

\* The producer has its sequences.
Owns(p) == producer[p].pc \in {"translate", "publish"} \/ (producer[p].pc = "wait" /\ producerType = "MULTI")

\* Where a producer is in its claim, and that it is alone with a single-producer sequencer.
PlacedAt(p) ==
    /\ producer[p].pc # "out" => producer[p].n >= 1 /\ (producer[p].single => producer[p].n = 1)
    /\ producer[p].pc \in {"wait", "translate", "publish"} =>
          producer[p].lo <= producer[p].at /\ producer[p].at <= lastOf(p) /\ lastOf(p) <= MaxSequence
    /\ producer[p].pc = "wait" => producer[p].at = producer[p].lo
    /\ Owns(p) => lastOf(p) <= claimed
    /\ producerType = "SINGLE" /\ producer[p].pc # "out" =>
          /\ p = TheProducer
          /\ producer[p].pc = "next" => claimed + producer[p].n <= MaxSequence
          /\ producer[p].pc = "wait" => producer[p].lo = claimed + 1
          /\ producer[p].pc \in {"translate", "publish"} => lastOf(p) = claimed

Placed == \A p \in Producers : PlacedAt(p)

\* A sequence is published, or some producer's, or was left with an exception.
Covered == \A s \in 0..claimed : s \in published \/ s \in thrown \/ \E p \in Producers : s \in Held(p)

\* What was left with an exception was claimed, and its slot not written.
ThrownIsUntranslated == thrown \subseteq untranslated /\ thrown \subseteq 0..claimed

HeldApart == \A p \in Producers : \A q \in Producers \ {p} : Held(p) \cap Held(q) = {}

Unpublished ==
    \A p \in Producers :
        /\ producer[p].pc \in {"wait", "translate"} => Held(p) \cap published = {}
        /\ producer[p].pc = "publish" =>
              /\ (producer[p].at..lastOf(p)) \cap published = {}
              /\ producer[p].lo..(producer[p].at - 1) \subseteq published

\* The cursor of a single-producer sequencer publishes all that is before it.
Closed == producerType = "SINGLE" => \A s \in published : 0..s \subseteq published

Claims == Covered /\ ThrownIsUntranslated /\ HeldApart /\ Unpublished /\ Closed

\* What is published, or will be, has let every poller finish the lap before.
Room ==
    \A c \in Pollers :
        /\ \A s \in published : s - BufferSize <= sequence[c]
        /\ \A p \in Producers : producer[p].pc \in {"translate", "publish"} => wrapPoint(lastOf(p)) <= sequence[c]
        /\ producerType = "SINGLE" => wrapPoint(claimed) <= sequence[c]

\* A poller is done with published events only, and handles published ones.
Pulls ==
    \A c \in Pollers :
        /\ 0..sequence[c] \subseteq published
        /\ poller[c].pc # "out" =>
              /\ sequence[c] <= poller[c].processed
              /\ poller[c].next = poller[c].processed + 1 \/ poller[c].pc = "set"
              /\ (sequence[c] + 1)..poller[c].available \subseteq published
              /\ \A d \in GatedBy[c] : poller[c].available <= sequence[d]
              /\ poller[c].processed <= poller[c].available
        /\ poller[c].pc = "handle" => poller[c].next <= poller[c].available

\* A translator is done with s, in one way or another.
Written(s) ==
    \/ s \in published
    \/ \E p \in Producers :
          \/ producer[p].pc = "translate" /\ s \in producer[p].lo..(producer[p].at - 1)
          \/ producer[p].pc = "publish" /\ s \in producer[p].lo..lastOf(p)

\* What somebody has still to handle is what its translator wrote.
EntriesHold ==
    \A c \in Pollers : \A s \in Nat :
        sequence[c] < s /\ Written(s) => entries[calculateIndex(s)] = s \/ s \in untranslated

\* A try that was told of room has it until somebody else claims.
TryHasRoom ==
    \A p \in Producers : \A c \in Pollers :
        producer[p].try /\ ~producer[p].overtaken =>
            /\ producer[p].pc = "next" => wrapPoint(claimed + producer[p].n) <= sequence[c]
            /\ producer[p].pc = "wait" => wrapPoint(lastOf(p)) <= sequence[c]

\* What a BatchedPoller has taken in so far.
Batches ==
    \A c \in Batched :
        /\ \A k \in 1..Len(batch[c]) : batch[c][k] = taken[c] + k - 1
        /\ poller[c].pc = "out" => taken[c] + Len(batch[c]) - 1 = sequence[c]
        /\ poller[c].pc # "out" => taken[c] + Len(batch[c]) - 1 = poller[c].processed

Inv == Typed /\ Placed /\ Claims /\ Room /\ Pulls /\ EntriesHold /\ TryHasRoom /\ Batches

-----------------------------------------------------------------------------
(* The steps, by what they do to the state the invariant speaks of         *)

Others(p) == \A q \in Producers \ {p} : producer'[q] = producer[q]

\* The call of p is still the same one.
SameCall(p) ==
    /\ producer'[p].n = producer[p].n
    /\ producer'[p].single = producer[p].single
    /\ producer'[p].try = producer[p].try
    /\ producer'[p].overtaken = producer[p].overtaken

Calls(p) ==
    /\ producer[p].pc = "out" /\ producer'[p].pc = "next"
    /\ producer'[p].n \in 1..BufferSize
    /\ producer'[p].single => producer'[p].n = 1
    /\ claimed + producer'[p].n <= MaxSequence
    /\ producerType = "SINGLE" => p = TheProducer
    /\ producer'[p].try => wrapPoint(claimed + producer'[p].n) <= minimumSequence
    /\ Others(p)
    /\ UNCHANGED <<claimed, published, entries, pulling, history>>

Gives(p) == UNCHANGED <<claimed, published, entries, producer, pulling, history>>

ClaimsMulti(p) ==
    /\ producer[p].pc = "next" /\ producer'[p].pc = "wait"
    /\ producerType = "MULTI"
    /\ claimed + producer[p].n <= MaxSequence
    /\ claimed' = claimed + producer[p].n
    /\ producer'[p].lo = claimed + 1 /\ producer'[p].at = claimed + 1
    /\ SameCall(p)
    /\ \A q \in Producers \ {p} :
          /\ producer'[q].pc = producer[q].pc
          /\ producer'[q].n = producer[q].n
          /\ producer'[q].single = producer[q].single
          /\ producer'[q].try = producer[q].try
          /\ producer'[q].overtaken = (producer[q].pc = "next" \/ producer[q].overtaken)
          /\ producer'[q].lo = producer[q].lo
          /\ producer'[q].at = producer[q].at
    /\ UNCHANGED <<published, entries, pulling, history>>

WaitsSingle(p) ==
    /\ producer[p].pc = "next" /\ producer'[p].pc = "wait"
    /\ producerType = "SINGLE"
    /\ published' = published \/ published' = 0..claimed
    /\ producer'[p].lo = claimed + 1 /\ producer'[p].at = claimed + 1
    /\ SameCall(p)
    /\ Others(p)
    /\ UNCHANGED <<claimed, entries, pulling, history>>

Returns(p) ==
    /\ producer[p].pc = "wait" /\ producer'[p].pc = "translate"
    /\ wrapPoint(lastOf(p)) <= minimumSequence
    /\ producerType = "MULTI" => claimed' = claimed
    /\ producerType = "SINGLE" => claimed' = lastOf(p)
    /\ producer'[p].lo = producer[p].lo /\ producer'[p].at = producer[p].at
    /\ SameCall(p)
    /\ Others(p)
    /\ UNCHANGED <<published, entries, pulling, history>>

Translates(p) ==
    /\ producer[p].pc = "translate"
    /\ \/ entries' = [entries EXCEPT ![calculateIndex(producer[p].at)] = producer[p].at] /\ UNCHANGED untranslated
       \/ untranslated' = untranslated \cup {producer[p].at} /\ UNCHANGED entries
    /\ \/ /\ producer[p].at = lastOf(p)
          /\ producer'[p].pc = "publish" /\ producer'[p].at = producer[p].lo
       \/ /\ producer[p].at # lastOf(p)
          /\ producer'[p].pc = "translate" /\ producer'[p].at = producer[p].at + 1
    /\ producer'[p].lo = producer[p].lo
    /\ SameCall(p)
    /\ Others(p)
    /\ UNCHANGED <<claimed, published, pulling, thrown>>

Throws(p) ==
    /\ producer[p].pc = "translate" /\ producer'[p].pc = "out"
    /\ producer[p].single
    /\ untranslated' = untranslated \cup {producer[p].at}
    /\ thrown' = thrown \cup {producer[p].at}
    /\ Others(p)
    /\ UNCHANGED <<claimed, published, entries, pulling>>

BatchThrows(p) ==
    /\ producer[p].pc = "translate" /\ producer'[p].pc = "publish"
    /\ untranslated' = untranslated \cup producer[p].at..lastOf(p)
    /\ producer'[p].lo = producer[p].lo /\ producer'[p].at = producer[p].lo
    /\ SameCall(p)
    /\ Others(p)
    /\ UNCHANGED <<claimed, published, entries, pulling, thrown>>

PublishesOne(p) ==
    /\ producer[p].pc = "publish"
    /\ producerType = "MULTI"
    /\ published' = published \cup {producer[p].at}
    /\ \/ producer[p].at = lastOf(p) /\ producer'[p].pc = "out"
       \/ /\ producer[p].at # lastOf(p) /\ producer'[p].pc = "publish"
          /\ producer'[p].lo = producer[p].lo /\ producer'[p].at = producer[p].at + 1
          /\ SameCall(p)
    /\ Others(p)
    /\ UNCHANGED <<claimed, entries, pulling, history>>

PublishesAll(p) ==
    /\ producer[p].pc = "publish" /\ producer'[p].pc = "out"
    /\ producerType = "SINGLE"
    /\ published' = 0..lastOf(p)
    /\ Others(p)
    /\ UNCHANGED <<claimed, entries, pulling, history>>

ProduceStep(p) ==
    \/ Calls(p) \/ Gives(p) \/ ClaimsMulti(p) \/ WaitsSingle(p) \/ Returns(p) \/ Translates(p)
    \/ Throws(p) \/ BatchThrows(p) \/ PublishesOne(p) \/ PublishesAll(p)

-----------------------------------------------------------------------------
(* What the minimum of the gating sequences and the cursor tell            *)

\* A sequence is a number from -1 to MaxSequence.
LEMMA SequenceValueIsInt == SequenceValue \subseteq Int /\ \A s \in SequenceValue : -1 <= s /\ s <= MaxSequence
  BY MaxSequenceAssumption DEF SequenceValue, INITIAL_CURSOR_VALUE

\* The minimum is below the sequence of every poller and below what is claimed, and is the greatest such.
LEMMA MinimumIsLowest ==
  ASSUME Typed
  PROVE  /\ minimumSequence \in SequenceValue
         /\ minimumSequence <= claimed
         /\ \A c \in Pollers : minimumSequence <= sequence[c]
         /\ \A w \in Int : w <= claimed /\ (\A c \in Pollers : w <= sequence[c]) => w <= minimumSequence
  <1> DEFINE S == {sequence[c] : c \in Pollers} \cup {claimed}
  <1>1. S \subseteq SequenceValue /\ claimed \in S /\ \A c \in Pollers : sequence[c] \in S
    BY DEF Typed
  <1>2. \A s \in S : s = claimed \/ \E c \in Pollers : s = sequence[c]
    OBVIOUS
  <1>3. minimumSequence = Min(S)
    BY DEF minimumSequence
  <1> HIDE DEF S
  <1>4. S \subseteq Int /\ S # {} /\ \A s \in S : -1 <= s
    BY <1>1, SequenceValueIsInt
  <1>5. Min(S) \in S /\ \A s \in S : Min(S) <= s
    BY <1>4, MinIsLeast
  <1>6. minimumSequence \in SequenceValue /\ minimumSequence <= claimed /\ \A c \in Pollers : minimumSequence <= sequence[c]
    BY <1>1, <1>3, <1>5
  <1>7. ASSUME NEW w \in Int, w <= claimed, \A c \in Pollers : w <= sequence[c] PROVE w <= minimumSequence
    BY <1>2, <1>3, <1>5, <1>7
  <1> QED
    BY <1>6, <1>7

\* The cursor is no more than what is claimed; with SINGLE it is the end of what is published.
LEMMA CursorFollows ==
  ASSUME Typed
  PROVE  /\ Cursor \in SequenceValue
         /\ Cursor <= claimed
         /\ producerType = "SINGLE" => Cursor = -1 \/ Cursor \in published
  <1>1. CASE producerType = "MULTI"
    BY <1>1, SequenceValueIsInt DEF Cursor, Typed
  <1>2. CASE producerType = "SINGLE"
    <2> DEFINE S == published \cup {INITIAL_CURSOR_VALUE}
    <2>1. claimed \in Int /\ -1 <= claimed /\ claimed <= MaxSequence /\ published \subseteq 0..claimed
      BY SequenceValueIsInt DEF Typed
    <2>2. S \subseteq Int /\ S # {} /\ (\A s \in S : s <= claimed /\ -1 <= s) /\ \A s \in S : s = -1 \/ s \in published
      BY <2>1 DEF INITIAL_CURSOR_VALUE
    <2>3. Cursor = Max(S)
      BY <1>2 DEF Cursor
    <2> HIDE DEF S
    <2>4. Max(S) \in S
      BY <2>1, <2>2, MaxIsGreatest
    <2>5. Cursor <= claimed /\ -1 <= Cursor /\ (Cursor = -1 \/ Cursor \in published) /\ Cursor \in Int
      BY <2>2, <2>3, <2>4
    <2> QED
      BY <2>1, <2>5, MaxSequenceAssumption DEF SequenceValue, INITIAL_CURSOR_VALUE
  <1> QED
    BY <1>1, <1>2 DEF Typed

\* The gating sequence of a poller is behind those it depends on; with SINGLE it vouches for all up to it.
LEMMA GatingFollows ==
  ASSUME Typed, Claims, Pulls, NEW c \in Pollers
  PROVE  /\ gatingSequence(c) \in SequenceValue
         /\ \A d \in GatedBy[c] : gatingSequence(c) <= sequence[d]
         /\ producerType = "SINGLE" => 0..gatingSequence(c) \subseteq published
  <1>0. GatedBy[c] \subseteq Pollers
    BY PollerAssumption
  <1>1. CASE GatedBy[c] = {}
    <2>1. gatingSequence(c) = Cursor
      BY <1>1 DEF gatingSequence
    <2>2. ASSUME producerType = "SINGLE" PROVE 0..Cursor \subseteq published
      <3>1. Cursor = -1 \/ Cursor \in published
        BY <2>2, CursorFollows
      <3>2. Cursor = -1 => 0..Cursor = {}
        OBVIOUS
      <3>3. Cursor \in published => 0..Cursor \subseteq published
        BY <2>2 DEF Claims, Closed
      <3> QED
        BY <3>1, <3>2, <3>3
    <2> QED
      BY <1>1, <2>1, <2>2, CursorFollows
  <1>2. CASE GatedBy[c] # {}
    <2> DEFINE S == {sequence[d] : d \in GatedBy[c]}
    <2>1. S \subseteq SequenceValue /\ S # {} /\ \A d \in GatedBy[c] : sequence[d] \in S
      BY <1>0, <1>2 DEF Typed
    <2>2. \A s \in S : \E d \in GatedBy[c] : s = sequence[d]
      OBVIOUS
    <2>3. gatingSequence(c) = Min(S)
      BY <1>2 DEF gatingSequence
    <2> HIDE DEF S
    <2>4. S \subseteq Int /\ \A s \in S : -1 <= s
      BY <2>1, SequenceValueIsInt
    <2>5. Min(S) \in S /\ \A s \in S : Min(S) <= s
      BY <2>1, <2>4, MinIsLeast
    <2>6. PICK d \in GatedBy[c] : Min(S) = sequence[d]
      BY <2>2, <2>5
    <2>7. 0..Min(S) \subseteq published
      BY <1>0, <2>6 DEF Pulls
    <2> QED
      BY <2>1, <2>3, <2>5, <2>7
  <1> QED
    BY <1>1, <1>2

\* What poll() is told is available is published, and the pollers it depends on are done with it.
LEMMA PollIsTold ==
  ASSUME Typed, Claims, Pulls, NEW c \in Pollers, NEW available,
         available = getHighestPublishedSequence(sequence[c] + 1, gatingSequence(c)),
         sequence[c] + 1 <= available
  PROVE  /\ available \in SequenceValue
         /\ (sequence[c] + 1)..available \subseteq published
         /\ \A d \in GatedBy[c] : available <= sequence[d]
  <1> DEFINE g == gatingSequence(c)
             n == sequence[c] + 1
  <1>1. /\ g \in SequenceValue /\ \A d \in GatedBy[c] : g <= sequence[d]
        /\ producerType = "SINGLE" => 0..g \subseteq published
    BY GatingFollows
  <1>2. sequence[c] \in SequenceValue /\ n \in Int /\ n >= 0 /\ GatedBy[c] \subseteq Pollers
    <2>1. sequence[c] \in SequenceValue /\ GatedBy[c] \subseteq Pollers
      BY PollerAssumption DEF Typed
    <2>2. sequence[c] \in Int /\ -1 <= sequence[c]
      BY <2>1, SequenceValueIsInt
    <2>3. n \in Int /\ n >= 0
      BY <2>2
    <2> QED
      BY <2>1, <2>3
  <1>3. \A d \in GatedBy[c] : sequence[d] \in Int
    BY <1>2, SequenceValueIsInt DEF Typed
  <1>4. g \in Int /\ -1 <= g /\ g <= MaxSequence
    BY <1>1, SequenceValueIsInt
  <1>5. CASE producerType = "SINGLE"
    <2>1. available = g
      BY <1>5 DEF getHighestPublishedSequence
    <2>2. n..g \subseteq 0..g
      BY <1>2, <1>4
    <2> QED
      BY <1>1, <1>5, <2>1, <2>2
  <1>6. CASE producerType = "MULTI"
    <2> DEFINE S == {n - 1} \cup {s \in n..g : n..s \subseteq published}
    <2>1. available = Max(S)
      BY <1>6 DEF getHighestPublishedSequence
    <2>2. S \subseteq Int /\ n - 1 \in S /\ \A s \in S : s = n - 1 \/ (n <= s /\ s <= g /\ n..s \subseteq published)
      BY <1>2, <1>4
    <2> HIDE DEF S
    <2>3. \E h \in Int : g <= h /\ n - 1 <= h
      BY <1>2, <1>4
    <2>4. PICK h \in Int : g <= h /\ n - 1 <= h
      BY <2>3
    <2>5. \A s \in S : s <= h
      BY <1>2, <1>4, <2>2, <2>4
    <2>6. Max(S) \in S
      BY <2>2, <2>5, MaxIsGreatest
    <2>7. available \in Int /\ n <= available /\ available <= g /\ n..available \subseteq published
      <3>1. available \in S /\ available \in Int /\ n <= available
        BY <2>1, <2>2, <2>6
      <3>2. available # n - 1
        BY <1>2, <3>1
      <3> QED
        BY <2>2, <3>1, <3>2
    <2>8. available \in SequenceValue
      BY <1>2, <1>4, <2>7, MaxSequenceAssumption DEF SequenceValue, INITIAL_CURSOR_VALUE
    <2>9. \A d \in GatedBy[c] : available <= sequence[d]
      BY <1>1, <1>3, <1>4, <2>7
    <2> QED
      BY <2>7, <2>8, <2>9
  <1> QED
    BY <1>5, <1>6 DEF Typed

-----------------------------------------------------------------------------
(* Every action of a producer is one of those steps                        *)

\* The types of what a producer keeps.
LEMMA ProducerFields ==
  ASSUME Typed, NEW p \in Producers
  PROVE  /\ producer[p] \in ProducerState
         /\ producer[p].n \in 0..BufferSize
         /\ producer[p].lo \in 0..(MaxSequence + 1)
         /\ producer[p].at \in 0..(MaxSequence + 1)
         /\ producer[p].n \in Int /\ producer[p].lo \in Int /\ producer[p].at \in Int
         /\ lastOf(p) \in Int
  <1>1. producer[p] \in ProducerState
    BY DEF Typed
  <1>2. /\ producer[p].n \in 0..BufferSize
        /\ producer[p].lo \in 0..(MaxSequence + 1)
        /\ producer[p].at \in 0..(MaxSequence + 1)
    BY <1>1 DEF ProducerState
  <1> QED
    BY <1>1, <1>2, BufferSizeNat, MaxSequenceAssumption DEF lastOf

\* A producer makes a call.
LEMMA CallMoves ==
  ASSUME Typed, NEW p \in Producers, NEW try \in BOOLEAN, NEW single \in BOOLEAN, NEW n \in 1..BufferSize,
         Call(p, try, single, n)
  PROVE  /\ producer' \in [Producers -> ProducerState]
         /\ Others(p)
         /\ producer'[p].pc = "next" /\ producer'[p].n = n
         /\ producer'[p].single = single /\ producer'[p].try = try
  <1> DEFINE r == [Idle EXCEPT !.pc = "next", !.single = single, !.try = try, !.n = n]
  <1>1. r \in ProducerState
    <2>1. n \in 0..BufferSize /\ 0 \in 0..(MaxSequence + 1)
      BY BufferSizeNat, MaxSequenceAssumption
    <2> QED
      BY <2>1 DEF ProducerState, Idle
  <1>2. r.pc = "next" /\ r.n = n /\ r.single = single /\ r.try = try
    BY DEF Idle
  <1>3. producer' = [producer EXCEPT ![p] = r]
    BY DEF Call
  <1> HIDE DEF r
  <1>4. producer \in [Producers -> ProducerState]
    BY DEF Typed
  <1>5. producer'[p] = r /\ (\A q \in Producers \ {p} : producer'[q] = producer[q])
        /\ producer' \in [Producers -> ProducerState]
    BY <1>1, <1>3, <1>4
  <1> QED
    BY <1>2, <1>5 DEF Others

\* A producer leaves its call.
LEMMA BecomesIdle ==
  ASSUME Typed, NEW p \in Producers, producer' = [producer EXCEPT ![p] = Idle]
  PROVE  producer' \in [Producers -> ProducerState] /\ Others(p) /\ producer'[p].pc = "out"
  <1>1. Idle \in ProducerState /\ Idle.pc = "out"
    BY BufferSizeNat, MaxSequenceAssumption DEF Idle, ProducerState
  <1>2. producer \in [Producers -> ProducerState]
    BY DEF Typed
  <1>3. producer'[p] = Idle /\ (\A q \in Producers \ {p} : producer'[q] = producer[q])
        /\ producer' \in [Producers -> ProducerState]
    BY <1>1, <1>2
  <1> QED
    BY <1>1, <1>3 DEF Others

\* A producer goes on with its call.
LEMMA GoesOn ==
  ASSUME Typed, NEW p \in Producers, NEW pc \in {"wait", "translate", "publish"},
         NEW lo \in 0..(MaxSequence + 1), NEW at \in 0..(MaxSequence + 1),
         producer' = [producer EXCEPT ![p] = [producer[p] EXCEPT !.pc = pc, !.lo = lo, !.at = at]]
  PROVE  /\ producer' \in [Producers -> ProducerState] /\ Others(p) /\ SameCall(p)
         /\ producer'[p].pc = pc /\ producer'[p].lo = lo /\ producer'[p].at = at
  <1> DEFINE r == [producer[p] EXCEPT !.pc = pc, !.lo = lo, !.at = at]
  <1>1. producer \in [Producers -> ProducerState] /\ producer[p] \in ProducerState
    BY DEF Typed
  <1>2. /\ r \in ProducerState /\ r.pc = pc /\ r.lo = lo /\ r.at = at /\ r.n = producer[p].n
        /\ r.single = producer[p].single /\ r.try = producer[p].try /\ r.overtaken = producer[p].overtaken
    BY <1>1 DEF ProducerState
  <1>3. producer' = [producer EXCEPT ![p] = r]
    OBVIOUS
  <1> HIDE DEF r
  <1>4. producer'[p] = r /\ (\A q \in Producers \ {p} : producer'[q] = producer[q])
        /\ producer' \in [Producers -> ProducerState]
    BY <1>1, <1>2, <1>3
  <1> QED
    BY <1>2, <1>4 DEF Others, SameCall

\* The same, with only some of the fields assigned.
LEMMA UnassignedFields ==
  ASSUME Typed, NEW p \in Producers, NEW pc, NEW lo, NEW at
  PROVE  /\ [producer EXCEPT ![p].pc = pc, ![p].lo = lo, ![p].at = at]
                = [producer EXCEPT ![p] = [producer[p] EXCEPT !.pc = pc, !.lo = lo, !.at = at]]
         /\ [producer EXCEPT ![p].pc = pc]
                = [producer EXCEPT ![p] = [producer[p] EXCEPT !.pc = pc, !.lo = producer[p].lo, !.at = producer[p].at]]
         /\ [producer EXCEPT ![p].pc = pc, ![p].at = at]
                = [producer EXCEPT ![p] = [producer[p] EXCEPT !.pc = pc, !.lo = producer[p].lo, !.at = at]]
         /\ [producer[p] EXCEPT !.pc = pc, !.at = at]
                = [producer[p] EXCEPT !.pc = pc, !.lo = producer[p].lo, !.at = at]
         /\ [producer[p] EXCEPT !.at = at]
                = [producer[p] EXCEPT !.pc = producer[p].pc, !.lo = producer[p].lo, !.at = at]
  <1>1. producer \in [Producers -> ProducerState] /\ producer[p] \in ProducerState
    BY DEF Typed
  <1>2. [producer EXCEPT ![p].pc = pc, ![p].lo = lo, ![p].at = at]
                = [producer EXCEPT ![p] = [producer[p] EXCEPT !.pc = pc, !.lo = lo, !.at = at]]
    BY <1>1 DEF ProducerState
  <1>3. [producer EXCEPT ![p].pc = pc]
                = [producer EXCEPT ![p] = [producer[p] EXCEPT !.pc = pc, !.lo = producer[p].lo, !.at = producer[p].at]]
    BY <1>1 DEF ProducerState
  <1>4. [producer EXCEPT ![p].pc = pc, ![p].at = at]
                = [producer EXCEPT ![p] = [producer[p] EXCEPT !.pc = pc, !.lo = producer[p].lo, !.at = at]]
    BY <1>1 DEF ProducerState
  <1>5. /\ [producer[p] EXCEPT !.pc = pc, !.at = at]
                = [producer[p] EXCEPT !.pc = pc, !.lo = producer[p].lo, !.at = at]
        /\ [producer[p] EXCEPT !.at = at]
                = [producer[p] EXCEPT !.pc = producer[p].pc, !.lo = producer[p].lo, !.at = at]
    BY <1>1 DEF ProducerState
  <1> QED
    BY <1>2, <1>3, <1>4, <1>5

\* A try that finds no room changes the cache only.
LEMMA TryCalls ==
  ASSUME Typed, NEW p \in Producers, NEW single \in BOOLEAN, NEW n \in 1..BufferSize, single => n = 1,
         CanCall(p, n), HasRoom(p, single, n)
  PROVE  /\ producerType' = producerType /\ cachedValue' \in SequenceValue
         /\ producer' \in [Producers -> ProducerState]
         /\ Calls(p) \/ Gives(p)
  <1>1. producerType' = producerType /\ cachedValue' \in SequenceValue
    BY MinimumIsLowest DEF HasRoom, Typed
  <1>2. UNCHANGED <<claimed, published, entries, pulling, history>>
    BY DEF HasRoom
  <1>3. CASE wrapPoint(claimed + n) <= minimumSequence
    <2>1. Call(p, TRUE, single, n)
      BY <1>3 DEF HasRoom
    <2>2. /\ producer' \in [Producers -> ProducerState] /\ Others(p)
          /\ producer'[p].pc = "next" /\ producer'[p].n = n
          /\ producer'[p].single = single /\ producer'[p].try = TRUE
      BY <2>1, CallMoves
    <2> QED
      BY <1>1, <1>2, <1>3, <2>2 DEF Calls, CanCall
  <1>4. CASE ~(wrapPoint(claimed + n) <= minimumSequence)
    <2>1. producer' = producer
      BY <1>4 DEF HasRoom
    <2> QED
      BY <1>1, <1>2, <2>1 DEF Gives, Typed
  <1> QED
    BY <1>3, <1>4

\* publishEvent and publishEvents are called.
LEMMA PublishCalls ==
  ASSUME Typed, NEW p \in Producers, NEW single \in BOOLEAN, NEW n \in 1..BufferSize, single => n = 1,
         CanCall(p, n), Call(p, FALSE, single, n), UNCHANGED <<ring, pulling, history>>
  PROVE  /\ producerType' = producerType /\ cachedValue' \in SequenceValue
         /\ producer' \in [Producers -> ProducerState]
         /\ Calls(p)
  <1>1. /\ producer' \in [Producers -> ProducerState] /\ Others(p)
        /\ producer'[p].pc = "next" /\ producer'[p].n = n
        /\ producer'[p].single = single /\ producer'[p].try = FALSE
    BY CallMoves
  <1> QED
    BY <1>1 DEF Calls, CanCall, Typed, ring

\* next(n) of MULTI, which also marks the producers it overtakes.
LEMMA NextMultiClaims ==
  ASSUME Typed, NEW p \in Producers, nextMulti(p)
  PROVE  /\ producer' \in [Producers -> ProducerState]
         /\ ClaimsMulti(p)
  <1>1. claimed \in Int /\ -1 <= claimed
    BY SequenceValueIsInt DEF Typed
  <1>2. claimed + 1 \in 0..(MaxSequence + 1)
    BY <1>1, MaxSequenceAssumption, ProducerFields, SequenceValueIsInt DEF Typed
  <1> DEFINE r == [producer[p] EXCEPT !.pc = "wait", !.lo = claimed + 1, !.at = claimed + 1]
             f(q) == [producer[q] EXCEPT !.overtaken = producer[q].pc = "next" \/ @]
  <1>3. producer' = [q \in Producers |-> IF q = p THEN r ELSE f(q)]
    BY DEF nextMulti
  <1>4. /\ r \in ProducerState /\ r.pc = "wait" /\ r.lo = claimed + 1 /\ r.at = claimed + 1
        /\ r.n = producer[p].n /\ r.single = producer[p].single
        /\ r.try = producer[p].try /\ r.overtaken = producer[p].overtaken
    BY <1>2, ProducerFields DEF ProducerState
  <1>5. ASSUME NEW q \in Producers
        PROVE  /\ f(q) \in ProducerState /\ f(q).pc = producer[q].pc /\ f(q).n = producer[q].n
               /\ f(q).single = producer[q].single /\ f(q).try = producer[q].try
               /\ f(q).overtaken = (producer[q].pc = "next" \/ producer[q].overtaken)
               /\ f(q).lo = producer[q].lo /\ f(q).at = producer[q].at
    BY ProducerFields DEF ProducerState
  <1> HIDE DEF r, f
  <1>6. /\ producer' \in [Producers -> ProducerState]
        /\ producer'[p] = r /\ \A q \in Producers \ {p} : producer'[q] = f(q)
    BY <1>3, <1>4, <1>5
  <1>7. /\ producer[p].pc = "next" /\ producerType = "MULTI" /\ claimed + producer[p].n <= MaxSequence
        /\ claimed' = claimed + producer[p].n
        /\ UNCHANGED <<published, entries, pulling, history>>
    BY DEF nextMulti
  <1>8. SameCall(p)
    BY <1>4, <1>6 DEF SameCall
  <1> QED
    BY <1>4, <1>5, <1>6, <1>7, <1>8 DEF ClaimsMulti

\* next(n) of SINGLE, up to where it waits.
LEMMA NextSingleWaits ==
  ASSUME Typed, NEW p \in Producers, nextSingle(p)
  PROVE  producer' \in [Producers -> ProducerState] /\ WaitsSingle(p)
  <1>1. claimed + 1 \in 0..(MaxSequence + 1)
    BY MaxSequenceAssumption, SequenceValueIsInt DEF Typed
  <1>2. producer' = [producer EXCEPT ![p] = [producer[p] EXCEPT !.pc = "wait", !.lo = claimed + 1, !.at = claimed + 1]]
    BY UnassignedFields DEF nextSingle
  <1>3. /\ producer' \in [Producers -> ProducerState] /\ Others(p) /\ SameCall(p)
        /\ producer'[p].pc = "wait" /\ producer'[p].lo = claimed + 1 /\ producer'[p].at = claimed + 1
    BY <1>1, <1>2, GoesOn
  <1> QED
    BY <1>3 DEF nextSingle, WaitsSingle

\* next(n) returns.
LEMMA NextReturnsReturns ==
  ASSUME Typed, NEW p \in Producers, nextReturns(p)
  PROVE  /\ producer' \in [Producers -> ProducerState] /\ cachedValue' \in SequenceValue
         /\ Returns(p)
  <1>1. /\ producer[p].lo \in 0..(MaxSequence + 1) /\ producer[p].at \in 0..(MaxSequence + 1)
    BY ProducerFields
  <1>2. producer' = [producer EXCEPT ![p] = [producer[p] EXCEPT !.pc = "translate", !.lo = producer[p].lo, !.at = producer[p].at]]
    BY UnassignedFields DEF nextReturns
  <1>3. /\ producer' \in [Producers -> ProducerState] /\ Others(p) /\ SameCall(p)
        /\ producer'[p].pc = "translate" /\ producer'[p].lo = producer[p].lo /\ producer'[p].at = producer[p].at
    BY <1>1, <1>2, GoesOn
  <1>4. cachedValue' \in SequenceValue
    BY MinimumIsLowest DEF nextReturns, Typed
  <1> QED
    BY <1>3, <1>4 DEF nextReturns, Returns

\* A producer goes on to publish from the start of its claim.
LEMMA StartsToPublish ==
  ASSUME Typed, NEW p \in Producers,
         producer' = [producer EXCEPT ![p] = [producer[p] EXCEPT !.pc = "publish", !.lo = producer[p].lo, !.at = producer[p].lo]]
  PROVE  /\ producer' \in [Producers -> ProducerState] /\ Others(p) /\ SameCall(p)
         /\ producer'[p].pc = "publish" /\ producer'[p].lo = producer[p].lo /\ producer'[p].at = producer[p].lo
  <1>1. producer[p].lo \in 0..(MaxSequence + 1)
    BY ProducerFields
  <1> QED
    BY <1>1, GoesOn

\* A translator is done.
LEMMA TranslatedMoves ==
  ASSUME Typed, Placed, NEW p \in Producers, producer[p].pc = "translate", Translated(p)
  PROVE  /\ producer' \in [Producers -> ProducerState] /\ Others(p) /\ SameCall(p)
         /\ producer'[p].lo = producer[p].lo
         /\ \/ /\ producer[p].at = lastOf(p)
               /\ producer'[p].pc = "publish" /\ producer'[p].at = producer[p].lo
            \/ /\ producer[p].at # lastOf(p)
               /\ producer'[p].pc = "translate" /\ producer'[p].at = producer[p].at + 1
  <1>1. /\ producer[p].lo \in 0..(MaxSequence + 1) /\ producer[p].at \in 0..(MaxSequence + 1)
        /\ lastOf(p) \in Int
    BY ProducerFields
  <1>2. producer[p].at + 1 \in 0..(MaxSequence + 1)
    BY <1>1, MaxSequenceAssumption DEF Placed, PlacedAt
  <1>3. CASE producer[p].at = lastOf(p)
    <2>1. producer' = [producer EXCEPT ![p] = [producer[p] EXCEPT !.pc = "publish", !.at = producer[p].lo]]
      BY <1>3 DEF Translated
    <2>2. producer' = [producer EXCEPT ![p] = [producer[p] EXCEPT !.pc = "publish", !.lo = producer[p].lo, !.at = producer[p].lo]]
      BY <2>1, UnassignedFields
    <2>3. /\ producer' \in [Producers -> ProducerState] /\ Others(p) /\ SameCall(p)
          /\ producer'[p].pc = "publish" /\ producer'[p].lo = producer[p].lo /\ producer'[p].at = producer[p].lo
      BY <2>2, StartsToPublish
    <2> QED
      BY <1>3, <2>3
  <1>4. CASE producer[p].at # lastOf(p)
    <2>1. producer' = [producer EXCEPT ![p] = [producer[p] EXCEPT !.at = producer[p].at + 1]]
      BY <1>4 DEF Translated
    <2>2. producer' = [producer EXCEPT ![p] = [producer[p] EXCEPT !.pc = producer[p].pc, !.lo = producer[p].lo, !.at = producer[p].at + 1]]
      BY <2>1, UnassignedFields
    <2>3. /\ producer' \in [Producers -> ProducerState] /\ Others(p) /\ SameCall(p)
          /\ producer'[p].pc = "translate" /\ producer'[p].lo = producer[p].lo /\ producer'[p].at = producer[p].at + 1
      BY <1>1, <1>2, <2>2, GoesOn
    <2> QED
      BY <1>4, <2>3
  <1> QED
    BY <1>3, <1>4

\* A translator returned, or the batch has none at this place.
LEMMA TranslatorIsDone ==
  ASSUME Typed, Placed, NEW p \in Producers, translateTo(p) \/ NoTranslator(p)
  PROVE  producer' \in [Producers -> ProducerState] /\ Translates(p)
  <1>1. producer[p].pc = "translate" /\ Translated(p)
    BY DEF translateTo, NoTranslator
  <1>2. UNCHANGED <<claimed, published, pulling, thrown>>
    BY DEF translateTo, NoTranslator, ring, history
  <1>3. \/ entries' = [entries EXCEPT ![calculateIndex(producer[p].at)] = producer[p].at] /\ UNCHANGED untranslated
        \/ untranslated' = untranslated \cup {producer[p].at} /\ UNCHANGED entries
    BY DEF translateTo, NoTranslator, ring, history
  <1> QED
    BY <1>1, <1>2, <1>3, TranslatedMoves DEF Translates

\* The translator of publishEvent threw.
LEMMA TranslatorThrowsThrows ==
  ASSUME Typed, NEW p \in Producers, TranslatorThrows(p)
  PROVE  producer' \in [Producers -> ProducerState] /\ Throws(p)
  <1>1. producer' \in [Producers -> ProducerState] /\ Others(p) /\ producer'[p].pc = "out"
    BY BecomesIdle DEF TranslatorThrows
  <1> QED
    BY <1>1 DEF TranslatorThrows, Throws, ring

\* A translator of publishEvents threw.
LEMMA BatchThrowsThrows ==
  ASSUME Typed, NEW p \in Producers, TranslatorOfBatchThrows(p)
  PROVE  producer' \in [Producers -> ProducerState] /\ BatchThrows(p)
  <1>2. producer' = [producer EXCEPT ![p] = [producer[p] EXCEPT !.pc = "publish", !.lo = producer[p].lo, !.at = producer[p].lo]]
    <2>1. producer' = [producer EXCEPT ![p].pc = "publish", ![p].at = producer[p].lo]
      BY DEF TranslatorOfBatchThrows
    <2>2. producer \in [Producers -> ProducerState] /\ producer[p] \in ProducerState
      BY DEF Typed
    <2> QED
      BY <2>1, <2>2 DEF ProducerState
  <1>3. /\ producer' \in [Producers -> ProducerState] /\ Others(p) /\ SameCall(p)
        /\ producer'[p].pc = "publish" /\ producer'[p].lo = producer[p].lo /\ producer'[p].at = producer[p].lo
    BY <1>2, StartsToPublish
  <1> QED
    BY <1>3 DEF TranslatorOfBatchThrows, BatchThrows, ring

\* publish of MULTI sets one flag, that of SINGLE the cursor.
LEMMA PublishPublishes ==
  ASSUME Typed, Placed, NEW p \in Producers, publish(p)
  PROVE  producer' \in [Producers -> ProducerState] /\ (PublishesOne(p) \/ PublishesAll(p))
  <1>0. producer[p].pc = "publish" /\ UNCHANGED <<claimed, entries, pulling, history>>
    BY DEF publish
  <1>1. CASE producerType = "SINGLE"
    <2>1. producer' = [producer EXCEPT ![p] = Idle] /\ published' = 0..lastOf(p)
      BY <1>1 DEF publish
    <2> QED
      BY <1>0, <1>1, <2>1, BecomesIdle DEF PublishesAll
  <1>2. CASE producerType = "MULTI"
    <2>1. published' = published \cup {producer[p].at}
      BY <1>2 DEF publish
    <2>2. CASE producer[p].at = lastOf(p)
      <3>1. producer' = [producer EXCEPT ![p] = Idle]
        BY <1>2, <2>2 DEF publish
      <3> QED
        BY <1>0, <1>2, <2>1, <2>2, <3>1, BecomesIdle DEF PublishesOne
    <2>3. CASE producer[p].at # lastOf(p)
      <3>1. producer' = [producer EXCEPT ![p] = [producer[p] EXCEPT !.at = producer[p].at + 1]]
        BY <1>2, <2>3 DEF publish
      <3>2. producer' = [producer EXCEPT ![p] = [producer[p] EXCEPT !.pc = producer[p].pc, !.lo = producer[p].lo, !.at = producer[p].at + 1]]
        BY <3>1, UnassignedFields
      <3>3. /\ producer[p].lo \in 0..(MaxSequence + 1) /\ producer[p].at \in 0..(MaxSequence + 1)
            /\ lastOf(p) \in Int
        BY ProducerFields
      <3>4. producer[p].at + 1 \in 0..(MaxSequence + 1)
        BY <1>0, <2>3, <3>3, MaxSequenceAssumption DEF Placed, PlacedAt
      <3>5. /\ producer' \in [Producers -> ProducerState] /\ Others(p) /\ SameCall(p)
            /\ producer'[p].pc = "publish" /\ producer'[p].lo = producer[p].lo /\ producer'[p].at = producer[p].at + 1
        BY <1>0, <3>2, <3>3, <3>4, GoesOn
      <3> QED
        BY <1>0, <1>2, <2>1, <2>3, <3>5 DEF PublishesOne
    <2> QED
      BY <2>2, <2>3
  <1> QED
    BY <1>1, <1>2 DEF Typed

\* Every action of a producer is one of the steps.
LEMMA ProduceIsStep ==
  ASSUME Typed, Placed, NEW p \in Producers, Produce(p)
  PROVE  /\ producerType' = producerType /\ cachedValue' \in SequenceValue
         /\ producer' \in [Producers -> ProducerState]
         /\ ProduceStep(p)
  <1>0. 1 \in 1..BufferSize /\ RequestSizes \subseteq 1..BufferSize
    BY BufferSizeNat, PollerAssumption
  <1>1. CASE publishEvent(p)
    BY <1>0, <1>1, PublishCalls DEF publishEvent, ProduceStep
  <1>2. CASE tryPublishEvent(p)
    BY <1>0, <1>2, TryCalls DEF tryPublishEvent, ProduceStep
  <1>3. ASSUME NEW n \in RequestSizes, publishEvents(p, n) \/ tryPublishEvents(p, n)
        PROVE  /\ producerType' = producerType /\ cachedValue' \in SequenceValue
               /\ producer' \in [Producers -> ProducerState]
               /\ ProduceStep(p)
    <2>1. CASE publishEvents(p, n)
      BY <1>0, <2>1, PublishCalls DEF publishEvents, ProduceStep
    <2>2. CASE tryPublishEvents(p, n)
      BY <1>0, <2>2, TryCalls DEF tryPublishEvents, ProduceStep
    <2> QED
      BY <1>3, <2>1, <2>2
  <1>4. CASE nextMulti(p)
    BY <1>4, NextMultiClaims DEF ProduceStep, nextMulti, Typed
  <1>5. CASE nextSingle(p)
    BY <1>5, NextSingleWaits DEF ProduceStep, nextSingle, Typed
  <1>6. CASE nextReturns(p)
    BY <1>6, NextReturnsReturns DEF ProduceStep, nextReturns
  <1>7. CASE translateTo(p)
    BY <1>7, TranslatorIsDone DEF ProduceStep, translateTo, Typed
  <1>8. CASE NoTranslator(p)
    BY <1>8, TranslatorIsDone DEF ProduceStep, NoTranslator, ring, Typed
  <1>9. CASE TranslatorThrows(p)
    BY <1>9, TranslatorThrowsThrows DEF ProduceStep, TranslatorThrows, ring, Typed
  <1>10. CASE TranslatorOfBatchThrows(p)
    BY <1>10, BatchThrowsThrows DEF ProduceStep, TranslatorOfBatchThrows, ring, Typed
  <1>11. CASE publish(p)
    BY <1>11, PublishPublishes DEF ProduceStep, publish, Typed
  <1> QED
    BY <1>1, <1>2, <1>3, <1>4, <1>5, <1>6, <1>7, <1>8, <1>9, <1>10, <1>11 DEF Produce

-----------------------------------------------------------------------------
(* Every action of a poller is one of these steps                          *)

OtherPollers(c) == \A d \in Pollers \ {c} : poller'[d] = poller[d]

Polls(c) ==
    /\ poller[c].pc = "out" /\ poller'[c].pc = "handle"
    /\ batch[c] = <<>>
    /\ poller'[c].next = sequence[c] + 1
    /\ poller'[c].processed = sequence[c]
    /\ poller'[c].available \in Int /\ sequence[c] < poller'[c].available
    /\ (sequence[c] + 1)..poller'[c].available \subseteq published
    /\ \A d \in GatedBy[c] : poller'[c].available <= sequence[d]
    /\ OtherPollers(c)
    /\ UNCHANGED <<sequence, batch, taken>>

Handles(c) ==
    /\ poller[c].pc = "handle"
    /\ poller'[c].processed = poller[c].next
    /\ poller'[c].next = poller[c].next + 1
    /\ poller'[c].available = poller[c].available
    /\ \/ poller'[c].pc = "handle" /\ poller[c].next < poller[c].available
       \/ poller'[c].pc = "set"
    /\ \/ c \notin Batched /\ UNCHANGED batch
       \/ c \in Batched /\ batch' = [batch EXCEPT ![c] = Append(batch[c], poller[c].next)]
    /\ OtherPollers(c)
    /\ UNCHANGED <<sequence, taken>>

HandlerThrows(c) ==
    /\ poller[c].pc = "handle" /\ poller'[c].pc = "set"
    /\ c \notin Batched
    /\ poller'[c].processed = poller[c].processed
    /\ poller'[c].next = poller[c].next
    /\ poller'[c].available = poller[c].available
    /\ OtherPollers(c)
    /\ UNCHANGED <<sequence, batch, taken>>

LetsGo(c) ==
    /\ poller[c].pc = "set" /\ poller'[c].pc = "out"
    /\ sequence' = [sequence EXCEPT ![c] = poller[c].processed]
    /\ OtherPollers(c)
    /\ UNCHANGED <<batch, taken>>

TakesOne(c) ==
    /\ poller[c].pc = "out"
    /\ batch[c] # <<>>
    /\ batch' = [batch EXCEPT ![c] = Tail(batch[c])]
    /\ taken' = [taken EXCEPT ![c] = taken[c] + 1]
    /\ UNCHANGED <<sequence, poller>>

PullStep(c) ==
    /\ UNCHANGED <<ring, producer, history>>
    /\ Polls(c) \/ Handles(c) \/ HandlerThrows(c) \/ LetsGo(c) \/ TakesOne(c)

\* The types of what a poller keeps.
LEMMA PollerFields ==
  ASSUME Typed, NEW c \in Pollers
  PROVE  /\ poller[c] \in PollerState
         /\ poller[c].next \in 0..(MaxSequence + 1)
         /\ poller[c].available \in SequenceValue
         /\ poller[c].processed \in SequenceValue
         /\ sequence[c] \in SequenceValue
         /\ poller[c].next \in Int /\ poller[c].available \in Int /\ poller[c].processed \in Int
         /\ sequence[c] \in Int /\ -1 <= sequence[c]
  <1>1. poller[c] \in PollerState /\ sequence[c] \in SequenceValue
    BY DEF Typed
  <1>2. /\ poller[c].next \in 0..(MaxSequence + 1)
        /\ poller[c].available \in SequenceValue
        /\ poller[c].processed \in SequenceValue
    BY <1>1 DEF PollerState
  <1>3. poller[c].available \in Int /\ poller[c].processed \in Int /\ sequence[c] \in Int /\ -1 <= sequence[c]
    BY <1>1, <1>2, SequenceValueIsInt
  <1>4. poller[c].next \in Int
    BY <1>2, MaxSequenceAssumption
  <1> QED
    BY <1>1, <1>2, <1>3, <1>4

\* A poller is given a new state.
LEMMA PollerMoves ==
  ASSUME Typed, NEW c \in Pollers, NEW r \in PollerState, poller' = [poller EXCEPT ![c] = r]
  PROVE  poller' \in [Pollers -> PollerState] /\ OtherPollers(c) /\ poller'[c] = r
  <1>1. poller \in [Pollers -> PollerState]
    BY DEF Typed
  <1> QED
    BY <1>1 DEF OtherPollers

\* poll() found something.
LEMMA PollPolls ==
  ASSUME Typed, Claims, Pulls, NEW c \in Pollers, poll(c)
  PROVE  poller' \in [Pollers -> PollerState] /\ Polls(c)
  <1> DEFINE a == getHighestPublishedSequence(sequence[c] + 1, gatingSequence(c))
             r == [pc |-> "handle", next |-> sequence[c] + 1, available |-> a, processed |-> sequence[c]]
  <1>1. /\ poller[c].pc = "out" /\ batch[c] = <<>> /\ sequence[c] + 1 <= a
        /\ poller' = [poller EXCEPT ![c] = r]
        /\ UNCHANGED <<sequence, batch, taken>>
    BY DEF poll
  <1>2. /\ a \in SequenceValue
        /\ (sequence[c] + 1)..a \subseteq published
        /\ \A d \in GatedBy[c] : a <= sequence[d]
    BY <1>1, PollIsTold
  <1>3. sequence[c] + 1 \in 0..(MaxSequence + 1) /\ sequence[c] \in SequenceValue
    BY PollerFields, SequenceValueIsInt, MaxSequenceAssumption
  <1> HIDE DEF a
  <1>4. r \in PollerState
    BY <1>2, <1>3 DEF PollerState
  <1>5. poller' \in [Pollers -> PollerState] /\ OtherPollers(c) /\ poller'[c] = r
    BY <1>1, <1>4, PollerMoves
  <1>6. poller'[c].pc = "handle" /\ poller'[c].next = sequence[c] + 1 /\ poller'[c].available = a
        /\ poller'[c].processed = sequence[c]
    BY <1>5
  <1>7. a \in Int /\ sequence[c] < a
    BY <1>1, <1>2, <1>3, SequenceValueIsInt
  <1> QED
    BY <1>1, <1>2, <1>5, <1>6, <1>7 DEF Polls

\* The handler returned.
LEMMA HandledMoves ==
  ASSUME Typed, Pulls, NEW c \in Pollers, NEW more \in BOOLEAN, poller[c].pc = "handle", Handled(c, more)
  PROVE  /\ poller' \in [Pollers -> PollerState] /\ OtherPollers(c)
         /\ poller'[c].processed = poller[c].next
         /\ poller'[c].next = poller[c].next + 1
         /\ poller'[c].available = poller[c].available
         /\ \/ poller'[c].pc = "handle" /\ poller[c].next < poller[c].available
            \/ poller'[c].pc = "set"
  <1> DEFINE pc == IF more /\ poller[c].next < poller[c].available THEN "handle" ELSE "set"
             r == [poller[c] EXCEPT !.processed = poller[c].next, !.next = poller[c].next + 1, !.pc = pc]
  <1>1. poller' = [poller EXCEPT ![c] = r]
    BY DEF Handled
  <1>2. pc \in {"handle", "set"} /\ (pc = "handle" => poller[c].next < poller[c].available)
    OBVIOUS
  <1>3. poller[c].next <= poller[c].available
    BY DEF Pulls
  <1>4. poller[c].next \in SequenceValue /\ poller[c].next + 1 \in 0..(MaxSequence + 1)
    BY <1>3, PollerFields, SequenceValueIsInt, MaxSequenceAssumption DEF SequenceValue, INITIAL_CURSOR_VALUE
  <1> HIDE DEF pc
  <1>5. /\ r \in PollerState /\ r.processed = poller[c].next /\ r.next = poller[c].next + 1
        /\ r.available = poller[c].available /\ r.pc = pc
    BY <1>2, <1>4, PollerFields DEF PollerState
  <1> HIDE DEF r
  <1>6. poller' \in [Pollers -> PollerState] /\ OtherPollers(c) /\ poller'[c] = r
    BY <1>1, <1>5, PollerMoves
  <1> QED
    BY <1>2, <1>5, <1>6

\* Every action of a poller is one of the steps.
LEMMA PullIsStep ==
  ASSUME Typed, Claims, Pulls, NEW c \in Pollers, Pull(c)
  PROVE  poller' \in [Pollers -> PollerState] /\ PullStep(c)
  <1>0. UNCHANGED <<ring, producer, history>>
    BY DEF Pull, poll, onEvent, onEventThrows, addDataItem, SetSequence, pollMessage
  <1>1. CASE poll(c)
    BY <1>0, <1>1, PollPolls DEF PullStep
  <1>2. CASE onEvent(c)
    <2>1. PICK more \in BOOLEAN : Handled(c, more)
      BY <1>2 DEF onEvent
    <2>2. poller[c].pc = "handle" /\ c \notin Batched /\ UNCHANGED <<sequence, batch, taken>>
      BY <1>2 DEF onEvent
    <2> QED
      BY <1>0, <2>1, <2>2, HandledMoves DEF PullStep, Handles
  <1>3. CASE addDataItem(c)
    <2> DEFINE more == Len(batch[c]) + 1 < BatchSize[c]
    <2>1. Handled(c, more)
      BY <1>3 DEF addDataItem
    <2>2. more \in BOOLEAN
      OBVIOUS
    <2>3. /\ poller[c].pc = "handle" /\ c \in Batched /\ UNCHANGED <<sequence, taken>>
          /\ batch' = [batch EXCEPT ![c] = Append(batch[c], poller[c].next)]
      BY <1>3 DEF addDataItem
    <2> HIDE DEF more
    <2> QED
      BY <1>0, <2>1, <2>2, <2>3, HandledMoves DEF PullStep, Handles
  <1>4. CASE onEventThrows(c)
    <2> DEFINE r == [poller[c] EXCEPT !.pc = "set"]
    <2>1. poller' = [poller EXCEPT ![c] = r]
      <3>1. poller \in [Pollers -> PollerState] /\ poller[c] \in PollerState
        BY DEF Typed
      <3> QED
        BY <1>4, <3>1 DEF onEventThrows, PollerState
    <2>2. /\ r \in PollerState /\ r.processed = poller[c].processed /\ r.next = poller[c].next
          /\ r.available = poller[c].available /\ r.pc = "set"
      BY PollerFields DEF PollerState
    <2> HIDE DEF r
    <2>3. poller' \in [Pollers -> PollerState] /\ OtherPollers(c) /\ poller'[c] = r
      BY <2>1, <2>2, PollerMoves
    <2>4. poller[c].pc = "handle" /\ c \notin Batched /\ UNCHANGED <<sequence, batch, taken>>
      BY <1>4 DEF onEventThrows
    <2> QED
      BY <1>0, <2>2, <2>3, <2>4 DEF PullStep, HandlerThrows
  <1>5. CASE SetSequence(c)
    <2>1. NotPolling \in PollerState /\ NotPolling.pc = "out"
      BY MaxSequenceAssumption DEF NotPolling, PollerState, SequenceValue, INITIAL_CURSOR_VALUE
    <2>2. poller' = [poller EXCEPT ![c] = NotPolling]
      BY <1>5 DEF SetSequence
    <2>3. poller' \in [Pollers -> PollerState] /\ OtherPollers(c) /\ poller'[c].pc = "out"
      BY <2>1, <2>2, PollerMoves
    <2> QED
      BY <1>0, <1>5, <2>3 DEF PullStep, LetsGo, SetSequence
  <1>6. CASE pollMessage(c)
    BY <1>0, <1>6 DEF PullStep, TakesOne, pollMessage, Typed
  <1> QED
    BY <1>1, <1>2, <1>3, <1>4, <1>5, <1>6 DEF Pull

-----------------------------------------------------------------------------
(* Types                                                                   *)

\* The types hold at the start.
LEMMA InitTyped == Init => Typed
  <1> SUFFICES ASSUME Init PROVE Typed
    OBVIOUS
  <1>1. INITIAL_CURSOR_VALUE \in SequenceValue
    BY MaxSequenceAssumption DEF INITIAL_CURSOR_VALUE, SequenceValue
  <1>2. Idle \in ProducerState
    BY BufferSizeNat, MaxSequenceAssumption DEF Idle, ProducerState
  <1>3. NotPolling \in PollerState
    BY MaxSequenceAssumption DEF NotPolling, PollerState, SequenceValue, INITIAL_CURSOR_VALUE
  <1> QED
    BY <1>1, <1>2, <1>3 DEF Init, Typed

\* Producers keep the types.
LEMMA ProduceTyped ==
  ASSUME Typed, Placed, NEW p \in Producers, Produce(p)
  PROVE  Typed'
  <1>0. /\ producerType' = producerType /\ cachedValue' \in SequenceValue
        /\ producer' \in [Producers -> ProducerState]
        /\ ProduceStep(p)
    BY ProduceIsStep
  <1>1. UNCHANGED pulling
    BY <1>0 DEF ProduceStep, Calls, Gives, ClaimsMulti, WaitsSingle, Returns, Translates, Throws, BatchThrows,
                PublishesOne, PublishesAll
  <1>2. /\ sequence' \in [Pollers -> SequenceValue] /\ poller' \in [Pollers -> PollerState]
        /\ batch' \in [Pollers -> Seq(Nat)] /\ taken' \in [Pollers -> Nat]
    BY <1>1 DEF Typed, pulling
  <1>3. claimed \in Int /\ -1 <= claimed /\ claimed <= MaxSequence /\ published \subseteq 0..claimed
        /\ entries \in [Slots -> SequenceValue]
    BY SequenceValueIsInt DEF Typed
  <1>4. producer[p].n \in Int /\ producer[p].n >= 0 /\ producer[p].at \in Int /\ lastOf(p) \in Int
        /\ producer[p].at >= 0 /\ producer[p].lo \in Int /\ producer[p].lo >= 0
    BY ProducerFields
  <1>5. /\ claimed' \in SequenceValue
        /\ published' \subseteq 0..claimed'
        /\ entries' \in [Slots -> SequenceValue]
    <2>1. CASE Calls(p) \/ Gives(p) \/ Throws(p) \/ BatchThrows(p)
      BY <2>1 DEF Calls, Gives, Throws, BatchThrows, Typed
    <2>2. CASE ClaimsMulti(p)
      <3>1. claimed' = claimed + producer[p].n /\ claimed + producer[p].n <= MaxSequence
            /\ published' = published /\ entries' = entries
        BY <2>2 DEF ClaimsMulti
      <3>2. claimed' \in SequenceValue
        BY <1>3, <1>4, <3>1, MaxSequenceAssumption DEF SequenceValue, INITIAL_CURSOR_VALUE
      <3>3. published' \subseteq 0..claimed'
        BY <1>3, <1>4, <3>1
      <3> QED
        BY <1>3, <3>1, <3>2, <3>3
    <2>3. CASE WaitsSingle(p)
      BY <1>3, <2>3 DEF WaitsSingle, Typed
    <2>4. CASE Returns(p)
      <3>1. published' = published /\ entries' = entries
        BY <2>4 DEF Returns
      <3>2. claimed' = claimed \/ (claimed' = lastOf(p) /\ claimed <= lastOf(p) /\ lastOf(p) <= MaxSequence)
        <4>1. CASE producerType = "MULTI"
          BY <2>4, <4>1 DEF Returns
        <4>2. CASE producerType = "SINGLE"
          <5>1. producer[p].pc = "wait" /\ claimed' = lastOf(p)
            BY <2>4, <4>2 DEF Returns
          <5>2. lastOf(p) <= MaxSequence /\ producer[p].lo = claimed + 1
            BY <4>2, <5>1 DEF Placed, PlacedAt
          <5>3. lastOf(p) = claimed + producer[p].n
            BY <1>3, <1>4, <5>2 DEF lastOf
          <5> QED
            BY <1>3, <1>4, <5>1, <5>2, <5>3
        <4> QED
          BY <4>1, <4>2 DEF Typed
      <3>3. claimed' \in SequenceValue /\ claimed <= claimed' /\ claimed' \in Int
        BY <1>3, <1>4, <3>2, MaxSequenceAssumption DEF SequenceValue, INITIAL_CURSOR_VALUE
      <3>4. published' \subseteq 0..claimed'
        BY <1>3, <3>1, <3>3
      <3> QED
        BY <1>3, <3>1, <3>3, <3>4
    <2>5. CASE Translates(p)
      <3>1. claimed' = claimed /\ published' = published
        BY <2>5 DEF Translates
      <3>2. producer[p].at \in SequenceValue
        BY <1>4, <2>5, MaxSequenceAssumption DEF Translates, Placed, PlacedAt, SequenceValue, INITIAL_CURSOR_VALUE
      <3>3. entries' \in [Slots -> SequenceValue]
        BY <1>3, <2>5, <3>2 DEF Translates
      <3> QED
        BY <3>1, <3>3 DEF Typed
    <2>6. CASE PublishesOne(p)
      <3>1. claimed' = claimed /\ entries' = entries /\ published' = published \cup {producer[p].at}
            /\ producer[p].pc = "publish"
        BY <2>6 DEF PublishesOne
      <3>2. producer[p].at <= lastOf(p) /\ lastOf(p) <= claimed
        BY <3>1 DEF Placed, PlacedAt, Owns
      <3>3. producer[p].at \in 0..claimed
        BY <1>3, <1>4, <3>2
      <3> QED
        BY <3>1, <3>3 DEF Typed
    <2>7. CASE PublishesAll(p)
      <3>1. claimed' = claimed /\ entries' = entries /\ published' = 0..lastOf(p)
            /\ producer[p].pc = "publish"
        BY <2>7 DEF PublishesAll
      <3>2. lastOf(p) <= claimed
        BY <3>1 DEF Placed, PlacedAt, Owns
      <3>3. 0..lastOf(p) \subseteq 0..claimed
        BY <1>3, <1>4, <3>2
      <3> QED
        BY <3>1, <3>3 DEF Typed
    <2> QED
      BY <1>0, <2>1, <2>2, <2>3, <2>4, <2>5, <2>6, <2>7 DEF ProduceStep
  <1> QED
    BY <1>0, <1>2, <1>5 DEF Typed

\* Pollers keep the types.
LEMMA PullTyped ==
  ASSUME Typed, Claims, Pulls, NEW c \in Pollers, Pull(c)
  PROVE  Typed'
  <1>1. poller' \in [Pollers -> PollerState] /\ PullStep(c)
    BY PullIsStep
  <1>2. UNCHANGED <<producerType, claimed, cachedValue, published, entries, producer>>
    BY <1>1 DEF PullStep, ring
  <1>3. sequence' \in [Pollers -> SequenceValue]
    <2>1. poller[c].processed \in SequenceValue /\ sequence \in [Pollers -> SequenceValue]
      BY PollerFields DEF Typed
    <2> QED
      BY <1>1, <2>1 DEF PullStep, Polls, Handles, HandlerThrows, LetsGo, TakesOne
  <1>4. taken' \in [Pollers -> Nat]
    <2>1. taken \in [Pollers -> Nat]
      BY DEF Typed
    <2> QED
      BY <1>1, <2>1 DEF PullStep, Polls, Handles, HandlerThrows, LetsGo, TakesOne
  <1>5. batch' \in [Pollers -> Seq(Nat)]
    <2>1. batch \in [Pollers -> Seq(Nat)] /\ batch[c] \in Seq(Nat)
      BY DEF Typed
    <2>2. CASE Handles(c)
      <3>1. poller[c].next \in Nat
        BY PollerFields
      <3>2. Append(batch[c], poller[c].next) \in Seq(Nat)
        BY <2>1, <3>1
      <3> QED
        BY <2>1, <2>2, <3>2 DEF Handles
    <2>3. CASE TakesOne(c)
      <3>1. batch[c] # <<>> /\ batch' = [batch EXCEPT ![c] = Tail(batch[c])]
        BY <2>3 DEF TakesOne
      <3>2. Tail(batch[c]) \in Seq(Nat)
        BY <2>1, <3>1
      <3> QED
        BY <2>1, <3>1, <3>2
    <2> QED
      BY <1>1, <2>1, <2>2, <2>3 DEF PullStep, Polls, HandlerThrows, LetsGo
  <1> QED
    BY <1>1, <1>2, <1>3, <1>4, <1>5 DEF Typed

-----------------------------------------------------------------------------
(* Where producers are in their claims                                     *)

\* Nobody but TheProducer is busy with a single-producer sequencer.
LEMMA ProducerIsAlone ==
  ASSUME Typed, Placed, NEW p \in Producers, NEW q \in Producers \ {p}, producerType = "SINGLE", ProduceStep(p)
  PROVE  producer[q].pc = "out" \/ Gives(p)
  <1>1. producer[p].pc # "out" => p = TheProducer
    BY DEF Placed, PlacedAt
  <1>2. Calls(p) => p = TheProducer
    BY DEF Calls
  <1>3. Calls(p) \/ Gives(p) \/ producer[p].pc # "out"
    BY DEF ProduceStep, ClaimsMulti, WaitsSingle, Returns, Translates, Throws, BatchThrows, PublishesOne, PublishesAll
  <1>4. producer[q].pc # "out" => q = TheProducer
    BY DEF Placed, PlacedAt
  <1> QED
    BY <1>1, <1>2, <1>3, <1>4

\* What is claimed stays claimed; what is published stays published.
LEMMA ClaimedGrows ==
  ASSUME Typed, Placed, NEW p \in Producers, ProduceStep(p)
  PROVE  claimed \in Int /\ -1 <= claimed /\ claimed' \in Int /\ claimed <= claimed'
  <1>1. claimed \in Int /\ -1 <= claimed /\ producer[p].n \in Int /\ producer[p].n >= 0 /\ lastOf(p) \in Int
        /\ producer[p].lo \in Int
    BY ProducerFields, SequenceValueIsInt DEF Typed
  <1>2. CASE ClaimsMulti(p)
    BY <1>1, <1>2 DEF ClaimsMulti
  <1>3. CASE Returns(p)
    <2>1. CASE producerType = "MULTI"
      BY <1>1, <1>3, <2>1 DEF Returns
    <2>2. CASE producerType = "SINGLE"
      <3>1. claimed' = lastOf(p) /\ producer[p].lo = claimed + 1
        BY <1>3, <2>2 DEF Returns, Placed, PlacedAt
      <3>2. lastOf(p) = claimed + producer[p].n
        BY <1>1, <3>1 DEF lastOf
      <3> QED
        BY <1>1, <3>1, <3>2
    <2> QED
      BY <2>1, <2>2 DEF Typed
  <1>4. CASE ~ClaimsMulti(p) /\ ~Returns(p)
    <2>1. claimed' = claimed
      BY <1>4 DEF ProduceStep, Calls, Gives, WaitsSingle, Translates, Throws, BatchThrows, PublishesOne, PublishesAll
    <2> QED
      BY <1>1, <2>1
  <1> QED
    BY <1>2, <1>3, <1>4

\* A producer that does not move keeps its place.
LEMMA StaysPlaced ==
  ASSUME Typed, Placed, NEW q \in Producers, producerType' = producerType,
         producer'[q].pc = producer[q].pc, producer'[q].n = producer[q].n,
         producer'[q].lo = producer[q].lo, producer'[q].at = producer[q].at,
         producer'[q].single = producer[q].single,
         claimed \in Int, claimed' \in Int, claimed <= claimed',
         producerType = "SINGLE" => producer[q].pc = "out" \/ claimed' = claimed
  PROVE  PlacedAt(q)'
  <1>1. lastOf(q)' = lastOf(q) /\ lastOf(q) \in Int
    BY ProducerFields DEF lastOf
  <1>2. Owns(q)' = Owns(q)
    BY DEF Owns
  <1>3. PlacedAt(q)
    BY DEF Placed
  <1>4. Owns(q) => lastOf(q) <= claimed'
    BY <1>1, <1>3 DEF PlacedAt
  <1> QED
    BY <1>1, <1>2, <1>3, <1>4 DEF PlacedAt

\* A producer moves to the next place of its call.
LEMMA ProducePlaced ==
  ASSUME Typed, Placed, NEW p \in Producers, Produce(p)
  PROVE  Placed'
  <1>0. producerType' = producerType /\ ProduceStep(p)
    BY ProduceIsStep
  <1>1. claimed \in Int /\ -1 <= claimed /\ claimed' \in Int /\ claimed <= claimed'
    BY <1>0, ClaimedGrows
  <1>2. CASE Gives(p)
    <2>1. producer' = producer /\ claimed' = claimed
      BY <1>2 DEF Gives
    <2> QED
      BY <1>0, <2>1 DEF Placed, PlacedAt, Owns, lastOf
  <1>3. CASE ~Gives(p)
    <2>1. ASSUME NEW q \in Producers \ {p} PROVE PlacedAt(q)'
      <3>1. producerType = "SINGLE" => producer[q].pc = "out"
        BY <1>0, <1>3, ProducerIsAlone
      <3>2. /\ producer'[q].pc = producer[q].pc /\ producer'[q].n = producer[q].n
            /\ producer'[q].lo = producer[q].lo /\ producer'[q].at = producer[q].at
            /\ producer'[q].single = producer[q].single
        BY <1>0, <1>3 DEF ProduceStep, Calls, ClaimsMulti, WaitsSingle, Returns, Translates, Throws, BatchThrows,
                          PublishesOne, PublishesAll, Others
      <3> QED
        BY <1>0, <1>1, <3>1, <3>2, StaysPlaced
    <2>2. PlacedAt(p)'
      <3>0. /\ producer[p].n \in Int /\ producer[p].lo \in Int /\ producer[p].at \in Int /\ lastOf(p) \in Int
            /\ lastOf(p) = producer[p].lo + producer[p].n - 1
            /\ lastOf(p)' = producer'[p].lo + producer'[p].n - 1
        BY ProducerFields DEF lastOf
      <3>1. PlacedAt(p)
        BY DEF Placed
      <3>2. CASE Calls(p)
        <4>1. /\ producer'[p].pc = "next" /\ producer'[p].n \in 1..BufferSize
              /\ (producer'[p].single => producer'[p].n = 1) /\ claimed + producer'[p].n <= MaxSequence
              /\ (producerType = "SINGLE" => p = TheProducer) /\ claimed' = claimed
          BY <3>2 DEF Calls
        <4>2. producer'[p].n >= 1
          BY <4>1, BufferSizeNat
        <4> QED
          BY <1>0, <4>1, <4>2 DEF PlacedAt, Owns
      <3>3. CASE ClaimsMulti(p)
        <4>1. /\ producer[p].pc = "next" /\ producer'[p].pc = "wait" /\ producerType = "MULTI"
              /\ claimed + producer[p].n <= MaxSequence /\ claimed' = claimed + producer[p].n
              /\ producer'[p].lo = claimed + 1 /\ producer'[p].at = claimed + 1
              /\ producer'[p].n = producer[p].n /\ producer'[p].single = producer[p].single
          BY <3>3 DEF ClaimsMulti, SameCall
        <4>2. producer[p].n >= 1 /\ (producer[p].single => producer[p].n = 1)
          BY <3>1, <4>1 DEF PlacedAt
        <4>3. lastOf(p)' = claimed + producer[p].n
          BY <1>1, <3>0, <4>1
        <4>4. claimed + 1 <= lastOf(p)'
          BY <1>1, <3>0, <4>2, <4>3
        <4> QED
          BY <1>0, <1>1, <4>1, <4>2, <4>3, <4>4 DEF PlacedAt, Owns
      <3>4. CASE WaitsSingle(p)
        <4>1. /\ producer[p].pc = "next" /\ producer'[p].pc = "wait" /\ producerType = "SINGLE" /\ claimed' = claimed
              /\ producer'[p].lo = claimed + 1 /\ producer'[p].at = claimed + 1
              /\ producer'[p].n = producer[p].n /\ producer'[p].single = producer[p].single
          BY <3>4 DEF WaitsSingle, SameCall
        <4>2. producer[p].n >= 1 /\ (producer[p].single => producer[p].n = 1) /\ p = TheProducer
              /\ claimed + producer[p].n <= MaxSequence
          BY <3>1, <4>1 DEF PlacedAt
        <4>3. lastOf(p)' = claimed + producer[p].n
          BY <1>1, <3>0, <4>1
        <4>4. claimed + 1 <= lastOf(p)'
          BY <1>1, <3>0, <4>2, <4>3
        <4> QED
          BY <1>0, <1>1, <4>1, <4>2, <4>3, <4>4 DEF PlacedAt, Owns
      <3>5. CASE Returns(p)
        <4>1. /\ producer[p].pc = "wait" /\ producer'[p].pc = "translate"
              /\ (producerType = "MULTI" => claimed' = claimed) /\ (producerType = "SINGLE" => claimed' = lastOf(p))
              /\ producer'[p].lo = producer[p].lo /\ producer'[p].at = producer[p].at
              /\ producer'[p].n = producer[p].n /\ producer'[p].single = producer[p].single
          BY <3>5 DEF Returns, SameCall
        <4>2. lastOf(p)' = lastOf(p)
          BY <3>0, <4>1
        <4>3. lastOf(p) <= claimed'
          <5>1. CASE producerType = "MULTI"
            BY <3>1, <4>1, <5>1 DEF PlacedAt, Owns
          <5>2. CASE producerType = "SINGLE"
            BY <3>0, <4>1, <5>2
          <5> QED
            BY <5>1, <5>2 DEF Typed
        <4>4. (producerType = "SINGLE" => p = TheProducer /\ lastOf(p) = claimed')
          BY <3>1, <4>1 DEF PlacedAt
        <4> QED
          BY <1>0, <3>1, <4>1, <4>2, <4>3, <4>4 DEF PlacedAt, Owns
      <3>6. CASE Translates(p)
        <4>1. /\ producer[p].pc = "translate" /\ claimed' = claimed
              /\ \/ producer'[p].pc = "publish" /\ producer'[p].at = producer[p].lo
                 \/ producer[p].at # lastOf(p) /\ producer'[p].pc = "translate" /\ producer'[p].at = producer[p].at + 1
              /\ producer'[p].lo = producer[p].lo
              /\ producer'[p].n = producer[p].n /\ producer'[p].single = producer[p].single
          BY <3>6 DEF Translates, SameCall
        <4>2. lastOf(p)' = lastOf(p)
          BY <3>0, <4>1
        <4>3. producer[p].lo <= producer[p].at /\ producer[p].at <= lastOf(p)
          BY <3>1, <4>1 DEF PlacedAt
        <4>4. producer[p].lo <= producer'[p].at /\ producer'[p].at <= lastOf(p)
          BY <3>0, <4>1, <4>3
        <4> QED
          BY <1>0, <3>1, <4>1, <4>2, <4>4 DEF PlacedAt, Owns
      <3>7. CASE Throws(p) \/ PublishesAll(p)
        BY <3>7 DEF Throws, PublishesAll, PlacedAt, Owns
      <3>8. CASE BatchThrows(p)
        <4>1. /\ producer[p].pc = "translate" /\ producer'[p].pc = "publish" /\ claimed' = claimed
              /\ producer'[p].lo = producer[p].lo /\ producer'[p].at = producer[p].lo
              /\ producer'[p].n = producer[p].n /\ producer'[p].single = producer[p].single
          BY <3>8 DEF BatchThrows, SameCall
        <4>2. lastOf(p)' = lastOf(p)
          BY <3>0, <4>1
        <4>3. producer[p].lo <= producer[p].lo /\ producer[p].lo <= lastOf(p)
          BY <3>0, <3>1, <4>1 DEF PlacedAt
        <4> QED
          BY <1>0, <3>1, <4>1, <4>2, <4>3 DEF PlacedAt, Owns
      <3>9. CASE PublishesOne(p)
        <4>1. CASE producer'[p].pc = "out"
          BY <4>1 DEF PlacedAt, Owns
        <4>2. CASE producer'[p].pc # "out"
          <5>1. /\ producer[p].pc = "publish" /\ producer'[p].pc = "publish" /\ claimed' = claimed
                /\ producer[p].at # lastOf(p)
                /\ producer'[p].lo = producer[p].lo /\ producer'[p].at = producer[p].at + 1
                /\ producer'[p].n = producer[p].n /\ producer'[p].single = producer[p].single
            BY <3>9, <4>2 DEF PublishesOne, SameCall
          <5>2. lastOf(p)' = lastOf(p)
            BY <3>0, <5>1
          <5>3. producer[p].lo <= producer[p].at /\ producer[p].at <= lastOf(p)
            BY <3>1, <5>1 DEF PlacedAt
          <5>4. producer[p].lo <= producer'[p].at /\ producer'[p].at <= lastOf(p)
            BY <3>0, <5>1, <5>3
          <5> QED
            BY <1>0, <3>1, <5>1, <5>2, <5>4 DEF PlacedAt, Owns
        <4> QED
          BY <4>1, <4>2
      <3> QED
        BY <1>0, <1>3, <3>2, <3>3, <3>4, <3>5, <3>6, <3>7, <3>8, <3>9 DEF ProduceStep
    <2> QED
      BY <2>1, <2>2 DEF Placed
  <1> QED
    BY <1>2, <1>3

\* Pollers do not move producers.
LEMMA PullPlaced ==
  ASSUME Placed, NEW c \in Pollers, PullStep(c)
  PROVE  Placed'
  <1>1. producerType' = producerType /\ claimed' = claimed /\ producer' = producer
    BY DEF PullStep, ring
  <1> QED
    BY <1>1 DEF Placed, PlacedAt, Owns, lastOf

-----------------------------------------------------------------------------
(* Whose a sequence is                                                     *)

\* Claims, sequence by sequence, is the statement about holes.
LEMMA ClaimsGiveHoles ==
  ASSUME Claims
  PROVE  HolesAreThrows
  <1>1. \A s : s \in UNION {Held(p) : p \in Producers} <=> \E p \in Producers : s \in Held(p)
    OBVIOUS
  <1> QED
    BY <1>1 DEF Claims, Covered, Holes, HolesAreThrows

\* What each kind of step does to the sequences its producer holds.
LEMMA HeldMoves ==
  ASSUME Typed, Placed, NEW p \in Producers, ProduceStep(p)
  PROVE  /\ \A q \in Producers \ {p} : Held(q)' = Held(q)
         /\ Calls(p) \/ Gives(p) => Held(p)' = Held(p)
         /\ ClaimsMulti(p) \/ WaitsSingle(p) => Held(p) = {} /\ Held(p)' = (claimed + 1)..(claimed + producer[p].n)
         /\ Returns(p) \/ Translates(p) \/ BatchThrows(p) => Held(p)' = Held(p) /\ Held(p) = producer[p].lo..lastOf(p)
         /\ Throws(p) => Held(p) = {producer[p].at} /\ Held(p)' = {}
         /\ PublishesOne(p) => /\ Held(p) = producer[p].lo..lastOf(p)
                               /\ \/ Held(p)' = Held(p) /\ producer[p].at # lastOf(p)
                                  \/ Held(p)' = {} /\ producer[p].at = lastOf(p)
         /\ PublishesAll(p) => Held(p)' = {}
  <1>0. /\ producer[p].n \in Int /\ producer[p].lo \in Int /\ producer[p].at \in Int /\ claimed \in Int
        /\ lastOf(p) = producer[p].lo + producer[p].n - 1
        /\ lastOf(p)' = producer'[p].lo + producer'[p].n - 1
    BY ProducerFields, SequenceValueIsInt DEF lastOf, Typed
  <1>1. ASSUME NEW q \in Producers \ {p} PROVE Held(q)' = Held(q)
    <2>1. /\ producer'[q].pc = producer[q].pc /\ producer'[q].n = producer[q].n /\ producer'[q].lo = producer[q].lo
      BY DEF ProduceStep, Calls, Gives, ClaimsMulti, WaitsSingle, Returns, Translates, Throws, BatchThrows,
             PublishesOne, PublishesAll, Others
    <2> QED
      BY <2>1 DEF Held, lastOf
  <1>2. Calls(p) \/ Gives(p) => Held(p)' = Held(p)
    BY DEF Calls, Gives, Held, lastOf
  <1>3. ASSUME ClaimsMulti(p) \/ WaitsSingle(p)
        PROVE  Held(p) = {} /\ Held(p)' = (claimed + 1)..(claimed + producer[p].n)
    <2>1. /\ producer[p].pc = "next" /\ producer'[p].pc = "wait"
          /\ producer'[p].lo = claimed + 1 /\ producer'[p].n = producer[p].n
      BY <1>3 DEF ClaimsMulti, WaitsSingle, SameCall
    <2>2. lastOf(p)' = claimed + producer[p].n
      BY <1>0, <2>1
    <2> QED
      BY <2>1, <2>2 DEF Held
  <1>4. ASSUME Returns(p) \/ Translates(p) \/ BatchThrows(p)
        PROVE  Held(p)' = Held(p) /\ Held(p) = producer[p].lo..lastOf(p)
    <2>1. /\ producer[p].pc \in {"wait", "translate"} /\ producer'[p].pc \in {"translate", "publish"}
          /\ producer'[p].lo = producer[p].lo /\ producer'[p].n = producer[p].n
      BY <1>4 DEF Returns, Translates, BatchThrows, SameCall
    <2> QED
      BY <2>1 DEF Held, lastOf
  <1>5. ASSUME Throws(p) PROVE Held(p) = {producer[p].at} /\ Held(p)' = {}
    <2>1. producer[p].pc = "translate" /\ producer[p].single /\ producer'[p].pc = "out"
      BY <1>5 DEF Throws
    <2>2. producer[p].n = 1 /\ producer[p].lo <= producer[p].at /\ producer[p].at <= lastOf(p)
      BY <2>1 DEF Placed, PlacedAt
    <2>3. producer[p].lo = producer[p].at /\ lastOf(p) = producer[p].at
      BY <1>0, <2>2
    <2>4. producer[p].at..producer[p].at = {producer[p].at}
      BY <1>0
    <2> QED
      BY <2>1, <2>3, <2>4 DEF Held
  <1>6. ASSUME PublishesOne(p)
        PROVE  /\ Held(p) = producer[p].lo..lastOf(p)
               /\ \/ Held(p)' = Held(p) /\ producer[p].at # lastOf(p)
                  \/ Held(p)' = {} /\ producer[p].at = lastOf(p)
    BY <1>6 DEF PublishesOne, SameCall, Held, lastOf
  <1>7. PublishesAll(p) => Held(p)' = {}
    BY DEF PublishesAll, Held
  <1> QED
    BY <1>1, <1>2, <1>3, <1>4, <1>5, <1>6, <1>7

\* What is held with MULTI is claimed.
LEMMA HeldIsClaimed ==
  ASSUME Typed, Placed, NEW p \in Producers, producerType = "MULTI"
  PROVE  Held(p) \subseteq 0..claimed
  <1>1. CASE producer[p].pc \in {"wait", "translate", "publish"}
    <2>1. lastOf(p) <= claimed /\ Held(p) = producer[p].lo..lastOf(p)
      BY <1>1 DEF Placed, PlacedAt, Owns, Held
    <2>2. producer[p].lo >= 0 /\ producer[p].lo \in Int /\ lastOf(p) \in Int /\ claimed \in Int
      BY ProducerFields, SequenceValueIsInt DEF Typed
    <2> QED
      BY <2>1, <2>2
  <1>2. CASE producer[p].pc \notin {"wait", "translate", "publish"}
    BY <1>2 DEF Held
  <1> QED
    BY <1>1, <1>2

\* Events are published, never withdrawn.
LEMMA PublishedGrows ==
  ASSUME Typed, Placed, NEW p \in Producers, ProduceStep(p)
  PROVE  /\ published \subseteq published'
         /\ ~(WaitsSingle(p) \/ PublishesOne(p) \/ PublishesAll(p)) => published' = published
  <1>1. CASE WaitsSingle(p)
    BY <1>1 DEF WaitsSingle, Typed
  <1>2. CASE PublishesOne(p)
    BY <1>2 DEF PublishesOne
  <1>3. CASE PublishesAll(p)
    <2>1. lastOf(p) = claimed /\ published' = 0..lastOf(p)
      BY <1>3 DEF PublishesAll, Placed, PlacedAt
    <2> QED
      BY <1>3, <2>1 DEF Typed
  <1>4. CASE ~(WaitsSingle(p) \/ PublishesOne(p) \/ PublishesAll(p))
    BY <1>4 DEF ProduceStep, Calls, Gives, ClaimsMulti, Returns, Translates, Throws, BatchThrows
  <1> QED
    BY <1>1, <1>2, <1>3, <1>4

\* No sequence is lost but by an exception.
LEMMA ProduceCovered ==
  ASSUME Typed, Placed, Claims, NEW p \in Producers, ProduceStep(p)
  PROVE  Covered'
  <1> SUFFICES ASSUME NEW s \in 0..claimed'
               PROVE  s \in published' \/ s \in thrown' \/ \E q \in Producers : s \in Held(q)'
    BY DEF Covered
  <1>0. published \subseteq published' /\ thrown \subseteq thrown' /\ s \in Int
    <2>1. thrown \subseteq thrown'
      BY DEF ProduceStep, Calls, Gives, ClaimsMulti, WaitsSingle, Returns, Translates, Throws, BatchThrows,
             PublishesOne, PublishesAll, history
    <2> QED
      BY <2>1, PublishedGrows, ClaimedGrows
  <1>1. claimed \in Int /\ claimed' \in Int /\ claimed <= claimed' /\ producer[p].n \in Int
    BY ClaimedGrows, ProducerFields
  <1>2. ASSUME NEW q \in Producers, s \in Held(q), q # p PROVE s \in Held(q)'
    BY <1>2, HeldMoves
  <1>3. s \in 0..claimed => s \in published \/ s \in thrown \/ \E q \in Producers : s \in Held(q)
    BY DEF Claims, Covered
  <1>4. CASE s \in 0..claimed /\ s \notin Held(p)
    BY <1>0, <1>2, <1>3, <1>4
  <1>5. CASE s \in Held(p) /\ Held(p)' = Held(p)
    BY <1>5
  <1>6. CASE s \in Held(p) /\ Throws(p)
    <2>1. s = producer[p].at
      BY <1>6, HeldMoves
    <2> QED
      BY <1>6, <2>1 DEF Throws
  <1>7. CASE s \in Held(p) /\ PublishesOne(p)
    <2>1. CASE producer[p].at # lastOf(p)
      BY <1>7, <2>1, HeldMoves
    <2>2. CASE producer[p].at = lastOf(p)
      <3>1. producer[p].pc = "publish" /\ published' = published \cup {producer[p].at}
        BY <1>7 DEF PublishesOne
      <3>2. producer[p].lo..(producer[p].at - 1) \subseteq published
        BY <3>1 DEF Claims, Unpublished
      <3>3. s \in producer[p].lo..lastOf(p)
        BY <1>7, HeldMoves
      <3>4. s = producer[p].at \/ s \in producer[p].lo..(producer[p].at - 1)
        BY <2>2, <3>3, ProducerFields
      <3> QED
        BY <3>1, <3>2, <3>4
    <2> QED
      BY <2>1, <2>2
  <1>8. CASE PublishesAll(p)
    <2>1. lastOf(p) = claimed /\ published' = 0..lastOf(p) /\ claimed' = claimed
      BY <1>8 DEF PublishesAll, Placed, PlacedAt
    <2> QED
      BY <2>1
  <1>9. CASE ClaimsMulti(p) /\ s \notin 0..claimed
    <2>1. claimed' = claimed + producer[p].n /\ Held(p)' = (claimed + 1)..(claimed + producer[p].n)
      BY <1>9, HeldMoves DEF ClaimsMulti
    <2>2. s \in (claimed + 1)..(claimed + producer[p].n)
      BY <1>1, <1>9, <2>1
    <2> QED
      BY <2>1, <2>2
  <1>10. CASE Returns(p) /\ s \notin 0..claimed
    <2>1. Held(p)' = producer[p].lo..lastOf(p)
      BY <1>10, HeldMoves
    <2>2. producerType = "SINGLE" /\ claimed' = lastOf(p)
      BY <1>10 DEF Returns, Typed
    <2>3. producer[p].lo = claimed + 1
      BY <1>10, <2>2 DEF Returns, Placed, PlacedAt
    <2>4. s \in producer[p].lo..lastOf(p)
      BY <1>1, <1>10, <2>2, <2>3, ProducerFields
    <2> QED
      BY <2>1, <2>4
  <1>11. ~ClaimsMulti(p) /\ ~Returns(p) => claimed' = claimed
    BY DEF ProduceStep, Calls, Gives, WaitsSingle, Translates, Throws, BatchThrows, PublishesOne, PublishesAll
  <1>12. s \in Held(p) => Throws(p) \/ PublishesOne(p) \/ PublishesAll(p) \/ Held(p)' = Held(p)
    BY HeldMoves DEF ProduceStep
  <1> QED
    BY <1>4, <1>5, <1>6, <1>7, <1>8, <1>9, <1>10, <1>11, <1>12

\* A translator that throws in publishEvent leaves its own sequence.
LEMMA ProduceThrown ==
  ASSUME Typed, Placed, Claims, NEW p \in Producers, ProduceStep(p), producerType' = producerType
  PROVE  ThrownIsUntranslated'
  <1>1. claimed \in Int /\ claimed' \in Int /\ claimed <= claimed'
    BY ClaimedGrows, ProducerFields
  <1>2. thrown \subseteq untranslated /\ thrown \subseteq 0..claimed
    BY DEF Claims, ThrownIsUntranslated
  <1>3. CASE Throws(p)
    <2>1. /\ thrown' = thrown \cup {producer[p].at} /\ untranslated' = untranslated \cup {producer[p].at}
          /\ claimed' = claimed /\ producer[p].pc = "translate"
      BY <1>3 DEF Throws
    <2>2. producer[p].at \in 0..claimed
      <3>1. producer[p].at <= lastOf(p) /\ lastOf(p) <= claimed
        BY <2>1 DEF Placed, PlacedAt, Owns
      <3> QED
        BY <1>1, <3>1, ProducerFields
    <2> QED
      BY <1>2, <2>1, <2>2 DEF ThrownIsUntranslated
  <1>4. CASE ~Throws(p)
    <2>1. thrown' = thrown /\ untranslated \subseteq untranslated'
      BY <1>4 DEF ProduceStep, Calls, Gives, ClaimsMulti, WaitsSingle, Returns, Translates, BatchThrows,
                  PublishesOne, PublishesAll, history
    <2>2. 0..claimed \subseteq 0..claimed'
      BY <1>1
    <2> QED
      BY <1>2, <2>1, <2>2 DEF ThrownIsUntranslated
  <1> QED
    BY <1>3, <1>4

\* Two producers never hold the same sequence.
LEMMA ProduceHeldApart ==
  ASSUME Typed, Placed, Claims, NEW p \in Producers, ProduceStep(p)
  PROVE  HeldApart'
  <1>1. ASSUME NEW q \in Producers, NEW r \in Producers \ {q} PROVE Held(q) \cap Held(r) = {}
    BY DEF Claims, HeldApart
  <1>2. ASSUME NEW q \in Producers \ {p} PROVE Held(q)' = Held(q) /\ Held(p)' \cap Held(q) = {}
    <2>1. Held(q)' = Held(q)
      BY HeldMoves
    <2>2. CASE ClaimsMulti(p)
      <3>1. Held(p)' = (claimed + 1)..(claimed + producer[p].n) /\ producerType = "MULTI"
        BY <2>2, HeldMoves DEF ClaimsMulti
      <3>2. Held(q) \subseteq 0..claimed
        BY <3>1, HeldIsClaimed
      <3>3. claimed \in Int /\ producer[p].n \in Int
        BY ClaimedGrows, ProducerFields
      <3> QED
        BY <2>1, <3>1, <3>2, <3>3
    <2>3. CASE WaitsSingle(p)
      <3>1. producerType = "SINGLE" /\ producer[p].pc = "next"
        BY <2>3 DEF WaitsSingle
      <3>2. producer[q].pc = "out"
        BY <3>1 DEF Placed, PlacedAt
      <3> QED
        BY <2>1, <3>2 DEF Held
    <2>4. CASE ~ClaimsMulti(p) /\ ~WaitsSingle(p)
      <3>1. Held(p)' \subseteq Held(p)
        BY <2>4, HeldMoves DEF ProduceStep
      <3> QED
        BY <1>1, <2>1, <3>1
    <2> QED
      BY <2>2, <2>3, <2>4
  <1>3. ASSUME NEW q \in Producers, NEW r \in Producers \ {q} PROVE Held(q)' \cap Held(r)' = {}
    <2>1. CASE q = p
      BY <1>2, <2>1
    <2>2. CASE r = p
      BY <1>2, <2>2
    <2>3. CASE q # p /\ r # p
      BY <1>1, <1>2, <2>3
    <2> QED
      BY <2>1, <2>2, <2>3
  <1> QED
    BY <1>3 DEF HeldApart

\* What a producer holds is unpublished until it publishes it.
LEMMA ProduceUnpublished ==
  ASSUME Typed, Placed, Claims, NEW p \in Producers, ProduceStep(p)
  PROVE  Unpublished'
  <1>0. /\ producer[p].n \in Int /\ producer[p].lo \in Int /\ producer[p].at \in Int /\ lastOf(p) \in Int
        /\ claimed \in Int
    BY ProducerFields, ClaimedGrows
  <1>1. ASSUME NEW q \in Producers \ {p}
        PROVE  /\ producer'[q].pc \in {"wait", "translate"} => Held(q)' \cap published' = {}
               /\ producer'[q].pc = "publish" =>
                     /\ (producer'[q].at..lastOf(q)') \cap published' = {}
                     /\ producer'[q].lo..(producer'[q].at - 1) \subseteq published'
    <2>1. /\ producer'[q].pc = producer[q].pc /\ producer'[q].n = producer[q].n
          /\ producer'[q].lo = producer[q].lo /\ producer'[q].at = producer[q].at
      BY DEF ProduceStep, Calls, Gives, ClaimsMulti, WaitsSingle, Returns, Translates, Throws, BatchThrows,
             PublishesOne, PublishesAll, Others
    <2>2. Held(q)' = Held(q) /\ lastOf(q)' = lastOf(q)
      BY <2>1 DEF Held, lastOf
    <2>3. /\ producer[q].pc \in {"wait", "translate"} => Held(q) \cap published = {}
          /\ producer[q].pc = "publish" =>
                /\ (producer[q].at..lastOf(q)) \cap published = {}
                /\ producer[q].lo..(producer[q].at - 1) \subseteq published
      BY DEF Claims, Unpublished
    <2>4. CASE published' = published
      BY <2>1, <2>2, <2>3, <2>4
    <2>5. CASE WaitsSingle(p) \/ PublishesAll(p)
      <3>1. producerType = "SINGLE" /\ producer[p].pc # "out"
        BY <2>5 DEF WaitsSingle, PublishesAll
      <3>2. producer[q].pc = "out"
        BY <3>1 DEF Placed, PlacedAt
      <3> QED
        BY <2>1, <3>2
    <2>6. CASE PublishesOne(p)
      <3>1. published' = published \cup {producer[p].at} /\ Held(p) = producer[p].lo..lastOf(p)
            /\ producer[p].pc = "publish"
        BY <2>6, HeldMoves DEF PublishesOne
      <3>2. producer[p].at \in Held(p)
        BY <3>1, ProducerFields DEF Placed, PlacedAt
      <3>3. producer[p].at \notin Held(q)
        BY <3>2 DEF Claims, HeldApart
      <3>4. producer[q].pc = "publish" => producer[q].at..lastOf(q) \subseteq Held(q)
        <4>1. producer[q].pc = "publish" => producer[q].lo <= producer[q].at /\ Held(q) = producer[q].lo..lastOf(q)
          BY DEF Placed, PlacedAt, Held
        <4> QED
          BY <4>1, ProducerFields
      <3> QED
        BY <2>1, <2>2, <2>3, <3>1, <3>3, <3>4
    <2> QED
      BY <2>4, <2>5, <2>6, PublishedGrows
  <1>2. /\ producer'[p].pc \in {"wait", "translate"} => Held(p)' \cap published' = {}
        /\ producer'[p].pc = "publish" =>
              /\ (producer'[p].at..lastOf(p)') \cap published' = {}
              /\ producer'[p].lo..(producer'[p].at - 1) \subseteq published'
    <2>1. CASE Calls(p) \/ Throws(p) \/ PublishesAll(p)
      BY <2>1 DEF Calls, Throws, PublishesAll
    <2>2. CASE Gives(p)
      BY <2>2 DEF Gives, Claims, Unpublished, Held, lastOf
    <2>3. CASE ClaimsMulti(p) \/ WaitsSingle(p)
      <3>1. Held(p)' = (claimed + 1)..(claimed + producer[p].n) /\ producer'[p].pc = "wait"
        BY <2>3, HeldMoves DEF ClaimsMulti, WaitsSingle
      <3>2. published' \subseteq 0..claimed
        BY <2>3 DEF ClaimsMulti, WaitsSingle, Typed
      <3> QED
        BY <1>0, <3>1, <3>2
    <2>4. CASE Returns(p)
      <3>1. Held(p)' = Held(p) /\ published' = published /\ producer[p].pc = "wait" /\ producer'[p].pc = "translate"
        BY <2>4, HeldMoves DEF Returns
      <3> QED
        BY <3>1 DEF Claims, Unpublished
    <2>5. CASE Translates(p) \/ BatchThrows(p)
      <3>1. /\ Held(p)' = Held(p) /\ Held(p) = producer[p].lo..lastOf(p) /\ published' = published
            /\ producer[p].pc = "translate"
            /\ producer'[p].lo = producer[p].lo
            /\ producer'[p].pc = "publish" => producer'[p].at = producer[p].lo
        BY <2>5, HeldMoves DEF Translates, BatchThrows
      <3>2. lastOf(p)' = lastOf(p)
        BY <2>5 DEF Translates, BatchThrows, SameCall, lastOf
      <3>3. Held(p) \cap published = {}
        BY <3>1 DEF Claims, Unpublished
      <3>4. producer[p].lo..(producer[p].lo - 1) = {}
        BY <1>0
      <3> QED
        BY <3>1, <3>2, <3>3, <3>4
    <2>6. CASE PublishesOne(p)
      <3>1. CASE producer'[p].pc = "out"
        BY <3>1
      <3>2. CASE producer'[p].pc # "out"
        <4>1. /\ producer[p].pc = "publish" /\ producer'[p].pc = "publish"
              /\ published' = published \cup {producer[p].at}
              /\ producer'[p].lo = producer[p].lo /\ producer'[p].at = producer[p].at + 1
              /\ producer'[p].n = producer[p].n
          BY <2>6, <3>2 DEF PublishesOne, SameCall
        <4>2. lastOf(p)' = lastOf(p)
          BY <4>1 DEF lastOf
        <4>3. /\ (producer[p].at..lastOf(p)) \cap published = {}
              /\ producer[p].lo..(producer[p].at - 1) \subseteq published
          BY <4>1 DEF Claims, Unpublished
        <4>4. ((producer[p].at + 1)..lastOf(p)) \cap (published \cup {producer[p].at}) = {}
          BY <1>0, <4>3
        <4>5. producer[p].lo..((producer[p].at + 1) - 1) \subseteq published \cup {producer[p].at}
          BY <1>0, <4>3
        <4> QED
          BY <4>1, <4>2, <4>4, <4>5
      <3> QED
        BY <3>1, <3>2
    <2> QED
      BY <2>1, <2>2, <2>3, <2>4, <2>5, <2>6 DEF ProduceStep
  <1> QED
    BY <1>1, <1>2 DEF Unpublished

\* With SINGLE what is published has no holes.
LEMMA ProduceClosed ==
  ASSUME Typed, Placed, Claims, NEW p \in Producers, ProduceStep(p), producerType' = producerType
  PROVE  Closed'
  <1> SUFFICES ASSUME producerType = "SINGLE", NEW s \in published' PROVE 0..s \subseteq published'
    BY DEF Closed
  <1>0. claimed \in Int /\ lastOf(p) \in Int
    BY ProducerFields, ClaimedGrows
  <1>1. CASE published' = published
    BY <1>1 DEF Claims, Closed
  <1>2. CASE published' = 0..claimed \/ published' = 0..lastOf(p)
    BY <1>0, <1>2
  <1>3. published' = published \/ published' = 0..claimed \/ published' = 0..lastOf(p)
    BY PublishedGrows DEF WaitsSingle, PublishesOne, PublishesAll
  <1> QED
    BY <1>1, <1>2, <1>3

\* Producers keep Claims.
LEMMA ProduceClaims ==
  ASSUME Typed, Placed, Claims, NEW p \in Producers, Produce(p)
  PROVE  Claims'
  <1>1. producerType' = producerType /\ ProduceStep(p)
    BY ProduceIsStep
  <1> QED
    BY <1>1, ProduceCovered, ProduceThrown, ProduceHeldApart, ProduceUnpublished, ProduceClosed DEF Claims

\* Pollers keep Claims.
LEMMA PullClaims ==
  ASSUME Claims, NEW c \in Pollers, PullStep(c)
  PROVE  Claims'
  <1>1. /\ producerType' = producerType /\ claimed' = claimed /\ producer' = producer /\ published' = published
        /\ thrown' = thrown /\ untranslated' = untranslated
    BY DEF PullStep, ring, history
  <1>2. \A p \in Producers : Held(p)' = Held(p) /\ lastOf(p)' = lastOf(p)
    BY <1>1 DEF Held, lastOf
  <1> QED
    BY <1>1, <1>2 DEF Claims, Covered, ThrownIsUntranslated, HeldApart, Unpublished, Closed

-----------------------------------------------------------------------------
(* Room, and what a poller is done with                                    *)

\* Nobody goes past the slots that the pollers have let go.
LEMMA ProduceRoom ==
  ASSUME Typed, Placed, Claims, Room, NEW p \in Producers, Produce(p)
  PROVE  Room'
  <1>0. producerType' = producerType /\ ProduceStep(p)
    BY ProduceIsStep
  <1>1. sequence' = sequence
    BY <1>0 DEF ProduceStep, Calls, Gives, ClaimsMulti, WaitsSingle, Returns, Translates, Throws, BatchThrows,
                PublishesOne, PublishesAll, pulling
  <1> SUFFICES ASSUME NEW c \in Pollers
               PROVE  /\ \A s \in published' : s - BufferSize <= sequence[c]
                      /\ \A q \in Producers : producer'[q].pc \in {"translate", "publish"} =>
                                                  lastOf(q)' - BufferSize <= sequence[c]
                      /\ producerType = "SINGLE" => claimed' - BufferSize <= sequence[c]
    BY <1>0, <1>1 DEF Room, wrapPoint
  <1>2. /\ \A s \in published : s - BufferSize <= sequence[c]
        /\ \A q \in Producers : producer[q].pc \in {"translate", "publish"} => lastOf(q) - BufferSize <= sequence[c]
        /\ producerType = "SINGLE" => claimed - BufferSize <= sequence[c]
    BY DEF Room, wrapPoint
  <1>3. /\ claimed \in Int /\ lastOf(p) \in Int /\ producer[p].at \in Int /\ BufferSize \in Int
        /\ sequence[c] \in Int
    BY <1>0, ProducerFields, PollerFields, ClaimedGrows, BufferSizeNat
  <1>4. ASSUME Returns(p) PROVE lastOf(p) - BufferSize <= sequence[c]
    <2>1. minimumSequence <= sequence[c] /\ minimumSequence \in Int
      BY MinimumIsLowest, SequenceValueIsInt
    <2>2. lastOf(p) - BufferSize <= minimumSequence
      BY <1>4 DEF Returns, wrapPoint
    <2> QED
      BY <1>3, <2>1, <2>2
  <1>5. ASSUME NEW s \in published' PROVE s - BufferSize <= sequence[c]
    <2>1. CASE s \in published
      BY <1>2, <2>1
    <2>2. CASE WaitsSingle(p) /\ s \notin published
      <3>1. s \in 0..claimed /\ producerType = "SINGLE"
        BY <1>5, <2>2 DEF WaitsSingle
      <3> QED
        BY <1>2, <1>3, <3>1
    <2>3. CASE PublishesOne(p) /\ s \notin published
      <3>1. s = producer[p].at /\ producer[p].pc = "publish"
        BY <1>5, <2>3 DEF PublishesOne
      <3>2. s <= lastOf(p)
        BY <3>1 DEF Placed, PlacedAt
      <3> QED
        BY <1>2, <1>3, <3>1, <3>2
    <2>4. CASE PublishesAll(p)
      <3>1. s \in 0..lastOf(p) /\ producer[p].pc = "publish"
        BY <1>5, <2>4 DEF PublishesAll
      <3> QED
        BY <1>2, <1>3, <3>1
    <2> QED
      BY <1>0, <1>5, <2>1, <2>2, <2>3, <2>4, PublishedGrows
  <1>6. ASSUME NEW q \in Producers, producer'[q].pc \in {"translate", "publish"}
        PROVE  lastOf(q)' - BufferSize <= sequence[c]
    <2>1. CASE q # p
      <3>1. producer'[q].pc = producer[q].pc /\ producer'[q].n = producer[q].n /\ producer'[q].lo = producer[q].lo
        BY <1>0, <2>1 DEF ProduceStep, Calls, Gives, ClaimsMulti, WaitsSingle, Returns, Translates, Throws, BatchThrows,
               PublishesOne, PublishesAll, Others
      <3> QED
        BY <1>2, <1>6, <3>1 DEF lastOf
    <2>2. CASE q = p /\ Returns(p)
      <3>1. lastOf(p)' = lastOf(p)
        BY <2>2 DEF Returns, SameCall, lastOf
      <3> QED
        BY <1>4, <2>2, <3>1
    <2>3. CASE q = p /\ ~Returns(p)
      <3>1. /\ producer[p].pc \in {"translate", "publish"}
            /\ producer'[p].n = producer[p].n /\ producer'[p].lo = producer[p].lo
        BY <1>0, <1>6, <2>3 DEF ProduceStep, Calls, Gives, ClaimsMulti, WaitsSingle, Translates, Throws, BatchThrows,
               PublishesOne, PublishesAll, SameCall
      <3> QED
        BY <1>2, <2>3, <3>1 DEF lastOf
    <2> QED
      BY <2>1, <2>2, <2>3
  <1>7. ASSUME producerType = "SINGLE" PROVE claimed' - BufferSize <= sequence[c]
    <2>1. CASE Returns(p)
      BY <1>4, <1>7, <2>1 DEF Returns
    <2>2. CASE ~Returns(p)
      <3>1. claimed' = claimed
        BY <1>0, <1>7, <2>2 DEF ProduceStep, Calls, Gives, ClaimsMulti, WaitsSingle, Translates, Throws, BatchThrows,
               PublishesOne, PublishesAll
      <3> QED
        BY <1>2, <1>7, <3>1
    <2> QED
      BY <2>1, <2>2
  <1> QED
    BY <1>5, <1>6, <1>7

\* The sequence of a poller only grows.
LEMMA SequenceGrows ==
  ASSUME Typed, Pulls, NEW c \in Pollers, PullStep(c)
  PROVE  \A d \in Pollers : sequence'[d] \in Int /\ sequence[d] <= sequence'[d]
  <1>1. \A d \in Pollers : sequence[d] \in Int /\ poller[d].processed \in Int
    BY PollerFields
  <1>2. CASE LetsGo(c)
    <2>1. sequence' = [sequence EXCEPT ![c] = poller[c].processed] /\ poller[c].pc = "set"
      BY <1>2 DEF LetsGo
    <2>2. sequence[c] <= poller[c].processed
      BY <2>1 DEF Pulls
    <2>3. sequence \in [Pollers -> SequenceValue]
      BY DEF Typed
    <2> QED
      BY <1>1, <2>1, <2>2, <2>3
  <1>3. CASE ~LetsGo(c)
    <2>1. sequence' = sequence
      BY <1>3 DEF PullStep, Polls, Handles, HandlerThrows, TakesOne
    <2> QED
      BY <1>1, <2>1
  <1> QED
    BY <1>2, <1>3

\* Pollers only make more room.
LEMMA PullRoom ==
  ASSUME Typed, Pulls, Room, NEW c \in Pollers, PullStep(c)
  PROVE  Room'
  <1>1. /\ producerType' = producerType /\ claimed' = claimed /\ producer' = producer /\ published' = published
    BY DEF PullStep, ring
  <1>2. \A p \in Producers : lastOf(p)' = lastOf(p) /\ lastOf(p) \in Int
    BY <1>1, ProducerFields DEF lastOf
  <1>3. ASSUME NEW d \in Pollers, NEW w \in Int, w - BufferSize <= sequence[d] PROVE w - BufferSize <= sequence'[d]
    <2>1. sequence'[d] \in Int /\ sequence[d] <= sequence'[d] /\ sequence[d] \in Int
      BY SequenceGrows, PollerFields
    <2> QED
      BY <1>3, <2>1, BufferSizeNat
  <1>4. claimed \in Int /\ published \subseteq Int
    BY SequenceValueIsInt DEF Typed
  <1> QED
    BY <1>1, <1>2, <1>3, <1>4 DEF Room, wrapPoint

\* What a poller was told stays true while producers go on.
LEMMA ProducePulls ==
  ASSUME Typed, Placed, Pulls, NEW p \in Producers, Produce(p)
  PROVE  Pulls'
  <1>0. ProduceStep(p)
    BY ProduceIsStep
  <1>1. sequence' = sequence /\ poller' = poller
    BY <1>0 DEF ProduceStep, Calls, Gives, ClaimsMulti, WaitsSingle, Returns, Translates, Throws, BatchThrows,
                PublishesOne, PublishesAll, pulling
  <1>2. published \subseteq published'
    BY <1>0, PublishedGrows
  <1> QED
    BY <1>1, <1>2 DEF Pulls

\* A poller handles published events only, behind those it depends on.
LEMMA PullPulls ==
  ASSUME Typed, Pulls, NEW c \in Pollers, PullStep(c)
  PROVE  Pulls'
  <1>0. published' = published
    BY DEF PullStep, ring
  <1>1. \A d \in Pollers : GatedBy[d] \subseteq Pollers
    BY PollerAssumption
  <1>2. \A d \in Pollers : /\ sequence[d] \in Int /\ sequence'[d] \in Int /\ sequence[d] <= sequence'[d]
                           /\ poller[d].available \in Int
    BY PollerFields, SequenceGrows
  <1>3. ASSUME NEW d \in Pollers, NEW a \in Int, \A e \in GatedBy[d] : a <= sequence[e]
        PROVE  \A e \in GatedBy[d] : a <= sequence'[e]
    BY <1>1, <1>2, <1>3
  <1>4. ASSUME NEW d \in Pollers, sequence'[d] = sequence[d], poller'[d] = poller[d]
        PROVE  /\ 0..sequence'[d] \subseteq published
               /\ poller'[d].pc # "out" =>
                     /\ sequence'[d] <= poller'[d].processed
                     /\ poller'[d].next = poller'[d].processed + 1 \/ poller'[d].pc = "set"
                     /\ (sequence'[d] + 1)..poller'[d].available \subseteq published
                     /\ \A e \in GatedBy[d] : poller'[d].available <= sequence'[e]
                     /\ poller'[d].processed <= poller'[d].available
               /\ poller'[d].pc = "handle" => poller'[d].next <= poller'[d].available
    <2>1. poller[d].pc # "out" => \A e \in GatedBy[d] : poller[d].available <= sequence'[e]
      BY <1>2, <1>3 DEF Pulls
    <2> QED
      BY <1>4, <2>1 DEF Pulls
  <1>5. /\ 0..sequence'[c] \subseteq published
        /\ poller'[c].pc # "out" =>
              /\ sequence'[c] <= poller'[c].processed
              /\ poller'[c].next = poller'[c].processed + 1 \/ poller'[c].pc = "set"
              /\ (sequence'[c] + 1)..poller'[c].available \subseteq published
              /\ \A e \in GatedBy[c] : poller'[c].available <= sequence'[e]
              /\ poller'[c].processed <= poller'[c].available
        /\ poller'[c].pc = "handle" => poller'[c].next <= poller'[c].available
    <2>0. /\ poller[c].next \in Int /\ poller[c].available \in Int /\ poller[c].processed \in Int
          /\ sequence[c] \in Int /\ -1 <= sequence[c]
      BY PollerFields
    <2>1. CASE Polls(c)
      <3>1. /\ sequence' = sequence /\ poller'[c].pc = "handle"
            /\ poller'[c].next = sequence[c] + 1 /\ poller'[c].processed = sequence[c]
            /\ poller'[c].available \in Int /\ sequence[c] < poller'[c].available
            /\ (sequence[c] + 1)..poller'[c].available \subseteq published
            /\ \A d \in GatedBy[c] : poller'[c].available <= sequence[d]
        BY <2>1 DEF Polls
      <3>2. 0..sequence[c] \subseteq published
        BY DEF Pulls
      <3>4. sequence[c] <= sequence[c] /\ sequence[c] <= poller'[c].available /\ sequence[c] + 1 <= poller'[c].available
        BY <2>0, <3>1
      <3> QED
        BY <3>1, <3>2, <3>4
    <2>2. CASE Handles(c)
      <3>1. /\ poller[c].pc = "handle" /\ sequence' = sequence
            /\ poller'[c].processed = poller[c].next /\ poller'[c].next = poller[c].next + 1
            /\ poller'[c].available = poller[c].available
            /\ \/ poller'[c].pc = "handle" /\ poller[c].next < poller[c].available
               \/ poller'[c].pc = "set"
        BY <2>2 DEF Handles
      <3>2. /\ sequence[c] <= poller[c].processed /\ poller[c].next = poller[c].processed + 1
            /\ (sequence[c] + 1)..poller[c].available \subseteq published
            /\ \A d \in GatedBy[c] : poller[c].available <= sequence[d]
            /\ poller[c].next <= poller[c].available
            /\ 0..sequence[c] \subseteq published
        BY <3>1 DEF Pulls
      <3>3. sequence[c] <= poller[c].next /\ (poller'[c].pc = "handle" => poller[c].next + 1 <= poller[c].available)
        BY <2>0, <3>1, <3>2
      <3> QED
        BY <3>1, <3>2, <3>3
    <2>3. CASE HandlerThrows(c)
      <3>1. /\ poller[c].pc = "handle" /\ poller'[c].pc = "set" /\ sequence' = sequence
            /\ poller'[c].processed = poller[c].processed /\ poller'[c].next = poller[c].next
            /\ poller'[c].available = poller[c].available
        BY <2>3 DEF HandlerThrows
      <3> QED
        BY <3>1 DEF Pulls
    <2>4. CASE LetsGo(c)
      <3>1. /\ poller[c].pc = "set" /\ poller'[c].pc = "out"
            /\ sequence' = [sequence EXCEPT ![c] = poller[c].processed]
        BY <2>4 DEF LetsGo
      <3>2. sequence'[c] = poller[c].processed
        BY <3>1 DEF Typed
      <3>3. /\ 0..sequence[c] \subseteq published /\ (sequence[c] + 1)..poller[c].available \subseteq published
            /\ poller[c].processed <= poller[c].available
        BY <3>1 DEF Pulls
      <3>4. 0..poller[c].processed \subseteq published
        BY <2>0, <3>3
      <3> QED
        BY <3>1, <3>2, <3>4
    <2>5. CASE TakesOne(c)
      <3>1. sequence' = sequence /\ poller' = poller
        BY <2>5 DEF TakesOne
      <3> QED
        BY <1>4, <3>1
    <2> QED
      BY <2>1, <2>2, <2>3, <2>4, <2>5 DEF PullStep
  <1>6. ASSUME NEW d \in Pollers, d # c PROVE sequence'[d] = sequence[d] /\ poller'[d] = poller[d]
    <2>1. sequence \in [Pollers -> SequenceValue]
      BY DEF Typed
    <2> QED
      BY <1>6, <2>1 DEF PullStep, Polls, Handles, HandlerThrows, LetsGo, TakesOne, OtherPollers
  <1> QED
    BY <1>0, <1>4, <1>5, <1>6 DEF Pulls

-----------------------------------------------------------------------------
(* What the slots hold                                                     *)

\* A translator is done with one more sequence, or the sequence is known to be untranslated.
LEMMA WrittenMoves ==
  ASSUME Typed, Placed, Claims, NEW p \in Producers, ProduceStep(p), NEW s \in Nat, Written(s)'
  PROVE  Written(s) \/ (Translates(p) /\ s = producer[p].at) \/ s \in untranslated'
  <1>0. /\ producer[p].n \in Int /\ producer[p].lo \in Int /\ producer[p].at \in Int /\ lastOf(p) \in Int
        /\ claimed \in Int
    BY ProducerFields, ClaimedGrows
  <1>1. untranslated \subseteq untranslated'
    BY DEF ProduceStep, Calls, Gives, ClaimsMulti, WaitsSingle, Returns, Translates, Throws, BatchThrows,
           PublishesOne, PublishesAll, history
  <1>2. ASSUME NEW q \in Producers, q # p,
               \/ producer'[q].pc = "translate" /\ s \in producer'[q].lo..(producer'[q].at - 1)
               \/ producer'[q].pc = "publish" /\ s \in producer'[q].lo..lastOf(q)'
        PROVE  Written(s)
    <2>1. /\ producer'[q].pc = producer[q].pc /\ producer'[q].n = producer[q].n
          /\ producer'[q].lo = producer[q].lo /\ producer'[q].at = producer[q].at
      BY <1>2 DEF ProduceStep, Calls, Gives, ClaimsMulti, WaitsSingle, Returns, Translates, Throws, BatchThrows,
                  PublishesOne, PublishesAll, Others
    <2>2. lastOf(q)' = lastOf(q)
      BY <2>1 DEF lastOf
    <2> QED
      BY <1>2, <2>1, <2>2 DEF Written
  <1>3. ASSUME \/ producer'[p].pc = "translate" /\ s \in producer'[p].lo..(producer'[p].at - 1)
               \/ producer'[p].pc = "publish" /\ s \in producer'[p].lo..lastOf(p)'
        PROVE  Written(s) \/ (Translates(p) /\ s = producer[p].at) \/ s \in untranslated'
    <2>1. CASE Gives(p)
      <3>1. producer' = producer /\ lastOf(p)' = lastOf(p)
        BY <2>1 DEF Gives, lastOf
      <3> QED
        BY <1>3, <3>1 DEF Written
    <2>2. CASE Returns(p)
      <3>1. producer[p].at = producer[p].lo /\ producer'[p].at = producer[p].at /\ producer'[p].lo = producer[p].lo
            /\ producer'[p].pc = "translate"
        BY <2>2 DEF Returns, Placed, PlacedAt
      <3> QED
        BY <1>0, <1>3, <3>1
    <2>3. CASE Translates(p)
      <3>1. /\ producer[p].pc = "translate" /\ producer'[p].lo = producer[p].lo /\ producer'[p].n = producer[p].n
            /\ \/ /\ producer[p].at = lastOf(p)
                  /\ producer'[p].pc = "publish" /\ producer'[p].at = producer[p].lo
               \/ /\ producer[p].at # lastOf(p)
                  /\ producer'[p].pc = "translate" /\ producer'[p].at = producer[p].at + 1
        BY <2>3 DEF Translates, SameCall
      <3>2. lastOf(p)' = lastOf(p)
        BY <3>1 DEF lastOf
      <3>3. s \in producer[p].lo..producer[p].at
        BY <1>0, <1>3, <3>1, <3>2
      <3>4. s = producer[p].at \/ s \in producer[p].lo..(producer[p].at - 1)
        BY <1>0, <3>3
      <3> QED
        BY <2>3, <3>1, <3>4 DEF Written
    <2>4. CASE BatchThrows(p)
      <3>1. /\ producer[p].pc = "translate" /\ producer'[p].lo = producer[p].lo /\ producer'[p].n = producer[p].n
            /\ producer'[p].pc = "publish" /\ untranslated' = untranslated \cup producer[p].at..lastOf(p)
        BY <2>4 DEF BatchThrows, SameCall
      <3>2. s \in producer[p].lo..lastOf(p)
        BY <1>3, <3>1 DEF lastOf
      <3>3. s \in producer[p].lo..(producer[p].at - 1) \/ s \in producer[p].at..lastOf(p)
        BY <1>0, <3>2
      <3> QED
        BY <3>1, <3>3 DEF Written
    <2>5. CASE PublishesOne(p)
      <3>1. /\ producer[p].pc = "publish" /\ producer'[p].pc = "publish" /\ producer'[p].lo = producer[p].lo
            /\ producer'[p].n = producer[p].n
        BY <1>3, <2>5 DEF PublishesOne, SameCall
      <3>2. s \in producer[p].lo..lastOf(p)
        BY <1>3, <3>1 DEF lastOf
      <3> QED
        BY <3>1, <3>2 DEF Written
    <2>6. CASE Calls(p) \/ ClaimsMulti(p) \/ WaitsSingle(p) \/ Throws(p) \/ PublishesAll(p)
      BY <1>3, <2>6 DEF Calls, ClaimsMulti, WaitsSingle, Throws, PublishesAll
    <2> QED
      BY <2>1, <2>2, <2>3, <2>4, <2>5, <2>6 DEF ProduceStep
  <1>4. ASSUME s \in published', s \notin published
        PROVE  Written(s) \/ s \in untranslated'
    <2>1. CASE PublishesOne(p)
      <3>1. s = producer[p].at /\ producer[p].pc = "publish"
        BY <1>4, <2>1 DEF PublishesOne
      <3>2. s \in producer[p].lo..lastOf(p)
        BY <1>0, <3>1 DEF Placed, PlacedAt
      <3> QED
        BY <3>1, <3>2 DEF Written
    <2>2. CASE WaitsSingle(p) \/ PublishesAll(p)
      <3>1. producerType = "SINGLE" /\ producer[p].pc \in {"next", "publish"} /\ s \in 0..claimed
        <4>1. CASE WaitsSingle(p)
          BY <1>4, <4>1 DEF WaitsSingle
        <4>2. CASE PublishesAll(p)
          BY <1>4, <4>2 DEF PublishesAll, Placed, PlacedAt
        <4> QED
          BY <2>2, <4>1, <4>2
      <3>2. s \in thrown \/ \E q \in Producers : s \in Held(q)
        BY <1>4, <3>1 DEF Claims, Covered
      <3>3. CASE s \in thrown
        BY <1>1, <3>3 DEF Claims, ThrownIsUntranslated
      <3>4. ASSUME NEW q \in Producers, s \in Held(q) PROVE Written(s)
        <4>1. producer[q].pc # "out"
          BY <3>4 DEF Held
        <4>2. q = p
          BY <3>1, <4>1 DEF Placed, PlacedAt
        <4>3. producer[p].pc = "publish" /\ s \in producer[p].lo..lastOf(p)
          BY <3>1, <3>4, <4>2 DEF Held
        <4> QED
          BY <4>3 DEF Written
      <3> QED
        BY <3>2, <3>3, <3>4
    <2> QED
      BY <1>4, <2>1, <2>2, PublishedGrows
  <1>5. CASE s \in published
    BY <1>5 DEF Written
  <1>6. \/ s \in published'
        \/ \E q \in Producers :
              \/ producer'[q].pc = "translate" /\ s \in producer'[q].lo..(producer'[q].at - 1)
              \/ producer'[q].pc = "publish" /\ s \in producer'[q].lo..lastOf(q)'
    BY DEF Written
  <1> QED
    BY <1>2, <1>3, <1>4, <1>5, <1>6

\* What is written has let every poller finish the lap before.
LEMMA WrittenHasRoom ==
  ASSUME Typed, Placed, Room, NEW c \in Pollers, NEW s \in Nat, Written(s)
  PROVE  s - BufferSize <= sequence[c]
  <1>0. sequence[c] \in Int /\ BufferSize \in Int
    BY PollerFields, BufferSizeNat
  <1>1. CASE s \in published
    BY <1>1 DEF Room
  <1>2. ASSUME NEW p \in Producers,
               \/ producer[p].pc = "translate" /\ s \in producer[p].lo..(producer[p].at - 1)
               \/ producer[p].pc = "publish" /\ s \in producer[p].lo..lastOf(p)
        PROVE  s - BufferSize <= sequence[c]
    <2>1. producer[p].at <= lastOf(p) /\ lastOf(p) - BufferSize <= sequence[c]
      BY <1>2 DEF Placed, PlacedAt, Room, wrapPoint
    <2>2. lastOf(p) \in Int /\ producer[p].at \in Int /\ producer[p].lo \in Int
      BY ProducerFields
    <2>3. s <= lastOf(p)
      BY <1>2, <2>1, <2>2
    <2> QED
      BY <1>0, <2>1, <2>2, <2>3
  <1> QED
    BY <1>1, <1>2 DEF Written

\* A translator writes a slot that holds nothing somebody has still to handle.
LEMMA TranslatorSparesOthers ==
  ASSUME Typed, Placed, Claims, Room, Pulls, NEW p \in Producers, producer[p].pc = "translate",
         NEW c \in Pollers, NEW s \in Nat, sequence[c] < s, Written(s), s # producer[p].at
  PROVE  calculateIndex(s) # calculateIndex(producer[p].at)
  <1> DEFINE t == producer[p].at
  <1>0. /\ t \in Int /\ t >= 0 /\ lastOf(p) \in Int /\ producer[p].lo \in Int
        /\ sequence[c] \in Int /\ BufferSize \in Int
    BY ProducerFields, PollerFields, BufferSizeNat
  <1>1. producer[p].lo <= t /\ t <= lastOf(p) /\ lastOf(p) - BufferSize <= sequence[c]
    BY DEF Placed, PlacedAt, Room, wrapPoint
  <1>2. s - BufferSize <= sequence[c]
    BY WrittenHasRoom
  <1>3. t \notin published
    <2>1. Held(p) = producer[p].lo..lastOf(p) /\ Held(p) \cap published = {}
      BY DEF Claims, Unpublished, Held
    <2> QED
      BY <1>0, <1>1, <2>1
  <1>4. ~(t <= sequence[c])
    <2>1. 0..sequence[c] \subseteq published
      BY DEF Pulls
    <2> QED
      BY <1>0, <1>3, <2>1
  <1>5. s - t < BufferSize /\ t - s < BufferSize
    BY <1>0, <1>1, <1>2, <1>4
  <1> QED
    BY <1>0, <1>5, NearSlotsDiffer

\* Producers keep what the pollers have still to handle.
LEMMA ProduceEntries ==
  ASSUME Typed, Placed, Claims, Room, Pulls, EntriesHold, NEW p \in Producers, Produce(p)
  PROVE  EntriesHold'
  <1>0. ProduceStep(p)
    BY ProduceIsStep
  <1>1. sequence' = sequence /\ untranslated \subseteq untranslated'
    BY <1>0 DEF ProduceStep, Calls, Gives, ClaimsMulti, WaitsSingle, Returns, Translates, Throws, BatchThrows,
                PublishesOne, PublishesAll, pulling, history
  <1> SUFFICES ASSUME NEW c \in Pollers, NEW s \in Nat, sequence[c] < s, Written(s)'
               PROVE  entries'[calculateIndex(s)] = s \/ s \in untranslated'
    BY <1>1 DEF EntriesHold
  <1>2. Written(s) => entries[calculateIndex(s)] = s \/ s \in untranslated
    BY DEF EntriesHold
  <1>3. Written(s) \/ (Translates(p) /\ s = producer[p].at) \/ s \in untranslated'
    BY <1>0, WrittenMoves
  <1>4. CASE Translates(p)
    <2>0. producer[p].pc = "translate" /\ producer[p].at \in Int /\ entries \in [Slots -> SequenceValue]
      BY <1>4, ProducerFields DEF Translates, Typed
    <2>1. CASE entries' = [entries EXCEPT ![calculateIndex(producer[p].at)] = producer[p].at]
      <3>1. /\ entries'[calculateIndex(producer[p].at)] = producer[p].at
            /\ \A i \in Slots : i # calculateIndex(producer[p].at) => entries'[i] = entries[i]
        BY <2>0, <2>1, IndexType
      <3>2. CASE s = producer[p].at
        BY <3>1, <3>2
      <3>3. CASE s # producer[p].at /\ Written(s)
        <4>1. calculateIndex(s) # calculateIndex(producer[p].at) /\ calculateIndex(s) \in Slots
          BY <2>0, <3>3, TranslatorSparesOthers, IndexType
        <4> QED
          BY <1>1, <1>2, <3>1, <3>3, <4>1
      <3> QED
        BY <1>3, <3>2, <3>3
    <2>2. CASE untranslated' = untranslated \cup {producer[p].at} /\ entries' = entries
      BY <1>2, <1>3, <2>2
    <2> QED
      BY <1>4, <2>1, <2>2 DEF Translates
  <1>5. CASE ~Translates(p)
    <2>1. entries' = entries
      BY <1>0, <1>5 DEF ProduceStep, Calls, Gives, ClaimsMulti, WaitsSingle, Returns, Throws, BatchThrows,
                        PublishesOne, PublishesAll
    <2> QED
      BY <1>1, <1>2, <1>3, <1>5, <2>1
  <1> QED
    BY <1>4, <1>5

\* Pollers write no slot.
LEMMA PullEntries ==
  ASSUME Typed, Pulls, EntriesHold, NEW c \in Pollers, PullStep(c)
  PROVE  EntriesHold'
  <1>1. /\ producer' = producer /\ published' = published /\ entries' = entries /\ untranslated' = untranslated
    BY DEF PullStep, ring, history
  <1>2. \A s : Written(s)' = Written(s)
    BY <1>1 DEF Written, lastOf
  <1>3. ASSUME NEW d \in Pollers, NEW s \in Nat, sequence'[d] < s PROVE sequence[d] < s
    <2>1. sequence'[d] \in Int /\ sequence[d] <= sequence'[d] /\ sequence[d] \in Int
      BY SequenceGrows, PollerFields
    <2> QED
      BY <1>3, <2>1
  <1> QED
    BY <1>1, <1>2, <1>3 DEF EntriesHold

-----------------------------------------------------------------------------
(* Tries                                                                   *)

\* Only another producer takes the room a try was told of.
LEMMA ProduceTry ==
  ASSUME Typed, Placed, TryHasRoom, NEW p \in Producers, Produce(p)
  PROVE  TryHasRoom'
  <1>0. producerType' = producerType /\ ProduceStep(p)
    BY ProduceIsStep
  <1>1. sequence' = sequence
    BY <1>0 DEF ProduceStep, Calls, Gives, ClaimsMulti, WaitsSingle, Returns, Translates, Throws, BatchThrows,
                PublishesOne, PublishesAll, pulling
  <1> SUFFICES ASSUME NEW q \in Producers, NEW c \in Pollers, producer'[q].try, ~producer'[q].overtaken
               PROVE  /\ producer'[q].pc = "next" => (claimed' + producer'[q].n) - BufferSize <= sequence[c]
                      /\ producer'[q].pc = "wait" => lastOf(q)' - BufferSize <= sequence[c]
    BY <1>1 DEF TryHasRoom, wrapPoint
  <1>2. producer[q].try /\ ~producer[q].overtaken =>
            /\ producer[q].pc = "next" => (claimed + producer[q].n) - BufferSize <= sequence[c]
            /\ producer[q].pc = "wait" => lastOf(q) - BufferSize <= sequence[c]
    BY DEF TryHasRoom, wrapPoint
  <1>3. /\ producer[p].n \in Int /\ claimed \in Int /\ BufferSize \in Int /\ sequence[c] \in Int
    BY <1>0, ProducerFields, ClaimedGrows, PollerFields, BufferSizeNat
  <1>4. CASE Gives(p)
    <2>1. producer' = producer /\ claimed' = claimed /\ lastOf(q)' = lastOf(q)
      BY <1>4 DEF Gives, lastOf
    <2> QED
      BY <1>2, <2>1
  <1>5. CASE q = p /\ Calls(p)
    <2>1. /\ producer'[p].pc = "next" /\ (claimed + producer'[p].n) - BufferSize <= minimumSequence
          /\ claimed' = claimed /\ producer'[p].n \in 1..BufferSize
      BY <1>5 DEF Calls, wrapPoint
    <2>2. minimumSequence <= sequence[c] /\ minimumSequence \in Int
      BY MinimumIsLowest, SequenceValueIsInt
    <2>3. (claimed + producer'[p].n) - BufferSize <= sequence[c]
      BY <1>3, <2>1, <2>2
    <2> QED
      BY <1>5, <2>1, <2>3
  <1>6. CASE q = p /\ (ClaimsMulti(p) \/ WaitsSingle(p))
    <2>1. /\ producer[p].pc = "next" /\ producer'[p].pc = "wait" /\ producer'[p].lo = claimed + 1
          /\ producer'[p].n = producer[p].n
          /\ producer'[p].try = producer[p].try /\ producer'[p].overtaken = producer[p].overtaken
      BY <1>6 DEF ClaimsMulti, WaitsSingle, SameCall
    <2>2. lastOf(p)' = claimed + producer[p].n
      BY <1>3, <2>1 DEF lastOf
    <2> QED
      BY <1>2, <1>6, <2>1, <2>2
  <1>7. CASE q = p /\ ~Gives(p) /\ ~Calls(p) /\ ~ClaimsMulti(p) /\ ~WaitsSingle(p)
    BY <1>0, <1>7 DEF ProduceStep, Returns, Translates, Throws, BatchThrows, PublishesOne, PublishesAll
  <1>8. CASE q # p /\ ClaimsMulti(p)
    <2>1. /\ producer'[q].pc = producer[q].pc /\ producer'[q].n = producer[q].n /\ producer'[q].lo = producer[q].lo
          /\ producer'[q].try = producer[q].try
          /\ producer'[q].overtaken = (producer[q].pc = "next" \/ producer[q].overtaken)
      BY <1>8 DEF ClaimsMulti
    <2>2. producer[q].pc # "next" /\ ~producer[q].overtaken /\ lastOf(q)' = lastOf(q)
      BY <2>1 DEF lastOf
    <2> QED
      BY <1>2, <2>1, <2>2
  <1>9. CASE q # p /\ ~ClaimsMulti(p) /\ ~Gives(p)
    <2>1. producer'[q] = producer[q]
      BY <1>0, <1>9 DEF ProduceStep, Calls, WaitsSingle, Returns, Translates, Throws, BatchThrows,
                        PublishesOne, PublishesAll, Others
    <2>2. CASE producerType = "SINGLE"
      BY <1>0, <1>9, <2>1, <2>2, ProducerIsAlone
    <2>3. CASE producerType = "MULTI"
      <3>1. claimed' = claimed /\ lastOf(q)' = lastOf(q)
        BY <1>0, <1>9, <2>1, <2>3 DEF ProduceStep, Calls, WaitsSingle, Returns, Translates, Throws, BatchThrows,
                                      PublishesOne, PublishesAll, lastOf
      <3> QED
        BY <1>2, <2>1, <3>1
    <2> QED
      BY <2>2, <2>3 DEF Typed
  <1> QED
    BY <1>4, <1>5, <1>6, <1>7, <1>8, <1>9

\* Pollers take no room.
LEMMA PullTry ==
  ASSUME Typed, Pulls, TryHasRoom, NEW c \in Pollers, PullStep(c)
  PROVE  TryHasRoom'
  <1>1. producer' = producer /\ claimed' = claimed
    BY DEF PullStep, ring
  <1>2. \A p \in Producers : lastOf(p)' = lastOf(p) /\ lastOf(p) \in Int /\ claimed + producer[p].n \in Int
    BY <1>1, ProducerFields, SequenceValueIsInt DEF lastOf, Typed
  <1>3. ASSUME NEW d \in Pollers, NEW w \in Int, w - BufferSize <= sequence[d] PROVE w - BufferSize <= sequence'[d]
    <2>1. sequence'[d] \in Int /\ sequence[d] <= sequence'[d] /\ sequence[d] \in Int
      BY SequenceGrows, PollerFields
    <2> QED
      BY <1>3, <2>1, BufferSizeNat
  <1> QED
    BY <1>1, <1>2, <1>3 DEF TryHasRoom, wrapPoint

-----------------------------------------------------------------------------
(* Batches                                                                 *)

\* A batch takes in and gives out events in order.
LEMMA PullBatches ==
  ASSUME Typed, Pulls, Batches, NEW c \in Pollers, PullStep(c)
  PROVE  Batches'
  <1>0. /\ batch \in [Pollers -> Seq(Nat)] /\ taken \in [Pollers -> Nat] /\ sequence \in [Pollers -> SequenceValue]
        /\ Batched \subseteq Pollers
    BY PollerAssumption DEF Typed
  <1>1. ASSUME NEW d \in Batched, batch'[d] = batch[d], taken'[d] = taken[d],
               sequence'[d] = sequence[d], poller'[d] = poller[d]
        PROVE  /\ \A k \in 1..Len(batch'[d]) : batch'[d][k] = taken'[d] + k - 1
               /\ poller'[d].pc = "out" => taken'[d] + Len(batch'[d]) - 1 = sequence'[d]
               /\ poller'[d].pc # "out" => taken'[d] + Len(batch'[d]) - 1 = poller'[d].processed
    BY <1>1 DEF Batches
  <1>2. ASSUME NEW d \in Batched, d # c
        PROVE  /\ batch'[d] = batch[d] /\ taken'[d] = taken[d]
               /\ sequence'[d] = sequence[d] /\ poller'[d] = poller[d]
    <2>1. poller'[d] = poller[d]
      BY <1>0, <1>2 DEF PullStep, Polls, Handles, HandlerThrows, LetsGo, TakesOne, OtherPollers
    <2>2. sequence'[d] = sequence[d]
      BY <1>0, <1>2 DEF PullStep, Polls, Handles, HandlerThrows, LetsGo, TakesOne
    <2>3. batch'[d] = batch[d]
      BY <1>0, <1>2 DEF PullStep, Polls, Handles, HandlerThrows, LetsGo, TakesOne
    <2>4. taken'[d] = taken[d]
      BY <1>0, <1>2 DEF PullStep, Polls, Handles, HandlerThrows, LetsGo, TakesOne
    <2> QED
      BY <2>1, <2>2, <2>3, <2>4
  <1>3. ASSUME c \in Batched
        PROVE  /\ \A k \in 1..Len(batch'[c]) : batch'[c][k] = taken'[c] + k - 1
               /\ poller'[c].pc = "out" => taken'[c] + Len(batch'[c]) - 1 = sequence'[c]
               /\ poller'[c].pc # "out" => taken'[c] + Len(batch'[c]) - 1 = poller'[c].processed
    <2>0. /\ batch[c] \in Seq(Nat) /\ taken[c] \in Nat /\ Len(batch[c]) \in Nat
          /\ \A k \in 1..Len(batch[c]) : batch[c][k] = taken[c] + k - 1
          /\ poller[c].pc = "out" => taken[c] + Len(batch[c]) - 1 = sequence[c]
          /\ poller[c].pc # "out" => taken[c] + Len(batch[c]) - 1 = poller[c].processed
      BY <1>0, <1>3 DEF Batches
    <2>1. CASE Polls(c)
      <3>1. batch' = batch /\ taken' = taken /\ poller'[c].processed = sequence[c]
            /\ poller[c].pc = "out" /\ poller'[c].pc = "handle"
        BY <2>1 DEF Polls
      <3> QED
        BY <2>0, <3>1
    <2>2. CASE Handles(c)
      <3>1. /\ batch' = [batch EXCEPT ![c] = Append(batch[c], poller[c].next)] /\ taken' = taken
            /\ poller'[c].processed = poller[c].next /\ poller[c].pc = "handle" /\ poller'[c].pc # "out"
        BY <1>3, <2>2 DEF Handles
      <3>2. batch'[c] = Append(batch[c], poller[c].next) /\ taken'[c] = taken[c]
        BY <1>0, <3>1
      <3>3. poller[c].next = poller[c].processed + 1 /\ poller[c].processed \in Int
        BY <3>1, PollerFields DEF Pulls
      <3>4. poller[c].next = taken[c] + Len(batch[c]) /\ poller[c].next \in Nat
        <4>1. taken[c] + Len(batch[c]) - 1 = poller[c].processed
          BY <2>0, <3>1
        <4>2. \A t, l \in Nat : \A x \in Int : t + l - 1 = x => x + 1 = t + l /\ x + 1 \in Nat
          OBVIOUS
        <4> QED
          BY <2>0, <3>3, <4>1, <4>2, Zenon
      <3>5. /\ Len(batch'[c]) = Len(batch[c]) + 1
            /\ \A k \in 1..Len(batch[c]) : batch'[c][k] = batch[c][k]
            /\ batch'[c][Len(batch[c]) + 1] = poller[c].next
        BY <2>0, <3>2, <3>4
      <3>6. ASSUME NEW k \in 1..Len(batch'[c]) PROVE batch'[c][k] = taken[c] + k - 1
        <4>1. k \in 1..Len(batch[c]) \/ k = Len(batch[c]) + 1
          BY <2>0, <3>5
        <4>2. taken[c] + (Len(batch[c]) + 1) - 1 = poller[c].next
          BY <2>0, <3>4
        <4> QED
          BY <2>0, <3>5, <4>1, <4>2
      <3>7. taken[c] + Len(batch'[c]) - 1 = poller[c].next
        BY <2>0, <3>4, <3>5
      <3> QED
        BY <3>1, <3>2, <3>6, <3>7
    <2>3. CASE HandlerThrows(c)
      BY <1>3, <2>3 DEF HandlerThrows
    <2>4. CASE LetsGo(c)
      <3>1. /\ batch' = batch /\ taken' = taken /\ poller[c].pc = "set" /\ poller'[c].pc = "out"
            /\ sequence' = [sequence EXCEPT ![c] = poller[c].processed]
        BY <2>4 DEF LetsGo
      <3>2. sequence'[c] = poller[c].processed
        BY <1>0, <3>1
      <3> QED
        BY <2>0, <3>1, <3>2
    <2>5. CASE TakesOne(c)
      <3>1. /\ batch' = [batch EXCEPT ![c] = Tail(batch[c])] /\ batch[c] # <<>>
            /\ taken' = [taken EXCEPT ![c] = taken[c] + 1] /\ poller[c].pc = "out"
            /\ poller' = poller /\ sequence' = sequence
        BY <2>5 DEF TakesOne
      <3>2. batch'[c] = Tail(batch[c]) /\ taken'[c] = taken[c] + 1
        BY <1>0, <3>1
      <3>3. /\ Len(batch'[c]) = Len(batch[c]) - 1 /\ Len(batch[c]) >= 1
            /\ \A k \in 1..(Len(batch[c]) - 1) : batch'[c][k] = batch[c][k + 1]
        <4>1. /\ Len(Tail(batch[c])) = Len(batch[c]) - 1
              /\ \A k \in 1..Len(Tail(batch[c])) : Tail(batch[c])[k] = batch[c][k + 1]
          BY <2>0, <3>1, HeadTailProperties
        <4>2. Len(batch[c]) >= 1
          BY <2>0, <3>1, EmptySeq
        <4> QED
          BY <3>2, <4>1, <4>2
      <3>4. ASSUME NEW k \in 1..Len(batch'[c]) PROVE batch'[c][k] = taken'[c] + k - 1
        <4>1. k + 1 \in 1..Len(batch[c]) /\ k \in 1..(Len(batch[c]) - 1)
          BY <2>0, <3>3
        <4>2. batch'[c][k] = taken[c] + (k + 1) - 1
          BY <2>0, <3>3, <4>1
        <4>3. taken[c] + (k + 1) - 1 = (taken[c] + 1) + k - 1
          BY <2>0
        <4> QED
          BY <3>2, <4>2, <4>3
      <3>5. taken'[c] + Len(batch'[c]) - 1 = taken[c] + Len(batch[c]) - 1
        <4>1. \A t, l \in Nat : (t + 1) + (l - 1) - 1 = t + l - 1
          OBVIOUS
        <4> QED
          BY <2>0, <3>2, <3>3, <4>1
      <3> QED
        BY <2>0, <3>1, <3>4, <3>5
    <2> QED
      BY <2>1, <2>2, <2>3, <2>4, <2>5 DEF PullStep
  <1>4. ASSUME NEW d \in Batched
        PROVE  /\ \A k \in 1..Len(batch'[d]) : batch'[d][k] = taken'[d] + k - 1
               /\ poller'[d].pc = "out" => taken'[d] + Len(batch'[d]) - 1 = sequence'[d]
               /\ poller'[d].pc # "out" => taken'[d] + Len(batch'[d]) - 1 = poller'[d].processed
    <2>1. CASE d = c
      BY <1>3, <2>1
    <2>2. CASE d # c
      BY <1>1, <1>2, <2>2
    <2> QED
      BY <2>1, <2>2
  <1> QED
    BY <1>4 DEF Batches

-----------------------------------------------------------------------------
(* The invariant                                                           *)

\* The invariant holds at the start.
LEMMA InitInv == Init => Inv
  <1> SUFFICES ASSUME Init PROVE Inv
    OBVIOUS
  <1>1. Typed
    BY InitTyped
  <1>2. \A p \in Producers : producer[p].pc = "out" /\ ~producer[p].try /\ Held(p) = {}
    BY DEF Init, Idle, Held
  <1>3. \A c \in Pollers : /\ poller[c].pc = "out" /\ sequence[c] = -1 /\ batch[c] = <<>> /\ taken[c] = 0
    BY DEF Init, NotPolling, INITIAL_CURSOR_VALUE
  <1>4. published = {} /\ thrown = {} /\ untranslated = {} /\ claimed = -1 /\ 0..(-1) = {}
    BY DEF Init, INITIAL_CURSOR_VALUE
  <1>5. Placed
    BY <1>2 DEF Placed, PlacedAt, Owns
  <1>6. Claims
    BY <1>2, <1>4 DEF Claims, Covered, ThrownIsUntranslated, HeldApart, Unpublished, Closed
  <1>7. Room
    <2>1. \A c \in Pollers : wrapPoint(claimed) <= sequence[c]
      BY <1>3, <1>4, BufferSizeNat DEF wrapPoint
    <2> QED
      BY <1>2, <1>4, <2>1 DEF Room
  <1>8. Pulls
    BY <1>3, <1>4 DEF Pulls
  <1>9. EntriesHold
    BY <1>2, <1>4 DEF EntriesHold, Written
  <1>10. TryHasRoom
    BY <1>2 DEF TryHasRoom
  <1>11. Batches
    <2>1. Len(<<>>) = 0 /\ 1..0 = {} /\ Batched \subseteq Pollers
      BY PollerAssumption
    <2>2. ASSUME NEW c \in Batched
          PROVE  /\ \A k \in 1..Len(batch[c]) : batch[c][k] = taken[c] + k - 1
                 /\ poller[c].pc = "out" => taken[c] + Len(batch[c]) - 1 = sequence[c]
                 /\ poller[c].pc # "out" => taken[c] + Len(batch[c]) - 1 = poller[c].processed
      BY <1>3, <2>1
    <2> QED
      BY <2>2 DEF Batches
  <1> QED
    BY <1>1, <1>5, <1>6, <1>7, <1>8, <1>9, <1>10, <1>11 DEF Inv

\* Every step keeps the invariant.
LEMMA NextInv == Inv /\ [Next]_vars => Inv'
  <1> SUFFICES ASSUME Inv, [Next]_vars PROVE Inv'
    OBVIOUS
  <1>0. Typed /\ Placed /\ Claims /\ Room /\ Pulls /\ EntriesHold /\ TryHasRoom /\ Batches
    BY DEF Inv
  <1>1. ASSUME NEW p \in Producers, Produce(p) PROVE Inv'
    <2>1. ProduceStep(p)
      BY <1>0, <1>1, ProduceIsStep
    <2>2. UNCHANGED pulling
      BY <2>1 DEF ProduceStep, Calls, Gives, ClaimsMulti, WaitsSingle, Returns, Translates, Throws, BatchThrows,
                  PublishesOne, PublishesAll
    <2>3. Batches'
      BY <1>0, <2>2 DEF Batches, pulling
    <2>4. Typed' /\ Placed' /\ Claims' /\ Room'
      BY <1>0, <1>1, ProduceTyped, ProducePlaced, ProduceClaims, ProduceRoom
    <2>5. Pulls' /\ EntriesHold' /\ TryHasRoom'
      BY <1>0, <1>1, ProducePulls, ProduceEntries, ProduceTry
    <2> QED
      BY <2>3, <2>4, <2>5 DEF Inv
  <1>2. ASSUME NEW c \in Pollers, Pull(c) PROVE Inv'
    <2>1. PullStep(c)
      BY <1>0, <1>2, PullIsStep
    <2>2. Typed' /\ Placed' /\ Claims' /\ Room'
      BY <1>0, <1>2, <2>1, PullTyped, PullPlaced, PullClaims, PullRoom
    <2>3. Pulls' /\ EntriesHold' /\ TryHasRoom' /\ Batches'
      BY <1>0, <2>1, PullPulls, PullEntries, PullTry, PullBatches
    <2> QED
      BY <2>2, <2>3 DEF Inv
  <1>3. CASE UNCHANGED vars
    <2>1. /\ UNCHANGED <<producerType, claimed, cachedValue, published, entries, producer>>
          /\ UNCHANGED <<sequence, poller, batch, taken, untranslated, thrown>>
      BY <1>3 DEF vars, ring, pulling, history
    <2>2. Typed' /\ Placed' /\ Room' /\ Pulls' /\ TryHasRoom' /\ Batches'
      BY <1>0, <2>1 DEF Typed, Placed, PlacedAt, Owns, lastOf, Room, Pulls, TryHasRoom, Batches
    <2>3. Claims' /\ EntriesHold'
      BY <1>0, <2>1 DEF Claims, Covered, ThrownIsUntranslated, HeldApart, Unpublished, Closed, Held, lastOf, EntriesHold, Written
    <2> QED
      BY <2>2, <2>3 DEF Inv
  <1> QED
    BY <1>1, <1>2, <1>3 DEF Next

\* The invariant holds always.
LEMMA AlwaysInv == SafeSpec => []Inv
  BY InitInv, NextInv, PTL DEF SafeSpec

-----------------------------------------------------------------------------
(* Theorems                                                                *)

\* RingBuffer.h and EventPoller.h: a handler is given what the translator of
\* its sequence wrote, for both sequencers and whatever throws, unless that
\* translator threw or was missing.
THEOREM HandlersSeeTheirEvents == SafeSpec => []HandledIsTranslated
  <1>1. ASSUME Inv PROVE HandledIsTranslated
    <2>0. Typed /\ Pulls /\ EntriesHold
      BY <1>1 DEF Inv
    <2>1. ASSUME NEW c \in Pollers, poller[c].pc = "handle"
          PROVE  entries[calculateIndex(poller[c].next)] = poller[c].next \/ poller[c].next \in untranslated
      <3>1. /\ sequence[c] <= poller[c].processed /\ poller[c].next = poller[c].processed + 1
            /\ (sequence[c] + 1)..poller[c].available \subseteq published
            /\ poller[c].next <= poller[c].available
        BY <2>0, <2>1 DEF Pulls
      <3>2. poller[c].next \in 0..(MaxSequence + 1) /\ poller[c].available \in Int /\ poller[c].processed \in Int
            /\ sequence[c] \in Int /\ poller[c].next \in Int
        BY <2>0, PollerFields
      <3>3. poller[c].next \in Nat /\ sequence[c] < poller[c].next /\ poller[c].next \in published
        BY <3>1, <3>2
      <3> QED
        BY <2>0, <3>3 DEF EntriesHold, Written
    <2> QED
      BY <2>1 DEF HandledIsTranslated
  <1> QED
    BY <1>1, AlwaysInv, PTL

\* RingBuffer.h, publishEvent and publishEvents: a claimed sequence that nobody
\* will publish is one of a publishEvent whose translator threw.
THEOREM OnlyThrowsLeaveHoles == SafeSpec => []HolesAreThrows
  <1>1. Inv => HolesAreThrows
    BY ClaimsGiveHoles DEF Inv
  <1> QED
    BY <1>1, AlwaysInv, PTL

\* RingBuffer.h, tryPublishEvent and tryPublishEvents: a try that was told of
\* room waits for it only when another producer claimed in between.
THEOREM TriesSeldomWait == SafeSpec => []TryWaitsOnlyWhenOvertaken
  <1>1. ASSUME Inv PROVE TryWaitsOnlyWhenOvertaken
    <2>0. Typed /\ Placed /\ TryHasRoom
      BY <1>1 DEF Inv
    <2>1. ASSUME NEW p \in Producers, producer[p].pc = "wait", producer[p].try, ~producer[p].overtaken
          PROVE  wrapPoint(lastOf(p)) <= minimumSequence
      <3>1. \A c \in Pollers : wrapPoint(lastOf(p)) <= sequence[c]
        BY <2>0, <2>1 DEF TryHasRoom
      <3>2. /\ lastOf(p) \in Int /\ lastOf(p) = producer[p].lo + producer[p].n - 1 /\ producer[p].n \in 0..BufferSize
            /\ claimed \in Int /\ BufferSize \in Nat /\ producer[p].lo \in Int /\ producer[p].n \in Int
        BY <2>0, ProducerFields, SequenceValueIsInt, BufferSizeNat DEF Typed, lastOf
      <3>3. lastOf(p) <= claimed \/ producer[p].lo = claimed + 1
        BY <2>0, <2>1 DEF Placed, PlacedAt, Owns, Typed
      <3>4. wrapPoint(lastOf(p)) \in Int /\ wrapPoint(lastOf(p)) <= claimed
        BY <3>2, <3>3 DEF wrapPoint
      <3> QED
        BY <2>0, <3>1, <3>4, MinimumIsLowest
    <2> QED
      BY <2>1 DEF TryWaitsOnlyWhenOvertaken
  <1> QED
    BY <1>1, AlwaysInv, PTL

\* BatchedPoller: every event its poller let go is returned exactly once, in
\* order; what is not returned yet is in the batch.
THEOREM BatchesAreComplete == SafeSpec => []BatchedIsComplete
  <1>1. ASSUME Inv PROVE BatchedIsComplete
    <2>0. Typed /\ Batches
      BY <1>1 DEF Inv
    <2>1. ASSUME NEW c \in Batched, poller[c].pc = "out"
          PROVE  /\ batch[c] = [k \in 1..Len(batch[c]) |-> taken[c] + k - 1]
                 /\ taken[c] + Len(batch[c]) - 1 = sequence[c]
      <3>1. batch[c] \in Seq(Nat)
        BY <2>0, PollerAssumption DEF Typed
      <3>2. /\ \A k \in 1..Len(batch[c]) : batch[c][k] = taken[c] + k - 1
            /\ taken[c] + Len(batch[c]) - 1 = sequence[c]
        BY <2>0, <2>1 DEF Batches
      <3>3. batch[c] \in [1..Len(batch[c]) -> Nat]
        BY <3>1, LenProperties
      <3>4. batch[c] = [k \in 1..Len(batch[c]) |-> taken[c] + k - 1]
        BY <3>2, <3>3
      <3> QED
        BY <3>2, <3>4
    <2> QED
      BY <2>1 DEF BatchedIsComplete
  <1> QED
    BY <1>1, AlwaysInv, PTL

\* A step publishes, or lets go of a batch, or changes nothing a multicast buffer knows of.
LEMMA StepImplementsMulticast == Inv /\ [Next]_vars => [Multicast!Next]_(Multicast!vars)
  <1> SUFFICES ASSUME Inv, [Next]_vars PROVE Multicast!Next \/ UNCHANGED Multicast!vars
    OBVIOUS
  <1>0. Typed /\ Placed /\ Claims /\ Room /\ Pulls
    BY DEF Inv
  <1>1. ASSUME NEW p \in Producers, Produce(p) PROVE Multicast!Publish
    <2>1. ProduceStep(p) /\ Typed' /\ Room'
      BY <1>0, <1>1, ProduceIsStep, ProduceTyped, ProduceRoom
    <2>2. sequence' = sequence
      BY <2>1 DEF ProduceStep, Calls, Gives, ClaimsMulti, WaitsSingle, Returns, Translates, Throws, BatchThrows,
                  PublishesOne, PublishesAll, pulling
    <2>3. published \subseteq published'
      BY <1>0, <2>1, PublishedGrows
    <2>4. published' \subseteq 0..MaxSequence
      <3>1. claimed' \in SequenceValue /\ published' \subseteq 0..claimed'
        BY <2>1 DEF Typed
      <3> QED
        BY <3>1, SequenceValueIsInt, MaxSequenceAssumption
    <2>5. \A s \in published' : \A c \in Pollers : s - BufferSize <= sequence[c]
      BY <2>1, <2>2 DEF Room
    <2> QED
      BY <2>2, <2>3, <2>4, <2>5 DEF Multicast!Publish
  <1>2. ASSUME NEW c \in Pollers, Pull(c) PROVE Multicast!Next \/ UNCHANGED Multicast!vars
    <2>1. PullStep(c) /\ published' = published
      <3>1. PullStep(c)
        BY <1>0, <1>2, PullIsStep
      <3> QED
        BY <3>1 DEF PullStep, ring
    <2>2. CASE LetsGo(c) /\ poller[c].processed # sequence[c]
      <3> DEFINE e == poller[c].processed
      <3>1. poller[c].pc = "set" /\ sequence' = [sequence EXCEPT ![c] = e]
        BY <2>2 DEF LetsGo
      <3>2. /\ sequence[c] <= e /\ (sequence[c] + 1)..poller[c].available \subseteq published
            /\ \A d \in GatedBy[c] : poller[c].available <= sequence[d]
            /\ e <= poller[c].available
        BY <1>0, <3>1 DEF Pulls
      <3>3. /\ e \in SequenceValue /\ poller[c].available \in Int /\ sequence[c] \in Int /\ -1 <= sequence[c] /\ e \in Int
        BY <1>0, PollerFields
      <3>4. e \in 0..MaxSequence /\ sequence[c] < e
        BY <2>2, <3>2, <3>3, SequenceValueIsInt, MaxSequenceAssumption
      <3>5. (sequence[c] + 1)..e \subseteq published
        BY <3>2, <3>3
      <3>6. \A d \in GatedBy[c] : e <= sequence[d]
        <4>1. \A d \in GatedBy[c] : sequence[d] \in Int
          BY <1>0, PollerAssumption, PollerFields
        <4> QED
          BY <3>2, <3>3, <4>1
      <3>7. Multicast!Handle(c, e)
        BY <2>1, <3>1, <3>4, <3>5, <3>6 DEF Multicast!Handle
      <3> QED
        BY <3>4, <3>7 DEF Multicast!Next, Multicast!HandleSome
    <2>3. CASE LetsGo(c) /\ poller[c].processed = sequence[c]
      <3>1. sequence' = sequence
        BY <1>0, <2>3 DEF LetsGo, Typed
      <3> QED
        BY <2>1, <3>1 DEF Multicast!vars
    <2>4. CASE ~LetsGo(c)
      <3>1. sequence' = sequence
        BY <2>1, <2>4 DEF PullStep, Polls, Handles, HandlerThrows, TakesOne
      <3> QED
        BY <2>1, <3>1 DEF Multicast!vars
    <2> QED
      BY <2>2, <2>3, <2>4
  <1>3. CASE UNCHANGED vars
    BY <1>3 DEF vars, ring, pulling, Multicast!vars
  <1> QED
    BY <1>1, <1>2, <1>3 DEF Next, Multicast!Next

\* Publishing with translators and pulling implements the multicast buffer:
\* order, dependencies and slots are kept whatever throws.
THEOREM RefinesMulticast == SafeSpec => Multicast!SafeSpec
  <1>1. Init => Multicast!Init
    BY DEF Init, Multicast!Init, INITIAL_CURSOR_VALUE, Multicast!INITIAL_CURSOR_VALUE
  <1> QED
    BY <1>1, AlwaysInv, StepImplementsMulticast, PTL DEF SafeSpec, Multicast!SafeSpec

=============================================================================
