------------------------------- MODULE Disruptor -------------------------------
(***************************************************************************)
(* dsl/Disruptor.h with ConsumerRepository, EventProcessorInfo and         *)
(* EventHandlerGroup: the topology of handlers as it is built, and the     *)
(* life of the processors from start() to the destructor.                  *)
(*                                                                         *)
(* One thread owns the disruptor and calls its methods; a publisher and    *)
(* the processors' threads run beside it.  What the modules of the         *)
(* sequencers and of the processor look into is one step here: a           *)
(* publication, the exchange of the gating sequences, halt().  A processor *)
(* takes all that its barrier shows as one batch.                          *)
(***************************************************************************)
EXTENDS Sequencing, Sequences, FiniteSets, FiniteSetsExt, SequencesExt

CONSTANT
    Handlers            \* event handlers, each with its processor

ASSUME HandlersAssumption == IsFiniteSet(Handlers)

VARIABLES
    consumerInfos,      \* consumerInfos_: handlers in the order they were added
    dependsOn,          \* the sequences a handler's barrier tracks; {}: the cursor
    endOfChain,         \* the handlers whose endOfChain_ is set
    gating,             \* the gating sequences of the ring buffer
    cursor,             \* cursor of the ring buffer
    started,            \* started_
    halted,             \* halted_
    pc,                 \* where the owner is
    args,               \* what its call is about: see Call
    at,                 \* the index of its loop over consumerInfos_
    seen,               \* the cursor its hasBacklog() looked at
    running,            \* running_ of each processor
    sequence,           \* sequence_ of each processor
    tpc,                \* where each processor's thread is
    batchEnd,           \* the end of its batch
    failed              \* history: processors that an exception has halted

topology == <<consumerInfos, dependsOn, endOfChain, gating>>
owner == <<started, halted, pc, args, at, seen>>
processors == <<running, sequence, tpc, batchEnd, failed>>
vars == <<topology, cursor, owner, processors>>

\* Nothing to do for the owner.
NoCall == [name |-> "none"]

Added == Range(consumerInfos)

Return == pc' = "out" /\ args' = NoCall /\ at' = 1 /\ seen' = -1

-----------------------------------------------------------------------------
(* Building the topology                                                   *)

\* What an EventHandlerGroup may hold: groups are joined by and_ and made by after.
Groups == SUBSET Added

\* unMarkEventProcessorsAsEndOfChain, and the mark of a new EventProcessorInfo.
Mark(new, behind) == endOfChain' = (endOfChain \ behind) \cup new

\* createOne for each handler: a processor whose barrier tracks the group.
Create(new, behind) ==
    /\ consumerInfos' = consumerInfos \o SetToSeq(new)
    /\ dependsOn' = [h \in Handlers |-> IF h \in new THEN behind ELSE dependsOn[h]]

\* createEventProcessors, called by handleEventsWith and then: it throws after
\* start().  No handler is added after halt(), nor behind one that is not at
\* the cursor, nor (see Publish) while events are published.
CreateEventProcessors(new, behind) ==
    /\ pc = "out"
    /\ ~started /\ ~halted
    /\ \A b \in behind : sequence[b] = cursor
    /\ Mark(new, behind)
    /\ Create(new, behind)
    /\ pc' = "addGating"
    /\ args' = [name |-> "create", new |-> new, behind |-> behind]
    /\ UNCHANGED <<gating, cursor, started, halted, at, seen, processors>>

\* handleEventsWith(processors): the caller's own processors, whose barriers
\* asSequenceBarrier or newBarrier made, and which it does not start itself.
\* The group keeps its marks and its gating sequences.  Nothing in the code
\* refuses such a call after start() or halt(): it adds a gating sequence that
\* the DSL starts no thread for, and is left out.  Processors of one call that
\* depend on each other are added by a call for each here, which comes to the same.
HandleEventsWithProcessors(new, behind) ==
    /\ pc = "out"
    /\ ~started /\ ~halted
    /\ \A b \in behind : sequence[b] = cursor
    /\ Mark(new, {})
    /\ Create(new, behind)
    /\ pc' = "addGating"
    /\ args' = [name |-> "create", new |-> new, behind |-> {}]
    /\ UNCHANGED <<gating, cursor, started, halted, at, seen, processors>>

\* A slip in AddGatingSequences: newcomers start with the first event.
AddGatingAtStart ==
    /\ pc = "addGating"
    /\ gating' = gating \cup args.new
    /\ pc' = "removeGating"
    /\ UNCHANGED <<consumerInfos, dependsOn, endOfChain, cursor, started, halted, args, at, seen,
                   processors>>

\* The new sequences start at the cursor.
AddGatingSequences ==
    /\ pc = "addGating"
    /\ sequence' = [h \in Handlers |-> IF h \in args.new THEN cursor ELSE sequence[h]]
    /\ gating' = gating \cup args.new
    /\ pc' = "removeGating"
    /\ UNCHANGED <<consumerInfos, dependsOn, endOfChain, cursor, started, halted, args, at, seen,
                   running, tpc, batchEnd, failed>>

\* updateGatingSequencesForNextInChain removes one after the other; nothing
\* looks at them in between.
UpdateGatingSequences ==
    /\ pc = "removeGating"
    /\ gating' = gating \ args.behind
    /\ Return
    /\ UNCHANGED <<consumerInfos, dependsOn, endOfChain, cursor, started, halted, processors>>

-----------------------------------------------------------------------------
(* The owner's loops over consumerInfos_                                   *)

\* A call that goes through consumerInfos_, beginning at a place.
Call(name, place) ==
    /\ pc = "out"
    /\ pc' = place
    /\ at' = 1
    /\ args' = [name |-> name]

AtEnd == at > Len(consumerInfos)

\* checkOnlyStartedOnce: a second start() throws.
Start ==
    /\ ~started
    /\ started' = TRUE
    /\ Call("start", "start")
    /\ UNCHANGED <<topology, cursor, halted, seen, processors>>

\* EventProcessorInfo::start for each processor.
StartNext ==
    /\ pc = "start"
    /\ IF AtEnd
         THEN Return /\ UNCHANGED tpc
         ELSE /\ tpc' = [tpc EXCEPT ![consumerInfos[at]] = "created"]
              /\ at' = at + 1
              /\ UNCHANGED <<pc, args, seen>>
    /\ UNCHANGED <<topology, cursor, started, halted, running, sequence, batchEnd, failed>>

\* A thread cannot be created: start() throws and the others are not started.
StartFails ==
    /\ pc = "start"
    /\ ~AtEnd
    /\ Return
    /\ UNCHANGED <<topology, cursor, started, halted, processors>>

\* shutdown(timeoutMillis), timed or not.  The history part of args is the
\* situation in which it was called.
Shutdown ==
    /\ pc = "out"
    /\ pc' = "backlog"
    /\ \E timed \in BOOLEAN :
         args' = [name |-> "shutdown", timed |-> timed, cursor |-> cursor,
                  ready |-> \A h \in Added : running[h] = "RUNNING",
                  started |-> ~halted /\ \A h \in Added : tpc[h] # "none"]
    /\ UNCHANGED <<topology, cursor, started, halted, at, seen, processors>>

\* hasBacklog reads the cursor first.
ReadCursor ==
    /\ pc = "backlog"
    /\ seen' = cursor
    /\ at' = 1
    /\ pc' = "isRunning"
    /\ UNCHANGED <<topology, cursor, started, halted, args, processors>>

\* The loop of hasBacklog: a processor that is IDLE, or not at the end of a
\* chain, is passed over.
IsRunning ==
    /\ pc = "isRunning"
    /\ ~AtEnd
    /\ LET h == consumerInfos[at]
       IN  IF running[h] # "IDLE" /\ h \in endOfChain
             THEN pc' = "compare" /\ UNCHANGED at
             ELSE at' = at + 1 /\ UNCHANGED pc
    /\ UNCHANGED <<topology, cursor, started, halted, args, seen, processors>>

\* A slip in CompareSequence: an event less is a backlog no more.
CompareSequenceLoosely ==
    /\ pc = "compare"
    /\ IF seen > sequence[consumerInfos[at]] + 1
         THEN pc' = "wait" /\ UNCHANGED at
         ELSE pc' = "isRunning" /\ at' = at + 1
    /\ UNCHANGED <<topology, cursor, started, halted, args, seen, processors>>

\* Another: being level is a backlog.
CompareSequenceStrictly ==
    /\ pc = "compare"
    /\ IF seen >= sequence[consumerInfos[at]]
         THEN pc' = "wait" /\ UNCHANGED at
         ELSE pc' = "isRunning" /\ at' = at + 1
    /\ UNCHANGED <<topology, cursor, started, halted, args, seen, processors>>

CompareSequence ==
    /\ pc = "compare"
    /\ IF seen > sequence[consumerInfos[at]]
         THEN pc' = "wait" /\ UNCHANGED at
         ELSE pc' = "isRunning" /\ at' = at + 1
    /\ UNCHANGED <<topology, cursor, started, halted, args, seen, processors>>

\* There is a backlog: look again, or throw a TimeoutException.
WaitForBacklog ==
    /\ pc = "wait"
    /\ \/ pc' = "backlog" /\ at' = 1 /\ seen' = -1 /\ UNCHANGED args
       \/ args.timed /\ Return
    /\ UNCHANGED <<topology, cursor, started, halted, processors>>

\* There is none: shutdown halts.
Drained ==
    /\ pc = "isRunning"
    /\ AtEnd
    /\ halted' = TRUE
    /\ pc' = "halt"
    /\ at' = 1
    /\ UNCHANGED <<topology, cursor, started, args, seen, processors>>

Halt ==
    /\ halted' = TRUE
    /\ Call("halt", "halt")
    /\ UNCHANGED <<topology, cursor, started, seen, processors>>

\* A slip in Destroy: the destructor only joins.
DestroyWithoutHalt ==
    /\ Call("destroy", "join")
    /\ UNCHANGED <<topology, cursor, started, halted, seen, processors>>

\* The destructor halts unless that was done, and joins.
Destroy ==
    /\ halted' = TRUE
    /\ Call("destroy", IF halted THEN "join" ELSE "halt")
    /\ UNCHANGED <<topology, cursor, started, seen, processors>>

Join ==
    /\ Call("join", "join")
    /\ UNCHANGED <<topology, cursor, started, halted, seen, processors>>

\* haltAll: each processor's halt().
HaltNext ==
    /\ pc = "halt"
    /\ IF ~AtEnd
         THEN /\ running' = [running EXCEPT ![consumerInfos[at]] = "HALTED"]
              /\ at' = at + 1
              /\ UNCHANGED <<pc, args, seen>>
         ELSE /\ UNCHANGED running
              /\ IF args.name = "destroy"
                   THEN pc' = "join" /\ at' = 1 /\ UNCHANGED <<args, seen>>
                   ELSE Return
    /\ UNCHANGED <<topology, cursor, started, halted, sequence, tpc, batchEnd, failed>>

\* joinAll: each thread that was created has ended.
JoinNext ==
    /\ pc = "join"
    /\ IF ~AtEnd
         THEN /\ tpc[consumerInfos[at]] \in {"none", "ended"}
              /\ at' = at + 1
              /\ UNCHANGED <<pc, args, seen>>
         ELSE IF args.name = "destroy"
                THEN pc' = "destroyed" /\ UNCHANGED <<args, at, seen>>
                ELSE Return
    /\ UNCHANGED <<topology, cursor, started, halted, processors>>

-----------------------------------------------------------------------------
(* The publisher and the processors                                        *)

\* publishEvent: the slowest gating sequence is less than a lap behind.
Publish ==
    /\ pc \notin {"addGating", "removeGating", "destroyed"}
    /\ cursor < MaxSequence
    /\ \A h \in gating : cursor + 1 - BufferSize <= sequence[h]
    /\ cursor' = cursor + 1
    /\ UNCHANGED <<topology, owner, processors>>

ThreadGoto(h, place) == tpc' = [tpc EXCEPT ![h] = place]

\* run(): a processor that was halted before leaves by earlyExit.
Run(h) ==
    /\ tpc[h] = "created"
    /\ \/ /\ running[h] = "IDLE"
          /\ running' = [running EXCEPT ![h] = "RUNNING"]
          /\ ThreadGoto(h, "loop")
       \/ /\ running[h] = "HALTED"
          /\ ThreadGoto(h, "ended")
          /\ UNCHANGED running
    /\ UNCHANGED <<topology, cursor, owner, sequence, batchEnd, failed>>

\* The alert that halt() sets is looked at before each batch.
Loop(h) ==
    /\ tpc[h] = "loop"
    /\ \/ /\ running[h] = "RUNNING"
          /\ ThreadGoto(h, "wait")
          /\ UNCHANGED running
       \/ /\ running[h] # "RUNNING"
          /\ ThreadGoto(h, "ended")
          /\ running' = [running EXCEPT ![h] = "IDLE"]
    /\ UNCHANGED <<topology, cursor, owner, sequence, batchEnd, failed>>

\* What h's barrier shows.
Available(h) == Min({cursor} \cup {sequence[d] : d \in dependsOn[h]})

Wait(h) ==
    /\ tpc[h] = "wait"
    /\ IF Available(h) > sequence[h]
         THEN ThreadGoto(h, "batch") /\ batchEnd' = [batchEnd EXCEPT ![h] = Available(h)]
         ELSE ThreadGoto(h, "loop") /\ UNCHANGED batchEnd
    /\ UNCHANGED <<topology, cursor, owner, running, sequence, failed>>

\* A slip in EndBatch: the sequence is that of the next event.
EndBatchBeyond(h) ==
    /\ tpc[h] = "batch"
    /\ sequence' = [sequence EXCEPT ![h] = batchEnd[h] + 1]
    /\ batchEnd' = [batchEnd EXCEPT ![h] = -1]
    /\ ThreadGoto(h, "loop")
    /\ UNCHANGED <<topology, cursor, owner, running, failed>>

EndBatch(h) ==
    /\ tpc[h] = "batch"
    /\ sequence' = [sequence EXCEPT ![h] = batchEnd[h]]
    /\ batchEnd' = [batchEnd EXCEPT ![h] = -1]
    /\ ThreadGoto(h, "loop")
    /\ UNCHANGED <<topology, cursor, owner, running, failed>>

\* handleEventException with an exception handler that throws, as the default
\* one does: the processor halts itself at the event that failed.  With one that
\* returns the loop goes on behind that event (BatchEventProcessor, Skip).
FailBatch(h) ==
    /\ tpc[h] = "batch"
    /\ \E s \in (sequence[h] + 1)..batchEnd[h] : sequence' = [sequence EXCEPT ![h] = s]
    /\ batchEnd' = [batchEnd EXCEPT ![h] = -1]
    /\ running' = [running EXCEPT ![h] = "HALTED"]
    /\ failed' = failed \cup {h}
    /\ ThreadGoto(h, "loop")
    /\ UNCHANGED <<topology, cursor, owner>>

-----------------------------------------------------------------------------

Init ==
    /\ consumerInfos = <<>>
    /\ dependsOn = [h \in Handlers |-> {}]
    /\ endOfChain = {}
    /\ gating = {}
    /\ cursor = -1
    /\ started = FALSE
    /\ halted = FALSE
    /\ pc = "out"
    /\ args = NoCall
    /\ at = 1
    /\ seen = -1
    /\ running = [h \in Handlers |-> "IDLE"]
    /\ sequence = [h \in Handlers |-> -1]
    /\ tpc = [h \in Handlers |-> "none"]
    /\ batchEnd = [h \in Handlers |-> -1]
    /\ failed = {}

\* The owner inside of a call goes on.
Continue ==
    \/ AddGatingSequences
    \/ UpdateGatingSequences
    \/ StartNext
    \/ StartFails
    \/ ReadCursor
    \/ IsRunning
    \/ CompareSequence
    \/ WaitForBacklog
    \/ Drained
    \/ HaltNext
    \/ JoinNext

\* The owner calls.
Begin ==
    \/ \E new \in (SUBSET (Handlers \ Added)) \ {{}} : \E behind \in Groups :
         CreateEventProcessors(new, behind) \/ HandleEventsWithProcessors(new, behind)
    \/ Start
    \/ Shutdown
    \/ Halt
    \/ Join
    \/ Destroy

Process(h) == Run(h) \/ Loop(h) \/ Wait(h) \/ EndBatch(h) \/ FailBatch(h)

Next ==
    \/ Begin
    \/ Continue
    \/ Publish
    \/ \E h \in Handlers : Process(h)

SafeSpec == Init /\ [][Next]_vars

\* Threads run; calling the disruptor and publishing are the application's choice.
Fairness == WF_vars(Continue) /\ \A h \in Handlers : WF_vars(Process(h))

Spec == SafeSpec /\ Fairness

-----------------------------------------------------------------------------
(* Properties                                                              *)

\* Every variable keeps its type.
TypeOK ==
    /\ consumerInfos \in SeqOf(Handlers, Cardinality(Handlers))
    /\ dependsOn \in [Handlers -> SUBSET Handlers]
    /\ endOfChain \subseteq Added
    /\ gating \subseteq Added
    /\ cursor \in -1..MaxSequence
    /\ started \in BOOLEAN
    /\ halted \in BOOLEAN
    /\ at \in 1..(Cardinality(Handlers) + 1)
    /\ seen \in -1..cursor
    /\ running \in [Handlers -> {"IDLE", "HALTED", "RUNNING"}]
    /\ sequence \in [Handlers -> -1..MaxSequence]
    /\ tpc \in [Handlers -> {"none", "created", "loop", "wait", "batch", "ended"}]
    /\ batchEnd \in [Handlers -> -1..MaxSequence]
    /\ failed \subseteq Added

\* A handler never gets ahead of those it was added behind, and the publisher
\* never gets more than a lap ahead of any handler, though only the ends of
\* the chains gate it and the gating sequences are exchanged link by link.
ChainsHold ==
    \A h \in Added : ~(pc = "addGating" /\ h \in args.new) =>
        /\ \A d \in dependsOn[h] : sequence[h] <= sequence[d]
        /\ cursor - sequence[h] <= BufferSize

\* The place where shutdown() has found no backlog and is halting.
ShutdownHalts == pc = "halt" /\ args.name = "shutdown"

\* shutdown() lets no handler miss an event that was published before the call,
\* when all processors were RUNNING then and none has failed.
ShutdownDrains ==
    ShutdownHalts /\ args.ready /\ failed = {} =>
        \A h \in Added : sequence[h] >= args.cursor

\* shutdown() lets no handler miss an event that was published before the call,
\* when their threads had been started and none has failed.
ShutdownDrainsStarted ==
    ShutdownHalts /\ args.started /\ failed = {} =>
        \A h \in Added : sequence[h] >= args.cursor

\* shutdown() without a timeout returns, when all processors were RUNNING
\* and unless one fails, on which others may depend.
ShutdownReturns ==
    (pc = "backlog" /\ ~args.timed /\ args.ready) ~> (pc = "out" \/ failed # {})

\* The destructor returns: every thread that was started ends, also one that
\* had not come to run() when it was halted, and one that was halted before.
DestructionEnds == (args.name = "destroy") ~> (pc = "destroyed")
=============================================================================
