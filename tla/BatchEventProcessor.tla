-------------------------- MODULE BatchEventProcessor --------------------------
(***************************************************************************)
(* BatchEventProcessor.h: the life cycle of a processor, its batch loop,   *)
(* and what it does when a callback of the event handler throws.  Threads  *)
(* call run() and halt() on one processor; a barrier (alerted_) and the    *)
(* highest published sequence stand for the rest of the system.            *)
(*                                                                         *)
(* A callback may return or throw whatever its type allows, at every call. *)
(* An exception is Std (any std::exception), Rewindable                    *)
(* (RewindableException) or Foreign (not a std::exception); callbacks do   *)
(* not throw the library's own AlertException and TimeoutException.        *)
(*                                                                         *)
(* waitFor is a test of the alert followed by a look at the published      *)
(* sequences, again and again; a gap between published sequences, which    *)
(* makes waitFor return less than it was asked for, is one more round.     *)
(***************************************************************************)
EXTENDS Integers

CONSTANTS
    Runners,            \* threads that call run()
    Halters,            \* threads that call halt()
    MaxSequence,        \* the last event
    MaxBatchSize,       \* maxBatchSize
    MaxAttempts         \* maxAttempts_ of the EventuallyGiveUpBatchRewindStrategy

ASSUME MaxSequenceAssumption == MaxSequence \in Nat
ASSUME BatchAssumption == MaxBatchSize \in Nat /\ MaxBatchSize >= 1
ASSUME AttemptsAssumption == MaxAttempts \in Int

VARIABLES
    strategy,           \* the rewind strategy, fixed at construction; None: the handler is
                        \* not a RewindableEventHandler
    anyTime,            \* what the application does: TRUE: run() may overlap halt(), and the
                        \* exception handler may be set while the processor runs; FALSE: neither
    running,            \* running_
    alerted,            \* alerted_ of the barrier
    cursor,             \* the highest sequence the barrier lets the processor see
    sequence,           \* sequence_
    retriesAttempted,   \* retriesAttempted_
    rpc,                \* where a thread in run() is
    nextSequence,       \* its locals in processEvents
    startOfBatch,
    endOfBatch,
    resume,             \* where its own call of halt() returns to
    hpc,                \* where a thread in halt() is
    outcome             \* history: what became of each event

locals == <<nextSequence, startOfBatch, endOfBatch, resume>>
shared == <<strategy, anyTime, running, alerted, cursor, sequence, retriesAttempted>>
vars == <<shared, rpc, locals, hpc, outcome>>

Strategies == {"None", "Simple", "EventuallyGiveUp"}

Exceptions == {"Std", "Rewindable", "Foreign"}

\* The places inside processEvents.
Looping == {"wait", "strategy", "onTimeout", "alert", "onBatchStart", "handle", "rewind",
            "exception", "haltStore", "haltAlert", "skip"}

\* The places from a successful exchange in run() to the store of IDLE.
Inside == Looping \cup {"clearAlert", "onStart", "check", "onShutdown", "setIdle"}

Goto(r, place) == rpc' = [rpc EXCEPT ![r] = place]

-----------------------------------------------------------------------------
(* run()                                                                   *)

\* A run() that finds RUNNING throws and changes nothing.
Run(r) ==
    /\ rpc[r] = "out"
    /\ anyTime \/ \A h \in Halters : hpc[h] = "out"
    /\ \/ /\ running = "IDLE"
          /\ running' = "RUNNING"
          /\ Goto(r, "clearAlert")
       \/ /\ running = "HALTED"
          /\ Goto(r, "earlyExit")
          /\ UNCHANGED running
    /\ UNCHANGED <<strategy, anyTime, alerted, cursor, sequence, retriesAttempted, locals, hpc, outcome>>

\* A slip in EarlyExit: the loser of the exchange cleans up for the winner.
EarlyExitToIdle(r) ==
    /\ rpc[r] = "earlyExit"
    /\ running' = "IDLE"
    /\ Goto(r, "out")
    /\ UNCHANGED <<strategy, anyTime, alerted, cursor, sequence, retriesAttempted, locals, hpc, outcome>>

\* onStart and onShutdown are called and running_ is left as it is.
EarlyExit(r) ==
    /\ rpc[r] = "earlyExit"
    /\ Goto(r, "out")
    /\ UNCHANGED <<shared, locals, hpc, outcome>>

ClearAlert(r) ==
    /\ rpc[r] = "clearAlert"
    /\ alerted' = FALSE
    /\ Goto(r, "onStart")
    /\ UNCHANGED <<strategy, anyTime, running, cursor, sequence, retriesAttempted, locals, hpc, outcome>>

\* notifyStart is outside of run()'s try: what the exception handler throws,
\* or a Foreign exception of onStart, leaves run() at once.
NotifyStart(r) ==
    /\ rpc[r] = "onStart"
    /\ \E place \in {"check", "escaped"} : Goto(r, place)
    /\ UNCHANGED <<shared, locals, hpc, outcome>>

\* A slip in CheckRunning: a halt() before the loop is not noticed.
CheckNothing(r) ==
    /\ rpc[r] = "check"
    /\ Goto(r, "wait")
    /\ nextSequence' = [nextSequence EXCEPT ![r] = sequence + 1]
    /\ startOfBatch' = [startOfBatch EXCEPT ![r] = sequence + 1]
    /\ UNCHANGED <<shared, endOfBatch, resume, hpc, outcome>>

CheckRunning(r) ==
    /\ rpc[r] = "check"
    /\ \/ /\ running = "RUNNING"
          /\ Goto(r, "wait")
          /\ nextSequence' = [nextSequence EXCEPT ![r] = sequence + 1]
          /\ startOfBatch' = [startOfBatch EXCEPT ![r] = sequence + 1]
       \/ /\ running # "RUNNING"
          /\ Goto(r, "onShutdown")
          /\ UNCHANGED <<nextSequence, startOfBatch>>
    /\ UNCHANGED <<shared, endOfBatch, resume, hpc, outcome>>

\* What notifyShutdown throws leaves run() before running_ is reset; the locals
\* of processEvents are gone.
NotifyShutdown(r) ==
    /\ rpc[r] = "onShutdown"
    /\ \E place \in {"setIdle", "escaped"} : Goto(r, place)
    /\ nextSequence' = [nextSequence EXCEPT ![r] = 0]
    /\ startOfBatch' = [startOfBatch EXCEPT ![r] = 0]
    /\ endOfBatch' = [endOfBatch EXCEPT ![r] = -1]
    /\ UNCHANGED <<shared, resume, hpc, outcome>>

SetIdle(r) ==
    /\ rpc[r] = "setIdle"
    /\ running' = "IDLE"
    /\ Goto(r, "out")
    /\ UNCHANGED <<strategy, anyTime, alerted, cursor, sequence, retriesAttempted, locals, hpc, outcome>>

-----------------------------------------------------------------------------
(* processEvents()                                                         *)

\* The next round of the loop; startOfBatchSequence is nextSequence there.
Loop(r, s) ==
    /\ Goto(r, "wait")
    /\ nextSequence' = [nextSequence EXCEPT ![r] = s]
    /\ startOfBatch' = [startOfBatch EXCEPT ![r] = s]

\* The barrier's checkAlert.
CheckAlert(r) ==
    /\ rpc[r] = "wait"
    /\ Goto(r, IF alerted THEN "alert" ELSE "strategy")
    /\ UNCHANGED <<shared, locals, hpc, outcome>>

\* AlertException: the loop ends only when the processor is not RUNNING.
HandleAlert(r) ==
    /\ rpc[r] = "alert"
    /\ Goto(r, IF running = "RUNNING" THEN "wait" ELSE "onShutdown")
    /\ UNCHANGED <<shared, locals, hpc, outcome>>

\* A slip in Available: the batch ends at the limit, published so far or not.
AvailableBeyondLimit(r) ==
    /\ rpc[r] = "strategy"
    /\ cursor >= nextSequence[r]
    /\ endOfBatch' = [endOfBatch EXCEPT ![r] = nextSequence[r] + MaxBatchSize - 1]
    /\ Goto(r, "onBatchStart")
    /\ UNCHANGED <<shared, nextSequence, startOfBatch, resume, hpc, outcome>>

Available(r) ==
    /\ rpc[r] = "strategy"
    /\ cursor >= nextSequence[r]
    /\ endOfBatch' = [endOfBatch EXCEPT ![r] =
                         LET limit == nextSequence[r] + MaxBatchSize - 1
                         IN  IF limit <= cursor THEN limit ELSE cursor]
    /\ Goto(r, "onBatchStart")
    /\ UNCHANGED <<shared, nextSequence, startOfBatch, resume, hpc, outcome>>

\* Nothing yet: the strategy tests the alert again, or times out.
NotAvailable(r) ==
    /\ rpc[r] = "strategy"
    /\ cursor < nextSequence[r]
    /\ \E place \in {"wait", "onTimeout"} : Goto(r, place)
    /\ UNCHANGED <<shared, locals, hpc, outcome>>

\* The thread that runs the processor halts it: the exception handler threw.
HaltThen(r, place) ==
    /\ Goto(r, "haltStore")
    /\ resume' = [resume EXCEPT ![r] = place]

\* notifyTimeout: what onTimeout throws is reported, unless it is Foreign.
NotifyTimeout(r) ==
    /\ rpc[r] = "onTimeout"
    /\ \/ /\ \E place \in {"wait", "onShutdown"} : Goto(r, place)
          /\ UNCHANGED resume
       \/ HaltThen(r, "wait")
    /\ UNCHANGED <<shared, nextSequence, startOfBatch, endOfBatch, hpc, outcome>>

\* Where an exception of onBatchStart or onEvent is caught: by the rewind
\* handler, by the loop, or only by run().
Caught(exception) ==
    CASE exception = "Rewindable" -> "rewind"
      [] exception = "Std" -> "exception"
      [] exception = "Foreign" -> "onShutdown"

OnBatchStart(r) ==
    /\ rpc[r] = "onBatchStart"
    /\ \E place \in {"handle"} \cup {Caught(e) : e \in Exceptions} : Goto(r, place)
    /\ UNCHANGED <<shared, locals, hpc, outcome>>

Settle(s, how) == outcome' = [outcome EXCEPT ![s] = how]

\* Nobody is told of a Foreign exception: an event whose handler had moved the
\* sequence is lost.
OnEvent(r) ==
    /\ rpc[r] = "handle"
    /\ nextSequence[r] <= endOfBatch[r]
    /\ \/ /\ Settle(nextSequence[r], "handled")
          /\ nextSequence' = [nextSequence EXCEPT ![r] = @ + 1]
          /\ UNCHANGED rpc
       \/ /\ \E e \in Exceptions :
                /\ Goto(r, Caught(e))
                /\ outcome' = [outcome EXCEPT ![nextSequence[r]] =
                                  IF e = "Foreign" /\ @ = "released" THEN "lost" ELSE @]
          /\ UNCHANGED nextSequence
    /\ UNCHANGED <<shared, startOfBatch, endOfBatch, resume, hpc>>

\* A handler with the sequence callback moves the sequence while it handles an
\* event, and may throw afterwards; a RewindableEventHandler is not given the
\* callback.
EarlyRelease(r) ==
    /\ rpc[r] = "handle"
    /\ nextSequence[r] <= endOfBatch[r]
    /\ strategy = "None"
    /\ outcome[nextSequence[r]] # "released"
    /\ Settle(nextSequence[r], "released")
    /\ sequence' = nextSequence[r]
    /\ UNCHANGED <<strategy, anyTime, running, alerted, cursor, retriesAttempted, rpc,
                   locals, hpc>>

EndBatch(r) ==
    /\ rpc[r] = "handle"
    /\ nextSequence[r] > endOfBatch[r]
    /\ retriesAttempted' = 0
    /\ sequence' = endOfBatch[r]
    /\ Loop(r, nextSequence[r])
    /\ UNCHANGED <<strategy, anyTime, running, alerted, cursor, endOfBatch, resume, hpc, outcome>>

\* handleRewindException answers THROW.
GivesUp(attempts) == attempts = MaxAttempts /\ strategy = "EventuallyGiveUp"

\* Only EventuallyGiveUp looks at the count, and tests it for equality: all
\* counts beyond maxAttempts_ are alike, and one of them stands for the others.
Counts == strategy = "EventuallyGiveUp" /\ retriesAttempted <= MaxAttempts

\* A slip in CountAttempt: each attempt counts twice.
CountTwice ==
    retriesAttempted' = IF Counts THEN retriesAttempted + 2 ELSE retriesAttempted

\* ++retriesAttempted_.
CountAttempt ==
    retriesAttempted' = IF Counts THEN retriesAttempted + 1 ELSE retriesAttempted

\* TryRewindHandler, or NoRewindHandler, which throws.
AttemptRewind(r) ==
    /\ rpc[r] = "rewind"
    /\ \/ /\ strategy # "None"
          /\ ~GivesUp(retriesAttempted + 1)
          /\ CountAttempt
          /\ Loop(r, startOfBatch[r])
       \/ /\ GivesUp(retriesAttempted + 1)
          /\ retriesAttempted' = 0
          /\ Goto(r, "exception")
          /\ UNCHANGED <<nextSequence, startOfBatch>>
       \/ /\ strategy = "None"
          /\ Goto(r, "exception")
          /\ UNCHANGED <<retriesAttempted, nextSequence, startOfBatch>>
    /\ UNCHANGED <<strategy, anyTime, running, alerted, cursor, sequence,
                   endOfBatch, resume, hpc, outcome>>

\* handleEventException: the event is reported; the processor halts if that throws.
HandleEventException(r) ==
    /\ rpc[r] = "exception"
    /\ Settle(nextSequence[r], "reported")
    /\ \/ Goto(r, "skip") /\ UNCHANGED resume
       \/ HaltThen(r, "skip")
    /\ UNCHANGED <<shared, nextSequence, startOfBatch, endOfBatch, hpc>>

\* A slip in Skip: the sequence goes to the end of the batch.
SkipBatch(r) ==
    /\ rpc[r] = "skip"
    /\ sequence' = endOfBatch[r]
    /\ Loop(r, endOfBatch[r] + 1)
    /\ UNCHANGED <<strategy, anyTime, running, alerted, cursor, retriesAttempted,
                   endOfBatch, resume, hpc, outcome>>

\* Another: the next event is the one that failed.
SkipWithoutNext(r) ==
    /\ rpc[r] = "skip"
    /\ sequence' = nextSequence[r]
    /\ Loop(r, nextSequence[r])
    /\ UNCHANGED <<strategy, anyTime, running, alerted, cursor, retriesAttempted,
                   endOfBatch, resume, hpc, outcome>>

\* The processor moves past the event that failed.
Skip(r) ==
    /\ rpc[r] = "skip"
    /\ sequence' = nextSequence[r]
    /\ Loop(r, nextSequence[r] + 1)
    /\ UNCHANGED <<strategy, anyTime, running, alerted, cursor, retriesAttempted,
                   endOfBatch, resume, hpc, outcome>>

\* halt() called by handleEventException.
HaltSelf(r) ==
    /\ rpc[r] = "haltStore"
    /\ running' = "HALTED"
    /\ Goto(r, "haltAlert")
    /\ UNCHANGED <<strategy, anyTime, alerted, cursor, sequence, retriesAttempted, locals, hpc, outcome>>

AlertSelf(r) ==
    /\ rpc[r] = "haltAlert"
    /\ alerted' = TRUE
    /\ Goto(r, resume[r])
    /\ resume' = [resume EXCEPT ![r] = "wait"]
    /\ UNCHANGED <<strategy, anyTime, running, cursor, sequence, retriesAttempted,
                   nextSequence, startOfBatch, endOfBatch, hpc, outcome>>

-----------------------------------------------------------------------------
(* The other threads                                                       *)

\* halt(): running_ first, the alert second.
Halt(h) ==
    /\ hpc[h] = "out"
    /\ running' = "HALTED"
    /\ hpc' = [hpc EXCEPT ![h] = "alert"]
    /\ UNCHANGED <<strategy, anyTime, alerted, cursor, sequence, retriesAttempted, rpc, locals, outcome>>

Alert(h) ==
    /\ hpc[h] = "alert"
    /\ alerted' = TRUE
    /\ hpc' = [hpc EXCEPT ![h] = "out"]
    /\ UNCHANGED <<strategy, anyTime, running, cursor, sequence, retriesAttempted, rpc, locals, outcome>>

\* ExceptionHandlerSetting::with alerts the barrier without halting.
SetExceptionHandler ==
    /\ anyTime \/ \A r \in Runners : rpc[r] \notin Inside
    /\ ~alerted
    /\ alerted' = TRUE
    /\ UNCHANGED <<strategy, anyTime, running, cursor, sequence, retriesAttempted, rpc, locals, hpc, outcome>>

\* One more event is published.
Publish ==
    /\ cursor < MaxSequence
    /\ cursor' = cursor + 1
    /\ UNCHANGED <<strategy, anyTime, running, alerted, sequence, retriesAttempted, rpc, locals, hpc, outcome>>

-----------------------------------------------------------------------------

Init ==
    /\ strategy \in Strategies
    /\ anyTime \in BOOLEAN
    /\ running = "IDLE"
    /\ alerted = FALSE
    /\ cursor = -1
    /\ sequence = -1
    /\ retriesAttempted = 0
    /\ rpc = [r \in Runners |-> "out"]
    /\ nextSequence = [r \in Runners |-> 0]
    /\ startOfBatch = [r \in Runners |-> 0]
    /\ endOfBatch = [r \in Runners |-> -1]
    /\ resume = [r \in Runners |-> "wait"]
    /\ hpc = [h \in Halters |-> "out"]
    /\ outcome = [s \in 0..MaxSequence |-> "none"]

\* A thread inside run() goes on.
Continue(r) ==
    \/ EarlyExit(r)
    \/ ClearAlert(r)
    \/ NotifyStart(r)
    \/ CheckRunning(r)
    \/ CheckAlert(r)
    \/ HandleAlert(r)
    \/ Available(r)
    \/ NotAvailable(r)
    \/ NotifyTimeout(r)
    \/ OnBatchStart(r)
    \/ OnEvent(r)
    \/ EarlyRelease(r)
    \/ EndBatch(r)
    \/ AttemptRewind(r)
    \/ HandleEventException(r)
    \/ Skip(r)
    \/ HaltSelf(r)
    \/ AlertSelf(r)
    \/ NotifyShutdown(r)
    \/ SetIdle(r)

Next ==
    \/ \E r \in Runners : Run(r) \/ Continue(r)
    \/ \E h \in Halters : Halt(h) \/ Alert(h)
    \/ SetExceptionHandler
    \/ Publish

SafeSpec == Init /\ [][Next]_vars

\* Threads inside run() and halt() keep running, so callbacks return.
Fairness ==
    /\ \A r \in Runners : WF_vars(Continue(r))
    /\ \A h \in Halters : WF_vars(Alert(h))

Spec == SafeSpec /\ Fairness

-----------------------------------------------------------------------------
(* Properties                                                              *)

\* Every variable keeps its type; the attempts of EventuallyGiveUp never step
\* over the limit that they are compared with, which is fixed at construction.
TypeOK ==
    /\ strategy \in Strategies
    /\ anyTime \in BOOLEAN
    /\ running \in {"IDLE", "HALTED", "RUNNING"}
    /\ alerted \in BOOLEAN
    /\ cursor \in -1..MaxSequence
    /\ sequence \in -1..MaxSequence
    /\ retriesAttempted \in Nat
    /\ strategy = "EventuallyGiveUp" /\ MaxAttempts >= 1 => retriesAttempted < MaxAttempts
    /\ rpc \in [Runners -> Inside \cup {"out", "earlyExit", "escaped"}]
    /\ nextSequence \in [Runners -> 0..(MaxSequence + 1)]
    /\ startOfBatch \in [Runners -> 0..(MaxSequence + 1)]
    /\ endOfBatch \in [Runners -> -1..MaxSequence]
    /\ resume \in [Runners -> {"wait", "skip"}]
    /\ hpc \in [Halters -> {"out", "alert"}]
    /\ outcome \in [0..MaxSequence -> {"none", "released", "handled", "reported", "lost"}]

\* At most one thread is between run()'s exchange and its store of IDLE,
\* however run(), halt() and early exits interleave.
OneRunner ==
    \A r, q \in Runners : rpc[r] \in Inside /\ rpc[q] \in Inside => r = q

\* The sequence that producers and dependent consumers see covers only events
\* that the handler has handled or released itself, or the exception handler
\* was told of: no exception, rewind, halt or new run skips one.
Accounted == \A s \in 0..sequence : outcome[s] # "none"

\* What becomes of an event the sequence has passed is final: it is never
\* delivered or reported again, by this run() or a later one, and the sequence
\* never moves back.  Only an event that its handler has just released is
\* still to be handled, reported or lost.
SettledIsFinal ==
    [][/\ sequence' >= sequence
       /\ \A s \in 0..sequence : outcome[s] # "released" => outcome'[s] = outcome[s]]_vars

\* A halted processor leaves its loop, whatever the handler throws and however
\* often the batch is rewound; unless a run() in the middle of a halt() clears
\* its alert.
HaltEndsRun == (~anyTime /\ running = "HALTED") ~> \A r \in Runners : rpc[r] \notin Looping

\* A published event is settled unless the processor stops running or the
\* strategy rewinds without end (Simple, and a limit that no count of attempts
\* is ever equal to), or an alert that nobody clears stands.
Progress ==
    \A s \in 0..MaxSequence :
        (/\ ~anyTime
         /\ strategy = "None" \/ (strategy = "EventuallyGiveUp" /\ MaxAttempts >= 1)
         /\ cursor >= s
         /\ \E r \in Runners : rpc[r] \in Looping)
            ~> (sequence >= s \/ \A r \in Runners : rpc[r] \notin Looping)
=============================================================================
