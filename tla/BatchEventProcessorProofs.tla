----------------------- MODULE BatchEventProcessorProofs -----------------------
(***************************************************************************)
(* Theorems about BatchEventProcessor, for every number of threads in      *)
(* run() and halt(), every batch size, every rewind limit and any number   *)
(* of events.                                                              *)
(*                                                                         *)
(* Exclusive says that whoever is inside run() owns running_, which is     *)
(* then not IDLE; hence nobody else moves the sequence, and Placed can     *)
(* say how the locals of processEvents relate to it.                       *)
(***************************************************************************)
EXTENDS BatchEventProcessor, TLAPS

\* One thread at most is inside run(), and running_ shows it.
Exclusive == OneRunner /\ \A r \in Runners : rpc[r] \in Inside => running # "IDLE"

\* The places with a batch in hand, and those whose next event has failed.
InBatch == {"onBatchStart", "handle", "rewind", "exception", "skip"}
AtEvent == InBatch \ {"handle"}

\* What can become of an event.
Outcomes == {"none", "released", "handled", "reported", "lost"}

\* The thread halts the processor because an exception of an event was reported.
HaltsForEvent(r) == rpc[r] \in {"haltStore", "haltAlert"} /\ resume[r] = "skip"

\* The handler has moved the sequence to the event it is called for.
Released(r) == sequence = nextSequence[r]

\* Where a thread is in processEvents says how far it is: every event from the
\* sequence to nextSequence is settled, and the batch starts after the sequence
\* unless a handler, which then cannot rewind it, has released a part of it.
PlacedRunner(r) ==
    rpc[r] \in Looping =>
        /\ strategy # "None" => startOfBatch[r] = sequence + 1
        /\ sequence <= nextSequence[r]
        /\ Released(r) => /\ nextSequence[r] <= endOfBatch[r] /\ strategy = "None"
                          /\ rpc[r] \in InBatch \ {"onBatchStart"} \/ HaltsForEvent(r)
                          /\ rpc[r] \in {"handle", "rewind", "exception"} =>
                                 outcome[nextSequence[r]] = "released"
        /\ \A s \in (sequence + 1)..(nextSequence[r] - 1) : outcome[s] # "none"
        /\ rpc[r] \in InBatch => nextSequence[r] <= endOfBatch[r] + 1
        /\ rpc[r] \in AtEvent \/ HaltsForEvent(r) => nextSequence[r] <= endOfBatch[r]
        /\ rpc[r] = "skip" \/ HaltsForEvent(r) => outcome[nextSequence[r]] # "none"
        /\ ~(rpc[r] \in InBatch \/ HaltsForEvent(r)) =>
               startOfBatch[r] = sequence + 1 /\ nextSequence[r] = sequence + 1

Placed == \A r \in Runners : PlacedRunner(r)

Safe == TypeOK /\ Exclusive /\ Placed /\ Accounted

\* The constants are numbers.
LEMMA ConstantTypes ==
    MaxSequence \in Nat /\ MaxBatchSize \in Nat /\ MaxBatchSize >= 1 /\ MaxAttempts \in Int
  BY MaxSequenceAssumption, BatchAssumption, AttemptsAssumption

\* Nothing has happened yet.
LEMMA InitSafe == Init => Safe
  <1> SUFFICES ASSUME Init PROVE Safe
    OBVIOUS
  <1>1. TypeOK
    <2>1. /\ strategy \in Strategies /\ running \in {"IDLE", "HALTED", "RUNNING"}
          /\ alerted \in BOOLEAN /\ anyTime \in BOOLEAN
      BY DEF Init
    <2>2. /\ cursor \in -1..MaxSequence /\ sequence \in -1..MaxSequence
          /\ retriesAttempted \in Nat /\ (MaxAttempts >= 1 => retriesAttempted < MaxAttempts)
      BY ConstantTypes DEF Init
    <2>3. /\ rpc \in [Runners -> Inside \cup {"out", "earlyExit", "escaped"}]
          /\ resume \in [Runners -> {"wait", "skip"}]
          /\ hpc \in [Halters -> {"out", "alert"}]
          /\ outcome \in [0..MaxSequence -> Outcomes]
      BY DEF Init, Outcomes
    <2>4. /\ nextSequence \in [Runners -> 0..(MaxSequence + 1)]
          /\ startOfBatch \in [Runners -> 0..(MaxSequence + 1)]
          /\ endOfBatch \in [Runners -> -1..MaxSequence]
      BY ConstantTypes DEF Init
    <2> QED
      BY <2>1, <2>2, <2>3, <2>4 DEF TypeOK, Outcomes
  <1>2. Exclusive /\ Placed
    BY DEF Init, Exclusive, OneRunner, Placed, PlacedRunner, Inside, Looping
  <1>3. Accounted
    BY DEF Init, Accounted
  <1> QED
    BY <1>1, <1>2, <1>3 DEF Safe

-----------------------------------------------------------------------------
(* Types                                                                   *)

\* The handler throws on the event it is called for.
Throws(r, e) ==
    /\ Goto(r, Caught(e))
    /\ outcome' = [outcome EXCEPT ![nextSequence[r]] =
                      IF e = "Foreign" /\ @ = "released" THEN "lost" ELSE @]
    /\ UNCHANGED nextSequence

\* A step inside run() keeps the types.
LEMMA RunnerTypeOK ==
    ASSUME TypeOK, Placed, NEW r \in Runners, Run(r) \/ Continue(r)
    PROVE  TypeOK'
  <1> USE ConstantTypes DEF Goto, locals, shared
  <1>1. CASE Run(r)
    BY <1>1 DEF Run, TypeOK, Inside, Looping
  <1>2. CASE EarlyExit(r)
    BY <1>2 DEF EarlyExit, TypeOK, Inside, Looping
  <1>3. CASE ClearAlert(r)
    BY <1>3 DEF ClearAlert, TypeOK, Inside, Looping
  <1>4. CASE NotifyStart(r)
    BY <1>4 DEF NotifyStart, TypeOK, Inside, Looping
  <1>5. CASE CheckRunning(r)
    <2>1. CASE running = "RUNNING"
      <3>1. sequence + 1 \in 0..(MaxSequence + 1)
        BY DEF TypeOK
      <3> QED
        BY <1>5, <2>1, <3>1 DEF CheckRunning, TypeOK, Inside, Looping
    <2>2. CASE running # "RUNNING"
      BY <1>5, <2>2 DEF CheckRunning, TypeOK, Inside, Looping
    <2> QED
      BY <2>1, <2>2
  <1>6. CASE CheckAlert(r)
    BY <1>6 DEF CheckAlert, TypeOK, Inside, Looping
  <1>7. CASE HandleAlert(r)
    BY <1>7 DEF HandleAlert, TypeOK, Inside, Looping
  <1>8. CASE Available(r)
    BY <1>8 DEF Available, TypeOK, Inside, Looping
  <1>9. CASE NotAvailable(r)
    BY <1>9 DEF NotAvailable, TypeOK, Inside, Looping
  <1>10. CASE NotifyTimeout(r)
    <2>1. CASE UNCHANGED resume /\ \E place \in {"wait", "onShutdown"} : Goto(r, place)
      BY <1>10, <2>1 DEF NotifyTimeout, TypeOK, Inside, Looping
    <2>2. CASE HaltThen(r, "wait")
      BY <1>10, <2>2 DEF NotifyTimeout, HaltThen, TypeOK, Inside, Looping
    <2> QED
      BY <1>10, <2>1, <2>2 DEF NotifyTimeout
  <1>11. CASE OnBatchStart(r)
    BY <1>11 DEF OnBatchStart, Caught, Exceptions, TypeOK, Inside, Looping
  <1>12. CASE OnEvent(r)
    <2>1. /\ UNCHANGED shared /\ UNCHANGED <<startOfBatch, endOfBatch, resume, hpc>>
          /\ nextSequence[r] \in 0..MaxSequence
      BY <1>12 DEF OnEvent, TypeOK
    <2>2. CASE /\ Settle(nextSequence[r], "handled") /\ UNCHANGED rpc
               /\ nextSequence' = [nextSequence EXCEPT ![r] = @ + 1]
      BY <2>1, <2>2 DEF Settle, TypeOK
    <2>3. ASSUME NEW e \in Exceptions, Throws(r, e) PROVE TypeOK'
      BY <2>1, <2>3 DEF Throws, Caught, Exceptions, TypeOK, Inside, Looping
    <2> QED
      BY <1>12, <2>2, <2>3 DEF OnEvent, Throws
  <1>13. CASE EndBatch(r)
    BY <1>13 DEF EndBatch, Loop, TypeOK, Inside, Looping
  <1>14. CASE AttemptRewind(r)
    <2>1. UNCHANGED <<strategy, anyTime, running, alerted, cursor, sequence, endOfBatch, resume, hpc, outcome>>
      BY <1>14 DEF AttemptRewind
    <2>2. CASE ~GivesUp(retriesAttempted + 1) /\ CountAttempt /\ Loop(r, startOfBatch[r])
      <3>1. /\ retriesAttempted' \in Nat
            /\ strategy = "EventuallyGiveUp" /\ MaxAttempts >= 1 => retriesAttempted' < MaxAttempts
        BY <2>2 DEF CountAttempt, Counts, GivesUp, TypeOK
      <3> QED
        BY <2>1, <2>2, <3>1 DEF Loop, TypeOK, Inside, Looping
    <2>3. CASE /\ retriesAttempted' = 0 \/ UNCHANGED retriesAttempted
               /\ Goto(r, "exception") /\ UNCHANGED <<nextSequence, startOfBatch>>
      BY <2>1, <2>3 DEF TypeOK, Inside, Looping
    <2> QED
      BY <1>14, <2>2, <2>3 DEF AttemptRewind
  <1>15. CASE HandleEventException(r)
    BY <1>15 DEF HandleEventException, HaltThen, Settle, TypeOK, Inside, Looping
  <1>16. CASE Skip(r)
    <2>1. nextSequence[r] <= endOfBatch[r]
      BY <1>16 DEF Skip, Placed, PlacedRunner, AtEvent, InBatch, Looping
    <2> QED
      BY <1>16, <2>1 DEF Skip, Loop, TypeOK, Inside, Looping
  <1>17. CASE HaltSelf(r)
    BY <1>17 DEF HaltSelf, TypeOK, Inside, Looping
  <1>18. CASE AlertSelf(r)
    BY <1>18 DEF AlertSelf, TypeOK, Inside, Looping
  <1>19. CASE NotifyShutdown(r)
    BY <1>19 DEF NotifyShutdown, TypeOK, Inside, Looping
  <1>20. CASE SetIdle(r)
    BY <1>20 DEF SetIdle, TypeOK, Inside, Looping
  <1>21. CASE EarlyRelease(r)
    <2>1. nextSequence[r] \in 0..MaxSequence
      BY <1>21 DEF EarlyRelease, TypeOK
    <2> QED
      BY <1>21, <2>1 DEF EarlyRelease, Settle, TypeOK
  <1> QED
    BY <1>1, <1>2, <1>3, <1>4, <1>5, <1>6, <1>7, <1>8, <1>9, <1>10, <1>11, <1>12, <1>13,
       <1>14, <1>15, <1>16, <1>17, <1>18, <1>19, <1>20, <1>21 DEF Continue

\* Types are inductive.
LEMMA TypesInductive ==
    ASSUME TypeOK, Placed, [Next]_vars PROVE TypeOK'
  <1> USE ConstantTypes DEF locals, shared
  <1>1. ASSUME NEW r \in Runners, Run(r) \/ Continue(r) PROVE TypeOK'
    BY <1>1, RunnerTypeOK
  <1>2. ASSUME NEW h \in Halters, Halt(h) \/ Alert(h) PROVE TypeOK'
    BY <1>2 DEF Halt, Alert, TypeOK
  <1>3. CASE SetExceptionHandler
    BY <1>3 DEF SetExceptionHandler, TypeOK
  <1>4. CASE Publish
    BY <1>4 DEF Publish, TypeOK
  <1>5. CASE UNCHANGED vars
    BY <1>5 DEF vars, TypeOK
  <1> QED
    BY <1>1, <1>2, <1>3, <1>4, <1>5 DEF Next

-----------------------------------------------------------------------------
(* One thread at a time                                                    *)

\* A step inside run(), the last one excepted, changes nobody else's place,
\* does not enter, and does not store IDLE.
LEMMA StaysInside ==
    ASSUME TypeOK, NEW r \in Runners, Continue(r), ~SetIdle(r)
    PROVE  /\ \A q \in Runners \ {r} : rpc'[q] = rpc[q]
           /\ rpc'[r] \in Inside => rpc[r] \in Inside
           /\ running' \in {running, "HALTED"}
  <1> USE DEF Goto, locals, shared
  <1>1. CASE EarlyExit(r)
    BY <1>1 DEF EarlyExit, TypeOK, Inside, Looping
  <1>2. CASE ClearAlert(r) \/ NotifyStart(r) \/ CheckRunning(r) \/ NotifyShutdown(r)
    BY <1>2 DEF ClearAlert, NotifyStart, CheckRunning, NotifyShutdown, TypeOK, Inside, Looping
  <1>3. CASE CheckAlert(r) \/ HandleAlert(r) \/ Available(r) \/ NotAvailable(r)
    BY <1>3 DEF CheckAlert, HandleAlert, Available, NotAvailable, TypeOK, Inside, Looping
  <1>4. CASE NotifyTimeout(r) \/ HandleEventException(r)
    BY <1>4 DEF NotifyTimeout, HandleEventException, HaltThen, TypeOK, Inside, Looping
  <1>5. CASE OnBatchStart(r) \/ OnEvent(r) \/ EarlyRelease(r)
    BY <1>5 DEF OnBatchStart, OnEvent, EarlyRelease, TypeOK, Inside, Looping
  <1>6. CASE EndBatch(r) \/ AttemptRewind(r) \/ Skip(r)
    BY <1>6 DEF EndBatch, AttemptRewind, Skip, Loop, TypeOK, Inside, Looping
  <1>7. CASE HaltSelf(r) \/ AlertSelf(r)
    BY <1>7 DEF HaltSelf, AlertSelf, TypeOK, Inside, Looping
  <1> QED
    BY <1>1, <1>2, <1>3, <1>4, <1>5, <1>6, <1>7 DEF Continue

\* The exchange in run() lets one thread in, and only that thread stores IDLE.
LEMMA ExclusiveInductive ==
    ASSUME TypeOK, Exclusive, [Next]_vars PROVE Exclusive'
  <1>1. ASSUME NEW r \in Runners, Run(r) PROVE Exclusive'
    <2>1. \A q \in Runners \ {r} : rpc'[q] = rpc[q]
      BY <1>1 DEF Run, Goto, TypeOK
    <2>2. CASE running = "IDLE"
      <3>1. \A q \in Runners \ {r} : rpc'[q] \notin Inside
        BY <2>1, <2>2 DEF Exclusive
      <3>2. running' = "RUNNING"
        BY <1>1, <2>2 DEF Run
      <3> QED
        BY <3>1, <3>2 DEF Exclusive, OneRunner
    <2>3. CASE running # "IDLE"
      <3>1. rpc'[r] = "earlyExit" /\ running' = running
        BY <1>1, <2>3 DEF Run, Goto, TypeOK
      <3>2. rpc'[r] \notin Inside
        BY <3>1 DEF Inside, Looping
      <3> QED
        BY <2>1, <3>1, <3>2 DEF Exclusive, OneRunner
    <2> QED
      BY <2>2, <2>3
  <1>2. ASSUME NEW r \in Runners, SetIdle(r) PROVE Exclusive'
    <2>1. rpc[r] \in Inside /\ rpc'[r] = "out" /\ \A q \in Runners \ {r} : rpc'[q] = rpc[q]
      BY <1>2 DEF SetIdle, Goto, TypeOK, Inside
    <2>2. \A q \in Runners : rpc'[q] \notin Inside
      BY <2>1 DEF Exclusive, OneRunner, Inside, Looping
    <2> QED
      BY <2>2 DEF Exclusive, OneRunner
  <1>3. ASSUME NEW r \in Runners, Continue(r), ~SetIdle(r) PROVE Exclusive'
    BY <1>3, StaysInside DEF Exclusive, OneRunner
  <1>4. CASE \E h \in Halters : Halt(h) \/ Alert(h)
    BY <1>4 DEF Halt, Alert, Exclusive, OneRunner
  <1>5. CASE SetExceptionHandler \/ Publish \/ UNCHANGED vars
    BY <1>5 DEF SetExceptionHandler, Publish, vars, shared, Exclusive, OneRunner
  <1> QED
    BY <1>1, <1>2, <1>3, <1>4, <1>5 DEF Next

-----------------------------------------------------------------------------
(* Every event is accounted for                                            *)

\* A step of the loop keeps its own locals in place.
LEMMA PlacedSelf ==
    ASSUME TypeOK, NEW r \in Runners, PlacedRunner(r), Continue(r)
    PROVE  PlacedRunner(r)'
  <1> USE ConstantTypes DEF Goto, locals, shared, TypeOK, PlacedRunner, Released, HaltsForEvent
  <1> USE DEF InBatch, AtEvent, Looping
  <1>1. CASE EarlyExit(r)
    BY <1>1 DEF EarlyExit
  <1>2. CASE ClearAlert(r)
    BY <1>2 DEF ClearAlert
  <1>3. CASE NotifyStart(r)
    BY <1>3 DEF NotifyStart
  <1>4. CASE CheckRunning(r)
    BY <1>4 DEF CheckRunning
  <1>5. CASE CheckAlert(r)
    BY <1>5 DEF CheckAlert
  <1>6. CASE HandleAlert(r)
    BY <1>6 DEF HandleAlert
  <1>7. CASE Available(r)
    BY <1>7 DEF Available
  <1>8. CASE NotAvailable(r)
    BY <1>8 DEF NotAvailable
  <1>9. CASE NotifyTimeout(r)
    BY <1>9 DEF NotifyTimeout, HaltThen
  <1>10. CASE OnBatchStart(r)
    BY <1>10 DEF OnBatchStart, Caught, Exceptions
  <1>11. CASE OnEvent(r)
    <2>1. /\ rpc[r] = "handle" /\ nextSequence[r] <= endOfBatch[r]
          /\ sequence' = sequence /\ UNCHANGED <<strategy, startOfBatch, endOfBatch, resume>>
      BY <1>11 DEF OnEvent
    <2>2. CASE /\ Settle(nextSequence[r], "handled") /\ UNCHANGED rpc
               /\ nextSequence' = [nextSequence EXCEPT ![r] = @ + 1]
      <3>1. nextSequence'[r] = nextSequence[r] + 1
        BY <2>2
      <3>2. \A s \in (sequence + 1)..nextSequence[r] : outcome'[s] # "none"
        BY <2>1, <2>2 DEF Settle
      <3> QED
        BY <2>1, <2>2, <3>1, <3>2
    <2>3. ASSUME NEW e \in Exceptions, Throws(r, e) PROVE PlacedRunner(r)'
      <3>1. /\ nextSequence' = nextSequence
            /\ rpc'[r] \in {"rewind", "exception", "onShutdown"}
            /\ rpc'[r] # "onShutdown" => e # "Foreign"
        BY <2>3 DEF Throws, Caught, Exceptions
      <3>2. CASE rpc'[r] = "onShutdown"
        BY <3>2
      <3>3. CASE rpc'[r] \in {"rewind", "exception"}
        <4>1. outcome' = outcome
          BY <2>3, <3>1, <3>3 DEF Throws
        <4> QED
          BY <2>1, <3>1, <3>3, <4>1
      <3> QED
        BY <3>1, <3>2, <3>3
    <2> QED
      BY <1>11, <2>2, <2>3 DEF OnEvent, Throws
  <1>12. CASE EndBatch(r)
    BY <1>12 DEF EndBatch, Loop
  <1>13. CASE AttemptRewind(r)
    BY <1>13 DEF AttemptRewind, Loop
  <1>14. CASE HandleEventException(r)
    BY <1>14 DEF HandleEventException, HaltThen, Settle
  <1>15. CASE Skip(r)
    BY <1>15 DEF Skip, Loop
  <1>16. CASE HaltSelf(r)
    BY <1>16 DEF HaltSelf
  <1>17. CASE AlertSelf(r)
    BY <1>17 DEF AlertSelf
  <1>18. CASE NotifyShutdown(r)
    BY <1>18 DEF NotifyShutdown
  <1>19. CASE SetIdle(r)
    BY <1>19 DEF SetIdle
  <1>20. CASE EarlyRelease(r)
    <2>1. /\ sequence' = nextSequence[r] /\ UNCHANGED <<strategy, rpc, nextSequence, endOfBatch>>
          /\ rpc[r] = "handle" /\ strategy = "None" /\ nextSequence[r] <= endOfBatch[r]
          /\ outcome'[nextSequence[r]] = "released"
      BY <1>20 DEF EarlyRelease, Settle
    <2> QED
      BY <2>1
  <1> QED
    BY <1>1, <1>2, <1>3, <1>4, <1>5, <1>6, <1>7, <1>8, <1>9, <1>10, <1>11, <1>12, <1>13,
       <1>14, <1>15, <1>16, <1>17, <1>18, <1>19, <1>20 DEF Continue

\* A thread inside run() is alone in processEvents.
LEMMA Alone ==
    ASSUME Exclusive, NEW r \in Runners, rpc[r] \in Inside, NEW q \in Runners \ {r}
    PROVE  rpc[q] \notin Looping
  BY DEF Exclusive, OneRunner, Inside

\* The locals of processEvents stay in place.
LEMMA PlacedInductive ==
    ASSUME TypeOK, Exclusive, Placed, [Next]_vars PROVE Placed'
  <1> USE DEF locals, shared
  <1>1. ASSUME NEW r \in Runners, Continue(r), rpc[r] \in Inside PROVE Placed'
    <2>1. PlacedRunner(r)'
      BY <1>1, PlacedSelf DEF Placed
    <2>2. ASSUME NEW q \in Runners \ {r} PROVE rpc'[q] \notin Looping
      <3>1. rpc'[q] = rpc[q]
        <4>1. CASE SetIdle(r)
          BY <4>1 DEF SetIdle, Goto, TypeOK
        <4>2. CASE ~SetIdle(r)
          BY <4>2, <1>1, StaysInside
        <4> QED
          BY <4>1, <4>2
      <3> QED
        BY <3>1, <1>1, Alone
    <2> QED
      BY <2>1, <2>2 DEF Placed, PlacedRunner
  <1>2. ASSUME NEW r \in Runners, Run(r) \/ EarlyExit(r) PROVE Placed'
    <2>1. /\ rpc'[r] \notin Looping /\ \A q \in Runners \ {r} : rpc'[q] = rpc[q]
          /\ UNCHANGED <<strategy, sequence, nextSequence, startOfBatch, endOfBatch, resume, outcome>>
      BY <1>2 DEF Run, EarlyExit, Goto, TypeOK, Looping
    <2> QED
      BY <2>1 DEF Placed, PlacedRunner, Released, HaltsForEvent
  <1>3. ASSUME NEW r \in Runners, Continue(r) PROVE rpc[r] \in Inside \/ EarlyExit(r)
    BY <1>3 DEF Continue, Inside, Looping, ClearAlert, NotifyStart, CheckRunning, CheckAlert,
       HandleAlert, Available, NotAvailable, NotifyTimeout, OnBatchStart, OnEvent, EarlyRelease,
       EndBatch, AttemptRewind, HandleEventException, Skip, HaltSelf, AlertSelf, NotifyShutdown, SetIdle
  <1>4. CASE UNCHANGED <<strategy, sequence, rpc, locals, outcome>>
    BY <1>4 DEF Placed, PlacedRunner, Released, HaltsForEvent
  <1>5. ASSUME (\E h \in Halters : Halt(h) \/ Alert(h)) \/ SetExceptionHandler \/ Publish
                 \/ UNCHANGED vars
        PROVE  UNCHANGED <<strategy, sequence, rpc, locals, outcome>>
    BY <1>5 DEF Halt, Alert, SetExceptionHandler, Publish, vars
  <1> QED
    BY <1>1, <1>2, <1>3, <1>4, <1>5 DEF Next

\* The event is after the sequence, or its handler has just moved the sequence to it.
Open(s) == s > sequence \/ outcome[s] = "released"

\* What one step may do to the sequence and to the outcomes: a batch ends, a
\* failed event is skipped, an open event is settled, or one is released when
\* none before it is left.
Settles ==
    \/ UNCHANGED <<sequence, outcome>>
    \/ /\ sequence' \in Int /\ sequence' >= sequence /\ UNCHANGED outcome
       /\ \A s \in (sequence + 1)..sequence' : outcome[s] # "none"
    \/ /\ sequence' = sequence
       /\ \E s \in 0..MaxSequence : \E how \in {"handled", "reported", "lost"} :
              Open(s) /\ Settle(s, how)
    \/ /\ sequence' \in 0..MaxSequence /\ sequence' > sequence
       /\ Settle(sequence', "released")
       /\ \A s \in (sequence + 1)..(sequence' - 1) : outcome[s] # "none"

\* Every step of the processor is such a step.
LEMMA StepSettles ==
    ASSUME TypeOK, Placed, [Next]_vars PROVE Settles
  <1> USE ConstantTypes DEF locals, shared
  <1>1. ASSUME NEW r \in Runners, Continue(r) PROVE Settles
    <2>1. CASE OnEvent(r)
      <3>1. nextSequence[r] \in 0..MaxSequence /\ Open(nextSequence[r])
        BY <2>1 DEF OnEvent, TypeOK, Placed, PlacedRunner, Released, Open, Looping
      <3>2. /\ sequence' = sequence
            /\ \/ Settle(nextSequence[r], "handled")
               \/ \E e \in Exceptions : Throws(r, e)
        BY <2>1 DEF OnEvent, Throws
      <3>3. ASSUME NEW e \in Exceptions, Throws(r, e)
            PROVE  UNCHANGED outcome \/ Settle(nextSequence[r], "lost")
        <4>1. CASE e = "Foreign" /\ outcome[nextSequence[r]] = "released"
          BY <3>3, <4>1 DEF Throws, Settle
        <4>2. CASE ~(e = "Foreign" /\ outcome[nextSequence[r]] = "released")
          BY <3>1, <3>3, <4>2 DEF Throws, TypeOK
        <4> QED
          BY <4>1, <4>2
      <3> QED
        BY <3>1, <3>2, <3>3 DEF Settles
    <2>2. CASE HandleEventException(r)
      <3>1. nextSequence[r] \in 0..MaxSequence /\ Open(nextSequence[r])
        BY <2>2 DEF HandleEventException, TypeOK, Placed, PlacedRunner, Released, Open,
                    Looping, AtEvent, InBatch
      <3>2. sequence' = sequence /\ Settle(nextSequence[r], "reported")
        BY <2>2 DEF HandleEventException
      <3> QED
        BY <3>1, <3>2 DEF Settles
    <2>3. CASE EndBatch(r)
      <3>1. /\ sequence' = nextSequence[r] - 1
            /\ sequence + 1 <= nextSequence[r] /\ UNCHANGED outcome
            /\ \A s \in (sequence + 1)..(nextSequence[r] - 1) : outcome[s] # "none"
        BY <2>3 DEF EndBatch, TypeOK, Placed, PlacedRunner, Released, Looping, InBatch
      <3> QED
        BY <3>1 DEF Settles, TypeOK
    <2>4. CASE Skip(r)
      <3>1. /\ sequence' = nextSequence[r]
            /\ sequence <= nextSequence[r] /\ UNCHANGED outcome
            /\ \A s \in (sequence + 1)..(nextSequence[r] - 1) : outcome[s] # "none"
            /\ outcome[nextSequence[r]] # "none"
        BY <2>4 DEF Skip, Placed, PlacedRunner, Looping
      <3> QED
        BY <3>1 DEF Settles, TypeOK
    <2>5. CASE EarlyRelease(r)
      <3>1. /\ nextSequence[r] \in 0..MaxSequence /\ nextSequence[r] > sequence
            /\ \A s \in (sequence + 1)..(nextSequence[r] - 1) : outcome[s] # "none"
        BY <2>5 DEF EarlyRelease, TypeOK, Placed, PlacedRunner, Released, Looping
      <3>2. sequence' = nextSequence[r] /\ Settle(nextSequence[r], "released")
        BY <2>5 DEF EarlyRelease
      <3> QED
        BY <3>1, <3>2 DEF Settles
    <2>6. CASE ~(OnEvent(r) \/ HandleEventException(r) \/ EndBatch(r) \/ Skip(r) \/ EarlyRelease(r))
      BY <1>1, <2>6 DEF Settles, Continue, EarlyExit, ClearAlert, NotifyStart, CheckRunning,
         CheckAlert, HandleAlert, Available, NotAvailable, NotifyTimeout, OnBatchStart,
         AttemptRewind, HaltSelf, AlertSelf, NotifyShutdown, SetIdle
    <2> QED
      BY <2>1, <2>2, <2>3, <2>4, <2>5, <2>6
  <1>2. ASSUME NEW r \in Runners, Run(r) PROVE Settles
    BY <1>2 DEF Run, Settles
  <1>3. CASE \E h \in Halters : Halt(h) \/ Alert(h)
    BY <1>3 DEF Halt, Alert, Settles
  <1>4. CASE SetExceptionHandler \/ Publish \/ UNCHANGED vars
    BY <1>4 DEF SetExceptionHandler, Publish, vars, Settles
  <1> QED
    BY <1>1, <1>2, <1>3, <1>4 DEF Next

-----------------------------------------------------------------------------
(* The theorems                                                            *)

\* The invariant is inductive.
LEMMA SafeInductive == Safe /\ [Next]_vars => Safe'
  <1> SUFFICES ASSUME Safe, [Next]_vars PROVE Safe'
    OBVIOUS
  <1>1. TypeOK' /\ Exclusive' /\ Placed'
    BY TypesInductive, ExclusiveInductive, PlacedInductive DEF Safe
  <1>2. Settles
    BY StepSettles DEF Safe
  <1>3. Accounted'
    <2>1. CASE UNCHANGED <<sequence, outcome>>
      BY <2>1 DEF Safe, Accounted
    <2>2. CASE /\ sequence' \in Int /\ UNCHANGED outcome
               /\ \A s \in (sequence + 1)..sequence' : outcome[s] # "none"
      BY <2>2 DEF Safe, Accounted, TypeOK
    <2>3. ASSUME NEW s \in 0..MaxSequence, NEW how \in {"handled", "reported", "lost"},
                 Settle(s, how), sequence' = sequence
          PROVE  Accounted'
      <3>1. \A x \in 0..sequence : outcome'[x] = outcome[x] \/ outcome'[x] = how
        BY <2>3, ConstantTypes DEF Settle, Safe, TypeOK
      <3> QED
        BY <2>3, <3>1 DEF Safe, Accounted
    <2>4. ASSUME NEW last \in 0..MaxSequence, sequence' = last, last > sequence,
                 Settle(last, "released"),
                 \A s \in (sequence + 1)..(last - 1) : outcome[s] # "none"
          PROVE  Accounted'
      <3>1. sequence \in -1..MaxSequence /\ outcome \in [0..MaxSequence -> Outcomes]
        BY DEF Safe, TypeOK, Outcomes
      <3>2. outcome'[last] = "released" /\ \A x \in 0..(last - 1) : outcome'[x] = outcome[x]
        BY <2>4, <3>1, ConstantTypes DEF Settle
      <3>3. \A x \in 0..(last - 1) : outcome[x] # "none"
        BY <2>4, <3>1, ConstantTypes DEF Safe, Accounted
      <3> QED
        BY <2>4, <3>1, <3>2, <3>3, ConstantTypes DEF Accounted
    <2> QED
      BY <1>2, <2>1, <2>2, <2>3, <2>4 DEF Settles
  <1> QED
    BY <1>1, <1>3 DEF Safe

\* Every variable of the processor and of its threads keeps its type.
THEOREM TypeCorrect == SafeSpec => []TypeOK
  <1>1. Safe => TypeOK
    BY DEF Safe
  <1> QED
    BY <1>1, InitSafe, SafeInductive, PTL DEF SafeSpec

\* However run(), halt() and early exits interleave, one thread at most is
\* between the exchange in run() and the store of IDLE.
THEOREM RunsAlone == SafeSpec => []OneRunner
  <1>1. Safe => OneRunner
    BY DEF Safe, Exclusive
  <1> QED
    BY <1>1, InitSafe, SafeInductive, PTL DEF SafeSpec

\* The sequence passes no event that was neither handled, nor reported, nor
\* released by its own handler, whatever the callbacks throw.
THEOREM SkipsNothing == SafeSpec => []Accounted
  <1>1. Safe => Accounted
    BY DEF Safe
  <1> QED
    BY <1>1, InitSafe, SafeInductive, PTL DEF SafeSpec

\* What becomes of an event that the sequence has passed is final, across
\* rewinds, halts and new runs, once the handler that released it is done.
THEOREM SettlesForGood == SafeSpec => SettledIsFinal
  <1>1. Safe /\ [Next]_vars =>
            [/\ sequence' >= sequence
             /\ \A s \in 0..sequence : outcome[s] # "released" => outcome'[s] = outcome[s]]_vars
    <2> SUFFICES ASSUME Safe, [Next]_vars
                 PROVE  /\ sequence' >= sequence
                        /\ \A s \in 0..sequence : outcome[s] # "released" => outcome'[s] = outcome[s]
      OBVIOUS
    <2>1. Settles
      BY StepSettles DEF Safe
    <2>2. sequence \in Int /\ sequence >= sequence
      BY ConstantTypes DEF Safe, TypeOK
    <2>3. ASSUME NEW s \in 0..MaxSequence, NEW how, Open(s), Settle(s, how)
          PROVE  \A x \in 0..sequence : outcome[x] # "released" => outcome'[x] = outcome[x]
      BY <2>3, ConstantTypes DEF Settle, Open, Safe, TypeOK
    <2>4. ASSUME NEW last \in 0..MaxSequence, last > sequence
          PROVE  Open(last)
      BY <2>4 DEF Open
    <2> QED
      BY <2>1, <2>2, <2>3, <2>4 DEF Settles
  <1> QED
    BY <1>1, InitSafe, SafeInductive, PTL DEF SafeSpec, SettledIsFinal

=============================================================================
