------------------------ MODULE WaitStrategiesProofs ------------------------
(***************************************************************************)
(* Proofs about WaitStrategies, for any number of waiters and sequences:   *)
(* the mutex is held exactly in its scope, and nobody sleeps through a     *)
(* publication or an alert.                                                *)
(***************************************************************************)
EXTENDS WaitStrategies, TLAPS

\* The spinning strategies never come to the mutex, and only the Lite ones to the flag.
PlacesFit ==
    \A w \in Waiters :
        /\ kind = "Spinning" => wpc[w] \in {"call", "phased", "dependent", "spin", "stopped"}
        /\ wpc[w] = "flag" => Lite
        /\ wpc[w] = "retest" => kind = "LiteBlocking"

\* LiteBlocking tests the cursor after its flag is up, and a flag that was
\* taken down again was taken by somebody who will notify.
Flagged ==
    kind = "LiteBlocking" =>
        \A w \in Waiters : wpc[w] \in {"test", "checkAlert", "sleep", "asleep"} =>
            signalNeeded \/ \E s \in Signallers : spc[s] = "notify"

\* NoLostWakeup from the test that came before the sleep on.
Missed(w) ==
    \/ wpc[w] \in {"checkAlert", "sleep", "asleep"} /\ cursor >= want[w]
    \/ wpc[w] \in {"sleep", "asleep"} /\ alerted

Pending ==
    kind # "LiteTimeoutBlocking" =>
        \A w \in Waiters : Missed(w) => \E s \in Signallers : WillNotify(s)

IInv == TypeOK /\ PlacesFit /\ Flagged /\ Pending

ImmediateFlag == "LiteBlocking" \notin DelayedStores

-----------------------------------------------------------------------------

LEMMA InitInv == Init => IInv
  <1> SUFFICES ASSUME Init PROVE IInv
    OBVIOUS
  <1>1. TypeOK
    <2>1. kind \in AllKinds /\ phased \in BOOLEAN
      BY KindsAssumption DEF Init
    <2>2. cursor \in -1..MaxSequence /\ dependent \in -1..cursor /\ want \in [Waiters -> 0..(MaxSequence + 1)]
      BY MaxSequenceAssumption DEF Init
    <2>3. \A w \in Waiters : wpc[w] \in Holding <=> mutex = w
      BY NoneAssumption DEF Init, Holding
    <2> QED
      BY <2>1, <2>2, <2>3 DEF Init, TypeOK
  <1>2. PlacesFit /\ Flagged /\ Pending
    BY DEF Init, PlacesFit, Flagged, Pending, Missed
  <1> QED
    BY <1>1, <1>2 DEF IInv

LEMMA UnlockType ==
  ASSUME TypeOK, NEW w \in Waiters, Unlock(w)
  PROVE  /\ mutex' = None
         /\ signalNeeded' \in BOOLEAN
         /\ buffered' \in [Waiters -> BOOLEAN]
  <1>1. mutex' = None /\ buffered' \in [Waiters -> BOOLEAN]
    BY DEF TypeOK, Unlock
  <1>2. signalNeeded' \in BOOLEAN
    BY Zenon DEF Unlock
  <1> QED
    BY <1>1, <1>2

LEMMA WaiterType ==
  ASSUME TypeOK, NEW w \in Waiters,
         Step(w) \/ Acquire(w) \/ Drain(w) \/ WakeSpuriously(w)
  PROVE  TypeOK'
  <1> USE MaxSequenceAssumption, NoneAssumption
  <1>1. CASE Call(w)
    BY <1>1 DEF TypeOK, Call, Enter, Goto, Holding, waiterVars
  <1>2. CASE FallBack(w)
    BY <1>2 DEF TypeOK, FallBack, Enter, Goto, Holding, waiterVars
  <1>3. CASE Look(w)
    BY <1>3 DEF TypeOK, Look, Goto, Holding
  <1>4. CASE SetFlag(w)
    BY <1>4 DEF TypeOK, SetFlag, Goto, Holding
  <1>5. CASE TestCursor(w)
    <2>1. CASE cursor < want[w]
      BY <1>5, <2>1 DEF TypeOK, TestCursor, TooLow, Goto, Holding
    <2>2. CASE ~(cursor < want[w])
      <3>1. Unlock(w) /\ Goto(w, "dependent")
        BY <1>5, <2>2 DEF TestCursor
      <3>2. mutex' = None /\ signalNeeded' \in BOOLEAN /\ buffered' \in [Waiters -> BOOLEAN]
        BY <3>1, UnlockType
      <3> QED
        BY <1>5, <3>1, <3>2 DEF TypeOK, TestCursor, Goto, Holding
    <2> QED
      BY <2>1, <2>2
  <1>6. CASE CheckAlert(w)
    <2>1. CASE ~alerted
      BY <1>6, <2>1 DEF TypeOK, CheckAlert, Goto, Holding
    <2>2. CASE alerted
      <3>1. Unlock(w) /\ Goto(w, "stopped")
        BY <1>6, <2>2 DEF CheckAlert
      <3>2. mutex' = None /\ signalNeeded' \in BOOLEAN /\ buffered' \in [Waiters -> BOOLEAN]
        BY <3>1, UnlockType
      <3> QED
        BY <1>6, <3>1, <3>2 DEF TypeOK, CheckAlert, Goto, Holding
    <2> QED
      BY <2>1, <2>2
  <1>7. CASE Sleep(w)
    <2>1. mutex' = None /\ signalNeeded' \in BOOLEAN /\ buffered' \in [Waiters -> BOOLEAN]
      BY <1>7, UnlockType DEF Sleep
    <2> QED
      BY <1>7, <2>1 DEF TypeOK, Sleep, Goto, Holding
  <1>8. CASE Expire(w)
    BY <1>8 DEF TypeOK, Expire, Goto, Holding
  <1>9. CASE Return(w)
    BY <1>9 DEF TypeOK, Return, Goto, Holding
  <1>10. CASE SpinOnce(w)
    BY <1>10 DEF TypeOK, SpinOnce, Goto, Holding
  <1>11. CASE SpinCheckAlert(w)
    BY <1>11 DEF TypeOK, SpinCheckAlert, Goto, Holding
  <1>12. CASE Lock(w)
    BY <1>12 DEF TypeOK, Lock, Goto, Holding
  <1>13. CASE Relock(w)
    BY <1>13 DEF TypeOK, Relock, Goto, Holding
  <1>14. CASE TimeOut(w)
    BY <1>14 DEF TypeOK, TimeOut, Goto, Holding
  <1>15. CASE Drain(w)
    BY <1>15 DEF TypeOK, Drain, Holding
  <1>16. CASE WakeSpuriously(w)
    BY <1>16 DEF TypeOK, WakeSpuriously, Goto, Holding
  <1> QED
    BY <1>1, <1>2, <1>3, <1>4, <1>5, <1>6, <1>7, <1>8, <1>9, <1>10, <1>11, <1>12, <1>13,
       <1>14, <1>15, <1>16 DEF Step, Acquire

LEMMA SignallerType ==
  ASSUME TypeOK, NEW s \in Signallers, Exchange(s) \/ NotifyAll(s)
  PROVE  TypeOK'
  <1>1. CASE Exchange(s)
    BY <1>1 DEF TypeOK, Exchange, SignallerGoto, waiterVars
  <1>2. CASE NotifyAll(s)
    BY <1>2, NoneAssumption DEF TypeOK, NotifyAll, SignallerGoto, Holding
  <1> QED
    BY <1>1, <1>2

\* A step that moves no thread but one of the two, and a sequence.
LEMMA MovesType ==
  ASSUME TypeOK, Publish \/ Alert \/ AdvanceDependent
  PROVE  TypeOK'
  <1> USE MaxSequenceAssumption
  <1>1. CASE Publish
    BY <1>1 DEF TypeOK, Publish, SignallerGoto, Signallers, waiterVars
  <1>2. CASE Alert
    BY <1>2 DEF TypeOK, Alert, SignallerGoto, Signallers, waiterVars
  <1>3. CASE AdvanceDependent
    BY <1>3 DEF TypeOK, AdvanceDependent, waiterVars
  <1> QED
    BY <1>1, <1>2, <1>3

LEMMA TypeInductive == TypeOK /\ [Next]_vars => TypeOK'
  <1> SUFFICES ASSUME TypeOK, [Next]_vars PROVE TypeOK'
    OBVIOUS
  <1>1. CASE UNCHANGED vars
    BY <1>1 DEF TypeOK, vars, waiterVars
  <1> QED
    BY <1>1, WaiterType, SignallerType, MovesType DEF Next

\* The types, and the scope of the mutex, for any waiters and sequences.
THEOREM TypeCorrect == Spec => []TypeOK
  <1>1. Init => TypeOK
    BY InitInv DEF IInv
  <1> QED
    BY <1>1, TypeInductive, PTL DEF Spec, SafeSpec

-----------------------------------------------------------------------------
(* Nobody sleeps through what it waits for                                 *)

Frame(w) ==
    /\ UNCHANGED <<kind, cursor, alerted, spc>>
    /\ signalNeeded => signalNeeded'
    /\ \A v \in Waiters \ {w} : wpc'[v] = wpc[v] /\ want'[v] = want[v]

\* A waiter comes to a place only from where the invariant allows it.
Moves(w) ==
    /\ kind = "Spinning" => wpc'[w] \in {"call", "phased", "dependent", "spin", "stopped"}
    /\ wpc'[w] = "flag" => Lite
    /\ wpc'[w] = "retest" => kind = "LiteBlocking"
    /\ kind = "LiteBlocking" /\ wpc'[w] \in {"test", "checkAlert", "sleep", "asleep"} =>
            wpc[w] \in {"test", "checkAlert", "sleep", "asleep"} \/ signalNeeded'
    /\ kind # "LiteTimeoutBlocking" /\ Missed(w)' => Missed(w)

LEMMA WaiterMoves ==
  ASSUME TypeOK, PlacesFit, ImmediateFlag, NEW w \in Waiters,
         Step(w) \/ Acquire(w) \/ Drain(w) \/ WakeSpuriously(w)
  PROVE  Frame(w) /\ Moves(w)
  <1>1. CASE Call(w)
    BY <1>1 DEF TypeOK, PlacesFit, ImmediateFlag, Frame, Moves, Missed, Lite, Call, Enter, Goto
  <1>2. CASE FallBack(w)
    BY <1>2 DEF TypeOK, PlacesFit, ImmediateFlag, Frame, Moves, Missed, Lite, FallBack, Enter, Goto
  <1>3. CASE Look(w)
    BY <1>3 DEF TypeOK, PlacesFit, ImmediateFlag, Frame, Moves, Missed, Lite, Look, Goto
  <1>4. CASE SetFlag(w)
    BY <1>4 DEF TypeOK, PlacesFit, ImmediateFlag, Frame, Moves, Missed, Lite, SetFlag, Goto
  <1>5. CASE TestCursor(w)
    BY <1>5 DEF TypeOK, PlacesFit, ImmediateFlag, Frame, Moves, Missed, Lite, TestCursor, TooLow, Goto, Unlock
  <1>6. CASE CheckAlert(w)
    BY <1>6 DEF TypeOK, PlacesFit, ImmediateFlag, Frame, Moves, Missed, Lite, CheckAlert, Goto, Unlock
  <1>7. CASE Sleep(w)
    BY <1>7 DEF TypeOK, PlacesFit, ImmediateFlag, Frame, Moves, Missed, Lite, Sleep, Goto, Unlock
  <1>8. CASE Expire(w)
    BY <1>8 DEF TypeOK, PlacesFit, ImmediateFlag, Frame, Moves, Missed, Lite, Expire, Goto
  <1>9. CASE Return(w)
    BY <1>9 DEF TypeOK, PlacesFit, ImmediateFlag, Frame, Moves, Missed, Lite, Return, Goto
  <1>10. CASE SpinOnce(w)
    BY <1>10 DEF TypeOK, PlacesFit, ImmediateFlag, Frame, Moves, Missed, Lite, SpinOnce, Goto
  <1>11. CASE SpinCheckAlert(w)
    BY <1>11 DEF TypeOK, PlacesFit, ImmediateFlag, Frame, Moves, Missed, Lite, SpinCheckAlert, Goto
  <1>12. CASE Lock(w)
    BY <1>12 DEF TypeOK, PlacesFit, ImmediateFlag, Frame, Moves, Missed, Lite, Lock, Goto
  <1>13. CASE Relock(w)
    BY <1>13 DEF TypeOK, PlacesFit, ImmediateFlag, Frame, Moves, Missed, Lite, Relock, Goto
  <1>14. CASE TimeOut(w)
    BY <1>14 DEF TypeOK, PlacesFit, ImmediateFlag, Frame, Moves, Missed, Lite, TimeOut, Goto
  <1>15. CASE Drain(w)
    BY <1>15 DEF TypeOK, PlacesFit, ImmediateFlag, Frame, Moves, Missed, Lite, Drain
  <1>16. CASE WakeSpuriously(w)
    BY <1>16 DEF TypeOK, PlacesFit, ImmediateFlag, Frame, Moves, Missed, Lite, WakeSpuriously, Goto
  <1> QED
    BY <1>1, <1>2, <1>3, <1>4, <1>5, <1>6, <1>7, <1>8, <1>9, <1>10, <1>11, <1>12, <1>13, <1>14, <1>15, <1>16 DEF Step, Acquire

LEMMA WaiterKeeps ==
  ASSUME IInv, ImmediateFlag, NEW w \in Waiters,
         Step(w) \/ Acquire(w) \/ Drain(w) \/ WakeSpuriously(w)
  PROVE  PlacesFit' /\ Flagged' /\ Pending'
  <1>1. Frame(w) /\ Moves(w)
    BY WaiterMoves DEF IInv
  <1>2. PlacesFit'
    BY <1>1 DEF IInv, PlacesFit, Frame, Moves, Lite
  <1>3. Flagged'
    BY <1>1 DEF IInv, Flagged, Frame, Moves
  <1>4. \A s \in Signallers : WillNotify(s) => WillNotify(s)'
    BY <1>1 DEF WillNotify, Frame, Lite
  <1>5. \A v \in Waiters : kind # "LiteTimeoutBlocking" /\ Missed(v)' => Missed(v)
    BY <1>1 DEF Missed, Frame, Moves
  <1>6. kind' = kind
    BY <1>1 DEF Frame
  <1>7. Pending'
    BY <1>4, <1>5, <1>6 DEF IInv, Pending
  <1> QED
    BY <1>2, <1>3, <1>7

\* notify_all takes the mutex: nobody is between its test and its sleep.
LEMMA NotifyKeeps ==
  ASSUME IInv, NEW s \in Signallers, NotifyAll(s)
  PROVE  PlacesFit' /\ Flagged' /\ Pending'
  <1>1. \A w \in Waiters : wpc'[w] \notin {"test", "checkAlert", "sleep", "asleep"}
    BY NoneAssumption DEF IInv, TypeOK, NotifyAll, Holding
  <1>2. \A w \in Waiters : wpc'[w] = wpc[w] \/ (wpc[w] = "asleep" /\ wpc'[w] = "woken")
    BY DEF NotifyAll
  <1>3. kind' = kind
    BY DEF NotifyAll
  <1>4. PlacesFit'
    BY <1>2, <1>3 DEF IInv, PlacesFit, Lite
  <1>5. Flagged' /\ Pending'
    BY <1>1 DEF Flagged, Pending, Missed
  <1> QED
    BY <1>4, <1>5

\* Whoever takes the flag down notifies; whoever finds it down leaves the
\* notification to the one who took it.
LEMMA ExchangeKeeps ==
  ASSUME IInv, NEW s \in Signallers, Exchange(s)
  PROVE  PlacesFit' /\ Flagged' /\ Pending'
  <1>1. kind' = kind /\ cursor' = cursor /\ alerted' = alerted /\ wpc' = wpc /\ want' = want
    BY DEF Exchange, waiterVars
  <1>2. PlacesFit'
    BY <1>1 DEF IInv, PlacesFit, Lite
  <1>3. signalNeeded => spc'[s] = "notify"
    BY DEF Exchange, SignallerGoto, IInv, TypeOK
  <1>4. \A t \in Signallers : spc[t] = "notify" => spc'[t] = "notify"
    BY DEF Exchange, SignallerGoto, IInv, TypeOK
  <1>5. Flagged'
    BY <1>1, <1>3, <1>4 DEF IInv, Flagged
  <1>6. \A t \in Signallers : WillNotify(t) => \E u \in Signallers : spc'[u] = "notify"
    BY <1>3, <1>4 DEF WillNotify, Exchange
  <1>7. Pending'
    BY <1>1, <1>6 DEF IInv, Pending, Missed, WillNotify
  <1> QED
    BY <1>2, <1>5, <1>7

\* A publication or an alert that a waiter misses is signalled by its author,
\* unless the flag is down, and then somebody notifies already.
LEMMA MovesKeep ==
  ASSUME IInv, Publish \/ Alert \/ AdvanceDependent
  PROVE  PlacesFit' /\ Flagged' /\ Pending'
  <1>1. kind' = kind /\ wpc' = wpc /\ want' = want /\ signalNeeded' = signalNeeded
    BY DEF Publish, Alert, AdvanceDependent, waiterVars
  <1>2. \A s \in Signallers : spc[s] \in {"signal", "notify"} => spc'[s] = spc[s]
    BY DEF Publish, Alert, AdvanceDependent, SignallerGoto, IInv, TypeOK
  <1>3. PlacesFit'
    BY <1>1 DEF IInv, PlacesFit, Lite
  <1>4. Flagged'
    BY <1>1, <1>2 DEF IInv, Flagged
  <1>5. \A s \in Signallers : WillNotify(s) => WillNotify(s)'
    BY <1>1, <1>2 DEF WillNotify, Lite
  <1>6. CASE AdvanceDependent
    <2>1. \A w \in Waiters : Missed(w)' => Missed(w)
      BY <1>1, <1>6 DEF Missed, AdvanceDependent
    <2> QED
      BY <1>1, <1>3, <1>4, <1>5, <2>1 DEF IInv, Pending
  <1>7. CASE Publish \/ Alert
    <2> SUFFICES ASSUME kind # "LiteTimeoutBlocking", NEW w \in Waiters, Missed(w)'
                 PROVE  \E s \in Signallers : WillNotify(s)'
      BY <1>1, <1>3, <1>4 DEF Pending
    <2>1. wpc[w] \in {"checkAlert", "sleep", "asleep"}
      BY <1>1 DEF Missed
    <2>2. kind # "Spinning"
      BY <2>1 DEF IInv, PlacesFit
    <2>3. PICK s \in Signallers : spc'[s] = "signal"
      BY <1>7, <2>2 DEF Publish, Alert, SignallerGoto, Signallers, IInv, TypeOK
    <2>4. CASE kind # "LiteBlocking"
      BY <1>1, <2>3, <2>4 DEF WillNotify, Lite
    <2>5. CASE kind = "LiteBlocking" /\ signalNeeded
      BY <1>1, <2>3, <2>5 DEF WillNotify
    <2>6. CASE kind = "LiteBlocking" /\ ~signalNeeded
      <3>1. PICK t \in Signallers : spc[t] = "notify"
        BY <2>1, <2>6 DEF IInv, Flagged
      <3> QED
        BY <1>2, <3>1 DEF WillNotify
    <2> QED
      BY <2>4, <2>5, <2>6
  <1> QED
    BY <1>6, <1>7

LEMMA InvInductive == ASSUME ImmediateFlag PROVE IInv /\ [Next]_vars => IInv'
  <1> SUFFICES ASSUME IInv, [Next]_vars PROVE IInv'
    OBVIOUS
  <1>1. TypeOK'
    BY TypeInductive DEF IInv
  <1>2. CASE UNCHANGED vars
    BY <1>1, <1>2 DEF IInv, PlacesFit, Flagged, Pending, Missed, WillNotify, Lite, vars, waiterVars
  <1>3. CASE Next
    <2>1. PlacesFit' /\ Flagged' /\ Pending'
      BY <1>3, WaiterKeeps, NotifyKeeps, ExchangeKeeps, MovesKeep DEF Next
    <2> QED
      BY <1>1, <2>1 DEF IInv
  <1> QED
    BY <1>2, <1>3

\* Whatever the strategy, the number of waiters and the moment of a
\* publication or an alert, a sleeping waiter that it concerns will be
\* notified, provided that LiteBlocking's flag is stored at once.
THEOREM NoWakeupIsLost == ASSUME ImmediateFlag PROVE Spec => []NoLostWakeup
  <1>1. IInv => NoLostWakeup
    BY DEF IInv, Pending, Missed, NoLostWakeup
  <1>2. Init => IInv
    BY InitInv
  <1>3. IInv /\ [Next]_vars => IInv'
    BY InvInductive
  <1> QED
    BY <1>1, <1>2, <1>3, PTL DEF Spec, SafeSpec
=============================================================================
