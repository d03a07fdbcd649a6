---------------------------- MODULE WaitStrategies ----------------------------
(***************************************************************************)
(* The wait strategies: consumers call waitFor on a barrier while a        *)
(* publisher moves the cursor and signals, and another thread alerts the   *)
(* barrier and signals.  A behaviour has one kind of strategy, bare or     *)
(* behind a PhasedBackoffWaitStrategy:                                     *)
(*                                                                         *)
(*   Spinning             BusySpin, Yielding, Sleeping: never blocks       *)
(*   Blocking             a mutex and a condition variable                 *)
(*   TimeoutBlocking      the same with a timeout                          *)
(*   LiteBlocking         signals only when signalNeeded_ is set           *)
(*   LiteTimeoutBlocking  both                                             *)
(*                                                                         *)
(* wait() gives up the mutex and falls asleep in one step, wakes up for a  *)
(* notification, for its timeout, or for no reason, and takes the mutex    *)
(* again.  Time is a choice: a timeout can expire whenever it is awaited.  *)
(*                                                                         *)
(* signalNeeded_ is set by a release store, which may stay in a store      *)
(* buffer, behind later loads of the same thread, until it is written back *)
(* or the thread gives up the mutex.  DelayedStores names the kinds for    *)
(* which that is looked at; for the others the store takes effect at once. *)
(***************************************************************************)
EXTENDS Integers

CONSTANTS
    Waiters,            \* consumers in waitFor
    MaxSequence,        \* the last sequence published
    Kinds,              \* the kinds of strategy looked at
    DelayedStores,      \* those of them whose stores may be delayed
    None                \* nobody

AllKinds == {"Spinning", "Blocking", "TimeoutBlocking", "LiteBlocking", "LiteTimeoutBlocking"}

ASSUME MaxSequenceAssumption == MaxSequence \in Nat
ASSUME KindsAssumption == Kinds \subseteq AllKinds
ASSUME DelayedStoresAssumption == DelayedStores \subseteq Kinds
ASSUME NoneAssumption == None \notin Waiters

VARIABLES
    kind,               \* the strategy
    phased,             \* it is the fallback of a PhasedBackoffWaitStrategy
    cursor,             \* cursorSequence
    dependent,          \* dependentSequence
    alerted,            \* alerted_ of the barrier
    mutex,              \* the waiter that holds mutex_, or None
    signalNeeded,       \* signalNeeded_
    wpc,                \* where a waiter is
    want,               \* the sequence it waits for
    buffered,           \* its store of signalNeeded_ is still buffered
    spc                 \* where the publisher and the alerting thread are

waiterVars == <<wpc, want, buffered>>
vars == <<kind, phased, cursor, dependent, alerted, mutex, signalNeeded, waiterVars, spc>>

Signallers == {"publisher", "alerter"}

Lite == kind \in {"LiteBlocking", "LiteTimeoutBlocking"}
Timed == kind \in {"TimeoutBlocking", "LiteTimeoutBlocking"}

Goto(w, place) == wpc' = [wpc EXCEPT ![w] = place]

-----------------------------------------------------------------------------
(* waitFor                                                                 *)

\* The fallback's, or the bare strategy's, waitFor.
Enter(w) == Goto(w, IF kind = "Spinning" THEN "dependent" ELSE "first")

\* The barrier's own checkAlert.
Call(w) ==
    /\ wpc[w] = "call"
    /\ \/ alerted /\ Goto(w, "stopped")
       \/ ~alerted /\ phased /\ Goto(w, "phased")
       \/ ~alerted /\ ~phased /\ Enter(w)
    /\ UNCHANGED <<kind, phased, cursor, dependent, alerted, mutex, signalNeeded,
                   want, buffered, spc>>

\* PhasedBackoffWaitStrategy looks at the dependent sequence only, until it is tired of it.
FallBack(w) ==
    /\ wpc[w] = "phased"
    /\ dependent < want[w]
    /\ Enter(w)
    /\ UNCHANGED <<kind, phased, cursor, dependent, alerted, mutex, signalNeeded,
                   want, buffered, spc>>

\* The first look at the cursor, without the mutex.
Look(w) ==
    /\ wpc[w] = "first"
    /\ Goto(w, IF cursor < want[w] THEN "lock" ELSE "dependent")
    /\ UNCHANGED <<kind, phased, cursor, dependent, alerted, mutex, signalNeeded,
                   want, buffered, spc>>

Lock(w) ==
    /\ wpc[w] = "lock"
    /\ mutex = None
    /\ mutex' = w
    /\ Goto(w, IF kind = "LiteBlocking" THEN "flag" ELSE "test")
    /\ UNCHANGED <<kind, phased, cursor, dependent, alerted, signalNeeded, want, buffered, spc>>

\* A slip in SetFlag: nobody learns that a signal is needed.
SetNoFlag(w) ==
    /\ wpc[w] = "flag"
    /\ Goto(w, IF kind = "LiteBlocking" THEN "test" ELSE "checkAlert")
    /\ UNCHANGED <<kind, phased, cursor, dependent, alerted, mutex, signalNeeded,
                   want, buffered, spc>>

SetFlag(w) ==
    /\ wpc[w] = "flag"
    /\ IF kind \in DelayedStores
         THEN buffered' = [buffered EXCEPT ![w] = TRUE] /\ UNCHANGED signalNeeded
         ELSE signalNeeded' = TRUE /\ UNCHANGED buffered
    /\ Goto(w, IF kind = "LiteBlocking" THEN "test" ELSE "checkAlert")
    /\ UNCHANGED <<kind, phased, cursor, dependent, alerted, mutex, want, spc>>

\* The store buffer is written back.
Drain(w) ==
    /\ buffered[w]
    /\ buffered' = [buffered EXCEPT ![w] = FALSE]
    /\ signalNeeded' = TRUE
    /\ UNCHANGED <<kind, phased, cursor, dependent, alerted, mutex, wpc, want, spc>>

\* The mutex is given up.
Unlock(w) ==
    /\ mutex' = None
    /\ signalNeeded' = (signalNeeded \/ buffered[w])
    /\ buffered' = [buffered EXCEPT ![w] = FALSE]

\* Where a strategy goes that finds the cursor too low, under the mutex: the
\* flag comes after the test in one Lite strategy, before it in the other.
TooLow(w) == IF wpc[w] = "test" /\ kind # "LiteTimeoutBlocking" THEN "checkAlert" ELSE "flag"

\* The cursor is tested under the mutex: in the loop, and after LiteBlocking's wait.
TestCursor(w) ==
    /\ wpc[w] \in {"test", "retest"}
    /\ IF cursor < want[w]
         THEN Goto(w, TooLow(w)) /\ UNCHANGED <<mutex, signalNeeded, buffered>>
         ELSE Goto(w, "dependent") /\ Unlock(w)
    /\ UNCHANGED <<kind, phased, cursor, dependent, alerted, want, spc>>

\* A slip in CheckAlert: the loop waits without a look at the alert.
IgnoreAlert(w) ==
    /\ wpc[w] = "checkAlert"
    /\ Goto(w, "sleep")
    /\ UNCHANGED <<kind, phased, cursor, dependent, alerted, mutex, signalNeeded,
                   want, buffered, spc>>

\* Another: the exception leaves the mutex locked.
StopWithMutex(w) ==
    /\ wpc[w] = "checkAlert"
    /\ Goto(w, IF alerted THEN "stopped" ELSE "sleep")
    /\ UNCHANGED <<kind, phased, cursor, dependent, alerted, mutex, signalNeeded,
                   want, buffered, spc>>

\* checkAlert in the loop; an AlertException gives up the mutex.
CheckAlert(w) ==
    /\ wpc[w] = "checkAlert"
    /\ IF alerted
         THEN Goto(w, "stopped") /\ Unlock(w)
         ELSE Goto(w, "sleep") /\ UNCHANGED <<mutex, signalNeeded, buffered>>
    /\ UNCHANGED <<kind, phased, cursor, dependent, alerted, want, spc>>

Sleep(w) ==
    /\ wpc[w] = "sleep"
    /\ Goto(w, "asleep")
    /\ Unlock(w)
    /\ UNCHANGED <<kind, phased, cursor, dependent, alerted, want, spc>>

\* A spurious wake-up.
WakeSpuriously(w) ==
    /\ wpc[w] = "asleep"
    /\ Goto(w, "woken")
    /\ UNCHANGED <<kind, phased, cursor, dependent, alerted, mutex, signalNeeded,
                   want, buffered, spc>>

\* The timeout expires.
Expire(w) ==
    /\ wpc[w] = "asleep"
    /\ Timed
    /\ Goto(w, "expired")
    /\ UNCHANGED <<kind, phased, cursor, dependent, alerted, mutex, signalNeeded,
                   want, buffered, spc>>

\* wait() returns with the mutex.
Relock(w) ==
    /\ wpc[w] = "woken"
    /\ mutex = None
    /\ mutex' = w
    /\ Goto(w, IF kind = "LiteBlocking" THEN "retest" ELSE "test")
    /\ UNCHANGED <<kind, phased, cursor, dependent, alerted, signalNeeded, want, buffered, spc>>

\* wait() returns and no time is left, woken or not: a TimeoutException, without
\* another look at the cursor, gives up the mutex; the consumer calls again.
TimeOut(w) ==
    /\ wpc[w] = "expired" \/ (Timed /\ wpc[w] = "woken")
    /\ mutex = None
    /\ Goto(w, "call")
    /\ UNCHANGED <<kind, phased, cursor, dependent, alerted, mutex, signalNeeded,
                   want, buffered, spc>>

\* The loop over the dependent sequence, which every strategy ends with.
Return(w) ==
    /\ wpc[w] \in {"dependent", "phased"}
    /\ dependent >= want[w]
    /\ want' = [want EXCEPT ![w] = dependent + 1]
    /\ Goto(w, "call")
    /\ UNCHANGED <<kind, phased, cursor, dependent, alerted, mutex, signalNeeded, buffered, spc>>

SpinOnce(w) ==
    /\ wpc[w] = "dependent"
    /\ dependent < want[w]
    /\ Goto(w, "spin")
    /\ UNCHANGED <<kind, phased, cursor, dependent, alerted, mutex, signalNeeded,
                   want, buffered, spc>>

SpinCheckAlert(w) ==
    /\ wpc[w] = "spin"
    /\ Goto(w, IF alerted THEN "stopped" ELSE "dependent")
    /\ UNCHANGED <<kind, phased, cursor, dependent, alerted, mutex, signalNeeded,
                   want, buffered, spc>>

-----------------------------------------------------------------------------
(* signalAllWhenBlocking and its callers                                   *)

SignallerGoto(s, place) == spc' = [spc EXCEPT ![s] = place]

\* publish(): a strategy that does not block is not signalled.
Publish ==
    /\ spc["publisher"] = "out"
    /\ cursor < MaxSequence
    /\ cursor' = cursor + 1
    /\ SignallerGoto("publisher", IF kind = "Spinning" THEN "out" ELSE "signal")
    /\ UNCHANGED <<kind, phased, dependent, alerted, mutex, signalNeeded, waiterVars>>

\* The barrier's alert().
Alert ==
    /\ spc["alerter"] = "out"
    /\ ~alerted
    /\ alerted' = TRUE
    /\ SignallerGoto("alerter", IF kind = "Spinning" THEN "out" ELSE "signal")
    /\ UNCHANGED <<kind, phased, cursor, dependent, mutex, signalNeeded, waiterVars>>

\* The Lite strategies exchange signalNeeded_ first.
Exchange(s) ==
    /\ spc[s] = "signal"
    /\ Lite
    /\ signalNeeded' = FALSE
    /\ SignallerGoto(s, IF signalNeeded THEN "notify" ELSE "out")
    /\ UNCHANGED <<kind, phased, cursor, dependent, alerted, mutex, waiterVars>>

\* A slip in NotifyAll: the mutex is not taken.
NotifyWithoutMutex(s) ==
    /\ spc[s] = "notify" \/ (~Lite /\ spc[s] = "signal")
    /\ wpc' = [w \in Waiters |-> IF wpc[w] = "asleep" THEN "woken" ELSE wpc[w]]
    /\ SignallerGoto(s, "out")
    /\ UNCHANGED <<kind, phased, cursor, dependent, alerted, mutex, signalNeeded, want, buffered>>

\* lock, notify_all, unlock.
NotifyAll(s) ==
    /\ spc[s] = "notify" \/ (~Lite /\ spc[s] = "signal")
    /\ mutex = None
    /\ wpc' = [w \in Waiters |-> IF wpc[w] = "asleep" THEN "woken" ELSE wpc[w]]
    /\ SignallerGoto(s, "out")
    /\ UNCHANGED <<kind, phased, cursor, dependent, alerted, mutex, signalNeeded, want, buffered>>

\* The consumers before this one move on.
AdvanceDependent ==
    /\ dependent < cursor
    /\ dependent' = dependent + 1
    /\ UNCHANGED <<kind, phased, cursor, alerted, mutex, signalNeeded, waiterVars, spc>>

-----------------------------------------------------------------------------

Init ==
    /\ kind \in Kinds
    /\ phased \in BOOLEAN
    /\ cursor = -1
    /\ dependent = -1
    /\ alerted = FALSE
    /\ mutex = None
    /\ signalNeeded = FALSE
    /\ wpc = [w \in Waiters |-> "call"]
    /\ want = [w \in Waiters |-> 0]
    /\ buffered = [w \in Waiters |-> FALSE]
    /\ spc = [s \in Signallers |-> "out"]

\* A waiter that waits for nobody.
Step(w) ==
    \/ Call(w)
    \/ FallBack(w)
    \/ Look(w)
    \/ SetFlag(w)
    \/ TestCursor(w)
    \/ CheckAlert(w)
    \/ Sleep(w)
    \/ Expire(w)
    \/ Return(w)
    \/ SpinOnce(w)
    \/ SpinCheckAlert(w)

\* A waiter that takes the mutex.
Acquire(w) == Lock(w) \/ Relock(w) \/ TimeOut(w)

Next ==
    \/ \E w \in Waiters : Step(w) \/ Acquire(w) \/ Drain(w) \/ WakeSpuriously(w)
    \/ \E s \in Signallers : Exchange(s) \/ NotifyAll(s)
    \/ Publish
    \/ Alert
    \/ AdvanceDependent

SafeSpec == Init /\ [][Next]_vars

\* Threads run and timeouts expire; a mutex that is free again and again is
\* acquired; the consumers before these make progress.
Fairness ==
    /\ \A w \in Waiters : WF_vars(Step(w)) /\ SF_vars(Acquire(w))
    /\ \A s \in Signallers : WF_vars(Exchange(s)) /\ SF_vars(NotifyAll(s))
    /\ WF_vars(AdvanceDependent)

Spec == SafeSpec /\ Fairness

-----------------------------------------------------------------------------
(* Properties                                                              *)

\* The places of a waiter that holds the mutex.
Holding == {"flag", "test", "retest", "checkAlert", "sleep"}

\* Every variable keeps its type, and the mutex is held exactly by the waiter
\* in its scope, however the scope is left.
TypeOK ==
    /\ kind \in AllKinds
    /\ phased \in BOOLEAN
    /\ cursor \in -1..MaxSequence
    /\ dependent \in -1..cursor
    /\ alerted \in BOOLEAN
    /\ mutex \in Waiters \cup {None}
    /\ signalNeeded \in BOOLEAN
    /\ wpc \in [Waiters -> Holding \cup {"call", "phased", "first", "lock", "asleep", "woken",
                                         "expired", "dependent", "spin", "stopped"}]
    /\ want \in [Waiters -> 0..(MaxSequence + 1)]
    /\ buffered \in [Waiters -> BOOLEAN]
    /\ spc \in [Signallers -> {"out", "signal", "notify"}]
    /\ \A w \in Waiters : wpc[w] \in Holding <=> mutex = w

\* The signaller is on its way to wake everybody who sleeps.
WillNotify(s) == spc[s] = "notify" \/ (spc[s] = "signal" /\ (Lite => signalNeeded))

\* Nobody sleeps through what it waits for: when a waiter is asleep although
\* the cursor has reached its sequence or the barrier is alerted, a thread is
\* on its way to wake it.  LiteTimeoutBlocking is left out: it sets the flag
\* after the test and relies on the timeout.
NoLostWakeup ==
    kind # "LiteTimeoutBlocking" =>
        \A w \in Waiters : wpc[w] = "asleep" /\ (cursor >= want[w] \/ alerted) =>
            \E s \in Signallers : WillNotify(s)

\* Every published sequence is delivered to every waiter that is not alerted,
\* by each strategy, the ones that rely on their timeout included.
Delivered ==
    \A w \in Waiters : \A s \in 0..MaxSequence :
        (cursor >= s) ~> (want[w] > s \/ wpc[w] = "stopped")

\* An alert ends every wait, also one that begins later or is in its phase of
\* spinning without a look at the alert.
AlertEndsWait == \A w \in Waiters : alerted ~> (wpc[w] = "stopped")
=============================================================================
