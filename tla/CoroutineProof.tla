-------------------------- MODULE CoroutineProof --------------------------
(***************************************************************************)
(* The safety of the coroutine's turn handshake, for any number of resumes *)
(* and whatever the workflow function does with an abort: the two sides    *)
(* take turns, the object is not freed under the coroutine's feet, and the *)
(* handshake implements ResumeContract.                                    *)
(***************************************************************************)
EXTENDS Coroutine, TLAPS

\* Why the properties hold: the turn says how many hand-overs are outstanding,
\* a thread that runs holds the turn, and a controller that does not wait (and
\* has not given up) holds it too.
Handshake ==
    /\ turn = "controller" => segments = resumes
    /\ turn = "coroutine" => resumes = segments + 1
    /\ cor \in {"running", "returned"} => turn = "coroutine"
    /\ done <=> cor \in {"unlocking", "exited"}
    /\ done => turn = "controller"
    /\ ctl \in {"idle", "joining"} => turn = "controller"

\* Who keeps the object alive: a handler until it has either dropped a coroutine
\* that gave the turn back or leaked one that did not, the list of leaked runners
\* from then on; the cache cannot lead anyone to a leaked one; and the destructor
\* runs when nobody is left.
Ownership ==
    /\ ctl \in {"resuming", "deadlocked", "abandoned", "erased"} => Handled
    /\ ctl \in {"erased", "leaked"} => "cache" \notin refs
    /\ ctl = "leaked" => ~Handled
    /\ ctl = "leaked" => "leaked" \in refs \/ (exiting /\ refs = {})
    /\ ctl # "leaked" => "leaked" \notin refs
    /\ ctl \in {"unwinding", "joining", "freed"} => refs = {}
    /\ ctl \in {"abandoned", "erased", "leaked"} => abandoned
    /\ abandoned => ctl \in {"abandoned", "erased", "leaked", "freed"}
    /\ exiting => abandoned /\ ctl \in {"leaked", "freed"}
    /\ ctl = "freed" => (cor = "exited" /\ turn = "controller") \/ exiting
    /\ ctl = "freed" /\ ~exiting => ~abandoned

IInv == TypeOK /\ Handshake /\ Ownership

\* The program starts in a state of the inductive invariant.
LEMMA InitIInv == Init => IInv
<1> SUFFICES ASSUME Init PROVE IInv
  OBVIOUS
<1>1. done \in BOOLEAN /\ abort \in BOOLEAN /\ abandoned \in BOOLEAN /\ exiting \in BOOLEAN
  BY Zenon DEF Init
<1> QED
  BY <1>1 DEF Init, IInv, TypeOK, Handshake, Ownership, Threads, Handlers, Handled

\* Who holds the runner changes, the handshake does not.
LEMMA HoldingIInv == IInv /\ Holding => IInv'
<1> SUFFICES ASSUME IInv, Holding PROVE IInv'
  OBVIOUS
<1> USE DEF IInv, TypeOK, Handshake, Ownership, Threads, Handlers, Handled
<1>1. CASE CachePut
  BY <1>1 DEF CachePut, Hold
<1>2. CASE Release
  BY <1>2 DEF Release, Hold
<1>3. CASE QueryEnds
  BY <1>3 DEF QueryEnds, Hold
<1>4. CASE Evict
  BY <1>4 DEF Evict, Hold
<1>5. CASE ProcessExits
  <2>1. exiting' \in BOOLEAN /\ exiting'
    BY <1>5, Zenon DEF ProcessExits
  <2>2. ctl = "leaked"
    BY <1>5 DEF ProcessExits
  <2> QED
    BY <1>5, <2>1, <2>2 DEF ProcessExits
<1>6. CASE Lookup("task")
  BY <1>6 DEF Lookup, Hold
<1>7. CASE Lookup("query")
  BY <1>7 DEF Lookup, Hold
<1> QED
  BY <1>1, <1>2, <1>3, <1>4, <1>5, <1>6, <1>7 DEF Holding

\* Every step keeps the inductive invariant.
LEMMA NextIInv == IInv /\ [Next]_vars => IInv'
<1> SUFFICES ASSUME IInv, [Next]_vars PROVE IInv'
  OBVIOUS
<1> USE DEF IInv, TypeOK, Handshake, Ownership, Threads, Handlers, Handled
<1>1. CASE Resume
  BY <1>1 DEF Resume, HandOver, NotifyAndWait
<1>2. CASE ResumeReturns
  BY <1>2 DEF ResumeReturns, Wakes
<1>3. CASE ResumeTimesOut
  BY <1>3 DEF ResumeTimesOut
<1>4. CASE Abandon
  <2>1. abandoned' \in BOOLEAN /\ abandoned'
    BY <1>4, Zenon DEF Abandon
  <2> QED
    BY <1>4, <2>1 DEF Abandon
<1>5. CASE AbortErases
  BY <1>5 DEF AbortErases
<1>6. CASE LeakRunner
  BY <1>6 DEF LeakRunner
<1>7. CASE Destroy
  <2>1. abort' \in BOOLEAN
    BY <1>7, Zenon DEF Destroy
  <2>2. UNCHANGED <<done, abandoned, refs, exiting, cor, segments>>
    BY <1>7, Zenon DEF Destroy
  <2>3. CASE abandoned /\ ctl' = "freed" /\ UNCHANGED <<turn, asleep, resumes>>
    BY <1>7, <2>1, <2>2, <2>3 DEF Destroy
  <2>4. CASE ~abandoned /\ done /\ ctl' = "joining" /\ UNCHANGED <<turn, asleep, resumes>>
    BY <1>7, <2>1, <2>2, <2>4 DEF Destroy
  <2>5. CASE ~abandoned /\ ~done /\ HandOver /\ ctl' = "unwinding"
    BY <1>7, <2>1, <2>2, <2>5 DEF Destroy, HandOver, NotifyAndWait
  <2> QED
    BY <1>7, <2>3, <2>4, <2>5, Zenon DEF Destroy
<1>8. CASE DestroyWaited
  BY <1>8 DEF DestroyWaited, Wakes
<1>9. CASE Join
  BY <1>9 DEF Join
<1>10. CASE Holding
  BY <1>10, HoldingIInv
<1>11. CASE Yield
  BY <1>11 DEF Yield, NotifyAndWait
<1>12. CASE BodyReturns
  BY <1>12 DEF BodyReturns
<1>13. CASE Start
  BY <1>13 DEF Start, Wakes
<1>14. CASE YieldReturns
  BY <1>14 DEF YieldReturns, Wakes
<1>15. CASE RunBodyEnds
  BY <1>15 DEF RunBodyEnds, NotifyAll
<1>16. CASE ThreadExits
  BY <1>16 DEF ThreadExits
<1>17. CASE Wait
  <2>1. UNCHANGED <<turn, done, abort, abandoned, refs, exiting, ctl, cor, resumes, segments>>
    BY <1>17, Zenon DEF Wait, Sleep, SpuriousWakeup
  <2>2. asleep' \subseteq Threads
    BY <1>17 DEF Wait, Sleep, SpuriousWakeup
  <2> QED
    BY <2>1, <2>2
<1>18. CASE UNCHANGED vars
  BY <1>18 DEF vars
<1> QED
  BY <1>1, <1>2, <1>3, <1>4, <1>5, <1>6, <1>7, <1>8, <1>9, <1>10, <1>11, <1>12, <1>13,
     <1>14, <1>15, <1>16, <1>17, <1>18 DEF Next, Controller, Body, Thread, Finished

\* The inductive invariant holds in every reachable state.
LEMMA Invariance == Spec => []IInv
  BY InitIInv, NextIInv, PTL DEF Spec

\* Every variable of the coroutine always holds a value of its type.
THEOREM TypeCorrect == Spec => []TypeOK
<1>1. IInv => TypeOK
  BY DEF IInv
<1> QED
  BY <1>1, Invariance, PTL

\* The controller and the coroutine never run concurrently (Resume, Yield).
THEOREM TurnsAreTaken == Spec => []TakeTurns
<1>1. IInv => TakeTurns
  BY DEF IInv, TypeOK, Handshake, Ownership, TakeTurns
<1> QED
  BY <1>1, Invariance, PTL

\* Whoever drops the last reference to the runner, the coroutine's thread has
\* exited before the object is freed, up to the end of the process (~Coroutine,
\* abort_deadlock, LeakRunner).
THEOREM FreedAfterExit == Spec => []NoUseAfterFree
<1>1. IInv => NoUseAfterFree
  BY DEF IInv, Ownership, NoUseAfterFree
<1> QED
  BY <1>1, Invariance, PTL

-----------------------------------------------------------------------------
\* Every step of the handshake is a step of the contract, or leaves it unchanged.
LEMMA StepSimulation == IInv /\ [Next]_vars => [Contract!Next]_(Contract!contract)
<1> SUFFICES ASSUME IInv, [Next]_vars PROVE [Contract!Next]_(Contract!contract)
  OBVIOUS
<1> USE DEF IInv, TypeOK, Handshake, Ownership, Threads, Handlers, Handled, control, Contract!contract
<1>1. CASE Resume
  <2>1. Contract!Call
    BY <1>1 DEF Resume, HandOver, Contract!Call
  <2> QED
    BY <2>1 DEF Contract!Next
<1>2. CASE ResumeReturns
  <2>1. Contract!Return
    BY <1>2 DEF ResumeReturns, Wakes, Contract!Return
  <2> QED
    BY <2>1 DEF Contract!Next
<1>3. CASE ResumeTimesOut
  <2>1. Contract!GiveUp
    BY <1>3 DEF ResumeTimesOut, Contract!GiveUp
  <2> QED
    BY <2>1 DEF Contract!Next
<1>4. CASE Destroy
  <2>1. UNCHANGED <<done, abandoned, exiting, segments>>
    BY <1>4, Zenon DEF Destroy
  <2>2. CASE abandoned /\ ctl' = "freed" /\ UNCHANGED <<turn, asleep, resumes>>
    BY <1>4, <2>1, <2>2 DEF Destroy
  <2>3. CASE ~abandoned /\ done /\ ctl' = "joining" /\ UNCHANGED <<turn, asleep, resumes>>
    BY <1>4, <2>1, <2>3 DEF Destroy
  <2>4. CASE ~abandoned /\ ~done /\ HandOver /\ ctl' = "unwinding"
    <3>1. Contract!Call
      BY <1>4, <2>1, <2>4 DEF Destroy, HandOver, Contract!Call
    <3> QED
      BY <3>1 DEF Contract!Next
  <2> QED
    BY <1>4, <2>2, <2>3, <2>4, Zenon DEF Destroy
<1>5. CASE Holding
  <2>1. UNCHANGED <<ctl, resumes, segments, done>>
    BY <1>5, Zenon DEF Holding, CachePut, Release, QueryEnds, Evict, ProcessExits, Lookup, Hold
  <2>2. exiting' = exiting \/ ctl # "freed"
    BY <1>5 DEF Holding, CachePut, Release, QueryEnds, Evict, ProcessExits, Lookup, Hold
  <2> QED
    BY <2>1, <2>2
<1>6. CASE DestroyWaited
  <2>1. Contract!Return
    BY <1>6 DEF DestroyWaited, Wakes, Contract!Return
  <2> QED
    BY <2>1 DEF Contract!Next
<1>7. CASE Join
  <2>1. Contract!Free
    BY <1>7 DEF Join, Contract!Free
  <2> QED
    BY <2>1 DEF Contract!Next
<1>8. CASE Yield
  <2>1. Contract!Segment
    BY <1>8 DEF Yield, Contract!Segment
  <2> QED
    BY <2>1 DEF Contract!Next
<1>9. CASE RunBodyEnds
  <2>1. Contract!Segment
    BY <1>9 DEF RunBodyEnds, Contract!Segment
  <2> QED
    BY <2>1 DEF Contract!Next
<1>10. CASE Abandon \/ AbortErases \/ LeakRunner
  BY <1>10 DEF Abandon, AbortErases, LeakRunner
<1>11. CASE BodyReturns \/ Start \/ YieldReturns \/ ThreadExits
  BY <1>11 DEF BodyReturns, Start, YieldReturns, ThreadExits
<1>12. CASE Wait
  BY <1>12 DEF Wait, Sleep, SpuriousWakeup
<1>13. CASE UNCHANGED vars
  BY <1>13 DEF vars
<1> QED
  BY <1>1, <1>2, <1>3, <1>4, <1>5, <1>6, <1>7, <1>8, <1>9, <1>10, <1>11, <1>12, <1>13
     DEF Next, Controller, Body, Thread, Finished

\* Resume and the destructor are procedure calls that run one segment of the
\* body, and the object goes only once the body has ended, or with the process
\* if the caller gave up on it.
THEOREM CoroutineImplementsContract == Spec => ImplementsContract
<1>1. Init => Contract!Init
  BY DEF Init, Contract!Init, control
<1> QED
  BY <1>1, StepSimulation, Invariance, PTL DEF Spec, ImplementsContract, Contract!Spec
=============================================================================
