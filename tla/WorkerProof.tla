---------------------------- MODULE WorkerProof ----------------------------
(***************************************************************************)
(* The safety of the poller pool for any number of pollers and of threads  *)
(* in Stop(), whatever the limit of the gate and the threshold of the      *)
(* scaler: the two counters count the threads they stand for, and a drain  *)
(* that found the gate empty stays true.                                   *)
(***************************************************************************)
EXTENDS Worker, FiniteSetTheorems, TLAPS

\* Only a surplus poller is at a label of the scaler.
ScalerUsers ==
    \A p \in Pollers :
        pc[p] \in {"acquire", "deciding", "parked", "release", "failed"} => p \in Scalable

\* Where a drain gets its truth from: a stopper closes the gate before it drains,
\* a gate once closed stays so, and a gate with a limit that is closed lets nobody in.
ClosedBeforeDrain ==
    /\ \A s \in Stoppers : stopper[s] \in {"waking", "drain", "join", "returned"} => released
    /\ Limit # 0 => \A s \in Stoppers : drained[s] => released /\ Handling = {}

IInv == TypeOK /\ ScalerUsers /\ GateExact /\ ScalerExact /\ ClosedBeforeDrain

-----------------------------------------------------------------------------
(***************************************************************************)
(* The sets of threads that the counters stand for.                        *)
(***************************************************************************)
\* The threads in Handle() and those with a poll slot are finitely many.
LEMMA FiniteThreads ==
    /\ IsFiniteSet(Handling) /\ Cardinality(Handling) \in Nat
    /\ IsFiniteSet(Polling) /\ Cardinality(Polling) \in Nat
    /\ Cardinality(Scalable) \in Nat
<1>1. Handling \in SUBSET Pollers /\ Polling \in SUBSET Pollers /\ Scalable \in SUBSET Pollers
  BY WorkerAssumption DEF Handling, Polling
<1>2. IsFiniteSet(Handling) /\ IsFiniteSet(Polling) /\ IsFiniteSet(Scalable)
  BY <1>1, FS_Subset, WorkerAssumption
<1> QED
  BY <1>2, FS_CardinalityType

\* What a step of one poller p does to the others: they stay, or are woken.
OthersStay(p) ==
    \A q \in Pollers \ {p} : pc'[q] = pc[q] \/ (pc[q] = "parked" /\ pc'[q] = "acquire")

\* A poller that goes somewhere leaves the others where they are.
LEMMA GotoMoves ==
    ASSUME TypeOK, NEW p \in Pollers, NEW l, Goto(p, l)
    PROVE  pc'[p] = l /\ OthersStay(p)
BY DEF Goto, TypeOK, OthersStay

\* Notified wakes sleepers only, and moves p.
LEMMA NotifiedMoves ==
    ASSUME TypeOK, NEW S, NEW p \in Pollers, NEW l, pc' = Notified(S, p, l)
    PROVE  pc'[p] = l /\ OthersStay(p)
BY DEF Notified, TypeOK, OthersStay

\* The labels of the pollers, of those that use the scaler, and of those with a slot.
Labels       == {"top", "acquire", "deciding", "parked", "poll", "release", "failed",
                 "check", "paced", "gate", "handle", "exited"}
ScalerLabels == {"acquire", "deciding", "parked", "release", "failed"}
Slot         == {"poll", "release", "failed"}

\* A move keeps the pollers at labels, and only surplus pollers at the scaler's.
LEMMA GotoTyped ==
    ASSUME TypeOK, ScalerUsers, NEW p \in Pollers, NEW l \in Labels,
           l \in ScalerLabels => p \in Scalable, Goto(p, l)
    PROVE  pc' \in [Pollers -> Labels] /\ ScalerUsers'
BY DEF Goto, TypeOK, ScalerUsers, Labels, ScalerLabels

\* The same for a move that wakes sleepers.
LEMMA NotifiedTyped ==
    ASSUME TypeOK, ScalerUsers, NEW S, NEW p \in Pollers, NEW l \in Labels,
           l \in ScalerLabels => p \in Scalable, pc' = Notified(S, p, l)
    PROVE  pc' \in [Pollers -> Labels] /\ ScalerUsers'
BY DEF Notified, TypeOK, ScalerUsers, Labels, ScalerLabels

\* A step of p changes the threads in Handle() by p at most.
LEMMA HandlingMoved ==
    ASSUME NEW p \in Pollers, OthersStay(p)
    PROVE  Handling' = IF pc'[p] = "handle" THEN Handling \cup {p} ELSE Handling \ {p}
BY DEF Handling, OthersStay

\* A step of p changes the poll slots held by p's at most.
LEMMA PollingMoved ==
    ASSUME NEW p \in Pollers, OthersStay(p)
    PROVE  Polling' = IF p \in Scalable /\ pc'[p] \in {"poll", "release", "failed"}
                      THEN Polling \cup {p} ELSE Polling \ {p}
<1> Scalable \subseteq Pollers
  BY WorkerAssumption
<1> QED
  BY DEF Polling, OthersStay

\* The gate's counter over a step of p: one more when p goes into Handle(), one
\* less when it comes out.
LEMMA HandlingCount ==
    ASSUME TypeOK, GateExact, NEW p \in Pollers, OthersStay(p)
    PROVE  Cardinality(Handling') =
             CASE pc[p] # "handle" /\ pc'[p] = "handle" -> inFlight + 1
               [] pc[p] = "handle" /\ pc'[p] # "handle" -> inFlight - 1
               [] OTHER -> inFlight
<1>1. p \in Handling <=> pc[p] = "handle"
  BY DEF Handling
<1>2. CASE pc'[p] = "handle"
  <2>1. Handling' = Handling \cup {p}
    BY <1>2, HandlingMoved
  <2>2. Cardinality(Handling \cup {p})
            = IF p \in Handling THEN Cardinality(Handling) ELSE Cardinality(Handling) + 1
    BY FS_AddElement, FiniteThreads
  <2> QED
    BY <1>1, <1>2, <2>1, <2>2 DEF GateExact
<1>3. CASE pc'[p] # "handle"
  <2>1. Handling' = Handling \ {p}
    BY <1>3, HandlingMoved
  <2>2. Cardinality(Handling \ {p})
            = IF p \in Handling THEN Cardinality(Handling) - 1 ELSE Cardinality(Handling)
    BY FS_RemoveElement, FiniteThreads
  <2> QED
    BY <1>1, <1>3, <2>1, <2>2 DEF GateExact
<1> QED
  BY <1>2, <1>3

\* The scaler's counter over a step of a surplus poller p: one more when p takes a
\* poll slot, one less when it gives it back.
LEMMA PollingCount ==
    ASSUME TypeOK, ScalerExact, NEW p \in Scalable, OthersStay(p)
    PROVE  Cardinality(Polling') =
             CASE pc[p] \notin Slot /\ pc'[p] \in Slot -> active + 1
               [] pc[p] \in Slot /\ pc'[p] \notin Slot -> active - 1
               [] OTHER -> active
<1> USE DEF Slot
<1>0. p \in Pollers
  BY WorkerAssumption
<1>1. p \in Polling <=> pc[p] \in Slot
  BY DEF Polling
<1>2. CASE pc'[p] \in Slot
  <2>1. Polling' = Polling \cup {p}
    BY <1>0, <1>2, PollingMoved
  <2>2. Cardinality(Polling \cup {p})
            = IF p \in Polling THEN Cardinality(Polling) ELSE Cardinality(Polling) + 1
    BY FS_AddElement, FiniteThreads
  <2> QED
    BY <1>1, <1>2, <2>1, <2>2 DEF ScalerExact
<1>3. CASE pc'[p] \notin Slot
  <2>1. Polling' = Polling \ {p}
    BY <1>0, <1>3, PollingMoved
  <2>2. Cardinality(Polling \ {p})
            = IF p \in Polling THEN Cardinality(Polling) - 1 ELSE Cardinality(Polling)
    BY FS_RemoveElement, FiniteThreads
  <2> QED
    BY <1>1, <1>3, <2>1, <2>2 DEF ScalerExact
<1> QED
  BY <1>2, <1>3

\* A poller that is not surplus holds no poll slot of the scaler.
LEMMA PollingUntouched ==
    ASSUME NEW p \in Pollers \ Scalable, OthersStay(p)
    PROVE  Polling' = Polling
BY PollingMoved DEF Polling

-----------------------------------------------------------------------------
(***************************************************************************)
(* The steps.                                                              *)
(***************************************************************************)
\* A step of a poller that neither starts nor ends a Handle() call or a poll slot.
LEMMA QuietStep ==
    ASSUME IInv, NEW p \in Pollers, OthersStay(p),
           pc' \in [Pollers -> Labels], ScalerUsers',
           pc[p] # "handle", pc'[p] # "handle",
           p \in Scalable => (pc[p] \in Slot <=> pc'[p] \in Slot),
           got' \in [Pollers -> BOOLEAN], emptyStreak' \in Nat,
           target' \in Nat, target' <= Cardinality(Scalable),
           UNCHANGED <<gate, active, flags, stops>>
    PROVE  IInv'
<1>1. UNCHANGED <<inFlight, released, active, draining, stop, stopper, drained, joining, joinable>>
  BY Zenon DEF gate, flags, stops
<1>2. TypeOK'
  BY <1>1 DEF IInv, TypeOK, Labels
<1>3. GateExact'
  <2>1. Cardinality(Handling') = inFlight
    BY HandlingCount DEF IInv
  <2> QED
    BY <1>1, <2>1 DEF IInv, GateExact
<1>4. Cardinality(Polling') = active
  <2>1. CASE p \in Scalable
    BY <2>1, PollingCount DEF IInv
  <2>2. CASE p \notin Scalable
    BY <2>2, PollingUntouched DEF IInv, ScalerExact
  <2> QED
    BY <2>1, <2>2
<1>5. ScalerExact'
  BY <1>1, <1>4 DEF ScalerExact
<1>6. Handling = {} => Handling' = {}
  BY HandlingMoved
<1>7. ClosedBeforeDrain'
  BY <1>1, <1>6 DEF IInv, ClosedBeforeDrain
<1> QED
  BY <1>2, <1>3, <1>5, <1>7 DEF IInv

\* A quiet step that is a plain move.
LEMMA QuietGoto ==
    ASSUME IInv, NEW p \in Pollers, NEW l \in Labels, Goto(p, l),
           l \in ScalerLabels => p \in Scalable,
           pc[p] # "handle", l # "handle",
           p \in Scalable => (pc[p] \in Slot <=> l \in Slot),
           UNCHANGED <<got, gate, scaler, flags, stops>>
    PROVE  IInv'
<1>1. pc'[p] = l /\ OthersStay(p)
  BY GotoMoves DEF IInv
<1>2. pc' \in [Pollers -> Labels] /\ ScalerUsers'
  BY GotoTyped DEF IInv
<1>3. UNCHANGED <<got, gate, target, active, emptyStreak, flags, stops>>
  BY Zenon DEF scaler
<1>4. /\ got' \in [Pollers -> BOOLEAN] /\ emptyStreak' \in Nat
      /\ target' \in Nat /\ target' <= Cardinality(Scalable)
  BY <1>3 DEF IInv, TypeOK, ScalerExact
<1> QED
  BY <1>1, <1>2, <1>3, <1>4, QuietStep

\* Acquire of the scaler: a poller leaves, takes a slot, or is about to sleep.
LEMMA ScalerAcquireKeeps ==
    ASSUME IInv, NEW p \in Pollers, ScalerAcquire(p)
    PROVE  IInv'
<1>0. pc[p] = "acquire" /\ p \in Scalable
  BY DEF ScalerAcquire, IInv, ScalerUsers
<1>1. CASE stop /\ Goto(p, "exited") /\ UNCHANGED active
  BY <1>0, <1>1, QuietGoto DEF ScalerAcquire, Labels, ScalerLabels, Slot, scaler
<1>2. CASE active >= target /\ Goto(p, "deciding") /\ UNCHANGED active
  BY <1>0, <1>2, QuietGoto DEF ScalerAcquire, Labels, ScalerLabels, Slot, scaler
<1>3. CASE active < target /\ active' = active + 1 /\ Goto(p, "poll")
  <2>1. pc'[p] = "poll" /\ OthersStay(p)
    BY <1>3, GotoMoves DEF IInv
  <2>2. pc' \in [Pollers -> Labels] /\ ScalerUsers'
    BY <1>3, GotoTyped DEF IInv, Labels, ScalerLabels
  <2>3. UNCHANGED <<got, inFlight, released, target, emptyStreak, draining, stop,
                    stopper, drained, joining, joinable>>
    BY Zenon DEF ScalerAcquire, gate, flags, stops
  <2>4. TypeOK'
    BY <1>3, <2>2, <2>3 DEF IInv, TypeOK, Labels
  <2>5. Cardinality(Handling') = inFlight
    BY <1>0, <2>1, HandlingCount DEF IInv
  <2>6. GateExact'
    BY <2>3, <2>5 DEF IInv, GateExact
  <2>7. Cardinality(Polling') = active + 1
    BY <1>0, <2>1, PollingCount DEF IInv, Slot
  <2>8. ScalerExact'
    BY <1>3, <2>3, <2>7 DEF IInv, ScalerExact
  <2>9. Handling = {} => Handling' = {}
    BY <2>1, HandlingMoved
  <2>10. ClosedBeforeDrain'
    BY <2>3, <2>9 DEF IInv, ClosedBeforeDrain
  <2> QED
    BY <2>2, <2>4, <2>6, <2>8, <2>10 DEF IInv
<1> QED
  BY <1>1, <1>2, <1>3 DEF ScalerAcquire

\* Release of the scaler, after the poll or after its exception.
LEMMA ReleaseSlotKeeps ==
    ASSUME IInv, NEW p \in Pollers, ReleaseSlot(p)
    PROVE  IInv'
<1>0. pc[p] \in {"release", "failed"} /\ p \in Scalable
  BY DEF ReleaseSlot, IInv, ScalerUsers
<1> DEFINE l == IF pc[p] = "release" THEN "check" ELSE "top"
<1>1. PICK S : pc' = Notified(S, p, l)
  BY Zenon DEF ReleaseSlot, ScalerRelease
<1>2. pc'[p] = l /\ OthersStay(p)
  BY <1>1, NotifiedMoves DEF IInv
<1>3. pc' \in [Pollers -> Labels] /\ ScalerUsers'
  BY <1>0, <1>1, NotifiedTyped DEF IInv, Labels, ScalerLabels
<1>4. UNCHANGED <<got, inFlight, released, target, emptyStreak, draining, stop,
                  stopper, drained, joining, joinable>>
  BY Zenon DEF ReleaseSlot, ScalerRelease, gate, flags, stops
<1>5. p \in Polling
  BY <1>0 DEF Polling
<1>6. active > 0
  BY <1>5, FiniteThreads, FS_EmptySet DEF IInv, ScalerExact
<1>7. active' = active - 1
  BY <1>6 DEF ReleaseSlot, ScalerRelease
<1>8. TypeOK'
  BY <1>3, <1>4, <1>6, <1>7 DEF IInv, TypeOK, Labels
<1>9. Cardinality(Handling') = inFlight
  BY <1>0, <1>2, HandlingCount DEF IInv
<1>10. GateExact'
  BY <1>4, <1>9 DEF IInv, GateExact
<1>11. Cardinality(Polling') = active - 1
  BY <1>0, <1>2, PollingCount DEF IInv, Slot
<1>12. ScalerExact'
  BY <1>4, <1>7, <1>11 DEF IInv, ScalerExact
<1>13. Handling = {} => Handling' = {}
  BY <1>2, HandlingMoved
<1>14. ClosedBeforeDrain'
  BY <1>4, <1>13 DEF IInv, ClosedBeforeDrain
<1> QED
  BY <1>3, <1>8, <1>10, <1>12, <1>14 DEF IInv

\* The long poll returns and its result is reported.
LEMMA PollReturnsKeeps ==
    ASSUME IInv, NEW p \in Pollers, PollReturns(p)
    PROVE  IInv'
<1> DEFINE next == IF p \in Scalable THEN "release" ELSE "check"
<1>1. PICK task \in BOOLEAN :
          /\ got' = [got EXCEPT ![p] = task]
          /\ IF Scalable # {} THEN Report(p, task, next)
             ELSE Goto(p, next) /\ UNCHANGED scaler
  BY DEF PollReturns
<1>2. got' \in [Pollers -> BOOLEAN]
  BY <1>1 DEF IInv, TypeOK
<1>3. pc[p] = "poll" /\ UNCHANGED <<gate, flags, stops>>
  BY Zenon DEF PollReturns
<1>4. next \in Labels /\ next # "handle" /\ (next \in ScalerLabels => p \in Scalable)
      /\ (p \in Scalable => next \in Slot)
  BY DEF Labels, ScalerLabels, Slot
<1>5. CASE Scalable = {}
  <2>1. Goto(p, next) /\ UNCHANGED <<target, active, emptyStreak>>
    BY <1>1, <1>5, Zenon DEF scaler
  <2>2. pc'[p] = next /\ OthersStay(p) /\ pc' \in [Pollers -> Labels] /\ ScalerUsers'
    BY <1>4, <2>1, GotoMoves, GotoTyped DEF IInv
  <2>3. target' \in Nat /\ target' <= Cardinality(Scalable) /\ emptyStreak' \in Nat
    BY <2>1 DEF IInv, TypeOK, ScalerExact
  <2> QED
    BY <1>2, <1>3, <1>4, <2>1, <2>2, <2>3, QuietStep DEF Slot
<1>6. CASE Scalable # {}
  <2>0. Report(p, task, next)
    BY <1>1, <1>6
  <2>1. Goto(p, next) \/ pc' = Notified(Pollers, p, next)
    BY <2>0, Zenon DEF Report
  <2>2. pc'[p] = next /\ OthersStay(p)
    BY <2>1, GotoMoves, NotifiedMoves DEF IInv
  <2>3. pc' \in [Pollers -> Labels] /\ ScalerUsers'
    BY <1>4, <2>1, GotoTyped, NotifiedTyped DEF IInv
  <2>4. target \in Nat /\ target <= Cardinality(Scalable) /\ emptyStreak \in Nat
        /\ Cardinality(Scalable) \in Nat
    BY FiniteThreads DEF IInv, TypeOK, ScalerExact
  <2>5. emptyStreak' \in Nat
    BY <2>0, <2>4 DEF Report
  <2>6. target' \in Nat /\ target' <= Cardinality(Scalable)
    BY <2>0, <2>4 DEF Report
  <2>7. UNCHANGED active
    BY <2>0, Zenon DEF Report
  <2> QED
    BY <1>2, <1>3, <1>4, <2>2, <2>3, <2>5, <2>6, <2>7, QuietStep DEF Slot
<1> QED
  BY <1>5, <1>6

\* Acquire of the gate: the poller goes into Handle(), or leaves a closed gate.
LEMMA GateAcquireKeeps ==
    ASSUME IInv, NEW p \in Pollers, GateAcquire(p)
    PROVE  IInv'
<1>0. pc[p] = "gate"
  BY DEF GateAcquire
<1>1. CASE Goto(p, "exited") /\ UNCHANGED inFlight
  BY <1>0, <1>1, QuietGoto DEF GateAcquire, Labels, ScalerLabels, Slot, gate
<1>2. CASE /\ Limit = 0 \/ (~released /\ inFlight < Limit)
           /\ inFlight' = inFlight + 1 /\ Goto(p, "handle")
  <2>1. pc'[p] = "handle" /\ OthersStay(p)
    BY <1>2, GotoMoves DEF IInv
  <2>2. pc' \in [Pollers -> Labels] /\ ScalerUsers'
    BY <1>2, GotoTyped DEF IInv, Labels, ScalerLabels
  <2>3. UNCHANGED <<got, released, target, active, emptyStreak, draining, stop,
                    stopper, drained, joining, joinable>>
    BY Zenon DEF GateAcquire, scaler, flags, stops
  <2>4. TypeOK'
    BY <1>2, <2>2, <2>3 DEF IInv, TypeOK, Labels
  <2>5. Cardinality(Handling') = inFlight + 1
    BY <1>0, <2>1, HandlingCount DEF IInv
  <2>6. GateExact'
    BY <1>2, <2>5, WorkerAssumption DEF IInv, TypeOK, GateExact
  <2>7. Polling' = Polling
    BY <1>0, <2>1, PollingMoved DEF Polling
  <2>8. ScalerExact'
    BY <2>3, <2>7 DEF IInv, ScalerExact
  <2>9. Limit # 0 => ~released
    BY <1>2
  <2>10. ClosedBeforeDrain'
    BY <2>3, <2>9 DEF IInv, ClosedBeforeDrain
  <2> QED
    BY <2>2, <2>4, <2>6, <2>8, <2>10 DEF IInv
<1> QED
  BY <1>1, <1>2 DEF GateAcquire

\* Handle() ends and the guard gives the permit back.
LEMMA HandleReturnsKeeps ==
    ASSUME IInv, NEW p \in Pollers, HandleReturns(p)
    PROVE  IInv'
<1>1. pc[p] = "handle" /\ Goto(p, "top")
  BY DEF HandleReturns
<1>2. pc'[p] = "top" /\ OthersStay(p)
  BY <1>1, GotoMoves DEF IInv
<1>3. pc' \in [Pollers -> Labels] /\ ScalerUsers'
  BY <1>1, GotoTyped DEF IInv, Labels, ScalerLabels
<1>4. UNCHANGED <<got, released, target, active, emptyStreak, draining, stop,
                  stopper, drained, joining, joinable>>
  BY Zenon DEF HandleReturns, scaler, flags, stops
<1>5. p \in Handling
  BY <1>1 DEF Handling
<1>6. inFlight > 0
  BY <1>5, FiniteThreads, FS_EmptySet DEF IInv, GateExact
<1>7. inFlight' = inFlight - 1
  BY <1>6 DEF HandleReturns
<1>8. TypeOK'
  BY <1>3, <1>4, <1>6, <1>7 DEF IInv, TypeOK, Labels
<1>9. Cardinality(Handling') = inFlight - 1
  BY <1>1, <1>2, HandlingCount DEF IInv
<1>10. GateExact'
  BY <1>7, <1>9, WorkerAssumption DEF IInv, TypeOK, GateExact
<1>11. Polling' = Polling
  BY <1>1, <1>2, PollingMoved DEF Polling
<1>12. ScalerExact'
  BY <1>4, <1>11 DEF IInv, ScalerExact
<1>13. Handling = {} => Handling' = {}
  BY <1>2, HandlingMoved
<1>14. ClosedBeforeDrain'
  BY <1>4, <1>13 DEF IInv, ClosedBeforeDrain
<1> QED
  BY <1>3, <1>8, <1>10, <1>12, <1>14 DEF IInv

\* Every step of a poller keeps the inductive invariant.
LEMMA PollerKeeps ==
    ASSUME IInv, NEW p \in Pollers, Poller(p) \/ HandleReturns(p) \/ SpuriousWakeup(p)
    PROVE  IInv'
<1> USE DEF Labels, ScalerLabels, Slot
<1>1. CASE Top(p)
  <2>1. PICK l \in {"exited", "acquire", "poll"} :
            Goto(p, l) /\ (l = "acquire" => p \in Scalable) /\ (l = "poll" => p \notin Scalable \/ stop)
    BY <1>1 DEF Top
  <2>2. l = "poll" => p \notin Scalable
    BY <1>1, <2>1, GotoMoves DEF Top, IInv, TypeOK, Goto
  <2> QED
    BY <1>1, <2>1, <2>2, QuietGoto DEF Top
<1>2. CASE ScalerAcquire(p)
  BY <1>2, ScalerAcquireKeeps
<1>3. CASE ScalerSleep(p)
  <2>1. p \in Scalable
    BY <1>3 DEF ScalerSleep, IInv, ScalerUsers
  <2> QED
    BY <1>3, <2>1, QuietGoto DEF ScalerSleep
<1>4. CASE PollReturns(p)
  BY <1>4, PollReturnsKeeps
<1>5. CASE PollThrows(p)
  <2>1. CASE p \in Scalable
    BY <1>5, <2>1, QuietGoto DEF PollThrows
  <2>2. CASE p \notin Scalable
    BY <1>5, <2>2, QuietGoto DEF PollThrows
  <2> QED
    BY <2>1, <2>2
<1>6. CASE ReleaseSlot(p)
  BY <1>6, ReleaseSlotKeeps
<1>7. CASE Check(p)
  <2>1. PICK l \in {"exited", "top", "paced", "gate"} : Goto(p, l)
    BY <1>7 DEF Check
  <2> QED
    BY <1>7, <2>1, QuietGoto DEF Check
<1>8. CASE Paced(p)
  <2>1. PICK l \in {"exited", "gate"} : Goto(p, l)
    BY <1>8 DEF Paced
  <2> QED
    BY <1>8, <2>1, QuietGoto DEF Paced
<1>9. CASE GateAcquire(p)
  BY <1>9, GateAcquireKeeps
<1>10. CASE HandleReturns(p)
  BY <1>10, HandleReturnsKeeps
<1>11. CASE SpuriousWakeup(p)
  <2>1. p \in Scalable
    BY <1>11 DEF SpuriousWakeup, IInv, ScalerUsers
  <2> QED
    BY <1>11, <2>1, QuietGoto DEF SpuriousWakeup
<1> QED
  BY <1>1, <1>2, <1>3, <1>4, <1>5, <1>6, <1>7, <1>8, <1>9, <1>10, <1>11 DEF Poller

\* The pollers, the gate's counter and the scaler are left alone by a stopper, but
\* for Wake, which moves sleepers.
LEMMA StopperKeepsCounts ==
    ASSUME IInv, UNCHANGED <<inFlight, target, active>>,
           \/ UNCHANGED pc
           \/ pc' = [q \in Pollers |-> IF pc[q] = "parked" THEN "acquire" ELSE pc[q]]
    PROVE  /\ pc' \in [Pollers -> Labels] /\ ScalerUsers' /\ Handling' = Handling
           /\ GateExact' /\ ScalerExact'
<1> Scalable \subseteq Pollers
  BY WorkerAssumption
<1>1. pc' \in [Pollers -> Labels]
  BY DEF IInv, TypeOK, Labels
<1>2. \A q \in Pollers : pc'[q] = pc[q] \/ (pc[q] = "parked" /\ pc'[q] = "acquire")
  OBVIOUS
<1>3. ScalerUsers'
  BY <1>2 DEF IInv, ScalerUsers
<1>4. Handling' = Handling
  BY <1>2 DEF Handling
<1>5. Polling' = Polling
  BY <1>2 DEF Polling
<1> QED
  BY <1>1, <1>3, <1>4, <1>5 DEF IInv, GateExact, ScalerExact

\* Every step of a thread in Stop() keeps the inductive invariant.
LEMMA StopperKeeps ==
    ASSUME IInv, NEW s \in Stoppers, StopDraining(s) \/ Stop(s)
    PROVE  IInv'
<1>0. UNCHANGED <<got, inFlight, target, active, emptyStreak>>
  BY Zenon DEF Stop, StopDraining, StopFlag, StopReleaseAll, StopWake, StopDrain, StopJoin,
               StopJoined, gate, scaler
<1>1. \/ UNCHANGED pc
      \/ pc' = [q \in Pollers |-> IF pc[q] = "parked" THEN "acquire" ELSE pc[q]]
  BY Zenon DEF Stop, StopDraining, StopFlag, StopReleaseAll, StopWake, StopDrain, StopJoin,
               StopJoined
<1>2. /\ pc' \in [Pollers -> Labels] /\ ScalerUsers' /\ Handling' = Handling
      /\ GateExact' /\ ScalerExact'
  BY <1>0, <1>1, StopperKeepsCounts
<1>3. SUFFICES TypeOK' /\ ClosedBeforeDrain'
  BY <1>2 DEF IInv
<1> USE DEF IInv, TypeOK, ClosedBeforeDrain, StopAt, Labels
<1>4. CASE StopDraining(s)
  <2>1. UNCHANGED <<released, stop, drained, joining, joinable>>
    BY <1>4, Zenon DEF StopDraining, gate
  <2> QED
    BY <1>0, <1>2, <1>4, <2>1 DEF StopDraining
<1>5. CASE StopFlag(s)
  <2>1. UNCHANGED <<released, draining, drained, joining, joinable>>
    BY <1>5, Zenon DEF StopFlag, gate
  <2> QED
    BY <1>0, <1>2, <1>5, <2>1 DEF StopFlag
<1>6. CASE StopReleaseAll(s)
  <2>1. UNCHANGED <<draining, stop, drained, joining, joinable>>
    BY <1>6, Zenon DEF StopReleaseAll, flags
  <2> QED
    BY <1>0, <1>2, <1>6, <2>1 DEF StopReleaseAll
<1>7. CASE StopWake(s)
  <2>1. UNCHANGED <<released, draining, stop, drained, joining, joinable>>
    BY <1>7, Zenon DEF StopWake, flags, gate
  <2> QED
    BY <1>0, <1>2, <1>7, <2>1 DEF StopWake
<1>8. CASE StopDrain(s)
  <2>1. UNCHANGED <<released, draining, stop, joining, joinable>>
    BY <1>8, Zenon DEF StopDrain, flags, gate
  <2>2. PICK empty \in {FALSE, inFlight = 0} : drained' = [drained EXCEPT ![s] = empty]
    BY <1>8 DEF StopDrain
  <2>3. inFlight = 0 => Handling = {}
    BY FiniteThreads, FS_EmptySet DEF GateExact
  <2>4. stopper[s] = "drain" /\ released
    BY <1>8 DEF StopDrain
  <2>5. stopper' = [stopper EXCEPT ![s] = "join"]
    BY <1>8 DEF StopDrain
  <2> QED
    BY <1>0, <1>2, <2>1, <2>2, <2>3, <2>4, <2>5
<1>9. CASE StopJoin(s)
  <2>1. UNCHANGED <<released, draining, stop, drained, joinable>>
    BY <1>9, Zenon DEF StopJoin, flags, gate
  <2> QED
    BY <1>0, <1>2, <1>9, <2>1 DEF StopJoin
<1>10. CASE StopJoined(s)
  <2>1. UNCHANGED <<released, draining, stop, stopper, drained>>
    BY <1>10, Zenon DEF StopJoined, flags, gate
  <2> QED
    BY <1>0, <1>2, <1>10, <2>1 DEF StopJoined
<1> QED
  BY <1>4, <1>5, <1>6, <1>7, <1>8, <1>9, <1>10 DEF Stop

-----------------------------------------------------------------------------
(***************************************************************************)
(* The theorems.                                                           *)
(***************************************************************************)
\* The program starts in a state of the inductive invariant.
LEMMA InitIInv == Init => IInv
<1> SUFFICES ASSUME Init PROVE IInv
  OBVIOUS
<1>1. released \in BOOLEAN /\ draining \in BOOLEAN /\ stop \in BOOLEAN
  BY Zenon DEF Init
<1>2. TypeOK
  BY <1>1 DEF Init, TypeOK
<1>3. Handling = {} /\ Polling = {}
  BY WorkerAssumption DEF Init, Handling, Polling
<1>4. GateExact /\ ScalerExact
  BY <1>3, FS_EmptySet, FiniteThreads, WorkerAssumption DEF Init, GateExact, ScalerExact
<1> QED
  BY <1>2, <1>4 DEF Init, IInv, ScalerUsers, ClosedBeforeDrain

\* Every step keeps the inductive invariant.
LEMMA NextIInv == IInv /\ [Next]_vars => IInv'
<1> SUFFICES ASSUME IInv, [Next]_vars PROVE IInv'
  OBVIOUS
<1>1. ASSUME NEW p \in Pollers, Poller(p) \/ HandleReturns(p) \/ SpuriousWakeup(p)
      PROVE  IInv'
  BY <1>1, PollerKeeps
<1>2. ASSUME NEW s \in Stoppers, StopDraining(s) \/ Stop(s)
      PROVE  IInv'
  BY <1>2, StopperKeeps
<1>3. CASE UNCHANGED vars
  <2>1. UNCHANGED <<pc, got, inFlight, released, target, active, emptyStreak, draining, stop,
                    stopper, drained, joining, joinable>>
    BY <1>3 DEF vars
  <2>2. Handling' = Handling /\ Polling' = Polling
    BY <2>1 DEF Handling, Polling
  <2> QED
    BY <2>1, <2>2 DEF IInv, TypeOK, ScalerUsers, GateExact, ScalerExact, ClosedBeforeDrain
<1> QED
  BY <1>1, <1>2, <1>3 DEF Next, Finished

\* The inductive invariant holds in every reachable state.
LEMMA Invariance == Spec => []IInv
  BY InitIInv, NextIInv, PTL DEF Spec

\* Every variable of the pool always holds a value of its type.
THEOREM TypeCorrect == Spec => []TypeOK
<1>1. IInv => TypeOK
  BY DEF IInv
<1> QED
  BY <1>1, Invariance, PTL

\* in_flight_ is the number of Handle() calls in progress and within the limit:
\* ConcurrencyGate::Acquire, Release and the GateGuard of the poll loops.
THEOREM GateCountsHandlers == Spec => []GateExact
<1>1. IInv => GateExact
  BY DEF IInv
<1> QED
  BY <1>1, Invariance, PTL

\* active_ is the number of surplus pollers with a poll slot, and target_ within the
\* pool: PollerScaler::Acquire, Release and Report.
THEOREM ScalerCountsSlots == Spec => []ScalerExact
<1>1. IInv => ScalerExact
  BY DEF IInv
<1> QED
  BY <1>1, Invariance, PTL

\* With a limit, no task is dispatched once Drain has found the gate empty.  A gate
\* without one does not look at released_.
THEOREM DrainIsFinal == ASSUME Limit # 0 PROVE Spec => []NoDispatchAfterDrain
<1>1. IInv => NoDispatchAfterDrain
  BY DEF IInv, ClosedBeforeDrain, NoDispatchAfterDrain
<1> QED
  BY <1>1, Invariance, PTL
=============================================================================
