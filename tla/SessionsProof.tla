--------------------------- MODULE SessionsProof ---------------------------
(***************************************************************************)
(* The slots of session workers, for any number of workflows, workers and  *)
(* faults, and any capacity: a worker's counter is compared with the set   *)
(* of workflows that hold one of its slots, from both sides.               *)
(***************************************************************************)
EXTENDS Sessions, FiniteSetTheorems, TLAPS

\* The queue workflow i was given is that of w's present incarnation.
Here(i, w) == queue[i] = [on |-> w, epoch |-> epoch[w]]

\* Workflow i has one of the slots w counts: its session is open, its completion has
\* not run, or its creation has run and was not answered.
Holds(i, w) ==
    \/ flow[i] = "open" /\ Here(i, w)
    \/ flow[i] = "completing" /\ Here(i, w) /\ ~attempt[i].ran
    \/ attempt[i].op = "create" /\ attempt[i].at = "done" /\ attempt[i].on = w

\* A completion that read the counter at zero, and so will not lower it.
Blind(i, w) ==
    /\ attempt[i].op = "complete" /\ attempt[i].at = "loaded"
    /\ attempt[i].on = w /\ attempt[i].seen = 0

Holding(w) == {i \in Workflows : Holds(i, w)}
Counted(w) == {i \in Workflows : Holds(i, w) /\ ~Blind(i, w)}

\* The workflow and its session activity are in step, and a completion runs on the
\* incarnation that gave the slot.
AttemptFits(i) ==
    /\ flow[i] \in {"start", "open"} => attempt[i] = NoAttempt
    /\ flow[i] = "creating" => attempt[i].op = "create"
    /\ flow[i] = "completing" => attempt[i].op = "complete"
    /\ flow[i] = "done" => attempt[i].op \in {"none", "create"}
    /\ attempt[i].op = "none" => attempt[i] = NoAttempt
    /\ attempt[i].at = "none" => attempt[i].op = "none"
    /\ attempt[i].at = "queued" => attempt[i].on = "none"
    /\ attempt[i].at \in {"loaded", "done", "gone"} => attempt[i].on \in Workers
    /\ attempt[i].at = "gone" => attempt[i].op = "create"
    /\ attempt[i].op = "complete" /\ attempt[i].at \in {"loaded", "done"} => Here(i, attempt[i].on)
    /\ attempt[i].op = "complete" /\ attempt[i].at = "done" => attempt[i].ran
    /\ queue[i].on \in Workers => queue[i].epoch <= epoch[queue[i].on]

\* The counter of a worker: no slot that is held, or was left behind, goes uncounted,
\* but for those given back twice; and nothing else is counted.
SlotsCounted(w) ==
    /\ Cardinality(Holding(w)) + stray[w] <= active[w] + again[w]
    /\ active[w] <= Cardinality(Counted(w)) + stray[w]
    /\ Cap > 0 => active[w] <= Cap

IInv ==
    /\ TypeOK
    /\ \A i \in Workflows : AttemptFits(i)
    /\ \A w \in Workers : SlotsCounted(w)

-----------------------------------------------------------------------------
(***************************************************************************)
(* Counting.                                                               *)
(***************************************************************************)
Unit(b) == IF b THEN 1 ELSE 0

\* Two finite sets that differ by one element at most.
LEMMA OneApart ==
    ASSUME NEW W, IsFiniteSet(W), NEW A \in SUBSET W, NEW B \in SUBSET W, NEW i \in W,
           \A j \in W \ {i} : j \in A <=> j \in B
    PROVE  /\ Cardinality(A) \in Nat /\ Cardinality(B) \in Nat
           /\ Cardinality(B) + Unit(i \in A) = Cardinality(A) + Unit(i \in B)
<1>1. IsFiniteSet(A) /\ IsFiniteSet(B)
  BY FS_Subset
<1>2. Cardinality(A) \in Nat /\ Cardinality(B) \in Nat
  BY <1>1, FS_CardinalityType
<1>3. CASE i \in B
  <2>1. B = A \cup {i}
    BY <1>3
  <2>2. Cardinality(A \cup {i}) = IF i \in A THEN Cardinality(A) ELSE Cardinality(A) + 1
    BY <1>1, FS_AddElement
  <2> QED
    BY <1>2, <1>3, <2>1, <2>2 DEF Unit
<1>4. CASE i \notin B
  <2>1. B = A \ {i}
    BY <1>4
  <2>2. Cardinality(A \ {i}) = IF i \in A THEN Cardinality(A) - 1 ELSE Cardinality(A)
    BY <1>1, FS_RemoveElement
  <2> QED
    BY <1>2, <1>4, <2>1, <2>2 DEF Unit
<1> QED
  BY <1>2, <1>3, <1>4

\* The slots held are finitely many.
LEMMA FiniteSlots ==
    ASSUME NEW w \in Workers
    PROVE  /\ IsFiniteSet(Holding(w)) /\ Cardinality(Holding(w)) \in Nat
           /\ IsFiniteSet(Counted(w)) /\ Cardinality(Counted(w)) \in Nat
<1>1. Holding(w) \in SUBSET Workflows /\ Counted(w) \in SUBSET Workflows
  BY DEF Holding, Counted
<1>2. IsFiniteSet(Holding(w)) /\ IsFiniteSet(Counted(w))
  BY <1>1, FS_Subset, SessionsAssumption
<1> QED
  BY <1>2, FS_CardinalityType

\* Whatever a step does to workflow j and the incarnations stays as it is.
Untouched(j) == flow'[j] = flow[j] /\ queue'[j] = queue[j] /\ attempt'[j] = attempt[j]

\* A workflow that a step does not touch holds what it held.
LEMMA UntouchedHolds ==
    ASSUME NEW j \in Workflows, NEW w \in Workers, Untouched(j), epoch'[w] = epoch[w]
    PROVE  (Holds(j, w)' <=> Holds(j, w)) /\ (Blind(j, w)' <=> Blind(j, w))
BY DEF Untouched, Holds, Blind, Here

Counts(i, w) == Holds(i, w) /\ ~Blind(i, w)

\* The account of a step of workflow i with worker w: a slot that i takes is added to
\* the counter, one that it gives back is taken from it, or passed on to stray or again.
Balanced(i, w) ==
    /\ stray'[w] + Unit(Holds(i, w)') + active[w] + again[w]
         <= active'[w] + again'[w] + stray[w] + Unit(Holds(i, w))
    /\ \/ active'[w] = 0
       \/ active'[w] + stray[w] + Unit(Counts(i, w)) <= active[w] + stray'[w] + Unit(Counts(i, w)')
    /\ Cap > 0 => active'[w] <= Cap

\* A balanced step keeps the worker's counter right.
LEMMA BalancedCounts ==
    ASSUME TypeOK, TypeOK', NEW i \in Workflows, NEW w \in Workers,
           \A j \in Workflows \ {i} : Untouched(j), UNCHANGED epoch,
           SlotsCounted(w), Balanced(i, w)
    PROVE  SlotsCounted(w)'
<1>1. \A j \in Workflows \ {i} : (Holds(j, w)' <=> Holds(j, w)) /\ (Blind(j, w)' <=> Blind(j, w))
  BY UntouchedHolds
<1>2. /\ \A j \in Workflows \ {i} : j \in Holding(w) <=> j \in Holding(w)'
      /\ \A j \in Workflows \ {i} : j \in Counted(w) <=> j \in Counted(w)'
  BY <1>1 DEF Holding, Counted
<1>3. /\ Holding(w) \in SUBSET Workflows /\ Holding(w)' \in SUBSET Workflows
      /\ Counted(w) \in SUBSET Workflows /\ Counted(w)' \in SUBSET Workflows
  BY DEF Holding, Counted
<1>4. /\ i \in Holding(w) <=> Holds(i, w)
      /\ i \in Holding(w)' <=> Holds(i, w)'
      /\ i \in Counted(w) <=> Counts(i, w)
      /\ i \in Counted(w)' <=> Counts(i, w)'
  BY DEF Holding, Counted, Counts
<1>5. /\ Cardinality(Holding(w)) \in Nat /\ Cardinality(Holding(w)') \in Nat
      /\ Cardinality(Holding(w)') + Unit(Holds(i, w))
           = Cardinality(Holding(w)) + Unit(Holds(i, w)')
  <2> DEFINE A == Holding(w)
             B == Holding(w)'
  <2>1. Cardinality(B) + Unit(i \in A) = Cardinality(A) + Unit(i \in B)
        /\ Cardinality(A) \in Nat /\ Cardinality(B) \in Nat
    <3> HIDE DEF A, B
    <3> QED
      BY <1>2, <1>3, OneApart, SessionsAssumption DEF A, B
  <2> QED
    BY <1>4, <2>1 DEF Unit
<1>6. /\ Cardinality(Counted(w)) \in Nat /\ Cardinality(Counted(w)') \in Nat
      /\ Cardinality(Counted(w)') + Unit(Counts(i, w))
           = Cardinality(Counted(w)) + Unit(Counts(i, w)')
  <2> DEFINE A == Counted(w)
             B == Counted(w)'
  <2>1. Cardinality(B) + Unit(i \in A) = Cardinality(A) + Unit(i \in B)
        /\ Cardinality(A) \in Nat /\ Cardinality(B) \in Nat
    <3> HIDE DEF A, B
    <3> QED
      BY <1>2, <1>3, OneApart, SessionsAssumption DEF A, B
  <2> QED
    BY <1>4, <2>1 DEF Unit
<1>7. /\ active[w] \in Nat /\ active'[w] \in Nat /\ again[w] \in Nat /\ again'[w] \in Nat
      /\ stray[w] \in Nat /\ stray'[w] \in Nat
  BY DEF TypeOK
<1>8. /\ Unit(Holds(i, w)) \in Nat /\ Unit(Holds(i, w)') \in Nat
      /\ Unit(Counts(i, w)) \in Nat /\ Unit(Counts(i, w)') \in Nat
  BY DEF Unit
<1> QED
  BY <1>5, <1>6, <1>7, <1>8 DEF SlotsCounted, Balanced

\* A balanced step of one workflow keeps the inductive invariant.
LEMMA LocalStep ==
    ASSUME IInv, NEW i \in Workflows, TypeOK', AttemptFits(i)',
           \A j \in Workflows \ {i} : Untouched(j), UNCHANGED epoch,
           \A w \in Workers : Balanced(i, w)
    PROVE  IInv'
<1>1. \A w \in Workers : SlotsCounted(w)'
  BY BalancedCounts DEF IInv
<1>2. ASSUME NEW j \in Workflows \ {i} PROVE AttemptFits(j)'
  BY <1>2 DEF IInv, AttemptFits, Untouched, Here
<1> QED
  BY <1>1, <1>2 DEF IInv

\* A step that changes no counter is balanced when i holds what it held.
LEMMA QuietBalanced ==
    ASSUME IInv, NEW i \in Workflows, NEW w \in Workers,
           UNCHANGED <<active, again, stray>>,
           Holds(i, w)' => Holds(i, w),
           active[w] = 0 \/ (Counts(i, w) => Counts(i, w)')
    PROVE  Balanced(i, w)
<1>1. active[w] \in Nat /\ again[w] \in Nat /\ stray[w] \in Nat /\ (Cap > 0 => active[w] <= Cap)
  BY DEF IInv, TypeOK, SlotsCounted
<1>2. active'[w] = active[w] /\ again'[w] = again[w] /\ stray'[w] = stray[w]
  OBVIOUS
<1> QED
  BY <1>1, <1>2 DEF Balanced, Unit

-----------------------------------------------------------------------------
(***************************************************************************)
(* The steps of a workflow and of its session activity.                    *)
(***************************************************************************)
Attempts == [op : {"none", "create", "complete"},
             at : {"none", "queued", "loaded", "done", "gone"},
             on : Workers \cup {"none"}, seen : Nat, ran : BOOLEAN]

\* What the server queues, and the absence of an attempt.
LEMMA QueuedFields ==
    /\ NoAttempt \in Attempts
    /\ \A op \in {"create", "complete"}, ran \in BOOLEAN :
          LET q == Queued(op, ran)
          IN  /\ q \in Attempts /\ q # NoAttempt
              /\ q.op = op /\ q.at = "queued" /\ q.on = "none" /\ q.ran = ran
    /\ NoAttempt.op = "none" /\ NoAttempt.at = "none" /\ NoAttempt.on = "none"
    /\ NoAttempt.ran = FALSE
BY DEF Queued, NoAttempt, Attempts

\* CreateSession starts its activity.
LEMMA CreateSessionKeeps ==
    ASSUME IInv, NEW i \in Workflows, CreateSession(i)
    PROVE  IInv'
<1> USE DEF CreateSession, IInv
<1>1. AttemptFits(i)
  OBVIOUS
<1>2. TypeOK'
  BY QueuedFields DEF TypeOK, Attempts
<1>3. \A j \in Workflows \ {i} : Untouched(j)
  BY DEF TypeOK, Untouched
<1>4. flow'[i] = "creating" /\ attempt'[i] = Queued("create", FALSE) /\ queue'[i] = queue[i]
  BY DEF TypeOK
<1>5. AttemptFits(i)'
  BY <1>1, <1>4, QueuedFields DEF AttemptFits, Here
<1>6. ASSUME NEW w \in Workers PROVE Balanced(i, w)
  <2>1. ~Holds(i, w)' /\ ~Holds(i, w)
    BY <1>1, <1>4, QueuedFields DEF Holds, AttemptFits
  <2> QED
    BY <2>1, QuietBalanced DEF Counts
<1> QED
  BY <1>2, <1>3, <1>5, <1>6, LocalStep

\* CreateSession throws.
LEMMA CreateTimeoutKeeps ==
    ASSUME IInv, NEW i \in Workflows, CreateTimeout(i)
    PROVE  IInv'
<1> USE DEF CreateTimeout, IInv
<1>1. AttemptFits(i)
  OBVIOUS
<1>2. TypeOK'
  BY QueuedFields DEF TypeOK, Attempts
<1>3. \A j \in Workflows \ {i} : Untouched(j)
  BY DEF TypeOK, Untouched
<1>4. /\ flow'[i] = "done" /\ queue'[i] = queue[i]
      /\ attempt'[i] = IF attempt[i].at \in {"queued", "gone"} THEN NoAttempt ELSE attempt[i]
  BY DEF TypeOK
<1>5. AttemptFits(i)'
  BY <1>1, <1>4, QueuedFields DEF AttemptFits, Here
<1>6. ASSUME NEW w \in Workers PROVE Balanced(i, w)
  <2>1. Holds(i, w)' <=> Holds(i, w)
    BY <1>1, <1>4, QueuedFields DEF Holds, AttemptFits
  <2>2. ~Blind(i, w)'
    BY <1>1, <1>4, QueuedFields DEF Blind, AttemptFits
  <2> QED
    BY <2>1, <2>2, QuietBalanced DEF Counts
<1> QED
  BY <1>2, <1>3, <1>5, <1>6, LocalStep

\* CompleteSession starts its activity: the slot is still held.
LEMMA CompleteSessionKeeps ==
    ASSUME IInv, NEW i \in Workflows, CompleteSession(i)
    PROVE  IInv'
<1> USE DEF CompleteSession, IInv
<1>1. AttemptFits(i)
  OBVIOUS
<1>2. TypeOK'
  BY QueuedFields DEF TypeOK, Attempts
<1>3. \A j \in Workflows \ {i} : Untouched(j)
  BY DEF TypeOK, Untouched
<1>4. flow'[i] = "completing" /\ attempt'[i] = Queued("complete", FALSE) /\ queue'[i] = queue[i]
  BY DEF TypeOK
<1>5. AttemptFits(i)'
  BY <1>1, <1>4, QueuedFields DEF AttemptFits, Here
<1>6. ASSUME NEW w \in Workers PROVE Balanced(i, w)
  <2>1. Holds(i, w)' <=> Holds(i, w)
    BY <1>1, <1>4, QueuedFields DEF Holds, AttemptFits, Here
  <2>2. ~Blind(i, w)'
    BY <1>4, QueuedFields DEF Blind
  <2> QED
    BY <2>1, <2>2, QuietBalanced DEF Counts
<1> QED
  BY <1>2, <1>3, <1>5, <1>6, LocalStep

\* The workflow ends with the session open: its slot becomes a stray one.
LEMMA QuitKeeps ==
    ASSUME IInv, NEW i \in Workflows, Quit(i)
    PROVE  IInv'
<1> USE DEF Quit, IInv
<1>1. AttemptFits(i)
  OBVIOUS
<1>2. TypeOK'
  BY DEF TypeOK
<1>3. \A j \in Workflows \ {i} : Untouched(j)
  BY DEF TypeOK, Untouched
<1>4. flow'[i] = "done" /\ attempt'[i] = NoAttempt /\ attempt[i] = NoAttempt /\ queue'[i] = queue[i]
  BY <1>1 DEF TypeOK, AttemptFits
<1>5. AttemptFits(i)'
  BY <1>1, <1>4, QueuedFields DEF AttemptFits, Here
<1>6. ASSUME NEW w \in Workers PROVE Balanced(i, w)
  <2>1. ~Holds(i, w)' /\ (Holds(i, w) <=> Here(i, w)) /\ ~Blind(i, w)
    BY <1>4, QueuedFields DEF Holds, Blind
  <2>2. stray'[w] = stray[w] + Unit(Here(i, w))
    BY DEF Unit, Here
  <2>3. UNCHANGED <<active, again>>
    BY Zenon
  <2>4. active[w] \in Nat /\ again[w] \in Nat /\ stray[w] \in Nat /\ SlotsCounted(w)
    BY DEF TypeOK
  <2> QED
    BY <2>1, <2>2, <2>3, <2>4 DEF Balanced, Counts, Unit, SlotsCounted
<1> QED
  BY <1>2, <1>3, <1>5, <1>6, LocalStep

\* An attempt is polled and loads the counter.
LEMMA LoadKeeps ==
    ASSUME IInv, NEW i \in Workflows, NEW v \in Workers, Load(i, v)
    PROVE  IInv'
<1> USE DEF Load, IInv
<1>1. AttemptFits(i)
  OBVIOUS
<1>2. TypeOK'
  <2>1. attempt[i] \in Attempts /\ active[v] \in Nat
    BY DEF TypeOK, Attempts
  <2>2. [attempt[i] EXCEPT !.at = "loaded", !.on = v, !.seen = active[v]] \in Attempts
    BY <2>1 DEF Attempts
  <2>3. attempt' \in [Workflows -> Attempts]
    BY <2>2 DEF TypeOK, Attempts
  <2> QED
    BY <2>3 DEF TypeOK, Attempts
<1>3. \A j \in Workflows \ {i} : Untouched(j)
  BY DEF TypeOK, Untouched
<1>4. /\ attempt'[i].at = "loaded" /\ attempt'[i].on = v /\ attempt'[i].seen = active[v]
      /\ attempt'[i].op = attempt[i].op /\ attempt'[i].ran = attempt[i].ran
      /\ flow'[i] = flow[i] /\ queue'[i] = queue[i]
  BY DEF TypeOK
<1>5. attempt[i].op # "none" /\ flow[i] \notin {"start", "open"}
  BY <1>1, QueuedFields DEF AttemptFits
<1>6. AttemptFits(i)'
  BY <1>1, <1>4, <1>5 DEF AttemptFits, Here
<1>7. ASSUME NEW w \in Workers PROVE Balanced(i, w)
  <2>1. Holds(i, w)' <=> Holds(i, w)
    BY <1>1, <1>4, <1>5 DEF Holds, AttemptFits, Here
  <2>2. Blind(i, w)' => active[w] = 0
    BY <1>4 DEF Blind
  <2> QED
    BY <2>1, <2>2, QuietBalanced DEF Counts
<1> QED
  BY <1>2, <1>3, <1>6, <1>7, LocalStep

\* A creation finds the worker full.
LEMMA CreateFullKeeps ==
    ASSUME IInv, NEW i \in Workflows, CreateFull(i)
    PROVE  IInv'
<1> USE DEF CreateFull, At, IInv
<1>1. AttemptFits(i)
  OBVIOUS
<1>2. TypeOK'
  BY QueuedFields DEF TypeOK, Attempts
<1>3. \A j \in Workflows \ {i} : Untouched(j)
  BY DEF TypeOK, Untouched
<1>4. /\ flow'[i] = flow[i] /\ queue'[i] = queue[i]
      /\ attempt'[i] = IF flow[i] = "creating" THEN Queued("create", FALSE) ELSE NoAttempt
  BY DEF TypeOK
<1>5. flow[i] \in {"creating", "done"}
  BY <1>1, QueuedFields DEF AttemptFits, TypeOK
<1>6. AttemptFits(i)'
  <2>1. CASE flow[i] = "creating"
    <3>1. attempt'[i] = Queued("create", FALSE)
      BY <1>4, <2>1
    <3> QED
      BY <1>1, <1>4, <2>1, <3>1, QueuedFields DEF AttemptFits, Here
  <2>2. CASE flow[i] = "done"
    <3>1. attempt'[i] = NoAttempt
      BY <1>4, <2>2
    <3> QED
      BY <1>1, <1>4, <2>2, <3>1, QueuedFields DEF AttemptFits, Here
  <2> QED
    BY <1>5, <2>1, <2>2
<1>7. ASSUME NEW w \in Workers PROVE Balanced(i, w)
  <2>1. ~Holds(i, w)' /\ ~Holds(i, w)
    BY <1>4, <1>5, QueuedFields DEF Holds
  <2> QED
    BY <2>1, QuietBalanced DEF Counts
<1> QED
  BY <1>2, <1>3, <1>6, <1>7, LocalStep

\* compare_exchange of a creation.
LEMMA ReserveKeeps ==
    ASSUME IInv, NEW i \in Workflows, Reserve(i)
    PROVE  IInv'
<1> DEFINE v == attempt[i].on
<1>1. AttemptFits(i) /\ TypeOK /\ \A w \in Workers : SlotsCounted(w)
  BY DEF IInv
<1>2. attempt[i].at = "loaded" /\ attempt[i].op = "create" /\ ~Full(i)
  BY DEF Reserve, At
<1>3. v \in Workers /\ flow[i] \in {"creating", "done"} /\ attempt[i] \in Attempts
  BY <1>1, <1>2, QueuedFields DEF AttemptFits, TypeOK, Attempts
<1>4. UNCHANGED <<flow, queue, epoch, again, stray, faults>>
  BY DEF Reserve
<1>5. CASE active[v] = attempt[i].seen
  <2>1. active' = [active EXCEPT ![v] = @ + 1] /\ attempt' = [attempt EXCEPT ![i].at = "done"]
    BY <1>5 DEF Reserve
  <2>2. [attempt[i] EXCEPT !.at = "done"] \in Attempts
    BY <1>3 DEF Attempts
  <2>3. TypeOK'
    BY <1>1, <1>3, <1>4, <2>1, <2>2 DEF TypeOK, Attempts
  <2>4. \A j \in Workflows \ {i} : Untouched(j)
    BY <1>1, <1>4, <2>1 DEF TypeOK, Untouched
  <2>5. /\ attempt'[i].at = "done" /\ attempt'[i].on = v /\ attempt'[i].op = "create"
        /\ attempt'[i].ran = attempt[i].ran
    BY <1>1, <1>2, <1>3, <2>1 DEF TypeOK, Attempts
  <2>6. AttemptFits(i)'
    BY <1>1, <1>2, <1>3, <1>4, <2>5, QueuedFields DEF AttemptFits
  <2>7. ASSUME NEW w \in Workers PROVE Balanced(i, w)
    <3>1. active[w] \in Nat /\ again[w] \in Nat /\ stray[w] \in Nat /\ active'[w] \in Nat
      BY <1>1, <2>3 DEF TypeOK
    <3>2. again'[w] = again[w] /\ stray'[w] = stray[w]
      BY <1>4
    <3>3. ~Holds(i, w) /\ ~Blind(i, w)' /\ (Holds(i, w)' <=> w = v)
      BY <1>2, <1>3, <1>4, <2>5 DEF Holds, Blind
    <3>4. active'[w] = active[w] + Unit(w = v)
      BY <1>1, <1>3, <2>1, <3>1 DEF TypeOK, Unit
    <3>5. Cap > 0 => active'[w] <= Cap
      BY <1>1, <1>2, <1>3, <1>5, <3>1, <3>4, SessionsAssumption
         DEF Full, SlotsCounted, Unit, Attempts
    <3> QED
      BY <3>1, <3>2, <3>3, <3>4, <3>5 DEF Balanced, Counts, Unit
  <2> QED
    BY <1>3, <1>4, <2>3, <2>4, <2>6, <2>7, LocalStep
<1>6. CASE active[v] # attempt[i].seen
  <2>1. attempt' = [attempt EXCEPT ![i].seen = active[v]] /\ UNCHANGED active
    BY <1>6 DEF Reserve
  <2>2. [attempt[i] EXCEPT !.seen = active[v]] \in Attempts
    BY <1>1, <1>3 DEF Attempts, TypeOK
  <2>3. TypeOK'
    BY <1>1, <1>3, <1>4, <2>1, <2>2 DEF TypeOK, Attempts
  <2>4. \A j \in Workflows \ {i} : Untouched(j)
    BY <1>1, <1>4, <2>1 DEF TypeOK, Untouched
  <2>5. /\ attempt'[i].at = "loaded" /\ attempt'[i].on = v /\ attempt'[i].op = "create"
        /\ attempt'[i].ran = attempt[i].ran
    BY <1>1, <1>2, <1>3, <2>1 DEF TypeOK, Attempts
  <2>6. AttemptFits(i)'
    BY <1>1, <1>2, <1>3, <1>4, <2>5, QueuedFields DEF AttemptFits
  <2>7. ASSUME NEW w \in Workers PROVE Balanced(i, w)
    <3>1. ~Holds(i, w) /\ ~Holds(i, w)'
      BY <1>2, <1>3, <1>4, <2>5 DEF Holds
    <3> QED
      BY <1>4, <2>1, <3>1, QuietBalanced DEF Counts
  <2> QED
    BY <1>4, <2>3, <2>4, <2>6, <2>7, LocalStep
<1> QED
  BY <1>5, <1>6

\* compare_exchange of a completion.
LEMMA ReleaseKeeps ==
    ASSUME IInv, NEW i \in Workflows, Release(i)
    PROVE  IInv'
<1> DEFINE v == attempt[i].on
<1>1. AttemptFits(i) /\ TypeOK /\ \A w \in Workers : SlotsCounted(w)
  BY DEF IInv
<1>2. attempt[i].at = "loaded" /\ attempt[i].op = "complete"
  BY DEF Release, At
<1>3. v \in Workers /\ flow[i] = "completing" /\ attempt[i] \in Attempts /\ Here(i, v)
  BY <1>1, <1>2, QueuedFields DEF AttemptFits, TypeOK, Attempts
<1>4. UNCHANGED <<flow, queue, epoch, stray, faults>>
  BY DEF Release
<1>5. \A w \in Workers : Here(i, w) <=> w = v
  BY <1>3 DEF Here
<1>6. CASE /\ attempt[i].seen # 0 /\ attempt' = [attempt EXCEPT ![i].seen = active[v]]
           /\ UNCHANGED <<active, again>>
  <2>1. [attempt[i] EXCEPT !.seen = active[v]] \in Attempts
    BY <1>1, <1>3 DEF Attempts, TypeOK
  <2>2. TypeOK'
    BY <1>1, <1>3, <1>4, <1>6, <2>1 DEF TypeOK, Attempts
  <2>3. \A j \in Workflows \ {i} : Untouched(j)
    BY <1>1, <1>4, <1>6 DEF TypeOK, Untouched
  <2>4. /\ attempt'[i].at = "loaded" /\ attempt'[i].on = v /\ attempt'[i].op = "complete"
        /\ attempt'[i].ran = attempt[i].ran /\ attempt'[i].seen = active[v]
    BY <1>1, <1>2, <1>3, <1>6 DEF TypeOK, Attempts
  <2>5. AttemptFits(i)'
    BY <1>1, <1>2, <1>3, <1>4, <2>4, QueuedFields DEF AttemptFits, Here
  <2>6. ASSUME NEW w \in Workers PROVE Balanced(i, w)
    <3>1. Holds(i, w) <=> Holds(i, w)'
      BY <1>2, <1>3, <1>4, <2>4 DEF Holds, Here
    <3>2. Blind(i, w)' => active[w] = 0
      BY <2>4 DEF Blind
    <3> QED
      BY <1>4, <1>6, <3>1, <3>2, QuietBalanced DEF Counts
  <2> QED
    BY <1>4, <2>2, <2>3, <2>5, <2>6, LocalStep
<1>7. CASE /\ attempt[i].seen = 0 \/ attempt[i].seen = active[v]
           /\ active' = [active EXCEPT ![v] = IF attempt[i].seen = 0 THEN @ ELSE @ - 1]
           /\ attempt' = [attempt EXCEPT ![i].at = "done", ![i].ran = TRUE]
           /\ again' = [again EXCEPT ![v] = @ + IF attempt[i].ran THEN 1 ELSE 0]
  <2>1. [attempt[i] EXCEPT !.at = "done", !.ran = TRUE] \in Attempts
    BY <1>3 DEF Attempts
  <2>2. attempt' \in [Workflows -> Attempts]
    BY <1>1, <1>7, <2>1 DEF TypeOK, Attempts
  <2>3. active' \in [Workers -> Nat] /\ again' \in [Workers -> Nat]
    <3>1. active[v] \in Nat /\ again[v] \in Nat
      BY <1>1, <1>3 DEF TypeOK
    <3>2. (IF attempt[i].seen = 0 THEN active[v] ELSE active[v] - 1) \in Nat
      BY <1>7, <3>1
    <3>3. again[v] + (IF attempt[i].ran THEN 1 ELSE 0) \in Nat
      BY <3>1
    <3> QED
      BY <1>1, <1>3, <1>7, <3>2, <3>3 DEF TypeOK
  <2>4. TypeOK'
    BY <1>1, <1>4, <2>2, <2>3 DEF TypeOK, Attempts
  <2>5. \A j \in Workflows \ {i} : Untouched(j)
    BY <1>1, <1>4, <1>7 DEF TypeOK, Untouched
  <2>6. /\ attempt'[i].at = "done" /\ attempt'[i].on = v /\ attempt'[i].op = "complete"
        /\ attempt'[i].ran = TRUE
    BY <1>1, <1>2, <1>3, <1>7 DEF TypeOK, Attempts
  <2>7. AttemptFits(i)'
    BY <1>1, <1>2, <1>3, <1>4, <2>6, QueuedFields DEF AttemptFits, Here
  <2>8. ASSUME NEW w \in Workers PROVE Balanced(i, w)
    <3>1. active[w] \in Nat /\ again[w] \in Nat /\ stray[w] \in Nat
      BY <1>1 DEF TypeOK
    <3>2. stray'[w] = stray[w]
      BY <1>4
    <3>3. ~Holds(i, w)' /\ (Holds(i, w) <=> w = v /\ ~attempt[i].ran)
      BY <1>2, <1>3, <1>4, <1>5, <2>6 DEF Holds
    <3>4. Blind(i, w) <=> w = v /\ attempt[i].seen = 0
      BY <1>2 DEF Blind
    <3>5. active'[w] = IF w = v /\ attempt[i].seen # 0 THEN active[w] - 1 ELSE active[w]
      BY <1>1, <1>3, <1>7 DEF TypeOK
    <3>6. again'[w] = IF w = v /\ attempt[i].ran THEN again[w] + 1 ELSE again[w]
      BY <1>1, <1>3, <1>7, <3>1 DEF TypeOK
    <3>7. Cap > 0 => active[w] <= Cap
      BY <1>1 DEF SlotsCounted
    <3>8. Cap > 0 => active'[w] <= Cap
      BY <3>1, <3>5, <3>7, SessionsAssumption
    <3> QED
      BY <3>1, <3>2, <3>3, <3>4, <3>5, <3>6, <3>8 DEF Balanced, Counts, Unit
  <2> QED
    BY <1>4, <2>4, <2>5, <2>7, <2>8, LocalStep
<1> QED
  BY <1>6, <1>7 DEF Release

\* The answer to an attempt arrives: the slot is the workflow's, was given back, or
\* is nobody's.
LEMMA AnswerKeeps ==
    ASSUME IInv, NEW i \in Workflows, Answer(i)
    PROVE  IInv'
<1> DEFINE v == attempt[i].on
<1>1. AttemptFits(i) /\ TypeOK /\ \A w \in Workers : SlotsCounted(w)
  BY DEF IInv
<1>2. attempt[i].at = "done"
  BY DEF Answer
<1>3. v \in Workers /\ flow[i] \in {"creating", "completing", "done"} /\ attempt[i] \in Attempts
  BY <1>1, <1>2, QueuedFields DEF AttemptFits, TypeOK, Attempts
<1>4. UNCHANGED <<active, epoch, again, faults>> /\ attempt' = [attempt EXCEPT ![i] = NoAttempt]
  BY DEF Answer
<1>5. attempt'[i] = NoAttempt /\ attempt' \in [Workflows -> Attempts]
  BY <1>1, <1>4, QueuedFields DEF TypeOK, Attempts
<1>6. ASSUME NEW w \in Workers
      PROVE  /\ active[w] \in Nat /\ again[w] \in Nat /\ stray[w] \in Nat
             /\ active'[w] = active[w] /\ again'[w] = again[w]
             /\ Cap > 0 => active[w] <= Cap
             /\ ~Blind(i, w) /\ ~Blind(i, w)'
  BY <1>1, <1>2, <1>4, <1>5, QueuedFields DEF TypeOK, SlotsCounted, Blind
<1>7. CASE flow[i] = "creating"
  <2>1. /\ flow' = [flow EXCEPT ![i] = "open"]
        /\ queue' = [queue EXCEPT ![i] = [on |-> v, epoch |-> epoch[v]]]
        /\ UNCHANGED stray
    BY <1>7 DEF Answer
  <2>2. TypeOK'
    BY <1>1, <1>3, <1>4, <1>5, <2>1 DEF TypeOK, Attempts
  <2>3. \A j \in Workflows \ {i} : Untouched(j)
    BY <1>1, <1>4, <2>1 DEF TypeOK, Untouched
  <2>4. flow'[i] = "open" /\ queue'[i] = [on |-> v, epoch |-> epoch[v]]
    BY <1>1, <2>1 DEF TypeOK
  <2>5. AttemptFits(i)'
    <3>1. epoch'[v] = epoch[v] /\ epoch[v] \in Nat
      BY <1>1, <1>3, <1>4 DEF TypeOK
    <3> QED
      BY <1>3, <1>5, <2>4, <3>1, QueuedFields DEF AttemptFits
  <2>6. ASSUME NEW w \in Workers PROVE Balanced(i, w)
    <3>1. Holds(i, w)' <=> Holds(i, w)
      <4>1. attempt[i].op = "create"
        BY <1>1, <1>7 DEF AttemptFits
      <4>2. Holds(i, w) <=> w = v
        BY <1>2, <1>7, <4>1 DEF Holds
      <4>3. Holds(i, w)' <=> w = v
        BY <1>4, <1>5, <2>4, QueuedFields DEF Holds, Here
      <4> QED
        BY <4>2, <4>3
    <3> QED
      BY <1>4, <1>6, <2>1, <3>1, QuietBalanced DEF Counts
  <2> QED
    BY <1>4, <2>2, <2>3, <2>5, <2>6, LocalStep
<1>8. CASE flow[i] = "completing"
  <2>1. flow' = [flow EXCEPT ![i] = "done"] /\ UNCHANGED <<queue, stray>>
    BY <1>8 DEF Answer
  <2>2. TypeOK'
    BY <1>1, <1>4, <1>5, <2>1 DEF TypeOK, Attempts
  <2>3. \A j \in Workflows \ {i} : Untouched(j)
    BY <1>1, <1>4, <2>1 DEF TypeOK, Untouched
  <2>4. flow'[i] = "done"
    BY <1>1, <2>1 DEF TypeOK
  <2>5. AttemptFits(i)'
    BY <1>1, <1>4, <1>5, <2>1, <2>4, QueuedFields DEF AttemptFits
  <2>6. ASSUME NEW w \in Workers PROVE Balanced(i, w)
    <3>1. ~Holds(i, w)' /\ ~Holds(i, w)
      BY <1>1, <1>2, <1>5, <1>8, <2>4, QueuedFields DEF Holds, AttemptFits
    <3> QED
      BY <1>4, <2>1, <3>1, QuietBalanced DEF Counts
  <2> QED
    BY <1>4, <2>2, <2>3, <2>5, <2>6, LocalStep
<1>9. CASE flow[i] = "done"
  <2>1. stray' = [stray EXCEPT ![v] = @ + 1] /\ UNCHANGED <<flow, queue>>
    BY <1>9 DEF Answer
  <2>2. TypeOK'
    BY <1>1, <1>3, <1>4, <1>5, <2>1 DEF TypeOK, Attempts
  <2>3. \A j \in Workflows \ {i} : Untouched(j)
    BY <1>1, <1>4, <2>1 DEF TypeOK, Untouched
  <2>4. AttemptFits(i)'
    BY <1>1, <1>4, <1>5, <1>9, <2>1, QueuedFields DEF AttemptFits
  <2>5. ASSUME NEW w \in Workers PROVE Balanced(i, w)
    <3>1. attempt[i].op = "create"
      BY <1>1, <1>2, <1>9, QueuedFields DEF AttemptFits
    <3>2. ~Holds(i, w)' /\ (Holds(i, w) <=> w = v)
      BY <1>2, <1>5, <1>9, <2>1, <3>1, QueuedFields DEF Holds
    <3>3. stray'[w] = stray[w] + Unit(w = v)
      BY <1>1, <1>3, <2>1 DEF TypeOK, Unit
    <3> QED
      BY <1>6, <3>2, <3>3 DEF Balanced, Counts, Unit
  <2> QED
    BY <1>4, <2>2, <2>3, <2>4, <2>5, LocalStep
<1> QED
  BY <1>3, <1>7, <1>8, <1>9

\* The answer is lost and the server retries: the slot of a creation becomes a stray one.
LEMMA AnswerLostKeeps ==
    ASSUME IInv, NEW i \in Workflows, AnswerLost(i)
    PROVE  IInv'
<1> DEFINE v == attempt[i].on
           op == attempt[i].op
           q  == Queued(op, attempt[i].ran)
<1>1. AttemptFits(i) /\ TypeOK /\ \A w \in Workers : SlotsCounted(w)
  BY DEF IInv
<1>2. attempt[i].at = "done" /\ flow[i] # "done" /\ faults < MaxFaults
  BY DEF AnswerLost
<1>3. /\ v \in Workers /\ attempt[i].ran \in BOOLEAN /\ attempt[i] \in Attempts
      /\ \/ flow[i] = "creating" /\ op = "create"
         \/ flow[i] = "completing" /\ op = "complete" /\ attempt[i].ran
  BY <1>1, <1>2, QueuedFields DEF AttemptFits, TypeOK, Attempts
<1>4. /\ UNCHANGED <<flow, queue, active, epoch, again>> /\ faults' = faults + 1
      /\ stray' = [stray EXCEPT ![v] = @ + IF op = "create" THEN 1 ELSE 0]
      /\ attempt' = [attempt EXCEPT ![i] = q]
  BY DEF AnswerLost
<1>5. attempt'[i] = q /\ q \in Attempts /\ q # NoAttempt /\ q.op = op /\ q.at = "queued"
      /\ q.on = "none" /\ q.ran = attempt[i].ran
  <2> HIDE DEF op
  <2> QED
    BY <1>1, <1>3, <1>4, QueuedFields DEF TypeOK
<1> HIDE DEF q
<1>6. TypeOK'
  <2>1. attempt' \in [Workflows -> Attempts]
    BY <1>1, <1>4, <1>5 DEF TypeOK, Attempts
  <2>2. stray' \in [Workers -> Nat]
    BY <1>1, <1>3, <1>4 DEF TypeOK
  <2>3. faults' \in 0..MaxFaults
    BY <1>1, <1>2, <1>4, SessionsAssumption DEF TypeOK
  <2> QED
    BY <1>1, <1>4, <2>1, <2>2, <2>3 DEF TypeOK, Attempts
<1>7. \A j \in Workflows \ {i} : Untouched(j)
  BY <1>1, <1>4 DEF TypeOK, Untouched
<1>8. AttemptFits(i)'
  BY <1>1, <1>3, <1>4, <1>5, SessionsAssumption DEF AttemptFits, Here
<1>9. ASSUME NEW w \in Workers PROVE Balanced(i, w)
  <2>1. active[w] \in Nat /\ again[w] \in Nat /\ stray[w] \in Nat
        /\ (Cap > 0 => active[w] <= Cap)
    BY <1>1 DEF TypeOK, SlotsCounted
  <2>2. active'[w] = active[w] /\ again'[w] = again[w]
    BY <1>4
  <2>3. ~Blind(i, w) /\ ~Blind(i, w)'
    BY <1>2, <1>5 DEF Blind
  <2>4. ~Holds(i, w)' /\ (Holds(i, w) <=> w = v /\ op = "create")
    BY <1>2, <1>3, <1>4, <1>5 DEF Holds
  <2>5. stray'[w] = stray[w] + Unit(w = v /\ op = "create")
    BY <1>1, <1>3, <1>4, <2>1 DEF TypeOK, Unit
  <2> QED
    BY <2>1, <2>2, <2>3, <2>4, <2>5 DEF Balanced, Counts, Unit
<1> QED
  BY <1>4, <1>6, <1>7, <1>8, <1>9, LocalStep

-----------------------------------------------------------------------------
(***************************************************************************)
(* A worker comes back.                                                    *)
(***************************************************************************)
\* What a restart of v does to the attempt of workflow i.
LEMMA RestartAttempt ==
    ASSUME IInv, NEW v \in Workers, Restart(v), NEW i \in Workflows
    PROVE  /\ attempt'[i] \in Attempts
           /\ attempt[i].on # v => attempt'[i] = attempt[i]
           /\ attempt[i].on = v =>
                \/ /\ attempt[i].op = "complete" /\ flow[i] = "completing" /\ Here(i, v)
                   /\ attempt'[i] = Queued("complete", FALSE)
                \/ /\ attempt[i].op = "create" /\ flow[i] = "creating"
                   /\ attempt'[i].op = "create" /\ attempt'[i].at = "gone"
                   /\ attempt'[i].on = v
                \/ /\ attempt[i].op = "create" /\ flow[i] = "done"
                   /\ attempt'[i] = NoAttempt
<1>1. AttemptFits(i) /\ TypeOK
  BY DEF IInv
<1>2. attempt[i] \in Attempts
  BY <1>1 DEF TypeOK, Attempts
<1>3. attempt'[i] =
          CASE attempt[i].on # v                               -> attempt[i]
            [] attempt[i].on = v /\ attempt[i].op = "complete" -> Queued("complete", FALSE)
            [] attempt[i].on = v /\ flow[i] = "creating"       -> [attempt[i] EXCEPT !.at = "gone"]
            [] OTHER                                           -> NoAttempt
  BY DEF Restart
<1>4. CASE attempt[i].on # v
  BY <1>2, <1>3, <1>4
<1>5. CASE attempt[i].on = v
  <2>1. attempt[i].at \in {"loaded", "done", "gone"}
    BY <1>1, <1>2, <1>5, QueuedFields, SessionsAssumption DEF AttemptFits, Attempts
  <2>2. attempt[i].op \in {"create", "complete"}
    BY <1>1, <1>2, <2>1, QueuedFields DEF AttemptFits, Attempts
  <2>3. CASE attempt[i].op = "complete"
    <3>1. flow[i] = "completing" /\ Here(i, v)
      BY <1>1, <1>5, <2>1, <2>3, QueuedFields DEF AttemptFits, TypeOK
    <3>2. attempt'[i] = Queued("complete", FALSE)
      BY <1>3, <1>5, <2>3, <3>1
    <3> QED
      BY <1>5, <2>3, <3>1, <3>2, QueuedFields
  <2>4. CASE attempt[i].op = "create" /\ flow[i] = "creating"
    <3>1. attempt'[i] = [attempt[i] EXCEPT !.at = "gone"]
      BY <1>3, <1>5, <2>4
    <3> QED
      BY <1>2, <1>5, <2>4, <3>1 DEF Attempts
  <2>5. CASE attempt[i].op = "create" /\ flow[i] # "creating"
    <3>1. attempt'[i] = NoAttempt
      BY <1>3, <1>5, <2>5
    <3>2. flow[i] = "done"
      BY <1>1, <2>5, QueuedFields DEF AttemptFits, TypeOK
    <3> QED
      BY <1>5, <2>5, <3>1, <3>2, QueuedFields
  <2> QED
    BY <2>2, <2>3, <2>4, <2>5
<1> QED
  BY <1>4, <1>5

\* A restart of v forgets v's slots, and leaves those of the other workers.
LEMMA RestartKeeps ==
    ASSUME IInv, NEW v \in Workers, Restart(v)
    PROVE  IInv'
<1>1. TypeOK /\ \A i \in Workflows : AttemptFits(i)
  BY DEF IInv
<1>2. UNCHANGED <<flow, queue>> /\ faults' = faults + 1 /\ faults < MaxFaults
      /\ epoch' = [epoch EXCEPT ![v] = @ + 1] /\ active' = [active EXCEPT ![v] = 0]
      /\ again' = [again EXCEPT ![v] = 0] /\ stray' = [stray EXCEPT ![v] = 0]
  BY DEF Restart
<1>3. TypeOK'
  <2>1. \A i \in Workflows : attempt'[i] \in Attempts
    BY RestartAttempt
  <2>2. attempt' \in [Workflows -> Attempts]
    BY <2>1 DEF Restart
  <2>3. faults' \in 0..MaxFaults
    BY <1>1, <1>2, SessionsAssumption DEF TypeOK
  <2>4. /\ epoch' \in [Workers -> Nat] /\ active' \in [Workers -> Nat]
        /\ again' \in [Workers -> Nat] /\ stray' \in [Workers -> Nat]
    BY <1>1, <1>2 DEF TypeOK
  <2> QED
    BY <1>1, <1>2, <2>2, <2>3, <2>4 DEF TypeOK, Attempts
<1>4. epoch'[v] = epoch[v] + 1 /\ epoch[v] \in Nat
      /\ \A w \in Workers \ {v} : epoch'[w] = epoch[w] /\ epoch[w] \in Nat
  BY <1>1, <1>2 DEF TypeOK
<1>5. ASSUME NEW i \in Workflows PROVE AttemptFits(i)'
  <2>1. AttemptFits(i) /\ queue[i] \in [on : Workers \cup {"none"}, epoch : Nat]
    BY <1>1 DEF TypeOK
  <2>2. queue'[i].on \in Workers => queue'[i].epoch <= epoch'[queue'[i].on]
    <3>1. CASE queue[i].on = v
      BY <1>2, <1>4, <2>1, <3>1 DEF AttemptFits
    <3>2. CASE queue[i].on # v
      BY <1>2, <1>4, <2>1, <3>2 DEF AttemptFits
    <3> QED
      BY <3>1, <3>2
  <2>3. CASE attempt[i].on # v
    <3>1. attempt'[i] = attempt[i]
      BY <2>3, RestartAttempt
    <3>2. attempt[i].on \in Workers => epoch'[attempt[i].on] = epoch[attempt[i].on]
      BY <1>4, <2>3
    <3> QED
      BY <1>2, <2>1, <2>2, <3>1, <3>2 DEF AttemptFits, Here
  <2>4. CASE attempt[i].on = v
    <3>1. CASE flow[i] = "completing" /\ attempt'[i] = Queued("complete", FALSE)
      BY <1>2, <2>2, <3>1, QueuedFields DEF AttemptFits
    <3>2. CASE /\ flow[i] = "creating" /\ attempt'[i].op = "create"
               /\ attempt'[i].at = "gone" /\ attempt'[i].on = v
      BY <1>2, <2>2, <3>2 DEF AttemptFits
    <3>3. CASE flow[i] = "done" /\ attempt'[i] = NoAttempt
      BY <1>2, <2>2, <3>3, QueuedFields DEF AttemptFits
    <3> QED
      BY <2>4, <3>1, <3>2, <3>3, RestartAttempt
  <2> QED
    BY <2>3, <2>4
<1>6. SlotsCounted(v)'
  <2>1. ASSUME NEW i \in Workflows PROVE ~Holds(i, v)'
    <3>1. ~Here(i, v)'
      <4>1. SUFFICES ASSUME queue[i] = [on |-> v, epoch |-> epoch[v] + 1] PROVE FALSE
        BY <1>2, <1>4 DEF Here
      <4>2. queue[i].on = v /\ queue[i].epoch = epoch[v] + 1
        BY <4>1
      <4>3. queue[i].epoch <= epoch[v]
        BY <1>1, <4>2 DEF AttemptFits
      <4> QED
        BY <1>4, <4>2, <4>3
    <3>2. ~(attempt'[i].op = "create" /\ attempt'[i].at = "done" /\ attempt'[i].on = v)
      <4>1. CASE attempt[i].on # v
        BY <4>1, RestartAttempt
      <4>2. CASE attempt[i].on = v
        BY <4>2, RestartAttempt, QueuedFields
      <4> QED
        BY <4>1, <4>2
    <3> QED
      BY <3>1, <3>2 DEF Holds
  <2>2. Holding(v)' = {} /\ Counted(v)' = {}
    BY <2>1 DEF Holding, Counted
  <2>3. active'[v] = 0 /\ again'[v] = 0 /\ stray'[v] = 0
    BY <1>1, <1>2 DEF TypeOK
  <2> QED
    BY <2>2, <2>3, FS_EmptySet, SessionsAssumption DEF SlotsCounted
<1>7. ASSUME NEW w \in Workers \ {v} PROVE SlotsCounted(w)'
  <2>1. ASSUME NEW i \in Workflows
        PROVE  (Holds(i, w)' <=> Holds(i, w)) /\ (Blind(i, w)' <=> Blind(i, w))
    <3>1. CASE attempt[i].on # v
      <4>1. Untouched(i)
        BY <1>2, <3>1, RestartAttempt DEF Untouched
      <4> QED
        BY <1>4, <4>1, UntouchedHolds
    <3>2. CASE attempt[i].on = v
      <4>1. ~Blind(i, w) /\ ~Blind(i, w)'
        BY <3>2, RestartAttempt, QueuedFields DEF Blind
      <4>2. flow[i] # "open"
        BY <3>2, RestartAttempt
      <4>3. flow[i] = "completing" => ~Here(i, w) /\ ~Here(i, w)'
        <5>1. SUFFICES ASSUME flow[i] = "completing" PROVE queue[i].on # w
          BY <1>2 DEF Here
        <5>2. Here(i, v)
          BY <3>2, <5>1, RestartAttempt
        <5> QED
          BY <5>2 DEF Here
      <4>4. ~(attempt'[i].op = "create" /\ attempt'[i].at = "done" /\ attempt'[i].on = w)
        BY <3>2, RestartAttempt, QueuedFields
      <4> QED
        BY <1>2, <3>2, <4>1, <4>2, <4>3, <4>4 DEF Holds
    <3> QED
      BY <3>1, <3>2
  <2>2. Holding(w)' = Holding(w) /\ Counted(w)' = Counted(w)
    BY <2>1 DEF Holding, Counted
  <2>3. active'[w] = active[w] /\ again'[w] = again[w] /\ stray'[w] = stray[w]
    BY <1>1, <1>2 DEF TypeOK
  <2>4. SlotsCounted(w)
    BY DEF IInv
  <2> QED
    BY <2>2, <2>3, <2>4 DEF SlotsCounted
<1> QED
  BY <1>3, <1>5, <1>6, <1>7 DEF IInv

-----------------------------------------------------------------------------
(***************************************************************************)
(* The theorems.                                                           *)
(***************************************************************************)
\* The program starts in a state of the inductive invariant.
LEMMA InitIInv == Init => IInv
<1> SUFFICES ASSUME Init PROVE IInv
  OBVIOUS
<1>1. TypeOK
  BY QueuedFields, SessionsAssumption DEF Init, TypeOK, NoQueue, Attempts
<1>2. \A i \in Workflows : AttemptFits(i)
  BY QueuedFields, SessionsAssumption DEF Init, AttemptFits, NoQueue
<1>3. ASSUME NEW w \in Workers PROVE SlotsCounted(w)
  <2>1. Holding(w) = {} /\ Counted(w) = {}
    BY QueuedFields DEF Init, Holding, Counted, Holds
  <2> QED
    BY <2>1, FS_EmptySet, SessionsAssumption DEF Init, SlotsCounted
<1> QED
  BY <1>1, <1>2, <1>3 DEF IInv

\* Every step keeps the inductive invariant.
LEMMA NextIInv == IInv /\ [Next]_vars => IInv'
<1> SUFFICES ASSUME IInv, [Next]_vars PROVE IInv'
  OBVIOUS
<1>1. ASSUME NEW i \in Workflows,
             \/ CreateSession(i) \/ CreateTimeout(i) \/ CompleteSession(i) \/ Quit(i)
             \/ Handler(i) \/ AnswerLost(i)
      PROVE  IInv'
  BY <1>1, CreateSessionKeeps, CreateTimeoutKeeps, CompleteSessionKeeps, QuitKeeps, LoadKeeps,
     CreateFullKeeps, ReserveKeeps, ReleaseKeeps, AnswerKeeps, AnswerLostKeeps DEF Handler
<1>2. ASSUME NEW w \in Workers, Restart(w)
      PROVE  IInv'
  BY <1>2, RestartKeeps
<1>3. CASE UNCHANGED vars
  <2>1. UNCHANGED <<flow, queue, attempt, active, epoch, again, stray, faults>>
    BY <1>3 DEF vars
  <2>2. TypeOK'
    BY <2>1 DEF IInv, TypeOK
  <2>3. \A i \in Workflows : AttemptFits(i)'
    BY <2>1 DEF IInv, AttemptFits, Here
  <2>4. ASSUME NEW w \in Workers PROVE SlotsCounted(w)'
    <3>1. \A i \in Workflows : (Holds(i, w)' <=> Holds(i, w)) /\ (Blind(i, w)' <=> Blind(i, w))
      BY <2>1 DEF Holds, Blind, Here
    <3>2. Holding(w)' = Holding(w) /\ Counted(w)' = Counted(w)
      BY <3>1 DEF Holding, Counted
    <3> QED
      BY <2>1, <3>2 DEF IInv, SlotsCounted
  <2> QED
    BY <2>2, <2>3, <2>4 DEF IInv
<1> QED
  BY <1>1, <1>2, <1>3 DEF Next

\* The inductive invariant holds in every reachable state.
LEMMA Invariance == Spec => []IInv
  BY InitIInv, NextIInv, PTL DEF Spec

\* Every variable always holds a value of its type; active_sessions_ never wraps below
\* zero, whatever completions are run twice.
THEOREM TypeCorrect == Spec => []TypeOK
<1>1. IInv => TypeOK
  BY DEF IInv
<1> QED
  BY <1>1, Invariance, PTL

\* A worker has no more open sessions than max_concurrent_sessions, and one more for
\* each completion that was run twice: the creation and completion activities.
THEOREM CapacityHolds == Spec => []SessionsBounded
<1>1. IInv => SessionsBounded
  <2> SUFFICES ASSUME IInv, NEW w \in Workers, Cap > 0
               PROVE  Cardinality(Open(w)) <= Cap + again[w]
    BY DEF SessionsBounded
  <2>1. Open(w) \in SUBSET Holding(w)
    BY DEF Open, Holding, Holds, Here
  <2>2. Cardinality(Open(w)) <= Cardinality(Holding(w)) /\ Cardinality(Open(w)) \in Nat
    BY <2>1, FiniteSlots, FS_Subset, FS_CardinalityType
  <2>3. SlotsCounted(w) /\ active[w] \in Nat /\ again[w] \in Nat /\ stray[w] \in Nat
    BY DEF IInv, TypeOK
  <2> QED
    BY <2>2, <2>3, FiniteSlots, SessionsAssumption DEF SlotsCounted
<1> QED
  BY <1>1, Invariance, PTL

\* When every workflow is through, a worker counts stray slots only: every slot a
\* completion could give back was given back.
THEOREM SlotsComeBack == Spec => []SlotsReturn
<1>1. IInv => SlotsReturn
  <2> SUFFICES ASSUME IInv, \A i \in Workflows : flow[i] = "done" /\ attempt[i] = NoAttempt,
                      NEW w \in Workers
               PROVE  active[w] <= stray[w]
    BY DEF SlotsReturn
  <2>1. Counted(w) = {}
    BY QueuedFields DEF Counted, Holds
  <2>2. SlotsCounted(w) /\ active[w] \in Nat /\ stray[w] \in Nat
    BY DEF IInv, TypeOK
  <2> QED
    BY <2>1, <2>2, FS_EmptySet DEF SlotsCounted
<1> QED
  BY <1>1, Invariance, PTL
=============================================================================
