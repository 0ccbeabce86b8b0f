------------------------ MODULE WorkflowClientProof ------------------------
(***************************************************************************)
(* What Result() reports, for any number of clients, runs and updates.     *)
(* The invariant follows the call that is under way: a Result()    *)
(* polls a run to which continue-as-new alone has led, and its handle is   *)
(* with it (CallFits); what such a call left behind stays true, since a    *)
(* run that has closed does not change any more (ResultFits, Onward).      *)
(***************************************************************************)
EXTENDS WorkflowClient, SequenceTheorems, TLAPS

Runs    == [status : Statuses, next : Nat, admitted : SUBSET (Clients \X Nat),
            applied : SUBSET (Clients \X Nat)]
CallSet == [op : {"none", "result", "update"}, on : Nat, id : Nat, first : Nat, unsure : BOOLEAN]
Results == [kind : {"none", "value", "failure", "error", "ok"}, run : Nat, id : Nat, first : Nat,
            unsure : BOOLEAN]

-----------------------------------------------------------------------------
(***************************************************************************)
(* The invariant.                                                          *)
(***************************************************************************)
\* A run that continued as new has the next one for its successor.
RunsFit ==
    \A i \in 1..Len(runs) : runs[i].status = "continued" => runs[i].next = i + 1 /\ i < Len(runs)

\* Every run from i up to j, without j, has continued as new.
Chain(i, j) == i <= j /\ \A k \in 1..Len(runs) : i <= k /\ k < j => runs[k].status = "continued"

\* The call of c under way.
CallFits(c) ==
    LET x == call[c]
    IN  /\ x.op # "none" => /\ 1 <= x.on /\ x.on <= Len(runs) /\ handle[c] # NoHandle
                            /\ result[c].kind = "none"
        /\ x.op = "result" => /\ handle[c] = 0 \/ handle[c] = x.on
                              /\ 1 <= x.first
                              /\ x.unsure = FALSE => Chain(x.first, x.on)
        /\ x.op = "update" => x.first = 0

\* What the last call of c left.
ResultFits(c) ==
    LET r == result[c]
    IN  /\ r.kind \in {"value", "failure"} => 1 <= r.run /\ r.run <= Len(runs)
        /\ r.kind = "value" => r.first # 0
        /\ r.kind \in {"value", "failure"} /\ r.first # 0 =>
              /\ handle[c] = 0 \/ handle[c] = r.run
              /\ 1 <= r.first
              /\ r.kind = "value" => runs[r.run].status = "completed"
              /\ r.kind = "failure" => runs[r.run].status = "failed"
              /\ r.unsure = FALSE => Chain(r.first, r.run)

IInv == TypeOK /\ RunsFit /\ \A c \in Clients : CallFits(c) /\ ResultFits(c)

\* What the runs never go back on: none is forgotten, one that has closed stays so.
Onward ==
    /\ runs' \in Seq(Runs) /\ Len(runs) <= Len(runs') /\ RunsFit'
    /\ \A i \in 1..Len(runs) : runs[i].status # "running" => runs'[i].status = runs[i].status

\* The types of the variables at client c.
LEMMA TypeFacts ==
    ASSUME TypeOK, NEW c \in Clients
    PROVE  /\ runs \in Seq(Runs) /\ Len(runs) \in Nat
           /\ \A i \in 1..Len(runs) : runs[i] \in Runs
           /\ handle[c] \in Int /\ handle[c] >= -1 /\ handle[c] <= Len(runs)
           /\ call[c] \in CallSet /\ result[c] \in Results /\ calls[c] \in 0..MaxCalls
<1>1. runs \in Seq(Runs) /\ call[c] \in CallSet /\ result[c] \in Results /\ calls[c] \in 0..MaxCalls
      /\ handle[c] \in NoHandle..Len(runs)
  BY DEF TypeOK, Runs, CallSet, Results
<1>2. Len(runs) \in Nat
  BY <1>1, LenProperties
<1>3. \A i \in 1..Len(runs) : runs[i] \in Runs
  BY <1>1, ElementOfSeq
<1> QED
  BY <1>1, <1>2, <1>3 DEF NoHandle

-----------------------------------------------------------------------------
(***************************************************************************)
(* The runs go onward.                                                     *)
(***************************************************************************)
\* The runs of a state are of their type.
LEMMA RunsFacts ==
    ASSUME TypeOK
    PROVE  /\ runs \in Seq(Runs) /\ Len(runs) \in Nat
           /\ \A i \in 1..Len(runs) : runs[i] \in Runs
<1>1. runs \in Seq(Runs)
  BY DEF TypeOK, Runs
<1> QED
  BY <1>1, LenProperties, ElementOfSeq

\* They may stay as they are.
LEMMA RunsStay ==
    ASSUME TypeOK, RunsFit, UNCHANGED runs
    PROVE  Onward
BY RunsFacts DEF Onward, RunsFit

\* A run is replaced by one it may become, and no other changes.
LEMMA RunReplaced ==
    ASSUME TypeOK, RunsFit, NEW k \in 1..Len(runs), NEW e \in Runs,
           runs[k].status # "running" => e.status = runs[k].status /\ e.next = runs[k].next,
           e.status = "continued" => runs[k].status = "continued",
           runs' = [runs EXCEPT ![k] = e]
    PROVE  Onward /\ Len(runs') = Len(runs)
<1>1. runs \in Seq(Runs) /\ Len(runs) \in Nat
  BY RunsFacts
<1>2. /\ runs' \in Seq(Runs) /\ Len(runs') = Len(runs)
      /\ \A j \in 1..Len(runs) : runs'[j] = IF j = k THEN e ELSE runs[j]
  BY <1>1, ExceptSeq
<1>3. RunsFit'
  BY <1>1, <1>2 DEF RunsFit
<1> QED
  BY <1>1, <1>2, <1>3 DEF Onward

\* A new run is running, and is of its type.
LEMMA NewRunFacts == NewRun \in Runs /\ NewRun.status = "running"
BY DEF NewRun, Runs, Statuses

\* A run is added.
LEMMA RunAdded ==
    ASSUME TypeOK, RunsFit, runs' = Append(runs, NewRun)
    PROVE  Onward /\ Len(runs') = Len(runs) + 1
<1>1. runs \in Seq(Runs) /\ Len(runs) \in Nat
  BY RunsFacts
<1>2. /\ runs' \in Seq(Runs) /\ Len(runs') = Len(runs) + 1
      /\ \A i \in 1..Len(runs) : runs'[i] = runs[i]
      /\ runs'[Len(runs) + 1] = NewRun
  BY <1>1, NewRunFacts, AppendProperties
<1>3. RunsFit'
  <2> SUFFICES ASSUME NEW i \in 1..Len(runs'), runs'[i].status = "continued"
               PROVE  runs'[i].next = i + 1 /\ i < Len(runs')
    BY DEF RunsFit
  <2>1. i \in 1..Len(runs)
    <3>1. i # Len(runs) + 1
      BY <1>2, NewRunFacts
    <3> QED
      BY <1>1, <1>2, <3>1
  <2> QED
    BY <1>1, <1>2, <2>1 DEF RunsFit
<1> QED
  BY <1>1, <1>2, <1>3 DEF Onward

\* The latest run is replaced and another one added.
LEMMA RunSucceeded ==
    ASSUME TypeOK, RunsFit, Open, NEW e \in Runs,
           e.status = "continued" => e.next = Latest + 1,
           runs' = Append([runs EXCEPT ![Latest] = e], NewRun)
    PROVE  Onward /\ Len(runs') = Len(runs) + 1
<1> DEFINE q == [runs EXCEPT ![Latest] = e]
<1>1. runs \in Seq(Runs) /\ Len(runs) \in Nat /\ Latest \in 1..Len(runs) /\ runs[Latest].status = "running"
  BY RunsFacts DEF Open, Latest
<1>2. /\ q \in Seq(Runs) /\ Len(q) = Len(runs)
      /\ \A j \in 1..Len(runs) : q[j] = IF j = Latest THEN e ELSE runs[j]
  BY <1>1, ExceptSeq
<1> HIDE DEF q
<1>3. /\ runs' \in Seq(Runs) /\ Len(runs') = Len(runs) + 1
      /\ \A i \in 1..Len(runs) : runs'[i] = q[i]
      /\ runs'[Len(runs) + 1] = NewRun
  <2>1. runs' = Append(q, NewRun)
    BY DEF q
  <2>2. /\ Append(q, NewRun) \in Seq(Runs) /\ Len(Append(q, NewRun)) = Len(q) + 1
        /\ \A i \in 1..Len(q) : Append(q, NewRun)[i] = q[i]
        /\ Append(q, NewRun)[Len(q) + 1] = NewRun
    BY <1>2, NewRunFacts, AppendProperties
  <2> QED
    BY <1>2, <2>1, <2>2
<1>4. RunsFit'
  <2> SUFFICES ASSUME NEW i \in 1..Len(runs'), runs'[i].status = "continued"
               PROVE  runs'[i].next = i + 1 /\ i < Len(runs')
    BY DEF RunsFit
  <2>1. i \in 1..Len(runs)
    <3>1. i # Len(runs) + 1
      BY <1>3, NewRunFacts
    <3> QED
      BY <1>1, <1>3, <3>1
  <2>2. i < Len(runs')
    BY <1>1, <1>3, <2>1
  <2>3. runs'[i].next = i + 1
    BY <1>1, <1>2, <1>3, <2>1 DEF RunsFit
  <2> QED
    BY <2>2, <2>3
<1> QED
  BY <1>1, <1>2, <1>3, <1>4 DEF Onward

\* A chain that has formed stays.
LEMMA ChainStays ==
    ASSUME TypeOK, Onward, NEW i \in Nat, NEW j \in Nat, 1 <= i, j <= Len(runs), Chain(i, j)
    PROVE  i <= j /\ \A k \in 1..Len(runs') : i <= k /\ k < j => runs'[k].status = "continued"
<1>1. Len(runs) \in Nat
  BY RunsFacts
<1>2. ASSUME NEW k \in 1..Len(runs'), i <= k, k < j
      PROVE  runs'[k].status = "continued"
  <2>1. Len(runs') \in Nat
    BY LenProperties DEF Onward
  <2>2. k \in 1..Len(runs)
    BY <1>1, <1>2, <2>1
  <2>3. runs[k].status = "continued"
    BY <1>2, <2>2 DEF Chain
  <2> QED
    BY <2>2, <2>3 DEF Onward
<1> QED
  BY <1>2 DEF Chain

\* A call under way is as it was, if its client did nothing.
LEMMA CallStays ==
    ASSUME TypeOK, NEW c \in Clients, CallFits(c), Onward, call'[c] = call[c], handle'[c] = handle[c],
           result'[c] = result[c]
    PROVE  CallFits(c)'
<1> DEFINE x == call[c]
<1>1. /\ Len(runs) \in Nat /\ Len(runs') \in Nat /\ Len(runs) <= Len(runs')
      /\ x.on \in Nat /\ x.first \in Nat
  BY TypeFacts, LenProperties DEF Onward, CallSet
<1>2. x.op # "none" => /\ 1 <= x.on /\ x.on <= Len(runs) /\ handle[c] # NoHandle
                       /\ result[c].kind = "none" /\ x.on <= Len(runs')
  BY <1>1 DEF CallFits
<1>3. x.op = "result" /\ x.unsure = FALSE =>
        x.first <= x.on /\ \A k \in 1..Len(runs') : x.first <= k /\ k < x.on => runs'[k].status = "continued"
  <2>1. x.op = "result" /\ x.unsure = FALSE => Chain(x.first, x.on) /\ 1 <= x.first
    BY DEF CallFits
  <2> QED
    BY <1>1, <1>2, <2>1, ChainStays
<1> QED
  BY <1>2, <1>3 DEF CallFits, Chain

\* What a call left is as it was, if its client did nothing.
LEMMA ResultStays ==
    ASSUME TypeOK, NEW c \in Clients, ResultFits(c), Onward, result'[c] = result[c],
           handle'[c] = handle[c] \/ handle[c] = NoHandle
    PROVE  ResultFits(c)'
<1> DEFINE r == result[c]
<1>1. /\ Len(runs) \in Nat /\ Len(runs') \in Nat /\ Len(runs) <= Len(runs')
      /\ r.run \in Nat /\ r.first \in Nat
  BY TypeFacts, LenProperties DEF Onward, Results
<1>2. r.kind \in {"value", "failure"} => 1 <= r.run /\ r.run <= Len(runs) /\ r.run <= Len(runs')
  BY <1>1 DEF ResultFits
<1>3. ASSUME r.kind \in {"value", "failure"} /\ r.first # 0
      PROVE  /\ handle'[c] = 0 \/ handle'[c] = r.run
             /\ 1 <= r.first
             /\ r.kind = "value" => runs'[r.run].status = "completed"
             /\ r.kind = "failure" => runs'[r.run].status = "failed"
  <2>1. /\ handle[c] = 0 \/ handle[c] = r.run
        /\ 1 <= r.first
        /\ r.kind = "value" => runs[r.run].status = "completed"
        /\ r.kind = "failure" => runs[r.run].status = "failed"
    BY <1>3 DEF ResultFits
  <2>2. handle'[c] = handle[c]
    BY <1>1, <1>2, <1>3, <2>1 DEF NoHandle
  <2>3. r.run \in 1..Len(runs)
    BY <1>1, <1>2, <1>3
  <2> QED
    BY <2>1, <2>2, <2>3 DEF Onward
<1>4. r.kind \in {"value", "failure"} /\ r.first # 0 /\ r.unsure = FALSE =>
        r.first <= r.run /\ \A k \in 1..Len(runs') : r.first <= k /\ k < r.run => runs'[k].status = "continued"
  <2>1. r.kind \in {"value", "failure"} /\ r.first # 0 /\ r.unsure = FALSE => Chain(r.first, r.run) /\ 1 <= r.first
    BY DEF ResultFits
  <2> QED
    BY <1>1, <1>2, <2>1, ChainStays
<1>5. r.kind = "value" => r.first # 0
  BY DEF ResultFits
<1> QED
  BY <1>2, <1>3, <1>4, <1>5 DEF ResultFits, Chain

-----------------------------------------------------------------------------
(***************************************************************************)
(* The steps.                                                              *)
(***************************************************************************)
\* A step of client c, which leaves the other clients alone.
LEMMA ClientStep ==
    ASSUME IInv, Onward, NEW c \in Clients, NEW h, NEW x, NEW r,
           \/ UNCHANGED handle
           \/ handle' = [handle EXCEPT ![c] = h] /\ h \in NoHandle..Len(runs'),
           \/ UNCHANGED call
           \/ call' = [call EXCEPT ![c] = x] /\ x \in CallSet,
           \/ UNCHANGED result
           \/ result' = [result EXCEPT ![c] = r] /\ r \in Results,
           calls' \in [Clients -> 0..MaxCalls],
           CallFits(c)', ResultFits(c)'
    PROVE  IInv'
<1>1. TypeOK /\ RunsFit /\ \A b \in Clients : CallFits(b) /\ ResultFits(b)
  BY DEF IInv
<1>2. /\ handle \in [Clients -> NoHandle..Len(runs)]
      /\ call \in [Clients -> CallSet] /\ result \in [Clients -> Results]
  BY <1>1 DEF TypeOK, CallSet, Results
<1>3. ASSUME NEW b \in Clients \ {c}
      PROVE  CallFits(b)' /\ ResultFits(b)'
  <2>1. call'[b] = call[b] /\ handle'[b] = handle[b] /\ result'[b] = result[b]
    BY <1>2
  <2> QED
    BY <1>1, <2>1, CallStays, ResultStays
<1>4. runs' \in Seq(Runs) /\ Len(runs) \in Nat /\ Len(runs') \in Nat /\ Len(runs) <= Len(runs') /\ RunsFit'
  BY <1>1, RunsFacts, LenProperties DEF Onward
<1>5. NoHandle..Len(runs) \subseteq NoHandle..Len(runs')
  BY <1>4 DEF NoHandle
<1>6. handle' \in [Clients -> NoHandle..Len(runs')]
  BY <1>2, <1>5
<1>7. call' \in [Clients -> CallSet] /\ result' \in [Clients -> Results]
  BY <1>2
<1>8. TypeOK'
  BY <1>4, <1>6, <1>7 DEF TypeOK, Runs, CallSet, Results
<1> QED
  BY <1>3, <1>4, <1>8 DEF IInv

\* A step of the server or of another client's request: only runs change.
LEMMA RunsStep ==
    ASSUME IInv, Onward, UNCHANGED <<handle, call, result>>, calls' \in [Clients -> 0..MaxCalls]
    PROVE  IInv'
<1>1. TypeOK /\ RunsFit /\ \A b \in Clients : CallFits(b) /\ ResultFits(b)
  BY DEF IInv
<1>2. \A b \in Clients : CallFits(b)' /\ ResultFits(b)'
  BY <1>1, CallStays, ResultStays
<1>3. runs' \in Seq(Runs) /\ Len(runs) \in Nat /\ Len(runs') \in Nat /\ Len(runs) <= Len(runs') /\ RunsFit'
  BY <1>1, RunsFacts, LenProperties DEF Onward
<1>4. NoHandle..Len(runs) \subseteq NoHandle..Len(runs')
  BY <1>3 DEF NoHandle
<1>5. handle' \in [Clients -> NoHandle..Len(runs')]
  BY <1>1, <1>4 DEF TypeOK
<1>6. TypeOK'
  BY <1>1, <1>3, <1>5 DEF TypeOK, Runs
<1> QED
  BY <1>2, <1>3, <1>6 DEF IInv

\* A run that is open ends without a successor.
LEMMA RunEnds ==
    ASSUME TypeOK, RunsFit, NEW k \in 1..Len(runs), runs[k].status = "running",
           NEW s \in {"completed", "failed"}, runs' = [runs EXCEPT ![k].status = s]
    PROVE  Onward
<1> DEFINE e == [runs[k] EXCEPT !.status = s]
<1>1. runs[k] \in Runs /\ runs \in Seq(Runs)
  BY RunsFacts
<1>2. e \in Runs /\ e.status = s
  BY <1>1 DEF Runs, Statuses
<1>3. runs' = [runs EXCEPT ![k] = e]
  OBVIOUS
<1> HIDE DEF e
<1> QED
  BY <1>2, <1>3, RunReplaced

\* The number of the latest run is a place in runs.
LEMMA OpenFacts ==
    ASSUME TypeOK, Open
    PROVE  Latest \in 1..Len(runs) /\ runs[Latest].status = "running" /\ runs[Latest] \in Runs
BY RunsFacts DEF Open, Latest

\* A call is counted.
LEMMA BeginFacts ==
    ASSUME TypeOK, NEW c \in Clients, Begin(c)
    PROVE  calls' \in [Clients -> 0..MaxCalls] /\ call[c].op = "none"
BY ClientAssumption DEF TypeOK, Begin

\* Close keeps the invariant.
LEMMA CloseStep ==
    ASSUME IInv, Close
    PROVE  IInv'
<1>1. TypeOK /\ RunsFit /\ calls' \in [Clients -> 0..MaxCalls]
  BY DEF IInv, Close, TypeOK
<1>2. PICK s \in {"completed", "failed"} : runs' = [runs EXCEPT ![Latest].status = s]
  BY DEF Close
<1>3. Onward
  BY <1>1, <1>2, OpenFacts, RunEnds DEF Close
<1> QED
  BY <1>1, <1>3, RunsStep DEF Close

\* Succeed keeps the invariant.
LEMMA SucceedStep ==
    ASSUME IInv, Succeed
    PROVE  IInv'
<1>1. TypeOK /\ RunsFit /\ calls' \in [Clients -> 0..MaxCalls] /\ Open
  BY DEF IInv, Succeed, TypeOK
<1>2. PICK s \in {"continued", "failed"} :
         runs' = Append([runs EXCEPT ![Latest].status = s, ![Latest].next = Latest + 1], NewRun)
  BY DEF Succeed
<1> DEFINE e == [runs[Latest] EXCEPT !.status = s, !.next = Latest + 1]
<1>3. Latest \in 1..Len(runs) /\ runs[Latest] \in Runs /\ runs \in Seq(Runs) /\ Latest + 1 \in Nat
  BY <1>1, OpenFacts, RunsFacts
<1>4. e \in Runs /\ e.status = s /\ e.next = Latest + 1
  BY <1>3 DEF Runs, Statuses
<1>5. [runs EXCEPT ![Latest].status = s, ![Latest].next = Latest + 1] = [runs EXCEPT ![Latest] = e]
  BY <1>3
<1> HIDE DEF e
<1>6. Onward
  BY <1>1, <1>2, <1>4, <1>5, RunSucceeded
<1> QED
  BY <1>1, <1>6, RunsStep DEF Succeed

\* ResetWorkflow keeps the invariant.
LEMMA ResetWorkflowStep ==
    ASSUME IInv, NEW c \in Clients, ResetWorkflow(c)
    PROVE  IInv'
<1>1. TypeOK /\ RunsFit
  BY DEF IInv
<1>2. calls' \in [Clients -> 0..MaxCalls]
  BY <1>1, BeginFacts DEF ResetWorkflow
<1>3. CASE Open
  <2> DEFINE e == [runs[Latest] EXCEPT !.status = "failed"]
  <2>1. Latest \in 1..Len(runs) /\ runs[Latest] \in Runs
    BY <1>1, <1>3, OpenFacts
  <2>2. e \in Runs /\ e.status = "failed"
    BY <2>1 DEF Runs, Statuses
  <2>3. runs' = Append([runs EXCEPT ![Latest] = e], NewRun)
    BY <1>3 DEF ResetWorkflow
  <2> HIDE DEF e
  <2>4. Onward
    BY <1>1, <1>3, <2>2, <2>3, RunSucceeded
  <2> QED
    BY <1>2, <2>4, RunsStep DEF ResetWorkflow
<1>4. CASE ~Open
  <2>1. Onward
    BY <1>1, <1>4, RunAdded DEF ResetWorkflow
  <2> QED
    BY <1>2, <2>1, RunsStep DEF ResetWorkflow
<1> QED
  BY <1>3, <1>4

\* The run a handle stands for is a place in runs.
LEMMA TargetFacts ==
    ASSUME TypeOK, NEW c \in Clients, handle[c] # NoHandle, Target(c) # 0
    PROVE  Target(c) \in 1..Len(runs) /\ Target(c) \in Nat
BY TypeFacts DEF Target, Latest, NoHandle

\* Terminate keeps the invariant.
LEMMA TerminateStep ==
    ASSUME IInv, NEW c \in Clients, Terminate(c)
    PROVE  IInv'
<1>1. TypeOK /\ RunsFit
  BY DEF IInv
<1>2. calls' \in [Clients -> 0..MaxCalls]
  BY <1>1, BeginFacts DEF Terminate
<1>3. Target(c) \in 1..Len(runs) /\ runs[Target(c)].status = "running"
  BY <1>1, TargetFacts DEF Terminate, Reaches
<1>4. Onward
  BY <1>1, <1>3, RunEnds DEF Terminate
<1> QED
  BY <1>2, <1>4, RunsStep DEF Terminate

\* A client gets a handle, or tries to.
LEMMA GotHandle ==
    ASSUME IInv, Onward, NEW c \in Clients, Begin(c), handle[c] = NoHandle, NEW h,
           \/ UNCHANGED handle
           \/ handle' = [handle EXCEPT ![c] = h] /\ h \in NoHandle..Len(runs'),
           UNCHANGED <<call, result>>
    PROVE  IInv'
<1>1. TypeOK /\ ResultFits(c)
  BY DEF IInv
<1>2. call[c].op = "none" /\ calls' \in [Clients -> 0..MaxCalls]
  BY <1>1, BeginFacts
<1>3. CallFits(c)'
  BY <1>2 DEF CallFits
<1>4. ResultFits(c)'
  BY <1>1, ResultStays
<1> QED
  BY <1>2, <1>3, <1>4, ClientStep

\* StartWorkflow keeps the invariant.
LEMMA StartWorkflowStep ==
    ASSUME IInv, NEW c \in Clients, StartWorkflow(c)
    PROVE  IInv'
<1>1. TypeOK /\ RunsFit /\ Begin(c) /\ handle[c] = NoHandle /\ UNCHANGED <<call, result>>
  BY DEF IInv, StartWorkflow
<1>2. CASE UNCHANGED <<runs, handle>>
  <2>1. Onward
    BY <1>1, <1>2, RunsStay
  <2> QED
    BY <1>1, <1>2, <2>1, GotHandle
<1>3. CASE /\ runs' = Append(runs, NewRun)
           /\ \E id \in {Latest + 1, NoHandle} : handle' = [handle EXCEPT ![c] = id]
  <2>1. Onward /\ Len(runs') = Len(runs) + 1
    BY <1>1, <1>3, RunAdded
  <2>2. PICK id \in {Latest + 1, NoHandle} : handle' = [handle EXCEPT ![c] = id]
    BY <1>3
  <2>3. id \in NoHandle..Len(runs')
    BY <1>1, <2>1, RunsFacts DEF Latest, NoHandle
  <2> QED
    BY <1>1, <2>1, <2>2, <2>3, GotHandle
<1> QED
  BY <1>2, <1>3 DEF StartWorkflow

\* SignalWithStart keeps the invariant.
LEMMA SignalWithStartStep ==
    ASSUME IInv, NEW c \in Clients, SignalWithStart(c)
    PROVE  IInv'
<1>1. TypeOK /\ RunsFit /\ Begin(c) /\ handle[c] = NoHandle /\ UNCHANGED <<call, result>>
  BY DEF IInv, SignalWithStart
<1>2. Onward
  BY <1>1, RunsStay, RunAdded DEF SignalWithStart
<1>3. PICK id \in {Len(runs'), NoHandle} : handle' = [handle EXCEPT ![c] = id]
  BY DEF SignalWithStart
<1>4. id \in NoHandle..Len(runs')
  BY <1>2, LenProperties DEF NoHandle, Onward
<1> QED
  BY <1>1, <1>2, <1>3, <1>4, GotHandle

\* GetHandle keeps the invariant.
LEMMA GetHandleStep ==
    ASSUME IInv, NEW c \in Clients, GetHandle(c)
    PROVE  IInv'
<1>1. TypeOK /\ RunsFit /\ Begin(c) /\ handle[c] = NoHandle /\ UNCHANGED <<runs, call, result>>
  BY DEF IInv, GetHandle
<1>2. Onward
  BY <1>1, RunsStay
<1>3. PICK id \in 0..Latest : handle' = [handle EXCEPT ![c] = id]
  BY DEF GetHandle
<1>4. id \in NoHandle..Len(runs')
  BY <1>1, <1>3, RunsFacts DEF NoHandle, Latest
<1> QED
  BY <1>1, <1>2, <1>3, <1>4, GotHandle

\* No call and no result are of their types.
LEMMA IdleFacts ==
    /\ Idle \in CallSet /\ Idle.op = "none"
    /\ NoResult \in Results /\ NoResult.kind = "none"
BY DEF Idle, CallSet, NoResult, Results

\* A call ends, and leaves what it found.
LEMMA EndStep ==
    ASSUME IInv, NEW c \in Clients, NEW r \in Results,
           call' = [call EXCEPT ![c] = Idle], result' = [result EXCEPT ![c] = r],
           UNCHANGED <<runs, handle, calls>>, ResultFits(c)'
    PROVE  IInv'
<1>1. TypeOK /\ RunsFit
  BY DEF IInv
<1>2. Onward
  BY <1>1, RunsStay
<1>3. CallFits(c)'
  <2>1. call'[c] = Idle
    BY <1>1 DEF TypeOK
  <2> QED
    BY <2>1, IdleFacts DEF CallFits
<1>4. calls' \in [Clients -> 0..MaxCalls]
  BY <1>1 DEF TypeOK
<1> QED
  BY <1>2, <1>3, <1>4, IdleFacts, ClientStep

\* What a call leaves by End.
LEMMA EndFacts ==
    ASSUME TypeOK, NEW c \in Clients, NEW kind \in {"value", "failure", "error", "ok"}, End(c, kind)
    PROVE  LET r == [kind |-> kind, run |-> call[c].on, id |-> call[c].id, first |-> call[c].first,
                     unsure |-> call[c].unsure]
           IN  /\ r \in Results
               /\ call' = [call EXCEPT ![c] = Idle] /\ result' = [result EXCEPT ![c] = r]
               /\ UNCHANGED <<runs, handle, calls>>
               /\ result'[c].kind = kind /\ result'[c].run = call[c].on
               /\ result'[c].first = call[c].first /\ result'[c].unsure = call[c].unsure
<1> DEFINE r == [kind |-> kind, run |-> call[c].on, id |-> call[c].id, first |-> call[c].first,
                 unsure |-> call[c].unsure]
<1>1. call[c] \in CallSet
  BY TypeFacts
<1>2. r \in Results
  BY <1>1 DEF Results, CallSet
<1>3. result'[c] = r
  BY DEF End, TypeOK
<1> QED
  BY <1>2, <1>3 DEF End

\* PollCompleted and PollFailed keep the invariant: the chain has come to its end.
LEMMA PollEndsStep ==
    ASSUME IInv, NEW c \in Clients, PollCompleted(c) \/ PollFailed(c)
    PROVE  IInv'
<1> DEFINE x == call[c]
<1>1. TypeOK /\ CallFits(c) /\ x.op = "result"
  BY DEF IInv, PollCompleted, PollFailed
<1>2. PICK kind \in {"value", "failure"} :
         /\ End(c, kind)
         /\ kind = "value" => runs[x.on].status = "completed"
         /\ kind = "failure" => runs[x.on].status = "failed"
  BY DEF PollCompleted, PollFailed, Status
<1> DEFINE r == [kind |-> kind, run |-> x.on, id |-> x.id, first |-> x.first, unsure |-> x.unsure]
<1>3. /\ r \in Results
      /\ call' = [call EXCEPT ![c] = Idle] /\ result' = [result EXCEPT ![c] = r]
      /\ UNCHANGED <<runs, handle, calls>>
      /\ result'[c].kind = kind /\ result'[c].run = x.on
      /\ result'[c].first = x.first /\ result'[c].unsure = x.unsure
  BY <1>1, <1>2, EndFacts
<1>4. /\ 1 <= x.on /\ x.on <= Len(runs) /\ 1 <= x.first
      /\ handle[c] = 0 \/ handle[c] = x.on
      /\ x.unsure = FALSE => Chain(x.first, x.on)
  BY <1>1 DEF CallFits
<1>5. x.first # 0
  BY <1>1, <1>4, TypeFacts DEF CallSet
<1>6. ResultFits(c)'
  BY <1>2, <1>3, <1>4, <1>5 DEF ResultFits, Chain
<1> HIDE DEF r
<1> QED
  BY <1>3, <1>6, EndStep

\* CallThrows keeps the invariant.
LEMMA CallThrowsStep ==
    ASSUME IInv, NEW c \in Clients, CallThrows(c)
    PROVE  IInv'
<1> DEFINE r == [kind |-> "error", run |-> call[c].on, id |-> call[c].id, first |-> call[c].first,
                 unsure |-> call[c].unsure]
<1>1. TypeOK /\ End(c, "error")
  BY DEF IInv, CallThrows
<1>2. /\ r \in Results
      /\ call' = [call EXCEPT ![c] = Idle] /\ result' = [result EXCEPT ![c] = r]
      /\ UNCHANGED <<runs, handle, calls>> /\ result'[c].kind = "error"
  BY <1>1, EndFacts
<1>3. ResultFits(c)'
  BY <1>2 DEF ResultFits
<1> HIDE DEF r
<1> QED
  BY <1>2, <1>3, EndStep

\* The answer of an update keeps the invariant.
LEMMA UpdateEndsStep ==
    ASSUME IInv, NEW c \in Clients, UpdateReturns(c) \/ UpdateRefused(c) \/ UpdateUnfinished(c)
    PROVE  IInv'
<1> DEFINE x == call[c]
<1>1. TypeOK /\ CallFits(c)
  BY DEF IInv
<1>2. PICK kind \in {"ok", "failure", "error"} : End(c, kind) /\ x.op = "update"
  BY DEF UpdateReturns, UpdateRefused, UpdateUnfinished, Updating
<1> DEFINE r == [kind |-> kind, run |-> x.on, id |-> x.id, first |-> x.first, unsure |-> x.unsure]
<1>3. /\ r \in Results
      /\ call' = [call EXCEPT ![c] = Idle] /\ result' = [result EXCEPT ![c] = r]
      /\ UNCHANGED <<runs, handle, calls>>
      /\ result'[c].kind = kind /\ result'[c].run = x.on
      /\ result'[c].first = x.first /\ result'[c].unsure = x.unsure
  BY <1>1, <1>2, EndFacts
<1>4. 1 <= x.on /\ x.on <= Len(runs) /\ x.first = 0
  BY <1>1, <1>2 DEF CallFits
<1>5. ResultFits(c)'
  BY <1>2, <1>3, <1>4 DEF ResultFits
<1> HIDE DEF r
<1> QED
  BY <1>3, <1>5, EndStep

\* A call is made of the run its handle stands for.
LEMMA CallMade ==
    ASSUME IInv, Onward, NEW c \in Clients, Begin(c), NEW x \in CallSet, handle[c] # NoHandle,
           x.on = Target(c), Target(c) # 0,
           \/ x.op = "result" /\ x.first = x.on
           \/ x.op = "update" /\ x.first = 0,
           call' = [call EXCEPT ![c] = x], result' = [result EXCEPT ![c] = NoResult],
           UNCHANGED handle
    PROVE  IInv'
<1>1. TypeOK /\ RunsFit
  BY DEF IInv
<1>2. Len(runs') \in Nat /\ Len(runs) <= Len(runs')
  BY LenProperties DEF Onward
<1>3. calls' \in [Clients -> 0..MaxCalls]
  BY <1>1, BeginFacts
<1>4. call'[c] = x /\ result'[c] = NoResult
  BY <1>1 DEF TypeOK
<1>5. Target(c) \in 1..Len(runs) /\ Len(runs) \in Nat
  BY <1>1, TargetFacts, RunsFacts
<1>6. handle[c] = 0 \/ handle[c] = Target(c)
  BY DEF Target
<1>7. CallFits(c)'
  <2>1. 1 <= x.on /\ x.on <= Len(runs') /\ x.on \in Nat
    BY <1>2, <1>5
  <2>2. x.op = "result" =>
          /\ x.first <= x.on
          /\ \A k \in 1..Len(runs') : x.first <= k /\ k < x.on => runs'[k].status = "continued"
    BY <1>2, <2>1
  <2>3. x.op = "result" => 1 <= x.first
    BY <2>1
  <2> QED
    BY <1>4, <1>6, <2>1, <2>2, <2>3, IdleFacts DEF CallFits, Chain
<1>8. ResultFits(c)'
  BY <1>4, IdleFacts DEF ResultFits
<1> QED
  BY <1>3, <1>7, <1>8, IdleFacts, ClientStep

\* Result keeps the invariant.
LEMMA ResultStep ==
    ASSUME IInv, NEW c \in Clients, Result(c)
    PROVE  IInv'
<1> DEFINE x == [Idle EXCEPT !.op = "result", !.on = Target(c), !.first = Target(c)]
<1>1. Target(c) \in Nat
  BY TargetFacts DEF Result, IInv
<1>2. x \in CallSet /\ x.op = "result" /\ x.on = Target(c) /\ x.first = x.on
  BY <1>1 DEF CallSet, Idle
<1>3. call' = [call EXCEPT ![c] = x] /\ Onward
  BY RunsStay DEF Result, IInv
<1> HIDE DEF x
<1> QED
  BY <1>2, <1>3, CallMade DEF Result

\* An update changes the run it is about, not its status.
LEMMA RunUpdated ==
    ASSUME TypeOK, RunsFit, NEW k \in 1..Len(runs), NEW a \in SUBSET (Clients \X Nat),
           NEW b \in SUBSET (Clients \X Nat),
           runs' = [runs EXCEPT ![k] = [runs[k] EXCEPT !.admitted = a, !.applied = b]]
    PROVE  Onward
<1> DEFINE e == [runs[k] EXCEPT !.admitted = a, !.applied = b]
<1>1. runs[k] \in Runs
  BY RunsFacts
<1>2. e \in Runs /\ e.status = runs[k].status /\ e.next = runs[k].next
  BY <1>1 DEF Runs
<1>3. runs' = [runs EXCEPT ![k] = e]
  OBVIOUS
<1> HIDE DEF e
<1> QED
  BY <1>2, <1>3, RunReplaced

\* Update keeps the invariant.
LEMMA UpdateStep ==
    ASSUME IInv, NEW c \in Clients, Update(c)
    PROVE  IInv'
<1> DEFINE x == [Idle EXCEPT !.op = "update", !.on = Target(c), !.id = calls[c] + 1]
           k == Target(c)
           a == runs[k].admitted \cup {<<c, calls[c] + 1>>}
<1>1. TypeOK /\ RunsFit /\ k \in Nat /\ k \in 1..Len(runs) /\ calls[c] + 1 \in Nat
  BY TargetFacts, TypeFacts, ClientAssumption DEF Update, IInv
<1>2. x \in CallSet /\ x.op = "update" /\ x.on = Target(c) /\ x.first = 0
  BY <1>1 DEF CallSet, Idle
<1>3. call' = [call EXCEPT ![c] = x]
  BY DEF Update
<1> HIDE DEF x
<1>4. Onward
  <2>1. CASE ~Reaches(c)
    BY <1>1, <2>1, RunsStay DEF Update
  <2>2. CASE Reaches(c)
    <3>1. runs[k] \in Runs
      BY <1>1, RunsFacts
    <3>2. a \in SUBSET (Clients \X Nat) /\ runs[k].applied \in SUBSET (Clients \X Nat)
      BY <1>1, <3>1 DEF Runs
    <3>3. [runs[k] EXCEPT !.admitted = a] = [runs[k] EXCEPT !.admitted = a, !.applied = runs[k].applied]
      BY <3>1 DEF Runs
    <3>4. runs' = [runs EXCEPT ![k] = [runs[k] EXCEPT !.admitted = a]]
      BY <2>2 DEF Update
    <3> HIDE DEF a, k
    <3> QED
      BY <1>1, <3>2, <3>3, <3>4, RunUpdated
  <2> QED
    BY <2>1, <2>2
<1> QED
  BY <1>2, <1>3, <1>4, CallMade DEF Update

\* PollEmpty keeps the invariant: a handle with a run id asks for that run again; one
\* without may come to another, which the call then knows.
LEMMA PollEmptyStep ==
    ASSUME IInv, NEW c \in Clients, PollEmpty(c)
    PROVE  IInv'
<1> DEFINE x == call[c]
           u == x.unsure \/ Target(c) # x.on
           y == [x EXCEPT !.on = Target(c), !.unsure = u]
<1>1. TypeOK /\ RunsFit /\ CallFits(c) /\ ResultFits(c) /\ x.op = "result"
  BY DEF IInv, PollEmpty
<1>2. x \in CallSet /\ x.on \in Nat /\ x.first \in Nat /\ x.unsure \in BOOLEAN /\ Len(runs) \in Nat
  <2>1. x \in CallSet /\ Len(runs) \in Nat
    BY <1>1, TypeFacts
  <2>2. x.unsure \in BOOLEAN
    BY <2>1, Zenon DEF CallSet
  <2> QED
    BY <2>1, <2>2 DEF CallSet
<1>3. /\ 1 <= x.on /\ x.on <= Len(runs) /\ handle[c] # NoHandle /\ result[c].kind = "none"
      /\ handle[c] = 0 \/ handle[c] = x.on
      /\ 1 <= x.first
      /\ x.unsure = FALSE => Chain(x.first, x.on)
  BY <1>1 DEF CallFits
<1>4. /\ Target(c) \in Nat /\ 1 <= Target(c) /\ Target(c) <= Len(runs)
      /\ handle[c] = 0 \/ handle[c] = Target(c)
  BY <1>2, <1>3 DEF Target, Latest
<1>5. u \in BOOLEAN
  OBVIOUS
<1>6. u = FALSE => x.unsure = FALSE /\ Target(c) = x.on
  BY <1>2
<1>7. /\ call' = [call EXCEPT ![c] = y] /\ UNCHANGED <<runs, handle, calls, result>>
  BY <1>1 DEF PollEmpty, TypeOK
<1> HIDE DEF u
<1>8. y \in CallSet /\ y.op = "result" /\ y.on = Target(c) /\ y.first = x.first /\ y.unsure = u
  BY <1>1, <1>2, <1>4, <1>5 DEF CallSet
<1> HIDE DEF y
<1>9. call'[c] = y
  BY <1>1, <1>7 DEF TypeOK
<1>10. CallFits(c)'
  <2>1. u = FALSE => Chain(x.first, Target(c))
    BY <1>3, <1>6
  <2> QED
    BY <1>3, <1>4, <1>7, <1>8, <1>9, <2>1 DEF CallFits, Chain
<1>11. ResultFits(c)'
  BY <1>3, <1>7 DEF ResultFits
<1>12. Onward /\ calls' \in [Clients -> 0..MaxCalls]
  BY <1>1, <1>7, RunsStay DEF TypeOK
<1> QED
  BY <1>7, <1>8, <1>10, <1>11, <1>12, ClientStep

\* PollContinued keeps the invariant: the chain is one longer.
LEMMA PollContinuedStep ==
    ASSUME IInv, NEW c \in Clients, PollContinued(c)
    PROVE  IInv'
<1> DEFINE x == call[c]
           n == runs[x.on].next
           y == [x EXCEPT !.on = n]
<1>1. TypeOK /\ RunsFit /\ CallFits(c) /\ x.op = "result" /\ runs[x.on].status = "continued"
  BY DEF IInv, PollContinued, Status
<1>2. x \in CallSet /\ x.on \in Nat /\ x.first \in Nat /\ Len(runs) \in Nat
  BY <1>1, TypeFacts DEF CallSet
<1>3. /\ 1 <= x.on /\ x.on <= Len(runs) /\ result[c].kind = "none"
      /\ 1 <= x.first
      /\ x.unsure = FALSE => Chain(x.first, x.on)
  BY <1>1 DEF CallFits
<1>4. n = x.on + 1 /\ x.on < Len(runs)
  BY <1>1, <1>2, <1>3 DEF RunsFit
<1>5. /\ call' = [call EXCEPT ![c] = y] /\ handle' = [handle EXCEPT ![c] = n]
      /\ UNCHANGED <<runs, calls, result>>
  BY DEF PollContinued
<1>6. n \in Nat /\ 1 <= n /\ n <= Len(runs) /\ n # NoHandle /\ n \in NoHandle..Len(runs)
  BY <1>2, <1>3, <1>4 DEF NoHandle
<1> HIDE DEF n
<1>7. y \in CallSet /\ y.op = "result" /\ y.on = n /\ y.first = x.first /\ y.unsure = x.unsure
  BY <1>1, <1>2, <1>6 DEF CallSet
<1> HIDE DEF y
<1>8. call'[c] = y /\ handle'[c] = n
  BY <1>1, <1>5 DEF TypeOK
<1>9. x.unsure = FALSE => Chain(x.first, n)
  <2> SUFFICES ASSUME x.unsure = FALSE
               PROVE  x.first <= n /\ \A k \in 1..Len(runs) : x.first <= k /\ k < n => runs[k].status = "continued"
    BY DEF Chain
  <2>1. x.first <= x.on /\ \A k \in 1..Len(runs) : x.first <= k /\ k < x.on => runs[k].status = "continued"
    BY <1>3 DEF Chain
  <2>2. ASSUME NEW k \in 1..Len(runs), x.first <= k, k < n
        PROVE  runs[k].status = "continued"
    <3>1. k = x.on \/ k < x.on
      BY <1>2, <1>4, <2>2
    <3> QED
      BY <1>1, <2>1, <2>2, <3>1
  <2> QED
    BY <1>2, <1>4, <2>1, <2>2
<1>10. CallFits(c)'
  BY <1>3, <1>5, <1>6, <1>7, <1>8, <1>9 DEF CallFits, Chain
<1>11. ResultFits(c)'
  BY <1>3, <1>5 DEF ResultFits
<1>12. Onward /\ calls' \in [Clients -> 0..MaxCalls]
  BY <1>1, <1>5, RunsStay DEF TypeOK
<1> QED
  BY <1>5, <1>6, <1>7, <1>10, <1>11, <1>12, ClientStep

\* UpdateApplied and UpdateFails keep the invariant.
LEMMA UpdateServedStep ==
    ASSUME IInv, NEW k \in 1..Latest, NEW u \in runs[k].admitted, UpdateApplied(k, u) \/ UpdateFails(k, u)
    PROVE  IInv'
<1>1. TypeOK /\ RunsFit /\ calls' \in [Clients -> 0..MaxCalls] /\ k \in 1..Len(runs)
  BY DEF IInv, TypeOK, UpdateApplied, UpdateFails, Latest
<1>2. runs[k] \in Runs
  BY <1>1, RunsFacts
<1> DEFINE a == runs[k].admitted \ {u}
           b == runs[k].applied \cup {u}
<1>3. /\ a \in SUBSET (Clients \X Nat) /\ b \in SUBSET (Clients \X Nat)
      /\ runs[k].applied \in SUBSET (Clients \X Nat)
  BY <1>2 DEF Runs
<1>4. CASE UpdateApplied(k, u)
  <2>1. runs' = [runs EXCEPT ![k] = [runs[k] EXCEPT !.admitted = a, !.applied = b]]
    BY <1>1, <1>2, <1>4 DEF UpdateApplied, Runs
  <2> HIDE DEF a, b
  <2> QED
    BY <1>1, <1>3, <1>4, <2>1, RunUpdated, RunsStep DEF UpdateApplied
<1>5. CASE UpdateFails(k, u)
  <2>1. [runs[k] EXCEPT !.admitted = a] = [runs[k] EXCEPT !.admitted = a, !.applied = runs[k].applied]
    BY <1>2 DEF Runs
  <2>2. runs' = [runs EXCEPT ![k] = [runs[k] EXCEPT !.admitted = a]]
    BY <1>5 DEF UpdateFails
  <2> HIDE DEF a, b
  <2>3. runs' = [runs EXCEPT ![k] = [runs[k] EXCEPT !.admitted = a, !.applied = runs[k].applied]]
    BY <2>1, <2>2
  <2>4. Onward
    BY <1>1, <1>3, <2>3, RunUpdated
  <2> QED
    BY <1>1, <1>5, <2>4, RunsStep DEF UpdateFails
<1> QED
  BY <1>4, <1>5

-----------------------------------------------------------------------------
(***************************************************************************)
(* The theorems.                                                           *)
(***************************************************************************)
\* The invariant holds at the start.
LEMMA InitFits ==
    ASSUME Init
    PROVE  IInv
<1>1. runs = << >> /\ Len(runs) = 0 /\ runs \in Seq(Runs)
  BY EmptySeq DEF Init
<1>2. TypeOK
  <2>1. NoHandle \in NoHandle..Len(runs) /\ 0 \in 0..MaxCalls
    BY <1>1, ClientAssumption DEF NoHandle
  <2>2. call \in [Clients -> CallSet] /\ result \in [Clients -> Results]
    BY IdleFacts DEF Init
  <2> QED
    BY <1>1, <2>1, <2>2 DEF Init, TypeOK, Runs, CallSet, Results
<1>3. RunsFit
  BY <1>1 DEF RunsFit
<1>4. \A c \in Clients : CallFits(c) /\ ResultFits(c)
  BY IdleFacts DEF Init, CallFits, ResultFits
<1> QED
  BY <1>2, <1>3, <1>4 DEF IInv

\* Every step keeps the invariant.
LEMMA NextFits ==
    ASSUME IInv, [Next]_vars
    PROVE  IInv'
<1>1. CASE UNCHANGED vars
  <2>1. TypeOK /\ RunsFit
    BY DEF IInv
  <2>2. Onward /\ calls' \in [Clients -> 0..MaxCalls]
    BY <1>1, <2>1, RunsStay DEF vars, TypeOK
  <2> QED
    BY <1>1, <2>2, RunsStep DEF vars
<1>2. CASE Server
  BY <1>2, CloseStep, SucceedStep, UpdateServedStep DEF Server
<1>3. ASSUME NEW c \in Clients, User(c)
      PROVE  IInv'
  BY <1>3, StartWorkflowStep, SignalWithStartStep, GetHandleStep, ResetWorkflowStep, TerminateStep,
     ResultStep, UpdateStep DEF User
<1>4. ASSUME NEW c \in Clients, Answer(c)
      PROVE  IInv'
  BY <1>4, PollEndsStep, PollContinuedStep, UpdateEndsStep DEF Answer
<1> QED
  BY <1>1, <1>2, <1>3, <1>4, PollEmptyStep, CallThrowsStep DEF Next

\* The invariant holds in every reachable state.
LEMMA Inductive == Spec => []IInv
<1>1. Init => IInv
  BY InitFits
<1>2. IInv /\ [Next]_vars => IInv'
  BY NextFits
<1> QED
  BY <1>1, <1>2, PTL DEF Spec

\* The variables of the clients and of the workflow id's runs have their types.
THEOREM TypeCorrect == Spec => []TypeOK
<1>1. IInv => TypeOK
  BY DEF IInv
<1> QED
  BY <1>1, Inductive, PTL

\* What Result() returns or throws is the end of a run that continue-as-new alone led
\* to, and its handle is with that run, whatever runs are started, reset and
\* terminated meanwhile.
THEOREM ResultFollowsChain == Spec => []FollowsChain
<1>1. IInv => FollowsChain
  <2> SUFFICES ASSUME IInv, NEW c \in Clients, Ended(c)
               PROVE  /\ handle[c] \in {0, result[c].run}
                      /\ runs[result[c].run].status \notin {"running", "continued"}
                      /\ result[c].kind = "value" <=> runs[result[c].run].status = "completed"
                      /\ ~result[c].unsure =>
                            /\ result[c].first <= result[c].run
                            /\ \A i \in result[c].first..(result[c].run - 1) :
                                  runs[i].status = "continued"
    BY DEF FollowsChain
  <2> DEFINE r == result[c]
  <2>1. TypeOK /\ ResultFits(c)
    BY DEF IInv
  <2>2. /\ 1 <= r.run /\ r.run <= Len(runs)
        /\ handle[c] = 0 \/ handle[c] = r.run
        /\ 1 <= r.first
        /\ r.kind \in {"value", "failure"}
        /\ r.kind = "value" => runs[r.run].status = "completed"
        /\ r.kind = "failure" => runs[r.run].status = "failed"
        /\ r.unsure = FALSE => Chain(r.first, r.run)
    BY <2>1 DEF Ended, ResultFits
  <2>3. r \in Results /\ Len(runs) \in Nat
    BY <2>1, TypeFacts
  <2>4. r.unsure \in BOOLEAN
    BY <2>3, Zenon DEF Results
  <2>5. r.run \in Nat /\ r.first \in Nat
    BY <2>3 DEF Results
  <2>6. ASSUME r.unsure = FALSE
        PROVE  r.first <= r.run /\ \A i \in r.first..(r.run - 1) : runs[i].status = "continued"
    <3>1. r.first <= r.run /\ \A k \in 1..Len(runs) : r.first <= k /\ k < r.run => runs[k].status = "continued"
      BY <2>2, <2>6 DEF Chain
    <3>2. ASSUME NEW i \in r.first..(r.run - 1)
          PROVE  i \in 1..Len(runs) /\ r.first <= i /\ i < r.run
      BY <2>2, <2>3, <2>5
    <3> QED
      BY <3>1, <3>2
  <2> QED
    BY <2>2, <2>4, <2>6
<1> QED
  BY <1>1, Inductive, PTL
=============================================================================
