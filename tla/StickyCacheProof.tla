-------------------------- MODULE StickyCacheProof --------------------------
(***************************************************************************)
(* The safety of the sticky cache for any number of runs, pollers, runners *)
(* and faults.  The invariant has three layers, each inductive given the   *)
(* ones below: what a Handle() call is at each of its labels, what the     *)
(* cache and the shared_ptrs keep; what the server's counters say about    *)
(* the attempts that are still at work; and what follows for the runner in *)
(* the cache and the handlers that use it outside the mutex.               *)
(***************************************************************************)
EXTENDS StickyCache, FiniteSetTheorems, TLAPS

Live(p) == call[p].pc # "idle"
Task(p) == Live(p) /\ ~call[p].query

-----------------------------------------------------------------------------
(***************************************************************************)
(* First layer.                                                            *)
(***************************************************************************)
\* The labels of a Handle() call: for which kind of task, and with which runner.
CallFits(p) ==
    LET c == call[p]
    IN  /\ Live(p) => c.run \in Runs
        /\ c.query => c.pc \in {"lookup", "answer", "rebuild", "hung", "return"}
        /\ c.pc \in {"answer", "rebuild"} => c.query
        /\ c.pc \in {"idle", "lookup", "replay", "rebuild"} => c.runner = NoRunner
        /\ c.pc \notin {"idle", "lookup", "replay", "rebuild", "fail", "return"} => c.runner \in Runners
        /\ c.pc \in {"replay", "put", "putting"} => c.first = 1
        /\ c.pc = "resume" => c.first # 1
        /\ c.runner \in Runners => runOf[c.runner] = c.run

\* The places of order_ are taken once each, and within the capacity.
CacheFits ==
    /\ \A r \in Runs : pos[r] = 0 <=> slot[r] = NoRunner
    /\ \A q, r \in Runs : pos[q] # 0 /\ pos[q] = pos[r] => q = r
    /\ \A r \in Runs : Capacity # 0 => pos[r] <= Capacity
    /\ \A r \in Runs : slot[r] \in Runners => runOf[slot[r]] = r

\* The mutex is held where the cache is changed, and what is being destroyed under it
\* nobody refers to.
MutexFits ==
    /\ mutex \in Pollers => call[mutex].pc \in {"putting", "aborting", "erasing"}
    /\ dying \cap Referenced = {}

\* A function that runs on is kept by the handler that found out, then for good.
StuckKept ==
    \A i \in stuck : \/ i \in leaked
                     \/ \E p \in Pollers : call[p].runner = i /\ call[p].pc \in {"abort", "hung"}

\* There is room to take a started attempt back.
EventsFit == \A r \in Runs : srv[r].events >= IF srv[r].wft = "started" THEN 2 ELSE 1

Base == TypeOK /\ (\A p \in Pollers : CallFits(p)) /\ CacheFits /\ MutexFits /\ StuckKept /\ EventsFit

-----------------------------------------------------------------------------
(***************************************************************************)
(* Second layer: attempts.                                                 *)
(***************************************************************************)
Started(r) == IF srv[r].wft = "started" THEN 1 ELSE 0

\* The task that is started, or could be, is beyond the last one completed.
RunFits(r) ==
    /\ srv[r].prev + 1 + Started(r) <= srv[r].events
    /\ srv[r].sticky => srv[r].prev >= 1 /\ srv[r].attempt = 1
    /\ srv[r].closed => srv[r].wft = "none"
    /\ srv[r].closed /\ srv[r].sticky => srv[r].events = srv[r].prev + 1

\* Before its answer.
Working == {"lookup", "resume", "respond"}

\* A sticky attempt, while it is current, continues the last task completed; after it
\* was superseded, nothing does that its events would fit to.
AttemptFits(p) ==
    LET c == call[p]
        s == srv[c.run]
    IN  /\ c.token <= s.token
        /\ c.first \in 1..(s.prev + 1) /\ c.first <= c.upto
        /\ Current(p) => /\ c.upto = s.events
                         /\ c.first = 1 => ~s.sticky
                         /\ c.first # 1 => s.sticky /\ c.first = s.prev + 1
        /\ ~Current(p) /\ c.first # 1 =>
              /\ s.sticky => c.first <= s.prev
              /\ c.pc \in Working => /\ c.upto + 1 + Started(c.run) <= s.events
                                     /\ s.sticky => c.upto < s.prev

\* No two attempts are the same, and no two sticky ones start at the same event, nor
\* one where another, at work still, ends.
AttemptsApart(p, q) ==
    LET c == call[p]
        d == call[q]
    IN  /\ c.token # d.token
        /\ c.first # 1 /\ d.first # 1 =>
              /\ c.first # d.first
              /\ d.pc \in Working => c.first # d.upto + 1

\* A query was sent after the last task completed, or one before it; without a
\* history of its own, when the run was sticky.
QueryFits(p) ==
    LET c == call[p]
        s == srv[c.run]
    IN  c.asOf <= LastCompleted(s) /\ (c.first # 1 => c.asOf <= s.prev)

AttemptsFit ==
    /\ \A r \in Runs : RunFits(r)
    /\ \A p \in Pollers : Task(p) => AttemptFits(p)
    /\ \A p, q \in Pollers :
          p # q /\ Task(p) /\ Task(q) /\ call[p].run = call[q].run => AttemptsApart(p, q)
    /\ \A p \in Pollers : Live(p) /\ call[p].query => QueryFits(p)

-----------------------------------------------------------------------------
(***************************************************************************)
(* Third layer: the runners.                                               *)
(***************************************************************************)
\* A runner is its handler's own until it is put, and no two replays share one.
OwnRunner(p) ==
    /\ At(p, "put") =>
          /\ \A q \in Pollers \ {p} : call[q].runner # call[p].runner
          /\ \A r \in Runs : slot[r] # call[p].runner
          /\ call[p].runner \notin stuck
    /\ Task(p) /\ call[p].first = 1 /\ call[p].runner \in Runners =>
          \A q \in Pollers \ {p} : Task(q) /\ call[q].first = 1 => call[q].runner # call[p].runner

\* A handler answers from where its attempt left the runner.
LastFits(p) ==
    call[p].pc \in {"put", "putting", "respond"} /\ call[p].runner \notin late =>
        last[call[p].runner] = call[p].upto

\* While the current attempt has its runner, the cache has no other one of the run.
SlotFits(p) ==
    call[p].pc \in {"resume", "putting", "respond"} /\ Current(p) =>
        slot[call[p].run] \in {NoRunner, call[p].runner} \cup late

\* A replay that was superseded after its put has not been followed by another.
ReplayFits(p) ==
    LET s == srv[call[p].run]
    IN  /\ call[p].pc \in {"putting", "respond"} /\ call[p].first = 1
        /\ slot[call[p].run] = call[p].runner /\ call[p].runner \notin late
        => ~s.sticky /\ s.prev < call[p].upto

\* A runner in the cache whose function runs on is about to be taken out, or holds its
\* handler up.
Halted(p) == call[p].pc \in {"abort", "hung"}

StuckFits(r) ==
    slot[r] \in stuck =>
        \E p \in Pollers : /\ Halted(p) /\ ~call[p].query /\ call[p].runner = slot[r]
                           /\ call[p].first # 1 /\ call[p].first = last[slot[r]] + 1

\* The runner in the cache is not behind the server.
SlotFresh(r) == slot[r] \in Runners \ late => last[slot[r]] >= srv[r].prev

RunnersFit ==
    /\ \A p \in Pollers : OwnRunner(p) /\ LastFits(p) /\ SlotFits(p) /\ ReplayFits(p)
    /\ \A r \in Runs : StuckFits(r) /\ SlotFresh(r)

RunnersHold == RunnersFit /\ ResumeFits /\ (~PageDeadline => QueryFresh)

IInv == Base /\ AttemptsFit /\ RunnersHold

-----------------------------------------------------------------------------
(***************************************************************************)
(* What the steps do to the calls and to the references.                   *)
(***************************************************************************)
Calls   == [pc : Labels, run : Runs \cup {"nil"}, query : BOOLEAN, first : Nat, upto : Nat,
            token : Nat, runner : Runners \cup {NoRunner}, asOf : Nat]
Servers == [events : Nat, prev : Nat, wft : {"none", "pending", "started"}, attempt : {1, 2},
            token : Nat, sticky : BOOLEAN, closed : BOOLEAN]

\* The call of p is the same task's, at label l and with runner i.
Took(p, i, l) ==
    LET c == call[p]
        d == call'[p]
    IN  /\ call' \in [Pollers -> Calls]
        /\ \A q \in Pollers \ {p} : call'[q] = call[q]
        /\ d.pc = l /\ d.runner = i
        /\ d.run = c.run /\ d.query = c.query /\ d.first = c.first /\ d.upto = c.upto
        /\ d.token = c.token /\ d.asOf = c.asOf

\* A call that goes on to l.
LEMMA MoveFacts ==
    ASSUME TypeOK, NEW p \in Pollers, NEW l \in Labels, call' = [call EXCEPT ![p].pc = l]
    PROVE  Took(p, call[p].runner, l)
<1>1. call \in [Pollers -> Calls]
  BY DEF TypeOK, Calls
<1>2. call[p] \in Calls
  BY <1>1
<1>3. [call[p] EXCEPT !.pc = l] \in Calls
  BY <1>2 DEF Calls
<1>4. call'[p] = [call[p] EXCEPT !.pc = l]
  BY <1>1
<1> QED
  BY <1>1, <1>2, <1>3, <1>4 DEF Took, Calls

\* A call that goes on to l with runner i.
LEMMA TakeFacts ==
    ASSUME TypeOK, NEW p \in Pollers, NEW l \in Labels, NEW i \in Runners \cup {NoRunner},
           call' = [call EXCEPT ![p].runner = i, ![p].pc = l]
    PROVE  Took(p, i, l)
<1>1. call \in [Pollers -> Calls]
  BY DEF TypeOK, Calls
<1>2. call[p] \in Calls
  BY <1>1
<1>3. [call[p] EXCEPT !.runner = i, !.pc = l] \in Calls
  BY <1>2 DEF Calls
<1>4. call'[p] = [call[p] EXCEPT !.runner = i, !.pc = l]
  BY <1>1
<1> QED
  BY <1>1, <1>2, <1>3, <1>4 DEF Took, Calls

\* No call is no task.
LEMMA NoCallFacts ==
    /\ NoCall \in Calls /\ NoCall.pc = "idle" /\ NoCall.runner = NoRunner /\ NoCall.query = FALSE
BY DEF NoCall, Calls, Labels

\* The runner of a call, of an entry or on the list of leaked ones is referenced.
LEMMA Refers ==
    ASSUME TypeOK
    PROVE  /\ \A p \in Pollers : call[p].runner \in Runners => call[p].runner \in Referenced
           /\ \A r \in Runs : slot[r] \in Runners => slot[r] \in Referenced
           /\ leaked \subseteq Referenced
           /\ Referenced \subseteq Runners
BY DEF Referenced, TypeOK

\* The shared_ptrs of a state, for the next one.
LEMMA RefersNext ==
    ASSUME TypeOK', NEW i
    PROVE  i \in Referenced' <=>
             /\ i \in Runners
             /\ \/ i \in leaked'
                \/ \E r \in Runs : slot'[r] = i
                \/ \E p \in Pollers : call'[p].runner = i
BY DEF Referenced

\* A step that moves one call refers to what was referred to.
LEMMA MoveRefers ==
    ASSUME NEW p \in Pollers, NEW l, Took(p, call[p].runner, l), UNCHANGED <<slot, leaked>>
    PROVE  Referenced' = Referenced
<1>1. \A q \in Pollers : call'[q].runner = call[q].runner
  BY DEF Took
<1> QED
  BY <1>1 DEF Referenced

\* The calls of the other pollers stay in order while their runners keep their runs.
LEMMA OthersFit ==
    ASSUME Base, NEW p \in Pollers, \A q \in Pollers \ {p} : call'[q] = call[q],
           \A j \in Referenced : runOf'[j] = runOf[j]
    PROVE  \A q \in Pollers \ {p} : CallFits(q)'
BY Refers DEF Base, CallFits, Live

\* A runner that runs on is kept.
LEMMA StuckReferenced == StuckKept /\ TypeOK => stuck \subseteq Referenced
BY DEF StuckKept, TypeOK, Referenced

\* A completed task's record is one of the server's.
LEMMA CompletedTyped ==
    ASSUME NEW t \in Servers, NEW u \in Nat, NEW d \in BOOLEAN
    PROVE  [t EXCEPT !.wft = "none", !.attempt = 1, !.sticky = TRUE, !.prev = u,
                     !.events = u + 1, !.closed = d] \in Servers
<1>1. u + 1 \in Nat
  OBVIOUS
<1> QED
  BY <1>1, Zenon DEF Servers

\* What the server makes of an answer.
LEMMA CompletedFacts ==
    ASSUME TypeOK, NEW r \in Runs, NEW p \in Pollers
    PROVE  LET s == Completed(srv[r], p)
           IN  /\ s \in Servers
               /\ s.wft = "none" /\ s.attempt = 1 /\ s.sticky = TRUE /\ s.prev = call[p].upto
               /\ s.events = call[p].upto + 1 /\ s.token = srv[r].token
<1> DEFINE t == srv[r]
           u == call[p].upto
           d == Done(call[p].runner)
           s == [t EXCEPT !.wft = "none", !.attempt = 1, !.sticky = TRUE, !.prev = u,
                          !.events = u + 1, !.closed = d]
<1>1. t \in Servers /\ u \in Nat /\ d \in BOOLEAN
  BY DEF TypeOK, Servers, Done
<1>2. Completed(srv[r], p) = s
  BY DEF Completed
<1> HIDE DEF t, u, d
<1>3. s \in Servers
  BY <1>1, CompletedTyped
<1>4. /\ s.wft = "none" /\ s.attempt = 1 /\ s.prev = u /\ s.events = u + 1 /\ s.token = t.token
  BY <1>1 DEF Servers
<1>5. s.sticky = TRUE
  BY <1>1 DEF Servers
<1> QED
  BY <1>2, <1>3, <1>4, <1>5 DEF t, u

\* What the server makes of a failed or timed out attempt.
LEMMA FailedFacts ==
    ASSUME TypeOK, EventsFit, NEW r \in Runs, srv[r].wft = "started"
    PROVE  LET s == Failed(srv[r])
           IN  /\ s \in Servers
               /\ s.wft = "pending" /\ s.attempt = 2 /\ s.sticky = FALSE
               /\ s.prev = srv[r].prev /\ s.token = srv[r].token /\ s.closed = srv[r].closed
               /\ s.events = IF srv[r].attempt = 1 THEN srv[r].events + 1 ELSE srv[r].events - 1
               /\ s.events >= 1
<1> DEFINE t == srv[r]
           e == IF t.attempt = 1 THEN t.events + 1 ELSE t.events - 1
           s == [t EXCEPT !.wft = "pending", !.attempt = 2, !.sticky = FALSE, !.events = e]
<1>1. t \in Servers /\ t.events >= 2
  BY DEF TypeOK, Servers, EventsFit
<1>2. e \in Nat /\ e >= 1
  BY <1>1 DEF Servers
<1>3. Failed(srv[r]) = s
  BY DEF Failed
<1> HIDE DEF t, e
<1>4. s \in Servers
  BY <1>1, <1>2 DEF Servers
<1>5. s.wft = "pending" /\ s.attempt = 2 /\ s.prev = t.prev /\ s.token = t.token /\ s.events = e
  BY <1>1 DEF Servers
<1>6. s.sticky = FALSE /\ s.closed = t.closed
  BY <1>1 DEF Servers
<1> QED
  BY <1>2, <1>3, <1>4, <1>5, <1>6 DEF t, e

\* What the server makes of a task that fails the run.
LEMMA RunFailedFacts ==
    ASSUME TypeOK, NEW r \in Runs
    PROVE  LET s == RunFailed(srv[r])
           IN  /\ s \in Servers /\ s.wft = "none" /\ s.sticky = FALSE /\ s.closed = TRUE
               /\ s.prev = srv[r].prev /\ s.token = srv[r].token /\ s.events = srv[r].events + 1
<1> DEFINE t == srv[r]
           e == t.events + 1
           s == [t EXCEPT !.wft = "none", !.sticky = FALSE, !.closed = TRUE, !.events = e]
<1>1. t \in Servers
  BY DEF TypeOK, Servers
<1>2. e \in Nat
  BY <1>1 DEF Servers
<1>3. RunFailed(srv[r]) = s
  BY DEF RunFailed
<1> HIDE DEF t, e
<1>4. s \in Servers
  BY <1>1, <1>2 DEF Servers
<1>5. s.wft = "none" /\ s.prev = t.prev /\ s.token = t.token /\ s.events = e
  BY <1>1 DEF Servers
<1>6. s.sticky = FALSE /\ s.closed = TRUE
  BY <1>1 DEF Servers
<1> QED
  BY <1>2, <1>3, <1>4, <1>5, <1>6 DEF t, e

\* The server's record of one run changes.
LEMMA ServerTyped ==
    ASSUME TypeOK, NEW r \in Runs, NEW s \in Servers, srv' = [srv EXCEPT ![r] = s]
    PROVE  /\ srv' \in [Runs -> Servers] /\ srv'[r] = s
           /\ \A q \in Runs \ {r} : srv'[q] = srv[q]
BY DEF TypeOK, Servers

-----------------------------------------------------------------------------
(***************************************************************************)
(* First layer: the steps.                                                 *)
(***************************************************************************)
\* A step that moves one call and leaves the cache, the mutex and what is kept alone.
LEMMA BaseMove ==
    ASSUME Base, NEW p \in Pollers, NEW l \in Labels, Took(p, call[p].runner, l),
           TypeOK', EventsFit', CallFits(p)',
           UNCHANGED <<pos, slot, mutex, dying, runOf, leaked>>,
           call[p].pc \notin {"putting", "aborting", "erasing", "abort", "hung"},
           \A i \in stuck' : i \in stuck \/ (i = call[p].runner /\ l \in {"abort", "hung"})
    PROVE  Base'
<1>1. \A q \in Pollers \ {p} : call'[q] = call[q]
  BY DEF Took
<1>2. \A q \in Pollers : CallFits(q)'
  BY <1>1, OthersFit
<1>3. CacheFits'
  BY DEF Base, CacheFits
<1>4. Referenced' = Referenced
  BY MoveRefers
<1>5. MutexFits'
  BY <1>1, <1>4 DEF Base, MutexFits
<1>6. ASSUME NEW i \in stuck', i \notin leaked'
      PROVE  \E q \in Pollers : call'[q].runner = i /\ call'[q].pc \in {"abort", "hung"}
  <2>1. CASE i \in stuck
    <3>1. PICK q \in Pollers : call[q].runner = i /\ call[q].pc \in {"abort", "hung"}
      BY <1>6, <2>1 DEF Base, StuckKept
    <3>2. q # p
      BY <3>1
    <3> QED
      BY <1>1, <3>1, <3>2
  <2>2. CASE i = call[p].runner /\ l \in {"abort", "hung"}
    BY <2>2 DEF Took
  <2> QED
    BY <1>6, <2>1, <2>2
<1>7. StuckKept'
  BY <1>6 DEF StuckKept
<1> QED
  BY <1>2, <1>3, <1>5, <1>7 DEF Base

\* ApplyAndResume returns.
LEMMA ResumedBase ==
    ASSUME Base, NEW p \in Pollers, Resumed(p)
    PROVE  Base'
<1>1. Took(p, call[p].runner, "respond")
  BY MoveFacts DEF Resumed, Base, Labels
<1>2. call[p] \in Calls /\ CallFits(p) /\ call[p].pc = "resume"
  BY DEF Base, TypeOK, Calls, Resumed, At
<1>3. UNCHANGED <<srv, pos, slot, mutex, dying, runOf, stuck, leaked, late, faults, queries>>
  BY DEF Resumed, cache, lock, bounds
<1>4. last' \in [Runners -> Nat]
  BY <1>2 DEF Resumed, Base, TypeOK, Calls
<1>5. TypeOK' /\ EventsFit'
  BY <1>1, <1>3, <1>4 DEF Base, TypeOK, EventsFit, Took, Calls
<1>6. CallFits(p)'
  BY <1>1, <1>2, <1>3 DEF Took, CallFits, Live
<1> QED
  BY <1>1, <1>2, <1>3, <1>5, <1>6, BaseMove DEF Labels

\* The function does not yield in time.
LEMMA ResumeDeadlocksBase ==
    ASSUME Base, NEW p \in Pollers, ResumeDeadlocks(p)
    PROVE  Base'
<1>1. PICK l \in {"abort", "hung"} : Took(p, call[p].runner, l)
  BY MoveFacts DEF ResumeDeadlocks, Blocked, Base, Labels
<1>2. call[p] \in Calls /\ CallFits(p) /\ call[p].pc = "resume"
  BY DEF Base, TypeOK, Calls, ResumeDeadlocks, At
<1>3. UNCHANGED <<srv, pos, slot, mutex, dying, last, runOf, leaked, late, queries>>
  BY DEF ResumeDeadlocks, cache, lock
<1>4. faults' \in Nat /\ stuck' \subseteq Runners /\ stuck' = stuck \cup {call[p].runner}
  BY <1>2 DEF ResumeDeadlocks, Base, TypeOK, CallFits
<1>5. TypeOK' /\ EventsFit'
  BY <1>1, <1>3, <1>4 DEF Base, TypeOK, EventsFit, Took, Calls
<1>6. CallFits(p)'
  BY <1>1, <1>2, <1>3 DEF Took, CallFits, Live
<1> QED
  BY <1>1, <1>2, <1>3, <1>4, <1>5, <1>6, BaseMove DEF Labels

\* Respond, RespondFailed, RespondFailRun, CallLost: the answer is sent, or not.
LEMMA RespondBase ==
    ASSUME Base, NEW p \in Pollers, Respond(p) \/ RespondFailed(p) \/ RespondFailRun(p) \/ CallLost(p)
    PROVE  Base'
<1> DEFINE r == call[p].run
<1>1. call[p] \in Calls /\ CallFits(p) /\ call[p].pc \in {"respond", "fail", "failrun"} /\ r \in Runs
  BY DEF Base, TypeOK, Calls, Respond, RespondFailed, RespondFailRun, CallLost, At, CallFits, Live
<1>2. PICK l \in {"finish", "return"} :
          call' = [call EXCEPT ![p].pc = l] /\ (l = "finish" => call[p].pc = "respond")
  BY DEF Respond, RespondFailed, RespondFailRun, CallLost, At
<1>3. Took(p, call[p].runner, l)
  BY <1>2, MoveFacts DEF Base, Labels
<1>4. UNCHANGED <<pos, slot, mutex, dying, last, runOf, stuck, leaked, late, queries>>
  BY DEF Respond, RespondFailed, RespondFailRun, CallLost, cache, lock, runner, bounds
<1>5. faults' \in Nat
  BY DEF Respond, RespondFailed, RespondFailRun, CallLost, bounds, Base, TypeOK
<1>6. \/ UNCHANGED srv
      \/ srv' = [srv EXCEPT ![r] = Completed(srv[r], p)]
      \/ srv[r].wft = "started" /\ srv' = [srv EXCEPT ![r] = Failed(srv[r])]
      \/ srv[r].wft = "started" /\ srv' = [srv EXCEPT ![r] = RunFailed(srv[r])]
  BY DEF Respond, RespondFailed, RespondFailRun, CallLost, Current
<1>7. srv' \in [Runs -> Servers] /\ EventsFit'
  <2>1. CASE UNCHANGED srv
    BY <2>1 DEF Base, TypeOK, Servers, EventsFit
  <2>2. CASE srv' = [srv EXCEPT ![r] = Completed(srv[r], p)]
    <3> DEFINE s == Completed(srv[r], p)
    <3>1. s \in Servers /\ s.wft = "none" /\ s.events = call[p].upto + 1
      BY <1>1, CompletedFacts DEF Base
    <3>2. srv'[r] = s /\ srv' \in [Runs -> Servers] /\ \A q \in Runs \ {r} : srv'[q] = srv[q]
      BY <1>1, <2>2, <3>1, ServerTyped DEF Base
    <3> HIDE DEF s
    <3> QED
      BY <1>1, <3>1, <3>2 DEF Base, EventsFit, Calls
  <2>3. CASE srv[r].wft = "started" /\ srv' = [srv EXCEPT ![r] = Failed(srv[r])]
    <3> DEFINE s == Failed(srv[r])
    <3>1. s \in Servers /\ s.wft = "pending" /\ s.events >= 1
      BY <1>1, <2>3, FailedFacts DEF Base
    <3>2. srv'[r] = s /\ srv' \in [Runs -> Servers] /\ \A q \in Runs \ {r} : srv'[q] = srv[q]
      BY <1>1, <2>3, <3>1, ServerTyped DEF Base
    <3> HIDE DEF s
    <3> QED
      BY <1>1, <3>1, <3>2 DEF Base, EventsFit
  <2>4. CASE srv[r].wft = "started" /\ srv' = [srv EXCEPT ![r] = RunFailed(srv[r])]
    <3> DEFINE s == RunFailed(srv[r])
    <3>1. s \in Servers /\ s.wft = "none" /\ s.events = srv[r].events + 1 /\ srv[r].events \in Nat
      BY <1>1, RunFailedFacts DEF Base, TypeOK
    <3>2. srv'[r] = s /\ srv' \in [Runs -> Servers] /\ \A q \in Runs \ {r} : srv'[q] = srv[q]
      BY <1>1, <2>4, <3>1, ServerTyped DEF Base
    <3> HIDE DEF s
    <3> QED
      BY <1>1, <3>1, <3>2 DEF Base, EventsFit
  <2> QED
    BY <1>6, <2>1, <2>2, <2>3, <2>4
<1>8. TypeOK'
  BY <1>3, <1>4, <1>5, <1>7 DEF Base, TypeOK, Took, Calls, Servers
<1>9. CallFits(p)'
  BY <1>1, <1>2, <1>3, <1>4 DEF Took, CallFits, Live
<1> QED
  BY <1>1, <1>3, <1>4, <1>7, <1>8, <1>9, BaseMove DEF Labels

\* A query is answered, or cannot be; a workflow that is not done stays cached.
LEMMA EndsBase ==
    ASSUME Base, NEW p \in Pollers,
           Answer(p) \/ RebuildFails(p) \/ (Finish(p) /\ ~Done(call[p].runner))
    PROVE  Base'
<1>1. Took(p, call[p].runner, "return")
  BY MoveFacts DEF Answer, RebuildFails, Finish, Base, Labels
<1>2. call[p] \in Calls /\ CallFits(p) /\ call[p].pc \in {"answer", "rebuild", "finish"}
  BY DEF Base, TypeOK, Calls, Answer, RebuildFails, Finish, At
<1>3. UNCHANGED <<srv, pos, slot, mutex, dying, last, runOf, stuck, leaked, late, queries>>
  BY DEF Answer, RebuildFails, Finish, cache, lock, runner, bounds
<1>4. faults' \in Nat
  BY DEF Answer, RebuildFails, Finish, bounds, Base, TypeOK
<1>5. TypeOK' /\ EventsFit'
  BY <1>1, <1>3, <1>4 DEF Base, TypeOK, EventsFit, Took, Calls
<1>6. CallFits(p)'
  BY <1>1, <1>2, <1>3 DEF Took, CallFits, Live
<1> QED
  BY <1>1, <1>2, <1>3, <1>5, <1>6, BaseMove DEF Labels

\* A handler makes a runner that nobody knows.
LEMMA NewRunnerFacts ==
    ASSUME Base, NEW p \in Pollers, NEW n \in Nat, NEW next \in Labels, NewRunner(p, n, next)
    PROVE  \E i \in Runners \ (Referenced \cup dying \cup stuck) :
              /\ Took(p, i, next)
              /\ last' = [last EXCEPT ![i] = n] /\ runOf' = [runOf EXCEPT ![i] = call[p].run]
<1> DEFINE free == Runners \ (Referenced \cup dying \cup stuck)
           i == CHOOSE j \in free : TRUE
<1>1. i \in free
  BY DEF NewRunner
<1>2. call' = [call EXCEPT ![p].runner = i, ![p].pc = next]
      /\ last' = [last EXCEPT ![i] = n] /\ runOf' = [runOf EXCEPT ![i] = call[p].run]
  BY DEF NewRunner
<1>3. Took(p, i, next)
  <2> HIDE DEF i
  <2> QED
    BY <1>1, <1>2, TakeFacts DEF Base
<1> QED
  BY <1>1, <1>2, <1>3

\* The runners that were known are left alone.
LEMMA NewRunnerBase ==
    ASSUME Base, NEW p \in Pollers, NEW n \in Nat,
           NEW next \in {"put", "abort", "fail", "failrun", "answer", "hung"}, NewRunner(p, n, next),
           \/ call[p].pc = "replay" /\ next \in {"put", "abort", "fail", "failrun", "hung"}
           \/ call[p].pc = "rebuild" /\ next \in {"answer", "hung"},
           UNCHANGED <<srv, pos, slot, mutex, dying, leaked, late>>,
           faults' \in Nat, queries' \in Nat,
           \/ UNCHANGED stuck
           \/ stuck' = stuck \cup {call'[p].runner} /\ next \in {"abort", "hung"}
    PROVE  Base'
<1>1. PICK i \in Runners \ (Referenced \cup dying \cup stuck) :
              /\ Took(p, i, next)
              /\ last' = [last EXCEPT ![i] = n] /\ runOf' = [runOf EXCEPT ![i] = call[p].run]
  BY NewRunnerFacts DEF Labels
<1>2. call[p] \in Calls /\ CallFits(p) /\ call[p].run \in Runs /\ call[p].runner = NoRunner
  BY DEF Base, TypeOK, Calls, CallFits, Live
<1>3. call'[p].runner = i /\ call'[p].pc = next /\ \A q \in Pollers \ {p} : call'[q] = call[q]
  BY <1>1 DEF Took
<1>4. TypeOK' /\ EventsFit'
  <2>1. last' \in [Runners -> Nat] /\ runOf' \in [Runners -> Runs \cup {"nil"}]
    BY <1>1, <1>2 DEF Base, TypeOK
  <2>2. stuck' \subseteq Runners
    BY <1>3 DEF Base, TypeOK
  <2> QED
    BY <1>1, <2>1, <2>2 DEF Base, TypeOK, EventsFit, Took, Calls
<1>5. \A j \in Runners \ {i} : runOf'[j] = runOf[j]
  BY <1>1 DEF Base, TypeOK
<1>6. \A j \in Referenced : runOf'[j] = runOf[j]
  BY <1>1, <1>5, Refers DEF Base
<1>7. runOf'[i] = call[p].run
  BY <1>1 DEF Base, TypeOK
<1>8. CallFits(p)'
  BY <1>1, <1>2, <1>3, <1>7 DEF Took, CallFits, Live
<1>9. \A q \in Pollers : CallFits(q)'
  BY <1>3, <1>6, <1>8, OthersFit
<1>10. CacheFits'
  BY <1>6, Refers DEF Base, CacheFits
<1>11. Referenced' \subseteq Referenced \cup {i}
  BY <1>3, <1>4, RefersNext, Refers DEF Base, TypeOK, Referenced
<1>12. MutexFits'
  BY <1>1, <1>3, <1>11 DEF Base, MutexFits
<1>13. ASSUME NEW j \in stuck', j \notin leaked'
       PROVE  \E q \in Pollers : call'[q].runner = j /\ call'[q].pc \in {"abort", "hung"}
  <2>1. CASE j \in stuck
    <3>1. PICK q \in Pollers : call[q].runner = j /\ call[q].pc \in {"abort", "hung"}
      BY <1>13, <2>1 DEF Base, StuckKept
    <3> QED
      BY <1>3, <3>1
  <2>2. CASE j \notin stuck
    BY <1>3, <1>13, <2>2
  <2> QED
    BY <2>1, <2>2
<1>14. StuckKept'
  BY <1>13 DEF StuckKept
<1> QED
  BY <1>4, <1>9, <1>10, <1>12, <1>14 DEF Base

\* Replays and rebuilds, with whatever comes of them.
LEMMA RebuiltBase ==
    ASSUME Base, NEW p \in Pollers,
           \/ Replayed(p) \/ ReplayDeadlocks(p) \/ ReplayMismatch(p)
           \/ Rebuild(p) \/ RebuildHangs(p)
    PROVE  Base'
<1>1. call[p] \in Calls /\ CallFits(p) /\ faults \in Nat /\ queries \in Nat
  BY DEF Base, TypeOK, Calls
<1>2. call[p].upto \in Nat /\ (Live(p) => srv[call[p].run].events \in Nat)
  BY <1>1 DEF Base, TypeOK, Calls, CallFits
<1>3. CASE Replayed(p)
  BY <1>1, <1>2, <1>3, NewRunnerBase DEF Replayed, At, cache, lock, bounds
<1>4. CASE ReplayDeadlocks(p)
  BY <1>1, <1>2, <1>4, NewRunnerBase DEF ReplayDeadlocks, Blocked, At, cache, lock
<1>5. CASE ReplayMismatch(p)
  BY <1>1, <1>2, <1>5, NewRunnerBase DEF ReplayMismatch, At, cache, lock
<1>6. CASE Rebuild(p)
  <2>1. PICK n \in {srv[call[p].run].events} \cup {k \in 1..srv[call[p].run].events : PageDeadline} :
            NewRunner(p, n, "answer")
    BY <1>6 DEF Rebuild
  <2>2. n \in Nat
    BY <1>2, <1>6, <2>1 DEF Rebuild, At, Live
  <2> QED
    BY <1>1, <1>6, <2>1, <2>2, NewRunnerBase DEF Rebuild, At, cache, lock, bounds
<1>7. CASE RebuildHangs(p)
  BY <1>1, <1>2, <1>7, NewRunnerBase DEF RebuildHangs, At, cache, lock, Live
<1> QED
  BY <1>3, <1>4, <1>5, <1>6, <1>7

-----------------------------------------------------------------------------
(***************************************************************************)
(* First layer: the LruCache.                                              *)
(***************************************************************************)
Distinct(ps) == \A q, r \in Runs : ps[q] # 0 /\ ps[q] = ps[r] => q = r
Within(ps)   == \A r \in Runs : Capacity # 0 => ps[r] <= Capacity

\* What moving a run to the front does.
LEMMA ToFrontFacts ==
    ASSUME TypeOK, CacheFits, NEW r \in Runs
    PROVE  /\ ToFront(r) \in [Runs -> Nat] /\ Distinct(ToFront(r)) /\ ToFront(r)[r] = 1
           /\ \A q \in Runs \ {r} : ToFront(r)[q] = 0 <=> pos[q] = 0
           /\ pos[r] # 0 => Within(ToFront(r))
<1> DEFINE ps == ToFront(r)
<1>1. \A q \in Runs : pos[q] \in Nat
  BY DEF TypeOK
<1>2. \A q \in Runs : ps[q] = CASE q = r -> 1
                      [] q # r /\ pos[q] # 0 /\ (pos[r] = 0 \/ pos[q] < pos[r]) -> pos[q] + 1
                      [] OTHER -> pos[q]
  BY DEF ToFront
<1>3. ps[r] = 1
  BY <1>2
<1>4. \A q \in Runs \ {r} :
          ps[q] = IF pos[q] # 0 /\ (pos[r] = 0 \/ pos[q] < pos[r]) THEN pos[q] + 1 ELSE pos[q]
  BY <1>2
<1>5. ps \in [Runs -> Nat]
  BY <1>1, <1>3, <1>4 DEF ToFront
<1>6. \A q \in Runs \ {r} : ps[q] # 0 => ps[q] # 1
  BY <1>1, <1>4 DEF CacheFits
<1>7. \A q, t \in Runs \ {r} : ps[q] # 0 /\ ps[q] = ps[t] => q = t
  BY <1>1, <1>4 DEF CacheFits
<1> HIDE DEF ps
<1>8. Distinct(ps)
  BY <1>3, <1>6, <1>7 DEF Distinct
<1>9. \A q \in Runs \ {r} : ps[q] = 0 <=> pos[q] = 0
  BY <1>1, <1>4
<1>10. pos[r] # 0 => Within(ps)
  BY <1>1, <1>3, <1>4, CacheAssumption DEF Within, CacheFits
<1> QED
  BY <1>3, <1>5, <1>8, <1>9, <1>10 DEF ps

\* What eviction leaves.
LEMMA EvictFacts ==
    ASSUME NEW ps \in [Runs -> Nat], Distinct(ps)
    PROVE  LET e == EvictToCapacity(ps)
           IN  /\ e \in [Runs -> Nat] /\ Distinct(e) /\ Within(e)
               /\ \A q \in Runs : e[q] \in {0, ps[q]} /\ (ps[q] = 1 => e[q] = 1)
BY CacheAssumption DEF EvictToCapacity, Distinct, Within

\* Put: the run has the new runner, and of the others some were evicted.
LEMMA PutFacts ==
    ASSUME TypeOK, CacheFits, NEW r \in Runs, NEW i \in Runners, Put(r, i)
    PROVE  /\ pos' \in [Runs -> Nat] /\ slot' \in [Runs -> Runners \cup {NoRunner}]
           /\ Distinct(pos') /\ Within(pos')
           /\ slot'[r] = i /\ \A q \in Runs \ {r} : slot'[q] \in {slot[q], NoRunner}
           /\ \A q \in Runs : pos'[q] = 0 <=> slot'[q] = NoRunner
<1> DEFINE ps == ToFront(r)
<1>1. /\ ps \in [Runs -> Nat] /\ Distinct(ps) /\ ps[r] = 1
      /\ \A q \in Runs \ {r} : ps[q] = 0 <=> pos[q] = 0
  BY ToFrontFacts
<1>2. pos' = EvictToCapacity(ps)
  BY DEF Put
<1> HIDE DEF ps
<1>3. /\ pos' \in [Runs -> Nat] /\ Distinct(pos') /\ Within(pos') /\ pos'[r] = 1
      /\ \A q \in Runs \ {r} : pos'[q] # 0 => pos[q] # 0
  BY <1>1, <1>2, EvictFacts
<1>4. \A q \in Runs : slot'[q] = CASE pos'[q] = 0 -> NoRunner
                                   [] pos'[q] # 0 /\ q = r -> i
                                   [] OTHER -> slot[q]
  BY DEF Put
<1>5. slot'[r] = i
  BY <1>3, <1>4
<1>6. \A q \in Runs \ {r} : slot'[q] = IF pos'[q] = 0 THEN NoRunner ELSE slot[q]
  BY <1>4
<1>7. slot' \in [Runs -> Runners \cup {NoRunner}]
  <2>1. \A q \in Runs : slot'[q] \in Runners \cup {NoRunner}
    BY <1>5, <1>6 DEF TypeOK
  <2> QED
    BY <2>1 DEF Put
<1>8. \A q \in Runs : pos'[q] = 0 <=> slot'[q] = NoRunner
  BY <1>3, <1>5, <1>6, CacheAssumption DEF CacheFits
<1> QED
  BY <1>3, <1>5, <1>6, <1>7, <1>8

\* Erase: the run is out, and the others close the gap.
LEMMA EraseFacts ==
    ASSUME TypeOK, CacheFits, NEW r \in Runs, Erase(r)
    PROVE  /\ pos' \in [Runs -> Nat] /\ slot' \in [Runs -> Runners \cup {NoRunner}]
           /\ Distinct(pos') /\ Within(pos')
           /\ slot'[r] = NoRunner /\ \A q \in Runs \ {r} : slot'[q] = slot[q]
           /\ \A q \in Runs : pos'[q] = 0 <=> slot'[q] = NoRunner
<1>1. \A q \in Runs : pos[q] \in Nat
  BY DEF TypeOK
<1>2. \A q \in Runs : pos'[q] = CASE q = r -> 0
                                [] q # r /\ pos[r] # 0 /\ pos[q] > pos[r] -> pos[q] - 1
                                [] OTHER -> pos[q]
  BY DEF Erase
<1>3. pos'[r] = 0
  BY <1>2
<1>4. \A q \in Runs \ {r} :
          pos'[q] = IF pos[r] # 0 /\ pos[q] > pos[r] THEN pos[q] - 1 ELSE pos[q]
  BY <1>2
<1>5. pos' \in [Runs -> Nat]
  BY <1>1, <1>3, <1>4 DEF Erase
<1>6. \A q \in Runs \ {r} : pos'[q] = 0 <=> pos[q] = 0
  BY <1>1, <1>4
<1>7. \A q, t \in Runs \ {r} : pos'[q] # 0 /\ pos'[q] = pos'[t] => q = t
  BY <1>1, <1>4 DEF CacheFits
<1>8. Distinct(pos')
  BY <1>3, <1>7 DEF Distinct
<1>9. Within(pos')
  BY <1>1, <1>3, <1>4, CacheAssumption DEF Within, CacheFits
<1>10. /\ slot' \in [Runs -> Runners \cup {NoRunner}] /\ slot'[r] = NoRunner
       /\ \A q \in Runs \ {r} : slot'[q] = slot[q]
  BY DEF Erase, TypeOK
<1>11. \A q \in Runs : pos'[q] = 0 <=> slot'[q] = NoRunner
  BY <1>3, <1>6, <1>10 DEF CacheFits
<1> QED
  BY <1>5, <1>8, <1>9, <1>10, <1>11

\* A step that takes the mutex: what it displaces is nobody's any more.
LEMMA LockBase ==
    ASSUME Base, NEW p \in Pollers, NEW l \in {"putting", "aborting", "erasing"},
           Took(p, call[p].runner, l), TypeOK', CallFits(p)', CacheFits', StuckKept',
           UNCHANGED <<srv, runOf>>, mutex' = p, dying' = Referenced \ Referenced'
    PROVE  Base'
<1>1. \A q \in Pollers \ {p} : call'[q] = call[q]
  BY DEF Took
<1>2. \A q \in Pollers : CallFits(q)'
  BY <1>1, OthersFit
<1>3. MutexFits'
  BY DEF MutexFits, Took
<1>4. EventsFit'
  BY DEF Base, EventsFit
<1> QED
  BY <1>2, <1>3, <1>4 DEF Base

\* A runner goes into the cache.
LEMMA PutRunnerBase ==
    ASSUME Base, NEW p \in Pollers, PutRunner(p)
    PROVE  Base'
<1> DEFINE r == call[p].run
           i == call[p].runner
<1>1. call[p] \in Calls /\ CallFits(p) /\ call[p].pc = "put" /\ r \in Runs /\ i \in Runners
      /\ runOf[i] = r
  BY DEF Base, TypeOK, Calls, PutRunner, At, CallFits, Live
<1>2. Took(p, i, "putting")
  BY MoveFacts DEF PutRunner, Base, Labels
<1>3. UNCHANGED <<srv, last, runOf, stuck, leaked, faults, queries>>
      /\ mutex' = p /\ dying' = Referenced \ Referenced' /\ Put(r, i)
  BY DEF PutRunner, runner, bounds
<1>4. /\ pos' \in [Runs -> Nat] /\ slot' \in [Runs -> Runners \cup {NoRunner}]
      /\ Distinct(pos') /\ Within(pos')
      /\ slot'[r] = i /\ \A q \in Runs \ {r} : slot'[q] \in {slot[q], NoRunner}
      /\ \A q \in Runs : pos'[q] = 0 <=> slot'[q] = NoRunner
  BY <1>1, <1>3, PutFacts DEF Base
<1>5. late' \subseteq Runners
  BY <1>1 DEF PutRunner, Base, TypeOK
<1>6. dying' \subseteq Runners
  BY <1>3, Refers DEF Base
<1>7. TypeOK'
  BY <1>2, <1>3, <1>4, <1>5, <1>6 DEF Base, TypeOK, Took, Calls
<1>8. CallFits(p)'
  BY <1>1, <1>2, <1>3 DEF Took, CallFits, Live
<1>9. CacheFits'
  BY <1>1, <1>3, <1>4, CacheAssumption DEF Base, CacheFits, Distinct, Within
<1>10. StuckKept'
  <2>1. \A q \in Pollers : call[q].pc \in {"abort", "hung"} => call'[q] = call[q]
    BY <1>1, <1>2 DEF Took
  <2> QED
    BY <1>3, <2>1 DEF Base, StuckKept
<1> QED
  BY <1>2, <1>3, <1>7, <1>8, <1>9, <1>10, LockBase

\* A deadlocked runner, or a finished one, is taken out of the cache.
LEMMA EraseBase ==
    ASSUME Base, NEW p \in Pollers, Abort(p) \/ (Finish(p) /\ Done(call[p].runner))
    PROVE  Base'
<1> DEFINE r == call[p].run
           i == call[p].runner
<1>1. /\ call[p] \in Calls /\ CallFits(p) /\ call[p].pc \in {"abort", "finish"} /\ r \in Runs
      /\ i \in Runners
  BY DEF Base, TypeOK, Calls, Abort, Finish, At, CallFits, Live
<1>2. PICK l \in {"aborting", "erasing"} :
          /\ call' = [call EXCEPT ![p].pc = l]
          /\ l = "aborting" => leaked' = leaked \cup {i}
          /\ l = "erasing" => call[p].pc = "finish" /\ UNCHANGED leaked
  BY DEF Abort, Finish, At, runner
<1>3. Took(p, i, l)
  BY <1>2, MoveFacts DEF Base, Labels
<1>4. UNCHANGED <<srv, last, runOf, stuck, late, faults, queries>>
      /\ mutex' = p /\ dying' = Referenced \ Referenced' /\ Erase(r)
  BY DEF Abort, Finish, runner, bounds
<1>5. /\ pos' \in [Runs -> Nat] /\ slot' \in [Runs -> Runners \cup {NoRunner}]
      /\ Distinct(pos') /\ Within(pos')
      /\ slot'[r] = NoRunner /\ \A q \in Runs \ {r} : slot'[q] = slot[q]
      /\ \A q \in Runs : pos'[q] = 0 <=> slot'[q] = NoRunner
  BY <1>1, <1>4, EraseFacts DEF Base
<1>6. dying' \subseteq Runners /\ leaked' \subseteq Runners /\ leaked \subseteq leaked'
  BY <1>1, <1>2, <1>4, Refers DEF Base, TypeOK
<1>7. TypeOK'
  BY <1>3, <1>4, <1>5, <1>6 DEF Base, TypeOK, Took, Calls
<1>8. CallFits(p)'
  BY <1>1, <1>2, <1>3, <1>4 DEF Took, CallFits, Live
<1>9. CacheFits'
  BY <1>1, <1>4, <1>5, CacheAssumption DEF Base, CacheFits, Distinct, Within
<1>10. StuckKept'
  <2>1. \A q \in Pollers \ {p} : call'[q] = call[q]
    BY <1>3 DEF Took
  <2>2. call[p].pc \in {"abort", "hung"} => i \in leaked'
    BY <1>1, <1>2
  <2> QED
    BY <1>4, <1>6, <2>1, <2>2 DEF Base, StuckKept
<1> QED
  BY <1>3, <1>4, <1>7, <1>8, <1>9, <1>10, LockBase

\* What the lookup decides: a hit is the cached runner, for a query or at its
\* checkpoint; a miss leads to a replay, a rebuild or a failed task.
LEMMA LookupFacts ==
    ASSUME Base, NEW p \in Pollers, Lookup(p)
    PROVE  LET c == call[p]
           IN  \E i \in Runners \cup {NoRunner}, l \in {"answer", "resume", "rebuild", "replay", "fail"} :
                 /\ Took(p, i, l)
                 /\ i # NoRunner <=> l \in {"answer", "resume"}
                 /\ i # NoRunner => i = slot[c.run] /\ c.first # 1
                 /\ l \in {"answer", "rebuild"} <=> c.query
                 /\ l = "resume" => c.first = last[i] + 1
                 /\ l = "replay" => c.first = 1
                 /\ l \in {"resume", "fail"} => c.first # 1
<1> DEFINE c == call[p]
           r == c.run
           hit == /\ ~IsFull(p) /\ slot[r] # NoRunner
                  /\ c.query \/ c.first = last[slot[r]] + 1
           i == IF hit THEN slot[r] ELSE NoRunner
           l == CASE hit /\ c.query   -> "answer"
                  [] hit /\ ~c.query  -> "resume"
                  [] ~hit /\ c.query  -> "rebuild"
                  [] OTHER -> IF IsFull(p) THEN "replay" ELSE "fail"
<1>1. call' = [call EXCEPT ![p].runner = i, ![p].pc = l]
  BY DEF Lookup
<1>2. c \in Calls /\ CallFits(p) /\ c.pc = "lookup" /\ r \in Runs
  BY DEF Base, TypeOK, Calls, Lookup, At, CallFits, Live
<1>3. c.query \in BOOLEAN
  BY <1>2 DEF Calls
<1>4. /\ hit => ~IsFull(p) /\ slot[r] # NoRunner
      /\ hit /\ ~c.query => c.first = last[slot[r]] + 1
  OBVIOUS
<1>5. IsFull(p) <=> c.first = 1
  BY DEF IsFull
<1> HIDE DEF hit
<1>6. i \in Runners \cup {NoRunner}
  BY <1>2 DEF Base, TypeOK
<1>7. CASE hit /\ c.query
  <2>1. i = slot[r] /\ l = "answer"
    BY <1>7
  <2>2. Took(p, i, l)
    <3> HIDE DEF i, l
    <3> QED
      BY <1>1, <1>6, <2>1, TakeFacts DEF Base, Labels
  <2> QED
    BY <1>4, <1>5, <1>6, <1>7, <2>1, <2>2
<1>8. CASE hit /\ ~c.query
  <2>1. i = slot[r] /\ l = "resume"
    BY <1>8
  <2>2. Took(p, i, l)
    <3> HIDE DEF i, l
    <3> QED
      BY <1>1, <1>6, <2>1, TakeFacts DEF Base, Labels
  <2> QED
    BY <1>4, <1>5, <1>6, <1>8, <2>1, <2>2
<1>9. CASE ~hit /\ c.query
  <2>1. i = NoRunner /\ l = "rebuild"
    BY <1>9
  <2>2. Took(p, i, l)
    <3> HIDE DEF i, l
    <3> QED
      BY <1>1, <1>6, <2>1, TakeFacts DEF Base, Labels
  <2> QED
    BY <1>6, <1>9, <2>1, <2>2
<1>10. CASE ~hit /\ ~c.query
  <2>1. i = NoRunner /\ l = IF IsFull(p) THEN "replay" ELSE "fail"
    BY <1>10
  <2>2. Took(p, i, l)
    <3> HIDE DEF i, l
    <3> QED
      BY <1>1, <1>6, <2>1, TakeFacts DEF Base, Labels
  <2> QED
    BY <1>5, <1>6, <1>10, <2>1, <2>2
<1> QED
  BY <1>3, <1>7, <1>8, <1>9, <1>10

\* The lookup.
LEMMA LookupBase ==
    ASSUME Base, NEW p \in Pollers, Lookup(p)
    PROVE  Base'
<1> DEFINE c == call[p]
<1>1. PICK i \in Runners \cup {NoRunner}, l \in {"answer", "resume", "rebuild", "replay", "fail"} :
                 /\ Took(p, i, l)
                 /\ i # NoRunner <=> l \in {"answer", "resume"}
                 /\ i # NoRunner => i = slot[c.run] /\ c.first # 1
                 /\ l \in {"answer", "rebuild"} <=> c.query
                 /\ l = "resume" => c.first = last[i] + 1
                 /\ l = "replay" => c.first = 1
                 /\ l \in {"resume", "fail"} => c.first # 1
  BY LookupFacts
<1>2. c \in Calls /\ CallFits(p) /\ c.pc = "lookup" /\ c.run \in Runs /\ c.runner = NoRunner
  BY DEF Base, TypeOK, Calls, Lookup, At, CallFits, Live
<1>3. UNCHANGED <<srv, slot, mutex, dying, last, runOf, stuck, leaked, late, faults, queries>>
  BY DEF Lookup, lock, runner, bounds
<1>4. call'[p].runner = i /\ call'[p].pc = l /\ \A q \in Pollers \ {p} : call'[q] = call[q]
  BY <1>1 DEF Took
<1>5. /\ pos' \in [Runs -> Nat] /\ Distinct(pos') /\ Within(pos')
      /\ \A q \in Runs : pos'[q] = 0 <=> pos[q] = 0
  <2>1. UNCHANGED pos \/ (pos[c.run] # 0 /\ pos' = ToFront(c.run))
    BY DEF Lookup, Get
  <2>2. CASE UNCHANGED pos
    BY <2>2 DEF Base, TypeOK, CacheFits, Distinct, Within
  <2>3. CASE pos[c.run] # 0 /\ pos' = ToFront(c.run)
    BY <1>2, <2>3, ToFrontFacts DEF Base
  <2> QED
    BY <2>1, <2>2, <2>3
<1>6. TypeOK' /\ EventsFit'
  BY <1>1, <1>3, <1>5 DEF Base, TypeOK, EventsFit, Took, Calls
<1>7. i # NoRunner => runOf[i] = c.run
  BY <1>1, <1>2 DEF Base, CacheFits
<1>8. CallFits(p)'
  BY <1>1, <1>2, <1>3, <1>4, <1>7, CacheAssumption DEF Took, CallFits, Live
<1>9. \A q \in Pollers : CallFits(q)'
  BY <1>3, <1>4, <1>8, OthersFit
<1>10. CacheFits'
  BY <1>3, <1>5 DEF Base, CacheFits, Distinct, Within
<1>11. Referenced' \subseteq Referenced
  BY <1>1, <1>2, <1>3, <1>4, <1>6, RefersNext, Refers DEF Base, Referenced
<1>12. MutexFits'
  BY <1>2, <1>3, <1>4, <1>11 DEF Base, MutexFits
<1>13. \A q \in Pollers : call[q].pc \in {"abort", "hung"} => call'[q] = call[q]
  BY <1>2, <1>4
<1>14. StuckKept'
  BY <1>3, <1>13 DEF Base, StuckKept
<1> QED
  BY <1>6, <1>9, <1>10, <1>12, <1>14 DEF Base

\* Destructors return: the runners outside S are left alone.
LEMMA DestroyFacts ==
    ASSUME TypeOK, NEW S, Destroy(S)
    PROVE  /\ last' \in [Runners -> Nat] /\ runOf' \in [Runners -> Runs \cup {"nil"}]
           /\ late' \subseteq Runners /\ late' = late \ S
           /\ \A i \in Runners \ S : last'[i] = last[i] /\ runOf'[i] = runOf[i]
BY DEF Destroy, TypeOK

\* The displaced runners are gone, the mutex is unlocked.
LEMMA UnlockBase ==
    ASSUME Base, NEW p \in Pollers, Unlock(p)
    PROVE  Base'
<1>1. mutex = p /\ call[p].pc \in {"putting", "aborting", "erasing"} /\ CallFits(p)
      /\ call[p] \in Calls
  BY DEF Unlock, Base, MutexFits, TypeOK, Calls
<1>2. PICK l \in {"respond", "fail", "return"} :
          call' = [call EXCEPT ![p].pc = l] /\ (l = "respond" => call[p].pc = "putting")
  BY <1>1 DEF Unlock, At
<1>3. Took(p, call[p].runner, l)
  BY <1>2, MoveFacts DEF Base, Labels
<1>4. UNCHANGED <<srv, pos, slot, stuck, leaked, faults, queries>>
      /\ mutex' = NoPoller /\ dying' = {} /\ Destroy(dying)
  BY DEF Unlock, cache, bounds
<1>5. /\ last' \in [Runners -> Nat] /\ runOf' \in [Runners -> Runs \cup {"nil"}]
      /\ late' \subseteq Runners
      /\ \A i \in Runners \ dying : runOf'[i] = runOf[i]
  BY <1>4, DestroyFacts DEF Base
<1>6. TypeOK' /\ EventsFit'
  BY <1>3, <1>4, <1>5 DEF Base, TypeOK, EventsFit, Took, Calls
<1>7. \A j \in Referenced : runOf'[j] = runOf[j]
  BY <1>5, Refers DEF Base, MutexFits
<1>8. call[p].runner \in Runners => runOf'[call[p].runner] = runOf[call[p].runner]
  BY <1>7, Refers DEF Base
<1>9. CallFits(p)'
  BY <1>1, <1>2, <1>3, <1>8 DEF Took, CallFits, Live
<1>10. \A q \in Pollers : CallFits(q)'
  BY <1>3, <1>7, <1>9, OthersFit DEF Took
<1>11. CacheFits'
  BY <1>4, <1>7, Refers DEF Base, CacheFits
<1>12. MutexFits'
  BY <1>4, CacheAssumption DEF MutexFits
<1>13. \A q \in Pollers : call[q].pc \in {"abort", "hung"} => call'[q] = call[q]
  BY <1>1, <1>3 DEF Took
<1>14. StuckKept'
  BY <1>4, <1>13 DEF Base, StuckKept
<1> QED
  BY <1>6, <1>10, <1>11, <1>12, <1>14 DEF Base

\* A call ends: what the step makes of the calls and the references.
LEMMA ReturnFacts ==
    ASSUME Base, NEW p \in Pollers, Return(p)
    PROVE  /\ call' \in [Pollers -> Calls] /\ call'[p] = NoCall
           /\ \A q \in Pollers \ {p} : call'[q] = call[q]
           /\ UNCHANGED <<srv, pos, slot, mutex, dying, stuck, leaked, faults, queries>>
           /\ call[p].pc = "return"
           /\ Referenced' \subseteq Referenced
           /\ last' \in [Runners -> Nat] /\ runOf' \in [Runners -> Runs \cup {"nil"}]
           /\ late' \subseteq Runners /\ late' = late \ (Referenced \ Referenced')
           /\ \A i \in Referenced' : last'[i] = last[i] /\ runOf'[i] = runOf[i]
<1>1. /\ call' \in [Pollers -> Calls] /\ call'[p] = NoCall
      /\ \A q \in Pollers \ {p} : call'[q] = call[q]
  BY NoCallFacts DEF Return, Base, TypeOK, Calls
<1>2. UNCHANGED <<srv, pos, slot, mutex, dying, stuck, leaked, faults, queries>>
      /\ call[p].pc = "return" /\ Destroy(Referenced \ Referenced')
  BY DEF Return, cache, lock, bounds, At
<1>3. Referenced' \subseteq Referenced
  BY <1>1, <1>2, NoCallFacts, CacheAssumption DEF Referenced
<1>4. Referenced' \subseteq Runners
  BY DEF Referenced
<1>5. /\ last' \in [Runners -> Nat] /\ runOf' \in [Runners -> Runs \cup {"nil"}]
      /\ late' \subseteq Runners /\ late' = late \ (Referenced \ Referenced')
      /\ \A i \in Runners \ (Referenced \ Referenced') : last'[i] = last[i] /\ runOf'[i] = runOf[i]
  BY <1>2, DestroyFacts DEF Base
<1> QED
  BY <1>1, <1>2, <1>3, <1>4, <1>5

\* Handle() returns.
LEMMA ReturnBase ==
    ASSUME Base, NEW p \in Pollers, Return(p)
    PROVE  Base'
<1>1. /\ call' \in [Pollers -> Calls] /\ call'[p] = NoCall
      /\ \A q \in Pollers \ {p} : call'[q] = call[q]
      /\ UNCHANGED <<srv, pos, slot, mutex, dying, stuck, leaked, faults, queries>>
      /\ call[p].pc = "return"
      /\ Referenced' \subseteq Referenced
      /\ last' \in [Runners -> Nat] /\ runOf' \in [Runners -> Runs \cup {"nil"}]
      /\ late' \subseteq Runners
      /\ \A i \in Referenced' : runOf'[i] = runOf[i]
  BY ReturnFacts
<1>2. TypeOK' /\ EventsFit'
  BY <1>1 DEF Base, TypeOK, EventsFit, Calls
<1>3. CallFits(p)'
  BY <1>1, NoCallFacts, CacheAssumption DEF CallFits, Live
<1>4. ASSUME NEW q \in Pollers \ {p} PROVE CallFits(q)'
  <2>1. call[q].runner \in Runners => runOf'[call[q].runner] = runOf[call[q].runner]
    BY <1>1, <1>2, <1>4, RefersNext
  <2> QED
    BY <1>1, <2>1 DEF Base, CallFits, Live
<1>5. CacheFits'
  <2>1. \A r \in Runs : slot[r] \in Runners => runOf'[slot[r]] = runOf[slot[r]]
    BY <1>1, <1>2, RefersNext
  <2> QED
    BY <1>1, <2>1 DEF Base, CacheFits
<1>6. MutexFits'
  BY <1>1 DEF Base, MutexFits
<1>7. \A q \in Pollers : call[q].pc \in {"abort", "hung"} => call'[q] = call[q]
  BY <1>1
<1>8. StuckKept'
  BY <1>1, <1>7 DEF Base, StuckKept
<1> QED
  BY <1>2, <1>3, <1>4, <1>5, <1>6, <1>8 DEF Base

-----------------------------------------------------------------------------
(***************************************************************************)
(* First layer: the server's steps, and the layer as a whole.              *)
(***************************************************************************)
\* A poll hands out the next attempt.
LEMMA PollFacts ==
    ASSUME TypeOK, NEW p \in Pollers, NEW r \in Runs, Poll(p, r)
    PROVE  LET d == call'[p]
               s == srv[r]
               t == srv'[r]
           IN  /\ call' \in [Pollers -> Calls] /\ \A q \in Pollers \ {p} : call'[q] = call[q]
               /\ call[p].pc = "idle" /\ s.wft = "pending"
               /\ d.pc = "lookup" /\ d.run = r /\ d.query = FALSE /\ d.runner = NoRunner
               /\ d.token = s.token + 1 /\ d.upto = s.events + 1
               /\ d.first = IF s.sticky THEN s.prev + 1 ELSE 1
               /\ srv' \in [Runs -> Servers] /\ \A q \in Runs \ {r} : srv'[q] = srv[q]
               /\ t.wft = "started" /\ t.token = s.token + 1 /\ t.events = s.events + 1
               /\ t.prev = s.prev /\ t.attempt = s.attempt /\ t.sticky = s.sticky
               /\ t.closed = s.closed
               /\ UNCHANGED <<pos, slot, mutex, dying, last, runOf, stuck, leaked, late, faults,
                              queries>>
<1> DEFINE s == srv[r]
           tk == s.token + 1
           f == IF s.sticky THEN s.prev + 1 ELSE 1
           u == s.events + 1
           d == [NoCall EXCEPT !.pc = "lookup", !.run = r, !.token = tk, !.first = f, !.upto = u]
           t == [s EXCEPT !.wft = "started", !.token = tk, !.events = u]
<1>1. s \in Servers
  BY DEF TypeOK, Servers
<1>2. tk \in Nat /\ f \in Nat /\ u \in Nat
  BY <1>1 DEF Servers
<1>3. call' = [call EXCEPT ![p] = d]
  BY DEF Poll
<1>4. srv' = [srv EXCEPT ![r] = t]
  BY DEF Poll, TypeOK
<1>5. call[p].pc = "idle" /\ s.wft = "pending"
      /\ UNCHANGED <<pos, slot, mutex, dying, last, runOf, stuck, leaked, late, faults, queries>>
  BY DEF Poll, cache, lock, runner, bounds
<1> HIDE DEF s, tk, f, u
<1>6. t \in Servers /\ t.wft = "started" /\ t.token = tk /\ t.events = u
      /\ t.prev = s.prev /\ t.attempt = s.attempt
  BY <1>1, <1>2 DEF Servers
<1>7. t.sticky = s.sticky /\ t.closed = s.closed
  BY <1>1 DEF Servers
<1>8. /\ d \in Calls /\ d.pc = "lookup" /\ d.run = r /\ d.query = FALSE /\ d.runner = NoRunner
      /\ d.token = tk /\ d.upto = u /\ d.first = f
  BY <1>2 DEF NoCall, Calls, Labels
<1> HIDE DEF d, t
<1>9. /\ call' \in [Pollers -> Calls] /\ call'[p] = d
      /\ \A q \in Pollers \ {p} : call'[q] = call[q]
  BY <1>3, <1>8 DEF TypeOK, Calls
<1>10. srv' \in [Runs -> Servers] /\ srv'[r] = t /\ \A q \in Runs \ {r} : srv'[q] = srv[q]
  BY <1>4, <1>6, ServerTyped
<1> QED
  BY <1>5, <1>6, <1>7, <1>8, <1>9, <1>10 DEF s, tk, f, u

\* A query brings no history along, or all of it.
LEMMA QueryFacts ==
    ASSUME TypeOK, EventsFit, NEW p \in Pollers, NEW r \in Runs, PollQuery(p, r)
    PROVE  LET d == call'[p]
           IN  /\ call' \in [Pollers -> Calls] /\ \A q \in Pollers \ {p} : call'[q] = call[q]
               /\ call[p].pc = "idle"
               /\ d.pc = "lookup" /\ d.run = r /\ d.query = TRUE /\ d.runner = NoRunner
               /\ d.asOf = LastCompleted(srv[r])
               /\ d.first = IF srv[r].sticky THEN 0 ELSE 1
               /\ queries' \in Nat
               /\ UNCHANGED <<srv, pos, slot, mutex, dying, last, runOf, stuck, leaked, late, faults>>
<1> DEFINE s == srv[r]
           f == IF s.sticky THEN 0 ELSE 1
           u == IF s.sticky THEN 0 ELSE s.events
           a == LastCompleted(s)
           d == [NoCall EXCEPT !.pc = "lookup", !.run = r, !.query = TRUE, !.first = f,
                               !.upto = u, !.asOf = a]
<1>1. s \in Servers
  BY DEF TypeOK, Servers
<1>2. f \in Nat /\ u \in Nat /\ a \in Nat
  BY <1>1 DEF Servers, LastCompleted, EventsFit
<1>3. call' = [call EXCEPT ![p] = d]
  BY DEF PollQuery
<1>4. call[p].pc = "idle" /\ queries' \in Nat
      /\ UNCHANGED <<srv, pos, slot, mutex, dying, last, runOf, stuck, leaked, late, faults>>
  BY DEF PollQuery, cache, lock, runner, TypeOK
<1> HIDE DEF s, f, u, a
<1>5. /\ d \in Calls /\ d.pc = "lookup" /\ d.run = r /\ d.query = TRUE /\ d.runner = NoRunner
      /\ d.asOf = a /\ d.first = f
  BY <1>2 DEF NoCall, Calls, Labels
<1> HIDE DEF d
<1>6. /\ call' \in [Pollers -> Calls] /\ call'[p] = d
      /\ \A q \in Pollers \ {p} : call'[q] = call[q]
  BY <1>3, <1>5 DEF TypeOK, Calls
<1> QED
  BY <1>4, <1>5, <1>6 DEF s, a, f

\* A handler takes a task or a query up.
LEMMA PollBase ==
    ASSUME Base, NEW p \in Pollers, NEW r \in Runs, Poll(p, r) \/ PollQuery(p, r)
    PROVE  Base'
<1>1. /\ call' \in [Pollers -> Calls] /\ \A q \in Pollers \ {p} : call'[q] = call[q]
      /\ call[p].pc = "idle" /\ call'[p].pc = "lookup" /\ call'[p].run = r
      /\ call'[p].runner = NoRunner /\ faults' \in Nat /\ queries' \in Nat
      /\ UNCHANGED <<pos, slot, mutex, dying, last, runOf, stuck, leaked, late>>
  <2>1. TypeOK /\ faults \in Nat /\ queries \in Nat
    BY DEF Base, TypeOK
  <2>2. CASE Poll(p, r)
    BY <2>1, <2>2, PollFacts
  <2>3. CASE PollQuery(p, r)
    BY <2>1, <2>3, QueryFacts DEF Base
  <2> QED
    BY <2>2, <2>3
<1>2. srv' \in [Runs -> Servers] /\ EventsFit'
  <2>1. CASE Poll(p, r)
    <3>1. /\ srv' \in [Runs -> Servers] /\ \A q \in Runs \ {r} : srv'[q] = srv[q]
          /\ srv[r].wft = "pending" /\ srv'[r].events = srv[r].events + 1
      BY <2>1, PollFacts DEF Base
    <3>2. \A q \in Runs : srv[q].events \in Nat
      BY DEF Base, TypeOK
    <3> QED
      BY <3>1, <3>2 DEF Base, EventsFit
  <2>2. CASE PollQuery(p, r)
    BY <2>2, QueryFacts DEF Base, TypeOK, Servers, EventsFit
  <2> QED
    BY <2>1, <2>2
<1>3. TypeOK'
  BY <1>1, <1>2 DEF Base, TypeOK, Calls, Servers
<1>4. CallFits(p)'
  BY <1>1, CacheAssumption DEF CallFits, Live
<1>5. \A q \in Pollers : CallFits(q)'
  BY <1>1, <1>4, OthersFit
<1>6. CacheFits'
  BY <1>1 DEF Base, CacheFits
<1>7. call[p].runner = NoRunner
  BY <1>1 DEF Base, CallFits
<1>8. Referenced' = Referenced
  BY <1>1, <1>7, CacheAssumption DEF Referenced
<1>9. MutexFits'
  BY <1>1, <1>8 DEF Base, MutexFits
<1>10. \A q \in Pollers : call[q].pc \in {"abort", "hung"} => call'[q] = call[q]
  BY <1>1
<1>11. StuckKept'
  BY <1>1, <1>10 DEF Base, StuckKept
<1> QED
  BY <1>2, <1>3, <1>5, <1>6, <1>9, <1>11 DEF Base

\* What a new task does to the server's record.
LEMMA NewTaskFacts ==
    ASSUME TypeOK, NEW r \in Runs, NewTask(r)
    PROVE  LET s == srv[r]
               t == srv'[r]
           IN  /\ srv' \in [Runs -> Servers] /\ \A q \in Runs \ {r} : srv'[q] = srv[q]
               /\ s.wft = "none" /\ t.wft = "pending" /\ t.events = s.events + 1
               /\ t.prev = s.prev /\ t.attempt = s.attempt /\ t.sticky = s.sticky
               /\ t.token = s.token /\ ~s.closed /\ t.closed = s.closed
<1> DEFINE s == srv[r]
           u == s.events + 1
           t == [s EXCEPT !.wft = "pending", !.events = u]
<1>1. s \in Servers
  BY DEF TypeOK, Servers
<1>2. u \in Nat
  BY <1>1 DEF Servers
<1>3. srv' = [srv EXCEPT ![r] = t] /\ s.wft = "none" /\ ~s.closed
  BY DEF NewTask, TypeOK
<1> HIDE DEF s, u
<1>4. t \in Servers /\ t.wft = "pending" /\ t.events = u /\ t.token = s.token
      /\ t.prev = s.prev /\ t.attempt = s.attempt
  BY <1>1, <1>2 DEF Servers
<1>5. t.sticky = s.sticky /\ t.closed = s.closed
  BY <1>1 DEF Servers
<1> HIDE DEF t
<1>6. srv' \in [Runs -> Servers] /\ srv'[r] = t /\ \A q \in Runs \ {r} : srv'[q] = srv[q]
  BY <1>3, <1>4, ServerTyped
<1> QED
  BY <1>3, <1>4, <1>5, <1>6 DEF s, u

\* The server goes on: something new for the run, or a task that timed out.
LEMMA ServerBase ==
    ASSUME Base, NEW r \in Runs, NewTask(r) \/ TaskTimeout(r)
    PROVE  Base'
<1>1. UNCHANGED <<call, pos, slot, mutex, dying, last, runOf, stuck, leaked, late, faults, queries>>
  BY DEF NewTask, TaskTimeout, cache, lock, runner, bounds
<1>2. srv' \in [Runs -> Servers] /\ EventsFit'
  <2>1. CASE NewTask(r)
    <3>1. /\ srv' \in [Runs -> Servers] /\ \A q \in Runs \ {r} : srv'[q] = srv[q]
          /\ srv[r].wft = "none" /\ srv'[r].events = srv[r].events + 1
          /\ srv'[r].wft = "pending"
      BY <2>1, NewTaskFacts DEF Base
    <3>2. \A q \in Runs : srv[q].events \in Nat
      BY DEF Base, TypeOK
    <3> QED
      BY <3>1, <3>2 DEF Base, EventsFit
  <2>2. CASE TaskTimeout(r)
    <3> DEFINE s == Failed(srv[r])
    <3>1. s \in Servers /\ s.wft = "pending" /\ s.events >= 1
      BY <2>2, FailedFacts DEF Base, TaskTimeout
    <3>2. srv'[r] = s /\ srv' \in [Runs -> Servers] /\ \A q \in Runs \ {r} : srv'[q] = srv[q]
      BY <2>2, <3>1, ServerTyped DEF Base, TaskTimeout
    <3> HIDE DEF s
    <3> QED
      BY <3>1, <3>2 DEF Base, EventsFit
  <2> QED
    BY <2>1, <2>2
<1>3. TypeOK'
  BY <1>1, <1>2 DEF Base, TypeOK, Servers
<1>4. \A q \in Pollers : CallFits(q)'
  BY <1>1 DEF Base, CallFits, Live
<1>5. CacheFits' /\ StuckKept'
  BY <1>1 DEF Base, CacheFits, StuckKept
<1>6. Referenced' = Referenced
  BY <1>1 DEF Referenced
<1>7. MutexFits'
  BY <1>1, <1>6 DEF Base, MutexFits
<1> QED
  BY <1>2, <1>3, <1>4, <1>5, <1>7 DEF Base

\* A worker starts with an empty cache.
LEMMA BaseInit == Init => Base
<1> SUFFICES ASSUME Init PROVE Base
  OBVIOUS
<1>1. NewRun \in Servers /\ NewRun.events = 1 /\ NewRun.wft = "none"
  BY DEF NewRun, Servers
<1>2. RetriedRun \in Servers /\ RetriedRun.events = 4
  BY DEF RetriedRun, NewRun, Servers
<1>3. PICK S \in SUBSET Retried : srv = [r \in Runs |-> IF r \in S THEN RetriedRun ELSE NewRun]
  BY DEF Init
<1>4. srv \in [Runs -> Servers] /\ EventsFit
  BY <1>1, <1>2, <1>3 DEF EventsFit
<1>5. call \in [Pollers -> Calls] /\ \A p \in Pollers : call[p] = NoCall
  BY NoCallFacts DEF Init
<1>6. TypeOK
  BY <1>4, <1>5 DEF Init, TypeOK, Servers, Calls
<1>7. \A p \in Pollers : CallFits(p)
  BY <1>5, NoCallFacts, CacheAssumption DEF CallFits, Live
<1>8. CacheFits /\ StuckKept /\ MutexFits
  BY CacheAssumption DEF Init, CacheFits, StuckKept, MutexFits
<1> QED
  BY <1>4, <1>6, <1>7, <1>8 DEF Base

\* The first layer is inductive.
LEMMA BaseStep == Base /\ [Next]_vars => Base'
<1> SUFFICES ASSUME Base, [Next]_vars PROVE Base'
  OBVIOUS
<1>1. ASSUME NEW p \in Pollers, Handle(p) PROVE Base'
  BY <1>1, LookupBase, ResumedBase, RebuiltBase, PutRunnerBase, EraseBase, EndsBase, UnlockBase,
     RespondBase, ReturnBase, Zenon DEF Handle
<1>2. ASSUME NEW p \in Pollers, Fault(p) PROVE Base'
  BY <1>2, ResumeDeadlocksBase, RebuiltBase, RespondBase, EndsBase, Zenon DEF Fault
<1>3. CASE UNCHANGED vars
  <2>1. Referenced' = Referenced
    BY <1>3 DEF vars, Referenced
  <2>2. TypeOK' /\ CacheFits' /\ StuckKept' /\ EventsFit' /\ \A p \in Pollers : CallFits(p)'
    BY <1>3 DEF vars, Base, TypeOK, CacheFits, StuckKept, EventsFit, CallFits, Live
  <2>3. MutexFits'
    BY <1>3, <2>1 DEF vars, Base, MutexFits
  <2> QED
    BY <2>2, <2>3 DEF Base
<1> QED
  BY <1>1, <1>2, <1>3, PollBase, ServerBase, Zenon DEF Next

\* Places taken once each in 1..Capacity are no more than Capacity.
LEMMA PlacesCounted ==
    ASSUME TypeOK, CacheFits, Capacity # 0
    PROVE  Cardinality({r \in Runs : pos[r] # 0}) <= Capacity
<1> DEFINE S == {r \in Runs : pos[r] # 0}
           f == [r \in S |-> pos[r]]
<1>1. Capacity \in Nat /\ IsFiniteSet(Runs)
  BY CacheAssumption
<1>2. IsFiniteSet(S)
  BY <1>1, FS_Subset
<1>3. IsFiniteSet(1..Capacity) /\ Cardinality(1..Capacity) = Capacity
  BY <1>1, FS_Interval
<1>4. f \in Injection(S, 1..Capacity)
  <2>1. \A r \in S : pos[r] \in 1..Capacity
    BY <1>1 DEF TypeOK, CacheFits
  <2>2. \A q, r \in S : pos[q] = pos[r] => q = r
    BY DEF CacheFits
  <2> QED
    BY <2>1, <2>2 DEF Injection, IsInjective
<1>5. Cardinality(S) <= Cardinality(1..Capacity)
  BY <1>3, <1>4, FS_Injection
<1> QED
  BY <1>3, <1>5

\* Spec implies TypeOK: the variables keep their types, for any number of runs,
\* pollers and faults.
THEOREM TypeCorrect == Spec => []TypeOK
<1>1. Base => TypeOK
  BY DEF Base
<1> QED
  BY <1>1, BaseInit, BaseStep, PTL DEF Spec

\* Spec implies CacheBounded: order_ and index_ agree and the cache never holds more
\* runs than max_cached_workflows, however the handlers' lookups, puts and erases are
\* interleaved.
THEOREM CacheStaysBounded == Spec => []CacheBounded
<1>1. Base => CacheBounded
  <2> SUFFICES ASSUME Base PROVE CacheBounded
    OBVIOUS
  <2>1. TypeOK /\ CacheFits
    BY DEF Base
  <2>2. Capacity # 0 => Cardinality({r \in Runs : pos[r] # 0}) <= Capacity
    BY <2>1, PlacesCounted
  <2> QED
    BY <2>1, <2>2 DEF CacheFits, CacheBounded
<1> QED
  BY <1>1, BaseInit, BaseStep, PTL DEF Spec

\* Spec implies AbandonedStayAlive: from the moment its function blocks, a runner is
\* held by the handler that found out, then by the list of leaked runners, and no
\* step of any handler destroys it.
THEOREM AbandonedAreKept == Spec => []AbandonedStayAlive
<1>1. Base => AbandonedStayAlive
  BY StuckReferenced DEF Base, AbandonedStayAlive
<1> QED
  BY <1>1, BaseInit, BaseStep, PTL DEF Spec

-----------------------------------------------------------------------------
(***************************************************************************)
(* Second layer: the steps.                                                *)
(***************************************************************************)
\* The call of q goes on: the same task, before its answer only if it was.
Kept(q) ==
    LET c == call[q]
        d == call'[q]
    IN  /\ d.run = c.run /\ d.query = c.query /\ d.first = c.first /\ d.upto = c.upto
        /\ d.token = c.token /\ d.asOf = c.asOf
        /\ d.pc = "idle" <=> c.pc = "idle"
        /\ d.pc \in Working /\ c.first # 1 => c.pc \in Working

\* The numbers of a task and of its run.
LEMMA Numbers ==
    ASSUME Base
    PROVE  /\ \A p \in Pollers : /\ call[p].first \in Nat /\ call[p].upto \in Nat
                                 /\ call[p].token \in Nat /\ call[p].asOf \in Nat
                                 /\ Live(p) => call[p].run \in Runs
           /\ \A r \in Runs : srv[r].events \in Nat /\ srv[r].prev \in Nat /\ srv[r].token \in Nat
BY DEF Base, TypeOK, CallFits

\* A step of one handler keeps all calls going.
LEMMA TookKeeps ==
    ASSUME NEW p \in Pollers, NEW i, NEW l \in Labels \ {"idle"}, Took(p, i, l),
           call[p].pc # "idle", l \in Working /\ call[p].first # 1 => call[p].pc \in Working
    PROVE  \A q \in Pollers : Kept(q)
BY DEF Took, Kept

\* What holds between two tasks holds on.
LEMMA ApartKept ==
    ASSUME AttemptsFit, \A q \in Pollers : Kept(q), NEW p \in Pollers, NEW q \in Pollers, p # q,
           Task(p)', Task(q)', call'[p].run = call'[q].run
    PROVE  AttemptsApart(p, q)'
<1>1. Kept(p) /\ Kept(q)
  OBVIOUS
<1>2. Task(p) /\ Task(q) /\ call[p].run = call[q].run
  BY <1>1 DEF Kept, Task, Live
<1>3. AttemptsApart(p, q)
  BY <1>2 DEF AttemptsFit
<1> QED
  BY <1>1, <1>3 DEF Kept, AttemptsApart

\* A run with a task is open; one that was closed by its function stays sticky.
LEMMA OpenRun ==
    ASSUME AttemptsFit, NEW r \in Runs
    PROVE  /\ srv[r].closed => srv[r].wft = "none"
           /\ srv[r].closed /\ srv[r].sticky => srv[r].events = srv[r].prev + 1
<1>1. RunFits(r)
  BY DEF AttemptsFit
<1> QED
  BY <1>1 DEF RunFits

\* The runs go on, and with them what the queries are measured against.
Onwards == \A r \in Runs : /\ srv[r].prev <= srv'[r].prev
                           /\ LastCompleted(srv[r]) <= LastCompleted(srv'[r])

LEMMA QueriesKept ==
    ASSUME Base, Base', AttemptsFit, Onwards, \A q \in Pollers : Kept(q) \/ ~call'[q].query
    PROVE  \A q \in Pollers : Live(q)' /\ call'[q].query => QueryFits(q)'
<1> SUFFICES ASSUME NEW q \in Pollers, Live(q)', call'[q].query PROVE QueryFits(q)'
  OBVIOUS
<1>1. Live(q) /\ Kept(q) /\ call[q].query /\ call[q].run \in Runs
  BY Numbers DEF Kept, Live
<1> DEFINE s == srv[call[q].run]
           t == srv'[call[q].run]
<1>2. call[q].asOf <= LastCompleted(s) /\ (call[q].first # 1 => call[q].asOf <= s.prev)
  BY <1>1 DEF AttemptsFit, QueryFits
<1>3. s.prev <= t.prev /\ LastCompleted(s) <= LastCompleted(t)
  BY <1>1 DEF Onwards
<1>4. s.prev \in Nat /\ t.prev \in Nat /\ s.events \in Nat /\ t.events \in Nat
      /\ call[q].asOf \in Nat
  BY <1>1 DEF Base, TypeOK
<1>5. LastCompleted(s) \in Int /\ LastCompleted(t) \in Int
  BY <1>4 DEF LastCompleted
<1>6. call'[q].asOf = call[q].asOf /\ call'[q].run = call[q].run /\ call'[q].first = call[q].first
  BY <1>1 DEF Kept
<1> HIDE DEF s, t
<1>7. call[q].asOf <= LastCompleted(t) /\ (call[q].first # 1 => call[q].asOf <= t.prev)
  BY <1>2, <1>3, <1>4, <1>5
<1> QED
  BY <1>6, <1>7 DEF QueryFits, t

\* Nothing happens at the server.
LEMMA OnwardsSame == ASSUME Base, UNCHANGED srv PROVE Onwards
<1>1. \A r \in Runs : srv[r].prev \in Nat /\ srv[r].events \in Nat
  BY Numbers
<1>2. \A r \in Runs : LastCompleted(srv[r]) \in Int
  BY <1>1 DEF LastCompleted
<1> QED
  BY <1>1, <1>2 DEF Onwards

\* An open run gets on.
LEMMA OnwardsOne ==
    ASSUME Base, Base', NEW r \in Runs, \A q \in Runs \ {r} : srv'[q] = srv[q],
           ~srv[r].closed, srv[r].prev <= srv'[r].prev,
           srv'[r].closed => srv[r].prev + 1 <= srv'[r].events
    PROVE  Onwards
<1>1. \A q \in Runs : /\ srv[q].prev \in Nat /\ srv[q].events \in Nat
                      /\ srv'[q].prev \in Nat /\ srv'[q].events \in Nat
  BY DEF Base, TypeOK
<1>2. LastCompleted(srv[r]) = srv[r].prev
  BY DEF LastCompleted
<1>3. srv[r].prev <= LastCompleted(srv'[r])
  BY <1>1 DEF LastCompleted
<1>4. \A q \in Runs : LastCompleted(srv[q]) \in Int
  BY <1>1 DEF LastCompleted
<1> QED
  BY <1>1, <1>2, <1>3, <1>4 DEF Onwards

\* The steps of the handlers that the server does not see.
LEMMA AttemptsKept ==
    ASSUME Base, Base', AttemptsFit, \A q \in Pollers : Kept(q), UNCHANGED srv
    PROVE  AttemptsFit'
<1>1. \A r \in Runs : RunFits(r)'
  BY DEF AttemptsFit, RunFits, Started
<1>2. ASSUME NEW q \in Pollers, Task(q)' PROVE AttemptFits(q)'
  <2>1. Task(q) /\ Kept(q)
    BY <1>2 DEF Kept, Task, Live
  <2>2. AttemptFits(q)
    BY <2>1 DEF AttemptsFit
  <2>3. Current(q)' <=> Current(q)
    BY <2>1 DEF Current, Kept
  <2> QED
    BY <2>1, <2>2, <2>3 DEF AttemptFits, Kept, Started
<1>3. \A q \in Pollers : Live(q)' /\ call'[q].query => QueryFits(q)'
  BY OnwardsSame, QueriesKept
<1> QED
  BY <1>1, <1>2, <1>3, ApartKept DEF AttemptsFit

\* The server gives up an attempt, and perhaps the run.
LEMMA AttemptsGivenUp ==
    ASSUME Base, Base', AttemptsFit, \A q \in Pollers : Kept(q), NEW r \in Runs,
           srv[r].wft = "started", \A q \in Runs \ {r} : srv'[q] = srv[q],
           srv'[r].wft # "started", srv'[r].sticky = FALSE,
           srv'[r].prev = srv[r].prev, srv'[r].token = srv[r].token,
           \/ srv'[r].events = srv[r].events + 1
           \/ srv'[r].events = srv[r].events - 1 /\ srv[r].attempt # 1,
           srv'[r].closed => srv'[r].wft = "none" /\ srv'[r].events = srv[r].events + 1
    PROVE  AttemptsFit'
<1> DEFINE s == srv[r]
           t == srv'[r]
<1>1. /\ t.wft # "started" /\ t.sticky = FALSE /\ t.prev = s.prev /\ t.token = s.token
      /\ t.events = s.events + 1 \/ (t.events = s.events - 1 /\ s.attempt # 1)
      /\ t.closed => t.wft = "none" /\ t.events = s.events + 1
      /\ \A q \in Runs \ {r} : srv'[q] = srv[q]
  OBVIOUS
<1>2. s.events \in Nat /\ s.prev \in Nat /\ s.token \in Nat
  BY Numbers
<1>3. s.prev + 2 <= s.events /\ (s.sticky => s.attempt = 1)
  BY <1>2 DEF AttemptsFit, RunFits, Started
<1> HIDE DEF s, t
<1>4. \A q \in Runs : RunFits(q)'
  <2>1. RunFits(r)'
    BY <1>1, <1>2, <1>3 DEF RunFits, Started, t
  <2>2. \A q \in Runs \ {r} : RunFits(q)'
    BY <1>1 DEF AttemptsFit, RunFits, Started
  <2> QED
    BY <2>1, <2>2
<1>5. ASSUME NEW q \in Pollers, Task(q)' PROVE AttemptFits(q)'
  <2>1. Task(q) /\ Kept(q)
    BY <1>5 DEF Kept, Task, Live
  <2>2. AttemptFits(q)
    BY <2>1 DEF AttemptsFit
  <2>3. call[q].run \in Runs /\ call[q].first \in Nat /\ call[q].upto \in Nat
    BY <2>1, Numbers DEF Task
  <2>4. CASE call[q].run # r
    <3>1. Current(q)' <=> Current(q)
      BY <1>1, <2>1, <2>3, <2>4 DEF Current, Kept
    <3> QED
      BY <1>1, <2>1, <2>2, <2>3, <2>4, <3>1 DEF AttemptFits, Kept, Started
  <2>5. CASE call[q].run = r
    <3>1. ~Current(q)'
      BY <1>1, <2>1, <2>5 DEF Current, Kept, t
    <3>2. call[q].token <= s.token /\ call[q].first \in 1..(s.prev + 1) /\ call[q].first <= call[q].upto
      BY <2>2, <2>5 DEF AttemptFits, s
    <3>3. call[q].first # 1 /\ call[q].pc \in Working => call[q].upto + 1 <= t.events
      <4>1. CASE Current(q)
        BY <1>1, <1>2, <1>3, <2>2, <2>3, <2>5, <4>1 DEF AttemptFits, s
      <4>2. CASE ~Current(q)
        <5>1. call[q].first # 1 /\ call[q].pc \in Working => call[q].upto + 1 + Started(r) <= s.events
          BY <2>2, <2>5, <4>2 DEF AttemptFits, s
        <5>2. Started(r) = 1
          BY DEF Started
        <5> QED
          BY <1>1, <1>2, <2>3, <5>1, <5>2
      <4> QED
        BY <4>1, <4>2
    <3>4. Started(r)' = 0
      BY <1>1 DEF Started, t
    <3>5. call[q].upto + 1 + 0 = call[q].upto + 1
      BY <2>3
    <3> QED
      BY <1>1, <2>1, <2>5, <3>1, <3>2, <3>3, <3>4, <3>5 DEF AttemptFits, Kept, t
  <2> QED
    BY <2>4, <2>5
<1>6. \A q \in Pollers : Live(q)' /\ call'[q].query => QueryFits(q)'
  <2>1. ~s.closed
    BY OpenRun DEF s
  <2>2. s.prev <= t.prev /\ (t.closed => s.prev + 1 <= t.events)
    BY <1>1, <1>2, <1>3
  <2> QED
    BY <1>1, <2>1, <2>2, OnwardsOne, QueriesKept DEF s, t
<1> QED
  BY <1>4, <1>5, <1>6, ApartKept DEF AttemptsFit

LEMMA AttemptsFailed ==
    ASSUME Base, Base', AttemptsFit, \A q \in Pollers : Kept(q), NEW r \in Runs,
           srv[r].wft = "started", srv' = [srv EXCEPT ![r] = Failed(srv[r])]
    PROVE  AttemptsFit'
<1> DEFINE f == Failed(srv[r])
<1>1. /\ f \in Servers /\ f.wft = "pending" /\ f.sticky = FALSE
      /\ f.prev = srv[r].prev /\ f.token = srv[r].token /\ f.closed = srv[r].closed
      /\ f.events = IF srv[r].attempt = 1 THEN srv[r].events + 1 ELSE srv[r].events - 1
  BY FailedFacts DEF Base
<1>2. srv' = [srv EXCEPT ![r] = f] /\ TypeOK
  BY DEF Base
<1>3. ~srv[r].closed
  BY OpenRun
<1> HIDE DEF f
<1>4. srv'[r] = f /\ \A q \in Runs \ {r} : srv'[q] = srv[q]
  BY <1>1, <1>2, ServerTyped
<1> QED
  BY <1>1, <1>3, <1>4, AttemptsGivenUp

LEMMA AttemptsRunFailed ==
    ASSUME Base, Base', AttemptsFit, \A q \in Pollers : Kept(q), NEW r \in Runs,
           srv[r].wft = "started", srv' = [srv EXCEPT ![r] = RunFailed(srv[r])]
    PROVE  AttemptsFit'
<1> DEFINE f == RunFailed(srv[r])
<1>1. /\ f \in Servers /\ f.wft = "none" /\ f.sticky = FALSE
      /\ f.prev = srv[r].prev /\ f.token = srv[r].token /\ f.events = srv[r].events + 1
  BY RunFailedFacts DEF Base
<1>2. srv' = [srv EXCEPT ![r] = f] /\ TypeOK
  BY DEF Base
<1> HIDE DEF f
<1>3. srv'[r] = f /\ \A q \in Runs \ {r} : srv'[q] = srv[q]
  BY <1>1, <1>2, ServerTyped
<1> QED
  BY <1>1, <1>3, AttemptsGivenUp

\* The server takes the answer of the attempt of p.
LEMMA AttemptsCompleted ==
    ASSUME Base, Base', AttemptsFit, \A q \in Pollers : Kept(q), NEW p \in Pollers, Task(p), Current(p),
           call'[p].pc \notin Working, NEW r \in Runs, call[p].run = r,
           srv' = [srv EXCEPT ![r] = Completed(srv[r], p)]
    PROVE  AttemptsFit'
<1> DEFINE s == srv[r]
           t == srv'[r]
<1>1. call[p].upto \in Nat /\ call[p].first \in Nat
  BY Numbers DEF Task
<1>2. /\ t.wft = "none" /\ t.attempt = 1 /\ t.sticky = TRUE /\ t.prev = call[p].upto
      /\ t.events = call[p].upto + 1 /\ t.token = s.token
      /\ \A q \in Runs \ {r} : srv'[q] = srv[q]
  <2> DEFINE f == Completed(srv[r], p)
  <2>1. /\ f \in Servers /\ f.wft = "none" /\ f.attempt = 1 /\ f.sticky = TRUE
        /\ f.prev = call[p].upto /\ f.events = call[p].upto + 1 /\ f.token = s.token
    BY <1>1, CompletedFacts DEF Base
  <2>2. srv' = [srv EXCEPT ![r] = f] /\ TypeOK
    BY DEF Base
  <2> HIDE DEF f
  <2>3. t = f /\ \A q \in Runs \ {r} : srv'[q] = srv[q]
    BY <1>1, <2>1, <2>2, ServerTyped
  <2> QED
    BY <2>1, <2>3
<1>3. s.events \in Nat /\ s.prev \in Nat /\ s.token \in Nat
  BY <1>1, Numbers
<1>4. s.wft = "started" /\ s.token = call[p].token
  BY DEF Current
<1>5. Started(r) = 1
  BY <1>4 DEF Started
<1>6. s.prev + 2 <= s.events
  BY <1>1, <1>3, <1>5 DEF AttemptsFit, RunFits
<1>7. call[p].upto = s.events
  BY DEF AttemptsFit, AttemptFits
<1> HIDE DEF s, t
<1>8. \A q \in Runs : RunFits(q)'
  <2>1. RunFits(r)'
    BY <1>1, <1>2, <1>3, <1>6, <1>7 DEF RunFits, Started, t
  <2>2. \A q \in Runs \ {r} : RunFits(q)'
    BY <1>2 DEF AttemptsFit, RunFits, Started
  <2> QED
    BY <2>1, <2>2
<1>9. ASSUME NEW q \in Pollers, Task(q)' PROVE AttemptFits(q)'
  <2>1. Task(q) /\ Kept(q)
    BY <1>9 DEF Kept, Task, Live
  <2>2. AttemptFits(q)
    BY <2>1 DEF AttemptsFit
  <2>3. call[q].run \in Runs /\ call[q].first \in Nat /\ call[q].upto \in Nat
    BY <2>1, Numbers DEF Task
  <2>4. CASE call[q].run # r
    <3>1. Current(q)' <=> Current(q)
      BY <1>2, <2>1, <2>3, <2>4 DEF Current, Kept
    <3> QED
      BY <1>2, <2>1, <2>2, <2>3, <2>4, <3>1 DEF AttemptFits, Kept, Started
  <2>5. CASE call[q].run = r
    <3>1. ~Current(q)'
      BY <1>2, <2>1, <2>5 DEF Current, Kept, t
    <3>2. call[q].token <= t.token /\ call[q].first \in 1..(s.prev + 1) /\ call[q].first <= call[q].upto
      BY <1>2, <2>2, <2>5 DEF AttemptFits, s
    <3>3. call[q].first \in 1..(t.prev + 1) /\ call[q].first <= t.prev
      BY <1>1, <1>2, <1>3, <1>6, <1>7, <2>3, <3>2
    <3>4. call[q].first # 1 /\ call'[q].pc \in Working =>
             call[q].upto + 1 <= t.events /\ call[q].upto < t.prev
      <4>1. CASE q = p
        BY <4>1
      <4>2. CASE q # p
        <5>1. AttemptsApart(p, q)
          BY <2>1, <2>5, <4>2 DEF AttemptsFit
        <5>2. ~Current(q)
          BY <1>4, <2>5, <5>1 DEF AttemptsApart, Current, s
        <5>3. call[q].first # 1 /\ call[q].pc \in Working => call[q].upto + 1 + Started(r) <= s.events
          BY <2>2, <2>5, <5>2 DEF AttemptFits, s
        <5> QED
          BY <1>1, <1>2, <1>3, <1>5, <1>7, <2>1, <2>3, <5>3 DEF Kept
      <4> QED
        BY <4>1, <4>2
    <3>5. Started(r)' = 0 /\ call[q].upto + 1 + 0 = call[q].upto + 1
      BY <1>2, <2>3 DEF Started, t
    <3> QED
      BY <1>2, <2>1, <2>5, <3>1, <3>2, <3>3, <3>4, <3>5 DEF AttemptFits, Kept, t
  <2> QED
    BY <2>4, <2>5
<1>10. \A q \in Pollers : Live(q)' /\ call'[q].query => QueryFits(q)'
  <2>1. ~s.closed
    BY <1>4, OpenRun DEF s
  <2>2. s.prev <= t.prev /\ s.prev + 1 <= t.events
    BY <1>1, <1>2, <1>3, <1>6, <1>7
  <2> QED
    BY <1>2, <2>1, <2>2, OnwardsOne, QueriesKept DEF s, t
<1> QED
  BY <1>8, <1>9, <1>10, ApartKept DEF AttemptsFit

\* Something new for the run: the open attempts fall behind.
LEMMA AttemptsNewTask ==
    ASSUME Base, Base', AttemptsFit, NEW r \in Runs, NewTask(r)
    PROVE  AttemptsFit'
<1> DEFINE s == srv[r]
           t == srv'[r]
<1>1. /\ \A q \in Runs \ {r} : srv'[q] = srv[q]
      /\ s.wft = "none" /\ t.wft = "pending" /\ t.events = s.events + 1
      /\ t.prev = s.prev /\ t.attempt = s.attempt /\ t.sticky = s.sticky /\ t.token = s.token
      /\ ~s.closed /\ ~t.closed /\ UNCHANGED call
  BY NewTaskFacts DEF Base, NewTask
<1>2. s.events \in Nat /\ s.prev \in Nat /\ s.token \in Nat
  BY Numbers
<1>3. Started(r) = 0 /\ Started(r)' = 0 /\ \A q \in Runs \ {r} : Started(q)' = Started(q)
  BY <1>1 DEF Started
<1> HIDE DEF s, t
<1>4. \A q \in Runs : RunFits(q)'
  <2>1. RunFits(r)
    BY DEF AttemptsFit
  <2>2. RunFits(r)'
    BY <1>1, <1>2, <1>3, <2>1 DEF RunFits, s, t
  <2>3. \A q \in Runs \ {r} : RunFits(q)'
    BY <1>1, <1>3 DEF AttemptsFit, RunFits
  <2> QED
    BY <2>2, <2>3
<1>5. ASSUME NEW q \in Pollers, Task(q)' PROVE AttemptFits(q)'
  <2>1. Task(q)
    BY <1>1, <1>5 DEF Task, Live
  <2>2. AttemptFits(q)
    BY <2>1 DEF AttemptsFit
  <2>3. call[q].run \in Runs /\ call[q].first \in Nat /\ call[q].upto \in Nat
    BY <2>1, Numbers DEF Task
  <2>4. CASE call[q].run # r
    <3>1. Current(q)' <=> Current(q)
      BY <1>1, <2>1, <2>3, <2>4 DEF Current
    <3> QED
      BY <1>1, <1>3, <2>2, <2>3, <2>4, <3>1 DEF AttemptFits
  <2>5. CASE call[q].run = r
    <3>1. ~Current(q)' /\ ~Current(q)
      BY <1>1, <2>5 DEF Current, s, t
    <3>2. call[q].upto + 1 + Started(r) <= s.events => call[q].upto + 1 + Started(r)' <= t.events
      BY <1>1, <1>2, <1>3, <2>3
    <3> QED
      BY <1>1, <2>2, <2>5, <3>1, <3>2 DEF AttemptFits, s, t
  <2> QED
    BY <2>4, <2>5
<1>6. \A p, q \in Pollers : AttemptsApart(p, q) => AttemptsApart(p, q)'
  BY <1>1 DEF AttemptsApart
<1>7. \A q \in Pollers : Live(q)' /\ call'[q].query => QueryFits(q)'
  <2>1. s.prev <= t.prev
    BY <1>1, <1>2
  <2>2. \A q \in Pollers : Kept(q)
    BY <1>1 DEF Kept
  <2> QED
    BY <1>1, <2>1, <2>2, OnwardsOne, QueriesKept DEF s, t
<1>8. \A q \in Pollers : Task(q)' => Task(q)
  BY <1>1 DEF Task, Live
<1> QED
  BY <1>1, <1>4, <1>5, <1>6, <1>7, <1>8 DEF AttemptsFit

\* The next attempt starts where no other does.
LEMMA AttemptsPoll ==
    ASSUME Base, Base', AttemptsFit, NEW p \in Pollers, NEW r \in Runs, Poll(p, r)
    PROVE  AttemptsFit'
<1> DEFINE d == call'[p]
           s == srv[r]
           t == srv'[r]
<1>1. /\ \A q \in Pollers \ {p} : call'[q] = call[q]
      /\ call[p].pc = "idle" /\ s.wft = "pending"
      /\ d.pc = "lookup" /\ d.run = r /\ d.query = FALSE
      /\ d.token = s.token + 1 /\ d.upto = s.events + 1
      /\ d.first = IF s.sticky THEN s.prev + 1 ELSE 1
      /\ \A q \in Runs \ {r} : srv'[q] = srv[q]
      /\ t.wft = "started" /\ t.token = s.token + 1 /\ t.events = s.events + 1
      /\ t.prev = s.prev /\ t.attempt = s.attempt /\ t.sticky = s.sticky
      /\ ~s.closed /\ ~t.closed
  <2>1. s.wft = "pending" => ~s.closed
    BY OpenRun
  <2> QED
    BY <2>1, PollFacts DEF Base
<1>2. s.events \in Nat /\ s.prev \in Nat /\ s.token \in Nat
  BY Numbers
<1>3. Started(r) = 0 /\ Started(r)' = 1 /\ \A q \in Runs \ {r} : Started(q)' = Started(q)
  BY <1>1 DEF Started
<1>4. s.prev + 1 <= s.events /\ (s.sticky => s.prev >= 1 /\ s.attempt = 1)
  BY <1>2, <1>3 DEF AttemptsFit, RunFits
<1> HIDE DEF s, t, d
<1>5. \A q \in Runs : RunFits(q)'
  <2>1. RunFits(r)'
    BY <1>1, <1>2, <1>3, <1>4 DEF RunFits, t
  <2>2. \A q \in Runs \ {r} : RunFits(q)'
    BY <1>1, <1>3 DEF AttemptsFit, RunFits
  <2> QED
    BY <2>1, <2>2
<1>6. AttemptFits(p)'
  <2>1. Current(p)'
    BY <1>1 DEF Current, d, t
  <2>2. d.token <= t.token /\ d.first \in 1..(t.prev + 1) /\ d.first <= d.upto /\ d.upto = t.events
    BY <1>1, <1>2, <1>4
  <2>3. d.first = 1 => ~t.sticky
    BY <1>1, <1>2, <1>4
  <2>4. d.first # 1 => t.sticky /\ d.first = t.prev + 1
    BY <1>1, <1>2
  <2> QED
    BY <1>1, <2>1, <2>2, <2>3, <2>4 DEF AttemptFits, d, t
<1>7. ASSUME NEW q \in Pollers \ {p}, Task(q), call[q].run = r
      PROVE  /\ AttemptFits(q)'
             /\ call[q].token # d.token
             /\ d.first # 1 /\ call[q].first # 1 =>
                  /\ call[q].first # d.first /\ call[q].first # d.upto + 1
                  /\ call[q].pc \in Working => d.first # call[q].upto + 1
  <2>1. AttemptFits(q) /\ call'[q] = call[q]
    BY <1>1, <1>7 DEF AttemptsFit
  <2>2. call[q].first \in Nat /\ call[q].upto \in Nat /\ call[q].token \in Nat
    BY Numbers
  <2>3. ~Current(q)
    BY <1>1, <1>7 DEF Current, s
  <2>4. call[q].token <= s.token /\ call[q].first \in 1..(s.prev + 1)
        /\ call[q].first <= call[q].upto
    BY <1>7, <2>1 DEF AttemptFits, s
  <2>5. call[q].first # 1 =>
              /\ s.sticky => call[q].first <= s.prev
              /\ call[q].pc \in Working => /\ call[q].upto + 1 <= s.events
                                           /\ s.sticky => call[q].upto < s.prev
    BY <1>2, <1>3, <1>7, <2>1, <2>2, <2>3 DEF AttemptFits, s
  <2>6. call[q].token < t.token
    BY <1>1, <1>2, <2>2, <2>4
  <2>7. ~Current(q)'
    BY <1>1, <1>2, <1>7, <2>1, <2>2, <2>6 DEF Current, t
  <2>8. call[q].upto + 1 <= s.events => call[q].upto + 1 + Started(r)' <= t.events
    BY <1>1, <1>2, <1>3, <2>2
  <2>9. AttemptFits(q)'
    <3>1. call[q].token <= t.token /\ call[q].first \in 1..(t.prev + 1)
      BY <1>1, <1>2, <2>2, <2>4, <2>6
    <3> QED
      BY <1>1, <1>7, <2>1, <2>4, <2>5, <2>7, <2>8, <3>1 DEF AttemptFits, t
  <2>10. call[q].token # d.token
    BY <1>1, <1>2, <2>2, <2>4
  <2>11. ASSUME d.first # 1, call[q].first # 1
         PROVE  /\ call[q].first # d.first /\ call[q].first # d.upto + 1
                /\ call[q].pc \in Working => d.first # call[q].upto + 1
    BY <1>1, <1>2, <1>4, <2>2, <2>4, <2>5, <2>11
  <2> QED
    BY <2>9, <2>10, <2>11
<1>8. ASSUME NEW q \in Pollers \ {p}, Task(q), call[q].run # r PROVE AttemptFits(q)'
  <2>1. AttemptFits(q) /\ call'[q] = call[q] /\ call[q].run \in Runs
    BY <1>1, <1>8, Numbers DEF AttemptsFit, Task
  <2>2. Current(q)' <=> Current(q)
    BY <1>1, <1>8, <2>1 DEF Current
  <2> QED
    BY <1>1, <1>3, <1>8, <2>1, <2>2 DEF AttemptFits
<1>9. \A q \in Pollers \ {p} : Task(q)' <=> Task(q)
  BY <1>1 DEF Task, Live
<1>10. ASSUME NEW q \in Pollers, NEW w \in Pollers, q # w, Task(q)', Task(w)',
              call'[q].run = call'[w].run
       PROVE  AttemptsApart(q, w)'
  <2>1. CASE q = p
    <3>1. Task(w) /\ call[w].run = r /\ call'[w] = call[w]
      BY <1>1, <1>9, <1>10, <2>1 DEF d
    <3> QED
      BY <1>7, <1>10, <2>1, <3>1 DEF AttemptsApart, d
  <2>2. CASE w = p
    <3>1. Task(q) /\ call[q].run = r /\ call'[q] = call[q]
      BY <1>1, <1>9, <1>10, <2>2 DEF d
    <3> QED
      BY <1>7, <1>10, <2>2, <3>1 DEF AttemptsApart, d
  <2>3. CASE q # p /\ w # p
    <3>1. call'[q] = call[q] /\ call'[w] = call[w] /\ Task(q) /\ Task(w)
      BY <1>1, <1>9, <1>10, <2>3
    <3>2. AttemptsApart(q, w)
      BY <1>10, <3>1 DEF AttemptsFit
    <3> QED
      BY <3>1, <3>2 DEF AttemptsApart
  <2> QED
    BY <2>1, <2>2, <2>3
<1>11. \A q \in Pollers : Live(q)' /\ call'[q].query => QueryFits(q)'
  <2>1. s.prev <= t.prev
    BY <1>1, <1>2
  <2>2. \A q \in Pollers : Kept(q) \/ ~call'[q].query
    BY <1>1 DEF Kept, d
  <2> QED
    BY <1>1, <2>1, <2>2, OnwardsOne, QueriesKept DEF s, t
<1>12. \A q \in Pollers : Task(q)' => AttemptFits(q)'
  BY <1>6, <1>7, <1>8, <1>9
<1> QED
  BY <1>5, <1>10, <1>11, <1>12 DEF AttemptsFit

\* A call comes or goes that is no attempt, and the server is left alone.
LEMMA AttemptsOther ==
    ASSUME Base, Base', AttemptsFit, NEW p \in Pollers, UNCHANGED srv,
           \A q \in Pollers \ {p} : call'[q] = call[q], ~Task(p)',
           Live(p)' /\ call'[p].query => QueryFits(p)'
    PROVE  AttemptsFit'
<1>1. \A r \in Runs : RunFits(r)'
  BY DEF AttemptsFit, RunFits, Started
<1>2. \A q \in Pollers : Task(q)' => q # p /\ Task(q) /\ call'[q] = call[q]
  BY DEF Task, Live
<1>3. ASSUME NEW q \in Pollers, Task(q)' PROVE AttemptFits(q)'
  <2>1. AttemptFits(q) /\ call'[q] = call[q]
    BY <1>2, <1>3 DEF AttemptsFit
  <2>2. Current(q)' <=> Current(q)
    BY <2>1 DEF Current
  <2> QED
    BY <2>1, <2>2 DEF AttemptFits, Started
<1>4. ASSUME NEW q \in Pollers, NEW w \in Pollers, q # w, Task(q)', Task(w)',
             call'[q].run = call'[w].run
      PROVE  AttemptsApart(q, w)'
  BY <1>2, <1>4 DEF AttemptsFit, AttemptsApart
<1>5. \A q \in Pollers : Live(q)' /\ call'[q].query => QueryFits(q)'
  BY DEF AttemptsFit, Live, QueryFits
<1> QED
  BY <1>1, <1>3, <1>4, <1>5 DEF AttemptsFit

\* There are no attempts at first.
LEMMA AttemptsInit == Init => AttemptsFit
<1> SUFFICES ASSUME Init PROVE AttemptsFit
  OBVIOUS
<1>1. /\ NewRun.events = 1 /\ NewRun.prev = 0 /\ NewRun.wft = "none" /\ NewRun.sticky = FALSE
      /\ RetriedRun.events = 4 /\ RetriedRun.prev = 0 /\ RetriedRun.wft = "pending"
      /\ RetriedRun.sticky = FALSE /\ NewRun.closed = FALSE /\ RetriedRun.closed = FALSE
  BY DEF NewRun, RetriedRun
<1>2. \A r \in Runs : srv[r] \in {NewRun, RetriedRun}
  BY DEF Init
<1>3. \A r \in Runs : RunFits(r)
  BY <1>1, <1>2 DEF RunFits, Started
<1>4. \A p \in Pollers : ~Live(p)
  BY NoCallFacts DEF Init, Live
<1> QED
  BY <1>3, <1>4 DEF AttemptsFit, Task

\* The steps of a handler, short of its return, keep all calls going.
LEMMA HandlerKeeps ==
    ASSUME Base, NEW p \in Pollers, Handle(p) \/ Fault(p), ~Return(p)
    PROVE  \A q \in Pollers : Kept(q)
<1>1. TypeOK /\ CallFits(p) /\ call[p] \in Calls
  BY DEF Base, TypeOK, Calls
<1>2. CASE Resumed(p) \/ ResumeDeadlocks(p) \/ PutRunner(p) \/ Abort(p)
  <2>1. PICK l \in {"respond", "abort", "hung", "putting", "aborting"} :
            /\ call' = [call EXCEPT ![p].pc = l] /\ call[p].pc # "idle"
            /\ l = "respond" => call[p].pc = "resume"
    BY <1>2 DEF Resumed, ResumeDeadlocks, Blocked, PutRunner, Abort, At
  <2>2. Took(p, call[p].runner, l)
    BY <1>1, <2>1, MoveFacts DEF Labels
  <2> QED
    BY <2>1, <2>2, TookKeeps DEF Working, Labels
<1>3. CASE Finish(p) \/ Respond(p) \/ RespondFailed(p) \/ RespondFailRun(p) \/ CallLost(p) \/ RebuildFails(p) \/ Answer(p)
  <2>1. PICK l \in {"return", "erasing", "finish"} :
            call' = [call EXCEPT ![p].pc = l] /\ call[p].pc # "idle"
    BY <1>3 DEF Finish, Respond, RespondFailed, RespondFailRun, CallLost, RebuildFails, Answer, At
  <2>2. Took(p, call[p].runner, l)
    BY <1>1, <2>1, MoveFacts DEF Labels
  <2> QED
    BY <2>1, <2>2, TookKeeps DEF Working, Labels
<1>4. CASE Unlock(p)
  <2>1. call[p].pc \in {"putting", "aborting", "erasing"}
    BY <1>4 DEF Base, MutexFits, Unlock
  <2>2. PICK l \in {"respond", "fail", "return"} :
            call' = [call EXCEPT ![p].pc = l] /\ (l = "respond" => call[p].first = 1)
    BY <1>1, <1>4, <2>1 DEF Unlock, At, CallFits
  <2>3. Took(p, call[p].runner, l)
    BY <1>1, <2>2, MoveFacts DEF Labels
  <2> QED
    BY <2>1, <2>2, <2>3, TookKeeps DEF Working, Labels
<1>5. CASE Lookup(p)
  <2>1. PICK i \in Runners \cup {NoRunner}, l \in {"answer", "resume", "rebuild", "replay", "fail"} :
            Took(p, i, l)
    BY <1>5, LookupFacts
  <2>2. call[p].pc = "lookup"
    BY <1>5 DEF Lookup, At
  <2> QED
    BY <2>1, <2>2, TookKeeps DEF Working, Labels
<1>6. CASE \/ Replayed(p) \/ ReplayDeadlocks(p) \/ ReplayMismatch(p) \/ Rebuild(p) \/ RebuildHangs(p)
  <2>1. call[p].pc \in {"replay", "rebuild"}
    BY <1>6 DEF Replayed, ReplayDeadlocks, ReplayMismatch, Rebuild, RebuildHangs, At
  <2>2. call[p].upto \in Nat /\ srv[call[p].run].events \in Nat
    BY <1>1, <2>1, Numbers DEF Live
  <2>3. PICK n \in Nat, l \in {"put", "abort", "fail", "failrun", "answer", "hung"} : NewRunner(p, n, l)
    BY <1>6, <2>2 DEF Replayed, ReplayDeadlocks, Blocked, ReplayMismatch, Rebuild, RebuildHangs
  <2>4. PICK i \in Runners : Took(p, i, l)
    BY <2>3, NewRunnerFacts DEF Labels
  <2> QED
    BY <2>1, <2>4, TookKeeps DEF Working, Labels
<1> QED
  BY <1>2, <1>3, <1>4, <1>5, <1>6, Zenon DEF Handle, Fault

\* What a handler's step makes of the server's records.
LEMMA HandlerServer ==
    ASSUME NEW p \in Pollers, Handle(p) \/ Fault(p)
    PROVE  \/ UNCHANGED srv
           \/ /\ Respond(p) /\ Current(p)
              /\ srv' = [srv EXCEPT ![call[p].run] = Completed(srv[call[p].run], p)]
           \/ /\ RespondFailed(p) /\ Current(p)
              /\ srv' = [srv EXCEPT ![call[p].run] = Failed(srv[call[p].run])]
           \/ /\ RespondFailRun(p) /\ Current(p)
              /\ srv' = [srv EXCEPT ![call[p].run] = RunFailed(srv[call[p].run])]
BY DEF Handle, Fault, Lookup, Resumed, Replayed, PutRunner, Abort, Finish, Unlock, Respond,
       RespondFailed, RespondFailRun, Rebuild, Answer, Return, ResumeDeadlocks, ReplayDeadlocks, ReplayMismatch,
       CallLost, RebuildHangs, RebuildFails

\* The second layer is inductive.
LEMMA AttemptsStep == Base /\ Base' /\ AttemptsFit /\ [Next]_vars => AttemptsFit'
<1> SUFFICES ASSUME Base, Base', AttemptsFit, [Next]_vars PROVE AttemptsFit'
  OBVIOUS
<1>1. ASSUME NEW p \in Pollers, Handle(p) \/ Fault(p), ~Return(p) PROVE AttemptsFit'
  <2>1. \A q \in Pollers : Kept(q)
    BY <1>1, HandlerKeeps
  <2>2. CASE UNCHANGED srv
    BY <2>1, <2>2, AttemptsKept
  <2>3. CASE /\ Respond(p) /\ Current(p)
             /\ srv' = [srv EXCEPT ![call[p].run] = Completed(srv[call[p].run], p)]
    <3>1. call[p].pc = "respond" /\ Task(p) /\ call[p].run \in Runs
      BY <2>3 DEF Respond, At, Base, CallFits, Task, Live
    <3>2. PICK l \in {"finish", "return"} : call' = [call EXCEPT ![p].pc = l]
      BY <2>3 DEF Respond
    <3>3. call'[p].pc \notin Working
      BY <3>2, MoveFacts DEF Base, Took, Working, Labels
    <3> QED
      BY <2>1, <2>3, <3>1, <3>3, AttemptsCompleted
  <2>4. CASE /\ RespondFailed(p) /\ Current(p)
             /\ srv' = [srv EXCEPT ![call[p].run] = Failed(srv[call[p].run])]
    <3>1. call[p].run \in Runs
      BY <2>4, Numbers DEF RespondFailed, At, Live
    <3> QED
      BY <2>1, <2>4, <3>1, AttemptsFailed DEF Current
  <2>5. CASE /\ RespondFailRun(p) /\ Current(p)
             /\ srv' = [srv EXCEPT ![call[p].run] = RunFailed(srv[call[p].run])]
    <3>1. call[p].run \in Runs
      BY <2>5, Numbers DEF RespondFailRun, At, Live
    <3> QED
      BY <2>1, <2>5, <3>1, AttemptsRunFailed DEF Current
  <2> QED
    BY <1>1, <2>2, <2>3, <2>4, <2>5, HandlerServer
<1>2. ASSUME NEW p \in Pollers, Return(p) PROVE AttemptsFit'
  <2>1. call'[p] = NoCall /\ UNCHANGED srv /\ \A q \in Pollers \ {p} : call'[q] = call[q]
    BY <1>2, ReturnFacts
  <2>2. ~Live(p)'
    BY <2>1, NoCallFacts DEF Live
  <2> QED
    BY <2>1, <2>2, AttemptsOther DEF Task
<1>3. ASSUME NEW p \in Pollers, NEW r \in Runs, PollQuery(p, r) PROVE AttemptsFit'
  <2>1. /\ call'[p].query = TRUE /\ call'[p].run = r /\ call'[p].asOf = LastCompleted(srv[r])
        /\ call'[p].first = IF srv[r].sticky THEN 0 ELSE 1
        /\ UNCHANGED srv /\ \A q \in Pollers \ {p} : call'[q] = call[q]
    BY <1>3, QueryFacts DEF Base
  <2>2. srv[r].prev \in Nat /\ srv[r].events \in Nat /\ LastCompleted(srv[r]) \in Int
    BY Numbers DEF LastCompleted
  <2>3. srv[r].sticky => LastCompleted(srv[r]) <= srv[r].prev
    BY <2>2, OpenRun DEF LastCompleted
  <2>4. QueryFits(p)'
    BY <2>1, <2>2, <2>3 DEF QueryFits
  <2> QED
    BY <2>1, <2>4, AttemptsOther DEF Task
<1>4. ASSUME NEW r \in Runs, TaskTimeout(r) PROVE AttemptsFit'
  <2>1. \A q \in Pollers : Kept(q)
    BY <1>4 DEF TaskTimeout, Kept
  <2> QED
    BY <1>4, <2>1, AttemptsFailed DEF TaskTimeout
<1>5. CASE UNCHANGED vars
  <2>1. \A q \in Pollers : Kept(q)
    BY <1>5 DEF vars, Kept
  <2> QED
    BY <1>5, <2>1, AttemptsKept DEF vars
<1> QED
  BY <1>1, <1>2, <1>3, <1>4, <1>5, AttemptsPoll, AttemptsNewTask, Zenon DEF Next

-----------------------------------------------------------------------------
(***************************************************************************)
(* Third layer: the steps.                                                 *)
(***************************************************************************)
\* The call of q takes no runner and resumes none: it keeps its own, or lets it go.
Quiet(q) ==
    LET c == call[q]
        d == call'[q]
    IN  \/ d = c
        \/ /\ d.pc \notin {"put", "resume", "answer"}
           /\ d.pc \in {"putting", "respond"} => c.pc = "putting"
           /\ d.runner \in Runners =>
                 /\ c.pc # "idle" /\ d.runner = c.runner /\ d.run = c.run /\ d.query = c.query
                 /\ d.first = c.first /\ d.upto = c.upto /\ d.token = c.token

\* Steps in which no runner is made, resumed or put, and no answer is taken: they
\* leave the runners that are still referenced alone.
LEMMA RunnersQuiet ==
    ASSUME Base, Base', AttemptsFit, RunnersHold, \A q \in Pollers : Quiet(q), UNCHANGED stuck,
           \A i \in Referenced' : last'[i] = last[i] /\ runOf'[i] = runOf[i],
           \A i \in Referenced' : i \in late' <=> i \in late,
           \A r \in Runs : slot'[r] \in {slot[r], NoRunner},
           \A q \in Pollers : call[q].pc \in {"abort", "hung"} =>
              call'[q] = call[q] \/ \A r \in Runs : slot'[r] # call[q].runner,
           \A q \in Pollers : call'[q].pc \in {"resume", "putting", "respond"} /\ Current(q)' => Current(q),
           \A r \in Runs : srv'[r].prev = srv[r].prev /\ (~srv[r].sticky => ~srv'[r].sticky)
    PROVE  RunnersHold'
<1>1. /\ \A q \in Pollers : call'[q].runner \in Runners => call'[q].runner \in Referenced'
      /\ \A r \in Runs : slot'[r] \in Runners => slot'[r] \in Referenced' /\ slot'[r] = slot[r]
  <2>1. TypeOK'
    BY DEF Base
  <2> QED
    BY <2>1, RefersNext, CacheAssumption
<1>2. ASSUME NEW q \in Pollers
      PROVE  /\ call'[q].pc \in {"put", "resume", "answer"} => call'[q] = call[q]
             /\ call'[q].pc \in {"putting", "respond"} => call[q].pc \in {"putting", "respond"}
             /\ call'[q].runner \in Runners =>
                  /\ Live(q) /\ call'[q].runner = call[q].runner /\ call'[q].run = call[q].run
                  /\ call'[q].query = call[q].query /\ call'[q].first = call[q].first
                  /\ call'[q].upto = call[q].upto /\ call'[q].token = call[q].token
             /\ call'[q].pc \in {"put", "resume", "answer", "putting", "respond"} =>
                  call'[q].runner \in Runners
             /\ Live(q)' => call'[q].run \in Runs
  <2>1. CallFits(q) /\ CallFits(q)' /\ Quiet(q)
    BY DEF Base
  <2>2. call[q].runner \in Runners => Live(q)
    BY <2>1, CacheAssumption DEF CallFits, Live
  <2>3. call'[q].pc \in {"put", "resume", "answer", "putting", "respond"} => call'[q].runner \in Runners
    BY <2>1 DEF CallFits
  <2>4. Live(q)' => call'[q].run \in Runs
    BY <2>1 DEF CallFits
  <2> QED
    BY <2>1, <2>2, <2>3, <2>4 DEF Quiet, Live
<1>3. ASSUME NEW q \in Pollers PROVE OwnRunner(q)'
  <2>1. OwnRunner(q)
    BY DEF RunnersHold, RunnersFit
  <2>2. ASSUME At(q, "put")'
        PROVE  /\ \A w \in Pollers \ {q} : call'[w].runner # call'[q].runner
               /\ \A r \in Runs : slot'[r] # call'[q].runner
               /\ call'[q].runner \notin stuck'
    <3>1. At(q, "put") /\ call'[q] = call[q] /\ call[q].runner \in Runners
      BY <1>2, <2>2 DEF At
    <3>2. /\ \A w \in Pollers \ {q} : call[w].runner # call[q].runner
          /\ \A r \in Runs : slot[r] # call[q].runner
          /\ call[q].runner \notin stuck
      BY <2>1, <3>1 DEF OwnRunner
    <3> QED
      BY <1>1, <1>2, <3>1, <3>2
  <2>3. ASSUME Task(q)', call'[q].first = 1, call'[q].runner \in Runners,
               NEW w \in Pollers \ {q}, Task(w)', call'[w].first = 1,
               call'[w].runner = call'[q].runner
        PROVE  FALSE
    <3>1. Task(q) /\ call[q].first = 1 /\ call'[q].runner = call[q].runner
      BY <1>2, <2>3 DEF Task
    <3>2. Task(w) /\ call[w].first = 1 /\ call'[w].runner = call[w].runner
      BY <1>2, <2>3 DEF Task
    <3> QED
      BY <2>1, <2>3, <3>1, <3>2 DEF OwnRunner
  <2> QED
    BY <2>2, <2>3 DEF OwnRunner
<1>4. ASSUME NEW q \in Pollers PROVE LastFits(q)' /\ SlotFits(q)' /\ ReplayFits(q)'
  <2>1. LastFits(q) /\ SlotFits(q) /\ ReplayFits(q)
    BY DEF RunnersHold, RunnersFit
  <2>2. LastFits(q)'
    BY <1>1, <1>2, <2>1 DEF LastFits
  <2>3. SlotFits(q)'
    <3> SUFFICES ASSUME call'[q].pc \in {"resume", "putting", "respond"}, Current(q)'
                 PROVE  slot'[call'[q].run] \in {NoRunner, call'[q].runner} \cup late'
      BY DEF SlotFits
    <3>1. /\ call[q].pc \in {"resume", "putting", "respond"} /\ Current(q)
          /\ call'[q].run = call[q].run /\ call'[q].runner = call[q].runner /\ call[q].run \in Runs
      BY <1>2 DEF Live
    <3>2. slot[call[q].run] \in {NoRunner, call[q].runner} \cup late
      BY <2>1, <3>1 DEF SlotFits
    <3>3. slot'[call[q].run] \in Runners \cup {NoRunner}
      BY <3>1 DEF Base, TypeOK
    <3> QED
      BY <1>1, <3>1, <3>2, <3>3
  <2>4. ReplayFits(q)'
    <3> SUFFICES ASSUME call'[q].pc \in {"putting", "respond"}, call'[q].first = 1,
                        slot'[call'[q].run] = call'[q].runner, call'[q].runner \notin late'
                 PROVE  ~srv'[call'[q].run].sticky /\ srv'[call'[q].run].prev < call'[q].upto
      BY DEF ReplayFits
    <3>1. /\ call[q].pc \in {"putting", "respond"} /\ call[q].first = 1
          /\ call'[q].run = call[q].run /\ call'[q].runner = call[q].runner /\ call[q].run \in Runs
          /\ call'[q].upto = call[q].upto /\ call'[q].runner \in Runners
      BY <1>2 DEF Live
    <3>2. slot[call[q].run] = call[q].runner /\ call[q].runner \notin late
      BY <1>1, <3>1
    <3> QED
      BY <2>1, <3>1, <3>2 DEF ReplayFits
  <2> QED
    BY <2>2, <2>3, <2>4
<1>5. ASSUME NEW r \in Runs PROVE StuckFits(r)' /\ SlotFresh(r)'
  <2>1. StuckFits(r) /\ SlotFresh(r)
    BY DEF RunnersHold, RunnersFit
  <2>2. SlotFresh(r)'
    BY <1>1, <2>1 DEF SlotFresh
  <2>3. ASSUME slot'[r] \in stuck'
        PROVE  \E q \in Pollers : /\ Halted(q)' /\ ~call'[q].query /\ call'[q].runner = slot'[r]
                                  /\ call'[q].first # 1 /\ call'[q].first = last'[slot'[r]] + 1
    <3>1. slot'[r] \in Runners
      BY <2>3 DEF Base, TypeOK
    <3>2. slot'[r] = slot[r] /\ slot[r] \in stuck /\ last'[slot[r]] = last[slot[r]]
      BY <1>1, <2>3, <3>1
    <3>3. PICK q \in Pollers : /\ Halted(q) /\ ~call[q].query /\ call[q].runner = slot[r]
                               /\ call[q].first # 1 /\ call[q].first = last[slot[r]] + 1
      BY <2>1, <3>2 DEF Halted, StuckFits
    <3>4. call'[q] = call[q]
      BY <3>2, <3>3 DEF Halted
    <3> QED
      BY <3>2, <3>3, <3>4 DEF Halted
  <2> QED
    BY <2>2, <2>3 DEF Halted, StuckFits
<1>6. ASSUME NEW q \in Pollers, At(q, "resume")'
      PROVE  LET i == call'[q].runner
             IN  /\ runOf'[i] = call'[q].run /\ call'[q].first = last'[i] + 1
                 /\ i \notin stuck'
                 /\ \A w \in Pollers : w # q /\ call'[w].runner = i =>
                       /\ ~At(w, "resume")'
                       /\ call'[w].pc \in {"putting", "respond"} => i \in late'
  <2> DEFINE i == call[q].runner
  <2>1. call'[q] = call[q] /\ At(q, "resume") /\ i \in Runners
    BY <1>2, <1>6 DEF At
  <2>2. /\ runOf[i] = call[q].run /\ call[q].first = last[i] + 1
        /\ i \notin stuck
        /\ \A w \in Pollers : w # q /\ call[w].runner = i =>
              /\ ~At(w, "resume")
              /\ call[w].pc \in {"putting", "respond"} => i \in late
    BY <2>1 DEF RunnersHold, ResumeFits
  <2>3. last'[i] = last[i] /\ runOf'[i] = runOf[i] /\ (i \in late' <=> i \in late)
    BY <1>1, <2>1
  <2> HIDE DEF i
  <2>4. ASSUME NEW w \in Pollers, w # q, call'[w].runner = i
        PROVE  ~At(w, "resume")' /\ (call'[w].pc \in {"putting", "respond"} => i \in late')
    <3>1. call[w].runner = i
      BY <1>2, <2>1, <2>4
    <3> QED
      BY <1>2, <2>2, <2>3, <2>4, <3>1 DEF At
  <2> QED
    BY <2>1, <2>2, <2>3, <2>4 DEF i
<1>7. ASSUME ~PageDeadline, NEW q \in Pollers, At(q, "answer")', call'[q].runner \notin late'
      PROVE  last'[call'[q].runner] >= call'[q].asOf
  <2>1. call'[q] = call[q] /\ At(q, "answer") /\ call[q].runner \in Runners
    BY <1>2, <1>7 DEF At
  <2>2. last'[call[q].runner] = last[call[q].runner] /\ call[q].runner \notin late
    BY <1>1, <1>7, <2>1
  <2> QED
    BY <1>7, <2>1, <2>2 DEF RunnersHold, QueryFresh
<1>8. RunnersFit'
  BY <1>3, <1>4, <1>5 DEF RunnersFit
<1>9. ResumeFits'
  BY <1>6 DEF ResumeFits
<1>10. ~PageDeadline => QueryFresh'
  BY <1>7 DEF QueryFresh
<1> QED
  BY <1>8, <1>9, <1>10 DEF RunnersHold

\* A call that lets its runner go, or keeps it without using it.
LEMMA TookQuiet ==
    ASSUME NEW p \in Pollers, NEW i, NEW l, Took(p, i, l), call[p].pc # "idle",
           i \in {call[p].runner, NoRunner}, l \notin {"put", "resume", "answer", "putting"},
           l = "respond" => call[p].pc = "putting"
    PROVE  \A q \in Pollers : Quiet(q)
<1>1. \A q \in Pollers \ {p} : Quiet(q)
  BY DEF Took, Quiet
<1>2. Quiet(p)
  BY CacheAssumption DEF Took, Quiet
<1> QED
  BY <1>1, <1>2

\* An attempt that the server gives up is not current, and no other one becomes it.
LEMMA FailedQuiet ==
    ASSUME Base, NEW r \in Runs, srv[r].wft = "started",
           srv' = [srv EXCEPT ![r] = Failed(srv[r])]
    PROVE  /\ \A q \in Runs : srv'[q].prev = srv[q].prev /\ (~srv[q].sticky => ~srv'[q].sticky)
           /\ \A q \in Runs : srv'[q].wft = "started" => srv'[q] = srv[q]
<1> DEFINE f == Failed(srv[r])
<1>1. f \in Servers /\ f.wft = "pending" /\ f.sticky = FALSE /\ f.prev = srv[r].prev
  BY FailedFacts DEF Base
<1>2. srv' = [srv EXCEPT ![r] = f] /\ TypeOK
  BY DEF Base
<1> HIDE DEF f
<1>3. srv'[r] = f /\ \A q \in Runs \ {r} : srv'[q] = srv[q]
  BY <1>1, <1>2, ServerTyped
<1> QED
  BY <1>1, <1>3

LEMMA RunFailedQuiet ==
    ASSUME Base, NEW r \in Runs, srv' = [srv EXCEPT ![r] = RunFailed(srv[r])]
    PROVE  /\ \A q \in Runs : srv'[q].prev = srv[q].prev /\ (~srv[q].sticky => ~srv'[q].sticky)
           /\ \A q \in Runs : srv'[q].wft = "started" => srv'[q] = srv[q]
<1> DEFINE f == RunFailed(srv[r])
<1>1. f \in Servers /\ f.wft = "none" /\ f.sticky = FALSE /\ f.prev = srv[r].prev
  BY RunFailedFacts DEF Base
<1>2. srv' = [srv EXCEPT ![r] = f] /\ TypeOK
  BY DEF Base
<1> HIDE DEF f
<1>3. srv'[r] = f /\ \A q \in Runs \ {r} : srv'[q] = srv[q]
  BY <1>1, <1>2, ServerTyped
<1> QED
  BY <1>1, <1>3

\* Steps that move one call to an end, and perhaps fail its attempt.
LEMMA EndsRunners ==
    ASSUME Base, Base', AttemptsFit, RunnersHold, NEW p \in Pollers,
           \/ Answer(p) \/ RebuildFails(p) \/ CallLost(p) \/ RespondFailed(p) \/ RespondFailRun(p)
           \/ Respond(p) /\ ~Current(p)
           \/ Finish(p) /\ ~Done(call[p].runner)
    PROVE  RunnersHold'
<1>1. call' = [call EXCEPT ![p].pc = "return"]
      /\ call[p].pc \in {"answer", "rebuild", "respond", "fail", "failrun", "finish"}
  BY DEF Answer, RebuildFails, CallLost, RespondFailed, RespondFailRun, Respond, Finish, At
<1>2. Took(p, call[p].runner, "return")
  BY <1>1, MoveFacts DEF Base, Labels
<1>3. UNCHANGED <<slot, last, runOf, stuck, late>>
  BY DEF Answer, RebuildFails, CallLost, RespondFailed, RespondFailRun, Respond, Finish, cache, runner
<1>4. \A q \in Pollers : Quiet(q)
  BY <1>1, <1>2, TookQuiet
<1>5. \A q \in Pollers : /\ call'[q].run = call[q].run /\ call'[q].token = call[q].token
                         /\ call[q].pc \in {"abort", "hung"} => call'[q] = call[q]
  BY <1>1, <1>2 DEF Took
<1>6. \/ UNCHANGED srv
      \/ \E r \in Runs : srv[r].wft = "started" /\ srv' = [srv EXCEPT ![r] = Failed(srv[r])]
      \/ \E r \in Runs : srv' = [srv EXCEPT ![r] = RunFailed(srv[r])]
  <2>1. call[p].run \in Runs
    BY <1>1, Numbers DEF Live
  <2> QED
    BY <2>1 DEF Answer, RebuildFails, CallLost, RespondFailed, RespondFailRun, Respond, Finish, Current
<1>7. /\ \A r \in Runs : srv'[r].prev = srv[r].prev /\ (~srv[r].sticky => ~srv'[r].sticky)
      /\ \A r \in Runs : srv'[r].wft = "started" => srv'[r] = srv[r]
  BY <1>6, FailedQuiet, RunFailedQuiet
<1>8. \A q \in Pollers : call'[q].pc \in {"resume", "putting", "respond"} /\ Current(q)' => Current(q)
  <2>1. \A q \in Pollers : call'[q].pc \in {"resume", "putting", "respond"} => call'[q].run \in Runs
    BY DEF Base, CallFits, Live
  <2> QED
    BY <1>5, <1>7, <2>1 DEF Current
<1>9. \A r \in Runs : slot'[r] \in {slot[r], NoRunner}
  BY <1>3
<1> QED
  BY <1>3, <1>4, <1>5, <1>7, <1>8, <1>9, RunnersQuiet

\* A runner is taken out of the cache.
LEMMA EraseRunners ==
    ASSUME Base, Base', AttemptsFit, RunnersHold, NEW p \in Pollers,
           Abort(p) \/ (Finish(p) /\ Done(call[p].runner))
    PROVE  RunnersHold'
<1>1. PICK l \in {"aborting", "erasing"} :
          call' = [call EXCEPT ![p].pc = l] /\ call[p].pc \in {"abort", "finish"}
  BY DEF Abort, Finish, At
<1>2. Took(p, call[p].runner, l)
  BY <1>1, MoveFacts DEF Base, Labels
<1>3. call[p].run \in Runs /\ call[p].runner \in Runners /\ CallFits(p)
  BY <1>1 DEF Base, CallFits, Live
<1>4. UNCHANGED <<srv, last, runOf, stuck, late>> /\ Erase(call[p].run)
  BY DEF Abort, Finish, runner
<1>5. slot'[call[p].run] = NoRunner /\ \A q \in Runs \ {call[p].run} : slot'[q] = slot[q]
  BY <1>3, <1>4, EraseFacts DEF Base
<1>6. \A q \in Pollers : Quiet(q)
  BY <1>1, <1>2, TookQuiet
<1>7. \A r \in Runs : slot'[r] \in {slot[r], NoRunner}
  BY <1>5
<1>8. \A r \in Runs : slot'[r] # call[p].runner
  <2>1. \A r \in Runs : slot[r] = call[p].runner => r = call[p].run
    BY <1>3 DEF Base, CacheFits, CallFits
  <2> QED
    BY <1>3, <1>5, <2>1, CacheAssumption
<1>9. \A q \in Pollers : call[q].pc \in {"abort", "hung"} =>
          call'[q] = call[q] \/ \A r \in Runs : slot'[r] # call[q].runner
  BY <1>2, <1>8 DEF Took
<1>10. \A q \in Pollers : Current(q)' => Current(q)
  BY <1>2, <1>4 DEF Current, Took
<1>11. \A r \in Runs : srv'[r].prev = srv[r].prev /\ (~srv[r].sticky => ~srv'[r].sticky)
  BY <1>4
<1> QED
  BY <1>4, <1>6, <1>7, <1>9, <1>10, <1>11, RunnersQuiet

\* The destructors under the mutex return: they were nobody's runners.
LEMMA UnlockRunners ==
    ASSUME Base, Base', AttemptsFit, RunnersHold, NEW p \in Pollers, Unlock(p)
    PROVE  RunnersHold'
<1>1. call[p].pc \in {"putting", "aborting", "erasing"}
  BY DEF Base, MutexFits, Unlock
<1>2. PICK l \in {"respond", "fail", "return"} :
          call' = [call EXCEPT ![p].pc = l] /\ (l = "respond" => call[p].pc = "putting")
  BY <1>1 DEF Unlock, At
<1>3. Took(p, call[p].runner, l)
  BY <1>2, MoveFacts DEF Base, Labels
<1>4. UNCHANGED <<srv, slot, stuck, leaked>> /\ Destroy(dying)
  BY DEF Unlock, cache
<1>5. Referenced' = Referenced
  BY <1>3, <1>4, MoveRefers
<1>6. \A i \in Referenced : i \in Runners \ dying
  BY Refers DEF Base, MutexFits
<1>7. /\ late' = late \ dying
      /\ \A i \in Runners \ dying : last'[i] = last[i] /\ runOf'[i] = runOf[i]
  BY <1>4, DestroyFacts DEF Base
<1>8. \A q \in Pollers : Quiet(q)
  BY <1>1, <1>2, <1>3, TookQuiet
<1>9. \A q \in Pollers : call[q].pc \in {"abort", "hung"} => call'[q] = call[q]
  BY <1>1, <1>3 DEF Took
<1>10. \A q \in Pollers : Current(q)' => Current(q)
  BY <1>3, <1>4 DEF Current, Took
<1>11. \A r \in Runs : slot'[r] \in {slot[r], NoRunner}
  BY <1>4
<1>12. \A r \in Runs : srv'[r].prev = srv[r].prev /\ (~srv[r].sticky => ~srv'[r].sticky)
  BY <1>4
<1>13. \A i \in Referenced' : last'[i] = last[i] /\ runOf'[i] = runOf[i]
  BY <1>5, <1>6, <1>7
<1>14. \A i \in Referenced' : i \in late' <=> i \in late
  BY <1>5, <1>6, <1>7
<1> QED
  BY <1>4, <1>8, <1>9, <1>10, <1>11, <1>12, <1>13, <1>14, RunnersQuiet

\* Handle() returns: what is destroyed was its alone.
LEMMA ReturnRunners ==
    ASSUME Base, Base', AttemptsFit, RunnersHold, NEW p \in Pollers, Return(p)
    PROVE  RunnersHold'
<1>1. /\ call'[p] = NoCall /\ \A q \in Pollers \ {p} : call'[q] = call[q]
      /\ UNCHANGED <<srv, slot, stuck>> /\ call[p].pc = "return"
      /\ late' = late \ (Referenced \ Referenced')
      /\ \A i \in Referenced' : last'[i] = last[i] /\ runOf'[i] = runOf[i]
  BY ReturnFacts
<1>2. \A q \in Pollers : Quiet(q)
  <2>1. Quiet(p)
    BY <1>1, NoCallFacts, CacheAssumption DEF Quiet
  <2> QED
    BY <1>1, <2>1 DEF Quiet
<1>3. \A q \in Pollers : call[q].pc \in {"abort", "hung"} => call'[q] = call[q]
  BY <1>1
<1>4. \A q \in Pollers : call'[q].pc \in {"resume", "putting", "respond"} /\ Current(q)' => Current(q)
  BY <1>1, NoCallFacts, CacheAssumption DEF Current
<1>5. \A r \in Runs : slot'[r] \in {slot[r], NoRunner}
  BY <1>1
<1>6. \A r \in Runs : srv'[r].prev = srv[r].prev /\ (~srv[r].sticky => ~srv'[r].sticky)
  BY <1>1
<1>7. \A i \in Referenced' : i \in late' <=> i \in late
  BY <1>1
<1> QED
  BY <1>1, <1>2, <1>3, <1>4, <1>5, <1>6, <1>7, RunnersQuiet

\* A handler takes a task or a query up.
LEMMA PollRunners ==
    ASSUME Base, Base', AttemptsFit, RunnersHold, NEW p \in Pollers, NEW r \in Runs,
           Poll(p, r) \/ PollQuery(p, r)
    PROVE  RunnersHold'
<1>1. /\ \A q \in Pollers \ {p} : call'[q] = call[q]
      /\ call[p].pc = "idle" /\ call'[p].pc = "lookup" /\ call'[p].runner = NoRunner
      /\ UNCHANGED <<slot, last, runOf, stuck, late>>
  <2>1. TypeOK
    BY DEF Base
  <2>2. CASE Poll(p, r)
    BY <2>1, <2>2, PollFacts
  <2>3. CASE PollQuery(p, r)
    BY <2>3, QueryFacts DEF Base
  <2> QED
    BY <2>2, <2>3
<1>2. \A q \in Pollers : Quiet(q)
  <2>1. Quiet(p)
    BY <1>1, CacheAssumption DEF Quiet
  <2> QED
    BY <1>1, <2>1 DEF Quiet
<1>3. \A q \in Pollers : call[q].pc \in {"abort", "hung"} => call'[q] = call[q]
  BY <1>1
<1>4. \A q \in Runs : srv'[q].prev = srv[q].prev /\ (~srv[q].sticky => ~srv'[q].sticky)
  BY PollFacts, QueryFacts DEF Base
<1>5. ASSUME NEW q \in Pollers, call'[q].pc \in {"resume", "putting", "respond"}, Current(q)'
      PROVE  Current(q)
  <2>1. q # p /\ call'[q] = call[q]
    BY <1>1, <1>5
  <2>2. CASE PollQuery(p, r)
    BY <1>5, <2>1, <2>2, QueryFacts DEF Base, Current
  <2>3. CASE Poll(p, r)
    <3>1. call[q].pc # "idle" /\ ~call[q].query
      BY <1>5, <2>1 DEF Base, CallFits
    <3>2. call[q].run \in Runs
      BY <3>1, Numbers DEF Live
    <3>3. CASE call[q].run # r
      <4>1. srv'[call[q].run] = srv[call[q].run]
        BY <2>3, <3>2, <3>3 DEF Poll, Base, TypeOK
      <4> QED
        BY <1>5, <2>1, <4>1 DEF Current
    <3>4. CASE call[q].run = r
      <4>1. call[q].token <= srv[r].token
        BY <3>1, <3>4 DEF AttemptsFit, AttemptFits, Task, Live
      <4>2. srv'[r].token = srv[r].token + 1
        BY <2>3, PollFacts DEF Base
      <4>3. call[q].token \in Nat /\ srv[r].token \in Nat
        BY Numbers
      <4>4. call[q].token = srv'[r].token
        BY <1>5, <2>1, <3>4 DEF Current
      <4> QED
        BY <4>1, <4>2, <4>3, <4>4
    <3> QED
      BY <3>3, <3>4
  <2> QED
    BY <2>2, <2>3
<1>6. \A q \in Runs : slot'[q] \in {slot[q], NoRunner}
  BY <1>1
<1> QED
  BY <1>1, <1>2, <1>3, <1>4, <1>5, <1>6, RunnersQuiet

\* The server goes on by itself.
LEMMA ServerRunners ==
    ASSUME Base, Base', AttemptsFit, RunnersHold, NEW r \in Runs, NewTask(r) \/ TaskTimeout(r)
    PROVE  RunnersHold'
<1>1. UNCHANGED <<call, slot, last, runOf, stuck, late>>
  BY DEF NewTask, TaskTimeout, cache, runner
<1>2. /\ \A q \in Runs : srv'[q].prev = srv[q].prev /\ (~srv[q].sticky => ~srv'[q].sticky)
      /\ \A q \in Runs : srv'[q].wft = "started" => srv'[q] = srv[q]
  <2>1. CASE NewTask(r)
    <3>1. /\ \A q \in Runs \ {r} : srv'[q] = srv[q]
          /\ srv'[r].wft = "pending" /\ srv'[r].prev = srv[r].prev /\ srv'[r].sticky = srv[r].sticky
      BY <2>1, NewTaskFacts DEF Base
    <3> QED
      BY <3>1
  <2>2. CASE TaskTimeout(r)
    BY <2>2, FailedQuiet DEF TaskTimeout
  <2> QED
    BY <2>1, <2>2
<1>3. \A q \in Pollers : Quiet(q)
  BY <1>1 DEF Quiet
<1>4. \A q \in Pollers : call'[q].pc \in {"resume", "putting", "respond"} /\ Current(q)' => Current(q)
  <2>1. \A q \in Pollers : call[q].pc \in {"resume", "putting", "respond"} => call[q].run \in Runs
    BY Numbers DEF Live
  <2> QED
    BY <1>1, <1>2, <2>1 DEF Current
<1>5. \A q \in Runs : slot'[q] \in {slot[q], NoRunner}
  BY <1>1
<1> QED
  BY <1>1, <1>2, <1>3, <1>4, <1>5, RunnersQuiet

\* What the invariant says of one handler, one run and one query.
LEMMA RunnersHoldFacts ==
    ASSUME RunnersHold
    PROVE  /\ \A p \in Pollers : OwnRunner(p) /\ LastFits(p) /\ SlotFits(p) /\ ReplayFits(p)
           /\ \A r \in Runs : StuckFits(r) /\ SlotFresh(r)
           /\ \A p \in Pollers : At(p, "resume") =>
                /\ runOf[call[p].runner] = call[p].run /\ call[p].first = last[call[p].runner] + 1
                /\ call[p].runner \notin stuck
                /\ \A q \in Pollers : q # p /\ call[q].runner = call[p].runner =>
                      /\ ~At(q, "resume")
                      /\ call[q].pc \in {"putting", "respond"} => call[p].runner \in late
BY DEF RunnersHold, RunnersFit, ResumeFits

\* A lookup that finds the runner at its checkpoint has found one that is parked, and
\* that nobody resumes or answers from.
LEMMA HitIsFree ==
    ASSUME Base, AttemptsFit, RunnersHold, NEW p \in Pollers, Task(p), call[p].first # 1,
           NEW r \in Runs, call[p].run = r, slot[r] \in Runners,
           call[p].first = last[slot[r]] + 1, call[p].runner = NoRunner
    PROVE  /\ slot[r] \notin stuck
           /\ \A q \in Pollers : call[q].runner = slot[r] =>
                 /\ ~At(q, "resume")
                 /\ call[q].pc \in {"putting", "respond"} => slot[r] \in late
<1> DEFINE i == slot[r]
<1>1. runOf[i] = r /\ last[i] \in Nat /\ AttemptFits(p)
  BY DEF Base, CacheFits, TypeOK, AttemptsFit
<1>2. ASSUME NEW q \in Pollers, call[q].runner = i, ~call[q].query, Live(q)
      PROVE  q # p /\ Task(q) /\ call[q].run = r /\ AttemptsApart(p, q)
  <2>1. q # p
    BY <1>2, CacheAssumption
  <2>2. call[q].run = r /\ Task(q)
    BY <1>1, <1>2 DEF Base, CallFits, Task
  <2> QED
    BY <2>1, <2>2 DEF AttemptsFit
<1>3. ASSUME i \in stuck PROVE FALSE
  <2>1. PICK q \in Pollers : /\ Halted(q) /\ ~call[q].query /\ call[q].runner = i
                             /\ call[q].first # 1 /\ call[q].first = last[i] + 1
    BY <1>3, RunnersHoldFacts DEF Halted, StuckFits
  <2>2. ~call[q].query /\ Live(q)
    BY <2>1 DEF Halted, Live
  <2> QED
    BY <1>2, <2>1, <2>2 DEF AttemptsApart
<1>4. ASSUME NEW q \in Pollers, call[q].runner = i, At(q, "resume") PROVE FALSE
  <2>1. ~call[q].query /\ Live(q) /\ call[q].first # 1
    BY <1>4 DEF Base, CallFits, At, Live
  <2>2. call[q].first = last[i] + 1
    BY <1>4, RunnersHoldFacts
  <2> QED
    BY <1>2, <1>4, <2>1, <2>2 DEF AttemptsApart
<1>5. ASSUME NEW q \in Pollers, call[q].runner = i, call[q].pc \in {"putting", "respond"}, i \notin late
      PROVE  FALSE
  <2>1. ~call[q].query /\ Live(q) /\ (call[q].pc = "putting" => call[q].first = 1)
    BY <1>5 DEF Base, CallFits, Live
  <2>2. last[i] = call[q].upto
    BY <1>5, RunnersHoldFacts DEF LastFits
  <2>3. CASE call[q].first # 1
    <3>1. call[q].pc \in Working
      BY <1>5, <2>1, <2>3 DEF Working
    <3> QED
      BY <1>2, <1>5, <2>1, <2>2, <2>3, <3>1 DEF AttemptsApart
  <2>4. CASE call[q].first = 1
    <3>1. call[q].run = r
      BY <1>2, <1>5, <2>1
    <3>2. ~srv[r].sticky /\ srv[r].prev < call[q].upto
      BY <1>5, <2>4, <3>1, RunnersHoldFacts DEF ReplayFits
    <3>3. call[p].first <= srv[r].prev + 1
      BY <1>1, Numbers DEF AttemptFits
    <3>4. srv[r].prev \in Nat /\ call[q].upto \in Nat /\ call[p].first \in Nat
      BY Numbers
    <3>5. call[p].first = call[q].upto + 1
      BY <2>2
    <3> QED
      BY <3>2, <3>3, <3>4, <3>5
  <2> QED
    BY <2>3, <2>4
<1> QED
  BY <1>3, <1>4, <1>5

\* The lookup.
LEMMA LookupRunners ==
    ASSUME Base, Base', AttemptsFit, RunnersHold, NEW p \in Pollers, Lookup(p)
    PROVE  RunnersHold'
<1> DEFINE c == call[p]
           r == c.run
<1>1. PICK i \in Runners \cup {NoRunner}, l \in {"answer", "resume", "rebuild", "replay", "fail"} :
                 /\ Took(p, i, l)
                 /\ i # NoRunner <=> l \in {"answer", "resume"}
                 /\ i # NoRunner => i = slot[c.run] /\ c.first # 1
                 /\ l \in {"answer", "rebuild"} <=> c.query
                 /\ l = "resume" => c.first = last[i] + 1
  BY LookupFacts
<1>2. c.pc = "lookup" /\ r \in Runs /\ c.runner = NoRunner
  BY DEF Base, Lookup, At, CallFits, Live
<1>3. UNCHANGED <<srv, slot, last, runOf, stuck, late>>
  BY DEF Lookup, runner
<1>4. /\ call'[p].runner = i /\ call'[p].pc = l /\ call'[p].run = r
      /\ call'[p].first = c.first /\ call'[p].query = c.query /\ call'[p].asOf = c.asOf
      /\ \A q \in Pollers \ {p} : call'[q] = call[q]
  BY <1>1 DEF Took
<1>5. \A q \in Pollers : Current(q)' <=> Current(q)
  BY <1>1, <1>3 DEF Current, Took
<1>6. CASE i = NoRunner
  <2>1. \A q \in Pollers : Quiet(q)
    BY <1>1, <1>2, <1>6, TookQuiet
  <2>2. \A q \in Pollers : call[q].pc \in {"abort", "hung"} => call'[q] = call[q]
    BY <1>2, <1>4
  <2>3. /\ \A q \in Runs : slot'[q] \in {slot[q], NoRunner}
        /\ \A q \in Runs : srv'[q].prev = srv[q].prev /\ (~srv[q].sticky => ~srv'[q].sticky)
    BY <1>3
  <2> QED
    BY <1>3, <1>5, <2>1, <2>2, <2>3, RunnersQuiet
<1>7. CASE i # NoRunner
  <2>1. i \in Runners /\ i = slot[r] /\ c.first # 1 /\ l \in {"answer", "resume"}
    BY <1>1, <1>7
  <2>2. ASSUME NEW q \in Pollers PROVE OwnRunner(q)'
    <3>1. OwnRunner(q)
      BY RunnersHoldFacts
    <3>2. CASE q = p
      BY <1>4, <2>1, <3>2 DEF OwnRunner, At, Task
    <3>3. CASE q # p
      BY <1>2, <1>3, <1>4, <2>1, <3>1, <3>3 DEF OwnRunner, At, Task, Live
    <3> QED
      BY <3>2, <3>3
  <2>3. \A q \in Pollers : LastFits(q)' /\ ReplayFits(q)'
    BY <1>3, <1>4, <2>1, RunnersHoldFacts DEF LastFits, ReplayFits
  <2>4. \A q \in Pollers : SlotFits(q)'
    BY <1>3, <1>4, <1>5, <2>1, RunnersHoldFacts DEF SlotFits
  <2>5. \A t \in Runs : StuckFits(t)' /\ SlotFresh(t)'
    <3>1. \A q \in Pollers : Halted(q) => q # p /\ call'[q] = call[q]
      BY <1>2, <1>4 DEF At, Halted
    <3> QED
      BY <1>3, <3>1, RunnersHoldFacts DEF Halted, StuckFits, SlotFresh, At
  <2>6. l = "resume" =>
           /\ i \notin stuck
           /\ \A q \in Pollers : call[q].runner = i =>
                 ~At(q, "resume") /\ (call[q].pc \in {"putting", "respond"} => i \in late)
    BY <1>1, <1>2, <2>1, HitIsFree DEF Task, Live
  <2>7. ResumeFits'
    <3>1. ASSUME NEW q \in Pollers, At(q, "resume")'
          PROVE  LET j == call'[q].runner
                 IN  /\ runOf'[j] = call'[q].run /\ call'[q].first = last'[j] + 1
                     /\ j \notin stuck'
                     /\ \A w \in Pollers : w # q /\ call'[w].runner = j =>
                           /\ ~At(w, "resume")'
                           /\ call'[w].pc \in {"putting", "respond"} => j \in late'
      <4>1. CASE q = p
        <5>1. l = "resume" /\ runOf[i] = r
          BY <1>2, <1>4, <2>1, <3>1, <4>1 DEF At, Base, CacheFits
        <5> QED
          BY <1>1, <1>3, <1>4, <2>6, <4>1, <5>1 DEF At
      <4>2. CASE q # p
        <5>1. At(q, "resume") /\ call'[q] = call[q]
          BY <1>4, <3>1, <4>2 DEF At
        <5>2. call'[p].runner = call[q].runner => l = "answer"
          BY <1>4, <2>1, <2>6, <5>1
        <5> QED
          BY <1>3, <1>4, <4>2, <5>1, <5>2, RunnersHoldFacts DEF At
      <4> QED
        BY <4>1, <4>2
    <3> QED
      BY <3>1 DEF ResumeFits
  <2>8. ~PageDeadline => QueryFresh'
    <3>1. ASSUME ~PageDeadline, NEW q \in Pollers, At(q, "answer")', call'[q].runner \notin late'
          PROVE  last'[call'[q].runner] >= call'[q].asOf
      <4>1. CASE q = p
        <5>1. last[i] >= srv[r].prev
          BY <1>2, <1>3, <1>4, <2>1, <3>1, <4>1, RunnersHoldFacts DEF SlotFresh
        <5>2. c.query /\ c.asOf <= srv[r].prev
          BY <1>1, <1>2, <1>4, <2>1, <3>1, <4>1 DEF AttemptsFit, QueryFits, At, Live
        <5>3. last[i] \in Nat /\ c.asOf \in Nat /\ srv[r].prev \in Nat
          BY <1>2, <2>1, Numbers DEF Base, TypeOK
        <5> QED
          BY <1>3, <1>4, <4>1, <5>1, <5>2, <5>3
      <4>2. CASE q # p
        BY <1>3, <1>4, <3>1, <4>2 DEF RunnersHold, QueryFresh, At
      <4> QED
        BY <4>1, <4>2
    <3> QED
      BY <3>1 DEF QueryFresh
  <2> QED
    BY <2>2, <2>3, <2>4, <2>5, <2>7, <2>8 DEF RunnersHold, RunnersFit
<1> QED
  BY <1>6, <1>7

\* ApplyAndResume returns: the runner is at the end of the task.
LEMMA ResumedRunners ==
    ASSUME Base, Base', AttemptsFit, RunnersHold, NEW p \in Pollers, Resumed(p)
    PROVE  RunnersHold'
<1> DEFINE c == call[p]
           i == c.runner
<1>1. Took(p, i, "respond")
  BY MoveFacts DEF Resumed, Base, Labels
<1>2. At(p, "resume") /\ c.pc = "resume" /\ i \in Runners /\ c.first # 1 /\ Task(p) /\ c.run \in Runs
  BY DEF Base, Resumed, At, CallFits, Task, Live
<1>3. UNCHANGED <<srv, slot, runOf, stuck, late>>
  BY DEF Resumed, cache
<1>4. last'[i] = c.upto /\ \A j \in Runners \ {i} : last'[j] = last[j]
  BY <1>2 DEF Resumed, Base, TypeOK
<1>5. /\ call'[p].runner = i /\ call'[p].pc = "respond" /\ call'[p].run = c.run
      /\ call'[p].first = c.first /\ call'[p].query = c.query /\ call'[p].upto = c.upto
      /\ \A q \in Pollers \ {p} : call'[q] = call[q]
  BY <1>1 DEF Took
<1>6. \A q \in Pollers : Current(q)' <=> Current(q)
  BY <1>1, <1>3 DEF Current, Took
<1>7. /\ runOf[i] = c.run /\ c.first = last[i] + 1 /\ i \notin stuck
      /\ \A q \in Pollers : q # p /\ call[q].runner = i =>
            ~At(q, "resume") /\ (call[q].pc \in {"putting", "respond"} => i \in late)
  BY <1>2, RunnersHoldFacts
<1>8. last[i] \in Nat /\ c.upto \in Nat /\ c.first \in Nat /\ c.upto > last[i]
  <2>1. AttemptFits(p)
    BY <1>2 DEF AttemptsFit
  <2>2. c.first <= c.upto
    BY <2>1 DEF AttemptFits
  <2>3. last[i] \in Nat /\ c.upto \in Nat /\ c.first \in Nat
    BY <1>2, Numbers DEF Base, TypeOK
  <2> QED
    BY <1>7, <2>2, <2>3
<1>9. \A q \in Pollers : q # p /\ call[q].pc = "put" => call[q].runner # i
  BY RunnersHoldFacts DEF OwnRunner, At
<1> HIDE DEF i
<1>10. ASSUME NEW q \in Pollers PROVE OwnRunner(q)'
  <2>1. OwnRunner(q)
    BY RunnersHoldFacts
  <2>2. CASE q = p
    BY <1>2, <1>5, <2>2 DEF OwnRunner, At, Task
  <2>3. CASE q # p
    <3>1. \A w \in Pollers : call'[w].runner = call[w].runner /\ (Task(w)' <=> Task(w))
                             /\ call'[w].first = call[w].first
      BY <1>2, <1>5 DEF Task, Live, i
    <3> QED
      BY <1>3, <1>5, <2>1, <2>3, <3>1 DEF OwnRunner, At
  <2> QED
    BY <2>2, <2>3
<1>11. ASSUME NEW q \in Pollers PROVE LastFits(q)'
  <2>1. CASE q = p
    BY <1>4, <1>5, <2>1 DEF LastFits
  <2>2. CASE q # p
    <3>1. LastFits(q) /\ call'[q] = call[q]
      BY <1>5, <2>2, RunnersHoldFacts
    <3>2. call[q].pc \in {"put", "putting", "respond"} => call[q].runner \in Runners
      BY DEF Base, CallFits
    <3>3. call[q].pc \in {"put", "putting", "respond"} /\ call[q].runner \notin late => call[q].runner # i
      BY <1>7, <1>9, <2>2
    <3> QED
      BY <1>3, <1>4, <3>1, <3>2, <3>3 DEF LastFits
  <2> QED
    BY <2>1, <2>2
<1>12. ASSUME NEW q \in Pollers PROVE SlotFits(q)' /\ ReplayFits(q)'
  <2>1. SlotFits(q) /\ ReplayFits(q)
    BY RunnersHoldFacts
  <2>2. CASE q = p
    BY <1>2, <1>3, <1>5, <1>6, <2>1, <2>2 DEF SlotFits, ReplayFits, i
  <2>3. CASE q # p
    BY <1>3, <1>5, <1>6, <2>1, <2>3 DEF SlotFits, ReplayFits
  <2> QED
    BY <2>2, <2>3
<1>13. ASSUME NEW r \in Runs PROVE StuckFits(r)' /\ SlotFresh(r)'
  <2>1. StuckFits(r) /\ SlotFresh(r) /\ slot[r] \in Runners \cup {NoRunner}
    BY RunnersHoldFacts DEF Base, TypeOK
  <2>2. \A q \in Pollers : Halted(q) => q # p /\ call'[q] = call[q]
    BY <1>2, <1>5 DEF At, Halted
  <2>3. StuckFits(r)'
    <3>1. slot[r] \in stuck => slot[r] \in Runners \ {i}
      BY <1>7 DEF Base, TypeOK
    <3> QED
      BY <1>3, <1>4, <2>1, <2>2, <3>1 DEF Halted, StuckFits, At
  <2>4. SlotFresh(r)'
    <3>1. CASE slot[r] = i
      <4>1. srv[r].prev \in Nat
        BY Numbers
      <4> QED
        BY <1>3, <1>4, <1>8, <2>1, <3>1, <4>1 DEF SlotFresh
    <3>2. CASE slot[r] # i
      BY <1>3, <1>4, <2>1, <3>2 DEF SlotFresh
    <3> QED
      BY <3>1, <3>2
  <2> QED
    BY <2>3, <2>4
<1>14. ResumeFits'
  <2>1. ASSUME NEW q \in Pollers, At(q, "resume")'
        PROVE  LET j == call'[q].runner
               IN  /\ runOf'[j] = call'[q].run /\ call'[q].first = last'[j] + 1
                   /\ j \notin stuck'
                   /\ \A w \in Pollers : w # q /\ call'[w].runner = j =>
                         /\ ~At(w, "resume")'
                         /\ call'[w].pc \in {"putting", "respond"} => j \in late'
    <3>1. q # p /\ call'[q] = call[q] /\ At(q, "resume")
      BY <1>5, <2>1 DEF At
    <3>2. call[q].runner \in Runners \ {i}
      BY <1>7, <3>1 DEF Base, CallFits, At
    <3> QED
      BY <1>3, <1>4, <1>5, <3>1, <3>2, RunnersHoldFacts DEF At
  <2> QED
    BY <2>1 DEF ResumeFits
<1>15. ~PageDeadline => QueryFresh'
  <2>1. ASSUME ~PageDeadline, NEW q \in Pollers, At(q, "answer")', call'[q].runner \notin late'
        PROVE  last'[call'[q].runner] >= call'[q].asOf
    <3>1. q # p /\ call'[q] = call[q] /\ At(q, "answer")
      BY <1>5, <2>1 DEF At
    <3>2. last[call[q].runner] >= call[q].asOf
      BY <1>3, <2>1, <3>1 DEF RunnersHold, QueryFresh
    <3>3. call[q].runner \in Runners /\ call[q].asOf \in Nat
      BY <3>1, Numbers DEF Base, CallFits, At
    <3> QED
      BY <1>4, <1>8, <3>1, <3>2, <3>3
  <2> QED
    BY <2>1 DEF QueryFresh
<1> QED
  BY <1>10, <1>11, <1>12, <1>13, <1>14, <1>15 DEF RunnersHold, RunnersFit

\* The function blocks: its runner is stuck, in the cache until the abort.
LEMMA ResumeDeadlocksRunners ==
    ASSUME Base, Base', AttemptsFit, RunnersHold, NEW p \in Pollers, ResumeDeadlocks(p)
    PROVE  RunnersHold'
<1> DEFINE c == call[p]
           i == c.runner
<1>1. PICK l \in {"abort", "hung"} : Took(p, i, l)
  BY MoveFacts DEF ResumeDeadlocks, Blocked, Base, Labels
<1>2. At(p, "resume") /\ c.pc = "resume" /\ i \in Runners /\ c.first # 1 /\ Task(p)
  BY DEF Base, ResumeDeadlocks, At, CallFits, Task, Live
<1>3. UNCHANGED <<srv, slot, last, runOf, late>> /\ stuck' = stuck \cup {i}
  BY DEF ResumeDeadlocks, cache
<1>4. /\ call'[p].runner = i /\ call'[p].pc = l /\ call'[p].run = c.run
      /\ call'[p].first = c.first /\ call'[p].query = c.query
      /\ \A q \in Pollers \ {p} : call'[q] = call[q]
  BY <1>1 DEF Took
<1>5. \A q \in Pollers : Current(q)' <=> Current(q)
  BY <1>1, <1>3 DEF Current, Took
<1>6. /\ runOf[i] = c.run /\ c.first = last[i] + 1
      /\ \A q \in Pollers : q # p /\ call[q].runner = i => ~At(q, "resume")
  BY <1>2, RunnersHoldFacts
<1> HIDE DEF i
<1>7. ASSUME NEW q \in Pollers PROVE OwnRunner(q)'
  <2>1. OwnRunner(q)
    BY RunnersHoldFacts
  <2>2. CASE q = p
    BY <1>2, <1>4, <2>2 DEF OwnRunner, At, Task
  <2>3. CASE q # p
    <3>1. \A w \in Pollers : call'[w].runner = call[w].runner /\ (Task(w)' <=> Task(w))
                             /\ call'[w].first = call[w].first
      BY <1>2, <1>4 DEF Task, Live, i
    <3>2. At(q, "put") => call[q].runner # i
      BY <2>1, <2>3 DEF OwnRunner, i
    <3> QED
      BY <1>3, <1>4, <2>1, <2>3, <3>1, <3>2 DEF OwnRunner, At
  <2> QED
    BY <2>2, <2>3
<1>8. ASSUME NEW q \in Pollers PROVE LastFits(q)' /\ SlotFits(q)' /\ ReplayFits(q)'
  <2>1. LastFits(q) /\ SlotFits(q) /\ ReplayFits(q)
    BY RunnersHoldFacts
  <2>2. CASE q = p
    BY <1>4, <2>2 DEF LastFits, SlotFits, ReplayFits
  <2>3. CASE q # p
    BY <1>3, <1>4, <1>5, <2>1, <2>3 DEF LastFits, SlotFits, ReplayFits
  <2> QED
    BY <2>2, <2>3
<1>9. ASSUME NEW r \in Runs PROVE StuckFits(r)' /\ SlotFresh(r)'
  <2>1. StuckFits(r) /\ SlotFresh(r)
    BY RunnersHoldFacts
  <2>2. CASE slot[r] = i
    <3>1. Halted(p)' /\ ~call'[p].query
      BY <1>2, <1>4 DEF Halted, Task
    <3> QED
      BY <1>2, <1>3, <1>4, <1>6, <2>1, <2>2, <3>1 DEF StuckFits, SlotFresh
  <2>3. CASE slot[r] # i
    <3>1. \A q \in Pollers : Halted(q) => q # p /\ call'[q] = call[q]
      BY <1>2, <1>4 DEF At, Halted
    <3> QED
      BY <1>3, <2>1, <2>3, <3>1 DEF Halted, StuckFits, SlotFresh, At
  <2> QED
    BY <2>2, <2>3
<1>10. ResumeFits'
  <2>1. ASSUME NEW q \in Pollers, At(q, "resume")'
        PROVE  LET j == call'[q].runner
               IN  /\ runOf'[j] = call'[q].run /\ call'[q].first = last'[j] + 1
                   /\ j \notin stuck'
                   /\ \A w \in Pollers : w # q /\ call'[w].runner = j =>
                         /\ ~At(w, "resume")'
                         /\ call'[w].pc \in {"putting", "respond"} => j \in late'
    <3>1. q # p /\ call'[q] = call[q] /\ At(q, "resume")
      BY <1>4, <2>1 DEF At
    <3>2. call[q].runner # i
      BY <1>6, <3>1
    <3> QED
      BY <1>3, <1>4, <3>1, <3>2, RunnersHoldFacts DEF At
  <2> QED
    BY <2>1 DEF ResumeFits
<1>11. ~PageDeadline => QueryFresh'
  <2>1. \A q \in Pollers : At(q, "answer")' => At(q, "answer") /\ call'[q] = call[q]
    BY <1>4 DEF At
  <2> QED
    BY <1>3, <2>1 DEF RunnersHold, QueryFresh
<1> QED
  BY <1>7, <1>8, <1>9, <1>10, <1>11 DEF RunnersHold, RunnersFit

\* A handler makes a runner that nobody knows: at the end of its task, or, for a
\* query, at the server's last event.
LEMMA NewRunnerRunners ==
    ASSUME Base, Base', AttemptsFit, RunnersHold, NEW p \in Pollers, NEW n \in Nat,
           NEW next \in {"put", "abort", "fail", "failrun", "answer", "hung"}, NewRunner(p, n, next),
           call[p].pc \in {"replay", "rebuild"},
           next = "put" => n = call[p].upto,
           next = "answer" /\ ~PageDeadline => n >= call[p].asOf,
           UNCHANGED <<srv, slot, late>>, stuck' \subseteq stuck \cup {call'[p].runner},
           stuck \subseteq stuck', next \in {"put", "answer"} => stuck' = stuck
    PROVE  RunnersHold'
<1> DEFINE c == call[p]
<1>1. PICK i \in Runners \ (Referenced \cup dying \cup stuck) :
              /\ Took(p, i, next)
              /\ last' = [last EXCEPT ![i] = n] /\ runOf' = [runOf EXCEPT ![i] = call[p].run]
  BY NewRunnerFacts DEF Labels
<1>2. last'[i] = n /\ \A j \in Runners \ {i} : last'[j] = last[j] /\ runOf'[j] = runOf[j]
  BY <1>1 DEF Base, TypeOK
<1>3. /\ call'[p].runner = i /\ call'[p].pc = next /\ call'[p].run = c.run
      /\ call'[p].first = c.first /\ call'[p].query = c.query /\ call'[p].upto = c.upto
      /\ call'[p].asOf = c.asOf
      /\ \A q \in Pollers \ {p} : call'[q] = call[q]
  BY <1>1 DEF Took
<1>4. /\ \A q \in Pollers : call[q].runner # i
      /\ \A r \in Runs : slot[r] # i
      /\ i \notin stuck
  BY <1>1, Refers DEF Base
<1>5. \A q \in Pollers : Current(q)' <=> Current(q)
  BY <1>1 DEF Current, Took
<1>6. \A r \in Runs : slot[r] \in Runners \cup {NoRunner}
  BY DEF Base, TypeOK
<1>7. ASSUME NEW q \in Pollers PROVE OwnRunner(q)'
  <2>1. CASE q = p
    BY <1>3, <1>4, <2>1 DEF OwnRunner, At
  <2>2. CASE q # p
    <3>1. OwnRunner(q) /\ call'[q] = call[q]
      BY <1>3, <2>2, RunnersHoldFacts
    <3>2. At(q, "put") => call[q].runner \notin stuck'
      BY <1>3, <1>4, <3>1 DEF OwnRunner
    <3>3. \A w \in Pollers : call'[w].runner = call[q].runner => w # p
      BY <1>3, <1>4
    <3> QED
      BY <1>3, <2>2, <3>1, <3>2, <3>3 DEF OwnRunner, At, Task, Live
  <2> QED
    BY <2>1, <2>2
<1>8. ASSUME NEW q \in Pollers PROVE LastFits(q)' /\ SlotFits(q)' /\ ReplayFits(q)'
  <2>1. CASE q = p
    BY <1>2, <1>3, <2>1 DEF LastFits, SlotFits, ReplayFits
  <2>2. CASE q # p
    <3>1. LastFits(q) /\ SlotFits(q) /\ ReplayFits(q) /\ call'[q] = call[q]
      BY <1>3, <2>2, RunnersHoldFacts
    <3>2. call[q].pc \in {"put", "putting", "respond"} => call[q].runner \in Runners \ {i}
      BY <1>4 DEF Base, CallFits
    <3> QED
      BY <1>2, <1>5, <3>1, <3>2 DEF LastFits, SlotFits, ReplayFits
  <2> QED
    BY <2>1, <2>2
<1>9. ASSUME NEW r \in Runs PROVE StuckFits(r)' /\ SlotFresh(r)'
  <2>1. StuckFits(r) /\ SlotFresh(r) /\ slot[r] # i
    BY <1>4, RunnersHoldFacts
  <2>2. SlotFresh(r)'
    BY <1>2, <2>1 DEF SlotFresh
  <2>3. StuckFits(r)'
    <3>1. \A q \in Pollers : Halted(q) => q # p /\ call'[q] = call[q]
      BY <1>3 DEF At, Halted
    <3>2. slot[r] \in stuck' => slot[r] \in stuck /\ slot[r] \in Runners \ {i}
      BY <1>3, <2>1 DEF Base, TypeOK
    <3> QED
      BY <1>2, <2>1, <3>1, <3>2 DEF Halted, StuckFits, At
  <2> QED
    BY <2>2, <2>3
<1>10. ResumeFits'
  <2>1. ASSUME NEW q \in Pollers, At(q, "resume")'
        PROVE  LET j == call'[q].runner
               IN  /\ runOf'[j] = call'[q].run /\ call'[q].first = last'[j] + 1
                   /\ j \notin stuck'
                   /\ \A w \in Pollers : w # q /\ call'[w].runner = j =>
                         /\ ~At(w, "resume")'
                         /\ call'[w].pc \in {"putting", "respond"} => j \in late'
    <3>1. q # p /\ call'[q] = call[q] /\ At(q, "resume")
      BY <1>3, <2>1 DEF At
    <3>2. call[q].runner \in Runners \ {i}
      BY <1>4, <3>1 DEF Base, CallFits, At
    <3>3. call[q].runner \notin stuck'
      BY <1>3, <3>1, <3>2, RunnersHoldFacts
    <3> QED
      BY <1>2, <1>3, <3>1, <3>2, <3>3, RunnersHoldFacts DEF At
  <2> QED
    BY <2>1 DEF ResumeFits
<1>11. ~PageDeadline => QueryFresh'
  <2>1. ASSUME ~PageDeadline, NEW q \in Pollers, At(q, "answer")', call'[q].runner \notin late'
        PROVE  last'[call'[q].runner] >= call'[q].asOf
    <3>1. CASE q = p
      BY <1>2, <1>3, <2>1, <3>1 DEF At
    <3>2. CASE q # p
      <4>1. call'[q] = call[q] /\ At(q, "answer") /\ call[q].runner \in Runners \ {i}
        BY <1>3, <1>4, <2>1, <3>2 DEF Base, CallFits, At
      <4> QED
        BY <1>2, <2>1, <4>1 DEF RunnersHold, QueryFresh
    <3> QED
      BY <3>1, <3>2
  <2> QED
    BY <2>1 DEF QueryFresh
<1> QED
  BY <1>7, <1>8, <1>9, <1>10, <1>11 DEF RunnersHold, RunnersFit

\* Replays and rebuilds.
LEMMA RebuiltRunners ==
    ASSUME Base, Base', AttemptsFit, RunnersHold, NEW p \in Pollers,
           \/ Replayed(p) \/ ReplayDeadlocks(p) \/ ReplayMismatch(p)
           \/ Rebuild(p) \/ RebuildHangs(p)
    PROVE  RunnersHold'
<1>1. call[p].pc \in {"replay", "rebuild"} /\ call[p].upto \in Nat /\ call[p].run \in Runs
  BY Numbers DEF Replayed, ReplayDeadlocks, ReplayMismatch, Rebuild, RebuildHangs, At, Live
<1>2. UNCHANGED <<srv, slot, late>>
  BY DEF Replayed, ReplayDeadlocks, ReplayMismatch, Rebuild, RebuildHangs, cache
<1>3. srv[call[p].run].events \in Nat
  BY <1>1, Numbers
<1>4. CASE Replayed(p)
  BY <1>1, <1>2, <1>4, NewRunnerRunners DEF Replayed
<1>5. CASE ReplayDeadlocks(p)
  BY <1>1, <1>2, <1>5, NewRunnerRunners DEF ReplayDeadlocks, Blocked
<1>6. CASE ReplayMismatch(p)
  BY <1>1, <1>2, <1>6, NewRunnerRunners DEF ReplayMismatch
<1>7. CASE Rebuild(p)
  <2>1. PICK n \in {srv[call[p].run].events} \cup {k \in 1..srv[call[p].run].events : PageDeadline} :
            NewRunner(p, n, "answer")
    BY <1>7 DEF Rebuild
  <2>2. n \in Nat /\ (~PageDeadline => n = srv[call[p].run].events)
    BY <1>3, <2>1
  <2>3. ~PageDeadline => n >= call[p].asOf
    <3>1. call[p].query /\ Live(p)
      BY <1>7 DEF Rebuild, At, Base, CallFits, Live
    <3>2. call[p].asOf <= LastCompleted(srv[call[p].run])
      BY <3>1 DEF AttemptsFit, QueryFits
    <3>3. srv[call[p].run].prev + 1 + Started(call[p].run) <= srv[call[p].run].events
      BY <1>1 DEF AttemptsFit, RunFits
    <3>4. srv[call[p].run].prev \in Nat /\ call[p].asOf \in Nat /\ Started(call[p].run) \in {0, 1}
      BY <1>1, Numbers DEF Started
    <3> QED
      BY <1>3, <2>2, <3>2, <3>3, <3>4 DEF LastCompleted
  <2>4. UNCHANGED stuck
    BY <1>7 DEF Rebuild
  <2> QED
    BY <1>1, <1>2, <2>1, <2>2, <2>3, <2>4, NewRunnerRunners
<1>8. CASE RebuildHangs(p)
  BY <1>1, <1>2, <1>3, <1>8, NewRunnerRunners DEF RebuildHangs
<1> QED
  BY <1>4, <1>5, <1>6, <1>7, <1>8

\* A runner goes into the cache: over what an earlier attempt has left there, or,
\* if its own attempt was superseded, over the runner of the current one.
LEMMA PutRunners ==
    ASSUME Base, Base', AttemptsFit, RunnersHold, NEW p \in Pollers, PutRunner(p)
    PROVE  RunnersHold'
<1> DEFINE c == call[p]
           i == c.runner
           r == c.run
<1>1. Took(p, i, "putting")
  BY MoveFacts DEF PutRunner, Base, Labels
<1>2. c.pc = "put" /\ i \in Runners /\ c.first = 1 /\ Task(p) /\ r \in Runs /\ AttemptFits(p)
  <2>1. c.pc = "put" /\ i \in Runners /\ c.first = 1 /\ Task(p) /\ r \in Runs
    BY DEF Base, PutRunner, At, CallFits, Task, Live
  <2> QED
    BY <2>1 DEF AttemptsFit
<1>3. UNCHANGED <<srv, last, runOf, stuck>> /\ Put(r, i)
      /\ late' = IF Current(p) THEN late ELSE late \cup {i}
  BY DEF PutRunner, runner
<1>4. slot'[r] = i /\ \A q \in Runs \ {r} : slot'[q] \in {slot[q], NoRunner}
  BY <1>2, <1>3, PutFacts DEF Base
<1>5. /\ call'[p].runner = i /\ call'[p].pc = "putting" /\ call'[p].run = r
      /\ call'[p].first = c.first /\ call'[p].query = c.query /\ call'[p].upto = c.upto
      /\ \A q \in Pollers \ {p} : call'[q] = call[q]
  BY <1>1 DEF Took
<1>6. \A q \in Pollers : Current(q)' <=> Current(q)
  BY <1>1, <1>3 DEF Current, Took
<1>7. /\ \A q \in Pollers \ {p} : call[q].runner # i
      /\ \A q \in Runs : slot[q] # i
      /\ i \notin stuck /\ OwnRunner(p) /\ LastFits(p)
  BY <1>2, RunnersHoldFacts DEF OwnRunner, At
<1>8. Current(p) => c.upto = srv[r].events /\ ~srv[r].sticky /\ srv[r].prev < c.upto
  <2> SUFFICES ASSUME Current(p) PROVE c.upto = srv[r].events /\ ~srv[r].sticky /\ srv[r].prev < c.upto
    OBVIOUS
  <2>1. c.upto = srv[r].events /\ ~srv[r].sticky
    BY <1>2 DEF AttemptFits
  <2>2. srv[r].prev + 1 + Started(r) <= srv[r].events /\ Started(r) \in {0, 1}
    BY <1>2 DEF AttemptsFit, RunFits, Started
  <2>3. srv[r].prev \in Nat /\ srv[r].events \in Nat
    BY <1>2, Numbers
  <2> QED
    BY <2>1, <2>2, <2>3
<1>9. late \subseteq late' /\ (i \notin late' => Current(p) /\ i \notin late)
  BY <1>3
<1>10. srv[r].prev \in Nat /\ c.upto \in Nat
  BY <1>2, Numbers
<1> HIDE DEF i, r
<1>11. ASSUME NEW q \in Pollers PROVE OwnRunner(q)'
  <2>1. OwnRunner(q)
    BY RunnersHoldFacts
  <2>2. \A w \in Pollers : call'[w].runner = call[w].runner /\ (Task(w)' <=> Task(w))
                           /\ call'[w].first = call[w].first
    BY <1>2, <1>5 DEF Task, Live, i
  <2>3. CASE q = p
    BY <1>5, <2>1, <2>2, <2>3 DEF OwnRunner, At
  <2>4. CASE q # p
    <3>1. At(q, "put")' => \A w \in Runs : slot'[w] # call[q].runner
      <4>1. At(q, "put")' => call[q].runner \in Runners /\ At(q, "put")
        BY <1>5, <2>4 DEF Base, CallFits, At
      <4> QED
        BY <1>4, <1>7, <2>1, <2>4, <4>1, CacheAssumption DEF OwnRunner
    <3> QED
      BY <1>3, <1>5, <2>1, <2>2, <2>4, <3>1 DEF OwnRunner, At
  <2> QED
    BY <2>3, <2>4
<1>12. ASSUME NEW q \in Pollers PROVE LastFits(q)'
  <2>1. LastFits(q)
    BY RunnersHoldFacts
  <2>2. CASE q = p
    BY <1>2, <1>3, <1>5, <1>9, <2>1, <2>2 DEF LastFits, i
  <2>3. CASE q # p
    BY <1>3, <1>5, <1>9, <2>1, <2>3 DEF LastFits
  <2> QED
    BY <2>2, <2>3
<1>13. ASSUME NEW q \in Pollers PROVE SlotFits(q)'
  <2>1. CASE q = p
    BY <1>4, <1>5, <2>1 DEF SlotFits
  <2>2. CASE q # p
    <3> SUFFICES ASSUME call[q].pc \in {"resume", "putting", "respond"}, Current(q)
                 PROVE  slot'[call[q].run] \in {NoRunner, call[q].runner} \cup late'
      BY <1>5, <1>6, <2>2 DEF SlotFits
    <3>1. Task(q) /\ call[q].run \in Runs
      BY DEF Base, CallFits, Task, Live
    <3>2. CASE call[q].run = r
      <4>1. AttemptsApart(p, q)
        BY <1>2, <2>2, <3>1, <3>2 DEF AttemptsFit, r
      <4>2. ~Current(p)
        BY <3>2, <4>1 DEF AttemptsApart, Current, r
      <4> QED
        BY <1>3, <1>4, <3>2, <4>2
    <3>3. CASE call[q].run # r
      <4>1. slot[call[q].run] \in {NoRunner, call[q].runner} \cup late
        BY RunnersHoldFacts DEF SlotFits
      <4> QED
        BY <1>4, <1>9, <3>1, <3>3, <4>1
    <3> QED
      BY <3>2, <3>3
  <2> QED
    BY <2>1, <2>2
<1>14. ASSUME NEW q \in Pollers PROVE ReplayFits(q)'
  <2>1. CASE q = p
    BY <1>3, <1>5, <1>8, <1>9, <2>1 DEF ReplayFits
  <2>2. CASE q # p
    <3> SUFFICES ASSUME call[q].pc \in {"putting", "respond"}, call[q].first = 1,
                        slot'[call[q].run] = call[q].runner, call[q].runner \notin late'
                 PROVE  ~srv[call[q].run].sticky /\ srv[call[q].run].prev < call[q].upto
      BY <1>3, <1>5, <2>2 DEF ReplayFits
    <3>1. call[q].run \in Runs /\ call[q].runner \in Runners
      BY DEF Base, CallFits, Live
    <3>2. call[q].run # r
      BY <1>4, <1>7, <2>2
    <3>3. slot[call[q].run] = call[q].runner
      BY <1>4, <3>1, <3>2, CacheAssumption
    <3> QED
      BY <1>9, <3>3, RunnersHoldFacts DEF ReplayFits
  <2> QED
    BY <2>1, <2>2
<1>15. ASSUME NEW t \in Runs PROVE StuckFits(t)' /\ SlotFresh(t)'
  <2>1. StuckFits(t) /\ SlotFresh(t) /\ stuck \subseteq Runners
    BY RunnersHoldFacts DEF Base, TypeOK
  <2>2. CASE t = r
    <3>1. StuckFits(t)'
      BY <1>3, <1>4, <1>7, <2>2 DEF Halted, StuckFits
    <3>2. SlotFresh(t)'
      <4>1. i \notin late' => last[i] = c.upto /\ srv[r].prev < c.upto
        BY <1>2, <1>7, <1>8, <1>9 DEF LastFits, i
      <4> QED
        BY <1>3, <1>4, <1>10, <2>2, <4>1 DEF SlotFresh
    <3> QED
      BY <3>1, <3>2
  <2>3. CASE t # r
    <3>1. slot'[t] \in {slot[t], NoRunner}
      BY <1>4, <2>3
    <3>2. \A q \in Pollers : Halted(q) => q # p /\ call'[q] = call[q]
      BY <1>2, <1>5 DEF At, Halted
    <3>3. StuckFits(t)'
      BY <1>3, <2>1, <3>1, <3>2, CacheAssumption DEF Halted, StuckFits, At
    <3>4. SlotFresh(t)'
      BY <1>3, <1>9, <2>1, <3>1, CacheAssumption DEF SlotFresh
    <3> QED
      BY <3>3, <3>4
  <2> QED
    BY <2>2, <2>3
<1>16. ResumeFits'
  <2>1. ASSUME NEW q \in Pollers, At(q, "resume")'
        PROVE  LET j == call'[q].runner
               IN  /\ runOf'[j] = call'[q].run /\ call'[q].first = last'[j] + 1
                   /\ j \notin stuck'
                   /\ \A w \in Pollers : w # q /\ call'[w].runner = j =>
                         /\ ~At(w, "resume")'
                         /\ call'[w].pc \in {"putting", "respond"} => j \in late'
    <3>1. q # p /\ call'[q] = call[q] /\ At(q, "resume") /\ call[q].runner # i
      BY <1>5, <1>7, <2>1 DEF At
    <3> QED
      BY <1>3, <1>5, <1>9, <3>1, RunnersHoldFacts DEF At
  <2> QED
    BY <2>1 DEF ResumeFits
<1>17. ~PageDeadline => QueryFresh'
  <2>1. \A q \in Pollers : At(q, "answer")' => At(q, "answer") /\ call'[q] = call[q]
    BY <1>5 DEF At
  <2> QED
    BY <1>3, <1>9, <2>1 DEF RunnersHold, QueryFresh
<1> QED
  BY <1>11, <1>12, <1>13, <1>14, <1>15, <1>16, <1>17 DEF RunnersHold, RunnersFit

\* The server takes the answer of the current attempt: the cache has its runner, one
\* that a superseded attempt has put, or none.
LEMMA CompletedRunners ==
    ASSUME Base, Base', AttemptsFit, RunnersHold, NEW p \in Pollers, Respond(p), Current(p)
    PROVE  RunnersHold'
<1> DEFINE c == call[p]
           r == c.run
<1>1. c.pc = "respond" /\ r \in Runs /\ c.runner \in Runners /\ Task(p) /\ AttemptFits(p)
  <2>1. c.pc = "respond" /\ r \in Runs /\ c.runner \in Runners /\ Task(p)
    BY DEF Respond, At, Base, CallFits, Task, Live
  <2> QED
    BY <2>1 DEF AttemptsFit
<1>2. PICK l \in {"finish", "return"} : call' = [call EXCEPT ![p].pc = l]
  BY DEF Respond
<1>3. Took(p, c.runner, l)
  BY <1>2, MoveFacts DEF Base, Labels
<1>4. /\ call'[p].runner = c.runner /\ call'[p].pc = l /\ call'[p].first = c.first
      /\ call'[p].query = c.query /\ \A q \in Pollers \ {p} : call'[q] = call[q]
      /\ \A q \in Pollers : call'[q].run = call[q].run /\ call'[q].token = call[q].token
  BY <1>3 DEF Took
<1>5. UNCHANGED <<slot, last, runOf, stuck, late>>
      /\ srv' = [srv EXCEPT ![r] = Completed(srv[r], p)]
  BY DEF Respond, cache, runner
<1>6. /\ srv'[r].wft = "none" /\ srv'[r].prev = c.upto
      /\ \A q \in Runs \ {r} : srv'[q] = srv[q]
  <2> DEFINE f == Completed(srv[r], p)
  <2>1. f \in Servers /\ f.wft = "none" /\ f.prev = c.upto
    BY <1>1, CompletedFacts DEF Base
  <2>2. srv' = [srv EXCEPT ![r] = f] /\ TypeOK
    BY <1>5 DEF Base
  <2> HIDE DEF f
  <2>3. srv'[r] = f /\ \A q \in Runs \ {r} : srv'[q] = srv[q]
    BY <1>1, <2>1, <2>2, ServerTyped
  <2> QED
    BY <2>1, <2>3
<1>7. slot[r] \in {NoRunner, c.runner} \cup late
  BY <1>1, RunnersHoldFacts DEF SlotFits
<1>8. ASSUME NEW q \in Pollers PROVE OwnRunner(q)'
  <2>1. OwnRunner(q)
    BY RunnersHoldFacts
  <2>2. \A w \in Pollers : call'[w].runner = call[w].runner /\ (Task(w)' <=> Task(w))
                           /\ call'[w].first = call[w].first
    BY <1>1, <1>4 DEF Task, Live
  <2>3. At(q, "put")' => At(q, "put")
    BY <1>4 DEF At
  <2> QED
    BY <1>5, <2>1, <2>2, <2>3 DEF OwnRunner
<1>9. ASSUME NEW q \in Pollers PROVE LastFits(q)' /\ SlotFits(q)' /\ ReplayFits(q)'
  <2>1. LastFits(q) /\ SlotFits(q) /\ ReplayFits(q)
    BY RunnersHoldFacts
  <2>2. CASE q = p
    BY <1>4, <2>2 DEF LastFits, SlotFits, ReplayFits
  <2>3. CASE q # p /\ call[q].run # r
    <3>1. call'[q] = call[q] /\ (Live(q) => call[q].run \in Runs)
      BY <1>4, <2>3, Numbers
    <3>2. Live(q) => srv'[call[q].run] = srv[call[q].run]
      BY <1>6, <2>3, <3>1
    <3> QED
      BY <1>5, <2>1, <3>1, <3>2 DEF LastFits, SlotFits, ReplayFits, Current, Live
  <2>4. CASE q # p /\ call[q].run = r
    <3>1. call'[q] = call[q] /\ ~Current(q)'
      BY <1>4, <1>6, <2>4 DEF Current
    <3>2. LastFits(q)' /\ SlotFits(q)'
      BY <1>5, <2>1, <3>1 DEF LastFits, SlotFits
    <3>3. ASSUME call[q].pc \in {"putting", "respond"}, call[q].first = 1,
                 slot[r] = call[q].runner, call[q].runner \notin late
          PROVE  FALSE
      <4>1. Task(q) /\ call[q].runner \in Runners
        BY <3>3 DEF Base, CallFits, Task, Live
      <4>2. call[q].runner = c.runner
        BY <1>7, <3>3, <4>1, CacheAssumption
      <4>3. ~srv[r].sticky
        BY <2>1, <2>4, <3>3 DEF ReplayFits
      <4>4. c.first = 1
        BY <1>1, <4>3 DEF AttemptFits
      <4> QED
        BY <1>1, <2>4, <3>3, <4>1, <4>2, <4>4, RunnersHoldFacts DEF OwnRunner
    <3>4. ReplayFits(q)'
      BY <1>5, <2>4, <3>1, <3>3 DEF ReplayFits
    <3> QED
      BY <3>2, <3>4
  <2> QED
    BY <2>2, <2>3, <2>4
<1>10. ASSUME NEW t \in Runs PROVE StuckFits(t)' /\ SlotFresh(t)'
  <2>1. StuckFits(t) /\ SlotFresh(t)
    BY RunnersHoldFacts
  <2>2. \A q \in Pollers : Halted(q) => call'[q] = call[q]
    BY <1>1, <1>4 DEF At, Halted
  <2>3. StuckFits(t)'
    BY <1>5, <2>1, <2>2 DEF Halted, StuckFits, At
  <2>4. CASE t = r
    <3>1. slot[r] \in Runners \ late => last[slot[r]] = c.upto
      BY <1>1, <1>7, RunnersHoldFacts, CacheAssumption DEF LastFits
    <3>2. c.upto \in Nat
      BY Numbers
    <3> QED
      BY <1>5, <1>6, <2>3, <2>4, <3>1, <3>2 DEF SlotFresh
  <2>5. CASE t # r
    BY <1>5, <1>6, <2>1, <2>3, <2>5 DEF SlotFresh
  <2> QED
    BY <2>4, <2>5
<1>11. ResumeFits'
  <2>1. ASSUME NEW q \in Pollers, At(q, "resume")'
        PROVE  LET j == call'[q].runner
               IN  /\ runOf'[j] = call'[q].run /\ call'[q].first = last'[j] + 1
                   /\ j \notin stuck'
                   /\ \A w \in Pollers : w # q /\ call'[w].runner = j =>
                         /\ ~At(w, "resume")'
                         /\ call'[w].pc \in {"putting", "respond"} => j \in late'
    <3>1. q # p /\ call'[q] = call[q] /\ At(q, "resume")
      BY <1>4, <2>1 DEF At
    <3> QED
      BY <1>4, <1>5, <3>1, RunnersHoldFacts DEF At
  <2> QED
    BY <2>1 DEF ResumeFits
<1>12. ~PageDeadline => QueryFresh'
  <2>1. \A q \in Pollers : At(q, "answer")' => At(q, "answer") /\ call'[q] = call[q]
    BY <1>4 DEF At
  <2> QED
    BY <1>5, <2>1 DEF RunnersHold, QueryFresh
<1> QED
  BY <1>8, <1>9, <1>10, <1>11, <1>12 DEF RunnersHold, RunnersFit

\* Nobody has a runner at first.
LEMMA RunnersInit == Init => RunnersHold
<1> SUFFICES ASSUME Init PROVE RunnersHold
  OBVIOUS
<1>1. \A p \in Pollers : call[p].pc = "idle"
  BY NoCallFacts DEF Init
<1>2. \A r \in Runs : slot[r] = NoRunner
  BY DEF Init
<1>3. stuck = {}
  BY DEF Init
<1>4. RunnersFit
  BY <1>1, <1>2, <1>3, CacheAssumption DEF RunnersFit, OwnRunner, LastFits, SlotFits, ReplayFits,
     StuckFits, SlotFresh, At, Task, Live
<1>5. ResumeFits /\ QueryFresh
  BY <1>1 DEF ResumeFits, QueryFresh, At
<1> QED
  BY <1>4, <1>5 DEF RunnersHold

\* The third layer is inductive.
LEMMA RunnersStep == Base /\ Base' /\ AttemptsFit /\ RunnersHold /\ [Next]_vars => RunnersHold'
<1> SUFFICES ASSUME Base, Base', AttemptsFit, RunnersHold, [Next]_vars PROVE RunnersHold'
  OBVIOUS
<1>1. ASSUME NEW p \in Pollers, Handle(p) PROVE RunnersHold'
  BY <1>1, LookupRunners, ResumedRunners, RebuiltRunners, PutRunners, EraseRunners, EndsRunners,
     UnlockRunners, CompletedRunners, ReturnRunners, Zenon DEF Handle
<1>2. ASSUME NEW p \in Pollers, Fault(p) PROVE RunnersHold'
  BY <1>2, ResumeDeadlocksRunners, RebuiltRunners, EndsRunners, Zenon DEF Fault
<1>3. CASE UNCHANGED vars
  BY <1>3 DEF vars, RunnersHold, RunnersFit, ResumeFits, QueryFresh, OwnRunner, LastFits, SlotFits,
     ReplayFits, StuckFits, Halted, SlotFresh, At, Task, Live, Current
<1> QED
  BY <1>1, <1>2, <1>3, PollRunners, ServerRunners, Zenon DEF Next

\* The three layers together are inductive.
LEMMA Inductive == Spec => []IInv
<1>1. Init => IInv
  BY BaseInit, AttemptsInit, RunnersInit DEF IInv
<1>2. IInv /\ [Next]_vars => IInv'
  BY BaseStep, AttemptsStep, RunnersStep DEF IInv
<1> QED
  BY <1>1, <1>2, PTL DEF Spec

\* Spec implies ResumeFits: what a handler looked up under cache_mu_ still holds when
\* it resumes the runner after the unlock.  The events continue the runner's
\* checkpoint, its function is parked, and no other handler resumes it or is still
\* working on an answer from it, however many pollers there are and whatever the
\* server has timed out and handed out again in between.
THEOREM ResumesFit == Spec => []ResumeFits
<1>1. IInv => ResumeFits
  BY DEF IInv, RunnersHold
<1> QED
  BY <1>1, Inductive, PTL

\* Spec implies QueryFresh while the fetch of a history page does not hit its
\* deadline: a query is answered from state that reflects at least the last task
\* completed when it was sent, from the cache or rebuilt.  (With the deadline it is
\* not: BuildRunnerForQuery takes a page that was not fetched for the last one.)
THEOREM QueriesAreFresh == ASSUME ~PageDeadline PROVE Spec => []QueryFresh
<1>1. IInv => QueryFresh
  BY DEF IInv, RunnersHold
<1> QED
  BY <1>1, Inductive, PTL
=============================================================================
