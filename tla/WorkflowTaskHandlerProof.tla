---------------------- MODULE WorkflowTaskHandlerProof ----------------------
(***************************************************************************)
(* Type correctness of the composition of server, handler and runner, and  *)
(* the safety of its commands: no activity, timer or child workflow is     *)
(* scheduled twice, none is left without an owner, signals are received in *)
(* the order they were sent, and futures are as the history leaves them,   *)
(* for every set of workflow functions and every bound.                    *)
(*                                                                         *)
(* The first part is about the operations of a WorkflowRunner alone: what  *)
(* they leave of a well-formed runner, and what they may add to the        *)
(* commands it has collected.  The second is about the composition.        *)
(***************************************************************************)
EXTENDS WorkflowTaskHandler, SequenceTheorems, FiniteSetTheorems, WellFoundedInduction, TLAPS

(***************************************************************************)
(* The runner.                                                             *)
(***************************************************************************)
\* A well-formed runner: the event ids it refers to are those of its history.
RunnerOK(r) ==
    /\ r \in Runner
    /\ r.scanned <= Len(r.events)
    /\ r.signals \subseteq 1..Len(r.events)
    /\ \A c \in CountedCalls : r.unread[c] \subseteq 1..r.scanned
    /\ \A x \in Ids : r.mseUnread[x] \subseteq 1..r.scanned

\* t is s followed by items that schedule nothing.
QuietlyExtends(s, t) ==
    /\ Len(s) <= Len(t)
    /\ \A i \in 1..Len(s) : t[i] = s[i]
    /\ \A i \in (Len(s) + 1)..Len(t) : t[i].k \notin OpKinds

\* q is a runner that r can become without scheduling an operation.
Quiet(r, q) ==
    /\ RunnerOK(q)
    /\ q.events = r.events /\ q.scanned = r.scanned
    /\ \A k \in OpKinds : Len(q.futures[k]) = Len(r.futures[k])
    /\ QuietlyExtends(r.produced, q.produced)
    /\ QuietlyExtends(r.commands, q.commands)

\* What is added between s and t cancels no timer; q is a runner that r can become
\* without scheduling an operation and without touching a future.
NoCancels(s, t) == \A i \in (Len(s) + 1)..Len(t) : t[i].k # "CancelTimer"

LoudKinds == OpKinds \cup {"CancelTimer"}

Calm(r, q) ==
    /\ Quiet(r, q) /\ q.futures = r.futures
    /\ NoCancels(r.produced, q.produced) /\ NoCancels(r.commands, q.commands)

\* q is r after the cancellation of one of its timers.
CancelsTimer(r, q) ==
    \E id \in Nat :
        /\ id + 1 \in 1..Len(r.futures["Timer"])
        /\ \A k \in OpKinds : \A i \in 1..Len(r.futures[k]) :
              q.futures[k][i] = IF k = "Timer" /\ i = id + 1 THEN "cancelled" ELSE r.futures[k][i]
        /\ q.produced \in {r.produced, Append(r.produced, CmdEvent("CancelTimer", id, "nil"))}
        /\ q.commands \in {r.commands, Append(r.commands, Command("CancelTimer", id, "nil"))}

-----------------------------------------------------------------------------
(***************************************************************************)
(* The ends of a set of event ids.                                         *)
(***************************************************************************)

\* FirstOf of a non-empty set of event ids is its least element.
LEMMA FirstOfIsMember ==
  ASSUME NEW S \in SUBSET Nat, S # {}
  PROVE  FirstOf(S) \in S /\ \A j \in S : FirstOf(S) <= j
<1> DEFINE R == {p \in Nat \X Nat : p[1] < p[2]}
<1>1. IsWellFoundedOn(R, Nat)
  BY NatLessThanWellFounded, Zenon DEF OpToRel
<1> HIDE DEF R
<1>2. \E m \in S : \A j \in S : ~ (<<j, m>> \in R)
  BY <1>1, WFMin, Zenon
<1>3. PICK m \in S : \A j \in S : ~ (<<j, m>> \in R)
  BY <1>2
<1>4. \A j \in S : m <= j
  <2> TAKE j \in S
  <2>1. m \in Nat /\ j \in Nat
    OBVIOUS
  <2>2. <<j, m>> \notin R
    BY <1>3
  <2>3. ~ (j < m)
    BY <2>1, <2>2 DEF R
  <2> QED
    BY <2>1, <2>3
<1> QED
  BY <1>4 DEF FirstOf

\* LastOf of a non-empty bounded set of event ids is its greatest element.
LEMMA LastOfIsMember ==
  ASSUME NEW n \in Nat, NEW S \in SUBSET (1..n), S # {}
  PROVE  LastOf(S) \in S /\ \A j \in S : j <= LastOf(S)
<1> DEFINE T == {j \in Nat : n - j \in S}
<1>1. PICK s \in S : TRUE
  OBVIOUS
<1>2. n - s \in T /\ T \in SUBSET Nat /\ T # {}
  BY <1>1
<1>3. FirstOf(T) \in T /\ \A j \in T : FirstOf(T) <= j
  BY <1>2, FirstOfIsMember
<1> HIDE DEF T
<1>4. \A j \in S : j <= n - FirstOf(T)
  <2> TAKE j \in S
  <2>1. n - j \in T
    BY DEF T
  <2>2. FirstOf(T) \in Nat /\ FirstOf(T) <= n - j
    BY <1>3, <2>1 DEF T
  <2> QED
    BY <2>2
<1>5. n - FirstOf(T) \in S
  BY <1>3 DEF T
<1> QED
  BY <1>4, <1>5 DEF LastOf

-----------------------------------------------------------------------------
(***************************************************************************)
(* The building blocks of the operations.                                  *)
(***************************************************************************)
\* Doing nothing is quiet.
LEMMA QuietReflexive == ASSUME NEW r, RunnerOK(r) PROVE Quiet(r, r)
<1>1. r.produced \in Seq(CommandEvent) /\ r.commands \in Seq(Event)
  BY DEF RunnerOK, Runner
<1> QED
  BY <1>1 DEF Quiet, QuietlyExtends

\* A quiet change leaves the runner well formed.
LEMMA QuietIsOK == ASSUME NEW r, NEW q, Quiet(r, q) PROVE RunnerOK(q)
  BY DEF Quiet

\* Extending twice is extending.
LEMMA ExtendsTransitive ==
  ASSUME NEW A, NEW s \in Seq(A), NEW t \in Seq(A), NEW u \in Seq(A),
         QuietlyExtends(s, t), QuietlyExtends(t, u)
  PROVE  QuietlyExtends(s, u)
<1>1. Len(s) \in Nat /\ Len(t) \in Nat /\ Len(u) \in Nat
  OBVIOUS
<1>2. Len(s) <= Len(u)
  BY <1>1 DEF QuietlyExtends
<1>3. ASSUME NEW i \in 1..Len(s) PROVE u[i] = s[i]
  <2>1. i \in 1..Len(t) /\ t[i] = s[i]
    BY <1>1 DEF QuietlyExtends
  <2> QED
    BY <2>1 DEF QuietlyExtends
<1>4. ASSUME NEW i \in (Len(s) + 1)..Len(u) PROVE u[i].k \notin OpKinds
  <2>1. CASE i \in (Len(t) + 1)..Len(u)
    BY <2>1 DEF QuietlyExtends
  <2>2. CASE i \notin (Len(t) + 1)..Len(u)
    <3>1. i \in (Len(s) + 1)..Len(t) /\ i \in 1..Len(t)
      BY <1>1, <2>2
    <3> QED
      BY <3>1 DEF QuietlyExtends
  <2> QED
    BY <2>1, <2>2
<1> QED
  BY <1>2, <1>3, <1>4 DEF QuietlyExtends

\* What is quiet in two parts is quiet.
LEMMA QuietTransitive ==
  ASSUME NEW r, NEW q, NEW s, RunnerOK(r), Quiet(r, q), Quiet(q, s)
  PROVE  Quiet(r, s)
<1>1. /\ r.produced \in Seq(CommandEvent) /\ r.commands \in Seq(Event)
      /\ q.produced \in Seq(CommandEvent) /\ q.commands \in Seq(Event)
      /\ s.produced \in Seq(CommandEvent) /\ s.commands \in Seq(Event)
  BY DEF Quiet, RunnerOK, Runner
<1>2. QuietlyExtends(r.produced, s.produced)
  BY <1>1, ExtendsTransitive DEF Quiet
<1>3. QuietlyExtends(r.commands, s.commands)
  BY <1>1, ExtendsTransitive DEF Quiet
<1> QED
  BY <1>2, <1>3 DEF Quiet

\* Produce appends to produced_commands_ and changes nothing else.
LEMMA ProduceOK ==
  ASSUME NEW r, RunnerOK(r), NEW c \in CommandEvent
  PROVE  /\ RunnerOK(Produce(r, c))
         /\ Produce(r, c).produced = Append(r.produced, c)
         /\ Produce(r, c) = [r EXCEPT !.produced = Append(r.produced, c)]
<1>1. Append(r.produced, c) \in Seq(CommandEvent)
  BY DEF RunnerOK, Runner
<1> QED
  BY <1>1 DEF Produce, RunnerOK, Runner

\* Producing a command that schedules nothing is quiet.
LEMMA ProduceQuiet ==
  ASSUME NEW r, RunnerOK(r), NEW c \in CommandEvent, c.k \notin OpKinds
  PROVE  Quiet(r, Produce(r, c))
<1>1. RunnerOK(Produce(r, c)) /\ Produce(r, c).produced = Append(r.produced, c)
  BY ProduceOK
<1>2. r.produced \in Seq(CommandEvent) /\ r.commands \in Seq(Event)
  BY DEF RunnerOK, Runner
<1>3. QuietlyExtends(r.produced, Append(r.produced, c))
  BY <1>2 DEF QuietlyExtends
<1>4. QuietlyExtends(r.commands, r.commands)
  BY <1>2 DEF QuietlyExtends
<1>5. /\ Produce(r, c).events = r.events /\ Produce(r, c).scanned = r.scanned
      /\ Produce(r, c).futures = r.futures /\ Produce(r, c).commands = r.commands
  BY DEF Produce, RunnerOK, Runner
<1> QED
  BY <1>1, <1>3, <1>4, <1>5 DEF Quiet

\* Emitting a command that schedules nothing is quiet.
LEMMA EmitQuiet ==
  ASSUME NEW r, RunnerOK(r), NEW e \in Event, e.k \notin OpKinds
  PROVE  Quiet(r, Emit(r, e))
<1>1. r.produced \in Seq(CommandEvent) /\ r.commands \in Seq(Event)
  BY DEF RunnerOK, Runner
<1>2. Append(r.commands, e) \in Seq(Event)
  BY <1>1
<1>3. RunnerOK(Emit(r, e))
  BY <1>2 DEF Emit, RunnerOK, Runner
<1>4. QuietlyExtends(r.commands, Append(r.commands, e))
  BY <1>1 DEF QuietlyExtends
<1>5. QuietlyExtends(r.produced, r.produced)
  BY <1>1 DEF QuietlyExtends
<1>6. /\ Emit(r, e).events = r.events /\ Emit(r, e).scanned = r.scanned
      /\ Emit(r, e).futures = r.futures /\ Emit(r, e).produced = r.produced
      /\ Emit(r, e).commands = Append(r.commands, e)
  BY DEF Emit, RunnerOK, Runner
<1> QED
  BY <1>3, <1>4, <1>5, <1>6 DEF Quiet

\* Returning a value to the function is quiet.
LEMMA ObserveQuiet ==
  ASSUME NEW r, RunnerOK(r), NEW v \in Seen, NEW n \in Int
  PROVE  Quiet(r, Observe(r, v, n))
<1>1. r.produced \in Seq(CommandEvent) /\ r.commands \in Seq(Event)
  BY DEF RunnerOK, Runner
<1>2. Append(r.obs, <<v, n>>) \in Seq(Seen \X Int)
  BY DEF RunnerOK, Runner
<1>3. RunnerOK(Observe(r, v, n))
  BY <1>2 DEF Observe, RunnerOK, Runner
<1>4. /\ Observe(r, v, n).events = r.events /\ Observe(r, v, n).scanned = r.scanned
      /\ Observe(r, v, n).futures = r.futures /\ Observe(r, v, n).produced = r.produced
      /\ Observe(r, v, n).commands = r.commands
  BY DEF Observe, RunnerOK, Runner
<1> QED
  BY <1>1, <1>3, <1>4 DEF Quiet, QuietlyExtends

\* A quiet change followed by returning a value is quiet.
LEMMA ThenObserveQuiet ==
  ASSUME NEW r, RunnerOK(r), NEW q, Quiet(r, q), NEW v \in Seen, NEW n \in Int
  PROVE  Quiet(r, Observe(q, v, n))
<1>1. RunnerOK(q)
  BY QuietIsOK
<1>2. Quiet(q, Observe(q, v, n))
  BY <1>1, ObserveQuiet
<1> QED
  BY <1>2, QuietTransitive

\* The fields of a command.
LEMMA CommandIs ==
  ASSUME NEW kind \in CommandKinds, NEW id \in Int, NEW v \in Names
  PROVE  /\ Command(kind, id, v) \in Event
         /\ Command(kind, id, v).t = "Command" /\ Command(kind, id, v).k = kind
         /\ Command(kind, id, v).id = id /\ Command(kind, id, v).v = v
  BY SMT DEF Command, Entry, Event, EventTypes, Data

\* ProduceAndEmit of a command that schedules nothing is quiet.
LEMMA ProduceAndEmitQuiet ==
  ASSUME NEW r, RunnerOK(r), NEW kind \in CommandKinds \ OpKinds, NEW id \in Int, NEW v \in Names,
         NEW known \in BOOLEAN
  PROVE  Quiet(r, ProduceAndEmit(r, kind, id, v, known))
<1> DEFINE c == CmdEvent(kind, id, v)
           e == Command(kind, id, v)
           q == Produce(r, c)
<1>1. c \in CommandEvent /\ c.k \notin OpKinds
  BY DEF CmdEvent, CommandEvent
<1>2. e \in Event /\ e.k \notin OpKinds
  BY CommandIs
<1> HIDE DEF c, e
<1>3. Quiet(r, q)
  BY <1>1, ProduceQuiet
<1> HIDE DEF q
<1>4. Quiet(r, Emit(q, e))
  <2>1. RunnerOK(q)
    BY <1>3, QuietIsOK
  <2>2. Quiet(q, Emit(q, e))
    BY <1>2, <2>1, EmitQuiet
  <2> QED
    BY <1>3, <2>2, QuietTransitive
<1>5. ProduceAndEmit(r, kind, id, v, known) = IF known THEN q ELSE Emit(q, e)
  BY DEF ProduceAndEmit, q, c, e
<1> QED
  BY <1>3, <1>4, <1>5

\* A change that concerns none of the futures and commands is quiet.
LEMMA SameQuiet ==
  ASSUME NEW r, RunnerOK(r), NEW q, RunnerOK(q),
         q.events = r.events, q.scanned = r.scanned, q.futures = r.futures,
         q.produced = r.produced, q.commands = r.commands
  PROVE  Quiet(r, q)
<1>1. r.produced \in Seq(CommandEvent) /\ r.commands \in Seq(Event)
  BY DEF RunnerOK, Runner
<1> QED
  BY <1>1 DEF Quiet, QuietlyExtends

-----------------------------------------------------------------------------
(***************************************************************************)
(* The same for the calls that cancel no timer either.                     *)
(***************************************************************************)
\* A calm change is quiet, and leaves the runner well formed.
LEMMA CalmIsQuiet == ASSUME NEW r, NEW q, Calm(r, q) PROVE Quiet(r, q) /\ RunnerOK(q)
  BY QuietIsOK DEF Calm

\* What adds no cancellation in two parts adds none.
LEMMA NoCancelsTransitive ==
  ASSUME NEW A, NEW s \in Seq(A), NEW t \in Seq(A), NEW u \in Seq(A),
         QuietlyExtends(s, t), QuietlyExtends(t, u), NoCancels(s, t), NoCancels(t, u)
  PROVE  NoCancels(s, u)
<1> SUFFICES ASSUME NEW i \in (Len(s) + 1)..Len(u) PROVE u[i].k # "CancelTimer"
  BY DEF NoCancels
<1>1. Len(s) \in Nat /\ Len(t) \in Nat /\ Len(u) \in Nat
  OBVIOUS
<1>2. CASE i \in (Len(t) + 1)..Len(u)
  BY <1>2 DEF NoCancels
<1>3. CASE i \notin (Len(t) + 1)..Len(u)
  <2>1. i \in (Len(s) + 1)..Len(t) /\ i \in 1..Len(t)
    BY <1>1, <1>3
  <2> QED
    BY <2>1 DEF QuietlyExtends, NoCancels
<1> QED
  BY <1>2, <1>3

\* What is calm in two parts is calm.
LEMMA CalmTransitive ==
  ASSUME NEW r, NEW q, NEW s, RunnerOK(r), Calm(r, q), Calm(q, s)
  PROVE  Calm(r, s)
<1>1. Quiet(r, q) /\ Quiet(q, s) /\ Quiet(r, s)
  BY QuietTransitive DEF Calm
<1>2. /\ r.produced \in Seq(CommandEvent) /\ r.commands \in Seq(Event)
      /\ q.produced \in Seq(CommandEvent) /\ q.commands \in Seq(Event)
      /\ s.produced \in Seq(CommandEvent) /\ s.commands \in Seq(Event)
  BY <1>1 DEF Quiet, RunnerOK, Runner
<1>3. NoCancels(r.produced, s.produced)
  BY <1>1, <1>2, NoCancelsTransitive DEF Quiet, Calm
<1>4. NoCancels(r.commands, s.commands)
  BY <1>1, <1>2, NoCancelsTransitive DEF Quiet, Calm
<1> QED
  BY <1>1, <1>3, <1>4 DEF Calm

\* A change that concerns none of the futures and commands is calm.
LEMMA SameCalm ==
  ASSUME NEW r, RunnerOK(r), NEW q, RunnerOK(q),
         q.events = r.events, q.scanned = r.scanned, q.futures = r.futures,
         q.produced = r.produced, q.commands = r.commands
  PROVE  Calm(r, q)
<1>1. r.produced \in Seq(CommandEvent) /\ r.commands \in Seq(Event)
  BY DEF RunnerOK, Runner
<1>2. NoCancels(r.produced, r.produced) /\ NoCancels(r.commands, r.commands)
  BY <1>1 DEF NoCancels
<1> QED
  BY <1>2, SameQuiet DEF Calm

\* Doing nothing is calm.
LEMMA CalmReflexive == ASSUME NEW r, RunnerOK(r) PROVE Calm(r, r)
  BY SameCalm

\* Producing a command that schedules and cancels nothing is calm.
LEMMA ProduceCalm ==
  ASSUME NEW r, RunnerOK(r), NEW c \in CommandEvent, c.k \notin LoudKinds
  PROVE  Calm(r, Produce(r, c))
<1>1. Produce(r, c).produced = Append(r.produced, c) /\ Quiet(r, Produce(r, c))
  BY ProduceOK, ProduceQuiet DEF LoudKinds
<1>2. r.produced \in Seq(CommandEvent) /\ r.commands \in Seq(Event)
  BY DEF RunnerOK, Runner
<1>3. NoCancels(r.produced, Append(r.produced, c)) /\ NoCancels(r.commands, r.commands)
  BY <1>2 DEF NoCancels, LoudKinds
<1>4. Produce(r, c).futures = r.futures /\ Produce(r, c).commands = r.commands
  BY DEF Produce, RunnerOK, Runner
<1> QED
  BY <1>1, <1>3, <1>4 DEF Calm

\* Emitting a command that schedules and cancels nothing is calm.
LEMMA EmitCalm ==
  ASSUME NEW r, RunnerOK(r), NEW e \in Event, e.k \notin LoudKinds
  PROVE  Calm(r, Emit(r, e))
<1>1. Quiet(r, Emit(r, e))
  BY EmitQuiet DEF LoudKinds
<1>2. r.produced \in Seq(CommandEvent) /\ r.commands \in Seq(Event)
  BY DEF RunnerOK, Runner
<1>3. NoCancels(r.commands, Append(r.commands, e)) /\ NoCancels(r.produced, r.produced)
  BY <1>2 DEF NoCancels, LoudKinds
<1>4. /\ Emit(r, e).futures = r.futures /\ Emit(r, e).produced = r.produced
      /\ Emit(r, e).commands = Append(r.commands, e)
  BY DEF Emit, RunnerOK, Runner
<1> QED
  BY <1>1, <1>3, <1>4 DEF Calm

\* Returning a value to the function is calm.
LEMMA ObserveCalm ==
  ASSUME NEW r, RunnerOK(r), NEW v \in Seen, NEW n \in Int
  PROVE  Calm(r, Observe(r, v, n))
<1>1. RunnerOK(Observe(r, v, n))
  BY ObserveQuiet, QuietIsOK
<1>2. /\ Observe(r, v, n).events = r.events /\ Observe(r, v, n).scanned = r.scanned
      /\ Observe(r, v, n).futures = r.futures /\ Observe(r, v, n).produced = r.produced
      /\ Observe(r, v, n).commands = r.commands
  BY DEF Observe, RunnerOK, Runner
<1> QED
  BY <1>1, <1>2, SameCalm

\* A calm change followed by returning a value is calm.
LEMMA ThenObserveCalm ==
  ASSUME NEW r, RunnerOK(r), NEW q, Calm(r, q), NEW v \in Seen, NEW n \in Int
  PROVE  Calm(r, Observe(q, v, n))
<1>1. RunnerOK(q)
  BY CalmIsQuiet
<1>2. Calm(q, Observe(q, v, n))
  BY <1>1, ObserveCalm
<1> QED
  BY <1>2, CalmTransitive

\* ProduceAndEmit of a command that schedules and cancels nothing is calm.
LEMMA ProduceAndEmitCalm ==
  ASSUME NEW r, RunnerOK(r), NEW kind \in CommandKinds \ LoudKinds, NEW id \in Int, NEW v \in Names,
         NEW known \in BOOLEAN
  PROVE  Calm(r, ProduceAndEmit(r, kind, id, v, known))
<1> DEFINE c == CmdEvent(kind, id, v)
           e == Command(kind, id, v)
           q == Produce(r, c)
<1>1. c \in CommandEvent /\ c.k \notin LoudKinds
  BY DEF CmdEvent, CommandEvent
<1>2. e \in Event /\ e.k \notin LoudKinds
  BY CommandIs
<1> HIDE DEF c, e
<1>3. Calm(r, q)
  BY <1>1, ProduceCalm
<1> HIDE DEF q
<1>4. Calm(r, Emit(q, e))
  <2>1. RunnerOK(q)
    BY <1>3, CalmIsQuiet
  <2>2. Calm(q, Emit(q, e))
    BY <1>2, <2>1, EmitCalm
  <2> QED
    BY <1>3, <2>2, CalmTransitive
<1>5. ProduceAndEmit(r, kind, id, v, known) = IF known THEN q ELSE Emit(q, e)
  BY DEF ProduceAndEmit, q, c, e
<1> QED
  BY <1>3, <1>4, <1>5

-----------------------------------------------------------------------------
(***************************************************************************)
(* The operations that schedule nothing.                                   *)
(***************************************************************************)
\* A future that the function holds.
IsFuture(r, f) == f.k \in OpKinds /\ f.id \in Nat /\ f.id + 1 \in 1..Len(r.futures[f.k])

\* Setting the status of a future is quiet.
LEMMA SetFutureQuiet ==
  ASSUME NEW r, RunnerOK(r), NEW k \in OpKinds, NEW i \in 1..Len(r.futures[k]), NEW st \in FutureStatus
  PROVE  Quiet(r, [r EXCEPT !.futures[k][i] = st])
<1> DEFINE s == [r.futures[k] EXCEPT ![i] = st]
           fs == [r.futures EXCEPT ![k] = s]
<1>0. r.produced \in Seq(CommandEvent) /\ r.commands \in Seq(Event)
  BY DEF RunnerOK, Runner
<1>1. r.futures \in [OpKinds -> Seq(FutureStatus)]
  BY DEF RunnerOK, Runner
<1>2. s \in Seq(FutureStatus) /\ Len(s) = Len(r.futures[k])
  BY <1>1, ExceptSeq
<1> HIDE DEF s
<1>3. fs \in [OpKinds -> Seq(FutureStatus)] /\ \A j \in OpKinds : Len(fs[j]) = Len(r.futures[j])
  BY <1>1, <1>2
<1> HIDE DEF fs
<1>4. [r EXCEPT !.futures[k][i] = st] = [r EXCEPT !.futures = fs]
  BY DEF fs, s, RunnerOK, Runner
<1>5. RunnerOK([r EXCEPT !.futures = fs])
  BY <1>3 DEF RunnerOK, Runner
<1>6. /\ [r EXCEPT !.futures = fs].futures = fs
      /\ [r EXCEPT !.futures = fs].events = r.events
      /\ [r EXCEPT !.futures = fs].scanned = r.scanned
      /\ [r EXCEPT !.futures = fs].produced = r.produced
      /\ [r EXCEPT !.futures = fs].commands = r.commands
  BY DEF RunnerOK, Runner
<1> QED
  BY <1>0, <1>3, <1>4, <1>5, <1>6 DEF Quiet, QuietlyExtends

\* Cancelling a timer is quiet.
LEMMA CancelTimerQuiet ==
  ASSUME NEW r, RunnerOK(r), NEW id \in Nat, id + 1 \in 1..Len(r.futures["Timer"])
  PROVE  Quiet(r, CancelTimer(r, id))
<1> DEFINE known == \E i \in Commands(Scan(r), "CancelTimer") : Scan(r)[i].id = id
           q     == ProduceAndEmit(r, "CancelTimer", id, "nil", known)
           s     == [q EXCEPT !.futures["Timer"][id + 1] = "cancelled"]
<1>0. known \in BOOLEAN /\ "CancelTimer" \in CommandKinds \ OpKinds /\ "nil" \in Names
  BY DEF OpKinds, CommandKinds, Names
<1> HIDE DEF known
<1>1. Quiet(r, q)
  BY <1>0, ProduceAndEmitQuiet
<1> HIDE DEF q
<1>2. Quiet(q, s)
  <2>1. RunnerOK(q) /\ id + 1 \in 1..Len(q.futures["Timer"]) /\ "Timer" \in OpKinds
    BY <1>1 DEF Quiet, OpKinds
  <2>2. "cancelled" \in FutureStatus
    BY DEF FutureStatus
  <2> QED
    BY <2>1, <2>2, SetFutureQuiet, Zenon
<1>3. Quiet(r, s)
  BY <1>1, <1>2, QuietTransitive
<1>4. CancelTimer(r, id) = IF r.futures["Timer"][id + 1] = "cancelled" THEN r ELSE s
  BY DEF CancelTimer, s, q, known
<1> HIDE DEF s
<1> QED
  BY <1>3, <1>4, QuietReflexive

\* Cancelling an activity is calm.
LEMMA CancelActivityCalm ==
  ASSUME NEW r, RunnerOK(r), NEW id
  PROVE  Calm(r, CancelActivity(r, id))
<1> DEFINE S     == Schedulings(r.events, "Activity", id)
           sched == LastOf(S)
           known == \E i \in Commands(r.events, "RequestCancelActivity") : r.events[i].id = sched
<1>1. CASE S = {}
  BY <1>1, CalmReflexive DEF CancelActivity
<1>2. CASE S # {}
  <2>1. Len(r.events) \in Nat /\ S \in SUBSET (1..Len(r.events))
    BY DEF RunnerOK, Runner, Schedulings, Commands
  <2> HIDE DEF S
  <2>2. sched \in S
    BY <1>2, <2>1, LastOfIsMember
  <2>3. CancelActivity(r, id) = ProduceAndEmit(r, "RequestCancelActivity", sched, "nil", known)
    BY <1>2 DEF CancelActivity, S
  <2>4. /\ known \in BOOLEAN /\ sched \in Int
        /\ "RequestCancelActivity" \in CommandKinds \ LoudKinds /\ "nil" \in Names
    <3>1. known \in BOOLEAN /\ sched \in Int
      BY <2>1, <2>2
    <3>2. "RequestCancelActivity" \in CommandKinds \ LoudKinds /\ "nil" \in Names
      BY DEF LoudKinds, OpKinds, CommandKinds, Names
    <3> QED
      BY <3>1, <3>2
  <2> HIDE DEF sched, known
  <2> QED
    BY <2>3, <2>4, ProduceAndEmitCalm
<1> QED
  BY <1>1, <1>2

\* Asking another workflow to cancel is calm.
LEMMA RequestCancelExternalCalm ==
  ASSUME NEW r, RunnerOK(r), NEW id \in Int
  PROVE  Calm(r, RequestCancelExternal(r, id))
<1> DEFINE kind  == "RequestCancelExternalWorkflow"
           known == \E i \in Commands(Scan(r), kind) : Scan(r)[i].id = id
<1>1. known \in BOOLEAN /\ kind \in CommandKinds \ LoudKinds /\ "nil" \in Names
  BY DEF LoudKinds, OpKinds, CommandKinds, Names
<1>2. RequestCancelExternal(r, id) = ProduceAndEmit(r, kind, id, "nil", known)
  BY DEF RequestCancelExternal
<1> HIDE DEF known, kind
<1> QED
  BY <1>1, <1>2, ProduceAndEmitCalm

\* Cancelling a future that is no timer is calm.
LEMMA CancelCalm ==
  ASSUME NEW r, RunnerOK(r), NEW f, IsFuture(r, f), f.k # "Timer"
  PROVE  Calm(r, Cancel(r, f))
<1>0. "cancel" \in Seen
  BY DEF Seen
<1>1. CASE f.k = "Activity"
  <2>1. Calm(r, CancelActivity(r, f.id))
    BY <1>1, CancelActivityCalm
  <2>2. Cancel(r, f) = Observe(CancelActivity(r, f.id), "cancel", 0)
    BY <1>1 DEF Cancel
  <2> QED
    BY <1>0, <2>1, <2>2, ThenObserveCalm
<1>2. CASE f.k = "ChildWorkflow"
  <2>1. Calm(r, RequestCancelExternal(r, f.id))
    BY <1>2, RequestCancelExternalCalm DEF IsFuture
  <2>2. Cancel(r, f) = Observe(RequestCancelExternal(r, f.id), "cancel", 0)
    BY <1>2 DEF Cancel
  <2> QED
    BY <1>0, <2>1, <2>2, ThenObserveCalm
<1>3. CASE f.k = "NexusOperation"
  <2>1. Cancel(r, f) = Observe(r, "cancel", 0)
    BY <1>3 DEF Cancel
  <2> QED
    BY <1>0, <2>1, ObserveCalm
<1> QED
  BY <1>1, <1>2, <1>3 DEF IsFuture, OpKinds

\* Cancelling a timer marks its future, and nothing but its future.
LEMMA CancelTimerEffect ==
  ASSUME NEW r, RunnerOK(r), NEW f, IsFuture(r, f), f.k = "Timer"
  PROVE  Quiet(r, Cancel(r, f)) /\ CancelsTimer(r, Cancel(r, f))
<1> DEFINE id    == f.id
           known == \E i \in Commands(Scan(r), "CancelTimer") : Scan(r)[i].id = id
           p     == Produce(r, CmdEvent("CancelTimer", id, "nil"))
           q     == ProduceAndEmit(r, "CancelTimer", id, "nil", known)
           x     == [q.futures["Timer"] EXCEPT ![id + 1] = "cancelled"]
           fs    == [q.futures EXCEPT !["Timer"] = x]
           s     == [q EXCEPT !.futures = fs]
           o     == CancelTimer(r, id)
<1>1. id \in Nat /\ id + 1 \in 1..Len(r.futures["Timer"]) /\ r \in Runner
  BY DEF IsFuture, RunnerOK
<1>2. Quiet(r, o) /\ "cancel" \in Seen
  BY <1>1, CancelTimerQuiet DEF Seen
<1>3. Cancel(r, f) = Observe(o, "cancel", 0)
  BY DEF Cancel
<1>4. r.futures \in [OpKinds -> Seq(FutureStatus)] /\ "Timer" \in OpKinds
  BY <1>1 DEF Runner, OpKinds
<1>5. /\ p.futures = r.futures /\ p.commands = r.commands
      /\ p.produced = Append(r.produced, CmdEvent("CancelTimer", id, "nil"))
      /\ DOMAIN p = DOMAIN r
  BY <1>1, Zenon DEF Produce, Runner
<1>6. q = IF known THEN p ELSE Emit(p, Command("CancelTimer", id, "nil"))
  BY Zenon DEF ProduceAndEmit
<1> HIDE DEF p, known
<1>7. "futures" \in DOMAIN r /\ "commands" \in DOMAIN r /\ "produced" \in DOMAIN r
  BY <1>1 DEF Runner
<1>8. /\ q.futures = r.futures /\ DOMAIN q = DOMAIN r
      /\ q.produced = Append(r.produced, CmdEvent("CancelTimer", id, "nil"))
      /\ q.commands \in {r.commands, Append(r.commands, Command("CancelTimer", id, "nil"))}
  <2>1. CASE known
    BY <1>5, <1>6, <2>1, Zenon
  <2>2. CASE ~known
    <3>1. q = [p EXCEPT !.commands = Append(p.commands, Command("CancelTimer", id, "nil"))]
      BY <1>6, <2>2, Zenon DEF Emit
    <3> HIDE DEF q
    <3> QED
      BY <1>5, <1>7, <3>1, Zenon
  <2> QED
    BY <2>1, <2>2
<1> HIDE DEF q
<1>9. \A k \in OpKinds : \A i \in 1..Len(r.futures[k]) :
         fs[k][i] = IF k = "Timer" /\ i = id + 1 THEN "cancelled" ELSE r.futures[k][i]
  BY <1>1, <1>4, <1>8
<1>10. o = IF r.futures["Timer"][id + 1] = "cancelled" THEN r
           ELSE [q EXCEPT !.futures["Timer"][id + 1] = "cancelled"]
  BY Zenon DEF CancelTimer, q, known
<1>11. [q EXCEPT !.futures["Timer"][id + 1] = "cancelled"] = s
  BY Zenon
<1> HIDE DEF fs
<1>12. /\ s.futures = fs /\ s.produced = q.produced /\ s.commands = q.commands
  BY <1>7, <1>8, Zenon
<1> HIDE DEF s, o
<1>13. CancelsTimer(r, o)
  <2>1. CASE r.futures["Timer"][id + 1] = "cancelled"
    BY <1>1, <1>10, <2>1, Zenon DEF CancelsTimer
  <2>2. CASE r.futures["Timer"][id + 1] # "cancelled"
    <3>1. o = s
      BY <1>10, <1>11, <2>2, Zenon
    <3>2. /\ \A k \in OpKinds : \A i \in 1..Len(r.futures[k]) :
               o.futures[k][i] = IF k = "Timer" /\ i = id + 1 THEN "cancelled" ELSE r.futures[k][i]
          /\ o.produced \in {r.produced, Append(r.produced, CmdEvent("CancelTimer", id, "nil"))}
          /\ o.commands \in {r.commands, Append(r.commands, Command("CancelTimer", id, "nil"))}
      BY <1>8, <1>9, <1>12, <3>1, Zenon
    <3> QED
      BY <1>1, <3>2, Zenon DEF CancelsTimer
  <2> QED
    BY <2>1, <2>2
<1>14. Quiet(r, Observe(o, "cancel", 0))
  BY <1>2, ThenObserveQuiet
<1>15. /\ Observe(o, "cancel", 0).futures = o.futures
       /\ Observe(o, "cancel", 0).produced = o.produced
       /\ Observe(o, "cancel", 0).commands = o.commands
  <2>1. RunnerOK(o)
    BY <1>2, QuietIsOK
  <2>2. Calm(o, Observe(o, "cancel", 0)) /\ o \in Runner
    BY <1>2, <2>1, ObserveCalm DEF RunnerOK
  <2> QED
    BY <2>2, Zenon DEF Observe, Runner
<1>16. CancelsTimer(r, Observe(o, "cancel", 0))
  BY <1>13, <1>15, Zenon DEF CancelsTimer
<1> QED
  BY <1>3, <1>14, <1>16

\* CancelExternalWorkflow is calm.
LEMMA CancelExternalWorkflowCalm ==
  ASSUME NEW r, RunnerOK(r), NEW id \in Int
  PROVE  Calm(r, CancelExternalWorkflow(r, id))
<1>1. Calm(r, RequestCancelExternal(r, id))
  BY RequestCancelExternalCalm
<1> QED
  BY <1>1, ThenObserveCalm DEF CancelExternalWorkflow, Seen

\* Consuming a recorded call is calm.
LEMMA CountedCalm ==
  ASSUME NEW r, RunnerOK(r), NEW call \in CountedCalls
  PROVE  Calm(r, Counted(r, call))
<1> DEFINE left == r.unread[call] \ {FirstOf(r.unread[call])}
           u    == [r.unread EXCEPT ![call] = left]
           q    == [r EXCEPT !.unread = u]
<1>1. r \in Runner /\ r.unread \in [CountedCalls -> SUBSET Nat]
  BY DEF RunnerOK, Runner
<1>2. left \subseteq r.unread[call] /\ left \in SUBSET Nat
  BY <1>1
<1> HIDE DEF left
<1>3. u \in [CountedCalls -> SUBSET Nat] /\ \A c \in CountedCalls : u[c] \subseteq r.unread[c]
  BY <1>1, <1>2
<1> HIDE DEF u
<1>4. q \in Runner
  BY <1>1, <1>3, Zenon DEF Runner
<1>5. /\ q.events = r.events /\ q.scanned = r.scanned /\ q.futures = r.futures
      /\ q.produced = r.produced /\ q.commands = r.commands /\ q.unread = u
      /\ q.signals = r.signals /\ q.mseUnread = r.mseUnread
  BY <1>1, Zenon DEF Runner
<1>6. Counted(r, call) = q
  BY <1>1, Zenon DEF Counted, Runner, u, left
<1> HIDE DEF q
<1>7. RunnerOK(q)
  BY <1>3, <1>4, <1>5 DEF RunnerOK
<1> QED
  BY <1>5, <1>6, <1>7, SameCalm

\* Fire-and-forget commands are calm.
LEMMA SendCountedCalm ==
  ASSUME NEW r, RunnerOK(r),
         NEW call \in {"SignalExternalWorkflow", "UpsertSearchAttributes"}, NEW id \in Int
  PROVE  Calm(r, SendCounted(r, call, id))
<1> DEFINE known == Known(r, call)
           q     == ProduceAndEmit(r, call, id, "nil", known)
<1>1. /\ known \in BOOLEAN /\ call \in CommandKinds \ LoudKinds /\ "nil" \in Names
      /\ call \in CountedCalls /\ "sent" \in Seen
  BY DEF Known, LoudKinds, OpKinds, CommandKinds, Names, CountedCalls, Seen
<1> HIDE DEF known
<1>2. Calm(r, q)
  BY <1>1, ProduceAndEmitCalm
<1> HIDE DEF q
<1>3. Calm(r, Counted(q, call))
  BY <1>1, <1>2, CalmIsQuiet, CountedCalm, CalmTransitive
<1>4. SendCounted(r, call, id) = Observe(IF known THEN Counted(q, call) ELSE q, "sent", id)
  BY DEF SendCounted, known, q
<1> QED
  BY <1>1, <1>2, <1>3, <1>4, ThenObserveCalm

\* The fields of a marker.
LEMMA MarkerIs ==
  ASSUME NEW name \in Names, NEW id \in Int, NEW n \in Int, NEW d \in Data
  PROVE  Marker(name, id, n, d) \in Event /\ Marker(name, id, n, d).k \notin LoudKinds
<1>1. Marker(name, id, n, d) \in Event
  BY SMT DEF Marker, Entry, Event, EventTypes, CommandKinds
<1>2. Marker(name, id, n, d).k \notin LoudKinds
  BY SMT DEF Marker, Entry, LoudKinds, OpKinds
<1> QED
  BY <1>1, <1>2

\* Producing a marker is calm.
LEMMA ProduceMarkerCalm ==
  ASSUME NEW r, RunnerOK(r), NEW name \in Names
  PROVE  Calm(r, Produce(r, CmdEvent("Marker", 0, name)))
<1>1. /\ CmdEvent("Marker", 0, name) \in CommandEvent
      /\ CmdEvent("Marker", 0, name).k \notin LoudKinds
  BY SMT DEF CmdEvent, CommandEvent, CommandKinds, LoudKinds, OpKinds
<1> QED
  BY <1>1, ProduceCalm

\* An event of the prescanned history.
LEMMA ScanEvent ==
  ASSUME NEW r, RunnerOK(r)
  PROVE  /\ Scan(r) \in Seq(Event) /\ Len(Scan(r)) = r.scanned
         /\ \A i \in 1..r.scanned : Scan(r)[i] = r.events[i] /\ Scan(r)[i] \in Event
<1>1. r.events \in Seq(Event) /\ r.scanned \in Nat /\ r.scanned <= Len(r.events)
  BY DEF RunnerOK, Runner
<1>2. \A i \in 1..r.scanned : r.events[i] \in Event
  BY <1>1
<1> QED
  BY <1>1, <1>2, SubSeqProperties DEF Scan

\* Side effects and local activities are calm.
LEMMA MarkedCallCalm ==
  ASSUME NEW r, RunnerOK(r), NEW call \in {"SideEffect", "LocalActivity"}, NEW live \in Data
  PROVE  Calm(r, MarkedCall(r, call, live))
<1> DEFINE q == Produce(r, CmdEvent("Marker", 0, call))
           e == Marker(call, 0, 0, live)
<1>1. call \in Names /\ call \in CountedCalls /\ Data \subseteq Seen
  BY DEF Names, CountedCalls, Seen, FutureStatus
<1>2. Calm(r, q)
  BY <1>1, ProduceMarkerCalm
<1>3. e \in Event /\ e.k \notin LoudKinds
  BY <1>1, MarkerIs
<1> HIDE DEF q, e
<1>4. RunnerOK(q)
  BY <1>2, CalmIsQuiet
<1>5. CASE Known(r, call)
  <2>1. r.unread[call] \in SUBSET Nat /\ r.unread[call] \subseteq 1..r.scanned
    BY <1>1 DEF RunnerOK, Runner
  <2>2. FirstOf(r.unread[call]) \in 1..r.scanned
    BY <1>5, <2>1, FirstOfIsMember DEF Known
  <2>3. Recorded(r, call).d \in Data
    BY <2>2, ScanEvent DEF Recorded, Event
  <2>4. Calm(r, Counted(q, call))
    BY <1>1, <1>2, <1>4, CountedCalm, CalmTransitive
  <2>5. MarkedCall(r, call, live) = Observe(Counted(q, call), Recorded(r, call).d, 0)
    BY <1>5 DEF MarkedCall, q
  <2> QED
    BY <1>1, <2>3, <2>4, <2>5, ThenObserveCalm
<1>6. CASE ~Known(r, call)
  <2>1. Calm(r, Emit(q, e))
    BY <1>2, <1>3, <1>4, EmitCalm, CalmTransitive
  <2>2. MarkedCall(r, call, live) = Observe(Emit(q, e), live, 0)
    BY <1>6 DEF MarkedCall, q, e
  <2> QED
    BY <1>1, <2>1, <2>2, ThenObserveCalm
<1> QED
  BY <1>5, <1>6

\* A local activity of a type nobody has registered is calm too.
LEMMA LocalActivityCalm ==
  ASSUME NEW r, RunnerOK(r), NEW live \in Data \cup {"NotRegisteredError"}
  PROVE  Calm(r, ExecuteLocalActivity(r, live))
<1> DEFINE call == "LocalActivity"
           q    == Produce(r, CmdEvent("Marker", 0, call))
<1>1. call \in Names /\ "NotRegisteredError" \in Seen /\ "nil" \in Data
  BY DEF Names, Seen, Data
<1>2. Calm(r, q)
  BY <1>1, ProduceMarkerCalm
<1>3. CASE live = "NotRegisteredError" /\ ~Known(r, call)
  <2>1. ExecuteLocalActivity(r, live) = Observe(q, live, 0)
    BY <1>3 DEF ExecuteLocalActivity
  <2> QED
    BY <1>1, <1>2, <1>3, <2>1, ThenObserveCalm
<1>4. CASE live = "NotRegisteredError" /\ Known(r, call)
  <2>1. ExecuteLocalActivity(r, live) = MarkedCall(r, call, "nil")
    BY <1>4 DEF ExecuteLocalActivity, MarkedCall
  <2> QED
    BY <1>1, <2>1, MarkedCallCalm
<1>5. CASE live # "NotRegisteredError"
  <2>1. ExecuteLocalActivity(r, live) = MarkedCall(r, call, live) /\ live \in Data
    BY <1>5 DEF ExecuteLocalActivity
  <2> QED
    BY <2>1, MarkedCallCalm
<1> QED
  BY <1>3, <1>4, <1>5

-----------------------------------------------------------------------------
(***************************************************************************)
(* The end of the function, versions, mutable side effects.                *)
(***************************************************************************)
\* The end of the function is calm.
LEMMA FinishCalm ==
  ASSUME NEW r, RunnerOK(r), NEW kind \in TerminalKinds
  PROVE  Calm(r, Finish(r, kind))
<1> DEFINE p == Produce(r, CmdEvent(kind, 0, "nil"))
           q == [p EXCEPT !.done = kind]
<1>1. CmdEvent(kind, 0, "nil") \in CommandEvent /\ CmdEvent(kind, 0, "nil").k \notin LoudKinds
  BY SMT DEF CmdEvent, CommandEvent, TerminalKinds, CommandKinds, LoudKinds, OpKinds, Names
<1>2. Calm(r, p)
  BY <1>1, ProduceCalm
<1> HIDE DEF p
<1>3. RunnerOK(p) /\ p \in Runner
  BY <1>2, CalmIsQuiet DEF RunnerOK
<1>4. q \in Runner
  BY <1>3, Zenon DEF Runner
<1>5. /\ q.events = p.events /\ q.scanned = p.scanned /\ q.futures = p.futures
      /\ q.produced = p.produced /\ q.commands = p.commands /\ q.unread = p.unread
      /\ q.signals = p.signals /\ q.mseUnread = p.mseUnread
  BY <1>3, Zenon DEF Runner
<1>6. Finish(r, kind) = q
  BY DEF Finish, p
<1> HIDE DEF q
<1>7. RunnerOK(q)
  BY <1>3, <1>4, <1>5, Zenon DEF RunnerOK
<1> QED
  BY <1>2, <1>3, <1>5, <1>6, <1>7, SameCalm, CalmTransitive

\* Noting a version is calm.
LEMMA SetVersionCalm ==
  ASSUME NEW r, RunnerOK(r), NEW id \in Ids, NEW v \in Int
  PROVE  Calm(r, [r EXCEPT !.versions[id] = v])
<1> DEFINE u == [r.versions EXCEPT ![id] = v]
           q == [r EXCEPT !.versions = u]
<1>1. r \in Runner /\ r.versions \in [Ids -> Int]
  BY DEF RunnerOK, Runner
<1>2. u \in [Ids -> Int]
  BY <1>1
<1>3. [r EXCEPT !.versions[id] = v] = q
  BY <1>1, Zenon DEF Runner
<1> HIDE DEF u
<1>4. q \in Runner
  BY <1>1, <1>2, Zenon DEF Runner
<1>5. /\ q.events = r.events /\ q.scanned = r.scanned /\ q.futures = r.futures
      /\ q.produced = r.produced /\ q.commands = r.commands /\ q.unread = r.unread
      /\ q.signals = r.signals /\ q.mseUnread = r.mseUnread
  BY <1>1, Zenon DEF Runner
<1> HIDE DEF q
<1>6. RunnerOK(q)
  BY <1>4, <1>5, Zenon DEF RunnerOK
<1> QED
  BY <1>3, <1>5, <1>6, SameCalm

\* GetVersion is calm.
LEMMA GetVersionCalm ==
  ASSUME NEW r, RunnerOK(r), NEW id \in Ids, NEW min \in Int, NEW max \in Int
  PROVE  Calm(r, GetVersion(r, id, min, max))
<1> DEFINE v      == r.versions[id]
           marked == Produce(r, CmdEvent("Marker", 0, "Version"))
           e      == Marker("Version", id, max, "nil")
           emitted == Emit(marked, e)
<1>1. v \in Int /\ NoVersion \in Int /\ DefaultVersion \in Int
  BY DEF RunnerOK, Runner, NoVersion, DefaultVersion
<1>2. "Version" \in Names /\ "nil" \in Data /\ id \in Int
  BY RunnerAssumption DEF Names, Data
<1>3. "version" \in Seen
  BY DEF Seen
<1>4. "FailWorkflow" \in TerminalKinds
  BY DEF TerminalKinds
<1>5. Calm(r, marked)
  BY <1>2, ProduceMarkerCalm
<1>6. e \in Event /\ e.k \notin LoudKinds
  BY <1>2, MarkerIs
<1>7. GetVersion(r, id, min, max) =
        CASE v # NoVersion /\ (v < min \/ v > max) -> Finish(marked, "FailWorkflow")
          [] v # NoVersion /\ min <= v /\ v <= max -> Observe(marked, "version", v)
          [] v = NoVersion /\ r.replaying ->
               Observe([r EXCEPT !.versions[id] = DefaultVersion], "version", DefaultVersion)
          [] OTHER ->
               Observe([emitted EXCEPT !.versions[id] = max], "version", max)
  BY DEF GetVersion
<1> HIDE DEF v, marked, e
<1>8. RunnerOK(marked) /\ Calm(marked, emitted)
  BY <1>5, <1>6, CalmIsQuiet, EmitCalm
<1> HIDE DEF emitted
<1>9. Calm(r, emitted) /\ RunnerOK(emitted)
  BY <1>5, <1>8, CalmIsQuiet, CalmTransitive
<1>10. Calm(r, Finish(marked, "FailWorkflow"))
  BY <1>4, <1>5, <1>8, FinishCalm, CalmTransitive
<1>11. Calm(r, Observe(marked, "version", v))
  BY <1>1, <1>3, <1>5, ThenObserveCalm
<1>12. Calm(r, Observe([r EXCEPT !.versions[id] = DefaultVersion], "version", DefaultVersion))
  BY <1>1, <1>3, SetVersionCalm, ThenObserveCalm
<1>13. Calm(r, Observe([emitted EXCEPT !.versions[id] = max], "version", max))
  <2>1. Calm(emitted, [emitted EXCEPT !.versions[id] = max])
    BY <1>9, SetVersionCalm
  <2>2. Calm(r, [emitted EXCEPT !.versions[id] = max])
    BY <1>9, <2>1, CalmTransitive
  <2> QED
    BY <1>3, <2>2, ThenObserveCalm
<1>14. CASE v # NoVersion /\ (v < min \/ v > max)
  BY <1>7, <1>10, <1>14, <1>1
<1>15. CASE v # NoVersion /\ min <= v /\ v <= max
  BY <1>7, <1>11, <1>15, <1>1
<1>16. CASE v = NoVersion /\ r.replaying
  BY <1>7, <1>12, <1>16, <1>1
<1>17. CASE v = NoVersion /\ ~r.replaying
  BY <1>7, <1>13, <1>17, <1>1
<1> QED
  BY <1>1, <1>14, <1>15, <1>16, <1>17

\* Counting a call of MutableSideEffect is calm.
LEMMA MseCalledCalm ==
  ASSUME NEW r, RunnerOK(r), NEW id \in Ids
  PROVE  Calm(r, [r EXCEPT !.mseCalls[id] = @ + 1])
<1> DEFINE u == [r.mseCalls EXCEPT ![id] = r.mseCalls[id] + 1]
           q == [r EXCEPT !.mseCalls = u]
<1>1. r \in Runner /\ r.mseCalls \in [Ids -> Nat]
  BY DEF RunnerOK, Runner
<1>2. u \in [Ids -> Nat]
  BY <1>1
<1>3. [r EXCEPT !.mseCalls[id] = @ + 1] = q
  BY <1>1, Zenon DEF Runner
<1> HIDE DEF u
<1>4. q \in Runner
  BY <1>1, <1>2, Zenon DEF Runner
<1>5. /\ q.events = r.events /\ q.scanned = r.scanned /\ q.futures = r.futures
      /\ q.produced = r.produced /\ q.commands = r.commands /\ q.unread = r.unread
      /\ q.signals = r.signals /\ q.mseUnread = r.mseUnread
  BY <1>1, Zenon DEF Runner
<1> HIDE DEF q
<1>6. RunnerOK(q)
  BY <1>4, <1>5, Zenon DEF RunnerOK
<1> QED
  BY <1>3, <1>5, <1>6, SameCalm

\* Adopting a value of a mutable side effect is calm.
LEMMA SetMseValueCalm ==
  ASSUME NEW r, RunnerOK(r), NEW id \in Ids, NEW d \in Data
  PROVE  Calm(r, [r EXCEPT !.mseValue[id] = d])
<1> DEFINE u == [r.mseValue EXCEPT ![id] = d]
           q == [r EXCEPT !.mseValue = u]
<1>1. r \in Runner /\ r.mseValue \in [Ids -> Data]
  BY DEF RunnerOK, Runner
<1>2. u \in [Ids -> Data]
  BY <1>1
<1>3. [r EXCEPT !.mseValue[id] = d] = q
  BY <1>1, Zenon DEF Runner
<1> HIDE DEF u
<1>4. q \in Runner
  BY <1>1, <1>2, Zenon DEF Runner
<1>5. /\ q.events = r.events /\ q.scanned = r.scanned /\ q.futures = r.futures
      /\ q.produced = r.produced /\ q.commands = r.commands /\ q.unread = r.unread
      /\ q.signals = r.signals /\ q.mseUnread = r.mseUnread
  BY <1>1, Zenon DEF Runner
<1> HIDE DEF q
<1>6. RunnerOK(q)
  BY <1>4, <1>5, Zenon DEF RunnerOK
<1> QED
  BY <1>3, <1>5, <1>6, SameCalm

\* Consuming a recorded change of a mutable side effect is calm.
LEMMA MseReadCalm ==
  ASSUME NEW r, RunnerOK(r), NEW id \in Ids, NEW next
  PROVE  Calm(r, [r EXCEPT !.mseUnread[id] = @ \ {next}])
<1> DEFINE left == r.mseUnread[id] \ {next}
           u    == [r.mseUnread EXCEPT ![id] = left]
           q    == [r EXCEPT !.mseUnread = u]
<1>1. r \in Runner /\ r.mseUnread \in [Ids -> SUBSET Nat]
  BY DEF RunnerOK, Runner
<1>2. left \subseteq r.mseUnread[id] /\ left \in SUBSET Nat
  BY <1>1
<1>3. [r EXCEPT !.mseUnread[id] = @ \ {next}] = q
  BY <1>1, Zenon DEF Runner
<1> HIDE DEF left
<1>4. u \in [Ids -> SUBSET Nat] /\ \A x \in Ids : u[x] \subseteq r.mseUnread[x]
  BY <1>1, <1>2
<1> HIDE DEF u
<1>5. q \in Runner
  BY <1>1, <1>4, Zenon DEF Runner
<1>6. /\ q.events = r.events /\ q.scanned = r.scanned /\ q.futures = r.futures
      /\ q.produced = r.produced /\ q.commands = r.commands /\ q.unread = r.unread
      /\ q.signals = r.signals /\ q.mseUnread = u
  BY <1>1, Zenon DEF Runner
<1> HIDE DEF q
<1>7. RunnerOK(q)
  BY <1>4, <1>5, <1>6 DEF RunnerOK
<1> QED
  BY <1>3, <1>6, <1>7, SameCalm

\* MutableSideEffect is calm.
LEMMA MutableSideEffectCalm ==
  ASSUME NEW r, RunnerOK(r), NEW id \in Ids, NEW live \in Data
  PROVE  Calm(r, MutableSideEffect(r, id, live))
<1> DEFINE idx     == r.mseCalls[id]
           next    == FirstOf(r.mseUnread[id])
           q       == [r EXCEPT !.mseCalls[id] = @ + 1]
           marked  == Produce(q, CmdEvent("Marker", 0, "MutableSideEffect"))
           e       == Marker("MutableSideEffect", id, idx, live)
           emitted == Emit(marked, e)
           known   == r.mseUnread[id] # {}
           d       == Scan(r)[next].d
<1>1. /\ idx \in Int /\ id \in Int /\ r.mseValue[id] \in Data
      /\ r.mseUnread[id] \in SUBSET Nat /\ r.mseUnread[id] \subseteq 1..r.scanned
  BY RunnerAssumption DEF RunnerOK, Runner
<1>2. "MutableSideEffect" \in Names
  BY DEF Names
<1>3. Data \subseteq Seen
  BY DEF Seen, FutureStatus
<1>4. Calm(r, q) /\ RunnerOK(q)
  BY MseCalledCalm, CalmIsQuiet
<1>5. e \in Event /\ e.k \notin LoudKinds
  BY <1>1, <1>2, MarkerIs
<1>6. MutableSideEffect(r, id, live) =
        CASE known /\ Scan(r)[next].n = idx ->
               Observe([marked EXCEPT !.mseValue[id]  = d, !.mseUnread[id] = @ \ {next}], d, 0)
          [] known /\ Scan(r)[next].n # idx -> Observe(q, r.mseValue[id], 0)
          [] ~known /\ r.mseValue[id] = live -> Observe(q, live, 0)
          [] OTHER -> Observe([emitted EXCEPT !.mseValue[id] = live], live, 0)
  BY DEF MutableSideEffect
<1> HIDE DEF idx, q, e
<1>7. Calm(r, marked) /\ RunnerOK(marked)
  <2>1. Calm(q, marked)
    BY <1>2, <1>4, ProduceMarkerCalm
  <2> QED
    BY <1>4, <2>1, CalmIsQuiet, CalmTransitive
<1> HIDE DEF marked
<1>8. CASE known /\ Scan(r)[next].n = idx
  <2> DEFINE m == [marked EXCEPT !.mseValue[id] = d]
             u == [m EXCEPT !.mseUnread[id] = @ \ {next}]
  <2>1. next \in 1..r.scanned
    BY <1>1, <1>8, FirstOfIsMember
  <2>2. d \in Data
    BY <2>1, ScanEvent DEF Event
  <2>3. [marked EXCEPT !.mseValue[id]  = d, !.mseUnread[id] = @ \ {next}] = u
    BY <1>7, Zenon DEF RunnerOK, Runner
  <2> HIDE DEF next, d
  <2>4. Calm(marked, m) /\ RunnerOK(m)
    BY <1>7, <2>2, SetMseValueCalm, CalmIsQuiet
  <2>5. Calm(r, m)
    BY <1>7, <2>4, CalmTransitive
  <2> HIDE DEF m
  <2>6. Calm(m, u)
    BY <2>4, MseReadCalm
  <2> HIDE DEF u
  <2>7. Calm(r, u)
    BY <2>4, <2>5, <2>6, CalmTransitive
  <2>8. Calm(r, Observe(u, d, 0))
    BY <1>3, <2>2, <2>7, ThenObserveCalm
  <2>9. MutableSideEffect(r, id, live) = Observe(u, d, 0)
    BY <1>6, <1>8, <2>3, Zenon
  <2> QED
    BY <2>8, <2>9
<1>9. CASE known /\ Scan(r)[next].n # idx
  <2>1. Calm(r, Observe(q, r.mseValue[id], 0))
    BY <1>1, <1>3, <1>4, ThenObserveCalm
  <2>2. MutableSideEffect(r, id, live) = Observe(q, r.mseValue[id], 0)
    BY <1>6, <1>9
  <2> QED
    BY <2>1, <2>2
<1>10. CASE ~known /\ r.mseValue[id] = live
  <2>1. Calm(r, Observe(q, live, 0))
    BY <1>3, <1>4, ThenObserveCalm
  <2>2. MutableSideEffect(r, id, live) = Observe(q, live, 0)
    BY <1>6, <1>10
  <2> QED
    BY <2>1, <2>2
<1>11. CASE ~known /\ r.mseValue[id] # live
  <2> DEFINE m == [emitted EXCEPT !.mseValue[id] = live]
  <2>1. MutableSideEffect(r, id, live) = Observe(m, live, 0)
    BY <1>6, <1>11
  <2>2. Calm(marked, emitted)
    BY <1>5, <1>7, EmitCalm
  <2> HIDE DEF emitted
  <2>3. Calm(r, emitted) /\ RunnerOK(emitted)
    BY <1>7, <2>2, CalmIsQuiet, CalmTransitive
  <2>4. Calm(emitted, m)
    BY <2>3, SetMseValueCalm
  <2> HIDE DEF m
  <2>5. Calm(r, m)
    BY <2>3, <2>4, CalmTransitive
  <2> QED
    BY <1>3, <2>1, <2>5, ThenObserveCalm
<1> QED
  BY <1>8, <1>9, <1>10, <1>11

-----------------------------------------------------------------------------
(***************************************************************************)
(* What the function waits for and reads.                                  *)
(***************************************************************************)
\* Receiving a signal is calm.
LEMMA TryConsumeSignalCalm ==
  ASSUME NEW r, RunnerOK(r)
  PROVE  Calm(r, TryConsumeSignal(r))
<1>1. "signal" \in Seen
  BY DEF Seen
<1>2. "none" \in Seen
  BY DEF Seen
<1>3. CASE HasSignal(r)
  <2> DEFINE left == r.signals \ {FirstOf(r.signals)}
             q    == [r EXCEPT !.signals = left]
             n    == r.events[FirstOf(r.signals)].n
  <2>1. /\ r \in Runner /\ r.signals \in SUBSET Nat /\ r.signals \subseteq 1..Len(r.events)
        /\ r.events \in Seq(Event)
    BY DEF RunnerOK, Runner
  <2>2. FirstOf(r.signals) \in 1..Len(r.events)
    BY <1>3, <2>1, FirstOfIsMember DEF HasSignal
  <2>3. n \in Int
    <3>1. r.events[FirstOf(r.signals)] \in Event
      BY <2>1, <2>2
    <3> QED
      BY <3>1 DEF Event
  <2>4. left \in SUBSET Nat /\ left \subseteq 1..Len(r.events)
    BY <2>1
  <2>5. TryConsumeSignal(r) = Observe(q, "signal", n)
    BY <1>3, Zenon DEF TryConsumeSignal
  <2> HIDE DEF left, n
  <2>6. q \in Runner
    BY <2>1, <2>4, Zenon DEF Runner
  <2>7. /\ q.events = r.events /\ q.scanned = r.scanned /\ q.futures = r.futures
        /\ q.produced = r.produced /\ q.commands = r.commands /\ q.unread = r.unread
        /\ q.signals = left /\ q.mseUnread = r.mseUnread
    BY <2>1, Zenon DEF Runner
  <2> HIDE DEF q
  <2>8. RunnerOK(q)
    BY <2>4, <2>6, <2>7, Zenon DEF RunnerOK
  <2> QED
    BY <1>1, <2>3, <2>5, <2>7, <2>8, SameCalm, ThenObserveCalm
<1>4. CASE ~HasSignal(r)
  BY <1>2, <1>4, ObserveCalm DEF TryConsumeSignal
<1> QED
  BY <1>3, <1>4

\* What a function can wait for.
IsWaitable(r, f) == (f.k \in {"Signal", "Cancellation"} /\ f.id = 0) \/ IsFuture(r, f)

\* Get of a ready future is calm.
LEMMA GetCalm ==
  ASSUME NEW r, RunnerOK(r), NEW f, IsWaitable(r, f)
  PROVE  Calm(r, Get(r, f))
<1>1. FutureStatus \subseteq Seen
  BY DEF Seen
<1>2. "done" \in Seen
  BY DEF Seen
<1>3. f.id \in Int
  BY DEF IsWaitable, IsFuture
<1>4. CASE f.k = "Signal"
  BY <1>4, TryConsumeSignalCalm DEF Get
<1>5. CASE f.k \in {"Timer", "Cancellation"}
  <2>1. Get(r, f) = Observe(r, "done", f.id)
    BY <1>5 DEF Get
  <2> QED
    BY <1>2, <1>3, <2>1, ObserveCalm
<1>6. CASE f.k \notin {"Signal", "Timer", "Cancellation"}
  <2>1. Get(r, f) = Observe(r, r.futures[f.k][f.id + 1], f.id)
    BY <1>6 DEF Get
  <2>2. f.k \in OpKinds /\ f.id + 1 \in 1..Len(r.futures[f.k])
    BY <1>6 DEF IsWaitable, IsFuture
  <2>3. r.futures[f.k][f.id + 1] \in FutureStatus
    BY <2>2 DEF RunnerOK, Runner
  <2> QED
    BY <1>1, <1>3, <2>1, <2>3, ObserveCalm
<1> QED
  BY <1>4, <1>5, <1>6

\* Select of a ready case is calm.
LEMMA SelectCalm ==
  ASSUME NEW r, RunnerOK(r), NEW a, NEW b, IsWaitable(r, a), IsWaitable(r, b),
         ReadyCases(r, <<a, b>>) # {}
  PROVE  Calm(r, Select(r, <<a, b>>))
<1> DEFINE i == FirstOf(ReadyCases(r, <<a, b>>))
           q == Observe(r, "case", i)
<1>1. ReadyCases(r, <<a, b>>) \in SUBSET (1..2) /\ ReadyCases(r, <<a, b>>) \in SUBSET Nat
  BY DEF ReadyCases
<1>2. i \in 1..2
  BY <1>1, FirstOfIsMember
<1>3. Select(r, <<a, b>>) = Get(q, <<a, b>>[i])
  BY DEF Select
<1> HIDE DEF i
<1>4. "case" \in Seen
  BY DEF Seen
<1>5. Calm(r, q) /\ RunnerOK(q)
  BY <1>2, <1>4, ObserveCalm, CalmIsQuiet
<1>6. IsWaitable(r, <<a, b>>[i])
  BY <1>2
<1> HIDE DEF q
<1>7. IsWaitable(q, <<a, b>>[i])
  BY <1>5, <1>6, CalmIsQuiet DEF IsWaitable, IsFuture, Quiet
<1> QED
  BY <1>3, <1>5, <1>7, GetCalm, CalmTransitive

-----------------------------------------------------------------------------
(***************************************************************************)
(* Scheduling an operation.                                                *)
(***************************************************************************)
\* The status of the future the next call of a kind returns.
NextStatus(r, kind) ==
    LET id == Len(r.futures[kind])
    IN  IF OpKnown(r, kind, id) THEN ScanResolution(Scan(r), kind, id) ELSE "pending"

\* Schedule adds a future, produces the command, and emits it unless the prescan
\* knows the operation.
LEMMA ScheduleEffect ==
  ASSUME NEW r, RunnerOK(r), NEW kind \in OpKinds, NEW v \in Names
  PROVE  LET id == Len(r.futures[kind])
             q  == Schedule(r, kind, v)
         IN  /\ RunnerOK(q)
             /\ q.events = r.events /\ q.scanned = r.scanned
             /\ \A k \in OpKinds \ {kind} : Len(q.futures[k]) = Len(r.futures[k])
             /\ Len(q.futures[kind]) = id + 1
             /\ q.produced = Append(r.produced, CmdEvent(kind, id, v))
             /\ q.commands = IF OpKnown(r, kind, id) THEN r.commands
                             ELSE Append(r.commands, Command(kind, id, v))
<1> DEFINE id    == Len(r.futures[kind])
           known == OpKnown(r, kind, id)
           st    == IF known THEN ScanResolution(Scan(r), kind, id) ELSE "pending"
           c     == CmdEvent(kind, id, v)
           e     == Command(kind, id, v)
           p     == Produce(r, c)
           q     == IF known THEN p ELSE Emit(p, e)
           fs    == [q.futures EXCEPT ![kind] = Append(q.futures[kind], st)]
           s     == [q EXCEPT !.futures = fs]
<1>1. r \in Runner /\ id \in Nat /\ r.futures \in [OpKinds -> Seq(FutureStatus)]
  BY DEF RunnerOK, Runner
<1>2. kind \in CommandKinds
  BY DEF CommandKinds
<1>3. c \in CommandEvent
  BY <1>1, <1>2 DEF CmdEvent, CommandEvent
<1>4. e \in Event
  <2>1. id \in Int
    BY <1>1
  <2> QED
    BY <1>2, <2>1, CommandIs, Zenon
<1>5. st \in FutureStatus
  <2>1. "pending" \in FutureStatus
    BY DEF FutureStatus
  <2> DEFINE S == Resolutions(Scan(r), kind, id) \ Deferred(Scan(r))
  <2>2. Scan(r) \in Seq(Event) /\ S \in SUBSET (1..Len(Scan(r)))
    BY ScanEvent DEF Resolutions, Events
  <2>3. ASSUME S # {} PROVE Scan(r)[LastOf(S)].d \in Data
    <3>0. Len(Scan(r)) \in Nat
      BY <2>2
    <3> HIDE DEF S
    <3>1. LastOf(S) \in S
      BY <2>2, <2>3, <3>0, LastOfIsMember
    <3>2. LastOf(S) \in 1..Len(Scan(r))
      BY <2>2, <3>1, Zenon
    <3>3. Scan(r)[LastOf(S)] \in Event
      BY <2>2, <3>2
    <3> QED
      BY <3>3 DEF Event
  <2>4. Data \subseteq FutureStatus
    BY DEF FutureStatus
  <2>5. ScanResolution(Scan(r), kind, id) \in FutureStatus
    BY <2>1, <2>3, <2>4, Zenon DEF ScanResolution
  <2> QED
    BY <2>1, <2>5, Zenon
<1>6. Schedule(r, kind, v) = Observe([q EXCEPT !.futures[kind] = Append(@, st)], "scheduled", id)
  BY Zenon DEF Schedule, ProduceAndEmit
<1> HIDE DEF id, known, st, c, e
<1>7. RunnerOK(p) /\ p.produced = Append(r.produced, c)
  BY <1>3, ProduceOK
<1>8. /\ p.events = r.events /\ p.scanned = r.scanned /\ p.futures = r.futures
      /\ p.commands = r.commands
  BY <1>1, Zenon DEF Produce, Runner
<1> HIDE DEF p
<1>9. p \in Runner /\ p.commands \in Seq(Event)
  BY <1>7 DEF RunnerOK, Runner
<1>10. RunnerOK(Emit(p, e))
  <2>1. Append(p.commands, e) \in Seq(Event)
    BY <1>4, <1>9
  <2> QED
    BY <1>7, <2>1 DEF Emit, RunnerOK, Runner
<1>11. /\ Emit(p, e).events = p.events /\ Emit(p, e).scanned = p.scanned
       /\ Emit(p, e).futures = p.futures /\ Emit(p, e).produced = p.produced
       /\ Emit(p, e).commands = Append(p.commands, e)
  BY <1>9, Zenon DEF Emit, Runner
<1>12. /\ RunnerOK(q) /\ q.events = r.events /\ q.scanned = r.scanned /\ q.futures = r.futures
       /\ q.produced = Append(r.produced, c)
       /\ q.commands = IF known THEN r.commands ELSE Append(r.commands, e)
  BY <1>7, <1>8, <1>10, <1>11, Zenon
<1>13. [q EXCEPT !.futures[kind] = Append(@, st)] = s
  BY <1>12, Zenon DEF RunnerOK, Runner
<1> HIDE DEF q
<1>14. fs \in [OpKinds -> Seq(FutureStatus)] /\ Len(fs[kind]) = id + 1
       /\ \A k \in OpKinds \ {kind} : Len(fs[k]) = Len(r.futures[k])
  BY <1>1, <1>5, <1>12 DEF id
<1> HIDE DEF fs
<1>15. q \in Runner
  BY <1>12 DEF RunnerOK
<1>16. s \in Runner
  BY <1>14, <1>15, Zenon DEF Runner
<1>17. /\ s.events = q.events /\ s.scanned = q.scanned /\ s.futures = fs
       /\ s.produced = q.produced /\ s.commands = q.commands /\ s.unread = q.unread
       /\ s.signals = q.signals /\ s.mseUnread = q.mseUnread
  BY <1>15, Zenon DEF Runner
<1> HIDE DEF s
<1>18. RunnerOK(s)
  BY <1>12, <1>16, <1>17, Zenon DEF RunnerOK
<1>19. "scheduled" \in Seen /\ id \in Int
  BY <1>1 DEF Seen
<1>20. RunnerOK(Observe(s, "scheduled", id))
  BY <1>18, <1>19, ObserveQuiet, QuietIsOK
<1>21. LET o == Observe(s, "scheduled", id)
       IN  /\ o.events = s.events /\ o.scanned = s.scanned /\ o.futures = s.futures
           /\ o.produced = s.produced /\ o.commands = s.commands
  BY <1>16, Zenon DEF Observe, Runner
<1> QED
  BY <1>6, <1>12, <1>13, <1>14, <1>17, <1>20, <1>21, Zenon DEF id, known, c, e

\* The future it adds has the status the prescan knows.
LEMMA ScheduleFutures ==
  ASSUME NEW r, RunnerOK(r), NEW kind \in OpKinds, NEW v \in Names
  PROVE  Schedule(r, kind, v).futures =
            [r.futures EXCEPT ![kind] = Append(r.futures[kind], NextStatus(r, kind))]
<1> DEFINE id    == Len(r.futures[kind])
           known == OpKnown(r, kind, id)
           st    == IF known THEN ScanResolution(Scan(r), kind, id) ELSE "pending"
           e     == Command(kind, id, v)
           p     == Produce(r, CmdEvent(kind, id, v))
           q     == IF known THEN p ELSE Emit(p, e)
           fs    == [q.futures EXCEPT ![kind] = Append(q.futures[kind], st)]
           s     == [q EXCEPT !.futures = fs]
<1>1. "futures" \in DOMAIN r
  BY DEF RunnerOK, Runner
<1>2. Schedule(r, kind, v) = Observe([q EXCEPT !.futures[kind] = Append(@, st)], "scheduled", id)
  BY Zenon DEF Schedule, ProduceAndEmit
<1>3. st = NextStatus(r, kind)
  BY Zenon DEF NextStatus
<1> HIDE DEF id, known, st, e
<1>4. p.futures = r.futures /\ DOMAIN p = DOMAIN r
  BY <1>1, Zenon DEF Produce
<1> HIDE DEF p
<1>5. Emit(p, e).futures = p.futures /\ DOMAIN Emit(p, e) = DOMAIN p
  BY <1>1, <1>4, Zenon DEF Emit
<1>6. q.futures = r.futures /\ DOMAIN q = DOMAIN r
  BY <1>4, <1>5, Zenon
<1> HIDE DEF q
<1>7. [q EXCEPT !.futures[kind] = Append(@, st)] = s
  BY Zenon
<1>8. s.futures = fs /\ DOMAIN s = DOMAIN r
  BY <1>1, <1>6, Zenon
<1>9. fs = [r.futures EXCEPT ![kind] = Append(r.futures[kind], st)]
  BY <1>6, Zenon
<1> HIDE DEF fs, s
<1>10. Observe(s, "scheduled", id).futures = s.futures
  BY <1>1, <1>8, Zenon DEF Observe
<1> QED
  BY <1>2, <1>3, <1>7, <1>8, <1>9, <1>10, Zenon

-----------------------------------------------------------------------------
(***************************************************************************)
(* Building a runner, and applying events to one.                          *)
(***************************************************************************)
\* A new runner is well formed and has collected nothing.
LEMMA NewRunnerOK ==
  ASSUME NEW p \in Programs, NEW h \in Seq(Event), NEW isReplaying \in BOOLEAN
  PROVE  LET r == NewRunner(p, h, isReplaying)
         IN  /\ RunnerOK(r) /\ Scan(r) = h /\ r.events = h
             /\ r.commands = << >> /\ r.produced = << >>
             /\ \A k \in OpKinds : r.futures[k] = << >>
<1> DEFINE r == NewRunner(p, h, isReplaying)
           fs == [k \in OpKinds |-> << >>]
           ur == [c \in CountedCalls |-> RecordedCalls(h, c)]
           vs == [x \in Ids |-> IF x \in ScanVersioned(h) THEN ScanVersion(h, x) ELSE NoVersion]
           mc == [x \in Ids |-> 0]
           mu == [x \in Ids |-> ScanMutable(h, x)]
           mv == [x \in Ids |-> "nil"]
<1>1. Len(h) \in Nat /\ 1..Len(h) \subseteq Nat
  OBVIOUS
<1>2. fs \in [OpKinds -> Seq(FutureStatus)]
  OBVIOUS
<1>3. ScanSignals(h) \subseteq 1..Len(h)
  BY DEF ScanSignals, Events
<1>4. \A c \in CountedCalls : RecordedCalls(h, c) \subseteq 1..Len(h)
  BY DEF RecordedCalls, Markers, Commands
<1>5. \A x \in Ids : ScanMutable(h, x) \subseteq 1..Len(h)
  BY DEF ScanMutable, Markers, Commands
<1>6. ur \in [CountedCalls -> SUBSET Nat]
  BY <1>1, <1>4
<1>7. mu \in [Ids -> SUBSET Nat]
  BY <1>1, <1>5
<1>8. vs \in [Ids -> Int]
  <2>1. ASSUME NEW x \in Ids, x \in ScanVersioned(h) PROVE ScanVersion(h, x) \in Int
    <3> DEFINE S == {i \in Markers(h, "Version") : h[i].id = x}
    <3>1. S \in SUBSET (1..Len(h)) /\ S # {}
      BY <2>1 DEF ScanVersioned, Markers, Commands
    <3>2. ScanVersion(h, x) = h[LastOf(S)].n
      BY DEF ScanVersion
    <3> HIDE DEF S
    <3>3. LastOf(S) \in 1..Len(h)
      BY <1>1, <3>1, LastOfIsMember
    <3>4. h[LastOf(S)] \in Event
      BY <3>3
    <3> QED
      BY <3>2, <3>4 DEF Event
  <2>2. NoVersion \in Int
    BY DEF NoVersion
  <2> QED
    BY <2>1, <2>2
<1>9. mc \in [Ids -> Nat]
  OBVIOUS
<1>10. "nil" \in Data /\ "nil" \in TerminalKinds \cup {"nil"}
  BY DEF Data
<1>11. mv \in [Ids -> Data]
  BY <1>10
<1>12. ScanCancelRequested(h) \in BOOLEAN
  BY Zenon DEF ScanCancelRequested
<1>13. ScanSignals(h) \in SUBSET Nat
  BY <1>1, <1>3
<1>14. << >> \in Seq(Seen \X Int) /\ << >> \in Seq(CommandEvent) /\ << >> \in Seq(Event)
  OBVIOUS
<1>15. r = [prog |-> p, replaying |-> isReplaying, events |-> h, scanned |-> Len(h),
            timeline |-> 0, futures |-> fs, signals |-> ScanSignals(h),
            cancel |-> ScanCancelRequested(h), updates |-> 0, unread |-> ur, versions |-> vs,
            mseCalls |-> mc, mseUnread |-> mu, mseValue |-> mv, obs |-> << >>,
            produced |-> << >>, commands |-> << >>, done |-> "nil"]
  BY Zenon DEF NewRunner
<1>16. 0 \in Nat
  OBVIOUS
<1> HIDE DEF fs, ur, vs, mc, mu, mv, r
<1>17. r \in Runner
  BY <1>1, <1>2, <1>6, <1>7, <1>8, <1>9, <1>10, <1>11, <1>12, <1>13, <1>14, <1>15, <1>16, Zenon
     DEF Runner
<1>18. /\ r.events = h /\ r.scanned = Len(h) /\ r.signals = ScanSignals(h) /\ r.unread = ur
       /\ r.mseUnread = mu /\ r.commands = << >> /\ r.produced = << >> /\ r.futures = fs
  BY <1>15, Zenon
<1>19. RunnerOK(r)
  BY <1>1, <1>3, <1>4, <1>5, <1>17, <1>18 DEF RunnerOK, ur, mu
<1>20. Scan(r) = h
  BY <1>18, SubSeqFull DEF Scan
<1> QED
  BY <1>18, <1>19, <1>20 DEF r, fs

\* Applying events resolves futures, adds signals, and leaves the rest alone.
LEMMA ApplyEventsAtOK ==
  ASSUME NEW r, RunnerOK(r), NEW N \in SUBSET (1..Len(r.events))
  PROVE  Quiet(r, ApplyEventsAt(r, N))
<1> DEFINE st(k, i) == LET S == Touching(r.events, N, k, i - 1)
                       IN  IF S = {} \/ r.futures[k][i] = "cancelled" THEN r.futures[k][i]
                           ELSE StatusAfter(r.events[LastOf(S)])
           fs == [k \in OpKinds |-> [i \in 1..Len(r.futures[k]) |-> st(k, i)]]
           ss == r.signals \cup (N \cap Events(r.events, "Signaled"))
           cs == r.cancel \/ N \cap Events(r.events, "CancelRequested") # {}
           q  == [r EXCEPT !.futures = fs, !.signals = ss, !.cancel = cs]
<1>1. /\ r \in Runner /\ r.events \in Seq(Event) /\ r.futures \in [OpKinds -> Seq(FutureStatus)]
      /\ r.signals \subseteq 1..Len(r.events) /\ Len(r.events) \in Nat
  BY DEF RunnerOK, Runner
<1>2. ASSUME NEW k \in OpKinds, NEW i \in 1..Len(r.futures[k]) PROVE st(k, i) \in FutureStatus
  <2> DEFINE S == Touching(r.events, N, k, i - 1)
  <2>1. S \in SUBSET (1..Len(r.events))
    BY DEF Touching
  <2>2. r.futures[k][i] \in FutureStatus
    BY <1>1, <1>2
  <2>3. ASSUME S # {} PROVE StatusAfter(r.events[LastOf(S)]) \in FutureStatus
    <3> HIDE DEF S
    <3>1. LastOf(S) \in 1..Len(r.events)
      BY <1>1, <2>1, <2>3, LastOfIsMember
    <3>2. r.events[LastOf(S)] \in Event
      BY <1>1, <3>1
    <3>3. r.events[LastOf(S)].d \in Data
      BY <3>2 DEF Event
    <3> QED
      BY <3>3 DEF StatusAfter, FutureStatus
  <2> QED
    BY <2>2, <2>3, Zenon
<1> HIDE DEF st
<1>3. /\ fs \in [OpKinds -> Seq(FutureStatus)]
      /\ \A k \in OpKinds : Len(fs[k]) = Len(r.futures[k])
  <2>1. ASSUME NEW k \in OpKinds
        PROVE  /\ [i \in 1..Len(r.futures[k]) |-> st(k, i)] \in Seq(FutureStatus)
               /\ Len([i \in 1..Len(r.futures[k]) |-> st(k, i)]) = Len(r.futures[k])
    <3> DEFINE n == Len(r.futures[k])
    <3>1. n \in Nat
      BY <1>1
    <3>2. \A i \in 1..n : st(k, i) \in FutureStatus
      BY <1>2
    <3> HIDE DEF n
    <3>3. [i \in 1..n |-> st(k, i)] \in [1..n -> FutureStatus]
      BY <3>2, Zenon
    <3>4. [i \in 1..n |-> st(k, i)] \in Seq(FutureStatus)
      BY <3>1, <3>3
    <3>5. Len([i \in 1..n |-> st(k, i)]) = n
      BY <3>1, <3>3, <3>4
    <3> QED
      BY <3>4, <3>5 DEF n
  <2> QED
    BY <2>1, Zenon
<1>4. ss \in SUBSET Nat /\ ss \subseteq 1..Len(r.events)
  BY <1>1 DEF Events
<1>5. cs \in BOOLEAN
  BY Zenon
<1>6. ApplyEventsAt(r, N) = q
  BY <1>1, Zenon DEF ApplyEventsAt, Runner, st
<1> HIDE DEF fs, ss, cs
<1>7. q \in Runner
  BY <1>1, <1>3, <1>4, <1>5, Zenon DEF Runner
<1>8. /\ q.events = r.events /\ q.scanned = r.scanned /\ q.futures = fs
      /\ q.produced = r.produced /\ q.commands = r.commands /\ q.unread = r.unread
      /\ q.signals = ss /\ q.mseUnread = r.mseUnread
  BY <1>1, Zenon DEF Runner
<1> HIDE DEF q
<1>9. RunnerOK(q)
  BY <1>4, <1>7, <1>8, Zenon DEF RunnerOK
<1>10. r.produced \in Seq(CommandEvent) /\ r.commands \in Seq(Event)
  BY <1>1 DEF Runner
<1> QED
  BY <1>3, <1>6, <1>8, <1>9, <1>10 DEF Quiet, QuietlyExtends

\* The events of a history after the first m.
LEMMA TailOfHistory ==
  ASSUME NEW h \in Seq(Event), NEW m \in Nat, m <= Len(h)
  PROVE  SubSeq(h, m + 1, Len(h)) \in Seq(Event) /\ Len(SubSeq(h, m + 1, Len(h))) = Len(h) - m
<1> DEFINE n == Len(h)
           c == m + 1
<1>1. n \in Nat /\ c \in Int /\ n \in Int /\ m <= n /\ \A i \in c..n : h[i] \in Event
  OBVIOUS
<1> HIDE DEF n, c
<1>2. /\ SubSeq(h, c, n) \in Seq(Event)
      /\ Len(SubSeq(h, c, n)) = IF c <= n THEN n - c + 1 ELSE 0
  BY <1>1, SubSeqProperties
<1>3. (IF c <= n THEN n - c + 1 ELSE 0) = n - m
  BY <1>1 DEF c
<1> QED
  BY <1>2, <1>3 DEF c, n

\* A sticky continuation: the runner keeps its prescan and its futures, starts
\* with no commands, and has seen the history it was given.
LEMMA ApplyEventsOK ==
  ASSUME NEW r, RunnerOK(r), NEW h \in Seq(Event), Len(r.events) <= Len(h)
  PROVE  LET q == ApplyEvents(r, h)
         IN  /\ RunnerOK(q) /\ Scan(q) = Scan(r)
             /\ \A k \in OpKinds : Len(q.futures[k]) = Len(r.futures[k])
             /\ q.commands = << >>
<1> DEFINE m  == Len(r.events)
           es == r.events \o SubSeq(h, m + 1, Len(h))
           p  == [r EXCEPT !.events = es, !.commands = << >>, !.produced = << >>]
           N  == (m + 1)..Len(h)
           q  == ApplyEventsAt(p, N)
<1>1. /\ r \in Runner /\ r.events \in Seq(Event) /\ m \in Nat /\ Len(h) \in Nat
      /\ r.scanned \in Nat /\ r.scanned <= m
  BY DEF RunnerOK, Runner
<1>2. SubSeq(h, m + 1, Len(h)) \in Seq(Event) /\ Len(SubSeq(h, m + 1, Len(h))) = Len(h) - m
  BY <1>1, TailOfHistory
<1>3. /\ es \in Seq(Event) /\ Len(es) = Len(h) /\ \A i \in 1..m : es[i] = r.events[i]
  <2> DEFINE t == SubSeq(h, m + 1, Len(h))
  <2>1. t \in Seq(Event) /\ Len(t) = Len(h) - m
    BY <1>2
  <2> HIDE DEF t
  <2>2. /\ r.events \o t \in Seq(Event) /\ Len(r.events \o t) = Len(h)
        /\ \A i \in 1..m : (r.events \o t)[i] = r.events[i]
    BY <1>1, <2>1
  <2> QED
    BY <2>2 DEF t
<1>4. ApplyEvents(r, h) = q
  BY Zenon DEF ApplyEvents, LastEventId
<1> HIDE DEF es
<1>5. << >> \in Seq(Event) /\ << >> \in Seq(CommandEvent)
  OBVIOUS
<1>6. p \in Runner
  BY <1>1, <1>3, <1>5, Zenon DEF Runner
<1>7. /\ p.events = es /\ p.scanned = r.scanned /\ p.futures = r.futures
      /\ p.produced = << >> /\ p.commands = << >> /\ p.unread = r.unread
      /\ p.signals = r.signals /\ p.mseUnread = r.mseUnread
  BY <1>1, Zenon DEF Runner
<1> HIDE DEF p
<1>8. RunnerOK(p)
  <2>1. p.scanned <= Len(p.events)
    BY <1>1, <1>3, <1>7
  <2>2. p.signals \subseteq 1..Len(p.events)
    BY <1>1, <1>3, <1>7 DEF RunnerOK
  <2> QED
    BY <1>6, <1>7, <2>1, <2>2, Zenon DEF RunnerOK
<1>9. N \in SUBSET (1..Len(p.events))
  BY <1>1, <1>3, <1>7
<1> HIDE DEF N
<1>10. Quiet(p, q)
  BY <1>8, <1>9, ApplyEventsAtOK
<1>11. q.commands = << >>
  <2>1. q.commands = p.commands
    BY <1>6, Zenon DEF ApplyEventsAt, Runner
  <2> QED
    BY <1>7, <2>1
<1> HIDE DEF q
<1>12. RunnerOK(q) /\ q.events = es /\ q.scanned = r.scanned
  BY <1>7, <1>10 DEF Quiet
<1>13. Scan(q) = Scan(r)
  <2>1. /\ Scan(q) \in Seq(Event) /\ Len(Scan(q)) = r.scanned
        /\ \A i \in 1..r.scanned : Scan(q)[i] = es[i]
    BY <1>12, ScanEvent
  <2>2. /\ Scan(r) \in Seq(Event) /\ Len(Scan(r)) = r.scanned
        /\ \A i \in 1..r.scanned : Scan(r)[i] = r.events[i]
    BY ScanEvent
  <2>3. \A i \in 1..r.scanned : Scan(q)[i] = Scan(r)[i]
    BY <1>1, <1>3, <2>1, <2>2
  <2> QED
    BY <2>1, <2>2, <2>3, SeqEqual
<1>14. \A k \in OpKinds : Len(q.futures[k]) = Len(r.futures[k])
  BY <1>7, <1>10 DEF Quiet
<1> QED
  BY <1>4, <1>11, <1>12, <1>13, <1>14

\* Running update handlers leaves the SDK's state alone.
LEMMA UpdatesCalm ==
  ASSUME NEW r, RunnerOK(r), NEW n \in Nat
  PROVE  Calm(r, [r EXCEPT !.updates = @ + n])
<1> DEFINE u == r.updates + n
           q == [r EXCEPT !.updates = u]
<1>1. r \in Runner /\ u \in Nat
  BY DEF RunnerOK, Runner
<1>2. [r EXCEPT !.updates = @ + n] = q
  BY Zenon
<1> HIDE DEF u
<1>3. q \in Runner
  BY <1>1, Zenon DEF Runner
<1>4. /\ q.events = r.events /\ q.scanned = r.scanned /\ q.futures = r.futures
      /\ q.produced = r.produced /\ q.commands = r.commands /\ q.unread = r.unread
      /\ q.signals = r.signals /\ q.mseUnread = r.mseUnread
  BY <1>1, Zenon DEF Runner
<1> HIDE DEF q
<1>5. RunnerOK(q)
  BY <1>3, <1>4, Zenon DEF RunnerOK
<1> QED
  BY <1>2, <1>4, <1>5, SameCalm

\* A step of the replay timeline is quiet.
LEMMA ReapplyStepQuiet ==
  ASSUME NEW r, RunnerOK(r), TimelineLeft(r) # {}
  PROVE  Quiet(r, ReapplyStep(r))
<1> DEFINE i == FirstOf(TimelineLeft(r))
           q == IF Scan(r)[i].t = "UpdateAccepted" THEN RunUpdate(r) ELSE ApplyEventsAt(r, {i})
           s == [q EXCEPT !.timeline = i]
<1>1. r.scanned \in Nat /\ r.scanned <= Len(r.events) /\ Len(Scan(r)) = r.scanned
      /\ Len(r.events) \in Nat
  <2>1. r.scanned \in Nat /\ r.events \in Seq(Event) /\ r.scanned <= Len(r.events)
    BY DEF RunnerOK, Runner
  <2> QED
    BY <2>1, ScanEvent
<1>2. TimelineLeft(r) \in SUBSET (1..r.scanned)
  BY <1>1 DEF TimelineLeft, PostUpdateTimeline, Deferred, Events
<1>3. i \in 1..r.scanned
  <2>1. TimelineLeft(r) \in SUBSET Nat
    BY <1>1, <1>2
  <2> QED
    BY <1>2, <2>1, FirstOfIsMember
<1>4. ReapplyStep(r) = s
  BY Zenon DEF ReapplyStep
<1> HIDE DEF i
<1>5. Quiet(r, RunUpdate(r))
  <2>1. 1 \in Nat
    OBVIOUS
  <2>2. RunUpdate(r) = [r EXCEPT !.updates = @ + 1]
    BY Zenon DEF RunUpdate
  <2> QED
    BY <2>1, <2>2, UpdatesCalm, CalmIsQuiet
<1>6. Quiet(r, ApplyEventsAt(r, {i}))
  <2>1. {i} \in SUBSET (1..Len(r.events))
    BY <1>1, <1>3
  <2> QED
    BY <2>1, ApplyEventsAtOK
<1>7. Quiet(r, q) /\ RunnerOK(q)
  BY <1>5, <1>6, QuietIsOK
<1> HIDE DEF q
<1>8. q \in Runner /\ i \in Nat
  BY <1>1, <1>3, <1>7 DEF RunnerOK
<1>9. s \in Runner
  BY <1>8, Zenon DEF Runner
<1>10. /\ s.events = q.events /\ s.scanned = q.scanned /\ s.futures = q.futures
       /\ s.produced = q.produced /\ s.commands = q.commands /\ s.unread = q.unread
       /\ s.signals = q.signals /\ s.mseUnread = q.mseUnread
  BY <1>8, Zenon DEF Runner
<1> HIDE DEF s
<1>11. RunnerOK(s)
  BY <1>7, <1>9, <1>10, Zenon DEF RunnerOK
<1> QED
  BY <1>4, <1>7, <1>10, <1>11, SameQuiet, QuietTransitive
-----------------------------------------------------------------------------
(***************************************************************************)
(* What the calls do to the signals the function has received and has yet  *)
(* to receive.                                                             *)
(***************************************************************************)
Observation == Seen \X Int

\* The observations that are signals, and their order: the Nth is signal N.
Heard(o)   == {i \in 1..Len(o) : o[i][1] = "signal"}
InOrder(o) == \A i \in Heard(o) : o[i][2] = Ordinal(Heard(o), i) + 1

\* Only commands, no other events.
OnlyCommands(s) == \A i \in 1..Len(s) : s[i].t = "Command"

\* The fields the signals depend on, and those they do not.
SignalFields == {"events", "scanned", "timeline", "signals", "obs", "commands"}
OtherFields  == {"futures", "updates", "unread", "versions", "mseCalls", "mseUnread", "mseValue",
                 "produced", "done"}

HasFields(r) ==
    /\ SignalFields \cup OtherFields \subseteq DOMAIN r
    /\ r.obs \in Seq(Observation)
    /\ r.commands \in Seq(Event)

\* What r and q share when no signal is received between them.
SameSignals(r, q) ==
    /\ q.events = r.events /\ q.scanned = r.scanned /\ q.timeline = r.timeline
    /\ OnlyCommands(r.commands) => OnlyCommands(q.commands)

\* q is a runner that r can become without a signal coming or being received.
Silent(r, q) ==
    /\ HasFields(q) /\ SameSignals(r, q)
    /\ q.signals = r.signals
    /\ Heard(q.obs) = Heard(r.obs)
    /\ \A i \in Heard(r.obs) : q.obs[i] = r.obs[i]

\* q is a runner that r can become by receiving the first signal that waits.
Hears(r, q) ==
    /\ HasSignal(r)
    /\ HasFields(q) /\ SameSignals(r, q)
    /\ q.signals = r.signals \ {FirstOf(r.signals)}
    /\ \A i \in Heard(r.obs) : q.obs[i] = r.obs[i]
    /\ \E p \in Nat : /\ Heard(q.obs) = Heard(r.obs) \cup {p}
                      /\ \A i \in Heard(r.obs) : i < p
                      /\ q.obs[p][2] = r.events[FirstOf(r.signals)].n

\* A well-formed runner has its fields.
LEMMA RunnerHasFields == ASSUME NEW r, RunnerOK(r) PROVE HasFields(r)
  BY DEF RunnerOK, Runner, HasFields, SignalFields, OtherFields, Observation

\* Doing nothing is silent.
LEMMA SilentReflexive == ASSUME NEW r, HasFields(r) PROVE Silent(r, r)
  BY DEF Silent, SameSignals

\* What is silent in two parts is silent.
LEMMA SilentTransitive ==
  ASSUME NEW r, NEW q, NEW s, Silent(r, q), Silent(q, s) PROVE Silent(r, s)
  BY DEF Silent, SameSignals

\* A silent change has the fields.
LEMMA SilentHasFields == ASSUME NEW r, NEW q, Silent(r, q) PROVE HasFields(q)
  BY DEF Silent

\* A silent change, then a signal.
LEMMA SilentThenHears ==
  ASSUME NEW r, NEW q, NEW s, Silent(r, q), Hears(q, s) PROVE Hears(r, s)
<1>1. HasSignal(r)
  BY DEF Silent, Hears, HasSignal
<1>2. HasFields(s) /\ SameSignals(r, s)
  BY DEF Silent, Hears, SameSignals
<1>3. s.signals = r.signals \ {FirstOf(r.signals)}
  BY DEF Silent, Hears
<1>4. \A i \in Heard(r.obs) : s.obs[i] = r.obs[i]
  BY DEF Silent, Hears
<1>5. Heard(q.obs) = Heard(r.obs) /\ q.signals = r.signals /\ q.events = r.events
  BY DEF Silent, SameSignals
<1> QED
  BY <1>1, <1>2, <1>3, <1>4, <1>5, Zenon DEF Hears

\* Setting a field the signals do not depend on is silent.
LEMMA PutSilent ==
  ASSUME NEW r, HasFields(r), NEW f \in OtherFields, NEW x
  PROVE  Silent(r, [r EXCEPT ![f] = x])
<1> DEFINE q == [r EXCEPT ![f] = x]
<1>1. DOMAIN q = DOMAIN r
  OBVIOUS
<1>2. \A g \in SignalFields : g # f /\ g \in DOMAIN r
  BY DEF SignalFields, OtherFields, HasFields
<1>3. \A g \in SignalFields : q[g] = r[g]
  BY <1>2
<1> HIDE DEF q
<1>4. /\ q.events = r.events /\ q.scanned = r.scanned /\ q.timeline = r.timeline
      /\ q.signals = r.signals /\ q.obs = r.obs /\ q.commands = r.commands
  BY <1>3 DEF SignalFields
<1> QED
  BY <1>1, <1>4 DEF Silent, SameSignals, HasFields, q

\* Producing a command is silent.
LEMMA ProduceSilent ==
  ASSUME NEW r, HasFields(r), NEW c PROVE Silent(r, Produce(r, c))
<1> DEFINE x == Append(r.produced, c)
<1>1. Produce(r, c) = [r EXCEPT !["produced"] = x]
  BY Zenon DEF Produce
<1>2. "produced" \in OtherFields
  BY DEF OtherFields
<1> HIDE DEF x
<1>3. Silent(r, [r EXCEPT !["produced"] = x])
  BY <1>2, PutSilent
<1> QED
  BY <1>1, <1>3

\* Emitting a command is silent.
LEMMA EmitSilent ==
  ASSUME NEW r, HasFields(r), NEW e \in Event, e.t = "Command" PROVE Silent(r, Emit(r, e))
<1> DEFINE q == Emit(r, e)
<1>1. /\ DOMAIN q = DOMAIN r
      /\ q.events = r.events /\ q.scanned = r.scanned /\ q.timeline = r.timeline
      /\ q.signals = r.signals /\ q.obs = r.obs /\ q.commands = Append(r.commands, e)
  BY DEF Emit, HasFields, SignalFields
<1>2. r.commands \in Seq(Event) /\ r.obs \in Seq(Observation)
  BY DEF HasFields
<1> HIDE DEF q
<1>3. q.commands \in Seq(Event) /\ (OnlyCommands(r.commands) => OnlyCommands(q.commands))
  BY <1>1, <1>2 DEF OnlyCommands
<1> QED
  BY <1>1, <1>2, <1>3 DEF Silent, SameSignals, HasFields, q

\* What is observed, after what was observed before.
LEMMA HeardAppend ==
  ASSUME NEW o \in Seq(Observation), NEW t \in Seq(Observation), Len(t) = Len(o) + 1,
         \A i \in 1..Len(o) : t[i] = o[i]
  PROVE  /\ t[Len(o) + 1][1] = "signal" => Heard(t) = Heard(o) \cup {Len(o) + 1}
         /\ t[Len(o) + 1][1] # "signal" => Heard(t) = Heard(o)
         /\ \A i \in Heard(o) : t[i] = o[i] /\ i < Len(o) + 1
<1> DEFINE v == t[Len(o) + 1][1]
<1>2. Len(o) \in Nat
  OBVIOUS
<1>3. \A i : i \in 1..Len(t) <=> i \in 1..Len(o) \/ i = Len(o) + 1
  BY <1>2
<1>4. \A i : i \in Heard(t) <=> i \in Heard(o) \/ (i = Len(o) + 1 /\ v = "signal")
  <2> SUFFICES ASSUME NEW i
               PROVE  i \in Heard(t) <=> i \in Heard(o) \/ (i = Len(o) + 1 /\ v = "signal")
    OBVIOUS
  <2>1. i = Len(o) + 1 => i \notin 1..Len(o)
    BY <1>2
  <2> QED
    BY <1>2, <1>3, <2>1 DEF Heard
<1>5. /\ v = "signal" => Heard(t) = Heard(o) \cup {Len(o) + 1}
      /\ v # "signal" => Heard(t) = Heard(o)
  BY <1>4
<1>6. \A i \in Heard(o) : t[i] = o[i] /\ i < Len(o) + 1
  BY <1>2 DEF Heard
<1> QED
  BY <1>5, <1>6

\* Returning something that is no signal is silent.
LEMMA ObserveSilent ==
  ASSUME NEW r, HasFields(r), NEW v \in Seen, v # "signal", NEW n \in Int
  PROVE  Silent(r, Observe(r, v, n))
<1> DEFINE q == Observe(r, v, n)
<1>1. /\ DOMAIN q = DOMAIN r
      /\ q.events = r.events /\ q.scanned = r.scanned /\ q.timeline = r.timeline
      /\ q.signals = r.signals /\ q.commands = r.commands /\ q.obs = Append(r.obs, <<v, n>>)
  BY DEF Observe, HasFields, SignalFields
<1>2. r.commands \in Seq(Event) /\ r.obs \in Seq(Observation)
  BY DEF HasFields
<1> HIDE DEF q
<1>3. /\ q.obs \in Seq(Observation) /\ Heard(q.obs) = Heard(r.obs)
      /\ \A i \in Heard(r.obs) : q.obs[i] = r.obs[i]
  <2> DEFINE x == <<v, n>>
  <2>1. x \in Observation /\ x[1] # "signal" /\ q.obs = Append(r.obs, x)
    BY <1>1 DEF Observation
  <2> HIDE DEF x
  <2>2. /\ q.obs \in Seq(Observation) /\ Len(q.obs) = Len(r.obs) + 1
        /\ \A i \in 1..Len(r.obs) : q.obs[i] = r.obs[i]
        /\ q.obs[Len(r.obs) + 1] = x
    BY <1>2, <2>1
  <2> QED
    BY <1>2, <2>1, <2>2, HeardAppend
<1> QED
  BY <1>1, <1>2, <1>3, Zenon DEF Silent, SameSignals, HasFields, q

\* A silent change followed by returning something that is no signal.
LEMMA ThenObserveSilent ==
  ASSUME NEW r, NEW q, Silent(r, q), NEW v \in Seen, v # "signal", NEW n \in Int
  PROVE  Silent(r, Observe(q, v, n))
  BY SilentHasFields, ObserveSilent, SilentTransitive

\* What is no signal.
LEMMA NoSignal ==
  /\ \A v \in FutureStatus : v \in Seen /\ v # "signal"
  /\ \A d \in Data : d \in Seen /\ d # "signal"
  /\ \A v \in {"scheduled", "cancel", "requested", "sent", "version", "case", "none", "done",
               "updates", "NotRegisteredError"} : v \in Seen /\ v # "signal"
<1>1. "signal" \notin Data
  BY RunnerAssumption DEF Data
<1>2. "signal" \notin FutureStatus
  BY <1>1 DEF FutureStatus
<1> QED
  BY <1>1, <1>2 DEF Seen, FutureStatus
\* Futures may be added or resolved.
LEMMA SetFuturesSilent ==
  ASSUME NEW r, HasFields(r), NEW k, NEW x0
  PROVE  Silent(r, [r EXCEPT !.futures[k] = x0])
<1> DEFINE x == [r.futures EXCEPT ![k] = x0]
<1>1. [r EXCEPT !.futures[k] = x0] = [r EXCEPT !["futures"] = x]
  BY Zenon
<1>2. "futures" \in OtherFields
  BY DEF OtherFields
<1> HIDE DEF x
<1>3. Silent(r, [r EXCEPT !["futures"] = x])
  BY <1>2, PutSilent
<1> QED
  BY <1>1, <1>3, Zenon

\* A version may be noted.
LEMMA SetVersionSilent ==
  ASSUME NEW r, HasFields(r), NEW id, NEW v
  PROVE  Silent(r, [r EXCEPT !.versions[id] = v])
<1> DEFINE x == [r.versions EXCEPT ![id] = v]
<1>1. [r EXCEPT !.versions[id] = v] = [r EXCEPT !["versions"] = x]
  BY Zenon
<1>2. "versions" \in OtherFields
  BY DEF OtherFields
<1> HIDE DEF x
<1>3. Silent(r, [r EXCEPT !["versions"] = x])
  BY <1>2, PutSilent
<1> QED
  BY <1>1, <1>3, Zenon

\* A call of MutableSideEffect may be counted.
LEMMA MseCalledSilent ==
  ASSUME NEW r, HasFields(r), NEW id
  PROVE  Silent(r, [r EXCEPT !.mseCalls[id] = @ + 1])
<1> DEFINE x == [r.mseCalls EXCEPT ![id] = r.mseCalls[id] + 1]
<1>1. [r EXCEPT !.mseCalls[id] = @ + 1] = [r EXCEPT !["mseCalls"] = x]
  BY Zenon
<1>2. "mseCalls" \in OtherFields
  BY DEF OtherFields
<1> HIDE DEF x
<1>3. Silent(r, [r EXCEPT !["mseCalls"] = x])
  BY <1>2, PutSilent
<1> QED
  BY <1>1, <1>3, Zenon

\* A value of a mutable side effect may be adopted.
LEMMA SetMseValueSilent ==
  ASSUME NEW r, HasFields(r), NEW id, NEW d
  PROVE  Silent(r, [r EXCEPT !.mseValue[id] = d])
<1> DEFINE x == [r.mseValue EXCEPT ![id] = d]
<1>1. [r EXCEPT !.mseValue[id] = d] = [r EXCEPT !["mseValue"] = x]
  BY Zenon
<1>2. "mseValue" \in OtherFields
  BY DEF OtherFields
<1> HIDE DEF x
<1>3. Silent(r, [r EXCEPT !["mseValue"] = x])
  BY <1>2, PutSilent
<1> QED
  BY <1>1, <1>3, Zenon

\* A recorded change of a mutable side effect may be consumed.
LEMMA MseReadSilent ==
  ASSUME NEW r, HasFields(r), NEW id, NEW next
  PROVE  Silent(r, [r EXCEPT !.mseUnread[id] = @ \ {next}])
<1> DEFINE x == [r.mseUnread EXCEPT ![id] = r.mseUnread[id] \ {next}]
<1>1. [r EXCEPT !.mseUnread[id] = @ \ {next}] = [r EXCEPT !["mseUnread"] = x]
  BY Zenon
<1>2. "mseUnread" \in OtherFields
  BY DEF OtherFields
<1> HIDE DEF x
<1>3. Silent(r, [r EXCEPT !["mseUnread"] = x])
  BY <1>2, PutSilent
<1> QED
  BY <1>1, <1>3, Zenon

\* A recorded call may be consumed.
LEMMA CountedSilent ==
  ASSUME NEW r, HasFields(r), NEW call
  PROVE  Silent(r, Counted(r, call))
<1> DEFINE x == [r.unread EXCEPT ![call] = r.unread[call] \ {FirstOf(r.unread[call])}]
<1>1. Counted(r, call) = [r EXCEPT !["unread"] = x]
  BY Zenon DEF Counted
<1>2. "unread" \in OtherFields
  BY DEF OtherFields
<1> HIDE DEF x
<1>3. Silent(r, [r EXCEPT !["unread"] = x])
  BY <1>2, PutSilent
<1> QED
  BY <1>1, <1>3, Zenon

\* Update handlers may run.
LEMMA UpdatesSilent ==
  ASSUME NEW r, HasFields(r), NEW n
  PROVE  Silent(r, [r EXCEPT !.updates = @ + n])
<1> DEFINE x == r.updates + n
<1>1. [r EXCEPT !.updates = @ + n] = [r EXCEPT !["updates"] = x]
  BY Zenon
<1>2. "updates" \in OtherFields
  BY DEF OtherFields
<1> HIDE DEF x
<1>3. Silent(r, [r EXCEPT !["updates"] = x])
  BY <1>2, PutSilent
<1> QED
  BY <1>1, <1>3, Zenon

\* The end of the function is silent.
LEMMA FinishSilent ==
  ASSUME NEW r, HasFields(r), NEW kind PROVE Silent(r, Finish(r, kind))
<1> DEFINE p == Produce(r, CmdEvent(kind, 0, "nil"))
<1>1. Silent(r, p)
  BY ProduceSilent
<1>2. Finish(r, kind) = [p EXCEPT !["done"] = kind]
  BY Zenon DEF Finish
<1> HIDE DEF p
<1>3. "done" \in OtherFields
  BY DEF OtherFields
<1>4. Silent(p, [p EXCEPT !["done"] = kind])
  BY <1>1, <1>3, SilentHasFields, PutSilent
<1> QED
  BY <1>1, <1>2, <1>4, SilentTransitive

\* A command produced, and emitted unless it is known.
LEMMA ProduceAndEmitSilent ==
  ASSUME NEW r, HasFields(r), NEW kind \in CommandKinds, NEW id \in Int, NEW v \in Names,
         NEW known \in BOOLEAN
  PROVE  Silent(r, ProduceAndEmit(r, kind, id, v, known))
<1> DEFINE c == CmdEvent(kind, id, v)
           e == Command(kind, id, v)
           q == Produce(r, c)
<1>1. e \in Event /\ e.t = "Command"
  BY CommandIs
<1>2. ProduceAndEmit(r, kind, id, v, known) = IF known THEN q ELSE Emit(q, e)
  BY DEF ProduceAndEmit
<1> HIDE DEF c, e
<1>3. Silent(r, q)
  BY ProduceSilent
<1> HIDE DEF q
<1>4. Silent(r, Emit(q, e))
  BY <1>1, <1>3, SilentHasFields, EmitSilent, SilentTransitive
<1> QED
  BY <1>2, <1>3, <1>4

\* Starting an operation is silent.
LEMMA ScheduleSilent ==
  ASSUME NEW r, RunnerOK(r), NEW kind \in OpKinds, NEW v \in Names
  PROVE  Silent(r, Schedule(r, kind, v))
<1> DEFINE id    == Len(r.futures[kind])
           known == OpKnown(r, kind, id)
           st    == IF known THEN ScanResolution(Scan(r), kind, id) ELSE "pending"
           q     == ProduceAndEmit(r, kind, id, v, known)
           fs    == Append(q.futures[kind], st)
           s     == [q EXCEPT !.futures[kind] = fs]
<1>1. id \in Int
  BY DEF RunnerOK, Runner
<1>2. kind \in CommandKinds /\ known \in BOOLEAN
  BY DEF CommandKinds, OpKnown, ScanScheduled
<1>3. Schedule(r, kind, v) = Observe(s, "scheduled", id)
  BY Zenon DEF Schedule
<1> HIDE DEF id, known, st
<1>4. HasFields(r) /\ Silent(r, q)
  BY <1>1, <1>2, RunnerHasFields, ProduceAndEmitSilent
<1> HIDE DEF q, fs
<1>5. Silent(q, s)
  BY <1>4, SilentHasFields, SetFuturesSilent
<1> HIDE DEF s
<1>6. Silent(r, s)
  BY <1>4, <1>5, SilentTransitive
<1>7. "scheduled" \in Seen /\ "scheduled" # "signal"
  BY NoSignal
<1> QED
  BY <1>1, <1>3, <1>6, <1>7, ThenObserveSilent

\* Cancelling a timer is silent.
LEMMA CancelTimerSilent ==
  ASSUME NEW r, HasFields(r), NEW id \in Int PROVE Silent(r, CancelTimer(r, id))
<1> DEFINE known == \E i \in Commands(Scan(r), "CancelTimer") : Scan(r)[i].id = id
           q     == ProduceAndEmit(r, "CancelTimer", id, "nil", known)
           fs    == [q.futures["Timer"] EXCEPT ![id + 1] = "cancelled"]
           s     == [q EXCEPT !.futures["Timer"] = fs]
<1>1. known \in BOOLEAN /\ "CancelTimer" \in CommandKinds /\ "nil" \in Names
  BY DEF CommandKinds, Names
<1>2. CancelTimer(r, id) = IF r.futures["Timer"][id + 1] = "cancelled" THEN r ELSE s
  BY Zenon DEF CancelTimer
<1> HIDE DEF known
<1>3. Silent(r, q)
  BY <1>1, ProduceAndEmitSilent
<1> HIDE DEF q, fs
<1>4. Silent(q, s)
  BY <1>3, SilentHasFields, SetFuturesSilent
<1> HIDE DEF s
<1>5. Silent(r, s) /\ Silent(r, r)
  BY <1>3, <1>4, SilentTransitive, SilentReflexive
<1> QED
  BY <1>2, <1>5

\* Cancelling an activity is silent.
LEMMA CancelActivitySilent ==
  ASSUME NEW r, RunnerOK(r), NEW id PROVE Silent(r, CancelActivity(r, id))
<1> DEFINE S     == Schedulings(r.events, "Activity", id)
           sched == LastOf(S)
           known == \E i \in Commands(r.events, "RequestCancelActivity") : r.events[i].id = sched
<1>0. HasFields(r)
  BY RunnerHasFields
<1>1. CASE S = {}
  BY <1>0, <1>1, SilentReflexive DEF CancelActivity
<1>2. CASE S # {}
  <2>1. Len(r.events) \in Nat /\ S \in SUBSET (1..Len(r.events))
    BY DEF RunnerOK, Runner, Schedulings, Commands
  <2> HIDE DEF S
  <2>2. sched \in S
    BY <1>2, <2>1, LastOfIsMember
  <2>3. CancelActivity(r, id) = ProduceAndEmit(r, "RequestCancelActivity", sched, "nil", known)
    BY <1>2 DEF CancelActivity, S
  <2>4. known \in BOOLEAN /\ sched \in Int
    BY <2>1, <2>2
  <2>5. "RequestCancelActivity" \in CommandKinds /\ "nil" \in Names
    BY DEF CommandKinds, Names
  <2> HIDE DEF sched, known
  <2> QED
    BY <1>0, <2>3, <2>4, <2>5, ProduceAndEmitSilent
<1> QED
  BY <1>1, <1>2

\* Asking another workflow to cancel is silent.
LEMMA RequestCancelExternalSilent ==
  ASSUME NEW r, HasFields(r), NEW id \in Int PROVE Silent(r, RequestCancelExternal(r, id))
<1> DEFINE kind  == "RequestCancelExternalWorkflow"
           known == \E i \in Commands(Scan(r), kind) : Scan(r)[i].id = id
<1>1. known \in BOOLEAN /\ kind \in CommandKinds /\ "nil" \in Names
  BY DEF CommandKinds, Names
<1>2. RequestCancelExternal(r, id) = ProduceAndEmit(r, kind, id, "nil", known)
  BY DEF RequestCancelExternal
<1> HIDE DEF known, kind
<1> QED
  BY <1>1, <1>2, ProduceAndEmitSilent

\* Cancelling a future is silent.
LEMMA CancelSilent ==
  ASSUME NEW r, RunnerOK(r), NEW f, IsFuture(r, f) PROVE Silent(r, Cancel(r, f))
<1>0. HasFields(r) /\ "cancel" \in Seen /\ "cancel" # "signal" /\ f.id \in Int
  BY NoSignal, RunnerHasFields DEF IsFuture
<1>1. CASE f.k = "Timer"
  <2>1. Silent(r, CancelTimer(r, f.id))
    BY <1>0, CancelTimerSilent
  <2>2. Cancel(r, f) = Observe(CancelTimer(r, f.id), "cancel", 0)
    BY <1>1 DEF Cancel
  <2> QED
    BY <1>0, <2>1, <2>2, ThenObserveSilent
<1>2. CASE f.k = "Activity"
  <2>1. Silent(r, CancelActivity(r, f.id))
    BY CancelActivitySilent
  <2>2. Cancel(r, f) = Observe(CancelActivity(r, f.id), "cancel", 0)
    BY <1>2 DEF Cancel
  <2> QED
    BY <1>0, <2>1, <2>2, ThenObserveSilent
<1>3. CASE f.k = "ChildWorkflow"
  <2>1. Silent(r, RequestCancelExternal(r, f.id))
    BY <1>0, RequestCancelExternalSilent
  <2>2. Cancel(r, f) = Observe(RequestCancelExternal(r, f.id), "cancel", 0)
    BY <1>3 DEF Cancel
  <2> QED
    BY <1>0, <2>1, <2>2, ThenObserveSilent
<1>4. CASE f.k = "NexusOperation"
  <2>1. Cancel(r, f) = Observe(r, "cancel", 0)
    BY <1>4 DEF Cancel
  <2> QED
    BY <1>0, <2>1, ObserveSilent
<1> QED
  BY <1>1, <1>2, <1>3, <1>4 DEF IsFuture, OpKinds

\* CancelExternalWorkflow is silent.
LEMMA CancelExternalWorkflowSilent ==
  ASSUME NEW r, HasFields(r), NEW id \in Int PROVE Silent(r, CancelExternalWorkflow(r, id))
<1>1. Silent(r, RequestCancelExternal(r, id)) /\ "requested" \in Seen /\ "requested" # "signal"
  BY RequestCancelExternalSilent, NoSignal
<1> QED
  BY <1>1, ThenObserveSilent DEF CancelExternalWorkflow

\* Fire-and-forget commands are silent.
LEMMA SendCountedSilent ==
  ASSUME NEW r, HasFields(r),
         NEW call \in {"SignalExternalWorkflow", "UpsertSearchAttributes"}, NEW id \in Int
  PROVE  Silent(r, SendCounted(r, call, id))
<1> DEFINE known == Known(r, call)
           q     == ProduceAndEmit(r, call, id, "nil", known)
<1>1. known \in BOOLEAN /\ call \in CommandKinds /\ "nil" \in Names
  BY DEF Known, CommandKinds, Names
<1>2. SendCounted(r, call, id) = Observe(IF known THEN Counted(q, call) ELSE q, "sent", id)
  BY DEF SendCounted
<1> HIDE DEF known
<1>3. Silent(r, q) /\ "sent" \in Seen /\ "sent" # "signal"
  BY <1>1, ProduceAndEmitSilent, NoSignal
<1> HIDE DEF q
<1>4. Silent(r, Counted(q, call))
  BY <1>3, SilentHasFields, CountedSilent, SilentTransitive
<1> QED
  BY <1>2, <1>3, <1>4, ThenObserveSilent
\* The fields of a marker that tell it from other events.
LEMMA MarkerIsCommand ==
  ASSUME NEW name \in Names, NEW id \in Int, NEW n \in Int, NEW d \in Data
  PROVE  Marker(name, id, n, d) \in Event /\ Marker(name, id, n, d).t = "Command"
<1>1. Marker(name, id, n, d).t = "Command"
  BY SMT DEF Marker, Entry
<1> QED
  BY <1>1, MarkerIs

\* Side effects and local activities are silent.
LEMMA MarkedCallSilent ==
  ASSUME NEW r, RunnerOK(r), NEW call \in {"SideEffect", "LocalActivity"}, NEW live \in Data
  PROVE  Silent(r, MarkedCall(r, call, live))
<1> DEFINE q == Produce(r, CmdEvent("Marker", 0, call))
           e == Marker(call, 0, 0, live)
<1>1. call \in Names /\ call \in CountedCalls
  BY DEF Names, CountedCalls
<1>2. HasFields(r) /\ Silent(r, q)
  BY RunnerHasFields, ProduceSilent
<1>3. e \in Event /\ e.t = "Command"
  BY <1>1, MarkerIsCommand
<1> HIDE DEF q, e
<1>4. HasFields(q)
  BY <1>2, SilentHasFields
<1>5. CASE Known(r, call)
  <2>1. r.unread[call] \in SUBSET Nat /\ r.unread[call] \subseteq 1..r.scanned
    BY <1>1 DEF RunnerOK, Runner
  <2>2. FirstOf(r.unread[call]) \in 1..r.scanned
    BY <1>5, <2>1, FirstOfIsMember DEF Known
  <2>3. Recorded(r, call).d \in Data
    BY <2>2, ScanEvent DEF Recorded, Event
  <2>4. Silent(r, Counted(q, call))
    BY <1>2, <1>4, CountedSilent, SilentTransitive
  <2>5. MarkedCall(r, call, live) = Observe(Counted(q, call), Recorded(r, call).d, 0)
    BY <1>5 DEF MarkedCall, q
  <2> QED
    BY <2>3, <2>4, <2>5, NoSignal, ThenObserveSilent
<1>6. CASE ~Known(r, call)
  <2>1. Silent(r, Emit(q, e))
    BY <1>2, <1>3, <1>4, EmitSilent, SilentTransitive
  <2>2. MarkedCall(r, call, live) = Observe(Emit(q, e), live, 0)
    BY <1>6 DEF MarkedCall, q, e
  <2> QED
    BY <2>1, <2>2, NoSignal, ThenObserveSilent
<1> QED
  BY <1>5, <1>6

\* So is a local activity of a type nobody has registered.
LEMMA LocalActivitySilent ==
  ASSUME NEW r, RunnerOK(r), NEW live \in Data \cup {"NotRegisteredError"}
  PROVE  Silent(r, ExecuteLocalActivity(r, live))
<1> DEFINE call == "LocalActivity"
           q    == Produce(r, CmdEvent("Marker", 0, call))
<1>1. "nil" \in Data
  BY DEF Data
<1>2. HasFields(r) /\ Silent(r, q)
  BY RunnerHasFields, ProduceSilent
<1>3. CASE live = "NotRegisteredError" /\ ~Known(r, call)
  <2>1. ExecuteLocalActivity(r, live) = Observe(q, live, 0)
    BY <1>3 DEF ExecuteLocalActivity
  <2> QED
    BY <1>2, <1>3, <2>1, NoSignal, ThenObserveSilent
<1>4. CASE live = "NotRegisteredError" /\ Known(r, call)
  <2>1. ExecuteLocalActivity(r, live) = MarkedCall(r, call, "nil")
    BY <1>4 DEF ExecuteLocalActivity, MarkedCall
  <2> QED
    BY <1>1, <2>1, MarkedCallSilent
<1>5. CASE live # "NotRegisteredError"
  <2>1. ExecuteLocalActivity(r, live) = MarkedCall(r, call, live) /\ live \in Data
    BY <1>5 DEF ExecuteLocalActivity
  <2> QED
    BY <2>1, MarkedCallSilent
<1> QED
  BY <1>3, <1>4, <1>5

\* GetVersion is silent.
LEMMA GetVersionSilent ==
  ASSUME NEW r, RunnerOK(r), NEW id \in Ids, NEW min \in Int, NEW max \in Int
  PROVE  Silent(r, GetVersion(r, id, min, max))
<1> DEFINE v       == r.versions[id]
           marked  == Produce(r, CmdEvent("Marker", 0, "Version"))
           e       == Marker("Version", id, max, "nil")
           emitted == Emit(marked, e)
<1>1. v \in Int /\ NoVersion \in Int /\ DefaultVersion \in Int
  BY DEF RunnerOK, Runner, NoVersion, DefaultVersion
<1>2. "Version" \in Names /\ "nil" \in Data /\ id \in Int
  BY RunnerAssumption DEF Names, Data
<1>3. "version" \in Seen /\ "version" # "signal"
  BY NoSignal
<1>4. HasFields(r) /\ Silent(r, marked)
  BY RunnerHasFields, ProduceSilent
<1>5. e \in Event /\ e.t = "Command"
  BY <1>2, MarkerIsCommand
<1>6. GetVersion(r, id, min, max) =
        CASE v # NoVersion /\ (v < min \/ v > max) -> Finish(marked, "FailWorkflow")
          [] v # NoVersion /\ min <= v /\ v <= max -> Observe(marked, "version", v)
          [] v = NoVersion /\ r.replaying ->
               Observe([r EXCEPT !.versions[id] = DefaultVersion], "version", DefaultVersion)
          [] OTHER ->
               Observe([emitted EXCEPT !.versions[id] = max], "version", max)
  BY DEF GetVersion
<1> HIDE DEF v, marked, e
<1>7. HasFields(marked)
  BY <1>4, SilentHasFields
<1>8. Silent(r, emitted)
  BY <1>4, <1>5, <1>7, EmitSilent, SilentTransitive
<1> HIDE DEF emitted
<1>9. Silent(r, Finish(marked, "FailWorkflow"))
  BY <1>4, <1>7, FinishSilent, SilentTransitive
<1>10. Silent(r, Observe(marked, "version", v))
  BY <1>1, <1>3, <1>4, ThenObserveSilent
<1>11. Silent(r, Observe([r EXCEPT !.versions[id] = DefaultVersion], "version", DefaultVersion))
  BY <1>1, <1>3, <1>4, SetVersionSilent, ThenObserveSilent
<1>12. Silent(r, Observe([emitted EXCEPT !.versions[id] = max], "version", max))
  <2>1. Silent(emitted, [emitted EXCEPT !.versions[id] = max])
    BY <1>8, SilentHasFields, SetVersionSilent
  <2>2. Silent(r, [emitted EXCEPT !.versions[id] = max])
    BY <1>8, <2>1, SilentTransitive
  <2> QED
    BY <1>3, <2>2, ThenObserveSilent
<1>13. CASE v # NoVersion /\ (v < min \/ v > max)
  BY <1>1, <1>6, <1>9, <1>13
<1>14. CASE v # NoVersion /\ min <= v /\ v <= max
  BY <1>1, <1>6, <1>10, <1>14
<1>15. CASE v = NoVersion /\ r.replaying
  BY <1>1, <1>6, <1>11, <1>15
<1>16. CASE v = NoVersion /\ ~r.replaying
  BY <1>1, <1>6, <1>12, <1>16
<1> QED
  BY <1>1, <1>13, <1>14, <1>15, <1>16

\* MutableSideEffect is silent.
LEMMA MutableSideEffectSilent ==
  ASSUME NEW r, RunnerOK(r), NEW id \in Ids, NEW live \in Data
  PROVE  Silent(r, MutableSideEffect(r, id, live))
<1> DEFINE idx     == r.mseCalls[id]
           next    == FirstOf(r.mseUnread[id])
           q       == [r EXCEPT !.mseCalls[id] = @ + 1]
           marked  == Produce(q, CmdEvent("Marker", 0, "MutableSideEffect"))
           e       == Marker("MutableSideEffect", id, idx, live)
           emitted == Emit(marked, e)
           known   == r.mseUnread[id] # {}
           d       == Scan(r)[next].d
<1>1. /\ idx \in Int /\ id \in Int /\ r.mseValue[id] \in Data
      /\ r.mseUnread[id] \in SUBSET Nat /\ r.mseUnread[id] \subseteq 1..r.scanned
  BY RunnerAssumption DEF RunnerOK, Runner
<1>2. "MutableSideEffect" \in Names
  BY DEF Names
<1>3. \A x \in Data : x \in Seen /\ x # "signal"
  BY NoSignal
<1>4. Silent(r, q) /\ HasFields(q)
  BY RunnerHasFields, MseCalledSilent, SilentHasFields
<1>5. e \in Event /\ e.t = "Command"
  BY <1>1, <1>2, MarkerIsCommand
<1>6. MutableSideEffect(r, id, live) =
        CASE known /\ Scan(r)[next].n = idx ->
               Observe([marked EXCEPT !.mseValue[id]  = d, !.mseUnread[id] = @ \ {next}], d, 0)
          [] known /\ Scan(r)[next].n # idx -> Observe(q, r.mseValue[id], 0)
          [] ~known /\ r.mseValue[id] = live -> Observe(q, live, 0)
          [] OTHER -> Observe([emitted EXCEPT !.mseValue[id] = live], live, 0)
  BY DEF MutableSideEffect
<1> HIDE DEF idx, q, e
<1>7. Silent(r, marked) /\ HasFields(marked)
  BY <1>4, ProduceSilent, SilentTransitive, SilentHasFields
<1> HIDE DEF marked
<1>8. CASE known /\ Scan(r)[next].n = idx
  <2> DEFINE m == [marked EXCEPT !.mseValue[id] = d]
             u == [m EXCEPT !.mseUnread[id] = @ \ {next}]
  <2>1. next \in 1..r.scanned
    BY <1>1, <1>8, FirstOfIsMember
  <2>2. d \in Data
    BY <2>1, ScanEvent DEF Event
  <2>3. [marked EXCEPT !.mseValue[id]  = d, !.mseUnread[id] = @ \ {next}] = u
    <3>1. "mseUnread" \in DOMAIN marked
      BY <1>7 DEF HasFields, OtherFields
    <3> QED
      BY <3>1, Zenon
  <2> HIDE DEF next, d
  <2>4. Silent(r, m) /\ HasFields(m)
    BY <1>7, SetMseValueSilent, SilentTransitive, SilentHasFields
  <2> HIDE DEF m
  <2>5. Silent(r, u)
    BY <2>4, MseReadSilent, SilentTransitive
  <2> HIDE DEF u
  <2>6. Silent(r, Observe(u, d, 0))
    BY <1>3, <2>2, <2>5, ThenObserveSilent
  <2>7. MutableSideEffect(r, id, live) = Observe(u, d, 0)
    BY <1>6, <1>8, <2>3, Zenon
  <2> QED
    BY <2>6, <2>7
<1>9. CASE known /\ Scan(r)[next].n # idx
  <2>1. Silent(r, Observe(q, r.mseValue[id], 0))
    BY <1>1, <1>3, <1>4, ThenObserveSilent
  <2> QED
    BY <1>6, <1>9, <2>1
<1>10. CASE ~known /\ r.mseValue[id] = live
  <2>1. Silent(r, Observe(q, live, 0))
    BY <1>3, <1>4, ThenObserveSilent
  <2> QED
    BY <1>6, <1>10, <2>1
<1>11. CASE ~known /\ r.mseValue[id] # live
  <2> DEFINE m == [emitted EXCEPT !.mseValue[id] = live]
  <2>1. MutableSideEffect(r, id, live) = Observe(m, live, 0)
    BY <1>6, <1>11
  <2>2. Silent(r, emitted) /\ HasFields(emitted)
    BY <1>5, <1>7, EmitSilent, SilentTransitive, SilentHasFields
  <2> HIDE DEF emitted
  <2>3. Silent(r, m)
    BY <2>2, SetMseValueSilent, SilentTransitive
  <2> HIDE DEF m
  <2> QED
    BY <1>3, <2>1, <2>3, ThenObserveSilent
<1> QED
  BY <1>8, <1>9, <1>10, <1>11

\* TryConsumeSignal takes the first signal that waits, if there is one.
LEMMA TryConsumeSignalHears ==
  ASSUME NEW r, RunnerOK(r)
  PROVE  Silent(r, TryConsumeSignal(r)) \/ Hears(r, TryConsumeSignal(r))
<1>0. HasFields(r)
  BY RunnerHasFields
<1>1. CASE ~HasSignal(r)
  <2>1. "none" \in Seen /\ "none" # "signal"
    BY NoSignal
  <2> QED
    BY <1>0, <1>1, <2>1, ObserveSilent DEF TryConsumeSignal
<1>2. CASE HasSignal(r)
  <2> DEFINE left == r.signals \ {FirstOf(r.signals)}
             n    == r.events[FirstOf(r.signals)].n
             x    == <<"signal", n>>
             q    == TryConsumeSignal(r)
  <2>1. /\ r.signals \in SUBSET Nat /\ r.signals \subseteq 1..Len(r.events)
        /\ r.events \in Seq(Event)
    BY DEF RunnerOK, Runner
  <2>2. n \in Int
    <3>1. FirstOf(r.signals) \in 1..Len(r.events)
      BY <1>2, <2>1, FirstOfIsMember DEF HasSignal
    <3>2. r.events[FirstOf(r.signals)] \in Event
      BY <2>1, <3>1
    <3> QED
      BY <3>2 DEF Event
  <2>3. q = Observe([r EXCEPT !.signals = left], "signal", n)
    BY <1>2, Zenon DEF TryConsumeSignal
  <2>4. /\ DOMAIN q = DOMAIN r
        /\ q.events = r.events /\ q.scanned = r.scanned /\ q.timeline = r.timeline
        /\ q.signals = left /\ q.commands = r.commands /\ q.obs = Append(r.obs, x)
    <3>1. SignalFields \subseteq DOMAIN r
      BY <1>0 DEF HasFields
    <3> HIDE DEF left, n
    <3> QED
      BY <2>3, <3>1 DEF Observe, SignalFields
  <2>5. x \in Observation /\ x[1] = "signal" /\ x[2] = n
    BY <2>2 DEF Observation, Seen
  <2>6. r.obs \in Seq(Observation) /\ r.commands \in Seq(Event)
    BY <1>0 DEF HasFields
  <2> HIDE DEF q, x, n, left
  <2>7. /\ q.obs \in Seq(Observation) /\ Len(q.obs) = Len(r.obs) + 1 /\ Len(r.obs) \in Nat
        /\ \A i \in 1..Len(r.obs) : q.obs[i] = r.obs[i]
        /\ q.obs[Len(r.obs) + 1] = x
    BY <2>4, <2>5, <2>6
  <2>8. /\ Heard(q.obs) = Heard(r.obs) \cup {Len(r.obs) + 1}
        /\ \A i \in Heard(r.obs) : q.obs[i] = r.obs[i] /\ i < Len(r.obs) + 1
    BY <2>5, <2>6, <2>7, HeardAppend
  <2>9. HasFields(q) /\ SameSignals(r, q)
    BY <1>0, <2>4, <2>6, <2>7, Zenon DEF HasFields, SameSignals
  <2>10. \E p \in Nat : /\ Heard(q.obs) = Heard(r.obs) \cup {p}
                        /\ \A i \in Heard(r.obs) : i < p
                        /\ q.obs[p][2] = n
    <3>1. Len(r.obs) + 1 \in Nat
      BY <2>7
    <3> QED
      BY <2>5, <2>7, <2>8, <3>1
  <2>11. Hears(r, q)
    BY <1>2, <2>4, <2>8, <2>9, <2>10 DEF Hears, left, n
  <2> QED
    BY <2>11 DEF q
<1> QED
  BY <1>1, <1>2

\* Get receives a signal, or is silent.
LEMMA GetHears ==
  ASSUME NEW r, RunnerOK(r), NEW f, IsWaitable(r, f)
  PROVE  Silent(r, Get(r, f)) \/ Hears(r, Get(r, f))
<1>1. HasFields(r) /\ f.id \in Int
  BY RunnerHasFields DEF IsWaitable, IsFuture
<1>2. CASE f.k = "Signal"
  BY <1>2, TryConsumeSignalHears DEF Get
<1>3. CASE f.k \in {"Timer", "Cancellation"}
  <2>1. Get(r, f) = Observe(r, "done", f.id)
    BY <1>3 DEF Get
  <2>2. "done" \in Seen /\ "done" # "signal"
    BY NoSignal
  <2> QED
    BY <1>1, <2>1, <2>2, ObserveSilent
<1>4. CASE f.k \notin {"Signal", "Timer", "Cancellation"}
  <2>1. Get(r, f) = Observe(r, r.futures[f.k][f.id + 1], f.id)
    BY <1>4 DEF Get
  <2>2. f.k \in OpKinds /\ f.id + 1 \in 1..Len(r.futures[f.k])
    BY <1>4 DEF IsWaitable, IsFuture
  <2>3. r.futures[f.k][f.id + 1] \in FutureStatus
    BY <2>2 DEF RunnerOK, Runner
  <2>4. r.futures[f.k][f.id + 1] \in Seen /\ r.futures[f.k][f.id + 1] # "signal"
    BY <2>3, NoSignal
  <2> QED
    BY <1>1, <2>1, <2>4, ObserveSilent
<1> QED
  BY <1>2, <1>3, <1>4

\* So does Select.
LEMMA SelectHears ==
  ASSUME NEW r, RunnerOK(r), NEW a, NEW b, IsWaitable(r, a), IsWaitable(r, b),
         ReadyCases(r, <<a, b>>) # {}
  PROVE  Silent(r, Select(r, <<a, b>>)) \/ Hears(r, Select(r, <<a, b>>))
<1> DEFINE i == FirstOf(ReadyCases(r, <<a, b>>))
           q == Observe(r, "case", i)
<1>1. ReadyCases(r, <<a, b>>) \in SUBSET (1..2) /\ ReadyCases(r, <<a, b>>) \in SUBSET Nat
  BY DEF ReadyCases
<1>2. i \in 1..2
  BY <1>1, FirstOfIsMember
<1>3. Select(r, <<a, b>>) = Get(q, <<a, b>>[i])
  BY DEF Select
<1> HIDE DEF i
<1>4. "case" \in Seen /\ "case" # "signal" /\ HasFields(r)
  BY NoSignal, RunnerHasFields
<1>5. Quiet(r, q) /\ RunnerOK(q) /\ Silent(r, q)
  BY <1>2, <1>4, ObserveQuiet, QuietIsOK, ObserveSilent
<1>6. IsWaitable(r, <<a, b>>[i])
  BY <1>2
<1> HIDE DEF q
<1>7. IsWaitable(q, <<a, b>>[i])
  BY <1>5, <1>6 DEF IsWaitable, IsFuture, Quiet
<1>8. Silent(q, Get(q, <<a, b>>[i])) \/ Hears(q, Get(q, <<a, b>>[i]))
  BY <1>5, <1>7, GetHears
<1> QED
  BY <1>3, <1>5, <1>8, SilentTransitive, SilentThenHears

-----------------------------------------------------------------------------
(***************************************************************************)
(* The signals of a history and how far a runner is with them: what was    *)
(* delivered, what was received, what waits.                               *)
(***************************************************************************)
\* The signals of a history, and their numbers: those after a, up to b, in order.
Signals(h) == Events(h, "Signaled")

Numbered(s, a, b) ==
    /\ a \in Nat /\ b \in Nat /\ a <= b
    /\ \A i \in Signals(s) : s[i].n \in (a + 1)..b
    /\ \A i, j \in Signals(s) : i < j => s[i].n < s[j].n
    /\ \A m \in (a + 1)..b : \E i \in Signals(s) : s[i].n = m

\* What a beginning of a history keeps of that.
Ordered(e) ==
    /\ \A i \in Signals(e) : e[i].n \in Nat \ {0}
    /\ \A i, j \in Signals(e) : i < j => e[i].n < e[j].n
    /\ \A j \in Signals(e) : \A m \in 1..e[j].n : \E i \in Signals(e) : e[i].n = m

\* The signals of its history a runner has been given: those before the first
\* update, those of the timeline up to the last step replayed, and those of
\* later tasks.
Delivered(r) == {i \in Signals(r.events) :
                    i > r.scanned \/ i <= r.timeline \/ ~SeenUpdate(Scan(r), i)}

\* What waits to be received is what was delivered and not received; nothing was
\* received that was not delivered; events beyond the prescan come to a runner
\* that is through with its timeline.
Mailbox(r) ==
    LET c == Cardinality(Heard(r.obs))
    IN  /\ r.signals = {i \in Delivered(r) : r.events[i].n > c}
        /\ \A i \in Signals(r.events) : r.events[i].n <= c => i \in Delivered(r)
        /\ c = 0 \/ \E i \in Signals(r.events) : r.events[i].n = c
        /\ Len(r.events) = r.scanned \/ TimelineLeft(r) = {}

\* A runner that still runs is through with its timeline.
Caught(r) == r.done = "nil" => TimelineLeft(r) = {}

\* The runner's history is a beginning of h.
Follows(r, h) == Len(r.events) <= Len(h) /\ \A i \in 1..Len(r.events) : r.events[i] = h[i]

RecvOK(r, h) ==
    /\ Follows(r, h)
    /\ InOrder(r.obs)
    /\ OnlyCommands(r.commands)
    /\ r.done = "nil" => Mailbox(r)

\* The observations that are signals are finitely many.
LEMMA HeardFinite ==
  ASSUME NEW o \in Seq(Observation)
  PROVE  IsFiniteSet(Heard(o)) /\ Heard(o) \subseteq Nat /\ Cardinality(Heard(o)) \in Nat
<1>1. IsFiniteSet(1..Len(o)) /\ Heard(o) \subseteq 1..Len(o) /\ 1..Len(o) \subseteq Nat
  BY FS_Interval DEF Heard
<1> QED
  BY <1>1, FS_Subset, FS_CardinalityType

\* A beginning of a numbered history is ordered.
LEMMA FollowsOrdered ==
  ASSUME NEW h \in Seq(Event), NEW b, Numbered(h, 0, b), NEW e \in Seq(Event),
         Len(e) <= Len(h), \A i \in 1..Len(e) : e[i] = h[i]
  PROVE  Ordered(e)
<1>1. Len(e) \in Nat /\ Len(h) \in Nat
  OBVIOUS
<1>2. \A i \in Signals(e) : i \in Signals(h) /\ e[i] = h[i]
  BY <1>1 DEF Signals, Events
<1>3. \A i \in Signals(h) : i \in 1..Len(h) /\ (i <= Len(e) => i \in Signals(e) /\ e[i] = h[i])
  BY <1>1 DEF Signals, Events
<1>4. \A i \in Signals(e) : i \in 1..Len(e)
  BY DEF Signals, Events
<1>5. \A i \in Signals(e) : e[i].n \in Nat \ {0} /\ e[i].n <= b
  BY <1>2 DEF Numbered
<1>6. \A i, j \in Signals(e) : i < j => e[i].n < e[j].n
  BY <1>2 DEF Numbered
<1>7. ASSUME NEW j \in Signals(e), NEW m \in 1..e[j].n
      PROVE  \E i \in Signals(e) : e[i].n = m
  <2>1. m \in (0 + 1)..b
    BY <1>5 DEF Numbered
  <2>2. PICK i \in Signals(h) : h[i].n = m
    BY <2>1 DEF Numbered
  <2>3. i <= j
    <3> SUFFICES ASSUME j < i PROVE FALSE
      BY <1>1, <1>3, <1>4
    <3>1. h[j].n < h[i].n
      BY <1>2 DEF Numbered
    <3> QED
      BY <1>2, <1>5, <2>2, <3>1
  <2>4. i <= Len(e)
    BY <1>1, <1>3, <1>4, <2>3
  <2> QED
    BY <1>3, <2>2, <2>4
<1> QED
  BY <1>5, <1>6, <1>7 DEF Ordered

\* A silent step keeps the order and the mailbox.
LEMMA SilentKeeps ==
  ASSUME NEW r, NEW q, Silent(r, q)
  PROVE  /\ InOrder(r.obs) => InOrder(q.obs)
         /\ Mailbox(r) => Mailbox(q)
         /\ TimelineLeft(q) = TimelineLeft(r)
<1>1. /\ q.events = r.events /\ q.scanned = r.scanned /\ q.timeline = r.timeline
      /\ q.signals = r.signals /\ Heard(q.obs) = Heard(r.obs)
      /\ \A i \in Heard(r.obs) : q.obs[i] = r.obs[i]
  BY DEF Silent, SameSignals
<1>2. TimelineLeft(q) = TimelineLeft(r) /\ Delivered(q) = Delivered(r)
  BY <1>1, Zenon DEF TimelineLeft, Delivered, Scan
<1>3. InOrder(r.obs) => InOrder(q.obs)
  BY <1>1, Zenon DEF InOrder
<1>4. Mailbox(r) => Mailbox(q)
  BY <1>1, <1>2, Zenon DEF Mailbox
<1> QED
  BY <1>2, <1>3, <1>4

\* What comes before a delivered signal has been delivered.
LEMMA DeliveredInOrder ==
  ASSUME NEW r, RunnerOK(r), Len(r.events) = r.scanned \/ TimelineLeft(r) = {},
         NEW x \in Delivered(r), NEW i \in Signals(r.events), i < x
  PROVE  i \in Delivered(r)
<1>1. /\ r.events \in Seq(Event) /\ r.scanned \in Nat /\ r.timeline \in Nat
      /\ r.scanned <= Len(r.events) /\ Len(r.events) \in Nat
  BY DEF RunnerOK, Runner
<1>2. /\ x \in 1..Len(r.events) /\ i \in 1..Len(r.events) /\ r.events[i].t = "Signaled"
  BY DEF Delivered, Signals, Events
<1>3. CASE x > r.scanned
  <2>1. TimelineLeft(r) = {}
    BY <1>1, <1>2, <1>3
  <2>2. CASE i > r.scanned \/ ~SeenUpdate(Scan(r), i)
    BY <2>2 DEF Delivered
  <2>3. CASE i <= r.scanned /\ SeenUpdate(Scan(r), i)
    <3>1. Len(Scan(r)) = r.scanned /\ Scan(r)[i] = r.events[i]
      BY <1>1, <1>2, <2>3, ScanEvent
    <3>2. i \in PostUpdateTimeline(Scan(r))
      BY <1>1, <1>2, <2>3, <3>1 DEF PostUpdateTimeline, Deferred, IsDeferredOnReplay
    <3>3. i <= r.timeline
      BY <1>1, <1>2, <2>1, <3>2 DEF TimelineLeft
    <3> QED
      BY <3>3 DEF Delivered
  <2> QED
    BY <1>1, <1>2, <2>2, <2>3
<1>4. CASE x <= r.timeline
  BY <1>1, <1>2, <1>4 DEF Delivered
<1>5. CASE ~SeenUpdate(Scan(r), x)
  <2>1. ~SeenUpdate(Scan(r), i)
    <3>1. \A j \in Events(Scan(r), "UpdateAccepted") : j \in Int
      BY DEF Events
    <3> QED
      BY <1>2, <1>5, <3>1 DEF SeenUpdate
  <2> QED
    BY <2>1 DEF Delivered
<1> QED
  BY <1>3, <1>4, <1>5 DEF Delivered

\* The signal received next is the one after the last received.
LEMMA NextSignal ==
  ASSUME NEW r, RunnerOK(r), Ordered(r.events), Mailbox(r), HasSignal(r)
  PROVE  LET c == Cardinality(Heard(r.obs))
             x == FirstOf(r.signals)
         IN  /\ x \in Delivered(r) /\ r.events[x].n = c + 1
             /\ \A i \in Signals(r.events) : r.events[i].n = c + 1 => i = x
<1> DEFINE c == Cardinality(Heard(r.obs))
           x == FirstOf(r.signals)
<1>1. /\ r.signals \in SUBSET Nat /\ r.signals # {} /\ c \in Nat /\ Len(r.events) \in Nat
  BY HeardFinite DEF RunnerOK, Runner, HasSignal, Observation
<1>2. x \in r.signals /\ \A j \in r.signals : x <= j
  BY <1>1, FirstOfIsMember
<1> HIDE DEF x
<1>3. /\ r.signals = {i \in Delivered(r) : r.events[i].n > c}
      /\ Len(r.events) = r.scanned \/ TimelineLeft(r) = {}
  BY DEF Mailbox
<1> HIDE DEF c
<1>4. x \in Delivered(r) /\ x \in Signals(r.events) /\ r.events[x].n > c
  BY <1>2, <1>3 DEF Delivered
<1>5. \A i \in Signals(r.events) : i \in Int
  BY DEF Signals, Events
<1>6. \A i, j \in Signals(r.events) : r.events[i].n = r.events[j].n => i = j
  BY <1>5 DEF Ordered
<1>7. r.events[x].n \in Nat /\ c + 1 \in 1..r.events[x].n
  BY <1>1, <1>4 DEF Ordered
<1>8. PICK i \in Signals(r.events) : r.events[i].n = c + 1
  BY <1>4, <1>7 DEF Ordered
<1>9. i = x
  <2>1. CASE i < x
    <3>1. i \in Delivered(r)
      BY <1>3, <1>4, <2>1, DeliveredInOrder
    <3>2. i \in r.signals
      BY <1>1, <1>3, <1>8, <3>1
    <3> QED
      BY <1>2, <1>4, <1>5, <2>1, <3>2
  <2>2. CASE x < i
    <3>1. r.events[x].n < r.events[i].n
      BY <1>4, <2>2 DEF Ordered
    <3> QED
      BY <1>1, <1>4, <1>7, <1>8, <3>1
  <2> QED
    BY <1>4, <1>5, <2>1, <2>2
<1> QED
  BY <1>4, <1>6, <1>8, <1>9 DEF c, x

\* Receiving the first signal that waits keeps the order and the mailbox.
LEMMA HearsKeeps ==
  ASSUME NEW r, RunnerOK(r), Ordered(r.events), NEW q, Hears(r, q), InOrder(r.obs), Mailbox(r)
  PROVE  InOrder(q.obs) /\ Mailbox(q) /\ TimelineLeft(q) = TimelineLeft(r)
<1> DEFINE H == Heard(r.obs)
           c == Cardinality(H)
           x == FirstOf(r.signals)
<1>1. /\ q.events = r.events /\ q.scanned = r.scanned /\ q.timeline = r.timeline
      /\ q.signals = r.signals \ {x} /\ HasSignal(r)
      /\ \A i \in H : q.obs[i] = r.obs[i]
  BY DEF Hears, SameSignals
<1>2. PICK p \in Nat : /\ Heard(q.obs) = H \cup {p}
                       /\ \A i \in H : i < p
                       /\ q.obs[p][2] = r.events[x].n
  BY DEF Hears
<1>3. IsFiniteSet(H) /\ H \subseteq Nat /\ c \in Nat
  BY HeardFinite DEF RunnerOK, Runner, Observation
<1>4. /\ x \in Delivered(r) /\ r.events[x].n = c + 1
      /\ \A i \in Signals(r.events) : r.events[i].n = c + 1 => i = x
  BY <1>1, NextSignal
<1>5. TimelineLeft(q) = TimelineLeft(r) /\ Delivered(q) = Delivered(r)
  BY <1>1, Zenon DEF TimelineLeft, Delivered, Scan
<1>6. p \notin H
  BY <1>2, <1>3
<1>7. Cardinality(Heard(q.obs)) = c + 1
  BY <1>2, <1>3, <1>6, FS_AddElement
<1>8. InOrder(q.obs)
  <2> SUFFICES ASSUME NEW i \in H \cup {p}
               PROVE  q.obs[i][2] = Ordinal(H \cup {p}, i) + 1
    BY <1>2 DEF InOrder
  <2>1. CASE i \in H
    <3>1. {j \in H \cup {p} : j < i} = {j \in H : j < i}
      BY <1>2, <1>3, <2>1
    <3>2. Ordinal(H \cup {p}, i) = Ordinal(H, i)
      BY <3>1, Zenon DEF Ordinal
    <3> QED
      BY <1>1, <2>1, <3>2 DEF InOrder
  <2>2. CASE i = p
    <3>1. {j \in H \cup {p} : j < p} = H
      BY <1>2, <1>3
    <3>2. Ordinal(H \cup {p}, p) = c
      BY <3>1, Zenon DEF Ordinal
    <3> QED
      BY <1>2, <1>4, <2>2, <3>2
  <2> QED
    BY <2>1, <2>2
<1>9. Mailbox(q)
  <2>0. /\ r.signals = {i \in Delivered(r) : r.events[i].n > c}
        /\ \A i \in Signals(r.events) : r.events[i].n <= c => i \in Delivered(r)
        /\ Len(r.events) = r.scanned \/ TimelineLeft(r) = {}
    BY DEF Mailbox
  <2> HIDE DEF c, x
  <2>1. \A i \in Delivered(r) : i \in Signals(r.events)
    BY DEF Delivered
  <2>2. \A i \in Signals(r.events) : r.events[i].n \in Nat
    BY DEF Ordered
  <2>3. q.signals = {i \in Delivered(q) : q.events[i].n > c + 1}
    <3>1. \A i : i \in q.signals <=> i \in Delivered(r) /\ r.events[i].n > c /\ i # x
      BY <1>1, <2>0
    <3>2. \A i \in Delivered(r) : (r.events[i].n > c /\ i # x) <=> r.events[i].n > c + 1
      BY <1>3, <1>4, <2>1, <2>2
    <3> QED
      BY <1>1, <1>5, <3>1, <3>2
  <2>4. \A i \in Signals(q.events) : q.events[i].n <= c + 1 => i \in Delivered(q)
    BY <1>1, <1>3, <1>4, <1>5, <2>0, <2>2
  <2>5. \E i \in Signals(q.events) : q.events[i].n = c + 1
    BY <1>1, <1>4, <2>1
  <2> QED
    BY <1>1, <1>5, <1>7, <2>0, <2>3, <2>4, <2>5, Zenon DEF Mailbox
<1> QED
  BY <1>5, <1>8, <1>9

\* A new runner has received nothing and waits for the signals before the first update.
LEMMA NewRunnerReceives ==
  ASSUME NEW p \in Programs, NEW h \in Seq(Event), NEW isReplaying \in BOOLEAN, Ordered(h)
  PROVE  LET r == NewRunner(p, h, isReplaying)
         IN  InOrder(r.obs) /\ OnlyCommands(r.commands) /\ Mailbox(r) /\ r.done = "nil"
<1> DEFINE r == NewRunner(p, h, isReplaying)
<1>1. RunnerOK(r) /\ Scan(r) = h /\ r.events = h /\ r.commands = << >>
  BY NewRunnerOK
<1>2. /\ r.scanned = Len(h) /\ r.timeline = 0 /\ r.signals = ScanSignals(h)
      /\ r.obs = << >> /\ r.done = "nil"
  BY DEF NewRunner
<1> HIDE DEF r
<1>3. Heard(r.obs) = {}
  BY <1>2 DEF Heard
<1>4. Cardinality(Heard(r.obs)) = 0
  BY <1>3, FS_EmptySet
<1>5. \A i \in Signals(h) : i \in 1..Len(h) /\ h[i].t = "Signaled" /\ h[i].n \in Nat \ {0}
  BY DEF Signals, Events, Ordered
<1>6. \A i \in Signals(h) : i \in Delivered(r) <=> ~SeenUpdate(h, i)
  BY <1>1, <1>2, <1>5 DEF Delivered
<1>7. \A i \in Signals(h) : i \in ScanSignals(h) <=> ~SeenUpdate(h, i)
  BY <1>5 DEF ScanSignals, Signals, Deferred, IsDeferredOnReplay
<1>8. r.signals = {i \in Delivered(r) : r.events[i].n > 0}
  <2>1. \A i \in Delivered(r) : i \in Signals(h)
    BY <1>1 DEF Delivered
  <2>2. \A i \in ScanSignals(h) : i \in Signals(h)
    BY DEF ScanSignals, Signals
  <2> QED
    BY <1>1, <1>2, <1>5, <1>6, <1>7, <2>1, <2>2
<1>9. \A i \in Signals(r.events) : ~ (r.events[i].n <= 0)
  BY <1>1, <1>5
<1>10. Mailbox(r)
  BY <1>1, <1>2, <1>4, <1>8, <1>9 DEF Mailbox
<1>11. InOrder(r.obs)
  BY <1>3 DEF InOrder
<1> QED
  BY <1>1, <1>2, <1>10, <1>11 DEF r, OnlyCommands

\* What applying events does to the fields the signals depend on.
LEMMA ApplyEventsAtSignals ==
  ASSUME NEW r \in Runner, NEW N
  PROVE  LET q == ApplyEventsAt(r, N)
         IN  /\ q.signals = r.signals \cup (N \cap Signals(r.events))
             /\ q.events = r.events /\ q.scanned = r.scanned /\ q.timeline = r.timeline
             /\ q.obs = r.obs /\ q.commands = r.commands /\ q.done = r.done
             /\ "timeline" \in DOMAIN q
<1> DEFINE fs == [k \in OpKinds |-> [i \in 1..Len(r.futures[k]) |->
                        LET S == Touching(r.events, N, k, i - 1)
                        IN  IF S = {} \/ r.futures[k][i] = "cancelled" THEN r.futures[k][i]
                            ELSE StatusAfter(r.events[LastOf(S)])]]
           ss == r.signals \cup (N \cap Events(r.events, "Signaled"))
           cs == r.cancel \/ N \cap Events(r.events, "CancelRequested") # {}
           q  == [r EXCEPT !.futures = fs, !.signals = ss, !.cancel = cs]
<1>1. ApplyEventsAt(r, N) = q
  BY Zenon DEF ApplyEventsAt
<1>2. ss = r.signals \cup (N \cap Signals(r.events))
  BY DEF Signals
<1> HIDE DEF fs, ss, cs
<1>3. /\ q.signals = ss /\ q.events = r.events /\ q.scanned = r.scanned
      /\ q.timeline = r.timeline /\ q.obs = r.obs /\ q.commands = r.commands /\ q.done = r.done
      /\ "timeline" \in DOMAIN q
  BY DEF Runner
<1> QED
  BY <1>1, <1>2, <1>3

\* The runner after a step of the timeline.
LEMMA ReapplyStepSignals ==
  ASSUME NEW r, RunnerOK(r), TimelineLeft(r) # {}
  PROVE  LET q == ReapplyStep(r)
             x == FirstOf(TimelineLeft(r))
         IN  /\ q.signals = IF Scan(r)[x].t = "UpdateAccepted" THEN r.signals
                            ELSE r.signals \cup ({x} \cap Signals(r.events))
             /\ q.timeline = x
             /\ q.events = r.events /\ q.scanned = r.scanned
             /\ q.obs = r.obs /\ q.commands = r.commands /\ q.done = r.done
<1> DEFINE x == FirstOf(TimelineLeft(r))
           u == RunUpdate(r)
           a == ApplyEventsAt(r, {x})
           q == IF Scan(r)[x].t = "UpdateAccepted" THEN u ELSE a
           s == [q EXCEPT !.timeline = x]
<1>1. ReapplyStep(r) = s
  BY Zenon DEF ReapplyStep
<1>2. r \in Runner
  BY DEF RunnerOK
<1> HIDE DEF x
<1>3. /\ u.signals = r.signals /\ u.events = r.events /\ u.scanned = r.scanned
      /\ u.obs = r.obs /\ u.commands = r.commands /\ u.done = r.done /\ "timeline" \in DOMAIN u
  <2> DEFINE n == r.updates + 1
  <2>1. u = [r EXCEPT !.updates = n]
    BY Zenon DEF RunUpdate
  <2> HIDE DEF n, u
  <2> QED
    BY <1>2, <2>1 DEF Runner
<1>4. /\ a.signals = r.signals \cup ({x} \cap Signals(r.events))
      /\ a.events = r.events /\ a.scanned = r.scanned
      /\ a.obs = r.obs /\ a.commands = r.commands /\ a.done = r.done /\ "timeline" \in DOMAIN a
  BY <1>2, ApplyEventsAtSignals
<1> HIDE DEF u, a
<1>5. /\ q.signals = IF Scan(r)[x].t = "UpdateAccepted" THEN r.signals
                     ELSE r.signals \cup ({x} \cap Signals(r.events))
      /\ q.events = r.events /\ q.scanned = r.scanned
      /\ q.obs = r.obs /\ q.commands = r.commands /\ q.done = r.done /\ "timeline" \in DOMAIN q
  BY <1>3, <1>4, Zenon
<1> HIDE DEF q
<1>6. /\ s.signals = q.signals /\ s.timeline = x /\ s.events = q.events /\ s.scanned = q.scanned
      /\ s.obs = q.obs /\ s.commands = q.commands /\ s.done = q.done
  BY <1>5
<1> QED
  BY <1>1, <1>5, <1>6 DEF x

\* A step of the timeline delivers its signal, if it is one.
LEMMA ReapplyStepReceives ==
  ASSUME NEW r, RunnerOK(r), TimelineLeft(r) # {}, Mailbox(r)
  PROVE  Mailbox(ReapplyStep(r))
<1> DEFINE q == ReapplyStep(r)
           x == FirstOf(TimelineLeft(r))
           c == Cardinality(Heard(r.obs))
<1>1. /\ q.signals = IF Scan(r)[x].t = "UpdateAccepted" THEN r.signals
                     ELSE r.signals \cup ({x} \cap Signals(r.events))
      /\ q.timeline = x /\ q.events = r.events /\ q.scanned = r.scanned /\ q.obs = r.obs
  BY ReapplyStepSignals
<1>2. /\ r.signals = {i \in Delivered(r) : r.events[i].n > c}
      /\ \A i \in Signals(r.events) : r.events[i].n <= c => i \in Delivered(r)
      /\ c = 0 \/ \E i \in Signals(r.events) : r.events[i].n = c
      /\ Len(r.events) = r.scanned
  BY DEF Mailbox
<1>3. /\ r.scanned \in Nat /\ r.timeline \in Nat /\ Scan(q) = Scan(r)
      /\ r.events \in Seq(Event) /\ Len(Scan(r)) = r.scanned
      /\ \A i \in 1..r.scanned : Scan(r)[i] = r.events[i]
  <2>1. Scan(q) = Scan(r)
    BY <1>1, Zenon DEF Scan
  <2> QED
    BY <2>1, ScanEvent DEF RunnerOK, Runner
<1>4. /\ TimelineLeft(r) \subseteq 1..r.scanned
      /\ \A i \in TimelineLeft(r) : i > r.timeline
  BY <1>3 DEF TimelineLeft, PostUpdateTimeline, Deferred, Events
<1>5. x \in TimelineLeft(r) /\ \A j \in TimelineLeft(r) : x <= j
  <2>1. TimelineLeft(r) \in SUBSET Nat
    BY <1>3, <1>4
  <2> QED
    BY <2>1, FirstOfIsMember
<1> HIDE DEF q, x, c
<1>6. x \in 1..r.scanned /\ x > r.timeline
  BY <1>4, <1>5
<1>7. \A i \in Signals(r.events) : i \in 1..r.scanned /\ r.events[i].t = "Signaled"
  BY <1>2 DEF Signals, Events
<1>8. \A i \in Signals(r.events) :
         i > r.timeline /\ SeenUpdate(Scan(r), i) => i \in TimelineLeft(r)
  BY <1>3, <1>7 DEF TimelineLeft, PostUpdateTimeline, Deferred, IsDeferredOnReplay
<1>9. x \in Signals(r.events) => SeenUpdate(Scan(r), x)
  <2>1. x \in Deferred(Scan(r)) \/ x \in Events(Scan(r), "UpdateAccepted")
    BY <1>5 DEF TimelineLeft, PostUpdateTimeline
  <2>2. x \in Events(Scan(r), "UpdateAccepted") => Scan(r)[x].t = "UpdateAccepted"
    BY DEF Events
  <2>3. x \in Signals(r.events) => Scan(r)[x].t = "Signaled"
    BY <1>3, <1>6, <1>7
  <2> QED
    BY <2>1, <2>2, <2>3 DEF Deferred
<1>10. \A i \in Signals(r.events) : i \in Delivered(q) <=> i \in Delivered(r) \/ i = x
  <2> SUFFICES ASSUME NEW i \in Signals(r.events)
               PROVE  i \in Delivered(q) <=> i \in Delivered(r) \/ i = x
    OBVIOUS
  <2>1. i \in Delivered(q) <=> i > r.scanned \/ i <= x \/ ~SeenUpdate(Scan(r), i)
    BY <1>1, <1>3 DEF Delivered
  <2>2. i \in Delivered(r) <=> i > r.scanned \/ i <= r.timeline \/ ~SeenUpdate(Scan(r), i)
    BY DEF Delivered
  <2>3. i \in 1..r.scanned /\ (i > r.timeline /\ SeenUpdate(Scan(r), i) => x <= i)
    BY <1>5, <1>7, <1>8
  <2> QED
    BY <1>3, <1>6, <2>1, <2>2, <2>3
<1>11. x \in Signals(r.events) => x \notin Delivered(r)
  BY <1>3, <1>6, <1>9 DEF Delivered
<1>12. q.signals = r.signals \cup ({x} \cap Signals(r.events))
  <2>1. x \in Signals(r.events) => Scan(r)[x].t = "Signaled"
    BY <1>3, <1>6, <1>7
  <2> QED
    BY <1>1, <2>1
<1>13. c \in Nat /\ \A i \in Signals(r.events) : r.events[i].n \in Int
  <2>1. c \in Nat
    BY HeardFinite DEF RunnerOK, Runner, Observation, c
  <2>2. \A i \in 1..Len(r.events) : r.events[i] \in Event
    BY <1>3
  <2>3. \A e \in Event : e.n \in Int
    BY DEF Event
  <2> QED
    BY <1>2, <1>7, <2>1, <2>2, <2>3
<1>14. \A i \in Delivered(r) : i \in Signals(r.events)
  BY DEF Delivered
<1>15. \A i \in Delivered(q) : i \in Signals(r.events)
  BY <1>1 DEF Delivered
<1>16. x \in Signals(r.events) => r.events[x].n > c
  BY <1>2, <1>11, <1>13
<1>17. q.signals = {i \in Delivered(q) : q.events[i].n > c}
  BY <1>1, <1>2, <1>10, <1>12, <1>14, <1>15, <1>16
<1>18. \A i \in Signals(q.events) : q.events[i].n <= c => i \in Delivered(q)
  BY <1>1, <1>2, <1>10
<1>19. Mailbox(q)
  BY <1>1, <1>2, <1>17, <1>18 DEF Mailbox, c
<1> QED
  BY <1>19 DEF q

\* What a sticky continuation does to the fields the signals depend on.
LEMMA ApplyEventsSignals ==
  ASSUME NEW r, RunnerOK(r), NEW h \in Seq(Event), Follows(r, h)
  PROVE  LET q == ApplyEvents(r, h)
         IN  /\ q.events = h
             /\ q.signals = r.signals \cup (((Len(r.events) + 1)..Len(h)) \cap Signals(h))
             /\ q.scanned = r.scanned /\ q.timeline = r.timeline /\ q.obs = r.obs
             /\ q.commands = << >> /\ q.done = r.done
<1> DEFINE m  == Len(r.events)
           es == r.events \o SubSeq(h, m + 1, Len(h))
           p  == [r EXCEPT !.events = es, !.commands = << >>, !.produced = << >>]
           N  == (m + 1)..Len(h)
<1>1. /\ r \in Runner /\ r.events \in Seq(Event) /\ m \in Nat /\ Len(h) \in Nat /\ m <= Len(h)
  BY DEF RunnerOK, Runner, Follows
<1>2. es = h
  <2> DEFINE t == SubSeq(h, m + 1, Len(h))
  <2>1. /\ t \in Seq(Event) /\ Len(t) = Len(h) - m
    BY <1>1, TailOfHistory
  <2>2. \A i \in 1..(Len(h) - m) : t[i] = h[m + i]
    <3>1. m + 1 \in Int /\ \A i \in (m + 1)..Len(h) : h[i] \in Event
      BY <1>1
    <3> DEFINE a == m + 1
               b == Len(h)
    <3>2. a \in Int /\ b \in Int /\ \A i \in a..b : h[i] \in Event
      BY <1>1, <3>1
    <3> HIDE DEF a, b
    <3>3. \A i \in 1..(b - a + 1) : SubSeq(h, a, b)[i] = h[a + i - 1]
      BY <3>2, SubSeqProperties
    <3> QED
      BY <1>1, <3>3 DEF a, b
  <2> HIDE DEF t
  <2>3. /\ r.events \o t \in Seq(Event) /\ Len(r.events \o t) = Len(h)
        /\ \A i \in 1..Len(h) : (r.events \o t)[i] = IF i <= m THEN r.events[i] ELSE t[i - m]
    BY <1>1, <2>1
  <2>4. \A i \in 1..Len(h) : (r.events \o t)[i] = h[i]
    <3> SUFFICES ASSUME NEW i \in 1..Len(h) PROVE (r.events \o t)[i] = h[i]
      OBVIOUS
    <3>1. CASE i <= m
      BY <1>1, <2>3, <3>1 DEF Follows
    <3>2. CASE i > m
      BY <1>1, <2>2, <2>3, <3>2
    <3>3. i <= m \/ i > m
      BY <1>1
    <3> QED
      BY <3>1, <3>2, <3>3, Zenon
  <2> QED
    BY <2>3, <2>4, SeqEqual DEF t
<1>3. ApplyEvents(r, h) = ApplyEventsAt(p, N)
  BY Zenon DEF ApplyEvents, LastEventId
<1> HIDE DEF es
<1>4. << >> \in Seq(Event) /\ << >> \in Seq(CommandEvent) /\ es \in Seq(Event)
  BY <1>2
<1>5. p \in Runner
  BY <1>1, <1>4, Zenon DEF Runner
<1>6. /\ p.events = es /\ p.scanned = r.scanned /\ p.timeline = r.timeline /\ p.obs = r.obs
      /\ p.commands = << >> /\ p.signals = r.signals /\ p.done = r.done
  BY <1>1, Zenon DEF Runner
<1> HIDE DEF p, N
<1> DEFINE q == ApplyEventsAt(p, N)
<1>7. /\ q.signals = p.signals \cup (N \cap Signals(p.events))
      /\ q.events = p.events /\ q.scanned = p.scanned /\ q.timeline = p.timeline
      /\ q.obs = p.obs /\ q.commands = p.commands /\ q.done = p.done
  BY <1>5, ApplyEventsAtSignals
<1> HIDE DEF q
<1> QED
  BY <1>2, <1>3, <1>6, <1>7 DEF q, N

\* A sticky continuation delivers the signals of its events.
LEMMA ApplyEventsReceives ==
  ASSUME NEW r, RunnerOK(r), NEW h \in Seq(Event), Ordered(h), Follows(r, h),
         TimelineLeft(r) = {}, Mailbox(r)
  PROVE  TimelineLeft(ApplyEvents(r, h)) = {} /\ Mailbox(ApplyEvents(r, h))
<1> DEFINE q == ApplyEvents(r, h)
           m == Len(r.events)
           c == Cardinality(Heard(r.obs))
<1>1. /\ q.events = h /\ q.signals = r.signals \cup (((m + 1)..Len(h)) \cap Signals(h))
      /\ q.scanned = r.scanned /\ q.timeline = r.timeline /\ q.obs = r.obs
  BY ApplyEventsSignals
<1>2. /\ m \in Nat /\ r.scanned \in Nat /\ r.timeline \in Nat /\ r.scanned <= m
      /\ m <= Len(h) /\ Len(h) \in Nat /\ c \in Nat
  <2>1. c \in Nat
    BY HeardFinite DEF RunnerOK, Runner, Observation
  <2> HIDE DEF c
  <2> QED
    BY <2>1 DEF RunnerOK, Runner, Follows
<1>3. Scan(q) = Scan(r)
  BY <1>2, ApplyEventsOK
<1>4. TimelineLeft(q) = {}
  BY <1>1, <1>3, Zenon DEF TimelineLeft
<1>5. /\ r.signals = {i \in Delivered(r) : r.events[i].n > c}
      /\ \A i \in Signals(r.events) : r.events[i].n <= c => i \in Delivered(r)
      /\ c = 0 \/ \E i \in Signals(r.events) : r.events[i].n = c
  BY DEF Mailbox
<1> HIDE DEF q, c
<1>6. \A i \in Signals(r.events) : i \in 1..m /\ i \in Signals(h) /\ r.events[i] = h[i]
  BY <1>2 DEF Follows, Signals, Events
<1>7. \A i \in Signals(h) : /\ i \in 1..Len(h) /\ h[i].n \in Nat \ {0}
                            /\ i <= m => i \in Signals(r.events)
  BY <1>2 DEF Follows, Signals, Events, Ordered
<1>8. \A i \in Signals(h) : i \in Delivered(q) <=> i > m \/ i \in Delivered(r)
  <2> SUFFICES ASSUME NEW i \in Signals(h)
               PROVE  i \in Delivered(q) <=> i > m \/ i \in Delivered(r)
    OBVIOUS
  <2>1. i \in Delivered(q) <=> i > r.scanned \/ i <= r.timeline \/ ~SeenUpdate(Scan(r), i)
    BY <1>1, <1>3 DEF Delivered
  <2>2. CASE i > m
    BY <1>2, <1>7, <2>1, <2>2
  <2>3. CASE i <= m
    <3>1. i \in Delivered(r) <=> i > r.scanned \/ i <= r.timeline \/ ~SeenUpdate(Scan(r), i)
      BY <1>7, <2>3 DEF Delivered
    <3> QED
      BY <1>2, <1>7, <2>1, <2>3, <3>1
  <2> QED
    BY <1>2, <1>7, <2>2, <2>3
<1>9. \A i \in Signals(h) : i > m => h[i].n > c
  <2> SUFFICES ASSUME NEW i \in Signals(h), i > m PROVE h[i].n > c
    OBVIOUS
  <2>1. CASE c = 0
    BY <1>7, <2>1
  <2>2. CASE c # 0
    <3>1. PICK j \in Signals(r.events) : r.events[j].n = c
      BY <1>5, <2>2
    <3>2. j \in Signals(h) /\ h[j].n = c /\ j < i
      BY <1>2, <1>6, <1>7, <3>1
    <3> QED
      BY <1>2, <1>7, <3>2 DEF Ordered
  <2> QED
    BY <2>1, <2>2
<1>10. (\A i \in Delivered(r) : i \in Signals(r.events)) /\ (\A i \in Delivered(q) : i \in Signals(h))
  BY <1>1 DEF Delivered
<1>11. q.signals = {i \in Delivered(q) : q.events[i].n > c}
  <2>1. ASSUME NEW i \in q.signals PROVE i \in Delivered(q) /\ h[i].n > c
    <3>1. CASE i \in r.signals
      BY <1>5, <1>6, <1>8, <1>10, <3>1
    <3>2. CASE i \in ((m + 1)..Len(h)) \cap Signals(h)
      BY <1>2, <1>8, <1>9, <3>2
    <3> QED
      BY <1>1, <2>1, <3>1, <3>2
  <2>2. ASSUME NEW i \in Delivered(q), h[i].n > c PROVE i \in q.signals
    <3>1. i \in Signals(h)
      BY <1>10
    <3>2. CASE i > m
      BY <1>1, <1>2, <1>7, <3>1, <3>2
    <3>3. CASE ~(i > m)
      <4>1. i \in Delivered(r) /\ i \in Signals(r.events)
        BY <1>8, <1>10, <3>1, <3>3
      <4> QED
        BY <1>1, <1>5, <1>6, <2>2, <4>1
    <3> QED
      BY <3>2, <3>3
  <2> QED
    BY <1>1, <2>1, <2>2
<1>12. \A i \in Signals(q.events) : q.events[i].n <= c => i \in Delivered(q)
  <2> SUFFICES ASSUME NEW i \in Signals(h), h[i].n <= c PROVE i \in Delivered(q)
    BY <1>1
  <2>1. i <= m
    BY <1>2, <1>7, <1>9
  <2> QED
    BY <1>5, <1>6, <1>7, <1>8, <2>1
<1>13. c = 0 \/ \E i \in Signals(q.events) : q.events[i].n = c
  BY <1>1, <1>5, <1>6
<1>14. Mailbox(q)
  BY <1>1, <1>4, <1>11, <1>12, <1>13 DEF Mailbox, c
<1> QED
  BY <1>4, <1>14 DEF q

-----------------------------------------------------------------------------
(***************************************************************************)
(* The composition.                                                        *)
(***************************************************************************)
Working == pc \in {"body", "parked", "respond"}

\* The handler works on a started task, with a well-formed runner.
RunnersOK ==
    /\ runner # NoRunner => RunnerOK(runner)
    /\ cache # NoRunner => RunnerOK(cache)
    /\ Working => runner # NoRunner

TaskOK ==
    /\ pc # "idle" => wft = "started" /\ task.updates <= messages
    /\ pc = "polled" => 1 <= task.first /\ task.first <= task.upto /\ task.upto <= Len(history)
    /\ sticky => prevStarted <= Len(history)

TypeInv == TypeOK /\ RunnersOK /\ TaskOK

-----------------------------------------------------------------------------
\* An event without fields is an event.
LEMMA PlainIs ==
  ASSUME NEW type \in EventTypes
  PROVE  Plain(type) \in Event /\ Plain(type).t = type
  BY SMT DEF Plain, Entry, Event, Names, Data

\* So is the end of an operation.
LEMMA ResolvedIs ==
  ASSUME NEW kind \in OpKinds, NEW id \in Int, NEW n \in Int, NEW outcome \in Data
  PROVE  Resolved(kind, id, n, outcome) \in Event /\ Resolved(kind, id, n, outcome).t = "Resolved"
  BY SMT DEF Resolved, Entry, Event, EventTypes, CommandKinds, OpKinds, Names

\* A signal is an event.
LEMMA SignaledIs ==
  ASSUME NEW n \in Int
  PROVE  Signaled(n) \in Event /\ Signaled(n).t = "Signaled"
  BY SMT DEF Signaled, Entry, Event, EventTypes, Names, Data

\* The invariant holds in the initial states.
LEMMA TypeInit == Init => TypeInv
<1> SUFFICES ASSUME Init PROVE TypeInv
  OBVIOUS
<1>1. Plain("WorkflowExecutionStarted") \in Event
  BY PlainIs DEF EventTypes
<1>2. <<Plain("WorkflowExecutionStarted")>> \in Seq(Event)
  BY <1>1
<1>3. << >> \in Seq(Event) /\ << >> \in Seq(Seen \X Int)
  OBVIOUS
<1>4. TypeOK
  BY <1>2, <1>3 DEF Init, TypeOK, NoTask, Task
<1>5. RunnersOK /\ TaskOK
  BY DEF Init, RunnersOK, TaskOK, Working
<1> QED
  BY <1>4, <1>5 DEF TypeInv

-----------------------------------------------------------------------------
(***************************************************************************)
(* The steps of the workflow function.                                     *)
(***************************************************************************)
\* What the function can wait for is well formed.
LEMMA FuturesAre ==
  ASSUME NEW f \in Futures, RunnerOK(runner)
  PROVE  IsFuture(runner, f)
<1>1. PICK k \in OpKinds : f \in {[k |-> k, id |-> i - 1] : i \in 1..Len(runner.futures[k])}
  BY DEF Futures
<1>2. PICK i \in 1..Len(runner.futures[k]) : f = [k |-> k, id |-> i - 1]
  BY <1>1
<1>3. f.k = k /\ f.id = i - 1
  BY <1>2
<1>4. Len(runner.futures[k]) \in Nat
  BY DEF RunnerOK, Runner
<1> QED
  BY <1>2, <1>3, <1>4 DEF IsFuture

\* So are the cases of a Selector.
LEMMA WaitablesAre ==
  ASSUME NEW f \in Waitables, RunnerOK(runner)
  PROVE  IsWaitable(runner, f)
<1>1. CASE f \in Futures
  BY <1>1, FuturesAre DEF IsWaitable
<1>2. CASE f \notin Futures
  BY <1>2 DEF Waitables, IsWaitable
<1> QED
  BY <1>1, <1>2

\* What a step of the function does to the runner: it starts an operation, or
\* leaves the operations as they are.
Scheduled(r, q) == \E kind \in OpKinds, v \in Names : q = Schedule(r, kind, v)

CallEnds(r, q) == Calm(r, q) \/ (Quiet(r, q) /\ CancelsTimer(r, q)) \/ Scheduled(r, q)

\* Every call of the SDK leaves a well-formed runner and the rest of the state alone.
LEMMA BodyStepIs ==
  ASSUME TypeInv, BodyStep
  PROVE  /\ pc = "body" /\ RunnerOK(runner)
         /\ CallEnds(runner, runner')
         /\ pc' \in {"body", "parked", "respond"} /\ (fresh => pc' # "respond")
         /\ UNCHANGED <<server, clients, code, task, fresh, cache, acked, faults>>
<1>1. pc = "body"
  BY Zenon DEF BodyStep, Calls, Park, CallScheduleActivity, CallStartTimer,
     CallStartChildWorkflow, CallScheduleNexusOperation, CallCancel, CallCancelExternalWorkflow,
     CallSignalExternalWorkflow, CallUpsertSearchAttributes, CallSideEffect, CallLocalActivity,
     CallGetVersion, CallMutableSideEffect, CallGet, CallSelect, CallReceiveAsync, ReadUpdates,
     Return
<1>2. RunnerOK(runner)
  BY <1>1 DEF TypeInv, RunnersOK, Working
<1> DEFINE Goal == /\ CallEnds(runner, runner')
                   /\ pc' \in {"body", "parked", "respond"} /\ (fresh => pc' # "respond")
                   /\ UNCHANGED <<server, clients, code, task, fresh, cache, acked, faults>>
<1> SUFFICES Goal
  BY <1>1, <1>2
<1>3. ASSUME NEW q, Step(q), CallEnds(runner, q)
      PROVE  Goal
  BY <1>3, Zenon DEF Step
<1>4. /\ "nil" \in Names /\ Types \subseteq Names /\ Values \subseteq Data /\ Outcomes \subseteq Data
      /\ Targets \subseteq Int /\ Versions \subseteq Int /\ 0 \in Int /\ OpKinds =
         {"Activity", "Timer", "ChildWorkflow", "NexusOperation"}
  BY HandlerAssumption DEF Names, Data, OpKinds
<1> HIDE DEF Goal
<1>5. CASE CallScheduleActivity
  <2>1. PICK v \in Types : Step(Schedule(runner, "Activity", v))
    BY <1>5, Zenon DEF CallScheduleActivity, ScheduleActivity
  <2>2. CallEnds(runner, Schedule(runner, "Activity", v))
    BY <1>4 DEF Scheduled, CallEnds
  <2> QED
    BY <1>3, <2>1, <2>2 DEF CallEnds
<1>6. CASE CallStartTimer
  <2>1. Step(Schedule(runner, "Timer", "nil"))
    BY <1>6, Zenon DEF CallStartTimer, StartTimer
  <2>2. CallEnds(runner, Schedule(runner, "Timer", "nil"))
    BY <1>4 DEF Scheduled, CallEnds
  <2> QED
    BY <1>3, <2>1, <2>2 DEF CallEnds
<1>7. CASE CallStartChildWorkflow
  <2>1. PICK v \in Types : Step(Schedule(runner, "ChildWorkflow", v))
    BY <1>7, Zenon DEF CallStartChildWorkflow, StartChildWorkflow
  <2>2. CallEnds(runner, Schedule(runner, "ChildWorkflow", v))
    BY <1>4 DEF Scheduled, CallEnds
  <2> QED
    BY <1>3, <2>1, <2>2 DEF CallEnds
<1>8. CASE CallScheduleNexusOperation
  <2>1. Step(Schedule(runner, "NexusOperation", "nil"))
    BY <1>8, Zenon DEF CallScheduleNexusOperation, ScheduleNexusOperation
  <2>2. CallEnds(runner, Schedule(runner, "NexusOperation", "nil"))
    BY <1>4 DEF Scheduled, CallEnds
  <2> QED
    BY <1>3, <2>1, <2>2 DEF CallEnds
<1>9. CASE CallCancel
  <2>1. PICK f \in Futures : Step(Cancel(runner, f))
    BY <1>9, Zenon DEF CallCancel
  <2>2. CallEnds(runner, Cancel(runner, f))
    BY <1>2, FuturesAre, CancelCalm, CancelTimerEffect DEF CallEnds
  <2> QED
    BY <1>3, <2>1, <2>2 DEF CallEnds
<1>10. CASE CallCancelExternalWorkflow
  <2>1. PICK id \in Targets : Step(CancelExternalWorkflow(runner, id))
    BY <1>10, Zenon DEF CallCancelExternalWorkflow
  <2>2. Calm(runner, CancelExternalWorkflow(runner, id))
    BY <1>2, <1>4, CancelExternalWorkflowCalm
  <2> QED
    BY <1>3, <2>1, <2>2 DEF CallEnds
<1>11. CASE CallSignalExternalWorkflow
  <2>1. PICK id \in Targets : Step(SendCounted(runner, "SignalExternalWorkflow", id))
    BY <1>11, Zenon DEF CallSignalExternalWorkflow, SignalExternalWorkflow
  <2>2. Calm(runner, SendCounted(runner, "SignalExternalWorkflow", id))
    BY <1>2, <1>4, SendCountedCalm
  <2> QED
    BY <1>3, <2>1, <2>2 DEF CallEnds
<1>12. CASE CallUpsertSearchAttributes
  <2>1. Step(SendCounted(runner, "UpsertSearchAttributes", 0))
    BY <1>12, Zenon DEF CallUpsertSearchAttributes, UpsertSearchAttributes
  <2>2. Calm(runner, SendCounted(runner, "UpsertSearchAttributes", 0))
    BY <1>2, <1>4, SendCountedCalm
  <2> QED
    BY <1>3, <2>1, <2>2 DEF CallEnds
<1>13. CASE CallSideEffect
  <2>1. PICK live \in Values : Step(MarkedCall(runner, "SideEffect", live))
    BY <1>13, Zenon DEF CallSideEffect, SideEffect
  <2>2. Calm(runner, MarkedCall(runner, "SideEffect", live))
    BY <1>2, <1>4, MarkedCallCalm
  <2> QED
    BY <1>3, <2>1, <2>2 DEF CallEnds
<1>14. CASE CallLocalActivity
  <2>1. PICK live \in Outcomes \cup LocalErrors : Step(ExecuteLocalActivity(runner, live))
    BY <1>14, Zenon DEF CallLocalActivity
  <2>0. live \in Data \cup {"NotRegisteredError"}
    BY HandlerAssumption DEF Data
  <2>2. Calm(runner, ExecuteLocalActivity(runner, live))
    BY <1>2, <2>0, LocalActivityCalm
  <2> QED
    BY <1>3, <2>1, <2>2 DEF CallEnds
<1>15. CASE CallGetVersion
  <2>1. PICK id \in Ids, min \in Versions, max \in Versions : Step(GetVersion(runner, id, min, max))
    BY <1>15, Zenon DEF CallGetVersion
  <2>2. Calm(runner, GetVersion(runner, id, min, max))
    BY <1>2, <1>4, GetVersionCalm
  <2> QED
    BY <1>3, <2>1, <2>2 DEF CallEnds
<1>16. CASE CallMutableSideEffect
  <2>1. PICK id \in Ids, live \in Values : Step(MutableSideEffect(runner, id, live))
    BY <1>16, Zenon DEF CallMutableSideEffect
  <2>2. Calm(runner, MutableSideEffect(runner, id, live))
    BY <1>2, <1>4, MutableSideEffectCalm
  <2> QED
    BY <1>3, <2>1, <2>2 DEF CallEnds
<1>17. CASE CallGet
  <2>1. PICK f \in Waitables : Step(Get(runner, f))
    BY <1>17, Zenon DEF CallGet
  <2>2. Calm(runner, Get(runner, f))
    BY <1>2, WaitablesAre, GetCalm
  <2> QED
    BY <1>3, <2>1, <2>2 DEF CallEnds
<1>18. CASE CallSelect
  <2>1. PICK cases \in Waitables \X Waitables :
           ReadyCases(runner, cases) # {} /\ Step(Select(runner, cases))
    BY <1>18, Zenon DEF CallSelect
  <2>2. PICK a \in Waitables, b \in Waitables : cases = <<a, b>>
    OBVIOUS
  <2>3. Calm(runner, Select(runner, <<a, b>>))
    <3>1. IsWaitable(runner, a) /\ IsWaitable(runner, b)
      BY <1>2, WaitablesAre
    <3> QED
      BY <1>2, <2>1, <2>2, <3>1, SelectCalm
  <2> QED
    BY <1>3, <2>1, <2>2, <2>3 DEF CallEnds
<1>19. CASE CallReceiveAsync
  <2>1. Step(TryConsumeSignal(runner))
    BY <1>19, Zenon DEF CallReceiveAsync
  <2> QED
    BY <1>2, <1>3, <2>1, TryConsumeSignalCalm DEF CallEnds
<1>20. CASE ReadUpdates
  <2>1. Step(Observe(runner, "updates", runner.updates))
    BY <1>20, Zenon DEF ReadUpdates
  <2>2. runner.updates \in Int
    BY <1>2 DEF RunnerOK, Runner
  <2>3. "updates" \in Seen
    BY DEF Seen
  <2>4. Calm(runner, Observe(runner, "updates", runner.updates))
    BY <1>2, <2>2, <2>3, ObserveCalm
  <2> QED
    BY <1>3, <2>1, <2>4 DEF CallEnds
<1>21. CASE Return
  <2>1. PICK kind \in TerminalKinds : Step(Finish(runner, kind))
    BY <1>21, Zenon DEF Return
  <2> QED
    BY <1>2, <1>3, <2>1, FinishCalm DEF CallEnds
<1>22. CASE Park
  <2>1. Calm(runner, runner)
    BY <1>2, CalmReflexive
  <2> QED
    BY <1>22, <2>1, Zenon DEF Park, Goal, CallEnds
<1> QED
  BY <1>5, <1>6, <1>7, <1>8, <1>9, <1>10, <1>11, <1>12, <1>13, <1>14, <1>15, <1>16, <1>17, <1>18,
     <1>19, <1>20, <1>21, <1>22, Zenon DEF BodyStep

\* In any case it schedules one operation, or none.
LEMMA BodyStepEffect ==
  ASSUME TypeInv, BodyStep
  PROVE  /\ pc = "body" /\ RunnerOK(runner)
         /\ Quiet(runner, runner') \/ Scheduled(runner, runner')
         /\ pc' \in {"body", "parked", "respond"} /\ (fresh => pc' # "respond")
         /\ UNCHANGED <<server, clients, code, task, fresh, cache, acked, faults>>
  BY BodyStepIs, CalmIsQuiet, Zenon DEF CallEnds

-----------------------------------------------------------------------------
(***************************************************************************)
(* What the parts of the other actions do to the types.                    *)
(***************************************************************************)
\* A runner that has started one more operation is well formed.
LEMMA ScheduledOK ==
  ASSUME NEW r, NEW q, RunnerOK(r), Scheduled(r, q)
  PROVE  RunnerOK(q)
<1>1. PICK kind \in OpKinds, v \in Names : q = Schedule(r, kind, v)
  BY DEF Scheduled
<1> QED
  BY <1>1, ScheduleEffect

\* A well-formed runner is a runner, and not an empty cache entry.
LEMMA RunnerOKIsRunner ==
  ASSUME NEW r, RunnerOK(r)
  PROVE  r \in Runner /\ r # NoRunner
  BY HandlerAssumption DEF RunnerOK

\* An event is appended to a history.
LEMMA AppendedHistory ==
  ASSUME NEW h \in Seq(Event), NEW e \in Event
  PROVE  Append(h, e) \in Seq(Event) /\ Len(Append(h, e)) = Len(h) + 1
  OBVIOUS

\* A failed task leaves histories, and ends the use of the sticky queue.
LEMMA TaskFailedType ==
  ASSUME TypeInv, TaskFailed
  PROVE  /\ history' \in Seq(Event) /\ buffered' \in Seq(Event)
         /\ wft' = "pending" /\ attempt' = 2 /\ sticky' = FALSE
         /\ UNCHANGED <<prevStarted, messages, sent, acked>>
<1> DEFINE failed == Append(history, Plain("WorkflowTaskFailed"))
           dropped == SubSeq(history, 1, Len(history) - 1)
<1>1. history \in Seq(Event) /\ buffered \in Seq(Event)
  BY DEF TypeInv, TypeOK
<1>2. failed \in Seq(Event)
  BY <1>1, AppendedHistory, PlainIs DEF EventTypes
<1>3. dropped \in Seq(Event)
  BY <1>1
<1>4. history' = (IF attempt = 1 THEN failed ELSE dropped) \o buffered
  BY Zenon DEF TaskFailed
<1> HIDE DEF failed, dropped
<1>5. history' \in Seq(Event)
  BY <1>1, <1>2, <1>3, <1>4
<1> QED
  BY <1>5 DEF TaskFailed

\* Five sequences of events, the first after an event, make one.
LEMMA FiveParts ==
  ASSUME NEW a \in Seq(Event), NEW b \in Seq(Event), NEW c \in Seq(Event), NEW d \in Seq(Event),
         NEW e \in Seq(Event)
  PROVE  /\ a \o b \o c \o d \o e \in Seq(Event)
         /\ Len(a) <= Len(a \o b \o c \o d \o e)
  OBVIOUS

\* A completed task leaves histories, and has answered updates it was given.
LEMMA TaskCompletedType ==
  ASSUME TypeInv, NEW cmds \in Seq(Event), NEW answered \in Nat, answered <= messages,
         NEW n \in Nat, NEW final \in Seq(Event), NEW queue \in BOOLEAN,
         TaskCompleted(cmds, answered, n, final, queue)
  PROVE  /\ history' \in Seq(Event) /\ buffered' \in Seq(Event)
         /\ wft' \in {"pending", "none"} /\ attempt' = 1 /\ sticky' = queue
         /\ prevStarted' \in Nat /\ prevStarted' <= Len(history')
         /\ messages' \in Nat /\ sent' = sent
<1> DEFINE updates == [i \in 1..n |-> Plain("UpdateAccepted")]
           done    == Append(history, Plain("WorkflowTaskCompleted"))
<1>1. history \in Seq(Event) /\ buffered \in Seq(Event) /\ messages \in Nat
  BY DEF TypeInv, TypeOK
<1>2. updates \in Seq(Event)
  <2>1. Plain("UpdateAccepted") \in Event
    BY PlainIs DEF EventTypes
  <2> QED
    BY <2>1
<1>3. done \in Seq(Event) /\ Len(done) = Len(history) + 1
  BY <1>1, AppendedHistory, PlainIs DEF EventTypes
<1>4. history' = done \o cmds \o updates \o final \o buffered /\ prevStarted' = Len(history)
  BY Zenon DEF TaskCompleted
<1> HIDE DEF updates, done
<1>5. history' \in Seq(Event) /\ Len(done) <= Len(history')
  BY <1>1, <1>2, <1>3, <1>4, FiveParts
<1>6. prevStarted' \in Nat /\ prevStarted' <= Len(history')
  <2>1. Len(history) \in Nat /\ Len(history') \in Nat
    BY <1>1, <1>5
  <2> QED
    BY <1>3, <1>4, <1>5, <2>1
<1>7. messages' \in Nat
  BY <1>1 DEF TaskCompleted
<1> QED
  BY <1>5, <1>6, <1>7 DEF TaskCompleted

\* The runner that answers, after the handlers of the new updates have run.
LEMMA RespondingOK ==
  ASSUME RunnerOK(runner), NEW n \in Nat
  PROVE  /\ Calm(runner, Responding(n)) /\ Quiet(runner, Responding(n))
         /\ RunnerOK(Responding(n))
<1>1. Responding(n) = [runner EXCEPT !.updates = @ + n]
  BY Zenon DEF Responding
<1>2. Calm(runner, [runner EXCEPT !.updates = @ + n])
  BY UpdatesCalm
<1> QED
  BY <1>1, <1>2, CalmIsQuiet

\* The terminal command schedules nothing.
LEMMA FinalIs ==
  ASSUME RunnerOK(runner)
  PROVE  Final \in Seq(Event) /\ \A i \in 1..Len(Final) : ~IsKeyed(Final[i])
<1> DEFINE e == Command(runner.done, 0, "nil")
<1>1. CASE runner.done = "nil"
  BY <1>1 DEF Final
<1>2. CASE runner.done # "nil"
  <2>1. runner.done \in CommandKinds /\ runner.done \notin KeyedKinds /\ "nil" \in Names /\ 0 \in Int
    BY <1>2 DEF RunnerOK, Runner, TerminalKinds, CommandKinds, KeyedKinds, Names
  <2>2. e \in Event /\ e.k = runner.done
    BY <2>1, CommandIs
  <2>3. Final = <<e>>
    BY <1>2 DEF Final
  <2> HIDE DEF e
  <2> QED
    BY <2>1, <2>2, <2>3 DEF IsKeyed
<1> QED
  BY <1>1, <1>2

-----------------------------------------------------------------------------
(***************************************************************************)
(* Type correctness.                                                       *)
(***************************************************************************)
\* A step of the function keeps the invariant.
LEMMA BodyType == ASSUME TypeInv, BodyStep PROVE TypeInv'
<1>1. /\ pc = "body" /\ RunnerOK(runner)
      /\ Quiet(runner, runner') \/ Scheduled(runner, runner')
      /\ pc' \in {"body", "parked", "respond"}
      /\ UNCHANGED <<server, clients, code, task, fresh, cache, acked, faults>>
  BY BodyStepEffect
<1>2. RunnerOK(runner')
  BY <1>1, QuietIsOK, ScheduledOK
<1>3. runner' \in Runner /\ runner' # NoRunner
  BY <1>2, RunnerOKIsRunner
<1>4. TypeOK'
  BY <1>1, <1>3 DEF TypeInv, TypeOK, server, clients
<1>5. RunnersOK'
  BY <1>1, <1>2, <1>3 DEF TypeInv, RunnersOK, Working, server, clients
<1>6. TaskOK'
  BY <1>1 DEF TypeInv, TaskOK, server, clients
<1> QED
  BY <1>4, <1>5, <1>6 DEF TypeInv

\* An event that arrives keeps the invariant.
LEMMA AddEventType ==
  ASSUME TypeInv, NEW e \in Event, AddEvent(e), messages' \in Nat, messages <= messages',
         sent' \in [signal : Nat, update : Nat, cancel : Nat]
  PROVE  TypeInv'
<1>1. history \in Seq(Event) /\ buffered \in Seq(Event) /\ messages \in Nat /\ task \in Task
      /\ prevStarted \in Nat
  BY DEF TypeInv, TypeOK
<1>2. /\ history' \in Seq(Event) /\ buffered' \in Seq(Event) /\ wft' \in {"none", "pending", "started"}
      /\ Len(history) <= Len(history') /\ (wft = "started" => wft' = "started" /\ history' = history)
  <2>1. CASE wft = "started"
    BY <1>1, <2>1 DEF AddEvent
  <2>2. CASE wft # "started"
    BY <1>1, <2>2, AppendedHistory DEF AddEvent
  <2> QED
    BY <2>1, <2>2
<1>3. UNCHANGED <<attempt, sticky, prevStarted, code, pc, task, runner, fresh, cache, acked, faults>>
  BY DEF AddEvent, handler
<1>4. TypeOK'
  BY <1>2, <1>3 DEF TypeInv, TypeOK
<1>5. RunnersOK'
  BY <1>3 DEF TypeInv, RunnersOK, Working
<1>6. TaskOK'
  <2>1. pc # "idle" => wft' = "started" /\ task.updates <= messages'
    <3>1. task.updates \in Nat
      BY <1>1 DEF Task
    <3> QED
      BY <1>1, <1>2, <3>1 DEF TypeInv, TaskOK
  <2>2. pc = "polled" => history' = history
    BY <1>2 DEF TypeInv, TaskOK
  <2>3. sticky => prevStarted <= Len(history')
    <3>1. Len(history) \in Nat /\ Len(history') \in Nat
      BY <1>1, <1>2
    <3> QED
      BY <1>1, <1>2, <3>1 DEF TypeInv, TaskOK
  <2> QED
    BY <1>3, <2>1, <2>2, <2>3 DEF TypeInv, TaskOK
<1> QED
  BY <1>4, <1>5, <1>6 DEF TypeInv

\* Once the task is off the worker's hands, little is left to show.
LEMMA IdleType ==
  ASSUME TypeInv, Idle, history' \in Seq(Event), buffered' \in Seq(Event),
         wft' \in {"none", "pending", "started"}, attempt' \in {1, 2}, sticky' \in BOOLEAN,
         prevStarted' \in Nat, sticky' => prevStarted' <= Len(history'),
         messages' \in Nat, sent' = sent, code' \in Programs \cup {NoProgram},
         cache' # NoRunner => RunnerOK(cache'), acked' \in Seq(Seen \X Int), faults' \in Nat
  PROVE  TypeInv'
<1>1. cache' \in Runner \cup {NoRunner}
  BY RunnerOKIsRunner
<1>2. /\ pc' = "idle" /\ task' \in Task /\ runner' = NoRunner /\ fresh' = FALSE
  BY DEF Idle, NoTask, Task
<1>3. sent \in [signal : Nat, update : Nat, cancel : Nat]
  BY DEF TypeInv, TypeOK
<1>4. TypeOK'
  BY <1>1, <1>2, <1>3 DEF TypeOK
<1>5. RunnersOK'
  BY <1>2 DEF RunnersOK, Working
<1>6. TaskOK'
  BY <1>2 DEF TaskOK
<1> QED
  BY <1>4, <1>5, <1>6 DEF TypeInv

\* So does a task that is failed.
LEMMA FailedType ==
  ASSUME TypeInv, TaskFailed, Idle, code' = code, faults' \in Nat,
         cache' # NoRunner => RunnerOK(cache')
  PROVE  TypeInv'
<1>1. /\ history' \in Seq(Event) /\ buffered' \in Seq(Event)
      /\ wft' = "pending" /\ attempt' = 2 /\ sticky' = FALSE
      /\ prevStarted' = prevStarted /\ messages' = messages /\ sent' = sent /\ acked' = acked
  BY TaskFailedType
<1>2. /\ prevStarted \in Nat /\ messages \in Nat /\ acked \in Seq(Seen \X Int)
      /\ code \in Programs \cup {NoProgram}
  BY DEF TypeInv, TypeOK
<1> QED
  BY <1>1, <1>2, IdleType

\* The server's and the clients' actions keep the invariant.
LEMMA ServerType == ASSUME TypeInv, Server \/ Client PROVE TypeInv'
<1>1. /\ history \in Seq(Event) /\ buffered \in Seq(Event) /\ messages \in Nat
      /\ sent \in [signal : Nat, update : Nat, cancel : Nat] /\ prevStarted \in Nat
      /\ faults \in Nat /\ sticky \in BOOLEAN
  BY DEF TypeInv, TypeOK
<1>2. CASE ResolveOp
  <2>1. PICK i \in 1..Len(history) :
          /\ Open(i)
          /\ \E outcome \in EndsOf(history[i].k, OpId(history, i)) :
                AddEvent(IF history[i].k \in {"Timer", "ChildWorkflow"}
                         THEN Resolved(history[i].k, history[i].id, 0, outcome)
                         ELSE Resolved(history[i].k, 0, i, outcome))
          /\ UNCHANGED <<sent, messages>>
    BY <1>2, Zenon DEF ResolveOp
  <2>2. PICK outcome \in EndsOf(history[i].k, OpId(history, i)) :
                AddEvent(IF history[i].k \in {"Timer", "ChildWorkflow"}
                         THEN Resolved(history[i].k, history[i].id, 0, outcome)
                         ELSE Resolved(history[i].k, 0, i, outcome))
    BY <2>1
  <2>3. history[i].k \in OpKinds
    BY <2>1 DEF Open
  <2>4. outcome \in Data
    BY <2>2 DEF EndsOf, Data
  <2>5. history[i].id \in Int /\ i \in Int /\ 0 \in Int
    <3>1. history[i] \in Event
      BY <1>1
    <3> QED
      BY <3>1 DEF Event
  <2>6. /\ Resolved(history[i].k, history[i].id, 0, outcome) \in Event
        /\ Resolved(history[i].k, 0, i, outcome) \in Event
    BY <2>3, <2>4, <2>5, ResolvedIs
  <2>7. messages' = messages /\ sent' = sent
    BY <2>1
  <2> QED
    BY <1>1, <2>2, <2>6, <2>7, AddEventType
<1>3. CASE Poll
  <2> DEFINE first == IF sticky THEN prevStarted + 1 ELSE 1
  <2>1. PICK upto \in {Len(history) + 1} \cup PageEnds(first) :
           task' = [first |-> first, upto |-> upto, updates |-> messages]
    BY <1>3, Zenon DEF Poll
  <2>2. /\ history' \in Seq(Event) /\ Len(history') = Len(history) + 1
    BY <1>1, <1>3, AppendedHistory, PlainIs DEF Poll, EventTypes
  <2>3. first \in Nat /\ 1 <= first /\ first <= Len(history) + 1 /\ Len(history) \in Nat
    BY <1>1 DEF TypeInv, TaskOK
  <2>4. upto \in Nat /\ first <= upto /\ upto <= Len(history')
    BY <2>1, <2>2, <2>3 DEF PageEnds
  <2> HIDE DEF first
  <2>5. task' \in Task /\ task'.first = first /\ task'.upto = upto /\ task'.updates = messages
    BY <1>1, <2>1, <2>3, <2>4 DEF Task
  <2>6. /\ wft' = "started" /\ pc' = "polled"
        /\ UNCHANGED <<buffered, attempt, sticky, prevStarted, messages, sent, code, runner, fresh,
                       cache, acked, faults>>
    BY <1>3 DEF Poll
  <2>7. TypeOK'
    BY <2>2, <2>5, <2>6 DEF TypeInv, TypeOK
  <2>8. RunnersOK'
    BY <2>6 DEF TypeInv, RunnersOK, Working
  <2>9. TaskOK'
    <3>1. sticky => prevStarted <= Len(history')
      BY <1>1, <2>2, <2>3 DEF TypeInv, TaskOK
    <3> QED
      BY <1>1, <2>3, <2>4, <2>5, <2>6, <3>1 DEF TaskOK
  <2> QED
    BY <2>7, <2>8, <2>9 DEF TypeInv
<1>4. CASE TaskTimeout
  <2>1. /\ history' \in Seq(Event) /\ buffered' \in Seq(Event)
        /\ wft' = "pending" /\ attempt' = 2 /\ sticky' = FALSE
        /\ UNCHANGED <<prevStarted, messages, sent, acked>>
    BY <1>4, TaskFailedType DEF TaskTimeout
  <2>2. pc = "idle" /\ UNCHANGED <<code, pc, task, runner, fresh, cache, faults>>
    BY <1>4 DEF TaskTimeout, handler
  <2>3. TypeOK'
    BY <2>1, <2>2 DEF TypeInv, TypeOK
  <2>4. RunnersOK' /\ TaskOK'
    BY <2>1, <2>2 DEF TypeInv, RunnersOK, TaskOK, Working
  <2> QED
    BY <2>3, <2>4 DEF TypeInv
<1>5. CASE StickyTimeout
  <2>1. /\ faults' \in Nat /\ sticky' = FALSE
        /\ UNCHANGED <<history, buffered, wft, attempt, prevStarted, messages, sent,
                       code, pc, task, runner, fresh, cache, acked>>
    BY <1>1, <1>5 DEF StickyTimeout, handler
  <2>2. TypeOK'
    BY <2>1 DEF TypeInv, TypeOK
  <2>3. RunnersOK' /\ TaskOK'
    BY <2>1 DEF TypeInv, RunnersOK, TaskOK, Working
  <2> QED
    BY <2>2, <2>3 DEF TypeInv
<1>6. CASE SignalWorkflow
  <2>1. sent' \in [signal : Nat, update : Nat, cancel : Nat]
    BY <1>1, <1>6 DEF SignalWorkflow
  <2>2. Signaled(sent.signal + 1) \in Event
    BY <1>1, SignaledIs
  <2>3. messages' = messages /\ AddEvent(Signaled(sent.signal + 1))
    BY <1>6 DEF SignalWorkflow
  <2> QED
    BY <1>1, <2>1, <2>2, <2>3, AddEventType
<1>7. CASE CancelWorkflow
  <2>1. sent' \in [signal : Nat, update : Nat, cancel : Nat]
    BY <1>1, <1>7 DEF CancelWorkflow
  <2>2. Plain("CancelRequested") \in Event
    BY PlainIs DEF EventTypes
  <2>3. messages' = messages /\ AddEvent(Plain("CancelRequested"))
    BY <1>7 DEF CancelWorkflow
  <2> QED
    BY <1>1, <2>1, <2>2, <2>3, AddEventType
<1>8. CASE UpdateWorkflow
  <2>1. sent' \in [signal : Nat, update : Nat, cancel : Nat]
    BY <1>1, <1>8 DEF UpdateWorkflow
  <2>2. /\ messages' = messages + 1 /\ wft' = IF wft = "none" THEN "pending" ELSE wft
        /\ UNCHANGED <<history, buffered, attempt, sticky, prevStarted, code, pc, task, runner,
                       fresh, cache, acked, faults>>
    BY <1>8 DEF UpdateWorkflow, handler
  <2>3. TypeOK'
    BY <1>1, <2>1, <2>2 DEF TypeInv, TypeOK
  <2>4. RunnersOK'
    BY <2>2 DEF TypeInv, RunnersOK, Working
  <2>5. TaskOK'
    <3>1. task.updates \in Nat
      BY DEF TypeInv, TypeOK, Task
    <3>2. pc # "idle" => wft' = "started" /\ task.updates <= messages'
      BY <1>1, <2>2, <3>1 DEF TypeInv, TaskOK
    <3> QED
      BY <2>2, <3>2 DEF TypeInv, TaskOK
  <2> QED
    BY <2>3, <2>4, <2>5 DEF TypeInv
<1> QED
  BY <1>2, <1>3, <1>4, <1>5, <1>6, <1>7, <1>8 DEF Server, Client

\* The handler's actions keep the invariant.
LEMMA HandleType == ASSUME TypeInv, Handle PROVE TypeInv'
<1>1. /\ history \in Seq(Event) /\ buffered \in Seq(Event) /\ messages \in Nat /\ faults \in Nat
      /\ code \in Programs \cup {NoProgram} /\ prevStarted \in Nat /\ task \in Task
      /\ task.first \in Nat /\ task.upto \in Nat /\ task.updates \in Nat
  BY DEF TypeInv, TypeOK, Task
<1>2. cache # NoRunner => RunnerOK(cache)
  BY DEF TypeInv, RunnersOK
<1>3. ASSUME pc \in {"body", "parked", "respond"}
      PROVE  /\ RunnerOK(runner) /\ runner.obs \in Seq(Seen \X Int)
             /\ runner.commands \in Seq(Event)
  BY <1>3 DEF TypeInv, RunnersOK, Working, RunnerOK, Runner
<1>4. ASSUME pc = "polled"
      PROVE  Assembled \in Seq(Event) /\ Len(Assembled) = task.upto
  <2>1. task.upto <= Len(history)
    BY <1>4 DEF TypeInv, TaskOK
  <2> QED
    BY <1>1, <2>1 DEF Assembled
<1>5. ASSUME RunnerOK(runner'), pc # "idle", pc' \in {"body", "parked", "respond"},
             fresh' \in BOOLEAN, cache' = cache \/ cache' = runner',
             UNCHANGED <<server, clients, code, task, acked, faults>>
      PROVE  TypeInv'
  <2>1. runner' \in Runner /\ runner' # NoRunner
    BY <1>5, RunnerOKIsRunner
  <2>2. TypeOK'
    BY <1>5, <2>1 DEF TypeInv, TypeOK, server, clients
  <2>3. RunnersOK'
    BY <1>5, <2>1 DEF TypeInv, RunnersOK
  <2>4. TaskOK'
    BY <1>5 DEF TypeInv, TaskOK, server, clients
  <2> QED
    BY <2>2, <2>3, <2>4 DEF TypeInv
<1>6. CASE HandleUnregistered
  BY <1>1, <1>2, <1>6, FailedType DEF HandleUnregistered
<1>7. CASE HandleSticky
  <2>1. RunnerOK(ApplyEvents(cache, Assembled))
    <3>1. RunnerOK(cache) /\ task.first = LastEventId(cache) + 1
      BY <1>2, <1>7 DEF HandleSticky, CacheHit
    <3>2. Len(cache.events) \in Nat
      BY <3>1 DEF RunnerOK, Runner
    <3>3. task.first <= task.upto
      BY <1>7 DEF HandleSticky, TypeInv, TaskOK
    <3>4. Assembled \in Seq(Event) /\ Len(Assembled) = task.upto
      BY <1>4, <1>7 DEF HandleSticky
    <3>5. Len(cache.events) <= Len(Assembled)
      BY <1>1, <3>1, <3>2, <3>3, <3>4 DEF LastEventId
    <3> QED
      BY <3>1, <3>4, <3>5, ApplyEventsOK
  <2> QED
    BY <1>5, <1>7, <2>1 DEF HandleSticky
<1>8. CASE HandleStickyMiss
  BY <1>1, <1>2, <1>8, FailedType DEF HandleStickyMiss
<1>9. CASE HandleFull
  <2>1. code \in Programs /\ (prevStarted > 0) \in BOOLEAN
    BY <1>1, <1>9 DEF HandleFull
  <2>2. Assembled \in Seq(Event)
    BY <1>4, <1>9 DEF HandleFull
  <2>3. RunnerOK(NewRunner(code, Assembled, prevStarted > 0))
    BY <2>1, <2>2, NewRunnerOK
  <2> QED
    BY <1>5, <1>9, <2>3 DEF HandleFull
<1>10. CASE ReapplyHistoricalUpdates
  <2>1. RunnerOK(ReapplyStep(runner))
    BY <1>3, <1>10, ReapplyStepQuiet, QuietIsOK DEF ReapplyHistoricalUpdates
  <2>2. fresh' \in BOOLEAN
    BY <1>10 DEF ReapplyHistoricalUpdates, TypeInv, TypeOK
  <2> QED
    BY <1>5, <1>10, <2>1, <2>2 DEF ReapplyHistoricalUpdates
<1>11. CASE CheckPassed
  <2>1. RunnerOK(runner') /\ fresh' \in BOOLEAN
    BY <1>3, <1>11 DEF CheckPassed, Replayed, TypeInv, TypeOK
  <2> QED
    BY <1>5, <1>11, <2>1 DEF CheckPassed, Replayed
<1>12. CASE CheckFailed
  <2>1. Idle /\ code' = code /\ cache' = cache /\ faults' = faults /\ pc = "parked"
    BY <1>12 DEF CheckFailed, Replayed
  <2>2. CASE TaskFailed
    BY <1>1, <1>2, <2>1, <2>2, FailedType
  <2>3. CASE /\ TaskCompleted(<< >>, 0, 0, <<Command("FailWorkflow", 0, "nil")>>, FALSE)
             /\ acked' = runner.obs
    <3>1. Command("FailWorkflow", 0, "nil") \in Event
      BY CommandIs DEF CommandKinds, Names
    <3>2. << >> \in Seq(Event) /\ <<Command("FailWorkflow", 0, "nil")>> \in Seq(Event)
      BY <3>1
    <3>3. 0 \in Nat /\ 0 <= messages
      BY <1>1
    <3>4. /\ history' \in Seq(Event) /\ buffered' \in Seq(Event)
          /\ wft' \in {"pending", "none"} /\ attempt' = 1 /\ sticky' = FALSE
          /\ prevStarted' \in Nat /\ prevStarted' <= Len(history')
          /\ messages' \in Nat /\ sent' = sent
      BY <2>3, <3>2, <3>3, TaskCompletedType
    <3>5. acked' \in Seq(Seen \X Int)
      BY <1>3, <2>1, <2>3
    <3> QED
      BY <1>1, <1>2, <2>1, <3>4, <3>5, IdleType
  <2> QED
    BY <1>12, <2>2, <2>3 DEF CheckFailed
<1>13. CASE RespondCompleted
  <2>1. RunnerOK(runner) /\ runner.obs \in Seq(Seen \X Int) /\ runner.commands \in Seq(Event)
    BY <1>3, <1>13 DEF RespondCompleted
  <2>2. task.updates <= messages
    BY <1>13 DEF RespondCompleted, TypeInv, TaskOK
  <2>3. PICK n \in 0..task.updates :
          /\ TaskCompleted(runner.commands, task.updates, n, Final, TRUE)
          /\ \/ /\ cache' = IF runner.done = "nil" THEN Responding(n) ELSE NoRunner
                /\ UNCHANGED faults
             \/ /\ faults < MaxFaults /\ faults' = faults + 1
                /\ cache' = Responding(n)
    BY <1>13 DEF RespondCompleted
  <2>4. n \in Nat
    BY <1>1
  <2>5. RunnerOK(Responding(n))
    BY <2>1, <2>4, RespondingOK
  <2>6. /\ history' \in Seq(Event) /\ buffered' \in Seq(Event)
        /\ wft' \in {"pending", "none"} /\ attempt' = 1 /\ sticky' = TRUE
        /\ prevStarted' \in Nat /\ prevStarted' <= Len(history')
        /\ messages' \in Nat /\ sent' = sent
    <3>1. Final \in Seq(Event)
      BY <2>1, FinalIs
    <3> QED
      BY <1>1, <2>1, <2>2, <2>3, <2>4, <3>1, TaskCompletedType
  <2>7. /\ cache' # NoRunner => RunnerOK(cache')
        /\ faults' \in Nat
    BY <1>1, <2>3, <2>5
  <2>8. Idle /\ code' = code /\ acked' = runner.obs
    BY <1>13 DEF RespondCompleted
  <2> QED
    BY <1>1, <2>1, <2>6, <2>7, <2>8, IdleType
<1>14. CASE RespondRefused
  <2>1. RunnerOK(runner) /\ TaskFailed /\ Idle /\ code' = code /\ faults' = faults
    BY <1>3, <1>14 DEF RespondRefused
  <2>2. PICK n \in 0..task.updates : cache' = Responding(n)
    BY <1>14 DEF RespondRefused
  <2>3. RunnerOK(cache')
    BY <1>1, <2>1, <2>2, RespondingOK
  <2> QED
    BY <1>1, <2>1, <2>3, FailedType
<1>15. CASE RespondLost
  <2>1. /\ RunnerOK(runner) /\ Idle /\ faults' \in Nat
        /\ UNCHANGED <<server, clients, code, acked>>
    BY <1>1, <1>3, <1>15 DEF RespondLost
  <2>2. PICK n \in 0..task.updates : cache' = Responding(n)
    BY <1>15 DEF RespondLost
  <2>3. RunnerOK(cache')
    BY <1>1, <2>1, <2>2, RespondingOK
  <2>4. /\ history' \in Seq(Event) /\ buffered' \in Seq(Event)
        /\ wft' \in {"none", "pending", "started"} /\ attempt' \in {1, 2} /\ sticky' \in BOOLEAN
        /\ prevStarted' \in Nat /\ (sticky' => prevStarted' <= Len(history'))
        /\ messages' \in Nat /\ sent' = sent /\ code' \in Programs \cup {NoProgram}
        /\ acked' \in Seq(Seen \X Int)
    BY <2>1 DEF TypeInv, TypeOK, TaskOK, server, clients
  <2> QED
    BY <2>1, <2>3, <2>4, IdleType
<1>16. CASE AbortDeadlock
  BY <1>1, <1>16, FailedType DEF AbortDeadlock
<1> QED
  BY <1>6, <1>7, <1>8, <1>9, <1>10, <1>11, <1>12, <1>13, <1>14, <1>15, <1>16 DEF Handle

\* Every step keeps the invariant.
LEMMA TypeStep == TypeInv /\ [Next]_vars => TypeInv'
<1> SUFFICES ASSUME TypeInv, [Next]_vars PROVE TypeInv'
  OBVIOUS
<1>1. /\ faults \in Nat /\ code \in Programs \cup {NoProgram}
  BY DEF TypeInv, TypeOK
<1>2. CASE Evict
  <2>1. /\ faults' \in Nat /\ cache' = NoRunner
        /\ UNCHANGED <<server, clients, code, pc, task, runner, fresh, acked>>
    BY <1>1, <1>2 DEF Evict, handler
  <2>2. TypeOK'
    BY <2>1 DEF TypeInv, TypeOK, server, clients
  <2>3. RunnersOK' /\ TaskOK'
    BY <2>1 DEF TypeInv, RunnersOK, TaskOK, Working, server, clients
  <2> QED
    BY <2>2, <2>3 DEF TypeInv
<1>3. CASE Restart
  <2>1. /\ faults' \in Nat /\ cache' = NoRunner /\ Idle
        /\ UNCHANGED <<server, clients, acked>>
    BY <1>1, <1>3 DEF Restart
  <2>2. code' \in Programs \cup {NoProgram}
    BY <1>1, <1>3, HandlerAssumption DEF Restart
  <2>3. /\ history' \in Seq(Event) /\ buffered' \in Seq(Event)
        /\ wft' \in {"none", "pending", "started"} /\ attempt' \in {1, 2} /\ sticky' \in BOOLEAN
        /\ prevStarted' \in Nat /\ (sticky' => prevStarted' <= Len(history'))
        /\ messages' \in Nat /\ sent' = sent
        /\ acked' \in Seq(Seen \X Int)
    BY <2>1 DEF TypeInv, TypeOK, TaskOK, server, clients
  <2> QED
    BY <2>1, <2>2, <2>3, IdleType
<1>4. CASE UNCHANGED vars
  BY <1>4 DEF vars, TypeInv, TypeOK, RunnersOK, TaskOK, Working
<1> QED
  BY <1>2, <1>3, <1>4, BodyType, ServerType, HandleType DEF Next, Finished

\* Every variable of the composition keeps its type, in every behaviour of every
\* set of workflow functions: in particular each runner the handler works with or
\* caches is well formed, and no task answers more updates than it was given.
THEOREM TypeCorrectness == Spec => []TypeOK
<1>1. TypeInv => TypeOK
  BY DEF TypeInv
<1> QED
  BY <1>1, TypeInit, TypeStep, PTL DEF Spec

-----------------------------------------------------------------------------
(***************************************************************************)
(* No operation is scheduled twice.  The argument needs the whole history  *)
(* in the handler's hands: it is made for PageDeadline = FALSE.            *)
(***************************************************************************)
\* A runner knows of every operation the history schedules, by its prescan or
\* because the function has made the call since.
Accounted(r, h) ==
    \A i \in 1..Len(h) : IsKeyed(h[i]) =>
        ScanScheduled(Scan(r), h[i].k, h[i].id) \/ h[i].id < Len(r.futures[h[i].k])

\* The operations its commands schedule are calls made, once, and not in history.
CommandsNew(r, h) ==
    \A i \in 1..Len(r.commands) : IsKeyed(r.commands[i]) =>
        /\ r.commands[i].id < Len(r.futures[r.commands[i].k])
        /\ \A j \in 1..Len(r.commands) : SameKey(r.commands[i], r.commands[j]) => i = j
        /\ \A j \in 1..Len(h) : ~SameKey(r.commands[i], h[j])

\* No scheduling event occurs twice in h.
Distinct(h) == \A i, j \in 1..Len(h) : IsKeyed(h[i]) /\ SameKey(h[i], h[j]) => i = j

SafeInv ==
    /\ Distinct(history)
    /\ \A i \in 1..Len(buffered) : ~IsKeyed(buffered[i])
    /\ pc = "polled" => task.upto = Len(history) /\ (task.first # 1 => sticky)
    /\ Working => Accounted(runner, history) /\ CommandsNew(runner, history)
    /\ (sticky /\ cache # NoRunner) => Accounted(cache, history)

\* A quiet change keeps what is known and adds no scheduling command.
LEMMA QuietKeeps ==
  ASSUME NEW r, NEW q, NEW h \in Seq(Event), RunnerOK(r), Quiet(r, q)
  PROVE  /\ Accounted(r, h) => Accounted(q, h)
         /\ CommandsNew(r, h) => CommandsNew(q, h)
<1>1. RunnerOK(q) /\ Scan(q) = Scan(r)
  BY DEF Quiet, Scan
<1>2. \A k \in OpKinds : Len(q.futures[k]) = Len(r.futures[k])
  BY DEF Quiet
<1>3. \A e : IsKeyed(e) => e.k \in OpKinds
  BY DEF IsKeyed, KeyedKinds, OpKinds
<1>4. Accounted(r, h) => Accounted(q, h)
  BY <1>1, <1>2, <1>3, Zenon DEF Accounted
<1>5. /\ r.commands \in Seq(Event) /\ q.commands \in Seq(Event)
  BY <1>1 DEF RunnerOK, Runner
<1>6. /\ Len(r.commands) <= Len(q.commands)
      /\ \A i \in 1..Len(r.commands) : q.commands[i] = r.commands[i]
      /\ \A i \in (Len(r.commands) + 1)..Len(q.commands) : q.commands[i].k \notin OpKinds
  BY DEF Quiet, QuietlyExtends
<1>7. \A i \in 1..Len(q.commands) : IsKeyed(q.commands[i]) =>
         i \in 1..Len(r.commands) /\ q.commands[i] = r.commands[i]
  <2> SUFFICES ASSUME NEW i \in 1..Len(q.commands), IsKeyed(q.commands[i])
               PROVE  i \in 1..Len(r.commands)
    BY <1>6
  <2>1. q.commands[i].k \in OpKinds
    BY <1>3
  <2> QED
    BY <1>5, <1>6, <2>1
<1>8. ASSUME CommandsNew(r, h), NEW i \in 1..Len(q.commands), IsKeyed(q.commands[i])
      PROVE  /\ q.commands[i].id < Len(q.futures[q.commands[i].k])
             /\ \A j \in 1..Len(q.commands) : SameKey(q.commands[i], q.commands[j]) => i = j
             /\ \A j \in 1..Len(h) : ~SameKey(q.commands[i], h[j])
  <2>1. i \in 1..Len(r.commands) /\ q.commands[i] = r.commands[i] /\ q.commands[i].k \in OpKinds
    BY <1>3, <1>7, <1>8
  <2>2. ASSUME NEW j \in 1..Len(q.commands), SameKey(q.commands[i], q.commands[j])
        PROVE  i = j
    <3>1. IsKeyed(q.commands[j])
      BY <1>8, <2>2 DEF IsKeyed, SameKey
    <3> QED
      BY <1>7, <1>8, <2>1, <2>2, <3>1 DEF CommandsNew
  <2>3. q.commands[i].id < Len(q.futures[q.commands[i].k])
    BY <1>2, <1>8, <2>1 DEF CommandsNew
  <2>4. \A j \in 1..Len(h) : ~SameKey(q.commands[i], h[j])
    BY <1>8, <2>1 DEF CommandsNew
  <2> QED
    BY <2>2, <2>3, <2>4
<1> QED
  BY <1>4, <1>8 DEF CommandsNew

\* A command is emitted only for a call that neither history nor an earlier
\* command schedules: its id is the count of calls before it, and the prescan
\* does not hold it.
LEMMA ScheduledKeeps ==
  ASSUME NEW r, NEW q, NEW h \in Seq(Event), RunnerOK(r), Scheduled(r, q),
         Accounted(r, h), CommandsNew(r, h)
  PROVE  Accounted(q, h) /\ CommandsNew(q, h)
<1>1. PICK kind \in OpKinds, v \in Names : q = Schedule(r, kind, v)
  BY DEF Scheduled
<1> DEFINE id == Len(r.futures[kind])
           e  == Command(kind, id, v)
<1>2. /\ RunnerOK(q) /\ q.events = r.events /\ q.scanned = r.scanned
      /\ \A k \in OpKinds \ {kind} : Len(q.futures[k]) = Len(r.futures[k])
      /\ Len(q.futures[kind]) = id + 1
      /\ q.commands = IF OpKnown(r, kind, id) THEN r.commands ELSE Append(r.commands, e)
  BY <1>1, ScheduleEffect
<1>3. Scan(q) = Scan(r)
  BY <1>2 DEF Scan
<1>4. \A k \in OpKinds : Len(r.futures[k]) \in Nat /\ Len(q.futures[k]) \in Nat
  BY <1>2 DEF RunnerOK, Runner
<1>5. e \in Event /\ e.t = "Command" /\ e.k = kind /\ e.id = id
  BY <1>1, <1>4, CommandIs DEF CommandKinds
<1> HIDE DEF id, e
<1>6. id \in Nat /\ id = Len(r.futures[kind])
  BY <1>4 DEF id
<1>7. \A k \in OpKinds, n \in Int : n < Len(r.futures[k]) => n < Len(q.futures[k])
  <2> TAKE k \in OpKinds, n \in Int
  <2>1. CASE k = kind
    BY <1>2, <1>4, <1>6, <2>1
  <2>2. CASE k # kind
    BY <1>2, <2>2
  <2> QED
    BY <2>1, <2>2
<1>8. \A d \in Event : IsKeyed(d) => d.k \in OpKinds /\ d.id \in Int /\ d.t = "Command"
  BY DEF IsKeyed, KeyedKinds, OpKinds, Event
<1>9. Accounted(q, h)
  <2> SUFFICES ASSUME NEW i \in 1..Len(h), IsKeyed(h[i])
               PROVE  ScanScheduled(Scan(q), h[i].k, h[i].id) \/ h[i].id < Len(q.futures[h[i].k])
    BY DEF Accounted
  <2>1. h[i] \in Event
    OBVIOUS
  <2>2. h[i].k \in OpKinds /\ h[i].id \in Int
    BY <1>8, <2>1
  <2>3. ScanScheduled(Scan(r), h[i].k, h[i].id) \/ h[i].id < Len(r.futures[h[i].k])
    BY DEF Accounted
  <2> QED
    BY <1>3, <1>7, <2>2, <2>3
<1>10. r.commands \in Seq(Event)
  BY DEF RunnerOK, Runner
<1>11. ASSUME NEW i \in 1..Len(r.commands), IsKeyed(r.commands[i])
       PROVE  /\ r.commands[i].id < Len(r.futures[r.commands[i].k])
              /\ r.commands[i].id < Len(q.futures[r.commands[i].k])
              /\ \A j \in 1..Len(r.commands) : SameKey(r.commands[i], r.commands[j]) => i = j
              /\ \A j \in 1..Len(h) : ~SameKey(r.commands[i], h[j])
  <2>1. r.commands[i] \in Event
    BY <1>10
  <2>2. r.commands[i].k \in OpKinds /\ r.commands[i].id \in Int
    BY <1>8, <1>11, <2>1
  <2>3. /\ r.commands[i].id < Len(r.futures[r.commands[i].k])
        /\ \A j \in 1..Len(r.commands) : SameKey(r.commands[i], r.commands[j]) => i = j
        /\ \A j \in 1..Len(h) : ~SameKey(r.commands[i], h[j])
    BY <1>11 DEF CommandsNew
  <2> QED
    BY <1>7, <2>2, <2>3
<1>12. CASE OpKnown(r, kind, id)
  <2>1. q.commands = r.commands
    BY <1>2, <1>12
  <2> QED
    BY <1>9, <1>11, <2>1 DEF CommandsNew
<1>13. CASE ~OpKnown(r, kind, id)
  <2> DEFINE m == Len(r.commands)
  <2>1. q.commands = Append(r.commands, e)
    BY <1>2, <1>13
  <2>2. /\ m \in Nat /\ Len(q.commands) = m + 1 /\ q.commands[m + 1] = e
        /\ \A i \in 1..m : q.commands[i] = r.commands[i]
    BY <1>5, <1>10, <2>1
  <2>3. ASSUME NEW i \in 1..m, IsKeyed(r.commands[i]) PROVE ~SameKey(r.commands[i], e)
    <3>1. r.commands[i].id < Len(r.futures[r.commands[i].k])
      BY <1>11, <2>3
    <3>2. ~(Len(r.futures[kind]) < Len(r.futures[kind]))
      BY <1>4
    <3> QED
      BY <1>5, <1>6, <3>1, <3>2 DEF SameKey
  <2>4. ASSUME IsKeyed(e), NEW j \in 1..Len(h), SameKey(e, h[j]) PROVE FALSE
    <3>1. IsKeyed(h[j]) /\ h[j].k = kind /\ h[j].id = id
      BY <1>5, <2>4 DEF IsKeyed, SameKey
    <3>0. kind # "NexusOperation"
      BY <1>5, <2>4 DEF IsKeyed, KeyedKinds
    <3>2. OpKnown(r, kind, id) \/ id < Len(r.futures[kind])
      BY <3>0, <3>1 DEF Accounted, OpKnown
    <3>3. ~(id < Len(r.futures[kind]))
      BY <1>6
    <3> QED
      BY <1>13, <3>2, <3>3
  <2> HIDE DEF m
  <2>5. ASSUME NEW i \in 1..Len(q.commands), IsKeyed(q.commands[i])
        PROVE  /\ q.commands[i].id < Len(q.futures[q.commands[i].k])
               /\ \A j \in 1..Len(q.commands) : SameKey(q.commands[i], q.commands[j]) => i = j
               /\ \A j \in 1..Len(h) : ~SameKey(q.commands[i], h[j])
    <3>1. CASE i = m + 1
      <4>1. q.commands[i] = e /\ IsKeyed(e)
        BY <2>2, <2>5, <3>1
      <4>2. e.id < Len(q.futures[e.k])
        BY <1>2, <1>5, <1>6
      <4>3. ASSUME NEW j \in 1..Len(q.commands), SameKey(e, q.commands[j]) PROVE i = j
        <5>1. CASE j = m + 1
          BY <3>1, <5>1
        <5>2. CASE j # m + 1
          <6>1. j \in 1..m /\ q.commands[j] = r.commands[j]
            BY <2>2, <5>2
          <6>2. IsKeyed(r.commands[j]) /\ SameKey(r.commands[j], e)
            BY <4>1, <4>3, <6>1 DEF IsKeyed, SameKey
          <6> QED
            BY <2>3, <6>1, <6>2
        <5> QED
          BY <5>1, <5>2
      <4> QED
        BY <2>4, <4>1, <4>2, <4>3
    <3>2. CASE i # m + 1
      <4>1. i \in 1..m /\ q.commands[i] = r.commands[i] /\ IsKeyed(r.commands[i])
        BY <2>2, <2>5, <3>2
      <4>2. ASSUME NEW j \in 1..Len(q.commands), SameKey(r.commands[i], q.commands[j]) PROVE i = j
        <5>1. CASE j = m + 1
          BY <2>2, <2>3, <4>1, <4>2, <5>1
        <5>2. CASE j # m + 1
          <6>1. j \in 1..m /\ q.commands[j] = r.commands[j]
            BY <2>2, <5>2
          <6> QED
            BY <1>11, <4>1, <4>2, <6>1 DEF m
        <5> QED
          BY <5>1, <5>2
      <4> QED
        BY <1>11, <4>1, <4>2 DEF m
    <3> QED
      BY <3>1, <3>2
  <2> QED
    BY <1>9, <2>5 DEF CommandsNew
<1> QED
  BY <1>12, <1>13

-----------------------------------------------------------------------------
\* An event of a concatenation is one of either part.
LEMMA ConcatEvent ==
  ASSUME NEW s \in Seq(Event), NEW t \in Seq(Event)
  PROVE  /\ s \o t \in Seq(Event) /\ Len(s) \in Nat /\ Len(t) \in Nat
         /\ \A i \in 1..Len(s \o t) :
               \/ i \in 1..Len(s) /\ (s \o t)[i] = s[i]
               \/ i - Len(s) \in 1..Len(t) /\ (s \o t)[i] = t[i - Len(s)]
  OBVIOUS

NoneKeyed(t) == \A i \in 1..Len(t) : ~IsKeyed(t[i])

\* Events that schedule nothing may follow a history.
LEMMA UnkeyedConcat ==
  ASSUME NEW s \in Seq(Event), NEW t \in Seq(Event), NoneKeyed(t)
  PROVE  /\ s \o t \in Seq(Event)
         /\ Distinct(s) => Distinct(s \o t)
         /\ NoneKeyed(s) => NoneKeyed(s \o t)
         /\ \A r : Accounted(r, s) => Accounted(r, s \o t)
<1> DEFINE u == s \o t
<1>1. u \in Seq(Event)
  BY ConcatEvent
<1>2. \A i \in 1..Len(u) : IsKeyed(u[i]) => i \in 1..Len(s) /\ u[i] = s[i]
  <2>1. \A i \in 1..Len(u) : \/ i \in 1..Len(s) /\ u[i] = s[i]
                             \/ i - Len(s) \in 1..Len(t) /\ u[i] = t[i - Len(s)]
    BY ConcatEvent
  <2> HIDE DEF u
  <2> QED
    BY <2>1 DEF NoneKeyed
<1> HIDE DEF u
<1>3. ASSUME Distinct(s), NEW i \in 1..Len(u), NEW j \in 1..Len(u), IsKeyed(u[i]), SameKey(u[i], u[j])
      PROVE  i = j
  <2>1. IsKeyed(u[j])
    BY <1>3 DEF IsKeyed, SameKey
  <2> QED
    BY <1>2, <1>3, <2>1 DEF Distinct
<1>4. NoneKeyed(s) => NoneKeyed(u)
  BY <1>2, Zenon DEF NoneKeyed
<1>5. ASSUME NEW r, Accounted(r, s) PROVE Accounted(r, u)
  BY <1>2, <1>5, Zenon DEF Accounted
<1> QED
  BY <1>1, <1>3, <1>4, <1>5 DEF u, Distinct

\* One event that schedules nothing.
LEMMA UnkeyedAppend ==
  ASSUME NEW s \in Seq(Event), NEW e \in Event, ~IsKeyed(e)
  PROVE  /\ Append(s, e) \in Seq(Event)
         /\ Distinct(s) => Distinct(Append(s, e))
         /\ NoneKeyed(s) => NoneKeyed(Append(s, e))
         /\ \A r : Accounted(r, s) => Accounted(r, Append(s, e))
<1>1. <<e>> \in Seq(Event) /\ NoneKeyed(<<e>>)
  BY DEF NoneKeyed
<1>2. Append(s, e) = s \o <<e>>
  OBVIOUS
<1> QED
  BY <1>1, <1>2, UnkeyedConcat

\* A transient task start may be dropped.
LEMMA DistinctFront ==
  ASSUME NEW s \in Seq(Event), Distinct(s)
  PROVE  /\ SubSeq(s, 1, Len(s) - 1) \in Seq(Event)
         /\ Distinct(SubSeq(s, 1, Len(s) - 1))
<1> DEFINE f == SubSeq(s, 1, Len(s) - 1)
<1>1. f \in Seq(Event) /\ \A i \in 1..Len(f) : i \in 1..Len(s) /\ f[i] = s[i]
  OBVIOUS
<1> HIDE DEF f
<1>2. Distinct(f)
  BY <1>1 DEF Distinct
<1> QED
  BY <1>1, <1>2 DEF f

\* The commands of a runner may follow the history it accounts for.
LEMMA CommandsConcat ==
  ASSUME NEW r, NEW s \in Seq(Event), RunnerOK(r), Distinct(s), Accounted(r, s), CommandsNew(r, s)
  PROVE  /\ s \o r.commands \in Seq(Event)
         /\ Distinct(s \o r.commands) /\ Accounted(r, s \o r.commands)
<1> DEFINE t == r.commands
           u == s \o t
<1>1. t \in Seq(Event)
  BY DEF RunnerOK, Runner
<1>2. /\ u \in Seq(Event) /\ Len(s) \in Nat /\ Len(t) \in Nat
      /\ \A i \in 1..Len(u) : \/ i \in 1..Len(s) /\ u[i] = s[i]
                              \/ i - Len(s) \in 1..Len(t) /\ u[i] = t[i - Len(s)]
  BY <1>1, ConcatEvent
<1>3. \A i \in 1..Len(t) : IsKeyed(t[i]) =>
        /\ t[i].id < Len(r.futures[t[i].k])
        /\ \A j \in 1..Len(t) : SameKey(t[i], t[j]) => i = j
        /\ \A j \in 1..Len(s) : ~SameKey(t[i], s[j])
  BY DEF CommandsNew
<1> HIDE DEF t, u
<1>4. ASSUME NEW i \in 1..Len(u), IsKeyed(u[i])
      PROVE  ScanScheduled(Scan(r), u[i].k, u[i].id) \/ u[i].id < Len(r.futures[u[i].k])
  <2>1. CASE i \in 1..Len(s) /\ u[i] = s[i]
    BY <1>4, <2>1, Zenon DEF Accounted
  <2>2. CASE i - Len(s) \in 1..Len(t) /\ u[i] = t[i - Len(s)]
    BY <1>3, <1>4, <2>2, Zenon
  <2> QED
    BY <1>2, <2>1, <2>2
<1>5. ASSUME NEW i \in 1..Len(u), NEW j \in 1..Len(u), IsKeyed(u[i]), SameKey(u[i], u[j])
      PROVE  i = j
  <2>1. IsKeyed(u[j]) /\ SameKey(u[j], u[i])
    BY <1>5 DEF IsKeyed, SameKey
  <2>2. CASE i \in 1..Len(s) /\ u[i] = s[i] /\ j \in 1..Len(s) /\ u[j] = s[j]
    BY <1>5, <2>2 DEF Distinct
  <2>3. CASE i \in 1..Len(s) /\ u[i] = s[i] /\ j - Len(s) \in 1..Len(t) /\ u[j] = t[j - Len(s)]
    BY <1>3, <2>1, <2>3, Zenon
  <2>4. CASE i - Len(s) \in 1..Len(t) /\ u[i] = t[i - Len(s)] /\ j \in 1..Len(s) /\ u[j] = s[j]
    BY <1>3, <1>5, <2>4, Zenon
  <2>5. CASE /\ i - Len(s) \in 1..Len(t) /\ u[i] = t[i - Len(s)]
             /\ j - Len(s) \in 1..Len(t) /\ u[j] = t[j - Len(s)]
    <3>1. i - Len(s) = j - Len(s)
      BY <1>3, <1>5, <2>5, Zenon
    <3> QED
      BY <1>2, <3>1
  <2> QED
    BY <1>2, <2>2, <2>3, <2>4, <2>5
<1>6. Distinct(u) /\ Accounted(r, u)
  BY <1>4, <1>5 DEF Distinct, Accounted
<1> QED
  BY <1>2, <1>6 DEF t, u

-----------------------------------------------------------------------------
\* A failed task adds no scheduling event and leaves nothing to account for.
LEMMA FailedSafe ==
  ASSUME TypeInv, SafeInv, TaskFailed, pc' = "idle" PROVE SafeInv'
<1> DEFINE failed == Append(history, Plain("WorkflowTaskFailed"))
           dropped == SubSeq(history, 1, Len(history) - 1)
<1>1. /\ history \in Seq(Event) /\ buffered \in Seq(Event) /\ Distinct(history) /\ NoneKeyed(buffered)
  BY DEF TypeInv, TypeOK, SafeInv, NoneKeyed
<1>2. failed \in Seq(Event) /\ Distinct(failed)
  <2>1. /\ Plain("WorkflowTaskFailed") \in Event
        /\ ~IsKeyed(Plain("WorkflowTaskFailed"))
    BY PlainIs DEF EventTypes, IsKeyed
  <2> QED
    BY <1>1, <2>1, UnkeyedAppend
<1>3. dropped \in Seq(Event) /\ Distinct(dropped)
  BY <1>1, DistinctFront
<1>4. /\ history' = (IF attempt = 1 THEN failed ELSE dropped) \o buffered
      /\ buffered' = << >> /\ sticky' = FALSE
  BY Zenon DEF TaskFailed
<1> HIDE DEF failed, dropped
<1>5. Distinct(history')
  <2>1. CASE attempt = 1
    BY <1>1, <1>2, <1>4, <2>1, UnkeyedConcat
  <2>2. CASE attempt # 1
    BY <1>1, <1>3, <1>4, <2>2, UnkeyedConcat
  <2> QED
    BY <2>1, <2>2
<1> QED
  BY <1>4, <1>5 DEF SafeInv, Working

\* A completed task appends new operations only, and the runner that sent them
\* accounts for them.
LEMMA CompletedSafe ==
  ASSUME TypeInv, SafeInv, NEW r, RunnerOK(r), Accounted(r, history), CommandsNew(r, history),
         NEW answered, NEW n \in Nat, NEW final \in Seq(Event), NoneKeyed(final), NEW queue,
         TaskCompleted(r.commands, answered, n, final, queue)
  PROVE  /\ Distinct(history') /\ Accounted(r, history') /\ buffered' = << >>
<1> DEFINE updates == [i \in 1..n |-> Plain("UpdateAccepted")]
           done    == Append(history, Plain("WorkflowTaskCompleted"))
           a       == done \o r.commands
           b       == a \o updates
           c       == b \o final
<1>1. /\ history \in Seq(Event) /\ buffered \in Seq(Event) /\ Distinct(history) /\ NoneKeyed(buffered)
  BY DEF TypeInv, TypeOK, SafeInv, NoneKeyed
<1>2. Plain("UpdateAccepted") \in Event /\ ~IsKeyed(Plain("UpdateAccepted"))
  BY PlainIs DEF EventTypes, IsKeyed
<1>3. updates \in Seq(Event) /\ NoneKeyed(updates)
  BY <1>2 DEF NoneKeyed
<1>4. /\ Plain("WorkflowTaskCompleted") \in Event /\ Plain("WorkflowTaskCompleted").t # "Command"
  BY PlainIs DEF EventTypes
<1>5. done \in Seq(Event) /\ Distinct(done) /\ Accounted(r, done)
  BY <1>1, <1>4, UnkeyedAppend DEF IsKeyed
<1>6. CommandsNew(r, done)
  <2>1. \A j \in 1..Len(done) : (j \in 1..Len(history) /\ done[j] = history[j]) \/ done[j].t # "Command"
    <3> DEFINE p == Plain("WorkflowTaskCompleted")
    <3>1. p \in Event /\ p.t # "Command"
      BY <1>4
    <3> HIDE DEF p
    <3>2. \A j \in 1..Len(Append(history, p)) :
             (j \in 1..Len(history) /\ Append(history, p)[j] = history[j]) \/ Append(history, p)[j] = p
      BY <1>1, <3>1
    <3> QED
      BY <3>1, <3>2 DEF p
  <2> HIDE DEF done
  <2> SUFFICES ASSUME NEW i \in 1..Len(r.commands), IsKeyed(r.commands[i])
               PROVE  \A j \in 1..Len(done) : ~SameKey(r.commands[i], done[j])
    BY DEF CommandsNew
  <2>2. \A j \in 1..Len(history) : ~SameKey(r.commands[i], history[j])
    BY DEF CommandsNew
  <2>3. r.commands[i].t = "Command"
    BY DEF IsKeyed
  <2> QED
    BY <2>1, <2>2, <2>3 DEF SameKey
<1>7. history' = c \o buffered /\ buffered' = << >>
  BY Zenon DEF TaskCompleted
<1> HIDE DEF updates, done
<1>8. a \in Seq(Event) /\ Distinct(a) /\ Accounted(r, a)
  BY <1>5, <1>6, CommandsConcat
<1> HIDE DEF a
<1>9. b \in Seq(Event) /\ Distinct(b) /\ Accounted(r, b)
  BY <1>3, <1>8, UnkeyedConcat
<1> HIDE DEF b
<1>10. c \in Seq(Event) /\ Distinct(c) /\ Accounted(r, c)
  BY <1>9, UnkeyedConcat
<1> HIDE DEF c
<1>11. Distinct(history') /\ Accounted(r, history')
  BY <1>1, <1>7, <1>10, UnkeyedConcat
<1> QED
  BY <1>7, <1>11

\* An event that arrives, and schedules nothing, keeps the invariant.
LEMMA AddEventSafe ==
  ASSUME TypeInv, SafeInv, NEW e \in Event, ~IsKeyed(e), AddEvent(e)
  PROVE  SafeInv'
<1>1. /\ history \in Seq(Event) /\ buffered \in Seq(Event) /\ Distinct(history) /\ NoneKeyed(buffered)
  BY DEF TypeInv, TypeOK, SafeInv, NoneKeyed
<1>2. UNCHANGED <<sticky, pc, task, runner, cache>>
  BY DEF AddEvent, handler
<1>3. CASE wft = "started"
  <2>1. buffered' = Append(buffered, e) /\ history' = history
    BY <1>3 DEF AddEvent
  <2>2. NoneKeyed(buffered')
    BY <1>1, <2>1, UnkeyedAppend
  <2> QED
    BY <1>2, <2>1, <2>2 DEF SafeInv, NoneKeyed, Working
<1>4. CASE wft # "started"
  <2>1. buffered' = buffered /\ history' = Append(history, e)
    BY <1>4 DEF AddEvent
  <2>2. pc = "idle"
    BY <1>4 DEF TypeInv, TaskOK
  <2>3. Distinct(history') /\ \A r : Accounted(r, history) => Accounted(r, history')
    BY <1>1, <2>1, UnkeyedAppend
  <2> QED
    BY <1>2, <2>1, <2>2, <2>3 DEF SafeInv, Working
<1> QED
  BY <1>3, <1>4

\* The end of an operation is an event that schedules nothing.
LEMMA ResolveOpAdds ==
  ASSUME TypeInv, ResolveOp
  PROVE  /\ \E e \in Event : e.t = "Resolved" /\ ~IsKeyed(e) /\ AddEvent(e)
         /\ UNCHANGED sent
<1>0. history \in Seq(Event)
  BY DEF TypeInv, TypeOK
<1>1. PICK i \in 1..Len(history) :
        /\ Open(i)
        /\ \E outcome \in EndsOf(history[i].k, OpId(history, i)) :
              AddEvent(IF history[i].k \in {"Timer", "ChildWorkflow"}
                       THEN Resolved(history[i].k, history[i].id, 0, outcome)
                       ELSE Resolved(history[i].k, 0, i, outcome))
  BY Zenon DEF ResolveOp
<1>2. PICK outcome \in EndsOf(history[i].k, OpId(history, i)) :
              AddEvent(IF history[i].k \in {"Timer", "ChildWorkflow"}
                       THEN Resolved(history[i].k, history[i].id, 0, outcome)
                       ELSE Resolved(history[i].k, 0, i, outcome))
  BY <1>1
<1>3. history[i].k \in OpKinds
  BY <1>1 DEF Open
<1>4. outcome \in Data
  BY <1>2 DEF EndsOf, Data
<1>5. history[i].id \in Int /\ i \in Int /\ 0 \in Int
  <2>1. history[i] \in Event
    BY <1>0
  <2> QED
    BY <2>1 DEF Event
<1>6. /\ Resolved(history[i].k, history[i].id, 0, outcome) \in Event
      /\ Resolved(history[i].k, 0, i, outcome) \in Event
      /\ Resolved(history[i].k, history[i].id, 0, outcome).t = "Resolved"
      /\ Resolved(history[i].k, 0, i, outcome).t = "Resolved"
  BY <1>3, <1>4, <1>5, ResolvedIs
<1>7. UNCHANGED sent
  BY DEF ResolveOp
<1> QED
  BY <1>2, <1>6, <1>7 DEF IsKeyed

\* The server's and the clients' actions keep the invariant.
LEMMA ServerSafe ==
  ASSUME TypeInv, SafeInv, PageDeadline = FALSE, Server \/ Client PROVE SafeInv'
<1>1. /\ history \in Seq(Event) /\ sent \in [signal : Nat, update : Nat, cancel : Nat]
      /\ prevStarted \in Nat
  BY DEF TypeInv, TypeOK
<1>2. CASE ResolveOp
  BY <1>2, ResolveOpAdds, AddEventSafe
<1>3. CASE Poll
  <2> DEFINE first == IF sticky THEN prevStarted + 1 ELSE 1
  <2>1. PICK upto \in {Len(history) + 1} \cup PageEnds(first) :
           task' = [first |-> first, upto |-> upto, updates |-> messages]
    BY <1>3, Zenon DEF Poll
  <2>2. upto = Len(history) + 1
    BY <2>1 DEF PageEnds
  <2>3. Plain("WorkflowTaskStarted") \in Event /\ ~IsKeyed(Plain("WorkflowTaskStarted"))
    BY PlainIs DEF EventTypes, IsKeyed
  <2>4. /\ history' = Append(history, Plain("WorkflowTaskStarted")) /\ pc' = "polled"
        /\ UNCHANGED <<buffered, sticky, cache>>
    BY <1>3 DEF Poll
  <2>5. Len(history') = Len(history) + 1
    BY <1>1, <2>3, <2>4, AppendedHistory
  <2>6. /\ Distinct(history) => Distinct(history')
        /\ \A r : Accounted(r, history) => Accounted(r, history')
    BY <1>1, <2>3, <2>4, UnkeyedAppend
  <2>7. task'.upto = Len(history') /\ (task'.first # 1 => sticky)
    BY <2>1, <2>2, <2>5
  <2> HIDE DEF first
  <2> QED
    BY <2>4, <2>6, <2>7 DEF SafeInv, Working
<1>4. CASE TaskTimeout
  BY <1>4, FailedSafe DEF TaskTimeout, handler
<1>5. CASE StickyTimeout
  <2>1. pc = "idle" /\ sticky' = FALSE /\ UNCHANGED <<history, buffered, pc>>
    BY <1>5 DEF StickyTimeout, handler, TypeInv, TaskOK
  <2> QED
    BY <2>1 DEF SafeInv, Working
<1>6. CASE SignalWorkflow
  <2>1. Signaled(sent.signal + 1) \in Event /\ ~IsKeyed(Signaled(sent.signal + 1))
    BY <1>1, SignaledIs DEF IsKeyed
  <2> QED
    BY <1>6, <2>1, AddEventSafe DEF SignalWorkflow
<1>7. CASE CancelWorkflow
  <2>1. Plain("CancelRequested") \in Event /\ ~IsKeyed(Plain("CancelRequested"))
    BY PlainIs DEF EventTypes, IsKeyed
  <2> QED
    BY <1>7, <2>1, AddEventSafe DEF CancelWorkflow
<1>8. CASE UpdateWorkflow
  BY <1>8 DEF UpdateWorkflow, handler, SafeInv, Working
<1> QED
  BY <1>2, <1>3, <1>4, <1>5, <1>6, <1>7, <1>8 DEF Server, Client

\* A step of the function keeps the invariant.
LEMMA BodySafe == ASSUME TypeInv, SafeInv, BodyStep PROVE SafeInv'
<1>1. /\ pc = "body" /\ RunnerOK(runner)
      /\ Quiet(runner, runner') \/ Scheduled(runner, runner')
      /\ pc' \in {"body", "parked", "respond"}
      /\ UNCHANGED <<server, clients, code, task, fresh, cache, acked, faults>>
  BY BodyStepEffect
<1>2. history \in Seq(Event) /\ Accounted(runner, history) /\ CommandsNew(runner, history)
  BY <1>1 DEF TypeInv, TypeOK, SafeInv, Working
<1>3. Accounted(runner', history) /\ CommandsNew(runner', history)
  BY <1>1, <1>2, QuietKeeps, ScheduledKeeps
<1> QED
  BY <1>1, <1>3 DEF SafeInv, server, Working

\* A task completed without commands schedules nothing.
LEMMA EmptySafe ==
  ASSUME TypeInv, SafeInv, NEW answered, NEW n \in Nat, NEW final \in Seq(Event),
         NoneKeyed(final), NEW queue, TaskCompleted(<< >>, answered, n, final, queue)
  PROVE  /\ Distinct(history') /\ buffered' = << >>
<1> DEFINE updates == [i \in 1..n |-> Plain("UpdateAccepted")]
           done    == Append(history, Plain("WorkflowTaskCompleted"))
           b       == done \o << >> \o updates
           c       == b \o final
<1>1. /\ history \in Seq(Event) /\ buffered \in Seq(Event) /\ Distinct(history) /\ NoneKeyed(buffered)
  BY DEF TypeInv, TypeOK, SafeInv, NoneKeyed
<1>2. /\ Plain("UpdateAccepted") \in Event /\ ~IsKeyed(Plain("UpdateAccepted"))
      /\ Plain("WorkflowTaskCompleted") \in Event /\ ~IsKeyed(Plain("WorkflowTaskCompleted"))
  BY PlainIs DEF EventTypes, IsKeyed
<1>3. updates \in Seq(Event) /\ NoneKeyed(updates)
  BY <1>2 DEF NoneKeyed
<1>4. done \in Seq(Event) /\ Distinct(done)
  BY <1>1, <1>2, UnkeyedAppend
<1>5. history' = c \o buffered /\ buffered' = << >>
  BY Zenon DEF TaskCompleted
<1> HIDE DEF updates, done
<1>6. b \in Seq(Event) /\ Distinct(b)
  <2>1. done \o << >> = done
    BY <1>4
  <2> QED
    BY <1>3, <1>4, <2>1, UnkeyedConcat
<1> HIDE DEF b
<1>7. c \in Seq(Event) /\ Distinct(c)
  BY <1>6, UnkeyedConcat
<1> HIDE DEF c
<1> QED
  BY <1>1, <1>5, <1>7, UnkeyedConcat

\* The handler's actions keep the invariant.
LEMMA HandleSafe == ASSUME TypeInv, SafeInv, Handle PROVE SafeInv'
<1>1. /\ history \in Seq(Event) /\ Distinct(history) /\ task.updates \in Nat /\ task.upto \in Nat
      /\ code \in Programs \cup {NoProgram} /\ Len(history) \in Nat /\ task.first \in Nat
  BY DEF TypeInv, TypeOK, Task, SafeInv
<1>2. ASSUME pc \in {"body", "parked", "respond"}
      PROVE  RunnerOK(runner) /\ Accounted(runner, history) /\ CommandsNew(runner, history)
  BY <1>2 DEF TypeInv, RunnersOK, Working, SafeInv
<1>3. ASSUME pc = "polled" PROVE Assembled = history
  <2>1. task.upto = Len(history)
    BY <1>3 DEF SafeInv
  <2> QED
    BY <1>1, <2>1 DEF Assembled
<1>4. ASSUME Accounted(runner', history), CommandsNew(runner', history),
             pc' \in {"body", "parked", "respond"}, cache' = cache \/ cache' = runner',
             UNCHANGED <<history, buffered, sticky>>
      PROVE  SafeInv'
  BY <1>4 DEF SafeInv
<1>5. \A r : r.commands = << >> => CommandsNew(r, history)
  BY DEF CommandsNew
<1>6. CASE HandleUnregistered
  BY <1>6, FailedSafe DEF HandleUnregistered, Idle
<1>7. CASE HandleSticky
  <2>1. pc = "polled" /\ cache # NoRunner /\ task.first # 1 /\ task.first = LastEventId(cache) + 1
    BY <1>7 DEF HandleSticky, IsFullHistory, CacheHit
  <2>2. RunnerOK(cache) /\ Accounted(cache, history) /\ Assembled = history
    BY <1>3, <2>1 DEF SafeInv, TypeInv, RunnersOK
  <2>3. Len(cache.events) <= Len(history)
    <3>1. Len(cache.events) \in Nat
      BY <2>2 DEF RunnerOK, Runner
    <3>2. task.first <= task.upto /\ task.upto <= Len(history)
      BY <2>1 DEF TypeInv, TaskOK
    <3> QED
      BY <1>1, <2>1, <3>1, <3>2 DEF LastEventId
  <2> DEFINE q == ApplyEvents(cache, history)
  <2>4. /\ RunnerOK(q) /\ Scan(q) = Scan(cache)
        /\ \A k \in OpKinds : Len(q.futures[k]) = Len(cache.futures[k])
        /\ q.commands = << >>
    BY <1>1, <2>2, <2>3, ApplyEventsOK
  <2> HIDE DEF q
  <2>5. Accounted(q, history)
    <3>1. \A e : IsKeyed(e) => e.k \in OpKinds
      BY DEF IsKeyed, KeyedKinds, OpKinds
    <3> QED
      BY <2>2, <2>4, <3>1, Zenon DEF Accounted
  <2>6. runner' = q
    BY <1>7, <2>2, Zenon DEF HandleSticky, q
  <2> QED
    BY <1>4, <1>5, <1>7, <2>4, <2>5, <2>6 DEF HandleSticky, server
<1>8. CASE HandleStickyMiss
  BY <1>8, FailedSafe DEF HandleStickyMiss, Idle
<1>9. CASE HandleFull
  <2>1. code \in Programs /\ (prevStarted > 0) \in BOOLEAN /\ pc = "polled"
    BY <1>1, <1>9 DEF HandleFull, TypeInv, TypeOK
  <2> DEFINE q == NewRunner(code, history, prevStarted > 0)
  <2>2. Scan(q) = history /\ q.commands = << >>
    BY <1>1, <2>1, NewRunnerOK
  <2>3. runner' = q
    BY <1>3, <1>9, <2>1, Zenon DEF HandleFull
  <2> HIDE DEF q
  <2>4. Accounted(q, history)
    <3> SUFFICES ASSUME NEW i \in 1..Len(history), IsKeyed(history[i])
                 PROVE  ScanScheduled(history, history[i].k, history[i].id)
      BY <2>2 DEF Accounted
    <3>1. i \in Commands(history, history[i].k) /\ OpId(history, i) = history[i].id
      BY DEF Commands, IsCommand, IsKeyed, KeyedKinds, OpId
    <3> QED
      BY <3>1 DEF ScanScheduled, Schedulings
  <2> QED
    BY <1>4, <1>5, <1>9, <2>2, <2>3, <2>4 DEF HandleFull, server
<1>10. CASE ReapplyHistoricalUpdates
  <2>1. pc = "parked" /\ runner' = ReapplyStep(runner) /\ TimelineLeft(runner) # {}
    BY <1>10 DEF ReapplyHistoricalUpdates
  <2>2. Quiet(runner, runner')
    BY <1>2, <2>1, ReapplyStepQuiet
  <2>3. Accounted(runner', history) /\ CommandsNew(runner', history)
    BY <1>1, <1>2, <2>1, <2>2, QuietKeeps
  <2> QED
    BY <1>4, <1>10, <2>3 DEF ReapplyHistoricalUpdates, server
<1>11. CASE CheckPassed
  BY <1>2, <1>4, <1>11 DEF CheckPassed, Replayed, server
<1>12. CASE CheckFailed
  <2>1. pc' = "idle"
    BY <1>12 DEF CheckFailed, Idle
  <2>2. CASE TaskFailed
    BY <2>1, <2>2, FailedSafe
  <2>3. CASE TaskCompleted(<< >>, 0, 0, <<Command("FailWorkflow", 0, "nil")>>, FALSE)
    <3> DEFINE e == Command("FailWorkflow", 0, "nil")
    <3>1. e \in Event /\ e.k = "FailWorkflow"
      BY CommandIs DEF CommandKinds, Names
    <3>2. TaskCompleted(<< >>, 0, 0, <<e>>, FALSE) /\ 0 \in Nat
      BY <2>3
    <3> HIDE DEF e
    <3>3. <<e>> \in Seq(Event) /\ NoneKeyed(<<e>>)
      BY <3>1 DEF NoneKeyed, IsKeyed, KeyedKinds
    <3>4. Distinct(history') /\ buffered' = << >>
      BY <3>2, <3>3, EmptySafe
    <3>5. sticky' = FALSE
      BY <2>3 DEF TaskCompleted
    <3> QED
      BY <2>1, <3>4, <3>5 DEF SafeInv, Working
  <2> QED
    BY <1>12, <2>2, <2>3 DEF CheckFailed
<1>13. CASE RespondCompleted
  <2>1. RunnerOK(runner) /\ Accounted(runner, history) /\ CommandsNew(runner, history)
    BY <1>2, <1>13 DEF RespondCompleted
  <2>2. PICK n \in 0..task.updates :
          /\ TaskCompleted(runner.commands, task.updates, n, Final, TRUE)
          /\ cache' = Responding(n) \/ cache' = NoRunner
    BY <1>13 DEF RespondCompleted
  <2>3. Final \in Seq(Event) /\ NoneKeyed(Final) /\ n \in Nat
    BY <1>1, <2>1, FinalIs DEF NoneKeyed
  <2>4. Distinct(history') /\ Accounted(runner, history') /\ buffered' = << >>
    BY <2>1, <2>2, <2>3, CompletedSafe
  <2>5. Accounted(Responding(n), history')
    <3>1. Quiet(runner, Responding(n))
      BY <2>1, <2>3, RespondingOK
    <3>2. history' \in Seq(Event)
      BY HandleType DEF TypeInv, TypeOK
    <3> QED
      BY <2>1, <2>4, <3>1, <3>2, QuietKeeps
  <2>6. pc' = "idle"
    BY <1>13 DEF RespondCompleted, Idle
  <2> QED
    BY <2>2, <2>4, <2>5, <2>6 DEF SafeInv, Working
<1>14. CASE RespondRefused
  BY <1>14, FailedSafe DEF RespondRefused, Idle
<1>15. CASE RespondLost
  <2>1. RunnerOK(runner) /\ Accounted(runner, history)
    BY <1>2, <1>15 DEF RespondLost
  <2>2. PICK n \in 0..task.updates : cache' = Responding(n)
    BY <1>15 DEF RespondLost
  <2>3. Accounted(cache', history)
    BY <1>1, <2>1, <2>2, RespondingOK, QuietKeeps
  <2>4. pc' = "idle" /\ UNCHANGED <<history, buffered, sticky>>
    BY <1>15 DEF RespondLost, Idle, server
  <2> QED
    BY <2>3, <2>4 DEF SafeInv, Working
<1>16. CASE AbortDeadlock
  BY <1>16, FailedSafe DEF AbortDeadlock, Idle
<1> QED
  BY <1>6, <1>7, <1>8, <1>9, <1>10, <1>11, <1>12, <1>13, <1>14, <1>15, <1>16 DEF Handle

\* Every step keeps the invariant, if no page of a history is lost.
LEMMA SafeStep ==
  ASSUME PageDeadline = FALSE PROVE TypeInv /\ SafeInv /\ [Next]_vars => SafeInv'
<1> SUFFICES ASSUME TypeInv, SafeInv, [Next]_vars PROVE SafeInv'
  OBVIOUS
<1>1. CASE Evict
  BY <1>1 DEF Evict, handler, server, SafeInv, Working
<1>2. CASE Restart
  BY <1>2 DEF Restart, Idle, server, SafeInv, Working
<1>3. CASE UNCHANGED vars
  BY <1>3 DEF vars, SafeInv, Working
<1> QED
  BY <1>1, <1>2, <1>3, BodySafe, ServerSafe, HandleSafe DEF Next, Finished

\* Initially nothing is scheduled.
LEMMA SafeInit == Init => SafeInv
<1> SUFFICES ASSUME Init PROVE SafeInv
  OBVIOUS
<1>1. <<Plain("WorkflowExecutionStarted")>> \in Seq(Event)
      /\ Distinct(<<Plain("WorkflowExecutionStarted")>>)
  BY PlainIs DEF EventTypes, Distinct
<1> QED
  BY <1>1 DEF Init, SafeInv, Working

\* No activity, timer or child workflow is scheduled twice in a run, whatever the
\* workflow function, the faults, the restarts and the redeployments: provided no
\* history page is lost to a deadline, the emit guards of the Schedule methods are
\* enough, without the help of the determinism check.
THEOREM SchedulesAreUnique ==
  ASSUME PageDeadline = FALSE
  PROVE  Spec => []NoDuplicateSchedules
<1>1. Init => SafeInv
  BY SafeInit
<1>2. SafeInv => NoDuplicateSchedules
  BY DEF SafeInv, Distinct, NoDuplicateSchedules
<1>3. TypeInv /\ SafeInv /\ [Next]_vars => SafeInv'
  BY SafeStep
<1> QED
  BY <1>1, <1>2, <1>3, TypeInit, TypeStep, PTL DEF Spec
-----------------------------------------------------------------------------
(***************************************************************************)
(* The runner that answers owns every operation of the run.  A fresh one   *)
(* has nothing but its prescan at first: that the function has made the    *)
(* calls history records follows from the determinism check, through the   *)
(* commands the replay produced.  From then on the ownership is kept by    *)
(* the cache, from task to task.                                           *)
(***************************************************************************)
\* The scheduling commands a replay has produced are calls the function made.
ProducedFit(r) ==
    \A i \in 1..Len(r.produced) :
        r.produced[i].k \in KeyedKinds => r.produced[i].id < Len(r.futures[r.produced[i].k])

OwnInv ==
    /\ (pc \in {"body", "parked"} /\ fresh) => Scan(runner) = history /\ ProducedFit(runner)
    /\ (pc \in {"body", "parked"} /\ ~fresh) => Owns(runner, history)
    /\ pc = "respond" => Owns(runner, history)
    /\ (sticky /\ cache # NoRunner) => Owns(cache, history)

\* A scheduling event is of an operation that has a future.
LEMMA KeyedIsOp ==
  /\ \A e : IsKeyed(e) => e.k \in OpKinds
  /\ KeyedKinds \subseteq OpKinds
  BY DEF IsKeyed, KeyedKinds, OpKinds

\* The runner that holds the same futures owns the same operations.
LEMMA OwnsSame ==
  ASSUME NEW r, NEW q, NEW h, Owns(r, h),
         \A k \in OpKinds : Len(q.futures[k]) = Len(r.futures[k])
  PROVE  Owns(q, h)
  BY KeyedIsOp, Zenon DEF Owns

\* A quiet change keeps the operations a runner owns and has produced.
LEMMA QuietOwns ==
  ASSUME NEW r, NEW q, RunnerOK(r), Quiet(r, q)
  PROVE  /\ Scan(q) = Scan(r)
         /\ \A h : Owns(r, h) => Owns(q, h)
         /\ ProducedFit(r) => ProducedFit(q)
<1>1. Scan(q) = Scan(r)
  BY DEF Quiet, Scan
<1>2. \A k \in OpKinds : Len(q.futures[k]) = Len(r.futures[k])
  BY DEF Quiet
<1>3. \A h : Owns(r, h) => Owns(q, h)
  BY <1>2, OwnsSame
<1>4. /\ r.produced \in Seq(CommandEvent) /\ q.produced \in Seq(CommandEvent)
      /\ Len(r.produced) <= Len(q.produced)
      /\ \A i \in 1..Len(r.produced) : q.produced[i] = r.produced[i]
      /\ \A i \in (Len(r.produced) + 1)..Len(q.produced) : q.produced[i].k \notin OpKinds
  BY DEF Quiet, QuietlyExtends, RunnerOK, Runner
<1>5. ASSUME ProducedFit(r), NEW i \in 1..Len(q.produced), q.produced[i].k \in KeyedKinds
      PROVE  q.produced[i].id < Len(q.futures[q.produced[i].k])
  <2>1. q.produced[i].k \in OpKinds
    BY <1>5, KeyedIsOp
  <2>2. i \in 1..Len(r.produced) /\ q.produced[i] = r.produced[i]
    BY <1>4, <2>1
  <2> QED
    BY <1>2, <1>5, <2>1, <2>2, Zenon DEF ProducedFit
<1> QED
  BY <1>1, <1>3, <1>5 DEF ProducedFit

\* A call that schedules adds the future its command names.
LEMMA ScheduledOwns ==
  ASSUME NEW r, NEW q, RunnerOK(r), Scheduled(r, q)
  PROVE  /\ Scan(q) = Scan(r)
         /\ \A h \in Seq(Event) : Owns(r, h) => Owns(q, h)
         /\ ProducedFit(r) => ProducedFit(q)
<1>1. PICK kind \in OpKinds, v \in Names : q = Schedule(r, kind, v)
  BY DEF Scheduled
<1> DEFINE id == Len(r.futures[kind])
           c  == CmdEvent(kind, id, v)
<1>2. /\ RunnerOK(q) /\ q.events = r.events /\ q.scanned = r.scanned
      /\ \A k \in OpKinds \ {kind} : Len(q.futures[k]) = Len(r.futures[k])
      /\ Len(q.futures[kind]) = id + 1
      /\ q.produced = Append(r.produced, c)
  BY <1>1, ScheduleEffect
<1>3. c.k = kind /\ c.id = id
  BY DEF CmdEvent
<1>4. /\ \A k \in OpKinds : Len(r.futures[k]) \in Nat /\ Len(q.futures[k]) \in Nat
      /\ r.produced \in Seq(CommandEvent) /\ id \in Nat
  BY <1>2 DEF RunnerOK, Runner
<1> HIDE DEF c
<1>5. \A k \in OpKinds : Len(r.futures[k]) <= Len(q.futures[k])
  <2> SUFFICES ASSUME NEW k \in OpKinds PROVE Len(r.futures[k]) <= Len(q.futures[k])
    OBVIOUS
  <2> QED
    BY <1>2, <1>4
<1>6. Scan(q) = Scan(r)
  BY <1>2 DEF Scan
<1>7. ASSUME NEW h \in Seq(Event), Owns(r, h) PROVE Owns(q, h)
  <2> SUFFICES ASSUME NEW i \in 1..Len(h), IsKeyed(h[i]) PROVE h[i].id < Len(q.futures[h[i].k])
    BY DEF Owns
  <2>1. h[i].k \in OpKinds
    BY KeyedIsOp
  <2>2. h[i].id < Len(r.futures[h[i].k])
    BY <1>7 DEF Owns
  <2>3. h[i] \in Event
    OBVIOUS
  <2>4. h[i].id \in Int
    BY <2>3 DEF Event
  <2> QED
    BY <1>4, <1>5, <2>1, <2>2, <2>4
<1>8. ASSUME ProducedFit(r), NEW i \in 1..Len(q.produced), q.produced[i].k \in KeyedKinds
      PROVE  q.produced[i].id < Len(q.futures[q.produced[i].k])
  <2>1. q.produced[i].k \in OpKinds
    BY <1>8, KeyedIsOp
  <2>2. \/ i \in 1..Len(r.produced) /\ q.produced[i] = r.produced[i]
        \/ q.produced[i] = c
    BY <1>2, <1>4
  <2>3. CASE i \in 1..Len(r.produced) /\ q.produced[i] = r.produced[i]
    <3>1. r.produced[i].id < Len(r.futures[r.produced[i].k])
      BY <1>8, <2>3, Zenon DEF ProducedFit
    <3>2. r.produced[i] \in CommandEvent
      BY <1>4, <2>3
    <3>3. r.produced[i].id \in Int
      BY <3>2 DEF CommandEvent
    <3> QED
      BY <1>4, <1>5, <2>1, <2>3, <3>1, <3>3
  <2>4. CASE q.produced[i] = c
    BY <1>2, <1>3, <1>4, <2>4
  <2> QED
    BY <2>2, <2>3, <2>4
<1> QED
  BY <1>6, <1>7, <1>8 DEF ProducedFit

\* A replay the determinism check lets through has made every call that history
\* records: each scheduling event was matched by a command with its kind and id.
LEMMA CheckedOwns ==
  ASSUME NEW r, RunnerOK(r), ProducedFit(r), CheckDeterminism(r)
  PROVE  Owns(r, Scan(r))
<1> DEFINE h == Scan(r)
<1> SUFFICES ASSUME NEW i \in 1..Len(h), IsKeyed(h[i]) PROVE h[i].id < Len(r.futures[h[i].k])
  BY DEF Owns
<1> DEFINE pos == Ordinal(Events(h, "Command"), i) + 1
           e   == RecordedCommand(h, i)
<1>1. h[i].t = "Command" /\ h[i].k \in KeyedKinds /\ i \in Events(h, "Command")
  BY DEF IsKeyed, Events
<1>2. pos <= Len(r.produced) /\ CommandMatchesEvent(r.produced[pos], e)
  BY <1>1, Zenon DEF CheckDeterminism, MatchReplayCommands
<1>3. e.k = h[i].k /\ e.id = h[i].id
  BY <1>1, Zenon DEF RecordedCommand, CmdEvent, OpId, KeyedKinds
<1>4. pos \in 1..Len(r.produced)
  <2>1. h \in Seq(Event) /\ Len(h) \in Nat
    BY ScanEvent
  <2>2. IsFiniteSet({j \in Events(h, "Command") : j < i})
    <3>1. IsFiniteSet(1..Len(h))
      BY <2>1, FS_Interval
    <3>2. {j \in Events(h, "Command") : j < i} \subseteq 1..Len(h)
      BY DEF Events
    <3> QED
      BY <3>1, <3>2, FS_Subset
  <2>3. Ordinal(Events(h, "Command"), i) \in Nat
    BY <2>2, FS_CardinalityType DEF Ordinal
  <2>4. Len(r.produced) \in Nat
    BY DEF RunnerOK, Runner
  <2> QED
    BY <1>2, <2>3, <2>4
<1> HIDE DEF pos, e
<1>5. r.produced[pos].k = h[i].k /\ r.produced[pos].id = h[i].id
  BY <1>1, <1>2, <1>3, Zenon DEF CommandMatchesEvent, KeyedKinds, TerminalKinds
<1> QED
  BY <1>1, <1>4, <1>5, Zenon DEF ProducedFit

\* Events that schedule nothing leave what a runner owns.
LEMMA UnkeyedOwns ==
  ASSUME NEW s \in Seq(Event), NEW t \in Seq(Event), NoneKeyed(t)
  PROVE  s \o t \in Seq(Event) /\ \A r : Owns(r, s) => Owns(r, s \o t)
<1> DEFINE u == s \o t
<1>1. /\ u \in Seq(Event)
      /\ \A i \in 1..Len(u) : \/ i \in 1..Len(s) /\ u[i] = s[i]
                              \/ i - Len(s) \in 1..Len(t) /\ u[i] = t[i - Len(s)]
  BY ConcatEvent
<1> HIDE DEF u
<1>2. \A i \in 1..Len(u) : IsKeyed(u[i]) => i \in 1..Len(s) /\ u[i] = s[i]
  BY <1>1 DEF NoneKeyed
<1>3. ASSUME NEW r, Owns(r, s) PROVE Owns(r, u)
  BY <1>2, <1>3, Zenon DEF Owns
<1> QED
  BY <1>1, <1>3 DEF u

\* One event that schedules nothing.
LEMMA UnkeyedAppendOwns ==
  ASSUME NEW s \in Seq(Event), NEW e \in Event, ~IsKeyed(e)
  PROVE  Append(s, e) \in Seq(Event) /\ \A r : Owns(r, s) => Owns(r, Append(s, e))
<1>1. <<e>> \in Seq(Event) /\ NoneKeyed(<<e>>)
  BY DEF NoneKeyed
<1>2. Append(s, e) = s \o <<e>>
  OBVIOUS
<1> QED
  BY <1>1, <1>2, UnkeyedOwns

\* A runner owns the operations its commands start.
LEMMA CommandsOwned ==
  ASSUME NEW r, NEW s \in Seq(Event), NEW h, RunnerOK(r), Owns(r, s), CommandsNew(r, h)
  PROVE  s \o r.commands \in Seq(Event) /\ Owns(r, s \o r.commands)
<1> DEFINE t == r.commands
           u == s \o t
<1>1. t \in Seq(Event)
  BY DEF RunnerOK, Runner
<1>2. /\ u \in Seq(Event)
      /\ \A i \in 1..Len(u) : \/ i \in 1..Len(s) /\ u[i] = s[i]
                              \/ i - Len(s) \in 1..Len(t) /\ u[i] = t[i - Len(s)]
  BY <1>1, ConcatEvent
<1>3. \A i \in 1..Len(t) : IsKeyed(t[i]) => t[i].id < Len(r.futures[t[i].k])
  BY DEF CommandsNew
<1> HIDE DEF t, u
<1>4. ASSUME NEW i \in 1..Len(u), IsKeyed(u[i]) PROVE u[i].id < Len(r.futures[u[i].k])
  <2>1. CASE i \in 1..Len(s) /\ u[i] = s[i]
    BY <1>4, <2>1, Zenon DEF Owns
  <2>2. CASE i - Len(s) \in 1..Len(t) /\ u[i] = t[i - Len(s)]
    BY <1>3, <1>4, <2>2, Zenon
  <2> QED
    BY <1>2, <2>1, <2>2
<1> QED
  BY <1>2, <1>4 DEF t, u, Owns

\* The runner whose commands complete a task owns what they add to the history.
LEMMA CompletedOwns ==
  ASSUME TypeInv, SafeInv, NEW r, RunnerOK(r), Owns(r, history), CommandsNew(r, history),
         NEW answered, NEW n \in Nat, NEW final \in Seq(Event), NoneKeyed(final), NEW queue,
         TaskCompleted(r.commands, answered, n, final, queue)
  PROVE  Owns(r, history')
<1> DEFINE updates == [i \in 1..n |-> Plain("UpdateAccepted")]
           done    == Append(history, Plain("WorkflowTaskCompleted"))
           a       == done \o r.commands
           b       == a \o updates
           c       == b \o final
<1>1. history \in Seq(Event) /\ buffered \in Seq(Event) /\ NoneKeyed(buffered)
  BY DEF TypeInv, TypeOK, SafeInv, NoneKeyed
<1>2. /\ Plain("UpdateAccepted") \in Event /\ ~IsKeyed(Plain("UpdateAccepted"))
      /\ Plain("WorkflowTaskCompleted") \in Event /\ ~IsKeyed(Plain("WorkflowTaskCompleted"))
  BY PlainIs DEF EventTypes, IsKeyed
<1>3. updates \in Seq(Event) /\ NoneKeyed(updates)
  BY <1>2 DEF NoneKeyed
<1>4. done \in Seq(Event) /\ Owns(r, done)
  BY <1>1, <1>2, UnkeyedAppendOwns
<1>5. history' = c \o buffered
  BY Zenon DEF TaskCompleted
<1> HIDE DEF updates, done
<1>6. a \in Seq(Event) /\ Owns(r, a)
  BY <1>4, CommandsOwned
<1> HIDE DEF a
<1>7. b \in Seq(Event) /\ Owns(r, b)
  BY <1>3, <1>6, UnkeyedOwns
<1> HIDE DEF b
<1>8. c \in Seq(Event) /\ Owns(r, c)
  BY <1>7, UnkeyedOwns
<1> HIDE DEF c
<1> QED
  BY <1>1, <1>5, <1>8, UnkeyedOwns

\* After a failed task nothing is owed: the next one carries the whole history.
LEMMA FailedOwns == ASSUME TaskFailed, pc' = "idle" PROVE OwnInv'
  BY DEF TaskFailed, OwnInv

\* An event that arrives, and schedules nothing, keeps the ownership.
LEMMA AddEventOwns ==
  ASSUME TypeInv, OwnInv, NEW e \in Event, ~IsKeyed(e), AddEvent(e)
  PROVE  OwnInv'
<1>1. UNCHANGED <<sticky, pc, runner, fresh, cache>> /\ history \in Seq(Event)
  BY DEF AddEvent, handler, TypeInv, TypeOK
<1>2. CASE wft = "started"
  BY <1>1, <1>2 DEF AddEvent, OwnInv
<1>3. CASE wft # "started"
  <2>1. pc = "idle" /\ history' = Append(history, e)
    BY <1>3 DEF AddEvent, TypeInv, TaskOK
  <2>2. \A r : Owns(r, history) => Owns(r, history')
    BY <1>1, <2>1, UnkeyedAppendOwns
  <2> QED
    BY <1>1, <2>1, <2>2 DEF OwnInv
<1> QED
  BY <1>2, <1>3

\* The server's and the clients' actions keep the ownership.
LEMMA ServerOwns ==
  ASSUME TypeInv, OwnInv, Server \/ Client PROVE OwnInv'
<1>1. history \in Seq(Event) /\ sent \in [signal : Nat, update : Nat, cancel : Nat]
  BY DEF TypeInv, TypeOK
<1>2. CASE ResolveOp
  BY <1>2, ResolveOpAdds, AddEventOwns
<1>3. CASE Poll
  <2>1. Plain("WorkflowTaskStarted") \in Event /\ ~IsKeyed(Plain("WorkflowTaskStarted"))
    BY PlainIs DEF EventTypes, IsKeyed
  <2>2. /\ history' = Append(history, Plain("WorkflowTaskStarted")) /\ pc' = "polled"
        /\ UNCHANGED <<sticky, cache>>
    BY <1>3 DEF Poll
  <2>3. \A r : Owns(r, history) => Owns(r, history')
    BY <1>1, <2>1, <2>2, UnkeyedAppendOwns
  <2> QED
    BY <2>2, <2>3 DEF OwnInv
<1>4. CASE TaskTimeout
  BY <1>4, FailedOwns DEF TaskTimeout, handler
<1>5. CASE StickyTimeout
  BY <1>5 DEF StickyTimeout, handler, OwnInv
<1>6. CASE SignalWorkflow
  <2>1. Signaled(sent.signal + 1) \in Event /\ ~IsKeyed(Signaled(sent.signal + 1))
    BY <1>1, SignaledIs DEF IsKeyed
  <2> QED
    BY <1>6, <2>1, AddEventOwns DEF SignalWorkflow
<1>7. CASE CancelWorkflow
  <2>1. Plain("CancelRequested") \in Event /\ ~IsKeyed(Plain("CancelRequested"))
    BY PlainIs DEF EventTypes, IsKeyed
  <2> QED
    BY <1>7, <2>1, AddEventOwns DEF CancelWorkflow
<1>8. CASE UpdateWorkflow
  BY <1>8 DEF UpdateWorkflow, handler, OwnInv
<1> QED
  BY <1>2, <1>3, <1>4, <1>5, <1>6, <1>7, <1>8 DEF Server, Client

\* A step of the function keeps what the runner owns, or has produced.
LEMMA BodyOwns == ASSUME TypeInv, OwnInv, BodyStep PROVE OwnInv'
<1>1. /\ pc = "body" /\ RunnerOK(runner)
      /\ Quiet(runner, runner') \/ Scheduled(runner, runner')
      /\ pc' \in {"body", "parked", "respond"} /\ (fresh => pc' # "respond")
      /\ UNCHANGED <<server, clients, code, task, fresh, cache, acked, faults>>
  BY BodyStepEffect
<1>2. history \in Seq(Event)
  BY DEF TypeInv, TypeOK
<1>3. /\ Scan(runner') = Scan(runner)
      /\ Owns(runner, history) => Owns(runner', history)
      /\ ProducedFit(runner) => ProducedFit(runner')
  BY <1>1, <1>2, QuietOwns, ScheduledOwns
<1>4. UNCHANGED <<history, sticky, fresh, cache>>
  BY <1>1 DEF server
<1> QED
  BY <1>1, <1>3, <1>4 DEF OwnInv

\* The handler's actions keep the ownership; the determinism check establishes it.
LEMMA HandleOwns == ASSUME TypeInv, SafeInv, OwnInv, Handle PROVE OwnInv'
<1>1. /\ history \in Seq(Event) /\ task.updates \in Nat /\ task.upto \in Nat
      /\ code \in Programs \cup {NoProgram} /\ Len(history) \in Nat /\ task.first \in Nat
  BY DEF TypeInv, TypeOK, Task
<1>2. ASSUME pc \in {"body", "parked", "respond"}
      PROVE  RunnerOK(runner) /\ CommandsNew(runner, history)
  BY <1>2 DEF TypeInv, RunnersOK, Working, SafeInv
<1>3. ASSUME pc = "polled" PROVE Assembled = history
  <2>1. task.upto = Len(history)
    BY <1>3 DEF SafeInv
  <2> QED
    BY <1>1, <2>1 DEF Assembled
<1>4. CASE HandleUnregistered
  BY <1>4, FailedOwns DEF HandleUnregistered, Idle
<1>5. CASE HandleSticky
  <2>1. pc = "polled" /\ cache # NoRunner /\ task.first # 1 /\ task.first = LastEventId(cache) + 1
    BY <1>5 DEF HandleSticky, IsFullHistory, CacheHit
  <2>2. RunnerOK(cache) /\ Owns(cache, history) /\ Assembled = history
    BY <1>3, <2>1 DEF SafeInv, OwnInv, TypeInv, RunnersOK
  <2>3. Len(cache.events) <= Len(history)
    <3>1. Len(cache.events) \in Nat
      BY <2>2 DEF RunnerOK, Runner
    <3>2. task.first <= task.upto /\ task.upto <= Len(history)
      BY <2>1 DEF TypeInv, TaskOK
    <3> QED
      BY <1>1, <2>1, <3>1, <3>2 DEF LastEventId
  <2> DEFINE q == ApplyEvents(cache, history)
  <2>4. \A k \in OpKinds : Len(q.futures[k]) = Len(cache.futures[k])
    BY <1>1, <2>2, <2>3, ApplyEventsOK
  <2> HIDE DEF q
  <2>5. Owns(q, history)
    BY <2>2, <2>4, OwnsSame
  <2>6. /\ runner' = q /\ fresh' = FALSE /\ pc' \in {"body", "respond"}
        /\ UNCHANGED <<history, sticky, cache>>
    BY <1>5, <2>2, Zenon DEF HandleSticky, server, q
  <2> QED
    BY <2>5, <2>6 DEF OwnInv
<1>6. CASE HandleStickyMiss
  BY <1>6, FailedOwns DEF HandleStickyMiss, Idle
<1>7. CASE HandleFull
  <2>1. code \in Programs /\ (prevStarted > 0) \in BOOLEAN /\ pc = "polled"
    BY <1>1, <1>7 DEF HandleFull, TypeInv, TypeOK
  <2> DEFINE q == NewRunner(code, history, prevStarted > 0)
  <2>2. Scan(q) = history /\ q.produced = << >>
    BY <1>1, <2>1, NewRunnerOK
  <2>3. /\ runner' = q /\ fresh' = TRUE /\ pc' = "body"
        /\ UNCHANGED <<history, sticky, cache>>
    BY <1>3, <1>7, <2>1, Zenon DEF HandleFull, server
  <2> HIDE DEF q
  <2>4. ProducedFit(q)
    BY <2>2 DEF ProducedFit
  <2> QED
    BY <2>2, <2>3, <2>4 DEF OwnInv
<1>8. CASE ReapplyHistoricalUpdates
  <2>1. /\ pc = "parked" /\ runner' = ReapplyStep(runner) /\ TimelineLeft(runner) # {}
        /\ pc' = "body" /\ UNCHANGED <<history, sticky, fresh, cache>>
    BY <1>8 DEF ReapplyHistoricalUpdates, server
  <2>2. RunnerOK(runner) /\ Quiet(runner, runner')
    BY <1>2, <2>1, ReapplyStepQuiet
  <2>3. /\ Scan(runner') = Scan(runner)
        /\ Owns(runner, history) => Owns(runner', history)
        /\ ProducedFit(runner) => ProducedFit(runner')
    BY <2>2, QuietOwns
  <2> QED
    BY <2>1, <2>3 DEF OwnInv
<1>9. CASE CheckPassed
  <2>1. /\ pc = "parked" /\ CheckDeterminism(runner) /\ cache' = runner /\ pc' = "respond"
        /\ UNCHANGED <<history, sticky, fresh, runner>>
    BY <1>9 DEF CheckPassed, Replayed, server
  <2>2. Owns(runner, history)
    <3>1. CASE fresh
      BY <1>2, <2>1, <3>1, CheckedOwns DEF OwnInv
    <3>2. CASE ~fresh
      BY <2>1, <3>2 DEF OwnInv
    <3> QED
      BY <3>1, <3>2
  <2> QED
    BY <2>1, <2>2 DEF OwnInv
<1>10. CASE CheckFailed
  <2>1. pc' = "idle"
    BY <1>10 DEF CheckFailed, Idle
  <2>2. sticky' = FALSE
    BY <1>10 DEF CheckFailed, TaskFailed, TaskCompleted
  <2> QED
    BY <2>1, <2>2 DEF OwnInv
<1>11. CASE RespondCompleted
  <2>1. RunnerOK(runner) /\ Owns(runner, history) /\ CommandsNew(runner, history)
    BY <1>2, <1>11 DEF RespondCompleted, OwnInv
  <2>2. PICK n \in 0..task.updates :
          /\ TaskCompleted(runner.commands, task.updates, n, Final, TRUE)
          /\ cache' = Responding(n) \/ cache' = NoRunner
    BY <1>11 DEF RespondCompleted
  <2>3. Final \in Seq(Event) /\ NoneKeyed(Final) /\ n \in Nat
    BY <1>1, <2>1, FinalIs DEF NoneKeyed
  <2>4. Owns(runner, history')
    BY <2>1, <2>2, <2>3, CompletedOwns
  <2>5. Owns(Responding(n), history')
    BY <2>1, <2>3, <2>4, RespondingOK, QuietOwns
  <2>6. pc' = "idle"
    BY <1>11 DEF RespondCompleted, Idle
  <2> QED
    BY <2>2, <2>5, <2>6 DEF OwnInv
<1>12. CASE RespondRefused
  BY <1>12, FailedOwns DEF RespondRefused, Idle
<1>13. CASE RespondLost
  <2>1. RunnerOK(runner) /\ Owns(runner, history)
    BY <1>2, <1>13 DEF RespondLost, OwnInv
  <2>2. PICK n \in 0..task.updates : cache' = Responding(n)
    BY <1>13 DEF RespondLost
  <2>3. Owns(cache', history)
    BY <1>1, <2>1, <2>2, RespondingOK, QuietOwns
  <2>4. pc' = "idle" /\ UNCHANGED <<history, sticky>>
    BY <1>13 DEF RespondLost, Idle, server
  <2> QED
    BY <2>3, <2>4 DEF OwnInv
<1>14. CASE AbortDeadlock
  BY <1>14, FailedOwns DEF AbortDeadlock, Idle
<1> QED
  BY <1>4, <1>5, <1>6, <1>7, <1>8, <1>9, <1>10, <1>11, <1>12, <1>13, <1>14 DEF Handle

\* Every step keeps the ownership.
LEMMA OwnStep == TypeInv /\ SafeInv /\ OwnInv /\ [Next]_vars => OwnInv'
<1> SUFFICES ASSUME TypeInv, SafeInv, OwnInv, [Next]_vars PROVE OwnInv'
  OBVIOUS
<1>1. CASE Evict
  BY <1>1 DEF Evict, handler, server, OwnInv
<1>2. CASE Restart
  BY <1>2 DEF Restart, Idle, server, OwnInv
<1>3. CASE UNCHANGED vars
  BY <1>3 DEF vars, OwnInv
<1> QED
  BY <1>1, <1>2, <1>3, BodyOwns, ServerOwns, HandleOwns DEF Next, Finished

\* A runner that answers a task holds a future for every activity, timer and child
\* workflow the run has started, whatever the functions, their redeployments and
\* the faults: provided no history page is lost to a deadline.  Here the
\* determinism check is needed (CheckedOwns): without it, new code that does not
\* make a recorded call would answer.
THEOREM OperationsAreOwned ==
  ASSUME PageDeadline = FALSE
  PROVE  Spec => []NoOrphanedOperations
<1>1. Init => SafeInv /\ OwnInv
  BY SafeInit DEF Init, OwnInv
<1>2. OwnInv => NoOrphanedOperations
  BY DEF OwnInv, NoOrphanedOperations
<1>3. TypeInv /\ SafeInv /\ [Next]_vars => SafeInv'
  BY SafeStep
<1> QED
  BY <1>1, <1>2, <1>3, OwnStep, TypeInit, TypeStep, PTL DEF Spec

-----------------------------------------------------------------------------
(***************************************************************************)
(* The Nth receive returns the Nth signal.  The server numbers the signals *)
(* in the order they come, through the buffer of a started task; a runner  *)
(* follows the history, and holds in its mailbox what it was given of it.  *)
(***************************************************************************)
\* The signals sent are numbered from 1, first in the history, then in the buffer;
\* what a failed task takes back of the history is no signal.
SignalsNumbered ==
    /\ \E a \in 0..sent.signal : Numbered(history, 0, a) /\ Numbered(buffered, a, sent.signal)
    /\ wft # "started" => buffered = << >>
    /\ wft = "started" => Len(history) > 0 /\ history[Len(history)].t = "WorkflowTaskStarted"

\* The runner follows the history and its mailbox fits; but for a replay that is
\* still going through its timeline, nothing is held back from it.
RunnerReceives ==
    /\ runner # NoRunner => Working /\ RecvOK(runner, history)
    /\ pc = "body" => runner.done = "nil"
    /\ (pc = "respond" \/ (Working /\ ~fresh)) => Caught(runner)

\* While tasks are sticky the cache holds such a runner; a task that is not of the
\* whole history is sticky.
CacheReceives == (sticky /\ cache # NoRunner) => RecvOK(cache, history) /\ Caught(cache)

TaskIsSticky == (pc = "polled" /\ task.first # 1) => sticky

SigInv == SignalsNumbered /\ RunnerReceives /\ CacheReceives /\ TaskIsSticky

\* There are no signals in t.
NoSignals(t) == \A i \in 1..Len(t) : t[i].t # "Signaled"

\* A part without signals takes no number.
LEMMA NumberedNothing ==
  ASSUME NEW t \in Seq(Event), NoSignals(t), NEW a \in Nat
  PROVE  Numbered(t, a, a)
<1>1. Signals(t) = {}
  BY DEF Signals, Events, NoSignals
<1>2. (a + 1)..a = {}
  OBVIOUS
<1> QED
  BY <1>1, <1>2 DEF Numbered

\* Numbers continue from one part of a history to the next.
LEMMA NumberedConcat ==
  ASSUME NEW s \in Seq(Event), NEW t \in Seq(Event), NEW a, NEW b, NEW c,
         Numbered(s, a, b), Numbered(t, b, c)
  PROVE  Numbered(s \o t, a, c)
<1> DEFINE u == s \o t
           m == Len(s)
<1>1. /\ u \in Seq(Event) /\ Len(u) = m + Len(t) /\ m \in Nat /\ Len(t) \in Nat
      /\ \A i \in 1..m : u[i] = s[i]
      /\ \A i \in 1..Len(t) : u[m + i] = t[i]
      /\ \A i \in 1..Len(u) : i \in 1..m \/ i - m \in 1..Len(t)
  <2>1. u \in Seq(Event) /\ Len(u) = m + Len(t) /\ m \in Nat /\ Len(t) \in Nat
    OBVIOUS
  <2>2. /\ \A i \in 1..m : u[i] = s[i]
        /\ \A i \in 1..Len(t) : u[m + i] = t[i]
    OBVIOUS
  <2> HIDE DEF u, m
  <2> QED
    BY <2>1, <2>2
<1> HIDE DEF u, m
<1>2. \A i \in Signals(s) : i \in 1..m /\ i \in Signals(u) /\ u[i] = s[i]
  BY <1>1 DEF Signals, Events, m
<1>3. \A j \in Signals(t) : j \in 1..Len(t) /\ m + j \in Signals(u) /\ u[m + j] = t[j]
  BY <1>1 DEF Signals, Events
<1>4. \A i \in Signals(u) : \/ i \in Signals(s)
                            \/ (i - m \in Signals(t) /\ m + (i - m) = i)
  <2> SUFFICES ASSUME NEW i \in Signals(u)
               PROVE  i \in Signals(s) \/ (i - m \in Signals(t) /\ m + (i - m) = i)
    OBVIOUS
  <2>1. i \in 1..Len(u) /\ u[i].t = "Signaled"
    BY DEF Signals, Events
  <2>2. CASE i \in 1..m
    BY <1>1, <2>1, <2>2 DEF Signals, Events, m
  <2>3. CASE i - m \in 1..Len(t)
    <3>1. m + (i - m) = i
      BY <1>1, <2>1
    <3>2. t[i - m] = u[i]
      BY <1>1, <2>3, <3>1
    <3> QED
      BY <2>1, <2>3, <3>1, <3>2 DEF Signals, Events
  <2> QED
    BY <1>1, <2>1, <2>2, <2>3
<1>5. a \in Nat /\ b \in Nat /\ c \in Nat /\ a <= b /\ b <= c
  BY DEF Numbered
<1>6. \A i \in Signals(s) : s[i].n \in (a + 1)..b
  BY DEF Numbered
<1>7. \A i \in Signals(t) : t[i].n \in (b + 1)..c
  BY DEF Numbered
<1>8. \A i \in Signals(u) : \/ i \in Signals(s) /\ u[i].n \in (a + 1)..b /\ i \in 1..m
                            \/ i - m \in Signals(t) /\ u[i].n \in (b + 1)..c /\ i - m \in 1..Len(t)
  BY <1>2, <1>3, <1>4, <1>6, <1>7
<1>9. \A i \in Signals(u) : u[i].n \in (a + 1)..c
  BY <1>5, <1>8
<1>10. ASSUME NEW i \in Signals(u), NEW j \in Signals(u), i < j PROVE u[i].n < u[j].n
  <2>1. CASE i \in Signals(s) /\ j \in Signals(s)
    BY <1>2, <1>10, <2>1 DEF Numbered
  <2>2. CASE u[i].n \in (a + 1)..b /\ u[j].n \in (b + 1)..c
    BY <1>5, <2>2
  <2>3. CASE i - m \in 1..Len(t) /\ j \in 1..m
    BY <1>1, <1>10, <2>3 DEF Signals, Events
  <2>4. CASE i - m \in Signals(t) /\ j - m \in Signals(t)
    <3>1. i - m < j - m /\ m + (i - m) = i /\ m + (j - m) = j
      BY <1>1, <1>10 DEF Signals, Events
    <3> QED
      BY <1>3, <2>4, <3>1 DEF Numbered
  <2> QED
    BY <1>8, <2>1, <2>2, <2>3, <2>4
<1>11. ASSUME NEW k \in (a + 1)..c PROVE \E i \in Signals(u) : u[i].n = k
  <2>1. CASE k <= b
    <3>1. k \in (a + 1)..b
      BY <1>5, <2>1
    <3>2. PICK i \in Signals(s) : s[i].n = k
      BY <3>1 DEF Numbered
    <3> QED
      BY <1>2, <3>2
  <2>2. CASE k > b
    <3>1. k \in (b + 1)..c
      BY <1>5, <2>2
    <3>2. PICK i \in Signals(t) : t[i].n = k
      BY <3>1 DEF Numbered
    <3> QED
      BY <1>3, <3>2
  <2> QED
    BY <1>5, <2>1, <2>2
<1>12. Numbered(u, a, c)
  BY <1>5, <1>9, <1>10, <1>11 DEF Numbered
<1> QED
  BY <1>12 DEF u

\* An event at the end.
LEMMA EventAppended ==
  ASSUME NEW s \in Seq(Event), NEW e \in Event
  PROVE  <<e>> \in Seq(Event) /\ Append(s, e) = s \o <<e>> /\ Len(<<e>>) = 1 /\ <<e>>[1] = e
  OBVIOUS

\* An event that is no signal leaves the numbers as they are.
LEMMA NumberedAppend ==
  ASSUME NEW s \in Seq(Event), NEW e \in Event, e.t # "Signaled", NEW a, NEW b, Numbered(s, a, b)
  PROVE  Numbered(Append(s, e), a, b)
<1> DEFINE t == <<e>>
<1>1. t \in Seq(Event) /\ Append(s, e) = s \o t /\ Len(t) = 1 /\ t[1] = e
  BY EventAppended
<1> HIDE DEF t
<1>2. NoSignals(t) /\ b \in Nat
  BY <1>1 DEF NoSignals, Numbered
<1> QED
  BY <1>1, <1>2, NumberedNothing, NumberedConcat

\* A signal takes the next number.
LEMMA NumberedSignal ==
  ASSUME NEW s \in Seq(Event), NEW a, NEW b, Numbered(s, a, b)
  PROVE  Numbered(Append(s, Signaled(b + 1)), a, b + 1)
<1> DEFINE e == Signaled(b + 1)
           t == <<e>>
<1>0. b \in Nat
  BY DEF Numbered
<1>1. e \in Event /\ e.t = "Signaled" /\ e.n = b + 1
  BY <1>0, SignaledIs DEF Signaled, Entry
<1> HIDE DEF e
<1>2. t \in Seq(Event) /\ Append(s, e) = s \o t /\ Len(t) = 1 /\ t[1] = e
  BY <1>1, EventAppended
<1> HIDE DEF t
<1>3. Signals(t) = {1}
  BY <1>1, <1>2 DEF Signals, Events
<1>4. (b + 1)..(b + 1) = {b + 1}
  BY <1>0
<1>5. Numbered(t, b, b + 1)
  BY <1>0, <1>1, <1>2, <1>3, <1>4 DEF Numbered
<1> QED
  BY <1>2, <1>5, NumberedConcat DEF e

\* Taking back a last event that is no signal leaves the numbers as they are.
LEMMA NumberedFront ==
  ASSUME NEW s \in Seq(Event), Len(s) > 0, s[Len(s)].t # "Signaled", NEW a, NEW b, Numbered(s, a, b)
  PROVE  /\ SubSeq(s, 1, Len(s) - 1) \in Seq(Event)
         /\ Numbered(SubSeq(s, 1, Len(s) - 1), a, b)
<1> DEFINE t == SubSeq(s, 1, Len(s) - 1)
<1>1. /\ t \in Seq(Event) /\ Len(t) = Len(s) - 1 /\ Len(s) \in Nat
      /\ \A i \in 1..Len(t) : t[i] = s[i]
  <2> DEFINE n == Len(s) - 1
  <2>1. n \in Nat /\ 1 \in Int /\ n \in Int /\ \A i \in 1..n : s[i] \in Event
    OBVIOUS
  <2> HIDE DEF n
  <2>2. /\ SubSeq(s, 1, n) \in Seq(Event) /\ Len(SubSeq(s, 1, n)) = n
        /\ \A i \in 1..n : SubSeq(s, 1, n)[i] = s[i]
    BY <2>1, SubSeqProperties
  <2> QED
    BY <2>1, <2>2 DEF n
<1> HIDE DEF t
<1>2. \A i : i \in Signals(t) <=> i \in Signals(s)
  BY <1>1 DEF Signals, Events
<1>3. \A i \in Signals(t) : t[i] = s[i]
  BY <1>1 DEF Signals, Events
<1>4. Numbered(t, a, b)
  BY <1>2, <1>3 DEF Numbered
<1> QED
  BY <1>1, <1>4 DEF t

\* What a step of the function may do with the signals: nothing, or receive the
\* first that waits.
Heeds(r, q) == Silent(r, q) \/ Hears(r, q)

\* Every call of the SDK does one of the two.
LEMMA BodyStepHeeds ==
  ASSUME TypeInv, BodyStep
  PROVE  Heeds(runner, runner') /\ (pc' = "body" => runner'.done = "nil")
<1>1. pc = "body" /\ RunnerOK(runner)
  BY BodyStepEffect
<1>2. RunnerOK(runner) /\ HasFields(runner)
  BY <1>1, RunnerHasFields
<1> DEFINE Goal == Heeds(runner, runner') /\ (pc' = "body" => runner'.done = "nil")
<1> SUFFICES Goal
  OBVIOUS
<1>3. ASSUME NEW q, Step(q), Heeds(runner, q)
      PROVE  Goal
  BY <1>3, Zenon DEF Step
<1>4. /\ "nil" \in Names /\ Types \subseteq Names /\ Values \subseteq Data /\ Outcomes \subseteq Data
      /\ Targets \subseteq Int /\ Versions \subseteq Int /\ 0 \in Int /\ OpKinds =
         {"Activity", "Timer", "ChildWorkflow", "NexusOperation"}
  BY HandlerAssumption DEF Names, Data, OpKinds
<1> HIDE DEF Goal
<1>5. CASE CallScheduleActivity
  <2>1. PICK v \in Types : Step(Schedule(runner, "Activity", v))
    BY <1>5, Zenon DEF CallScheduleActivity, ScheduleActivity
  <2>2. Heeds(runner, Schedule(runner, "Activity", v))
    BY <1>2, <1>4, ScheduleSilent DEF Heeds
  <2> QED
    BY <1>3, <2>1, <2>2
<1>6. CASE CallStartTimer
  <2>1. Step(Schedule(runner, "Timer", "nil"))
    BY <1>6, Zenon DEF CallStartTimer, StartTimer
  <2>2. Heeds(runner, Schedule(runner, "Timer", "nil"))
    BY <1>2, <1>4, ScheduleSilent DEF Heeds
  <2> QED
    BY <1>3, <2>1, <2>2
<1>7. CASE CallStartChildWorkflow
  <2>1. PICK v \in Types : Step(Schedule(runner, "ChildWorkflow", v))
    BY <1>7, Zenon DEF CallStartChildWorkflow, StartChildWorkflow
  <2>2. Heeds(runner, Schedule(runner, "ChildWorkflow", v))
    BY <1>2, <1>4, ScheduleSilent DEF Heeds
  <2> QED
    BY <1>3, <2>1, <2>2
<1>8. CASE CallScheduleNexusOperation
  <2>1. Step(Schedule(runner, "NexusOperation", "nil"))
    BY <1>8, Zenon DEF CallScheduleNexusOperation, ScheduleNexusOperation
  <2>2. Heeds(runner, Schedule(runner, "NexusOperation", "nil"))
    BY <1>2, <1>4, ScheduleSilent DEF Heeds
  <2> QED
    BY <1>3, <2>1, <2>2
<1>9. CASE CallCancel
  <2>1. PICK f \in Futures : Step(Cancel(runner, f))
    BY <1>9, Zenon DEF CallCancel
  <2>2. Heeds(runner, Cancel(runner, f))
    BY <1>2, FuturesAre, CancelSilent DEF Heeds
  <2> QED
    BY <1>3, <2>1, <2>2
<1>10. CASE CallCancelExternalWorkflow
  <2>1. PICK id \in Targets : Step(CancelExternalWorkflow(runner, id))
    BY <1>10, Zenon DEF CallCancelExternalWorkflow
  <2>2. Heeds(runner, CancelExternalWorkflow(runner, id))
    BY <1>2, <1>4, CancelExternalWorkflowSilent DEF Heeds
  <2> QED
    BY <1>3, <2>1, <2>2
<1>11. CASE CallSignalExternalWorkflow
  <2>1. PICK id \in Targets : Step(SendCounted(runner, "SignalExternalWorkflow", id))
    BY <1>11, Zenon DEF CallSignalExternalWorkflow, SignalExternalWorkflow
  <2>2. Heeds(runner, SendCounted(runner, "SignalExternalWorkflow", id))
    BY <1>2, <1>4, SendCountedSilent DEF Heeds
  <2> QED
    BY <1>3, <2>1, <2>2
<1>12. CASE CallUpsertSearchAttributes
  <2>1. Step(SendCounted(runner, "UpsertSearchAttributes", 0))
    BY <1>12, Zenon DEF CallUpsertSearchAttributes, UpsertSearchAttributes
  <2>2. Heeds(runner, SendCounted(runner, "UpsertSearchAttributes", 0))
    BY <1>2, <1>4, SendCountedSilent DEF Heeds
  <2> QED
    BY <1>3, <2>1, <2>2
<1>13. CASE CallSideEffect
  <2>1. PICK live \in Values : Step(MarkedCall(runner, "SideEffect", live))
    BY <1>13, Zenon DEF CallSideEffect, SideEffect
  <2>2. Heeds(runner, MarkedCall(runner, "SideEffect", live))
    BY <1>2, <1>4, MarkedCallSilent DEF Heeds
  <2> QED
    BY <1>3, <2>1, <2>2
<1>14. CASE CallLocalActivity
  <2>1. PICK live \in Outcomes \cup LocalErrors : Step(ExecuteLocalActivity(runner, live))
    BY <1>14, Zenon DEF CallLocalActivity
  <2>0. live \in Data \cup {"NotRegisteredError"}
    BY HandlerAssumption DEF Data
  <2>2. Heeds(runner, ExecuteLocalActivity(runner, live))
    BY <1>2, <2>0, LocalActivitySilent DEF Heeds
  <2> QED
    BY <1>3, <2>1, <2>2
<1>15. CASE CallGetVersion
  <2>1. PICK id \in Ids, min \in Versions, max \in Versions : Step(GetVersion(runner, id, min, max))
    BY <1>15, Zenon DEF CallGetVersion
  <2>2. Heeds(runner, GetVersion(runner, id, min, max))
    BY <1>2, <1>4, GetVersionSilent DEF Heeds
  <2> QED
    BY <1>3, <2>1, <2>2
<1>16. CASE CallMutableSideEffect
  <2>1. PICK id \in Ids, live \in Values : Step(MutableSideEffect(runner, id, live))
    BY <1>16, Zenon DEF CallMutableSideEffect
  <2>2. Heeds(runner, MutableSideEffect(runner, id, live))
    BY <1>2, <1>4, MutableSideEffectSilent DEF Heeds
  <2> QED
    BY <1>3, <2>1, <2>2
<1>17. CASE CallGet
  <2>1. PICK f \in Waitables : Step(Get(runner, f))
    BY <1>17, Zenon DEF CallGet
  <2>2. Heeds(runner, Get(runner, f))
    BY <1>2, WaitablesAre, GetHears DEF Heeds
  <2> QED
    BY <1>3, <2>1, <2>2
<1>18. CASE CallSelect
  <2>1. PICK cases \in Waitables \X Waitables :
           ReadyCases(runner, cases) # {} /\ Step(Select(runner, cases))
    BY <1>18, Zenon DEF CallSelect
  <2>2. PICK a \in Waitables, b \in Waitables : cases = <<a, b>>
    OBVIOUS
  <2>3. Heeds(runner, Select(runner, <<a, b>>))
    <3>1. IsWaitable(runner, a) /\ IsWaitable(runner, b)
      BY <1>2, WaitablesAre
    <3> QED
      BY <1>2, <2>1, <2>2, <3>1, SelectHears DEF Heeds
  <2> QED
    BY <1>3, <2>1, <2>2, <2>3
<1>19. CASE CallReceiveAsync
  <2>1. Step(TryConsumeSignal(runner))
    BY <1>19, Zenon DEF CallReceiveAsync
  <2> QED
    BY <1>2, <1>3, <2>1, TryConsumeSignalHears DEF Heeds
<1>20. CASE ReadUpdates
  <2>1. Step(Observe(runner, "updates", runner.updates))
    BY <1>20, Zenon DEF ReadUpdates
  <2>2. runner.updates \in Int
    BY <1>2 DEF RunnerOK, Runner
  <2>3. "updates" \in Seen /\ "updates" # "signal"
    BY NoSignal
  <2>4. Heeds(runner, Observe(runner, "updates", runner.updates))
    BY <1>2, <2>2, <2>3, ObserveSilent DEF Heeds
  <2> QED
    BY <1>3, <2>1, <2>4
<1>21. CASE Return
  <2>1. PICK kind \in TerminalKinds : Step(Finish(runner, kind))
    BY <1>21, Zenon DEF Return
  <2> QED
    BY <1>2, <1>3, <2>1, FinishSilent DEF Heeds
<1>22. CASE Park
  <2>1. Heeds(runner, runner)
    BY <1>2, SilentReflexive DEF Heeds
  <2> QED
    BY <1>22, <2>1, Zenon DEF Park, Goal
<1> QED
  BY <1>5, <1>6, <1>7, <1>8, <1>9, <1>10, <1>11, <1>12, <1>13, <1>14, <1>15, <1>16, <1>17, <1>18,
     <1>19, <1>20, <1>21, <1>22, Zenon DEF BodyStep

\* Following a history is following what it grows into.
LEMMA FollowsOn ==
  ASSUME NEW r, RunnerOK(r), NEW h \in Seq(Event), NEW g \in Seq(Event), Len(h) <= Len(g),
         \A i \in 1..Len(h) : g[i] = h[i], RecvOK(r, h)
  PROVE  RecvOK(r, g)
<1>1. Len(r.events) \in Nat /\ Len(h) \in Nat /\ Len(g) \in Nat
  BY DEF RunnerOK, Runner
<1>2. Follows(r, g)
  BY <1>1 DEF RecvOK, Follows
<1> QED
  BY <1>2 DEF RecvOK

\* The history a runner follows is ordered.
LEMMA RunnerOrdered ==
  ASSUME TypeInv, SigInv, NEW r, RunnerOK(r), Follows(r, history)
  PROVE  Ordered(r.events)
<1>1. PICK a \in 0..sent.signal : Numbered(history, 0, a)
  BY DEF SigInv, SignalsNumbered
<1>2. history \in Seq(Event) /\ r.events \in Seq(Event)
  BY DEF TypeInv, TypeOK, RunnerOK, Runner
<1> QED
  BY <1>1, <1>2, FollowsOrdered DEF Follows

\* A step that heeds the signals keeps the order of those received.
LEMMA HeedsKeeps ==
  ASSUME TypeInv, SigInv, NEW r, RunnerOK(r), RecvOK(r, history), r.done = "nil", NEW q, Heeds(r, q)
  PROVE  RecvOK(q, history) /\ TimelineLeft(q) = TimelineLeft(r)
<1>1. InOrder(r.obs) /\ Mailbox(r) /\ Ordered(r.events) /\ OnlyCommands(r.commands)
  BY RunnerOrdered DEF RecvOK
<1>2. InOrder(q.obs) /\ Mailbox(q) /\ TimelineLeft(q) = TimelineLeft(r)
  BY <1>1, SilentKeeps, HearsKeeps DEF Heeds
<1>3. q.events = r.events /\ OnlyCommands(q.commands)
  BY <1>1 DEF Heeds, Silent, Hears, SameSignals
<1> QED
  BY <1>2, <1>3 DEF RecvOK, Follows

\* A step of the function keeps the invariant.
LEMMA BodyReceives == ASSUME TypeInv, SigInv, BodyStep PROVE SigInv'
<1>1. /\ pc = "body" /\ RunnerOK(runner)
      /\ pc' \in {"body", "parked", "respond"} /\ (fresh => pc' # "respond")
      /\ UNCHANGED <<server, clients, code, task, fresh, cache, acked, faults>>
  BY BodyStepEffect
<1>2. Heeds(runner, runner') /\ (pc' = "body" => runner'.done = "nil")
  BY BodyStepHeeds
<1>3. runner # NoRunner /\ RecvOK(runner, history) /\ runner.done = "nil"
  BY <1>1, RunnerOKIsRunner DEF SigInv, RunnerReceives
<1>4. RecvOK(runner', history) /\ TimelineLeft(runner') = TimelineLeft(runner)
  BY <1>1, <1>2, <1>3, HeedsKeeps
<1>5. UNCHANGED <<history, buffered, wft, sticky, sent, fresh, cache>>
  BY <1>1 DEF server, clients
<1>6. SignalsNumbered'
  BY <1>5 DEF SigInv, SignalsNumbered
<1>7. RunnerReceives'
  <2>1. ~fresh => Caught(runner')
    BY <1>1, <1>3, <1>4 DEF SigInv, RunnerReceives, Caught, Working
  <2> QED
    BY <1>1, <1>2, <1>4, <1>5, <2>1 DEF RunnerReceives, Working
<1>8. CacheReceives' /\ TaskIsSticky'
  BY <1>1, <1>5 DEF SigInv, CacheReceives, TaskIsSticky
<1> QED
  BY <1>6, <1>7, <1>8 DEF SigInv

\* Nothing is numbered in an empty sequence.
LEMMA NumberedEmpty ==
  ASSUME NEW a, NEW b, Numbered(<< >>, a, b) PROVE a = b
<1>1. Signals(<< >>) = {}
  BY DEF Signals, Events
<1>2. a \in Nat /\ b \in Nat /\ a <= b /\ ~ (a + 1 \in (a + 1)..b)
  BY <1>1 DEF Numbered
<1> QED
  BY <1>2

\* The history and the buffer together hold all the signals sent.
LEMMA AllNumbered ==
  ASSUME TypeInv, SigInv, NEW h \in Seq(Event),
         \A a : Numbered(history, 0, a) => Numbered(h, 0, a)
  PROVE  Numbered(h \o buffered, 0, sent.signal)
<1>1. PICK a \in 0..sent.signal : Numbered(history, 0, a) /\ Numbered(buffered, a, sent.signal)
  BY DEF SigInv, SignalsNumbered
<1>2. buffered \in Seq(Event) /\ Numbered(h, 0, a)
  BY <1>1 DEF TypeInv, TypeOK
<1> QED
  BY <1>1, <1>2, NumberedConcat

\* The numbering, once the buffer is empty and no task is started.
LEMMA NumberedAgain ==
  ASSUME TypeInv, Numbered(history', 0, sent'.signal), buffered' = << >>, wft' # "started"
  PROVE  SignalsNumbered'
<1>1. sent'.signal \in Nat
  BY DEF Numbered
<1>2. << >> \in Seq(Event) /\ NoSignals(<< >>)
  BY DEF NoSignals
<1>3. Numbered(<< >>, sent'.signal, sent'.signal)
  BY <1>1, <1>2, NumberedNothing
<1>4. sent'.signal \in 0..sent'.signal
  BY <1>1
<1> QED
  BY <1>3, <1>4 DEF SignalsNumbered

\* A failed task leaves the signals numbered, and no runner.
LEMMA FailedReceives ==
  ASSUME TypeInv, SigInv, wft = "started", TaskFailed, pc' = "idle", runner' = NoRunner
  PROVE  SigInv'
<1> DEFINE failed == Append(history, Plain("WorkflowTaskFailed"))
           dropped == SubSeq(history, 1, Len(history) - 1)
<1>1. history \in Seq(Event)
  BY DEF TypeInv, TypeOK
<1>2. /\ failed \in Seq(Event)
      /\ \A a : Numbered(history, 0, a) => Numbered(failed, 0, a)
  <2>1. Plain("WorkflowTaskFailed") \in Event /\ Plain("WorkflowTaskFailed").t # "Signaled"
    BY PlainIs DEF EventTypes
  <2> QED
    BY <1>1, <2>1, AppendedHistory, NumberedAppend
<1>3. /\ dropped \in Seq(Event)
      /\ \A a : Numbered(history, 0, a) => Numbered(dropped, 0, a)
  <2>1. Len(history) > 0 /\ history[Len(history)].t # "Signaled"
    BY DEF SigInv, SignalsNumbered
  <2>2. dropped \in Seq(Event)
    BY <1>1
  <2> QED
    BY <1>1, <2>1, <2>2, NumberedFront
<1>4. history' = (IF attempt = 1 THEN failed ELSE dropped) \o buffered
  BY Zenon DEF TaskFailed
<1> HIDE DEF failed, dropped
<1>5. Numbered(history', 0, sent.signal)
  BY <1>2, <1>3, <1>4, AllNumbered
<1>6. buffered' = << >> /\ wft' = "pending" /\ sticky' = FALSE /\ sent' = sent
  BY DEF TaskFailed
<1>7. SignalsNumbered'
  BY <1>5, <1>6, NumberedAgain
<1> QED
  BY <1>6, <1>7 DEF SigInv, RunnerReceives, CacheReceives, TaskIsSticky, Working

\* A sequence is the beginning of what is appended to it.
LEMMA AppendFollows ==
  ASSUME NEW h \in Seq(Event), NEW e \in Event
  PROVE  /\ Append(h, e) \in Seq(Event) /\ Len(h) <= Len(Append(h, e))
         /\ Len(Append(h, e)) > 0 /\ Append(h, e)[Len(Append(h, e))] = e
         /\ \A i \in 1..Len(h) : Append(h, e)[i] = h[i]
  OBVIOUS

\* An event that arrives and keeps the numbering keeps the invariant.
LEMMA AddEventReceives ==
  ASSUME TypeInv, SigInv, NEW e \in Event, AddEvent(e),
         \A s \in Seq(Event) : \A a : Numbered(s, a, sent.signal)
                                  => Numbered(Append(s, e), a, sent'.signal)
  PROVE  SigInv'
<1>1. /\ UNCHANGED <<sticky, pc, task, runner, fresh, cache>>
      /\ history \in Seq(Event) /\ buffered \in Seq(Event)
  BY DEF AddEvent, handler, TypeInv, TypeOK
<1>2. PICK a \in 0..sent.signal : Numbered(history, 0, a) /\ Numbered(buffered, a, sent.signal)
  BY DEF SigInv, SignalsNumbered
<1>3. CASE wft = "started"
  <2>1. buffered' = Append(buffered, e) /\ UNCHANGED <<history, wft>>
    BY <1>3 DEF AddEvent
  <2>2. Numbered(buffered', a, sent'.signal)
    BY <1>1, <1>2, <2>1
  <2>3. a \in 0..sent'.signal
    BY <1>2, <2>2 DEF Numbered
  <2>4. SignalsNumbered'
    BY <1>2, <1>3, <2>1, <2>2, <2>3 DEF SigInv, SignalsNumbered
  <2> QED
    BY <1>1, <2>1, <2>4 DEF SigInv, RunnerReceives, CacheReceives, TaskIsSticky, Working
<1>4. CASE wft # "started"
  <2>1. /\ history' = Append(history, e) /\ wft' = "pending" /\ buffered' = buffered
        /\ buffered = << >> /\ pc = "idle"
    BY <1>4 DEF AddEvent, TypeInv, TaskOK, SigInv, SignalsNumbered
  <2>2. a = sent.signal
    BY <1>2, <2>1, NumberedEmpty
  <2>3. Numbered(history', 0, sent'.signal)
    BY <1>1, <1>2, <2>1, <2>2
  <2>4. SignalsNumbered'
    BY <2>1, <2>3, NumberedAgain
  <2>5. RunnerReceives'
    BY <1>1, <2>1 DEF SigInv, RunnerReceives, Working
  <2>6. CacheReceives'
    <3> SUFFICES ASSUME sticky, cache # NoRunner PROVE RecvOK(cache, history') /\ Caught(cache)
      BY <1>1 DEF CacheReceives
    <3>1. RecvOK(cache, history) /\ Caught(cache) /\ RunnerOK(cache)
      BY DEF SigInv, CacheReceives, TypeInv, RunnersOK
    <3>2. /\ history' \in Seq(Event) /\ Len(history) <= Len(history')
          /\ \A i \in 1..Len(history) : history'[i] = history[i]
      BY <1>1, <2>1, AppendFollows
    <3> QED
      BY <1>1, <3>1, <3>2, FollowsOn
  <2> QED
    BY <1>1, <2>4, <2>5, <2>6 DEF SigInv, TaskIsSticky
<1> QED
  BY <1>3, <1>4

\* The server's and the clients' actions keep the invariant.
LEMMA ServerReceives ==
  ASSUME TypeInv, SigInv, Server \/ Client PROVE SigInv'
<1>1. history \in Seq(Event) /\ sent \in [signal : Nat, update : Nat, cancel : Nat]
  BY DEF TypeInv, TypeOK
<1>2. ASSUME NEW e \in Event, e.t # "Signaled", AddEvent(e), sent'.signal = sent.signal
      PROVE  SigInv'
  <2>1. \A s \in Seq(Event) : \A a : Numbered(s, a, sent.signal)
                                  => Numbered(Append(s, e), a, sent'.signal)
    BY <1>2, NumberedAppend
  <2> QED
    BY <1>2, <2>1, AddEventReceives
<1>3. CASE ResolveOp
  <2>1. PICK e \in Event : e.t = "Resolved" /\ AddEvent(e)
    BY <1>3, ResolveOpAdds
  <2>2. UNCHANGED sent
    BY <1>3, ResolveOpAdds
  <2> QED
    BY <1>2, <2>1, <2>2
<1>4. CASE Poll
  <2> DEFINE e == Plain("WorkflowTaskStarted")
  <2>1. e \in Event /\ e.t = "WorkflowTaskStarted"
    BY PlainIs DEF EventTypes
  <2>2. /\ wft = "pending" /\ pc = "idle" /\ pc' = "polled" /\ wft' = "started"
        /\ history' = Append(history, e)
        /\ UNCHANGED <<buffered, sticky, sent, runner, fresh, cache>>
    BY <1>4 DEF Poll
  <2>7. TaskIsSticky'
    <3>1. PICK upto : task' = [first |-> IF sticky THEN prevStarted + 1 ELSE 1, upto |-> upto,
                               updates |-> messages]
      BY <1>4 DEF Poll
    <3> QED
      BY <2>2, <3>1 DEF TaskIsSticky
  <2> HIDE DEF e
  <2>3. /\ history' \in Seq(Event) /\ Len(history) <= Len(history')
        /\ Len(history') > 0 /\ history'[Len(history')] = e
        /\ \A i \in 1..Len(history) : history'[i] = history[i]
    BY <1>1, <2>1, <2>2, AppendFollows
  <2>4. SignalsNumbered'
    <3>1. PICK a \in 0..sent.signal : Numbered(history, 0, a) /\ Numbered(buffered, a, sent.signal)
      BY DEF SigInv, SignalsNumbered
    <3>2. Numbered(history', 0, a)
      BY <1>1, <2>1, <2>2, <3>1, NumberedAppend
    <3> QED
      BY <2>1, <2>2, <2>3, <3>1, <3>2 DEF SignalsNumbered
  <2>5. RunnerReceives'
    BY <2>2 DEF SigInv, RunnerReceives, Working
  <2>6. CacheReceives'
    <3> SUFFICES ASSUME sticky, cache # NoRunner PROVE RecvOK(cache, history') /\ Caught(cache)
      BY <2>2 DEF CacheReceives
    <3>1. RecvOK(cache, history) /\ Caught(cache) /\ RunnerOK(cache)
      BY DEF SigInv, CacheReceives, TypeInv, RunnersOK
    <3> QED
      BY <1>1, <2>3, <3>1, FollowsOn
  <2> QED
    BY <2>4, <2>5, <2>6, <2>7 DEF SigInv
<1>5. CASE TaskTimeout
  <2>1. wft = "started" /\ TaskFailed /\ pc' = "idle" /\ runner' = runner /\ pc = "idle"
    BY <1>5 DEF TaskTimeout, handler
  <2>2. runner = NoRunner
    BY <2>1 DEF SigInv, RunnerReceives, Working
  <2> QED
    BY <2>1, <2>2, FailedReceives
<1>6. CASE StickyTimeout
  <2>1. pc # "polled"
    BY <1>6 DEF StickyTimeout, TypeInv, TaskOK
  <2> QED
    BY <1>6, <2>1 DEF StickyTimeout, handler, SigInv, SignalsNumbered, RunnerReceives,
       CacheReceives, TaskIsSticky, Working
<1>7. CASE SignalWorkflow
  <2> DEFINE e == Signaled(sent.signal + 1)
  <2>1. sent'.signal = sent.signal + 1 /\ AddEvent(e)
    BY <1>1, <1>7 DEF SignalWorkflow
  <2>2. e \in Event
    BY <1>1, SignaledIs
  <2>3. \A s \in Seq(Event) : \A a : Numbered(s, a, sent.signal)
                                  => Numbered(Append(s, e), a, sent'.signal)
    BY <2>1, NumberedSignal
  <2> HIDE DEF e
  <2> QED
    BY <2>1, <2>2, <2>3, AddEventReceives
<1>8. CASE CancelWorkflow
  <2>1. Plain("CancelRequested") \in Event /\ Plain("CancelRequested").t # "Signaled"
    BY PlainIs DEF EventTypes
  <2>2. sent'.signal = sent.signal /\ AddEvent(Plain("CancelRequested"))
    BY <1>1, <1>8 DEF CancelWorkflow
  <2> QED
    BY <1>2, <2>1, <2>2
<1>9. CASE UpdateWorkflow
  <2>1. /\ sent'.signal = sent.signal /\ (wft' = "started" <=> wft = "started")
        /\ UNCHANGED <<history, buffered, sticky, pc, task, runner, fresh, cache>>
    BY <1>1, <1>9 DEF UpdateWorkflow, handler
  <2> QED
    BY <2>1 DEF SigInv, SignalsNumbered, RunnerReceives, CacheReceives, TaskIsSticky, Working
<1> QED
  BY <1>3, <1>4, <1>5, <1>6, <1>7, <1>8, <1>9 DEF Server, Client

\* A part that holds no signals leaves the numbers and what came before as they are.
LEMMA NumberedThen ==
  ASSUME NEW h \in Seq(Event), NEW t \in Seq(Event), NoSignals(t)
  PROVE  /\ h \o t \in Seq(Event)
         /\ \A a : Numbered(h, 0, a) => Numbered(h \o t, 0, a)
<1>1. ASSUME NEW a, Numbered(h, 0, a) PROVE Numbered(h \o t, 0, a)
  <2>1. a \in Nat
    BY <1>1 DEF Numbered
  <2>2. Numbered(t, a, a)
    BY <2>1, NumberedNothing
  <2> QED
    BY <1>1, <2>2, NumberedConcat
<1>2. h \o t \in Seq(Event)
  OBVIOUS
<1> QED
  BY <1>1, <1>2

\* h is the beginning of g.
Begins(h, g) == g \in Seq(Event) /\ Len(h) <= Len(g) /\ \A i \in 1..Len(h) : g[i] = h[i]

\* It stays so when g goes on.
LEMMA BeginsConcat ==
  ASSUME NEW h \in Seq(Event), NEW g, Begins(h, g), NEW t \in Seq(Event)
  PROVE  Begins(h, g \o t)
<1>1. g \in Seq(Event) /\ Len(h) \in Nat /\ Len(g) \in Nat
  BY DEF Begins
<1>2. /\ g \o t \in Seq(Event) /\ Len(g) <= Len(g \o t) /\ Len(g \o t) \in Nat
      /\ \A i \in 1..Len(g) : (g \o t)[i] = g[i]
  BY <1>1
<1> QED
  BY <1>1, <1>2 DEF Begins

\* A completed task leaves the signals numbered; the history goes on.
LEMMA CompletedReceives ==
  ASSUME TypeInv, SigInv, NEW cmds \in Seq(Event), OnlyCommands(cmds), NEW answered,
         NEW n \in Nat, NEW final \in Seq(Event), OnlyCommands(final), NEW queue,
         TaskCompleted(cmds, answered, n, final, queue)
  PROVE  SignalsNumbered' /\ Begins(history, history')
<1> DEFINE updates == [i \in 1..n |-> Plain("UpdateAccepted")]
           done    == Append(history, Plain("WorkflowTaskCompleted"))
           a       == done \o cmds
           b       == a \o updates
           c       == b \o final
           Keeps(h) == /\ h \in Seq(Event) /\ Begins(history, h)
                       /\ \A k : Numbered(history, 0, k) => Numbered(h, 0, k)
<1>1. history \in Seq(Event) /\ buffered \in Seq(Event)
  BY DEF TypeInv, TypeOK
<1>2. /\ Plain("UpdateAccepted") \in Event /\ Plain("UpdateAccepted").t # "Signaled"
      /\ Plain("WorkflowTaskCompleted") \in Event
      /\ Plain("WorkflowTaskCompleted").t # "Signaled"
  BY PlainIs DEF EventTypes
<1>3. updates \in Seq(Event) /\ NoSignals(updates)
  BY <1>2 DEF NoSignals
<1>4. NoSignals(cmds) /\ NoSignals(final)
  BY DEF NoSignals, OnlyCommands
<1>5. history' = c \o buffered /\ buffered' = << >> /\ wft' # "started" /\ sent' = sent
  BY Zenon DEF TaskCompleted
<1> HIDE DEF updates
<1>6. Keeps(done)
  <2>1. done \in Seq(Event) /\ Begins(history, done)
    BY <1>1, <1>2, AppendFollows DEF Begins
  <2>2. \A k : Numbered(history, 0, k) => Numbered(done, 0, k)
    BY <1>1, <1>2, NumberedAppend
  <2> QED
    BY <2>1, <2>2
<1>7. ASSUME NEW h, Keeps(h), NEW t \in Seq(Event), NoSignals(t) PROVE Keeps(h \o t)
  BY <1>1, <1>7, NumberedThen, BeginsConcat
<1> HIDE DEF Keeps, done
<1>8. Keeps(a)
  BY <1>4, <1>6, <1>7
<1> HIDE DEF a
<1>9. Keeps(b)
  BY <1>3, <1>7, <1>8
<1> HIDE DEF b
<1>10. Keeps(c)
  BY <1>4, <1>7, <1>9
<1> HIDE DEF c
<1>11. Numbered(c \o buffered, 0, sent.signal)
  BY <1>10, AllNumbered DEF Keeps
<1>12. Begins(history, c \o buffered)
  BY <1>1, <1>10, BeginsConcat DEF Keeps
<1>13. SignalsNumbered'
  BY <1>5, <1>11, NumberedAgain
<1> QED
  BY <1>5, <1>12, <1>13

\* The terminal command is a command.
LEMMA FinalIsCommand == ASSUME RunnerOK(runner) PROVE OnlyCommands(Final)
<1> DEFINE e == Command(runner.done, 0, "nil")
<1>1. CASE runner.done = "nil"
  BY <1>1 DEF Final, OnlyCommands
<1>2. CASE runner.done # "nil"
  <2>1. e.t = "Command"
    BY DEF Command, Entry
  <2>2. Final = <<e>>
    BY <1>2 DEF Final
  <2> HIDE DEF e
  <2> QED
    BY <2>1, <2>2 DEF OnlyCommands
<1> QED
  BY <1>1, <1>2

\* The runner that answers keeps its signals for the cache.
LEMMA RespondingReceives ==
  ASSUME RunnerOK(runner), NEW n \in Nat, NEW h, RecvOK(runner, h), Caught(runner)
  PROVE  RecvOK(Responding(n), h) /\ Caught(Responding(n))
<1> DEFINE q == Responding(n)
           u == runner.updates + n
<1>1. q = [runner EXCEPT !.updates = u]
  BY Zenon DEF Responding
<1>2. Silent(runner, [runner EXCEPT !.updates = @ + n])
  BY RunnerHasFields, UpdatesSilent
<1>3. Silent(runner, q)
  BY <1>2, Zenon DEF Responding
<1> HIDE DEF u
<1>4. q.done = runner.done
  BY <1>1 DEF RunnerOK, Runner
<1> HIDE DEF q
<1>5. /\ InOrder(runner.obs) => InOrder(q.obs)
      /\ Mailbox(runner) => Mailbox(q)
      /\ TimelineLeft(q) = TimelineLeft(runner)
  BY <1>3, SilentKeeps
<1>6. /\ q.events = runner.events
      /\ OnlyCommands(runner.commands) => OnlyCommands(q.commands)
  BY <1>3 DEF Silent, SameSignals
<1>7. RecvOK(q, h) /\ Caught(q)
  BY <1>4, <1>5, <1>6 DEF RecvOK, Caught, Follows
<1> QED
  BY <1>7 DEF q

\* The history a handler has assembled is a beginning of the run's.
LEMMA AssembledIs ==
  ASSUME TypeInv, SigInv, pc = "polled"
  PROVE  /\ Assembled \in Seq(Event) /\ Len(Assembled) = task.upto /\ task.upto <= Len(history)
         /\ \A i \in 1..task.upto : Assembled[i] = history[i]
         /\ Ordered(Assembled)
<1> DEFINE n == task.upto
<1>1. history \in Seq(Event) /\ n \in Nat /\ n <= Len(history) /\ Len(history) \in Nat
  BY DEF TypeInv, TypeOK, TaskOK, Task
<1>2. 1 \in Int /\ n \in Int /\ \A i \in 1..n : history[i] \in Event
  BY <1>1
<1> HIDE DEF n
<1>3. /\ SubSeq(history, 1, n) \in Seq(Event) /\ Len(SubSeq(history, 1, n)) = n
      /\ \A i \in 1..n : SubSeq(history, 1, n)[i] = history[i]
  BY <1>1, <1>2, SubSeqProperties
<1>4. /\ Assembled \in Seq(Event) /\ Len(Assembled) = n
      /\ \A i \in 1..n : Assembled[i] = history[i]
  BY <1>3 DEF Assembled, n
<1>5. PICK a \in 0..sent.signal : Numbered(history, 0, a)
  BY DEF SigInv, SignalsNumbered
<1>6. Ordered(Assembled)
  BY <1>1, <1>4, <1>5, FollowsOrdered
<1> QED
  BY <1>1, <1>4, <1>6 DEF n

\* The handler's actions keep the invariant.
LEMMA HandleReceives == ASSUME TypeInv, SigInv, Handle PROVE SigInv'
<1>1. /\ history \in Seq(Event) /\ task.updates \in Nat /\ Len(history) \in Nat
      /\ code \in Programs \cup {NoProgram}
  BY DEF TypeInv, TypeOK, Task
<1>2. ASSUME pc \in {"body", "parked", "respond"}
      PROVE  /\ RunnerOK(runner) /\ RecvOK(runner, history)
             /\ runner.commands \in Seq(Event) /\ OnlyCommands(runner.commands)
             /\ Final \in Seq(Event) /\ OnlyCommands(Final)
  <2>1. RunnerOK(runner) /\ RecvOK(runner, history)
    BY <1>2 DEF TypeInv, RunnersOK, Working, SigInv, RunnerReceives
  <2> QED
    BY <2>1, FinalIs, FinalIsCommand DEF RunnerOK, Runner, RecvOK
<1>3. ASSUME pc # "idle", TaskFailed, Idle PROVE SigInv'
  <2>1. wft = "started" /\ pc' = "idle" /\ runner' = NoRunner
    BY <1>3 DEF TypeInv, TaskOK, Idle
  <2> QED
    BY <1>3, <2>1, FailedReceives
<1>4. CASE HandleUnregistered
  BY <1>3, <1>4 DEF HandleUnregistered
<1>5. CASE HandleSticky
  <2> DEFINE q == ApplyEvents(cache, Assembled)
  <2>1. /\ pc = "polled" /\ cache # NoRunner /\ task.first # 1
        /\ task.first = LastEventId(cache) + 1
    BY <1>5 DEF HandleSticky, IsFullHistory, CacheHit
  <2>2. /\ runner' = q /\ fresh' = FALSE
        /\ pc' = IF runner'.done = "nil" THEN "body" ELSE "respond"
        /\ UNCHANGED <<history, buffered, wft, sticky, sent, cache>>
    BY <1>5, Zenon DEF HandleSticky, server, clients
  <2>3. RunnerOK(cache) /\ RecvOK(cache, history) /\ Caught(cache)
    BY <2>1 DEF SigInv, TaskIsSticky, CacheReceives, TypeInv, RunnersOK
  <2>4. /\ Assembled \in Seq(Event) /\ Len(Assembled) = task.upto /\ task.upto <= Len(history)
        /\ \A i \in 1..task.upto : Assembled[i] = history[i]
        /\ Ordered(Assembled)
    BY <2>1, AssembledIs
  <2>5. Follows(cache, Assembled)
    <3>1. Len(cache.events) \in Nat /\ task.upto \in Nat
      BY <2>3 DEF RunnerOK, Runner, TypeInv, TypeOK, Task
    <3>2. task.first <= task.upto
      BY <2>1 DEF TypeInv, TaskOK
    <3>3. Len(cache.events) <= task.upto
      BY <2>1, <3>1, <3>2 DEF LastEventId
    <3> QED
      BY <2>3, <2>4, <3>1, <3>3 DEF RecvOK, Follows
  <2>6. /\ q.events = Assembled /\ q.obs = cache.obs /\ q.commands = << >> /\ q.done = cache.done
    BY <2>3, <2>4, <2>5, ApplyEventsSignals
  <2>7. q.done = "nil" => TimelineLeft(q) = {} /\ Mailbox(q)
    BY <2>3, <2>4, <2>5, <2>6, ApplyEventsReceives DEF RecvOK, Caught
  <2> HIDE DEF q
  <2>8. RecvOK(q, history) /\ Caught(q)
    <3>1. Follows(q, history)
      BY <2>4, <2>6 DEF Follows
    <3>2. InOrder(q.obs) /\ OnlyCommands(q.commands)
      BY <2>3, <2>6 DEF RecvOK, OnlyCommands
    <3> QED
      BY <2>7, <3>1, <3>2 DEF RecvOK, Caught
  <2>9. RunnerReceives'
    BY <2>2, <2>8 DEF RunnerReceives, Working
  <2> QED
    BY <2>2, <2>9 DEF SigInv, SignalsNumbered, CacheReceives, TaskIsSticky
<1>6. CASE HandleStickyMiss
  BY <1>3, <1>6 DEF HandleStickyMiss
<1>7. CASE HandleFull
  <2> DEFINE q == NewRunner(code, Assembled, prevStarted > 0)
  <2>1. code \in Programs /\ (prevStarted > 0) \in BOOLEAN /\ pc = "polled"
    BY <1>1, <1>7 DEF HandleFull, TypeInv, TypeOK
  <2>2. /\ Assembled \in Seq(Event) /\ Len(Assembled) = task.upto /\ task.upto <= Len(history)
        /\ \A i \in 1..task.upto : Assembled[i] = history[i]
        /\ Ordered(Assembled)
    BY <2>1, AssembledIs
  <2>3. q.events = Assembled
    BY <2>1, <2>2, NewRunnerOK
  <2>4. InOrder(q.obs) /\ OnlyCommands(q.commands) /\ Mailbox(q) /\ q.done = "nil"
    BY <2>1, <2>2, NewRunnerReceives
  <2>5. /\ runner' = q /\ fresh' = TRUE /\ pc' = "body"
        /\ UNCHANGED <<history, buffered, wft, sticky, sent, cache>>
    BY <1>7, Zenon DEF HandleFull, server, clients
  <2> HIDE DEF q
  <2>6. RecvOK(q, history)
    BY <2>2, <2>3, <2>4 DEF RecvOK, Follows
  <2>7. RunnerReceives'
    BY <2>4, <2>5, <2>6 DEF RunnerReceives, Working
  <2> QED
    BY <2>5, <2>7 DEF SigInv, SignalsNumbered, CacheReceives, TaskIsSticky
<1>8. CASE ReapplyHistoricalUpdates
  <2> DEFINE q == ReapplyStep(runner)
  <2>1. /\ pc = "parked" /\ runner' = q /\ TimelineLeft(runner) # {}
        /\ runner.done = "nil" /\ pc' = "body"
        /\ UNCHANGED <<history, buffered, wft, sticky, sent, fresh, cache>>
    BY <1>8 DEF ReapplyHistoricalUpdates, server, clients
  <2>2. RunnerOK(runner) /\ RecvOK(runner, history)
    BY <1>2, <2>1
  <2>3. /\ q.events = runner.events /\ q.obs = runner.obs /\ q.commands = runner.commands
        /\ q.done = runner.done
    BY <2>1, <2>2, ReapplyStepSignals
  <2>4. Mailbox(q)
    BY <2>1, <2>2, ReapplyStepReceives DEF RecvOK
  <2> HIDE DEF q
  <2>5. RecvOK(q, history)
    BY <2>2, <2>3, <2>4 DEF RecvOK, Follows
  <2>6. fresh
    BY <2>1 DEF SigInv, RunnerReceives, Caught, Working
  <2>7. RunnerReceives'
    BY <2>1, <2>3, <2>5, <2>6 DEF RunnerReceives, Working
  <2> QED
    BY <2>1, <2>7 DEF SigInv, SignalsNumbered, CacheReceives, TaskIsSticky
<1>9. CASE CheckPassed
  <2>1. /\ pc = "parked" /\ cache' = runner /\ pc' = "respond"
        /\ runner.done # "nil" \/ TimelineLeft(runner) = {}
        /\ UNCHANGED <<history, buffered, wft, sticky, sent, fresh, runner>>
    BY <1>9 DEF CheckPassed, Replayed, server, clients
  <2>2. RecvOK(runner, history) /\ Caught(runner)
    BY <1>2, <2>1 DEF Caught
  <2> QED
    BY <2>1, <2>2 DEF SigInv, SignalsNumbered, RunnerReceives, CacheReceives, TaskIsSticky, Working
<1>10. CASE CheckFailed
  <2>1. pc = "parked" /\ Idle
    BY <1>10 DEF CheckFailed, Replayed
  <2>2. CASE TaskFailed
    BY <1>3, <2>1, <2>2
  <2>3. CASE ~TaskFailed
    <3> DEFINE final == <<Command("FailWorkflow", 0, "nil")>>
    <3>1. TaskCompleted(<< >>, 0, 0, final, FALSE)
      BY <1>10, <2>3 DEF CheckFailed
    <3>2. /\ Command("FailWorkflow", 0, "nil") \in Event
          /\ Command("FailWorkflow", 0, "nil").t = "Command"
      <4>1. "FailWorkflow" \in CommandKinds /\ 0 \in Int /\ "nil" \in Names
        BY DEF CommandKinds, Names
      <4> QED
        BY <4>1, CommandIs
    <3>3. final \in Seq(Event) /\ OnlyCommands(final)
      BY <3>2 DEF OnlyCommands
    <3>4. << >> \in Seq(Event) /\ OnlyCommands(<< >>) /\ 0 \in Nat
      BY DEF OnlyCommands
    <3> HIDE DEF final
    <3>5. SignalsNumbered'
      BY <3>1, <3>3, <3>4, CompletedReceives
    <3>6. sticky' = FALSE /\ pc' = "idle" /\ runner' = NoRunner
      BY <2>1, <3>1 DEF TaskCompleted, Idle
    <3> QED
      BY <3>5, <3>6 DEF SigInv, RunnerReceives, CacheReceives, TaskIsSticky, Working
  <2> QED
    BY <2>2, <2>3
<1>11. CASE RespondCompleted
  <2>1. pc = "respond" /\ pc' = "idle" /\ runner' = NoRunner
    BY <1>11 DEF RespondCompleted, Idle
  <2>2. PICK n \in 0..task.updates :
          /\ TaskCompleted(runner.commands, task.updates, n, Final, TRUE)
          /\ cache' = Responding(n) \/ cache' = NoRunner
    BY <1>11 DEF RespondCompleted
  <2>3. n \in Nat
    BY <1>1
  <2>4. SignalsNumbered' /\ Begins(history, history')
    BY <1>2, <2>1, <2>2, <2>3, CompletedReceives
  <2>5. RecvOK(runner, history') /\ RunnerOK(runner) /\ Caught(runner)
    BY <1>1, <1>2, <2>1, <2>4, FollowsOn DEF Begins, SigInv, RunnerReceives
  <2>6. RecvOK(Responding(n), history') /\ Caught(Responding(n))
    BY <2>3, <2>5, RespondingReceives
  <2> QED
    BY <2>1, <2>2, <2>4, <2>6 DEF SigInv, RunnerReceives, CacheReceives, TaskIsSticky, Working
<1>12. CASE RespondRefused
  BY <1>3, <1>12 DEF RespondRefused
<1>13. CASE RespondLost
  <2>1. /\ pc = "respond" /\ pc' = "idle" /\ runner' = NoRunner
        /\ UNCHANGED <<history, buffered, wft, sticky, sent>>
    BY <1>13 DEF RespondLost, Idle, server, clients
  <2>2. PICK n \in 0..task.updates : cache' = Responding(n)
    BY <1>13 DEF RespondLost
  <2>3. n \in Nat /\ RunnerOK(runner) /\ RecvOK(runner, history) /\ Caught(runner)
    BY <1>1, <1>2, <2>1 DEF SigInv, RunnerReceives
  <2>4. RecvOK(Responding(n), history) /\ Caught(Responding(n))
    BY <2>3, RespondingReceives
  <2> QED
    BY <2>1, <2>2, <2>4 DEF SigInv, SignalsNumbered, RunnerReceives, CacheReceives, TaskIsSticky,
       Working
<1>14. CASE AbortDeadlock
  BY <1>3, <1>14 DEF AbortDeadlock
<1> QED
  BY <1>4, <1>5, <1>6, <1>7, <1>8, <1>9, <1>10, <1>11, <1>12, <1>13, <1>14 DEF Handle

\* The invariant holds in the initial states.
LEMMA ReceivesInit == Init => SigInv
<1> SUFFICES ASSUME Init PROVE SigInv
  OBVIOUS
<1> DEFINE e == Plain("WorkflowExecutionStarted")
<1>1. e \in Event /\ e.t # "Signaled"
  BY PlainIs DEF EventTypes
<1>2. /\ history = <<e>> /\ buffered = << >> /\ sent.signal = 0 /\ wft = "pending" /\ pc = "idle"
      /\ runner = NoRunner /\ cache = NoRunner
  BY DEF Init
<1> HIDE DEF e
<1>3. history \in Seq(Event) /\ NoSignals(history) /\ << >> \in Seq(Event) /\ NoSignals(<< >>)
  BY <1>1, <1>2 DEF NoSignals
<1>4. Numbered(history, 0, 0) /\ Numbered(buffered, 0, 0) /\ 0 \in 0..0
  <2>1. 0 \in Nat /\ 0 \in 0..0
    OBVIOUS
  <2>2. \A t \in Seq(Event) : NoSignals(t) => Numbered(t, 0, 0)
    BY <2>1, NumberedNothing, Zenon
  <2> QED
    BY <1>2, <1>3, <2>1, <2>2, Zenon
<1>5. SignalsNumbered
  BY <1>2, <1>4 DEF SignalsNumbered
<1> QED
  BY <1>2, <1>5 DEF SigInv, RunnerReceives, CacheReceives, TaskIsSticky, Working

\* Every step keeps the invariant.
LEMMA ReceivesStep == TypeInv /\ SigInv /\ [Next]_vars => SigInv'
<1> SUFFICES ASSUME TypeInv, SigInv, [Next]_vars PROVE SigInv'
  OBVIOUS
<1>1. CASE Evict
  BY <1>1 DEF Evict, handler, server, clients, SigInv, SignalsNumbered, RunnerReceives,
     CacheReceives, TaskIsSticky, Working
<1>2. CASE Restart
  BY <1>2 DEF Restart, Idle, server, clients, SigInv, SignalsNumbered, RunnerReceives,
     CacheReceives, TaskIsSticky, Working
<1>3. CASE UNCHANGED vars
  BY <1>3 DEF vars, SigInv, SignalsNumbered, RunnerReceives, CacheReceives, TaskIsSticky, Working
<1> QED
  BY <1>1, <1>2, <1>3, BodyReceives, ServerReceives, HandleReceives DEF Next, Finished

\* The Nth receive of a function returns the Nth signal sent to its run, for every
\* function and every number of signals, updates and faults: whether the signal
\* came with a replayed history, with its update timeline, with a sticky task or
\* out of the buffer of a started task, and even if a history page is lost.
THEOREM SignalsAreInOrder == Spec => []SignalsInOrder
<1>1. SigInv => SignalsInOrder
  <2> SUFFICES ASSUME SigInv, runner # NoRunner PROVE InOrder(runner.obs)
    BY DEF SignalsInOrder, InOrder, Heard
  <2> QED
    BY DEF SigInv, RunnerReceives, RecvOK
<1> QED
  BY <1>1, ReceivesInit, ReceivesStep, TypeInit, TypeStep, PTL DEF Spec

-----------------------------------------------------------------------------
(***************************************************************************)
(* The futures of a runner are as its history leaves them, in a run that   *)
(* has accepted no update.  A fresh runner has its futures from the        *)
(* prescan, which does not look at cancelled timers: that these are as the *)
(* history leaves them, too, follows from the determinism check.  From     *)
(* then on the events of every task are applied to the futures held, and   *)
(* a future that is added is of an operation no event is about yet.        *)
(***************************************************************************)
NoUpdates(h) == \A i \in 1..Len(h) : h[i].t # "UpdateAccepted"

\* The Nexus operations scheduled in s; does s schedule an operation of this id?
NexusCount(s)       == Cardinality(Commands(s, "NexusOperation"))
Starts(s, kind, id) == \E i \in Commands(s, kind) : s[i].id = id

\* A timer or a child that ends, and a timer that is cancelled, was started.
Grounded(e, h) ==
    /\ (e.t = "Resolved" /\ e.k \in {"Timer", "ChildWorkflow"}) => Starts(h, e.k, e.id)
    /\ (e.t = "Command" /\ e.k = "CancelTimer") => Starts(h, "Timer", e.id)

\* An operation ends after it was scheduled.
Backward(h) == \A i \in 1..Len(h) : h[i].t = "Resolved" => h[i].n < i

HistoryFits ==
    /\ Backward(history)
    /\ \A i \in 1..Len(history) : Grounded(history[i], history)
    /\ \A i \in 1..Len(buffered) :
          /\ Grounded(buffered[i], history) /\ buffered[i].t # "Command"
          /\ buffered[i].t = "Resolved" => buffered[i].n < Len(history)

\* The timers a runner cancels are timers it has started, in this task or before.
TimersStarted(r, h) ==
    \A i \in 1..Len(r.futures["Timer"]) :
        Starts(h, "Timer", i - 1) \/ Starts(r.commands, "Timer", i - 1)

CancelsFit(r) ==
    \A i \in Commands(r.commands, "CancelTimer") :
        r.commands[i].id \in 0..(Len(r.futures["Timer"]) - 1)

RunnerFits(r, h) == r.events = h /\ CancelsFit(r) /\ TimersStarted(r, h)

\* The Nexus operations a runner is to start are calls the function made.
NexusFits(r, h) == NexusCount(h) + NexusCount(r.commands) <= Len(r.futures["NexusOperation"])

\* What a replay has produced so far, and the futures it has from the prescan.
NexusProduced(r) ==
    \A i \in 1..Len(r.produced) :
        r.produced[i].k = "NexusOperation" => r.produced[i].id < Len(r.futures["NexusOperation"])

CancelsProduced(r) ==
    \A i \in 1..Len(r.produced) : r.produced[i].k = "CancelTimer" =>
        /\ r.produced[i].id \in 0..(Len(r.futures["Timer"]) - 1)
        /\ r.futures["Timer"][r.produced[i].id + 1] = "cancelled"

Prescanned(r, h) ==
    \A k \in OpKinds : \A i \in 1..Len(r.futures[k]) :
        r.futures[k][i] \in {"cancelled", ScanResolution(h, k, i - 1)}

ReplayFits(r, h) ==
    /\ NexusProduced(r) /\ (NexusCount(r.commands) = 0 \/ NexusFits(r, h))
    /\ CancelsProduced(r) /\ Prescanned(r, h)

LiveFits(r, h) == NexusFits(r, h) /\ FuturesFollow(r)

\* The cached runner, while tasks are sticky: its timers are known to the server
\* unless the answer that starts them was lost.
CacheFits ==
    /\ FuturesFollow(cache)
    /\ sticky => NexusCount(history) <= Len(cache.futures["NexusOperation"])
    /\ (sticky /\ (pc = "polled" \/ wft # "started")) =>
          \A i \in 1..Len(cache.futures["Timer"]) : Starts(history, "Timer", i - 1)

FutInv ==
    NoUpdates(history) =>
        /\ HistoryFits
        /\ Working => RunnerFits(runner, history)
        /\ (pc \in {"body", "parked"} /\ fresh) => ReplayFits(runner, history)
        /\ (pc = "respond" \/ (Working /\ ~fresh)) => LiveFits(runner, history)
        /\ cache # NoRunner => CacheFits

-----------------------------------------------------------------------------
(***************************************************************************)
(* Counting the Nexus operations of a history.                             *)
(***************************************************************************)
\* The commands of a kind are finitely many.
LEMMA CommandsFinite ==
  ASSUME NEW h \in Seq(Event), NEW kind
  PROVE  /\ Commands(h, kind) \in SUBSET (1..Len(h)) /\ Len(h) \in Nat
         /\ IsFiniteSet(Commands(h, kind)) /\ Cardinality(Commands(h, kind)) \in Nat
<1>1. Commands(h, kind) \in SUBSET (1..Len(h)) /\ Len(h) \in Nat
  BY DEF Commands
<1>2. IsFiniteSet(1..Len(h))
  BY <1>1, FS_Interval
<1> QED
  BY <1>1, <1>2, FS_Subset, FS_CardinalityType

\* The position of an element is less than the size of the set; a position that is
\* less is that of an element.
LEMMA OrdinalsAre ==
  ASSUME NEW m \in Nat, NEW S \in SUBSET (1..m), NEW n \in Nat
  PROVE  (n < Cardinality(S)) <=> \E i \in S : Ordinal(S, i) = n
<1> DEFINE B(i) == {j \in S : j < i}
<1>1. IsFiniteSet(S) /\ Cardinality(S) \in Nat
  <2>1. IsFiniteSet(1..m)
    BY FS_Interval
  <2> QED
    BY <2>1, FS_Subset, FS_CardinalityType
<1>2. \A i \in S : B(i) \in SUBSET S /\ i \notin B(i) /\ IsFiniteSet(B(i)) /\ Cardinality(B(i)) \in Nat
  <2> TAKE i \in S
  <2>1. B(i) \in SUBSET S /\ i \notin B(i)
    OBVIOUS
  <2> QED
    BY <1>1, <2>1, FS_Subset, FS_CardinalityType
<1>3. \A i \in S : Ordinal(S, i) = Cardinality(B(i))
  BY DEF Ordinal
<1>4. ASSUME NEW i \in S, NEW p \in B(i), \A j \in B(i) : j <= p
      PROVE  Cardinality(B(p)) = Cardinality(B(i)) - 1
  <2>0. \A j \in S : j \in Int
    OBVIOUS
  <2>1. B(i) \ {p} = B(p)
    <3>1. \A j \in S : (j < i /\ j # p) <=> j < p
      <4> TAKE j \in S
      <4>1. p \in S /\ p < i /\ (j < i => j <= p)
        BY <1>4
      <4> QED
        BY <2>0, <4>1
    <3> QED
      BY <3>1
  <2> HIDE DEF B
  <2> QED
    BY <1>2, <1>4, <2>1, FS_RemoveElement
<1>5. ASSUME NEW i \in S PROVE Cardinality(B(i)) < Cardinality(S)
  <2>1. B(i) \in SUBSET (S \ {i})
    BY <1>2
  <2>2. IsFiniteSet(S \ {i}) /\ Cardinality(S \ {i}) = Cardinality(S) - 1
    BY <1>1, FS_RemoveElement
  <2> HIDE DEF B
  <2>3. Cardinality(B(i)) <= Cardinality(S \ {i})
    BY <2>1, <2>2, FS_Subset
  <2> QED
    BY <1>1, <1>2, <2>2, <2>3
<1>6. ASSUME n < Cardinality(S) PROVE \E i \in S : Ordinal(S, i) = n
  <2> DEFINE l == LastOf(S)
             T == {i \in S : n <= Cardinality(B(i))}
             f == FirstOf(T)
  <2>1. S # {}
    BY <1>1, <1>6, FS_EmptySet
  <2>2. l \in S /\ \A j \in S : j <= l
    BY <2>1, LastOfIsMember
  <2> HIDE DEF l
  <2>3. B(l) = S \ {l}
    <3>1. \A j \in S : j < l <=> j # l
      <4> TAKE j \in S
      <4>1. j \in Int /\ l \in Int /\ j <= l
        BY <2>2
      <4> QED
        BY <4>1
    <3> QED
      BY <3>1
  <2>4. Cardinality(B(l)) = Cardinality(S) - 1
    BY <1>1, <2>2, <2>3, FS_RemoveElement
  <2> HIDE DEF B
  <2>5. l \in T /\ T \in SUBSET S /\ T \in SUBSET Nat
    <3>1. n <= Cardinality(B(l))
      BY <1>1, <1>6, <2>4
    <3>2. l \in T /\ T \in SUBSET S
      BY <2>2, <3>1, Zenon
    <3> HIDE DEF T
    <3> QED
      BY <3>2
  <2>6. f \in T /\ \A j \in T : f <= j
    BY <2>5, FirstOfIsMember
  <2>7. f \in S /\ n <= Cardinality(B(f)) /\ Cardinality(B(f)) \in Nat
    BY <1>2, <2>6
  <2> HIDE DEF f
  <2>8. CASE Cardinality(B(f)) = n
    BY <1>3, <2>7, <2>8
  <2>9. CASE Cardinality(B(f)) # n
    <3>1. B(f) # {}
      BY <2>7, <2>9, FS_EmptySet
    <3>2. B(f) \in SUBSET (1..m)
      BY <1>2, <2>7
    <3> DEFINE p == LastOf(B(f))
    <3>3. p \in B(f) /\ \A j \in B(f) : j <= p
      BY <3>1, <3>2, LastOfIsMember
    <3> HIDE DEF p
    <3>4. Cardinality(B(p)) = Cardinality(B(f)) - 1
      BY <1>4, <2>7, <3>3
    <3>5. p \in S /\ p < f
      BY <3>3 DEF B
    <3>6. p \in T
      BY <2>7, <2>9, <3>4, <3>5
    <3>7. f <= p
      BY <2>6, <3>6
    <3> QED
      BY <2>7, <3>5, <3>7
  <2> QED
    BY <2>8, <2>9
<1> HIDE DEF B
<1> QED
  BY <1>1, <1>3, <1>5, <1>6

\* The Nexus operations scheduled are those whose id is less than their count.
LEMMA NexusScheduled ==
  ASSUME NEW h \in Seq(Event), NEW id \in Nat
  PROVE  /\ NexusCount(h) \in Nat
         /\ ScanScheduled(h, "NexusOperation", id) <=> id < NexusCount(h)
<1> DEFINE S == Commands(h, "NexusOperation")
<1>1. S \in SUBSET (1..Len(h)) /\ Len(h) \in Nat /\ Cardinality(S) \in Nat
  BY CommandsFinite
<1>2. \A i \in S : OpId(h, i) = Ordinal(S, i)
  BY DEF Commands, IsCommand, OpId
<1> HIDE DEF S
<1>3. (id < Cardinality(S)) <=> \E i \in S : Ordinal(S, i) = id
  BY <1>1, OrdinalsAre
<1>4. ScanScheduled(h, "NexusOperation", id) <=> \E i \in S : OpId(h, i) = id
  BY DEF ScanScheduled, Schedulings, S
<1> QED
  BY <1>1, <1>2, <1>3, <1>4, Zenon DEF NexusCount, S

\* The counts of two parts add up.
LEMMA NexusConcat ==
  ASSUME NEW s \in Seq(Event), NEW t \in Seq(Event)
  PROVE  /\ NexusCount(s \o t) = NexusCount(s) + NexusCount(t)
         /\ NexusCount(s) \in Nat /\ NexusCount(t) \in Nat
<1> DEFINE A == Commands(s, "NexusOperation")
           B == Commands(t, "NexusOperation")
           C == Commands(s \o t, "NexusOperation")
           D == {i \in C : i > Len(s)}
           f == [j \in B |-> Len(s) + j]
<1>1. s \o t \in Seq(Event) /\ Len(s) \in Nat /\ Len(t) \in Nat /\ Len(s \o t) = Len(s) + Len(t)
  OBVIOUS
<1>2. /\ \A i \in 1..Len(s) : (s \o t)[i] = s[i]
      /\ \A j \in 1..Len(t) : (s \o t)[Len(s) + j] = t[j]
  OBVIOUS
<1>3. /\ A \subseteq 1..Len(s) /\ IsFiniteSet(A) /\ Cardinality(A) \in Nat
      /\ B \subseteq 1..Len(t) /\ IsFiniteSet(B) /\ Cardinality(B) \in Nat
  BY CommandsFinite
<1>4. C = A \cup D
  BY <1>1, <1>2 DEF Commands, IsCommand
<1>5. A \cap D = {}
  BY <1>1, <1>3
<1>6. \A j \in B : Len(s) + j \in D
  BY <1>1, <1>2 DEF Commands, IsCommand
<1>7. \A i \in D : i - Len(s) \in B /\ Len(s) + (i - Len(s)) = i
  <2> TAKE i \in D
  <2>1. i \in 1..Len(s \o t) /\ i > Len(s) /\ IsCommand(s \o t, i, "NexusOperation")
    BY DEF Commands
  <2>2. i - Len(s) \in 1..Len(t) /\ Len(s) + (i - Len(s)) = i
    BY <1>1, <2>1
  <2>3. (s \o t)[i] = t[i - Len(s)]
    BY <1>2, <2>2
  <2> QED
    BY <2>1, <2>2, <2>3 DEF Commands, IsCommand
<1> HIDE DEF A, B, C, D
<1>8. f \in Bijection(B, D)
  <2>1. f \in [B -> D]
    BY <1>6
  <2>2. \A j, k \in B : f[j] = f[k] => j = k
    BY <1>1, <1>3
  <2>3. \A i \in D : \E j \in B : f[j] = i
    BY <1>7
  <2> HIDE DEF f
  <2> QED
    BY <2>1, <2>2, <2>3 DEF Bijection, Injection, Surjection, IsInjective
<1>9. ExistsBijection(B, D)
  <2> HIDE DEF f
  <2> QED
    BY <1>8 DEF ExistsBijection
<1>10. IsFiniteSet(D) /\ Cardinality(D) = Cardinality(B)
  BY <1>3, <1>9, FS_Bijection
<1>11. Cardinality(A \cup D) = Cardinality(A) + Cardinality(D) - Cardinality(A \cap D)
  BY <1>3, <1>10, FS_Union
<1>12. Cardinality(C) = Cardinality(A) + Cardinality(B)
  <2>1. Cardinality(A \cap D) = 0
    BY <1>5, FS_EmptySet, Zenon
  <2>2. Cardinality(C) = Cardinality(A) + Cardinality(D) - 0
    BY <1>4, <1>11, <2>1, Zenon
  <2> QED
    BY <1>3, <1>10, <2>2
<1> QED
  BY <1>3, <1>12 DEF NexusCount, A, B, C

\* Events that schedule no Nexus operation count for nothing.
LEMMA NexusNone ==
  ASSUME NEW t \in Seq(Event),
         \A i \in 1..Len(t) : ~(t[i].t = "Command" /\ t[i].k = "NexusOperation")
  PROVE  NexusCount(t) = 0
<1>1. Commands(t, "NexusOperation") = {}
  BY DEF Commands, IsCommand
<1> QED
  BY <1>1, FS_EmptySet DEF NexusCount

-----------------------------------------------------------------------------
(***************************************************************************)
(* What the events of a history say of an operation does not change as the *)
(* history grows; of an operation that was not scheduled they say nothing. *)
(***************************************************************************)
\* The operation a scheduling event starts is the same in every longer history.
LEMMA BeginsOpId ==
  ASSUME NEW h \in Seq(Event), NEW g, Begins(h, g), NEW kind
  PROVE  /\ \A i \in 1..Len(h) : i \in Commands(h, kind) <=> i \in Commands(g, kind)
         /\ \A i \in 1..Len(h) : OpId(h, i) = OpId(g, i)
<1>1. Len(h) \in Nat /\ Len(g) \in Nat /\ Len(h) <= Len(g) /\ \A i \in 1..Len(h) : g[i] = h[i]
  BY DEF Begins
<1>2. \A k : \A i \in 1..Len(h) : i \in Commands(h, k) <=> i \in Commands(g, k)
  BY <1>1 DEF Commands, IsCommand
<1>3. ASSUME NEW i \in 1..Len(h) PROVE OpId(h, i) = OpId(g, i)
  <2> DEFINE A == Commands(h, "NexusOperation")
             B == Commands(g, "NexusOperation")
  <2>1. {j \in A : j < i} = {j \in B : j < i}
    <3>1. \A j \in A : j < i => j \in B
      BY <1>2 DEF Commands
    <3>2. \A j \in B : j < i => j \in A
      <4> SUFFICES ASSUME NEW j \in B, j < i PROVE j \in A
        OBVIOUS
      <4>1. j \in 1..Len(g)
        BY DEF Commands
      <4>2. j \in 1..Len(h)
        BY <1>1, <4>1
      <4> QED
        BY <1>2, <4>2
    <3> HIDE DEF A, B
    <3> QED
      BY <3>1, <3>2
  <2>2. Ordinal(A, i) = Ordinal(B, i)
    BY <2>1, Zenon DEF Ordinal
  <2> HIDE DEF A, B
  <2>3. g[i] = h[i]
    BY <1>1
  <2> QED
    BY <2>2, <2>3, Zenon DEF OpId, A, B
<1> QED
  BY <1>2, <1>3

\* So is the operation that a resolution, which follows the scheduling, resolves.
LEMMA BeginsResolvedId ==
  ASSUME NEW h \in Seq(Event), NEW g, Begins(h, g), Backward(g),
         NEW i \in 1..Len(h), h[i].t = "Resolved"
  PROVE  g[i] = h[i] /\ ResolvedId(h, h[i]) = ResolvedId(g, g[i])
<1>1. g \in Seq(Event) /\ Len(h) \in Nat /\ Len(g) \in Nat /\ Len(h) <= Len(g) /\ g[i] = h[i]
  BY DEF Begins
<1>2. i \in 1..Len(g) /\ h[i] \in Event
  BY <1>1
<1>3. h[i].n \in Int /\ h[i].n < i
  BY <1>1, <1>2 DEF Backward, Event
<1> DEFINE n == h[i].n
           k == h[i].k
<1>4. n \in Commands(h, k) <=> n \in Commands(g, k)
  <2>1. CASE n \in 1..Len(h)
    BY <2>1, BeginsOpId
  <2>2. CASE n \notin 1..Len(h)
    <3>1. n \notin 1..Len(g)
      BY <1>1, <1>3, <2>2
    <3> QED
      BY <2>2, <3>1 DEF Commands
  <2> QED
    BY <2>1, <2>2
<1>5. n \in Commands(h, k) => OpId(h, n) = OpId(g, n)
  <2>1. n \in Commands(h, k) => n \in 1..Len(h)
    BY DEF Commands
  <2> QED
    BY <2>1, BeginsOpId
<1>6. CASE k \in {"Timer", "ChildWorkflow"}
  <2>1. ResolvedId(h, h[i]) = h[i].id /\ ResolvedId(g, h[i]) = h[i].id
    BY <1>6 DEF ResolvedId
  <2> QED
    BY <1>1, <2>1
<1>7. CASE k \notin {"Timer", "ChildWorkflow"} /\ n \in Commands(h, k)
  <2>1. ResolvedId(h, h[i]) = OpId(h, n) /\ ResolvedId(g, h[i]) = OpId(g, n)
    BY <1>4, <1>7 DEF ResolvedId
  <2> QED
    BY <1>1, <1>5, <1>7, <2>1
<1>8. CASE k \notin {"Timer", "ChildWorkflow"} /\ n \notin Commands(h, k)
  <2>1. ResolvedId(h, h[i]) = -1 /\ ResolvedId(g, h[i]) = -1
    BY <1>4, <1>8 DEF ResolvedId
  <2> QED
    BY <1>1, <2>1
<1> QED
  BY <1>6, <1>7, <1>8

\* The events of the beginning of a history that change a future are the same.
LEMMA BeginsTouching ==
  ASSUME NEW h \in Seq(Event), NEW g, Begins(h, g), Backward(g), NEW kind, NEW id
  PROVE  Touching(g, 1..Len(h), kind, id) = Touching(h, 1..Len(h), kind, id)
<1>1. Len(h) \in Nat /\ Len(g) \in Nat /\ Len(h) <= Len(g) /\ \A i \in 1..Len(h) : g[i] = h[i]
  BY DEF Begins
<1>2. \A i \in 1..Len(h) : i \in Resolutions(h, kind, id) <=> i \in Resolutions(g, kind, id)
  <2> TAKE i \in 1..Len(h)
  <2>1. i \in 1..Len(g) /\ g[i] = h[i]
    BY <1>1
  <2>2. h[i].t = "Resolved" => ResolvedId(h, h[i]) = ResolvedId(g, g[i])
    BY BeginsResolvedId
  <2> QED
    BY <2>1, <2>2 DEF Resolutions, Events
<1>3. \A i \in 1..Len(h) : i \in Commands(h, "CancelTimer") <=> i \in Commands(g, "CancelTimer")
  BY BeginsOpId
<1>4. \A i \in 1..Len(h) : i \in Touching(h, 1..Len(h), kind, id) <=> i \in Touching(g, 1..Len(h), kind, id)
  BY <1>1, <1>2, <1>3 DEF Touching
<1>5. Touching(h, 1..Len(h), kind, id) \subseteq 1..Len(h) /\ Touching(g, 1..Len(h), kind, id) \subseteq 1..Len(h)
  BY DEF Touching
<1> QED
  BY <1>4, <1>5

\* An operation that an event is about was scheduled.
LEMMA TouchedIsScheduled ==
  ASSUME NEW h \in Seq(Event), \A i \in 1..Len(h) : Grounded(h[i], h),
         NEW kind \in OpKinds, NEW id \in Nat, NEW N, Touching(h, N, kind, id) # {}
  PROVE  ScanScheduled(h, kind, id)
<1>1. PICK i : i \in Touching(h, N, kind, id)
  OBVIOUS
<1>2. i \in 1..Len(h) /\ Grounded(h[i], h)
  BY <1>1 DEF Touching, Resolutions, Events, Commands
<1>3. ASSUME kind # "NexusOperation", Starts(h, kind, id) PROVE ScanScheduled(h, kind, id)
  <2>1. PICK j \in Commands(h, kind) : h[j].id = id
    BY <1>3 DEF Starts
  <2>2. h[j].k = kind
    BY <2>1 DEF Commands, IsCommand
  <2>3. OpId(h, j) = id
    BY <1>3, <2>1, <2>2 DEF OpId
  <2> QED
    BY <2>1, <2>3 DEF ScanScheduled, Schedulings
<1>4. CASE i \in Commands(h, "CancelTimer") /\ kind = "Timer" /\ h[i].id = id
  <2>1. Starts(h, "Timer", id)
    BY <1>2, <1>4 DEF Grounded, Commands, IsCommand
  <2> QED
    BY <1>3, <1>4, <2>1
<1>5. CASE i \in Resolutions(h, kind, id)
  <2>1. h[i].t = "Resolved" /\ h[i].k = kind /\ ResolvedId(h, h[i]) = id
    BY <1>5 DEF Resolutions, Events
  <2>2. CASE kind \in {"Timer", "ChildWorkflow"}
    <3>1. h[i].id = id /\ Starts(h, kind, id) /\ kind # "NexusOperation"
      BY <1>2, <2>1, <2>2 DEF ResolvedId, Grounded
    <3> QED
      BY <1>3, <3>1
  <2>3. CASE kind \notin {"Timer", "ChildWorkflow"}
    <3>1. h[i].n \in Commands(h, kind)
      <4>1. CASE h[i].n \notin Commands(h, kind)
        <5>1. ResolvedId(h, h[i]) = -1
          BY <2>1, <2>3, <4>1 DEF ResolvedId
        <5> QED
          BY <2>1, <5>1
      <4> QED
        BY <4>1
    <3>2. ResolvedId(h, h[i]) = OpId(h, h[i].n)
      BY <2>1, <2>3, <3>1 DEF ResolvedId
    <3> QED
      BY <2>1, <3>1, <3>2 DEF ScanScheduled, Schedulings
  <2> QED
    BY <2>2, <2>3
<1> QED
  BY <1>1, <1>4, <1>5 DEF Touching

\* Nothing is held back in a history without updates.
LEMMA NothingDeferred ==
  ASSUME NEW h, NoUpdates(h) PROVE Deferred(h) = {}
  BY DEF NoUpdates, Deferred, SeenUpdate, Events

\* Of an operation that is not scheduled the prescan knows nothing.
LEMMA UnscheduledPends ==
  ASSUME NEW h \in Seq(Event), \A i \in 1..Len(h) : Grounded(h[i], h), NoUpdates(h),
         NEW kind \in OpKinds, NEW id \in Nat, ~ScanScheduled(h, kind, id)
  PROVE  ScanResolution(h, kind, id) = "pending" /\ Touching(h, 1..Len(h), kind, id) = {}
<1>1. Touching(h, 1..Len(h), kind, id) = {}
  BY TouchedIsScheduled
<1>2. Resolutions(h, kind, id) = {}
  BY <1>1 DEF Touching, Resolutions, Events
<1> QED
  BY <1>1, <1>2 DEF ScanResolution

-----------------------------------------------------------------------------
(***************************************************************************)
(* What the calls of the function keep of this.                            *)
(***************************************************************************)
\* A sequence that is extended by commands of other kinds has the same of a kind.
LEMMA SameCommands ==
  ASSUME NEW s \in Seq(Event), NEW t \in Seq(Event), NEW kind, Len(s) <= Len(t),
         \A i \in 1..Len(s) : t[i] = s[i],
         \A i \in (Len(s) + 1)..Len(t) : t[i].k # kind
  PROVE  /\ Commands(t, kind) = Commands(s, kind)
         /\ \A i \in Commands(s, kind) : t[i] = s[i]
         /\ \A id : Starts(t, kind, id) <=> Starts(s, kind, id)
<1>1. Len(s) \in Nat /\ Len(t) \in Nat
  OBVIOUS
<1>2. ASSUME NEW i \in Commands(t, kind) PROVE i \in Commands(s, kind)
  <2>1. i \in 1..Len(t) /\ IsCommand(t, i, kind)
    BY <1>2 DEF Commands
  <2>2. i \in 1..Len(s)
    BY <1>1, <2>1 DEF IsCommand
  <2> QED
    BY <2>1, <2>2 DEF Commands, IsCommand
<1>3. ASSUME NEW i \in Commands(s, kind) PROVE i \in Commands(t, kind) /\ t[i] = s[i]
  <2>1. i \in 1..Len(s) /\ i \in 1..Len(t) /\ IsCommand(s, i, kind)
    BY <1>1, <1>3 DEF Commands
  <2> QED
    BY <2>1 DEF Commands, IsCommand
<1>4. Commands(t, kind) = Commands(s, kind)
  BY <1>2, <1>3
<1> QED
  BY <1>3, <1>4 DEF Starts

\* A call that is quiet starts nothing.
LEMMA QuietStarts ==
  ASSUME NEW r, RunnerOK(r), NEW q, Quiet(r, q)
  PROVE  /\ NexusCount(q.commands) = NexusCount(r.commands)
         /\ \A id : Starts(q.commands, "Timer", id) <=> Starts(r.commands, "Timer", id)
<1>1. r.commands \in Seq(Event) /\ q.commands \in Seq(Event) /\ QuietlyExtends(r.commands, q.commands)
  BY DEF RunnerOK, Runner, Quiet
<1>2. \A i \in (Len(r.commands) + 1)..Len(q.commands) :
         q.commands[i].k # "NexusOperation" /\ q.commands[i].k # "Timer"
  BY <1>1 DEF QuietlyExtends, OpKinds
<1> DEFINE s == r.commands
           t == q.commands
<1>3. /\ s \in Seq(Event) /\ t \in Seq(Event) /\ Len(s) <= Len(t) /\ \A i \in 1..Len(s) : t[i] = s[i]
      /\ \A i \in (Len(s) + 1)..Len(t) : t[i].k # "NexusOperation"
      /\ \A i \in (Len(s) + 1)..Len(t) : t[i].k # "Timer"
  BY <1>1, <1>2 DEF QuietlyExtends
<1> HIDE DEF s, t
<1>4. Commands(t, "NexusOperation") = Commands(s, "NexusOperation")
  BY <1>3, SameCommands
<1>5. \A id : Starts(t, "Timer", id) <=> Starts(s, "Timer", id)
  BY <1>3, SameCommands
<1> QED
  BY <1>4, <1>5, Zenon DEF NexusCount, s, t

\* What a runner has is a sequence, of each kind.
LEMMA FuturesType ==
  ASSUME NEW r, RunnerOK(r)
  PROVE  /\ r.futures \in [OpKinds -> Seq(FutureStatus)]
         /\ \A k \in OpKinds : r.futures[k] \in Seq(FutureStatus) /\ Len(r.futures[k]) \in Nat
         /\ Len(r.futures["Timer"]) \in Nat /\ Len(r.futures["NexusOperation"]) \in Nat
         /\ r.produced \in Seq(CommandEvent) /\ r.commands \in Seq(Event) /\ r.events \in Seq(Event)
         /\ "Timer" \in OpKinds /\ "NexusOperation" \in OpKinds
<1>1. /\ r.futures \in [OpKinds -> Seq(FutureStatus)]
      /\ r.produced \in Seq(CommandEvent) /\ r.commands \in Seq(Event) /\ r.events \in Seq(Event)
  BY DEF RunnerOK, Runner
<1>2. "Timer" \in OpKinds /\ "NexusOperation" \in OpKinds
  BY DEF OpKinds
<1> QED
  BY <1>1, <1>2

\* A calm call keeps what fits the history.
LEMMA CalmFits ==
  ASSUME NEW r, RunnerOK(r), NEW q, Calm(r, q), NEW h
  PROVE  /\ RunnerFits(r, h) => RunnerFits(q, h)
         /\ ReplayFits(r, h) => ReplayFits(q, h)
         /\ LiveFits(r, h) => LiveFits(q, h)
<1>1. /\ Quiet(r, q) /\ RunnerOK(q) /\ q.futures = r.futures /\ q.events = r.events
      /\ NoCancels(r.produced, q.produced) /\ NoCancels(r.commands, q.commands)
      /\ QuietlyExtends(r.produced, q.produced) /\ QuietlyExtends(r.commands, q.commands)
  BY CalmIsQuiet DEF Calm, Quiet
<1>2. /\ r.commands \in Seq(Event) /\ q.commands \in Seq(Event)
      /\ r.produced \in Seq(CommandEvent) /\ q.produced \in Seq(CommandEvent)
  BY <1>1, FuturesType
<1>3. /\ NexusCount(q.commands) = NexusCount(r.commands)
      /\ \A id : Starts(q.commands, "Timer", id) <=> Starts(r.commands, "Timer", id)
  BY <1>1, QuietStarts
<1>4. CancelsFit(r) => CancelsFit(q)
  <2>1. /\ Commands(q.commands, "CancelTimer") = Commands(r.commands, "CancelTimer")
        /\ \A i \in Commands(r.commands, "CancelTimer") : q.commands[i] = r.commands[i]
    BY <1>1, <1>2, SameCommands DEF QuietlyExtends, NoCancels
  <2> QED
    BY <1>1, <2>1, Zenon DEF CancelsFit
<1>5. RunnerFits(r, h) => RunnerFits(q, h)
  BY <1>1, <1>3, <1>4, Zenon DEF RunnerFits, TimersStarted
<1>6. ASSUME NEW i \in 1..Len(q.produced), q.produced[i].k \in LoudKinds
      PROVE  i \in 1..Len(r.produced) /\ q.produced[i] = r.produced[i]
  <2>1. Len(r.produced) \in Nat /\ Len(q.produced) \in Nat
    BY <1>2
  <2>2. i \notin (Len(r.produced) + 1)..Len(q.produced)
    BY <1>1, <1>6 DEF QuietlyExtends, NoCancels, LoudKinds
  <2>3. i \in 1..Len(r.produced)
    BY <2>1, <2>2
  <2> QED
    BY <1>1, <2>3 DEF QuietlyExtends
<1>7. NexusProduced(r) => NexusProduced(q)
  <2>1. "NexusOperation" \in LoudKinds
    BY DEF LoudKinds, OpKinds
  <2> QED
    BY <1>1, <1>6, <2>1, Zenon DEF NexusProduced
<1>8. CancelsProduced(r) => CancelsProduced(q)
  <2>1. "CancelTimer" \in LoudKinds
    BY DEF LoudKinds
  <2> QED
    BY <1>1, <1>6, <2>1, Zenon DEF CancelsProduced
<1>9. Prescanned(r, h) => Prescanned(q, h)
  BY <1>1, Zenon DEF Prescanned
<1>10. NexusFits(r, h) => NexusFits(q, h)
  BY <1>1, <1>3, Zenon DEF NexusFits
<1>11. FuturesFollow(r) => FuturesFollow(q)
  BY <1>1, Zenon DEF FuturesFollow
<1> QED
  BY <1>3, <1>5, <1>7, <1>8, <1>9, <1>10, <1>11, Zenon DEF ReplayFits, LiveFits

\* So does the cancellation of a timer.
LEMMA CancelsTimerFits ==
  ASSUME NEW r, RunnerOK(r), NEW q, Quiet(r, q), CancelsTimer(r, q), NEW h
  PROVE  /\ RunnerFits(r, h) => RunnerFits(q, h)
         /\ ReplayFits(r, h) => ReplayFits(q, h)
         /\ LiveFits(r, h) => LiveFits(q, h)
<1>1. PICK id \in Nat :
        /\ id + 1 \in 1..Len(r.futures["Timer"])
        /\ \A k \in OpKinds : \A i \in 1..Len(r.futures[k]) :
              q.futures[k][i] = IF k = "Timer" /\ i = id + 1 THEN "cancelled" ELSE r.futures[k][i]
        /\ q.produced \in {r.produced, Append(r.produced, CmdEvent("CancelTimer", id, "nil"))}
        /\ q.commands \in {r.commands, Append(r.commands, Command("CancelTimer", id, "nil"))}
  BY Zenon DEF CancelsTimer
<1>2. /\ RunnerOK(q) /\ q.events = r.events
      /\ \A k \in OpKinds : Len(q.futures[k]) = Len(r.futures[k])
  BY DEF Quiet
<1>3. /\ Len(q.futures["Timer"]) = Len(r.futures["Timer"]) /\ Len(r.futures["Timer"]) \in Nat
      /\ Len(q.futures["NexusOperation"]) = Len(r.futures["NexusOperation"])
      /\ "Timer" \in OpKinds
  BY <1>2, FuturesType
<1>4. /\ r.commands \in Seq(Event) /\ q.commands \in Seq(Event)
      /\ r.produced \in Seq(CommandEvent) /\ q.produced \in Seq(CommandEvent)
  BY <1>2, FuturesType
<1>5. /\ NexusCount(q.commands) = NexusCount(r.commands)
      /\ \A x : Starts(q.commands, "Timer", x) <=> Starts(r.commands, "Timer", x)
  BY QuietStarts
<1>6. \A k \in OpKinds : \A i \in 1..Len(q.futures[k]) :
         i \in 1..Len(r.futures[k]) /\ q.futures[k][i] \in {"cancelled", r.futures[k][i]}
  BY <1>1, <1>2
<1>7. ASSUME NEW i \in 1..Len(q.commands)
      PROVE  \/ i \in 1..Len(r.commands) /\ q.commands[i] = r.commands[i]
             \/ q.commands[i].id = id
  <2> DEFINE e == Command("CancelTimer", id, "nil")
  <2>1. e.id = id
    BY DEF Command, Entry
  <2> HIDE DEF e
  <2>2. CASE q.commands = r.commands
    BY <2>2
  <2>3. CASE q.commands = Append(r.commands, e)
    BY <1>4, <2>1, <2>3
  <2> QED
    BY <1>1, <2>2, <2>3 DEF e
<1>8. ASSUME NEW i \in 1..Len(q.produced)
      PROVE  \/ i \in 1..Len(r.produced) /\ q.produced[i] = r.produced[i]
             \/ q.produced[i].id = id /\ q.produced[i].k = "CancelTimer"
  <2> DEFINE c == CmdEvent("CancelTimer", id, "nil")
  <2>1. c.id = id /\ c.k = "CancelTimer"
    BY DEF CmdEvent
  <2> HIDE DEF c
  <2>2. CASE q.produced = r.produced
    BY <2>2
  <2>3. CASE q.produced = Append(r.produced, c)
    BY <1>4, <2>1, <2>3
  <2> QED
    BY <1>1, <2>2, <2>3 DEF c
<1>9. id \in 0..(Len(q.futures["Timer"]) - 1) /\ q.futures["Timer"][id + 1] = "cancelled"
  BY <1>1, <1>3
<1>10. CancelsFit(r) => CancelsFit(q)
  <2> SUFFICES ASSUME CancelsFit(r), NEW i \in Commands(q.commands, "CancelTimer")
               PROVE  q.commands[i].id \in 0..(Len(q.futures["Timer"]) - 1)
    BY DEF CancelsFit
  <2>1. i \in 1..Len(q.commands) /\ IsCommand(q.commands, i, "CancelTimer")
    BY DEF Commands
  <2>2. CASE q.commands[i].id = id
    BY <1>9, <2>2
  <2>3. CASE i \in 1..Len(r.commands) /\ q.commands[i] = r.commands[i]
    <3>1. i \in Commands(r.commands, "CancelTimer")
      BY <2>1, <2>3 DEF Commands, IsCommand
    <3> QED
      BY <1>3, <2>3, <3>1, Zenon DEF CancelsFit
  <2> QED
    BY <1>7, <2>1, <2>2, <2>3
<1>11. TimersStarted(r, h) => TimersStarted(q, h)
  BY <1>3, <1>5, Zenon DEF TimersStarted
<1>12. NexusProduced(r) => NexusProduced(q)
  <2> SUFFICES ASSUME NexusProduced(r), NEW i \in 1..Len(q.produced), q.produced[i].k = "NexusOperation"
               PROVE  q.produced[i].id < Len(q.futures["NexusOperation"])
    BY DEF NexusProduced
  <2>1. i \in 1..Len(r.produced) /\ q.produced[i] = r.produced[i]
    BY <1>8
  <2> QED
    BY <1>3, <2>1, Zenon DEF NexusProduced
<1>13. CancelsProduced(r) => CancelsProduced(q)
  <2> SUFFICES ASSUME CancelsProduced(r), NEW i \in 1..Len(q.produced), q.produced[i].k = "CancelTimer"
               PROVE  /\ q.produced[i].id \in 0..(Len(q.futures["Timer"]) - 1)
                      /\ q.futures["Timer"][q.produced[i].id + 1] = "cancelled"
    BY DEF CancelsProduced
  <2>1. CASE q.produced[i].id = id
    BY <1>9, <2>1
  <2>2. CASE i \in 1..Len(r.produced) /\ q.produced[i] = r.produced[i]
    <3> DEFINE x == r.produced[i].id
    <3>1. x \in 0..(Len(r.futures["Timer"]) - 1) /\ r.futures["Timer"][x + 1] = "cancelled"
      BY <2>2 DEF CancelsProduced
    <3> HIDE DEF x
    <3>2. x + 1 \in 1..Len(r.futures["Timer"])
      BY <1>3, <3>1
    <3>3. q.futures["Timer"][x + 1] = "cancelled"
      BY <1>1, <1>3, <3>1, <3>2
    <3> QED
      BY <1>3, <2>2, <3>1, <3>3 DEF x
  <2> QED
    BY <1>8, <2>1, <2>2
<1>14. Prescanned(r, h) => Prescanned(q, h)
  BY <1>6, Zenon DEF Prescanned
<1>15. FuturesFollow(r) => FuturesFollow(q)
  <2> SUFFICES ASSUME FuturesFollow(r), NEW k \in OpKinds, NEW i \in 1..Len(q.futures[k])
               PROVE  LET S == Touching(q.events, 1..Len(q.events), k, i - 1)
                      IN  \/ q.futures[k][i] = "cancelled"
                          \/ q.futures[k][i] = IF S = {} THEN "pending" ELSE StatusAfter(q.events[LastOf(S)])
    BY DEF FuturesFollow
  <2>1. i \in 1..Len(r.futures[k]) /\ q.futures[k][i] \in {"cancelled", r.futures[k][i]}
    BY <1>6
  <2> QED
    BY <1>2, <2>1, Zenon DEF FuturesFollow
<1>16. NexusFits(r, h) => NexusFits(q, h)
  BY <1>3, <1>5, Zenon DEF NexusFits
<1> QED
  BY <1>2, <1>5, <1>10, <1>11, <1>12, <1>13, <1>14, <1>15, <1>16, Zenon DEF RunnerFits, ReplayFits, LiveFits

-----------------------------------------------------------------------------
\* One more event, in the count of the Nexus operations.
LEMMA NexusAppend ==
  ASSUME NEW s \in Seq(Event), NEW e \in Event
  PROVE  /\ NexusCount(s) \in Nat
         /\ NexusCount(Append(s, e)) =
               NexusCount(s) + (IF e.t = "Command" /\ e.k = "NexusOperation" THEN 1 ELSE 0)
<1> DEFINE t == <<e>>
<1>1. t \in Seq(Event) /\ Append(s, e) = s \o t /\ Len(t) = 1 /\ t[1] = e
  BY EventAppended
<1> HIDE DEF t
<1>2. NexusCount(Append(s, e)) = NexusCount(s) + NexusCount(t) /\ NexusCount(s) \in Nat
  BY <1>1, NexusConcat
<1>3. CASE e.t = "Command" /\ e.k = "NexusOperation"
  <2>1. Commands(t, "NexusOperation") = {1}
    BY <1>1, <1>3 DEF Commands, IsCommand
  <2>2. NexusCount(t) = 1
    BY <2>1, FS_Singleton, Zenon DEF NexusCount
  <2> QED
    BY <1>2, <1>3, <2>2
<1>4. CASE ~(e.t = "Command" /\ e.k = "NexusOperation")
  <2>1. NexusCount(t) = 0
    BY <1>1, <1>4, NexusNone
  <2> QED
    BY <1>2, <1>4, <2>1
<1> QED
  BY <1>3, <1>4

\* q is r after a call that schedules an operation, future by future.
Adds(r, q, kind, v) ==
    LET id == Len(r.futures[kind])
    IN  /\ RunnerOK(q) /\ q.events = r.events /\ id \in Nat
        /\ \A k \in OpKinds : Len(q.futures[k]) = IF k = kind THEN id + 1 ELSE Len(r.futures[k])
        /\ \A k \in OpKinds : \A i \in 1..Len(r.futures[k]) : q.futures[k][i] = r.futures[k][i]
        /\ q.futures[kind][id + 1] = NextStatus(r, kind)
        /\ q.produced = Append(r.produced, CmdEvent(kind, id, v))
        /\ q.commands = IF OpKnown(r, kind, id) THEN r.commands
                        ELSE Append(r.commands, Command(kind, id, v))

\* That is what scheduling does.
LEMMA ScheduledAdds ==
  ASSUME NEW r, RunnerOK(r), NEW q, Scheduled(r, q)
  PROVE  \E kind \in OpKinds, v \in Names : Adds(r, q, kind, v)
<1>1. PICK kind \in OpKinds, v \in Names : q = Schedule(r, kind, v)
  BY DEF Scheduled
<1> DEFINE id == Len(r.futures[kind])
           st == NextStatus(r, kind)
<1>2. /\ RunnerOK(q) /\ q.events = r.events
      /\ \A k \in OpKinds \ {kind} : Len(q.futures[k]) = Len(r.futures[k])
      /\ Len(q.futures[kind]) = id + 1
      /\ q.produced = Append(r.produced, CmdEvent(kind, id, v))
      /\ q.commands = IF OpKnown(r, kind, id) THEN r.commands
                      ELSE Append(r.commands, Command(kind, id, v))
  BY <1>1, ScheduleEffect
<1>3. q.futures = [r.futures EXCEPT ![kind] = Append(r.futures[kind], st)]
  BY <1>1, ScheduleFutures
<1> HIDE DEF st
<1>4. r.futures \in [OpKinds -> Seq(FutureStatus)] /\ id \in Nat
  BY FuturesType
<1>5. q.futures[kind] = Append(r.futures[kind], st) /\ \A k \in OpKinds : k # kind => q.futures[k] = r.futures[k]
  BY <1>3, <1>4
<1>6. q.futures[kind][id + 1] = st /\ \A i \in 1..id : q.futures[kind][i] = r.futures[kind][i]
  <2>1. r.futures[kind] \in Seq(FutureStatus)
    BY <1>4
  <2> QED
    BY <1>5, <2>1
<1>7. \A k \in OpKinds : Len(q.futures[k]) = IF k = kind THEN id + 1 ELSE Len(r.futures[k])
  BY <1>2
<1>8. \A k \in OpKinds : \A i \in 1..Len(r.futures[k]) : q.futures[k][i] = r.futures[k][i]
  BY <1>5, <1>6
<1>9. Adds(r, q, kind, v)
  BY <1>2, <1>4, <1>6, <1>7, <1>8, Zenon DEF Adds, st
<1> QED
  BY <1>9

\* The command it adds, in the counts.
LEMMA AddsCommand ==
  ASSUME NEW r, RunnerOK(r), NEW q, NEW kind \in OpKinds, NEW v \in Names, Adds(r, q, kind, v)
  PROVE  LET id == Len(r.futures[kind])
             new == ~OpKnown(r, kind, id)
         IN  /\ NexusCount(r.commands) \in Nat
             /\ NexusCount(q.commands) =
                   NexusCount(r.commands) + (IF new /\ kind = "NexusOperation" THEN 1 ELSE 0)
             /\ \A x : Starts(r.commands, "Timer", x) => Starts(q.commands, "Timer", x)
             /\ (new /\ kind = "Timer") => Starts(q.commands, "Timer", id)
             /\ \A i \in Commands(q.commands, "CancelTimer") :
                   i \in Commands(r.commands, "CancelTimer") /\ q.commands[i] = r.commands[i]
<1> DEFINE id  == Len(r.futures[kind])
           new == ~OpKnown(r, kind, id)
           e   == Command(kind, id, v)
           s   == r.commands
           t   == q.commands
<1>1. s \in Seq(Event) /\ id \in Nat /\ t = IF new THEN Append(s, e) ELSE s
  BY FuturesType DEF Adds
<1>2. e \in Event /\ e.t = "Command" /\ e.k = kind /\ e.id = id
  BY <1>1, CommandIs DEF CommandKinds
<1>3. kind # "CancelTimer"
  BY DEF OpKinds
<1> HIDE DEF e, s, t, id, new
<1>4. CASE new
  <2>1. t = Append(s, e)
    BY <1>1, <1>4
  <2>2. /\ NexusCount(s) \in Nat
        /\ NexusCount(t) = NexusCount(s) + (IF kind = "NexusOperation" THEN 1 ELSE 0)
    BY <1>1, <1>2, <2>1, NexusAppend
  <2>3. /\ Len(s) \in Nat /\ Len(t) = Len(s) + 1 /\ t[Len(s) + 1] = e /\ \A i \in 1..Len(s) : t[i] = s[i]
    BY <1>1, <1>2, <2>1
  <2>4. ASSUME NEW x, Starts(s, "Timer", x) PROVE Starts(t, "Timer", x)
    <3>1. PICK i \in Commands(s, "Timer") : s[i].id = x
      BY <2>4 DEF Starts
    <3>2. i \in Commands(t, "Timer") /\ t[i].id = x
      BY <2>3, <3>1 DEF Commands, IsCommand
    <3> QED
      BY <3>2 DEF Starts
  <2>5. ASSUME kind = "Timer" PROVE Starts(t, "Timer", id)
    <3>1. Len(s) + 1 \in Commands(t, "Timer") /\ t[Len(s) + 1].id = id
      BY <1>2, <2>3, <2>5 DEF Commands, IsCommand
    <3> QED
      BY <3>1 DEF Starts
  <2>6. ASSUME NEW i \in Commands(t, "CancelTimer")
        PROVE  i \in Commands(s, "CancelTimer") /\ t[i] = s[i]
    <3>1. i \in 1..Len(t) /\ t[i].k = "CancelTimer" /\ t[i].t = "Command"
      BY <2>6 DEF Commands, IsCommand
    <3>2. i # Len(s) + 1
      BY <1>2, <1>3, <2>3, <3>1
    <3>3. i \in 1..Len(s)
      BY <2>3, <3>1, <3>2
    <3> QED
      BY <2>3, <3>1, <3>3 DEF Commands, IsCommand
  <2> QED
    BY <1>4, <2>2, <2>4, <2>5, <2>6 DEF s, t, id, new
<1>5. CASE ~new
  <2>1. t = s
    BY <1>1, <1>5
  <2>2. NexusCount(s) \in Nat
    BY <1>1, CommandsFinite DEF NexusCount
  <2>3. NexusCount(t) = NexusCount(s) + 0
    BY <2>1, <2>2
  <2> QED
    BY <1>5, <2>1, <2>2, <2>3 DEF s, t, id, new
<1> QED
  BY <1>4, <1>5

\* What the prescan knows, history knows.
LEMMA ScanKnows ==
  ASSUME NEW r, RunnerOK(r), NEW kind \in OpKinds, NEW id, OpKnown(r, kind, id)
  PROVE  /\ ScanScheduled(r.events, kind, id)
         /\ kind # "NexusOperation" => Starts(r.events, kind, id)
<1> DEFINE s == Scan(r)
           h == r.events
<1>1. s \in Seq(Event) /\ h \in Seq(Event) /\ Begins(s, h)
  <2>1. /\ r.scanned \in Nat /\ r.scanned <= Len(r.events) /\ r.events \in Seq(Event)
    BY DEF RunnerOK, Runner
  <2> QED
    BY <2>1, ScanEvent DEF Begins
<1>2. CASE kind = "NexusOperation"
  BY <1>2 DEF OpKnown
<1>3. CASE kind # "NexusOperation"
  <2>1. PICK i \in Commands(s, kind) : OpId(s, i) = id
    BY <1>3 DEF OpKnown, ScanScheduled, Schedulings
  <2> HIDE DEF s, h
  <2>2. i \in 1..Len(s)
    BY <2>1 DEF Commands
  <2>3. i \in Commands(h, kind) /\ OpId(h, i) = id
    BY <1>1, <2>1, <2>2, BeginsOpId
  <2>4. ScanScheduled(h, kind, id)
    BY <2>3 DEF ScanScheduled, Schedulings
  <2>5. kind # "NexusOperation" => Starts(h, kind, id)
    BY <2>3 DEF Starts, OpId, Commands, IsCommand
  <2> QED
    BY <2>4, <2>5 DEF h
<1> QED
  BY <1>2, <1>3

\* A call that schedules keeps what fits the history.
LEMMA ScheduledRunner ==
  ASSUME NEW r, RunnerOK(r), NEW q, Scheduled(r, q), NEW h, RunnerFits(r, h)
  PROVE  RunnerFits(q, h)
<1>1. PICK kind \in OpKinds, v \in Names : Adds(r, q, kind, v)
  BY ScheduledAdds
<1> DEFINE id == Len(r.futures[kind])
           m  == Len(r.futures["Timer"])
           n  == Len(q.futures["Timer"])
<1>2. /\ r.events = h /\ q.events = h /\ id \in Nat /\ RunnerOK(q)
  BY <1>1 DEF RunnerFits, Adds
<1>3. m \in Nat /\ n \in Nat /\ n = IF kind = "Timer" THEN m + 1 ELSE m
  BY <1>1, FuturesType DEF Adds
<1>4. /\ \A x : Starts(r.commands, "Timer", x) => Starts(q.commands, "Timer", x)
      /\ (~OpKnown(r, kind, id) /\ kind = "Timer") => Starts(q.commands, "Timer", id)
      /\ \A i \in Commands(q.commands, "CancelTimer") :
            i \in Commands(r.commands, "CancelTimer") /\ q.commands[i] = r.commands[i]
  BY <1>1, AddsCommand
<1>5. CancelsFit(q)
  <2> SUFFICES ASSUME NEW i \in Commands(q.commands, "CancelTimer") PROVE q.commands[i].id \in 0..(n - 1)
    BY DEF CancelsFit
  <2>1. q.commands[i].id \in 0..(m - 1)
    BY <1>4, Zenon DEF RunnerFits, CancelsFit
  <2> QED
    BY <1>3, <2>1
<1>6. TimersStarted(q, h)
  <2> SUFFICES ASSUME NEW i \in 1..n
               PROVE  Starts(h, "Timer", i - 1) \/ Starts(q.commands, "Timer", i - 1)
    BY DEF TimersStarted
  <2>1. CASE i \in 1..m
    BY <1>4, <2>1, Zenon DEF RunnerFits, TimersStarted
  <2>2. CASE i \notin 1..m
    <3>1. kind = "Timer" /\ i - 1 = id
      BY <1>3, <2>2
    <3>2. OpKnown(r, kind, id) => Starts(h, "Timer", id)
      BY <1>2, <3>1, ScanKnows
    <3> QED
      BY <1>4, <3>1, <3>2
  <2> QED
    BY <2>1, <2>2
<1> QED
  BY <1>2, <1>5, <1>6 DEF RunnerFits

\* In a replay the future is as the prescan has it.
LEMMA ScheduledReplay ==
  ASSUME NEW r, RunnerOK(r), NEW q, Scheduled(r, q), NEW h \in Seq(Event), NoUpdates(h),
         \A i \in 1..Len(h) : Grounded(h[i], h), Scan(r) = h, r.events = h, ReplayFits(r, h)
  PROVE  ReplayFits(q, h)
<1>0. \A k, x : OpKnown(r, k, x) = ScanScheduled(h, k, x)
  BY Zenon DEF OpKnown
<1>1. PICK kind \in OpKinds, v \in Names : Adds(r, q, kind, v)
  BY ScheduledAdds
<1> DEFINE id == Len(r.futures[kind])
           c  == CmdEvent(kind, id, v)
<1>2. /\ id \in Nat /\ RunnerOK(q)
      /\ \A k \in OpKinds : Len(q.futures[k]) = IF k = kind THEN id + 1 ELSE Len(r.futures[k])
      /\ \A k \in OpKinds : \A i \in 1..Len(r.futures[k]) : q.futures[k][i] = r.futures[k][i]
      /\ q.futures[kind][id + 1] = NextStatus(r, kind)
      /\ q.produced = Append(r.produced, c)
  BY <1>1 DEF Adds
<1>3. c.k = kind /\ c.id = id
  BY DEF CmdEvent
<1>4. /\ r.produced \in Seq(CommandEvent) /\ \A k \in OpKinds : Len(r.futures[k]) \in Nat
      /\ "Timer" \in OpKinds /\ "NexusOperation" \in OpKinds /\ kind # "CancelTimer"
  BY FuturesType DEF OpKinds
<1>5. /\ \A k \in OpKinds : Len(q.futures[k]) \in Nat /\ Len(r.futures[k]) <= Len(q.futures[k])
      /\ Len(q.futures[kind]) = id + 1
  <2> SUFFICES ASSUME NEW k \in OpKinds
               PROVE  /\ Len(q.futures[k]) \in Nat /\ Len(r.futures[k]) <= Len(q.futures[k])
                      /\ Len(q.futures[kind]) = id + 1
    OBVIOUS
  <2> QED
    BY <1>2, <1>4
<1> HIDE DEF c
<1>6. \A i \in 1..Len(q.produced) :
         \/ i \in 1..Len(r.produced) /\ q.produced[i] = r.produced[i]
         \/ q.produced[i] = c
  BY <1>2, <1>4
<1>7. NexusProduced(q)
  <2> SUFFICES ASSUME NEW i \in 1..Len(q.produced), q.produced[i].k = "NexusOperation"
               PROVE  q.produced[i].id < Len(q.futures["NexusOperation"])
    BY DEF NexusProduced
  <2>1. CASE q.produced[i] = c
    BY <1>2, <1>3, <1>5, <2>1
  <2>2. CASE i \in 1..Len(r.produced) /\ q.produced[i] = r.produced[i]
    <3>1. r.produced[i].id < Len(r.futures["NexusOperation"])
      BY <2>2 DEF ReplayFits, NexusProduced
    <3>2. r.produced[i] \in CommandEvent
      BY <1>4, <2>2
    <3>3. r.produced[i].id \in Int
      BY <3>2 DEF CommandEvent
    <3> QED
      BY <1>4, <1>5, <2>2, <3>1, <3>3
  <2> QED
    BY <1>6, <2>1, <2>2
<1>8. CancelsProduced(q)
  <2> SUFFICES ASSUME NEW i \in 1..Len(q.produced), q.produced[i].k = "CancelTimer"
               PROVE  /\ q.produced[i].id \in 0..(Len(q.futures["Timer"]) - 1)
                      /\ q.futures["Timer"][q.produced[i].id + 1] = "cancelled"
    BY DEF CancelsProduced
  <2>1. i \in 1..Len(r.produced) /\ q.produced[i] = r.produced[i]
    BY <1>3, <1>4, <1>6
  <2> DEFINE x == r.produced[i].id
  <2>2. x \in 0..(Len(r.futures["Timer"]) - 1) /\ r.futures["Timer"][x + 1] = "cancelled"
    BY <2>1 DEF ReplayFits, CancelsProduced
  <2> HIDE DEF x
  <2>3. x + 1 \in 1..Len(r.futures["Timer"]) /\ x \in 0..(Len(q.futures["Timer"]) - 1)
    <3> DEFINE m == Len(r.futures["Timer"])
               n == Len(q.futures["Timer"])
    <3>1. m \in Nat /\ n \in Nat /\ m <= n
      BY <1>4, <1>5
    <3>2. x \in 0..(m - 1)
      BY <2>2
    <3> HIDE DEF m, n
    <3>3. x + 1 \in 1..m /\ x \in 0..(n - 1)
      BY <3>1, <3>2
    <3> QED
      BY <3>3 DEF m, n
  <2>4. q.futures["Timer"][x + 1] = "cancelled"
    BY <1>2, <1>4, <2>2, <2>3
  <2> QED
    BY <2>1, <2>3, <2>4 DEF x
<1>9. Prescanned(q, h)
  <2> SUFFICES ASSUME NEW k \in OpKinds, NEW i \in 1..Len(q.futures[k])
               PROVE  q.futures[k][i] \in {"cancelled", ScanResolution(h, k, i - 1)}
    BY DEF Prescanned
  <2>1. CASE i \in 1..Len(r.futures[k])
    BY <1>2, <2>1, Zenon DEF ReplayFits, Prescanned
  <2>2. CASE i \notin 1..Len(r.futures[k])
    <3>1. k = kind /\ i = id + 1 /\ i - 1 = id
      BY <1>2, <1>4, <1>5, <2>2
    <3>2. ~ScanScheduled(h, kind, id) => ScanResolution(h, kind, id) = "pending"
      BY <1>2, UnscheduledPends
    <3>3. NextStatus(r, kind) = ScanResolution(h, kind, id)
      BY <1>0, <3>2, Zenon DEF NextStatus
    <3> QED
      BY <1>2, <3>1, <3>3
  <2> QED
    BY <2>1, <2>2
<1>10. NexusCount(q.commands) = 0 \/ NexusFits(q, h)
  <2> DEFINE new == ~ScanScheduled(h, kind, id)
             a   == NexusCount(r.commands)
             b   == NexusCount(q.commands)
             m   == Len(r.futures["NexusOperation"])
             n   == Len(q.futures["NexusOperation"])
             g   == NexusCount(h)
  <2>1. a \in Nat /\ b = a + (IF new /\ kind = "NexusOperation" THEN 1 ELSE 0)
    BY <1>0, <1>1, AddsCommand
  <2>2. m \in Nat /\ n = IF kind = "NexusOperation" THEN m + 1 ELSE m
    BY <1>2, <1>4
  <2>3. g \in Nat
    BY <1>2, NexusScheduled
  <2>4. kind = "NexusOperation" => id = m /\ (new => g <= m)
    <3> SUFFICES ASSUME kind = "NexusOperation", new PROVE g <= m
      OBVIOUS
    <3>1. ~(m < g)
      BY <2>2, NexusScheduled
    <3> QED
      BY <2>2, <2>3, <3>1
  <2>5. a = 0 \/ g + a <= m
    BY DEF ReplayFits, NexusFits
  <2> HIDE DEF new, a, b, m, n, g
  <2>6. b = 0 \/ g + b <= n
    BY <2>1, <2>2, <2>3, <2>4, <2>5
  <2> QED
    BY <2>6 DEF NexusFits, b, n, g
<1> QED
  BY <1>7, <1>8, <1>9, <1>10 DEF ReplayFits

\* A runner that owns every operation of the history schedules one it does not hold.
LEMMA ScheduledLive ==
  ASSUME NEW r, RunnerOK(r), NEW q, Scheduled(r, q), NEW h \in Seq(Event), NoUpdates(h),
         \A i \in 1..Len(h) : Grounded(h[i], h), r.events = h, Owns(r, h), LiveFits(r, h)
  PROVE  LiveFits(q, h)
<1>1. PICK kind \in OpKinds, v \in Names : Adds(r, q, kind, v)
  BY ScheduledAdds
<1> DEFINE id == Len(r.futures[kind])
<1>2. /\ id \in Nat /\ q.events = h
      /\ \A k \in OpKinds : Len(q.futures[k]) = IF k = kind THEN id + 1 ELSE Len(r.futures[k])
      /\ \A k \in OpKinds : \A i \in 1..Len(r.futures[k]) : q.futures[k][i] = r.futures[k][i]
      /\ q.futures[kind][id + 1] = NextStatus(r, kind)
  BY <1>1 DEF Adds
<1>3. \A k \in OpKinds : Len(r.futures[k]) \in Nat
  BY FuturesType
<1>4. NexusCount(h) \in Nat /\ NexusCount(r.commands) \in Nat
  BY <1>1, <1>2, AddsCommand, NexusScheduled
<1>5. ~ScanScheduled(h, kind, id)
  <2>1. CASE kind = "NexusOperation"
    <3>1. NexusCount(h) + NexusCount(r.commands) <= id
      BY <2>1 DEF LiveFits, NexusFits
    <3>2. ~(id < NexusCount(h))
      BY <1>2, <1>4, <3>1
    <3> QED
      BY <1>2, <2>1, <3>2, NexusScheduled
  <2>2. CASE kind # "NexusOperation"
    <3> SUFFICES ASSUME ScanScheduled(h, kind, id) PROVE FALSE
      OBVIOUS
    <3>1. PICK i \in Commands(h, kind) : OpId(h, i) = id
      BY DEF ScanScheduled, Schedulings
    <3>2. i \in 1..Len(h) /\ h[i].t = "Command" /\ h[i].k = kind /\ h[i].id = id
      BY <2>2, <3>1 DEF Commands, IsCommand, OpId
    <3>3. IsKeyed(h[i])
      BY <2>2, <3>2 DEF IsKeyed, KeyedKinds, OpKinds
    <3>4. id < Len(r.futures[kind])
      BY <3>2, <3>3, Zenon DEF Owns
    <3> QED
      BY <1>2, <3>4
  <2> QED
    BY <2>1, <2>2
<1>6. ~OpKnown(r, kind, id)
  BY <1>5, ScanKnows
<1>7. NextStatus(r, kind) = "pending" /\ Touching(h, 1..Len(h), kind, id) = {}
  BY <1>2, <1>5, <1>6, UnscheduledPends DEF NextStatus
<1>8. NexusFits(q, h)
  <2> DEFINE a   == NexusCount(r.commands)
             b   == NexusCount(q.commands)
             m   == Len(r.futures["NexusOperation"])
             n   == Len(q.futures["NexusOperation"])
             g   == NexusCount(h)
  <2>1. a \in Nat /\ b = a + (IF kind = "NexusOperation" THEN 1 ELSE 0)
    BY <1>1, <1>6, AddsCommand
  <2>2. m \in Nat /\ n = IF kind = "NexusOperation" THEN m + 1 ELSE m
    BY <1>2, FuturesType
  <2>3. g + a <= m /\ g \in Nat
    BY <1>4 DEF LiveFits, NexusFits
  <2> HIDE DEF a, b, m, n, g
  <2>4. g + b <= n
    BY <2>1, <2>2, <2>3
  <2> QED
    BY <2>4 DEF NexusFits, b, n, g
<1>9. FuturesFollow(q)
  <2> SUFFICES ASSUME NEW k \in OpKinds, NEW i \in 1..Len(q.futures[k])
               PROVE  LET S == Touching(q.events, 1..Len(q.events), k, i - 1)
                      IN  \/ q.futures[k][i] = "cancelled"
                          \/ q.futures[k][i] = IF S = {} THEN "pending" ELSE StatusAfter(q.events[LastOf(S)])
    BY DEF FuturesFollow
  <2>1. CASE i \in 1..Len(r.futures[k])
    <3>1. q.futures[k][i] = r.futures[k][i]
      BY <1>2, <2>1
    <3> QED
      BY <1>2, <2>1, <3>1, Zenon DEF LiveFits, FuturesFollow
  <2>2. CASE i \notin 1..Len(r.futures[k])
    <3>1. k = kind /\ i = id + 1 /\ i - 1 = id
      BY <1>2, <1>3, <2>2
    <3> QED
      BY <1>2, <1>7, <3>1, Zenon
  <2> QED
    BY <2>1, <2>2
<1> QED
  BY <1>8, <1>9 DEF LiveFits

-----------------------------------------------------------------------------
(***************************************************************************)
(* What the handler makes of a history: a new runner, one that is through  *)
(* with its replay, and one that was cached.                               *)
(***************************************************************************)
\* A new runner has made no call yet.
LEMMA NewFits ==
  ASSUME NEW r, NEW h, r.events = h, r.commands = << >>, r.produced = << >>,
         \A k \in OpKinds : r.futures[k] = << >>
  PROVE  RunnerFits(r, h) /\ ReplayFits(r, h)
<1>1. "Timer" \in OpKinds /\ "NexusOperation" \in OpKinds
  BY DEF OpKinds
<1>2. CancelsFit(r) /\ TimersStarted(r, h)
  BY <1>1 DEF CancelsFit, TimersStarted, Commands
<1>3. NexusProduced(r) /\ CancelsProduced(r)
  BY DEF NexusProduced, CancelsProduced
<1>4. Prescanned(r, h)
  BY DEF Prescanned
<1>5. NexusCount(r.commands) = 0
  <2>1. Commands(<< >>, "NexusOperation") = {}
    BY DEF Commands
  <2> QED
    BY <2>1, FS_EmptySet, Zenon DEF NexusCount
<1> QED
  BY <1>2, <1>3, <1>4, <1>5 DEF RunnerFits, ReplayFits

\* A command event that the check lets through was produced, with its kind and id.
LEMMA CheckedAt ==
  ASSUME NEW r, RunnerOK(r), CheckDeterminism(r), NEW kind \in {"NexusOperation", "CancelTimer"},
         NEW i \in Commands(Scan(r), kind)
  PROVE  \E p \in 1..Len(r.produced) : r.produced[p].k = kind /\ r.produced[p].id = OpId(Scan(r), i)
<1> DEFINE h   == Scan(r)
           pos == Ordinal(Events(h, "Command"), i) + 1
           e   == RecordedCommand(h, i)
<1>1. i \in 1..Len(h) /\ h[i].t = "Command" /\ h[i].k = kind /\ i \in Events(h, "Command")
  BY DEF Commands, IsCommand, Events
<1>2. pos <= Len(r.produced) /\ CommandMatchesEvent(r.produced[pos], e)
  BY <1>1, Zenon DEF CheckDeterminism, MatchReplayCommands
<1>3. e.k = kind /\ e.id = OpId(h, i)
  BY <1>1, Zenon DEF RecordedCommand, CmdEvent
<1>4. pos \in 1..Len(r.produced)
  <2>1. h \in Seq(Event) /\ Len(h) \in Nat
    BY ScanEvent
  <2>2. IsFiniteSet({j \in Events(h, "Command") : j < i})
    <3>1. IsFiniteSet(1..Len(h))
      BY <2>1, FS_Interval
    <3>2. {j \in Events(h, "Command") : j < i} \subseteq 1..Len(h)
      BY DEF Events
    <3> QED
      BY <3>1, <3>2, FS_Subset
  <2>3. Ordinal(Events(h, "Command"), i) \in Nat
    BY <2>2, FS_CardinalityType DEF Ordinal
  <2>4. Len(r.produced) \in Nat
    BY DEF RunnerOK, Runner
  <2> QED
    BY <1>2, <2>3, <2>4
<1> HIDE DEF pos, e
<1>5. r.produced[pos].k = kind /\ r.produced[pos].id = OpId(h, i)
  <2>1. r.produced[pos].k = kind
    BY <1>2, <1>3, Zenon DEF CommandMatchesEvent
  <2>2. r.produced[pos].id = e.id
    BY <1>2, <2>1 DEF CommandMatchesEvent, TerminalKinds
  <2> QED
    BY <1>3, <2>1, <2>2
<1> QED
  BY <1>4, <1>5

\* The futures of a replay the determinism check lets through are as the history
\* leaves them, the cancelled timers too: the replay has cancelled them again.
LEMMA CheckedFits ==
  ASSUME NEW r, RunnerOK(r), NEW h \in Seq(Event), Scan(r) = h, r.events = h, NoUpdates(h),
         ReplayFits(r, h), CheckDeterminism(r)
  PROVE  LiveFits(r, h)
<1>1. /\ \A k \in OpKinds : Len(r.futures[k]) \in Nat
      /\ Len(r.futures["NexusOperation"]) \in Nat /\ Len(r.futures["Timer"]) \in Nat
  BY FuturesType
<1>2. NexusFits(r, h)
  <2> DEFINE m == Len(r.futures["NexusOperation"])
             g == NexusCount(h)
  <2>1. CASE NexusCount(r.commands) = 0
    <3>1. m \in Nat /\ g \in Nat /\ (ScanScheduled(h, "NexusOperation", m) <=> m < g)
      BY <1>1, NexusScheduled
    <3>2. ASSUME m < g PROVE FALSE
      <4>1. PICK i \in Commands(h, "NexusOperation") : OpId(h, i) = m
        BY <3>1, <3>2 DEF ScanScheduled, Schedulings
      <4>2. PICK p \in 1..Len(r.produced) : r.produced[p].k = "NexusOperation" /\ r.produced[p].id = m
        BY <4>1, CheckedAt
      <4>3. m < m
        BY <4>2 DEF ReplayFits, NexusProduced
      <4> QED
        BY <3>1, <4>3
    <3> HIDE DEF m, g
    <3>3. g + 0 <= m
      BY <3>1, <3>2
    <3> QED
      BY <2>1, <3>3 DEF NexusFits, m, g
  <2>2. CASE NexusCount(r.commands) # 0
    BY <2>2 DEF ReplayFits
  <2> QED
    BY <2>1, <2>2
<1>3. ASSUME NEW k \in OpKinds, NEW i \in 1..Len(r.futures[k]), r.futures[k][i] # "cancelled"
      PROVE  LET S == Touching(h, 1..Len(h), k, i - 1)
             IN  r.futures[k][i] = IF S = {} THEN "pending" ELSE StatusAfter(h[LastOf(S)])
  <2> DEFINE S == Touching(h, 1..Len(h), k, i - 1)
             R == Resolutions(h, k, i - 1)
  <2>1. ASSUME NEW j \in Commands(h, "CancelTimer"), k = "Timer", h[j].id = i - 1 PROVE FALSE
    <3>1. OpId(h, j) = i - 1
      BY <2>1 DEF OpId, Commands, IsCommand
    <3>2. PICK p \in 1..Len(r.produced) : r.produced[p].k = "CancelTimer" /\ r.produced[p].id = i - 1
      BY <3>1, CheckedAt
    <3>3. r.futures["Timer"][(i - 1) + 1] = "cancelled"
      BY <3>2 DEF ReplayFits, CancelsProduced
    <3>4. (i - 1) + 1 = i
      BY <1>1
    <3> QED
      BY <1>3, <2>1, <3>3, <3>4
  <2>2. R \subseteq 1..Len(h) /\ \A j \in R : h[j].t = "Resolved"
    BY DEF Resolutions, Events
  <2>3. S = R
    <3> HIDE DEF R
    <3>1. S = (1..Len(h)) \cap (R \cup {j \in Commands(h, "CancelTimer") : k = "Timer" /\ h[j].id = i - 1})
      BY Zenon DEF Touching, R
    <3> QED
      BY <2>1, <2>2, <3>1
  <2>4. r.futures[k][i] = ScanResolution(h, k, i - 1)
    BY <1>3 DEF ReplayFits, Prescanned
  <2>5. ScanResolution(h, k, i - 1) = IF R = {} THEN "pending" ELSE h[LastOf(R)].d
    <3>1. Deferred(h) = {}
      BY NothingDeferred
    <3>2. R \ Deferred(h) = R
      BY <3>1
    <3> QED
      BY <3>2, Zenon DEF ScanResolution
  <2>6. R # {} => StatusAfter(h[LastOf(R)]) = h[LastOf(R)].d
    <3> HIDE DEF R
    <3>1. Len(h) \in Nat
      OBVIOUS
    <3>2. R # {} => LastOf(R) \in R
      BY <2>2, <3>1, LastOfIsMember
    <3> QED
      BY <2>2, <3>2 DEF StatusAfter
  <2> HIDE DEF S, R
  <2>7. r.futures[k][i] = IF S = {} THEN "pending" ELSE StatusAfter(h[LastOf(S)])
    BY <2>3, <2>4, <2>5, <2>6
  <2> QED
    BY <2>7 DEF S
<1>4. FuturesFollow(r)
  BY <1>3, Zenon DEF FuturesFollow
<1> QED
  BY <1>2, <1>4 DEF LiveFits

\* The futures after a sticky continuation.
LEMMA ApplyEventsFutures ==
  ASSUME NEW r, RunnerOK(r), NEW h \in Seq(Event), Follows(r, h),
         NEW k \in OpKinds, NEW i \in 1..Len(r.futures[k])
  PROVE  ApplyEvents(r, h).futures[k][i] =
            LET S == Touching(h, (Len(r.events) + 1)..Len(h), k, i - 1)
            IN  IF S = {} \/ r.futures[k][i] = "cancelled" THEN r.futures[k][i]
                ELSE StatusAfter(h[LastOf(S)])
<1> DEFINE m  == Len(r.events)
           es == r.events \o SubSeq(h, m + 1, Len(h))
           p  == [r EXCEPT !.events = es, !.commands = << >>, !.produced = << >>]
           N  == (m + 1)..Len(h)
           q  == ApplyEventsAt(p, N)
<1>1. r \in Runner
  BY DEF RunnerOK
<1>2. ApplyEvents(r, h) = q
  BY Zenon DEF ApplyEvents, LastEventId
<1>3. ApplyEvents(r, h).events = h
  BY ApplyEventsSignals
<1> HIDE DEF es, N
<1>4. p.events = es /\ p.futures = r.futures /\ "futures" \in DOMAIN p /\ "events" \in DOMAIN p
      /\ "signals" \in DOMAIN p /\ "cancel" \in DOMAIN p
  BY <1>1, Zenon DEF Runner
<1> HIDE DEF p
<1> DEFINE st(j, x) == LET S == Touching(p.events, N, j, x - 1)
                       IN  IF S = {} \/ p.futures[j][x] = "cancelled" THEN p.futures[j][x]
                           ELSE StatusAfter(p.events[LastOf(S)])
           fs == [j \in OpKinds |-> [x \in 1..Len(p.futures[j]) |-> st(j, x)]]
           ss == p.signals \cup (N \cap Events(p.events, "Signaled"))
           cs == p.cancel \/ N \cap Events(p.events, "CancelRequested") # {}
<1>5. q = [p EXCEPT !.futures = fs, !.signals = ss, !.cancel = cs]
  BY Zenon DEF ApplyEventsAt
<1> HIDE DEF q, ss, cs, st
<1>6. q.futures = fs /\ q.events = p.events
  BY <1>4, <1>5, Zenon
<1>7. q.futures[k][i] = st(k, i)
  <2>1. fs[k] = [x \in 1..Len(p.futures[k]) |-> st(k, x)]
    BY Zenon
  <2> HIDE DEF fs
  <2>2. q.futures[k] = [x \in 1..Len(p.futures[k]) |-> st(k, x)]
    BY <1>6, <2>1
  <2>3. i \in 1..Len(p.futures[k])
    BY <1>4
  <2> QED
    BY <2>2, <2>3, Zenon
<1>8. p.events = h
  BY <1>2, <1>3, <1>6
<1> DEFINE T == Touching(h, N, k, i - 1)
<1>9. st(k, i) = IF Touching(p.events, N, k, i - 1) = {} \/ p.futures[k][i] = "cancelled"
                 THEN p.futures[k][i]
                 ELSE StatusAfter(p.events[LastOf(Touching(p.events, N, k, i - 1))])
  BY Zenon DEF st
<1>10. Touching(p.events, N, k, i - 1) = T
  BY <1>8, Zenon
<1> HIDE DEF T
<1>11. st(k, i) = IF T = {} \/ r.futures[k][i] = "cancelled" THEN r.futures[k][i]
                  ELSE StatusAfter(h[LastOf(T)])
  BY <1>4, <1>8, <1>9, <1>10
<1>12. T = Touching(h, (Len(r.events) + 1)..Len(h), k, i - 1)
  BY DEF T, N
<1> QED
  BY <1>2, <1>7, <1>11, <1>12

\* A runner that was cached, and is given the rest of the history.
LEMMA ApplyEventsFits ==
  ASSUME NEW r, RunnerOK(r), NEW h \in Seq(Event), Follows(r, h), Backward(h), FuturesFollow(r),
         NexusCount(h) <= Len(r.futures["NexusOperation"]),
         \A i \in 1..Len(r.futures["Timer"]) : Starts(h, "Timer", i - 1)
  PROVE  RunnerFits(ApplyEvents(r, h), h) /\ LiveFits(ApplyEvents(r, h), h)
<1> DEFINE q == ApplyEvents(r, h)
           m == Len(r.events)
<1>1. q.events = h /\ q.commands = << >>
  BY ApplyEventsSignals
<1>2. /\ r.events \in Seq(Event) /\ m \in Nat /\ Len(h) \in Nat /\ m <= Len(h)
      /\ Begins(r.events, h)
  <2>1. r.events \in Seq(Event)
    BY FuturesType
  <2> QED
    BY <2>1 DEF Follows, Begins
<1>3. \A k \in OpKinds : Len(q.futures[k]) = Len(r.futures[k])
  BY <1>2, ApplyEventsOK
<1>4. /\ Len(q.futures["NexusOperation"]) = Len(r.futures["NexusOperation"])
      /\ Len(q.futures["Timer"]) = Len(r.futures["Timer"])
  BY <1>3, FuturesType
<1>5. \A k \in OpKinds : \A i \in 1..Len(r.futures[k]) : q.futures[k][i] =
            LET S == Touching(h, (m + 1)..Len(h), k, i - 1)
            IN  IF S = {} \/ r.futures[k][i] = "cancelled" THEN r.futures[k][i]
                ELSE StatusAfter(h[LastOf(S)])
  BY ApplyEventsFutures
<1> HIDE DEF q
<1>6. RunnerFits(q, h)
  <2>1. CancelsFit(q)
    BY <1>1 DEF CancelsFit, Commands
  <2>2. TimersStarted(q, h)
    BY <1>4, Zenon DEF TimersStarted
  <2> QED
    BY <1>1, <2>1, <2>2 DEF RunnerFits
<1>7. NexusFits(q, h)
  <2>1. NexusCount(q.commands) = 0
    <3>1. Commands(<< >>, "NexusOperation") = {}
      BY DEF Commands
    <3> QED
      BY <1>1, <3>1, FS_EmptySet, Zenon DEF NexusCount
  <2>2. NexusCount(h) \in Nat
    BY CommandsFinite DEF NexusCount
  <2> QED
    BY <1>4, <2>1, <2>2 DEF NexusFits
<1>8. ASSUME NEW k \in OpKinds, NEW i \in 1..Len(r.futures[k]), q.futures[k][i] # "cancelled"
      PROVE  LET S == Touching(h, 1..Len(h), k, i - 1)
             IN  q.futures[k][i] = IF S = {} THEN "pending" ELSE StatusAfter(h[LastOf(S)])
  <2> DEFINE S == Touching(h, 1..Len(h), k, i - 1)
             T == Touching(h, (m + 1)..Len(h), k, i - 1)
             O == Touching(r.events, 1..m, k, i - 1)
  <2>1. Touching(h, 1..m, k, i - 1) = O
    BY <1>2, BeginsTouching
  <2>2. /\ S = O \cup T /\ S \subseteq 1..Len(h) /\ O \subseteq 1..m /\ T \subseteq (m + 1)..Len(h)
    <3> DEFINE X == Resolutions(h, k, i - 1) \cup
                      {j \in Commands(h, "CancelTimer") : k = "Timer" /\ h[j].id = i - 1}
    <3>1. S = (1..Len(h)) \cap X /\ T = ((m + 1)..Len(h)) \cap X /\ O = (1..m) \cap X
      BY <2>1, Zenon DEF Touching
    <3> HIDE DEF X, S, T, O
    <3>2. 1..Len(h) = (1..m) \cup ((m + 1)..Len(h))
      BY <1>2
    <3> QED
      BY <3>1, <3>2
  <2>3. q.futures[k][i] = IF T = {} \/ r.futures[k][i] = "cancelled" THEN r.futures[k][i]
                          ELSE StatusAfter(h[LastOf(T)])
    BY <1>5
  <2>4. r.futures[k][i] # "cancelled"
    BY <1>8, <2>3
  <2>5. r.futures[k][i] = IF O = {} THEN "pending" ELSE StatusAfter(r.events[LastOf(O)])
    BY <2>4, Zenon DEF FuturesFollow
  <2> HIDE DEF S, T, O
  <2>6. CASE T = {}
    <3>1. S = O
      BY <2>2, <2>6
    <3>2. O # {} => LastOf(O) \in 1..m
      BY <1>2, <2>2, LastOfIsMember
    <3>3. O # {} => r.events[LastOf(O)] = h[LastOf(O)]
      BY <3>2 DEF Follows
    <3>4. q.futures[k][i] = r.futures[k][i]
      BY <2>3, <2>6
    <3>5. q.futures[k][i] = IF S = {} THEN "pending" ELSE StatusAfter(h[LastOf(S)])
      BY <2>5, <3>1, <3>3, <3>4
    <3> QED
      BY <3>5 DEF S
  <2>7. CASE T # {}
    <3>1. /\ LastOf(T) \in T /\ \A j \in T : j <= LastOf(T)
          /\ LastOf(S) \in S /\ \A j \in S : j <= LastOf(S)
      <4>1. S # {} /\ T \subseteq 1..Len(h)
        BY <2>2, <2>7
      <4> QED
        BY <1>2, <2>2, <2>7, <4>1, LastOfIsMember
    <3>2. LastOf(T) = LastOf(S)
      <4> DEFINE a == LastOf(T)
                 b == LastOf(S)
      <4>1. a \in T /\ b \in S /\ (\A j \in T : j <= a) /\ (\A j \in S : j <= b)
        BY <3>1
      <4> HIDE DEF a, b
      <4>2. a \in S /\ a <= b /\ a \in (m + 1)..Len(h)
        BY <2>2, <4>1
      <4>3. b \in T
        BY <1>2, <2>2, <4>1, <4>2
      <4>4. a = b
        BY <1>2, <2>2, <4>1, <4>2, <4>3
      <4> QED
        BY <4>4 DEF a, b
    <3>3. S # {}
      BY <2>2, <2>7
    <3>4. q.futures[k][i] = IF S = {} THEN "pending" ELSE StatusAfter(h[LastOf(S)])
      BY <2>3, <2>4, <2>7, <3>2, <3>3
    <3> QED
      BY <3>4 DEF S
  <2> QED
    BY <2>6, <2>7
<1>9. FuturesFollow(q)
  <2> SUFFICES ASSUME NEW k \in OpKinds, NEW i \in 1..Len(q.futures[k])
               PROVE  LET S == Touching(h, 1..Len(h), k, i - 1)
                      IN  \/ q.futures[k][i] = "cancelled"
                          \/ q.futures[k][i] = IF S = {} THEN "pending" ELSE StatusAfter(h[LastOf(S)])
    BY <1>1, Zenon DEF FuturesFollow
  <2>1. i \in 1..Len(r.futures[k])
    BY <1>3
  <2> QED
    BY <1>8, <2>1, Zenon
<1> QED
  BY <1>6, <1>7, <1>9 DEF LiveFits, q

-----------------------------------------------------------------------------
(***************************************************************************)
(* The history the server writes.                                          *)
(***************************************************************************)
Fits(h) == Backward(h) /\ \A i \in 1..Len(h) : Grounded(h[i], h)

\* Events that resolve nothing, cancel no timer and start no Nexus operation.
Inert(t) ==
    \A i \in 1..Len(t) : /\ t[i].t # "Resolved"
                         /\ t[i].t = "Command" => t[i].k # "CancelTimer" /\ t[i].k # "NexusOperation"

\* A beginning of a history without updates has none.
LEMMA BeginsNoUpdates ==
  ASSUME NEW h \in Seq(Event), NEW g, Begins(h, g), NoUpdates(g)
  PROVE  NoUpdates(h)
<1>1. g \in Seq(Event) /\ Len(h) \in Nat /\ Len(g) \in Nat /\ Len(h) <= Len(g)
  BY DEF Begins
<1>2. \A i \in 1..Len(h) : i \in 1..Len(g) /\ g[i] = h[i]
  BY <1>1 DEF Begins
<1> QED
  BY <1>2 DEF NoUpdates

\* What starts in a part starts in the whole.
LEMMA StartsConcat ==
  ASSUME NEW s \in Seq(Event), NEW t \in Seq(Event), NEW kind, NEW id,
         Starts(s, kind, id) \/ Starts(t, kind, id)
  PROVE  Starts(s \o t, kind, id)
<1> DEFINE u == s \o t
<1>1. /\ Len(s) \in Nat /\ Len(t) \in Nat /\ Len(u) = Len(s) + Len(t)
      /\ \A i \in 1..Len(s) : u[i] = s[i]
      /\ \A j \in 1..Len(t) : u[Len(s) + j] = t[j]
  OBVIOUS
<1> HIDE DEF u
<1>2. CASE Starts(s, kind, id)
  <2>1. PICK i \in Commands(s, kind) : s[i].id = id
    BY <1>2 DEF Starts
  <2>2. i \in Commands(u, kind) /\ u[i].id = id
    BY <1>1, <2>1 DEF Commands, IsCommand
  <2> QED
    BY <2>2 DEF Starts, u
<1>3. CASE Starts(t, kind, id)
  <2>1. PICK j \in Commands(t, kind) : t[j].id = id
    BY <1>3 DEF Starts
  <2>2. Len(s) + j \in Commands(u, kind) /\ u[Len(s) + j].id = id
    BY <1>1, <2>1 DEF Commands, IsCommand
  <2> QED
    BY <2>2 DEF Starts, u
<1> QED
  BY <1>2, <1>3

\* What is grounded in a part is grounded in the whole.
LEMMA GroundedConcat ==
  ASSUME NEW s \in Seq(Event), NEW t \in Seq(Event), NEW e, Grounded(e, s)
  PROVE  Grounded(e, s \o t)
  BY StartsConcat DEF Grounded

\* A history goes on with grounded events that refer back to it.
LEMMA FitsConcat ==
  ASSUME NEW s \in Seq(Event), NEW t \in Seq(Event), Fits(s),
         \A i \in 1..Len(t) : Grounded(t[i], s \o t) /\ (t[i].t = "Resolved" => t[i].n <= Len(s))
  PROVE  s \o t \in Seq(Event) /\ Fits(s \o t)
<1> DEFINE u == s \o t
<1>1. /\ u \in Seq(Event) /\ Len(s) \in Nat /\ Len(t) \in Nat
      /\ \A i \in 1..Len(u) : \/ i \in 1..Len(s) /\ u[i] = s[i]
                              \/ i - Len(s) \in 1..Len(t) /\ u[i] = t[i - Len(s)]
  BY ConcatEvent
<1>2. \A e : Grounded(e, s) => Grounded(e, u)
  BY GroundedConcat
<1>3. \A i \in 1..Len(t) : Grounded(t[i], u) /\ (t[i].t = "Resolved" => t[i].n <= Len(s))
  OBVIOUS
<1> HIDE DEF u
<1>4. ASSUME NEW i \in 1..Len(u)
      PROVE  Grounded(u[i], u) /\ (u[i].t = "Resolved" => u[i].n < i)
  <2>1. CASE i \in 1..Len(s) /\ u[i] = s[i]
    BY <1>2, <2>1 DEF Fits, Backward
  <2>2. CASE i - Len(s) \in 1..Len(t) /\ u[i] = t[i - Len(s)]
    <3>1. Grounded(u[i], u) /\ (u[i].t = "Resolved" => u[i].n <= Len(s))
      BY <1>3, <2>2
    <3>2. u[i] \in Event /\ i \in Int
      BY <1>1
    <3>3. u[i].n \in Int
      BY <3>2 DEF Event
    <3>4. Len(s) < i
      BY <1>1, <2>2, <3>2
    <3> QED
      BY <1>1, <3>1, <3>2, <3>3, <3>4
  <2> QED
    BY <1>1, <2>1, <2>2
<1> QED
  BY <1>1, <1>4 DEF Fits, Backward, u

\* Inert events may follow, and start no Nexus operation.
LEMMA InertConcat ==
  ASSUME NEW s \in Seq(Event), NEW t \in Seq(Event), Inert(t), Fits(s)
  PROVE  s \o t \in Seq(Event) /\ Fits(s \o t) /\ NexusCount(s \o t) = NexusCount(s)
<1>1. \A i \in 1..Len(t) : Grounded(t[i], s \o t) /\ (t[i].t = "Resolved" => t[i].n <= Len(s))
  BY DEF Inert, Grounded
<1>2. NexusCount(t) = 0
  BY NexusNone DEF Inert
<1>3. NexusCount(s) \in Nat /\ NexusCount(s \o t) = NexusCount(s) + NexusCount(t)
  BY NexusConcat
<1>4. NexusCount(s \o t) = NexusCount(s)
  BY <1>2, <1>3
<1> QED
  BY <1>1, <1>4, FitsConcat

\* An event without fields is inert, unless it is a resolution or a command.
LEMMA PlainInert ==
  ASSUME NEW type \in EventTypes, type # "Resolved", type # "Command"
  PROVE  <<Plain(type)>> \in Seq(Event) /\ Inert(<<Plain(type)>>)
<1> DEFINE e == Plain(type)
<1>1. e \in Event /\ e.t = type
  BY PlainIs
<1> HIDE DEF e
<1>2. <<e>> \in Seq(Event) /\ Inert(<<e>>)
  BY <1>1 DEF Inert
<1> QED
  BY <1>2 DEF e

\* So it may be appended.
LEMMA PlainAppended ==
  ASSUME NEW s \in Seq(Event), Fits(s), NEW type \in EventTypes, type # "Resolved", type # "Command"
  PROVE  LET g == Append(s, Plain(type))
         IN  /\ g \in Seq(Event) /\ Fits(g) /\ NexusCount(g) = NexusCount(s) /\ Len(g) = Len(s) + 1
             /\ Begins(s, g)
             /\ \A kind, id : Starts(s, kind, id) => Starts(g, kind, id)
             /\ \A e : Grounded(e, s) => Grounded(e, g)
<1> DEFINE e == Plain(type)
           t == <<e>>
<1>1. e \in Event /\ t \in Seq(Event) /\ Inert(t)
  BY PlainInert, PlainIs
<1> HIDE DEF e
<1>2. Append(s, e) = s \o t
  BY <1>1, EventAppended
<1>3. Begins(s, Append(s, e)) /\ Len(Append(s, e)) = Len(s) + 1
  BY <1>1, AppendFollows DEF Begins
<1> HIDE DEF t
<1>4. s \o t \in Seq(Event) /\ Fits(s \o t) /\ NexusCount(s \o t) = NexusCount(s)
  BY <1>1, InertConcat
<1>5. /\ \A kind, id : Starts(s, kind, id) => Starts(s \o t, kind, id)
      /\ \A x : Grounded(x, s) => Grounded(x, s \o t)
  BY <1>1, StartsConcat, GroundedConcat
<1> QED
  BY <1>2, <1>3, <1>4, <1>5 DEF e

\* A sequence of events without its last one.
LEMMA FrontIs ==
  ASSUME NEW s \in Seq(Event), Len(s) > 0
  PROVE  LET d == SubSeq(s, 1, Len(s) - 1)
         IN  /\ d \in Seq(Event) /\ Len(d) = Len(s) - 1 /\ Len(s) \in Nat
             /\ \A i \in 1..Len(d) : i \in 1..Len(s) /\ d[i] = s[i]
<1> DEFINE n == Len(s) - 1
<1>1. Len(s) \in Nat /\ n \in Nat /\ n < Len(s) /\ 1 \in Int /\ n \in Int
  OBVIOUS
<1>2. \A i \in 1..n : i \in 1..Len(s) /\ s[i] \in Event
  BY <1>1
<1> HIDE DEF n
<1>3. /\ SubSeq(s, 1, n) \in Seq(Event) /\ Len(SubSeq(s, 1, n)) = n
      /\ \A i \in 1..n : SubSeq(s, 1, n)[i] = s[i]
  BY <1>1, <1>2, SubSeqProperties
<1> QED
  BY <1>1, <1>2, <1>3 DEF n

\* A history without its last event, which is no command.
LEMMA FitsFront ==
  ASSUME NEW s \in Seq(Event), Len(s) > 0, s[Len(s)].t # "Command", Fits(s)
  PROVE  LET d == SubSeq(s, 1, Len(s) - 1)
         IN  /\ d \in Seq(Event) /\ Fits(d) /\ Len(d) = Len(s) - 1
             /\ \A i \in 1..Len(d) : d[i] = s[i]
             /\ \A e : Grounded(e, s) => Grounded(e, d)
<1> DEFINE d == SubSeq(s, 1, Len(s) - 1)
<1>1. /\ d \in Seq(Event) /\ Len(s) \in Nat /\ Len(d) = Len(s) - 1
      /\ \A i \in 1..Len(d) : i \in 1..Len(s) /\ d[i] = s[i]
  BY FrontIs
<1> HIDE DEF d
<1>2. ASSUME NEW kind, NEW id, Starts(s, kind, id) PROVE Starts(d, kind, id)
  <2>1. PICK i \in Commands(s, kind) : s[i].id = id
    BY <1>2 DEF Starts
  <2>2. i \in 1..Len(s) /\ i # Len(s)
    BY <2>1 DEF Commands, IsCommand
  <2>3. i \in 1..Len(d)
    BY <1>1, <2>2
  <2>4. i \in Commands(d, kind) /\ d[i].id = id
    BY <1>1, <2>1, <2>3 DEF Commands, IsCommand
  <2> QED
    BY <2>4 DEF Starts
<1>3. \A e : Grounded(e, s) => Grounded(e, d)
  BY <1>2 DEF Grounded
<1>4. Fits(d)
  BY <1>1, <1>3 DEF Fits, Backward
<1> QED
  BY <1>1, <1>3, <1>4 DEF d

\* A failed task keeps a history that fits; the updates of the run, if any, stay.
LEMMA FailedFits ==
  ASSUME TypeInv, SigInv, wft = "started", TaskFailed
  PROVE  /\ NoUpdates(history)' => NoUpdates(history)
         /\ HistoryFits => HistoryFits'
<1> DEFINE failed == Append(history, Plain("WorkflowTaskFailed"))
           dropped == SubSeq(history, 1, Len(history) - 1)
           x == IF attempt = 1 THEN failed ELSE dropped
<1>1. history \in Seq(Event) /\ buffered \in Seq(Event) /\ Len(history) \in Nat
  BY DEF TypeInv, TypeOK
<1>2. Len(history) > 0 /\ history[Len(history)].t = "WorkflowTaskStarted"
  BY DEF SigInv, SignalsNumbered
<1>3. history' = x \o buffered /\ buffered' = << >>
  BY Zenon DEF TaskFailed
<1>4. /\ failed \in Seq(Event) /\ Len(failed) = Len(history) + 1
      /\ \A i \in 1..Len(history) : failed[i] = history[i]
  <2>1. Plain("WorkflowTaskFailed") \in Event
    BY PlainIs DEF EventTypes
  <2> QED
    BY <1>1, <2>1, AppendFollows, AppendedHistory
<1>5. /\ dropped \in Seq(Event) /\ Len(dropped) = Len(history) - 1
      /\ \A i \in 1..Len(dropped) : dropped[i] = history[i]
  BY <1>1, <1>2, FrontIs
<1>6. ASSUME Fits(history)
      PROVE  Fits(failed) /\ Fits(dropped) /\ \A e : Grounded(e, history) => Grounded(e, failed) /\ Grounded(e, dropped)
  <2>1. "WorkflowTaskFailed" \in EventTypes
    BY DEF EventTypes
  <2> QED
    BY <1>1, <1>2, <1>6, <2>1, PlainAppended, FitsFront
<1> HIDE DEF failed, dropped
<1>7. /\ x \in Seq(Event) /\ Len(x) \in Nat /\ Len(history) - 1 <= Len(x)
      /\ \A i \in 1..(Len(history) - 1) : i \in 1..Len(x) /\ x[i] = history[i]
  BY <1>1, <1>2, <1>4, <1>5
<1>8. Fits(history) => Fits(x) /\ \A e : Grounded(e, history) => Grounded(e, x)
  BY <1>6
<1> HIDE DEF x
<1>9. /\ x \o buffered \in Seq(Event) /\ Len(x) <= Len(x \o buffered) /\ Len(x \o buffered) \in Nat
      /\ \A i \in 1..Len(x) : (x \o buffered)[i] = x[i]
  BY <1>1, <1>7
<1>10. ASSUME NoUpdates(history)' PROVE NoUpdates(history)
  <2> SUFFICES ASSUME NEW i \in 1..Len(history), i # Len(history) PROVE history[i].t # "UpdateAccepted"
    BY <1>2 DEF NoUpdates
  <2>1. i \in 1..(Len(history) - 1)
    BY <1>1
  <2>2. i \in 1..Len(x) /\ x[i] = history[i]
    BY <1>7, <2>1
  <2>3. i \in 1..Len(history') /\ history'[i] = history[i]
    BY <1>3, <1>7, <1>9, <2>2
  <2> QED
    BY <1>10, <2>3 DEF NoUpdates
<1>11. ASSUME HistoryFits PROVE HistoryFits'
  <2>1. Fits(history) /\ Fits(x) /\ \A e : Grounded(e, history) => Grounded(e, x)
    BY <1>8, <1>11 DEF HistoryFits, Fits
  <2>2. \A i \in 1..Len(buffered) : /\ Grounded(buffered[i], x \o buffered)
                                    /\ buffered[i].t = "Resolved" => buffered[i].n <= Len(x)
    <3> SUFFICES ASSUME NEW i \in 1..Len(buffered)
                 PROVE  /\ Grounded(buffered[i], x \o buffered)
                        /\ buffered[i].t = "Resolved" => buffered[i].n <= Len(x)
      OBVIOUS
    <3>1. Grounded(buffered[i], history) /\ (buffered[i].t = "Resolved" => buffered[i].n < Len(history))
      BY <1>11 DEF HistoryFits
    <3>2. Grounded(buffered[i], x \o buffered)
      BY <1>1, <1>7, <2>1, <3>1, GroundedConcat
    <3>3. buffered[i] \in Event
      BY <1>1
    <3>4. buffered[i].n \in Int
      BY <3>3 DEF Event
    <3> QED
      BY <1>1, <1>7, <3>1, <3>2, <3>4
  <2>3. Fits(x \o buffered)
    BY <1>1, <1>7, <2>1, <2>2, FitsConcat
  <2> QED
    BY <1>3, <2>3 DEF HistoryFits, Fits
<1> QED
  BY <1>10, <1>11

\* So does a completed one, whose commands cancel timers that were started; the
\* Nexus operations of the commands, and the timers, are added to it.
LEMMA CompletedFits ==
  ASSUME TypeInv, HistoryFits, NEW cmds \in Seq(Event), OnlyCommands(cmds),
         \A i \in Commands(cmds, "CancelTimer") :
            Starts(history, "Timer", cmds[i].id) \/ Starts(cmds, "Timer", cmds[i].id),
         NEW answered, NEW n \in Nat, NEW final \in Seq(Event), Inert(final), NEW queue,
         TaskCompleted(cmds, answered, n, final, queue)
  PROVE  /\ HistoryFits'
         /\ NexusCount(history') = NexusCount(history) + NexusCount(cmds)
         /\ \A x : Starts(history, "Timer", x) \/ Starts(cmds, "Timer", x) => Starts(history', "Timer", x)
<1> DEFINE updates == [i \in 1..n |-> Plain("UpdateAccepted")]
           done    == Append(history, Plain("WorkflowTaskCompleted"))
           a       == done \o cmds
           b       == a \o updates
           c       == b \o final
           count   == NexusCount(history) + NexusCount(cmds)
           Begun(h) == /\ \A x : Starts(history, "Timer", x) \/ Starts(cmds, "Timer", x) => Starts(h, "Timer", x)
                       /\ \A e : Grounded(e, history) => Grounded(e, h)
                       /\ Len(history) <= Len(h)
           Keeps(h) == h \in Seq(Event) /\ Fits(h) /\ NexusCount(h) = count /\ Begun(h)
<1>1. history \in Seq(Event) /\ buffered \in Seq(Event) /\ Len(history) \in Nat /\ Fits(history)
  BY DEF TypeInv, TypeOK, HistoryFits, Fits
<1>2. updates \in Seq(Event) /\ Inert(updates)
  <2> DEFINE e == Plain("UpdateAccepted")
  <2>1. e \in Event /\ e.t = "UpdateAccepted"
    BY PlainIs DEF EventTypes
  <2> HIDE DEF e
  <2>2. [i \in 1..n |-> e] \in Seq(Event) /\ Inert([i \in 1..n |-> e])
    BY <2>1 DEF Inert
  <2> QED
    BY <2>2 DEF e
<1>3. history' = c \o buffered /\ buffered' = << >>
  BY Zenon DEF TaskCompleted
<1>4. /\ done \in Seq(Event) /\ Fits(done) /\ NexusCount(done) = NexusCount(history)
      /\ Len(done) = Len(history) + 1
      /\ \A kind, id : Starts(history, kind, id) => Starts(done, kind, id)
      /\ \A e : Grounded(e, history) => Grounded(e, done)
  <2>1. "WorkflowTaskCompleted" \in EventTypes
    BY DEF EventTypes
  <2> QED
    BY <1>1, <2>1, PlainAppended
<1> HIDE DEF updates, done
<1>5. Keeps(a)
  <2>1. \A x : Starts(history, "Timer", x) \/ Starts(cmds, "Timer", x) => Starts(a, "Timer", x)
    BY <1>4, StartsConcat
  <2>2. \A e : Grounded(e, history) => Grounded(e, a)
    BY <1>4, GroundedConcat
  <2>3. \A i \in 1..Len(cmds) : Grounded(cmds[i], a) /\ (cmds[i].t = "Resolved" => cmds[i].n <= Len(done))
    <3> SUFFICES ASSUME NEW i \in 1..Len(cmds) PROVE Grounded(cmds[i], a) /\ cmds[i].t # "Resolved"
      OBVIOUS
    <3>1. cmds[i].t = "Command"
      BY DEF OnlyCommands
    <3>2. cmds[i].k = "CancelTimer" => i \in Commands(cmds, "CancelTimer")
      BY <3>1 DEF Commands, IsCommand
    <3>3. cmds[i].k = "CancelTimer" => Starts(a, "Timer", cmds[i].id)
      BY <2>1, <3>2
    <3> QED
      BY <3>1, <3>3 DEF Grounded
  <2>4. a \in Seq(Event) /\ Fits(a)
    BY <1>4, <2>3, FitsConcat
  <2>5. NexusCount(a) = count
    <3>1. NexusCount(a) = NexusCount(done) + NexusCount(cmds)
      BY <1>4, NexusConcat
    <3> QED
      BY <1>4, <3>1, Zenon
  <2>6. Len(history) <= Len(a)
    <3>1. Len(a) = Len(done) + Len(cmds) /\ Len(done) \in Nat /\ Len(cmds) \in Nat
      BY <1>4
    <3> HIDE DEF a
    <3> QED
      BY <1>1, <1>4, <3>1
  <2> QED
    BY <2>1, <2>2, <2>4, <2>5, <2>6
<1> HIDE DEF a, count
<1>6. ASSUME NEW s \in Seq(Event), NEW t \in Seq(Event), Begun(s) PROVE Begun(s \o t)
  <2>1. Len(s) \in Nat /\ Len(s \o t) = Len(s) + Len(t) /\ Len(t) \in Nat
    OBVIOUS
  <2>2. Len(history) <= Len(s \o t)
    BY <1>1, <1>6, <2>1
  <2> QED
    BY <1>6, <2>2, StartsConcat, GroundedConcat
<1>7. ASSUME NEW s, NEW t \in Seq(Event), Keeps(s), Inert(t) PROVE Keeps(s \o t)
  <2>1. s \in Seq(Event) /\ Fits(s) /\ NexusCount(s) = count /\ Begun(s)
    BY <1>7
  <2>2. Begun(s \o t)
    BY <1>6, <2>1
  <2> HIDE DEF Begun
  <2> QED
    BY <1>7, <2>1, <2>2, InertConcat
<1> HIDE DEF Keeps
<1>8. Keeps(b)
  BY <1>2, <1>5, <1>7
<1> HIDE DEF b
<1>9. Keeps(c)
  BY <1>7, <1>8
<1> HIDE DEF c
<1>10. c \in Seq(Event) /\ Fits(c) /\ NexusCount(c) = count /\ Begun(c) /\ Len(c) \in Nat
  BY <1>9 DEF Keeps
<1>11. Begun(c \o buffered)
  BY <1>1, <1>6, <1>10
<1>12. \A i \in 1..Len(buffered) : /\ Grounded(buffered[i], c \o buffered)
                                   /\ buffered[i].t = "Resolved" => buffered[i].n <= Len(c)
  <2> SUFFICES ASSUME NEW i \in 1..Len(buffered)
               PROVE  /\ Grounded(buffered[i], c \o buffered)
                      /\ buffered[i].t = "Resolved" => buffered[i].n <= Len(c)
    OBVIOUS
  <2>1. Grounded(buffered[i], history) /\ (buffered[i].t = "Resolved" => buffered[i].n < Len(history))
    BY DEF HistoryFits
  <2>2. buffered[i] \in Event
    BY <1>1
  <2>3. buffered[i].n \in Int
    BY <2>2 DEF Event
  <2> QED
    BY <1>1, <1>10, <1>11, <2>1, <2>3
<1>13. c \o buffered \in Seq(Event) /\ Fits(c \o buffered)
  BY <1>1, <1>10, <1>12, FitsConcat
<1>14. NexusCount(c \o buffered) = count
  <2>1. NexusCount(buffered) = 0
    BY <1>1, NexusNone DEF HistoryFits
  <2>2. NexusCount(c \o buffered) = NexusCount(c) + NexusCount(buffered) /\ NexusCount(c) \in Nat
    BY <1>1, <1>10, NexusConcat
  <2> QED
    BY <1>10, <2>1, <2>2
<1>15. HistoryFits'
  BY <1>3, <1>13 DEF HistoryFits, Fits
<1> QED
  BY <1>3, <1>11, <1>14, <1>15 DEF count

-----------------------------------------------------------------------------
(***************************************************************************)
(* The steps of the server keep the invariant.                             *)
(***************************************************************************)
\* The terminal command is inert.
LEMMA FinalInert == ASSUME RunnerOK(runner) PROVE Inert(Final)
<1> DEFINE e == Command(runner.done, 0, "nil")
<1>1. CASE runner.done = "nil"
  BY <1>1 DEF Final, Inert
<1>2. CASE runner.done # "nil"
  <2>1. /\ runner.done \in CommandKinds /\ runner.done # "CancelTimer"
        /\ runner.done # "NexusOperation" /\ "nil" \in Names /\ 0 \in Int
    BY <1>2 DEF RunnerOK, Runner, TerminalKinds, CommandKinds, Names
  <2>2. e.k = runner.done /\ e.t = "Command"
    BY <2>1, CommandIs
  <2>3. Final = <<e>>
    BY <1>2 DEF Final
  <2> HIDE DEF e
  <2> QED
    BY <2>1, <2>2, <2>3 DEF Inert
<1> QED
  BY <1>1, <1>2

\* The end of an operation refers to a scheduling that is in the history, and is
\* not its last event while a task is started.
LEMMA ResolveOpFits ==
  ASSUME TypeInv, SigInv, ResolveOp
  PROVE  \E e \in Event : /\ e.t = "Resolved" /\ Grounded(e, history) /\ e.n <= Len(history)
                          /\ wft = "started" => e.n < Len(history)
                          /\ AddEvent(e)
<1>0. history \in Seq(Event) /\ Len(history) \in Nat
  BY DEF TypeInv, TypeOK
<1>1. PICK i \in 1..Len(history) :
        /\ Open(i)
        /\ \E outcome \in EndsOf(history[i].k, OpId(history, i)) :
              AddEvent(IF history[i].k \in {"Timer", "ChildWorkflow"}
                       THEN Resolved(history[i].k, history[i].id, 0, outcome)
                       ELSE Resolved(history[i].k, 0, i, outcome))
  BY Zenon DEF ResolveOp
<1>2. PICK outcome \in EndsOf(history[i].k, OpId(history, i)) :
              AddEvent(IF history[i].k \in {"Timer", "ChildWorkflow"}
                       THEN Resolved(history[i].k, history[i].id, 0, outcome)
                       ELSE Resolved(history[i].k, 0, i, outcome))
  BY <1>1
<1>3. history[i].k \in OpKinds /\ history[i].t = "Command"
  BY <1>1 DEF Open
<1>4. outcome \in Data
  BY <1>2 DEF EndsOf, Data
<1>5. history[i].id \in Int /\ i \in Int /\ 0 \in Int
  <2>1. history[i] \in Event
    BY <1>0
  <2> QED
    BY <2>1 DEF Event
<1>6. wft = "started" => i < Len(history)
  <2> SUFFICES ASSUME wft = "started" PROVE i # Len(history)
    BY <1>0
  <2> QED
    BY <1>3 DEF SigInv, SignalsNumbered
<1> DEFINE x == Resolved(history[i].k, history[i].id, 0, outcome)
           y == Resolved(history[i].k, 0, i, outcome)
<1>7. x \in Event /\ y \in Event
  BY <1>3, <1>4, <1>5, ResolvedIs
<1>8. /\ x.t = "Resolved" /\ x.k = history[i].k /\ x.id = history[i].id /\ x.n = 0
      /\ y.t = "Resolved" /\ y.k = history[i].k /\ y.n = i
  BY DEF Resolved, Entry
<1>9. AddEvent(IF history[i].k \in {"Timer", "ChildWorkflow"} THEN x ELSE y)
  BY <1>2
<1> HIDE DEF x, y
<1>10. Grounded(x, history)
  <2>1. i \in Commands(history, x.k) /\ history[i].id = x.id
    BY <1>3, <1>8 DEF Commands, IsCommand
  <2>2. Starts(history, x.k, x.id)
    BY <2>1 DEF Starts
  <2> QED
    BY <1>8, <2>2 DEF Grounded
<1>11. CASE history[i].k \in {"Timer", "ChildWorkflow"}
  <2>1. AddEvent(x)
    BY <1>9, <1>11
  <2>2. x.n <= Len(history) /\ (wft = "started" => x.n < Len(history))
    BY <1>0, <1>6, <1>8
  <2> QED
    BY <1>7, <1>8, <1>10, <2>1, <2>2
<1>12. CASE history[i].k \notin {"Timer", "ChildWorkflow"}
  <2>1. AddEvent(y)
    BY <1>9, <1>12
  <2>2. y.n <= Len(history) /\ (wft = "started" => y.n < Len(history))
    BY <1>0, <1>6, <1>8
  <2>3. Grounded(y, history)
    BY <1>8, <1>12 DEF Grounded
  <2> QED
    BY <1>7, <1>8, <2>1, <2>2, <2>3
<1> QED
  BY <1>11, <1>12

\* A cached runner fits a history that goes on without starting Nexus operations.
LEMMA CacheGoesOn ==
  ASSUME CacheFits, NexusCount(history') = NexusCount(history),
         \A id : Starts(history, "Timer", id) => Starts(history', "Timer", id),
         UNCHANGED <<sticky, cache>>, wft # "started"
  PROVE  CacheFits'
  BY DEF CacheFits

\* An event that arrives keeps the invariant, if it is none the worker makes.
LEMMA AddEventFits ==
  ASSUME TypeInv, SigInv, FutInv, NEW e \in Event, e.t \notin {"Command", "UpdateAccepted"},
         Grounded(e, history), e.t = "Resolved" => e.n <= Len(history),
         (e.t = "Resolved" /\ wft = "started") => e.n < Len(history), AddEvent(e)
  PROVE  FutInv'
<1>1. /\ UNCHANGED <<sticky, pc, task, runner, fresh, cache>>
      /\ history \in Seq(Event) /\ buffered \in Seq(Event) /\ Len(history) \in Nat
  BY DEF AddEvent, handler, TypeInv, TypeOK
<1>2. CASE wft = "started"
  <2>1. buffered' = Append(buffered, e) /\ history' = history /\ wft' = wft
    BY <1>2 DEF AddEvent
  <2>2. ASSUME HistoryFits PROVE HistoryFits'
    <3>1. /\ Len(buffered') = Len(buffered) + 1 /\ Len(buffered) \in Nat
          /\ \A i \in 1..Len(buffered) : buffered'[i] = buffered[i]
          /\ buffered'[Len(buffered) + 1] = e
      BY <1>1, <2>1
    <3>2. ASSUME NEW i \in 1..Len(buffered')
          PROVE  /\ Grounded(buffered'[i], history) /\ buffered'[i].t # "Command"
                 /\ buffered'[i].t = "Resolved" => buffered'[i].n < Len(history)
      <4>1. CASE i \in 1..Len(buffered)
        BY <2>2, <3>1, <4>1 DEF HistoryFits
      <4>2. CASE i \notin 1..Len(buffered)
        <5>1. buffered'[i] = e
          BY <3>1, <4>2
        <5> QED
          BY <1>2, <5>1
      <4> QED
        BY <4>1, <4>2
    <3> QED
      BY <2>1, <2>2, <3>2 DEF HistoryFits
  <2> QED
    BY <1>1, <2>1, <2>2 DEF FutInv, Working, CacheFits
<1>3. CASE wft # "started"
  <2> DEFINE t == <<e>>
  <2>1. /\ history' = Append(history, e) /\ buffered' = buffered
        /\ buffered = << >> /\ pc = "idle"
    BY <1>3 DEF AddEvent, TypeInv, TaskOK, SigInv, SignalsNumbered
  <2>2. /\ t \in Seq(Event) /\ history' = history \o t /\ Len(t) = 1 /\ t[1] = e
        /\ Begins(history, history')
    BY <1>1, <2>1, EventAppended, AppendFollows DEF Begins
  <2> HIDE DEF t
  <2>3. ASSUME NoUpdates(history)' PROVE NoUpdates(history)
    BY <1>1, <2>2, <2>3, BeginsNoUpdates
  <2>4. NexusCount(history') = NexusCount(history)
    <3>1. NexusCount(t) = 0
      BY <2>2, NexusNone
    <3>2. NexusCount(history \o t) = NexusCount(history) + NexusCount(t) /\ NexusCount(history) \in Nat
      BY <1>1, <2>2, NexusConcat
    <3> QED
      BY <2>2, <3>1, <3>2
  <2>5. ASSUME HistoryFits PROVE HistoryFits'
    <3>1. Fits(history)
      BY <2>5 DEF HistoryFits, Fits
    <3>2. \A i \in 1..Len(t) : Grounded(t[i], history \o t) /\ (t[i].t = "Resolved" => t[i].n <= Len(history))
      BY <1>1, <2>2, GroundedConcat
    <3>3. Fits(history \o t)
      BY <1>1, <2>2, <3>1, <3>2, FitsConcat
    <3> QED
      BY <2>1, <2>2, <3>3 DEF HistoryFits, Fits
  <2>6. \A id : Starts(history, "Timer", id) => Starts(history', "Timer", id)
    BY <1>1, <2>2, StartsConcat
  <2>7. CacheFits => CacheFits'
    BY <1>1, <1>3, <2>4, <2>6, CacheGoesOn
  <2> QED
    BY <1>1, <2>1, <2>3, <2>5, <2>7 DEF FutInv, Working
<1> QED
  BY <1>2, <1>3

\* A task that fails keeps the invariant, whatever becomes of the cache entry.
LEMMA FailedFuts ==
  ASSUME TypeInv, SigInv, FutInv, wft = "started", TaskFailed, pc' = "idle",
         NoUpdates(history) /\ cache' # NoRunner => FuturesFollow(cache')
  PROVE  FutInv'
<1>1. (NoUpdates(history)' => NoUpdates(history)) /\ (HistoryFits => HistoryFits')
  BY FailedFits
<1>2. sticky' = FALSE
  BY DEF TaskFailed
<1>3. ASSUME NoUpdates(history), cache' # NoRunner PROVE CacheFits'
  BY <1>2, <1>3 DEF CacheFits
<1> QED
  BY <1>1, <1>3 DEF FutInv, Working

\* The server's and the clients' actions keep the invariant.
LEMMA ServerFuts ==
  ASSUME TypeInv, SigInv, FutInv, Server \/ Client PROVE FutInv'
<1>1. history \in Seq(Event) /\ sent \in [signal : Nat, update : Nat, cancel : Nat]
  BY DEF TypeInv, TypeOK
<1>2. CASE ResolveOp
  <2>1. PICK e \in Event : /\ e.t = "Resolved" /\ Grounded(e, history) /\ e.n <= Len(history)
                           /\ wft = "started" => e.n < Len(history)
                           /\ AddEvent(e)
    BY <1>2, ResolveOpFits
  <2> QED
    BY <2>1, AddEventFits
<1>3. CASE Poll
  <2>1. /\ wft = "pending" /\ pc = "idle" /\ pc' = "polled"
        /\ history' = Append(history, Plain("WorkflowTaskStarted"))
        /\ UNCHANGED <<buffered, sticky, cache>>
    BY <1>3 DEF Poll
  <2>2. buffered = << >>
    BY <2>1 DEF SigInv, SignalsNumbered
  <2> SUFFICES ASSUME NoUpdates(history)' PROVE HistoryFits' /\ (cache # NoRunner => CacheFits')
    BY <2>1 DEF FutInv, Working
  <2>3. "WorkflowTaskStarted" \in EventTypes
    BY DEF EventTypes
  <2>4. Plain("WorkflowTaskStarted") \in Event
    BY <2>3, PlainIs
  <2>5. Begins(history, history')
    BY <1>1, <2>1, <2>4, AppendFollows DEF Begins
  <2>6. NoUpdates(history)
    BY <1>1, <2>5, BeginsNoUpdates
  <2>7. Fits(history) /\ (cache # NoRunner => CacheFits)
    BY <2>6 DEF FutInv, HistoryFits, Fits
  <2>8. /\ Fits(history') /\ NexusCount(history') = NexusCount(history)
        /\ \A id : Starts(history, "Timer", id) => Starts(history', "Timer", id)
    BY <1>1, <2>1, <2>3, <2>7, PlainAppended
  <2>9. HistoryFits'
    BY <2>1, <2>2, <2>8 DEF HistoryFits, Fits
  <2>10. wft # "started"
    BY <2>1
  <2> QED
    BY <2>1, <2>7, <2>8, <2>9, <2>10, CacheGoesOn
<1>4. CASE TaskTimeout
  <2>1. wft = "started" /\ TaskFailed /\ pc' = "idle" /\ cache' = cache
    BY <1>4 DEF TaskTimeout, handler
  <2>2. NoUpdates(history) /\ cache' # NoRunner => FuturesFollow(cache')
    BY <2>1 DEF FutInv, CacheFits
  <2> QED
    BY <2>1, <2>2, FailedFuts
<1>5. CASE StickyTimeout
  <2>1. sticky' = FALSE /\ UNCHANGED <<history, buffered, pc, runner, fresh, cache>>
    BY <1>5 DEF StickyTimeout, handler
  <2> QED
    BY <2>1 DEF FutInv, HistoryFits, Working, CacheFits
<1>6. CASE SignalWorkflow
  <2> DEFINE e == Signaled(sent.signal + 1)
  <2>1. e \in Event /\ e.t = "Signaled" /\ AddEvent(e)
    BY <1>1, <1>6, SignaledIs DEF SignalWorkflow
  <2> HIDE DEF e
  <2>2. Grounded(e, history)
    BY <2>1 DEF Grounded
  <2> QED
    BY <2>1, <2>2, AddEventFits
<1>7. CASE CancelWorkflow
  <2> DEFINE e == Plain("CancelRequested")
  <2>1. e \in Event /\ e.t = "CancelRequested" /\ AddEvent(e)
    BY <1>7, PlainIs DEF CancelWorkflow, EventTypes
  <2> HIDE DEF e
  <2>2. Grounded(e, history)
    BY <2>1 DEF Grounded
  <2> QED
    BY <2>1, <2>2, AddEventFits
<1>8. CASE UpdateWorkflow
  <2>1. /\ wft' # "started" <=> wft # "started"
        /\ UNCHANGED <<history, buffered, sticky, pc, runner, fresh, cache>>
    BY <1>8 DEF UpdateWorkflow, handler
  <2> QED
    BY <2>1 DEF FutInv, HistoryFits, Working, CacheFits
<1> QED
  BY <1>2, <1>3, <1>4, <1>5, <1>6, <1>7, <1>8 DEF Server, Client

-----------------------------------------------------------------------------
(***************************************************************************)
(* So do the steps of the function and of the handler.                     *)
(***************************************************************************)
\* While a task is handled the cached runner is looked at for its futures alone.
LEMMA CacheWaits ==
  ASSUME CacheFits, UNCHANGED <<history, sticky, cache>>, wft' = "started", pc' # "polled"
  PROVE  CacheFits'
  BY DEF CacheFits

\* The handler goes on with a runner that fits the history.
LEMMA HandlingFits ==
  ASSUME FutInv, UNCHANGED <<history, buffered, wft, sticky, cache>>, wft = "started",
         pc' \in {"body", "parked", "respond"},
         NoUpdates(history) =>
            /\ RunnerFits(runner', history)
            /\ (pc' # "respond" /\ fresh') => ReplayFits(runner', history)
            /\ (pc' = "respond" \/ ~fresh') => LiveFits(runner', history)
  PROVE  FutInv'
<1>1. (NoUpdates(history) /\ cache # NoRunner) => CacheFits'
  BY CacheWaits DEF FutInv
<1>2. NoUpdates(history) => HistoryFits'
  BY DEF FutInv, HistoryFits
<1> QED
  BY <1>1, <1>2 DEF FutInv, Working

\* A step of the function keeps the invariant.
LEMMA BodyFuts == ASSUME TypeInv, SigInv, OwnInv, FutInv, BodyStep PROVE FutInv'
<1>1. /\ pc = "body" /\ RunnerOK(runner)
      /\ CallEnds(runner, runner')
      /\ pc' \in {"body", "parked", "respond"} /\ (fresh => pc' # "respond")
      /\ UNCHANGED <<server, clients, code, task, fresh, cache, acked, faults>>
  BY BodyStepIs
<1>2. UNCHANGED <<history, buffered, wft, sticky, cache, fresh>>
  BY <1>1 DEF server
<1>3. history \in Seq(Event) /\ wft = "started" /\ fresh \in BOOLEAN
  BY <1>1 DEF TypeInv, TypeOK, TaskOK
<1>4. ASSUME NoUpdates(history)
      PROVE  /\ RunnerFits(runner', history)
             /\ fresh => ReplayFits(runner', history)
             /\ ~fresh => LiveFits(runner', history)
  <2>1. /\ \A i \in 1..Len(history) : Grounded(history[i], history)
        /\ RunnerFits(runner, history)
        /\ fresh => ReplayFits(runner, history) /\ Scan(runner) = history
        /\ ~fresh => LiveFits(runner, history) /\ Owns(runner, history)
    BY <1>1, <1>4 DEF FutInv, HistoryFits, Working, OwnInv
  <2>2. runner.events = history
    BY <2>1 DEF RunnerFits
  <2>3. CASE Calm(runner, runner')
    BY <1>1, <2>1, <2>3, CalmFits
  <2>4. CASE Quiet(runner, runner') /\ CancelsTimer(runner, runner')
    BY <1>1, <2>1, <2>4, CancelsTimerFits
  <2>5. CASE Scheduled(runner, runner')
    BY <1>1, <1>3, <1>4, <2>1, <2>2, <2>5, ScheduledRunner, ScheduledReplay, ScheduledLive
  <2> QED
    BY <1>1, <2>3, <2>4, <2>5 DEF CallEnds
<1> QED
  BY <1>1, <1>2, <1>3, <1>4, HandlingFits

\* The timers a runner that answers cancels were started, before or by this answer.
LEMMA CancelsStarted ==
  ASSUME NEW r, NEW h, RunnerOK(r), RunnerFits(r, h)
  PROVE  \A i \in Commands(r.commands, "CancelTimer") :
            Starts(h, "Timer", r.commands[i].id) \/ Starts(r.commands, "Timer", r.commands[i].id)
<1> SUFFICES ASSUME NEW i \in Commands(r.commands, "CancelTimer")
             PROVE  Starts(h, "Timer", r.commands[i].id) \/ Starts(r.commands, "Timer", r.commands[i].id)
  OBVIOUS
<1> DEFINE x == r.commands[i].id
           n == Len(r.futures["Timer"])
<1>1. n \in Nat /\ x \in 0..(n - 1)
  BY FuturesType DEF RunnerFits, CancelsFit
<1>2. \A j \in 1..n : Starts(h, "Timer", j - 1) \/ Starts(r.commands, "Timer", j - 1)
  BY DEF RunnerFits, TimersStarted
<1> HIDE DEF x, n
<1>3. x + 1 \in 1..n /\ (x + 1) - 1 = x
  BY <1>1
<1>4. Starts(h, "Timer", x) \/ Starts(r.commands, "Timer", x)
  BY <1>2, <1>3
<1> QED
  BY <1>4 DEF x

\* A runner that answers fits the history that holds its answer.
LEMMA AnsweredFits ==
  ASSUME NEW r, NEW h, RunnerOK(r), RunnerFits(r, h), LiveFits(r, h), NEW g,
         NexusCount(g) = NexusCount(h) + NexusCount(r.commands),
         \A x : Starts(h, "Timer", x) \/ Starts(r.commands, "Timer", x) => Starts(g, "Timer", x)
  PROVE  /\ FuturesFollow(r) /\ NexusCount(g) <= Len(r.futures["NexusOperation"])
         /\ \A i \in 1..Len(r.futures["Timer"]) : Starts(g, "Timer", i - 1)
  BY DEF RunnerFits, TimersStarted, LiveFits, NexusFits

\* The handler's actions keep the invariant; the determinism check establishes what
\* a runner needs to be cached.
LEMMA HandleFuts == ASSUME TypeInv, SafeInv, OwnInv, SigInv, FutInv, Handle PROVE FutInv'
<1>1. /\ history \in Seq(Event) /\ task.updates \in Nat /\ task.upto \in Nat
      /\ code \in Programs \cup {NoProgram} /\ Len(history) \in Nat /\ task.first \in Nat
  BY DEF TypeInv, TypeOK, Task
<1>2. ASSUME pc \in {"body", "parked", "respond"}
      PROVE  /\ RunnerOK(runner) /\ wft = "started"
             /\ runner.commands \in Seq(Event) /\ OnlyCommands(runner.commands)
             /\ NoUpdates(history) => RunnerFits(runner, history)
             /\ (NoUpdates(history) /\ pc # "respond" /\ fresh) => ReplayFits(runner, history)
             /\ (NoUpdates(history) /\ (pc = "respond" \/ ~fresh)) => LiveFits(runner, history)
  <2>1. RunnerOK(runner) /\ RecvOK(runner, history) /\ wft = "started"
    BY <1>2 DEF TypeInv, RunnersOK, TaskOK, Working, SigInv, RunnerReceives
  <2>2. runner.commands \in Seq(Event) /\ OnlyCommands(runner.commands)
    BY <2>1 DEF RunnerOK, Runner, RecvOK
  <2> QED
    BY <1>2, <2>1, <2>2 DEF FutInv, Working
<1>3. ASSUME pc = "polled" PROVE Assembled = history /\ wft = "started"
  <2>1. task.upto = Len(history) /\ wft = "started"
    BY <1>3 DEF SafeInv, TypeInv, TaskOK
  <2> QED
    BY <1>1, <2>1 DEF Assembled
<1>4. ASSUME pc # "idle", TaskFailed, Idle, cache' = cache \/ cache' = NoRunner PROVE FutInv'
  <2>1. wft = "started" /\ pc' = "idle"
    BY <1>4 DEF TypeInv, TaskOK, Idle
  <2>2. NoUpdates(history) /\ cache' # NoRunner => FuturesFollow(cache')
    BY <1>4 DEF FutInv, CacheFits
  <2> QED
    BY <1>4, <2>1, <2>2, FailedFuts
<1>5. ASSUME pc = "respond", NoUpdates(history), NEW n \in Nat
      PROVE  RunnerOK(Responding(n)) /\ LiveFits(Responding(n), history)
    BY <1>2, <1>5, RespondingOK, CalmFits
<1>6. CASE HandleUnregistered
  BY <1>4, <1>6 DEF HandleUnregistered
<1>7. CASE HandleSticky
  <2> DEFINE q == ApplyEvents(cache, history)
  <2>1. pc = "polled" /\ cache # NoRunner /\ task.first # 1 /\ task.first = LastEventId(cache) + 1
    BY <1>7 DEF HandleSticky, IsFullHistory, CacheHit
  <2>2. /\ RunnerOK(cache) /\ Assembled = history /\ wft = "started" /\ sticky
        /\ Follows(cache, history)
    BY <1>3, <2>1 DEF SigInv, TaskIsSticky, CacheReceives, RecvOK, TypeInv, RunnersOK
  <2>3. /\ runner' = q /\ fresh' = FALSE /\ pc' \in {"body", "respond"}
        /\ UNCHANGED <<history, buffered, wft, sticky, cache>>
    BY <1>7, <2>2, Zenon DEF HandleSticky, server
  <2>4. ASSUME NoUpdates(history) PROVE RunnerFits(q, history) /\ LiveFits(q, history)
    <3>1. Backward(history) /\ CacheFits
      BY <2>1, <2>4 DEF FutInv, HistoryFits
    <3>2. /\ FuturesFollow(cache) /\ NexusCount(history) <= Len(cache.futures["NexusOperation"])
          /\ \A i \in 1..Len(cache.futures["Timer"]) : Starts(history, "Timer", i - 1)
      BY <2>1, <2>2, <3>1 DEF CacheFits
    <3> QED
      BY <1>1, <2>2, <3>1, <3>2, ApplyEventsFits
  <2> HIDE DEF q
  <2> QED
    BY <2>2, <2>3, <2>4, HandlingFits
<1>8. CASE HandleStickyMiss
  BY <1>4, <1>8 DEF HandleStickyMiss
<1>9. CASE HandleFull
  <2>1. code \in Programs /\ (prevStarted > 0) \in BOOLEAN /\ pc = "polled"
    BY <1>1, <1>9 DEF HandleFull, TypeInv, TypeOK
  <2> DEFINE q == NewRunner(code, history, prevStarted > 0)
  <2>2. /\ q.events = history /\ q.commands = << >> /\ q.produced = << >>
        /\ \A k \in OpKinds : q.futures[k] = << >>
    BY <1>1, <2>1, NewRunnerOK
  <2>3. /\ runner' = q /\ fresh' = TRUE /\ pc' = "body" /\ wft = "started"
        /\ UNCHANGED <<history, buffered, wft, sticky, cache>>
    BY <1>3, <1>9, <2>1, Zenon DEF HandleFull, server
  <2> HIDE DEF q
  <2>4. RunnerFits(q, history) /\ ReplayFits(q, history)
    BY <2>2, NewFits
  <2> QED
    BY <2>3, <2>4, HandlingFits
<1>10. CASE ReapplyHistoricalUpdates
  <2>1. /\ pc = "parked" /\ runner.done = "nil" /\ TimelineLeft(runner) # {} /\ pc' = "body"
        /\ UNCHANGED <<history, buffered, wft, sticky, fresh, cache>>
    BY <1>10 DEF ReapplyHistoricalUpdates, server
  <2>2. fresh
    BY <2>1 DEF SigInv, RunnerReceives, Caught, Working
  <2>3. Scan(runner) = history
    BY <2>1, <2>2 DEF OwnInv
  <2>4. ~NoUpdates(history)
    <3> SUFFICES ASSUME NoUpdates(history) PROVE FALSE
      OBVIOUS
    <3>1. Deferred(history) = {} /\ Events(history, "UpdateAccepted") = {}
      BY NothingDeferred DEF NoUpdates, Events
    <3>2. PostUpdateTimeline(Scan(runner)) = {}
      BY <2>3, <3>1 DEF PostUpdateTimeline
    <3> QED
      BY <2>1, <3>2 DEF TimelineLeft
  <2> QED
    BY <2>1, <2>4 DEF FutInv
<1>11. CASE CheckPassed
  <2>1. /\ pc = "parked" /\ CheckDeterminism(runner) /\ cache' = runner /\ pc' = "respond"
        /\ UNCHANGED <<history, buffered, wft, sticky, fresh, runner>>
    BY <1>11 DEF CheckPassed, Replayed, server
  <2>2. RunnerOK(runner) /\ wft = "started"
    BY <1>2, <2>1
  <2>3. ASSUME NoUpdates(history) PROVE RunnerFits(runner, history) /\ LiveFits(runner, history)
    <3>1. RunnerFits(runner, history)
      BY <1>2, <2>1, <2>3
    <3>2. CASE ~fresh
      BY <1>2, <2>1, <2>3, <3>1, <3>2
    <3>3. CASE fresh
      <4>1. Scan(runner) = history /\ ReplayFits(runner, history) /\ runner.events = history
        BY <1>2, <2>1, <2>3, <3>1, <3>3 DEF OwnInv, RunnerFits
      <4> QED
        BY <1>1, <2>1, <2>2, <2>3, <3>1, <4>1, CheckedFits
    <3> QED
      BY <3>2, <3>3
  <2>4. ASSUME NoUpdates(history) PROVE CacheFits'
    <3>1. FuturesFollow(runner) /\ NexusCount(history) <= Len(runner.futures["NexusOperation"])
      <4> DEFINE m == Len(runner.futures["NexusOperation"])
                 a == NexusCount(history)
                 b == NexusCount(runner.commands)
      <4>1. FuturesFollow(runner) /\ a + b <= m
        BY <2>3, <2>4 DEF LiveFits, NexusFits
      <4>2. m \in Nat
        BY <2>2, FuturesType
      <4>3. a \in Nat /\ b \in Nat
        BY <1>1, <1>2, <2>1, CommandsFinite DEF NexusCount
      <4> HIDE DEF m, a, b
      <4>4. a <= m
        BY <4>1, <4>2, <4>3
      <4> QED
        BY <4>1, <4>4 DEF m, a
    <3> QED
      BY <2>1, <2>2, <3>1 DEF CacheFits
  <2>5. NoUpdates(history) => HistoryFits'
    BY <2>1 DEF FutInv, HistoryFits
  <2> QED
    BY <2>1, <2>3, <2>4, <2>5 DEF FutInv, Working
<1>12. CASE CheckFailed
  <2>1. pc = "parked" /\ Idle /\ cache' = cache
    BY <1>12 DEF CheckFailed, Replayed
  <2>2. CASE TaskFailed
    BY <1>4, <2>1, <2>2
  <2>3. CASE ~TaskFailed
    <3> DEFINE e == Command("FailWorkflow", 0, "nil")
               final == <<e>>
    <3>1. TaskCompleted(<< >>, 0, 0, final, FALSE)
      BY <1>12, <2>3 DEF CheckFailed
    <3>2. e \in Event /\ e.t = "Command" /\ e.k = "FailWorkflow"
      <4>1. "FailWorkflow" \in CommandKinds /\ 0 \in Int /\ "nil" \in Names
        BY DEF CommandKinds, Names
      <4> QED
        BY <4>1, CommandIs
    <3> HIDE DEF e
    <3>3. final \in Seq(Event) /\ OnlyCommands(final) /\ Inert(final)
      BY <3>2 DEF OnlyCommands, Inert
    <3>4. << >> \in Seq(Event) /\ OnlyCommands(<< >>) /\ 0 \in Nat /\ Commands(<< >>, "CancelTimer") = {}
      BY DEF OnlyCommands, Commands
    <3> HIDE DEF final
    <3>5. Begins(history, history')
      BY <3>1, <3>3, <3>4, CompletedReceives
    <3>6. sticky' = FALSE /\ pc' = "idle"
      BY <2>1, <3>1 DEF TaskCompleted, Idle
    <3>7. NoUpdates(history)' => NoUpdates(history)
      BY <1>1, <3>5, BeginsNoUpdates
    <3>8. HistoryFits => HistoryFits'
      BY <3>1, <3>3, <3>4, CompletedFits
    <3>9. CacheFits => CacheFits'
      BY <2>1, <3>6 DEF CacheFits
    <3> QED
      BY <2>1, <3>6, <3>7, <3>8, <3>9 DEF FutInv, Working
  <2> QED
    BY <2>2, <2>3
<1>13. CASE RespondCompleted
  <2>1. pc = "respond" /\ pc' = "idle"
    BY <1>13 DEF RespondCompleted, Idle
  <2>2. PICK n \in 0..task.updates :
          /\ TaskCompleted(runner.commands, task.updates, n, Final, TRUE)
          /\ cache' = Responding(n) \/ cache' = NoRunner
    BY <1>13 DEF RespondCompleted
  <2>3. /\ n \in Nat /\ RunnerOK(runner)
        /\ runner.commands \in Seq(Event) /\ OnlyCommands(runner.commands)
    BY <1>1, <1>2, <2>1
  <2>4. Final \in Seq(Event) /\ OnlyCommands(Final) /\ Inert(Final)
    BY <2>3, FinalIs, FinalIsCommand, FinalInert
  <2>5. Begins(history, history')
    BY <2>2, <2>3, <2>4, CompletedReceives
  <2> SUFFICES ASSUME NoUpdates(history)' PROVE HistoryFits' /\ (cache' # NoRunner => CacheFits')
    BY <2>1 DEF FutInv, Working
  <2>6. NoUpdates(history)
    BY <1>1, <2>5, BeginsNoUpdates
  <2>7. HistoryFits /\ RunnerFits(runner, history) /\ LiveFits(runner, history)
    BY <1>2, <2>1, <2>6 DEF FutInv
  <2>8. \A i \in Commands(runner.commands, "CancelTimer") :
            \/ Starts(history, "Timer", runner.commands[i].id)
            \/ Starts(runner.commands, "Timer", runner.commands[i].id)
    BY <2>3, <2>7, CancelsStarted
  <2>9. /\ HistoryFits'
        /\ NexusCount(history') = NexusCount(history) + NexusCount(runner.commands)
        /\ \A x : Starts(history, "Timer", x) \/ Starts(runner.commands, "Timer", x)
                     => Starts(history', "Timer", x)
    BY <2>2, <2>3, <2>4, <2>7, <2>8, CompletedFits
  <2>10. /\ FuturesFollow(runner)
         /\ NexusCount(history') <= Len(runner.futures["NexusOperation"])
         /\ \A i \in 1..Len(runner.futures["Timer"]) : Starts(history', "Timer", i - 1)
    BY <2>3, <2>7, <2>9, AnsweredFits
  <2>11. Responding(n).futures = runner.futures /\ FuturesFollow(Responding(n))
    <3>1. Calm(runner, Responding(n))
      BY <2>3, RespondingOK
    <3>2. LiveFits(Responding(n), history)
      BY <1>5, <2>1, <2>3, <2>6
    <3> QED
      BY <3>1, <3>2 DEF Calm, LiveFits
  <2>12. ASSUME cache' = Responding(n) PROVE CacheFits'
    <3>1. cache'.futures = runner.futures /\ FuturesFollow(cache')
      BY <2>11, <2>12
    <3> QED
      BY <2>10, <3>1 DEF CacheFits
  <2> QED
    BY <2>2, <2>9, <2>12
<1>14. CASE RespondRefused
  <2>1. pc = "respond" /\ pc' = "idle" /\ TaskFailed /\ wft = "started"
    BY <1>2, <1>14 DEF RespondRefused, Idle
  <2>2. PICK n \in 0..task.updates : cache' = Responding(n)
    BY <1>14 DEF RespondRefused
  <2>3. n \in Nat
    BY <1>1
  <2>4. NoUpdates(history) => FuturesFollow(cache')
    BY <1>5, <2>1, <2>2, <2>3 DEF LiveFits
  <2> QED
    BY <2>1, <2>4, FailedFuts
<1>15. CASE RespondLost
  <2>1. /\ pc = "respond" /\ pc' = "idle" /\ wft = "started"
        /\ UNCHANGED <<history, buffered, wft, sticky>>
    BY <1>2, <1>15 DEF RespondLost, Idle, server
  <2>2. PICK n \in 0..task.updates : cache' = Responding(n)
    BY <1>15 DEF RespondLost
  <2>3. n \in Nat
    BY <1>1
  <2>4. ASSUME NoUpdates(history) PROVE CacheFits'
    <3> DEFINE q == Responding(n)
               m == Len(q.futures["NexusOperation"])
               a == NexusCount(history)
               b == NexusCount(q.commands)
    <3>1. RunnerOK(q) /\ LiveFits(q, history)
      BY <1>5, <2>1, <2>3, <2>4
    <3> HIDE DEF q
    <3>2. FuturesFollow(q) /\ a + b <= m
      BY <3>1 DEF LiveFits, NexusFits
    <3>3. m \in Nat /\ q.commands \in Seq(Event)
      BY <3>1, FuturesType
    <3>4. a \in Nat /\ b \in Nat
      BY <1>1, <3>3, CommandsFinite DEF NexusCount
    <3> HIDE DEF m, a, b
    <3>5. a <= m
      BY <3>2, <3>3, <3>4
    <3>6. cache' = q /\ FuturesFollow(q) /\ NexusCount(history) <= Len(q.futures["NexusOperation"])
      BY <2>2, <3>2, <3>5 DEF q, m, a
    <3> QED
      BY <2>1, <3>6 DEF CacheFits
  <2>5. NoUpdates(history) => HistoryFits'
    BY <2>1 DEF FutInv, HistoryFits
  <2> QED
    BY <2>1, <2>4, <2>5 DEF FutInv, Working
<1>16. CASE AbortDeadlock
  BY <1>4, <1>16 DEF AbortDeadlock
<1> QED
  BY <1>6, <1>7, <1>8, <1>9, <1>10, <1>11, <1>12, <1>13, <1>14, <1>15, <1>16 DEF Handle

\* Every step keeps the invariant.
LEMMA FutsStep ==
  TypeInv /\ SafeInv /\ OwnInv /\ SigInv /\ FutInv /\ [Next]_vars => FutInv'
<1> SUFFICES ASSUME TypeInv, SafeInv, OwnInv, SigInv, FutInv, [Next]_vars PROVE FutInv'
  OBVIOUS
<1>1. CASE Evict
  BY <1>1 DEF Evict, handler, server, FutInv, HistoryFits, Working
<1>2. CASE Restart
  BY <1>2 DEF Restart, Idle, server, FutInv, HistoryFits, Working
<1>3. CASE UNCHANGED vars
  BY <1>3 DEF vars, FutInv, HistoryFits, Working, CacheFits
<1> QED
  BY <1>1, <1>2, <1>3, BodyFuts, ServerFuts, HandleFuts DEF Next, Finished

\* Initially there is one event, and nobody holds a runner.
LEMMA FutsInit == Init => FutInv
<1> SUFFICES ASSUME Init PROVE FutInv
  OBVIOUS
<1> DEFINE e == Plain("WorkflowExecutionStarted")
<1>1. e \in Event /\ e.t = "WorkflowExecutionStarted"
  BY PlainIs DEF EventTypes
<1>2. history = <<e>> /\ buffered = << >> /\ pc = "idle" /\ cache = NoRunner
  BY DEF Init
<1> HIDE DEF e
<1>3. Len(history) = 1 /\ history[1] = e /\ Len(buffered) = 0
  BY <1>2
<1>4. Backward(history) /\ \A i \in 1..Len(history) : Grounded(history[i], history)
  BY <1>1, <1>3 DEF Backward, Grounded
<1>5. HistoryFits
  BY <1>3, <1>4 DEF HistoryFits
<1> QED
  BY <1>2, <1>5 DEF FutInv, Working

\* The futures of a runner that answers, or waits in the cache, are exactly as its
\* history leaves them, for every function, redeployment and fault, in a run that
\* has accepted no update and whose history pages arrive: the prescan and the
\* determinism check together, and the events applied task by task, agree.
THEOREM FuturesAreFollowed ==
  ASSUME PageDeadline = FALSE
  PROVE  Spec => [](NoUpdates(history) => FuturesFollowHistory)
<1>1. FutInv => (NoUpdates(history) => FuturesFollowHistory)
  BY DEF FutInv, FuturesFollowHistory, LiveFits, CacheFits
<1>2. TypeInv /\ SafeInv /\ [Next]_vars => SafeInv'
  BY SafeStep
<1>3. Init => OwnInv
  BY DEF Init, OwnInv
<1> QED
  BY <1>1, <1>2, <1>3, TypeInit, TypeStep, SafeInit, OwnStep, ReceivesInit, ReceivesStep, FutsInit,
     FutsStep, PTL DEF Spec
=============================================================================
