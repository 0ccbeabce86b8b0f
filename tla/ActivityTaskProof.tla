------------------------- MODULE ActivityTaskProof -------------------------
(***************************************************************************)
(* The safety of an activity's handler and context, for any retry policy,  *)
(* heartbeat timeout, latency and number of faults.  The invariant says    *)
(* what an attempt is at each of its labels (AttemptFits), what the calls  *)
(* it has under way and the server's answers rest on (AnswersFit), and     *)
(* how the clocks of the attempt bound the age of its last heartbeat       *)
(* (BeatFits) and of an unseen cancel request (SeenFits).                  *)
(***************************************************************************)
EXTENDS ActivityTask, TLAPS

Pcs      == {"none", "polled", "run", "respond", "done", "gone"}
CallsOut == {"none", "heartbeat", "completed", "failed"}
Longest  == IF Gap > Wait THEN Gap ELSE Wait
Servers  == [status : {"scheduled", "started", "completed", "failed", "timedout", "canceled"},
             attempt : Attempts, cancelRequested : BOOLEAN, beat : 0..timeout]

-----------------------------------------------------------------------------
(***************************************************************************)
(* The invariant.                                                          *)
(***************************************************************************)
\* The token of attempt a will not be good again.
Dead(a) == server.attempt > a \/ server.status \notin {"scheduled", "started"}

Begun(a) == a < server.attempt \/ (a = server.attempt /\ server.status # "scheduled")

\* An attempt at each of its labels, and where an answer comes from.
AttemptFits(a) ==
    LET x == exec[a]
    IN  /\ x.pc # "none" => Begun(a)
        /\ x.pc \in {"none", "polled"} => /\ x.call = "none" /\ x.unseen = 0
                                          /\ x.async = FALSE /\ x.threw = FALSE
        /\ x.pc \in {"none", "polled"} => x.reported = FALSE
        /\ x.pc = "none" => x.idle = 0
        /\ x.pc = "polled" => x.idle <= Wait
        /\ x.pc = "run" => /\ x.call \in {"none", "heartbeat"} /\ x.idle <= Gap
                           /\ x.threw = FALSE /\ registered = TRUE
        /\ x.pc = "respond" => x.call \in {"completed", "failed"}
        /\ x.pc \in {"done", "gone"} => x.call = "none"
        /\ x.call = "heartbeat" => x.reported = TRUE /\ x.idle = 0
        /\ x.call = "none" => x.answer = "none"
        /\ x.answer = "cancel" => x.call = "heartbeat"
        /\ x.answer = "refused" => Dead(a)
        /\ x.answer = "lost" => a \in lost
        /\ x.answer = "ok" /\ x.call # "heartbeat" => Dead(a)

\* A completion is sent by a function that returned; a failure that is not the
\* function's or the type's follows a completion that was lost or came too late.
\* What was taken from an attempt was taken after its function ended.
AnswersFit(a) ==
    LET x == exec[a]
    IN  /\ x.call = "completed" => x.threw = FALSE /\ registered = TRUE /\ x.async = FALSE
        /\ x.call = "failed" => /\ x.threw = TRUE \/ registered = FALSE \/ a \in lost \/ Dead(a)
                                /\ x.threw = TRUE \/ x.async = FALSE
        /\ (\E v \in {"completed", "failed"} : <<a, v>> \in answers) => x.pc \in {"respond", "done", "gone"}
        /\ <<a, "failed">> \in answers => x.threw = TRUE \/ registered = FALSE \/ a \in lost
        /\ <<a, "completed">> \in answers => x.threw = FALSE /\ registered = TRUE
        /\ x.async = TRUE /\ x.threw = FALSE =>
              <<a, "completed">> \notin answers /\ <<a, "failed">> \notin answers

\* The age of the last heartbeat, while the server counts it: before the first one
\* it is bounded by the wait and the gap; afterwards by the throttle interval, which
\* started before the heartbeat arrived, and from its end on by the gap.
Headroom == 5 * (Gap + Latency) <= timeout /\ Wait + Gap + Latency < timeout
BeatFits(a) ==
    LET x == exec[a]
        beat == server.beat
    IN  Headroom /\ TokenValid(a) /\ a \notin lost =>
          /\ x.pc = "polled" => beat <= x.idle
          /\ x.pc = "run" /\ x.call = "none" =>
                /\ x.reported = FALSE => beat <= Wait + x.idle
                /\ x.reported = TRUE => /\ x.since < Throttle => beat <= x.since
                                        /\ x.since = Throttle => beat < Throttle + x.idle
          /\ x.pc \in {"run", "respond"} /\ x.call # "none" /\ x.answer = "none" =>
                beat <= Wait + Gap + x.wire \/ beat < Throttle + Gap + x.wire
          /\ x.call = "heartbeat" /\ x.answer \in {"ok", "cancel"} =>
                beat <= x.wire /\ (beat <= x.since \/ x.since = Throttle)

\* The age of a cancel request that the function has not seen, likewise.
Unseen(a) ==
    exec[a].pc = "run" /\ TokenValid(a) /\ server.cancelRequested = TRUE /\ exec[a].cancel = FALSE
        /\ a \notin lost
SeenFits(a) ==
    LET x == exec[a]
    IN  /\ server.cancelRequested = FALSE => x.unseen = 0 /\ x.cancel = FALSE
        /\ x.answer = "cancel" => server.cancelRequested = TRUE
        /\ x.call = "heartbeat" /\ x.answer = "ok" => x.cancel = FALSE
        /\ 2 * Latency < Throttle => x.unseen <= Throttle + Gap + 2 * Latency
        /\ 2 * Latency < Throttle /\ Unseen(a) =>
              /\ x.call = "none" =>
                    /\ x.reported = FALSE => x.unseen <= x.idle
                    /\ x.reported = TRUE => /\ x.since < Throttle => x.unseen <= x.since
                                            /\ x.since = Throttle => x.unseen <= Throttle + x.idle
              /\ x.call = "heartbeat" /\ x.answer = "none" => x.unseen <= Throttle + Gap + x.wire
              /\ x.call = "heartbeat" /\ x.answer = "cancel" =>
                    x.unseen <= Throttle + Gap + Latency + x.wire
              /\ x.call = "heartbeat" /\ x.answer = "ok" =>
                    x.unseen <= x.wire /\ (x.unseen <= x.since \/ x.since = Throttle)

Base == TypeOK /\ \A a \in Attempts : AttemptFits(a)
IInv == Base /\ \A a \in Attempts : AnswersFit(a) /\ BeatFits(a) /\ SeenFits(a)

\* The throttle interval is a time, and within the timeout.
LEMMA ThrottleFacts ==
    ASSUME timeout \in Timeouts
    PROVE  /\ timeout \in Nat /\ Throttle \in Nat
           /\ timeout > 0 => 10 * Throttle <= 8 * timeout /\ 8 * timeout < 10 * Throttle + 10
BY ActivityAssumption DEF Throttle

-----------------------------------------------------------------------------
(***************************************************************************)
(* What the operators on the record of an attempt do.                      *)
(***************************************************************************)
\* A function that has ended.
LEMMA LeavesFacts ==
    ASSUME NEW x \in Exec, NEW pc \in Pcs, timeout \in Timeouts
    PROVE  LET y == Leaves(x, pc)
           IN  /\ y \in Exec
               /\ y.pc = pc /\ y.call = "none" /\ y.answer = "none" /\ y.wire = 0 /\ y.idle = 0
               /\ y.unseen = 0 /\ y.cancel = x.cancel /\ y.async = x.async /\ y.threw = x.threw
<1>1. 0 \in 0..Latency /\ 0 \in 0..Throttle /\ 0 \in 0..Longest /\ 0 \in Nat
  BY ThrottleFacts, ActivityAssumption DEF Longest
<1> QED
  BY <1>1 DEF Leaves, Exec, Pcs, Longest

\* A call leaves.
LEMMA SendsFacts ==
    ASSUME NEW x \in Exec, NEW k \in CallsOut
    PROVE  LET y == Sends(x, k)
           IN  /\ y \in Exec
               /\ y.call = k /\ y.answer = "none" /\ y.wire = 0
               /\ y.pc = x.pc /\ y.reported = x.reported /\ y.since = x.since /\ y.idle = x.idle
               /\ y.unseen = x.unseen
               /\ y.async = x.async /\ y.threw = x.threw /\ y.cancel = x.cancel
<1>1. 0 \in 0..Latency
  BY ActivityAssumption
<1> QED
  BY <1>1 DEF Sends, Exec, CallsOut

\* The function ends, and the handler answers with k.
LEMMA EndsFacts ==
    ASSUME NEW x \in Exec, NEW k \in CallsOut, timeout \in Timeouts
    PROVE  LET y == Sends(Leaves(x, "respond"), k)
           IN  /\ y \in Exec
               /\ y.pc = "respond" /\ y.call = k /\ y.answer = "none" /\ y.wire = 0
               /\ y.idle = 0 /\ y.unseen = 0 /\ y.async = x.async /\ y.threw = x.threw /\ y.cancel = x.cancel
<1> DEFINE z == Leaves(x, "respond")
<1>1. /\ z \in Exec /\ z.pc = "respond" /\ z.idle = 0 /\ z.unseen = 0
      /\ z.async = x.async /\ z.threw = x.threw /\ z.cancel = x.cancel
  BY LeavesFacts DEF Pcs
<1> HIDE DEF z
<1>2. LET y == Sends(z, k)
      IN  /\ y \in Exec
          /\ y.pc = "respond" /\ y.call = k /\ y.answer = "none" /\ y.wire = 0
          /\ y.idle = 0 /\ y.unseen = 0 /\ y.async = x.async /\ y.threw = x.threw /\ y.cancel = x.cancel
  BY <1>1, SendsFacts
<1> QED
  BY <1>2 DEF z

\* The attempt is reported as failed.
LEMMA ThrownFacts ==
    ASSUME NEW x \in Exec, NEW fatal \in BOOLEAN, timeout \in Timeouts
    PROVE  LET y == Thrown(x, fatal)
           IN  /\ y \in Exec
               /\ y.pc = "respond" /\ y.call = "failed" /\ y.answer = "none" /\ y.wire = 0
               /\ y.idle = 0 /\ y.unseen = 0 /\ y.async = x.async /\ y.threw = x.threw /\ y.cancel = x.cancel
<1> DEFINE z == Leaves(x, "respond")
           w == [z EXCEPT !.fatal = fatal]
<1>1. /\ z \in Exec /\ z.pc = "respond" /\ z.idle = 0 /\ z.unseen = 0
      /\ z.async = x.async /\ z.threw = x.threw /\ z.cancel = x.cancel
  BY LeavesFacts DEF Pcs
<1> HIDE DEF z
<1>2. /\ w \in Exec /\ w.pc = "respond" /\ w.idle = 0 /\ w.unseen = 0
      /\ w.async = z.async /\ w.threw = z.threw /\ w.cancel = z.cancel
  BY <1>1 DEF Exec
<1>3. Thrown(x, fatal) = Sends(w, "failed")
  BY DEF Thrown, z
<1> HIDE DEF w
<1>4. LET y == Sends(w, "failed")
      IN  /\ y \in Exec
          /\ y.pc = "respond" /\ y.call = "failed" /\ y.answer = "none" /\ y.wire = 0
          /\ y.idle = 0 /\ y.unseen = 0 /\ y.async = x.async /\ y.threw = x.threw /\ y.cancel = x.cancel
  BY <1>1, <1>2, SendsFacts DEF CallsOut
<1> QED
  BY <1>3, <1>4

-----------------------------------------------------------------------------
(***************************************************************************)
(* Steps within a worker: the server and its answers are left alone.       *)
(***************************************************************************)
\* The types of an attempt's clocks and labels.
LEMMA ExecFacts ==
    ASSUME TypeOK, NEW a \in Attempts
    PROVE  /\ exec[a] \in Exec /\ timeout \in Timeouts /\ Throttle \in Nat
           /\ exec[a].pc \in Pcs /\ exec[a].call \in CallsOut
           /\ exec[a].answer \in {"none", "ok", "cancel", "refused", "lost"}
           /\ exec[a].wire \in Nat /\ exec[a].wire <= Latency
           /\ exec[a].since \in Nat /\ exec[a].since <= Throttle
           /\ exec[a].idle \in Nat /\ exec[a].unseen \in Nat
           /\ exec[a].reported \in BOOLEAN /\ exec[a].cancel \in BOOLEAN
           /\ exec[a].async \in BOOLEAN /\ exec[a].threw \in BOOLEAN /\ exec[a].fatal \in BOOLEAN
           /\ registered \in BOOLEAN
<1>1. exec[a] \in Exec /\ timeout \in Timeouts /\ registered \in BOOLEAN
  BY DEF TypeOK
<1>2. Throttle \in Nat /\ Latency \in Nat /\ Longest \in Nat
  BY <1>1, ThrottleFacts, ActivityAssumption DEF Longest
<1>3. exec[a].wire \in 0..Latency /\ exec[a].since \in 0..Throttle /\ exec[a].idle \in 0..Longest
      /\ exec[a].unseen \in Nat
  BY <1>1 DEF Exec, Longest
<1>4. /\ exec[a].pc \in Pcs /\ exec[a].call \in CallsOut
      /\ exec[a].answer \in {"none", "ok", "cancel", "refused", "lost"}
  BY <1>1 DEF Exec, Pcs, CallsOut
<1>5. /\ exec[a].reported \in BOOLEAN /\ exec[a].cancel \in BOOLEAN
      /\ exec[a].async \in BOOLEAN /\ exec[a].threw \in BOOLEAN /\ exec[a].fatal \in BOOLEAN
  BY <1>1, Zenon DEF Exec
<1> QED
  BY <1>1, <1>2, <1>3, <1>4, <1>5

\* The attempt's record becomes y.
LEMMA BecomesFacts ==
    ASSUME TypeOK, NEW a \in Attempts, NEW y \in Exec, Becomes(a, y), UNCHANGED timeout
    PROVE  /\ exec' \in [Attempts -> Exec'] /\ exec'[a] = y
           /\ \A b \in Attempts \ {a} : exec'[b] = exec[b]
           /\ Throttle' = Throttle
<1>1. Throttle' = Throttle /\ Exec' = Exec
  BY DEF Throttle, Exec
<1> QED
  BY <1>1 DEF Becomes, TypeOK

\* What holds of an attempt that a step of another leaves alone still does.
LEMMA StaysFits ==
    ASSUME IInv, NEW b \in Attempts, exec'[b] = exec[b], Throttle' = Throttle,
           UNCHANGED <<timeout, registered, server, lost, answers>>
    PROVE  AttemptFits(b)' /\ AnswersFit(b)' /\ BeatFits(b)' /\ SeenFits(b)'
<1>1. AttemptFits(b) /\ AnswersFit(b) /\ BeatFits(b) /\ SeenFits(b)
  BY DEF IInv, Base
<1>2. AttemptFits(b)'
  BY <1>1 DEF AttemptFits, Begun, Dead
<1>3. AnswersFit(b)'
  BY <1>1 DEF AnswersFit, Dead
<1>4. BeatFits(b)'
  BY <1>1 DEF BeatFits, Headroom, TokenValid
<1>5. SeenFits(b)'
  BY <1>1 DEF SeenFits, Unseen, TokenValid
<1> QED
  BY <1>2, <1>3, <1>4, <1>5

\* What holds of the others still does, and of a by its own case.
LEMMA LocalStep ==
    ASSUME IInv, NEW a \in Attempts, NEW y \in Exec, Becomes(a, y),
           UNCHANGED <<timeout, registered, server, lost, answers>>, faults' \in 0..MaxFaults,
           AttemptFits(a)', AnswersFit(a)', BeatFits(a)', SeenFits(a)'
    PROVE  IInv'
<1>1. TypeOK
  BY DEF IInv, Base
<1>2. /\ exec' \in [Attempts -> Exec'] /\ Throttle' = Throttle
      /\ \A b \in Attempts \ {a} : exec'[b] = exec[b]
  BY <1>1, BecomesFacts
<1>3. TypeOK'
  BY <1>1, <1>2 DEF TypeOK
<1>4. \A b \in Attempts \ {a} : AttemptFits(b)' /\ AnswersFit(b)' /\ BeatFits(b)' /\ SeenFits(b)'
  BY <1>2, StaysFits
<1> QED
  BY <1>3, <1>4 DEF IInv, Base

\* The function has ended, and an answer leaves for an attempt that ran or was polled.
LEMMA EndingFits ==
    ASSUME IInv, NEW a \in Attempts, NEW y \in Exec, NEW k \in {"completed", "failed"}, Becomes(a, y),
           UNCHANGED <<timeout, registered, server, lost, answers>>, faults' \in 0..MaxFaults,
           y.pc = "respond" /\ y.call = k /\ y.answer = "none" /\ y.wire = 0 /\ y.unseen = 0,
           y.cancel = exec[a].cancel /\ y.async = exec[a].async,
           exec[a].pc # "none",
           \/ exec[a].call = "none" /\ exec[a].pc \in {"polled", "run"}
           \/ Dead(a) \/ a \in lost,
           \/ exec[a].pc \in {"polled", "run"}
           \/ exec[a].call = "completed" /\ y.threw = FALSE,
           k = "completed" => y.threw = FALSE /\ registered = TRUE /\ y.async = FALSE,
           k = "failed" => /\ y.threw = TRUE \/ registered = FALSE \/ a \in lost \/ Dead(a)
                           /\ y.threw = TRUE \/ y.async = FALSE
    PROVE  IInv'
<1> DEFINE x == exec[a]
<1>1. TypeOK /\ AttemptFits(a) /\ AnswersFit(a) /\ BeatFits(a) /\ SeenFits(a)
  BY DEF IInv, Base
<1>2. exec'[a] = y /\ Throttle' = Throttle
  BY <1>1, BecomesFacts
<1>3. /\ Throttle \in Nat /\ Gap \in Nat /\ Latency \in Nat /\ Wait \in Nat
      /\ x.idle \in Nat /\ x.since \in Nat /\ x.since <= Throttle
      /\ x.reported \in BOOLEAN /\ x.pc \in Pcs
  BY <1>1, ExecFacts, ActivityAssumption
<1>4. AttemptFits(a)'
  BY <1>1, <1>2 DEF AttemptFits, Begun, Dead
<1>5. AnswersFit(a)'
  <2>1. \A v \in {"completed", "failed"} : <<a, v>> \notin answers \/ (x.call = "completed" /\ y.threw = FALSE)
    BY <1>1 DEF AnswersFit
  <2>2. x.call = "completed" => x.threw = FALSE /\ registered = TRUE /\ x.async = FALSE
    BY <1>1 DEF AnswersFit
  <2>3. <<a, "failed">> \in answers => x.threw = TRUE \/ registered = FALSE \/ a \in lost
    BY <1>1 DEF AnswersFit
  <2> QED
    BY <1>2, <2>1, <2>2, <2>3 DEF AnswersFit, Dead
<1>6. BeatFits(a)'
  <2> SUFFICES ASSUME Headroom, TokenValid(a), a \notin lost
               PROVE  server.beat <= Wait + Gap + 0 \/ server.beat < Throttle + Gap + 0
    BY <1>2 DEF BeatFits, Headroom, TokenValid
  <2>1. x.call = "none" /\ x.pc \in {"polled", "run"}
    BY <1>1 DEF TokenValid, Dead, Attempts
  <2>2. x.idle <= IF x.pc = "polled" THEN Wait ELSE Gap
    BY <1>1, <2>1 DEF AttemptFits
  <2>3. server.beat \in Nat
    BY <1>1, ThrottleFacts DEF TypeOK
  <2>4. CASE x.pc = "polled"
    BY <1>1, <1>3, <2>2, <2>3, <2>4 DEF BeatFits
  <2>5. CASE x.pc = "run"
    <3>1. /\ x.reported = FALSE => server.beat <= Wait + x.idle
          /\ x.reported = TRUE => /\ x.since < Throttle => server.beat <= x.since
                                  /\ x.since = Throttle => server.beat < Throttle + x.idle
      BY <1>1, <2>1, <2>5 DEF BeatFits
    <3> QED
      BY <1>3, <2>2, <2>3, <2>5, <3>1
  <2> QED
    BY <2>1, <2>4, <2>5
<1>7. SeenFits(a)'
  <2>1. 0 <= Throttle + Gap + 2 * Latency
    BY <1>3
  <2> QED
    BY <1>1, <1>2, <2>1 DEF SeenFits, Unseen
<1> QED
  BY <1>4, <1>5, <1>6, <1>7, LocalStep

\* The attempt is over in its worker.
LEMMA LeftFits ==
    ASSUME IInv, NEW a \in Attempts, NEW pc \in {"done", "gone"}, exec[a].pc # "none",
           exec'[a] = Leaves(exec[a], pc), Throttle' = Throttle,
           UNCHANGED <<timeout, registered, server, lost, answers>>
    PROVE  AttemptFits(a)' /\ AnswersFit(a)' /\ BeatFits(a)' /\ SeenFits(a)'
<1> DEFINE x == exec[a]
           y == Leaves(exec[a], pc)
<1>1. TypeOK /\ AttemptFits(a) /\ AnswersFit(a) /\ BeatFits(a) /\ SeenFits(a)
  BY DEF IInv, Base
<1>2. x \in Exec /\ timeout \in Timeouts
  BY <1>1, ExecFacts
<1>3. /\ y \in Exec /\ y.pc = pc /\ y.call = "none" /\ y.answer = "none" /\ y.wire = 0 /\ y.idle = 0
      /\ y.unseen = 0 /\ y.cancel = x.cancel /\ y.async = x.async /\ y.threw = x.threw
  BY <1>2, LeavesFacts DEF Pcs
<1>4. exec'[a] = y
  OBVIOUS
<1> HIDE DEF y
<1>5. AttemptFits(a)'
  BY <1>1, <1>3, <1>4 DEF AttemptFits, Begun, Dead
<1>6. AnswersFit(a)'
  BY <1>1, <1>3, <1>4 DEF AnswersFit
<1>7. BeatFits(a)'
  BY <1>3, <1>4 DEF BeatFits
<1>8. SeenFits(a)'
  <2>1. Throttle \in Nat /\ Gap \in Nat /\ Latency \in Nat
    BY <1>1, ExecFacts, ActivityAssumption
  <2>2. 0 <= Throttle + Gap + 2 * Latency
    BY <2>1
  <2> QED
    BY <1>1, <1>3, <1>4, <2>2 DEF SeenFits, Unseen
<1> QED
  BY <1>5, <1>6, <1>7, <1>8

LEMMA LeavingFits ==
    ASSUME IInv, NEW a \in Attempts, NEW pc \in {"done", "gone"}, exec[a].pc # "none",
           Becomes(a, Leaves(exec[a], pc)),
           UNCHANGED <<timeout, registered, server, lost, answers>>, faults' \in 0..MaxFaults
    PROVE  IInv'
<1> DEFINE y == Leaves(exec[a], pc)
<1>1. TypeOK /\ exec[a] \in Exec /\ timeout \in Timeouts
  BY ExecFacts DEF IInv, Base
<1>2. y \in Exec
  BY <1>1, LeavesFacts DEF Pcs
<1>3. exec'[a] = y /\ Throttle' = Throttle
  BY <1>1, <1>2, BecomesFacts
<1> QED
  BY <1>2, <1>3, LeftFits, LocalStep

\* A step of a handler counts no fault.
LEMMA NoFault ==
    ASSUME IInv, UNCHANGED faults
    PROVE  faults' \in 0..MaxFaults
BY DEF IInv, Base, TypeOK

\* Handle keeps the invariant.
LEMMA HandleStep ==
    ASSUME IInv, NEW a \in Attempts, Handle(a)
    PROVE  IInv'
<1> DEFINE x == exec[a]
<1>1. TypeOK /\ AttemptFits(a) /\ AnswersFit(a) /\ BeatFits(a) /\ SeenFits(a)
  BY DEF IInv, Base
<1>2. x \in Exec /\ timeout \in Timeouts /\ registered \in BOOLEAN
  BY <1>1, ExecFacts
<1>3. /\ x.pc = "polled" /\ UNCHANGED <<timeout, registered, server, lost, answers>>
      /\ faults' \in 0..MaxFaults
  BY NoFault DEF Handle
<1>4. CASE registered = FALSE
  <2> DEFINE y == Sends(Leaves(x, "respond"), "failed")
  <2>1. /\ y \in Exec /\ y.pc = "respond" /\ y.call = "failed" /\ y.answer = "none" /\ y.wire = 0
        /\ y.unseen = 0 /\ y.async = x.async /\ y.threw = x.threw /\ y.cancel = x.cancel
    BY <1>2, EndsFacts DEF CallsOut
  <2>2. Becomes(a, y)
    BY <1>4 DEF Handle
  <2>3. x.call = "none" /\ x.async = FALSE
    BY <1>1, <1>3 DEF AttemptFits
  <2> HIDE DEF y
  <2> QED
    BY <1>3, <1>4, <2>1, <2>2, <2>3, EndingFits
<1>5. CASE registered = TRUE
  <2> DEFINE y == [x EXCEPT !.pc = "run", !.idle = 0]
  <2>1. /\ 0 \in 0..Longest /\ Gap \in Nat /\ Wait \in Nat /\ x.idle \in Nat /\ x.since \in Nat
        /\ Throttle \in Nat /\ Latency \in Nat
    BY <1>1, ExecFacts, ActivityAssumption DEF Longest
  <2>2. /\ y \in Exec /\ y.pc = "run" /\ y.idle = 0 /\ y.call = x.call /\ y.answer = x.answer
        /\ y.reported = x.reported /\ y.unseen = x.unseen /\ y.since = x.since /\ y.wire = x.wire
    BY <1>2, <2>1 DEF Exec, Longest
  <2>3. y.cancel = x.cancel /\ y.async = x.async /\ y.threw = x.threw
    BY <1>2 DEF Exec
  <2>4. Becomes(a, y)
    BY <1>5 DEF Handle
  <2> HIDE DEF y
  <2>5. exec'[a] = y /\ Throttle' = Throttle
    BY <1>1, <1>3, <2>2, <2>4, BecomesFacts
  <2>6. x.call = "none" /\ x.unseen = 0 /\ x.reported = FALSE /\ x.threw = FALSE /\ x.idle <= Wait
    BY <1>1, <1>3 DEF AttemptFits
  <2>7. AttemptFits(a)'
    BY <1>1, <1>3, <1>5, <2>1, <2>2, <2>3, <2>5, <2>6 DEF AttemptFits, Begun, Dead
  <2>8. AnswersFit(a)'
    BY <1>1, <1>3, <2>2, <2>3, <2>5, <2>6 DEF AnswersFit
  <2>9. BeatFits(a)'
    <3>1. Headroom /\ TokenValid(a) /\ a \notin lost => server.beat <= x.idle
      BY <1>1, <1>3 DEF BeatFits
    <3>2. server.beat \in Nat
      BY <1>1, ThrottleFacts DEF TypeOK
    <3>3. Headroom /\ TokenValid(a) /\ a \notin lost => server.beat <= Wait + 0
      BY <2>1, <2>6, <3>1, <3>2
    <3> QED
      BY <1>3, <2>2, <2>3, <2>5, <2>6, <3>3 DEF BeatFits, Headroom, TokenValid
  <2>10. SeenFits(a)'
    <3>1. 0 <= Throttle + Gap + 2 * Latency
      BY <2>1
    <3> QED
      BY <1>1, <1>3, <2>2, <2>3, <2>5, <2>6, <3>1 DEF SeenFits, Unseen
  <2> QED
    BY <1>3, <2>2, <2>4, <2>7, <2>8, <2>9, <2>10, LocalStep
<1> QED
  BY <1>2, <1>4, <1>5

\* FunctionReturns keeps the invariant.
LEMMA FunctionReturnsStep ==
    ASSUME IInv, NEW a \in Attempts, FunctionReturns(a)
    PROVE  IInv'
<1> DEFINE x == exec[a]
<1>1. TypeOK /\ AttemptFits(a) /\ x.pc = "run" /\ x.call = "none"
  BY DEF IInv, Base, FunctionReturns, Running
<1>2. x \in Exec /\ timeout \in Timeouts /\ x.async \in BOOLEAN
  BY <1>1, ExecFacts
<1>3. UNCHANGED <<timeout, registered, server, lost, answers>> /\ faults' \in 0..MaxFaults
  BY NoFault DEF FunctionReturns
<1>4. CASE x.async = TRUE
  <2>1. Becomes(a, Leaves(x, "done"))
    BY <1>4 DEF FunctionReturns, AfterReturn
  <2> QED
    BY <1>1, <1>3, <2>1, LeavingFits
<1>5. CASE x.async = FALSE
  <2> DEFINE y == Sends(Leaves(x, "respond"), "completed")
  <2>1. /\ y \in Exec /\ y.pc = "respond" /\ y.call = "completed" /\ y.answer = "none" /\ y.wire = 0
        /\ y.unseen = 0 /\ y.async = x.async /\ y.threw = x.threw /\ y.cancel = x.cancel
    BY <1>2, EndsFacts DEF CallsOut
  <2>2. Becomes(a, y)
    BY <1>5 DEF FunctionReturns, AfterReturn
  <2>3. x.threw = FALSE /\ registered = TRUE
    BY <1>1 DEF AttemptFits
  <2> HIDE DEF y
  <2> QED
    BY <1>1, <1>3, <1>5, <2>1, <2>2, <2>3, EndingFits
<1> QED
  BY <1>2, <1>4, <1>5

\* FunctionThrows keeps the invariant.
LEMMA FunctionThrowsStep ==
    ASSUME IInv, NEW a \in Attempts, FunctionThrows(a)
    PROVE  IInv'
<1> DEFINE x == exec[a]
           t == [x EXCEPT !.threw = TRUE]
<1>1. TypeOK /\ x.pc = "run" /\ x.call = "none"
  BY DEF IInv, Base, FunctionThrows, Running
<1>2. x \in Exec /\ timeout \in Timeouts
  BY <1>1, ExecFacts
<1>3. UNCHANGED <<timeout, registered, server, lost, answers>> /\ faults' \in 0..MaxFaults
  BY NoFault DEF FunctionThrows
<1>4. t \in Exec /\ t.threw = TRUE /\ t.async = x.async /\ t.cancel = x.cancel
  BY <1>2 DEF Exec
<1>5. PICK fatal \in BOOLEAN : Becomes(a, Thrown(t, fatal))
  BY DEF FunctionThrows
<1> HIDE DEF t
<1> DEFINE y == Thrown(t, fatal)
<1>6. /\ y \in Exec /\ y.pc = "respond" /\ y.call = "failed" /\ y.answer = "none" /\ y.wire = 0
      /\ y.unseen = 0 /\ y.async = t.async /\ y.threw = t.threw /\ y.cancel = t.cancel
  BY <1>2, <1>4, ThrownFacts
<1> HIDE DEF y
<1>7. Becomes(a, y)
  BY <1>5 DEF y
<1> QED
  BY <1>1, <1>3, <1>4, <1>6, <1>7, EndingFits

\* FunctionTerminates keeps the invariant: the attempts of its process are over, the
\* others are as they were.
LEMMA FunctionTerminatesStep ==
    ASSUME IInv, NEW a \in Attempts, FunctionTerminates(a)
    PROVE  IInv'
<1>1. TypeOK
  BY DEF IInv, Base
<1>2. UNCHANGED <<timeout, registered, server, lost, answers, faults>> /\ Throttle' = Throttle
      /\ Exec' = Exec
  BY DEF FunctionTerminates, Throttle, Exec
<1>3. PICK process \in SUBSET Attempts :
          exec' = [b \in Attempts |-> IF b \in process THEN Terminated(exec[b]) ELSE exec[b]]
  BY DEF FunctionTerminates
<1>4. ASSUME NEW b \in Attempts
      PROVE  exec'[b] \in Exec /\ AttemptFits(b)' /\ AnswersFit(b)' /\ BeatFits(b)' /\ SeenFits(b)'
  <2>1. exec[b] \in Exec
    BY <1>1, ExecFacts
  <2>2. CASE exec'[b] = exec[b]
    BY <1>2, <2>1, <2>2, StaysFits
  <2>3. CASE exec'[b] = Leaves(exec[b], "gone") /\ exec[b].pc # "none"
    BY <1>1, <1>2, <2>1, <2>3, LeftFits, LeavesFacts DEF Pcs, TypeOK
  <2> QED
    BY <1>3, <2>2, <2>3 DEF Terminated
<1>5. exec' \in [Attempts -> Exec']
  BY <1>2, <1>3, <1>4
<1>6. TypeOK'
  BY <1>1, <1>2, <1>5 DEF TypeOK
<1> QED
  BY <1>4, <1>6 DEF IInv, Base

\* CompletedReturns keeps the invariant.
LEMMA CompletedReturnsStep ==
    ASSUME IInv, NEW a \in Attempts, CompletedReturns(a)
    PROVE  IInv'
<1> DEFINE x == exec[a]
<1>1. TypeOK /\ AttemptFits(a) /\ AnswersFit(a) /\ x.call = "completed" /\ x.answer # "none"
  BY DEF IInv, Base, CompletedReturns
<1>2. x \in Exec /\ timeout \in Timeouts /\ x.pc \in Pcs
      /\ x.answer \in {"none", "ok", "cancel", "refused", "lost"}
  BY <1>1, ExecFacts
<1>3. UNCHANGED <<timeout, registered, server, lost, answers>> /\ faults' \in 0..MaxFaults
  BY NoFault DEF CompletedReturns
<1>4. x.pc # "none"
  BY <1>1, <1>2 DEF AttemptFits
<1>5. CASE x.answer = "ok"
  <2>1. Becomes(a, Leaves(x, "done"))
    BY <1>5 DEF CompletedReturns
  <2> QED
    BY <1>3, <1>4, <2>1, LeavingFits
<1>6. CASE x.answer # "ok"
  <2> DEFINE y == Thrown(x, FALSE)
  <2>1. /\ y \in Exec /\ y.pc = "respond" /\ y.call = "failed" /\ y.answer = "none" /\ y.wire = 0
        /\ y.unseen = 0 /\ y.async = x.async /\ y.threw = x.threw /\ y.cancel = x.cancel
    BY <1>2, ThrownFacts
  <2>2. Becomes(a, y)
    BY <1>6 DEF CompletedReturns
  <2> HIDE DEF y
  <2>3. Dead(a) \/ a \in lost
    BY <1>1, <1>2, <1>6 DEF AttemptFits
  <2>4. x.threw = FALSE /\ x.async = FALSE
    BY <1>1 DEF AnswersFit
  <2> QED
    BY <1>1, <1>3, <1>4, <2>1, <2>2, <2>3, <2>4, EndingFits
<1> QED
  BY <1>5, <1>6

\* FailedReturns keeps the invariant.
LEMMA FailedReturnsStep ==
    ASSUME IInv, NEW a \in Attempts, FailedReturns(a)
    PROVE  IInv'
<1>1. TypeOK /\ AttemptFits(a) /\ exec[a].call = "failed" /\ Becomes(a, Leaves(exec[a], "done"))
  BY DEF IInv, Base, FailedReturns
<1>2. exec[a].pc # "none"
  BY <1>1 DEF AttemptFits
<1> QED
  BY <1>1, <1>2, NoFault, LeavingFits DEF FailedReturns

\* A fault is one more, within the bound.
LEMMA FaultFacts ==
    ASSUME IInv, Fault
    PROVE  faults' \in 0..MaxFaults
BY ActivityAssumption DEF IInv, Base, TypeOK, Fault

\* Crash keeps the invariant.
LEMMA CrashStep ==
    ASSUME IInv, NEW a \in Attempts, Crash(a)
    PROVE  IInv'
BY FaultFacts, LeavingFits DEF Crash

\* RecordHeartbeat keeps the invariant: a call that is throttled changes no bound,
\* one that is made starts with the bounds of a call on the wire.
LEMMA RecordHeartbeatStep ==
    ASSUME IInv, NEW a \in Attempts, RecordHeartbeat(a)
    PROVE  IInv'
<1> DEFINE x == exec[a]
<1>1. TypeOK /\ AttemptFits(a) /\ AnswersFit(a) /\ BeatFits(a) /\ SeenFits(a)
  BY DEF IInv, Base
<1>2. /\ x.pc = "run" /\ x.call = "none" /\ Becomes(a, Heartbeat(x))
      /\ UNCHANGED <<timeout, registered, server, lost, answers>> /\ faults' \in 0..MaxFaults
  BY NoFault DEF RecordHeartbeat, Running
<1>3. /\ x \in Exec /\ Throttle \in Nat /\ Gap \in Nat /\ Wait \in Nat /\ Latency \in Nat
      /\ x.since \in Nat /\ x.since <= Throttle /\ x.idle \in Nat /\ x.unseen \in Nat
      /\ x.reported \in BOOLEAN /\ 0 \in 0..Longest /\ 0 \in 0..Throttle
  BY <1>1, ExecFacts, ActivityAssumption DEF Longest
<1>4. server.beat \in Nat
  BY <1>1, ThrottleFacts DEF TypeOK
<1>5. x.idle <= Gap /\ x.threw = FALSE /\ registered = TRUE /\ x.answer = "none"
  BY <1>1, <1>2 DEF AttemptFits
<1>6. Headroom /\ TokenValid(a) /\ a \notin lost =>
          /\ x.reported = FALSE => server.beat <= Wait + x.idle
          /\ x.reported = TRUE => /\ x.since < Throttle => server.beat <= x.since
                                  /\ x.since = Throttle => server.beat < Throttle + x.idle
  BY <1>1, <1>2 DEF BeatFits
<1>7. /\ server.cancelRequested = FALSE => x.unseen = 0 /\ x.cancel = FALSE
      /\ 2 * Latency < Throttle => x.unseen <= Throttle + Gap + 2 * Latency
      /\ 2 * Latency < Throttle /\ Unseen(a) =>
            /\ x.reported = FALSE => x.unseen <= x.idle
            /\ x.reported = TRUE => /\ x.since < Throttle => x.unseen <= x.since
                                    /\ x.since = Throttle => x.unseen <= Throttle + x.idle
  BY <1>1, <1>2 DEF SeenFits
<1>8. CASE x.reported = TRUE /\ x.since < Throttle
  <2> DEFINE y == [x EXCEPT !.idle = 0]
  <2>1. /\ y \in Exec /\ y.pc = x.pc /\ y.idle = 0 /\ y.call = x.call /\ y.answer = x.answer
        /\ y.reported = x.reported /\ y.unseen = x.unseen /\ y.since = x.since /\ y.wire = x.wire
    BY <1>3 DEF Exec, Longest
  <2>2. y.cancel = x.cancel /\ y.async = x.async /\ y.threw = x.threw
    BY <1>3 DEF Exec
  <2>3. Becomes(a, y)
    BY <1>2, <1>8 DEF Heartbeat
  <2> HIDE DEF y
  <2>4. exec'[a] = y /\ Throttle' = Throttle
    BY <1>1, <1>2, <2>1, <2>3, BecomesFacts
  <2>5. AttemptFits(a)'
    BY <1>1, <1>2, <1>3, <2>1, <2>2, <2>4 DEF AttemptFits, Begun, Dead
  <2>6. AnswersFit(a)'
    BY <1>1, <1>2, <2>1, <2>2, <2>4 DEF AnswersFit, Dead
  <2>7. BeatFits(a)'
    <3>1. x.since # Throttle
      BY <1>3, <1>8
    <3> QED
      BY <1>2, <1>6, <1>8, <2>1, <2>4, <3>1 DEF BeatFits, Headroom, TokenValid
  <2>8. SeenFits(a)'
    <3>1. x.since # Throttle
      BY <1>3, <1>8
    <3> QED
      BY <1>2, <1>5, <1>7, <1>8, <2>1, <2>2, <2>4, <3>1 DEF SeenFits, Unseen, TokenValid
  <2> QED
    BY <1>2, <2>1, <2>3, <2>5, <2>6, <2>7, <2>8, LocalStep
<1>9. CASE ~(x.reported = TRUE /\ x.since < Throttle)
  <2> DEFINE z == [x EXCEPT !.idle = 0, !.since = 0, !.reported = TRUE]
             y == Sends(z, "heartbeat")
  <2>1. z \in Exec /\ z.pc = x.pc /\ z.idle = 0 /\ z.since = 0 /\ z.reported = TRUE /\ z.unseen = x.unseen
    BY <1>3 DEF Exec, Longest
  <2>2. z.cancel = x.cancel /\ z.async = x.async /\ z.threw = x.threw
    BY <1>3 DEF Exec
  <2>3. Becomes(a, y)
    BY <1>2, <1>9 DEF Heartbeat
  <2> HIDE DEF z
  <2>4. /\ y \in Exec /\ y.pc = z.pc /\ y.idle = 0 /\ y.since = 0 /\ y.reported = TRUE /\ y.unseen = x.unseen
        /\ y.call = "heartbeat" /\ y.answer = "none" /\ y.wire = 0
        /\ y.cancel = x.cancel /\ y.async = x.async /\ y.threw = x.threw
    BY <2>1, <2>2, SendsFacts DEF CallsOut
  <2> HIDE DEF y
  <2>5. exec'[a] = y /\ Throttle' = Throttle
    BY <1>1, <1>2, <2>3, <2>4, BecomesFacts
  <2>6. AttemptFits(a)'
    BY <1>1, <1>2, <1>3, <1>5, <2>1, <2>4, <2>5 DEF AttemptFits, Begun, Dead
  <2>7. AnswersFit(a)'
    BY <1>1, <1>2, <2>1, <2>4, <2>5 DEF AnswersFit, Dead
  <2>8. BeatFits(a)'
    <3>1. Headroom /\ TokenValid(a) /\ a \notin lost =>
              server.beat <= Wait + Gap + 0 \/ server.beat < Throttle + Gap + 0
      BY <1>3, <1>4, <1>5, <1>6, <1>9
    <3> QED
      BY <1>2, <2>1, <2>4, <2>5, <3>1 DEF BeatFits, Headroom, TokenValid
  <2>9. SeenFits(a)'
    <3>1. 2 * Latency < Throttle /\ Unseen(a) => x.unseen <= Throttle + Gap + 0
      BY <1>3, <1>5, <1>7, <1>9
    <3> QED
      BY <1>2, <1>7, <2>1, <2>4, <2>5, <3>1 DEF SeenFits, Unseen, TokenValid
  <2> QED
    BY <1>2, <2>3, <2>4, <2>6, <2>7, <2>8, <2>9, LocalStep
<1> QED
  BY <1>8, <1>9

\* DeferCompletion keeps the invariant: nothing was taken from a running attempt.
LEMMA DeferCompletionStep ==
    ASSUME IInv, NEW a \in Attempts, DeferCompletion(a)
    PROVE  IInv'
<1> DEFINE x == exec[a]
           y == [x EXCEPT !.async = TRUE]
<1>1. TypeOK /\ AttemptFits(a) /\ AnswersFit(a) /\ BeatFits(a) /\ SeenFits(a)
  BY DEF IInv, Base
<1>2. /\ x.pc = "run" /\ x.call = "none" /\ Becomes(a, y)
      /\ UNCHANGED <<timeout, registered, server, lost, answers>> /\ faults' \in 0..MaxFaults
  BY NoFault DEF DeferCompletion, Running
<1>3. x \in Exec
  BY <1>1, ExecFacts
<1>4. /\ y \in Exec /\ y.pc = x.pc /\ y.idle = x.idle /\ y.call = x.call /\ y.answer = x.answer
      /\ y.reported = x.reported /\ y.unseen = x.unseen /\ y.since = x.since /\ y.wire = x.wire
      /\ y.cancel = x.cancel /\ y.threw = x.threw
  BY <1>3 DEF Exec
<1> HIDE DEF y
<1>5. exec'[a] = y /\ Throttle' = Throttle
  BY <1>1, <1>2, <1>4, BecomesFacts
<1>6. AttemptFits(a)'
  BY <1>1, <1>2, <1>4, <1>5 DEF AttemptFits, Begun, Dead
<1>7. AnswersFit(a)'
  BY <1>1, <1>2, <1>4, <1>5 DEF AnswersFit, Dead
<1>8. BeatFits(a)'
  BY <1>1, <1>2, <1>4, <1>5 DEF BeatFits, Headroom, TokenValid
<1>9. SeenFits(a)'
  BY <1>1, <1>2, <1>4, <1>5 DEF SeenFits, Unseen, TokenValid
<1> QED
  BY <1>2, <1>4, <1>6, <1>7, <1>8, <1>9, LocalStep

\* The token of an attempt that is given up is not good.
LEMMA DeadFacts ==
    ASSUME TypeOK, NEW a \in Attempts, Dead(a)
    PROVE  ~TokenValid(a)
<1>1. server.attempt \in Attempts
  BY DEF TypeOK
<1> QED
  BY <1>1 DEF Dead, TokenValid, Attempts

\* With the headroom, a call's way is shorter than the throttle interval.
LEMMA HeadroomFacts ==
    ASSUME timeout \in Timeouts, Headroom
    PROVE  /\ Latency < Throttle /\ Throttle + Gap + Latency <= timeout
<1>1. timeout \in Nat /\ Throttle \in Nat /\ Gap \in Nat \ {0} /\ Latency \in Nat /\ Wait \in Nat
  BY ThrottleFacts, ActivityAssumption
<1>2. 5 * (Gap + Latency) <= timeout /\ timeout > 0
  BY <1>1 DEF Headroom
<1>3. 10 * Throttle <= 8 * timeout /\ 8 * timeout < 10 * Throttle + 10
  BY <1>2, ThrottleFacts
<1> QED
  BY <1>1, <1>2, <1>3

\* HeartbeatReturns keeps the invariant.
LEMMA HeartbeatReturnsStep ==
    ASSUME IInv, NEW a \in Attempts, HeartbeatReturns(a)
    PROVE  IInv'
<1> DEFINE w == exec[a]
           x == [w EXCEPT !.call = "none", !.answer = "none", !.wire = 0]
<1>1. TypeOK /\ AttemptFits(a) /\ AnswersFit(a) /\ BeatFits(a) /\ SeenFits(a)
  BY DEF IInv, Base
<1>2. /\ w.call = "heartbeat" /\ w.answer # "none"
      /\ UNCHANGED <<timeout, registered, server, lost, answers>> /\ faults' \in 0..MaxFaults
  BY NoFault DEF HeartbeatReturns
<1>3. /\ w \in Exec /\ timeout \in Timeouts /\ Throttle \in Nat /\ Gap \in Nat /\ Wait \in Nat
      /\ Latency \in Nat /\ w.wire \in Nat /\ w.wire <= Latency
      /\ w.since \in Nat /\ w.since <= Throttle /\ w.unseen \in Nat /\ w.pc \in Pcs
      /\ 0 \in 0..Latency
  BY <1>1, ExecFacts, ActivityAssumption
<1>4. server.beat \in Nat
  BY <1>1, ThrottleFacts DEF TypeOK
<1>5. w.pc = "run" /\ w.reported = TRUE /\ w.idle = 0 /\ w.threw = FALSE
  BY <1>1, <1>2, <1>3 DEF AttemptFits, Pcs
<1>6. /\ x \in Exec /\ x.pc = w.pc /\ x.idle = w.idle /\ x.call = "none" /\ x.answer = "none"
      /\ x.reported = w.reported /\ x.unseen = w.unseen /\ x.since = w.since /\ x.wire = 0
  BY <1>3 DEF Exec
<1>7. x.cancel = w.cancel /\ x.async = w.async /\ x.threw = w.threw
  BY <1>3 DEF Exec
<1>8. 0 <= Gap
  BY <1>3
<1>9. \/ w.answer \in {"ok", "cancel"} /\ Becomes(a, [x EXCEPT !.cancel = (w.answer = "cancel")])
      \/ w.answer \in {"refused", "lost"} /\ Becomes(a, x)
      \/ w.answer \in {"refused", "lost"} /\ Becomes(a, Thrown([x EXCEPT !.threw = TRUE], FALSE))
  BY DEF HeartbeatReturns
<1> HIDE DEF x
<1>10. CASE w.answer \in {"ok", "cancel"} /\ Becomes(a, [x EXCEPT !.cancel = (w.answer = "cancel")])
  <2> DEFINE y == [x EXCEPT !.cancel = (w.answer = "cancel")]
  <2>1. /\ y \in Exec /\ y.pc = w.pc /\ y.idle = w.idle /\ y.call = "none" /\ y.answer = "none"
        /\ y.reported = w.reported /\ y.unseen = w.unseen /\ y.since = w.since /\ y.wire = 0
    BY <1>6 DEF Exec
  <2>2. y.cancel = (w.answer = "cancel") /\ y.async = w.async /\ y.threw = w.threw
    BY <1>6, <1>7 DEF Exec
  <2>3. Becomes(a, y)
    BY <1>10
  <2> HIDE DEF y
  <2>4. exec'[a] = y /\ Throttle' = Throttle
    BY <1>1, <1>2, <2>1, <2>3, BecomesFacts
  <2>5. AttemptFits(a)'
    BY <1>1, <1>2, <1>5, <1>8, <2>1, <2>2, <2>4 DEF AttemptFits, Begun, Dead
  <2>6. AnswersFit(a)'
    BY <1>1, <1>2, <1>5, <2>1, <2>2, <2>4 DEF AnswersFit, Dead
  <2>7. BeatFits(a)'
    <3>1. ASSUME Headroom, TokenValid(a), a \notin lost
          PROVE  /\ w.since < Throttle => server.beat <= w.since
                 /\ w.since = Throttle => server.beat < Throttle + 0
      <4>1. server.beat <= w.wire /\ (server.beat <= w.since \/ w.since = Throttle)
        BY <1>1, <1>2, <1>10, <3>1 DEF BeatFits
      <4>2. Latency < Throttle
        BY <1>3, <3>1, HeadroomFacts
      <4> QED
        BY <1>3, <1>4, <4>1, <4>2
    <3> QED
      BY <1>2, <1>5, <2>1, <2>4, <3>1 DEF BeatFits, Headroom, TokenValid
  <2>8. SeenFits(a)'
    <3>1. ASSUME 2 * Latency < Throttle, Unseen(a), w.answer = "ok"
          PROVE  /\ w.since < Throttle => w.unseen <= w.since
                 /\ w.since = Throttle => w.unseen <= Throttle + 0
      <4>1. w.unseen <= w.wire /\ (w.unseen <= w.since \/ w.since = Throttle)
        BY <1>1, <1>2, <3>1 DEF SeenFits
      <4> QED
        BY <1>3, <3>1, <4>1
    <3>2. /\ server.cancelRequested = FALSE => w.unseen = 0 /\ w.answer = "ok"
          /\ w.answer = "ok" => w.cancel = FALSE
          /\ 2 * Latency < Throttle => w.unseen <= Throttle + Gap + 2 * Latency
      BY <1>1, <1>2, <1>10 DEF SeenFits
    <3> QED
      BY <1>2, <1>5, <1>10, <2>1, <2>2, <2>4, <3>1, <3>2 DEF SeenFits, Unseen, TokenValid
  <2> QED
    BY <1>2, <2>1, <2>3, <2>5, <2>6, <2>7, <2>8, LocalStep
<1>11. ASSUME w.answer \in {"refused", "lost"}
       PROVE  /\ Dead(a) \/ a \in lost
              /\ ~(TokenValid(a) /\ a \notin lost)
  BY <1>1, <1>11, DeadFacts DEF AttemptFits
<1>12. CASE w.answer \in {"refused", "lost"} /\ Becomes(a, x)
  <2>1. exec'[a] = x /\ Throttle' = Throttle
    BY <1>1, <1>2, <1>6, <1>12, BecomesFacts
  <2>2. AttemptFits(a)'
    BY <1>1, <1>2, <1>5, <1>6, <1>7, <1>8, <2>1 DEF AttemptFits, Begun, Dead
  <2>3. AnswersFit(a)'
    BY <1>1, <1>2, <1>5, <1>6, <1>7, <2>1 DEF AnswersFit, Dead
  <2>4. BeatFits(a)'
    BY <1>2, <1>11, <1>12 DEF BeatFits, TokenValid
  <2>5. SeenFits(a)'
    BY <1>1, <1>2, <1>6, <1>7, <1>11, <1>12, <2>1 DEF SeenFits, Unseen, TokenValid
  <2> QED
    BY <1>2, <1>6, <1>12, <2>2, <2>3, <2>4, <2>5, LocalStep
<1>13. CASE w.answer \in {"refused", "lost"} /\ Becomes(a, Thrown([x EXCEPT !.threw = TRUE], FALSE))
  <2> DEFINE t == [x EXCEPT !.threw = TRUE]
             y == Thrown(t, FALSE)
  <2>1. t \in Exec /\ t.threw = TRUE /\ t.async = w.async /\ t.cancel = w.cancel
    BY <1>6, <1>7 DEF Exec
  <2>2. Becomes(a, y)
    BY <1>13
  <2> HIDE DEF t
  <2>3. /\ y \in Exec /\ y.pc = "respond" /\ y.call = "failed" /\ y.answer = "none" /\ y.wire = 0
        /\ y.unseen = 0 /\ y.async = t.async /\ y.threw = t.threw /\ y.cancel = t.cancel
    BY <1>3, <2>1, ThrownFacts
  <2> HIDE DEF y
  <2> QED
    BY <1>2, <1>5, <1>11, <1>13, <2>1, <2>2, <2>3, EndingFits
<1> QED
  BY <1>9, <1>10, <1>12, <1>13

-----------------------------------------------------------------------------
(***************************************************************************)
(* Steps of the server.                                                    *)
(***************************************************************************)
\* The started attempt is given up, or has ended: its token is no good any more,
\* and neither is any other.
GivesUp ==
    /\ server' \in Servers /\ server'.cancelRequested = server.cancelRequested
    /\ \A a \in Attempts : /\ Dead(a) => Dead(a)'
                           /\ Begun(a) => Begun(a)'
                           /\ TokenValid(a) => Dead(a)'
                           /\ ~TokenValid(a)'

\* What holds of attempt b still does after a step that does not touch it and
\* brings no token into force.
LEMMA OthersFit ==
    ASSUME IInv, NEW b \in Attempts, exec'[b] = exec[b], UNCHANGED <<timeout, registered>>,
           b \in lost' <=> b \in lost,
           \A v \in {"completed", "failed"} : <<b, v>> \in answers' <=> <<b, v>> \in answers,
           Dead(b) => Dead(b)', Begun(b) => Begun(b)',
           server'.cancelRequested = server.cancelRequested,
           TokenValid(b)' => TokenValid(b) /\ server'.beat = server.beat
    PROVE  AttemptFits(b)' /\ AnswersFit(b)' /\ BeatFits(b)' /\ SeenFits(b)'
<1>1. AttemptFits(b) /\ AnswersFit(b) /\ BeatFits(b) /\ SeenFits(b)
  BY DEF IInv, Base
<1>2. Throttle' = Throttle /\ (Headroom' <=> Headroom)
  BY DEF Throttle, Headroom
<1>3. AttemptFits(b)'
  BY <1>1 DEF AttemptFits
<1>4. AnswersFit(b)'
  <2>1. <<b, "completed">> \in answers' <=> <<b, "completed">> \in answers
    OBVIOUS
  <2>2. <<b, "failed">> \in answers' <=> <<b, "failed">> \in answers
    OBVIOUS
  <2> QED
    BY <1>1, <2>1, <2>2 DEF AnswersFit
<1>5. BeatFits(b)'
  BY <1>1, <1>2 DEF BeatFits
<1>6. SeenFits(b)'
  <2>1. Unseen(b)' => Unseen(b)
    BY DEF Unseen
  <2> QED
    BY <1>1, <1>2, <2>1 DEF SeenFits
<1> QED
  BY <1>3, <1>4, <1>5, <1>6

\* The started attempt is completed.
LEMMA CompletedFacts ==
    ASSUME TypeOK, server.status = "started", server' = [server EXCEPT !.status = "completed"]
    PROVE  GivesUp
<1>1. server \in Servers
  BY DEF TypeOK, Servers
<1>2. /\ server' \in Servers /\ server'.cancelRequested = server.cancelRequested
      /\ server'.status = "completed" /\ server'.attempt = server.attempt
  BY <1>1 DEF Servers
<1> QED
  BY <1>2 DEF GivesUp, Dead, Begun, TokenValid

\* The started attempt has failed or timed out.
LEMMA RetriedFacts ==
    ASSUME TypeOK, server.status = "started", NEW v \in {"failed", "timedout"}, NEW fatal \in BOOLEAN,
           server' = Retried(server, v, fatal)
    PROVE  GivesUp
<1>1. server \in Servers
  BY DEF TypeOK, Servers
<1>2. CASE server' = [server EXCEPT !.status = v]
  <2>1. /\ server' \in Servers /\ server'.cancelRequested = server.cancelRequested
        /\ server'.status = v /\ server'.attempt = server.attempt
    BY <1>1, <1>2 DEF Servers
  <2> QED
    BY <2>1 DEF GivesUp, Dead, Begun, TokenValid
<1>3. CASE /\ server' = [server EXCEPT !.status = "scheduled", !.attempt = server.attempt + 1]
           /\ ~(server.attempt >= MaxAttempts)
  <2>1. server.attempt \in Attempts
    BY <1>1 DEF Servers
  <2>2. server.attempt + 1 \in Attempts
    BY <1>3, <2>1, ActivityAssumption DEF Attempts
  <2>3. /\ server' \in Servers /\ server'.cancelRequested = server.cancelRequested
        /\ server'.status = "scheduled" /\ server'.attempt = server.attempt + 1
    BY <1>1, <1>3, <2>2 DEF Servers
  <2>4. ASSUME NEW a \in Attempts
        PROVE  /\ Dead(a) => Dead(a)'
               /\ Begun(a) => Begun(a)'
               /\ TokenValid(a) => Dead(a)'
               /\ ~TokenValid(a)'
    BY <2>1, <2>3 DEF Dead, Begun, TokenValid, Attempts
  <2> QED
    BY <2>3, <2>4 DEF GivesUp
<1> QED
  BY <1>2, <1>3 DEF Retried

\* Steps that only give the started attempt up.
LEMMA GivesUpStep ==
    ASSUME IInv, GivesUp, UNCHANGED <<timeout, registered, exec, lost, answers>>,
           faults' \in 0..MaxFaults
    PROVE  IInv'
<1>1. ASSUME NEW b \in Attempts
      PROVE  AttemptFits(b)' /\ AnswersFit(b)' /\ BeatFits(b)' /\ SeenFits(b)'
  BY OthersFit DEF GivesUp
<1>2. TypeOK'
  <2>1. TypeOK
    BY DEF IInv, Base
  <2>2. Exec' = Exec
    BY DEF Exec, Throttle
  <2> QED
    BY <2>1, <2>2 DEF TypeOK, GivesUp, Servers
<1> QED
  BY <1>1, <1>2 DEF IInv, Base

\* The timeouts, and the clients of a deferred activity, keep the invariant.
LEMMA HeartbeatExpiresStep ==
    ASSUME IInv, HeartbeatExpires
    PROVE  IInv'
<1>1. TypeOK
  BY DEF IInv, Base
<1>2. GivesUp
  BY <1>1, RetriedFacts DEF HeartbeatExpires
<1> QED
  BY <1>2, NoFault, GivesUpStep DEF HeartbeatExpires

\* StartToCloseExpires keeps the invariant.
LEMMA StartToCloseExpiresStep ==
    ASSUME IInv, StartToCloseExpires
    PROVE  IInv'
<1>1. TypeOK
  BY DEF IInv, Base
<1>2. GivesUp
  BY <1>1, RetriedFacts DEF StartToCloseExpires
<1> QED
  BY <1>2, FaultFacts, GivesUpStep DEF StartToCloseExpires

\* CompleteActivity keeps the invariant.
LEMMA CompleteActivityStep ==
    ASSUME IInv, NEW a \in Attempts, CompleteActivity(a)
    PROVE  IInv'
<1>1. TypeOK
  BY DEF IInv, Base
<1>2. GivesUp
  BY <1>1, CompletedFacts DEF CompleteActivity, TokenValid
<1> QED
  BY <1>2, NoFault, GivesUpStep DEF CompleteActivity

\* FailActivity keeps the invariant.
LEMMA FailActivityStep ==
    ASSUME IInv, NEW a \in Attempts, FailActivity(a)
    PROVE  IInv'
<1>1. TypeOK
  BY DEF IInv, Base
<1>2. GivesUp
  BY <1>1, RetriedFacts DEF FailActivity, TokenValid
<1> QED
  BY <1>2, NoFault, GivesUpStep DEF FailActivity

\* RequestCancel keeps the invariant: the unseen request is new.
LEMMA RequestCancelStep ==
    ASSUME IInv, RequestCancel
    PROVE  IInv'
<1>1. TypeOK /\ Throttle' = Throttle /\ (Headroom' <=> Headroom) /\ faults' \in 0..MaxFaults
  BY NoFault DEF IInv, Base, RequestCancel, Throttle, Headroom
<1>2. server \in Servers /\ server.cancelRequested = FALSE /\ server.status \in {"scheduled", "started"}
  BY <1>1 DEF TypeOK, Servers, RequestCancel
<1>3. /\ server' \in Servers /\ server'.attempt = server.attempt /\ server'.beat = server.beat
      /\ server'.cancelRequested = TRUE
      /\ server'.status = IF server.status = "scheduled" THEN "canceled" ELSE server.status
  BY <1>2 DEF RequestCancel, Servers
<1>4. TypeOK'
  <2>1. Exec' = Exec
    BY <1>1 DEF Exec
  <2> QED
    BY <1>1, <1>3, <2>1 DEF TypeOK, RequestCancel, Servers
<1>5. ASSUME NEW b \in Attempts
      PROVE  AttemptFits(b)' /\ AnswersFit(b)' /\ BeatFits(b)' /\ SeenFits(b)'
  <2>1. AttemptFits(b) /\ AnswersFit(b) /\ BeatFits(b) /\ SeenFits(b)
    BY DEF IInv, Base
  <2>2. /\ Dead(b) => Dead(b)'
        /\ Begun(b) => Begun(b)'
        /\ TokenValid(b)' => TokenValid(b)
    BY <1>2, <1>3 DEF Dead, Begun, TokenValid
  <2>3. UNCHANGED <<timeout, registered, exec, lost, answers>>
    BY DEF RequestCancel
  <2>4. AttemptFits(b)'
    BY <2>1, <2>2, <2>3 DEF AttemptFits
  <2>5. AnswersFit(b)'
    BY <2>1, <2>2, <2>3 DEF AnswersFit
  <2>6. BeatFits(b)'
    BY <1>1, <1>3, <2>1, <2>2, <2>3 DEF BeatFits
  <2>7. SeenFits(b)'
    <3>1. exec[b].unseen = 0 /\ exec[b].cancel = FALSE
      BY <1>2, <2>1 DEF SeenFits
    <3>2. /\ exec[b].idle \in Nat /\ exec[b].since \in Nat /\ exec[b].wire \in Nat
          /\ Throttle \in Nat /\ Gap \in Nat /\ Latency \in Nat
      BY <1>1, ExecFacts, ActivityAssumption
    <3>3. /\ 0 <= exec[b].idle /\ 0 <= exec[b].since /\ 0 <= exec[b].wire
          /\ 0 <= Throttle + exec[b].idle /\ 0 <= Throttle + Gap + exec[b].wire
          /\ 0 <= Throttle + Gap + Latency + exec[b].wire /\ 0 <= Throttle + Gap + 2 * Latency
      BY <3>2
    <3> QED
      BY <1>1, <1>3, <2>1, <2>3, <3>1, <3>3 DEF SeenFits
  <2> QED
    BY <2>4, <2>5, <2>6, <2>7
<1> QED
  BY <1>4, <1>5 DEF IInv, Base

-----------------------------------------------------------------------------
(***************************************************************************)
(* A call reaches the server, or is lost.                                  *)
(***************************************************************************)
\* The attempt's record with an answer.
LEMMA AnsweredFacts ==
    ASSUME NEW x \in Exec, NEW r \in {"ok", "cancel", "refused", "lost"}
    PROVE  LET y == [x EXCEPT !.answer = r, !.wire = 0]
           IN  /\ y \in Exec /\ y.answer = r /\ y.wire = 0
               /\ y.pc = x.pc /\ y.call = x.call /\ y.reported = x.reported /\ y.since = x.since
               /\ y.idle = x.idle /\ y.unseen = x.unseen
               /\ y.cancel = x.cancel /\ y.async = x.async /\ y.threw = x.threw
<1>1. 0 \in 0..Latency
  BY ActivityAssumption
<1> QED
  BY <1>1 DEF Exec

\* A server's step with an answer to attempt a, if what it says of a is right.
LEMMA AnsweredStep ==
    ASSUME IInv, NEW a \in Attempts, NEW y \in Exec, Becomes(a, y), UNCHANGED <<timeout, registered>>,
           server' \in Servers, lost' \subseteq Attempts, faults' \in 0..MaxFaults,
           answers' \subseteq Attempts \X {"completed", "failed"},
           server'.cancelRequested = server.cancelRequested,
           \A b \in Attempts \ {a} :
              /\ b \in lost' <=> b \in lost
              /\ \A v \in {"completed", "failed"} : <<b, v>> \in answers' <=> <<b, v>> \in answers
              /\ Dead(b) => Dead(b)'
              /\ Begun(b) => Begun(b)'
              /\ TokenValid(b)' => TokenValid(b) /\ server'.beat = server.beat,
           AttemptFits(a)', AnswersFit(a)', BeatFits(a)', SeenFits(a)'
    PROVE  IInv'
<1>1. TypeOK
  BY DEF IInv, Base
<1>2. /\ exec' \in [Attempts -> Exec'] /\ \A b \in Attempts \ {a} : exec'[b] = exec[b]
  BY <1>1, BecomesFacts
<1>3. TypeOK'
  BY <1>1, <1>2 DEF TypeOK, Servers
<1>4. ASSUME NEW b \in Attempts \ {a}
      PROVE  AttemptFits(b)' /\ AnswersFit(b)' /\ BeatFits(b)' /\ SeenFits(b)'
  BY <1>2, OthersFit
<1> QED
  BY <1>3, <1>4 DEF IInv, Base

\* HeartbeatArrives: the age of the last beat starts anew, and the answer tells of
\* a cancel request.
LEMMA HeartbeatArrivesStep ==
    ASSUME IInv, NEW a \in Attempts, exec[a].answer = "none", exec[a].call = "heartbeat",
           HeartbeatArrives(a), UNCHANGED <<timeout, registered, lost, faults>>
    PROVE  IInv'
<1> DEFINE x == exec[a]
           r == IF server.cancelRequested THEN "cancel" ELSE "ok"
           y == [x EXCEPT !.answer = r, !.wire = 0]
<1>1. TypeOK /\ AttemptFits(a) /\ AnswersFit(a) /\ BeatFits(a) /\ SeenFits(a) /\ TokenValid(a)
  BY DEF IInv, Base, HeartbeatArrives
<1>2. /\ x \in Exec /\ Throttle \in Nat /\ Gap \in Nat /\ Latency \in Nat /\ x.wire \in Nat
      /\ x.wire <= Latency /\ x.since \in Nat /\ x.unseen \in Nat /\ x.pc \in Pcs
  BY <1>1, ExecFacts, ActivityAssumption
<1>3. r \in {"ok", "cancel", "refused", "lost"}
  OBVIOUS
<1>4. server \in Servers /\ server.cancelRequested \in BOOLEAN /\ timeout \in Nat
  BY <1>1, ThrottleFacts DEF TypeOK, Servers
<1>5. /\ server' \in Servers /\ server'.beat = 0 /\ server'.status = server.status
      /\ server'.attempt = server.attempt /\ server'.cancelRequested = server.cancelRequested
  BY <1>4 DEF HeartbeatArrives, Servers
<1>6. Becomes(a, y) /\ UNCHANGED answers
  BY DEF HeartbeatArrives, Answered
<1>7. /\ server.cancelRequested = TRUE => r = "cancel"
      /\ server.cancelRequested = FALSE => r = "ok"
  OBVIOUS
<1> HIDE DEF r
<1>8. /\ y \in Exec /\ y.answer = r /\ y.wire = 0
      /\ y.pc = x.pc /\ y.call = x.call /\ y.reported = x.reported /\ y.since = x.since
      /\ y.idle = x.idle /\ y.unseen = x.unseen
      /\ y.cancel = x.cancel /\ y.async = x.async /\ y.threw = x.threw
  BY <1>2, <1>3, AnsweredFacts
<1> HIDE DEF y
<1>9. exec'[a] = y /\ Throttle' = Throttle /\ x.pc = "run"
  <2>1. x.pc = "run"
    BY <1>1, <1>2 DEF AttemptFits, Pcs
  <2> QED
    BY <1>1, <1>6, <1>8, <2>1, BecomesFacts
<1>10. AttemptFits(a)'
  BY <1>1, <1>4, <1>5, <1>7, <1>8, <1>9 DEF AttemptFits, Begun, Dead
<1>11. AnswersFit(a)'
  BY <1>1, <1>5, <1>6, <1>8, <1>9 DEF AnswersFit, Dead
<1>12. BeatFits(a)'
  <2>1. 0 <= x.since
    BY <1>2
  <2> QED
    BY <1>4, <1>5, <1>7, <1>8, <1>9, <2>1 DEF BeatFits
<1>13. SeenFits(a)'
  <2>1. ASSUME 2 * Latency < Throttle, Unseen(a)
        PROVE  x.unseen <= Throttle + Gap + Latency + 0
    <3>1. x.unseen <= Throttle + Gap + x.wire
      BY <1>1, <2>1 DEF SeenFits
    <3> QED
      BY <1>2, <3>1
  <2>2. Unseen(a)' => Unseen(a)
    BY <1>5, <1>8, <1>9 DEF Unseen, TokenValid
  <2>3. r = "ok" => ~Unseen(a)
    BY <1>4, <1>7 DEF Unseen
  <2>4. /\ server.cancelRequested = FALSE => x.unseen = 0 /\ x.cancel = FALSE
        /\ 2 * Latency < Throttle => x.unseen <= Throttle + Gap + 2 * Latency
    BY <1>1 DEF SeenFits
  <2> QED
    BY <1>4, <1>5, <1>7, <1>8, <1>9, <2>1, <2>2, <2>3, <2>4 DEF SeenFits
<1>14. ASSUME NEW b \in Attempts \ {a}
       PROVE  /\ Dead(b) => Dead(b)'
              /\ Begun(b) => Begun(b)'
              /\ ~TokenValid(b)'
  BY <1>1, <1>5 DEF Dead, Begun, TokenValid
<1>15. /\ lost' \subseteq Attempts /\ faults' \in 0..MaxFaults
       /\ answers' \subseteq Attempts \X {"completed", "failed"}
  BY <1>1, <1>6 DEF TypeOK
<1> QED
  BY <1>5, <1>6, <1>8, <1>10, <1>11, <1>12, <1>13, <1>14, <1>15, AnsweredStep

\* CompletedArrives and FailedArrives: a verdict is taken from the handler.
LEMMA VerdictArrivesStep ==
    ASSUME IInv, NEW a \in Attempts, NEW v \in {"completed", "failed"},
           exec[a].answer = "none", exec[a].call = v, TokenValid(a), GivesUp, Answered(a, "ok"),
           answers' = answers \cup {<<a, v>>}, UNCHANGED <<timeout, registered, lost, faults>>
    PROVE  IInv'
<1> DEFINE x == exec[a]
           y == [x EXCEPT !.answer = "ok", !.wire = 0]
<1>1. TypeOK /\ AttemptFits(a) /\ AnswersFit(a) /\ SeenFits(a)
  BY DEF IInv, Base
<1>2. x \in Exec /\ x.pc \in Pcs
  BY <1>1, ExecFacts
<1>3. Becomes(a, y)
  BY DEF Answered
<1>4. /\ y \in Exec /\ y.answer = "ok" /\ y.wire = 0
      /\ y.pc = x.pc /\ y.call = x.call /\ y.reported = x.reported /\ y.since = x.since
      /\ y.idle = x.idle /\ y.unseen = x.unseen
      /\ y.cancel = x.cancel /\ y.async = x.async /\ y.threw = x.threw
  BY <1>2, AnsweredFacts
<1> HIDE DEF y
<1>5. exec'[a] = y /\ Throttle' = Throttle
  BY <1>1, <1>3, <1>4, BecomesFacts
<1>6. x.pc = "respond"
  BY <1>1, <1>2 DEF AttemptFits, Pcs
<1>7. /\ Dead(a)' /\ ~TokenValid(a)' /\ server'.cancelRequested = server.cancelRequested
      /\ Begun(a) => Begun(a)'
  BY DEF GivesUp
<1>8. AttemptFits(a)'
  BY <1>1, <1>4, <1>5, <1>6, <1>7 DEF AttemptFits
<1>9. AnswersFit(a)'
  <2>1. ~Dead(a)
    BY <1>1, DeadFacts
  <2>2. CASE v = "completed"
    <3>1. <<a, "failed">> \in answers' <=> <<a, "failed">> \in answers
      BY <2>2
    <3>2. x.threw = FALSE /\ registered = TRUE /\ x.async = FALSE
      BY <1>1, <2>2 DEF AnswersFit
    <3> QED
      BY <1>1, <1>4, <1>5, <1>6, <2>2, <3>1, <3>2 DEF AnswersFit
  <2>3. CASE v = "failed"
    <3>1. <<a, "completed">> \in answers' <=> <<a, "completed">> \in answers
      BY <2>3
    <3>2. /\ x.threw = TRUE \/ registered = FALSE \/ a \in lost
          /\ x.threw = TRUE \/ x.async = FALSE
      BY <1>1, <2>1, <2>3 DEF AnswersFit
    <3> QED
      BY <1>1, <1>4, <1>5, <1>6, <2>3, <3>1, <3>2 DEF AnswersFit
  <2> QED
    BY <2>2, <2>3
<1>10. BeatFits(a)'
  BY <1>7 DEF BeatFits
<1>11. SeenFits(a)'
  BY <1>1, <1>4, <1>5, <1>6, <1>7 DEF SeenFits, Unseen
<1>12. /\ lost' \subseteq Attempts /\ faults' \in 0..MaxFaults
       /\ answers' \subseteq Attempts \X {"completed", "failed"}
  BY <1>1 DEF TypeOK
<1> QED
  BY <1>3, <1>4, <1>8, <1>9, <1>10, <1>11, <1>12, AnsweredStep DEF GivesUp

\* Refused: the attempt began, and its token is no good; that is final.
LEMMA RefusedStep ==
    ASSUME IInv, NEW a \in Attempts, exec[a].answer = "none", exec[a].call # "none", Refused(a),
           UNCHANGED <<timeout, registered, lost, faults>>
    PROVE  IInv'
<1> DEFINE x == exec[a]
           y == [x EXCEPT !.answer = "refused", !.wire = 0]
<1>1. TypeOK /\ AttemptFits(a) /\ AnswersFit(a) /\ SeenFits(a) /\ ~TokenValid(a)
  BY DEF IInv, Base, Refused
<1>2. x \in Exec /\ x.pc \in Pcs
  BY <1>1, ExecFacts
<1>3. Becomes(a, y) /\ UNCHANGED <<server, answers>>
  BY DEF Answered, Refused
<1>4. /\ y \in Exec /\ y.answer = "refused" /\ y.wire = 0
      /\ y.pc = x.pc /\ y.call = x.call /\ y.reported = x.reported /\ y.since = x.since
      /\ y.idle = x.idle /\ y.unseen = x.unseen
      /\ y.cancel = x.cancel /\ y.async = x.async /\ y.threw = x.threw
  BY <1>2, AnsweredFacts
<1> HIDE DEF y
<1>5. exec'[a] = y /\ Throttle' = Throttle
  BY <1>1, <1>3, <1>4, BecomesFacts
<1>6. Dead(a)
  <2>1. Begun(a)
    BY <1>1, <1>2 DEF AttemptFits, Pcs
  <2>2. server.attempt \in Attempts
    BY <1>1 DEF TypeOK
  <2> QED
    BY <1>1, <2>1, <2>2 DEF Begun, Dead, TokenValid, Attempts
<1>7. AttemptFits(a)'
  BY <1>1, <1>3, <1>4, <1>5, <1>6 DEF AttemptFits, Begun, Dead
<1>8. AnswersFit(a)'
  BY <1>1, <1>3, <1>4, <1>5 DEF AnswersFit, Dead
<1>9. BeatFits(a)'
  BY <1>1, <1>3 DEF BeatFits, TokenValid
<1>10. SeenFits(a)'
  BY <1>1, <1>3, <1>4, <1>5 DEF SeenFits, Unseen, TokenValid
<1> QED
  BY <1>3, <1>4, <1>7, <1>8, <1>9, <1>10, NoFault, LocalStep

\* Arrives keeps the invariant.
LEMMA ArrivesStep ==
    ASSUME IInv, NEW a \in Attempts, Arrives(a)
    PROVE  IInv'
<1>1. exec[a].answer = "none" /\ UNCHANGED <<timeout, registered, lost, faults>> /\ TypeOK
  BY DEF Arrives, IInv, Base
<1>2. CASE exec[a].call = "heartbeat" /\ HeartbeatArrives(a)
  BY <1>1, <1>2, HeartbeatArrivesStep
<1>3. CASE exec[a].call = "completed" /\ CompletedArrives(a)
  <2>1. GivesUp
    BY <1>1, <1>3, CompletedFacts DEF CompletedArrives, TokenValid
  <2> QED
    BY <1>1, <1>3, <2>1, VerdictArrivesStep DEF CompletedArrives
<1>4. CASE exec[a].call = "failed" /\ FailedArrives(a)
  <2>1. GivesUp
    BY <1>1, <1>4, ExecFacts, RetriedFacts DEF FailedArrives, TokenValid
  <2> QED
    BY <1>1, <1>4, <2>1, VerdictArrivesStep DEF FailedArrives
<1>5. CASE exec[a].call # "none" /\ Refused(a)
  BY <1>1, <1>5, RefusedStep
<1> QED
  BY <1>2, <1>3, <1>4, <1>5 DEF Arrives

\* CallLost keeps the invariant.
LEMMA CallLostStep ==
    ASSUME IInv, NEW a \in Attempts, CallLost(a)
    PROVE  IInv'
<1> DEFINE x == exec[a]
           y == [x EXCEPT !.answer = "lost", !.wire = 0]
<1>1. TypeOK /\ AttemptFits(a) /\ AnswersFit(a) /\ SeenFits(a) /\ x.call # "none"
  BY DEF IInv, Base, CallLost
<1>2. x \in Exec
  BY <1>1, ExecFacts
<1>3. Becomes(a, y) /\ UNCHANGED <<timeout, registered, server, answers>> /\ lost' = lost \cup {a}
  BY DEF Answered, CallLost
<1>4. /\ y \in Exec /\ y.answer = "lost" /\ y.wire = 0
      /\ y.pc = x.pc /\ y.call = x.call /\ y.reported = x.reported /\ y.since = x.since
      /\ y.idle = x.idle /\ y.unseen = x.unseen
      /\ y.cancel = x.cancel /\ y.async = x.async /\ y.threw = x.threw
  BY <1>2, AnsweredFacts
<1> HIDE DEF y
<1>5. exec'[a] = y /\ Throttle' = Throttle
  BY <1>1, <1>3, <1>4, BecomesFacts
<1>6. AttemptFits(a)'
  BY <1>1, <1>3, <1>4, <1>5 DEF AttemptFits, Begun, Dead
<1>7. AnswersFit(a)'
  BY <1>1, <1>3, <1>4, <1>5 DEF AnswersFit, Dead
<1>8. BeatFits(a)'
  BY <1>3 DEF BeatFits
<1>9. SeenFits(a)'
  BY <1>1, <1>3, <1>4, <1>5 DEF SeenFits, Unseen
<1>10. /\ server' \in Servers /\ lost' \subseteq Attempts
       /\ answers' \subseteq Attempts \X {"completed", "failed"} /\ faults' \in 0..MaxFaults
  BY <1>1, <1>3, FaultFacts DEF TypeOK, Servers, CallLost
<1>11. ASSUME NEW b \in Attempts \ {a}
       PROVE  /\ b \in lost' <=> b \in lost
              /\ Dead(b)' <=> Dead(b)
              /\ Begun(b)' <=> Begun(b)
              /\ TokenValid(b)' <=> TokenValid(b)
  BY <1>3 DEF Dead, Begun, TokenValid
<1> QED
  BY <1>3, <1>4, <1>6, <1>7, <1>8, <1>9, <1>10, <1>11, AnsweredStep

-----------------------------------------------------------------------------
(***************************************************************************)
(* The start of an attempt, and time.                                      *)
(***************************************************************************)
\* StartAttempt keeps the invariant: the attempt has not begun.
LEMMA StartAttemptStep ==
    ASSUME IInv, StartAttempt
    PROVE  IInv'
<1>1. TypeOK /\ server.status = "scheduled" /\ UNCHANGED <<timeout, registered, lost, answers, faults>>
  BY DEF IInv, Base, StartAttempt
<1>2. server \in Servers /\ timeout \in Nat
  BY <1>1, ThrottleFacts DEF TypeOK, Servers
<1>3. PICK a \in Attempts : a = server.attempt
  BY <1>2 DEF Servers
<1> DEFINE x == exec[a]
           y == [x EXCEPT !.pc = "polled"]
<1>4. /\ server' \in Servers /\ server'.beat = 0 /\ server'.status = "started"
      /\ server'.attempt = server.attempt /\ server'.cancelRequested = server.cancelRequested
  <2>1. server' = [server EXCEPT !.status = "started", !.beat = 0] /\ 0 \in 0..timeout
    BY <1>2 DEF StartAttempt
  <2> QED
    BY <1>2, <2>1 DEF Servers
<1>5. Becomes(a, y)
  BY <1>1, <1>3 DEF StartAttempt, Becomes, TypeOK
<1>6. x \in Exec /\ Throttle \in Nat /\ Gap \in Nat /\ Latency \in Nat /\ Wait \in Nat
  BY <1>1, ExecFacts, ActivityAssumption
<1>7. /\ y \in Exec /\ y.pc = "polled" /\ y.idle = x.idle /\ y.call = x.call /\ y.answer = x.answer
      /\ y.reported = x.reported /\ y.unseen = x.unseen /\ y.since = x.since /\ y.wire = x.wire
      /\ y.cancel = x.cancel /\ y.async = x.async /\ y.threw = x.threw
  BY <1>6 DEF Exec
<1> HIDE DEF y
<1>8. exec'[a] = y /\ Throttle' = Throttle
  BY <1>1, <1>5, <1>7, BecomesFacts
<1>9. AttemptFits(a) /\ AnswersFit(a) /\ SeenFits(a)
  BY DEF IInv, Base
<1>10. x.pc = "none"
  BY <1>1, <1>3, <1>9 DEF AttemptFits, Begun, Attempts
<1>11. /\ x.call = "none" /\ x.unseen = 0 /\ x.async = FALSE /\ x.threw = FALSE /\ x.reported = FALSE
       /\ x.idle = 0 /\ x.answer = "none"
  BY <1>9, <1>10 DEF AttemptFits
<1>12. AttemptFits(a)'
  <2>1. 0 <= Wait
    BY <1>6
  <2> QED
    BY <1>3, <1>4, <1>7, <1>8, <1>11, <2>1 DEF AttemptFits, Begun
<1>13. AnswersFit(a)'
  BY <1>1, <1>7, <1>8, <1>9, <1>10, <1>11 DEF AnswersFit
<1>14. BeatFits(a)'
  <2>1. server'.beat <= y.idle
    BY <1>4, <1>7, <1>11
  <2> QED
    BY <1>7, <1>8, <1>11, <2>1 DEF BeatFits
<1>15. SeenFits(a)'
  <2>1. 0 <= Throttle + Gap + 2 * Latency
    BY <1>6
  <2> QED
    BY <1>4, <1>7, <1>8, <1>9, <1>11, <2>1 DEF SeenFits, Unseen
<1>16. ASSUME NEW b \in Attempts \ {a}
       PROVE  /\ Dead(b) => Dead(b)'
              /\ Begun(b) => Begun(b)'
              /\ ~TokenValid(b)'
  BY <1>1, <1>3, <1>4 DEF Dead, Begun, TokenValid
<1>17. /\ lost' \subseteq Attempts /\ faults' \in 0..MaxFaults
       /\ answers' \subseteq Attempts \X {"completed", "failed"}
  BY <1>1 DEF TypeOK
<1> QED
  BY <1>1, <1>4, <1>5, <1>7, <1>12, <1>13, <1>14, <1>15, <1>16, <1>17, AnsweredStep

\* What a tick does to the clocks of attempt a.
LEMMA TickFacts ==
    ASSUME IInv, Tick, NEW a \in Attempts
    PROVE  LET x == exec[a]
               y == exec'[a]
           IN  /\ y \in Exec
               /\ y.pc = x.pc /\ y.call = x.call /\ y.answer = x.answer /\ y.reported = x.reported
               /\ y.cancel = x.cancel /\ y.async = x.async /\ y.threw = x.threw
               /\ y.since = IF x.reported = TRUE /\ x.since < Throttle THEN x.since + 1 ELSE x.since
               /\ y.idle = IF Running(a) \/ x.pc = "polled" THEN x.idle + 1 ELSE x.idle
               /\ y.wire = IF x.call # "none" THEN x.wire + 1 ELSE x.wire
               /\ y.unseen = IF Unseen(a) THEN x.unseen + 1 ELSE 0
<1> DEFINE x == exec[a]
           since == IF x.reported THEN Older(x.since) ELSE x.since
           idle == IF Running(a) \/ x.pc = "polled" THEN x.idle + 1 ELSE x.idle
           wire == IF x.call # "none" THEN x.wire + 1 ELSE x.wire
           unseen == IF x.pc = "run" /\ TokenValid(a) /\ server.cancelRequested
                          /\ ~x.cancel /\ a \notin lost
                     THEN x.unseen + 1 ELSE 0
           y == [x EXCEPT !.since = since, !.idle = idle, !.wire = wire, !.unseen = unseen]
<1>1. exec'[a] = y
  BY DEF Tick
<1>2. TypeOK /\ AttemptFits(a)
  BY DEF IInv, Base
<1>3. /\ x \in Exec /\ Throttle \in Nat /\ Gap \in Nat /\ Latency \in Nat /\ Wait \in Nat
      /\ x.since \in Nat /\ x.since <= Throttle /\ x.wire \in Nat /\ x.wire <= Latency
      /\ x.idle \in Nat /\ x.unseen \in Nat /\ x.reported \in BOOLEAN /\ x.cancel \in BOOLEAN
  BY <1>2, ExecFacts, ActivityAssumption
<1>4. /\ x.pc = "polled" => x.idle < Wait
      /\ Running(a) => x.idle < Gap
      /\ x.call # "none" => x.wire < Latency
  BY DEF Tick, NothingDue
<1>5. x.idle \in 0..Longest
  BY <1>3 DEF Exec, Longest
<1>6. since = IF x.reported = TRUE /\ x.since < Throttle THEN x.since + 1 ELSE x.since
  BY <1>3 DEF Older
<1>7. since \in 0..Throttle /\ wire \in 0..Latency
  BY <1>3, <1>4, <1>6
<1>8. idle \in 0..Longest
  BY <1>3, <1>4, <1>5 DEF Longest
<1>9. server.cancelRequested \in BOOLEAN
  BY <1>2 DEF TypeOK
<1>10. unseen = IF Unseen(a) THEN x.unseen + 1 ELSE 0
  BY <1>3, <1>9 DEF Unseen
<1>11. unseen \in Nat
  BY <1>3, <1>10
<1> HIDE DEF since, idle, wire, unseen
<1>12. /\ y \in Exec
       /\ y.pc = x.pc /\ y.call = x.call /\ y.answer = x.answer
       /\ y.since = since /\ y.idle = idle /\ y.wire = wire /\ y.unseen = unseen
  BY <1>3, <1>7, <1>8, <1>11 DEF Exec, Longest
<1>13. y.reported = x.reported /\ y.cancel = x.cancel /\ y.async = x.async /\ y.threw = x.threw
  BY <1>3 DEF Exec
<1>14. /\ y.idle = IF Running(a) \/ x.pc = "polled" THEN x.idle + 1 ELSE x.idle
       /\ y.wire = IF x.call # "none" THEN x.wire + 1 ELSE x.wire
  BY <1>12 DEF idle, wire
<1> HIDE DEF y
<1> QED
  BY <1>1, <1>6, <1>10, <1>12, <1>13, <1>14

\* Tick keeps the types: no clock runs past what is due.
LEMMA TickTypes ==
    ASSUME IInv, Tick
    PROVE  /\ TypeOK' /\ Throttle' = Throttle /\ (Headroom' <=> Headroom)
           /\ server'.status = server.status /\ server'.attempt = server.attempt
           /\ server'.cancelRequested = server.cancelRequested
           /\ server'.beat = IF timeout > 0 /\ server.status = "started"
                             THEN server.beat + 1 ELSE server.beat
<1>1. TypeOK /\ UNCHANGED <<timeout, registered, lost, answers, faults>>
  BY DEF IInv, Base, Tick
<1>2. Throttle' = Throttle /\ (Headroom' <=> Headroom) /\ Exec' = Exec
  BY <1>1 DEF Throttle, Headroom, Exec
<1>3. server \in Servers /\ timeout \in Nat /\ server.beat \in 0..timeout
  BY <1>1, ThrottleFacts DEF TypeOK, Servers
<1> DEFINE beat == IF timeout > 0 /\ server.status = "started" THEN server.beat + 1 ELSE server.beat
<1>4. beat \in 0..timeout
  <2>1. timeout > 0 /\ server.status = "started" => server.beat < timeout
    BY DEF Tick, NothingDue
  <2> QED
    BY <1>3, <2>1
<1>5. server' = [server EXCEPT !.beat = beat]
  BY DEF Tick
<1> HIDE DEF beat
<1>6. /\ server' \in Servers /\ server'.beat = beat /\ server'.status = server.status
      /\ server'.attempt = server.attempt /\ server'.cancelRequested = server.cancelRequested
  BY <1>3, <1>4, <1>5 DEF Servers
<1>7. exec' \in [Attempts -> Exec]
  <2>1. \A a \in Attempts : exec'[a] \in Exec
    BY TickFacts
  <2>2. exec' = [a \in Attempts |-> exec'[a]]
    BY DEF Tick
  <2> QED
    BY <2>1, <2>2
<1>8. TypeOK'
  BY <1>1, <1>2, <1>6, <1>7 DEF TypeOK, Servers
<1> QED
  BY <1>2, <1>6, <1>8 DEF beat

\* A tick keeps the bound on the age of the last heartbeat.
LEMMA TickBeats ==
    ASSUME IInv, Tick, NEW a \in Attempts
    PROVE  BeatFits(a)'
<1> DEFINE x == exec[a]
           y == exec'[a]
<1>1. TypeOK /\ AttemptFits(a) /\ BeatFits(a)
  BY DEF IInv, Base
<1>2. SUFFICES ASSUME Headroom, TokenValid(a), a \notin lost
               PROVE  /\ y.pc = "polled" => server'.beat <= y.idle
                      /\ y.pc = "run" /\ y.call = "none" =>
                            /\ y.reported = FALSE => server'.beat <= Wait + y.idle
                            /\ y.reported = TRUE => /\ y.since < Throttle => server'.beat <= y.since
                                                    /\ y.since = Throttle => server'.beat < Throttle + y.idle
                      /\ y.pc \in {"run", "respond"} /\ y.call # "none" /\ y.answer = "none" =>
                            server'.beat <= Wait + Gap + y.wire \/ server'.beat < Throttle + Gap + y.wire
                      /\ y.call = "heartbeat" /\ y.answer \in {"ok", "cancel"} =>
                            server'.beat <= y.wire /\ (server'.beat <= y.since \/ y.since = Throttle)
  <2>1. Throttle' = Throttle /\ (Headroom' <=> Headroom) /\ (TokenValid(a)' <=> TokenValid(a)) /\ lost' = lost
    BY TickTypes DEF TokenValid, Tick
  <2> QED
    BY <2>1 DEF BeatFits
<1>3. /\ Throttle \in Nat /\ Gap \in Nat /\ Latency \in Nat /\ Wait \in Nat
      /\ x.since \in Nat /\ x.since <= Throttle /\ x.wire \in Nat /\ x.idle \in Nat
      /\ x.reported \in BOOLEAN
  BY <1>1, ExecFacts, ActivityAssumption
<1>4. server.beat \in Nat /\ server'.beat = server.beat + 1
  <2>1. timeout \in Nat /\ server.beat \in Nat
    BY <1>1, ThrottleFacts DEF TypeOK
  <2>2. timeout > 0
    BY <1>2, <1>3, <2>1 DEF Headroom
  <2> QED
    BY <1>2, <2>1, <2>2, TickTypes DEF TokenValid
<1>5. /\ y.pc = x.pc /\ y.call = x.call /\ y.answer = x.answer /\ y.reported = x.reported
      /\ y.since = IF x.reported = TRUE /\ x.since < Throttle THEN x.since + 1 ELSE x.since
      /\ y.idle = IF Running(a) \/ x.pc = "polled" THEN x.idle + 1 ELSE x.idle
      /\ y.wire = IF x.call # "none" THEN x.wire + 1 ELSE x.wire
  BY TickFacts
<1>6. x.call = "heartbeat" => x.reported = TRUE
  BY <1>1 DEF AttemptFits
<1> HIDE DEF x, y
<1>7. /\ x.pc = "polled" => server.beat <= x.idle
      /\ x.pc = "run" /\ x.call = "none" =>
            /\ x.reported = FALSE => server.beat <= Wait + x.idle
            /\ x.reported = TRUE => /\ x.since < Throttle => server.beat <= x.since
                                    /\ x.since = Throttle => server.beat < Throttle + x.idle
      /\ x.pc \in {"run", "respond"} /\ x.call # "none" /\ x.answer = "none" =>
            server.beat <= Wait + Gap + x.wire \/ server.beat < Throttle + Gap + x.wire
      /\ x.call = "heartbeat" /\ x.answer \in {"ok", "cancel"} =>
            server.beat <= x.wire /\ (server.beat <= x.since \/ x.since = Throttle)
  BY <1>1, <1>2 DEF BeatFits, x
<1>8. CASE x.pc = "polled"
  <2>1. x.call = "none"
    BY <1>1, <1>8 DEF AttemptFits, x
  <2> QED
    BY <1>3, <1>4, <1>5, <1>7, <1>8, <2>1
<1>9. CASE x.pc = "run" /\ x.call = "none"
  <2>1. Running(a)
    BY <1>9 DEF Running, x
  <2>2. y.idle = x.idle + 1
    BY <1>5, <2>1
  <2> QED
    BY <1>3, <1>4, <1>5, <1>7, <1>9, <2>2
<1>10. CASE x.pc # "polled" /\ x.call # "none"
  <2>1. x.pc \in {"run", "respond"} /\ x.answer = "none" =>
            server'.beat <= Wait + Gap + y.wire \/ server'.beat < Throttle + Gap + y.wire
    BY <1>3, <1>4, <1>5, <1>7, <1>10
  <2>2. x.call = "heartbeat" /\ x.answer \in {"ok", "cancel"} =>
            server'.beat <= y.wire /\ (server'.beat <= y.since \/ y.since = Throttle)
    BY <1>3, <1>4, <1>5, <1>6, <1>7, <1>10
  <2> QED
    BY <1>5, <1>10, <2>1, <2>2
<1> QED
  BY <1>5, <1>8, <1>9, <1>10

\* A tick keeps the bound on the age of an unseen cancel request.
LEMMA TickSeen ==
    ASSUME IInv, Tick, NEW a \in Attempts
    PROVE  SeenFits(a)'
<1> DEFINE x == exec[a]
           y == exec'[a]
<1>1. TypeOK /\ AttemptFits(a) /\ SeenFits(a)
  BY DEF IInv, Base
<1>2. /\ Throttle \in Nat /\ Gap \in Nat /\ Latency \in Nat
      /\ x.since \in Nat /\ x.since <= Throttle /\ x.wire \in Nat /\ x.idle \in Nat
      /\ x.unseen \in Nat /\ x.reported \in BOOLEAN /\ x.call \in CallsOut
      /\ x.answer \in {"none", "ok", "cancel", "refused", "lost"}
  BY <1>1, ExecFacts, ActivityAssumption
<1>3. /\ y.pc = x.pc /\ y.call = x.call /\ y.answer = x.answer /\ y.reported = x.reported
      /\ y.cancel = x.cancel
      /\ y.since = IF x.reported = TRUE /\ x.since < Throttle THEN x.since + 1 ELSE x.since
      /\ y.idle = IF Running(a) \/ x.pc = "polled" THEN x.idle + 1 ELSE x.idle
      /\ y.wire = IF x.call # "none" THEN x.wire + 1 ELSE x.wire
      /\ y.unseen = IF Unseen(a) THEN x.unseen + 1 ELSE 0
  BY TickFacts
<1>4. /\ Throttle' = Throttle /\ server'.cancelRequested = server.cancelRequested
      /\ Unseen(a)' <=> Unseen(a)
  BY <1>3, TickTypes DEF Unseen, TokenValid, Tick
<1>5. /\ server.cancelRequested = FALSE => ~Unseen(a) /\ x.cancel = FALSE
      /\ x.answer = "cancel" => server.cancelRequested = TRUE
      /\ x.call = "heartbeat" /\ x.answer = "ok" => x.cancel = FALSE
  BY <1>1 DEF SeenFits, Unseen
<1>6. /\ Running(a) => x.idle < Gap
      /\ x.call # "none" => x.wire < Latency
  BY DEF Tick, NothingDue
<1>7. ASSUME 2 * Latency < Throttle, Unseen(a)
      PROVE  /\ y.unseen <= Throttle + Gap + 2 * Latency
             /\ y.call = "none" =>
                    /\ y.reported = FALSE => y.unseen <= y.idle
                    /\ y.reported = TRUE => /\ y.since < Throttle => y.unseen <= y.since
                                            /\ y.since = Throttle => y.unseen <= Throttle + y.idle
             /\ y.call = "heartbeat" /\ y.answer = "none" => y.unseen <= Throttle + Gap + y.wire
             /\ y.call = "heartbeat" /\ y.answer = "cancel" =>
                    y.unseen <= Throttle + Gap + Latency + y.wire
             /\ y.call = "heartbeat" /\ y.answer = "ok" =>
                    y.unseen <= y.wire /\ (y.unseen <= y.since \/ y.since = Throttle)
  <2>1. x.pc = "run" /\ x.call \in {"none", "heartbeat"} /\ a \notin lost /\ ~Dead(a)
    <3>1. TokenValid(a) /\ x.pc = "run" /\ a \notin lost
      BY <1>7 DEF Unseen
    <3>2. ~Dead(a)
      BY <1>1, <3>1, DeadFacts
    <3> QED
      BY <1>1, <3>1, <3>2 DEF AttemptFits
  <2>2. /\ x.call = "none" =>
              /\ x.reported = FALSE => x.unseen <= x.idle
              /\ x.reported = TRUE => /\ x.since < Throttle => x.unseen <= x.since
                                      /\ x.since = Throttle => x.unseen <= Throttle + x.idle
        /\ x.call = "heartbeat" /\ x.answer = "none" => x.unseen <= Throttle + Gap + x.wire
        /\ x.call = "heartbeat" /\ x.answer = "cancel" =>
              x.unseen <= Throttle + Gap + Latency + x.wire
        /\ x.call = "heartbeat" /\ x.answer = "ok" =>
              x.unseen <= x.wire /\ (x.unseen <= x.since \/ x.since = Throttle)
    BY <1>1, <1>7 DEF SeenFits
  <2>3. y.unseen = x.unseen + 1
    BY <1>3, <1>7
  <2>4. CASE x.call = "none"
    <3>1. Running(a) /\ x.idle < Gap /\ y.idle = x.idle + 1
      BY <1>3, <1>6, <2>1, <2>4 DEF Running
    <3> HIDE DEF x, y
    <3> QED
      BY <1>2, <1>3, <1>7, <2>2, <2>3, <2>4, <3>1
  <2>5. CASE x.call = "heartbeat"
    <3>1. x.reported = TRUE /\ x.answer \in {"none", "ok", "cancel"}
      BY <1>1, <1>2, <2>1, <2>5 DEF AttemptFits
    <3>2. x.wire < Latency /\ y.wire = x.wire + 1
      BY <1>3, <1>6, <2>5
    <3> HIDE DEF x, y
    <3>3. CASE x.answer = "none"
      BY <1>2, <1>3, <2>2, <2>3, <2>5, <3>2, <3>3
    <3>4. CASE x.answer = "cancel"
      BY <1>2, <1>3, <2>2, <2>3, <2>5, <3>2, <3>4
    <3>5. CASE x.answer = "ok"
      BY <1>2, <1>3, <1>7, <2>2, <2>3, <2>5, <3>1, <3>2, <3>5
    <3> QED
      BY <3>1, <3>3, <3>4, <3>5
  <2> QED
    BY <2>1, <2>4, <2>5
<1>8. ~Unseen(a) => y.unseen = 0 /\ y.unseen <= Throttle + Gap + 2 * Latency
  BY <1>2, <1>3
<1> QED
  BY <1>3, <1>4, <1>5, <1>7, <1>8 DEF SeenFits

\* Tick keeps the invariant.
LEMMA TickStep ==
    ASSUME IInv, Tick
    PROVE  IInv'
<1>1. TypeOK'
  BY TickTypes
<1>2. ASSUME NEW a \in Attempts
      PROVE  AttemptFits(a)' /\ AnswersFit(a)'
  <2> DEFINE x == exec[a]
             y == exec'[a]
  <2>1. TypeOK /\ AttemptFits(a) /\ AnswersFit(a)
    BY DEF IInv, Base
  <2>2. /\ y.pc = x.pc /\ y.call = x.call /\ y.answer = x.answer /\ y.reported = x.reported
        /\ y.async = x.async /\ y.threw = x.threw
        /\ y.idle = IF Running(a) \/ x.pc = "polled" THEN x.idle + 1 ELSE x.idle
        /\ y.unseen = IF Unseen(a) THEN x.unseen + 1 ELSE 0
    BY TickFacts
  <2>3. /\ UNCHANGED <<registered, lost, answers>>
        /\ Dead(a)' <=> Dead(a)
        /\ Begun(a)' <=> Begun(a)
    BY TickTypes DEF Tick, Dead, Begun
  <2>4. /\ x.pc = "polled" => x.idle < Wait
        /\ Running(a) => x.idle < Gap
    BY DEF Tick, NothingDue
  <2>5. x.idle \in Nat /\ Wait \in Nat /\ Gap \in Nat
    BY <2>1, ExecFacts, ActivityAssumption
  <2>6. /\ x.pc = "none" => y.idle = 0
        /\ x.pc = "polled" => y.idle <= Wait
        /\ x.pc = "run" => y.idle <= Gap
        /\ x.call = "heartbeat" => y.idle = 0
    <3>1. /\ x.pc = "none" => x.idle = 0
          /\ x.pc = "run" => x.idle <= Gap
          /\ x.call = "heartbeat" => x.idle = 0 /\ x.pc # "polled"
      BY <2>1 DEF AttemptFits
    <3> QED
      BY <2>2, <2>4, <2>5, <3>1 DEF Running
  <2>7. x.pc \in {"none", "polled"} => y.unseen = 0
    BY <2>2 DEF Unseen
  <2>8. AttemptFits(a)'
    BY <2>1, <2>2, <2>3, <2>6, <2>7 DEF AttemptFits
  <2>9. AnswersFit(a)'
    BY <2>1, <2>2, <2>3 DEF AnswersFit
  <2> QED
    BY <2>8, <2>9
<1> QED
  BY <1>1, <1>2, TickBeats, TickSeen DEF IInv, Base

-----------------------------------------------------------------------------
(***************************************************************************)
(* The theorems.                                                           *)
(***************************************************************************)
\* The invariant holds at the start.
LEMMA InitFits ==
    ASSUME Init
    PROVE  IInv
<1>1. timeout \in Nat /\ Throttle \in Nat /\ 0 \in 0..timeout /\ 0 \in 0..Throttle /\ 0 \in 0..Latency
      /\ 0 \in 0..Longest /\ 1 \in Attempts /\ 0 \in 0..MaxFaults
  BY ThrottleFacts, ActivityAssumption DEF Init, Longest, Attempts
<1>2. Idle \in Exec
  BY <1>1 DEF Idle, Exec, Longest
<1>3. TypeOK
  <2>1. /\ timeout \in Timeouts /\ registered \in BOOLEAN
        /\ lost \subseteq Attempts /\ answers \subseteq Attempts \X {"completed", "failed"}
        /\ faults \in 0..MaxFaults
    BY <1>1 DEF Init
  <2>2. server \in [status : {"scheduled", "started", "completed", "failed", "timedout", "canceled"},
                    attempt : Attempts, cancelRequested : BOOLEAN, beat : 0..timeout]
    BY <1>1 DEF Init
  <2>3. exec \in [Attempts -> Exec]
    BY <1>2 DEF Init
  <2> QED
    BY <2>1, <2>2, <2>3 DEF TypeOK
<1>4. ASSUME NEW a \in Attempts
      PROVE  AttemptFits(a) /\ AnswersFit(a) /\ BeatFits(a) /\ SeenFits(a)
  <2>1. exec[a] = Idle /\ answers = {} /\ server.status = "scheduled" /\ server.cancelRequested = FALSE
    BY DEF Init
  <2>2. AttemptFits(a) /\ AnswersFit(a)
    BY <2>1 DEF Idle, AttemptFits, AnswersFit
  <2>3. BeatFits(a)
    BY <2>1 DEF BeatFits, TokenValid
  <2>4. SeenFits(a)
    <3>1. 0 <= Throttle + Gap + 2 * Latency
      BY <1>1, ActivityAssumption
    <3> QED
      BY <2>1, <3>1 DEF SeenFits, Unseen, Idle
  <2> QED
    BY <2>2, <2>3, <2>4
<1> QED
  BY <1>3, <1>4 DEF IInv, Base

\* Every step keeps the invariant.
LEMMA NextFits ==
    ASSUME IInv, [Next]_vars
    PROVE  IInv'
<1>1. CASE UNCHANGED vars
  BY <1>1 DEF vars, IInv, Base, TypeOK, AttemptFits, AnswersFit, BeatFits, SeenFits, Dead, Begun,
              TokenValid, Unseen, Headroom, Throttle, Exec
<1>2. ASSUME NEW a \in Attempts,
             \/ Handle(a) \/ RecordHeartbeat(a) \/ DeferCompletion(a)
             \/ FunctionReturns(a) \/ FunctionThrows(a) \/ FunctionTerminates(a)
             \/ HeartbeatReturns(a) \/ CompletedReturns(a) \/ FailedReturns(a)
             \/ Arrives(a) \/ CompleteActivity(a) \/ FailActivity(a)
             \/ CallLost(a) \/ Crash(a)
      PROVE  IInv'
  BY <1>2, HandleStep, RecordHeartbeatStep, DeferCompletionStep, FunctionReturnsStep,
     FunctionThrowsStep, FunctionTerminatesStep, HeartbeatReturnsStep, CompletedReturnsStep, FailedReturnsStep,
     ArrivesStep, CompleteActivityStep, FailActivityStep, CallLostStep, CrashStep
<1>3. CASE StartAttempt \/ RequestCancel \/ HeartbeatExpires \/ StartToCloseExpires \/ Tick
  BY <1>3, StartAttemptStep, RequestCancelStep, HeartbeatExpiresStep, StartToCloseExpiresStep, TickStep
<1> QED
  BY <1>1, <1>2, <1>3 DEF Next

\* The invariant holds in every reachable state.
LEMMA Inductive == Spec => []IInv
<1>1. Init => IInv
  BY InitFits
<1>2. IInv /\ [Next]_vars => IInv'
  BY NextFits
<1> QED
  BY <1>1, <1>2, PTL DEF Spec

\* The variables of the activity, its context and the server have their types, and
\* no clock runs past what is due.
THEOREM TypeCorrect == Spec => []TypeOK
<1>1. IInv => TypeOK
  BY DEF IInv, Base
<1> QED
  BY <1>1, Inductive, PTL

\* The server takes a failure only for an attempt that failed, was of an unknown
\* type or lost a call, and a completion only for one that returned, whatever
\* attempts that were given up still do (Handle, the retry after
\* RespondActivityTaskCompleted throws).
THEOREM AnswersHold == Spec => []AnswersAreTrue
<1>1. IInv => AnswersAreTrue
  <2> SUFFICES ASSUME IInv, NEW a \in Attempts
               PROVE  /\ <<a, "failed">> \in answers => exec[a].threw \/ ~registered \/ a \in lost
                      /\ <<a, "completed">> \in answers => ~exec[a].threw /\ registered
    BY DEF AnswersAreTrue
  <2>1. AnswersFit(a)
    BY DEF IInv
  <2> QED
    BY <2>1 DEF AnswersFit
<1> QED
  BY <1>1, Inductive, PTL

\* The handler never answers for an attempt that deferred its completion and
\* did not throw (WillCompleteAsync).
THEOREM DeferredIsLeftOpen == Spec => []DeferredStaysOpen
<1>1. IInv => DeferredStaysOpen
  <2> SUFFICES ASSUME IInv, NEW a \in Attempts, NEW verdict \in {"completed", "failed"},
                      exec[a].async, ~exec[a].threw
               PROVE  <<a, verdict>> \notin answers
    BY DEF DeferredStaysOpen
  <2>1. AnswersFit(a) /\ TypeOK
    BY DEF IInv, Base
  <2>2. exec[a].async = TRUE /\ exec[a].threw = FALSE
    BY <2>1, ExecFacts
  <2> QED
    BY <2>1, <2>2 DEF AnswersFit
<1> QED
  BY <1>1, Inductive, PTL

\* HeartbeatThrottleInterval's headroom suffices: if a gap and a call's way fit into a
\* fifth of the timeout, no attempt that heartbeats is timed out.
THEOREM BeatsArriveInTime == Spec => []BeatsInTime
<1>1. IInv => BeatsInTime
  <2> SUFFICES ASSUME IInv, Headroom, NEW a \in Attempts, exec[a].pc \in {"run", "respond"},
                      TokenValid(a), a \notin lost, timeout > 0
               PROVE  server.beat < timeout
    BY DEF BeatsInTime, KeptAlive, Headroom
  <2> DEFINE x == exec[a]
             beat == server.beat
  <2>1. TypeOK /\ AttemptFits(a) /\ BeatFits(a)
    BY DEF IInv, Base
  <2>2. /\ Throttle \in Nat /\ Gap \in Nat \ {0} /\ Latency \in Nat /\ Wait \in Nat /\ timeout \in Nat
        /\ x.since \in Nat /\ x.since <= Throttle /\ x.wire \in Nat /\ x.wire <= Latency
        /\ x.idle \in Nat /\ x.reported \in BOOLEAN /\ server.beat \in Nat
        /\ x.answer \in {"none", "ok", "cancel", "refused", "lost"} /\ x.call \in CallsOut
    BY <2>1, ExecFacts, ThrottleFacts, ActivityAssumption DEF TypeOK
  <2>3. /\ Latency < Throttle /\ Throttle + Gap + Latency <= timeout /\ Wait + Gap + Latency < timeout
    BY <2>1, HeadroomFacts DEF TypeOK, Headroom
  <2>4. ~Dead(a)
    BY <2>1, DeadFacts
  <2>5. CASE x.call = "none"
    <3>1. x.pc = "run" /\ x.idle <= Gap
      BY <2>1, <2>5 DEF AttemptFits
    <3>2. /\ x.reported = FALSE => beat <= Wait + x.idle
          /\ x.reported = TRUE => /\ x.since < Throttle => beat <= x.since
                                  /\ x.since = Throttle => beat < Throttle + x.idle
      BY <2>1, <2>5, <3>1 DEF BeatFits
    <3> HIDE DEF x
    <3> QED
      BY <2>2, <2>3, <3>1, <3>2
  <2>6. CASE x.call # "none" /\ x.answer = "none"
    <3>1. beat <= Wait + Gap + x.wire \/ beat < Throttle + Gap + x.wire
      BY <2>1, <2>6 DEF BeatFits
    <3> HIDE DEF x
    <3> QED
      BY <2>2, <2>3, <3>1
  <2>7. CASE x.call # "none" /\ x.answer # "none"
    <3>1. x.call = "heartbeat" /\ x.answer \in {"ok", "cancel"}
      BY <2>1, <2>2, <2>4, <2>7 DEF AttemptFits
    <3>2. beat <= x.wire
      BY <2>1, <3>1 DEF BeatFits
    <3> HIDE DEF x
    <3> QED
      BY <2>2, <2>3, <3>2
  <2> QED
    BY <2>5, <2>6, <2>7
<1> QED
  BY <1>1, Inductive, PTL

\* A cancel request is seen by a function that keeps calling RecordHeartbeat within
\* one throttle interval, one gap and one round trip, unless a call is lost.
THEOREM CancelIsSeen == Spec => []CancelSeen
<1>1. IInv => CancelSeen
  BY DEF IInv, SeenFits, CancelSeen
<1> QED
  BY <1>1, Inductive, PTL
=============================================================================
