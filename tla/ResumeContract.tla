--------------------------- MODULE ResumeContract ---------------------------
(***************************************************************************)
(* What the rest of the SDK relies on when it drives a workflow function   *)
(* through a Coroutine: a hand-over of control behaves as a procedure      *)
(* call.  The caller gives control away, the body runs exactly one segment *)
(* (up to its next suspension point, or to its end), and only then does    *)
(* the caller go on; a caller that stops waiting never takes control back; *)
(* and the object goes away only once the body has ended.                  *)
(***************************************************************************)
EXTENDS Naturals

VARIABLES
    control,    \* "caller", "body", "lost" (the caller gave up), "gone"
    calls,      \* hand-overs of control to the body
    segments,   \* segments the body has run
    ended       \* has the body ended?

contract == <<control, calls, segments, ended>>

Init ==
    /\ control = "caller"
    /\ calls = 0
    /\ segments = 0
    /\ ended = FALSE

Call ==
    /\ control = "caller" /\ ~ended
    /\ control' = "body"
    /\ calls' = calls + 1
    /\ UNCHANGED <<segments, ended>>

\* The body reaches a suspension point, or its end.
Segment ==
    /\ control \in {"body", "lost"} /\ ~ended
    /\ segments < calls
    /\ segments' = segments + 1
    /\ ended' \in BOOLEAN
    /\ UNCHANGED <<control, calls>>

Return ==
    /\ control = "body" /\ segments = calls
    /\ control' = "caller"
    /\ UNCHANGED <<calls, segments, ended>>

GiveUp ==
    /\ control = "body" /\ segments < calls
    /\ control' = "lost"
    /\ UNCHANGED <<calls, segments, ended>>

Free ==
    /\ control = "caller" /\ ended
    /\ control' = "gone"
    /\ UNCHANGED <<calls, segments, ended>>

Next == Call \/ Segment \/ Return \/ GiveUp \/ Free

Spec == Init /\ [][Next]_contract
=============================================================================
