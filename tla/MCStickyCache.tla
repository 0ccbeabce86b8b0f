---------------------------- MODULE MCStickyCache ----------------------------
(***************************************************************************)
(* Two runs for TLC: the tasks of the first have up to three attempts, and *)
(* its function returns in the last of them; the second has one task, and  *)
(* its function, still waiting, does not unwind when it is evicted.        *)
(***************************************************************************)
EXTENDS StickyCache

CONSTANTS r1, r2

Attempts == [r \in Runs |-> IF r = r1 THEN 3 ELSE 1]
Ends     == [r \in Runs |-> IF r = r1 THEN 7 ELSE 100]
=============================================================================
