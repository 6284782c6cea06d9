---------------------------- MODULE FallbackChain ----------------------------
(***************************************************************************)
(* What an execution promises: stages are decided in order, each of them   *)
(* once, and the verdict is the last stage's.  A verdict is final.         *)
(***************************************************************************)
EXTENDS Integers

CONSTANT MaxStages

VARIABLES
  length,   \* number of stages, 0 before the plan
  decided,  \* stages decided so far, the last one excepted
  verdict

vars == <<length, decided, verdict>>

Init == length = 0 /\ decided = 0 /\ verdict = "open"

Plan ==
  /\ length = 0
  /\ length' \in 1 .. MaxStages
  /\ UNCHANGED <<decided, verdict>>

\* One stage fails, or passes and the ones up to the review are skipped.
Decide ==
  /\ verdict = "open"
  /\ decided < length - 1
  /\ decided' \in (decided + 1) .. (length - 1)
  /\ UNCHANGED <<length, verdict>>

Review ==
  /\ verdict = "open"
  /\ length > 0 /\ decided = length - 1
  /\ verdict' \in {"completed", "failed"}
  /\ UNCHANGED <<length, decided>>

Next == Plan \/ Decide \/ Review

Spec == Init /\ [][Next]_vars
==============================================================================
