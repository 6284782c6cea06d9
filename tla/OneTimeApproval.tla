--------------------------- MODULE OneTimeApproval ---------------------------
(***************************************************************************)
(* What the approval queue promises its callers, with everything about     *)
(* files, tokens, scopes and clocks left out: a right is asked for, a      *)
(* human grants it, and one process, once, uses it.  A used right never    *)
(* becomes usable again and never changes hands.                           *)
(***************************************************************************)
CONSTANTS Requests, Procs, NoProc

VARIABLES
  right,   \* what each request stands for
  user     \* the process that used it, NoProc while unused

vars == <<right, user>>

Init ==
  /\ right = [r \in Requests |-> "none"]
  /\ user  = [r \in Requests |-> NoProc]

Ask(r) ==
  /\ right[r] = "none"
  /\ right' = [right EXCEPT ![r] = "asked"]
  /\ UNCHANGED user

Grant(r) ==
  /\ right[r] = "asked"
  /\ right' = [right EXCEPT ![r] = "granted"]
  /\ UNCHANGED user

Use(p, r) ==
  /\ right[r] = "granted"
  /\ right' = [right EXCEPT ![r] = "used"]
  /\ user'  = [user EXCEPT ![r] = p]

Next == \E r \in Requests : Ask(r) \/ Grant(r) \/ \E p \in Procs : Use(p, r)

Spec == Init /\ [][Next]_vars
==============================================================================
