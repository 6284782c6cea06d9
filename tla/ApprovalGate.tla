----------------------------- MODULE ApprovalGate -----------------------------
(***************************************************************************)
(* The approval queue as its simplest clients use it: an approval is asked *)
(* for an action and a target, by the default user and without expiry,     *)
(* granted by the human, and consumed by the call it is for, straight from *)
(* approved; a call without one raises.  The clients that are composed     *)
(* with the queue extend this module.                                      *)
(***************************************************************************)
EXTENDS ApprovalQueue, Sequences

CONSTANT Idle   \* the call of a process that makes none

\* What a client presents to consume_action_approval.
ClientScope(action, target) ==
  [action |-> action, target |-> target, user |-> None, account |-> None,
   connector |-> None, key |-> None]

\* request_action_approval by a client.
AskFor(r, action, target) ==
  RequestApproval(r, [ClientScope(action, target) EXCEPT !.user = DefaultUser], NoExpiry)

\* consume_action_approval by a client.
Spend(p, r, action, target) ==
  /\ status[r] = "approved"
  /\ Consume(p, r, ClientScope(action, target))

\* The approvals consumed for an action and a target.
Consumed(action, target) ==
  {r \in Requests : status[r] = "consumed"
                    /\ scope[r].action = action /\ scope[r].target = target}

Spent(action, target) == Consumed(action, target) # {}

\* Targets that are identifiers: they have no query part, so redaction keeps
\* them as they are and no two of them pass for one another.
PlainTargets(targets) ==
  \A t, u \in targets : t # EmptyTarget /\ (Canon[t] = Canon[u] => t = u)
==============================================================================
