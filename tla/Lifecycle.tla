------------------------------- MODULE Lifecycle -------------------------------
(***************************************************************************)
(* The adaptive workflow (workflow.py) and the orchestration that starts   *)
(* one (orchestration.py).                                                 *)
(*                                                                         *)
(* A call loads a record, may spend an approval or run a command, and      *)
(* rewrites the file; nothing locks it, so a call is several steps and     *)
(* holds its copy meanwhile.  The file is rewritten in place: a crash may  *)
(* lose the call or leave a file no later call can read.                   *)
(***************************************************************************)
EXTENDS ApprovalGate

CONSTANTS
  Flows,      \* workflow identifiers (wf-<uuid>)
  Orchs,      \* orchestration identifiers (orch-<uuid>)
  Absent,     \* no such file
  Torn        \* a file cut short by a crash

VARIABLES
  flow,       \* workflow -> its record file
  orch,       \* orchestration -> its record file
  required,   \* orchestrations with an entry in REQUIREMENTS.md and PLAN.md
  handoff,    \* orchestrations with a handoff document
  doing       \* process -> the call it is in, with its copy of the record

lifeVars == <<flow, orch, required, handoff, doing>>

-----------------------------------------------------------------------------
(* Profiles and stages.                                                    *)

Review == {"specification_review", "quality_review"}

PROFILES == [
  fast     |-> <<"implementation", "verification", "completed">>,
  standard |-> <<"design_approval", "planning", "implementation", "specification_review",
                 "quality_review", "verification", "completed">>,
  high_assurance |->
               <<"design_approval", "planning", "implementation", "specification_review",
                 "quality_review", "verification", "final_approval", "completed">>]

ApprovalAction == [design_approval |-> "workflow_design_approval",
                   final_approval  |-> "workflow_final_approval"]
GateStages == DOMAIN ApprovalAction

\* assess_profile: a request has a high-risk word, a fast word, or neither.
Texts == {"high_risk", "small", "plain"}
Risks == {"auto", "low", "medium", "high"}

AssessProfile(text, risk) ==
  IF risk = "high" \/ text = "high_risk" THEN "high_assurance"
  ELSE IF risk = "low" \/ text = "small" THEN "fast"
  ELSE "standard"

\* _profile_to_risk: only a name with "high", "critical", "medium" or
\* "elevated" in it is more than low, and "standard" is none of them.
ProfileToRisk(profile) == IF profile = "high_assurance" THEN "high" ELSE "low"

FlowRecord == [
  profile  : DOMAIN PROFILES,
  index    : 1 .. 8,
  status   : {"active", "blocked", "completed"},
  reviews  : [Review -> {"none", "passed", "failed"}],
  verified : {"none", "passed", "failed"}]

Stage(rec) == PROFILES[rec.profile][rec.index]

NewFlow(profile) ==
  [profile |-> profile, index |-> 1, status |-> "active",
   reviews |-> [s \in Review |-> "none"], verified |-> "none"]

\* _move_next
MoveNext(rec) ==
  LET next == PROFILES[rec.profile][rec.index + 1] IN
  [rec EXCEPT !.index = @ + 1, !.status = IF next = "completed" THEN "completed" ELSE "active"]

ASSUME LifeAssumption ==
  /\ Absent \notin FlowRecord \cup Flows \cup {Torn}
  /\ PlainTargets(Flows)

OrchRecord == [
  status : {"draft", "confirmed", "dispatched"},
  text   : Texts,
  write  : BOOLEAN,       \* write access, or a coding task
  paths  : BOOLEAN,       \* some approved path
  flow   : Flows \cup {Absent}]

-----------------------------------------------------------------------------

FlowOps == {"advance", "specification_review", "quality_review", "verify"}

FlowCalls == [op : FlowOps, id : Flows, copy : FlowRecord, paid : BOOLEAN]
OrchCalls == [op : {"confirm", "dispatch"}, id : Orchs, copy : OrchRecord, at : 1 .. 3,
              made : Flows \cup {Absent}]

LifeTypeOK ==
  /\ flow     \in [Flows -> FlowRecord \cup {Absent, Torn}]
  /\ orch     \in [Orchs -> OrchRecord \cup {Absent, Torn}]
  /\ required \subseteq Orchs
  /\ handoff  \subseteq Orchs
  /\ doing    \in [Procs -> FlowCalls \cup OrchCalls \cup {Idle}]

LifeInit ==
  /\ flow     = [f \in Flows |-> Absent]
  /\ orch     = [o \in Orchs |-> Absent]
  /\ required = {}
  /\ handoff  = {}
  /\ doing    = [p \in Procs |-> Idle]

Readable(file) == file \notin {Absent, Torn}
InFlow(p) == doing[p] # Idle /\ doing[p].op \in FlowOps
InOrch(p, op) == doing[p] # Idle /\ doing[p].op = op

\* start_workflow, called directly.
StartWorkflow(f, text, risk) ==
  /\ flow[f] = Absent
  /\ flow' = [flow EXCEPT ![f] = NewFlow(AssessProfile(text, risk))]
  /\ UNCHANGED <<orch, required, handoff, doing, vars>>

\* Mutant: advance refuses only the verification.
PermittedLax(rec, op) ==
  CASE op = "advance" -> Stage(rec) \notin {"verification", "completed"}
    [] op = "verify"  -> Stage(rec) = "verification"
    [] OTHER          -> Stage(rec) = op

\* What a call requires of the record it loads; anything else raises.
Permitted(rec, op) ==
  CASE op = "advance" -> Stage(rec) \notin Review \cup {"verification", "completed"}
    [] op = "verify"  -> Stage(rec) = "verification"
    [] OTHER          -> Stage(rec) = op

LoadFlow(p, f, op) ==
  /\ doing[p] = Idle
  /\ Readable(flow[f]) /\ Permitted(flow[f], op)
  /\ doing' = [doing EXCEPT ![p] = [op |-> op, id |-> f, copy |-> flow[f], paid |-> FALSE]]
  /\ UNCHANGED <<flow, orch, required, handoff, vars>>

\* advance_workflow at an approval stage: the approval is spent before the
\* record is saved.
PayGate(p, r) ==
  /\ InFlow(p) /\ doing[p].op = "advance" /\ ~doing[p].paid
  /\ Stage(doing[p].copy) \in GateStages
  /\ Spend(p, r, ApprovalAction[Stage(doing[p].copy)], doing[p].id)
  /\ doing' = [doing EXCEPT ![p].paid = TRUE]
  /\ UNCHANGED <<flow, orch, required, handoff>>

\* The record advance_workflow, record_workflow_review and verify_workflow
\* save, for a passing or a failing review or command.
Outcome(rec, op, passed) ==
  LET mark == IF passed THEN "passed" ELSE "failed"
      told == CASE op = "advance" -> rec
                [] op = "verify"  -> [rec EXCEPT !.verified = mark]
                [] OTHER          -> [rec EXCEPT !.reviews[op] = mark]
  IN IF passed THEN MoveNext(told) ELSE [told EXCEPT !.status = "blocked"]

SaveFlow(p, passed) ==
  /\ InFlow(p)
  /\ doing[p].op = "advance" => passed /\ (Stage(doing[p].copy) \in GateStages => doing[p].paid)
  /\ flow' = [flow EXCEPT ![doing[p].id] = Outcome(doing[p].copy, doing[p].op, passed)]
  /\ doing' = [doing EXCEPT ![p] = Idle]
  /\ UNCHANGED <<orch, required, handoff, vars>>

-----------------------------------------------------------------------------
(* Orchestration.                                                          *)

\* orchestrate_start: a write task without paths gets a draft with an error.
OrchestrateStart(o, text, write, paths) ==
  /\ orch[o] = Absent
  /\ orch' = [orch EXCEPT ![o] = [status |-> "draft", text |-> text, write |-> write,
                                  paths |-> paths, flow |-> Absent]]
  /\ UNCHANGED <<flow, required, handoff, doing, vars>>

\* orchestrate_confirm: load and check.
LoadConfirm(p, o) ==
  /\ doing[p] = Idle
  /\ Readable(orch[o]) /\ orch[o].status = "draft" /\ (orch[o].write => orch[o].paths)
  /\ doing' = [doing EXCEPT ![p] =
                 [op |-> "confirm", id |-> o, copy |-> orch[o], at |-> 1, made |-> Absent]]
  /\ UNCHANGED <<flow, orch, required, handoff, vars>>

\* core.confirm: the requirement and the plan entry, once for each reference.
RecordRequirement(p) ==
  /\ InOrch(p, "confirm") /\ doing[p].at = 1
  /\ required' = required \cup {doing[p].id}
  /\ doing' = [doing EXCEPT ![p].at = 2]
  /\ UNCHANGED <<flow, orch, handoff, vars>>

\* start_workflow with the risk of the preview's profile.
ConfirmStartsWorkflow(p, f) ==
  /\ InOrch(p, "confirm") /\ doing[p].at = 2
  /\ flow[f] = Absent
  /\ LET text == doing[p].copy.text
         risk == ProfileToRisk(AssessProfile(text, "auto"))
     IN flow' = [flow EXCEPT ![f] = NewFlow(AssessProfile(text, risk))]
  /\ doing' = [doing EXCEPT ![p].at = 3, ![p].made = f]
  /\ UNCHANGED <<orch, required, handoff, vars>>

\* Mutant: a draft is dispatched.
LoadDispatchDraft(p, o) ==
  /\ doing[p] = Idle
  /\ Readable(orch[o]) /\ orch[o].status \in {"draft", "confirmed"}
  /\ doing' = [doing EXCEPT ![p] =
                 [op |-> "dispatch", id |-> o, copy |-> orch[o], at |-> 1, made |-> Absent]]
  /\ UNCHANGED <<flow, orch, required, handoff, vars>>

\* orchestrate_dispatch: a dispatched orchestration returns its document and
\* changes nothing.
LoadDispatch(p, o) ==
  /\ doing[p] = Idle
  /\ Readable(orch[o]) /\ orch[o].status = "confirmed"
  /\ doing' = [doing EXCEPT ![p] =
                 [op |-> "dispatch", id |-> o, copy |-> orch[o], at |-> 1, made |-> Absent]]
  /\ UNCHANGED <<flow, orch, required, handoff, vars>>

WriteHandoff(p) ==
  /\ InOrch(p, "dispatch") /\ doing[p].at = 1
  /\ handoff' = handoff \cup {doing[p].id}
  /\ doing' = [doing EXCEPT ![p].at = 3]
  /\ UNCHANGED <<flow, orch, required, vars>>

SaveOrch(p) ==
  /\ doing[p] # Idle /\ ~InFlow(p) /\ doing[p].at = 3
  /\ orch' = [orch EXCEPT ![doing[p].id] =
                IF doing[p].op = "confirm"
                THEN [doing[p].copy EXCEPT !.status = "confirmed", !.flow = doing[p].made]
                ELSE [doing[p].copy EXCEPT !.status = "dispatched"]]
  /\ doing' = [doing EXCEPT ![p] = Idle]
  /\ UNCHANGED <<flow, required, handoff, vars>>

\* The process dies, or the call raises, before it saves.
Abandon(p) ==
  /\ doing[p] # Idle
  /\ doing' = [doing EXCEPT ![p] = Idle]
  /\ UNCHANGED <<flow, orch, required, handoff, vars>>

\* The process dies while it rewrites the file of its record.
TearFile(p) ==
  /\ doing[p] # Idle
  /\ IF InFlow(p)
     THEN /\ doing[p].op = "advance" /\ Stage(doing[p].copy) \in GateStages => doing[p].paid
          /\ flow' = [flow EXCEPT ![doing[p].id] = Torn] /\ UNCHANGED orch
     ELSE /\ doing[p].at = 3
          /\ orch' = [orch EXCEPT ![doing[p].id] = Torn] /\ UNCHANGED flow
  /\ doing' = [doing EXCEPT ![p] = Idle]
  /\ UNCHANGED <<required, handoff, vars>>

AskGate(r, f, s) ==
  /\ AskFor(r, ApprovalAction[s], f)
  /\ UNCHANGED lifeVars

GrantGate(r) == Approve(r) /\ UNCHANGED lifeVars

WorkflowNext ==
  \/ \E f \in Flows, text \in Texts, risk \in Risks : StartWorkflow(f, text, risk)
  \/ \E p \in Procs, f \in Flows, op \in FlowOps : LoadFlow(p, f, op)
  \/ \E p \in Procs, r \in Requests : PayGate(p, r)
  \/ \E p \in Procs, passed \in BOOLEAN : SaveFlow(p, passed)
  \/ \E r \in Requests, f \in Flows, s \in GateStages : AskGate(r, f, s)
  \/ \E r \in Requests : GrantGate(r)
  \/ \E p \in Procs : Abandon(p) \/ TearFile(p)

OrchestrationNext ==
  \/ \E o \in Orchs, text \in Texts, write \in BOOLEAN, paths \in BOOLEAN :
       OrchestrateStart(o, text, write, paths)
  \/ \E p \in Procs, o \in Orchs : LoadConfirm(p, o) \/ LoadDispatch(p, o)
  \/ \E p \in Procs : RecordRequirement(p) \/ WriteHandoff(p) \/ SaveOrch(p)
  \/ \E p \in Procs, f \in Flows : ConfirmStartsWorkflow(p, f)
  \/ \E p \in Procs : Abandon(p) \/ TearFile(p)

LifeSpec ==
  Init /\ LifeInit /\ [][WorkflowNext \/ OrchestrationNext]_<<lifeVars, vars>>

-----------------------------------------------------------------------------
(* Properties.                                                             *)

\* Every stage behind a record was passed the way its profile asks.
Earned(f, rec) ==
  /\ \A i \in 1 .. rec.index - 1 :
       LET s == PROFILES[rec.profile][i] IN
       CASE s \in GateStages     -> Spent(ApprovalAction[s], f)
         [] s \in Review         -> rec.reviews[s] = "passed"
         [] s = "verification"   -> rec.verified = "passed"
         [] OTHER                -> TRUE
  /\ rec.status = "completed" <=> Stage(rec) = "completed"
  /\ rec.status = "blocked" =>
       \/ Stage(rec) \in Review /\ rec.reviews[Stage(rec)] = "failed"
       \/ Stage(rec) = "verification" /\ rec.verified = "failed"

\* No overlap of the unlocked calls, and no crash between an approval and the
\* save it was for, lets a workflow stand behind a gate that was not passed
\* for it: approvals spent for this workflow, both reviews passed, a
\* successful verification.  The copies calls hold are as good as the file
\* (advance_workflow, record_workflow_review, verify_workflow).
GatesEarned ==
  /\ \A f \in Flows : Readable(flow[f]) => Earned(f, flow[f])
  /\ \A p \in Procs : InFlow(p) => Earned(doing[p].id, doing[p].copy)

\* A handoff document exists only for an orchestration that was confirmed:
\* its requirement recorded, a workflow of its risk started, and paths
\* approved if it writes, however confirmations and dispatches overlap or
\* crash (orchestrate_confirm, orchestrate_dispatch).
Confirmed(o, rec) ==
  rec.status # "draft" =>
    /\ o \in required
    /\ rec.write => rec.paths
    /\ rec.flow # Absent /\ flow[rec.flow] # Absent
    /\ rec.text = "high_risk" /\ Readable(flow[rec.flow])
         => flow[rec.flow].profile = "high_assurance"
    /\ rec.status = "dispatched" => o \in handoff

HandoffWasConfirmed ==
  /\ \A o \in Orchs : Readable(orch[o]) => Confirmed(o, orch[o])
  /\ \A p \in Procs : doing[p] # Idle /\ ~InFlow(p) => Confirmed(doing[p].id, doing[p].copy)
  /\ handoff \subseteq required
==============================================================================
