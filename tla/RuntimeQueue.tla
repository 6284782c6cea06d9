------------------------------ MODULE RuntimeQueue ------------------------------
(***************************************************************************)
(* The durable task queue, the resource locks and the emergency stop       *)
(* (runtime.py).  Every file is changed under its exclusive flock and      *)
(* replaced by a rename, so one change of one file is one step; the        *)
(* emergency stop and the resumption change two files and are two steps.   *)
(***************************************************************************)
EXTENDS ApprovalGate

CONSTANTS
  Tasks,      \* task identifiers
  TaskKeys,   \* idempotency keys
  Resources,  \* names of resource locks
  MaxStops    \* bound on emergency stops

ASSUME StopAssumption == MaxStops \in Nat

VARIABLES
  task,       \* task -> its entry in queue.json
  locked,     \* names in locks.json, which says nothing of who took them
  stopped,    \* the flag in emergency-stop.json
  halting,    \* process -> what it has left to do of a stop or a resumption
  stops,      \* emergency stops so far
  lifts,      \* history: how often the flag was cleared
  swept       \* history: tasks an emergency stop cancelled

runtimeVars == <<task, locked, stopped, halting, stops, lifts, swept>>

\* Mutant: a cancelled task may be queued again, as a failed one may.
TransitionsRetry == [
  queued            |-> {"running", "awaiting_approval", "cancelled", "blocked"},
  running           |-> {"awaiting_approval", "blocked", "failed", "cancelled", "completed", "queued"},
  awaiting_approval |-> {"queued", "cancelled", "blocked"},
  blocked           |-> {"queued", "cancelled"},
  failed            |-> {"queued", "cancelled"},
  cancelled         |-> {"queued"},
  completed         |-> {}]

\* ALLOWED_TRANSITIONS; enqueue_task never makes a draft.
Transitions == [
  queued            |-> {"running", "awaiting_approval", "cancelled", "blocked"},
  running           |-> {"awaiting_approval", "blocked", "failed", "cancelled", "completed", "queued"},
  awaiting_approval |-> {"queued", "cancelled", "blocked"},
  blocked           |-> {"queued", "cancelled"},
  failed            |-> {"queued", "cancelled"},
  cancelled         |-> {},
  completed         |-> {}]

Stoppable == {"queued", "running", "awaiting_approval"}
TaskEntry == [key : TaskKeys, state : DOMAIN Transitions]
Halting   == {"cancel", "lift"}

ASSUME SentinelAssumption == Idle \notin Halting /\ None \notin TaskEntry

RuntimeTypeOK ==
  /\ task    \in [Tasks -> TaskEntry \cup {None}]
  /\ locked  \subseteq Resources
  /\ stopped \in BOOLEAN
  /\ halting \in [Procs -> Halting \cup {Idle}]
  /\ stops   \in 0 .. MaxStops
  /\ lifts   \in Nat
  /\ swept   \subseteq Tasks

RuntimeInit ==
  /\ task    = [t \in Tasks |-> None]
  /\ locked  = {}
  /\ stopped = FALSE
  /\ halting = [p \in Procs |-> Idle]
  /\ stops   = 0
  /\ lifts   = 0
  /\ swept   = {}

-----------------------------------------------------------------------------

Listed == {t \in Tasks : task[t] # None}
InState(states) == {t \in Listed : task[t].state \in states}

\* What becomes of the entries in some states.
Moved(states, state) ==
  [t \in Tasks |-> IF t \in InState(states) THEN [task[t] EXCEPT !.state = state] ELSE task[t]]

\* enqueue_task: a key that is in the queue returns the task it has, whatever
\* its state.  The emergency stop is not looked at.
EnqueueTask(t, k) ==
  /\ task[t] = None
  /\ \A u \in Listed : task[u].key # k
  /\ task' = [task EXCEPT ![t] = [key |-> k, state |-> "queued"]]
  /\ UNCHANGED <<locked, stopped, halting, stops, lifts, swept, vars>>

UpdateTaskState(t, state) ==
  /\ t \in Listed /\ state \in Transitions[task[t].state]
  /\ task' = [task EXCEPT ![t].state = state]
  /\ UNCHANGED <<locked, stopped, halting, stops, lifts, swept, vars>>

\* recover_interrupted_tasks: nothing sets external_side_effect, so what was
\* running is queued again.
RecoverTasks ==
  /\ InState({"running"}) # {}
  /\ task' = Moved({"running"}, "queued")
  /\ UNCHANGED <<locked, stopped, halting, stops, lifts, swept, vars>>

AcquireLock(n) ==
  /\ n \notin locked
  /\ locked' = locked \cup {n}
  /\ UNCHANGED <<task, stopped, halting, stops, lifts, swept, vars>>

ReleaseLock(n) ==
  /\ n \in locked
  /\ locked' = locked \ {n}
  /\ UNCHANGED <<task, stopped, halting, stops, lifts, swept, vars>>

\* kill_switch: first the flag, then the queue.
SetStop(p) ==
  /\ halting[p] = Idle /\ stops < MaxStops
  /\ stops' = stops + 1
  /\ stopped' = TRUE
  /\ halting' = [halting EXCEPT ![p] = "cancel"]
  /\ UNCHANGED <<task, locked, lifts, swept, vars>>

CancelAll(p) ==
  /\ halting[p] = "cancel"
  /\ task' = Moved(Stoppable, "cancelled")
  /\ swept' = swept \cup InState(Stoppable)
  /\ halting' = [halting EXCEPT ![p] = Idle]
  /\ UNCHANGED <<locked, stopped, stops, lifts, vars>>

\* resume_after_kill_switch: the approval, then the flag.
PayResume(p, r) ==
  /\ halting[p] = Idle
  /\ Spend(p, r, "runtime_resume", "guardian-runtime")
  /\ halting' = [halting EXCEPT ![p] = "lift"]
  /\ UNCHANGED <<task, locked, stopped, stops, lifts, swept>>

LiftStop(p) ==
  /\ halting[p] = "lift"
  /\ stopped' = FALSE
  /\ lifts' = lifts + 1
  /\ halting' = [halting EXCEPT ![p] = Idle]
  /\ UNCHANGED <<task, locked, stops, swept, vars>>

\* A process dies between the two steps.
CrashHalting(p) ==
  /\ halting[p] # Idle
  /\ halting' = [halting EXCEPT ![p] = Idle]
  /\ UNCHANGED <<task, locked, stopped, stops, lifts, swept, vars>>

RuntimeNext ==
  \/ \E t \in Tasks, k \in TaskKeys : EnqueueTask(t, k)
  \/ \E t \in Tasks, state \in DOMAIN Transitions : UpdateTaskState(t, state)
  \/ RecoverTasks
  \/ \E n \in Resources : AcquireLock(n) \/ ReleaseLock(n)
  \/ \E p \in Procs : SetStop(p) \/ CancelAll(p) \/ LiftStop(p) \/ CrashHalting(p)
  \/ \E p \in Procs, r \in Requests : PayResume(p, r)
  \/ \E r \in Requests :
       (AskFor(r, "runtime_resume", "guardian-runtime") \/ Approve(r)) /\ UNCHANGED runtimeVars

RuntimeSpec == Init /\ RuntimeInit /\ [][RuntimeNext]_<<runtimeVars, vars>>

-----------------------------------------------------------------------------
(* Properties.                                                             *)

\* What an emergency stop cancelled stays cancelled, through later stops,
\* recoveries and resumptions; the stop is lifted at most once for each
\* approval of a resumption, whoever races or dies half way; and a key stands
\* for one task (kill_switch, resume_after_kill_switch, enqueue_task).
StopsHold ==
  /\ \A t \in swept : task[t].state = "cancelled"
  /\ stops > 0 /\ lifts = 0 => stopped
  /\ lifts <= Cardinality(Consumed("runtime_resume", "guardian-runtime"))
  /\ \A t, u \in Listed : task[t].key = task[u].key => t = u
===============================================================================
