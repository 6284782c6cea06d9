-------------------------- MODULE ExecutionGovernor --------------------------
(***************************************************************************)
(* One execution record and everybody who works on it: the governor        *)
(* (execution.py), ticket workers (executor_worker.py), adapter handoffs   *)
(* (adapters.py), the primary reviewer and startup reconciliation.         *)
(*                                                                         *)
(* A governor call loads the record, checks it, and saves a changed copy.  *)
(* Only the handoff transaction and the startup reconciliation take the    *)
(* executions lock; claim, dispatch, result, plan and recover take none.   *)
(* So a call is two steps, load and save, and MaxOverlap says how many     *)
(* calls may be between the two: 1 is calls that never overlap.  A save    *)
(* over a record that is not the one its call loaded loses an update: the  *)
(* properties say what holds anyway, and what holds until that happens.    *)
(*                                                                         *)
(* A claim may also be refused for reasons outside the record (emergency   *)
(* stop, model policy, provider health, capacity): it is then not made.    *)
(***************************************************************************)
EXTENDS Integers, FiniteSets

CONSTANTS
  Workers,     \* run tickets, hand stages off, review, use the command line
  Keepers,     \* the supervisor's recovery and the startup reconciliation
  NoProc, None,
  Plans,       \* what planning finds: [freebuff, local, routes, final, mentions]
  MaxOverlap,  \* calls between their load and their save at a time
  MaxLeases    \* bound on leases drawn

ASSUME GovernorAssumption ==
  /\ NoProc \notin Workers \cup Keepers
  /\ MaxOverlap \in Nat \ {0} /\ MaxLeases \in Nat
  /\ Plans \subseteq [freebuff : BOOLEAN, local : BOOLEAN, routes : Nat, final : BOOLEAN,
                      mentions : BOOLEAN]

Procs == Workers \cup Keepers

VARIABLES
  disk,     \* the saved record, None before it is planned
  expired,  \* leases whose time is over
  drawn,    \* leases drawn so far
  package,  \* stage -> lease in its handoff package, 0 when there is none
  lock,     \* holder of executions.lock
  at,       \* process -> where it is
  job,      \* process -> the stage and lease it works under
  copy,     \* process -> the record it is about to save
  latest,   \* history: stage -> the last lease a claim of it returned
  by,       \* history: stage -> the lease its outcome was recorded under
  dropped,  \* history: leases of handoff transactions that died half way
  base,     \* history: process -> the record its call loaded
  lost      \* history: whether a save has undone another call's update

vars == <<disk, expired, drawn, package, lock, at, job, copy, latest, by, dropped, base, lost>>

-----------------------------------------------------------------------------
(* The record.                                                             *)

Kinds     == {"freebuff", "ollama", "omniroute", "final", "primary"}
States    == {"pending", "claimed", "dispatched", "passed", "failed", "skipped"}
Decided   == {"passed", "failed", "skipped"}
Active    == {"claimed", "dispatched"}
Outcomes  == Decided
Verdicts  == {"completed", "failed"}
Statuses  == Verdicts \cup {"planned", "running", "awaiting_final_review"}
MaxStages == 6
Indexes   == 1 .. MaxStages

\* sent: how it was dispatched; an adapter's dispatch is bound to its package.
Stage   == [st : States, lease : Nat, sent : {"none", "worker", "adapter"}]
Pending == [st |-> "pending", lease |-> 0, sent |-> "none"]

\* Stages beyond n are padding; mentions: the task itself says "final review".
Record == [n : Indexes, kind : [Indexes -> Kinds], mentions : BOOLEAN, status : Statuses,
           idx : 1 .. MaxStages + 1, stage : [Indexes -> Stage]]

ASSUME NoRecordAssumption == None \notin Record

One(b) == IF b THEN 1 ELSE 0

\* plan_execution: FreeBuff, a local model and up to three routes, five model
\* stages at most with one kept for a final review, then the primary review.
Ordinary(plan) ==
  LET room   == 5 - One(plan.final)
      routes == IF plan.routes < 3 THEN plan.routes ELSE 3
      wanted == One(plan.freebuff) + One(plan.local) + routes
  IN  IF wanted < room THEN wanted ELSE room

Planned(plan) ==
  LET f == One(plan.freebuff)
      l == f + One(plan.local)
      o == Ordinary(plan)
      m == o + One(plan.final)
  IN  [n |-> m + 1,
       kind |-> [i \in Indexes |-> IF i <= f THEN "freebuff" ELSE IF i <= l THEN "ollama"
                                   ELSE IF i <= o THEN "omniroute" ELSE IF i <= m THEN "final"
                                   ELSE "primary"],
       mentions |-> plan.mentions, status |-> "planned", idx |-> 1,
       stage |-> [i \in Indexes |-> Pending]]

Current(r) == r.stage[r.idx]
IsPrimary(r, i) == r.kind[i] = "primary"

\* The final review is found by its purpose, which quotes the task.
LooksFinal(r, i) == r.kind[i] = "final" \/ (r.kind[i] = "omniroute" /\ r.mentions)

LeaseOver(s) == s.lease # 0 /\ s.lease \in expired

-----------------------------------------------------------------------------
(* What each call makes of the record it loaded.                           *)

\* Mutant: a claim that has not run out is taken over.
MayClaimAgain(r) == r.idx <= r.n /\ Current(r).st \in {"pending", "claimed"}

MayClaim(r) ==
  /\ r.idx <= r.n
  /\ \/ Current(r).st = "pending"
     \/ Current(r).st = "claimed" /\ LeaseOver(Current(r))

Claimed(r, lease) ==
  [r EXCEPT !.stage[r.idx] = [st |-> "claimed", lease |-> lease, sent |-> "none"],
            !.status = "running"]

MayDispatch(r, i, lease) ==
  /\ r.idx <= r.n /\ r.idx = i
  /\ Current(r).lease = lease /\ Current(r).st = "claimed"

Dispatched(r, how) ==
  [r EXCEPT !.stage[r.idx].st = "dispatched", !.stage[r.idx].sent = how, !.status = "running"]

Undispatched(s) == [s EXCEPT !.st = "claimed", !.sent = "none"]

\* Mutant: the lease is not compared.
MayRecordAnyLease(r, i, lease, sent) ==
  /\ r.idx <= r.n /\ r.idx = i
  /\ Current(r).st = "claimed" \/ (Current(r).st = "dispatched" /\ sent)

\* A decided stage with this lease answers as a replay and saves nothing.
MayRecord(r, i, lease, sent) ==
  /\ r.idx <= r.n /\ r.idx = i
  /\ Current(r).lease = lease
  /\ \/ Current(r).st = "claimed"
     \/ Current(r).st = "dispatched" /\ sent

\* Where a pass leads: to the last stage that looks like a final review, or
\* else to the primary review.  Pending stages in between are skipped.
Reviews(r) == {i \in (r.idx + 1) .. (r.n - 1) : LooksFinal(r, i)}
NextReview(r) ==
  IF Reviews(r) = {} THEN r.n ELSE CHOOSE i \in Reviews(r) : \A j \in Reviews(r) : j <= i

\* Mutant: the stages in between are left pending.
PassedWithoutSkips(r) ==
  IF IsPrimary(r, r.idx)
    THEN [r EXCEPT !.stage[r.idx].st = "passed", !.status = "completed"]
    ELSE [r EXCEPT !.stage[r.idx].st = "passed", !.idx = NextReview(r),
                   !.status = "awaiting_final_review"]

Passed(r) ==
  IF IsPrimary(r, r.idx)
    THEN [r EXCEPT !.stage[r.idx].st = "passed", !.status = "completed"]
    ELSE [r EXCEPT !.stage = [i \in Indexes |->
                               IF i = r.idx THEN [r.stage[i] EXCEPT !.st = "passed"]
                               ELSE IF i \in (r.idx + 1) .. (NextReview(r) - 1) /\ r.stage[i].st = "pending"
                                 THEN [r.stage[i] EXCEPT !.st = "skipped"]
                               ELSE r.stage[i]],
                   !.idx = NextReview(r), !.status = "awaiting_final_review"]

NotPassed(r, o) ==
  IF IsPrimary(r, r.idx)
    THEN [r EXCEPT !.stage[r.idx].st = o, !.status = "failed"]
    ELSE [r EXCEPT !.stage[r.idx].st = o, !.idx = @ + 1, !.status = "running"]

Recorded(r, o) == IF o = "passed" THEN Passed(r) ELSE NotPassed(r, o)

\* Mutant: a dispatch never times out.
RecoveredClaim(s) == IF s.st = "claimed" /\ LeaseOver(s) THEN Pending ELSE s

\* recover_execution: expired claims go back to pending, expired dispatches
\* fail; the index moves when the current stage is one of the latter.
RecoveredStage(s) ==
  IF s.st = "claimed" /\ LeaseOver(s) THEN Pending
  ELSE IF s.st = "dispatched" /\ LeaseOver(s) THEN [s EXCEPT !.st = "failed"]
  ELSE s

TimedOut(r) == r.idx <= r.n /\ Current(r).st = "dispatched" /\ LeaseOver(Current(r))

Recovered(r) ==
  [r EXCEPT !.stage  = [i \in Indexes |-> RecoveredStage(r.stage[i])],
            !.idx    = IF TimedOut(r) THEN @ + 1 ELSE @,
            !.status = IF ~TimedOut(r) THEN @ ELSE IF r.idx = r.n THEN "failed" ELSE "running"]

\* reconcile_dispatched_handoffs: an adapter's dispatch without its package.
Unpacked(r, i) ==
  r.stage[i].st = "dispatched" /\ r.stage[i].sent = "adapter" /\ package[i] # r.stage[i].lease

Reconciled(r) ==
  [r EXCEPT !.stage = [i \in Indexes |-> IF Unpacked(r, i) THEN Undispatched(r.stage[i]) ELSE r.stage[i]]]

-----------------------------------------------------------------------------
(* Processes.                                                              *)

Places == {"idle", "planning", "claiming", "holding", "dispatching", "packaging", "reverting",
           "undoing", "recording", "recovering", "reconciling"}
Calls  == {"planning", "claiming", "dispatching", "undoing", "recording", "recovering", "reconciling"}

\* how: as a ticket worker, inside a handoff transaction, or from the command
\* line; sent: it knows the dispatch identifier (and an adapter its token).
Job    == [how : {"none", "ticket", "handoff", "direct"}, stage : 0 .. MaxStages, lease : Nat, sent : BOOLEAN]
NoJob  == [how |-> "none", stage |-> 0, lease |-> 0, sent |-> FALSE]

Room == Cardinality({p \in Procs : at[p] \in Calls}) < MaxOverlap

\* p has loaded the record and will save r.
Load(p, place, r) ==
  /\ Room
  /\ at' = [at EXCEPT ![p] = place]
  /\ copy' = [copy EXCEPT ![p] = r]
  /\ base' = [base EXCEPT ![p] = disk]

\* p's copy takes the place of whatever is on disk by now.
Overwrite(p) ==
  /\ disk' = copy[p]
  /\ lost' = (lost \/ disk # base[p])

\* p saves its copy and goes on at place.
Save(p, place) ==
  /\ Overwrite(p)
  /\ copy' = [copy EXCEPT ![p] = None]
  /\ base' = [base EXCEPT ![p] = None]
  /\ at' = [at EXCEPT ![p] = place]

Stop(p) ==
  /\ at' = [at EXCEPT ![p] = "idle"]
  /\ job' = [job EXCEPT ![p] = NoJob]
  /\ copy' = [copy EXCEPT ![p] = None]
  /\ base' = [base EXCEPT ![p] = None]

-----------------------------------------------------------------------------

Init ==
  /\ disk = None
  /\ expired = {}
  /\ drawn = 0
  /\ package = [i \in Indexes |-> 0]
  /\ lock = NoProc
  /\ at = [p \in Procs |-> "idle"]
  /\ job = [p \in Procs |-> NoJob]
  /\ copy = [p \in Procs |-> None]
  /\ latest = [i \in Indexes |-> 0]
  /\ by = [i \in Indexes |-> 0]
  /\ dropped = {}
  /\ base = [p \in Procs |-> None]
  /\ lost = FALSE

\* Mutant: an existing record is planned again.
StartPlanAgain(p, plan) ==
  /\ at[p] = "idle"
  /\ Load(p, "planning", Planned(plan))
  /\ UNCHANGED <<disk, expired, drawn, package, lock, job, latest, by, dropped, lost>>

\* plan_execution: an existing record is returned as it is.
StartPlan(p, plan) ==
  /\ at[p] = "idle" /\ disk = None
  /\ Load(p, "planning", Planned(plan))
  /\ UNCHANGED <<disk, expired, drawn, package, lock, job, latest, by, dropped, lost>>

EndPlan(p) ==
  /\ at[p] = "planning"
  /\ Save(p, "idle")
  /\ UNCHANGED <<expired, drawn, package, lock, job, latest, by, dropped>>

\* claim_execution_stage, by a ticket worker, a handoff under the lock, or a
\* person.  The first two leave the primary review alone.
StartClaim(p, how) ==
  /\ at[p] = "idle" /\ disk # None
  /\ MayClaim(disk)
  /\ how # "direct" => ~IsPrimary(disk, disk.idx)
  /\ drawn < MaxLeases
  /\ drawn' = drawn + 1
  /\ IF how = "handoff" THEN lock = NoProc /\ lock' = p ELSE UNCHANGED lock
  /\ job' = [job EXCEPT ![p] = [how |-> how, stage |-> disk.idx, lease |-> drawn + 1, sent |-> FALSE]]
  /\ Load(p, "claiming", Claimed(disk, drawn + 1))
  /\ UNCHANGED <<disk, expired, package, latest, by, dropped, lost>>

EndClaim(p) ==
  /\ at[p] = "claiming"
  /\ Save(p, "holding")
  /\ latest' = [latest EXCEPT ![job[p].stage] = job[p].lease]
  /\ UNCHANGED <<expired, drawn, package, lock, job, by, dropped>>

\* mark_execution_dispatched, after the adapter ran or inside the handoff.
StartDispatch(p) ==
  /\ at[p] = "holding" /\ job[p].how \in {"ticket", "handoff"} /\ ~job[p].sent
  /\ MayDispatch(disk, job[p].stage, job[p].lease)
  /\ Load(p, "dispatching", Dispatched(disk, IF job[p].how = "handoff" THEN "adapter" ELSE "worker"))
  /\ UNCHANGED <<disk, expired, drawn, package, lock, job, latest, by, dropped, lost>>

EndDispatch(p) ==
  /\ at[p] = "dispatching"
  /\ Save(p, IF job[p].how = "handoff" THEN "packaging" ELSE "holding")
  /\ job' = [job EXCEPT ![p].sent = TRUE]
  /\ UNCHANGED <<expired, drawn, package, lock, latest, by, dropped>>

\* The dispatch is refused: a ticket worker gives up, a handoff rolls back.
DispatchRefused(p) ==
  /\ at[p] = "holding" /\ job[p].how \in {"ticket", "handoff"} /\ ~job[p].sent
  /\ ~MayDispatch(disk, job[p].stage, job[p].lease)
  /\ IF job[p].how = "ticket"
       THEN Stop(p) /\ UNCHANGED package
       ELSE /\ at' = [at EXCEPT ![p] = "reverting"]
            /\ package' = [package EXCEPT ![job[p].stage] = 0]
            /\ UNCHANGED <<job, copy, base>>
  /\ UNCHANGED <<disk, expired, drawn, lock, latest, by, dropped, lost>>

\* The handoff package is renamed into place and the lock is released.
WritePackage(p) ==
  /\ at[p] = "packaging"
  /\ package' = [package EXCEPT ![job[p].stage] = job[p].lease]
  /\ lock' = NoProc
  /\ at' = [at EXCEPT ![p] = "holding"]
  /\ UNCHANGED <<disk, expired, drawn, job, copy, latest, by, dropped, base, lost>>

\* The write fails: whatever package there is is removed, then the dispatch
\* is taken back if the record still says so.
PackageFails(p) ==
  /\ at[p] = "packaging"
  /\ package' = [package EXCEPT ![job[p].stage] = 0]
  /\ at' = [at EXCEPT ![p] = "reverting"]
  /\ UNCHANGED <<disk, expired, drawn, lock, job, copy, latest, by, dropped, base, lost>>

\* Mutant: the rollback looks for a claim instead of a dispatch.
MayRevertClaim(r, i, lease) ==
  /\ r.idx <= r.n /\ r.idx = i
  /\ Current(r).lease = lease /\ Current(r).st = "claimed"

MayRevert(r, i, lease) ==
  /\ r.idx <= r.n /\ r.idx = i
  /\ Current(r).lease = lease /\ Current(r).st = "dispatched"

StartRevert(p) ==
  /\ at[p] = "reverting" /\ MayRevert(disk, job[p].stage, job[p].lease)
  /\ Load(p, "undoing", [disk EXCEPT !.stage[disk.idx] = Undispatched(@)])
  /\ UNCHANGED <<disk, expired, drawn, package, lock, job, latest, by, dropped, lost>>

EndRevert(p) ==
  /\ at[p] = "undoing"
  /\ Overwrite(p)
  /\ Stop(p)
  /\ lock' = NoProc
  /\ UNCHANGED <<expired, drawn, package, latest, by, dropped>>

NothingToRevert(p) ==
  /\ at[p] = "reverting" /\ ~MayRevert(disk, job[p].stage, job[p].lease)
  /\ Stop(p)
  /\ lock' = NoProc
  /\ UNCHANGED <<disk, expired, drawn, package, latest, by, dropped, lost>>

\* A worker finds the package of a stage and works under what it says.
ReadPackage(p, i) ==
  /\ at[p] = "idle" /\ package[i] # 0
  /\ at' = [at EXCEPT ![p] = "holding"]
  /\ job' = [job EXCEPT ![p] = [how |-> "direct", stage |-> i, lease |-> package[i], sent |-> TRUE]]
  /\ UNCHANGED <<disk, expired, drawn, package, lock, copy, latest, by, dropped, base, lost>>

\* record_execution_result: a ticket worker that dispatched nothing failed.
\* Whether the lease has run out is not looked at.
StartRecord(p, o) ==
  /\ at[p] = "holding"
  /\ job[p].how = "ticket" /\ ~job[p].sent => o = "failed"
  /\ job[p].how = "handoff" => job[p].sent
  /\ MayRecord(disk, job[p].stage, job[p].lease, job[p].sent)
  /\ Load(p, "recording", Recorded(disk, o))
  /\ UNCHANGED <<disk, expired, drawn, package, lock, job, latest, by, dropped, lost>>

EndRecord(p) ==
  /\ at[p] = "recording"
  /\ Overwrite(p)
  /\ by' = [by EXCEPT ![job[p].stage] = job[p].lease]
  /\ Stop(p)
  /\ UNCHANGED <<expired, drawn, package, lock, latest, dropped>>

\* A result that is refused, or answered as a replay.
RecordRefused(p) ==
  /\ at[p] = "holding" /\ (job[p].how = "handoff" => job[p].sent)
  /\ ~MayRecord(disk, job[p].stage, job[p].lease, job[p].sent)
  /\ Stop(p)
  /\ UNCHANGED <<disk, expired, drawn, package, lock, latest, by, dropped, lost>>

\* recover_execution, by the supervisor's cycle or a person; nothing is
\* saved when nothing has expired.
StartRecover(p) ==
  /\ at[p] = "idle" /\ disk # None
  /\ Recovered(disk) # disk
  /\ Load(p, "recovering", Recovered(disk))
  /\ UNCHANGED <<disk, expired, drawn, package, lock, job, latest, by, dropped, lost>>

EndRecover(p) ==
  /\ at[p] = "recovering"
  /\ Save(p, "idle")
  /\ UNCHANGED <<expired, drawn, package, lock, job, latest, by, dropped>>

\* Startup reconciliation, under the lock.
StartReconcile(p) ==
  /\ at[p] = "idle" /\ disk # None /\ lock = NoProc
  /\ Reconciled(disk) # disk
  /\ lock' = p
  /\ Load(p, "reconciling", Reconciled(disk))
  /\ UNCHANGED <<disk, expired, drawn, package, job, latest, by, dropped, lost>>

EndReconcile(p) ==
  /\ at[p] = "reconciling"
  /\ Save(p, "idle")
  /\ lock' = NoProc
  /\ dropped' = {}
  /\ UNCHANGED <<expired, drawn, package, job, latest, by>>

\* A process dies; the kernel releases its lock.
Crash(p) ==
  /\ at[p] # "idle"
  /\ Stop(p)
  /\ lock' = IF lock = p THEN NoProc ELSE lock
  /\ dropped' = IF lock = p /\ job[p].how = "handoff" THEN dropped \cup {job[p].lease} ELSE dropped
  /\ UNCHANGED <<disk, expired, drawn, package, latest, by, lost>>

Expire(lease) ==
  /\ lease \in 1 .. drawn \ expired
  /\ expired' = expired \cup {lease}
  /\ UNCHANGED <<disk, drawn, package, lock, at, job, copy, latest, by, dropped, base, lost>>

Next ==
  \/ \E p \in Procs, plan \in Plans : StartPlan(p, plan)
  \/ \E p \in Procs : EndPlan(p)
  \/ \E p \in Workers, how \in {"ticket", "handoff", "direct"} : StartClaim(p, how)
  \/ \E p \in Workers : EndClaim(p)
  \/ \E p \in Workers : StartDispatch(p)
  \/ \E p \in Workers : EndDispatch(p)
  \/ \E p \in Workers : DispatchRefused(p)
  \/ \E p \in Workers : WritePackage(p)
  \/ \E p \in Workers : PackageFails(p)
  \/ \E p \in Workers : StartRevert(p)
  \/ \E p \in Workers : EndRevert(p)
  \/ \E p \in Workers : NothingToRevert(p)
  \/ \E p \in Workers, i \in Indexes : ReadPackage(p, i)
  \/ \E p \in Workers, o \in Outcomes : StartRecord(p, o)
  \/ \E p \in Workers : EndRecord(p)
  \/ \E p \in Workers : RecordRefused(p)
  \/ \E p \in Procs : StartRecover(p)
  \/ \E p \in Procs : EndRecover(p)
  \/ \E p \in Procs : StartReconcile(p)
  \/ \E p \in Procs : EndReconcile(p)
  \/ \E p \in Procs : Crash(p)
  \/ \E lease \in 1 .. MaxLeases : Expire(lease)

Spec == Init /\ [][Next]_vars

\* Time goes on, a call that has begun ends, and the keeper's cycle comes
\* round: it need not avoid every other call, nor survive every time, so what
\* is asked of it is strong fairness.
Fairness ==
  /\ \A lease \in 1 .. MaxLeases : WF_vars(Expire(lease))
  /\ \A p \in Workers : WF_vars(EndClaim(p) \/ EndDispatch(p) \/ EndRevert(p) \/ EndRecord(p))
  /\ \A p \in Procs : WF_vars(EndPlan(p) \/ EndReconcile(p) \/ EndRecover(p))
  /\ \A p \in Keepers : SF_vars(StartRecover(p)) /\ SF_vars(EndRecover(p))

FairSpec == Spec /\ Fairness

-----------------------------------------------------------------------------
(* Properties.                                                             *)

TypeOK ==
  /\ disk    \in Record \cup {None}
  /\ expired \subseteq 1 .. drawn
  /\ drawn   \in Nat
  /\ package \in [Indexes -> 0 .. drawn]
  /\ lock    \in Procs \cup {NoProc}
  /\ at      \in [Procs -> Places]
  /\ job     \in [Procs -> Job]
  /\ copy    \in [Procs -> Record \cup {None}]
  /\ latest  \in [Indexes -> 0 .. drawn]
  /\ by      \in [Indexes -> 0 .. drawn]
  /\ dropped \subseteq 1 .. drawn
  /\ base    \in [Procs -> Record \cup {None}]
  /\ lost    \in BOOLEAN

Orderly(r) ==
  /\ r.idx <= r.n
  /\ \A i \in Indexes : i < r.idx => r.stage[i].st \in Decided
  /\ \A i \in Indexes : i > r.idx => r.stage[i] = Pending
  /\ \A i \in 1 .. r.n : IsPrimary(r, i) <=> i = r.n

Reviewed(r) ==
  /\ r.status = "completed" <=> r.stage[r.n].st = "passed"
  /\ r.status = "failed" <=> r.stage[r.n].st \in {"failed", "skipped"}

\* Stages are worked on one at a time, in order: those before the current one
\* are decided, those after it untouched, and the primary review is the last.
\* The verdict is that review's own outcome: no route, time-out or skip
\* decides it.
StagesInOrder == disk # None => Orderly(disk) /\ Reviewed(disk)

\* Two processes that still have time to work on a stage work under the same
\* lease ("Refuses wrong/non-current/already-claimed stages").
Working(p) == at[p] \notin {"idle", "claiming", "planning", "recovering", "reconciling"}

ClaimsExclusive ==
  \A p, q \in Workers :
    /\ Working(p) /\ Working(q)
    /\ job[p].stage = job[q].stage
    /\ job[p].lease \notin expired /\ job[q].lease \notin expired
    => job[p].lease = job[q].lease

\* However calls overlap, two claims stand together only when a save has
\* undone another call's update.
ExclusiveUnlessLost == lost \/ ClaimsExclusive

\* Until a save undoes another call's update, a stage is decided under the
\* last lease that was given out for it: a worker that was given up never
\* decides over its successor, however late.
LatestLeaseDecides == lost \/ \A i \in Indexes : by[i] \in {0, latest[i]}

\* A stage handed to an adapter has its package, unless the transaction that
\* is to write it is still at it or died, and then startup reconciliation has
\* not run since ("so stage is NOT left dispatched without file").  This too
\* lasts until a save undoes another call's update.
DispatchedHasPackage ==
  ~lost /\ disk # None => \A i \in Indexes :
    Unpacked(disk, i) =>
      \/ \E p \in Workers : lock = p /\ job[p].stage = i /\ job[p].lease = disk.stage[i].lease
      \/ disk.stage[i].lease \in dropped

Chain == INSTANCE FallbackChain WITH
  length  <- IF disk = None THEN 0 ELSE disk.n,
  decided <- IF disk = None THEN 0 ELSE disk.idx - 1,
  verdict <- IF disk = None \/ disk.status \notin Verdicts THEN "open" ELSE disk.status

\* However calls overlap, until a save undoes another call's update they make
\* a fallback chain: planned once, each stage decided once and in order, the
\* verdict final.
ImplementsFallbackChain == Chain!Init /\ [][Chain!Next \/ lost']_(Chain!vars)

\* No lease is active for ever: it is decided or taken back, whoever crashed.
ActiveLease(lease) ==
  disk # None /\ \E i \in Indexes : disk.stage[i].st \in Active /\ disk.stage[i].lease = lease

EveryLeaseSettles == \A lease \in 1 .. MaxLeases : ActiveLease(lease) ~> ~ActiveLease(lease)
==============================================================================
