# Guardian Agent: models and proofs

Guardian Agent (`src/src/guardian_agent/`, Python) is a local assistant that plans a task,
splits it into stages with fallbacks, gives each stage to a worker (a local model, a hosted
model, an editor adapter), and lets a *primary review* decide the verdict. Everything it
remembers is in JSON files of a project's `.guardian` directory, and any number of processes
(commands, a service, a daemon with a pool of threads, a supervisor) read and write them.
What must not go wrong is therefore in the order of file operations of several processes:
who holds an approval, a ledger key, a stage's lease, a ticket.

This directory models those protocols in TLA+, checks them with TLC on small instances and
proves the central invariants with TLAPS for every value of the constants.

## 1. Inventory

| component | state | operations | interacts with |
|---|---|---|---|
| approval queue, `policy.py` | `approvals.jsonl`, rewritten under an exclusive flock | request, approve, reserve, consume, mark unknown | everything a user has to consent to |
| idempotency ledger, `connectors.py` | `ledger` file, flock and rename | reserve, complete, mark unknown, abort, reconcile (three phases), recovery | approval queue; connectors around an external action |
| browser operator, `browser_operator.py`, `accounts.py` | a flock per profile, takeover record and signal file | one guarded action; pause, resume, cancel a takeover | approval queue, ledger |
| workflow, orchestration, `workflow.py`, `orchestration.py` | one JSON file per workflow or orchestration, *no lock, rewritten in place* | start, advance, review, verify; preview, confirm, dispatch | approval queue |
| skill library, `skills.py`, `external_skills.py` | a directory per skill: quarantine, drafts, trusted | draft, generate, import, accept, evaluate, revise, promote | approval queue, gateway |
| MCP registry, `mcp.py` | `mcp-servers.json`, *no lock* | register, trust, discover, allow, call | approval queue, external servers |
| runtime, `runtime.py` | task queue, resource locks, emergency stop, each under a flock | enqueue, transition, recover, lock, kill switch, resume; drain | all workers, approval queue |
| schedule and lessons, `hermes.py`, `learning.py` | schedule file (*no lock*), lesson library (flock) | schedule, unschedule, run due; export, import, delete | approval queue |
| execution governor, `execution.py` | one JSON record per execution, atomic rename, *no lock for most calls* | plan, claim, dispatch, record result, recover, reconcile handoffs | tickets, adapters, supervisor |
| adapters, `adapters.py` | handoff packages, `executions.lock` | handoff transaction, submit result | governor |
| worker runs, `jcode.py`, `worker_router.py`, `sandbox.py` | consent file, path locks, a sandbox per thread | opt in, parallel run, single run, plan and execute a route | threads of its own, the project's files |
| supervisor and daemon, `supervisor.py` | tickets, `state.json`, `supervisor.lock`; drain coordinator in memory | cycle, daemon loop | governor, ticket workers, stop |
| ticket workers, `executor_worker.py` | ticket files | list, execute, mark | governor, gateway |
| brain store, service, `service.py` | the directory `.agent` itself, backups, schema version, service lock | backup, restore, migrate; serve = reconcile handoffs, cycle, tickets | everything that writes below `.agent` |
| model calls, `gateway.py`, `budget.py`, `health.py`, `provider_capacity.py` | budget ledger (flock), health and capacity files (no lock) | reserve, call, settle, book errors and rate limits | ticket workers |
| the rest: vault, other worker bridges, council, maintenance, export, research, quality, command line | catalogues and reports | single-step updates | |

**What is hard.** *Concurrency*: governor calls load and save without a lock; ledger
reconciliation and handoffs are several steps with other processes in between; a
supervisor cycle writes tickets from stages it read earlier; workflows, skills, the MCP
registry and the schedule are rewritten from copies that may be stale; threads of a run end
in any order. *Crashes*: any process may die between two file operations, and many calls
spend an approval before they save what it was for. *Time*: approvals, reservations and leases expire while their
owner is at work; late results arrive. *Shutdown*: drain, emergency stop and the pool of
threads race with each other. *Liveness*: dead workers' leases must be taken back; pending
stages must be run.

**What makes each component correct.**

- Approvals: each used once, by the process that reserved it, before its expiry, for the
  scope that was approved.
- Ledger: no external action done twice under a key unless the key was given back; an
  unknown outcome leaves only through a reconciliation backed by a consumed approval.
- Governor: stages are decided in order, once each; only the primary review gives the
  verdict; one worker per stage; a late worker never decides over its successor; no lease
  stays for ever; a dispatched stage has its package.
- Daemon: a drain or a stop ends it with nothing running and nothing begun late; tickets
  never run ahead of executions; pending stages are run.
- Model calls: a day's budget is not exceeded by calls that keep to their estimates, however
  they fail, overlap or cross midnight; no reservation is lost or leaked.
- Clients of the queue: a workflow passes each gate with an approval of its own, passed
  reviews and a verification; nothing is handed off unconfirmed; a trusted skill is the text
  that was vetted; a server's command runs only when that registration was trusted; what an
  emergency stop cancelled stays cancelled; each scheduled task and exported lesson has its
  consent.
- Browser: a sensitive action has an approval of its own; a key given back saw no action; a
  human who took a profile over has it alone.
- Worker runs: threads work under their run's locks; a run without a stop condition has
  collected every good result; nothing runs in a project that was never opted in.
- Brain store: a whole brain is on disk, whatever crosses or dies.

Each hazard, with its line and the properties that watch it, is in `PROJECT.json`.

## 2. Modules

`OneTimeApproval`, `FallbackChain` and `DailyPurse` are abstract specifications. `ApprovalQueue`
implements the first, `ExecutionGovernor` the second, `ModelCalls` the third. Composition is
by shared state: `IdempotencyLedger` has `ApprovalQueue` by INSTANCE, sharing its variables;
`BrowserOperator` extends the ledger; `ApprovalGate` extends the queue, and `Lifecycle`,
`SkillLibrary`, `McpRegistry`, `RuntimeQueue` and `ConsentedRecords` extend that;
`ApprovalClients` extends these five and puts them to work on one queue.

The MC modules put components that share the queue, the ledger or the project into one
state space with a variable `focus`, chosen initially: a behaviour follows one component at
a time, and within a focus every process makes every call of it. For the clients of the
queue this loses nothing, which is proved: `MCApprovalQueue`'s steps are steps of
`ApprovalClients`, whose theorems are about any interleaving of all clients (section 5).

**ApprovalQueue** (`policy.py`). `status`, `scope`, `expires`, `token` are the fields of an
entry; `known` is which reservation tokens each process remembers, `minted` the tokens used
up. Each function takes the queue's flock from read to rewrite, so each is one action:
`RequestApproval`, `Approve`, `Reserve`, `Consume`, `MarkUnknown`. `ScopeFits` is
`_validate_approval_scope`: sensitive actions compare user, account and connector with the
defaults the code fills in, ordinary ones only where both sides name them; targets are
compared after `Canon` (URL canonicalisation and redaction: two spellings may be one page).
`Crash(p)` forgets a process's tokens, `Tick` is the clock. `holder` and `presented` are
history. A refused call changes nothing and is left out.

**IdempotencyLedger** (`connectors.py`). `entry[k]` is the ledger's record of key `k`; `op[p]`
is what a process is doing with which key. `Reserve`, `ReserveExpired`, `Refused`, `Complete`,
`MarkUnknown`, `AbortPreflight` are the calls, each under the flock and, except for the abort and the
last phase of a reconciliation, each *preceded by the recovery*, which is part of the action
(`Recovered`). `Act` is the external action; the connectors' calls to the network are
external. A reconciliation is `ReconcileCheck`, `ReconcileRecord`, `ReconcileConsume` or
`ReconcileRefused`, `ReconcileFinish`, with anything in between.

**ApprovalGate** (`policy.py` as its simplest clients use it). `AskFor` is the request by the
default user, `Spend` the consumption straight from approved, `Consumed(action, target)` the
approvals spent for something. A client's action is a conjunction of `Spend` and its own step.

**ApprovalClients** (all callers of `policy.py`). `ClientsNext` is one step of one client, with
the files of the others untouched: `ByWorkflow`, `ByOrchestration`, `BySkills`, `ByMcp`,
`ByRuntime`, `ByRecords`, and `ByOthers` for whoever uses the queue for other actions
(connectors, the browser, the command line). `GatePurposes`, `SkillPurposes`, `McpPurposes`,
`ResumePurpose`, `RecordPurposes` are the actions and targets each client asks for.

**Lifecycle** (`workflow.py`, `orchestration.py`). `flow`, `orch` are the record files,
`doing[p]` the call of a process with the copy it loaded. A call is `LoadFlow`, perhaps `PayGate`, and
`SaveFlow`; `Abandon` is an error or a death before the save, `TearFile` a death while the
file is rewritten. `orchestrate_confirm` is `LoadConfirm`, `RecordRequirement`,
`ConfirmStartsWorkflow`, `SaveOrch`; the dispatch likewise. `AssessProfile` and
`ProfileToRisk` are the classification, texts reduced to what it tells apart.

**SkillLibrary** (`skills.py`, `external_skills.py`). One name: `place` says what is in its
three directories, `job` which call each process is in. Texts are those inspection finds
nothing in, only warns about, or calls critical. `judged` and `byHand` are history: which text the
semantic evaluation was about, and whether the user edited it since. Calls overlap
(`MaxJobs`), and so does the user's editor; `mixed` is history too: `ActsOn` sets it when a
call acts on another skill than the one it had loaded. `ClearTrusted` is the removal file by file, which a `versions` directory makes raise half way (`Broken`).

**McpRegistry** (`mcp.py`). One server with one tool. Each registration is a number, and a
`session` holds the copy an operation loaded, so that a stale save brings an old registration
back. `vouched` and `ran` say which registrations an approval was spent on and whose command
was started. A tool's call is `LoadCall`, `CheckTool`, `PayCall` in write mode, `RunTool`.

**RuntimeQueue** (`runtime.py`). Each file is changed under its flock, so each change of a file is one
step: `EnqueueTask`, `UpdateTaskState` along `Transitions`, `RecoverTasks`, the locks. The
emergency stop is `SetStop` and `CancelAll`, its lifting `PayResume` and `LiftStop`.

**ConsentedRecords** (`hermes.py`, `learning.py`). `PaySchedule`, `LoadAdd`, `SaveSchedule` and the
other savers of the schedule, without a lock; `PayExport`, `ExportLesson`, `ImportLesson`,
`PayDelete`, `DeleteLesson` on the library, under its lock (`keeper`). `consent` is history.

**BrowserOperator** (`browser_operator.py`, `accounts.py`). A visit of a process goes through
`BeginVisit` (the key reserved), `OpenProfile`, `Start` (the approval reserved), `DoAct`,
`ConsumeVisit`, `CompleteVisit`; `FailPreflight` gives the key back, `FailVisit` and
`FailLedger` mark approval and key unknown, one after the other. `BeginAgain` is a visit to a
completed key, which acts again, without an owner token; `acts` books every act, with its
approval and its token, so that such a repetition is counted. `PauseForTakeover`, `EndTakeover`,
`LeaveTakeover` are the takeover and its signal file; `profile` is the flock.

**ExecutionGovernor** (`execution.py`, `adapters.py`, `executor_worker.py`). `disk` is the
saved record; a call is `Start...` (load and check; the changed record goes to `copy`) and
`End...` (save). `MaxOverlap` bounds the calls between the two; `base` is the record a call
loaded, and `lost` says whether a save has undone another call's update (`Overwrite`): both
are history. `job` is the stage and lease a worker
works under. A handoff is claim, dispatch, `WritePackage` or `PackageFails` and the
reverting steps, under `executions.lock`, which most calls do not take. A ticket worker's
check that the stage is pending and its claim are separate loads, so its claim may also take
over an expired one; an adapter that raises after the claim is `Crash`. A stage has one
package file, whatever the adapter's name. `Planned` is `plan_execution`'s choice of stages,
with the cap of six.

**WorkerRuns** (`jcode.py`, `worker_router.py`, `sandbox.py`). `team[c]` is a caller's run, `hand[c]` its
threads. `ScanLocks` and `WriteLock` are two steps; `Conflicts` says what the scan really
compares (the minute, and the slot in place of the run). `StartHand`, `FinishHand`,
`HandFails` are a thread; `touched` is what the worker changed and `shown` what the diff
says. `Collect`, `GlobalTimeout`, `Return`, `Raise` are the main thread. `JcodeRun`,
`PlanRoute` and `ExecuteRoute` run one worker without locks. Files are sequences of
components, so that a package may own a directory.

**BrainStore** (`service.py`). The directory `.agent` has an identity, which its locks keep
when it is moved. A restore is `StartRestore`, `MoveAside`, `MoveIn`, `DropOld`, with
`MoveFails` and the rollback; a migration backs up, applies, saves its version, or restores.
`Recreated` is anybody who writes below `.agent` and makes the directory on the way.

**SupervisorDaemon** (`supervisor.py`, `executor_worker.py`, `runtime.py`). An execution is
reduced to its current stage, a governor call to one step. `BeginCycle`, `Inspect(e)`,
`WriteTicket` and `EndCycle` are `supervisor_run_once`: recovery and the read of a stage are
one step, the write of its ticket the next. The emergency stop and the lock are looked at in
one step; the cycle goes on if the stop is set later, as in the code. `pc` is the daemon's
place in its loop; `Submit`, `Collect` are the pool; `Check`, `Claim`, `RunAdapter`, `Mark`
are `execute_ticket`. `claim_execution_stage`'s own look at the stop is part of
`ClaimRefused`, which may happen at any time. `LeaveTop` to `Close` are the loop's exits;
`Die` is the process's death. `OthersCycle` and `Outsiders` are other processes: the service, or a person.

**ModelCalls** (`gateway.py`, `budget.py`, `provider_capacity.py`, `health.py`). `ledger` is the
day's budget file; every operation on it is one step under its flock, and a ledger of another
day counts as empty (`LedgerOf`). `capacity`, `temp` and `health` are files without a lock: their
loads, writes, renames and truncations are steps, and `temp` is the temporary name that all
processes share. `call[p]` is the place of a call in `complete_task_with_model` and the routes
that `complete_task_with_failover` has left. `Answered` and `RequestFails` are the provider;
`CapacityInvalid` is a capacity file that cannot be parsed;
`SettleUnknown` is an answer whose reservation the new day has swept away; `RenameFails` is a
temporary file that another process has renamed. `used`, `excess` and `orphans` are history.
The order of routes and the estimate are inputs; tokens and cost are budgeted alike and are
one amount; error counts beyond the limit are alike. `DailyPurse` is the abstract ledger.

## 3. Runs

| run | what it shows | bounds | states |
|---|---|---|---|
| `approvals` | the approval properties, the refinement of `OneTimeApproval`, and one property for each client of the queue | 2 approvals, 2 processes, clock of 2 values; 5 scopes: sensitive and ordinary, two spellings of a page, a missing user or account; clients: 2 workflows, 1 orchestration, 3 skill texts and 1 revision, 2 registrations, 2 tasks, 2 keys and 2 stops, 2 scheduled tasks, 1 lesson and 2 records; 2 calls of the skill library at a time | 644 000 |
| `ledger` | an owner acts again only after the key was given back, a visit only where the key is completed; one owner, reconciliations backed by approvals, crashes lose none; browser actions accounted for, takeovers exclusive | 2 keys, 2 approvals, 2 processes, 2 reservations, TTL 1 on a clock of 2 values; in the browser one profile | 1 695 000 |
| `ledger_reconciliation_lost` | violation: a live reconciler is rolled back by another process's recovery | same | |
| `ledger_approval_reused` | violation: one approval settles two keys | same | |
| `governor` | order, verdict, exclusive claims, late results, packages, refinement of `FallbackChain`; worker runs; brain store | 2 workers, 1 keeper, 3 leases, plans of 1 stage, of all kinds and one route too many, and with a task that mentions the review; 2 overlapping calls (`MaxOverlap` 2) until an update is lost or a third lease drawn; 2 callers, 2 runs of 1 or 2 packages, 2 minutes; 2 processes and 3 directories | 1 265 000 |
| `governor_leases_settle` | every lease settles | 2 leases, 1 execution, `MaxOverlap` 1 | |
| `governor_double_claim` | violation: two overlapping claims both succeed | `MaxOverlap` 2 | |
| `worker_scope` | violation: a change out of scope is reported valid | 1 caller, a git work tree | |
| `daemon` | safety of the daemon | one execution of 2 ordinary stages and the review, 2 threads, 1 outside worker, 1 outside cycle | |
| `daemon_ends` | drain and stop end it; a pending stage is run | 1 ordinary stage, 2 threads, 1 outside worker | |
| `daemon_starved` | violation: unready tickets starve another execution's stage | 2 executions, 1 thread | |
| `model_calls` | the budget holds in what providers really used; reservations are neither lost nor leaked; refinement of `DailyPurse` | 2 processes (symmetric), 2 routes of 2 providers, one estimated too low and one too high, 3 reservations, 2 days | |

*Why these bounds.* Interference needs two processes, and the worst interleavings of the
approval and ledger protocols involve two approvals, or two keys, and one other process;
three reservations or leases give a first owner, a successor and one more. A clock of two
values makes everything expire between any two steps. Two approvals let one be spent and
another refused, two registrations make a stale save bring back a server that was replaced.
The daemon needs two threads so that one may fail while the other runs, and an outside
worker that takes the same ticket; a JCode run likewise. The constants that bound the search
are `MaxTime`, `MaxReservations`, `MaxLeases`, `MaxCalls`, `MaxOverlap`, `MaxJobs`, `MaxVersion`,
`MaxRegistrations`, `MaxStops`, `MaxFailures`, `MaxRuns`, `MaxMinute`, `MaxDirs`; runs that
bound them stop at the bound, which is why those switch deadlock checking off. The daemon's
runs have no such bound and check deadlock.

The MC modules add bounds of their own, each a named conjunct. `MCApprovalQueue`: one
workflow when it is started by hand (`OneWorkflow`; an orchestration may start two); one
unspent approval and one hand-edited text at a time while skills are handled
(`OneOutstanding`, `OneEdited`); a second call of the library begins beside a first one only
where a single skill is all there is, which nobody edits by hand while both last, nor is an
approval asked for then; and a behaviour ends where a call acts on another skill than it
loaded (`OneOverlap`).
`MCIdempotencyLedger`: in the browser, one of the keys is visited, sensitive or not, one
approval expires and one does not, and the profile is taken over once (`OneKey`, `OneTakeover`).
`MCExecutionGovernor`: governor calls overlap until one loses an update, as long as two
leases at most are drawn (`LateCallsAlone`); one parallel run works while another may scan and lock
(`OneTeamWorks`); a thread's result has one thing wrong with it (`OneFault`); the opt-in is
revoked when somebody will look at it again (`RevokeMatters`); a change is shown as it was
made, or is the user's (`OneHand`); the project is a git work tree in the foci where the
difference matters, `routes` and `scope`.

*Calls without a lock.* Neither the governor nor the skill library locks a record between
load and save, so calls overlap, and what the code then keeps is less than what it keeps of
calls one after the other. The properties say where the line is. For the governor it is
`lost`, a save that undoes another call's update: claims are exclusive, late results do not
decide, dispatched stages have their package and the fallback chain is implemented *until
then*, through every overlap that loses nothing; order and verdict of the stages hold beyond
it. `ExclusiveUnlessLost` says that nothing but a lost update can let two claims stand
together, and `governor_double_claim` that a lost update does. For the skill library the line
is `mixed`, a call that acts on another skill than the one it loaded: until then a trusted
skill is vetted. Beyond it TLC refutes `Vetted`: a promotion that looked at a generated draft
before its generation record was written moves it, with the record, into the trusted library,
neither evaluated nor approved. Nothing in the code says that the library has a lock, so this
is a hazard and not a finding.

*Leases settle* in a system of one execution, whose calls do not overlap. The supervisor
recovers the first hundred executions of a listing (`supervisor.py:199`): the claim is about
those. A save that undoes another's may bring back a lease that had settled; the next
recovery finds it, but nothing bounds how often that happens, and there is no run for it.

*Fairness.* Leases expire; a call that has begun ends; the supervisor's recovery, which is
repeated by daemon, service or cron, is not interrupted every time (strong fairness). For
the daemon: the operating system runs the daemon, the cycle and every worker (weak), and a
claim that is due time and again is not refused by provider health or capacity every time
(strong). No person, no executor's report, no start of a process is assumed.

*Liveness of pending stages.* `PendingStageRuns` holds when the pool is as large as the
tickets (`daemon_ends`) and fails when it is smaller (`daemon_starved`): the listing takes
the first ready files of a directory, and files whose stage cannot be taken stay ready.

## 4. What was found

1. *A reconciliation can be lost without a crash* (`connectors.py:656` promises otherwise).
   The recovery cannot tell a crashed reconciler from one between its phases.
2. *One approval settles two keys*: the recovery looks only at whether the approval named in
   the record is consumed, not for which key.
3. *Two workers can claim a stage* (`execution.py:622` says refused): load and save take no
   lock.
4. *Tickets starve*: see above.
5. *Scope validation of JCode looks at the wrong directory* (`jcode.py:523`): in a git work
   tree the diff is that of the project, not of the sandbox, so what JCode changed is never
   validated.

The counterexamples are the violation runs; each finding is quoted with its lines in
`PROJECT.json`.

While modelling, behaviour was met that no text of the repository contradicts. It is in the
models, and the properties are stated so that they hold with it:

- Workflows: the profile `standard` is turned into risk `low`, so an orchestrated standard
  task becomes a `fast` workflow without reviews. A stale save may undo a completion.
- Skills: a crash between the creation of a generated draft and its generation record leaves
  a draft that needs neither evaluation nor approval; a revision that dies after archiving
  makes later ones raise; promoting over a skill that has a `versions` directory raises,
  sometimes with the old files gone.
- MCP: an approval of trust names the server and not its command; the schema is checked in
  one session and the tool called in another.
- Runtime: a resumption may lift a stop that was triggered after its approval was spent;
  tasks may be queued while stopped; a lock has no owner.
- Hermes and lessons: a due run's save undoes an unscheduling; an export spends its approval
  before it finds that the lesson is there already.
- Browser: a locked profile leaves the key reserved, and its expiry makes it an unknown
  outcome although nothing happened; an action on a completed key acts again.
- JCode: path locks are stale when the minute is over; workers of different runs with the
  same slot never conflict; an unexpected error leaves the locks; a route opts in again
  after a revocation.
- Brain store: a crash in the middle of a restore leaves the brain in `.agent_old_*` only;
  a directory recreated meanwhile has the restored brain nested in it; a restore replaces
  the directory in which a running service holds its lock, so that a second may start.

## 5. Proofs

TLAPS checks these for every value of the constants that meets the modules' ASSUMEs: any
number of processes, requests, keys, stages, tasks, files. Every invariant and every action
property of a passing run is stated by a theorem. Type correctness is proved for each
module, and is a property of the first run only.

`ApprovalQueueProofs`: type correctness; `IInv` says that tokens differ and are in use
exactly while an entry is reserved or settled, that only the reserver knows a token, and
that the scope presented fitted the scope approved. It is inductive, and gives
`TokenIsPrivate`, `GrantIsExact`, `HolderSettles`, `NoExpiredGrant`, and step simulation of
`OneTimeApproval` (`Refinement`). Privacy alone is not inductive: a `Crash` or a second
reservation needs tokens to be distinct.

`ClientProofs`: the clients of the queue. `GateInv(purposes)` is what a client needs of it:
the queue is well formed, and what was asked for one of the client's actions is one of its
purposes. Whatever is consumed stays consumed, for the action and target it was asked for,
so the approvals spent on a purpose only ever grow (`SpendGrows`), one at a time
(`OneMore`). On top of it each client has an invariant over its file *and the copies its
calls hold*, since a stale copy may be saved at any time: `McpIInv` (a registration that is
trusted, in the file or in the copy of a session, was vouched for; approvals are no fewer
than registrations vouched for, nor than writes run or paid for), `RuntimeIInv`,
`RecordIInv`, `FlowIInv` and `LifeIInv` (a record behind a gate has the approval of that
gate; an orchestration that a call holds has the confirmation and the workflow its risk asks
for), `SkillIInv` (what a call found when it loaded or paid, which no other call can
change; and, until a call acts on another skill than it loaded, that a draft tells the truth
about its own vetting). They give `RunsAreVouchedFor`, `StopsHold`, `RecordsAreConsented`,
`GatesEarned`, `HandoffWasConfirmed` and `TrustedIsVetted`, for any number of overlapping
calls.

Then all clients together (`ClientsSpec`). They have no action in common (`ActionsDiffer`),
so a step of one is, for another, a call of the queue about somebody else's entries
(`OthersCalls`), which `GateInv` survives (`OthersKeepGate`) and so does the rest of the
invariant (`AsideKeeps` and the `...IdleMove` lemmas). Hence the promises of each client
hold among all the others (`ClientsKeepTheirPromises`, `ClientsTrustTheVetted`,
`ClientsTypeCorrect`). A step of any client is a step of the queue or leaves it alone
(`ClientsAreQueue`), so the theorems about `Spec` of `ApprovalQueue` are theorems about the
composition, the refinement among them (`ClientsImplementOneTimeApproval`).

`IdempotencyLedgerProofs`: `IInv` relates entries to the processes at work: every action
done is under a token that was given out (`EffectsKnown`), an entry that is free again has
had its token released (`FreeIsReleased`), an owner's token is its key's or was superseded
(`OwnersKnown`). It gives `RepeatOnlyAfterRelease` (the part of `RepeatsAreAccounted` that is
about owners' tokens), `OneOwner`, `CompletedIsFinal`,
`SettledWithApproval`; `LossInv`, which follows a reconciliation through its phases, gives
`CrashLosesNoReconciliation`. The lemma for each operation starts from what the recovery
does (`RecoveredEntry`, `RecoveryKeepsHistory`), since it is part of each.

`BrowserOperatorProofs`, over `BrowserSpec`: visits, takeovers and, as in the code, the
reconcilers of the same ledger (`Reconciling`; the run leaves them to the focus on the
ledger). Every step is a step of the ledger, of the queue, or of neither (`LedgerOrQueue`),
which carries the ledger's properties over. `PageInv` gives `TakeoverIsExclusive`;
`VisitInv` says that a visit in progress owns its key and gives `AbortedDidNothing`;
`ActsInv` ties each sensitive act to its approval and gives `SensitiveActsAccounted`;
`RepeatInv` says that a visit without an owner token is to a completed key (`VisitsAgain`)
and that each act under a token is the only one under it (`ActsBooked`), and gives
`RepeatsAreAccounted`.

`ExecutionGovernorProofs`, for any `MaxOverlap`. `GovInv` holds the record on disk *and
every copy a call has loaded* to `Sound` (order of decided stages, verdict by the last
review) and gives type correctness and `StagesInOrder`, lost updates included. `GovIInv` lasts
until an update is lost. It says of each call what its copy may differ in from the record it
loaded (`Between`), whatever the others do meanwhile, and how leases, holders, handoff lock
and package belong together (`LeasesOK`, `HeldOK`, `LockOK`, `SoleOK`, `Packaged`). A save
either finds the record its call loaded, and then makes exactly the change `Between` speaks
of, or it loses an update (`OnlyCallsSave`); so `lost \/ GovIInv` is inductive
(`UnlessLostStep`). It gives `ExclusiveUnlessLost`, `LatestLeaseDecides`,
`DispatchedHasPackage` and the refinement of `FallbackChain`.

`WorkerProofs`. The store: `StoreIInv`, of which the heart is that some directory on disk
holds a whole brain at each point of a restore or a migration, gives `BrainIsKept`. Worker
runs: `CallerOK` relates a run to its locks, threads and result (`MineOK`, `ThreadsOK`,
`LockingOK`, `WorkingOK`, `CollectedOK`); it gives type correctness, `RunsEndSettled` and
`NeverUnasked`.

`SupervisorDaemonProofs`: for any executions, stages, threads and outside workers. `TypeInv`
adds to the types that only ordinary stages are taken; `LoopShape` says where in its loop
the daemon may have threads, listed tickets or a cycle, and gives `ExitIsQuiet`; `LateShape`
adds that the one late start is not followed by another, and gives `DrainBound`; `Accounted`
is inductive on top of these (a finite set of busy threads gains or loses one);
`MarkedHasMoved` needs `RecordedHasMoved`, what a worker holds between recording an outcome
and marking its ticket, and that a stage which has moved stays moved (`MovedStays`).

`ModelCallsProofs`: `IInv` says that a call has a reservation of its own exactly while it is
unsettled, that nothing is dated ahead of the clock and that a call not yet settled is not
marked good; with it `ReservationStands` and `NothingLeaks` are inductive. Dates matter: a
tick must not bring an old ledger back into force.

The budget is about sums over the processes. What a sum does when one summand changes
(`SumChanges`, `SumExtends`, `SumGrows`) is an induction over subsets; it is done with sets,
the least element of the set of counterexamples (`NatSteps`, `SubsetSteps`), which needs no
theorem with an operator parameter. Every step of a call is one of six kinds (`Moved`): it
touches no money, draws an identifier, books usage, finds its reservation swept away,
charges it, or makes one. `BudgetInv` adds to `IInv` the balance of the day (`Balanced`:
spent and held on one side; used, still due and used beyond estimates on the other) and that
a reservation is in the ledger just on its own day, with its route's estimate (`Backed`). It
gives `DayWithinLimit`, type correctness, and the refinement of `DailyPurse`: a tick past
the day is a new day, `Reserved` sets aside, `Charged` settles.

*Assumed*, each in the module that declares the constants and evaluated by TLC: bounds are
naturals and choices are made from the types the code has (`TimeAssumption`,
`LedgerAssumption`, `StopAssumption`, `RegistrationAssumption`, `FailureAssumption`,
`GovernorAssumption`, `WorkerAssumption`, `RouteAssumption`, `BoundAssumption`,
`ListAssumption`); model values that stand for "none" are no data (`ProcAssumption`,
`ScopeAssumption`, `SentinelAssumption`, `NoRecordAssumption`, `SkillAssumption`,
`StoreAssumption`, `BrowserAssumption`); the scopes that calls present are scopes
(`CallAssumption`, `ClientAssumption`); workflows and lessons are named by identifiers,
which redaction keeps apart, and records of lessons are not scheduled tasks
(`LifeAssumption`, `RecordAssumption`); the sets of processes, threads or workers whose
members are counted are finite (`ProcAssumption` of `ModelCalls`, `SupervisorAssumption`);
amounts are naturals (`AmountAssumption`). No theorem has a hypothesis of its own about the
constants: how many calls overlap is a parameter everywhere.

*Only model-checked*: liveness (`EveryLeaseSettles`, `DrainEnds`, `StopEndsWork`,
`PendingStageRuns`), for which the prover has no rules. Not proved because false: the
governor's exclusive claims and `Vetted` beyond the line that section 3 draws, and the other
properties of the violation runs.

## 6. Plan

Done in this order because approvals and the ledger guard side effects outside the machine,
the governor guards the verdict, and the daemon drives both.

1. Done, checked and proved: `OneTimeApproval`, `ApprovalQueue`, `IdempotencyLedger`,
   `BrowserOperator`, `SupervisorDaemon`, `DailyPurse`, `ModelCalls`, `FallbackChain`,
   `ExecutionGovernor`, `WorkerRuns`, `BrainStore`, and the clients `Lifecycle`, `SkillLibrary`,
   `McpRegistry`, `RuntimeQueue`, `ConsentedRecords` with their composition `ApprovalClients`.
2. Every safety property of a passing run is now stated by a theorem.
3. Next: what of the leases is kept after a lost update, beyond order and verdict; the
   parallel run's locks as an invariant of their own; maintenance's runner and the JCode handoff file that all workers of a project share.

## 7. Not modelled

File formats, wording, logs and journeys. The atomicity of a single rename is taken from
the operating system; writes of one file through a shared temporary name
(`supervisor.py:84`) are one step. The policy file's allow list, model policy, URL
canonicalisation and secret redaction are given as constants or left out. The connectors'
network calls, the page automation of the browser, MCP servers, JCode, Aider and the
adapters' tools are external actions with any outcome; what a model answers is an input.

`maintenance.py` runs its jobs under a runner lock; a job added at the same time, without
that lock, is lost to the runner's save. It is listed as not modelled, and so are Aider's and
FreeBuff's handoffs, the council (several model calls and a report), research, export,
evaluation, coding and creative helpers, and the command line, which keep no state that two
of their operations disagree about. Installation of the service and log rotation are
operating-system commands and single renames. Shutdown hooks of the drain coordinator serve
callers outside the daemon.
