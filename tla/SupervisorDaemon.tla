--------------------------- MODULE SupervisorDaemon ---------------------------
(***************************************************************************)
(* The supervisor's cycle (supervisor.py), the daemon that repeats it and  *)
(* runs ready tickets in a pool of threads, the ticket workers             *)
(* (executor_worker.py), graceful drain and the emergency stop             *)
(* (runtime.py).  Beside the daemon there is another process: a person's   *)
(* commands or the service, with cycles and ticket runs of its own.        *)
(*                                                                         *)
(* Of an execution only its current stage is kept; what a governor call    *)
(* does to the record is the subject of ExecutionGovernor, and each call   *)
(* is one step here.  A cycle is not: it inspects one execution at a time, *)
(* and writes a ticket after it has read the stage.                        *)
(***************************************************************************)
EXTENDS Integers, FiniteSets

CONSTANTS
  Execs,
  Ordinary,    \* execution -> its ordinary stages; the primary review follows
  ExecRank,    \* execution -> its place in the list of executions
  TicketRank,  \* ticket -> its place in the tickets' directory
  LongTasks,   \* executions whose task is longer than a ticket's 500 characters
  MaxItems,    \* executions a cycle looks at
  Bounded,     \* the daemon was given a number of cycles
  InspectMore, \* files looked at per ticket wanted
  Threads,     \* the daemon's pool, as many as the tickets it lists
  Outsiders,   \* workers of other processes
  Daemon, Other, NoProc, None

Workers == Threads \cup Outsiders
Runners == {Daemon, Other}
Stages(e) == 1 .. Ordinary[e] + 1
Tickets == UNION {{<<e, i>> : i \in Stages(e)} : e \in Execs}

ASSUME SupervisorAssumption ==
  /\ Ordinary \in [Execs -> Nat \ {0}]
  /\ ExecRank \in [Execs -> Nat] /\ TicketRank \in [Tickets -> Nat]
  /\ LongTasks \subseteq Execs
  /\ MaxItems \in Nat \ {0} /\ InspectMore \in Nat \ {0} /\ Bounded \in BOOLEAN
  /\ Threads \cap Outsiders = {} /\ IsFiniteSet(Threads) /\ Threads # {}
  /\ Daemon # Other /\ NoProc \notin Workers \cup Runners /\ None \notin Tickets

VARIABLES
  current,   \* execution -> its current stage: index, state, lease holder, over
  ticket,    \* ticket -> the state in its file
  stop,      \* the persistent emergency stop
  cycle,     \* who holds supervisor.lock
  todo,      \* executions the running cycle has still to inspect
  noted,     \* the ticket it is about to write
  pc,        \* where the daemon's loop is
  drain,     \* a drain was requested
  found,     \* tickets listed and not yet submitted
  inflight,  \* the coordinator's count
  work,      \* worker -> what it does with which ticket
  late       \* history: cycles and submissions begun after the drain request

executions == <<current, ticket>>
loop       == <<pc, drain, found, inflight, late>>
scan       == <<cycle, todo, noted>>
vars       == <<executions, stop, scan, loop, work>>

-----------------------------------------------------------------------------

TicketStates == {"none", "ready", "dispatched", "processed", "awaiting_primary_review"}
Steps        == {"exited", "top", "cycle", "cycled", "submit", "submitting", "collect", "after",
                 "closing"}
Places       == {"idle", "queued", "checked", "running", "recorded", "done"}
Outcomes     == {"none", "dispatched", "processed"}

Stage(i)  == [i |-> i, st |-> "pending", holder |-> NoProc, over |-> FALSE]
Job(p, t) == [at |-> p, ticket |-> t, out |-> "none"]
Idle      == Job("idle", None)

IsOrdinary(t) == t[2] <= Ordinary[t[1]]
Pending(t)    == current[t[1]].i = t[2] /\ current[t[1]].st = "pending"

Init ==
  /\ current  = [e \in Execs |-> Stage(1)]
  /\ ticket   = [t \in Tickets |-> "none"]
  /\ stop     = FALSE
  /\ cycle    = NoProc /\ todo = {} /\ noted = None
  /\ pc       = "exited" /\ drain = FALSE /\ found = {} /\ inflight = 0 /\ late = 0
  /\ work     = [w \in Workers |-> Idle]

-----------------------------------------------------------------------------
(* Executions, as other processes and time change them.                    *)

\* An adapter's handoff takes a pending stage; its ticket is not looked at.
HandOff(e) ==
  /\ Pending(<<e, current[e].i>>) /\ current[e].i <= Ordinary[e]
  /\ ~stop
  /\ current' = [current EXCEPT ![e].st = "dispatched"]
  /\ UNCHANGED <<ticket, stop, scan, loop, work>>

\* A dispatched stage's result: the next stage, or the review at once.
Report(e) ==
  /\ current[e].st = "dispatched"
  /\ \E i \in {current[e].i + 1, Ordinary[e] + 1} : current' = [current EXCEPT ![e] = Stage(i)]
  /\ UNCHANGED <<ticket, stop, scan, loop, work>>

Expire(e) ==
  /\ current[e].st \in {"claimed", "dispatched"} /\ ~current[e].over
  /\ current' = [current EXCEPT ![e].over = TRUE]
  /\ UNCHANGED <<ticket, stop, scan, loop, work>>

KillSwitch ==
  /\ ~stop /\ stop' = TRUE
  /\ UNCHANGED <<executions, scan, loop, work>>

Resume ==
  /\ stop /\ stop' = FALSE
  /\ UNCHANGED <<executions, scan, loop, work>>

-----------------------------------------------------------------------------
(* The cycle, under supervisor.lock.                                       *)

\* Mutant: the emergency stop is not seen.
NeverHalted == FALSE

Halted == stop

\* The executions it looks at: the first of the list, finished ones included.
Inspected == {e \in Execs : Cardinality({d \in Execs : ExecRank[d] < ExecRank[e]}) < MaxItems}

BeginCycle(c) ==
  /\ cycle = NoProc /\ ~Halted
  /\ cycle' = c /\ todo' = Inspected

OthersCycle ==
  /\ BeginCycle(Other)
  /\ UNCHANGED <<executions, stop, noted, loop, work>>

\* Recovery, then the stage is read: a ticket is due when it is pending.
Recovered(s) ==
  IF s.over /\ s.st = "claimed" THEN Stage(s.i)
  ELSE IF s.over /\ s.st = "dispatched" THEN Stage(s.i + 1)
  ELSE s

Inspect(e) ==
  /\ cycle # NoProc /\ e \in todo /\ noted = None
  /\ todo' = todo \ {e}
  /\ current' = [current EXCEPT ![e] = Recovered(@)]
  /\ noted' = LET s == Recovered(current[e]) IN IF s.st = "pending" THEN <<e, s.i>> ELSE None
  /\ UNCHANGED <<ticket, stop, cycle, loop, work>>

\* Mutant: the last ordinary stage is taken for the review.
TicketStateShort(t) == IF t[2] < Ordinary[t[1]] THEN "ready" ELSE "awaiting_primary_review"

TicketState(t) == IF IsOrdinary(t) THEN "ready" ELSE "awaiting_primary_review"

\* Whatever the file says by now is overwritten.
WriteTicket ==
  /\ noted # None
  /\ ticket' = [ticket EXCEPT ![noted] = TicketState(noted)]
  /\ noted' = None
  /\ UNCHANGED <<current, stop, cycle, todo, loop, work>>

EndCycle ==
  /\ cycle # NoProc /\ todo = {} /\ noted = None
  /\ cycle' = NoProc
  /\ pc' = IF cycle = Daemon THEN "cycled" ELSE pc
  /\ UNCHANGED <<executions, stop, todo, noted, drain, found, inflight, work, late>>

-----------------------------------------------------------------------------
(* The daemon's loop.                                                      *)

Goto(p) == pc' = p

Start ==
  /\ pc = "exited"
  /\ Goto("top") /\ drain' = FALSE /\ inflight' = 0 /\ late' = 0
  /\ UNCHANGED <<executions, stop, scan, found, work>>

\* SIGTERM or SIGINT: the handler requests a drain, however often.
Signal ==
  /\ pc # "exited" /\ ~drain
  /\ drain' = TRUE
  /\ UNCHANGED <<executions, stop, scan, pc, found, inflight, late, work>>

CountLate == late' = IF drain /\ late < 2 THEN late + 1 ELSE late

\* Mutant: the loop does not look at a requested drain.
GoesOnWhileAwake == ~Halted

GoesOn == ~drain /\ ~Halted

\* The checks at the top of the loop; the last is the bound on cycles.  A
\* stop seen here requests the drain itself.
LeaveTop ==
  /\ pc = "top" /\ (~GoesOn \/ Bounded)
  /\ Goto("closing")
  /\ drain' = (drain \/ Halted)
  /\ UNCHANGED <<executions, stop, scan, found, inflight, late, work>>

EnterCycle ==
  /\ pc = "top" /\ GoesOn
  /\ Goto("cycle")
  /\ UNCHANGED <<executions, stop, scan, drain, found, inflight, late, work>>

DaemonsCycle ==
  /\ pc = "cycle" /\ cycle # Daemon
  /\ BeginCycle(Daemon)
  /\ CountLate
  /\ UNCHANGED <<executions, stop, noted, pc, drain, found, inflight, work>>

\* A stop set meanwhile, or another process's cycle, is an exception that
\* ends the daemon.
CycleRefused ==
  /\ pc = "cycle" /\ cycle # Daemon
  /\ Halted \/ cycle # NoProc
  /\ Goto("closing")
  /\ UNCHANGED <<executions, stop, scan, drain, found, inflight, late, work>>

\* Tickets listed: ready ones from the front of the directory, at most one
\* per thread, and only so many files are opened.
Before(t) == {u \in Tickets : ticket[u] # "none" /\ TicketRank[u] < TicketRank[t]}

Listed ==
  {t \in Tickets :
     /\ ticket[t] = "ready"
     /\ Cardinality({u \in Before(t) : ticket[u] = "ready"}) < Cardinality(Threads)
     /\ Cardinality(Before(t)) < InspectMore * Cardinality(Threads)}

ListTickets ==
  /\ pc = "cycled" /\ GoesOn
  /\ Goto("submit") /\ found' = Listed
  /\ UNCHANGED <<executions, stop, scan, drain, inflight, late, work>>

LeaveCycled ==
  /\ pc = "cycled" /\ ~GoesOn
  /\ Goto("closing")
  /\ UNCHANGED <<executions, stop, scan, drain, found, inflight, late, work>>

\* Mutant: the drain is not looked at between tickets.
MayGoOnBlindly == found # {} /\ ~Halted

MayGoOn == found # {} /\ GoesOn

NextTicket ==
  /\ pc = "submit" /\ MayGoOn
  /\ Goto("submitting")
  /\ UNCHANGED <<executions, stop, scan, drain, found, inflight, late, work>>

Submit(w, t) ==
  /\ pc = "submitting" /\ t \in found
  /\ work[w] = Idle
  /\ work' = [work EXCEPT ![w] = Job("queued", t)]
  /\ inflight' = inflight + 1
  /\ found' = found \ {t}
  /\ CountLate
  /\ Goto("submit")
  /\ UNCHANGED <<executions, stop, scan, drain>>

NoMoreTickets ==
  /\ pc = "submit" /\ ~MayGoOn
  /\ Goto("collect") /\ found' = {}
  /\ UNCHANGED <<executions, stop, scan, drain, inflight, late, work>>

\* Mutant: a worker that failed is not counted off.
CountOffIfMarked(n, w) == IF work[w].out = "none" THEN n ELSE n - 1

CountOff(n, w) == IF n > 0 THEN n - 1 ELSE 0

Collect(w) ==
  /\ pc = "collect" /\ work[w].at = "done"
  /\ work' = [work EXCEPT ![w] = Idle]
  /\ inflight' = CountOff(inflight, w)
  /\ UNCHANGED <<executions, stop, scan, pc, drain, found, late>>

\* Mutant: the futures are not waited for.
CollectedAnyway ==
  /\ pc = "collect"
  /\ Goto("after")
  /\ UNCHANGED <<executions, stop, scan, drain, found, inflight, late, work>>

Collected ==
  /\ pc = "collect" /\ \A w \in Threads : work[w] = Idle
  /\ Goto("after")
  /\ UNCHANGED <<executions, stop, scan, drain, found, inflight, late, work>>

\* Drained, stopped or done; or else it sleeps and goes round.
LeaveAfter ==
  /\ pc = "after" /\ (~GoesOn \/ Bounded)
  /\ Goto("closing")
  /\ UNCHANGED <<executions, stop, scan, drain, found, inflight, late, work>>

GoRound ==
  /\ pc = "after" /\ GoesOn
  /\ Goto("top")
  /\ UNCHANGED <<executions, stop, scan, drain, found, inflight, late, work>>

\* The pool waits for its threads, and the coordinator for its count.
Quiet == \A w \in Threads : work[w].at \in {"idle", "done"}

Close ==
  /\ pc = "closing" /\ Quiet
  /\ Goto("exited")
  /\ UNCHANGED <<executions, stop, scan, drain, found, inflight, late, work>>

\* The process dies, and its threads and its lock with it.
Die ==
  /\ pc # "exited"
  /\ Goto("exited") /\ found' = {} /\ inflight' = 0
  /\ work' = [w \in Workers |-> IF w \in Threads THEN Idle ELSE work[w]]
  /\ IF cycle = Daemon THEN cycle' = NoProc /\ todo' = {} /\ noted' = None ELSE UNCHANGED scan
  /\ UNCHANGED <<executions, stop, drain, late>>

-----------------------------------------------------------------------------
(* A ticket worker.                                                        *)

At(w, p)   == work' = [work EXCEPT ![w].at = p]
\* A thread's outcome waits to be collected; another process goes its way.
Finish(w)  == work' = [work EXCEPT ![w] = IF w \in Threads THEN [@ EXCEPT !.at = "done"] ELSE Idle]

Take(w, t) ==
  /\ w \in Outsiders /\ work[w] = Idle
  /\ ticket[t] = "ready"
  /\ work' = [work EXCEPT ![w] = Job("queued", t)]
  /\ UNCHANGED <<executions, stop, scan, loop>>

\* execute_ticket: the ticket must be that of the current, pending stage.
Matches(t) == Pending(t) /\ t[1] \notin LongTasks

Check(w) ==
  /\ work[w].at = "queued"
  /\ IF ~Halted /\ Matches(work[w].ticket) THEN At(w, "checked") ELSE Finish(w)
  /\ UNCHANGED <<executions, stop, scan, loop>>

MayClaim(t) == Pending(t) \/ (current[t[1]].i = t[2] /\ current[t[1]].st = "claimed" /\ current[t[1]].over)

Claim(w) ==
  /\ work[w].at = "checked" /\ MayClaim(work[w].ticket)
  /\ LET e == work[w].ticket[1] IN
     current' = [current EXCEPT ![e].st = "claimed", ![e].holder = w, ![e].over = FALSE]
  /\ At(w, "running")
  /\ UNCHANGED <<ticket, stop, scan, loop>>

\* The claim looks at the stop once more; or somebody else has the stage, or
\* the provider is unhealthy or out of capacity.
ClaimRefused(w) ==
  /\ work[w].at = "checked"
  /\ Finish(w)
  /\ UNCHANGED <<executions, stop, scan, loop>>

Holds(w) ==
  LET s == current[work[w].ticket[1]] IN s.i = work[w].ticket[2] /\ s.st = "claimed" /\ s.holder = w

\* The adapter has run: the stage is dispatched, or failed and the next is due.
RunAdapter(w, out) ==
  /\ work[w].at = "running"
  /\ LET e == work[w].ticket[1] IN
     IF Holds(w)
       THEN /\ current' = [current EXCEPT ![e] = IF out = "dispatched"
                             THEN [@ EXCEPT !.st = "dispatched", !.holder = NoProc]
                             ELSE Stage(@.i + 1)]
            /\ work' = [work EXCEPT ![w].at = "recorded", ![w].out = out]
       ELSE Finish(w) /\ UNCHANGED current
  /\ UNCHANGED <<ticket, stop, scan, loop>>

\* An error the adapter does not catch, or an outsider's death: the claim
\* stays until it expires.
AdapterFails(w) ==
  /\ work[w].at \in {"running", "recorded"}
  /\ Finish(w)
  /\ UNCHANGED <<executions, stop, scan, loop>>

\* Mutant: the ticket is marked before the outcome is recorded.
MarkEarly(w) ==
  /\ work[w].at = "running"
  /\ ticket' = [ticket EXCEPT ![work[w].ticket] = "dispatched"]
  /\ UNCHANGED <<current, stop, scan, loop, work>>

\* _mark_ticket_processed, after the durable transition.
Mark(w) ==
  /\ work[w].at = "recorded"
  /\ ticket' = [ticket EXCEPT ![work[w].ticket] = work[w].out]
  /\ Finish(w)
  /\ UNCHANGED <<current, stop, scan, loop>>

-----------------------------------------------------------------------------

Next ==
  \/ \E e \in Execs : HandOff(e)
  \/ \E e \in Execs : Report(e)
  \/ \E e \in Execs : Expire(e)
  \/ KillSwitch
  \/ Resume
  \/ OthersCycle
  \/ \E e \in Execs : Inspect(e)
  \/ WriteTicket
  \/ EndCycle
  \/ Start
  \/ Signal
  \/ LeaveTop
  \/ EnterCycle
  \/ DaemonsCycle
  \/ CycleRefused
  \/ ListTickets
  \/ LeaveCycled
  \/ NextTicket
  \/ \E w \in Threads, t \in Tickets : Submit(w, t)
  \/ NoMoreTickets
  \/ \E w \in Threads : Collect(w)
  \/ Collected
  \/ LeaveAfter
  \/ GoRound
  \/ Close
  \/ Die
  \/ \E w \in Workers, t \in Tickets : Take(w, t)
  \/ \E w \in Workers : Check(w)
  \/ \E w \in Workers : Claim(w)
  \/ \E w \in Workers : ClaimRefused(w)
  \/ \E w \in Workers, out \in {"dispatched", "processed"} : RunAdapter(w, out)
  \/ \E w \in Workers : AdapterFails(w)
  \/ \E w \in Workers : Mark(w)

Spec == Init /\ [][Next]_vars

-----------------------------------------------------------------------------
(* Scheduling: the operating system runs the cycle, the daemon and every   *)
(* worker.  A claim that is due time and again is not refused every time.  *)
(* No person has to act, no process has to start, no executor to report.   *)

DaemonStep ==
  \/ LeaveTop \/ EnterCycle \/ DaemonsCycle \/ CycleRefused \/ ListTickets \/ LeaveCycled
  \/ NextTicket \/ (\E w \in Threads, t \in Tickets : Submit(w, t)) \/ NoMoreTickets
  \/ (\E w \in Threads : Collect(w)) \/ Collected \/ LeaveAfter \/ GoRound \/ Close

CycleStep == (\E e \in Execs : Inspect(e)) \/ WriteTicket \/ EndCycle

WorkerStep(w) ==
  \/ Check(w) \/ Claim(w) \/ ClaimRefused(w)
  \/ (\E out \in {"dispatched", "processed"} : RunAdapter(w, out)) \/ AdapterFails(w) \/ Mark(w)

Fairness ==
  /\ WF_vars(DaemonStep) /\ WF_vars(CycleStep)
  /\ \A w \in Workers : WF_vars(WorkerStep(w))
  /\ \A w \in Threads, t \in Tickets : SF_vars(Claim(w) /\ work[w].ticket = t)

FairSpec == Spec /\ Fairness

-----------------------------------------------------------------------------
(* Properties.                                                             *)

JobType == [at : Places, ticket : Tickets \cup {None}, out : Outcomes]

TypeOK ==
  /\ current \in [Execs -> [i : Nat \ {0}, st : {"pending", "claimed", "dispatched"},
                            holder : Workers \cup {NoProc}, over : BOOLEAN]]
  /\ \A e \in Execs : current[e].i \in Stages(e)
  /\ ticket \in [Tickets -> TicketStates]
  /\ stop \in BOOLEAN /\ cycle \in Runners \cup {NoProc}
  /\ todo \subseteq Execs /\ noted \in Tickets \cup {None}
  /\ pc \in Steps /\ drain \in BOOLEAN /\ found \subseteq Tickets
  /\ inflight \in Nat /\ late \in 0 .. 2
  /\ work \in [Workers -> JobType]
  /\ \A w \in Outsiders : work[w].at # "done"

\* The coordinator's count is the number of tickets given to the pool and not
\* yet collected, however they ended; is_drained goes by it.
Accounted == inflight = Cardinality({w \in Threads : work[w] # Idle})

\* A daemon that has returned has left no thread at work and no ticket
\* uncollected, by whichever of its exits it left.
ExitIsQuiet ==
  pc = "exited" => found = {} /\ cycle # Daemon /\ \A w \in Threads : work[w] = Idle

\* A ticket that says its stage was dispatched or processed never runs ahead
\* of the execution: the stage is dispatched, or behind the current one.
MarkedHasMoved ==
  \A t \in Tickets : ticket[t] \in {"dispatched", "processed"} =>
    \/ current[t[1]].i > t[2]
    \/ current[t[1]].i = t[2] /\ current[t[1]].st = "dispatched"

\* After a drain request at most the one cycle or ticket is begun that had
\* passed its check already.
DrainBound == late <= 1

\* A drain that was requested ends the daemon.
DrainEnds == (drain /\ pc # "exited") ~> (pc = "exited")

\* An emergency stop that nobody lifts ends the daemon, however often it is
\* started again, and sooner or later no worker runs an adapter.
StopEndsWork ==
  <>[]stop => []<>(pc = "exited") /\ <>[](\A w \in Workers : work[w].at # "running")

\* While the daemon runs, a pending stage is taken by somebody: if the task
\* fits its ticket and the execution is among those a cycle looks at.
PendingStageRuns ==
  \A t \in Tickets : t[1] \in Inspected \ LongTasks /\ IsOrdinary(t) =>
    ((Pending(t) /\ pc # "exited") ~> (~Pending(t) \/ stop \/ pc = "exited"))
==============================================================================
