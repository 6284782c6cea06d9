------------------------ MODULE SupervisorDaemonProofs ------------------------
(***************************************************************************)
(* Proofs about SupervisorDaemon, for any executions, stages, tickets,     *)
(* threads and outside workers.  Four invariants, each resting on the ones *)
(* before it: types and which tickets are about; where the loop may have   *)
(* threads, tickets and a cycle; the count; what a mark says.              *)
(***************************************************************************)
EXTENDS SupervisorDaemon, FiniteSetTheorems, TLAPS

\* Only ordinary stages are ever taken, and only tickets of ordinary stages.
OrdinaryTaken ==
  /\ \A e \in Execs : current[e].st # "pending" => current[e].i <= Ordinary[e]
  /\ \A t \in Tickets : ticket[t] = "ready" => IsOrdinary(t)
  /\ \A t \in found : IsOrdinary(t)
  /\ \A w \in Workers : work[w] # Idle => work[w].ticket \in Tickets /\ IsOrdinary(work[w].ticket)

TypeInv == TypeOK /\ OrdinaryTaken

\* Threads have work only while the loop submits and collects, a listing
\* lasts only while it submits, and the daemon's cycle ends in its place.
LoopShape ==
  /\ pc \notin {"submit", "submitting", "collect"} => \A w \in Threads : work[w] = Idle
  /\ found # {} => pc \in {"submit", "submitting"}
  /\ cycle = Daemon => pc = "cycle"

\* A late start needs a drain, and none is made after the first.
LateShape ==
  /\ ~drain => late = 0
  /\ pc = "submitting" => late = 0
  /\ pc = "cycle" /\ cycle # Daemon => late = 0
  /\ DrainBound

\* The stage of a ticket has been dispatched or decided.
Moved(t) ==
  \/ current[t[1]].i > t[2]
  \/ current[t[1]].i = t[2] /\ current[t[1]].st = "dispatched"

\* What a worker has recorded, it may mark.
RecordedHasMoved ==
  \A w \in Workers : work[w].at = "recorded" =>
    work[w].out \in {"dispatched", "processed"} /\ Moved(work[w].ticket)

-----------------------------------------------------------------------------
(* Facts about the constants.                                              *)

LEMMA TicketParts ==
  \A t \in Tickets : t[1] \in Execs /\ t[2] \in Stages(t[1]) /\ t[2] \in Nat \ {0} /\ t = <<t[1], t[2]>>
  BY SupervisorAssumption DEF Tickets, Stages

LEMMA StageIsTicket ==
  ASSUME NEW e \in Execs, NEW i \in Stages(e)
  PROVE  <<e, i>> \in Tickets
  BY DEF Tickets

LEMMA NoTicket == None \notin Tickets /\ Idle.at = "idle" /\ Idle.ticket = None
  BY SupervisorAssumption DEF Idle, Job

-----------------------------------------------------------------------------
(* Types.                                                                  *)

LEMMA StageType ==
  ASSUME NEW e \in Execs, NEW i \in Stages(e)
  PROVE  Stage(i) \in [i : Nat \ {0}, st : {"pending", "claimed", "dispatched"},
                       holder : Workers \cup {NoProc}, over : BOOLEAN]
  BY SupervisorAssumption DEF Stage, Stages

\* An update of one execution's stage, within its stages.
LEMMA CurrentStep ==
  ASSUME TypeInv, NEW e \in Execs, NEW s,
         s \in [i : Nat \ {0}, st : {"pending", "claimed", "dispatched"},
                holder : Workers \cup {NoProc}, over : BOOLEAN],
         s.i \in Stages(e), s.st # "pending" => s.i <= Ordinary[e],
         current' = [current EXCEPT ![e] = s]
  PROVE  /\ current' \in [Execs -> [i : Nat \ {0}, st : {"pending", "claimed", "dispatched"},
                                    holder : Workers \cup {NoProc}, over : BOOLEAN]]
         /\ \A d \in Execs : current'[d].i \in Stages(d)
         /\ \A d \in Execs : current'[d].st # "pending" => current'[d].i <= Ordinary[d]
  BY DEF TypeInv, TypeOK, OrdinaryTaken

\* An update of what one worker does.
LEMMA WorkStep ==
  ASSUME TypeInv, NEW w \in Workers, NEW j \in JobType,
         w \in Outsiders => j.at # "done",
         j # Idle => j.ticket \in Tickets /\ IsOrdinary(j.ticket),
         work' = [work EXCEPT ![w] = j]
  PROVE  /\ work' \in [Workers -> JobType]
         /\ \A v \in Outsiders : work'[v].at # "done"
         /\ \A v \in Workers : work'[v] # Idle =>
              work'[v].ticket \in Tickets /\ IsOrdinary(work'[v].ticket)
  BY DEF TypeInv, TypeOK, OrdinaryTaken, IsOrdinary

LEMMA IdleType == Idle \in JobType
  BY DEF Idle, Job, JobType, Places, Outcomes

LEMMA FinishStep ==
  ASSUME TypeInv, NEW w \in Workers, work[w] # Idle, Finish(w)
  PROVE  /\ work' \in [Workers -> JobType]
         /\ \A v \in Outsiders : work'[v].at # "done"
         /\ \A v \in Workers : work'[v] # Idle =>
              work'[v].ticket \in Tickets /\ IsOrdinary(work'[v].ticket)
<1> DEFINE j == IF w \in Threads THEN [work[w] EXCEPT !.at = "done"] ELSE Idle
<1>1. work[w] \in JobType
  BY DEF TypeInv, TypeOK
<1>2. [work[w] EXCEPT !.at = "done"] \in JobType /\ [work[w] EXCEPT !.at = "done"].ticket = work[w].ticket
  BY <1>1 DEF JobType, Places
<1>3. j \in JobType
  BY <1>2, IdleType
<1>4. w \in Outsiders => j.at # "done"
  BY SupervisorAssumption, NoTicket
<1>5. j # Idle => j.ticket \in Tickets /\ IsOrdinary(j.ticket)
  BY <1>2 DEF TypeInv, OrdinaryTaken, IsOrdinary
<1>6. work' = [work EXCEPT ![w] = j]
  BY <1>1 DEF Finish, TypeInv, TypeOK
<1> HIDE DEF j
<1>7. QED
  BY <1>3, <1>4, <1>5, <1>6, WorkStep

\* A step that leaves executions and workers alone need only keep the loop's
\* and the cycle's own variables in their types.
LEMMA LoopKeepsType ==
  ASSUME TypeInv, UNCHANGED <<executions, work>>, found' \subseteq found,
         stop' \in BOOLEAN, cycle' \in Runners \cup {NoProc}, todo' \subseteq Execs,
         noted' \in Tickets \cup {None}, pc' \in Steps, drain' \in BOOLEAN,
         inflight' \in Nat, late' \in 0 .. 2
  PROVE  TypeInv'
  BY DEF TypeInv, TypeOK, OrdinaryTaken, executions, IsOrdinary

\* A step of one execution's stage.
LEMMA StageKeepsType ==
  ASSUME TypeInv, UNCHANGED <<ticket, stop, loop, work, cycle>>,
         todo' \subseteq Execs, noted' \in Tickets \cup {None},
         NEW e \in Execs, NEW s,
         s \in [i : Nat \ {0}, st : {"pending", "claimed", "dispatched"},
                holder : Workers \cup {NoProc}, over : BOOLEAN],
         s.i \in Stages(e), s.st # "pending" => s.i <= Ordinary[e],
         current' = [current EXCEPT ![e] = s]
  PROVE  TypeInv'
<1>1. /\ current' \in [Execs -> [i : Nat \ {0}, st : {"pending", "claimed", "dispatched"},
                                 holder : Workers \cup {NoProc}, over : BOOLEAN]]
      /\ \A d \in Execs : current'[d].i \in Stages(d)
      /\ \A d \in Execs : current'[d].st # "pending" => current'[d].i <= Ordinary[d]
  BY CurrentStep
<1>2. QED
  BY <1>1 DEF TypeInv, TypeOK, OrdinaryTaken, loop, IsOrdinary

\* A step of one worker that changes nothing of the loop's.
LEMMA WorkerKeepsType ==
  ASSUME TypeInv, UNCHANGED <<executions, stop, scan, loop>>, NEW w \in Workers, NEW j \in JobType,
         w \in Outsiders => j.at # "done",
         j # Idle => j.ticket \in Tickets /\ IsOrdinary(j.ticket),
         work' = [work EXCEPT ![w] = j]
  PROVE  TypeInv'
<1>1. /\ work' \in [Workers -> JobType]
      /\ \A v \in Outsiders : work'[v].at # "done"
      /\ \A v \in Workers : work'[v] # Idle =>
           work'[v].ticket \in Tickets /\ IsOrdinary(work'[v].ticket)
  BY WorkStep
<1>2. QED
  BY <1>1 DEF TypeInv, TypeOK, OrdinaryTaken, executions, scan, loop, IsOrdinary

LEMMA FinishKeepsType ==
  ASSUME TypeInv, UNCHANGED <<current, stop, scan, loop>>, NEW w \in Workers, work[w] # Idle, Finish(w),
         ticket' \in [Tickets -> TicketStates],
         \A t \in Tickets : ticket'[t] = "ready" => IsOrdinary(t)
  PROVE  TypeInv'
<1>1. /\ work' \in [Workers -> JobType]
      /\ \A v \in Outsiders : work'[v].at # "done"
      /\ \A v \in Workers : work'[v] # Idle =>
           work'[v].ticket \in Tickets /\ IsOrdinary(work'[v].ticket)
  BY FinishStep
<1>2. QED
  BY <1>1 DEF TypeInv, TypeOK, OrdinaryTaken, scan, loop, IsOrdinary

LEMMA RecoveredType ==
  ASSUME TypeInv, NEW e \in Execs
  PROVE  /\ Recovered(current[e]) \in [i : Nat \ {0}, st : {"pending", "claimed", "dispatched"},
                                       holder : Workers \cup {NoProc}, over : BOOLEAN]
         /\ Recovered(current[e]).i \in Stages(e)
         /\ Recovered(current[e]).st # "pending" => Recovered(current[e]).i <= Ordinary[e]
<1>1. /\ current[e].i \in Stages(e)
      /\ current[e].st # "pending" => current[e].i <= Ordinary[e]
      /\ current[e] \in [i : Nat \ {0}, st : {"pending", "claimed", "dispatched"},
                         holder : Workers \cup {NoProc}, over : BOOLEAN]
      /\ Ordinary[e] \in Nat \ {0}
  BY SupervisorAssumption DEF TypeInv, TypeOK, OrdinaryTaken
<1>2. current[e].st = "dispatched" => current[e].i + 1 \in Stages(e)
  BY <1>1 DEF Stages
<1>3. CASE current[e].over /\ current[e].st = "claimed"
  BY <1>1, <1>3, StageType DEF Recovered, Stage
<1>4. CASE current[e].over /\ current[e].st = "dispatched"
  <2>1. Recovered(current[e]) = Stage(current[e].i + 1)
    BY <1>4 DEF Recovered
  <2>2. QED
    BY <1>2, <1>4, <2>1, StageType DEF Stage
<1>5. CASE ~(current[e].over /\ current[e].st \in {"claimed", "dispatched"})
  <2>1. Recovered(current[e]) = current[e]
    BY <1>5 DEF Recovered
  <2>2. QED
    BY <1>1, <2>1
<1>6. QED
  BY <1>3, <1>4, <1>5

LEMMA InitTypeInv == Init => TypeInv
<1> SUFFICES ASSUME Init PROVE TypeInv
  OBVIOUS
<1>1. \A e \in Execs : 1 \in Stages(e)
  BY SupervisorAssumption DEF Stages
<1>2. /\ current \in [Execs -> [i : Nat \ {0}, st : {"pending", "claimed", "dispatched"},
                                holder : Workers \cup {NoProc}, over : BOOLEAN]]
      /\ \A e \in Execs : current[e].i \in Stages(e) /\ current[e].st = "pending"
  BY <1>1 DEF Init, Stage
<1>3. TypeOK
  <2>1. work \in [Workers -> JobType] /\ \A w \in Outsiders : work[w].at # "done"
    BY IdleType, NoTicket DEF Init, Workers
  <2>2. ticket \in [Tickets -> TicketStates]
    BY DEF Init, TicketStates
  <2>3. /\ stop \in BOOLEAN /\ cycle \in Runners \cup {NoProc}
        /\ todo \subseteq Execs /\ noted \in Tickets \cup {None}
        /\ pc \in Steps /\ drain \in BOOLEAN /\ found \subseteq Tickets
        /\ inflight \in Nat /\ late \in 0 .. 2
    <3>1. stop = FALSE /\ drain = FALSE /\ pc = "exited" /\ found = {} /\ inflight = 0 /\ late = 0
      BY DEF Init
    <3>2. cycle = NoProc /\ todo = {} /\ noted = None
      BY DEF Init
    <3>3. stop \in BOOLEAN /\ drain \in BOOLEAN
      BY <3>1, Zenon
    <3>4. pc \in Steps /\ found \subseteq Tickets /\ inflight \in Nat /\ late \in 0 .. 2
      BY <3>1 DEF Steps
    <3>5. cycle \in Runners \cup {NoProc} /\ todo \subseteq Execs /\ noted \in Tickets \cup {None}
      BY <3>2
    <3>6. QED
      BY <3>3, <3>4, <3>5
  <2>4. QED
    BY <1>2, <2>1, <2>2, <2>3 DEF TypeOK
<1>4. QED
  BY <1>2, <1>3 DEF Init, TypeInv, OrdinaryTaken

\* What each group of actions does with the types.
LEMMA LoopActionKeepsType ==
  ASSUME TypeInv,
         \/ KillSwitch \/ Resume \/ OthersCycle \/ EndCycle \/ Start \/ Signal \/ LeaveTop
         \/ EnterCycle \/ DaemonsCycle \/ CycleRefused \/ LeaveCycled \/ NextTicket
         \/ NoMoreTickets \/ Collected \/ LeaveAfter \/ GoRound \/ Close
  PROVE  TypeInv'
<1>1. /\ UNCHANGED <<executions, work>> /\ found' \subseteq found
      /\ stop' \in BOOLEAN /\ cycle' \in Runners \cup {NoProc} /\ todo' \subseteq Execs
      /\ noted' \in Tickets \cup {None} /\ pc' \in Steps /\ drain' \in BOOLEAN
  BY DEF TypeInv, TypeOK, Steps, Runners, BeginCycle, Inspected, KillSwitch, Resume, OthersCycle, EndCycle,
         Start, Signal, LeaveTop, EnterCycle, DaemonsCycle, CycleRefused, LeaveCycled, NextTicket,
         NoMoreTickets, Collected, LeaveAfter, GoRound, Close, Goto, scan, loop, executions, Halted
<1>2. inflight' \in Nat /\ late' \in 0 .. 2
  BY DEF TypeInv, TypeOK, CountLate, BeginCycle, KillSwitch, Resume, OthersCycle, EndCycle,
         Start, Signal, LeaveTop, EnterCycle, DaemonsCycle, CycleRefused, LeaveCycled, NextTicket,
         NoMoreTickets, Collected, LeaveAfter, GoRound, Close, scan, loop
<1>3. QED
  BY <1>1, <1>2, LoopKeepsType

LEMMA StageActionKeepsType ==
  ASSUME TypeInv, NEW e \in Execs, HandOff(e) \/ Report(e) \/ Expire(e) \/ Inspect(e)
  PROVE  TypeInv'
<1> DEFINE Record == [i : Nat \ {0}, st : {"pending", "claimed", "dispatched"},
                      holder : Workers \cup {NoProc}, over : BOOLEAN]
<1>1. /\ current[e] \in Record /\ current[e].i \in Stages(e) /\ Ordinary[e] \in Nat \ {0}
      /\ current[e].st # "pending" => current[e].i <= Ordinary[e]
      /\ todo \subseteq Execs /\ noted \in Tickets \cup {None}
  BY SupervisorAssumption DEF TypeInv, TypeOK, OrdinaryTaken
<1>2. CASE HandOff(e)
  <2>1. PICK s : s = [current[e] EXCEPT !.st = "dispatched"]
    OBVIOUS
  <2>2. s \in Record /\ s.i = current[e].i
    BY <1>1, <2>1
  <2>3. current' = [current EXCEPT ![e] = s] /\ s.i <= Ordinary[e]
    BY <1>2, <2>1, <2>2 DEF HandOff
  <2>4. QED
    BY <1>1, <1>2, <2>2, <2>3, StageKeepsType DEF HandOff, scan
<1>3. CASE Report(e)
  <2>1. PICK i \in {current[e].i + 1, Ordinary[e] + 1} : current' = [current EXCEPT ![e] = Stage(i)]
    BY <1>3 DEF Report
  <2>2. i \in Stages(e)
    BY <1>1, <1>3, <2>1 DEF Report, Stages
  <2>3. Stage(i) \in Record /\ Stage(i).i = i /\ Stage(i).st = "pending"
    BY <2>2, StageType DEF Stage
  <2>4. QED
    BY <1>1, <1>3, <2>1, <2>2, <2>3, StageKeepsType DEF Report, scan
<1>4. CASE Expire(e)
  <2>1. PICK s : s = [current[e] EXCEPT !.over = TRUE]
    OBVIOUS
  <2>2. s \in Record /\ s.i = current[e].i /\ s.st = current[e].st
    BY <1>1, <2>1
  <2>3. current' = [current EXCEPT ![e] = s]
    BY <1>4, <2>1 DEF Expire
  <2>4. QED
    BY <1>1, <1>4, <2>2, <2>3, StageKeepsType DEF Expire, scan
<1>5. CASE Inspect(e)
  <2>1. noted' \in Tickets \cup {None}
    BY <1>5, RecoveredType, StageIsTicket DEF Inspect
  <2>2. current' = [current EXCEPT ![e] = Recovered(current[e])]
    BY <1>5 DEF Inspect
  <2>3. QED
    BY <1>1, <1>5, <2>1, <2>2, RecoveredType, StageKeepsType DEF Inspect
<1>6. QED
  BY <1>2, <1>3, <1>4, <1>5

LEMMA WorkerActionKeepsType ==
  ASSUME TypeInv, NEW w \in Workers,
         \/ Check(w) \/ Claim(w) \/ ClaimRefused(w) \/ AdapterFails(w) \/ Mark(w)
         \/ \E out \in {"dispatched", "processed"} : RunAdapter(w, out)
  PROVE  TypeInv'
<1>1. work[w] \in JobType /\ work[w].at \in Places
  BY DEF TypeInv, TypeOK, JobType
<1>2. work[w].at # "idle" => work[w] # Idle /\ work[w].ticket \in Tickets /\ IsOrdinary(work[w].ticket)
  BY NoTicket DEF TypeInv, OrdinaryTaken
<1>3. ticket \in [Tickets -> TicketStates] /\ \A t \in Tickets : ticket[t] = "ready" => IsOrdinary(t)
  BY DEF TypeInv, TypeOK, OrdinaryTaken
<1>4. ASSUME NEW p \in Places, p \notin {"idle", "done"}, At(w, p), work[w].at # "idle",
             UNCHANGED <<executions, stop, scan, loop>>
      PROVE  TypeInv'
  <2>1. PICK j : j = [work[w] EXCEPT !.at = p]
    OBVIOUS
  <2>2. j \in JobType /\ j.ticket = work[w].ticket /\ j.at = p
    BY <1>1, <2>1 DEF JobType
  <2>3. work' = [work EXCEPT ![w] = j]
    BY <1>4, <2>1 DEF At
  <2>4. QED
    BY <1>2, <1>4, <2>2, <2>3, WorkerKeepsType DEF IsOrdinary
<1>5. ASSUME Finish(w), work[w].at # "idle", UNCHANGED <<executions, stop, scan, loop>>
      PROVE  TypeInv'
  BY <1>2, <1>3, <1>5, FinishKeepsType DEF executions, IsOrdinary
<1>6. CASE Check(w)
  BY <1>4, <1>5, <1>6 DEF Check, Places
<1>7. CASE ClaimRefused(w) \/ AdapterFails(w)
  BY <1>5, <1>7 DEF ClaimRefused, AdapterFails
<1>8. CASE Mark(w)
  <2>1. /\ ticket' = [ticket EXCEPT ![work[w].ticket] = work[w].out]
        /\ Finish(w) /\ UNCHANGED <<current, stop, scan, loop>> /\ work[w].at # "idle"
    BY <1>8 DEF Mark
  <2>2. work[w].out \in {"none", "dispatched", "processed"}
    BY <1>1 DEF JobType, Outcomes
  <2>3. ticket' \in [Tickets -> TicketStates] /\ \A t \in Tickets : ticket'[t] = "ready" => IsOrdinary(t)
    BY <1>2, <1>3, <2>1, <2>2 DEF TicketStates, IsOrdinary
  <2>4. QED
    BY <1>2, <2>1, <2>3, FinishKeepsType
<1>9. ASSUME NEW e, e = work[w].ticket[1], work[w].at # "idle", NEW s,
             s \in [i : Nat \ {0}, st : {"pending", "claimed", "dispatched"},
                    holder : Workers \cup {NoProc}, over : BOOLEAN],
             s.i \in Stages(e), s.st # "pending" => s.i <= Ordinary[e],
             current' = [current EXCEPT ![e] = s],
             NEW j \in JobType, j.at \notin {"idle", "done"}, j.ticket = work[w].ticket,
             work' = [work EXCEPT ![w] = j],
             UNCHANGED <<ticket, stop, scan, loop>>
      PROVE  TypeInv'
  <2>1. e \in Execs
    BY <1>2, <1>9, TicketParts
  <2>2. /\ current' \in [Execs -> [i : Nat \ {0}, st : {"pending", "claimed", "dispatched"},
                                   holder : Workers \cup {NoProc}, over : BOOLEAN]]
        /\ \A d \in Execs : current'[d].i \in Stages(d)
        /\ \A d \in Execs : current'[d].st # "pending" => current'[d].i <= Ordinary[d]
    BY <1>9, <2>1, CurrentStep
  <2>3. /\ work' \in [Workers -> JobType]
        /\ \A v \in Outsiders : work'[v].at # "done"
        /\ \A v \in Workers : work'[v] # Idle =>
             work'[v].ticket \in Tickets /\ IsOrdinary(work'[v].ticket)
    BY <1>2, <1>9, WorkStep DEF IsOrdinary
  <2>4. QED
    BY <1>9, <2>2, <2>3 DEF TypeInv, TypeOK, OrdinaryTaken, scan, loop, IsOrdinary
<1>10. PICK e : e = work[w].ticket[1]
  OBVIOUS
<1>11. work[w].at # "idle" =>
         /\ e \in Execs /\ current[e].i \in Stages(e)
         /\ current[e] \in [i : Nat \ {0}, st : {"pending", "claimed", "dispatched"},
                            holder : Workers \cup {NoProc}, over : BOOLEAN]
         /\ current[e].st # "pending" => current[e].i <= Ordinary[e]
         /\ work[w].ticket[2] <= Ordinary[e] /\ Ordinary[e] \in Nat
  BY <1>2, <1>10, TicketParts, SupervisorAssumption DEF TypeInv, TypeOK, OrdinaryTaken, IsOrdinary
<1>12. CASE Claim(w)
  <2>1. PICK s : s = [current[e] EXCEPT !.st = "claimed", !.holder = w, !.over = FALSE]
    OBVIOUS
  <2>2. PICK j : j = [work[w] EXCEPT !.at = "running"]
    OBVIOUS
  <2>3. /\ work[w].at # "idle" /\ current' = [current EXCEPT ![e] = s]
        /\ work' = [work EXCEPT ![w] = j] /\ UNCHANGED <<ticket, stop, scan, loop>>
    <3>1. work[w].at # "idle" /\ UNCHANGED <<ticket, stop, scan, loop>> /\ At(w, "running")
          /\ current' = [current EXCEPT ![e].st = "claimed", ![e].holder = w, ![e].over = FALSE]
      BY <1>10, <1>12 DEF Claim
    <3>2. current' = [current EXCEPT ![e] = s]
      BY <1>11, <2>1, <3>1 DEF TypeInv, TypeOK
    <3>3. QED
      BY <2>2, <3>1, <3>2 DEF At
  <2>4. current[e].i = work[w].ticket[2]
    BY <1>10, <1>12 DEF Claim, MayClaim, Pending
  <2>5. /\ s \in [i : Nat \ {0}, st : {"pending", "claimed", "dispatched"},
                  holder : Workers \cup {NoProc}, over : BOOLEAN]
        /\ s.i = current[e].i
    BY <1>11, <2>1, <2>3
  <2>6. j \in JobType /\ j.at = "running" /\ j.ticket = work[w].ticket
    BY <1>1, <2>2 DEF JobType, Places
  <2>7. QED
    BY <1>9, <1>10, <1>11, <2>3, <2>4, <2>5, <2>6
<1>13. ASSUME NEW out \in {"dispatched", "processed"}, RunAdapter(w, out)
       PROVE  TypeInv'
  <2>0. work[w].at # "idle" /\ UNCHANGED <<ticket, stop, scan, loop>>
    BY <1>13 DEF RunAdapter
  <2>1. CASE ~Holds(w)
    BY <1>5, <1>13, <2>0, <2>1 DEF RunAdapter, executions
  <2>2. CASE Holds(w)
    <3>1. PICK s : s = IF out = "dispatched"
                         THEN [current[e] EXCEPT !.st = "dispatched", !.holder = NoProc]
                         ELSE Stage(current[e].i + 1)
      OBVIOUS
    <3>2. PICK j : j = [work[w] EXCEPT !.at = "recorded", !.out = out]
      OBVIOUS
    <3>3. current[e].st = "claimed"
      BY <1>10, <2>2 DEF Holds
    <3>4. current[e].i + 1 \in Stages(e)
      BY <1>11, <2>0, <3>3 DEF Stages
    <3>5. Stage(current[e].i + 1) \in [i : Nat \ {0}, st : {"pending", "claimed", "dispatched"},
                                       holder : Workers \cup {NoProc}, over : BOOLEAN]
      BY <1>11, <2>0, <3>4, StageType
    <3>6. /\ s \in [i : Nat \ {0}, st : {"pending", "claimed", "dispatched"},
                    holder : Workers \cup {NoProc}, over : BOOLEAN]
          /\ s.i \in Stages(e) /\ (s.st # "pending" => s.i <= Ordinary[e])
      <4>1. CASE out = "dispatched"
        BY <1>11, <2>0, <3>1, <3>3, <4>1
      <4>2. CASE out # "dispatched"
        <5>1. s = Stage(current[e].i + 1)
          BY <3>1, <4>2
        <5>2. QED
          BY <3>4, <3>5, <5>1 DEF Stage
      <4>3. QED
        BY <4>1, <4>2
    <3>7. j \in JobType /\ j.at = "recorded" /\ j.ticket = work[w].ticket
      BY <1>1, <3>2 DEF JobType, Places, Outcomes
    <3>8. current' = [current EXCEPT ![e] = s] /\ work' = [work EXCEPT ![w] = j]
      BY <1>10, <1>13, <2>2, <3>1, <3>2 DEF RunAdapter
    <3>9. QED
      BY <1>9, <1>10, <2>0, <3>6, <3>7, <3>8
  <2>3. QED
    BY <2>1, <2>2
<1>14. QED
  BY <1>6, <1>7, <1>8, <1>12, <1>13

LEMMA TicketActionKeepsType ==
  ASSUME TypeInv,
         \/ WriteTicket \/ ListTickets \/ Die
         \/ \E w \in Threads, t \in Tickets : Submit(w, t)
         \/ \E w \in Threads : Collect(w)
         \/ \E w \in Workers, t \in Tickets : Take(w, t)
  PROVE  TypeInv'
<1>1. CASE WriteTicket
  <2>1. /\ noted \in Tickets /\ ticket' = [ticket EXCEPT ![noted] = TicketState(noted)]
        /\ noted' = None /\ UNCHANGED <<current, stop, cycle, todo, loop, work>>
    BY <1>1 DEF WriteTicket, TypeInv, TypeOK
  <2>2. TicketState(noted) \in TicketStates /\ (TicketState(noted) = "ready" => IsOrdinary(noted))
    BY DEF TicketState, TicketStates
  <2>3. ticket' \in [Tickets -> TicketStates] /\ \A t \in Tickets : ticket'[t] = "ready" => IsOrdinary(t)
    BY <2>1, <2>2 DEF TypeInv, TypeOK, OrdinaryTaken
  <2>4. QED
    BY <2>1, <2>3 DEF TypeInv, TypeOK, OrdinaryTaken, loop, IsOrdinary
<1>2. CASE ListTickets
  <2>1. found' \subseteq Tickets /\ \A t \in found' : ticket[t] = "ready"
    BY <1>2 DEF ListTickets, Listed
  <2>2. QED
    BY <1>2, <2>1 DEF ListTickets, TypeInv, TypeOK, OrdinaryTaken, executions, scan, Goto, Steps, IsOrdinary
<1>3. CASE Die
  <2>1. /\ work' \in [Workers -> JobType]
        /\ \A v \in Workers : work'[v] = Idle \/ work'[v] = work[v]
        /\ \A v \in Outsiders : work'[v] = work[v]
    BY <1>3, IdleType, SupervisorAssumption DEF Die, TypeInv, TypeOK, Workers
  <2>2. /\ cycle' \in Runners \cup {NoProc} /\ todo' \subseteq Execs /\ noted' \in Tickets \cup {None}
        /\ pc' \in Steps /\ found' = {} /\ inflight' \in Nat
        /\ UNCHANGED <<executions, stop, drain, late>>
    BY <1>3 DEF Die, TypeInv, TypeOK, scan, Goto, Steps
  <2>3. QED
    BY <2>1, <2>2 DEF TypeInv, TypeOK, OrdinaryTaken, executions, IsOrdinary, Workers
<1>4. ASSUME NEW w \in Workers, NEW t \in Tickets, IsOrdinary(t), work' = [work EXCEPT ![w] = Job("queued", t)]
      PROVE  /\ work' \in [Workers -> JobType]
             /\ \A v \in Outsiders : work'[v].at # "done"
             /\ \A v \in Workers : work'[v] # Idle =>
                  work'[v].ticket \in Tickets /\ IsOrdinary(work'[v].ticket)
  <2>1. PICK j : j = Job("queued", t)
    OBVIOUS
  <2>2. j \in JobType /\ j.at = "queued" /\ j.ticket = t
    BY <2>1 DEF Job, JobType, Places, Outcomes
  <2>3. QED
    BY <1>4, <2>1, <2>2, WorkStep DEF IsOrdinary
<1>5. ASSUME NEW w \in Threads, NEW t \in Tickets, Submit(w, t) PROVE TypeInv'
  <2>1. IsOrdinary(t) /\ work' = [work EXCEPT ![w] = Job("queued", t)] /\ w \in Workers
    BY <1>5 DEF Submit, TypeInv, OrdinaryTaken, Workers
  <2>2. inflight' \in Nat /\ late' \in 0 .. 2 /\ pc' \in Steps /\ found' \subseteq found
    BY <1>5 DEF Submit, CountLate, TypeInv, TypeOK, Goto, Steps
  <2>3. QED
    BY <1>4, <1>5, <2>1, <2>2 DEF Submit, TypeInv, TypeOK, OrdinaryTaken, executions, scan, IsOrdinary
<1>6. ASSUME NEW w \in Threads, Collect(w) PROVE TypeInv'
  <2>1. work' = [work EXCEPT ![w] = Idle] /\ w \in Workers
    BY <1>6 DEF Collect, Workers
  <2>2. /\ work' \in [Workers -> JobType]
        /\ \A v \in Outsiders : work'[v].at # "done"
        /\ \A v \in Workers : work'[v] # Idle =>
             work'[v].ticket \in Tickets /\ IsOrdinary(work'[v].ticket)
    BY <2>1, IdleType, NoTicket, WorkStep
  <2>3. inflight' \in Nat
    BY <1>6 DEF Collect, CountOff, TypeInv, TypeOK
  <2>4. QED
    BY <1>6, <2>2, <2>3 DEF Collect, TypeInv, TypeOK, OrdinaryTaken, executions, scan, IsOrdinary
<1>7. ASSUME NEW w \in Workers, NEW t \in Tickets, Take(w, t) PROVE TypeInv'
  <2>1. IsOrdinary(t) /\ work' = [work EXCEPT ![w] = Job("queued", t)]
    BY <1>7 DEF Take, TypeInv, OrdinaryTaken
  <2>2. QED
    BY <1>4, <1>7, <2>1 DEF Take, TypeInv, TypeOK, OrdinaryTaken, executions, scan, loop, IsOrdinary
<1>8. QED
  BY <1>1, <1>2, <1>3, <1>5, <1>6, <1>7

\* Next by groups of actions; every case analysis below uses these.
LoopAction ==
  \/ KillSwitch \/ Resume \/ OthersCycle \/ EndCycle \/ Start \/ Signal \/ LeaveTop
  \/ EnterCycle \/ DaemonsCycle \/ CycleRefused \/ LeaveCycled \/ NextTicket
  \/ NoMoreTickets \/ Collected \/ LeaveAfter \/ GoRound \/ Close

StageAction == \E e \in Execs : HandOff(e) \/ Report(e) \/ Expire(e) \/ Inspect(e)

WorkerAction(w) ==
  \/ Check(w) \/ Claim(w) \/ ClaimRefused(w) \/ AdapterFails(w) \/ Mark(w)
  \/ \E out \in {"dispatched", "processed"} : RunAdapter(w, out)

TicketAction ==
  \/ WriteTicket \/ ListTickets \/ Die
  \/ \E w \in Threads, t \in Tickets : Submit(w, t)
  \/ \E w \in Threads : Collect(w)
  \/ \E w \in Workers, t \in Tickets : Take(w, t)

LEMMA NextByGroup ==
  Next => LoopAction \/ StageAction \/ TicketAction \/ \E w \in Workers : WorkerAction(w)
  BY Zenon DEF Next, LoopAction, StageAction, TicketAction, WorkerAction

\* The types hold, and only ordinary stages are taken (the type invariant).
THEOREM TypeInvariant == Spec => []TypeInv
<1>1. TypeInv /\ [Next]_vars => TypeInv'
  <2> SUFFICES ASSUME TypeInv, [Next]_vars PROVE TypeInv'
    OBVIOUS
  <2>1. CASE LoopAction
    BY <2>1, LoopActionKeepsType DEF LoopAction
  <2>2. CASE StageAction
    BY <2>2, StageActionKeepsType DEF StageAction
  <2>3. CASE TicketAction
    BY <2>3, TicketActionKeepsType DEF TicketAction
  <2>4. ASSUME NEW w \in Workers, WorkerAction(w) PROVE TypeInv'
    BY <2>4, WorkerActionKeepsType DEF WorkerAction
  <2>5. CASE UNCHANGED vars
    BY <2>5 DEF TypeInv, TypeOK, OrdinaryTaken, vars, executions, scan, loop, IsOrdinary
  <2>6. QED
    BY <2>1, <2>2, <2>3, <2>4, <2>5, NextByGroup
<1>2. QED
  BY InitTypeInv, <1>1, PTL DEF Spec

\* TypeOK, the type invariant of the runs, of supervisor.py's, executor_worker.py's
\* and runtime.py's state.
THEOREM TypeCorrect == Spec => []TypeOK
<1>1. TypeInv => TypeOK
  BY DEF TypeInv
<1>2. QED
  BY <1>1, TypeInvariant, PTL

-----------------------------------------------------------------------------
(* The shape of the loop, and with it the exits and the drain's bound.     *)

\* Stages and workers leave the loop's variables alone.
LEMMA WorkerLeavesLoop ==
  ASSUME NEW w \in Workers, WorkerAction(w)
  PROVE  UNCHANGED <<stop, scan, loop>>
  BY DEF WorkerAction, Check, Claim, ClaimRefused, AdapterFails, Mark, RunAdapter

LEMMA StageLeavesLoop ==
  ASSUME StageAction
  PROVE  UNCHANGED <<ticket, stop, loop, work>> /\ (cycle' = cycle)
  BY DEF StageAction, HandOff, Report, Expire, Inspect, scan

\* A worker's step is a worker's: nobody else's job changes, an idle worker's
\* job neither, and a thread with a job keeps one.
LEMMA WorkerStaysBusy ==
  ASSUME TypeInv, NEW w \in Workers, WorkerAction(w)
  PROVE  /\ \A v \in Workers : v # w => work'[v] = work[v]
         /\ work[w] # Idle
         /\ w \in Threads => work'[w] # Idle
<1>1. work[w].at # "idle" /\ work[w] # Idle
  BY NoTicket DEF WorkerAction, Check, Claim, ClaimRefused, AdapterFails, Mark, RunAdapter
<1>2. (\E p \in Places \ {"idle"} : At(w, p))
      \/ Finish(w)
      \/ \E out \in Outcomes : work' = [work EXCEPT ![w].at = "recorded", ![w].out = out]
  BY DEF WorkerAction, Check, Claim, ClaimRefused, AdapterFails, Mark, RunAdapter, Places, Outcomes
<1>3. work \in [Workers -> JobType] /\ work[w] \in JobType
  BY DEF TypeInv, TypeOK
<1>4. ASSUME NEW p \in Places \ {"idle"}, At(w, p)
      PROVE  (\A v \in Workers : v # w => work'[v] = work[v]) /\ work'[w].at # "idle"
  BY <1>3, <1>4 DEF At, JobType
<1>5. CASE Finish(w)
  <2>1. CASE w \in Threads
    <3>1. work' = [work EXCEPT ![w] = [work[w] EXCEPT !.at = "done"]]
      BY <1>5, <2>1 DEF Finish
    <3>2. work'[w].at = "done" /\ \A v \in Workers : v # w => work'[v] = work[v]
      BY <1>3, <3>1 DEF JobType
    <3>3. QED
      BY <1>1, <3>2, NoTicket
  <2>2. CASE w \notin Threads
    BY <1>1, <1>3, <1>5, <2>2 DEF Finish
  <2>3. QED
    BY <2>1, <2>2
<1>6. ASSUME NEW out \in Outcomes, work' = [work EXCEPT ![w].at = "recorded", ![w].out = out]
      PROVE  (\A v \in Workers : v # w => work'[v] = work[v]) /\ work'[w].at # "idle"
  BY <1>3, <1>6 DEF JobType
<1>7. QED
  BY <1>1, <1>2, <1>4, <1>5, <1>6, NoTicket

LEMMA NextKeepsLoopShape == TypeInv /\ LoopShape /\ [Next]_vars => LoopShape'
<1> SUFFICES ASSUME TypeInv, LoopShape, [Next]_vars PROVE LoopShape'
  OBVIOUS
<1>1. CASE LoopAction
  <2>1. UNCHANGED work
    BY <1>1 DEF LoopAction, KillSwitch, Resume, OthersCycle, EndCycle, Start, Signal, LeaveTop,
         EnterCycle, DaemonsCycle, CycleRefused, LeaveCycled, NextTicket, NoMoreTickets, Collected,
         LeaveAfter, GoRound, Close
  <2>2. pc' \notin {"submit", "submitting", "collect"} => \A w \in Threads : work[w] = Idle
    BY <1>1 DEF LoopShape, LoopAction, KillSwitch, Resume, OthersCycle, EndCycle, Start, Signal, LeaveTop,
         EnterCycle, DaemonsCycle, CycleRefused, LeaveCycled, NextTicket, NoMoreTickets, Collected,
         LeaveAfter, GoRound, Close, Goto, loop
  <2>3. found' # {} => pc' \in {"submit", "submitting"}
    BY <1>1 DEF LoopShape, LoopAction, KillSwitch, Resume, OthersCycle, EndCycle, Start, Signal, LeaveTop,
         EnterCycle, DaemonsCycle, CycleRefused, LeaveCycled, NextTicket, NoMoreTickets, Collected,
         LeaveAfter, GoRound, Close, Goto, loop
  <2>4. cycle' = Daemon => pc' = "cycle"
    BY <1>1, SupervisorAssumption DEF LoopShape, LoopAction, KillSwitch, Resume, OthersCycle, EndCycle, Start, Signal, LeaveTop,
         EnterCycle, DaemonsCycle, CycleRefused, LeaveCycled, NextTicket, NoMoreTickets, Collected,
         LeaveAfter, GoRound, Close, Goto, loop, scan, BeginCycle, Runners
  <2>5. QED
    BY <2>1, <2>2, <2>3, <2>4 DEF LoopShape
<1>2. CASE StageAction
  BY <1>2, StageLeavesLoop DEF LoopShape, loop
<1>3. ASSUME NEW w \in Workers, WorkerAction(w) PROVE LoopShape'
  BY <1>3, WorkerLeavesLoop, WorkerStaysBusy DEF LoopShape, loop, scan, Workers
<1>4. CASE WriteTicket \/ ListTickets \/ Die
  BY <1>4, SupervisorAssumption
  DEF LoopShape, WriteTicket, ListTickets, Die, Goto, loop, scan, Workers, Runners
<1>5. ASSUME NEW w \in Threads, NEW t \in Tickets, Submit(w, t) PROVE LoopShape'
  BY <1>5 DEF LoopShape, Submit, Goto, scan
<1>6. ASSUME NEW w \in Threads, Collect(w) PROVE LoopShape'
  BY <1>6 DEF LoopShape, Collect, scan
<1>7. ASSUME NEW w \in Workers, NEW t \in Tickets, Take(w, t) PROVE LoopShape'
  <2>1. \A v \in Threads : work'[v] = work[v]
    BY <1>7, SupervisorAssumption DEF Take, TypeInv, TypeOK, Workers
  <2>2. QED
    BY <1>7, <2>1 DEF LoopShape, Take, loop, scan
<1>8. CASE UNCHANGED vars
  BY <1>8 DEF LoopShape, vars, loop, scan
<1>9. QED
  BY <1>1, <1>2, <1>3, <1>4, <1>5, <1>6, <1>7, <1>8, NextByGroup DEF TicketAction

THEOREM LoopInvariant == Spec => []LoopShape
<1>1. Init => LoopShape
  BY SupervisorAssumption DEF Init, LoopShape, Workers, Runners
<1>2. QED
  BY <1>1, TypeInvariant, NextKeepsLoopShape, PTL DEF Spec

\* ExitIsQuiet: supervisor_daemon_run returns with no thread at work, no
\* ticket uncollected and no cycle begun, by every one of its exits.
THEOREM QuietExits == Spec => []ExitIsQuiet
<1>1. LoopShape => ExitIsQuiet
  BY DEF LoopShape, ExitIsQuiet
<1>2. QED
  BY <1>1, LoopInvariant, PTL

LEMMA NextKeepsLateShape == TypeInv /\ LoopShape /\ LateShape /\ [Next]_vars => LateShape'
<1> SUFFICES ASSUME TypeInv, LoopShape, LateShape, [Next]_vars PROVE LateShape'
  OBVIOUS
<1>0. late \in 0 .. 2 /\ (late = 0 \/ late = 1)
  BY DEF TypeInv, TypeOK, LateShape, DrainBound
<1>1. CASE KillSwitch \/ Resume \/ OthersCycle \/ EndCycle \/ Signal
  BY <1>0, <1>1, SupervisorAssumption
  DEF LateShape, DrainBound, LoopShape, KillSwitch, Resume, OthersCycle, EndCycle, Signal, scan, loop,
      BeginCycle, Runners
<1>2. CASE Start \/ EnterCycle \/ CycleRefused \/ LeaveCycled \/ NextTicket \/ NoMoreTickets
  BY <1>0, <1>2 DEF LateShape, DrainBound, Start, EnterCycle, CycleRefused, LeaveCycled,
                    NextTicket, NoMoreTickets, MayGoOn, GoesOn, Goto, scan
<1>3. CASE Collected \/ LeaveAfter \/ GoRound \/ Close
  BY <1>0, <1>3 DEF LateShape, DrainBound, Collected, LeaveAfter, GoRound, Close, Goto, scan
<1>4. CASE DaemonsCycle
  BY <1>0, <1>4 DEF LateShape, DrainBound, DaemonsCycle, CountLate, BeginCycle
<1>5. CASE StageAction
  BY <1>0, <1>5, StageLeavesLoop DEF LateShape, DrainBound, loop
<1>6. ASSUME NEW w \in Workers, WorkerAction(w) PROVE LateShape'
  BY <1>0, <1>6, WorkerLeavesLoop DEF LateShape, DrainBound, loop, scan
<1>7. CASE WriteTicket \/ ListTickets
  BY <1>0, <1>7 DEF LateShape, DrainBound, WriteTicket, ListTickets, Goto, loop, scan
<1>8. CASE Die
  BY <1>0, <1>8 DEF LateShape, DrainBound, Die, Goto
<1>9. ASSUME NEW w \in Threads, NEW t \in Tickets, Submit(w, t) PROVE LateShape'
  BY <1>0, <1>9 DEF LateShape, DrainBound, Submit, CountLate, Goto, scan
<1>10. ASSUME NEW w \in Threads, Collect(w) PROVE LateShape'
  BY <1>0, <1>10 DEF LateShape, DrainBound, Collect, scan
<1>11. ASSUME NEW w \in Workers, NEW t \in Tickets, Take(w, t) PROVE LateShape'
  BY <1>0, <1>11 DEF LateShape, DrainBound, Take, loop, scan
<1>12. CASE UNCHANGED vars
  BY <1>0, <1>12 DEF LateShape, DrainBound, vars, loop, scan
<1>13. CASE LeaveTop
  <2>1. drain => drain'
    BY <1>13, Zenon DEF LeaveTop
  <2>2. pc' = "closing" /\ late' = late /\ cycle' = cycle
    BY <1>13 DEF LeaveTop, Goto, scan
  <2>3. QED
    BY <1>0, <2>1, <2>2 DEF LateShape, DrainBound
<1>14. QED
  BY <1>1, <1>2, <1>3, <1>4, <1>5, <1>6, <1>7, <1>8, <1>9, <1>10, <1>11, <1>12, <1>13, NextByGroup
  DEF LoopAction, TicketAction

\* DrainBound: after a drain request the daemon begins at most the one cycle or
\* ticket that had passed its check, whenever the signal came.
THEOREM BoundedDrain == Spec => []DrainBound
<1>1. Init => LateShape
  BY DEF Init, LateShape, DrainBound
<1>2. LateShape => DrainBound
  BY DEF LateShape
<1>3. QED
  BY <1>1, <1>2, TypeInvariant, LoopInvariant, NextKeepsLateShape, PTL DEF Spec

-----------------------------------------------------------------------------
(* The coordinator's count.                                                *)

Busy == {w \in Threads : work[w] # Idle}

\* Every thread stays as busy as it was.
LEMMA SameBusy ==
  ASSUME \A w \in Threads : work'[w] # Idle <=> work[w] # Idle, inflight' = inflight, Accounted
  PROVE  Accounted'
<1>1. {w \in Threads : work'[w] # Idle} = {w \in Threads : work[w] # Idle}
  OBVIOUS
<1>2. QED
  BY <1>1 DEF Accounted

\* No thread is busy, and the count is put to zero.
LEMMA NoneBusy ==
  ASSUME \A w \in Threads : work'[w] = Idle, inflight' = 0
  PROVE  Accounted'
<1>1. {w \in Threads : work'[w] # Idle} = {}
  OBVIOUS
<1>2. QED
  BY <1>1, FS_EmptySet DEF Accounted

LEMMA BusyIsFinite == IsFiniteSet(Busy) /\ Cardinality(Busy) \in Nat
<1>1. Busy \subseteq Threads
  BY DEF Busy
<1>2. QED
  BY <1>1, SupervisorAssumption, FS_Subset, FS_CardinalityType

LEMMA NextKeepsAccounted == TypeInv /\ LoopShape /\ Accounted /\ [Next]_vars => Accounted'
<1> SUFFICES ASSUME TypeInv, LoopShape, Accounted, [Next]_vars PROVE Accounted'
  OBVIOUS
<1>0. work \in [Workers -> JobType] /\ Threads \subseteq Workers
  BY DEF TypeInv, TypeOK, Workers
<1>1. CASE Start
  BY <1>1, NoneBusy DEF Start, LoopShape
<1>2. CASE LoopAction /\ ~Start
  <2>1. inflight' = inflight /\ work' = work
    BY <1>2 DEF LoopAction, KillSwitch, Resume, OthersCycle, EndCycle, Signal, LeaveTop,
         EnterCycle, DaemonsCycle, CycleRefused, LeaveCycled, NextTicket, NoMoreTickets, Collected,
         LeaveAfter, GoRound, Close, loop
  <2>2. QED
    BY <2>1, SameBusy
<1>3. CASE StageAction
  BY <1>3, StageLeavesLoop, SameBusy DEF loop
<1>4. ASSUME NEW w \in Workers, WorkerAction(w) PROVE Accounted'
  BY <1>0, <1>4, WorkerLeavesLoop, WorkerStaysBusy, SameBusy DEF loop
<1>5. CASE WriteTicket \/ ListTickets
  BY <1>5, SameBusy DEF WriteTicket, ListTickets, loop
<1>6. CASE Die
  BY <1>0, <1>6, NoneBusy DEF Die
<1>7. ASSUME NEW w \in Threads, NEW t \in Tickets, Submit(w, t) PROVE Accounted'
  <2>1. work' = [work EXCEPT ![w] = Job("queued", t)] /\ work[w] = Idle /\ inflight' = inflight + 1
    BY <1>7 DEF Submit
  <2>2. work'[w] # Idle
    BY <1>0, <2>1, NoTicket DEF Job
  <2>3. {v \in Threads : work'[v] # Idle} = Busy \cup {w} /\ w \notin Busy
    BY <1>0, <2>1, <2>2 DEF Busy
  <2>4. Cardinality(Busy \cup {w}) = Cardinality(Busy) + 1
    BY <2>3, BusyIsFinite, FS_AddElement
  <2>5. QED
    BY <2>1, <2>3, <2>4 DEF Accounted, Busy
<1>8. ASSUME NEW w \in Threads, Collect(w) PROVE Accounted'
  <2>1. work' = [work EXCEPT ![w] = Idle] /\ work[w].at = "done" /\ inflight' = CountOff(inflight, w)
    BY <1>8 DEF Collect
  <2>2. w \in Busy
    BY <2>1, NoTicket DEF Busy
  <2>3. {v \in Threads : work'[v] # Idle} = Busy \ {w}
    BY <1>0, <2>1 DEF Busy
  <2>4. Cardinality(Busy \ {w}) = Cardinality(Busy) - 1
    BY <2>2, BusyIsFinite, FS_RemoveElement
  <2>5. Cardinality(Busy) # 0
    BY <2>2, BusyIsFinite, FS_EmptySet
  <2>6. inflight = Cardinality(Busy)
    BY DEF Accounted, Busy
  <2>7. inflight' = inflight - 1
    BY <2>1, <2>5, <2>6, BusyIsFinite DEF CountOff
  <2>8. QED
    BY <2>3, <2>4, <2>6, <2>7 DEF Accounted
<1>9. ASSUME NEW w \in Workers, NEW t \in Tickets, Take(w, t) PROVE Accounted'
  <2>1. \A v \in Threads : work'[v] = work[v]
    BY <1>0, <1>9, SupervisorAssumption DEF Take
  <2>2. QED
    BY <1>9, <2>1, SameBusy DEF Take, loop
<1>10. CASE UNCHANGED vars
  BY <1>10, SameBusy DEF vars, loop
<1>11. QED
  BY <1>1, <1>2, <1>3, <1>4, <1>5, <1>6, <1>7, <1>8, <1>9, <1>10, NextByGroup DEF TicketAction

\* Accounted: the drain coordinator counts exactly the tickets in the pool, so
\* is_drained is true when, and only when, they are all collected.
THEOREM CountIsRight == Spec => []Accounted
<1>1. Init => Accounted
  <2> SUFFICES ASSUME Init PROVE Accounted
    OBVIOUS
  <2>1. {w \in Threads : work[w] # Idle} = {} /\ inflight = 0
    BY DEF Init, Workers
  <2>2. QED
    BY <2>1, FS_EmptySet DEF Accounted
<1>2. QED
  BY <1>1, TypeInvariant, LoopInvariant, NextKeepsAccounted, PTL DEF Spec

-----------------------------------------------------------------------------
(* What a mark says.                                                       *)

MoveInv == MarkedHasMoved /\ RecordedHasMoved

\* A stage that has moved stays moved.
LEMMA MovedStays ==
  ASSUME TypeInv, [Next]_vars, NEW t \in Tickets, Moved(t)
  PROVE  Moved(t)'
<1> DEFINE e == t[1]
<1>0. /\ e \in Execs /\ t[2] \in Nat /\ current[e].i \in Nat /\ Ordinary[e] \in Nat
      /\ current \in [Execs -> [i : Nat \ {0}, st : {"pending", "claimed", "dispatched"},
                                holder : Workers \cup {NoProc}, over : BOOLEAN]]
      /\ current[e].st # "pending" => current[e].i <= Ordinary[e]
  BY TicketParts, SupervisorAssumption DEF TypeInv, TypeOK, OrdinaryTaken
<1>1. CASE current' = current
  BY <1>1 DEF Moved
<1>2. ASSUME NEW d \in Execs, NEW s, current' = [current EXCEPT ![d] = s],
             d = e => \/ s.i > current[e].i /\ s.i \in Nat
                      \/ s.i = current[e].i /\ (current[e].st = "dispatched" => s.st = "dispatched")
      PROVE  Moved(t)'
  BY <1>0, <1>2 DEF Moved
<1>3. CASE StageAction
  <2>1. PICK d \in Execs : HandOff(d) \/ Report(d) \/ Expire(d) \/ Inspect(d)
    BY <1>3 DEF StageAction
  <2>2. current[d] \in [i : Nat \ {0}, st : {"pending", "claimed", "dispatched"},
                        holder : Workers \cup {NoProc}, over : BOOLEAN]
    BY <1>0
  <2>3. CASE HandOff(d)
    <3>1. PICK s : s = [current[d] EXCEPT !.st = "dispatched"]
      OBVIOUS
    <3>2. current' = [current EXCEPT ![d] = s] /\ s.i = current[d].i /\ s.st = "dispatched"
      BY <1>0, <2>2, <2>3, <3>1 DEF HandOff
    <3>3. QED
      BY <1>2, <3>2
  <2>4. CASE Report(d)
    <3>1. PICK i \in {current[d].i + 1, Ordinary[d] + 1} : current' = [current EXCEPT ![d] = Stage(i)]
      BY <2>4 DEF Report
    <3>2. d = e => Stage(i).i > current[e].i /\ Stage(i).i \in Nat
      BY <1>0, <2>4, <3>1 DEF Stage, Report
    <3>3. QED
      BY <1>2, <3>1, <3>2
  <2>5. CASE Expire(d)
    <3>1. PICK s : s = [current[d] EXCEPT !.over = TRUE]
      OBVIOUS
    <3>2. current' = [current EXCEPT ![d] = s] /\ s.i = current[d].i /\ s.st = current[d].st
      BY <1>0, <2>2, <2>5, <3>1 DEF Expire
    <3>3. QED
      BY <1>2, <3>2
  <2>6. CASE Inspect(d)
    <3>1. PICK s : s = Recovered(current[d])
      OBVIOUS
    <3>2. current' = [current EXCEPT ![d] = s]
      BY <2>6, <3>1 DEF Inspect
    <3>3. d = e => \/ s.i > current[e].i /\ s.i \in Nat
                   \/ s.i = current[e].i /\ (current[e].st = "dispatched" => s.st = "dispatched")
      BY <1>0, <3>1 DEF Recovered, Stage
    <3>4. QED
      BY <1>2, <3>2, <3>3
  <2>7. QED
    BY <2>1, <2>3, <2>4, <2>5, <2>6
<1>4. ASSUME NEW w \in Workers, WorkerAction(w) PROVE Moved(t)'
  <2>1. CASE Claim(w)
    <3>1. PICK d : d = work[w].ticket[1]
      OBVIOUS
    <3>2. d \in Execs /\ current[d].st # "dispatched"
      <4>1. work[w] # Idle /\ (Pending(work[w].ticket) \/ current[d].st = "claimed")
        BY <2>1, <3>1, NoTicket DEF Claim, MayClaim
      <4>2. QED
        BY <3>1, <4>1, TicketParts DEF TypeInv, OrdinaryTaken, Pending
    <3>3. PICK s : s = [current[d] EXCEPT !.st = "claimed", !.holder = w, !.over = FALSE]
      OBVIOUS
    <3>4. current' = [current EXCEPT ![d] = s] /\ s.i = current[d].i
      BY <1>0, <2>1, <3>1, <3>2, <3>3 DEF Claim
    <3>5. QED
      BY <1>2, <3>2, <3>4
  <2>2. ASSUME NEW out \in {"dispatched", "processed"}, RunAdapter(w, out), ~(current' = current)
        PROVE  Moved(t)'
    <3>1. PICK d : d = work[w].ticket[1]
      OBVIOUS
    <3>2. Holds(w) /\ work[w] # Idle
      BY <2>2, NoTicket DEF RunAdapter
    <3>3. d \in Execs /\ current[d].st = "claimed"
      BY <3>1, <3>2, TicketParts DEF TypeInv, OrdinaryTaken, Holds
    <3>4. PICK s : s = IF out = "dispatched"
                         THEN [current[d] EXCEPT !.st = "dispatched", !.holder = NoProc]
                         ELSE Stage(current[d].i + 1)
      OBVIOUS
    <3>5. current' = [current EXCEPT ![d] = s]
      BY <2>2, <3>1, <3>2, <3>4 DEF RunAdapter
    <3>6. d = e => (s.i > current[e].i /\ s.i \in Nat) \/ s.i = current[e].i
      <4>1. CASE out = "dispatched"
        BY <1>0, <3>3, <3>4, <4>1
      <4>2. CASE out # "dispatched"
        BY <1>0, <3>3, <3>4, <4>2 DEF Stage
      <4>3. QED
        BY <4>1, <4>2
    <3>7. QED
      BY <1>2, <3>3, <3>5, <3>6
  <2>3. CASE Check(w) \/ ClaimRefused(w) \/ AdapterFails(w) \/ Mark(w)
    BY <1>1, <2>3 DEF Check, ClaimRefused, AdapterFails, Mark, executions
  <2>4. QED
    BY <1>1, <1>4, <2>1, <2>2, <2>3 DEF WorkerAction
<1>5. CASE LoopAction \/ TicketAction \/ UNCHANGED vars
  <2>1. current' = current
    BY <1>5 DEF LoopAction, TicketAction, KillSwitch, Resume, OthersCycle, EndCycle, Start, Signal, LeaveTop,
         EnterCycle, DaemonsCycle, CycleRefused, LeaveCycled, NextTicket, NoMoreTickets, Collected,
         LeaveAfter, GoRound, Close, WriteTicket, ListTickets, Die, Submit, Collect, Take, vars, executions
  <2>2. QED
    BY <1>1, <2>1
<1>6. QED
  BY <1>3, <1>4, <1>5, NextByGroup

\* A step that touches neither tickets nor workers keeps what marks say.
LEMMA QuietMarks ==
  ASSUME TypeInv, MoveInv, [Next]_vars, ticket' = ticket,
         \A v \in Workers : work'[v] = work[v] \/ work'[v].at # "recorded"
  PROVE  MoveInv'
<1>1. \A t \in Tickets : Moved(t) => Moved(t)'
  BY MovedStays
<1>2. \A v \in Workers : work[v].at = "recorded" => work[v].ticket \in Tickets
  BY NoTicket DEF TypeInv, OrdinaryTaken
<1>3. MarkedHasMoved'
  BY <1>1 DEF MoveInv, MarkedHasMoved, Moved
<1>4. RecordedHasMoved'
  <2> SUFFICES ASSUME NEW v \in Workers, work'[v].at = "recorded"
               PROVE  work'[v].out \in {"dispatched", "processed"} /\ Moved(work[v].ticket)'
                      /\ work'[v] = work[v]
    BY DEF RecordedHasMoved, Moved
  <2>1. work'[v] = work[v]
    OBVIOUS
  <2>2. work[v].out \in {"dispatched", "processed"} /\ Moved(work[v].ticket)
    BY <2>1 DEF MoveInv, RecordedHasMoved
  <2>3. work'[v] = work[v] /\ Moved(work[v].ticket)'
    BY <1>1, <1>2, <2>1, <2>2 DEF Moved
  <2>4. QED
    BY <2>1, <2>2, <2>3
<1>5. QED
  BY <1>3, <1>4 DEF MoveInv

LEMMA NextKeepsMoveInv == TypeInv /\ MoveInv /\ [Next]_vars => MoveInv'
<1> SUFFICES ASSUME TypeInv, MoveInv, [Next]_vars PROVE MoveInv'
  OBVIOUS
<1>0. work \in [Workers -> JobType] /\ Threads \subseteq Workers /\ ticket \in [Tickets -> TicketStates]
  BY DEF TypeInv, TypeOK, Workers
<1>1. CASE LoopAction \/ StageAction \/ ListTickets \/ UNCHANGED vars
  <2>1. ticket' = ticket /\ work' = work
    BY <1>1, StageLeavesLoop DEF LoopAction, KillSwitch, Resume, OthersCycle, EndCycle, Start, Signal,
         LeaveTop, EnterCycle, DaemonsCycle, CycleRefused, LeaveCycled, NextTicket, NoMoreTickets,
         Collected, LeaveAfter, GoRound, Close, ListTickets, executions, vars
  <2>2. QED
    BY <2>1, QuietMarks
<1>2. CASE WriteTicket
  <2>1. /\ ticket' = [ticket EXCEPT ![noted] = TicketState(noted)]
        /\ UNCHANGED <<current, work>>
    BY <1>2 DEF WriteTicket
  <2>2. TicketState(noted) \notin {"dispatched", "processed"}
    BY DEF TicketState
  <2>3. \A t \in Tickets : ticket'[t] \in {"dispatched", "processed"} => ticket'[t] = ticket[t]
    BY <1>0, <2>1, <2>2
  <2>4. QED
    BY <2>1, <2>3 DEF MoveInv, MarkedHasMoved, RecordedHasMoved, Moved
<1>3. CASE Die
  <2>1. \A v \in Workers : work'[v] = work[v] \/ work'[v] = Idle
    BY <1>0, <1>3 DEF Die
  <2>2. ticket' = ticket
    BY <1>3 DEF Die, executions
  <2>3. QED
    BY <2>1, <2>2, NoTicket, QuietMarks
<1>4. ASSUME NEW w \in Workers, NEW j, j.at # "recorded", work' = [work EXCEPT ![w] = j], ticket' = ticket
      PROVE  MoveInv'
  <2>1. \A v \in Workers : work'[v] = work[v] \/ work'[v].at # "recorded"
    BY <1>0, <1>4
  <2>2. QED
    BY <1>4, <2>1, QuietMarks
<1>5. ASSUME NEW w \in Workers, NEW t \in Tickets, work' = [work EXCEPT ![w] = Job("queued", t)], ticket' = ticket
      PROVE  MoveInv'
  <2>1. Job("queued", t).at # "recorded"
    BY DEF Job
  <2>2. QED
    BY <1>4, <1>5, <2>1
<1>6. ASSUME NEW w \in Threads, NEW t \in Tickets, Submit(w, t) PROVE MoveInv'
  BY <1>0, <1>5, <1>6 DEF Submit, executions
<1>7. ASSUME NEW w \in Threads, Collect(w) PROVE MoveInv'
  BY <1>0, <1>4, <1>7, NoTicket DEF Collect, executions
<1>8. ASSUME NEW w \in Workers, NEW t \in Tickets, Take(w, t) PROVE MoveInv'
  BY <1>5, <1>8 DEF Take, executions
<1>9. ASSUME NEW w \in Workers, Finish(w)
      PROVE  \A v \in Workers : work'[v] = work[v] \/ work'[v].at # "recorded"
  <2>1. CASE w \in Threads
    <3>1. work' = [work EXCEPT ![w] = [work[w] EXCEPT !.at = "done"]]
      BY <1>9, <2>1 DEF Finish
    <3>2. QED
      BY <1>0, <3>1 DEF JobType
  <2>2. CASE w \notin Threads
    BY <1>0, <1>9, <2>2, NoTicket DEF Finish
  <2>3. QED
    BY <2>1, <2>2
<1>10. ASSUME NEW w \in Workers, NEW p \in Places, p # "recorded", At(w, p), ticket' = ticket
       PROVE  MoveInv'
  <2>1. \A v \in Workers : work'[v] = work[v] \/ work'[v].at # "recorded"
    BY <1>0, <1>10 DEF At, JobType
  <2>2. QED
    BY <1>10, <2>1, QuietMarks
<1>11. ASSUME NEW w \in Workers, WorkerAction(w) PROVE MoveInv'
  <2>1. CASE Check(w) \/ Claim(w) \/ ClaimRefused(w) \/ AdapterFails(w)
    <3>1. ticket' = ticket /\ (Finish(w) \/ \E p \in Places \ {"recorded"} : At(w, p))
      BY <2>1 DEF Check, Claim, ClaimRefused, AdapterFails, executions, Places
    <3>2. QED
      BY <1>9, <1>10, <3>1, QuietMarks
  <2>2. ASSUME NEW out \in {"dispatched", "processed"}, RunAdapter(w, out) PROVE MoveInv'
    <3>1. CASE ~Holds(w)
      BY <1>9, <2>2, <3>1, QuietMarks DEF RunAdapter
    <3>2. CASE Holds(w)
      <4>1. PICK t : t = work[w].ticket
        OBVIOUS
      <4>2. /\ t \in Tickets /\ current[t[1]].i = t[2] /\ t[1] \in Execs
            /\ current[t[1]] \in [i : Nat \ {0}, st : {"pending", "claimed", "dispatched"},
                                  holder : Workers \cup {NoProc}, over : BOOLEAN]
        BY <2>2, <3>2, <4>1, NoTicket, TicketParts
        DEF RunAdapter, Holds, TypeInv, TypeOK, OrdinaryTaken
      <4>3. /\ current' = [current EXCEPT ![t[1]] = IF out = "dispatched"
                             THEN [current[t[1]] EXCEPT !.st = "dispatched", !.holder = NoProc]
                             ELSE Stage(current[t[1]].i + 1)]
            /\ work' = [work EXCEPT ![w].at = "recorded", ![w].out = out]
            /\ ticket' = ticket
        BY <2>2, <3>2, <4>1 DEF RunAdapter
      <4>4. current'[t[1]].i > t[2] \/ (current'[t[1]].i = t[2] /\ current'[t[1]].st = "dispatched")
        <5>1. CASE out = "dispatched"
          BY <4>2, <4>3, <5>1 DEF TypeInv, TypeOK
        <5>2. CASE out # "dispatched"
          BY <4>2, <4>3, <5>2 DEF Stage, TypeInv, TypeOK
        <5>3. QED
          BY <5>1, <5>2
      <4>5. /\ \A v \in Workers : v # w => work'[v] = work[v]
            /\ work'[w].out = out /\ work'[w].ticket = t
        BY <1>0, <4>1, <4>3 DEF JobType
      <4>6. \A u \in Tickets : Moved(u) => Moved(u)'
        BY MovedStays
      <4>7. MarkedHasMoved'
        BY <4>3, <4>6 DEF MoveInv, MarkedHasMoved, Moved
      <4>8. RecordedHasMoved'
        <5> SUFFICES ASSUME NEW v \in Workers, work'[v].at = "recorded"
                     PROVE  work'[v].out \in {"dispatched", "processed"} /\ Moved(work[v].ticket)'
          BY DEF RecordedHasMoved, Moved
        <5>1. CASE v = w
          BY <4>4, <4>5, <5>1 DEF Moved
        <5>2. CASE v # w
          <6>1. work'[v] = work[v] /\ work[v].out \in {"dispatched", "processed"}
                /\ Moved(work[v].ticket) /\ work[v].ticket \in Tickets
            BY <4>5, <5>2, NoTicket DEF MoveInv, RecordedHasMoved, TypeInv, OrdinaryTaken
          <6>2. QED
            BY <4>6, <6>1 DEF Moved
        <5>3. QED
          BY <5>1, <5>2
      <4>9. QED
        BY <4>7, <4>8 DEF MoveInv
    <3>3. QED
      BY <3>1, <3>2
  <2>3. CASE Mark(w)
    <3>1. /\ work[w].at = "recorded" /\ ticket' = [ticket EXCEPT ![work[w].ticket] = work[w].out]
          /\ Finish(w) /\ current' = current
      BY <2>3 DEF Mark
    <3>2. Moved(work[w].ticket)
      BY <3>1 DEF MoveInv, RecordedHasMoved
    <3>3. \A t \in Tickets : ticket'[t] = ticket[t] \/ t = work[w].ticket
      BY <1>0, <3>1
    <3>4. MarkedHasMoved'
      BY <3>1, <3>2, <3>3 DEF MoveInv, MarkedHasMoved, Moved
    <3>5. RecordedHasMoved'
      BY <1>9, <3>1 DEF MoveInv, RecordedHasMoved, Moved
    <3>6. QED
      BY <3>4, <3>5 DEF MoveInv
  <2>4. QED
    BY <1>11, <2>1, <2>2, <2>3 DEF WorkerAction
<1>12. QED
  BY <1>1, <1>2, <1>3, <1>6, <1>7, <1>8, <1>11, NextByGroup DEF TicketAction

\* MarkedHasMoved: a ticket is out of ready only when its execution has moved
\* ("after its durable transition"), whoever races for it and writes it.
THEOREM MarksAreTrue == Spec => []MarkedHasMoved
<1>1. Init => MoveInv
  BY DEF Init, MoveInv, MarkedHasMoved, RecordedHasMoved, Idle, Job
<1>2. MoveInv => MarkedHasMoved
  BY DEF MoveInv
<1>3. QED
  BY <1>1, <1>2, TypeInvariant, NextKeepsMoveInv, PTL DEF Spec
==============================================================================
