------------------------------ MODULE ModelCalls ------------------------------
(***************************************************************************)
(* Calls of language models (gateway.py, budget.py, provider_capacity.py,  *)
(* health.py).  A task tries its routes one after the other.  A call looks *)
(* at the capacity file, sets its estimate aside in the day's ledger,      *)
(* sends the request, settles, and books the outcome in the capacity file  *)
(* and in the health file.                                                 *)
(*                                                                         *)
(* The ledger is read and rewritten under a flock: one step.  The capacity *)
(* file is loaded, written to a temporary file whose name all processes    *)
(* share, and renamed; the health file is loaded, truncated and written;   *)
(* neither takes a lock, so these are steps of their own.                  *)
(*                                                                         *)
(* Tokens and dollars are budgeted by the same code in the same step; one  *)
(* amount stands for both.                                                 *)
(***************************************************************************)
EXTENDS Integers, Sequences, SequencesExt

CONSTANTS
  Procs,        \* processes (or threads) that call models
  Routes,       \* provider:model pairs
  Providers,
  ProviderOf,   \* route -> provider
  Listings,     \* the orders in which list_routes_for_task may give the routes
  Attempts,     \* max_failover_attempts
  Estimate,     \* route -> the amount reserve_budget sets aside for a prompt
  Usages,       \* what a request may really use
  Limit,        \* the daily budget
  NoFile,       \* a file that is not there
  Torn,         \* a file between its truncation and its write
  ErrorLimit,   \* errors that make a provider unhealthy (3)
  DayLength,    \* ticks of the clock in a day
  MaxTime,      \* bound on the clock
  MaxCalls      \* bound on the reservations made

ASSUME ProcAssumption   == IsFiniteSet(Procs)
ASSUME RouteAssumption  == ProviderOf \in [Routes -> Providers]
ASSUME AmountAssumption == Estimate \in [Routes -> Nat] /\ Usages \subseteq Nat /\ Limit \in Nat
ASSUME BoundAssumption  == {DayLength, Attempts, ErrorLimit} \subseteq Nat \ {0} /\ {MaxTime, MaxCalls} \subseteq Nat
ASSUME ListAssumption   == Listings \subseteq Seq(Routes)

Ids     == 1 .. MaxCalls
NoId    == 0
NoBlock == 0
Times   == 0 .. MaxTime + 1
Today(t) == t \div DayLength
Days    == 0 .. Today(MaxTime)

VARIABLES
  now,        \* the clock
  ledger,     \* model-budget.json: its date, what is spent, the reservations
  capacity,   \* provider-capacity.json: route -> blocked_until_epoch
  temp,       \* provider-capacity.tmp
  health,     \* provider_health.json: provider -> error_count, or Torn
  call,       \* process -> the call it is making
  drawn,      \* reservation identifiers drawn: each uuid4 is new
  used,       \* history: day -> what the requests sent that day really used
  excess,     \* history: day -> what they used beyond their estimates
  orphans     \* history: reservations whose process died before settling

files   == <<capacity, temp, health>>
history == <<used, excess, orphans>>
vars    == <<now, ledger, files, call, drawn, history>>

Places == {"idle", "next", "reserve", "sent", "answered", "failed",
           "load", "write", "rename", "health", "truncate", "book"}

NoCall == [at |-> "idle", routes |-> <<>>, id |-> NoId, day |-> 0, usage |-> 0,
           window |-> NoBlock, good |-> FALSE, capacity |-> NoFile, health |-> Torn]

Capacities == [Routes -> Times]
Healths    == UNION { [S -> 0 .. ErrorLimit] : S \in SUBSET Providers }

TypeOK ==
  /\ now \in 0 .. MaxTime
  /\ ledger.date \in Days /\ ledger.spent \in Nat
  /\ DOMAIN ledger.held \subseteq 1 .. drawn
  /\ \A i \in DOMAIN ledger.held : ledger.held[i] \in Nat
  /\ capacity \in Capacities
  /\ temp \in Capacities \cup {NoFile}
  /\ health \in Healths \cup {Torn}
  /\ drawn \in 0 .. MaxCalls
  /\ used \in [Days -> Nat] /\ excess \in [Days -> Nat]
  /\ orphans \subseteq 1 .. drawn
  /\ \A p \in Procs :
       /\ call[p].at \in Places
       /\ call[p].routes \in Seq(Routes)
       /\ call[p].id \in 0 .. drawn
       /\ call[p].day \in Days
       /\ call[p].window \in Times
       /\ call[p].capacity \in Capacities \cup {NoFile}
       /\ call[p].health \in Healths \cup {Torn}

-----------------------------------------------------------------------------
(* The ledger.                                                             *)

EmptyLedger(day) == [date |-> day, spent |-> 0, held |-> <<>>]

\* _read_ledger: a ledger of another day counts as an empty one.
LedgerOf(day) == IF ledger.date = day THEN ledger ELSE EmptyLedger(day)
Held(l)       == SumFunction(l.held)

Without(f, i) == Restrict(f, DOMAIN f \ {i})

Fits(l, amount) == l.spent + Held(l) + amount <= Limit

\* Mutant: the reservations of other calls are lost.
WithOnlyReservation(l, i, amount) == [l EXCEPT !.held = [j \in {i} |-> amount]]

WithReservation(l, i, amount) ==
  [l EXCEPT !.held = [j \in DOMAIN l.held \cup {i} |-> IF j = i THEN amount ELSE l.held[j]]]

\* Mutant: the reservation stays after it is charged.
SettledAndKept(l, i, amount) == [l EXCEPT !.spent = @ + amount]

Settled(l, i, amount) ==
  [l EXCEPT !.held = Without(l.held, i), !.spent = @ + amount]

-----------------------------------------------------------------------------
(* Which routes a task tries.                                              *)

\* A health file that cannot be read counts as an empty one.
Errors(file) == IF file = Torn THEN <<>> ELSE file

Healthy(r) ==
  LET known == Errors(health)
  IN ProviderOf[r] \in DOMAIN known => known[ProviderOf[r]] < ErrorLimit

\* The first route, then those of other providers, then the rest.
Diversified(s) ==
  LET Other(r) == ProviderOf[r] # ProviderOf[s[1]]
      Same(r)  == ~Other(r)
  IN IF s = <<>> THEN s
     ELSE <<s[1]>> \o SelectSeq(Tail(s), Other) \o SelectSeq(Tail(s), Same)

FirstOf(s, n) == SubSeq(s, 1, IF Len(s) < n THEN Len(s) ELSE n)

-----------------------------------------------------------------------------

Init ==
  /\ now      = 0
  /\ ledger   = EmptyLedger(0)
  /\ capacity = [r \in Routes |-> NoBlock]
  /\ temp     = NoFile
  /\ health   = <<>>
  /\ call     = [p \in Procs |-> NoCall]
  /\ drawn    = 0
  /\ used     = [d \in Days |-> 0]
  /\ excess   = [d \in Days |-> 0]
  /\ orphans  = {}

\* Bound: the routes of the tasks under way and of a new one can all be tried.
Room(n) ==
  LET waiting == [p \in Procs |-> Len(call[p].routes)]
  IN drawn + SumFunction(waiting) + n <= MaxCalls

Goes(p, c)  == call' = [call EXCEPT ![p] = c]
At(p, at)   == call[p].at = at
Route(p)    == Head(call[p].routes)

\* The route failed: what failover does with a GuardianError.
NextRoute(p) == [NoCall EXCEPT !.at = "next", !.routes = Tail(call[p].routes)]

\* complete_task_with_failover, up to its loop over at most Attempts routes.
BeginTask(p, listing) ==
  /\ At(p, "idle")
  /\ \E routes \in SeqOf(Routes, Attempts) :
       /\ routes = FirstOf(Diversified(SelectSeq(listing, Healthy)), Attempts)
       /\ routes # <<>> /\ Room(Len(routes))
       /\ Goes(p, [NoCall EXCEPT !.at = "next", !.routes = routes])
  /\ UNCHANGED <<now, ledger, files, drawn, history>>

\* complete_task_with_model called with one route: health is not looked at.
BeginCall(p, r) ==
  /\ At(p, "idle") /\ Room(1)
  /\ Goes(p, [NoCall EXCEPT !.at = "next", !.routes = <<r>>])
  /\ UNCHANGED <<now, ledger, files, drawn, history>>

\* All attempted routes failed.
GiveUp(p) ==
  /\ At(p, "next") /\ call[p].routes = <<>>
  /\ Goes(p, NoCall)
  /\ UNCHANGED <<now, ledger, files, drawn, history>>

\* The checks before the capacity file: the model is prohibited, its route
\* has no address, a combo's members have become unsafe, a credential is
\* missing; and the load of a capacity file that does not parse.
PreflightRefuses(p) ==
  /\ At(p, "next") /\ call[p].routes # <<>>
  /\ Goes(p, NextRoute(p))
  /\ UNCHANGED <<now, ledger, files, drawn, history>>

\* require_capacity_available
Blocked(r) == capacity[r] > now

CapacityRefuses(p) ==
  /\ At(p, "next") /\ call[p].routes # <<>> /\ Blocked(Route(p))
  /\ Goes(p, NextRoute(p))
  /\ UNCHANGED <<now, ledger, files, drawn, history>>

CapacityAllows(p) ==
  /\ At(p, "next") /\ call[p].routes # <<>> /\ ~Blocked(Route(p))
  /\ Goes(p, [call[p] EXCEPT !.at = "reserve"])
  /\ UNCHANGED <<now, ledger, files, drawn, history>>

\* reserve_budget; a refusal leaves nothing in any file.
BudgetRefuses(p) ==
  /\ At(p, "reserve") /\ ~Fits(LedgerOf(Today(now)), Estimate[Route(p)])
  /\ Goes(p, NextRoute(p))
  /\ UNCHANGED <<now, ledger, files, drawn, history>>

Reserve(p) ==
  /\ At(p, "reserve")
  /\ Fits(LedgerOf(Today(now)), Estimate[Route(p)])
  /\ drawn'  = drawn + 1
  /\ ledger' = WithReservation(LedgerOf(Today(now)), drawn', Estimate[Route(p)])
  /\ Goes(p, [call[p] EXCEPT !.at = "sent", !.id = drawn', !.day = Today(now)])
  /\ UNCHANGED <<now, files, history>>

-----------------------------------------------------------------------------
(* The request.  What it really used is known here and, as the usage the   *)
(* provider reports, to a call that is answered; a request that fails may  *)
(* have used something too.  The provider may say that its quota is used   *)
(* up, or that one should come back later, until the next tick.            *)

Windows == {NoBlock, now + 1}

Uses(p, u) ==
  LET day  == call[p].day
      over == u - Estimate[Route(p)]
  IN /\ used'   = [used EXCEPT ![day] = @ + u]
     /\ excess' = [excess EXCEPT ![day] = @ + IF over > 0 THEN over ELSE 0]
     /\ UNCHANGED orphans

Answered(p, u, w) ==
  /\ At(p, "sent") /\ w \in Windows
  /\ Goes(p, [call[p] EXCEPT !.at = "answered", !.usage = u, !.window = w])
  /\ Uses(p, u)
  /\ UNCHANGED <<now, ledger, files, drawn>>

RequestFails(p, u, w) ==
  /\ At(p, "sent") /\ w \in Windows
  /\ Goes(p, [call[p] EXCEPT !.at = "failed", !.window = w])
  /\ Uses(p, u)
  /\ UNCHANGED <<now, ledger, files, drawn>>

\* What a call keeps once it is settled: a reservation that was taken out of
\* the ledger is never found again.
AfterSettling(p, good) ==
  [call[p] EXCEPT !.at = "load", !.good = good, !.id = NoId, !.day = 0, !.usage = 0]

\* settle_budget with the usage that was reported.
SettleAnswer(p) ==
  LET l == LedgerOf(Today(now)) IN
  /\ At(p, "answered") /\ call[p].id \in DOMAIN l.held
  /\ ledger' = Settled(l, call[p].id, call[p].usage)
  /\ Goes(p, AfterSettling(p, TRUE))
  /\ UNCHANGED <<now, files, drawn, history>>

\* The reservation is unknown in today's ledger: the answer is treated as a
\* failure, one without headers.
SettleUnknown(p) ==
  /\ At(p, "answered") /\ call[p].id \notin DOMAIN LedgerOf(Today(now)).held
  /\ Goes(p, [call[p] EXCEPT !.at = "failed", !.window = NoBlock, !.usage = 0])
  /\ UNCHANGED <<now, ledger, files, drawn, history>>

\* Mutant: a failed request is not charged.
SettleFailureFree(p) ==
  LET l == LedgerOf(Today(now))
      i == call[p].id
  IN /\ At(p, "failed")
     /\ ledger' = IF i \in DOMAIN l.held THEN Settled(l, i, 0) ELSE ledger
     /\ Goes(p, AfterSettling(p, FALSE))
     /\ UNCHANGED <<now, files, drawn, history>>

\* Mutant: the handler does not settle.
SettleFailureNot(p) ==
  /\ At(p, "failed")
  /\ Goes(p, AfterSettling(p, FALSE))
  /\ UNCHANGED <<now, ledger, files, drawn, history>>

\* The handler of any exception charges the whole reservation, if it is
\* still there.
SettleFailure(p) ==
  LET l == LedgerOf(Today(now))
      i == call[p].id
  IN /\ At(p, "failed")
     /\ ledger' = IF i \in DOMAIN l.held THEN Settled(l, i, l.held[i]) ELSE ledger
     /\ Goes(p, AfterSettling(p, FALSE))
     /\ UNCHANGED <<now, files, drawn, history>>

-----------------------------------------------------------------------------
(* record_provider_capacity                                                *)

LoadCapacity(p) ==
  /\ At(p, "load")
  /\ Goes(p, [call[p] EXCEPT !.at = "write", !.capacity = capacity])
  /\ UNCHANGED <<now, ledger, files, drawn, history>>

\* The file does not parse: it was damaged, or was renamed while another
\* process had the shared temporary file open.  After an answer that is an
\* error for the handler; in the handler a GuardianError is passed over.
CapacityInvalid(p) ==
  /\ At(p, "load")
  /\ Goes(p, [call[p] EXCEPT !.at = IF call[p].good THEN "failed" ELSE "health", !.window = NoBlock])
  /\ UNCHANGED <<now, ledger, files, drawn, history>>

WriteCapacity(p) ==
  /\ At(p, "write")
  /\ temp' = [call[p].capacity EXCEPT ![Route(p)] = call[p].window]
  /\ Goes(p, [call[p] EXCEPT !.at = "rename", !.capacity = NoFile, !.window = NoBlock])
  /\ UNCHANGED <<now, ledger, capacity, health, drawn, history>>

RenameCapacity(p) ==
  /\ At(p, "rename") /\ temp # NoFile
  /\ capacity' = temp
  /\ temp' = NoFile
  /\ Goes(p, [call[p] EXCEPT !.at = "health"])
  /\ UNCHANGED <<now, ledger, health, drawn, history>>

\* Another process has renamed the temporary file away.  After an answer the
\* error goes to the handler of exceptions; in the handler itself it is no
\* GuardianError and ends the task.
RenameFails(p) ==
  /\ At(p, "rename") /\ temp = NoFile
  /\ Goes(p, IF call[p].good
             THEN [call[p] EXCEPT !.at = "failed", !.window = NoBlock]
             ELSE NoCall)
  /\ UNCHANGED <<now, ledger, files, drawn, history>>

-----------------------------------------------------------------------------
(* record_provider_success and record_provider_error                       *)

Provider(p) == ProviderOf[Route(p)]

\* record_provider_success changes nothing for a provider it has no entry of;
\* the answer is returned.
NothingToHeal(p) ==
  /\ At(p, "health") /\ call[p].good
  /\ Provider(p) \notin DOMAIN Errors(health)
  /\ Goes(p, NoCall)
  /\ UNCHANGED <<now, ledger, files, drawn, history>>

LoadHealth(p) ==
  /\ At(p, "health")
  /\ call[p].good => Provider(p) \in DOMAIN Errors(health)
  /\ Goes(p, [call[p] EXCEPT !.at = "truncate", !.health = Errors(health)])
  /\ UNCHANGED <<now, ledger, files, drawn, history>>

TruncateHealth(p) ==
  /\ At(p, "truncate")
  /\ health' = Torn
  /\ Goes(p, [call[p] EXCEPT !.at = "book"])
  /\ UNCHANGED <<now, ledger, capacity, temp, drawn, history>>

\* Counts from ErrorLimit on are all alike.
OneMore(known, pr) ==
  LET n == IF pr \in DOMAIN known THEN known[pr] ELSE 0
  IN IF n < ErrorLimit THEN n + 1 ELSE n

WithCount(known, pr, n) ==
  [x \in DOMAIN known \cup {pr} |-> IF x = pr THEN n ELSE known[x]]

\* After a success the answer is returned; after an error the next route is
\* tried.
WriteHealth(p) ==
  LET known == call[p].health
      pr    == Provider(p)
  IN /\ At(p, "book")
     /\ health' = WithCount(known, pr, IF call[p].good THEN 0 ELSE OneMore(known, pr))
     /\ Goes(p, IF call[p].good THEN NoCall ELSE NextRoute(p))
     /\ UNCHANGED <<now, ledger, capacity, temp, drawn, history>>

-----------------------------------------------------------------------------

\* The process dies, or is interrupted by what is no Exception.
Crash(p) ==
  /\ ~At(p, "idle")
  /\ Goes(p, NoCall)
  /\ orphans' = orphans \cup ({call[p].id} \cap DOMAIN ledger.held)
  /\ UNCHANGED <<now, ledger, files, drawn, used, excess>>

Tick ==
  /\ now < MaxTime
  /\ now' = now + 1
  /\ UNCHANGED <<ledger, files, call, drawn, history>>

Asks(p) ==
  \/ \E listing \in Listings : BeginTask(p, listing)
  \/ \E r \in Routes : BeginCall(p, r)

Chooses(p) ==
  GiveUp(p) \/ PreflightRefuses(p) \/ CapacityRefuses(p) \/ CapacityAllows(p) \/ BudgetRefuses(p) \/ Reserve(p)

Request(p) ==
  \E u \in Usages, w \in Times : Answered(p, u, w) \/ RequestFails(p, u, w)

Settles(p) == SettleAnswer(p) \/ SettleUnknown(p) \/ SettleFailure(p)

Books(p) ==
  \/ LoadCapacity(p) \/ CapacityInvalid(p) \/ WriteCapacity(p) \/ RenameCapacity(p) \/ RenameFails(p)
  \/ NothingToHeal(p) \/ LoadHealth(p) \/ TruncateHealth(p) \/ WriteHealth(p)

Runs(p) == Chooses(p) \/ Request(p) \/ Settles(p) \/ Books(p)

Next == Tick \/ \E p \in Procs : Asks(p) \/ Runs(p) \/ Crash(p)

Spec == Init /\ [][Next]_vars

-----------------------------------------------------------------------------

Unsettled(p) == call[p].at \in {"sent", "answered"} \/ (At(p, "failed") /\ ~call[p].good)

\* What the requests sent on a day really used stays within the budget of
\* that day, but for what they used beyond the estimates, whichever of them
\* failed, were never settled or were settled on another day; and so does what
\* the ledger has spent and set aside for the calls of all processes under way.
DayWithinLimit ==
  /\ \A d \in Days : used[d] <= Limit + excess[d]
  /\ ledger.spent + Held(ledger) <= Limit + excess[ledger.date]

\* A reservation made today stays in the ledger until its call settles it:
\* no other process's rewrite of the file loses it.
ReservationStands ==
  \A p \in Procs :
    Unsettled(p) /\ call[p].day = Today(now) =>
      ledger.date = Today(now) /\ call[p].id \in DOMAIN ledger.held

\* Every way out of a call gives its reservation back, but for the death of
\* its process: the errors after the settlement and within the handler too.
NothingLeaks ==
  \A i \in DOMAIN LedgerOf(Today(now)).held :
    i \in orphans \/ \E p \in Procs : Unsettled(p) /\ call[p].id = i

Purse == INSTANCE DailyPurse WITH
  Amounts <- Usages \cup Range(Estimate),
  spent <- LedgerOf(Today(now)).spent,
  aside <- LedgerOf(Today(now)).held

\* The ledger implements the purse of a day.
ImplementsDailyPurse == Purse!Init /\ [][Purse!Next]_(Purse!vars)
==============================================================================
