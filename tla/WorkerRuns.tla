------------------------------ MODULE WorkerRuns ------------------------------
(***************************************************************************)
(* JCode runs (jcode.py) and the route to them (worker_router.py).  A run  *)
(* of one or two packages locks their writable paths, gives each package   *)
(* to a thread with a sandbox of its own, collects results as they come    *)
(* until one calls for a stop, waits for the threads and unlocks.          *)
(* `jcode run` and a route run one package and lock nothing.               *)
(*                                                                         *)
(* Files are read and written one at a time, and nothing holds a lock      *)
(* between a scan of the path locks and the writing of a new one.          *)
(***************************************************************************)
EXTENDS Naturals, Sequences, FiniteSets

CONSTANTS
  Callers,     \* processes that start runs or routes
  Files,       \* files of the project, each the sequence of its components
  Packages,    \* task packages on offer: [paths, tests]
  MaxRuns,     \* bound on runs begun
  MaxMinute    \* bound on the clock, which the locks tell in minutes

ASSUME WorkerAssumption ==
  /\ MaxRuns \in Nat /\ MaxMinute \in Nat
  /\ \A f \in Files : f \in Seq(STRING)
  /\ \A k \in Packages : k.tests \in BOOLEAN /\ \A f \in k.paths : f \in Seq(STRING)

Slots == {1, 2}   \* max_workers

VARIABLES
  consent,    \* jcode_consent.json is there
  minute,
  pathLocks,  \* the active lock files
  team,       \* caller -> its run
  hand,       \* caller -> slot -> its thread
  inGit,      \* the project is a git work tree; no step changes it
  route,      \* caller -> the plan of its route
  begun,      \* runs begun
  asked       \* history: the user has opted in

opting     == <<consent, asked>>
world      == <<minute, inGit>>
outcomes   == <<route, begun>>
workerVars == <<opting, world, outcomes, pathLocks, team, hand>>

-----------------------------------------------------------------------------

\* _paths_overlap: one path is the other or lies under it.
Under(f, g) == Len(g) <= Len(f) /\ SubSeq(f, 1, Len(g)) = g
Overlap(f, g) == Under(f, g) \/ Under(g, f)
Overlapping(fs, gs) == \E f \in fs, g \in gs : Overlap(f, g)

\* _validate_out_of_scope finds nothing.
InScope(changed, paths) == \A f \in changed : \E g \in paths : Under(f, g)

\* at: where the run is; next: the package to lock; mine: its locks; seen: the
\* packages whose result was collected; stop: it has a stop condition.
NoTeam == [at |-> "idle", pkgs |-> <<>>, next |-> 1, mine |-> {}, refused |-> FALSE,
           stop |-> FALSE, seen |-> {}]
\* touched: what the worker changed; shown: what its result says was changed.
NoHand == [st |-> "none", touched |-> {}, shown |-> {}, exit |-> "ok"]

Live == {"queued", "running"}

WorkerInit ==
  /\ consent = FALSE /\ asked = FALSE
  /\ minute = 0
  /\ pathLocks = {}
  /\ team = [c \in Callers |-> NoTeam]
  /\ hand = [c \in Callers |-> [s \in Slots |-> NoHand]]
  /\ inGit \in BOOLEAN
  /\ route = [c \in Callers |-> "none"]
  /\ begun = 0

-----------------------------------------------------------------------------
(* The user.                                                               *)

\* jcode_opt_in, and its revocation by deleting the file.
OptIn ==
  /\ ~consent
  /\ consent' = TRUE /\ asked' = TRUE
  /\ UNCHANGED <<world, outcomes, pathLocks, team, hand>>

Revoke ==
  /\ consent
  /\ consent' = FALSE
  /\ UNCHANGED <<world, outcomes, pathLocks, team, hand, asked>>

NextMinute ==
  /\ minute < MaxMinute
  /\ minute' = minute + 1
  /\ UNCHANGED <<opting, outcomes, pathLocks, team, hand, inGit>>

-----------------------------------------------------------------------------
(* Path locks.                                                             *)

\* A lock counts as stale when its minute is over, whatever its ttl; and a
\* caller's own slot never conflicts, in whichever run the lock was taken.
\* That the scan marks stale locks released changes nothing more.
Conflicts(l, s, paths) == minute = l.since /\ l.slot # s /\ Overlapping(paths, l.paths)

\* A thread for each package; the opt-in is checked, and the packages' paths
\* do not overlap.
BeginParallel(c, pkgs) ==
  /\ team[c].at = "idle" /\ begun < MaxRuns
  /\ consent
  /\ \A s, t \in DOMAIN pkgs : s # t => ~Overlapping(pkgs[s].paths, pkgs[t].paths)
  /\ team' = [team EXCEPT ![c] = [NoTeam EXCEPT !.at = "locking", !.pkgs = pkgs]]
  /\ begun' = begun + 1
  /\ UNCHANGED <<opting, world, pathLocks, hand, route>>

\* A refused package does not end the loop over the packages.
ScanLocks(c) ==
  LET t == team[c]  s == t.next  paths == t.pkgs[s].paths IN
  /\ t.at = "locking" /\ s <= Len(t.pkgs)
  /\ team' = IF paths = {} THEN [team EXCEPT ![c].next = s + 1]
             ELSE IF \E l \in pathLocks : Conflicts(l, s, paths)
               THEN [team EXCEPT ![c].next = s + 1, ![c].refused = TRUE]
             ELSE [team EXCEPT ![c].at = "scanned"]
  /\ UNCHANGED <<opting, world, outcomes, pathLocks, hand>>

WriteLock(c) ==
  LET t == team[c]
      l == [by |-> <<c, begun>>, slot |-> t.next, paths |-> t.pkgs[t.next].paths, since |-> minute] IN
  /\ t.at = "scanned"
  /\ pathLocks' = pathLocks \cup {l}
  /\ team' = [team EXCEPT ![c].at = "locking", ![c].next = @ + 1, ![c].mine = @ \cup {l}]
  /\ UNCHANGED <<opting, world, outcomes, hand>>

LocksRefused(c) ==
  /\ team[c].at = "locking" /\ team[c].next > Len(team[c].pkgs) /\ team[c].refused
  /\ pathLocks' = pathLocks \ team[c].mine
  /\ team' = [team EXCEPT ![c] = NoTeam]
  /\ UNCHANGED <<opting, world, outcomes, hand>>

Dispatch(c) ==
  /\ team[c].at = "locking" /\ team[c].next > Len(team[c].pkgs) /\ ~team[c].refused
  /\ team' = [team EXCEPT ![c].at = "working"]
  /\ hand' = [hand EXCEPT ![c] = [s \in Slots |->
                IF s \in DOMAIN team[c].pkgs THEN [NoHand EXCEPT !.st = "queued"] ELSE NoHand]]
  /\ UNCHANGED <<opting, world, outcomes, pathLocks>>

-----------------------------------------------------------------------------
(* execute_jcode_in_sandbox, in a thread.                                  *)

\* The opt-in is checked again, the sandbox is made and JCode starts.
StartHand(c, s) ==
  /\ hand[c][s].st = "queued"
  /\ hand' = [hand EXCEPT ![c][s].st = IF consent THEN "running" ELSE "raised"]
  /\ UNCHANGED <<opting, world, outcomes, pathLocks, team>>

\* A sandbox that cannot be made is a refusal; an error nobody expects may come
\* at any time.
HandFails(c, s, how) ==
  /\ hand[c][s].st = "queued" \/ (hand[c][s].st = "running" /\ how = "broken")
  /\ hand' = [hand EXCEPT ![c][s].st = how]
  /\ UNCHANGED <<opting, world, outcomes, pathLocks, team>>

\* _git_diff_in_sandbox: for a git work tree the uncommitted changes of the
\* project, otherwise the files of the sandbox that are not the project's.
Shown(touched, edited) == IF inGit THEN edited ELSE touched \cup edited

\* JCode ends, and what the user edited meanwhile is in the diff too.  exit is
\* "failed" for a bad exit or a time-out, "untested" when the tests fail.
FinishHand(c, s, touched, edited, exit) ==
  /\ hand[c][s].st = "running"
  /\ exit = "untested" => team[c].pkgs[s].tests
  /\ hand' = [hand EXCEPT ![c][s] =
               [st |-> "done", touched |-> touched, shown |-> Shown(touched, edited), exit |-> exit]]
  /\ UNCHANGED <<opting, world, outcomes, pathLocks, team>>

-----------------------------------------------------------------------------
(* The results.                                                            *)

\* all_changes_valid
Valid(c, s) == InScope(hand[c][s].shown, team[c].pkgs[s].paths)

\* halted: the emergency stop, when it is asked.
CallsForStop(c, s, halted) ==
  hand[c][s].st = "raised" \/ hand[c][s].exit # "ok" \/ ~Valid(c, s) \/ halted

Uncollected(c) == {s \in DOMAIN team[c].pkgs : s \notin team[c].seen}

\* One result at a time, until one calls for a stop.  An error that is not a
\* GuardianError leaves the loop and the function.
Collect(c, s, halted) ==
  /\ team[c].at = "working" /\ ~team[c].stop /\ s \in Uncollected(c)
  /\ hand[c][s].st \in {"done", "raised", "broken"}
  /\ team' = [team EXCEPT ![c].seen = @ \cup {s},
                          ![c].stop = hand[c][s].st # "broken" /\ CallsForStop(c, s, halted),
                          ![c].at = IF hand[c][s].st = "broken" THEN "leaving" ELSE @]
  /\ UNCHANGED <<opting, world, outcomes, pathLocks, hand>>

GlobalTimeout(c) ==
  /\ team[c].at = "working" /\ ~team[c].stop /\ Uncollected(c) # {}
  /\ team' = [team EXCEPT ![c].stop = TRUE]
  /\ UNCHANGED <<opting, world, outcomes, pathLocks, hand>>

\* Mutant: after a stop the pool is left without waiting.
JoinedUnlessStopped(c) == team[c].stop \/ \A s \in Slots : hand[c][s].st \notin Live

\* Leaving the pool waits for every thread, collected or not.
Joined(c) == \A s \in Slots : hand[c][s].st \notin Live

\* Threads that have ended are gone.
HandsLeft(c) == [hand EXCEPT ![c] = [s \in Slots |-> IF hand[c][s].st \in Live THEN hand[c][s] ELSE NoHand]]

\* The run has all it will report.
Ended(c) == team[c].at = "working" /\ (team[c].stop \/ Uncollected(c) = {}) /\ Joined(c)

\* Locks are given back, and what was collected is reported.
Return(c) ==
  /\ Ended(c)
  /\ pathLocks' = pathLocks \ team[c].mine
  /\ team' = [team EXCEPT ![c] = NoTeam]
  /\ hand' = HandsLeft(c)
  /\ UNCHANGED <<opting, world, outcomes>>

\* The unexpected error: the threads are waited for, the locks are not given
\* back.
Raise(c) ==
  /\ team[c].at = "leaving" /\ Joined(c)
  /\ team' = [team EXCEPT ![c] = NoTeam]
  /\ hand' = HandsLeft(c)
  /\ UNCHANGED <<opting, world, outcomes, pathLocks>>

\* The process dies, its threads with it.
CallerDies(c) ==
  /\ team[c].at # "idle"
  /\ team' = [team EXCEPT ![c] = NoTeam]
  /\ hand' = [hand EXCEPT ![c] = [s \in Slots |-> NoHand]]
  /\ UNCHANGED <<opting, world, outcomes, pathLocks>>

-----------------------------------------------------------------------------
(* One worker, without locks: `jcode run` and a route.                     *)

Alone(c, pkg) ==
  /\ team[c].at = "idle" /\ begun < MaxRuns
  /\ begun' = begun + 1
  /\ team' = [team EXCEPT ![c] = [NoTeam EXCEPT !.at = "alone", !.pkgs = <<pkg>>, !.seen = {1}]]
  /\ hand' = [hand EXCEPT ![c] = [s \in Slots |-> IF s = 1 THEN [NoHand EXCEPT !.st = "queued"] ELSE NoHand]]
  /\ UNCHANGED <<world, pathLocks>>

JcodeRun(c, pkg) == Alone(c, pkg) /\ UNCHANGED <<opting, route>>

AloneEnds(c) ==
  /\ team[c].at = "alone" /\ Joined(c)
  /\ team' = [team EXCEPT ![c] = NoTeam]
  /\ hand' = HandsLeft(c)
  /\ UNCHANGED <<opting, world, outcomes, pathLocks>>

FallbackOrder(category) ==
  CASE category = "research" -> <<"hermes", "aider">>
    [] category = "large"    -> <<"jcode", "aider">>
    [] category = "small"    -> <<"aider", "jcode", "hermes">>

\* _select_worker: the first installed worker that can execute, and Hermes
\* never can; else an installed one, for a handoff; else Aider.
SelectedWorker(category, installed) ==
  LET chain == SelectSeq(FallbackOrder(category), LAMBDA w : w \in installed)
      able  == SelectSeq(chain, LAMBDA w : w # "hermes")
  IN  IF able # <<>> THEN able[1] ELSE IF chain # <<>> THEN chain[1] ELSE "aider"

\* Mutant: the opt-in is left to the execution.
MayExecuteUnasked(w, installed) == w \in installed \ {"hermes"}

MayExecute(w, installed) ==
  /\ w \in installed \ {"hermes"}
  /\ w = "jcode" => consent

\* route_task.
PlanRoute(c, category, installed) ==
  /\ route[c] = "none" /\ team[c].at = "idle"
  /\ LET w == SelectedWorker(category, installed) IN
     route' = [route EXCEPT ![c] = IF MayExecute(w, installed) THEN w ELSE "refused"]
  /\ UNCHANGED <<opting, world, begun, pathLocks, team, hand>>

\* execute_route: a plan made under a consent that is gone opts in again.
ExecuteRoute(c, pkg) ==
  /\ route[c] = "jcode"
  /\ Alone(c, pkg)
  /\ consent' = TRUE
  /\ route' = [route EXCEPT ![c] = "none"]
  /\ UNCHANGED asked

\* Any other plan leads to a refusal, or to Aider.
RouteEnds(c) ==
  /\ route[c] \in {"refused", "aider"}
  /\ route' = [route EXCEPT ![c] = "none"]
  /\ UNCHANGED <<opting, world, begun, pathLocks, team, hand>>

Teams == {<<p>> : p \in Packages} \cup {<<p, q>> : p \in Packages, q \in Packages}

OneOrNone(S) == {{}} \cup {{x} : x \in S}

HandNext ==
  \E c \in Callers, s \in Slots :
    \/ StartHand(c, s)
    \/ \E how \in {"raised", "broken"} : HandFails(c, s, how)
    \/ \E touched, edited \in OneOrNone(Files), exit \in {"ok", "failed", "untested"} :
         FinishHand(c, s, touched, edited, exit)

\* Runs of packages on the one hand, single workers and routes on the other.
TeamNext ==
  \/ OptIn \/ Revoke \/ NextMinute
  \/ HandNext
  \/ \E c \in Callers :
       \/ \E pkgs \in Teams : BeginParallel(c, pkgs)
       \/ ScanLocks(c) \/ WriteLock(c) \/ LocksRefused(c) \/ Dispatch(c)
       \/ \E s \in Slots, halted \in BOOLEAN : Collect(c, s, halted)
       \/ GlobalTimeout(c) \/ Return(c) \/ Raise(c) \/ CallerDies(c)

RouteNext ==
  \/ OptIn \/ Revoke
  \/ HandNext
  \/ \E c \in Callers :
       \/ \E pkg \in Packages : JcodeRun(c, pkg) \/ ExecuteRoute(c, pkg)
       \/ \E category \in {"small", "large", "research"}, installed \in SUBSET {"aider", "jcode", "hermes"} :
            PlanRoute(c, category, installed)
       \/ RouteEnds(c) \/ AloneEnds(c) \/ CallerDies(c)

WorkerSpec == WorkerInit /\ [][TeamNext \/ RouteNext]_workerVars

-----------------------------------------------------------------------------
(* Properties.                                                             *)

\* A worker of a parallel run works under locks its run has not given back,
\* though they may have gone stale: the threads are joined first, through
\* stops, time-outs, refused packages and errors.  And a run that ends without
\* a stop condition has collected every package, each with a good exit, passing
\* tests and no change that was found out of scope.
RunsEndSettled ==
  \A c \in Callers :
    /\ \A s \in Slots : hand[c][s].st \in Live =>
         /\ s \in DOMAIN team[c].pkgs
         /\ team[c].at # "alone" /\ team[c].pkgs[s].paths # {} =>
              \E l \in pathLocks \cap team[c].mine : l.paths = team[c].pkgs[s].paths
    /\ Ended(c) /\ ~team[c].stop => \A s \in DOMAIN team[c].pkgs :
         hand[c][s].st = "done" /\ hand[c][s].exit = "ok" /\ Valid(c, s)

\* JCode never runs in a project whose user has not once opted in, whatever a
\* route opts into by itself.
NeverUnasked == \A c \in Callers, s \in Slots : hand[c][s].st = "running" => asked

\* What a run reports valid stayed within the writable paths ("Validates that
\* all changed files are within the approved writable paths").
ReportedScopeIsTrue ==
  \A c \in Callers : Ended(c) => \A s \in team[c].seen :
    hand[c][s].st = "done" /\ Valid(c, s) => InScope(hand[c][s].touched, team[c].pkgs[s].paths)
===============================================================================
