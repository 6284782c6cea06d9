------------------------- MODULE MCExecutionGovernor -------------------------
(***************************************************************************)
(* What runs a task, for TLC: one execution record, the JCode workers, and *)
(* the brain directory that holds it all.  They share no state that either *)
(* module speaks of, so each behaviour follows one of them.                *)
(***************************************************************************)
EXTENDS ExecutionGovernor, WorkerRuns, BrainStore, TLC

CONSTANTS none, noProc,
  Foci       \* what the behaviours follow

VARIABLE focus

MCNone == none

Plan(f, l, r, fin, m) ==
  [freebuff |-> f, local |-> l, routes |-> r, final |-> fin, mentions |-> m]

\* A review alone; every kind of stage, one too many; a task that mentions a
\* final review.
MCPlans == { Plan(FALSE, FALSE, 0, FALSE, FALSE),
             Plan(TRUE, TRUE, 3, TRUE, FALSE),
             Plan(TRUE, FALSE, 1, FALSE, TRUE) }

\* A file that one package may write and one that the other may.
MCFiles    == {<<"src", "a">>, <<"doc">>}
MCPackages == {[paths |-> {<<"src">>}, tests |-> TRUE], [paths |-> {<<"doc">>}, tests |-> FALSE]}

\* Bounds: one run of several works while another may lock; a result that
\* shows changes is otherwise good; the user revokes the opt-in when that is
\* looked at again; and a change is shown as it was made, or is the user's.
OneTeamWorks == Cardinality({c \in Callers : team'[c].at \in {"working", "leaving"}}) <= 1

OneFault == \A c \in Callers, s \in Slots : hand'[c][s].exit # "ok" => hand'[c][s].shown = {}

RevokeMatters ==
  consent /\ ~consent' => \E c \in Callers, s \in Slots : hand[c][s].st = "queued"

OneHand ==
  \A c \in Callers, s \in Slots : hand'[c][s].touched = IF inGit THEN {} ELSE hand'[c][s].shown

\* Bound: two calls on a record overlap until one loses an update, as long as
\* two leases at most are drawn; behaviours with a third lose nothing, and
\* their calls come one after the other, as they do after a loss.
LateCallsAlone ==
  LET calls == Cardinality({p \in Procs : at'[p] \in Calls}) IN
  /\ drawn' > 2 => ~lost' /\ calls <= 1
  /\ lost => calls <= 1

allVars == <<vars, workerVars, storeVars, focus>>

MCInit ==
  /\ Init /\ WorkerInit /\ StoreInit
  /\ focus \in Foci
  /\ focus = "scope" => inGit
  /\ focus # "routes" /\ focus # "scope" => ~inGit

MCNext ==
  /\ \/ focus = "governor" /\ Next /\ LateCallsAlone /\ UNCHANGED <<workerVars, storeVars>>
     \/ /\ \/ focus = "team" /\ TeamNext /\ OneTeamWorks /\ OneFault /\ RevokeMatters /\ OneHand
           \/ focus = "routes" /\ RouteNext /\ OneHand
           \/ focus = "scope" /\ TeamNext
        /\ UNCHANGED <<vars, storeVars>>
     \/ focus = "store" /\ StoreNext /\ UNCHANGED <<vars, workerVars>>
  /\ UNCHANGED focus

MCSpec == MCInit /\ [][MCNext]_allVars

MCFairSpec == MCSpec /\ Fairness

Symmetry == Permutations(Workers)
==============================================================================
