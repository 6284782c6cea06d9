---------------------------- MODULE BrowserOperator ----------------------------
(***************************************************************************)
(* Browser actions (browser_operator.py) on accounts whose profile is      *)
(* locked (accounts.py): one action reserves its key in the ledger, takes  *)
(* the profile, passes the preflight, reserves its approval, acts, consumes*)
(* the approval and completes the key.  A human may take a profile over,   *)
(* and then releases it through a signal file.                             *)
(*                                                                         *)
(* The ledger half of a visit is op of IdempotencyLedger; a visit to a key *)
(* that is completed already has none, and runs all the same.              *)
(***************************************************************************)
EXTENDS IdempotencyLedger

CONSTANTS
  Accounts,      \* accounts registered in the vault
  AccountOf,     \* key -> the account its visits name, or None
  BrowserScope   \* key -> the scope its visits present to the queue

ASSUME BrowserAssumption ==
  /\ AccountOf \in [Keys -> Accounts \cup {None}] /\ BrowserScope \in [Keys -> Scopes]
  /\ NoProc \notin Procs /\ None \notin Accounts

VARIABLES
  sensitive,  \* the keys of SENSITIVE_BROWSER_ACTIONS; no step changes it
  visit,      \* process -> its execute_browser_action or pause_for_takeover
  profile,    \* account -> the process that holds its flock, or NoProc
  takeover,   \* account -> status in its takeover_<account>.json
  signal,     \* account -> its takeover_<account>.signal is there
  acts,       \* history: <<key, approval, its token, owner token>> of every
              \* action done; the owner token is 0 where the visit has none
  orphaned    \* history: accounts whose takeover lost its process

pageVars    == <<takeover, signal, orphaned>>
browserVars == <<sensitive, visit, profile, pageVars, acts>>
ledgerVars  == <<entry, drawn, op, ghosts>>

Inside == {"open", "started", "acted", "consumed", "failing"}
VisitStages == Inside \cup {"idle", "waiting", "paused"}
TakeoverStates == {"inactive", "active", "resumed", "cancelled", "cancelled_timeout"}

NoVisit == [at |-> "idle", key |-> None, account |-> None, app |-> None]

BrowserInit ==
  /\ sensitive \in SUBSET {k \in Keys : AccountOf[k] # None}
  /\ visit = [p \in Procs |-> NoVisit]
  /\ profile = [c \in Accounts |-> NoProc]
  /\ takeover = [c \in Accounts |-> "inactive"]
  /\ signal = [c \in Accounts |-> FALSE]
  /\ acts = {}
  /\ orphaned = {}

-----------------------------------------------------------------------------
(* The profile's flock.                                                    *)

\* Mutant: a takeover that was resumed counts as released.
MayEnterEarly(c) == c = None \/ profile[c] = NoProc \/ takeover[c] = "resumed"

MayEnter(c) == c = None \/ profile[c] = NoProc

Enter(p, c) ==
  profile' = IF c = None THEN profile ELSE [profile EXCEPT ![c] = p]

Exit(p) == profile' = [c \in Accounts |-> IF profile[c] = p THEN NoProc ELSE profile[c]]

To(p, stage) == visit' = [visit EXCEPT ![p].at = stage]

EndVisit(p) ==
  /\ visit' = [visit EXCEPT ![p] = NoVisit]
  /\ Exit(p)

-----------------------------------------------------------------------------
(* execute_browser_action.                                                 *)

\* A sensitive action needs an account and an approval; any other may carry
\* one, and must where the policy asks for it.
Asks(p, k, a) ==
  /\ visit[p].at = "idle"
  /\ k \in sensitive => a # None
  /\ visit' = [visit EXCEPT ![p] = [at |-> "waiting", key |-> k, account |-> AccountOf[k], app |-> a]]
  /\ UNCHANGED <<sensitive, profile, pageVars, acts>>

\* The key is reserved before the profile is taken.
BeginVisit(p, k, a) == Asks(p, k, a) /\ Reserve(p, k)

\* The ledger says the key is completed: the visit goes on without a token.
BeginAgain(p, k, a) == Asks(p, k, a) /\ Refused(p, k) /\ Recovered[k].st \in Done

BeginRefused(p, k) ==
  /\ visit[p].at = "idle"
  /\ ReserveExpired(p, k) \/ (Refused(p, k) /\ Recovered[k].st \notin Done)
  /\ UNCHANGED browserVars

OpenProfile(p) ==
  /\ visit[p].at = "waiting" /\ MayEnter(visit[p].account)
  /\ Enter(p, visit[p].account)
  /\ To(p, "open")
  /\ UNCHANGED <<queueVars, now, ledgerVars, sensitive, pageVars, acts>>

\* The profile is locked: the call raises, and leaves its key reserved.
ProfileBusy(p) ==
  /\ visit[p].at = "waiting" /\ ~MayEnter(visit[p].account)
  /\ op' = [op EXCEPT ![p] = Idle]
  /\ EndVisit(p)
  /\ UNCHANGED <<queueVars, now, entry, drawn, ghosts, sensitive, pageVars, acts>>

\* Mutant: started_operation is set when the action has returned.
UnstartedLate == {"open", "acted"}

\* The stages where started_operation is false.
Unstarted == {"open"}

\* Anything that goes wrong before the action, the approval included.
FailPreflight(p) ==
  /\ visit[p].at \in Unstarted
  /\ EndVisit(p)
  /\ IF op[p].at = "owner" THEN GiveBack(p) ELSE UNCHANGED <<queueVars, now, ledgerVars>>
  /\ UNCHANGED <<sensitive, pageVars, acts>>

\* The approval is reserved last of all; then the operation counts as started.
Start(p) ==
  /\ visit[p].at = "open"
  /\ IF visit[p].app = None THEN UNCHANGED <<queueVars, now>>
     ELSE /\ Q!Reserve(p, visit[p].app, BrowserScope[visit[p].key])
          /\ UNCHANGED now
  /\ To(p, "started")
  /\ UNCHANGED <<ledgerVars, sensitive, profile, pageVars, acts>>

\* The click or the fill, done again by a visit that has no owner token.
DoAct(p) ==
  /\ visit[p].at = "started"
  /\ IF op[p].at = "owner" THEN Act(p) ELSE UNCHANGED <<queueVars, now, ledgerVars>>
  /\ LET a == visit[p].app IN
     acts' = acts \cup {<<visit[p].key, a, IF a = None THEN 0 ELSE token[a],
                          IF op[p].at = "owner" THEN op[p].tok ELSE 0>>}
  /\ To(p, "acted")
  /\ UNCHANGED <<sensitive, profile, pageVars>>

\* Mutant: a consumption that the queue refuses is passed over.
ConsumeApprovalLax(p) ==
  LET a == visit[p].app  c == BrowserScope[visit[p].key] IN
  IF a # None /\ Q!MayConsume(p, a, c) THEN Q!Consume(p, a, c) ELSE UNCHANGED <<queueVars, now>>

ConsumeApproval(p) ==
  IF visit[p].app = None THEN UNCHANGED <<queueVars, now>>
  ELSE Q!Consume(p, visit[p].app, BrowserScope[visit[p].key])

ConsumeVisit(p) ==
  /\ visit[p].at = "acted"
  /\ ConsumeApproval(p)
  /\ To(p, "consumed")
  /\ UNCHANGED <<ledgerVars, sensitive, profile, pageVars, acts>>

\* The receipt is recorded, or the ledger refuses and the failure is refused
\* in the same way.
CompleteVisit(p) ==
  /\ visit[p].at = "consumed"
  /\ IF op[p].at = "owner" THEN Complete(p) ELSE UNCHANGED <<queueVars, now, ledgerVars>>
  /\ EndVisit(p)
  /\ UNCHANGED <<sensitive, pageVars, acts>>

\* A failure once started, of the action, the screenshot or the consumption:
\* first the approval, when the action is sensitive and the queue agrees ...
FailVisit(p) ==
  /\ visit[p].at \in {"started", "acted", "consumed"}
  /\ IF visit[p].key \in sensitive /\ Q!MayMarkUnknown(p, visit[p].app, None)
       THEN Q!MarkUnknown(p, visit[p].app, None)
       ELSE UNCHANGED <<queueVars, now>>
  /\ To(p, "failing")
  /\ UNCHANGED <<ledgerVars, sensitive, profile, pageVars, acts>>

\* ... then the ledger.
FailLedger(p) ==
  /\ visit[p].at = "failing"
  /\ IF op[p].at = "owner" THEN MarkUnknown(p) ELSE UNCHANGED <<queueVars, now, ledgerVars>>
  /\ EndVisit(p)
  /\ UNCHANGED <<sensitive, pageVars, acts>>

\* The process dies: the kernel drops its flock, everything else stays.
CrashVisit(p) ==
  /\ visit[p].at # "idle"
  /\ EndVisit(p)
  /\ op' = [op EXCEPT ![p] = Idle]
  /\ known' = [known EXCEPT ![p] = {}]
  /\ orphaned' = IF visit[p].at = "paused" THEN orphaned \cup {visit[p].account} ELSE orphaned
  /\ UNCHANGED <<status, scope, expires, token, minted, holder, presented, now,
                 entry, drawn, ghosts, sensitive, takeover, signal, acts>>

-----------------------------------------------------------------------------
(* Manual takeover.                                                        *)

PauseForTakeover(p, c) ==
  /\ visit[p].at = "idle" /\ op[p].at = "idle" /\ MayEnter(c)
  /\ Enter(p, c)
  /\ visit' = [visit EXCEPT ![p] = [NoVisit EXCEPT !.at = "paused", !.account = c]]
  /\ signal' = [signal EXCEPT ![c] = TRUE]
  /\ takeover' = [takeover EXCEPT ![c] = "active"]
  /\ orphaned' = orphaned \ {c}
  /\ UNCHANGED <<queueVars, now, ledgerVars, sensitive, acts>>

\* resume_takeover and cancel_takeover remove the signal, whoever's it is, and
\* note their outcome where there is a record.
EndTakeover(c, outcome) ==
  /\ signal[c] \/ takeover[c] \notin {"inactive", outcome}
  /\ signal' = [signal EXCEPT ![c] = FALSE]
  /\ takeover' = [takeover EXCEPT ![c] = IF @ = "inactive" THEN @ ELSE outcome]
  /\ UNCHANGED <<queueVars, now, ledgerVars, sensitive, visit, profile, acts, orphaned>>

\* The pausing process finds the signal gone, by whichever of the two, or
\* runs out of patience; it removes the signal and has the last word.
LeaveTakeover(p) ==
  /\ visit[p].at = "paused"
  /\ LET c == visit[p].account IN
     /\ takeover' = [takeover EXCEPT ![c] = IF signal[c] THEN "cancelled_timeout" ELSE "resumed"]
     /\ signal' = [signal EXCEPT ![c] = FALSE]
  /\ EndVisit(p)
  /\ UNCHANGED <<queueVars, now, ledgerVars, sensitive, acts, orphaned>>

\* get_takeover_status: an active takeover without its signal is resumed.
TakeoverStatus(c) ==
  IF takeover[c] # "inactive" /\ ~signal[c] THEN "resumed" ELSE takeover[c]

BrowserTick == Tick /\ UNCHANGED browserVars

BrowserNext ==
  \/ \E p \in Procs, k \in Keys :
       \/ \E a \in Requests \cup {None} : BeginVisit(p, k, a) \/ BeginAgain(p, k, a)
       \/ BeginRefused(p, k)
  \/ \E p \in Procs :
       \/ OpenProfile(p) \/ ProfileBusy(p) \/ FailPreflight(p) \/ Start(p) \/ DoAct(p)
       \/ ConsumeVisit(p) \/ CompleteVisit(p) \/ FailVisit(p) \/ FailLedger(p)
       \/ CrashVisit(p) \/ LeaveTakeover(p)
  \/ \E p \in Procs, c \in Accounts : PauseForTakeover(p, c)
  \/ \E c \in Accounts, o \in {"resumed", "cancelled"} : EndTakeover(c, o)
  \/ BrowserTick

\* A process with no visit may reconcile a key meanwhile, or die doing so.
Reconciling ==
  /\ \E p \in Procs :
       /\ visit[p].at = "idle"
       /\ \/ \E k \in Keys, a \in Requests, r \in Resolutions : ReconcileCheck(p, k, a, r)
          \/ ReconcileRecord(p) \/ ReconcileConsume(p) \/ ReconcileRefused(p)
          \/ ReconcileFinish(p) \/ Leave(p)
  /\ UNCHANGED browserVars

BrowserSpec ==
  Init /\ BrowserInit /\ [][BrowserNext \/ Reconciling]_<<vars, browserVars>>

-----------------------------------------------------------------------------
(* Properties.                                                             *)

\* Every act is accounted for, the one of a visit without an owner token
\* (browser_operator.py:856-858) included.  Such a visit does act a second time,
\* but only on a key that is completed and stays so: never on one reserved,
\* unknown, aborted or under reconciliation.  And between two acts on a key
\* under owner tokens the key was given back, no token serving for two acts.
RepeatsAreAccounted ==
  /\ RepeatOnlyAfterRelease
  /\ \A x \in acts : x[4] = 0 => entry[x[1]].st \in Done
  /\ \A x, y \in acts : x[1] = y[1] /\ x # y /\ 0 \notin {x[4], y[4]} =>
       x[4] # y[4] /\ {x[4], y[4]} \cap released[x[1]] # {}

\* A key given back as "nothing happened" saw no action under its token, so
\* whoever reserves it next does not repeat one.
AbortedDidNothing ==
  \A k \in Keys : entry[k].st = "preflight_aborted" => entry[k].tok \notin effects[k]

\* Every sensitive action was done under an approval of its own, reserved for
\* exactly that action on that account, the repetition of a completed one
\* included; and a key is completed only when one of them is consumed: a crash
\* or an expiry in between leaves the key unknown, never completed.
SensitiveActsAccounted ==
  /\ \A x \in acts : x[1] \in sensitive =>
       /\ status[x[2]] \in Q!Used
       /\ presented[x[2]] = BrowserScope[x[1]] /\ Q!ScopeFits(scope[x[2]], BrowserScope[x[1]])
       /\ \A y \in acts : y[2] = x[2] => y = x
  /\ \A k \in sensitive : entry[k].st = "completed" =>
       \E x \in acts : x[1] = k /\ status[x[2]] = "consumed"

\* While a human is told the takeover is active, unless its process died, no
\* automated action is inside the profile; and no two actions ever are.
TakeoverIsExclusive ==
  \A p \in Procs : visit[p].at \in Inside /\ visit[p].account # None =>
    LET c == visit[p].account IN
    /\ TakeoverStatus(c) = "active" => c \in orphaned
    /\ \A q \in Procs \ {p} : visit[q].at \in Inside \cup {"paused"} => visit[q].account # c
================================================================================
