-------------------------- MODULE IdempotencyLedger --------------------------
(***************************************************************************)
(* The idempotency ledger (connectors.py) and the callers that guard an    *)
(* external action with it: reserve a key, act, then complete or mark the  *)
(* outcome unknown; a human reconciles an unknown outcome with an approval.*)
(*                                                                         *)
(* Every ledger operation is one step: it holds the exclusive flock from   *)
(* load to save, and the save is a rename.  Reconciliation is three such   *)
(* steps and takes no lock between them: write the reconciling_started     *)
(* record, consume the approval, finish.  Every operation except           *)
(* abort_preflight and the finish first runs the recovery, which settles   *)
(* or rolls back every reconciling_started record it finds, whether the    *)
(* process that wrote it crashed or is still at work.                      *)
(***************************************************************************)
EXTENDS Integers, FiniteSets

CONSTANTS
  Keys,            \* composite keys, one per external operation
  Requests,        \* approvals; those of this module are for reconciliation
  Procs, Scopes, SensitiveActions, ExternalActions, Canon, EmptyTarget,
  DefaultUser, None, NoProc, MaxTime,
  CallOf,          \* key -> the scope reconcile presents when it consumes
  Resolutions,     \* "failed" may be left out: it does what "cancelled" does
  Expirations,     \* expires_at of the approvals on hand
  TTL,             \* ttl_seconds
  MaxReservations  \* bound on reservations drawn

ASSUME CallAssumption == CallOf \in [Keys -> Scopes]
ASSUME LedgerAssumption ==
  /\ MaxTime \in Nat /\ TTL \in Nat \ {0} /\ MaxReservations \in Nat
  /\ Resolutions \subseteq {"completed", "cancelled", "failed"}
  /\ Expirations \subseteq 1 .. MaxTime + 1
  /\ None \notin Keys \cup Requests \cup Resolutions

VARIABLES
  status, scope, expires, token, known, minted, now, holder, presented,
  entry,      \* key -> its ledger entry
  drawn,      \* owner tokens drawn so far: each uuid4 is new
  op,         \* process -> what it has in hand
  effects,    \* history: key -> owner tokens the external action was done under
  released,   \* history: key -> tokens whose key was given back for another try
  spent,      \* history: <<approval, key>> consumed by a reconciliation
  settled,    \* history: <<approval, key>> a reconciliation was recorded with
  disturbed   \* history: approvals whose record another process took over

Q == INSTANCE ApprovalQueue

queueVars  == <<status, scope, expires, token, known, minted, holder, presented>>
ghosts     == <<effects, released, spent, settled, disturbed>>
vars       == <<queueVars, now, entry, drawn, op, ghosts>>

-----------------------------------------------------------------------------

Outcome     == [completed |-> "reconciled_completed", cancelled |-> "reconciled_cancelled",
                failed    |-> "reconciled_failed"]
Done        == {"completed", "reconciled_completed"}
\* Mutant: a key of unknown outcome may be tried again.
FreeOrUnknown == {"missing", "reconciled_cancelled", "reconciled_failed", "preflight_aborted",
                  "unknown_outcome"}

Free        == {"missing", "reconciled_cancelled", "reconciled_failed", "preflight_aborted"}
Reconciled  == {"reconciled_completed", "reconciled_cancelled", "reconciled_failed"}
EntryStates == Done \cup Free \cup {"reserved", "unknown_outcome", "reconciling_started"}

\* tok: owner_token; at: reserved_timestamp; receipt: there is one;
\* app, res: the approval and resolution of a reconciling_started record.
Entry == [st : EntryStates, tok : Nat, at : 0 .. MaxTime, receipt : BOOLEAN,
          app : Requests \cup {None}, res : Resolutions \cup {None}]

\* What a process is doing: nothing, an operation under owner token tok, or
\* a reconciliation past its checks, its record, or its consumption.
Stages == {"idle", "owner", "checked", "recorded", "consumed"}
Op     == [at : Stages, key : Keys \cup {None}, tok : Nat, acted : BOOLEAN,
           app : Requests \cup {None}, res : Resolutions \cup {None}]

NewEntry(s, t, time, receipt) ==
  [st |-> s, tok |-> t, at |-> time, receipt |-> receipt, app |-> None, res |-> None]
NewOp(stage, k, t, a, r) ==
  [at |-> stage, key |-> k, tok |-> t, acted |-> FALSE, app |-> a, res |-> r]

Missing == NewEntry("missing", 0, 0, FALSE)
Idle    == NewOp("idle", None, 0, None, None)

TypeOK ==
  /\ Q!TypeOK
  /\ entry     \in [Keys -> Entry]
  /\ drawn     \in Nat
  /\ op        \in [Procs -> Op]
  /\ effects   \in [Keys -> SUBSET (1 .. drawn)]
  /\ released  \in [Keys -> SUBSET (1 .. drawn)]
  /\ spent     \subseteq Requests \X Keys
  /\ settled   \subseteq Requests \X Keys
  /\ disturbed \subseteq Requests

-----------------------------------------------------------------------------
(* The recovery, run under the lock by whichever process comes next.       *)

\* Mutant: the recovery never settles a record.
NothingToSettle == {}

Recording == {k \in Keys : entry[k].st = "reconciling_started"}
\* Mutant: an approval that is only approved counts as consumed.
ToSettleApproved == {k \in Recording : status[entry[k].app] \in {"approved", "consumed"}}

ToSettle == {k \in Recording : status[entry[k].app] = "consumed"}
ToRollBack == Recording \ ToSettle

WithoutRecord(e, s) == [e EXCEPT !.st = s, !.app = None, !.res = None]

\* A reconciliation settled here keeps no receipt, whatever its resolution.
Recovered ==
  [k \in Keys |->
     IF k \in ToSettle THEN WithoutRecord(entry[k], Outcome[entry[k].res])
     ELSE IF k \in ToRollBack THEN WithoutRecord(entry[k], "unknown_outcome")
     ELSE entry[k]]

\* What the recovery does to the history.
RecoveryHistory ==
  /\ settled'   = settled \cup {<<entry[k].app, k>> : k \in ToSettle}
  /\ released'  = [k \in Keys |->
                     IF k \in ToSettle /\ entry[k].res # "completed"
                       THEN released[k] \cup {entry[k].tok} ELSE released[k]]
  /\ disturbed' = disturbed \cup
                    {op[p].app : p \in {q \in Procs : op[q].at = "recorded"
                                                      /\ op[q].key \in ToRollBack}}

-----------------------------------------------------------------------------
(* Reserve, act, complete.                                                 *)

\* A key nobody has tried, or one given back, is reserved under a new token.
Reserve(p, k) ==
  /\ op[p].at = "idle"
  /\ Recovered[k].st \in Free
  /\ drawn < MaxReservations
  /\ drawn' = drawn + 1
  /\ entry' = [Recovered EXCEPT ![k] = NewEntry("reserved", drawn + 1, now, FALSE)]
  /\ op' = [op EXCEPT ![p] = NewOp("owner", k, drawn + 1, None, None)]
  /\ RecoveryHistory
  /\ UNCHANGED <<queueVars, now, effects, spent>>

\* A caller that finds a reservation past its TTL marks it and is refused.
ReserveExpired(p, k) ==
  /\ op[p].at = "idle"
  /\ Recovered[k].st = "reserved" /\ now - Recovered[k].at >= TTL
  /\ entry' = [Recovered EXCEPT ![k].st = "unknown_outcome"]
  /\ RecoveryHistory
  /\ UNCHANGED <<queueVars, now, drawn, op, effects, spent>>

\* Any operation that is refused, or told the key is completed, has run the
\* recovery all the same.
Refused(p, k) ==
  /\ op[p].at = "idle"
  /\ Recovered[k].st \notin Free
  /\ entry' = Recovered
  /\ RecoveryHistory
  /\ UNCHANGED <<queueVars, now, drawn, op, effects, spent>>

\* The external action: nothing looks at the ledger again before it.
Act(p) ==
  /\ op[p].at = "owner" /\ ~op[p].acted
  /\ op' = [op EXCEPT ![p].acted = TRUE]
  /\ effects' = [effects EXCEPT ![op[p].key] = @ \cup {op[p].tok}]
  /\ UNCHANGED <<queueVars, now, entry, drawn, released, spent, settled, disturbed>>

\* Mutant: the owner token is not compared.
OwnsAny(p, e) == e[op[p].key].st = "reserved"

\* Mutant: the status is not compared.
OwnsToken(p, e) == e[op[p].key].tok = op[p].tok

Owns(p, e) == e[op[p].key].st = "reserved" /\ e[op[p].key].tok = op[p].tok

\* complete: only the owner of a reserved entry; anyone else is refused.
Complete(p) ==
  /\ op[p].at = "owner" /\ op[p].acted
  /\ LET k == op[p].key IN
     entry' = IF Owns(p, Recovered)
                THEN [Recovered EXCEPT ![k] = NewEntry("completed", op[p].tok, 0, TRUE)]
                ELSE Recovered
  /\ op' = [op EXCEPT ![p] = Idle]
  /\ RecoveryHistory
  /\ UNCHANGED <<queueVars, now, drawn, effects, spent>>

\* mark_unknown: the action was started, whether or not it took effect.
MarkUnknown(p) ==
  /\ op[p].at = "owner"
  /\ LET k == op[p].key IN
     entry' = IF Owns(p, Recovered)
                THEN [Recovered EXCEPT ![k] = NewEntry("unknown_outcome", op[p].tok, 0, FALSE)]
                ELSE Recovered
  /\ op' = [op EXCEPT ![p] = Idle]
  /\ RecoveryHistory
  /\ UNCHANGED <<queueVars, now, drawn, effects, spent>>

\* abort_preflight: no recovery here.
GiveBack(p) ==
  /\ op[p].at = "owner"
  /\ LET k == op[p].key IN
     /\ entry' = IF Owns(p, entry)
                   THEN [entry EXCEPT ![k] = NewEntry("preflight_aborted", op[p].tok, 0, FALSE)]
                   ELSE entry
     /\ released' = [released EXCEPT ![k] = IF Owns(p, entry) THEN @ \cup {op[p].tok} ELSE @]
  /\ op' = [op EXCEPT ![p] = Idle]
  /\ UNCHANGED <<queueVars, now, drawn, effects, spent, settled, disturbed>>

\* Callers give a key back when nothing was done.
AbortPreflight(p) == ~op[p].acted /\ GiveBack(p)

\* The process dies, or leaves its reservation behind: create_asset re-raises
\* an API error or a busy profile lock without touching the ledger.
Leave(p) ==
  /\ op[p].at # "idle"
  /\ op' = [op EXCEPT ![p] = Idle]
  /\ UNCHANGED <<queueVars, now, entry, drawn, ghosts>>

-----------------------------------------------------------------------------
(* Reconciliation.                                                         *)

\* The checks before the first lock: the approval is approved as of now.  Its
\* target is not looked at.
ReconcileCheck(p, k, a, r) ==
  /\ op[p].at = "idle"
  /\ status[a] = "approved"
  /\ op' = [op EXCEPT ![p] = NewOp("checked", k, 0, a, r)]
  /\ UNCHANGED <<queueVars, now, entry, drawn, ghosts>>

\* Phase 1, under the lock: unknown_outcome becomes reconciling_started.
ReconcileRecord(p) ==
  /\ op[p].at = "checked"
  /\ LET k == op[p].key IN
     IF Recovered[k].st = "unknown_outcome"
       THEN /\ entry' = [Recovered EXCEPT ![k].st = "reconciling_started",
                                          ![k].app = op[p].app, ![k].res = op[p].res]
            /\ op' = [op EXCEPT ![p].at = "recorded"]
       ELSE entry' = Recovered /\ op' = [op EXCEPT ![p] = Idle]
  /\ RecoveryHistory
  /\ UNCHANGED <<queueVars, now, drawn, effects, spent>>

\* Phase 2, no ledger lock: consume the approval for this key.
ReconcileConsume(p) ==
  /\ op[p].at = "recorded"
  /\ Q!Consume(p, op[p].app, CallOf[op[p].key])
  /\ op' = [op EXCEPT ![p].at = "consumed"]
  /\ spent' = spent \cup {<<op[p].app, op[p].key>>}
  /\ UNCHANGED <<entry, drawn, effects, released, settled, disturbed>>

\* The queue refuses (another target, expired, used meanwhile): the call
\* raises and the record stays behind.
ReconcileRefused(p) ==
  /\ op[p].at = "recorded"
  /\ ~Q!MayConsume(p, op[p].app, CallOf[op[p].key])
  /\ op' = [op EXCEPT ![p] = Idle]
  /\ UNCHANGED <<queueVars, now, entry, drawn, ghosts>>

\* Phase 3, under the lock: any reconciling_started record will do, and the
\* resolution is the caller's own.
ReconcileFinish(p) ==
  /\ op[p].at = "consumed"
  /\ LET k == op[p].key  e == entry[k] IN
     IF e.st = "reconciling_started"
       THEN /\ entry' = [entry EXCEPT ![k] =
                           [WithoutRecord(e, Outcome[op[p].res])
                              EXCEPT !.receipt = @ \/ op[p].res = "completed"]]
            /\ settled' = settled \cup {<<op[p].app, k>>}
            /\ released' = [released EXCEPT ![k] = IF op[p].res = "completed" THEN @ ELSE @ \cup {e.tok}]
            /\ disturbed' = disturbed \cup ({e.app} \ {op[p].app})
       ELSE UNCHANGED <<entry, settled, released, disturbed>>
  /\ op' = [op EXCEPT ![p] = Idle]
  /\ UNCHANGED <<queueVars, now, drawn, effects, spent>>

Tick ==
  /\ Q!Tick
  /\ UNCHANGED <<entry, drawn, op, ghosts>>

-----------------------------------------------------------------------------

\* Approvals for any of the scopes, already approved, that may expire or not.
Init ==
  /\ status = [a \in Requests |-> "approved"]
  /\ scope \in [Requests -> Scopes]
  /\ expires \in [Requests -> Expirations]
  /\ token = [a \in Requests |-> 0]
  /\ known = [p \in Procs |-> {}]
  /\ minted = 0
  /\ now = 0
  /\ holder = [a \in Requests |-> NoProc]
  /\ presented = [a \in Requests |-> None]
  /\ entry = [k \in Keys |-> Missing]
  /\ drawn = 0
  /\ op = [p \in Procs |-> Idle]
  /\ effects = [k \in Keys |-> {}]
  /\ released = [k \in Keys |-> {}]
  /\ spent = {}
  /\ settled = {}
  /\ disturbed = {}

Next ==
  \/ \E p \in Procs, k \in Keys : Reserve(p, k)
  \/ \E p \in Procs, k \in Keys : ReserveExpired(p, k)
  \/ \E p \in Procs, k \in Keys : Refused(p, k)
  \/ \E p \in Procs : Act(p)
  \/ \E p \in Procs : Complete(p)
  \/ \E p \in Procs : MarkUnknown(p)
  \/ \E p \in Procs : AbortPreflight(p)
  \/ \E p \in Procs : Leave(p)
  \/ \E p \in Procs, k \in Keys, a \in Requests, r \in Resolutions : ReconcileCheck(p, k, a, r)
  \/ \E p \in Procs : ReconcileRecord(p)
  \/ \E p \in Procs : ReconcileConsume(p)
  \/ \E p \in Procs : ReconcileRefused(p)
  \/ \E p \in Procs : ReconcileFinish(p)
  \/ Tick

Spec == Init /\ [][Next]_vars

-----------------------------------------------------------------------------
(* Properties.                                                             *)

\* An operation is done under two owner tokens only if a reservation it was
\* done under was given back, by a preflight abort or a human's "cancelled" or
\* "failed": through crashes, expiry, slow owners and any mix of the above.
\* What a caller does that the ledger refused a token is not counted here.
RepeatOnlyAfterRelease ==
  \A k \in Keys : \A s, t \in effects[k] : s # t => s \in released[k] \/ t \in released[k]

\* At most one live process can still complete a key: a slow owner whose
\* reservation expired and was reissued is shut out by its old token.
OneOwner ==
  \A p, q \in Procs :
    /\ op[p].at = "owner" /\ op[q].at = "owner"
    /\ op[p].key = op[q].key
    /\ Owns(p, entry) /\ Owns(q, entry)
    => p = q

\* A completed operation, by its owner or by reconciliation, is final, receipt
\* and all; and an unknown outcome is left only towards reconciliation.
CompletedIsFinal ==
  [][\A k \in Keys :
       /\ entry[k].st \in Done => entry'[k] = entry[k]
       /\ entry[k].st = "unknown_outcome" =>
            entry'[k].st \in {"unknown_outcome", "reconciling_started"}]_vars

\* A key counts as reconciled only on the strength of a consumed approval,
\* whoever recorded it: the reconciler, or the recovery after a crash.
SettledWithApproval ==
  /\ \A k \in Keys : entry[k].st \in Reconciled => \E a \in Requests : <<a, k>> \in settled
  /\ \A x \in settled : status[x[1]] = "consumed"

\* An approval consumed for a key is never wasted by a crash: its
\* reconciliation is recorded, or still on file for the recovery to finish.
\* The exception is a record that another live process rolled back or took.
OnFile(a, k) == entry[k].st = "reconciling_started" /\ entry[k].app = a

CrashLosesNoReconciliation ==
  \A x \in spent : x \in settled \/ OnFile(x[1], x[2]) \/ x[1] \in disturbed

\* The same without the exception, as the protocol's description has it
\* ("prevents dual-consumption / lost-reconciliation").
NoReconciliationLost ==
  \A x \in spent : x \in settled \/ OnFile(x[1], x[2])

\* One approval settles one operation.
ApprovalSettlesOneKey ==
  \A x, y \in settled : x[1] = y[1] => x = y
==============================================================================
