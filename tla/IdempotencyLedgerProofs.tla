----------------------- MODULE IdempotencyLedgerProofs -----------------------
(***************************************************************************)
(* What IdempotencyLedger guarantees for any keys, processes, approvals,   *)
(* TTL and number of reservations.                                         *)
(*                                                                         *)
(* RepeatOnlyAfterRelease is not inductive.  What makes it so is where the *)
(* tokens are: every token an action was done under is either released or  *)
(* still the one in the entry (EffectsKnown), a free entry's token is      *)
(* released (FreeIsReleased), and an owner's token is of one of those two  *)
(* kinds and belongs to it alone (OwnersKnown).  What a crash cannot lose  *)
(* follows from LossInv: a reconciliation past its record is on file,      *)
(* recorded, or disturbed by another live process.                         *)
(***************************************************************************)
EXTENDS IdempotencyLedger, TLAPS

\* A process past its checks has an operation, a reconciliation its approval.
OpWellFormed ==
  \A p \in Procs :
    /\ op[p].at # "idle" => op[p].key \in Keys
    /\ op[p].at \in {"checked", "recorded", "consumed"} =>
         op[p].app \in Requests /\ op[p].res \in Resolutions

RecordWellFormed ==
  \A k \in Keys : entry[k].st = "reconciling_started" =>
    entry[k].app \in Requests /\ entry[k].res \in Resolutions

EntryTokens ==
  \A k \in Keys : entry[k].tok \in IF entry[k].st = "missing" THEN {0} ELSE 1 .. drawn

EffectsKnown == \A k \in Keys : effects[k] \subseteq released[k] \cup {entry[k].tok}

FreeIsReleased ==
  \A k \in Keys : entry[k].st \in Free \ {"missing"} => entry[k].tok \in released[k]

OwnersKnown ==
  /\ \A p \in Procs : op[p].at = "owner" =>
       /\ op[p].tok \in 1 .. drawn
       /\ op[p].tok \in released[op[p].key] \cup {entry[op[p].key].tok}
  /\ \A p, q \in Procs : op[p].at = "owner" /\ op[q].at = "owner" /\ op[p].tok = op[q].tok => p = q

IInv ==
  /\ TypeOK /\ OpWellFormed /\ RecordWellFormed /\ EntryTokens
  /\ EffectsKnown /\ FreeIsReleased /\ OwnersKnown

\* What a reconciliation has on its side at each stage.
LossInv ==
  /\ \A x \in spent : status[x[1]] = "consumed"
  /\ \A p \in Procs : op[p].at = "consumed" => status[op[p].app] = "consumed"
  /\ \A p \in Procs : op[p].at = "recorded" =>
       \/ OnFile(op[p].app, op[p].key)
       \/ <<op[p].app, op[p].key>> \in settled
       \/ op[p].app \in disturbed

-----------------------------------------------------------------------------
(* Types of the recovery.                                                  *)

LEMMA OutcomeType ==
  \A r \in Resolutions : Outcome[r] \in Reconciled /\ (r # "completed" => Outcome[r] \in Free)
                         /\ Outcome[r] # "missing"
<1> SUFFICES ASSUME NEW r \in Resolutions
             PROVE Outcome[r] \in Reconciled /\ (r # "completed" => Outcome[r] \in Free)
                   /\ Outcome[r] # "missing"
  OBVIOUS
<1>1. r \in {"completed", "cancelled", "failed"}
  BY LedgerAssumption
<1>2. QED
  BY <1>1 DEF Outcome, Reconciled, Free

\* One entry after the recovery: untouched unless it was a record, and a
\* record keeps its token and leaves reconciling_started.
LEMMA RecoveredEntry ==
  ASSUME IInv, NEW k \in Keys
  PROVE  /\ Recovered[k] \in Entry
         /\ Recovered[k].tok = entry[k].tok
         /\ Recovered[k].st # "reconciling_started"
         /\ k \notin Recording => Recovered[k] = entry[k]
         /\ k \in ToSettle => Recovered[k].st = Outcome[entry[k].res]
         /\ k \in ToRollBack => Recovered[k].st = "unknown_outcome"
<1>0. entry[k] \in Entry
  BY DEF IInv, TypeOK
<1>1. CASE k \notin Recording
  <2>1. Recovered[k] = entry[k] /\ entry[k].st # "reconciling_started"
    BY <1>1 DEF Recovered, ToSettle, ToRollBack, Recording
  <2>2. QED
    BY <1>0, <1>1, <2>1 DEF ToSettle, ToRollBack
<1>2. CASE k \in ToSettle
  <2>1. entry[k].res \in Resolutions
    BY <1>2 DEF IInv, RecordWellFormed, ToSettle, Recording
  <2>2. Recovered[k] = WithoutRecord(entry[k], Outcome[entry[k].res])
    BY <1>2 DEF Recovered
  <2>3. Outcome[entry[k].res] \in Reconciled
    BY <2>1, OutcomeType
  <2>4. QED
    BY <1>0, <1>2, <2>2, <2>3
    DEF WithoutRecord, Entry, EntryStates, Done, Free, Reconciled, ToRollBack, ToSettle
<1>3. CASE k \in ToRollBack
  <2>1. Recovered[k] = WithoutRecord(entry[k], "unknown_outcome")
    BY <1>3 DEF Recovered, ToRollBack
  <2>2. QED
    BY <1>0, <1>3, <2>1 DEF WithoutRecord, Entry, EntryStates, ToRollBack, ToSettle
<1>4. QED
  BY <1>1, <1>2, <1>3 DEF ToRollBack

\* The recovery neither creates nor removes an entry.
LEMMA RecoveredMissing ==
  ASSUME IInv, NEW k \in Keys
  PROVE  Recovered[k].st = "missing" <=> entry[k].st = "missing"
<1>1. k \in ToSettle => entry[k].res \in Resolutions
  BY DEF IInv, RecordWellFormed, ToSettle, Recording
<1>2. CASE k \in ToSettle
  BY <1>1, <1>2, RecoveredEntry, OutcomeType DEF ToSettle, Recording
<1>3. CASE k \in ToRollBack
  BY <1>3, RecoveredEntry DEF ToRollBack, Recording
<1>4. CASE k \notin Recording
  BY <1>4, RecoveredEntry
<1>5. QED
  BY <1>2, <1>3, <1>4 DEF ToRollBack

LEMMA RecoveredType == IInv => Recovered \in [Keys -> Entry] /\ DOMAIN Recovered = Keys
<1> SUFFICES ASSUME IInv PROVE Recovered \in [Keys -> Entry] /\ DOMAIN Recovered = Keys
  OBVIOUS
<1>1. \A k \in Keys : Recovered[k] \in Entry
  BY RecoveredEntry
<1>2. QED
  BY <1>1 DEF Recovered

\* The history after the recovery: nothing is taken back, and what the
\* recovery gives back for another try is released.
LEMMA RecoveryKeepsHistory ==
  ASSUME IInv, RecoveryHistory
  PROVE  /\ released' \in [Keys -> SUBSET (1 .. drawn)]
         /\ settled' \subseteq Requests \X Keys
         /\ disturbed' \subseteq Requests
         /\ \A k \in Keys : released[k] \subseteq released'[k]
         /\ \A k \in Keys : Recovered[k].st \in Free \ {"missing"} => entry[k].tok \in released'[k]
<1>1. \A k \in Keys : released'[k] = IF k \in ToSettle /\ entry[k].res # "completed"
                                       THEN released[k] \cup {entry[k].tok} ELSE released[k]
  BY DEF RecoveryHistory
<1>2. DOMAIN released' = Keys /\ released' = [k \in Keys |-> released'[k]]
  BY DEF RecoveryHistory
<1>3. \A k \in ToSettle : entry[k].tok \in 1 .. drawn /\ entry[k].app \in Requests
                          /\ entry[k].res \in Resolutions /\ k \in Keys
  BY DEF IInv, EntryTokens, RecordWellFormed, ToSettle, Recording
<1>4. \A k \in Keys : released'[k] \subseteq 1 .. drawn
  <2> SUFFICES ASSUME NEW k \in Keys PROVE released'[k] \subseteq 1 .. drawn
    OBVIOUS
  <2>1. released[k] \subseteq 1 .. drawn
    BY DEF IInv, TypeOK
  <2>2. QED
    BY <1>1, <1>3, <2>1
<1>5. settled' \subseteq Requests \X Keys
  BY <1>3 DEF IInv, TypeOK, RecoveryHistory
<1>6. disturbed' \subseteq Requests
  BY DEF IInv, TypeOK, OpWellFormed, RecoveryHistory
<1>7. ASSUME NEW k \in Keys, Recovered[k].st \in Free \ {"missing"}
      PROVE  entry[k].tok \in released'[k]
  <2>1. CASE k \in ToSettle
    <3>1. entry[k].res # "completed"
      BY <1>7, <2>1, RecoveredEntry DEF Outcome, Free
    <3>2. QED
      BY <1>1, <2>1, <3>1
  <2>2. CASE k \in ToRollBack
    BY <1>7, <2>2, RecoveredEntry DEF Free
  <2>3. CASE k \notin Recording
    <3>1. Recovered[k] = entry[k]
      BY <2>3, RecoveredEntry
    <3>2. entry[k].tok \in released[k]
      BY <1>7, <3>1 DEF IInv, FreeIsReleased
    <3>3. QED
      BY <1>1, <3>2
  <2>4. QED
    BY <2>1, <2>2, <2>3 DEF ToRollBack
<1>8. QED
  BY <1>1, <1>2, <1>4, <1>5, <1>6, <1>7

-----------------------------------------------------------------------------
(* IInv is inductive.                                                      *)

LEMMA InitIInv == Init => IInv
<1> SUFFICES ASSUME Init PROVE IInv
  OBVIOUS
<1>1. scope \in [Requests -> Scopes]
  BY CallAssumption DEF Init
<1>2. expires \in [Requests -> 1 .. MaxTime + 1]
  BY LedgerAssumption DEF Init
<1>3. Q!TypeOK
  BY <1>1, <1>2, LedgerAssumption
  DEF Init, Q!TypeOK, Q!Statuses, Q!Expiries, Q!NoExpiry
<1>4. Missing \in Entry /\ Idle \in Op
  BY LedgerAssumption DEF Missing, Idle, NewEntry, NewOp, Entry, Op, EntryStates, Free, Done, Stages
<1>5. TypeOK
  BY <1>3, <1>4 DEF Init, TypeOK
<1>6. QED
  BY <1>5 DEF Init, IInv, OpWellFormed, RecordWellFormed, EntryTokens, EffectsKnown,
              FreeIsReleased, OwnersKnown, Missing, Idle, NewEntry, NewOp, Free

\* A step that draws no token and does no action keeps IInv when it keeps the
\* tokens where they are and releases what it frees.
LEMMA QuietStep ==
  ASSUME IInv, TypeOK', OpWellFormed', RecordWellFormed', drawn' = drawn, effects' = effects,
         \A k \in Keys : released[k] \subseteq released'[k],
         \A k \in Keys : entry'[k].tok = entry[k].tok
                         /\ (entry'[k].st = "missing" <=> entry[k].st = "missing"),
         \A k \in Keys : entry'[k].st \in Free \ {"missing"} => entry'[k].tok \in released'[k],
         \A p \in Procs : op'[p].at = "owner" =>
           op[p].at = "owner" /\ op'[p].key = op[p].key /\ op'[p].tok = op[p].tok
  PROVE  IInv'
<1>1. EntryTokens'
  BY DEF IInv, EntryTokens
<1>2. EffectsKnown'
  BY DEF IInv, EffectsKnown
<1>3. FreeIsReleased'
  BY DEF FreeIsReleased
<1>4. ASSUME NEW p \in Procs, op'[p].at = "owner"
      PROVE  /\ op'[p].tok \in 1 .. drawn
             /\ op'[p].tok \in released'[op'[p].key] \cup {entry'[op'[p].key].tok}
  <2>1. op[p].at = "owner" /\ op'[p].key = op[p].key /\ op'[p].tok = op[p].tok
    BY <1>4
  <2>2. op[p].key \in Keys
    BY <2>1 DEF IInv, OpWellFormed
  <2>3. op[p].tok \in 1 .. drawn /\ op[p].tok \in released[op[p].key] \cup {entry[op[p].key].tok}
    BY <2>1 DEF IInv, OwnersKnown
  <2>4. QED
    BY <2>1, <2>2, <2>3
<1>5. OwnersKnown'
  BY <1>4 DEF IInv, OwnersKnown
<1>6. QED
  BY <1>1, <1>2, <1>3, <1>5 DEF IInv

\* Operations that run the recovery and free no key of their own: what they
\* do to their own entry keeps its token and does not make it free.
LEMMA RecoveringStep ==
  ASSUME IInv, RecoveryHistory, Q!TypeOK', drawn' = drawn, effects' = effects, spent' = spent,
         op' \in [Procs -> Op], OpWellFormed',
         \A p \in Procs : op'[p].at = "owner" => op'[p] = op[p],
         entry' \in [Keys -> Entry],
         \A k \in Keys : \/ entry'[k] = Recovered[k]
                         \/ /\ entry'[k].tok = entry[k].tok
                            /\ entry[k].st # "missing" /\ entry'[k].st \notin Free
                            /\ entry'[k].st = "reconciling_started" =>
                                 entry'[k].app \in Requests /\ entry'[k].res \in Resolutions
  PROVE  IInv'
<1>1. TypeOK'
  BY RecoveryKeepsHistory DEF IInv, TypeOK
<1>2. \A k \in Keys : Recovered[k].st = "missing" <=> entry[k].st = "missing"
  BY RecoveredMissing
<1>3. \A k \in Keys : entry'[k].tok = entry[k].tok
                      /\ (entry'[k].st = "missing" <=> entry[k].st = "missing")
  BY <1>2, RecoveredEntry DEF Free
<1>4. \A k \in Keys : entry'[k].st \in Free \ {"missing"} => entry'[k].tok \in released'[k]
  BY <1>3, RecoveryKeepsHistory
<1>5. RecordWellFormed'
  BY RecoveredEntry DEF RecordWellFormed
<1>6. \A k \in Keys : released[k] \subseteq released'[k]
  BY RecoveryKeepsHistory
<1>7. QED
  BY <1>1, <1>3, <1>4, <1>5, <1>6, QuietStep

LEMMA IdleIsOp == Idle \in Op
  BY LedgerAssumption DEF Idle, NewOp, Op, Stages

\* A process that has finished leaves the others' operations alone.
LEMMA Finished ==
  ASSUME IInv, NEW p \in Procs, op' = [op EXCEPT ![p] = Idle]
  PROVE  /\ op' \in [Procs -> Op]
         /\ OpWellFormed'
         /\ \A q \in Procs : op'[q].at = "owner" => op'[q] = op[q]
<1>1. op \in [Procs -> Op]
  BY DEF IInv, TypeOK
<1>2. \A q \in Procs : op'[q] = IF q = p THEN Idle ELSE op[q]
  BY <1>1
<1>3. Idle.at = "idle"
  BY DEF Idle, NewOp
<1>4. QED
  BY <1>1, <1>2, <1>3, IdleIsOp DEF IInv, OpWellFormed

LEMMA ReserveKeepsIInv ==
  ASSUME IInv, NEW p \in Procs, NEW k \in Keys, Reserve(p, k)
  PROVE  IInv'
<1> DEFINE new  == NewEntry("reserved", drawn + 1, now, FALSE)
           mine == NewOp("owner", k, drawn + 1, None, None)
<1>1. /\ Recovered[k].st \in Free
      /\ drawn' = drawn + 1
      /\ entry' = [Recovered EXCEPT ![k] = new]
      /\ op' = [op EXCEPT ![p] = mine]
      /\ RecoveryHistory
      /\ effects' = effects /\ spent' = spent
  BY DEF Reserve
<1>2. drawn \in Nat /\ 1 .. drawn \subseteq 1 .. drawn' /\ drawn + 1 \in 1 .. drawn'
      /\ drawn + 1 \notin 1 .. drawn /\ drawn + 1 # 0
  BY <1>1 DEF IInv, TypeOK
<1>3. now \in 0 .. MaxTime
  BY DEF IInv, TypeOK, Q!TypeOK
<1>4. new \in Entry /\ new.st = "reserved" /\ new.tok = drawn + 1
  BY <1>2, <1>3 DEF NewEntry, Entry, EntryStates
<1>5. mine \in Op /\ mine.at = "owner" /\ mine.key = k /\ mine.tok = drawn + 1
  BY <1>2 DEF NewOp, Op, Stages
<1> HIDE DEF new, mine
<1>6. \A j \in Keys : entry'[j] = IF j = k THEN new ELSE Recovered[j]
  BY <1>1, RecoveredType
<1>7. \A q \in Procs : op'[q] = IF q = p THEN mine ELSE op[q]
  BY <1>1 DEF IInv, TypeOK
<1>8. \A j \in Keys : /\ effects'[j] \subseteq 1 .. drawn /\ released'[j] \subseteq 1 .. drawn
                      /\ released[j] \subseteq released'[j]
  BY <1>1, RecoveryKeepsHistory DEF IInv, TypeOK
<1>9. TypeOK'
  <2>1. Q!TypeOK'
    BY DEF Reserve, IInv, TypeOK, Q!TypeOK, queueVars
  <2>2. entry' \in [Keys -> Entry] /\ op' \in [Procs -> Op] /\ drawn' \in Nat
    BY <1>1, <1>2, <1>4, <1>5, RecoveredType DEF IInv, TypeOK
  <2>3. DOMAIN effects' = Keys /\ effects' = [j \in Keys |-> effects'[j]]
    BY <1>1 DEF IInv, TypeOK
  <2>4. released' = [j \in Keys |-> released'[j]]
    BY <1>1 DEF RecoveryHistory
  <2>5. effects' \in [Keys -> SUBSET (1 .. drawn')] /\ released' \in [Keys -> SUBSET (1 .. drawn')]
    BY <1>2, <1>8, <2>3, <2>4
  <2>6. QED
    BY <1>1, <2>1, <2>2, <2>5, RecoveryKeepsHistory DEF IInv, TypeOK
<1>10. OpWellFormed'
  BY <1>5, <1>7 DEF IInv, OpWellFormed
<1>11. RecordWellFormed'
  BY <1>4, <1>6, RecoveredEntry DEF RecordWellFormed
\* What the key's earlier tries were done under is released by now.
<1>12. \A t \in 1 .. drawn : t \in released[k] \cup {entry[k].tok} => t \in released'[k]
  <2>1. Recovered[k].st = "missing" => entry[k].tok = 0
    BY RecoveredMissing DEF IInv, EntryTokens
  <2>2. Recovered[k].st # "missing" => entry[k].tok \in released'[k]
    BY <1>1, RecoveryKeepsHistory
  <2>3. QED
    BY <1>8, <2>1, <2>2
<1>13. EntryTokens'
  <2> SUFFICES ASSUME NEW j \in Keys
               PROVE entry'[j].tok \in IF entry'[j].st = "missing" THEN {0} ELSE 1 .. drawn'
    BY DEF EntryTokens
  <2>1. CASE j = k
    BY <1>2, <1>4, <1>6, <2>1
  <2>2. CASE j # k
    <3>1. entry'[j] = Recovered[j] /\ Recovered[j].tok = entry[j].tok
      BY <1>6, <2>2, RecoveredEntry
    <3>2. Recovered[j].st = "missing" <=> entry[j].st = "missing"
      BY RecoveredMissing
    <3>3. entry[j].tok \in IF entry[j].st = "missing" THEN {0} ELSE 1 .. drawn
      BY DEF IInv, EntryTokens
    <3>4. QED
      BY <1>2, <3>1, <3>2, <3>3
  <2>3. QED
    BY <2>1, <2>2
<1>14. EffectsKnown'
  <2> SUFFICES ASSUME NEW j \in Keys, NEW t \in effects'[j]
               PROVE t \in released'[j] \cup {entry'[j].tok}
    BY DEF EffectsKnown
  <2>1. t \in released[j] \cup {entry[j].tok} /\ t \in 1 .. drawn
    BY <1>1, <1>8 DEF IInv, EffectsKnown
  <2>2. CASE j = k
    BY <1>12, <2>1, <2>2
  <2>3. CASE j # k
    BY <1>6, <1>8, <2>1, <2>3, RecoveredEntry
  <2>4. QED
    BY <2>2, <2>3
<1>15. FreeIsReleased'
  BY <1>1, <1>4, <1>6, RecoveredEntry, RecoveryKeepsHistory DEF FreeIsReleased, Free
<1>16. OwnersKnown'
  <2>1. ASSUME NEW q \in Procs, op'[q].at = "owner"
        PROVE  /\ op'[q].tok \in 1 .. drawn'
               /\ op'[q].tok \in released'[op'[q].key] \cup {entry'[op'[q].key].tok}
    <3>1. CASE q = p
      BY <1>2, <1>4, <1>5, <1>6, <1>7, <3>1
    <3>2. CASE q # p
      <4>1. op'[q] = op[q] /\ op[q].key \in Keys /\ op[q].tok \in 1 .. drawn
            /\ op[q].tok \in released[op[q].key] \cup {entry[op[q].key].tok}
        BY <1>7, <2>1, <3>2 DEF IInv, OpWellFormed, OwnersKnown
      <4>2. CASE op[q].key = k
        BY <1>2, <1>12, <4>1, <4>2
      <4>3. CASE op[q].key # k
        BY <1>2, <1>6, <1>8, <4>1, <4>3, RecoveredEntry
      <4>4. QED
        BY <4>2, <4>3
    <3>3. QED
      BY <3>1, <3>2
  <2>2. \A q \in Procs : op[q].at = "owner" => op[q].tok # drawn + 1
    <3>1. \A q \in Procs : op[q].at = "owner" => op[q].tok \in 1 .. drawn
      BY DEF IInv, OwnersKnown
    <3>2. QED
      BY <1>2, <3>1
  <2>3. \A q, r \in Procs : op'[q].at = "owner" /\ op'[r].at = "owner" /\ op'[q].tok = op'[r].tok => q = r
    BY <1>5, <1>7, <2>2 DEF IInv, OwnersKnown
  <2>4. QED
    BY <2>1, <2>3 DEF OwnersKnown
<1>17. QED
  BY <1>9, <1>10, <1>11, <1>13, <1>14, <1>15, <1>16 DEF IInv

LEMMA ActKeepsIInv ==
  ASSUME IInv, NEW p \in Procs, Act(p)
  PROVE  IInv'
<1> DEFINE k == op[p].key
<1>1. /\ op[p].at = "owner"
      /\ op' = [op EXCEPT ![p].acted = TRUE]
      /\ effects' = [effects EXCEPT ![k] = @ \cup {op[p].tok}]
      /\ UNCHANGED <<queueVars, now, entry, drawn, released, spent, settled, disturbed>>
  BY DEF Act
<1>2. k \in Keys /\ op[p].tok \in 1 .. drawn /\ op[p].tok \in released[k] \cup {entry[k].tok}
  BY <1>1 DEF IInv, OpWellFormed, OwnersKnown
<1>3. op \in [Procs -> Op] /\ effects \in [Keys -> SUBSET (1 .. drawn)]
  BY DEF IInv, TypeOK
<1>4. \A q \in Procs : /\ op'[q].at = op[q].at /\ op'[q].key = op[q].key /\ op'[q].tok = op[q].tok
                       /\ op'[q].app = op[q].app /\ op'[q].res = op[q].res
  BY <1>1, <1>3 DEF Op
<1>5. op' \in [Procs -> Op]
  BY <1>1, <1>3 DEF Op
<1>6. effects' \in [Keys -> SUBSET (1 .. drawn)]
  BY <1>1, <1>2, <1>3
<1>7. TypeOK'
  BY <1>1, <1>5, <1>6 DEF IInv, TypeOK, Q!TypeOK, queueVars
<1>8. \A j \in Keys : effects'[j] \subseteq effects[j] \cup (IF j = k THEN {op[p].tok} ELSE {})
  BY <1>1, <1>3
<1>9. EffectsKnown'
  BY <1>1, <1>2, <1>8 DEF IInv, EffectsKnown
<1>10. OpWellFormed' /\ OwnersKnown'
  BY <1>1, <1>4 DEF IInv, OpWellFormed, OwnersKnown
<1>11. RecordWellFormed' /\ EntryTokens' /\ FreeIsReleased'
  BY <1>1 DEF IInv, RecordWellFormed, EntryTokens, FreeIsReleased
<1>12. QED
  BY <1>7, <1>9, <1>10, <1>11 DEF IInv

\* complete and mark_unknown write the caller's own entry, or none.
LEMMA SettleOwnKeepsIInv ==
  ASSUME IInv, NEW p \in Procs, op[p].at = "owner", RecoveryHistory,
         NEW s \in {"completed", "unknown_outcome"}, NEW r \in BOOLEAN,
         entry' = IF Owns(p, Recovered)
                    THEN [Recovered EXCEPT ![op[p].key] = NewEntry(s, op[p].tok, 0, r)]
                    ELSE Recovered,
         op' = [op EXCEPT ![p] = Idle],
         UNCHANGED <<queueVars, now, drawn, effects, spent>>
  PROVE  IInv'
<1> DEFINE k   == op[p].key
           new == NewEntry(s, op[p].tok, 0, r)
<1>1. k \in Keys /\ op[p].tok \in 1 .. drawn
  BY DEF IInv, OpWellFormed, OwnersKnown
<1>2. drawn \in Nat
  BY DEF IInv, TypeOK
<1>3. new \in Entry /\ new.st = s /\ new.tok = op[p].tok
  BY <1>1, <1>2, LedgerAssumption DEF NewEntry, Entry, EntryStates, Done
<1> HIDE DEF new
<1>4. entry' \in [Keys -> Entry]
  BY <1>3, RecoveredType DEF new
<1>5. Q!TypeOK'
  BY DEF IInv, TypeOK, Q!TypeOK, queueVars
<1>6. ASSUME NEW j \in Keys
      PROVE  \/ entry'[j] = Recovered[j]
             \/ /\ entry'[j].tok = entry[j].tok
                /\ entry[j].st # "missing" /\ entry'[j].st \notin Free
                /\ entry'[j].st # "reconciling_started"
  <2>1. CASE j = k /\ Owns(p, Recovered)
    <3>1. entry'[j] = new
      BY <2>1, RecoveredType DEF new
    <3>2. entry[j].tok = op[p].tok /\ entry[j].st # "missing"
      BY <2>1, RecoveredEntry, RecoveredMissing DEF Owns
    <3>3. QED
      BY <1>3, <3>1, <3>2 DEF Free
  <2>2. CASE ~ (j = k /\ Owns(p, Recovered))
    BY <2>2, RecoveredType
  <2>3. QED
    BY <2>1, <2>2
<1>7. QED
  BY <1>4, <1>5, <1>6, Finished, RecoveringStep

LEMMA RefusedKeepsIInv ==
  ASSUME IInv, NEW p \in Procs, NEW k \in Keys, Refused(p, k)
  PROVE  IInv'
<1>1. entry' = Recovered /\ RecoveryHistory /\ op' = op /\ drawn' = drawn /\ effects' = effects
      /\ spent' = spent
  BY DEF Refused
<1>2. Q!TypeOK'
  BY DEF IInv, TypeOK, Q!TypeOK, queueVars, Refused
<1>3. OpWellFormed' /\ op' \in [Procs -> Op]
  BY <1>1 DEF IInv, TypeOK, OpWellFormed
<1>4. QED
  BY <1>1, <1>2, <1>3, RecoveredType, RecoveringStep

LEMMA ReserveExpiredKeepsIInv ==
  ASSUME IInv, NEW p \in Procs, NEW k \in Keys, ReserveExpired(p, k)
  PROVE  IInv'
<1>1. /\ entry' = [Recovered EXCEPT ![k].st = "unknown_outcome"] /\ Recovered[k].st = "reserved"
      /\ RecoveryHistory /\ op' = op /\ drawn' = drawn /\ effects' = effects /\ spent' = spent
  BY DEF ReserveExpired
<1>2. Q!TypeOK'
  BY DEF IInv, TypeOK, Q!TypeOK, queueVars, ReserveExpired
<1>3. OpWellFormed' /\ op' \in [Procs -> Op]
  BY <1>1 DEF IInv, TypeOK, OpWellFormed
<1>4. entry' \in [Keys -> Entry]
  BY <1>1, RecoveredType DEF Entry, EntryStates
<1>5. entry'[k].st = "unknown_outcome" /\ entry'[k].tok = entry[k].tok /\ entry[k].st # "missing"
  BY <1>1, RecoveredType, RecoveredEntry, RecoveredMissing DEF Entry
<1>6. \A j \in Keys \ {k} : entry'[j] = Recovered[j]
  BY <1>1, RecoveredType
<1>7. QED
  BY <1>1, <1>2, <1>3, <1>4, <1>5, <1>6, RecoveringStep DEF Free

LEMMA ReconcileRecordKeepsIInv ==
  ASSUME IInv, NEW p \in Procs, ReconcileRecord(p)
  PROVE  IInv'
<1> DEFINE k == op[p].key
<1>1. op[p].at = "checked" /\ RecoveryHistory /\ drawn' = drawn /\ effects' = effects /\ spent' = spent
  BY DEF ReconcileRecord
<1>2. k \in Keys /\ op[p].app \in Requests /\ op[p].res \in Resolutions
  BY <1>1 DEF IInv, OpWellFormed
<1>3. Q!TypeOK'
  BY DEF IInv, TypeOK, Q!TypeOK, queueVars, ReconcileRecord
<1>4. CASE Recovered[k].st = "unknown_outcome"
  <2>1. /\ entry' = [Recovered EXCEPT ![k].st = "reconciling_started",
                                      ![k].app = op[p].app, ![k].res = op[p].res]
        /\ op' = [op EXCEPT ![p].at = "recorded"]
    BY <1>4 DEF ReconcileRecord
  <2>2. Recovered[k] \in Entry
    BY <1>2, RecoveredEntry
  <2>3. /\ entry'[k] = [Recovered[k] EXCEPT !.st = "reconciling_started", !.app = op[p].app,
                                            !.res = op[p].res]
        /\ \A j \in Keys \ {k} : entry'[j] = Recovered[j]
    BY <1>2, <2>1, RecoveredType
  <2>4. entry'[k] \in Entry /\ entry'[k].tok = Recovered[k].tok /\ entry'[k].app = op[p].app
        /\ entry'[k].res = op[p].res /\ entry'[k].st = "reconciling_started"
    BY <1>2, <2>2, <2>3 DEF Entry, EntryStates
  <2>5. entry' \in [Keys -> Entry]
    <3>1. \A j \in Keys : entry'[j] \in Entry
      BY <2>3, <2>4, RecoveredType
    <3>2. entry' = [j \in Keys |-> entry'[j]]
      BY <2>1, RecoveredType
    <3>3. QED
      BY <3>1, <3>2
  <2>6. op' \in [Procs -> Op] /\ OpWellFormed' /\ \A q \in Procs : op'[q].at = "owner" => op'[q] = op[q]
    BY <1>1, <2>1 DEF IInv, TypeOK, OpWellFormed, Op, Stages
  <2>7. entry[k].st # "missing" /\ entry'[k].tok = entry[k].tok
    BY <1>2, <1>4, <2>4, RecoveredEntry, RecoveredMissing
  <2>8. QED
    BY <1>1, <1>2, <1>3, <2>3, <2>4, <2>5, <2>6, <2>7, RecoveringStep DEF Free
<1>5. CASE Recovered[k].st # "unknown_outcome"
  <2>1. entry' = Recovered /\ op' = [op EXCEPT ![p] = Idle]
    BY <1>5 DEF ReconcileRecord
  <2>2. QED
    BY <1>1, <1>3, <2>1, Finished, RecoveredType, RecoveringStep
<1>6. QED
  BY <1>4, <1>5

LEMMA AbortKeepsIInv ==
  ASSUME IInv, NEW p \in Procs, AbortPreflight(p)
  PROVE  IInv'
<1> DEFINE k   == op[p].key
           new == NewEntry("preflight_aborted", op[p].tok, 0, FALSE)
<1>1. /\ op[p].at = "owner" /\ drawn' = drawn /\ effects' = effects
      /\ op' = [op EXCEPT ![p] = Idle]
      /\ UNCHANGED <<queueVars, now, drawn, effects, spent, settled, disturbed>>
      /\ entry' = IF Owns(p, entry) THEN [entry EXCEPT ![k] = new] ELSE entry
      /\ released' = [released EXCEPT ![k] = IF Owns(p, entry) THEN @ \cup {op[p].tok} ELSE @]
  BY DEF AbortPreflight, GiveBack
<1>2. k \in Keys /\ op[p].tok \in 1 .. drawn
  BY <1>1 DEF IInv, OpWellFormed, OwnersKnown
<1>3. entry \in [Keys -> Entry] /\ released \in [Keys -> SUBSET (1 .. drawn)] /\ drawn \in Nat
  BY DEF IInv, TypeOK
<1>4. new \in Entry /\ new.st = "preflight_aborted" /\ new.tok = op[p].tok
  BY <1>2, <1>3, LedgerAssumption DEF NewEntry, Entry, EntryStates, Free
<1> HIDE DEF new
<1>5. entry' \in [Keys -> Entry] /\ released' \in [Keys -> SUBSET (1 .. drawn)]
  BY <1>1, <1>2, <1>3, <1>4
<1>6. TypeOK'
  BY <1>1, <1>5, Finished DEF IInv, TypeOK, Q!TypeOK, queueVars
<1>7. \A j \in Keys : released[j] \subseteq released'[j]
  BY <1>1, <1>3
<1>8. ASSUME NEW j \in Keys
      PROVE  \/ entry'[j] = entry[j]
             \/ /\ entry[j].st = "reserved" /\ entry[j].tok = op[p].tok
                /\ entry'[j] = new /\ op[p].tok \in released'[j]
  BY <1>1, <1>2, <1>3 DEF Owns
<1>9. RecordWellFormed'
  BY <1>4, <1>8 DEF IInv, RecordWellFormed
<1>10. \A j \in Keys : entry'[j].st \in Free \ {"missing"} => entry'[j].tok \in released'[j]
  BY <1>4, <1>7, <1>8 DEF IInv, FreeIsReleased
<1>11. \A j \in Keys : entry'[j].tok = entry[j].tok
                       /\ (entry'[j].st = "missing" <=> entry[j].st = "missing")
  BY <1>4, <1>8
<1>12. OpWellFormed' /\ \A q \in Procs : op'[q].at = "owner" => op'[q] = op[q]
  BY <1>1, Finished
<1>13. QED
  BY <1>1, <1>6, <1>7, <1>9, <1>10, <1>11, <1>12, QuietStep

LEMMA ReconcileFinishKeepsIInv ==
  ASSUME IInv, NEW p \in Procs, ReconcileFinish(p)
  PROVE  IInv'
<1> DEFINE k   == op[p].key
           new == [WithoutRecord(entry[k], Outcome[op[p].res]) EXCEPT !.receipt = @ \/ op[p].res = "completed"]
<1>1. op[p].at = "consumed" /\ op' = [op EXCEPT ![p] = Idle]
      /\ UNCHANGED <<queueVars, now, drawn, effects, spent>>
  BY DEF ReconcileFinish
<1>2. k \in Keys /\ op[p].app \in Requests /\ op[p].res \in Resolutions
  BY <1>1 DEF IInv, OpWellFormed
<1>3. entry \in [Keys -> Entry] /\ released \in [Keys -> SUBSET (1 .. drawn)] /\ drawn \in Nat
  BY DEF IInv, TypeOK
<1>4. OpWellFormed' /\ op' \in [Procs -> Op] /\ \A q \in Procs : op'[q].at = "owner" => op'[q] = op[q]
  BY <1>1, Finished
<1>5. CASE entry[k].st = "reconciling_started"
  <2>1. /\ entry' = [entry EXCEPT ![k] = new]
        /\ settled' = settled \cup {<<op[p].app, k>>}
        /\ released' = [released EXCEPT ![k] = IF op[p].res = "completed" THEN @ ELSE @ \cup {entry[k].tok}]
        /\ disturbed' = disturbed \cup ({entry[k].app} \ {op[p].app})
    BY <1>5 DEF ReconcileFinish
  <2>2. entry[k].app \in Requests /\ entry[k].tok \in 1 .. drawn
    BY <1>2, <1>5 DEF IInv, RecordWellFormed, EntryTokens
  <2>3. Outcome[op[p].res] \in Reconciled /\ (Outcome[op[p].res] \in Free => op[p].res # "completed")
        /\ Outcome[op[p].res] # "missing"
    BY <1>2, OutcomeType DEF Outcome, Free
  <2>4. entry[k] \in Entry
    BY <1>2, <1>3
  <2>5. new.st = Outcome[op[p].res] /\ new.tok = entry[k].tok /\ new \in Entry
    BY <2>3, <2>4 DEF WithoutRecord, Entry, EntryStates, Reconciled, Done, Free
  <2> HIDE DEF new
  <2>6. entry' \in [Keys -> Entry] /\ released' \in [Keys -> SUBSET (1 .. drawn)]
    BY <1>2, <1>3, <2>1, <2>2, <2>5
  <2>7. TypeOK'
    BY <1>1, <1>2, <1>4, <2>1, <2>2, <2>6 DEF IInv, TypeOK, Q!TypeOK, queueVars
  <2>8. \A j \in Keys : released[j] \subseteq released'[j]
    BY <1>3, <2>1
  <2>9. entry'[k] = new /\ \A j \in Keys \ {k} : entry'[j] = entry[j]
    BY <1>2, <1>3, <2>1
  <2>10. op[p].res # "completed" => entry[k].tok \in released'[k]
    BY <1>2, <1>3, <2>1
  <2>11. \A j \in Keys : entry'[j].st \in Free \ {"missing"} => entry'[j].tok \in released'[j]
    BY <2>3, <2>5, <2>8, <2>9, <2>10 DEF IInv, FreeIsReleased
  <2>12. RecordWellFormed'
    BY <2>3, <2>5, <2>9 DEF IInv, RecordWellFormed, Reconciled
  <2>13. \A j \in Keys : entry'[j].tok = entry[j].tok
                         /\ (entry'[j].st = "missing" <=> entry[j].st = "missing")
    BY <1>5, <2>3, <2>5, <2>9
  <2>14. QED
    BY <1>1, <1>4, <2>7, <2>8, <2>11, <2>12, <2>13, QuietStep
<1>6. CASE entry[k].st # "reconciling_started"
  <2>1. UNCHANGED <<entry, settled, released, disturbed>>
    BY <1>6 DEF ReconcileFinish
  <2>2. TypeOK'
    BY <1>1, <1>4, <2>1 DEF IInv, TypeOK, Q!TypeOK, queueVars
  <2>3. QED
    BY <1>1, <1>4, <2>1, <2>2, QuietStep DEF IInv, RecordWellFormed, FreeIsReleased
<1>7. QED
  BY <1>5, <1>6

\* Steps that leave the ledger alone.
LEMMA LedgerUntouched ==
  ASSUME IInv, Q!TypeOK', UNCHANGED <<entry, drawn, effects, released, settled, disturbed>>,
         spent' \subseteq Requests \X Keys, op' \in [Procs -> Op], OpWellFormed',
         \A q \in Procs : op'[q].at = "owner" => op'[q] = op[q]
  PROVE  IInv'
<1>1. TypeOK'
  BY DEF IInv, TypeOK
<1>2. QED
  BY <1>1, QuietStep DEF IInv, RecordWellFormed, FreeIsReleased

LEMMA ReconcileCheckKeepsIInv ==
  ASSUME IInv, NEW p \in Procs, NEW k \in Keys, NEW a \in Requests, NEW r \in Resolutions,
         ReconcileCheck(p, k, a, r)
  PROVE  IInv'
<1> DEFINE new == NewOp("checked", k, 0, a, r)
<1>1. new \in Op /\ new.at = "checked" /\ new.key = k /\ new.app = a /\ new.res = r
  BY DEF NewOp, Op, Stages
<1> HIDE DEF new
<1>2. op' = [op EXCEPT ![p] = new] /\ UNCHANGED <<queueVars, now, entry, drawn, ghosts>>
  BY DEF ReconcileCheck, new
<1>3. op' \in [Procs -> Op] /\ \A q \in Procs : op'[q] = IF q = p THEN new ELSE op[q]
  BY <1>1, <1>2 DEF IInv, TypeOK
<1>4. OpWellFormed' /\ \A q \in Procs : op'[q].at = "owner" => op'[q] = op[q]
  BY <1>1, <1>3 DEF IInv, OpWellFormed
<1>5. Q!TypeOK' /\ spent' \subseteq Requests \X Keys
  BY <1>2 DEF IInv, TypeOK, Q!TypeOK, queueVars, ghosts
<1>6. QED
  BY <1>2, <1>3, <1>4, <1>5, LedgerUntouched DEF ghosts

\* What a consumption does to the queue.
LEMMA QueueConsume ==
  ASSUME IInv, NEW p \in Procs, NEW a \in Requests, NEW c \in Scopes, Q!Consume(p, a, c)
  PROVE  /\ Q!TypeOK'
         /\ status' = [status EXCEPT ![a] = "consumed"]
         /\ status[a] # "consumed"
  BY DEF IInv, TypeOK, Q!TypeOK, Q!Consume, Q!MayConsume, Q!Statuses

LEMMA ReconcileConsumeKeepsIInv ==
  ASSUME IInv, NEW p \in Procs, ReconcileConsume(p)
  PROVE  IInv'
<1>1. /\ op[p].at = "recorded" /\ op' = [op EXCEPT ![p].at = "consumed"]
      /\ Q!Consume(p, op[p].app, CallOf[op[p].key])
      /\ spent' = spent \cup {<<op[p].app, op[p].key>>}
      /\ UNCHANGED <<entry, drawn, effects, released, settled, disturbed>>
  BY DEF ReconcileConsume
<1>2. op[p].key \in Keys /\ op[p].app \in Requests /\ CallOf[op[p].key] \in Scopes
  BY <1>1, CallAssumption DEF IInv, OpWellFormed
<1>3. Q!TypeOK'
  BY <1>1, <1>2, QueueConsume
<1>4. op' \in [Procs -> Op] /\ OpWellFormed' /\ \A q \in Procs : op'[q].at = "owner" => op'[q] = op[q]
  BY <1>1 DEF IInv, TypeOK, OpWellFormed, Op, Stages
<1>5. spent' \subseteq Requests \X Keys
  BY <1>1, <1>2 DEF IInv, TypeOK
<1>6. QED
  BY <1>1, <1>3, <1>4, <1>5, LedgerUntouched

LEMMA DropKeepsIInv ==
  ASSUME IInv, NEW p \in Procs, op' = [op EXCEPT ![p] = Idle],
         UNCHANGED <<queueVars, now, entry, drawn, ghosts>>
  PROVE  IInv'
<1>1. Q!TypeOK' /\ spent' \subseteq Requests \X Keys
  BY DEF IInv, TypeOK, Q!TypeOK, queueVars, ghosts
<1>2. QED
  BY <1>1, Finished, LedgerUntouched DEF ghosts

LEMMA TickKeepsIInv == ASSUME IInv, Tick PROVE IInv'
<1>1. Q!TypeOK'
  BY LedgerAssumption DEF IInv, TypeOK, Q!TypeOK, Tick, Q!Tick, Q!queueVars
<1>2. QED
  BY <1>1, LedgerUntouched DEF Tick, ghosts, IInv, TypeOK, OpWellFormed

LEMMA StepIInv == IInv /\ [Next]_vars => IInv'
<1> SUFFICES ASSUME IInv, [Next]_vars PROVE IInv'
  OBVIOUS
<1>1. ASSUME NEW p \in Procs, NEW k \in Keys, Reserve(p, k) PROVE IInv'
  BY <1>1, ReserveKeepsIInv
<1>2. ASSUME NEW p \in Procs, NEW k \in Keys, ReserveExpired(p, k) PROVE IInv'
  BY <1>2, ReserveExpiredKeepsIInv
<1>3. ASSUME NEW p \in Procs, NEW k \in Keys, Refused(p, k) PROVE IInv'
  BY <1>3, RefusedKeepsIInv
<1>4. ASSUME NEW p \in Procs, Act(p) PROVE IInv'
  BY <1>4, ActKeepsIInv
<1>5. ASSUME NEW p \in Procs, Complete(p) PROVE IInv'
  BY <1>5, SettleOwnKeepsIInv DEF Complete
<1>6. ASSUME NEW p \in Procs, MarkUnknown(p) PROVE IInv'
  BY <1>6, SettleOwnKeepsIInv DEF MarkUnknown
<1>7. ASSUME NEW p \in Procs, AbortPreflight(p) PROVE IInv'
  BY <1>7, AbortKeepsIInv
<1>8. ASSUME NEW p \in Procs, Leave(p) PROVE IInv'
  BY <1>8, DropKeepsIInv DEF Leave
<1>9. ASSUME NEW p \in Procs, NEW k \in Keys, NEW a \in Requests, NEW r \in Resolutions,
             ReconcileCheck(p, k, a, r)
      PROVE  IInv'
  BY <1>9, ReconcileCheckKeepsIInv
<1>10. ASSUME NEW p \in Procs, ReconcileRecord(p) PROVE IInv'
  BY <1>10, ReconcileRecordKeepsIInv
<1>11. ASSUME NEW p \in Procs, ReconcileConsume(p) PROVE IInv'
  BY <1>11, ReconcileConsumeKeepsIInv
<1>12. ASSUME NEW p \in Procs, ReconcileRefused(p) PROVE IInv'
  BY <1>12, DropKeepsIInv DEF ReconcileRefused
<1>13. ASSUME NEW p \in Procs, ReconcileFinish(p) PROVE IInv'
  BY <1>13, ReconcileFinishKeepsIInv
<1>14. CASE Tick
  BY <1>14, TickKeepsIInv
<1>15. CASE UNCHANGED vars
  <2>1. UNCHANGED <<queueVars, now, entry, drawn, op, effects, released, spent, settled, disturbed>>
    BY <1>15 DEF vars, ghosts
  <2>2. Q!TypeOK'
    BY <2>1 DEF IInv, TypeOK, Q!TypeOK, queueVars
  <2>3. QED
    BY <2>1, <2>2, LedgerUntouched DEF IInv, TypeOK, OpWellFormed
<1>16. QED
  BY <1>1, <1>2, <1>3, <1>4, <1>5, <1>6, <1>7, <1>8, <1>9, <1>10, <1>11, <1>12, <1>13, <1>14,
     <1>15 DEF Next

LEMMA SpecIInv == Spec => []IInv
  BY InitIInv, StepIInv, PTL DEF Spec

-----------------------------------------------------------------------------
(* The theorems.                                                           *)

\* Every variable of the ledger and of the queue under it keeps its type.
THEOREM TypeCorrect == Spec => []TypeOK
<1>1. IInv => TypeOK
  BY DEF IInv
<1>2. QED
  BY <1>1, SpecIInv, PTL

\* An external operation is repeated only after the reservation it was done
\* under was given back.
THEOREM RepeatsReleased == Spec => []RepeatOnlyAfterRelease
<1>1. IInv => RepeatOnlyAfterRelease
  BY DEF IInv, EffectsKnown, RepeatOnlyAfterRelease
<1>2. QED
  BY <1>1, SpecIInv, PTL

\* At most one live process can still complete a key.
THEOREM SingleOwner == Spec => []OneOwner
<1>1. IInv => OneOwner
  BY DEF IInv, OwnersKnown, OneOwner, Owns
<1>2. QED
  BY <1>1, SpecIInv, PTL

LEMMA StepCompleted ==
  IInv /\ [Next]_vars =>
    \A k \in Keys : /\ entry[k].st \in Done => entry'[k] = entry[k]
                    /\ entry[k].st = "unknown_outcome" =>
                         entry'[k].st \in {"unknown_outcome", "reconciling_started"}
<1> SUFFICES ASSUME IInv, [Next]_vars, NEW k \in Keys, entry[k].st \in Done \cup {"unknown_outcome"}
             PROVE  \/ entry'[k] = entry[k]
                    \/ entry[k].st = "unknown_outcome" /\ entry'[k].st = "reconciling_started"
  BY DEF Done
<1> USE DEF Done, Free
<1>1. Recovered[k] = entry[k]
  BY RecoveredEntry DEF Recording
<1>2. DOMAIN Recovered = Keys /\ DOMAIN entry = Keys
  BY RecoveredType DEF IInv, TypeOK
<1>3. \A p \in Procs, j \in Keys : Reserve(p, j) => entry'[k] = entry[k]
  BY <1>1, <1>2 DEF Reserve
<1>4. \A p \in Procs, j \in Keys : ReserveExpired(p, j) \/ Refused(p, j) => entry'[k] = entry[k]
  BY <1>1, <1>2 DEF ReserveExpired, Refused
<1>5. \A p \in Procs : Complete(p) \/ MarkUnknown(p) \/ AbortPreflight(p) => entry'[k] = entry[k]
  BY <1>1, <1>2 DEF Complete, MarkUnknown, AbortPreflight, GiveBack, Owns
<1>6. ASSUME NEW p \in Procs, ReconcileRecord(p)
      PROVE  \/ entry'[k] = entry[k]
             \/ entry[k].st = "unknown_outcome" /\ entry'[k].st = "reconciling_started"
  <2>1. CASE op[p].key = k /\ Recovered[k].st = "unknown_outcome"
    <3>1. entry' = [Recovered EXCEPT ![k].st = "reconciling_started",
                                     ![k].app = op[p].app, ![k].res = op[p].res]
      BY <1>6, <2>1 DEF ReconcileRecord
    <3>2. Recovered[k] \in Entry
      BY RecoveredEntry
    <3>3. entry'[k].st = "reconciling_started"
      BY <1>2, <3>1, <3>2 DEF Entry
    <3>4. QED
      BY <1>1, <2>1, <3>3
  <2>2. CASE ~ (op[p].key = k /\ Recovered[k].st = "unknown_outcome")
    BY <1>1, <1>2, <1>6, <2>2 DEF ReconcileRecord
  <2>3. QED
    BY <2>1, <2>2
<1>7. \A p \in Procs : ReconcileFinish(p) => entry'[k] = entry[k]
  BY <1>2 DEF ReconcileFinish
<1>8. \A p \in Procs : Act(p) \/ Leave(p) \/ ReconcileConsume(p) \/ ReconcileRefused(p) => entry' = entry
  BY DEF Act, Leave, ReconcileConsume, ReconcileRefused
<1>9. \A p \in Procs, j \in Keys, a \in Requests, r \in Resolutions :
        ReconcileCheck(p, j, a, r) => entry' = entry
  BY DEF ReconcileCheck
<1>10. Tick \/ UNCHANGED vars => entry' = entry
  BY DEF Tick, vars
<1>11. QED
  BY <1>3, <1>4, <1>5, <1>6, <1>7, <1>8, <1>9, <1>10 DEF Next

\* A completed entry never changes again; an unknown outcome is left only
\* towards reconciliation.
THEOREM CompletedStays == Spec => CompletedIsFinal
  BY SpecIInv, StepCompleted, PTL DEF Spec, CompletedIsFinal

-----------------------------------------------------------------------------
(* Reconciliation and its approvals.                                       *)

\* The queue under the ledger changes only by a consumption.
LEMMA StatusStep ==
  ASSUME IInv, [Next]_vars
  PROVE  \A a \in Requests : status[a] = "consumed" => status'[a] = "consumed"
<1>1. \A p \in Procs : ReconcileConsume(p) =>
        \A a \in Requests : status[a] = "consumed" => status'[a] = "consumed"
  <2> SUFFICES ASSUME NEW p \in Procs, ReconcileConsume(p), NEW a \in Requests, status[a] = "consumed"
               PROVE  status'[a] = "consumed"
    OBVIOUS
  <2>1. op[p].app \in Requests /\ CallOf[op[p].key] \in Scopes
    BY CallAssumption DEF ReconcileConsume, IInv, OpWellFormed
  <2>2. status' = [status EXCEPT ![op[p].app] = "consumed"]
    BY <2>1, QueueConsume DEF ReconcileConsume
  <2>3. QED
    BY <2>2 DEF IInv, TypeOK, Q!TypeOK
<1>2. \A p \in Procs : Act(p) \/ Complete(p) \/ MarkUnknown(p) \/ AbortPreflight(p) \/ Leave(p)
                       \/ ReconcileRecord(p) \/ ReconcileRefused(p) \/ ReconcileFinish(p)
                         => status' = status
  BY DEF Act, Complete, MarkUnknown, AbortPreflight, GiveBack, Leave, ReconcileRecord, ReconcileRefused,
         ReconcileFinish, queueVars
<1>3. \A p \in Procs, k \in Keys : Reserve(p, k) \/ ReserveExpired(p, k) \/ Refused(p, k)
                                     => status' = status
  BY DEF Reserve, ReserveExpired, Refused, queueVars
<1>4. \A p \in Procs, k \in Keys, a \in Requests, r \in Resolutions :
        ReconcileCheck(p, k, a, r) => status' = status
  BY DEF ReconcileCheck, queueVars
<1>5. Tick \/ UNCHANGED vars => status' = status
  BY DEF Tick, Q!Tick, Q!queueVars, vars, queueVars
<1>6. QED
  BY <1>1, <1>2, <1>3, <1>4, <1>5 DEF Next

\* The steps that settle: by the recovery or by the caller.  Every other step
\* keeps what is settled and leaves no key reconciled that was not.
SettledInv ==
  /\ SettledWithApproval
  /\ \A p \in Procs : op[p].at = "consumed" => status[op[p].app] = "consumed"

LEMMA RecoverySettles ==
  ASSUME IInv, SettledInv, RecoveryHistory
  PROVE  /\ settled \subseteq settled'
         /\ \A x \in settled' : status[x[1]] = "consumed"
         /\ \A k \in Keys : Recovered[k].st \in Reconciled => \E a \in Requests : <<a, k>> \in settled'
<1>1. settled' = settled \cup {<<entry[k].app, k>> : k \in ToSettle}
  BY DEF RecoveryHistory
<1>2. \A k \in ToSettle : status[entry[k].app] = "consumed" /\ entry[k].app \in Requests
  BY DEF IInv, RecordWellFormed, ToSettle, Recording
<1>3. ASSUME NEW k \in Keys, Recovered[k].st \in Reconciled
      PROVE  \E a \in Requests : <<a, k>> \in settled'
  <2>1. CASE k \in ToSettle
    BY <1>1, <1>2, <2>1
  <2>2. CASE k \in ToRollBack
    BY <1>3, <2>2, RecoveredEntry DEF Reconciled
  <2>3. CASE k \notin Recording
    BY <1>1, <1>3, <2>3, RecoveredEntry DEF SettledInv, SettledWithApproval
  <2>4. QED
    BY <2>1, <2>2, <2>3 DEF ToRollBack
<1>4. QED
  BY <1>1, <1>2, <1>3 DEF SettledInv, SettledWithApproval

\* A step that runs the recovery and reconciles nothing itself.
LEMMA RecoveringSettled ==
  ASSUME IInv, SettledInv, [Next]_vars, RecoveryHistory, status' = status,
         \A k \in Keys : entry'[k].st \in Reconciled => entry'[k].st = Recovered[k].st,
         \A p \in Procs : op'[p].at = "consumed" => op'[p] = op[p]
  PROVE  SettledInv'
  BY RecoverySettles, StatusStep DEF SettledInv, SettledWithApproval

LEMMA StepSettledInv == IInv /\ SettledInv /\ [Next]_vars => SettledInv'
<1> SUFFICES ASSUME IInv, SettledInv, [Next]_vars PROVE SettledInv'
  OBVIOUS
<1>1. /\ DOMAIN Recovered = Keys /\ \A j \in Keys : Recovered[j] \in Entry
      /\ op \in [Procs -> Op] /\ entry \in [Keys -> Entry]
  BY RecoveredType DEF IInv, TypeOK
<1>2. ASSUME NEW p \in Procs, NEW k \in Keys, Reserve(p, k) \/ ReserveExpired(p, k) \/ Refused(p, k)
      PROVE  SettledInv'
  <2>1. RecoveryHistory /\ status' = status
    BY <1>2 DEF Reserve, ReserveExpired, Refused, queueVars
  <2>2. \A j \in Keys : entry'[j].st \in Reconciled => entry'[j].st = Recovered[j].st
    BY <1>1, <1>2 DEF Reserve, ReserveExpired, Refused, NewEntry, Reconciled, Entry
  <2>3. \A q \in Procs : op'[q].at = "consumed" => op'[q] = op[q]
    <3>1. op' = op \/ op' = [op EXCEPT ![p] = NewOp("owner", k, drawn + 1, None, None)]
      BY <1>2 DEF Reserve, ReserveExpired, Refused
    <3>2. QED
      BY <1>1, <3>1 DEF NewOp
  <2>4. QED
    BY <2>1, <2>2, <2>3, RecoveringSettled
<1>3. ASSUME NEW p \in Procs, Complete(p) \/ MarkUnknown(p)
      PROVE  SettledInv'
  <2>1. RecoveryHistory /\ status' = status
    BY <1>3 DEF Complete, MarkUnknown, queueVars
  <2>2. \A j \in Keys : entry'[j].st \in Reconciled => entry'[j].st = Recovered[j].st
    BY <1>1, <1>3 DEF Complete, MarkUnknown, NewEntry, Reconciled
  <2>3. \A q \in Procs : op'[q].at = "consumed" => op'[q] = op[q]
    <3>1. op' = [op EXCEPT ![p] = Idle]
      BY <1>3 DEF Complete, MarkUnknown
    <3>2. QED
      BY <1>1, <3>1 DEF Idle, NewOp
  <2>4. QED
    BY <2>1, <2>2, <2>3, RecoveringSettled
<1>4. ASSUME NEW p \in Procs, ReconcileRecord(p)
      PROVE  SettledInv'
  <2>1. RecoveryHistory /\ status' = status
    BY <1>4 DEF ReconcileRecord, queueVars
  <2>2. \A j \in Keys : entry'[j].st \in Reconciled => entry'[j].st = Recovered[j].st
    <3> SUFFICES ASSUME NEW j \in Keys, entry'[j].st \in Reconciled PROVE entry'[j].st = Recovered[j].st
      OBVIOUS
    <3>1. entry'[j] = Recovered[j] \/ entry'[j].st = "reconciling_started"
      BY <1>1, <1>4 DEF ReconcileRecord, Entry
    <3>2. QED
      BY <3>1 DEF Reconciled
  <2>3. \A q \in Procs : op'[q].at = "consumed" => op'[q] = op[q]
    BY <1>1, <1>4 DEF ReconcileRecord, Idle, NewOp, Op
  <2>4. QED
    BY <2>1, <2>2, <2>3, RecoveringSettled
<1>5. ASSUME NEW p \in Procs, ReconcileConsume(p)
      PROVE  SettledInv'
  <2>1. op[p].app \in Requests /\ CallOf[op[p].key] \in Scopes
    BY <1>5, CallAssumption DEF ReconcileConsume, IInv, OpWellFormed
  <2>2. status' = [status EXCEPT ![op[p].app] = "consumed"]
    BY <1>5, <2>1, QueueConsume DEF ReconcileConsume
  <2>3. status'[op[p].app] = "consumed"
    BY <2>1, <2>2 DEF IInv, TypeOK, Q!TypeOK
  <2>4. \A q \in Procs : /\ op'[q].app = op[q].app
                         /\ q # p => op'[q] = op[q]
    BY <1>1, <1>5 DEF ReconcileConsume, Op
  <2>5. entry' = entry /\ settled' = settled
    BY <1>5 DEF ReconcileConsume
  <2>6. \A q \in Procs : op'[q].at = "consumed" => status'[op'[q].app] = "consumed"
    <3> SUFFICES ASSUME NEW q \in Procs, op'[q].at = "consumed" PROVE status'[op'[q].app] = "consumed"
      OBVIOUS
    <3>1. CASE q = p
      BY <2>3, <2>4, <3>1
    <3>2. CASE q # p
      <4>1. op[q].at = "consumed" /\ op[q].app \in Requests /\ op'[q] = op[q]
        BY <2>4, <3>2 DEF IInv, OpWellFormed
      <4>2. QED
        BY <4>1, StatusStep DEF SettledInv
    <3>3. QED
      BY <3>1, <3>2
  <2>7. SettledWithApproval'
    BY <2>5, StatusStep DEF SettledInv, SettledWithApproval, IInv, TypeOK
  <2>8. QED
    BY <2>6, <2>7 DEF SettledInv
<1>6. ASSUME NEW p \in Procs, ReconcileFinish(p)
      PROVE  SettledInv'
  <2>1. op[p].at = "consumed" /\ status' = status /\ op' = [op EXCEPT ![p] = Idle]
    BY <1>6 DEF ReconcileFinish, queueVars
  <2>2. op[p].key \in Keys /\ op[p].app \in Requests /\ status[op[p].app] = "consumed"
    BY <2>1 DEF IInv, OpWellFormed, SettledInv
  <2>3. \A j \in Keys : entry'[j].st = entry[j].st \/ (j = op[p].key /\ <<op[p].app, j>> \in settled')
    <3>1. CASE entry[op[p].key].st = "reconciling_started"
      <4>1. \A j \in Keys \ {op[p].key} : entry'[j] = entry[j]
        BY <1>1, <1>6, <3>1 DEF ReconcileFinish
      <4>2. <<op[p].app, op[p].key>> \in settled'
        BY <1>6, <3>1 DEF ReconcileFinish
      <4>3. \A j \in Keys : j # op[p].key => entry'[j].st = entry[j].st
        BY <4>1
      <4>4. QED
        BY <4>2, <4>3
    <3>2. CASE entry[op[p].key].st # "reconciling_started"
      <4>1. entry' = entry
        BY <1>6, <3>2 DEF ReconcileFinish
      <4>2. QED
        BY <4>1
    <3>3. QED
      BY <3>1, <3>2
  <2>4. settled \subseteq settled' /\ settled' \subseteq settled \cup {<<op[p].app, op[p].key>>}
    BY <1>6 DEF ReconcileFinish
  <2>5. SettledWithApproval'
    BY <2>1, <2>2, <2>3, <2>4 DEF SettledInv, SettledWithApproval
  <2>6. \A q \in Procs : op'[q].at = "consumed" => op'[q] = op[q]
    BY <1>1, <2>1 DEF Idle, NewOp
  <2>7. QED
    BY <2>1, <2>5, <2>6 DEF SettledInv
<1>7. ASSUME NEW p \in Procs, Act(p) \/ AbortPreflight(p) \/ Leave(p) \/ ReconcileRefused(p)
      PROVE  SettledInv'
  <2>1. status' = status /\ settled' = settled
    BY <1>7 DEF Act, AbortPreflight, GiveBack, Leave, ReconcileRefused, queueVars, ghosts
  <2>2. \A j \in Keys : entry'[j].st \in Reconciled => entry'[j].st = entry[j].st
    BY <1>1, <1>7 DEF Act, AbortPreflight, GiveBack, Leave, ReconcileRefused, NewEntry, Reconciled
  <2>3. \A q \in Procs : op'[q].at = "consumed" => op[q].at = "consumed" /\ op'[q].app = op[q].app
    <3>1. op' = [op EXCEPT ![p] = Idle] \/ op' = [op EXCEPT ![p].acted = TRUE]
      BY <1>7 DEF Act, AbortPreflight, GiveBack, Leave, ReconcileRefused
    <3>2. CASE op' = [op EXCEPT ![p] = Idle]
      BY <1>1, <3>2 DEF Idle, NewOp
    <3>3. CASE op' = [op EXCEPT ![p].acted = TRUE]
      BY <1>1, <3>3 DEF Op
    <3>4. QED
      BY <3>1, <3>2, <3>3
  <2>4. QED
    BY <2>1, <2>2, <2>3 DEF SettledInv, SettledWithApproval
<1>8. ASSUME NEW p \in Procs, NEW k \in Keys, NEW a \in Requests, NEW r \in Resolutions,
             ReconcileCheck(p, k, a, r)
      PROVE  SettledInv'
  BY <1>1, <1>8 DEF ReconcileCheck, queueVars, ghosts, NewOp, SettledInv, SettledWithApproval
<1>9. CASE Tick \/ UNCHANGED vars
  BY <1>9 DEF Tick, Q!Tick, Q!queueVars, vars, queueVars, ghosts, SettledInv, SettledWithApproval
<1>10. QED
  BY <1>2, <1>3, <1>4, <1>5, <1>6, <1>7, <1>8, <1>9 DEF Next

\* A key is reconciled only on the strength of a consumed approval.
THEOREM SettledByApproval == Spec => []SettledWithApproval
<1>1. Init => SettledInv
  BY DEF Init, SettledInv, SettledWithApproval, Idle, NewOp, Missing, NewEntry, Reconciled
<1>2. SettledInv => SettledWithApproval
  BY DEF SettledInv
<1>3. QED
  BY <1>1, <1>2, SpecIInv, StepSettledInv, PTL DEF Spec

\* What the recovery finds on file it settles, or it rolls it back under the
\* reconciler's feet; the latter never happens to a consumed approval.
LEMMA RecoveryLosesNothing ==
  ASSUME IInv, RecoveryHistory, NEW k \in Keys, NEW a \in Requests, OnFile(a, k)
  PROVE  \/ <<a, k>> \in settled'
         \/ /\ status[a] # "consumed"
            /\ \A p \in Procs : op[p].at = "recorded" /\ op[p].key = k => op[p].app \in disturbed'
<1>1. k \in Recording /\ entry[k].app = a
  BY DEF OnFile, Recording
<1>2. CASE status[a] = "consumed"
  <2>1. k \in ToSettle
    BY <1>1, <1>2 DEF ToSettle
  <2>2. QED
    BY <1>1, <2>1 DEF RecoveryHistory
<1>3. CASE status[a] # "consumed"
  <2>1. k \in ToRollBack
    BY <1>1, <1>3 DEF ToSettle, ToRollBack
  <2>2. QED
    BY <1>3, <2>1 DEF RecoveryHistory
<1>4. QED
  BY <1>2, <1>3

LEMMA RecoveringLoss ==
  ASSUME IInv, LossInv, CrashLosesNoReconciliation, RecoveryHistory, status' = status, spent' = spent,
         \A p \in Procs : \/ op'[p].at \in {"recorded", "consumed"} => op'[p] = op[p]
                          \/ op'[p].at = "recorded" /\ OnFile(op[p].app, op[p].key)'
  PROVE  (LossInv /\ CrashLosesNoReconciliation)'
<1>1. settled \subseteq settled' /\ disturbed \subseteq disturbed'
  BY DEF RecoveryHistory
<1>2. \A x \in spent : x[1] \in Requests /\ x[2] \in Keys /\ x = <<x[1], x[2]>>
  BY DEF IInv, TypeOK
<1>3. CrashLosesNoReconciliation'
  <2> SUFFICES ASSUME NEW x \in spent PROVE x \in settled' \/ x[1] \in disturbed'
    BY DEF CrashLosesNoReconciliation
  <2>1. CASE OnFile(x[1], x[2])
    BY <1>2, <2>1, RecoveryLosesNothing DEF LossInv
  <2>2. CASE ~OnFile(x[1], x[2])
    BY <1>1, <2>2 DEF CrashLosesNoReconciliation
  <2>3. QED
    BY <2>1, <2>2
<1>4. ASSUME NEW p \in Procs, op'[p].at = "recorded"
      PROVE  \/ OnFile(op[p].app, op[p].key)'
             \/ <<op'[p].app, op'[p].key>> \in settled'
             \/ op'[p].app \in disturbed'
  <2>1. CASE op'[p] = op[p]
    <3>1. op[p].at = "recorded" /\ op[p].key \in Keys /\ op[p].app \in Requests
      BY <1>4, <2>1 DEF IInv, OpWellFormed
    <3>2. CASE OnFile(op[p].app, op[p].key)
      BY <2>1, <3>1, <3>2, RecoveryLosesNothing
    <3>3. CASE ~OnFile(op[p].app, op[p].key)
      BY <1>1, <2>1, <3>1, <3>3 DEF LossInv
    <3>4. QED
      BY <3>2, <3>3
  <2>2. QED
    BY <1>4, <2>1
<1>5. \A p \in Procs : op'[p].at = "consumed" => op'[p] = op[p]
  OBVIOUS
<1>6. LossInv'
  BY <1>4, <1>5 DEF LossInv
<1>7. QED
  BY <1>3, <1>6

\* A step that leaves the ledger's records alone.
LEMMA RecordsKept ==
  ASSUME IInv, LossInv, CrashLosesNoReconciliation, status' = status, spent' = spent,
         settled \subseteq settled', disturbed \subseteq disturbed',
         \A k \in Keys, a \in Requests :
           OnFile(a, k) => OnFile(a, k)' \/ <<a, k>> \in settled' \/ a \in disturbed',
         \A p \in Procs : op'[p].at \in {"recorded", "consumed"} =>
           op'[p].at = op[p].at /\ op'[p].app = op[p].app /\ op'[p].key = op[p].key
  PROVE  (LossInv /\ CrashLosesNoReconciliation)'
<1>1. \A x \in spent : x[1] \in Requests /\ x[2] \in Keys /\ x = <<x[1], x[2]>>
  BY DEF IInv, TypeOK
<1>2. CrashLosesNoReconciliation'
  <2> SUFFICES ASSUME NEW x \in spent
               PROVE  x \in settled' \/ OnFile(x[1], x[2])' \/ x[1] \in disturbed'
    BY DEF CrashLosesNoReconciliation
  <2>1. CASE OnFile(x[1], x[2])
    BY <1>1, <2>1
  <2>2. CASE ~OnFile(x[1], x[2])
    BY <2>2 DEF CrashLosesNoReconciliation
  <2>3. QED
    BY <2>1, <2>2
<1>3. ASSUME NEW p \in Procs, op'[p].at = "recorded"
      PROVE  \/ OnFile(op[p].app, op[p].key)'
             \/ <<op'[p].app, op'[p].key>> \in settled'
             \/ op'[p].app \in disturbed'
  <2>1. op[p].at = "recorded" /\ op'[p].app = op[p].app /\ op'[p].key = op[p].key
    BY <1>3
  <2>2. op[p].key \in Keys /\ op[p].app \in Requests
    BY <2>1 DEF IInv, OpWellFormed
  <2>3. CASE OnFile(op[p].app, op[p].key)
    BY <2>1, <2>2, <2>3
  <2>4. CASE ~OnFile(op[p].app, op[p].key)
    BY <2>1, <2>4 DEF LossInv
  <2>5. QED
    BY <2>3, <2>4
<1>4. LossInv'
  BY <1>3 DEF LossInv
<1>5. QED
  BY <1>2, <1>4

LEMMA StepLossInv ==
  IInv /\ LossInv /\ CrashLosesNoReconciliation /\ [Next]_vars => (LossInv /\ CrashLosesNoReconciliation)'
<1> SUFFICES ASSUME IInv, LossInv, CrashLosesNoReconciliation, [Next]_vars
             PROVE  (LossInv /\ CrashLosesNoReconciliation)'
  OBVIOUS
<1>1. /\ DOMAIN Recovered = Keys /\ \A j \in Keys : Recovered[j] \in Entry
      /\ op \in [Procs -> Op] /\ entry \in [Keys -> Entry]
  BY RecoveredType DEF IInv, TypeOK
<1>2. ASSUME NEW p \in Procs, NEW k \in Keys, Reserve(p, k) \/ ReserveExpired(p, k) \/ Refused(p, k)
      PROVE  (LossInv /\ CrashLosesNoReconciliation)'
  <2>1. RecoveryHistory /\ status' = status /\ spent' = spent
    BY <1>2 DEF Reserve, ReserveExpired, Refused, queueVars
  <2>2. op' = op \/ op' = [op EXCEPT ![p] = NewOp("owner", k, drawn + 1, None, None)]
    BY <1>2 DEF Reserve, ReserveExpired, Refused
  <2>3. \A q \in Procs : op'[q].at \in {"recorded", "consumed"} => op'[q] = op[q]
    BY <1>1, <2>2 DEF NewOp
  <2>4. QED
    BY <2>1, <2>3, RecoveringLoss
<1>3. ASSUME NEW p \in Procs, Complete(p) \/ MarkUnknown(p)
      PROVE  (LossInv /\ CrashLosesNoReconciliation)'
  <2>1. RecoveryHistory /\ status' = status /\ spent' = spent /\ op' = [op EXCEPT ![p] = Idle]
    BY <1>3 DEF Complete, MarkUnknown, queueVars
  <2>2. \A q \in Procs : op'[q].at \in {"recorded", "consumed"} => op'[q] = op[q]
    BY <1>1, <2>1 DEF Idle, NewOp
  <2>3. QED
    BY <2>1, <2>2, RecoveringLoss
<1>4. ASSUME NEW p \in Procs, ReconcileRecord(p)
      PROVE  (LossInv /\ CrashLosesNoReconciliation)'
  <2>1. RecoveryHistory /\ status' = status /\ spent' = spent /\ op[p].key \in Keys
    BY <1>4 DEF ReconcileRecord, queueVars, IInv, OpWellFormed
  <2>2. CASE Recovered[op[p].key].st = "unknown_outcome"
    <3>1. /\ entry' = [Recovered EXCEPT ![op[p].key].st = "reconciling_started",
                                        ![op[p].key].app = op[p].app, ![op[p].key].res = op[p].res]
          /\ op' = [op EXCEPT ![p].at = "recorded"]
      BY <1>4, <2>2 DEF ReconcileRecord
    <3>2. entry'[op[p].key].st = "reconciling_started" /\ entry'[op[p].key].app = op[p].app
      BY <1>1, <2>1, <3>1 DEF Entry
    <3>3. op'[p].at = "recorded" /\ op'[p].app = op[p].app /\ op'[p].key = op[p].key
      BY <1>1, <3>1 DEF Op
    <3>4. \A q \in Procs \ {p} : op'[q] = op[q]
      BY <1>1, <3>1
    <3>5. OnFile(op[p].app, op[p].key)'
      BY <3>2, <3>3 DEF OnFile
    <3>6. QED
      BY <2>1, <3>3, <3>4, <3>5, RecoveringLoss
  <2>3. CASE Recovered[op[p].key].st # "unknown_outcome"
    <3>1. op' = [op EXCEPT ![p] = Idle]
      BY <1>4, <2>3 DEF ReconcileRecord
    <3>2. \A q \in Procs : op'[q].at \in {"recorded", "consumed"} => op'[q] = op[q]
      BY <1>1, <3>1 DEF Idle, NewOp
    <3>3. QED
      BY <2>1, <3>2, RecoveringLoss
  <2>4. QED
    BY <2>2, <2>3
<1>5. ASSUME NEW p \in Procs, ReconcileConsume(p)
      PROVE  (LossInv /\ CrashLosesNoReconciliation)'
  <2>1. op[p].at = "recorded" /\ op[p].app \in Requests /\ CallOf[op[p].key] \in Scopes
    BY <1>5, CallAssumption DEF ReconcileConsume, IInv, OpWellFormed
  <2>2. status' = [status EXCEPT ![op[p].app] = "consumed"]
    BY <1>5, <2>1, QueueConsume DEF ReconcileConsume
  <2>3. status'[op[p].app] = "consumed"
    BY <2>1, <2>2 DEF IInv, TypeOK, Q!TypeOK
  <2>4. /\ UNCHANGED <<entry, settled, disturbed>> /\ op' = [op EXCEPT ![p].at = "consumed"]
        /\ spent' = spent \cup {<<op[p].app, op[p].key>>}
    BY <1>5 DEF ReconcileConsume
  <2>5. /\ op'[p].at = "consumed" /\ op'[p].app = op[p].app
        /\ \A q \in Procs \ {p} : op'[q] = op[q]
    BY <1>1, <2>4 DEF Op
  <2>6. \A x \in spent' : status'[x[1]] = "consumed"
    BY <2>3, <2>4, StatusStep DEF LossInv, IInv, TypeOK
  <2>7. \A q \in Procs : op'[q].at = "consumed" => status'[op'[q].app] = "consumed"
    <3> SUFFICES ASSUME NEW q \in Procs, op'[q].at = "consumed" PROVE status'[op'[q].app] = "consumed"
      OBVIOUS
    <3>1. CASE q = p
      BY <2>3, <2>5, <3>1
    <3>2. CASE q # p
      <4>1. op[q].at = "consumed" /\ op[q].app \in Requests /\ op'[q] = op[q]
        BY <2>5, <3>2 DEF IInv, OpWellFormed
      <4>2. QED
        BY <4>1, StatusStep DEF LossInv
    <3>3. QED
      BY <3>1, <3>2
  <2>8. \A q \in Procs : op'[q].at = "recorded" => op'[q] = op[q]
    BY <2>5
  <2>9. LossInv'
    BY <2>4, <2>6, <2>7, <2>8 DEF LossInv, OnFile
  <2>10. CrashLosesNoReconciliation'
    BY <2>1, <2>4 DEF LossInv, CrashLosesNoReconciliation, OnFile
  <2>11. QED
    BY <2>9, <2>10
<1>6. ASSUME NEW p \in Procs, ReconcileFinish(p)
      PROVE  (LossInv /\ CrashLosesNoReconciliation)'
  <2>1. status' = status /\ spent' = spent /\ op' = [op EXCEPT ![p] = Idle] /\ op[p].at = "consumed"
    BY <1>6 DEF ReconcileFinish, queueVars
  <2>2. \A q \in Procs : op'[q].at \in {"recorded", "consumed"} => op'[q] = op[q]
    BY <1>1, <2>1 DEF Idle, NewOp
  <2>3. CASE entry[op[p].key].st = "reconciling_started"
    <3>1. /\ settled' = settled \cup {<<op[p].app, op[p].key>>}
          /\ disturbed' = disturbed \cup ({entry[op[p].key].app} \ {op[p].app})
          /\ \A k \in Keys \ {op[p].key} : entry'[k] = entry[k]
      BY <1>1, <1>6, <2>3 DEF ReconcileFinish
    <3>2. \A k \in Keys, a \in Requests :
            OnFile(a, k) => OnFile(a, k)' \/ <<a, k>> \in settled' \/ a \in disturbed'
      BY <3>1 DEF OnFile
    <3>3. QED
      BY <2>1, <2>2, <3>1, <3>2, RecordsKept
  <2>4. CASE entry[op[p].key].st # "reconciling_started"
    <3>1. UNCHANGED <<entry, settled, disturbed>>
      BY <1>6, <2>4 DEF ReconcileFinish
    <3>2. QED
      BY <2>1, <2>2, <3>1, RecordsKept DEF OnFile
  <2>5. QED
    BY <2>3, <2>4
<1>7. ASSUME NEW p \in Procs, Act(p) \/ AbortPreflight(p) \/ Leave(p) \/ ReconcileRefused(p)
      PROVE  (LossInv /\ CrashLosesNoReconciliation)'
  <2>1. UNCHANGED <<status, spent, settled, disturbed>>
    BY <1>7 DEF Act, AbortPreflight, GiveBack, Leave, ReconcileRefused, queueVars, ghosts
  <2>2. \A k \in Keys : entry'[k] = entry[k] \/ entry[k].st = "reserved"
    BY <1>1, <1>7 DEF Act, AbortPreflight, GiveBack, Leave, ReconcileRefused, Owns
  <2>3. op' = [op EXCEPT ![p] = Idle] \/ (op[p].at = "owner" /\ op' = [op EXCEPT ![p].acted = TRUE])
    BY <1>7 DEF Act, AbortPreflight, GiveBack, Leave, ReconcileRefused
  <2>4. \A q \in Procs : op'[q].at \in {"recorded", "consumed"} => op'[q] = op[q]
    <3>1. CASE op' = [op EXCEPT ![p] = Idle]
      BY <1>1, <3>1 DEF Idle, NewOp
    <3>2. CASE op[p].at = "owner" /\ op' = [op EXCEPT ![p].acted = TRUE]
      BY <1>1, <3>2 DEF Op
    <3>3. QED
      BY <2>3, <3>1, <3>2
  <2>5. QED
    BY <2>1, <2>2, <2>4, RecordsKept DEF OnFile
<1>8. ASSUME NEW p \in Procs, NEW k \in Keys, NEW a \in Requests, NEW r \in Resolutions,
             ReconcileCheck(p, k, a, r)
      PROVE  (LossInv /\ CrashLosesNoReconciliation)'
  <2>1. UNCHANGED <<status, spent, settled, disturbed, entry>> /\ op' = [op EXCEPT ![p] = NewOp("checked", k, 0, a, r)]
    BY <1>8 DEF ReconcileCheck, queueVars, ghosts
  <2>2. \A q \in Procs : op'[q].at \in {"recorded", "consumed"} => op'[q] = op[q]
    BY <1>1, <2>1 DEF NewOp
  <2>3. QED
    BY <2>1, <2>2, RecordsKept DEF OnFile
<1>9. CASE Tick \/ UNCHANGED vars
  <2>1. UNCHANGED <<status, spent, settled, disturbed, entry, op>>
    BY <1>9 DEF Tick, Q!Tick, Q!queueVars, vars, queueVars, ghosts
  <2>2. QED
    BY <2>1, RecordsKept DEF OnFile
<1>10. QED
  BY <1>2, <1>3, <1>4, <1>5, <1>6, <1>7, <1>8, <1>9 DEF Next

\* A consumed approval's reconciliation survives any crash, unless another
\* live process took its record over.
THEOREM CrashLosesNothing == Spec => []CrashLosesNoReconciliation
<1>1. Init => LossInv /\ CrashLosesNoReconciliation
  BY DEF Init, LossInv, CrashLosesNoReconciliation, Idle, NewOp
<1>2. QED
  BY <1>1, SpecIInv, StepLossInv, PTL DEF Spec
==============================================================================
