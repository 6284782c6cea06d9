----------------------- MODULE ExecutionGovernorProofs -----------------------
(***************************************************************************)
(* What the governor guarantees, for any workers, keepers, plans and       *)
(* leases, and however many calls overlap (MaxOverlap is any number).  The *)
(* order of the stages and the verdict hold whatever happens.  That leases *)
(* are exclusive and decide, that a dispatched stage has its package, and  *)
(* the fallback chain, hold until a save undoes another call's update: the *)
(* record a call loads without the lock is the one thing that goes wrong.  *)
(***************************************************************************)
EXTENDS ExecutionGovernor, TLAPS

-----------------------------------------------------------------------------
(***************************************************************************)
(* A good record, and what a call makes of one.                            *)
(***************************************************************************)

Good(r) ==
  /\ r \in Record
  /\ Orderly(r) /\ Reviewed(r)
  /\ r.stage[r.n].st # "dispatched"
  /\ \A i \in Indexes : r.stage[i].st = "pending" => r.stage[i] = Pending

\* s differs from r in stage i at most.
SameBut(r, s, i) == s.n = r.n /\ \A j \in Indexes : j # i => s.stage[j] = r.stage[j]

ClaimStep(r, s, i, lease) ==
  /\ r.idx = i /\ SameBut(r, s, i)
  /\ r.stage[i].st \notin Decided /\ (r.stage[i] = Pending \/ LeaseOver(r.stage[i]))
  /\ s.stage[i] = [st |-> "claimed", lease |-> lease, sent |-> "none"]
  /\ s.idx = i /\ s.status = "running"

DispatchStep(r, s, i, lease, sent) ==
  /\ r.idx = i /\ SameBut(r, s, i)
  /\ r.stage[i].st = "claimed" /\ r.stage[i].lease = lease
  /\ s.stage[i] = [st |-> "dispatched", lease |-> lease, sent |-> sent]
  /\ s.idx = i /\ s.status = "running"

RevertStep(r, s, i, lease) ==
  /\ r.idx = i /\ SameBut(r, s, i)
  /\ r.stage[i].st = "dispatched" /\ r.stage[i].lease = lease
  /\ s.stage[i] = [st |-> "claimed", lease |-> lease, sent |-> "none"]
  /\ s.idx = i /\ s.status = r.status

\* A decision leaves nothing dispatched, and goes on to a later stage unless
\* it is the verdict.
RecordStep(r, s, i, lease) ==
  /\ r.idx = i /\ s.n = r.n
  /\ r.stage[i].st \in Active /\ r.stage[i].lease = lease
  /\ s.stage[i].st \in Decided
  /\ \A j \in Indexes : /\ s.stage[j].st # "dispatched"
                        /\ s.stage[j].lease = r.stage[j].lease
                        /\ r.stage[j].st \in Decided => s.stage[j].st \in Decided
  /\ \/ i = r.n /\ s.idx = i /\ s.status \in Verdicts
     \/ i < r.n /\ s.idx \in (i + 1) .. r.n /\ s.status \notin Verdicts

\* A recovery touches only stages whose lease is over.
RecoverStep(r, s) ==
  /\ s.n = r.n
  /\ \A j \in Indexes :
       \/ s.stage[j] = r.stage[j]
       \/ /\ r.stage[j].st \in Active /\ LeaseOver(r.stage[j])
          /\ s.stage[j].st # "dispatched" /\ s.stage[j].lease \in {0, r.stage[j].lease}
  /\ \/ s.idx = r.idx /\ s.status = r.status
     \/ r.idx < r.n /\ s.idx = r.idx + 1 /\ s.status \notin Verdicts

ReconcileStep(r, s) ==
  /\ s.n = r.n /\ s.idx = r.idx /\ s.status = r.status
  /\ \A j \in Indexes :
       /\ s.stage[j] = r.stage[j] \/ (r.stage[j].st = "dispatched" /\ s.stage[j] = Undispatched(r.stage[j]))
       /\ ~Unpacked(s, j)

-----------------------------------------------------------------------------
(***************************************************************************)
(* The invariant that holds however calls overlap: every record that is    *)
(* saved or about to be is good, and none gives its primary review to a    *)
(* ticket or an adapter.                                                   *)
(***************************************************************************)

Automatic(j) == j.how \in {"ticket", "handoff"}

Sound(r) ==
  /\ Good(r)
  /\ \A i \in Indexes : r.stage[i].lease <= drawn
  /\ \A p \in Procs : Automatic(job[p]) /\ r.stage[job[p].stage].lease = job[p].lease => job[p].stage # r.n

JobsOK ==
  \A p \in Procs :
    IF at[p] \in {"idle", "planning", "recovering", "reconciling"}
      THEN job[p] = NoJob
      ELSE job[p].how # "none" /\ job[p].stage \in Indexes /\ job[p].lease \in 1 .. drawn

\* TypeOK, but for the history of loads and saves.
StateOK ==
  /\ disk    \in Record \cup {None}
  /\ expired \subseteq 1 .. drawn
  /\ drawn   \in Nat
  /\ package \in [Indexes -> 0 .. drawn]
  /\ lock    \in Procs \cup {NoProc}
  /\ at      \in [Procs -> Places]
  /\ job     \in [Procs -> Job]
  /\ copy    \in [Procs -> Record \cup {None}]
  /\ latest  \in [Indexes -> 0 .. drawn]
  /\ by      \in [Indexes -> 0 .. drawn]
  /\ dropped \subseteq 1 .. drawn

HistoryOK == base \in [Procs -> Record \cup {None}] /\ lost \in BOOLEAN

GovInv ==
  /\ StateOK
  /\ JobsOK
  /\ IF disk = None THEN drawn = 0 ELSE Sound(disk)
  /\ \A p \in Procs : at[p] \in Calls => Sound(copy[p])

-----------------------------------------------------------------------------
(***************************************************************************)
(* The invariant that lasts until an update is lost.                       *)
(***************************************************************************)

\* What the copy of a call is of the record it loaded.
Between(p) ==
  /\ at[p] = "planning" => /\ base[p] = None
                           /\ \A i \in Indexes : copy[p].stage[i] = Pending
                           /\ copy[p].idx = 1 /\ copy[p].status \notin Verdicts
  /\ at[p] \in Calls \ {"planning"} => base[p] # None
  /\ at[p] = "claiming"     => ClaimStep(base[p], copy[p], job[p].stage, job[p].lease)
  /\ at[p] = "dispatching"  => DispatchStep(base[p], copy[p], job[p].stage, job[p].lease,
                                            IF job[p].how = "handoff" THEN "adapter" ELSE "worker")
  /\ at[p] = "undoing"      => RevertStep(base[p], copy[p], job[p].stage, job[p].lease)
  /\ at[p] = "recording"    => RecordStep(base[p], copy[p], job[p].stage, job[p].lease)
  /\ at[p] = "recovering"   => RecoverStep(base[p], copy[p])
  /\ at[p] = "reconciling"  => ReconcileStep(base[p], copy[p])

\* A stage is under its latest lease, and decided under it for good.
LeasesOK ==
  \A i \in Indexes :
    /\ disk # None => disk.stage[i].lease \in {0, latest[i]}
    /\ by[i] # 0 => by[i] = latest[i] /\ disk # None /\ disk.stage[i].st \in Decided

\* A lease that is not over, and that a worker or a package holds, is the one
\* of its stage.
Stands(i, lease) == lease \notin expired => disk # None /\ disk.stage[i].lease = lease

HeldOK ==
  /\ \A p \in Procs : Working(p) => Stands(job[p].stage, job[p].lease)
  /\ \A i \in Indexes : package[i] # 0 => Stands(i, package[i])

\* A handoff transaction: under the lock, from its claim to its package.
Handing(a, j) ==
  /\ j.how = "handoff"
  /\ \/ a \in {"packaging", "reverting", "undoing"}
     \/ a \in {"claiming", "holding", "dispatching"} /\ ~j.sent

InHandoff(p) == Handing(at[p], job[p])

LockOK ==
  \A p \in Procs :
    /\ lock = p <=> InHandoff(p) \/ at[p] = "reconciling"
    /\ at[p] \in {"packaging", "reverting", "undoing"} => job[p].how = "handoff"
    /\ at[p] = "packaging" => job[p].sent
    /\ at[p] \in {"claiming", "dispatching"} => ~job[p].sent

\* While it lasts, nobody else's dispatch to an adapter stands at its stage.
SoleOK ==
  \A p \in Procs :
    InHandoff(p) /\ at[p] # "claiming" =>
      /\ disk # None
      /\ LET s == disk.stage[job[p].stage] IN
         s.st = "dispatched" /\ s.sent = "adapter" => s.lease = job[p].lease

\* DispatchedHasPackage of a record that has lost nothing.
Packaged ==
  disk # None => \A i \in Indexes :
    Unpacked(disk, i) =>
      \/ \E p \in Workers : lock = p /\ job[p].stage = i /\ job[p].lease = disk.stage[i].lease
      \/ disk.stage[i].lease \in dropped

GovIInv ==
  /\ GovInv /\ HistoryOK /\ \A p \in Procs : Between(p)
  /\ LeasesOK /\ HeldOK /\ LockOK /\ SoleOK
  /\ Packaged


-----------------------------------------------------------------------------
(* Records.                                                                *)

\* The fields of a record.
LEMMA RecordFields ==
  ASSUME NEW r \in Record
  PROVE  /\ r.n \in Indexes /\ r.kind \in [Indexes -> Kinds] /\ r.mentions \in BOOLEAN
         /\ r.status \in Statuses /\ r.idx \in 1 .. MaxStages + 1
         /\ r.stage \in [Indexes -> Stage]
         /\ \A i \in Indexes : /\ r.stage[i] \in Stage
                               /\ r.stage[i].st \in States /\ r.stage[i].lease \in Nat
                               /\ r.stage[i].sent \in {"none", "worker", "adapter"}
  BY DEF Record, Stage

\* A record with other stages, another index and another status.
Changed(r, stage, idx, status) == [r EXCEPT !.stage = stage, !.idx = idx, !.status = status]

LEMMA Rewritten ==
  ASSUME NEW r \in Record, NEW stage \in [Indexes -> Stage], NEW idx \in 1 .. MaxStages + 1,
         NEW status \in Statuses, NEW s, s = Changed(r, stage, idx, status)
  PROVE  /\ s \in Record
         /\ s.n = r.n /\ s.kind = r.kind /\ s.stage = stage /\ s.idx = idx /\ s.status = status
<1>1. s = [n |-> r.n, kind |-> r.kind, mentions |-> r.mentions, status |-> status,
           idx |-> idx, stage |-> stage]
  BY DEF Record, Changed
<1>2. QED
  BY <1>1, RecordFields DEF Record

\* The current stage of a good record that is not decided: the verdict is
\* open, and only a stage before the review can be dispatched.
LEMMA OpenRecord ==
  ASSUME NEW r, Good(r), r.idx <= r.n, Current(r).st \notin Decided
  PROVE  /\ r.idx \in Indexes /\ r.n \in Indexes /\ r \in Record
         /\ r.status \notin Verdicts
         /\ Current(r).st = "dispatched" => r.idx # r.n
         /\ \A i \in Indexes : i # r.idx => r.stage[i].st \notin Active
<1>1. r \in Record /\ r.n \in Indexes /\ r.idx \in Indexes
  BY RecordFields DEF Good, Indexes, MaxStages
<1>2. r.stage[r.n].st \notin Decided
  <2>1. CASE r.idx = r.n
    BY <2>1 DEF Current
  <2>2. CASE r.idx # r.n
    BY <2>2, <1>1 DEF Good, Orderly, Pending, Decided, Indexes, MaxStages
  <2>3. QED
    BY <2>1, <2>2
<1>3. r.status \notin Verdicts
  BY <1>1, <1>2 DEF Good, Reviewed, Verdicts, Decided
<1>4. ASSUME NEW i \in Indexes, i # r.idx PROVE r.stage[i].st \notin Active
  <2>1. i < r.idx \/ i > r.idx
    BY <1>1, <1>4 DEF Indexes, MaxStages
  <2>2. QED
    BY <2>1 DEF Good, Orderly, Pending, Decided, Active
<1>5. Current(r).st = "dispatched" => r.idx # r.n
  BY DEF Good, Current
<1>6. QED
  BY <1>1, <1>3, <1>4, <1>5

\* A change of the current stage that leaves it undecided, and the verdict
\* open, makes a good record of a good one.
LEMMA CurrentChanged ==
  ASSUME NEW r, Good(r), r.idx <= r.n, Current(r).st \notin Decided,
         NEW t \in Stage, t.st \in Active, t.st = "dispatched" => r.idx # r.n,
         NEW status \in Statuses \ Verdicts, NEW s,
         s = Changed(r, [r.stage EXCEPT ![r.idx] = t], r.idx, status)
  PROVE  /\ Good(s) /\ SameBut(r, s, r.idx) /\ s.idx = r.idx /\ s.status = status
         /\ s.stage[r.idx] = t
<1> DEFINE stage == [r.stage EXCEPT ![r.idx] = t]
<1>1. r.idx \in Indexes /\ r.n \in Indexes /\ r \in Record /\ r.idx \in 1 .. MaxStages + 1
  BY OpenRecord DEF Indexes, MaxStages
<1>2. /\ stage \in [Indexes -> Stage] /\ stage[r.idx] = t
      /\ \A i \in Indexes : i # r.idx => stage[i] = r.stage[i]
  BY <1>1, RecordFields
<1>3. s = Changed(r, stage, r.idx, status) /\ status \in Statuses
  OBVIOUS
<1> HIDE DEF stage
<1>4. /\ s \in Record
      /\ s.n = r.n /\ s.kind = r.kind /\ s.stage = stage /\ s.idx = r.idx /\ s.status = status
  BY <1>1, <1>2, <1>3, Rewritten
<1>5. Orderly(s)
  <2>1. \A i \in Indexes : i < s.idx => s.stage[i].st \in Decided
    BY <1>1, <1>2, <1>4 DEF Good, Orderly, Indexes, MaxStages
  <2>2. \A i \in Indexes : i > s.idx => s.stage[i] = Pending
    BY <1>1, <1>2, <1>4 DEF Good, Orderly, Indexes, MaxStages
  <2>3. \A i \in 1 .. s.n : IsPrimary(s, i) <=> i = s.n
    BY <1>1, <1>4 DEF Good, Orderly, IsPrimary
  <2>4. QED
    BY <2>1, <2>2, <2>3, <1>4 DEF Orderly
<1>6. s.stage[s.n].st \in {"pending", "claimed"}
  <2>1. CASE r.idx = r.n
    BY <2>1, <1>2, <1>4 DEF Active
  <2>2. CASE r.idx # r.n
    BY <2>2, <1>1, <1>2, <1>4 DEF Good, Orderly, Pending, Indexes, MaxStages
  <2>3. QED
    BY <2>1, <2>2
<1>7. Reviewed(s) /\ s.stage[s.n].st # "dispatched"
  BY <1>4, <1>6 DEF Reviewed, Verdicts
<1>8. \A i \in Indexes : s.stage[i].st = "pending" => s.stage[i] = Pending
  BY <1>1, <1>2, <1>4 DEF Good, Active
<1>9. QED
  BY <1>2, <1>4, <1>5, <1>7, <1>8 DEF Good, SameBut

LEMMA ClaimGood ==
  ASSUME NEW r, Good(r), MayClaim(r), NEW lease \in Nat
  PROVE  Good(Claimed(r, lease)) /\ ClaimStep(r, Claimed(r, lease), r.idx, lease)
<1> DEFINE t == [st |-> "claimed", lease |-> lease, sent |-> "none"]
<1>1. r.idx <= r.n /\ Current(r).st \notin Decided
  BY DEF MayClaim, Decided
<1>2. t \in Stage /\ t.st \in Active /\ t.st # "dispatched"
  BY DEF Stage, States, Active
<1>3. r \in Record /\ r.idx \in Indexes
  BY <1>1, OpenRecord
<1> HIDE DEF t
<1>4. PICK s : s = Claimed(r, lease)
  OBVIOUS
<1>5. s = Changed(r, [r.stage EXCEPT ![r.idx] = t], r.idx, "running")
  BY <1>3, <1>4 DEF Claimed, Record, Changed, t
<1>6. "running" \in Statuses \ Verdicts
  BY DEF Statuses, Verdicts
<1>7. /\ Good(s) /\ SameBut(r, s, r.idx) /\ s.idx = r.idx /\ s.status = "running"
      /\ s.stage[r.idx] = t
  BY <1>1, <1>2, <1>5, <1>6, CurrentChanged
<1>8. r.stage[r.idx] = Pending \/ LeaseOver(r.stage[r.idx])
  BY <1>3 DEF MayClaim, Current, Good
<1>9. QED
  BY <1>1, <1>4, <1>7, <1>8 DEF ClaimStep, Current, t

LEMMA DispatchGood ==
  ASSUME NEW r, Good(r), NEW i, NEW lease, MayDispatch(r, i, lease), i # r.n,
         NEW how \in {"worker", "adapter"}
  PROVE  Good(Dispatched(r, how)) /\ DispatchStep(r, Dispatched(r, how), i, lease, how)
<1> DEFINE t == [st |-> "dispatched", lease |-> lease, sent |-> how]
<1>1. r.idx <= r.n /\ r.idx = i /\ Current(r).lease = lease /\ Current(r).st = "claimed"
  BY DEF MayDispatch
<1>2. Current(r).st \notin Decided
  BY <1>1 DEF Decided
<1>3. r \in Record /\ r.idx \in Indexes
  BY <1>1, <1>2, OpenRecord
<1>4. r.stage[i] \in Stage /\ lease \in Nat
  BY <1>1, <1>3, RecordFields DEF Current
<1>5. t \in Stage /\ t.st \in Active
  BY <1>4 DEF Stage, States, Active
<1>6. [r.stage[i] EXCEPT !.st = "dispatched", !.sent = how] = t
  <2>1. PICK c \in Stage : c = r.stage[i]
    BY <1>4
  <2>2. c.lease = lease
    BY <1>1, <2>1 DEF Current
  <2>3. PICK e : e = [c EXCEPT !.st = "dispatched", !.sent = how]
    OBVIOUS
  <2>4. e = [st |-> "dispatched", lease |-> c.lease, sent |-> how]
    BY <2>1, <2>3 DEF Stage
  <2>5. QED
    BY <2>1, <2>2, <2>3, <2>4
<1> HIDE DEF t
<1>7. PICK s : s = Dispatched(r, how)
  OBVIOUS
<1>8. s = Changed(r, [r.stage EXCEPT ![r.idx] = t], r.idx, "running")
  <2>1. PICK stage : stage = [r.stage EXCEPT ![i].st = "dispatched", ![i].sent = how]
    OBVIOUS
  <2>2. stage = [r.stage EXCEPT ![i] = [r.stage[i] EXCEPT !.st = "dispatched", !.sent = how]]
    BY <1>1, <1>3, <2>1, RecordFields
  <2>3. s = [r EXCEPT !.stage = stage, !.status = "running"]
    BY <1>1, <1>3, <1>7, <2>1 DEF Dispatched, Record
  <2>4. QED
    BY <1>1, <1>3, <1>6, <2>2, <2>3 DEF Record, Changed
<1>9. "running" \in Statuses \ Verdicts
  BY DEF Statuses, Verdicts
<1>10. /\ Good(s) /\ SameBut(r, s, r.idx) /\ s.idx = r.idx /\ s.status = "running"
       /\ s.stage[r.idx] = t
  BY <1>1, <1>2, <1>5, <1>8, <1>9, CurrentChanged
<1>11. QED
  BY <1>1, <1>7, <1>10 DEF DispatchStep, Current, t

Reverted(r) == [r EXCEPT !.stage[r.idx] = Undispatched(@)]

LEMMA RevertGood ==
  ASSUME NEW r, Good(r), NEW i, NEW lease, MayRevert(r, i, lease)
  PROVE  Good(Reverted(r)) /\ RevertStep(r, Reverted(r), i, lease)
<1> DEFINE t == [st |-> "claimed", lease |-> lease, sent |-> "none"]
<1>1. r.idx <= r.n /\ r.idx = i /\ Current(r).lease = lease /\ Current(r).st = "dispatched"
  BY DEF MayRevert
<1>2. Current(r).st \notin Decided
  BY <1>1 DEF Decided
<1>3. r \in Record /\ r.idx \in Indexes /\ r.status \in Statuses \ Verdicts
  BY <1>1, <1>2, OpenRecord, RecordFields
<1>4. r.stage[i] \in Stage /\ lease \in Nat
  BY <1>1, <1>3, RecordFields DEF Current
<1>5. t \in Stage /\ t.st \in Active /\ t.st # "dispatched"
  BY <1>4 DEF Stage, States, Active
<1>6. Undispatched(r.stage[i]) = t
  <2>1. PICK c \in Stage : c = r.stage[i]
    BY <1>4
  <2>2. c.lease = lease
    BY <1>1, <2>1 DEF Current
  <2>3. PICK e : e = [c EXCEPT !.st = "claimed", !.sent = "none"]
    OBVIOUS
  <2>4. e = [st |-> "claimed", lease |-> c.lease, sent |-> "none"]
    BY <2>1, <2>3 DEF Stage
  <2>5. QED
    BY <2>1, <2>2, <2>3, <2>4 DEF Undispatched
<1> HIDE DEF t
<1>7. PICK s : s = Reverted(r)
  OBVIOUS
<1>8. s = Changed(r, [r.stage EXCEPT ![r.idx] = t], r.idx, r.status)
  BY <1>1, <1>3, <1>6, <1>7 DEF Record, Changed, Reverted
<1>9. /\ Good(s) /\ SameBut(r, s, r.idx) /\ s.idx = r.idx /\ s.status = r.status
      /\ s.stage[r.idx] = t
  <2>1. PICK status \in Statuses \ Verdicts : status = r.status
    BY <1>3
  <2>2. s = Changed(r, [r.stage EXCEPT ![r.idx] = t], r.idx, status)
    BY <1>8, <2>1
  <2>3. QED
    BY <1>1, <1>2, <1>5, <2>1, <2>2, CurrentChanged
<1>10. QED
  BY <1>1, <1>7, <1>9 DEF RevertStep, Current, t


\* What makes a changed record good.
LEMMA ChangedGood ==
  ASSUME NEW r, Good(r), NEW stage \in [Indexes -> Stage], NEW idx \in 1 .. r.n,
         NEW status \in Statuses, NEW s, s = Changed(r, stage, idx, status),
         \A j \in Indexes : j < idx => stage[j].st \in Decided,
         \A j \in Indexes : j > idx => stage[j] = Pending,
         stage[idx].st = "pending" => stage[idx] = Pending,
         stage[r.n].st # "dispatched",
         status = "completed" <=> stage[r.n].st = "passed",
         status = "failed" <=> stage[r.n].st \in {"failed", "skipped"}
  PROVE  Good(s) /\ s.n = r.n /\ s.stage = stage /\ s.idx = idx /\ s.status = status
<1>1. r \in Record /\ r.n \in Indexes /\ idx \in 1 .. MaxStages + 1 /\ idx \in Indexes
  BY RecordFields DEF Good, Indexes, MaxStages
<1>2. /\ s \in Record
      /\ s.n = r.n /\ s.kind = r.kind /\ s.stage = stage /\ s.idx = idx /\ s.status = status
  BY <1>1, Rewritten
<1>3. \A j \in 1 .. s.n : IsPrimary(s, j) <=> j = s.n
  BY <1>1, <1>2 DEF Good, Orderly, IsPrimary
<1>4. Orderly(s)
  BY <1>1, <1>2, <1>3 DEF Orderly
<1>5. ASSUME NEW j \in Indexes, stage[j].st = "pending" PROVE stage[j] = Pending
  <2>1. j < idx \/ j = idx \/ j > idx
    BY <1>1 DEF Indexes, MaxStages
  <2>2. CASE j < idx
    BY <2>2, <1>5 DEF Decided
  <2>3. QED
    BY <1>5, <2>1, <2>2
<1>6. QED
  BY <1>2, <1>4, <1>5 DEF Good, Reviewed

\* A pass leads to a later stage, the review at the latest.
LEMMA NextReviewLater ==
  ASSUME NEW r \in Record, r.idx < r.n
  PROVE  NextReview(r) \in (r.idx + 1) .. r.n
<1>1. r.n \in 1 .. 6 /\ r.idx \in 1 .. 7
  BY RecordFields DEF Indexes, MaxStages
<1>2. CASE Reviews(r) = {}
  BY <1>1, <1>2 DEF NextReview
<1>3. CASE Reviews(r) # {}
  <2>1. PICK S \in SUBSET (1 .. 6) : S = Reviews(r) /\ S # {}
    <3>1. PICK k, m : k = r.idx /\ m = r.n
      OBVIOUS
    <3>2. Reviews(r) \subseteq (k + 1) .. (m - 1)
      BY <3>1 DEF Reviews
    <3>3. (k + 1) .. (m - 1) \subseteq 1 .. 6
      BY <1>1, <3>1
    <3>4. Reviews(r) \in SUBSET (1 .. 6)
      BY <3>2, <3>3
    <3>5. QED
      BY <1>3, <3>4
  <2>2. \E i \in S : \A j \in S : j <= i
    <3>1. CASE 6 \in S
      BY <2>1, <3>1
    <3>2. CASE 6 \notin S /\ 5 \in S
      BY <2>1, <3>2
    <3>3. CASE 6 \notin S /\ 5 \notin S /\ 4 \in S
      BY <2>1, <3>3
    <3>4. CASE 6 \notin S /\ 5 \notin S /\ 4 \notin S /\ 3 \in S
      BY <2>1, <3>4
    <3>5. CASE 6 \notin S /\ 5 \notin S /\ 4 \notin S /\ 3 \notin S
      BY <2>1, <3>5
    <3>6. QED
      BY <3>1, <3>2, <3>3, <3>4, <3>5
  <2>3. NextReview(r) \in S
    BY <2>1, <2>2 DEF NextReview
  <2>4. QED
    BY <1>1, <2>1, <2>3 DEF Reviews
<1>4. QED
  BY <1>2, <1>3

LEMMA RecordGood ==
  ASSUME NEW r, Good(r), NEW i, NEW lease, NEW sent, MayRecord(r, i, lease, sent),
         NEW o \in Outcomes
  PROVE  Good(Recorded(r, o)) /\ RecordStep(r, Recorded(r, o), i, lease)
<1>1. /\ r.idx <= r.n /\ r.idx = i
      /\ Current(r).lease = lease /\ Current(r).st \in Active
  BY DEF MayRecord, Active
<1>2. Current(r).st \notin Decided
  BY <1>1 DEF Active, Decided
<1>3. /\ r \in Record /\ r.idx \in Indexes /\ r.n \in Indexes /\ r.stage \in [Indexes -> Stage]
      /\ i \in 1 .. r.n /\ r.n \in 1 .. 6
      /\ \A j \in Indexes : j # i => r.stage[j].st \notin Active
  BY <1>1, <1>2, OpenRecord, RecordFields DEF Indexes, MaxStages
<1>4. r.stage[i].lease = lease /\ r.stage[i].st \in Active
  BY <1>1 DEF Current
<1>5. /\ \A j \in Indexes : j < i => r.stage[j].st \in Decided
      /\ \A j \in Indexes : j > i => r.stage[j] = Pending
      /\ IsPrimary(r, r.idx) <=> i = r.n
  BY <1>1, <1>3 DEF Good, Orderly
<1> DEFINE t == [r.stage[i] EXCEPT !.st = o]
<1>6. t \in Stage /\ t.st = o /\ t.lease = lease /\ o \in Decided
  <2>1. PICK c \in Stage : c = r.stage[i]
    BY <1>1, <1>3, RecordFields
  <2>2. PICK e : e = [c EXCEPT !.st = o]
    OBVIOUS
  <2>3. e = [st |-> o, lease |-> c.lease, sent |-> c.sent]
    BY <2>1, <2>2 DEF Stage
  <2>4. e \in Stage /\ e.st = o /\ e.lease = c.lease /\ o \in Decided
    BY <2>1, <2>3 DEF Stage, Outcomes, Decided, States
  <2>5. QED
    BY <1>4, <2>1, <2>2, <2>4
<1> DEFINE one == [r.stage EXCEPT ![i] = t]
<1>7. /\ one \in [Indexes -> Stage] /\ one[i] = t
      /\ \A j \in Indexes : j # i => one[j] = r.stage[j]
  BY <1>1, <1>3, <1>6
<1>8. PICK s : s = Recorded(r, o)
  OBVIOUS
<1> HIDE DEF t, one
<1>9. one = [r.stage EXCEPT ![i].st = o]
  BY <1>3 DEF one, t
<1>10. CASE i = r.n
  <2> DEFINE status == IF o = "passed" THEN "completed" ELSE "failed"
  <2>1. s = Changed(r, one, i, status)
    BY <1>1, <1>3, <1>5, <1>8, <1>9, <1>10
       DEF Recorded, Passed, NotPassed, Changed, Record
  <2>2. /\ status \in Statuses /\ status \in Verdicts
        /\ status = "completed" <=> o = "passed"
        /\ status = "failed" <=> o \in {"failed", "skipped"}
    BY DEF Statuses, Verdicts, Outcomes, Decided
  <2> HIDE DEF status
  <2>3. one[i].st = o /\ o # "pending" /\ o # "dispatched"
    BY <1>6, <1>7 DEF Decided
  <2>4. /\ Good(s) /\ s.n = r.n /\ s.stage = one /\ s.idx = i /\ s.status = status
    BY <1>3, <1>5, <1>7, <1>10, <2>1, <2>2, <2>3, ChangedGood
  <2>5. \A j \in Indexes : /\ one[j].st # "dispatched"
                           /\ one[j].lease = r.stage[j].lease
                           /\ r.stage[j].st \in Decided => one[j].st \in Decided
    BY <1>3, <1>4, <1>6, <1>7, <2>3 DEF Active
  <2>6. QED
    BY <1>1, <1>4, <1>6, <1>7, <1>8, <1>10, <2>2, <2>4, <2>5 DEF RecordStep
<1>11. CASE i # r.n /\ o # "passed"
  <2>1. s = Changed(r, one, i + 1, "running")
    BY <1>1, <1>3, <1>5, <1>8, <1>9, <1>11
       DEF Recorded, NotPassed, Changed, Record
  <2>2. i + 1 \in 1 .. r.n /\ "running" \in Statuses \ Verdicts
    BY <1>3, <1>11 DEF Statuses, Verdicts
  <2>3. one[i].st = o /\ o # "pending" /\ o # "dispatched"
    BY <1>6, <1>7 DEF Decided
  <2>4. /\ \A j \in Indexes : j < i + 1 => one[j].st \in Decided
        /\ \A j \in Indexes : j > i => one[j] = Pending
    BY <1>3, <1>5, <1>6, <1>7, <2>3 DEF Indexes, MaxStages
  <2>5. one[r.n] = Pending /\ one[i + 1] = Pending
    BY <1>3, <1>11, <2>2, <2>4 DEF Indexes, MaxStages
  <2>6. Good(s) /\ s.n = r.n /\ s.stage = one /\ s.idx = i + 1 /\ s.status = "running"
    <3>1. \A j \in Indexes : j > i + 1 => one[j] = Pending
      BY <1>3, <2>4 DEF Indexes, MaxStages
    <3>2. Pending.st = "pending"
      BY DEF Pending
    <3>3. PICK k, status : k = i + 1 /\ status = "running"
      OBVIOUS
    <3>4. QED
      BY <1>7, <2>1, <2>2, <2>4, <2>5, <3>1, <3>2, <3>3, ChangedGood DEF Verdicts
  <2>7. \A j \in Indexes : /\ one[j].st # "dispatched"
                           /\ one[j].lease = r.stage[j].lease
                           /\ r.stage[j].st \in Decided => one[j].st \in Decided
    BY <1>3, <1>4, <1>6, <1>7, <2>3 DEF Active
  <2>8. i < r.n /\ i + 1 \in (i + 1) .. r.n
    BY <1>3, <1>11
  <2>9. QED
    BY <1>1, <1>4, <1>6, <1>7, <1>8, <2>2, <2>6, <2>7, <2>8 DEF RecordStep
<1>12. CASE i # r.n /\ o = "passed"
  <2> DEFINE next == NextReview(r)
             stage == [j \in Indexes |->
                         IF j = i THEN [r.stage[j] EXCEPT !.st = "passed"]
                         ELSE IF j \in (i + 1) .. (next - 1) /\ r.stage[j].st = "pending"
                           THEN [r.stage[j] EXCEPT !.st = "skipped"]
                         ELSE r.stage[j]]
  <2>1. i < r.n /\ next \in (i + 1) .. r.n /\ next \in 1 .. r.n
    BY <1>1, <1>3, <1>12, NextReviewLater
  <2>2. s = Changed(r, stage, next, "awaiting_final_review")
    BY <1>1, <1>3, <1>5, <1>8, <1>12 DEF Recorded, Passed, Changed, Record
  <2> HIDE DEF next
  <2>3. stage[i] = t
    BY <1>1, <1>3, <1>12 DEF t
  <2>4. ASSUME NEW j \in Indexes, j # i
        PROVE  /\ j < i => stage[j] = r.stage[j]
               /\ j > i /\ j < next => stage[j] \in Stage /\ stage[j].st = "skipped" /\ stage[j].lease = 0
               /\ j >= next => stage[j] = Pending
    <3>1. j > i => r.stage[j] = Pending
      BY <1>5, <2>4
    <3>2. CASE j < i
      BY <1>3, <2>1, <2>4, <3>2 DEF Indexes, MaxStages
    <3>3. CASE j > i /\ j < next
      <4>1. stage[j] = [Pending EXCEPT !.st = "skipped"]
        BY <1>3, <2>1, <2>4, <3>1, <3>3 DEF Indexes, MaxStages, Pending
      <4>2. QED
        BY <1>3, <2>1, <3>3, <4>1 DEF Pending, Stage, States, Indexes, MaxStages
    <3>4. CASE j >= next
      BY <1>3, <2>1, <2>4, <3>1, <3>4 DEF Indexes, MaxStages
    <3>5. QED
      BY <1>3, <2>1, <3>2, <3>3, <3>4 DEF Indexes, MaxStages
  <2>5. stage = [j \in Indexes |-> stage[j]]
    OBVIOUS
  <2> HIDE DEF stage
  <2>6. \A j \in Indexes : j = i \/ j < i \/ (j > i /\ j < next) \/ j >= next
    BY <1>3, <2>1 DEF Indexes, MaxStages
  <2>7. Pending \in Stage /\ Pending.st = "pending" /\ Pending.lease = 0
    BY DEF Pending, Stage, States
  <2>8. stage \in [Indexes -> Stage]
    BY <1>3, <1>6, <2>3, <2>4, <2>5, <2>6, <2>7
  <2>9. /\ \A j \in Indexes : j < next => stage[j].st \in Decided
        /\ \A j \in Indexes : j >= next => stage[j] = Pending
    BY <1>3, <1>5, <1>6, <2>1, <2>3, <2>4, <2>6 DEF Indexes, MaxStages, Decided
  <2>10. stage[r.n] = Pending /\ stage[next] = Pending
    BY <1>3, <2>1, <2>9 DEF Indexes, MaxStages
  <2>11. PICK status : status = "awaiting_final_review"
    OBVIOUS
  <2>12. status \in Statuses /\ status \notin Verdicts /\ status # "completed" /\ status # "failed"
    BY <2>11 DEF Statuses, Verdicts
  <2>13. \A j \in Indexes : j > next => stage[j] = Pending
    BY <1>3, <2>1, <2>9 DEF Indexes, MaxStages
  <2>14. Good(s) /\ s.n = r.n /\ s.stage = stage /\ s.idx = next /\ s.status = status
    BY <2>1, <2>2, <2>7, <2>8, <2>9, <2>10, <2>11, <2>12, <2>13, ChangedGood
  <2>15. \A j \in Indexes : /\ stage[j].st # "dispatched"
                            /\ stage[j].lease = r.stage[j].lease
                            /\ r.stage[j].st \in Decided => stage[j].st \in Decided
    <3> SUFFICES ASSUME NEW j \in Indexes
                 PROVE  /\ stage[j].st # "dispatched"
                        /\ stage[j].lease = r.stage[j].lease
                        /\ r.stage[j].st \in Decided => stage[j].st \in Decided
      OBVIOUS
    <3>1. CASE j = i
      BY <3>1, <1>4, <1>6, <1>12, <2>3 DEF Decided
    <3>2. CASE j < i
      BY <3>2, <1>3, <2>4 DEF Active
    <3>3. CASE j > i /\ j < next
      BY <3>3, <1>3, <1>5, <2>4, <2>7 DEF Decided
    <3>4. CASE j >= next
      <4>1. j > i /\ j # i
        BY <3>4, <1>3, <2>1 DEF Indexes, MaxStages
      <4>2. QED
        BY <3>4, <4>1, <1>5, <2>4, <2>7
    <3>5. QED
      BY <2>6, <3>1, <3>2, <3>3, <3>4
  <2>16. stage[i].st \in Decided
    BY <1>6, <2>3
  <2>17. QED
    BY <1>1, <1>4, <1>8, <2>1, <2>12, <2>14, <2>15, <2>16 DEF RecordStep
<1>13. QED
  BY <1>10, <1>11, <1>12


LEMMA RecoverGood ==
  ASSUME NEW r, Good(r)
  PROVE  Good(Recovered(r)) /\ RecoverStep(r, Recovered(r))
<1> DEFINE i == r.idx
           stage == [j \in Indexes |-> RecoveredStage(r.stage[j])]
<1>1. /\ r \in Record /\ r.n \in Indexes /\ i \in Indexes /\ i <= r.n /\ i \in 1 .. r.n
      /\ r.status \in Statuses /\ r.n \in 1 .. 6
      /\ \A j \in Indexes : /\ r.stage[j] \in Stage
                            /\ j < i => r.stage[j].st \in Decided
                            /\ j > i => r.stage[j] = Pending
  BY RecordFields DEF Good, Orderly, Indexes, MaxStages
<1>2. \A j \in Indexes : j # i => r.stage[j].st \notin Active
  <2>1. \A j \in Indexes : j # i => j < i \/ j > i
    BY <1>1 DEF Indexes, MaxStages
  <2>2. QED
    BY <1>1, <2>1 DEF Pending, Decided, Active
<1>3. \A j \in Indexes : j # i => stage[j] = r.stage[j]
  BY <1>2 DEF RecoveredStage, Active
<1>4. Pending \in Stage /\ Pending.st = "pending" /\ Pending.lease = 0
  BY DEF Pending, Stage, States
<1>5. TimedOut(r) <=> r.stage[i].st = "dispatched" /\ LeaseOver(r.stage[i])
  BY <1>1 DEF TimedOut, Current
<1>6. PICK s : s = Recovered(r)
  OBVIOUS
<1>7. /\ stage[i] = RecoveredStage(r.stage[i])
      /\ stage = [j \in Indexes |-> stage[j]]
  BY <1>1
<1>8. CASE TimedOut(r)
  <2>1. r.stage[i].st = "dispatched" /\ LeaseOver(r.stage[i]) /\ i < r.n
    BY <1>1, <1>5, <1>8 DEF Good
  <2>2. s = Changed(r, stage, i + 1, "running")
    <3>1. r.idx # r.n
      BY <1>1, <2>1
    <3>2. Recovered(r) = [r EXCEPT !.stage = stage, !.idx = r.idx + 1, !.status = "running"]
      BY <1>8, <3>1 DEF Recovered
    <3>3. QED
      BY <1>6, <3>2 DEF Changed
  <2>3. stage[i] \in Stage /\ stage[i].st = "failed" /\ stage[i].lease = r.stage[i].lease
    <3>1. PICK c \in Stage : c = r.stage[i]
      BY <1>1
    <3>2. PICK e : e = [c EXCEPT !.st = "failed"]
      OBVIOUS
    <3>3. e = [st |-> "failed", lease |-> c.lease, sent |-> c.sent]
      BY <3>1, <3>2 DEF Stage
    <3>4. e \in Stage /\ e.st = "failed" /\ e.lease = c.lease
      BY <3>1, <3>3 DEF Stage, States
    <3>5. stage[i] = e
      BY <1>7, <2>1, <3>1, <3>2 DEF RecoveredStage
    <3>6. QED
      BY <3>1, <3>4, <3>5
  <2> HIDE DEF stage
  <2>4. PICK next, status : next = i + 1 /\ status = "running"
    OBVIOUS
  <2>5. /\ next \in 1 .. r.n /\ status \in Statuses /\ status \notin Verdicts
        /\ status # "completed" /\ status # "failed"
    BY <1>1, <2>1, <2>4 DEF Statuses, Verdicts
  <2>6. stage \in [Indexes -> Stage]
    BY <1>1, <1>3, <1>7, <2>3
  <2>7. /\ \A j \in Indexes : j < next => stage[j].st \in Decided
        /\ \A j \in Indexes : j > next => stage[j] = Pending
    BY <1>1, <1>3, <2>3, <2>4 DEF Indexes, MaxStages, Decided
  <2>8. stage[r.n] = Pending /\ stage[next] = Pending
    BY <1>1, <1>3, <2>1, <2>4 DEF Indexes, MaxStages
  <2>9. s = Changed(r, stage, next, status)
    BY <2>2, <2>4
  <2>10. Good(s) /\ s.n = r.n /\ s.stage = stage /\ s.idx = next /\ s.status = status
    BY <1>4, <2>5, <2>6, <2>7, <2>8, <2>9, ChangedGood
  <2>11. \A j \in Indexes :
           \/ s.stage[j] = r.stage[j]
           \/ /\ r.stage[j].st \in Active /\ LeaseOver(r.stage[j])
              /\ s.stage[j].st # "dispatched" /\ s.stage[j].lease \in {0, r.stage[j].lease}
    BY <1>3, <2>1, <2>3, <2>10 DEF Active
  <2>12. QED
    BY <1>6, <2>1, <2>4, <2>5, <2>10, <2>11 DEF RecoverStep
<1>9. CASE ~TimedOut(r)
  <2>1. s = Changed(r, stage, i, r.status)
    BY <1>1, <1>6, <1>9 DEF Recovered, Changed, Record
  <2>2. \/ stage[i] = r.stage[i]
        \/ stage[i] = Pending /\ r.stage[i].st = "claimed" /\ LeaseOver(r.stage[i])
    BY <1>5, <1>7, <1>9 DEF RecoveredStage
  <2> HIDE DEF stage
  <2>3. stage \in [Indexes -> Stage]
    BY <1>1, <1>3, <1>4, <1>7, <2>2
  <2>4. /\ \A j \in Indexes : j < i => stage[j].st \in Decided
        /\ \A j \in Indexes : j > i => stage[j] = Pending
    BY <1>1, <1>3 DEF Indexes, MaxStages
  <2>5. stage[i].st = "pending" => stage[i] = Pending
    BY <1>1, <2>2 DEF Good
  <2>6. /\ stage[r.n].st # "dispatched"
        /\ r.status = "completed" <=> stage[r.n].st = "passed"
        /\ r.status = "failed" <=> stage[r.n].st \in {"failed", "skipped"}
    BY <1>1, <1>3, <1>4, <2>2 DEF Good, Reviewed
  <2>7. PICK status : status = r.status
    OBVIOUS
  <2>8. s = Changed(r, stage, i, status)
    BY <2>1, <2>7
  <2>9. Good(s) /\ s.n = r.n /\ s.stage = stage /\ s.idx = i /\ s.status = status
    BY <1>1, <2>3, <2>4, <2>5, <2>6, <2>7, <2>8, ChangedGood
  <2>10. \A j \in Indexes :
           \/ s.stage[j] = r.stage[j]
           \/ /\ r.stage[j].st \in Active /\ LeaseOver(r.stage[j])
              /\ s.stage[j].st # "dispatched" /\ s.stage[j].lease \in {0, r.stage[j].lease}
    BY <1>3, <1>4, <2>2, <2>9 DEF Active
  <2>11. QED
    BY <1>6, <2>7, <2>9, <2>10 DEF RecoverStep
<1>10. QED
  BY <1>8, <1>9

LEMMA ReconcileGood ==
  ASSUME NEW r, Good(r)
  PROVE  Good(Reconciled(r)) /\ ReconcileStep(r, Reconciled(r))
<1> DEFINE i == r.idx
           stage == [j \in Indexes |-> IF Unpacked(r, j) THEN Undispatched(r.stage[j]) ELSE r.stage[j]]
<1>1. /\ r \in Record /\ r.n \in Indexes /\ i \in Indexes /\ i <= r.n /\ i \in 1 .. r.n
      /\ r.status \in Statuses /\ r.n \in 1 .. 6
      /\ \A j \in Indexes : /\ r.stage[j] \in Stage
                            /\ j < i => r.stage[j].st \in Decided
                            /\ j > i => r.stage[j] = Pending
  BY RecordFields DEF Good, Orderly, Indexes, MaxStages
<1>2. \A j \in Indexes : j # i => r.stage[j].st \notin Active
  <2>1. \A j \in Indexes : j # i => j < i \/ j > i
    BY <1>1 DEF Indexes, MaxStages
  <2>2. QED
    BY <1>1, <2>1 DEF Pending, Decided, Active
<1>3. \A j \in Indexes : j # i => stage[j] = r.stage[j]
  BY <1>2 DEF Unpacked, Active
<1>4. /\ stage[i] = IF Unpacked(r, i) THEN Undispatched(r.stage[i]) ELSE r.stage[i]
      /\ stage = [j \in Indexes |-> stage[j]]
  BY <1>1
<1>5. PICK s : s = Reconciled(r)
  OBVIOUS
<1>6. s = Changed(r, stage, i, r.status)
  BY <1>1, <1>5 DEF Reconciled, Changed, Record
<1> HIDE DEF stage
<1>7. Unpacked(r, i) =>
        /\ stage[i] \in Stage /\ stage[i].st = "claimed" /\ i # r.n
        /\ stage[i] = Undispatched(r.stage[i]) /\ r.stage[i].st = "dispatched"
  <2> SUFFICES ASSUME Unpacked(r, i)
               PROVE  /\ stage[i] \in Stage /\ stage[i].st = "claimed" /\ i # r.n
                      /\ stage[i] = Undispatched(r.stage[i]) /\ r.stage[i].st = "dispatched"
    OBVIOUS
  <2>1. PICK c \in Stage : c = r.stage[i]
    BY <1>1
  <2>2. PICK e : e = [c EXCEPT !.st = "claimed", !.sent = "none"]
    OBVIOUS
  <2>3. e = [st |-> "claimed", lease |-> c.lease, sent |-> "none"]
    BY <2>1, <2>2 DEF Stage
  <2>4. e \in Stage /\ e.st = "claimed"
    BY <2>1, <2>3 DEF Stage, States
  <2>5. stage[i] = Undispatched(r.stage[i])
    BY <1>4
  <2>6. stage[i] = e
    BY <2>1, <2>2, <2>5 DEF Undispatched
  <2>7. QED
    BY <2>4, <2>5, <2>6 DEF Unpacked, Good
<1>8. stage \in [Indexes -> Stage]
  BY <1>1, <1>3, <1>4, <1>7
<1>9. /\ \A j \in Indexes : j < i => stage[j].st \in Decided
      /\ \A j \in Indexes : j > i => stage[j] = Pending
  BY <1>1, <1>3 DEF Indexes, MaxStages
<1>10. stage[i].st = "pending" => stage[i] = Pending
  BY <1>1, <1>4, <1>7 DEF Good
<1>11. /\ stage[r.n].st # "dispatched"
       /\ r.status = "completed" <=> stage[r.n].st = "passed"
       /\ r.status = "failed" <=> stage[r.n].st \in {"failed", "skipped"}
  BY <1>1, <1>3, <1>4, <1>7 DEF Good, Reviewed
<1>12. PICK status : status = r.status
  OBVIOUS
<1>13. s = Changed(r, stage, i, status)
  BY <1>6, <1>12
<1>14. Good(s) /\ s.n = r.n /\ s.stage = stage /\ s.idx = i /\ s.status = status
  BY <1>1, <1>8, <1>9, <1>10, <1>11, <1>12, <1>13, ChangedGood
<1>15. ASSUME NEW j \in Indexes
       PROVE  /\ stage[j] = r.stage[j] \/ (r.stage[j].st = "dispatched" /\ stage[j] = Undispatched(r.stage[j]))
              /\ ~(stage[j].st = "dispatched" /\ stage[j].sent = "adapter" /\ package[j] # stage[j].lease)
  <2>1. CASE j # i
    BY <2>1, <1>2, <1>3 DEF Active
  <2>2. CASE j = i /\ Unpacked(r, i)
    BY <2>2, <1>7
  <2>3. CASE j = i /\ ~Unpacked(r, i)
    BY <2>3, <1>4 DEF Unpacked
  <2>4. QED
    BY <2>1, <2>2, <2>3
<1>16. QED
  BY <1>5, <1>12, <1>14, <1>15 DEF ReconcileStep, Unpacked

\* A plan has its primary review last, and nothing begun.
LEMMA PlanGood ==
  ASSUME NEW plan \in Plans
  PROVE  LET r == Planned(plan) IN
         /\ Good(r) /\ \A i \in Indexes : r.stage[i] = Pending
         /\ r.idx = 1 /\ r.status \notin Verdicts
<1> DEFINE f == One(plan.freebuff)
           l == f + One(plan.local)
           o == Ordinary(plan)
           m == o + One(plan.final)
           kind == [i \in Indexes |-> IF i <= f THEN "freebuff" ELSE IF i <= l THEN "ollama"
                                      ELSE IF i <= o THEN "omniroute" ELSE IF i <= m THEN "final"
                                      ELSE "primary"]
<1>1. /\ plan.freebuff \in BOOLEAN /\ plan.local \in BOOLEAN /\ plan.routes \in Nat
      /\ plan.final \in BOOLEAN /\ plan.mentions \in BOOLEAN
  BY GovernorAssumption
<1>2. f \in 0 .. 1 /\ One(plan.local) \in 0 .. 1 /\ One(plan.final) \in 0 .. 1
  BY <1>1 DEF One
<1>3. o \in l .. 5 /\ m \in o .. 5
  <2> DEFINE room   == 5 - One(plan.final)
             routes == IF plan.routes < 3 THEN plan.routes ELSE 3
             wanted == One(plan.freebuff) + One(plan.local) + routes
  <2>1. o = IF wanted < room THEN wanted ELSE room
    BY DEF Ordinary
  <2>2. routes \in 0 .. 3
    BY <1>1
  <2> HIDE DEF routes
  <2>3. QED
    BY <1>2, <2>1, <2>2
<1> HIDE DEF o
<1>4. PICK r : r = Planned(plan)
  OBVIOUS
<1>5. r = [n |-> m + 1, kind |-> kind, mentions |-> plan.mentions, status |-> "planned", idx |-> 1,
           stage |-> [i \in Indexes |-> Pending]]
  BY <1>4 DEF Planned, o
<1>6. /\ m + 1 \in Indexes /\ f <= m /\ l <= m /\ o <= m
      /\ f \in Int /\ l \in Int /\ o \in Int /\ m \in Int
  BY <1>2, <1>3 DEF Indexes, MaxStages
<1> HIDE DEF f, l, m
<1>7. kind \in [Indexes -> Kinds]
  BY DEF Kinds
<1>8. \A i \in 1 .. m + 1 : kind[i] = "primary" <=> i = m + 1
  <2> SUFFICES ASSUME NEW i \in 1 .. m + 1 PROVE kind[i] = "primary" <=> i = m + 1
    OBVIOUS
  <2>1. i \in Indexes
    BY <1>6 DEF Indexes, MaxStages
  <2>2. QED
    BY <1>6, <2>1
<1> HIDE DEF kind
<1>9. Pending \in Stage /\ Pending.st = "pending"
  BY DEF Pending, Stage, States
<1>10. /\ r.n = m + 1 /\ r.kind = kind /\ r.mentions = plan.mentions /\ r.status = "planned"
       /\ r.idx = 1 /\ \A i \in Indexes : r.stage[i] = Pending
  BY <1>5
<1>11. r \in Record
  BY <1>1, <1>5, <1>6, <1>7, <1>9 DEF Record, Statuses, Indexes, MaxStages
<1>12. Orderly(r)
  BY <1>6, <1>8, <1>10 DEF Orderly, IsPrimary, Indexes, MaxStages
<1>13. Reviewed(r)
  BY <1>6, <1>9, <1>10 DEF Reviewed
<1>14. QED
  BY <1>4, <1>6, <1>9, <1>10, <1>11, <1>12, <1>13 DEF Good, Verdicts


-----------------------------------------------------------------------------
(***************************************************************************)
(* Calls that may overlap.                                                 *)
(***************************************************************************)

Free == {"idle", "planning", "recovering", "reconciling"}

OthersOK ==
  /\ drawn   \in Nat
  /\ expired \subseteq 1 .. drawn
  /\ package \in [Indexes -> 0 .. drawn]
  /\ lock    \in Procs \cup {NoProc}
  /\ latest  \in [Indexes -> 0 .. drawn]
  /\ by      \in [Indexes -> 0 .. drawn]
  /\ dropped \subseteq 1 .. drawn

\* What a process may be given to work under, and a change of it that gives no
\* stage of an old lease to a ticket or an adapter.
JobFits(a, j) ==
  IF a \in Free THEN j = NoJob
                ELSE j.how # "none" /\ j.stage \in Indexes /\ j.lease \in 1 .. drawn

SameJob(j, k) == Automatic(k) => Automatic(j) /\ k.stage = j.stage /\ k.lease = j.lease

\* What a call makes of a sound record is sound: it keeps leases or drops them.
LEMMA SoundDerived ==
  ASSUME GovInv, NEW r, Sound(r), NEW s, Good(s), s.n = r.n,
         \A i \in Indexes : s.stage[i].lease \in {0, r.stage[i].lease}
  PROVE  Sound(s)
<1>1. drawn \in Nat
  BY DEF GovInv, StateOK
<1>2. \A i \in Indexes : s.stage[i].lease <= drawn
  BY <1>1 DEF Sound
<1>3. ASSUME NEW p \in Procs, Automatic(job[p]), s.stage[job[p].stage].lease = job[p].lease
      PROVE  job[p].stage # s.n
  <2>1. job[p] # NoJob
    BY <1>3 DEF Automatic, NoJob
  <2>2. job[p].stage \in Indexes /\ job[p].lease # 0
    BY <2>1 DEF GovInv, JobsOK
  <2>3. r.stage[job[p].stage].lease = job[p].lease
    BY <1>3, <2>2
  <2>4. QED
    BY <1>3, <2>3 DEF Sound
<1>4. QED
  BY <1>2, <1>3 DEF Sound

\* A step of one process: it works under the job it had, or under a new
\* lease, and saves at most its copy.
LEMMA GovMove ==
  ASSUME GovInv, OthersOK', drawn <= drawn', disk = None => drawn' = drawn,
         NEW p \in Procs, NEW a \in Places, NEW j \in Job, NEW c \in Record \cup {None},
         at' = [at EXCEPT ![p] = a], job' = [job EXCEPT ![p] = j], copy' = [copy EXCEPT ![p] = c],
         JobFits(a, j)',
         SameJob(job[p], j) \/ j.lease > drawn,
         disk' = disk \/ (at[p] \in Calls /\ disk' = copy[p]),
         a \in Calls => Sound(c) \/ Sound(c)'
  PROVE  GovInv'
<1>1. /\ StateOK /\ JobsOK /\ drawn \in Nat /\ drawn' \in Nat
      /\ disk # None => Sound(disk)
      /\ \A q \in Procs : at[q] \in Calls => Sound(copy[q])
  BY DEF GovInv, OthersOK, StateOK
<1>2. /\ at'[p] = a /\ job'[p] = j /\ copy'[p] = c
      /\ \A q \in Procs : q # p => at'[q] = at[q] /\ job'[q] = job[q] /\ copy'[q] = copy[q]
  BY <1>1 DEF StateOK
<1>3. JobsOK'
  <2> SUFFICES ASSUME NEW q \in Procs PROVE JobFits(at[q], job[q])'
    BY DEF JobsOK, JobFits, Free
  <2>1. CASE q = p
    <3>1. JobFits(a, j)'
      OBVIOUS
    <3>2. QED
      BY <2>1, <1>2, <3>1 DEF JobFits
  <2>2. CASE q # p
    <3>1. IF at[q] \in Free THEN job[q] = NoJob
          ELSE job[q].how # "none" /\ job[q].stage \in Indexes /\ job[q].lease \in 1 .. drawn
      BY <1>1 DEF JobsOK, Free
    <3>2. QED
      BY <2>2, <1>1, <1>2, <3>1 DEF JobFits
  <2>3. QED
    BY <2>1, <2>2
<1>4. ASSUME NEW r, Sound(r) PROVE Sound(r)'
  <2>1. \A i \in Indexes : r.stage[i].lease \in Nat /\ r.stage[i].lease <= drawn
    BY <1>4, RecordFields DEF Sound, Good
  <2>2. \A i \in Indexes : r.stage[i].lease <= drawn'
    BY <1>1, <2>1
  <2>3. ASSUME NEW q \in Procs, Automatic(job'[q]), r.stage[job'[q].stage].lease = job'[q].lease
        PROVE  job'[q].stage # r.n
    <3>1. CASE Automatic(job[q]) /\ job'[q].stage = job[q].stage /\ job'[q].lease = job[q].lease
      BY <1>4, <2>3, <3>1 DEF Sound
    <3>2. CASE q = p /\ ~SameJob(job[p], j)
      <4>1. j.lease > drawn /\ j.stage \in Indexes /\ j.lease \in Nat
        BY <1>2, <1>3, <2>3, <3>2 DEF JobsOK, Automatic, NoJob, Job
      <4>2. QED
        BY <1>1, <1>2, <2>1, <2>3, <3>2, <4>1
    <3>3. QED
      BY <1>2, <2>3, <3>1, <3>2 DEF SameJob
  <2>4. QED
    BY <1>4, <2>2, <2>3 DEF Sound
<1>5. StateOK'
  <2>1. disk' \in Record \cup {None}
    BY <1>1 DEF StateOK
  <2>2. /\ at' \in [Procs -> Places] /\ job' \in [Procs -> Job]
        /\ copy' \in [Procs -> Record \cup {None}]
    BY <1>1 DEF StateOK
  <2>3. QED
    BY <2>1, <2>2 DEF StateOK, OthersOK
<1>6. IF disk' = None THEN drawn' = 0 ELSE Sound(disk)'
  <2>0. CASE disk' = None
    <3>1. disk = None
      BY <1>1, <2>0, NoRecordAssumption DEF Sound, Good
    <3>2. QED
      BY <2>0, <3>1 DEF GovInv
  <2> SUFFICES ASSUME disk' # None PROVE Sound(disk)'
    BY <2>0
  <2>1. PICK r : r = disk'
    OBVIOUS
  <2>2. Sound(r)
    BY <1>1, <2>1
  <2>3. Sound(r)'
    BY <1>4, <2>2
  <2>4. QED
    BY <2>1, <2>3 DEF Sound
<1>7. ASSUME NEW q \in Procs, at'[q] \in Calls PROVE Sound(copy[q])'
  <2>1. CASE q = p
    <3>1. Sound(c)'
      BY <1>2, <1>4, <1>7, <2>1
    <3>2. QED
      BY <1>2, <2>1, <3>1 DEF Sound
  <2>2. CASE q # p
    <3>1. PICK r : r = copy[q]
      OBVIOUS
    <3>2. Sound(r)'
      BY <1>1, <1>2, <1>4, <1>7, <2>2, <3>1
    <3>3. QED
      BY <1>2, <2>2, <3>1, <3>2 DEF Sound
  <2>3. QED
    BY <2>1, <2>2
<1>8. QED
  BY <1>3, <1>5, <1>6, <1>7 DEF GovInv


LEMMA GovInit == Init => GovInv
<1> SUFFICES ASSUME Init PROVE GovInv
  OBVIOUS
<1>1. /\ \A p \in Procs : at[p] = "idle" /\ job[p] = NoJob
      /\ disk = None /\ drawn = 0
  BY DEF Init
<1>2. StateOK
  BY DEF Init, StateOK, NoJob, Job, Places, MaxStages
<1>3. \A p \in Procs : at[p] \notin Calls
  BY <1>1 DEF Calls
<1>4. QED
  BY <1>1, <1>2, <1>3 DEF GovInv, JobsOK

\* A call that loads the record and makes a sound copy.
LEMMA LoadKeeps ==
  ASSUME GovInv, NEW p \in Procs, NEW place \in Calls, NEW c, Load(p, place, c), Sound(c),
         UNCHANGED <<disk, expired, drawn, package, job, latest, by, dropped>>,
         lock' \in Procs \cup {NoProc}, place \in Free <=> at[p] \in Free
  PROVE  GovInv'
<1>1. StateOK /\ JobsOK
  BY DEF GovInv
<1>2. OthersOK' /\ drawn <= drawn'
  BY <1>1 DEF OthersOK, StateOK
<1>3. c \in Record \cup {None} /\ place \in Places
  BY DEF Sound, Good, Calls, Places
<1>4. PICK j \in Job : j = job[p]
  BY <1>1 DEF StateOK
<1>5. /\ at' = [at EXCEPT ![p] = place] /\ copy' = [copy EXCEPT ![p] = c]
      /\ job' = [job EXCEPT ![p] = j]
  BY <1>1, <1>4 DEF Load, StateOK
<1>6. IF at[p] \in Free THEN j = NoJob
      ELSE j.how # "none" /\ j.stage \in Indexes /\ j.lease \in 1 .. drawn
  BY <1>1, <1>4 DEF JobsOK, Free
<1>7. JobFits(place, j)'
  BY <1>6 DEF JobFits
<1>8. SameJob(job[p], j)
  BY <1>4 DEF SameJob
<1>9. QED
  BY <1>2, <1>3, <1>5, <1>7, <1>8, GovMove

\* A call that ends, and works under its job or under none from then on.
LEMMA SaveKeeps ==
  ASSUME GovInv, NEW p \in Procs, at[p] \in Calls, NEW place \in Places \ Calls, Save(p, place),
         NEW j \in Job, job' = [job EXCEPT ![p] = j], SameJob(job[p], j), JobFits(place, j),
         OthersOK', drawn' = drawn
  PROVE  GovInv'
<1>1. /\ at' = [at EXCEPT ![p] = place] /\ copy' = [copy EXCEPT ![p] = None] /\ disk' = copy[p]
  BY DEF Save, Overwrite
<1>2. JobFits(place, j)' /\ drawn <= drawn' /\ place \notin Calls /\ place \in Places
  BY DEF JobFits, OthersOK
<1>3. PICK c \in Record \cup {None} : c = None
  OBVIOUS
<1>4. QED
  BY <1>1, <1>2, <1>3, GovMove

LEMMA StopKeeps ==
  ASSUME GovInv, NEW p \in Procs, Stop(p), disk' = disk \/ (at[p] \in Calls /\ disk' = copy[p]),
         OthersOK', drawn' = drawn
  PROVE  GovInv'
<1>1. PICK c \in Record \cup {None}, j \in Job, a \in Places : c = None /\ j = NoJob /\ a = "idle"
  <2>1. NoJob \in Job
    BY DEF Job, NoJob, MaxStages
  <2>2. "idle" \in Places
    BY DEF Places
  <2>3. QED
    BY <2>1, <2>2, Zenon
<1>2. at' = [at EXCEPT ![p] = a] /\ copy' = [copy EXCEPT ![p] = c] /\ job' = [job EXCEPT ![p] = j]
  BY <1>1 DEF Stop
<1>3. JobFits(a, j)' /\ SameJob(job[p], j) /\ drawn <= drawn' /\ a \notin Calls
  BY <1>1 DEF JobFits, Free, SameJob, Automatic, NoJob, OthersOK, Calls
<1>4. QED
  BY <1>1, <1>2, <1>3, GovMove

\* A step that leaves the record and the copies alone.
LEMMA QuietKeeps ==
  ASSUME GovInv, NEW p \in Procs, UNCHANGED <<disk, copy>>, OthersOK', drawn' = drawn,
         NEW a \in Places \ Calls, at' = [at EXCEPT ![p] = a],
         NEW j \in Job, job' = [job EXCEPT ![p] = j], SameJob(job[p], j), JobFits(a, j)
  PROVE  GovInv'
<1>1. PICK c \in Record \cup {None} : c = copy[p]
  BY DEF GovInv, StateOK
<1>2. copy' = [copy EXCEPT ![p] = c]
  BY <1>1 DEF GovInv, StateOK
<1>3. JobFits(a, j)' /\ drawn <= drawn' /\ a \notin Calls /\ a \in Places
  BY DEF JobFits, OthersOK
<1>4. QED
  BY <1>1, <1>2, <1>3, GovMove

\* The current job of a process that is at work.
LEMMA JobAtWork ==
  ASSUME GovInv, NEW p \in Procs, at[p] \notin Free
  PROVE  /\ job[p] \in Job /\ job[p].how # "none" /\ job[p].how \in {"ticket", "handoff", "direct"}
         /\ job[p].stage \in Indexes /\ job[p].lease \in 1 .. drawn /\ drawn \in Nat
         /\ job[p] # NoJob
         /\ disk # None /\ Sound(disk)
<1>1. job[p] \in Job /\ drawn \in Nat /\ job[p] \in [how : {"none", "ticket", "handoff", "direct"}, stage : 0 .. MaxStages, lease : Nat, sent : BOOLEAN]
  BY DEF GovInv, StateOK, Job
<1>2. job[p].how # "none" /\ job[p].stage \in Indexes /\ job[p].lease \in 1 .. drawn
  BY DEF GovInv, JobsOK, Free
<1>3. disk # None /\ Sound(disk)
  BY <1>1, <1>2 DEF GovInv
<1>4. QED
  BY <1>1, <1>2, <1>3 DEF NoJob

LEMMA OthersStay ==
  ASSUME GovInv, UNCHANGED <<expired, drawn, package, latest, by, dropped>>,
         lock' \in Procs \cup {NoProc}
  PROVE  OthersOK'
  BY DEF GovInv, StateOK, OthersOK

-----------------------------------------------------------------------------
(* The steps, one by one.                                                  *)

LEMMA StartPlanKeeps ==
  ASSUME GovInv, NEW p \in Procs, NEW plan \in Plans, StartPlan(p, plan)
  PROVE  GovInv'
<1>1. /\ at[p] = "idle" /\ Load(p, "planning", Planned(plan))
      /\ UNCHANGED <<disk, expired, drawn, package, job, latest, by, dropped>> /\ lock' = lock
  BY DEF StartPlan
<1>2. PICK r : r = Planned(plan)
  OBVIOUS
<1>3. Good(r) /\ \A i \in Indexes : r.stage[i].lease = 0
  BY <1>2, PlanGood DEF Pending
<1>4. Sound(r)
  <2>1. \A i \in Indexes : r.stage[i].lease <= drawn
    BY <1>3 DEF GovInv, StateOK
  <2>2. ASSUME NEW q \in Procs, Automatic(job[q]) PROVE r.stage[job[q].stage].lease # job[q].lease
    <3>1. job[q] # NoJob
      BY <2>2 DEF Automatic, NoJob
    <3>2. job[q].stage \in Indexes /\ job[q].lease # 0
      BY <3>1 DEF GovInv, JobsOK
    <3>3. QED
      BY <1>3, <3>2
  <2>3. QED
    BY <1>3, <2>1, <2>2 DEF Sound
<1>5. lock' \in Procs \cup {NoProc}
  BY <1>1 DEF GovInv, StateOK
<1>6. QED
  BY <1>1, <1>2, <1>4, <1>5, LoadKeeps DEF Calls, Free

\* A claim draws a lease that no record, and no job, has.
LEMMA StartClaimKeeps ==
  ASSUME GovInv, NEW p \in Workers, NEW how \in {"ticket", "handoff", "direct"}, StartClaim(p, how)
  PROVE  GovInv'
<1> DEFINE new == [how |-> how, stage |-> disk.idx, lease |-> drawn + 1, sent |-> FALSE]
<1>1. /\ at[p] = "idle" /\ disk # None /\ MayClaim(disk)
      /\ how # "direct" => ~IsPrimary(disk, disk.idx)
      /\ drawn' = drawn + 1
      /\ lock' \in {lock, p}
      /\ job' = [job EXCEPT ![p] = new]
      /\ at' = [at EXCEPT ![p] = "claiming"]
      /\ copy' = [copy EXCEPT ![p] = Claimed(disk, drawn + 1)]
      /\ UNCHANGED <<disk, expired, package, latest, by, dropped>>
  BY DEF StartClaim, Load
<1>2. StateOK /\ JobsOK /\ Sound(disk) /\ drawn \in Nat /\ p \in Procs
  BY <1>1 DEF GovInv, StateOK, Procs
<1>3. OthersOK' /\ drawn <= drawn'
  BY <1>1, <1>2 DEF OthersOK, StateOK
<1>4. PICK lease, r, i : lease \in Nat /\ r = disk /\ lease = drawn + 1 /\ i = disk.idx
  <2>1. drawn + 1 \in Nat
    BY <1>2
  <2>2. QED
    BY <2>1, Zenon
<1>5. PICK c : c = Claimed(r, lease)
  OBVIOUS
<1>6. Good(c) /\ ClaimStep(r, c, i, lease)
  BY <1>1, <1>2, <1>4, <1>5, ClaimGood DEF Sound
<1>7. i \in Indexes /\ i <= r.n /\ r.n \in Indexes /\ (how # "direct" => i # r.n) /\ c.n = r.n
  <2>1. i \in Indexes /\ i <= r.n /\ r.n \in Indexes
    BY <1>1, <1>2, <1>4, RecordFields DEF Sound, Good, MayClaim, Indexes, MaxStages
  <2>2. IsPrimary(r, i) <=> i = r.n
    BY <1>2, <1>4, <2>1 DEF Sound, Good, Orderly, Indexes, MaxStages
  <2>3. QED
    BY <1>1, <1>4, <1>6, <2>1, <2>2 DEF ClaimStep, SameBut
<1>8. PICK j : j = new
  OBVIOUS
<1>9. /\ j \in Job /\ j.stage = i /\ j.lease = lease /\ j.how = how
      /\ job' = [job EXCEPT ![p] = j]
  BY <1>1, <1>4, <1>7, <1>8 DEF Job, Indexes, MaxStages
<1> HIDE DEF new
<1>10. job'[p] = j /\ \A q \in Procs : q # p => job'[q] = job[q]
  BY <1>2, <1>9 DEF StateOK
<1>11. \A k \in Indexes : r.stage[k].lease \in Nat /\ r.stage[k].lease <= drawn
  BY <1>2, <1>4, RecordFields DEF Sound, Good
<1>12. c.stage[i].lease = lease /\ \A k \in Indexes : k # i => c.stage[k] = r.stage[k]
  BY <1>6 DEF ClaimStep, SameBut
<1>13. Sound(c)'
  <2>1. \A k \in Indexes : c.stage[k].lease <= drawn'
    BY <1>1, <1>2, <1>4, <1>11, <1>12
  <2>2. ASSUME NEW q \in Procs, Automatic(job'[q]), c.stage[job'[q].stage].lease = job'[q].lease
        PROVE  job'[q].stage # c.n
    <3>1. CASE q = p
      BY <1>7, <1>9, <1>10, <2>2, <3>1 DEF Automatic
    <3>2. CASE q # p
      <4>1. Automatic(job[q]) /\ job'[q] = job[q] /\ job[q] # NoJob
        BY <1>10, <2>2, <3>2 DEF Automatic, NoJob
      <4>2. job[q].stage \in Indexes /\ job[q].lease \in 1 .. drawn
        BY <1>2, <4>1 DEF JobsOK
      <4>3. job[q].stage # i
        BY <1>2, <1>4, <1>12, <2>2, <4>1, <4>2
      <4>4. r.stage[job[q].stage].lease = job[q].lease
        BY <1>12, <2>2, <4>1, <4>2, <4>3
      <4>5. QED
        BY <1>2, <1>4, <1>7, <4>1, <4>4 DEF Sound
    <3>3. QED
      BY <3>1, <3>2
  <2>3. QED
    BY <1>6, <2>1, <2>2 DEF Sound
<1>14. JobFits("claiming", j)'
  BY <1>1, <1>2, <1>4, <1>7, <1>9 DEF JobFits, Free
<1>15. PICK a \in Places : a = "claiming"
  BY DEF Places
<1>16. /\ at' = [at EXCEPT ![p] = a] /\ copy' = [copy EXCEPT ![p] = c]
       /\ c \in Record \cup {None} /\ j.lease > drawn /\ disk' = disk /\ disk # None
  BY <1>1, <1>2, <1>4, <1>5, <1>6, <1>9, <1>15 DEF Good
<1>17. QED
  BY <1>2, <1>3, <1>9, <1>13, <1>14, <1>15, <1>16, GovMove


\* Plans, recoveries and reconciliations, which work under no job.
LEMMA FreeSaveKeeps ==
  ASSUME GovInv, NEW p \in Procs, at[p] \in {"planning", "recovering", "reconciling"},
         Save(p, "idle"), UNCHANGED job, OthersOK', drawn' = drawn
  PROVE  GovInv'
<1>1. PICK j \in Job : j = job[p]
  BY DEF GovInv, StateOK
<1>2. j = NoJob
  BY <1>1 DEF GovInv, JobsOK
<1>3. job' = [job EXCEPT ![p] = j] /\ SameJob(job[p], j) /\ JobFits("idle", j)
  BY <1>1, <1>2 DEF GovInv, StateOK, SameJob, JobFits, Free
<1>4. PICK place \in Places \ Calls : place = "idle"
  BY DEF Places, Calls
<1>5. QED
  BY <1>1, <1>3, <1>4, SaveKeeps DEF Calls

LEMMA EndPlanKeeps ==
  ASSUME GovInv, NEW p \in Procs, EndPlan(p) PROVE GovInv'
<1>1. lock' \in Procs \cup {NoProc}
  BY DEF EndPlan, GovInv, StateOK
<1>2. OthersOK'
  BY <1>1, OthersStay DEF EndPlan
<1>3. QED
  BY <1>2, FreeSaveKeeps DEF EndPlan

LEMMA EndRecoverKeeps ==
  ASSUME GovInv, NEW p \in Procs, EndRecover(p) PROVE GovInv'
<1>1. lock' \in Procs \cup {NoProc}
  BY DEF EndRecover, GovInv, StateOK
<1>2. OthersOK'
  BY <1>1, OthersStay DEF EndRecover
<1>3. QED
  BY <1>2, FreeSaveKeeps DEF EndRecover

LEMMA EndReconcileKeeps ==
  ASSUME GovInv, NEW p \in Procs, EndReconcile(p) PROVE GovInv'
<1>1. OthersOK'
  BY DEF EndReconcile, OthersOK, GovInv, StateOK
<1>2. QED
  BY <1>1, FreeSaveKeeps DEF EndReconcile

\* A call at work saves and goes on with the job it has.
LEMMA EndClaimKeeps ==
  ASSUME GovInv, NEW p \in Workers, EndClaim(p) PROVE GovInv'
<1>1. /\ at[p] = "claiming" /\ Save(p, "holding")
      /\ latest' = [latest EXCEPT ![job[p].stage] = job[p].lease]
      /\ UNCHANGED <<expired, drawn, package, lock, job, by, dropped>>
  BY DEF EndClaim
<1>2. PICK j \in Job : j = job[p] /\ p \in Procs
  BY DEF GovInv, StateOK, Procs
<1>3. j.how # "none" /\ j.stage \in Indexes /\ j.lease \in 1 .. drawn
  BY <1>1, <1>2, JobAtWork DEF Free
<1>4. OthersOK'
  BY <1>1, <1>2, <1>3 DEF OthersOK, GovInv, StateOK
<1>5. job' = [job EXCEPT ![p] = j] /\ SameJob(job[p], j) /\ JobFits("holding", j)
  BY <1>1, <1>2, <1>3 DEF GovInv, StateOK, SameJob, JobFits, Free
<1>6. PICK place \in Places \ Calls : place = "holding"
  BY DEF Places, Calls
<1>7. QED
  BY <1>1, <1>2, <1>4, <1>5, <1>6, SaveKeeps DEF Calls

LEMMA StartDispatchKeeps ==
  ASSUME GovInv, NEW p \in Workers, StartDispatch(p) PROVE GovInv'
<1> DEFINE how == IF job[p].how = "handoff" THEN "adapter" ELSE "worker"
<1>1. /\ at[p] = "holding" /\ Automatic(job[p])
      /\ MayDispatch(disk, job[p].stage, job[p].lease)
      /\ Load(p, "dispatching", Dispatched(disk, how))
      /\ UNCHANGED <<disk, expired, drawn, package, job, latest, by, dropped>> /\ lock' = lock
  BY DEF StartDispatch, Automatic
<1>2. p \in Procs /\ lock' \in Procs \cup {NoProc}
  BY <1>1 DEF Procs, GovInv, StateOK
<1>3. job[p].stage \in Indexes /\ job[p].lease \in 1 .. drawn
  BY <1>1, <1>2, JobAtWork DEF Free
<1>4. disk # None /\ Sound(disk)
  BY <1>1, <1>2, JobAtWork DEF Free
<1>5. Sound(disk) /\ disk.idx = job[p].stage /\ disk.stage[job[p].stage].lease = job[p].lease
  BY <1>1, <1>4 DEF MayDispatch, Current
<1>6. job[p].stage # disk.n
  BY <1>1, <1>2, <1>5 DEF Sound
<1>7. PICK r, i, lease : r = disk /\ i = job[p].stage /\ lease = job[p].lease
  OBVIOUS
<1>8. PICK s : s = Dispatched(disk, how)
  OBVIOUS
<1>9. Good(s) /\ DispatchStep(disk, s, i, lease, how)
  BY <1>1, <1>5, <1>6, <1>7, <1>8, DispatchGood DEF Sound
<1>10. Sound(s)
  <2>1. s.n = disk.n /\ \A k \in Indexes : s.stage[k].lease \in {0, disk.stage[k].lease}
    BY <1>9 DEF DispatchStep, SameBut
  <2>2. QED
    BY <1>5, <1>9, <2>1, SoundDerived
<1>11. QED
  BY <1>1, <1>2, <1>8, <1>10, LoadKeeps DEF Calls, Free


LEMMA EndDispatchKeeps ==
  ASSUME GovInv, NEW p \in Workers, EndDispatch(p) PROVE GovInv'
<1>1. /\ at[p] = "dispatching"
      /\ Save(p, IF job[p].how = "handoff" THEN "packaging" ELSE "holding")
      /\ job' = [job EXCEPT ![p].sent = TRUE]
      /\ UNCHANGED <<expired, drawn, package, lock, latest, by, dropped>>
  BY DEF EndDispatch
<1>2. PICK k \in Job : k = job[p] /\ p \in Procs
  BY DEF GovInv, StateOK, Procs
<1>3. PICK j : j = [k EXCEPT !.sent = TRUE]
  OBVIOUS
<1>4. j \in Job /\ j.how = k.how /\ j.stage = k.stage /\ j.lease = k.lease
  BY <1>2, <1>3 DEF Job
<1>5. k.how # "none" /\ k.stage \in Indexes /\ k.lease \in 1 .. drawn
  BY <1>1, <1>2, JobAtWork DEF Free
<1>6. job' = [job EXCEPT ![p] = j]
  BY <1>1, <1>2, <1>3 DEF GovInv, StateOK
<1>7. SameJob(job[p], j)
  BY <1>2, <1>4 DEF SameJob, Automatic
<1>8. PICK place \in Places \ Calls :
        place = IF job[p].how = "handoff" THEN "packaging" ELSE "holding"
  BY DEF Places, Calls
<1>9. JobFits(place, j)
  BY <1>4, <1>5, <1>8 DEF JobFits, Free
<1>10. lock' \in Procs \cup {NoProc}
  BY <1>1 DEF GovInv, StateOK
<1>11. OthersOK'
  BY <1>1, <1>10, OthersStay
<1>12. QED
  BY <1>1, <1>2, <1>4, <1>6, <1>7, <1>8, <1>9, <1>11, SaveKeeps DEF Calls

\* A step of a process at work that changes where it is, and perhaps the
\* package of its stage.
LEMMA WorkGoesOn ==
  ASSUME GovInv, NEW p \in Procs, at[p] \notin Free, UNCHANGED <<disk, copy, job>>,
         NEW a \in Places \ (Calls \cup Free), at' = [at EXCEPT ![p] = a],
         UNCHANGED <<expired, drawn, latest, by, dropped>>, lock' \in Procs \cup {NoProc},
         \/ UNCHANGED package
         \/ package' = [package EXCEPT ![job[p].stage] = 0]
         \/ package' = [package EXCEPT ![job[p].stage] = job[p].lease]
  PROVE  GovInv'
<1>1. PICK j \in Job : j = job[p]
  BY DEF GovInv, StateOK
<1>2. j.how # "none" /\ j.stage \in Indexes /\ j.lease \in 1 .. drawn /\ drawn \in Nat
  BY <1>1, JobAtWork
<1>3. job' = [job EXCEPT ![p] = j] /\ SameJob(job[p], j) /\ JobFits(a, j)
  BY <1>1, <1>2 DEF GovInv, StateOK, SameJob, JobFits
<1>4. package' \in [Indexes -> 0 .. drawn]
  BY <1>1, <1>2 DEF GovInv, StateOK
<1>5. OthersOK'
  BY <1>4 DEF OthersOK, GovInv, StateOK
<1>6. QED
  BY <1>3, <1>5, QuietKeeps

LEMMA DispatchRefusedKeeps ==
  ASSUME GovInv, NEW p \in Workers, DispatchRefused(p) PROVE GovInv'
<1>1. /\ at[p] = "holding" /\ p \in Procs
      /\ UNCHANGED <<disk, expired, drawn, lock, latest, by, dropped>>
  BY DEF DispatchRefused, Procs
<1>2. lock' \in Procs \cup {NoProc}
  BY <1>1 DEF GovInv, StateOK
<1>3. CASE job[p].how = "ticket"
  <2>1. Stop(p) /\ UNCHANGED package
    BY <1>3 DEF DispatchRefused
  <2>2. OthersOK'
    BY <1>1, <1>2, <2>1, OthersStay
  <2>3. QED
    BY <1>1, <2>1, <2>2, StopKeeps
<1>4. CASE job[p].how # "ticket"
  <2>1. /\ at' = [at EXCEPT ![p] = "reverting"]
        /\ package' = [package EXCEPT ![job[p].stage] = 0]
        /\ UNCHANGED <<job, copy>>
    BY <1>4 DEF DispatchRefused
  <2>2. PICK a \in Places \ (Calls \cup Free) : a = "reverting"
    BY DEF Places, Calls, Free
  <2>3. QED
    BY <1>1, <1>2, <2>1, <2>2, WorkGoesOn DEF Free
<1>5. QED
  BY <1>3, <1>4

LEMMA WritePackageKeeps ==
  ASSUME GovInv, NEW p \in Workers, WritePackage(p) PROVE GovInv'
<1>1. PICK a \in Places \ (Calls \cup Free) : a = "holding"
  BY DEF Places, Calls, Free
<1>2. QED
  BY <1>1, WorkGoesOn DEF WritePackage, Free, Procs

LEMMA PackageFailsKeeps ==
  ASSUME GovInv, NEW p \in Workers, PackageFails(p) PROVE GovInv'
<1>1. PICK a \in Places \ (Calls \cup Free) : a = "reverting"
  BY DEF Places, Calls, Free
<1>2. lock' \in Procs \cup {NoProc}
  BY DEF PackageFails, GovInv, StateOK
<1>3. QED
  BY <1>1, <1>2, WorkGoesOn DEF PackageFails, Free, Procs

LEMMA StartRevertKeeps ==
  ASSUME GovInv, NEW p \in Workers, StartRevert(p) PROVE GovInv'
<1>1. /\ at[p] = "reverting" /\ MayRevert(disk, job[p].stage, job[p].lease)
      /\ Load(p, "undoing", Reverted(disk))
      /\ UNCHANGED <<disk, expired, drawn, package, job, latest, by, dropped>> /\ lock' = lock
  BY DEF StartRevert, Reverted
<1>2. p \in Procs /\ lock' \in Procs \cup {NoProc}
  BY <1>1 DEF Procs, GovInv, StateOK
<1>3. Sound(disk)
  BY <1>1, <1>2, JobAtWork DEF Free
<1>4. PICK i, lease, s : i = job[p].stage /\ lease = job[p].lease /\ s = Reverted(disk)
  OBVIOUS
<1>5. Good(s) /\ RevertStep(disk, s, i, lease)
  BY <1>1, <1>3, <1>4, RevertGood DEF Sound
<1>6. s.n = disk.n /\ \A k \in Indexes : s.stage[k].lease \in {0, disk.stage[k].lease}
  BY <1>5 DEF RevertStep, SameBut
<1>7. Sound(s)
  BY <1>3, <1>5, <1>6, SoundDerived
<1>8. QED
  BY <1>1, <1>2, <1>4, <1>7, LoadKeeps DEF Calls, Free

LEMMA EndRevertKeeps ==
  ASSUME GovInv, NEW p \in Workers, EndRevert(p) PROVE GovInv'
<1>1. OthersOK'
  BY OthersStay DEF EndRevert
<1>2. QED
  BY <1>1, StopKeeps DEF EndRevert, Overwrite, Procs, Calls

LEMMA NothingToRevertKeeps ==
  ASSUME GovInv, NEW p \in Workers, NothingToRevert(p) PROVE GovInv'
<1>1. OthersOK'
  BY OthersStay DEF NothingToRevert
<1>2. QED
  BY <1>1, StopKeeps DEF NothingToRevert, Procs

LEMMA ReadPackageKeeps ==
  ASSUME GovInv, NEW p \in Workers, NEW i \in Indexes, ReadPackage(p, i) PROVE GovInv'
<1>1. PICK a \in Places \ Calls : a = "holding"
  BY DEF Places, Calls
<1>2. PICK j : j = [how |-> "direct", stage |-> i, lease |-> package[i], sent |-> TRUE]
  OBVIOUS
<1>3. package[i] \in 1 .. drawn /\ drawn \in Nat
  BY DEF ReadPackage, GovInv, StateOK
<1>4. j \in Job /\ JobFits(a, j) /\ SameJob(job[p], j)
  BY <1>1, <1>2, <1>3 DEF Job, JobFits, Free, SameJob, Automatic, Indexes, MaxStages
<1>5. /\ at' = [at EXCEPT ![p] = a] /\ job' = [job EXCEPT ![p] = j]
      /\ UNCHANGED <<disk, expired, drawn, package, lock, copy, latest, by, dropped>>
  BY <1>1, <1>2 DEF ReadPackage
<1>6. OthersOK'
  BY <1>5 DEF OthersOK, GovInv, StateOK
<1>7. QED
  BY <1>4, <1>5, <1>6, QuietKeeps DEF Procs

LEMMA StartRecordKeeps ==
  ASSUME GovInv, NEW p \in Workers, NEW o \in Outcomes, StartRecord(p, o) PROVE GovInv'
<1>1. /\ at[p] = "holding" /\ MayRecord(disk, job[p].stage, job[p].lease, job[p].sent)
      /\ Load(p, "recording", Recorded(disk, o))
      /\ UNCHANGED <<disk, expired, drawn, package, job, latest, by, dropped>> /\ lock' = lock
  BY DEF StartRecord
<1>2. p \in Procs /\ lock' \in Procs \cup {NoProc}
  BY <1>1 DEF Procs, GovInv, StateOK
<1>3. Sound(disk)
  BY <1>1, <1>2, JobAtWork DEF Free
<1>4. PICK i, lease, sent, s : i = job[p].stage /\ lease = job[p].lease /\ sent = job[p].sent
                               /\ s = Recorded(disk, o)
  OBVIOUS
<1>5. Good(s) /\ RecordStep(disk, s, i, lease)
  BY <1>1, <1>3, <1>4, RecordGood DEF Sound
<1>6. s.n = disk.n /\ \A k \in Indexes : s.stage[k].lease \in {0, disk.stage[k].lease}
  BY <1>5 DEF RecordStep
<1>7. Sound(s)
  BY <1>3, <1>5, <1>6, SoundDerived
<1>8. QED
  BY <1>1, <1>2, <1>4, <1>7, LoadKeeps DEF Calls, Free

LEMMA EndRecordKeeps ==
  ASSUME GovInv, NEW p \in Workers, EndRecord(p) PROVE GovInv'
<1>1. /\ at[p] = "recording" /\ disk' = copy[p]
      /\ by' = [by EXCEPT ![job[p].stage] = job[p].lease]
      /\ Stop(p) /\ UNCHANGED <<expired, drawn, package, lock, latest, dropped>>
  BY DEF EndRecord, Overwrite
<1>2. p \in Procs
  BY DEF Procs
<1>3. job[p].stage \in Indexes /\ job[p].lease \in 1 .. drawn /\ drawn \in Nat
  BY <1>1, <1>2, JobAtWork DEF Free
<1>4. OthersOK'
  BY <1>1, <1>3 DEF OthersOK, GovInv, StateOK
<1>5. QED
  BY <1>1, <1>2, <1>4, StopKeeps DEF Calls

LEMMA RecordRefusedKeeps ==
  ASSUME GovInv, NEW p \in Workers, RecordRefused(p) PROVE GovInv'
<1>1. Stop(p) /\ UNCHANGED <<disk, expired, drawn, package, lock, latest, by, dropped>> /\ p \in Procs
  BY DEF RecordRefused, Procs
<1>2. OthersOK'
  BY <1>1 DEF OthersOK, GovInv, StateOK
<1>3. QED
  BY <1>1, <1>2, StopKeeps

LEMMA StartRecoverKeeps ==
  ASSUME GovInv, NEW p \in Procs, StartRecover(p) PROVE GovInv'
<1>1. /\ at[p] = "idle" /\ disk # None /\ Load(p, "recovering", Recovered(disk))
      /\ UNCHANGED <<disk, expired, drawn, package, job, latest, by, dropped>> /\ lock' = lock
  BY DEF StartRecover
<1>2. Sound(disk) /\ lock' \in Procs \cup {NoProc}
  BY <1>1 DEF GovInv, StateOK
<1>3. PICK s : s = Recovered(disk)
  OBVIOUS
<1>4. Good(s) /\ RecoverStep(disk, s)
  BY <1>2, <1>3, RecoverGood DEF Sound
<1>5. s.n = disk.n /\ \A k \in Indexes : s.stage[k].lease \in {0, disk.stage[k].lease}
  BY <1>4 DEF RecoverStep
<1>6. Sound(s)
  BY <1>2, <1>4, <1>5, SoundDerived
<1>7. QED
  BY <1>1, <1>2, <1>3, <1>6, LoadKeeps DEF Calls, Free

LEMMA StartReconcileKeeps ==
  ASSUME GovInv, NEW p \in Procs, StartReconcile(p) PROVE GovInv'
<1>1. /\ at[p] = "idle" /\ disk # None /\ Load(p, "reconciling", Reconciled(disk))
      /\ UNCHANGED <<disk, expired, drawn, package, job, latest, by, dropped>> /\ lock' = p
  BY DEF StartReconcile
<1>2. Sound(disk) /\ lock' \in Procs \cup {NoProc}
  BY <1>1 DEF GovInv
<1>3. PICK s : s = Reconciled(disk)
  OBVIOUS
<1>4. Good(s) /\ ReconcileStep(disk, s)
  BY <1>2, <1>3, ReconcileGood DEF Sound
<1>5. s.n = disk.n /\ \A k \in Indexes : s.stage[k].lease \in {0, disk.stage[k].lease}
  <2>1. \A k \in Indexes : Undispatched(disk.stage[k]).lease = disk.stage[k].lease
    <3> SUFFICES ASSUME NEW k \in Indexes PROVE Undispatched(disk.stage[k]).lease = disk.stage[k].lease
      OBVIOUS
    <3>1. PICK t \in Stage : t = disk.stage[k]
      BY <1>2, RecordFields DEF Sound, Good
    <3>2. Undispatched(t).lease = t.lease
      BY <3>1 DEF Undispatched, Stage
    <3>3. QED
      BY <3>1, <3>2
  <2>2. QED
    BY <1>4, <2>1 DEF ReconcileStep
<1>6. Sound(s)
  BY <1>2, <1>4, <1>5, SoundDerived
<1>7. QED
  BY <1>1, <1>2, <1>3, <1>6, LoadKeeps DEF Calls, Free

LEMMA CrashKeeps ==
  ASSUME GovInv, NEW p \in Procs, Crash(p) PROVE GovInv'
<1>1. /\ at[p] # "idle" /\ Stop(p) /\ lock' \in {NoProc, lock}
      /\ dropped' = dropped \/ (job[p].how = "handoff" /\ dropped' = dropped \cup {job[p].lease})
      /\ UNCHANGED <<disk, expired, drawn, package, latest, by>>
  BY DEF Crash
<1>2. job[p].how = "handoff" => job[p].lease \in 1 .. drawn
  <2>1. job[p].how = "handoff" => at[p] \notin Free
    BY DEF GovInv, JobsOK, Free, NoJob
  <2>2. QED
    BY <2>1, JobAtWork
<1>3. OthersOK'
  BY <1>1, <1>2 DEF OthersOK, GovInv, StateOK
<1>4. QED
  BY <1>1, <1>3, StopKeeps

LEMMA ExpireKeeps ==
  ASSUME GovInv, NEW lease, Expire(lease) PROVE GovInv'
<1>1. /\ expired' = expired \cup {lease} /\ lease \in 1 .. drawn
      /\ UNCHANGED <<disk, drawn, package, lock, at, job, copy, latest, by, dropped>>
  BY DEF Expire
<1>2. StateOK'
  BY <1>1 DEF GovInv, StateOK
<1>3. \A r : Sound(r)' = Sound(r)
  BY <1>1 DEF Sound
<1>4. QED
  BY <1>1, <1>2 DEF GovInv, JobsOK, Sound

\* Every step keeps records in order, however calls overlap.
LEMMA GovStep == GovInv /\ [Next]_vars => GovInv'
<1> SUFFICES ASSUME GovInv, [Next]_vars PROVE GovInv'
  OBVIOUS
<1>1. CASE UNCHANGED vars
  BY <1>1 DEF vars, GovInv, StateOK, JobsOK, Sound
<1>2. CASE Next
  BY <1>2, StartPlanKeeps, EndPlanKeeps, StartClaimKeeps, EndClaimKeeps, StartDispatchKeeps,
     EndDispatchKeeps, DispatchRefusedKeeps, WritePackageKeeps, PackageFailsKeeps,
     StartRevertKeeps, EndRevertKeeps, NothingToRevertKeeps, ReadPackageKeeps, StartRecordKeeps,
     EndRecordKeeps, RecordRefusedKeeps, StartRecoverKeeps, EndRecoverKeeps,
     StartReconcileKeeps, EndReconcileKeeps, CrashKeeps, ExpireKeeps DEF Next
<1>3. QED
  BY <1>1, <1>2

\* The history of loads and saves keeps its type.
LEMMA HistoryStep ==
  ASSUME GovInv, HistoryOK, [Next]_vars
  PROVE  HistoryOK'
<1> DEFINE Kept     == base' = base /\ lost' = lost
           Loaded   == \E p : base' = [base EXCEPT ![p] = disk] /\ lost' = lost
           Left     == \E p : base' = [base EXCEPT ![p] = None] /\ lost' = lost
           Saved    == \E p : base' = [base EXCEPT ![p] = None] /\ lost' = (lost \/ disk # base[p])
           OneOfThem == Kept \/ Loaded \/ Left \/ Saved
<1>1. ASSUME OneOfThem PROVE HistoryOK'
  <2>1. disk \in Record \cup {None}
    BY DEF GovInv, StateOK
  <2>2. CASE Kept
    BY <2>2 DEF HistoryOK
  <2>3. CASE Loaded
    BY <2>1, <2>3 DEF HistoryOK
  <2>4. CASE Left
    BY <2>4 DEF HistoryOK
  <2>5. CASE Saved
    BY <2>5 DEF HistoryOK
  <2>6. QED
    BY <1>1, <2>2, <2>3, <2>4, <2>5
<1>2. CASE UNCHANGED vars
  BY <1>1, <1>2 DEF vars
<1>3. ASSUME NEW p \in Workers
      PROVE  /\ \A how \in {"ticket", "handoff", "direct"} : StartClaim(p, how) => Loaded
             /\ EndClaim(p) => Saved
             /\ StartDispatch(p) => Loaded
             /\ EndDispatch(p) => Saved
             /\ DispatchRefused(p) => Kept \/ Left
             /\ WritePackage(p) => Kept
             /\ PackageFails(p) => Kept
             /\ StartRevert(p) => Loaded
             /\ EndRevert(p) => Saved
             /\ NothingToRevert(p) => Left
             /\ \A i \in Indexes : ReadPackage(p, i) => Kept
             /\ \A o \in Outcomes : StartRecord(p, o) => Loaded
             /\ EndRecord(p) => Saved
             /\ RecordRefused(p) => Left
  BY DEF StartClaim, EndClaim, StartDispatch, EndDispatch, DispatchRefused, WritePackage,
         PackageFails, StartRevert, EndRevert, NothingToRevert, ReadPackage, StartRecord,
         EndRecord, RecordRefused, Load, Save, Overwrite, Stop
<1>4. ASSUME NEW p \in Procs
      PROVE  /\ \A plan \in Plans : StartPlan(p, plan) => Loaded
             /\ EndPlan(p) => Saved
             /\ StartRecover(p) => Loaded
             /\ EndRecover(p) => Saved
             /\ StartReconcile(p) => Loaded
             /\ EndReconcile(p) => Saved
             /\ Crash(p) => Left
  BY DEF StartPlan, EndPlan, StartRecover, EndRecover, StartReconcile, EndReconcile, Crash,
         Load, Save, Overwrite, Stop
<1>5. \A lease \in 1 .. MaxLeases : Expire(lease) => Kept
  BY DEF Expire
<1>6. CASE Next
  <2>1. OneOfThem
    BY <1>3, <1>4, <1>5, <1>6 DEF Next
  <2>2. QED
    BY <1>1, <2>1
<1>7. QED
  BY <1>2, <1>6

LEMMA HistoryInit == Init => HistoryOK
  BY DEF Init, HistoryOK

LEMMA GovInvImplies == GovInv => StagesInOrder /\ (HistoryOK => TypeOK)
  BY DEF GovInv, Sound, Good, StagesInOrder, StateOK, HistoryOK, TypeOK

\* Every variable keeps its type.
THEOREM GovernorTypeCorrect == Spec => []TypeOK
  BY GovInit, GovStep, HistoryInit, HistoryStep, GovInvImplies, PTL DEF Spec

\* However many governor calls overlap between their load and their save, the
\* saved record has its stages decided in order, and its verdict is the
\* outcome of its primary review (record_execution_result, recover_execution,
\* reconcile_dispatched_handoffs).
THEOREM StagesStayInOrder == Spec => []StagesInOrder
  BY GovInit, GovStep, GovInvImplies, PTL DEF Spec


-----------------------------------------------------------------------------
(***************************************************************************)
(* Until an update is lost.                                                *)
(***************************************************************************)

LEMMA GovIInit == Init => GovIInv
<1> SUFFICES ASSUME Init PROVE GovIInv
  OBVIOUS
<1>1. /\ \A p \in Procs : at[p] = "idle" /\ job[p] = NoJob
      /\ disk = None /\ lock = NoProc
      /\ \A i \in Indexes : package[i] = 0 /\ by[i] = 0
  BY DEF Init
<1>2. GovInv
  BY GovInit
<1>3. HistoryOK /\ \A p \in Procs : Between(p)
  BY <1>1, HistoryInit DEF Between, Calls
<1>4. LeasesOK
  BY <1>1 DEF LeasesOK
<1>5. HeldOK
  BY <1>1 DEF HeldOK, Working
<1>6. \A p \in Procs : ~InHandoff(p) /\ lock # p
  BY <1>1, GovernorAssumption DEF InHandoff, Handing, NoJob, Procs
<1>7. LockOK
  BY <1>1, <1>6 DEF LockOK
<1>8. SoleOK
  BY <1>6 DEF SoleOK
<1>9. Packaged
  BY <1>1 DEF Packaged
<1>10. QED
  BY <1>2, <1>3, <1>4, <1>5, <1>7, <1>8, <1>9 DEF GovIInv

\* What the copy of a call is of the record it loaded does not depend on what
\* others do: leases that are over stay so, and the packages that a
\* reconciliation has looked at change only under the lock.
LEMMA BetweenStays ==
  ASSUME NEW q, Between(q), base'[q] = base[q], expired \subseteq expired',
         at'[q] = at[q], copy'[q] = copy[q], job'[q] = job[q],
         at[q] = "reconciling" => package' = package
  PROVE  Between(q)'
<1>1. \A s : LeaseOver(s) => LeaseOver(s)'
  BY DEF LeaseOver
<1>2. ASSUME NEW r, NEW s, NEW i, NEW lease, ClaimStep(r, s, i, lease) PROVE ClaimStep(r, s, i, lease)'
  BY <1>1, <1>2 DEF ClaimStep, SameBut
<1>3. ASSUME NEW r, NEW s, RecoverStep(r, s) PROVE RecoverStep(r, s)'
  BY <1>1, <1>3 DEF RecoverStep
<1>4. ASSUME NEW r, NEW s, ReconcileStep(r, s), package' = package PROVE ReconcileStep(r, s)'
  BY <1>4 DEF ReconcileStep, Unpacked
<1>5. PICK r, s, k : r = base[q] /\ s = copy[q] /\ k = job[q]
  OBVIOUS
<1>6. /\ at[q] = "claiming"     => ClaimStep(base[q], copy[q], job[q].stage, job[q].lease)'
      /\ at[q] = "recovering"   => RecoverStep(base[q], copy[q])'
      /\ at[q] = "reconciling"  => ReconcileStep(base[q], copy[q])'
  BY <1>2, <1>3, <1>4, <1>5 DEF Between
<1>7. /\ at[q] = "dispatching"  => DispatchStep(base[q], copy[q], job[q].stage, job[q].lease,
                                                IF job[q].how = "handoff" THEN "adapter" ELSE "worker")'
      /\ at[q] = "undoing"      => RevertStep(base[q], copy[q], job[q].stage, job[q].lease)'
      /\ at[q] = "recording"    => RecordStep(base[q], copy[q], job[q].stage, job[q].lease)'
  BY DEF Between, DispatchStep, RevertStep, RecordStep, SameBut
<1>8. QED
  BY <1>6, <1>7 DEF Between

Rest == {"idle", "claiming", "planning", "recovering", "reconciling"}

\* A step that saves nothing: what holds of the record on disk goes on.
LEMMA NoSaveMove ==
  ASSUME GovIInv, GovInv', HistoryOK', NEW p \in Procs, NEW a, NEW j, NEW c, NEW b,
         at' = [at EXCEPT ![p] = a], job' = [job EXCEPT ![p] = j], copy' = [copy EXCEPT ![p] = c],
         base' = [base EXCEPT ![p] = b],
         UNCHANGED <<disk, expired, latest, by>>, UNCHANGED package \/ lock = p,
         Between(p)',
         HeldOK', LockOK', SoleOK', Packaged'
  PROVE  GovIInv'
<1>1. /\ GovInv /\ StateOK /\ HistoryOK /\ LockOK /\ \A q \in Procs : Between(q)
  BY DEF GovIInv, GovInv
<1>2. \A q \in Procs : q # p => /\ at'[q] = at[q] /\ job'[q] = job[q] /\ copy'[q] = copy[q]
                                 /\ base'[q] = base[q]
  BY <1>1 DEF StateOK, HistoryOK
<1>4. ASSUME NEW q \in Procs PROVE Between(q)'
  <2>1. CASE q = p
    BY <2>1
  <2>2. CASE q # p
    <3>1. at[q] = "reconciling" => lock = q
      BY <1>1 DEF LockOK
    <3>2. QED
      BY <1>1, <1>2, <2>2, <3>1, BetweenStays
  <2>3. QED
    BY <2>1, <2>2
<1>5. LeasesOK'
  BY DEF GovIInv, LeasesOK
<1>6. QED
  BY <1>4, <1>5 DEF GovIInv

\* A process goes on under the lease it works under, or begins under one that
\* a package names.
LEMMA HeldMove ==
  ASSUME GovIInv, NEW p \in Procs, NEW a, NEW j,
         at' = [at EXCEPT ![p] = a], job' = [job EXCEPT ![p] = j],
         UNCHANGED <<disk, expired>>,
         \/ a \in Rest
         \/ Working(p) /\ j.stage = job[p].stage /\ j.lease = job[p].lease
         \/ j.stage \in Indexes /\ package[j.stage] = j.lease /\ j.lease # 0,
         \A i \in Indexes : \/ package'[i] \in {package[i], 0}
                            \/ Working(p) /\ i = job[p].stage /\ package'[i] = job[p].lease
  PROVE  HeldOK'
<1>1. StateOK /\ HeldOK
  BY DEF GovIInv, GovInv
<1>2. /\ at'[p] = a /\ job'[p] = j
      /\ \A q \in Procs : q # p => at'[q] = at[q] /\ job'[q] = job[q]
  BY <1>1 DEF StateOK
<1>3. \A i, lease : Stands(i, lease) => Stands(i, lease)'
  BY DEF Stands
<1>4. ASSUME NEW q \in Procs, Working(q)' PROVE Stands(job[q].stage, job[q].lease)'
  <2>1. PICK i, lease : i = job'[q].stage /\ lease = job'[q].lease
    OBVIOUS
  <2>2. Stands(i, lease)
    <3>1. CASE q # p
      BY <1>1, <1>2, <1>4, <2>1, <3>1 DEF HeldOK, Working
    <3>2. CASE q = p
      BY <1>1, <1>2, <1>4, <2>1, <3>2 DEF HeldOK, Working, Rest
    <3>3. QED
      BY <3>1, <3>2
  <2>3. Stands(i, lease)'
    BY <1>3, <2>2
  <2>4. QED
    BY <2>1, <2>3 DEF Stands
<1>5. ASSUME NEW i \in Indexes, package'[i] # 0 PROVE Stands(i, package[i])'
  <2>1. PICK lease : lease = package'[i]
    OBVIOUS
  <2>2. Stands(i, lease)
    BY <1>1, <1>5, <2>1 DEF HeldOK
  <2>3. Stands(i, lease)'
    BY <1>3, <2>2
  <2>4. QED
    BY <2>1, <2>3 DEF Stands
<1>6. QED
  BY <1>4, <1>5 DEF HeldOK

\* The lock follows the handoff transaction or the reconciliation of a process.
LEMMA LockMove ==
  ASSUME LockOK, StateOK, NEW p \in Procs, NEW a, NEW j,
         at' = [at EXCEPT ![p] = a], job' = [job EXCEPT ![p] = j],
         lock' = lock \/ (lock \in {p, NoProc} /\ lock' \in {p, NoProc}),
         lock' = p <=> Handing(a, j) \/ a = "reconciling",
         a \in {"packaging", "reverting", "undoing"} => j.how = "handoff",
         a = "packaging" => j.sent,
         a \in {"claiming", "dispatching"} => ~j.sent
  PROVE  LockOK'
<1>1. /\ at'[p] = a /\ job'[p] = j
      /\ \A q \in Procs : q # p => at'[q] = at[q] /\ job'[q] = job[q]
  BY DEF StateOK
<1>2. ASSUME NEW q \in Procs, q # p
      PROVE  /\ lock' = q <=> InHandoff(q)' \/ at'[q] = "reconciling"
             /\ at'[q] \in {"packaging", "reverting", "undoing"} => job'[q].how = "handoff"
             /\ at'[q] = "packaging" => job'[q].sent
             /\ at'[q] \in {"claiming", "dispatching"} => ~job'[q].sent
  <2>1. lock' = q <=> lock = q
    BY <1>2, GovernorAssumption DEF Procs
  <2>2. InHandoff(q)' <=> InHandoff(q)
    BY <1>1, <1>2 DEF InHandoff, Handing
  <2>3. QED
    BY <1>1, <1>2, <2>1, <2>2 DEF LockOK
<1>3. InHandoff(p)' <=> Handing(a, j)
  BY <1>1 DEF InHandoff, Handing
<1>4. QED
  BY <1>1, <1>2, <1>3 DEF LockOK

\* A transaction that goes on under its job, with the record as it was.
LEMMA SoleMove ==
  ASSUME SoleOK, StateOK, NEW p \in Procs, NEW a, NEW j,
         at' = [at EXCEPT ![p] = a], job' = [job EXCEPT ![p] = j], UNCHANGED disk,
         Handing(a, j) /\ a # "claiming" =>
           InHandoff(p) /\ at[p] # "claiming" /\ j.stage = job[p].stage /\ j.lease = job[p].lease
  PROVE  SoleOK'
<1>1. /\ at'[p] = a /\ job'[p] = j
      /\ \A q \in Procs : q # p => at'[q] = at[q] /\ job'[q] = job[q]
  BY DEF StateOK
<1>2. ASSUME NEW q \in Procs, InHandoff(q)', at'[q] # "claiming"
      PROVE  /\ InHandoff(q) /\ at[q] # "claiming"
             /\ job'[q].stage = job[q].stage /\ job'[q].lease = job[q].lease
  BY <1>1, <1>2 DEF InHandoff, Handing
<1>3. QED
  BY <1>2 DEF SoleOK

\* No package is touched, and a lock is given up only with its transaction
\* dropped, or with nothing of it left dispatched.
LEMMA PackageMove ==
  ASSUME Packaged, StateOK, NEW p \in Procs, NEW j,
         job' = [job EXCEPT ![p] = j], UNCHANGED <<disk, package>>, dropped \subseteq dropped',
         lock \in Procs \ {p} => lock' = lock,
         lock = p => \/ lock' = p /\ j.stage = job[p].stage /\ j.lease = job[p].lease
                     \/ job[p].lease \in dropped'
                     \/ job[p].stage \notin Indexes
                     \/ disk # None => ~Unpacked(disk, job[p].stage)
  PROVE  Packaged'
<1> SUFFICES ASSUME disk # None, NEW i \in Indexes, Unpacked(disk, i)
             PROVE  \/ \E q \in Workers : /\ lock' = q /\ job'[q].stage = i
                                          /\ job'[q].lease = disk.stage[i].lease
                    \/ disk.stage[i].lease \in dropped'
  BY DEF Packaged, Unpacked
<1>1. job'[p] = j /\ \A q \in Procs : q # p => job'[q] = job[q]
  BY DEF StateOK
<1>2. CASE disk.stage[i].lease \in dropped
  BY <1>2
<1>3. ASSUME NEW q \in Workers, lock = q, job[q].stage = i, job[q].lease = disk.stage[i].lease
      PROVE  \/ lock' = q /\ job'[q].stage = i /\ job'[q].lease = disk.stage[i].lease
             \/ disk.stage[i].lease \in dropped'
  BY <1>1, <1>3 DEF Procs
<1>4. QED
  BY <1>2, <1>3 DEF Packaged

-----------------------------------------------------------------------------
(* Calls that begin.                                                       *)

\* A call that loads the record and changes nothing else.
LEMMA LoadMove ==
  ASSUME GovIInv, GovInv', HistoryOK', NEW p \in Procs, at[p] \notin Calls, NEW c,
         NEW place \in Calls \ {"claiming", "reconciling"}, Load(p, place, c),
         UNCHANGED <<disk, expired, package, lock, job, latest, by, dropped>>,
         place \in Rest \/ Working(p),
         Handing(place, job[p]) <=> Handing(at[p], job[p]),
         place = "undoing" => job[p].how = "handoff",
         place = "dispatching" => ~job[p].sent,
         Between(p)'
  PROVE  GovIInv'
<1>1. StateOK /\ LockOK /\ SoleOK /\ HeldOK /\ Packaged
  BY DEF GovIInv, GovInv
<1>2. PICK b : b = disk /\ base' = [base EXCEPT ![p] = b]
  BY DEF Load
<1>3. PICK j \in Job : j = job[p]
  BY <1>1 DEF StateOK
<1>4. /\ at' = [at EXCEPT ![p] = place] /\ job' = [job EXCEPT ![p] = j]
      /\ copy' = [copy EXCEPT ![p] = c]
  BY <1>1, <1>3 DEF Load, StateOK
<1>5. at[p] # "claiming" /\ at[p] # "reconciling"
  BY DEF Calls
<1>6. HeldOK'
  <2>1. place \in Rest \/ (Working(p) /\ j.stage = job[p].stage /\ j.lease = job[p].lease)
    BY <1>3
  <2>2. \A i \in Indexes : package'[i] = package[i]
    OBVIOUS
  <2>3. QED
    BY <1>4, <2>1, <2>2, HeldMove
<1>7. LockOK'
  <2>1. lock' = p <=> Handing(place, j) \/ place = "reconciling"
    BY <1>1, <1>3, <1>5 DEF LockOK, InHandoff
  <2>2. /\ place \in {"packaging", "reverting", "undoing"} => j.how = "handoff"
        /\ place \in {"claiming", "dispatching"} => ~j.sent
        /\ place # "packaging"
    BY <1>3 DEF Calls
  <2>3. QED
    BY <1>1, <1>4, <2>1, <2>2, LockMove
<1>8. SoleOK'
  <2>1. Handing(place, j) => InHandoff(p)
    BY <1>3 DEF InHandoff
  <2>2. QED
    BY <1>1, <1>3, <1>4, <1>5, <2>1, SoleMove
<1>9. Packaged'
  <2>1. lock = p => lock' = p /\ j.stage = job[p].stage /\ j.lease = job[p].lease
    BY <1>3
  <2>2. QED
    BY <1>1, <1>4, <2>1, PackageMove
<1>10. QED
  BY <1>2, <1>4, <1>6, <1>7, <1>8, <1>9, NoSaveMove

LEMMA StartPlanIKeeps ==
  ASSUME GovIInv, HistoryOK', NEW p \in Procs, NEW plan \in Plans, StartPlan(p, plan)
  PROVE  GovIInv'
<1>1. /\ at[p] = "idle" /\ disk = None /\ Load(p, "planning", Planned(plan))
      /\ UNCHANGED <<disk, expired, package, lock, job, latest, by, dropped>>
  BY DEF StartPlan
<1>2. GovInv /\ GovInv' /\ StateOK
  BY StartPlanKeeps DEF GovIInv, GovInv
<1>3. PICK c : c = Planned(plan)
  OBVIOUS
<1>4. at'[p] = "planning" /\ copy'[p] = c /\ base'[p] = disk /\ at[p] \notin Calls
  BY <1>1, <1>2, <1>3 DEF Load, StateOK, GovIInv, HistoryOK, Calls
<1>5. /\ \A i \in Indexes : c.stage[i] = Pending
      /\ c.idx = 1 /\ c.status \notin Verdicts
  BY <1>3, PlanGood
<1>6. Between(p)'
  BY <1>1, <1>4, <1>5 DEF Between
<1>7. Handing("planning", job[p]) <=> Handing(at[p], job[p])
  BY <1>1 DEF Handing
<1>8. PICK place \in Calls \ {"claiming", "reconciling"} : place = "planning" /\ place \in Rest
  BY DEF Calls, Rest
<1>9. QED
  BY <1>1, <1>2, <1>3, <1>6, <1>7, <1>8, <1>4, LoadMove

LEMMA StartRecoverIKeeps ==
  ASSUME GovIInv, HistoryOK', NEW p \in Procs, StartRecover(p)
  PROVE  GovIInv'
<1>1. /\ at[p] = "idle" /\ disk # None /\ Load(p, "recovering", Recovered(disk))
      /\ UNCHANGED <<disk, expired, package, lock, job, latest, by, dropped>>
  BY DEF StartRecover
<1>2. GovInv /\ GovInv' /\ StateOK /\ Good(disk)
  BY <1>1, StartRecoverKeeps DEF GovIInv, GovInv, Sound
<1>3. PICK c : c = Recovered(disk)
  OBVIOUS
<1>4. at'[p] = "recovering" /\ copy'[p] = c /\ base'[p] = disk /\ at[p] \notin Calls
  BY <1>1, <1>2, <1>3 DEF Load, StateOK, GovIInv, HistoryOK, Calls
<1>5. PICK r : r = disk
  OBVIOUS
<1>6. RecoverStep(r, c) /\ expired' = expired
  BY <1>1, <1>2, <1>3, <1>5, RecoverGood
<1>7. Between(p)'
  <2>1. RecoverStep(r, c)'
    BY <1>6 DEF RecoverStep, LeaseOver
  <2>2. r = base'[p]
    BY <1>4, <1>5
  <2>3. RecoverStep(base[p], copy[p])'
    BY <2>1, <2>2, <1>4
  <2>4. QED
    BY <1>1, <1>4, <2>3 DEF Between
<1>8. Handing("recovering", job[p]) <=> Handing(at[p], job[p])
  BY <1>1 DEF Handing
<1>9. PICK place \in Calls \ {"claiming", "reconciling"} : place = "recovering" /\ place \in Rest
  BY DEF Calls, Rest
<1>10. QED
  BY <1>1, <1>2, <1>3, <1>7, <1>8, <1>9, <1>4, LoadMove

LEMMA StartDispatchIKeeps ==
  ASSUME GovIInv, HistoryOK', NEW p \in Workers, StartDispatch(p)
  PROVE  GovIInv'
<1> DEFINE how == IF job[p].how = "handoff" THEN "adapter" ELSE "worker"
<1>1. /\ at[p] = "holding" /\ Automatic(job[p]) /\ ~job[p].sent /\ p \in Procs
      /\ MayDispatch(disk, job[p].stage, job[p].lease)
      /\ Load(p, "dispatching", Dispatched(disk, how))
      /\ UNCHANGED <<disk, expired, package, lock, job, latest, by, dropped>>
  BY DEF StartDispatch, Automatic, Procs
<1>2. GovInv /\ GovInv' /\ StateOK
  BY StartDispatchKeeps DEF GovIInv, GovInv
<1>3. PICK c : c = Dispatched(disk, how)
  OBVIOUS
<1>4. at'[p] = "dispatching" /\ copy'[p] = c /\ base'[p] = disk /\ at[p] \notin Calls
  BY <1>1, <1>2, <1>3 DEF Load, StateOK, GovIInv, HistoryOK, Calls
<1>5. disk # None /\ Sound(disk) /\ job[p].stage # disk.n
  <2>1. disk # None /\ Sound(disk)
    BY <1>1, <1>2, JobAtWork DEF Free
  <2>2. disk.stage[job[p].stage].lease = job[p].lease
    BY <1>1 DEF MayDispatch, Current
  <2>3. QED
    BY <1>1, <2>1, <2>2 DEF Sound
<1>6. PICK i, lease : i = job[p].stage /\ lease = job[p].lease
  OBVIOUS
<1>7. DispatchStep(disk, c, i, lease, how)
  BY <1>1, <1>3, <1>5, <1>6, DispatchGood DEF Sound
<1>8. Between(p)'
  BY <1>1, <1>4, <1>5, <1>6, <1>7 DEF Between, DispatchStep, SameBut
<1>9. Handing("dispatching", job[p]) <=> Handing(at[p], job[p])
  BY <1>1 DEF Handing
<1>10. PICK place \in Calls \ {"claiming", "reconciling"} : place = "dispatching" /\ Working(p)
  BY <1>1 DEF Calls, Working
<1>11. QED
  BY <1>1, <1>2, <1>3, <1>8, <1>9, <1>10, <1>4, LoadMove

LEMMA StartRevertIKeeps ==
  ASSUME GovIInv, HistoryOK', NEW p \in Workers, StartRevert(p)
  PROVE  GovIInv'
<1>1. /\ at[p] = "reverting" /\ MayRevert(disk, job[p].stage, job[p].lease) /\ p \in Procs
      /\ Load(p, "undoing", Reverted(disk))
      /\ UNCHANGED <<disk, expired, package, lock, job, latest, by, dropped>>
  BY DEF StartRevert, Reverted, Procs
<1>2. GovInv /\ GovInv' /\ StateOK /\ job[p].how = "handoff"
  BY <1>1, StartRevertKeeps DEF GovIInv, GovInv, LockOK
<1>3. PICK c : c = Reverted(disk)
  OBVIOUS
<1>4. at'[p] = "undoing" /\ copy'[p] = c /\ base'[p] = disk /\ at[p] \notin Calls
  BY <1>1, <1>2, <1>3 DEF Load, StateOK, GovIInv, HistoryOK, Calls
<1>5. disk # None /\ Sound(disk)
  BY <1>1, <1>2, JobAtWork DEF Free
<1>6. PICK i, lease : i = job[p].stage /\ lease = job[p].lease
  OBVIOUS
<1>7. RevertStep(disk, c, i, lease)
  BY <1>1, <1>3, <1>5, <1>6, RevertGood DEF Sound
<1>8. Between(p)'
  BY <1>1, <1>4, <1>5, <1>6, <1>7 DEF Between, RevertStep, SameBut
<1>9. Handing("undoing", job[p]) <=> Handing(at[p], job[p])
  BY <1>1 DEF Handing
<1>10. PICK place \in Calls \ {"claiming", "reconciling"} : place = "undoing" /\ Working(p)
  BY <1>1 DEF Calls, Working
<1>11. QED
  BY <1>1, <1>2, <1>3, <1>8, <1>9, <1>10, <1>4, LoadMove

LEMMA StartRecordIKeeps ==
  ASSUME GovIInv, HistoryOK', NEW p \in Workers, NEW o \in Outcomes, StartRecord(p, o)
  PROVE  GovIInv'
<1>1. /\ at[p] = "holding" /\ MayRecord(disk, job[p].stage, job[p].lease, job[p].sent)
      /\ job[p].how = "handoff" => job[p].sent
      /\ p \in Procs
      /\ Load(p, "recording", Recorded(disk, o))
      /\ UNCHANGED <<disk, expired, package, lock, job, latest, by, dropped>>
  BY DEF StartRecord, Procs
<1>2. GovInv /\ GovInv' /\ StateOK
  BY <1>1, StartRecordKeeps DEF GovIInv, GovInv
<1>3. PICK c : c = Recorded(disk, o)
  OBVIOUS
<1>4. at'[p] = "recording" /\ copy'[p] = c /\ base'[p] = disk /\ at[p] \notin Calls
  BY <1>1, <1>2, <1>3 DEF Load, StateOK, GovIInv, HistoryOK, Calls
<1>5. disk # None /\ Sound(disk)
  BY <1>1, <1>2, JobAtWork DEF Free
<1>6. PICK i, lease, sent : i = job[p].stage /\ lease = job[p].lease /\ sent = job[p].sent
  OBVIOUS
<1>7. RecordStep(disk, c, i, lease)
  BY <1>1, <1>3, <1>5, <1>6, RecordGood DEF Sound
<1>8. Between(p)'
  BY <1>1, <1>4, <1>5, <1>6, <1>7 DEF Between, RecordStep
<1>9. Handing("recording", job[p]) <=> Handing(at[p], job[p])
  BY <1>1 DEF Handing
<1>10. PICK place \in Calls \ {"claiming", "reconciling"} : place = "recording" /\ Working(p)
  BY <1>1 DEF Calls, Working
<1>11. QED
  BY <1>1, <1>2, <1>3, <1>8, <1>9, <1>10, <1>4, LoadMove


\* Who is idle has no lock.
LEMMA IdleUnlocked ==
  ASSUME GovIInv, NEW p \in Procs, at[p] = "idle"
  PROVE  lock # p /\ ~InHandoff(p) /\ ~Working(p)
  BY DEF GovIInv, LockOK, InHandoff, Handing, Working

LEMMA StartClaimIKeeps ==
  ASSUME GovIInv, HistoryOK', NEW p \in Workers, NEW how \in {"ticket", "handoff", "direct"},
         StartClaim(p, how)
  PROVE  GovIInv'
<1>1. PICK j, a, c : /\ j = [how |-> how, stage |-> disk.idx, lease |-> drawn + 1, sent |-> FALSE]
                     /\ a = "claiming" /\ c = Claimed(disk, drawn + 1)
  OBVIOUS
<1>2. /\ at[p] = "idle" /\ disk # None /\ MayClaim(disk) /\ p \in Procs
      /\ lock' = IF how = "handoff" THEN p ELSE lock
      /\ how = "handoff" => lock = NoProc
      /\ job' = [job EXCEPT ![p] = j] /\ at' = [at EXCEPT ![p] = a]
      /\ copy' = [copy EXCEPT ![p] = c] /\ base' = [base EXCEPT ![p] = disk]
      /\ UNCHANGED <<disk, expired, package, latest, by, dropped>>
  BY <1>1 DEF StartClaim, Load, Procs
<1>3. /\ GovInv /\ GovInv' /\ StateOK /\ LockOK /\ SoleOK /\ HeldOK
      /\ Packaged /\ Good(disk) /\ drawn \in Nat
  BY <1>2, StartClaimKeeps DEF GovIInv, GovInv, Sound, StateOK
<1>4. PICK b : b = disk /\ base' = [base EXCEPT ![p] = b]
  BY <1>2
<1>5. lock # p /\ ~InHandoff(p)
  BY <1>2, IdleUnlocked
<1>6. at'[p] = "claiming" /\ copy'[p] = c /\ job'[p] = j /\ base'[p] = disk
  BY <1>1, <1>2, <1>3 DEF StateOK, GovIInv, HistoryOK
<1>7. Between(p)'
  <2>1. PICK lease, r, i : lease \in Nat /\ r = disk /\ i = disk.idx /\ lease = drawn + 1
    <3>1. drawn + 1 \in Nat
      BY <1>3
    <3>2. QED
      BY <3>1, Zenon
  <2>2. ClaimStep(r, c, i, lease)
    BY <1>1, <1>2, <1>3, <2>1, ClaimGood
  <2>3. ClaimStep(r, c, i, lease)'
    BY <1>2, <2>2 DEF ClaimStep, SameBut, LeaseOver
  <2>4. r = base'[p] /\ i = job'[p].stage /\ lease = job'[p].lease
    BY <1>1, <1>2, <1>6, <2>1
  <2>5. ClaimStep(base[p], copy[p], job[p].stage, job[p].lease)'
    BY <2>3, <2>4, <1>6
  <2>6. QED
    BY <1>2, <1>6, <2>5 DEF Between
<1>8. HeldOK'
  BY <1>1, <1>2, HeldMove DEF Rest
<1>9. LockOK'
  <2>1. lock' = p <=> Handing(a, j)
    BY <1>1, <1>2, <1>5 DEF Handing
  <2>2. QED
    BY <1>1, <1>2, <1>3, <2>1, LockMove
<1>10. SoleOK'
  BY <1>1, <1>2, <1>3, SoleMove
<1>11. Packaged'
  BY <1>2, <1>3, <1>5, PackageMove, GovernorAssumption DEF Procs
<1>12. QED
  BY <1>1, <1>2, <1>3, <1>4, <1>7, <1>8, <1>9, <1>10, <1>11, NoSaveMove

LEMMA StartReconcileIKeeps ==
  ASSUME GovIInv, HistoryOK', NEW p \in Procs, StartReconcile(p)
  PROVE  GovIInv'
<1>1. /\ GovInv /\ GovInv' /\ StateOK /\ HistoryOK /\ LockOK /\ SoleOK /\ HeldOK
      /\ Packaged
  BY StartReconcileKeeps DEF GovIInv, GovInv
<1>2. PICK j, a, c : j = job[p] /\ a = "reconciling" /\ c = Reconciled(disk)
  OBVIOUS
<1>3. /\ at[p] = "idle" /\ disk # None /\ lock = NoProc /\ lock' = p
      /\ job' = [job EXCEPT ![p] = j] /\ at' = [at EXCEPT ![p] = a]
      /\ copy' = [copy EXCEPT ![p] = c] /\ base' = [base EXCEPT ![p] = disk]
      /\ UNCHANGED <<disk, expired, package, latest, by, dropped>>
  BY <1>1, <1>2 DEF StartReconcile, Load, StateOK
<1>4. PICK b : b = disk /\ base' = [base EXCEPT ![p] = b]
  BY <1>3
<1>5. lock # p /\ ~InHandoff(p)
  BY <1>3, IdleUnlocked
<1>6. at'[p] = "reconciling" /\ copy'[p] = c /\ job'[p] = j /\ base'[p] = disk
  BY <1>1, <1>2, <1>3 DEF StateOK, HistoryOK
<1>7. Between(p)'
  <2>1. PICK r : r = disk
    OBVIOUS
  <2>2. ReconcileStep(r, c)
    BY <1>1, <1>2, <1>3, <2>1, ReconcileGood DEF GovInv, Sound
  <2>3. ReconcileStep(r, c)'
    BY <1>3, <2>2 DEF ReconcileStep, Unpacked
  <2>4. ReconcileStep(base[p], copy[p])'
    BY <1>3, <1>6, <2>1, <2>3
  <2>5. QED
    BY <1>3, <1>6, <2>4 DEF Between
<1>8. HeldOK'
  BY <1>2, <1>3, HeldMove DEF Rest
<1>9. LockOK'
  BY <1>1, <1>2, <1>3, LockMove
<1>10. SoleOK'
  BY <1>1, <1>2, <1>3, SoleMove DEF Handing
<1>11. Packaged'
  BY <1>1, <1>3, <1>5, PackageMove, GovernorAssumption DEF Procs
<1>12. QED
  BY <1>1, <1>2, <1>3, <1>4, <1>7, <1>8, <1>9, <1>10, <1>11, NoSaveMove

-----------------------------------------------------------------------------
(* Steps that load and save nothing.                                       *)

\* A process stops, with nothing of a transaction left standing.
LEMMA StopMove ==
  ASSUME GovIInv, GovInv', HistoryOK', NEW p \in Procs, Stop(p),
         UNCHANGED <<disk, expired, package, latest, by>>, dropped \subseteq dropped',
         lock = p => \/ job[p].lease \in dropped'
                     \/ job[p].stage \notin Indexes
                     \/ disk # None => ~Unpacked(disk, job[p].stage),
         lock' = IF lock = p THEN NoProc ELSE lock
  PROVE  GovIInv'
<1>1. /\ StateOK /\ LockOK /\ SoleOK /\ HeldOK /\ Packaged
  BY DEF GovIInv, GovInv
<1>2. PICK j, a, c : j = NoJob /\ a = "idle" /\ c = None
  OBVIOUS
<1>3. /\ job' = [job EXCEPT ![p] = j] /\ at' = [at EXCEPT ![p] = a]
      /\ copy' = [copy EXCEPT ![p] = c] /\ base' = [base EXCEPT ![p] = c]
  BY <1>2 DEF Stop
<1>4. at'[p] = "idle" /\ a \notin Calls /\ a \in Rest
  BY <1>1, <1>2, <1>3 DEF StateOK, Calls, Rest
<1>5. Between(p)'
  BY <1>4 DEF Between, Calls
<1>6. HeldOK'
  BY <1>3, <1>4, HeldMove
<1>7. LockOK'
  <2>1. ~Handing(a, j) /\ lock' # p
    BY <1>2, GovernorAssumption DEF Handing, Procs
  <2>2. QED
    BY <1>1, <1>2, <1>3, <2>1, LockMove
<1>8. SoleOK'
  BY <1>1, <1>2, <1>3, SoleMove DEF Handing
<1>9. Packaged'
  BY <1>1, <1>3, PackageMove, GovernorAssumption DEF Procs
<1>10. QED
  BY <1>3, <1>4, <1>5, <1>6, <1>7, <1>8, <1>9, NoSaveMove

LEMMA RecordRefusedIKeeps ==
  ASSUME GovIInv, HistoryOK', NEW p \in Workers, RecordRefused(p) PROVE GovIInv'
<1>1. /\ at[p] = "holding" /\ (job[p].how = "handoff" => job[p].sent) /\ Stop(p) /\ p \in Procs
      /\ UNCHANGED <<disk, expired, package, lock, latest, by, dropped>>
  BY DEF RecordRefused, Procs
<1>2. GovInv' /\ lock # p
  BY <1>1, RecordRefusedKeeps DEF GovIInv, LockOK, InHandoff, Handing
<1>3. QED
  BY <1>1, <1>2, StopMove

LEMMA NothingToRevertIKeeps ==
  ASSUME GovIInv, HistoryOK', NEW p \in Workers, NothingToRevert(p) PROVE GovIInv'
<1>1. /\ at[p] = "reverting" /\ ~MayRevert(disk, job[p].stage, job[p].lease) /\ Stop(p) /\ p \in Procs
      /\ lock' = NoProc
      /\ UNCHANGED <<disk, expired, package, latest, by, dropped>>
  BY DEF NothingToRevert, Procs
<1>2. /\ GovInv' /\ GovInv /\ LockOK /\ SoleOK
  BY <1>1, NothingToRevertKeeps DEF GovIInv
<1>3. job[p].how = "handoff" /\ InHandoff(p) /\ lock = p
  BY <1>1, <1>2 DEF LockOK, InHandoff, Handing
<1>4. disk # None /\ Good(disk) /\ job[p].stage \in Indexes
  BY <1>1, <1>2, JobAtWork DEF Free, Sound
<1>5. ~Unpacked(disk, job[p].stage)
  <2> SUFFICES ASSUME Unpacked(disk, job[p].stage) PROVE FALSE
    OBVIOUS
  <2>1. disk.stage[job[p].stage].st = "dispatched" /\ disk.stage[job[p].stage].lease = job[p].lease
    BY <1>1, <1>2, <1>3 DEF Unpacked, SoleOK
  <2>2. PICK i \in Indexes : i = job[p].stage
    BY <1>4
  <2>3. i = disk.idx /\ disk.idx <= disk.n
    <3>1. /\ disk.idx \in Int /\ disk.idx <= disk.n /\ i \in Int
          /\ i < disk.idx => disk.stage[i].st \in Decided
          /\ i > disk.idx => disk.stage[i] = Pending
      BY <1>4, RecordFields DEF Good, Orderly, Indexes, MaxStages
    <3>2. "dispatched" \notin Decided /\ Pending.st # "dispatched"
      BY DEF Decided, Pending
    <3>3. ~(i < disk.idx) /\ ~(i > disk.idx)
      BY <2>1, <2>2, <3>1, <3>2
    <3>4. QED
      BY <3>1, <3>3
  <2>4. QED
    BY <1>1, <2>1, <2>2, <2>3 DEF MayRevert, Current
<1>6. QED
  BY <1>1, <1>2, <1>3, <1>5, StopMove

LEMMA CrashIKeeps ==
  ASSUME GovIInv, HistoryOK', NEW p \in Procs, Crash(p) PROVE GovIInv'
<1>1. /\ at[p] # "idle" /\ Stop(p)
      /\ lock' = IF lock = p THEN NoProc ELSE lock
      /\ dropped' = IF lock = p /\ job[p].how = "handoff" THEN dropped \cup {job[p].lease} ELSE dropped
      /\ UNCHANGED <<disk, expired, package, latest, by>>
  BY DEF Crash
<1>2. GovInv' /\ GovInv /\ LockOK
  BY CrashKeeps DEF GovIInv
<1>3. lock = p => job[p].how = "handoff" \/ at[p] = "reconciling"
  BY <1>2 DEF LockOK, InHandoff, Handing
<1>4. at[p] = "reconciling" => job[p].stage \notin Indexes
  BY <1>2 DEF GovInv, JobsOK, NoJob, Indexes
<1>5. lock = p => job[p].lease \in dropped' \/ job[p].stage \notin Indexes
  BY <1>1, <1>3, <1>4
<1>6. dropped \subseteq dropped'
  BY <1>1
<1>7. QED
  BY <1>1, <1>2, <1>5, <1>6, StopMove


\* A transaction changes the package of its own stage: it writes it, or it
\* keeps the lock.
LEMMA PackageChange ==
  ASSUME GovIInv, NEW p \in Workers, lock = p, at[p] \notin {"claiming", "reconciling"},
         UNCHANGED <<disk, job, dropped>>, NEW v, package' = [package EXCEPT ![job[p].stage] = v],
         lock' = p \/ v = job[p].lease
  PROVE  Packaged'
<1>1. /\ StateOK /\ SoleOK /\ Packaged /\ InHandoff(p) /\ p \in Procs
  BY DEF GovIInv, GovInv, LockOK, Procs
<1> SUFFICES ASSUME disk # None, NEW i \in Indexes, Unpacked(disk, i)'
             PROVE  \/ \E q \in Workers : /\ lock' = q /\ job[q].stage = i
                                          /\ job[q].lease = disk.stage[i].lease
                    \/ disk.stage[i].lease \in dropped
  BY DEF Packaged
<1>2. CASE i = job[p].stage
  <2>1. package'[i] = v
    BY <1>1, <1>2 DEF StateOK
  <2>2. disk.stage[i].lease = job[p].lease
    BY <1>1, <1>2 DEF SoleOK, Unpacked
  <2>3. lock' = p
    BY <2>1, <2>2 DEF Unpacked
  <2>4. QED
    BY <1>2, <2>2, <2>3
<1>3. CASE i # job[p].stage
  <2>1. package'[i] = package[i]
    BY <1>1, <1>3 DEF StateOK
  <2>2. Unpacked(disk, i)
    BY <2>1 DEF Unpacked
  <2>3. QED
    BY <1>1, <1>3, <2>2 DEF Packaged
<1>4. QED
  BY <1>2, <1>3

\* A transaction goes on to its rollback, or ends with its package written.
LEMMA HandoffMove ==
  ASSUME GovIInv, GovInv', HistoryOK', NEW p \in Workers, lock = p, Working(p),
         at[p] # "claiming", NEW a, at' = [at EXCEPT ![p] = a],
         UNCHANGED <<disk, expired, job, copy, base, latest, by, dropped>>,
         NEW v, package' = [package EXCEPT ![job[p].stage] = v],
         \/ a = "reverting" /\ v = 0 /\ lock' = p
         \/ a = "holding" /\ job[p].sent /\ v = job[p].lease /\ lock' = NoProc
  PROVE  GovIInv'
<1>1. /\ StateOK /\ HistoryOK /\ LockOK /\ SoleOK /\ HeldOK /\ InHandoff(p) /\ p \in Procs
  BY DEF GovIInv, GovInv, LockOK, Procs, Working
<1>2. PICK j, c, b : j = job[p] /\ c = copy[p] /\ b = base[p]
  OBVIOUS
<1>3. /\ job' = [job EXCEPT ![p] = j] /\ copy' = [copy EXCEPT ![p] = c]
      /\ base' = [base EXCEPT ![p] = b] /\ job[p].how = "handoff"
  BY <1>1, <1>2 DEF StateOK, HistoryOK, InHandoff, Handing
<1>4. at'[p] = a /\ a \notin Calls
  BY <1>1 DEF StateOK, Calls
<1>5. Between(p)'
  BY <1>4 DEF Between, Calls
<1>6. HeldOK'
  <2>1. \A i \in Indexes : \/ package'[i] \in {package[i], 0}
                           \/ Working(p) /\ i = job[p].stage /\ package'[i] = job[p].lease
    BY <1>1 DEF StateOK
  <2>2. QED
    BY <1>1, <1>2, <1>3, <2>1, HeldMove
<1>7. LockOK'
  <2>1. lock' = p <=> Handing(a, j) \/ a = "reconciling"
    BY <1>1, <1>2, <1>3, GovernorAssumption DEF Handing, Procs
  <2>2. QED
    BY <1>1, <1>2, <1>3, <2>1, LockMove
<1>8. SoleOK'
  BY <1>1, <1>2, <1>3, SoleMove
<1>9. Packaged'
  BY PackageChange DEF Working
<1>10. UNCHANGED <<disk, expired, latest, by>> /\ (UNCHANGED package \/ lock = p)
  OBVIOUS
<1>11. QED
  BY <1>1, <1>3, <1>5, <1>6, <1>7, <1>8, <1>9, <1>10, NoSaveMove

LEMMA DispatchRefusedIKeeps ==
  ASSUME GovIInv, HistoryOK', NEW p \in Workers, DispatchRefused(p) PROVE GovIInv'
<1>1. /\ at[p] = "holding" /\ job[p].how \in {"ticket", "handoff"} /\ ~job[p].sent /\ p \in Procs
      /\ UNCHANGED <<disk, expired, lock, latest, by, dropped>>
  BY DEF DispatchRefused, Procs
<1>2. GovInv' /\ LockOK
  BY DispatchRefusedKeeps DEF GovIInv
<1>3. CASE job[p].how = "ticket"
  <2>1. Stop(p) /\ UNCHANGED package
    BY <1>3 DEF DispatchRefused
  <2>2. lock # p
    BY <1>1, <1>2, <1>3 DEF LockOK, InHandoff, Handing
  <2>3. QED
    BY <1>1, <1>2, <2>1, <2>2, StopMove
<1>4. CASE job[p].how = "handoff"
  <2>1. /\ at' = [at EXCEPT ![p] = "reverting"]
        /\ package' = [package EXCEPT ![job[p].stage] = 0]
        /\ UNCHANGED <<job, copy, base>>
    BY <1>4 DEF DispatchRefused
  <2>2. lock = p /\ Working(p) /\ at[p] # "claiming"
    BY <1>1, <1>2, <1>4 DEF LockOK, InHandoff, Handing, Working
  <2>3. PICK a, v : a = "reverting" /\ v = 0
    OBVIOUS
  <2>4. QED
    BY <1>1, <1>2, <2>1, <2>2, <2>3, HandoffMove
<1>5. QED
  BY <1>1, <1>3, <1>4

LEMMA WritePackageIKeeps ==
  ASSUME GovIInv, HistoryOK', NEW p \in Workers, WritePackage(p) PROVE GovIInv'
<1>1. /\ at[p] = "packaging" /\ p \in Procs
      /\ package' = [package EXCEPT ![job[p].stage] = job[p].lease]
      /\ lock' = NoProc /\ at' = [at EXCEPT ![p] = "holding"]
      /\ UNCHANGED <<disk, expired, job, copy, base, latest, by, dropped>>
  BY DEF WritePackage, Procs
<1>2. GovInv' /\ LockOK
  BY WritePackageKeeps DEF GovIInv
<1>3. lock = p /\ Working(p) /\ at[p] # "claiming" /\ job[p].sent
  BY <1>1, <1>2 DEF LockOK, InHandoff, Handing, Working
<1>4. PICK a, v : a = "holding" /\ v = job[p].lease
  OBVIOUS
<1>5. QED
  BY <1>1, <1>2, <1>3, <1>4, HandoffMove

LEMMA PackageFailsIKeeps ==
  ASSUME GovIInv, HistoryOK', NEW p \in Workers, PackageFails(p) PROVE GovIInv'
<1>1. /\ at[p] = "packaging" /\ p \in Procs
      /\ package' = [package EXCEPT ![job[p].stage] = 0]
      /\ at' = [at EXCEPT ![p] = "reverting"]
      /\ UNCHANGED <<disk, expired, lock, job, copy, base, latest, by, dropped>>
  BY DEF PackageFails, Procs
<1>2. GovInv' /\ LockOK
  BY PackageFailsKeeps DEF GovIInv
<1>3. lock = p /\ Working(p) /\ at[p] # "claiming"
  BY <1>1, <1>2 DEF LockOK, InHandoff, Handing, Working
<1>4. PICK a, v : a = "reverting" /\ v = 0
  OBVIOUS
<1>5. QED
  BY <1>1, <1>2, <1>3, <1>4, HandoffMove

LEMMA ReadPackageIKeeps ==
  ASSUME GovIInv, HistoryOK', NEW p \in Workers, NEW i \in Indexes, ReadPackage(p, i) PROVE GovIInv'
<1>1. PICK j, a, c, b : /\ j = [how |-> "direct", stage |-> i, lease |-> package[i], sent |-> TRUE]
                        /\ a = "holding" /\ c = copy[p] /\ b = base[p]
  OBVIOUS
<1>2. /\ GovInv' /\ StateOK /\ LockOK /\ SoleOK /\ HeldOK /\ Packaged /\ p \in Procs
  BY ReadPackageKeeps DEF GovIInv, GovInv, Procs
<1>3. /\ at[p] = "idle" /\ package[i] # 0
      /\ job' = [job EXCEPT ![p] = j] /\ at' = [at EXCEPT ![p] = a]
      /\ copy' = [copy EXCEPT ![p] = c] /\ base' = [base EXCEPT ![p] = b]
      /\ UNCHANGED <<disk, expired, package, lock, latest, by, dropped>>
  BY <1>1, <1>2 DEF ReadPackage, StateOK, GovIInv, HistoryOK
<1>4. lock # p
  BY <1>2, <1>3, IdleUnlocked
<1>5. at'[p] = "holding" /\ a \notin Calls
  BY <1>1, <1>2, <1>3 DEF StateOK, Calls
<1>6. Between(p)'
  BY <1>5 DEF Between, Calls
<1>7. HeldOK'
  <2>1. j.stage \in Indexes /\ package[j.stage] = j.lease /\ j.lease # 0
    BY <1>1, <1>3
  <2>2. \A k \in Indexes : package'[k] \in {package[k], 0}
    BY <1>3
  <2>3. QED
    BY <1>2, <1>3, <2>1, <2>2, HeldMove
<1>8. ~Handing(a, j)
  BY <1>1 DEF Handing
<1>9. LockOK'
  BY <1>1, <1>2, <1>3, <1>4, <1>8, LockMove
<1>10. SoleOK'
  BY <1>2, <1>3, <1>8, SoleMove
<1>11. Packaged'
  BY <1>2, <1>3, <1>4, PackageMove
<1>12. QED
  BY <1>2, <1>3, <1>5, <1>6, <1>7, <1>9, <1>10, <1>11, NoSaveMove

LEMMA ExpireIKeeps ==
  ASSUME GovIInv, HistoryOK', NEW lease, Expire(lease) PROVE GovIInv'
<1>1. /\ expired \subseteq expired'
      /\ UNCHANGED <<disk, drawn, package, lock, at, job, copy, latest, by, dropped, base>>
  BY DEF Expire
<1>2. GovInv'
  BY ExpireKeeps DEF GovIInv
<1>4. \A q \in Procs : Between(q)'
  BY <1>1, BetweenStays DEF GovIInv
<1>5. LeasesOK' /\ LockOK' /\ SoleOK' /\ Packaged'
  BY <1>1 DEF GovIInv, LeasesOK, LockOK, SoleOK, Packaged, InHandoff, Unpacked
<1>6. HeldOK'
  <2>1. \A i, l : Stands(i, l) => Stands(i, l)'
    BY <1>1 DEF Stands
  <2>2. HeldOK /\ UNCHANGED <<at, job, package>>
    BY <1>1 DEF GovIInv
  <2>3. ASSUME NEW q \in Procs, Working(q)' PROVE Stands(job[q].stage, job[q].lease)'
    BY <1>1, <2>2, <2>3 DEF HeldOK, Working, Stands
  <2>4. ASSUME NEW i \in Indexes, package'[i] # 0 PROVE Stands(i, package[i])'
    BY <1>1, <2>2, <2>4 DEF HeldOK, Stands
  <2>5. QED
    BY <2>3, <2>4 DEF HeldOK
<1>7. QED
  BY <1>2, <1>4, <1>5, <1>6 DEF GovIInv


-----------------------------------------------------------------------------
(* Calls that save.                                                        *)

\* A save leaves the other calls what they had loaded.
LEMMA SaveMove ==
  ASSUME GovIInv, GovInv', HistoryOK', NEW p \in Procs, NEW a, a \notin Calls, NEW j,
         at' = [at EXCEPT ![p] = a], job' = [job EXCEPT ![p] = j],
         copy' = [copy EXCEPT ![p] = None], base' = [base EXCEPT ![p] = None],
         UNCHANGED <<expired, package>>,
         LeasesOK', HeldOK', LockOK', SoleOK', Packaged'
  PROVE  GovIInv'
<1>1. StateOK /\ HistoryOK /\ \A q \in Procs : Between(q)
  BY DEF GovIInv, GovInv
<1>2. /\ at'[p] \notin Calls
      /\ \A q \in Procs : q # p => /\ at'[q] = at[q] /\ job'[q] = job[q] /\ copy'[q] = copy[q]
                                    /\ base'[q] = base[q]
  BY <1>1 DEF StateOK, HistoryOK
<1>3. ASSUME NEW q \in Procs PROVE Between(q)'
  <2>1. CASE q = p
    BY <1>2, <2>1 DEF Between, Calls
  <2>2. CASE q # p
    BY <1>1, <1>2, <2>2, BetweenStays
  <2>3. QED
    BY <2>1, <2>2
<1>4. QED
  BY <1>3 DEF GovIInv

\* A save takes a lease from a stage only when there was none or it was over.
LEMMA HeldSave ==
  ASSUME GovIInv, NEW p \in Procs, NEW a, NEW j,
         at' = [at EXCEPT ![p] = a], job' = [job EXCEPT ![p] = j],
         UNCHANGED <<expired, package>>, disk # None, disk' # None,
         \A k \in Indexes : \/ disk'.stage[k].lease = disk.stage[k].lease
                            \/ disk.stage[k].lease \in {0} \cup expired,
         \/ a \in Rest
         \/ disk'.stage[j.stage].lease = j.lease
         \/ Working(p) /\ j.stage = job[p].stage /\ j.lease = job[p].lease
  PROVE  HeldOK'
<1>1. StateOK /\ HeldOK /\ GovInv /\ drawn \in Nat
  BY DEF GovIInv, GovInv, StateOK
<1>2. /\ at'[p] = a /\ job'[p] = j
      /\ \A q \in Procs : q # p => at'[q] = at[q] /\ job'[q] = job[q]
  BY <1>1 DEF StateOK
<1>3. ASSUME NEW i \in Indexes, NEW lease, lease # 0, Stands(i, lease)
      PROVE  Stands(i, lease)'
  BY <1>3 DEF Stands
<1>4. \A q \in Procs : Working(q) => job[q].stage \in Indexes /\ job[q].lease # 0
  <2> SUFFICES ASSUME NEW q \in Procs, Working(q)
               PROVE  job[q].stage \in Indexes /\ job[q].lease # 0
    OBVIOUS
  <2>1. at[q] \notin Free
    BY DEF Working, Free
  <2>2. QED
    BY <1>1, <2>1, JobAtWork
<1>5. ASSUME NEW q \in Procs, Working(q)' PROVE Stands(job[q].stage, job[q].lease)'
  <2>1. PICK i, lease : i = job'[q].stage /\ lease = job'[q].lease
    OBVIOUS
  <2>2. CASE q # p \/ (Working(p) /\ j.stage = job[p].stage /\ j.lease = job[p].lease)
    <3>1. Working(q) /\ i = job[q].stage /\ lease = job[q].lease
      BY <1>2, <1>5, <2>1, <2>2 DEF Working
    <3>2. i \in Indexes /\ lease # 0 /\ Stands(i, lease)
      BY <1>1, <1>4, <3>1 DEF HeldOK
    <3>3. Stands(i, lease)'
      BY <1>3, <3>2
    <3>4. QED
      BY <2>1, <3>3 DEF Stands
  <2>3. CASE q = p /\ disk'.stage[j.stage].lease = j.lease
    BY <1>2, <2>3 DEF Stands
  <2>4. a \notin Rest \/ q # p
    BY <1>2, <1>5 DEF Working, Rest
  <2>5. QED
    BY <2>2, <2>3, <2>4
<1>6. ASSUME NEW i \in Indexes, package'[i] # 0 PROVE Stands(i, package[i])'
  <2>1. PICK lease : lease = package[i]
    OBVIOUS
  <2>2. lease # 0 /\ Stands(i, lease)
    BY <1>1, <1>6, <2>1 DEF HeldOK
  <2>3. Stands(i, lease)'
    BY <1>3, <2>2
  <2>4. QED
    BY <2>1, <2>3 DEF Stands
<1>7. QED
  BY <1>5, <1>6 DEF HeldOK

\* A save hands a stage to an adapter only inside a transaction.
LEMMA SoleSave ==
  ASSUME GovIInv, NEW p \in Procs, NEW a, NEW j,
         at' = [at EXCEPT ![p] = a], job' = [job EXCEPT ![p] = j], disk # None, disk' # None,
         \A k \in Indexes : disk'.stage[k].st = "dispatched" /\ disk'.stage[k].sent = "adapter" =>
           \/ disk'.stage[k] = disk.stage[k]
           \/ lock = p,
         Handing(a, j) => /\ j.stage \in Indexes
                          /\ disk'.stage[j.stage].lease = j.lease
  PROVE  SoleOK'
<1>1. StateOK /\ LockOK /\ SoleOK /\ GovInv
  BY DEF GovIInv, GovInv
<1>2. /\ at'[p] = a /\ job'[p] = j
      /\ \A q \in Procs : q # p => at'[q] = at[q] /\ job'[q] = job[q]
  BY <1>1 DEF StateOK
<1>3. ASSUME NEW q \in Procs, InHandoff(q)', at'[q] # "claiming",
             disk'.stage[job'[q].stage].st = "dispatched",
             disk'.stage[job'[q].stage].sent = "adapter"
      PROVE  disk'.stage[job'[q].stage].lease = job'[q].lease
  <2>1. CASE q = p
    BY <1>2, <1>3, <2>1 DEF InHandoff, Handing
  <2>2. CASE q # p
    <3>1. InHandoff(q) /\ at[q] # "claiming" /\ job'[q] = job[q]
      BY <1>2, <1>3, <2>2 DEF InHandoff, Handing
    <3>2. lock # p
      BY <1>1, <2>2, <3>1 DEF LockOK
    <3>3. at[q] \notin Free
      BY <3>1 DEF InHandoff, Handing, Free
    <3>4. PICK k \in Indexes : k = job[q].stage
      BY <1>1, <3>3, JobAtWork
    <3>5. disk'.stage[k] = disk.stage[k]
      BY <1>3, <3>1, <3>2, <3>4
    <3>6. QED
      BY <1>1, <1>3, <3>1, <3>4, <3>5 DEF SoleOK
  <2>3. QED
    BY <2>1, <2>2
<1>4. QED
  BY <1>3 DEF SoleOK

\* A save leaves nothing new without its package, but what the transaction
\* that keeps the lock is about to write.
LEMMA PackageSave ==
  ASSUME GovIInv, NEW p \in Procs, NEW j, job' = [job EXCEPT ![p] = j],
         UNCHANGED <<package, dropped>>, disk # None,
         lock \in Procs \ {p} => lock' = lock,
         lock = p => \/ lock' = p /\ j.stage = job[p].stage /\ j.lease = job[p].lease
                     \/ ~Unpacked(disk', job[p].stage),
         \A k \in Indexes : Unpacked(disk', k) =>
           \/ disk'.stage[k] = disk.stage[k]
           \/ p \in Workers /\ lock' = p /\ k = j.stage /\ disk'.stage[k].lease = j.lease
  PROVE  Packaged'
<1>1. StateOK /\ Packaged
  BY DEF GovIInv, GovInv
<1>2. job'[p] = j /\ \A q \in Procs : q # p => job'[q] = job[q]
  BY <1>1 DEF StateOK
<1> SUFFICES ASSUME NEW k \in Indexes, Unpacked(disk', k)
             PROVE  \/ \E q \in Workers : /\ lock' = q /\ job'[q].stage = k
                                          /\ job'[q].lease = disk'.stage[k].lease
                    \/ disk'.stage[k].lease \in dropped'
  BY DEF Packaged, Unpacked
<1>3. CASE disk'.stage[k] = disk.stage[k]
  <2>1. Unpacked(disk, k)
    BY <1>3 DEF Unpacked
  <2>2. ASSUME NEW q \in Workers, lock = q, job[q].stage = k, job[q].lease = disk.stage[k].lease
        PROVE  lock' = q /\ job'[q].stage = k /\ job'[q].lease = disk'.stage[k].lease
    BY <1>2, <1>3, <2>2 DEF Procs
  <2>3. QED
    BY <1>1, <1>3, <2>1, <2>2 DEF Packaged
<1>4. QED
  BY <1>2, <1>3


\* A save that claims nothing and decides nothing.
LEMMA LeasesSave ==
  ASSUME LeasesOK, disk # None, disk' # None, UNCHANGED <<latest, by>>,
         \A k \in Indexes : /\ disk'.stage[k].lease \in {0, disk.stage[k].lease}
                            /\ disk.stage[k].st \in Decided => disk'.stage[k].st \in Decided
  PROVE  LeasesOK'
  BY DEF LeasesOK

\* Before there is a record there is no lease.
LEMMA EndPlanIKeeps ==
  ASSUME GovIInv, HistoryOK', NEW p \in Procs, EndPlan(p), ~lost' PROVE GovIInv'
<1>1. /\ at[p] = "planning" /\ disk' = copy[p] /\ disk = base[p] /\ at' = [at EXCEPT ![p] = "idle"]
      /\ copy' = [copy EXCEPT ![p] = None] /\ base' = [base EXCEPT ![p] = None]
      /\ UNCHANGED <<expired, drawn, package, lock, job, latest, by, dropped>>
  BY DEF EndPlan, Save, Overwrite
<1>2. GovInv' /\ GovInv /\ StateOK /\ Between(p) /\ LockOK
  BY EndPlanKeeps DEF GovIInv, GovInv
<1>3. disk = None /\ \A i \in Indexes : disk'.stage[i] = Pending
  BY <1>1, <1>2 DEF Between
<1>4. drawn = 0 /\ \A i \in Indexes : package[i] = 0 /\ latest[i] = 0 /\ by[i] = 0
  BY <1>2, <1>3 DEF GovInv, StateOK
<1>5. \A q \in Procs : at[q] \in Free
  BY <1>2, <1>3, JobAtWork
<1>6. PICK a, j : a = "idle" /\ j = job[p]
  OBVIOUS
<1>7. /\ at' = [at EXCEPT ![p] = a] /\ job' = [job EXCEPT ![p] = j]
  BY <1>1, <1>2, <1>6 DEF StateOK
<1>8. \A q \in Procs : at'[q] \in Free
  BY <1>2, <1>5, <1>6, <1>7 DEF StateOK, Free
<1>9. LeasesOK'
  BY <1>1, <1>3, <1>4 DEF LeasesOK, Pending
<1>10. HeldOK'
  BY <1>1, <1>4, <1>8 DEF HeldOK, Working, Free
<1>11. LockOK'
  <2>1. ~Handing(a, j) /\ lock # p
    BY <1>1, <1>2, <1>6 DEF Handing, LockOK, InHandoff
  <2>2. QED
    BY <1>1, <1>2, <1>6, <1>7, <2>1, LockMove
<1>12. SoleOK'
  BY <1>8 DEF SoleOK, InHandoff, Handing, Free
<1>13. Packaged'
  BY <1>3 DEF Packaged, Unpacked, Pending
<1>14. QED
  BY <1>1, <1>2, <1>6, <1>7, <1>9, <1>10, <1>11, <1>12, <1>13, SaveMove DEF Calls

LEMMA EndClaimIKeeps ==
  ASSUME GovIInv, HistoryOK', NEW p \in Workers, EndClaim(p), ~lost' PROVE GovIInv'
<1>1. PICK a, j, i, lease : a = "holding" /\ j = job[p] /\ i = j.stage /\ lease = j.lease
  OBVIOUS
<1>2. /\ GovInv' /\ GovInv /\ StateOK /\ StateOK' /\ Between(p) /\ LockOK /\ LeasesOK /\ p \in Procs
  BY EndClaimKeeps DEF GovIInv, GovInv, Procs
<1>3. /\ at[p] = "claiming" /\ disk' = copy[p] /\ disk = base[p]
      /\ copy' = [copy EXCEPT ![p] = None] /\ base' = [base EXCEPT ![p] = None]
      /\ at' = [at EXCEPT ![p] = a] /\ job' = [job EXCEPT ![p] = j]
      /\ latest' = [latest EXCEPT ![i] = lease]
      /\ UNCHANGED <<expired, drawn, package, lock, by, dropped>>
  BY <1>1, <1>2 DEF EndClaim, Save, Overwrite, StateOK
<1>4. /\ disk # None /\ i \in Indexes /\ ~j.sent
  BY <1>1, <1>2, <1>3, JobAtWork DEF Free, LockOK
<1>5. disk' # None
  BY <1>2, <1>3, NoRecordAssumption DEF GovInv, Sound, Good, Calls
<1>6. ClaimStep(disk, disk', i, lease)
  BY <1>1, <1>2, <1>3 DEF Between
<1>7. /\ disk'.stage[i].lease = lease /\ disk'.stage[i].st = "claimed"
      /\ \A k \in Indexes : k # i => disk'.stage[k] = disk.stage[k]
      /\ disk.stage[i].st \notin Decided /\ disk.stage[i].lease \in {0} \cup expired
  BY <1>6 DEF ClaimStep, SameBut, LeaseOver, Pending
<1>8. LeasesOK'
  <2>1. by[i] = 0
    BY <1>2, <1>4, <1>7 DEF LeasesOK
  <2>2. latest'[i] = lease /\ \A k \in Indexes : k # i => latest'[k] = latest[k]
    BY <1>2, <1>3, <1>4 DEF StateOK
  <2>3. QED
    BY <1>2, <1>3, <1>4, <1>5, <1>7, <2>1, <2>2 DEF LeasesOK
<1>9. HeldOK'
  <2>1. \A k \in Indexes : \/ disk'.stage[k].lease = disk.stage[k].lease
                           \/ disk.stage[k].lease \in {0} \cup expired
    BY <1>7
  <2>2. disk'.stage[j.stage].lease = j.lease
    BY <1>1, <1>7
  <2>3. QED
    BY <1>2, <1>3, <1>4, <1>5, <2>1, <2>2, HeldSave
<1>10. LockOK'
  <2>1. lock' = p <=> Handing(a, j) \/ a = "reconciling"
    BY <1>1, <1>2, <1>3, <1>4 DEF LockOK, InHandoff, Handing
  <2>2. QED
    BY <1>1, <1>2, <1>3, <2>1, LockMove
<1>11. SoleOK'
  <2>1. \A k \in Indexes : disk'.stage[k].st = "dispatched" => disk'.stage[k] = disk.stage[k]
    BY <1>7
  <2>2. j.stage \in Indexes /\ disk'.stage[j.stage].lease = j.lease
    BY <1>1, <1>4, <1>7
  <2>3. QED
    BY <1>2, <1>3, <1>4, <1>5, <2>1, <2>2, SoleSave
<1>12. Packaged'
  <2>1. \A k \in Indexes : Unpacked(disk', k) => disk'.stage[k] = disk.stage[k]
    BY <1>7 DEF Unpacked
  <2>2. lock = p => lock' = p /\ j.stage = job[p].stage /\ j.lease = job[p].lease
    BY <1>1, <1>3
  <2>3. QED
    BY <1>2, <1>3, <1>4, <2>1, <2>2, PackageSave
<1>13. QED
  BY <1>1, <1>2, <1>3, <1>8, <1>9, <1>10, <1>11, <1>12, SaveMove DEF Calls

LEMMA EndDispatchIKeeps ==
  ASSUME GovIInv, HistoryOK', NEW p \in Workers, EndDispatch(p), ~lost' PROVE GovIInv'
<1>1. /\ GovInv' /\ GovInv /\ StateOK /\ Between(p) /\ LockOK /\ LeasesOK /\ p \in Procs
      /\ at[p] = "dispatching"
  BY EndDispatchKeeps DEF GovIInv, GovInv, Procs, EndDispatch
<1>2. PICK k \in Job : k = job[p]
  BY <1>1 DEF StateOK
<1>3. PICK j : j = [k EXCEPT !.sent = TRUE]
  OBVIOUS
<1>4. j.how = k.how /\ j.stage = k.stage /\ j.lease = k.lease /\ j.sent = TRUE
  BY <1>3 DEF Job
<1>5. PICK a, i, lease : /\ a = IF k.how = "handoff" THEN "packaging" ELSE "holding"
                         /\ i = k.stage /\ lease = k.lease
  OBVIOUS
<1>6. /\ disk' = copy[p] /\ disk = base[p] /\ at' = [at EXCEPT ![p] = a] /\ job' = [job EXCEPT ![p] = j]
      /\ copy' = [copy EXCEPT ![p] = None] /\ base' = [base EXCEPT ![p] = None]
      /\ UNCHANGED <<expired, drawn, package, lock, latest, by, dropped>>
  BY <1>1, <1>2, <1>3, <1>5 DEF EndDispatch, Save, Overwrite, StateOK
<1>7. disk # None /\ i \in Indexes /\ ~k.sent
  BY <1>1, <1>2, <1>5, JobAtWork DEF Free, LockOK
<1>8. disk' # None
  BY <1>1, <1>6, NoRecordAssumption DEF GovInv, Sound, Good, Calls
<1>9. DispatchStep(disk, disk', i, lease, IF k.how = "handoff" THEN "adapter" ELSE "worker")
  BY <1>1, <1>2, <1>5, <1>6 DEF Between
<1>10. /\ disk'.stage[i].lease = lease /\ disk.stage[i].lease = lease
       /\ disk'.stage[i].sent = IF k.how = "handoff" THEN "adapter" ELSE "worker"
       /\ disk.stage[i].st = "claimed"
       /\ \A m \in Indexes : m # i => disk'.stage[m] = disk.stage[m]
  BY <1>9 DEF DispatchStep, SameBut
<1>11. k.how = "handoff" => lock = p
  BY <1>1, <1>2, <1>7 DEF LockOK, InHandoff, Handing
<1>12. LeasesOK'
  BY <1>1, <1>6, <1>7, <1>8, <1>10, LeasesSave DEF Decided
<1>13. HeldOK'
  <2>1. \A m \in Indexes : disk'.stage[m].lease = disk.stage[m].lease
    BY <1>10
  <2>2. disk'.stage[j.stage].lease = j.lease
    BY <1>4, <1>5, <1>10
  <2>3. QED
    BY <1>1, <1>6, <1>7, <1>8, <2>1, <2>2, HeldSave
<1>14. LockOK'
  <2>1. lock' = p <=> Handing(a, j) \/ a = "reconciling"
    BY <1>1, <1>2, <1>4, <1>5, <1>6, <1>7 DEF LockOK, InHandoff, Handing
  <2>2. QED
    BY <1>1, <1>4, <1>5, <1>6, <2>1, LockMove
<1>15. SoleOK'
  <2>1. \A m \in Indexes : disk'.stage[m].st = "dispatched" /\ disk'.stage[m].sent = "adapter" =>
          disk'.stage[m] = disk.stage[m] \/ lock = p
    BY <1>10, <1>11
  <2>2. j.stage \in Indexes /\ disk'.stage[j.stage].lease = j.lease
    BY <1>4, <1>5, <1>7, <1>10
  <2>3. QED
    BY <1>1, <1>6, <1>7, <1>8, <2>1, <2>2, SoleSave
<1>16. Packaged'
  <2>1. \A m \in Indexes : Unpacked(disk', m) =>
          \/ disk'.stage[m] = disk.stage[m]
          \/ p \in Workers /\ lock' = p /\ m = j.stage /\ disk'.stage[m].lease = j.lease
    BY <1>4, <1>5, <1>6, <1>10, <1>11 DEF Unpacked
  <2>2. lock = p => lock' = p /\ j.stage = job[p].stage /\ j.lease = job[p].lease
    BY <1>2, <1>4, <1>6
  <2>3. QED
    BY <1>1, <1>6, <1>7, <2>1, <2>2, PackageSave
<1>17. a \notin Calls /\ at[p] \in Calls
  BY <1>1, <1>5 DEF Calls
<1>18. QED
  BY <1>1, <1>6, <1>12, <1>13, <1>14, <1>15, <1>16, <1>17, SaveMove


\* A call that saves and leaves its process idle, with no lock.
LEMMA IdleSave ==
  ASSUME GovIInv, GovInv', HistoryOK', NEW p \in Procs, at[p] \in Calls, disk # None,
         at' = [at EXCEPT ![p] = "idle"], NEW j, job' = [job EXCEPT ![p] = j],
         copy' = [copy EXCEPT ![p] = None], base' = [base EXCEPT ![p] = None],
         j = NoJob, UNCHANGED <<expired, package>>, disk' = copy[p],
         \A k \in Indexes : /\ \/ disk'.stage[k].lease = disk.stage[k].lease
                               \/ disk.stage[k].lease \in {0} \cup expired
                            /\ disk'.stage[k].st = "dispatched" => disk'.stage[k] = disk.stage[k],
         lock' = IF lock = p THEN NoProc ELSE lock,
         LeasesOK',
         Packaged' \/ (UNCHANGED dropped /\ (lock = p => ~Unpacked(disk', job[p].stage)))
  PROVE  GovIInv'
<1>1. StateOK /\ GovInv /\ LockOK
  BY DEF GovIInv, GovInv
<1>2. disk' # None
  BY <1>1, NoRecordAssumption DEF GovInv, Sound, Good
<1>3. PICK a : a = "idle"
  OBVIOUS
<1>4. at' = [at EXCEPT ![p] = a] /\ a \in Rest /\ a \notin Calls /\ ~Handing(a, j)
  BY <1>3 DEF Rest, Calls, Handing
<1>5. HeldOK'
  BY <1>2, <1>4, HeldSave
<1>6. LockOK'
  <2>1. lock' # p
    BY GovernorAssumption DEF Procs
  <2>2. QED
    BY <1>1, <1>3, <1>4, <2>1, LockMove
<1>7. SoleOK'
  BY <1>2, <1>4, SoleSave
<1>8. Packaged'
  <2> SUFFICES ASSUME UNCHANGED dropped, lock = p => ~Unpacked(disk', job[p].stage)
               PROVE  Packaged'
    OBVIOUS
  <2>1. \A k \in Indexes : Unpacked(disk', k) => disk'.stage[k] = disk.stage[k]
    BY DEF Unpacked
  <2>2. QED
    BY <2>1, PackageSave
<1>9. QED
  BY <1>4, <1>5, <1>6, <1>7, <1>8, SaveMove

LEMMA EndRevertIKeeps ==
  ASSUME GovIInv, HistoryOK', NEW p \in Workers, EndRevert(p), ~lost' PROVE GovIInv'
<1>1. /\ GovInv' /\ GovInv /\ StateOK /\ Between(p) /\ LockOK /\ LeasesOK /\ p \in Procs
  BY EndRevertKeeps DEF GovIInv, GovInv, Procs
<1>2. PICK j, i, lease : j = NoJob /\ i = job[p].stage /\ lease = job[p].lease
  OBVIOUS
<1>3. /\ at[p] = "undoing" /\ disk' = copy[p] /\ disk = base[p]
      /\ copy' = [copy EXCEPT ![p] = None] /\ base' = [base EXCEPT ![p] = None] /\ at' = [at EXCEPT ![p] = "idle"]
      /\ job' = [job EXCEPT ![p] = j] /\ lock' = NoProc
      /\ UNCHANGED <<expired, package, latest, by, dropped>>
  BY <1>2 DEF EndRevert, Stop, Overwrite
<1>4. disk # None /\ i \in Indexes
  BY <1>1, <1>2, <1>3, JobAtWork DEF Free
<1>5. disk' # None
  BY <1>1, <1>3, NoRecordAssumption DEF GovInv, Sound, Good, Calls
<1>6. RevertStep(disk, disk', i, lease)
  BY <1>1, <1>2, <1>3 DEF Between
<1>7. /\ disk'.stage[i].lease = disk.stage[i].lease /\ disk'.stage[i].st = "claimed"
      /\ disk.stage[i].st = "dispatched"
      /\ \A k \in Indexes : k # i => disk'.stage[k] = disk.stage[k]
  BY <1>6 DEF RevertStep, SameBut
<1>8. LeasesOK'
  BY <1>1, <1>3, <1>4, <1>5, <1>7, LeasesSave DEF Decided
<1>9. lock = p
  BY <1>1, <1>3 DEF LockOK, InHandoff, Handing
<1>10. ~Unpacked(disk', job[p].stage)
  BY <1>2, <1>7 DEF Unpacked
<1>11. \A k \in Indexes : /\ disk'.stage[k].lease = disk.stage[k].lease
                          /\ disk'.stage[k].st = "dispatched" => disk'.stage[k] = disk.stage[k]
  BY <1>7
<1>12. at[p] \in Calls
  BY <1>3 DEF Calls
<1>13. QED
  BY <1>1, <1>2, <1>3, <1>4, <1>8, <1>9, <1>10, <1>11, <1>12, IdleSave

LEMMA EndRecordIKeeps ==
  ASSUME GovIInv, HistoryOK', NEW p \in Workers, EndRecord(p), ~lost' PROVE GovIInv'
<1>1. /\ GovInv' /\ GovInv /\ StateOK /\ Between(p) /\ LockOK /\ LeasesOK /\ p \in Procs
  BY EndRecordKeeps DEF GovIInv, GovInv, Procs
<1>2. PICK j, i, lease : j = NoJob /\ i = job[p].stage /\ lease = job[p].lease
  OBVIOUS
<1>3. /\ at[p] = "recording" /\ disk' = copy[p] /\ disk = base[p]
      /\ copy' = [copy EXCEPT ![p] = None] /\ base' = [base EXCEPT ![p] = None] /\ at' = [at EXCEPT ![p] = "idle"]
      /\ job' = [job EXCEPT ![p] = j] /\ by' = [by EXCEPT ![i] = lease]
      /\ UNCHANGED <<expired, package, lock, latest, dropped>>
  BY <1>2 DEF EndRecord, Stop, Overwrite
<1>4. disk # None /\ i \in Indexes /\ lease # 0
  BY <1>1, <1>2, <1>3, JobAtWork DEF Free
<1>5. disk' # None
  BY <1>1, <1>3, NoRecordAssumption DEF GovInv, Sound, Good, Calls
<1>6. RecordStep(disk, disk', i, lease)
  BY <1>1, <1>2, <1>3 DEF Between
<1>7. /\ disk.stage[i].lease = lease /\ disk'.stage[i].st \in Decided
      /\ \A k \in Indexes : /\ disk'.stage[k].lease = disk.stage[k].lease
                            /\ disk'.stage[k].st # "dispatched"
                            /\ disk.stage[k].st \in Decided => disk'.stage[k].st \in Decided
  BY <1>6 DEF RecordStep
<1>8. LeasesOK'
  <2>1. by'[i] = lease /\ \A k \in Indexes : k # i => by'[k] = by[k]
    BY <1>1, <1>3, <1>4 DEF StateOK
  <2>2. latest[i] = lease
    BY <1>1, <1>4, <1>7 DEF LeasesOK
  <2>3. QED
    BY <1>1, <1>3, <1>4, <1>5, <1>7, <2>1, <2>2 DEF LeasesOK
<1>9. lock # p
  BY <1>1, <1>3 DEF LockOK, InHandoff, Handing
<1>10. at[p] \in Calls
  BY <1>3 DEF Calls
<1>11. QED
  BY <1>1, <1>2, <1>3, <1>4, <1>7, <1>8, <1>9, <1>10, IdleSave

LEMMA EndRecoverIKeeps ==
  ASSUME GovIInv, HistoryOK', NEW p \in Procs, EndRecover(p), ~lost' PROVE GovIInv'
<1>1. /\ GovInv' /\ GovInv /\ StateOK /\ Between(p) /\ LockOK /\ LeasesOK
      /\ at[p] = "recovering"
  BY EndRecoverKeeps DEF GovIInv, GovInv, EndRecover
<1>2. PICK j : j = job[p] /\ j = NoJob
  BY <1>1 DEF GovInv, JobsOK
<1>3. /\ disk' = copy[p] /\ disk = base[p]
      /\ copy' = [copy EXCEPT ![p] = None] /\ base' = [base EXCEPT ![p] = None] /\ at' = [at EXCEPT ![p] = "idle"]
      /\ job' = [job EXCEPT ![p] = j]
      /\ UNCHANGED <<expired, package, lock, latest, by, dropped>>
  BY <1>1, <1>2 DEF EndRecover, Save, Overwrite, StateOK
<1>4. disk # None
  BY <1>1, <1>3 DEF Between, Calls
<1>5. disk' # None
  BY <1>1, <1>3, NoRecordAssumption DEF GovInv, Sound, Good, Calls
<1>6. RecoverStep(disk, disk')
  BY <1>1, <1>3 DEF Between
<1>7. \A k \in Indexes :
        \/ disk'.stage[k] = disk.stage[k]
        \/ /\ disk.stage[k].st \notin Decided /\ disk.stage[k].lease \in expired
           /\ disk'.stage[k].st # "dispatched" /\ disk'.stage[k].lease \in {0, disk.stage[k].lease}
  BY <1>6 DEF RecoverStep, LeaseOver, Active, Decided
<1>8. LeasesOK'
  BY <1>1, <1>3, <1>4, <1>5, <1>7, LeasesSave
<1>9. lock # p
  BY <1>1, <1>3 DEF LockOK, InHandoff, Handing
<1>10. at[p] \in Calls
  BY <1>1 DEF Calls
<1>11. QED
  BY <1>1, <1>2, <1>3, <1>4, <1>7, <1>8, <1>9, <1>10, IdleSave

LEMMA EndReconcileIKeeps ==
  ASSUME GovIInv, HistoryOK', NEW p \in Procs, EndReconcile(p), ~lost' PROVE GovIInv'
<1>1. /\ GovInv' /\ GovInv /\ StateOK /\ Between(p) /\ LockOK /\ LeasesOK
      /\ at[p] = "reconciling"
  BY EndReconcileKeeps DEF GovIInv, GovInv, EndReconcile
<1>2. PICK j : j = job[p] /\ j = NoJob
  BY <1>1 DEF GovInv, JobsOK
<1>3. /\ disk' = copy[p] /\ disk = base[p]
      /\ copy' = [copy EXCEPT ![p] = None] /\ base' = [base EXCEPT ![p] = None] /\ at' = [at EXCEPT ![p] = "idle"]
      /\ job' = [job EXCEPT ![p] = j] /\ lock' = NoProc
      /\ UNCHANGED <<expired, package, latest, by>>
  BY <1>1, <1>2 DEF EndReconcile, Save, Overwrite, StateOK
<1>4. disk # None /\ Good(disk)
  BY <1>1, <1>3 DEF Between, Calls, GovInv, Sound
<1>5. disk' # None
  BY <1>1, <1>3, NoRecordAssumption DEF GovInv, Sound, Good, Calls
<1>6. ReconcileStep(disk, disk')
  BY <1>1, <1>3 DEF Between
<1>7. ASSUME NEW k \in Indexes
      PROVE  /\ disk'.stage[k].lease = disk.stage[k].lease
             /\ disk'.stage[k].st = "dispatched" => disk'.stage[k] = disk.stage[k]
             /\ disk.stage[k].st \in Decided => disk'.stage[k].st \in Decided
  <2>1. PICK t \in Stage : t = disk.stage[k]
    BY <1>4, RecordFields DEF Good
  <2>2. PICK u : u = Undispatched(t)
    OBVIOUS
  <2>3. u.lease = t.lease /\ u.st = "claimed"
    BY <2>1, <2>2 DEF Undispatched, Stage
  <2>4. disk'.stage[k] = t \/ (t.st = "dispatched" /\ disk'.stage[k] = u)
    BY <1>6, <2>1, <2>2 DEF ReconcileStep
  <2>5. QED
    BY <2>1, <2>3, <2>4 DEF Decided
<1>8. LeasesOK'
  BY <1>1, <1>3, <1>4, <1>5, <1>7, LeasesSave
<1>9. lock = p
  BY <1>1 DEF LockOK
<1>10. Packaged'
  BY <1>3, <1>6 DEF Packaged, ReconcileStep, Unpacked
<1>11. at[p] \in Calls
  BY <1>1 DEF Calls
<1>12. QED
  BY <1>1, <1>2, <1>3, <1>4, <1>7, <1>8, <1>9, <1>10, <1>11, IdleSave

\* A step keeps the invariant unless its save loses an update.
LEMMA GovIStep ==
  ASSUME GovIInv, [Next]_vars, ~lost'
  PROVE  GovIInv'
<1>0. HistoryOK'
  BY HistoryStep DEF GovIInv
<1>1. CASE UNCHANGED vars
  <2>1. GovInv'
    BY <1>1, GovStep DEF GovIInv
  <2>2. \A q \in Procs : Between(q)'
    BY <1>1, BetweenStays DEF vars, GovIInv
  <2>3. LeasesOK' /\ HeldOK' /\ LockOK' /\ SoleOK' /\ Packaged'
    BY <1>1 DEF vars, GovIInv, LeasesOK, HeldOK, Stands, Working, LockOK, InHandoff,
                SoleOK, Packaged, Unpacked
  <2>4. QED
    BY <1>0, <2>1, <2>2, <2>3 DEF GovIInv
<1>2. CASE Next
  BY <1>0, <1>2, StartPlanIKeeps, EndPlanIKeeps, StartClaimIKeeps, EndClaimIKeeps,
     StartDispatchIKeeps, EndDispatchIKeeps, DispatchRefusedIKeeps, WritePackageIKeeps,
     PackageFailsIKeeps, StartRevertIKeeps, EndRevertIKeeps, NothingToRevertIKeeps,
     ReadPackageIKeeps, StartRecordIKeeps, EndRecordIKeeps, RecordRefusedIKeeps,
     StartRecoverIKeeps, EndRecoverIKeeps, StartReconcileIKeeps, EndReconcileIKeeps, CrashIKeeps,
     ExpireIKeeps DEF Next
<1>3. QED
  BY <1>1, <1>2

\* A step changes the record by the save of one call, or not at all; and what
\* is lost stays lost.
LEMMA OnlyCallsSave ==
  ASSUME Next
  PROVE  \/ UNCHANGED <<disk, lost>>
         \/ \E p \in Procs : EndPlan(p) /\ Overwrite(p)
         \/ \E p \in Procs : at[p] \in Calls \ {"planning"} /\ Overwrite(p)
<1> DEFINE Saves(p) == p \in Procs /\ at[p] \in Calls \ {"planning"} /\ Overwrite(p)
           Stays    == UNCHANGED <<disk, lost>>
<1>1. ASSUME NEW p \in Workers
      PROVE  /\ EndClaim(p) => Saves(p)
             /\ EndDispatch(p) => Saves(p)
             /\ EndRevert(p) => Saves(p)
             /\ EndRecord(p) => Saves(p)
  BY DEF EndClaim, EndDispatch, EndRevert, EndRecord, Save, Calls, Procs
<1>2. ASSUME NEW p \in Procs
      PROVE  /\ EndRecover(p) => Saves(p)
             /\ EndReconcile(p) => Saves(p)
             /\ EndPlan(p) => Overwrite(p)
  BY DEF EndRecover, EndReconcile, EndPlan, Save, Calls
<1>3. ASSUME NEW p \in Workers
      PROVE  /\ \A how \in {"ticket", "handoff", "direct"} : StartClaim(p, how) => Stays
             /\ StartDispatch(p) => Stays
             /\ DispatchRefused(p) => Stays
             /\ WritePackage(p) => Stays
             /\ PackageFails(p) => Stays
             /\ StartRevert(p) => Stays
             /\ NothingToRevert(p) => Stays
             /\ \A i \in Indexes : ReadPackage(p, i) => Stays
             /\ \A o \in Outcomes : StartRecord(p, o) => Stays
             /\ RecordRefused(p) => Stays
  BY DEF StartClaim, StartDispatch, DispatchRefused, WritePackage, PackageFails, StartRevert,
         NothingToRevert, ReadPackage, StartRecord, RecordRefused
<1>4. ASSUME NEW p \in Procs
      PROVE  /\ \A plan \in Plans : StartPlan(p, plan) => Stays
             /\ StartRecover(p) => Stays
             /\ StartReconcile(p) => Stays
             /\ Crash(p) => Stays
  BY DEF StartPlan, StartRecover, StartReconcile, Crash
<1>5. \A lease \in 1 .. MaxLeases : Expire(lease) => Stays
  BY DEF Expire
<1> HIDE DEF Saves, Stays
<1>6. Stays \/ (\E p \in Procs : EndPlan(p) /\ Overwrite(p)) \/ (\E p : Saves(p))
  BY <1>1, <1>2, <1>3, <1>4, <1>5 DEF Next
<1>7. QED
  BY <1>6 DEF Saves, Stays

\* The invariant of every behaviour: records are good, and nothing else goes
\* wrong before an update is lost.
UnlessLost == GovInv /\ HistoryOK /\ (lost \/ GovIInv)

LEMMA UnlessLostStep == UnlessLost /\ [Next]_vars => UnlessLost'
<1> SUFFICES ASSUME UnlessLost, [Next]_vars PROVE UnlessLost'
  OBVIOUS
<1>1. GovInv' /\ HistoryOK'
  BY GovStep, HistoryStep DEF UnlessLost
<1>2. CASE lost
  <2>1. lost'
    BY <1>2, OnlyCallsSave DEF vars, Overwrite
  <2>2. QED
    BY <1>1, <2>1 DEF UnlessLost
<1>3. CASE GovIInv
  BY <1>1, <1>3, GovIStep DEF UnlessLost
<1>4. QED
  BY <1>2, <1>3 DEF UnlessLost

LEMMA UnlessLostInit == Init => UnlessLost
  BY GovInit, HistoryInit, GovIInit DEF UnlessLost

-----------------------------------------------------------------------------
(* What follows.                                                           *)

LEMMA UnlessLostImplies ==
  UnlessLost => ExclusiveUnlessLost /\ LatestLeaseDecides /\ DispatchedHasPackage
<1> SUFFICES ASSUME GovIInv PROVE ClaimsExclusive /\ LatestLeaseDecides /\ DispatchedHasPackage
  BY DEF UnlessLost, ExclusiveUnlessLost, LatestLeaseDecides, DispatchedHasPackage
<1>1. ClaimsExclusive
  BY DEF GovIInv, HeldOK, Stands, ClaimsExclusive, Procs
<1>2. LatestLeaseDecides
  BY DEF GovIInv, LeasesOK, LatestLeaseDecides
<1>3. DispatchedHasPackage
  BY DEF GovIInv, Packaged, DispatchedHasPackage
<1>4. QED
  BY <1>1, <1>2, <1>3

\* However many calls overlap: until a save undoes another call's update, two
\* workers that still have time to work on a stage work under the same lease
\* (claim_execution_stage).
THEOREM ClaimsAreExclusive == Spec => []ExclusiveUnlessLost
  BY UnlessLostInit, UnlessLostStep, UnlessLostImplies, PTL DEF Spec

\* However many calls overlap: until a save undoes another call's update, a
\* stage is decided under the last lease that was given out for it
\* (record_execution_result).
THEOREM LatestLeaseAlwaysDecides == Spec => []LatestLeaseDecides
  BY UnlessLostInit, UnlessLostStep, UnlessLostImplies, PTL DEF Spec

\* However many calls overlap: until a save undoes another call's update, a
\* stage handed to an adapter has its package, but while its transaction lasts
\* or when that died and startup reconciliation has not run since (adapter
\* handoffs).
THEOREM DispatchedAlwaysHasPackage == Spec => []DispatchedHasPackage
  BY UnlessLostInit, UnlessLostStep, UnlessLostImplies, PTL DEF Spec


-----------------------------------------------------------------------------
(***************************************************************************)
(* The fallback chain, step by step.                                       *)
(***************************************************************************)

LEMMA ChainInit == Init => Chain!Init
  BY DEF Init, Chain!Init

\* A step that saves nothing is none of the chain's.
LEMMA ChainStutters ==
  ASSUME UNCHANGED disk
  PROVE  [Chain!Next]_(Chain!vars)
  BY DEF Chain!vars

\* What the chain shows of a record.
Verdict(r) == IF r.status \notin Verdicts THEN "open" ELSE r.status

\* A save of a changed record is a step of the chain when it decides the
\* current stage, gives the verdict, or does neither.
LEMMA ChainSave ==
  ASSUME NEW r, Good(r), r = disk, NEW s, Good(s), s = disk', s.n = r.n,
         \/ s.idx = r.idx /\ Verdict(s) = Verdict(r)
         \/ /\ r.idx < r.n /\ s.idx \in (r.idx + 1) .. r.n
            /\ r.status \notin Verdicts /\ s.status \notin Verdicts
         \/ r.idx = r.n /\ s.idx = r.idx /\ r.status \notin Verdicts /\ s.status \in Verdicts
  PROVE  [Chain!Next]_(Chain!vars)
<1>1. /\ r # None /\ s # None /\ r.n \in 1 .. 6 /\ r.idx \in 1 .. r.n /\ s.idx \in 1 .. r.n
  BY RecordFields, NoRecordAssumption DEF Good, Orderly, Indexes, MaxStages
<1>2. CASE s.idx = r.idx /\ Verdict(s) = Verdict(r)
  BY <1>1, <1>2 DEF Chain!vars, Verdict
<1>3. CASE /\ r.idx < r.n /\ s.idx \in (r.idx + 1) .. r.n
           /\ r.status \notin Verdicts /\ s.status \notin Verdicts
  <2>1. s.idx - 1 \in r.idx .. (r.n - 1) /\ r.idx - 1 < r.n - 1 /\ (r.idx - 1) + 1 = r.idx
    BY <1>1, <1>3
  <2>2. Chain!Decide
    BY <1>1, <1>3, <2>1 DEF Chain!Decide
  <2>3. QED
    BY <2>2 DEF Chain!Next
<1>4. CASE r.idx = r.n /\ s.idx = r.idx /\ r.status \notin Verdicts /\ s.status \in Verdicts
  <2>1. Chain!Review
    BY <1>1, <1>4 DEF Chain!Review, Verdicts
  <2>2. QED
    BY <2>1 DEF Chain!Next
<1>5. QED
  BY <1>2, <1>3, <1>4

\* A record whose current stage is not decided is open.
LEMMA UndecidedIsOpen ==
  ASSUME NEW r, Good(r), NEW i, r.idx = i, r.stage[i].st \notin Decided
  PROVE  r.status \notin Verdicts
  BY OpenRecord DEF Good, Orderly, Current

\* Planning plans once.
LEMMA ChainPlan ==
  ASSUME GovIInv, NEW p \in Procs, EndPlan(p), disk = base[p], disk' = copy[p]
  PROVE  [Chain!Next]_(Chain!vars)
<1>1. PICK s : s = copy[p]
  OBVIOUS
<1>2. /\ disk = None /\ disk' = s /\ Good(s) /\ s.idx = 1 /\ s.status \notin Verdicts
  <2>1. at[p] = "planning" /\ at[p] \in Calls /\ disk' = s
    BY <1>1 DEF EndPlan, Calls
  <2>2. GovInv /\ Between(p)
    BY DEF GovIInv
  <2>3. Good(copy[p])
    BY <2>1, <2>2 DEF GovInv, Sound
  <2>4. disk = None /\ copy[p].idx = 1 /\ copy[p].status \notin Verdicts
    BY <2>1, <2>2 DEF Between
  <2>5. QED
    BY <1>1, <2>1, <2>3, <2>4
<1>3. s # None /\ s.n \in 1 .. MaxStages
  BY <1>2, RecordFields, NoRecordAssumption DEF Good, Indexes
<1>4. Chain!Plan
  BY <1>2, <1>3 DEF Chain!Plan
<1>5. QED
  BY <1>4 DEF Chain!Next

\* The other calls that save.
LEMMA ChainCall ==
  ASSUME GovIInv, NEW p \in Procs, at[p] \in Calls \ {"planning"}, disk = base[p], disk' = copy[p]
  PROVE  [Chain!Next]_(Chain!vars)
<1>1. PICK r, s, i, lease : r = disk /\ s = copy[p] /\ i = job[p].stage /\ lease = job[p].lease
  OBVIOUS
<1>2. GovInv /\ Between(p)
  BY DEF GovIInv
<1>3. Good(r) /\ Good(s)
  BY <1>1, <1>2 DEF GovInv, Between, Calls, Sound
<1>4. CASE at[p] = "claiming"
  <2>1. ClaimStep(r, s, i, lease)
    BY <1>1, <1>2, <1>4 DEF Between
  <2>2. r.status \notin Verdicts
    BY <1>3, <2>1, UndecidedIsOpen DEF ClaimStep
  <2>3. s.n = r.n /\ s.idx = r.idx /\ Verdict(s) = Verdict(r)
    BY <2>1, <2>2 DEF ClaimStep, SameBut, Verdict, Verdicts
  <2>4. QED
    BY <1>1, <1>3, <2>3, ChainSave
<1>5. CASE at[p] = "dispatching"
  <2>1. DispatchStep(r, s, i, lease, IF job[p].how = "handoff" THEN "adapter" ELSE "worker")
    BY <1>1, <1>2, <1>5 DEF Between
  <2>2. r.status \notin Verdicts
    BY <1>3, <2>1, UndecidedIsOpen DEF DispatchStep, Decided
  <2>3. s.n = r.n /\ s.idx = r.idx /\ Verdict(s) = Verdict(r)
    BY <2>1, <2>2 DEF DispatchStep, SameBut, Verdict, Verdicts
  <2>4. QED
    BY <1>1, <1>3, <2>3, ChainSave
<1>6. CASE at[p] = "undoing"
  <2>1. RevertStep(r, s, i, lease)
    BY <1>1, <1>2, <1>6 DEF Between
  <2>2. s.n = r.n /\ s.idx = r.idx /\ Verdict(s) = Verdict(r)
    BY <2>1 DEF RevertStep, SameBut, Verdict
  <2>3. QED
    BY <1>1, <1>3, <2>2, ChainSave
<1>7. CASE at[p] = "recording"
  <2>1. RecordStep(r, s, i, lease)
    BY <1>1, <1>2, <1>7 DEF Between
  <2>2. r.status \notin Verdicts
    BY <1>3, <2>1, UndecidedIsOpen DEF RecordStep, Active, Decided
  <2>3. QED
    BY <1>1, <1>3, <2>1, <2>2, ChainSave DEF RecordStep
<1>8. CASE at[p] = "recovering"
  <2>1. RecoverStep(r, s)
    BY <1>1, <1>2, <1>8 DEF Between
  <2>2. CASE s.idx = r.idx /\ s.status = r.status
    BY <1>1, <1>3, <2>1, <2>2, ChainSave DEF RecoverStep, Verdict
  <2>3. CASE r.idx < r.n /\ s.idx = r.idx + 1 /\ s.status \notin Verdicts
    <3>1. r.n \in 1 .. 6 /\ r.n \in Indexes /\ r.idx \in 1 .. 7
      BY <1>3, RecordFields DEF Good, Indexes, MaxStages
    <3>2. r.stage[r.n] = Pending
      BY <1>3, <2>3, <3>1 DEF Good, Orderly
    <3>3. r.status \notin Verdicts
      BY <1>3, <3>2 DEF Good, Reviewed, Pending, Verdicts
    <3>4. s.idx \in (r.idx + 1) .. r.n
      BY <2>3, <3>1
    <3>5. QED
      BY <1>1, <1>3, <2>1, <2>3, <3>3, <3>4, ChainSave DEF RecoverStep
  <2>4. QED
    BY <2>1, <2>2, <2>3 DEF RecoverStep
<1>9. CASE at[p] = "reconciling"
  <2>1. ReconcileStep(r, s)
    BY <1>1, <1>2, <1>9 DEF Between
  <2>2. s.n = r.n /\ s.idx = r.idx /\ Verdict(s) = Verdict(r)
    BY <2>1 DEF ReconcileStep, Verdict
  <2>3. QED
    BY <1>1, <1>3, <2>2, ChainSave
<1>10. QED
  BY <1>4, <1>5, <1>6, <1>7, <1>8, <1>9 DEF Calls

LEMMA ChainStep == UnlessLost /\ [Next]_vars => [Chain!Next \/ lost']_(Chain!vars)
<1> SUFFICES ASSUME UnlessLost, [Next]_vars, ~lost' PROVE [Chain!Next]_(Chain!vars)
  OBVIOUS
<1>1. CASE UNCHANGED vars
  BY <1>1, ChainStutters DEF vars
<1>2. CASE Next
  <2>1. CASE UNCHANGED disk
    BY <2>1, ChainStutters
  <2>2. ASSUME NEW p \in Procs, Overwrite(p)
        PROVE  GovIInv /\ disk = base[p] /\ disk' = copy[p]
    BY <2>2 DEF Overwrite, UnlessLost
  <2>3. QED
    BY <1>2, <2>1, <2>2, OnlyCallsSave, ChainPlan, ChainCall
<1>3. QED
  BY <1>1, <1>2

\* However many calls overlap: until a save undoes another call's update they
\* make a fallback chain: planned once, each stage decided once and in order,
\* the verdict final (plan_execution, record_execution_result,
\* recover_execution).
THEOREM FallbackChainImplemented == Spec => ImplementsFallbackChain
  BY UnlessLostInit, UnlessLostStep, ChainInit, ChainStep, PTL DEF Spec, ImplementsFallbackChain

==============================================================================
