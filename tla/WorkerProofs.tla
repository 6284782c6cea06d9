----------------------------- MODULE WorkerProofs -----------------------------
(***************************************************************************)
(* What JCode runs, routes and the brain directory guarantee, for any      *)
(* callers, files, packages and directories.                               *)
(***************************************************************************)
EXTENDS WorkerRuns, BrainStore, TLAPS

(***************************************************************************)
(* The brain directory.  A restore deletes the directory it set aside only *)
(* when its own brain is in; what keeps a brain is that the directories    *)
(* about to be deleted are never all those that hold one: directories have *)
(* names of their own, and each is set aside by one restore at most.       *)
(***************************************************************************)

Brain     == [whole : BOOLEAN, schema : {1, 2}]
Directory == [id : Nat \ {0}, brain : Brain, inside : BOOLEAN]
Stages    == {"idle", "unpacked", "aside", "in", "migrating", "applied"}
Keeper    == [at : Stages, brain : Brain, old : Nat]

StoreTypeOK ==
  /\ agent \in Directory \cup {NoDir}
  /\ aside \subseteq Directory
  /\ archives \subseteq Brain
  /\ made \in Nat
  /\ keeper \in [Keeping -> Keeper]

Holds(d) == d.brain.whole \/ d.inside

\* Every directory has an identity of its own.
IdsOK ==
  /\ \A d \in aside : d.id <= made
  /\ \A d, e \in aside : d.id = e.id => d = e
  /\ agent # NoDir => agent.id <= made /\ \A d \in aside : d.id # agent.id

\* What a restore set aside is not in place, and nobody else's.
OldOK ==
  /\ \A p \in Keeping : keeper[p].old <= made
  /\ \A p \in Keeping : keeper[p].at \notin {"aside", "in"} => keeper[p].old = 0
  /\ \A p, q \in Keeping : keeper[p].old = keeper[q].old => p = q \/ keeper[p].old = 0
  /\ agent # NoDir => \A p \in Keeping : keeper[p].old # agent.id

\* What is unpacked is a whole brain.
UnpackedWhole ==
  \A p \in Keeping : keeper[p].at \in {"unpacked", "aside"} => keeper[p].brain.whole

\* Nobody is about to delete the directory.
Kept(d) == \A p \in Keeping : keeper[p].at = "in" => keeper[p].old # d.id

SomeKept ==
  \/ agent # NoDir /\ Holds(agent) /\ Kept(agent)
  \/ \E d \in aside : Holds(d) /\ Kept(d)

StoreIInv == StoreTypeOK /\ IdsOK /\ OldOK /\ UnpackedWhole /\ SomeKept

LEMMA BrainParts ==
  /\ First \in Brain /\ Stub \in Brain /\ Resting \in Keeper
  /\ First.whole /\ Resting.at = "idle" /\ Resting.old = 0
  /\ \A d \in Directory : d # NoDir /\ d.id \in Nat /\ d.id # 0
<1>1. Directory \subseteq [id : Nat, brain : [whole : BOOLEAN, schema : {1, 2}], inside : BOOLEAN]
  BY DEF Directory, Brain
<1>2. QED
  BY <1>1, StoreAssumption DEF First, Stub, Resting, Brain, Directory, Keeper, Stages

\* A new directory.
LEMMA NewDir ==
  ASSUME NEW n \in Nat \ {0}, NEW b \in Brain
  PROVE  Dir(n, b) \in Directory /\ Dir(n, b).id = n /\ Dir(n, b).brain = b
  BY DEF Dir, Directory

LEMMA StoreStart == StoreInit => StoreIInv
<1> SUFFICES ASSUME StoreInit PROVE StoreIInv
  OBVIOUS
<1>1. /\ agent \in Directory /\ agent.id = 1 /\ agent.brain = First
      /\ agent # NoDir /\ aside = {} /\ made = 1
  BY BrainParts, NewDir DEF StoreInit
<1>2. /\ keeper \in [Keeping -> Keeper]
      /\ \A p \in Keeping : keeper[p].at = "idle" /\ keeper[p].old = 0
  BY BrainParts DEF StoreInit
<1>3. archives = {}
  BY DEF StoreInit
<1>4. Holds(agent) /\ Kept(agent)
  BY <1>1, <1>2, BrainParts DEF Holds, Kept
<1>5. QED
  BY <1>1, <1>2, <1>3, <1>4 DEF StoreIInv, StoreTypeOK, IdsOK, OldOK, UnpackedWhole, SomeKept

\* A process goes to a place, or comes to rest.
LEMMA KeeperMoves ==
  ASSUME StoreTypeOK, NEW p \in Keeping, NEW k \in Keeper, keeper' = [keeper EXCEPT ![p] = k]
  PROVE  /\ keeper' \in [Keeping -> Keeper]
         /\ keeper'[p] = k
         /\ \A q \in Keeping : q # p => keeper'[q] = keeper[q]
  BY DEF StoreTypeOK

LEMMA AtMoves ==
  ASSUME StoreTypeOK, NEW p \in Keeping, NEW place \in Stages, At(p, place)
  PROVE  /\ keeper' \in [Keeping -> Keeper]
         /\ keeper'[p].at = place /\ keeper'[p].old = keeper[p].old
         /\ keeper'[p].brain = keeper[p].brain
         /\ \A q \in Keeping : q # p => keeper'[q] = keeper[q]
<1>1. PICK k \in Keeper : k = keeper[p]
  BY DEF StoreTypeOK
<1>2. PICK e : e = [k EXCEPT !.at = place]
  OBVIOUS
<1>3. e \in Keeper /\ e.at = place /\ e.old = k.old /\ e.brain = k.brain
  BY <1>2 DEF Keeper
<1>4. keeper' = [keeper EXCEPT ![p] = e]
  BY <1>1, <1>2 DEF At, StoreTypeOK
<1>5. QED
  BY <1>1, <1>3, <1>4, KeeperMoves

LEMMA DoneMoves ==
  ASSUME StoreTypeOK, NEW p \in Keeping, Done(p)
  PROVE  /\ keeper' \in [Keeping -> Keeper]
         /\ keeper'[p].at = "idle" /\ keeper'[p].old = 0
         /\ \A q \in Keeping : q # p => keeper'[q] = keeper[q]
  BY BrainParts, KeeperMoves DEF Done

\* A new directory takes the free place; nobody moves.
LEMMA RecreatedKeeps ==
  ASSUME StoreIInv, Recreated, UNCHANGED <<aside, archives, keeper>>
  PROVE  StoreIInv'
<1>1. CASE agent # NoDir
  BY <1>1 DEF Recreated, StoreIInv, StoreTypeOK, IdsOK, OldOK, UnpackedWhole, SomeKept, Kept
<1>2. CASE agent = NoDir
  <2>1. made' = made + 1 /\ agent' = Dir(made + 1, Stub) /\ made \in Nat
    BY <1>2 DEF Recreated, StoreIInv, StoreTypeOK
  <2>2. agent' \in Directory /\ agent'.id = made + 1 /\ agent' # NoDir
    BY <2>1, NewDir, BrainParts
  <2>3. StoreTypeOK'
    BY <2>1, <2>2 DEF StoreIInv, StoreTypeOK
  <2>4. IdsOK'
    BY <2>1, <2>2, BrainParts DEF StoreIInv, StoreTypeOK, IdsOK
  <2>5. OldOK'
    BY <2>1, <2>2 DEF StoreIInv, StoreTypeOK, OldOK, Keeper
  <2>6. UnpackedWhole' /\ SomeKept'
    BY <1>2 DEF StoreIInv, UnpackedWhole, SomeKept, Kept
  <2>7. QED
    BY <2>3, <2>4, <2>5, <2>6 DEF StoreIInv
<1>3. QED
  BY <1>1, <1>2

\* A step that moves no directory, and after which nobody new is about to
\* delete one.
LEMMA QuietStore ==
  ASSUME StoreIInv, UNCHANGED <<agent, aside, made>>, archives' \subseteq Brain, NEW p \in Keeping,
         keeper' \in [Keeping -> Keeper],
         \A q \in Keeping : q # p => keeper'[q] = keeper[q],
         keeper'[p].at # "in",
         keeper'[p].old = 0 \/ (keeper'[p].at = "aside" /\ keeper'[p].old = keeper[p].old),
         keeper'[p].at \in {"unpacked", "aside"} => keeper'[p].brain.whole
  PROVE  StoreIInv'
<1>1. StoreTypeOK' /\ IdsOK'
  BY DEF StoreIInv, StoreTypeOK, IdsOK
<1>2. OldOK'
  <2>1. \A q \in Keeping : keeper'[q].old \in {0, keeper[q].old}
    OBVIOUS
  <2>2. agent # NoDir => agent.id # 0
    BY BrainParts DEF StoreIInv, StoreTypeOK
  <2>3. \A q \in Keeping : keeper[q].old <= made /\ 0 <= made
    BY DEF StoreIInv, StoreTypeOK, OldOK
  <2>4. \A q \in Keeping : keeper'[q].at \notin {"aside", "in"} => keeper'[q].old = 0
    BY DEF StoreIInv, OldOK
  <2>5. \A q, r \in Keeping : keeper'[q].old = keeper'[r].old => q = r \/ keeper'[q].old = 0
    BY <2>1 DEF StoreIInv, OldOK
  <2>6. QED
    BY <2>1, <2>2, <2>3, <2>4, <2>5 DEF StoreIInv, OldOK
<1>3. UnpackedWhole'
  BY DEF StoreIInv, UnpackedWhole
<1>4. \A d : Kept(d) => Kept(d)'
  BY DEF Kept
<1>5. SomeKept'
  BY <1>4 DEF StoreIInv, SomeKept, Kept
<1>6. QED
  BY <1>1, <1>2, <1>3, <1>5 DEF StoreIInv

LEMMA QuietSteps ==
  ASSUME StoreIInv, NEW p \in Keeping,
         \/ Backup(p) \/ (\E b \in archives : StartRestore(p, b)) \/ StartMigration(p)
         \/ ApplyMigration(p) \/ MigrationFails(p) \/ KeeperDies(p)
  PROVE  StoreIInv'
<1>1. StoreTypeOK /\ UnpackedWhole /\ OldOK
  BY DEF StoreIInv
<1>2. CASE Backup(p)
  <2>1. agent.brain \in Brain
    BY <1>1, <1>2 DEF StoreTypeOK, Backup, Directory
  <2>2. /\ UNCHANGED <<agent, aside, made, keeper>> /\ archives' \subseteq Brain
        /\ keeper[p].at = "idle" /\ keeper[p].old = 0 /\ keeper' \in [Keeping -> Keeper]
    BY <1>1, <1>2, <2>1 DEF Backup, StoreTypeOK, OldOK
  <2>3. QED
    BY <2>2, QuietStore
<1>3. ASSUME NEW b \in archives, StartRestore(p, b) PROVE StoreIInv'
  <2>1. PICK e : e = [Resting EXCEPT !.at = "unpacked", !.brain = b]
    OBVIOUS
  <2>2. b \in Brain /\ b.whole
    BY <1>1, <1>3 DEF StoreTypeOK, StartRestore
  <2>3. e \in Keeper /\ e.at = "unpacked" /\ e.old = 0 /\ e.brain = b
    BY <2>1, <2>2 DEF Resting, Keeper, Stages
  <2>4. keeper' = [keeper EXCEPT ![p] = e] /\ UNCHANGED <<agent, aside, archives, made>>
    BY <1>3, <2>1 DEF StartRestore
  <2>5. /\ keeper' \in [Keeping -> Keeper] /\ keeper'[p] = e
        /\ \A q \in Keeping : q # p => keeper'[q] = keeper[q]
    BY <1>1, <2>3, <2>4, KeeperMoves
  <2>6. archives' \subseteq Brain
    BY <1>1, <2>4 DEF StoreTypeOK
  <2>7. QED
    BY <2>2, <2>3, <2>4, <2>5, <2>6, QuietStore
<1>4. CASE StartMigration(p)
  <2>1. PICK e : e = [Resting EXCEPT !.at = "migrating", !.brain = agent.brain]
    OBVIOUS
  <2>2. agent.brain \in Brain
    BY <1>1, <1>4 DEF StoreTypeOK, StartMigration, Directory
  <2>3. e \in Keeper /\ e.at = "migrating" /\ e.old = 0
    BY <2>1, <2>2 DEF Resting, Keeper, Stages
  <2>4. keeper' = [keeper EXCEPT ![p] = e] /\ UNCHANGED <<agent, aside, made>>
    BY <1>4, <2>1 DEF StartMigration
  <2>5. /\ keeper' \in [Keeping -> Keeper] /\ keeper'[p] = e
        /\ \A q \in Keeping : q # p => keeper'[q] = keeper[q]
    BY <1>1, <2>3, <2>4, KeeperMoves
  <2>6. archives' \subseteq Brain
    BY <1>1, <1>4, <2>2 DEF StoreTypeOK, StartMigration
  <2>7. QED
    BY <2>3, <2>4, <2>5, <2>6, QuietStore
<1>5. CASE ApplyMigration(p)
  <2>1. /\ At(p, "applied") /\ UNCHANGED <<agent, aside, archives, made>>
        /\ keeper[p].at = "migrating" /\ archives \subseteq Brain
    BY <1>1, <1>5 DEF ApplyMigration, StoreTypeOK
  <2>2. PICK place \in Stages : place = "applied"
    BY DEF Stages
  <2>3. /\ keeper' \in [Keeping -> Keeper]
        /\ keeper'[p].at = "applied" /\ keeper'[p].old = keeper[p].old
        /\ \A q \in Keeping : q # p => keeper'[q] = keeper[q]
    BY <1>1, <2>1, <2>2, AtMoves
  <2>4. keeper'[p].old = 0
    BY <1>1, <2>1, <2>3 DEF OldOK
  <2>5. QED
    BY <2>1, <2>3, <2>4, QuietStore
<1>6. CASE MigrationFails(p) /\ keeper[p].brain.whole
  <2>1. /\ At(p, "unpacked") /\ UNCHANGED <<agent, aside, archives, made>>
        /\ keeper[p].at \in {"migrating", "applied"} /\ archives \subseteq Brain
    BY <1>1, <1>6 DEF MigrationFails, StoreTypeOK
  <2>2. PICK place \in Stages : place = "unpacked"
    BY DEF Stages
  <2>3. /\ keeper' \in [Keeping -> Keeper]
        /\ keeper'[p].at = "unpacked" /\ keeper'[p].old = keeper[p].old
        /\ keeper'[p].brain = keeper[p].brain
        /\ \A q \in Keeping : q # p => keeper'[q] = keeper[q]
    BY <1>1, <2>1, <2>2, AtMoves
  <2>4. keeper'[p].old = 0
    BY <1>1, <2>1, <2>3 DEF OldOK
  <2>5. QED
    BY <1>6, <2>1, <2>3, <2>4, QuietStore
<1>7. CASE (MigrationFails(p) /\ ~keeper[p].brain.whole) \/ KeeperDies(p)
  <2>1. Done(p) /\ UNCHANGED <<agent, aside, archives, made>> /\ archives \subseteq Brain
    BY <1>1, <1>7 DEF MigrationFails, KeeperDies, StoreTypeOK
  <2>2. /\ keeper' \in [Keeping -> Keeper]
        /\ keeper'[p].at = "idle" /\ keeper'[p].old = 0
        /\ \A q \in Keeping : q # p => keeper'[q] = keeper[q]
    BY <1>1, <2>1, DoneMoves
  <2>3. QED
    BY <2>1, <2>2, QuietStore
<1>8. QED
  BY <1>2, <1>3, <1>4, <1>5, <1>6, <1>7

\* The brain is set aside, where it is as good as in its place.
LEMMA MoveAsideKeeps ==
  ASSUME StoreIInv, NEW p \in Keeping, MoveAside(p) PROVE StoreIInv'
<1>1. StoreTypeOK /\ IdsOK /\ OldOK /\ UnpackedWhole /\ SomeKept
  BY DEF StoreIInv
<1>2. /\ keeper[p].at = "unpacked" /\ agent' = NoDir /\ UNCHANGED <<archives, made>>
      /\ keeper[p].old = 0 /\ keeper[p].brain.whole
  BY <1>1 DEF MoveAside, OldOK, UnpackedWhole
<1>3. CASE agent = NoDir
  <2>1. At(p, "aside") /\ UNCHANGED <<agent, aside, archives, made>> /\ archives \subseteq Brain
    BY <1>1, <1>2, <1>3 DEF MoveAside, StoreTypeOK
  <2>2. PICK place \in Stages : place = "aside"
    BY DEF Stages
  <2>3. /\ keeper' \in [Keeping -> Keeper]
        /\ keeper'[p].at = "aside" /\ keeper'[p].old = keeper[p].old
        /\ keeper'[p].brain = keeper[p].brain
        /\ \A q \in Keeping : q # p => keeper'[q] = keeper[q]
    BY <1>1, <2>1, <2>2, AtMoves
  <2>4. QED
    BY <1>2, <2>1, <2>3, QuietStore
<1>4. CASE agent # NoDir
  <2>1. PICK d \in Directory : d = agent
    BY <1>1, <1>4 DEF StoreTypeOK
  <2>2. /\ keeper' = [keeper EXCEPT ![p].at = "aside", ![p].old = d.id]
        /\ aside' = aside \cup {d}
    BY <1>4, <2>1 DEF MoveAside
  <2>3. PICK k \in Keeper : k = keeper[p]
    BY <1>1 DEF StoreTypeOK
  <2>4. PICK e : e = [k EXCEPT !.at = "aside", !.old = d.id]
    OBVIOUS
  <2>5. e \in Keeper /\ e.at = "aside" /\ e.old = d.id /\ e.brain = k.brain
    BY <2>1, <2>4 DEF Keeper, Stages, Directory
  <2>6. keeper' = [keeper EXCEPT ![p] = e]
    <3>1. [keeper EXCEPT ![p].at = "aside"][p] = [k EXCEPT !.at = "aside"]
      BY <1>1, <2>3 DEF StoreTypeOK
    <3>2. QED
      BY <1>1, <2>2, <2>3, <2>4, <3>1 DEF StoreTypeOK
  <2>7. /\ keeper' \in [Keeping -> Keeper] /\ keeper'[p] = e
        /\ \A q \in Keeping : q # p => keeper'[q] = keeper[q]
    BY <1>1, <2>5, <2>6, KeeperMoves
  <2>8. StoreTypeOK'
    BY <1>1, <1>2, <2>1, <2>2, <2>7 DEF StoreTypeOK
  <2>9. IdsOK'
    BY <1>1, <1>2, <1>4, <2>1, <2>2 DEF IdsOK
  <2>10. OldOK'
    BY <1>1, <1>2, <1>4, <2>1, <2>5, <2>7 DEF OldOK, IdsOK
  <2>11. UnpackedWhole'
    BY <1>1, <1>2, <2>3, <2>5, <2>7 DEF UnpackedWhole
  <2>12. \A f : Kept(f) => Kept(f)'
    BY <2>5, <2>7 DEF Kept
  <2>13. SomeKept'
    <3>1. PICK f \in aside' : Holds(f) /\ Kept(f)
      BY <1>1, <1>4, <2>1, <2>2 DEF SomeKept
    <3>2. Kept(f)'
      BY <2>12, <3>1
    <3>3. QED
      BY <3>1, <3>2 DEF SomeKept, Kept
  <2>14. QED
    BY <2>8, <2>9, <2>10, <2>11, <2>13 DEF StoreIInv
<1>5. QED
  BY <1>3, <1>4

\* What is moved in is whole, and nobody set it aside.
LEMMA MoveInKeeps ==
  ASSUME StoreIInv, NEW p \in Keeping, MoveIn(p) PROVE StoreIInv'
<1>1. StoreTypeOK /\ IdsOK /\ OldOK /\ UnpackedWhole
  BY DEF StoreIInv
<1>2. /\ keeper[p].at = "aside" /\ At(p, "in") /\ UNCHANGED <<aside, archives>>
      /\ keeper[p].brain.whole
  BY <1>1 DEF MoveIn, UnpackedWhole
<1>3. PICK place \in Stages : place = "in"
  BY DEF Stages
<1>4. /\ keeper' \in [Keeping -> Keeper]
      /\ keeper'[p].at = "in" /\ keeper'[p].old = keeper[p].old
      /\ \A q \in Keeping : q # p => keeper'[q] = keeper[q]
  BY <1>1, <1>2, <1>3, AtMoves
<1>5. \A q \in Keeping : keeper'[q].old = keeper[q].old /\ keeper[q].old \in Nat
  BY <1>1, <1>4 DEF StoreTypeOK, Keeper
<1>6. /\ agent' \in Directory /\ agent' # NoDir /\ Holds(agent')
      /\ made' \in Nat /\ made <= made'
      /\ agent'.id <= made' /\ \A d \in aside : d.id # agent'.id
      /\ \A q \in Keeping : keeper[q].old # agent'.id
  <2>1. CASE agent = NoDir
    <3>1. PICK b \in Brain : b = keeper[p].brain
      BY <1>1 DEF StoreTypeOK, Keeper
    <3>2. made' = made + 1 /\ agent' = Dir(made + 1, b) /\ made \in Nat
      BY <1>1, <2>1, <3>1 DEF MoveIn, StoreTypeOK
    <3>3. agent' \in Directory /\ agent'.id = made + 1 /\ agent'.brain = b
      BY <3>2, NewDir
    <3>4. QED
      BY <1>1, <1>2, <1>5, <3>1, <3>2, <3>3, BrainParts DEF Holds, IdsOK, OldOK, StoreTypeOK
  <2>2. CASE agent # NoDir
    <3>1. PICK d \in Directory : d = agent
      BY <1>1, <2>2 DEF StoreTypeOK
    <3>2. PICK e : e = [d EXCEPT !.inside = TRUE]
      OBVIOUS
    <3>3. e \in Directory /\ e.id = d.id /\ e.inside
      BY <3>2 DEF Directory
    <3>4. agent' = e /\ made' = made
      BY <2>2, <3>1, <3>2 DEF MoveIn
    <3>5. QED
      BY <1>1, <2>2, <3>1, <3>3, <3>4, BrainParts DEF Holds, IdsOK, OldOK, StoreTypeOK
  <2>3. QED
    BY <2>1, <2>2
<1>7. StoreTypeOK'
  BY <1>1, <1>2, <1>4, <1>6 DEF StoreTypeOK
<1>8. IdsOK'
  <2>1. \A d \in aside : d.id <= made'
    BY <1>1, <1>6, BrainParts DEF StoreTypeOK, IdsOK
  <2>2. QED
    BY <1>1, <1>2, <1>6, <2>1 DEF IdsOK
<1>9. OldOK'
  <2>1. \A q \in Keeping : keeper'[q].old <= made'
    BY <1>1, <1>5, <1>6 DEF StoreTypeOK, OldOK
  <2>2. QED
    BY <1>1, <1>4, <1>5, <1>6, <2>1 DEF OldOK
<1>10. UnpackedWhole'
  BY <1>1, <1>4 DEF UnpackedWhole
<1>11. SomeKept'
  BY <1>5, <1>6 DEF SomeKept, Kept, Holds
<1>12. QED
  BY <1>7, <1>8, <1>9, <1>10, <1>11 DEF StoreIInv


\* What was set aside is put back, unless its place is taken.
LEMMA MoveFailsKeeps ==
  ASSUME StoreIInv, NEW p \in Keeping, MoveFails(p) PROVE StoreIInv'
<1>1. StoreTypeOK /\ IdsOK /\ OldOK /\ UnpackedWhole /\ SomeKept
  BY DEF StoreIInv
<1>2. Done(p) /\ UNCHANGED <<archives, made>> /\ archives \subseteq Brain
  BY <1>1 DEF MoveFails, StoreTypeOK
<1>3. /\ keeper' \in [Keeping -> Keeper]
      /\ keeper'[p].at = "idle" /\ keeper'[p].old = 0
      /\ \A q \in Keeping : q # p => keeper'[q] = keeper[q]
  BY <1>1, <1>2, DoneMoves
<1> DEFINE mine == {d \in aside : d.id = keeper[p].old}
<1>4. CASE agent = NoDir /\ mine # {}
  <2>1. PICK d \in mine : d = CHOOSE e \in mine : TRUE
    BY <1>4
  <2>2. agent' = d /\ aside' = aside \ mine
    BY <1>4, <2>1 DEF MoveFails
  <2>3. /\ d \in aside /\ d.id = keeper[p].old /\ d \in Directory /\ d # NoDir /\ d.id # 0
        /\ mine = {d}
    BY <1>1, <2>1, BrainParts DEF StoreTypeOK, IdsOK
  <2>4. StoreTypeOK'
    BY <1>1, <1>2, <1>3, <2>2, <2>3 DEF StoreTypeOK
  <2>5. IdsOK'
    BY <1>1, <1>2, <2>2, <2>3 DEF IdsOK
  <2>6. \A q \in Keeping : q # p => keeper[q].old # d.id
    BY <1>1, <2>3 DEF OldOK
  <2>7. 0 <= made
    BY <1>1 DEF StoreTypeOK
  <2>8. OldOK'
    BY <1>1, <1>2, <1>3, <2>2, <2>3, <2>6, <2>7 DEF OldOK
  <2>9. UnpackedWhole'
    BY <1>1, <1>3 DEF UnpackedWhole
  <2>10. SomeKept'
    <3>1. PICK f \in aside : Holds(f) /\ Kept(f)
      BY <1>1, <1>4 DEF SomeKept
    <3>2. Kept(f)'
      BY <1>3, <3>1 DEF Kept
    <3>3. f = agent' \/ f \in aside'
      BY <2>2, <2>3, <3>1
    <3>4. QED
      BY <2>2, <2>3, <3>1, <3>2, <3>3 DEF SomeKept, Kept
  <2>11. QED
    BY <2>4, <2>5, <2>8, <2>9, <2>10 DEF StoreIInv
<1>5. CASE ~(agent = NoDir /\ mine # {})
  <2>1. UNCHANGED <<agent, aside, made>>
    BY <1>5 DEF MoveFails
  <2>2. QED
    BY <1>2, <1>3, <2>1, QuietStore
<1>6. QED
  BY <1>4, <1>5

\* Only what somebody set aside, and is in for, is deleted.
LEMMA DropOldKeeps ==
  ASSUME StoreIInv, NEW p \in Keeping, DropOld(p) PROVE StoreIInv'
<1>1. StoreTypeOK /\ IdsOK /\ OldOK /\ UnpackedWhole /\ SomeKept
  BY DEF StoreIInv
<1>2. /\ keeper[p].at = "in" /\ Done(p) /\ UNCHANGED <<agent, archives, made>>
      /\ aside' = {d \in aside : d.id # keeper[p].old}
  BY DEF DropOld
<1>3. /\ keeper' \in [Keeping -> Keeper]
      /\ keeper'[p].at = "idle" /\ keeper'[p].old = 0
      /\ \A q \in Keeping : q # p => keeper'[q] = keeper[q]
  BY <1>1, <1>2, DoneMoves
<1>4. StoreTypeOK' /\ IdsOK'
  BY <1>1, <1>2, <1>3 DEF StoreTypeOK, IdsOK
<1>5. OldOK'
  <2>1. 0 <= made /\ (agent # NoDir => agent.id # 0)
    BY <1>1, BrainParts DEF StoreTypeOK
  <2>2. QED
    BY <1>1, <1>2, <1>3, <2>1 DEF OldOK
<1>6. UnpackedWhole'
  BY <1>1, <1>3 DEF UnpackedWhole
<1>7. \A f : Kept(f) => Kept(f)' /\ (f \in aside => f \in aside')
  BY <1>2, <1>3 DEF Kept
<1>8. SomeKept'
  <2>1. CASE agent # NoDir /\ Holds(agent) /\ Kept(agent)
    BY <1>2, <1>7, <2>1 DEF SomeKept, Kept
  <2>2. CASE \E f \in aside : Holds(f) /\ Kept(f)
    BY <1>7, <2>2 DEF SomeKept, Kept
  <2>3. QED
    BY <1>1, <2>1, <2>2 DEF SomeKept
<1>9. QED
  BY <1>4, <1>5, <1>6, <1>8 DEF StoreIInv

\* A new version in a brain that is as whole as it was.
LEMMA SaveVersionKeeps ==
  ASSUME StoreIInv, NEW p \in Keeping, SaveVersion(p) PROVE StoreIInv'
<1>1. StoreTypeOK /\ IdsOK /\ OldOK /\ UnpackedWhole /\ SomeKept
  BY DEF StoreIInv
<1>2. Done(p) /\ UNCHANGED <<aside, archives>> /\ keeper[p].at = "applied"
  BY DEF SaveVersion
<1>3. /\ keeper' \in [Keeping -> Keeper]
      /\ keeper'[p].at = "idle" /\ keeper'[p].old = 0
      /\ \A q \in Keeping : q # p => keeper'[q] = keeper[q]
  BY <1>1, <1>2, DoneMoves
<1>4. /\ agent' \in Directory /\ agent' # NoDir /\ made' \in Nat /\ made <= made'
      /\ agent'.id <= made' /\ \A d \in aside : d.id # agent'.id
      /\ \A q \in Keeping : keeper[q].old # agent'.id
      /\ agent # NoDir => agent'.id = agent.id /\ (Holds(agent) => Holds(agent)')
  <2>1. CASE agent = NoDir
    <3>1. PICK b : b = [Stub EXCEPT !.schema = 2]
      OBVIOUS
    <3>2. b \in Brain
      BY <3>1 DEF Stub, Brain
    <3>3. made' = made + 1 /\ agent' = Dir(made + 1, b) /\ made \in Nat
      BY <1>1, <2>1, <3>1 DEF SaveVersion, StoreTypeOK
    <3>4. agent' \in Directory /\ agent'.id = made + 1
      BY <3>2, <3>3, NewDir
    <3>5. QED
      BY <1>1, <2>1, <3>3, <3>4, BrainParts DEF IdsOK, OldOK, StoreTypeOK, Keeper
  <2>2. CASE agent # NoDir
    <3>1. PICK d \in Directory : d = agent
      BY <1>1, <2>2 DEF StoreTypeOK
    <3>2. PICK b \in Brain : b = d.brain
      BY DEF Directory
    <3>3. PICK c : c = [b EXCEPT !.schema = 2]
      OBVIOUS
    <3>4. c \in Brain /\ c.whole = b.whole
      BY <3>3 DEF Brain
    <3>5. PICK e : e = [d EXCEPT !.brain = c]
      OBVIOUS
    <3>6. e \in Directory /\ e.id = d.id /\ e.inside = d.inside /\ e.brain = c
      BY <3>4, <3>5 DEF Directory
    <3>7. agent' = e /\ made' = made
      BY <2>2, <3>1, <3>2, <3>3, <3>5 DEF SaveVersion
    <3>8. Holds(d) => Holds(e)
      BY <3>2, <3>4, <3>6 DEF Holds
    <3>9. QED
      BY <1>1, <2>2, <3>1, <3>6, <3>7, <3>8, BrainParts DEF Holds, IdsOK, OldOK, StoreTypeOK
  <2>3. QED
    BY <2>1, <2>2
<1>5. StoreTypeOK'
  BY <1>1, <1>2, <1>3, <1>4 DEF StoreTypeOK
<1>6. IdsOK'
  <2>1. \A d \in aside : d.id <= made'
    BY <1>1, <1>4, BrainParts DEF StoreTypeOK, IdsOK
  <2>2. QED
    BY <1>1, <1>2, <1>4, <2>1 DEF IdsOK
<1>7. OldOK'
  <2>1. \A q \in Keeping : keeper[q].old <= made' /\ 0 <= made'
    BY <1>1, <1>4 DEF StoreTypeOK, OldOK, Keeper
  <2>2. agent'.id # 0
    BY <1>4, BrainParts
  <2>3. QED
    BY <1>1, <1>3, <1>4, <2>1, <2>2 DEF OldOK
<1>8. UnpackedWhole'
  BY <1>1, <1>3 DEF UnpackedWhole
<1>9. \A f : Kept(f) => Kept(f)'
  BY <1>3 DEF Kept
<1>10. SomeKept'
  <2>1. CASE agent # NoDir /\ Holds(agent) /\ Kept(agent)
    BY <1>3, <1>4, <2>1 DEF SomeKept, Kept
  <2>2. CASE \E f \in aside : Holds(f) /\ Kept(f)
    BY <1>2, <1>9, <2>2 DEF SomeKept, Kept
  <2>3. QED
    BY <1>1, <2>1, <2>2 DEF SomeKept
<1>11. QED
  BY <1>5, <1>6, <1>7, <1>8, <1>10 DEF StoreIInv

LEMMA StoreStep == StoreIInv /\ [StoreNext]_storeVars => StoreIInv'
<1> SUFFICES ASSUME StoreIInv, [StoreNext]_storeVars PROVE StoreIInv'
  OBVIOUS
<1>1. CASE UNCHANGED storeVars
  BY <1>1 DEF storeVars, StoreIInv, StoreTypeOK, IdsOK, OldOK, UnpackedWhole, SomeKept, Kept, Holds
<1>2. ASSUME NEW p \in Keeping, Serve(p) \/ ServiceCycle(p) PROVE StoreIInv'
  BY <1>2, RecreatedKeeps DEF Serve, ServiceCycle
<1>3. ASSUME NEW p \in Keeping, ServiceEnds(p) PROVE StoreIInv'
  BY <1>3 DEF ServiceEnds, StoreIInv, StoreTypeOK, IdsOK, OldOK, UnpackedWhole, SomeKept, Kept, Holds
<1>4. QED
  BY <1>1, <1>2, <1>3, QuietSteps, MoveAsideKeeps, MoveInKeeps, MoveFailsKeeps, DropOldKeeps,
     SaveVersionKeeps DEF StoreNext

LEMMA StoreInvariant == StoreSpec => []StoreIInv
  BY StoreStart, StoreStep, PTL DEF StoreSpec

\* Whatever restores, migrations and services do to each other, and wherever
\* one of them dies, a whole brain is on disk (restore_backup, migrate_brain).
THEOREM BrainAlwaysKept == StoreSpec => []BrainIsKept
<1>1. StoreIInv => BrainIsKept
  BY DEF StoreIInv, SomeKept, BrainIsKept, Holds
<1>2. QED
  BY <1>1, StoreInvariant, PTL

(***************************************************************************)
(* JCode runs and routes.  What a run knows of its own packages, locks and *)
(* threads is an invariant of each caller: nobody else's step moves its    *)
(* threads or takes its locks away.                                        *)
(***************************************************************************)

Place == {"idle", "locking", "scanned", "working", "leaving", "alone"}
Lock  == [by : Callers \X Nat, slot : Nat, paths : SUBSET Seq(STRING), since : Nat]
Run   == [at : Place, pkgs : Seq(Packages), next : Nat \ {0}, mine : SUBSET Lock,
          refused : BOOLEAN, stop : BOOLEAN, seen : SUBSET Slots]
Hand  == [st : Live \cup {"none", "done", "raised", "broken"},
          touched : SUBSET Files, shown : SUBSET Files, exit : {"ok", "failed", "untested"}]

WorkerTypeOK ==
  /\ consent \in BOOLEAN /\ asked \in BOOLEAN /\ inGit \in BOOLEAN
  /\ minute \in Nat /\ begun \in Nat
  /\ pathLocks \subseteq Lock
  /\ team \in [Callers -> Run]
  /\ hand \in [Callers -> [Slots -> Hand]]
  /\ route \in [Callers -> {"none", "refused", "jcode", "aider"}]

\* An opt-in, a plan to run JCode and a running JCode tell that the user asked.
OptInOK ==
  /\ consent => asked
  /\ \A c \in Callers : route[c] = "jcode" => asked
  /\ NeverUnasked

Locked(c, s) == \E l \in team[c].mine : l.paths = team[c].pkgs[s].paths

\* The locks of a run are there, and its own.
MineOK(c) == team[c].mine \subseteq pathLocks /\ \A l \in team[c].mine : l.by[1] = c

\* A thread lives in a run that was dispatched, for one of its packages.
ThreadsOK(c) == \A s \in Slots : hand[c][s].st \in Live =>
  team[c].at \in {"working", "leaving", "alone"} /\ s \in DOMAIN team[c].pkgs

\* Until a package is refused, those before the next one are locked.
LockingOK(c) == team[c].at \in {"locking", "scanned"} =>
  /\ team[c].seen = {}
  /\ ~team[c].refused => \A s \in DOMAIN team[c].pkgs :
       s < team[c].next /\ team[c].pkgs[s].paths # {} => Locked(c, s)
  /\ team[c].at = "scanned" => team[c].next \in DOMAIN team[c].pkgs

WorkingOK(c) == team[c].at \in {"working", "leaving"} =>
  \A s \in DOMAIN team[c].pkgs : team[c].pkgs[s].paths # {} => Locked(c, s)

\* What was collected without a stop is good.
CollectedOK(c) == team[c].at = "working" /\ ~team[c].stop => \A s \in team[c].seen :
  hand[c][s].st = "done" /\ hand[c][s].exit = "ok" /\ Valid(c, s)

CallerOK(c) == MineOK(c) /\ ThreadsOK(c) /\ LockingOK(c) /\ WorkingOK(c) /\ CollectedOK(c)

WorkerIInv == WorkerTypeOK /\ OptInOK /\ \A c \in Callers : CallerOK(c)

LEMMA RunParts ==
  /\ NoTeam \in Run /\ NoTeam.at = "idle" /\ NoTeam.mine = {} /\ NoTeam.seen = {}
  /\ NoHand \in Hand /\ NoHand.st = "none" /\ NoHand.st \notin Live
  BY DEF NoTeam, NoHand, Run, Hand, Place, Live

LEMMA WorkerStart == WorkerInit => WorkerIInv
<1> SUFFICES ASSUME WorkerInit PROVE WorkerIInv
  OBVIOUS
<1>1. /\ consent = FALSE /\ asked = FALSE /\ minute = 0 /\ begun = 0 /\ inGit \in BOOLEAN
      /\ pathLocks = {}
      /\ route \in [Callers -> {"none", "refused", "jcode", "aider"}]
      /\ \A c \in Callers : route[c] = "none"
  BY DEF WorkerInit
<1>2. /\ team \in [Callers -> Run] /\ \A c \in Callers : team[c] = NoTeam
      /\ hand \in [Callers -> [Slots -> Hand]]
      /\ \A c \in Callers, s \in Slots : hand[c][s] = NoHand
  BY RunParts DEF WorkerInit
<1>3. WorkerTypeOK
  BY <1>1, <1>2 DEF WorkerTypeOK
<1>4. OptInOK
  BY <1>1, <1>2, RunParts DEF OptInOK, NeverUnasked
<1>5. \A c \in Callers : CallerOK(c)
  BY <1>1, <1>2, RunParts
     DEF CallerOK, MineOK, ThreadsOK, LockingOK, WorkingOK, CollectedOK, Live
<1>6. QED
  BY <1>3, <1>4, <1>5 DEF WorkerIInv

\* The parts of the state that an action of one caller leaves to the others.
Others(c) == \A d \in Callers : d # c => team'[d] = team[d] /\ hand'[d] = hand[d]

\* What one caller does, giving back no lock that is not its own, concerns
\* only itself.
LEMMA OneCaller ==
  ASSUME WorkerIInv, WorkerTypeOK', OptInOK', NEW c \in Callers, Others(c), CallerOK(c)',
         pathLocks \ team[c].mine \subseteq pathLocks'
  PROVE  WorkerIInv'
<1>1. ASSUME NEW d \in Callers, d # c PROVE CallerOK(d)'
  <2>1. CallerOK(d) /\ MineOK(c) /\ team'[d] = team[d] /\ hand'[d] = hand[d]
    BY <1>1 DEF WorkerIInv, CallerOK, Others
  <2>2. MineOK(d)'
    BY <1>1, <2>1 DEF CallerOK, MineOK
  <2>3. ThreadsOK(d)' /\ LockingOK(d)' /\ WorkingOK(d)' /\ CollectedOK(d)'
    BY <2>1 DEF CallerOK, ThreadsOK, LockingOK, WorkingOK, CollectedOK, Locked, Valid
  <2>4. QED
    BY <2>2, <2>3 DEF CallerOK
<1>2. QED
  BY <1>1 DEF WorkerIInv

\* A run goes on as another.
LEMMA RunMoves ==
  ASSUME WorkerTypeOK, NEW c \in Callers, NEW t \in Run, team' = [team EXCEPT ![c] = t]
  PROVE  /\ team' \in [Callers -> Run] /\ team'[c] = t
         /\ \A d \in Callers : d # c => team'[d] = team[d]
  BY DEF WorkerTypeOK

\* A thread goes on as another.
LEMMA HandMoves ==
  ASSUME WorkerTypeOK, NEW c \in Callers, NEW s \in Slots, NEW h \in Hand,
         hand' = [hand EXCEPT ![c] = [hand[c] EXCEPT ![s] = h]]
  PROVE  /\ hand' \in [Callers -> [Slots -> Hand]] /\ hand'[c][s] = h
         /\ \A d \in Callers : d # c => hand'[d] = hand[d]
         /\ \A u \in Slots : u # s => hand'[c][u] = hand[c][u]
  BY DEF WorkerTypeOK

\* A change of the opt-in, of a plan or of the clock moves no run.
LEMMA RunsStay ==
  ASSUME WorkerIInv, WorkerTypeOK', OptInOK', UNCHANGED <<pathLocks, team, hand>>
  PROVE  WorkerIInv'
  BY DEF WorkerIInv, CallerOK, MineOK, ThreadsOK, LockingOK, WorkingOK, CollectedOK, Locked, Valid

LEMMA UserSteps ==
  ASSUME WorkerIInv, OptIn \/ Revoke \/ NextMinute \/ UNCHANGED workerVars
  PROVE  WorkerIInv'
<1>1. UNCHANGED <<begun, inGit, route, pathLocks, team, hand>> /\ minute' \in {minute, minute + 1}
  BY DEF OptIn, Revoke, NextMinute, workerVars, opting, world, outcomes
<1>2. /\ asked' \in BOOLEAN /\ consent' \in BOOLEAN
      /\ asked => asked'
      /\ consent' => asked'
  <2>1. consent \in BOOLEAN /\ asked \in BOOLEAN /\ (consent => asked)
    BY DEF WorkerIInv, WorkerTypeOK, OptInOK
  <2>2. CASE OptIn
    BY <2>2 DEF OptIn
  <2>3. CASE Revoke
    BY <2>1, <2>3 DEF Revoke
  <2>4. CASE NextMinute \/ UNCHANGED workerVars
    BY <2>1, <2>4 DEF NextMinute, workerVars, opting
  <2>5. QED
    BY <2>2, <2>3, <2>4
<1>3. WorkerTypeOK'
  BY <1>1, <1>2 DEF WorkerIInv, WorkerTypeOK
<1>4. OptInOK'
  BY <1>1, <1>2 DEF WorkerIInv, OptInOK, NeverUnasked
<1>5. QED
  BY <1>1, <1>3, <1>4, RunsStay

\* A plan to run JCode is made under an opt-in.
LEMMA PlanSteps ==
  ASSUME WorkerIInv, NEW c \in Callers,
         \/ RouteEnds(c)
         \/ \E category \in {"small", "large", "research"}, installed \in SUBSET {"aider", "jcode", "hermes"} :
              PlanRoute(c, category, installed)
  PROVE  WorkerIInv'
<1>1. WorkerTypeOK /\ OptInOK
  BY DEF WorkerIInv
<1>2. PICK r \in {"none", "refused", "jcode", "aider"} :
        route' = [route EXCEPT ![c] = r] /\ (r = "jcode" => consent)
  <2>1. CASE RouteEnds(c)
    BY <2>1 DEF RouteEnds
  <2>2. ASSUME NEW category \in {"small", "large", "research"},
               NEW installed \in SUBSET {"aider", "jcode", "hermes"}, PlanRoute(c, category, installed)
        PROVE  \E r \in {"none", "refused", "jcode", "aider"} :
                 route' = [route EXCEPT ![c] = r] /\ (r = "jcode" => consent)
    <3>1. PICK w : w = SelectedWorker(category, installed)
      OBVIOUS
    <3>2. route' = [route EXCEPT ![c] = IF MayExecute(w, installed) THEN w ELSE "refused"]
      BY <2>2, <3>1 DEF PlanRoute
    <3>3. CASE MayExecute(w, installed)
      <4>1. w \in {"jcode", "aider"} /\ (w = "jcode" => consent)
        BY <3>3 DEF MayExecute
      <4>2. QED
        BY <3>2, <3>3, <4>1
    <3>4. QED
      BY <3>2, <3>3
  <2>3. QED
    BY <2>1, <2>2
<1>3. UNCHANGED <<consent, asked, minute, inGit, begun, pathLocks, team, hand>>
  BY DEF RouteEnds, PlanRoute, opting, world
<1>4. WorkerTypeOK'
  BY <1>1, <1>2, <1>3 DEF WorkerTypeOK
<1>5. OptInOK'
  BY <1>1, <1>2, <1>3 DEF WorkerTypeOK, OptInOK, NeverUnasked
<1>6. QED
  BY <1>3, <1>4, <1>5, RunsStay

\* Nothing but the runs, the threads and the locks changes.
LEMMA FrameKeeps ==
  ASSUME WorkerIInv, UNCHANGED <<opting, world, outcomes>>, pathLocks' \subseteq Lock,
         team' \in [Callers -> Run], hand' \in [Callers -> [Slots -> Hand]],
         \A c \in Callers, s \in Slots : hand'[c][s].st = "running" => asked
  PROVE  WorkerTypeOK' /\ OptInOK'
<1>1. UNCHANGED <<consent, asked, minute, inGit, begun, route>>
  BY DEF opting, world, outcomes
<1>2. QED
  BY <1>1 DEF WorkerIInv, WorkerTypeOK, OptInOK, NeverUnasked

\* A step of a run that is still taking its locks.
LEMMA ScanSteps ==
  ASSUME WorkerIInv, NEW c \in Callers, ScanLocks(c) PROVE WorkerIInv'
<1>1. WorkerTypeOK /\ OptInOK /\ CallerOK(c)
  BY DEF WorkerIInv
<1>2. PICK t \in Run : t = team[c]
  BY <1>1 DEF WorkerTypeOK
<1>3. PICK n \in Nat \ {0} : n = t.next
  BY DEF Run
<1>4. /\ t.at = "locking" /\ n \in DOMAIN t.pkgs
      /\ UNCHANGED <<opting, world, outcomes, pathLocks, hand>>
  BY <1>2, <1>3 DEF ScanLocks, Run
<1>5. PICK u \in Run :
        /\ team' = [team EXCEPT ![c] = u]
        /\ u.pkgs = t.pkgs /\ u.mine = t.mine /\ u.seen = t.seen /\ u.stop = t.stop
        /\ \/ u.at = "locking" /\ u.next = n + 1 /\ (u.refused = t.refused) /\ t.pkgs[n].paths = {}
           \/ u.at = "locking" /\ u.next = n + 1 /\ u.refused
           \/ u.at = "scanned" /\ u.next = n /\ (u.refused = t.refused)
  <2>1. CASE t.pkgs[n].paths = {}
    <3>1. PICK u : u = [t EXCEPT !.next = n + 1]
      OBVIOUS
    <3>2. u \in Run /\ u.at = t.at /\ u.pkgs = t.pkgs /\ u.mine = t.mine /\ u.seen = t.seen
          /\ u.stop = t.stop /\ u.refused = t.refused /\ u.next = n + 1
      BY <3>1 DEF Run
    <3>3. team' = [team EXCEPT ![c] = u]
      BY <1>1, <1>2, <1>3, <2>1, <3>1 DEF ScanLocks, WorkerTypeOK
    <3>4. QED
      BY <1>4, <2>1, <3>2, <3>3
  <2>2. CASE t.pkgs[n].paths # {} /\ \E l \in pathLocks : Conflicts(l, n, t.pkgs[n].paths)
    <3>1. PICK v : v = [t EXCEPT !.next = n + 1]
      OBVIOUS
    <3>2. PICK u : u = [v EXCEPT !.refused = TRUE]
      OBVIOUS
    <3>3. u \in Run /\ u.at = t.at /\ u.pkgs = t.pkgs /\ u.mine = t.mine /\ u.seen = t.seen
          /\ u.stop = t.stop /\ u.refused /\ u.next = n + 1
      <4>1. v \in Run /\ v.at = t.at /\ v.pkgs = t.pkgs /\ v.mine = t.mine /\ v.seen = t.seen
            /\ v.stop = t.stop /\ v.next = n + 1
        BY <3>1 DEF Run
      <4>2. QED
        BY <3>2, <4>1 DEF Run
    <3>4. team' = [team EXCEPT ![c].next = team[c].next + 1, ![c].refused = TRUE]
      BY <1>2, <1>3, <2>2 DEF ScanLocks
    <3>5. team' = [team EXCEPT ![c] = u]
      <4>1. [team EXCEPT ![c].next = team[c].next + 1][c] = v
        BY <1>1, <1>2, <1>3, <3>1 DEF WorkerTypeOK
      <4>2. QED
        BY <1>1, <3>2, <3>4, <4>1 DEF WorkerTypeOK
    <3>6. QED
      BY <1>4, <3>3, <3>5
  <2>3. CASE t.pkgs[n].paths # {} /\ ~\E l \in pathLocks : Conflicts(l, n, t.pkgs[n].paths)
    <3>1. PICK u : u = [t EXCEPT !.at = "scanned"]
      OBVIOUS
    <3>2. u \in Run /\ u.at = "scanned" /\ u.pkgs = t.pkgs /\ u.mine = t.mine /\ u.seen = t.seen
          /\ u.stop = t.stop /\ u.refused = t.refused /\ u.next = n
      BY <1>3, <3>1 DEF Run, Place
    <3>3. team' = [team EXCEPT ![c] = u]
      BY <1>1, <1>2, <1>3, <2>3, <3>1 DEF ScanLocks, WorkerTypeOK
    <3>4. QED
      BY <1>4, <3>2, <3>3
  <2>4. QED
    BY <2>1, <2>2, <2>3
<1>6. /\ team' \in [Callers -> Run] /\ team'[c] = u
      /\ \A d \in Callers : d # c => team'[d] = team[d]
  BY <1>1, <1>5, RunMoves
<1>7. WorkerTypeOK' /\ OptInOK'
  BY <1>1, <1>4, <1>6, FrameKeeps DEF WorkerTypeOK, OptInOK, NeverUnasked
<1>8. Others(c)
  BY <1>4, <1>6 DEF Others
<1>9. CallerOK(c)'
  <2>1. MineOK(c)'
    BY <1>1, <1>2, <1>4, <1>5, <1>6 DEF CallerOK, MineOK
  <2>2. ThreadsOK(c)'
    BY <1>1, <1>2, <1>4, <1>5, <1>6 DEF CallerOK, ThreadsOK
  <2>3. \A s \in Slots : Locked(c, s) => Locked(c, s)'
    BY <1>2, <1>5, <1>6 DEF Locked
  <2>4. LockingOK(c)'
    <3>1. \A s \in DOMAIN u.pkgs : s \in Nat
      BY DEF Run
    <3>2. \A s : s \in DOMAIN u.pkgs => (Locked(c, s) => Locked(c, s)')
      BY <1>2, <1>5, <1>6 DEF Locked
    <3>3. \A s \in DOMAIN u.pkgs : s < n + 1 => s = n \/ s < n
      BY <3>1
    <3>4. QED
      BY <1>1, <1>2, <1>3, <1>4, <1>5, <1>6, <3>2, <3>3 DEF CallerOK, LockingOK
  <2>5. WorkingOK(c)' /\ CollectedOK(c)'
    BY <1>5, <1>6 DEF WorkingOK, CollectedOK
  <2>6. QED
    BY <2>1, <2>2, <2>4, <2>5 DEF CallerOK
<1>10. QED
  BY <1>4, <1>7, <1>8, <1>9, OneCaller

\* The lock of a package is written.
LEMMA WriteLockKeeps ==
  ASSUME WorkerIInv, NEW c \in Callers, WriteLock(c) PROVE WorkerIInv'
<1>1. WorkerTypeOK /\ OptInOK /\ CallerOK(c)
  BY DEF WorkerIInv
<1>2. PICK t \in Run : t = team[c]
  BY <1>1 DEF WorkerTypeOK
<1>3. PICK n \in Nat \ {0} : n = t.next
  BY DEF Run
<1>4. PICK l : l = [by |-> <<c, begun>>, slot |-> n, paths |-> t.pkgs[n].paths, since |-> minute]
  OBVIOUS
<1>5. /\ t.at = "scanned" /\ n \in DOMAIN t.pkgs /\ pathLocks' = pathLocks \cup {l}
      /\ UNCHANGED <<opting, world, outcomes, hand>>
  BY <1>1, <1>2, <1>3, <1>4 DEF WriteLock, CallerOK, LockingOK
<1>6. l \in Lock /\ l.by[1] = c /\ l.paths = t.pkgs[n].paths
  <2>1. t.pkgs[n] \in Packages
    BY <1>5 DEF Run
  <2>2. t.pkgs[n].paths \subseteq Seq(STRING)
    BY <2>1, WorkerAssumption
  <2>3. QED
    BY <1>1, <1>4, <2>2 DEF Lock, WorkerTypeOK
<1>7. PICK u \in Run :
        /\ team' = [team EXCEPT ![c] = u]
        /\ u.at = "locking" /\ u.next = n + 1 /\ u.mine = t.mine \cup {l}
        /\ u.pkgs = t.pkgs /\ u.seen = t.seen /\ u.stop = t.stop /\ u.refused = t.refused
  <2>1. PICK v : v = [t EXCEPT !.at = "locking"]
    OBVIOUS
  <2>2. PICK w : w = [v EXCEPT !.next = @ + 1]
    OBVIOUS
  <2>3. PICK u : u = [w EXCEPT !.mine = @ \cup {l}]
    OBVIOUS
  <2>4. /\ u \in Run /\ u.at = "locking" /\ u.next = n + 1 /\ u.mine = t.mine \cup {l}
        /\ u.pkgs = t.pkgs /\ u.seen = t.seen /\ u.stop = t.stop /\ u.refused = t.refused
    <3>1. v \in Run /\ v.at = "locking" /\ v.next = n /\ v.mine = t.mine
          /\ v.pkgs = t.pkgs /\ v.seen = t.seen /\ v.stop = t.stop /\ v.refused = t.refused
      BY <1>3, <2>1 DEF Run, Place
    <3>2. w \in Run /\ w.at = "locking" /\ w.next = n + 1 /\ w.mine = t.mine
          /\ w.pkgs = t.pkgs /\ w.seen = t.seen /\ w.stop = t.stop /\ w.refused = t.refused
      BY <2>2, <3>1 DEF Run
    <3>3. QED
      BY <1>6, <2>3, <3>2 DEF Run
  <2>5. team' = [team EXCEPT ![c].at = "locking", ![c].next = @ + 1, ![c].mine = @ \cup {l}]
    BY <1>2, <1>3, <1>4 DEF WriteLock
  <2>6. [team EXCEPT ![c].at = "locking"][c] = v
    BY <1>1, <1>2, <2>1 DEF WorkerTypeOK
  <2>7. [team EXCEPT ![c].at = "locking", ![c].next = @ + 1][c] = w
    BY <1>1, <2>2, <2>6 DEF WorkerTypeOK
  <2>8. team' = [team EXCEPT ![c] = u]
    BY <1>1, <2>3, <2>5, <2>7 DEF WorkerTypeOK
  <2>9. QED
    BY <2>4, <2>8
<1>8. /\ team' \in [Callers -> Run] /\ team'[c] = u
      /\ \A d \in Callers : d # c => team'[d] = team[d]
  BY <1>1, <1>7, RunMoves
<1>9. WorkerTypeOK' /\ OptInOK'
  BY <1>1, <1>5, <1>6, <1>8, FrameKeeps DEF WorkerTypeOK, OptInOK, NeverUnasked
<1>10. Others(c)
  BY <1>5, <1>8 DEF Others
<1>11. CallerOK(c)'
  <2>1. MineOK(c)'
    BY <1>1, <1>2, <1>5, <1>6, <1>7, <1>8 DEF CallerOK, MineOK
  <2>2. ThreadsOK(c)'
    BY <1>1, <1>2, <1>5, <1>7, <1>8 DEF CallerOK, ThreadsOK
  <2>3. \A s : Locked(c, s) => Locked(c, s)'
    BY <1>2, <1>7, <1>8 DEF Locked
  <2>4. Locked(c, n)'
    BY <1>6, <1>7, <1>8 DEF Locked
  <2>5. LockingOK(c)'
    <3>1. \A s \in DOMAIN u.pkgs : s < n + 1 => s = n \/ s < n
      BY DEF Run
    <3>2. QED
      BY <1>1, <1>2, <1>3, <1>5, <1>7, <1>8, <2>3, <2>4, <3>1 DEF CallerOK, LockingOK
  <2>6. WorkingOK(c)' /\ CollectedOK(c)'
    BY <1>7, <1>8 DEF WorkingOK, CollectedOK
  <2>7. QED
    BY <2>1, <2>2, <2>5, <2>6 DEF CallerOK
<1>12. QED
  BY <1>5, <1>9, <1>10, <1>11, OneCaller

\* The run is over, and its threads are gone.
LEMMA RunEnds ==
  ASSUME WorkerIInv, NEW c \in Callers, team' = [team EXCEPT ![c] = NoTeam],
         hand' \in [Callers -> [Slots -> Hand]],
         \A d \in Callers : d # c => hand'[d] = hand[d],
         \A s \in Slots : hand'[c][s].st \notin Live,
         pathLocks' = pathLocks \/ pathLocks' = pathLocks \ team[c].mine,
         UNCHANGED <<opting, world, outcomes>>
  PROVE  WorkerIInv'
<1>1. WorkerTypeOK /\ OptInOK
  BY DEF WorkerIInv
<1>2. /\ team' \in [Callers -> Run] /\ team'[c] = NoTeam
      /\ \A d \in Callers : d # c => team'[d] = team[d]
  BY <1>1, RunMoves, RunParts
<1>3. pathLocks' \subseteq Lock
  BY <1>1 DEF WorkerTypeOK
<1>4. \A d \in Callers, s \in Slots : hand'[d][s].st = "running" => asked
  BY <1>1 DEF OptInOK, NeverUnasked, Live
<1>5. WorkerTypeOK' /\ OptInOK'
  BY <1>2, <1>3, <1>4, FrameKeeps
<1>6. Others(c)
  BY <1>2 DEF Others
<1>7. CallerOK(c)'
  BY <1>2, RunParts DEF CallerOK, MineOK, ThreadsOK, LockingOK, WorkingOK, CollectedOK
<1>8. QED
  BY <1>5, <1>6, <1>7, OneCaller

\* Threads that have ended are gone.
LEMMA HandsLeave ==
  ASSUME WorkerTypeOK, NEW c \in Callers, Joined(c), hand' = HandsLeft(c)
  PROVE  /\ hand' \in [Callers -> [Slots -> Hand]]
         /\ \A d \in Callers : d # c => hand'[d] = hand[d]
         /\ \A s \in Slots : hand'[c][s].st \notin Live
<1>1. PICK hs : hs = [s \in Slots |-> IF hand[c][s].st \in Live THEN hand[c][s] ELSE NoHand]
  OBVIOUS
<1>2. hs \in [Slots -> Hand] /\ \A s \in Slots : hs[s] = NoHand
  BY <1>1, RunParts DEF Joined, WorkerTypeOK
<1>3. hand' = [hand EXCEPT ![c] = hs]
  BY <1>1 DEF HandsLeft
<1>4. QED
  BY <1>2, <1>3, RunParts DEF WorkerTypeOK

LEMMA EndSteps ==
  ASSUME WorkerIInv, NEW c \in Callers,
         LocksRefused(c) \/ Return(c) \/ Raise(c) \/ CallerDies(c) \/ AloneEnds(c)
  PROVE  WorkerIInv'
<1>1. WorkerTypeOK /\ CallerOK(c)
  BY DEF WorkerIInv
<1>2. CASE LocksRefused(c)
  <2>1. /\ team' = [team EXCEPT ![c] = NoTeam] /\ pathLocks' = pathLocks \ team[c].mine
        /\ UNCHANGED <<opting, world, outcomes, hand>> /\ team[c].at = "locking"
    BY <1>2 DEF LocksRefused
  <2>2. \A s \in Slots : hand'[c][s].st \notin Live
    BY <1>1, <2>1 DEF CallerOK, ThreadsOK
  <2>3. QED
    BY <1>1, <2>1, <2>2, RunEnds DEF WorkerTypeOK
<1>3. CASE Return(c) \/ Raise(c) \/ AloneEnds(c)
  <2>1. /\ team' = [team EXCEPT ![c] = NoTeam]
        /\ pathLocks' = pathLocks \/ pathLocks' = pathLocks \ team[c].mine
        /\ UNCHANGED <<opting, world, outcomes>>
        /\ hand' = HandsLeft(c) /\ Joined(c)
    BY <1>3 DEF Return, Raise, AloneEnds, Ended
  <2>2. /\ hand' \in [Callers -> [Slots -> Hand]]
        /\ \A d \in Callers : d # c => hand'[d] = hand[d]
        /\ \A s \in Slots : hand'[c][s].st \notin Live
    BY <1>1, <2>1, HandsLeave
  <2>3. QED
    BY <2>1, <2>2, RunEnds
<1>4. CASE CallerDies(c)
  <2>1. /\ team' = [team EXCEPT ![c] = NoTeam] /\ pathLocks' = pathLocks
        /\ UNCHANGED <<opting, world, outcomes>>
        /\ hand' = [hand EXCEPT ![c] = [s \in Slots |-> NoHand]]
    BY <1>4 DEF CallerDies
  <2>2. /\ hand' \in [Callers -> [Slots -> Hand]]
        /\ \A d \in Callers : d # c => hand'[d] = hand[d]
        /\ \A s \in Slots : hand'[c][s].st \notin Live
    BY <1>1, <2>1, RunParts DEF WorkerTypeOK
  <2>3. QED
    BY <2>1, <2>2, RunEnds
<1>5. QED
  BY <1>2, <1>3, <1>4

\* A parallel run begins, with nothing locked or collected.
LEMMA BeginKeeps ==
  ASSUME WorkerIInv, NEW c \in Callers, NEW pkgs \in Teams, BeginParallel(c, pkgs)
  PROVE  WorkerIInv'
<1>1. WorkerTypeOK /\ OptInOK /\ CallerOK(c)
  BY DEF WorkerIInv
<1>2. /\ team[c].at = "idle" /\ begun' = begun + 1
      /\ UNCHANGED <<consent, asked, minute, inGit, pathLocks, hand, route>>
  BY DEF BeginParallel, opting, world
<1>3. pkgs \in Seq(Packages)
  <2>1. \A p, q \in Packages : <<p>> \in Seq(Packages) /\ <<p, q>> \in Seq(Packages)
    OBVIOUS
  <2>2. CASE pkgs \in {<<p>> : p \in Packages}
    <3>1. PICK p \in Packages : pkgs = <<p>>
      BY <2>2
    <3>2. QED
      BY <2>1, <3>1
  <2>3. CASE pkgs \in {<<p, q>> : p \in Packages, q \in Packages}
    <3>1. PICK p \in Packages, q \in Packages : pkgs = <<p, q>>
      BY <2>3
    <3>2. QED
      BY <2>1, <3>1
  <2>4. QED
    <3>1. pkgs \in {<<p>> : p \in Packages} \cup {<<p, q>> : p \in Packages, q \in Packages}
      BY DEF Teams
    <3>2. QED
      BY <2>2, <2>3, <3>1
<1>4. PICK v : v = [NoTeam EXCEPT !.at = "locking"]
  OBVIOUS
<1>5. PICK t : t = [v EXCEPT !.pkgs = pkgs]
  OBVIOUS
<1>6. t \in Run /\ t.at = "locking" /\ t.mine = {} /\ t.seen = {} /\ t.next = 1 /\ t.pkgs = pkgs
  <2>1. v = [at |-> "locking", pkgs |-> <<>>, next |-> 1, mine |-> {}, refused |-> FALSE,
             stop |-> FALSE, seen |-> {}]
    BY <1>4 DEF NoTeam
  <2>2. t = [at |-> "locking", pkgs |-> pkgs, next |-> 1, mine |-> {}, refused |-> FALSE,
             stop |-> FALSE, seen |-> {}]
    BY <1>5, <2>1
  <2>3. QED
    BY <1>3, <2>2 DEF Run, Place
<1>7. team' = [team EXCEPT ![c] = t]
  BY <1>4, <1>5 DEF BeginParallel, NoTeam
<1>8. /\ team' \in [Callers -> Run] /\ team'[c] = t
      /\ \A d \in Callers : d # c => team'[d] = team[d]
  BY <1>1, <1>6, <1>7, RunMoves
<1>9. WorkerTypeOK'
  BY <1>1, <1>2, <1>8 DEF WorkerTypeOK
<1>10. OptInOK'
  BY <1>1, <1>2 DEF OptInOK, NeverUnasked
<1>11. Others(c)
  BY <1>2, <1>8 DEF Others
<1>12. CallerOK(c)'
  <2>1. MineOK(c)'
    BY <1>6, <1>8 DEF MineOK
  <2>2. ThreadsOK(c)'
    BY <1>1, <1>2 DEF CallerOK, ThreadsOK
  <2>3. \A s \in DOMAIN t.pkgs : ~(s < 1)
    BY <1>6 DEF Run
  <2>4. LockingOK(c)' /\ WorkingOK(c)' /\ CollectedOK(c)'
    BY <1>6, <1>8, <2>3 DEF LockingOK, WorkingOK, CollectedOK
  <2>5. QED
    BY <2>1, <2>2, <2>4 DEF CallerOK
<1>13. QED
  BY <1>2, <1>9, <1>10, <1>11, <1>12, OneCaller

\* Threads for every package, each of them locked.
LEMMA DispatchKeeps ==
  ASSUME WorkerIInv, NEW c \in Callers, Dispatch(c) PROVE WorkerIInv'
<1>1. WorkerTypeOK /\ OptInOK /\ CallerOK(c)
  BY DEF WorkerIInv
<1>2. PICK t \in Run : t = team[c]
  BY <1>1 DEF WorkerTypeOK
<1>3. /\ t.at = "locking" /\ t.next > Len(t.pkgs) /\ ~t.refused
      /\ UNCHANGED <<opting, world, outcomes, pathLocks>>
  BY <1>2 DEF Dispatch
<1>4. PICK u : u = [t EXCEPT !.at = "working"]
  OBVIOUS
<1>5. u \in Run /\ u.at = "working" /\ u.pkgs = t.pkgs /\ u.mine = t.mine /\ u.seen = t.seen
  BY <1>4 DEF Run, Place
<1>6. team' = [team EXCEPT ![c] = u]
  BY <1>1, <1>2, <1>4 DEF Dispatch, WorkerTypeOK
<1>7. /\ team' \in [Callers -> Run] /\ team'[c] = u
      /\ \A d \in Callers : d # c => team'[d] = team[d]
  BY <1>1, <1>5, <1>6, RunMoves
<1>8. PICK hs : hs = [s \in Slots |-> IF s \in DOMAIN t.pkgs THEN [NoHand EXCEPT !.st = "queued"] ELSE NoHand]
  OBVIOUS
<1>9. /\ hs \in [Slots -> Hand]
      /\ \A s \in Slots : hs[s].st # "running" /\ (hs[s].st \in Live => s \in DOMAIN t.pkgs)
  <2>1. PICK h : h = [NoHand EXCEPT !.st = "queued"]
    OBVIOUS
  <2>2. h \in Hand /\ h.st = "queued"
    BY <2>1 DEF NoHand, Hand, Live
  <2>3. QED
    BY <1>8, <2>1, <2>2, RunParts
<1>10. hand' = [hand EXCEPT ![c] = hs]
  BY <1>2, <1>8 DEF Dispatch
<1>11. /\ hand' \in [Callers -> [Slots -> Hand]] /\ hand'[c] = hs
       /\ \A d \in Callers : d # c => hand'[d] = hand[d]
  BY <1>1, <1>9, <1>10 DEF WorkerTypeOK
<1>12. WorkerTypeOK' /\ OptInOK'
  <2>1. \A d \in Callers, s \in Slots : hand'[d][s].st = "running" => asked
    BY <1>1, <1>9, <1>11 DEF OptInOK, NeverUnasked
  <2>2. QED
    BY <1>1, <1>3, <1>7, <1>11, <2>1, FrameKeeps DEF WorkerTypeOK
<1>13. Others(c)
  BY <1>7, <1>11 DEF Others
<1>14. CallerOK(c)'
  <2>1. MineOK(c)'
    BY <1>1, <1>2, <1>3, <1>5, <1>7 DEF CallerOK, MineOK
  <2>2. ThreadsOK(c)'
    BY <1>5, <1>7, <1>9, <1>11 DEF ThreadsOK
  <2>3. \A s \in DOMAIN t.pkgs : s < t.next
    BY <1>3 DEF Run
  <2>4. \A s : Locked(c, s) => Locked(c, s)'
    BY <1>2, <1>5, <1>7 DEF Locked
  <2>5. WorkingOK(c)'
    BY <1>1, <1>2, <1>3, <1>5, <1>7, <2>3, <2>4 DEF CallerOK, LockingOK, WorkingOK
  <2>6. LockingOK(c)' /\ CollectedOK(c)'
    BY <1>1, <1>2, <1>3, <1>5, <1>7 DEF CallerOK, LockingOK, CollectedOK
  <2>7. QED
    BY <2>1, <2>2, <2>5, <2>6 DEF CallerOK
<1>15. QED
  BY <1>3, <1>12, <1>13, <1>14, OneCaller

\* A thread that was not collected goes on, or ends.
LEMMA HandKeeps ==
  ASSUME WorkerIInv, NEW c \in Callers, NEW s \in Slots, NEW h \in Hand,
         hand[c][s].st \in Live, h.st = "running" => consent \/ hand[c][s].st = "running",
         hand' = [hand EXCEPT ![c] = [hand[c] EXCEPT ![s] = h]],
         UNCHANGED <<opting, world, outcomes, pathLocks, team>>
  PROVE  WorkerIInv'
<1>1. WorkerTypeOK /\ OptInOK /\ CallerOK(c)
  BY DEF WorkerIInv
<1>2. /\ hand' \in [Callers -> [Slots -> Hand]] /\ hand'[c][s] = h
      /\ \A d \in Callers : d # c => hand'[d] = hand[d]
      /\ \A u \in Slots : u # s => hand'[c][u] = hand[c][u]
  BY <1>1, HandMoves
<1>3. WorkerTypeOK' /\ OptInOK'
  <2>1. \A d \in Callers, u \in Slots : hand'[d][u].st = "running" => asked
    BY <1>1, <1>2 DEF OptInOK, NeverUnasked
  <2>2. QED
    BY <1>1, <1>2, <2>1, FrameKeeps DEF WorkerTypeOK
<1>4. Others(c)
  BY <1>2 DEF Others
<1>5. CallerOK(c)'
  <2>1. MineOK(c)' /\ LockingOK(c)' /\ WorkingOK(c)'
    BY <1>1 DEF CallerOK, MineOK, LockingOK, WorkingOK, Locked
  <2>2. ThreadsOK(c)'
    BY <1>1, <1>2 DEF CallerOK, ThreadsOK
  <2>3. CollectedOK(c)'
    <3>1. SUFFICES ASSUME team[c].at = "working", ~team[c].stop, NEW u \in team[c].seen
                   PROVE  (hand[c][u].st = "done" /\ hand[c][u].exit = "ok" /\ Valid(c, u))'
      BY DEF CollectedOK
    <3>2. hand[c][u].st = "done" /\ hand[c][u].exit = "ok" /\ Valid(c, u)
      BY <1>1, <3>1 DEF CallerOK, CollectedOK
    <3>3. u \in Slots /\ u # s
      BY <1>1, <3>2 DEF WorkerTypeOK, Run, Live
    <3>4. QED
      BY <1>2, <3>2, <3>3 DEF Valid
  <2>4. QED
    BY <2>1, <2>2, <2>3 DEF CallerOK
<1>6. QED
  BY <1>3, <1>4, <1>5, OneCaller

LEMMA HandSteps == ASSUME WorkerIInv, HandNext PROVE WorkerIInv'
<1>1. WorkerTypeOK
  BY DEF WorkerIInv
<1>2. ASSUME NEW c \in Callers, NEW s \in Slots, NEW how \in {"running", "raised", "broken"},
             hand[c][s].st \in Live, how = "running" => consent,
             hand' = [hand EXCEPT ![c][s].st = how],
             UNCHANGED <<opting, world, outcomes, pathLocks, team>>
      PROVE  WorkerIInv'
  <2>1. PICK k \in Hand : k = hand[c][s]
    BY <1>1 DEF WorkerTypeOK
  <2>2. PICK h : h = [k EXCEPT !.st = how]
    OBVIOUS
  <2>3. h \in Hand /\ h.st = how
    BY <2>2 DEF Hand, Live
  <2>4. hand' = [hand EXCEPT ![c] = [hand[c] EXCEPT ![s] = h]]
    BY <1>1, <1>2, <2>1, <2>2 DEF WorkerTypeOK
  <2>5. QED
    BY <1>2, <2>3, <2>4, HandKeeps
<1>3. ASSUME NEW c \in Callers, NEW s \in Slots, StartHand(c, s) PROVE WorkerIInv'
  <2>1. PICK how \in {"running", "raised"} : how = (IF consent THEN "running" ELSE "raised")
    OBVIOUS
  <2>2. hand' = [hand EXCEPT ![c][s].st = how]
    BY <1>3, <2>1 DEF StartHand
  <2>3. QED
    BY <1>2, <1>3, <2>1, <2>2 DEF StartHand, Live
<1>4. ASSUME NEW c \in Callers, NEW s \in Slots, NEW how \in {"raised", "broken"}, HandFails(c, s, how)
      PROVE  WorkerIInv'
  BY <1>2, <1>4 DEF HandFails, Live
<1>5. ASSUME NEW c \in Callers, NEW s \in Slots, NEW touched \in OneOrNone(Files),
             NEW edited \in OneOrNone(Files), NEW exit \in {"ok", "failed", "untested"},
             FinishHand(c, s, touched, edited, exit)
      PROVE  WorkerIInv'
  <2>1. touched \subseteq Files /\ edited \subseteq Files
    BY DEF OneOrNone
  <2>2. Shown(touched, edited) \subseteq Files
    BY <2>1 DEF Shown
  <2>3. PICK h : h = [st |-> "done", touched |-> touched, shown |-> Shown(touched, edited), exit |-> exit]
    OBVIOUS
  <2>4. h \in Hand /\ h.st = "done"
    BY <2>1, <2>2, <2>3 DEF Hand
  <2>5. hand' = [hand EXCEPT ![c] = [hand[c] EXCEPT ![s] = h]]
    BY <1>5, <2>3 DEF FinishHand
  <2>6. QED
    BY <1>5, <2>4, <2>5, HandKeeps DEF FinishHand, Live
<1>6. QED
  BY <1>3, <1>4, <1>5 DEF HandNext

\* A result is collected; without a stop it is good.
LEMMA CollectKeeps ==
  ASSUME WorkerIInv, NEW c \in Callers, NEW s \in Slots, NEW halted \in BOOLEAN, Collect(c, s, halted)
  PROVE  WorkerIInv'
<1>1. WorkerTypeOK /\ OptInOK /\ CallerOK(c)
  BY DEF WorkerIInv
<1>2. PICK t \in Run : t = team[c]
  BY <1>1 DEF WorkerTypeOK
<1>3. /\ t.at = "working" /\ ~t.stop /\ hand[c][s].st \in {"done", "raised", "broken"}
      /\ UNCHANGED <<opting, world, outcomes, pathLocks, hand>>
  BY <1>2 DEF Collect
<1>4. PICK stop \in BOOLEAN : stop = (hand[c][s].st # "broken" /\ CallsForStop(c, s, halted))
  OBVIOUS
<1>5. PICK at : at = (IF hand[c][s].st = "broken" THEN "leaving" ELSE t.at)
  OBVIOUS
<1>6. PICK v : v = [t EXCEPT !.seen = t.seen \cup {s}]
  OBVIOUS
<1>7. PICK w : w = [v EXCEPT !.stop = stop]
  OBVIOUS
<1>8. PICK u : u = [w EXCEPT !.at = at]
  OBVIOUS
<1>9. u \in Run /\ u.at = at /\ u.stop = stop /\ u.pkgs = t.pkgs /\ u.mine = t.mine /\ u.seen = t.seen \cup {s}
  <2>1. v \in Run /\ v.at = t.at /\ v.pkgs = t.pkgs /\ v.mine = t.mine /\ v.seen = t.seen \cup {s}
    BY <1>6 DEF Run
  <2>2. w \in Run /\ w.at = t.at /\ w.stop = stop /\ w.pkgs = t.pkgs /\ w.mine = t.mine
        /\ w.seen = t.seen \cup {s}
    BY <1>7, <2>1 DEF Run
  <2>3. QED
    BY <1>3, <1>5, <1>8, <2>2 DEF Run, Place
<1>10. team' = [team EXCEPT ![c] = u]
  <2>1. team' = [team EXCEPT ![c].seen = @ \cup {s},
                             ![c].stop = hand[c][s].st # "broken" /\ CallsForStop(c, s, halted),
                             ![c].at = IF hand[c][s].st = "broken" THEN "leaving" ELSE @]
    BY Zenon DEF Collect
  <2>2. [team EXCEPT ![c].seen = @ \cup {s}][c] = v
    BY <1>1, <1>2, <1>6 DEF WorkerTypeOK
  <2>3. [team EXCEPT ![c].seen = @ \cup {s},
                     ![c].stop = hand[c][s].st # "broken" /\ CallsForStop(c, s, halted)][c] = w
    BY <1>1, <1>4, <1>7, <2>2 DEF WorkerTypeOK
  <2>4. w.at = t.at
    BY <1>6, <1>7 DEF Run
  <2>5. QED
    BY <1>1, <1>5, <1>8, <2>1, <2>3, <2>4 DEF WorkerTypeOK
<1>11. /\ team' \in [Callers -> Run] /\ team'[c] = u
       /\ \A d \in Callers : d # c => team'[d] = team[d]
  BY <1>1, <1>9, <1>10, RunMoves
<1>12. WorkerTypeOK' /\ OptInOK'
  BY <1>1, <1>3, <1>11, FrameKeeps DEF WorkerTypeOK, OptInOK, NeverUnasked
<1>13. Others(c)
  BY <1>3, <1>11 DEF Others
<1>14. at \in {"working", "leaving"}
  BY <1>3, <1>5
<1>15. CallerOK(c)'
  <2>1. MineOK(c)'
    BY <1>1, <1>2, <1>3, <1>9, <1>11 DEF CallerOK, MineOK
  <2>2. ThreadsOK(c)'
    BY <1>1, <1>2, <1>3, <1>9, <1>11, <1>14 DEF CallerOK, ThreadsOK
  <2>3. \A x : Locked(c, x) => Locked(c, x)'
    BY <1>2, <1>9, <1>11 DEF Locked
  <2>4. WorkingOK(c)' /\ LockingOK(c)'
    BY <1>1, <1>2, <1>3, <1>9, <1>11, <1>14, <2>3 DEF CallerOK, WorkingOK, LockingOK
  <2>5. \A x : Valid(c, x) => Valid(c, x)'
    BY <1>2, <1>3, <1>9, <1>11 DEF Valid
  <2>6. CollectedOK(c)'
    <3>1. at = "working" => hand[c][s].st # "broken"
      BY <1>5
    <3>2. at = "working" /\ ~stop => hand[c][s].st = "done" /\ hand[c][s].exit = "ok" /\ Valid(c, s)
      BY <1>3, <1>4, <3>1 DEF CallsForStop
    <3>3. QED
      BY <1>1, <1>2, <1>3, <1>9, <1>11, <2>5, <3>2 DEF CallerOK, CollectedOK
  <2>7. QED
    BY <2>1, <2>2, <2>4, <2>6 DEF CallerOK
<1>16. QED
  BY <1>3, <1>12, <1>13, <1>15, OneCaller

LEMMA TimeoutKeeps ==
  ASSUME WorkerIInv, NEW c \in Callers, GlobalTimeout(c) PROVE WorkerIInv'
<1>1. WorkerTypeOK /\ OptInOK /\ CallerOK(c)
  BY DEF WorkerIInv
<1>2. PICK t \in Run : t = team[c]
  BY <1>1 DEF WorkerTypeOK
<1>3. t.at = "working" /\ UNCHANGED <<opting, world, outcomes, pathLocks, hand>>
  BY <1>2 DEF GlobalTimeout
<1>4. PICK u : u = [t EXCEPT !.stop = TRUE]
  OBVIOUS
<1>5. u \in Run /\ u.at = t.at /\ u.stop /\ u.pkgs = t.pkgs /\ u.mine = t.mine /\ u.seen = t.seen
  BY <1>4 DEF Run
<1>6. team' = [team EXCEPT ![c] = u]
  BY <1>1, <1>2, <1>4 DEF GlobalTimeout, WorkerTypeOK
<1>7. /\ team' \in [Callers -> Run] /\ team'[c] = u
      /\ \A d \in Callers : d # c => team'[d] = team[d]
  BY <1>1, <1>5, <1>6, RunMoves
<1>8. WorkerTypeOK' /\ OptInOK'
  BY <1>1, <1>3, <1>7, FrameKeeps DEF WorkerTypeOK, OptInOK, NeverUnasked
<1>9. Others(c)
  BY <1>3, <1>7 DEF Others
<1>10. CallerOK(c)'
  <2>1. \A x : Locked(c, x) => Locked(c, x)'
    BY <1>2, <1>5, <1>7 DEF Locked
  <2>2. MineOK(c)' /\ ThreadsOK(c)' /\ WorkingOK(c)'
    BY <1>1, <1>2, <1>3, <1>5, <1>7, <2>1 DEF CallerOK, MineOK, ThreadsOK, WorkingOK
  <2>3. LockingOK(c)' /\ CollectedOK(c)'
    BY <1>3, <1>5, <1>7 DEF LockingOK, CollectedOK
  <2>4. QED
    BY <2>2, <2>3 DEF CallerOK
<1>11. QED
  BY <1>3, <1>8, <1>9, <1>10, OneCaller

\* A worker that runs alone.  A plan that opts in again was made under an
\* opt-in.
LEMMA AloneKeeps ==
  ASSUME WorkerIInv, NEW c \in Callers, NEW pkg \in Packages, JcodeRun(c, pkg) \/ ExecuteRoute(c, pkg)
  PROVE  WorkerIInv'
<1>1. WorkerTypeOK /\ OptInOK /\ CallerOK(c)
  BY DEF WorkerIInv
<1>2. /\ Alone(c, pkg) /\ asked' = asked /\ consent' \in BOOLEAN
      /\ consent' => asked
      /\ route' = route \/ route' = [route EXCEPT ![c] = "none"]
  <2>1. CASE JcodeRun(c, pkg)
    BY <1>1, <2>1 DEF JcodeRun, opting, WorkerTypeOK, OptInOK
  <2>2. CASE ExecuteRoute(c, pkg)
    BY <1>1, <2>2 DEF ExecuteRoute, OptInOK
  <2>3. QED
    BY <2>1, <2>2
<1>3. /\ team[c].at = "idle" /\ begun' = begun + 1
      /\ UNCHANGED <<minute, inGit, pathLocks>>
  BY <1>2 DEF Alone, world
<1>4. PICK u : u = [NoTeam EXCEPT !.at = "alone"]
  OBVIOUS
<1>5. PICK v : v = [u EXCEPT !.pkgs = <<pkg>>]
  OBVIOUS
<1>6. PICK t : t = [v EXCEPT !.seen = {1}]
  OBVIOUS
<1>7. t \in Run /\ t.at = "alone" /\ t.mine = {} /\ 1 \in DOMAIN t.pkgs
  <2>1. PICK q \in Seq(Packages) : q = <<pkg>> /\ 1 \in DOMAIN q
    <3>1. <<pkg>> \in Seq(Packages) /\ 1 \in DOMAIN <<pkg>>
      OBVIOUS
    <3>2. QED
      BY <3>1
  <2>2. u \in Run /\ u.at = "alone" /\ u.mine = {}
    BY <1>4, RunParts DEF Run, Place
  <2>3. v \in Run /\ v.at = "alone" /\ v.mine = {} /\ v.pkgs = q
    BY <1>5, <2>1, <2>2 DEF Run
  <2>4. QED
    BY <1>6, <2>1, <2>3 DEF Run, Slots
<1>8. team' = [team EXCEPT ![c] = t]
  BY <1>2, <1>4, <1>5, <1>6, Zenon DEF Alone
<1>9. /\ team' \in [Callers -> Run] /\ team'[c] = t
      /\ \A d \in Callers : d # c => team'[d] = team[d]
  BY <1>1, <1>7, <1>8, RunMoves
<1>10. PICK hs : hs = [s \in Slots |-> IF s = 1 THEN [NoHand EXCEPT !.st = "queued"] ELSE NoHand]
  OBVIOUS
<1>11. hs \in [Slots -> Hand] /\ \A s \in Slots : hs[s].st # "running" /\ (hs[s].st \in Live => s = 1)
  <2>1. PICK h : h = [NoHand EXCEPT !.st = "queued"]
    OBVIOUS
  <2>2. h \in Hand /\ h.st = "queued"
    BY <2>1 DEF NoHand, Hand, Live
  <2>3. QED
    BY <1>10, <2>1, <2>2, RunParts
<1>12. hand' = [hand EXCEPT ![c] = hs]
  BY <1>2, <1>10 DEF Alone
<1>13. /\ hand' \in [Callers -> [Slots -> Hand]] /\ hand'[c] = hs
       /\ \A d \in Callers : d # c => hand'[d] = hand[d]
  BY <1>1, <1>11, <1>12 DEF WorkerTypeOK
<1>14. WorkerTypeOK'
  BY <1>1, <1>2, <1>3, <1>9, <1>13 DEF WorkerTypeOK
<1>15. OptInOK'
  <2>1. \A d \in Callers : route'[d] = "jcode" => asked
    BY <1>1, <1>2 DEF WorkerTypeOK, OptInOK
  <2>2. \A d \in Callers, s \in Slots : hand'[d][s].st = "running" => asked
    BY <1>1, <1>11, <1>13 DEF OptInOK, NeverUnasked
  <2>3. QED
    BY <1>2, <2>1, <2>2 DEF OptInOK, NeverUnasked
<1>16. Others(c)
  BY <1>9, <1>13 DEF Others
<1>17. CallerOK(c)'
  BY <1>7, <1>9, <1>11, <1>13
     DEF CallerOK, MineOK, ThreadsOK, LockingOK, WorkingOK, CollectedOK
<1>18. QED
  BY <1>3, <1>14, <1>15, <1>16, <1>17, OneCaller

LEMMA WorkerStep == WorkerIInv /\ [TeamNext \/ RouteNext]_workerVars => WorkerIInv'
<1> SUFFICES ASSUME WorkerIInv, [TeamNext \/ RouteNext]_workerVars PROVE WorkerIInv'
  OBVIOUS
<1>1. CASE TeamNext
  BY <1>1, UserSteps, HandSteps, BeginKeeps, ScanSteps, WriteLockKeeps, EndSteps, DispatchKeeps,
     CollectKeeps, TimeoutKeeps DEF TeamNext
<1>2. CASE RouteNext
  BY <1>2, UserSteps, HandSteps, AloneKeeps, PlanSteps, EndSteps DEF RouteNext
<1>3. QED
  BY <1>1, <1>2, UserSteps

LEMMA WorkerInvariant == WorkerSpec => []WorkerIInv
  BY WorkerStart, WorkerStep, PTL DEF WorkerSpec

\* The variables of runs and routes keep their types, with every combination
\* of parallel runs, single workers and routes (jcode.py, worker_router.py).
THEOREM WorkerTypeCorrect == WorkerSpec => []WorkerTypeOK
<1>1. WorkerIInv => WorkerTypeOK
  BY DEF WorkerIInv
<1>2. QED
  BY <1>1, WorkerInvariant, PTL

\* JCode never runs where the user has not once opted in, though a route opts
\* in by itself (execute_jcode_in_sandbox, execute_route).
THEOREM WorkerNeverUnasked == WorkerSpec => []NeverUnasked
<1>1. WorkerIInv => NeverUnasked
  BY DEF WorkerIInv, OptInOK
<1>2. QED
  BY <1>1, WorkerInvariant, PTL

\* Threads work under locks their run has not given back, and a run without a
\* stop condition has collected every package, each of them good
\* (run_parallel_jcode), whatever overlaps, dies or times out.
THEOREM WorkerRunsEndSettled == WorkerSpec => []RunsEndSettled
<1>1. ASSUME WorkerIInv PROVE RunsEndSettled
  <2>1. SUFFICES ASSUME NEW c \in Callers
                 PROVE  /\ \A s \in Slots : hand[c][s].st \in Live =>
                             /\ s \in DOMAIN team[c].pkgs
                             /\ team[c].at # "alone" /\ team[c].pkgs[s].paths # {} =>
                                  \E l \in pathLocks \cap team[c].mine : l.paths = team[c].pkgs[s].paths
                        /\ Ended(c) /\ ~team[c].stop => \A s \in DOMAIN team[c].pkgs :
                             hand[c][s].st = "done" /\ hand[c][s].exit = "ok" /\ Valid(c, s)
    BY DEF RunsEndSettled
  <2>2. CallerOK(c)
    BY <1>1 DEF WorkerIInv
  <2>3. ASSUME NEW s \in Slots, hand[c][s].st \in Live
        PROVE  /\ s \in DOMAIN team[c].pkgs
               /\ team[c].at # "alone" /\ team[c].pkgs[s].paths # {} =>
                    \E l \in pathLocks \cap team[c].mine : l.paths = team[c].pkgs[s].paths
    BY <2>2, <2>3 DEF CallerOK, MineOK, ThreadsOK, WorkingOK, Locked
  <2>4. ASSUME Ended(c), ~team[c].stop, NEW s \in DOMAIN team[c].pkgs
        PROVE  hand[c][s].st = "done" /\ hand[c][s].exit = "ok" /\ Valid(c, s)
    BY <2>2, <2>4 DEF CallerOK, CollectedOK, Ended, Uncollected
  <2>5. QED
    BY <2>3, <2>4
<1>2. QED
  BY <1>1, WorkerInvariant, PTL

===============================================================================
