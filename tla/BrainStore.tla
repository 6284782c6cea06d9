------------------------------ MODULE BrainStore ------------------------------
(***************************************************************************)
(* The brain directory .agent, and those that replace or recreate it       *)
(* (service.py): backups, restores, schema migrations, and the service     *)
(* loop, whose lock and heartbeat are files of the very directory.         *)
(* A directory keeps its identity, and the locks on its files, when it is  *)
(* moved.                                                                  *)
(***************************************************************************)
EXTENDS Naturals, FiniteSets

CONSTANTS
  Keeping,   \* processes that back up, restore, migrate or serve
  NoDir,
  MaxDirs    \* bound on directories made

ASSUME StoreAssumption ==
  /\ MaxDirs \in Nat
  /\ NoDir \notin [id : Nat, brain : [whole : BOOLEAN, schema : {1, 2}], inside : BOOLEAN]

VARIABLES
  agent,     \* the directory at .agent, or NoDir
  aside,     \* the directories .agent_old_*
  archives,  \* what the backups hold
  made,      \* directories made so far
  keeper,    \* process -> what it is doing
  serving    \* process -> the directory whose service lock it holds, 0 for none

storeVars == <<agent, aside, archives, made, keeper, serving>>

-----------------------------------------------------------------------------

\* A brain: schema is what schema_version.json says; one without its PROJECT.md
\* is not whole.  The manifest a migration writes is read by nobody.
First  == [whole |-> TRUE, schema |-> 1]
Stub   == [whole |-> FALSE, schema |-> 1]

\* inside: a whole brain was moved into the directory, not to its place.
Dir(n, brain) == [id |-> n, brain |-> brain, inside |-> FALSE]

Resting == [at |-> "idle", brain |-> Stub, old |-> 0]

At(p, place) == keeper' = [keeper EXCEPT ![p].at = place]
Done(p)      == keeper' = [keeper EXCEPT ![p] = Resting]

StoreInit ==
  /\ agent = Dir(1, First)
  /\ aside = {}
  /\ archives = {}
  /\ made = 1
  /\ keeper = [p \in Keeping |-> Resting]
  /\ serving = [p \in Keeping |-> 0]

\* Whoever writes a file of tasks/ makes the directories on its way, .agent
\* among them.
Recreated ==
  IF agent # NoDir THEN UNCHANGED <<agent, made>>
  ELSE /\ made < MaxDirs
       /\ made' = made + 1
       /\ agent' = Dir(made + 1, Stub)

-----------------------------------------------------------------------------
(* The service.                                                            *)

\* service_run: the lock is not waited for.
Serve(p) ==
  /\ keeper[p].at = "idle" /\ serving[p] = 0
  /\ agent # NoDir => agent.id \notin {serving[q] : q \in Keeping}
  /\ Recreated
  /\ serving' = [serving EXCEPT ![p] = agent'.id]
  /\ UNCHANGED <<aside, archives, keeper>>

\* Heartbeats, logs and tickets of a cycle, in whichever .agent there is.
ServiceCycle(p) ==
  /\ serving[p] # 0 /\ agent = NoDir
  /\ Recreated
  /\ UNCHANGED <<aside, archives, keeper, serving>>

\* After its cycles, at an emergency stop, or because it died.
ServiceEnds(p) ==
  /\ serving[p] # 0
  /\ serving' = [serving EXCEPT ![p] = 0]
  /\ UNCHANGED <<agent, aside, archives, made, keeper>>

-----------------------------------------------------------------------------
(* Backup and restore.                                                     *)

Backup(p) ==
  /\ keeper[p].at = "idle" /\ serving[p] = 0 /\ agent # NoDir
  /\ archives' = archives \cup {agent.brain}
  /\ UNCHANGED <<agent, aside, made, keeper, serving>>

\* The archive is unpacked beside the brain and must hold its PROJECT.md; what
\* it does not is cleaned up, and nothing has changed.
StartRestore(p, brain) ==
  /\ keeper[p].at = "idle" /\ serving[p] = 0
  /\ brain \in archives /\ brain.whole
  /\ keeper' = [keeper EXCEPT ![p] = [Resting EXCEPT !.at = "unpacked", !.brain = brain]]
  /\ UNCHANGED <<agent, aside, archives, made, serving>>

MoveAside(p) ==
  /\ keeper[p].at = "unpacked"
  /\ IF agent = NoDir THEN At(p, "aside") /\ UNCHANGED aside
     ELSE /\ keeper' = [keeper EXCEPT ![p].at = "aside", ![p].old = agent.id]
          /\ aside' = aside \cup {agent}
  /\ agent' = NoDir
  /\ UNCHANGED <<archives, made, serving>>

\* Into its place, or into a directory that is there by now, unless that holds
\* one already.
MoveIn(p) ==
  /\ keeper[p].at = "aside"
  /\ IF agent = NoDir
       THEN made < MaxDirs /\ made' = made + 1 /\ agent' = Dir(made + 1, keeper[p].brain)
       ELSE ~agent.inside /\ agent' = [agent EXCEPT !.inside = TRUE] /\ UNCHANGED made
  /\ At(p, "in")
  /\ UNCHANGED <<aside, archives, serving>>

\* A move fails and the previous brain is put back, if its place is free.
MoveFails(p) ==
  /\ keeper[p].at \in {"unpacked", "aside"}
  /\ LET mine == {d \in aside : d.id = keeper[p].old} IN
     IF agent = NoDir /\ mine # {}
       THEN /\ agent' = CHOOSE d \in mine : TRUE
            /\ aside' = aside \ mine
       ELSE UNCHANGED <<agent, aside>>
  /\ Done(p)
  /\ UNCHANGED <<archives, made, serving>>

\* Mutant: the previous brain is deleted before the new one is in place.
DropOldEarly(p) ==
  /\ keeper[p].at \in {"aside", "in"}
  /\ aside' = {d \in aside : d.id # keeper[p].old}
  /\ IF keeper[p].at = "in" THEN Done(p) ELSE UNCHANGED keeper
  /\ UNCHANGED <<agent, archives, made, serving>>

DropOld(p) ==
  /\ keeper[p].at = "in"
  /\ aside' = {d \in aside : d.id # keeper[p].old}
  /\ Done(p)
  /\ UNCHANGED <<agent, archives, made, serving>>

-----------------------------------------------------------------------------
(* Migration.                                                              *)

\* migrate_brain backs up first.
StartMigration(p) ==
  /\ keeper[p].at = "idle" /\ serving[p] = 0
  /\ agent # NoDir /\ agent.brain.schema = 1
  /\ archives' = archives \cup {agent.brain}
  /\ keeper' = [keeper EXCEPT ![p] = [Resting EXCEPT !.at = "migrating", !.brain = agent.brain]]
  /\ UNCHANGED <<agent, aside, made, serving>>

ApplyMigration(p) ==
  /\ keeper[p].at = "migrating"
  /\ agent # NoDir /\ agent.brain.whole
  /\ At(p, "applied")
  /\ UNCHANGED <<agent, aside, archives, made, serving>>

SaveVersion(p) ==
  /\ keeper[p].at = "applied"
  /\ IF agent = NoDir
       THEN made < MaxDirs /\ made' = made + 1 /\ agent' = Dir(made + 1, [Stub EXCEPT !.schema = 2])
       ELSE agent' = [agent EXCEPT !.brain.schema = 2] /\ UNCHANGED made
  /\ Done(p)
  /\ UNCHANGED <<aside, archives, serving>>

\* Any failure restores the backup, if that is a whole brain.
MigrationFails(p) ==
  /\ keeper[p].at \in {"migrating", "applied"}
  /\ IF keeper[p].brain.whole THEN At(p, "unpacked") ELSE Done(p)
  /\ UNCHANGED <<agent, aside, archives, made, serving>>

\* The process dies; what it had unpacked stays where nobody looks.
KeeperDies(p) ==
  /\ keeper[p].at # "idle"
  /\ Done(p)
  /\ UNCHANGED <<agent, aside, archives, made, serving>>

StoreNext ==
  \E p \in Keeping :
    \/ Serve(p) \/ ServiceCycle(p) \/ ServiceEnds(p)
    \/ Backup(p)
    \/ \E brain \in archives : StartRestore(p, brain)
    \/ MoveAside(p) \/ MoveIn(p) \/ MoveFails(p) \/ DropOld(p)
    \/ StartMigration(p) \/ ApplyMigration(p) \/ SaveVersion(p) \/ MigrationFails(p)
    \/ KeeperDies(p)

StoreSpec == StoreInit /\ [][StoreNext]_storeVars

-----------------------------------------------------------------------------
(* Properties.                                                             *)

\* Whatever restores, migrations and services do to each other, and wherever
\* one of them dies, a whole brain is on disk: in its place, set aside, or
\* moved into a directory that somebody recreated ("Transactional atomic swap
\* with complete rollback guarantee").
BrainIsKept ==
  LET Holds(d) == d.brain.whole \/ d.inside IN
  (agent # NoDir /\ Holds(agent)) \/ \E d \in aside : Holds(d)
===============================================================================
