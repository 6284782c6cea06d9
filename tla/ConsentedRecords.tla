---------------------------- MODULE ConsentedRecords ----------------------------
(***************************************************************************)
(* Records a user has to consent to: the tasks scheduled for Hermes        *)
(* (hermes.py) and the library of reusable lessons (learning.py).          *)
(*                                                                         *)
(* The schedule is loaded and rewritten without a lock, so a save may undo *)
(* what came between; its approval is consumed before.  The library is     *)
(* changed under an exclusive lock; an export consumes its approval before *)
(* it takes the lock, a deletion while it holds it.                        *)
(***************************************************************************)
EXTENDS ApprovalGate

CONSTANTS
  Jobs,         \* scheduled tasks (hermes-sched-<uuid>)
  Lessons,      \* private lessons of the project, by fingerprint
  Shared,       \* records of the library (shared-<uuid>, hermes-import-<uuid>)
  MaxFailures   \* bound on failure_count

ASSUME FailureAssumption == MaxFailures \in Nat
ASSUME RecordAssumption  ==
  /\ None \notin Lessons \cup Requests /\ "hermes" \notin Lessons
  /\ Jobs \cap Shared = {}
  /\ PlainTargets(Lessons)

VARIABLES
  schedule,     \* job -> its entry in the schedule file
  library,      \* record -> the lesson it came from, or "hermes"
  keeper,       \* the process that holds the library's lock
  errand,       \* process -> the call it is in
  consent       \* history: job or record -> the approval that stands for it

recordVars == <<schedule, library, keeper, errand, consent>>

JobEntry == [enabled : BOOLEAN, failures : 0 .. MaxFailures]
Schedule == [Jobs -> JobEntry \cup {None}]
Errands  == [op : {"add", "save", "export", "delete"},
             on : Jobs \cup Lessons \cup Shared \cup {None}, by : Requests \cup {None},
             copy : Schedule \cup {None}]

RecordTypeOK ==
  /\ schedule \in Schedule
  /\ library  \in [Shared -> Lessons \cup {"hermes", None}]
  /\ keeper   \in Procs \cup {NoProc}
  /\ errand   \in [Procs -> Errands \cup {Idle}]
  /\ consent  \in [Jobs \cup Shared -> Requests \cup {None}]

RecordInit ==
  /\ schedule = [j \in Jobs |-> None]
  /\ library  = [x \in Shared |-> None]
  /\ keeper   = NoProc
  /\ errand   = [p \in Procs |-> Idle]
  /\ consent  = [x \in Jobs \cup Shared |-> None]

-----------------------------------------------------------------------------

ScheduleTarget == "hermes:summary"

OnErrand(p, op) == errand[p] # Idle /\ errand[p].op = op
Sent(p, op, on, r) ==
  errand' = [errand EXCEPT ![p] = [op |-> op, on |-> on, by |-> r, copy |-> None]]
ToSaveSchedule(p, copy) ==
  errand' = [errand EXCEPT ![p] = [op |-> "save", on |-> None, by |-> None, copy |-> copy]]
Home(p) == errand' = [errand EXCEPT ![p] = Idle]

\* Mutant: the approval is checked and not consumed.
PayScheduleUnspent(p, r, j) ==
  /\ errand[p] = Idle /\ consent[j] = None
  /\ MayConsume(p, r, ClientScope("hermes_schedule", ScheduleTarget))
  /\ consent' = [consent EXCEPT ![j] = r]
  /\ Sent(p, "add", j, r)
  /\ UNCHANGED <<schedule, library, keeper, vars>>

\* hermes_schedule_task: the approval of the task's type is consumed first.
PaySchedule(p, r, j) ==
  /\ errand[p] = Idle /\ consent[j] = None
  /\ Spend(p, r, "hermes_schedule", ScheduleTarget)
  /\ consent' = [consent EXCEPT ![j] = r]
  /\ Sent(p, "add", j, r)
  /\ UNCHANGED <<schedule, library, keeper>>

LoadAdd(p) ==
  /\ OnErrand(p, "add")
  /\ ToSaveSchedule(p, [schedule EXCEPT ![errand[p].on] = [enabled |-> TRUE, failures |-> 0]])
  /\ UNCHANGED <<schedule, library, keeper, consent, vars>>

\* hermes_unschedule_task: the entry stays, disabled.
LoadUnschedule(p, j) ==
  /\ errand[p] = Idle /\ schedule[j] # None
  /\ ToSaveSchedule(p, [schedule EXCEPT ![j].enabled = FALSE])
  /\ UNCHANGED <<schedule, library, keeper, consent, vars>>

\* hermes_run_due_tasks: some enabled tasks are due, and each fails, because
\* execute_hermes_task refuses to run anything.
LoadDue(p, due) ==
  /\ errand[p] = Idle /\ due # {}
  /\ \A j \in due : schedule[j] # None /\ schedule[j].enabled /\ schedule[j].failures < MaxFailures
  /\ ToSaveSchedule(p, [j \in Jobs |-> IF j \in due THEN [schedule[j] EXCEPT !.failures = @ + 1]
                                       ELSE schedule[j]])
  /\ UNCHANGED <<schedule, library, keeper, consent, vars>>

\* _save_schedule
SaveSchedule(p) ==
  /\ OnErrand(p, "save")
  /\ schedule' = errand[p].copy
  /\ Home(p)
  /\ UNCHANGED <<library, keeper, consent, vars>>

\* promote_reusable_lesson: the approval, then the library under its lock; a
\* lesson that is there already is refused.
PayExport(p, r, l) ==
  /\ errand[p] = Idle
  /\ Spend(p, r, "learning_export", l)
  /\ Sent(p, "export", l, r)
  /\ UNCHANGED <<schedule, library, keeper, consent>>

ExportLesson(p, x) ==
  /\ OnErrand(p, "export") /\ keeper = NoProc
  /\ consent[x] = None
  /\ \A y \in Shared : library[y] # errand[p].on
  /\ library' = [library EXCEPT ![x] = errand[p].on]
  /\ consent' = [consent EXCEPT ![x] = errand[p].by]
  /\ Home(p)
  /\ UNCHANGED <<schedule, keeper, vars>>

\* import_hermes_lesson: the same library and lock, without an approval.
ImportLesson(x) ==
  /\ keeper = NoProc /\ consent[x] = None /\ library[x] = None
  /\ library' = [library EXCEPT ![x] = "hermes"]
  /\ UNCHANGED <<schedule, keeper, errand, consent, vars>>

\* delete_reusable_lesson holds the lock while it consumes and saves.
PayDelete(p, r, x) ==
  /\ errand[p] = Idle /\ keeper = NoProc /\ library[x] # None
  /\ Spend(p, r, "learning_delete", x)
  /\ keeper' = p
  /\ Sent(p, "delete", x, r)
  /\ UNCHANGED <<schedule, library, consent>>

DeleteLesson(p) ==
  /\ OnErrand(p, "delete")
  /\ library' = [library EXCEPT ![errand[p].on] = None]
  /\ keeper' = NoProc
  /\ Home(p)
  /\ UNCHANGED <<schedule, consent, vars>>

\* A call raises or its process dies; the lock goes with it.
QuitErrand(p) ==
  /\ errand[p] # Idle
  /\ keeper' = IF keeper = p THEN NoProc ELSE keeper
  /\ Home(p)
  /\ UNCHANGED <<schedule, library, consent, vars>>

RecordPurposes ==
  {<<"hermes_schedule", ScheduleTarget>>}
    \cup ({"learning_export"} \X Lessons) \cup ({"learning_delete"} \X Shared)

RecordNext ==
  \/ \E p \in Procs, r \in Requests, j \in Jobs : PaySchedule(p, r, j)
  \/ \E p \in Procs, j \in Jobs : LoadUnschedule(p, j)
  \/ \E p \in Procs, due \in SUBSET Jobs : LoadDue(p, due)
  \/ \E p \in Procs : LoadAdd(p) \/ SaveSchedule(p) \/ DeleteLesson(p) \/ QuitErrand(p)
  \/ \E p \in Procs, r \in Requests, l \in Lessons : PayExport(p, r, l)
  \/ \E p \in Procs, x \in Shared : ExportLesson(p, x)
  \/ \E x \in Shared : ImportLesson(x)
  \/ \E p \in Procs, r \in Requests, x \in Shared : PayDelete(p, r, x)
  \/ \E r \in Requests, x \in RecordPurposes : AskFor(r, x[1], x[2]) /\ UNCHANGED recordVars
  \/ \E r \in Requests : Approve(r) /\ UNCHANGED recordVars

RecordSpec == Init /\ RecordInit /\ [][RecordNext]_<<recordVars, vars>>

-----------------------------------------------------------------------------
(* Properties.                                                             *)

\* The jobs a version of the schedule lists.
InSchedule(s) == {j \in Jobs : s[j] # None}

Exported == {x \in Shared : library[x] \in Lessons}

\* However saves overwrite each other and calls die between their approval and
\* their save: every task on the schedule, or on a copy that may yet be saved,
\* and every project lesson in the library has an approval of its own that was
\* consumed for just that, and no lesson is exported twice
\* (hermes_schedule_task, promote_reusable_lesson).
RecordsAreConsented ==
  LET schedules == {schedule} \cup {errand[p].copy : p \in {q \in Procs : OnErrand(q, "save")}}
      listed    == UNION {InSchedule(s) : s \in schedules}
  IN /\ \A j \in listed : consent[j] \in Consumed("hermes_schedule", ScheduleTarget)
     /\ \A x \in Exported : consent[x] \in Consumed("learning_export", library[x])
     /\ \A x, y \in listed \cup Exported : consent[x] = consent[y] => x = y
     /\ \A x, y \in Exported : library[x] = library[y] => x = y
================================================================================
