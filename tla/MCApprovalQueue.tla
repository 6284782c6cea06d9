--------------------------- MODULE MCApprovalQueue ---------------------------
(***************************************************************************)
(* The approval queue and its clients, for TLC.  The clients share nothing *)
(* but the queue, and an approval of one never fits another's call, so     *)
(* each behaviour follows one of them; "queue" lets any process make any   *)
(* call of the queue.                                                      *)
(***************************************************************************)
EXTENDS ApprovalClients, TLC

CONSTANTS none, noProc, acc1, userA

VARIABLE focus   \* the client a behaviour follows

MCNone        == none
MCSensitive   == {"browser_submit", "delete_file"}
MCExternal    == {"browser_submit"}

Call(a, t, u, acc, con) ==
  [action |-> a, target |-> t, user |-> u, account |-> acc, connector |-> con, key |-> none]

QueueScopes == {
  Call("browser_submit",   "page",        userA, acc1, "shop"),
  Call("browser_submit",   "page_secret", none,  acc1, "shop"),
  Call("browser_submit",   "page",        userA, none, "shop"),
  Call("delete_file",      "other",       userA, none, none),
  Call("create_asset",     "other",       none,  none, none) }

MCScopes ==
  QueueScopes \cup {Call(x[1], x[2], u, none, none) : x \in ClientPurposes, u \in {userA, none}}

\* Two spellings of one page that differ in a redacted query parameter.
MCCanon == [t \in {q.target : q \in MCScopes} \cup {""} |-> IF t = "page_secret" THEN "page" ELSE t]

\* Bounds: one workflow when it is started by hand; for skills one approval
\* on its way and one text edited by hand.
OneWorkflow    == Cardinality({f \in Flows : flow'[f] # Absent}) <= 1
OneOutstanding == Cardinality({r \in Requests : status'[r] \in {"pending", "approved"}}) <= 1

OneEdited ==
  Cardinality({d \in Places : place'[d] \notin {Nothing, Broken} /\ place'[d].byHand}) <= 1

\* Of two calls at a time the second begins where one skill is all there is and
\* at most one approval was asked for; while they last no skill is edited by
\* hand and no approval asked for; and a behaviour ends where a call acts on
\* another skill than it loaded.
OneOverlap ==
  /\ Room /\ ~Room' =>
       /\ {d \in Places : Present(d)} \in {{"quarantine"}, {"drafts"}}
       /\ Cardinality({r \in Requests : status[r] # "absent"}) <= 1
  /\ ~Room => \A r \in Requests : status[r] = "absent" => status'[r] = "absent"
  /\ ~Room' => {d \in Places : place'[d] \notin {Nothing, Broken} /\ place'[d].byHand} = {}
  /\ ~mixed'

MCInit ==
  /\ ClientsInit
  /\ focus \in {"queue", "workflow", "orchestration", "skills", "mcp", "runtime", "records"}

MCNext ==
  /\ \/ focus = "queue" /\ ByOthers
     \/ focus = "workflow" /\ ByWorkflow /\ OneWorkflow
     \/ focus = "orchestration" /\ ByOrchestration
     \/ focus = "skills" /\ BySkills /\ OneOutstanding /\ OneEdited /\ OneOverlap
     \/ focus = "mcp" /\ ByMcp
     \/ focus = "runtime" /\ ByRuntime
     \/ focus = "records" /\ ByRecords
  /\ UNCHANGED focus

MCSpec == MCInit /\ [][MCNext]_<<clientVars, focus>>

Symmetry == Permutations(Procs) \cup Permutations(Requests)
==============================================================================
