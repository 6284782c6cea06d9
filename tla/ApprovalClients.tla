---------------------------- MODULE ApprovalClients ----------------------------
(***************************************************************************)
(* The approval queue with all of its clients at once: workflows and       *)
(* orchestrations, skills, MCP calls, the emergency stop, scheduled tasks  *)
(* and lessons, and others (connectors, the browser, a person at the       *)
(* command line) who use it for actions of their own.  The clients have    *)
(* their files apart and share the queue; a step is one client's.          *)
(***************************************************************************)
EXTENDS Lifecycle, SkillLibrary, McpRegistry, RuntimeQueue, ConsentedRecords

\* What each client asks approvals for: pairs of an action and a target.
GatePurposes  == {ApprovalAction[s] : s \in GateStages} \X Flows
SkillPurposes == SkillActions \X {SkillName}
ResumePurpose == {<<"runtime_resume", "guardian-runtime">>}

ClientPurposes ==
  GatePurposes \cup SkillPurposes \cup McpPurposes \cup ResumePurpose \cup RecordPurposes

ActionsOf(purposes) == {x[1] : x \in purposes}

\* What the clients present, and what is asked for them.
ASSUME ClientAssumption ==
  \A x \in ClientPurposes, u \in {None, DefaultUser} :
    [ClientScope(x[1], x[2]) EXCEPT !.user = u] \in Scopes

\* Any call of the queue, by any process, in these scopes.
QueueCalls(scopes) ==
  \/ \E r \in Requests, s \in scopes, e \in Expiries : RequestApproval(r, s, e)
  \/ \E r \in Requests : Approve(r)
  \/ \E p \in Procs, r \in Requests, c \in scopes : Reserve(p, r, c) \/ Consume(p, r, c)
  \/ \E p \in Procs, r \in Requests, c \in scopes \cup {None} : MarkUnknown(p, r, c)
  \/ \E p \in Procs : Crash(p)
  \/ Tick

OtherScopes == {s \in Scopes : s.action \notin ActionsOf(ClientPurposes)}

-----------------------------------------------------------------------------

clientVars == <<vars, lifeVars, skillVars, mcpVars, runtimeVars, recordVars>>

ByOthers ==
  QueueCalls(OtherScopes) /\ UNCHANGED <<lifeVars, skillVars, mcpVars, runtimeVars, recordVars>>
ByWorkflow ==
  WorkflowNext /\ UNCHANGED <<skillVars, mcpVars, runtimeVars, recordVars>>
ByOrchestration ==
  OrchestrationNext /\ UNCHANGED <<skillVars, mcpVars, runtimeVars, recordVars>>
BySkills ==
  SkillNext /\ UNCHANGED <<lifeVars, mcpVars, runtimeVars, recordVars>>
ByMcp ==
  McpNext /\ UNCHANGED <<lifeVars, skillVars, runtimeVars, recordVars>>
ByRuntime ==
  RuntimeNext /\ UNCHANGED <<lifeVars, skillVars, mcpVars, recordVars>>
ByRecords ==
  RecordNext /\ UNCHANGED <<lifeVars, skillVars, mcpVars, runtimeVars>>

ClientsInit == Init /\ LifeInit /\ SkillInit /\ McpInit /\ RuntimeInit /\ RecordInit

ClientsNext ==
  ByOthers \/ ByWorkflow \/ ByOrchestration \/ BySkills \/ ByMcp \/ ByRuntime \/ ByRecords

ClientsSpec == ClientsInit /\ [][ClientsNext]_clientVars

\* The queue and every client keep their types.
ClientsTypeOK ==
  /\ TypeOK /\ LifeTypeOK /\ SkillTypeOK /\ McpTypeOK /\ RuntimeTypeOK /\ RecordTypeOK
==============================================================================
