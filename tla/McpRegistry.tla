------------------------------ MODULE McpRegistry ------------------------------
(***************************************************************************)
(* The registry of MCP servers (mcp.py): a server is registered untrusted, *)
(* trusted with an approval, its tools are discovered, one is allowed with *)
(* the schema found, and called; a write-capable tool needs an approval    *)
(* for each call.                                                          *)
(*                                                                         *)
(* Every operation loads the whole registry and rewrites it without a      *)
(* lock, so what it saves may be older than what it overwrites.  One       *)
(* server with one tool is modelled; each registration of it is a command  *)
(* of its own, numbered.                                                   *)
(***************************************************************************)
EXTENDS ApprovalGate

CONSTANT MaxRegistrations  \* bound on registrations

ASSUME RegistrationAssumption == MaxRegistrations \in Nat

VARIABLES
  registry,   \* the record of the server in mcp-servers.json
  session,    \* process -> the operation it is in, with its copy
  drawn,      \* registrations so far
  vouched,    \* history: registrations an approval was spent on
  ran,        \* history: registrations whose command was started
  writes      \* history: calls of the tool in write mode

mcpVars == <<registry, session, drawn, vouched, ran, writes>>

Server == "server"
Tool   == "server:tool"
Modes  == {"read", "write"}

Record == [
  gen     : 0 .. MaxRegistrations,     \* 0: not registered
  trusted : BOOLEAN,
  found   : BOOLEAN,                   \* the tool is among discovered_tools
  allowed : Modes \cup {None}]         \* its mode in allowed_tools

Session == [op : {"save", "trust", "discover", "call"}, at : 1 .. 3, copy : Record]

McpTypeOK ==
  /\ registry \in Record
  /\ session  \in [Procs -> Session \cup {Idle}]
  /\ drawn    \in 0 .. MaxRegistrations
  /\ vouched  \subseteq 1 .. drawn
  /\ ran      \subseteq 1 .. drawn
  /\ writes   \in Nat

Registered(gen) == [gen |-> gen, trusted |-> FALSE, found |-> FALSE, allowed |-> None]

McpInit ==
  /\ registry = Registered(0)
  /\ session  = [p \in Procs |-> Idle]
  /\ drawn    = 0
  /\ vouched  = {}
  /\ ran      = {}
  /\ writes   = 0

-----------------------------------------------------------------------------

OpenSession(p, op, copy) ==
  /\ session[p] = Idle
  /\ session' = [session EXCEPT ![p] = [op |-> op, at |-> 1, copy |-> copy]]

At(p, op, at) == session[p] # Idle /\ session[p].op = op /\ session[p].at = at
Leave(p)      == session' = [session EXCEPT ![p] = Idle]
ToSave(p, copy) == session' = [session EXCEPT ![p] = [op |-> "save", at |-> 1, copy |-> copy]]

\* save_mcp_registry, the last step of whatever changed its copy.
SaveRegistry(p) ==
  /\ At(p, "save", 1)
  /\ registry' = session[p].copy
  /\ Leave(p)
  /\ UNCHANGED <<drawn, vouched, ran, writes, vars>>

\* Mutant: a server registered again keeps the trust of the old command.
RegisterKeepingTrust(p) ==
  /\ drawn < MaxRegistrations
  /\ drawn' = drawn + 1
  /\ OpenSession(p, "save", [registry EXCEPT !.gen = drawn + 1])
  /\ UNCHANGED <<registry, vouched, ran, writes, vars>>

\* register_mcp_server: a new record, without trust and without tools.
Register(p) ==
  /\ drawn < MaxRegistrations
  /\ drawn' = drawn + 1
  /\ OpenSession(p, "save", Registered(drawn + 1))
  /\ UNCHANGED <<registry, vouched, ran, writes, vars>>

\* trust_mcp_server: load, spend the approval, save.
LoadTrust(p) ==
  /\ registry.gen # 0
  /\ OpenSession(p, "trust", registry)
  /\ UNCHANGED <<registry, drawn, vouched, ran, writes, vars>>

PayTrust(p, r) ==
  /\ At(p, "trust", 1)
  /\ Spend(p, r, "mcp_trust_server", Server)
  /\ ToSave(p, [session[p].copy EXCEPT !.trusted = TRUE])
  /\ vouched' = vouched \cup {session[p].copy.gen}
  /\ UNCHANGED <<registry, drawn, ran, writes>>

\* discover_mcp_tools: the command of the record loaded first is started, and
\* what it advertises goes into the record loaded after that.
LoadDiscover(p) ==
  /\ registry.trusted
  /\ OpenSession(p, "discover", registry)
  /\ UNCHANGED <<registry, drawn, vouched, ran, writes, vars>>

ListTools(p, found) ==
  /\ At(p, "discover", 1)
  /\ ran' = ran \cup {session[p].copy.gen}
  /\ session' = [session EXCEPT ![p] =
                   [op |-> "discover", at |-> 2, copy |-> [@.copy EXCEPT !.found = found]]]
  /\ UNCHANGED <<registry, drawn, vouched, writes, vars>>

StoreTools(p) ==
  /\ At(p, "discover", 2)
  /\ ToSave(p, [registry EXCEPT !.found = session[p].copy.found])
  /\ UNCHANGED <<registry, drawn, vouched, ran, writes, vars>>

\* allow_mcp_tool pins the schema last discovered.
Allow(p, mode) ==
  /\ registry.trusted /\ registry.found
  /\ OpenSession(p, "save", [registry EXCEPT !.allowed = mode])
  /\ UNCHANGED <<registry, drawn, vouched, ran, writes, vars>>

LoadCall(p) ==
  /\ registry.trusted /\ registry.allowed # None
  /\ OpenSession(p, "call", registry)
  /\ UNCHANGED <<registry, drawn, vouched, ran, writes, vars>>

\* call_mcp_tool starts the command and compares the schema it advertises
\* with the pinned one: the same, or the call is refused.
CheckTool(p, same) ==
  /\ At(p, "call", 1)
  /\ ran' = ran \cup {session[p].copy.gen}
  /\ IF same
     THEN session' = [session EXCEPT ![p].at = IF session[p].copy.allowed = "write" THEN 2 ELSE 3]
     ELSE Leave(p)
  /\ UNCHANGED <<registry, drawn, vouched, writes, vars>>

PayCall(p, r) ==
  /\ At(p, "call", 2)
  /\ Spend(p, r, "mcp_write_tool", Tool)
  /\ session' = [session EXCEPT ![p].at = 3]
  /\ UNCHANGED <<registry, drawn, vouched, ran, writes>>

\* The command is started again for the call itself.
RunTool(p) ==
  /\ At(p, "call", 3)
  /\ ran' = ran \cup {session[p].copy.gen}
  /\ writes' = IF session[p].copy.allowed = "write" THEN writes + 1 ELSE writes
  /\ Leave(p)
  /\ UNCHANGED <<registry, drawn, vouched, vars>>

\* A process dies, or its session with the server fails.
LeaveSession(p) ==
  /\ session[p] # Idle
  /\ Leave(p)
  /\ UNCHANGED <<registry, drawn, vouched, ran, writes, vars>>

McpPurposes == {<<"mcp_trust_server", Server>>, <<"mcp_write_tool", Tool>>}

McpNext ==
  \/ \E p \in Procs :
       \/ SaveRegistry(p) \/ Register(p) \/ LoadTrust(p) \/ LoadDiscover(p) \/ StoreTools(p)
       \/ LoadCall(p) \/ RunTool(p) \/ LeaveSession(p)
  \/ \E p \in Procs, r \in Requests : PayTrust(p, r) \/ PayCall(p, r)
  \/ \E p \in Procs, yes \in BOOLEAN : ListTools(p, yes) \/ CheckTool(p, yes)
  \/ \E p \in Procs, mode \in Modes : Allow(p, mode)
  \/ \E r \in Requests, x \in McpPurposes : AskFor(r, x[1], x[2]) /\ UNCHANGED mcpVars
  \/ \E r \in Requests : Approve(r) /\ UNCHANGED mcpVars

McpSpec == Init /\ McpInit /\ [][McpNext]_<<mcpVars, vars>>

-----------------------------------------------------------------------------
(* Properties.                                                             *)

\* However the unlocked operations overlap and overwrite each other, the
\* command of a registration is started only if a trust approval was spent on
\* that very registration, each approval vouches for one registration only,
\* and the tool is called in write mode at most once for each approval of such
\* a call (register_mcp_server, trust_mcp_server, call_mcp_tool).
RunsAreVouchedFor ==
  /\ ran \subseteq vouched
  /\ \A rec \in {registry} \cup {session[p].copy : p \in {q \in Procs : session[q] # Idle}} :
       rec.trusted => rec.gen \in vouched
  /\ Cardinality(vouched) <= Cardinality(Consumed("mcp_trust_server", Server))
  /\ writes <= Cardinality(Consumed("mcp_write_tool", Tool))
==============================================================================
